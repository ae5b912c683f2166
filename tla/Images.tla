------------------------------- MODULE Images -------------------------------
(***************************************************************************)
(* An invocation of src/src/emmcdl.cpp that writes an image: a full flash  *)
(* update image (-ffu, or -splitffu and then -x), or a file to a partition *)
(* or a sector (-b), or zeros to a partition (-e), or a partition or a     *)
(* range to a file (-d), or what XML files say (-x).                       *)
(***************************************************************************)
EXTENDS FfuImage, PartitionTable, RawProgram

VARIABLE tool   \* "ffu", "table" or "xml"

vars == <<entryVars, ffuVars, tableVars, rawVars, tool>>

Init ==
  /\ tool \in {"ffu", "table", "xml"} /\ target \in {"device", "disk"}
  /\ disk = [n \in 0 .. Luns |-> [k \in 0 .. DiskSectors - 1 |-> Blank]]
  /\ status = "SUCCESS" /\ failed = FALSE
  /\ entry = [file |-> File("ZERO", 0, <<>>), from |-> 0, at |-> 0, num |-> 0, lun |-> 0]
  /\ IF tool = "ffu" THEN FfuInit
     ELSE split = FALSE /\ image = <<>> /\ Fresh
  /\ IF tool = "table" THEN TableInit
     ELSE /\ request = "none" /\ given = [at |-> 0, num |-> 0] /\ file = entry.file
          /\ tables = <<>> /\ lun = 0 /\ found = NotFound /\ out = <<>>
  /\ IF tool = "xml" THEN RawInit
     ELSE /\ files = 0 /\ nth = 0 /\ patching = FALSE
          /\ log = <<>> /\ refused = {}

Next ==
  \/ tool = "ffu" /\ FfuNext /\ UNCHANGED <<tableVars, rawVars, tool>>
  \/ tool = "table" /\ TableNext /\ UNCHANGED <<ffuVars, rawVars, tool>>
  \/ tool = "xml" /\ RawNext /\ UNCHANGED <<ffuVars, tableVars, tool>>

Spec == Init /\ [][Next]_vars

-----------------------------------------------------------------------------
(* Types.  No run or entry reaches behind the payload of its image; each   *)
(* is for a disk that exists, or the one number of an unknown GUID.        *)
InImage(r) ==
  /\ r.lun \in 0 .. Unknown /\ r.num > 0
  /\ r.from >= First /\ r.from + r.num <= r.file.sectors

TypeOK ==
  /\ pc \in {"gpt", "blocks", "last", "find", "dump", "open", "between", "entry", "next", "done"}
  /\ status \in {"SUCCESS", "FAULT", "INVALID_DATA", "FILE_NOT_FOUND"}
  /\ \A n \in 0 .. Luns, k \in 0 .. DiskSectors - 1 : disk[n][k] \in Int
  /\ DOMAIN disk = 0 .. Luns
  /\ \A n \in 1 .. Len(todo) : InImage(todo[n])
  /\ \A n \in 1 .. Len(xml) : InImage(xml[n])
  /\ tool = "table" => lun \in 0 .. Luns + 1
  /\ entry.lun \in 0 .. Unknown
=============================================================================
