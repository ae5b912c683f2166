----------------------------- MODULE RawProgram -----------------------------
(***************************************************************************)
(* -x: XML files of commands (src/src/partition.cpp), programmed by way of *)
(* a flash programmer that speaks Firehose, each with the patch file that  *)
(* belongs to it, or to a disk of the computer (src/src/emmcdl.cpp).       *)
(*                                                                         *)
(* A command is chosen when its file is read so far; log keeps them all.   *)
(***************************************************************************)
EXTENDS PartitionImage, FiniteSetsExt, SequencesExt

CONSTANTS
  MaxFiles,     \* bound: XML files on the command line
  MaxCommands   \* bound: commands in all of them

ASSUME RawProgramAssumption == MaxFiles \in Nat \ {0} /\ MaxCommands \in Nat

(* What files place two sectors from the end of a disk is on it.           *)
ASSUME RawFits == DiskSectors >= 2

VARIABLES
  files,        \* XML files there are; 0: another invocation
  nth,          \* the one that is read
  patching,     \* or is it the patch file behind it?
  log,          \* commands so far, by file
  refused       \* those that did not succeed

rawVars == <<files, nth, patching, log, refused>>

-----------------------------------------------------------------------------
(* An expression: a number or NUM_DISK_SECTORS, and operators with what is *)
(* behind each.                                                            *)
NumDiskSectors == -1
Expression(first, ops) == [first |-> first, ops |-> ops]
With(op, by) == [op |-> op, by |-> by]

Apply(op, a, b) ==
  CASE op = "*" -> a * b [] op = "/" -> a \div b [] op = "-" -> a - b [] op = "+" -> a + b

(* ParseXMLEvaluate tries * / - + in this order, on the first of its kind; *)
(* every one it finds starts again from the first number.                  *)
Order(op) == CASE op = "*" -> 1 [] op = "/" -> 2 [] op = "-" -> 3 [] op = "+" -> 4

Value(x, sectors) ==
  LET a == IF x.first = NumDiskSectors THEN sectors ELSE x.first
      found == {w.op : w \in Range(x.ops)}
      last == CHOOSE op \in found :
                \A other \in found : Order(other) <= Order(op)
      first == CHOOSE m \in DOMAIN x.ops :
                 x.ops[m].op = last /\ \A l \in 1 .. m - 1 : x.ops[l].op # last
  IN  IF found = {} THEN a ELSE Apply(last, a, x.ops[first].by)

(* (mutated: the number of the last sector, not of the sectors)            *)
EvaluateLast(x) == Value(x, IF target = "device" THEN 0 ELSE DiskSectors - 1)
Evaluate(x) == Value(x, Known)

(* The start sectors that files have: of an expression with NUM_DISK_SECTORS *)
(* only what is so far from the end means the same to both targets.        *)
Somewhere == Expression(1, <<>>)
FromEnd == Expression(NumDiskSectors, <<With("-", 2)>>)
Product == Expression(2, <<With("*", 2)>>)

Command(kind, of, from, at, num, lun) ==
  [kind |-> kind, file |-> of, from |-> from, at |-> at, num |-> num, lun |-> lun]

Absent == -1    \* file_sector_offset, or num_partition_sectors, is not there
NoFile == File("missing", 0, <<>>)
SparseFile == File("sparse", 2, <<[type |-> "raw", size |-> 1], [type |-> "raw", size |-> 1]>>)

(* A number of sectors that is not there is -1 as well.                    *)
Programs ==
  {Command("program", File("raw", 3, <<>>), w[1], w[2], w[3], w[4]) : w \in
     {<<0, Somewhere, 0, 0>>, <<0, Product, 0, 0>>, <<0, FromEnd, 2, Luns>>,
      <<Absent, Somewhere, 2, 0>>, <<1, Somewhere, 0, 0>>, <<0, Somewhere, Absent, Luns>>}}
    \union {Command("program", File("ZERO", 0, <<>>), 0, x, 1, 0) : x \in {Somewhere, FromEnd}}
    \union {Command("program", f, 0, Somewhere, 2, 0) : f \in {NoFile, SparseFile}}
Patches == {Command("patch", NoFile, 0, w[1], 1, w[2]) : w \in
              {<<Somewhere, 0>>, <<FromEnd, 0>>, <<FromEnd, Luns>>}}

(* "other": no command is found in the element, which is left to the       *)
(* protocol.  "nothing": an empty line, an end tag, an empty file name, a  *)
(* patch of a file, a search path, or a command without start_sector,      *)
(* physical_partition_number or filename.                                  *)
Others == {Command(kind, NoFile, 0, Somewhere, 1, 0) : kind \in {"read", "other", "nothing"}}

Commands == IF patching THEN Patches \union Others ELSE Programs \union Patches \union Others

RawInit ==
  /\ files \in 1 .. MaxFiles
  /\ nth = 1 /\ patching = FALSE /\ log = <<>> /\ refused = {}
  /\ pc = "open"

-----------------------------------------------------------------------------
(* PreLoadImage.  A file that is not there ends it all, a patch file that  *)
(* is not there nothing.                                                   *)
OpenFile ==
  /\ pc = "open"
  /\ \/ status' = "SUCCESS" /\ pc' = "next" /\ UNCHANGED patching
     \/ /\ ~patching
        /\ status' = "FAULT" /\ pc' = "done" /\ UNCHANGED patching
     \/ patching /\ pc' = "between" /\ UNCHANGED <<status, patching>>
  /\ UNCHANGED <<target, entry, disk, failed, files, nth, log, refused>>

(* (mutated: nothing but its end ends a file)                              *)
NeverBroken == FALSE
Broken == status # "SUCCESS"

Refused == IF status # "SUCCESS" THEN refused \union {Len(log)} ELSE refused

(* A command is read: ParseXMLKey.                                         *)
Reads(c) ==
  /\ pc = "next" /\ ~Broken /\ Len(log) < MaxCommands
  /\ log' = Append(log, [c |-> c, nth |-> nth, patch |-> patching])
  /\ refused' = Refused
  /\ UNCHANGED <<files, nth, patching>>

(* Without an offset in the file Firehose begins at 0, and the disk writer *)
(* reads at -1, which fails.                                               *)
ProgramCommand ==
  /\ \E c \in Commands :
       /\ c.kind = "program" /\ Reads(c)
       /\ entry' = [file |-> IF c.from = Absent /\ target = "disk" THEN NoFile ELSE c.file,
                    from |-> IF c.from = Absent THEN 0 ELSE c.from,
                    at |-> Evaluate(c.at), num |-> c.num, lun |-> c.lun]
  /\ pc' = "entry"
  /\ UNCHANGED <<target, disk, status, failed>>

(* A patch of the disk: the device gets the command as it is, expressions  *)
(* and all; the disk writer skips it (bPatchDisk is never set).            *)
PatchedAt(c) == Resolved(Value(c.at, DiskSectors))

Patched(d, c) == [d EXCEPT ![c.lun][PatchedAt(c)] = @ + 100]

PatchCommand ==
  /\ \E c \in Commands :
       /\ c.kind = "patch" /\ Reads(c)
       /\ \/ /\ disk' = IF target = "device" THEN Patched(disk, c) ELSE disk
             /\ UNCHANGED <<status, failed>>
          \/ /\ target = "device"
             /\ status' = "FAULT" /\ failed' = TRUE /\ UNCHANGED disk
  /\ UNCHANGED <<target, pc, entry>>

(* DumpDiskContents, which changes no disk, or a command of the device's;  *)
(* the disk writer has none.                                               *)
OtherCommand ==
  /\ \E c \in Commands :
       /\ c.kind \in {"read", "other"} /\ Reads(c)
       /\ \/ ~(c.kind = "other" /\ target = "disk") /\ UNCHANGED <<status, failed>>
          \/ status' = "FAULT" /\ failed' = TRUE
  /\ UNCHANGED <<target, pc, entry, disk>>

NoCommand ==
  /\ \E c \in Commands : c.kind = "nothing" /\ Reads(c)
  /\ UNCHANGED entryVars

(* The end of a file.  Firehose: a failure ends it all, else the patch     *)
(* file is next, if the name is one of a rawprogram file; what becomes of  *)
(* that is not looked at.  Disk: the next file is opened in any case.      *)
FileEnds ==
  /\ pc = "next" /\ refused' = Refused
  /\ \/ /\ target = "device" /\ ~patching /\ Broken
        /\ pc' = "done" /\ UNCHANGED <<status, patching>>
     \/ /\ target = "device" /\ ~patching /\ ~Broken
        /\ patching' = TRUE /\ pc' = "open" /\ UNCHANGED status
     \/ /\ patching \/ target = "disk" \/ ~Broken
        /\ status' = IF patching THEN "SUCCESS" ELSE status
        /\ pc' = "between" /\ UNCHANGED patching
  /\ UNCHANGED <<target, entry, disk, failed, files, nth, log>>

NextFile ==
  /\ pc = "between" /\ patching' = FALSE
  /\ IF nth < files THEN nth' = nth + 1 /\ pc' = "open"
     ELSE UNCHANGED nth /\ pc' = "done"
  /\ UNCHANGED <<target, entry, disk, status, failed, files, log, refused>>

RawNext ==
  \/ OpenFile \/ ProgramCommand \/ PatchCommand \/ OtherCommand \/ NoCommand
  \/ FileEnds \/ NextFile
  \/ ProgramPartitionEntry /\ UNCHANGED rawVars

-----------------------------------------------------------------------------
(* The arithmetic of an expression with one operator.                      *)
Meant(x) ==
  LET a == IF x.first = NumDiskSectors THEN DiskSectors ELSE x.first
  IN  IF x.ops = <<>> THEN a ELSE Apply(x.ops[1].op, a, x.ops[1].by)

(* (On a local disk zeros cover the rest of the writer's buffer as well.)  *)
Covers(c, n, k) ==
  /\ c.kind = "program" /\ Where(c.lun) = n
  /\ k - Meant(c.at) \in 0 .. SectorsToWrite(c) - 1

PatchesOf(n, k, m) ==
  {p \in m + 1 .. Len(log) : /\ p \notin refused /\ target = "device"
                             /\ log[p].c.kind = "patch"
                             /\ log[p].c.lun = n /\ Meant(log[p].c.at) = k}

(* Success of the files that are reported on (all of a device's, the last  *)
(* of a disk's), none of whose programs is of a sparse file, means that    *)
(* every sector holds what the last command that covers it says, with the  *)
(* patches behind it that were not refused (junk, where its offset makes   *)
(* it go on behind its file), and no other sector is touched.  A local     *)
(* disk's failures are not all noticed: there, if nothing failed.          *)
NoSparse == \A m \in 1 .. Len(log) : log[m].c.file.kind # "sparse"

Reporting == files > 0 /\ (target = "device" \/ (files = 1 /\ ~failed))

CommandsDone ==
  Reporting /\ pc = "done" /\ status = "SUCCESS" /\ NoSparse =>
    \A n \in 0 .. Luns, k \in 0 .. DiskSectors - 1 :
      LET covering == {m \in 1 .. Len(log) : Covers(log[m].c, n, k)}
          last == Max(covering \union {0})
          c == log[last].c
          held == IF last = 0 THEN Blank
                  ELSE Data(c, Max({c.from, 0}) + k - Meant(c.at))
      IN  disk[n][k] = held + 100 * Cardinality(PatchesOf(n, k, last))

(* A command that is refused is the last of its file; it is reported, and  *)
(* nothing is done behind it, but that a patch file may fail and that the  *)
(* disk writer goes on with the next file and reports on the last.         *)
RefusalEnds ==
  files > 0 => \A b \in refused :
    /\ b < Len(log) =>
         log[b + 1].nth # log[b].nth /\ (log[b].patch \/ target = "disk")
    /\ pc = "done" /\ ~log[b].patch /\ (target = "device" \/ log[b].nth = files)
         => status # "SUCCESS"
=============================================================================
