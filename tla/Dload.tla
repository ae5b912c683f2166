------------------------------- MODULE Dload -------------------------------
(***************************************************************************)
(* The streaming download protocol (src/src/dload.cpp) as EDownloadProgram *)
(* of src/src/emmcdl.cpp uses it: connecting to the flash programmer, and  *)
(* then one image, or XML files each with its partition, and the end of    *)
(* the session; or the creation of drives (CreateGPP).  Loading the        *)
(* programmer, which comes before, is an operation of its own: its steps   *)
(* are those of HexProgrammer.                                             *)
(*                                                                         *)
(* Every exchange is a SendSync: a packet goes out, the next packet that   *)
(* comes in is taken for its answer, whatever it answers; after a while    *)
(* without one SendSync returns a length of 0.  If the port fails, once or *)
(* for good, or the packet is too long for the caller, it returns an error *)
(* and leaves the caller's answer and its length alone.                    *)
(*                                                                         *)
(* The unit is the sector, and what a sector holds is its number in the    *)
(* file.  The device holds what it has taken, and may lose what it has not *)
(* flushed when it is reset.                                               *)
(***************************************************************************)
EXTENDS HexProgrammer

CONSTANTS
  Operations,   \* "image", "xml", "gpp", "load"
  Files,        \* XML files of an invocation
  Sizes,        \* numbers of sectors to write
  FileSizes,    \* sectors the image files hold
  Attempts      \* passes of ConnectToFlashProg

ASSUME DloadAssumption ==
  /\ Operations \subseteq {"image", "xml", "gpp", "load"}
  /\ Sizes \subseteq Nat \ {0} /\ FileSizes \subseteq Nat
  /\ {Files, Attempts} \subseteq Nat \ {0}

Zero == 0       \* a zeroed sector
Blank == -1     \* not written

VARIABLES
  op, sectors, fileSectors,
  source,       \* of the entry: "file", "fileFrom" its middle, or "zero"
  waiting,      \* is SendSync waiting for the answer?
  i,            \* the counter of ConnectToFlashProg
  file,         \* number of the XML file
  count,        \* sectors read from the file
  offset,       \* sector of the device to write to
  rsp,          \* what FastCopySerial has in its answer buffer
  link,         \* "up" or "down"
  doubtful,     \* history: sectors counted by an answer before theirs, which
                \* was not taken (0: a partition opened by one)
  behind,       \* has an exchange ended with its answer still to come?
  inbox,        \* packets on their way to the device
  pipe,         \* packets on their way to the host
  mode,         \* the device: "away", "here", "gone"
  heard,        \* has it got a hello?
  opened,       \* the partition it has open, 0: none
  held,         \* what it holds, by partition and sector
  cached        \* of that, what it has not flushed

call == <<op, sectors, fileSectors, source>>
copy == <<count, offset, rsp, doubtful>>
device == <<mode, heard, opened, held, cached>>
hostVars == <<call, waiting, i, file, copy, link, behind, inbox, pipe, device>>
vars == <<hostVars, pc, status, broken, hexVars>>

(* pc: the exchange that is next: "hello", "security", "open", "patch",    *)
(* "program", "write", "active", "reset", "close", "gpp", "done".          *)

Smaller(a, b) == IF a < b THEN a ELSE b

(* What FastCopySerial is to write, of which there may be less; an image   *)
(* is written to its end.                                                  *)
Limit == IF op = "image" THEN fileSectors + 2 ELSE sectors
Available == IF source = "zero" THEN Limit ELSE fileSectors
Content(k) == IF source = "zero" THEN Zero ELSE k

(* Sectors of the next write, one or two (mutated: always two).            *)
TwoSectors == Smaller(2, Available + 1 - count)
Block == Smaller(IF count + 2 > Limit THEN 1 ELSE 2, Available - count)

(* Is a write acknowledged?  A SendSync that fails, as it does when the    *)
(* answer is too long for rsp, leaves the answer before there, with a      *)
(* length that is not 0 (mutated: whatever comes is good).                 *)
SyncFails == {"failure", "TOO_LONG"}
AnyPacket(res) == {res # "nothing"}
Acknowledged(res) ==
  IF res \notin SyncFails THEN {res = "STREAM_WRITE_RSP"}
  ELSE IF rsp = "junk" THEN BOOLEAN ELSE {rsp = "STREAM_WRITE_RSP"}

(* Where the next write goes (mutated: where this one did).                *)
SamePlace(n) == offset
NextOffset(n) == offset + n

(* The counter of ConnectToFlashProg behind the hello, which the security  *)
(* exchange goes on with (mutated: the hello counts, too).                 *)
Counted == i + 1
NotCounted == i

(* The counter behind an exchange that has failed (mutated: not counted).  *)
SameCount == i
NextCount == i + 1


Init ==
  /\ op \in Operations /\ sectors \in Sizes /\ fileSectors \in FileSizes
  /\ source \in {"file", "fileFrom", "zero"} /\ (op # "xml" => source = "file")
  /\ pc = (IF op = "load" THEN "nop" ELSE "hello") /\ HexIdle /\ waiting = FALSE /\ status = "SUCCESS"
  /\ i = 0 /\ file = 1 /\ count = 0 /\ offset = 0 /\ rsp = "junk"
  /\ doubtful = {} /\ link = "up" /\ behind = FALSE /\ broken = FALSE
  /\ inbox = <<>> /\ pipe = <<>>
  /\ mode \in {"away", "here"} /\ heard = FALSE /\ opened = 0
  /\ held = [f \in 1 .. Files |-> [k \in 1 .. sectors + fileSectors + 2 |-> Blank]]
  /\ cached = {}

-----------------------------------------------------------------------------
(* SendSync: the packet is written; a device that is away does not get it. *)
SendSync(kind, at, data) ==
  /\ ~waiting /\ link = "up"
  /\ waiting' = TRUE
  /\ inbox' = IF mode # "here" THEN inbox
              ELSE Append(inbox, [kind |-> kind, at |-> at, data |-> data])

(* Then a packet comes, which leaves rest in the pipe; a refusal is a text *)
(* that may be too long for the caller.  Or none comes in time; or the     *)
(* port fails, in the write or the read, be the link up or down (while it  *)
(* is up once in a session: a bound).                                      *)
Responses ==
  {"HELLO_RSP", "SECURITY_RSP", "OPEN_MULTI_RSP", "STREAM_DLOAD_RSP", "STREAM_WRITE_RSP",
   "RESET_ACK", "CLOSE_RSP", "ERROR"}
Results == Responses \union {"TOO_LONG", "nothing", "failure"}

Read(packet) == IF packet = "ERROR" THEN {"ERROR", "TOO_LONG"} ELSE {packet}

Returns(res, rest) ==
  /\ waiting' = FALSE
  /\ \/ /\ waiting /\ pipe # <<>>
        /\ res \in Read(Head(pipe)) /\ rest = Tail(pipe)
        /\ behind' = (behind \/ rest # <<>> \/ inbox # <<>>)
        /\ UNCHANGED broken
     \/ /\ waiting /\ pipe = <<>> /\ link = "up"
        /\ res = "nothing" /\ rest = pipe
        /\ behind' = (behind \/ inbox # <<>>)
        /\ UNCHANGED broken
     \/ /\ res = "failure" /\ rest = pipe
        /\ link = "down" \/ ~broken
        /\ broken' = TRUE /\ UNCHANGED behind

Rests == {pipe, SubSeq(pipe, 2, Len(pipe))}

(* The requests; OpenPartition flushes before it asks.                     *)
Ask ==
  /\ pc \in {"hello", "security", "open", "patch", "program", "active", "reset", "close", "gpp"}
  /\ SendSync(pc, file, <<>>)
  /\ pipe' = IF pc = "open" THEN <<>> ELSE pipe
  /\ UNCHANGED <<call, pc, status, i, file, copy, link, behind, broken, device>>

(* ConnectToFlashProg: the hello, until it is answered ...                 *)
Hello ==
  /\ pc = "hello"
  /\ \E res \in Results, rest \in Rests :
       /\ Returns(res, rest)
       /\ IF res = "HELLO_RSP"
          THEN pc' = "security" /\ i' = NotCounted /\ UNCHANGED status
          ELSE /\ i' = NextCount
               /\ IF i' = Attempts THEN pc' = "done" /\ status' = "INVALID_HANDLE"
                                   ELSE UNCHANGED <<pc, status>>
  /\ pipe' = <<>>
  /\ UNCHANGED <<call, file, copy, link, inbox, device>>

(* ... and, with what is left of the attempts, the security mode.          *)
Security ==
  /\ pc = "security"
  /\ \E res \in Results, rest \in Rests :
       /\ Returns(res, rest)
       /\ IF i < Attempts /\ res = "SECURITY_RSP"
          THEN pc' = "open" /\ pipe' = rest /\ i' = 0 /\ UNCHANGED status
          ELSE /\ pipe' = <<>> /\ i' = NextCount
               /\ IF i' >= Attempts THEN pc' = "done" /\ status' = "INVALID_HANDLE"
                                    ELSE UNCHANGED <<pc, status>>
  /\ UNCHANGED <<call, file, copy, link, inbox, device>>

(* The exchanges whose outcome nobody looks at: OpenPartition,             *)
(* GetNumDiskSectors in WriteRawProgramFile of the patch file and of the   *)
(* XML file, SetActivePartition, DeviceReset and, last, ClosePartition.    *)
AfterExchange ==
  CASE pc = "open"   -> IF op = "gpp" THEN {} ELSE {IF op = "image" THEN "write" ELSE "patch"}
    [] pc = "patch"  -> {"program"}
    [] pc = "program" -> IF source = "fileFrom" THEN {} ELSE {"write"}
    [] pc = "active" -> {"reset"}
    [] pc = "reset"  -> {"close"}
    [] pc = "close"  -> {"done"}
    [] OTHER         -> {}

Unchecked ==
  /\ pc' \in AfterExchange
  /\ \E res \in Results, rest \in Rests : Returns(res, rest) /\ pipe' = rest
  /\ status' = IF pc = "patch" THEN "SUCCESS" ELSE status
  /\ UNCHANGED <<call, i, file, link, inbox, device>>
  /\ IF pc' = "write" THEN count' = 0 /\ offset' = 0 /\ rsp' = "junk" /\ doubtful' = {}
                      ELSE UNCHANGED copy

(* CreateGPP looks at what OpenPartition returns, where a SendSync that    *)
(* fails leaves an answer that was never set, ...                          *)
OpenChecked ==
  /\ pc = "open" /\ op = "gpp"
  /\ \E res \in Results, rest \in Rests :
       /\ Returns(res, rest) /\ pipe' = rest
       /\ \E good \in IF res \in SyncFails THEN BOOLEAN ELSE {res = "OPEN_MULTI_RSP"} :
            /\ IF good THEN pc' = "gpp" /\ UNCHANGED status
                       ELSE pc' = "done" /\ status' = "INVALID_HANDLE"
            /\ doubtful' = IF good /\ res \in SyncFails THEN {0} ELSE doubtful
  /\ UNCHANGED <<call, i, file, count, offset, rsp, link, inbox, device>>

(* ... and returns what SendSync does, whatever the device answers.        *)
CreateGPP ==
  /\ pc = "gpp" /\ pc' = "done"
  /\ \E res \in Results, rest \in Rests :
       /\ Returns(res, rest) /\ pipe' = rest
       /\ status' = IF res \in SyncFails THEN "WRITE_FAULT" ELSE "SUCCESS"
  /\ UNCHANGED <<call, i, file, copy, link, inbox, device>>

(* What follows a file, whose status that of the next one replaces.        *)
Leave(s) ==
  /\ status' = s
  /\ IF op = "image" THEN pc' = "close" /\ UNCHANGED file
     ELSE IF file < Files THEN pc' = "open" /\ file' = file + 1
     ELSE pc' = "active" /\ UNCHANGED file

(* There is no image file, ...                                             *)
NoFile ==
  /\ pc = "write" /\ ~waiting /\ count = 0 /\ source = "file"
  /\ Leave("FILE_ERROR")
  /\ UNCHANGED <<call, waiting, i, copy, link, behind, broken, inbox, pipe, device>>

(* ... or no patch file, which ends it all; ...                            *)
NoPatchFile ==
  /\ pc = "patch"
  /\ \E res \in Results, rest \in Rests : Returns(res, rest) /\ pipe' = rest
  /\ pc' = "done" /\ status' = "FILE_ERROR"
  /\ UNCHANGED <<call, i, file, copy, link, inbox, device>>

(* ... no XML file; or the position that SetFilePointer returns is taken   *)
(* for a status.                                                           *)
NotProgrammed ==
  /\ pc = "program"
  /\ \E res \in Results, rest \in Rests : Returns(res, rest) /\ pipe' = rest
  /\ Leave(IF source = "fileFrom" THEN "OFFSET" ELSE "FILE_ERROR")
  /\ UNCHANGED <<call, i, copy, link, inbox, device>>

(* FastCopySerial: one or two sectors are read and written ...             *)
WriteBlock ==
  /\ pc = "write" /\ count < Limit /\ Block > 0
  /\ SendSync("write", offset, [k \in 1 .. Block |-> Content(count + k)])
  /\ UNCHANGED <<call, pc, status, i, file, copy, link, behind, broken, pipe, device>>

(* ... and the answer decides whether to go on.                            *)
BlockWritten ==
  /\ pc = "write" /\ count < Limit /\ Block > 0
  /\ \E res \in Results, rest \in Rests :
       /\ Returns(res, rest) /\ pipe' = rest
       /\ \E good \in Acknowledged(res) :
            IF good
            THEN /\ rsp' = IF res \in SyncFails THEN rsp ELSE res
                 /\ UNCHANGED <<pc, status, file>>
            ELSE rsp' = "junk" /\ Leave("WRITE_FAULT")
       /\ doubtful' = IF res \in SyncFails THEN doubtful \union (count + 1 .. count + Block)
                                            ELSE doubtful
  /\ count' = count + Block /\ offset' = NextOffset(Block)
  /\ UNCHANGED <<call, i, link, inbox, device>>

(* The end of what is to be written, or of the file.                       *)
CopyEnds ==
  /\ pc = "write" /\ ~waiting /\ (count >= Limit \/ Block = 0)
  /\ Leave("SUCCESS") /\ rsp' = "junk"
  /\ UNCHANGED <<call, waiting, i, count, offset, doubtful, link, behind, broken,
                 inbox, pipe, device>>

Host ==
  \/ Ask \/ Hello \/ Security \/ Unchecked
  \/ NoFile \/ NoPatchFile \/ NotProgrammed
  \/ WriteBlock \/ BlockWritten \/ CopyEnds \/ OpenChecked \/ CreateGPP

-----------------------------------------------------------------------------
(* The device re-enumerates, at some time.                                 *)
untouched == <<call, pc, waiting, status, i, file, copy, link, behind, broken>>

DeviceArrives ==
  /\ mode = "away" /\ mode' = "here"
  /\ UNCHANGED <<untouched, inbox, pipe, heard, opened, held, cached>>

(* It answers the next request.                                            *)
request == Head(inbox)

Answers(kinds, answer) ==
  /\ mode = "here" /\ inbox # <<>> /\ request.kind \in kinds
  /\ inbox' = Tail(inbox) /\ pipe' = Append(pipe, answer)

DeviceConnects ==
  /\ \/ Answers({"hello"}, "HELLO_RSP") /\ heard' = TRUE
     \/ Answers({"security"}, "SECURITY_RSP") /\ UNCHANGED heard
  /\ UNCHANGED <<untouched, mode, opened, held, cached>>

(* Opening a partition flushes and closes the one before.                  *)
DeviceOpens ==
  /\ Answers({"open"}, "OPEN_MULTI_RSP")
  /\ opened' = request.at /\ cached' = {}
  /\ UNCHANGED <<untouched, mode, heard, held>>

DeviceTells ==
  /\ Answers({"patch", "program", "active", "gpp"}, "STREAM_DLOAD_RSP")
  /\ UNCHANGED <<untouched, device>>

DeviceWrites ==
  /\ opened # 0 /\ Answers({"write"}, "STREAM_WRITE_RSP")
  /\ LET k(n) == n - request.at IN
       held' = [held EXCEPT ![opened] =
                  [n \in DOMAIN @ |->
                     IF k(n) \in DOMAIN request.data THEN request.data[k(n)] ELSE @[n]]]
  /\ cached' = cached \union
       {<<opened, request.at + n>> : n \in DOMAIN request.data}
  /\ UNCHANGED <<untouched, mode, heard, opened>>

(* It refuses, with a text.                                                *)
DeviceRefuses ==
  /\ Answers({"open", "patch", "program", "active", "write", "gpp"}, "ERROR")
  /\ UNCHANGED <<untouched, device>>

DeviceFlushes ==
  /\ cached # {} /\ cached' = {}
  /\ UNCHANGED <<untouched, inbox, pipe, mode, heard, opened, held>>

DeviceCloses ==
  /\ Answers({"close"}, "CLOSE_RSP")
  /\ opened' = 0 /\ cached' = {}
  /\ UNCHANGED <<untouched, mode, heard, held>>

(* A reset loses what is not flushed.                                      *)
DeviceResets ==
  /\ Answers({"reset"}, "RESET_ACK")
  /\ mode' = "gone" /\ opened' = 0 /\ cached' = {}
  /\ held' = [f \in DOMAIN held |->
                [n \in DOMAIN held[f] |-> IF <<f, n>> \in cached THEN Blank ELSE held[f][n]]]
  /\ UNCHANGED <<untouched, heard>>

Device ==
  \/ DeviceArrives \/ DeviceConnects \/ DeviceOpens \/ DeviceTells \/ DeviceWrites
  \/ DeviceRefuses \/ DeviceFlushes \/ DeviceCloses \/ DeviceResets

LinkDown ==
  /\ link = "up" /\ link' = "down"
  /\ inbox' = <<>> /\ pipe' = <<>>
  /\ UNCHANGED <<call, pc, waiting, status, i, file, copy, behind, broken, device>>

Streams == (Host \/ Device \/ LinkDown) /\ UNCHANGED hexVars
Loads == op = "load" /\ HexNext /\ UNCHANGED hostVars

Next == Streams \/ Loads

(* The host runs; a device may be as slow as it likes.                     *)
Spec == Init /\ [][Next]_vars
FairSpec == Spec /\ WF_vars(Host /\ UNCHANGED hexVars) /\ WF_vars(Loads)

-----------------------------------------------------------------------------
(* Types; a write goes on from the one before and no further than the      *)
(* entry.                                                                  *)
TypeOK ==
  /\ pc \in {"nop", "record", "chunk", "go", "hello", "security", "open", "patch",
             "program", "write", "active", "reset", "close", "gpp", "done"}
  /\ status \in {"SUCCESS", "INVALID_HANDLE", "FILE_ERROR", "OFFSET", "WRITE_FAULT"}
  /\ i \in 0 .. Attempts /\ file \in 1 .. Files
  /\ count \in 0 .. Limit /\ offset \in 0 .. Limit
  /\ rsp \in {"junk"} \union Results /\ doubtful \subseteq 0 .. Limit
  /\ opened \in 0 .. Files
  /\ cached \subseteq (1 .. Files) \X (1 .. sectors + fileSectors + 2)

(* While FastCopySerial goes on, the device holds every sector of the file *)
(* it counts as written, where it belongs, as long as no exchange ended    *)
(* before its answer came and the port has not failed, and the device has  *)
(* opened the partition (nobody looks at what OpenPartition returns).  An  *)
(* answer that is too long for rsp costs the sectors it answers, which are *)
(* counted by the answer before (dload.cpp:209), and no others.            *)
InOrder == ~behind /\ ~broken

HeldSoFar ==
  pc = "write" /\ ~waiting /\ InOrder /\ opened = file =>
    \A k \in (1 .. count) \ doubtful : held[file][k] = Content(k)

(* A device that hears a hello and answers in time is connected to: the    *)
(* attempts that the hello took leave one for the security mode at least.  *)
(* And drives are not reported as created on a device that has not heard   *)
(* one, nor opened the partition (whose answer, if it was too long, is     *)
(* whatever was in rsp).                                                   *)
Connects ==
  pc = "done" /\ InOrder =>
    /\ status = "INVALID_HANDLE" /\ op \in {"image", "xml"} => ~heard
    /\ status = "SUCCESS" /\ op = "gpp" => heard /\ (opened = file \/ 0 \in doubtful)

(* An image reported as downloaded is held by the device, as a block copy  *)
(* promises it (the comment "that means we sent it all" in FastCopySerial),*)
(* if every write was answered in order with an answer that rsp has room   *)
(* for, on a port that has not failed.  Without that the code may report   *)
(* SUCCESS of an image of which sectors are missing; it is an error here.  *)
Reported == op = "image" /\ pc = "done" /\ status = "SUCCESS"

Copy == INSTANCE BlockCopy WITH
  src <- [k \in 1 .. fileSectors |-> k],
  dst <- [k \in 1 .. fileSectors |-> held[1][k]],
  result <- IF pc # "done" THEN "running"
            ELSE IF Reported /\ InOrder /\ doubtful = {} THEN "SUCCESS" ELSE "ERROR"

Copies == Copy!Spec

(* The session ends, whatever the device does, and so does loading a file  *)
(* that has an end.                                                        *)
SessionEnds == <>(pc = "done" \/ ~regular)
=============================================================================
