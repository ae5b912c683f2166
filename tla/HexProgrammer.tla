---------------------------- MODULE HexProgrammer ----------------------------
(***************************************************************************)
(* Loading a flash programmer into the memory of a device that is in its   *)
(* boot loader's download mode: IsDeviceInDload and LoadFlashProg of       *)
(* src/src/dload.cpp.  The programmer is a text file of records: data with *)
(* the low part of its address, the upper part of those that follow, the   *)
(* address to start at, the end.  Data is gathered into chunks.            *)
(*                                                                         *)
(* The unit of data and of addresses is the data of a record.  Records are *)
(* chosen as they are read; meant is what they say.                        *)
(***************************************************************************)
EXTENDS Integers, Sequences

CONSTANTS
  MaxRecords,   \* bound: records of a file
  ChunkSize,    \* records gathered: 256 bytes
  Segment       \* records between two upper addresses: 64 KB

ASSUME HexAssumption == MaxRecords \in Nat /\ {ChunkSize, Segment} \subseteq Nat \ {0}

VARIABLES
  pc,           \* "nop", "record", "chunk", "go", "done"; the rest is for the caller
  status,
  broken,       \* has a SendSync failed?
  hexline,      \* the record that was read last
  records,      \* number of them
  upper, low,   \* where data would follow
  regular,      \* is all data of a chunk in one piece, and the end a record?
  ended,        \* has the end been read?
  chunk,        \* data gathered
  targetAddr, newAddr,
  meant,        \* by address: data of the file
  memory,       \* by address: data the device has
  running       \* has the device started the programmer?

fileVars == <<hexline, records, upper, low, regular, ended, meant>>
deviceVars == <<memory, running>>
hexVars == <<fileVars, chunk, targetAddr, newAddr, deviceVars>>

Addresses == 0 .. Segment * (MaxRecords + 1) + ChunkSize
Unwritten == 0

HexIdle ==
  /\ hexline = "none" /\ records = 0 /\ upper = 0 /\ low = 0
  /\ regular = TRUE /\ ended = FALSE
  /\ chunk = <<>> /\ targetAddr = 0 /\ newAddr = 0
  /\ meant = [a \in Addresses |-> Unwritten] /\ memory = meant
  /\ running = FALSE

(* An exchange: acknowledged, refused or not answered in time, or failed,  *)
(* by the port or an answer too long for rsp, which leaves in rsp what was *)
(* there: an acknowledgement, perhaps.                                     *)
Outcomes == {"ack", "refused", "nothing", "failure"}
Good(res) == CASE res = "ack" -> {TRUE} [] res = "failure" -> BOOLEAN [] OTHER -> {FALSE}
Exchange(res) == broken' = (broken \/ res = "failure")

IsDeviceInDload ==
  /\ pc = "nop"
  /\ \E res \in Outcomes :
       /\ Exchange(res)
       /\ IF res = "ack" THEN pc' = "record" /\ UNCHANGED status
                         ELSE pc' = "done" /\ status' = "INVALID_HANDLE"
  /\ UNCHANGED hexVars

NoProgrammer ==
  /\ pc = "record" /\ records = 0
  /\ pc' = "done" /\ status' = "FILE_ERROR"
  /\ UNCHANGED <<broken, hexVars>>

-----------------------------------------------------------------------------
(* Data is gathered: where it goes is what its first record says.          *)
Gather(at, data) ==
  /\ chunk' = Append(chunk, data)
  /\ targetAddr' = IF chunk = <<>> THEN (targetAddr \div Segment) * Segment + at
                                   ELSE targetAddr
  /\ pc' = IF Len(chunk') = ChunkSize THEN "chunk" ELSE pc

(* A record is read: data behind the last or, with a gap, further on; ...  *)
Reading == pc = "record" /\ ~ended /\ records < MaxRecords

DataRecord ==
  /\ Reading /\ hexline' = "data" /\ records' = records + 1
  /\ \E at \in {low, low + 1} :
       /\ at < Segment
       /\ regular' = (regular /\ (at = low \/ chunk = <<>>))
       /\ meant' = [meant EXCEPT ![upper + at] = records']
       /\ low' = at + 1
       /\ Gather(at, records')
  /\ UNCHANGED <<status, broken, upper, ended, newAddr, deviceVars>>

(* ... the address of the next segment or the end of the file, which end   *)
(* the chunk; or the entry, which does not.                                *)
OtherRecord ==
  /\ Reading /\ hexline' \in {"upper", "entry", "end"} /\ records' = records + 1
  /\ ended' = (hexline' = "end")
  /\ IF hexline' = "upper"
     THEN upper' = upper + Segment /\ low' = 0 /\ newAddr' = upper'
     ELSE UNCHANGED <<upper, low, newAddr>>
  /\ pc' = IF hexline' = "entry" THEN pc ELSE "chunk"
  /\ UNCHANGED <<status, broken, regular, meant, chunk, targetAddr, deviceVars>>

(* The file breaks off: the last record is still in hexline and is taken   *)
(* again, for ever if it was the entry.                                    *)
RecordAgain ==
  /\ pc = "record" /\ records > 0 /\ (ended \/ hexline # "end")
  /\ ended' = TRUE /\ regular' = FALSE
  /\ CASE hexline = "data" -> Gather(low - 1, records)
       [] hexline = "upper" -> pc' = "chunk" /\ UNCHANGED <<chunk, targetAddr>>
       [] OTHER -> UNCHANGED <<pc, chunk, targetAddr>>
  /\ UNCHANGED <<status, broken, hexline, records, upper, low, newAddr, meant, deviceVars>>

-----------------------------------------------------------------------------
(* What the device's memory is with the chunk.                             *)
WithChunk ==
  [a \in Addresses |->
     IF a - targetAddr + 1 \in DOMAIN chunk THEN chunk[a - targetAddr + 1] ELSE memory[a]]

(* Where the next chunk goes but for the low part of its address, of the   *)
(* file's last upper address (mutated: of this chunk's).                   *)
SameSegment == targetAddr
NextSegment == newAddr

(* The chunk is written, if there is any, ...                              *)
WriteChunk ==
  /\ pc = "chunk" /\ chunk # <<>>
  /\ \E res \in Outcomes : \E good \in Good(res), taken \in BOOLEAN :
       /\ Exchange(res)
       /\ res = "ack" => taken
       /\ res = "refused" => ~taken
       /\ memory' = IF taken THEN WithChunk ELSE memory
       /\ IF good THEN UNCHANGED status /\ pc' = IF ended THEN "go" ELSE "record"
                  ELSE status' = "WRITE_FAULT" /\ pc' = "done"
  /\ targetAddr' = NextSegment /\ chunk' = <<>>
  /\ UNCHANGED <<fileVars, newAddr, running>>

NoChunk ==
  /\ pc = "chunk" /\ chunk = <<>>
  /\ targetAddr' = NextSegment /\ pc' = IF ended THEN "go" ELSE "record"
  /\ UNCHANGED <<status, broken, fileVars, chunk, newAddr, deviceVars>>

(* ... and the programmer is started.                                      *)
Go ==
  /\ pc = "go" /\ pc' = "done"
  /\ \E res \in Outcomes : \E good \in Good(res) :
       /\ Exchange(res)
       /\ running' \in CASE res = "ack" -> {TRUE} [] res = "refused" -> {FALSE} [] OTHER -> BOOLEAN
       /\ status' = IF good THEN "SUCCESS" ELSE "WRITE_FAULT"
  /\ UNCHANGED <<fileVars, chunk, targetAddr, newAddr, memory>>

HexNext ==
  \/ IsDeviceInDload \/ NoProgrammer
  \/ DataRecord \/ OtherRecord \/ RecordAgain
  \/ WriteChunk \/ NoChunk \/ Go

-----------------------------------------------------------------------------
(* A programmer that is started, or reported as started, is in the memory  *)
(* of the device, every record of it at its address and nothing else,      *)
(* however it was cut into chunks and segments; as long as no SendSync     *)
(* failed, by the port or by the length of an answer.  (Behind a gap       *)
(* inside a chunk data is misplaced; behind a file without an end record   *)
(* the last data is repeated.)                                             *)
StartedWhole ==
  regular /\ ~broken =>
    /\ running => memory = meant
    /\ ended /\ pc = "done" /\ status = "SUCCESS" => running
=============================================================================
