---------------------------- MODULE DiskFastCopy ----------------------------
(***************************************************************************)
(* DiskWriter::FastCopy without zlib (src/src/diskwriter.cpp): a file, or  *)
(* zeros, copied to a disk with overlapped writes.  While one buffer is    *)
(* being written the other is filled; a write is waited for before the     *)
(* next one starts, and its length is added to the offset only then.       *)
(*                                                                         *)
(* The disk takes the sectors of a pending write one by one, at its own    *)
(* pace, out of the buffer as it then is; it may fail, and a write may     *)
(* fail to start.  The unit is the sector; what a sector holds is the      *)
(* number of the sector of the file it was copied from.                    *)
(*                                                                         *)
(* Output to the console is taken to leave GetLastError() alone.           *)
(***************************************************************************)
EXTENDS Integers

CONSTANTS
  Sizes,       \* numbers of sectors to copy
  FileSizes,   \* sectors of the file behind sectorRead
  Stride       \* MAX_TRANSFER_SIZE / DISK_SECTOR_SIZE

ASSUME DiskAssumption ==
  /\ Sizes \subseteq Nat \ {0}
  /\ FileSizes \subseteq Nat
  /\ Stride \in Nat \ {0}

Zero == 0      \* a zeroed sector
Old == -1      \* what was there before

VARIABLES
  op,            \* "file", or "zero" when hRead is INVALID_HANDLE_VALUE
  sectors, fileSectors,
  pc,            \* "sparse", "read", "wait", "write", "end", "done"
  status,
  sec,           \* sectors seen to
  stride,        \* sectors of this round
  bytesRead,     \* sectors to write
  bBuffer1,      \* which buffer is this round's
  buffer,        \* buffer[TRUE] is buffer1, buffer[FALSE] is buffer2
  readOffset,    \* ovlRead.Offset
  writeOffset,   \* ovlWrite.Offset
  bWriteDone,
  lastError,     \* GetLastError()
  flight,        \* the overlapped write, see Flights
  disk,          \* the target, from sectorWrite on
  startFailed    \* has a write failed to start?

call == <<op, sectors, fileSectors>>
io == <<flight, disk, startFailed>>
vars == <<call, pc, status, sec, stride, bytesRead, bBuffer1, buffer, readOffset,
          writeOffset, bWriteDone, lastError, io>>

Smaller(a, b) == IF a < b THEN a ELSE b

(* A write: of len sectors of buffer[buf] to sector at, moved of which are *)
(* on the disk.                                                            *)
NoFlight == [state |-> "none", buf |-> TRUE, at |-> 0, len |-> 0, moved |-> 0]

(* The sectors of a round (mutated: always the whole buffer).              *)
WholeBuffer == stride
Chunk == Smaller(stride, sectors - sec)

(* The buffer of the next round (mutated: the same).                       *)
SameBuffer == bBuffer1
OtherBuffer == ~bBuffer1

(* What the failure e of a read makes of status (mutated: the end of the   *)
(* file is no failure).                                                    *)
EofForgiven(e) == IF e = "HANDLE_EOF" THEN "SUCCESS" ELSE e
StatusOfRead(e) == e

(* Does the round have to wait for the last write?                         *)
MustWait == ~bWriteDone

(* Where the next write goes when one of n sectors is complete (mutated:   *)
(* where the last one went).                                               *)
SameOffset(n) == writeOffset
NextOffset(n) == writeOffset + n

(* Is the last write waited for (mutated: it is not)?                      *)
NeverWait == FALSE
LastWait == ~bWriteDone /\ lastError = "IO_PENDING"

-----------------------------------------------------------------------------
Init ==
  /\ op \in {"file", "zero"} /\ sectors \in Sizes /\ fileSectors \in FileSizes
  /\ pc \in {"sparse", "read"} /\ status = "SUCCESS"
  /\ sec = 0 /\ stride = Stride
  /\ bytesRead = IF op = "zero" THEN Stride ELSE 0
  /\ bBuffer1 = TRUE
  /\ buffer = [b \in BOOLEAN |->
                 [k \in 1 .. Stride |-> IF op = "zero" THEN Zero ELSE Old]]
  /\ readOffset = 0 /\ writeOffset = 0
  /\ bWriteDone = TRUE /\ lastError = "none"
  /\ flight = NoFlight /\ startFailed = FALSE
  /\ disk = [k \in 1 .. sectors + Stride |-> Old]

(* With -sd, once given, the target is first to become a sparse file; if   *)
(* it cannot, nothing is copied.  That the call returned no bytes is       *)
(* written to bytesRead.                                                   *)
SetSparse ==
  /\ pc = "sparse"
  /\ \/ pc' = "read" /\ bytesRead' = 0 /\ UNCHANGED status
     \/ pc' = "done" /\ status' = "IO_ERROR" /\ UNCHANGED bytesRead
  /\ UNCHANGED <<call, sec, stride, bBuffer1, buffer, readOffset, writeOffset, bWriteDone,
                 lastError, io>>

ToWrite == IF MustWait THEN "wait" ELSE "write"

(* The top of a round: the file is read, and the read waited for.          *)
ReadBlock ==
  /\ pc = "read" /\ sec < sectors /\ op = "file"
  /\ stride' = Chunk
  /\ LET n == Smaller(Chunk, fileSectors - readOffset) IN
       /\ n > 0
       /\ buffer' = [buffer EXCEPT ![bBuffer1] =
                       [k \in 1 .. Stride |-> IF k <= n THEN readOffset + k ELSE @[k]]]
       /\ bytesRead' = n
       /\ readOffset' = readOffset + n
  /\ pc' = ToWrite
  /\ UNCHANGED <<call, status, sec, bBuffer1, writeOffset, bWriteDone, lastError, io>>

(* The end of the file, or a failing read, ends the copy.                  *)
ReadFails ==
  /\ pc = "read" /\ sec < sectors /\ op = "file"
  /\ stride' = Chunk /\ bytesRead' = 0
  /\ lastError' = IF readOffset = fileSectors THEN "HANDLE_EOF" ELSE "IO_ERROR"
  /\ status' = StatusOfRead(lastError')
  /\ pc' = "end"
  /\ UNCHANGED <<call, sec, bBuffer1, buffer, readOffset, writeOffset, bWriteDone, io>>

(* Without a file the buffers are zero already, and bytesRead stays what   *)
(* it was set to.                                                          *)
NothingToRead ==
  /\ pc = "read" /\ sec < sectors /\ op = "zero"
  /\ stride' = Chunk
  /\ readOffset' = readOffset + bytesRead
  /\ pc' = ToWrite
  /\ UNCHANGED <<call, status, sec, bytesRead, bBuffer1, buffer, writeOffset,
                 bWriteDone, lastError, io>>

(* GetOverlappedResult for the write of the round before: it is complete,  *)
(* and only now its length is added to the offset.                         *)
WaitWrite ==
  /\ pc = "wait" /\ flight.state = "complete"
  /\ bWriteDone' = TRUE /\ writeOffset' = NextOffset(flight.len)
  /\ pc' = "write"
  /\ UNCHANGED <<call, status, sec, stride, bytesRead, bBuffer1, buffer, readOffset,
                 lastError, io>>

WaitFails ==
  /\ pc = "wait" /\ flight.state \in {"failed", "unstarted"}
  /\ lastError' = "IO_ERROR" /\ status' = "IO_ERROR"
  /\ pc' = "end"
  /\ UNCHANGED <<call, sec, stride, bytesRead, bBuffer1, buffer, readOffset,
                 writeOffset, bWriteDone, io>>

(* The OVERLAPPED of a write that never started holds what the one before  *)
(* left in it: it may look like a complete write.                          *)
WaitUnstarted ==
  /\ pc = "wait" /\ flight.state = "unstarted"
  /\ bWriteDone' = TRUE
  /\ \E n \in {0, Stride} : writeOffset' = NextOffset(n)
  /\ pc' = "write"
  /\ UNCHANGED <<call, status, sec, stride, bytesRead, bBuffer1, buffer, readOffset,
                 lastError, io>>

(* WriteFile at the end of the round: complete at once, pending, or it     *)
(* cannot be started.  FALSE is kept as "not done yet" either way.         *)
EndRound ==
  /\ pc = "write"
  /\ sec' = sec + stride
  /\ bBuffer1' = OtherBuffer
  /\ pc' = IF sec + stride < sectors THEN "read" ELSE "end"
  /\ UNCHANGED <<call, status, stride, bytesRead, buffer, readOffset>>

WriteAtOnce ==
  /\ EndRound
  /\ disk' = [k \in DOMAIN disk |->
                IF k > writeOffset /\ k <= writeOffset + bytesRead
                THEN buffer[bBuffer1][k - writeOffset] ELSE disk[k]]
  /\ bWriteDone' = TRUE /\ writeOffset' = NextOffset(bytesRead)
  /\ flight' = NoFlight
  /\ UNCHANGED <<lastError, startFailed>>

WritePending ==
  /\ EndRound
  /\ flight' = [state |-> "busy", buf |-> bBuffer1, at |-> writeOffset,
                len |-> bytesRead, moved |-> 0]
  /\ bWriteDone' = FALSE /\ lastError' = "IO_PENDING"
  /\ UNCHANGED <<writeOffset, disk, startFailed>>

WriteNotStarted ==
  /\ EndRound
  /\ flight' = [NoFlight EXCEPT !.state = "unstarted"]
  /\ startFailed' = TRUE
  /\ bWriteDone' = FALSE /\ lastError' = "IO_ERROR"
  /\ UNCHANGED <<writeOffset, disk>>

(* Behind the loop.  (The write of "last bytes" there needs a loop left    *)
(* early with status SUCCESS, which does not happen: LoopComplete.)        *)
Finish ==
  /\ pc = "end"
  /\ LastWait => flight.state \in {"complete", "failed"}
  /\ status' = IF LastWait /\ flight.state = "failed" THEN "IO_ERROR" ELSE status
  /\ pc' = "done"
  /\ UNCHANGED <<call, sec, stride, bytesRead, bBuffer1, buffer, readOffset,
                 writeOffset, bWriteDone, lastError, io>>

Host ==
  \/ SetSparse \/ ReadBlock \/ ReadFails \/ NothingToRead
  \/ WaitWrite \/ WaitFails \/ WaitUnstarted
  \/ WriteAtOnce \/ WritePending \/ WriteNotStarted
  \/ Finish

-----------------------------------------------------------------------------
(* The disk, on a pending write.                                           *)
DiskMoves ==
  /\ flight.state = "busy" /\ flight.moved < flight.len
  /\ flight' = [flight EXCEPT !.moved = @ + 1]
  /\ disk' = [disk EXCEPT ![flight.at + flight.moved + 1] =
                buffer[flight.buf][flight.moved + 1]]
  /\ UNCHANGED <<call, pc, status, sec, stride, bytesRead, bBuffer1, buffer,
                 readOffset, writeOffset, bWriteDone, lastError, startFailed>>

DiskEnds ==
  /\ flight.state = "busy"
  /\ \E outcome \in {"complete", "failed"} :
       /\ outcome = "complete" => flight.moved = flight.len
       /\ flight' = [flight EXCEPT !.state = outcome]
  /\ UNCHANGED <<call, pc, status, sec, stride, bytesRead, bBuffer1, buffer,
                 readOffset, writeOffset, bWriteDone, lastError, disk, startFailed>>

Disk == DiskMoves \/ DiskEnds

Next == Host \/ Disk

(* The host runs, and a disk ends what it has begun.                       *)
Fairness == WF_vars(Host) /\ WF_vars(Disk)

Spec == Init /\ [][Next]_vars
FairSpec == Spec /\ Fairness

-----------------------------------------------------------------------------
Contents == {Zero, Old} \union Nat

(* Types; sec stays within the copy.                                       *)
TypeOK ==
  /\ op \in {"file", "zero"} /\ sectors \in Sizes /\ fileSectors \in FileSizes
  /\ pc \in {"sparse", "read", "wait", "write", "end", "done"}
  /\ status \in {"SUCCESS", "HANDLE_EOF", "IO_ERROR"}
  /\ sec \in 0 .. sectors /\ stride \in 0 .. Stride /\ bytesRead \in 0 .. Stride
  /\ bBuffer1 \in BOOLEAN /\ bWriteDone \in BOOLEAN /\ startFailed \in BOOLEAN
  /\ buffer \in [BOOLEAN -> [1 .. Stride -> Contents]]
  /\ readOffset \in Nat /\ writeOffset \in Nat
  /\ lastError \in {"none", "IO_PENDING", "HANDLE_EOF", "IO_ERROR"}
  /\ flight \in [state : {"none", "busy", "complete", "failed", "unstarted"},
                 buf : BOOLEAN, at : Nat, len : 0 .. Stride, moved : 0 .. Stride]
  /\ disk \in [1 .. sectors + Stride -> Contents]

(* While a write is under way nobody touches the buffer it is taken from.  *)
BufferLeftAlone ==
  [][flight.state = "busy" => buffer'[flight.buf] = buffer[flight.buf]]_vars

(* Behind the loop there is either a failure or nothing left to copy: the  *)
(* code for "last bytes" has no case.                                      *)
LoopComplete == pc = "end" /\ status = "SUCCESS" => sec = sectors

(* A copy touches nothing behind its last sector.                          *)
WithinRange == \A k \in DOMAIN disk : k > sectors => disk[k] = Old

(* No write is under way when FastCopy returns: its OVERLAPPED is on the   *)
(* stack, its event closed, its buffer the next operation's.               *)
NothingInFlight == pc = "done" => flight.state # "busy"

(* So it is when FastCopy returns SUCCESS.                                 *)
SuccessLands == status = "SUCCESS" => NothingInFlight

(* The copy as its caller sees it.  SUCCESS counts if the file holds all   *)
(* the sectors (a shorter one may end inside a round, which goes           *)
(* unnoticed) and every write could be started (the failure of the last to *)
(* start goes unnoticed).  Zeros to a sparse file are no bytes at all.     *)
Reported ==
  /\ pc = "done" /\ status = "SUCCESS"
  /\ ~startFailed
  /\ op = "file" => fileSectors >= sectors
  /\ op = "zero" => bytesRead = Stride

Range == IF op = "zero" THEN 1 .. sectors ELSE DOMAIN disk

Copy == INSTANCE BlockCopy WITH
  src <- [k \in Range |-> IF op = "zero" THEN Zero ELSE IF k > sectors THEN Old ELSE k],
  dst <- [k \in Range |-> disk[k]],
  result <- IF pc # "done" THEN "running"
            ELSE IF Reported THEN "SUCCESS" ELSE "ERROR"

(* Two buffers, a pending write and the offset that follows it implement a *)
(* block copy: SUCCESS means every sector, in its place, and of a file's   *)
(* none behind them (WithinRange); and FastCopy returns.                   *)
Copies == Copy!EndingSpec
=============================================================================
