------------------------ MODULE DiskFastCopy_proofs ------------------------
(***************************************************************************)
(* Proofs about DiskFastCopy, for every number of sectors, every file and  *)
(* every buffer size.                                                      *)
(***************************************************************************)
EXTENDS DiskFastCopy, TLAPS

(* The types the proofs need: of the host's variables, of the write.       *)
HostTypes ==
  /\ op \in {"file", "zero"} /\ sectors \in Nat /\ fileSectors \in Nat
  /\ pc \in {"sparse", "read", "wait", "write", "end", "done"}
  /\ status \in {"SUCCESS", "HANDLE_EOF", "IO_ERROR"}
  /\ sec \in 0 .. sectors /\ stride \in 0 .. Stride /\ bytesRead \in 0 .. Stride
  /\ readOffset \in Nat /\ writeOffset \in Nat
  /\ lastError \in {"none", "IO_PENDING", "HANDLE_EOF", "IO_ERROR"}

Booleans == bBuffer1 \in BOOLEAN /\ bWriteDone \in BOOLEAN /\ startFailed \in BOOLEAN

Flights == [state : {"none", "busy", "complete", "failed", "unstarted"},
            buf : BOOLEAN, at : Nat, len : Nat, moved : Nat]

(* Where the loop is.                                                      *)
LoopInv ==
  /\ pc \in {"wait", "write"} => stride > 0 /\ sec + stride <= sectors
  /\ pc \in {"sparse", "read"} => sec < sectors /\ stride > 0
  /\ pc = "end" /\ status = "SUCCESS" => sec = sectors
  /\ pc \in {"sparse", "read", "wait", "write"} => status = "SUCCESS"
  /\ pc = "sparse" => flight.state = "none"

(* A write under way is the last round's, out of the other buffer, and     *)
(* FastCopy remembers that it is pending.                                  *)
FlightInv ==
  /\ flight.state = "busy" => flight.buf # bBuffer1
  /\ pc = "write" \/ bWriteDone => flight.state # "busy"
  /\ pc = "wait" => ~bWriteDone
  /\ flight.state = "busy" /\ (pc \in {"read", "wait"} \/ (pc = "end" /\ status = "SUCCESS"))
       => lastError = "IO_PENDING"
  /\ pc = "done" /\ status = "SUCCESS" => flight.state # "busy"

Types == HostTypes /\ Booleans /\ flight \in Flights

IInv == Types /\ LoopInv /\ FlightInv

LEMMA InitInv == Init => IInv
<1> SUFFICES ASSUME Init PROVE IInv
  OBVIOUS
<1>1. sectors \in Nat \ {0} /\ fileSectors \in Nat /\ Stride \in Nat \ {0}
  BY DiskAssumption DEF Init
<1>2. Types
  <2>1. NoFlight \in Flights
    BY DEF NoFlight, Flights
  <2>2. /\ op \in {"file", "zero"} /\ pc \in {"sparse", "read"} /\ status = "SUCCESS"
        /\ sec = 0 /\ stride = Stride /\ readOffset = 0 /\ writeOffset = 0
        /\ lastError = "none"
    BY ZenonT(30) DEF Init
  <2>3. bytesRead \in 0 .. Stride
    <3>1. bytesRead = IF op = "zero" THEN Stride ELSE 0
      BY DEF Init
    <3> QED
      BY <3>1, <1>1
  <2>4. HostTypes
    BY <1>1, <2>2, <2>3 DEF HostTypes
  <2>5. Booleans
    BY ZenonT(30) DEF Init, Booleans
  <2> QED
    BY <2>1, <2>4, <2>5 DEF Init, Types
<1>3. LoopInv /\ FlightInv
  BY <1>1 DEF Init, LoopInv, FlightInv, NoFlight
<1> QED
  BY <1>2, <1>3 DEF IInv

LEMMA NextInv == IInv /\ [Next]_vars => IInv'
<1> SUFFICES ASSUME IInv, [Next]_vars PROVE IInv'
  OBVIOUS
<1> USE DiskAssumption DEF IInv, Types, HostTypes, Booleans, LoopInv, FlightInv, call, io, Chunk, Smaller,
        MustWait, ToWrite, NextOffset, OtherBuffer, LastWait
<1>1. CASE ReadBlock
  BY <1>1 DEF ReadBlock
<1>2. CASE ReadFails
  BY <1>2 DEF ReadFails, StatusOfRead
<1>3. CASE NothingToRead
  BY <1>3 DEF NothingToRead
<1>4. CASE WaitWrite
  BY <1>4 DEF WaitWrite, Flights
<1>5. CASE WaitFails
  BY <1>5 DEF WaitFails
<1>6. CASE WaitUnstarted
  BY <1>6 DEF WaitUnstarted
<1>7. CASE WriteAtOnce
  BY <1>7 DEF WriteAtOnce, EndRound, NoFlight, Flights
<1>8. CASE WritePending
  <2>1. flight' \in Flights /\ flight'.state = "busy" /\ flight'.buf = bBuffer1
    BY <1>8 DEF WritePending, Flights
  <2>2. HostTypes'
    BY <1>8 DEF WritePending, EndRound
  <2>3. Booleans'
    BY <1>8, ZenonT(30) DEF WritePending, EndRound
  <2>4. LoopInv' /\ FlightInv'
    BY <1>8, <2>1 DEF WritePending, EndRound
  <2> QED
    BY <2>1, <2>2, <2>3, <2>4
<1>9. CASE WriteNotStarted
  <2>1. flight' \in Flights /\ flight'.state = "unstarted"
    BY <1>9 DEF WriteNotStarted, NoFlight, Flights
  <2>2. HostTypes'
    BY <1>9 DEF WriteNotStarted, EndRound
  <2>3. Booleans'
    BY <1>9, ZenonT(30) DEF WriteNotStarted, EndRound
  <2>4. LoopInv' /\ FlightInv'
    BY <1>9, <2>1 DEF WriteNotStarted, EndRound
  <2> QED
    BY <2>1, <2>2, <2>3, <2>4
<1>10. CASE Finish
  BY <1>10 DEF Finish
<1>11. CASE DiskMoves
  BY <1>11 DEF DiskMoves, Flights
<1>12. CASE DiskEnds
  BY <1>12 DEF DiskEnds, Flights
<1>13. CASE UNCHANGED vars
  BY <1>13 DEF vars
<1>14. CASE SetSparse
  BY <1>14 DEF SetSparse
<1> QED
  BY <1>1, <1>2, <1>3, <1>4, <1>5, <1>6, <1>7, <1>8, <1>9, <1>10, <1>11, <1>12, <1>13, <1>14
  DEF Next, Host, Disk

LEMMA Invariant == Spec => []IInv
  BY InitInv, NextInv, PTL DEF Spec

(* FastCopy never leaves the loop successfully before everything is read:  *)
(* its code for the last bytes of a file has no case.                      *)
THEOREM LoopIsComplete == Spec => []LoopComplete
<1>1. IInv => LoopComplete
  BY DEF IInv, LoopInv, LoopComplete
<1> QED
  BY <1>1, Invariant, PTL

(* Success is never reported while a write is still under way.             *)
THEOREM SuccessHasLanded == Spec => []SuccessLands
<1>1. IInv => SuccessLands
  BY DEF IInv, FlightInv, SuccessLands, NothingInFlight
<1> QED
  BY <1>1, Invariant, PTL

(* The buffer of a write under way is not touched.                         *)
THEOREM BufferIsLeftAlone == Spec => BufferLeftAlone
<1>1. IInv /\ [Next]_vars
        => [flight.state = "busy" => buffer'[flight.buf] = buffer[flight.buf]]_vars
  <2> SUFFICES ASSUME IInv, Next, flight.state = "busy"
               PROVE  buffer'[flight.buf] = buffer[flight.buf]
    OBVIOUS
  <2>1. CASE ReadBlock
    BY <2>1 DEF ReadBlock, IInv, Types, FlightInv
  <2>2. CASE ~ReadBlock
    BY <2>2 DEF Next, Host, Disk, SetSparse, ReadFails, NothingToRead, WaitWrite, WaitFails,
                WaitUnstarted, WriteAtOnce, WritePending, WriteNotStarted, EndRound,
                Finish, DiskMoves, DiskEnds
  <2> QED
    BY <2>1, <2>2
<1> QED
  BY <1>1, Invariant, PTL DEF Spec, BufferLeftAlone

-----------------------------------------------------------------------------
(* The rest of the types: what the buffers, the disk and a write hold.     *)
DataTypes ==
  /\ sectors \in Sizes /\ fileSectors \in FileSizes
  /\ buffer \in [BOOLEAN -> [1 .. Stride -> Contents]]
  /\ disk \in [1 .. sectors + Stride -> Contents]
  /\ flight.len \in 0 .. Stride /\ flight.moved \in 0 .. flight.len

LEMMA InitData == Init => DataTypes
<1> SUFFICES ASSUME Init PROVE DataTypes
  OBVIOUS
<1>1. sectors \in Sizes /\ fileSectors \in FileSizes /\ sectors \in Nat /\ Stride \in Nat
  BY DiskAssumption DEF Init
<1>2. Zero \in Contents /\ Old \in Contents
  BY DEF Contents
<1>3. buffer \in [BOOLEAN -> [1 .. Stride -> Contents]]
  BY <1>2 DEF Init
<1>4. disk \in [1 .. sectors + Stride -> Contents]
  BY <1>2 DEF Init
<1>5. flight.len = 0 /\ flight.moved = 0
  BY DEF Init, NoFlight
<1> QED
  BY <1>1, <1>3, <1>4, <1>5 DEF DataTypes

LEMMA NextData == IInv /\ DataTypes /\ [Next]_vars => DataTypes'
<1> SUFFICES ASSUME IInv, DataTypes, [Next]_vars PROVE DataTypes'
  OBVIOUS
<1>1. sectors \in Nat /\ Stride \in Nat /\ bytesRead \in 0 .. Stride
      /\ bBuffer1 \in BOOLEAN /\ writeOffset \in Nat /\ readOffset \in Nat
      /\ fileSectors \in Nat /\ sec \in Nat
  BY DiskAssumption DEF IInv, Types, HostTypes, Booleans
<1>2. Nat \subseteq Contents
  BY DEF Contents
<1>3. CASE ReadBlock
  <2> DEFINE n == Smaller(Chunk, fileSectors - readOffset)
             round == [k \in 1 .. Stride |->
                         IF k <= n THEN readOffset + k ELSE buffer[bBuffer1][k]]
  <2>1. buffer' = [buffer EXCEPT ![bBuffer1] = round]
    BY <1>3 DEF ReadBlock
  <2>2. round \in [1 .. Stride -> Contents]
    <3>1. \A k \in 1 .. Stride : readOffset + k \in Contents
      BY <1>1, <1>2
    <3>2. \A k \in 1 .. Stride : buffer[bBuffer1][k] \in Contents
      BY <1>1 DEF DataTypes
    <3> QED
      BY <3>1, <3>2
  <2>3. buffer' \in [BOOLEAN -> [1 .. Stride -> Contents]]
    BY <1>1, <2>1, <2>2 DEF DataTypes
  <2> QED
    BY <1>3, <2>3 DEF ReadBlock, DataTypes, call, io
<1>4. CASE WriteAtOnce
  <2>1. \A k \in 1 .. sectors + Stride :
          k > writeOffset /\ k <= writeOffset + bytesRead
            => buffer[bBuffer1][k - writeOffset] \in Contents
    <3> SUFFICES ASSUME NEW k \in 1 .. sectors + Stride,
                        k > writeOffset, k <= writeOffset + bytesRead
                 PROVE  buffer[bBuffer1][k - writeOffset] \in Contents
      OBVIOUS
    <3>1. k - writeOffset \in 1 .. Stride
      BY <1>1
    <3> QED
      BY <1>1, <3>1 DEF DataTypes
  <2>2. disk' \in [1 .. sectors + Stride -> Contents]
    BY <1>4, <2>1 DEF WriteAtOnce, DataTypes
  <2>3. flight'.len = 0 /\ flight'.moved = 0
    BY <1>4 DEF WriteAtOnce, NoFlight
  <2> QED
    BY <1>1, <1>4, <2>2, <2>3 DEF WriteAtOnce, EndRound, DataTypes, call
<1>5. CASE WritePending
  BY <1>1, <1>5 DEF WritePending, EndRound, DataTypes, call
<1>6. CASE WriteNotStarted
  BY <1>1, <1>6 DEF WriteNotStarted, EndRound, NoFlight, DataTypes, call
<1>7. CASE DiskMoves
  <2>1. flight.moved + 1 \in 1 .. Stride /\ flight.buf \in BOOLEAN
    BY <1>1, <1>7 DEF DiskMoves, DataTypes, IInv, Types, Flights
  <2>2. buffer[flight.buf][flight.moved + 1] \in Contents
    BY <2>1 DEF DataTypes
  <2>3. disk' \in [1 .. sectors + Stride -> Contents]
    BY <1>7, <2>2 DEF DiskMoves, DataTypes
  <2>4. flight'.len = flight.len /\ flight'.moved = flight.moved + 1
    BY <1>7 DEF DiskMoves, IInv, Types, Flights
  <2>5. flight'.len \in 0 .. Stride /\ flight'.moved \in 0 .. flight'.len
    BY <1>1, <1>7, <2>4 DEF DiskMoves, DataTypes
  <2> QED
    BY <1>7, <2>3, <2>5 DEF DiskMoves, DataTypes, call
<1>8. CASE DiskEnds
  <2>1. flight'.len = flight.len /\ flight'.moved = flight.moved
    BY <1>8 DEF DiskEnds, IInv, Types, Flights
  <2> QED
    BY <1>8, <2>1 DEF DiskEnds, DataTypes, call
<1>9. CASE SetSparse \/ ReadFails \/ NothingToRead \/ WaitWrite \/ WaitFails
           \/ WaitUnstarted \/ Finish \/ UNCHANGED vars
  BY <1>9 DEF SetSparse, ReadFails, NothingToRead, WaitWrite, WaitFails, WaitUnstarted, Finish, vars,
              call, io, DataTypes
<1> QED
  BY <1>3, <1>4, <1>5, <1>6, <1>7, <1>8, <1>9 DEF Next, Host, Disk

(* Every variable has its type, and no round goes past the end.            *)
THEOREM Typed == Spec => []TypeOK
<1>1. IInv /\ DataTypes => TypeOK
  <2> SUFFICES ASSUME IInv, DataTypes PROVE TypeOK
    OBVIOUS
  <2>1. flight.len \in 0 .. Stride /\ flight.moved \in 0 .. Stride
    BY DiskAssumption DEF DataTypes
  <2>2. flight \in [state : {"none", "busy", "complete", "failed", "unstarted"},
                    buf : BOOLEAN, at : Nat, len : 0 .. Stride, moved : 0 .. Stride]
    BY <2>1 DEF IInv, Types, Flights
  <2> QED
    BY <2>2, ZenonT(30) DEF TypeOK, IInv, Types, HostTypes, Booleans, DataTypes
<1>2. IInv /\ DataTypes /\ [Next]_vars => IInv' /\ DataTypes'
  BY NextInv, NextData
<1> QED
  BY <1>1, <1>2, InitInv, InitData, PTL DEF Spec

(* No write failed to start, the file has all that is asked for, and zeros *)
(* are a bufferful of bytes.                                               *)
Good ==
  /\ ~startFailed
  /\ op = "file" => fileSectors >= sectors
  /\ op = "zero" => bytesRead = Stride

(* What sector k is to hold.                                               *)
Source(k) == IF op = "zero" THEN Zero ELSE k

(* The rounds meet: a round begins where the one before ended, only the    *)
(* last is shorter, and the offset with the write under way has reached    *)
(* what has been seen to.  Without a file every write is of a whole        *)
(* buffer, and the last one may reach further.                             *)
Reached == IF bWriteDone THEN writeOffset ELSE writeOffset + flight.len

RoundInv ==
  /\ pc \in {"sparse", "read"} => stride = Stride
  /\ pc \in {"wait", "write"} =>
       /\ bytesRead = IF op = "zero" THEN Stride ELSE stride
       /\ stride = Stride \/ sec + stride = sectors
  /\ pc = "write" => bWriteDone
  /\ op = "zero" => bytesRead = Stride
  /\ op = "file" => readOffset = IF pc \in {"wait", "write"} THEN sec + stride ELSE sec
  /\ op = "file" \/ pc # "end" => Reached = sec
  /\ Reached >= sec

PendingInv ==
  ~bWriteDone =>
    /\ flight.state \in {"busy", "complete", "failed"} /\ flight.at = writeOffset
    /\ lastError = "IO_PENDING"
    /\ flight.state = "complete" => flight.moved = flight.len

(* The buffers hold the source, and so does the disk as far as it has been *)
(* written.                                                                *)
BufferInv ==
  /\ op = "zero" => \A b \in BOOLEAN, m \in 1 .. Stride : buffer[b][m] = Zero
  /\ op = "file" /\ pc \in {"wait", "write"} =>
       \A m \in 1 .. stride : buffer[bBuffer1][m] = sec + m
  /\ op = "file" /\ flight.state = "busy" =>
       \A m \in 1 .. flight.len : buffer[flight.buf][m] = flight.at + m

OnDisk ==
  /\ \A k \in 1 .. sectors :
       k <= writeOffset + (IF bWriteDone THEN 0 ELSE flight.moved) => disk[k] = Source(k)
  /\ op = "file" => \A k \in 1 .. sectors + Stride : k > sectors => disk[k] = Old

WholeOnDisk ==
  /\ \A k \in 1 .. sectors : disk[k] = Source(k)
  /\ op = "file" => \A k \in 1 .. sectors + Stride : k > sectors => disk[k] = Old

Copying == RoundInv /\ PendingInv /\ BufferInv /\ OnDisk

CopyInv ==
  Good /\ status = "SUCCESS" => IF pc = "done" THEN WholeOnDisk ELSE Copying

AllInv == IInv /\ DataTypes /\ CopyInv

(* What the steps of a copy that goes well start from.                     *)
LEMMA Numbers ==
  ASSUME IInv, DataTypes
  PROVE  /\ sectors \in Nat /\ fileSectors \in Nat /\ Stride \in Nat /\ Stride > 0
         /\ sec \in Nat /\ sec <= sectors /\ stride \in Nat /\ bytesRead \in Nat
         /\ readOffset \in Nat /\ writeOffset \in Nat
         /\ flight.at \in Nat /\ flight.len \in Nat /\ flight.moved \in Nat
         /\ flight.moved <= flight.len
         /\ bBuffer1 \in BOOLEAN /\ bWriteDone \in BOOLEAN /\ flight.buf \in BOOLEAN
         /\ op \in {"file", "zero"}
BY DiskAssumption DEF IInv, Types, HostTypes, Booleans, Flights, DataTypes

LEMMA InitCopy == Init => CopyInv
<1> SUFFICES ASSUME Init PROVE Copying
  BY DEF Init, CopyInv
<1>1. /\ sectors \in Nat /\ Stride \in Nat /\ Stride > 0 /\ pc \in {"sparse", "read"} /\ sec = 0
      /\ stride = Stride /\ readOffset = 0 /\ writeOffset = 0
  BY DiskAssumption DEF Init
<1>2. bWriteDone /\ flight.state = "none" /\ flight.len = 0
  BY DEF Init, NoFlight
<1>3. op = "zero" => bytesRead = Stride
  BY DEF Init
<1>4. RoundInv /\ PendingInv
  BY <1>1, <1>2, <1>3 DEF RoundInv, PendingInv, Reached
<1>5. op = "zero" => \A b \in BOOLEAN, m \in 1 .. Stride : buffer[b][m] = Zero
  BY DEF Init
<1>6. BufferInv
  BY <1>1, <1>2, <1>5 DEF BufferInv
<1>7. OnDisk
  BY <1>1, <1>2 DEF OnDisk, Init
<1> QED
  BY <1>4, <1>6, <1>7 DEF Copying

(* A round is read: all of it, for the file is long enough.                *)
LEMMA CopyingReadBlock ==
  ASSUME IInv, DataTypes, Good, Copying, ReadBlock
  PROVE  Copying'
<1>1. /\ pc = "read" /\ sec < sectors /\ op = "file" /\ op' = op /\ sectors' = sectors
      /\ stride' = Chunk /\ pc' = ToWrite /\ sec' = sec /\ bBuffer1' = bBuffer1
      /\ writeOffset' = writeOffset /\ bWriteDone' = bWriteDone /\ lastError' = lastError
      /\ flight' = flight /\ disk' = disk
  BY DEF ReadBlock, call, io
<1>2. stride = Stride /\ readOffset = sec /\ fileSectors >= sectors
  BY <1>1 DEF Copying, RoundInv, Good
<1>3. Smaller(Chunk, fileSectors - readOffset) = Chunk
  BY <1>1, <1>2, Numbers DEF Smaller, Chunk
<1>4. bytesRead' = Chunk /\ readOffset' = sec + Chunk
  BY <1>2, <1>3 DEF ReadBlock
<1>5. /\ Chunk \in Nat /\ Chunk <= Stride
      /\ Chunk = Stride \/ sec + Chunk = sectors
  BY <1>1, <1>2, Numbers DEF Smaller, Chunk
<1>6. pc' \in {"wait", "write"} /\ (pc' = "write" => bWriteDone)
  BY <1>1, Numbers DEF ToWrite, MustWait
<1>7. RoundInv'
  BY <1>1, <1>2, <1>4, <1>5, <1>6, Numbers DEF Copying, RoundInv, Reached
<1>8. PendingInv'
  BY <1>1 DEF Copying, PendingInv
<1>9. BufferInv'
  <2> DEFINE round == [k \in 1 .. Stride |->
                         IF k <= Chunk THEN readOffset + k ELSE buffer[bBuffer1][k]]
  <2>1. buffer' = [buffer EXCEPT ![bBuffer1] = round]
    BY <1>3 DEF ReadBlock
  <2>2. \A m \in 1 .. Chunk : round[m] = sec + m
    BY <1>2, <1>5, Numbers
  <2> HIDE DEF round
  <2>3. buffer'[bBuffer1] = round
    BY <2>1, Numbers DEF DataTypes
  <2>4. flight.state = "busy" => buffer'[flight.buf] = buffer[flight.buf]
    BY <2>1, Numbers DEF DataTypes, IInv, FlightInv
  <2> QED
    BY <1>1, <2>2, <2>3, <2>4 DEF Copying, BufferInv
<1>10. OnDisk'
  BY <1>1 DEF Copying, OnDisk, Source
<1> QED
  BY <1>7, <1>8, <1>9, <1>10 DEF Copying

(* The rounds after a write: they meet.                                    *)
LEMMA CopyingEndRound ==
  ASSUME IInv, DataTypes, Copying, EndRound,
         IF bWriteDone' THEN writeOffset' = writeOffset + bytesRead
         ELSE writeOffset' = writeOffset /\ flight'.len = bytesRead
  PROVE  RoundInv'
<1>1. /\ pc = "write" /\ sec' = sec + stride /\ stride' = stride /\ bytesRead' = bytesRead
      /\ readOffset' = readOffset /\ op' = op /\ sectors' = sectors
      /\ pc' = IF sec + stride < sectors THEN "read" ELSE "end"
  BY DEF EndRound, call
<1>2. /\ bytesRead = IF op = "zero" THEN Stride ELSE stride
      /\ stride = Stride \/ sec + stride = sectors
      /\ op = "zero" => bytesRead = Stride
      /\ op = "file" => readOffset = sec + stride
      /\ writeOffset = sec
  BY <1>1 DEF Copying, RoundInv, Reached
<1>3. stride <= Stride /\ sec + stride <= sectors
  BY <1>1, DiskAssumption DEF IInv, LoopInv, Types, HostTypes
<1>4. Reached' = sec + bytesRead
  BY <1>2 DEF Reached
<1>5. /\ op = "file" \/ pc' # "end" => Reached' = sec'
      /\ Reached' >= sec'
  BY <1>1, <1>2, <1>3, <1>4, Numbers
<1>6. pc' = "read" => stride' = Stride
  BY <1>1, <1>2, <1>3, Numbers
<1> QED
  BY <1>1, <1>2, <1>5, <1>6 DEF RoundInv

LEMMA CopyingWriteAtOnce ==
  ASSUME IInv, DataTypes, Copying, WriteAtOnce
  PROVE  Copying'
<1>1. /\ EndRound /\ pc = "write" /\ op' = op /\ sectors' = sectors /\ buffer' = buffer
      /\ pc' \in {"read", "end"} /\ bWriteDone' /\ flight'.state = "none"
      /\ writeOffset' = writeOffset + bytesRead
      /\ disk' = [k \in DOMAIN disk |->
                    IF k > writeOffset /\ k <= writeOffset + bytesRead
                    THEN buffer[bBuffer1][k - writeOffset] ELSE disk[k]]
  BY DEF WriteAtOnce, EndRound, NoFlight, NextOffset, call
<1>2. RoundInv'
  BY <1>1, CopyingEndRound
<1>3. PendingInv'
  BY <1>1 DEF PendingInv
<1>4. BufferInv'
  BY <1>1 DEF Copying, BufferInv
<1>5. /\ writeOffset = sec /\ bWriteDone
      /\ bytesRead = IF op = "zero" THEN Stride ELSE stride
  BY <1>1 DEF Copying, RoundInv, Reached
<1>6. DOMAIN disk = 1 .. sectors + Stride
  BY DEF DataTypes
<1>7. OnDisk'
  <2>1. ASSUME NEW k \in 1 .. sectors, k <= writeOffset + bytesRead
        PROVE  disk'[k] = Source(k)
    <3>1. k \in DOMAIN disk
      BY <1>6, Numbers
    <3>2. CASE k <= writeOffset
      BY <1>1, <1>5, <3>1, <3>2, Numbers DEF Copying, OnDisk
    <3>3. CASE k > writeOffset
      <4>1. disk'[k] = buffer[bBuffer1][k - writeOffset]
        BY <1>1, <2>1, <3>1, <3>3
      <4>2. k - writeOffset \in 1 .. bytesRead
        BY <2>1, <3>3, Numbers
      <4>3. op = "zero" => buffer[bBuffer1][k - writeOffset] = Zero
        BY <1>5, <4>2, Numbers DEF Copying, BufferInv
      <4>4. op = "file" => buffer[bBuffer1][k - writeOffset] = sec + (k - writeOffset)
        BY <1>1, <1>5, <4>2 DEF Copying, BufferInv
      <4> QED
        BY <1>5, <4>1, <4>3, <4>4, Numbers DEF Source
    <3> QED
      BY <3>2, <3>3, Numbers
  <2>2. ASSUME op = "file", NEW k \in 1 .. sectors + Stride, k > sectors
        PROVE  disk'[k] = Old
    <3>1. writeOffset + bytesRead <= sectors
      BY <1>1, <1>5, <2>2 DEF IInv, LoopInv
    <3>2. disk'[k] = disk[k]
      BY <1>1, <1>6, <2>2, <3>1, Numbers
    <3> QED
      BY <2>2, <3>2 DEF Copying, OnDisk
  <2> QED
    BY <1>1, <2>1, <2>2 DEF OnDisk, Source
<1> QED
  BY <1>2, <1>3, <1>4, <1>7 DEF Copying

LEMMA CopyingWritePending ==
  ASSUME IInv, DataTypes, Copying, WritePending
  PROVE  Copying'
<1>1. /\ EndRound /\ pc = "write" /\ op' = op /\ sectors' = sectors /\ buffer' = buffer
      /\ pc' \in {"read", "end"} /\ bWriteDone' = FALSE /\ lastError' = "IO_PENDING"
      /\ writeOffset' = writeOffset /\ disk' = disk
  BY DEF WritePending, EndRound, call
<1>2. /\ flight'.state = "busy" /\ flight'.buf = bBuffer1 /\ flight'.at = writeOffset
      /\ flight'.len = bytesRead /\ flight'.moved = 0
  BY DEF WritePending
<1>3. RoundInv'
  BY <1>1, <1>2, CopyingEndRound
<1>4. PendingInv'
  BY <1>1, <1>2 DEF PendingInv
<1>5. /\ writeOffset = sec /\ bWriteDone
      /\ bytesRead = IF op = "zero" THEN Stride ELSE stride
  BY <1>1 DEF Copying, RoundInv, Reached
<1>6. BufferInv'
  BY <1>1, <1>2, <1>5 DEF Copying, BufferInv
<1>7. OnDisk'
  BY <1>1, <1>2, <1>5, Numbers DEF Copying, OnDisk, Source
<1> QED
  BY <1>3, <1>4, <1>6, <1>7 DEF Copying

LEMMA CopyingWaitWrite ==
  ASSUME IInv, DataTypes, Copying, WaitWrite
  PROVE  Copying'
<1>1. /\ pc = "wait" /\ pc' = "write" /\ flight.state = "complete" /\ bWriteDone'
      /\ writeOffset' = writeOffset + flight.len /\ op' = op /\ sectors' = sectors
      /\ sec' = sec /\ stride' = stride /\ bytesRead' = bytesRead
      /\ bBuffer1' = bBuffer1 /\ buffer' = buffer /\ readOffset' = readOffset
      /\ flight' = flight /\ disk' = disk
  BY DEF WaitWrite, NextOffset, call, io
<1>2. ~bWriteDone /\ flight.moved = flight.len
  BY <1>1 DEF IInv, FlightInv, Copying, PendingInv
<1>3. Reached' = Reached
  BY <1>1, <1>2 DEF Reached
<1>4. RoundInv'
  BY <1>1, <1>3 DEF Copying, RoundInv
<1>5. PendingInv' /\ BufferInv'
  BY <1>1 DEF Copying, PendingInv, BufferInv
<1>6. OnDisk'
  BY <1>1, <1>2 DEF Copying, OnDisk, Source
<1> QED
  BY <1>4, <1>5, <1>6 DEF Copying

(* One more sector of a pending write is on the disk.                      *)
LEMMA CopyingDiskMoves ==
  ASSUME IInv, DataTypes, Copying, pc # "done", DiskMoves
  PROVE  Copying'
<1>1. /\ flight.state = "busy" /\ flight.moved < flight.len
      /\ flight' = [flight EXCEPT !.moved = @ + 1]
      /\ disk' = [disk EXCEPT ![flight.at + flight.moved + 1] =
                    buffer[flight.buf][flight.moved + 1]]
      /\ op' = op /\ sectors' = sectors /\ pc' = pc /\ sec' = sec /\ stride' = stride
      /\ bytesRead' = bytesRead /\ bBuffer1' = bBuffer1 /\ buffer' = buffer
      /\ readOffset' = readOffset /\ writeOffset' = writeOffset
      /\ bWriteDone' = bWriteDone /\ lastError' = lastError
  BY DEF DiskMoves, call
<1>2. /\ flight'.state = "busy" /\ flight'.buf = flight.buf /\ flight'.at = flight.at
      /\ flight'.len = flight.len /\ flight'.moved = flight.moved + 1
  BY <1>1 DEF IInv, Types, Flights
<1>3. ~bWriteDone /\ flight.at = writeOffset
  BY <1>1 DEF IInv, FlightInv, Copying, PendingInv
<1>4. RoundInv'
  BY <1>1, <1>2 DEF Copying, RoundInv, Reached
<1>5. PendingInv'
  BY <1>1, <1>2 DEF Copying, PendingInv
<1>6. BufferInv'
  BY <1>1, <1>2 DEF Copying, BufferInv
<1>7. OnDisk'
  <2> DEFINE i == flight.at + flight.moved + 1
  <2>1. buffer[flight.buf][flight.moved + 1] = Source(i)
    <3>1. flight.moved + 1 \in 1 .. flight.len /\ flight.len <= Stride
      <4>1. flight.len \in 0 .. Stride
        BY DEF DataTypes
      <4> QED
        BY <1>1, <4>1, Numbers
    <3>2. op = "zero" => buffer[flight.buf][flight.moved + 1] = Zero
      BY <3>1, Numbers DEF Copying, BufferInv
    <3>3. op = "file" => buffer[flight.buf][flight.moved + 1]
                           = flight.at + (flight.moved + 1)
      BY <1>1, <3>1 DEF Copying, BufferInv
    <3> QED
      BY <3>2, <3>3, Numbers DEF Source
  <2>2. \A k \in 1 .. sectors + Stride :
          disk'[k] = IF k = i THEN Source(k) ELSE disk[k]
    BY <1>1, <2>1 DEF DataTypes
  <2>3. op = "file" => i <= sectors
    <3>1. op = "file" => writeOffset + flight.len = sec
      BY <1>3 DEF Copying, RoundInv, Reached
    <3> QED
      BY <1>1, <1>3, <3>1, Numbers
  <2>4. ASSUME NEW k \in 1 .. sectors, k <= writeOffset + (flight.moved + 1)
        PROVE  disk'[k] = Source(k)
    <3>1. k = i \/ k <= writeOffset + flight.moved
      BY <1>3, <2>4, Numbers
    <3>2. k \in 1 .. sectors + Stride
      BY Numbers
    <3> QED
      BY <1>3, <2>2, <3>1, <3>2 DEF Copying, OnDisk
  <2>5. ASSUME op = "file", NEW k \in 1 .. sectors + Stride, k > sectors
        PROVE  disk'[k] = Old
    <3>1. k # i
      BY <2>3, <2>5, Numbers
    <3> QED
      BY <2>2, <2>5, <3>1 DEF Copying, OnDisk
  <2> QED
    BY <1>1, <1>2, <1>3, <2>4, <2>5 DEF OnDisk, Source
<1> QED
  BY <1>4, <1>5, <1>6, <1>7 DEF Copying

LEMMA CopyingDiskEnds ==
  ASSUME IInv, DataTypes, Copying, pc # "done", DiskEnds
  PROVE  Copying'
<1>1. /\ flight.state = "busy"
      /\ op' = op /\ sectors' = sectors /\ pc' = pc /\ sec' = sec /\ stride' = stride
      /\ bytesRead' = bytesRead /\ bBuffer1' = bBuffer1 /\ buffer' = buffer
      /\ readOffset' = readOffset /\ writeOffset' = writeOffset
      /\ bWriteDone' = bWriteDone /\ lastError' = lastError /\ disk' = disk
  BY DEF DiskEnds, call
<1>2. /\ flight'.state \in {"complete", "failed"}
      /\ flight'.state = "complete" => flight.moved = flight.len
      /\ flight'.at = flight.at /\ flight'.len = flight.len /\ flight'.moved = flight.moved
  BY DEF DiskEnds, IInv, Types, Flights
<1>3. RoundInv' /\ PendingInv'
  BY <1>1, <1>2 DEF Copying, RoundInv, Reached, PendingInv
<1>4. BufferInv'
  BY <1>1, <1>2 DEF Copying, BufferInv
<1>5. OnDisk'
  BY <1>1, <1>2 DEF Copying, OnDisk, Source
<1> QED
  BY <1>3, <1>4, <1>5 DEF Copying

(* What is seen to is written when the last write has been waited for.     *)
LEMMA CopyingFinish ==
  ASSUME IInv, DataTypes, Copying, status = "SUCCESS", Finish, status' = "SUCCESS"
  PROVE  WholeOnDisk'
<1>1. /\ pc = "end" /\ op' = op /\ sectors' = sectors /\ disk' = disk
      /\ LastWait => flight.state = "complete"
  BY DEF Finish, call, io
<1>2. sec = sectors /\ Reached >= sec
  BY <1>1 DEF IInv, LoopInv, Copying, RoundInv
<1>3. ~bWriteDone => flight.moved = flight.len
  BY <1>1, Numbers DEF LastWait, Copying, PendingInv
<1>4. writeOffset + (IF bWriteDone THEN 0 ELSE flight.moved) >= sectors
  BY <1>2, <1>3, Numbers DEF Reached
<1>5. \A k \in 1 .. sectors : disk[k] = Source(k)
  BY <1>4, Numbers DEF Copying, OnDisk
<1> QED
  BY <1>1, <1>5 DEF Copying, OnDisk, WholeOnDisk, Source

LEMMA NextCopy == IInv /\ DataTypes /\ CopyInv /\ [Next]_vars => CopyInv'
<1> SUFFICES ASSUME IInv, DataTypes, CopyInv, [Next]_vars, Good', status' = "SUCCESS"
             PROVE  IF pc' = "done" THEN WholeOnDisk' ELSE Copying'
  BY DEF CopyInv
<1> USE DEF call, io
<1>1. CASE UNCHANGED vars
  <2>1. Good /\ status = "SUCCESS"
    BY <1>1 DEF Good, vars
  <2>2. (WholeOnDisk' <=> WholeOnDisk) /\ (Copying' <=> Copying)
    BY <1>1 DEF vars, WholeOnDisk, Copying, RoundInv, Reached, PendingInv, BufferInv,
                OnDisk, Source
  <2> QED
    BY <1>1, <2>1, <2>2 DEF CopyInv, vars
<1>2. CASE Next
  <2>1. Good /\ status = "SUCCESS"
    BY <1>2, Numbers
    DEF Good, Next, Host, Disk, SetSparse, ReadBlock, ReadFails, StatusOfRead, NothingToRead,
        WaitWrite, WaitFails, WaitUnstarted, WriteAtOnce, WritePending,
        WriteNotStarted, EndRound, Finish, DiskMoves, DiskEnds
  <2>2. pc # "done"
    BY <1>2, <2>1
    DEF Next, Host, Disk, SetSparse, ReadBlock, ReadFails, NothingToRead, WaitWrite, WaitFails,
        WaitUnstarted, WriteAtOnce, WritePending, WriteNotStarted, EndRound, Finish,
        DiskMoves, DiskEnds, IInv, FlightInv
  <2>3. Copying
    BY <2>1, <2>2 DEF CopyInv
  <2>4. CASE ReadBlock
    BY <2>1, <2>3, <2>4, CopyingReadBlock DEF ReadBlock, ToWrite
  <2>5. CASE NothingToRead
    <3>1. pc' # "done"
      BY <2>5 DEF NothingToRead, ToWrite
    <3>2. RoundInv'
      <4>1. stride = Stride /\ bytesRead = Stride /\ Reached = sec
        BY <2>3, <2>5 DEF NothingToRead, Copying, RoundInv
      <4>2. stride' = Chunk /\ (Chunk = Stride \/ sec + Chunk = sectors)
        BY <2>5, <4>1, Numbers DEF NothingToRead, Chunk, Smaller
      <4>3. pc' \in {"wait", "write"} /\ (pc' = "write" => bWriteDone)
        BY <2>5, Numbers DEF NothingToRead, ToWrite, MustWait
      <4>4. Reached' = Reached
        BY <2>5 DEF NothingToRead, Reached
      <4> QED
        BY <2>5, <4>1, <4>2, <4>3, <4>4, Numbers DEF NothingToRead, RoundInv
    <3>3. PendingInv' /\ BufferInv'
      BY <2>3, <2>5 DEF NothingToRead, Copying, PendingInv, BufferInv
    <3>4. OnDisk'
      BY <2>3, <2>5 DEF NothingToRead, Copying, OnDisk, Source
    <3> QED
      BY <3>1, <3>2, <3>3, <3>4 DEF Copying
  <2>6. CASE WaitWrite
    BY <2>3, <2>6, CopyingWaitWrite DEF WaitWrite
  <2>7. CASE WaitUnstarted
    BY <2>3, <2>7 DEF WaitUnstarted, IInv, FlightInv, Copying, PendingInv
  <2>8. CASE WriteAtOnce
    BY <2>3, <2>8, CopyingWriteAtOnce DEF WriteAtOnce, EndRound
  <2>9. CASE WritePending
    BY <2>3, <2>9, CopyingWritePending DEF WritePending, EndRound
  <2>10. CASE Finish
    BY <2>1, <2>3, <2>10, CopyingFinish DEF Finish
  <2>11. CASE DiskMoves
    BY <2>2, <2>3, <2>11, CopyingDiskMoves DEF DiskMoves
  <2>12. CASE DiskEnds
    BY <2>2, <2>3, <2>12, CopyingDiskEnds DEF DiskEnds
  <2>14. CASE SetSparse
    <3>1. /\ pc = "sparse" /\ pc' = "read" /\ bytesRead' = 0 /\ op = "file"
          /\ op' = op /\ sectors' = sectors /\ sec' = sec /\ stride' = stride
          /\ bBuffer1' = bBuffer1 /\ buffer' = buffer /\ readOffset' = readOffset
          /\ writeOffset' = writeOffset /\ bWriteDone' = bWriteDone
          /\ lastError' = lastError /\ flight' = flight /\ disk' = disk
      BY <2>14, Numbers DEF SetSparse, Good
    <3>2. RoundInv' /\ PendingInv' /\ BufferInv' /\ OnDisk'
      BY <2>3, <3>1
      DEF Copying, RoundInv, Reached, PendingInv, BufferInv, OnDisk, Source
    <3> QED
      BY <3>1, <3>2 DEF Copying
  <2>13. ~ReadFails /\ ~WaitFails /\ ~WriteNotStarted
    BY DEF Good, ReadFails, StatusOfRead, WaitFails, WriteNotStarted
  <2> QED
    BY <1>2, <2>4, <2>5, <2>6, <2>7, <2>8, <2>9, <2>10, <2>11, <2>12, <2>13, <2>14
    DEF Next, Host, Disk
<1> QED
  BY <1>1, <1>2

(* SUCCESS means every sector in its place and, of a file's, none behind   *)
(* them: two buffers, a pending write and the offset that follows it       *)
(* implement a block copy, and one that ends if FastCopy returns.          *)
THEOREM CopyImplemented == Spec => Copy!Spec /\ (<>(pc = "done") => Copies)
<1> DEFINE src == [k \in Range |-> IF op = "zero" THEN Zero
                                   ELSE IF k > sectors THEN Old ELSE k]
           dst == [k \in Range |-> disk[k]]
           result == IF pc # "done" THEN "running"
                     ELSE IF Reported THEN "SUCCESS" ELSE "ERROR"
<1>1. Init => Copy!Init
  BY DEF Init, Copy!Init
<1>2. AllInv /\ Reported => dst = src
  <2> SUFFICES ASSUME AllInv, Reported PROVE dst = src
    OBVIOUS
  <2>1. WholeOnDisk
    BY DEF AllInv, CopyInv, Good, Reported
  <2>2. /\ \A k \in 1 .. sectors : disk[k] = IF op = "zero" THEN Zero ELSE k
        /\ op = "file" => \A k \in 1 .. sectors + Stride : k > sectors => disk[k] = Old
    BY <2>1 DEF WholeOnDisk, Source
  <2>3. CASE op = "zero"
    BY <2>2, <2>3 DEF Range
  <2>4. CASE op = "file"
    <3>1. Range = 1 .. sectors + Stride
      BY <2>4 DEF Range, AllInv, DataTypes
    <3>2. \A k \in 1 .. sectors + Stride : k \in 1 .. sectors \/ k > sectors
      BY Numbers DEF AllInv
    <3>3. \A k \in Range : disk[k] = IF k > sectors THEN Old ELSE k
      BY <2>2, <2>4, <3>1, <3>2, Numbers DEF AllInv
    <3> QED
      BY <2>4, <3>3
  <2> QED
    BY <2>3, <2>4, Numbers DEF AllInv
<1>3. (AllInv /\ Reported => dst = src)'
  BY <1>2, PTL
<1>4. ASSUME AllInv, AllInv', [Next]_vars
      PROVE  [Copy!Next]_(Copy!vars)
  <2>1. op' = op /\ sectors' = sectors /\ fileSectors' = fileSectors
    BY <1>4
    DEF Next, Host, Disk, SetSparse, ReadBlock, ReadFails, NothingToRead, WaitWrite, WaitFails,
        WaitUnstarted, WriteAtOnce, WritePending, WriteNotStarted, EndRound, Finish,
        DiskMoves, DiskEnds, vars, call
  <2>2. DOMAIN disk = DOMAIN disk'
    BY <1>4, <2>1 DEF AllInv, DataTypes
  <2>3. Range' = Range
    BY <2>1, <2>2 DEF Range
  <2>4. src' = src /\ DOMAIN dst' = DOMAIN dst
    BY <2>1, <2>3
  <2>5. CASE pc = "done"
    <3>1. pc' = pc /\ status' = status /\ startFailed' = startFailed /\ bytesRead' = bytesRead
      BY <1>4, <2>5
      DEF Next, Host, Disk, SetSparse, ReadBlock, ReadFails, NothingToRead, WaitWrite, WaitFails,
          WaitUnstarted, WriteAtOnce, WritePending, WriteNotStarted, EndRound, Finish,
          DiskMoves, DiskEnds, vars, io
    <3>2. Reported' <=> Reported
      BY <2>1, <3>1 DEF Reported
    <3>3. CASE Reported
      <4>1. dst = src
        BY <1>2, <1>4, <3>3
      <4>2. dst' = src'
        <5>1. Reported'
          BY <3>2, <3>3
        <5> QED
          BY <5>1, <1>3, <1>4
      <4> QED
        BY <2>4, <3>1, <3>2, <4>1, <4>2 DEF Copy!vars
    <3>4. CASE ~Reported
      BY <2>4, <2>5, <3>1, <3>2, <3>4 DEF Copy!Next, Copy!Transfer
    <3> QED
      BY <3>3, <3>4
  <2>6. CASE pc # "done" /\ pc' # "done"
    BY <2>4, <2>6 DEF Copy!Next, Copy!Transfer
  <2>7. CASE pc # "done" /\ pc' = "done"
    <3>1. disk' = disk
      BY <1>4, <2>7
      DEF Next, Host, Disk, SetSparse, ReadBlock, ReadFails, NothingToRead, WaitWrite, WaitFails,
          WaitUnstarted, WriteAtOnce, WritePending, WriteNotStarted, EndRound, Finish,
          DiskMoves, DiskEnds, ToWrite, vars, io
    <3>2. dst' = dst
      BY <2>3, <3>1
    <3>3. CASE Reported'
      <4>1. dst' = src'
        BY <1>3, <1>4, <3>3
      <4> QED
        BY <2>4, <2>7, <3>2, <3>3, <4>1 DEF Copy!Next, Copy!Succeed
    <3>4. CASE ~Reported'
      BY <2>4, <2>7, <3>2, <3>4 DEF Copy!Next, Copy!Fail
    <3> QED
      BY <3>3, <3>4
  <2> QED
    BY <2>5, <2>6, <2>7
<1>5. AllInv /\ [Next]_vars => AllInv'
  BY NextInv, NextData, NextCopy DEF AllInv
<1>6. AllInv /\ AllInv' /\ [Next]_vars => [Copy!Next]_(Copy!vars)
  BY <1>4
<1>7. Init => AllInv
  BY InitInv, InitData, InitCopy DEF AllInv
<1>8. Spec => Copy!Spec
  BY <1>1, <1>5, <1>6, <1>7, PTL DEF Spec, Copy!Spec
<1>9. pc = "done" => result # "running"
  OBVIOUS
<1>10. <>(pc = "done") => <>(result # "running")
  BY <1>9, PTL
<1> QED
  BY <1>8, <1>10, PTL DEF Copies, Copy!EndingSpec
=============================================================================
