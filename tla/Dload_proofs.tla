---------------------------- MODULE Dload_proofs ----------------------------
(***************************************************************************)
(* StartedWhole, for files of any length, chunks and segments of any size: *)
(* the memory of the device with the chunk that is gathered is, at every   *)
(* step, what the records so far say, as long as the chunk is in one piece *)
(* and the port has not failed.                                            *)
(*                                                                         *)
(* HeldSoFar and Connects, for any number of files, sectors and attempts:  *)
(* as long as the answers come in order, there is never more than one      *)
(* packet under way, which is the request of the exchange that waits or    *)
(* its answer.                                                             *)
(*                                                                         *)
(* TypeOK, in any order: every request under way is for a sector there is. *)
(* And Copies, the refinement of BlockCopy: of an image, in order, nothing *)
(* is acknowledged without its partition.                                  *)
(***************************************************************************)
EXTENDS Dload, SequenceTheorems, TLAPS

HexTypes ==
  /\ records \in 0 .. MaxRecords /\ low \in 0 .. Segment
  /\ upper \in Nat /\ upper <= Segment * records /\ newAddr = upper
  /\ (upper \div Segment) * Segment = upper
  /\ hexline = "data" => low # 0
  /\ targetAddr \in Nat /\ chunk \in Seq(Nat)
  /\ meant \in [Addresses -> Nat] /\ memory \in [Addresses -> Nat]

(* Where data would follow, what is gathered ends; a new chunk begins in   *)
(* the segment of the last upper address.                                  *)
GatherInv ==
  /\ pc \in {"nop", "record"} /\ chunk = <<>> => targetAddr = upper
  /\ pc = "record" /\ chunk # <<>> => targetAddr + Len(chunk) = upper + low
  /\ pc \in {"nop", "record", "chunk", "go"} => WithChunk = meant
  /\ pc \in {"nop", "go"} => chunk = <<>>

RunInv ==
  /\ running => pc = "done" /\ memory = meant
  /\ pc = "done" /\ status = "SUCCESS" => running

HexInv ==
  /\ op # "load" => ~running /\ ~ended
  /\ op = "load" =>
       /\ pc \in {"nop", "record", "chunk", "go", "done"}
       /\ HexTypes
       /\ regular /\ ~broken => GatherInv /\ RunInv

-----------------------------------------------------------------------------
(* An upper address is a number of segments.                               *)
LEMMA NextUpper ==
  ASSUME NEW s \in Nat \ {0}, NEW u \in Nat, (u \div s) * s = u
  PROVE  ((u + s) \div s) * s = u + s
<1>1. (u + s) \div s = (u \div s) + 1
  OBVIOUS
<1>2. QED
  BY <1>1

(* What is behind the data read so far has an address.                     *)
LEMMA InAddresses ==
  ASSUME HexTypes, records < MaxRecords, NEW at \in 0 .. Segment - 1
  PROVE  /\ upper + at \in Addresses
         /\ upper + Segment <= Segment * (records + 1)
<1>1. Segment \in Nat \ {0} /\ ChunkSize \in Nat /\ MaxRecords \in Nat
  BY HexAssumption DEF HexAssumption
<1>2. \A s \in Nat, n \in Nat, m \in Nat : n <= m => s * n <= s * m
  OBVIOUS
<1>3. Segment * records <= Segment * MaxRecords
  BY <1>1, <1>2 DEF HexTypes
<1>4. /\ Segment * (records + 1) = Segment * records + Segment
      /\ Segment * (MaxRecords + 1) = Segment * MaxRecords + Segment
      /\ Segment * MaxRecords \in Nat /\ Segment * records \in Nat
  BY <1>1 DEF HexTypes
<1>5. \A x \in Nat, y \in Nat : upper <= x /\ x <= y =>
        upper + at \in 0 .. y + Segment + ChunkSize /\ upper + Segment <= x + Segment
  BY <1>1 DEF HexTypes
<1>6. QED
  BY <1>1, <1>3, <1>4, <1>5 DEF HexTypes, Addresses

(* A record of data is the next of the chunk, or its first.                *)
LEMMA GatherKeeps ==
  ASSUME HexTypes, GatherInv, pc = "record", NEW at \in 0 .. Segment - 1,
         at = low \/ chunk = <<>>,
         records' = records + 1, records < MaxRecords,
         meant' = [meant EXCEPT ![upper + at] = records'],
         low' = at + 1, Gather(at, records'), UNCHANGED <<upper, memory>>
  PROVE  GatherInv'
<1>0. Segment \in Nat \ {0} /\ ChunkSize \in Nat \ {0}
  BY HexAssumption DEF HexAssumption
<1>1. /\ upper + at \in Addresses /\ Addresses \subseteq Nat
      /\ upper \in Nat /\ at \in Nat
  <2>1. Addresses \subseteq Nat
    BY DEF Addresses
  <2>2. upper + at \in Addresses
    BY InAddresses
  <2>3. QED
    BY <1>0, <2>1, <2>2 DEF HexTypes
<1>2. /\ chunk' \in Seq(Nat) /\ chunk' # <<>>
      /\ Len(chunk') = Len(chunk) + 1 /\ Len(chunk) \in Nat
      /\ chunk'[Len(chunk')] = records + 1
      /\ \A n \in 1 .. Len(chunk) : chunk'[n] = chunk[n]
  BY DEF Gather, HexTypes
<1>3. targetAddr' + Len(chunk) = upper + at
  <2>1. CASE chunk = <<>>
    BY <2>1 DEF Gather, GatherInv, HexTypes
  <2>2. CASE chunk # <<>>
    BY <2>2 DEF Gather, GatherInv, HexTypes
  <2>3. QED
    BY <2>1, <2>2
<1>4. chunk # <<>> => targetAddr' = targetAddr
  BY DEF Gather
<1>5. targetAddr' \in Nat
  <2>1. chunk = <<>> => targetAddr' = upper + at
    BY <1>2, <1>3 DEF Gather, GatherInv, HexTypes
  <2>2. QED
    BY <1>1, <1>4, <2>1 DEF HexTypes
<1>6. ASSUME NEW a \in Addresses PROVE WithChunk'[a] = meant'[a]
  <2>1. /\ a \in Nat /\ WithChunk[a] = meant[a]
        /\ meant'[a] = IF a = upper + at THEN records + 1 ELSE meant[a]
    BY <1>1 DEF GatherInv, HexTypes
  <2>2. CASE a = upper + at
    <3>1. a - targetAddr' + 1 = Len(chunk')
      BY <2>2, <1>2, <1>3, <1>5, <1>1
    <3>2. a - targetAddr' + 1 \in DOMAIN chunk'
      BY <3>1, <1>2
    <3>3. WithChunk'[a] = chunk'[Len(chunk')]
      BY <3>1, <3>2 DEF WithChunk
    <3>4. QED
      BY <3>3, <2>1, <2>2, <1>2
  <2>3. CASE a # upper + at
    <3>1. a - targetAddr' + 1 \in 1 .. Len(chunk') <=>
            a - targetAddr' + 1 \in 1 .. Len(chunk)
      <4>1. Len(chunk') \in Nat
        BY <1>2
      <4>2. a - targetAddr' + 1 # Len(chunk) + 1
        BY <2>1, <2>3, <1>1, <1>2, <1>3, <1>5
      <4>3. a - targetAddr' + 1 \in Int
        BY <2>1, <1>5
      <4>4. QED
        BY <4>1, <4>2, <4>3, <1>2
    <3>2. DOMAIN chunk' = 1 .. Len(chunk') /\ DOMAIN chunk = 1 .. Len(chunk)
      BY <1>2 DEF HexTypes
    <3>3. WithChunk'[a] = IF a - targetAddr' + 1 \in 1 .. Len(chunk)
                          THEN chunk[a - targetAddr' + 1] ELSE memory[a]
      BY <3>1, <3>2, <1>2 DEF WithChunk
    <3>4. WithChunk[a] = IF a - targetAddr + 1 \in 1 .. Len(chunk)
                         THEN chunk[a - targetAddr + 1] ELSE memory[a]
      BY <3>2 DEF WithChunk
    <3>5. CASE chunk = <<>>
      <4>1. 1 .. Len(chunk) = {}
        BY <3>5
      <4>2. QED
        BY <3>3, <3>4, <4>1, <2>1, <2>3
    <3>6. CASE chunk # <<>>
      BY <3>3, <3>4, <3>6, <2>1, <2>3, <1>4
    <3>7. QED
      BY <3>5, <3>6
  <2>4. QED
    BY <2>2, <2>3
<1>7. WithChunk' = meant'
  <2>1. meant' = [a \in Addresses |-> meant'[a]]
    BY DEF HexTypes
  <2>2. WithChunk' = [a \in Addresses |-> WithChunk'[a]]
    BY DEF WithChunk
  <2>3. QED
    BY <2>1, <2>2, <1>6
<1>8. pc' \in {"record", "chunk"}
  BY DEF Gather
<1>9. targetAddr' + Len(chunk') = upper' + low'
  <2>1. upper' = upper /\ low' = at + 1
    OBVIOUS
  <2>2. Len(chunk') = Len(chunk) + 1 /\ Len(chunk) \in Nat
    BY <1>2
  <2>3. targetAddr' + (Len(chunk) + 1) = upper + (at + 1)
    BY <2>2, <1>1, <1>3, <1>5
  <2>4. QED
    BY <2>1, <2>2, <2>3
<1>10. QED
  BY <1>2, <1>7, <1>8, <1>9 DEF GatherInv

-----------------------------------------------------------------------------
Numbers ==
  /\ Segment \in Nat \ {0} /\ ChunkSize \in Nat \ {0} /\ MaxRecords \in Nat
  /\ Addresses \subseteq Nat

LEMMA HexNumbers == Numbers
  BY HexAssumption DEF HexAssumption, Addresses, Numbers

(* The memory with the chunk is a memory.                                  *)
LEMMA WithChunkTyped ==
  ASSUME HexTypes PROVE WithChunk \in [Addresses -> Nat]
<1>1. ASSUME NEW a \in Addresses PROVE WithChunk[a] \in Nat
  <2>1. CASE a - targetAddr + 1 \in DOMAIN chunk
    BY <2>1, <1>1 DEF WithChunk, HexTypes
  <2>2. CASE a - targetAddr + 1 \notin DOMAIN chunk
    BY <2>2, <1>1 DEF WithChunk, HexTypes
  <2>3. QED
    BY <2>1, <2>2
<1>2. QED
  BY <1>1 DEF WithChunk

(* Data is gathered in a place.                                            *)
LEMMA GatherTyped ==
  ASSUME HexTypes, NEW at \in Nat, NEW data \in Nat, Gather(at, data)
  PROVE  targetAddr' \in Nat /\ chunk' \in Seq(Nat)
<1>1. (targetAddr \div Segment) * Segment \in Nat
  <2>1. targetAddr \div Segment \in Nat
    BY HexNumbers DEF HexTypes, Numbers
  <2>2. QED
    BY <2>1, HexNumbers DEF Numbers
<1>2. QED
  BY <1>1 DEF Gather, HexTypes

LEMMA HexTyped ==
  ASSUME HexTypes, HexNext PROVE HexTypes'
<1>1. CASE IsDeviceInDload \/ NoProgrammer
  BY <1>1 DEF IsDeviceInDload, NoProgrammer, HexTypes, hexVars, fileVars, deviceVars
<1>2. CASE DataRecord
  <2>1. PICK at \in {low, low + 1} :
          /\ at < Segment /\ low' = at + 1
          /\ meant' = [meant EXCEPT ![upper + at] = records']
          /\ Gather(at, records')
    BY <1>2 DEF DataRecord
  <2>2. /\ records' = records + 1 /\ records < MaxRecords
        /\ UNCHANGED <<upper, newAddr, memory>>
    BY <1>2 DEF DataRecord, Reading, deviceVars
  <2>3. at \in 0 .. Segment - 1 /\ records' \in 0 .. MaxRecords
    BY <2>1, <2>2, HexNumbers DEF HexTypes, Numbers
  <2>4. upper <= Segment * records'
    <3>1. upper + Segment <= Segment * (records + 1)
      BY <2>2, <2>3, InAddresses
    <3>2. Segment * (records + 1) \in Nat
      BY HexNumbers DEF HexTypes, Numbers
    <3>3. QED
      BY <2>2, <3>1, <3>2, HexNumbers DEF HexTypes, Numbers
  <2>5. targetAddr' \in Nat /\ chunk' \in Seq(Nat)
    BY <2>1, <2>3, GatherTyped
  <2>6. meant' \in [Addresses -> Nat]
    <3>1. records' \in Nat
      BY <2>3
    <3>2. QED
      BY <2>1, <3>1 DEF HexTypes
  <2>7. QED
    BY <2>1, <2>2, <2>3, <2>4, <2>5, <2>6, HexNumbers DEF HexTypes, Numbers
<1>3. CASE OtherRecord
  <2>1. /\ records' = records + 1 /\ records < MaxRecords /\ hexline' # "data"
        /\ UNCHANGED <<meant, memory, chunk, targetAddr>>
    BY <1>3 DEF OtherRecord, Reading, deviceVars
  <2>2. \/ upper' = upper /\ newAddr' = newAddr /\ low' = low
        \/ upper' = upper + Segment /\ newAddr' = upper' /\ low' = 0
    BY <1>3 DEF OtherRecord
  <2>3. upper + Segment <= Segment * (records + 1) /\ Segment * (records + 1) \in Nat
    BY <2>1, InAddresses, HexNumbers DEF HexTypes, Numbers
  <2>4. /\ upper' \in Nat /\ upper' <= Segment * records'
        /\ newAddr' = upper' /\ low' \in 0 .. Segment
    BY <2>1, <2>2, <2>3, HexNumbers DEF HexTypes, Numbers
  <2>5. (upper' \div Segment) * Segment = upper'
    BY <2>2, NextUpper, HexNumbers DEF HexTypes, Numbers
  <2>6. records' \in 0 .. MaxRecords
    BY <2>1, HexNumbers DEF HexTypes, Numbers
  <2>7. QED
    BY <2>1, <2>4, <2>5, <2>6 DEF HexTypes
<1>4. CASE RecordAgain
  <2>1. UNCHANGED <<records, upper, low, newAddr, meant, memory>>
    BY <1>4 DEF RecordAgain, deviceVars
  <2>2. targetAddr' \in Nat /\ chunk' \in Seq(Nat)
    <3>1. CASE hexline = "data"
      <4>1. Gather(low - 1, records) /\ low - 1 \in Nat /\ records \in Nat
        BY <1>4, <3>1 DEF RecordAgain, HexTypes
      <4>2. QED
        BY <4>1, GatherTyped
    <3>2. CASE hexline # "data"
      BY <1>4, <3>2 DEF RecordAgain, HexTypes
    <3>3. QED
      BY <3>1, <3>2
  <2>3. hexline' = hexline
    BY <1>4 DEF RecordAgain
  <2>4. QED
    BY <2>1, <2>2, <2>3 DEF HexTypes
<1>5. CASE WriteChunk
  BY <1>5, WithChunkTyped DEF WriteChunk, HexTypes, fileVars, NextSegment
<1>6. CASE NoChunk
  BY <1>6 DEF NoChunk, HexTypes, fileVars, deviceVars, NextSegment
<1>7. CASE Go
  BY <1>7 DEF Go, HexTypes, fileVars
<1>8. QED
  BY <1>1, <1>2, <1>3, <1>4, <1>5, <1>6, <1>7 DEF HexNext

(* As long as a chunk is in one piece and the port has not failed.         *)
LEMMA HexRuns ==
  ASSUME HexTypes, HexNext, regular' /\ ~broken',
         regular /\ ~broken => GatherInv /\ RunInv
  PROVE  GatherInv' /\ RunInv'
<1>1. CASE IsDeviceInDload
  <2>1. /\ ~broken /\ regular /\ UNCHANGED hexVars /\ pc = "nop"
        /\ pc' = "record" \/ (pc' = "done" /\ status' = "INVALID_HANDLE")
    BY <1>1 DEF IsDeviceInDload, Exchange, hexVars, fileVars
  <2>2. WithChunk' = WithChunk
    BY <2>1 DEF WithChunk, hexVars, deviceVars
  <2>3. QED
    BY <2>1, <2>2 DEF GatherInv, RunInv, hexVars, fileVars, deviceVars
<1>2. CASE NoProgrammer
  BY <1>2 DEF NoProgrammer, GatherInv, RunInv, hexVars, fileVars, deviceVars
<1>3. CASE DataRecord
  <2>1. PICK at \in {low, low + 1} :
          /\ at < Segment /\ low' = at + 1 /\ (at = low \/ chunk = <<>>)
          /\ meant' = [meant EXCEPT ![upper + at] = records']
          /\ Gather(at, records')
    BY <1>3 DEF DataRecord
  <2>2. /\ records' = records + 1 /\ records < MaxRecords /\ pc = "record"
        /\ regular /\ UNCHANGED <<upper, memory, running, broken>>
    BY <1>3 DEF DataRecord, Reading, deviceVars
  <2>3. at \in 0 .. Segment - 1 /\ pc' \in {"record", "chunk"}
    BY <2>1, <2>2, HexNumbers DEF HexTypes, Numbers, Gather
  <2>4. GatherInv'
    BY <2>1, <2>2, <2>3, GatherKeeps
  <2>5. QED
    BY <2>2, <2>3, <2>4 DEF RunInv
<1>4. CASE OtherRecord
  <2>1. /\ pc = "record" /\ regular
        /\ UNCHANGED <<meant, memory, chunk, targetAddr, running, broken>>
        /\ \/ pc' = "chunk"
           \/ pc' = "record" /\ UNCHANGED <<upper, low>>
    BY <1>4 DEF OtherRecord, Reading, deviceVars
  <2>2. WithChunk' = WithChunk
    BY <2>1 DEF WithChunk
  <2>3. QED
    BY <2>1, <2>2 DEF GatherInv, RunInv
<1>5. CASE RecordAgain
  BY <1>5 DEF RecordAgain
<1>6. CASE WriteChunk
  <2>1. /\ pc = "chunk" /\ chunk' = <<>> /\ targetAddr' = upper'
        /\ ~broken /\ regular /\ UNCHANGED <<meant, running>>
    BY <1>6 DEF WriteChunk, Exchange, fileVars, NextSegment, HexTypes
  <2>2. \/ pc' = "done" /\ status' # "SUCCESS"
        \/ pc' \in {"go", "record"} /\ memory' = WithChunk
    BY <1>6 DEF WriteChunk, Exchange, Good, Outcomes
  <2>3. WithChunk' = memory'
    <3>1. /\ DOMAIN chunk' = {}
      BY <2>1
    <3>2. memory' \in [Addresses -> Nat]
      BY HexTyped DEF HexTypes
    <3>3. QED
      BY <3>1, <3>2 DEF WithChunk
  <2>4. QED
    BY <2>1, <2>2, <2>3 DEF GatherInv, RunInv
<1>7. CASE NoChunk
  <2>1. /\ pc = "chunk" /\ chunk = <<>> /\ targetAddr' = upper'
        /\ pc' \in {"go", "record"}
        /\ UNCHANGED <<chunk, meant, memory, running, broken, regular>>
    BY <1>7 DEF NoChunk, fileVars, deviceVars, NextSegment, HexTypes
  <2>2. WithChunk = memory
    BY <2>1 DEF WithChunk, HexTypes
  <2>3. WithChunk' = memory'
    BY <2>1, HexTyped DEF WithChunk, HexTypes
  <2>4. QED
    BY <2>1, <2>2, <2>3 DEF GatherInv, RunInv
<1>8. CASE Go
  <2>1. /\ pc = "go" /\ pc' = "done" /\ ~broken /\ regular
        /\ UNCHANGED <<chunk, meant, memory>>
    BY <1>8 DEF Go, Exchange, fileVars
  <2>2. status' = "SUCCESS" => running'
    BY <1>8 DEF Go, Exchange, Good, Outcomes
  <2>3. WithChunk = memory
    BY <2>1 DEF GatherInv, WithChunk, HexTypes
  <2>4. QED
    BY <2>1, <2>2, <2>3 DEF GatherInv, RunInv
<1>9. QED
  BY <1>1, <1>2, <1>3, <1>4, <1>5, <1>6, <1>7, <1>8 DEF HexNext

-----------------------------------------------------------------------------
LEMMA InitHex == Init => HexInv
<1> SUFFICES ASSUME Init PROVE HexInv
  OBVIOUS
<1>1. /\ op # "load" \/ pc = "nop"
      /\ HexIdle
  BY DEF Init
<1>2. HexTypes
  <2>1. meant = [a \in Addresses |-> 0] /\ memory = meant
    BY <1>1 DEF HexIdle, Unwritten
  <2>2. (0 \div Segment) * Segment = 0
    BY HexNumbers DEF Numbers
  <2>3. 0 <= Segment * 0
    BY HexNumbers DEF Numbers
  <2>4. QED
    BY <1>1, <2>1, <2>2, <2>3, HexNumbers DEF HexIdle, HexTypes, Numbers
<1>3. WithChunk = memory
  BY <1>1, <1>2 DEF HexIdle, WithChunk, HexTypes
<1>4. QED
  BY <1>1, <1>2, <1>3 DEF HexIdle, HexInv, GatherInv, RunInv

(* The session of the streaming protocol and the loading keep out of each  *)
(* other's way.                                                            *)
LEMMA StreamsApart ==
  ASSUME Streams
  PROVE  /\ UNCHANGED <<op, hexVars>>
         /\ pc \in {"nop", "record", "chunk", "go", "done"} =>
              UNCHANGED <<pc, status, broken>>
<1>1. CASE Host
  BY <1>1 DEF Streams, Host, Ask, Hello, Security, Unchecked, AfterExchange, NoFile,
     NoPatchFile, NotProgrammed, WriteBlock, BlockWritten, CopyEnds, OpenChecked,
     CreateGPP, call
<1>2. CASE Device
  BY <1>2 DEF Streams, Device, DeviceArrives, DeviceConnects, DeviceOpens, DeviceTells,
     DeviceWrites, DeviceRefuses, DeviceFlushes, DeviceCloses, DeviceResets, untouched, call
<1>3. CASE LinkDown
  BY <1>3 DEF Streams, LinkDown, call
<1>4. QED
  BY <1>1, <1>2, <1>3 DEF Streams

LEMMA HexKept ==
  ASSUME HexInv, UNCHANGED <<op, hexVars>>, op = "load" => UNCHANGED <<pc, status, broken>>
  PROVE  HexInv'
<1>1. WithChunk' = WithChunk
  BY DEF WithChunk, hexVars, deviceVars
<1>2. QED
  BY <1>1 DEF HexInv, HexTypes, GatherInv, RunInv, hexVars, fileVars, deviceVars

LEMMA NextHex == HexInv /\ [Next]_vars => HexInv'
<1> SUFFICES ASSUME HexInv, [Next]_vars PROVE HexInv'
  OBVIOUS
<1>1. CASE Streams
  BY <1>1, StreamsApart, HexKept DEF HexInv
<1>2. CASE Loads
  <2>1. op = "load" /\ op' = op /\ HexNext
    BY <1>2 DEF Loads, hostVars, call
  <2>2. pc' \in {"nop", "record", "chunk", "go", "done"}
    BY <2>1 DEF HexInv, HexNext, IsDeviceInDload, NoProgrammer, DataRecord, OtherRecord,
       RecordAgain, Gather, WriteChunk, NoChunk, Go
  <2>3. QED
    BY <2>1, <2>2, HexTyped, HexRuns DEF HexInv
<1>3. CASE UNCHANGED vars
  BY <1>3, HexKept DEF vars, hostVars, call
<1>4. QED
  BY <1>1, <1>2, <1>3 DEF Next

(* LoadFlashProg: a programmer the device has started, or that is reported *)
(* as started, is in its memory as the file has it, record for record.     *)
THEOREM LoadedWhole == Spec => []StartedWhole
<1>1. HexInv => StartedWhole
  BY DEF HexInv, RunInv, StartedWhole
<1>2. QED
  BY <1>1, InitHex, NextHex, PTL DEF Spec
-----------------------------------------------------------------------------
(* The exchanges.                                                          *)
Exchanges ==
  {"hello", "security", "open", "patch", "program", "write", "active", "reset", "close", "gpp"}

Quiet == inbox = <<>> /\ pipe = <<>>

Data == [k \in 1 .. Block |-> Content(count + k)]

Pending(q) ==
  /\ q.kind = pc
  /\ pc = "open" => q.at = file
  /\ pc = "write" =>
       /\ count < Limit /\ Block > 0
       /\ q.at = offset /\ q.data = Data

Asked ==
  waiting /\ pipe = <<>> /\ inbox = <<Head(inbox)>> /\ Pending(Head(inbox))

(* Sectors in doubt are excepted.                                          *)
Holds(n) == opened = file => \A k \in (1 .. n) \ doubtful : held[file][k] = Content(k)

(* What a SendSync makes of the packet that has come.                      *)
Comes(res) ==
  \/ res = Head(pipe)
  \/ res = "TOO_LONG" /\ Head(pipe) = "ERROR"

Fits(res) ==
  /\ res \notin {"nothing", "failure", "TOO_LONG"}
  /\ pc = "hello" => res = "HELLO_RSP" /\ heard
  /\ pc = "security" => res = "SECURITY_RSP"
  /\ pc = "open" /\ res = "OPEN_MULTI_RSP" => opened = file
  /\ pc = "write" /\ res = "STREAM_WRITE_RSP" => Holds(count + Block)

Answered ==
  waiting /\ inbox = <<>> /\ pipe = <<Head(pipe)>> /\ Fits(Head(pipe))

SessionTypes ==
  /\ op \in {"image", "xml", "gpp"} /\ sectors \in Nat /\ fileSectors \in Nat
  /\ pc \in Exchanges \union {"done"}
  /\ op = "gpp" => pc \in {"hello", "security", "open", "gpp", "done"}
  /\ mode \in {"away", "here", "gone"} /\ file \in 1 .. Files /\ i \in Nat
  /\ held = [f \in 1 .. Files |-> held[f]]
  /\ \A f \in 1 .. Files : DOMAIN held[f] = 1 .. sectors + fileSectors + 2

OrderInv == (Quiet \/ Asked \/ Answered) /\ (pc = "done" => Quiet)

CopyInv == pc = "write" => count \in Nat /\ offset = count /\ Holds(count)

(* A hello that has been heard has its answer under way, and what follows  *)
(* it is never without one, but for the loss of the link.                  *)
ConnectInv ==
  /\ pc \in {"hello", "security"} => i < Attempts /\ mode # "gone"
  /\ heard => mode # "away"
  /\ pc = "hello" /\ heard /\ link = "up" => Answered
  /\ pc = "security" /\ waiting /\ link = "up" => ~Quiet
  /\ pc \in Exchanges \ {"hello"} => heard
  /\ pc = "gpp" => opened = file \/ 0 \in doubtful
  /\ pc # "done" => status # "INVALID_HANDLE"
  /\ pc = "done" =>
       /\ status = "INVALID_HANDLE" /\ op \in {"image", "xml"} => ~heard
       /\ status = "SUCCESS" /\ op = "gpp" =>
            heard /\ (opened = file \/ 0 \in doubtful)

Ordered == SessionTypes /\ OrderInv /\ CopyInv /\ ConnectInv
SessionInv == InOrder /\ op # "load" => Ordered

LEMMA Singles ==
  ASSUME NEW x
  PROVE  /\ Head(<<x>>) = x /\ Tail(<<x>>) = <<>> /\ <<x>> # <<>>
         /\ Append(<<>>, x) = <<x>>
  OBVIOUS

LEMMA InitSession == Init => SessionInv
<1> SUFFICES ASSUME Init, op # "load" PROVE Ordered
  BY DEF SessionInv
<1>1. Files \in Nat \ {0} /\ Attempts \in Nat \ {0} /\ Sizes \subseteq Nat /\ FileSizes \subseteq Nat
  BY DloadAssumption DEF DloadAssumption
<1>2. op \in {"image", "xml", "gpp"}
  BY DloadAssumption DEF Init, DloadAssumption
<1>3. SessionTypes
  BY <1>1, <1>2 DEF Init, SessionTypes, Exchanges
<1>4. OrderInv /\ CopyInv
  BY DEF Init, OrderInv, Quiet, CopyInv
<1>5. ConnectInv
  BY <1>1 DEF Init, ConnectInv, Exchanges
<1>6. QED
  BY <1>3, <1>4, <1>5 DEF Ordered

(* An exchange that ends in order has been answered, or never asked; the   *)
(* link is empty behind it.                                                *)
LEMMA EndsInOrder ==
  ASSUME OrderInv, NEW res, NEW rest, Returns(res, rest),
         pc # "done", InOrder'
  PROVE  /\ InOrder /\ waiting /\ ~waiting' /\ rest = <<>> /\ inbox = <<>>
         /\ \/ Answered /\ Comes(res)
            \/ Quiet /\ link = "up" /\ res = "nothing"
<1>1. ~broken' /\ ~behind'
  BY DEF InOrder
<1>2. CASE waiting /\ pipe # <<>> /\ res \in Read(Head(pipe)) /\ rest = Tail(pipe)
            /\ behind' = (behind \/ rest # <<>> \/ inbox # <<>>) /\ broken' = broken
  <2>1. Answered
    BY <1>2 DEF OrderInv, Quiet, Asked
  <2>2. rest = <<>> /\ inbox = <<>> /\ ~behind
    BY <1>1, <1>2
  <2>3. Comes(res)
    BY <1>2 DEF Read, Comes
  <2>4. QED
    BY <2>1, <2>2, <2>3, <1>1, <1>2 DEF Returns, InOrder
<1>3. CASE waiting /\ pipe = <<>> /\ link = "up" /\ res = "nothing" /\ rest = pipe
            /\ behind' = (behind \/ inbox # <<>>) /\ broken' = broken
  BY <1>1, <1>3 DEF Returns, InOrder, Quiet
<1>4. QED
  BY <1>1, <1>2, <1>3 DEF Returns

(* A request goes out on a quiet link.                                     *)
LEMMA SendsQuiet ==
  ASSUME OrderInv, NEW kind, NEW at, NEW data, SendSync(kind, at, data)
  PROVE  /\ Quiet /\ link = "up" /\ waiting'
         /\ \/ mode # "here" /\ inbox' = <<>>
            \/ mode = "here" /\ inbox' = <<[kind |-> kind, at |-> at, data |-> data]>>
<1>1. Quiet
  BY DEF SendSync, OrderInv, Asked, Answered
<1>2. QED
  BY <1>1, Singles DEF SendSync, Quiet

LEMMA AskKeeps ==
  ASSUME Ordered, InOrder', Ask PROVE Ordered'
<1>1. /\ pc \in Exchanges \ {"write"} /\ SendSync(pc, file, <<>>)
      /\ UNCHANGED <<call, pc, status, i, file, copy, link, device>>
  BY DEF Ask, Exchanges
<1>2. /\ Quiet /\ link = "up" /\ waiting' /\ pipe' = <<>>
      /\ \/ mode # "here" /\ inbox' = <<>>
         \/ mode = "here" /\ inbox' = <<[kind |-> pc, at |-> file, data |-> <<>>]>>
  <2>1. OrderInv
    BY DEF Ordered
  <2>2. QED
    BY <1>1, <2>1, SendsQuiet DEF Ask, Quiet
<1>3. SessionTypes'
  BY <1>1 DEF Ordered, SessionTypes, call, device
<1>4. mode = "here" => Asked'
  BY <1>1, <1>2, Singles DEF Asked, Pending, call, device
<1>5. mode # "here" => Quiet'
  BY <1>2 DEF Quiet
<1>6. OrderInv'
  BY <1>1, <1>4, <1>5 DEF OrderInv, Exchanges
<1>7. CopyInv'
  BY <1>1 DEF CopyInv
<1>8. ConnectInv'
  <2>1. /\ SessionTypes /\ ConnectInv
        /\ UNCHANGED <<op, pc, status, i, file, doubtful, link, mode, heard, opened>>
    BY <1>1 DEF Ordered, call, copy, device
  <2>2. pc = "hello" => ~heard
    BY <2>1, <1>2 DEF ConnectInv, Answered, Quiet
  <2>3. pc = "security" => mode = "here"
    BY <2>1 DEF ConnectInv, SessionTypes, Exchanges
  <2>4. pc = "security" => ~Quiet'
    BY <2>3, <1>2, Singles DEF Quiet
  <2>5. QED
    BY <2>1, <2>2, <2>4, <1>1 DEF ConnectInv, Exchanges
<1>9. QED
  BY <1>3, <1>6, <1>7, <1>8 DEF Ordered

LEMMA WriteKeeps ==
  ASSUME Ordered, InOrder', WriteBlock PROVE Ordered'
<1>1. /\ pc = "write" /\ count < Limit /\ Block > 0 /\ SendSync("write", offset, Data)
      /\ UNCHANGED <<call, pc, status, i, file, copy, link, pipe, device>>
  BY DEF WriteBlock, Data
<1>2. /\ Quiet /\ link = "up" /\ waiting' /\ pipe' = <<>>
      /\ \/ mode # "here" /\ inbox' = <<>>
         \/ mode = "here" /\ inbox' = <<[kind |-> "write", at |-> offset, data |-> Data]>>
  BY <1>1, SendsQuiet DEF Ordered, Quiet
<1>3. /\ UNCHANGED <<op, sectors, fileSectors, source, count, offset, doubtful, opened, held,
                    file>>
      /\ Block' = Block /\ Limit' = Limit
      /\ Data' = Data
  BY <1>1 DEF call, copy, device, Block, Limit, Available, Content, Data
<1>4. SessionTypes'
  BY <1>1 DEF Ordered, SessionTypes, call, device
<1>5. mode = "here" => Asked'
  <2> SUFFICES ASSUME mode = "here" PROVE Asked'
    OBVIOUS
  <2> DEFINE q == [kind |-> "write", at |-> offset, data |-> Data]
  <2>1. q.kind = "write" /\ q.at = offset /\ q.data = Data
    OBVIOUS
  <2> HIDE DEF q
  <2>2. inbox' = <<q>>
    BY <1>2 DEF q
  <2>3. Head(inbox') = q /\ inbox' = <<Head(inbox')>>
    BY <2>2, Singles
  <2>4. /\ pc' = "write" /\ count' < Limit' /\ Block' > 0
        /\ q.at = offset' /\ q.kind = pc'
    BY <1>1, <1>3, <2>1
  <2>5. q.data = Data'
    BY <1>3, <2>1
  <2>6. QED
    BY <1>2, <2>3, <2>4, <2>5 DEF Asked, Pending
<1>6. OrderInv'
  BY <1>1, <1>2, <1>5 DEF OrderInv, Quiet
<1>7. CopyInv'
  BY <1>1, <1>3 DEF Ordered, CopyInv, Holds, Content
<1>8. ConnectInv'
  BY <1>1 DEF Ordered, ConnectInv, call, device
<1>9. QED
  BY <1>4, <1>6, <1>7, <1>8 DEF Ordered

(* What the ends of all exchanges have in common.                          *)
LEMMA EndOf ==
  ASSUME Ordered, InOrder', pc # "done", NEW res, NEW rest, Returns(res, rest),
         pipe' \in {rest, <<>>}, UNCHANGED <<call, link, inbox, device>>,
         pc' \in Exchanges \union {"done"}, file' \in 1 .. Files, i' \in Nat,
         op = "gpp" => pc' \in {"hello", "security", "open", "gpp", "done"}
  PROVE  /\ InOrder /\ waiting /\ ~waiting'
         /\ \/ Answered /\ Comes(res)
            \/ Quiet /\ link = "up" /\ res = "nothing"
         /\ Quiet' /\ SessionTypes' /\ OrderInv'
         /\ UNCHANGED <<op, link, mode, heard, opened, held>>
<1>1. /\ InOrder /\ waiting /\ ~waiting' /\ rest = <<>> /\ inbox = <<>>
      /\ \/ Answered /\ Comes(res)
         \/ Quiet /\ link = "up" /\ res = "nothing"
  BY EndsInOrder DEF Ordered
<1>2. Quiet'
  BY <1>1 DEF Quiet
<1>3. OrderInv'
  BY <1>2 DEF OrderInv
<1>4. SessionTypes'
  BY DEF Ordered, SessionTypes, call, device
<1>5. QED
  BY <1>1, <1>2, <1>3, <1>4 DEF call, device

LEMMA HelloKeeps ==
  ASSUME Ordered, InOrder', Hello PROVE Ordered'
<1>1. PICK res \in Results, rest \in Rests :
        /\ Returns(res, rest)
        /\ \/ res = "HELLO_RSP" /\ pc' = "security" /\ i' = i /\ status' = status
           \/ /\ res # "HELLO_RSP" /\ i' = i + 1
              /\ \/ i' = Attempts /\ pc' = "done" /\ status' = "INVALID_HANDLE"
                 \/ i' # Attempts /\ UNCHANGED <<pc, status>>
  BY DEF Hello, NotCounted, NextCount
<1>2. /\ pc = "hello" /\ pipe' = <<>>
      /\ UNCHANGED <<call, file, copy, link, inbox, device>>
  BY DEF Hello
<1>3. SessionTypes /\ ConnectInv /\ i \in Nat
  BY DEF Ordered, SessionTypes
<1>4. /\ Quiet' /\ SessionTypes' /\ OrderInv' /\ ~waiting'
      /\ \/ Answered /\ Comes(res)
         \/ Quiet /\ link = "up" /\ res = "nothing"
      /\ UNCHANGED <<op, link, mode, heard, opened, held>>
  BY <1>1, <1>2, <1>3, EndOf DEF SessionTypes, Exchanges
<1>5. CopyInv'
  BY <1>1, <1>2 DEF CopyInv
<1>6. res = "HELLO_RSP" => heard
  BY <1>2, <1>4 DEF Answered, Fits, Comes
<1>7. res # "HELLO_RSP" => ~heard
  BY <1>2, <1>3, <1>4 DEF Answered, Fits, ConnectInv, Quiet, Comes
<1>8. Attempts \in Nat \ {0}
  BY DloadAssumption DEF DloadAssumption
<1>9. ConnectInv'
  <2>1. CASE res = "HELLO_RSP"
    BY <1>1, <1>2, <1>3, <1>4, <1>6, <2>1 DEF ConnectInv, Exchanges
  <2>2. CASE res # "HELLO_RSP" /\ i' = Attempts
    BY <1>1, <1>2, <1>3, <1>4, <1>7, <2>2 DEF ConnectInv, Exchanges
  <2>3. CASE res # "HELLO_RSP" /\ i' # Attempts
    <3>1. i' < Attempts /\ pc' = "hello" /\ status' = status
      BY <1>1, <1>2, <1>3, <1>8, <2>3 DEF ConnectInv
    <3>2. QED
      BY <3>1, <1>2, <1>3, <1>4, <1>7, <2>3 DEF ConnectInv, Exchanges
  <2>4. QED
    BY <2>1, <2>2, <2>3
<1>10. QED
  BY <1>4, <1>5, <1>9 DEF Ordered

LEMMA SecurityKeeps ==
  ASSUME Ordered, InOrder', Security PROVE Ordered'
<1>1. PICK res \in Results, rest \in Rests :
        /\ Returns(res, rest)
        /\ \/ /\ i < Attempts /\ res = "SECURITY_RSP"
              /\ pc' = "open" /\ pipe' = rest /\ i' = 0 /\ UNCHANGED status
           \/ /\ ~(i < Attempts /\ res = "SECURITY_RSP")
              /\ pipe' = <<>> /\ i' = i + 1
              /\ pc' \in {"security", "done"}
  BY DEF Security, NextCount
<1>2. pc = "security" /\ UNCHANGED <<call, file, copy, link, inbox, device>>
  BY DEF Security
<1>3. SessionTypes /\ ConnectInv /\ i \in Nat
  BY DEF Ordered, SessionTypes
<1>4. /\ Quiet' /\ SessionTypes' /\ OrderInv' /\ ~waiting' /\ waiting
      /\ \/ Answered /\ Comes(res)
         \/ Quiet /\ link = "up" /\ res = "nothing"
      /\ UNCHANGED <<op, link, mode, heard, opened, held>>
  BY <1>1, <1>2, <1>3, EndOf DEF SessionTypes, Exchanges
<1>5. res = "SECURITY_RSP" /\ i < Attempts
  BY <1>2, <1>3, <1>4 DEF Answered, Fits, ConnectInv, Quiet, Comes
<1>6. CopyInv'
  BY <1>1, <1>2, <1>5 DEF CopyInv
<1>7. ConnectInv'
  BY <1>1, <1>2, <1>3, <1>4, <1>5 DEF ConnectInv, Exchanges
<1>8. QED
  BY <1>4, <1>6, <1>7 DEF Ordered

LEMMA UncheckedKeeps ==
  ASSUME Ordered, InOrder', Unchecked PROVE Ordered'
<1>1. PICK res \in Results, rest \in Rests : Returns(res, rest) /\ pipe' = rest
  BY DEF Unchecked
<1>2. /\ UNCHANGED <<call, i, file, link, inbox, device>>
      /\ status' \in {"SUCCESS", status}
      /\ pc' = "write" => count' = 0 /\ offset' = 0
  BY DEF Unchecked
<1>3. /\ pc \in {"open", "patch", "program", "active", "reset", "close"} /\ op # "gpp"
      /\ pc' \in {"write", "patch", "program", "reset", "close", "done"}
  BY DEF Unchecked, AfterExchange, Ordered, SessionTypes
<1>4. SessionTypes /\ ConnectInv
  BY DEF Ordered
<1>5. /\ Quiet' /\ SessionTypes' /\ OrderInv'
      /\ UNCHANGED <<op, link, mode, heard, opened, held>>
  BY <1>1, <1>2, <1>3, <1>4, EndOf DEF SessionTypes, Exchanges
<1>6. CopyInv'
  BY <1>2 DEF CopyInv, Holds
<1>7. ConnectInv'
  BY <1>2, <1>3, <1>4, <1>5 DEF ConnectInv, Exchanges
<1>8. QED
  BY <1>5, <1>6, <1>7 DEF Ordered

LEMMA OpenCheckedKeeps ==
  ASSUME Ordered, InOrder', OpenChecked PROVE Ordered'
<1>1. PICK res \in Results, rest \in Rests :
        /\ Returns(res, rest) /\ pipe' = rest
        /\ \/ /\ \/ res \in {"failure", "TOO_LONG"} /\ doubtful' = {0}
                 \/ res = "OPEN_MULTI_RSP"
              /\ pc' = "gpp" /\ UNCHANGED status
           \/ pc' = "done" /\ status' = "INVALID_HANDLE"
  BY DEF OpenChecked, SyncFails
<1>2. /\ pc = "open" /\ op = "gpp"
      /\ UNCHANGED <<call, i, file, link, inbox, device>>
  BY DEF OpenChecked
<1>3. SessionTypes /\ ConnectInv
  BY DEF Ordered
<1>4. /\ Quiet' /\ SessionTypes' /\ OrderInv'
      /\ \/ Answered /\ Comes(res)
         \/ Quiet /\ link = "up" /\ res = "nothing"
      /\ UNCHANGED <<op, link, mode, heard, opened, held>>
  BY <1>1, <1>2, <1>3, EndOf DEF SessionTypes, Exchanges
<1>5. res # "failure" /\ (res = "OPEN_MULTI_RSP" => opened = file)
  BY <1>2, <1>4 DEF Answered, Fits, Comes
<1>6. CopyInv'
  BY <1>1 DEF CopyInv
<1>7. ConnectInv'
  BY <1>1, <1>2, <1>3, <1>4, <1>5 DEF ConnectInv, Exchanges
<1>8. QED
  BY <1>4, <1>6, <1>7 DEF Ordered

LEMMA CreateGPPKeeps ==
  ASSUME Ordered, InOrder', CreateGPP PROVE Ordered'
<1>1. PICK res \in Results, rest \in Rests :
        /\ Returns(res, rest) /\ pipe' = rest
        /\ status' \in {"SUCCESS", "WRITE_FAULT"}
  BY DEF CreateGPP
<1>2. /\ pc = "gpp" /\ pc' = "done"
      /\ UNCHANGED <<call, i, file, copy, link, inbox, device>>
  BY DEF CreateGPP
<1>3. SessionTypes /\ ConnectInv
  BY DEF Ordered
<1>4. /\ Quiet' /\ SessionTypes' /\ OrderInv'
      /\ UNCHANGED <<op, link, mode, heard, opened, held>>
  BY <1>1, <1>2, <1>3, EndOf DEF SessionTypes, Exchanges
<1>5. CopyInv'
  BY <1>2 DEF CopyInv
<1>6. ConnectInv'
  BY <1>1, <1>2, <1>3, <1>4 DEF ConnectInv, copy, Exchanges
<1>7. QED
  BY <1>4, <1>5, <1>6 DEF Ordered

(* What follows a file starts from an empty link.                          *)
LEMMA LeaveGoesOn ==
  ASSUME Ordered, pc \in {"write", "program"}, NEW s, Leave(s)
  PROVE  /\ pc' \in {"close", "open", "active"} /\ file' \in 1 .. Files
         /\ status' = s /\ op # "gpp"
<1>1. file \in 1 .. Files /\ op # "gpp"
  BY DEF Ordered, SessionTypes
<1>2. Files \in Nat
  BY DloadAssumption DEF DloadAssumption
<1>3. QED
  BY <1>1, <1>2 DEF Leave

LEMMA LeaveKeeps ==
  ASSUME Ordered, pc \in {"write", "program"}, NEW s, Leave(s), s # "INVALID_HANDLE",
         Quiet', UNCHANGED <<call, i, link, device>>
  PROVE  Ordered'
<1>1. /\ pc' \in {"close", "open", "active"} /\ file' \in 1 .. Files
      /\ status' = s /\ op # "gpp"
  BY LeaveGoesOn
<1>2. SessionTypes /\ ConnectInv
  BY DEF Ordered
<1>3. SessionTypes'
  BY <1>1, <1>2 DEF SessionTypes, call, device, Exchanges
<1>4. OrderInv' /\ CopyInv'
  BY <1>1 DEF OrderInv, CopyInv
<1>5. ConnectInv'
  BY <1>1, <1>2 DEF ConnectInv, call, device, Exchanges
<1>6. QED
  BY <1>3, <1>4, <1>5 DEF Ordered

(* Nothing is under way before an exchange.                                *)
LEMMA NotWaiting == ASSUME Ordered, ~waiting PROVE Quiet
  BY DEF Ordered, OrderInv, Asked, Answered

LEMMA NoFileKeeps ==
  ASSUME Ordered, NoFile PROVE Ordered'
<1>1. /\ pc = "write" /\ ~waiting /\ Leave("FILE_ERROR")
      /\ UNCHANGED <<call, i, link, inbox, pipe, device>>
  BY DEF NoFile
<1>2. Quiet'
  BY <1>1, NotWaiting DEF Quiet
<1>3. QED
  BY <1>1, <1>2, LeaveKeeps

LEMMA CopyEndsKeeps ==
  ASSUME Ordered, CopyEnds PROVE Ordered'
<1>1. /\ pc = "write" /\ ~waiting /\ Leave("SUCCESS")
      /\ UNCHANGED <<call, i, link, inbox, pipe, device>>
  BY DEF CopyEnds
<1>2. Quiet'
  BY <1>1, NotWaiting DEF Quiet
<1>3. QED
  BY <1>1, <1>2, LeaveKeeps

LEMMA NotProgrammedKeeps ==
  ASSUME Ordered, InOrder', NotProgrammed PROVE Ordered'
<1>1. PICK res \in Results, rest \in Rests : Returns(res, rest) /\ pipe' = rest
  BY DEF NotProgrammed
<1>2. PICK s \in {"OFFSET", "FILE_ERROR"} : Leave(s)
  BY DEF NotProgrammed
<1>3. pc = "program" /\ UNCHANGED <<call, i, link, inbox, device>>
  BY DEF NotProgrammed
<1>4. pc' \in {"close", "open", "active"} /\ file' \in 1 .. Files /\ op # "gpp"
  BY <1>2, <1>3, LeaveGoesOn
<1>5. SessionTypes
  BY DEF Ordered
<1>6. Quiet'
  BY <1>1, <1>3, <1>4, <1>5, EndOf DEF SessionTypes, Exchanges
<1>7. QED
  BY <1>2, <1>3, <1>6, LeaveKeeps

LEMMA NoPatchFileKeeps ==
  ASSUME Ordered, InOrder', NoPatchFile PROVE Ordered'
<1>1. PICK res \in Results, rest \in Rests : Returns(res, rest) /\ pipe' = rest
  BY DEF NoPatchFile
<1>2. /\ pc = "patch" /\ pc' = "done" /\ status' = "FILE_ERROR"
      /\ UNCHANGED <<call, i, file, copy, link, inbox, device>>
  BY DEF NoPatchFile
<1>3. SessionTypes /\ ConnectInv
  BY DEF Ordered
<1>4. /\ Quiet' /\ SessionTypes' /\ OrderInv'
      /\ UNCHANGED <<op, link, mode, heard, opened, held>>
  BY <1>1, <1>2, <1>3, EndOf DEF SessionTypes, Exchanges
<1>5. CopyInv'
  BY <1>2 DEF CopyInv
<1>6. ConnectInv'
  BY <1>2, <1>3, <1>4 DEF ConnectInv, Exchanges
<1>7. QED
  BY <1>4, <1>5, <1>6 DEF Ordered

LEMMA BlockWrittenKeeps ==
  ASSUME Ordered, InOrder', BlockWritten PROVE Ordered'
<1>1. PICK res \in Results, rest \in Rests :
        /\ Returns(res, rest) /\ pipe' = rest
        /\ \/ /\ res \in {"failure", "TOO_LONG", "STREAM_WRITE_RSP"}
              /\ UNCHANGED <<pc, status, file>>
           \/ Leave("WRITE_FAULT")
        /\ res = "TOO_LONG" => doubtful' = doubtful \union (count + 1 .. count + Block)
        /\ res = "STREAM_WRITE_RSP" => doubtful' = doubtful
  BY DEF BlockWritten, Acknowledged, SyncFails
<1>2. /\ pc = "write" /\ count' = count + Block /\ offset' = offset + Block /\ Block > 0
      /\ UNCHANGED <<call, i, link, inbox, device>>
  BY DEF BlockWritten, NextOffset
<1>3. SessionTypes /\ ConnectInv /\ CopyInv
  BY DEF Ordered
<1>4. pc' \in Exchanges /\ file' \in 1 .. Files /\ op # "gpp"
  BY <1>1, <1>2, <1>3, LeaveGoesOn DEF Exchanges, SessionTypes
<1>5. /\ Quiet' /\ SessionTypes' /\ OrderInv'
      /\ \/ Answered /\ Comes(res)
         \/ Quiet /\ link = "up" /\ res = "nothing"
      /\ UNCHANGED <<op, link, mode, heard, opened, held>>
  BY <1>1, <1>2, <1>3, <1>4, EndOf DEF SessionTypes
<1>6. CASE Leave("WRITE_FAULT")
  BY <1>2, <1>5, <1>6, LeaveKeeps
<1>7. CASE res \in {"failure", "TOO_LONG", "STREAM_WRITE_RSP"} /\ UNCHANGED <<pc, status, file>>
  <2>1. /\ res # "failure"
        /\ res = "STREAM_WRITE_RSP" => Holds(count + Block)
    BY <1>2, <1>5, <1>7 DEF Answered, Fits, Comes
  <2>2. Block \in Nat
    <3>1. count \in Nat /\ sectors \in Nat /\ fileSectors \in Nat
      BY <1>2, <1>3 DEF CopyInv, SessionTypes
    <3>2. Block \in Int
      BY <3>1 DEF Block, Smaller, Available, Limit
    <3>3. QED
      BY <1>2, <3>2
  <2>3. CopyInv'
    <3>1. count \in Nat /\ offset = count /\ Holds(count)
      BY <1>2, <1>3 DEF CopyInv
    <3>2. UNCHANGED <<opened, held, file, source>>
      BY <1>2, <1>5, <1>7 DEF call
    <3>3. CASE res = "STREAM_WRITE_RSP"
      BY <1>1, <1>2, <2>1, <2>2, <3>1, <3>2, <3>3 DEF CopyInv, Holds, Content
    <3>4. CASE res = "TOO_LONG"
      <4>1. (1 .. count') \ doubtful' \subseteq (1 .. count) \ doubtful
        BY <1>1, <1>2, <2>2, <3>1, <3>4
      <4>2. QED
        BY <1>2, <2>2, <3>1, <3>2, <4>1 DEF CopyInv, Holds, Content
    <3>5. QED
      BY <1>7, <2>1, <3>3, <3>4
  <2>4. ConnectInv'
    BY <1>2, <1>3, <1>5, <1>7 DEF ConnectInv, Exchanges
  <2>5. QED
    BY <2>3, <2>4, <1>5 DEF Ordered
<1>8. QED
  BY <1>1, <1>6, <1>7

(* The device answers the request that has been asked, and no other.       *)
LEMMA AnswersAsked ==
  ASSUME Ordered, NEW kinds, NEW answer, Answers(kinds, answer), UNCHANGED waiting
  PROVE  /\ Pending(request) /\ pc \in kinds /\ mode = "here" /\ pc # "done"
         /\ waiting' /\ inbox' = <<>> /\ pipe' = <<answer>>
         /\ pipe' = <<Head(pipe')>> /\ Head(pipe') = answer
<1>1. OrderInv /\ inbox # <<>>
  BY DEF Ordered, Answers
<1>2. Asked
  BY <1>1 DEF OrderInv, Quiet, Answered
<1>3. pc # "done"
  BY <1>1 DEF OrderInv, Quiet
<1>4. inbox' = <<>> /\ pipe' = <<answer>>
  BY <1>2, Singles DEF Asked, Answers
<1>5. Pending(request) /\ pc \in kinds
  BY <1>2 DEF Asked, Pending, Answers, request
<1>6. QED
  BY <1>2, <1>3, <1>4, <1>5, Singles DEF Asked, Answers

(* Its answer keeps the order if it fits and what it changes is its own.   *)
LEMMA AnswerKeeps ==
  ASSUME Ordered, NEW kinds, NEW answer, Answers(kinds, answer), untouched' = untouched,
         Fits(answer)', SessionTypes', CopyInv', heard => heard', pc = "hello" => heard',
         pc = "gpp" => opened' = opened, mode' = mode \/ (mode' = "gone" /\ pc = "reset")
  PROVE  Ordered'
<1>1. /\ pc \in kinds /\ mode = "here" /\ pc # "done"
      /\ waiting' /\ inbox' = <<>> /\ pipe' = <<answer>>
      /\ pipe' = <<Head(pipe')>> /\ Head(pipe') = answer
  BY AnswersAsked DEF untouched
<1>2. Answered'
  BY <1>1 DEF Answered
<1>3. pipe' # <<>>
  BY <1>1, Singles
<1>4. UNCHANGED <<op, pc, status, i, file, link, doubtful>>
  BY DEF untouched, call, copy
<1>5. OrderInv'
  BY <1>1, <1>2, <1>4 DEF OrderInv
<1>6. ~Quiet'
  BY <1>3 DEF Quiet
<1>7. ConnectInv'
  <2>1. ConnectInv
    BY DEF Ordered
  <2>2. mode' # "away" /\ (pc \in {"hello", "security"} => mode' # "gone")
    BY <1>1
  <2>3. pc \in Exchanges \ {"hello"} => heard'
    BY <2>1 DEF ConnectInv
  <2>4. pc = "gpp" => opened' = file \/ 0 \in doubtful
    BY <2>1 DEF ConnectInv
  <2>5. QED
    BY <1>1, <1>2, <1>4, <1>6, <2>1, <2>2, <2>3, <2>4 DEF ConnectInv
<1>8. QED
  BY <1>5, <1>7 DEF Ordered

LEMMA ConnectsKeeps ==
  ASSUME Ordered, DeviceConnects PROVE Ordered'
<1>1. untouched' = untouched /\ UNCHANGED <<mode, opened, held, waiting>>
  BY DEF DeviceConnects, untouched
<1>2. SessionTypes'
  BY <1>1 DEF Ordered, SessionTypes, untouched, call
<1>3. CASE Answers({"hello"}, "HELLO_RSP") /\ heard' = TRUE
  <2>1. pc = "hello"
    BY <1>1, <1>3, AnswersAsked
  <2>2. CopyInv' /\ Fits("HELLO_RSP")'
    BY <1>1, <1>3, <2>1 DEF CopyInv, Fits, untouched
  <2>3. QED
    BY <1>1, <1>2, <1>3, <2>1, <2>2, AnswerKeeps
<1>4. CASE Answers({"security"}, "SECURITY_RSP") /\ UNCHANGED heard
  <2>1. pc = "security"
    BY <1>1, <1>4, AnswersAsked
  <2>2. CopyInv' /\ Fits("SECURITY_RSP")'
    BY <1>1, <2>1 DEF CopyInv, Fits, untouched
  <2>3. QED
    BY <1>1, <1>2, <1>4, <2>1, <2>2, AnswerKeeps
<1>5. QED
  BY <1>3, <1>4 DEF DeviceConnects

LEMMA OpensKeeps ==
  ASSUME Ordered, DeviceOpens PROVE Ordered'
<1>1. /\ untouched' = untouched /\ UNCHANGED <<mode, heard, held, waiting>>
      /\ Answers({"open"}, "OPEN_MULTI_RSP") /\ opened' = request.at
  BY DEF DeviceOpens, untouched
<1>2. pc = "open" /\ request.at = file
  BY <1>1, AnswersAsked DEF Pending
<1>3. SessionTypes'
  BY <1>1 DEF Ordered, SessionTypes, untouched, call
<1>4. CopyInv' /\ Fits("OPEN_MULTI_RSP")'
  BY <1>1, <1>2 DEF CopyInv, Fits, untouched
<1>5. QED
  BY <1>1, <1>2, <1>3, <1>4, AnswerKeeps

(* An answer from a device that does nothing.                              *)
LEMMA SaysKeeps ==
  ASSUME Ordered, NEW kinds, NEW answer, Answers(kinds, answer),
         untouched' = untouched, UNCHANGED device, kinds \cap {"hello", "security"} = {},
         answer \in {"STREAM_DLOAD_RSP", "ERROR"}
  PROVE  Ordered'
<1>1. UNCHANGED <<call, pc, waiting, file, count, offset, doubtful, mode, heard, opened, held>>
  BY DEF untouched, device, copy
<1>2. pc \notin {"hello", "security"}
  BY <1>1, AnswersAsked
<1>3. SessionTypes'
  BY <1>1 DEF Ordered, SessionTypes, untouched, call
<1>4. CopyInv'
  BY <1>1 DEF Ordered, CopyInv, Holds, Content, call
<1>5. Fits(answer)'
  BY <1>1, <1>2 DEF Fits
<1>6. QED
  BY <1>1, <1>2, <1>3, <1>4, <1>5, AnswerKeeps

LEMMA TellsKeeps ==
  ASSUME Ordered, DeviceTells PROVE Ordered'
  BY SaysKeeps DEF DeviceTells

LEMMA RefusesKeeps ==
  ASSUME Ordered, DeviceRefuses PROVE Ordered'
  BY SaysKeeps DEF DeviceRefuses

LEMMA ClosesKeeps ==
  ASSUME Ordered, DeviceCloses PROVE Ordered'
<1>1. /\ untouched' = untouched /\ UNCHANGED <<mode, heard, held, waiting>>
      /\ Answers({"close"}, "CLOSE_RSP")
  BY DEF DeviceCloses, untouched
<1>2. pc = "close"
  BY <1>1, AnswersAsked
<1>3. SessionTypes'
  BY <1>1 DEF Ordered, SessionTypes, untouched, call
<1>4. CopyInv' /\ Fits("CLOSE_RSP")'
  BY <1>1, <1>2 DEF CopyInv, Fits, untouched
<1>5. QED
  BY <1>1, <1>2, <1>3, <1>4, AnswerKeeps

LEMMA ResetsKeeps ==
  ASSUME Ordered, DeviceResets PROVE Ordered'
<1>1. /\ untouched' = untouched /\ UNCHANGED <<heard, waiting>> /\ mode' = "gone"
      /\ Answers({"reset"}, "RESET_ACK")
      /\ held' = [f \in DOMAIN held |->
                   [n \in DOMAIN held[f] |-> IF <<f, n>> \in cached THEN Blank ELSE held[f][n]]]
  BY DEF DeviceResets, untouched
<1>2. pc = "reset"
  BY <1>1, AnswersAsked
<1>3. SessionTypes'
  <2>1. SessionTypes /\ DOMAIN held = 1 .. Files
    BY DEF Ordered, SessionTypes
  <2>2. /\ held' = [f \in 1 .. Files |-> held'[f]]
        /\ \A f \in 1 .. Files : DOMAIN held'[f] = DOMAIN held[f]
    BY <1>1, <2>1
  <2>3. QED
    BY <1>1, <2>1, <2>2 DEF SessionTypes, untouched, call
<1>4. CopyInv' /\ Fits("RESET_ACK")'
  BY <1>1, <1>2 DEF CopyInv, Fits, untouched
<1>5. QED
  BY <1>1, <1>2, <1>3, <1>4, AnswerKeeps

(* A block goes behind those written before it.                            *)
LEMMA WritesKeeps ==
  ASSUME Ordered, DeviceWrites PROVE Ordered'
<1>1. /\ untouched' = untouched /\ UNCHANGED <<mode, heard, opened, waiting>>
      /\ UNCHANGED <<call, count, offset, doubtful, file, pc, i>>
      /\ Answers({"write"}, "STREAM_WRITE_RSP")
  BY DEF DeviceWrites, untouched, copy
<1>2. held' = [held EXCEPT ![opened] =
                [n \in DOMAIN @ |-> IF n - request.at \in DOMAIN request.data
                                    THEN request.data[n - request.at] ELSE @[n]]]
  BY DEF DeviceWrites
<1>3. pc = "write" /\ count < Limit /\ Block > 0 /\ request.at = offset /\ request.data = Data
  BY <1>1, AnswersAsked DEF Pending
<1>4. /\ SessionTypes /\ count \in Nat /\ offset = count /\ Holds(count)
      /\ sectors \in Nat /\ fileSectors \in Nat /\ file \in 1 .. Files
  BY <1>3 DEF Ordered, CopyInv, SessionTypes
<1>5. Block \in Nat /\ count + Block <= sectors + fileSectors + 2
  <2>1. Limit \in Nat /\ Limit <= sectors + fileSectors + 2 /\ Available \in Nat
    BY <1>4 DEF Limit, Available
  <2>2. QED
    BY <2>1, <1>3, <1>4 DEF Block, Smaller
<1>6. /\ DOMAIN request.data = 1 .. Block
      /\ \A k \in 1 .. Block : request.data[k] = Content(count + k)
  BY <1>3 DEF Data
<1>7. SessionTypes'
  <2>1. DOMAIN held = 1 .. Files
    BY <1>4 DEF SessionTypes
  <2>2. /\ held' = [f \in 1 .. Files |-> held'[f]]
        /\ \A f \in 1 .. Files : DOMAIN held'[f] = DOMAIN held[f]
    BY <1>2, <2>1
  <2>3. QED
    BY <1>1, <1>4, <2>2 DEF SessionTypes, call
<1>8. ASSUME opened = file, NEW k \in (1 .. count + Block) \ doubtful
      PROVE  held'[file][k] = Content(k)
  <2>1. /\ DOMAIN held = 1 .. Files
        /\ DOMAIN held[file] = 1 .. sectors + fileSectors + 2
    BY <1>4 DEF SessionTypes
  <2>2. k \in DOMAIN held[file]
    BY <2>1, <1>4, <1>5
  <2>3. held'[file][k] = IF k - count \in 1 .. Block
                         THEN request.data[k - count] ELSE held[file][k]
    BY <1>2, <1>3, <1>4, <1>6, <1>8, <2>1, <2>2
  <2>4. CASE k <= count
    BY <1>4, <1>5, <1>8, <2>3, <2>4 DEF Holds
  <2>5. CASE k > count
    <3>1. k - count \in 1 .. Block /\ count + (k - count) = k
      BY <1>4, <1>5, <2>5
    <3>2. QED
      BY <1>6, <2>3, <3>1
  <2>6. QED
    BY <1>4, <1>5, <2>4, <2>5
<1>9. /\ Holds(count)' /\ Holds(count + Block)'
      /\ \A k : Content(k)' = Content(k)
  <2>1. UNCHANGED <<source, Block, count, doubtful, opened, file>>
    BY <1>1 DEF call, Block, Limit, Available
  <2>2. (1 .. count) \ doubtful \subseteq (1 .. count + Block) \ doubtful
    BY <1>4, <1>5
  <2>3. QED
    BY <1>8, <2>1, <2>2 DEF Holds, Content
<1>10. CopyInv' /\ Fits("STREAM_WRITE_RSP")'
  BY <1>1, <1>3, <1>4, <1>9 DEF CopyInv, Fits
<1>11. QED
  BY <1>1, <1>3, <1>7, <1>10, AnswerKeeps

(* Steps of which the exchange sees nothing.                               *)
LEMMA SameKeeps ==
  ASSUME Ordered,
         UNCHANGED <<call, pc, waiting, status, i, file, copy, link, inbox, pipe, heard,
                     opened, held>>,
         mode' = mode \/ (mode = "away" /\ mode' = "here")
  PROVE  Ordered'
<1>1. /\ UNCHANGED <<op, sectors, fileSectors, source, count, offset, doubtful, file, opened, held, pc>>
      /\ Data' = Data /\ Block' = Block /\ Limit' = Limit
  BY DEF call, copy, Data, Block, Limit, Available, Content
<1>2. /\ Holds(count)' <=> Holds(count)
      /\ Holds(count + Block)' <=> Holds(count + Block)
  BY <1>1 DEF Holds, Content
<1>3. Asked => Asked'
  BY <1>1 DEF Asked, Pending
<1>4. Answered => Answered'
  BY <1>1, <1>2 DEF Answered, Fits
<1>5. Quiet' <=> Quiet
  BY DEF Quiet
<1>6. OrderInv'
  BY <1>3, <1>4, <1>5 DEF Ordered, OrderInv
<1>7. CopyInv'
  BY <1>1, <1>2 DEF Ordered, CopyInv
<1>8. SessionTypes'
  BY <1>1 DEF Ordered, SessionTypes
<1>9. ConnectInv'
  BY <1>1, <1>4, <1>5 DEF Ordered, ConnectInv
<1>10. QED
  BY <1>6, <1>7, <1>8, <1>9 DEF Ordered

LEMMA LinkDownKeeps ==
  ASSUME Ordered, LinkDown PROVE Ordered'
<1>1. /\ link' = "down" /\ Quiet'
      /\ UNCHANGED <<call, pc, waiting, status, i, file, copy, device>>
  BY DEF LinkDown, Quiet
<1>2. OrderInv'
  BY <1>1 DEF OrderInv
<1>3. CopyInv'
  BY <1>1 DEF Ordered, CopyInv, Holds, Content, call, copy, device
<1>4. SessionTypes'
  BY <1>1 DEF Ordered, SessionTypes, call, device
<1>5. ConnectInv'
  BY <1>1 DEF Ordered, ConnectInv, call, copy, device
<1>6. QED
  BY <1>2, <1>3, <1>4, <1>5 DEF Ordered

-----------------------------------------------------------------------------
(* Order, once lost, is not found again.                                   *)
LEMMA ReturnsInOrder ==
  ASSUME NEW res, NEW rest, Returns(res, rest), InOrder'
  PROVE  InOrder
<1>1. ~broken' /\ ~behind'
  BY DEF InOrder
<1>2. \/ broken' = broken /\ \E late \in BOOLEAN : behind' = (behind \/ late)
      \/ broken' = TRUE
  BY DEF Returns
<1>3. CASE broken' = broken /\ \E late \in BOOLEAN : behind' = (behind \/ late)
  BY <1>1, <1>3 DEF InOrder
<1>4. CASE broken' = TRUE
  BY <1>1, <1>4
<1>5. QED
  BY <1>2, <1>3, <1>4

LEMMA WasInOrder ==
  ASSUME Streams, InOrder'
  PROVE  InOrder
<1>1. CASE UNCHANGED <<behind, broken>>
  BY <1>1 DEF InOrder
<1>2. CASE \E res \in Results, rest \in Rests : Returns(res, rest)
  BY <1>2, ReturnsInOrder
<1>3. QED
  BY <1>1, <1>2 DEF Streams, Host, Device, LinkDown, Ask, Hello, Security, Unchecked, NoFile,
     NoPatchFile, NotProgrammed, WriteBlock, BlockWritten, CopyEnds, OpenChecked, CreateGPP,
     DeviceArrives, DeviceConnects, DeviceOpens, DeviceTells, DeviceWrites, DeviceRefuses,
     DeviceFlushes, DeviceCloses, DeviceResets, untouched

LEMMA StreamsKeeps ==
  ASSUME Ordered, Streams, InOrder'
  PROVE  Ordered'
<1>1. CASE Host
  BY <1>1, AskKeeps, HelloKeeps, SecurityKeeps, UncheckedKeeps, NoFileKeeps, NoPatchFileKeeps,
     NotProgrammedKeeps, WriteKeeps, BlockWrittenKeeps, CopyEndsKeeps, OpenCheckedKeeps,
     CreateGPPKeeps DEF Host
<1>2. CASE DeviceArrives \/ DeviceFlushes
  BY <1>2, SameKeeps DEF DeviceArrives, DeviceFlushes, untouched
<1>3. CASE Device
  BY <1>2, <1>3, ConnectsKeeps, OpensKeeps, TellsKeeps, WritesKeeps, RefusesKeeps,
     ClosesKeeps, ResetsKeeps DEF Device
<1>4. QED
  BY <1>1, <1>3, LinkDownKeeps DEF Streams

LEMMA NextSession == SessionInv /\ [Next]_vars => SessionInv'
<1> SUFFICES ASSUME SessionInv, [Next]_vars, InOrder', op' # "load" PROVE Ordered'
  BY DEF SessionInv
<1>1. CASE Streams
  <2>1. op # "load"
    BY <1>1, StreamsApart
  <2>2. QED
    BY <1>1, <2>1, WasInOrder, StreamsKeeps DEF SessionInv
<1>2. CASE Loads
  BY <1>2 DEF Loads, hostVars, call
<1>3. CASE UNCHANGED vars
  <2>1. InOrder /\ op # "load"
    BY <1>3 DEF vars, hostVars, call, InOrder
  <2>2. QED
    BY <1>3, <2>1, SameKeeps DEF SessionInv, vars, hostVars, device
<1>4. QED
  BY <1>1, <1>2, <1>3 DEF Next

(* FastCopySerial: as long as the answers come in order, every sector it   *)
(* counts as written is on the device, at its place, if the partition was  *)
(* opened; but for those whose answer did not fit into rsp.                *)
THEOREM CountedIsHeld == Spec => []HeldSoFar
<1>1. HexInv /\ SessionInv => HeldSoFar
  <2> SUFFICES ASSUME HexInv, SessionInv, pc = "write", InOrder, opened = file,
                      NEW k \in (1 .. count) \ doubtful
               PROVE  held[file][k] = Content(k)
    BY DEF HeldSoFar
  <2>1. op # "load"
    BY DEF HexInv
  <2>2. QED
    BY <2>1 DEF SessionInv, Ordered, CopyInv, Holds
<1>2. QED
  BY <1>1, InitHex, NextHex, InitSession, NextSession, PTL DEF Spec

(* ConnectToFlashProg: a device that has heard the hello and answers in    *)
(* time is never given up, and CreateGPP reports no drives on a device     *)
(* that has not opened the partition.                                      *)
THEOREM DeviceConnected == Spec => []Connects
<1>1. SessionInv /\ op # "load" => Connects
  BY DEF SessionInv, Connects, Ordered, ConnectInv
<1>2. SessionInv => Connects
  BY <1>1 DEF Connects
<1>3. QED
  BY <1>2, InitSession, NextSession, PTL DEF Spec
-----------------------------------------------------------------------------
(* What a packet to the device may be; a write goes to a sector there is.  *)
Room == sectors + fileSectors + 2

Packets ==
  {q \in [kind : Exchanges, at : Nat, data : UNION {[1 .. n -> Nat] : n \in Nat}] :
     /\ q.kind = "open" => q.at \in 1 .. Files
     /\ q.kind = "write" => \A k \in DOMAIN q.data : q.at + k \in 1 .. Room}

(* Types, whether or not the answers come in order; what is counted is no  *)
(* more than there is.                                                     *)
TypedInv ==
  /\ sectors \in Nat \ {0} /\ fileSectors \in Nat
  /\ op # "xml" => source = "file"
  /\ TypeOK
  /\ pc \in {"hello", "security"} => i < Attempts
  /\ count <= Available /\ offset = count
  /\ inbox \in Seq(Packets) /\ pipe \in Seq(Results)

LEMMA Sized ==
  ASSUME TypedInv
  PROVE  /\ Limit \in Nat /\ Available \in Nat /\ Available <= Room /\ Limit <= Room
         /\ sectors \in Nat /\ fileSectors \in Nat /\ Room \in Nat
         /\ count \in Nat /\ count <= Limit /\ count <= Available
         /\ Files \in Nat \ {0} /\ Attempts \in Nat \ {0}
         /\ \A k : Content(k) \in {0, k}
<1>1. /\ sectors \in Nat /\ fileSectors \in Nat
      /\ count \in 0 .. Limit /\ count <= Available
  BY DEF TypedInv, TypeOK
<1>2. Files \in Nat \ {0} /\ Attempts \in Nat \ {0}
  BY DloadAssumption DEF DloadAssumption
<1>3. /\ Limit \in Nat /\ Limit <= Room /\ Available \in Nat /\ Available <= Room /\ Room \in Nat
  BY <1>1 DEF Limit, Available, Room
<1> QED
  BY <1>1, <1>2, <1>3 DEF Content, Zero

LEMMA Blocks ==
  ASSUME TypedInv, count < Limit, Block > 0
  PROVE  /\ Block \in Nat /\ count + Block <= Limit /\ count + Block <= Available
<1>1. /\ Limit \in Nat /\ Available \in Nat /\ count \in Nat /\ count <= Available
  BY Sized
<1> QED
  BY <1>1 DEF Block, Smaller

(* What a request or an answer is.                                         *)
LEMMA AskedTyped ==
  ASSUME TypedInv, NEW kind \in Exchanges \ {"write"}
  PROVE  [kind |-> kind, at |-> file, data |-> <<>>] \in Packets
<1>1. file \in 1 .. Files /\ file \in Nat
  BY Sized DEF TypedInv, TypeOK
<1>2. <<>> \in [1 .. 0 -> Nat]
  OBVIOUS
<1>3. <<>> \in UNION {[1 .. n -> Nat] : n \in Nat}
  BY <1>2
<1> QED
  BY <1>1, <1>3 DEF Packets

LEMMA WriteTyped ==
  ASSUME TypedInv, count < Limit, Block > 0
  PROVE  [kind |-> "write", at |-> offset,
          data |-> [k \in 1 .. Block |-> Content(count + k)]] \in Packets
<1>1. /\ Block \in Nat /\ count + Block <= Room /\ count \in Nat /\ Room \in Nat
      /\ offset = count
  BY Blocks, Sized DEF TypedInv
<1>2. PICK data : data = [k \in 1 .. Block |-> Content(count + k)]
  OBVIOUS
<1>3. \A k \in 1 .. Block : Content(count + k) \in Nat
  BY <1>1, Sized
<1>4. data \in [1 .. Block -> Nat]
  BY <1>2, <1>3
<1>5. data \in UNION {[1 .. n -> Nat] : n \in Nat}
  BY <1>1, <1>4
<1>6. \A k \in DOMAIN data : offset + k \in 1 .. Room
  BY <1>1, <1>4
<1>7. [kind |-> "write", at |-> offset, data |-> data] \in Packets
  BY <1>1, <1>5, <1>6 DEF Packets, Exchanges
<1> QED
  BY <1>2, <1>7

(* What is left in the pipe is of what was.                                *)
LEMMA RestTyped ==
  ASSUME TypedInv, NEW rest \in Rests
  PROVE  rest \in Seq(Results)
<1>1. pipe \in Seq(Results) /\ Len(pipe) \in Nat
  BY DEF TypedInv
<1>2. SubSeq(pipe, 2, Len(pipe)) \in Seq(Results)
  BY <1>1, SubSeqProperties
<1> QED
  BY <1>1, <1>2 DEF Rests

LEMMA InitTyped == Init => TypedInv
<1> SUFFICES ASSUME Init PROVE TypedInv
  OBVIOUS
<1>1. /\ Files \in Nat \ {0} /\ Attempts \in Nat \ {0}
      /\ Sizes \subseteq Nat \ {0} /\ FileSizes \subseteq Nat
  BY DloadAssumption DEF DloadAssumption
<1>2. sectors \in Nat \ {0} /\ fileSectors \in Nat
  BY <1>1 DEF Init
<1>3. Limit \in Nat /\ Available \in Nat
  BY <1>2 DEF Limit, Available
<1>4. TypeOK
  BY <1>1, <1>3 DEF Init, TypeOK
<1>5. inbox \in Seq(Packets) /\ pipe \in Seq(Results)
  BY DEF Init
<1> QED
  BY <1>1, <1>2, <1>3, <1>4, <1>5 DEF Init, TypedInv

(* What a step has to show, the entry being the same.                      *)
LEMMA TypedStep ==
  ASSUME TypedInv, UNCHANGED call,
         pc' \in {"nop", "record", "chunk", "go", "hello", "security", "open", "patch",
                  "program", "write", "active", "reset", "close", "gpp", "done"},
         status' \in {"SUCCESS", "INVALID_HANDLE", "FILE_ERROR", "OFFSET", "WRITE_FAULT"},
         i' \in 0 .. Attempts, pc' \in {"hello", "security"} => i' < Attempts,
         file' \in 1 .. Files,
         count' \in 0 .. Limit, count' <= Available, offset' = count',
         rsp' \in {"junk"} \union Results, doubtful' \subseteq 0 .. Limit,
         opened' \in 0 .. Files, cached' \subseteq (1 .. Files) \X (1 .. Room),
         inbox' \in Seq(Packets), pipe' \in Seq(Results)
  PROVE  TypedInv'
<1>1. UNCHANGED <<op, sectors, fileSectors, source>>
  BY DEF call
<1>2. Limit' = Limit /\ Available' = Available /\ Room' = Room
  BY <1>1 DEF Limit, Available, Room
<1>3. Packets' = Packets
  BY <1>2 DEF Packets
<1>4. (cached \subseteq (1 .. Files) \X (1 .. sectors + fileSectors + 2))'
  BY <1>2 DEF Room
<1>5. TypeOK'
  BY <1>2, <1>4 DEF TypeOK
<1> QED
  BY <1>1, <1>2, <1>3, <1>5 DEF TypedInv

LEMMA Parts ==
  ASSUME TypedInv
  PROVE  /\ pc \in {"nop", "record", "chunk", "go", "hello", "security", "open", "patch",
                    "program", "write", "active", "reset", "close", "gpp", "done"}
         /\ status \in {"SUCCESS", "INVALID_HANDLE", "FILE_ERROR", "OFFSET", "WRITE_FAULT"}
         /\ i \in 0 .. Attempts /\ (pc \in {"hello", "security"} => i < Attempts)
         /\ file \in 1 .. Files
         /\ count \in 0 .. Limit /\ count <= Available /\ offset = count
         /\ rsp \in {"junk"} \union Results /\ opened \in 0 .. Files
         /\ doubtful \subseteq 0 .. Limit
         /\ cached \subseteq (1 .. Files) \X (1 .. Room)
         /\ inbox \in Seq(Packets) /\ pipe \in Seq(Results)
BY DEF TypedInv, TypeOK, Room

(* A request goes out: what is under way is one more of its kind.          *)
LEMMA AskTyped ==
  ASSUME TypedInv, Ask PROVE TypedInv'
<1> DEFINE q == [kind |-> pc, at |-> file, data |-> <<>>]
<1>1. /\ UNCHANGED <<call, pc, status, i, file, copy, device>>
      /\ pipe' \in {pipe, <<>>} /\ inbox' \in {inbox, Append(inbox, q)}
      /\ pc \in Exchanges \ {"write"}
  BY DEF Ask, SendSync, Exchanges
<1>2. UNCHANGED <<count, offset, rsp, doubtful, opened, cached>>
  BY <1>1 DEF copy, device
<1>3. q \in Packets
  BY <1>1, AskedTyped
<1> HIDE DEF q
<1>4. inbox' \in Seq(Packets)
  <2>1. inbox \in Seq(Packets)
    BY Parts
  <2>2. Append(inbox, q) \in Seq(Packets)
    BY <1>3, <2>1, AppendProperties
  <2> QED
    BY <1>1, <2>1, <2>2
<1>5. pipe' \in Seq(Results)
  <2>1. pipe \in Seq(Results) /\ <<>> \in Seq(Results)
    BY Parts
  <2> QED
    BY <1>1, <2>1
<1> QED
  BY <1>1, <1>2, <1>4, <1>5, Parts, TypedStep

LEMMA WriteBlockTyped ==
  ASSUME TypedInv, WriteBlock PROVE TypedInv'
<1> DEFINE q == [kind |-> "write", at |-> offset,
                 data |-> [k \in 1 .. Block |-> Content(count + k)]]
<1>1. /\ UNCHANGED <<call, pc, status, i, file, copy, pipe, device>>
      /\ inbox' \in {inbox, Append(inbox, q)}
      /\ count < Limit /\ Block > 0
  BY DEF WriteBlock, SendSync
<1>2. UNCHANGED <<count, offset, rsp, doubtful, opened, cached>>
  BY <1>1 DEF copy, device
<1>3. q \in Packets
  BY <1>1, WriteTyped
<1> HIDE DEF q
<1>4. inbox' \in Seq(Packets)
  <2>1. inbox \in Seq(Packets)
    BY Parts
  <2>2. Append(inbox, q) \in Seq(Packets)
    BY <1>3, <2>1, AppendProperties
  <2> QED
    BY <1>1, <2>1, <2>2
<1> QED
  BY <1>1, <1>2, <1>4, Parts, TypedStep

(* The end of an exchange, with nothing copied.                            *)
LEMMA EndTyped ==
  ASSUME TypedInv, UNCHANGED <<call, inbox, device>>,
         pc' \in {"hello", "security", "open", "patch",
                  "program", "write", "active", "reset", "close", "gpp", "done"},
         status' \in {"SUCCESS", "INVALID_HANDLE", "FILE_ERROR", "OFFSET", "WRITE_FAULT"},
         i' \in 0 .. Attempts, pc' \in {"hello", "security"} => i' < Attempts,
         file' \in 1 .. Files,
         \/ UNCHANGED <<count, offset>> /\ rsp' \in {rsp, "junk"}
         \/ count' = 0 /\ offset' = 0 /\ rsp' = "junk",
         doubtful' \in {doubtful, {}, {0}},
         pipe' \in Rests \union {<<>>}
  PROVE  TypedInv'
<1>1. UNCHANGED <<opened, cached>>
  BY DEF device
<1>2. pipe' \in Seq(Results)
  <2>1. CASE pipe' \in Rests
    BY <2>1, RestTyped
  <2>2. CASE pipe' = <<>>
    BY <2>2
  <2> QED
    BY <2>1, <2>2
<1>3. count' \in 0 .. Limit /\ count' <= Available /\ offset' = count' /\ rsp' \in {"junk"} \union Results
  BY Parts, Sized
<1>4. doubtful' \subseteq 0 .. Limit
  BY Parts, Sized
<1> QED
  BY <1>1, <1>2, <1>3, <1>4, Parts, TypedStep

LEMMA ConnectTyped ==
  ASSUME TypedInv, Hello \/ Security PROVE TypedInv'
<1>1. /\ UNCHANGED <<call, file, copy, inbox, device>>
      /\ i \in 0 .. Attempts /\ i < Attempts /\ Attempts \in Nat \ {0}
  BY Parts, Sized DEF Hello, Security
<1>2. /\ pipe' \in Rests \union {<<>>}
      /\ \/ pc' \in {"security", "open"} /\ i' \in {0, i} /\ status' = status
         \/ /\ i' = i + 1
            /\ \/ pc' = "done" /\ status' = "INVALID_HANDLE"
               \/ pc' \in {"hello", "security"} /\ i' # Attempts /\ status' = status
  <2>1. CASE Hello
    BY <2>1 DEF Hello, NotCounted, NextCount
  <2>2. CASE Security
    <3>1. PICK res \in Results, rest \in Rests :
            IF i < Attempts /\ res = "SECURITY_RSP"
            THEN pc' = "open" /\ pipe' = rest /\ i' = 0 /\ UNCHANGED status
            ELSE /\ pipe' = <<>> /\ i' = i + 1
                 /\ IF i' >= Attempts THEN pc' = "done" /\ status' = "INVALID_HANDLE"
                                      ELSE UNCHANGED <<pc, status>>
      BY <2>2 DEF Security, NextCount
    <3>2. pc = "security"
      BY <2>2 DEF Security
    <3> QED
      BY <1>1, <3>1, <3>2
  <2> QED
    BY <2>1, <2>2
<1>3. i' \in 0 .. Attempts /\ (pc' \in {"hello", "security"} => i' < Attempts)
  BY <1>1, <1>2
<1>4. UNCHANGED <<count, offset, rsp, doubtful>>
  BY <1>1 DEF copy
<1> QED
  BY <1>1, <1>2, <1>3, <1>4, Parts, EndTyped

LEMMA LeaveTyped ==
  ASSUME TypedInv, NEW s, Leave(s)
  PROVE  pc' \in {"close", "open", "active"} /\ file' \in 1 .. Files /\ status' = s
<1>1. file \in 1 .. Files /\ Files \in Nat
  BY Parts, Sized
<1> QED
  BY <1>1 DEF Leave

LEMMA ExchangeTyped ==
  ASSUME TypedInv,
         Unchecked \/ OpenChecked \/ CreateGPP \/ NoFile \/ NoPatchFile \/ NotProgrammed \/ CopyEnds
  PROVE  TypedInv'
<1>1. /\ UNCHANGED <<call, i, inbox, device>>
      /\ pipe' \in Rests \union {<<>>}
      /\ \/ UNCHANGED <<count, offset>> /\ rsp' \in {rsp, "junk"}
         \/ count' = 0 /\ offset' = 0 /\ rsp' = "junk"
      /\ doubtful' \in {doubtful, {}, {0}}
  BY DEF Unchecked, OpenChecked, CreateGPP, NoFile, NoPatchFile, NotProgrammed, CopyEnds, Rests,
     copy
<1>2. /\ pc' \in {"open", "patch", "program", "write", "active", "reset", "close", "gpp", "done"}
      /\ status' \in {"SUCCESS", "INVALID_HANDLE", "FILE_ERROR", "OFFSET", "WRITE_FAULT"}
      /\ file' \in 1 .. Files
  <2>1. CASE Unchecked
    BY <2>1, Parts DEF Unchecked, AfterExchange
  <2>2. CASE OpenChecked \/ CreateGPP \/ NoPatchFile
    BY <2>2, Parts DEF OpenChecked, CreateGPP, NoPatchFile
  <2>3. CASE NoFile
    BY <2>3, LeaveTyped DEF NoFile
  <2>4. CASE NotProgrammed
    BY <2>4, LeaveTyped DEF NotProgrammed
  <2>5. CASE CopyEnds
    BY <2>5, LeaveTyped DEF CopyEnds
  <2> QED
    BY <2>1, <2>2, <2>3, <2>4, <2>5
<1>3. i' \in 0 .. Attempts
  BY <1>1, Parts
<1>4. pc' \in {"hello", "security"} => i' < Attempts
  BY <1>2
<1> QED
  BY <1>1, <1>2, <1>3, <1>4, EndTyped

LEMMA BlockWrittenTyped ==
  ASSUME TypedInv, BlockWritten PROVE TypedInv'
<1>1. /\ UNCHANGED <<call, i, inbox, device>> /\ pc = "write"
      /\ count < Limit /\ Block > 0
      /\ count' = count + Block /\ offset' = offset + Block
  BY DEF BlockWritten, NextOffset
<1>2. PICK res \in Results, rest \in Rests, s \in {"WRITE_FAULT"} :
        /\ pipe' = rest
        /\ rsp' \in {rsp, res, "junk"}
        /\ doubtful' \in {doubtful, doubtful \union (count + 1 .. count + Block)}
        /\ UNCHANGED <<pc, status, file>> \/ Leave(s)
  BY DEF BlockWritten
<1>3. UNCHANGED <<opened, cached>>
  BY <1>1 DEF device
<1>4. pipe' \in Seq(Results)
  BY <1>2, RestTyped
<1>5. /\ pc' \in {"write", "close", "open", "active"} /\ file' \in 1 .. Files
      /\ status' \in {"SUCCESS", "INVALID_HANDLE", "FILE_ERROR", "OFFSET", "WRITE_FAULT"}
  BY <1>1, <1>2, Parts, LeaveTyped
<1>6. count' \in 0 .. Limit /\ count' <= Available /\ offset' = count'
  <2>1. /\ Limit \in Nat /\ count \in Nat /\ Block \in Nat
        /\ count + Block <= Limit /\ count + Block <= Available /\ offset = count
    BY <1>1, Sized, Blocks, Parts
  <2> QED
    BY <1>1, <2>1
<1>7. rsp' \in {"junk"} \union Results
  BY <1>2, Parts
<1>8. doubtful' \subseteq 0 .. Limit
  <2>1. /\ Limit \in Nat /\ count \in Nat /\ Block \in Nat /\ count + Block <= Limit
        /\ doubtful \subseteq 0 .. Limit
    BY <1>1, Sized, Blocks, Parts
  <2> QED
    BY <1>2, <2>1
<1> QED
  BY <1>1, <1>3, <1>4, <1>5, <1>6, <1>7, <1>8, Parts, TypedStep

(* The device takes the next request, and answers.                         *)
LEMMA AnswersTyped ==
  ASSUME TypedInv, NEW kinds, NEW answer \in Results, Answers(kinds, answer),
         UNCHANGED untouched,
         opened' \in 0 .. Files, cached' \subseteq (1 .. Files) \X (1 .. Room)
  PROVE  TypedInv'
<1>1. UNCHANGED <<call, pc, status, i, file, count, offset, rsp, doubtful>>
  BY DEF untouched, copy
<1>2. inbox' \in Seq(Packets)
  BY Parts, HeadTailProperties DEF Answers
<1>3. pipe' \in Seq(Results)
  BY Parts, AppendProperties DEF Answers
<1> QED
  BY <1>1, <1>2, <1>3, Parts, TypedStep

LEMMA RequestTyped ==
  ASSUME TypedInv, NEW kinds, NEW answer, Answers(kinds, answer)
  PROVE  request \in Packets /\ request.kind \in kinds
BY Parts, HeadTailProperties DEF Answers, request

LEMMA DeviceTyped ==
  ASSUME TypedInv, Device PROVE TypedInv'
<1>0. UNCHANGED untouched
  BY DEF Device, DeviceArrives, DeviceConnects, DeviceOpens, DeviceTells, DeviceWrites,
         DeviceRefuses, DeviceFlushes, DeviceCloses, DeviceResets, untouched
<1>1. CASE DeviceArrives \/ DeviceFlushes
  <2>1. /\ UNCHANGED <<call, pc, status, i, file, count, offset, rsp, doubtful, inbox, pipe,
                     opened>>
        /\ cached' \in {cached, {}}
    BY <1>1 DEF DeviceArrives, DeviceFlushes, untouched, copy
  <2> QED
    BY <2>1, Parts, TypedStep
<1>2. CASE DeviceConnects
  <2>1. UNCHANGED <<opened, cached>>
    BY <1>2 DEF DeviceConnects
  <2>2. Answers({"hello"}, "HELLO_RSP") \/ Answers({"security"}, "SECURITY_RSP")
    BY <1>2 DEF DeviceConnects
  <2> QED
    BY <1>0, <2>1, <2>2, Parts, AnswersTyped DEF Results, Responses
<1>3. CASE DeviceOpens
  <2>1. Answers({"open"}, "OPEN_MULTI_RSP") /\ opened' = request.at /\ cached' = {}
    BY <1>3 DEF DeviceOpens
  <2>2. request.at \in 1 .. Files
    BY <2>1, RequestTyped DEF Packets
  <2> QED
    BY <1>0, <2>1, <2>2, AnswersTyped DEF Results, Responses
<1>4. CASE DeviceTells \/ DeviceRefuses
  <2>1. UNCHANGED <<opened, cached>>
    BY <1>4 DEF DeviceTells, DeviceRefuses, device
  <2>2. PICK kinds, answer : Answers(kinds, answer) /\ answer \in {"STREAM_DLOAD_RSP", "ERROR"}
    BY <1>4, Zenon DEF DeviceTells, DeviceRefuses
  <2> QED
    BY <1>0, <2>1, <2>2, Parts, AnswersTyped DEF Results, Responses
<1>5. CASE DeviceWrites
  <2>1. /\ Answers({"write"}, "STREAM_WRITE_RSP") /\ opened # 0 /\ opened' = opened
        /\ cached' = cached \union {<<opened, request.at + n>> : n \in DOMAIN request.data}
    BY <1>5 DEF DeviceWrites
  <2>2. \A n \in DOMAIN request.data : request.at + n \in 1 .. Room
    BY <2>1, RequestTyped DEF Packets
  <2>3. opened \in 1 .. Files
    BY <2>1, Parts, Sized
  <2>4. cached' \subseteq (1 .. Files) \X (1 .. Room)
    BY <2>1, <2>2, <2>3, Parts
  <2> QED
    BY <1>0, <2>1, <2>4, Parts, AnswersTyped DEF Results, Responses
<1>6. CASE DeviceCloses
  <2>1. Answers({"close"}, "CLOSE_RSP") /\ opened' = 0 /\ cached' = {}
    BY <1>6 DEF DeviceCloses
  <2> QED
    BY <1>0, <2>1, Sized, AnswersTyped DEF Results, Responses
<1>7. CASE DeviceResets
  <2>1. Answers({"reset"}, "RESET_ACK") /\ opened' = 0 /\ cached' = {}
    BY <1>7 DEF DeviceResets
  <2> QED
    BY <1>0, <2>1, Sized, AnswersTyped DEF Results, Responses
<1> QED
  BY <1>1, <1>2, <1>3, <1>4, <1>5, <1>6, <1>7 DEF Device

LEMMA NextTyped == TypedInv /\ HexInv /\ [Next]_vars => TypedInv'
<1> SUFFICES ASSUME TypedInv, HexInv, [Next]_vars PROVE TypedInv'
  OBVIOUS
<1>1. CASE Host
  BY <1>1, AskTyped, WriteBlockTyped, ConnectTyped, ExchangeTyped, BlockWrittenTyped DEF Host
<1>2. CASE Device
  BY <1>2, DeviceTyped
<1>3. CASE LinkDown
  <2>1. /\ UNCHANGED <<call, pc, status, i, file, count, offset, rsp, doubtful, opened, cached>>
        /\ inbox' = <<>> /\ pipe' = <<>>
    BY <1>3 DEF LinkDown, copy, device
  <2>2. inbox' \in Seq(Packets) /\ pipe' \in Seq(Results)
    BY <2>1
  <2> QED
    BY <2>1, <2>2, Parts, TypedStep
<1>4. CASE Loads
  <2>1. /\ UNCHANGED <<call, i, file, count, offset, rsp, doubtful, opened, cached, inbox, pipe>>
        /\ op = "load" /\ HexNext
    BY <1>4 DEF Loads, hostVars, copy, device
  <2>2. pc \in {"nop", "record", "chunk", "go", "done"}
    BY <2>1 DEF HexInv
  <2>3. /\ pc' \in {"nop", "record", "chunk", "go", "done"}
        /\ status' \in {status, "SUCCESS", "INVALID_HANDLE", "FILE_ERROR", "WRITE_FAULT"}
    BY <2>1, <2>2 DEF HexNext, IsDeviceInDload, NoProgrammer, DataRecord, OtherRecord,
       RecordAgain, Gather, WriteChunk, NoChunk, Go
  <2> QED
    BY <2>1, <2>3, Parts, TypedStep
<1>5. CASE UNCHANGED vars
  <2>1. UNCHANGED <<call, pc, status, i, file, count, offset, rsp, doubtful, opened, cached,
                     inbox, pipe>>
    BY <1>5 DEF vars, hostVars, copy, device
  <2> QED
    BY <2>1, Parts, TypedStep
<1> QED
  BY <1>1, <1>2, <1>3, <1>4, <1>5 DEF Next, Streams

(* FastCopySerial counts and writes no further than the entry and the      *)
(* file, whatever answers come when; what the device has not flushed is in *)
(* a partition it has.                                                     *)
THEOREM Typed == Spec => []TypeOK
<1>1. TypedInv => TypeOK
  BY DEF TypedInv
<1> QED
  BY <1>1, InitHex, NextHex, InitTyped, NextTyped, PTL DEF Spec

-----------------------------------------------------------------------------
(* Of an image, in order, nothing is counted without its partition, and    *)
(* all of it is held when the copy has ended well.                         *)
Opened ==
  pc = "write" => /\ count > 0 /\ doubtful = {} => opened = 1
                  /\ pipe # <<>> /\ Head(pipe) = "STREAM_WRITE_RSP" => opened = 1

AllHeld == \A k \in 1 .. fileSectors : held[1][k] = k

ImageHeld ==
  /\ pc \in {"hello", "security", "open", "write", "close", "done"}
  /\ file = 1 /\ opened \in {0, 1}
  /\ Opened
  /\ pc \in {"close", "done"} /\ status = "SUCCESS" /\ doubtful = {} => AllHeld

ImageInv == InOrder /\ op = "image" => ImageHeld

LEMMA InitImage == Init => ImageInv
BY DEF Init, ImageInv, ImageHeld, Opened

(* The host, in order.                                                     *)
LEMMA AskImage ==
  ASSUME Ordered, ImageHeld, InOrder', op = "image", Ask \/ Hello \/ Security
  PROVE  ImageHeld'
<1>1. /\ UNCHANGED <<file, opened, held, fileSectors, doubtful>>
      /\ pc' \in {pc, "security", "open", "done"}
      /\ pc \in {"close", "done"} => UNCHANGED <<pc, status>>
      /\ pc # "write"
  BY DEF Ask, Hello, Security, call, copy, device
<1>2. pc' = "done" => pc = "done" \/ status' = "INVALID_HANDLE"
  BY DEF Ask, Hello, Security
<1>3. pc' # "write" /\ pc' \in {"hello", "security", "open", "close", "done"}
  BY <1>1 DEF ImageHeld
<1>4. pc' \in {"close", "done"} /\ status' = "SUCCESS"
        => pc \in {"close", "done"} /\ status = "SUCCESS"
  BY <1>1, <1>2, <1>3
<1> QED
  BY <1>1, <1>3, <1>4 DEF ImageHeld, Opened, AllHeld

LEMMA ExchangeImage ==
  ASSUME Ordered, ImageHeld, InOrder', op = "image",
         Unchecked \/ OpenChecked \/ CreateGPP \/ NoPatchFile \/ NotProgrammed
  PROVE  ImageHeld'
<1>1. Unchecked /\ pc \in {"open", "close"}
  BY DEF ImageHeld, Unchecked, AfterExchange, OpenChecked, CreateGPP, NoPatchFile, NotProgrammed
<1>2. /\ UNCHANGED <<file, opened, held, fileSectors, status>>
      /\ pc = "open" => pc' = "write" /\ count' = 0
      /\ pc = "close" => pc' = "done" /\ doubtful' = doubtful
  BY <1>1 DEF Unchecked, AfterExchange, call, copy, device
<1>3. pc' = "write" => pipe' = <<>>
  <2>1. PICK res \in Results, rest \in Rests : Returns(res, rest) /\ pipe' = rest
    BY <1>1 DEF Unchecked
  <2>2. OrderInv /\ pc # "done"
    BY <1>1 DEF Ordered
  <2> QED
    BY <2>1, <2>2, EndsInOrder
<1>4. Opened'
  BY <1>1, <1>2, <1>3 DEF Opened
<1> QED
  BY <1>1, <1>2, <1>4 DEF ImageHeld, AllHeld

(* A write goes out, or its answer is taken.                               *)
LEMMA WriteImage ==
  ASSUME Ordered, ImageHeld, op = "image", WriteBlock
  PROVE  ImageHeld'
<1>1. UNCHANGED <<pc, status, count, doubtful, file, pipe, opened, held, fileSectors>>
  BY DEF WriteBlock, call, copy, device
<1> QED
  BY <1>1 DEF ImageHeld, Opened, AllHeld

LEMMA WrittenImage ==
  ASSUME Ordered, TypedInv, ImageHeld, InOrder', op = "image", BlockWritten
  PROVE  ImageHeld'
<1>1. PICK res \in Results, rest \in Rests :
        /\ Returns(res, rest) /\ pipe' = rest
        /\ \/ /\ res \in {"failure", "TOO_LONG", "STREAM_WRITE_RSP"}
              /\ UNCHANGED <<pc, status, file>>
           \/ Leave("WRITE_FAULT")
        /\ res = "TOO_LONG" => doubtful' = doubtful \union (count + 1 .. count + Block)
  BY DEF BlockWritten, Acknowledged, SyncFails
<1>2. \/ pc = "write" /\ UNCHANGED <<file, opened, held, fileSectors>>
      \/ Leave("WRITE_FAULT")
  BY <1>1 DEF BlockWritten, call, device
<1>3. OrderInv /\ pc = "write" /\ UNCHANGED <<opened, held, fileSectors>>
  BY DEF Ordered, BlockWritten, call, device
<1>4. CASE Leave("WRITE_FAULT")
  <2>1. pc' = "close" /\ status' = "WRITE_FAULT" /\ file' = file
    BY <1>4 DEF Leave
  <2> QED
    BY <1>3, <2>1 DEF ImageHeld, Opened
<1>5. CASE res = "STREAM_WRITE_RSP" /\ UNCHANGED <<pc, status, file>>
  <2>1. /\ rest = <<>>
        /\ \/ Answered /\ Comes(res)
           \/ Quiet /\ link = "up" /\ res = "nothing"
    BY <1>1, <1>3, EndsInOrder
  <2>2. Answered /\ Head(pipe) = "STREAM_WRITE_RSP"
    BY <1>5, <2>1 DEF Answered, Fits, Comes
  <2>3. pipe # <<>>
    BY <2>2, Singles DEF Answered
  <2>4. opened = 1
    BY <1>3, <2>2, <2>3 DEF ImageHeld, Opened
  <2>5. Opened'
    BY <1>3, <2>4 DEF Opened
  <2> QED
    BY <1>3, <1>5, <2>5 DEF ImageHeld
<1>6. CASE res \in {"failure", "TOO_LONG"} /\ UNCHANGED <<pc, status, file>>
  <2>1. /\ rest = <<>>
        /\ \/ Answered /\ Comes(res)
           \/ Quiet /\ link = "up" /\ res = "nothing"
    BY <1>1, <1>3, EndsInOrder
  <2>2. res = "TOO_LONG"
    BY <1>6, <2>1 DEF Answered, Fits, Comes
  <2>3. doubtful' # {}
    <3>1. count \in Nat /\ Block \in Nat /\ Block > 0
      BY Sized, Blocks DEF BlockWritten
    <3>2. count + 1 \in count + 1 .. count + Block
      BY <3>1
    <3> QED
      BY <1>1, <2>2, <3>2
  <2>4. Opened'
    BY <1>1, <2>1, <2>3 DEF Opened
  <2> QED
    BY <1>3, <1>6, <2>4 DEF ImageHeld
<1> QED
  BY <1>1, <1>4, <1>5, <1>6

(* The copy ends: all that is there has been counted.                      *)
LEMMA EndsImage ==
  ASSUME Ordered, TypedInv, ImageHeld, op = "image", NoFile \/ CopyEnds
  PROVE  ImageHeld'
<1>1. /\ UNCHANGED <<opened, held, fileSectors, doubtful>> /\ pc = "write"
      /\ pc' = "close" /\ file' = file
      /\ \/ NoFile /\ status' = "FILE_ERROR"
         \/ CopyEnds /\ status' = "SUCCESS"
  BY DEF NoFile, CopyEnds, Leave, call, copy, device
<1>2. CASE CopyEnds
  <2>1. /\ source = "file" /\ fileSectors \in Nat
        /\ count \in Nat /\ count <= Available /\ (count >= Limit \/ Block = 0)
    BY <1>2, Sized DEF CopyEnds, TypedInv
  <2>2. Limit = fileSectors + 2 /\ Available = fileSectors
    BY <2>1 DEF Limit, Available
  <2>3. count = fileSectors
    BY <2>1, <2>2 DEF Block, Smaller
  <2>4. ASSUME doubtful = {}, NEW k \in 1 .. fileSectors PROVE held[1][k] = k
    <3>1. count > 0 /\ opened = 1 /\ file = 1 /\ Holds(count)
      BY <1>1, <2>1, <2>3, <2>4 DEF Ordered, CopyInv, ImageHeld, Opened
    <3> QED
      BY <2>1, <2>3, <2>4, <3>1 DEF Holds, Content
  <2>5. doubtful' = {} => AllHeld'
    BY <1>1, <2>4 DEF AllHeld
  <2> QED
    BY <1>1, <2>5 DEF ImageHeld, Opened
<1>3. CASE status' = "FILE_ERROR"
  BY <1>1, <1>3 DEF ImageHeld, Opened
<1> QED
  BY <1>1, <1>2, <1>3

(* What the device does, in order.                                         *)
LEMMA DeviceImage ==
  ASSUME Ordered, ImageHeld, op = "image", Device
  PROVE  ImageHeld'
<1>1. UNCHANGED <<pc, status, file, count, doubtful, waiting, fileSectors>>
  BY DEF Device, DeviceArrives, DeviceConnects, DeviceOpens, DeviceTells, DeviceWrites,
         DeviceRefuses, DeviceFlushes, DeviceCloses, DeviceResets, untouched, call, copy
<1>2. CASE DeviceArrives \/ DeviceFlushes
  <2>1. UNCHANGED <<pipe, opened, held>>
    BY <1>2 DEF DeviceArrives, DeviceFlushes
  <2> QED
    BY <1>1, <2>1 DEF ImageHeld, Opened, AllHeld
<1>3. CASE DeviceConnects
  <2>1. UNCHANGED <<opened, held>> /\ pc \in {"hello", "security"}
    BY <1>1, <1>3, AnswersAsked DEF DeviceConnects
  <2> QED
    BY <1>1, <2>1 DEF ImageHeld, Opened
<1>4. CASE DeviceOpens
  <2>1. pc = "open" /\ opened' = request.at /\ Pending(request)
    BY <1>1, <1>4, AnswersAsked DEF DeviceOpens
  <2>2. opened' = 1
    BY <2>1 DEF Pending, ImageHeld
  <2> QED
    BY <1>1, <2>1, <2>2 DEF ImageHeld, Opened
<1>5. ~DeviceTells /\ ~DeviceResets
  <2>1. DeviceTells => pc \in {"patch", "program", "active", "gpp"}
    BY <1>1, AnswersAsked DEF DeviceTells
  <2>2. DeviceResets => pc = "reset"
    BY <1>1, AnswersAsked DEF DeviceResets
  <2> QED
    BY <2>1, <2>2 DEF ImageHeld
<1>6. CASE DeviceWrites
  <2>1. pc = "write" /\ opened # 0 /\ opened' = opened
    BY <1>1, <1>6, AnswersAsked DEF DeviceWrites
  <2> QED
    BY <1>1, <2>1 DEF ImageHeld, Opened
<1>7. CASE DeviceRefuses
  <2>1. UNCHANGED <<opened, held>> /\ Head(pipe') = "ERROR"
    BY <1>1, <1>7, AnswersAsked DEF DeviceRefuses, device
  <2> QED
    BY <1>1, <2>1 DEF ImageHeld, Opened, AllHeld
<1>8. CASE DeviceCloses
  <2>1. held' = held /\ opened' = 0 /\ pc = "close"
    BY <1>1, <1>8, AnswersAsked DEF DeviceCloses
  <2> QED
    BY <1>1, <2>1 DEF ImageHeld, Opened, AllHeld
<1> QED
  BY <1>2, <1>3, <1>4, <1>5, <1>6, <1>7, <1>8 DEF Device

LEMMA NextImage == ImageInv /\ TypedInv /\ HexInv /\ SessionInv /\ [Next]_vars => ImageInv'
<1> SUFFICES ASSUME ImageInv, TypedInv, HexInv, SessionInv, [Next]_vars, InOrder', op' = "image"
             PROVE  ImageHeld'
  BY DEF ImageInv
<1>1. CASE Streams
  <2>1. op = "image" /\ InOrder
    BY <1>1, StreamsApart, WasInOrder
  <2>2. Ordered /\ ImageHeld
    BY <2>1 DEF ImageInv, SessionInv
  <2>3. CASE Host
    BY <2>1, <2>2, <2>3, AskImage, ExchangeImage, WriteImage, WrittenImage, EndsImage DEF Host
  <2>4. CASE Device
    BY <2>1, <2>2, <2>4, DeviceImage
  <2>5. CASE LinkDown
    <3>1. /\ UNCHANGED <<pc, status, file, count, doubtful, opened, held, fileSectors>>
          /\ pipe' = <<>>
      BY <2>5 DEF LinkDown, call, copy, device
    <3> QED
      BY <2>2, <3>1 DEF ImageHeld, Opened, AllHeld
  <2> QED
    BY <1>1, <2>3, <2>4, <2>5 DEF Streams
<1>2. CASE Loads
  BY <1>2 DEF Loads, hostVars, call
<1>3. CASE UNCHANGED vars
  <2>1. UNCHANGED <<op, pc, status, file, count, doubtful, pipe, opened, held, fileSectors,
                    behind, broken>>
    BY <1>3 DEF vars, hostVars, call, copy, device
  <2>2. ImageHeld
    BY <2>1 DEF ImageInv, InOrder
  <2> QED
    BY <2>1, <2>2 DEF ImageHeld, Opened, AllHeld
<1> QED
  BY <1>1, <1>2, <1>3 DEF Next

(* An image reported as downloaded, with nothing to except.                *)
Sure == Reported /\ InOrder /\ doubtful = {}

DloadInv == HexInv /\ SessionInv /\ TypedInv /\ ImageInv

(* LoadImage: SUCCESS means that every sector of the image is held by the  *)
(* device at its place, if the answers came in order, the port did not     *)
(* fail and every answer had room in rsp: the exchanges of a session       *)
(* implement a block copy.                                                 *)
THEOREM CopyImplemented == Spec => Copies
<1> DEFINE src == [k \in 1 .. fileSectors |-> k]
           dst == [k \in 1 .. fileSectors |-> held[1][k]]
           result == IF pc # "done" THEN "running"
                     ELSE IF Reported /\ InOrder /\ doubtful = {} THEN "SUCCESS" ELSE "ERROR"
<1> USE DEF Sure
<1>1. Init => Copy!Init
  BY DEF Init, Copy!Init
<1>2. DloadInv /\ Sure => dst = src
  <2> SUFFICES ASSUME DloadInv, Sure PROVE dst = src
    OBVIOUS
  <2>1. AllHeld
    BY DEF DloadInv, ImageInv, ImageHeld, Reported, Sure
  <2> QED
    BY <2>1 DEF AllHeld
<1>3. (DloadInv /\ Sure => dst = src)'
  BY <1>2, PTL
<1>4. ASSUME DloadInv, DloadInv', [Next]_vars
      PROVE  [Copy!Next]_(Copy!vars)
  <2>1. op' = op /\ fileSectors' = fileSectors
    BY <1>4
    DEF Next, Streams, Loads, Host, Device, LinkDown, Ask, Hello, Security, Unchecked, NoFile,
        NoPatchFile, NotProgrammed, WriteBlock, BlockWritten, CopyEnds, OpenChecked, CreateGPP,
        DeviceArrives, DeviceConnects, DeviceOpens, DeviceTells, DeviceWrites, DeviceRefuses,
        DeviceFlushes, DeviceCloses, DeviceResets, untouched, call, vars, hostVars
  <2>2. src' = src /\ DOMAIN dst' = DOMAIN dst
    BY <2>1
  <2>3. CASE pc = "done"
    <3>1. pc' = pc /\ status' = status /\ UNCHANGED <<behind, broken, doubtful>>
      BY <1>4, <2>3
      DEF Next, Streams, Loads, Host, Device, LinkDown, Ask, Hello, Security, Unchecked,
          AfterExchange, NoFile, NoPatchFile, NotProgrammed, WriteBlock, BlockWritten, CopyEnds,
          OpenChecked, CreateGPP, DeviceArrives, DeviceConnects, DeviceOpens, DeviceTells,
          DeviceWrites, DeviceRefuses, DeviceFlushes, DeviceCloses, DeviceResets, untouched, copy,
          vars, hostVars, HexNext, IsDeviceInDload, NoProgrammer, DataRecord, OtherRecord,
          RecordAgain, Reading, WriteChunk, NoChunk, Go
    <3>2. Sure' <=> Sure
      BY <2>1, <3>1 DEF Sure, Reported, InOrder
    <3>3. CASE Sure
      <4>1. dst = src
        BY <1>2, <1>4, <3>3
      <4>2. dst' = src'
        <5>1. Sure'
          BY <3>2, <3>3
        <5> QED
          BY <5>1, <1>3, <1>4
      <4> QED
        BY <2>2, <3>1, <3>2, <4>1, <4>2 DEF Copy!vars
    <3>4. CASE ~Sure
      BY <2>2, <2>3, <3>1, <3>2, <3>4 DEF Copy!Next, Copy!Transfer
    <3> QED
      BY <3>3, <3>4
  <2>4. CASE pc # "done" /\ pc' # "done"
    BY <2>2, <2>4 DEF Copy!Next, Copy!Transfer
  <2>5. CASE pc # "done" /\ pc' = "done"
    <3>1. held' = held
      BY <1>4, <2>5
      DEF Next, Streams, Loads, Host, Device, LinkDown, Ask, Hello, Security, Unchecked, NoFile,
          NoPatchFile, NotProgrammed, WriteBlock, BlockWritten, CopyEnds, OpenChecked, CreateGPP,
          DeviceArrives, DeviceConnects, DeviceOpens, DeviceTells, DeviceWrites, DeviceRefuses,
          DeviceFlushes, DeviceCloses, DeviceResets, untouched, device, vars, hostVars
    <3>2. dst' = dst
      BY <2>1, <3>1
    <3>3. CASE Sure'
      <4>1. dst' = src'
        BY <1>3, <1>4, <3>3
      <4> QED
        BY <2>2, <2>5, <3>2, <3>3, <4>1 DEF Copy!Next, Copy!Succeed
    <3>4. CASE ~Sure'
      BY <2>2, <2>5, <3>2, <3>4 DEF Copy!Next, Copy!Fail
    <3> QED
      BY <3>3, <3>4
  <2> QED
    BY <2>3, <2>4, <2>5
<1>5. DloadInv /\ [Next]_vars => DloadInv'
  BY NextHex, NextSession, NextTyped, NextImage DEF DloadInv
<1>6. DloadInv /\ DloadInv' /\ [Next]_vars => [Copy!Next]_(Copy!vars)
  BY <1>4
<1>7. Init => DloadInv
  BY InitHex, InitSession, InitTyped, InitImage DEF DloadInv
<1> QED
  BY <1>1, <1>5, <1>6, <1>7, PTL DEF Spec, Copy!Spec, Copies
=============================================================================
