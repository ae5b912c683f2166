---------------------- MODULE FirehoseTransfer_proofs ----------------------
(***************************************************************************)
(* Proofs about FirehoseTransfer, for every operation, every number of     *)
(* sectors and every packet size.                                          *)
(***************************************************************************)
EXTENDS FirehoseTransfer, TLAPS

(* The image file holds what is announced to the device.                   *)
FileCovers == \A n \in Sizes : FileSectors >= n

(* Where the host is in its call, and how far.                             *)
HostInv ==
  /\ pc \in {"send", "ack"} => tmp_sectors = sectors /\ offset = 0
  /\ pc = "status" => tmp_sectors = 0
  /\ offset <= Chunk
  /\ op \in OutOps => sent = sectors - tmp_sectors /\ offset = 0 /\ got = 0
  /\ op \in InOps => sent = 0
  /\ pc = "done" /\ status = "SUCCESS" /\ fault # "answer" =>
       IF op = "write" THEN sent < sectors \/ final = "ACK"
                       ELSE tmp_sectors = 0 /\ final = "ACK"
  /\ fault = "answer" => pc = "done"
  /\ fault # "none" => op \in InOps
  /\ pc = "done" /\ status = "SUCCESS" /\ fault # "answer" /\ op \in InOps =>
       got = returned
  /\ pc # "done" /\ pc # "ack" => status = "SUCCESS"

(* The device moves with the command and with what it was sent.            *)
DeviceInv ==
  /\ pc = "send" => command = "none" /\ ack = "none"
  /\ command # "none" => ack = "none" /\ command = IF op \in OutOps THEN "program" ELSE "read"
  /\ pc \in {"copy", "status"} => ack # "none"
  /\ pc \in {"copy", "status"} /\ op # "programFrom" => ack = "ACK"
  /\ ack = "none" => sent = 0 /\ returned = 0 /\ dev = "idle" /\ final = "none"
  /\ ack # "none" => command = "none"
  /\ dev # "idle" => /\ ack = "ACK" /\ final = "none"
                     /\ dev = IF op \in OutOps THEN "program" ELSE "read"
  /\ sent > 0 /\ op # "programFrom" => ack = "ACK"
  /\ op \in OutOps => returned = 0
  /\ ack = "NAK" => returned = 0
  /\ final = "ACK" => /\ ack = "ACK"
                      /\ op \in OutOps => received = sectors
                      /\ op \in InOps => returned = sectors

(* What is on the way is what it should be.                                *)
ContentInv ==
  /\ op \in {"program", "programFrom"} => filePos = sent
  /\ pc \in {"copy", "status"} /\ op = "zero" =>
       \A k \in 1 .. Packet : m_payload[k] = Zero
  /\ op \in OutOps => \A k \in 1 .. sent : tape[k] = Source(k)
  /\ ack = "ACK" /\ final # "NAK" => \A k \in 1 .. received : flash[k] = Source(k)
  /\ fault = "none" /\ op \in InOps /\ pc # "done" =>
       /\ got = sectors - tmp_sectors + offset
       /\ \A k \in 1 .. offset : m_payload[k] = sectors - tmp_sectors + k
       /\ \A k \in 1 .. sectors - tmp_sectors : out[k] = k
  /\ pc = "done" /\ status = "SUCCESS" /\ fault = "none" /\ op \in InOps =>
       got = sectors /\ \A k \in 1 .. sectors : out[k] = k

IInv == TypeOK /\ HostInv /\ DeviceInv

LEMMA InitInv == Init => IInv /\ ContentInv
  BY TransferAssumption
  DEF Init, IInv, ContentInv, TypeOK, HostInv, DeviceInv, Content, Zero, Junk,
      Blank, Answers, OutOps, InOps, Chunk, Smaller

LEMMA PieceTyped ==
  ASSUME TypeOK, NEW n \in 0 .. Smaller(Chunk - offset, returned - got)
  PROVE  WithPiece(n) \in [1 .. Packet -> Content]
  BY TransferAssumption DEF TypeOK, WithPiece, Content

LEMMA NextInv == IInv /\ [Next]_vars => IInv'
<1> SUFFICES ASSUME IInv, [Next]_vars PROVE IInv'
  OBVIOUS
<1> USE TransferAssumption
    DEF IInv, TypeOK, HostInv, DeviceInv, Content, Zero, Junk, Blank, Answers,
        OutOps, InOps, AllOps, Chunk, Smaller, host, device, wire
<1>1. CASE SendCommand
  BY <1>1 DEF SendCommand
<1>2. CASE ReadAck
  BY <1>2 DEF ReadAck, StatusOfAck, PayloadAfterStatus
<1>3. CASE WriteDataRefused
  BY <1>3 DEF WriteDataRefused
<1>4. CASE WritePacket
  BY <1>4 DEF WritePacket, NextPacket, FileRead
<1>5. CASE PacketFails
  BY <1>5 DEF PacketFails, PacketComplete
<1>6. CASE ReadPiece
  <2>1. ASSUME NEW n \in 1 .. Smaller(Chunk - offset, returned - got)
        PROVE  WithPiece(n) \in [1 .. Packet -> Content]
    BY <2>1, PieceTyped
  <2> HIDE DEF Content
  <2> QED
    BY <1>6, <2>1 DEF ReadPiece
<1>7. CASE ReadPieceFails
  <2>1. ASSUME NEW n \in 0 .. Smaller(Chunk - offset - 1, returned - got)
        PROVE  WithPiece(n) \in [1 .. Packet -> Content]
    BY <1>7, <2>1, PieceTyped DEF ReadPieceFails
  <2> HIDE DEF Content
  <2> QED
    BY <1>7, <2>1 DEF ReadPieceFails
<1>8. CASE StorePacket
  BY <1>8 DEF StorePacket, PacketComplete
<1>9. CASE CopyDone
  BY <1>9 DEF CopyDone
<1>10. CASE ReadFinal
  BY <1>10 DEF ReadFinal, StatusOfFinal
<1>11. CASE DeviceAccepts
  BY <1>11 DEF DeviceAccepts
<1>12. CASE DeviceRefuses
  BY <1>12 DEF DeviceRefuses
<1>13. CASE DeviceTakes
  BY <1>13 DEF DeviceTakes
<1>14. CASE DeviceAborts
  BY <1>14 DEF DeviceAborts
<1>15. CASE DeviceStray
  BY <1>15 DEF DeviceStray
<1>16. CASE DeviceSends
  BY <1>16 DEF DeviceSends
<1>17. CASE DeviceFinishes
  BY <1>17 DEF DeviceFinishes
<1>18. CASE LinkDown
  BY <1>18 DEF LinkDown
<1>19. CASE UNCHANGED vars
  BY <1>19 DEF vars
<1> QED
  BY <1>1, <1>2, <1>3, <1>4, <1>5, <1>6, <1>7, <1>8, <1>9, <1>10, <1>11, <1>12, <1>13, <1>14, <1>15, <1>16, <1>17, <1>18, <1>19 DEF Next, Host, Device

(* The packet to write next is the next piece of the source.               *)
LEMMA NextPacketIsSource ==
  ASSUME FileCovers, IInv, ContentInv, WritePacket
  PROVE  /\ Chunk \in 1 .. Packet /\ sent + Chunk \in 0 .. sectors
         /\ op \in {"program", "programFrom"} => FileRead = Chunk
         /\ \A k \in 1 .. Chunk : NextPacket[k] = Source(sent + k)
<1>1. /\ op \in OutOps /\ pc = "copy"
      /\ Packet \in Nat \ {0} /\ sectors \in Nat /\ tmp_sectors \in 1 .. sectors
      /\ sent = sectors - tmp_sectors
      /\ op \in {"program", "programFrom"} => filePos = sent
      /\ FileSectors \in Nat /\ FileSectors >= sectors
  BY TransferAssumption
  DEF WritePacket, IInv, TypeOK, HostInv, ContentInv, FileCovers
<1>2. /\ Chunk \in 1 .. Packet /\ sent + Chunk \in 0 .. sectors
      /\ op \in {"program", "programFrom"} => FileRead = Chunk
  BY <1>1 DEF Chunk, FileRead, Smaller
<1>3. CASE op = "write"
  BY <1>1, <1>2, <1>3 DEF NextPacket, Source
<1>4. CASE op = "zero"
  <2>1. \A k \in 1 .. Packet : m_payload[k] = Zero
    BY <1>1, <1>4 DEF ContentInv
  <2> QED
    BY <1>1, <1>2, <1>4, <2>1 DEF NextPacket, Source
<1>5. CASE op \in {"program", "programFrom"}
  BY <1>1, <1>2, <1>5 DEF NextPacket, Source
<1> QED
  BY <1>1, <1>2, <1>3, <1>4, <1>5 DEF OutOps

LEMMA NextContent ==
  ASSUME FileCovers, IInv, ContentInv, [Next]_vars
  PROVE  ContentInv'
<1> USE TransferAssumption
    DEF FileCovers, IInv, ContentInv, TypeOK, HostInv, DeviceInv, Content, Zero,
        Junk, Blank, Answers, OutOps, InOps, AllOps, Chunk, Smaller, Source,
        host, device, wire
<1>1. CASE SendCommand
  BY <1>1 DEF SendCommand
<1>2. CASE ReadAck
  BY <1>2 DEF ReadAck, StatusOfAck, PayloadAfterStatus
<1>3. CASE WriteDataRefused
  BY <1>3 DEF WriteDataRefused
<1>4. CASE WritePacket
  <2>1. /\ Chunk \in 1 .. Packet /\ sent + Chunk \in 0 .. sectors
        /\ op \in {"program", "programFrom"} => FileRead = Chunk
        /\ \A k \in 1 .. Chunk : NextPacket[k] = Source(sent + k)
    BY <1>4, NextPacketIsSource
  <2>2. \A k \in 1 .. sent + Chunk : tape'[k] = Source(k)
    <3> HIDE DEF IInv, ContentInv, Chunk, Smaller, Source, OutOps, InOps
    <3>1. /\ sent \in Nat /\ sectors \in Nat /\ Packet \in Nat
          /\ \A k \in 1 .. sent : tape[k] = Source(k)
          /\ tape' = [k \in 1 .. sectors |->
                         IF k > sent /\ k <= sent + Chunk THEN NextPacket[k - sent]
                                                          ELSE tape[k]]
      BY <1>4 DEF WritePacket, IInv, ContentInv
    <3>2. ASSUME NEW k \in 1 .. sent + Chunk  PROVE tape'[k] = Source(k)
      <4>1. k \in 1 .. sectors
        BY <2>1, <3>1
      <4>2. CASE k <= sent
        BY <3>1, <4>1, <4>2
      <4>3. CASE k > sent
        <5>1. k - sent \in 1 .. Chunk /\ sent + (k - sent) = k
          BY <2>1, <3>1, <4>3
        <5>2. NextPacket[k - sent] = Source(k)
          BY <2>1, <5>1
        <5> QED
          BY <3>1, <4>1, <4>3, <5>2
      <4> QED
        BY <2>1, <3>1, <4>2, <4>3
    <3> QED
      BY <3>2
  <2>3. op = "zero" => \A k \in 1 .. Packet : m_payload'[k] = Zero
    BY <1>4 DEF WritePacket, NextPacket
  <2> QED
    BY <1>4, <2>1, <2>2, <2>3 DEF WritePacket
<1>5. CASE PacketFails
  BY <1>5 DEF PacketFails, PacketComplete
<1>6. CASE ReadPiece
  <2> SUFFICES ASSUME fault = "none" PROVE ContentInv'
    BY <1>6 DEF ReadPiece
  <2>1. PICK n \in 1 .. Smaller(Chunk - offset, returned - got) :
          /\ m_payload' = [k \in 1 .. Packet |->
                             IF k > offset /\ k <= offset + n
                             THEN got + k - offset ELSE m_payload[k]]
          /\ offset' = offset + n
          /\ got' = got + n
    BY <1>6 DEF ReadPiece, WithPiece
  <2>2. /\ n \in Nat /\ offset \in Nat /\ offset + n <= Packet
        /\ got = sectors - tmp_sectors + offset
        /\ sectors \in Nat /\ tmp_sectors \in Nat /\ Packet \in Nat
        /\ \A k \in 1 .. offset : m_payload[k] = sectors - tmp_sectors + k
    BY <1>6, <2>1 DEF ReadPiece
  <2>3. \A k \in 1 .. offset + n : m_payload'[k] = sectors - tmp_sectors + k
    <3> HIDE DEF IInv, ContentInv, Chunk, Smaller
    <3> QED
      BY <2>1, <2>2
  <2>4. /\ tmp_sectors' = tmp_sectors /\ sectors' = sectors /\ out' = out
        /\ op' = op /\ pc' = pc /\ fault' = fault /\ status' = status
        /\ tape' = tape /\ sent' = sent /\ filePos' = filePos /\ flash' = flash
        /\ ack' = ack /\ final' = final /\ received' = received
        /\ op \in InOps /\ pc = "copy"
        /\ \A k \in 1 .. sectors - tmp_sectors : out[k] = k
    BY <1>6 DEF ReadPiece
  <2>5. /\ ack = "ACK" /\ final # "NAK" => \A k \in 1 .. received : flash[k] = Source(k)
    BY DEF ContentInv
  <2> HIDE DEF IInv, Chunk, Smaller, HostInv, DeviceInv, TypeOK
  <2> QED
    BY <2>1, <2>2, <2>3, <2>4, <2>5
<1>7. CASE ReadPieceFails
  BY <1>7 DEF ReadPieceFails
<1>8. CASE StorePacket
  BY <1>8 DEF StorePacket, PacketComplete
<1>9. CASE CopyDone
  BY <1>9 DEF CopyDone
<1>10. CASE ReadFinal
  BY <1>10 DEF ReadFinal, StatusOfFinal
<1>11. CASE DeviceAccepts
  BY <1>11 DEF DeviceAccepts
<1>12. CASE DeviceRefuses
  BY <1>12 DEF DeviceRefuses
<1>13. CASE DeviceTakes
  BY <1>13 DEF DeviceTakes
<1>14. CASE DeviceAborts
  BY <1>14 DEF DeviceAborts
<1>15. CASE DeviceStray
  BY <1>15 DEF DeviceStray
<1>16. CASE DeviceSends
  BY <1>16 DEF DeviceSends
<1>17. CASE DeviceFinishes
  BY <1>17 DEF DeviceFinishes
<1>18. CASE LinkDown
  BY <1>18 DEF LinkDown
<1>19. CASE UNCHANGED vars
  BY <1>19 DEF vars
<1> QED
  BY <1>1, <1>2, <1>3, <1>4, <1>5, <1>6, <1>7, <1>8, <1>9, <1>10, <1>11, <1>12, <1>13, <1>14, <1>15, <1>16, <1>17, <1>18, <1>19 DEF Next, Host, Device

(* Firehose's transfers keep their types; in particular no count leaves    *)
(* the range of the transfer.                                              *)
THEOREM TypeCorrect == Spec => []TypeOK
<1>1. IInv => TypeOK
  BY DEF IInv
<1> QED
  BY <1>1, InitInv, NextInv, PTL DEF Spec

LEMMA Invariant == Spec => []IInv
  BY InitInv, NextInv, PTL DEF Spec

(* Apart from FastCopy behind a moved file pointer, no operation sends     *)
(* payload to a device that has not accepted the command.                  *)
THEOREM NakRespected == Spec => []NakStopsTransfer
<1>1. IInv => NakStopsTransfer
  BY DEF IInv, TypeOK, HostInv, DeviceInv, NakStopsTransfer, PayloadOnlyAfterAck,
         Answers
<1> QED
  BY <1>1, Invariant, PTL

(* A transfer that reports SUCCESS leaves the link empty and the device at *)
(* its commands, when raw reads have failed too, unless payload was taken  *)
(* for the final answer.                                                   *)
THEOREM LinkEmpty == Spec => []LinkLeftEmpty
<1>1. IInv => LinkLeftEmpty
  <2> SUFFICES ASSUME IInv, Reported, fault # "answer"
               PROVE  command = "none" /\ received = sent /\ got = returned /\ dev = "idle"
    BY DEF LinkLeftEmpty
  <2>1. final = "ACK"
    BY DEF Reported, IInv, HostInv, TypeOK
  <2>2. command = "none" /\ dev = "idle"
    BY <2>1 DEF IInv, DeviceInv, TypeOK, Answers
  <2>3. CASE op \in OutOps
    BY <2>1, <2>3, TransferAssumption DEF IInv, DeviceInv, HostInv, TypeOK, Reported
  <2>4. CASE op \in InOps
    BY <2>1, <2>4, TransferAssumption
    DEF IInv, DeviceInv, HostInv, TypeOK, Reported, OutOps, InOps
  <2> QED
    BY <2>2, <2>3, <2>4, TransferAssumption DEF IInv, TypeOK, AllOps
<1> QED
  BY <1>1, Invariant, PTL

(* Every operation implements a block copy, if the file holds what is      *)
(* announced: SUCCESS is reported of a complete, correct copy only, and    *)
(* nothing changes behind it; where a raw read has failed SUCCESS is not   *)
(* counted as reported (Copy), for then it says nothing.                   *)
THEOREM TransferCopies == FileCovers => (Spec => Copies)
<1> SUFFICES ASSUME FileCovers PROVE Spec => Copies
  OBVIOUS
<1> DEFINE Earned == Reported /\ fault = "none"
           src == [k \in 1 .. sectors |-> Source(k)]
           dst == IF op \in OutOps THEN flash ELSE out
           result == IF pc # "done" THEN "running"
                     ELSE IF Earned THEN "SUCCESS" ELSE "ERROR"
<1>1. Init => Copy!Init
  BY DEF Init, Copy!Init, OutOps
<1>2. IInv /\ ContentInv /\ Earned => dst = src
  <2> SUFFICES ASSUME IInv, ContentInv, Earned PROVE dst = src
    OBVIOUS
  <2>1. final = "ACK" /\ pc = "done" /\ status = "SUCCESS"
    BY DEF IInv, HostInv, TypeOK, Reported
  <2>2. CASE op \in OutOps
    <3>1. ack = "ACK" /\ received = sectors
      BY <2>1, <2>2 DEF IInv, DeviceInv
    <3>2. \A k \in 1 .. sectors : flash[k] = Source(k)
      BY <2>1, <3>1 DEF ContentInv
    <3>3. flash \in [1 .. sectors -> Content]
      BY DEF IInv, TypeOK
    <3> QED
      BY <2>2, <3>2, <3>3
  <2>3. CASE op \in InOps
    <3>1. \A k \in 1 .. sectors : out[k] = k
      BY <2>1, <2>3 DEF ContentInv
    <3>2. out \in [1 .. sectors -> Content]
      BY DEF IInv, TypeOK
    <3>3. op \notin OutOps /\ op # "zero"
      BY <2>3 DEF OutOps, InOps
    <3> QED
      BY <3>1, <3>2, <3>3 DEF Source
  <2> QED
    BY <2>2, <2>3, TransferAssumption DEF IInv, TypeOK, AllOps
<1>3. (IInv /\ ContentInv /\ Earned => dst = src)'
  BY <1>2, PTL
<1>4. ASSUME IInv, ContentInv, IInv', ContentInv', [Next]_vars
      PROVE  [Copy!Next]_(Copy!vars)
  <2>1. op' = op /\ sectors' = sectors /\ src' = src
    BY <1>4
    DEF Next, Host, Device, SendCommand, ReadAck, WriteDataRefused, WritePacket,
        PacketFails, ReadPiece, ReadPieceFails, StorePacket, CopyDone, ReadFinal,
        DeviceAccepts, DeviceRefuses, DeviceTakes, DeviceAborts, DeviceStray,
        DeviceSends, DeviceFinishes, LinkDown, vars, Source
  <2>2. DOMAIN dst = 1 .. sectors /\ (DOMAIN dst)' = 1 .. sectors
    BY <1>4, <2>1 DEF IInv, TypeOK
  <2>3. CASE pc = "done"
    <3>1. pc' = pc /\ status' = status /\ sent' = sent /\ out' = out /\ fault' = fault
      BY <1>4, <2>3
      DEF Next, Host, Device, SendCommand, ReadAck, WriteDataRefused, WritePacket,
          PacketFails, ReadPiece, ReadPieceFails, StorePacket, CopyDone, ReadFinal,
          DeviceAccepts, DeviceRefuses, DeviceTakes, DeviceAborts, DeviceStray,
          DeviceSends, DeviceFinishes, LinkDown, vars, host, wire
    <3>2. Earned' <=> Earned
      BY <2>1, <3>1 DEF Reported
    <3>3. CASE Earned
      <4>1. dst = src
        BY <1>2, <1>4, <3>3
      <4>2. dst' = src'
        <5>1. Earned'
          BY <3>2, <3>3
        <5> QED
          BY <5>1, <1>3, <1>4
      <4> QED
        BY <2>1, <3>1, <3>2, <4>1, <4>2 DEF Copy!vars
    <3>4. CASE ~Earned
      BY <2>1, <2>2, <2>3, <3>1, <3>2, <3>4 DEF Copy!Next, Copy!Transfer
    <3> QED
      BY <3>3, <3>4
  <2>4. CASE pc # "done" /\ pc' # "done"
    BY <2>1, <2>2, <2>4 DEF Copy!Next, Copy!Transfer
  <2>5. CASE pc # "done" /\ pc' = "done"
    <3>1. flash' = flash /\ out' = out
      BY <1>4, <2>5
      DEF Next, Host, Device, SendCommand, ReadAck, WriteDataRefused, WritePacket,
          PacketFails, ReadPiece, ReadPieceFails, StorePacket, CopyDone, ReadFinal,
          DeviceAccepts, DeviceRefuses, DeviceTakes, DeviceAborts, DeviceStray,
          DeviceSends, DeviceFinishes, LinkDown, vars, host, device
    <3>2. dst' = dst
      BY <2>1, <3>1
    <3>3. CASE Earned'
      <4>1. dst' = src'
        BY <1>3, <1>4, <3>3
      <4> QED
        BY <2>1, <2>5, <3>2, <3>3, <4>1 DEF Copy!Next, Copy!Succeed
    <3>4. CASE ~Earned'
      BY <2>1, <2>5, <3>2, <3>4 DEF Copy!Next, Copy!Fail
    <3> QED
      BY <3>3, <3>4
  <2> QED
    BY <2>3, <2>4, <2>5
<1>5. IInv /\ ContentInv /\ [Next]_vars => IInv' /\ ContentInv'
  BY NextInv, NextContent
<1>6. IInv /\ ContentInv /\ (IInv' /\ ContentInv') /\ [Next]_vars
        => [Copy!Next]_(Copy!vars)
  BY <1>4
<1> QED
  BY <1>1, <1>5, <1>6, InitInv, PTL DEF Spec, Copies, Copy!Spec
=============================================================================
