-------------------------- MODULE FirehoseTransfer --------------------------
(***************************************************************************)
(* One transfer between the host and a Firehose device:                    *)
(* Firehose::FastCopy (program a file, write zeros, dump),                 *)
(* Firehose::WriteData and Firehose::ReadData (src/src/firehose.cpp).      *)
(*                                                                         *)
(* The host sends a command, waits for the device's answer, moves the      *)
(* sectors packet by packet through m_payload, and asks for the device's   *)
(* final answer.  The device accepts or refuses, takes or sends the        *)
(* sectors it was told, and answers again.  They run at their own pace; a  *)
(* read of the port may fail at any time, and the link may go down for     *)
(* good.                                                                   *)
(*                                                                         *)
(* The unit is the sector.  What a sector holds is the number of the       *)
(* sector it was copied from, or one of the values below.  An answer is    *)
(* read as FirehoseStream reads it.                                        *)
(***************************************************************************)
EXTENDS Integers

CONSTANTS
  Ops,          \* the operations considered, a subset of AllOps
  Sizes,        \* numbers of sectors to transfer
  Packet,       \* dwMaxPacketSize / DISK_SECTOR_SIZE
  FileSectors   \* sectors the image file holds behind sectorRead

(* FastCopy from a file at its start and from sectorRead > 0, FastCopy     *)
(* with hRead = INVALID_HANDLE_VALUE, WriteData; FastCopy to a file,       *)
(* ReadData.                                                               *)
OutOps == {"program", "programFrom", "zero", "write"}
InOps == {"dump", "read"}
AllOps == OutOps \union InOps

ASSUME TransferAssumption ==
  /\ Ops \subseteq AllOps
  /\ Sizes \subseteq Nat \ {0}
  /\ Packet \in Nat \ {0}
  /\ FileSectors \in Nat

Zero == 0       \* a zeroed sector
Junk == -1      \* part of an answer, or what a buffer held before
Blank == -2     \* not written

VARIABLES
  op, sectors,       \* the call; they do not change
  pc,                \* "send", "ack", "copy", "status", "done"
  status,            \* the host's status variable
  tmp_sectors,       \* sectors left (of WriteData: writeBytes - i)
  offset,            \* sectors of the current packet read from the device
  filePos,           \* sectors read from the image file
  m_payload,         \* the packet buffer
  out,               \* the dump file, or ReadData's readBuffer
  link,              \* "up" or "down"
  command,           \* the command on its way to the device
  tape, sent,        \* payload on its way to the device: tape[1..sent]
  received,          \* of it, what the device has taken
  ack, final,        \* the device's two answers, "none" until given
  dev,               \* "idle", "program" or "read"
  returned,          \* sectors the device has sent to the host ...
  got,               \* ... and those the host has read
  flash,             \* the sectors of the device that are addressed
  fault              \* history: "read" from the first raw read that failed,
                     \* "answer" when payload was read as the final answer

host == <<pc, status, tmp_sectors, offset, filePos, m_payload, out, got, fault>>
device == <<ack, final, dev, returned, received, flash>>
wire == <<command, tape, sent>>
vars == <<op, sectors, host, link, wire, device>>

Answers == {"none", "ACK", "NAK"}
Smaller(a, b) == IF a < b THEN a ELSE b

(* What the n-th sector of a complete transfer holds.                      *)
Source(n) == IF op = "zero" THEN Zero ELSE n

(* bytesToRead: dwMaxPacketSize, or what is left when that is less.        *)
Chunk == Smaller(Packet, tmp_sectors)

(* The loop that fills a packet ends (mutated: when the buffer is full,    *)
(* which a short last packet never does).                                  *)
BufferFull == offset = Packet
PacketComplete == offset = Chunk

-----------------------------------------------------------------------------
Init ==
  /\ op \in Ops /\ sectors \in Sizes
  /\ pc = "send" /\ status = "SUCCESS"
  /\ tmp_sectors = sectors /\ offset = 0 /\ filePos = 0
  /\ m_payload = [k \in 1 .. Packet |-> Junk]
  /\ out = [k \in 1 .. sectors |-> Blank]
  /\ link = "up" /\ command = "none"
  /\ tape = [k \in 1 .. sectors |-> Blank] /\ sent = 0 /\ received = 0
  /\ ack = "none" /\ final = "none" /\ dev = "idle"
  /\ returned = 0 /\ got = 0
  /\ flash = [k \in 1 .. sectors |-> Blank]
  /\ fault = "none"

(* The command document is written to the port.  Its write status survives *)
(* only in WriteData: the others overwrite it with ReadStatus'.            *)
SendCommand ==
  /\ pc = "send"
  /\ pc' = "ack"
  /\ IF link = "up"
     THEN /\ command' = IF op \in OutOps THEN "program" ELSE "read"
          /\ UNCHANGED status
     ELSE status' = "WRITE_ERROR" /\ UNCHANGED command
  /\ UNCHANGED <<op, sectors, tmp_sectors, offset, filePos, m_payload, out,
                 got, fault, link, tape, sent, device>>

(* The buffer when a read of the status is over: the answer's text, and in *)
(* FastCopy without an input file zeros, set behind it (mutated: zeros set *)
(* first).                                                                 *)
AnswerText == [k \in 1 .. Packet |-> Junk]
PayloadAfterStatus == [k \in 1 .. Packet |-> IF op = "zero" THEN Zero ELSE Junk]

(* What the command's answer makes of status: the move of the file pointer *)
(* in FastCopy sets it to SUCCESS, whatever the answer was; and what the   *)
(* final answer does (mutated: the answer is not looked at).               *)
AnyAnswer == "SUCCESS"
StatusOfFinal == IF final = "ACK" THEN "SUCCESS" ELSE "INVALID_DATA"
StatusOfAck ==
  IF ack = "ACK" \/ op = "programFrom" THEN "SUCCESS" ELSE "INVALID_DATA"

(* ReadStatus returns the answer to the command.                           *)
ReadAck ==
  /\ pc = "ack" /\ ack # "none" /\ link = "up"
  /\ op = "write" => ack = "ACK"
  /\ status' = StatusOfAck
  /\ pc' = IF status' = "SUCCESS" THEN "copy" ELSE "done"
  /\ m_payload' = PayloadAfterStatus
  /\ UNCHANGED <<op, sectors, tmp_sectors, offset, filePos, out, got, fault,
                 link, wire, device>>

(* WriteData waits once: unless the answer is an ACK it returns, with the  *)
(* status of the command's write.  The other operations wait on.           *)
WriteDataRefused ==
  /\ pc = "ack" /\ op = "write" /\ ack # "ACK"
  /\ pc' = "done"
  /\ UNCHANGED <<op, sectors, status, tmp_sectors, offset, filePos, m_payload,
                 out, got, fault, link, wire, device>>

(* The packet the host writes next: what ReadFile leaves in m_payload,     *)
(* m_payload as it is, or a piece of the caller's buffer.                  *)
FileRead == Smaller(Chunk, FileSectors - filePos)
NextPacket ==
  IF op = "write" THEN [k \in 1 .. Packet |-> sent + k]
  ELSE IF op = "zero" THEN m_payload
  ELSE [k \in 1 .. Packet |-> IF k <= FileRead THEN filePos + k
                                               ELSE m_payload[k]]

(* One packet of program or write: ReadFile, then the port's Write.        *)
WritePacket ==
  /\ pc = "copy" /\ op \in OutOps /\ tmp_sectors > 0
  /\ link = "up"
  /\ m_payload' = IF op = "write" THEN m_payload ELSE NextPacket
  /\ filePos' = IF op \in {"program", "programFrom"} THEN filePos + FileRead
                                                     ELSE filePos
  /\ tape' = [k \in 1 .. sectors |->
                IF k > sent /\ k <= sent + Chunk THEN NextPacket[k - sent]
                                                 ELSE tape[k]]
  /\ sent' = sent + Chunk
  /\ tmp_sectors' = tmp_sectors - Chunk
  /\ UNCHANGED <<op, sectors, pc, status, offset, out, got, fault, link,
                 command, device>>

(* The port's Write, ReadFile or WriteFile fails: the transfer is given up *)
(* and the final answer is not read.                                       *)
PacketFails ==
  /\ pc = "copy" /\ tmp_sectors > 0
  /\ op \in OutOps \/ (op = "dump" /\ PacketComplete)
  /\ status' = "IO_ERROR" /\ pc' = "done"
  /\ UNCHANGED <<op, sectors, tmp_sectors, offset, filePos, m_payload, out,
                 got, fault, link, wire, device>>

(* m_payload when the next n sectors of the device are put at offset.      *)
WithPiece(n) == [k \in 1 .. Packet |-> IF k > offset /\ k <= offset + n
                                       THEN got + k - offset ELSE m_payload[k]]

(* ReadData(&m_payload[offset], bytesToRead - offset, false): some of what *)
(* the device has sent.                                                    *)
ReadPiece ==
  /\ pc = "copy" /\ op \in InOps /\ offset < Chunk
  /\ link = "up"
  /\ \E n \in 1 .. Smaller(Chunk - offset, returned - got) :
       /\ m_payload' = WithPiece(n)
       /\ offset' = offset + n
       /\ got' = got + n
  /\ UNCHANGED <<op, sectors, pc, status, tmp_sectors, filePos, out, fault,
                 link, wire, device>>

(* The port's read fails, for once or because the link is down.  The n     *)
(* sectors that were left in m_buffer are in m_payload, too few for the    *)
(* packet; what is added to offset is the error code, as if so many bytes  *)
(* had come (counted as sectors, no more than the packet lacks), and the   *)
(* transfer goes on.                                                       *)
ReadPieceFails ==
  /\ pc = "copy" /\ op \in InOps /\ offset < Chunk
  /\ \E n \in 0 .. Smaller(Chunk - offset - 1, returned - got) :
       m_payload' = WithPiece(n) /\ got' = got + n
  /\ \E code \in 1 .. Chunk - offset : offset' = offset + code
  /\ fault' = "read"
  /\ UNCHANGED <<op, sectors, pc, status, tmp_sectors, filePos, out, link,
                 wire, device>>

(* The packet is complete: written to the dump file (ReadData has it in    *)
(* the caller's buffer already).                                           *)
StorePacket ==
  /\ pc = "copy" /\ op \in InOps /\ tmp_sectors > 0 /\ PacketComplete
  /\ out' = [k \in 1 .. sectors |->
               IF k > sectors - tmp_sectors /\ k <= sectors - tmp_sectors + Chunk
               THEN m_payload[k - (sectors - tmp_sectors)] ELSE out[k]]
  /\ tmp_sectors' = tmp_sectors - Chunk
  /\ offset' = 0
  /\ UNCHANGED <<op, sectors, pc, status, filePos, m_payload, got, fault, link,
                 wire, device>>

CopyDone ==
  /\ pc = "copy" /\ tmp_sectors = 0
  /\ pc' = "status"
  /\ UNCHANGED <<op, sectors, status, tmp_sectors, offset, filePos, m_payload,
                 out, got, fault, link, wire, device>>

(* ReadStatus behind the transfer: the device's final answer, behind what  *)
(* a failed read has left of the payload; nothing, when the device is      *)
(* silent or that payload hides the answer; or an answer that is payload,  *)
(* for whatever contains the letters of one is taken.                      *)
ReadFinal ==
  /\ pc = "status" /\ pc' = "done"
  /\ \/ /\ link = "up" /\ final # "none"
        /\ status' = StatusOfFinal
        /\ got' = returned /\ UNCHANGED fault
     \/ /\ link = "down" \/ final = "none" \/ got < returned
        /\ status' = "NOT_READY"
        /\ got' \in got .. returned /\ UNCHANGED fault
     \/ /\ link = "up" /\ got < returned
        /\ status' \in {"SUCCESS", "INVALID_DATA"}
        /\ got' \in got + 1 .. returned /\ fault' = "answer"
  /\ UNCHANGED <<op, sectors, tmp_sectors, offset, filePos, m_payload, out,
                 link, wire, device>>

Host ==
  \/ SendCommand \/ ReadAck \/ WriteDataRefused
  \/ WritePacket \/ PacketFails
  \/ ReadPiece \/ ReadPieceFails \/ StorePacket
  \/ CopyDone \/ ReadFinal

-----------------------------------------------------------------------------
(* The device, as the host relies on it.                                   *)
DeviceAccepts ==
  /\ command # "none"
  /\ ack' = "ACK" /\ dev' = command
  /\ command' = "none"
  /\ UNCHANGED <<op, sectors, host, link, tape, sent, final, returned,
                 received, flash>>

DeviceRefuses ==
  /\ command # "none"
  /\ ack' = "NAK"
  /\ command' = "none"
  /\ UNCHANGED <<op, sectors, host, link, tape, sent, final, dev, returned,
                 received, flash>>

DeviceTakes ==
  /\ dev = "program" /\ received < sent
  /\ received' = received + 1
  /\ flash' = [flash EXCEPT ![received + 1] = tape[received + 1]]
  /\ UNCHANGED <<op, sectors, host, link, wire, ack, final, dev, returned>>

(* A write to its storage fails: it stops taking payload.                  *)
DeviceAborts ==
  /\ dev = "program" /\ received < sectors
  /\ final' = "NAK" /\ dev' = "idle"
  /\ UNCHANGED <<op, sectors, host, link, wire, ack, returned, received, flash>>

(* Payload it does not expect is read as a command, and refused.           *)
DeviceStray ==
  /\ dev = "idle" /\ (ack = "NAK" \/ final = "NAK") /\ received < sent
  /\ received' = received + 1
  /\ final' = "NAK"
  /\ UNCHANGED <<op, sectors, host, link, wire, ack, dev, returned, flash>>

DeviceSends ==
  /\ dev = "read" /\ returned < sectors
  /\ returned' = returned + 1
  /\ UNCHANGED <<op, sectors, host, link, wire, ack, final, dev, received,
                 flash>>

DeviceFinishes ==
  /\ \/ dev = "program" /\ received = sectors
     \/ dev = "read" /\ returned = sectors
  /\ final' \in {"ACK", "NAK"}
  /\ dev' = "idle"
  /\ UNCHANGED <<op, sectors, host, link, wire, ack, returned, received, flash>>

Device ==
  \/ DeviceAccepts \/ DeviceRefuses \/ DeviceTakes \/ DeviceAborts
  \/ DeviceStray \/ DeviceSends \/ DeviceFinishes

LinkDown ==
  /\ link = "up" /\ link' = "down"
  /\ UNCHANGED <<op, sectors, host, wire, device>>

Next == Host \/ Device \/ LinkDown

(* The host runs; a device that has something to do does it.               *)
Fairness == WF_vars(Host) /\ WF_vars(Device)

Spec == Init /\ [][Next]_vars
FairSpec == Spec /\ Fairness

-----------------------------------------------------------------------------
Content == {Zero, Junk, Blank} \union Nat

(* Types; the counters stay within the transfer.                           *)
TypeOK ==
  /\ op \in Ops /\ sectors \in Sizes
  /\ pc \in {"send", "ack", "copy", "status", "done"}
  /\ status \in {"SUCCESS", "INVALID_DATA", "NOT_READY", "WRITE_ERROR", "IO_ERROR"}
  /\ tmp_sectors \in 0 .. sectors /\ offset \in 0 .. Packet
  /\ filePos \in 0 .. FileSectors
  /\ m_payload \in [1 .. Packet -> Content]
  /\ out \in [1 .. sectors -> Content]
  /\ link \in {"up", "down"}
  /\ command \in {"none", "program", "read"}
  /\ tape \in [1 .. sectors -> Content]
  /\ sent \in 0 .. sectors /\ received \in 0 .. sent
  /\ ack \in Answers /\ final \in Answers
  /\ dev \in {"idle", "program", "read"}
  /\ returned \in 0 .. sectors /\ got \in 0 .. returned
  /\ flash \in [1 .. sectors -> Content]
  /\ fault \in {"none", "read", "answer"}

(* No payload is sent before the device has accepted the command: the      *)
(* device would read raw sectors as commands.                              *)
PayloadOnlyAfterAck == sent > 0 => ack = "ACK"

(* So it is for every operation but FastCopy from the middle of a file,    *)
(* where moving the file pointer clears the NAK from status.               *)
NakStopsTransfer == op # "programFrom" => PayloadOnlyAfterAck

(* SUCCESS, as a caller has it that looks at *bytesWritten too: refused,   *)
(* WriteData returns the status of the command's write and *bytesWritten 0 *)
(* (firehose.cpp:317).                                                     *)
Reported == pc = "done" /\ status = "SUCCESS" /\ (op = "write" => sent = sectors)

(* A transfer that reports SUCCESS leaves nothing on the link that the     *)
(* next command could take for its answer: every sector sent has been      *)
(* taken on the other side, both answers have been given and the device is *)
(* back at its commands.  It is so when raw reads have failed, too, whose  *)
(* payload is swallowed on the way to the final answer; unless that        *)
(* payload itself was read as the answer.                                  *)
LinkLeftEmpty ==
  Reported /\ fault # "answer" =>
    command = "none" /\ received = sent /\ got = returned /\ dev = "idle"

(* The transfer as its caller sees it: sectors of the source that are to   *)
(* appear in the device's storage, or in the file or buffer of the host.   *)
(* A transfer one of whose raw reads failed is an error here, and may be   *)
(* SUCCESS in the code, whatever was stored (firehose.cpp:389, 689).       *)
Copy == INSTANCE BlockCopy WITH
  src <- [k \in 1 .. sectors |-> Source(k)],
  dst <- IF op \in OutOps THEN flash ELSE out,
  result <- IF pc # "done" THEN "running"
            ELSE IF Reported /\ fault = "none" THEN "SUCCESS" ELSE "ERROR"

(* Every transfer whose raw reads work implements a block copy: SUCCESS    *)
(* means every sector, in its place, whatever the packet size, the pace of *)
(* the two sides, the writes that fail and the moment the link goes down.  *)
Copies == Copy!Spec

(* A call comes back, if the device answers and the link stays up.         *)
Returns == <>(pc = "done" \/ link = "down")
=============================================================================
