-------------------------------- MODULE Hdlc --------------------------------
(***************************************************************************)
(* One exchange with a device in its boot loader: SerialPort::SendSync, a  *)
(* packet in HDLC framing and the answer to it, and SerialPort::Flush      *)
(* (src/src/serialport.cpp).  Dload and HexProgrammer are what it is used  *)
(* for; there an exchange is one step or two.                              *)
(*                                                                         *)
(* Request and answer share HDLCBuf: behind the answer there is what is    *)
(* left of the request.  A packet stands for itself and its checksum.      *)
(***************************************************************************)
EXTENDS Integers, FiniteSets, SequencesExt

CONSTANTS
  Bytes,
  Masked,          \* of each byte, what ^ ASYNC_HDLC_ESC_MASK makes of it
  Requests,        \* packets of the host, with their checksums
  Answers,         \* packets of the device, with theirs
  Rooms,           \* sizes of the buffers SendSync is called with
  MAX_PACKET_SIZE,
  MaxExchanges     \* bound: calls of SendSync

FLAG == "flag"
ESC == "esc"

ASSUME HdlcAssumption ==
  /\ {FLAG, ESC} \subseteq Bytes /\ Masked \in [Bytes -> Bytes]
  /\ \A b \in Bytes : Masked[Masked[b]] = b
  /\ \A b \in {FLAG, ESC} : Masked[b] \notin {FLAG, ESC}
  /\ \A p \in Requests \union Answers : p \in Seq(Bytes) /\ p # <<>>
  /\ Rooms \subseteq Nat /\ MAX_PACKET_SIZE \in Nat /\ MAX_PACKET_SIZE > 1
  /\ MaxExchanges \in Nat

VARIABLES
  HDLCBuf,     \* positions from 0
  link,        \* bytes of the device, arrived or on their way
  owed,        \* requests that the device has yet to answer, or not to
  request,     \* the packet sent last, and its frame
  frame,
  told,        \* the device's last answer
  in_buf,      \* what SendSync returned
  room,        \* in_length as it was called
  syncStatus,
  bytesIn,     \* bytes read so far: i, or "none" outside of SendSync
  exchanges,
  inStep       \* did this exchange begin with nothing outstanding?

syncVars == <<HDLCBuf, link, owed, request, frame, told, in_buf, room, syncStatus, bytesIn,
              exchanges, inStep>>

Outside == -1    \* bytesIn when no exchange is under way

-----------------------------------------------------------------------------
(* HDLCEncodePacket (mutated: an escape byte in the packet is sent as it   *)
(* is).                                                                    *)
OnlyFlagEscaped(b) == IF b = FLAG THEN <<ESC, Masked[b]>> ELSE <<b>>
Escaped(b) == IF b \in {FLAG, ESC} THEN <<ESC, Masked[b]>> ELSE <<b>>
Encode(packet) ==
  <<FLAG>> \o FlattenSeq([k \in DOMAIN packet |-> Escaped(packet[k])]) \o <<FLAG>>

(* What a byte of an answer behind an escape stands for (mutated: itself). *)
Taken(b) == b
Restored(b) == Masked[b]

(* HDLCDecodePacket looks n times at the next byte, or at an escape and    *)
(* the byte behind it: of a packet with escapes, it takes as many bytes    *)
(* too many.  At[k] is where in_buf points after k looks.                  *)
Looks(buf, n) ==
  LET At[k \in 0 .. n] ==
        IF k = 0 THEN 0 ELSE At[k - 1] + (IF buf[At[k - 1]] = ESC THEN 2 ELSE 1)
  IN  At

Seen(buf, p) ==
  CASE buf[p] = FLAG -> <<>>
    [] buf[p] = ESC -> <<Restored(buf[p + 1])>>
    [] OTHER -> <<buf[p]>>

Decode(buf, n) ==
  LET At == Looks(buf, n) IN FlattenSeq([k \in 1 .. n |-> Seen(buf, At[k - 1])])

-----------------------------------------------------------------------------
SyncInit ==
  /\ HDLCBuf \in [0 .. MAX_PACKET_SIZE - 1 -> {Masked[FLAG]}]
  /\ link = <<>> /\ owed = 0 /\ request = <<>> /\ frame = <<>> /\ told = <<>>
  /\ in_buf = <<>> /\ room = 0 /\ syncStatus = "none" /\ bytesIn = Outside
  /\ exchanges = 0 /\ inStep = FALSE

(* Nothing of the device's is outstanding, but a flag more than need be.   *)
Clear == owed = 0 /\ link \in {<<>>, <<FLAG>>}

SendSync ==
  /\ bytesIn = Outside /\ exchanges < MaxExchanges
  /\ exchanges' = exchanges + 1
  /\ inStep' = Clear
  /\ \E p \in Requests, n \in Rooms :
       /\ request' = p /\ frame' = Encode(p)
       /\ HDLCBuf' = [k \in DOMAIN HDLCBuf |->
                        IF k < Len(frame') THEN frame'[k + 1] ELSE HDLCBuf[k]]
       /\ room' = n
  /\ \/ owed' = owed + 1 /\ bytesIn' = 0 /\ UNCHANGED syncStatus
     \/ UNCHANGED <<owed, bytesIn>> /\ syncStatus' = "FAULT"
  /\ in_buf' = <<>> /\ told' = <<>>
  /\ UNCHANGED link

(* The device answers, or not, as soon as it likes; a frame may have a     *)
(* flag more before and behind it.                                         *)
DeviceAnswers ==
  /\ owed > 0 /\ owed' = owed - 1
  /\ \/ \E a \in Answers, before, behind \in {<<>>, <<FLAG>>} :
          told' = a /\ link' = link \o before \o Encode(a) \o behind
     \/ UNCHANGED <<told, link>>
  /\ UNCHANGED <<HDLCBuf, request, frame, in_buf, room, syncStatus, bytesIn, exchanges, inStep>>

(* The end of SendSync, with n bytes in HDLCBuf.                           *)
Finish(buf, n) ==
  /\ bytesIn' = Outside
  /\ IF room < n
     THEN syncStatus' = "NOT_ENOUGH_MEMORY" /\ UNCHANGED in_buf
     ELSE syncStatus' = "SUCCESS" /\ in_buf' = Decode(buf, n)

(* One byte; a flag ends the packet if there is more than one byte before  *)
(* it, else it is one more that begins it.  What is longer than HDLCBuf is *)
(* cut, and comes back as one byte.                                        *)
Ends(i) == i > 1

ReadByte ==
  /\ bytesIn # Outside /\ link # <<>>
  /\ link' = Tail(link)
  /\ \E b \in {Head(link)}, buf \in {[HDLCBuf EXCEPT ![bytesIn] = Head(link)]} :
       /\ HDLCBuf' = buf
       /\ CASE b = FLAG /\ Ends(bytesIn) -> Finish(buf, bytesIn + 1)
            [] b = FLAG /\ ~Ends(bytesIn) -> bytesIn' = 1 /\ UNCHANGED <<syncStatus, in_buf>>
            [] b # FLAG /\ bytesIn + 1 < MAX_PACKET_SIZE ->
                 bytesIn' = bytesIn + 1 /\ UNCHANGED <<syncStatus, in_buf>>
            [] OTHER -> Finish(buf, 1)
  /\ UNCHANGED <<owed, request, frame, told, room, exchanges, inStep>>

(* Nothing has come in time: an answer of no bytes, or the read fails.     *)
(* (mutated: the loop goes on)                                             *)
GoOn == UNCHANGED <<bytesIn, syncStatus, in_buf>>
GiveUp ==
  \/ Finish(HDLCBuf, 0)
  \/ bytesIn' = Outside /\ syncStatus' = "FAULT" /\ UNCHANGED in_buf

ReadNothing ==
  /\ bytesIn # Outside
  /\ GiveUp
  /\ UNCHANGED <<HDLCBuf, link, owed, request, frame, told, room, exchanges, inStep>>

(* Flush drops what has arrived.                                           *)
Flush ==
  /\ bytesIn = Outside
  /\ \E n \in 1 .. Len(link) : link' = SubSeq(link, n + 1, Len(link))
  /\ UNCHANGED <<HDLCBuf, owed, request, frame, told, in_buf, room, syncStatus, bytesIn,
                 exchanges, inStep>>

SyncNext == SendSync \/ DeviceAnswers \/ ReadByte \/ ReadNothing \/ Flush

(* A read comes back.                                                      *)
SyncFairness == WF_syncVars(ReadByte \/ ReadNothing)

-----------------------------------------------------------------------------
(* What stands between two flags, read as the standard has it: each byte   *)
(* behind an escape is masked, and escapes are dropped.                    *)
Unframed(f) ==
  LET inner == SubSeq(f, 2, Len(f) - 1)
      Stands(k) == CASE inner[k] = ESC -> <<>>
                     [] inner[k] # ESC /\ k > 1 /\ inner[k - 1] = ESC -> <<Masked[inner[k]]>>
                     [] OTHER -> <<inner[k]>>
  IN  FlattenSeq([k \in DOMAIN inner |-> Stands(k)])

(* A device that reads the frame as the standard has it gets the packet    *)
(* and its checksum: there are flags at its ends and nowhere else, and     *)
(* every byte is told from its escape (HDLCEncodePacket).                  *)
RequestReadable ==
  request # <<>> =>
    /\ {k \in DOMAIN frame : frame[k] = FLAG} = {1, Len(frame)}
    /\ Unframed(frame) = request

(* An exchange that begins with nothing outstanding returns the answer to  *)
(* its request, the checksum and at most as many more bytes as were        *)
(* escaped, whatever the buffer held before, or nothing; and an answer     *)
(* that is returned leaves nothing behind for the next exchange.  After an *)
(* exchange that was given up Flush makes it so again, if the answer has   *)
(* arrived by then (SendSync, HDLCDecodePacket, Flush).                    *)
EscapesIn(p) == {k \in DOMAIN p : p[k] \in {FLAG, ESC}}
AnswerWhole ==
  inStep /\ bytesIn = Outside /\ in_buf # <<>> =>
    /\ IsPrefix(told, in_buf)
    /\ Len(in_buf) <= Len(told) + Cardinality(EscapesIn(told))
    /\ Clear

(* Every exchange ends.                                                    *)
SyncReturns == bytesIn # Outside ~> bytesIn = Outside
=============================================================================
