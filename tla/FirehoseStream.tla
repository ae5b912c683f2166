--------------------------- MODULE FirehoseStream ---------------------------
(***************************************************************************)
(* How the host reads a Firehose device: Firehose::ReadStatus on top of    *)
(* Firehose::ReadData(pOutBuf, dwBufSize, bXML) and of SerialPort::Read    *)
(* (src/src/firehose.cpp, src/src/serialport.cpp).                         *)
(*                                                                         *)
(* The device talks in one ordered stream that mixes XML documents (logs,  *)
(* ACKs, NAKs) with raw payload.  Two readers share it: the XML reader,    *)
(* which stops behind "</data>" and keeps what it has over in m_buffer,    *)
(* and the raw reader, which has to take that rest before it asks the      *)
(* port again.  Each can be called at any time by the operations of        *)
(* Firehose; a port read hands over whatever has arrived.                  *)
(*                                                                         *)
(* A byte is a position of Stream.  A buffer holds consecutive positions,  *)
(* so m_buffer is the position m_buffer_ptr points at and m_buffer_len.    *)
(***************************************************************************)
EXTENDS Integers, Sequences

CONSTANTS
  Stream,            \* what the device sends: a sequence of Units
  Documents,         \* the positions at which a document or a payload ends
  BufSize,           \* dwMaxPacketSize: the most one refill of m_buffer reads
  Payload,           \* the positions of Stream that are raw payload
  RawSizes,          \* the sizes the raw reader is called with for payload
  DrainSize,         \* the size it is called with to read what is pending
  ACK_TIMEOUT_COUNT

(* "ACK", "NAK" and "</data>" are two units each: they can be cut apart.   *)
Units == {"x", "ack1", "ack2", "nak1", "nak2", "end1", "end2"}

N == Len(Stream)

ASSUME StreamAssumption ==
  /\ Stream \in Seq(Units)
  /\ Documents \subseteq 1 .. N
  /\ BufSize \in Nat \ {0}
  /\ Payload \subseteq 1 .. N
  /\ RawSizes \subseteq Nat \ {0}
  /\ DrainSize \in Nat \ {0}
  /\ ACK_TIMEOUT_COUNT \in Nat \ {0}

VARIABLES
  whole,         \* does the link bring whole documents and the port not fail?
  arrived,       \* positions 1..arrived have reached the host's port
  fetched,       \* positions 1..fetched have been returned by SerialPort::Read
  m_buffer_ptr,  \* the position of the next byte of m_buffer
  m_buffer_len,
  delivered,     \* number of bytes the two readers have handed out
  pc,            \* "idle", "xml" (in ReadData), "check" (back in ReadStatus)
  i,             \* pass of ReadData's loop
  pOutBuf,       \* the positions copied to the caller by this ReadData
  tries,         \* i of ReadStatus' loop
  status         \* what the last call returned: of the raw reader "raw",
                 \* the bytes read, or "code", an error code instead

vars == <<whole, arrived, fetched, m_buffer_ptr, m_buffer_len, delivered, pc,
          i, pOutBuf, tries, status>>

port == <<whole, arrived, fetched>>
buffer == <<m_buffer_ptr, m_buffer_len>>

Smaller(a, b) == IF a < b THEN a ELSE b

(* SerialPort::Read of at most size bytes: everything that has arrived, up *)
(* to size; nothing when the wait times out or the read fails.             *)
PortRead(size) ==
  {Smaller(arrived - fetched, size)} \union (IF whole THEN {} ELSE {0})

(* Passes of ReadData's loop in XML mode.                                  *)
Passes == 3

(* "</data>" is complete at p: found with strncmp on the bytes this call   *)
(* has copied, so both of its halves must be in this call's buffer         *)
(* (mutated: a comparison that stops too early).                           *)
EndsHalfWay(p) == Stream[p] = "end1"
EndsAt(p) ==
  /\ Stream[p] = "end2"
  /\ p - 1 \in pOutBuf \/ p - 1 >= m_buffer_ptr

(* m_buffer_len behind a document of n bytes: the break skips the loop's   *)
(* m_buffer_len--, so the code makes up for it (mutated: it does not).     *)
LeftAfterBreak(n) == m_buffer_len - n + 1
LeftAfter(n) == m_buffer_len - n

(* Where m_buffer_ptr points after a refill (mutated: it is not reset to   *)
(* the start of m_buffer).                                                 *)
OldPointer == m_buffer_ptr
RefillPointer == fetched + 1

(* Empty reads of one ReadStatus, and what a call starts with (mutated:    *)
(* not counted; not reset).                                                *)
SameTry == tries
NextTry == tries + 1
OldTries == tries
FirstTry == 0

(* strstr on what ReadData has copied.                                     *)
Holds(first) == \E p \in pOutBuf : Stream[p] = first /\ p + 1 \in pOutBuf

-----------------------------------------------------------------------------
Init ==
  /\ whole \in BOOLEAN
  /\ arrived = 0 /\ fetched = 0 /\ delivered = 0
  /\ m_buffer_ptr = 1 /\ m_buffer_len = 0
  /\ pc = "idle" /\ i = 0 /\ pOutBuf = {} /\ tries = 0
  /\ status = "none"

(* The link brings more of the stream: in the packets the device wrote, or *)
(* cut anywhere.                                                           *)
Arrive ==
  /\ \E a \in arrived + 1 .. N :
       /\ whole => a \in Documents
       /\ arrived' = a
  /\ UNCHANGED <<whole, fetched, buffer, delivered, pc, i, pOutBuf, tries, status>>

(* A caller enters ReadStatus, which calls ReadData(m_payload, ..., true). *)
(* FastCopy and ReadData do so when they have read the payload.            *)
ReadStatus ==
  /\ pc = "idle" /\ delivered + 1 \notin Payload
  /\ pc' = "xml"
  /\ i' = 0 /\ pOutBuf' = {} /\ tries' = FirstTry
  /\ status' = "none"
  /\ UNCHANGED <<port, buffer, delivered>>

(* The copy loop: n bytes from m_buffer to pOutBuf.                        *)
Copy(n) ==
  /\ pOutBuf' = pOutBuf \union (m_buffer_ptr .. m_buffer_ptr + n - 1)
  /\ delivered' = delivered + n

(* One pass of ReadData in XML mode that meets the end of a document: the  *)
(* rest of m_buffer stays for the next call.                               *)
CopyDocument ==
  /\ pc = "xml"
  /\ \E n \in 1 .. m_buffer_len :
       /\ EndsAt(m_buffer_ptr + n - 1)
       /\ \A k \in 1 .. n - 1 : ~EndsAt(m_buffer_ptr + k - 1)
       /\ Copy(n)
       /\ m_buffer_ptr' = m_buffer_ptr + n
       /\ m_buffer_len' = LeftAfter(n)
  /\ pc' = "check"
  /\ UNCHANGED <<port, i, tries, status>>

(* One pass that does not: m_buffer is emptied and read again; the third   *)
(* refill is left for the next call.                                       *)
CopyAndRefill ==
  /\ pc = "xml"
  /\ \A k \in 1 .. m_buffer_len : ~EndsAt(m_buffer_ptr + k - 1)
  /\ Copy(m_buffer_len)
  /\ m_buffer_ptr' = RefillPointer
  /\ \E n \in PortRead(BufSize) : m_buffer_len' = n /\ fetched' = fetched + n
  /\ i' = i + 1
  /\ pc' = IF i + 1 < Passes THEN "xml" ELSE "check"
  /\ UNCHANGED <<whole, arrived, tries, status>>

(* ReadStatus looks at what ReadData returned: a verdict ...               *)
StatusFound ==
  /\ pc = "check"
  /\ Holds("ack1") \/ Holds("nak1")
  /\ status' = IF Holds("ack1") THEN "SUCCESS" ELSE "INVALID_DATA"
  /\ pc' = "idle"
  /\ UNCHANGED <<port, buffer, delivered, i, pOutBuf, tries>>

(* ... some other document, or a part of one: read on ...                  *)
StatusOther ==
  /\ pc = "check"
  /\ pOutBuf # {} /\ ~Holds("ack1") /\ ~Holds("nak1")
  /\ pc' = "xml" /\ i' = 0 /\ pOutBuf' = {}
  /\ UNCHANGED <<port, buffer, delivered, tries, status>>

(* ... or nothing at all, ACK_TIMEOUT_COUNT times in one call.             *)
StatusSilence ==
  /\ pc = "check"
  /\ pOutBuf = {}
  /\ tries' = NextTry
  /\ IF NextTry < ACK_TIMEOUT_COUNT
     THEN pc' = "xml" /\ UNCHANGED status
     ELSE pc' = "idle" /\ status' = "NOT_READY"
  /\ i' = 0
  /\ UNCHANGED <<port, buffer, delivered, pOutBuf>>

(* The raw reader is called for payload the device has announced, by       *)
(* FastCopy and ReadData, or to drain what is pending, by the commands.    *)
RawCall(size) ==
  /\ pc = "idle"
  /\ \/ size = DrainSize
     \/ size \in RawSizes /\ delivered + 1 .. delivered + size \subseteq Payload

(* ReadData(pOutBuf, size, false) with enough left in m_buffer.            *)
RawFromBuffer(size) ==
  /\ RawCall(size)
  /\ m_buffer_len >= size
  /\ m_buffer_len' = m_buffer_len - size
  /\ m_buffer_ptr' = m_buffer_ptr + size
  /\ delivered' = delivered + size
  /\ status' = "raw"
  /\ UNCHANGED <<port, pc, i, pOutBuf, tries>>

(* The same without: take the rest, then one read of the port.  When that  *)
(* fails its error code is returned where the number of bytes should be,   *)
(* and the caller takes it for that (FirehoseTransfer!ReadPieceFails).     *)
RawFromPort(size) ==
  /\ RawCall(size)
  /\ m_buffer_len < size
  /\ \E n \in PortRead(size - m_buffer_len) :
       /\ fetched' = fetched + n
       /\ delivered' = delivered + m_buffer_len + n
       /\ status' \in {"raw"} \union (IF whole \/ n > 0 THEN {} ELSE {"code"})
  /\ m_buffer_len' = 0
  /\ UNCHANGED <<whole, arrived, m_buffer_ptr, pc, i, pOutBuf, tries>>

Next ==
  \/ Arrive
  \/ ReadStatus
  \/ CopyDocument
  \/ CopyAndRefill
  \/ StatusFound
  \/ StatusOther
  \/ StatusSilence
  \/ \E size \in RawSizes \union {DrainSize} :
       RawFromBuffer(size) \/ RawFromPort(size)

(* The host runs; the link need not bring anything.                        *)
Fairness ==
  /\ WF_vars(CopyDocument \/ CopyAndRefill)
  /\ WF_vars(StatusFound \/ StatusOther \/ StatusSilence)

Spec == Init /\ [][Next]_vars
FairSpec == Spec /\ Fairness

-----------------------------------------------------------------------------
(* Types of the reader's state.                                            *)
TypeOK ==
  /\ whole \in BOOLEAN
  /\ arrived \in 0 .. N /\ fetched \in 0 .. N
  /\ m_buffer_ptr \in 1 .. N + 1 /\ m_buffer_len \in 0 .. N
  /\ delivered \in Nat
  /\ pc \in {"idle", "xml", "check"}
  /\ i \in 0 .. Passes
  /\ pOutBuf \subseteq 1 .. N
  /\ tries \in 0 .. ACK_TIMEOUT_COUNT
  /\ status \in {"none", "SUCCESS", "INVALID_DATA", "NOT_READY", "raw", "code"}

(* No byte is lost, repeated or reordered on its way through m_buffer,     *)
(* whichever reader is called: what the port has returned is what has been *)
(* handed out plus what m_buffer holds, and m_buffer goes on where the     *)
(* last reader stopped (m_buffer_ptr, m_buffer_len and the break behind    *)
(* "</data>", ReadData).                                                   *)
NoByteLost ==
  /\ delivered + m_buffer_len = fetched
  /\ m_buffer_len > 0 => m_buffer_ptr = delivered + 1

(* ReadData never copies past what it read: a document is assembled from   *)
(* bytes that follow each other, ending at the last byte handed out.       *)
Assembled ==
  pc # "idle" => \A p \in pOutBuf : p .. delivered \subseteq pOutBuf

(* No ACK and no NAK is cut in two by the end of a ReadData call: neither  *)
(* half would be recognised by ReadStatus, and the answer would be gone.   *)
EveryStatusWhole ==
  pc = "check" /\ pOutBuf # {} => Stream[delivered] \notin {"ack1", "nak1"}

(* That holds on a link that brings documents whole: the pass behind a     *)
(* refill completes a document that the end of m_buffer has cut, if none   *)
(* is longer than m_buffer.  And when ReadStatus reports an answer it has  *)
(* read that document to its end: a raw read that follows starts with      *)
(* payload, not with the tail of XML.                                      *)
StatusEndsDocument ==
  whole =>
    /\ EveryStatusWhole
    /\ pc = "idle" /\ status \in {"SUCCESS", "INVALID_DATA"} => Stream[delivered] = "end2"

(* Where a reader of whole documents may stop: behind a document or inside *)
(* a payload; and where it may start to read a document.                   *)
Rests == {b \in 0 .. N : b = 0 \/ b \in Documents \/ b + 1 \in Payload}
Starts == {b \in Rests : b + 1 \notin Payload}

IsStatus(p, e) ==
  \/ Stream[p] = "ack1" /\ Stream[p + 1] = "ack2" /\ p + 1 <= e
  \/ Stream[p] = "nak1" /\ Stream[p + 1] = "nak2" /\ p + 1 <= e

(* The document behind b ends at e, with its only "</data>".               *)
IsDocument(b, e) ==
  /\ e \in b + 2 .. N /\ e \in Documents
  /\ Stream[e - 1] = "end1" /\ Stream[e] = "end2"
  /\ \A k \in b + 1 .. e - 1 : Stream[k] # "end2" /\ k \notin Documents

(* What StatusEndsDocument asks of the device: documents that fit m_buffer *)
(* (dwMaxPacketSize, ReadData), payload behind an answer only, and never   *)
(* so much that a read of what is pending stops inside a document.         *)
DocumentsFit ==
  /\ \A b \in Starts : b < N =>
       \E e \in b + 2 .. b + BufSize :
         /\ IsDocument(b, e)
         /\ e + 1 \in Payload => \E p \in b + 1 .. e - 1 : IsStatus(p, e)
  /\ \A p \in Payload : p \in Rests
  /\ \A b \in Rests : b + DrainSize < N => b + DrainSize \in Rests

(* A call of ReadStatus comes back, whatever the device sends or keeps     *)
(* back (for a stream that ends: Stream is finite).                        *)
StatusReturns == pc # "idle" ~> pc = "idle"
=============================================================================
