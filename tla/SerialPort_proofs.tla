-------------------------- MODULE SerialPort_proofs --------------------------
(***************************************************************************)
(* Proofs about the port as its two users have it.                         *)
(* FirehoseStream: for every stream, every way it arrives, every buffer    *)
(* size and every failure of the port.  StatusEndsDocument is for links    *)
(* that bring documents whole: the rest of a document that was begun is in *)
(* m_buffer after one refill, so that none of ReadData's three passes is   *)
(* short.                                                                  *)
(* Hdlc: for every packet, every byte and every size of HDLCBuf.  What     *)
(* HDLCEncodePacket lays out is described once, as a frame (Framed), and   *)
(* what the readers of a frame make of it follows byte by byte.            *)
(***************************************************************************)
EXTENDS SerialPort, SequenceTheorems, FiniteSetTheorems, WellFoundedInduction, TLAPS

(* What the port still holds has arrived: needed to bound a refill.        *)
Reader ==
  /\ whole \in BOOLEAN
  /\ arrived \in 0 .. N /\ fetched \in 0 .. arrived
  /\ m_buffer_ptr \in 1 .. N + 1
  /\ m_buffer_len \in 0 .. N
  /\ delivered \in Nat
  /\ m_buffer_ptr + m_buffer_len <= fetched + 1

Control ==
  /\ pc \in {"idle", "xml", "check"}
  /\ i \in 0 .. Passes
  /\ pc = "xml" => i < Passes
  /\ pOutBuf \subseteq 1 .. N
  /\ tries \in 0 .. ACK_TIMEOUT_COUNT
  /\ pc # "idle" => tries < ACK_TIMEOUT_COUNT
  /\ status \in {"none", "SUCCESS", "INVALID_DATA", "NOT_READY", "raw", "code"}

IInv == Reader /\ Control /\ NoByteLost /\ Assembled

(* A port read returns between zero bytes and what has arrived.            *)
LEMMA PortReadBound ==
  ASSUME NEW size \in Nat, arrived \in Nat, fetched \in 0 .. arrived,
         NEW n \in PortRead(size)
  PROVE  n \in 0 .. arrived - fetched /\ n <= size
  BY StreamAssumption DEF PortRead, Smaller

LEMMA InitInv == Init => IInv
  BY StreamAssumption
  DEF Init, IInv, Reader, Control, NoByteLost, Assembled, Passes, N

LEMMA NextInv == IInv /\ [Next]_vars => IInv'
<1> SUFFICES ASSUME IInv, [Next]_vars PROVE IInv'
  OBVIOUS
<1> USE StreamAssumption
    DEF IInv, Reader, Control, NoByteLost, Assembled, port, buffer,
        Passes, LeftAfter, RefillPointer, NextTry, FirstTry
<1>0. N \in Nat
  BY DEF N
<1>1. CASE Arrive
  BY <1>0, <1>1 DEF Arrive
<1>2. CASE ReadStatus
  BY <1>0, <1>2 DEF ReadStatus
<1>3. CASE CopyDocument
  BY <1>0, <1>3 DEF CopyDocument, Copy
<1>4. CASE CopyAndRefill
  <2>1. PICK n \in PortRead(BufSize) :
          m_buffer_len' = n /\ fetched' = fetched + n
    BY <1>4 DEF CopyAndRefill
  <2>2. n \in 0 .. arrived - fetched
    BY <2>1, PortReadBound
  <2> QED
    BY <1>0, <1>4, <2>1, <2>2 DEF CopyAndRefill, Copy
<1>5. CASE StatusFound
  BY <1>0, <1>5 DEF StatusFound
<1>6. CASE StatusOther
  BY <1>0, <1>6 DEF StatusOther
<1>7. CASE StatusSilence
  BY <1>0, <1>7 DEF StatusSilence
<1>8. ASSUME NEW size \in RawSizes \union {DrainSize}, RawFromBuffer(size) PROVE IInv'
  BY <1>0, <1>8 DEF RawFromBuffer, RawCall
<1>9. ASSUME NEW size \in RawSizes \union {DrainSize}, RawFromPort(size) PROVE IInv'
  <2>1. PICK n \in PortRead(size - m_buffer_len) :
          /\ fetched' = fetched + n
          /\ delivered' = delivered + m_buffer_len + n
    BY <1>9 DEF RawFromPort, RawCall
  <2>2. n \in 0 .. arrived - fetched
    <3>1. size - m_buffer_len \in Nat
      BY <1>0, <1>9 DEF RawFromPort, RawCall
    <3> QED
      BY <2>1, <3>1, PortReadBound
  <2>3. status' \in {"raw", "code"}
    BY <1>9 DEF RawFromPort, RawCall
  <2>4. Reader'
    BY <1>0, <1>9, <2>1, <2>2 DEF RawFromPort, RawCall
  <2> QED
    BY <1>0, <1>9, <2>3, <2>4 DEF RawFromPort, RawCall
<1>10. CASE UNCHANGED vars
  BY <1>0, <1>10 DEF vars
<1> QED
  BY <1>1, <1>2, <1>3, <1>4, <1>5, <1>6, <1>7, <1>8, <1>9, <1>10 DEF Next

LEMMA Invariant == Spec => []IInv
  BY InitInv, NextInv, PTL DEF Spec

(* The reader's state keeps its types: in particular m_buffer_ptr and      *)
(* m_buffer_len never leave the bytes that were read.                      *)
THEOREM TypeCorrect == Spec => []TypeOK
<1>1. IInv => TypeOK
  BY StreamAssumption DEF IInv, Reader, Control, TypeOK, N
<1> QED
  BY <1>1, Invariant, PTL

(* Firehose::ReadData hands out every byte once and in order, however the  *)
(* XML and the raw reader are mixed and whatever the port does.            *)
THEOREM StreamConserved == Spec => []NoByteLost
<1>1. IInv => NoByteLost
  BY DEF IInv
<1> QED
  BY <1>1, Invariant, PTL

(* The document ReadStatus looks at is a piece of the stream without gaps. *)
THEOREM DocumentAssembled == Spec => []Assembled
<1>1. IInv => Assembled
  BY DEF IInv
<1> QED
  BY <1>1, Invariant, PTL

-----------------------------------------------------------------------------
(* On a link that brings documents whole, the readers are between          *)
(* documents, ...                                                          *)
BetweenInv ==
  pc = "idle" =>
    /\ delivered \in Rests
    /\ status \in {"SUCCESS", "INVALID_DATA"} => Stream[delivered] = "end2"

(* ... in a document that began behind b: once any of it has been copied,  *)
(* and after a refill that brought anything, m_buffer has its end, ...     *)
Within(b) ==
  /\ b <= delivered
  /\ pOutBuf = b + 1 .. delivered
  /\ \A e \in 1 .. N : IsDocument(b, e) => e > delivered
  /\ pOutBuf # {} \/ (i > 0 /\ m_buffer_len > 0)
       => \E e \in 1 .. fetched : IsDocument(b, e)

(* ... or behind one that was read to its end.                             *)
Behind ==
  \/ pOutBuf = {} /\ delivered \in Starts
  \/ /\ pOutBuf # {}
     /\ delivered \in Documents /\ Stream[delivered] = "end2"
     /\ delivered + 1 \in Payload => Holds("ack1") \/ Holds("nak1")

WholeInv ==
  whole =>
    /\ arrived = 0 \/ arrived \in Documents
    /\ BetweenInv
    /\ pc = "xml" => \E b \in Starts : Within(b)
    /\ pc = "check" => Behind

(* Raw reads leave the stream between documents.                           *)
LEMMA RawRests ==
  ASSUME DocumentsFit, IInv, whole, arrived = 0 \/ arrived \in Documents,
         NEW size \in RawSizes \union {DrainSize}, RawCall(size), BetweenInv,
         NEW d \in delivered .. arrived, d <= delivered + size,
         d = delivered + size \/ d = arrived
  PROVE  d \in Rests
<1>1. /\ N \in Nat /\ delivered \in Nat /\ arrived \in 0 .. N
      /\ size \in Nat /\ d \in 0 .. N
  BY StreamAssumption DEF N, IInv, Reader
<1>2. CASE d = arrived
  BY <1>1, <1>2 DEF Rests
<1>3. CASE d # arrived /\ size = DrainSize
  <2>1. delivered \in Rests /\ d = delivered + DrainSize /\ d < N
    BY <1>1, <1>3 DEF RawCall, BetweenInv
  <2> QED
    BY <2>1 DEF DocumentsFit
<1>4. CASE /\ d # arrived /\ size \in RawSizes
           /\ delivered + 1 .. delivered + size \subseteq Payload
  <2>1. size > 0 /\ d = delivered + size
    BY <1>1, <1>4, StreamAssumption
  <2>2. d \in Payload
    BY <1>1, <1>4, <2>1
  <2> QED
    BY <2>2 DEF DocumentsFit
<1> QED
  BY <1>2, <1>3, <1>4 DEF RawCall

(* A pass that meets an end has read the document it began to its end.     *)
LEMMA DocumentRead ==
  ASSUME DocumentsFit, IInv, CopyDocument, NEW b \in Starts, Within(b)
  PROVE  Behind'
<1>1. /\ N \in Nat /\ arrived \in 0 .. N /\ fetched \in 0 .. arrived
      /\ delivered \in Nat /\ m_buffer_len \in 0 .. N /\ m_buffer_ptr \in Nat
      /\ BufSize \in Nat
  BY StreamAssumption DEF N, IInv, Reader
<1>2. PICK n \in 1 .. m_buffer_len :
        /\ EndsAt(m_buffer_ptr + n - 1)
        /\ \A k \in 1 .. n - 1 : ~EndsAt(m_buffer_ptr + k - 1)
        /\ Copy(n)
  BY DEF CopyDocument
<1> DEFINE q == delivered + n
<1>3. m_buffer_ptr = delivered + 1 /\ delivered + m_buffer_len = fetched
  BY <1>1, <1>2 DEF IInv, NoByteLost
<1>4. /\ q \in 1 .. fetched /\ q > delivered /\ q <= N
      /\ delivered' = q /\ pOutBuf' = pOutBuf \union (delivered + 1 .. q)
  BY <1>1, <1>2, <1>3 DEF Copy
<1>5. b \in 0 .. N /\ b <= delivered /\ b < N
  BY <1>1, <1>4 DEF Within, Starts, Rests
<1>6. /\ Stream[q] = "end2"
      /\ q - 1 > b
  <2>1. EndsAt(q)
    BY <1>1, <1>2, <1>3
  <2>2. q - 1 \in pOutBuf \/ q - 1 >= delivered + 1
    BY <2>1, <1>3 DEF EndsAt
  <2>3. pOutBuf = b + 1 .. delivered
    BY DEF Within
  <2> QED
    BY <2>1, <2>2, <2>3, <1>1, <1>4, <1>5 DEF EndsAt
<1>7. PICK e \in b + 2 .. b + BufSize :
        /\ IsDocument(b, e)
        /\ e + 1 \in Payload => \E p \in b + 1 .. e - 1 : IsStatus(p, e)
  BY <1>5 DEF DocumentsFit
<1>8. /\ e \in b + 2 .. N /\ e \in Documents /\ e > delivered
      /\ Stream[e - 1] = "end1" /\ Stream[e] = "end2"
      /\ \A k \in b + 1 .. e - 1 : Stream[k] # "end2"
  <2>1. e \in 1 .. N
    BY <1>1, <1>5, <1>7 DEF IsDocument
  <2> QED
    BY <1>7, <2>1 DEF IsDocument, Within
<1>9. ~(q < e)
  BY <1>1, <1>4, <1>5, <1>6, <1>8
<1>10. ~(e < q)
  <2> SUFFICES ASSUME e < q PROVE FALSE
    OBVIOUS
  <2>1. e - delivered \in 1 .. n - 1 /\ m_buffer_ptr + (e - delivered) - 1 = e
    BY <1>1, <1>2, <1>3, <1>4, <1>8
  <2>2. e - 1 \in pOutBuf \/ e - 1 >= m_buffer_ptr
    BY <1>1, <1>3, <1>5, <1>8 DEF Within
  <2>3. EndsAt(e)
    BY <2>2, <1>8 DEF EndsAt
  <2> QED
    BY <2>1, <2>3, <1>2
<1>11. q = e
  BY <1>1, <1>4, <1>5, <1>8, <1>9, <1>10
<1>12. pOutBuf' = b + 1 .. e
  BY <1>1, <1>4, <1>5, <1>11 DEF Within
<1>13. e + 1 \in Payload => Holds("ack1")' \/ Holds("nak1")'
  <2> SUFFICES ASSUME e + 1 \in Payload PROVE Holds("ack1")' \/ Holds("nak1")'
    OBVIOUS
  <2>1. PICK p \in b + 1 .. e - 1 : IsStatus(p, e)
    BY <1>7
  <2>2. p \in pOutBuf' /\ p + 1 \in pOutBuf'
    BY <2>1, <1>12, <1>5, <1>8, <1>1
  <2>3. Stream[p] = "ack1" \/ Stream[p] = "nak1"
    BY <2>1 DEF IsStatus
  <2> QED
    BY <2>2, <2>3 DEF Holds
<1>14. pOutBuf' # {}
  <2>1. e \in b + 1 .. e
    BY <1>5, <1>8, <1>1
  <2> QED
    BY <1>12, <2>1
<1> QED
  BY <1>4, <1>8, <1>11, <1>13, <1>14 DEF Behind

(* A pass that does not ends with the rest of the document in m_buffer, or *)
(* has found nothing to copy.                                              *)
LEMMA DocumentRefilled ==
  ASSUME DocumentsFit, IInv, whole, arrived = 0 \/ arrived \in Documents,
         pc = "xml", CopyAndRefill, NEW b \in Starts, Within(b)
  PROVE  (pc' = "xml" => Within(b)') /\ (pc' = "check" => Behind')
<1>1. /\ N \in Nat /\ arrived \in 0 .. N /\ fetched \in 0 .. arrived
      /\ delivered \in Nat /\ m_buffer_len \in 0 .. N /\ m_buffer_ptr \in Nat
      /\ BufSize \in Nat \ {0} /\ i \in 0 .. 2
      /\ delivered + m_buffer_len = fetched
      /\ m_buffer_len > 0 => m_buffer_ptr = delivered + 1
  BY StreamAssumption DEF N, IInv, Reader, Control, Passes, NoByteLost
<1>2. b \in 0 .. N /\ b <= delivered /\ pOutBuf = b + 1 .. delivered
  BY DEF Within, Starts, Rests
<1>3. PICK n \in PortRead(BufSize) : m_buffer_len' = n /\ fetched' = fetched + n
  BY DEF CopyAndRefill
<1>4. /\ n \in Nat /\ n <= arrived - fetched /\ n <= BufSize
      /\ n = arrived - fetched \/ n = BufSize
  BY <1>1, <1>3 DEF PortRead, Smaller
<1>5. delivered' = fetched /\ pOutBuf' = b + 1 .. fetched
  <2>1. CASE m_buffer_len = 0
    BY <1>1, <1>2, <2>1 DEF CopyAndRefill, Copy
  <2>2. CASE m_buffer_len > 0
    <3>1. m_buffer_ptr .. m_buffer_ptr + m_buffer_len - 1 = delivered + 1 .. fetched
      BY <1>1, <2>2
    <3>2. pOutBuf' = (b + 1 .. delivered) \union (delivered + 1 .. fetched)
      BY <1>2, <3>1 DEF CopyAndRefill, Copy
    <3> QED
      BY <1>1, <1>2, <3>2 DEF CopyAndRefill, Copy
  <2> QED
    BY <1>1, <2>1, <2>2
<1>6. ASSUME NEW e \in 1 .. N, IsDocument(b, e)
      PROVE  e > fetched
  <2>1. /\ e \in b + 2 .. N /\ e > delivered
        /\ Stream[e - 1] = "end1" /\ Stream[e] = "end2"
    BY <1>6 DEF IsDocument, Within
  <2> SUFFICES ASSUME e <= fetched PROVE FALSE
    BY <1>1, <2>1
  <2>2. e - delivered \in 1 .. m_buffer_len /\ m_buffer_ptr + (e - delivered) - 1 = e
    BY <1>1, <1>2, <2>1
  <2>3. e - 1 \in pOutBuf \/ e - 1 >= m_buffer_ptr
    BY <1>1, <1>2, <2>1, <2>2
  <2>4. EndsAt(e)
    BY <2>1, <2>3 DEF EndsAt
  <2> QED
    BY <2>2, <2>4 DEF CopyAndRefill
<1>7. pOutBuf = {} /\ (i > 0 => m_buffer_len = 0)
  <2> SUFFICES ASSUME pOutBuf # {} \/ (i > 0 /\ m_buffer_len > 0) PROVE FALSE
    BY <1>1
  <2>1. PICK e \in 1 .. fetched : IsDocument(b, e)
    BY DEF Within
  <2> QED
    BY <1>1, <1>6, <2>1
<1>8. delivered = b
  BY <1>1, <1>2, <1>7
<1>9. ASSUME fetched > b \/ n > 0
      PROVE  \E e \in 1 .. fetched + n : IsDocument(b, e)
  <2>1. b < N /\ arrived > b /\ arrived \in Documents
    BY <1>1, <1>2, <1>4, <1>8, <1>9
  <2>2. PICK e \in b + 2 .. b + BufSize : IsDocument(b, e)
    BY <2>1 DEF DocumentsFit
  <2>3. e \in 1 .. N /\ \A k \in b + 1 .. e - 1 : k \notin Documents
    BY <2>2, <1>2, <1>1 DEF IsDocument
  <2>4. e <= arrived
    BY <2>1, <2>3, <1>1, <1>2
  <2>5. e > fetched
    BY <2>2, <2>3, <1>6
  <2>6. e <= fetched + n
    BY <1>1, <1>2, <1>4, <1>8, <2>2, <2>4
  <2> QED
    BY <2>2, <2>3, <2>6, <1>1, <1>4
<1>10. Within(b)'
  <2>1. (b <= delivered)' /\ (pOutBuf = b + 1 .. delivered)'
    BY <1>1, <1>2, <1>5
  <2>2. \A e \in 1 .. N : IsDocument(b, e) => e > delivered'
    BY <1>5, <1>6
  <2>3. (pOutBuf # {} \/ (i > 0 /\ m_buffer_len > 0))' => fetched > b \/ n > 0
    BY <1>1, <1>2, <1>3, <1>5
  <2>4. (pOutBuf # {} \/ (i > 0 /\ m_buffer_len > 0))'
          => \E e \in 1 .. fetched' : IsDocument(b, e)
    BY <1>3, <1>9, <2>3
  <2> QED
    BY <2>1, <2>2, <2>4 DEF Within, IsDocument
<1>11. pc' = "check" => Behind'
  <2> SUFFICES ASSUME pc' = "check" PROVE Behind'
    OBVIOUS
  <2>1. i > 0
    BY <1>1 DEF CopyAndRefill, Passes
  <2>2. fetched = b
    BY <1>1, <1>7, <1>8, <2>1
  <2>3. pOutBuf' = {} /\ delivered' = b
    BY <1>1, <1>2, <1>5, <2>2
  <2> QED
    BY <2>3 DEF Behind, Starts, Rests
<1> QED
  BY <1>10, <1>11

(* A reader starts a document between documents.                           *)
Started == delivered \in Starts /\ pOutBuf = {} /\ i = 0

LEMMA WithinStart == Started => \E b \in Starts : Within(b)
<1> SUFFICES ASSUME Started PROVE \E b \in Starts : Within(b)
  OBVIOUS
<1> USE DEF Started
<1>1. delivered \in 0 .. N /\ N \in Nat
  BY StreamAssumption DEF Starts, Rests, N
<1>2. delivered + 1 .. delivered = {}
  BY <1>1
<1>3. ASSUME NEW e \in 1 .. N, IsDocument(delivered, e) PROVE e > delivered
  BY <1>1, <1>3 DEF IsDocument
<1> QED
  BY <1>1, <1>2, <1>3 DEF Within

LEMMA WholeNext ==
  ASSUME DocumentsFit, IInv, WholeInv, [Next]_vars
  PROVE  WholeInv'
<1>0. whole' = whole
  BY DEF Next, vars, port, Arrive, ReadStatus, CopyDocument, CopyAndRefill,
         StatusFound, StatusOther, StatusSilence, RawFromBuffer, RawFromPort
<1> SUFFICES ASSUME whole PROVE WholeInv'
  BY <1>0 DEF WholeInv
<1>w. /\ arrived = 0 \/ arrived \in Documents
      /\ BetweenInv
      /\ pc = "xml" => \E b \in Starts : Within(b)
      /\ pc = "check" => Behind
  BY DEF WholeInv
<1>c. Starts' = Starts
  BY DEF Starts, Rests
<1>1. CASE Arrive
  <2>1. arrived' \in Documents
    BY <1>1 DEF Arrive
  <2>2. UNCHANGED <<fetched, buffer, delivered, pc, i, pOutBuf, status>>
    BY <1>1 DEF Arrive
  <2>3. (pc = "xml" => \E b \in Starts : Within(b))'
    BY <1>w, <2>2 DEF Within, buffer, Starts, Rests, IsDocument
  <2>4. BetweenInv' /\ (pc = "check" => Behind)'
    BY <1>w, <2>2 DEF BetweenInv, Behind, Holds, Starts, Rests
  <2> QED
    BY <2>1, <2>3, <2>4 DEF WholeInv
<1>2. CASE ReadStatus
  <2>1. /\ delivered' \in Starts /\ pOutBuf' = {} /\ i' = 0
        /\ pc' = "xml" /\ arrived' = arrived
    BY <1>2, <1>w DEF ReadStatus, BetweenInv, Starts, port
  <2>2. (\E b \in Starts : Within(b))'
    <3>1. Started'
      BY <2>1 DEF Started, Starts, Rests
    <3> QED
      BY <3>1, WithinStart, PTL
  <2> QED
    BY <2>1, <2>2, <1>w DEF WholeInv, BetweenInv
<1>3. CASE CopyDocument
  <2>1. PICK b \in Starts : Within(b)
    BY <1>3, <1>w DEF CopyDocument
  <2>2. Behind'
    BY <1>3, <2>1, DocumentRead
  <2> QED
    BY <1>3, <2>2, <1>w DEF CopyDocument, WholeInv, BetweenInv, port
<1>4. CASE CopyAndRefill
  <2>1. pc = "xml"
    BY <1>4 DEF CopyAndRefill
  <2>2. PICK b \in Starts : Within(b)
    BY <2>1, <1>w
  <2>3. (pc' = "xml" => Within(b)') /\ (pc' = "check" => Behind')
    BY <1>4, <1>w, <2>1, <2>2, DocumentRefilled
  <2>4. pc' \in {"xml", "check"} /\ arrived' = arrived
    BY <1>4 DEF CopyAndRefill
  <2>5. (pc = "xml" => \E c \in Starts : Within(c))'
    BY <2>2, <2>3, <1>c
  <2> QED
    BY <2>3, <2>4, <2>5, <1>w DEF WholeInv, BetweenInv
<1>5. CASE StatusFound
  <2>1. pOutBuf # {}
    BY <1>5 DEF StatusFound, Holds
  <2>2. delivered \in Documents /\ Stream[delivered] = "end2"
    BY <1>5, <1>w, <2>1 DEF StatusFound, Behind
  <2>3. delivered \in Rests
    BY <2>2, StreamAssumption DEF Rests, N
  <2>4. pc' = "idle" /\ delivered' = delivered /\ arrived' = arrived
    BY <1>5 DEF StatusFound, port
  <2> QED
    BY <2>2, <2>3, <2>4, <1>w DEF WholeInv, BetweenInv, Rests
<1>6. CASE StatusOther
  <2>1. delivered \in Documents /\ delivered + 1 \notin Payload
    BY <1>6, <1>w DEF StatusOther, Behind
  <2>2. /\ delivered' \in Starts /\ pOutBuf' = {} /\ i' = 0
        /\ pc' = "xml" /\ arrived' = arrived
    BY <1>6, <2>1, StreamAssumption DEF StatusOther, Starts, Rests, N, port
  <2>3. (\E b \in Starts : Within(b))'
    <3>1. Started'
      BY <2>2 DEF Started, Starts, Rests
    <3> QED
      BY <3>1, WithinStart, PTL
  <2> QED
    BY <2>2, <2>3, <1>w DEF WholeInv, BetweenInv
<1>7. CASE StatusSilence
  <2>1. delivered \in Starts
    BY <1>7, <1>w DEF StatusSilence, Behind
  <2>2. delivered' \in Starts /\ pOutBuf' = {} /\ i' = 0 /\ arrived' = arrived
    BY <1>7, <2>1 DEF StatusSilence, port
  <2>3. (\E b \in Starts : Within(b))'
    <3>1. Started'
      BY <2>2 DEF Started, Starts, Rests
    <3> QED
      BY <3>1, WithinStart, PTL
  <2>4. pc' = "xml" \/ (pc' = "idle" /\ status' = "NOT_READY")
    BY <1>7 DEF StatusSilence
  <2> QED
    BY <2>2, <2>3, <2>4, <1>w DEF WholeInv, BetweenInv, Starts, Rests
<1>8. ASSUME NEW size \in RawSizes \union {DrainSize},
             RawFromBuffer(size) \/ RawFromPort(size)
      PROVE  WholeInv'
  <2>1. /\ delivered' \in delivered .. arrived /\ delivered' <= delivered + size
        /\ delivered' = delivered + size \/ delivered' = arrived
    <3>1. /\ N \in Nat /\ arrived \in 0 .. N /\ fetched \in 0 .. arrived
          /\ delivered \in Nat /\ m_buffer_len \in 0 .. N /\ size \in Nat
          /\ delivered + m_buffer_len = fetched
      BY StreamAssumption DEF N, IInv, Reader, NoByteLost
    <3>2. CASE RawFromBuffer(size)
      BY <3>1, <3>2 DEF RawFromBuffer
    <3>3. CASE RawFromPort(size)
      <4>1. PICK n \in PortRead(size - m_buffer_len) :
              delivered' = delivered + m_buffer_len + n
        BY <3>3 DEF RawFromPort
      <4> QED
        BY <3>1, <3>3, <4>1 DEF RawFromPort, PortRead, Smaller
    <3> QED
      BY <1>8, <3>2, <3>3
  <2>2. RawCall(size) /\ pc' = "idle" /\ status' = "raw" /\ arrived' = arrived
    BY <1>8 DEF RawFromBuffer, RawFromPort, RawCall, port
  <2>3. delivered' \in Rests
    BY <1>w, <2>1, <2>2, RawRests
  <2> QED
    BY <2>2, <2>3, <1>w DEF WholeInv, BetweenInv, Rests
<1>9. CASE UNCHANGED vars
  <2>1. UNCHANGED <<arrived, fetched, buffer, delivered, pc, i, pOutBuf, status>>
    BY <1>9 DEF vars, buffer
  <2>2. (pc = "xml" => \E b \in Starts : Within(b))'
    BY <1>w, <2>1 DEF Within, buffer, Starts, Rests, IsDocument
  <2> QED
    BY <1>w, <2>1, <2>2 DEF WholeInv, BetweenInv, Behind, Holds, Starts, Rests
<1> QED
  BY <1>1, <1>2, <1>3, <1>4, <1>5, <1>6, <1>7, <1>8, <1>9 DEF Next

(* On a link that brings documents whole, ReadStatus never looks at half   *)
(* an ACK or NAK, and what it answers it has read to the end of its        *)
(* document: the raw read that follows starts with payload.                *)
THEOREM StatusRead == DocumentsFit => (Spec => []StatusEndsDocument)
<1> SUFFICES ASSUME DocumentsFit PROVE Spec => []StatusEndsDocument
  OBVIOUS
<1>1. Init => WholeInv
  BY StreamAssumption DEF Init, WholeInv, BetweenInv, Rests, N
<1>2. IInv /\ WholeInv /\ [Next]_vars => WholeInv'
  BY WholeNext
<1>3. WholeInv => StatusEndsDocument
  BY DEF WholeInv, StatusEndsDocument, EveryStatusWhole, Behind, BetweenInv
<1> QED
  BY <1>1, <1>2, <1>3, Invariant, PTL DEF Spec

-----------------------------------------------------------------------------
(* Induction over the naturals, for a set: the least number that is not in *)
(* it has a predecessor that is.                                           *)
LEMMA SetInduction ==
  ASSUME NEW S, 0 \in S, \A n \in Nat : n \in S => n + 1 \in S
  PROVE  Nat \subseteq S
<1> DEFINE R == OpToRel(<, Nat)
           T == Nat \ S
<1>1. IsWellFoundedOn(R, Nat)
  BY NatLessThanWellFounded
<1>2. \A x, y \in Nat : x < y => <<x, y>> \in R
  BY DEF OpToRel
<1>3. ASSUME T # {} PROVE FALSE
  <2>0. T \subseteq Nat
    OBVIOUS
  <2> HIDE DEF T, R
  <2>1. PICK x \in T : \A y \in T : ~ (<<y, x>> \in R)
    BY <1>1, <1>3, <2>0, WFMin
  <2>2. x \in Nat /\ x \notin S
    BY <2>1 DEF T
  <2>3. x # 0 /\ x - 1 \in Nat /\ x - 1 < x
    BY <2>2
  <2>4. x - 1 \in T
    BY <2>2, <2>3 DEF T
  <2> QED
    BY <2>1, <2>2, <2>3, <2>4, <1>2
<1> QED
  BY <1>3

(* The same up to n.                                                       *)
LEMMA UpTo ==
  ASSUME NEW n \in Nat, NEW S, 0 \in S, \A m \in 0 .. n - 1 : m \in S => m + 1 \in S
  PROVE  0 .. n \subseteq S
<1> DEFINE T == {m \in Nat : m <= n => m \in S}
<1>1. 0 \in T /\ \A m \in Nat : m \in T => m + 1 \in T
  OBVIOUS
<1>2. Nat \subseteq T
  <2> HIDE DEF T
  <2> QED
    BY <1>1, SetInduction
<1> QED
  BY <1>2

-----------------------------------------------------------------------------
(* The elements of a concatenation.                                        *)
LEMMA ConcatElements ==
  ASSUME NEW S, NEW s \in Seq(S), NEW t \in Seq(S)
  PROVE  /\ Len(s) \in Nat /\ Len(t) \in Nat
         /\ s \o t \in Seq(S) /\ Len(s \o t) = Len(s) + Len(t)
         /\ \A k \in 1 .. Len(s) : (s \o t)[k] = s[k]
         /\ \A j \in 1 .. Len(t) : (s \o t)[Len(s) + j] = t[j]
<1> DEFINE a == Len(s)
           b == Len(t)
<1>1. a \in Nat /\ b \in Nat
  OBVIOUS
<1>2. /\ s \o t \in Seq(S) /\ Len(s \o t) = a + b
      /\ \A k \in 1 .. a + b : (s \o t)[k] = IF k <= a THEN s[k] ELSE t[k - a]
  BY ConcatProperties
<1> HIDE DEF a, b
<1>3. ASSUME NEW k \in 1 .. a PROVE k \in 1 .. a + b /\ k <= a
  BY <1>1
<1>4. ASSUME NEW j \in 1 .. b PROVE a + j \in 1 .. a + b /\ ~(a + j <= a) /\ (a + j) - a = j
  BY <1>1
<1>5. /\ \A k \in 1 .. a : (s \o t)[k] = s[k]
      /\ \A j \in 1 .. b : (s \o t)[a + j] = t[j]
  BY <1>2, <1>3, <1>4
<1> QED
  BY <1>1, <1>2, <1>5 DEF a, b

(* FlattenSeq puts its pieces one behind another: st[m] is where the m-th  *)
(* ends.                                                                   *)
Flattens(s, n, f) == f = [k \in 1 .. n |-> IF k = 1 THEN s[k] ELSE f[k - 1] \o s[k]]

Layout(s, f, st) ==
  /\ st \in [0 .. Len(s) -> Nat] /\ st[0] = 0
  /\ \A m \in 1 .. Len(s) : st[m] = st[m - 1] + Len(s[m])
  /\ Len(f) = st[Len(s)]
  /\ \A m \in 1 .. Len(s) : \A j \in 1 .. Len(s[m]) : f[st[m - 1] + j] = s[m][j]

LEMMA FlattensExists ==
  ASSUME NEW s, NEW n \in Nat \ {0}
  PROVE  \E f : Flattens(s, n, f)
<1> DEFINE S == {m \in Nat : \E f : Flattens(s, m, f)}
<1>0. Flattens(s, 0, [k \in 1 .. 0 |-> s[k]])
  BY DEF Flattens
<1>1. 0 \in S
  BY <1>0
<1>2. ASSUME NEW m \in Nat, m \in S PROVE m + 1 \in S
  <2>1. PICK f : Flattens(s, m, f)
    BY <1>2
  <2>2. \A k \in 1 .. m : f[k] = IF k = 1 THEN s[k] ELSE f[k - 1] \o s[k]
    BY <2>1 DEF Flattens
  <2> DEFINE last == IF m = 0 THEN s[1] ELSE f[m] \o s[m + 1]
             g == [k \in 1 .. m + 1 |-> IF k = m + 1 THEN last ELSE f[k]]
  <2> HIDE DEF last
  <2>3. /\ \A k \in 1 .. m : g[k] = f[k]
        /\ g[m + 1] = last
        /\ g = [k \in 1 .. m + 1 |-> g[k]]
    OBVIOUS
  <2> HIDE DEF g
  <2>4. ASSUME NEW k \in 1 .. m + 1
        PROVE  g[k] = IF k = 1 THEN s[k] ELSE g[k - 1] \o s[k]
    <3>1. CASE k = m + 1 /\ m = 0
      BY <2>3, <3>1 DEF last
    <3>2. CASE k = m + 1 /\ m > 0
      <4>1. m \in 1 .. m /\ k # 1 /\ k - 1 = m
        BY <3>2
      <4>2. g[m] = f[m]
        BY <2>3, <4>1
      <4>0. m # 0
        BY <3>2
      <4>3. g[m + 1] = f[m] \o s[m + 1]
        BY <2>3, <4>0 DEF last
      <4> QED
        BY <3>2, <4>1, <4>2, <4>3
    <3>3. CASE k \in 1 .. m
      <4>1. k # 1 => k - 1 \in 1 .. m
        BY <3>3
      <4> QED
        BY <2>2, <2>3, <3>3, <4>1
    <3> QED
      BY <3>1, <3>2, <3>3
  <2>5. Flattens(s, m + 1, g)
    BY <2>3, <2>4 DEF Flattens
  <2> QED
    BY <2>5
<1>3. Nat \subseteq S
  <2> HIDE DEF S
  <2> QED
    BY <1>1, <1>2, SetInduction
<1> QED
  BY <1>3

LEMMA FlattenLayout ==
  ASSUME NEW S, NEW s \in Seq(Seq(S))
  PROVE  FlattenSeq(s) \in Seq(S) /\ \E st : Layout(s, FlattenSeq(s), st)
<1> DEFINE n == Len(s)
<1>0. n \in Nat /\ \A m \in 1 .. n : s[m] \in Seq(S) /\ Len(s[m]) \in Nat
  OBVIOUS
<1> HIDE DEF n
<1>1. CASE n = 0
  <2>1. FlattenSeq(s) = s /\ s = <<>> /\ Len(s) = 0
    BY <1>1, EmptySeq DEF n, FlattenSeq
  <2>2. Layout(s, s, [m \in 0 .. 0 |-> 0])
    BY <2>1 DEF Layout
  <2> QED
    BY <2>1, <2>2
<1>2. CASE n > 0
  <2> DEFINE f == CHOOSE g : Flattens(s, n, g)
  <2>1. Flattens(s, n, f)
    <3>0. n \in Nat \ {0}
      BY <1>0, <1>2
    <3>1. \E g : Flattens(s, n, g)
      BY <3>0, FlattensExists
    <3> QED
      BY <3>1
  <2>2. FlattenSeq(s) = f[n]
    BY <1>0, <1>2 DEF n, FlattenSeq, Flattens
  <2> HIDE DEF f
  <2>3. \A m \in 1 .. n : f[m] = IF m = 1 THEN s[m] ELSE f[m - 1] \o s[m]
    BY <2>1 DEF Flattens
  <2> DEFINE st == [m \in 0 .. n |-> IF m = 0 THEN 0 ELSE Len(f[m])]
             Good(m) == /\ f[m] \in Seq(S) /\ st[m] \in Nat
                        /\ st[m] = st[m - 1] + Len(s[m])
                        /\ \A k \in 1 .. m : \A j \in 1 .. Len(s[k]) :
                             /\ st[k - 1] + j \in 1 .. st[m]
                             /\ f[m][st[k - 1] + j] = s[k][j]
             G == {m \in 0 .. n : m > 0 => Good(m)}
  <2>4. st[0] = 0 /\ \A m \in 1 .. n : st[m] = Len(f[m])
    BY <1>0
  <2>t. st \in [0 .. n -> {st[m] : m \in 0 .. n}]
    OBVIOUS
  <2> HIDE DEF st
  <2>5. ASSUME NEW m \in 0 .. n - 1, m \in G PROVE m + 1 \in G
    <3>0. m + 1 \in 1 .. n /\ m + 1 > 0 /\ (m + 1) - 1 = m
      BY <1>0
    <3>1. CASE m = 0
      <4>1. f[1] = s[1] /\ s[1] \in Seq(S) /\ st[1] = Len(s[1]) /\ Len(s[1]) \in Nat
        BY <1>0, <2>3, <2>4, <3>0, <3>1
      <4>2. Good(1)
        BY <4>1, <2>4
      <4> QED
        BY <3>0, <3>1, <4>2
    <3>2. CASE m > 0
      <4>1. Good(m) /\ m \in 1 .. n
        <5>1. m \in G /\ m \in 1 .. n
          BY <2>5, <3>2, <1>0
        <5> HIDE DEF Good
        <5> QED
          BY <3>2, <5>1
      <4>2. f[m + 1] = f[m] \o s[m + 1] /\ s[m + 1] \in Seq(S) /\ f[m] \in Seq(S)
        <5>1. m + 1 # 1
          BY <3>2
        <5> QED
          BY <1>0, <2>3, <3>0, <4>1, <5>1
      <4>3. PICK a, b : a = st[m] /\ b = Len(s[m + 1])
        OBVIOUS
      <4>4. /\ a \in Nat /\ b \in Nat /\ st[m + 1] = a + b
            /\ f[m + 1] \in Seq(S)
            /\ \A k \in 1 .. a : f[m + 1][k] = f[m][k]
            /\ \A j \in 1 .. b : f[m + 1][a + j] = s[m + 1][j]
        <5>1. a = Len(f[m]) /\ st[m + 1] = Len(f[m + 1])
          BY <2>4, <3>0, <4>1, <4>3
        <5>2. f[m] \in Seq(S) /\ s[m + 1] \in Seq(S)
          BY <4>2
        <5>3. /\ a \in Nat /\ b \in Nat
              /\ f[m] \o s[m + 1] \in Seq(S) /\ Len(f[m] \o s[m + 1]) = a + b
              /\ \A k \in 1 .. a : (f[m] \o s[m + 1])[k] = f[m][k]
              /\ \A j \in 1 .. b : (f[m] \o s[m + 1])[a + j] = s[m + 1][j]
          <6> DEFINE x == f[m]
                     y == s[m + 1]
          <6>1. x \in Seq(S) /\ y \in Seq(S) /\ a = Len(x) /\ b = Len(y)
            BY <4>3, <5>1, <5>2
          <6> HIDE DEF x, y
          <6>2. /\ a \in Nat /\ b \in Nat
                /\ x \o y \in Seq(S) /\ Len(x \o y) = a + b
                /\ \A k \in 1 .. a : (x \o y)[k] = x[k]
            BY <6>1, ConcatElements
          <6>3. \A j \in 1 .. b : (x \o y)[a + j] = y[j]
            BY <6>1, ConcatElements, SMT
          <6> QED
            BY <6>2, <6>3 DEF x, y
        <5> QED
          BY <4>2, <5>1, <5>3
      <4>5. ASSUME NEW k \in 1 .. m + 1, NEW j \in 1 .. Len(s[k])
            PROVE  /\ st[k - 1] + j \in 1 .. st[m + 1]
                   /\ f[m + 1][st[k - 1] + j] = s[k][j]
        <5>1. CASE k \in 1 .. m
          <6>1. st[k - 1] + j \in 1 .. a /\ f[m][st[k - 1] + j] = s[k][j]
            BY <4>1, <4>3, <5>1
          <6>2. \A p \in 1 .. a : p \in 1 .. a + b
            BY <4>4
          <6> QED
            BY <4>4, <6>1, <6>2
        <5>2. CASE k = m + 1
          <6>1. k - 1 = m /\ j \in 1 .. b
            BY <3>0, <4>3, <5>2
          <6>2. a + j \in 1 .. a + b
            BY <4>4, <6>1
          <6> QED
            BY <4>3, <4>4, <6>1, <6>2, <5>2
        <5> QED
          BY <5>1, <5>2
      <4>6. Good(m + 1)
        <5>1. st[m + 1] \in Nat /\ st[m + 1] = st[(m + 1) - 1] + Len(s[m + 1])
          BY <3>0, <4>3, <4>4
        <5> QED
          BY <4>4, <4>5, <5>1
      <4> HIDE DEF Good
      <4>7. m + 1 \in 0 .. n
        BY <1>0
      <4> QED
        BY <4>6, <4>7
    <3> QED
      BY <3>1, <3>2
  <2>6. 0 \in G
    BY <1>0
  <2>7. 0 .. n \subseteq G
    <3> HIDE DEF G
    <3> QED
      BY <1>0, <2>5, <2>6, UpTo
  <2>8. \A m \in 1 .. n : Good(m)
    <3>1. ASSUME NEW m \in 1 .. n PROVE m \in G /\ m > 0
      BY <2>7, <1>0
    <3> QED
      BY <3>1
  <2>9. st \in [0 .. n -> Nat]
    <3>1. \A m \in 0 .. n : st[m] \in Nat
      BY <2>4, <2>8, <1>0
    <3> QED
      BY <2>t, <3>1
  <2>10. Good(n) /\ n \in 1 .. n
    BY <2>8, <1>0, <1>2
  <2>11. \A m \in 1 .. n : st[m] = st[m - 1] + Len(s[m])
    BY <2>8
  <2>12. /\ Len(f[n]) = st[n]
         /\ \A m \in 1 .. n : \A j \in 1 .. Len(s[m]) : f[n][st[m - 1] + j] = s[m][j]
    BY <2>4, <2>10
  <2>13. Layout(s, f[n], st)
    BY <2>4, <2>9, <2>11, <2>12 DEF Layout, n
  <2> QED
    BY <2>2, <2>10, <2>13
<1> QED
  BY <1>0, <1>1, <1>2

-----------------------------------------------------------------------------
(* HDLCEncodePacket lays the bytes of p out between two flags: st[m] bytes *)
(* stand for the first m.                                                  *)
Width(b) == IF b \in {FLAG, ESC} THEN 2 ELSE 1

Framed(p, e, st) ==
  /\ e \in Seq(Bytes)
  /\ st \in [0 .. Len(p) -> Nat] /\ st[0] = 0
  /\ \A m \in 1 .. Len(p) : st[m] = st[m - 1] + Width(p[m])
  /\ Len(e) = st[Len(p)] + 2 /\ e[1] = FLAG /\ e[Len(e)] = FLAG
  /\ \A m \in 1 .. Len(p) :
       /\ Width(p[m]) = 1 => e[st[m - 1] + 2] = p[m]
       /\ Width(p[m]) = 2 => e[st[m - 1] + 2] = ESC /\ e[st[m - 1] + 3] = Masked[p[m]]

LEMMA EscapedLaid ==
  ASSUME NEW b \in Bytes
  PROVE  /\ Escaped(b) \in Seq(Bytes) /\ Len(Escaped(b)) = Width(b)
         /\ Width(b) = 1 => Escaped(b)[1] = b /\ b \notin {FLAG, ESC}
         /\ Width(b) = 2 => /\ Escaped(b)[1] = ESC /\ Escaped(b)[2] = Masked[b]
                            /\ b \in {FLAG, ESC}
<1>1. FLAG \in Bytes /\ ESC \in Bytes /\ Masked[b] \in Bytes
  BY HdlcAssumption
<1>2. CASE b \in {FLAG, ESC}
  BY <1>1, <1>2 DEF Escaped, Width
<1>3. CASE b \notin {FLAG, ESC}
  BY <1>1, <1>3 DEF Escaped, Width
<1> QED
  BY <1>2, <1>3

LEMMA EncodeFramed ==
  ASSUME NEW p \in Seq(Bytes)
  PROVE  \E st : Framed(p, Encode(p), st)
<1> DEFINE s == [k \in DOMAIN p |-> Escaped(p[k])]
           n == Len(p)
           body == FlattenSeq(s)
<1>1. n \in Nat /\ \A k \in 1 .. n : p[k] \in Bytes
  OBVIOUS
<1>2. s \in Seq(Seq(Bytes)) /\ Len(s) = n /\ \A k \in 1 .. n : s[k] = Escaped(p[k])
  <2>1. \A k \in 1 .. n : Escaped(p[k]) \in Seq(Bytes)
    BY <1>1, EscapedLaid
  <2>2. DOMAIN p = 1 .. n
    OBVIOUS
  <2> HIDE DEF n
  <2>3. s = [k \in 1 .. n |-> Escaped(p[k])]
    BY <2>2
  <2> HIDE DEF s
  <2> QED
    BY <1>1, <2>1, <2>3
<1> HIDE DEF s, n
<1>3. body \in Seq(Bytes)
  BY <1>2, FlattenLayout
<1>4. PICK st : Layout(s, body, st)
  BY <1>2, FlattenLayout
<1> HIDE DEF body
<1>5. /\ st \in [0 .. n -> Nat] /\ st[0] = 0 /\ Len(body) = st[n]
      /\ \A m \in 1 .. n : st[m] = st[m - 1] + Len(s[m])
      /\ \A m \in 1 .. n : \A j \in 1 .. Len(s[m]) : body[st[m - 1] + j] = s[m][j]
  BY <1>2, <1>4 DEF Layout
<1>6. Encode(p) = (<<FLAG>> \o body) \o <<FLAG>>
  BY DEF Encode, body, s
<1> DEFINE e == Encode(p)
           h == <<FLAG>>
<1>7. h \in Seq(Bytes) /\ Len(h) = 1 /\ h[1] = FLAG
  BY HdlcAssumption
<1> HIDE DEF h
<1>8. /\ h \o body \in Seq(Bytes) /\ Len(h \o body) = 1 + Len(body)
      /\ (h \o body)[1] = FLAG
      /\ \A j \in 1 .. Len(body) : (h \o body)[1 + j] = body[j]
  <2>0. h \in Seq(Bytes) /\ body \in Seq(Bytes)
    BY <1>3, <1>7
  <2>1. /\ h \o body \in Seq(Bytes) /\ Len(h \o body) = Len(h) + Len(body)
        /\ \A k \in 1 .. Len(h) : (h \o body)[k] = h[k]
    BY <2>0, ConcatElements
  <2>2. \A j \in 1 .. Len(body) : (h \o body)[Len(h) + j] = body[j]
    BY <2>0, ConcatElements, SMT
  <2>3. 1 \in 1 .. 1
    OBVIOUS
  <2> QED
    BY <1>7, <2>1, <2>2, <2>3
<1> DEFINE c == h \o body
<1> HIDE DEF c
<1>9. /\ e \in Seq(Bytes) /\ Len(e) = Len(body) + 2
      /\ e[1] = FLAG /\ e[Len(e)] = FLAG
      /\ \A j \in 1 .. Len(body) : e[1 + j] = body[j]
  <2>0. e = c \o h
    BY <1>6 DEF c, h
  <2>1. c \in Seq(Bytes) /\ Len(c) = 1 + Len(body) /\ c[1] = FLAG
        /\ \A j \in 1 .. Len(body) : c[1 + j] = body[j]
    BY <1>8 DEF c
  <2> HIDE DEF e
  <2>c. c \in Seq(Bytes) /\ h \in Seq(Bytes)
    BY <1>7, <2>1
  <2>2. /\ c \o h \in Seq(Bytes) /\ Len(c \o h) = Len(c) + Len(h)
        /\ \A k \in 1 .. Len(c) : (c \o h)[k] = c[k]
    BY <2>c, ConcatElements
  <2>3. \A j \in 1 .. Len(h) : (c \o h)[Len(c) + j] = h[j]
    BY <2>c, ConcatElements, SMT
  <2>4. Len(body) \in Nat
    BY <1>3
  <2>5. Len(e) = Len(body) + 2 /\ Len(e) = Len(c) + 1 /\ 1 \in 1 .. 1 /\ 1 \in 1 .. Len(c)
    BY <2>0, <2>1, <2>2, <2>4, <1>7
  <2>6. \A j \in 1 .. Len(body) : 1 + j \in 1 .. Len(c)
    BY <2>1, <2>4
  <2>7. e[Len(e)] = h[1]
    BY <2>0, <2>3, <2>5, <1>7
  <2> QED
    BY <2>0, <2>1, <2>2, <2>5, <2>6, <2>7, <1>7
<1> HIDE DEF e
<1>10. ASSUME NEW m \in 1 .. n
       PROVE  /\ st[m] = st[m - 1] + Width(p[m])
              /\ Width(p[m]) = 1 => e[st[m - 1] + 2] = p[m]
              /\ Width(p[m]) = 2 => e[st[m - 1] + 2] = ESC /\ e[st[m - 1] + 3] = Masked[p[m]]
  <2>0. m - 1 \in 0 .. n /\ m \in 0 .. n
    BY <1>1
  <2>1. p[m] \in Bytes /\ s[m] = Escaped(p[m]) /\ st[m - 1] \in Nat /\ st[m] \in Nat
    <3>1. st[m - 1] \in Nat /\ st[m] \in Nat
      BY <1>5, <2>0
    <3> QED
      BY <1>1, <1>2, <3>1
  <2>2. Len(s[m]) = Width(p[m]) /\ Width(p[m]) \in {1, 2}
    BY <2>1, EscapedLaid DEF Width
  <2>3. \A j \in 1 .. Len(s[m]) : body[st[m - 1] + j] = s[m][j]
    BY <1>5
  <2>4. st[m] = st[m - 1] + Width(p[m])
    BY <1>5, <2>2
  <2>5. st[m] <= Len(body)
    <3> DEFINE U == {k \in 0 .. n : k >= m => st[k] >= st[m]}
    <3>1. 0 \in U
      BY <1>1
    <3>2. ASSUME NEW k \in 0 .. n - 1, k \in U PROVE k + 1 \in U
      <4>1. /\ k + 1 \in 1 .. n /\ (k + 1) - 1 = k /\ k \in 0 .. n
            /\ p[k + 1] \in Bytes
        BY <1>1
      <4>2. /\ st[k + 1] = st[k] + Len(s[k + 1]) /\ s[k + 1] = Escaped(p[k + 1])
            /\ st[k] \in Nat /\ st[k + 1] \in Nat
        <5>1. k + 1 \in 0 .. n
          BY <4>1, <1>1
        <5> QED
          BY <1>2, <1>5, <4>1, <5>1
      <4>3. Len(s[k + 1]) \in {1, 2}
        BY <4>1, <4>2, EscapedLaid DEF Width
      <4>4. k + 1 = m \/ k >= m \/ k + 1 < m
        BY <4>1
      <4> QED
        BY <3>2, <4>1, <4>2, <4>3, <4>4, <2>1
    <3>3. 0 .. n \subseteq U
      <4> HIDE DEF U
      <4> QED
        BY <1>1, <3>1, <3>2, UpTo
    <3>4. n \in 0 .. n /\ n >= m
      BY <1>1
    <3> QED
      BY <1>5, <3>3, <3>4
  <2>6. \A j \in 1 .. Width(p[m]) : st[m - 1] + j \in 1 .. Len(body)
    BY <1>3, <2>1, <2>2, <2>4, <2>5
  <2>7. \A j \in 1 .. Width(p[m]) : e[1 + (st[m - 1] + j)] = s[m][j]
    BY <1>9, <2>2, <2>3, <2>6
  <2>8. CASE Width(p[m]) = 1
    <3>1. 1 \in 1 .. 1 /\ 1 + (st[m - 1] + 1) = st[m - 1] + 2
      BY <2>1
    <3>2. e[st[m - 1] + 2] = s[m][1]
      BY <2>7, <2>8, <3>1
    <3> QED
      BY <2>1, <2>4, <2>8, <3>2, EscapedLaid
  <2>9. CASE Width(p[m]) = 2
    <3>1. /\ 1 \in 1 .. 2 /\ 1 + (st[m - 1] + 1) = st[m - 1] + 2
          /\ 2 \in 1 .. 2 /\ 1 + (st[m - 1] + 2) = st[m - 1] + 3
      BY <2>1
    <3>2. e[st[m - 1] + 2] = s[m][1] /\ e[st[m - 1] + 3] = s[m][2]
      BY <2>7, <2>9, <3>1
    <3> QED
      BY <2>1, <2>4, <2>9, <3>2, EscapedLaid
  <2> QED
    BY <2>2, <2>8, <2>9
<1>11. Framed(p, e, st)
  BY <1>5, <1>9, <1>10 DEF Framed, n
<1> QED
  BY <1>11 DEF e

(* Where the bytes of p stand in its frame.                                *)
LEMMA FramePlaces ==
  ASSUME NEW p \in Seq(Bytes), NEW e, NEW st, Framed(p, e, st)
  PROVE  /\ Len(p) \in Nat /\ Len(e) \in Nat
         /\ \A m \in 0 .. Len(p) : m <= st[m] /\ st[m] <= st[Len(p)] /\ st[m] \in Nat
         /\ \A m \in 1 .. Len(p) : /\ p[m] \in Bytes /\ Width(p[m]) \in {1, 2}
                                   /\ m - 1 \in 0 .. Len(p) /\ st[m - 1] \in Nat
                                   /\ st[m] = st[m - 1] + Width(p[m])
<1> DEFINE n == Len(p)
<1>1. n \in Nat /\ e \in Seq(Bytes) /\ st \in [0 .. n -> Nat] /\ st[0] = 0
      /\ \A m \in 1 .. n : st[m] = st[m - 1] + Width(p[m])
  BY DEF Framed
<1>2. \A m \in 1 .. n : p[m] \in Bytes
  OBVIOUS
<1> HIDE DEF n
<1>3. \A m \in 1 .. n : Width(p[m]) \in {1, 2} /\ m - 1 \in 0 .. n /\ st[m - 1] \in Nat
  BY <1>1 DEF Width
<1>4. \A m \in 0 .. n : m <= st[m] /\ st[m] \in Nat
  <2> DEFINE U == {m \in 0 .. n : m <= st[m]}
  <2>1. 0 \in U
    BY <1>1
  <2>2. ASSUME NEW m \in 0 .. n - 1, m \in U PROVE m + 1 \in U
    <3>1. m + 1 \in 1 .. n /\ (m + 1) - 1 = m /\ m + 1 \in 0 .. n
      BY <1>1
    <3>2. st[m + 1] = st[m] + Width(p[m + 1]) /\ Width(p[m + 1]) \in {1, 2} /\ st[m] \in Nat
      BY <1>1, <1>3, <3>1
    <3> QED
      BY <2>2, <3>1, <3>2
  <2>3. 0 .. n \subseteq U
    <3> HIDE DEF U
    <3> QED
      BY <1>1, <2>1, <2>2, UpTo
  <2> QED
    BY <1>1, <2>3
<1>5. \A m \in 0 .. n : st[m] <= st[n]
  <2> SUFFICES ASSUME NEW m \in 0 .. n PROVE st[m] <= st[n]
    OBVIOUS
  <2> DEFINE U == {k \in 0 .. n : k >= m => st[k] >= st[m]}
  <2>1. 0 \in U
    BY <1>1
  <2>2. ASSUME NEW k \in 0 .. n - 1, k \in U PROVE k + 1 \in U
    <3>1. k + 1 \in 1 .. n /\ (k + 1) - 1 = k /\ k + 1 \in 0 .. n
      BY <1>1
    <3>2. /\ st[k + 1] = st[k] + Width(p[k + 1]) /\ Width(p[k + 1]) \in {1, 2}
          /\ st[k] \in Nat /\ st[m] \in Nat
      BY <1>1, <1>3, <3>1
    <3>3. k + 1 = m \/ k >= m \/ k + 1 < m
      BY <1>1
    <3> QED
      BY <2>2, <3>1, <3>2, <3>3
  <2>3. 0 .. n \subseteq U
    <3> HIDE DEF U
    <3> QED
      BY <1>1, <2>1, <2>2, UpTo
  <2>4. n \in U /\ n >= m
    BY <1>1, <2>3
  <2> QED
    BY <2>4, <1>4
<1> QED
  BY <1>1, <1>2, <1>3, <1>4, <1>5 DEF n

(* Flags are at the ends of a frame and nowhere else.                      *)
LEMMA FrameFlags ==
  ASSUME NEW p \in Seq(Bytes), NEW e, NEW st, Framed(p, e, st)
  PROVE  /\ \A k \in 2 .. Len(e) - 1 : e[k] # FLAG
         /\ {k \in DOMAIN e : e[k] = FLAG} = {1, Len(e)}
<1> DEFINE n == Len(p)
           U == {m \in 0 .. n : \A k \in 2 .. st[m] + 1 : e[k] # FLAG}
<1>1. /\ n \in Nat /\ Len(e) \in Nat /\ st[0] = 0 /\ Len(e) = st[n] + 2
      /\ e \in Seq(Bytes) /\ e[1] = FLAG /\ e[Len(e)] = FLAG
  BY FramePlaces DEF Framed
<1>2. 0 \in U
  BY <1>1
<1>3. ASSUME NEW m \in 0 .. n - 1, m \in U PROVE m + 1 \in U
  <2>1. m + 1 \in 1 .. n /\ (m + 1) - 1 = m /\ m + 1 \in 0 .. n
    BY <1>1
  <2> DEFINE b == p[m + 1]
             a == st[m]
  <2>2. /\ st[m + 1] = a + Width(b) /\ Width(b) \in {1, 2} /\ a \in Nat /\ b \in Bytes
    BY <2>1, FramePlaces
  <2>3. /\ Width(b) = 1 => e[a + 2] = b
        /\ Width(b) = 2 => e[a + 2] = ESC /\ e[a + 3] = Masked[b]
    BY <2>1 DEF Framed
  <2>4. \A k \in 2 .. a + 1 : e[k] # FLAG
    BY <1>3
  <2> HIDE DEF a, b
  <2>5. CASE Width(b) = 1
    <3>1. b # FLAG
      BY <2>5 DEF Width
    <3>2. \A k \in 2 .. (a + 1) + 1 : k \in 2 .. a + 1 \/ k = a + 2
      BY <2>2
    <3>3. \A k \in 2 .. st[m + 1] + 1 : e[k] # FLAG
      BY <2>2, <2>3, <2>4, <2>5, <3>1, <3>2
    <3> QED
      BY <2>1, <3>3
  <2>6. CASE Width(b) = 2
    <3>1. ESC # FLAG /\ Masked[b] # FLAG
      BY <2>6, HdlcAssumption DEF Width, ESC, FLAG
    <3>2. \A k \in 2 .. (a + 2) + 1 : k \in 2 .. a + 1 \/ k = a + 2 \/ k = a + 3
      BY <2>2
    <3>3. \A k \in 2 .. st[m + 1] + 1 : e[k] # FLAG
      BY <2>2, <2>3, <2>4, <2>6, <3>1, <3>2
    <3> QED
      BY <2>1, <3>3
  <2> QED
    BY <2>2, <2>5, <2>6
<1>4. 0 .. n \subseteq U
  <2> HIDE DEF U, n
  <2> QED
    BY <1>1, <1>2, <1>3, UpTo
<1>5. n \in U
  BY <1>1, <1>4
<1>7. st[n] \in Nat /\ DOMAIN e = 1 .. Len(e)
  BY <1>1, FramePlaces
<1>6. \A k \in 2 .. Len(e) - 1 : e[k] # FLAG
  BY <1>1, <1>5, <1>7
<1> QED
  BY <1>1, <1>6, <1>7

LEMMA Sides ==
  /\ FLAG # ESC
  /\ \A b \in Bytes : Width(b) = 1 => b # FLAG /\ b # ESC
  /\ \A b \in Bytes : Width(b) = 2 => /\ Masked[b] # ESC /\ Masked[b] \in Bytes
                                      /\ Masked[Masked[b]] = b
  BY HdlcAssumption DEF Width, FLAG, ESC

(* A standard reader of the frame of p has p.                              *)
LEMMA ReadBack ==
  ASSUME NEW p \in Seq(Bytes), NEW e, NEW st, Framed(p, e, st)
  PROVE  Unframed(e) = p
<1> DEFINE n == Len(p)
           inner == SubSeq(e, 2, Len(e) - 1)
           Stands(k) == CASE inner[k] = ESC -> <<>>
                          [] inner[k] # ESC /\ k > 1 /\ inner[k - 1] = ESC
                               -> <<Masked[inner[k]]>>
                          [] OTHER -> <<inner[k]>>
           t == [k \in DOMAIN inner |-> Stands(k)]
           F == FlattenSeq(t)
<1>0. Unframed(e) = F
  BY DEF Unframed
<1>1. /\ n \in Nat /\ Len(e) \in Nat /\ st[0] = 0 /\ Len(e) = st[n] + 2 /\ st[n] \in Nat
      /\ e \in Seq(Bytes)
  BY FramePlaces DEF Framed
<1>2. /\ inner \in Seq(Bytes) /\ Len(inner) = st[n] /\ DOMAIN inner = 1 .. st[n]
      /\ \A k \in 1 .. st[n] : inner[k] = e[k + 1] /\ inner[k] \in Bytes
  BY <1>1
<1> HIDE DEF inner, n
<1>3. \A k \in 1 .. st[n] : Stands(k) \in Seq(Bytes)
  BY <1>2, HdlcAssumption
<1>4. /\ t \in Seq(Seq(Bytes)) /\ Len(t) = st[n]
      /\ \A k \in 1 .. st[n] : t[k] = Stands(k)
  <2> DEFINE q == st[n]
  <2>1. t = [k \in 1 .. q |-> Stands(k)] /\ q \in Nat
    BY <1>1, <1>2
  <2>2. \A k \in 1 .. q : Stands(k) \in Seq(Bytes)
    BY <1>3
  <2> HIDE DEF Stands, t, q
  <2>3. t \in Seq(Seq(Bytes)) /\ Len(t) = q /\ \A k \in 1 .. q : t[k] = Stands(k)
    BY <2>1, <2>2
  <2> QED
    BY <2>3 DEF q
<1> HIDE DEF t
<1>5. F \in Seq(Bytes)
  BY <1>4, FlattenLayout
<1>6. PICK rt : Layout(t, F, rt)
  BY <1>4, FlattenLayout
<1> HIDE DEF F
<1>7. /\ rt \in [0 .. st[n] -> Nat] /\ rt[0] = 0 /\ Len(F) = rt[st[n]]
      /\ \A k \in 1 .. st[n] : rt[k] = rt[k - 1] + Len(t[k])
      /\ \A k \in 1 .. st[n] : \A j \in 1 .. Len(t[k]) : F[rt[k - 1] + j] = t[k][j]
  BY <1>4, <1>6 DEF Layout
<1>8. ASSUME NEW k \in 1 .. st[n], NEW x, t[k] = <<x>>
      PROVE  rt[k] = rt[k - 1] + 1 /\ F[rt[k - 1] + 1] = x
  <2>1. Len(t[k]) = 1 /\ t[k][1] = x /\ 1 \in 1 .. 1
    BY <1>8
  <2> QED
    BY <1>7, <2>1
<1>9. ASSUME NEW k \in 1 .. st[n], t[k] = <<>>
      PROVE  rt[k] = rt[k - 1]
  <2>1. Len(t[k]) = 0
    BY <1>9
  <2>2. k - 1 \in 0 .. st[n]
    BY <1>1
  <2>3. rt[k - 1] \in Nat /\ rt[k] = rt[k - 1] + Len(t[k])
    BY <1>7, <2>2
  <2> QED
    BY <2>1, <2>3
<1> DEFINE U == {m \in 0 .. n : /\ rt[st[m]] = m
                                /\ m > 0 => inner[st[m]] # ESC /\ F[m] = p[m]}
<1>10. 0 \in U
  BY <1>1, <1>7
<1>11. ASSUME NEW m \in 0 .. n - 1, m \in U PROVE m + 1 \in U
  <2>1. m + 1 \in 1 .. n /\ (m + 1) - 1 = m /\ m + 1 \in 0 .. n /\ m + 1 > 0 /\ m \in 0 .. n
    BY <1>1
  <2> DEFINE b == p[m + 1]
             a == st[m]
  <2>2. /\ st[m + 1] = a + Width(b) /\ Width(b) \in {1, 2} /\ b \in Bytes
        /\ a \in Nat /\ m <= a /\ st[m + 1] <= st[n]
    BY <2>1, FramePlaces DEF n
  <2>3. /\ Width(b) = 1 => e[a + 2] = b
        /\ Width(b) = 2 => e[a + 2] = ESC /\ e[a + 3] = Masked[b]
    BY <2>1 DEF Framed, n
  <2>4. rt[a] = m /\ (m > 0 => inner[a] # ESC) /\ (m = 0 => a = 0)
    BY <1>1, <1>11
  <2> HIDE DEF a, b
  <2>5. a + 1 \in 1 .. st[n] /\ (a + 1) - 1 = a /\ (a + 1) + 1 = a + 2
    BY <1>1, <2>2
  <2>6. CASE Width(b) = 1
    <3>1. inner[a + 1] = b /\ b # ESC
      BY <1>2, <2>2, <2>3, <2>5, <2>6, Sides
    <3>2. ~(a + 1 > 1 /\ inner[(a + 1) - 1] = ESC)
      BY <2>1, <2>2, <2>4, <2>5
    <3>3. t[a + 1] = <<b>>
      BY <1>4, <2>5, <3>1, <3>2
    <3>4. rt[a + 1] = m + 1 /\ F[m + 1] = b
      BY <1>8, <2>4, <2>5, <3>3
    <3>5. st[m + 1] = a + 1
      BY <2>2, <2>6
    <3> QED
      BY <2>1, <3>1, <3>4, <3>5 DEF b
  <2>7. CASE Width(b) = 2
    <3>1. a + 2 \in 1 .. st[n] /\ (a + 2) - 1 = a + 1 /\ (a + 2) + 1 = a + 3 /\ a + 2 > 1
      BY <1>1, <2>2, <2>7
    <3>2. inner[a + 1] = ESC /\ inner[a + 2] = Masked[b] /\ Masked[b] # ESC
      BY <1>2, <2>2, <2>3, <2>5, <2>7, <3>1, Sides
    <3>3. t[a + 1] = <<>>
      BY <1>4, <2>5, <3>2
    <3>4. t[a + 2] = <<Masked[Masked[b]]>>
      BY <1>4, <3>1, <3>2
    <3>5. Masked[Masked[b]] = b
      BY <2>2, HdlcAssumption
    <3>6. rt[a + 1] = m
      BY <1>9, <2>4, <2>5, <3>3
    <3>7. rt[a + 2] = m + 1 /\ F[m + 1] = b
      BY <1>8, <3>1, <3>4, <3>5, <3>6
    <3>8. st[m + 1] = a + 2
      BY <2>2, <2>7
    <3> QED
      BY <2>1, <3>2, <3>7, <3>8 DEF b
  <2> QED
    BY <2>2, <2>6, <2>7
<1>12. 0 .. n \subseteq U
  <2> HIDE DEF U
  <2> QED
    BY <1>1, <1>10, <1>11, UpTo
<1>13. Len(F) = n
  BY <1>1, <1>7, <1>12
<1>14. \A m \in 1 .. n : F[m] = p[m]
  BY <1>1, <1>12
<1>15. F = p
  BY <1>1, <1>5, <1>13, <1>14, SeqEqual DEF n
<1> QED
  BY <1>0, <1>15

(* Of the bytes of p, as many as are escaped stand for two.                *)
LEMMA EscapesCounted ==
  ASSUME NEW p \in Seq(Bytes), NEW e, NEW st, Framed(p, e, st)
  PROVE  Cardinality(EscapesIn(p)) \in Nat /\ st[Len(p)] = Len(p) + Cardinality(EscapesIn(p))
<1> DEFINE n == Len(p)
           In(m) == {k \in 1 .. m : p[k] \in {FLAG, ESC}}
           U == {m \in 0 .. n : /\ IsFiniteSet(In(m)) /\ Cardinality(In(m)) \in Nat
                                /\ st[m] = m + Cardinality(In(m))}
<1>1. n \in Nat /\ st[0] = 0
  BY DEF Framed
<1>2. 0 \in U
  <2>1. In(0) = {}
    OBVIOUS
  <2> QED
    BY <1>1, <2>1, FS_EmptySet
<1>3. ASSUME NEW m \in 0 .. n - 1, m \in U PROVE m + 1 \in U
  <2>1. m + 1 \in 1 .. n /\ (m + 1) - 1 = m /\ m + 1 \in 0 .. n
    BY <1>1
  <2>2. st[m + 1] = st[m] + Width(p[m + 1])
    BY <2>1, FramePlaces
  <2>3. IsFiniteSet(In(m)) /\ Cardinality(In(m)) \in Nat /\ st[m] = m + Cardinality(In(m))
    BY <1>3
  <2>4. \A k : k \in 1 .. m + 1 <=> k \in 1 .. m \/ k = m + 1
    BY <2>1
  <2>5. m + 1 \notin 1 .. m
    BY <2>1
  <2>6. CASE p[m + 1] \in {FLAG, ESC}
    <3>1. In(m + 1) = In(m) \union {m + 1} /\ m + 1 \notin In(m)
      BY <2>4, <2>5, <2>6
    <3> HIDE DEF In
    <3>2. IsFiniteSet(In(m + 1)) /\ Cardinality(In(m + 1)) = Cardinality(In(m)) + 1
      BY <2>3, <3>1, FS_AddElement
    <3>3. Width(p[m + 1]) = 2
      BY <2>6 DEF Width
    <3> QED
      BY <2>1, <2>2, <2>3, <3>2, <3>3
  <2>7. CASE p[m + 1] \notin {FLAG, ESC}
    <3>1. In(m + 1) = In(m)
      BY <2>4, <2>5, <2>7
    <3>3. Width(p[m + 1]) = 1
      BY <2>7 DEF Width
    <3> HIDE DEF In
    <3> QED
      BY <2>1, <2>2, <2>3, <3>1, <3>3
  <2> QED
    BY <2>6, <2>7
<1>4. 0 .. n \subseteq U
  <2> HIDE DEF U, n
  <2> QED
    BY <1>1, <1>2, <1>3, UpTo
<1>5. EscapesIn(p) = In(n)
  BY DEF EscapesIn
<1>6. n \in 0 .. n
  BY <1>1
<1> HIDE DEF In, n
<1>7. Cardinality(In(n)) \in Nat /\ st[n] = n + Cardinality(In(n))
  BY <1>4, <1>6
<1> QED
  BY <1>5, <1>7 DEF n

-----------------------------------------------------------------------------
(* Where HDLCDecodePacket looks: Looks(buf, n) is defined, and goes on by  *)
(* one byte or two.                                                        *)
Looking(buf, n, At) ==
  At = [k \in 0 .. n |-> IF k = 0 THEN 0
                         ELSE At[k - 1] + (IF buf[At[k - 1]] = ESC THEN 2 ELSE 1)]

LEMMA LookingExists ==
  ASSUME NEW buf, NEW n \in Nat
  PROVE  \E At : Looking(buf, n, At)
<1> DEFINE S == {m \in Nat : \E At : Looking(buf, m, At)}
<1>0. Looking(buf, 0, [k \in 0 .. 0 |-> 0])
  BY DEF Looking
<1>1. 0 \in S
  BY <1>0
<1>2. ASSUME NEW m \in Nat, m \in S PROVE m + 1 \in S
  <2>1. PICK At : Looking(buf, m, At)
    BY <1>2
  <2>2. \A k \in 0 .. m : At[k] = IF k = 0 THEN 0
                                  ELSE At[k - 1] + (IF buf[At[k - 1]] = ESC THEN 2 ELSE 1)
    BY <2>1 DEF Looking
  <2> DEFINE next == At[m] + (IF buf[At[m]] = ESC THEN 2 ELSE 1)
             g == [k \in 0 .. m + 1 |-> IF k = m + 1 THEN next ELSE At[k]]
  <2> HIDE DEF next
  <2>3. /\ \A k \in 0 .. m : g[k] = At[k]
        /\ g[m + 1] = next
        /\ g = [k \in 0 .. m + 1 |-> g[k]]
    OBVIOUS
  <2> HIDE DEF g
  <2>4. ASSUME NEW k \in 0 .. m + 1
        PROVE  g[k] = IF k = 0 THEN 0
                      ELSE g[k - 1] + (IF buf[g[k - 1]] = ESC THEN 2 ELSE 1)
    <3>1. CASE k = m + 1
      <4>1. m \in 0 .. m /\ k # 0 /\ k - 1 = m
        BY <3>1
      <4>2. g[m] = At[m] /\ g[k] = next
        BY <2>3, <3>1, <4>1
      <4> QED
        BY <4>1, <4>2 DEF next
    <3>2. CASE k \in 0 .. m
      <4>1. k # 0 => k - 1 \in 0 .. m
        BY <3>2
      <4>2. g[k] = At[k] /\ (k # 0 => g[k - 1] = At[k - 1])
        BY <2>3, <3>2, <4>1
      <4> QED
        BY <2>2, <3>2, <4>2
    <3> QED
      BY <3>1, <3>2
  <2>5. Looking(buf, m + 1, g)
    BY <2>3, <2>4 DEF Looking
  <2> QED
    BY <2>5
<1>3. Nat \subseteq S
  <2> HIDE DEF S
  <2> QED
    BY <1>1, <1>2, SetInduction
<1> QED
  BY <1>3

LEMMA LooksAt ==
  ASSUME NEW buf, NEW n \in Nat
  PROVE  /\ Looks(buf, n)[0] = 0
         /\ \A k \in 0 .. n : Looks(buf, n)[k] \in Nat
         /\ \A k \in 1 .. n : Looks(buf, n)[k] = Looks(buf, n)[k - 1]
                                + (IF buf[Looks(buf, n)[k - 1]] = ESC THEN 2 ELSE 1)
<1> DEFINE At == CHOOSE g : Looking(buf, n, g)
<1>1. Looking(buf, n, At)
  BY LookingExists
<1>2. Looks(buf, n) = At
  BY DEF Looks, Looking
<1> HIDE DEF At
<1>3. \A k \in 0 .. n : At[k] = IF k = 0 THEN 0
                                ELSE At[k - 1] + (IF buf[At[k - 1]] = ESC THEN 2 ELSE 1)
  BY <1>1 DEF Looking
<1>4. At[0] = 0
  BY <1>3
<1>5. \A k \in 1 .. n : At[k] = At[k - 1] + (IF buf[At[k - 1]] = ESC THEN 2 ELSE 1)
  <2> SUFFICES ASSUME NEW k \in 1 .. n
               PROVE  At[k] = At[k - 1] + (IF buf[At[k - 1]] = ESC THEN 2 ELSE 1)
    OBVIOUS
  <2>1. k \in 0 .. n /\ k # 0
    OBVIOUS
  <2> QED
    BY <1>3, <2>1
<1> DEFINE U == {k \in 0 .. n : At[k] \in Nat}
<1>6. 0 \in U
  BY <1>4
<1>7. ASSUME NEW k \in 0 .. n - 1, k \in U PROVE k + 1 \in U
  <2>1. k + 1 \in 1 .. n /\ (k + 1) - 1 = k /\ k + 1 \in 0 .. n
    OBVIOUS
  <2>2. At[k + 1] = At[k] + (IF buf[At[k]] = ESC THEN 2 ELSE 1) /\ At[k] \in Nat
    BY <1>5, <1>7, <2>1
  <2> QED
    BY <2>1, <2>2
<1>8. 0 .. n \subseteq U
  <2> HIDE DEF U
  <2> QED
    BY <1>6, <1>7, UpTo
<1> QED
  BY <1>2, <1>4, <1>5, <1>8

(* What n looks see, one behind another: at most a byte each.              *)
Decoding(buf, n, S, t, rt) ==
  /\ t = [k \in 1 .. n |-> Seen(buf, Looks(buf, n)[k - 1])]
  /\ Decode(buf, n) \in Seq(S)
  /\ rt \in [0 .. n -> Nat] /\ rt[0] = 0 /\ Len(Decode(buf, n)) = rt[n]
  /\ \A k \in 1 .. n : /\ t[k] = <<>> => rt[k] = rt[k - 1]
                       /\ t[k] # <<>> => /\ rt[k] = rt[k - 1] + 1
                                         /\ <<Decode(buf, n)[rt[k]]>> = t[k]

LEMMA DecodeLayout ==
  ASSUME NEW buf, NEW n \in Nat
  PROVE  \E S, t, rt : Decoding(buf, n, S, t, rt)
<1> DEFINE At == Looks(buf, n)
           S == {buf[q] : q \in Nat} \union {Masked[buf[q]] : q \in Nat}
           t == [k \in 1 .. n |-> Seen(buf, At[k - 1])]
           D == Decode(buf, n)
<1>1. \A k \in 1 .. n : k - 1 \in 0 .. n /\ At[k - 1] \in Nat
  BY LooksAt
<1>2. D = FlattenSeq(t)
  BY DEF Decode
<1>3. \A q \in Nat : Seen(buf, q) = <<>> \/ \E x \in S : Seen(buf, q) = <<x>>
  <2> SUFFICES ASSUME NEW q \in Nat
               PROVE  Seen(buf, q) = <<>> \/ \E x \in S : Seen(buf, q) = <<x>>
    OBVIOUS
  <2>1. buf[q] \in S /\ Masked[buf[q + 1]] \in S /\ q + 1 \in Nat
    OBVIOUS
  <2> HIDE DEF S
  <2> QED
    BY <2>1 DEF Seen, Restored
<1> HIDE DEF S, At
<1>4. \A k \in 1 .. n : t[k] = <<>> \/ \E x \in S : t[k] = <<x>>
  BY <1>1, <1>3
<1>5. t \in Seq(Seq(S)) /\ Len(t) = n
  <2>0. \A x \in S : <<x>> \in Seq(S)
    OBVIOUS
  <2>2. t = [k \in 1 .. n |-> t[k]]
    OBVIOUS
  <2>e. <<>> \in Seq(S)
    OBVIOUS
  <2>1. \A k \in 1 .. n : t[k] \in Seq(S)
    <3> HIDE DEF t
    <3> QED
      BY <1>4, <2>0, <2>e
  <2> HIDE DEF t
  <2>3. Len(t) = n
    BY <2>2
  <2> QED
    BY <2>1, <2>2
<1> HIDE DEF D
<1>6. D \in Seq(S)
  BY <1>2, <1>5, FlattenLayout
<1>7. PICK rt : Layout(t, D, rt)
  BY <1>2, <1>5, FlattenLayout
<1> HIDE DEF t
<1>8. /\ rt \in [0 .. n -> Nat] /\ rt[0] = 0 /\ Len(D) = rt[n]
      /\ \A k \in 1 .. n : rt[k] = rt[k - 1] + Len(t[k])
      /\ \A k \in 1 .. n : \A j \in 1 .. Len(t[k]) : D[rt[k - 1] + j] = t[k][j]
  BY <1>5, <1>7 DEF Layout
<1>9. ASSUME NEW k \in 1 .. n
      PROVE  /\ t[k] = <<>> => rt[k] = rt[k - 1]
             /\ t[k] # <<>> => rt[k] = rt[k - 1] + 1 /\ <<D[rt[k]]>> = t[k]
  <2>1. k - 1 \in 0 .. n
    OBVIOUS
  <2>2. rt[k - 1] \in Nat /\ rt[k] = rt[k - 1] + Len(t[k])
    BY <1>8, <2>1
  <2>3. CASE t[k] = <<>>
    <3>1. Len(t[k]) = 0
      BY <2>3
    <3> QED
      BY <2>2, <2>3, <3>1
  <2>4. CASE t[k] # <<>>
    <3>1. PICK x \in S : t[k] = <<x>>
      BY <1>4, <2>4
    <3>2. Len(t[k]) = 1 /\ t[k][1] = x /\ 1 \in 1 .. 1
      BY <3>1
    <3>3. D[rt[k - 1] + 1] = x /\ rt[k] = rt[k - 1] + 1
      BY <1>8, <2>2, <3>2
    <3> QED
      BY <2>4, <3>1, <3>3
  <2> QED
    BY <2>3, <2>4
<1>10. t = [k \in 1 .. n |-> Seen(buf, Looks(buf, n)[k - 1])]
  BY DEF t, At
<1>11. Decoding(buf, n, S, t, rt)
  BY <1>6, <1>8, <1>9, <1>10 DEF Decoding, D
<1> QED
  BY <1>11

(* What HDLCDecodePacket makes of the frame of p: p, and at most a byte    *)
(* more for each that was escaped, whatever is behind the frame in buf.    *)
LEMMA DecodeWhole ==
  ASSUME NEW p \in Seq(Bytes), NEW e, NEW st, Framed(p, e, st),
         NEW buf, \A k \in 0 .. Len(e) - 1 : buf[k] = e[k + 1]
  PROVE  /\ IsPrefix(p, Decode(buf, Len(e)))
         /\ Len(Decode(buf, Len(e))) <= Len(p) + Cardinality(EscapesIn(p))
<1> DEFINE n == Len(p)
           L == Len(e)
           At == Looks(buf, L)
           D == Decode(buf, L)
<1>1. /\ n \in Nat /\ L \in Nat /\ st[0] = 0 /\ st[n] \in Nat /\ n <= st[n]
      /\ L = st[n] + 2 /\ e[1] = FLAG /\ e[L] = FLAG
  BY FramePlaces DEF Framed
<1>2. At[0] = 0 /\ \A k \in 1 .. L : At[k] = At[k - 1] + (IF buf[At[k - 1]] = ESC THEN 2 ELSE 1)
  BY <1>1, LooksAt
<1>3. PICK S, t, rt : Decoding(buf, L, S, t, rt)
  BY <1>1, DecodeLayout
<1>b. \A k \in 0 .. L - 1 : buf[k] = e[k + 1]
  OBVIOUS
<1>4. /\ \A k \in 1 .. L : t[k] = Seen(buf, At[k - 1])
      /\ D \in Seq(S)
      /\ rt \in [0 .. L -> Nat] /\ rt[0] = 0 /\ Len(D) = rt[L]
      /\ \A k \in 1 .. L : /\ t[k] = <<>> => rt[k] = rt[k - 1]
                           /\ t[k] # <<>> => rt[k] = rt[k - 1] + 1 /\ <<D[rt[k]]>> = t[k]
  BY <1>3 DEF Decoding
<1>5. \A x, y : <<x>> # <<>> /\ (<<x>> = <<y>> => x = y)
  OBVIOUS
<1> HIDE DEF At, D, L, n
<1> DEFINE U == {m \in 0 .. n : /\ At[m + 1] = st[m] + 1 /\ rt[m + 1] = m
                                /\ m > 0 => D[m] = p[m]}
<1>6. 0 \in U
  <2>1. 1 \in 1 .. L /\ 1 - 1 = 0 /\ 0 \in 0 .. L - 1 /\ 0 + 1 = 1
    BY <1>1
  <2>2. buf[0] = FLAG
    BY <1>b, <1>1, <2>1
  <2>s. Seen(buf, 0) = <<>>
    BY <2>2, Sides DEF Seen
  <2>3. t[1] = <<>>
    BY <1>2, <1>4, <2>1, <2>s
  <2>4. At[1] = 1 /\ rt[1] = 0
    BY <1>2, <1>4, <2>1, <2>2, <2>3, Sides
  <2> QED
    BY <1>1, <2>4
<1>7. ASSUME NEW m \in 0 .. n - 1, m \in U PROVE m + 1 \in U
  <2>1. /\ m + 1 \in 1 .. n /\ (m + 1) - 1 = m /\ m + 1 \in 0 .. n /\ m + 1 > 0 /\ m \in 0 .. n
        /\ m + 2 \in 1 .. L /\ (m + 2) - 1 = m + 1 /\ (m + 1) + 1 = m + 2
    BY <1>1
  <2> DEFINE b == p[m + 1]
             a == st[m]
  <2>2. /\ st[m + 1] = a + Width(b) /\ Width(b) \in {1, 2} /\ b \in Bytes
        /\ a \in Nat /\ st[m + 1] <= st[n]
    BY <2>1, FramePlaces DEF n
  <2>3. /\ Width(b) = 1 => e[a + 2] = b
        /\ Width(b) = 2 => e[a + 2] = ESC /\ e[a + 3] = Masked[b]
    BY <2>1 DEF Framed, n
  <2>4. At[m + 1] = a + 1 /\ rt[m + 1] = m
    BY <1>7
  <2>5. /\ t[m + 2] = Seen(buf, a + 1)
        /\ At[m + 2] = (a + 1) + (IF buf[a + 1] = ESC THEN 2 ELSE 1)
    BY <1>2, <1>4, <2>1, <2>4
  <2>6. t[m + 2] # <<>> => rt[m + 2] = m + 1 /\ <<D[m + 1]>> = t[m + 2]
    BY <1>4, <2>1, <2>4
  <2> HIDE DEF a, b
  <2>7. t[m + 2] = <<b>> => rt[m + 2] = m + 1 /\ D[m + 1] = b
    BY <2>6, <1>5
  <2>8. a + 1 \in 0 .. L - 1 /\ (a + 1) + 1 = a + 2
    BY <1>1, <2>2
  <2>9. CASE Width(b) = 1
    <3>1. buf[a + 1] = b /\ b # FLAG /\ b # ESC
      BY <1>b, <2>2, <2>3, <2>8, <2>9, Sides
    <3>2. t[m + 2] = <<b>>
      BY <2>5, <3>1 DEF Seen
    <3>3. At[m + 2] = st[m + 1] + 1
      BY <2>2, <2>5, <2>9, <3>1
    <3> QED
      BY <2>1, <2>7, <3>2, <3>3 DEF b
  <2>10. CASE Width(b) = 2
    <3>1. a + 2 \in 0 .. L - 1 /\ (a + 1) + 1 = a + 2 /\ (a + 2) + 1 = a + 3
      BY <1>1, <2>2, <2>10
    <3>2. buf[a + 1] = ESC /\ buf[a + 2] = Masked[b]
      BY <1>b, <2>2, <2>3, <2>8, <2>10, <3>1
    <3>3. Masked[Masked[b]] = b
      BY <2>2, <2>10, Sides
    <3>4. t[m + 2] = <<b>>
      BY <2>5, <3>1, <3>2, <3>3, Sides DEF Seen, Restored
    <3>5. At[m + 2] = st[m + 1] + 1
      BY <2>2, <2>5, <2>10, <3>2
    <3> QED
      BY <2>1, <2>7, <3>4, <3>5 DEF b
  <2> QED
    BY <2>2, <2>9, <2>10
<1>8. 0 .. n \subseteq U
  <2> HIDE DEF U
  <2> QED
    BY <1>1, <1>6, <1>7, UpTo
<1>9. /\ At[n + 1] = st[n] + 1 /\ rt[n + 1] = n
      /\ \A m \in 1 .. n : D[m] = p[m]
  BY <1>1, <1>8
<1>10. rt[n + 2] = n
  <2>1. n + 2 \in 1 .. L /\ (n + 2) - 1 = n + 1 /\ L - 1 \in 0 .. L - 1 /\ (L - 1) + 1 = L
        /\ st[n] + 1 = L - 1
    BY <1>1
  <2>2. buf[L - 1] = FLAG
    BY <1>b, <1>1, <2>1
  <2>s. Seen(buf, L - 1) = <<>>
    BY <2>2, Sides DEF Seen
  <2>t. At[n + 1] = L - 1
    BY <1>9, <2>1
  <2>3. t[n + 2] = <<>>
    BY <1>4, <2>1, <2>s, <2>t
  <2> QED
    BY <1>4, <1>9, <2>1, <2>3
<1> DEFINE V == {k \in 0 .. L : k >= n + 2 => n <= rt[k] /\ rt[k] <= k - 2}
<1>11. 0 \in V
  BY <1>1
<1>12. ASSUME NEW k \in 0 .. L - 1, k \in V PROVE k + 1 \in V
  <2>1. k + 1 \in 1 .. L /\ (k + 1) - 1 = k /\ k + 1 \in 0 .. L /\ k \in 0 .. L
    BY <1>1
  <2>2. rt[k + 1] \in {rt[k], rt[k] + 1} /\ rt[k] \in Nat
    BY <1>4, <2>1
  <2>3. k + 1 = n + 2 \/ k >= n + 2 \/ k + 1 < n + 2
    BY <1>1
  <2> QED
    BY <1>1, <1>10, <1>12, <2>1, <2>2, <2>3
<1>13. 0 .. L \subseteq V
  <2> HIDE DEF V
  <2> QED
    BY <1>1, <1>11, <1>12, UpTo
<1>14. n <= Len(D) /\ Len(D) <= st[n]
  <2>1. PICK q : q = st[n]
    OBVIOUS
  <2>2. L = q + 2 /\ n <= q /\ n \in Nat /\ q \in Nat
    BY <1>1, <2>1
  <2>3. L \in 0 .. L /\ L >= n + 2 /\ L - 2 = q
    BY <2>2
  <2> QED
    BY <1>4, <1>13, <2>1, <2>3
<1>15. IsPrefix(p, D)
  <2>1. SubSeq(D, 1, n) \in Seq(S) /\ Len(SubSeq(D, 1, n)) = n
        /\ \A m \in 1 .. n : SubSeq(D, 1, n)[m] = D[m]
    BY <1>1, <1>4, <1>14
  <2>2. SubSeq(p, 1, n) = p
    BY DEF n
  <2>3. SubSeq(D, 1, n) = p
    BY <1>9, <2>1, SeqEqual DEF n
  <2> QED
    BY <1>14, <2>2, <2>3 DEF IsPrefix, n
<1>16. Len(D) <= n + Cardinality(EscapesIn(p))
  BY <1>14, EscapesCounted DEF n
<1> QED
  BY <1>15, <1>16 DEF D, L, n

(* Of no byte, or of a flag, it makes nothing.                             *)
LEMMA DecodeNothing ==
  ASSUME NEW buf
  PROVE  /\ Decode(buf, 0) = <<>>
         /\ buf[0] = FLAG => Decode(buf, 1) = <<>>
<1>1. PICK S, t, rt : Decoding(buf, 0, S, t, rt)
  BY DecodeLayout
<1>2. Decode(buf, 0) = <<>>
  BY <1>1, EmptySeq DEF Decoding
<1>3. PICK S1, t1, rt1 : Decoding(buf, 1, S1, t1, rt1)
  BY DecodeLayout
<1>4. ASSUME buf[0] = FLAG PROVE Decode(buf, 1) = <<>>
  <2>1. 1 \in 1 .. 1 /\ 1 - 1 = 0
    OBVIOUS
  <2>2. Looks(buf, 1)[0] = 0
    BY LooksAt
  <2>s. Seen(buf, 0) = <<>>
    BY <1>4, Sides DEF Seen
  <2>3. t1[1] = <<>>
    BY <1>3, <2>1, <2>2, <2>s DEF Decoding
  <2>4. rt1[1] = 0
    BY <1>3, <2>1, <2>3 DEF Decoding
  <2>5. Decode(buf, 1) \in Seq(S1) /\ Len(Decode(buf, 1)) = 0
    BY <1>3, <2>4 DEF Decoding
  <2> QED
    BY <2>5, EmptySeq
<1> QED
  BY <1>2, <1>4

-----------------------------------------------------------------------------
SyncTypes ==
  /\ HDLCBuf \in [0 .. MAX_PACKET_SIZE - 1 -> Bytes] /\ link \in Seq(Bytes)
  /\ owed \in Nat /\ bytesIn \in -1 .. MAX_PACKET_SIZE - 1 /\ inStep \in BOOLEAN
  /\ told = <<>> \/ told \in Answers
  /\ bytesIn # Outside => in_buf = <<>>

(* The request goes out framed.                                            *)
Sent == request = <<>> \/ (request \in Requests /\ frame = Encode(request))

(* Nothing but flags has been read.                                        *)
AtStart == bytesIn = 0 \/ (bytesIn = 1 /\ HDLCBuf[0] = FLAG)

(* An exchange that began in step has no answer yet,                       *)
Waiting == told = <<>> /\ owed \in {0, 1} /\ AtStart /\ link \in {<<>>, <<FLAG>>}

(* or has read c bytes of the answer's frame e; d flags that need not be   *)
(* there are before the rest of it, and b behind it.                       *)
Coming(lk, e, c, d, b) ==
  /\ Len(lk) = d + (Len(e) - c) + b
  /\ \A k \in 1 .. d : lk[k] = FLAG
  /\ \A k \in c + 1 .. Len(e) : lk[d + (k - c)] = e[k]
  /\ b = 1 => lk[Len(lk)] = FLAG

Taking(buf, n, e, c, d) ==
  \/ n = 0 /\ c = 1 /\ d > 0
  \/ n = c /\ (d > 0 => c = 1) /\ \A k \in 0 .. c - 1 : buf[k] = e[k + 1]

Underway(lk, buf, n, e) ==
  \E c \in 1 .. Len(e) - 1, d \in Nat, b \in {0, 1} :
    Coming(lk, e, c, d, b) /\ Taking(buf, n, e, c, d)

Answered ==
  told \in Answers /\ owed = 0 /\ Underway(link, HDLCBuf, bytesIn, Encode(told))

SyncInv ==
  /\ SyncTypes /\ Sent /\ AnswerWhole
  /\ inStep /\ bytesIn # Outside => Waiting \/ Answered

(* The frame of a packet.                                                  *)
IsFrame(e) ==
  /\ e \in Seq(Bytes) /\ Len(e) \in Nat /\ Len(e) >= 3 /\ e[1] = FLAG /\ e[Len(e)] = FLAG
  /\ \A k \in 2 .. Len(e) - 1 : e[k] # FLAG

LEMMA PacketFrame ==
  ASSUME NEW a \in Requests \union Answers
  PROVE  /\ a \in Seq(Bytes) /\ IsFrame(Encode(a))
         /\ {k \in DOMAIN Encode(a) : Encode(a)[k] = FLAG} = {1, Len(Encode(a))}
         /\ Unframed(Encode(a)) = a
<1>1. a \in Seq(Bytes) /\ a # <<>>
  BY HdlcAssumption
<1>2. PICK st : Framed(a, Encode(a), st)
  BY <1>1, EncodeFramed
<1> DEFINE e == Encode(a)
<1> HIDE DEF e
<1>3. Framed(a, e, st)
  BY <1>2 DEF e
<1>4. Len(a) \in Nat /\ Len(a) # 0
  BY <1>1, EmptySeq
<1>5. Len(e) \in Nat /\ Len(a) \in 0 .. Len(a) /\ Len(a) <= st[Len(a)] /\ st[Len(a)] \in Nat
  BY <1>1, <1>3, <1>4, FramePlaces
<1>6. e \in Seq(Bytes) /\ Len(e) = st[Len(a)] + 2 /\ e[1] = FLAG /\ e[Len(e)] = FLAG
  BY <1>3 DEF Framed
<1>7. Len(e) >= 3
  BY <1>4, <1>5, <1>6
<1>8. /\ \A k \in 2 .. Len(e) - 1 : e[k] # FLAG
      /\ {k \in DOMAIN e : e[k] = FLAG} = {1, Len(e)}
  BY <1>1, <1>3, FrameFlags
<1>9. Unframed(e) = a
  BY <1>1, <1>3, ReadBack
<1>10. IsFrame(e)
  BY <1>5, <1>6, <1>7, <1>8 DEF IsFrame
<1> QED
  BY <1>1, <1>8, <1>9, <1>10 DEF e

(* What SendSync makes of a frame that it has read whole.                  *)
LEMMA PacketDecoded ==
  ASSUME NEW a \in Answers, NEW buf,
         \A k \in 0 .. Len(Encode(a)) - 1 : buf[k] = Encode(a)[k + 1]
  PROVE  /\ IsPrefix(a, Decode(buf, Len(Encode(a))))
         /\ Len(Decode(buf, Len(Encode(a)))) <= Len(a) + Cardinality(EscapesIn(a))
<1>1. a \in Seq(Bytes)
  BY HdlcAssumption
<1>2. PICK st : Framed(a, Encode(a), st)
  BY <1>1, EncodeFramed
<1> QED
  BY <1>1, <1>2, DecodeWhole

(* The device's answer begins with the flags that are there already.       *)
LEMMA AnswerComes ==
  ASSUME NEW e, IsFrame(e), NEW lk \in {<<>>, <<FLAG>>},
         NEW before \in {<<>>, <<FLAG>>}, NEW behind \in {<<>>, <<FLAG>>}
  PROVE  /\ lk \o before \o e \o behind \in Seq(Bytes)
         /\ \E d \in Nat, b \in {0, 1} : /\ d > 0
                                         /\ Coming(lk \o before \o e \o behind, e, 1, d, b)
<1>1. \A s \in {<<>>, <<FLAG>>} : /\ s \in Seq(Bytes) /\ Len(s) \in {0, 1}
                                  /\ \A k \in 1 .. Len(s) : s[k] = FLAG
  <2>1. <<>> \in Seq(Bytes) /\ <<FLAG>> \in Seq(Bytes)
    BY HdlcAssumption
  <2>2. Len(<<>>) = 0 /\ Len(<<FLAG>>) = 1 /\ <<FLAG>>[1] = FLAG
    OBVIOUS
  <2>3. (\A k \in 1 .. 0 : <<>>[k] = FLAG) /\ \A k \in 1 .. 1 : <<FLAG>>[k] = FLAG
    BY <2>2
  <2> QED
    BY <2>1, <2>2, <2>3
<1>e. /\ e \in Seq(Bytes) /\ Len(e) \in Nat /\ Len(e) >= 3 /\ e[1] = FLAG
  BY DEF IsFrame
<1> DEFINE x == lk \o before
           y == x \o e
           z == y \o behind
           l == Len(lk)
           m == Len(before)
           b == Len(behind)
           L == Len(e)
<1>2. /\ lk \in Seq(Bytes) /\ before \in Seq(Bytes) /\ behind \in Seq(Bytes)
      /\ l \in {0, 1} /\ m \in {0, 1} /\ b \in {0, 1}
      /\ (\A k \in 1 .. l : lk[k] = FLAG) /\ (\A k \in 1 .. m : before[k] = FLAG)
      /\ \A k \in 1 .. b : behind[k] = FLAG
  BY <1>1
<1>3. /\ x \in Seq(Bytes) /\ Len(x) = l + m
      /\ \A k \in 1 .. l : x[k] = lk[k]
  BY <1>2, ConcatElements
<1>4. \A k \in 1 .. m : x[l + k] = before[k]
  BY <1>2, ConcatElements, SMT
<1> HIDE DEF l, m, b, x, L
<1>5. \A k \in 1 .. l + m : x[k] = FLAG
  <2> SUFFICES ASSUME NEW k \in 1 .. l + m PROVE x[k] = FLAG
    OBVIOUS
  <2>1. k \in 1 .. l \/ (k - l \in 1 .. m /\ l + (k - l) = k)
    BY <1>2
  <2> QED
    BY <1>2, <1>3, <1>4, <2>1
<1>6. /\ y \in Seq(Bytes) /\ Len(y) = Len(x) + L
      /\ \A k \in 1 .. Len(x) : y[k] = x[k]
  BY <1>3, <1>e, ConcatElements DEF L
<1>7. \A k \in 1 .. L : y[Len(x) + k] = e[k]
  BY <1>3, <1>e, ConcatElements, SMT DEF L
<1> HIDE DEF y
<1>8. /\ z \in Seq(Bytes) /\ Len(z) = Len(y) + b
      /\ \A k \in 1 .. Len(y) : z[k] = y[k]
  BY <1>2, <1>6, ConcatElements DEF b
<1>9. \A k \in 1 .. b : z[Len(y) + k] = behind[k]
  BY <1>2, <1>6, ConcatElements, SMT DEF b
<1> HIDE DEF z
<1> DEFINE d == l + m + 1
<1>10. d \in Nat /\ d > 0 /\ d - 1 = l + m /\ L \in Nat /\ L >= 3
  BY <1>2, <1>e DEF L
<1>11. Len(y) = (d - 1) + L /\ Len(z) = (d - 1) + L + b
  BY <1>3, <1>6, <1>8, <1>10
<1> HIDE DEF d
<1>12. \A k \in 1 .. d - 1 : z[k] = FLAG
  <2> SUFFICES ASSUME NEW k \in 1 .. d - 1 PROVE z[k] = FLAG
    OBVIOUS
  <2>1. k \in 1 .. Len(x) /\ k \in 1 .. Len(y) /\ k \in 1 .. l + m
    BY <1>3, <1>10, <1>11
  <2> QED
    BY <1>5, <1>6, <1>8, <2>1
<1>13. \A k \in 1 .. L : z[(d - 1) + k] = e[k]
  <2> SUFFICES ASSUME NEW k \in 1 .. L PROVE z[(d - 1) + k] = e[k]
    OBVIOUS
  <2>1. (d - 1) + k \in 1 .. Len(y) /\ Len(x) = d - 1
    BY <1>3, <1>10, <1>11
  <2>2. z[(d - 1) + k] = y[(d - 1) + k] /\ y[(d - 1) + k] = e[k]
    BY <1>7, <1>8, <2>1
  <2> QED
    BY <2>2
<1>14. Coming(z, e, 1, d, b)
  <2>1. Len(z) = d + (Len(e) - 1) + b
    BY <1>2, <1>10, <1>11 DEF L
  <2>2. \A k \in 1 .. d : z[k] = FLAG
    <3>1. z[d] = FLAG
      <4>1. 1 \in 1 .. L /\ (d - 1) + 1 = d
        BY <1>10
      <4> QED
        BY <1>13, <1>e, <4>1
    <3>2. \A k \in 1 .. d : k = d \/ k \in 1 .. d - 1
      BY <1>10
    <3> QED
      BY <1>12, <3>1, <3>2
  <2>3. ASSUME NEW k \in 1 + 1 .. Len(e) PROVE z[d + (k - 1)] = e[k]
    <3>1. k \in 1 .. L /\ d + (k - 1) = (d - 1) + k
      BY <1>10 DEF L
    <3> QED
      BY <1>13, <3>1
  <2>4. b = 1 => z[Len(z)] = FLAG
    <3>1. SUFFICES ASSUME b = 1 PROVE z[Len(z)] = FLAG
      OBVIOUS
    <3>2. 1 \in 1 .. b /\ Len(z) = Len(y) + 1
      BY <1>8, <3>1
    <3> QED
      BY <1>2, <1>9, <3>2
  <2> QED
    BY <2>1, <2>2, <2>3, <2>4 DEF Coming
<1>15. z \in Seq(Bytes) /\ \E dd \in Nat, bb \in {0, 1} : dd > 0 /\ Coming(z, e, 1, dd, bb)
  BY <1>2, <1>8, <1>10, <1>14
<1> QED
  BY <1>15 DEF z, y, x

LEMMA FirstRest ==
  ASSUME NEW lk \in Seq(Bytes), lk # <<>>
  PROVE  /\ Len(lk) \in Nat /\ Len(lk) > 0 /\ Head(lk) = lk[1] /\ Head(lk) \in Bytes
         /\ Tail(lk) \in Seq(Bytes) /\ Len(Tail(lk)) = Len(lk) - 1
         /\ \A k \in 1 .. Len(lk) - 1 : Tail(lk)[k] = lk[k + 1]
<1>1. Len(lk) \in Nat /\ Len(lk) # 0
  BY EmptySeq
<1> QED
  BY <1>1, HeadTailProperties

(* A flag that need not be there is read: the packet begins anew.          *)
LEMMA FlagTaken ==
  ASSUME NEW e, IsFrame(e), NEW lk \in Seq(Bytes), lk # <<>>,
         NEW buf \in [0 .. MAX_PACKET_SIZE - 1 -> Bytes], NEW n \in 0 .. MAX_PACKET_SIZE - 1,
         NEW c \in 1 .. Len(e) - 1, NEW d \in Nat, NEW b \in {0, 1}, d > 0,
         Coming(lk, e, c, d, b), Taking(buf, n, e, c, d)
  PROVE  /\ Head(lk) = FLAG /\ n \in {0, 1}
         /\ Underway(Tail(lk), [buf EXCEPT ![n] = Head(lk)], 1, e)
<1>e. e \in Seq(Bytes) /\ Len(e) \in Nat /\ Len(e) >= 3 /\ e[1] = FLAG
  BY DEF IsFrame
<1>1. c = 1 /\ (n = 0 \/ (n = 1 /\ buf[0] = FLAG))
  <2>1. CASE n = 0 /\ c = 1 /\ d > 0
    BY <2>1
  <2>2. CASE n = c /\ (d > 0 => c = 1) /\ \A k \in 0 .. c - 1 : buf[k] = e[k + 1]
    <3>1. 0 \in 0 .. 1 - 1 /\ 0 + 1 = 1
      OBVIOUS
    <3> QED
      BY <1>e, <2>2, <3>1
  <2> QED
    BY <2>1, <2>2 DEF Taking
<1>2. /\ Len(lk) = d + (Len(e) - 1) + b
      /\ \A k \in 1 .. d : lk[k] = FLAG
      /\ \A k \in 2 .. Len(e) : lk[d + (k - 1)] = e[k]
      /\ b = 1 => lk[Len(lk)] = FLAG
  BY <1>1 DEF Coming
<1>3. Head(lk) = FLAG
  <2>1. 1 \in 1 .. d
    OBVIOUS
  <2> QED
    BY <1>2, <2>1, FirstRest
<1> DEFINE tl == Tail(lk)
           nb == [buf EXCEPT ![n] = Head(lk)]
<1>4. /\ Len(tl) = Len(lk) - 1
      /\ \A k \in 1 .. Len(lk) - 1 : tl[k] = lk[k + 1]
  BY FirstRest
<1> HIDE DEF tl
<1>5. nb[0] = FLAG
  <2>1. 0 \in 0 .. MAX_PACKET_SIZE - 1
    BY HdlcAssumption
  <2> QED
    BY <1>1, <1>3, <2>1
<1> HIDE DEF nb
<1>6. Coming(tl, e, 1, d - 1, b)
  <2>1. Len(tl) = (d - 1) + (Len(e) - 1) + b
    BY <1>2, <1>4, <1>e
  <2>2. ASSUME NEW k \in 1 .. d - 1 PROVE tl[k] = FLAG
    <3>1. k \in 1 .. Len(lk) - 1 /\ k + 1 \in 1 .. d
      BY <1>2, <1>e
    <3> QED
      BY <1>2, <1>4, <3>1
  <2>3. ASSUME NEW k \in 1 + 1 .. Len(e) PROVE tl[(d - 1) + (k - 1)] = e[k]
    <3>1. /\ (d - 1) + (k - 1) \in 1 .. Len(lk) - 1 /\ k \in 2 .. Len(e)
          /\ ((d - 1) + (k - 1)) + 1 = d + (k - 1)
      BY <1>2, <1>e
    <3> QED
      BY <1>2, <1>4, <3>1
  <2>4. b = 1 => tl[Len(tl)] = FLAG
    <3>1. Len(lk) - 1 \in 1 .. Len(lk) - 1 /\ (Len(lk) - 1) + 1 = Len(lk)
      BY <1>2, <1>e
    <3> QED
      BY <1>2, <1>4, <3>1
  <2> QED
    BY <2>1, <2>2, <2>3, <2>4 DEF Coming
<1>7. Taking(nb, 1, e, 1, d - 1)
  <2>1. \A k \in 0 .. 1 - 1 : k = 0 /\ k + 1 = 1
    OBVIOUS
  <2> QED
    BY <1>5, <1>e, <2>1 DEF Taking
<1>8. 1 \in 1 .. Len(e) - 1 /\ d - 1 \in Nat
  BY <1>e
<1>9. Underway(tl, nb, 1, e)
  BY <1>6, <1>7, <1>8 DEF Underway
<1> QED
  BY <1>1, <1>3, <1>9 DEF tl, nb

(* A byte of the frame is read: it goes where it belongs; behind the last  *)
(* there is no more than a flag.                                           *)
Takes(lk, buf, n, e, c) ==
  /\ n = c /\ Head(lk) = e[c + 1]
  /\ \A k \in 0 .. c : [buf EXCEPT ![n] = Head(lk)][k] = e[k + 1]
  /\ c < Len(e) - 1 => Underway(Tail(lk), [buf EXCEPT ![n] = Head(lk)], n + 1, e)
  /\ c = Len(e) - 1 => Tail(lk) \in {<<>>, <<FLAG>>}

LEMMA ByteTaken ==
  ASSUME NEW e, IsFrame(e), NEW lk \in Seq(Bytes), lk # <<>>,
         NEW buf \in [0 .. MAX_PACKET_SIZE - 1 -> Bytes], NEW n \in 0 .. MAX_PACKET_SIZE - 1,
         NEW c \in 1 .. Len(e) - 1, NEW b \in {0, 1},
         Coming(lk, e, c, 0, b), Taking(buf, n, e, c, 0)
  PROVE  Takes(lk, buf, n, e, c)
<1>e. e \in Seq(Bytes) /\ Len(e) \in Nat /\ Len(e) >= 3 /\ e[1] = FLAG
  BY DEF IsFrame
<1>1. n = c /\ \A k \in 0 .. c - 1 : buf[k] = e[k + 1]
  BY DEF Taking
<1>2. /\ Len(lk) = 0 + (Len(e) - c) + b
      /\ \A k \in c + 1 .. Len(e) : lk[0 + (k - c)] = e[k]
      /\ b = 1 => lk[Len(lk)] = FLAG
  BY DEF Coming
<1> DEFINE tl == Tail(lk)
           nb == [buf EXCEPT ![n] = Head(lk)]
<1>3. /\ Len(tl) = Len(lk) - 1 /\ tl \in Seq(Bytes) /\ Head(lk) = lk[1]
      /\ \A k \in 1 .. Len(lk) - 1 : tl[k] = lk[k + 1]
  BY FirstRest
<1> HIDE DEF tl
<1>4. Head(lk) = e[c + 1]
  <2>1. c + 1 \in c + 1 .. Len(e) /\ 0 + ((c + 1) - c) = 1
    BY <1>e
  <2>2. lk[0 + ((c + 1) - c)] = e[c + 1]
    BY <1>2, <2>1
  <2> QED
    BY <1>3, <2>1, <2>2
<1>5. ASSUME NEW k \in 0 .. c PROVE nb[k] = e[k + 1]
  <2>1. k \in 0 .. MAX_PACKET_SIZE - 1 /\ (k = c \/ k \in 0 .. c - 1)
    BY <1>1, HdlcAssumption
  <2> QED
    BY <1>1, <1>4, <2>1
<1> HIDE DEF nb
<1>6. ASSUME c < Len(e) - 1 PROVE Underway(tl, nb, n + 1, e)
  <2>1. Len(tl) = 0 + (Len(e) - (c + 1)) + b
    BY <1>2, <1>3, <1>e
  <2>2. ASSUME NEW k \in (c + 1) + 1 .. Len(e) PROVE tl[0 + (k - (c + 1))] = e[k]
    <3>1. /\ 0 + (k - (c + 1)) \in 1 .. Len(lk) - 1 /\ k \in c + 1 .. Len(e)
          /\ (0 + (k - (c + 1))) + 1 = 0 + (k - c)
      BY <1>2, <1>e
    <3> QED
      BY <1>2, <1>3, <3>1
  <2>3. b = 1 => tl[Len(tl)] = FLAG
    <3>1. Len(lk) - 1 \in 1 .. Len(lk) - 1 /\ (Len(lk) - 1) + 1 = Len(lk)
      BY <1>2, <1>6, <1>e
    <3> QED
      BY <1>2, <1>3, <3>1
  <2>4. \A k \in 1 .. 0 : tl[k] = FLAG
    OBVIOUS
  <2>5. Coming(tl, e, c + 1, 0, b)
    BY <2>1, <2>2, <2>3, <2>4 DEF Coming
  <2>6. (c + 1) - 1 = c /\ c + 1 \in 1 .. Len(e) - 1 /\ 0 \in Nat /\ ~(0 > 0)
    BY <1>6, <1>e
  <2>7. Taking(nb, n + 1, e, c + 1, 0)
    BY <1>1, <1>5, <2>6 DEF Taking
  <2> QED
    BY <2>5, <2>6, <2>7 DEF Underway
<1>7. ASSUME c = Len(e) - 1 PROVE tl \in {<<>>, <<FLAG>>}
  <2>1. Len(lk) = 1 + b /\ Len(tl) = b
    BY <1>2, <1>3, <1>7, <1>e
  <2>2. CASE b = 0
    BY <1>3, <2>1, <2>2, EmptySeq
  <2>3. CASE b = 1
    <3>1. tl[1] = FLAG /\ Len(tl) = 1
      <4>1. Len(lk) = 2 /\ 1 \in 1 .. Len(lk) - 1 /\ 1 + 1 = 2
        BY <2>1, <2>3
      <4> QED
        BY <1>2, <1>3, <2>1, <2>3, <4>1
    <3>2. <<FLAG>> \in Seq(Bytes) /\ Len(<<FLAG>>) = 1 /\ <<FLAG>>[1] = FLAG
      BY HdlcAssumption
    <3>3. \A k \in 1 .. Len(tl) : tl[k] = <<FLAG>>[k]
      BY <3>1, <3>2
    <3> QED
      BY <1>3, <3>1, <3>2, <3>3, SeqEqual
  <2> QED
    BY <2>2, <2>3
<1> QED
  BY <1>1, <1>4, <1>5, <1>6, <1>7 DEF Takes, tl, nb

-----------------------------------------------------------------------------
LEMMA SyncInitInv == SyncInit => SyncInv
<1> SUFFICES ASSUME SyncInit PROVE SyncInv
  OBVIOUS
<1>1. HDLCBuf \in [0 .. MAX_PACKET_SIZE - 1 -> Bytes]
  <2>1. Masked[FLAG] \in Bytes
    BY HdlcAssumption
  <2> QED
    BY <2>1 DEF SyncInit
<1>2. SyncTypes
  <2>0. link = <<>> /\ inStep = FALSE /\ owed = 0
    BY DEF SyncInit
  <2>1. link \in Seq(Bytes) /\ inStep \in BOOLEAN /\ owed \in Nat
    <3>1. link \in Seq(Bytes)
      BY <2>0
    <3> QED
      BY <2>0, <3>1
  <2>2. bytesIn = Outside /\ Outside \in -1 .. MAX_PACKET_SIZE - 1
    BY HdlcAssumption DEF SyncInit, Outside
  <2>3. told = <<>> /\ in_buf = <<>>
    BY DEF SyncInit
  <2> QED
    BY <1>1, <2>1, <2>2, <2>3 DEF SyncTypes
<1> QED
  BY <1>2 DEF SyncInit, SyncInv, Sent, AnswerWhole

LEMMA SendSyncInv == SyncInv /\ SendSync => SyncInv'
<1> SUFFICES ASSUME SyncInv, SendSync PROVE SyncInv'
  OBVIOUS
<1>1. SyncTypes /\ bytesIn = Outside
  BY DEF SyncInv, SendSync
<1>2. PICK p \in Requests, n \in Rooms :
        /\ request' = p /\ frame' = Encode(p)
        /\ HDLCBuf' = [k \in DOMAIN HDLCBuf |->
                         IF k < Len(frame') THEN frame'[k + 1] ELSE HDLCBuf[k]]
  BY DEF SendSync
<1>3. IsFrame(frame')
  BY <1>2, PacketFrame
<1>4. HDLCBuf' \in [0 .. MAX_PACKET_SIZE - 1 -> Bytes]
  <2> DEFINE e == frame'
  <2>1. e \in Seq(Bytes) /\ Len(e) \in Nat
    BY <1>3 DEF IsFrame
  <2>2. DOMAIN HDLCBuf = 0 .. MAX_PACKET_SIZE - 1
    BY <1>1 DEF SyncTypes
  <2>3. ASSUME NEW k \in 0 .. MAX_PACKET_SIZE - 1
        PROVE  (IF k < Len(e) THEN e[k + 1] ELSE HDLCBuf[k]) \in Bytes
    <3>1. CASE k < Len(e)
      <4>1. k + 1 \in 1 .. Len(e)
        BY <2>1, <3>1
      <4> QED
        BY <2>1, <3>1, <4>1
    <3>2. CASE ~(k < Len(e))
      BY <1>1, <3>2 DEF SyncTypes
    <3> QED
      BY <3>1, <3>2
  <2> HIDE DEF e
  <2>4. HDLCBuf' = [k \in 0 .. MAX_PACKET_SIZE - 1 |->
                      IF k < Len(e) THEN e[k + 1] ELSE HDLCBuf[k]]
    BY <1>2, <2>2 DEF e
  <2> QED
    BY <2>3, <2>4
<1>5. /\ inStep' = Clear /\ in_buf' = <<>> /\ told' = <<>> /\ link' = link
      /\ (owed' = owed + 1 /\ bytesIn' = 0) \/ (owed' = owed /\ bytesIn' = bytesIn)
  BY DEF SendSync
<1>6. SyncTypes'
  <2>1. inStep' \in BOOLEAN
    BY <1>5 DEF Clear
  <2>2. owed' \in Nat /\ bytesIn' \in -1 .. MAX_PACKET_SIZE - 1
    BY <1>1, <1>5, HdlcAssumption DEF SyncTypes
  <2> QED
    BY <1>1, <1>4, <1>5, <2>1, <2>2 DEF SyncTypes
<1>7. Sent' /\ AnswerWhole'
  BY <1>2, <1>5 DEF Sent, AnswerWhole
<1>8. inStep' /\ bytesIn' # Outside => Waiting'
  <2> SUFFICES ASSUME inStep', bytesIn' # Outside PROVE Waiting'
    OBVIOUS
  <2>1. owed' = owed + 1 /\ bytesIn' = 0
    BY <1>1, <1>5
  <2>2. owed = 0 /\ link \in {<<>>, <<FLAG>>}
    BY <1>5 DEF Clear
  <2> QED
    BY <1>5, <2>1, <2>2 DEF Waiting, AtStart
<1> QED
  BY <1>6, <1>7, <1>8 DEF SyncInv

LEMMA DeviceAnswersInv == SyncInv /\ DeviceAnswers => SyncInv'
<1> SUFFICES ASSUME SyncInv, DeviceAnswers PROVE SyncInv'
  OBVIOUS
<1>1. /\ SyncTypes /\ Sent /\ AnswerWhole
      /\ inStep /\ bytesIn # Outside => Waiting \/ Answered
  BY DEF SyncInv
<1>2. /\ owed \in Nat /\ owed > 0 /\ owed' = owed - 1
      /\ UNCHANGED <<HDLCBuf, request, frame, in_buf, bytesIn, inStep>>
  BY <1>1 DEF DeviceAnswers, SyncTypes
<1>3. ~(inStep /\ bytesIn = Outside /\ in_buf # <<>>)
  BY <1>1, <1>2 DEF AnswerWhole, Clear
<1>4. Sent' /\ AnswerWhole'
  BY <1>1, <1>2, <1>3 DEF Sent, AnswerWhole
<1>5. inStep /\ bytesIn # Outside => Waiting /\ owed = 1
  BY <1>1, <1>2 DEF Waiting, Answered
<1>6. CASE \E a \in Answers, before, behind \in {<<>>, <<FLAG>>} :
             told' = a /\ link' = link \o before \o Encode(a) \o behind
  <2>1. PICK a \in Answers, before \in {<<>>, <<FLAG>>}, behind \in {<<>>, <<FLAG>>} :
          told' = a /\ link' = link \o before \o Encode(a) \o behind
    BY <1>6
  <2> DEFINE e == Encode(a)
  <2>2. IsFrame(e)
    BY PacketFrame
  <2> HIDE DEF e
  <2>3. link' = link \o before \o e \o behind
    BY <2>1 DEF e
  <2>4. link' \in Seq(Bytes)
    <3>1. link \in Seq(Bytes) /\ before \in Seq(Bytes) /\ behind \in Seq(Bytes) /\ e \in Seq(Bytes)
      <4>1. link \in Seq(Bytes) /\ e \in Seq(Bytes)
        BY <1>1, <2>2 DEF SyncTypes, IsFrame
      <4>2. <<>> \in Seq(Bytes) /\ <<FLAG>> \in Seq(Bytes)
        BY HdlcAssumption
      <4> QED
        BY <4>1, <4>2
    <3>2. link \o before \in Seq(Bytes)
      BY <3>1, ConcatProperties
    <3>3. link \o before \o e \in Seq(Bytes)
      BY <3>1, <3>2, ConcatProperties
    <3> QED
      BY <2>3, <3>1, <3>3, ConcatProperties
  <2>5. SyncTypes'
    BY <1>1, <1>2, <2>1, <2>4 DEF SyncTypes
  <2>6. inStep' /\ bytesIn' # Outside => Answered'
    <3> SUFFICES ASSUME inStep', bytesIn' # Outside PROVE Answered'
      OBVIOUS
    <3>1. Waiting /\ owed = 1
      BY <1>2, <1>5
    <3>2. PICK d \in Nat, b \in {0, 1} : d > 0 /\ Coming(link', e, 1, d, b)
      <4>1. link \in {<<>>, <<FLAG>>}
        BY <3>1 DEF Waiting
      <4>2. \E d \in Nat, b \in {0, 1} :
              d > 0 /\ Coming(link \o before \o e \o behind, e, 1, d, b)
        BY <2>2, <4>1, AnswerComes
      <4> QED
        BY <2>3, <4>2
    <3>3. 1 \in 1 .. Len(e) - 1 /\ e[1] = FLAG
      BY <2>2 DEF IsFrame
    <3>4. Taking(HDLCBuf, bytesIn, e, 1, d)
      <4>1. AtStart
        BY <3>1 DEF Waiting
      <4>2. \A k \in 0 .. 1 - 1 : k = 0 /\ k + 1 = 1
        OBVIOUS
      <4> QED
        BY <3>2, <3>3, <4>1, <4>2 DEF AtStart, Taking
    <3>5. Underway(link', HDLCBuf, bytesIn, e)
      BY <3>2, <3>3, <3>4 DEF Underway
    <3> QED
      BY <1>2, <2>1, <3>1, <3>5 DEF Answered, e
  <2> QED
    BY <1>4, <2>5, <2>6 DEF SyncInv
<1>7. CASE UNCHANGED <<told, link>>
  <2>1. SyncTypes'
    BY <1>1, <1>2, <1>7 DEF SyncTypes
  <2>2. inStep' /\ bytesIn' # Outside => Waiting'
    BY <1>2, <1>5, <1>7 DEF Waiting, AtStart
  <2> QED
    BY <1>4, <2>1, <2>2 DEF SyncInv
<1> QED
  BY <1>6, <1>7 DEF DeviceAnswers

(* ReadByte, taken apart.                                                  *)
LEMMA ByteRead ==
  ASSUME SyncTypes, ReadByte
  PROVE  /\ link # <<>> /\ link' = Tail(link)
         /\ HDLCBuf' = [HDLCBuf EXCEPT ![bytesIn] = Head(link)]
         /\ UNCHANGED <<owed, request, frame, told, room, inStep>>
         /\ bytesIn \in 0 .. MAX_PACKET_SIZE - 1 /\ in_buf = <<>>
         /\ \/ Head(link) = FLAG /\ bytesIn > 1 /\ Finish(HDLCBuf', bytesIn + 1)
            \/ /\ Head(link) = FLAG /\ bytesIn <= 1 /\ bytesIn' = 1
               /\ UNCHANGED <<syncStatus, in_buf>>
            \/ /\ Head(link) # FLAG /\ bytesIn + 1 < MAX_PACKET_SIZE /\ bytesIn' = bytesIn + 1
               /\ UNCHANGED <<syncStatus, in_buf>>
            \/ /\ Head(link) # FLAG /\ bytesIn + 1 >= MAX_PACKET_SIZE
               /\ Finish(HDLCBuf', 1)
<1>1. /\ bytesIn # Outside /\ link # <<>> /\ link' = Tail(link)
      /\ UNCHANGED <<owed, request, frame, told, room, inStep>>
      /\ HDLCBuf' = [HDLCBuf EXCEPT ![bytesIn] = Head(link)]
  BY DEF ReadByte
<1>2. bytesIn \in 0 .. MAX_PACKET_SIZE - 1 /\ in_buf = <<>>
  BY <1>1, HdlcAssumption DEF SyncTypes, Outside
<1> DEFINE b == Head(link)
<1>3. (CASE b = FLAG /\ Ends(bytesIn) -> Finish(HDLCBuf', bytesIn + 1)
        [] b = FLAG /\ ~Ends(bytesIn) -> bytesIn' = 1 /\ UNCHANGED <<syncStatus, in_buf>>
        [] b # FLAG /\ bytesIn + 1 < MAX_PACKET_SIZE ->
             bytesIn' = bytesIn + 1 /\ UNCHANGED <<syncStatus, in_buf>>
        [] OTHER -> Finish(HDLCBuf', 1))
  BY <1>1 DEF ReadByte
<1> HIDE DEF b
<1>4. Ends(bytesIn) \in BOOLEAN /\ (Ends(bytesIn) <=> bytesIn > 1)
  BY DEF Ends
<1>5. CASE b = FLAG /\ Ends(bytesIn)
  <2>1. Finish(HDLCBuf', bytesIn + 1)
    BY <1>3, <1>5
  <2> QED
    BY <1>1, <1>2, <1>4, <1>5, <2>1 DEF b
<1>6. CASE b = FLAG /\ ~Ends(bytesIn)
  <2>1. bytesIn' = 1 /\ UNCHANGED <<syncStatus, in_buf>>
    BY <1>3, <1>6
  <2>2. bytesIn <= 1
    BY <1>2, <1>4, <1>6
  <2> QED
    BY <1>1, <1>2, <1>6, <2>1, <2>2 DEF b
<1>7. CASE b # FLAG /\ bytesIn + 1 < MAX_PACKET_SIZE
  <2>1. bytesIn' = bytesIn + 1 /\ UNCHANGED <<syncStatus, in_buf>>
    BY <1>3, <1>7
  <2> QED
    BY <1>1, <1>2, <1>7, <2>1 DEF b
<1>8. CASE b # FLAG /\ ~(bytesIn + 1 < MAX_PACKET_SIZE)
  <2>1. Finish(HDLCBuf', 1)
    BY <1>3, <1>8
  <2>2. bytesIn + 1 >= MAX_PACKET_SIZE
    BY <1>2, <1>8, HdlcAssumption
  <2> QED
    BY <1>1, <1>2, <1>8, <2>1, <2>2 DEF b
<1> QED
  BY <1>5, <1>6, <1>7, <1>8

LEMMA ReadByteInv == SyncInv /\ ReadByte => SyncInv'
<1> SUFFICES ASSUME SyncInv, ReadByte PROVE SyncInv'
  OBVIOUS
<1>1. /\ SyncTypes /\ Sent
      /\ inStep /\ bytesIn # Outside => Waiting \/ Answered
  BY DEF SyncInv
<1> DEFINE h == Head(link)
           n == bytesIn
           nb == [HDLCBuf EXCEPT ![n] = h]
<1>2. /\ link # <<>> /\ link' = Tail(link) /\ HDLCBuf' = nb
      /\ UNCHANGED <<owed, request, frame, told, room, inStep>>
      /\ n \in 0 .. MAX_PACKET_SIZE - 1 /\ in_buf = <<>>
      /\ \/ h = FLAG /\ n > 1 /\ Finish(HDLCBuf', n + 1)
         \/ h = FLAG /\ n <= 1 /\ bytesIn' = 1 /\ UNCHANGED <<syncStatus, in_buf>>
         \/ h # FLAG /\ n + 1 < MAX_PACKET_SIZE /\ bytesIn' = n + 1
              /\ UNCHANGED <<syncStatus, in_buf>>
         \/ h # FLAG /\ n + 1 >= MAX_PACKET_SIZE /\ Finish(HDLCBuf', 1)
  BY <1>1, ByteRead
<1>3. /\ link \in Seq(Bytes) /\ HDLCBuf \in [0 .. MAX_PACKET_SIZE - 1 -> Bytes]
      /\ h \in Bytes /\ Tail(link) \in Seq(Bytes)
  BY <1>1, <1>2, FirstRest DEF SyncTypes
<1>4. nb \in [0 .. MAX_PACKET_SIZE - 1 -> Bytes]
  BY <1>2, <1>3
<1>5. Finish(HDLCBuf', n + 1) \/ Finish(HDLCBuf', 1)
        => bytesIn' = Outside
  BY DEF Finish
<1>6. \/ bytesIn' = Outside
      \/ bytesIn' \in 0 .. MAX_PACKET_SIZE - 1 /\ in_buf' = <<>>
  BY <1>2, <1>5, HdlcAssumption
<1>7. SyncTypes'
  <2>1. bytesIn' \in -1 .. MAX_PACKET_SIZE - 1
    BY <1>6, HdlcAssumption DEF Outside
  <2> QED
    BY <1>1, <1>2, <1>3, <1>4, <1>6, <2>1 DEF SyncTypes
<1>8. Sent'
  BY <1>1, <1>2 DEF Sent
<1> DEFINE Then == /\ AnswerWhole'
                   /\ inStep' /\ bytesIn' # Outside => Waiting' \/ Answered'
<1> SUFFICES Then
  BY <1>7, <1>8 DEF SyncInv
<1>9. CASE ~ inStep
  BY <1>2, <1>9 DEF AnswerWhole
<1>10. n # Outside
  BY <1>2 DEF Outside
<1>11. CASE inStep /\ Waiting
  <2>1. link = <<FLAG>>
    BY <1>2, <1>11 DEF Waiting
  <2>2. h = FLAG /\ Tail(link) = <<>>
    BY <2>1
  <2>3. n = 0 \/ (n = 1 /\ HDLCBuf[0] = FLAG)
    BY <1>11 DEF Waiting, AtStart
  <2>4. bytesIn' = 1 /\ in_buf' = <<>>
    BY <1>2, <2>2, <2>3
  <2>5. nb[0] = FLAG
    <3>1. 0 \in 0 .. MAX_PACKET_SIZE - 1
      BY HdlcAssumption
    <3> QED
      BY <1>3, <2>2, <2>3, <3>1
  <2>6. Waiting'
    BY <1>2, <1>11, <2>2, <2>4, <2>5 DEF Waiting, AtStart
  <2>7. bytesIn' # Outside
    BY <2>4 DEF Outside
  <2> QED
    BY <2>6, <2>7 DEF AnswerWhole
<1>12. CASE inStep /\ Answered
  <2> DEFINE e == Encode(told)
             L == Len(e)
  <2>1. told \in Answers /\ owed = 0 /\ Underway(link, HDLCBuf, n, e)
    BY <1>12 DEF Answered
  <2>2. IsFrame(e)
    BY <2>1, PacketFrame
  <2> HIDE DEF e
  <2>e. e \in Seq(Bytes) /\ Len(e) \in Nat /\ Len(e) >= 3 /\ e[1] = FLAG /\ e[L] = FLAG
        /\ \A k \in 2 .. L - 1 : e[k] # FLAG
    BY <2>2 DEF IsFrame
  <2>3. PICK c \in 1 .. L - 1, d \in Nat, b \in {0, 1} :
          Coming(link, e, c, d, b) /\ Taking(HDLCBuf, n, e, c, d)
    BY <2>1 DEF Underway
  <2>4. ASSUME Underway(Tail(link), nb, bytesIn', e), bytesIn' # Outside PROVE Then
    <3>1. Answered'
      BY <1>2, <2>1, <2>4 DEF Answered, e
    <3> QED
      BY <2>4, <3>1 DEF AnswerWhole
  <2>5. CASE d > 0
    <3>1. h = FLAG /\ n \in {0, 1} /\ Underway(Tail(link), nb, 1, e)
      BY <1>2, <1>3, <2>2, <2>3, <2>5, FlagTaken
    <3>2. bytesIn' = 1
      BY <1>2, <3>1
    <3>3. bytesIn' # Outside
      BY <3>2 DEF Outside
    <3> QED
      BY <2>4, <3>1, <3>2, <3>3
  <2>6. CASE d = 0
    <3>0. Coming(link, e, c, 0, b) /\ Taking(HDLCBuf, n, e, c, 0)
      BY <2>3, <2>6
    <3>1. /\ n = c /\ h = e[c + 1]
          /\ \A k \in 0 .. c : nb[k] = e[k + 1]
          /\ c < L - 1 => Underway(Tail(link), nb, n + 1, e)
          /\ c = L - 1 => Tail(link) \in {<<>>, <<FLAG>>}
      <4>1. /\ IsFrame(e) /\ link \in Seq(Bytes) /\ link # <<>>
            /\ HDLCBuf \in [0 .. MAX_PACKET_SIZE - 1 -> Bytes]
            /\ n \in 0 .. MAX_PACKET_SIZE - 1 /\ c \in 1 .. Len(e) - 1 /\ b \in {0, 1}
            /\ Coming(link, e, c, 0, b) /\ Taking(HDLCBuf, n, e, c, 0)
        BY <1>2, <1>3, <2>2, <2>3, <3>0
      <4>2. Takes(link, HDLCBuf, n, e, c)
        BY <4>1, ByteTaken
      <4> QED
        BY <4>2 DEF Takes
    <3>2. CASE c = L - 1
      <4>1. h = FLAG /\ n > 1 /\ n + 1 = L
        BY <2>e, <3>1, <3>2
      <4>2. Finish(HDLCBuf', L)
        BY <1>2, <4>1
      <4>3. bytesIn' = Outside /\ (in_buf' = <<>> \/ in_buf' = Decode(nb, L))
        BY <1>2, <4>2 DEF Finish
      <4>4. \A k \in 0 .. L - 1 : nb[k] = e[k + 1]
        BY <3>1, <3>2
      <4>5. IsPrefix(told, Decode(nb, L))
            /\ Len(Decode(nb, L)) <= Len(told) + Cardinality(EscapesIn(told))
        <5> HIDE DEF nb
        <5> QED
          BY <2>1, <4>4, PacketDecoded DEF e
      <4>6. Clear'
        BY <1>2, <2>1, <3>1, <3>2 DEF Clear
      <4>7. told' = told
        BY <1>2
      <4>8. AnswerWhole'
        <5> HIDE DEF nb, L
        <5>1. CASE in_buf' = <<>>
          BY <5>1 DEF AnswerWhole
        <5>2. CASE in_buf' = Decode(nb, L)
          <6>1. IsPrefix(told', in_buf')
            BY <4>5, <4>7, <5>2
          <6>2. Len(in_buf') <= Len(told') + Cardinality(EscapesIn(told'))
            BY <4>5, <4>7, <5>2
          <6> QED
            BY <4>6, <6>1, <6>2 DEF AnswerWhole
        <5> QED
          BY <4>3, <5>1, <5>2
      <4> QED
        BY <4>3, <4>8
    <3>3. CASE c < L - 1
      <4>1. h # FLAG
        <5>1. c + 1 \in 2 .. L - 1
          BY <2>e, <3>3
        <5> QED
          BY <2>e, <3>1, <5>1
      <4>2. CASE bytesIn' = n + 1 /\ UNCHANGED <<syncStatus, in_buf>>
        <5>1. bytesIn' # Outside
          BY <1>2, <4>2, HdlcAssumption DEF Outside
        <5> QED
          BY <2>4, <3>1, <3>3, <4>2, <5>1
      <4>3. CASE Finish(HDLCBuf', 1)
        <5>1. nb[0] = FLAG
          <6>1. 0 \in 0 .. c /\ 0 + 1 = 1
            BY <2>e
          <6> QED
            BY <2>e, <3>1, <6>1
        <5>2. Decode(nb, 1) = <<>>
          <6> HIDE DEF nb
          <6> QED
            BY <5>1, DecodeNothing
        <5>3. bytesIn' = Outside /\ in_buf' = <<>>
          BY <1>2, <4>3, <5>2 DEF Finish
        <5> QED
          BY <5>3 DEF AnswerWhole
      <4> QED
        BY <1>2, <4>1, <4>2, <4>3
    <3> QED
      BY <2>e, <3>2, <3>3
  <2> QED
    BY <2>5, <2>6
<1> QED
  BY <1>1, <1>9, <1>10, <1>11, <1>12

LEMMA ReadNothingInv == SyncInv /\ ReadNothing => SyncInv'
<1> SUFFICES ASSUME SyncInv, ReadNothing PROVE SyncInv'
  OBVIOUS
<1>1. /\ bytesIn # Outside
      /\ UNCHANGED <<HDLCBuf, link, owed, request, frame, told, room, inStep>>
      /\ GiveUp
  BY DEF ReadNothing
<1>2. SyncTypes /\ Sent /\ in_buf = <<>>
  BY <1>1 DEF SyncInv, SyncTypes
<1>3. bytesIn' = Outside /\ in_buf' = <<>>
  BY <1>1, <1>2, DecodeNothing DEF GiveUp, Finish
<1>4. SyncTypes' /\ Sent' /\ AnswerWhole'
  <2>1. bytesIn' \in -1 .. MAX_PACKET_SIZE - 1
    BY <1>3, HdlcAssumption DEF Outside
  <2>2. SyncTypes'
    BY <1>1, <1>2, <1>3, <2>1 DEF SyncTypes
  <2>3. Sent'
    BY <1>1, <1>2 DEF Sent
  <2> QED
    BY <1>3, <2>2, <2>3 DEF AnswerWhole
<1> QED
  BY <1>3, <1>4 DEF SyncInv

LEMMA FlushInv == SyncInv /\ Flush => SyncInv'
<1> SUFFICES ASSUME SyncInv, Flush PROVE SyncInv'
  OBVIOUS
<1>1. PICK n \in 1 .. Len(link) : link' = SubSeq(link, n + 1, Len(link))
  BY DEF Flush
<1>2. /\ bytesIn = Outside /\ bytesIn' = bytesIn
      /\ UNCHANGED <<HDLCBuf, owed, request, frame, told, in_buf, room, inStep>>
  BY DEF Flush
<1>3. SyncTypes /\ Sent /\ AnswerWhole /\ link \in Seq(Bytes)
  BY DEF SyncInv, SyncTypes
<1>4. link' \in Seq(Bytes)
  BY <1>1, <1>3
<1>5. SyncTypes' /\ Sent'
  <2>1. SyncTypes'
    BY <1>2, <1>3, <1>4 DEF SyncTypes
  <2> QED
    BY <1>2, <1>3, <2>1 DEF Sent
<1>6. link \in {<<>>, <<FLAG>>} => link' = <<>>
  <2>1. ASSUME link = <<FLAG>> PROVE link' = <<>>
    <3>1. Len(link) = 1 /\ n = 1
      BY <2>1
    <3> QED
      BY <1>1, <3>1, SubSeqEmpty
  <2>2. link # <<>>
    BY <1>1
  <2> QED
    BY <2>1, <2>2
<1>7. AnswerWhole'
  BY <1>2, <1>3, <1>6 DEF AnswerWhole, Clear
<1> QED
  BY <1>2, <1>5, <1>7 DEF SyncInv

LEMMA SyncStutter == SyncInv /\ UNCHANGED syncVars => SyncInv'
<1> SUFFICES ASSUME SyncInv, UNCHANGED syncVars PROVE SyncInv'
  OBVIOUS
<1>1. UNCHANGED <<HDLCBuf, link, owed, request, frame, told, in_buf, bytesIn, inStep>>
  BY DEF syncVars
<1>2. SyncTypes' /\ Sent' /\ AnswerWhole'
  <2>1. SyncTypes'
    BY <1>1 DEF SyncInv, SyncTypes
  <2>2. Sent'
    BY <1>1 DEF SyncInv, Sent
  <2>3. AnswerWhole'
    BY <1>1 DEF SyncInv, AnswerWhole, Clear
  <2> QED
    BY <2>1, <2>2, <2>3
<1>3. (Waiting => Waiting') /\ (Answered => Answered')
  <2>1. Waiting => Waiting'
    BY <1>1 DEF Waiting, AtStart
  <2>2. Answered => Answered'
    BY <1>1 DEF Answered
  <2> QED
    BY <2>1, <2>2
<1> QED
  BY <1>1, <1>2, <1>3 DEF SyncInv

LEMMA SyncInvariant == PortSpec => []SyncInv
<1>1. PortInit => SyncInv
  BY SyncInitInv DEF PortInit
<1>2. SyncInv /\ [PortNext]_portVars => SyncInv'
  BY SendSyncInv, DeviceAnswersInv, ReadByteInv, ReadNothingInv, FlushInv, SyncStutter
  DEF PortNext, SyncNext, portVars
<1> QED
  BY <1>1, <1>2, PTL DEF PortSpec

(* For every request, as soon as it is sent: a device that reads its frame *)
(* as the standard has it gets the packet, byte for byte                   *)
(* (HDLCEncodePacket).                                                     *)
THEOREM RequestRead == PortSpec => []RequestReadable
<1>1. SyncInv => RequestReadable
  BY PacketFrame DEF SyncInv, Sent, RequestReadable
<1> QED
  BY <1>1, SyncInvariant, PTL

(* For every answer of the device and every byte of line noise that is a   *)
(* flag more: an exchange that begins in step returns the answer, or       *)
(* nothing, and is in step when it returns it (SendSync,                   *)
(* HDLCDecodePacket, Flush).                                               *)
THEOREM AnswerRead == PortSpec => []AnswerWhole
<1>1. SyncInv => AnswerWhole
  BY DEF SyncInv
<1> QED
  BY <1>1, SyncInvariant, PTL

-----------------------------------------------------------------------------
(* The loaders leave the Firehose readers alone: what is proved of them    *)
(* holds of the port that both have.                                       *)
LEMMA StreamUndisturbed == PortSpec => Spec
<1>1. PortInit => Init
  BY DEF PortInit
<1>2. [PortNext]_portVars => [Next]_vars
  BY DEF PortNext, portVars, vars
<1> QED
  BY <1>1, <1>2, PTL DEF PortSpec, Spec

(* Whoever has the port: no byte is lost between the readers, documents    *)
(* are put together in the order of the stream, and on a link that brings  *)
(* them whole an answer is read to its end (Firehose::ReadData,            *)
(* Firehose::ReadStatus).                                                  *)
THEOREM PortReads ==
  PortSpec => /\ []NoByteLost
              /\ []Assembled
              /\ DocumentsFit => []StatusEndsDocument
<1>1. CASE DocumentsFit
  BY <1>1, StreamUndisturbed, StreamConserved, DocumentAssembled, StatusRead, PTL
<1>2. CASE ~ DocumentsFit
  BY <1>2, StreamUndisturbed, StreamConserved, DocumentAssembled, PTL
<1> QED
  BY <1>1, <1>2
=============================================================================
