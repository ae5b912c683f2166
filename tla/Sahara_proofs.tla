---------------------------- MODULE Sahara_proofs ----------------------------
(***************************************************************************)
(* Proofs about Sahara, for images, files, buffers and requests of any     *)
(* size and any number of tries.                                           *)
(*                                                                         *)
(* ImageLoaded: host and device take turns.  There is one prompt at most   *)
(* on its way to the device, the response to its hello that asks for the   *)
(* image or a payload, and one request at most in the pipe, and not both:  *)
(* so every payload is for what the device wants, however late the packets *)
(* are and whatever else is in the pipe.                                   *)
(*                                                                         *)
(* TypeOK: a payload that is larger than dataBuf was asked for by a        *)
(* request of 32 bits, of which overrun keeps account.                     *)
(*                                                                         *)
(* InfoIsOwn and PblRecovers: unless a read came too early, the device has *)
(* heard or is about to hear what the host sent last, and its answer is    *)
(* all there is in the pipe, at every point of every operation.            *)
(***************************************************************************)
EXTENDS Sahara, SequenceTheorems, TLAPS

Reads == {"READ_DATA", "READ_DATA_64"}
Kinds == Reads \union {"HELLO_REQ", "END_TRANSFER", "DONE_RSP", "CMD_READY"}
Requested == [from : 0 .. ImageSize - 1, len : Nat]
Words == [cmd : Kinds, k : Nat, arg : {"none", "SUCCESS", "FAILED"} \union Requested, to : Nat]
Messages ==
  {m \in [cmd : {"HELLO_RSP", "SWITCH_MODE", "payload", "DONE_REQ"},
          arg : {"command", "image", "none"} \union Seq(Nat), n : Nat] :
     m.cmd = "HELLO_RSP" => m.arg \in {"command", "image"}}

(* Before and after the response that asks for the image.                  *)
Before == {"hello", "pbl", "pblReady", "pblSwitch", "pblSwitched", "respond"}
After == {"open", "header", "request", "end", "doneRsp", "done"}

LoadTypes ==
  /\ pc \in Before \union After /\ link \in {"up", "down"}
  /\ mode \in {"boot", "hello", "ready", "image", "end", "done", "failed"}
  /\ pipe \in Seq(Words) /\ inbox \in Seq(Messages) /\ rest = <<>>
  /\ sent \in Nat /\ fileSize \in Nat
  /\ link = "down" => pipe = <<>>
  /\ want \in Requested /\ got \in [1 .. ImageSize -> Nat]

ImageInv ==
  /\ \A k \in 1 .. ImageSize : got[k] \in {0, k}
  /\ mode \in {"end", "done"} => \A k \in 1 .. ImageSize : got[k] = k
  /\ \A j \in 1 .. Len(pipe) : pipe[j].cmd = "DONE_RSP" => mode = "done"
  /\ pc = "done" /\ status = "SUCCESS" => mode = "done"

IsPrompt(m) == m.cmd = "payload" \/ (m.cmd = "HELLO_RSP" /\ m.arg = "image")
Prompts == {j \in 1 .. Len(inbox) : IsPrompt(inbox[j])}

NoReads == \A j \in 1 .. Len(pipe) : pipe[j].cmd \notin Reads

(* The words of a request begin at s, where they may have been read.       *)
RequestAt(s, c) ==
  /\ s + Size[c] - 1 <= Len(pipe)
  /\ \A j \in 1 .. Len(pipe) :
       IF j \in s .. s + Size[c] - 1
       THEN pipe[j].cmd = c /\ pipe[j].k = j - s + 1 /\ pipe[j].arg = want
       ELSE pipe[j].cmd \notin Reads

Request == \E s \in Int, c \in Reads : RequestAt(s, c) /\ (pc = "request" => s = -1)
HostTurn ==
  /\ Prompts = {}
  /\ Request \/ (NoReads /\ (pc = "request" => link = "down"))
DeviceTurn ==
  \E j \in Prompts :
    /\ Prompts = {j} /\ NoReads /\ pc # "request"
    /\ inbox[j].cmd = "payload" => inbox[j].arg = Pieces(want)

TurnInv ==
  /\ HostTurn \/ DeviceTurn
  /\ pc \in Before => Prompts = {} /\ NoReads

LoadInv == LoadTypes /\ ImageInv /\ TurnInv
IInv == op = "load" => LoadInv

-----------------------------------------------------------------------------
LEMMA Sizes ==
  /\ Size["READ_DATA"] = 5 /\ Size["READ_DATA_64"] = 8
  /\ \A c \in Kinds : Size[c] \in Nat
  BY DEF Size, Kinds, Reads

LEMMA Constants ==
  /\ ImageSize \in Nat \ {0} /\ FileSizes \subseteq Nat
  BY SaharaAssumption DEF SaharaAssumption

(* Where a request begins is not cut off to 32 bits.                       *)
LEMMA SmallMod ==
  ASSUME NEW n \in Nat, NEW w \in Nat, n < w PROVE n % w = n
  OBVIOUS

LEMMA WordIs == Word \in Nat \ {0} /\ ImageSize <= Word
  BY SaharaAssumption DEF SaharaAssumption

LEMMA Cut ==
  ASSUME NEW r \in Requested
  PROVE  /\ r.from \in Nat /\ r.from % Word = r.from
         /\ r.len % Word \in Nat
<1>1. r.from \in 0 .. ImageSize - 1 /\ r.len \in Nat
  BY DEF Requested
<1>2. r.from \in Nat /\ r.from < Word
  BY <1>1, Constants, WordIs
<1>3. r.from % Word = r.from
  BY <1>2, SmallMod, WordIs
<1>4. r.len % Word \in Nat
  BY <1>1, WordIs
<1>5. QED
  BY <1>2, <1>3, <1>4

(* What of the file is sent.                                               *)
Served(r) == IF r.from < fileSize THEN Smaller(r.len % Word, fileSize - r.from) ELSE 0

LEMMA PiecesAre ==
  ASSUME NEW r \in Requested, fileSize \in Nat
  PROVE  /\ Served(r) \in Nat /\ Pieces(r) = [k \in 1 .. Served(r) |-> r.from + k]
         /\ Served(r) <= r.len % Word
<1>1. r.from \in Nat /\ r.from % Word = r.from /\ r.len % Word \in Nat
  BY Cut
<1>2. Served(r) \in Nat /\ Served(r) <= r.len % Word
  BY <1>1 DEF Served, Smaller
<1>3. Pieces(r) = [k \in 1 .. Served(r) |-> r.from + k]
  BY <1>1 DEF Pieces, Served
<1>4. QED
  BY <1>2, <1>3

LEMMA InitLoad == Init => IInv
<1> SUFFICES ASSUME Init, op = "load" PROVE LoadInv
  BY DEF IInv
<1>1. LoadTypes
  BY Constants DEF Init, LoadTypes, Before, Requested, NoRequest
<1>2. ImageInv
  BY <1>1 DEF Init, ImageInv
<1>3. Prompts = {} /\ NoReads
  BY DEF Init, Prompts, NoReads
<1>4. TurnInv
  BY <1>3 DEF TurnInv, HostTurn, Init
<1>5. QED
  BY <1>1, <1>2, <1>4 DEF LoadInv

(* m words are read off the pipe.                                          *)
Drops(m) ==
  /\ m \in Nat /\ pipe' \in Seq(Words) /\ Len(pipe') >= Len(pipe) - m
  /\ \A j \in 1 .. Len(pipe') : j + m \in 1 .. Len(pipe) /\ pipe'[j] = pipe[j + m]

LEMMA ReadDrops ==
  ASSUME LoadTypes, NEW n \in Nat, Read(n)
  PROVE  Drops(n)
<1>1. pipe \in Seq(Words) /\ pipe' = SubSeq(pipe, n + 1, Len(pipe))
  BY DEF Read, LoadTypes
<1>2. pipe' \in Seq(Words) /\ Len(pipe) \in Nat
  BY <1>1
<1>3. CASE n >= Len(pipe)
  <2>1. pipe' = <<>>
    BY <1>1, <1>2, <1>3
  <2>2. QED
    BY <1>2, <1>3, <2>1 DEF Drops
<1>4. CASE n < Len(pipe)
  <2>1. Len(pipe') = Len(pipe) - n
    BY <1>1, <1>2, <1>4
  <2>2. ASSUME NEW j \in 1 .. Len(pipe')
        PROVE  j + n \in 1 .. Len(pipe) /\ pipe'[j] = pipe[j + n]
    BY <1>1, <1>2, <1>4, <2>1
  <2>3. QED
    BY <1>2, <1>4, <2>1, <2>2 DEF Drops
<1>5. QED
  BY <1>2, <1>3, <1>4

LEMMA NothingDrops ==
  ASSUME LoadTypes, pipe' = pipe \/ pipe' = <<>>
  PROVE  \E m \in Nat : Drops(m)
<1>1. pipe \in Seq(Words) /\ <<>> \in Seq(Words)
  BY DEF LoadTypes
<1>2. CASE pipe' = pipe
  <2>1. PICK m \in Nat : Drops(m)
    BY <1>1, <1>2 DEF Drops
  <2>2. QED
    BY <2>1
<1>3. CASE pipe' = <<>>
  <2>1. Len(pipe) \in Nat /\ Drops(Len(pipe))
    BY <1>1, <1>3 DEF Drops
  <2>2. QED
    BY <2>1
<1>4. QED
  BY <1>2, <1>3

(* What was true of the pipe is true of what is left of it.                *)
LEMMA DropsKeeps ==
  ASSUME LoadTypes, NEW m, Drops(m), want' = want
  PROVE  /\ NoReads => NoReads'
         /\ \A s \in Int, c \in Reads : RequestAt(s, c) => RequestAt(s - m, c)'
<1>1. NoReads => NoReads'
  BY DEF NoReads, Drops
<1>2. ASSUME NEW s \in Int, NEW c \in Reads, RequestAt(s, c)
      PROVE  (s - m) + Size[c] - 1 <= Len(pipe')
  <2>1. Size[c] \in Nat /\ m \in Nat /\ Len(pipe) \in Nat /\ Len(pipe') \in Nat
    BY Sizes DEF Kinds, Drops, LoadTypes
  <2>2. s + Size[c] - 1 <= Len(pipe) /\ Len(pipe') >= Len(pipe) - m
    BY <1>2 DEF Drops, RequestAt
  <2>3. QED
    BY <2>1, <2>2
<1>3. ASSUME NEW s \in Int, NEW c \in Reads, RequestAt(s, c), NEW j \in 1 .. Len(pipe')
      PROVE  IF j \in s - m .. (s - m) + Size[c] - 1
             THEN pipe'[j].cmd = c /\ pipe'[j].k = j - (s - m) + 1 /\ pipe'[j].arg = want
             ELSE pipe'[j].cmd \notin Reads
  <2>1. /\ j + m \in 1 .. Len(pipe) /\ pipe'[j] = pipe[j + m]
        /\ m \in Nat /\ Len(pipe) \in Nat /\ Len(pipe') \in Nat
    BY DEF Drops, LoadTypes
  <2>2. Size[c] \in Nat
    BY Sizes DEF Kinds
  <2>3. IF j + m \in s .. s + Size[c] - 1
        THEN pipe[j + m].cmd = c /\ pipe[j + m].k = j + m - s + 1 /\ pipe[j + m].arg = want
        ELSE pipe[j + m].cmd \notin Reads
    <3>1. \A i \in 1 .. Len(pipe) :
             IF i \in s .. s + Size[c] - 1
             THEN pipe[i].cmd = c /\ pipe[i].k = i - s + 1 /\ pipe[i].arg = want
             ELSE pipe[i].cmd \notin Reads
      BY <1>3 DEF RequestAt
    <3>2. QED
      BY <2>1, <3>1
  <2>4. j \in s - m .. (s - m) + Size[c] - 1 <=> j + m \in s .. s + Size[c] - 1
    BY <2>1, <2>2
  <2>5. j + m - s + 1 = j - (s - m) + 1
    BY <2>1
  <2>6. QED
    BY <2>1, <2>3, <2>4, <2>5
<1>4. QED
  BY <1>1, <1>2, <1>3 DEF RequestAt

(* A message that prompts nothing.                                         *)
LEMMA SendsOther ==
  ASSUME LoadTypes, NEW q \in Messages, ~IsPrompt(q), inbox' = Append(inbox, q)
  PROVE  /\ inbox' \in Seq(Messages) /\ Prompts' = Prompts
         /\ \A j \in 1 .. Len(inbox) : inbox'[j] = inbox[j]
<1>1. /\ inbox \in Seq(Messages) /\ Len(inbox') = Len(inbox) + 1
      /\ inbox'[Len(inbox) + 1] = q /\ inbox' \in Seq(Messages)
      /\ \A j \in 1 .. Len(inbox) : inbox'[j] = inbox[j]
  BY DEF LoadTypes
<1>2. QED
  BY <1>1 DEF Prompts

LEMMA SendsPrompt ==
  ASSUME LoadTypes, NEW q \in Messages, IsPrompt(q), inbox' = Append(inbox, q), Prompts = {}
  PROVE  /\ inbox' \in Seq(Messages) /\ Prompts' = {Len(inbox) + 1}
         /\ inbox'[Len(inbox) + 1] = q
<1>1. /\ inbox \in Seq(Messages) /\ Len(inbox') = Len(inbox) + 1
      /\ inbox'[Len(inbox) + 1] = q /\ inbox' \in Seq(Messages)
      /\ \A j \in 1 .. Len(inbox) : inbox'[j] = inbox[j]
  BY DEF LoadTypes
<1>2. QED
  BY <1>1 DEF Prompts

(* Steps of the host that neither begin to serve a request nor prompt.     *)
LEMMA ReadKeeps ==
  ASSUME LoadInv, NEW m, Drops(m),
         \/ UNCHANGED <<sent, inbox>>
         \/ \E q \in Messages : ~IsPrompt(q) /\ inbox' = Append(inbox, q) /\ sent' \in Nat,
         UNCHANGED <<call, link, device>>,
         pc' \in (Before \union After) \ {"request"}, pc' \in Before => pc \in Before,
         pc' = "done" /\ status' = "SUCCESS" => mode = "done"
  PROVE  LoadInv'
<1>1. LoadTypes /\ ImageInv /\ TurnInv
  BY DEF LoadInv
<1>2. /\ inbox' \in Seq(Messages) /\ Prompts' = Prompts /\ sent' \in Nat
      /\ \A j \in 1 .. Len(inbox) : inbox'[j] = inbox[j]
  BY <1>1, SendsOther DEF LoadTypes, Prompts
<1>3. LoadTypes'
  BY <1>1, <1>2 DEF LoadTypes, Drops, call, device
<1>4. ImageInv'
  BY <1>1 DEF ImageInv, LoadTypes, Drops, device
<1>5. want' = want /\ Pieces(want)' = Pieces(want)
  BY DEF device, call, Pieces, Smaller
<1>6. CASE HostTurn
  <2>1. CASE NoReads
    <3>1. NoReads'
      BY <1>1, <1>5, <2>1, DropsKeeps
    <3>2. QED
      BY <1>1, <1>2, <1>3, <1>4, <1>6, <3>1 DEF LoadInv, TurnInv, HostTurn
  <2>2. CASE Request
    <3>1. PICK s \in Int, c \in Reads : RequestAt(s, c)
      BY <2>2 DEF Request
    <3>2. m \in Nat /\ s - m \in Int
      BY DEF Drops
    <3>3. \A t \in Int, b \in Reads : RequestAt(t, b) => RequestAt(t - m, b)'
      BY <1>1, <1>5, DropsKeeps
    <3>4. RequestAt(s - m, c)'
      BY <3>1, <3>3
    <3>5. HostTurn'
      BY <1>2, <1>6, <3>2, <3>4 DEF HostTurn, Request, After, Before
    <3>6. QED
      BY <1>1, <1>2, <1>3, <1>4, <1>5, <3>5, DropsKeeps DEF LoadInv, TurnInv
  <2>3. QED
    BY <1>6, <2>1, <2>2 DEF HostTurn
<1>7. CASE DeviceTurn
  <2>1. NoReads'
    BY <1>1, <1>5, <1>7, DropsKeeps DEF DeviceTurn
  <2>2. PICK j \in Prompts :
          Prompts = {j} /\ (inbox[j].cmd = "payload" => inbox[j].arg = Pieces(want))
    BY <1>7 DEF DeviceTurn
  <2>3. inbox'[j] = inbox[j]
    BY <1>2 DEF Prompts
  <2>4. DeviceTurn'
    BY <1>2, <1>5, <2>1, <2>2, <2>3 DEF DeviceTurn, After, Before
  <2>5. QED
    BY <1>1, <1>2, <1>3, <1>4, <2>1, <2>4 DEF LoadInv, TurnInv
<1>8. QED
  BY <1>1, <1>6, <1>7 DEF TurnInv

LEMMA WritesOther ==
  ASSUME LoadTypes, NEW cmd, NEW arg, Write(cmd, arg) \/ WriteFails,
         \/ cmd = "HELLO_RSP" /\ arg = "command"
         \/ cmd = "SWITCH_MODE" /\ arg = "image"
         \/ cmd = "DONE_REQ" /\ arg = "none"
  PROVE  \/ UNCHANGED <<sent, inbox>>
         \/ \E q \in Messages : ~IsPrompt(q) /\ inbox' = Append(inbox, q) /\ sent' \in Nat
<1>1. CASE Write(cmd, arg)
  <2> DEFINE q == [cmd |-> cmd, arg |-> arg, n |-> sent + 1]
  <2>1. sent \in Nat /\ sent' = sent + 1 /\ inbox' = Append(inbox, q)
    BY <1>1 DEF Write, LoadTypes
  <2>2. q \in Messages
    BY <2>1 DEF Messages
  <2>3. ~IsPrompt(q)
    BY DEF IsPrompt
  <2>4. QED
    BY <2>1, <2>2, <2>3
<1>2. CASE WriteFails
  BY <1>2 DEF WriteFails
<1>3. QED
  BY <1>1, <1>2

(* The connection, to the response that asks for the image.                *)
LEMMA ConnectKeeps ==
  ASSUME LoadInv, HelloThere \/ HelloMissing \/ PblRespond \/ PblReady \/ ModeSwitch \/ PblSwitched
  PROVE  LoadInv'
<1>1. LoadTypes
  BY DEF LoadInv
<1>2. CASE HelloThere
  BY <1>1, <1>2, ReadDrops, ReadKeeps DEF HelloThere, Go, Before
<1>3. CASE HelloMissing
  BY <1>1, <1>3, NothingDrops, ReadKeeps DEF HelloMissing, Go, Before
<1>4. CASE PblRespond
  <2>1. \/ UNCHANGED <<sent, inbox>>
        \/ \E q \in Messages : ~IsPrompt(q) /\ inbox' = Append(inbox, q) /\ sent' \in Nat
    BY <1>1, <1>4, WritesOther DEF PblRespond
  <2>2. PICK m \in Nat : Drops(m)
    BY <1>1, <1>4, NothingDrops DEF PblRespond
  <2>3. /\ pc = "pbl" /\ UNCHANGED <<call, link, device>>
        /\ pc' = "pblReady" \/ (pc' = "done" /\ status' = "INVALID_HANDLE")
    BY <1>4 DEF PblRespond, Go, Stop
  <2>4. QED
    BY <2>1, <2>2, <2>3, ReadKeeps DEF Before, After
<1>5. CASE PblReady
  <2>1. PICK m \in Nat : Drops(m)
    BY <1>1, <1>5, ReadDrops, NothingDrops DEF PblReady, ReadNothing
  <2>2. /\ pc = "pblReady" /\ UNCHANGED <<call, link, device, sent, inbox>>
        /\ pc' = "pblSwitch" \/ (pc' = "done" /\ status' = "INVALID_HANDLE")
    BY <1>5 DEF PblReady, SilenceIsGood, Go, Stop
  <2>3. QED
    BY <2>1, <2>2, ReadKeeps DEF Before, After
<1>6. CASE ModeSwitch
  <2>1. \/ UNCHANGED <<sent, inbox>>
        \/ \E q \in Messages : ~IsPrompt(q) /\ inbox' = Append(inbox, q) /\ sent' \in Nat
    BY <1>1, <1>6, WritesOther DEF ModeSwitch
  <2>2. PICK m \in Nat : Drops(m)
    BY <1>1, <1>6, NothingDrops DEF ModeSwitch
  <2>3. /\ pc = "pblSwitch" /\ pc' = "pblSwitched" /\ UNCHANGED <<call, link, device>>
    BY <1>1, <1>6 DEF ModeSwitch, Go, LoadTypes, Before, After
  <2>4. QED
    BY <2>1, <2>2, <2>3, ReadKeeps DEF Before, After
<1>7. CASE PblSwitched
  <2>1. PICK m \in Nat : Drops(m)
    BY <1>1, <1>7, ReadDrops, NothingDrops DEF PblSwitched, ModeSwitchRead, ReadNothing
  <2>2. /\ pc = "pblSwitched" /\ UNCHANGED <<call, link, device, sent, inbox>>
        /\ pc' = "respond" \/ (pc' = "done" /\ status' = "INVALID_HANDLE")
    BY <1>7 DEF PblSwitched, Go, Stop
  <2>3. QED
    BY <2>1, <2>2, ReadKeeps DEF Before, After
<1>8. QED
  BY <1>2, <1>3, <1>4, <1>5, <1>6, <1>7

(* The response asks for the image: it is the device's turn.               *)
LEMMA RespondKeeps ==
  ASSUME LoadInv, op = "load", Respond
  PROVE  LoadInv'
<1>1. /\ LoadTypes /\ ImageInv /\ Prompts = {} /\ NoReads /\ pc = "respond"
      /\ UNCHANGED <<call, link, pipe, device>>
  BY DEF Respond, LoadInv, TurnInv, Before
<1>2. CASE Write("HELLO_RSP", "image")
  <2> DEFINE q == [cmd |-> "HELLO_RSP", arg |-> "image", n |-> sent + 1]
  <2>1. /\ sent \in Nat /\ sent' = sent + 1 /\ inbox' = Append(inbox, q)
        /\ pc' = "open" /\ status' = status
    BY <1>1, <1>2 DEF Write, LoadTypes, Respond, Go, WriteFails
  <2>2. q \in Messages /\ IsPrompt(q) /\ q.cmd = "HELLO_RSP"
    BY <2>1 DEF Messages, IsPrompt
  <2> HIDE DEF q
  <2>3. inbox' \in Seq(Messages) /\ Prompts' = {Len(inbox) + 1} /\ inbox'[Len(inbox) + 1] = q
    BY <1>1, <2>1, <2>2, SendsPrompt
  <2>4. LoadTypes' /\ ImageInv' /\ NoReads'
    BY <1>1, <2>1, <2>3 DEF LoadTypes, ImageInv, NoReads, Before, After, call, device
  <2>5. DeviceTurn'
    BY <2>1, <2>2, <2>3, <2>4 DEF DeviceTurn
  <2>6. QED
    BY <2>1, <2>4, <2>5 DEF LoadInv, TurnInv, Before
<1>3. CASE WriteFails /\ Stop("INVALID_HANDLE")
  <2>1. PICK m \in Nat : Drops(m)
    BY <1>1, NothingDrops
  <2>2. QED
    BY <1>1, <1>3, <2>1, ReadKeeps DEF WriteFails, Stop, Before, After
<1>4. QED
  BY <1>2, <1>3 DEF Respond

-----------------------------------------------------------------------------
LEMMA FileKeeps ==
  ASSUME LoadInv, Open \/ FileFails \/ NoHeader \/ Crash
  PROVE  LoadInv'
<1>1. /\ pipe' = pipe /\ UNCHANGED <<call, link, sent, inbox, device>>
      /\ \/ pc \in After /\ pc' = "header"
         \/ pc' = "done" /\ status' \in {"FILE_ERROR", "TIMEOUT", "CRASHED"}
  BY DEF Open, FileFails, NoHeader, Crash, Go, Stop, After
<1>2. PICK m \in Nat : Drops(m)
  BY <1>1, NothingDrops DEF LoadInv
<1>3. QED
  BY <1>1, <1>2, ReadKeeps DEF Before, After

(* A request that begins where the header is read.                         *)
LEMMA HeaderKeeps ==
  ASSUME LoadInv, Header
  PROVE  LoadInv'
<1>1. /\ LoadTypes /\ ImageInv /\ TurnInv /\ pc = "header" /\ Drops(2)
      /\ UNCHANGED <<call, link, sent, inbox, device>>
      /\ pipe # <<>> /\ pipe \in Seq(Words)
  BY ReadDrops DEF LoadInv, Header, LoadTypes, Read
<1>2. CASE Go("request") /\ CmdOf(Taken(2)) \in Reads
  <2>1. pipe[1].k = 1 /\ pipe[1].cmd \in Reads /\ 1 \in 1 .. Len(pipe)
    <3>1. /\ Taken(2) # <<>> /\ Taken(2)[1].k = 1 /\ Taken(2)[1].cmd \in Reads
      BY <1>2 DEF CmdOf, Reads
    <3>2. Taken(2)[1] = pipe[1] /\ 1 \in 1 .. Len(pipe)
      BY <1>1 DEF Taken, Smaller
    <3>3. QED
      BY <3>1, <3>2
  <2>2. HostTurn
    BY <1>1, <2>1 DEF TurnInv, DeviceTurn, NoReads
  <2>3. PICK s \in Int, c \in Reads : RequestAt(s, c)
    BY <2>1, <2>2 DEF HostTurn, Request, NoReads
  <2>4. s = 1
    <3>1. Size[c] \in Nat
      BY Sizes DEF Kinds
    <3>2. 1 \in s .. s + Size[c] - 1
      BY <2>1, <2>3 DEF RequestAt
    <3>3. pipe[1].k = 1 - s + 1
      BY <2>1, <2>3, <3>2 DEF RequestAt
    <3>4. QED
      BY <2>1, <3>3
  <2>5. want' = want /\ \A t \in Int, b \in Reads : RequestAt(t, b) => RequestAt(t - 2, b)'
    BY <1>1, DropsKeeps DEF device
  <2>6. RequestAt(-1, c)'
    <3>1. RequestAt(1 - 2, c)'
      BY <2>3, <2>4, <2>5
    <3>2. 1 - 2 = -1
      OBVIOUS
    <3>3. QED
      BY <3>1, <3>2
  <2>7. Prompts' = {}
    BY <1>1, <2>2 DEF HostTurn, Prompts
  <2>8. pc' = "request" /\ status' = status
    BY <1>2 DEF Go
  <2>9. HostTurn'
    BY <2>6, <2>7 DEF HostTurn, Request
  <2>10. LoadTypes' /\ ImageInv'
    BY <1>1, <2>8 DEF LoadTypes, ImageInv, Drops, After, call, device
  <2>11. QED
    BY <2>8, <2>9, <2>10 DEF LoadInv, TurnInv, Before
<1>3. CASE Go("end") \/ Stop("WRITE_FAULT")
  BY <1>1, <1>3, ReadKeeps DEF Go, Stop, Before, After
<1>4. QED
  BY <1>2, <1>3 DEF Header, Reads

LEMMA PiecesTyped ==
  ASSUME LoadTypes PROVE Pieces(want) \in Seq(Nat)
<1>1. /\ want \in Requested /\ fileSize \in Nat /\ Served(want) \in Nat
      /\ Pieces(want) = [k \in 1 .. Served(want) |-> want.from + k] /\ want.from \in Nat
  BY PiecesAre, Cut DEF LoadTypes
<1>2. QED
  BY <1>1

(* A payload for the request: it is the device's turn.                     *)
LEMMA ServeKeeps ==
  ASSUME LoadInv, Serve
  PROVE  LoadInv'
<1>1. /\ LoadTypes /\ ImageInv /\ pc = "request" /\ HostTurn
      /\ UNCHANGED <<op, fileSize, link, device>>
      /\ pipe # <<>> /\ pipe \in Seq(Words) /\ link # "down"
  BY DEF LoadInv, TurnInv, DeviceTurn, Serve, LoadTypes
<1>2. PICK c \in Reads : RequestAt(-1, c)
  BY <1>1 DEF HostTurn, Request
<1>3. /\ pipe[1].cmd = c /\ pipe[1].arg = want /\ Size[c] - 2 \in Nat
  <2>1. Size[c] \in Nat /\ Size[c] > 2
    BY Sizes DEF Reads
  <2>2. 1 \in 1 .. Len(pipe) /\ 1 \in -1 .. -1 + Size[c] - 1
    BY <1>1, <2>1
  <2>3. QED
    BY <1>2, <2>1, <2>2 DEF RequestAt
<1>4. Drops(Size[c] - 2)
  BY <1>1, <1>3, ReadDrops DEF Serve
<1>5. NoReads'
  <2>1. ASSUME NEW j \in 1 .. Len(pipe')
        PROVE  pipe'[j].cmd \notin Reads
    <3>1. j + (Size[c] - 2) \in 1 .. Len(pipe) /\ pipe'[j] = pipe[j + (Size[c] - 2)]
      BY <1>4 DEF Drops
    <3>2. j + (Size[c] - 2) \notin -1 .. -1 + Size[c] - 1
      <4>1. Len(pipe') \in Nat /\ Size[c] \in Nat
        BY <1>4, Sizes DEF Drops, Kinds
      <4>2. QED
        BY <4>1
    <3>3. QED
      BY <1>2, <3>1, <3>2 DEF RequestAt
  <2>2. QED
    BY <2>1 DEF NoReads
<1>6. CASE Write("payload", Pieces(Body(pipe))) /\ Go("header")
  <2> DEFINE q == [cmd |-> "payload", arg |-> Pieces(want), n |-> sent + 1]
  <2>1. /\ sent \in Nat /\ sent' = sent + 1 /\ inbox' = Append(inbox, q)
        /\ pc' = "header" /\ status' = status
    BY <1>1, <1>3, <1>6 DEF Write, LoadTypes, Go, Body
  <2>2. Pieces(want) \in Seq(Nat)
    BY <1>1, PiecesTyped
  <2>3. q \in Messages /\ IsPrompt(q) /\ q.arg = Pieces(want)
    BY <2>1, <2>2 DEF Messages, IsPrompt
  <2> HIDE DEF q
  <2>4. Prompts = {}
    BY <1>1 DEF HostTurn
  <2>5. inbox' \in Seq(Messages) /\ Prompts' = {Len(inbox) + 1} /\ inbox'[Len(inbox) + 1] = q
    BY <1>1, <2>1, <2>3, <2>4, SendsPrompt
  <2>6. LoadTypes' /\ ImageInv'
    <3>1. PICK m : Drops(m)
      BY <1>4
    <3>2. LoadTypes'
      BY <1>1, <3>1, <2>1, <2>5 DEF LoadTypes, Drops, Before, After, device
    <3>3. ImageInv'
      BY <1>1, <3>1, <2>1 DEF ImageInv, Drops, device
    <3>4. QED
      BY <3>2, <3>3
  <2>7. want' = want /\ Pieces(want)' = Pieces(want)
    BY <1>1 DEF device, Pieces, Smaller
  <2>8. DeviceTurn'
    BY <1>5, <2>1, <2>3, <2>5, <2>7 DEF DeviceTurn
  <2>9. QED
    BY <2>1, <2>6, <2>8 DEF LoadInv, TurnInv, Before
<1>7. CASE Stop("INSUFFICIENT_BUFFER") /\ UNCHANGED <<sent, inbox, overrun>>
  BY <1>1, <1>4, <1>7, ReadKeeps DEF Stop, Before, After, call
<1>8. QED
  BY <1>6, <1>7 DEF Serve

LEMMA EndKeeps ==
  ASSUME LoadInv, ServeFails \/ End \/ Done
  PROVE  LoadInv'
<1>1. LoadTypes /\ ImageInv
  BY DEF LoadInv
<1>2. CASE ServeFails
  BY <1>1, <1>2, NothingDrops, ReadKeeps
     DEF ServeFails, ReadNothing, WriteFails, Stop, Before, After
<1>3. CASE End
  <2>1. PICK m \in Nat : Drops(m)
    BY <1>1, <1>3, ReadDrops, NothingDrops DEF End, ReadNothing
  <2>2. \/ UNCHANGED <<sent, inbox>>
        \/ \E q \in Messages : ~IsPrompt(q) /\ inbox' = Append(inbox, q) /\ sent' \in Nat
    BY <1>1, <1>3, WritesOther DEF End
  <2>3. /\ pc = "end" /\ UNCHANGED <<call, link, device>>
        /\ \/ pc' = "doneRsp"
           \/ pc' = "done" /\ status' \in {"WRITE_ERROR", "IMAGE_ERROR"}
    BY <1>3 DEF End, Go, Stop
  <2>4. QED
    BY <2>1, <2>2, <2>3, ReadKeeps DEF Before, After
<1>4. CASE Done
  <2>1. PICK m \in Nat : Drops(m)
    BY <1>1, <1>4, ReadDrops, NothingDrops DEF Done, ReadNothing
  <2>2. CmdOf(Taken(3)) = "DONE_RSP" => mode = "done"
    <3> SUFFICES ASSUME CmdOf(Taken(3)) = "DONE_RSP" PROVE mode = "done"
      OBVIOUS
    <3>1. Taken(3) # <<>> /\ Taken(3)[1].cmd = "DONE_RSP"
      BY DEF CmdOf
    <3>2. pipe \in Seq(Words)
      BY <1>1 DEF LoadTypes
    <3>3. 1 \in 1 .. Len(pipe) /\ Taken(3)[1] = pipe[1]
      BY <3>1, <3>2 DEF Taken, Smaller
    <3>4. QED
      BY <1>1, <3>1, <3>3 DEF ImageInv
  <2>3. /\ pc = "doneRsp" /\ pc' = "done" /\ UNCHANGED <<call, link, device, sent, inbox>>
        /\ status' = "SUCCESS" => mode = "done"
    BY <1>4, <2>2 DEF Done, Stop
  <2>4. QED
    BY <2>1, <2>3, ReadKeeps DEF Before, After
<1>5. QED
  BY <1>2, <1>3, <1>4

LEMMA HostKeeps ==
  ASSUME LoadInv, op = "load", Host
  PROVE  LoadInv'
<1>1. ~(Ready \/ Execute \/ ExecuteRsp \/ Data \/ DebugFileFails \/ Switched)
  BY DEF LoadInv, LoadTypes, Before, After, Ready, Execute, ExecuteRsp, Data,
     DebugFileFails, Switched
<1>2. QED
  BY <1>1, ConnectKeeps, RespondKeeps, FileKeeps, HeaderKeeps, ServeKeeps, EndKeeps DEF Host
-----------------------------------------------------------------------------
(* What the device says that is no request is added to the pipe.           *)
Adds ==
  /\ pipe' \in Seq(Words) /\ Len(pipe') >= Len(pipe)
  /\ \A j \in 1 .. Len(pipe) : pipe'[j] = pipe[j]
  /\ \A j \in 1 .. Len(pipe') : j > Len(pipe) =>
       pipe'[j].cmd \notin Reads /\ (pipe'[j].cmd = "DONE_RSP" => mode' = "done")

LEMMA Appended ==
  ASSUME NEW a \in Seq(Words), NEW b \in Seq(Words)
  PROVE  /\ a \o b \in Seq(Words) /\ Len(a \o b) = Len(a) + Len(b)
         /\ \A j \in 1 .. Len(a) : (a \o b)[j] = a[j]
         /\ \A j \in Len(a) + 1 .. Len(a) + Len(b) : (a \o b)[j] = b[j - Len(a)]
<1>1. a \o b \in Seq(Words)
  OBVIOUS
<1>2. Len(a \o b) = Len(a) + Len(b)
  OBVIOUS
<1>3. \A j \in 1 .. Len(a) : (a \o b)[j] = a[j]
  OBVIOUS
<1>4. \A j \in Len(a) + 1 .. Len(a) + Len(b) : (a \o b)[j] = b[j - Len(a)]
  OBVIOUS
<1>5. QED
  BY <1>1, <1>2, <1>3, <1>4

LEMMA Said ==
  ASSUME LoadTypes, NEW cmd \in Kinds, NEW to \in Nat,
         NEW arg \in {"none", "SUCCESS", "FAILED"} \union Requested, Say(cmd, arg, to)
  PROVE  /\ pipe' \in Seq(Words)
         /\ \A j \in 1 .. Len(pipe) : pipe'[j] = pipe[j]
         /\ \/ pipe' = pipe
            \/ /\ Len(pipe') = Len(pipe) + Size[cmd]
               /\ \A j \in Len(pipe) + 1 .. Len(pipe) + Size[cmd] :
                    /\ pipe'[j].cmd = cmd /\ pipe'[j].k = j - Len(pipe)
                    /\ pipe'[j].arg = arg
<1>1. pipe \in Seq(Words) /\ Size[cmd] \in Nat
  BY Sizes DEF LoadTypes
<1>2. /\ Packet(cmd, arg, to) \in Seq(Words) /\ Len(Packet(cmd, arg, to)) = Size[cmd]
      /\ \A k \in 1 .. Size[cmd] :
           Packet(cmd, arg, to)[k] = [cmd |-> cmd, k |-> k, arg |-> arg, to |-> to]
  <2>1. \A k \in 1 .. Size[cmd] : [cmd |-> cmd, k |-> k, arg |-> arg, to |-> to] \in Words
    BY <1>1 DEF Words
  <2>2. QED
    BY <1>1, <2>1 DEF Packet
<1>3. CASE pipe' = pipe
  BY <1>1, <1>3
<1>4. CASE pipe' = pipe \o Packet(cmd, arg, to)
  <2> DEFINE p == Packet(cmd, arg, to)
  <2>1. p \in Seq(Words) /\ Len(p) = Size[cmd] /\ pipe' = pipe \o p
    BY <1>2, <1>4
  <2>2. ASSUME NEW k \in 1 .. Size[cmd]
        PROVE  p[k].cmd = cmd /\ p[k].k = k /\ p[k].arg = arg
    <3>1. p[k] = [cmd |-> cmd, k |-> k, arg |-> arg, to |-> to]
      BY <1>2
    <3> HIDE DEF p
    <3>2. QED
      BY <3>1
  <2> HIDE DEF p
  <2>3. /\ pipe' \in Seq(Words) /\ Len(pipe') = Len(pipe) + Size[cmd]
        /\ \A j \in 1 .. Len(pipe) : pipe'[j] = pipe[j]
        /\ \A j \in Len(pipe) + 1 .. Len(pipe) + Size[cmd] : pipe'[j] = p[j - Len(pipe)]
    BY <1>1, <2>1, Appended
  <2>4. \A j \in Len(pipe) + 1 .. Len(pipe) + Size[cmd] :
          /\ j - Len(pipe) \in 1 .. Size[cmd]
    BY <1>1
  <2>5. QED
    BY <2>2, <2>3, <2>4
<1>5. QED
  BY <1>3, <1>4 DEF Say

LEMMA SaysOther ==
  ASSUME LoadTypes, NEW cmd \in Kinds \ Reads, NEW to \in Nat,
         NEW arg \in {"none", "SUCCESS", "FAILED"}, Say(cmd, arg, to),
         cmd = "DONE_RSP" => mode' = "done"
  PROVE  Adds
<1>1. Size[cmd] \in Nat /\ Len(pipe) \in Nat /\ pipe \in Seq(Words)
  BY Sizes DEF LoadTypes
<1>2. /\ pipe' \in Seq(Words)
      /\ \A j \in 1 .. Len(pipe) : pipe'[j] = pipe[j]
      /\ \/ pipe' = pipe
         \/ /\ Len(pipe') = Len(pipe) + Size[cmd]
            /\ \A j \in Len(pipe) + 1 .. Len(pipe) + Size[cmd] : pipe'[j].cmd = cmd
  BY Said
<1>3. CASE pipe' = pipe
  BY <1>1, <1>3 DEF Adds
<1>4. CASE pipe' # pipe
  <2>1. /\ Len(pipe') = Len(pipe) + Size[cmd] /\ cmd \notin Reads
        /\ \A j \in Len(pipe) + 1 .. Len(pipe) + Size[cmd] : pipe'[j].cmd = cmd
    BY <1>2, <1>4
  <2>2. \A j \in 1 .. Len(pipe') : j > Len(pipe) => pipe'[j].cmd = cmd
    BY <1>1, <2>1
  <2>3. QED
    BY <1>1, <1>2, <2>1, <2>2 DEF Adds
<1>5. QED
  BY <1>3, <1>4

(* What was true of the pipe is true of what is in front of the new words. *)
LEMMA AddsKeeps ==
  ASSUME LoadTypes, Adds, want' = want
  PROVE  /\ NoReads => NoReads'
         /\ \A s \in Int, c \in Reads : RequestAt(s, c) => RequestAt(s, c)'
<1>1. pipe \in Seq(Words) /\ pipe' \in Seq(Words) /\ Len(pipe') >= Len(pipe)
  BY DEF LoadTypes, Adds
<1>2. ASSUME NEW j \in 1 .. Len(pipe')
      PROVE  \/ j \in 1 .. Len(pipe) /\ pipe'[j] = pipe[j]
             \/ j > Len(pipe) /\ pipe'[j].cmd \notin Reads
  BY <1>1 DEF Adds
<1>3. NoReads => NoReads'
  BY <1>2 DEF NoReads
<1>4. ASSUME NEW s \in Int, NEW c \in Reads, RequestAt(s, c)
      PROVE  RequestAt(s, c)'
  <2>1. /\ Size[c] \in Nat /\ s + Size[c] - 1 <= Len(pipe)
        /\ \A j \in 1 .. Len(pipe) :
             IF j \in s .. s + Size[c] - 1
             THEN pipe[j].cmd = c /\ pipe[j].k = j - s + 1 /\ pipe[j].arg = want
             ELSE pipe[j].cmd \notin Reads
    BY <1>4, Sizes DEF RequestAt, Kinds
  <2>2. s + Size[c] - 1 <= Len(pipe')
    BY <1>1, <2>1
  <2>3. ASSUME NEW j \in 1 .. Len(pipe')
        PROVE  IF j \in s .. s + Size[c] - 1
               THEN pipe'[j].cmd = c /\ pipe'[j].k = j - s + 1 /\ pipe'[j].arg = want
               ELSE pipe'[j].cmd \notin Reads
    <3>1. CASE j \in 1 .. Len(pipe) /\ pipe'[j] = pipe[j]
      BY <2>1, <3>1
    <3>2. CASE j > Len(pipe) /\ pipe'[j].cmd \notin Reads
      BY <1>1, <2>1, <3>2
    <3>3. QED
      BY <1>2, <3>1, <3>2
  <2>4. QED
    BY <2>2, <2>3 DEF RequestAt
<1>5. QED
  BY <1>3, <1>4

(* The device takes a message: if it was the prompt, there is none now.    *)
LEMMA Hears ==
  ASSUME LoadTypes, inbox # <<>>, inbox' = Tail(inbox)
  PROVE  /\ inbox' \in Seq(Messages) /\ message \in Messages /\ message = inbox[1]
         /\ Prompts = {} => Prompts' = {} /\ ~IsPrompt(message)
         /\ \A j \in Prompts : Prompts = {j} =>
              IF IsPrompt(message) THEN j = 1 /\ Prompts' = {}
                                   ELSE Prompts' = {j - 1} /\ inbox'[j - 1] = inbox[j]
<1>1. /\ inbox \in Seq(Messages) /\ Len(inbox') = Len(inbox) - 1 /\ 1 \in 1 .. Len(inbox)
      /\ \A j \in 1 .. Len(inbox') : inbox'[j] = inbox[j + 1]
      /\ inbox' \in Seq(Messages) /\ message \in Messages /\ message = inbox[1]
  BY DEF LoadTypes, message
<1>2. \A j \in 1 .. Len(inbox') : j + 1 \in 1 .. Len(inbox)
  BY <1>1
<1>3. \A j \in Prompts' : j + 1 \in Prompts /\ j \in 1 .. Len(inbox')
  BY <1>1, <1>2 DEF Prompts
<1>4. IsPrompt(message) <=> 1 \in Prompts
  BY <1>1 DEF Prompts
<1>5. ASSUME NEW j \in Prompts, j # 1
      PROVE  j - 1 \in Prompts' /\ inbox'[j - 1] = inbox[j]
  <2>1. j \in 1 .. Len(inbox) /\ IsPrompt(inbox[j])
    BY DEF Prompts
  <2>2. j - 1 \in 1 .. Len(inbox') /\ (j - 1) + 1 = j
    BY <1>1, <1>5, <2>1
  <2>3. inbox'[j - 1] = inbox[j]
    BY <1>1, <2>2
  <2>4. QED
    BY <2>1, <2>2, <2>3 DEF Prompts
<1>6. ASSUME NEW j \in Prompts, Prompts = {j}
      PROVE  IF IsPrompt(message) THEN j = 1 /\ Prompts' = {}
                                  ELSE Prompts' = {j - 1} /\ inbox'[j - 1] = inbox[j]
  <2>1. CASE IsPrompt(message)
    BY <1>3, <1>4, <1>6, <2>1
  <2>2. CASE ~IsPrompt(message)
    <3>1. j # 1 /\ j \in Int
      BY <1>4, <2>2 DEF Prompts
    <3>2. \A i \in Prompts' : i = j - 1
      BY <1>3, <1>6, <3>1
    <3>3. QED
      BY <1>5, <2>2, <3>1, <3>2
  <2>3. QED
    BY <2>1, <2>2
<1>7. QED
  BY <1>1, <1>3, <1>4, <1>6

(* Steps of the device that ask for nothing.                               *)
LEMMA DeviceKeeps ==
  ASSUME LoadInv, Adds, UNCHANGED untouched, link = "up",
         rest' = rest, want' = want, got' = got,
         inbox' = inbox \/ (inbox # <<>> /\ inbox' = Tail(inbox)),
         mode' \in {"boot", "hello", "ready", "image", "end", "done", "failed"},
         mode' \in {"end", "done"} => mode \in {"end", "done"},
         mode = "done" => mode' = "done"
  PROVE  LoadInv'
<1>1. /\ LoadTypes /\ ImageInv /\ TurnInv
      /\ UNCHANGED <<call, pc, status, sent, link, fileSize>>
  BY DEF LoadInv, untouched, call
<1>2. LoadTypes'
  <2>1. inbox' \in Seq(Messages)
    BY <1>1, Hears DEF LoadTypes
  <2>2. QED
    BY <1>1, <2>1 DEF LoadTypes, Adds
<1>3. ImageInv'
  <2>1. \A j \in 1 .. Len(pipe') : pipe'[j].cmd = "DONE_RSP" => mode' = "done"
    <3>1. pipe \in Seq(Words) /\ pipe' \in Seq(Words)
      BY <1>1, <1>2 DEF LoadTypes
    <3>2. \A j \in 1 .. Len(pipe) : pipe[j].cmd = "DONE_RSP" => mode' = "done"
      BY <1>1 DEF ImageInv
    <3>3. QED
      BY <3>1, <3>2 DEF Adds
  <2>2. QED
    BY <1>1, <2>1 DEF ImageInv
<1>4. Pieces(want)' = Pieces(want)
  BY <1>1 DEF Pieces, Smaller
<1>5. CASE HostTurn
  <2>1. Prompts' = {}
    BY <1>1, <1>5, Hears DEF HostTurn, Prompts
  <2>2. CASE NoReads
    <3>1. NoReads'
      BY <1>1, <2>2, AddsKeeps
    <3>2. pc # "request"
      <4>1. ASSUME NEW c \in Reads PROVE ~RequestAt(-1, c)
        <5>1. Size[c] \in Nat /\ Size[c] > 2 /\ pipe \in Seq(Words)
          BY <1>1, Sizes DEF Reads, LoadTypes
        <5>2. -1 + Size[c] - 1 <= Len(pipe) =>
                1 \in 1 .. Len(pipe) /\ 1 \in -1 .. -1 + Size[c] - 1
          BY <5>1
        <5>3. QED
          BY <2>2, <5>2 DEF NoReads, RequestAt
      <4>2. QED
        BY <1>5, <4>1 DEF HostTurn, Request
    <3>3. HostTurn' /\ NoReads'
      BY <1>1, <2>1, <3>1, <3>2 DEF HostTurn
    <3>4. QED
      BY <1>2, <1>3, <2>1, <3>3 DEF LoadInv, TurnInv
  <2>3. CASE ~NoReads
    <3>1. PICK s \in Int, c \in Reads : RequestAt(s, c) /\ (pc = "request" => s = -1)
      BY <1>5, <2>3 DEF HostTurn, Request
    <3>2. RequestAt(s, c)'
      BY <1>1, <3>1, AddsKeeps
    <3>3. HostTurn' /\ pc' \notin Before
      BY <1>1, <2>1, <2>3, <3>1, <3>2 DEF HostTurn, Request, TurnInv
    <3>4. QED
      BY <1>2, <1>3, <3>3 DEF LoadInv, TurnInv
  <2>4. QED
    BY <2>2, <2>3
<1>6. CASE DeviceTurn
  <2>1. NoReads' /\ pc' # "request" /\ pc \notin Before
    BY <1>1, <1>6, AddsKeeps DEF DeviceTurn, TurnInv
  <2>2. PICK j \in Prompts :
          Prompts = {j} /\ (inbox[j].cmd = "payload" => inbox[j].arg = Pieces(want))
    BY <1>6 DEF DeviceTurn
  <2>3. CASE inbox' = inbox
    <3>1. DeviceTurn'
      BY <1>4, <2>1, <2>2, <2>3 DEF DeviceTurn, Prompts
    <3>2. QED
      BY <1>1, <1>2, <1>3, <2>1, <3>1 DEF LoadInv, TurnInv
  <2>4. CASE inbox # <<>> /\ inbox' = Tail(inbox) /\ IsPrompt(message)
    <3>1. Prompts' = {}
      BY <1>1, <2>2, <2>4, Hears
    <3>2. QED
      BY <1>2, <1>3, <2>1, <3>1 DEF LoadInv, TurnInv, HostTurn
  <2>5. CASE inbox # <<>> /\ inbox' = Tail(inbox) /\ ~IsPrompt(message)
    <3>1. Prompts' = {j - 1} /\ inbox'[j - 1] = inbox[j]
      BY <1>1, <2>2, <2>5, Hears
    <3>2. DeviceTurn'
      BY <1>4, <2>1, <2>2, <3>1 DEF DeviceTurn
    <3>3. QED
      BY <1>1, <1>2, <1>3, <2>1, <3>2 DEF LoadInv, TurnInv
  <2>6. QED
    BY <2>3, <2>4, <2>5
<1>7. QED
  BY <1>1, <1>5, <1>6 DEF TurnInv
LEMMA DeviceSays ==
  ASSUME LoadInv, DeviceBoots \/ DeviceSwitches \/ DeviceDone
  PROVE  LoadInv'
<1>1. LoadTypes /\ ImageInv
  BY DEF LoadInv
<1>2. CASE DeviceBoots
  <2>1. /\ mode = "boot" /\ mode' = "hello" /\ link = "up" /\ UNCHANGED untouched
        /\ UNCHANGED <<inbox, rest, want, got>> /\ Say("HELLO_REQ", "none", 0)
    BY <1>2 DEF DeviceBoots
  <2>2. Adds
    BY <1>1, <2>1, SaysOther DEF Kinds, Reads
  <2>3. QED
    BY <2>1, <2>2, DeviceKeeps
<1>3. CASE DeviceSwitches
  <2>1. /\ mode = "ready" /\ mode' = "hello" /\ link = "up" /\ UNCHANGED untouched
        /\ inbox # <<>> /\ inbox' = Tail(inbox)
        /\ UNCHANGED <<rest, want, got>> /\ Say("HELLO_REQ", "none", message.n)
    BY <1>3 DEF DeviceSwitches, Hear
  <2>2. message.n \in Nat
    BY <1>1, <2>1, Hears DEF Messages
  <2>3. Adds
    BY <1>1, <2>1, <2>2, SaysOther DEF Kinds, Reads
  <2>4. QED
    BY <2>1, <2>3, DeviceKeeps
<1>4. CASE DeviceDone
  <2>1. /\ mode = "end" /\ mode' = "done" /\ link = "up" /\ UNCHANGED untouched
        /\ inbox # <<>> /\ inbox' = Tail(inbox)
        /\ UNCHANGED <<rest, want, got>> /\ Say("DONE_RSP", "none", message.n)
    BY <1>4 DEF DeviceDone, Hear
  <2>2. message.n \in Nat
    BY <1>1, <2>1, Hears DEF Messages
  <2>3. Adds
    BY <1>1, <2>1, <2>2, SaysOther DEF Kinds, Reads
  <2>4. QED
    BY <2>1, <2>3, DeviceKeeps
<1>5. QED
  BY <1>2, <1>3, <1>4

LEMMA ConfusedKeeps ==
  ASSUME LoadInv, DeviceConfused
  PROVE  LoadInv'
<1>1. /\ LoadTypes /\ link = "up" /\ inbox # <<>> /\ inbox' = Tail(inbox)
      /\ UNCHANGED untouched /\ UNCHANGED <<rest, mode, want, got>>
      /\ Say("END_TRANSFER", "FAILED", message.n) \/ pipe' = pipe
  BY DEF LoadInv, DeviceConfused, Hear
<1>2. message.n \in Nat
  BY <1>1, Hears DEF Messages
<1>3. Adds
  <2>1. CASE pipe' = pipe
    <3>1. pipe \in Seq(Words)
      BY <1>1 DEF LoadTypes
    <3>2. QED
      BY <2>1, <3>1 DEF Adds
  <2>2. CASE Say("END_TRANSFER", "FAILED", message.n)
    BY <1>1, <1>2, <2>2, SaysOther DEF Kinds, Reads
  <2>3. QED
    BY <1>1, <2>1, <2>2
<1>4. mode \in {"boot", "hello", "ready", "image", "end", "done", "failed"}
  BY <1>1 DEF LoadTypes
<1>5. QED
  BY <1>1, <1>3, <1>4, DeviceKeeps

(* The device, prompted for more, asks: it is the host's turn.             *)
LEMMA AskKeeps ==
  ASSUME LoadInv, NoReads, pc \in After \ {"request"}, NEW to \in Nat, Ask(to),
         UNCHANGED untouched, link = "up", rest' = rest, mode \notin {"end", "done"},
         inbox' \in Seq(Messages), Prompts' = {}, 
         got' \in [1 .. ImageSize -> Nat], \A k \in 1 .. ImageSize : got'[k] \in {0, k}
  PROVE  LoadInv'
<1>1. /\ LoadTypes /\ ImageInv /\ pipe \in Seq(Words)
      /\ UNCHANGED <<call, pc, status, sent, link, fileSize>> /\ pc \notin Before
  BY DEF LoadInv, LoadTypes, untouched, call, Before, After
<1>2. CASE \E arg \in {"SUCCESS", "FAILED"} :
             /\ Say("END_TRANSFER", arg, to) /\ want' = NoRequest
             /\ mode' = IF arg = "SUCCESS" THEN "end" ELSE "failed"
             /\ arg = "SUCCESS" => \A k \in 1 .. ImageSize : got'[k] # 0
  <2>1. Adds
    BY <1>1, <1>2, SaysOther DEF Kinds, Reads
  <2>2. NoReads'
    BY <1>1, <2>1 DEF NoReads, Adds
  <2>3. LoadTypes'
    BY <1>1, <1>2, <2>1, Constants DEF LoadTypes, Adds, NoRequest, Requested
  <2>4. ImageInv'
    <3>1. \A j \in 1 .. Len(pipe') : pipe'[j].cmd # "DONE_RSP"
      BY <1>1, <1>2, <2>1 DEF ImageInv, Adds
    <3>2. ~(pc' = "done" /\ status' = "SUCCESS")
      BY <1>1 DEF ImageInv
    <3>3. mode' = "end" => \A k \in 1 .. ImageSize : got'[k] = k
      BY <1>2
    <3>4. QED
      BY <1>2, <3>1, <3>2, <3>3 DEF ImageInv
  <2>5. QED
    BY <1>1, <2>2, <2>3, <2>4 DEF LoadInv, TurnInv, HostTurn, After
<1>3. CASE \E cmd \in Reads : Say(cmd, want', to) /\ want' \in Requested /\ mode' = "image"
  <2>1. PICK cmd \in Reads : Say(cmd, want', to)
    BY <1>3
  <2>2. cmd \in Kinds /\ Size[cmd] \in Nat /\ Size[cmd] > 0 /\ cmd # "DONE_RSP"
    BY Sizes DEF Kinds, Reads
  <2>3. /\ pipe' \in Seq(Words)
        /\ \A j \in 1 .. Len(pipe) : pipe'[j] = pipe[j]
        /\ \/ pipe' = pipe
           \/ /\ Len(pipe') = Len(pipe) + Size[cmd]
              /\ \A j \in Len(pipe) + 1 .. Len(pipe) + Size[cmd] :
                   pipe'[j].cmd = cmd /\ pipe'[j].k = j - Len(pipe) /\ pipe'[j].arg = want'
    BY <1>1, <1>3, <2>1, <2>2, Said
  <2>4. LoadTypes'
    BY <1>1, <1>3, <2>3 DEF LoadTypes
  <2>5. ImageInv'
    <3>1. \A j \in 1 .. Len(pipe) : pipe[j].cmd # "DONE_RSP"
      BY DEF LoadInv, ImageInv
    <3>2. ASSUME NEW j \in 1 .. Len(pipe') PROVE pipe'[j].cmd # "DONE_RSP"
      <4>1. CASE j \in 1 .. Len(pipe)
        BY <2>3, <3>1, <4>1
      <4>2. CASE j \notin 1 .. Len(pipe)
        <5>1. pipe' # pipe /\ j \in Len(pipe) + 1 .. Len(pipe) + Size[cmd]
          BY <1>1, <2>2, <2>3, <4>2
        <5>2. QED
          BY <2>2, <2>3, <5>1
      <4>3. QED
        BY <4>1, <4>2
    <3>3. ~(pc' = "done" /\ status' = "SUCCESS")
      BY <1>1 DEF ImageInv
    <3>4. QED
      BY <1>3, <3>2, <3>3 DEF ImageInv
  <2>6. CASE pipe' = pipe
    <3>1. NoReads'
      BY <2>6 DEF NoReads
    <3>2. QED
      BY <1>1, <2>4, <2>5, <3>1 DEF LoadInv, TurnInv, HostTurn, After
  <2>7. CASE pipe' # pipe
    <3> PICK s \in Int : s = Len(pipe) + 1
      BY <1>1
    <3>1. ASSUME NEW j \in 1 .. Len(pipe')
          PROVE  IF j \in s .. s + Size[cmd] - 1
                 THEN pipe'[j].cmd = cmd /\ pipe'[j].k = j - s + 1 /\ pipe'[j].arg = want'
                 ELSE pipe'[j].cmd \notin Reads
      <4>1. CASE j \in 1 .. Len(pipe)
        BY <1>1, <2>2, <2>3, <4>1 DEF NoReads
      <4>2. CASE j > Len(pipe)
        <5>1. /\ j \in Len(pipe) + 1 .. Len(pipe) + Size[cmd]
              /\ j - s + 1 = j - Len(pipe) /\ j \in s .. s + Size[cmd] - 1
          BY <1>1, <2>2, <2>3, <2>7, <4>2
        <5>2. QED
          BY <2>3, <2>7, <5>1
      <4>3. QED
        BY <1>1, <2>3, <4>1, <4>2
    <3>2. s + Size[cmd] - 1 <= Len(pipe')
      BY <1>1, <2>2, <2>3, <2>7
    <3>3. RequestAt(s, cmd)'
      BY <3>1, <3>2 DEF RequestAt
    <3>4. QED
      BY <1>1, <2>4, <2>5, <3>3 DEF LoadInv, TurnInv, HostTurn, Request, After
  <2>8. QED
    BY <2>6, <2>7
<1>4. QED
  <2>1. CASE \E cmd \in Reads, from \in 0 .. ImageSize - 1, len \in 1 .. MaxRequest :
               /\ want' = [from |-> from, len |-> len] /\ Say(cmd, want', to)
               /\ mode' = "image"
    <3>1. ImageSize \in Nat /\ MaxRequest \in Nat
      BY SaharaAssumption DEF SaharaAssumption
    <3>2. want' \in Requested
      BY <2>1, <3>1 DEF Requested
    <3>3. QED
      BY <1>3, <2>1, <3>2
  <2>2. CASE /\ \A k \in 1 .. ImageSize : got'[k] # 0
             /\ Say("END_TRANSFER", "SUCCESS", to) /\ mode' = "end" /\ want' = NoRequest
    BY <1>2, <2>2
  <2>3. CASE Say("END_TRANSFER", "FAILED", to) /\ mode' = "failed" /\ want' = NoRequest
    BY <1>2, <2>3
  <2>4. QED
    BY <2>1, <2>2, <2>3 DEF Ask, Reads
(* The prompt is taken: the response to the hello, or a payload, whose     *)
(* pieces are those the device wants.                                      *)
LEMMA HelloKeeps ==
  ASSUME LoadInv, DeviceHello
  PROVE  LoadInv'
<1>1. /\ LoadTypes /\ ImageInv /\ TurnInv /\ link = "up" /\ mode = "hello"
      /\ inbox # <<>> /\ inbox' = Tail(inbox) /\ message.cmd = "HELLO_RSP"
      /\ UNCHANGED untouched /\ UNCHANGED <<rest, got>>
  BY DEF LoadInv, DeviceHello, Hear
<1>2. message \in Messages /\ message.n \in Nat /\ inbox' \in Seq(Messages)
  BY <1>1, Hears DEF Messages
<1>3. CASE message.arg = "command"
  <2>1. Say("CMD_READY", "none", message.n) /\ mode' = "ready" /\ UNCHANGED want
    BY <1>3 DEF DeviceHello
  <2>2. Adds
    BY <1>1, <1>2, <2>1, SaysOther DEF Kinds, Reads
  <2>3. QED
    BY <1>1, <2>1, <2>2, DeviceKeeps
<1>4. CASE message.arg = "image"
  <2>1. Ask(message.n)
    BY <1>4 DEF DeviceHello
  <2>2. IsPrompt(message)
    BY <1>1, <1>4 DEF IsPrompt
  <2>3. DeviceTurn
    BY <1>1, <2>2, Hears DEF TurnInv, HostTurn
  <2>4. NoReads /\ Prompts' = {} /\ pc # "request"
    BY <1>1, <2>2, <2>3, Hears DEF DeviceTurn
  <2>5. pc \in After \ {"request"}
    BY <1>1, <2>3, <2>4 DEF TurnInv, DeviceTurn, LoadTypes
  <2>6. got' \in [1 .. ImageSize -> Nat] /\ \A k \in 1 .. ImageSize : got'[k] \in {0, k}
    BY <1>1 DEF LoadTypes, ImageInv
  <2>7. QED
    BY <1>1, <1>2, <2>1, <2>4, <2>5, <2>6, AskKeeps
<1>5. QED
  BY <1>1, <1>2, <1>3, <1>4 DEF DeviceHello, Messages

LEMMA TakesKeeps ==
  ASSUME LoadInv, DeviceTakes
  PROVE  LoadInv'
<1>1. /\ LoadTypes /\ ImageInv /\ TurnInv /\ link = "up" /\ mode = "image"
      /\ inbox # <<>> /\ inbox' = Tail(inbox) /\ message.cmd = "payload"
      /\ UNCHANGED untouched /\ UNCHANGED rest
  BY DEF LoadInv, DeviceTakes, Hear
<1>2. message \in Messages /\ message.n \in Nat /\ inbox' \in Seq(Messages)
  BY <1>1, Hears DEF Messages
<1>3. IsPrompt(message)
  BY <1>1 DEF IsPrompt
<1>4. DeviceTurn
  BY <1>1, <1>3, Hears DEF TurnInv, HostTurn
<1>5. NoReads /\ Prompts' = {} /\ pc # "request" /\ message.arg = Pieces(want)
  BY <1>1, <1>3, <1>4, Hears DEF DeviceTurn
<1>6. pc \in After \ {"request"}
  BY <1>1, <1>4, <1>5 DEF TurnInv, DeviceTurn, LoadTypes
<1>7. got' \in [1 .. ImageSize -> Nat] /\ \A k \in 1 .. ImageSize : got'[k] \in {0, k}
  <2> DEFINE a == message.arg
             n == Served(want)
  <2>1. /\ want.from \in Nat /\ n \in Nat /\ a = [i \in 1 .. n |-> want.from + i]
    BY <1>1, <1>5, PiecesAre, Cut DEF LoadTypes
  <2>2. got' = [k \in 1 .. ImageSize |->
                  IF k - want.from \in DOMAIN a THEN a[k - want.from] ELSE got[k]]
    BY DEF DeviceTakes
  <2> HIDE DEF a, n
  <2>3. ASSUME NEW k \in 1 .. ImageSize
        PROVE  got'[k] \in {0, k} /\ got'[k] \in Nat
    <3>1. k \in Nat /\ got[k] \in {0, k}
      BY <1>1, Constants DEF ImageInv
    <3>2. CASE k - want.from \in 1 .. n
      <4>1. a[k - want.from] = want.from + (k - want.from)
        BY <2>1, <3>2
      <4>2. got'[k] = k
        BY <2>1, <2>2, <3>1, <3>2, <4>1
      <4>3. QED
        BY <3>1, <4>2
    <3>3. CASE k - want.from \notin 1 .. n
      BY <2>1, <2>2, <3>1, <3>3
    <3>4. QED
      BY <3>2, <3>3
  <2>4. QED
    BY <2>2, <2>3
<1>8. CASE Ask(message.n)
  BY <1>1, <1>2, <1>5, <1>6, <1>7, <1>8, AskKeeps
<1>9. CASE UNCHANGED <<pipe, mode, loses, asks, want>>
  <2>1. LoadTypes'
    BY <1>1, <1>2, <1>7, <1>9 DEF LoadTypes, untouched, call
  <2>2. ImageInv'
    BY <1>1, <1>7, <1>9 DEF ImageInv, untouched
  <2>3. NoReads' /\ HostTurn' /\ pc' \notin Before
    BY <1>5, <1>6, <1>1, <1>9 DEF NoReads, HostTurn, untouched, Before, After
  <2>4. QED
    BY <2>1, <2>2, <2>3 DEF LoadInv, TurnInv
<1>10. QED
  BY <1>8, <1>9 DEF DeviceTakes

-----------------------------------------------------------------------------
(* Without the link nothing is on its way.                                 *)
LEMMA LinkKeeps ==
  ASSUME LoadInv, LinkDown \/ UNCHANGED vars
  PROVE  LoadInv'
<1>1. LoadTypes /\ ImageInv /\ TurnInv
  BY DEF LoadInv
<1>2. CASE LinkDown
  <2>1. LoadTypes'
    BY <1>1, <1>2 DEF LoadTypes, LinkDown, call
  <2>2. ImageInv'
    BY <1>1, <1>2 DEF ImageInv, LinkDown
  <2>3. Prompts' = {} /\ NoReads' /\ link' = "down"
    BY <1>2 DEF LinkDown, Prompts, NoReads
  <2>4. QED
    BY <2>1, <2>2, <2>3 DEF LoadInv, TurnInv, HostTurn
<1>3. CASE UNCHANGED vars
  <2>1. LoadTypes' /\ ImageInv'
    BY <1>1, <1>3 DEF LoadTypes, ImageInv, vars, call, device
  <2>2. TurnInv'
    BY <1>1, <1>3 DEF TurnInv, HostTurn, DeviceTurn, Request, RequestAt, NoReads, Prompts,
       Pieces, Smaller, vars, call, device
  <2>3. QED
    BY <2>1, <2>2 DEF LoadInv
<1>4. QED
  BY <1>2, <1>3

LEMMA NextLoad == IInv /\ [Next]_vars => IInv'
<1> SUFFICES ASSUME IInv, [Next]_vars, op' = "load" PROVE LoadInv'
  BY DEF IInv
<1>1. op' = op
  BY DEF Next, vars, call, Host, HelloThere, HelloMissing, PblRespond, PblReady, ModeSwitch,
     PblSwitched, Respond, Open, FileFails, Header, NoHeader, Serve, Crash, ServeFails, End, Done,
     Ready, Execute, ExecuteRsp, Data, DebugFileFails, Switched, Device, untouched,
     DeviceBoots, DeviceHello, DeviceSwitches, DeviceExecutes, DeviceData, DeviceRest,
     DeviceTakes, DeviceDone, DeviceConfused, LinkDown
<1>2. LoadInv /\ op = "load"
  BY <1>1 DEF IInv
<1>3. CASE Host
  BY <1>2, <1>3, HostKeeps
<1>4. CASE Device
  <2>1. ~DeviceRest
    BY <1>2 DEF LoadInv, LoadTypes, DeviceRest
  <2>2. ~(DeviceExecutes \/ DeviceData)
    <3>1. inbox # <<>> => Head(inbox) \in Messages
      BY <1>2 DEF LoadInv, LoadTypes
    <3>2. QED
      BY <3>1 DEF DeviceExecutes, DeviceData, Hear, message, Messages
  <2>3. QED
    BY <1>2, <1>4, <2>1, <2>2, DeviceSays, HelloKeeps, TakesKeeps, ConfusedKeeps DEF Device
<1>5. CASE LinkDown \/ UNCHANGED vars
  BY <1>2, <1>5, LinkKeeps
<1>6. QED
  BY <1>3, <1>4, <1>5 DEF Next

(* A flash programmer that LoadFlashProg reports as loaded is on the       *)
(* device, every piece of it in its place, for images, files and requests  *)
(* of any size, in any order, and however late a packet or the hello is:   *)
(* the file is read where the request says and no request is answered      *)
(* twice (LoadFlashProg, PblHack).                                         *)
THEOREM ImageComplete == Spec => []ImageLoaded
<1>1. IInv => ImageLoaded
  BY DEF IInv, LoadInv, ImageInv, ImageLoaded
<1>2. QED
  BY <1>1, InitLoad, NextLoad, PTL DEF Spec

-----------------------------------------------------------------------------
(* Types.  A payload that is on its way fits dataBuf unless more has been  *)
(* read into it, for a READ_DATA: a READ_DATA_64 that asks for more, of    *)
(* what is left of its length, is not served.                              *)
PlainTypes ==
  /\ op \in Operations /\ fileSize \in FileSizes /\ status \in Statuses
  /\ tries \in 0 .. Tries - 1 /\ command \in Nat
  /\ link \in {"up", "down"} /\ sent \in Nat
  /\ overrun \in BOOLEAN /\ early \in BOOLEAN /\ own \in BOOLEAN /\ loses \in BOOLEAN
  /\ mode \in {"boot", "hello", "ready", "image", "end", "done", "failed"}

InboxFits ==
  \A k \in 1 .. Len(inbox) :
    inbox[k].cmd = "payload" =>
      inbox[k].arg \in Seq(Nat) /\ (overrun \/ Len(inbox[k].arg) <= BufSize)

(* A host that asks for data never has the device ask for an image.        *)
Names == {"SERIAL_NUM", "MSM_HW_ID", "OEM_PK_HASH", "SW_VERSION", "DEBUG_DATA"}
Orders ==
  {m \in [cmd : {"HELLO_RSP", "SWITCH_MODE", "EXECUTE_REQ", "EXECUTE_DATA"},
          arg : Names \union {"command", "image"}, n : Nat] :
     m.cmd = "HELLO_RSP" => m.arg = "command"}

DumpInv ==
  /\ pc \notin After \ {"done"} /\ mode \in {"boot", "hello", "ready"}
  /\ inbox \in Seq(Orders) /\ command \in 1 .. Len(Commands[op])
  /\ got = [k \in 1 .. ImageSize |-> 0]

TypeInv ==
  /\ PlainTypes
  /\ op = "load" => LoadInv /\ InboxFits
  /\ op # "load" => DumpInv

LEMMA Dumped ==
  ASSUME op \in Operations, op # "load"
  PROVE  Commands[op] \in Seq(Names) /\ Len(Commands[op]) \in Nat \ {0}
<1>1. op \in {"info", "debug"}
  BY SaharaAssumption DEF SaharaAssumption, Commands
<1>2. CASE op = "info"
  <2>1. Commands[op] = <<"SERIAL_NUM", "MSM_HW_ID", "OEM_PK_HASH", "SW_VERSION">>
    BY <1>2 DEF Commands
  <2>2. QED
    BY <2>1 DEF Names
<1>3. CASE op = "debug"
  <2>1. Commands[op] = <<"DEBUG_DATA">>
    BY <1>3 DEF Commands
  <2>2. QED
    BY <2>1 DEF Names
<1>4. QED
  BY <1>1, <1>2, <1>3

LEMMA TypeInit == Init => TypeInv
<1> SUFFICES ASSUME Init PROVE TypeInv
  OBVIOUS
<1>1. Tries \in Nat \ {0} /\ FileSizes \subseteq Nat
  BY SaharaAssumption DEF SaharaAssumption
<1>2. PlainTypes
  <2>1. overrun = FALSE /\ early = FALSE /\ own = TRUE /\ loses \in BOOLEAN
    BY DEF Init
  <2>2. overrun \in BOOLEAN /\ early \in BOOLEAN /\ own \in BOOLEAN /\ loses \in BOOLEAN
    BY <2>1
  <2>3. /\ op \in Operations /\ fileSize \in FileSizes /\ status = "SUCCESS" /\ tries = 0
        /\ command = 1 /\ link = "up" /\ sent = 0 /\ mode \in {"boot", "hello"}
    BY DEF Init
  <2>4. tries \in 0 .. Tries - 1
    BY <1>1, <2>3
  <2>5. QED
    BY <2>2, <2>3, <2>4 DEF PlainTypes, Statuses
<1>3. inbox = <<>>
  BY DEF Init
<1>4. op = "load" => LoadInv
  BY InitLoad DEF IInv
<1>5. InboxFits
  BY <1>3 DEF InboxFits
<1>6. op # "load" => DumpInv
  <2> SUFFICES ASSUME op # "load" PROVE DumpInv
    OBVIOUS
  <2>1. command = 1 /\ Len(Commands[op]) \in Nat \ {0}
    BY <1>2, Dumped DEF Init, PlainTypes
  <2>2. /\ pc = "hello" /\ mode \in {"boot", "hello"}
        /\ inbox \in Seq(Orders) /\ got = [k \in 1 .. ImageSize |-> 0]
    BY DEF Init
  <2>3. QED
    BY <2>1, <2>2 DEF DumpInv, After
<1>7. QED
  BY <1>2, <1>4, <1>5, <1>6 DEF TypeInv

(* What has been overrun stays so.                                         *)
LEMMA OverrunKept ==
  ASSUME [Next]_vars, overrun \in BOOLEAN
  PROVE  overrun' \in BOOLEAN /\ (overrun => overrun')
<1>1. CASE Serve
  <2>1. overrun' = overrun \/ \E more \in BOOLEAN : overrun' = (overrun \/ more)
    BY <1>1 DEF Serve
  <2>2. ASSUME NEW more \in BOOLEAN, overrun' = (overrun \/ more)
        PROVE  overrun' \in BOOLEAN /\ (overrun => overrun')
    BY <2>2
  <2>3. QED
    BY <2>1, <2>2
<1>2. CASE ~Serve
  <2>1. overrun' = overrun
    BY <1>2 DEF Next, vars, call, Host, HelloThere, HelloMissing, PblRespond, PblReady, ModeSwitch,
     PblSwitched, Respond, Open, FileFails, Header, NoHeader, Crash, ServeFails, End, Done,
     Ready, Execute, ExecuteRsp, Data, DebugFileFails, Switched, Device, untouched,
     DeviceBoots, DeviceHello, DeviceSwitches, DeviceExecutes, DeviceData, DeviceRest,
     DeviceTakes, DeviceDone, DeviceConfused, LinkDown
  <2>2. QED
    BY <2>1
<1>3. QED
  BY <1>1, <1>2

LEMMA PlainKept ==
  ASSUME PlainTypes, [Next]_vars
  PROVE  PlainTypes'
<1>1. Tries \in Nat \ {0}
  BY SaharaAssumption DEF SaharaAssumption
<1>2. op' = op /\ fileSize' = fileSize
  BY DEF Next, vars, call, Host, HelloThere, HelloMissing, PblRespond, PblReady, ModeSwitch,
     PblSwitched, Respond, Open, FileFails, Header, NoHeader, Serve, Crash, ServeFails, End, Done,
     Ready, Execute, ExecuteRsp, Data, DebugFileFails, Switched, Device, untouched,
     DeviceBoots, DeviceHello, DeviceSwitches, DeviceExecutes, DeviceData, DeviceRest,
     DeviceTakes, DeviceDone, DeviceConfused, LinkDown
<1>3. CASE Device \/ LinkDown \/ UNCHANGED vars
  <2>1. /\ UNCHANGED <<status, tries, command, sent, early, own>>
        /\ link' \in {link, "down"}
    BY <1>3 DEF Device, DeviceBoots, DeviceHello, DeviceSwitches, DeviceExecutes, DeviceData,
     DeviceRest, DeviceTakes, DeviceDone, DeviceConfused, LinkDown, untouched, vars, host
  <2>2. /\ loses' \in {loses, FALSE}
        /\ mode' \in {mode, "hello", "ready", "image", "end", "done", "failed"}
    BY <1>3 DEF Device, DeviceBoots, DeviceHello, DeviceSwitches, DeviceExecutes, DeviceData,
     DeviceRest, DeviceTakes, DeviceDone, DeviceConfused, LinkDown, vars, device, Say, Ask
  <2>3. overrun' = overrun
    BY <1>3 DEF Device, DeviceBoots, DeviceHello, DeviceSwitches, DeviceExecutes, DeviceData,
     DeviceRest, DeviceTakes, DeviceDone, DeviceConfused, LinkDown, untouched, vars, call
  <2>4. QED
    BY <1>2, <2>1, <2>2, <2>3 DEF PlainTypes
<1>4. CASE Host
  <2>1. UNCHANGED <<link, loses, mode>>
    BY <1>4 DEF Host, HelloThere, HelloMissing, PblRespond, PblReady, ModeSwitch,
     PblSwitched, Respond, Open, FileFails, Header, NoHeader, Serve, Crash, ServeFails, End, Done,
     Ready, Execute, ExecuteRsp, Data, DebugFileFails, Switched, device
  <2>2. sent' \in {sent, sent + 1}
    BY <1>4 DEF Host, HelloThere, HelloMissing, PblRespond, PblReady, ModeSwitch,
     PblSwitched, Respond, Open, FileFails, Header, NoHeader, Serve, Crash, ServeFails, End, Done,
     Ready, Execute, ExecuteRsp, Data, DebugFileFails, Switched, Write, WriteFails
  <2>3. status' \in Statuses
    BY <1>4 DEF PlainTypes, Statuses, Host, HelloThere, HelloMissing, PblRespond, PblReady,
     ModeSwitch, PblSwitched, Respond, Open, FileFails, Header, NoHeader, Serve, Crash, ServeFails,
     End, Done, Ready, Execute, ExecuteRsp, Data, DebugFileFails, Switched, Go, Stop, SilenceIsGood,
     NextCommand
  <2>4. command' \in {command, command + 1}
    BY <1>4 DEF Host, HelloThere, HelloMissing, PblRespond, PblReady,
     ModeSwitch, PblSwitched, Respond, Open, FileFails, Header, NoHeader, Serve, Crash, ServeFails,
     End, Done, Ready, Execute, ExecuteRsp, Data, DebugFileFails, Switched, host,
     NextCommand
  <2>5. tries' \in 0 .. Tries - 1
    <3>1. tries' = tries \/ tries' = 0 \/ (tries' = tries + 1 /\ tries + 1 # Tries)
      BY <1>4 DEF Host, HelloThere, HelloMissing, PblRespond, PblReady,
     ModeSwitch, PblSwitched, Respond, Open, FileFails, Header, NoHeader, Serve, Crash, ServeFails,
     End, Done, Ready, Execute, ExecuteRsp, Data, DebugFileFails, Switched, host, NextTry
    <3>2. QED
      BY <1>1, <3>1 DEF PlainTypes
  <2>6. early' \in BOOLEAN /\ own' \in BOOLEAN
    <3>1. (\E n : Read(n)) \/ ReadNothing \/ UNCHANGED <<early, own>> =>
             early' \in BOOLEAN /\ own' \in BOOLEAN
      BY DEF Read, ReadNothing, PlainTypes
    <3>2. CASE HelloThere \/ HelloMissing \/ PblRespond \/ PblReady \/ ModeSwitch \/ PblSwitched
               \/ Respond \/ Ready \/ Switched
      BY <3>1, <3>2 DEF HelloThere, HelloMissing, PblRespond, PblReady, ModeSwitch, PblSwitched,
         Respond, Ready, Switched, ModeSwitchRead, PlainTypes
    <3>3. CASE Open \/ FileFails \/ Header \/ NoHeader \/ Serve \/ Crash \/ ServeFails \/ End \/ Done
      BY <3>1, <3>3 DEF Open, FileFails, Header, NoHeader, Serve, Crash, ServeFails, End, Done
    <3>4. CASE Execute \/ ExecuteRsp \/ Data \/ DebugFileFails
      BY <3>1, <3>4 DEF Execute, ExecuteRsp, Data, DebugFileFails, PlainTypes
    <3>5. QED
      BY <1>4, <3>2, <3>3, <3>4 DEF Host
  <2>7. overrun' \in BOOLEAN
    BY OverrunKept DEF PlainTypes, Next
  <2>8. QED
    BY <1>2, <2>1, <2>2, <2>3, <2>4, <2>5, <2>6, <2>7 DEF PlainTypes
<1>5. QED
  BY <1>3, <1>4 DEF Next

LEMMA Asked ==
  ASSUME LoadInv, Serve
  PROVE  pipe[1].cmd \in Reads /\ pipe[1].arg = want /\ 1 \in 1 .. Len(pipe)
<1>1. /\ LoadTypes /\ pc = "request" /\ HostTurn /\ pipe # <<>> /\ pipe \in Seq(Words)
      /\ link # "down"
  BY DEF LoadInv, TurnInv, DeviceTurn, Serve, LoadTypes
<1>2. PICK c \in Reads : RequestAt(-1, c)
  BY <1>1 DEF HostTurn, Request
<1>3. Size[c] \in Nat /\ Size[c] > 2
  BY Sizes DEF Reads
<1>4. 1 \in 1 .. Len(pipe) /\ 1 \in -1 .. -1 + Size[c] - 1
  BY <1>1, <1>3
<1>5. QED
  BY <1>2, <1>3, <1>4 DEF RequestAt

(* What the host sends to be stored.                                       *)
LEMMA Keeps ==
  ASSUME InboxFits, overrun => overrun', inbox' = inbox
  PROVE  InboxFits'
  BY DEF InboxFits

LEMMA ServesFit ==
  ASSUME LoadInv, InboxFits, Serve, overrun => overrun'
  PROVE  InboxFits'
<1>1. LoadTypes /\ inbox \in Seq(Messages)
  BY DEF LoadInv, LoadTypes
<1>2. /\ pipe[1].cmd \in Reads /\ pipe[1].arg = want
      /\ want \in Requested /\ fileSize \in Nat /\ sent \in Nat
  BY <1>1, Asked DEF LoadTypes
<1>3. CASE UNCHANGED inbox
  BY <1>3, Keeps
<1>4. CASE /\ ~TooLarge(pipe) /\ Write("payload", Pieces(Body(pipe)))
           /\ overrun' = (overrun \/ (pipe[1].cmd = "READ_DATA"
                                      /\ Len(Pieces(Body(pipe))) > BufSize))
  <2> DEFINE q == [cmd |-> "payload", arg |-> Pieces(want), n |-> sent + 1]
  <2>1. inbox' = Append(inbox, q)
    BY <1>2, <1>4 DEF Write, Body
  <2>2. Pieces(want) \in Seq(Nat)
    BY <1>1, PiecesTyped
  <2>3. overrun' \/ Len(Pieces(want)) <= BufSize
    <3>1. BufSize \in Nat /\ want.len % Word \in Nat
      BY <1>2, Cut, SaharaAssumption DEF SaharaAssumption
    <3>2. Served(want) \in Nat /\ Len(Pieces(want)) = Served(want) /\ Served(want) <= want.len % Word
      BY <1>2, PiecesAre
    <3>3. CASE pipe[1].cmd = "READ_DATA"
      <4>1. Len(Pieces(want)) > BufSize => overrun'
        <5>1. Body(pipe) = want
          BY <1>2 DEF Body
        <5>2. QED
          BY ONLY <1>4, <3>3, <5>1
      <4>2. QED
        BY <3>1, <3>2, <4>1
    <3>4. CASE pipe[1].cmd = "READ_DATA_64"
      BY <1>2, <1>4, <3>1, <3>2, <3>4 DEF TooLarge
    <3>5. QED
      BY <1>2, <3>3, <3>4 DEF Reads
  <2>4. q \in Messages /\ q.arg = Pieces(want)
    BY <1>2, <2>2 DEF Messages
  <2> HIDE DEF q
  <2>5. ASSUME NEW k \in 1 .. Len(inbox'), inbox'[k].cmd = "payload"
        PROVE  inbox'[k].arg \in Seq(Nat) /\ (overrun' \/ Len(inbox'[k].arg) <= BufSize)
    <3>1. \/ k \in 1 .. Len(inbox) /\ inbox'[k] = inbox[k]
          \/ inbox'[k] = q
      BY <1>1, <2>1, <2>4
    <3>2. CASE inbox'[k] = q
      BY <2>2, <2>3, <2>4, <3>2
    <3>3. CASE k \in 1 .. Len(inbox) /\ inbox'[k] = inbox[k]
      BY <2>5, <3>3 DEF InboxFits
    <3>4. QED
      BY <3>1, <3>2, <3>3
  <2>6. QED
    BY <2>5 DEF InboxFits
<1>5. QED
  BY <1>3, <1>4 DEF Serve

LEMMA SendsFit ==
  ASSUME LoadTypes, InboxFits, op = "load", Host, ~Serve, overrun => overrun'
  PROVE  InboxFits'
<1>1. \/ inbox' = inbox
      \/ \E cmd \in {"HELLO_RSP", "SWITCH_MODE", "DONE_REQ"}, arg \in {"command", "image", "none"} :
           Write(cmd, arg) /\ (cmd = "HELLO_RSP" => arg # "none")
  <2>1. ~(Ready \/ Execute \/ ExecuteRsp \/ Data \/ DebugFileFails \/ Switched)
    BY DEF LoadTypes, Before, After, Ready, Execute, ExecuteRsp, Data, DebugFileFails, Switched
  <2>2. CASE HelloThere \/ HelloMissing \/ PblRespond \/ PblReady \/ ModeSwitch \/ PblSwitched
             \/ Respond
    BY <2>2 DEF HelloThere, HelloMissing, PblRespond, PblReady, ModeSwitch, PblSwitched,
       Respond, WriteFails
  <2>3. CASE Open \/ FileFails \/ Header \/ NoHeader \/ Crash \/ ServeFails \/ End \/ Done
    BY <2>3 DEF Open, FileFails, Header, NoHeader, Crash, ServeFails, End, Done, WriteFails
  <2>4. QED
    BY <2>1, <2>2, <2>3 DEF Host
<1>2. CASE inbox' = inbox
  BY <1>2, Keeps
<1>3. ASSUME NEW cmd \in {"HELLO_RSP", "SWITCH_MODE", "DONE_REQ"},
             NEW arg \in {"command", "image", "none"}, Write(cmd, arg),
             cmd = "HELLO_RSP" => arg # "none"
      PROVE  InboxFits'
  <2> DEFINE q == [cmd |-> cmd, arg |-> arg, n |-> sent + 1]
  <2>1. inbox \in Seq(Messages) /\ sent \in Nat /\ inbox' = Append(inbox, q)
    BY <1>3 DEF Write, LoadTypes
  <2>2. q \in Messages /\ q.cmd # "payload"
    BY <1>3, <2>1 DEF Messages
  <2> HIDE DEF q
  <2>3. ASSUME NEW k \in 1 .. Len(inbox'), inbox'[k].cmd = "payload"
        PROVE  k \in 1 .. Len(inbox) /\ inbox'[k] = inbox[k]
    BY <2>1, <2>2, <2>3
  <2>4. QED
    BY <2>3 DEF InboxFits
<1>4. QED
  BY <1>1, <1>2, <1>3

LEMMA DeviceFits ==
  ASSUME LoadInv, InboxFits, op = "load", Device, overrun => overrun'
  PROVE  InboxFits'
<1>1. LoadTypes
  BY DEF LoadInv
<1>2. inbox' = inbox \/ (inbox # <<>> /\ inbox' = Tail(inbox))
  BY DEF Device, DeviceBoots, DeviceHello, DeviceSwitches, DeviceExecutes, DeviceData,
     DeviceRest, DeviceTakes, DeviceDone, DeviceConfused, Hear
<1>3. CASE inbox' = inbox
  BY <1>3, Keeps
<1>4. CASE inbox # <<>> /\ inbox' = Tail(inbox)
  <2>1. inbox \in Seq(Messages)
    BY <1>1 DEF LoadTypes
  <2>2. \A k \in 1 .. Len(inbox') : k + 1 \in 1 .. Len(inbox) /\ inbox'[k] = inbox[k + 1]
    BY <1>4, <2>1
  <2>3. QED
    BY <2>2 DEF InboxFits
<1>5. QED
  BY <1>2, <1>3, <1>4

(* The commands of the other operations.                                   *)
LEMMA OrderSent ==
  ASSUME inbox \in Seq(Orders), sent \in Nat, NEW cmd, NEW arg,
         Write(cmd, arg) \/ WriteFails,
         \/ cmd = "HELLO_RSP" /\ arg = "command"
         \/ cmd = "SWITCH_MODE" /\ arg = "image"
         \/ cmd \in {"EXECUTE_REQ", "EXECUTE_DATA"} /\ arg \in Names
  PROVE  inbox' \in Seq(Orders)
<1>1. CASE Write(cmd, arg)
  <2> DEFINE q == [cmd |-> cmd, arg |-> arg, n |-> sent + 1]
  <2>1. q \in Orders
    BY DEF Orders
  <2>2. inbox' = Append(inbox, q)
    BY <1>1 DEF Write
  <2> HIDE DEF q
  <2>3. QED
    BY <2>1, <2>2
<1>2. CASE WriteFails
  BY <1>2 DEF WriteFails
<1>3. QED
  BY <1>1, <1>2

LEMMA DumpHost ==
  ASSUME PlainTypes, op # "load", DumpInv, Host
  PROVE  DumpInv'
<1>1. /\ pc \notin After \ {"done"} /\ inbox \in Seq(Orders) /\ sent \in Nat
      /\ command \in 1 .. Len(Commands[op])
  BY DEF DumpInv, PlainTypes
<1>2. /\ Commands[op] \in Seq(Names) /\ Len(Commands[op]) \in Nat \ {0}
  BY Dumped DEF PlainTypes
<1>3. ClientCmd \in Names
  BY <1>1, <1>2 DEF ClientCmd
<1>4. ~(Open \/ FileFails \/ Header \/ NoHeader \/ Serve \/ ServeFails \/ End \/ Done)
  BY <1>1 DEF After, Open, FileFails, Header, NoHeader, Serve, ServeFails, End, Done
<1>5. UNCHANGED <<op, mode, got>>
  BY <1>4 DEF Host, HelloThere, HelloMissing, PblRespond, PblReady, ModeSwitch,
     PblSwitched, Respond, Ready, Execute, ExecuteRsp, Data, DebugFileFails, Switched, Crash,
     call, device
<1>6. CASE HelloThere \/ HelloMissing \/ PblRespond \/ PblReady \/ ModeSwitch \/ PblSwitched
           \/ Respond \/ Ready \/ Switched
  <2>1. pc' \notin After \ {"done"} /\ command' = command
    BY <1>6 DEF HelloThere, HelloMissing, PblRespond, PblReady, ModeSwitch, PblSwitched,
       Respond, Ready, Switched, Go, Stop, SilenceIsGood, After, host
  <2>2. inbox' \in Seq(Orders)
    <3>1. CASE PblRespond \/ Respond
      BY <1>1, <3>1, OrderSent DEF PblRespond, Respond
    <3>2. CASE ModeSwitch
      BY <1>1, <3>2, OrderSent DEF ModeSwitch
    <3>3. CASE HelloThere \/ HelloMissing \/ PblReady \/ PblSwitched \/ Ready \/ Switched
      BY <1>1, <3>3 DEF HelloThere, HelloMissing, PblReady, PblSwitched, Ready, Switched
    <3>4. QED
      BY <1>6, <3>1, <3>2, <3>3
  <2>3. QED
    BY <1>1, <1>5, <2>1, <2>2 DEF DumpInv
<1>7. CASE Execute \/ ExecuteRsp \/ Data \/ DebugFileFails
  <2>1. pc' \notin After \ {"done"} /\ command' \in 1 .. Len(Commands[op])
    <3>1. CASE command' = command
      BY <1>1, <1>7, <3>1 DEF Execute, ExecuteRsp, Data, DebugFileFails, NextCommand, Go, Stop, After
    <3>2. CASE command # Len(Commands[op]) /\ command' = command + 1
      BY <1>1, <1>2, <1>7, <3>2
         DEF Execute, ExecuteRsp, Data, DebugFileFails, NextCommand, Go, Stop, After
    <3>3. QED
      BY <1>7, <3>1, <3>2
         DEF Execute, ExecuteRsp, Data, DebugFileFails, NextCommand, LastCommand, host
  <2>2. inbox' \in Seq(Orders)
    <3>1. CASE Execute
      BY <1>1, <1>3, <3>1, OrderSent DEF Execute
    <3>2. CASE ExecuteRsp
      BY <1>1, <1>3, <3>2, OrderSent DEF ExecuteRsp
    <3>3. CASE Data \/ DebugFileFails
      BY <1>1, <3>3 DEF Data, DebugFileFails
    <3>4. QED
      BY <1>7, <3>1, <3>2, <3>3
  <2>3. QED
    BY <1>5, <2>1, <2>2 DEF DumpInv
<1>8. CASE Crash
  <2>1. pc' = "done" /\ command' = command /\ inbox' = inbox
    BY <1>8 DEF Crash, Stop, host
  <2>2. QED
    BY <1>1, <1>5, <2>1 DEF DumpInv
<1>9. QED
  BY <1>4, <1>6, <1>7, <1>8 DEF Host

LEMMA DumpDevice ==
  ASSUME PlainTypes, op # "load", DumpInv, Device
  PROVE  DumpInv'
<1>1. /\ inbox \in Seq(Orders) /\ mode \in {"boot", "hello", "ready"}
      /\ UNCHANGED <<op, pc, command>>
  BY DEF DumpInv, Device, DeviceBoots, DeviceHello, DeviceSwitches, DeviceExecutes, DeviceData,
     DeviceRest, DeviceTakes, DeviceDone, DeviceConfused, untouched, call, host
<1>2. inbox # <<>> => message \in Orders /\ Tail(inbox) \in Seq(Orders)
  BY <1>1 DEF message
<1>3. inbox' = inbox \/ (inbox # <<>> /\ inbox' = Tail(inbox))
  BY DEF Device, DeviceBoots, DeviceHello, DeviceSwitches, DeviceExecutes, DeviceData,
     DeviceRest, DeviceTakes, DeviceDone, DeviceConfused, Hear
<1>4. ~DeviceTakes /\ ~DeviceDone
  BY <1>1 DEF DeviceTakes, DeviceDone
<1>5. DeviceHello => message.arg = "command"
  BY <1>2 DEF DeviceHello, Hear, Orders
<1>6. got' = got /\ mode' \in {"boot", "hello", "ready"}
  BY <1>1, <1>4, <1>5 DEF Device, DeviceBoots, DeviceHello, DeviceSwitches, DeviceExecutes,
     DeviceData, DeviceRest, DeviceConfused
<1>7. QED
  BY <1>1, <1>2, <1>3, <1>6 DEF DumpInv

LEMMA TypeNext == TypeInv /\ [Next]_vars => TypeInv'
<1> SUFFICES ASSUME TypeInv, [Next]_vars PROVE TypeInv'
  OBVIOUS
<1>1. PlainTypes' /\ op' = op
  <2>1. PlainTypes'
    BY PlainKept DEF TypeInv
  <2>2. op' = op
    BY DEF Next, vars, call, Host, HelloThere, HelloMissing, PblRespond, PblReady, ModeSwitch,
     PblSwitched, Respond, Open, FileFails, Header, NoHeader, Serve, Crash, ServeFails, End, Done,
     Ready, Execute, ExecuteRsp, Data, DebugFileFails, Switched, Device, untouched,
     DeviceBoots, DeviceHello, DeviceSwitches, DeviceExecutes, DeviceData, DeviceRest,
     DeviceTakes, DeviceDone, DeviceConfused, LinkDown
  <2>3. QED
    BY <2>1, <2>2
<1>2. CASE op = "load"
  <2>1. LoadInv /\ LoadTypes /\ InboxFits /\ (overrun => overrun')
    BY <1>2, OverrunKept DEF TypeInv, LoadInv, PlainTypes
  <2>2. LoadInv'
    BY <1>1, <1>2, <2>1, NextLoad DEF IInv
  <2>3. CASE Host
    <3>1. InboxFits'
      BY <1>2, <2>1, <2>3, ServesFit, SendsFit
    <3>2. QED
      BY <1>1, <1>2, <2>2, <3>1 DEF TypeInv
  <2>4. CASE Device
    <3>1. InboxFits'
      BY <1>2, <2>1, <2>4, DeviceFits
    <3>2. QED
      BY <1>1, <1>2, <2>2, <3>1 DEF TypeInv
  <2>5. CASE LinkDown \/ UNCHANGED vars
    <3>1. inbox' = <<>> \/ inbox' = inbox
      BY <2>5 DEF LinkDown, vars
    <3>2. InboxFits'
      <4>1. CASE inbox' = <<>>
        BY <4>1 DEF InboxFits
      <4>2. CASE inbox' = inbox
        BY <2>1, <4>2, Keeps
      <4>3. QED
        BY <3>1, <4>1, <4>2
    <3>3. QED
      BY <1>1, <1>2, <2>2, <3>2 DEF TypeInv
  <2>6. QED
    BY <2>3, <2>4, <2>5 DEF Next
<1>3. CASE op # "load"
  <2>1. PlainTypes /\ DumpInv
    BY <1>3 DEF TypeInv
  <2>2. DumpInv'
    <3>1. CASE Host
      BY <1>3, <2>1, <3>1, DumpHost
    <3>2. CASE Device
      BY <1>3, <2>1, <3>2, DumpDevice
    <3>3. CASE LinkDown \/ UNCHANGED vars
      <4>1. /\ UNCHANGED <<pc, mode, command, op, got>>
            /\ inbox' = inbox \/ inbox' = <<>>
        BY <3>3 DEF LinkDown, vars, call, host, device
      <4>2. inbox' \in Seq(Orders)
        <5>1. inbox \in Seq(Orders) /\ <<>> \in Seq(Orders)
          BY <2>1 DEF DumpInv
        <5>2. QED
          BY <4>1, <5>1
      <4>3. QED
        BY <2>1, <4>1, <4>2 DEF DumpInv
    <3>4. QED
      BY <3>1, <3>2, <3>3 DEF Next
  <2>3. QED
    BY <1>1, <1>3, <2>2 DEF TypeInv
<1>4. QED
  BY <1>2, <1>3

(* TypeOK: the header loop stays within its tries, and a payload is larger *)
(* than dataBuf only by the work of 32-bit requests, whose lengths         *)
(* LoadFlashProg does not check; the check of 64-bit ones suffices,        *)
(* although it looks at the 32 bits that are left of a length.             *)
THEOREM Typed == Spec => []TypeOK
<1>1. TypeInv => TypeOK
  <2> SUFFICES ASSUME TypeInv PROVE TypeOK
    OBVIOUS
  <2>1. PlainTypes /\ ImageSize \in Nat /\ BufSize \in Nat
    BY SaharaAssumption DEF TypeInv, SaharaAssumption
  <2>2. CASE op = "load"
    <3>1. got \in [1 .. ImageSize -> 0 .. ImageSize]
      <4>1. got \in [1 .. ImageSize -> Nat] /\ \A k \in 1 .. ImageSize : got[k] \in {0, k}
        BY <2>2 DEF TypeInv, LoadInv, LoadTypes, ImageInv
      <4>2. \A k \in 1 .. ImageSize : got[k] \in 0 .. ImageSize
        BY <2>1, <4>1
      <4>3. QED
        BY <4>1, <4>2
    <3>2. \A k \in DOMAIN inbox :
            inbox[k].cmd = "payload" => overrun \/ Len(inbox[k].arg) \in 0 .. BufSize
      <4>1. inbox \in Seq(Messages) /\ InboxFits
        BY <2>2 DEF TypeInv, LoadInv, LoadTypes
      <4>2. ASSUME NEW k \in DOMAIN inbox, inbox[k].cmd = "payload"
            PROVE  overrun \/ Len(inbox[k].arg) \in 0 .. BufSize
        <5>1. inbox[k].arg \in Seq(Nat) /\ (overrun \/ Len(inbox[k].arg) <= BufSize)
          BY <4>1, <4>2 DEF InboxFits
        <5>2. QED
          BY <2>1, <5>1
      <4>3. QED
        BY <4>2
    <3>3. QED
      BY <2>1, <3>1, <3>2 DEF TypeOK, PlainTypes
  <2>3. CASE op # "load"
    <3>1. inbox \in Seq(Orders) /\ got = [k \in 1 .. ImageSize |-> 0]
      BY <2>3 DEF TypeInv, DumpInv
    <3>2. got \in [1 .. ImageSize -> 0 .. ImageSize]
      BY <2>1, <3>1
    <3>3. \A k \in DOMAIN inbox : inbox[k].cmd # "payload"
      BY <3>1 DEF Orders
    <3>4. QED
      BY <2>1, <3>2, <3>3 DEF TypeOK, PlainTypes
  <2>4. QED
    BY <2>2, <2>3
<1>2. QED
  BY <1>1, TypeInit, TypeNext, PTL DEF Spec

-----------------------------------------------------------------------------
(* The other invariant: unless a read came too early, host and device are  *)
(* in step at every point of every operation.  The device has heard what   *)
(* the host sent last, or is about to, and its answer is all there is in   *)
(* the pipe.                                                               *)
(* What the host finds of the answer to what it sent last: the words of a  *)
(* packet, without the first n, which it has read.                         *)
Left(cmd, arg, to, n) ==
  [j \in 1 .. Size[cmd] - n |-> [cmd |-> cmd, k |-> j + n, arg |-> arg, to |-> to]]

Parts(cmd, arg, to) == {[cmd |-> cmd, k |-> k, arg |-> arg, to |-> to] : k \in Nat}

Quiet == inbox = <<>> /\ rest = <<>> /\ pipe = <<>>
Prompted(cmd, arg) ==
  inbox = <<[cmd |-> cmd, arg |-> arg, n |-> sent]>> /\ rest = <<>> /\ pipe = <<>>
Answered(cmd, arg, n) == inbox = <<>> /\ rest = <<>> /\ pipe = Left(cmd, arg, sent, n)

(* What the device has of the data asked for, or has sent of it.           *)
DataSent ==
  /\ inbox = <<>> /\ (rest = <<>> \/ rest = Left("DATA", ClientCmd, sent, 0))
  /\ \/ pipe = Left("DATA", ClientCmd, sent, 0)
     \/ /\ rest = <<>>
        /\ pipe = Left("DATA", ClientCmd, sent, 0) \o Left("DATA", ClientCmd, sent, 0)

Points == {"hello", "pbl", "pblReady", "pblSwitch", "pblSwitched", "respond", "open",
           "header", "request", "end", "doneRsp", "ready", "execute", "executeRsp", "data",
           "switch", "switched"}

(* Host and device in step, point by point.                                *)
InStep ==
  /\ pc \in Points
  /\ pc \notin {"hello", "pbl", "pblReady"} => ~loses
  /\ pc = "hello" =>
       sent = 0 /\ ((mode \in {"boot", "hello"} /\ Quiet)
                    \/ (mode = "hello" /\ ~loses /\ Answered("HELLO_REQ", "none", 0)))
  /\ pc = "pbl" => mode = "hello" /\ Quiet
  /\ pc = "pblReady" =>
       \/ mode = "hello" /\ Prompted("HELLO_RSP", "command")
       \/ mode = "ready" /\ ~loses /\ (Quiet \/ Answered("CMD_READY", "none", 0))
  /\ pc \in {"pblSwitch", "switch", "execute"} => mode = "ready" /\ Quiet
  /\ pc \in {"pblSwitched", "switched"} =>
       \/ mode = "ready" /\ Prompted("SWITCH_MODE", "image")
       \/ mode = "hello" /\ Answered("HELLO_REQ", "none", 0)
  /\ pc = "respond" => mode = "hello" /\ Quiet
  /\ pc = "ready" =>
       \/ mode = "hello" /\ Prompted("HELLO_RSP", "command")
       \/ mode = "ready" /\ Answered("CMD_READY", "none", 0)
  /\ pc = "executeRsp" =>
       mode = "ready" /\ (\/ Prompted("EXECUTE_REQ", ClientCmd)
                          \/ \E length \in {"nothing", "some"} :
                               Answered("EXECUTE_RSP", length, 0))
  /\ pc = "data" => mode = "ready" /\ (Prompted("EXECUTE_DATA", ClientCmd) \/ DataSent)
  /\ pc \in {"open", "header"} =>
       \/ mode = "hello" /\ Prompted("HELLO_RSP", "image")
       \/ mode = "image" /\ (Quiet \/ \E a : Prompted("payload", a))
       \/ mode = "image" /\ \E c \in Reads : Answered(c, want, 0)
       \/ mode = "end" /\ Answered("END_TRANSFER", "SUCCESS", 0)
       \/ mode = "failed" /\ Answered("END_TRANSFER", "FAILED", 0)
  /\ pc = "request" => mode = "image" /\ \E c \in Reads : Answered(c, want, 2)
  /\ pc = "end" =>
       \/ mode = "end" /\ Answered("END_TRANSFER", "SUCCESS", 2)
       \/ mode = "failed" /\ Answered("END_TRANSFER", "FAILED", 2)
  /\ pc = "doneRsp" =>
       \/ mode = "end" /\ Prompted("DONE_REQ", "none")
       \/ mode = "done" /\ Answered("DONE_RSP", "none", 0)

(* Unless a read came too early.                                           *)
Unconnected == {"INVALID_HANDLE", "WRITE_FAULT", "INVALID_PARAMETER"}
Lock ==
  /\ own /\ sent \in Nat /\ link \in {"up", "down"}
  /\ info = [c \in DOMAIN info |-> info[c]]
  /\ \A c \in DOMAIN info : info[c] \in {"none", Commands[op][c]}
  /\ link = "down" => pipe = <<>>
  /\ link = "up" => IF pc = "done" THEN status \notin Unconnected ELSE InStep

LockInv == ~early => Lock

LEMMA LeftIs ==
  ASSUME NEW c \in DOMAIN Size, NEW a, NEW t, NEW n \in {0, 2}
  PROVE  /\ Size[c] \in Nat /\ Size[c] > 1 /\ Size[c] <= 12
         /\ Left(c, a, t, n) \in Seq(Parts(c, a, t))
         /\ Len(Left(c, a, t, n)) = Size[c] - n
         /\ \A j \in 1 .. Size[c] - n :
              Left(c, a, t, n)[j] = [cmd |-> c, k |-> j + n, arg |-> a, to |-> t]
<1>1. Size[c] \in Nat /\ Size[c] > 1 /\ Size[c] <= 12
  BY DEF Size
<1> PICK m \in Nat : m = Size[c] - n
  BY <1>1
<1> DEFINE s == [j \in 1 .. m |-> [cmd |-> c, k |-> j + n, arg |-> a, to |-> t]]
<1>2. Left(c, a, t, n) = s
  BY DEF Left
<1>3. s \in Seq(Parts(c, a, t))
  <2>1. \A j \in 1 .. m : [cmd |-> c, k |-> j + n, arg |-> a, to |-> t] \in Parts(c, a, t)
    BY DEF Parts
  <2>2. QED
    BY <2>1
<1>4. Len(s) = m /\ \A j \in 1 .. m : s[j] = [cmd |-> c, k |-> j + n, arg |-> a, to |-> t]
  OBVIOUS
<1> HIDE DEF s
<1>5. QED
  BY <1>1, <1>2, <1>3, <1>4

LEMMA WholeIs ==
  ASSUME NEW c \in DOMAIN Size, NEW a, NEW t
  PROVE  /\ Size[c] \in Nat /\ Size[c] > 1
         /\ Left(c, a, t, 0) \in Seq(Parts(c, a, t)) /\ Len(Left(c, a, t, 0)) = Size[c]
         /\ \A j \in 1 .. Size[c] :
              Left(c, a, t, 0)[j] = [cmd |-> c, k |-> j, arg |-> a, to |-> t]
<1>1. /\ Size[c] \in Nat /\ Size[c] > 1
      /\ Left(c, a, t, 0) \in Seq(Parts(c, a, t)) /\ Len(Left(c, a, t, 0)) = Size[c] - 0
  BY LeftIs
<1>2. ASSUME NEW j \in 1 .. Size[c]
      PROVE  Left(c, a, t, 0)[j] = [cmd |-> c, k |-> j, arg |-> a, to |-> t]
  <2>1. j \in 1 .. Size[c] - 0 /\ j + 0 = j
    BY <1>1
  <2>2. Left(c, a, t, 0)[j] = [cmd |-> c, k |-> j + 0, arg |-> a, to |-> t]
    BY <2>1, LeftIs
  <2>3. QED
    BY <2>1, <2>2
<1>3. Size[c] - 0 = Size[c]
  BY <1>1
<1>4. QED
  BY <1>1, <1>2, <1>3

LEMMA Begins ==
  ASSUME NEW c \in DOMAIN Size, NEW a, NEW t
  PROVE  /\ Left(c, a, t, 0) # <<>> /\ CmdOf(Left(c, a, t, 0)) = c
         /\ Left(c, a, t, 0)[1].arg = a /\ Left(c, a, t, 0)[1].cmd = c
<1>1. Size[c] \in Nat /\ Size[c] > 1 /\ Len(Left(c, a, t, 0)) = Size[c]
  BY WholeIs
<1>2. 1 \in 1 .. Size[c]
  BY <1>1
<1>3. Left(c, a, t, 0)[1] = [cmd |-> c, k |-> 1, arg |-> a, to |-> t]
  BY <1>2, WholeIs
<1>4. Left(c, a, t, 0) # <<>>
  BY <1>1
<1>5. QED
  BY <1>3, <1>4 DEF CmdOf

(* The words left of a packet are all read; ...                            *)
LEMMA ReadsAll ==
  ASSUME NEW c \in DOMAIN Size, NEW a, NEW n \in {0, 2}, NEW m \in Nat,
         pipe = Left(c, a, sent, n), Size[c] - n <= m, Read(m), own
  PROVE  pipe' = <<>> /\ own' /\ early' = early /\ Taken(m) = pipe
<1> PICK size \in Nat : size = Len(pipe)
  BY LeftIs
<1>0. size = Size[c] - n /\ pipe \in Seq(Parts(c, a, sent))
  BY LeftIs
<1>1. /\ pipe \in Seq(Parts(c, a, sent))
      /\ size <= m /\ \A j \in 1 .. size : pipe[j].to = sent
  <2>1. size <= m
    BY <1>0
  <2>2. ASSUME NEW j \in 1 .. size PROVE pipe[j].to = sent
    <3>1. pipe[j] = [cmd |-> c, k |-> j + n, arg |-> a, to |-> sent]
      BY <1>0, LeftIs
    <3>2. QED
      BY <3>1
  <2>3. QED
    BY <1>0, <2>1, <2>2
<1>2. SubSeq(pipe, 1, size) = pipe
  BY <1>1
<1>3. Smaller(m, size) = size
  BY <1>1 DEF Smaller
<1>4. Taken(m) = pipe
  BY <1>2, <1>3 DEF Taken
<1>5. pipe' = <<>>
  BY <1>1 DEF Read
<1>6. \A k \in DOMAIN Taken(m) : Taken(m)[k].to = sent
  BY <1>1, <1>4
<1>7. QED
  BY <1>4, <1>5, <1>6 DEF Read

(* ... a header is two of them.                                            *)
LEMMA ReadsHeader ==
  ASSUME NEW c \in DOMAIN Size, NEW a, pipe = Left(c, a, sent, 0), Size[c] > 2, Read(2),
         own
  PROVE  /\ pipe' = Left(c, a, sent, 2) /\ own' /\ early' = early
         /\ CmdOf(Taken(2)) = c
<1> PICK size \in Nat : size = Len(pipe)
  BY WholeIs
<1>1. /\ pipe \in Seq(Parts(c, a, sent)) /\ size > 2 /\ size = Size[c]
      /\ \A j \in 1 .. size : pipe[j] = [cmd |-> c, k |-> j, arg |-> a, to |-> sent]
  BY WholeIs
<1>2. Smaller(2, size) = 2
  BY <1>1 DEF Smaller
<1>3. /\ Len(SubSeq(pipe, 1, 2)) = 2
      /\ \A j \in 1 .. 2 : SubSeq(pipe, 1, 2)[j] = pipe[j]
  BY <1>1
<1>4. Taken(2) = SubSeq(pipe, 1, 2) /\ DOMAIN Taken(2) = 1 .. 2
  <2>1. SubSeq(pipe, 1, 2) \in Seq(Parts(c, a, sent))
    BY <1>1
  <2>2. Taken(2) = SubSeq(pipe, 1, 2)
    BY <1>2 DEF Taken
  <2>3. QED
    BY <1>3, <2>1, <2>2
<1>5. CmdOf(Taken(2)) = c
  <2>1. Taken(2) # <<>>
    BY <1>4
  <2>2. Taken(2)[1] = pipe[1] /\ pipe[1] = [cmd |-> c, k |-> 1, arg |-> a, to |-> sent]
    BY <1>1, <1>3, <1>4
  <2>3. QED
    BY <2>1, <2>2 DEF CmdOf
<1>6. own' /\ early' = early
  <2>1. ASSUME NEW k \in 1 .. 2 PROVE Taken(2)[k].to = sent
    <3>1. Taken(2)[k] = pipe[k] /\ k \in 1 .. size
      BY <1>1, <1>3, <1>4
    <3>2. pipe[k] = [cmd |-> c, k |-> k, arg |-> a, to |-> sent]
      BY <1>1, <3>1
    <3>3. QED
      BY <3>1, <3>2
  <2>2. QED
    BY <1>4, <2>1 DEF Read
<1>7. pipe' = Left(c, a, sent, 2)
  <2>1. pipe' = SubSeq(pipe, 2 + 1, size)
    BY DEF Read
  <2>2. pipe' = [j \in 1 .. size - 2 |-> pipe[j + 2]]
    BY <1>1, <2>1
  <2>3. \A j \in 1 .. size - 2 :
          pipe[j + 2] = [cmd |-> c, k |-> j + 2, arg |-> a, to |-> sent]
    BY <1>1
  <2>4. QED
    BY <1>1, <2>2, <2>3 DEF Left
<1>8. QED
  BY <1>5, <1>6, <1>7

(* Nothing is read only when nothing is due.                               *)
LEMMA ReadsNothing ==
  ASSUME ReadNothing, ~early'
  PROVE  /\ ~early /\ pipe = <<>> /\ pipe' = <<>> /\ own' = own
         /\ link = "up" => inbox = <<>> /\ rest = <<>> /\ mode # "boot"
  BY DEF ReadNothing, Due

(* The device answers.                                                     *)
LEMMA PacketIs ==
  ASSUME NEW c \in DOMAIN Size, NEW a, NEW t
  PROVE  /\ Packet(c, a, t) = Left(c, a, t, 0)
         /\ <<>> \o Left(c, a, t, 0) = Left(c, a, t, 0)
<1>1. Packet(c, a, t) = Left(c, a, t, 0)
  <2>1. Size[c] \in Nat
    BY LeftIs
  <2>2. Size[c] - 0 = Size[c] /\ \A j \in 1 .. Size[c] : j + 0 = j
    BY <2>1
  <2>3. QED
    BY <2>2 DEF Packet, Left
<1>2. <<>> \o Left(c, a, t, 0) = Left(c, a, t, 0)
  <2>1. Left(c, a, t, 0) \in Seq(Parts(c, a, t))
    BY LeftIs
  <2>2. QED
    BY <2>1
<1>3. QED
  BY <1>1, <1>2

LEMMA SaysLeft ==
  ASSUME NEW c \in DOMAIN Size, NEW a, NEW t, Say(c, a, t), pipe = <<>>
  PROVE  /\ ~loses' /\ pipe' \in {<<>>, Left(c, a, t, 0)}
         /\ ~loses => pipe' = Left(c, a, t, 0)
  BY PacketIs DEF Say

LEMMA Stays ==
  ASSUME Lock, own', sent' \in Nat, link = "up", UNCHANGED <<op, link, info>>,
         IF pc' = "done" THEN status' \notin Unconnected ELSE InStep'
  PROVE  Lock'
  BY DEF Lock

LEMMA DownKeeps ==
  ASSUME Lock, Host, link = "down"
  PROVE  Lock'
<1>1. pipe = <<>> /\ \A n : ~Read(n)
  BY DEF Lock, Read
<1>2. /\ UNCHANGED <<op, link, info, own>> /\ pipe' = <<>> /\ sent' = sent
  <2>1. CASE HelloThere \/ HelloMissing \/ PblRespond \/ PblReady \/ ModeSwitch \/ PblSwitched
             \/ Respond \/ Ready \/ Switched
    BY <1>1, <2>1 DEF HelloThere, HelloMissing, PblRespond, PblReady, ModeSwitch, PblSwitched,
       Respond, Ready, Switched, ModeSwitchRead, ReadNothing, WriteFails, Write, call, host, device
  <2>2. CASE Open \/ FileFails \/ Header \/ NoHeader \/ Serve \/ Crash \/ ServeFails \/ End \/ Done
    BY <1>1, <2>2 DEF Open, FileFails, Header, NoHeader, Serve, Crash, ServeFails, End, Done,
       ReadNothing, WriteFails, Write, call, host, device
  <2>3. CASE Execute \/ ExecuteRsp \/ Data \/ DebugFileFails
    BY <1>1, <2>3 DEF Execute, ExecuteRsp, Data, DebugFileFails, ReadNothing, WriteFails, Write,
       call, host, device
  <2>4. QED
    BY <2>1, <2>2, <2>3 DEF Host
<1>3. QED
  BY <1>2 DEF Lock

(* The connection.                                                         *)
LEMMA ConnectsInStep ==
  ASSUME Lock, link = "up", ~early', HelloThere \/ HelloMissing \/ PblRespond \/ PblReady
  PROVE  Lock'
<1>1. own /\ sent \in Nat /\ (pc # "done" => InStep)
  BY DEF Lock
<1>2. CASE HelloThere
  <2>1. /\ pc = "hello" /\ pc' = "respond" /\ Read(12)
        /\ UNCHANGED <<op, link, info, sent, inbox, rest, mode, loses>>
    BY <1>2 DEF HelloThere, Go, call, host, device
  <2>2. mode = "hello" /\ ~loses /\ Answered("HELLO_REQ", "none", 0)
    BY <1>1, <2>1 DEF InStep, Quiet, Read
  <2>3. pipe' = <<>> /\ own'
    BY <1>1, <2>1, <2>2, ReadsAll DEF Size, Answered
  <2>4. InStep'
    BY <2>1, <2>2, <2>3 DEF InStep, Points, Quiet, Answered
  <2>5. QED
    BY <1>1, <2>1, <2>3, <2>4, Stays
<1>3. CASE HelloMissing
  <2>1. /\ pc = "hello" /\ pc' = "pbl" /\ CmdOf(Taken(12)) # "HELLO_REQ" /\ pipe' = <<>>
        /\ early' = (early \/ (pipe = <<>> /\ Due))
        /\ UNCHANGED <<op, link, info, sent, inbox, rest, mode, loses, own>>
    BY <1>3 DEF HelloMissing, Go, call, host, device
  <2>2. Taken(12) = pipe \/ pipe = <<>>
    <3>1. CASE Answered("HELLO_REQ", "none", 0)
      <4>1. /\ pipe \in Seq(Parts("HELLO_REQ", "none", sent)) /\ Len(pipe) = 12
        <5>1. "HELLO_REQ" \in DOMAIN Size /\ Size["HELLO_REQ"] = 12
          BY DEF Size
        <5>2. pipe = Left("HELLO_REQ", "none", sent, 0)
          BY <3>1 DEF Answered
        <5>3. /\ Left("HELLO_REQ", "none", sent, 0) \in Seq(Parts("HELLO_REQ", "none", sent))
              /\ Len(Left("HELLO_REQ", "none", sent, 0)) = Size["HELLO_REQ"]
          BY <5>1, WholeIs
        <5>4. QED
          BY <5>1, <5>2, <5>3
      <4>2. SubSeq(pipe, 1, 12) = pipe
        BY <4>1
      <4>3. QED
        BY <4>1, <4>2 DEF Taken, Smaller
    <3>2. QED
      BY <1>1, <2>1, <3>1 DEF InStep, Quiet
  <2>3. ~Answered("HELLO_REQ", "none", 0)
    <3>1. ASSUME Answered("HELLO_REQ", "none", 0) PROVE FALSE
      <4>1. pipe # <<>> /\ CmdOf(pipe) = "HELLO_REQ"
        BY <3>1, Begins DEF Answered, Size
      <4>2. QED
        BY <2>1, <2>2, <4>1
    <3>2. QED
      BY <3>1
  <2>4. Quiet /\ mode \in {"boot", "hello"}
    BY <1>1, <2>1, <2>3 DEF InStep
  <2>5. mode = "hello"
    BY <2>1, <2>4 DEF Due, Quiet
  <2>6. InStep'
    BY <2>1, <2>4, <2>5 DEF InStep, Points, Quiet
  <2>7. QED
    BY <1>1, <2>1, <2>6, Stays
<1>4. CASE PblRespond
  <2>1. /\ pc = "pbl" /\ pc' = "pblReady" /\ pipe' = <<>> /\ Write("HELLO_RSP", "command")
        /\ UNCHANGED <<op, link, info, rest, mode, loses, own>>
    BY <1>4 DEF PblRespond, Go, WriteFails, call, host, device
  <2>2. mode = "hello" /\ Quiet
    BY <1>1, <2>1 DEF InStep
  <2>3. sent' = sent + 1 /\ inbox' = <<[cmd |-> "HELLO_RSP", arg |-> "command", n |-> sent']>>
    BY <2>1, <2>2 DEF Write, Quiet
  <2>4. InStep'
    BY <2>1, <2>2, <2>3 DEF InStep, Points, Quiet, Prompted
  <2>5. QED
    BY <1>1, <2>1, <2>3, <2>4, Stays
<1>5. CASE PblReady
  <2>1. /\ pc = "pblReady" /\ UNCHANGED <<op, link, info, sent, inbox, rest, mode, loses>>
    BY <1>5 DEF PblReady, call, host, device
  <2>2. \/ mode = "hello" /\ Prompted("HELLO_RSP", "command")
        \/ mode = "ready" /\ ~loses /\ (Quiet \/ Answered("CMD_READY", "none", 0))
    BY <1>1, <2>1 DEF InStep
  <2>3. CASE ReadNothing /\ pc' = "pblSwitch"
    <3>1. inbox = <<>> /\ pipe' = <<>> /\ own' /\ pipe = <<>>
      BY <1>1, <2>3, ReadsNothing
    <3>2. mode = "ready" /\ ~loses /\ rest = <<>>
      BY <2>2, <3>1 DEF Prompted, Quiet, Answered
    <3>3. InStep'
      BY <2>1, <2>3, <3>1, <3>2 DEF InStep, Points, Quiet
    <3>4. QED
      BY <1>1, <2>1, <2>3, <3>1, <3>3, Stays
  <2>4. CASE Read(4)
    <3>1. mode = "ready" /\ ~loses /\ Answered("CMD_READY", "none", 0)
      BY <2>2, <2>4 DEF Read, Prompted, Quiet
    <3>2. pipe' = <<>> /\ own' /\ Taken(4) = pipe
      BY <1>1, <2>4, <3>1, ReadsAll DEF Size, Answered
    <3>3. CmdOf(Taken(4)) = "CMD_READY"
      BY <3>1, <3>2, Begins DEF Answered, Size
    <3>4. pc' = "pblSwitch"
      <4>1. ~ReadNothing
        BY <2>4 DEF Read, ReadNothing
      <4>2. QED
        BY <1>5, <3>3, <4>1 DEF PblReady, ReadyExpected, Go
    <3>5. InStep'
      BY <2>1, <3>1, <3>2, <3>4 DEF InStep, Points, Quiet, Answered
    <3>6. QED
      BY <1>1, <2>1, <3>2, <3>4, <3>5, Stays
  <2>5. QED
    BY <1>5, <2>3, <2>4 DEF PblReady, SilenceIsGood, Go
<1>6. QED
  BY <1>2, <1>3, <1>4, <1>5

LEMMA SwitchesInStep ==
  ASSUME Lock, link = "up", ~early', ModeSwitch \/ PblSwitched \/ Respond \/ Switched
  PROVE  Lock'
<1>1. own /\ sent \in Nat /\ (pc # "done" => InStep)
  BY DEF Lock
<1>2. CASE ModeSwitch
  <2>1. /\ pc \in {"pblSwitch", "switch"} /\ Write("SWITCH_MODE", "image")
        /\ pc' = IF pc = "switch" THEN "switched" ELSE "pblSwitched"
        /\ UNCHANGED <<op, link, info, pipe, rest, mode, loses, own>>
    BY <1>2 DEF ModeSwitch, Go, WriteFails, call, host, device
  <2>2. mode = "ready" /\ Quiet /\ ~loses
    BY <1>1, <2>1 DEF InStep
  <2>3. sent' = sent + 1 /\ inbox' = <<[cmd |-> "SWITCH_MODE", arg |-> "image", n |-> sent']>>
    BY <2>1, <2>2 DEF Write, Quiet
  <2>4. InStep'
    BY <2>1, <2>2, <2>3 DEF InStep, Points, Quiet, Prompted
  <2>5. QED
    BY <1>1, <2>1, <2>3, <2>4, Stays
<1>3. CASE PblSwitched
  <2>1. /\ pc = "pblSwitched" /\ ModeSwitchRead /\ pc' = "respond"
        /\ UNCHANGED <<op, link, info, sent, inbox, rest, mode, loses>>
    BY <1>3 DEF PblSwitched, Go, call, host, device
  <2>2. /\ ~loses
        /\ \/ mode = "ready" /\ Prompted("SWITCH_MODE", "image")
           \/ mode = "hello" /\ Answered("HELLO_REQ", "none", 0)
    BY <1>1, <2>1 DEF InStep
  <2>3. mode = "hello" /\ Answered("HELLO_REQ", "none", 0)
    <3>1. ASSUME Prompted("SWITCH_MODE", "image") PROVE FALSE
      <4>1. pipe = <<>> /\ inbox # <<>>
        BY <3>1 DEF Prompted
      <4>2. ReadNothing
        BY <2>1, <4>1 DEF ModeSwitchRead, Read
      <4>3. QED
        BY <4>1, <4>2, ReadsNothing
    <3>2. QED
      BY <2>2, <3>1
  <2>4. pipe' = <<>> /\ own'
    <3>1. Read(64)
      BY <2>1, <2>3, Begins DEF ModeSwitchRead, ReadNothing, Answered, Size
    <3>2. QED
      BY <1>1, <2>3, <3>1, ReadsAll DEF Size, Answered
  <2>5. InStep'
    BY <2>1, <2>2, <2>3, <2>4 DEF InStep, Points, Quiet, Answered
  <2>6. QED
    BY <1>1, <2>1, <2>4, <2>5, Stays
<1>4. CASE Respond
  <2>1. PICK arg \in {"image", "command"} :
          /\ Write("HELLO_RSP", arg) /\ pc' = IF arg = "image" THEN "open" ELSE "ready"
    BY <1>4 DEF Respond, Go, WriteFails
  <2>2. /\ pc = "respond" /\ UNCHANGED <<op, link, info, pipe, rest, mode, loses, own>>
    BY <1>4 DEF Respond, call, host, device
  <2>3. mode = "hello" /\ Quiet /\ ~loses
    BY <1>1, <2>2 DEF InStep
  <2>4. sent' = sent + 1 /\ inbox' = <<[cmd |-> "HELLO_RSP", arg |-> arg, n |-> sent']>>
    BY <2>1, <2>3 DEF Write, Quiet
  <2>5. InStep'
    BY <2>1, <2>2, <2>3, <2>4 DEF InStep, Points, Quiet, Prompted
  <2>6. QED
    BY <1>1, <2>1, <2>2, <2>4, <2>5, Stays
<1>5. CASE Switched
  <2>1. /\ pc = "switched" /\ ModeSwitchRead /\ pc' = "done" /\ status' = "SUCCESS"
        /\ UNCHANGED <<op, link, info, sent, inbox, rest, mode, loses>>
    BY <1>5 DEF Switched, Stop, call, host, device
  <2>2. \/ mode = "ready" /\ Prompted("SWITCH_MODE", "image")
        \/ mode = "hello" /\ Answered("HELLO_REQ", "none", 0)
    BY <1>1, <2>1 DEF InStep
  <2>3. own'
    <3>1. CASE ReadNothing
      BY <1>1, <3>1 DEF ReadNothing
    <3>2. CASE Read(64)
      <4>1. Answered("HELLO_REQ", "none", 0)
        BY <2>2, <3>2 DEF Prompted, Read
      <4>2. QED
        BY <1>1, <3>2, <4>1, ReadsAll DEF Size, Answered
    <3>3. QED
      BY <2>1, <3>1, <3>2 DEF ModeSwitchRead
  <2>4. QED
    BY <1>1, <2>1, <2>3, Stays DEF Unconnected
<1>6. QED
  BY <1>2, <1>3, <1>4, <1>5

(* The image.                                                              *)
LEMMA HeaderInStep ==
  ASSUME Lock, link = "up", ~early', Open \/ FileFails \/ Header \/ NoHeader \/ Crash
  PROVE  Lock'
<1>1. own /\ sent \in Nat /\ (pc # "done" => InStep)
  BY DEF Lock
<1>2. CASE Open
  <2>1. /\ pc = "open" /\ pc' = "header"
        /\ UNCHANGED <<op, link, info, sent, pipe, inbox, rest, mode, loses, own, want>>
    BY <1>2 DEF Open, Go, call, host, device
  <2>2. InStep'
    BY <1>1, <2>1 DEF InStep, Points, Quiet, Prompted, Answered
  <2>3. QED
    BY <1>1, <2>1, <2>2, Stays
<1>3. CASE FileFails \/ Crash
  <2>1. /\ pc' = "done" /\ status' \in {"FILE_ERROR", "CRASHED"}
        /\ UNCHANGED <<op, link, info, sent, own>>
    BY <1>3 DEF FileFails, Crash, Stop, call, host, device
  <2>2. QED
    BY <1>1, <2>1, Stays DEF Unconnected
<1>4. CASE Header
  <2>1. /\ pc = "header" /\ Read(2)
        /\ UNCHANGED <<op, link, info, sent, inbox, rest, mode, loses, want>>
    BY <1>4 DEF Header, call, device
  <2>2. /\ ~loses
        /\ \/ mode = "image" /\ \E c \in Reads : Answered(c, want, 0)
           \/ mode = "end" /\ Answered("END_TRANSFER", "SUCCESS", 0)
           \/ mode = "failed" /\ Answered("END_TRANSFER", "FAILED", 0)
    BY <1>1, <2>1 DEF InStep, Quiet, Prompted, Read
  <2>3. CASE \E c \in Reads : mode = "image" /\ Answered(c, want, 0)
    <3>1. PICK c \in Reads : Answered(c, want, 0)
      BY <2>3
    <3>2. c \in DOMAIN Size /\ Size[c] > 2 /\ mode = "image"
      BY <2>3 DEF Reads, Size
    <3>3. pipe' = Left(c, want, sent, 2) /\ own' /\ CmdOf(Taken(2)) = c
      BY <1>1, <2>1, <3>1, <3>2, ReadsHeader DEF Answered
    <3>4. pc' = "request"
      BY <1>4, <3>3 DEF Header, Reads, Go
    <3>5. Answered(c, want, 2)'
      BY <2>1, <3>1, <3>3 DEF Answered
    <3>6. InStep'
      BY <2>1, <2>2, <3>2, <3>4, <3>5 DEF InStep, Points
    <3>7. QED
      BY <1>1, <2>1, <3>3, <3>4, <3>6, Stays
  <2>4. ASSUME NEW s \in {"SUCCESS", "FAILED"}, Answered("END_TRANSFER", s, 0),
               mode = IF s = "SUCCESS" THEN "end" ELSE "failed"
        PROVE  Lock'
    <3>1. "END_TRANSFER" \in DOMAIN Size /\ Size["END_TRANSFER"] > 2
      BY DEF Size
    <3>2. pipe' = Left("END_TRANSFER", s, sent, 2) /\ own' /\ CmdOf(Taken(2)) = "END_TRANSFER"
      BY <1>1, <2>1, <2>4, <3>1, ReadsHeader DEF Answered
    <3>3. pc' = "end"
      BY <1>4, <3>2 DEF Header, Go
    <3>4. Answered("END_TRANSFER", s, 2)'
      BY <2>1, <2>4, <3>2 DEF Answered
    <3>5. InStep'
      BY <2>1, <2>2, <2>4, <3>3, <3>4 DEF InStep, Points
    <3>6. QED
      BY <1>1, <2>1, <3>2, <3>3, <3>5, Stays
  <2>5. QED
    BY <2>2, <2>3, <2>4
<1>5. CASE NoHeader
  <2>1. /\ pc = "header"
        /\ UNCHANGED <<op, link, info, sent, pipe, inbox, rest, mode, loses, own, want>>
        /\ pc' = pc \/ (pc' = "done" /\ status' = "TIMEOUT")
    BY <1>5 DEF NoHeader, Stop, call, device
  <2>2. CASE pc' = "done"
    BY <1>1, <2>1, <2>2, Stays DEF Unconnected
  <2>3. CASE pc' = pc
    <3>1. InStep'
      BY <1>1, <2>1, <2>3 DEF InStep, Points, Quiet, Prompted, Answered
    <3>2. QED
      BY <1>1, <2>1, <2>3, <3>1, Stays
  <2>4. QED
    BY <2>1, <2>2, <2>3
<1>6. QED
  BY <1>2, <1>3, <1>4, <1>5

LEMMA ServesInStep ==
  ASSUME Lock, link = "up", ~early', Serve \/ ServeFails
  PROVE  Lock'
<1>1. own /\ sent \in Nat /\ (pc # "done" => InStep)
  BY DEF Lock
<1>2. ~ServeFails
  BY DEF ServeFails, WriteFails
<1>3. CASE Serve
  <2>1. /\ pc = "request" /\ pipe # <<>> /\ Read(Size[pipe[1].cmd] - 2)
        /\ UNCHANGED <<op, link, info, rest, mode, loses, want>>
        /\ \/ pc' = "done" /\ status' = "INSUFFICIENT_BUFFER" /\ UNCHANGED <<sent, inbox>>
           \/ pc' = "header" /\ \E a : Write("payload", a)
    BY <1>3 DEF Serve, Go, Stop, call, host, device
  <2>2. mode = "image" /\ ~loses /\ \E c \in Reads : Answered(c, want, 2)
    BY <1>1, <2>1 DEF InStep
  <2>3. PICK c \in Reads : Answered(c, want, 2)
    BY <2>2
  <2>4. c \in DOMAIN Size /\ Size[c] \in Nat /\ Size[c] > 2
    BY DEF Reads, Size
  <2>5. pipe[1].cmd = c
    <3>1. 1 \in 1 .. Size[c] - 2
      BY <2>4
    <3>2. Left(c, want, sent, 2)[1] = [cmd |-> c, k |-> 1 + 2, arg |-> want, to |-> sent]
      BY <2>4, <3>1, LeftIs
    <3>3. QED
      BY <2>3, <3>2 DEF Answered
  <2>6. pipe' = <<>> /\ own' /\ inbox = <<>> /\ rest = <<>>
    <3>1. Read(Size[c] - 2) /\ Size[c] - 2 \in Nat
      BY <2>1, <2>4, <2>5
    <3>2. QED
      BY <1>1, <2>3, <2>4, <3>1, ReadsAll DEF Answered
  <2>7. CASE pc' = "done"
    BY <1>1, <2>1, <2>6, <2>7, Stays DEF Unconnected
  <2>8. CASE pc' = "header" /\ \E a : Write("payload", a)
    <3>1. PICK a : Write("payload", a)
      BY <2>8
    <3>2. sent' = sent + 1 /\ inbox' = <<[cmd |-> "payload", arg |-> a, n |-> sent']>>
      BY <2>6, <3>1 DEF Write
    <3>3. Prompted("payload", a)'
      BY <2>1, <2>6, <3>2 DEF Prompted
    <3>4. InStep'
      BY <2>1, <2>2, <2>8, <3>3 DEF InStep, Points
    <3>5. QED
      BY <1>1, <2>1, <2>6, <2>8, <3>2, <3>4, Stays
  <2>9. QED
    BY <2>1, <2>7, <2>8
<1>4. QED
  BY <1>2, <1>3

LEMMA EndsInStep ==
  ASSUME Lock, link = "up", ~early', End \/ Done
  PROVE  Lock'
<1>1. own /\ sent \in Nat /\ (pc # "done" => InStep)
  BY DEF Lock
<1>2. CASE End
  <2>1. /\ pc = "end" /\ (Read(2) \/ ReadNothing)
        /\ UNCHANGED <<op, link, info, rest, mode, loses, want>>
        /\ \/ EndIsGood(pipe) /\ Write("DONE_REQ", "none") /\ pc' = "doneRsp"
           \/ ~EndIsGood(pipe) /\ pc' = "done" /\ status' = "IMAGE_ERROR"
              /\ UNCHANGED <<sent, inbox>>
    BY <1>2 DEF End, Go, Stop, WriteFails, call, host, device
  <2>2. ~loses /\ \E s \in {"SUCCESS", "FAILED"} :
          Answered("END_TRANSFER", s, 2) /\ mode = IF s = "SUCCESS" THEN "end" ELSE "failed"
    BY <1>1, <2>1 DEF InStep
  <2>3. PICK s \in {"SUCCESS", "FAILED"} :
          Answered("END_TRANSFER", s, 2) /\ mode = IF s = "SUCCESS" THEN "end" ELSE "failed"
    BY <2>2
  <2>4. "END_TRANSFER" \in DOMAIN Size /\ Size["END_TRANSFER"] = 4
    BY DEF Size
  <2>5. pipe # <<>> /\ pipe[1].arg = s
    <3>1. 1 \in 1 .. Size["END_TRANSFER"] - 2 /\ Size["END_TRANSFER"] - 2 = 2
      BY <2>4
    <3>2. Left("END_TRANSFER", s, sent, 2)[1]
            = [cmd |-> "END_TRANSFER", k |-> 1 + 2, arg |-> s, to |-> sent]
      BY <2>4, <3>1, LeftIs
    <3>3. pipe = Left("END_TRANSFER", s, sent, 2)
      BY <2>3 DEF Answered
    <3>4. Len(Left("END_TRANSFER", s, sent, 2)) = Size["END_TRANSFER"] - 2
      BY <2>4, LeftIs
    <3>5. pipe # <<>>
      BY <3>1, <3>3, <3>4
    <3>6. QED
      BY <3>2, <3>3, <3>5
  <2>6. pipe' = <<>> /\ own' /\ inbox = <<>> /\ rest = <<>>
    <3>1. Read(2)
      BY <2>1, <2>5 DEF ReadNothing
    <3>2. QED
      BY <1>1, <2>3, <2>4, <3>1, ReadsAll DEF Answered
  <2>7. CASE pc' = "done" /\ status' = "IMAGE_ERROR" /\ UNCHANGED <<sent, inbox>>
    BY <1>1, <2>1, <2>6, <2>7, Stays DEF Unconnected
  <2>8. CASE EndIsGood(pipe) /\ Write("DONE_REQ", "none") /\ pc' = "doneRsp"
    <3>1. mode = "end"
      BY <2>3, <2>5, <2>8 DEF EndIsGood
    <3>2. sent' = sent + 1 /\ inbox' = <<[cmd |-> "DONE_REQ", arg |-> "none", n |-> sent']>>
      BY <2>6, <2>8 DEF Write
    <3>3. Prompted("DONE_REQ", "none")'
      BY <2>1, <2>6, <3>2 DEF Prompted
    <3>4. InStep'
      BY <2>1, <2>2, <2>8, <3>1, <3>3 DEF InStep, Points
    <3>5. QED
      BY <1>1, <2>1, <2>6, <2>8, <3>2, <3>4, Stays
  <2>9. QED
    BY <2>1, <2>7, <2>8
<1>3. CASE Done
  <2>1. /\ pc = "doneRsp" /\ pc' = "done" /\ UNCHANGED <<op, link, info, sent>>
        /\ status' = IF CmdOf(Taken(3)) = "DONE_RSP" THEN "SUCCESS" ELSE "WRITE_FAULT"
        /\ Read(3) \/ ReadNothing
    BY <1>3 DEF Done, Stop, call, host
  <2>2. Answered("DONE_RSP", "none", 0)
    <3>1. ASSUME Prompted("DONE_REQ", "none") PROVE FALSE
      <4>1. pipe = <<>> /\ inbox # <<>>
        BY <3>1 DEF Prompted
      <4>2. ReadNothing
        BY <2>1, <4>1 DEF Read
      <4>3. QED
        BY <4>1, <4>2, ReadsNothing
    <3>2. QED
      BY <1>1, <2>1, <3>1 DEF InStep
  <2>3. "DONE_RSP" \in DOMAIN Size /\ Size["DONE_RSP"] = 3
    BY DEF Size
  <2>4. pipe = Left("DONE_RSP", "none", sent, 0) /\ pipe # <<>> /\ CmdOf(pipe) = "DONE_RSP"
    BY <2>2, <2>3, Begins DEF Answered
  <2>5. own' /\ Taken(3) = pipe
    <3>1. Read(3)
      BY <2>1, <2>4 DEF ReadNothing
    <3>2. QED
      BY <1>1, <2>3, <2>4, <3>1, ReadsAll
  <2>6. status' = "SUCCESS"
    BY <2>1, <2>4, <2>5
  <2>7. QED
    BY <1>1, <2>1, <2>5, <2>6, Stays DEF Unconnected
<1>4. QED
  BY <1>2, <1>3

(* The commands.                                                           *)
LEMMA ExecutesInStep ==
  ASSUME Lock, link = "up", ~early', Ready \/ Execute
  PROVE  Lock'
<1>1. own /\ sent \in Nat /\ (pc # "done" => InStep)
  BY DEF Lock
<1>2. CASE Ready
  <2>1. /\ pc = "ready" /\ UNCHANGED <<op, link, info, sent, inbox, rest, mode, loses>>
        /\ Read(4) \/ ReadNothing
    BY <1>2 DEF Ready, call, host, device
  <2>2. mode = "ready" /\ ~loses /\ Answered("CMD_READY", "none", 0)
    <3>1. ASSUME Prompted("HELLO_RSP", "command") PROVE FALSE
      <4>1. pipe = <<>> /\ inbox # <<>>
        BY <3>1 DEF Prompted
      <4>2. ReadNothing
        BY <2>1, <4>1 DEF Read
      <4>3. QED
        BY <4>1, <4>2, ReadsNothing
    <3>2. QED
      BY <1>1, <2>1, <3>1 DEF InStep
  <2>3. "CMD_READY" \in DOMAIN Size /\ Size["CMD_READY"] = 2
    BY DEF Size
  <2>4. pipe = Left("CMD_READY", "none", sent, 0) /\ pipe # <<>> /\ CmdOf(pipe) = "CMD_READY"
    BY <2>2, <2>3, Begins DEF Answered
  <2>5. pipe' = <<>> /\ own' /\ Taken(4) = pipe
    <3>1. Read(4)
      BY <2>1, <2>4 DEF ReadNothing
    <3>2. QED
      BY <1>1, <2>3, <2>4, <3>1, ReadsAll
  <2>6. pc' = "execute"
    BY <1>2, <2>4, <2>5 DEF Ready, Go
  <2>7. InStep'
    BY <2>1, <2>2, <2>5, <2>6 DEF InStep, Points, Quiet, Answered
  <2>8. QED
    BY <1>1, <2>1, <2>5, <2>6, <2>7, Stays
<1>3. CASE Execute
  <2>1. /\ pc = "execute" /\ pc' = "executeRsp" /\ Write("EXECUTE_REQ", ClientCmd)
        /\ UNCHANGED <<op, link, info, pipe, rest, mode, loses, own, command>>
    BY <1>3 DEF Execute, Go, WriteFails, call, device
  <2>2. mode = "ready" /\ Quiet /\ ~loses
    BY <1>1, <2>1 DEF InStep
  <2>3. sent' = sent + 1 /\ inbox' = <<[cmd |-> "EXECUTE_REQ", arg |-> ClientCmd, n |-> sent']>>
    BY <2>1, <2>2 DEF Write, Quiet
  <2>4. ClientCmd' = ClientCmd
    BY <2>1 DEF ClientCmd
  <2>5. InStep'
    BY <2>1, <2>2, <2>3, <2>4 DEF InStep, Points, Quiet, Prompted
  <2>6. QED
    BY <1>1, <2>1, <2>3, <2>5, Stays
<1>4. QED
  BY <1>2, <1>3

LEMMA LengthInStep ==
  ASSUME Lock, link = "up", ~early', ExecuteRsp
  PROVE  Lock'
<1>1. own /\ sent \in Nat /\ (pc # "done" => InStep)
  BY DEF Lock
<1>2. /\ pc = "executeRsp" /\ UNCHANGED <<op, link, info, rest, mode, loses>>
      /\ Read(4) \/ ReadNothing
      /\ \/ Write("EXECUTE_DATA", ClientCmd) /\ pc' = "data" /\ UNCHANGED command
         \/ pc' \in {"switch", "execute"} /\ UNCHANGED <<sent, inbox>>
  BY DEF ExecuteRsp, NextCommand, WriteFails, Go, call, device
<1>3. mode = "ready" /\ ~loses
  BY <1>1, <1>2 DEF InStep
<1>4. \E length \in {"nothing", "some"} : Answered("EXECUTE_RSP", length, 0)
  <2>1. ASSUME Prompted("EXECUTE_REQ", ClientCmd) PROVE FALSE
    <3>1. pipe = <<>> /\ inbox # <<>>
      BY <2>1 DEF Prompted
    <3>2. ReadNothing
      BY <1>2, <3>1 DEF Read
    <3>3. QED
      BY <3>1, <3>2, ReadsNothing
  <2>2. QED
    BY <1>1, <1>2, <2>1 DEF InStep
<1>5. PICK length \in {"nothing", "some"} : Answered("EXECUTE_RSP", length, 0)
  BY <1>4
<1>6. "EXECUTE_RSP" \in DOMAIN Size /\ Size["EXECUTE_RSP"] = 4
  BY DEF Size
<1>7. pipe = Left("EXECUTE_RSP", length, sent, 0) /\ inbox = <<>> /\ rest = <<>>
  BY <1>5 DEF Answered
<1>8. pipe' = <<>> /\ own'
  <2>1. pipe # <<>>
    BY <1>6, <1>7, Begins
  <2>2. Read(4)
    BY <1>2, <2>1 DEF ReadNothing
  <2>3. QED
    BY <1>1, <1>6, <1>7, <2>2, ReadsAll
<1>9. CASE Write("EXECUTE_DATA", ClientCmd) /\ pc' = "data" /\ UNCHANGED command
  <2>1. sent' = sent + 1 /\ inbox' = <<[cmd |-> "EXECUTE_DATA", arg |-> ClientCmd, n |-> sent']>>
    BY <1>7, <1>9 DEF Write
  <2>2. ClientCmd' = ClientCmd
    BY <1>2, <1>9 DEF ClientCmd
  <2>3. Prompted("EXECUTE_DATA", ClientCmd)'
    BY <1>2, <1>7, <1>8, <2>1, <2>2 DEF Prompted
  <2>4. InStep'
    BY <1>2, <1>3, <1>9, <2>3 DEF InStep, Points
  <2>5. QED
    BY <1>1, <1>2, <1>8, <1>9, <2>1, <2>4, Stays
<1>10. CASE pc' \in {"switch", "execute"} /\ UNCHANGED <<sent, inbox>>
  <2>1. Quiet'
    BY <1>2, <1>7, <1>8, <1>10 DEF Quiet
  <2>2. InStep'
    BY <1>2, <1>3, <1>10, <2>1 DEF InStep, Points
  <2>3. QED
    BY <1>1, <1>2, <1>8, <1>10, <2>2, Stays
<1>11. QED
  BY <1>2, <1>9, <1>10

LEMMA AllTaken ==
  ASSUME NEW S, NEW s \in Seq(S), NEW n \in Nat, Len(s) <= n
  PROVE  SubSeq(s, n + 1, Len(s)) = <<>> /\ SubSeq(s, 1, Smaller(n, Len(s))) = s
<1> PICK size \in Nat : size = Len(s)
  OBVIOUS
<1>1. SubSeq(s, 1, size) = s
  OBVIOUS
<1>2. Smaller(n, size) = size
  BY DEF Smaller
<1>3. QED
  BY <1>1, <1>2

(* Data that has come in one part or two.                                  *)
LEMMA DataIs ==
  ASSUME DataSent
  PROVE  /\ Len(pipe) <= 64 /\ pipe # <<>> /\ pipe \in Seq(Parts("DATA", ClientCmd, sent))
         /\ \A j \in 1 .. Len(pipe) : pipe[j].to = sent
         /\ pipe[1].cmd = "DATA" /\ pipe[1].arg = ClientCmd
<1> DEFINE L == Left("DATA", ClientCmd, sent, 0)
           P == Parts("DATA", ClientCmd, sent)
<1>1. "DATA" \in DOMAIN Size /\ Size["DATA"] = 8
  BY DEF Size
<1>2. L \in Seq(P) /\ Len(L) = 8
  BY <1>1, WholeIs
<1>3. pipe = L \/ pipe = L \o L
  BY DEF DataSent
<1>4. pipe \in Seq(P) /\ Len(pipe) \in {8, 16}
  <2> HIDE DEF L, P
  <2>1. L \o L \in Seq(P) /\ Len(L \o L) = Len(L) + Len(L)
    BY <1>2, ConcatProperties
  <2>2. CASE pipe = L
    BY <1>2, <2>2
  <2>3. CASE pipe = L \o L
    BY <1>2, <2>1, <2>3
  <2>4. QED
    BY <1>3, <2>2, <2>3
<1>5. ASSUME NEW j \in 1 .. Len(pipe)
      PROVE  pipe[j].to = sent /\ pipe[j].cmd = "DATA" /\ pipe[j].arg = ClientCmd
  <2>1. pipe[j] \in P
    BY <1>4
  <2>2. QED
    BY <2>1 DEF Parts
<1>6. 1 \in 1 .. Len(pipe) /\ pipe # <<>>
  BY <1>4
<1>7. Len(pipe) <= 64
  <2>1. Len(pipe) = 8 \/ Len(pipe) = 16
    BY <1>4
  <2>2. 8 <= 64 /\ 16 <= 64
    OBVIOUS
  <2>3. QED
    BY <2>1, <2>2
<1>8. QED
  BY <1>4, <1>5, <1>6, <1>7

LEMMA DataInStep ==
  ASSUME Lock, link = "up", ~early', Data \/ DebugFileFails
  PROVE  Lock'
<1>1. own /\ sent \in Nat /\ (pc # "done" => InStep)
  BY DEF Lock
<1>2. /\ pc = "data" /\ mode = "ready" /\ ~loses
      /\ Prompted("EXECUTE_DATA", ClientCmd) \/ DataSent
  BY <1>1 DEF InStep, Data, DebugFileFails
<1>3. CASE Data
  <2>1. /\ pc' \in {"switch", "execute"} /\ UNCHANGED <<op, link, sent, inbox, rest, mode, loses>>
    BY <1>3 DEF Data, NextCommand, Go, call, device
  <2>2. DataSent
    <3>1. ASSUME Prompted("EXECUTE_DATA", ClientCmd) PROVE FALSE
      <4>1. pipe = <<>> /\ inbox # <<>>
        BY <3>1 DEF Prompted
      <4>2. ReadNothing
        BY <1>3, <4>1 DEF Data
      <4>3. QED
        BY <4>1, <4>2, ReadsNothing
    <3>2. QED
      BY <1>2, <3>1
  <2>3. /\ pipe' = SubSeq(pipe, 65, Len(pipe))
        /\ own' = (own /\ \A k \in DOMAIN pipe : pipe[k].to = sent)
        /\ early' = (early \/ Due)
        /\ info' = [info EXCEPT ![command] = IF pipe[1].cmd = "DATA" THEN pipe[1].arg
                                                                   ELSE "stray"]
    BY <1>3, <2>2, DataIs DEF Data, ReadNothing
  <2>4. pipe' = <<>>
    <3>1. Len(pipe) <= 64 /\ pipe \in Seq(Parts("DATA", ClientCmd, sent))
      BY <2>2, DataIs
    <3>2. SubSeq(pipe, 64 + 1, Len(pipe)) = <<>>
      BY <3>1, AllTaken
    <3>3. 64 + 1 = 65
      OBVIOUS
    <3>4. QED
      BY <2>3, <3>2, <3>3
  <2>5. own'
    <3>1. \A k \in DOMAIN pipe : pipe[k].to = sent
      BY <2>2, DataIs
    <3>2. QED
      BY <1>1, <2>3, <3>1
  <2>6. inbox = <<>> /\ rest = <<>>
    BY <2>2, <2>3 DEF DataSent, Due
  <2>7. Quiet'
    BY <2>1, <2>4, <2>6 DEF Quiet
  <2>8. InStep'
    BY <1>2, <2>1, <2>7 DEF InStep, Points
  <2>9. /\ info' = [c \in DOMAIN info' |-> info'[c]]
        /\ \A c \in DOMAIN info' : info'[c] \in {"none", Commands[op'][c]}
    <3>1. info' = [info EXCEPT ![command] = Commands[op][command]]
      BY <2>2, <2>3, DataIs DEF ClientCmd
    <3>2. QED
      BY <2>1, <3>1 DEF Lock
  <2>10. QED
    BY <1>1, <2>1, <2>5, <2>8, <2>9 DEF Lock
<1>4. CASE DebugFileFails
  <2>1. /\ Read(64) /\ pc' = "done" /\ status' = "FILE_ERROR"
        /\ UNCHANGED <<op, link, info, sent, inbox, rest, mode, loses>>
    BY <1>4 DEF DebugFileFails, Stop, call, host, device
  <2>2. DataSent
    BY <1>2, <2>1 DEF Prompted, Read
  <2>3. own'
    <3>1. /\ Len(pipe) <= 64 /\ pipe \in Seq(Parts("DATA", ClientCmd, sent))
          /\ \A j \in 1 .. Len(pipe) : pipe[j].to = sent
      BY <2>2, DataIs
    <3>2. Taken(64) = pipe
      <4>1. SubSeq(pipe, 1, Smaller(64, Len(pipe))) = pipe
        BY <3>1, AllTaken
      <4>2. QED
        BY <4>1 DEF Taken
    <3>3. \A k \in DOMAIN Taken(64) : Taken(64)[k].to = sent
      BY <3>1, <3>2
    <3>4. QED
      BY <1>1, <2>1, <3>3 DEF Read
  <2>4. QED
    BY <1>1, <2>1, <2>3, Stays DEF Unconnected
<1>5. QED
  BY <1>3, <1>4

-----------------------------------------------------------------------------
(* The device answers what the host sent last.                             *)
LEMMA PromptedIs ==
  ASSUME NEW cmd, NEW arg, Prompted(cmd, arg)
  PROVE  /\ inbox # <<>> /\ Tail(inbox) = <<>> /\ pipe = <<>> /\ rest = <<>>
         /\ message = [cmd |-> cmd, arg |-> arg, n |-> sent]
<1>1. inbox = <<[cmd |-> cmd, arg |-> arg, n |-> sent]>> /\ pipe = <<>> /\ rest = <<>>
  BY DEF Prompted
<1>2. QED
  BY <1>1 DEF message

(* What it has to hear, it hears when the host waits for the answer.       *)
LEMMA HeardIs ==
  ASSUME InStep, inbox # <<>>
  PROVE  \/ mode = "hello" /\ pc = "pblReady" /\ Prompted("HELLO_RSP", "command")
         \/ mode = "hello" /\ pc = "ready" /\ Prompted("HELLO_RSP", "command")
         \/ mode = "hello" /\ pc \in {"open", "header"} /\ Prompted("HELLO_RSP", "image")
         \/ mode = "ready" /\ pc \in {"pblSwitched", "switched"}
            /\ Prompted("SWITCH_MODE", "image")
         \/ mode = "ready" /\ pc = "executeRsp" /\ Prompted("EXECUTE_REQ", ClientCmd)
         \/ mode = "ready" /\ pc = "data" /\ Prompted("EXECUTE_DATA", ClientCmd)
         \/ mode = "image" /\ pc \in {"open", "header"} /\ \E a : Prompted("payload", a)
         \/ mode = "end" /\ pc = "doneRsp" /\ Prompted("DONE_REQ", "none")
<1>1. ~Quiet /\ ~DataSent /\ \A c, a, n : ~Answered(c, a, n)
  BY DEF Quiet, DataSent, Answered
<1>2. QED
  BY <1>1 DEF InStep, Points

LEMMA SaysInStep ==
  ASSUME NEW c \in DOMAIN Size, NEW a, Say(c, a, sent), pipe = <<>>, inbox' = <<>>,
         rest' = <<>>, UNCHANGED sent
  PROVE  /\ ~loses'
         /\ Quiet' \/ Answered(c, a, 0)'
         /\ ~loses => Answered(c, a, 0)'
<1>1. /\ ~loses' /\ pipe' \in {<<>>, Left(c, a, sent, 0)}
      /\ ~loses => pipe' = Left(c, a, sent, 0)
  BY SaysLeft
<1>2. pipe' = <<>> => Quiet'
  BY DEF Quiet
<1>3. pipe' = Left(c, a, sent, 0) => Answered(c, a, 0)'
  BY DEF Answered
<1>4. QED
  BY <1>1, <1>2, <1>3

LEMMA StaysAnswered ==
  ASSUME Lock, link = "up", UNCHANGED untouched, IF pc = "done" THEN TRUE ELSE InStep'
  PROVE  Lock'
  BY DEF Lock, untouched, call, host

LEMMA BootsInStep ==
  ASSUME Lock, DeviceBoots, pc # "done"
  PROVE  Lock'
<1>1. /\ link = "up" /\ mode = "boot" /\ mode' = "hello" /\ Say("HELLO_REQ", "none", 0)
      /\ UNCHANGED untouched /\ UNCHANGED <<inbox, rest>>
  BY DEF DeviceBoots
<1>2. InStep /\ pc' = pc /\ sent' = sent
  BY <1>1 DEF Lock, untouched
<1>3. pc = "hello" /\ sent = 0 /\ Quiet
  BY <1>1, <1>2 DEF InStep, Points
<1>4. "HELLO_REQ" \in DOMAIN Size
  BY DEF Size
<1>5. ~loses' /\ (Quiet' \/ Answered("HELLO_REQ", "none", 0)')
  BY <1>1, <1>2, <1>3, <1>4, SaysInStep DEF Quiet
<1>6. InStep'
  BY <1>1, <1>2, <1>3, <1>5 DEF InStep, Points
<1>7. QED
  BY <1>1, <1>6, StaysAnswered

(* It asks for a piece of the image, or ends the transfer.                 *)
LEMMA AsksInStep ==
  ASSUME Lock, ~loses, Ask(sent), pipe = <<>>, inbox' = <<>>, rest' = <<>>,
         pc \in {"open", "header"}, link = "up", UNCHANGED untouched
  PROVE  Lock'
<1>1. pc' = pc /\ sent' = sent
  BY DEF untouched
<1>2. CASE \E c \in Reads : Say(c, want', sent) /\ mode' = "image"
  <2>1. PICK c \in Reads : Say(c, want', sent) /\ mode' = "image"
    BY <1>2
  <2>2. c \in DOMAIN Size
    BY DEF Reads, Size
  <2>3. ~loses' /\ pipe' = Left(c, want', sent, 0)
    BY <2>1, <2>2, SaysLeft
  <2>4. Answered(c, want, 0)'
    BY <1>1, <2>3 DEF Answered
  <2>5. InStep'
    BY <1>1, <2>1, <2>3, <2>4 DEF InStep, Points
  <2>6. QED
    BY <2>5, StaysAnswered
<1>3. ASSUME NEW s \in {"SUCCESS", "FAILED"}, Say("END_TRANSFER", s, sent),
             mode' = IF s = "SUCCESS" THEN "end" ELSE "failed"
      PROVE  Lock'
  <2>1. "END_TRANSFER" \in DOMAIN Size
    BY DEF Size
  <2>2. ~loses' /\ Answered("END_TRANSFER", s, 0)'
    BY <1>1, <1>3, <2>1, SaysInStep
  <2>3. InStep'
    BY <1>1, <1>3, <2>2 DEF InStep, Points
  <2>4. QED
    BY <2>3, StaysAnswered
<1>4. QED
  <2>1. CASE \E c \in Reads, from \in 0 .. ImageSize - 1, len \in 1 .. MaxRequest :
               Say(c, want', sent) /\ mode' = "image"
    BY <1>2, <2>1
  <2>2. CASE Say("END_TRANSFER", "SUCCESS", sent) /\ mode' = "end"
    BY <1>3, <2>2
  <2>3. CASE Say("END_TRANSFER", "FAILED", sent) /\ mode' = "failed"
    BY <1>3, <2>3
  <2>4. QED
    BY <2>1, <2>2, <2>3 DEF Ask, Reads

LEMMA HearsHello ==
  ASSUME Lock, DeviceHello, pc # "done"
  PROVE  Lock'
<1>1. /\ link = "up" /\ mode = "hello" /\ message.cmd = "HELLO_RSP" /\ inbox # <<>>
      /\ inbox' = Tail(inbox) /\ UNCHANGED untouched /\ rest' = rest
  BY DEF DeviceHello, Hear
<1>2. InStep /\ pc' = pc /\ sent' = sent
  BY <1>1 DEF Lock, untouched
<1>3. CASE pc \in {"pblReady", "ready"} /\ Prompted("HELLO_RSP", "command")
  <2>1. /\ message.arg = "command" /\ message.n = sent /\ inbox' = <<>> /\ rest' = <<>>
        /\ pipe = <<>>
    BY <1>1, <1>3, PromptedIs
  <2>2. Say("CMD_READY", "none", sent) /\ mode' = "ready"
    BY <2>1 DEF DeviceHello
  <2>3. "CMD_READY" \in DOMAIN Size
    BY DEF Size
  <2>4. /\ ~loses' /\ (Quiet' \/ Answered("CMD_READY", "none", 0)')
        /\ ~loses => Answered("CMD_READY", "none", 0)'
    BY <1>2, <2>1, <2>2, <2>3, SaysInStep
  <2>5. pc = "ready" => ~loses
    BY <1>2 DEF InStep
  <2>6. InStep'
    BY <1>2, <1>3, <2>2, <2>4, <2>5 DEF InStep, Points
  <2>7. QED
    BY <1>1, <2>6, StaysAnswered
<1>4. CASE pc \in {"open", "header"} /\ Prompted("HELLO_RSP", "image")
  <2>1. /\ message.arg = "image" /\ message.n = sent /\ inbox' = <<>> /\ rest' = <<>>
        /\ pipe = <<>>
    BY <1>1, <1>4, PromptedIs
  <2>2. Ask(sent)
    BY <2>1 DEF DeviceHello
  <2>3. ~loses
    BY <1>2, <1>4 DEF InStep
  <2>4. QED
    BY <1>1, <1>4, <2>1, <2>2, <2>3, AsksInStep
<1>5. QED
  BY <1>1, <1>2, <1>3, <1>4, HeardIs

LEMMA HearsCommand ==
  ASSUME Lock, DeviceSwitches \/ DeviceExecutes \/ DeviceData, pc # "done"
  PROVE  Lock'
<1>1. /\ link = "up" /\ mode = "ready" /\ inbox # <<>> /\ inbox' = Tail(inbox)
      /\ message.cmd \in {"SWITCH_MODE", "EXECUTE_REQ", "EXECUTE_DATA"} /\ UNCHANGED untouched
  BY DEF DeviceSwitches, DeviceExecutes, DeviceData, Hear
<1>2. InStep /\ pc' = pc /\ sent' = sent /\ ClientCmd' = ClientCmd
  BY <1>1 DEF Lock, untouched, ClientCmd, call, host
<1>3. ~loses
  BY <1>1, <1>2, HeardIs DEF InStep
<1>4. {"HELLO_REQ", "EXECUTE_RSP", "DATA"} \subseteq DOMAIN Size
  BY DEF Size
<1>5. CASE pc \in {"pblSwitched", "switched"} /\ Prompted("SWITCH_MODE", "image")
  <2>1. /\ message.cmd = "SWITCH_MODE" /\ message.n = sent /\ inbox' = <<>> /\ rest = <<>>
        /\ pipe = <<>>
    BY <1>1, <1>5, PromptedIs
  <2>2. Say("HELLO_REQ", "none", sent) /\ mode' = "hello" /\ rest' = <<>>
    BY <2>1 DEF DeviceSwitches, DeviceExecutes, DeviceData, Hear
  <2>3. ~loses' /\ Answered("HELLO_REQ", "none", 0)'
    BY <1>2, <1>3, <1>4, <2>1, <2>2, SaysInStep
  <2>4. InStep'
    BY <1>2, <1>5, <2>2, <2>3 DEF InStep, Points
  <2>5. QED
    BY <1>1, <2>4, StaysAnswered
<1>6. CASE pc = "executeRsp" /\ Prompted("EXECUTE_REQ", ClientCmd)
  <2>1. /\ message.cmd = "EXECUTE_REQ" /\ message.n = sent /\ inbox' = <<>> /\ rest = <<>>
        /\ pipe = <<>>
    BY <1>1, <1>6, PromptedIs
  <2>2. PICK length \in {"nothing", "some"} :
          Say("EXECUTE_RSP", length, sent) /\ mode' = "ready" /\ rest' = <<>>
    BY <1>1, <2>1 DEF DeviceSwitches, DeviceExecutes, DeviceData, Hear
  <2>3. ~loses' /\ Answered("EXECUTE_RSP", length, 0)'
    BY <1>2, <1>3, <1>4, <2>1, <2>2, SaysInStep
  <2>4. InStep'
    BY <1>2, <1>6, <2>2, <2>3 DEF InStep, Points
  <2>5. QED
    BY <1>1, <2>4, StaysAnswered
<1>7. CASE pc = "data" /\ Prompted("EXECUTE_DATA", ClientCmd)
  <2>1. /\ message.cmd = "EXECUTE_DATA" /\ message.n = sent /\ message.arg = ClientCmd
        /\ inbox' = <<>> /\ rest = <<>> /\ pipe = <<>>
    BY <1>1, <1>7, PromptedIs
  <2>2. /\ Say("DATA", ClientCmd, sent) /\ mode' = "ready"
        /\ \/ rest' = <<>> \o Packet("DATA", ClientCmd, sent)
           \/ rest' = <<>> \o <<>>
    BY <1>1, <2>1 DEF DeviceSwitches, DeviceExecutes, DeviceData, Hear
  <2>3. ~loses' /\ pipe' = Left("DATA", ClientCmd, sent, 0)
    BY <1>3, <1>4, <2>1, <2>2, SaysLeft
  <2>4. rest' = <<>> \/ rest' = Left("DATA", ClientCmd, sent, 0)
    <3>1. /\ Packet("DATA", ClientCmd, sent) = Left("DATA", ClientCmd, sent, 0)
          /\ <<>> \o Left("DATA", ClientCmd, sent, 0) = Left("DATA", ClientCmd, sent, 0)
      BY <1>4, PacketIs
    <3>2. <<>> \o <<>> = <<>>
      OBVIOUS
    <3>3. QED
      BY <2>2, <3>1, <3>2
  <2>5. DataSent'
    BY <1>2, <2>1, <2>3, <2>4 DEF DataSent
  <2>6. InStep'
    BY <1>2, <1>7, <2>2, <2>3, <2>5 DEF InStep, Points
  <2>7. QED
    BY <1>1, <2>6, StaysAnswered
<1>8. QED
  BY <1>1, <1>2, <1>5, <1>6, <1>7, HeardIs

LEMMA RestInStep ==
  ASSUME Lock, DeviceRest, pc # "done"
  PROVE  Lock'
<1>1. /\ link = "up" /\ rest # <<>> /\ pipe' = pipe \o rest /\ rest' = <<>>
      /\ UNCHANGED untouched /\ UNCHANGED <<inbox, mode, loses>>
  BY DEF DeviceRest
<1>2. InStep /\ pc' = pc /\ sent' = sent /\ ClientCmd' = ClientCmd
  BY <1>1 DEF Lock, untouched, ClientCmd, call, host
<1>3. pc = "data" /\ DataSent /\ mode = "ready" /\ ~loses
  BY <1>1, <1>2 DEF InStep, Points, Quiet, Prompted, Answered
<1>4. inbox' = <<>> /\ pipe' = Left("DATA", ClientCmd, sent, 0) \o Left("DATA", ClientCmd, sent, 0)
  BY <1>1, <1>3 DEF DataSent
<1>5. DataSent'
  BY <1>1, <1>2, <1>4 DEF DataSent
<1>6. InStep'
  BY <1>1, <1>2, <1>3, <1>5 DEF InStep, Points
<1>7. QED
  BY <1>1, <1>6, StaysAnswered

LEMMA HearsImage ==
  ASSUME Lock, DeviceTakes \/ DeviceDone, pc # "done"
  PROVE  Lock'
<1>1. /\ link = "up" /\ inbox # <<>> /\ inbox' = Tail(inbox) /\ UNCHANGED untouched
      /\ rest' = rest
  BY DEF DeviceTakes, DeviceDone, Hear
<1>2. InStep /\ pc' = pc /\ sent' = sent
  BY <1>1 DEF Lock, untouched
<1>3. CASE DeviceTakes
  <2>1. mode = "image" /\ message.cmd = "payload"
    BY <1>3 DEF DeviceTakes, Hear
  <2>2. pc \in {"open", "header"} /\ \E a : Prompted("payload", a)
    BY <1>1, <1>2, <2>1, HeardIs
  <2>3. PICK a : Prompted("payload", a)
    BY <2>2
  <2>4. message.n = sent /\ inbox' = <<>> /\ rest' = <<>> /\ pipe = <<>>
    BY <1>1, <2>3, PromptedIs
  <2>5. ~loses
    BY <1>2, <2>2 DEF InStep
  <2>6. CASE Ask(message.n)
    BY <1>1, <2>2, <2>4, <2>5, <2>6, AsksInStep
  <2>7. CASE UNCHANGED <<pipe, mode, loses, asks, want>>
    <3>1. Quiet'
      BY <2>4, <2>7 DEF Quiet
    <3>2. InStep'
      BY <1>2, <2>1, <2>2, <2>5, <2>7, <3>1 DEF InStep, Points
    <3>3. QED
      BY <1>1, <3>2, StaysAnswered
  <2>8. QED
    BY <1>3, <2>6, <2>7 DEF DeviceTakes
<1>4. CASE DeviceDone
  <2>1. mode = "end" /\ mode' = "done" /\ Say("DONE_RSP", "none", message.n)
    BY <1>4 DEF DeviceDone
  <2>2. pc = "doneRsp" /\ Prompted("DONE_REQ", "none")
    BY <1>1, <1>2, <2>1, HeardIs
  <2>3. message.n = sent /\ inbox' = <<>> /\ rest' = <<>> /\ pipe = <<>>
    BY <1>1, <2>2, PromptedIs
  <2>4. ~loses
    BY <1>2, <2>2 DEF InStep
  <2>5. "DONE_RSP" \in DOMAIN Size
    BY DEF Size
  <2>6. ~loses' /\ Answered("DONE_RSP", "none", 0)'
    BY <1>2, <2>1, <2>3, <2>4, <2>5, SaysInStep
  <2>7. InStep'
    BY <1>2, <2>1, <2>2, <2>6 DEF InStep, Points
  <2>8. QED
    BY <1>1, <2>7, StaysAnswered
<1>5. QED
  BY <1>3, <1>4

(* There is nothing it does not expect.                                    *)
LEMMA NeverConfused ==
  ASSUME Lock, DeviceConfused, pc # "done"
  PROVE  FALSE
<1>1. link = "up" /\ inbox # <<>> /\ message.cmd \notin Expected
  BY DEF DeviceConfused, Hear
<1>2. InStep
  BY <1>1 DEF Lock
<1>3. \A cmd, arg : Prompted(cmd, arg) => message.cmd = cmd
  BY PromptedIs
<1>4. \/ mode = "hello" /\ message.cmd = "HELLO_RSP"
      \/ mode = "ready" /\ message.cmd \in {"SWITCH_MODE", "EXECUTE_REQ", "EXECUTE_DATA"}
      \/ mode = "image" /\ message.cmd = "payload"
      \/ mode = "end" /\ message.cmd = "DONE_REQ"
  BY <1>1, <1>2, <1>3, HeardIs
<1>5. QED
  BY <1>1, <1>4 DEF Expected

LEMMA LockInit == Init => LockInv
<1> SUFFICES ASSUME Init PROVE Lock
  BY DEF LockInv
<1>1. /\ pc = "hello" /\ link = "up" /\ sent = 0 /\ own /\ pipe = <<>> /\ inbox = <<>>
      /\ rest = <<>> /\ mode \in {"boot", "hello"}
      /\ info = [c \in 1 .. Len(Commands[op]) |-> "none"]
  BY DEF Init
<1>2. InStep
  BY <1>1 DEF InStep, Points, Quiet
<1>3. info = [c \in DOMAIN info |-> info[c]] /\ \A c \in DOMAIN info : info[c] = "none"
  BY <1>1
<1>4. QED
  BY <1>1, <1>2, <1>3 DEF Lock

(* early is never cleared.                                                 *)
LEMMA EarlyStays ==
  ASSUME [Next]_vars, ~early'
  PROVE  ~early
<1>1. CASE Device \/ LinkDown \/ UNCHANGED vars
  BY <1>1 DEF Device, DeviceBoots, DeviceHello, DeviceSwitches, DeviceExecutes, DeviceData,
     DeviceRest, DeviceTakes, DeviceDone, DeviceConfused, LinkDown, untouched, vars
<1>2. (\E n : Read(n)) \/ ReadNothing => ~early
  BY DEF Read, ReadNothing
<1>3. CASE Host
  <2>1. CASE HelloThere \/ HelloMissing \/ PblRespond \/ PblReady \/ ModeSwitch \/ PblSwitched
             \/ Respond \/ Ready \/ Switched
    BY <1>2, <2>1 DEF HelloThere, HelloMissing, PblRespond, PblReady, ModeSwitch, PblSwitched,
       Respond, Ready, Switched, ModeSwitchRead
  <2>2. CASE Open \/ FileFails \/ Header \/ NoHeader \/ Serve \/ Crash \/ ServeFails \/ End \/ Done
    BY <1>2, <2>2 DEF Open, FileFails, Header, NoHeader, Serve, Crash, ServeFails, End, Done
  <2>3. CASE Execute \/ ExecuteRsp \/ Data \/ DebugFileFails
    BY <1>2, <2>3 DEF Execute, ExecuteRsp, Data, DebugFileFails
  <2>4. QED
    BY <1>3, <2>1, <2>2, <2>3 DEF Host
<1>4. QED
  BY <1>1, <1>3 DEF Next

LEMMA LockNext == LockInv /\ [Next]_vars => LockInv'
<1> SUFFICES ASSUME LockInv, [Next]_vars, ~early' PROVE Lock'
  BY DEF LockInv
<1>1. Lock
  BY EarlyStays DEF LockInv
<1>2. CASE Host
  <2>1. CASE link = "up"
    BY <1>1, <1>2, <2>1, ConnectsInStep, SwitchesInStep, HeaderInStep, ServesInStep, EndsInStep,
       ExecutesInStep, LengthInStep, DataInStep DEF Host
  <2>2. CASE link = "down"
    BY <1>1, <1>2, <2>2, DownKeeps
  <2>3. QED
    BY <1>1, <2>1, <2>2 DEF Lock
<1>3. CASE Device
  <2>1. CASE pc = "done"
    <3>1. link = "up" /\ UNCHANGED untouched
      BY <1>3 DEF Device, DeviceBoots, DeviceHello, DeviceSwitches, DeviceExecutes, DeviceData,
         DeviceRest, DeviceTakes, DeviceDone, DeviceConfused, Hear
    <3>2. QED
      BY <1>1, <2>1, <3>1, StaysAnswered
  <2>2. CASE pc # "done"
    BY <1>1, <1>3, <2>2, BootsInStep, HearsHello, HearsCommand, RestInStep, HearsImage,
       NeverConfused DEF Device
  <2>3. QED
    BY <2>1, <2>2
<1>4. CASE LinkDown
  BY <1>1, <1>4 DEF LinkDown, Lock, call, host
<1>5. CASE UNCHANGED vars
  <2>1. InStep => InStep'
    BY <1>5 DEF InStep, Quiet, Prompted, Answered, DataSent, ClientCmd, vars, call, device
  <2>2. QED
    BY <1>1, <1>5, <2>1 DEF Lock, vars, call
<1>6. QED
  BY <1>2, <1>3, <1>4, <1>5 DEF Next

(* As long as no read came too early, what the host reads answers what it  *)
(* sent last, and what is stored as an answer is the device's own, for any *)
(* numbers of tries, and for the debug data in two parts (ReadData,        *)
(* DumpDeviceInfo, DumpDebugInfo, ModeSwitch, PblHack).                    *)
THEOREM AnswersOwn == Spec => []InfoIsOwn
<1>1. LockInv => InfoIsOwn
  BY DEF LockInv, Lock, InfoIsOwn
<1>2. QED
  BY <1>1, LockInit, LockNext, PTL DEF Spec

(* As long as no read came too early, a device that is there is connected  *)
(* to, whether its hello came, was read before or was lost (ConnectToDevice*)
(* and PblHack), and no later handshake of an operation fails.             *)
THEOREM HelloRecovered == Spec => []PblRecovers
<1>1. LockInv => PblRecovers
  BY DEF LockInv, Lock, PblRecovers, Unconnected
<1>2. QED
  BY <1>1, LockInit, LockNext, PTL DEF Spec

=============================================================================
