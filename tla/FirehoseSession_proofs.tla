----------------------- MODULE FirehoseSession_proofs -----------------------
(***************************************************************************)
(* Proofs about FirehoseSession, for every set of packet sizes, every      *)
(* number of retries and every device.                                     *)
(***************************************************************************)
EXTENDS FirehoseSession, SequenceTheorems, WellFoundedInduction, TLAPS

Kinds == {"configure", "program", "raw", "patch", "gpp", "active", "reset"}

(* What the proofs use of a script: a command that fails stops the session *)
(* exactly when its status is reported, and so does the configuration; a   *)
(* patch sends it behind the patches, and is not reported.                 *)
Commands ==
  {c \in [kind : Kinds, onFail : {"stop", "next", "file"}, kept : BOOLEAN] :
     /\ c.kept <=> c.onFail = "stop"
     /\ c.kind = "configure" => c.onFail = "stop"
     /\ c.onFail = "file" => c.kind = "patch"
     /\ c.kind = "patch" => c.onFail = "file"}

Messages == [n : Nat, step : Nat, kind : Kinds \union {"payload"}, size : Sizes]
Answers == [to : Nat, verdict : {"ACK", "NAK"}, hint : {0} \union Sizes]

QueueTypes ==
  /\ sent \in Nat /\ link \in {"up", "down"}
  /\ inbox \in Seq(Messages) /\ outbox \in Seq(Answers)
  /\ \A k \in 1 .. Len(inbox) : inbox[k].n <= sent
  /\ \A k \in 1 .. Len(outbox) : outbox[k].to <= sent

PlaceTypes ==
  /\ pc # "done" => step <= Len(Script[session])
  /\ pc = "connect" => Kind = "configure"
  /\ pc \in {"send", "answer"} /\ Kind = "configure" => retry < MAX_RETRY

Types == TypeOK /\ QueueTypes /\ PlaceTypes

(* The buffers hold what may become the packet size.                       *)
BuffersInv == capacity > 0 => dwMaxPacketSize <= capacity /\ cfgSize <= capacity

(* Nothing is on its way but the last document or its answer, ...          *)
Document ==
  [n |-> asked, step |-> step, kind |-> IF pc = "final" THEN "payload" ELSE Kind,
   size |-> dwMaxPacketSize]
Waiting == pc \in {"answer", "final"}
Earned(a) ==
  /\ a.to = asked
  /\ a.verdict = "ACK" =>
       /\ <<step, Document.kind>> \in accepted
       /\ Document.kind = "configure" => deviceSize = dwMaxPacketSize

QueueInv ==
  /\ inbox = <<>> \/ (Waiting /\ inbox = <<Document>>)
  /\ link = "up" /\ pc # "connect" =>
       outbox = <<>> \/ (Waiting /\ inbox = <<>> /\ Len(outbox) = 1 /\ Earned(outbox[1]))

(* ... and what the host has been told is so.                              *)
CommandInv ==
  /\ pc \in {"payload", "final"} => Kind = "program" /\ <<step, "program">> \in accepted
  /\ pc \in {"drain", "end"} /\ status = "SUCCESS" => Needed(step) \subseteq accepted
  /\ pc \in {"drain", "payload"} /\ link = "up" /\ answered # 0 => answered = asked
  /\ pc \in {"drain", "end"} /\ status = "SUCCESS" /\ Kind = "configure"
       => deviceSize = dwMaxPacketSize
  /\ pc # "done" /\ Kind # "configure" => deviceSize = dwMaxPacketSize

Reported(s) == Script[session][s].kept => Needed(s) \subseteq accepted
ScriptInv ==
  /\ pc # "done" => \A s \in 1 .. step - 1 : Reported(s)
  /\ pc = "done" /\ result = "SUCCESS" => \A s \in 1 .. Len(Script[session]) : Reported(s)

FlowInv == ~gaveUp => QueueInv /\ CommandInv /\ ScriptInv

IInv == Types /\ BuffersInv /\ FlowInv

-----------------------------------------------------------------------------
LEMMA CommandTyped ==
  /\ Connection \in Commands
  /\ \A k \in Kinds : k # "patch" =>
       /\ Command(k, "stop", TRUE) \in Commands
       /\ k # "configure" => Command(k, "next", FALSE) \in Commands
  /\ Command("patch", "file", FALSE) \in Commands
  BY DEF Connection, Command, Commands, Kinds

LEMMA Tuples ==
  ASSUME NEW S, NEW a \in S, NEW b \in S, NEW c \in S, NEW d \in S
  PROVE  /\ <<a>> \in Seq(S) /\ <<a, b>> \in Seq(S) /\ <<a, b, c>> \in Seq(S)
         /\ <<a, b, c, d>> \in Seq(S)
  OBVIOUS

LEMMA FileTyped == RawProgramFile \in Seq(Commands)
<1>1. /\ Command("program", "stop", TRUE) \in Commands
      /\ Command("raw", "stop", TRUE) \in Commands
      /\ Command("patch", "file", FALSE) \in Commands
  BY CommandTyped DEF Kinds
<1> QED
  BY <1>1, Tuples DEF RawProgramFile

(* What is put behind a command leaves it the first.                       *)
LEMMA Longer ==
  ASSUME NEW S, NEW s \in Seq(S), s # <<>>, NEW t \in Seq(S)
  PROVE  s \o t \in Seq(S) /\ s \o t # <<>> /\ (s \o t)[1] = s[1]
<1>1. Len(s) \in Nat \ {0} /\ Len(t) \in Nat
  BY EmptySeq, LenProperties
<1>2. /\ s \o t \in Seq(S) /\ Len(s \o t) = Len(s) + Len(t)
      /\ (s \o t)[1] = s[1]
  BY <1>1, ConcatProperties
<1> QED
  BY <1>1, <1>2, EmptySeq

(* Every script begins with the configuration.                             *)
LEMMA ScriptTyped ==
  ASSUME NEW x \in Sessions
  PROVE  Script[x] \in Seq(Commands) /\ Script[x] # <<>> /\ Script[x][1].kind = "configure"
<1> DEFINE Begun(s) == s \in Seq(Commands) /\ s # <<>> /\ s[1].kind = "configure"
<1>1. x \in DOMAIN Script /\ DOMAIN Script = {"program", "gpp", "active", "erase"}
  BY SessionAssumption DEF Script
<1>2. Connection.kind = "configure"
  BY DEF Connection, Command
<1>3. Begun(<<Connection>>)
  BY <1>2, CommandTyped
<1>4. CASE x = "program"
  <2> DEFINE s == <<Connection>> \o RawProgramFile
  <2> HIDE DEF s
  <2>1. Begun(s)
    BY <1>3, FileTyped, Longer DEF s
  <2>2. Begun(s \o RawProgramFile)
    BY <2>1, FileTyped, Longer
  <2>3. Script[x] = s \o RawProgramFile
    BY <1>4 DEF Script, s
  <2> QED
    BY <2>2, <2>3
<1>5. CASE x = "gpp"
  <2> DEFINE a == Command("gpp", "next", FALSE)
             b == Command("active", "stop", TRUE)
  <2>1. a \in Commands /\ b \in Commands
    BY CommandTyped DEF Kinds
  <2>2. Script[x] = <<Connection, a, b>>
    BY <1>5 DEF Script
  <2> HIDE DEF a, b
  <2> QED
    BY <2>1, <2>2, <1>2, CommandTyped, Tuples
<1>6. CASE x = "active"
  <2> DEFINE a == Command("active", "next", FALSE)
             b == Command("reset", "stop", TRUE)
  <2>1. a \in Commands /\ b \in Commands
    BY CommandTyped DEF Kinds
  <2>2. Script[x] = <<Connection, a, Connection, b>>
    BY <1>6 DEF Script
  <2> HIDE DEF a, b
  <2> QED
    BY <2>1, <2>2, <1>2, CommandTyped, Tuples
<1>7. CASE x = "erase"
  <2> DEFINE a == Command("program", "next", FALSE)
  <2>1. a \in Commands
    BY CommandTyped DEF Kinds
  <2>2. Script[x] = <<Connection, a>>
    BY <1>7 DEF Script
  <2> HIDE DEF a
  <2> QED
    BY <2>1, <2>2, <1>2, CommandTyped, Tuples
<1> QED
  BY <1>1, <1>4, <1>5, <1>6, <1>7

(* A set of natural numbers has a least one.                               *)
LEMMA Least ==
  ASSUME NEW S, S \subseteq Nat, S # {}
  PROVE  \E n \in S : \A m \in S : n <= m
<1>1. PICK n \in S : \A m \in S : <<m, n>> \notin OpToRel(<, Nat)
  BY NatLessThanWellFounded, WFMin
<1>2. \A m \in S : ~(m < n)
  BY <1>1 DEF OpToRel
<1> QED
  BY <1>2

(* Behind a command there is one that is no patch, or the end.             *)
LEMMA BehindPatchesExists ==
  ASSUME Types, pc # "done"
  PROVE  /\ BehindPatches \in step + 1 .. Len(Script[session]) + 1
         /\ \A t \in step + 1 .. BehindPatches - 1 : Script[session][t].kind = "patch"
<1> DEFINE len == Len(Script[session])
           Stops == {s \in step + 1 .. len + 1 : s > len \/ Script[session][s].kind # "patch"}
<1>1. step \in Nat \ {0} /\ step <= len /\ len \in Nat
  <2>1. session \in Sessions /\ step \in 1 .. len + 1 /\ step <= len
    BY DEF Types, TypeOK, PlaceTypes
  <2> QED
    BY <2>1, ScriptTyped, LenProperties
<1>2. len + 1 \in Stops
  BY <1>1
<1>3. PICK s \in Stops : \A m \in Stops : s <= m
  <2>1. Stops \subseteq Nat
    BY <1>1
  <2> QED
    BY <2>1, <1>2, Least
<1>4. \A t \in step + 1 .. s - 1 : t \notin Stops
  BY <1>1, <1>3
<1>5. \A t \in step + 1 .. s - 1 : Script[session][t].kind = "patch"
  BY <1>1, <1>3, <1>4
<1> QED
  BY <1>1, <1>3, <1>5 DEF BehindPatches

LEMMA Current ==
  ASSUME Types, pc # "done"
  PROVE  /\ session \in Sessions /\ step \in Nat \ {0} /\ step <= Len(Script[session])
         /\ Len(Script[session]) \in Nat
         /\ Script[session][step] \in Commands /\ Kind \in Kinds
<1>1. session \in Sessions /\ step \in 1 .. Len(Script[session]) + 1
      /\ step <= Len(Script[session])
  BY DEF Types, TypeOK, PlaceTypes
<1>2. Script[session] \in Seq(Commands) /\ Len(Script[session]) \in Nat
  BY <1>1, ScriptTyped, LenProperties
<1>3. Script[session][step] \in Commands
  BY <1>1, <1>2, ElementOfSeq
<1> QED
  BY <1>1, <1>2, <1>3 DEF Kind, Commands

-----------------------------------------------------------------------------
(* The queues stay typed when a document is sent, answered, or its answer  *)
(* taken.                                                                  *)
LEMMA TakeTyped ==
  ASSUME Types, Take
  PROVE  /\ outbox \in Seq(Answers) /\ outbox # <<>>
         /\ Head(outbox) = outbox[1] /\ Head(outbox) \in Answers
         /\ Len(outbox) \in Nat \ {0} /\ Len(outbox') = Len(outbox) - 1
         /\ outbox' \in Seq(Answers) /\ answered' \in 0 .. sent
         /\ \A k \in 1 .. Len(outbox') : outbox'[k].to <= sent
<1>1. outbox \in Seq(Answers) /\ outbox # <<>> /\ sent \in Nat
  BY DEF Take, Types, QueueTypes
<1>2. /\ Head(outbox) \in Answers /\ outbox' \in Seq(Answers)
      /\ Len(outbox') = Len(outbox) - 1 /\ Len(outbox) \in Nat \ {0}
      /\ \A k \in 1 .. Len(outbox') : outbox'[k] = outbox[k + 1]
  BY <1>1, HeadTailProperties, EmptySeq DEF Take
<1>3. Head(outbox) = outbox[1]
  BY <1>1
<1>4. \A k \in 1 .. Len(outbox) : outbox[k].to <= sent
  BY DEF Types, QueueTypes
<1>5. answered' = outbox[1].to /\ outbox[1].to \in Nat
  BY <1>2, <1>3 DEF Take, Answers
<1> QED
  BY <1>1, <1>2, <1>3, <1>4, <1>5

LEMMA DrainedTyped ==
  ASSUME Types
  PROVE  /\ Drained \in Seq(Answers)
         /\ \A k \in 1 .. Len(Drained) : Drained[k].to <= sent
  BY EmptySeq DEF Drained, Types, QueueTypes

LEMMA AnswersNumbered ==
  ASSUME Types
  PROVE  \A k \in 1 .. Len(outbox) : outbox[k].to <= sent + 1
<1>1. \A k \in 1 .. Len(outbox) : outbox[k] \in Answers
  BY ElementOfSeq DEF Types, QueueTypes
<1>2. \A k \in 1 .. Len(outbox) : outbox[k].to \in Nat
  BY <1>1 DEF Answers
<1> QED
  BY <1>2 DEF Types, QueueTypes

LEMMA WriteTyped ==
  ASSUME Types, pc # "done", NEW kind \in Kinds \union {"payload"}, Write(kind)
  PROVE  /\ sent' \in Nat /\ sent' = sent + 1 /\ asked' \in 0 .. sent'
         /\ inbox' \in Seq(Messages)
         /\ \A k \in 1 .. Len(inbox') : inbox'[k].n <= sent'
<1> DEFINE m == [n |-> sent + 1, step |-> step, kind |-> kind, size |-> dwMaxPacketSize]
<1>1. m \in Messages
  BY Current DEF Types, TypeOK, QueueTypes, Messages
<1>2. sent \in Nat /\ inbox \in Seq(Messages) /\ \A k \in 1 .. Len(inbox) : inbox[k].n <= sent
  BY DEF Types, QueueTypes
<1>3. inbox' = Append(inbox, m) /\ m.n = sent + 1 /\ sent' = sent + 1 /\ asked' = sent + 1
  BY DEF Write
<1> HIDE DEF m
<1>4. /\ inbox' \in Seq(Messages) /\ Len(inbox) \in Nat
      /\ \A k \in 1 .. Len(inbox') :
           (k \in 1 .. Len(inbox) /\ inbox'[k] = inbox[k]) \/ inbox'[k] = m
  BY <1>1, <1>2, <1>3
<1>5. \A k \in 1 .. Len(inbox) : inbox[k] \in Messages
  BY <1>2, ElementOfSeq
<1> QED
  BY <1>1, <1>2, <1>3, <1>4, <1>5 DEF Messages

LEMMA TypesInit == Init => Types
<1> SUFFICES ASSUME Init PROVE Types
  OBVIOUS
<1>1. session \in Sessions /\ Script[session] \in Seq(Commands) /\ Script[session] # <<>>
      /\ Script[session][1].kind = "configure"
  BY ScriptTyped DEF Init
<1>2. Len(Script[session]) \in Nat \ {0}
  BY <1>1, EmptySeq
<1>3. TypeOK
  BY <1>1, <1>2, SessionAssumption DEF Init, TypeOK
<1>4. QueueTypes
  <2> DEFINE a == [to |-> 0, verdict |-> "ACK", hint |-> 0]
  <2>1. a \in Answers /\ a.to = 0
    BY DEF Answers
  <2>2. sent = 0 /\ inbox = <<>> /\ (outbox = <<>> \/ outbox = <<a>>) /\ link = "up"
    BY DEF Init
  <2> HIDE DEF a
  <2>3. inbox \in Seq(Messages) /\ Len(inbox) = 0
    BY <2>2, EmptySeq
  <2>4. outbox \in Seq(Answers) /\ \A k \in 1 .. Len(outbox) : outbox[k].to <= sent
    <3>1. CASE outbox = <<>>
      BY <3>1, EmptySeq
    <3>2. CASE outbox = <<a>>
      BY <3>2, <2>1, <2>2
    <3> QED
      BY <3>1, <3>2, <2>2
  <2> QED
    BY <2>2, <2>3, <2>4 DEF QueueTypes
<1>5. PlaceTypes
  BY <1>1, <1>2 DEF Init, PlaceTypes, Kind
<1> QED
  BY <1>3, <1>4, <1>5 DEF Types

LEMMA TypesStep == Types /\ [Next]_vars => Types'
<1> SUFFICES ASSUME Types, [Next]_vars PROVE Types'
  OBVIOUS
<1> USE DEF Types
<1>1. CASE Connect
  <2>1. TypeOK'
    BY <1>1, SessionAssumption DEF Connect, TypeOK, device
  <2>2. QueueTypes'
    BY <1>1, DrainedTyped DEF Connect, QueueTypes
  <2>3. PlaceTypes'
    BY <1>1, SessionAssumption DEF Connect, PlaceTypes, Kind
  <2> QED
    BY <2>1, <2>2, <2>3
<1>2. CASE Send
  <2>1. Kind \in Kinds /\ Write(Kind)
    BY <1>2, Current DEF Send
  <2>2. /\ sent' \in Nat /\ sent' = sent + 1 /\ asked' \in 0 .. sent'
        /\ inbox' \in Seq(Messages) /\ \A k \in 1 .. Len(inbox') : inbox'[k].n <= sent'
    BY <2>1, <1>2, WriteTyped DEF Send
  <2>3. TypeOK'
    BY <1>2, <2>2 DEF Send, TypeOK, reader, device, QueueTypes
  <2>4. QueueTypes'
    BY <1>2, <2>2, AnswersNumbered DEF Send, QueueTypes
  <2>5. PlaceTypes'
    BY <1>2 DEF Send, PlaceTypes, Kind, reader
  <2> QED
    BY <2>3, <2>4, <2>5
<1>3. CASE SendFails
  BY <1>3 DEF SendFails, TypeOK, QueueTypes, PlaceTypes, Kind, reader, device
<1>4. CASE ConfigureAnswered
  <2>1. Take /\ Kind = "configure" /\ retry < MAX_RETRY
    BY <1>4 DEF ConfigureAnswered, PlaceTypes
  <2>2. Head(outbox) \in Answers
    BY <2>1, TakeTyped
  <2>3. QueueTypes'
    BY <1>4, <2>1, TakeTyped DEF ConfigureAnswered, QueueTypes
  <2>4. TypeOK'
    <3>1. /\ answered' \in 0 .. sent /\ UNCHANGED <<session, step, result, sent, asked, deviceSize>>
          /\ pc' \in {"answer", "drain", "connect", "end"}
      BY <1>4, <2>1, TakeTyped DEF ConfigureAnswered, device
    <3>2. status' \in {status, "SUCCESS", "NOT_READY"}
      BY <1>4 DEF ConfigureAnswered, reader
    <3>3. retry' \in 0 .. MAX_RETRY
      BY <1>4, <2>1, SessionAssumption DEF ConfigureAnswered, TypeOK, reader
    <3>4. /\ cfgSize' \in {0} \union Sizes /\ dwMaxPacketSize' \in Sizes
          /\ capacity' = capacity
      BY <1>4, <2>2, SessionAssumption DEF ConfigureAnswered, TypeOK, reader, Reduces, Answers
    <3> QED
      BY <3>1, <3>2, <3>3, <3>4 DEF TypeOK
  <2>5. PlaceTypes'
    BY <1>4, <2>1, SessionAssumption
      DEF ConfigureAnswered, PlaceTypes, Kind, RetriesOver, TypeOK, reader
  <2> QED
    BY <2>3, <2>4, <2>5
<1>5. CASE ConfigureSilent
  <2>1. Kind = "configure" /\ retry < MAX_RETRY
    BY <1>5 DEF ConfigureSilent, PlaceTypes
  <2>2. TypeOK'
    BY <1>5, <2>1, SessionAssumption DEF ConfigureSilent, TypeOK, RetriesOver, device
  <2>3. QueueTypes'
    BY <1>5 DEF ConfigureSilent, QueueTypes
  <2>4. PlaceTypes'
    BY <1>5, <2>1, SessionAssumption DEF ConfigureSilent, PlaceTypes, TypeOK, RetriesOver, Kind
  <2> QED
    BY <2>2, <2>3, <2>4
<1>6. CASE ProgramAnswered
  <2>1. QueueTypes'
    BY <1>6, TakeTyped DEF ProgramAnswered, QueueTypes
  <2>2. TypeOK'
    BY <1>6, TakeTyped DEF ProgramAnswered, TypeOK, StatusOf, reader, device
  <2>3. PlaceTypes'
    BY <1>6 DEF ProgramAnswered, PlaceTypes, Kind, reader
  <2> QED
    BY <2>1, <2>2, <2>3
<1>7. CASE SendPayload
  <2>1. CASE link = "up"
    <3>1. Write("payload") /\ pc # "done"
      BY <1>7, <2>1 DEF SendPayload
    <3>2. /\ sent' \in Nat /\ sent' = sent + 1 /\ asked' \in 0 .. sent'
          /\ inbox' \in Seq(Messages) /\ \A k \in 1 .. Len(inbox') : inbox'[k].n <= sent'
      BY <3>1, WriteTyped
    <3>3. TypeOK'
      BY <1>7, <2>1, <3>2 DEF SendPayload, TypeOK, reader, device, QueueTypes
    <3>4. QueueTypes'
      BY <1>7, <2>1, <3>2, AnswersNumbered DEF SendPayload, QueueTypes
    <3>5. PlaceTypes'
      BY <1>7, <2>1 DEF SendPayload, PlaceTypes, Kind, reader
    <3> QED
      BY <3>3, <3>4, <3>5
  <2>2. CASE link # "up"
    BY <1>7, <2>2 DEF SendPayload, TypeOK, QueueTypes, PlaceTypes, Kind, reader, device
  <2> QED
    BY <2>1, <2>2
<1>8. CASE CommandAnswered
  <2>1. QueueTypes'
    BY <1>8, TakeTyped DEF CommandAnswered, QueueTypes
  <2>2. TypeOK'
    BY <1>8, TakeTyped DEF CommandAnswered, TypeOK, StatusOf, reader, device
  <2>3. PlaceTypes'
    BY <1>8 DEF CommandAnswered, PlaceTypes, Kind, reader, LastAnswer
  <2> QED
    BY <2>1, <2>2, <2>3
<1>9. CASE CommandSilent
  BY <1>9 DEF CommandSilent, TypeOK, QueueTypes, PlaceTypes, Kind, reader, device, LastAnswer
<1>10. CASE Drain
  <2>1. QueueTypes'
    BY <1>10, DrainedTyped DEF Drain, QueueTypes
  <2>2. TypeOK' /\ PlaceTypes'
    BY <1>10 DEF Drain, TypeOK, PlaceTypes, Kind, reader, device
  <2> QED
    BY <2>1, <2>2
<1>11. CASE Return
  <2>1. step' \in step + 1 .. Len(Script[session]) + 1
    BY <1>11, Current, BehindPatchesExists DEF Return
  <2>2. pc' = "done" \/ pc' = Begin(step')
    BY <1>11 DEF Return
  <2>3. TypeOK'
    BY <1>11, <2>1, <2>2, Current DEF Return, TypeOK, Begin, reader, device
  <2>4. QueueTypes'
    BY <1>11 DEF Return, QueueTypes
  <2>5. PlaceTypes'
    BY <1>11, <2>1, <2>2, Current DEF Return, PlaceTypes, Begin, Kind
  <2> QED
    BY <2>3, <2>4, <2>5
<1>12. CASE Answer
  <2>1. inbox \in Seq(Messages) /\ inbox # <<>>
    BY <1>12 DEF Answer, QueueTypes
  <2>2. /\ Head(inbox) \in Messages /\ Head(inbox) = inbox[1] /\ Len(inbox) \in Nat \ {0}
        /\ inbox' \in Seq(Messages) /\ Len(inbox') = Len(inbox) - 1
        /\ \A k \in 1 .. Len(inbox') : inbox'[k] = inbox[k + 1]
    BY <1>12, <2>1, HeadTailProperties, EmptySeq DEF Answer
  <2>3. PICK verdict \in {"ACK", "NAK"}, hint \in {0} \union Sizes :
          outbox' = Append(outbox, [to |-> Head(inbox).n, verdict |-> verdict, hint |-> hint])
    BY <1>12 DEF Answer
  <2> DEFINE a == [to |-> Head(inbox).n, verdict |-> verdict, hint |-> hint]
  <2>4. a \in Answers /\ a.to <= sent
    BY <2>2 DEF Answers, Messages, QueueTypes
  <2>5. outbox' = Append(outbox, a)
    BY <2>3
  <2> HIDE DEF a
  <2>6. /\ outbox' \in Seq(Answers)
        /\ \A k \in 1 .. Len(outbox') :
             (k \in 1 .. Len(outbox) /\ outbox'[k] = outbox[k]) \/ outbox'[k] = a
    BY <2>4, <2>5 DEF QueueTypes
  <2>7. QueueTypes'
    BY <1>12, <2>2, <2>4, <2>6 DEF Answer, QueueTypes
  <2>8. TypeOK'
    BY <1>12, <2>2 DEF Answer, TypeOK, reader, Messages
  <2>9. PlaceTypes'
    BY <1>12 DEF Answer, PlaceTypes, Kind, reader
  <2> QED
    BY <2>7, <2>8, <2>9
<1>13. CASE LinkDown
  BY <1>13 DEF LinkDown, TypeOK, QueueTypes, PlaceTypes, Kind, reader, device
<1>14. CASE UNCHANGED vars
  BY <1>14 DEF vars, TypeOK, QueueTypes, PlaceTypes, Kind, reader, device
<1> QED
  BY <1>1, <1>2, <1>3, <1>4, <1>5, <1>6, <1>7, <1>8, <1>9, <1>10, <1>11, <1>12, <1>13,
     <1>14 DEF Next, Host

-----------------------------------------------------------------------------
(* The buffers: sizes become smaller once they are allocated.              *)
LEMMA BuffersStep == Types /\ BuffersInv /\ [Next]_vars => BuffersInv'
<1> SUFFICES ASSUME Types, BuffersInv, [Next]_vars PROVE BuffersInv'
  OBVIOUS
<1>1. /\ cfgSize \in Nat /\ dwMaxPacketSize \in Nat \ {0} /\ capacity \in Nat
  BY SessionAssumption DEF Types, TypeOK
<1>2. CASE Connect
  BY <1>1, <1>2 DEF Connect, BuffersInv
<1>3. CASE ConfigureAnswered
  <2>1. CASE UNCHANGED <<cfgSize, dwMaxPacketSize, capacity>>
    BY <2>1 DEF BuffersInv
  <2>2. CASE /\ Reduces(Head(outbox).hint) /\ capacity' = capacity
             /\ dwMaxPacketSize' = Head(outbox).hint /\ cfgSize' = Head(outbox).hint
    <3>1. Head(outbox) \in Answers
      BY <1>3, TakeTyped DEF ConfigureAnswered
    <3>2. Head(outbox).hint \in {0} \union Sizes
      BY <3>1 DEF Answers
    <3>3. Head(outbox).hint \in Nat
      <4>1. {0} \union Sizes \subseteq Nat
        BY SessionAssumption
      <4> QED
        BY <3>2, <4>1
    <3> QED
      BY <1>1, <2>2, <3>3 DEF BuffersInv, Reduces
  <2> QED
    BY <1>3, <2>1, <2>2 DEF ConfigureAnswered, reader
<1>4. CASE Host /\ ~Connect /\ ~ConfigureAnswered
  BY <1>4 DEF Host, Send, SendFails, ConfigureSilent, ProgramAnswered, SendPayload,
    CommandAnswered, CommandSilent, Drain, Return, BuffersInv, reader
<1>5. CASE Answer \/ LinkDown \/ UNCHANGED vars
  BY <1>5 DEF Answer, LinkDown, vars, BuffersInv, reader
<1> QED
  BY <1>2, <1>3, <1>4, <1>5 DEF Next, Host

-----------------------------------------------------------------------------
(* The flow of a command.  Nothing is said any more once one is given up.  *)
LEMMA FlowInit == Init => FlowInv
<1> SUFFICES ASSUME Init PROVE FlowInv
  OBVIOUS
<1>1. pc = "connect" /\ step = 1 /\ inbox = <<>>
  BY DEF Init
<1>2. Kind = "configure"
  BY <1>1, ScriptTyped DEF Init, Kind
<1> QED
  BY <1>1, <1>2 DEF FlowInv, QueueInv, CommandInv, ScriptInv

(* The answer that is taken is the one that is waited for, and the last.   *)
LEMMA AnswerTaken ==
  ASSUME Types, QueueInv, Take, pc # "connect"
  PROVE  /\ Waiting /\ inbox = <<>> /\ outbox' = <<>> /\ link = "up"
         /\ Earned(Head(outbox)) /\ answered' = asked
         /\ Head(outbox).verdict \in {"ACK", "NAK"}
         /\ Head(outbox).hint \in {0} \union Sizes
<1>1. outbox # <<>> /\ link = "up" /\ answered' = Head(outbox).to /\ outbox' = Tail(outbox)
  BY DEF Take
<1>2. Waiting /\ inbox = <<>> /\ Len(outbox) = 1 /\ Earned(outbox[1])
  BY <1>1 DEF QueueInv
<1>3. Head(outbox) = outbox[1] /\ Head(outbox) \in Answers /\ outbox' \in Seq(Answers)
      /\ Len(outbox') = 0
  BY <1>2, TakeTyped
<1>4. outbox' = <<>>
  BY <1>3, EmptySeq
<1> QED
  BY <1>1, <1>2, <1>3, <1>4 DEF Earned, Answers

(* Commands between one and a later one of a script.                       *)
LEMMA Interval ==
  ASSUME NEW a \in Nat, NEW len \in Nat, NEW b \in a + 1 .. len + 1
  PROVE  /\ \A s \in a + 1 .. b - 1 : s \in 1 .. len
         /\ \A s \in 1 .. b - 1 : s \in 1 .. a - 1 \/ s = a \/ s \in a + 1 .. b - 1
  OBVIOUS

LEMMA FlowStep == Types /\ FlowInv /\ [Next]_vars => FlowInv'
<1> SUFFICES ASSUME Types, FlowInv, [Next]_vars, ~gaveUp' PROVE (QueueInv /\ CommandInv /\ ScriptInv)'
  BY DEF FlowInv
<1>0. ~gaveUp /\ QueueInv /\ CommandInv /\ ScriptInv
  <2>1. gaveUp => gaveUp'
    BY DEF Next, Host, Connect, Send, SendFails, ConfigureAnswered, ConfigureSilent,
      ProgramAnswered, SendPayload, CommandAnswered, CommandSilent, Drain, Return, Answer,
      LinkDown, vars
  <2> QED
    BY <2>1 DEF FlowInv
<1>t. pc # "connect" \/ Kind = "configure"
  BY DEF Types, PlaceTypes
<1>1. CASE Connect
  <2>1. QueueInv'
    BY <1>0, <1>1 DEF Connect, QueueInv, Drained, Waiting, Document
  <2>2. CommandInv'
    BY <1>0, <1>1, <1>t DEF Connect, CommandInv, Kind
  <2>3. ScriptInv'
    BY <1>0, <1>1 DEF Connect, ScriptInv, Reported, Needed, device
  <2> QED
    BY <2>1, <2>2, <2>3
<1>2. CASE Send
  <2>1. inbox = <<>> /\ outbox = <<>>
    BY <1>0, <1>2 DEF Send, QueueInv, Waiting
  <2>2. QueueInv'
    BY <1>2, <2>1 DEF Send, Write, QueueInv, Waiting, Document, Kind, reader
  <2>3. CommandInv' /\ ScriptInv'
    BY <1>0, <1>2 DEF Send, CommandInv, ScriptInv, Reported, Needed, Kind, reader, device
  <2> QED
    BY <2>2, <2>3
<1>3. CASE SendFails
  <2>1. inbox = <<>>
    BY <1>0, <1>3 DEF SendFails, QueueInv, Waiting
  <2>2. QueueInv'
    BY <1>3, <2>1 DEF SendFails, QueueInv
  <2>3. CommandInv' /\ ScriptInv'
    BY <1>0, <1>3 DEF SendFails, CommandInv, ScriptInv, Reported, Needed, Kind, reader, device
  <2> QED
    BY <2>2, <2>3
<1>4. CASE LinkDown
  BY <1>0, <1>4 DEF LinkDown, QueueInv, Waiting, Document, Earned, CommandInv, ScriptInv,
    Reported, Needed, Kind, reader, device
<1>5. CASE UNCHANGED vars
  BY <1>0, <1>5 DEF vars, QueueInv, Waiting, Document, Earned, CommandInv, ScriptInv,
    Reported, Needed, Kind, reader, device
<1>6. CASE ConfigureAnswered
  <2>1. /\ Take /\ pc = "answer" /\ Kind = "configure" /\ Document.kind = "configure"
        /\ Kind' = "configure"
    BY <1>6 DEF ConfigureAnswered, Document, Kind
  <2>2. /\ inbox = <<>> /\ inbox' = <<>> /\ outbox' = <<>> /\ Earned(Head(outbox))
        /\ answered' = asked /\ asked' = asked
    BY <1>0, <1>6, <2>1, AnswerTaken DEF ConfigureAnswered
  <2>3. QueueInv'
    BY <2>2 DEF QueueInv
  <2>4. CommandInv'
    <3>1. pc' = "drain" =>
            <<step, "configure">> \in accepted /\ deviceSize = dwMaxPacketSize
            /\ dwMaxPacketSize' = dwMaxPacketSize
      BY <1>0, <1>6, <2>1, <2>2, AnswerTaken
        DEF ConfigureAnswered, StatusOf, Earned, reader
    <3>2. pc' \in {"answer", "drain", "connect", "end"} /\ (pc' = "end" => status' # "SUCCESS")
      BY <1>6 DEF ConfigureAnswered
    <3>3. UNCHANGED <<session, step, accepted, deviceSize>>
      BY <1>6 DEF ConfigureAnswered, device
    <3>4. pc' = "drain" => Needed(step)' \subseteq accepted'
      BY <2>1, <3>1, <3>3 DEF Needed, Kind
    <3> QED
      BY <2>1, <2>2, <3>1, <3>2, <3>3, <3>4 DEF CommandInv
  <2>5. ScriptInv'
    BY <1>0, <1>6 DEF ConfigureAnswered, ScriptInv, Reported, Needed, device
  <2> QED
    BY <2>3, <2>4, <2>5
<1>7. CASE ConfigureSilent
  <2>1. UNCHANGED pc
    BY <1>0, <1>7 DEF ConfigureSilent
  <2> QED
    BY <1>0, <1>7, <2>1 DEF ConfigureSilent, QueueInv, Waiting, Document, Earned, CommandInv,
      ScriptInv, Reported, Needed, Kind, device
<1>8. CASE ProgramAnswered
  <2>1. Take /\ pc = "answer" /\ Kind = "program" /\ Document.kind = "program"
    BY <1>8 DEF ProgramAnswered, Document
  <2>2. /\ inbox' = <<>> /\ outbox' = <<>> /\ Earned(Head(outbox)) /\ link' = "up"
        /\ answered' = asked /\ asked' = asked
    BY <1>0, <1>8, <2>1, AnswerTaken DEF ProgramAnswered
  <2>3. pc' = "payload" => <<step, "program">> \in accepted
    BY <1>8, <2>1, <2>2 DEF ProgramAnswered, StatusOf, Earned
  <2>4. QueueInv'
    BY <2>2 DEF QueueInv
  <2>5. CommandInv'
    BY <1>0, <1>8, <2>1, <2>2, <2>3
      DEF ProgramAnswered, CommandInv, StatusOf, Kind, reader, device
  <2>6. ScriptInv'
    BY <1>0, <1>8 DEF ProgramAnswered, ScriptInv, Reported, Needed, device
  <2> QED
    BY <2>4, <2>5, <2>6
<1>9. CASE SendPayload
  <2>1. /\ inbox = <<>> /\ (link = "up" => outbox = <<>>)
        /\ Kind = "program" /\ <<step, "program">> \in accepted
    BY <1>0, <1>9 DEF SendPayload, QueueInv, Waiting, CommandInv
  <2>2. QueueInv'
    BY <1>9, <2>1 DEF SendPayload, Write, QueueInv, Waiting, Document, Kind, reader
  <2>3. CommandInv' /\ ScriptInv'
    BY <1>0, <1>9, <2>1 DEF SendPayload, CommandInv, ScriptInv, Reported, Needed, Kind,
      reader, device
  <2> QED
    BY <2>2, <2>3
<1>10. CASE CommandAnswered
  <2>1. Take /\ LastAnswer /\ pc # "connect" /\ Kind # "configure"
    BY <1>0, <1>10 DEF CommandAnswered, LastAnswer, CommandInv
  <2>2. /\ inbox' = <<>> /\ outbox' = <<>> /\ Earned(Head(outbox)) /\ link' = "up"
        /\ answered' = asked /\ asked' = asked
    BY <1>0, <1>10, <2>1, AnswerTaken DEF CommandAnswered
  <2>3. status' = "SUCCESS" => Needed(step) \subseteq accepted
    <3>1. status' = "SUCCESS" => <<step, Document.kind>> \in accepted
      BY <1>10, <2>2 DEF CommandAnswered, StatusOf, Earned
    <3>2. CASE pc = "final"
      BY <1>0, <3>1, <3>2 DEF CommandInv, Needed, Document, Kind
    <3>3. CASE pc = "answer" /\ Kind # "program"
      BY <3>1, <3>3 DEF Needed, Document, Kind
    <3> QED
      BY <2>1, <3>2, <3>3 DEF LastAnswer
  <2>4. QueueInv'
    BY <2>2 DEF QueueInv
  <2>5. CommandInv'
    <3>1. UNCHANGED <<session, step, accepted, deviceSize, dwMaxPacketSize>> /\ pc' = "drain"
          /\ pc # "done"
      BY <1>10, <2>1 DEF CommandAnswered, LastAnswer, reader, device
    <3>2. Kind' = Kind /\ Needed(step)' = Needed(step)
      BY <3>1 DEF Kind, Needed
    <3> QED
      BY <1>0, <2>1, <2>2, <2>3, <3>1, <3>2 DEF CommandInv
  <2>6. ScriptInv'
    BY <1>0, <1>10 DEF CommandAnswered, LastAnswer, ScriptInv, Reported, Needed, device
  <2> QED
    BY <2>4, <2>5, <2>6
<1>11. CASE CommandSilent
  BY <1>11 DEF CommandSilent
<1>12. CASE Drain
  BY <1>0, <1>12 DEF Drain, Drained, QueueInv, Waiting, CommandInv, ScriptInv, Reported,
    Needed, Kind, reader, device
<1>13. CASE Return
  <2> DEFINE c == Script[session][step]
             way == IF status = "SUCCESS" THEN "next" ELSE AfterFailure(c.onFail)
  <2>1. /\ c \in Commands /\ Kind = c.kind /\ step \in Nat \ {0} /\ Len(Script[session]) \in Nat
        /\ step <= Len(Script[session]) /\ session \in Sessions
    BY <1>13, Current DEF Return, Kind
  <2>2. /\ UNCHANGED <<session, inbox, outbox, link, accepted, deviceSize, dwMaxPacketSize>>
        /\ pc = "end" /\ pc' = IF way = "stop" THEN "done" ELSE Begin(step')
        /\ step' = IF way = "file" THEN BehindPatches ELSE step + 1
        /\ result' = IF c.kept THEN status ELSE result
    BY <1>13 DEF Return, reader, device
  <2>3. QueueInv'
    BY <1>0, <2>2 DEF QueueInv, Waiting, Begin
  <2>4. way = "file" => c.kind = "patch" /\ ~c.kept
    BY <2>1 DEF AfterFailure, Commands
  <2>5. /\ step' \in step + 1 .. Len(Script[session]) + 1
        /\ \A s \in step + 1 .. step' - 1 : ~Script[session][s].kept
    <3>1. CASE way = "file"
      <4>1. /\ step' \in step + 1 .. Len(Script[session]) + 1
            /\ \A s \in step + 1 .. step' - 1 : Script[session][s].kind = "patch"
        BY <2>2, <3>1, BehindPatchesExists
      <4>2. \A s \in 1 .. Len(Script[session]) : Script[session][s] \in Commands
        <5>1. Script[session] \in Seq(Commands)
          BY <2>1, ScriptTyped
        <5> QED
          BY <5>1, ElementOfSeq
      <4>3. \A s \in step + 1 .. step' - 1 : s \in 1 .. Len(Script[session])
        <5>1. step \in Nat /\ Len(Script[session]) \in Nat
          BY <2>1
        <5>2. step' \in step + 1 .. Len(Script[session]) + 1
          BY <4>1
        <5> QED
          BY <5>1, <5>2, Interval
      <4> QED
        BY <4>1, <4>2, <4>3 DEF Commands
    <3>2. CASE way # "file"
      BY <2>1, <2>2, <3>2
    <3> QED
      BY <3>1, <3>2
  <2>6. status = "SUCCESS" \/ ~c.kept \/ way = "stop"
    BY <2>1 DEF AfterFailure, Commands
  <2>7. CommandInv'
    <3>1. pc' \in {"done", "connect", "send"}
      BY <2>2 DEF Begin
    <3>2. pc' # "done" => deviceSize = dwMaxPacketSize
      BY <1>0, <2>1, <2>2 DEF CommandInv, AfterFailure, Commands
    <3> QED
      BY <2>2, <3>1, <3>2 DEF CommandInv
  <2>8. ScriptInv'
    <3>1. \A s \in 1 .. step - 1 : Reported(s)
      BY <1>0, <2>2 DEF ScriptInv
    <3>2. status = "SUCCESS" \/ ~c.kept => Reported(step)
      BY <1>0, <2>2 DEF CommandInv, Reported
    <3>3. status = "SUCCESS" \/ ~c.kept => \A s \in 1 .. step' - 1 : Reported(s)
      <4>1. \A s \in step + 1 .. step' - 1 : Reported(s)
        BY <2>5 DEF Reported
      <4>2. \A s \in 1 .. step' - 1 :
              s \in 1 .. step - 1 \/ s = step \/ s \in step + 1 .. step' - 1
        <5>1. step \in Nat /\ Len(Script[session]) \in Nat
          BY <2>1
        <5>2. step' \in step + 1 .. Len(Script[session]) + 1
          BY <2>5
        <5> QED
          BY <5>1, <5>2, Interval
      <4> QED
        BY <3>1, <3>2, <4>1, <4>2
    <3>4. \A s : Reported(s)' <=> Reported(s)
      BY <2>2 DEF Reported, Needed
    <3>5. way = "stop" => c.kept /\ result' # "SUCCESS"
      BY <2>1, <2>2 DEF AfterFailure, Commands
    <3>6. way # "stop" /\ pc' = "done" => step' = Len(Script[session]) + 1
      BY <2>1, <2>2, <2>5 DEF Begin
    <3> QED
      BY <2>1, <2>2, <2>6, <3>3, <3>4, <3>5, <3>6 DEF ScriptInv
  <2> QED
    BY <2>3, <2>7, <2>8
<1>14. CASE Answer
  <2>1. Waiting /\ inbox = <<Document>>
    BY <1>0, <1>14 DEF Answer, QueueInv
  <2>2. PICK verdict \in {"ACK", "NAK"}, hint \in {0} \union Sizes :
          /\ outbox' = Append(outbox, [to |-> asked, verdict |-> verdict, hint |-> hint])
          /\ deviceSize' = IF Document.kind = "configure" /\ verdict = "ACK"
                           THEN dwMaxPacketSize ELSE deviceSize
          /\ accepted' = IF verdict = "ACK" THEN accepted \union {<<step, Document.kind>>}
                                            ELSE accepted
    BY <1>14, <2>1 DEF Answer, Document
  <2>3. /\ inbox' = <<>> /\ UNCHANGED <<session, step, pc, status, result, link, asked,
                                        answered, dwMaxPacketSize>>
    BY <1>14, <2>1 DEF Answer, reader
  <2>4. Kind' = Kind /\ Document' = Document
    BY <2>3 DEF Kind, Document
  <2>5. QueueInv'
    <3>1. CASE link = "up"
      <4> DEFINE a == [to |-> asked, verdict |-> verdict, hint |-> hint]
      <4>1. outbox = <<>>
        BY <1>0, <2>1, <3>1 DEF QueueInv, Waiting
      <4>2. outbox' = <<a>>
        BY <2>2, <4>1
      <4>3. Len(outbox') = 1 /\ outbox'[1] = a
        <5> HIDE DEF a
        <5> QED
          BY <4>2
      <4>4. Earned(outbox[1])'
        BY <2>2, <2>3, <2>4, <4>3 DEF Earned
      <4> QED
        BY <2>1, <2>3, <4>3, <4>4 DEF QueueInv, Waiting, Earned
    <3>2. CASE link # "up"
      BY <2>3, <3>2 DEF QueueInv
    <3> QED
      BY <3>1, <3>2
  <2>6. CommandInv'
    <3>1. Kind # "configure" => deviceSize' = deviceSize
      BY <1>0, <2>1, <2>2 DEF Document, Waiting
    <3>2. accepted \subseteq accepted'
      BY <2>2
    <3> QED
      BY <1>0, <2>1, <2>3, <2>4, <3>1, <3>2 DEF CommandInv, Waiting
  <2>7. ScriptInv'
    BY <1>0, <2>2, <2>3 DEF ScriptInv, Reported, Needed
  <2> QED
    BY <2>5, <2>6, <2>7
<1> QED
  BY <1>1, <1>2, <1>3, <1>4, <1>5, <1>6, <1>7, <1>8, <1>9, <1>10, <1>11, <1>12, <1>13,
     <1>14 DEF Next, Host

-----------------------------------------------------------------------------
(* What is invariant, all together.                                        *)
THEOREM Inductive == Spec => []IInv
<1>1. Init => IInv
  BY TypesInit, FlowInit, SessionAssumption DEF IInv, BuffersInv, Init
<1>2. IInv /\ [Next]_vars => IInv'
  BY TypesStep, BuffersStep, FlowStep DEF IInv
<1> QED
  BY <1>1, <1>2, PTL DEF Spec

(* Types; the retries of ConnectToFlashProg.                               *)
THEOREM Typed == Spec => []TypeOK
<1>1. IInv => TypeOK
  BY DEF IInv, Types
<1> QED
  BY <1>1, Inductive, PTL

(* The packet size is negotiated to one that the buffers hold, however     *)
(* often, and the commands behind it find the device configured for it.    *)
THEOREM SizesAgreed == Spec => []SizesFit
<1>1. IInv => SizesFit
  BY DEF IInv, BuffersInv, FlowInv, CommandInv, SizesFit, BuffersHold, AgreedSize
<1> QED
  BY <1>1, Inductive, PTL

(* The answer that is taken is that of the command.                        *)
THEOREM AnswersMatched == Spec => []OwnAnswer
<1>1. IInv => OwnAnswer
  BY DEF IInv, FlowInv, CommandInv, OwnAnswer
<1> QED
  BY <1>1, Inductive, PTL

(* Reported success: the device has accepted every command reported on.    *)
THEOREM SuccessEarned == Spec => []SuccessIsEarned
<1>1. IInv => SuccessIsEarned
  BY DEF IInv, FlowInv, ScriptInv, Reported, SuccessIsEarned
<1> QED
  BY <1>1, Inductive, PTL
=============================================================================
