-------------------------- MODULE FirehoseSession --------------------------
(***************************************************************************)
(* A session of emmcdl with a Firehose device: ConnectToFlashProg and its  *)
(* negotiation of the packet size, then the commands of one invocation     *)
(* (src/src/firehose.cpp), in the order src/src/emmcdl.cpp issues them and *)
(* with what it does when one of them fails.                               *)
(*                                                                         *)
(* Documents cross the link in order.  An answer does not say what it      *)
(* answers: the host takes the next one.  It gives up on a device that is  *)
(* silent for long, which the device does not know.  FirehoseStream is how *)
(* one answer is read, FirehoseTransfer what happens around a payload.     *)
(***************************************************************************)
EXTENDS Integers, Sequences

CONSTANTS
  Sessions,     \* the invocations considered, a subset of DOMAIN Script
  Sizes,        \* packet sizes
  DefaultSize,  \* dwMaxPacketSize before anyone says otherwise
  MAX_RETRY

(* A command of a session: its kind; where the session goes when it fails, *)
(* "stop", "next", or behind the patches of the file ("file"); and whether *)
(* its status is one the invocation can end with.                          *)
Command(kind, onFail, kept) == [kind |-> kind, onFail |-> onFail, kept |-> kept]
Connection == Command("configure", "stop", TRUE)

(* -x with two rawprogram files, the entries of each and then its patches; *)
(* -gpp; -SetActivePartition with a reset; -e.                             *)
RawProgramFile ==
  << Command("program", "stop", TRUE), Command("raw", "stop", TRUE),
     Command("patch", "file", FALSE), Command("patch", "file", FALSE) >>

Script == [
  program |-> <<Connection>> \o RawProgramFile \o RawProgramFile,
  gpp     |-> << Connection, Command("gpp", "next", FALSE),
                 Command("active", "stop", TRUE) >>,
  active  |-> << Connection, Command("active", "next", FALSE), Connection,
                 Command("reset", "stop", TRUE) >>,
  erase   |-> << Connection, Command("program", "next", FALSE) >>]

ASSUME SessionAssumption ==
  /\ Sessions \subseteq DOMAIN Script
  /\ Sizes \subseteq Nat \ {0} /\ DefaultSize \in Sizes
  /\ MAX_RETRY \in Nat \ {0}

VARIABLES
  session, step,    \* the invocation, and the command it is at
  pc,               \* where in the command
  status,           \* of the command
  result,           \* of the invocation
  cfgSize,          \* cfg->MaxPayloadSizeToTargetInBytes
  dwMaxPacketSize,
  capacity,         \* bytes allocated for m_payload and m_buffer, 0: NULL
  retry,
  link,             \* "up" or "down"
  sent,             \* documents sent by the host; they are numbered
  asked, answered,  \* the document the host waits on; the one whose answer it took
  gaveUp,           \* has a command been given up with its answer outstanding?
  inbox,            \* documents on their way to the device
  outbox,           \* answers on their way to the host
  deviceMax,        \* the largest packet the device can take
  deviceSize,       \* the packet size it is configured for, 0: none
  accepting,        \* does it expect payload?
  accepted          \* <<step, kind>> of what it has answered with ACK

reader == <<cfgSize, dwMaxPacketSize, capacity, retry>>
device == <<deviceMax, deviceSize, accepting, accepted>>
vars == <<session, step, pc, status, result, reader, link, sent, asked,
          answered, gaveUp, inbox, outbox, device>>

Kind == Script[session][step].kind

(* The commands that read and log what is pending when they are done.      *)
Drains == {"configure", "gpp", "active", "reset"}

StatusOf(answer) == IF answer.verdict = "ACK" THEN "SUCCESS" ELSE "INVALID_DATA"

(* The hint in a NAK is taken when it makes the packets smaller (mutated:  *)
(* when there is one).                                                     *)
AnyHint(hint) == hint > 0
Reduces(hint) == hint > 0 /\ hint < dwMaxPacketSize

(* ReadData(m_payload, dwMaxPacketSize, false) takes all that has arrived  *)
(* (mutated: it takes nothing).                                            *)
NotDrained == outbox
Drained == IF link = "up" THEN <<>> ELSE outbox

(* The loop over MAX_RETRY is at its end.                                  *)
RetriesOver(r) == r = MAX_RETRY

Begin(s) ==
  IF s > Len(Script[session]) THEN "done"
  ELSE IF Script[session][s].kind = "configure" THEN "connect" ELSE "send"

-----------------------------------------------------------------------------
(* The device may have been running: an answer may be left from before.    *)
Init ==
  /\ session \in Sessions /\ step = 1 /\ pc = "connect"
  /\ status = "SUCCESS" /\ result = "SUCCESS"
  /\ cfgSize \in {0} \union Sizes
  /\ dwMaxPacketSize = DefaultSize /\ capacity = 0 /\ retry = 0
  /\ link = "up" /\ sent = 0 /\ asked = 0 /\ answered = 0 /\ gaveUp = FALSE
  /\ inbox = <<>>
  /\ outbox \in {<<>>, << [to |-> 0, verdict |-> "ACK", hint |-> 0] >>}
  /\ deviceMax \in Sizes /\ deviceSize = 0
  /\ accepting = FALSE /\ accepted = {}

(* ConnectToFlashProg up to the write: the packet size, the buffers on the *)
(* first call only, and the pending data.                                  *)
Connect ==
  /\ pc = "connect"
  /\ dwMaxPacketSize' = IF cfgSize > 0 THEN cfgSize ELSE dwMaxPacketSize
  /\ capacity' = IF capacity = 0 THEN dwMaxPacketSize' ELSE capacity
  /\ retry' = 0
  /\ outbox' = Drained
  /\ pc' = "send"
  /\ UNCHANGED <<session, step, status, result, cfgSize, link, sent, asked,
                 answered, gaveUp, inbox, device>>

Write(kind) ==
  /\ sent' = sent + 1 /\ asked' = sent + 1
  /\ inbox' = Append(inbox, [n |-> sent + 1, step |-> step, kind |-> kind,
                             size |-> dwMaxPacketSize])

Send ==
  /\ pc = "send" /\ link = "up"
  /\ Write(Kind)
  /\ pc' = "answer"
  /\ UNCHANGED <<session, step, status, result, reader, link, answered, gaveUp,
                 outbox, device>>

(* The write fails: a patch and a raw command return, the configuration is *)
(* given up, the other commands overwrite the status with ReadStatus'.     *)
SendFails ==
  /\ pc = "send" /\ link = "down"
  /\ IF Kind \in {"patch", "raw", "configure"}
     THEN status' = "WRITE_ERROR" /\ pc' = "drain"
     ELSE pc' = "answer" /\ UNCHANGED status
  /\ UNCHANGED <<session, step, result, reader, link, sent, asked, answered,
                 gaveUp, inbox, outbox, device>>

(* ReadStatus finds an answer, the next there is.                          *)
Take ==
  /\ link = "up" /\ outbox # <<>>
  /\ answered' = Head(outbox).to
  /\ outbox' = Tail(outbox)

(* ... or gives up (mutated: it reads without a timeout).                  *)
NeverSilent == FALSE
Silent == link = "down" \/ outbox = <<>>

(* The configuration is acknowledged; or refused, with a packet size to    *)
(* try again with, or without one and the host reads on.                   *)
ConfigureAnswered ==
  /\ pc = "answer" /\ Kind = "configure"
  /\ Take
  /\ LET a == Head(outbox) IN
       IF StatusOf(a) = "SUCCESS"
       THEN status' = "SUCCESS" /\ pc' = "drain" /\ UNCHANGED reader
       ELSE IF Reduces(a.hint)
       THEN /\ dwMaxPacketSize' = a.hint /\ cfgSize' = a.hint
            /\ pc' = "connect"
            /\ UNCHANGED <<status, capacity, retry>>
       ELSE /\ retry' = retry + 1
            /\ IF RetriesOver(retry + 1)
               THEN status' = "NOT_READY" /\ pc' = "end"
               ELSE UNCHANGED <<status, pc>>
            /\ UNCHANGED <<cfgSize, dwMaxPacketSize, capacity>>
  /\ UNCHANGED <<session, step, result, link, sent, asked, gaveUp, inbox, device>>

ConfigureSilent ==
  /\ pc = "answer" /\ Kind = "configure"
  /\ Silent
  /\ retry' = retry + 1
  /\ IF RetriesOver(retry + 1)
     THEN status' = "NOT_READY" /\ gaveUp' = TRUE /\ pc' = "end"
     ELSE UNCHANGED <<status, gaveUp, pc>>
  /\ UNCHANGED <<session, step, result, cfgSize, dwMaxPacketSize, capacity, link,
                 sent, asked, answered, inbox, outbox, device>>

(* FastCopy: the answer to the command, waited for without end, ...        *)
ProgramAnswered ==
  /\ pc = "answer" /\ Kind = "program"
  /\ Take
  /\ status' = StatusOf(Head(outbox))
  /\ pc' = IF status' = "SUCCESS" THEN "payload" ELSE "end"
  /\ UNCHANGED <<session, step, result, reader, link, sent, asked, gaveUp, inbox,
                 device>>

(* ... the payload, ...                                                    *)
SendPayload ==
  /\ pc = "payload"
  /\ IF link = "up"
     THEN Write("payload") /\ pc' = "final" /\ UNCHANGED status
     ELSE status' = "WRITE_ERROR" /\ pc' = "end" /\ UNCHANGED <<sent, asked, inbox>>
  /\ UNCHANGED <<session, step, result, reader, link, answered, gaveUp, outbox,
                 device>>

(* ... and the last answer of a command, read once.                        *)
LastAnswer == pc = "final" \/ (pc = "answer" /\ Kind \notin {"configure", "program"})

CommandAnswered ==
  /\ LastAnswer
  /\ Take
  /\ status' = StatusOf(Head(outbox))
  /\ pc' = "drain"
  /\ UNCHANGED <<session, step, result, reader, link, sent, asked, gaveUp, inbox,
                 device>>

CommandSilent ==
  /\ LastAnswer
  /\ Silent
  /\ status' = "NOT_READY" /\ gaveUp' = TRUE
  /\ pc' = "drain"
  /\ UNCHANGED <<session, step, result, reader, link, sent, asked, answered, inbox,
                 outbox, device>>

(* "Read and display any other log packets we may have".                   *)
Drain ==
  /\ pc = "drain"
  /\ outbox' = IF Kind \in Drains THEN Drained ELSE outbox
  /\ pc' = "end"
  /\ UNCHANGED <<session, step, status, result, reader, link, sent, asked,
                 answered, gaveUp, inbox, device>>

(* What a failure does to the session (mutated: a file goes on).           *)
GoOn(onFail) == "next"
AfterFailure(onFail) == onFail

(* The first command behind the patches that follow step.                  *)
BehindPatches ==
  CHOOSE s \in step + 1 .. Len(Script[session]) + 1 :
    /\ s > Len(Script[session]) \/ Script[session][s].kind # "patch"
    /\ \A t \in step + 1 .. s - 1 : Script[session][t].kind = "patch"

(* The command returns to emmcdl.                                          *)
Return ==
  /\ pc = "end"
  /\ LET c == Script[session][step]
         way == IF status = "SUCCESS" THEN "next" ELSE AfterFailure(c.onFail)
     IN /\ result' = IF c.kept THEN status ELSE result
        /\ step' = IF way = "file" THEN BehindPatches ELSE step + 1
        /\ pc' = IF way = "stop" THEN "done" ELSE Begin(step')
  /\ UNCHANGED <<session, status, reader, link, sent, asked, answered, gaveUp,
                 inbox, outbox, device>>

Host ==
  \/ Connect \/ Send \/ SendFails
  \/ ConfigureAnswered \/ ConfigureSilent
  \/ ProgramAnswered \/ SendPayload
  \/ CommandAnswered \/ CommandSilent
  \/ Drain \/ Return

-----------------------------------------------------------------------------
(* The device takes the next document and answers it.  It refuses what it  *)
(* likes, packets too large and payload it does not expect in any case; a  *)
(* refusal may name any packet size.                                       *)
Answer ==
  /\ inbox # <<>>
  /\ LET m == Head(inbox) IN
       \E verdict \in {"ACK", "NAK"}, hint \in {0} \union Sizes :
         /\ hint > 0 => verdict = "NAK" /\ m.kind = "configure"
         /\ verdict = "ACK" => /\ m.kind = "configure" => m.size <= deviceMax
                               /\ m.kind = "payload" => accepting
         /\ outbox' = Append(outbox, [to |-> m.n, verdict |-> verdict, hint |-> hint])
         /\ accepting' = (m.kind = "program" /\ verdict = "ACK")
         /\ deviceSize' = IF m.kind = "configure" /\ verdict = "ACK" THEN m.size
                                                                    ELSE deviceSize
         /\ accepted' = IF verdict = "ACK" THEN accepted \union {<<m.step, m.kind>>}
                                           ELSE accepted
  /\ inbox' = Tail(inbox)
  /\ UNCHANGED <<session, step, pc, status, result, reader, link, sent, asked,
                 answered, gaveUp, deviceMax>>

LinkDown ==
  /\ link = "up" /\ link' = "down"
  /\ UNCHANGED <<session, step, pc, status, result, reader, sent, asked, answered,
                 gaveUp, inbox, outbox, device>>

Next == Host \/ Answer \/ LinkDown

(* The host runs, and the device answers what it is asked.                 *)
Fairness == WF_vars(Host) /\ WF_vars(Answer)

Spec == Init /\ [][Next]_vars
FairSpec == Spec /\ Fairness

-----------------------------------------------------------------------------
(* Types; ConnectToFlashProg stays within its retries.                     *)
TypeOK ==
  /\ session \in Sessions /\ step \in 1 .. Len(Script[session]) + 1
  /\ pc \in {"connect", "send", "answer", "payload", "final", "drain", "end", "done"}
  /\ {status, result} \subseteq {"SUCCESS", "INVALID_DATA", "NOT_READY", "WRITE_ERROR"}
  /\ cfgSize \in {0} \union Sizes /\ dwMaxPacketSize \in Sizes
  /\ capacity \in {0} \union Sizes
  /\ retry \in 0 .. MAX_RETRY
  /\ asked \in 0 .. sent /\ answered \in 0 .. sent
  /\ deviceSize \in {0} \union Sizes

(* The buffers are allocated once and hold every packet size that is       *)
(* negotiated later (ConnectToFlashProg).                                  *)
BuffersHold == capacity > 0 /\ pc # "connect" => dwMaxPacketSize <= capacity

(* Host and device work with the same packet size whenever another command *)
(* than the configuration is on, and it is one that the buffers hold.      *)
AgreedSize ==
  ~gaveUp /\ pc \in {"send", "answer", "payload", "final"} /\ Kind # "configure"
    => deviceSize = dwMaxPacketSize

SizesFit == BuffersHold /\ AgreedSize

(* The answer a command takes is the answer to what it sent, as long as no *)
(* command has been given up with its answer still to come.                *)
OwnAnswer ==
  ~gaveUp /\ link = "up" /\ pc \in {"payload", "drain"} /\ answered # 0
    => answered = asked

(* An invocation that reports success has had every command it reports on  *)
(* accepted by the device, and every payload.                              *)
Needed(s) ==
  {<<s, Script[session][s].kind>>}
    \union (IF Script[session][s].kind = "program" THEN {<<s, "payload">>} ELSE {})

SuccessIsEarned ==
  pc = "done" /\ result = "SUCCESS" /\ ~gaveUp =>
    \A s \in 1 .. Len(Script[session]) :
      Script[session][s].kept => Needed(s) \subseteq accepted

(* An invocation ends: the negotiation of the packet size does, and every  *)
(* wait is answered, if the link stays up.                                 *)
SessionEnds == <>(pc = "done" \/ link = "down")
=============================================================================
