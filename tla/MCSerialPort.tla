---------------------------- MODULE MCSerialPort ----------------------------
(* Instances of FirehoseStream: a log, an ACK followed by payload as after *)
(* a read command, the ACK that ends it, and a NAK; and of Hdlc: packets   *)
(* of a byte and its checksum with nothing and with everything to escape,   *)
(* and an answer that is longer than HDLCBuf.                              *)
EXTENDS SerialPort

Log == <<"x", "end1", "end2">>
Ack == <<"x", "ack1", "ack2", "end1", "end2">>
Nak == <<"nak1", "nak2", "end1", "end2">>
Raw == <<"x", "x">>

MCStream == Log \o Ack \o Raw \o Ack \o Nak

MCPayload == {9, 10}
MCDocuments == {3, 8, 10, 15, 19}

(* The stream is one for which StatusEndsDocument is proved.               *)
ASSUME MCStreamFits == DocumentsFit

MCBytes == {"x", "y", FLAG, ESC, "5e", "5d"}
MCMasked ==
  [b \in MCBytes |-> CASE b = "x" -> "y" [] b = "y" -> "x"
                       [] b = FLAG -> "5e" [] b = "5e" -> FLAG
                       [] b = ESC -> "5d" [] b = "5d" -> ESC]
MCRequests == {<<"x", "5d">>, <<FLAG, ESC, ESC>>}
MCAnswers == {<<"y", "5e">>, <<ESC, FLAG>>, [k \in 1 .. 8 |-> "y"]}
=============================================================================
