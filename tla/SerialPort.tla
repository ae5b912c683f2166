----------------------------- MODULE SerialPort -----------------------------
(***************************************************************************)
(* The port as its two users have it: the Firehose readers take bytes as   *)
(* they come (FirehoseStream), the loaders exchange framed packets (Hdlc). *)
(* An invocation that uses both does so one after the other, with a device *)
(* that has started anew in between: each is looked at by itself.          *)
(***************************************************************************)
EXTENDS FirehoseStream, Hdlc

VARIABLE user     \* of the port: "firehose" or "loader"

portVars == <<vars, syncVars, user>>

PortInit == Init /\ SyncInit /\ user \in {"firehose", "loader"}

PortNext ==
  \/ user = "firehose" /\ Next /\ UNCHANGED <<syncVars, user>>
  \/ user = "loader" /\ SyncNext /\ UNCHANGED <<vars, user>>

PortSpec == PortInit /\ [][PortNext]_portVars /\ Fairness /\ SyncFairness
=============================================================================
