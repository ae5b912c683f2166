------------------------------ MODULE BlockCopy ------------------------------
(***************************************************************************)
(* What every copy of the tool promises its caller, whatever carries it:   *)
(* Protocol::FastCopy, WriteData and ReadData, over Firehose, over         *)
(* streaming download or onto a disk (src/inc/protocol.h).                 *)
(*                                                                         *)
(* The blocks of src are to appear in dst.  On the way dst may hold        *)
(* anything, and the copy may be given up; but SUCCESS is reported only of *)
(* a dst that equals src, and a reported result is final.                  *)
(***************************************************************************)
VARIABLES
  src,    \* the blocks to copy, a function; it does not change
  dst,    \* what the target holds of them, a function on the same domain
  result  \* "running", "SUCCESS" or "ERROR"

vars == <<src, dst, result>>

Init ==
  /\ DOMAIN dst = DOMAIN src
  /\ result = "running"

(* Blocks reach the target, or it is damaged; after a failure that was     *)
(* reported too, for what is under way then may still arrive.              *)
Transfer ==
  /\ result # "SUCCESS"
  /\ DOMAIN dst' = DOMAIN dst
  /\ UNCHANGED <<src, result>>

Succeed ==
  /\ result = "running"
  /\ dst = src
  /\ result' = "SUCCESS"
  /\ UNCHANGED <<src, dst>>

Fail ==
  /\ result = "running"
  /\ result' = "ERROR"
  /\ UNCHANGED <<src, dst>>

Next == Transfer \/ Succeed \/ Fail

Spec == Init /\ [][Next]_vars

(* A copy that nothing can keep waiting for ever reports something.        *)
EndingSpec == Spec /\ <>(result # "running")
=============================================================================
