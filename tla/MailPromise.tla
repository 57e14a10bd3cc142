---------------------------- MODULE MailPromise ----------------------------
(***************************************************************************)
(* What callers of mailer.send() rely on: sending is claiming a key, a key *)
(* is claimed once, and one message arrives for it, unless a delivery has  *)
(* failed and the message is sent again.                                   *)
(***************************************************************************)
EXTENDS Integers

CONSTANT Keys

VARIABLES claimed, failed, arrived

Init == claimed = {} /\ failed = {} /\ arrived = [k \in Keys |-> 0]

Claim(k) ==
  /\ k \notin claimed
  /\ claimed' = claimed \union {k}
  /\ UNCHANGED <<failed, arrived>>

Arrive(k) ==
  /\ k \in claimed
  /\ arrived[k] = 0 \/ k \in failed
  /\ arrived' = [arrived EXCEPT ![k] = @ + 1]
  /\ UNCHANGED <<claimed, failed>>

(* A delivery that is taken for a failure may have arrived all the same. *)
Fail(k) ==
  /\ k \in claimed
  /\ failed' = failed \union {k}
  /\ \/ UNCHANGED arrived
     \/ /\ arrived[k] = 0 \/ k \in failed
        /\ arrived' = [arrived EXCEPT ![k] = @ + 1]
  /\ UNCHANGED claimed

Next == \E k \in Keys : Claim(k) \/ Arrive(k) \/ Fail(k)

Spec == Init /\ [][Next]_<<claimed, failed, arrived>>

=============================================================================
