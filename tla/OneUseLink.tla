----------------------------- MODULE OneUseLink -----------------------------
(***************************************************************************)
(* What a coffee-chat invite promises: a link that opens one calendar      *)
(* once.  It is used, or declined, or lapses, or is withdrawn; after that  *)
(* nobody can use it, and a used link stays used.  A link that was never   *)
(* used may still be marked withdrawn by its sender.                       *)
(***************************************************************************)
EXTENDS Integers, Sequences

VARIABLES fate,  \* of each link
          uses   \* how many appointments each link has made

Init == fate = << >> /\ uses = << >>

Issue == fate' = Append(fate, "open") /\ uses' = Append(uses, 0)

Use(i) ==
  /\ fate[i] = "open"
  /\ fate' = [fate EXCEPT ![i] = "booked"]
  /\ uses' = [uses EXCEPT ![i] = @ + 1]

Close(i, how) ==
  /\ fate[i] = "open"
  /\ fate' = [fate EXCEPT ![i] = how]
  /\ UNCHANGED uses

Withdraw(i) ==
  /\ fate[i] \notin {"open", "booked"}
  /\ fate' = [fate EXCEPT ![i] = "revoked"]
  /\ UNCHANGED uses

Next ==
  \/ Issue
  \/ \E i \in DOMAIN fate :
       Use(i) \/ Withdraw(i) \/ \E how \in {"declined", "expired", "revoked"} : Close(i, how)

Spec == Init /\ [][Next]_<<fate, uses>>

=============================================================================
