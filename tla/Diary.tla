------------------------------- MODULE Diary -------------------------------
(***************************************************************************)
(* What a booking platform promises about a provider's time, whatever goes *)
(* on underneath: the diary holds entries that never claim one minute      *)
(* twice, an entry is taken whole or not at all, an entry that is given    *)
(* up does not come back, and no number is used for two entries.           *)
(***************************************************************************)
VARIABLES entries,  \* [id, provider, day, minutes]
          used      \* ids that have been handed out

Clash(e, f) ==
  /\ e.provider = f.provider
  /\ e.day = f.day
  /\ e.minutes \intersect f.minutes # {}

Init == entries = {} /\ used = {}

Take(e) ==
  /\ e.id \notin used
  /\ \A f \in entries : ~Clash(e, f)
  /\ entries' = entries \union {e}
  /\ used' = used \union {e.id}

GiveUp(e) ==
  /\ entries' = entries \ {e}
  /\ UNCHANGED used

Next ==
  \/ \E e \in entries' : Take(e)
  \/ \E e \in entries : GiveUp(e)

Spec == Init /\ [][Next]_<<entries, used>>

=============================================================================
