---------------------------- MODULE MCReminders ----------------------------
(* Instances of Reminders for TLC: an appointment written as the clock     *)
(* writes, and one whose date is not padded, so that its text is due long  *)
(* after it starts.                                                        *)
EXTENDS Reminders, TLC

CONSTANTS a1, loose, s1, w1

MCStartsAt == (a1 :> 9) @@ (loose :> 4)
MCSortsAt == (a1 :> 2 * 9) @@ (loose :> 2 * 8 + 1)
=============================================================================
