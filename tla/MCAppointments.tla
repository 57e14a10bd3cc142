--------------------------- MODULE MCAppointments ---------------------------
(* Instances of Appointments for TLC: one provider, one day of four        *)
(* "minutes", written one way or two.                                      *)
EXTENDS Appointments

CONSTANTS prov, cli, cli2, adm, t1, t2,
          day, loose,  \* a day's padded text, and another way to write it
          bad, short   \* no time at all, and a time that is not padded

MCDay == [d \in Dates |-> day]
MCWeekday == [d \in Dates |-> 1]
MCReads == [o \in OddTimes |-> IF o = bad THEN Unreadable ELSE 2]

MCAccounts ==
  [u \in Users |-> [role |-> IF u = prov THEN "provider"
                             ELSE IF u = adm THEN "admin" ELSE "client",
                    is_active |-> TRUE]]

Window(id, start, end, step) ==
  [id |-> id, provider |-> prov, dow |-> 1, start |-> start, end |-> end, step |-> step]
Block(id, start, end) ==
  [id |-> id, provider |-> prov, date |-> day, start |-> start, end |-> end]
Ask(start, end) == [start |-> start, end |-> end]

(* One grid of two-minute slots, and bookings of one slot. *)
GridWindows == {Window(1, 0, 4, 2)}
SlotAsks == {Ask(0, 2)}

(* A second window of another grid, and bookings of several slots. *)
MixedWindows == {Window(1, 0, 4, 1), Window(2, 1, 3, 2)}
MixedAsks == {Ask(0, 2), Ask(1, 3), Ask(short, short), Ask(bad, bad)}

LongAsks == {Ask(0, 2), Ask(1, 3)}
FineWindows == {Window(1, 0, 4, 1)}

WholeDay == {Block(1, 2, 3), Block(2, Null, Null)}
NoBlocks == {}

OffToday == {-1}
Today == {-1, 0}

(* The threads, and the two clients, are interchangeable. *)
Symmetry == Permutations({t1, t2}) \union Permutations({cli, cli2})
=============================================================================
