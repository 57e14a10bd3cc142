--------------------------- MODULE MCCalendarDay ---------------------------
(* A six-"minute" day: long enough for two windows with different grids,   *)
(* short enough to try every interval in every state.                      *)
EXTENDS CalendarDay

MCWindowRows ==
  [start : {0, 1}, end : {3, 5}, step : {1, 2}]
    \union {[start |-> 0, end |-> 6, step |-> 3],
            [start |-> 0, end |-> 6, step |-> 0],
            [start |-> Unreadable, end |-> 6, step |-> 1]}

MCBlockRows ==
  {[start |-> 1, end |-> 2], [start |-> 3, end |-> 5],
   [start |-> Null, end |-> Null], [start |-> 4, end |-> Null],
   [start |-> 2, end |-> Unreadable]}

MCBookedRows ==
  {[start |-> 0, end |-> 2], [start |-> 2, end |-> 3],
   [start |-> 3, end |-> 6], [start |-> 4, end |-> 5],
   [start |-> Unreadable, end |-> Unreadable]}

MCClock == {0, 2, 4}

MCDurations == 1 .. 4
=============================================================================
