------------------------------ MODULE Calendar ------------------------------
(***************************************************************************)
(* The free-slot engine of calendar_logic.py: weekly windows, one-off      *)
(* blocks and confirmed appointments turned into bookable slots.           *)
(*                                                                         *)
(* Times are minutes since midnight.  The code keeps them as zero-padded   *)
(* "HH:MM" text and compares the text; on times of day the two orders are  *)
(* the same, so a number stands for the text.  A stored time that is not   *)
(* one reads as Unreadable, and a NULL column is Null.                     *)
(*                                                                         *)
(* A definition whose name ends in _Fault is the definition after it with  *)
(* one plausible mistake, kept to show that the runs would notice it.      *)
(***************************************************************************)
EXTENDS Integers, Sequences, SequencesExt

CONSTANTS MinutesInADay, Null, Unreadable

(* Smaller days are only for model checking; the code has 24 * 60. *)
ASSUME MinutesAssumption ==
  /\ MinutesInADay \in Nat \ {0}
  /\ Null \notin Int /\ Unreadable \notin Int /\ Null # Unreadable

Minutes == 0 .. MinutesInADay

(* Rows as they may be stored: today's routes accept fewer. *)
WindowOK(w) ==
  {w.start, w.end} \subseteq Minutes \union {Unreadable} /\ w.step \in Int
BlockOK(b) == {b.start, b.end} \subseteq Minutes \union {Null, Unreadable}

-----------------------------------------------------------------------------
(* One blocked_slots row as a pair of minutes.  Anything unclear is the    *)
(* whole day.                                                              *)
BlockRange(block) ==
  IF block.start = Null \/ Unreadable \in {block.start, block.end}
  THEN [start |-> 0, end |-> MinutesInADay]
  ELSE [start |-> block.start,
        end   |-> IF block.end = Null THEN MinutesInADay ELSE block.end]

(* Half-open intervals share a minute. *)
Overlaps(r, s) == r.start < s.end /\ r.end > s.start

(* What _tile keeps: slots still to come that touch no busy time.  The     *)
(* fault tests only whether a slot starts inside busy time.                *)
Bookable_Fault(slot, busy, earliest) ==
  /\ slot.start > earliest
  /\ \A b \in busy : ~(b.start <= slot.start /\ slot.start < b.end)

Bookable(slot, busy, earliest) ==
  /\ slot.start > earliest
  /\ \A b \in busy : ~Overlaps(slot, b)

(* One availability window cut into free pieces of slot_minutes.  The      *)
(* fault loses the piece that ends exactly when the window does.           *)
Usable(window) == Unreadable \notin {window.start, window.end} /\ window.step > 0

Pieces_Fault(w) ==
  {[start |-> s, end |-> s + w.step] :
     s \in {m \in w.start .. w.end - w.step - 1 : (m - w.start) % w.step = 0}}

Pieces(w) ==
  {[start |-> s, end |-> s + w.step] :
     s \in {m \in w.start .. w.end - w.step : (m - w.start) % w.step = 0}}

Tile(window, busy, earliest) ==
  IF Usable(window) THEN {slot \in Pieces(window) : Bookable(slot, busy, earliest)} ELSE {}

(* get_free_slots, one set of slots for each window.  The code makes one   *)
(* list of them and sorts it by start; the sort is stable, so among slots  *)
(* with one start the order is still that of the windows.                  *)
FreeSlots(windows, busy, earliest) ==
  [i \in DOMAIN windows |-> Tile(windows[i], busy, earliest)]

(* The dict next_boundary: of the slots with one start, the last one wins. *)
NextBoundary(free) ==
  [c \in {slot.start : slot \in UNION Range(free)} |->
     LET with(i) == {slot \in free[i] : slot.start = c}
         last == CHOOSE i \in DOMAIN free :
                   with(i) # {} /\ \A j \in DOMAIN free : with(j) # {} => j <= i
     IN (CHOOSE slot \in with(last) : TRUE).end]

(* is_slot_free: walk consecutive free slots from start to end.  A text    *)
(* that is not the HH:MM of a minute is no slot's start or end, so it can  *)
(* only be walked from to itself, in no steps; and that, as of any minute, *)
(* is free wherever anything is.                                           *)
Walk(next, end) ==
  LET walk[c \in Minutes] ==
        IF c >= end THEN c = end
        ELSE /\ c \in DOMAIN next
             /\ next[c] <= end
             /\ walk[next[c]]
  IN walk

IsSlotFree(free, start, end) ==
  /\ UNION Range(free) # {}
  /\ \/ start = end
     \/ {start, end} \subseteq Minutes /\ Walk(NextBoundary(free), end)[start]

(* slot_starts_for: the starts that can hold the whole duration.  The code *)
(* reads the rows again for every start it tries; here they are read once. *)
(* The fault offers every free start, as the raw slot list would.          *)
SlotStartsFor_Fault(free, duration) ==
  {slot \in {[start |-> f.start, end |-> f.start + duration] : f \in UNION Range(free)} :
     slot.end <= MinutesInADay}

SlotStartsFor(free, duration) ==
  {slot \in {[start |-> f.start, end |-> f.start + duration] : f \in UNION Range(free)} :
     slot.end <= MinutesInADay /\ IsSlotFree(free, slot.start, slot.end)}

=============================================================================
