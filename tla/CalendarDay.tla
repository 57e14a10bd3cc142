---------------------------- MODULE CalendarDay ----------------------------
(***************************************************************************)
(* One provider's one date as calendar_logic.py sees it: rows appear in    *)
(* availability, blocked_slots and appointments, the clock moves, and at   *)
(* every state the engine of Calendar is compared with what it promises.   *)
(*                                                                         *)
(* Rows are drawn from sets given by the model: the ones today's routes    *)
(* accept, and the older ones the code says it still has to survive.       *)
(***************************************************************************)
EXTENDS Calendar, FiniteSets

CONSTANTS
  WindowRows,   \* availability rows, [start, end, step]
  BlockRows,    \* blocked_slots rows, [start, end], either may be Null or Unreadable
  BookedRows,   \* confirmed appointments, [start, end]; Unreadable if not times
  Clock,        \* values of "earliest": -1 off today, else minutes now
  Durations,    \* session lengths asked of slot_starts_for
  MaxWindows, MaxBlocks, MaxBooked

ASSUME CalendarDayAssumption ==
  /\ \A w \in WindowRows : WindowOK(w)
  /\ \A b \in BlockRows : BlockOK(b)
  /\ \A b \in BookedRows : {b.start, b.end} \subseteq Minutes \union {Unreadable}
  /\ Clock \subseteq Minutes
  /\ Durations \subseteq Nat

VARIABLES windows, blocks, booked, earliest

vars == <<windows, blocks, booked, earliest>>

Init ==
  /\ windows = << >>
  /\ blocks = {}
  /\ booked = {}
  /\ earliest = -1

(* The fault stores the two times in each other's columns. *)
AddWindow_Fault(w) ==
  /\ Len(windows) < MaxWindows
  /\ windows' = Append(windows, [w EXCEPT !.start = w.end, !.end = w.start])
  /\ UNCHANGED <<blocks, booked, earliest>>

AddWindow(w) ==
  /\ Len(windows) < MaxWindows
  /\ windows' = Append(windows, w)
  /\ UNCHANGED <<blocks, booked, earliest>>

AddBlock(b) ==
  /\ Cardinality(blocks) < MaxBlocks
  /\ blocks' = blocks \union {b}
  /\ UNCHANGED <<windows, booked, earliest>>

AddBooking(b) ==
  /\ Cardinality(booked) < MaxBooked
  /\ booked' = booked \union {b}
  /\ UNCHANGED <<windows, blocks, earliest>>

Tick(t) ==
  /\ t > earliest
  /\ earliest' = t
  /\ UNCHANGED <<windows, blocks, booked>>

Next ==
  \/ \E w \in WindowRows : AddWindow(w)
  \/ \E b \in BlockRows : AddBlock(b)
  \/ \E b \in BookedRows : AddBooking(b)
  \/ \E t \in Clock : Tick(t)

Spec == Init /\ [][Next]_vars

-----------------------------------------------------------------------------
(* get_free_slots on this date: what is busy, and what is left over.       *)
BusyRanges == {BlockRange(b) : b \in blocks} \union booked

Free == FreeSlots(windows, BusyRanges, earliest)

(* A block nobody can read is the whole day, but a booked row nobody can   *)
(* read makes _to_minutes raise, and with it every lookup of the date.     *)
(* (With no hours on the date no lookup gets so far, and nothing is free.) *)
LookupRaises == \E a \in booked : Unreadable \in {a.start, a.end}

Accepts(s, e) == ~LookupRaises /\ IsSlotFree(Free, s, e)

Offers(duration) == IF LookupRaises THEN {} ELSE SlotStartsFor(Free, duration)

-----------------------------------------------------------------------------
(* What the engine is measured against, minute by minute.                  *)

(* A blocked_slots row, read as add_block documents it: no start is a day  *)
(* off, no end runs to midnight, and a row nobody can read is a day off.   *)
Blocks(b, m) ==
  \/ b.start = Null
  \/ Unreadable \in {b.start, b.end}
  \/ b.start <= m /\ (b.end = Null \/ m < b.end)

Spoken(m) ==
  \/ \E b \in blocks : Blocks(b, m)
  \/ \E a \in booked : Unreadable \notin {a.start, a.end} /\ a.start <= m /\ m < a.end

Offered(m) ==
  \E i \in DOMAIN windows :
    Usable(windows[i]) /\ windows[i].start <= m /\ m < windows[i].end

(* Every usable window has one slot length, wherever its slots begin. *)
OneGrid ==
  \A i, j \in {k \in DOMAIN windows : Usable(windows[k])} : windows[i].step = windows[j].step

(* A whole cell of the grid, inside one window, with no minute spoken for. *)
FreeCell(s) ==
  \E i \in {k \in DOMAIN windows : Usable(windows[k])} :
    LET w == windows[i]
    IN /\ w.start <= s /\ s + w.step <= w.end
       /\ (s - w.start) % w.step = 0
       /\ s > earliest
       /\ \A m \in s .. s + w.step - 1 : ~Spoken(m)

GridStep == windows[CHOOSE k \in DOMAIN windows : Usable(windows[k])].step

TypeOK ==
  /\ windows \in Seq(WindowRows)
  /\ blocks \subseteq BlockRows
  /\ booked \subseteq BookedRows
  /\ earliest \in Clock \union {-1}

(* No interval is_slot_free accepts contains a minute that is blocked,     *)
(* booked, outside the provider's hours or already past, however many      *)
(* slots it spans and whatever rows are stored: the one thing the engine   *)
(* exists for (_busy_ranges, calendar_logic.py:60-68).                     *)
AcceptedTimeIsFree ==
  \A s, e \in Minutes :
    s < e /\ Accepts(s, e) =>
      \A m \in s .. e - 1 : Offered(m) /\ ~Spoken(m) /\ m > earliest

(* When the provider keeps to one slot length, is_slot_free accepts        *)
(* exactly the runs of whole free cells: nothing bookable is refused       *)
(* either, which is the fault the walk replaced                            *)
(* (calendar_logic.py:152-164), unless a booked row is not a time and the  *)
(* whole day is lost to an exception.                                      *)
OneGridIsExact ==
  OneGrid =>
    \A s, e \in Minutes :
      s < e => (Accepts(s, e) <=>
                  /\ ~LookupRaises
                  /\ \E k \in DOMAIN windows : Usable(windows[k])
                  /\ (e - s) % GridStep = 0
                  /\ \A n \in 0 .. (e - s) \div GridStep - 1 : FreeCell(s + n * GridStep))

(* The starts slot_starts_for offers a guest never run past the hours the  *)
(* provider offers or into time already spoken for, so picking one is not  *)
(* an invitation to be refused (calendar_logic.py:185-187).                *)
OfferedStartsHold ==
  \A d \in Durations : \A slot \in Offers(d) :
    \A m \in slot.start .. slot.end - 1 : Offered(m) /\ ~Spoken(m)

=============================================================================
