-------------------------- MODULE CalendarDayProofs --------------------------
(* Theorems about CalendarDay: what the engine promises of one provider's   *)
(* date holds whatever rows are stored for it and in whatever order they    *)
(* came.                                                                    *)
EXTENDS CalendarDay, CalendarProofs

(* Rows are only ever the ones the model draws from. *)
THEOREM Typed == Spec => []TypeOK
<1>1. Init => TypeOK
  BY DEF Init, TypeOK
<1>2. TypeOK /\ [Next]_vars => TypeOK'
  <2> SUFFICES ASSUME TypeOK, [Next]_vars PROVE TypeOK'
    OBVIOUS
  <2>1. ASSUME NEW w \in WindowRows, AddWindow(w) PROVE TypeOK'
    BY <2>1 DEF TypeOK, AddWindow
  <2>2. ASSUME NEW b \in BlockRows, AddBlock(b) PROVE TypeOK'
    BY <2>2 DEF TypeOK, AddBlock
  <2>3. ASSUME NEW b \in BookedRows, AddBooking(b) PROVE TypeOK'
    BY <2>3 DEF TypeOK, AddBooking
  <2>4. ASSUME NEW t \in Clock, Tick(t) PROVE TypeOK'
    BY <2>4 DEF TypeOK, Tick
  <2>5. CASE UNCHANGED vars
    BY <2>5 DEF TypeOK, vars
  <2> QED
    BY <2>1, <2>2, <2>3, <2>4, <2>5 DEF Next
<1> QED
  BY <1>1, <1>2, PTL DEF Spec

(* The rows as the engine needs them. *)
LEMMA RowsOK ==
  ASSUME TypeOK
  PROVE  /\ \E n \in Nat : DOMAIN windows = 1 .. n
         /\ \A i \in DOMAIN windows : WindowOK(windows[i])
         /\ ~LookupRaises => \A b \in BusyRanges : b.start \in Minutes /\ b.end \in Minutes
         /\ earliest \in Int
<1>1. windows \in Seq(WindowRows)
  BY DEF TypeOK
<1>2. Len(windows) \in Nat /\ DOMAIN windows = 1 .. Len(windows)
  BY <1>1
<1>3. ASSUME NEW i \in DOMAIN windows PROVE WindowOK(windows[i])
  <2>1. windows[i] \in WindowRows
    BY <1>1, <1>3
  <2> QED
    BY <2>1, CalendarDayAssumption
<1>4. ASSUME NEW b \in blocks
      PROVE  BlockRange(b).start \in Minutes /\ BlockRange(b).end \in Minutes
  <2>1. {b.start, b.end} \subseteq Minutes \union {Null, Unreadable}
    BY <1>4, CalendarDayAssumption DEF TypeOK, BlockOK
  <2>2. 0 \in Minutes /\ MinutesInADay \in Minutes
    BY MinutesAssumption DEF Minutes
  <2> QED
    BY <2>1, <2>2 DEF BlockRange
<1>5. ASSUME ~LookupRaises, NEW b \in booked PROVE b.start \in Minutes /\ b.end \in Minutes
  BY <1>5, CalendarDayAssumption DEF TypeOK, LookupRaises
<1>6. earliest \in Int
  BY CalendarDayAssumption, MinutesAssumption DEF TypeOK, Minutes
<1> QED
  BY <1>2, <1>3, <1>4, <1>5, <1>6 DEF BusyRanges

(* A minute of the day is spoken for just when a busy range holds it. *)
LEMMA SpokenIsBusy ==
  ASSUME TypeOK, ~LookupRaises, NEW m \in Int, 0 <= m, m < MinutesInADay
  PROVE  Spoken(m) <=> \E r \in BusyRanges : r.start <= m /\ m < r.end
<1>1. ASSUME NEW b \in blocks
      PROVE  Blocks(b, m) <=> BlockRange(b).start <= m /\ m < BlockRange(b).end
  <2>1. {b.start, b.end} \subseteq Minutes \union {Null, Unreadable}
    BY <1>1, CalendarDayAssumption DEF TypeOK, BlockOK
  <2>2. CASE b.start = Null \/ Unreadable \in {b.start, b.end}
    BY <2>2 DEF Blocks, BlockRange
  <2>3. CASE ~(b.start = Null \/ Unreadable \in {b.start, b.end})
    <3>1. BlockRange(b).start = b.start
      BY <2>3 DEF BlockRange
    <3>2. BlockRange(b).end = IF b.end = Null THEN MinutesInADay ELSE b.end
      BY <2>3 DEF BlockRange
    <3>3. Blocks(b, m) <=> b.start <= m /\ (b.end = Null \/ m < b.end)
      BY <2>3 DEF Blocks
    <3> QED
      BY <3>1, <3>2, <3>3
  <2> QED
    BY <2>2, <2>3
<1> QED
  BY <1>1 DEF Spoken, BusyRanges, LookupRaises

LEMMA AcceptedHolds ==
  ASSUME TypeOK, NEW s \in Minutes, NEW e \in Minutes, Accepts(s, e),
         NEW m \in s .. e - 1
  PROVE  Offered(m) /\ ~Spoken(m) /\ m > earliest
<1>0. ~LookupRaises /\ IsSlotFree(Free, s, e)
  BY DEF Accepts
<1>1. PICK n \in Nat : DOMAIN windows = 1 .. n
  BY RowsOK
<1>2. \A b \in BusyRanges : b.start \in Int /\ b.end \in Int
  BY <1>0, RowsOK, MinutesAssumption DEF Minutes
<1>3. /\ m > earliest
      /\ \E i \in DOMAIN windows :
           Usable(windows[i]) /\ windows[i].start <= m /\ m < windows[i].end
      /\ \A b \in BusyRanges : ~(b.start <= m /\ m < b.end)
  BY <1>0, <1>1, <1>2, RowsOK, AcceptedIsFree DEF Free
<1>4. m \in Int /\ 0 <= m /\ m < MinutesInADay
  BY MinutesAssumption DEF Minutes
<1> QED
  BY <1>0, <1>3, <1>4, SpokenIsBusy DEF Offered

(* Nothing is_slot_free accepts contains a minute that is blocked, booked, *)
(* outside the provider's hours or past, for every length of day and every *)
(* set of rows, the unreadable ones and the ones whose end comes before    *)
(* their start included (calendar_logic.py:27-176).                        *)
THEOREM AcceptedTimesAreFree == Spec => []AcceptedTimeIsFree
<1>1. TypeOK => AcceptedTimeIsFree
  BY AcceptedHolds DEF AcceptedTimeIsFree
<1> QED
  BY <1>1, Typed, PTL

(* Every start slot_starts_for offers a guest can hold the whole session   *)
(* (calendar_logic.py:179-197).                                            *)
THEOREM OfferedStartsAreFree == Spec => []OfferedStartsHold
<1>1. TypeOK => OfferedStartsHold
  <2> SUFFICES ASSUME TypeOK, NEW d \in Durations, NEW slot \in Offers(d),
                      NEW m \in slot.start .. slot.end - 1
               PROVE  Offered(m) /\ ~Spoken(m)
    BY DEF OfferedStartsHold
  <2>1. /\ slot.end <= MinutesInADay /\ Accepts(slot.start, slot.end)
        /\ \E f \in UNION Range(Free) : slot = [start |-> f.start, end |-> f.start + d]
    BY DEF Offers, Accepts, SlotStartsFor
  <2>2. PICK f \in UNION Range(Free) : slot = [start |-> f.start, end |-> f.start + d]
    BY <2>1
  <2>3. FreeOK(Free)
    BY RowsOK, FreeSlotsOK DEF Free
  <2>4. f.start \in Minutes
    BY <2>3 DEF FreeOK, Range
  <2>5. slot.start \in Minutes /\ slot.end \in Minutes
    BY <2>1, <2>2, <2>4, CalendarDayAssumption, MinutesAssumption DEF Minutes
  <2> QED
    BY <2>1, <2>5, AcceptedHolds
<1> QED
  BY <1>1, Typed, PTL

-----------------------------------------------------------------------------
(* One slot length.                                                        *)

(* Every row that blocks time or holds an appointment covers a minute.  A  *)
(* row that covers none can still cut a slot in two: the slot 2-4 overlaps *)
(* an appointment 3-3, which takes none of its minutes. *)
ProperRows ==
  /\ \A b \in BlockRows : BlockRange(b).start < BlockRange(b).end
  /\ \A b \in BookedRows : Unreadable \in {b.start, b.end} \/ b.start < b.end

LEMMA OverlapIsAMinute ==
  ASSUME ProperRows, TypeOK, ~LookupRaises, NEW slot, slot.start \in Minutes, slot.end \in Minutes,
         slot.start < slot.end, NEW r \in BusyRanges
  PROVE  Overlaps(slot, r) <=> \E m \in slot.start .. slot.end - 1 : r.start <= m /\ m < r.end
<1>1. r.start \in Int /\ r.end \in Int /\ slot.start \in Int /\ slot.end \in Int
  BY RowsOK, MinutesAssumption DEF Minutes
<1>2. r.start < r.end
  BY DEF ProperRows, BusyRanges, TypeOK, LookupRaises
<1>3. CASE r.start <= slot.start
  BY <1>1, <1>2, <1>3 DEF Overlaps
<1>4. CASE slot.start <= r.start
  BY <1>1, <1>2, <1>4 DEF Overlaps
<1> QED
  BY <1>1, <1>3, <1>4

(* The slots of one window are the free cells it has. *)
LEMMA BookableIsUnspoken ==
  ASSUME ProperRows, TypeOK, ~LookupRaises, NEW slot, slot.start \in Minutes, slot.end \in Minutes,
         slot.start < slot.end
  PROVE  Bookable(slot, BusyRanges, earliest) <=>
           slot.start > earliest /\ \A m \in slot.start .. slot.end - 1 : ~Spoken(m)
<1>1. \A m \in slot.start .. slot.end - 1 : m \in Int /\ 0 <= m /\ m < MinutesInADay
  BY MinutesAssumption DEF Minutes
<1>2. \A m \in slot.start .. slot.end - 1 :
        Spoken(m) <=> \E r \in BusyRanges : r.start <= m /\ m < r.end
  BY <1>1, SpokenIsBusy
<1> QED
  BY <1>2, OverlapIsAMinute DEF Bookable

LEMMA CellsAreStarts ==
  ASSUME ProperRows, TypeOK, ~LookupRaises, NEW c \in Minutes
  PROVE  FreeCell(c) <=> c \in DOMAIN NextBoundary(Free)
<1>1. c \in DOMAIN NextBoundary(Free) <=>
        \E i \in DOMAIN windows : \E slot \in Tile(windows[i], BusyRanges, earliest) : slot.start = c
  BY DEF NextBoundary, Range, Free, FreeSlots
<1>2. ASSUME NEW i \in DOMAIN windows, NEW slot \in Tile(windows[i], BusyRanges, earliest),
             slot.start = c
      PROVE  FreeCell(c)
  <2>1. WindowOK(windows[i])
    BY RowsOK
  <2>2. PICK w : w = windows[i]
    OBVIOUS
  <2>3. /\ Usable(w) /\ w.start \in Minutes /\ w.end \in Minutes
        /\ (c - w.start) % w.step = 0
        /\ slot.end = c + w.step /\ slot.end \in Minutes /\ c < slot.end
        /\ w.start <= c /\ slot.end <= w.end
        /\ Bookable(slot, BusyRanges, earliest)
    BY <1>2, <2>1, <2>2, TileSound
  <2>4. c > earliest /\ \A m \in c .. slot.end - 1 : ~Spoken(m)
    BY <1>2, <2>3, BookableIsUnspoken
  <2>5. /\ w.start <= c /\ c + w.step <= w.end /\ (c - w.start) % w.step = 0
        /\ c > earliest /\ \A m \in c .. c + w.step - 1 : ~Spoken(m)
    <3>1. c .. c + w.step - 1 = c .. slot.end - 1
      BY <2>1, <2>2, <2>3, MinutesAssumption DEF WindowOK, Minutes
    <3>2. c + w.step <= w.end
      BY <2>3
    <3> QED
      BY <2>3, <2>4, <3>1, <3>2, Zenon
  <2> QED
    BY <2>2, <2>3, <2>5, Zenon DEF FreeCell
<1>3. ASSUME FreeCell(c)
      PROVE  \E i \in DOMAIN windows :
               \E slot \in Tile(windows[i], BusyRanges, earliest) : slot.start = c
  <2>1. PICK i \in DOMAIN windows :
          /\ Usable(windows[i]) /\ windows[i].start <= c /\ c + windows[i].step <= windows[i].end
          /\ (c - windows[i].start) % windows[i].step = 0
          /\ c > earliest
          /\ \A m \in c .. c + windows[i].step - 1 : ~Spoken(m)
    BY <1>3 DEF FreeCell
  <2>2. PICK w : w = windows[i]
    OBVIOUS
  <2>3. WindowOK(w)
    BY <2>2, RowsOK
  <2>4. w.start \in Minutes /\ w.end \in Minutes /\ w.step \in Int /\ w.step > 0
    BY <2>1, <2>2, <2>3 DEF Usable, WindowOK
  <2>5. /\ w.start \in Int /\ w.end \in Int /\ c \in Int
        /\ 0 <= c /\ w.end <= MinutesInADay
    BY <2>4, MinutesAssumption DEF Minutes
  <2>a. PICK slot : slot = [start |-> c, end |-> c + w.step]
    OBVIOUS
  <2>b. slot.start = c /\ slot.end = c + w.step
    BY <2>a
  <2>6. slot \in Pieces(w)
    <3>1. c \in w.start .. w.end - w.step /\ (c - w.start) % w.step = 0
      BY <2>1, <2>2, <2>4, <2>5
    <3> QED
      BY <2>a, <3>1 DEF Pieces
  <2>7. slot.end \in Minutes /\ slot.start < slot.end
    BY <2>1, <2>2, <2>4, <2>5, <2>b, MinutesAssumption DEF Minutes
  <2>8. Bookable(slot, BusyRanges, earliest)
    <3>1. slot.start > earliest /\ \A m \in slot.start .. slot.end - 1 : ~Spoken(m)
      <4>1. slot.start .. slot.end - 1 = c .. c + windows[i].step - 1
        BY <2>2, <2>4, <2>5, <2>b
      <4> QED
        BY <2>1, <2>b, <4>1, Zenon
    <3>2. slot.start \in Minutes
      BY <2>b
    <3> QED
      BY <2>7, <3>1, <3>2, BookableIsUnspoken
  <2>9. slot \in Tile(windows[i], BusyRanges, earliest)
    BY <2>1, <2>2, <2>6, <2>8 DEF Tile
  <2> QED
    BY <2>9, <2>b
<1> QED
  BY <1>1, <1>2, <1>3

LEMMA BoundariesAreSteps ==
  ASSUME TypeOK, ~LookupRaises, OneGrid, NEW c \in DOMAIN NextBoundary(Free)
  PROVE  /\ \E k \in DOMAIN windows : Usable(windows[k])
         /\ GridStep \in Nat \ {0}
         /\ NextBoundary(Free)[c] = c + GridStep
<1>1. FreeOK(Free)
  BY RowsOK, FreeSlotsOK DEF Free
<1>2. PICK i \in DOMAIN Free : \E slot \in Free[i] :
        slot.start = c /\ slot.end = NextBoundary(Free)[c]
  BY <1>1, BoundaryIsASlot
<1>3. PICK slot \in Free[i] : slot.start = c /\ slot.end = NextBoundary(Free)[c]
  BY <1>2
<1>4. i \in DOMAIN windows /\ slot \in Tile(windows[i], BusyRanges, earliest)
  BY DEF Free, FreeSlots
<1>5. WindowOK(windows[i])
  BY <1>4, RowsOK
<1>6. Usable(windows[i]) /\ slot.end = slot.start + windows[i].step
  BY <1>4, <1>5, TileSound
<1>7. GridStep = windows[i].step
  BY <1>4, <1>6 DEF GridStep, OneGrid
<1>8. windows[i].step \in Nat \ {0}
  BY <1>5, <1>6 DEF WindowOK, Usable
<1> QED
  BY <1>3, <1>4, <1>6, <1>7, <1>8

LEMMA ExactlyWholeCells ==
  ASSUME ProperRows, TypeOK, ~LookupRaises, OneGrid, NEW s \in Minutes, NEW e \in Minutes, s < e
  PROVE  IsSlotFree(Free, s, e) <=>
           /\ \E k \in DOMAIN windows : Usable(windows[k])
           /\ (e - s) % GridStep = 0
           /\ \A n \in 0 .. (e - s) \div GridStep - 1 : FreeCell(s + n * GridStep)
<1> DEFINE next == NextBoundary(Free)
           g == GridStep
<1>a. Forward(next)
  BY RowsOK, FreeSlotsOK, BoundariesGoForward DEF Free
<1>b. \A c \in DOMAIN next : g \in Nat \ {0} /\ next[c] = c + g
  BY BoundariesAreSteps
<1>c. s \in Nat /\ e \in Nat /\ e - s \in Nat /\ e <= MinutesInADay
  BY MinutesAssumption DEF Minutes
<1>1. ASSUME IsSlotFree(Free, s, e)
      PROVE  /\ \E k \in DOMAIN windows : Usable(windows[k])
             /\ (e - s) % g = 0
             /\ \A n \in 0 .. (e - s) \div g - 1 : FreeCell(s + n * g)
  <2>1. Walk(next, e)[s]
    <3>1. s # e
      BY <1>c
    <3> QED
      BY <1>1, <3>1 DEF IsSlotFree
  <2>2. s \in DOMAIN next
    <3>1. Step(next, e, Walk(next, e), s) /\ ~(s >= e)
      BY <1>a, <1>c, <2>1, WalkStep
    <3> QED
      BY <3>1, Zenon DEF Step
  <2>3. g \in Nat \ {0} /\ \E k \in DOMAIN windows : Usable(windows[k])
    BY <2>2, BoundariesAreSteps
  <2> HIDE DEF next, g
  <2>4. Stepped(DOMAIN next, g, s, e)
    BY <1>a, <1>b, <2>1, <2>3, WalkIsStepped
  <2>5. PICK k \in Nat : e = s + k * g /\ \A n \in 0 .. k - 1 : s + n * g \in DOMAIN next
    BY <2>4 DEF Stepped
  <2>6. e - s = k * g
    BY <1>c, <2>3, <2>5
  <2>7. (e - s) % g = 0 /\ (e - s) \div g = k
    BY <1>c, <2>3, <2>6, WholeSteps
  <2>8. \A n \in 0 .. k - 1 : FreeCell(s + n * g)
    <3>1. DOMAIN next \subseteq Minutes
      BY <1>a DEF Forward
    <3> QED
      BY <2>5, <3>1, CellsAreStarts DEF next
  <2> QED
    BY <2>3, <2>7, <2>8
<1>2. ASSUME \E k \in DOMAIN windows : Usable(windows[k]),
             (e - s) % g = 0,
             \A n \in 0 .. (e - s) \div g - 1 : FreeCell(s + n * g)
      PROVE  IsSlotFree(Free, s, e)
  <2>1. g \in Nat \ {0}
    <3>1. PICK k \in DOMAIN windows : Usable(windows[k]) /\ g = windows[k].step
      BY <1>2 DEF GridStep
    <3>2. WindowOK(windows[k])
      BY RowsOK
    <3> QED
      BY <3>1, <3>2 DEF WindowOK, Usable
  <2>2. PICK k : k = (e - s) \div g
    OBVIOUS
  <2> HIDE DEF next, g
  <2>3. k \in Nat /\ e - s = k * g
    BY <1>2, <1>c, <2>1, <2>2, WholeSteps
  <2>4. e = s + k * g /\ k # 0
    BY <1>c, <2>1, <2>3
  <2>5. ASSUME NEW n \in 0 .. k - 1 PROVE s + n * g \in DOMAIN next
    <3>1. n * g \in Nat /\ n * g <= k * g
      BY <2>1, <2>3
    <3>2. s + n * g \in Minutes
      BY <1>c, <2>3, <3>1, MinutesAssumption DEF Minutes
    <3>3. FreeCell(s + n * g)
      BY <1>2, <2>2
    <3> QED
      BY <3>2, <3>3, CellsAreStarts DEF next
  <2>6. \A n \in 0 .. k - 1 : next[s + n * g] = (s + n * g) + g
    BY <1>b, <2>5
  <2>7. Walk(next, e)[s]
    BY <1>a, <2>1, <2>3, <2>4, <2>5, <2>6, StepsAreWalked
  <2>8. UNION Range(Free) # {}
    <3>1. s + 0 * g \in DOMAIN next
      BY <2>3, <2>4, <2>5
    <3> QED
      BY <3>1 DEF next, NextBoundary
  <2> QED
    BY <2>7, <2>8 DEF IsSlotFree, next
<1> QED
  BY <1>1, <1>2

(* When the provider keeps to one slot length, however the windows lie,    *)
(* is_slot_free accepts exactly the runs of whole free cells: nothing that *)
(* can be booked is refused (calendar_logic.py:145-176). *)
THEOREM OneGridIsWalkedExactly == ASSUME ProperRows PROVE Spec => []OneGridIsExact
<1>1. TypeOK => OneGridIsExact
  BY ExactlyWholeCells DEF OneGridIsExact, Accepts
<1> QED
  BY <1>1, Typed, PTL
=============================================================================
