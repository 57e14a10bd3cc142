--------------------------- MODULE CalendarProofs ---------------------------
(* What the free-slot engine computes, for any rows, any day length and    *)
(* any interval: the walk of is_slot_free is a recursive function, and the *)
(* facts about it here are proved from the last minute of the day at which *)
(* they could fail.                                                        *)
EXTENDS Calendar, WellFoundedInduction, TLAPS

(* A set of numbers that is bounded and not empty has a last one. *)
LEMMA LastOne ==
  ASSUME NEW n \in Nat, NEW T, T \subseteq 0 .. n, T # {}
  PROVE  \E c \in T : \A d \in T : d <= c
<1> DEFINE left == {n - c : c \in T}
<1>1. left \subseteq Nat /\ left # {}
  <2>1. \A c \in T : c \in Int /\ c <= n /\ n - c \in Nat
    OBVIOUS
  <2>2. PICK c \in T : TRUE
    OBVIOUS
  <2>3. n - c \in left
    BY <2>2
  <2> QED
    BY <2>1, <2>3
<1>2. PICK k \in left : \A m \in left : <<m, k>> \notin OpToRel(<, Nat)
  BY <1>1, WFMin, NatLessThanWellFounded, Zenon
<1>3. \A m \in left : ~(m < k)
  BY <1>1, <1>2 DEF OpToRel
<1>4. PICK c \in T : k = n - c
  BY <1>2
<1>5. ASSUME NEW d \in T PROVE d <= c
  <2>1. ~(n - d < n - c)
    BY <1>3, <1>4
  <2> QED
    BY <2>1, <1>4
<1> QED
  BY <1>4, <1>5

-----------------------------------------------------------------------------
(* The walk.                                                               *)

(* Every boundary lies after the minute it is looked up from. *)
Forward(next) ==
  \A c \in DOMAIN next : c \in Minutes /\ next[c] \in Minutes /\ c < next[c]

(* One step of the walk, when f says what becomes of the later ones. *)
Step(next, end, f, c) ==
  IF c >= end THEN c = end
  ELSE /\ c \in DOMAIN next
       /\ next[c] <= end
       /\ f[next[c]]

(* Walking forward comes to an end: the walk does what its text says. *)
LEMMA WalkIsDefined ==
  ASSUME NEW next, Forward(next), NEW end \in Minutes
  PROVE  Walk(next, end) = [c \in Minutes |-> Step(next, end, Walk(next, end), c)]
<1> DEFINE Solves(f, k) == f = [c \in k .. MinutesInADay |-> Step(next, end, f, c)]
           T == {k \in Minutes : ~ \E f : Solves(f, k)}
<1>1. T = {}
  <2> SUFFICES ASSUME T # {} PROVE FALSE
    OBVIOUS
  <2>1. PICK k \in T : \A d \in T : d <= k
    BY LastOne, MinutesAssumption DEF Minutes
  <2>2. k \in Minutes /\ ~ \E f : Solves(f, k)
    BY <2>1
  <2>3. PICK f : k < MinutesInADay => Solves(f, k + 1)
    <3>1. CASE k < MinutesInADay
      <4>1. k + 1 \in Minutes /\ k + 1 \notin T
        BY <2>1, <2>2, <3>1, MinutesAssumption DEF Minutes
      <4> QED
        BY <4>1
    <3> QED
      BY <3>1
  <2> DEFINE g == [c \in k .. MinutesInADay |->
                     IF c = k THEN Step(next, end, f, k) ELSE f[c]]
  <2>4. ASSUME NEW c \in k .. MinutesInADay PROVE g[c] = Step(next, end, g, c)
    <3>1. ASSUME c < end, c \in DOMAIN next, next[c] <= end
          PROVE  g[next[c]] = f[next[c]]
      BY <2>2, <3>1, MinutesAssumption DEF Forward, Minutes
    <3>2. Step(next, end, g, c) = Step(next, end, f, c)
      <4>1. CASE c < end /\ c \in DOMAIN next /\ next[c] <= end
        BY <3>1, <4>1 DEF Step
      <4>2. CASE ~(c < end /\ c \in DOMAIN next /\ next[c] <= end)
        <5>1. c >= end <=> ~(c < end)
          BY <2>2, MinutesAssumption DEF Minutes
        <5> HIDE DEF g
        <5>2. CASE c >= end
          BY <5>2 DEF Step
        <5>3. CASE ~(c >= end)
          BY <4>2, <5>1, <5>3, Zenon DEF Step
        <5> QED
          BY <5>2, <5>3
      <4> QED
        BY <4>1, <4>2
    <3>3. c # k => f[c] = Step(next, end, f, c)
      <4>1. ASSUME c # k PROVE c \in k + 1 .. MinutesInADay /\ k < MinutesInADay
        BY <2>2, <4>1, MinutesAssumption DEF Minutes
      <4>2. ASSUME c # k PROVE f = [d \in k + 1 .. MinutesInADay |-> Step(next, end, f, d)]
        BY <2>3, <4>1, <4>2
      <4> QED
        BY <4>1, <4>2
    <3> QED
      BY <3>2, <3>3
  <2>5. Solves(g, k)
    BY <2>4
  <2> QED
    BY <2>2, <2>5
<1>2. PICK f : Solves(f, 0)
  BY <1>1, MinutesAssumption DEF Minutes
<1>3. f = [c \in Minutes |-> Step(next, end, f, c)]
  BY <1>2 DEF Minutes
<1> HIDE DEF Solves, T
<1>4. \E walk : walk = [c \in Minutes |-> Step(next, end, walk, c)]
  BY <1>3
<1> QED
  BY <1>4 DEF Walk, Step

(* The equation, minute by minute. *)
LEMMA WalkStep ==
  ASSUME NEW next, Forward(next), NEW end \in Minutes, NEW c \in Minutes
  PROVE  Walk(next, end)[c] = Step(next, end, Walk(next, end), c)
<1> DEFINE w == Walk(next, end)
<1>1. w = [d \in Minutes |-> Step(next, end, w, d)]
  BY WalkIsDefined
<1> HIDE DEF w
<1>2. w[c] = Step(next, end, w, c)
  BY <1>1
<1> QED
  BY <1>2 DEF w

(* A walk that arrives passes only through stretches it was told of: what  *)
(* holds throughout each of them holds all the way.                        *)
LEMMA WalkCovers ==
  ASSUME NEW next, Forward(next), NEW end \in Minutes, NEW G,
         \A c \in DOMAIN next : \A m \in c .. next[c] - 1 : m \in G,
         NEW s \in Minutes, Walk(next, end)[s]
  PROVE  \A m \in s .. end - 1 : m \in G
<1> DEFINE T == {c \in Minutes : Walk(next, end)[c] /\ \E m \in c .. end - 1 : m \notin G}
<1> SUFFICES ASSUME T # {} PROVE FALSE
  OBVIOUS
<1>1. PICK c \in T : \A d \in T : d <= c
  BY LastOne, MinutesAssumption DEF Minutes
<1>2. PICK m \in c .. end - 1 : m \notin G
  BY <1>1
<1>3. c \in Int /\ end \in Int /\ m \in Int /\ c <= m /\ m < end
  BY <1>1, <1>2, MinutesAssumption DEF Minutes
<1>4. ~(c >= end) /\ Step(next, end, Walk(next, end), c)
  BY <1>1, <1>3, WalkStep
<1>5. c \in DOMAIN next /\ next[c] <= end /\ Walk(next, end)[next[c]]
  BY <1>4, Zenon DEF Step
<1>6. next[c] \in Minutes /\ next[c] \in Int /\ c < next[c]
  BY <1>5, MinutesAssumption DEF Forward, Minutes
<1>7. next[c] <= m
  BY <1>2, <1>3, <1>5, <1>6
<1>8. next[c] \in T
  BY <1>2, <1>3, <1>5, <1>6, <1>7
<1> QED
  BY <1>1, <1>3, <1>6, <1>8

-----------------------------------------------------------------------------
(* The walk over slots of one length.                                      *)

(* So many steps of g. *)
LEMMA WholeSteps ==
  ASSUME NEW g \in Nat \ {0}, NEW d \in Nat
  PROVE  /\ d % g = 0 => d = (d \div g) * g /\ d \div g \in Nat
         /\ \A k \in Nat : d = k * g => d % g = 0 /\ d \div g = k
<1>1. d = g * (d \div g) + (d % g) /\ d % g \in 0 .. g - 1 /\ d \div g \in Nat
  OBVIOUS
<1>2. ASSUME NEW k \in Nat, d = k * g PROVE d \div g = k
  <2> DEFINE q == d \div g
  <2>1. q \in Nat /\ q * g <= k * g /\ k * g < q * g + g
    BY <1>1, <1>2
  <2>2. CASE k >= q + 1
    <3>1. k * g >= (q + 1) * g
      BY <2>1, <2>2
    <3> QED
      BY <2>1, <3>1
  <2>3. CASE k <= q - 1
    <3>1. q * g >= (k + 1) * g
      BY <2>1, <2>3
    <3> QED
      BY <2>1, <3>1
  <2> QED
    BY <2>1, <2>2, <2>3
<1>3. ASSUME NEW k \in Nat, d = k * g PROVE d % g = 0
  BY <1>1, <1>2, <1>3
<1> QED
  BY <1>1, <1>2, <1>3

(* The walk accepts only intervals made of whole steps from one slot's     *)
(* start to the next. *)
Stepped(D, g, s, e) == \E k \in Nat : e = s + k * g /\ \A n \in 0 .. k - 1 : s + n * g \in D

LEMMA WalkIsStepped ==
  ASSUME NEW next, Forward(next), NEW g \in Nat \ {0},
         \A c \in DOMAIN next : next[c] = c + g,
         NEW s \in Minutes, NEW e \in Minutes, Walk(next, e)[s]
  PROVE  Stepped(DOMAIN next, g, s, e)
<1> DEFINE D == DOMAIN next
           T == {c \in Minutes : Walk(next, e)[c] /\ ~Stepped(D, g, c, e)}
<1> SUFFICES ASSUME T # {} PROVE FALSE
  OBVIOUS
<1>1. PICK c \in T : \A d \in T : d <= c
  BY LastOne, MinutesAssumption DEF Minutes
<1>2. c \in Nat /\ e \in Nat /\ c <= MinutesInADay
  BY <1>1, MinutesAssumption DEF Minutes
<1>3. Step(next, e, Walk(next, e), c)
  BY <1>1, WalkStep
<1>4. CASE c >= e
  <2>1. e = c + 0 * g /\ \A n \in 0 .. 0 - 1 : c + n * g \in D
    BY <1>2, <1>3, <1>4 DEF Step
  <2> QED
    BY <1>1, <2>1 DEF Stepped
<1>5. CASE ~(c >= e)
  <2>1. c \in D /\ next[c] <= e /\ Walk(next, e)[next[c]]
    BY <1>3, <1>5, Zenon DEF Step
  <2>2. next[c] = c + g /\ c + g \in Minutes
    BY <2>1 DEF Forward
  <2>3. Stepped(D, g, c + g, e)
    BY <1>1, <1>2, <2>1, <2>2
  <2>4. PICK k \in Nat : e = (c + g) + k * g /\ \A n \in 0 .. k - 1 : (c + g) + n * g \in D
    BY <2>3 DEF Stepped
  <2>5. e = c + (k + 1) * g
    BY <1>2, <2>4
  <2>6. ASSUME NEW n \in 0 .. (k + 1) - 1 PROVE c + n * g \in D
    <3>1. CASE n = 0
      <4>1. c + n * g = c
        BY <1>2, <3>1
      <4> QED
        BY <2>1, <4>1
    <3>2. CASE n # 0
      <4>1. n - 1 \in 0 .. k - 1 /\ (c + g) + (n - 1) * g = c + n * g
        BY <1>2, <3>2
      <4> QED
        BY <2>4, <4>1
    <3> QED
      BY <3>1, <3>2
  <2>7. Stepped(D, g, c, e)
    BY <2>5, <2>6 DEF Stepped
  <2> QED
    BY <1>1, <2>7
<1> QED
  BY <1>4, <1>5

(* A run of steps is walked, whatever slots there are elsewhere. *)
LEMMA StepsAreWalked ==
  ASSUME NEW next, Forward(next), NEW g \in Nat \ {0}, NEW k \in Nat,
         NEW s \in Minutes, s + k * g \in Minutes,
         \A n \in 0 .. k - 1 : s + n * g \in DOMAIN next /\ next[s + n * g] = (s + n * g) + g
  PROVE  Walk(next, s + k * g)[s]
<1> DEFINE D == DOMAIN next
<1>0. PICK e : e = s + k * g
  OBVIOUS
<1>1. e = s + k * g /\ \A n \in 0 .. k - 1 : s + n * g \in D /\ next[s + n * g] = (s + n * g) + g
  BY <1>0
<1>2. s \in Nat /\ e \in Nat /\ e <= MinutesInADay /\ e \in Minutes
  BY <1>0, MinutesAssumption DEF Minutes
<1>3. ASSUME NEW n \in 0 .. k
      PROVE  s + n * g \in Minutes /\ s + n * g \in Nat /\ (n < k => s + n * g < e)
  <2>1. n * g \in Nat /\ n * g <= k * g /\ (n < k => n * g < k * g)
    OBVIOUS
  <2> QED
    BY <1>1, <1>2, <2>1, MinutesAssumption DEF Minutes
<1> DEFINE T == {n \in 0 .. k : ~Walk(next, e)[s + n * g]}
<1>4. T = {}
  <2> SUFFICES ASSUME T # {} PROVE FALSE
    OBVIOUS
  <2>1. PICK n \in T : \A m \in T : m <= n
    BY LastOne
  <2>2. PICK c : c = s + n * g
    OBVIOUS
  <2>3. ~Step(next, e, Walk(next, e), c) /\ c \in Nat
    BY <1>2, <1>3, <2>1, <2>2, WalkStep
  <2>4. CASE n = k
    <3>1. c = e
      BY <1>1, <2>2, <2>4
    <3> QED
      BY <1>2, <2>3, <3>1 DEF Step
  <2>5. CASE n < k
    <3>1. n + 1 \in 0 .. k /\ n + 1 \notin T /\ n \in 0 .. k - 1
      BY <2>1, <2>5
    <3>2. c + g = s + (n + 1) * g
      BY <1>2, <2>2, <3>1
    <3>3. Walk(next, e)[c + g]
      BY <3>1, <3>2
    <3>4. c \in D /\ next[c] = c + g
      BY <1>1, <2>2, <3>1
    <3>5. c + g <= e /\ ~(c >= e)
      <4>1. s + (n + 1) * g <= e
        BY <1>1, <1>2, <1>3, <3>1
      <4> QED
        BY <1>2, <1>3, <2>2, <2>3, <2>5, <3>1, <3>2, <4>1
    <3>6. Step(next, e, Walk(next, e), c)
      BY <3>3, <3>4, <3>5 DEF Step
    <3> QED
      BY <2>3, <3>6
  <2> QED
    BY <2>1, <2>4, <2>5
<1>5. Walk(next, e)[s + 0 * g]
  <2>1. 0 \in 0 .. k
    OBVIOUS
  <2>2. \A n \in 0 .. k : Walk(next, e)[s + n * g]
    BY <1>4
  <2> HIDE DEF T
  <2> QED
    BY <2>1, <2>2, Zenon
<1>6. s + 0 * g = s
  BY <1>2
<1>7. Walk(next, e)[s]
  BY <1>5, <1>6, Zenon
<1> QED
  BY <1>0, <1>7, Zenon

-----------------------------------------------------------------------------
(* The slots.                                                              *)

(* The free slots as is_slot_free finds them. *)
FreeOK(free) ==
  /\ \E n \in Nat : DOMAIN free \subseteq 1 .. n
  /\ \A i \in DOMAIN free : \A slot \in free[i] :
       slot.start \in Minutes /\ slot.end \in Minutes /\ slot.start < slot.end

(* What a slot cut from a window is. *)
LEMMA TileSound ==
  ASSUME NEW w, WindowOK(w), NEW busy, NEW earliest, NEW slot \in Tile(w, busy, earliest)
  PROVE  /\ Usable(w) /\ w.start \in Minutes /\ w.end \in Minutes
         /\ slot.start \in w.start .. w.end - w.step
         /\ (slot.start - w.start) % w.step = 0
         /\ slot = [start |-> slot.start, end |-> slot.start + w.step]
         /\ slot.start \in Minutes /\ slot.end \in Minutes /\ slot.start < slot.end
         /\ w.start <= slot.start /\ slot.end <= w.end
         /\ Bookable(slot, busy, earliest)
<1>1. Usable(w) /\ slot \in Pieces(w) /\ Bookable(slot, busy, earliest)
  BY DEF Tile
<1>2. w.start \in Minutes /\ w.end \in Minutes /\ w.step \in Int /\ w.step > 0
  BY <1>1 DEF WindowOK, Usable
<1>3. PICK s \in w.start .. w.end - w.step :
        slot = [start |-> s, end |-> s + w.step] /\ (s - w.start) % w.step = 0
  BY <1>1 DEF Pieces
<1>4. slot.start = s /\ slot.end = s + w.step
  BY <1>3
<1> QED
  BY <1>1, <1>2, <1>3, <1>4, MinutesAssumption DEF Minutes

LEMMA FreeSlotsOK ==
  ASSUME NEW windows, NEW n \in Nat, DOMAIN windows \subseteq 1 .. n,
         \A i \in DOMAIN windows : WindowOK(windows[i]), NEW busy, NEW earliest
  PROVE  FreeOK(FreeSlots(windows, busy, earliest))
<1> DEFINE free == FreeSlots(windows, busy, earliest)
<1>1. DOMAIN free = DOMAIN windows
  BY DEF FreeSlots
<1>2. ASSUME NEW i \in DOMAIN free, NEW slot \in free[i]
      PROVE  slot.start \in Minutes /\ slot.end \in Minutes /\ slot.start < slot.end
  <2>1. slot \in Tile(windows[i], busy, earliest) /\ WindowOK(windows[i])
    BY <1>1, <1>2 DEF FreeSlots
  <2> QED
    BY <2>1, TileSound
<1> QED
  BY <1>1, <1>2 DEF FreeOK

(* next_boundary leads from a free slot's start to its end. *)
LEMMA BoundaryIsASlot ==
  ASSUME NEW free, FreeOK(free), NEW c \in DOMAIN NextBoundary(free)
  PROVE  \E i \in DOMAIN free : \E slot \in free[i] :
           slot.start = c /\ slot.end = NextBoundary(free)[c]
<1> DEFINE with(i) == {slot \in free[i] : slot.start = c}
           T == {i \in DOMAIN free : with(i) # {}}
           P(i) == with(i) # {} /\ \A j \in DOMAIN free : with(j) # {} => j <= i
           last == CHOOSE i \in DOMAIN free : P(i)
<1>1. PICK n \in Nat : DOMAIN free \subseteq 1 .. n
  BY DEF FreeOK
<1>2. T # {}
  BY DEF NextBoundary, Range
<1>3. \E i \in DOMAIN free : P(i)
  <2>1. T \subseteq 0 .. n
    BY <1>1
  <2>2. PICK i \in T : \A j \in T : j <= i
    <3> HIDE DEF T
    <3> QED
      BY <1>2, <2>1, LastOne
  <2> QED
    BY <2>2
<1>4. last \in DOMAIN free /\ P(last)
  BY <1>3, Zenon
<1>5. (CHOOSE slot \in with(last) : TRUE) \in with(last)
  BY <1>4
<1>6. NextBoundary(free)[c] = (CHOOSE slot \in with(last) : TRUE).end
  BY DEF NextBoundary
<1> QED
  BY <1>4, <1>5, <1>6

(* So the walk goes forward. *)
LEMMA BoundariesGoForward ==
  ASSUME NEW free, FreeOK(free)
  PROVE  Forward(NextBoundary(free))
<1>1. ASSUME NEW c \in DOMAIN NextBoundary(free)
      PROVE  c \in Minutes /\ NextBoundary(free)[c] \in Minutes /\ c < NextBoundary(free)[c]
  BY BoundaryIsASlot DEF FreeOK
<1> QED
  BY <1>1 DEF Forward

(* What is_slot_free accepts holds, minute for minute, what holds          *)
(* throughout every free slot. *)
LEMMA AcceptedIsCovered ==
  ASSUME NEW free, FreeOK(free), NEW G,
         \A i \in DOMAIN free : \A slot \in free[i] :
           \A m \in slot.start .. slot.end - 1 : m \in G,
         NEW s \in Minutes, NEW e \in Minutes, IsSlotFree(free, s, e)
  PROVE  \A m \in s .. e - 1 : m \in G
<1>1. \A c \in DOMAIN NextBoundary(free) : \A m \in c .. NextBoundary(free)[c] - 1 : m \in G
  BY BoundaryIsASlot
<1>2. CASE s = e
  <2>1. s \in Int
    BY MinutesAssumption DEF Minutes
  <2> QED
    BY <1>2, <2>1
<1>3. CASE Walk(NextBoundary(free), e)[s]
  BY <1>1, <1>3, BoundariesGoForward, WalkCovers
<1> QED
  BY <1>2, <1>3 DEF IsSlotFree

(* The engine keeps its promise: no minute of what it accepts is busy,     *)
(* past, or outside the windows. *)
LEMMA AcceptedIsFree ==
  ASSUME NEW windows, NEW n \in Nat, DOMAIN windows \subseteq 1 .. n,
         \A i \in DOMAIN windows : WindowOK(windows[i]),
         NEW busy, \A b \in busy : b.start \in Int /\ b.end \in Int,
         NEW earliest \in Int, NEW s \in Minutes, NEW e \in Minutes,
         IsSlotFree(FreeSlots(windows, busy, earliest), s, e), NEW m \in s .. e - 1
  PROVE  /\ m > earliest
         /\ \E i \in DOMAIN windows :
              Usable(windows[i]) /\ windows[i].start <= m /\ m < windows[i].end
         /\ \A b \in busy : ~(b.start <= m /\ m < b.end)
<1> DEFINE free == FreeSlots(windows, busy, earliest)
           G == {k \in Int :
                  /\ k > earliest
                  /\ \E i \in DOMAIN windows :
                       Usable(windows[i]) /\ windows[i].start <= k /\ k < windows[i].end
                  /\ \A b \in busy : ~(b.start <= k /\ k < b.end)}
<1>1. ASSUME NEW i \in DOMAIN free, NEW slot \in free[i],
             NEW k \in slot.start .. slot.end - 1
      PROVE  k \in G
  <2>1. i \in DOMAIN windows /\ WindowOK(windows[i]) /\ slot \in Tile(windows[i], busy, earliest)
    BY <1>1 DEF FreeSlots
  <2>2. PICK w : w = windows[i]
    OBVIOUS
  <2>3. /\ Usable(w) /\ w.start \in Int /\ w.end \in Int
        /\ slot.start \in Int /\ slot.end \in Int
        /\ w.start <= slot.start /\ slot.end <= w.end
        /\ Bookable(slot, busy, earliest)
    BY <2>1, <2>2, TileSound, MinutesAssumption DEF Minutes
  <2>4. k \in Int /\ slot.start <= k /\ k < slot.end
    BY <2>3
  <2>5. k > earliest
    BY <2>3, <2>4 DEF Bookable
  <2>6. w.start <= k /\ k < w.end
    BY <2>3, <2>4
  <2>7. ASSUME NEW b \in busy PROVE ~(b.start <= k /\ k < b.end)
    BY <2>3, <2>4 DEF Bookable, Overlaps
  <2> QED
    BY <2>1, <2>2, <2>3, <2>4, <2>5, <2>6, <2>7
<1>2. m \in G
  <2>1. FreeOK(free)
    BY FreeSlotsOK
  <2> HIDE DEF free, G
  <2> QED
    BY <1>1, <2>1, AcceptedIsCovered DEF free
<1> QED
  BY <1>2

=============================================================================
