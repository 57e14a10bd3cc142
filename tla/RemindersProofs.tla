---------------------------- MODULE RemindersProofs ----------------------------
(* Theorems about Reminders, for any appointments, threads and intervals. *)
EXTENDS Reminders, WellFoundedInduction, TLAPS

-----------------------------------------------------------------------------
(* About the operators of the model.                                       *)

LEMMA Intervals ==
  /\ Gap \in Nat /\ StartupDelay <= Gap
  /\ Lead \in Nat /\ SweepTime \in Nat /\ StartupDelay \in Nat
  /\ StartsAt \in [Appointments -> Nat]
  BY RemindersAssumption DEF Gap

(* What is due by its text is due by its time, if the one is the other's. *)
LEMMA WrittenIsDue ==
  ASSUME NEW a \in Written, NEW from \in Nat, NEW to \in Nat
  PROVE  a \in Appointments /\ (Between(a, from, to) <=> StartsAt[a] \in from .. to)
<1>1. a \in Appointments /\ SortsAt[a] = 2 * StartsAt[a] /\ StartsAt[a] \in Nat
  BY Intervals DEF Written
<1> QED
  BY <1>1 DEF Between

(* A list that is not empty has an appointment whose text comes no later   *)
(* than the others'.                                                       *)
LEMMA FirstIsListed ==
  ASSUME NEW list \in SUBSET Appointments, list # {}
  PROVE  First(list) \in list
<1> DEFINE Times == {SortsAt[a] : a \in list}
           Less == {p \in Nat \X Nat : p[1] < p[2]}
<1>1. Times \subseteq Nat /\ Times # {}
  BY RemindersAssumption
<1>2. IsWellFoundedOn(Less, Nat)
  BY NatLessThanWellFounded, Zenon DEF OpToRel
<1> HIDE DEF Times, Less
<1>3. PICK x \in Times : \A y \in Times : ~(<<y, x>> \in Less)
  BY <1>1, <1>2, WFMin
<1>4. \A y \in Times : x <= y
  <2> SUFFICES ASSUME NEW y \in Times, ~(x <= y) PROVE FALSE
    OBVIOUS
  <2>1. x \in Nat /\ y \in Nat /\ y < x
    BY <1>1
  <2>2. <<y, x>> \in Nat \X Nat /\ <<y, x>>[1] < <<y, x>>[2]
    BY <2>1
  <2>3. <<y, x>> \in Less
    BY <2>2, Zenon DEF Less
  <2> QED
    BY <1>3, <2>3
<1>5. \E a \in list : \A b \in list : SortsAt[a] <= SortsAt[b]
  BY <1>4 DEF Times
<1> QED
  BY <1>5 DEF First

(* Sending to somebody makes sure there is a claim on the key. *)
LEMMA SendClaims ==
  ASSUME NEW k, Send(k)
  PROVE  claimed' = claimed \union {k}
  BY DEF Send, Mail!Claim

(* What a restart and a failure cost. *)
LEMMA PatienceGrows ==
  ASSUME restarts \in Nat, failures \in Nat
  PROVE  /\ Patience \in Nat
         /\ 2 * SweepTime + Gap <= Patience
         /\ restarts' = restarts + 1 /\ failures' = failures
              => Patience' = Patience + StartupDelay + SweepTime
         /\ restarts' = restarts /\ failures' = failures + 1
              => Patience' = Patience + SweepTime + Gap
         /\ restarts' = restarts /\ failures' = failures => Patience' = Patience
<1> DEFINE R == StartupDelay + SweepTime
           F == SweepTime + Gap
<1>1. R \in Nat /\ F \in Nat
  BY Intervals
<1>2. Patience = 2 * SweepTime + Gap + restarts * R + failures * F
  BY DEF Patience
<1>3. Patience' = 2 * SweepTime + Gap + restarts' * R + failures' * F
  BY DEF Patience, Gap
<1> HIDE DEF R, F
<1>4. restarts * R \in Nat /\ failures * F \in Nat
  BY <1>1
<1>5. (restarts + 1) * R = restarts * R + R /\ (failures + 1) * F = failures * F + F
  BY <1>1
<1> QED
  BY <1>1, <1>2, <1>3, <1>4, <1>5, Intervals DEF R, F

-----------------------------------------------------------------------------
(* The types.                                                              *)

Jobs == [pc : {"idle", "waiting", "reminding", "nudging"},
         todo : SUBSET Appointments, side : Sides, until : Nat]

LEMMA InitTyped == Init => TypeOK
<1> SUFFICES ASSUME Init PROVE TypeOK
  OBVIOUS
<1>1. job \in [Threads -> Jobs]
  BY Intervals DEF Init, Waiting, Resting, Jobs, Sides
<1> QED
  BY <1>1, RemindersAssumption DEF Init, TypeOK, Jobs

(* What the threads do next is always a job. *)
LEMMA JobsTyped ==
  ASSUME TypeOK
  PROVE  /\ Due \in SUBSET Appointments
         /\ Reminding(Due) \in Jobs
         /\ Resting \in Jobs
         /\ \A s \in Threads : job[s] \in Jobs /\ AfterScan(s) \in Jobs
         /\ Waiting(now + Gap) \in Jobs
         /\ Waiting(now + StartupDelay) \in Jobs
<1>1. now \in Nat /\ Gap \in Nat /\ StartupDelay \in Nat /\ SweepTime \in Nat
  BY RemindersAssumption, Intervals DEF TypeOK
<1>2. Due \in SUBSET Appointments
  BY DEF Due
<1>3. Reminding(Due) \in Jobs
  BY <1>1, <1>2 DEF Reminding, Jobs, Sides
<1>4. Resting \in Jobs
  BY DEF Resting, Jobs, Sides
<1>5. \A n \in Nat : Waiting(n) \in Jobs
  BY DEF Waiting, Jobs, Sides
<1>6. \A s \in Threads : job[s] \in Jobs
  BY DEF TypeOK, Jobs
<1>7. \A s \in Threads : AfterScan(s) \in Jobs
  BY <1>4, <1>6 DEF AfterScan, Jobs
<1>8. now + Gap \in Nat /\ now + StartupDelay \in Nat
  BY <1>1
<1> QED
  BY <1>2, <1>3, <1>4, <1>5, <1>6, <1>7, <1>8

LEMMA TypeStep == TypeOK /\ [Next]_vars => TypeOK'
<1> SUFFICES ASSUME TypeOK, [Next]_vars PROVE TypeOK'
  OBVIOUS
<1> USE JobsTyped, RemindersAssumption
<1>0. job \in [Threads -> Jobs]
  BY DEF TypeOK, Jobs
<1>1. ASSUME NEW s \in Schedulers, Wake(s) PROVE TypeOK'
  <2>1. job' \in [Threads -> Jobs]
    BY <1>0, <1>1 DEF Wake
  <2> QED
    BY <1>1, <2>1 DEF Wake, TypeOK, Jobs, table
<1>2. ASSUME NEW s \in Schedulers, Nudge(s) \/ FailNudge(s) PROVE TypeOK'
  <2>1. job' \in [Threads -> Jobs]
    BY <1>0, <1>2 DEF Nudge, FailNudge, OnError
  <2> QED
    BY <1>2, <2>1 DEF Nudge, FailNudge, TypeOK, Jobs, table
<1>3. ASSUME NEW s \in Schedulers, Restart(s) PROVE TypeOK'
  <2>1. job' \in [Threads -> Jobs]
    BY <1>0, <1>3 DEF Restart
  <2> QED
    BY <1>3, <2>1 DEF Restart, TypeOK, Jobs, table
<1>4. ASSUME NEW t \in Admins, RunReminders(t) PROVE TypeOK'
  <2>1. job' \in [Threads -> Jobs]
    BY <1>0, <1>4 DEF RunReminders
  <2> QED
    BY <1>4, <2>1 DEF RunReminders, TypeOK, Jobs, table
<1>5. ASSUME NEW t \in Threads, Remind(t) PROVE TypeOK'
  <2> DEFINE a == First(job[t].todo)
  <2>1. a \in Appointments /\ job[t].side \in Sides
    BY <1>5, FirstIsListed DEF Remind, TypeOK
  <2>2. claimed' = claimed \union {<<a, job[t].side>>}
    BY <1>5, SendClaims DEF Remind
  <2> DEFINE next == [job[t] EXCEPT !.side = IF @ = "client" THEN "provider" ELSE "client",
                                    !.todo = IF job[t].side = "client" THEN @ ELSE @ \ {a}]
  <2>a. job[t] \in Jobs
    OBVIOUS
  <2>b. next \in Jobs
    BY <2>a DEF Jobs, Sides
  <2>c. job' = [job EXCEPT ![t] = next]
    BY <1>0, <1>5, <2>a DEF Remind, Jobs
  <2>3. job' \in [Threads -> Jobs]
    BY <1>0, <2>b, <2>c
  <2> QED
    BY <1>5, <2>1, <2>2, <2>3 DEF Remind, TypeOK, Jobs, Keys, table
<1>6. ASSUME NEW t \in Threads, FinishScan(t) \/ FailScan(t) PROVE TypeOK'
  <2>1. job' \in [Threads -> Jobs]
    BY <1>0, <1>6 DEF FinishScan, FailScan, OnError
  <2> QED
    BY <1>6, <2>1 DEF FinishScan, FailScan, TypeOK, Jobs, table
<1>7. ASSUME NEW a \in Appointments, Book(a) \/ Close(a) PROVE TypeOK'
  BY <1>7 DEF Book, Close, TypeOK
<1>8. CASE Tick
  BY <1>8 DEF Tick, TypeOK, table
<1>9. CASE UNCHANGED vars
  BY <1>9 DEF vars, TypeOK
<1> QED
  BY <1>1, <1>2, <1>3, <1>4, <1>5, <1>6, <1>7, <1>8, <1>9 DEF Next

(* The tables, the clock and the threads keep their types, whatever is     *)
(* booked, restarted or fails; in particular no scheduler thread ends.     *)
THEOREM Typed == Spec => []TypeOK
  BY InitTyped, TypeStep, PTL DEF Spec

-----------------------------------------------------------------------------
(* The invariant: no wait and no sweep outlasts its end, and what a scan   *)
(* has on its list was due when the sweep began.                           *)

Clock(t) ==
  /\ job[t].pc # "idle" => now <= job[t].until
  /\ job[t].pc \in {"reminding", "nudging"} => job[t].until <= now + SweepTime
  /\ job[t].pc = "waiting" => job[t].until <= now + Gap
  /\ t \in Schedulers => job[t].pc # "idle"

Began(t) == job[t].until - SweepTime

Listed(t) ==
  job[t].pc = "reminding" =>
    /\ \A a \in job[t].todo :
         /\ a \in Written => Began(t) \in StartsAt[a] - Lead .. StartsAt[a]
         /\ status[a] = "confirmed" \/ Began(t) <= since[a]
    /\ job[t].side = "provider" =>
         job[t].todo # {} /\ <<First(job[t].todo), "client">> \in claimed

(* An appointment that is owed reminders, with time enough to send them,   *)
(* and how long each scheduler may take over what it is at.                *)
Owed(a) ==
  /\ status[a] = "confirmed"
  /\ StartsAt[a] >= InReach(a) + Patience
  /\ ~({a} \X Sides \subseteq claimed)

Deadline(s, a) ==
  /\ job[s].pc = "waiting" => job[s].until <= InReach(a) + Patience - SweepTime
  /\ job[s].pc = "reminding" =>
       \/ job[s].until <= InReach(a) + SweepTime
       \/ a \in job[s].todo /\ job[s].until <= InReach(a) + Patience
  /\ job[s].pc = "nudging" => job[s].until <= InReach(a) + Patience - SweepTime - Gap

IInv ==
  /\ TypeOK
  /\ \A t \in Threads : Clock(t) /\ Listed(t)
  /\ \A s \in Schedulers, a \in Written : Owed(a) => Deadline(s, a)

(* The numbers a proof about the clock meets. *)
LEMMA Numbers ==
  ASSUME TypeOK
  PROVE  /\ now \in Nat /\ restarts \in Nat /\ failures \in Nat
         /\ \A t \in Threads : job[t] \in Jobs /\ job[t].until \in Nat
         /\ \A a \in Appointments :
              /\ since[a] \in Nat /\ StartsAt[a] \in Nat
              /\ InReach(a) \in Int
              /\ since[a] <= InReach(a) /\ StartsAt[a] - Lead <= InReach(a)
<1>1. now \in Nat /\ restarts \in Nat /\ failures \in Nat
  BY RemindersAssumption DEF TypeOK
<1>2. \A t \in Threads : job[t] \in Jobs /\ job[t].until \in Nat
  BY DEF TypeOK, Jobs
<1>3. ASSUME NEW a \in Appointments
      PROVE  /\ since[a] \in Nat /\ StartsAt[a] \in Nat
             /\ InReach(a) \in Int
             /\ since[a] <= InReach(a) /\ StartsAt[a] - Lead <= InReach(a)
  BY Intervals DEF TypeOK, InReach
<1> QED
  BY <1>1, <1>2, <1>3

LEMMA InitInv == Init => IInv
<1> SUFFICES ASSUME Init PROVE IInv
  OBVIOUS
<1>1. TypeOK
  BY InitTyped
<1>2. ASSUME NEW t \in Threads PROVE Clock(t) /\ Listed(t)
  BY Intervals DEF Init, Clock, Listed, Waiting, Resting
<1>3. \A a \in Appointments : ~Owed(a)
  BY DEF Init, Owed
<1> QED
  BY <1>1, <1>2, <1>3 DEF IInv, Written

(* A thread another thread's step leaves alone stays as it is. *)
LEMMA OthersStay ==
  ASSUME NEW t \in Threads, job'[t] = job[t], now' = now, status' = status, since' = since,
         claimed \subseteq claimed', Clock(t), Listed(t)
  PROVE  Clock(t)' /\ Listed(t)'
  BY DEF Clock, Listed, Began

(* A list begins with appointments that are due. *)
LEMMA ListBegins ==
  ASSUME TypeOK, NEW a \in Due
  PROVE  /\ status[a] = "confirmed"
         /\ a \in Written => (now + SweepTime) - SweepTime \in StartsAt[a] - Lead .. StartsAt[a]
<1>1. now \in Nat /\ Lead \in Nat /\ now + Lead \in Nat /\ (now + SweepTime) - SweepTime = now
  BY Numbers, Intervals
<1>2. ASSUME a \in Written PROVE now \in StartsAt[a] - Lead .. StartsAt[a]
  <2>1. StartsAt[a] \in now .. now + Lead
    BY <1>1, <1>2, WrittenIsDue DEF Due
  <2> QED
    BY <1>1, <2>1
<1> QED
  BY <1>1, <1>2 DEF Due

LEMMA ClockStep == IInv /\ [Next]_vars => \A t \in Threads : Clock(t)' /\ Listed(t)'
<1> SUFFICES ASSUME IInv, [Next]_vars, NEW t \in Threads
             PROVE  Clock(t)' /\ Listed(t)'
  OBVIOUS
<1>a. TypeOK /\ Clock(t) /\ Listed(t)
  BY DEF IInv
<1>b. job \in [Threads -> Jobs] /\ job[t] \in Jobs /\ now \in Nat
  BY <1>a, Numbers DEF TypeOK, Jobs
<1> USE <1>a, <1>b, Intervals
<1>1. ASSUME NEW s \in Schedulers, Wake(s) PROVE Clock(t)' /\ Listed(t)'
  <2>1. CASE t = s
    <3>1. job'[t] = Reminding(Due) /\ now' = now /\ status' = status
      BY <1>1, <2>1 DEF Wake, table
    <3>2. Clock(t)'
      BY <3>1 DEF Clock, Reminding
    <3>3. Listed(t)'
      BY <3>1, ListBegins DEF Listed, Began, Reminding
    <3> QED
      BY <3>2, <3>3
  <2>2. CASE t # s
    BY <1>1, <2>2, OthersStay DEF Wake, table
  <2> QED
    BY <2>1, <2>2
<1>2. ASSUME NEW s \in Schedulers, Nudge(s) \/ FailNudge(s) PROVE Clock(t)' /\ Listed(t)'
  <2>1. CASE t = s
    BY <1>2, <2>1 DEF Nudge, FailNudge, OnError, Waiting, Clock, Listed
  <2>2. CASE t # s
    BY <1>2, <2>2, OthersStay DEF Nudge, FailNudge, table
  <2> QED
    BY <2>1, <2>2
<1>3. ASSUME NEW s \in Schedulers, Restart(s) PROVE Clock(t)' /\ Listed(t)'
  <2>1. CASE t = s
    BY <1>3, <2>1 DEF Restart, Waiting, Clock, Listed
  <2>2. CASE t # s
    BY <1>3, <2>2, OthersStay DEF Restart, table
  <2> QED
    BY <2>1, <2>2
<1>4. ASSUME NEW s \in Admins, RunReminders(s) PROVE Clock(t)' /\ Listed(t)'
  <2>1. CASE t = s
    <3>1. job'[t] = Reminding(Due) /\ now' = now /\ status' = status
      BY <1>4, <2>1 DEF RunReminders, table
    <3>2. Clock(t)'
      BY <3>1 DEF Clock, Reminding
    <3>3. Listed(t)'
      BY <3>1, ListBegins DEF Listed, Began, Reminding
    <3> QED
      BY <3>2, <3>3
  <2>2. CASE t # s
    BY <1>4, <2>2, OthersStay DEF RunReminders, table
  <2> QED
    BY <2>1, <2>2
<1>5. ASSUME NEW s \in Threads, Remind(s) PROVE Clock(t)' /\ Listed(t)'
  <2> DEFINE a == First(job[s].todo)
  <2>1. claimed' = claimed \union {<<a, job[s].side>>}
    BY <1>5, SendClaims DEF Remind
  <2>2. CASE t = s
    <3>1. /\ job'[t].pc = "reminding" /\ job'[t].until = job[t].until
          /\ job'[t].side = IF job[t].side = "client" THEN "provider" ELSE "client"
          /\ job'[t].todo = IF job[t].side = "client" THEN job[t].todo ELSE job[t].todo \ {a}
          /\ job[t].pc = "reminding" /\ job[t].todo # {}
          /\ now' = now /\ status' = status /\ since' = since
      BY <1>5, <2>2 DEF Remind, At, Jobs, table
    <3>2. Clock(t)'
      BY <3>1 DEF Clock
    <3>3. job'[t].side = "provider" =>
            job'[t].todo # {} /\ <<First(job'[t].todo), "client">> \in claimed'
      BY <2>1, <2>2, <3>1 DEF Jobs, Sides
    <3>4. Listed(t)'
      BY <3>1, <3>3 DEF Listed, Began
    <3> QED
      BY <3>2, <3>4
  <2>3. CASE t # s
    BY <1>5, <2>1, <2>3, OthersStay DEF Remind, table
  <2> QED
    BY <2>2, <2>3
<1>6. ASSUME NEW s \in Threads, FinishScan(s) \/ FailScan(s) PROVE Clock(t)' /\ Listed(t)'
  <2>1. CASE t = s
    <3>1. job'[t] = AfterScan(t) /\ job[t].pc = "reminding" /\ now' = now
      BY <1>6, <2>1 DEF FinishScan, FailScan, OnError, At, table
    <3> QED
      BY <3>1 DEF AfterScan, Resting, Clock, Listed, Jobs
  <2>2. CASE t # s
    BY <1>6, <2>2, OthersStay DEF FinishScan, FailScan, table
  <2> QED
    BY <2>1, <2>2
<1>7. ASSUME NEW a \in Appointments, Book(a) \/ Close(a) PROVE Clock(t)' /\ Listed(t)'
  <2>1. /\ job' = job /\ now' = now /\ claimed' = claimed
        /\ \A b \in Appointments : (since'[b] = since[b] /\ status'[b] = status[b]) \/ since'[b] = now
    BY <1>7 DEF Book, Close, TypeOK
  <2>2. Clock(t)'
    BY <2>1 DEF Clock
  <2>3. Listed(t)'
    <3>1. ASSUME NEW b \in job[t].todo, job[t].pc = "reminding"
          PROVE  status'[b] = "confirmed" \/ Began(t) <= since'[b]
      <4>1. Began(t) <= now /\ b \in Appointments
        BY <3>1, Numbers DEF Clock, Began, Jobs
      <4> QED
        BY <2>1, <3>1, <4>1 DEF Listed
    <3> QED
      BY <2>1, <3>1 DEF Listed, Began
  <2> QED
    BY <2>2, <2>3
<1>8. CASE Tick
  <2>1. /\ job' = job /\ claimed' = claimed /\ status' = status /\ since' = since
        /\ now' = now + 1
        /\ job[t].pc # "idle" => now < job[t].until
    BY <1>8 DEF Tick, table, Jobs
  <2>2. Clock(t)'
    BY <2>1, Numbers DEF Clock
  <2>3. Listed(t)'
    BY <2>1 DEF Listed, Began
  <2> QED
    BY <2>2, <2>3
<1>9. CASE UNCHANGED vars
  BY <1>9, OthersStay DEF vars
<1> QED
  BY <1>1, <1>2, <1>3, <1>4, <1>5, <1>6, <1>7, <1>8, <1>9 DEF Next

(* What was owed before a step that books nothing, restarts nothing and    *)
(* moves no appointment: the same deadlines, or later ones.                *)
LEMMA OwedBefore ==
  ASSUME TypeOK, TypeOK', NEW a \in Appointments, Owed(a)',
         status' = status, since' = since, claimed \subseteq claimed',
         Patience \in Int, Patience' \in Int, Patience <= Patience'
  PROVE  Owed(a) /\ InReach(a)' = InReach(a)
<1>1. InReach(a)' = InReach(a)
  BY DEF InReach
<1>2. InReach(a) \in Int /\ StartsAt[a] \in Int
  BY Numbers
<1> QED
  BY <1>1, <1>2 DEF Owed

LEMMA DeadlineStep ==
  IInv /\ [Next]_vars => \A s \in Schedulers, a \in Written : Owed(a)' => Deadline(s, a)'
<1> SUFFICES ASSUME IInv, [Next]_vars,
                    NEW s \in Schedulers, NEW a \in Written, Owed(a)'
             PROVE  Deadline(s, a)'
  OBVIOUS
<1> DEFINE P == Patience
           R == InReach(a)
           j == job[s]
<1>a. TypeOK /\ TypeOK' /\ s \in Threads /\ Clock(s) /\ Listed(s) /\ a \in Appointments
  BY TypeStep DEF IInv, Threads, Written
<1>b. job \in [Threads -> Jobs] /\ j \in Jobs /\ now \in Nat /\ j.until \in Nat /\ R \in Int
  BY <1>a, Numbers DEF TypeOK, Jobs
<1>c. P \in Nat /\ 2 * SweepTime + Gap <= P
  BY <1>a, Numbers, PatienceGrows
<1>d. /\ since[a] \in Nat /\ StartsAt[a] \in Nat
      /\ since[a] <= R /\ StartsAt[a] - Lead <= R
  BY <1>a, Numbers
<1>e. Owed(a) => Deadline(s, a)
  BY DEF IInv
<1>f. Gap \in Nat /\ SweepTime \in Nat /\ StartupDelay \in Nat /\ Lead \in Nat /\ Gap' = Gap
  BY Intervals DEF Gap
<1>g. ASSUME restarts' = restarts, failures' = failures PROVE P' = P
  BY <1>a, <1>g, Numbers, PatienceGrows
<1>h. ASSUME restarts' = restarts, failures' = failures,
             status' = status, since' = since, claimed \subseteq claimed'
      PROVE  Owed(a) /\ R' = R /\ P' = P
  BY <1>a, <1>c, <1>g, <1>h, OwedBefore
<1>i. ASSUME restarts' = restarts, failures' = failures, job'[s] = j,
             status' = status, since' = since, claimed \subseteq claimed'
      PROVE  Deadline(s, a)'
  BY <1>e, <1>f, <1>h, <1>i DEF Deadline
<1>j. Owed(a) => j.until <= R + P /\ now <= j.until
  BY <1>a, <1>b, <1>c, <1>e, <1>f DEF Deadline, Clock, Jobs
<1> HIDE DEF P, R
<1>1. ASSUME NEW u \in Schedulers, Wake(u) PROVE Deadline(s, a)'
  <2>1. Owed(a) /\ R' = R /\ P' = P
    BY <1>1, <1>h DEF Wake, table
  <2>2. CASE s = u
    <3>1. j.pc = "waiting" /\ j.until <= now /\ now <= R + P - SweepTime
      BY <1>1, <1>a, <1>b, <1>e, <2>1, <2>2 DEF Wake, At, Clock, Deadline, P, R
    <3>2. job'[s] = Reminding(Due)
      BY <1>1, <1>a, <1>b, <2>2 DEF Wake
    <3>3. status[a] = "confirmed" /\ StartsAt[a] >= R + P
      BY <2>1 DEF Owed, P, R
    <3>4. CASE now < StartsAt[a] - Lead
      <4>1. now + SweepTime <= R + SweepTime
        BY <1>b, <1>d, <1>f, <3>4
      <4> QED
        BY <2>1, <3>2, <4>1 DEF Reminding, Deadline, R
    <3>5. CASE now >= StartsAt[a] - Lead
      <4>1. StartsAt[a] \in now .. now + Lead
        BY <1>b, <1>c, <1>d, <1>f, <3>1, <3>3, <3>5
      <4>2. a \in Due
        BY <1>a, <1>b, <1>f, <3>3, <4>1, WrittenIsDue DEF Due
      <4>3. now + SweepTime <= R + P
        BY <1>b, <1>c, <1>f, <3>1
      <4> QED
        BY <2>1, <3>2, <4>2, <4>3 DEF Reminding, Deadline, P, R
    <3> QED
      BY <1>b, <1>d, <1>f, <3>4, <3>5
  <2>3. CASE s # u
    BY <1>1, <1>a, <1>b, <1>i, <2>3 DEF Wake, table
  <2> QED
    BY <2>2, <2>3
<1>2. ASSUME NEW u \in Schedulers, Nudge(u) \/ FailNudge(u) PROVE Deadline(s, a)'
  <2>1. Owed(a) /\ R' = R /\ P' = P
    BY <1>2, <1>h DEF Nudge, FailNudge, table
  <2>2. CASE s = u
    <3>1. j.pc = "nudging" /\ now <= j.until /\ j.until <= R + P - SweepTime - Gap
      BY <1>2, <1>a, <1>e, <2>1, <2>2 DEF Nudge, FailNudge, At, Clock, Deadline, P, R
    <3>2. job'[s] = Waiting(now + Gap)
      BY <1>2, <1>a, <1>b, <2>2 DEF Nudge, FailNudge, OnError
    <3>3. now + Gap <= R + P - SweepTime
      BY <1>b, <1>c, <1>f, <3>1
    <3> QED
      BY <1>f, <2>1, <3>2, <3>3 DEF Waiting, Deadline, P, R
  <2>3. CASE s # u
    BY <1>2, <1>a, <1>b, <1>i, <2>3 DEF Nudge, FailNudge, table
  <2> QED
    BY <2>2, <2>3
<1>3. ASSUME NEW u \in Schedulers, Restart(u) PROVE Deadline(s, a)'
  <2>1. P' = P + StartupDelay + SweepTime
    BY <1>3, <1>a, Numbers, PatienceGrows DEF Restart, P
  <2>2. P <= P' /\ P' \in Int
    BY <1>c, <1>f, <2>1
  <2>3. Owed(a) /\ R' = R
    BY <1>3, <1>a, <1>c, <2>2, OwedBefore DEF Restart, table, P, R
  <2>4. CASE s = u
    <3>1. job'[s] = Waiting(now + StartupDelay)
      BY <1>3, <1>a, <1>b, <2>4 DEF Restart
    <3>2. now + StartupDelay <= R + P' - SweepTime
      BY <1>b, <1>c, <1>f, <1>j, <2>1, <2>3 DEF P, R
    <3> QED
      BY <2>3, <3>1, <3>2 DEF Waiting, Deadline, P, R
  <2>5. CASE s # u
    <3>1. job'[s] = j
      BY <1>3, <1>a, <1>b, <2>5 DEF Restart
    <3> QED
      BY <1>a, <1>b, <1>c, <1>e, <1>f, <2>2, <2>3, <3>1 DEF Deadline, P, R
  <2> QED
    BY <2>4, <2>5
<1>4. ASSUME NEW t \in Admins, RunReminders(t) PROVE Deadline(s, a)'
  <2>1. t # s
    BY RemindersAssumption
  <2> QED
    BY <1>4, <1>a, <1>b, <1>i, <2>1 DEF RunReminders, table
<1>5. ASSUME NEW t \in Threads, Remind(t) PROVE Deadline(s, a)'
  <2> DEFINE b == First(job[t].todo)
  <2>1. claimed' = claimed \union {<<b, job[t].side>>}
    BY <1>5, SendClaims DEF Remind
  <2>2. Owed(a) /\ R' = R /\ P' = P
    BY <1>5, <1>h, <2>1 DEF Remind, table
  <2>3. CASE t = s
    <3>1. /\ job'[s].pc = "reminding" /\ job'[s].until = j.until
          /\ job'[s].todo = IF j.side = "client" THEN j.todo ELSE j.todo \ {b}
          /\ j.pc = "reminding" /\ j.side \in Sides
      BY <1>5, <1>a, <1>b, <2>3 DEF Remind, At, Jobs
    <3>2. ASSUME a = b, j.side = "provider" PROVE FALSE
      <4>1. <<a, "client">> \in claimed' /\ <<a, "provider">> \in claimed'
        BY <1>a, <2>1, <2>3, <3>1, <3>2 DEF Listed
      <4> QED
        BY <4>1 DEF Owed, Sides
    <3>3. a \in j.todo => a \in job'[s].todo
      BY <2>3, <3>1, <3>2 DEF Sides
    <3> QED
      BY <1>e, <2>2, <3>1, <3>3 DEF Deadline, P, R
  <2>4. CASE t # s
    BY <1>5, <1>a, <1>b, <1>i, <2>1, <2>4 DEF Remind, table
  <2> QED
    BY <2>3, <2>4
<1>6. ASSUME NEW t \in Threads, FinishScan(t) PROVE Deadline(s, a)'
  <2>1. Owed(a) /\ R' = R /\ P' = P
    BY <1>6, <1>h DEF FinishScan, table
  <2>2. CASE t = s
    <3>1. j.pc = "reminding" /\ j.todo = {}
      BY <1>6, <2>2 DEF FinishScan, At
    <3>2. j.until <= R + SweepTime
      BY <1>e, <2>1, <3>1 DEF Deadline, R
    <3>3. j.until <= R + P - SweepTime - Gap
      BY <1>b, <1>c, <1>f, <3>2
    <3>4. job'[s].pc = "nudging" /\ job'[s].until = j.until
      BY <1>6, <1>a, <1>b, <2>2 DEF FinishScan, AfterScan, Jobs
    <3> QED
      BY <1>f, <2>1, <3>3, <3>4 DEF Deadline, P, R
  <2>3. CASE t # s
    BY <1>6, <1>a, <1>b, <1>i, <2>3 DEF FinishScan, table
  <2> QED
    BY <2>2, <2>3
<1>7. ASSUME NEW t \in Threads, FailScan(t) PROVE Deadline(s, a)'
  <2>1. P' = P + SweepTime + Gap
    BY <1>7, <1>a, Numbers, PatienceGrows DEF FailScan, P
  <2>2. P <= P' /\ P' \in Int
    BY <1>c, <1>f, <2>1
  <2>3. Owed(a) /\ R' = R
    BY <1>7, <1>a, <1>c, <2>2, OwedBefore DEF FailScan, table, P, R
  <2>4. CASE t = s
    <3>1. job'[s].pc = "nudging" /\ job'[s].until = j.until
      BY <1>7, <1>a, <1>b, <2>4 DEF FailScan, OnError, AfterScan, Jobs
    <3>2. j.until <= R + P' - SweepTime - Gap
      BY <1>b, <1>c, <1>f, <1>j, <2>1, <2>3 DEF P, R
    <3> QED
      BY <1>f, <2>3, <3>1, <3>2 DEF Deadline, P, R
  <2>5. CASE t # s
    <3>1. job'[s] = j
      BY <1>7, <1>a, <1>b, <2>5 DEF FailScan
    <3> QED
      BY <1>a, <1>b, <1>c, <1>e, <1>f, <2>2, <2>3, <3>1 DEF Deadline, P, R
  <2> QED
    BY <2>4, <2>5
<1>8. ASSUME NEW b \in Appointments, Book(b) \/ Close(b) PROVE Deadline(s, a)'
  <2>1. job' = job /\ now' = now /\ claimed' = claimed /\ P' = P
    BY <1>8, <1>g DEF Book, Close
  <2>2. CASE a = b
    <3>1. since'[a] = now
      BY <1>8, <1>a, <2>2 DEF Book, Close, Owed, TypeOK
    <3>2. R' \in Int /\ now <= R'
      BY <1>b, <1>d, <1>f, <3>1 DEF R, InReach
    <3>3. /\ j.pc \in {"reminding", "nudging"} => j.until <= R' + SweepTime
          /\ j.pc = "waiting" => j.until <= R' + Gap
      BY <1>a, <1>b, <1>f, <3>2 DEF Clock
    <3> QED
      BY <1>b, <1>c, <1>f, <2>1, <3>2, <3>3 DEF Deadline, P, R
  <2>3. CASE a # b
    <3>1. status'[a] = status[a] /\ since'[a] = since[a]
      BY <1>8, <1>a, <2>3 DEF Book, Close, TypeOK
    <3>2. R' = R
      BY <3>1 DEF R, InReach
    <3>3. Owed(a)
      BY <2>1, <3>1, <3>2 DEF Owed, P, R
    <3> QED
      BY <1>e, <1>f, <2>1, <3>2, <3>3 DEF Deadline, P, R
  <2> QED
    BY <2>2, <2>3
<1>9. CASE Tick
  BY <1>9, <1>i DEF Tick, table
<1>10. CASE UNCHANGED vars
  BY <1>10, <1>i DEF vars
<1> QED
  BY <1>1, <1>2, <1>3, <1>4, <1>5, <1>6, <1>7, <1>8, <1>9, <1>10 DEF Next

THEOREM Invariant == Spec => []IInv
<1>1. IInv /\ [Next]_vars => IInv'
  BY TypeStep, ClockStep, DeadlineStep DEF IInv
<1> QED
  BY <1>1, InitInv, PTL DEF Spec

-----------------------------------------------------------------------------
(* What the invariant shows. *)

(* Every appointment that is written as the clock writes, and booked with  *)
(* Patience to spare, has both its reminders in the mail before it starts, *)
(* for any intervals, any number of processes, and however many restarts   *)
(* and failed scans there were (notifications.py:258-279).                 *)
THEOREM WrittenIsRemindedInTime == Spec => []RemindedInTime
<1>1. IInv => RemindedInTime
  <2> SUFFICES ASSUME IInv, NEW a \in Written, Owed(a), now > InReach(a) + Patience
               PROVE  FALSE
    BY DEF RemindedInTime, InTime, Owed
  <2>1. PICK s \in Schedulers : TRUE
    BY RemindersAssumption
  <2>2. Deadline(s, a) /\ Clock(s) /\ TypeOK
    BY DEF IInv, Threads
  <2>3. /\ a \in Appointments /\ now \in Nat /\ job[s] \in Jobs /\ job[s].until \in Nat
        /\ InReach(a) \in Int /\ Patience \in Nat
        /\ 2 * SweepTime + Gap <= Patience
    BY <2>2, Numbers, PatienceGrows DEF Threads, Written
  <2> QED
    BY <2>2, <2>3, Intervals DEF Deadline, Clock, Jobs
<1> QED
  BY <1>1, Invariant, PTL

(* A reminder is sent of a closed appointment only by a scan that had      *)
(* begun before it was closed, and of one that is written as the clock     *)
(* writes only between Lead before it and a sweep after it                 *)
(* (notifications.py:258-279). *)
THEOREM RemindersAreTimely == Spec => ReminderIsTimely
<1> DEFINE Timely(a) ==
      claimed' \intersect ({a} \X Sides) # claimed \intersect ({a} \X Sides) =>
        /\ a \in Written => now \in StartsAt[a] - Lead .. StartsAt[a] + SweepTime
        /\ status[a] = "confirmed" \/ now <= since[a] + SweepTime
<1>1. ASSUME IInv, Next, NEW a \in Appointments PROVE Timely(a)
  <2>1. ASSUME NEW t \in Threads, Remind(t) PROVE Timely(a)
    <3>1. claimed' = claimed \union {<<First(job[t].todo), job[t].side>>}
      BY <2>1, SendClaims DEF Remind
    <3>2. SUFFICES ASSUME a = First(job[t].todo) PROVE Timely(a)
      BY <3>1
    <3>3. TypeOK /\ Clock(t) /\ Listed(t) /\ job[t].pc = "reminding" /\ job[t].todo # {}
      BY <1>1, <2>1 DEF IInv, Remind, At
    <3>4. a \in job[t].todo
      BY <3>2, <3>3, FirstIsListed DEF TypeOK
    <3>5. now \in Nat /\ job[t].until \in Nat /\ StartsAt[a] \in Nat /\ since[a] \in Nat
      BY <3>3, Numbers
    <3> QED
      BY <3>3, <3>4, <3>5, Intervals DEF Clock, Listed, Began
  <2>2. claimed' = claimed \/ \E t \in Threads : Remind(t)
    BY <1>1 DEF Next, Wake, Nudge, FailNudge, Restart, RunReminders, FinishScan, FailScan,
                Book, Close, Tick
  <2> QED
    BY <2>1, <2>2
<1>2. IInv /\ [Next]_vars => [\A a \in Appointments : Timely(a)]_vars
  BY <1>1
<1> QED
  BY <1>2, Invariant, PTL DEF Spec, ReminderIsTimely
================================================================================
