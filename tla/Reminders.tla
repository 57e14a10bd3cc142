------------------------------ MODULE Reminders ------------------------------
(***************************************************************************)
(* The background timer and the reminders it sends: scheduler.py,          *)
(* notifications.send_due_reminders and the route that runs a scan by hand *)
(* (routes/email_routes.py), against appointments that are booked and      *)
(* closed meanwhile.                                                       *)
(*                                                                         *)
(* Time is counted in steps.  The one thing assumed of it is that a sweep, *)
(* or a request, is over within SweepTime of its beginning: a sweep only   *)
(* reads and writes tables, the delivery of mail is left to the mailer's   *)
(* worker.  Of the mailer only what MailPromise says is used here.         *)
(*                                                                         *)
(* The scan compares texts: the date and time of an appointment, as it was *)
(* written, with the clock's.  SortsAt says where that text falls: at 2n   *)
(* if it is how the clock writes moment n, at 2n + 1 if it comes between   *)
(* the texts of n and n + 1.  "2026-9-5 09:00" comes after every text of   *)
(* 2026 that the clock writes.                                             *)
(*                                                                         *)
(* A definition whose name ends in _Fault is the definition after it with  *)
(* one plausible mistake, kept to show that the runs would notice it.      *)
(***************************************************************************)
EXTENDS Integers, FiniteSets

CONSTANTS
  Schedulers,    \* one background thread for each process of the application
  Admins,        \* threads serving POST /api/admin/emails/run-reminders
  Appointments,  \* rows that may be booked
  StartsAt,      \* when each of them starts
  SortsAt,       \* where the text of its date and time falls
  Lead,          \* REMINDER_HOURS_BEFORE
  ScanEvery,     \* REMINDER_SCAN_MINUTES
  MinInterval,   \* MIN_INTERVAL_SECONDS
  StartupDelay,  \* STARTUP_DELAY_SECONDS
  SweepTime,     \* the longest a sweep lasts
  MaxRestarts,   \* bound on restarts
  MaxFailures,   \* bound on scans that raise an exception
  MaxNow         \* bound on the clock

Sides == {"client", "provider"}
Keys == Appointments \X Sides
Threads == Schedulers \union Admins

ASSUME RemindersAssumption ==
  /\ {StartsAt, SortsAt} \subseteq [Appointments -> Nat]
  /\ {Lead, ScanEvery, MinInterval, StartupDelay, SweepTime} \subseteq Nat
  /\ {MaxRestarts, MaxFailures, MaxNow} \subseteq Nat
  /\ 0 < MinInterval /\ StartupDelay <= MinInterval
  /\ Schedulers # {} /\ Schedulers \intersect Admins = {}

VARIABLES
  status,    \* of each appointment; "none" before it is booked
  claimed,   \* keys that have a row in email_log
  now,
  job,       \* per thread: what it does, the appointments left on its list,
             \* whom it writes to next, and when its wait or its sweep ends
  restarts,  \* of schedulers' processes, so far
  failures,  \* scans cut short by an exception, so far
  since      \* when each appointment took its status; only properties read it

vars == <<status, claimed, now, job, restarts, failures, since>>
table == <<status, since>>

(* start(): a misconfigured interval of 0 would spin against the database. *)
Gap == IF ScanEvery > MinInterval THEN ScanEvery ELSE MinInterval

Waiting(until) == [pc |-> "waiting", todo |-> {}, side |-> "client", until |-> until]
Reminding(list) ==
  [pc |-> "reminding", todo |-> list, side |-> "client", until |-> now + SweepTime]
Resting == [pc |-> "idle", todo |-> {}, side |-> "client", until |-> 0]

Init ==
  /\ status = [a \in Appointments |-> "none"]
  /\ claimed = {}
  /\ now = 0
  /\ job = [t \in Threads |-> IF t \in Schedulers THEN Waiting(StartupDelay) ELSE Resting]
  /\ restarts = 0 /\ failures = 0
  /\ since = [a \in Appointments |-> 0]

At(t, label) == job[t].pc = label

-----------------------------------------------------------------------------
(* The scan.                                                               *)

(* The rows send_due_reminders reads, once; BETWEEN counts both ends.  The *)
(* faults forget the status, and the far end.                              *)
Between(a, from, to) == SortsAt[a] \in 2 * from .. 2 * to

Due_Fault == {a \in Appointments : status[a] # "none" /\ Between(a, now, now + Lead)}
Due_Late_Fault ==
  {a \in Appointments : status[a] = "confirmed" /\ Between(a, now, now + Gap)}

Due == {a \in Appointments : status[a] = "confirmed" /\ Between(a, now, now + Lead)}

(* ORDER BY date, start_time *)
First(list) == CHOOSE a \in list : \A b \in list : SortsAt[a] <= SortsAt[b]

(* The timer wakes and the first half of the sweep reads its list. *)
Wake(s) ==
  /\ At(s, "waiting")
  /\ now >= job[s].until
  /\ job' = [job EXCEPT ![s] = Reminding(Due)]
  /\ UNCHANGED <<table, claimed, now, restarts, failures>>

(* run_reminders: the same scan, in a request. *)
RunReminders(t) ==
  /\ At(t, "idle")
  /\ job' = [job EXCEPT ![t] = Reminding(Due)]
  /\ UNCHANGED <<table, claimed, now, restarts, failures>>

(* mailer.send(): a key is claimed once, whoever asks again. *)
Mail == INSTANCE MailPromise WITH failed <- {}, arrived <- [k \in Keys |-> 0]

Send(k) == Mail!Claim(k) \/ (k \in claimed /\ UNCHANGED claimed)

(* _remind_both_sides: the client, then the provider. *)
Remind(t) ==
  LET a == First(job[t].todo)
  IN /\ At(t, "reminding")
     /\ job[t].todo # {}
     /\ Send(<<a, job[t].side>>)
     /\ job' = [job EXCEPT ![t].side = IF @ = "client" THEN "provider" ELSE "client",
                           ![t].todo = IF job[t].side = "client" THEN @ ELSE @ \ {a}]
     /\ UNCHANGED <<table, now, restarts, failures>>

AfterScan(t) == IF t \in Schedulers THEN [job[t] EXCEPT !.pc = "nudging", !.todo = {}] ELSE Resting

FinishScan(t) ==
  /\ At(t, "reminding")
  /\ job[t].todo = {}
  /\ job' = [job EXCEPT ![t] = AfterScan(t)]
  /\ UNCHANGED <<table, claimed, now, restarts, failures>>

(* sweep() catches whatever either half raises and goes on with what comes *)
(* next; the rest of the list waits for another scan.  The fault lets the  *)
(* exception end the thread.                                               *)
OnError_Fault(next) == [next EXCEPT !.pc = "dead"]
OnError(next) == next

FailScan(t) ==
  /\ At(t, "reminding")
  /\ failures < MaxFailures
  /\ failures' = failures + 1
  /\ job' = [job EXCEPT ![t] = OnError(AfterScan(t))]
  /\ UNCHANGED <<table, claimed, now, restarts>>

(* The second half of the sweep, whose work is in CoffeeInvites, and the   *)
(* wait for the next one, which only begins when this one is over.         *)
Nudge(s) ==
  /\ At(s, "nudging")
  /\ job' = [job EXCEPT ![s] = Waiting(now + Gap)]
  /\ UNCHANGED <<table, claimed, now, restarts, failures>>

FailNudge(s) ==
  /\ At(s, "nudging")
  /\ job' = [job EXCEPT ![s] = OnError(Waiting(now + Gap))]
  /\ UNCHANGED <<table, claimed, now, restarts, failures>>

(* A process dies and is started again: create_app starts a new timer.     *)
Restart(s) ==
  /\ restarts < MaxRestarts
  /\ restarts' = restarts + 1
  /\ job' = [job EXCEPT ![s] = Waiting(now + StartupDelay)]
  /\ UNCHANGED <<table, claimed, now, failures>>

-----------------------------------------------------------------------------
(* Around the scan: appointments come, are cancelled or completed, and     *)
(* time passes.                                                            *)

Book(a) ==
  /\ status[a] = "none"
  /\ now < StartsAt[a]
  /\ status' = [status EXCEPT ![a] = "confirmed"]
  /\ since' = [since EXCEPT ![a] = now]
  /\ UNCHANGED <<claimed, now, job, restarts, failures>>

Close(a) ==
  /\ status[a] = "confirmed"
  /\ status' = [status EXCEPT ![a] = "closed"]
  /\ since' = [since EXCEPT ![a] = now]
  /\ UNCHANGED <<claimed, now, job, restarts, failures>>

(* No wait and no sweep outlasts its end. *)
Tick ==
  /\ now < MaxNow
  /\ \A t \in Threads : job[t].pc \in {"idle", "dead"} \/ now < job[t].until
  /\ now' = now + 1
  /\ UNCHANGED <<table, claimed, job, restarts, failures>>

Next ==
  \/ \E s \in Schedulers : Wake(s) \/ Nudge(s) \/ FailNudge(s) \/ Restart(s)
  \/ \E t \in Admins : RunReminders(t)
  \/ \E t \in Threads : Remind(t) \/ FinishScan(t) \/ FailScan(t)
  \/ \E a \in Appointments : Book(a) \/ Close(a)
  \/ Tick

Spec == Init /\ [][Next]_vars

-----------------------------------------------------------------------------
TypeOK ==
  /\ status \in [Appointments -> {"none", "confirmed", "closed"}]
  /\ claimed \subseteq Keys
  /\ now \in 0 .. MaxNow
  /\ job \in [Threads -> [pc : {"idle", "waiting", "reminding", "nudging"},
                          todo : SUBSET Appointments, side : Sides, until : Nat]]
  /\ restarts \in 0 .. MaxRestarts
  /\ failures \in 0 .. MaxFailures
  /\ since \in [Appointments -> Nat]

(* When a confirmed appointment is first among those a scan would read. *)
InReach(a) == IF since[a] > StartsAt[a] - Lead THEN since[a] ELSE StartsAt[a] - Lead

(* How long it may then wait: a sweep that has just missed it, the wait    *)
(* after that, and the sweep that finds it.  A restart costs a start-up    *)
(* delay and a sweep more, a failed scan another round.                    *)
Patience ==
  2 * SweepTime + Gap
    + restarts * (StartupDelay + SweepTime)
    + failures * (SweepTime + Gap)

(* Booked with so much time to spare, and both reminders in the mail       *)
(* before it starts. *)
InTime(a) ==
  (/\ status[a] = "confirmed"
   /\ StartsAt[a] >= InReach(a) + Patience
   /\ now > InReach(a) + Patience)
    => {a} \X Sides \subseteq claimed

(* The appointments whose date and time are written as the clock's are.    *)
Written == {a \in Appointments : SortsAt[a] = 2 * StartsAt[a]}

(* Every appointment that is Written, and booked with Patience to spare,   *)
(* has both its reminders in the mail before it starts, whatever failed or *)
(* was restarted in between, and whichever half of a sweep went wrong ("a  *)
(* dead scheduler is silent", scheduler.py:75-82).                         *)
RemindedInTime == \A a \in Written : InTime(a)

(* A scan reads its list once and mails it entry by entry, so a cancelled  *)
(* appointment may still be reminded of: but by a scan that had begun      *)
(* before, never later than that scan lasts; and if it is Written, never   *)
(* before its time or long after its start                                 *)
(* (test_cancelled_appointments_are_not_reminded,                          *)
(* test_reminders_ignore_appointments_further_out).                        *)
ReminderIsTimely ==
  [][\A a \in Appointments : claimed' \intersect ({a} \X Sides) # claimed \intersect ({a} \X Sides) =>
       /\ a \in Written => now \in StartsAt[a] - Lead .. StartsAt[a] + SweepTime
       /\ status[a] = "confirmed" \/ now <= since[a] + SweepTime]_vars

=============================================================================
