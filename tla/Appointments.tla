---------------------------- MODULE Appointments ----------------------------
(***************************************************************************)
(* The appointments table and the request handlers around it:              *)
(* routes/appointment_routes.py, routes/availability_routes.py and the     *)
(* account switch of routes/user_routes.py.                                *)
(*                                                                         *)
(* database.py commits after every statement, so a handler is a sequence   *)
(* of separate transactions: each action below is one SQL statement of one *)
(* handler, run by one server thread, and what a handler has read is kept  *)
(* in its own variables until it is used.  The mailer is taken at its      *)
(* word here: send() claims one email_log row per appointment and kind.    *)
(*                                                                         *)
(* A date is the text a client sent: it is checked only by strptime, which *)
(* takes "2026-9-5" for "2026-09-05", and it is stored and compared as     *)
(* sent.  A time is a minute, written as the code writes it, or any other  *)
(* text (OddTimes), which the booking route takes too.                     *)
(*                                                                         *)
(* A definition whose name ends in _Fault is the definition after it with  *)
(* one plausible mistake, kept to show that the runs would notice it.      *)
(***************************************************************************)
EXTENDS Calendar, FiniteSets

CONSTANTS
  Threads,          \* server threads, each serving one request at a time
  Users,
  Dates,            \* the texts dates are written as
  Day,              \* what strptime reads each as: that day's padded text
  Weekday,          \* the day_of_week of each date
  OddTimes,         \* texts that are not the "HH:MM" of a minute
  Reads,            \* what _to_minutes makes of each of them
  WindowRows,       \* availability rows: [id, provider, dow, start, end, step]
  BlockRows,        \* blocked_slots rows: [id, provider, date, start, end]
  Asks,             \* the [start, end] a client may ask for
  Clock,            \* readings of "earliest" in get_free_slots
  FirstAccounts,    \* the users table to begin with
  AdminTargets,     \* users an admin switches on and off or gives a new role
  MaxAppointments,  \* bound on the table, for model checking
  Restarts          \* whether the process may be restarted

Roles == {"admin", "provider", "client"}
Statuses == {"confirmed", "cancelled", "completed"}
Kinds == {"booked_client", "booked_provider", "cancelled_client",
          "cancelled_provider", "completed_client"}
Accounts == [role : Roles, is_active : BOOLEAN]
Times == Minutes \union OddTimes
Intervals == [start : Times, end : Times]
Padded == {d \in Dates : Day[d] = d}
Requests ==
  [by : Users, role : Roles, op : {"book"}, provider : Users, date : Dates, ask : Intervals]
    \union [by : Users, role : Roles, op : {"cancel", "complete"}, appt : Nat]

ASSUME AppointmentsAssumption ==
  /\ Day \in [Dates -> Dates] /\ \A d \in Dates : Day[Day[d]] = Day[d]
  /\ Weekday \in [Dates -> 0 .. 6]
  /\ OddTimes \intersect (Int \union {Null, Unreadable}) = {}
  /\ Reads \in [OddTimes -> Int \union {Unreadable}]
  /\ \A w \in WindowRows : WindowOK(w)
  /\ \A b \in BlockRows : BlockOK(b) /\ b.date \in Dates
  /\ Asks \subseteq Intervals
  /\ Clock \subseteq Int
  /\ FirstAccounts \in [Users -> Accounts]
  /\ AdminTargets \subseteq Users
  /\ MaxAppointments \in Nat
  /\ Restarts \in BOOLEAN
  /\ Null \notin Requests

VARIABLES
  users,         \* the users table
  availability,  \* the availability table
  blocked,       \* the blocked_slots table
  appointments,  \* the appointments table; a row's id is its position
  email_log,     \* claimed rows of email_log, [appt, kind]
  pc,            \* per thread: the next statement of its handler
  req,           \* per thread: the request it serves
  seen,          \* per thread: the availability rows it has read
  busy,          \* per thread: the busy ranges it has read
  appt,          \* per thread: the appointment it announces
  mail           \* per thread: the kinds it has still to send about it

tables == <<users, availability, blocked, appointments, email_log>>
locals == <<req, seen, busy, appt, mail>>
vars == <<users, availability, blocked, appointments, email_log,
          pc, req, seen, busy, appt, mail>>

Init ==
  /\ users = FirstAccounts
  /\ availability = {}
  /\ blocked = {}
  /\ appointments = << >>
  /\ email_log = {}
  /\ pc = [t \in Threads |-> "idle"]
  /\ req = [t \in Threads |-> Null]
  /\ seen = [t \in Threads |-> << >>]
  /\ busy = [t \in Threads |-> {}]
  /\ appt = [t \in Threads |-> 0]
  /\ mail = [t \in Threads |-> << >>]

Confirmed == {i \in DOMAIN appointments : appointments[i].status = "confirmed"}

(* token_required: the caller's row is loaded and must be active. *)
Signed(u, roles) == users[u].is_active /\ users[u].role \in roles

(* The handler returns; what it had read is gone.  (A value a handler will *)
(* not use again is dropped as soon as it has been used for the last time.) *)
Respond(t) ==
  /\ pc' = [pc EXCEPT ![t] = "idle"]
  /\ req' = [req EXCEPT ![t] = Null]
  /\ seen' = [seen EXCEPT ![t] = << >>]
  /\ busy' = [busy EXCEPT ![t] = {}]
  /\ appt' = [appt EXCEPT ![t] = 0]
  /\ mail' = [mail EXCEPT ![t] = << >>]

Goto(t, label) == pc' = [pc EXCEPT ![t] = label]

-----------------------------------------------------------------------------
(* POST /api/appointments: book_appointment.                               *)

Receive(t, r, roles, label) ==
  /\ pc[t] = "idle"
  /\ Signed(r.by, roles)
  /\ req' = [req EXCEPT ![t] = r]
  /\ Goto(t, label)
  /\ UNCHANGED <<tables, seen, busy, appt, mail>>

StartBook(t, u, p, d, ask) ==
  /\ Len(appointments) < MaxAppointments
  /\ Receive(t, [by |-> u, role |-> users[u].role, op |-> "book",
                 provider |-> p, date |-> d, ask |-> ask],
             {"client"}, "provider")

CheckProvider(t) ==
  /\ pc[t] = "provider"
  /\ \/ /\ Signed(req[t].provider, {"provider"})
        /\ Goto(t, "windows")
        /\ UNCHANGED locals
     \/ /\ ~Signed(req[t].provider, {"provider"})
        /\ Respond(t)
  /\ UNCHANGED tables

(* _windows_for: no ORDER BY, so the rows come back in any order. *)
ReadWindows(t) ==
  LET rows == {w \in availability : /\ w.provider = req[t].provider
                                    /\ w.dow = Weekday[Day[req[t].date]]}
  IN /\ pc[t] = "windows"
     /\ \/ /\ rows = {}
           /\ Respond(t)
        \/ /\ rows # {}
           /\ seen' \in {[seen EXCEPT ![t] = order] : order \in SetToSeqs(rows)}
           /\ Goto(t, "blocks")
           /\ UNCHANGED <<req, busy, appt, mail>>
     /\ UNCHANGED tables

(* _busy_ranges, its first query: the blocks of that text. *)
ReadBlocks(t) ==
  /\ pc[t] = "blocks"
  /\ busy' = [busy EXCEPT ![t] =
       {BlockRange(b) : b \in {row \in blocked : /\ row.provider = req[t].provider
                                                 /\ row.date = req[t].date}}]
  /\ Goto(t, "booked")
  /\ UNCHANGED <<tables, req, seen, appt, mail>>

(* _to_minutes. *)
ToMinutes(time) == IF time \in OddTimes THEN Reads[time] ELSE time

(* _busy_ranges, its second query: the bookings of that text.  The fault   *)
(* reads both ends of a booking from one column. *)
BookedRanges_Fault(p, d) ==
  {[start |-> ToMinutes(appointments[i].start), end |-> ToMinutes(appointments[i].start)] :
     i \in {j \in Confirmed : /\ appointments[j].provider = p
                              /\ appointments[j].date = d}}

BookedRanges(p, d) ==
  {[start |-> ToMinutes(appointments[i].start), end |-> ToMinutes(appointments[i].end)] :
     i \in {j \in Confirmed : /\ appointments[j].provider = p
                              /\ appointments[j].date = d}}

(* A stored booking that is no time makes _to_minutes raise. *)
Raises(ranges) == \E r \in ranges : Unreadable \in {r.start, r.end}

(* The rest of is_slot_free: the clock is read and the slots are walked.   *)
(* If _to_minutes raised, the request ends in a 500 instead. *)
ReadBooked(t) ==
  LET booked == BookedRanges(req[t].provider, req[t].date)
      accepts(earliest) ==
        /\ ~Raises(booked)
        /\ IsSlotFree(FreeSlots(seen[t], busy[t] \union booked, earliest),
                      req[t].ask.start, req[t].ask.end)
  IN /\ pc[t] = "booked"
     /\ \E earliest \in Clock :
          \/ /\ accepts(earliest)
             /\ Goto(t, "insert")
             /\ seen' = [seen EXCEPT ![t] = << >>]
             /\ busy' = [busy EXCEPT ![t] = {}]
             /\ UNCHANGED <<req, appt, mail>>
          \/ /\ ~accepts(earliest)
             /\ Respond(t)
     /\ UNCHANGED tables

NewRow(r) ==
  [provider |-> r.provider, client |-> r.by, date |-> r.date,
   start |-> r.ask.start, end |-> r.ask.end, status |-> "confirmed"]

(* uniq_active_slot, the partial unique index.  The fault is the index     *)
(* with client_id in it too.                                               *)
SlotTaken_Fault(r) ==
  \E i \in Confirmed : /\ appointments[i].provider = r.provider
                       /\ appointments[i].client = r.by
                       /\ appointments[i].date = r.date
                       /\ appointments[i].start = r.ask.start

SlotTaken(r) ==
  \E i \in Confirmed : /\ appointments[i].provider = r.provider
                       /\ appointments[i].date = r.date
                       /\ appointments[i].start = r.ask.start

(* The id insert() returns.  The fault is the row count from before. *)
NewId_Fault == Len(appointments)
NewId == Len(appointments) + 1

(* Who hears of what: notify_booked, notify_cancelled, notify_completed.   *)
(* The fault leaves the provider out.                                      *)
Announcements_Fault(op) ==
  CASE op = "book"     -> <<"booked_client">>
    [] op = "cancel"   -> <<"cancelled_client">>
    [] op = "complete" -> <<"completed_client">>

Announcements(op) ==
  CASE op = "book"     -> <<"booked_client", "booked_provider">>
    [] op = "cancel"   -> <<"cancelled_client", "cancelled_provider">>
    [] op = "complete" -> <<"completed_client">>

InsertAppointment(t) ==
  /\ pc[t] = "insert"
  /\ \/ /\ SlotTaken(req[t])
        /\ Respond(t)
        /\ UNCHANGED appointments
     \/ /\ ~SlotTaken(req[t])
        /\ appointments' = Append(appointments, NewRow(req[t]))
        /\ appt' = [appt EXCEPT ![t] = NewId]
        /\ mail' = [mail EXCEPT ![t] = Announcements("book")]
        /\ req' = [req EXCEPT ![t] = Null]
        /\ Goto(t, "mail")
        /\ UNCHANGED <<seen, busy>>
  /\ UNCHANGED <<users, availability, blocked, email_log>>

-----------------------------------------------------------------------------
(* POST /api/appointments/<id>/cancel and /complete.                       *)

StartChange(t, u, op, i) ==
  Receive(t, [by |-> u, role |-> users[u].role, op |-> op, appt |-> i],
          IF op = "cancel" THEN Roles ELSE {"provider", "admin"}, "load")

(* The caller's role is the one token_required loaded. *)
MayActOn(r, row) ==
  \/ r.role = "admin"
  \/ r.role = "client" /\ row.client = r.by
  \/ r.role = "provider" /\ row.provider = r.by

(* What the handler makes sure of before it writes.  The fault lets an     *)
(* appointment that is over be changed again.                              *)
MayChange_Fault(r) ==
  r.appt \in DOMAIN appointments /\ MayActOn(r, appointments[r.appt])

MayChange(r) == r.appt \in Confirmed /\ MayActOn(r, appointments[r.appt])

LoadForChange(t) ==
  /\ pc[t] = "load"
  /\ \/ /\ MayChange(req[t])
        /\ Goto(t, "update")
        /\ UNCHANGED locals
     \/ /\ ~MayChange(req[t])
        /\ Respond(t)
  /\ UNCHANGED tables

(* The fault stores the column's default for a completion. *)
NewStatus_Fault(op) == IF op = "cancel" THEN "cancelled" ELSE "confirmed"
NewStatus(op) == IF op = "cancel" THEN "cancelled" ELSE "completed"

(* The UPDATE names the row by id alone: the status read by LoadForChange  *)
(* is not tested again.                                                    *)
UpdateStatus(t) ==
  LET i == req[t].appt
  IN /\ pc[t] = "update"
     /\ appointments' = [appointments EXCEPT ![i].status = NewStatus(req[t].op)]
     /\ appt' = [appt EXCEPT ![t] = i]
     /\ mail' = [mail EXCEPT ![t] = Announcements(req[t].op)]
     /\ req' = [req EXCEPT ![t] = Null]
     /\ Goto(t, "mail")
     /\ UNCHANGED <<users, availability, blocked, email_log, seen, busy>>

(* notifications.notify_*: one mailer.send() per party. *)
SendMail(t) ==
  /\ pc[t] = "mail"
  /\ email_log' = email_log \union {[appt |-> appt[t], kind |-> Head(mail[t])]}
  /\ \/ /\ Len(mail[t]) > 1
        /\ mail' = [mail EXCEPT ![t] = Tail(@)]
        /\ UNCHANGED <<pc, req, seen, busy, appt>>
     \/ /\ Len(mail[t]) = 1
        /\ Respond(t)
  /\ UNCHANGED <<users, availability, blocked, appointments>>

-----------------------------------------------------------------------------
(* The provider's own calendar.  Each of these handlers makes one write    *)
(* and nothing it reads first can change what that write does.             *)

AddWindow(row) ==
  /\ Signed(row.provider, {"provider"})
  /\ row \notin availability
  /\ row.start < row.end /\ row.step > 0
  /\ availability' = availability \union {row}
  /\ UNCHANGED <<users, blocked, appointments, email_log, pc, locals>>

DeleteWindow(row) ==
  /\ Signed(row.provider, {"provider"})
  /\ availability' = availability \ {row}
  /\ UNCHANGED <<users, blocked, appointments, email_log, pc, locals>>

AddBlock(row) ==
  /\ Signed(row.provider, {"provider"})
  /\ row \notin blocked
  /\ row.date \in Padded
  /\ \/ row.start = Null /\ row.end = Null
     \/ Null \notin {row.start, row.end} /\ row.start < row.end
  /\ blocked' = blocked \union {row}
  /\ UNCHANGED <<users, availability, appointments, email_log, pc, locals>>

DeleteBlock(row) ==
  /\ Signed(row.provider, {"provider"})
  /\ blocked' = blocked \ {row}
  /\ UNCHANGED <<users, availability, appointments, email_log, pc, locals>>

(* PATCH /api/admin/users/<id>: an admin cannot switch off the account     *)
(* making the request, and nothing stops them changing its role.           *)
SetActive(a, u, on) ==
  /\ Signed(a, {"admin"})
  /\ u # a
  /\ users' = [users EXCEPT ![u].is_active = on]
  /\ UNCHANGED <<availability, blocked, appointments, email_log, pc, locals>>

SetRole(a, u, r) ==
  /\ Signed(a, {"admin"})
  /\ users' = [users EXCEPT ![u].role = r]
  /\ UNCHANGED <<availability, blocked, appointments, email_log, pc, locals>>

(* The process dies and comes back: the tables are all that is left. *)
Restart ==
  /\ Restarts
  /\ pc' = [t \in Threads |-> "idle"]
  /\ req' = [t \in Threads |-> Null]
  /\ seen' = [t \in Threads |-> << >>]
  /\ busy' = [t \in Threads |-> {}]
  /\ appt' = [t \in Threads |-> 0]
  /\ mail' = [t \in Threads |-> << >>]
  /\ UNCHANGED tables

-----------------------------------------------------------------------------
(* Requests the threads take up, and the steps of the handlers. *)
Arrive(t) ==
  \/ \E u, p \in Users, d \in Dates, ask \in Asks : StartBook(t, u, p, d, ask)
  \/ \E u \in Users, op \in {"cancel", "complete"}, i \in DOMAIN appointments :
       StartChange(t, u, op, i)

Handle(t) ==
  \/ CheckProvider(t)
  \/ ReadWindows(t)
  \/ ReadBlocks(t)
  \/ ReadBooked(t)
  \/ InsertAppointment(t)
  \/ LoadForChange(t)
  \/ UpdateStatus(t)
  \/ SendMail(t)

(* A handler of one statement takes a free thread for that statement. *)
Settings(t) ==
  /\ pc[t] = "idle"
  /\ \/ \E row \in WindowRows : AddWindow(row) \/ DeleteWindow(row)
     \/ \E row \in BlockRows : AddBlock(row) \/ DeleteBlock(row)
     \/ \E a \in Users, u \in AdminTargets :
          \/ \E on \in BOOLEAN : SetActive(a, u, on)
          \/ \E r \in Roles : SetRole(a, u, r)

Next ==
  \/ \E t \in Threads : Arrive(t) \/ Handle(t) \/ Settings(t)
  \/ Restart

Spec == Init /\ [][Next]_vars

(* A thread that has taken a request runs its handler to the end. *)
FairSpec == Spec /\ \A t \in Threads : WF_vars(Handle(t))

-----------------------------------------------------------------------------
Row == [provider : Users, client : Users, date : Dates,
        start : Times, end : Times, status : Statuses]

Labels == {"idle", "provider", "windows", "blocks", "booked", "insert",
           "load", "update", "mail"}

BookLabels == {"provider", "windows", "blocks", "booked", "insert"}
ChangeLabels == {"load", "update"}

(* What a thread holds at each statement of its handler. *)
LocalsOK(t) ==
  /\ pc[t] \in BookLabels => req[t] \in Requests /\ req[t].op = "book"
  /\ pc[t] \in ChangeLabels => req[t] \in Requests /\ req[t].op # "book"
  /\ pc[t] = "update" => req[t].appt \in DOMAIN appointments
  /\ pc[t] = "mail" => appt[t] \in DOMAIN appointments /\ mail[t] # << >>

TypeOK ==
  /\ users \in [Users -> Accounts]
  /\ availability \subseteq WindowRows
  /\ blocked \subseteq {b \in BlockRows : b.date \in Padded}
  /\ appointments \in Seq(Row)
  /\ email_log \subseteq [appt : DOMAIN appointments, kind : Kinds]
  /\ pc \in [Threads -> Labels]
  /\ req \in [Threads -> Requests \union {Null}]
  /\ appt \in [Threads -> Nat]
  /\ mail \in [Threads -> Seq(Kinds)]
  /\ \A t \in Threads : LocalsOK(t)

SameSlot(i, j) ==
  /\ appointments[i].provider = appointments[j].provider
  /\ appointments[i].date = appointments[j].date
  /\ appointments[i].start = appointments[j].start

(* The minutes an appointment or a request takes up. *)
Span(a) ==
  LET s == ToMinutes(a.start)
      e == ToMinutes(a.end)
  IN IF Unreadable \in {s, e} THEN {} ELSE s .. e - 1

(* Two appointments ask the provider to be in two places at one minute of  *)
(* one day, however the day is written. *)
Collide(i, j) ==
  /\ appointments[i].provider = appointments[j].provider
  /\ Day[appointments[i].date] = Day[appointments[j].date]
  /\ Span(appointments[i]) \intersect Span(appointments[j]) # {}

(* The appointments whose date is written as the site's own pages write    *)
(* it: they send a date field's value (app.js:277).  The route does not    *)
(* ask for it, and an appointment written otherwise sees no block and no   *)
(* other appointment of its day, nor do they see it.                       *)
Written == {i \in DOMAIN appointments : appointments[i].date \in Padded}

(* What the unique index really gives (uniq_active_slot,                   *)
(* database.py:234-236): at most one confirmed appointment starts at any   *)
(* one time with any one provider, date and time being the texts they are  *)
(* written as, in every interleaving of the handlers.                      *)
UniqueActiveSlot ==
  \A i, j \in Confirmed : SameSlot(i, j) => i = j

(* Nobody is double-booked: no two confirmed appointments of a provider    *)
(* share a minute (README, "a unique DB constraint blocks race-condition   *)
(* double-bookings"; calendar_logic.py:63-67).  With two threads, or with a  *)
(* day written in two ways, they can.                                      *)
NoDoubleBooking ==
  \A i, j \in Confirmed : Collide(i, j) => i = j

(* No step rewrites history: rows are only added at the end, who, when and *)
(* with whom never change, and an appointment that is not confirmed is     *)
(* never confirmed again (so a slot given back is really free).            *)
HistoryIsKept ==
  [][/\ Len(appointments) <= Len(appointments')
     /\ \A i \in DOMAIN appointments :
          /\ [appointments'[i] EXCEPT !.status = appointments[i].status] = appointments[i]
          /\ appointments'[i].status = "confirmed" => appointments[i].status = "confirmed"
    ]_vars

(* An appointment that was cancelled or completed stays as it is: the      *)
(* second caller is told "Appointment is already ..."                      *)
(* (appointment_routes.py:124-125 and 141-142; tests/                      *)
(* test_appointments_api.py:153).                                          *)
StatusIsFinal ==
  [][\A i \in DOMAIN appointments :
       appointments[i].status # "confirmed" =>
         appointments'[i].status = appointments[i].status]_vars

(* Nobody is told two different endings: both sides hear of a cancellation *)
(* or the client of a completion, never both, and never of an appointment  *)
(* that is still on.                                                       *)
OneEnding ==
  \A m \in email_log :
    /\ m.kind \in {"cancelled_client", "cancelled_provider"} =>
         appointments[m.appt].status = "cancelled"
    /\ m.kind = "completed_client" => appointments[m.appt].status = "completed"

(* An appointment is taken only within the provider's hours, and one that  *)
(* is Written only in time that is free at that moment: no block and no    *)
(* Written confirmed appointment of the provider on that day holds any of  *)
(* its minutes, whatever else is stored (_busy_ranges,                     *)
(* calendar_logic.py:60-68).  It takes one thread.                         *)
TakenTimeWasFree ==
  [][\A i \in DOMAIN appointments' \ DOMAIN appointments :
       LET a == appointments'[i]
       IN \A m \in Span(a) :
            /\ \E w \in availability :
                 /\ w.provider = a.provider /\ w.dow = Weekday[Day[a.date]]
                 /\ w.start <= m /\ m < w.end
            /\ a.date \in Padded =>
                 /\ \A b \in blocked :
                      b.provider = a.provider /\ Day[b.date] = Day[a.date] =>
                        ~(BlockRange(b).start <= m /\ m < BlockRange(b).end)
                 /\ \A j \in Confirmed \intersect Written :
                      (/\ appointments[j].provider = a.provider
                       /\ Day[appointments[j].date] = Day[a.date])
                        => m \notin Span(appointments[j])
    ]_vars

(* Every booking is announced to both parties, and so is every             *)
(* cancellation, when threads keep running and the process does not die.   *)
Announced(i, kind) == [appt |-> i, kind |-> kind] \in email_log

BookingIsAnnounced ==
  \A i \in 1 .. MaxAppointments :
    i \in DOMAIN appointments ~> Announced(i, "booked_client") /\ Announced(i, "booked_provider")

CancellationIsAnnounced ==
  \A i \in 1 .. MaxAppointments :
    (i \in DOMAIN appointments /\ appointments[i].status = "cancelled")
      ~> Announced(i, "cancelled_client") /\ Announced(i, "cancelled_provider")

(* The confirmed appointments that are Written, as the entries of a diary. *)
Ledger ==
  {[id |-> i, provider |-> appointments[i].provider, day |-> Day[appointments[i].date],
    minutes |-> Span(appointments[i])] : i \in Confirmed \intersect Written}

PromisedDiary == INSTANCE Diary WITH entries <- Ledger, used <- Written

(* The handlers keep the promise of Diary: time taken is disjoint from     *)
(* every other entry at the moment it is taken, and no entry returns,      *)
(* whatever is booked under other spellings beside it.  (A booking under   *)
(* another spelling of the day sees no such entry, and can take its time.) *)
(* It takes one thread or one grid.                                        *)
KeepsADiary == PromisedDiary!Spec

=============================================================================
