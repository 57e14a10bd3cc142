--------------------------- MODULE CoffeeInvites ---------------------------
(***************************************************************************)
(* The coffee-chat invite and its handlers: coffee_chats.py,               *)
(* coffee_notifications.py and routes/coffee_routes.py.                    *)
(*                                                                         *)
(* As in Appointments, an action is one SQL statement of one handler, and  *)
(* a thread keeps between statements only what its handler will use.  The  *)
(* calendar is reduced to what invites need of it: sessions of one length  *)
(* on one grid, each slot named by the moment it starts, free when no      *)
(* confirmed appointment of the host is in it.  (A slot has one name here; *)
(* that a guest can write its date in two ways is in Appointments, and no  *)
(* property below depends on what is free.)                                *)
(*                                                                         *)
(* A definition whose name ends in _Fault is the definition after it with  *)
(* one plausible mistake, kept to show that the runs would notice it.      *)
(***************************************************************************)
EXTENDS Integers, Sequences, FiniteSets

CONSTANTS
  WebThreads,     \* threads serving requests
  SweepThreads,   \* threads running send_due_nudges: a scheduler, or a web
                  \* thread serving POST /api/coffee/run-nudges
  Hosts, Guests,
  Slots,          \* the moments at which a host could start a session
  ExpiryDays,     \* DEFAULT_EXPIRY_DAYS
  NudgeAfterDays, \* NUDGE_AFTER_DAYS
  MaxNudges,      \* MAX_NUDGES
  ManualNudges,   \* how many nudges hosts send by hand (bound)
  MaxInvites,     \* bound on the table
  MaxNow,         \* bound on the clock
  Cancellations,  \* whether appointments are cancelled meanwhile
  MaxRestarts,    \* bound on restarts
  Null

ASSUME CoffeeAssumption ==
  /\ Slots \subseteq Nat
  /\ {ExpiryDays, NudgeAfterDays, MaxNudges, ManualNudges, MaxInvites, MaxNow, MaxRestarts} \subseteq Nat
  /\ Cancellations \in BOOLEAN
  /\ Null \notin Guests \union Hosts

Threads == WebThreads \union SweepThreads
Open == {"sent", "viewed"}
Statuses == Open \union {"booked", "declined", "expired", "revoked"}

VARIABLES
  invites,       \* the coffee_invites table; a row's id is its position
  appointments,  \* appointments made from invites, [host, guest, slot, status]
  users,         \* guests that have a users row
  mailed,        \* email_log rows: [kind, key, n], n-th of that kind and key
  now,
  job,           \* per thread: its handler and what it holds
  \* Nothing in the program reads the three that follow; properties do.
  via,           \* per appointment: the invite it was made from
  chased,        \* per invite: when it was last chased automatically
  restarts       \* of the process, so far

vars == <<invites, appointments, users, mailed, now, job, via, chased, restarts>>

Idle == [pc |-> "idle", inv |-> 0, slot |-> 0, appt |-> 0,
         host |-> Null, guest |-> Null, todo |-> {}]

Init ==
  /\ invites = << >>
  /\ appointments = << >>
  /\ users = {}
  /\ mailed = {}
  /\ now = 0
  /\ job = [t \in Threads |-> Idle]
  /\ via = << >>
  /\ chased = << >>
  /\ restarts = 0

-----------------------------------------------------------------------------
(* What a handler does between statements. *)

At(t, label) == job[t].pc = label
Goto(t, label) == job' = [job EXCEPT ![t].pc = label]
Respond(t) == job' = [job EXCEPT ![t] = Idle]
Begin(t, fields) == At(t, "idle") /\ job' = [job EXCEPT ![t] = fields]

Calendar == <<appointments, users, via>>

(* The UPDATEs that name a row by id alone. *)
SetStatus(i, s) == invites' = [invites EXCEPT ![i].status = s]

IsExpired(i) == invites[i].expires_at < now
IsOpen(i) == invites[i].status \in Open /\ ~IsExpired(i)

(* mailer.send() for a message with no appointment: never a duplicate. *)
Count(kind, key) == Cardinality({m \in mailed : m.kind = kind /\ m.key = key})
Post(kind, key) ==
  mailed' = mailed \union {[kind |-> kind, key |-> key, n |-> Count(kind, key) + 1]}

(* mailer.send() about an appointment: once for each kind. *)
PostOnce(kind, key) == mailed' = mailed \union {[kind |-> kind, key |-> key, n |-> 1]}

-----------------------------------------------------------------------------
(* The host: create_invite, nudge, revoke.  A caller who is not the        *)
(* invite's host is turned away before anything is read or written.        *)

StartCreate(t, h, g) ==
  /\ Len(invites) < MaxInvites
  /\ Begin(t, [Idle EXCEPT !.pc = "dup", !.host = h, !.guest = g])
  /\ UNCHANGED <<invites, Calendar, mailed, now, chased, restarts>>

(* _reject_duplicate goes by the stored status, whatever the clock says.   *)
(* The fault looks at unopened invites only.                               *)
Duplicate_Fault(h, g) ==
  \E i \in DOMAIN invites :
    invites[i].host = h /\ invites[i].guest = g /\ invites[i].status = "sent"

Duplicate(h, g) ==
  \E i \in DOMAIN invites :
    invites[i].host = h /\ invites[i].guest = g /\ invites[i].status \in Open

CheckDuplicate(t) ==
  /\ At(t, "dup")
  /\ IF Duplicate(job[t].host, job[t].guest) THEN Respond(t) ELSE Goto(t, "create")
  /\ UNCHANGED <<invites, Calendar, mailed, now, chased, restarts>>

(* The fault subtracts the days an invite stays usable. *)
ExpiresAt_Fault == now - ExpiryDays
ExpiresAt == now + ExpiryDays

InsertInvite(t) ==
  /\ At(t, "create")
  /\ invites' = Append(invites,
       [host |-> job[t].host, guest |-> job[t].guest, status |-> "sent",
        appointment_id |-> 0, nudge_count |-> 0, last_contact |-> now,
        expires_at |-> ExpiresAt])
  /\ chased' = Append(chased, now)
  /\ job' = [job EXCEPT ![t].pc = "ask", ![t].inv = Len(invites) + 1]
  /\ UNCHANGED <<Calendar, mailed, now, restarts>>

SendInvite(t) ==
  /\ At(t, "ask")
  /\ Post("coffee_invite", job[t].inv)
  /\ Respond(t)
  /\ UNCHANGED <<invites, Calendar, now, chased, restarts>>

StartNudge(t, i) ==
  /\ Count("coffee_nudge", i) < MaxNudges + ManualNudges
  /\ ManualNudges > 0
  /\ Begin(t, [Idle EXCEPT !.pc = "checkNudge", !.inv = i])
  /\ UNCHANGED <<invites, Calendar, mailed, now, chased, restarts>>

CheckNudge(t) ==
  /\ At(t, "checkNudge")
  /\ IF IsOpen(job[t].inv) THEN Goto(t, "nudge") ELSE Respond(t)
  /\ UNCHANGED <<invites, Calendar, mailed, now, chased, restarts>>

(* send_nudge reloads the invite for its wording and looks no further. *)
SendNudge(t) ==
  /\ At(t, "nudge")
  /\ Post("coffee_nudge", job[t].inv)
  /\ Goto(t, "recordNudge")
  /\ UNCHANGED <<invites, Calendar, now, chased, restarts>>

(* record_nudge.  The fault leaves last_nudge_at alone. *)
Record_Fault(i) == invites' = [invites EXCEPT ![i].nudge_count = @ + 1]

Record(i) ==
  invites' = [invites EXCEPT ![i].nudge_count = @ + 1, ![i].last_contact = now]

RecordNudge(t) ==
  /\ At(t, "recordNudge")
  /\ Record(job[t].inv)
  /\ Respond(t)
  /\ UNCHANGED <<Calendar, mailed, now, chased, restarts>>

StartRevoke(t, i) ==
  /\ Begin(t, [Idle EXCEPT !.pc = "checkRevoke", !.inv = i])
  /\ UNCHANGED <<invites, Calendar, mailed, now, chased, restarts>>

(* revoke refuses a booked invite and nothing else.  The fault forgets to. *)
MayRevoke_Fault(i) == i \in DOMAIN invites
MayRevoke(i) == invites[i].status # "booked"

CheckRevoke(t) ==
  /\ At(t, "checkRevoke")
  /\ IF MayRevoke(job[t].inv) THEN Goto(t, "revoke") ELSE Respond(t)
  /\ UNCHANGED <<invites, Calendar, mailed, now, chased, restarts>>

UpdateRevoked(t) ==
  /\ At(t, "revoke")
  /\ SetStatus(job[t].inv, "revoked")
  /\ Respond(t)
  /\ UNCHANGED <<Calendar, mailed, now, chased, restarts>>

-----------------------------------------------------------------------------
(* The guest: view_invite, decline, book.                                  *)

StartView(t, i) ==
  /\ Begin(t, [Idle EXCEPT !.pc = "checkView", !.inv = i])
  /\ UNCHANGED <<invites, Calendar, mailed, now, chased, restarts>>

CheckView(t) ==
  /\ At(t, "checkView")
  /\ IF IsOpen(job[t].inv) /\ invites[job[t].inv].status = "sent"
     THEN Goto(t, "view") ELSE Respond(t)
  /\ UNCHANGED <<invites, Calendar, mailed, now, chased, restarts>>

(* mark_viewed names the row by id alone, as every UPDATE but expire's. *)
UpdateViewed(t) ==
  /\ At(t, "view")
  /\ SetStatus(job[t].inv, "viewed")
  /\ Respond(t)
  /\ UNCHANGED <<Calendar, mailed, now, chased, restarts>>

StartDecline(t, i) ==
  /\ Begin(t, [Idle EXCEPT !.pc = "checkDecline", !.inv = i])
  /\ UNCHANGED <<invites, Calendar, mailed, now, chased, restarts>>

CheckDecline(t) ==
  /\ At(t, "checkDecline")
  /\ IF IsOpen(job[t].inv) THEN Goto(t, "decline") ELSE Respond(t)
  /\ UNCHANGED <<invites, Calendar, mailed, now, chased, restarts>>

UpdateDeclined(t) ==
  /\ At(t, "decline")
  /\ SetStatus(job[t].inv, "declined")
  /\ Goto(t, "tellDeclined")
  /\ UNCHANGED <<Calendar, mailed, now, chased, restarts>>

NotifyDeclined(t) ==
  /\ At(t, "tellDeclined")
  /\ Post("coffee_declined", job[t].inv)
  /\ Respond(t)
  /\ UNCHANGED <<invites, Calendar, now, chased, restarts>>

StartBook(t, i, slot) ==
  /\ Begin(t, [Idle EXCEPT !.pc = "checkBook", !.inv = i, !.slot = slot])
  /\ UNCHANGED <<invites, Calendar, mailed, now, chased, restarts>>

(* _open_invite_for's tests of the status. *)
StillOpen(i) == invites[i].status \in Open

(* _open_invite_for, then _parse_start: expiry is looked at first. *)
CheckBook(t) ==
  LET i == job[t].inv
  IN /\ At(t, "checkBook")
     /\ \/ IsExpired(i) /\ Goto(t, "expire")
        \/ ~IsExpired(i) /\ ~StillOpen(i) /\ Respond(t)
        \/ ~IsExpired(i) /\ StillOpen(i) /\ job[t].slot < now /\ Respond(t)
        \/ ~IsExpired(i) /\ StillOpen(i) /\ job[t].slot >= now /\ Goto(t, "free")
     /\ UNCHANGED <<invites, Calendar, mailed, now, chased, restarts>>

(* expire(): the one UPDATE that tests the status it replaces.  The fault  *)
(* does not.                                                               *)
Expire_Fault(i) == SetStatus(i, "expired")

(* The other fault closes unopened invites only. *)
Expire_Narrow_Fault(i) ==
  IF invites[i].status = "sent" THEN SetStatus(i, "expired") ELSE UNCHANGED invites

Expire(i) ==
  IF invites[i].status \in Open THEN SetStatus(i, "expired") ELSE UNCHANGED invites

ExpireOnBook(t) ==
  /\ At(t, "expire")
  /\ Expire(job[t].inv)
  /\ Respond(t)
  /\ UNCHANGED <<Calendar, mailed, now, chased, restarts>>

Taken(h, slot) ==
  \E a \in DOMAIN appointments :
    /\ appointments[a].host = h
    /\ appointments[a].slot = slot
    /\ appointments[a].status = "confirmed"

CheckSlot(t) ==
  /\ At(t, "free")
  /\ IF Taken(invites[job[t].inv].host, job[t].slot) THEN Respond(t) ELSE Goto(t, "guest")
  /\ UNCHANGED <<invites, Calendar, mailed, now, chased, restarts>>

(* _find_or_create_guest: a look, then an INSERT that fails the request if *)
(* the address has arrived in the meantime.                                *)
FindGuest(t) ==
  /\ At(t, "guest")
  /\ Goto(t, IF invites[job[t].inv].guest \in users THEN "insert" ELSE "addGuest")
  /\ UNCHANGED <<invites, Calendar, mailed, now, chased, restarts>>

AddGuest(t) ==
  LET g == invites[job[t].inv].guest
  IN /\ At(t, "addGuest")
     /\ users' = users \union {g}
     /\ IF g \in users THEN Respond(t) ELSE Goto(t, "insert")
     /\ UNCHANGED <<invites, appointments, via, mailed, now, chased, restarts>>

InsertAppointment(t) ==
  LET row == invites[job[t].inv]
  IN /\ At(t, "insert")
     /\ \/ /\ Taken(row.host, job[t].slot)
           /\ Respond(t)
           /\ UNCHANGED <<appointments, via>>
        \/ /\ ~Taken(row.host, job[t].slot)
           /\ appointments' = Append(appointments,
                [host |-> row.host, guest |-> row.guest, slot |-> job[t].slot,
                 status |-> "confirmed"])
           /\ via' = Append(via, job[t].inv)
           /\ job' = [job EXCEPT ![t].pc = "link", ![t].slot = 0,
                                 ![t].appt = Len(appointments) + 1]
     /\ UNCHANGED <<invites, users, mailed, now, chased, restarts>>

(* The fault marks the invite and forgets the appointment. *)
Link_Fault(i, a) == SetStatus(i, "booked")

Link(i, a) ==
  invites' = [invites EXCEPT ![i].status = "booked", ![i].appointment_id = a]

UpdateBooked(t) ==
  /\ At(t, "link")
  /\ Link(job[t].inv, job[t].appt)
  /\ Goto(t, "tellGuest")
  /\ UNCHANGED <<Calendar, mailed, now, chased, restarts>>

(* notifications.notify_booked(notify_provider=False) *)
NotifyGuest(t) ==
  /\ At(t, "tellGuest")
  /\ PostOnce("booked_client", job[t].appt)
  /\ Goto(t, "tellHost")
  /\ UNCHANGED <<invites, Calendar, now, chased, restarts>>

(* coffee_notifications.notify_booked: the appointment is the one the      *)
(* invite now names.                                                       *)
NotifyHost(t) ==
  /\ At(t, "tellHost")
  /\ LET a == invites[job[t].inv].appointment_id
     IN IF a = 0 THEN UNCHANGED mailed ELSE PostOnce("coffee_booked", a)
  /\ Respond(t)
  /\ UNCHANGED <<invites, Calendar, now, chased, restarts>>

-----------------------------------------------------------------------------
(* The sweep: send_due_nudges.                                             *)

Stale == {i \in DOMAIN invites : invites[i].status \in Open /\ IsExpired(i)}

(* due_for_nudge.  The fault drops the test on nudge_count. *)
Due_Fault ==
  {i \in DOMAIN invites : /\ invites[i].status \in Open
                          /\ invites[i].expires_at > now
                          /\ invites[i].last_contact < now - NudgeAfterDays}

Due ==
  {i \in DOMAIN invites : /\ invites[i].status \in Open
                          /\ invites[i].nudge_count < MaxNudges
                          /\ invites[i].expires_at > now
                          /\ invites[i].last_contact < now - NudgeAfterDays}

StartSweep(t) ==
  /\ At(t, "idle")
  /\ job' = [job EXCEPT ![t] = [Idle EXCEPT !.pc = "expireStale", !.todo = Stale]]
  /\ UNCHANGED <<invites, Calendar, mailed, now, chased, restarts>>

(* The stale invites come in no particular order. *)
ExpireStale(t) ==
  /\ At(t, "expireStale")
  /\ \E i \in job[t].todo :
       /\ Expire(i)
       /\ job' = [job EXCEPT ![t].todo = @ \ {i}]
  /\ UNCHANGED <<Calendar, mailed, now, chased, restarts>>

(* The list of invites to chase is read once, before the first is chased. *)
ListDue(t) ==
  /\ At(t, "expireStale")
  /\ job[t].todo = {}
  /\ IF Due = {} THEN Respond(t)
     ELSE job' = [job EXCEPT ![t].pc = "chase", ![t].todo = Due]
  /\ UNCHANGED <<invites, Calendar, mailed, now, chased, restarts>>

(* ORDER BY created_at: the oldest invite first. *)
Oldest(todo, i) == i \in todo /\ \A j \in todo : i <= j

Chase(t) ==
  /\ At(t, "chase")
  /\ \E i \in job[t].todo :
       /\ Oldest(job[t].todo, i)
       /\ Post("coffee_nudge", i)
       /\ chased' = [chased EXCEPT ![i] = now]
       /\ job' = [job EXCEPT ![t].pc = "recordChase", ![t].inv = i, ![t].todo = @ \ {i}]
  /\ UNCHANGED <<invites, Calendar, now, restarts>>

RecordChase(t) ==
  /\ At(t, "recordChase")
  /\ Record(job[t].inv)
  /\ IF job[t].todo = {} THEN Respond(t)
     ELSE job' = [job EXCEPT ![t].pc = "chase", ![t].inv = 0]
  /\ UNCHANGED <<Calendar, mailed, now, chased, restarts>>

-----------------------------------------------------------------------------
(* Around the invites: time passes, and a booked appointment is cancelled  *)
(* (appointment_routes.py) and frees its slot.                             *)

Tick ==
  /\ now < MaxNow
  /\ now' = now + 1
  /\ UNCHANGED <<invites, Calendar, mailed, job, chased, restarts>>

CancelAppointment(a) ==
  /\ Cancellations
  /\ appointments[a].status = "confirmed"
  /\ appointments' = [appointments EXCEPT ![a].status = "cancelled"]
  /\ UNCHANGED <<invites, users, via, mailed, now, job, chased, restarts>>

(* The process dies between two statements: what its handlers held is      *)
(* gone, and the rows stay.  A chase it did not live to record counts as   *)
(* none.                                                                   *)
Unrecorded(i) == \E t \in Threads : At(t, "recordChase") /\ job[t].inv = i

Restart ==
  /\ restarts < MaxRestarts
  /\ restarts' = restarts + 1
  /\ job' = [t \in Threads |-> Idle]
  /\ chased' = [i \in DOMAIN chased |->
                  IF Unrecorded(i) THEN invites[i].last_contact ELSE chased[i]]
  /\ UNCHANGED <<invites, Calendar, mailed, now>>

Arrive(t) ==
  \/ \E h \in Hosts, g \in Guests : StartCreate(t, h, g)
  \/ \E i \in DOMAIN invites :
       \/ StartNudge(t, i)
       \/ StartRevoke(t, i)
       \/ StartView(t, i)
       \/ StartDecline(t, i)
       \/ \E slot \in Slots : StartBook(t, i, slot)

Handle(t) ==
  \/ CheckDuplicate(t) \/ InsertInvite(t) \/ SendInvite(t)
  \/ CheckNudge(t) \/ SendNudge(t) \/ RecordNudge(t)
  \/ CheckRevoke(t) \/ UpdateRevoked(t)
  \/ CheckView(t) \/ UpdateViewed(t)
  \/ CheckDecline(t) \/ UpdateDeclined(t) \/ NotifyDeclined(t)
  \/ CheckBook(t) \/ ExpireOnBook(t) \/ CheckSlot(t)
  \/ FindGuest(t) \/ AddGuest(t) \/ InsertAppointment(t)
  \/ UpdateBooked(t) \/ NotifyGuest(t) \/ NotifyHost(t)
  \/ ExpireStale(t) \/ ListDue(t) \/ Chase(t) \/ RecordChase(t)

Next ==
  \/ \E t \in WebThreads : Arrive(t)
  \/ \E t \in SweepThreads : StartSweep(t)
  \/ \E t \in Threads : Handle(t)
  \/ Tick
  \/ \E a \in DOMAIN appointments : CancelAppointment(a)
  \/ Restart

Spec == Init /\ [][Next]_vars

(* A request that has begun runs to its end, the scheduler comes round     *)
(* again, and time passes.                                                 *)
FairSpec ==
  /\ Spec
  /\ \A t \in Threads : WF_vars(Handle(t))
  /\ \A t \in SweepThreads : WF_vars(StartSweep(t))
  /\ WF_vars(Tick)

-----------------------------------------------------------------------------
Labels ==
  {"idle", "dup", "create", "ask", "checkNudge", "nudge", "recordNudge",
   "checkRevoke", "revoke", "checkView", "view", "checkDecline", "decline",
   "tellDeclined", "checkBook", "expire", "free", "guest", "addGuest", "insert",
   "link", "tellGuest", "tellHost", "expireStale", "chase", "recordChase"}

InviteRow ==
  [host : Hosts, guest : Guests, status : Statuses, appointment_id : Nat,
   nudge_count : Nat, last_contact : Nat, expires_at : Nat]

AppointmentRow ==
  [host : Hosts, guest : Guests, slot : Slots, status : {"confirmed", "cancelled"}]

Job ==
  [pc : Labels, inv : Nat, slot : Nat, appt : Nat, host : Hosts \union {Null},
   guest : Guests \union {Null}, todo : SUBSET Nat]

TypeOK ==
  /\ invites \in Seq(InviteRow)
  /\ appointments \in Seq(AppointmentRow)
  /\ users \subseteq Guests
  /\ now \in 0 .. MaxNow
  /\ job \in [Threads -> Job]
  /\ via \in [DOMAIN appointments -> DOMAIN invites]
  /\ chased \in [DOMAIN invites -> Nat]
  /\ restarts \in 0 .. MaxRestarts

MadeFrom(i) == {a \in DOMAIN appointments : via[a] = i}

(* An invite that says booked names a real appointment, made from that     *)
(* very invite for its own host and guest, whoever else was writing to the *)
(* row meanwhile ("appointment_id points at the real appointment",         *)
(* coffee_chats.py:25).                                                    *)
BookedNamesItsAppointment ==
  \A i \in DOMAIN invites :
    /\ invites[i].status = "booked" => invites[i].appointment_id # 0
    /\ invites[i].appointment_id # 0 =>
         /\ invites[i].appointment_id \in MadeFrom(i)
         /\ appointments[invites[i].appointment_id].host = invites[i].host
         /\ appointments[invites[i].appointment_id].guest = invites[i].guest

(* Nothing is expired but an invite still open whose time has passed: the  *)
(* sweep, working from a list read earlier, never closes an invite the     *)
(* guest has answered since (expire, coffee_chats.py:432-435).             *)
ExpiryOnlyClosesTheOpen ==
  [][\A i \in DOMAIN invites :
       invites[i].status # "expired" /\ invites'[i].status = "expired" =>
         invites[i].status \in Open /\ IsExpired(i)]_vars

(* "The invite link carries a token that authorises exactly one action on  *)
(* exactly one calendar" (coffee_chats.py:14-16;                           *)
(* test_a_token_books_only_once): at most one appointment is ever made     *)
(* from an invite.                                                         *)
OneBookingPerInvite ==
  \A i \in DOMAIN invites : Cardinality(MadeFrom(i)) <= 1

(* A booked invite stays booked: "That invite is already booked. Cancel    *)
(* the appointment instead." (coffee_chats.py:426-427).                    *)
BookedIsFinal ==
  [][\A i \in DOMAIN invites :
       invites[i].status = "booked" => invites'[i].status = "booked"]_vars

(* At most one open invite for a host and a guest: "two live links         *)
(* fragment the thread" (_reject_duplicate, coffee_chats.py:180-182).      *)
OneOpenInvite ==
  \A i, j \in DOMAIN invites :
    /\ {invites[i].status, invites[j].status} \subseteq Open
    /\ invites[i].host = invites[j].host
    /\ invites[i].guest = invites[j].guest
    => i = j

(* Nobody is chased more than MAX_NUDGES times: "a second is where         *)
(* persistence turns into pestering, which is why the cap is two"          *)
(* (coffee_chats.py:61-65; README, "capped at two"), and once more for     *)
(* each time the process died between a nudge and its record.              *)
NudgesAreCapped ==
  \A i \in DOMAIN invites : Count("coffee_nudge", i) <= MaxNudges + restarts

(* A chased invite waits the full interval before it is chased again       *)
(* (due_for_nudge, coffee_chats.py:449-454).                               *)
NudgesAreSpaced ==
  [][\A i \in DOMAIN invites :
       Count("coffee_nudge", i)' # Count("coffee_nudge", i) => now - chased[i] > NudgeAfterDays]_vars

(* An invite past its time is closed by a later sweep, even while guests   *)
(* go on opening the page, and even if a sweep died with it on its list    *)
(* ("invites expire on their own", README).                                *)
StaleInvitesAreClosed ==
  \A i \in 1 .. MaxInvites : i \in Stale ~> (i \in DOMAIN invites /\ invites[i].status \notin Open)

Inserted(a) == \E t \in Threads : At(t, "link") /\ job[t].appt = a

(* Every booking reaches both sides: the guest's confirmation and the      *)
(* host's "your invite was accepted" (coffee_routes.py:175-181), unless    *)
(* the process dies first.  It takes one thread at a time: the host's half *)
(* is written from the appointment the invite names by then, and two       *)
(* bookings of one invite that overlap both write of the second.           *)
BookingReachesBoth ==
  \A a \in 1 .. MaxInvites + MaxRestarts, r \in 0 .. MaxRestarts :
    Inserted(a) /\ restarts = r ~>
      \/ {[kind |-> k, key |-> a, n |-> 1] : k \in {"booked_client", "coffee_booked"}} \subseteq mailed
      \/ restarts > r

(* An invite as a one-use link: spent from the moment the appointment is   *)
(* in the calendar.                                                        *)
Fate(i) ==
  IF MadeFrom(i) # {} THEN "booked"
  ELSE IF invites[i].status \in Open THEN "open" ELSE invites[i].status

Links == INSTANCE OneUseLink WITH
  fate <- [i \in DOMAIN invites |-> Fate(i)],
  uses <- [i \in DOMAIN invites |-> Cardinality(MadeFrom(i))]

(* Served one request at a time, invites behave as one-use links. *)
IsAOneUseLink == Links!Spec

=============================================================================
