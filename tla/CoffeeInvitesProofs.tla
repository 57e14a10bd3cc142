------------------------- MODULE CoffeeInvitesProofs -------------------------
(* Theorems about CoffeeInvites, for any hosts, guests, threads and bounds, *)
(* any number of restarts, and every interleaving of their statements.      *)
EXTENDS CoffeeInvites, SequenceTheorems, FiniteSetTheorems, TLAPS

(* Every appointment has the host and the guest of the invite it was made  *)
(* from.                                                                   *)
Made ==
  \A a \in DOMAIN appointments :
    /\ appointments[a].host = invites[via[a]].host
    /\ appointments[a].guest = invites[via[a]].guest

Tables ==
  /\ invites \in Seq(InviteRow)
  /\ appointments \in Seq(AppointmentRow)
  /\ users \subseteq Guests
  /\ now \in 0 .. MaxNow
  /\ via \in [DOMAIN appointments -> DOMAIN invites]
  /\ chased \in [DOMAIN invites -> Nat]
  /\ restarts \in 0 .. MaxRestarts

(* What a thread holds while it serves.  Of an invite it found expired it  *)
(* need not look again: time does not go back.                             *)
Listing == {"expireStale", "chase"}
Creating == {"dup", "create"}
Booking == {"checkBook", "expire", "free", "guest", "addGuest", "insert"}

Holds(t) ==
  LET j == job[t]
  IN /\ j.pc \in Creating => j.host \in Hosts /\ j.guest \in Guests
     /\ j.pc \notin {"idle"} \union Creating \union Listing => j.inv \in DOMAIN invites
     /\ j.pc \in Booking => j.slot \in Slots
     /\ j.todo \subseteq DOMAIN invites
     /\ j.pc = "expire" => IsExpired(j.inv)
     /\ j.pc = "expireStale" => \A i \in j.todo : IsExpired(i)
     /\ j.pc = "link" => j.appt \in MadeFrom(j.inv)

Threaded == job \in [Threads -> Job] /\ \A t \in Threads : Holds(t)

IInv == Tables /\ Made /\ BookedNamesItsAppointment /\ Threaded

(* What no step undoes. *)
Grows ==
  /\ now <= now'
  /\ \A i \in DOMAIN invites :
       /\ i \in DOMAIN invites'
       /\ invites'[i].host = invites[i].host
       /\ invites'[i].guest = invites[i].guest
       /\ invites'[i].expires_at = invites[i].expires_at
  /\ \A a \in DOMAIN appointments : a \in DOMAIN appointments' /\ via'[a] = via[a]

OpenExpired ==
  \A i \in DOMAIN invites :
    invites[i].status # "expired" /\ invites'[i].status = "expired" =>
      invites[i].status \in Open /\ IsExpired(i)

(* What every step does to the tables. *)
Sound ==
  /\ Tables' /\ Made' /\ BookedNamesItsAppointment'
  /\ Grows /\ OpenExpired

-----------------------------------------------------------------------------
(* About the tables.                                                       *)

LEMMA ExceptTyped ==
  ASSUME NEW S, NEW rows \in Seq(S), NEW i \in DOMAIN rows, NEW row \in S
  PROVE  /\ [rows EXCEPT ![i] = row] \in Seq(S)
         /\ DOMAIN [rows EXCEPT ![i] = row] = DOMAIN rows
         /\ [rows EXCEPT ![i] = row][i] = row
         /\ \A k \in DOMAIN rows : k # i => [rows EXCEPT ![i] = row][k] = rows[k]
<1>1. Len(rows) \in Nat /\ rows \in [1 .. Len(rows) -> S]
  BY LenProperties
<1>2. [rows EXCEPT ![i] = row] \in [1 .. Len(rows) -> S]
  BY <1>1
<1> QED
  BY <1>1, <1>2, SeqDef

LEMMA AppendTyped ==
  ASSUME NEW S, NEW rows \in Seq(S), NEW row \in S
  PROVE  /\ Append(rows, row) \in Seq(S)
         /\ Len(rows) \in Nat /\ DOMAIN rows = 1 .. Len(rows)
         /\ DOMAIN Append(rows, row) = 1 .. Len(rows) + 1
         /\ Append(rows, row)[Len(rows) + 1] = row
         /\ \A k \in DOMAIN rows : Append(rows, row)[k] = rows[k]
  BY AppendProperties, LenProperties

LEMMA RowsTyped ==
  ASSUME Tables
  PROVE  /\ \A i \in DOMAIN invites : i \in Nat \ {0} /\ invites[i] \in InviteRow
         /\ \A a \in DOMAIN appointments : a \in Nat \ {0} /\ appointments[a] \in AppointmentRow
         /\ now \in Nat
<1>1. now \in Nat
  BY CoffeeAssumption DEF Tables
<1> QED
  BY <1>1, ElementOfSeq, LenProperties DEF Tables

(* The tables as they were. *)
LEMMA NothingWritten ==
  ASSUME IInv, UNCHANGED <<invites, Calendar, now, chased, restarts>>
  PROVE  Sound
<1>1. Tables /\ Made /\ BookedNamesItsAppointment /\ now \in Nat
  BY RowsTyped DEF IInv
<1> QED
  BY <1>1 DEF Sound, Calendar, Tables, Made, BookedNamesItsAppointment, MadeFrom,
              Grows, OpenExpired

(* One invite written over: by SetStatus, Record or Link. *)
LEMMA RowWritten ==
  ASSUME IInv, NEW i \in DOMAIN invites, NEW row \in InviteRow,
         invites' = [invites EXCEPT ![i] = row],
         UNCHANGED <<Calendar, now, chased, restarts>>,
         row.host = invites[i].host, row.guest = invites[i].guest,
         row.expires_at = invites[i].expires_at,
         row.status = "booked" => row.appointment_id # 0,
         row.appointment_id # 0 => row.appointment_id \in MadeFrom(i),
         invites[i].appointment_id # 0 => row.appointment_id # 0,
         invites[i].status # "expired" /\ row.status = "expired" =>
           invites[i].status \in Open /\ IsExpired(i)
  PROVE  Sound
<1>a. Tables /\ Made /\ BookedNamesItsAppointment /\ now \in Nat
  BY RowsTyped DEF IInv
<1>1. /\ invites' \in Seq(InviteRow) /\ DOMAIN invites' = DOMAIN invites
      /\ invites'[i] = row
      /\ \A k \in DOMAIN invites : k # i => invites'[k] = invites[k]
  BY <1>a, ExceptTyped DEF Tables
<1>2. appointments' = appointments /\ users' = users /\ via' = via /\ now' = now
  BY DEF Calendar
<1>3. Tables'
  BY <1>a, <1>1, <1>2 DEF Tables
<1>4. Made'
  BY <1>a, <1>1, <1>2 DEF Made, Tables
<1>5. BookedNamesItsAppointment'
  <2> SUFFICES ASSUME NEW k \in DOMAIN invites
               PROVE  /\ invites'[k].status = "booked" => invites'[k].appointment_id # 0
                      /\ invites'[k].appointment_id # 0 =>
                           /\ invites'[k].appointment_id \in MadeFrom(k)
                           /\ appointments[invites'[k].appointment_id].host = invites'[k].host
                           /\ appointments[invites'[k].appointment_id].guest = invites'[k].guest
    BY <1>1, <1>2 DEF BookedNamesItsAppointment, MadeFrom
  <2>1. CASE k = i
    BY <1>a, <1>1, <2>1 DEF MadeFrom, Made
  <2>2. CASE k # i
    BY <1>a, <1>1, <2>2 DEF BookedNamesItsAppointment
  <2> QED
    BY <2>1, <2>2
<1>6. Grows /\ OpenExpired
  BY <1>a, <1>1, <1>2 DEF Grows, OpenExpired
<1> QED
  BY <1>3, <1>4, <1>5, <1>6 DEF Sound

LEMMA StatusWritten ==
  ASSUME IInv, NEW i \in DOMAIN invites, NEW s \in Statuses \ {"booked"}, SetStatus(i, s),
         s = "expired" => invites[i].status \in Open /\ IsExpired(i),
         UNCHANGED <<Calendar, now, chased, restarts>>
  PROVE  Sound
<1> DEFINE row == [invites[i] EXCEPT !.status = s]
<1>1. invites[i] \in InviteRow /\ BookedNamesItsAppointment
  BY RowsTyped DEF IInv
<1>2. row \in InviteRow
  BY <1>1 DEF InviteRow
<1>3. invites' = [invites EXCEPT ![i] = row]
  BY DEF SetStatus
<1>4. /\ row.host = invites[i].host /\ row.guest = invites[i].guest
      /\ row.expires_at = invites[i].expires_at
      /\ row.appointment_id = invites[i].appointment_id /\ row.status = s
  BY <1>1 DEF InviteRow
<1>5. row.appointment_id # 0 => row.appointment_id \in MadeFrom(i)
  BY <1>1, <1>4 DEF BookedNamesItsAppointment
<1> HIDE DEF row
<1> QED
  BY <1>2, <1>3, <1>4, <1>5, RowWritten

LEMMA NudgeRecorded ==
  ASSUME IInv, NEW i \in DOMAIN invites, Record(i),
         UNCHANGED <<Calendar, now, chased, restarts>>
  PROVE  Sound
<1> DEFINE row == [invites[i] EXCEPT !.nudge_count = @ + 1, !.last_contact = now]
<1>1. invites[i] \in InviteRow /\ BookedNamesItsAppointment /\ now \in Nat
  BY RowsTyped DEF IInv
<1>2. row \in InviteRow
  <2>1. PICK old : old = invites[i]
    OBVIOUS
  <2>2. \A n \in Nat : [old EXCEPT !.nudge_count = n, !.last_contact = now] \in InviteRow
    BY <1>1, <2>1 DEF InviteRow
  <2>3. old.nudge_count + 1 \in Nat
    BY <1>1, <2>1 DEF InviteRow
  <2> QED
    BY <2>1, <2>2, <2>3
<1>3. invites' = [invites EXCEPT ![i] = row]
  BY <1>1 DEF Record, InviteRow
<1>4. /\ row.host = invites[i].host /\ row.guest = invites[i].guest
      /\ row.expires_at = invites[i].expires_at
      /\ row.appointment_id = invites[i].appointment_id /\ row.status = invites[i].status
  BY <1>1 DEF InviteRow
<1>5. /\ row.appointment_id # 0 => row.appointment_id \in MadeFrom(i)
      /\ row.status = "booked" => row.appointment_id # 0
  BY <1>1, <1>4 DEF BookedNamesItsAppointment
<1> HIDE DEF row
<1> QED
  BY <1>2, <1>3, <1>4, <1>5, RowWritten

LEMMA Linked ==
  ASSUME IInv, NEW i \in DOMAIN invites, NEW a \in MadeFrom(i), Link(i, a),
         UNCHANGED <<Calendar, now, chased, restarts>>
  PROVE  Sound
<1> DEFINE row == [invites[i] EXCEPT !.status = "booked", !.appointment_id = a]
<1>1. invites[i] \in InviteRow /\ a \in Nat \ {0}
  BY RowsTyped DEF IInv, MadeFrom
<1>2. row \in InviteRow
  BY <1>1 DEF InviteRow, Statuses
<1>3. invites' = [invites EXCEPT ![i] = row]
  BY <1>1 DEF Link, InviteRow
<1>4. /\ row.host = invites[i].host /\ row.guest = invites[i].guest
      /\ row.expires_at = invites[i].expires_at
      /\ row.appointment_id = a /\ row.status = "booked"
  BY <1>1 DEF InviteRow
<1> HIDE DEF row
<1> QED
  BY <1>1, <1>2, <1>3, <1>4, RowWritten

LEMMA InviteAdded ==
  ASSUME IInv, NEW row \in InviteRow, row.status = "sent", row.appointment_id = 0,
         invites' = Append(invites, row), chased' = Append(chased, now),
         UNCHANGED <<Calendar, now, restarts>>
  PROVE  Sound /\ Len(invites) + 1 \in DOMAIN invites'
<1>a. Tables /\ Made /\ BookedNamesItsAppointment /\ now \in Nat
  BY RowsTyped DEF IInv
<1>1. /\ invites' \in Seq(InviteRow)
      /\ Len(invites) \in Nat /\ DOMAIN invites = 1 .. Len(invites)
      /\ DOMAIN invites' = 1 .. Len(invites) + 1 /\ invites'[Len(invites) + 1] = row
      /\ \A k \in DOMAIN invites : invites'[k] = invites[k]
  BY <1>a, AppendTyped DEF Tables
<1>2. chased' \in [DOMAIN invites' -> Nat]
  <2>1. chased \in [1 .. Len(invites) -> Nat]
    BY <1>a, <1>1 DEF Tables
  <2>2. chased \in Seq(Nat) /\ Len(chased) = Len(invites)
    BY <1>1, <2>1, SeqDef, LenProperties
  <2>3. chased' \in Seq(Nat) /\ Len(chased') = Len(invites) + 1
    BY <1>a, <2>2, AppendProperties
  <2> QED
    BY <1>1, <2>3, LenProperties
<1>3. appointments' = appointments /\ users' = users /\ via' = via /\ now' = now
  BY DEF Calendar
<1>4. Tables'
  BY <1>a, <1>1, <1>2, <1>3 DEF Tables
<1>5. Made' /\ Grows /\ OpenExpired
  BY <1>a, <1>1, <1>3 DEF Made, Tables, Grows, OpenExpired
<1>6. BookedNamesItsAppointment'
  BY <1>a, <1>1, <1>3 DEF BookedNamesItsAppointment, MadeFrom
<1> QED
  BY <1>1, <1>4, <1>5, <1>6 DEF Sound

LEMMA AppointmentAdded ==
  ASSUME IInv, NEW i \in DOMAIN invites, NEW slot \in Slots,
         appointments' = Append(appointments,
           [host |-> invites[i].host, guest |-> invites[i].guest, slot |-> slot,
            status |-> "confirmed"]),
         via' = Append(via, i),
         UNCHANGED <<invites, users, now, chased, restarts>>
  PROVE  Sound /\ Len(appointments) + 1 \in MadeFrom(i)'
<1> DEFINE row == [host |-> invites[i].host, guest |-> invites[i].guest, slot |-> slot,
                   status |-> "confirmed"]
           last == Len(appointments) + 1
<1>a. Tables /\ Made /\ BookedNamesItsAppointment /\ now \in Nat /\ invites[i] \in InviteRow
  BY RowsTyped DEF IInv
<1>b. row \in AppointmentRow
  BY <1>a DEF InviteRow, AppointmentRow
<1>1. /\ appointments' \in Seq(AppointmentRow)
      /\ Len(appointments) \in Nat /\ DOMAIN appointments = 1 .. Len(appointments)
      /\ DOMAIN appointments' = 1 .. last /\ appointments'[last] = row
      /\ \A k \in DOMAIN appointments : appointments'[k] = appointments[k]
  BY <1>a, <1>b, AppendTyped DEF Tables
<1>2. /\ via' \in [DOMAIN appointments' -> DOMAIN invites]
      /\ via'[last] = i
      /\ \A k \in DOMAIN appointments : via'[k] = via[k]
  <2>1. via \in [1 .. Len(appointments) -> DOMAIN invites]
    BY <1>a, <1>1 DEF Tables
  <2>2. via \in Seq(DOMAIN invites) /\ Len(via) = Len(appointments)
    BY <1>1, <2>1, SeqDef, LenProperties
  <2>3. /\ via' \in Seq(DOMAIN invites) /\ Len(via') = last
        /\ via'[last] = i /\ \A k \in 1 .. Len(via) : via'[k] = via[k]
    BY <2>2, AppendProperties
  <2> QED
    BY <1>1, <2>2, <2>3, LenProperties
<1>3. Tables'
  BY <1>a, <1>1, <1>2 DEF Tables
<1>4. Made' /\ Grows /\ OpenExpired
  BY <1>a, <1>1, <1>2 DEF Made, Tables, Grows, OpenExpired
<1>5. BookedNamesItsAppointment'
  BY <1>a, <1>1, <1>2 DEF BookedNamesItsAppointment, MadeFrom
<1>6. last \in MadeFrom(i)'
  BY <1>1, <1>2 DEF MadeFrom
<1> QED
  BY <1>3, <1>4, <1>5, <1>6 DEF Sound

-----------------------------------------------------------------------------
(* About the threads.                                                      *)

Others(t) == \A s \in Threads : s # t => job'[s] = job[s]

(* What has lapsed stays so. *)
LEMMA TimeGoesOn ==
  ASSUME IInv, Sound
  PROVE  /\ now \in Nat /\ now' \in Nat
         /\ \A i \in DOMAIN invites :
              /\ i \in DOMAIN invites' /\ invites[i].expires_at \in Nat
              /\ IsExpired(i) => IsExpired(i)'
<1>1. Tables /\ Grows
  BY DEF IInv, Sound
<1>2. now' \in Nat
  BY CoffeeAssumption DEF Sound, Tables
<1>3. now \in Nat /\ \A i \in DOMAIN invites : invites[i].expires_at \in Nat
  BY <1>1, RowsTyped DEF InviteRow
<1> QED
  BY <1>1, <1>2, <1>3 DEF Grows, IsExpired

(* A thread that another thread's step leaves alone holds what it held. *)
LEMMA OthersHold ==
  ASSUME IInv, Sound, NEW t \in Threads, job'[t] = job[t], Holds(t)
  PROVE  Holds(t)'
<1>1. \A i : MadeFrom(i) \subseteq MadeFrom(i)'
  BY DEF Sound, Grows, MadeFrom
<1> QED
  BY <1>1, TimeGoesOn DEF Holds, Creating, Listing, Booking

LEMMA Moved ==
  ASSUME IInv, Sound, NEW t \in Threads, job' \in [Threads -> Job], Others(t), Holds(t)'
  PROVE  Threaded'
<1>2. \A s \in Threads : s # t => Holds(s)'
  BY OthersHold DEF IInv, Threaded, Others
<1> QED
  BY <1>2 DEF Threaded

LEMMA IdleJob == Idle \in Job /\ Idle.pc = "idle" /\ Idle.todo = {}
  BY DEF Idle, Job, Labels

LEMMA Responded ==
  ASSUME IInv, Sound, NEW t \in Threads, Respond(t)
  PROVE  Threaded'
<1>1. job' \in [Threads -> Job] /\ Others(t) /\ job'[t] = Idle
  BY IdleJob DEF IInv, Threaded, Respond, Others
<1>2. Holds(t)'
  BY <1>1, IdleJob DEF Holds, Creating, Listing, Booking
<1> QED
  BY <1>1, <1>2, Moved

(* A handler's next statement. *)
LEMMA Advanced ==
  ASSUME NEW t \in Threads, job \in [Threads -> Job], NEW label \in Labels, Goto(t, label)
  PROVE  /\ job' \in [Threads -> Job] /\ Others(t)
         /\ job'[t].pc = label
         /\ job'[t].inv = job[t].inv /\ job'[t].slot = job[t].slot /\ job'[t].appt = job[t].appt
         /\ job'[t].host = job[t].host /\ job'[t].guest = job[t].guest
         /\ job'[t].todo = job[t].todo
<1> DEFINE next == [job[t] EXCEPT !.pc = label]
<1>1. next \in Job
  BY DEF Job
<1>2. job' = [job EXCEPT ![t] = next]
  BY DEF Goto, Job
<1> QED
  BY <1>1, <1>2 DEF Others, Job

(* From one label to another that asks no more than the first, or to one   *)
(* that asks for a lapsed invite and has it.                               *)
Plain == Labels \ ({"idle", "expire", "link"} \union Creating \union Listing \union Booking)

LEMMA Continued ==
  ASSUME IInv, Sound, NEW t \in Threads, NEW from \in Labels, NEW to \in Labels,
         At(t, from), Goto(t, to),
         \/ from \in Plain \union Booking \union {"link"} /\ to \in Plain
         \/ from \in Booking /\ to \in Booking /\ (to = "expire" => IsExpired(job[t].inv))
         \/ from = "dup" /\ to = "create"
  PROVE  Threaded'
<1>1. job \in [Threads -> Job] /\ Holds(t) /\ Grows
  BY DEF IInv, Threaded, Sound
<1>2. /\ job' \in [Threads -> Job] /\ Others(t) /\ job'[t].pc = to
      /\ job'[t].inv = job[t].inv /\ job'[t].slot = job[t].slot
      /\ job'[t].host = job[t].host /\ job'[t].guest = job[t].guest
      /\ job'[t].todo = job[t].todo
  BY <1>1, Advanced
<1>3. \A i \in DOMAIN invites : i \in DOMAIN invites'
  BY <1>1 DEF Grows
<1>4. \A i \in DOMAIN invites : IsExpired(i) => IsExpired(i)'
  BY TimeGoesOn
<1>5. Holds(t)'
  BY <1>1, <1>2, <1>3, <1>4 DEF Holds, At, Plain, Creating, Listing, Booking, Labels
<1> QED
  BY <1>2, <1>5, Moved

-----------------------------------------------------------------------------
(* A request begins, or a handler goes on, and writes no row but mail.     *)

LEMMA Begun ==
  ASSUME IInv, Sound, NEW t \in Threads, NEW fields \in Job, Begin(t, fields),
         \/ fields.pc = "dup" /\ fields.host \in Hosts /\ fields.guest \in Guests
         \/ fields.pc \in Plain \union {"checkBook"} /\ fields.inv \in DOMAIN invites
            /\ (fields.pc = "checkBook" => fields.slot \in Slots),
         fields.todo = {}
  PROVE  Threaded'
<1>1. job' \in [Threads -> Job] /\ Others(t) /\ job'[t] = fields
  BY DEF IInv, Threaded, Begin, Others
<1>2. \A i \in DOMAIN invites : i \in DOMAIN invites'
  BY TimeGoesOn
<1>3. Holds(t)'
  BY <1>1, <1>2 DEF Holds, Plain, Creating, Listing, Booking, Labels
<1> QED
  BY <1>1, <1>3, Moved

LEMMA ArriveStep ==
  ASSUME IInv, NEW t \in WebThreads, Arrive(t)
  PROVE  Sound /\ Threaded'
<1>a. t \in Threads /\ invites \in Seq(InviteRow) /\ \A i \in DOMAIN invites : i \in Nat
  BY RowsTyped DEF Threads, IInv, Tables
<1>1. ASSUME NEW h \in Hosts, NEW g \in Guests, StartCreate(t, h, g) PROVE Sound /\ Threaded'
  <2> DEFINE fields == [Idle EXCEPT !.pc = "dup", !.host = h, !.guest = g]
  <2>1. Sound
    BY <1>1, NothingWritten DEF StartCreate
  <2>2. /\ fields \in Job /\ fields.pc = "dup" /\ fields.host = h /\ fields.guest = g
        /\ fields.todo = {}
    BY DEF Idle, Job, Labels
  <2>3. Begin(t, fields)
    BY <1>1 DEF StartCreate
  <2> HIDE DEF fields
  <2> QED
    BY <1>a, <2>1, <2>2, <2>3, Begun
<1>2. ASSUME NEW i \in DOMAIN invites, NEW label \in {"checkNudge", "checkRevoke", "checkView", "checkDecline"},
             Begin(t, [Idle EXCEPT !.pc = label, !.inv = i]),
             UNCHANGED <<invites, Calendar, now, chased, restarts>>
      PROVE  Sound /\ Threaded'
  <2> DEFINE fields == [Idle EXCEPT !.pc = label, !.inv = i]
  <2>1. Sound
    BY <1>2, NothingWritten
  <2>2. fields \in Job /\ fields.pc = label /\ fields.inv = i /\ fields.todo = {}
    BY <1>a DEF Idle, Job, Labels
  <2>3. label \in Plain
    BY DEF Plain, Labels, Creating, Listing, Booking
  <2>4. Begin(t, fields)
    BY <1>2
  <2> HIDE DEF fields
  <2> QED
    BY <1>a, <2>1, <2>2, <2>3, <2>4, Begun
<1>3. ASSUME NEW i \in DOMAIN invites, NEW slot \in Slots, StartBook(t, i, slot)
      PROVE  Sound /\ Threaded'
  <2> DEFINE fields == [Idle EXCEPT !.pc = "checkBook", !.inv = i, !.slot = slot]
  <2>1. Sound
    BY <1>3, NothingWritten DEF StartBook
  <2>2. /\ fields \in Job /\ fields.pc = "checkBook" /\ fields.inv = i /\ fields.slot = slot
        /\ fields.todo = {}
    BY <1>a, CoffeeAssumption DEF Idle, Job, Labels
  <2>3. Begin(t, fields)
    BY <1>3 DEF StartBook
  <2> HIDE DEF fields
  <2> QED
    BY <1>a, <2>1, <2>2, <2>3, Begun
<1>4. ASSUME NEW i \in DOMAIN invites,
             StartNudge(t, i) \/ StartRevoke(t, i) \/ StartView(t, i) \/ StartDecline(t, i)
      PROVE  Sound /\ Threaded'
  BY <1>2, <1>4 DEF StartNudge, StartRevoke, StartView, StartDecline
<1> QED
  BY <1>1, <1>3, <1>4 DEF Arrive

(* What a thread says of itself at a label. *)
LEMMA Holding ==
  ASSUME IInv, NEW t \in Threads
  PROVE  /\ job \in [Threads -> Job]
         /\ job[t].pc \in Labels
         /\ job[t].pc \notin {"idle"} \union Creating \union Listing => job[t].inv \in DOMAIN invites
         /\ Holds(t)
  BY DEF IInv, Threaded, Holds, Job

LEMMA HostStep ==
  ASSUME IInv, NEW t \in Threads,
         \/ CheckDuplicate(t) \/ SendInvite(t)
         \/ CheckNudge(t) \/ SendNudge(t) \/ RecordNudge(t)
         \/ CheckRevoke(t) \/ UpdateRevoked(t)
  PROVE  Sound /\ Threaded'
<1> USE Holding DEF At
<1>1. CASE CheckDuplicate(t)
  <2>1. Sound
    BY <1>1, NothingWritten DEF CheckDuplicate
  <2> QED
    BY <1>1, <2>1, Responded, Continued DEF CheckDuplicate, Labels
<1>2. CASE SendInvite(t)
  BY <1>2, NothingWritten, Responded DEF SendInvite
<1>3. CASE CheckNudge(t)
  <2>1. Sound
    BY <1>3, NothingWritten DEF CheckNudge
  <2> QED
    BY <1>3, <2>1, Responded, Continued DEF CheckNudge, Labels, Plain, Creating, Listing, Booking
<1>4. CASE SendNudge(t)
  <2>1. Sound
    BY <1>4, NothingWritten DEF SendNudge
  <2> QED
    BY <1>4, <2>1, Continued DEF SendNudge, Labels, Plain, Creating, Listing, Booking
<1>5. CASE RecordNudge(t)
  <2>1. job[t].inv \in DOMAIN invites
    BY <1>5 DEF RecordNudge, Creating, Listing
  <2>2. Sound
    BY <1>5, <2>1, NudgeRecorded DEF RecordNudge, Calendar
  <2> QED
    BY <1>5, <2>2, Responded DEF RecordNudge
<1>6. CASE CheckRevoke(t)
  <2>1. Sound
    BY <1>6, NothingWritten DEF CheckRevoke
  <2> QED
    BY <1>6, <2>1, Responded, Continued DEF CheckRevoke, Labels, Plain, Creating, Listing, Booking
<1>7. CASE UpdateRevoked(t)
  <2>1. job[t].inv \in DOMAIN invites
    BY <1>7 DEF UpdateRevoked, Creating, Listing
  <2>2. Sound
    BY <1>7, <2>1, StatusWritten DEF UpdateRevoked, Calendar, Statuses
  <2> QED
    BY <1>7, <2>2, Responded DEF UpdateRevoked
<1> QED
  BY <1>1, <1>2, <1>3, <1>4, <1>5, <1>6, <1>7

LEMMA CreateStep ==
  ASSUME IInv, NEW t \in Threads, InsertInvite(t)
  PROVE  Sound /\ Threaded'
<1> DEFINE row == [host |-> job[t].host, guest |-> job[t].guest, status |-> "sent",
                   appointment_id |-> 0, nudge_count |-> 0, last_contact |-> now,
                   expires_at |-> ExpiresAt]
           id == Len(invites) + 1
<1>1. job[t].host \in Hosts /\ job[t].guest \in Guests /\ job \in [Threads -> Job] /\ now \in Nat
  BY RowsTyped DEF IInv, InsertInvite, At, Threaded, Holds, Creating
<1>2. row \in InviteRow
  BY <1>1, CoffeeAssumption DEF InviteRow, Statuses, Open, ExpiresAt
<1>3. row.status = "sent" /\ row.appointment_id = 0 /\ invites' = Append(invites, row)
  BY DEF InsertInvite
<1> HIDE DEF row
<1>4. Sound /\ id \in DOMAIN invites'
  BY <1>2, <1>3, InviteAdded DEF InsertInvite
<1>5. id \in Nat
  BY LenProperties DEF IInv, Tables
<1> DEFINE next == [job[t] EXCEPT !.pc = "ask", !.inv = id]
<1>6. next \in Job /\ next.pc = "ask" /\ next.inv = id /\ next.todo = job[t].todo
  BY <1>1, <1>5 DEF Job, Labels
<1>7. job' = [job EXCEPT ![t] = next]
  BY <1>1 DEF InsertInvite, Job
<1> HIDE DEF next
<1>8. job' \in [Threads -> Job] /\ Others(t) /\ job'[t] = next
  BY <1>1, <1>6, <1>7 DEF Others
<1>9. Holds(t)'
  BY <1>4, <1>6, <1>8, Holding, TimeGoesOn DEF Holds, Creating, Listing, Booking
<1> QED
  BY <1>4, <1>8, <1>9, Moved

LEMMA AnswerStep ==
  ASSUME IInv, NEW t \in Threads,
         \/ CheckView(t) \/ UpdateViewed(t)
         \/ CheckDecline(t) \/ UpdateDeclined(t) \/ NotifyDeclined(t)
  PROVE  Sound /\ Threaded'
<1> USE Holding DEF At
<1>1. CASE CheckView(t)
  <2>1. Sound
    BY <1>1, NothingWritten DEF CheckView
  <2> QED
    BY <1>1, <2>1, Responded, Continued DEF CheckView, Labels, Plain, Creating, Listing, Booking
<1>2. CASE UpdateViewed(t)
  <2>1. job[t].inv \in DOMAIN invites
    BY <1>2 DEF UpdateViewed, Creating, Listing
  <2>2. Sound
    BY <1>2, <2>1, StatusWritten DEF UpdateViewed, Calendar, Statuses, Open
  <2> QED
    BY <1>2, <2>2, Responded DEF UpdateViewed
<1>3. CASE CheckDecline(t)
  <2>1. Sound
    BY <1>3, NothingWritten DEF CheckDecline
  <2> QED
    BY <1>3, <2>1, Responded, Continued DEF CheckDecline, Labels, Plain, Creating, Listing, Booking
<1>4. CASE UpdateDeclined(t)
  <2>1. job[t].inv \in DOMAIN invites
    BY <1>4 DEF UpdateDeclined, Creating, Listing
  <2>2. Sound
    BY <1>4, <2>1, StatusWritten DEF UpdateDeclined, Calendar, Statuses
  <2> QED
    BY <1>4, <2>2, Continued DEF UpdateDeclined, Labels, Plain, Creating, Listing, Booking
<1>5. CASE NotifyDeclined(t)
  BY <1>5, NothingWritten, Responded DEF NotifyDeclined
<1> QED
  BY <1>1, <1>2, <1>3, <1>4, <1>5

(* expire() closes what is open and has lapsed, and nothing else. *)
LEMMA Expired ==
  ASSUME IInv, NEW i \in DOMAIN invites, IsExpired(i), Expire(i),
         UNCHANGED <<Calendar, now, chased, restarts>>
  PROVE  Sound
<1>1. CASE invites[i].status \in Open
  BY <1>1, StatusWritten DEF Expire, Statuses
<1>2. CASE invites[i].status \notin Open
  BY <1>2, NothingWritten DEF Expire, Calendar
<1> QED
  BY <1>1, <1>2

LEMMA BookStep ==
  ASSUME IInv, NEW t \in Threads,
         \/ CheckBook(t) \/ ExpireOnBook(t) \/ CheckSlot(t)
         \/ FindGuest(t) \/ AddGuest(t)
         \/ UpdateBooked(t) \/ NotifyGuest(t) \/ NotifyHost(t)
  PROVE  Sound /\ Threaded'
<1> USE Holding DEF At
<1>1. CASE CheckBook(t)
  <2>1. Sound
    BY <1>1, NothingWritten DEF CheckBook
  <2>2. CASE Respond(t)
    BY <2>1, <2>2, Responded
  <2>3. CASE IsExpired(job[t].inv) /\ Goto(t, "expire")
    BY <1>1, <2>1, <2>3, Continued DEF CheckBook, Labels, Booking
  <2>4. CASE Goto(t, "free")
    BY <1>1, <2>1, <2>4, Continued DEF CheckBook, Labels, Booking
  <2> QED
    BY <1>1, <2>2, <2>3, <2>4 DEF CheckBook
<1>2. CASE ExpireOnBook(t)
  <2>1. job[t].inv \in DOMAIN invites /\ IsExpired(job[t].inv)
    BY <1>2 DEF ExpireOnBook, Creating, Listing, Holds
  <2>2. Sound
    BY <1>2, <2>1, Expired DEF ExpireOnBook, Calendar
  <2> QED
    BY <1>2, <2>2, Responded DEF ExpireOnBook
<1>3. CASE CheckSlot(t)
  <2>1. Sound
    BY <1>3, NothingWritten DEF CheckSlot
  <2> QED
    BY <1>3, <2>1, Responded, Continued DEF CheckSlot, Labels, Booking
<1>4. CASE FindGuest(t)
  <2>1. Sound
    BY <1>4, NothingWritten DEF FindGuest
  <2>2. PICK to \in {"insert", "addGuest"} : Goto(t, to)
    BY <1>4 DEF FindGuest
  <2> QED
    BY <1>4, <2>1, <2>2, Continued DEF FindGuest, Labels, Booking
<1>5. CASE AddGuest(t)
  <2>1. job[t].inv \in DOMAIN invites
    BY <1>5 DEF AddGuest, Creating, Listing
  <2>2. invites[job[t].inv].guest \in Guests
    BY <2>1, RowsTyped DEF IInv, InviteRow
  <2>3. Tables /\ Made /\ BookedNamesItsAppointment /\ now \in Nat
    BY RowsTyped DEF IInv
  <2>4. users' \subseteq Guests
    BY <1>5, <2>2, <2>3 DEF AddGuest, Tables
  <2>5. UNCHANGED <<invites, appointments, via, now, chased, restarts>>
    BY <1>5 DEF AddGuest
  <2>6. Sound
    BY <2>3, <2>4, <2>5 DEF Sound, Tables, Made, BookedNamesItsAppointment, MadeFrom,
                            Grows, OpenExpired
  <2> QED
    BY <1>5, <2>6, Responded, Continued DEF AddGuest, Labels, Booking
<1>6. CASE UpdateBooked(t)
  <2>1. job[t].inv \in DOMAIN invites /\ job[t].appt \in MadeFrom(job[t].inv)
    BY <1>6 DEF UpdateBooked, Creating, Listing, Holds
  <2>2. Sound
    BY <1>6, <2>1, Linked DEF UpdateBooked, Calendar
  <2> QED
    BY <1>6, <2>2, Continued DEF UpdateBooked, Labels, Plain, Creating, Listing, Booking
<1>7. CASE NotifyGuest(t)
  <2>1. Sound
    BY <1>7, NothingWritten DEF NotifyGuest
  <2> QED
    BY <1>7, <2>1, Continued DEF NotifyGuest, Labels, Plain, Creating, Listing, Booking
<1>8. CASE NotifyHost(t)
  BY <1>8, NothingWritten, Responded DEF NotifyHost
<1> QED
  BY <1>1, <1>2, <1>3, <1>4, <1>5, <1>6, <1>7, <1>8

LEMMA InsertStep ==
  ASSUME IInv, NEW t \in Threads, InsertAppointment(t)
  PROVE  Sound /\ Threaded'
<1>0. PICK i, slot, id : i = job[t].inv /\ slot = job[t].slot /\ id = Len(appointments) + 1
  OBVIOUS
<1>1. i \in DOMAIN invites /\ slot \in Slots /\ job \in [Threads -> Job]
  BY <1>0, Holding DEF InsertAppointment, At, Holds, Creating, Listing, Booking
<1>2. CASE Taken(invites[i].host, slot)
  <2>1. Respond(t) /\ UNCHANGED <<appointments, via>>
    BY <1>0, <1>2 DEF InsertAppointment
  <2>2. Sound
    BY <2>1, NothingWritten DEF InsertAppointment, Calendar
  <2> QED
    BY <2>1, <2>2, Responded
<1>3. CASE ~Taken(invites[i].host, slot)
  <2>1. Sound /\ id \in MadeFrom(i)'
    <3>1. /\ appointments' = Append(appointments,
               [host |-> invites[i].host, guest |-> invites[i].guest, slot |-> slot,
                status |-> "confirmed"])
          /\ via' = Append(via, i)
          /\ UNCHANGED <<invites, users, now, chased, restarts>>
      BY <1>0, <1>3 DEF InsertAppointment
    <3> QED
      BY <1>0, <1>1, <3>1, AppointmentAdded
  <2>2. id \in Nat
    BY <1>0, LenProperties DEF IInv, Tables
  <2> DEFINE next == [job[t] EXCEPT !.pc = "link", !.slot = 0, !.appt = id]
  <2>3. /\ next \in Job /\ next.pc = "link" /\ next.inv = i /\ next.appt = id
        /\ next.todo = job[t].todo
    BY <1>0, <1>1, <2>2 DEF Job, Labels
  <2>4. job' = [job EXCEPT ![t] = next]
    BY <1>0, <1>1, <1>3 DEF InsertAppointment, Job
  <2> HIDE DEF next
  <2>5. job' \in [Threads -> Job] /\ Others(t) /\ job'[t] = next
    BY <1>1, <2>3, <2>4 DEF Others
  <2>6. job'[t].appt \in MadeFrom(i)' /\ job'[t].inv = i
    BY <2>1, <2>3, <2>5
  <2>7. Holds(t)'
    BY <1>1, <2>1, <2>3, <2>5, <2>6, Holding, TimeGoesOn
       DEF Holds, Creating, Listing, Booking, MadeFrom
  <2> QED
    BY <2>1, <2>5, <2>7, Moved
<1> QED
  BY <1>2, <1>3

-----------------------------------------------------------------------------
(* The sweep.                                                              *)

LEMMA SweepStep ==
  ASSUME IInv, NEW t \in Threads,
         StartSweep(t) \/ ExpireStale(t) \/ ListDue(t) \/ Chase(t) \/ RecordChase(t)
  PROVE  Sound /\ Threaded'
<1>a. /\ job \in [Threads -> Job] /\ Holds(t) /\ job[t] \in Job
      /\ \A i \in DOMAIN invites : i \in Nat \ {0}
  BY Holding, RowsTyped DEF IInv
(* A step that leaves the thread at a label of the sweep. *)
<1>b. ASSUME Sound, NEW next \in Job, job' = [job EXCEPT ![t] = next],
             next.todo \subseteq DOMAIN invites,
             \/ next.pc = "expireStale" /\ (\A i \in next.todo : IsExpired(i))
             \/ next.pc = "chase"
             \/ next.pc = "recordChase" /\ next.inv \in DOMAIN invites
      PROVE  Threaded'
  <2>1. job' \in [Threads -> Job] /\ Others(t) /\ job'[t] = next
    BY <1>a, <1>b DEF Others
  <2>2. \A i \in DOMAIN invites : i \in DOMAIN invites' /\ (IsExpired(i) => IsExpired(i)')
    BY <1>b, TimeGoesOn
  <2>3. Holds(t)'
    BY <1>b, <2>1, <2>2 DEF Holds, Creating, Listing, Booking
  <2> QED
    BY <1>b, <2>1, <2>3, Moved
<1>1. CASE StartSweep(t)
  <2>1. Sound
    BY <1>1, NothingWritten DEF StartSweep
  <2>2. Stale \subseteq DOMAIN invites /\ \A i \in Stale : IsExpired(i)
    BY DEF Stale
  <2>3. PICK next : next = [Idle EXCEPT !.pc = "expireStale", !.todo = Stale]
    OBVIOUS
  <2>4. next \in Job /\ next.pc = "expireStale" /\ next.todo = Stale
    BY <1>a, <2>2, <2>3 DEF Idle, Job, Labels
  <2>5. job' = [job EXCEPT ![t] = next]
    BY <1>1, <2>3 DEF StartSweep
  <2> QED
    BY <1>b, <2>1, <2>2, <2>4, <2>5
<1>2. CASE ExpireStale(t)
  <2>1. PICK i \in job[t].todo : Expire(i) /\ job' = [job EXCEPT ![t].todo = @ \ {i}]
    BY <1>2 DEF ExpireStale
  <2>2. i \in DOMAIN invites /\ IsExpired(i)
    BY <1>2, <1>a, <2>1 DEF ExpireStale, At, Holds
  <2>3. Sound
    BY <1>2, <2>1, <2>2, Expired DEF ExpireStale, Calendar
  <2>4. PICK next : next = [job[t] EXCEPT !.todo = @ \ {i}]
    OBVIOUS
  <2>5. next \in Job /\ next.pc = "expireStale" /\ next.todo \subseteq job[t].todo
    BY <1>2, <1>a, <2>4 DEF ExpireStale, At, Job
  <2>6. job' = [job EXCEPT ![t] = next]
    BY <1>a, <2>1, <2>4 DEF Job
  <2>7. next.todo \subseteq DOMAIN invites /\ \A k \in next.todo : IsExpired(k)
    BY <1>2, <1>a, <2>5 DEF ExpireStale, At, Holds
  <2> QED
    BY <1>b, <2>3, <2>5, <2>6, <2>7
<1>3. CASE ListDue(t)
  <2>1. Sound
    BY <1>3, NothingWritten DEF ListDue
  <2>2. CASE Due = {}
    BY <1>3, <2>1, <2>2, Responded DEF ListDue
  <2>3. CASE Due # {}
    <3>1. PICK next : next = [job[t] EXCEPT !.pc = "chase", !.todo = Due]
      OBVIOUS
    <3>2. Due \subseteq DOMAIN invites
      BY DEF Due
    <3>3. next \in Job /\ next.pc = "chase" /\ next.todo = Due
      BY <1>a, <3>1, <3>2 DEF Job, Labels
    <3>4. job' = [job EXCEPT ![t] = next]
      BY <1>3, <1>a, <2>3, <3>1 DEF ListDue, Job
    <3> QED
      BY <1>b, <2>1, <3>2, <3>3, <3>4
  <2> QED
    BY <2>2, <2>3
<1>4. CASE Chase(t)
  <2>1. PICK i \in job[t].todo :
          /\ chased' = [chased EXCEPT ![i] = now]
          /\ job' = [job EXCEPT ![t].pc = "recordChase", ![t].inv = i, ![t].todo = @ \ {i}]
    BY <1>4 DEF Chase
  <2>2. i \in DOMAIN invites /\ i \in Nat
    BY <1>a, <2>1 DEF Holds
  <2>3. Sound
    <3>1. Tables /\ Made /\ BookedNamesItsAppointment /\ now \in Nat
      BY RowsTyped DEF IInv
    <3>2. UNCHANGED <<invites, Calendar, now, restarts>>
      BY <1>4 DEF Chase
    <3> QED
      BY <2>1, <2>2, <3>1, <3>2 DEF Sound, Calendar, Tables, Made, BookedNamesItsAppointment,
                                    MadeFrom, Grows, OpenExpired
  <2>4. PICK next : next = [job[t] EXCEPT !.pc = "recordChase", !.inv = i, !.todo = @ \ {i}]
    OBVIOUS
  <2>5. /\ next \in Job /\ next.pc = "recordChase" /\ next.inv = i
        /\ next.todo \subseteq job[t].todo
    BY <1>a, <2>2, <2>4 DEF Job, Labels
  <2>6. job' = [job EXCEPT ![t] = next]
    BY <1>a, <2>1, <2>4 DEF Job
  <2>7. next.todo \subseteq DOMAIN invites
    BY <1>a, <2>5 DEF Holds
  <2> QED
    BY <1>b, <2>2, <2>3, <2>5, <2>6, <2>7
<1>5. CASE RecordChase(t)
  <2>1. job[t].inv \in DOMAIN invites
    BY <1>5, Holding DEF RecordChase, At, Creating, Listing
  <2>2. Sound
    BY <1>5, <2>1, NudgeRecorded DEF RecordChase, Calendar
  <2>3. CASE job[t].todo = {}
    BY <1>5, <2>2, <2>3, Responded DEF RecordChase
  <2>4. CASE job[t].todo # {}
    <3>1. PICK next : next = [job[t] EXCEPT !.pc = "chase", !.inv = 0]
      OBVIOUS
    <3>2. next \in Job /\ next.pc = "chase" /\ next.todo = job[t].todo
      BY <1>a, <3>1 DEF Job, Labels
    <3>3. job' = [job EXCEPT ![t] = next]
      BY <1>5, <1>a, <2>4, <3>1 DEF RecordChase, Job
    <3>4. next.todo \subseteq DOMAIN invites
      BY <1>a, <3>2 DEF Holds
    <3> QED
      BY <1>b, <2>2, <3>2, <3>3, <3>4
  <2> QED
    BY <2>3, <2>4
<1> QED
  BY <1>1, <1>2, <1>3, <1>4, <1>5

-----------------------------------------------------------------------------
(* Everything else. *)

LEMMA TickStep == ASSUME IInv, Tick PROVE Sound /\ Threaded'
<1>1. Tables /\ Made /\ BookedNamesItsAppointment /\ now \in Nat
  BY RowsTyped DEF IInv
<1>2. /\ UNCHANGED <<invites, Calendar, job, chased, restarts>>
      /\ now' \in 0 .. MaxNow /\ now <= now'
  BY <1>1, CoffeeAssumption DEF Tick, Tables
<1>3. Sound
  BY <1>1, <1>2 DEF Sound, Calendar, Tables, Made, BookedNamesItsAppointment, MadeFrom,
                    Grows, OpenExpired
<1>4. \A t \in Threads : Holds(t)'
  BY <1>2, <1>3, OthersHold DEF IInv, Threaded
<1> QED
  BY <1>2, <1>3, <1>4 DEF IInv, Threaded

LEMMA CancelStep ==
  ASSUME IInv, NEW a \in DOMAIN appointments, CancelAppointment(a)
  PROVE  Sound /\ Threaded'
<1>1. Tables /\ Made /\ BookedNamesItsAppointment /\ now \in Nat
      /\ appointments[a] \in AppointmentRow
  BY RowsTyped DEF IInv
<1>2. UNCHANGED <<invites, users, via, now, job, chased, restarts>>
  BY DEF CancelAppointment
<1>3. PICK row : row = [appointments[a] EXCEPT !.status = "cancelled"]
  OBVIOUS
<1>4. row \in AppointmentRow /\ row.host = appointments[a].host /\ row.guest = appointments[a].guest
  BY <1>1, <1>3 DEF AppointmentRow
<1>5. appointments' = [appointments EXCEPT ![a] = row]
  BY <1>3 DEF CancelAppointment
<1>6. /\ appointments' \in Seq(AppointmentRow) /\ DOMAIN appointments' = DOMAIN appointments
      /\ \A b \in DOMAIN appointments : /\ appointments'[b].host = appointments[b].host
                                        /\ appointments'[b].guest = appointments[b].guest
  BY <1>1, <1>4, <1>5, ExceptTyped DEF Tables
<1>7. Sound
  BY <1>1, <1>2, <1>6 DEF Sound, Tables, Made, BookedNamesItsAppointment, MadeFrom,
                          Grows, OpenExpired
<1>8. \A t \in Threads : Holds(t)'
  BY <1>2, <1>7, OthersHold DEF IInv, Threaded
<1> QED
  BY <1>2, <1>7, <1>8 DEF IInv, Threaded

LEMMA RestartStep == ASSUME IInv, Restart PROVE Sound /\ Threaded'
<1>1. /\ Tables /\ Made /\ BookedNamesItsAppointment /\ now \in Nat
      /\ \A i \in DOMAIN invites : invites[i].last_contact \in Nat
  BY RowsTyped DEF IInv, InviteRow
<1>2. /\ UNCHANGED <<invites, Calendar, now>>
      /\ restarts' \in 0 .. MaxRestarts
      /\ job' = [t \in Threads |-> Idle]
  BY <1>1, CoffeeAssumption DEF Restart, Tables
<1>3. chased' \in [DOMAIN invites -> Nat]
  <2>1. DOMAIN chased = DOMAIN invites /\ \A i \in DOMAIN invites : chased[i] \in Nat
    BY <1>1 DEF Tables
  <2> QED
    BY <1>1, <2>1 DEF Restart
<1>4. Sound
  BY <1>1, <1>2, <1>3 DEF Sound, Calendar, Tables, Made, BookedNamesItsAppointment, MadeFrom,
                          Grows, OpenExpired
<1>5. Threaded'
  BY <1>2, IdleJob DEF Threaded, Holds, Creating, Listing, Booking
<1> QED
  BY <1>4, <1>5

LEMMA Step == ASSUME IInv, [Next]_vars PROVE Sound /\ Threaded'
<1>1. ASSUME NEW t \in SweepThreads, StartSweep(t) PROVE Sound /\ Threaded'
  BY <1>1, SweepStep DEF Threads
<1>2. ASSUME NEW t \in Threads, Handle(t) PROVE Sound /\ Threaded'
  BY <1>2, HostStep, CreateStep, AnswerStep, BookStep, InsertStep, SweepStep DEF Handle
<1>3. CASE UNCHANGED vars
  <2>1. Sound
    BY <1>3, NothingWritten DEF vars, Calendar
  <2> QED
    BY <1>3, <2>1, OthersHold DEF vars, IInv, Threaded
<1> QED
  BY <1>1, <1>2, <1>3, ArriveStep, TickStep, CancelStep, RestartStep DEF Next

LEMMA InitInv == Init => IInv
<1> SUFFICES ASSUME Init PROVE IInv
  OBVIOUS
<1>1. invites = << >> /\ appointments = << >> /\ via = << >> /\ chased = << >>
      /\ DOMAIN invites = {} /\ DOMAIN appointments = {}
  BY DEF Init
<1>2. Tables
  <2>1. /\ \A S : << >> \in Seq(S)
        /\ via \in [DOMAIN appointments -> DOMAIN invites]
        /\ chased \in [DOMAIN invites -> Nat]
    BY <1>1
  <2>2. 0 \in 0 .. MaxNow /\ 0 \in 0 .. MaxRestarts
    BY CoffeeAssumption
  <2> QED
    BY <1>1, <2>1, <2>2 DEF Init, Tables
<1>3. Made /\ BookedNamesItsAppointment
  BY <1>1 DEF Made, BookedNamesItsAppointment
<1>4. Threaded
  BY IdleJob DEF Init, Threaded, Holds, Creating, Listing, Booking
<1> QED
  BY <1>2, <1>3, <1>4 DEF IInv

THEOREM Invariant == Spec => []IInv
<1>1. IInv /\ [Next]_vars => IInv'
  BY Step DEF IInv, Sound
<1> QED
  BY <1>1, InitInv, PTL DEF Spec

-----------------------------------------------------------------------------
(* What the invariant shows. *)

(* Every table and every thread keeps its type, with any number of threads *)
(* and restarts. *)
THEOREM Typed == Spec => []TypeOK
<1>1. IInv => TypeOK
  BY DEF IInv, Tables, Threaded, TypeOK
<1> QED
  BY <1>1, Invariant, PTL

(* A booked invite names an appointment made from it, for its host and its *)
(* guest, whoever else wrote to the row and wherever the process died.     *)
THEOREM BookedInvitesNameTheirs == Spec => []BookedNamesItsAppointment
  BY Invariant, PTL DEF IInv

(* Only an open invite whose time has passed is ever expired, by whichever *)
(* of the sweeps and guests racing for it.                                 *)
THEOREM OnlyLapsedInvitesExpire == Spec => ExpiryOnlyClosesTheOpen
<1>1. IInv /\ [Next]_vars => [OpenExpired]_vars
  BY Step DEF Sound
<1> QED
  BY <1>1, Invariant, PTL DEF Spec, OpenExpired, ExpiryOnlyClosesTheOpen
-----------------------------------------------------------------------------
(* One sweep at a time, and nobody nudging by hand. *)

OneSweeper == ManualNudges = 0 /\ \A s, t \in SweepThreads : s = t

Nudging == {"checkNudge", "nudge", "recordNudge"}
Chasing == {"chase", "recordChase"}
Apart == Labels \ (Nudging \union Chasing \union {"expireStale"})

Nudges == {m \in mailed : m.kind = "coffee_nudge"}

(* The sweeper's list was read earlier, and what it says of each invite    *)
(* still on it goes on being so: nobody else chases.                       *)
Chases(t) ==
  LET j == job[t]
  IN /\ j.pc \notin Nudging
     /\ j.pc \in Chasing \union {"expireStale"} => t \in SweepThreads
     /\ j.pc \in Chasing =>
          \A i \in j.todo : /\ invites[i].nudge_count < MaxNudges
                            /\ invites[i].last_contact < now - NudgeAfterDays
     /\ j.pc = "recordChase" => /\ j.inv \notin j.todo
                                /\ invites[j.inv].nudge_count < MaxNudges

(* The nudges mailed are those recorded, the one about to be, and those    *)
(* whose sweep died. *)
Counted(i) ==
  /\ invites[i].nudge_count <= MaxNudges
  /\ chased[i] <= now /\ invites[i].last_contact <= now
  /\ IF Unrecorded(i)
     THEN Count("coffee_nudge", i) <= invites[i].nudge_count + restarts + 1
     ELSE /\ Count("coffee_nudge", i) <= invites[i].nudge_count + restarts
          /\ chased[i] <= invites[i].last_contact

Chased ==
  /\ IsFiniteSet(mailed)
  /\ \A m \in Nudges : m.key \in DOMAIN invites
  /\ \A t \in Threads : Chases(t)
  /\ \A i \in DOMAIN invites : Counted(i)

(* What a step that chases nobody does to the rows, the mail, the threads. *)
QuietRows ==
  /\ \A i \in DOMAIN invites :
       /\ i \in DOMAIN invites'
       /\ invites'[i].nudge_count = invites[i].nudge_count
       /\ invites'[i].last_contact = invites[i].last_contact
       /\ chased'[i] = chased[i]
  /\ \A i \in DOMAIN invites' \ DOMAIN invites :
       invites'[i].nudge_count = 0 /\ invites'[i].last_contact = now /\ chased'[i] = now
  /\ restarts' = restarts /\ now <= now'

QuietMail == IsFiniteSet(mailed') /\ Nudges' = Nudges

QuietThreads ==
  \A t \in Threads :
    \/ job'[t] = job[t]
    \/ /\ job[t].pc # "recordChase"
       /\ job'[t].pc \notin Apart => job'[t].pc = "expireStale" /\ t \in SweepThreads

(* The numbers a row and the clock hold. *)
LEMMA Numbers ==
  ASSUME IInv
  PROVE  /\ now \in Nat /\ restarts \in Nat /\ MaxNudges \in Nat /\ NudgeAfterDays \in Nat
         /\ \A i \in DOMAIN invites :
              /\ invites[i].nudge_count \in Nat /\ invites[i].last_contact \in Nat
              /\ chased[i] \in Nat
<1>1. restarts \in Nat /\ MaxNudges \in Nat /\ NudgeAfterDays \in Nat
  BY CoffeeAssumption DEF IInv, Tables
<1>2. now \in Nat /\ \A i \in DOMAIN invites : invites[i].nudge_count \in Nat
                                              /\ invites[i].last_contact \in Nat
  BY RowsTyped DEF IInv, InviteRow
<1> QED
  BY <1>1, <1>2 DEF IInv, Tables

LEMMA NudgeCounts ==
  ASSUME NEW i
  PROVE  /\ Count("coffee_nudge", i) = Cardinality({m \in Nudges : m.key = i})
         /\ Count("coffee_nudge", i)' = Cardinality({m \in Nudges' : m.key = i})
<1>1. /\ {m \in mailed : m.kind = "coffee_nudge" /\ m.key = i} = {m \in Nudges : m.key = i}
      /\ {m \in mailed' : m.kind = "coffee_nudge" /\ m.key = i} = {m \in Nudges' : m.key = i}
  BY DEF Nudges
<1> QED
  BY <1>1 DEF Count

LEMMA NothingChased ==
  ASSUME IInv, IInv', Chased, QuietRows, QuietMail, QuietThreads
  PROVE  Chased'
<1>0. /\ now \in Nat /\ restarts \in Nat /\ MaxNudges \in Nat /\ NudgeAfterDays \in Nat
      /\ now' \in Nat /\ now <= now' /\ restarts' = restarts
      /\ \A i \in DOMAIN invites :
           /\ invites[i].nudge_count \in Nat /\ invites[i].last_contact \in Nat
           /\ chased[i] \in Nat
  <2>1. now <= now' /\ restarts' = restarts
    BY DEF QuietRows
  <2>2. now' \in Nat
    BY CoffeeAssumption DEF IInv, Tables
  <2> QED
    BY <2>1, <2>2, Numbers
<1>1. ASSUME NEW t \in Threads PROVE Chases(t)'
  <2>1. Chases(t) /\ Holds(t)
    BY DEF Chased, IInv, Threaded
  <2>2. CASE job'[t] = job[t]
    <3>1. job[t].pc = "recordChase" => job[t].inv \in DOMAIN invites
      BY <2>1 DEF Holds, Creating, Listing
    <3>2. \A i \in DOMAIN invites :
            invites[i].last_contact < now - NudgeAfterDays =>
              invites'[i].last_contact < now' - NudgeAfterDays
      BY <1>0 DEF QuietRows
    <3> QED
      BY <2>1, <2>2, <3>1, <3>2 DEF Chases, Holds, QuietRows
  <2>3. CASE job'[t] # job[t]
    BY <2>3 DEF QuietThreads, Chases, Apart, Nudging, Chasing, Labels
  <2> QED
    BY <2>2, <2>3
<1>2. \A i : Unrecorded(i)' <=> Unrecorded(i)
  BY DEF Unrecorded, At, QuietThreads, Apart, Chasing
<1>3. \A i : Count("coffee_nudge", i)' = Count("coffee_nudge", i)
  BY NudgeCounts DEF QuietMail
<1>4. ASSUME NEW i \in DOMAIN invites PROVE Counted(i)'
  <2>1. Counted(i)
    BY DEF Chased
  <2>2. /\ invites'[i].nudge_count = invites[i].nudge_count
        /\ invites'[i].last_contact = invites[i].last_contact /\ chased'[i] = chased[i]
    BY DEF QuietRows
  <2>3. /\ chased[i] <= now => chased[i] <= now'
        /\ invites[i].last_contact <= now => invites[i].last_contact <= now'
    BY <1>0
  <2> QED
    BY <1>0, <1>2, <1>3, <2>1, <2>2, <2>3 DEF Counted
<1>5. ASSUME NEW i \in DOMAIN invites' \ DOMAIN invites PROVE Counted(i)'
  <2>1. {m \in Nudges : m.key = i} = {}
    BY DEF Chased
  <2>2. Count("coffee_nudge", i)' = 0
    BY <1>3, <2>1, NudgeCounts, FS_EmptySet
  <2>3. ~Unrecorded(i)
    BY DEF Unrecorded, At, IInv, Threaded, Holds, Creating, Listing
  <2> QED
    BY <1>0, <1>2, <2>2, <2>3 DEF Counted, QuietRows
<1>6. IsFiniteSet(mailed') /\ \A m \in Nudges' : m.key \in DOMAIN invites'
  BY DEF QuietMail, Chased, QuietRows
<1> QED
  BY <1>1, <1>4, <1>5, <1>6 DEF Chased

(* One row written over by anything but Record. *)
LEMMA QuietWrite ==
  ASSUME IInv, NEW i \in DOMAIN invites,
         \/ \E s : SetStatus(i, s)
         \/ \E a : Link(i, a)
         \/ Expire(i),
         UNCHANGED <<now, chased, restarts>>
  PROVE  QuietRows
<1>1. ASSUME NEW row, row.nudge_count = invites[i].nudge_count,
             row.last_contact = invites[i].last_contact, invites' = [invites EXCEPT ![i] = row]
      PROVE  QuietRows
  BY <1>1, Numbers DEF QuietRows
<1>2. invites[i] \in InviteRow
  BY RowsTyped DEF IInv
<1>3. ASSUME NEW s, SetStatus(i, s) PROVE QuietRows
  <2>1. PICK row : row = [invites[i] EXCEPT !.status = s]
    OBVIOUS
  <2>2. row.nudge_count = invites[i].nudge_count /\ row.last_contact = invites[i].last_contact
    BY <1>2, <2>1 DEF InviteRow
  <2> QED
    BY <1>1, <1>3, <2>1, <2>2 DEF SetStatus
<1>4. ASSUME NEW a, Link(i, a) PROVE QuietRows
  <2>1. PICK row : row = [invites[i] EXCEPT !.status = "booked", !.appointment_id = a]
    OBVIOUS
  <2>2. row.nudge_count = invites[i].nudge_count /\ row.last_contact = invites[i].last_contact
    BY <1>2, <2>1 DEF InviteRow
  <2>3. invites' = [invites EXCEPT ![i] = row]
    BY <1>2, <1>4, <2>1 DEF Link, InviteRow
  <2> QED
    BY <1>1, <2>2, <2>3
<1>5. CASE UNCHANGED invites
  BY <1>5, Numbers DEF QuietRows
<1> QED
  BY <1>3, <1>4, <1>5 DEF Expire

LEMMA NothingRecorded ==
  ASSUME IInv, UNCHANGED <<invites, now, chased, restarts>>
  PROVE  QuietRows
  BY Numbers DEF QuietRows

(* Mail of another kind. *)
LEMMA QuietPost ==
  ASSUME Chased, NEW kind, kind # "coffee_nudge", NEW key, Post(kind, key) \/ PostOnce(kind, key)
  PROVE  QuietMail
<1>1. PICK m : mailed' = mailed \union {m} /\ m.kind = kind
  <2>1. ASSUME NEW n PROVE [kind |-> kind, key |-> key, n |-> n].kind = kind
    OBVIOUS
  <2> QED
    BY <2>1 DEF Post, PostOnce
<1>2. IsFiniteSet(mailed')
  BY <1>1, FS_AddElement DEF Chased
<1>3. Nudges' = Nudges
  BY <1>1 DEF Nudges
<1> QED
  BY <1>2, <1>3 DEF QuietMail

LEMMA NothingPosted == ASSUME Chased, UNCHANGED mailed PROVE QuietMail
  BY DEF Chased, QuietMail, Nudges

(* One thread goes where nobody is chased. *)
LEMMA QuietMove ==
  ASSUME IInv, NEW t \in Threads, job[t].pc # "recordChase",
         Respond(t) \/ \E to \in Apart : Goto(t, to)
  PROVE  QuietThreads
<1>1. job \in [Threads -> Job]
  BY DEF IInv, Threaded
<1>2. CASE Respond(t)
  BY <1>1, <1>2, IdleJob DEF Respond, QuietThreads, Apart, Labels, Nudging, Chasing
<1>3. ASSUME NEW to \in Apart, Goto(t, to) PROVE QuietThreads
  BY <1>1, <1>3, Advanced DEF QuietThreads, Apart, Others
<1> QED
  BY <1>2, <1>3

(* The handlers that look, write an invite or send other mail. *)
LEMMA QuietHandler ==
  ASSUME IInv, Chased, NEW t \in Threads,
         \/ CheckDuplicate(t) \/ SendInvite(t) \/ CheckRevoke(t) \/ UpdateRevoked(t)
         \/ CheckView(t) \/ UpdateViewed(t)
         \/ CheckDecline(t) \/ UpdateDeclined(t) \/ NotifyDeclined(t)
         \/ CheckBook(t) \/ ExpireOnBook(t) \/ CheckSlot(t) \/ FindGuest(t) \/ AddGuest(t)
         \/ UpdateBooked(t) \/ NotifyGuest(t) \/ NotifyHost(t)
  PROVE  QuietRows /\ QuietMail /\ QuietThreads
<1>1. CASE CheckDuplicate(t) \/ CheckRevoke(t) \/ CheckView(t) \/ CheckDecline(t) \/ CheckBook(t)
           \/ CheckSlot(t) \/ FindGuest(t) \/ AddGuest(t)
  <2>1. UNCHANGED <<invites, mailed, now, chased, restarts>>
    BY <1>1 DEF CheckDuplicate, CheckRevoke, CheckView, CheckDecline, CheckBook, CheckSlot,
                FindGuest, AddGuest
  <2>2. job[t].pc # "recordChase"
    BY <1>1 DEF CheckDuplicate, CheckRevoke, CheckView, CheckDecline, CheckBook, CheckSlot,
                FindGuest, AddGuest, At
  <2>3. Respond(t) \/ \E to \in {"create", "revoke", "view", "decline", "expire", "free", "guest",
                                 "addGuest", "insert"} : Goto(t, to)
    BY <1>1 DEF CheckDuplicate, CheckRevoke, CheckView, CheckDecline, CheckBook, CheckSlot,
                FindGuest, AddGuest
  <2>4. Respond(t) \/ \E to \in Apart : Goto(t, to)
    BY <2>3 DEF Apart, Labels, Nudging, Chasing
  <2> QED
    BY <2>1, <2>2, <2>4, NothingRecorded, NothingPosted, QuietMove
<1>2. CASE UpdateRevoked(t) \/ UpdateViewed(t) \/ UpdateDeclined(t) \/ ExpireOnBook(t)
           \/ UpdateBooked(t)
  <2>1. job[t].pc \in {"revoke", "view", "decline", "expire", "link"}
    BY <1>2 DEF UpdateRevoked, UpdateViewed, UpdateDeclined, ExpireOnBook, UpdateBooked, At
  <2>2. job[t].inv \in DOMAIN invites
    BY <2>1, Holding DEF Creating, Listing
  <2>3. /\ UNCHANGED <<mailed, now, chased, restarts>>
        /\ \/ \E s : SetStatus(job[t].inv, s)
           \/ \E a : Link(job[t].inv, a)
           \/ Expire(job[t].inv)
    BY <1>2 DEF UpdateRevoked, UpdateViewed, UpdateDeclined, ExpireOnBook, UpdateBooked
  <2>4. Respond(t) \/ \E to \in {"tellDeclined", "tellGuest"} : Goto(t, to)
    BY <1>2 DEF UpdateRevoked, UpdateViewed, UpdateDeclined, ExpireOnBook, UpdateBooked
  <2>5. Respond(t) \/ \E to \in Apart : Goto(t, to)
    BY <2>4 DEF Apart, Labels, Nudging, Chasing
  <2> QED
    BY <2>1, <2>2, <2>3, <2>5, QuietWrite, NothingPosted, QuietMove
<1>3. CASE SendInvite(t) \/ NotifyDeclined(t) \/ NotifyGuest(t) \/ NotifyHost(t)
  <2>1. /\ UNCHANGED <<invites, now, chased, restarts>>
        /\ job[t].pc \in {"ask", "tellDeclined", "tellGuest", "tellHost"}
    BY <1>3 DEF SendInvite, NotifyDeclined, NotifyGuest, NotifyHost, At
  <2>2. \/ UNCHANGED mailed
        \/ \E kind \in {"coffee_invite", "coffee_declined", "booked_client", "coffee_booked"} :
             \E key : Post(kind, key) \/ PostOnce(kind, key)
    BY <1>3 DEF SendInvite, NotifyDeclined, NotifyGuest, NotifyHost
  <2>3. QuietMail
    BY <2>2, QuietPost, NothingPosted
  <2>4. Respond(t) \/ Goto(t, "tellHost")
    BY <1>3 DEF SendInvite, NotifyDeclined, NotifyGuest, NotifyHost
  <2>5. Respond(t) \/ \E to \in Apart : Goto(t, to)
    BY <2>4 DEF Apart, Labels, Nudging, Chasing
  <2> QED
    BY <2>1, <2>3, <2>5, NothingRecorded, QuietMove
<1> QED
  BY <1>1, <1>2, <1>3

(* A new invite has been nudged by nobody. *)
LEMMA QuietInsertion ==
  ASSUME IInv, Chased, NEW t \in Threads, InsertInvite(t) \/ InsertAppointment(t)
  PROVE  QuietRows /\ QuietMail /\ QuietThreads
<1>1. job \in [Threads -> Job] /\ invites \in Seq(InviteRow) /\ now \in Nat
      /\ DOMAIN chased = DOMAIN invites
  BY RowsTyped DEF IInv, Threaded, Tables
<1>2. QuietMail
  BY NothingPosted DEF InsertInvite, InsertAppointment
<1>3. CASE InsertInvite(t)
  <2>1. PICK row : /\ row = [host |-> job[t].host, guest |-> job[t].guest, status |-> "sent",
                            appointment_id |-> 0, nudge_count |-> 0, last_contact |-> now,
                            expires_at |-> ExpiresAt]
                   /\ invites' = Append(invites, row)
    BY <1>3 DEF InsertInvite
  <2>2. row.nudge_count = 0 /\ row.last_contact = now
    BY <2>1
  <2>3. /\ DOMAIN invites = 1 .. Len(invites) /\ Len(invites) \in Nat
        /\ DOMAIN invites' = 1 .. Len(invites) + 1
        /\ invites'[Len(invites) + 1] = row
        /\ \A k \in DOMAIN invites : invites'[k] = invites[k]
    <3>1. row \in InviteRow
      <4>1. job[t].host \in Hosts /\ job[t].guest \in Guests
        BY <1>3 DEF InsertInvite, IInv, Threaded, Holds, Creating, At
      <4> QED
        BY <1>1, <2>1, <4>1, CoffeeAssumption DEF InviteRow, Statuses, Open, ExpiresAt
    <3> QED
      BY <1>1, <2>1, <3>1, AppendTyped
  <2>4. /\ chased'[Len(invites) + 1] = now
        /\ \A k \in DOMAIN invites : chased'[k] = chased[k]
    <3>1. chased \in [1 .. Len(invites) -> Nat]
      BY <2>3 DEF IInv, Tables
    <3>2. chased \in Seq(Nat) /\ Len(chased) = Len(invites)
      BY <2>3, <3>1, SeqDef, LenProperties
    <3> QED
      BY <1>1, <1>3, <2>3, <3>2, AppendProperties DEF InsertInvite
  <2>5. UNCHANGED <<now, restarts>>
    BY <1>3 DEF InsertInvite
  <2>6. QuietRows
    BY <1>1, <2>2, <2>3, <2>4, <2>5 DEF QuietRows
  <2>7. job[t].pc = "create" /\ Others(t) /\ job'[t].pc = "ask"
    BY <1>1, <1>3 DEF InsertInvite, At, Others, Job
  <2>8. QuietThreads
    BY <2>7 DEF QuietThreads, Others, Apart, Labels, Nudging, Chasing
  <2> QED
    BY <1>2, <2>6, <2>8
<1>4. CASE InsertAppointment(t)
  <2>1. QuietRows
    BY <1>4, NothingRecorded DEF InsertAppointment
  <2>2. job[t].pc = "insert"
    BY <1>4 DEF InsertAppointment, At
  <2>3. CASE Respond(t)
    BY <1>2, <2>1, <2>2, <2>3, QuietMove
  <2>4. CASE ~Respond(t)
    <3>1. Others(t) /\ job'[t].pc = "link"
      BY <1>1, <1>4, <2>4 DEF InsertAppointment, Others, Job
    <3>2. QuietThreads
      BY <2>2, <3>1 DEF QuietThreads, Others, Apart, Labels, Nudging, Chasing
    <3> QED
      BY <1>2, <2>1, <3>2
  <2> QED
    BY <2>3, <2>4
<1> QED
  BY <1>3, <1>4

(* A request begins; with nobody nudging by hand it is not a nudge. *)
LEMMA QuietArrival ==
  ASSUME OneSweeper, IInv, Chased, NEW t \in WebThreads, Arrive(t)
  PROVE  QuietRows /\ QuietMail /\ QuietThreads
<1>1. t \in Threads /\ job \in [Threads -> Job]
  BY DEF Threads, IInv, Threaded
<1>2. UNCHANGED <<invites, mailed, now, chased, restarts>>
  BY DEF Arrive, StartCreate, StartNudge, StartRevoke, StartView, StartDecline, StartBook
<1>3. ASSUME NEW fields, Begin(t, fields),
             fields.pc \in {"dup", "checkRevoke", "checkView", "checkDecline", "checkBook"}
      PROVE  QuietThreads
  <2>1. job[t].pc = "idle" /\ Others(t) /\ job'[t] = fields
    BY <1>1, <1>3 DEF Begin, At, Others
  <2> QED
    BY <1>3, <2>1 DEF QuietThreads, Others, Apart, Labels, Nudging, Chasing
<1>4. ASSUME NEW h, NEW g, StartCreate(t, h, g) PROVE QuietThreads
  <2>1. PICK fields : fields = [Idle EXCEPT !.pc = "dup", !.host = h, !.guest = g]
    OBVIOUS
  <2>2. Begin(t, fields) /\ fields.pc = "dup"
    BY <1>4, <2>1 DEF StartCreate, Idle
  <2> QED
    BY <1>3, <2>2
<1>5. ASSUME NEW i, NEW label \in {"checkRevoke", "checkView", "checkDecline"},
             Begin(t, [Idle EXCEPT !.pc = label, !.inv = i])
      PROVE  QuietThreads
  <2>1. PICK fields : fields = [Idle EXCEPT !.pc = label, !.inv = i]
    OBVIOUS
  <2>2. Begin(t, fields) /\ fields.pc = label
    BY <1>5, <2>1 DEF Idle
  <2> QED
    BY <1>3, <2>2
<1>6. ASSUME NEW i, NEW s, StartBook(t, i, s) PROVE QuietThreads
  <2>1. PICK fields : fields = [Idle EXCEPT !.pc = "checkBook", !.inv = i, !.slot = s]
    OBVIOUS
  <2>2. Begin(t, fields) /\ fields.pc = "checkBook"
    BY <1>6, <2>1 DEF StartBook, Idle
  <2> QED
    BY <1>3, <2>2
<1>7. ASSUME NEW i PROVE ~StartNudge(t, i)
  BY DEF StartNudge, OneSweeper
<1>8. ASSUME NEW i, StartRevoke(t, i) \/ StartView(t, i) \/ StartDecline(t, i)
      PROVE  QuietThreads
  BY <1>5, <1>8 DEF StartRevoke, StartView, StartDecline
<1>9. QuietThreads
  BY <1>4, <1>6, <1>7, <1>8 DEF Arrive
<1> QED
  BY <1>2, <1>9, NothingRecorded, NothingPosted

(* The sweep's first half: invites are closed, and the list may be empty. *)
LEMMA QuietSweep ==
  ASSUME IInv, Chased, NEW t \in Threads,
         \/ t \in SweepThreads /\ StartSweep(t)
         \/ ExpireStale(t)
         \/ ListDue(t) /\ Due = {}
  PROVE  QuietRows /\ QuietMail /\ QuietThreads
<1>1. job \in [Threads -> Job] /\ Holds(t) /\ Chases(t)
  BY DEF IInv, Threaded, Chased
<1>2. QuietMail
  BY NothingPosted DEF StartSweep, ExpireStale, ListDue
<1>3. CASE t \in SweepThreads /\ StartSweep(t)
  <2>1. job[t].pc = "idle" /\ Others(t) /\ job'[t].pc = "expireStale"
    BY <1>1, <1>3 DEF StartSweep, At, Others, Idle
  <2> QED
    BY <1>2, <1>3, <2>1, NothingRecorded DEF QuietThreads, Others, StartSweep
<1>4. CASE ExpireStale(t)
  <2>1. PICK i \in job[t].todo : Expire(i) /\ job' = [job EXCEPT ![t].todo = @ \ {i}]
    BY <1>4 DEF ExpireStale
  <2>2. /\ i \in DOMAIN invites /\ job[t].pc = "expireStale" /\ t \in SweepThreads
        /\ UNCHANGED <<now, chased, restarts>>
    BY <1>1, <1>4 DEF Holds, ExpireStale, At, Chases
  <2>3. Others(t) /\ job'[t].pc = "expireStale"
    BY <1>1, <2>1, <2>2 DEF Others, Job
  <2> QED
    BY <1>2, <2>1, <2>2, <2>3, QuietWrite DEF QuietThreads, Others
<1>5. CASE ListDue(t) /\ Due = {}
  <2>1. Respond(t) /\ job[t].pc = "expireStale"
    BY <1>5 DEF ListDue, At
  <2> QED
    BY <1>2, <1>5, <2>1, NothingRecorded, QuietMove DEF ListDue
<1> QED
  BY <1>3, <1>4, <1>5

(* Only the sweeper is ever between a nudge and its record. *)
LEMMA SweeperAlone ==
  ASSUME OneSweeper, Chased, NEW t \in SweepThreads, NEW s \in Threads, s # t
  PROVE  job[s].pc \notin Chasing
  BY DEF OneSweeper, Chased, Chases

(* The list holds only invites that may be chased now. *)
LEMMA ListStep ==
  ASSUME OneSweeper, IInv, IInv', Chased, NEW t \in Threads, ListDue(t), Due # {}
  PROVE  Chased'
<1>1. /\ job \in [Threads -> Job] /\ t \in SweepThreads /\ At(t, "expireStale")
      /\ UNCHANGED <<invites, mailed, now, chased, restarts>>
  BY DEF IInv, Threaded, Chased, Chases, ListDue, At
<1>2. Others(t) /\ job'[t].pc = "chase" /\ job'[t].todo = Due
  BY <1>1 DEF ListDue, Others, Job
<1>3. Chases(t)'
  BY <1>1, <1>2 DEF Chases, Nudging, Chasing, Due
<1>4. \A s \in Threads : s # t => Chases(s)'
  BY <1>1, <1>2 DEF Chased, Chases, Others
<1>5. \A i : Unrecorded(i)' <=> Unrecorded(i)
  BY <1>1, <1>2 DEF Unrecorded, At, Others
<1>6. ASSUME NEW i \in DOMAIN invites PROVE Counted(i)'
  <2>1. Count("coffee_nudge", i)' = Count("coffee_nudge", i)
    BY <1>1 DEF Count
  <2> QED
    BY <1>1, <1>5, <2>1 DEF Chased, Counted
<1> QED
  BY <1>1, <1>3, <1>4, <1>6 DEF Chased, Nudges

(* A nudge goes out to an invite that may be chased, and its record is     *)
(* now owed. *)
LEMMA ChaseStep ==
  ASSUME OneSweeper, IInv, IInv', Chased, NEW t \in Threads, Chase(t)
  PROVE  /\ Chased'
         /\ \A i \in DOMAIN invites :
              Count("coffee_nudge", i)' # Count("coffee_nudge", i) =>
                now - chased[i] > NudgeAfterDays
<1>1. /\ job \in [Threads -> Job] /\ t \in SweepThreads /\ job[t].pc = "chase"
      /\ UNCHANGED <<invites, now, restarts>>
  BY DEF IInv, Threaded, Chased, Chases, Chase, At, Chasing
<1>2. PICK i \in job[t].todo :
        /\ Post("coffee_nudge", i)
        /\ chased' = [chased EXCEPT ![i] = now]
        /\ job' = [job EXCEPT ![t].pc = "recordChase", ![t].inv = i, ![t].todo = @ \ {i}]
  BY DEF Chase
<1>3. /\ i \in DOMAIN invites /\ invites[i].nudge_count < MaxNudges
      /\ invites[i].last_contact < now - NudgeAfterDays
  BY <1>1 DEF IInv, Threaded, Holds, Chased, Chases, Chasing
<1>4. /\ Others(t) /\ job'[t].pc = "recordChase" /\ job'[t].inv = i
      /\ job'[t].todo = job[t].todo \ {i}
  BY <1>1, <1>2 DEF Others, Job
<1>5. \A k : ~Unrecorded(k)
  BY <1>1, SweeperAlone DEF Unrecorded, At, Chasing
<1>6. \A k : Unrecorded(k)' <=> k = i
  BY <1>1, <1>4, SweeperAlone DEF Unrecorded, At, Others, Chasing
<1>7. PICK m : mailed' = mailed \union {m} /\ m.kind = "coffee_nudge" /\ m.key = i
  <2>1. ASSUME NEW n
        PROVE  LET m == [kind |-> "coffee_nudge", key |-> i, n |-> n]
               IN m.kind = "coffee_nudge" /\ m.key = i
    OBVIOUS
  <2> QED
    BY <1>2, <2>1 DEF Post
<1>8. IsFiniteSet(mailed') /\ IsFiniteSet(Nudges) /\ Nudges' = Nudges \union {m}
  BY <1>7, FS_AddElement, FS_Subset DEF Chased, Nudges
<1>9. ASSUME NEW k \in DOMAIN invites, k # i
      PROVE  Count("coffee_nudge", k)' = Count("coffee_nudge", k)
  <2>1. {n \in Nudges' : n.key = k} = {n \in Nudges : n.key = k}
    BY <1>7, <1>8, <1>9
  <2> QED
    BY <2>1, NudgeCounts
<1>10. /\ Count("coffee_nudge", i) \in Nat /\ Count("coffee_nudge", i)' \in Nat
       /\ Count("coffee_nudge", i)' <= Count("coffee_nudge", i) + 1
  <2>1. PICK old : old = {n \in Nudges : n.key = i}
    OBVIOUS
  <2>2. {n \in Nudges' : n.key = i} = old \union {m}
    BY <1>7, <1>8, <2>1
  <2>3. IsFiniteSet(old)
    BY <1>8, <2>1, FS_Subset
  <2>4. Cardinality(old) \in Nat /\ Cardinality(old \union {m}) \in {Cardinality(old), Cardinality(old) + 1}
    BY <2>3, FS_CardinalityType, FS_AddElement
  <2> QED
    BY <2>1, <2>2, <2>4, NudgeCounts
<1>11. /\ now \in Nat /\ restarts \in Nat /\ MaxNudges \in Nat /\ NudgeAfterDays \in Nat
       /\ \A k \in DOMAIN invites :
            /\ invites[k].nudge_count \in Nat /\ invites[k].last_contact \in Nat
            /\ chased[k] \in Nat
       /\ DOMAIN chased = DOMAIN invites
  BY Numbers DEF IInv, Tables
<1>12. /\ chased'[i] = now
       /\ \A k \in DOMAIN invites : k # i => chased'[k] = chased[k]
  BY <1>2, <1>3, <1>11
<1>13. ASSUME NEW k \in DOMAIN invites PROVE Counted(k)'
  <2>1. Counted(k)
    BY DEF Chased
  <2>2. CASE k = i
    BY <1>1, <1>5, <1>6, <1>10, <1>11, <1>12, <2>1, <2>2 DEF Counted
  <2>3. CASE k # i
    BY <1>1, <1>5, <1>6, <1>9, <1>12, <2>1, <2>3 DEF Counted
  <2> QED
    BY <2>2, <2>3
<1>14. Chases(t)'
  BY <1>1, <1>3, <1>4 DEF Chased, Chases, Nudging, Chasing
<1>15. \A s \in Threads : s # t => Chases(s)'
  BY <1>1, <1>4 DEF Chased, Chases, Others
<1>16. \A n \in Nudges' : n.key \in DOMAIN invites'
  BY <1>1, <1>3, <1>7, <1>8 DEF Chased
<1>17. now - chased[i] > NudgeAfterDays
  <2>1. chased[i] <= invites[i].last_contact
    BY <1>3, <1>5 DEF Chased, Counted
  <2> QED
    BY <1>3, <1>11, <2>1
<1> QED
  BY <1>1, <1>8, <1>9, <1>13, <1>14, <1>15, <1>16, <1>17 DEF Chased

(* The record catches up with the nudge. *)
LEMMA RecordStep ==
  ASSUME OneSweeper, IInv, IInv', Chased, NEW t \in Threads, RecordChase(t)
  PROVE  Chased'
<1>0. PICK i : i = job[t].inv
  OBVIOUS
<1>1. /\ job \in [Threads -> Job] /\ t \in SweepThreads /\ job[t].pc = "recordChase"
      /\ UNCHANGED <<mailed, now, chased, restarts>>
      /\ i \in DOMAIN invites /\ i \notin job[t].todo /\ invites[i].nudge_count < MaxNudges
  BY <1>0 DEF IInv, Threaded, Chased, Chases, RecordChase, At, Chasing, Holds, Creating, Listing
<1>2. /\ now \in Nat /\ restarts \in Nat /\ MaxNudges \in Nat /\ NudgeAfterDays \in Nat
      /\ \A k \in DOMAIN invites :
           /\ invites[k].nudge_count \in Nat /\ invites[k].last_contact \in Nat
           /\ chased[k] \in Nat
  BY Numbers
<1>3. /\ DOMAIN invites' = DOMAIN invites
      /\ invites'[i].nudge_count = invites[i].nudge_count + 1
      /\ invites'[i].last_contact = now
      /\ \A k \in DOMAIN invites : k # i => invites'[k] = invites[k]
  <2>1. invites[i] \in InviteRow
    BY <1>1, RowsTyped DEF IInv
  <2> QED
    BY <1>0, <1>1, <2>1 DEF RecordChase, Record, InviteRow
<1>4. /\ Others(t)
      /\ \/ job'[t].pc = "idle"
         \/ job'[t].pc = "chase" /\ job'[t].todo = job[t].todo
  BY <1>1, IdleJob DEF RecordChase, Respond, Others, Job
<1>5. \A k : Unrecorded(k) <=> k = i
  BY <1>0, <1>1, SweeperAlone DEF Unrecorded, At, Chasing
<1>6. \A k : ~Unrecorded(k)'
  BY <1>1, <1>4, SweeperAlone DEF Unrecorded, At, Others, Chasing
<1>7. \A k : Count("coffee_nudge", k)' = Count("coffee_nudge", k)
  BY <1>1 DEF Count
<1>8. ASSUME NEW k \in DOMAIN invites PROVE Counted(k)'
  <2>1. Counted(k)
    BY DEF Chased
  <2>2. CASE k = i
    <3>1. /\ Count("coffee_nudge", k) <= invites[k].nudge_count + restarts + 1
          /\ chased[k] <= now
      BY <1>5, <2>1, <2>2 DEF Counted
    <3>2. invites'[k].nudge_count + restarts = invites[k].nudge_count + restarts + 1
      BY <1>1, <1>2, <1>3, <2>2
    <3>3. invites'[k].nudge_count <= MaxNudges
      BY <1>1, <1>2, <1>3, <2>2
    <3> QED
      BY <1>1, <1>2, <1>3, <1>6, <1>7, <2>2, <3>1, <3>2, <3>3 DEF Counted
  <2>3. CASE k # i
    BY <1>1, <1>3, <1>5, <1>6, <1>7, <2>1, <2>3 DEF Counted
  <2> QED
    BY <2>2, <2>3
<1>9. Chases(t)'
  <2>1. ASSUME NEW k \in job[t].todo
        PROVE  /\ invites'[k].nudge_count < MaxNudges
               /\ invites'[k].last_contact < now' - NudgeAfterDays
    <3>1. k \in DOMAIN invites /\ k # i
      BY <1>1 DEF IInv, Threaded, Holds
    <3> QED
      BY <1>1, <1>3, <3>1 DEF Chased, Chases, Chasing
  <2> QED
    BY <1>1, <1>4, <2>1 DEF Chases, Nudging, Chasing
<1>10. ASSUME NEW s \in Threads, s # t PROVE Chases(s)'
  <2>1. job[s].pc \notin Chasing /\ job'[s] = job[s]
    BY <1>1, <1>4, <1>10, SweeperAlone DEF Others
  <2> QED
    BY <2>1 DEF Chased, Chases, Chasing
<1> QED
  BY <1>1, <1>3, <1>8, <1>9, <1>10 DEF Chased, Nudges

(* A sweep that dies with a record owed has nudged once more than it says. *)
LEMMA DeathStep ==
  ASSUME OneSweeper, IInv, IInv', Chased, Restart
  PROVE  Chased'
<1>1. /\ UNCHANGED <<invites, mailed, now>> /\ restarts' = restarts + 1
      /\ \A t \in Threads : job'[t].pc = "idle"
      /\ DOMAIN chased = DOMAIN invites
      /\ \A i \in DOMAIN invites :
           chased'[i] = IF Unrecorded(i) THEN invites[i].last_contact ELSE chased[i]
  BY IdleJob DEF Restart, IInv, Tables
<1>2. /\ now \in Nat /\ restarts \in Nat /\ MaxNudges \in Nat
      /\ \A k \in DOMAIN invites :
           /\ invites[k].nudge_count \in Nat /\ invites[k].last_contact \in Nat
           /\ chased[k] \in Nat
  BY Numbers
<1>3. \A k : ~Unrecorded(k)'
  BY <1>1 DEF Unrecorded, At
<1>4. \A t \in Threads : Chases(t)'
  BY <1>1 DEF Chases, Nudging, Chasing
<1>5. ASSUME NEW k \in DOMAIN invites PROVE Counted(k)'
  <2>1. Counted(k)
    BY DEF Chased
  <2>2. Count("coffee_nudge", k)' = Count("coffee_nudge", k) /\ Count("coffee_nudge", k) \in Nat
    <3>1. IsFiniteSet({m \in mailed : m.kind = "coffee_nudge" /\ m.key = k})
      BY FS_Subset DEF Chased
    <3> QED
      BY <1>1, <3>1, FS_CardinalityType DEF Count
  <2>3. CASE Unrecorded(k)
    <3>1. invites[k].last_contact <= now
      BY <2>1 DEF Counted
    <3> QED
      BY <1>1, <1>2, <1>3, <2>1, <2>2, <2>3, <3>1 DEF Counted
  <2>4. CASE ~Unrecorded(k)
    BY <1>1, <1>2, <1>3, <2>1, <2>2, <2>4 DEF Counted
  <2> QED
    BY <2>3, <2>4
<1> QED
  BY <1>1, <1>4, <1>5 DEF Chased, Nudges

LEMMA ChasedStep ==
  ASSUME OneSweeper, IInv, IInv', Chased, [Next]_vars
  PROVE  /\ Chased'
         /\ \A i \in DOMAIN invites :
              Count("coffee_nudge", i)' # Count("coffee_nudge", i) =>
                now - chased[i] > NudgeAfterDays
<1>1. ASSUME QuietRows, QuietMail, QuietThreads
      PROVE  Chased' /\ \A i : Count("coffee_nudge", i)' = Count("coffee_nudge", i)
  BY <1>1, NothingChased, NudgeCounts DEF QuietMail
<1>2. ASSUME UNCHANGED mailed
      PROVE  \A i : Count("coffee_nudge", i)' = Count("coffee_nudge", i)
  BY <1>2 DEF Count
<1>3. ASSUME UNCHANGED <<invites, mailed, job, chased, restarts>>, now <= now'
      PROVE  QuietRows /\ QuietMail /\ QuietThreads
  BY <1>3, NothingPosted DEF QuietRows, QuietThreads
<1>4. CASE UNCHANGED vars
  <2>1. UNCHANGED <<invites, mailed, job, chased, restarts>> /\ now' = now
    BY <1>4 DEF vars
  <2> QED
    BY <1>1, <1>3, <2>1, Numbers
<1>5. CASE Tick
  <2>1. UNCHANGED <<invites, mailed, job, chased, restarts>> /\ now' = now + 1
    BY <1>5 DEF Tick
  <2> QED
    BY <1>1, <1>3, <2>1, Numbers
<1>6. ASSUME NEW a \in DOMAIN appointments, CancelAppointment(a)
      PROVE  QuietRows /\ QuietMail /\ QuietThreads
  <2>1. UNCHANGED <<invites, mailed, job, chased, restarts>> /\ now' = now
    BY <1>6 DEF CancelAppointment
  <2> QED
    BY <1>3, <2>1, Numbers
<1>7. CASE Restart
  BY <1>2, <1>7, DeathStep DEF Restart
<1>8. ASSUME NEW t \in Threads, CheckNudge(t) \/ SendNudge(t) \/ RecordNudge(t) PROVE FALSE
  BY <1>8 DEF CheckNudge, SendNudge, RecordNudge, At, Chased, Chases, Nudging
<1>9. ASSUME NEW t \in Threads, ListDue(t)
      PROVE  Chased' /\ \A i : Count("coffee_nudge", i)' = Count("coffee_nudge", i)
  <2>1. UNCHANGED mailed
    BY <1>9 DEF ListDue
  <2> QED
    BY <1>1, <1>2, <1>9, <2>1, ListStep, QuietSweep
<1>10. ASSUME NEW t \in Threads, RecordChase(t)
       PROVE  Chased' /\ \A i : Count("coffee_nudge", i)' = Count("coffee_nudge", i)
  BY <1>2, <1>10, RecordStep DEF RecordChase
<1>11. ASSUME NEW t \in SweepThreads, StartSweep(t)
       PROVE  QuietRows /\ QuietMail /\ QuietThreads
  BY <1>11, QuietSweep DEF Threads
<1>12. ASSUME NEW t \in Threads, Handle(t)
       PROVE  /\ Chased'
              /\ \A i \in DOMAIN invites :
                   Count("coffee_nudge", i)' # Count("coffee_nudge", i) =>
                     now - chased[i] > NudgeAfterDays
  BY <1>1, <1>8, <1>9, <1>10, <1>12, QuietHandler, QuietInsertion, QuietSweep, ChaseStep DEF Handle
<1> QED
  BY <1>1, <1>4, <1>5, <1>6, <1>7, <1>11, <1>12, QuietArrival DEF Next

LEMMA ChasedInvariant == ASSUME OneSweeper PROVE Spec => [](IInv /\ Chased)
<1>1. Init => IInv /\ Chased
  <2>1. Init => Chased
    BY IdleJob, FS_EmptySet
       DEF Init, Chased, Nudges, Chases, Nudging, Chasing
  <2> QED
    BY <2>1, InitInv
<1>2. IInv /\ Chased /\ [Next]_vars => (IInv /\ Chased)'
  <2>1. IInv /\ [Next]_vars => IInv'
    BY Step DEF IInv, Sound
  <2> QED
    BY <2>1, ChasedStep
<1> QED
  BY <1>1, <1>2, PTL DEF Spec

(* With one sweep at a time no guest is ever chased more than MAX_NUDGES   *)
(* times, and once more for each time the process died with a nudge sent   *)
(* and not recorded, for any number of invites, hosts, guests and requests *)
(* (coffee_chats.py:61-65, 449-473; coffee_notifications.py:218-232).      *)
THEOREM NudgesHaveACap == ASSUME OneSweeper PROVE Spec => []NudgesAreCapped
<1>1. IInv /\ Chased => NudgesAreCapped
  <2> SUFFICES ASSUME IInv, Chased, NEW i \in DOMAIN invites
               PROVE  Count("coffee_nudge", i) <= MaxNudges + restarts
    BY DEF NudgesAreCapped
  <2>1. Counted(i)
    BY DEF Chased
  <2>2. /\ restarts \in Nat /\ MaxNudges \in Nat /\ invites[i].nudge_count \in Nat
    BY Numbers
  <2>3. Count("coffee_nudge", i) \in Nat
    <3>1. IsFiniteSet({m \in mailed : m.kind = "coffee_nudge" /\ m.key = i})
      BY FS_Subset DEF Chased
    <3> QED
      BY <3>1, FS_CardinalityType DEF Count
  <2>4. CASE Unrecorded(i)
    <3>1. invites[i].nudge_count < MaxNudges
      BY <2>4 DEF Unrecorded, At, Chased, Chases
    <3> QED
      BY <2>1, <2>2, <2>3, <2>4, <3>1 DEF Counted
  <2>5. CASE ~Unrecorded(i)
    BY <2>1, <2>2, <2>3, <2>5 DEF Counted
  <2> QED
    BY <2>4, <2>5
<1> QED
  BY <1>1, ChasedInvariant, PTL

(* And between two nudges of one invite a full interval passes, though the *)
(* sweep works from a list it read before it chased the first.             *)
THEOREM NudgesKeepTheirDistance == ASSUME OneSweeper PROVE Spec => NudgesAreSpaced
<1> DEFINE Spaced ==
      \A i \in DOMAIN invites :
        Count("coffee_nudge", i)' # Count("coffee_nudge", i) => now - chased[i] > NudgeAfterDays
<1>1. IInv /\ IInv' /\ Chased /\ [Next]_vars => [Spaced]_vars
  BY ChasedStep
<1> QED
  BY <1>1, ChasedInvariant, PTL DEF Spec, NudgesAreSpaced

================================================================================
