-------------------------- MODULE AppointmentsProofs --------------------------
(* Theorems about Appointments, for any users, threads, calendars and      *)
(* requests.                                                               *)
EXTENDS Appointments, CalendarProofs, SequenceTheorems, FiniteSetTheorems

(* The parts of TypeOK. *)
TablesOK ==
  /\ users \in [Users -> Accounts]
  /\ availability \subseteq WindowRows
  /\ blocked \subseteq {b \in BlockRows : b.date \in Padded}
  /\ appointments \in Seq(Row)
  /\ email_log \subseteq [appt : DOMAIN appointments, kind : Kinds]

ThreadsOK ==
  /\ pc \in [Threads -> Labels]
  /\ req \in [Threads -> Requests \union {Null}]
  /\ appt \in [Threads -> Nat]
  /\ mail \in [Threads -> Seq(Kinds)]

(* The parts of the type invariant, for leaves that need only one. *)
LEMMA Parts ==
  /\ TypeOK <=> TablesOK /\ ThreadsOK /\ \A t \in Threads : LocalsOK(t)
  /\ TypeOK' <=> TablesOK' /\ ThreadsOK' /\ \A t \in Threads : LocalsOK(t)'
  BY DEF TypeOK, TablesOK, ThreadsOK

(* The initial tables and threads are typed. *)
LEMMA InitTyped == Init => TypeOK
<1> SUFFICES ASSUME Init PROVE TypeOK
  OBVIOUS
<1>1. TablesOK
  BY AppointmentsAssumption DEF Init, TablesOK
<1>2. ThreadsOK
  BY DEF Init, ThreadsOK, Labels
<1>3. \A t \in Threads : LocalsOK(t)
  BY DEF Init, LocalsOK, BookLabels, ChangeLabels
<1> QED
  BY <1>1, <1>2, <1>3, Parts

(* A thread another thread's step leaves alone still holds what it held,   *)
(* as long as no row leaves the table.                                     *)
LEMMA OthersKeepTheirs ==
  ASSUME NEW s \in Threads, LocalsOK(s),
         pc'[s] = pc[s], req'[s] = req[s], appt'[s] = appt[s], mail'[s] = mail[s],
         DOMAIN appointments \subseteq DOMAIN appointments'
  PROVE  LocalsOK(s)'
  BY DEF LocalsOK

(* Returning to idle leaves the threads as they should be. *)
LEMMA RespondTyped ==
  ASSUME ThreadsOK, \A s \in Threads : LocalsOK(s), NEW t \in Threads, Respond(t),
         DOMAIN appointments \subseteq DOMAIN appointments'
  PROVE  ThreadsOK' /\ \A s \in Threads : LocalsOK(s)'
<1>1. ThreadsOK'
  BY DEF ThreadsOK, Respond, Labels
<1>2. LocalsOK(t)'
  BY DEF ThreadsOK, Respond, LocalsOK, BookLabels, ChangeLabels
<1>3. ASSUME NEW s \in Threads, s # t PROVE LocalsOK(s)'
  BY <1>3, OthersKeepTheirs DEF ThreadsOK, Respond
<1> QED
  BY <1>1, <1>2, <1>3

(* A step that only moves thread t to another label keeps the types, if    *)
(* what t holds is right for that label.                                   *)
LEMMA GotoTyped ==
  ASSUME ThreadsOK, \A s \in Threads : LocalsOK(s), NEW t \in Threads,
         NEW label \in Labels, Goto(t, label), UNCHANGED <<req, appt, mail, appointments>>,
         label \in BookLabels => req[t] \in Requests /\ req[t].op = "book",
         label \in ChangeLabels => req[t] \in Requests /\ req[t].op # "book",
         label = "update" => req[t].appt \in DOMAIN appointments,
         label # "mail"
  PROVE  ThreadsOK' /\ \A s \in Threads : LocalsOK(s)'
<1>1. ThreadsOK'
  BY DEF ThreadsOK, Goto
<1>2. LocalsOK(t)'
  BY DEF ThreadsOK, Goto, LocalsOK
<1>3. ASSUME NEW s \in Threads, s # t PROVE LocalsOK(s)'
  BY <1>3, OthersKeepTheirs DEF ThreadsOK, Goto
<1> QED
  BY <1>1, <1>2, <1>3

(* A request that is taken up is a request, and its thread holds it. *)
LEMMA ReceiveTyped ==
  ASSUME ThreadsOK, \A s \in Threads : LocalsOK(s), NEW t \in Threads,
         NEW r \in Requests, NEW roles, NEW label \in {"provider", "load"},
         Receive(t, r, roles, label), label = "provider" <=> r.op = "book"
  PROVE  ThreadsOK' /\ \A s \in Threads : LocalsOK(s)'
<1>1. ThreadsOK'
  BY DEF ThreadsOK, Receive, Goto, Labels
<1>2. LocalsOK(t)'
  BY DEF ThreadsOK, Receive, Goto, LocalsOK, BookLabels, ChangeLabels
<1>3. ASSUME NEW s \in Threads, s # t PROVE LocalsOK(s)'
  BY <1>3, OthersKeepTheirs DEF ThreadsOK, Receive, Goto, tables
<1> QED
  BY <1>1, <1>2, <1>3

(* The announcements of every operation can be sent. *)
LEMMA AnnouncementsTyped ==
  ASSUME NEW op \in {"book", "cancel", "complete"}
  PROVE  Announcements(op) \in Seq(Kinds) /\ Announcements(op) # << >>
<1>1. CASE op = "book"
  <2>1. Announcements(op) = <<"booked_client", "booked_provider">>
    BY <1>1 DEF Announcements
  <2> QED
    BY <2>1 DEF Kinds
<1>2. CASE op = "cancel"
  <2>1. Announcements(op) = <<"cancelled_client", "cancelled_provider">>
    BY <1>2 DEF Announcements
  <2> QED
    BY <2>1 DEF Kinds
<1>3. CASE op = "complete"
  <2>1. Announcements(op) = <<"completed_client">>
    BY <1>3 DEF Announcements
  <2> QED
    BY <2>1 DEF Kinds
<1> QED
  BY <1>1, <1>2, <1>3

(* A request that arrives brings typed arguments. *)
LEMMA ArriveTyped ==
  ASSUME TypeOK, NEW t \in Threads, Arrive(t)
  PROVE  TypeOK'
<1>0. TablesOK /\ ThreadsOK /\ \A s \in Threads : LocalsOK(s)
  BY Parts
<1>1. ASSUME NEW u \in Users, NEW p \in Users, NEW d \in Dates, NEW ask \in Asks,
             StartBook(t, u, p, d, ask)
      PROVE  TypeOK'
  <2> DEFINE r == [by |-> u, role |-> users[u].role, op |-> "book",
                   provider |-> p, date |-> d, ask |-> ask]
  <2>1. r \in Requests
    BY <1>0, AppointmentsAssumption DEF TablesOK, Requests, Accounts
  <2>2. Receive(t, r, {"client"}, "provider")
    BY <1>1 DEF StartBook
  <2>3. TablesOK'
    BY <1>0, <2>2 DEF Receive, TablesOK, tables
  <2>4. r.op = "book"
    OBVIOUS
  <2> HIDE DEF r
  <2>5. ThreadsOK' /\ \A s \in Threads : LocalsOK(s)'
    BY <1>0, <2>1, <2>2, <2>4, ReceiveTyped
  <2> QED
    BY <2>3, <2>5, Parts
<1>2. ASSUME NEW u \in Users, NEW op \in {"cancel", "complete"},
             NEW i \in DOMAIN appointments, StartChange(t, u, op, i)
      PROVE  TypeOK'
  <2> DEFINE r == [by |-> u, role |-> users[u].role, op |-> op, appt |-> i]
             roles == IF op = "cancel" THEN Roles ELSE {"provider", "admin"}
  <2>1. r \in Requests
    BY <1>0 DEF TablesOK, Requests, Accounts
  <2>2. Receive(t, r, roles, "load")
    BY <1>2 DEF StartChange
  <2>3. TablesOK'
    BY <1>0, <2>2 DEF Receive, TablesOK, tables
  <2>4. r.op # "book"
    OBVIOUS
  <2> HIDE DEF r, roles
  <2>5. ThreadsOK' /\ \A s \in Threads : LocalsOK(s)'
    BY <1>0, <2>1, <2>2, <2>4, ReceiveTyped
  <2> QED
    BY <2>3, <2>5, Parts
<1> QED
  BY <1>1, <1>2 DEF Arrive

(* A step that leaves the tables alone keeps their types. *)
LEMMA TablesKept ==
  ASSUME TablesOK, UNCHANGED tables
  PROVE  TablesOK' /\ DOMAIN appointments \subseteq DOMAIN appointments'
  BY DEF TablesOK, tables

(* The booking handler up to its INSERT. *)
LEMMA BookingReadsTyped ==
  ASSUME TypeOK, NEW t \in Threads,
         CheckProvider(t) \/ ReadWindows(t) \/ ReadBlocks(t) \/ ReadBooked(t)
  PROVE  TypeOK'
<1>0. TablesOK /\ ThreadsOK /\ \A s \in Threads : LocalsOK(s)
  BY Parts
<1>1. pc[t] \in BookLabels /\ UNCHANGED tables
  BY DEF CheckProvider, ReadWindows, ReadBlocks, ReadBooked, BookLabels
<1>2. req[t] \in Requests /\ req[t].op = "book"
  BY <1>0, <1>1 DEF LocalsOK
<1>3. TablesOK' /\ DOMAIN appointments \subseteq DOMAIN appointments'
  BY <1>0, <1>1, TablesKept
<1>4. CASE Respond(t)
  BY <1>0, <1>3, <1>4, RespondTyped, Parts
<1>5. ASSUME NEW label \in BookLabels, Goto(t, label), UNCHANGED <<req, appt, mail>>
      PROVE  TypeOK'
  <2>1. label \in Labels /\ label \notin ChangeLabels /\ label # "update" /\ label # "mail"
    BY DEF BookLabels, ChangeLabels, Labels
  <2> QED
    BY <1>0, <1>1, <1>2, <1>3, <1>5, <2>1, GotoTyped, Parts DEF tables
<1>6. \/ Respond(t)
      \/ \E label \in BookLabels : Goto(t, label) /\ UNCHANGED <<req, appt, mail>>
  BY DEF CheckProvider, ReadWindows, ReadBlocks, ReadBooked, BookLabels, locals
<1> QED
  BY <1>4, <1>5, <1>6

(* A row that is inserted is a row, and every row is where it was. *)
LEMMA InsertTyped ==
  ASSUME TypeOK, NEW t \in Threads, InsertAppointment(t)
  PROVE  TypeOK'
<1>0. TablesOK /\ ThreadsOK /\ \A s \in Threads : LocalsOK(s)
  BY Parts
<1>1. req[t] \in Requests /\ req[t].op = "book"
  BY <1>0 DEF LocalsOK, InsertAppointment, BookLabels
<1>2. CASE Respond(t) /\ UNCHANGED appointments
  <2>1. UNCHANGED tables
    BY <1>2 DEF InsertAppointment, tables
  <2>2. TablesOK' /\ DOMAIN appointments \subseteq DOMAIN appointments'
    BY <1>0, <2>1, TablesKept
  <2> QED
    BY <1>0, <1>2, <2>2, RespondTyped, Parts
<1>3. CASE /\ appointments' = Append(appointments, NewRow(req[t]))
           /\ appt' = [appt EXCEPT ![t] = NewId]
           /\ mail' = [mail EXCEPT ![t] = Announcements("book")]
           /\ req' = [req EXCEPT ![t] = Null]
           /\ Goto(t, "mail")
  <2>1. NewRow(req[t]) \in Row
    BY <1>1 DEF NewRow, Row, Requests, Intervals, Statuses
  <2>2. appointments' \in Seq(Row) /\ DOMAIN appointments' = 1 .. Len(appointments) + 1
    BY <1>0, <1>3, <2>1 DEF TablesOK
  <2>3. DOMAIN appointments \subseteq DOMAIN appointments' /\ NewId \in DOMAIN appointments'
    BY <1>0, <2>2 DEF TablesOK, NewId
  <2>4. TablesOK'
    BY <1>0, <2>2, <2>3 DEF TablesOK, InsertAppointment
  <2>5. Announcements("book") \in Seq(Kinds) /\ Announcements("book") # << >>
    BY AnnouncementsTyped
  <2>6. ThreadsOK'
    BY <1>0, <1>3, <2>3, <2>2, <2>5 DEF ThreadsOK, Goto, Labels
  <2>7. LocalsOK(t)'
    BY <1>0, <1>3, <2>3, <2>5 DEF ThreadsOK, Goto, LocalsOK, BookLabels, ChangeLabels
  <2>8. ASSUME NEW s \in Threads, s # t PROVE LocalsOK(s)'
    BY <1>0, <1>3, <2>3, <2>8, OthersKeepTheirs DEF ThreadsOK, Goto
  <2> QED
    BY <2>4, <2>6, <2>7, <2>8, Parts
<1> QED
  BY <1>2, <1>3 DEF InsertAppointment

(* Loading the appointment and checking who asks keeps every part typed. *)
LEMMA LoadTyped ==
  ASSUME TypeOK, NEW t \in Threads, LoadForChange(t)
  PROVE  TypeOK'
<1>0. TablesOK /\ ThreadsOK /\ \A s \in Threads : LocalsOK(s)
  BY Parts
<1>1. req[t] \in Requests /\ req[t].op # "book"
  BY <1>0 DEF LocalsOK, LoadForChange, ChangeLabels
<1>2. TablesOK' /\ DOMAIN appointments \subseteq DOMAIN appointments'
  BY <1>0, TablesKept DEF LoadForChange
<1>3. CASE Respond(t)
  BY <1>0, <1>2, <1>3, RespondTyped, Parts
<1>4. CASE MayChange(req[t]) /\ Goto(t, "update") /\ UNCHANGED locals
  <2>1. req[t].appt \in DOMAIN appointments
    BY <1>4 DEF MayChange, Confirmed
  <2>2. "update" \in Labels /\ "update" \notin BookLabels
    BY DEF Labels, BookLabels
  <2> QED
    BY <1>0, <1>1, <1>2, <1>4, <2>1, <2>2, GotoTyped, Parts
       DEF locals, LoadForChange, tables
<1> QED
  BY <1>3, <1>4 DEF LoadForChange

(* An UPDATE changes the status of one row and moves none. *)
LEMMA UpdateTyped ==
  ASSUME TypeOK, NEW t \in Threads, UpdateStatus(t)
  PROVE  TypeOK'
<1>0. TablesOK /\ ThreadsOK /\ \A s \in Threads : LocalsOK(s)
  BY Parts
<1>1. req[t] \in Requests /\ req[t].op # "book" /\ req[t].appt \in DOMAIN appointments
  BY <1>0 DEF LocalsOK, UpdateStatus, ChangeLabels
<1>2. req[t].op \in {"cancel", "complete"} /\ req[t].appt \in Nat
  BY <1>1 DEF Requests
<1>3. appointments' \in Seq(Row) /\ DOMAIN appointments' = DOMAIN appointments
  <2>1. NewStatus(req[t].op) \in Statuses
    BY DEF NewStatus, Statuses
  <2>2. appointments[req[t].appt] \in Row
    BY <1>0, <1>1 DEF TablesOK
  <2>3. [appointments[req[t].appt] EXCEPT !.status = NewStatus(req[t].op)] \in Row
    BY <2>1, <2>2 DEF Row
  <2> QED
    BY <1>0, <1>1, <2>3 DEF TablesOK, UpdateStatus
<1>4. TablesOK'
  BY <1>0, <1>3 DEF TablesOK, UpdateStatus
<1>5. Announcements(req[t].op) \in Seq(Kinds) /\ Announcements(req[t].op) # << >>
  BY <1>2, AnnouncementsTyped
<1>6. ThreadsOK'
  BY <1>0, <1>2, <1>5 DEF ThreadsOK, UpdateStatus, Goto, Labels
<1>7. LocalsOK(t)'
  BY <1>0, <1>1, <1>3, <1>5
     DEF ThreadsOK, UpdateStatus, Goto, LocalsOK, BookLabels, ChangeLabels
<1>8. ASSUME NEW s \in Threads, s # t PROVE LocalsOK(s)'
  BY <1>0, <1>3, <1>8, OthersKeepTheirs DEF ThreadsOK, UpdateStatus, Goto
<1> QED
  BY <1>4, <1>6, <1>7, <1>8, Parts

(* Only rows that exist are claimed in email_log. *)
LEMMA SendTyped ==
  ASSUME TypeOK, NEW t \in Threads, SendMail(t)
  PROVE  TypeOK'
<1>0. TablesOK /\ ThreadsOK /\ \A s \in Threads : LocalsOK(s)
  BY Parts
<1>1. /\ appt[t] \in DOMAIN appointments
      /\ mail[t] \in Seq(Kinds) /\ mail[t] # << >>
  BY <1>0 DEF LocalsOK, SendMail, ThreadsOK
<1>2. TablesOK'
  <2>1. Head(mail[t]) \in Kinds
    BY <1>1
  <2> QED
    BY <1>0, <1>1, <2>1 DEF TablesOK, SendMail
<1>3. CASE Respond(t)
  BY <1>0, <1>2, <1>3, RespondTyped, Parts DEF SendMail
<1>4. CASE /\ Len(mail[t]) > 1
           /\ mail' = [mail EXCEPT ![t] = Tail(@)]
           /\ UNCHANGED <<pc, req, seen, busy, appt>>
  <2>1. Tail(mail[t]) \in Seq(Kinds) /\ Tail(mail[t]) # << >>
    <3> DEFINE length == Len(mail[t])
               rest == Len(Tail(mail[t]))
    <3>1. Tail(mail[t]) \in Seq(Kinds) /\ rest = length - 1
      BY <1>1
    <3>2. length \in Nat /\ length > 1
      BY <1>1, <1>4
    <3> HIDE DEF length, rest
    <3>3. rest # 0
      BY <3>1, <3>2
    <3> QED
      BY <3>1, <3>3, EmptySeq DEF rest
  <2>2. ThreadsOK'
    BY <1>0, <1>4, <2>1 DEF ThreadsOK
  <2>3. LocalsOK(t)'
    BY <1>0, <1>1, <1>4, <2>1 DEF ThreadsOK, LocalsOK, SendMail
  <2>4. ASSUME NEW s \in Threads, s # t PROVE LocalsOK(s)'
    BY <1>0, <1>4, <2>4, OthersKeepTheirs DEF ThreadsOK, SendMail
  <2> QED
    BY <1>2, <2>2, <2>3, <2>4, Parts
<1> QED
  BY <1>3, <1>4 DEF SendMail

(* The writes of Settings stay inside their tables. *)
LEMMA SettingsTyped ==
  ASSUME TypeOK, NEW t \in Threads, Settings(t)
  PROVE  TypeOK'
<1>0. TablesOK /\ ThreadsOK /\ \A s \in Threads : LocalsOK(s)
  BY Parts
<1>1. UNCHANGED <<appointments, email_log, pc, locals>>
  BY DEF Settings, AddWindow, DeleteWindow, AddBlock, DeleteBlock, SetActive, SetRole
<1>2. ThreadsOK' /\ \A s \in Threads : LocalsOK(s)'
  BY <1>0, <1>1 DEF ThreadsOK, LocalsOK, locals
<1>3. ASSUME NEW row \in WindowRows, AddWindow(row) \/ DeleteWindow(row)
      PROVE  TablesOK'
  BY <1>0, <1>3 DEF TablesOK, AddWindow, DeleteWindow
<1>4. ASSUME NEW row \in BlockRows, AddBlock(row) \/ DeleteBlock(row)
      PROVE  TablesOK'
  BY <1>0, <1>4 DEF TablesOK, AddBlock, DeleteBlock
<1>5. ASSUME NEW a \in Users, NEW u \in AdminTargets, NEW on \in BOOLEAN, SetActive(a, u, on)
      PROVE  TablesOK'
  BY <1>0, <1>5 DEF TablesOK, SetActive, Accounts
<1>6. ASSUME NEW a \in Users, NEW u \in AdminTargets, NEW r \in Roles, SetRole(a, u, r)
      PROVE  TablesOK'
  BY <1>0, <1>6 DEF TablesOK, SetRole, Accounts
<1>7. TablesOK'
  BY <1>3, <1>4, <1>5, <1>6 DEF Settings
<1> QED
  BY <1>2, <1>7, Parts

(* A restart empties the threads and leaves the tables. *)
LEMMA RestartTyped ==
  ASSUME TypeOK, Restart
  PROVE  TypeOK'
<1>0. TablesOK /\ ThreadsOK
  BY Parts
<1>1. TablesOK'
  BY <1>0 DEF TablesOK, Restart, tables
<1>2. ThreadsOK'
  BY DEF ThreadsOK, Restart, Labels
<1>3. \A s \in Threads : LocalsOK(s)'
  BY DEF Restart, LocalsOK, BookLabels, ChangeLabels
<1> QED
  BY <1>1, <1>2, <1>3, Parts

(* Every step keeps the tables and the threads typed. *)
LEMMA NextTyped == TypeOK /\ [Next]_vars => TypeOK'
<1> SUFFICES ASSUME TypeOK, [Next]_vars PROVE TypeOK'
  OBVIOUS
<1>1. ASSUME NEW t \in Threads, Handle(t) PROVE TypeOK'
  BY <1>1, BookingReadsTyped, InsertTyped, LoadTyped, UpdateTyped, SendTyped DEF Handle
<1>2. CASE UNCHANGED vars
  BY <1>2 DEF vars, TypeOK, LocalsOK
<1> QED
  BY <1>1, <1>2, ArriveTyped, SettingsTyped, RestartTyped DEF Next

(* Every table and every handler is typed in every reachable state: each   *)
(* thread holds the right kind of request at each of its statements, and   *)
(* no handler updates or announces an appointment that is not in the table. *)
THEOREM Typed == Spec => []TypeOK
<1>1. Init => TypeOK
  BY InitTyped
<1>2. TypeOK /\ [Next]_vars => TypeOK'
  BY NextTyped
<1> QED
  BY <1>1, <1>2, PTL DEF Spec

-----------------------------------------------------------------------------
(* Which steps touch the appointments table at all. *)
LEMMA OnlyTwoWriters ==
  ASSUME Next
  PROVE  \/ UNCHANGED appointments
         \/ \E t \in Threads : InsertAppointment(t)
         \/ \E t \in Threads : UpdateStatus(t)
<1>1. ASSUME NEW t \in Threads, Arrive(t) PROVE UNCHANGED appointments
  BY <1>1 DEF Arrive, StartBook, StartChange, Receive, tables
<1>2. ASSUME NEW t \in Threads,
             \/ CheckProvider(t) \/ ReadWindows(t) \/ ReadBlocks(t) \/ ReadBooked(t)
             \/ LoadForChange(t) \/ SendMail(t)
      PROVE  UNCHANGED appointments
  BY <1>2 DEF CheckProvider, ReadWindows, ReadBlocks, ReadBooked, LoadForChange, SendMail, tables
<1>3. ASSUME NEW t \in Threads, Settings(t) PROVE UNCHANGED appointments
  BY <1>3 DEF Settings, AddWindow, DeleteWindow, AddBlock, DeleteBlock, SetActive, SetRole
<1>4. Restart => UNCHANGED appointments
  BY DEF Restart, tables
<1> QED
  BY <1>1, <1>2, <1>3, <1>4 DEF Next, Handle

(* What the INSERT does to the table. *)
LEMMA InsertEffect ==
  ASSUME TypeOK, NEW t \in Threads, InsertAppointment(t), appointments' # appointments
  PROVE  /\ ~SlotTaken(req[t])
         /\ appointments' = Append(appointments, NewRow(req[t]))
         /\ DOMAIN appointments' = DOMAIN appointments \union {Len(appointments) + 1}
         /\ \A i \in DOMAIN appointments : appointments'[i] = appointments[i]
         /\ appointments'[Len(appointments) + 1] = NewRow(req[t])
<1>1. ~SlotTaken(req[t]) /\ appointments' = Append(appointments, NewRow(req[t]))
  BY DEF InsertAppointment
<1>2. appointments \in Seq(Row) /\ Len(appointments) \in Nat
  BY DEF TypeOK
<1> QED
  BY <1>1, <1>2

(* What the UPDATE does to the table. *)
LEMMA UpdateEffect ==
  ASSUME TypeOK, NEW t \in Threads, UpdateStatus(t)
  PROVE  /\ req[t].appt \in DOMAIN appointments
         /\ DOMAIN appointments' = DOMAIN appointments
         /\ \A i \in DOMAIN appointments :
              appointments'[i] = IF i = req[t].appt
                                 THEN [appointments[i] EXCEPT !.status = NewStatus(req[t].op)]
                                 ELSE appointments[i]
         /\ NewStatus(req[t].op) \in {"cancelled", "completed"}
<1>1. req[t].appt \in DOMAIN appointments
  BY DEF TypeOK, LocalsOK, UpdateStatus
<1> QED
  BY <1>1 DEF TypeOK, UpdateStatus, NewStatus

(* The UPDATE moves no appointment and confirms none. *)
LEMMA UpdateMovesNothing ==
  ASSUME TypeOK, NEW t \in Threads, UpdateStatus(t), NEW i \in DOMAIN appointments
  PROVE  /\ appointments'[i].provider = appointments[i].provider
         /\ appointments'[i].date = appointments[i].date
         /\ appointments'[i].start = appointments[i].start
         /\ appointments'[i].end = appointments[i].end
         /\ appointments'[i].status = "confirmed" => appointments[i].status = "confirmed"
<1>1. appointments[i] \in Row
  BY DEF TypeOK
<1>2. \A row \in Row : \A status :
        LET new == [row EXCEPT !.status = status]
        IN /\ new.provider = row.provider /\ new.date = row.date
           /\ new.start = row.start /\ new.end = row.end /\ new.status = status
  BY DEF Row
<1>3. CASE i # req[t].appt
  BY <1>3, UpdateEffect
<1>4. CASE i = req[t].appt
  <2>1. /\ appointments'[i] = [appointments[i] EXCEPT !.status = NewStatus(req[t].op)]
        /\ NewStatus(req[t].op) # "confirmed"
    BY <1>4, UpdateEffect
  <2> QED
    BY <1>1, <1>2, <2>1
<1> QED
  BY <1>3, <1>4

(* The INSERT confirms one new row, whose slot no confirmed row has. *)
LEMMA InsertKeepsUnique ==
  ASSUME TypeOK, UniqueActiveSlot, NEW t \in Threads, InsertAppointment(t),
         appointments' # appointments
  PROVE  UniqueActiveSlot'
<1>0. PICK new : new = Len(appointments) + 1
  OBVIOUS
<1>1. /\ ~SlotTaken(req[t])
      /\ DOMAIN appointments' = DOMAIN appointments \union {new}
      /\ \A i \in DOMAIN appointments : appointments'[i] = appointments[i]
      /\ appointments'[new] = NewRow(req[t])
  BY <1>0, InsertEffect
<1>2. new \notin DOMAIN appointments
  BY <1>0 DEF TypeOK
<1>3. Confirmed' = Confirmed \union {new}
  BY <1>1 DEF Confirmed, NewRow
<1>4. ASSUME NEW i \in Confirmed PROVE ~SameSlot(i, new)' /\ ~SameSlot(new, i)'
  BY <1>1 DEF Confirmed, SlotTaken, SameSlot, NewRow
<1>5. ASSUME NEW i \in Confirmed, NEW j \in Confirmed, SameSlot(i, j)' PROVE i = j
  BY <1>1, <1>5 DEF UniqueActiveSlot, Confirmed, SameSlot
<1> QED
  BY <1>3, <1>4, <1>5 DEF UniqueActiveSlot

(* The UPDATE confirms nothing. *)
LEMMA UpdateKeepsUnique ==
  ASSUME TypeOK, UniqueActiveSlot, NEW t \in Threads, UpdateStatus(t)
  PROVE  UniqueActiveSlot'
<1>1. \A i \in DOMAIN appointments :
        /\ appointments'[i].provider = appointments[i].provider
        /\ appointments'[i].date = appointments[i].date
        /\ appointments'[i].start = appointments[i].start
        /\ appointments'[i].status = "confirmed" => appointments[i].status = "confirmed"
  BY UpdateMovesNothing
<1>2. DOMAIN appointments' = DOMAIN appointments
  BY UpdateEffect
<1>3. Confirmed' \subseteq Confirmed
  BY <1>1, <1>2 DEF Confirmed
<1>4. ASSUME NEW i \in Confirmed', NEW j \in Confirmed', SameSlot(i, j)' PROVE i = j
  <2>1. i \in Confirmed /\ j \in Confirmed
    BY <1>3
  <2>2. i \in DOMAIN appointments /\ j \in DOMAIN appointments
    BY <2>1 DEF Confirmed
  <2>3. SameSlot(i, j)
    BY <1>1, <1>4, <2>2 DEF SameSlot
  <2> QED
    BY <2>1, <2>3 DEF UniqueActiveSlot
<1> QED
  BY <1>4 DEF UniqueActiveSlot

(* However the handlers of however many threads interleave, and whatever   *)
(* the process loses in a restart, a provider never has two confirmed      *)
(* appointments with one starting time (uniq_active_slot,                  *)
(* database.py:234-236).                                                   *)
THEOREM SlotsAreUnique == Spec => []UniqueActiveSlot
<1> DEFINE IInv == TypeOK /\ UniqueActiveSlot
<1>1. Init => IInv
  BY InitTyped DEF Init, UniqueActiveSlot, Confirmed
<1>2. IInv /\ [Next]_vars => IInv'
  <2> SUFFICES ASSUME TypeOK, UniqueActiveSlot, [Next]_vars PROVE UniqueActiveSlot'
    BY NextTyped
  <2>1. CASE UNCHANGED appointments
    BY <2>1 DEF UniqueActiveSlot, Confirmed, SameSlot
  <2>2. ASSUME NEW t \in Threads, InsertAppointment(t), appointments' # appointments
        PROVE  UniqueActiveSlot'
    BY <2>2, InsertKeepsUnique
  <2>3. ASSUME NEW t \in Threads, UpdateStatus(t)
        PROVE  UniqueActiveSlot'
    BY <2>3, UpdateKeepsUnique
  <2>4. CASE UNCHANGED vars
    BY <2>4, <2>1 DEF vars
  <2> QED
    BY <2>1, <2>2, <2>3, <2>4, OnlyTwoWriters
<1> QED
  BY <1>1, <1>2, PTL DEF Spec

(* One step of history. *)
HistoryStep ==
  /\ Len(appointments) <= Len(appointments')
  /\ \A i \in DOMAIN appointments :
       /\ [appointments'[i] EXCEPT !.status = appointments[i].status] = appointments[i]
       /\ appointments'[i].status = "confirmed" => appointments[i].status = "confirmed"

(* A booking adds a row and touches no other. *)
LEMMA InsertKeepsHistory ==
  ASSUME TypeOK, NEW t \in Threads, InsertAppointment(t), appointments' # appointments
  PROVE  HistoryStep
<1>1. appointments' = Append(appointments, NewRow(req[t]))
  BY InsertEffect
<1>2. Len(appointments) <= Len(appointments')
  BY <1>1 DEF TypeOK
<1>3. \A i \in DOMAIN appointments : appointments'[i] = appointments[i]
  BY InsertEffect
<1>4. \A i \in DOMAIN appointments : appointments[i] \in Row
  BY DEF TypeOK
<1>5. \A row \in Row : [row EXCEPT !.status = row.status] = row
  BY DEF Row
<1> QED
  BY <1>2, <1>3, <1>4, <1>5 DEF HistoryStep

(* A change of status keeps the row, its people and its time. *)
LEMMA UpdateKeepsHistory ==
  ASSUME TypeOK, NEW t \in Threads, UpdateStatus(t)
  PROVE  HistoryStep
<1>1. Len(appointments) <= Len(appointments')
  BY UpdateEffect DEF TypeOK, UpdateStatus
<1>2. \A i \in DOMAIN appointments : appointments[i] \in Row
  BY DEF TypeOK
<1>3. \A row \in Row : \A status :
        [[row EXCEPT !.status = status] EXCEPT !.status = row.status] = row
  BY DEF Row
<1>4. \A row \in Row : [row EXCEPT !.status = row.status] = row
  BY DEF Row
<1>5. \A row \in Row : \A status : [row EXCEPT !.status = status].status = status
  BY DEF Row
<1>6. ASSUME NEW i \in DOMAIN appointments
      PROVE  /\ [appointments'[i] EXCEPT !.status = appointments[i].status] = appointments[i]
             /\ appointments'[i].status = "confirmed" => appointments[i].status = "confirmed"
  <2>1. CASE i = req[t].appt
    <3>1. /\ appointments'[i] = [appointments[i] EXCEPT !.status = NewStatus(req[t].op)]
          /\ NewStatus(req[t].op) # "confirmed"
      BY <2>1, UpdateEffect
    <3>2. [appointments'[i] EXCEPT !.status = appointments[i].status] = appointments[i]
      BY <1>2, <1>3, <3>1
    <3>3. appointments'[i].status # "confirmed"
      BY <1>2, <1>5, <3>1
    <3> QED
      BY <3>2, <3>3
  <2>2. CASE i # req[t].appt
    <3>1. appointments'[i] = appointments[i]
      BY <2>2, UpdateEffect
    <3> QED
      BY <1>2, <1>4, <3>1
  <2> QED
    BY <2>1, <2>2
<1> QED
  BY <1>1, <1>6 DEF HistoryStep

(* No handler ever rewrites an appointment's parties or time, removes a    *)
(* row, or confirms again what was cancelled or completed: a cancelled     *)
(* slot really is free (appointment_routes.py:98-146).                     *)
THEOREM HistoryHolds == Spec => HistoryIsKept
<1>1. TypeOK /\ [Next]_vars => [HistoryStep]_vars
  <2> SUFFICES ASSUME TypeOK, Next PROVE HistoryStep \/ UNCHANGED vars
    OBVIOUS
  <2>1. CASE UNCHANGED appointments
    <3>1. \A row \in Row : [row EXCEPT !.status = row.status] = row
      BY DEF Row
    <3>2. appointments \in Seq(Row) /\ appointments' = appointments
      BY <2>1 DEF TypeOK
    <3> QED
      BY <3>1, <3>2 DEF HistoryStep
  <2> QED
    BY <2>1, OnlyTwoWriters, InsertKeepsHistory, UpdateKeepsHistory
<1> QED
  BY <1>1, Typed, PTL DEF Spec, HistoryIsKept, HistoryStep

-----------------------------------------------------------------------------
(* One request at a time.                                                  *)

OneThread == \A s, t \in Threads : s = t

(* A message about an ending goes with that ending. *)
Fits(kind, status) ==
  /\ kind \in {"cancelled_client", "cancelled_provider"} => status = "cancelled"
  /\ kind = "completed_client" => status = "completed"

(* What a handler read is still so when it writes, and what it announces   *)
(* is so when it announces it. *)
StillSo(t) ==
  /\ pc[t] = "update" => req[t].appt \in Confirmed
  /\ pc[t] = "mail" =>
       \A n \in DOMAIN mail[t] : Fits(mail[t][n], appointments[appt[t]].status)

Serially == (\A t \in Threads : StillSo(t)) /\ OneEnding

EndingStays ==
  \A i \in DOMAIN appointments :
    appointments[i].status # "confirmed" => appointments'[i].status = appointments[i].status

(* A step that writes nothing and goes where nothing is relied on. *)
LEMMA CalmStep ==
  ASSUME OneThread, Serially, NEW t \in Threads, pc'[t] \notin {"update", "mail"},
         UNCHANGED <<appointments, email_log>>
  PROVE  Serially' /\ EndingStays
  BY DEF OneThread, Serially, StillSo, OneEnding, EndingStays

(* A step of the handlers that read, and the return of any handler. *)
LEMMA ReadStep ==
  ASSUME OneThread, TypeOK, Serially, NEW t \in Threads,
         Arrive(t) \/ CheckProvider(t) \/ ReadWindows(t) \/ ReadBlocks(t) \/ ReadBooked(t)
  PROVE  Serially' /\ EndingStays
<1>1. pc \in [Threads -> Labels]
  BY DEF TypeOK
<1>2. pc'[t] \in {"idle", "provider", "windows", "blocks", "booked", "insert", "load"}
  BY <1>1 DEF Arrive, StartBook, StartChange, Receive, CheckProvider, ReadWindows, ReadBlocks,
              ReadBooked, Respond, Goto
<1>3. UNCHANGED <<appointments, email_log>>
  BY DEF Arrive, StartBook, StartChange, Receive, CheckProvider, ReadWindows, ReadBlocks,
         ReadBooked, tables
<1> QED
  BY <1>2, <1>3, CalmStep

LEMMA LoadStep ==
  ASSUME OneThread, TypeOK, Serially, NEW t \in Threads, LoadForChange(t)
  PROVE  Serially' /\ EndingStays
<1>1. pc \in [Threads -> Labels] /\ UNCHANGED <<appointments, email_log>>
  BY DEF TypeOK, LoadForChange, tables
<1>2. CASE Respond(t)
  <2>1. pc'[t] = "idle"
    BY <1>1, <1>2 DEF Respond
  <2> QED
    BY <1>1, <2>1, CalmStep
<1>3. CASE MayChange(req[t]) /\ Goto(t, "update") /\ UNCHANGED locals
  <2>1. pc'[t] = "update" /\ req' = req /\ req[t].appt \in Confirmed
    BY <1>1, <1>3 DEF Goto, MayChange, locals
  <2>2. StillSo(t)'
    BY <1>1, <2>1 DEF StillSo, Confirmed
  <2> QED
    BY <1>1, <2>2 DEF OneThread, Serially, OneEnding, EndingStays
<1> QED
  BY <1>2, <1>3 DEF LoadForChange

(* What each announcement says. *)
LEMMA AnnouncementsFit ==
  /\ \A n \in DOMAIN Announcements("book") : \A s : Fits(Announcements("book")[n], s)
  /\ \A op \in {"cancel", "complete"} :
       \A n \in DOMAIN Announcements(op) : Fits(Announcements(op)[n], NewStatus(op))
  BY DEF Announcements, Fits, NewStatus

LEMMA InsertStep ==
  ASSUME OneThread, TypeOK, Serially, NEW t \in Threads, InsertAppointment(t)
  PROVE  Serially' /\ EndingStays
<1>1. /\ pc \in [Threads -> Labels] /\ mail \in [Threads -> Seq(Kinds)]
      /\ email_log' = email_log
      /\ \A m \in email_log : m.appt \in DOMAIN appointments
  BY DEF TypeOK, InsertAppointment
<1>2. CASE UNCHANGED appointments
  <2>1. pc'[t] = "idle"
    <3>1. appointments \in Seq(Row) /\ appointments' = appointments
      BY <1>2 DEF TypeOK
    <3>2. \A row : Append(appointments, row) # appointments
      BY <3>1
    <3> QED
      BY <1>1, <3>1, <3>2 DEF InsertAppointment, Respond
  <2> QED
    BY <1>1, <1>2, <2>1, CalmStep
<1>3. CASE appointments' # appointments
  <2>1. /\ DOMAIN appointments \subseteq DOMAIN appointments'
        /\ \A i \in DOMAIN appointments : appointments'[i] = appointments[i]
    BY <1>3, InsertEffect
  <2>2. pc'[t] = "mail" /\ mail'[t] = Announcements("book")
    BY <1>1, <1>3 DEF InsertAppointment, Goto
  <2>3. StillSo(t)'
    BY <2>2, AnnouncementsFit DEF StillSo
  <2>4. OneEnding' /\ EndingStays
    BY <1>1, <2>1 DEF Serially, OneEnding, EndingStays
  <2> QED
    BY <2>3, <2>4 DEF OneThread, Serially
<1> QED
  BY <1>2, <1>3

LEMMA ChangeStep ==
  ASSUME OneThread, TypeOK, Serially, NEW t \in Threads, UpdateStatus(t)
  PROVE  Serially' /\ EndingStays
<1>1. PICK i, op : i = req[t].appt /\ op = req[t].op
  OBVIOUS
<1>2. /\ i \in Confirmed /\ op \in {"cancel", "complete"}
      /\ pc'[t] = "mail" /\ appt'[t] = i /\ mail'[t] = Announcements(op)
      /\ email_log' = email_log
  <2>1. pc \in [Threads -> Labels] /\ appt \in [Threads -> Nat] /\ mail \in [Threads -> Seq(Kinds)]
    BY DEF TypeOK
  <2>2. req[t] \in Requests /\ req[t].op # "book"
    BY DEF TypeOK, LocalsOK, ChangeLabels, UpdateStatus
  <2>3. req[t].op \in {"cancel", "complete"}
    BY <2>2 DEF Requests
  <2> QED
    BY <1>1, <2>1, <2>3 DEF UpdateStatus, Goto, Serially, StillSo
<1>3. /\ \A k \in DOMAIN appointments : appointments[k] \in Row
      /\ \A m \in email_log : m.appt \in DOMAIN appointments
  BY DEF TypeOK
<1>4. /\ \A k \in DOMAIN appointments : k # i => appointments'[k] = appointments[k]
      /\ appointments'[i] = [appointments[i] EXCEPT !.status = NewStatus(op)]
      /\ i \in DOMAIN appointments /\ appointments[i].status = "confirmed"
  BY <1>1, <1>2, UpdateEffect DEF Confirmed
<1>5. appointments'[i].status = NewStatus(op)
  BY <1>3, <1>4 DEF Row
<1>6. StillSo(t)'
  BY <1>2, <1>5, AnnouncementsFit DEF StillSo
<1>7. OneEnding' /\ EndingStays
  BY <1>2, <1>3, <1>4 DEF Serially, OneEnding, EndingStays
<1> QED
  BY <1>6, <1>7 DEF OneThread, Serially

LEMMA SendStep ==
  ASSUME OneThread, TypeOK, Serially, NEW t \in Threads, SendMail(t)
  PROVE  Serially' /\ EndingStays
<1>1. PICK a, kinds : a = appt[t] /\ kinds = mail[t]
  OBVIOUS
<1>2. /\ kinds \in Seq(Kinds) /\ kinds # << >>
      /\ \A n \in DOMAIN kinds : Fits(kinds[n], appointments[a].status)
      /\ appointments' = appointments
      /\ email_log' = email_log \union {[appt |-> a, kind |-> Head(kinds)]}
  BY <1>1 DEF TypeOK, LocalsOK, SendMail, Serially, StillSo
<1>3. Fits(Head(kinds), appointments[a].status)
  BY <1>2
<1>4. OneEnding' /\ EndingStays
  BY <1>2, <1>3 DEF Serially, OneEnding, Fits, EndingStays
<1>5. StillSo(t)'
  <2>1. /\ pc \in [Threads -> Labels] /\ appt \in [Threads -> Nat]
        /\ mail \in [Threads -> Seq(Kinds)]
    BY DEF TypeOK
  <2>2. CASE Respond(t)
    BY <2>1, <2>2 DEF Respond, StillSo
  <2>3. CASE Len(mail[t]) > 1 /\ mail' = [mail EXCEPT ![t] = Tail(@)] /\ UNCHANGED <<pc, req, appt>>
    <3>1. mail'[t] = Tail(kinds) /\ Len(kinds) > 1
      BY <1>1, <2>1, <2>3
    <3>2. \A n \in DOMAIN Tail(kinds) : n + 1 \in DOMAIN kinds /\ Tail(kinds)[n] = kinds[n + 1]
      BY <1>2, <3>1
    <3>3. \A n \in DOMAIN mail'[t] : Fits(mail'[t][n], appointments'[appt'[t]].status)
      BY <1>1, <1>2, <2>3, <3>1, <3>2
    <3>4. pc'[t] = "mail"
      BY <2>3 DEF SendMail
    <3> QED
      BY <3>3, <3>4 DEF StillSo
  <2> QED
    BY <2>2, <2>3 DEF SendMail
<1> QED
  BY <1>4, <1>5 DEF OneThread, Serially

LEMMA SerialStep ==
  ASSUME OneThread, TypeOK, Serially, [Next]_vars
  PROVE  Serially' /\ EndingStays
<1>1. ASSUME UNCHANGED <<appointments, email_log, pc, locals>> PROVE Serially' /\ EndingStays
  BY <1>1 DEF Serially, StillSo, OneEnding, EndingStays, Confirmed, locals
<1>2. CASE UNCHANGED vars
  BY <1>1, <1>2 DEF vars, locals
<1>3. ASSUME NEW t \in Threads, Settings(t) PROVE Serially' /\ EndingStays
  BY <1>1, <1>3 DEF Settings, AddWindow, DeleteWindow, AddBlock, DeleteBlock, SetActive, SetRole
<1>4. CASE Restart
  <2>1. UNCHANGED <<appointments, email_log>> /\ \A t \in Threads : pc'[t] = "idle"
    BY <1>4 DEF Restart, tables
  <2> QED
    BY <2>1 DEF Serially, StillSo, OneEnding, EndingStays
<1> QED
  BY <1>2, <1>3, <1>4, ReadStep, LoadStep, InsertStep, ChangeStep, SendStep DEF Next, Handle

LEMMA SerialInvariant == ASSUME OneThread PROVE Spec => [](TypeOK /\ Serially)
<1>1. Init => TypeOK /\ Serially
  BY InitTyped DEF Init, Serially, StillSo, OneEnding
<1>2. TypeOK /\ Serially /\ [Next]_vars => (TypeOK /\ Serially)'
  BY NextTyped, SerialStep
<1> QED
  BY <1>1, <1>2, PTL DEF Spec

(* With one thread an appointment that was cancelled or completed stays as *)
(* it is, wherever the process is killed: the status is read and written   *)
(* by two statements (appointment_routes.py:121-146), and nothing comes    *)
(* between them. *)
THEOREM EndingsAreFinal == ASSUME OneThread PROVE Spec => StatusIsFinal
<1>1. TypeOK /\ Serially /\ [Next]_vars => [EndingStays]_vars
  BY SerialStep
<1> QED
  BY <1>1, SerialInvariant, PTL DEF Spec, StatusIsFinal, EndingStays

(* With one thread nobody is told an ending but the one that is stored.    *)
THEOREM OneEndingIsTold == ASSUME OneThread PROVE Spec => []OneEnding
<1>1. Serially => OneEnding
  BY DEF Serially
<1> QED
  BY <1>1, SerialInvariant, PTL

-----------------------------------------------------------------------------
(* One request at a time: what is read stays true until it is used.        *)

(* The time a request asks for is inside the provider's hours and nobody   *)
(* else's, by the rows the tables have under the text of its date. *)
FreeFor(r) ==
  \A m \in Span(r.ask) :
    /\ \E w \in availability :
         /\ w.provider = r.provider /\ w.dow = Weekday[Day[r.date]]
         /\ w.start <= m /\ m < w.end
    /\ \A b \in blocked :
         b.provider = r.provider /\ b.date = r.date =>
           ~(BlockRange(b).start <= m /\ m < BlockRange(b).end)
    /\ \A j \in Confirmed :
         appointments[j].provider = r.provider /\ appointments[j].date = r.date =>
           m \notin Span(appointments[j])

TheirBlocks(r) ==
  {BlockRange(b) : b \in {row \in blocked : row.provider = r.provider /\ row.date = r.date}}

(* What the thread has read is still what the tables say. *)
WindowsRead(t) ==
  /\ \E n \in Nat : DOMAIN seen[t] = 1 .. n
  /\ \A i \in DOMAIN seen[t] :
       /\ seen[t][i] \in availability
       /\ seen[t][i].provider = req[t].provider
       /\ seen[t][i].dow = Weekday[Day[req[t].date]]

ReadsHold(t) ==
  /\ pc[t] \in {"blocks", "booked"} => WindowsRead(t)
  /\ pc[t] = "booked" => busy[t] = TheirBlocks(req[t])
  /\ pc[t] = "insert" => FreeFor(req[t])

CalmReads ==
  /\ IsFiniteSet(availability)
  /\ DOMAIN seen = Threads /\ DOMAIN busy = Threads
  /\ \A t \in Threads : ReadsHold(t)

(* What a time is read as. *)
LEMMA TimesRead ==
  /\ \A time \in Times : ToMinutes(time) \in Int \union {Unreadable}
  /\ \A m \in Minutes : m \in Int /\ ToMinutes(m) = m
  /\ Unreadable \notin Int
<1>1. \A m \in Minutes : m \in Int
  BY MinutesAssumption DEF Minutes
<1>2. \A m \in Minutes : m \notin OddTimes
  BY <1>1, AppointmentsAssumption
<1> QED
  BY <1>1, <1>2, AppointmentsAssumption, MinutesAssumption DEF Times, ToMinutes

(* What is free as it stands takes no time, or the minutes between two. *)
LEMMA AcceptedSpan ==
  ASSUME NEW free, NEW a \in Intervals, IsSlotFree(free, a.start, a.end)
  PROVE  \/ Span(a) = {}
         \/ {a.start, a.end} \subseteq Minutes /\ Span(a) = a.start .. a.end - 1
<1>1. CASE a.start = a.end
  <2>1. \A x : x \in Int => x .. x - 1 = {}
    OBVIOUS
  <2>2. ToMinutes(a.start) \in Int \union {Unreadable}
    BY TimesRead DEF Intervals
  <2> QED
    BY <1>1, <2>1, <2>2 DEF Span
<1>2. CASE {a.start, a.end} \subseteq Minutes
  BY <1>2, TimesRead DEF Span
<1> QED
  BY <1>1, <1>2 DEF IsSlotFree

(* A busy range is a pair of minutes. *)
LEMMA BlockRangeTyped ==
  ASSUME NEW b, BlockOK(b)
  PROVE  BlockRange(b).start \in Int /\ BlockRange(b).end \in Int
<1>1. \A m \in Minutes : m \in Int
  BY MinutesAssumption DEF Minutes
<1>2. 0 \in Minutes /\ MinutesInADay \in Minutes
  BY MinutesAssumption DEF Minutes
<1> QED
  BY <1>1, <1>2 DEF BlockRange, BlockOK

(* A thread that is not between two reads has nothing to keep true. *)
LEMMA NothingRead ==
  ASSUME OneThread, IsFiniteSet(availability'), DOMAIN seen' = Threads, DOMAIN busy' = Threads,
         \A t \in Threads : pc'[t] \notin {"blocks", "booked", "insert"}
  PROVE  CalmReads'
  BY DEF CalmReads, ReadsHold

LEMMA RespondForgets ==
  ASSUME OneThread, TypeOK, CalmReads, NEW t \in Threads, Respond(t), availability' = availability
  PROVE  CalmReads'
<1>1. pc'[t] = "idle" /\ DOMAIN seen' = Threads /\ DOMAIN busy' = Threads
  BY DEF Respond, TypeOK, CalmReads
<1> QED
  BY <1>1, NothingRead DEF OneThread, CalmReads

LEMMA WindowsStep ==
  ASSUME OneThread, TypeOK, CalmReads, NEW t \in Threads, ReadWindows(t)
  PROVE  CalmReads'
<1> DEFINE rows == {w \in availability : /\ w.provider = req[t].provider
                                        /\ w.dow = Weekday[Day[req[t].date]]}
<1>1. CASE Respond(t)
  BY <1>1, RespondForgets DEF ReadWindows, tables
<1>2. CASE ~Respond(t)
  <2>1. /\ Goto(t, "blocks") /\ UNCHANGED <<tables, req, busy>>
        /\ \E order \in SetToSeqs(rows) : seen' = [seen EXCEPT ![t] = order]
    BY <1>2, Zenon DEF ReadWindows
  <2>2. PICK order \in SetToSeqs(rows) : seen' = [seen EXCEPT ![t] = order]
    BY <2>1
  <2>3. Cardinality(rows) \in Nat
    <3>1. IsFiniteSet(rows)
      BY FS_Subset DEF CalmReads
    <3> QED
      BY <3>1, FS_CardinalityType
  <2>4. order \in [1 .. Cardinality(rows) -> rows]
    BY <2>2 DEF SetToSeqs
  <2>5. seen'[t] = order /\ DOMAIN seen' = Threads /\ pc'[t] = "blocks"
    BY <2>1, <2>2 DEF CalmReads, TypeOK, Goto
  <2> HIDE DEF rows
  <2>6. WindowsRead(t)'
    <3>1. DOMAIN order = 1 .. Cardinality(rows) /\ \A i \in DOMAIN order : order[i] \in rows
      BY <2>4
    <3> QED
      BY <2>1, <2>3, <2>5, <3>1 DEF WindowsRead, rows, tables
  <2>7. ReadsHold(t)'
    BY <2>5, <2>6 DEF ReadsHold
  <2> QED
    BY <2>1, <2>5, <2>7 DEF CalmReads, OneThread, tables
<1> QED
  BY <1>1, <1>2

LEMMA BlocksStep ==
  ASSUME OneThread, TypeOK, CalmReads, NEW t \in Threads, ReadBlocks(t)
  PROVE  CalmReads'
<1>1. /\ pc[t] = "blocks" /\ pc'[t] = "booked" /\ UNCHANGED <<tables, req, seen>>
      /\ busy'[t] = TheirBlocks(req[t]) /\ DOMAIN busy' = Threads
  BY DEF ReadBlocks, Goto, TypeOK, CalmReads, TheirBlocks
<1>2. WindowsRead(t)
  BY <1>1 DEF CalmReads, ReadsHold
<1>3. WindowsRead(t)' /\ busy'[t] = TheirBlocks(req[t])'
  BY <1>1, <1>2 DEF WindowsRead, TheirBlocks, tables
<1>4. ReadsHold(t)'
  BY <1>1, <1>3 DEF ReadsHold
<1> QED
  BY <1>1, <1>4 DEF CalmReads, OneThread, tables

(* The walk goes over rows that are still the stored ones, so what it      *)
(* accepts is free by the tables. *)
LEMMA WalkedIsFree ==
  ASSUME TypeOK, NEW t \in Threads, WindowsRead(t), busy[t] = TheirBlocks(req[t]),
         req[t] \in Requests, req[t].op = "book", NEW earliest \in Int,
         ~Raises(BookedRanges(req[t].provider, req[t].date)),
         IsSlotFree(FreeSlots(seen[t], busy[t] \union BookedRanges(req[t].provider, req[t].date),
                              earliest),
                    req[t].ask.start, req[t].ask.end)
  PROVE  FreeFor(req[t])
<1>1. PICK r, taken : r = req[t] /\ taken = busy[t] \union BookedRanges(r.provider, r.date)
  OBVIOUS
<1>2. SUFFICES ASSUME {r.ask.start, r.ask.end} \subseteq Minutes,
                      Span(r.ask) = r.ask.start .. r.ask.end - 1
               PROVE  FreeFor(r)
  <2>1. r.ask \in Intervals
    BY <1>1 DEF Requests
  <2>2. CASE Span(r.ask) = {}
    BY <1>1, <2>2 DEF FreeFor
  <2> QED
    BY <1>1, <2>1, <2>2, AcceptedSpan
<1>3. PICK n \in Nat : DOMAIN seen[t] = 1 .. n
  BY DEF WindowsRead
<1>4. \A i \in DOMAIN seen[t] : WindowOK(seen[t][i])
  BY AppointmentsAssumption DEF WindowsRead, TypeOK
<1>5. \A b \in taken : b.start \in Int /\ b.end \in Int
  <2>1. ASSUME NEW b \in blocked PROVE BlockRange(b).start \in Int /\ BlockRange(b).end \in Int
    BY <2>1, BlockRangeTyped, AppointmentsAssumption DEF TypeOK
  <2>2. ASSUME NEW b \in BookedRanges(r.provider, r.date)
        PROVE  b.start \in Int /\ b.end \in Int
    <3>1. PICK i \in Confirmed : b = [start |-> ToMinutes(appointments[i].start),
                                     end   |-> ToMinutes(appointments[i].end)]
      BY DEF BookedRanges
    <3>2. appointments[i] \in Row
      BY DEF TypeOK, Confirmed
    <3>3. {b.start, b.end} \subseteq Int \union {Unreadable}
      BY <3>1, <3>2, TimesRead DEF Row
    <3> QED
      BY <1>1, <3>3 DEF Raises
  <2> QED
    BY <1>1, <2>1, <2>2 DEF TheirBlocks
<1>6. ASSUME NEW m \in r.ask.start .. r.ask.end - 1
      PROVE  /\ \E i \in DOMAIN seen[t] : seen[t][i].start <= m /\ m < seen[t][i].end
             /\ \A b \in taken : ~(b.start <= m /\ m < b.end)
  <2>1. PICK wins : wins = seen[t]
    OBVIOUS
  <2>2. IsSlotFree(FreeSlots(wins, taken, earliest), r.ask.start, r.ask.end)
    BY <1>1, <2>1
  <2>3. PICK from, to : from = r.ask.start /\ to = r.ask.end
    OBVIOUS
  <2>4. DOMAIN wins \subseteq 1 .. n /\ \A i \in DOMAIN wins : WindowOK(wins[i])
    BY <1>3, <1>4, <2>1
  <2>5. \A k \in from .. to - 1 :
          /\ \E i \in DOMAIN wins : wins[i].start <= k /\ k < wins[i].end
          /\ \A b \in taken : ~(b.start <= k /\ k < b.end)
    BY <1>2, <1>5, <2>2, <2>3, <2>4, AcceptedIsFree
  <2> QED
    BY <2>1, <2>3, <2>5
<1>7. ASSUME NEW b \in blocked, b.provider = r.provider, b.date = r.date
      PROVE  BlockRange(b) \in taken
  BY <1>1, <1>7 DEF TheirBlocks
<1>8. ASSUME NEW j \in Confirmed, appointments[j].provider = r.provider,
             appointments[j].date = r.date
      PROVE  [start |-> ToMinutes(appointments[j].start),
              end   |-> ToMinutes(appointments[j].end)] \in taken
  BY <1>1, <1>8 DEF BookedRanges
<1>9. ASSUME NEW m \in r.ask.start .. r.ask.end - 1, NEW j \in Confirmed,
             appointments[j].provider = r.provider, appointments[j].date = r.date
      PROVE  m \notin Span(appointments[j])
  <2>1. PICK b \in taken : b = [start |-> ToMinutes(appointments[j].start),
                               end   |-> ToMinutes(appointments[j].end)]
    BY <1>8, <1>9
  <2>2. ~(b.start <= m /\ m < b.end) /\ b.start \in Int /\ b.end \in Int
    BY <1>5, <1>6
  <2>3. m \notin b.start .. b.end - 1
    BY <2>2
  <2> QED
    BY <2>1, <2>3 DEF Span
<1> QED
  BY <1>1, <1>2, <1>6, <1>7, <1>9 DEF FreeFor, WindowsRead

LEMMA BookedStep ==
  ASSUME OneThread, TypeOK, CalmReads, NEW t \in Threads, ReadBooked(t)
  PROVE  CalmReads'
<1>1. CASE Respond(t)
  BY <1>1, RespondForgets DEF ReadBooked, tables
<1>2. CASE ~Respond(t)
  <2>1. PICK earliest \in Clock :
          /\ ~Raises(BookedRanges(req[t].provider, req[t].date))
          /\ IsSlotFree(FreeSlots(seen[t], busy[t] \union BookedRanges(req[t].provider, req[t].date),
                                  earliest),
                        req[t].ask.start, req[t].ask.end)
          /\ Goto(t, "insert")
          /\ seen' = [seen EXCEPT ![t] = << >>]
          /\ busy' = [busy EXCEPT ![t] = {}]
          /\ UNCHANGED <<req, appt, mail>>
    BY <1>2, Zenon DEF ReadBooked
  <2>2. pc[t] = "booked" /\ UNCHANGED tables
    BY DEF ReadBooked
  <2>3. req[t] \in Requests /\ req[t].op = "book"
    BY <2>2 DEF TypeOK, LocalsOK, BookLabels
  <2>4. FreeFor(req[t])
    BY <2>1, <2>2, <2>3, WalkedIsFree, AppointmentsAssumption DEF CalmReads, ReadsHold
  <2>5. pc'[t] = "insert" /\ req' = req /\ DOMAIN seen' = Threads /\ DOMAIN busy' = Threads
    BY <2>1 DEF TypeOK, Goto, CalmReads
  <2>6. FreeFor(req[t])'
    BY <2>2, <2>4, <2>5 DEF FreeFor, tables, Confirmed
  <2>7. ReadsHold(t)'
    BY <2>5, <2>6 DEF ReadsHold
  <2> QED
    BY <2>2, <2>5, <2>7 DEF CalmReads, OneThread, tables
<1> QED
  BY <1>1, <1>2

LEMMA CalmReadsStep ==
  ASSUME OneThread, TypeOK, CalmReads, [Next]_vars
  PROVE  CalmReads'
<1>1. CASE UNCHANGED vars
  <2>1. ASSUME NEW t \in Threads PROVE WindowsRead(t)' = WindowsRead(t)
    BY <1>1 DEF vars, WindowsRead
  <2>2. ASSUME NEW t \in Threads PROVE TheirBlocks(req[t])' = TheirBlocks(req[t])
    BY <1>1 DEF vars, TheirBlocks
  <2>3. ASSUME NEW t \in Threads, FreeFor(req[t]) PROVE FreeFor(req[t])'
    BY <1>1, <2>3 DEF vars, FreeFor, Confirmed
  <2> QED
    BY <1>1, <2>1, <2>2, <2>3 DEF vars, CalmReads, ReadsHold
<1>2. ASSUME NEW t \in Threads,
             \/ Arrive(t) \/ CheckProvider(t) \/ InsertAppointment(t)
             \/ LoadForChange(t) \/ UpdateStatus(t) \/ SendMail(t)
      PROVE  CalmReads'
  <2>1. availability' = availability
    BY <1>2 DEF Arrive, StartBook, StartChange, Receive, CheckProvider, InsertAppointment,
                LoadForChange, UpdateStatus, SendMail, tables
  <2>2. CASE Respond(t)
    BY <2>1, <2>2, RespondForgets
  <2>3. CASE ~Respond(t)
    <3>1. UNCHANGED <<seen, busy>>
      BY <1>2, <2>3 DEF Arrive, StartBook, StartChange, Receive, CheckProvider, InsertAppointment,
                        LoadForChange, UpdateStatus, SendMail, locals
    <3>2. pc'[t] \in {"provider", "windows", "load", "update", "mail"}
      BY <1>2, <2>3 DEF Arrive, StartBook, StartChange, Receive, CheckProvider, InsertAppointment,
                        LoadForChange, UpdateStatus, SendMail, Goto, TypeOK
    <3> QED
      BY <2>1, <3>1, <3>2, NothingRead DEF CalmReads, OneThread
  <2> QED
    BY <2>2, <2>3
<1>3. ASSUME NEW t \in Threads, Settings(t) PROVE CalmReads'
  <2>1. pc[t] = "idle" /\ UNCHANGED <<pc, locals>>
    BY <1>3 DEF Settings, AddWindow, DeleteWindow, AddBlock, DeleteBlock, SetActive, SetRole
  <2>2. \/ availability' = availability
        \/ \E row : availability' = availability \union {row}
        \/ \E row : availability' = availability \ {row}
    BY <1>3 DEF Settings, AddWindow, DeleteWindow, AddBlock, DeleteBlock, SetActive, SetRole
  <2>3. IsFiniteSet(availability')
    BY <2>2, FS_AddElement, FS_RemoveElement DEF CalmReads
  <2> QED
    BY <2>1, <2>3, NothingRead DEF CalmReads, OneThread, locals
<1>4. CASE Restart
  <2>1. /\ availability' = availability /\ \A t \in Threads : pc'[t] = "idle"
        /\ DOMAIN seen' = Threads /\ DOMAIN busy' = Threads
    BY <1>4 DEF Restart, tables
  <2> QED
    BY <2>1, NothingRead DEF CalmReads
<1> QED
  BY <1>1, <1>2, <1>3, <1>4, WindowsStep, BlocksStep, BookedStep DEF Next, Handle

LEMMA CalmInvariant == ASSUME OneThread PROVE Spec => [](TypeOK /\ CalmReads)
<1>1. Init => TypeOK /\ CalmReads
  <2>1. Init => CalmReads
    BY FS_EmptySet DEF Init, CalmReads, ReadsHold
  <2> QED
    BY <2>1, InitTyped
<1>2. TypeOK /\ CalmReads /\ [Next]_vars => (TypeOK /\ CalmReads)'
  BY NextTyped, CalmReadsStep
<1> QED
  BY <1>1, <1>2, PTL DEF Spec

(* A row that appears in this step claims time that was free before it. *)
TakenStep ==
  \A i \in DOMAIN appointments' \ DOMAIN appointments :
    LET a == appointments'[i]
    IN \A m \in Span(a) :
         /\ \E w \in availability :
              /\ w.provider = a.provider /\ w.dow = Weekday[Day[a.date]]
              /\ w.start <= m /\ m < w.end
         /\ a.date \in Padded =>
              /\ \A b \in blocked :
                   b.provider = a.provider /\ Day[b.date] = Day[a.date] =>
                     ~(BlockRange(b).start <= m /\ m < BlockRange(b).end)
              /\ \A j \in Confirmed \intersect Written :
                   (/\ appointments[j].provider = a.provider
                    /\ Day[appointments[j].date] = Day[a.date])
                     => m \notin Span(appointments[j])

(* Of what is padded, the rows of a text are those of its day; and blocks  *)
(* are always padded.                                                      *)
LEMMA SameDaySameText ==
  ASSUME TypeOK, NEW d \in Padded
  PROVE  /\ \A b \in blocked : Day[b.date] = Day[d] => b.date = d
         /\ \A j \in Written : Day[appointments[j].date] = Day[d] => appointments[j].date = d
BY DEF TypeOK, Padded, Written

LEMMA TakenIsFree ==
  ASSUME OneThread, TypeOK, CalmReads, Next
  PROVE  TakenStep
<1>1. SUFFICES ASSUME NEW i \in DOMAIN appointments' \ DOMAIN appointments,
                      NEW a, a = appointments'[i], NEW m \in Span(a)
               PROVE  /\ \E w \in availability :
                           /\ w.provider = a.provider /\ w.dow = Weekday[Day[a.date]]
                           /\ w.start <= m /\ m < w.end
                      /\ a.date \in Padded =>
                           /\ \A b \in blocked :
                                b.provider = a.provider /\ Day[b.date] = Day[a.date] =>
                                  ~(BlockRange(b).start <= m /\ m < BlockRange(b).end)
                           /\ \A j \in Confirmed \intersect Written :
                                (/\ appointments[j].provider = a.provider
                                 /\ Day[appointments[j].date] = Day[a.date])
                                  => m \notin Span(appointments[j])
  BY DEF TakenStep
<1>2. PICK t \in Threads : InsertAppointment(t) /\ appointments' # appointments
  BY OnlyTwoWriters, UpdateEffect
<1>3. PICK r : r = req[t]
  OBVIOUS
<1>4. FreeFor(r)
  BY <1>2, <1>3 DEF InsertAppointment, CalmReads, ReadsHold
<1>5. a = NewRow(r)
  BY <1>1, <1>2, <1>3, InsertEffect
<1>6. a.provider = r.provider /\ a.date = r.date /\ Span(a) = Span(r.ask)
  BY <1>5 DEF NewRow, Span
<1> QED
  BY <1>1, <1>4, <1>6, SameDaySameText DEF FreeFor

(* Served one request at a time, an appointment is only ever made within   *)
(* the provider's hours, and one whose date is padded only in time that is *)
(* free as the tables stand: in no block and in no other such appointment, *)
(* for any weekly hours, blocks, grids, lengths and spellings of the rest  *)
(* (calendar_logic.py:60-82, 149-179; appointment_routes.py:28-52).        *)
THEOREM OnlyFreeTimeIsTaken ==
  ASSUME OneThread PROVE Spec => TakenTimeWasFree
<1>1. TypeOK /\ CalmReads /\ [Next]_vars => [TakenStep]_vars
  BY TakenIsFree
<1> QED
  BY <1>1, CalmInvariant, PTL DEF Spec, TakenTimeWasFree, TakenStep

-----------------------------------------------------------------------------
(* The appointments keep the promise of Diary.                             *)

(* The entry an appointment is in the diary. *)
Entry(i, row) ==
  [id |-> i, provider |-> row.provider, day |-> Day[row.date], minutes |-> Span(row)]

(* The time a request asks for clashes with no entry of the diary. *)
NoClash(r) ==
  \A j \in Confirmed \intersect Written :
    ~PromisedDiary!Clash(Entry(NewId, NewRow(r)), Entry(j, appointments[j]))

(* Taking a padded row in is one Take of the diary, and another is none. *)
LEMMA InsertIsTake ==
  ASSUME TypeOK, NEW t \in Threads, InsertAppointment(t), appointments' # appointments,
         req[t].date \in Padded => NoClash(req[t])
  PROVE  PromisedDiary!Next \/ UNCHANGED <<Ledger, Written>>
<1>1. PICK new, r : new = Len(appointments) + 1 /\ r = req[t]
  OBVIOUS
<1>2. /\ DOMAIN appointments' = DOMAIN appointments \union {new}
      /\ \A i \in DOMAIN appointments : appointments'[i] = appointments[i]
      /\ appointments'[new] = NewRow(r)
      /\ appointments' = Append(appointments, NewRow(r))
  BY <1>1, InsertEffect
<1>3. appointments \in Seq(Row) /\ Len(appointments) \in Nat /\ DOMAIN appointments = 1 .. Len(appointments)
  BY DEF TypeOK
<1>4. new \notin DOMAIN appointments
  BY <1>1, <1>3
<1>5. /\ Confirmed' = Confirmed \union {new}
      /\ Written' = IF r.date \in Padded THEN Written \union {new} ELSE Written
  BY <1>2, <1>4 DEF Confirmed, Written, NewRow
<1>6. CASE r.date \in Padded
  <2>1. PICK e : e = Entry(new, NewRow(r))
    OBVIOUS
  <2>2. /\ Written' = Written \union {new}
        /\ (Confirmed \intersect Written)' = (Confirmed \intersect Written) \union {new}
    BY <1>5, <1>6
  <2>3. Ledger' = Ledger \union {e}
    BY <1>2, <1>4, <2>1, <2>2 DEF Ledger, Confirmed, Entry
  <2>4. \A f \in Ledger : ~PromisedDiary!Clash(e, f)
    BY <1>1, <1>6, <2>1 DEF NoClash, Ledger, Entry, NewId
  <2>5. e.id = new /\ new \notin Written
    BY <1>4, <2>1 DEF Entry, Written
  <2>6. PromisedDiary!Take(e)
    BY <2>2, <2>3, <2>4, <2>5 DEF PromisedDiary!Take
  <2> QED
    BY <2>3, <2>6 DEF PromisedDiary!Next
<1>7. CASE r.date \notin Padded
  <2>1. Written' = Written /\ (Confirmed \intersect Written)' = Confirmed \intersect Written
    BY <1>4, <1>5, <1>7 DEF Written
  <2> QED
    BY <1>2, <2>1 DEF Ledger, Confirmed
<1> QED
  BY <1>6, <1>7

(* Ending an appointment gives up its entry, if it still has one. *)
LEMMA UpdateIsGiveUp ==
  ASSUME TypeOK, NEW t \in Threads, UpdateStatus(t)
  PROVE  PromisedDiary!Next \/ UNCHANGED <<Ledger, Written>>
<1>1. PICK i, new : i = req[t].appt /\ new = NewStatus(req[t].op)
  OBVIOUS
<1>2. /\ i \in DOMAIN appointments /\ DOMAIN appointments' = DOMAIN appointments
      /\ \A j \in DOMAIN appointments : j # i => appointments'[j] = appointments[j]
      /\ appointments'[i] = [appointments[i] EXCEPT !.status = new]
      /\ new # "confirmed"
  BY <1>1, UpdateEffect
<1>3. \A j \in DOMAIN appointments : appointments[j] \in Row
  BY DEF TypeOK
<1>4. appointments'[i].status = new
  BY <1>2, <1>3 DEF Row
<1>5. Confirmed' = Confirmed \ {i}
  BY <1>2, <1>4 DEF Confirmed
<1>6. Written' = Written
  BY <1>2, <1>3 DEF Written, Row
<1>7. Ledger' = {Entry(j, appointments[j]) : j \in (Confirmed \intersect Written) \ {i}}
  BY <1>2, <1>5, <1>6 DEF Ledger, Entry, Confirmed
<1>8. Ledger = {Entry(j, appointments[j]) : j \in Confirmed \intersect Written}
  BY DEF Ledger, Entry
<1>9. CASE i \in Confirmed \intersect Written
  <2>1. PICK e : e = Entry(i, appointments[i])
    OBVIOUS
  <2>2. \A j : Entry(j, appointments[j]).id = j
    BY DEF Entry
  <2>3. e \in Ledger /\ Ledger' = Ledger \ {e}
    BY <1>7, <1>8, <1>9, <2>1, <2>2
  <2>4. PromisedDiary!GiveUp(e)
    BY <1>6, <2>3 DEF PromisedDiary!GiveUp
  <2> QED
    BY <2>3, <2>4 DEF PromisedDiary!Next
<1>10. CASE i \notin Confirmed \intersect Written
  <2>1. (Confirmed \intersect Written) \ {i} = Confirmed \intersect Written
    BY <1>10
  <2> QED
    BY <1>6, <1>7, <1>8, <2>1
<1> QED
  BY <1>9, <1>10

(* A step that leaves the table alone leaves the diary alone. *)
LEMMA DiaryStep ==
  ASSUME TypeOK, [Next]_vars,
         \A t \in Threads :
           pc[t] = "insert" /\ ~SlotTaken(req[t]) /\ req[t].date \in Padded => NoClash(req[t])
  PROVE  [PromisedDiary!Next]_<<Ledger, Written>>
<1>1. CASE UNCHANGED appointments
  BY <1>1 DEF Ledger, Confirmed, Written
<1>2. ASSUME NEW t \in Threads, InsertAppointment(t), appointments' # appointments
      PROVE  PromisedDiary!Next \/ UNCHANGED <<Ledger, Written>>
  <2>1. pc[t] = "insert" /\ ~SlotTaken(req[t])
    BY <1>2, InsertEffect DEF InsertAppointment
  <2> QED
    BY <1>2, <2>1, InsertIsTake
<1> QED
  BY <1>1, <1>2, OnlyTwoWriters, UpdateIsGiveUp DEF vars

LEMMA DiaryInit == Init => PromisedDiary!Init
  BY DEF Init, PromisedDiary!Init, Ledger, Confirmed, Written

(* Time that is free cannot clash. *)
LEMMA FreeIsNoClash ==
  ASSUME TypeOK, NEW r \in Requests, r.op = "book", r.date \in Padded, FreeFor(r)
  PROVE  NoClash(r)
<1>1. SUFFICES ASSUME NEW j \in Confirmed \intersect Written,
                      PromisedDiary!Clash(Entry(NewId, NewRow(r)), Entry(j, appointments[j]))
               PROVE  FALSE
  BY DEF NoClash
<1>2. /\ r.provider = appointments[j].provider
      /\ Day[r.date] = Day[appointments[j].date]
      /\ Span(NewRow(r)) \intersect Span(appointments[j]) # {}
  BY <1>1 DEF PromisedDiary!Clash, Entry, NewRow
<1>3. Span(NewRow(r)) = Span(r.ask)
  BY DEF NewRow, Span
<1>4. appointments[j].date = r.date
  BY <1>2, SameDaySameText
<1> QED
  BY <1>2, <1>3, <1>4 DEF FreeFor

(* Served one request at a time, the platform keeps a diary of what is     *)
(* booked under padded dates: an entry is taken only beside the others,    *)
(* given up for good, and never numbered twice, whatever the hours,        *)
(* blocks, grids and lengths, whatever is booked under other spellings,    *)
(* and wherever the process is killed (appointment_routes.py:28-52,        *)
(* calendar_logic.py:60-82).                                               *)
THEOREM OneThreadKeepsADiary ==
  ASSUME OneThread PROVE Spec => KeepsADiary
<1>1. TypeOK /\ CalmReads /\ [Next]_vars => [PromisedDiary!Next]_<<Ledger, Written>>
  <2> SUFFICES ASSUME TypeOK, CalmReads, [Next]_vars
               PROVE  [PromisedDiary!Next]_<<Ledger, Written>>
    OBVIOUS
  <2>1. ASSUME NEW t \in Threads, pc[t] = "insert", req[t].date \in Padded
        PROVE  NoClash(req[t])
    <3>1. req[t] \in Requests /\ req[t].op = "book"
      BY <2>1 DEF TypeOK, LocalsOK, BookLabels
    <3>2. FreeFor(req[t])
      BY <2>1 DEF CalmReads, ReadsHold
    <3> QED
      BY <2>1, <3>1, <3>2, FreeIsNoClash
  <2> QED
    BY <2>1, DiaryStep
<1> QED
  BY <1>1, CalmInvariant, DiaryInit, PTL DEF Spec, KeepsADiary, PromisedDiary!Spec

(* Requests on a grid: two lengths of time that overlap start together. *)
OnAGrid ==
  \A a, b \in Asks : Span(a) \intersect Span(b) # {} => a.start = b.start

(* What is asked for, and so what is in the table, is one of the Asks. *)
FromAsks ==
  /\ \A t \in Threads : pc[t] \in BookLabels => req[t].ask \in Asks
  /\ \A i \in DOMAIN appointments :
       [start |-> appointments[i].start, end |-> appointments[i].end] \in Asks

(* A request that is taken up asks for one of the Asks. *)
LEMMA ArriveFromAsks ==
  ASSUME TypeOK, FromAsks, NEW t \in Threads, Arrive(t)
  PROVE  FromAsks'
<1>1. ASSUME NEW u \in Users, NEW p \in Users, NEW d \in Dates, NEW ask \in Asks,
             StartBook(t, u, p, d, ask)
      PROVE  FromAsks'
  <2>1. /\ req'[t].ask = ask /\ appointments' = appointments
        /\ \A s \in Threads : s # t => req'[s] = req[s] /\ pc'[s] = pc[s]
    BY <1>1 DEF StartBook, Receive, Goto, tables, TypeOK
  <2> QED
    BY <2>1 DEF FromAsks
<1>2. ASSUME NEW u \in Users, NEW op \in {"cancel", "complete"},
             NEW i \in DOMAIN appointments, StartChange(t, u, op, i)
      PROVE  FromAsks'
  <2>1. /\ pc'[t] = "load" /\ appointments' = appointments
        /\ \A s \in Threads : s # t => req'[s] = req[s] /\ pc'[s] = pc[s]
    BY <1>2 DEF StartChange, Receive, Goto, tables, TypeOK
  <2> QED
    BY <2>1 DEF FromAsks, BookLabels
<1> QED
  BY <1>1, <1>2 DEF Arrive

LEMMA FromAsksStep ==
  ASSUME TypeOK, FromAsks, [Next]_vars
  PROVE  FromAsks'
<1>1. ASSUME NEW t \in Threads, Handle(t)
      PROVE  \A s \in Threads : pc'[s] \in BookLabels => req'[s].ask \in Asks
  <2>1. ASSUME NEW s \in Threads, s # t PROVE req'[s] = req[s] /\ pc'[s] = pc[s]
    BY <1>1, <2>1 DEF Handle, CheckProvider, ReadWindows, ReadBlocks, ReadBooked,
                      InsertAppointment, LoadForChange, UpdateStatus, SendMail, Respond, Goto,
                      locals, TypeOK
  <2>2. pc'[t] \in BookLabels => req'[t] = req[t] /\ pc[t] \in BookLabels
    BY <1>1 DEF Handle, CheckProvider, ReadWindows, ReadBlocks, ReadBooked, InsertAppointment,
                LoadForChange, UpdateStatus, SendMail, Respond, Goto, locals, TypeOK, BookLabels
  <2> QED
    BY <2>1, <2>2 DEF FromAsks
<1>2. ASSUME NEW t \in Threads, InsertAppointment(t), appointments' # appointments
      PROVE  \A i \in DOMAIN appointments' :
               [start |-> appointments'[i].start, end |-> appointments'[i].end] \in Asks
  <2>1. PICK new, r : new = Len(appointments) + 1 /\ r = req[t]
    OBVIOUS
  <2>2. /\ DOMAIN appointments' = DOMAIN appointments \union {new}
        /\ \A i \in DOMAIN appointments : appointments'[i] = appointments[i]
        /\ appointments'[new] = NewRow(r)
    BY <1>2, <2>1, InsertEffect
  <2>3. r \in Requests /\ r.op = "book" /\ r.ask \in Asks
    BY <1>2, <2>1 DEF InsertAppointment, FromAsks, BookLabels, TypeOK, LocalsOK
  <2>4. r.ask = [start |-> r.ask.start, end |-> r.ask.end]
    BY <2>3, AppointmentsAssumption DEF Intervals
  <2> QED
    BY <2>2, <2>3, <2>4 DEF FromAsks, NewRow
<1>3. ASSUME NEW t \in Threads, UpdateStatus(t)
      PROVE  \A i \in DOMAIN appointments' :
               [start |-> appointments'[i].start, end |-> appointments'[i].end] \in Asks
  BY <1>3, UpdateEffect, UpdateMovesNothing DEF FromAsks
<1>4. \A i \in DOMAIN appointments' :
        [start |-> appointments'[i].start, end |-> appointments'[i].end] \in Asks
  BY <1>2, <1>3, OnlyTwoWriters DEF FromAsks, vars
<1>5. CASE UNCHANGED <<pc, req>>
  BY <1>4, <1>5 DEF FromAsks
<1>6. CASE Restart
  BY <1>4, <1>6 DEF FromAsks, Restart, BookLabels
<1>7. ASSUME NEW t \in Threads, Settings(t) PROVE UNCHANGED <<pc, req>>
  BY <1>7 DEF Settings, AddWindow, DeleteWindow, AddBlock, DeleteBlock, SetActive, SetRole, locals
<1> QED
  BY <1>1, <1>4, <1>5, <1>6, <1>7, ArriveFromAsks DEF Next, vars, FromAsks

LEMMA FromAsksInvariant == Spec => [](TypeOK /\ FromAsks)
<1>1. Init => TypeOK /\ FromAsks
  BY InitTyped DEF Init, FromAsks, BookLabels
<1>2. TypeOK /\ FromAsks /\ [Next]_vars => (TypeOK /\ FromAsks)'
  BY NextTyped, FromAsksStep
<1> QED
  BY <1>1, <1>2, PTL DEF Spec

(* Where every request is one slot of one grid the unique index is enough: *)
(* the platform keeps a diary of what is booked under padded dates with    *)
(* any number of threads, in every interleaving of their statements        *)
(* (database.py:228-236).  Without the grid it does not (run               *)
(* appointments_overlap).                                                  *)
THEOREM OneGridKeepsADiary ==
  ASSUME OnAGrid PROVE Spec => KeepsADiary
<1>1. TypeOK /\ FromAsks /\ [Next]_vars => [PromisedDiary!Next]_<<Ledger, Written>>
  <2> SUFFICES ASSUME TypeOK, FromAsks, [Next]_vars
               PROVE  [PromisedDiary!Next]_<<Ledger, Written>>
    OBVIOUS
  <2>1. ASSUME NEW t \in Threads, pc[t] = "insert", ~SlotTaken(req[t]), req[t].date \in Padded
        PROVE  NoClash(req[t])
    <3>1. PICK r : r = req[t]
      OBVIOUS
    <3>2. r.ask \in Asks /\ r.date \in Padded
      BY <2>1, <3>1 DEF FromAsks, BookLabels
    <3>3. ASSUME NEW j \in Confirmed \intersect Written,
                 PromisedDiary!Clash(Entry(NewId, NewRow(r)), Entry(j, appointments[j]))
          PROVE  FALSE
      <4>1. PICK b : b = [start |-> appointments[j].start, end |-> appointments[j].end]
        OBVIOUS
      <4>2. b \in Asks
        BY <4>1 DEF FromAsks, Confirmed
      <4>3. /\ r.provider = appointments[j].provider
            /\ Day[r.date] = Day[appointments[j].date]
            /\ Span(NewRow(r)) \intersect Span(appointments[j]) # {}
        BY <3>3 DEF PromisedDiary!Clash, Entry, NewRow
      <4>4. Span(NewRow(r)) = Span(r.ask) /\ Span(appointments[j]) = Span(b)
        BY <4>1 DEF NewRow, Span
      <4>5. r.ask.start = appointments[j].start
        BY <3>2, <4>1, <4>2, <4>3, <4>4 DEF OnAGrid
      <4>6. appointments[j].date = r.date
        BY <3>2, <4>3, SameDaySameText
      <4> QED
        BY <2>1, <3>1, <4>3, <4>5, <4>6 DEF SlotTaken
    <3> QED
      BY <3>1, <3>3 DEF NoClash
  <2> QED
    BY <2>1, DiaryStep
<1> QED
  BY <1>1, FromAsksInvariant, DiaryInit, PTL DEF Spec, KeepsADiary, PromisedDiary!Spec

(* NoDoubleBooking, of the appointments whose date is padded. *)
WrittenOnce ==
  \A i, j \in Confirmed \intersect Written : Collide(i, j) => i = j

(* On one grid, then, no two confirmed appointments of a provider that are *)
(* written with padded dates ever share a minute (README "a unique DB      *)
(* constraint blocks race-condition double-bookings").                     *)
THEOREM OneGridBooksOnce ==
  ASSUME OnAGrid PROVE Spec => []WrittenOnce
<1>1. TypeOK /\ FromAsks /\ UniqueActiveSlot => WrittenOnce
  <2> SUFFICES ASSUME TypeOK, FromAsks, UniqueActiveSlot,
                      NEW i \in Confirmed \intersect Written,
                      NEW j \in Confirmed \intersect Written, Collide(i, j)
               PROVE  i = j
    BY DEF WrittenOnce
  <2>1. PICK a, b : /\ a = [start |-> appointments[i].start, end |-> appointments[i].end]
                    /\ b = [start |-> appointments[j].start, end |-> appointments[j].end]
    OBVIOUS
  <2>2. a \in Asks /\ b \in Asks
    BY <2>1 DEF FromAsks, Confirmed
  <2>3. Span(a) = Span(appointments[i]) /\ Span(b) = Span(appointments[j])
    BY <2>1 DEF Span
  <2>4. a.start = b.start
    BY <2>2, <2>3 DEF OnAGrid, Collide
  <2>5. appointments[j].date \in Padded
    BY DEF Written
  <2>6. appointments[i].date = appointments[j].date
    BY <2>5, SameDaySameText DEF Collide
  <2>7. SameSlot(i, j)
    BY <2>1, <2>4, <2>6 DEF SameSlot, Collide
  <2> QED
    BY <2>7 DEF UniqueActiveSlot
<1> QED
  BY <1>1, FromAsksInvariant, SlotsAreUnique, PTL

(* A booking in free time, and any change of status, collide with nothing. *)
LEMMA OnceStep ==
  ASSUME OneThread, TypeOK, CalmReads, WrittenOnce, [Next]_vars
  PROVE  WrittenOnce'
<1>1. CASE UNCHANGED appointments
  BY <1>1 DEF WrittenOnce, Confirmed, Collide, Written
<1>2. ASSUME NEW t \in Threads, InsertAppointment(t), appointments' # appointments
      PROVE  WrittenOnce'
  <2>1. PICK new, r : new = Len(appointments) + 1 /\ r = req[t]
    OBVIOUS
  <2>2. /\ DOMAIN appointments' = DOMAIN appointments \union {new}
        /\ \A i \in DOMAIN appointments : appointments'[i] = appointments[i]
        /\ appointments'[new] = NewRow(r)
    BY <1>2, <2>1, InsertEffect
  <2>3. new \notin DOMAIN appointments
    BY <2>1 DEF TypeOK
  <2>4. /\ (Confirmed \intersect Written)' \subseteq (Confirmed \intersect Written) \union {new}
        /\ new \in Written' => r.date \in Padded
    BY <2>2 DEF Confirmed, Written, NewRow
  <2>5. FreeFor(r)
    BY <1>2, <2>1 DEF InsertAppointment, CalmReads, ReadsHold
  <2>6. ASSUME r.date \in Padded, NEW j \in Confirmed \intersect Written,
               Collide(new, j)' \/ Collide(j, new)'
        PROVE  FALSE
    <3>1. j \in DOMAIN appointments /\ appointments'[j] = appointments[j]
      BY <2>2 DEF Confirmed
    <3>2. PICK row : row = NewRow(r)
      OBVIOUS
    <3>3. /\ row.provider = r.provider /\ row.date = r.date /\ Span(row) = Span(r.ask)
      BY <3>2 DEF NewRow, Span
    <3>4. /\ appointments[j].provider = r.provider
          /\ Day[appointments[j].date] = Day[r.date]
          /\ Span(appointments[j]) \intersect Span(r.ask) # {}
      BY <2>2, <2>6, <3>1, <3>2, <3>3 DEF Collide
    <3>5. appointments[j].date = r.date
      BY <2>6, <3>4, SameDaySameText
    <3> QED
      BY <2>5, <3>4, <3>5 DEF FreeFor
  <2>7. ASSUME NEW i \in Confirmed \intersect Written, NEW j \in Confirmed \intersect Written,
               Collide(i, j)'
        PROVE  i = j
    BY <2>2, <2>7 DEF WrittenOnce, Collide, Confirmed
  <2> QED
    BY <2>4, <2>6, <2>7 DEF WrittenOnce
<1>3. ASSUME NEW t \in Threads, UpdateStatus(t)
      PROVE  WrittenOnce'
  <2>1. DOMAIN appointments' = DOMAIN appointments
    BY <1>3, UpdateEffect
  <2>2. Confirmed' \subseteq Confirmed /\ Written' \subseteq Written
    BY <1>3, <2>1, UpdateMovesNothing DEF Confirmed, Written
  <2>3. ASSUME NEW i \in (Confirmed \intersect Written)', NEW j \in (Confirmed \intersect Written)',
               Collide(i, j)'
        PROVE  i = j
    <3>1. i \in Confirmed \intersect Written /\ j \in Confirmed \intersect Written
      BY <2>2
    <3>2. i \in DOMAIN appointments /\ j \in DOMAIN appointments
      BY <3>1 DEF Confirmed
    <3>3. Collide(i, j)
      <4>1. ASSUME NEW k \in {i, j}
            PROVE  /\ appointments'[k].provider = appointments[k].provider
                   /\ appointments'[k].date = appointments[k].date
                   /\ Span(appointments'[k]) = Span(appointments[k])
        BY <1>3, <3>2, UpdateMovesNothing DEF Span
      <4> QED
        BY <2>3, <4>1 DEF Collide
    <3> QED
      BY <3>1, <3>3 DEF WrittenOnce
  <2> QED
    BY <2>3 DEF WrittenOnce
<1> QED
  BY <1>1, <1>2, <1>3, OnlyTwoWriters DEF vars

(* Served one request at a time, no provider is ever in two places at one  *)
(* minute by appointments with padded dates, whatever the hours, grids and *)
(* lengths asked for and whatever is booked under other spellings          *)
(* (calendar_logic.py:60-82).                                              *)
THEOREM OneThreadBooksOnce ==
  ASSUME OneThread PROVE Spec => []WrittenOnce
<1>1. Init => WrittenOnce
  BY DEF Init, WrittenOnce, Confirmed, Written
<1>2. TypeOK /\ CalmReads /\ WrittenOnce /\ [Next]_vars => WrittenOnce'
  BY OnceStep
<1> QED
  BY <1>1, <1>2, CalmInvariant, PTL DEF Spec

=============================================================================
