--------------------------- MODULE OneUseLinkProofs ---------------------------
(* Served one request at a time, and never killed, CoffeeInvites implements *)
(* OneUseLink: for any hosts, guests, slots, calendars of cancellations and *)
(* days, and with the sweep taking its turn among the requests.             *)
EXTENDS CoffeeInvitesProofs, FiniteSetTheorems

Fates == [i \in DOMAIN invites |-> Fate(i)]
Uses == [i \in DOMAIN invites |-> Cardinality(MadeFrom(i))]

OneAtATime == (\A s, t \in Threads : s = t) /\ MaxRestarts = 0

(* What a handler found is still so when it writes. *)
Found(t) ==
  LET j == job[t]
  IN /\ j.pc = "create" => ~Duplicate(j.host, j.guest)
     /\ j.pc = "view" => invites[j.inv].status = "sent"
     /\ j.pc \in {"decline", "free", "guest", "addGuest", "insert", "link"} =>
          invites[j.inv].status \in Open
     /\ j.pc = "revoke" => invites[j.inv].status # "booked"

Linking(i) == \E t \in Threads : At(t, "link") /\ job[t].inv = i

Serial ==
  /\ \A t \in Threads : Found(t)
  /\ \A i \in DOMAIN invites : MadeFrom(i) # {} => invites[i].status = "booked" \/ Linking(i)
  /\ \A i \in DOMAIN invites : \A a, b \in MadeFrom(i) : a = b
  /\ OneOpenInvite

BookedStays ==
  \A i \in DOMAIN invites : invites[i].status = "booked" => invites'[i].status = "booked"

LinkStep == [Links!Next]_<<Fates, Uses>>

Fine == Serial' /\ BookedStays /\ LinkStep

-----------------------------------------------------------------------------
(* The kinds of step.                                                      *)

Frame ==
  /\ DOMAIN invites' = DOMAIN invites
  /\ \A i \in DOMAIN invites : invites'[i].host = invites[i].host /\ invites'[i].guest = invites[i].guest
  /\ DOMAIN appointments' = DOMAIN appointments /\ via' = via

(* No status changes, and whoever is about to link goes on to. *)
LEMMA Quiet ==
  ASSUME IInv, Serial, Frame,
         \A i \in DOMAIN invites : invites'[i].status = invites[i].status,
         \A t \in Threads : Found(t)',
         \A i \in DOMAIN invites : Linking(i) => Linking(i)'
  PROVE  Fine
<1>1. \A i : MadeFrom(i)' = MadeFrom(i)
  BY DEF Frame, MadeFrom
<1>2. Fates' = Fates /\ Uses' = Uses
  BY <1>1 DEF Frame, Fates, Uses, Fate
<1>3. Serial'
  BY <1>1 DEF Serial, Frame, OneOpenInvite
<1> QED
  BY <1>2, <1>3 DEF Fine, BookedStays, LinkStep

(* A status other than booked gives way to another. *)
LEMMA Restated ==
  ASSUME IInv, Serial, Frame, NEW i \in DOMAIN invites,
         NEW s \in {"viewed", "declined", "expired", "revoked"},
         invites'[i].status = s,
         \A k \in DOMAIN invites : k # i => invites'[k].status = invites[k].status,
         invites[i].status # "booked", ~Linking(i),
         s # "revoked" => invites[i].status \in Open,
         \A t \in Threads : Found(t)',
         \A k \in DOMAIN invites : Linking(k) => Linking(k)'
  PROVE  Fine
<1>1. \A k : MadeFrom(k)' = MadeFrom(k)
  BY DEF Frame, MadeFrom
<1>2. MadeFrom(i) = {}
  BY DEF Serial
<1>3. Uses' = Uses
  BY <1>1 DEF Frame, Uses
<1>4. Serial' /\ BookedStays
  BY <1>1, <1>2 DEF Serial, Frame, OneOpenInvite, BookedStays, Open
<1>5. invites[i].status \in Statuses
  BY RowsTyped DEF IInv, InviteRow
<1>6. CASE s = "viewed"
  <2>1. Fates' = Fates
    BY <1>1, <1>6 DEF Frame, Fates, Fate, Open
  <2> QED
    BY <1>3, <1>4, <2>1 DEF Fine, LinkStep
<1>7. CASE s # "viewed"
  <2>1. Fates' = [Fates EXCEPT ![i] = s]
    BY <1>1, <1>2, <1>7 DEF Frame, Fates, Fate, Open
  <2>2. CASE invites[i].status \in Open
    <3>1. Fates[i] = "open" /\ i \in DOMAIN Fates /\ s \in {"declined", "expired", "revoked"}
      BY <1>2, <1>7, <2>2 DEF Fates, Fate
    <3>2. Links!Close(i, s)
      BY <1>3, <2>1, <3>1 DEF Links!Close, Fates, Uses
    <3>3. Links!Next
      BY <3>1, <3>2 DEF Links!Next, Fates
    <3> QED
      BY <1>4, <3>3 DEF Fine, LinkStep
  <2>3. CASE invites[i].status \notin Open
    <3>1. Fates[i] \notin {"open", "booked"} /\ i \in DOMAIN Fates /\ s = "revoked"
      BY <1>2, <1>5, <2>3 DEF Fates, Fate, Statuses, Open
    <3>2. Links!Withdraw(i)
      BY <1>3, <2>1, <3>1 DEF Links!Withdraw, Fates, Uses
    <3>3. Links!Next
      BY <3>1, <3>2 DEF Links!Next, Fates
    <3> QED
      BY <1>4, <3>3 DEF Fine, LinkStep
  <2> QED
    BY <2>2, <2>3
<1> QED
  BY <1>6, <1>7

(* What the UPDATEs do to a row. *)
LEMMA StatusSet ==
  ASSUME IInv, NEW i \in DOMAIN invites, NEW s, SetStatus(i, s), UNCHANGED Calendar
  PROVE  /\ Frame /\ invites'[i].status = s
         /\ \A k \in DOMAIN invites : k # i => invites'[k] = invites[k]
<1>1. \A k \in DOMAIN invites : invites[k] \in InviteRow
  BY RowsTyped DEF IInv
<1> QED
  BY <1>1 DEF SetStatus, Frame, Calendar, InviteRow

LEMMA Recorded ==
  ASSUME IInv, NEW i \in DOMAIN invites, Record(i), UNCHANGED Calendar
  PROVE  /\ Frame /\ \A k \in DOMAIN invites : invites'[k].status = invites[k].status
<1>1. \A k \in DOMAIN invites : invites[k] \in InviteRow
  BY RowsTyped DEF IInv
<1> QED
  BY <1>1 DEF Record, Frame, Calendar, InviteRow

LEMMA NothingChanged ==
  ASSUME UNCHANGED <<invites, Calendar>>
  PROVE  Frame /\ \A k \in DOMAIN invites : invites'[k] = invites[k]
  BY DEF Frame, Calendar

LEMMA Issued ==
  ASSUME IInv, Serial, NEW row, row.status = "sent",
         invites' = Append(invites, row), UNCHANGED Calendar,
         \A i \in DOMAIN invites : ~(/\ invites[i].host = row.host /\ invites[i].guest = row.guest
                                     /\ invites[i].status \in Open),
         \A t \in Threads : Found(t)',
         \A k \in DOMAIN invites : Linking(k) => Linking(k)'
  PROVE  Fine
<1> DEFINE n == Len(invites)
<1>1. /\ n \in Nat /\ DOMAIN invites = 1 .. n
      /\ DOMAIN invites' = 1 .. n + 1 /\ invites'[n + 1] = row
      /\ \A k \in 1 .. n : invites'[k] = invites[k]
  BY AppendProperties, LenProperties DEF IInv, Tables
<1>2. \A k : MadeFrom(k)' = MadeFrom(k)
  BY DEF Calendar, MadeFrom
<1>3. MadeFrom(n + 1) = {}
  BY <1>1 DEF IInv, Tables, MadeFrom
<1>4. \A k \in 1 .. n + 1 : MadeFrom(k)' = MadeFrom(k) /\ (k = n + 1 => MadeFrom(k) = {})
  BY <1>2, <1>3
<1> HIDE DEF n
<1>5. Serial'
  <2>1. OneOpenInvite'
    BY <1>1 DEF Serial, OneOpenInvite
  <2>2. \A k \in 1 .. n + 1 : /\ MadeFrom(k)' # {} => invites'[k].status = "booked" \/ Linking(k)'
                              /\ \A a, b \in MadeFrom(k)' : a = b
    BY <1>1, <1>4 DEF Serial
  <2> QED
    BY <1>1, <2>1, <2>2 DEF Serial
<1>6. BookedStays
  BY <1>1 DEF BookedStays
<1>7. Links!Issue
  <2>1. \A k \in 1 .. n : Fate(k)' = Fate(k)
    BY <1>1, <1>4 DEF Fate
  <2>2. \A k \in 1 .. n + 1 : k = n + 1 => Fate(k)' = "open" /\ Cardinality(MadeFrom(k)') = 0
    BY <1>1, <1>4, FS_EmptySet DEF Fate, Open
  <2>3. /\ Fates \in Seq({Fate(k) : k \in 1 .. n} \union {"open"})
        /\ Uses \in Seq({Cardinality(MadeFrom(k)) : k \in 1 .. n} \union {0})
        /\ Len(Fates) = n /\ Len(Uses) = n
    <3>1. /\ Fates \in [1 .. n -> {Fate(k) : k \in 1 .. n} \union {"open"}]
          /\ Uses \in [1 .. n -> {Cardinality(MadeFrom(k)) : k \in 1 .. n} \union {0}]
      BY <1>1 DEF Fates, Uses
    <3>2. \A S, f : f \in [1 .. n -> S] => f \in Seq(S) /\ Len(f) = n
      BY <1>1, SeqDef, LenProperties
    <3> QED
      BY <3>1, <3>2
  <2> QED
    BY <1>1, <1>4, <2>1, <2>2, <2>3 DEF Links!Issue, Fates, Uses
<1> QED
  BY <1>5, <1>6, <1>7 DEF Fine, LinkStep, Links!Next

LEMMA Used ==
  ASSUME IInv, Serial, NEW i \in DOMAIN invites, NEW row, invites[i].status \in Open, ~Linking(i),
         appointments' = Append(appointments, row), via' = Append(via, i), UNCHANGED invites,
         \A t \in Threads : Found(t)', Linking(i)',
         \A k \in DOMAIN invites : Linking(k) => Linking(k)'
  PROVE  Fine
<1> DEFINE n == Len(appointments)
<1>1. /\ n \in Nat /\ DOMAIN appointments = 1 .. n /\ DOMAIN appointments' = 1 .. n + 1
      /\ via'[n + 1] = i /\ \A a \in 1 .. n : via'[a] = via[a]
  <2>1. n \in Nat /\ DOMAIN appointments = 1 .. n /\ DOMAIN appointments' = 1 .. n + 1
    BY AppendProperties, LenProperties DEF IInv, Tables
  <2>2. via \in [1 .. n -> DOMAIN invites]
    BY <2>1 DEF IInv, Tables
  <2>3. via \in Seq(DOMAIN invites) /\ Len(via) = n
    BY <2>1, <2>2, SeqDef, LenProperties
  <2> QED
    BY <2>1, <2>3, AppendProperties
<1> HIDE DEF n
<1>2. MadeFrom(i) = {}
  BY DEF Serial, Open
<1>3. /\ \A k : k # i => MadeFrom(k)' = MadeFrom(k)
      /\ MadeFrom(i)' = {n + 1}
  BY <1>1, <1>2 DEF MadeFrom
<1>4. Serial'
  BY <1>3 DEF Serial, OneOpenInvite
<1>5. Links!Use(i)
  <2>1. Fates[i] = "open" /\ Uses[i] = 0
    BY <1>2, FS_EmptySet DEF Fates, Uses, Fate
  <2>2. Fates' = [Fates EXCEPT ![i] = "booked"]
    BY <1>3 DEF Fates, Fate
  <2>3. Cardinality(MadeFrom(i)') = 1
    BY <1>3, FS_Singleton
  <2>4. Uses' = [Uses EXCEPT ![i] = @ + 1]
    <3>1. \A k \in DOMAIN invites : k # i => Cardinality(MadeFrom(k)') = Cardinality(MadeFrom(k))
      BY <1>3
    <3>2. Uses' = [k \in DOMAIN invites |-> Cardinality(MadeFrom(k)')]
      BY DEF Uses
    <3>3. PICK used : used = [k \in DOMAIN invites |-> Cardinality(MadeFrom(k)')]
      OBVIOUS
    <3>4. /\ DOMAIN used = DOMAIN invites /\ DOMAIN Uses = DOMAIN invites
          /\ \A k \in DOMAIN invites : used[k] = IF k = i THEN Uses[k] + 1 ELSE Uses[k]
      BY <2>1, <2>3, <3>1, <3>3 DEF Uses
    <3> QED
      BY <3>2, <3>3, <3>4
  <2> QED
    BY <2>1, <2>2, <2>4 DEF Links!Use, Fates, Uses
<1>6. Links!Next
  BY <1>5 DEF Links!Next, Fates
<1> QED
  BY <1>4, <1>6 DEF Fine, LinkStep, BookedStays

(* The booking is written down: by then the link is spent. *)
LEMMA Settled ==
  ASSUME IInv, Serial, NEW i \in DOMAIN invites, NEW a, Link(i, a), UNCHANGED Calendar,
         MadeFrom(i) # {},
         \A t \in Threads : Found(t)',
         \A k \in DOMAIN invites : k # i /\ Linking(k) => Linking(k)'
  PROVE  Fine
<1>1. \A k \in DOMAIN invites : invites[k] \in InviteRow
  BY RowsTyped DEF IInv
<1>2. /\ Frame /\ invites'[i].status = "booked"
      /\ \A k \in DOMAIN invites : k # i => invites'[k] = invites[k]
  BY <1>1 DEF Link, Frame, Calendar, InviteRow
<1>3. \A k : MadeFrom(k)' = MadeFrom(k)
  BY <1>2 DEF Frame, MadeFrom
<1>4. Fates' = Fates /\ Uses' = Uses
  BY <1>2, <1>3 DEF Frame, Fates, Uses, Fate
<1>5. Serial'
  BY <1>2, <1>3 DEF Serial, Frame, OneOpenInvite, Open
<1> QED
  BY <1>2, <1>4, <1>5 DEF Fine, BookedStays, LinkStep

-----------------------------------------------------------------------------
(* The steps of the one thread.                                            *)

(* Labels at which nothing read before is relied on. *)
Careful == {"create", "view", "decline", "free", "guest", "addGuest", "insert", "link", "revoke"}

(* The one thread moves to a label that relies on nothing. *)
LEMMA Free ==
  ASSUME OneAtATime, NEW t \in Threads, job[t].pc # "link", job'[t].pc \notin Careful
  PROVE  (\A s \in Threads : Found(s)') /\ \A i : ~Linking(i)
  BY DEF OneAtATime, Found, Careful, Linking, At

(* A step that writes no status and does so. *)
LEMMA Harmless ==
  ASSUME OneAtATime, IInv, Serial, NEW t \in Threads, job[t].pc # "link", job'[t].pc \notin Careful,
         UNCHANGED <<invites, Calendar>>
  PROVE  Fine
  BY Free, Quiet, NothingChanged

(* A step that writes no status and goes on to a label that relies on what *)
(* was just read. *)
LEMMA Checked ==
  ASSUME OneAtATime, IInv, Serial, NEW t \in Threads, job[t].pc # "link", Found(t)',
         UNCHANGED <<invites, Calendar>>
  PROVE  Fine
<1>1. (\A s \in Threads : Found(s)') /\ \A i : ~Linking(i)
  BY DEF OneAtATime, Linking, At
<1> QED
  BY <1>1, Quiet, NothingChanged

LEMMA Closed ==
  ASSUME OneAtATime, IInv, Serial, NEW t \in Threads, job[t].pc # "link", job'[t].pc \notin Careful,
         NEW i \in DOMAIN invites, NEW s \in {"viewed", "declined", "expired", "revoked"},
         SetStatus(i, s), UNCHANGED Calendar, invites[i].status # "booked",
         s # "revoked" => invites[i].status \in Open
  PROVE  Fine
<1>1. /\ Frame /\ invites'[i].status = s
      /\ \A k \in DOMAIN invites : k # i => invites'[k] = invites[k]
  BY StatusSet
<1>2. (\A u \in Threads : Found(u)') /\ \A k : ~Linking(k)
  BY Free
<1> QED
  BY <1>1, <1>2, Restated

(* Where Goto, Respond and Begin lead. *)
LEMMA Leads ==
  ASSUME IInv, NEW t \in Threads
  PROVE  /\ Respond(t) => job'[t].pc = "idle"
         /\ \A label \in Labels : Goto(t, label) =>
              /\ job'[t].pc = label /\ job'[t].inv = job[t].inv
              /\ job'[t].host = job[t].host /\ job'[t].guest = job[t].guest
         /\ \A fields : Begin(t, fields) => job'[t] = fields /\ job[t].pc = "idle"
<1>1. job \in [Threads -> Job]
  BY DEF IInv, Threaded
<1> QED
  BY <1>1, Advanced DEF Respond, Idle, Begin, At

LEMMA ArriveFine ==
  ASSUME OneAtATime, IInv, Serial, NEW t \in Threads, Arrive(t) PROVE Fine
<1>1. ASSUME NEW fields, Begin(t, fields), fields.pc \notin Careful, UNCHANGED <<invites, Calendar>>
      PROVE  Fine
  BY <1>1, Leads, Harmless
<1>2. \A label, i : [Idle EXCEPT !.pc = label, !.inv = i].pc = label
  BY DEF Idle
<1>3. ASSUME NEW h, NEW g, StartCreate(t, h, g) PROVE Fine
  <2>1. PICK fields : fields = [Idle EXCEPT !.pc = "dup", !.host = h, !.guest = g]
    OBVIOUS
  <2>2. fields.pc = "dup"
    BY <2>1 DEF Idle
  <2> QED
    BY <1>1, <1>3, <2>1, <2>2 DEF StartCreate, Careful
<1>4. ASSUME NEW i, StartNudge(t, i) \/ StartRevoke(t, i) \/ StartView(t, i) \/ StartDecline(t, i)
      PROVE  Fine
  BY <1>1, <1>2, <1>4 DEF StartNudge, StartRevoke, StartView, StartDecline, Careful
<1>5. ASSUME NEW i, NEW slot, StartBook(t, i, slot) PROVE Fine
  <2>1. PICK fields : fields = [Idle EXCEPT !.pc = "checkBook", !.inv = i, !.slot = slot]
    OBVIOUS
  <2>2. fields.pc = "checkBook"
    BY <2>1 DEF Idle
  <2> QED
    BY <1>1, <1>5, <2>1, <2>2 DEF StartBook, Careful
<1> QED
  BY <1>3, <1>4, <1>5 DEF Arrive

LEMMA CreateFine ==
  ASSUME OneAtATime, IInv, Serial, NEW t \in Threads, CheckDuplicate(t) \/ InsertInvite(t)
  PROVE  Fine
<1>1. CASE CheckDuplicate(t)
  <2>1. job[t].pc = "dup" /\ UNCHANGED <<invites, Calendar>>
    BY <1>1 DEF CheckDuplicate, At
  <2>2. CASE Duplicate(job[t].host, job[t].guest)
    BY <1>1, <2>1, <2>2, Leads, Harmless DEF CheckDuplicate, Careful
  <2>3. CASE ~Duplicate(job[t].host, job[t].guest)
    <3>1. job'[t].pc = "create" /\ job'[t].host = job[t].host /\ job'[t].guest = job[t].guest
      BY <1>1, <2>3, Leads DEF CheckDuplicate, Labels
    <3>2. Found(t)'
      BY <2>1, <2>3, <3>1 DEF Found, Duplicate
    <3> QED
      BY <2>1, <3>2, Checked
  <2> QED
    BY <2>2, <2>3
<1>2. CASE InsertInvite(t)
  <2>1. /\ job[t].pc = "create" /\ job'[t].pc = "ask"
        /\ ~Duplicate(job[t].host, job[t].guest)
    <3>1. job \in [Threads -> Job]
      BY DEF IInv, Threaded
    <3> QED
      BY <1>2, <3>1 DEF InsertInvite, At, Serial, Found, Job
  <2>2. (\A s \in Threads : Found(s)') /\ \A k : ~Linking(k)
    BY <2>1, Free DEF Careful
  <2>3. PICK row : /\ row.status = "sent" /\ row.host = job[t].host /\ row.guest = job[t].guest
                   /\ invites' = Append(invites, row)
    BY <1>2 DEF InsertInvite
  <2>4. UNCHANGED Calendar
    BY <1>2 DEF InsertInvite
  <2>5. \A i \in DOMAIN invites : ~(/\ invites[i].host = row.host /\ invites[i].guest = row.guest
                                    /\ invites[i].status \in Open)
    BY <2>1, <2>3 DEF Duplicate
  <2> QED
    BY <2>2, <2>3, <2>4, <2>5, Issued
<1> QED
  BY <1>1, <1>2

LEMMA AnswerFine ==
  ASSUME OneAtATime, IInv, Serial, NEW t \in Threads,
         \/ SendInvite(t) \/ CheckNudge(t) \/ SendNudge(t) \/ RecordNudge(t)
         \/ CheckRevoke(t) \/ UpdateRevoked(t) \/ CheckView(t) \/ UpdateViewed(t)
         \/ CheckDecline(t) \/ UpdateDeclined(t) \/ NotifyDeclined(t)
  PROVE  Fine
<1> DEFINE i == job[t].inv
<1>a. Found(t) /\ (job[t].pc \notin {"idle"} \union Creating \union Listing => i \in DOMAIN invites)
  BY Holding DEF Serial
<1>1. CASE SendInvite(t) \/ CheckNudge(t) \/ SendNudge(t) \/ NotifyDeclined(t)
  <2>1. job[t].pc # "link" /\ UNCHANGED <<invites, Calendar>>
    BY <1>1 DEF SendInvite, CheckNudge, SendNudge, NotifyDeclined, At
  <2>2. job'[t].pc \in {"idle", "nudge", "recordNudge"}
    BY <1>1, Leads DEF SendInvite, CheckNudge, SendNudge, NotifyDeclined, Labels
  <2> QED
    BY <2>1, <2>2, Harmless DEF Careful
<1>2. CASE RecordNudge(t)
  <2>1. job[t].pc = "recordNudge" /\ job'[t].pc = "idle" /\ i \in DOMAIN invites
    BY <1>2, <1>a, Leads DEF RecordNudge, At, Creating, Listing
  <2>2. Frame /\ \A k \in DOMAIN invites : invites'[k].status = invites[k].status
    BY <1>2, <2>1, Recorded DEF RecordNudge
  <2> QED
    BY <2>1, <2>2, Free, Quiet DEF Careful
<1>3. CASE CheckRevoke(t) \/ CheckView(t) \/ CheckDecline(t)
  <2>1. /\ job[t].pc \in {"checkRevoke", "checkView", "checkDecline"}
        /\ UNCHANGED <<invites, Calendar>>
    BY <1>3 DEF CheckRevoke, CheckView, CheckDecline, At
  <2>2. CASE Respond(t)
    BY <2>1, <2>2, Leads, Harmless DEF Careful
  <2>3. CASE ~Respond(t)
    <3>1. \/ job'[t].pc = "revoke" /\ invites[i].status # "booked"
          \/ job'[t].pc = "view" /\ invites[i].status = "sent"
          \/ job'[t].pc = "decline" /\ invites[i].status \in Open
      BY <1>3, <2>3, Leads DEF CheckRevoke, CheckView, CheckDecline, MayRevoke, IsOpen, Labels
    <3>2. job'[t].inv = i
      BY <1>3, <2>3, Leads DEF CheckRevoke, CheckView, CheckDecline, Labels
    <3>3. Found(t)'
      BY <2>1, <3>1, <3>2 DEF Found
    <3> QED
      BY <2>1, <3>3, Checked
  <2> QED
    BY <2>2, <2>3
<1>4. CASE UpdateRevoked(t)
  <2>1. /\ job[t].pc = "revoke" /\ job'[t].pc = "idle" /\ i \in DOMAIN invites
        /\ invites[i].status # "booked"
    BY <1>4, <1>a, Leads DEF UpdateRevoked, At, Creating, Listing, Found
  <2> QED
    BY <1>4, <2>1, Closed DEF UpdateRevoked, Careful
<1>5. CASE UpdateViewed(t)
  <2>1. /\ job[t].pc = "view" /\ job'[t].pc = "idle" /\ i \in DOMAIN invites
        /\ invites[i].status = "sent"
    BY <1>5, <1>a, Leads DEF UpdateViewed, At, Creating, Listing, Found
  <2> QED
    BY <1>5, <2>1, Closed DEF UpdateViewed, Careful, Open
<1>6. CASE UpdateDeclined(t)
  <2>1. /\ job[t].pc = "decline" /\ job'[t].pc = "tellDeclined" /\ i \in DOMAIN invites
        /\ invites[i].status \in Open
    BY <1>6, <1>a, Leads DEF UpdateDeclined, At, Creating, Listing, Found, Labels
  <2> QED
    BY <1>6, <2>1, Closed DEF UpdateDeclined, Careful, Open
<1> QED
  BY <1>1, <1>2, <1>3, <1>4, <1>5, <1>6

(* expire(), by a guest or by the sweep. *)
LEMMA ExpireFine ==
  ASSUME OneAtATime, IInv, Serial, NEW t \in Threads, NEW i \in DOMAIN invites, Expire(i),
         job[t].pc # "link", job'[t].pc \notin Careful, UNCHANGED Calendar
  PROVE  Fine
<1>1. CASE invites[i].status \in Open
  BY <1>1, Closed DEF Expire, Open
<1>2. CASE invites[i].status \notin Open
  BY <1>2, Harmless DEF Expire
<1> QED
  BY <1>1, <1>2

LEMMA BookFine ==
  ASSUME OneAtATime, IInv, Serial, NEW t \in Threads,
         \/ CheckBook(t) \/ ExpireOnBook(t) \/ CheckSlot(t) \/ FindGuest(t) \/ AddGuest(t)
         \/ NotifyGuest(t) \/ NotifyHost(t)
  PROVE  Fine
<1> DEFINE i == job[t].inv
<1>a. Found(t) /\ (job[t].pc \notin {"idle"} \union Creating \union Listing => i \in DOMAIN invites)
  BY Holding DEF Serial
<1>1. CASE CheckBook(t)
  <2>1. job[t].pc = "checkBook" /\ UNCHANGED <<invites, Calendar>>
    BY <1>1 DEF CheckBook, At
  <2>2. CASE Respond(t) \/ Goto(t, "expire")
    <3>1. job'[t].pc \in {"idle", "expire"}
      BY <2>2, Leads DEF Labels
    <3> QED
      BY <2>1, <3>1, Harmless DEF Careful
  <2>3. CASE StillOpen(i) /\ Goto(t, "free")
    <3>1. job'[t].pc = "free" /\ job'[t].inv = i
      BY <2>3, Leads DEF Labels
    <3>2. Found(t)'
      BY <2>1, <2>3, <3>1 DEF Found, StillOpen
    <3> QED
      BY <2>1, <3>2, Checked
  <2> QED
    BY <1>1, <2>2, <2>3 DEF CheckBook
<1>2. CASE ExpireOnBook(t)
  <2>1. job[t].pc = "expire" /\ job'[t].pc = "idle" /\ i \in DOMAIN invites
    BY <1>2, <1>a, Leads DEF ExpireOnBook, At, Creating, Listing
  <2> QED
    BY <1>2, <2>1, ExpireFine DEF ExpireOnBook, Careful
<1>3. CASE CheckSlot(t) \/ FindGuest(t)
  <2>1. job[t].pc \in {"free", "guest"} /\ UNCHANGED <<invites, Calendar>>
    BY <1>3 DEF CheckSlot, FindGuest, At
  <2>2. CASE Respond(t)
    BY <2>1, <2>2, Leads, Harmless DEF Careful
  <2>3. CASE ~Respond(t)
    <3>1. job'[t].pc \in {"guest", "insert", "addGuest"} /\ job'[t].inv = i
      BY <1>3, <2>3, Leads DEF CheckSlot, FindGuest, Labels
    <3>2. Found(t)'
      BY <1>a, <2>1, <3>1 DEF Found
    <3> QED
      BY <2>1, <3>2, Checked
  <2> QED
    BY <2>2, <2>3
<1>4. CASE AddGuest(t)
  <2>1. job[t].pc = "addGuest" /\ UNCHANGED <<invites, appointments, via>>
    BY <1>4 DEF AddGuest, At
  <2>2. \/ job'[t].pc = "idle"
        \/ job'[t].pc = "insert" /\ job'[t].inv = i
    BY <1>4, Leads DEF AddGuest, Labels
  <2>3. Found(t)'
    BY <1>a, <2>1, <2>2 DEF Found
  <2>4. (\A s \in Threads : Found(s)') /\ \A k : ~Linking(k)
    BY <2>1, <2>3 DEF OneAtATime, Linking, At
  <2> QED
    BY <2>1, <2>4, Quiet DEF Frame
<1>5. CASE NotifyGuest(t) \/ NotifyHost(t)
  <2>1. job[t].pc # "link" /\ UNCHANGED <<invites, Calendar>>
    BY <1>5 DEF NotifyGuest, NotifyHost, At
  <2>2. job'[t].pc \in {"idle", "tellHost"}
    BY <1>5, Leads DEF NotifyGuest, NotifyHost, Labels
  <2> QED
    BY <2>1, <2>2, Harmless DEF Careful
<1> QED
  BY <1>1, <1>2, <1>3, <1>4, <1>5

(* The two statements that spend the link. *)
LEMMA SpendFine ==
  ASSUME OneAtATime, IInv, Serial, NEW t \in Threads, InsertAppointment(t) \/ UpdateBooked(t)
  PROVE  Fine
<1>1. job \in [Threads -> Job] /\ Found(t)
  BY DEF IInv, Threaded, Serial
<1>2. PICK i : i = job[t].inv
  OBVIOUS
<1>3. CASE InsertAppointment(t)
  <2>1. job[t].pc = "insert" /\ UNCHANGED <<invites, users>>
    BY <1>3 DEF InsertAppointment, At
  <2>2. i \in DOMAIN invites /\ invites[i].status \in Open
    BY <1>1, <1>2, <2>1, Holding DEF Found, Creating, Listing
  <2>3. CASE Respond(t) /\ UNCHANGED <<appointments, via>>
    BY <2>1, <2>3, Leads, Harmless DEF Careful, Calendar
  <2>4. CASE ~(Respond(t) /\ UNCHANGED <<appointments, via>>)
    <3>1. PICK row : appointments' = Append(appointments, row)
      BY <1>3, <2>4 DEF InsertAppointment
    <3>2. via' = Append(via, i)
      BY <1>2, <1>3, <2>4 DEF InsertAppointment
    <3>3. job'[t].pc = "link" /\ job'[t].inv = i
      BY <1>1, <1>2, <1>3, <2>4 DEF InsertAppointment, Job
    <3>4. /\ \A s \in Threads : Found(s)'
          /\ Linking(i)' /\ \A k : ~Linking(k)
      BY <2>1, <2>2, <3>3 DEF OneAtATime, Found, Linking, At
    <3> QED
      BY <2>1, <2>2, <3>1, <3>2, <3>4, Used
  <2> QED
    BY <2>3, <2>4
<1>4. CASE UpdateBooked(t)
  <2>1. job[t].pc = "link" /\ UNCHANGED Calendar
    BY <1>4 DEF UpdateBooked, At
  <2>2. PICK a : a = job[t].appt
    OBVIOUS
  <2>3. i \in DOMAIN invites /\ a \in MadeFrom(i)
    BY <1>2, <2>1, <2>2 DEF IInv, Threaded, Holds, Creating, Listing
  <2>4. job'[t].pc = "tellGuest"
    BY <1>4, Leads DEF UpdateBooked, Labels
  <2>5. /\ \A s \in Threads : Found(s)'
        /\ \A k : k # i => ~Linking(k)
    BY <1>2, <2>4 DEF OneAtATime, Found, Linking
  <2>6. Link(i, a)
    BY <1>2, <1>4, <2>2 DEF UpdateBooked
  <2> QED
    BY <2>1, <2>3, <2>5, <2>6, Settled
<1> QED
  BY <1>3, <1>4

LEMMA SweepFine ==
  ASSUME OneAtATime, IInv, Serial, NEW t \in Threads,
         StartSweep(t) \/ ExpireStale(t) \/ ListDue(t) \/ Chase(t) \/ RecordChase(t)
  PROVE  Fine
<1>1. job \in [Threads -> Job] /\ Holds(t)
  BY DEF IInv, Threaded
<1>2. CASE StartSweep(t) \/ ListDue(t) \/ Chase(t)
  <2>1. job[t].pc # "link" /\ UNCHANGED <<invites, Calendar>>
    BY <1>2 DEF StartSweep, ListDue, Chase, At
  <2>2. job'[t].pc \in {"idle", "expireStale", "chase", "recordChase"}
    <3>1. CASE StartSweep(t)
      <4>1. PICK fields : fields = [Idle EXCEPT !.pc = "expireStale", !.todo = Stale]
        OBVIOUS
      <4>2. fields.pc = "expireStale" /\ job'[t] = fields
        BY <1>1, <3>1, <4>1 DEF StartSweep, Idle
      <4> QED
        BY <4>2
    <3>2. CASE ListDue(t)
      BY <1>1, <3>2, Leads DEF ListDue, Job
    <3>3. CASE Chase(t)
      BY <1>1, <3>3 DEF Chase, Job
    <3> QED
      BY <1>2, <3>1, <3>2, <3>3
  <2> QED
    BY <2>1, <2>2, Harmless DEF Careful
<1>3. CASE ExpireStale(t)
  <2>1. PICK i \in job[t].todo : Expire(i) /\ job' = [job EXCEPT ![t].todo = @ \ {i}]
    BY <1>3 DEF ExpireStale
  <2>2. i \in DOMAIN invites /\ job[t].pc = "expireStale" /\ job'[t].pc = "expireStale"
    BY <1>1, <1>3, <2>1 DEF Holds, ExpireStale, At, Job
  <2>3. UNCHANGED Calendar
    BY <1>3 DEF ExpireStale
  <2> QED
    BY <2>1, <2>2, <2>3, ExpireFine DEF Careful
<1>4. CASE RecordChase(t)
  <2>1. PICK i : i = job[t].inv
    OBVIOUS
  <2>2. /\ job[t].pc = "recordChase" /\ i \in DOMAIN invites
        /\ Record(i) /\ UNCHANGED Calendar
    BY <1>4, <2>1, Holding DEF RecordChase, At, Creating, Listing
  <2>3. job'[t].pc \in {"idle", "chase"}
    BY <1>1, <1>4, Leads DEF RecordChase, Job
  <2>4. Frame /\ \A k \in DOMAIN invites : invites'[k].status = invites[k].status
    BY <2>2, Recorded
  <2>5. (\A s \in Threads : Found(s)') /\ \A k : ~Linking(k)
    BY <2>2, <2>3, Free DEF Careful
  <2> QED
    BY <2>4, <2>5, Quiet
<1> QED
  BY <1>2, <1>3, <1>4

(* Time, cancellations, and no restart. *)
LEMMA AroundFine ==
  ASSUME OneAtATime, IInv, Serial,
         Tick \/ (\E a \in DOMAIN appointments : CancelAppointment(a)) \/ Restart \/ UNCHANGED vars
  PROVE  Fine
<1>1. ~Restart
  BY CoffeeAssumption DEF OneAtATime, Restart, IInv, Tables
<1>2. /\ UNCHANGED <<invites, job, via>>
      /\ DOMAIN appointments' = DOMAIN appointments
  BY <1>1 DEF Tick, CancelAppointment, Calendar, vars
<1>3. Frame
  BY <1>2 DEF Frame
<1>4. /\ \A t \in Threads : Found(t)'
      /\ \A k : Linking(k) => Linking(k)'
  BY <1>2 DEF Serial, Found, Duplicate, Linking, At
<1> QED
  BY <1>2, <1>3, <1>4, Quiet

LEMMA StepFine == ASSUME OneAtATime, IInv, Serial, [Next]_vars PROVE Fine
<1>1. ASSUME NEW t \in WebThreads, Arrive(t) PROVE Fine
  BY <1>1, ArriveFine DEF Threads
<1>2. ASSUME NEW t \in SweepThreads, StartSweep(t) PROVE Fine
  BY <1>2, SweepFine DEF Threads
<1>3. ASSUME NEW t \in Threads, Handle(t) PROVE Fine
  BY <1>3, CreateFine, AnswerFine, BookFine, SpendFine, SweepFine DEF Handle
<1> QED
  BY <1>1, <1>2, <1>3, AroundFine DEF Next

LEMMA InitSerial == Init => Serial /\ Links!Init
<1> SUFFICES ASSUME Init PROVE Serial /\ Links!Init
  OBVIOUS
<1>1. invites = << >> /\ DOMAIN invites = {}
  BY DEF Init
<1>2. \A t \in Threads : job[t].pc = "idle"
  BY IdleJob DEF Init
<1>3. Serial
  BY <1>1, <1>2 DEF Serial, Found, OneOpenInvite
<1>4. Fates = << >> /\ Uses = << >>
  BY <1>1 DEF Fates, Uses
<1> QED
  BY <1>3, <1>4 DEF Links!Init, Fates, Uses

-----------------------------------------------------------------------------
(* What serving one request at a time shows.                               *)

THEOREM SerialInvariant == ASSUME OneAtATime PROVE Spec => [](IInv /\ Serial)
<1>1. IInv /\ Serial /\ [Next]_vars => (IInv /\ Serial)'
  BY Step, StepFine DEF IInv, Sound, Fine
<1> QED
  BY <1>1, InitInv, InitSerial, PTL DEF Spec

(* One thread at a time never leaves two live links between a host and a   *)
(* guest. *)
THEOREM OneLiveLink == ASSUME OneAtATime PROVE Spec => []OneOpenInvite
<1>1. Serial => OneOpenInvite
  BY DEF Serial
<1> QED
  BY <1>1, SerialInvariant, PTL

(* One thread at a time makes at most one appointment from an invite.      *)
THEOREM OneAppointment == ASSUME OneAtATime PROVE Spec => []OneBookingPerInvite
<1>1. ASSUME Serial PROVE OneBookingPerInvite
  <2> SUFFICES ASSUME NEW i \in DOMAIN invites PROVE Cardinality(MadeFrom(i)) <= 1
    BY DEF OneBookingPerInvite
  <2>1. CASE MadeFrom(i) = {}
    BY <2>1, FS_EmptySet
  <2>2. CASE MadeFrom(i) # {}
    <3>1. PICK a : MadeFrom(i) = {a}
      BY <1>1, <2>2 DEF Serial
    <3> QED
      BY <3>1, FS_Singleton
  <2> QED
    BY <2>1, <2>2
<1> QED
  BY <1>1, SerialInvariant, PTL

(* One thread at a time never takes a booked invite back.                  *)
THEOREM BookedStaysBooked == ASSUME OneAtATime PROVE Spec => BookedIsFinal
<1>1. IInv /\ Serial /\ [Next]_vars => [BookedStays]_vars
  BY StepFine DEF Fine
<1> QED
  BY <1>1, SerialInvariant, PTL DEF Spec, BookedIsFinal, BookedStays

(* One thread at a time, every step of the handlers is a step of the       *)
(* one-use link or leaves it alone. *)
THEOREM ImplementsOneUseLink == ASSUME OneAtATime PROVE Spec => IsAOneUseLink
<1>1. IInv /\ Serial /\ [Next]_vars => [Links!Next]_<<Fates, Uses>>
  BY StepFine DEF Fine, LinkStep
<1>2. Init => Links!Init
  BY InitSerial
<1> QED
  BY <1>1, <1>2, SerialInvariant, PTL DEF Spec, IsAOneUseLink, Links!Spec, Fates, Uses
===============================================================================
