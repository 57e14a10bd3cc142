--------------------------- MODULE CatalogueProofs ---------------------------
(* Theorems about Catalogue, and with it about Accounts, for any addresses, *)
(* threads, budgets, catalogues and hours.                                  *)
EXTENDS Catalogue, CalendarProofs, SequenceTheorems, FiniteSetTheorems, TLAPS

Offering == [title : Titles, length : SlotMultiples, live : BOOLEAN]
Window == {w \in [start : Minutes, end : Minutes, step : Nat] : Acceptable(w)}

TablesOK ==
  /\ AccountsTypeOK
  /\ offerings \in Seq(Offering \union {Gone})
  /\ windows \in Seq(Window \union {Gone})
  /\ calm \in BOOLEAN

AdminSeeded == AdminEmail \in DOMAIN users /\ users[AdminEmail].made = "seed"

(* What a thread may hold. *)
AddingOK(j) ==
  /\ j.email \in Emails /\ j.row \in UserRow
  /\ j.row.role = "admin" => j.email = AdminEmail /\ j.row.made = "seed"

SwitchJob ==
  [pc : {"active", "role"}, by : Emails, target : Emails,
   active : BOOLEAN \union {Absent}, role : Roles \union {Absent}]

SwitchingOK(j) ==
  /\ j \in SwitchJob /\ j.target \in DOMAIN users
  /\ AdminSeeded
  /\ j.pc = "active" => j.active \in BOOLEAN
  /\ j.pc = "role" => j.role \in Roles

PatchOK(patch) ==
  /\ patch.title \in OwnerTitles \union {Absent}
  /\ patch.length \in SlotMultiples \union {Absent}
  /\ patch.live \in BOOLEAN \union {Absent}

EntryJob == [pc : {"look", "add"}, id : DOMAIN Entries]

Fit(j) ==
  /\ j.pc = "insert" => AddingOK(j)
  /\ j.pc \in {"active", "role"} => SwitchingOK(j)
  /\ j.pc = "patch" => PatchOK(j.patch)
  /\ j.pc \in {"look", "add"} => j \in EntryJob

ThreadsOK ==
  /\ job = [t \in AccountThreads |-> job[t]]
  /\ \A t \in AccountThreads : Fit(job[t])

IInv == TablesOK /\ ThreadsOK /\ AdminsComeFromTheSeed

-----------------------------------------------------------------------------
(* Moving a thread on. *)

(* Accounts that were there are there, and a seeded admin stays one. *)
Grows ==
  /\ DOMAIN users \subseteq DOMAIN users'
  /\ AdminSeeded => AdminSeeded'

LEMMA GrowsWhenKept == ASSUME users' = users PROVE Grows
  BY DEF Grows, AdminSeeded

LEMMA Moved ==
  ASSUME ThreadsOK, Grows, NEW t \in AccountThreads, NEW next, Goto(t, next), Fit(next)'
  PROVE  ThreadsOK'
<1>1. /\ job' = [s \in AccountThreads |-> job'[s]]
      /\ job'[t] = next
      /\ \A s \in AccountThreads \ {t} : job'[s] = job[s]
  BY DEF ThreadsOK, Goto
<1>2. ASSUME NEW s \in AccountThreads, s # t PROVE Fit(job[s])'
  <2>1. job'[s] = job[s] /\ Fit(job[s])
    BY <1>1, <1>2 DEF ThreadsOK
  <2> QED
    BY <2>1 DEF Fit, AddingOK, SwitchingOK, Grows
<1>3. Fit(job[t])'
  BY <1>1 DEF Fit, AddingOK, SwitchingOK
<1> QED
  BY <1>1, <1>2, <1>3 DEF ThreadsOK

(* A thread that has nothing to do, or is at a stage of the script that    *)
(* holds no entry, is fit whatever the tables hold.                        *)
LEMMA FreeStages ==
  /\ Fit(Idle)'
  /\ \A label \in {"windows", "addWindow", "offerings", "finished"} : Fit(Stage(label))'
  /\ \A i : Fit([Stage("fixWindow") EXCEPT !.id = i])'
  BY DEF Fit, Idle, Stage

LEMMA EntriesFit == \A n \in Nat \ {0} : Fit(Entry(n))'
<1> SUFFICES ASSUME NEW n \in Nat \ {0} PROVE Fit(Entry(n))'
  OBVIOUS
<1>1. CASE n > Len(Entries)
  BY <1>1, FreeStages DEF Entry
<1>2. CASE ~(n > Len(Entries))
  <2>1. n \in DOMAIN Entries
    BY <1>2, CatalogueAssumption
  <2>2. Entry(n) = [pc |-> "look", id |-> n]
    BY <1>2 DEF Entry, Stage
  <2> QED
    BY <2>1, <2>2 DEF Fit, EntryJob
<1> QED
  BY <1>1, <1>2

LEMMA Spent ==
  ASSUME TablesOK, NEW what \in Requests, Spend(what)
  PROVE  budget' \in [Requests -> Nat]
  BY DEF TablesOK, AccountsTypeOK, Spend

-----------------------------------------------------------------------------
LEMMA InitInv == Init => IInv
<1> SUFFICES ASSUME Init PROVE IInv
  OBVIOUS
<1>1. TablesOK
  <2>1. AccountsTypeOK
    <3>1. DOMAIN users = {} /\ tokens = {}
      BY DEF Init, AccountsInit
    <3> QED
      BY <3>1, AccountsAssumption DEF Init, AccountsInit, AccountsTypeOK
  <2>2. \A S : << >> \in Seq(S)
    OBVIOUS
  <2> QED
    BY <2>1, <2>2, Zenon DEF Init, TablesOK
<1>2. ThreadsOK
  BY DEF Init, AccountsInit, ThreadsOK, Fit, Idle
<1>3. AdminsComeFromTheSeed
  BY DEF Init, AccountsInit, AdminsComeFromTheSeed
<1> QED
  BY <1>1, <1>2, <1>3 DEF IInv

(* A step that adds no account and changes none. *)
LEMMA SameAccounts ==
  ASSUME IInv, UNCHANGED accounts
  PROVE  Grows /\ AdminsComeFromTheSeed'
  BY GrowsWhenKept DEF accounts, IInv, AdminsComeFromTheSeed

LEMMA LookFits ==
  ASSUME IInv, NEW t \in AccountThreads, NEW e \in Emails, NEW row, LookBeforeInsert(t, e, row),
         AddingOK(Adding(e, row))
  PROVE  ThreadsOK' /\ UNCHANGED accounts
<1>1. Fit(Adding(e, row))'
  BY DEF Adding, Fit, AddingOK
<1> QED
  BY <1>1, Moved, SameAccounts DEF LookBeforeInsert, IInv

LEMMA InsertFits ==
  ASSUME IInv, NEW t \in AccountThreads, NEW next, Insert(t, next), Fit(next)'
  PROVE  /\ ThreadsOK' /\ AdminsComeFromTheSeed'
         /\ DOMAIN users' \subseteq Emails
         /\ \A e \in DOMAIN users' : users'[e] \in UserRow
         /\ tokens' \subseteq DOMAIN users'
<1> DEFINE e == job[t].email
           row == job[t].row
<1>1. AccountsTypeOK /\ ThreadsOK /\ AdminsComeFromTheSeed
  BY DEF IInv, TablesOK
<1>2. AddingOK(job[t])
  BY <1>1 DEF Insert, At, ThreadsOK, Fit
<1>3. CASE e \in DOMAIN users
  <2>1. UNCHANGED accounts /\ Goto(t, Idle)
    BY <1>3 DEF Insert
  <2>2. ThreadsOK'
    BY <1>1, <2>1, FreeStages, Moved, SameAccounts
  <2> QED
    BY <1>1, <2>1, <2>2, SameAccounts DEF AccountsTypeOK, accounts
<1>4. CASE e \notin DOMAIN users
  <2>1. /\ users' = With(e, row) /\ Goto(t, next)
        /\ tokens' \subseteq tokens \union {e}
    BY <1>4 DEF Insert
  <2>2. /\ DOMAIN users' = DOMAIN users \union {e} /\ users'[e] = row
        /\ \A x \in DOMAIN users : users'[x] = users[x]
    BY <1>4, <2>1 DEF With
  <2>3. Grows
    BY <2>2 DEF Grows, AdminSeeded
  <2>4. ThreadsOK'
    BY <1>1, <2>1, <2>3, Moved
  <2>5. AdminsComeFromTheSeed'
    BY <1>1, <1>2, <2>2 DEF AdminsComeFromTheSeed, AddingOK
  <2> QED
    BY <1>1, <1>2, <2>1, <2>2, <2>4, <2>5 DEF AccountsTypeOK, AddingOK
<1> QED
  BY <1>3, <1>4

-----------------------------------------------------------------------------
(* The steps of Accounts. *)

LEMMA AccountsStep ==
  ASSUME IInv, AccountsNext, UNCHANGED <<tables, calm>>
  PROVE  IInv'
<1>a. AccountsTypeOK /\ ThreadsOK /\ AdminsComeFromTheSeed /\ TablesOK
  BY DEF IInv, TablesOK
<1>b. AccountsTypeOK' => TablesOK'
  BY <1>a DEF TablesOK, tables
<1>c. ASSUME NEW t \in AccountThreads, NEW e \in Emails, NEW row, LookBeforeInsert(t, e, row),
             AddingOK(Adding(e, row)), NEW what \in Requests, Spend(what)
      PROVE  IInv'
  <2>1. ThreadsOK' /\ UNCHANGED accounts
    BY <1>c, LookFits
  <2>2. AccountsTypeOK'
    BY <1>a, <1>c, <2>1, Spent DEF AccountsTypeOK, accounts
  <2> QED
    BY <1>b, <2>1, <2>2, SameAccounts DEF IInv
<1>d. ASSUME NEW t \in AccountThreads, NEW next, Insert(t, next), Fit(next)'
      PROVE  IInv'
  <2>1. AccountsTypeOK'
    BY <1>a, <1>d, InsertFits DEF Insert, AccountsTypeOK
  <2> QED
    BY <1>b, <1>d, <2>1, InsertFits DEF IInv
<1>1. ASSUME NEW t \in WebThreads, NEW e \in Emails, SignUp(t, e) PROVE IInv'
  <2>1. PICK role \in SelfSignupRoles : LookBeforeInsert(t, e, Row(role, "signup"))
    BY <1>1 DEF SignUp
  <2>2. AddingOK(Adding(e, Row(role, "signup")))
    BY DEF AddingOK, Adding, Row, UserRow, SelfSignupRoles, Roles
  <2> QED
    BY <1>1, <1>c, <2>1, <2>2 DEF SignUp, AccountThreads, Requests
<1>2. ASSUME NEW t \in WebThreads, NEW e \in Emails, AddGuest(t, e) PROVE IInv'
  <2>1. AddingOK(Adding(e, Row("client", "invite")))
    BY DEF AddingOK, Adding, Row, UserRow, Roles
  <2> QED
    BY <1>2, <1>c, <2>1 DEF AddGuest, AccountThreads, Requests
<1>3. ASSUME NEW t \in WebThreads, Insert(t, Idle) PROVE IInv'
  BY <1>3, <1>d, FreeStages DEF AccountThreads
<1>4. ASSUME NEW t \in Scripts, SeedAdmin(t) PROVE IInv'
  <2>1. AddingOK(Adding(AdminEmail, Row("admin", "seed")))
    BY AccountsAssumption DEF AddingOK, Adding, Row, UserRow, Roles
  <2> QED
    BY <1>4, <1>c, <2>1, AccountsAssumption DEF SeedAdmin, AccountThreads, Requests
<1>5. ASSUME NEW t \in Scripts, Insert(t, Idle) PROVE IInv'
  BY <1>5, <1>d, FreeStages DEF AccountThreads
<1>6. ASSUME NEW e \in Emails, Login(e) PROVE IInv'
  <2>1. users' = users /\ job' = job /\ AccountsTypeOK'
    BY <1>a, <1>6 DEF Login, AccountsTypeOK
  <2>2. ThreadsOK'
    BY <1>a, <2>1 DEF ThreadsOK, Fit, AddingOK, SwitchingOK, AdminSeeded
  <2> QED
    BY <1>a, <1>b, <2>1, <2>2 DEF IInv, AdminsComeFromTheSeed
<1>7. ASSUME NEW t \in AdminThreads, NEW by \in DOMAIN users, NEW target \in DOMAIN users,
             NEW active \in BOOLEAN \union {Absent}, NEW role \in Roles \union {Absent},
             ~(active = Absent /\ role = Absent), StartSwitch(t, by, target, active, role)
      PROVE  IInv'
  <2> DEFINE next == [pc |-> IF active = Absent THEN "role" ELSE "active",
                      by |-> by, target |-> target, active |-> active, role |-> role]
  <2>1. AdminSeeded
    BY <1>a, <1>7 DEF StartSwitch, Signed, AdminsComeFromTheSeed, AdminSeeded
  <2>2. next \in SwitchJob
    BY <1>a, <1>7 DEF SwitchJob, AccountsTypeOK
  <2>3. Fit(next)'
    BY <1>7, <2>1, <2>2 DEF Fit, SwitchingOK, AdminSeeded, StartSwitch, accounts
  <2>4. ThreadsOK'
    BY <1>a, <1>7, <2>3, Moved, SameAccounts DEF StartSwitch, AccountThreads
  <2>5. AccountsTypeOK'
    BY <1>a, <1>7, Spent DEF StartSwitch, Requests, AccountsTypeOK, accounts
  <2> QED
    BY <1>7, <1>b, <2>4, <2>5, SameAccounts DEF IInv, StartSwitch
<1>8. ASSUME NEW t \in AdminThreads, UpdateActive(t) PROVE IInv'
  <2>1. job[t].pc = "active" /\ SwitchingOK(job[t])
    BY <1>8, <1>a DEF UpdateActive, At, ThreadsOK, Fit, AccountThreads
  <2>2. /\ DOMAIN users' = DOMAIN users
        /\ \A e \in DOMAIN users : users'[e] \in UserRow /\ users'[e].made = users[e].made
                                   /\ users'[e].role = users[e].role
    BY <1>8, <1>a, <2>1 DEF UpdateActive, AccountsTypeOK, SwitchingOK, UserRow
  <2>3. Grows /\ AdminSeeded'
    BY <2>1, <2>2 DEF Grows, AdminSeeded, SwitchingOK
  <2>4. AccountsTypeOK' /\ AdminsComeFromTheSeed'
    BY <1>8, <1>a, <2>2, <2>3 DEF UpdateActive, AccountsTypeOK, AdminsComeFromTheSeed, AdminSeeded
  <2>5. ASSUME job[t].role = Absent PROVE ThreadsOK'
    BY <1>8, <1>a, <2>3, <2>5, FreeStages, Moved DEF UpdateActive, AccountThreads
  <2>6. ASSUME job[t].role # Absent PROVE ThreadsOK'
    <3>0. PICK next : next = [job[t] EXCEPT !.pc = "role"]
      OBVIOUS
    <3>1. next \in SwitchJob /\ next.pc = "role" /\ next.target \in DOMAIN users' /\ next.role \in Roles
      BY <2>1, <2>2, <2>6, <3>0 DEF SwitchingOK, SwitchJob
    <3>2. Goto(t, next)
      BY <1>8, <2>6, <3>0 DEF UpdateActive
    <3>3. Fit(next)'
      BY <2>3, <3>1 DEF Fit, SwitchingOK
    <3> QED
      BY <1>a, <2>3, <3>2, <3>3, Moved DEF AccountThreads
  <2> QED
    BY <1>b, <2>4, <2>5, <2>6 DEF IInv
<1>9. ASSUME NEW t \in AdminThreads, UpdateRole(t) PROVE IInv'
  <2>1. job[t].pc = "role" /\ SwitchingOK(job[t])
    BY <1>9, <1>a DEF UpdateRole, At, ThreadsOK, Fit, AccountThreads
  <2>2. /\ DOMAIN users' = DOMAIN users
        /\ \A e \in DOMAIN users : users'[e] \in UserRow /\ users'[e].made = users[e].made
    BY <1>9, <1>a, <2>1 DEF UpdateRole, AccountsTypeOK, SwitchingOK, UserRow
  <2>3. Grows /\ AdminSeeded'
    BY <2>1, <2>2 DEF Grows, AdminSeeded, SwitchingOK
  <2>4. AccountsTypeOK' /\ AdminsComeFromTheSeed'
    BY <1>9, <1>a, <2>2, <2>3 DEF UpdateRole, AccountsTypeOK, AdminsComeFromTheSeed, AdminSeeded
  <2>5. ThreadsOK'
    BY <1>9, <1>a, <2>3, FreeStages, Moved DEF UpdateRole, AccountThreads
  <2> QED
    BY <1>b, <2>4, <2>5 DEF IInv
<1> QED
  BY <1>1, <1>2, <1>3, <1>4, <1>5, <1>6, <1>7, <1>8, <1>9 DEF AccountsNext, Switches

-----------------------------------------------------------------------------
(* The steps of the owner and of the script.                               *)

RowsOK == offerings \in Seq(Offering \union {Gone})
HoursOK == windows \in Seq(Window \union {Gone})

(* A step of Catalogue that leaves the accounts alone. *)
LEMMA OnTables ==
  ASSUME IInv, UNCHANGED accounts, budget' \in [Requests -> Nat],
         RowsOK', HoursOK', calm' \in BOOLEAN, ThreadsOK'
  PROVE  IInv'
<1>1. AccountsTypeOK'
  BY DEF IInv, TablesOK, AccountsTypeOK, accounts
<1> QED
  BY <1>1, SameAccounts DEF IInv, TablesOK, RowsOK, HoursOK

LEMMA AppendTyped ==
  ASSUME NEW S, NEW rows \in Seq(S), NEW row \in S
  PROVE  Append(rows, row) \in Seq(S)
  BY AppendProperties

LEMMA ExceptTyped ==
  ASSUME NEW S, NEW rows \in Seq(S), NEW i, NEW row, i \in DOMAIN rows => row \in S
  PROVE  [rows EXCEPT ![i] = row] \in Seq(S)
<1>1. Len(rows) \in Nat /\ rows \in [1 .. Len(rows) -> S]
  BY LenProperties
<1>2. [rows EXCEPT ![i] = row] \in [1 .. Len(rows) -> S]
  BY <1>1
<1> QED
  BY <1>1, <1>2, SeqDef

LEMMA OwnerStep ==
  ASSUME IInv, NEW t \in WebThreads, OwnerNext(t)
  PROVE  IInv'
<1>a. /\ ThreadsOK /\ TablesOK /\ RowsOK /\ HoursOK /\ t \in AccountThreads
      /\ budget \in [Requests -> Nat] /\ "edits" \in Requests
  BY DEF IInv, TablesOK, AccountsTypeOK, RowsOK, HoursOK, AccountThreads, Requests
<1>1. ASSUME NEW title \in OwnerTitles, NEW length \in AskedLengths, CreateOffering(t, title, length)
      PROVE  IInv'
  <2> DEFINE row == [title |-> title, length |-> length, live |-> TRUE]
  <2>1. length \in SlotMultiples
    BY <1>1, CatalogueAssumption DEF CreateOffering, Valid
  <2>2. row \in Offering \union {Gone}
    BY <2>1 DEF Offering, Titles
  <2>3. offerings' = Append(offerings, row)
    BY <1>1 DEF CreateOffering
  <2> HIDE DEF row
  <2>4. RowsOK'
    BY <1>a, <2>2, <2>3, AppendTyped DEF RowsOK
  <2>5. ThreadsOK'
    BY <1>1, <1>a DEF CreateOffering, ThreadsOK, Fit, AddingOK, SwitchingOK, AdminSeeded, accounts
  <2> QED
    BY <1>1, <1>a, <2>4, <2>5, Spent, OnTables DEF CreateOffering, HoursOK
<1>2. ASSUME NEW i, NEW patch, PatchOK(patch), StartPatch(t, i, patch) PROVE IInv'
  <2>1. Fit([pc |-> "patch", id |-> i, patch |-> patch])'
    BY <1>2 DEF Fit, PatchOK
  <2>2. ThreadsOK'
    BY <1>2, <1>a, <2>1, Moved, SameAccounts DEF StartPatch
  <2> QED
    BY <1>2, <1>a, <2>2, Spent, OnTables DEF StartPatch, tables, TablesOK, RowsOK, HoursOK
<1>3. ASSUME NEW title \in OwnerTitles, NEW i \in Rows, StartPatch(t, i, [Keep EXCEPT !.title = title])
      PROVE  IInv'
  <2>1. PatchOK([Keep EXCEPT !.title = title])
    BY DEF PatchOK, Keep
  <2> QED
    BY <1>2, <1>3, <2>1
<1>4. ASSUME NEW length \in AskedLengths, NEW i \in Rows, StartPatch(t, i, [Keep EXCEPT !.length = length])
      PROVE  IInv'
  <2>1. PatchOK([Keep EXCEPT !.length = length])
    BY <1>4 DEF PatchOK, Keep, StartPatch, Valid
  <2> QED
    BY <1>2, <1>4, <2>1
<1>5. ASSUME NEW live \in BOOLEAN, NEW i \in Rows, StartPatch(t, i, [Keep EXCEPT !.live = live])
      PROVE  IInv'
  <2>1. PatchOK([Keep EXCEPT !.live = live])
    BY DEF PatchOK, Keep
  <2> QED
    BY <1>2, <1>5, <2>1
<1>6. CASE UpdateOffering(t)
  <2> DEFINE i == job[t].id
             patch == job[t].patch
             row == IF offerings[i] = Gone THEN Gone ELSE Patched(offerings[i], patch)
  <2>1. PatchOK(patch)
    BY <1>6, <1>a DEF UpdateOffering, At, ThreadsOK, Fit
  <2>2. ASSUME i \in DOMAIN offerings PROVE row \in Offering \union {Gone}
    <3>1. offerings[i] \in Offering \union {Gone}
      BY <1>a, <2>2, ElementOfSeq, LenProperties DEF RowsOK
    <3>2. ASSUME NEW old \in Offering PROVE Patched(old, patch) \in Offering
      BY <2>1 DEF Patched, Offering, PatchOK, Titles
    <3> QED
      BY <3>1, <3>2
  <2>3. offerings' = [offerings EXCEPT ![i] = row]
    BY <1>6 DEF UpdateOffering
  <2> HIDE DEF row
  <2>4. RowsOK'
    BY <1>a, <2>2, <2>3, ExceptTyped DEF RowsOK
  <2>5. ThreadsOK'
    BY <1>6, <1>a, FreeStages, Moved, SameAccounts DEF UpdateOffering
  <2> QED
    BY <1>6, <1>a, <2>4, <2>5, OnTables DEF UpdateOffering, HoursOK
<1>7. ASSUME NEW w \in OwnerWindows, AddWindow(t, w) PROVE IInv'
  <2>1. w \in Window \union {Gone}
    BY <1>7, CatalogueAssumption DEF AddWindow, Window
  <2>2. HoursOK'
    BY <1>7, <1>a, <2>1, AppendTyped DEF AddWindow, HoursOK
  <2>3. ThreadsOK'
    BY <1>7, <1>a DEF AddWindow, ThreadsOK, Fit, AddingOK, SwitchingOK, AdminSeeded, accounts
  <2> QED
    BY <1>7, <1>a, <2>2, <2>3, Spent, OnTables DEF AddWindow, RowsOK
<1>8. ASSUME NEW i \in Hours, DeleteWindow(t, i) PROVE IInv'
  <2>2. HoursOK'
    BY <1>8, <1>a, ExceptTyped DEF DeleteWindow, HoursOK
  <2>3. ThreadsOK'
    BY <1>8, <1>a DEF DeleteWindow, ThreadsOK, Fit, AddingOK, SwitchingOK, AdminSeeded, accounts
  <2> QED
    BY <1>8, <1>a, <2>2, <2>3, Spent, OnTables DEF DeleteWindow, RowsOK
<1> QED
  BY <1>1, <1>3, <1>4, <1>5, <1>6, <1>7, <1>8 DEF OwnerNext

LEMMA ScriptStep ==
  ASSUME IInv, NEW t \in Scripts, ScriptNext(t)
  PROVE  IInv'
<1>a. /\ ThreadsOK /\ TablesOK /\ RowsOK /\ HoursOK /\ t \in AccountThreads
      /\ budget \in [Requests -> Nat] /\ calm \in BOOLEAN
  BY DEF IInv, TablesOK, AccountsTypeOK, RowsOK, HoursOK, AccountThreads
(* A step that moves the script on and writes no row. *)
<1>b. ASSUME NEW next, Goto(t, next), Fit(next)', UNCHANGED <<accounts, tables>>,
             budget' \in [Requests -> Nat], calm' \in BOOLEAN
      PROVE  IInv'
  <2>1. ThreadsOK'
    BY <1>a, <1>b, Moved, SameAccounts
  <2> QED
    BY <1>a, <1>b, <2>1, OnTables DEF tables, RowsOK, HoursOK
<1>1. CASE StartScript(t)
  <2>1. budget' \in [Requests -> Nat]
    BY <1>1, <1>a, Spent DEF StartScript, Requests
  <2>2. AddingOK(Adding(Owner, Row("provider", "seed")))
    BY CatalogueAssumption DEF AddingOK, Adding, Row, UserRow, Roles
  <2>3. Fit(Adding(Owner, Row("provider", "seed")))'
    BY <2>2 DEF Fit, Adding, AddingOK
  <2> QED
    BY <1>1, <1>b, <2>1, <2>3, FreeStages DEF StartScript
<1>2. CASE InsertOwner(t)
  <2>1. Insert(t, Stage("windows")) /\ Fit(Stage("windows"))'
    BY <1>2, FreeStages DEF InsertOwner
  <2>2. AccountsTypeOK'
    BY <1>a, <2>1, InsertFits DEF Insert, AccountsTypeOK
  <2> QED
    BY <1>2, <1>a, <2>1, <2>2, InsertFits DEF InsertOwner, IInv, TablesOK, tables
<1>3. CASE FindWindow(t)
  <2>1. \E next : Goto(t, next) /\ Fit(next)'
    BY <1>3, FreeStages DEF FindWindow, Found
  <2> QED
    BY <1>3, <1>a, <1>b, <2>1 DEF FindWindow
<1>4. CASE InsertWindow(t)
  <2>1. Seeded \in Window \union {Gone}
    BY CatalogueAssumption DEF Window, Acceptable
  <2>2. HoursOK'
    BY <1>4, <1>a, <2>1, AppendTyped DEF InsertWindow, HoursOK
  <2>3. ThreadsOK'
    BY <1>4, <1>a, FreeStages, Moved, SameAccounts DEF InsertWindow
  <2> QED
    BY <1>4, <1>a, <2>2, <2>3, OnTables DEF InsertWindow, RowsOK
<1>5. CASE UpdateWindow(t)
  <2> DEFINE i == job[t].id
             row == IF windows[i] = Gone THEN Gone ELSE [windows[i] EXCEPT !.step = Seeded.step]
  <2>1. ASSUME i \in DOMAIN windows PROVE row \in Window \union {Gone}
    <3>1. windows[i] \in Window \union {Gone}
      BY <1>a, <2>1, ElementOfSeq, LenProperties DEF HoursOK
    <3>2. ASSUME NEW old \in Window PROVE [old EXCEPT !.step = Seeded.step] \in Window
      BY CatalogueAssumption DEF Window, Acceptable
    <3> QED
      BY <3>1, <3>2
  <2>2. windows' = [windows EXCEPT ![i] = row]
    BY <1>5 DEF UpdateWindow
  <2> HIDE DEF row
  <2>3. HoursOK'
    BY <1>a, <2>1, <2>2, ExceptTyped DEF HoursOK
  <2>4. ThreadsOK'
    BY <1>5, <1>a, FreeStages, Moved, SameAccounts DEF UpdateWindow
  <2> QED
    BY <1>5, <1>a, <2>3, <2>4, OnTables DEF UpdateWindow, RowsOK
<1>6. CASE StartOfferings(t)
  <2>1. RowsOK'
    <3>1. ASSUME offerings' = [i \in DOMAIN offerings |-> Gone] PROVE RowsOK'
      <4>1. Len(offerings) \in Nat /\ DOMAIN offerings = 1 .. Len(offerings)
        BY <1>a, LenProperties DEF RowsOK
      <4>2. offerings' \in [1 .. Len(offerings) -> Offering \union {Gone}]
        BY <3>1, <4>1
      <4> QED
        BY <4>1, <4>2, SeqDef DEF RowsOK
    <3> QED
      BY <1>6, <1>a, <3>1 DEF StartOfferings, RowsOK
  <2>2. ThreadsOK'
    BY <1>6, <1>a, EntriesFit, Moved, SameAccounts DEF StartOfferings
  <2> QED
    BY <1>6, <1>a, <2>1, <2>2, OnTables DEF StartOfferings, HoursOK
<1>7. CASE FindOffering(t)
  <2>1. job[t] \in EntryJob /\ job[t].id \in Nat \ {0}
    BY <1>7, <1>a, CatalogueAssumption DEF FindOffering, At, ThreadsOK, Fit, EntryJob
  <2>2. [job[t] EXCEPT !.pc = "add"] = [pc |-> "add", id |-> job[t].id]
    BY <2>1 DEF EntryJob
  <2>3. \A n \in DOMAIN Entries : Fit([pc |-> "add", id |-> n])'
    BY DEF Fit, EntryJob
  <2>4. \E next : Goto(t, next) /\ Fit(next)'
    BY <1>7, <2>1, <2>2, <2>3, EntriesFit DEF FindOffering, EntryJob
  <2> QED
    BY <1>7, <1>a, <1>b, <2>4 DEF FindOffering
<1>8. CASE InsertOffering(t)
  <2>1. job[t].id \in DOMAIN Entries /\ job[t].id \in Nat \ {0}
    BY <1>8, <1>a, CatalogueAssumption DEF InsertOffering, At, ThreadsOK, Fit, EntryJob
  <2>2. \A n \in DOMAIN Entries :
          [title |-> Entries[n].title, length |-> Entries[n].length, live |-> TRUE]
            \in Offering \union {Gone}
    BY CatalogueAssumption DEF Offering, Titles
  <2>3. RowsOK'
    BY <1>8, <1>a, <2>1, <2>2, AppendTyped DEF InsertOffering, RowsOK
  <2>4. ThreadsOK'
    BY <1>8, <1>a, <2>1, EntriesFit, Moved, SameAccounts DEF InsertOffering
  <2> QED
    BY <1>8, <1>a, <2>3, <2>4, OnTables DEF InsertOffering, HoursOK
<1>9. CASE Finish(t)
  BY <1>9, <1>a, <1>b, FreeStages DEF Finish
<1>10. CASE Kill(t)
  <2>1. budget' \in [Requests -> Nat]
    BY <1>10, <1>a, Spent DEF Kill, Requests
  <2> QED
    BY <1>10, <1>a, <1>b, <2>1, FreeStages DEF Kill
<1> QED
  BY <1>1, <1>2, <1>3, <1>4, <1>5, <1>6, <1>7, <1>8, <1>9, <1>10 DEF ScriptNext

THEOREM Invariant == Spec => []IInv
<1>1. ASSUME IInv, UNCHANGED vars PROVE IInv'
  BY <1>1 DEF vars, accounts, IInv, TablesOK, AccountsTypeOK, ThreadsOK, Fit, AddingOK,
              SwitchingOK, AdminSeeded, AdminsComeFromTheSeed
<1>2. IInv /\ [Next]_vars => IInv'
  BY <1>1, AccountsStep, OwnerStep, ScriptStep DEF Next
<1> QED
  BY <1>2, InitInv, PTL DEF Spec

(* Whatever is asked, run or killed, an offering has a length that fits a  *)
(* grid, hours are hours, and accounts and tokens are whole.               *)
THEOREM Typed == Spec => []TypeOK
<1>1. IInv => TypeOK
  <2> SUFFICES ASSUME IInv PROVE TypeOK
    OBVIOUS
  <2>1. TablesOK
    BY DEF IInv
  <2>2. \A i \in DOMAIN offerings : offerings[i] \in Offering \union {Gone}
    BY <2>1, ElementOfSeq, LenProperties DEF TablesOK
  <2>3. \A i \in DOMAIN windows : windows[i] \in Window \union {Gone}
    BY <2>1, ElementOfSeq, LenProperties DEF TablesOK
  <2> QED
    BY <2>1, <2>2, <2>3 DEF TypeOK, TablesOK, Rows, Hours, Offering, Window
<1> QED
  BY <1>1, Invariant, PTL

(* There is no admin but by the account that seed_data.py inserted, in any *)
(* number of sign-ups, guests, switches and runs of the scripts.           *)
THEOREM AdminsAreGranted == Spec => []AdminsComeFromTheSeed
  BY Invariant, PTL DEF IInv

-----------------------------------------------------------------------------
(* The catalogue, when the script is run in one terminal at a time.        *)

Kept(n) == Titled(Entries[n].title) # {}

Progress(t) ==
  /\ job[t].pc = "add" => ~Kept(job[t].id)
  /\ calm /\ job[t].pc \in {"look", "add"} => \A n \in 1 .. job[t].id - 1 : Kept(n)
  /\ calm /\ job[t].pc = "finished" => \A n \in DOMAIN Entries : Kept(n)

Once ==
  \A n \in DOMAIN Entries : \A i, k \in Titled(Entries[n].title) : i = k

Whole == Once /\ \A t \in Scripts : Progress(t)

(* The rows of a title after an INSERT. *)
LEMMA AfterAppend ==
  ASSUME RowsOK, NEW row \in Offering, offerings' = Append(offerings, row), NEW title
  PROVE  /\ title # row.title => Titled(title)' = Titled(title)
         /\ Titled(title) \subseteq Titled(title)'
         /\ Titled(title)' \subseteq Titled(title) \union {Len(offerings) + 1}
         /\ title = row.title => Len(offerings) + 1 \in Titled(title)'
<1>1. /\ DOMAIN offerings = 1 .. Len(offerings) /\ Len(offerings) \in Nat
      /\ DOMAIN offerings' = 1 .. Len(offerings) + 1
      /\ \A i \in DOMAIN offerings : offerings'[i] = offerings[i]
      /\ offerings'[Len(offerings) + 1] = row
  <2>1. offerings \in Seq(Offering \union {Gone}) /\ row \in Offering \union {Gone}
    BY DEF RowsOK
  <2> QED
    BY <2>1, AppendProperties, LenProperties
<1> QED
  BY <1>1, CatalogueAssumption DEF Titled, Rows, Offering

(* A step that writes no offering, and leaves the script where it was or   *)
(* takes it somewhere that holds no entry. *)
LEMMA ProgressKept ==
  ASSUME NEW t \in Scripts, Progress(t), UNCHANGED offerings,
         \/ job'[t] = job[t] /\ (calm' => calm)
         \/ job'[t].pc \notin {"look", "add", "finished"}
  PROVE  Progress(t)'
<1>1. \A n : Kept(n)' = Kept(n)
  BY DEF Kept, Titled, Rows
<1> QED
  BY <1>1 DEF Progress

LEMMA OnceKept == ASSUME Once, UNCHANGED offerings PROVE Once'
  BY DEF Once, Titled, Rows

(* A step of Accounts takes the script nowhere in its own statements. *)
LEMMA AccountsMoves ==
  ASSUME ThreadsOK, AccountsNext, NEW t \in Scripts
  PROVE  job'[t] = job[t] \/ job'[t].pc \in {"idle", "insert", "active", "role"}
<1> DEFINE Fine == job'[t] = job[t] \/ job'[t].pc \in {"idle", "insert", "active", "role"}
<1>1. ASSUME NEW s \in AccountThreads, NEW next, Goto(s, next),
             next.pc \in {"idle", "insert", "active", "role"}
      PROVE  Fine
  <2>1. job'[s] = next /\ (s # t => job'[t] = job[t]) /\ t \in AccountThreads
    BY <1>1 DEF ThreadsOK, Goto, AccountThreads
  <2> QED
    BY <1>1, <2>1
<1>2. ASSUME NEW s \in AccountThreads, Insert(s, Idle) PROVE Fine
  BY <1>1, <1>2 DEF Insert, Idle
<1>3. ASSUME NEW s \in AccountThreads, NEW e, NEW row, LookBeforeInsert(s, e, row) PROVE Fine
  BY <1>1, <1>3 DEF LookBeforeInsert, Adding
<1>4. ASSUME NEW e \in Emails, Login(e) PROVE Fine
  BY <1>4 DEF Login
<1>5. ASSUME NEW s \in AdminThreads, Switches(s) PROVE Fine
  <2>1. ASSUME NEW by, NEW target, NEW active, NEW role, StartSwitch(s, by, target, active, role)
        PROVE  Fine
    BY <1>1, <2>1 DEF StartSwitch, AccountThreads
  <2>2. CASE UpdateActive(s)
    <3>1. job[s] \in SwitchJob
      BY <2>2 DEF UpdateActive, At, ThreadsOK, Fit, SwitchingOK, AccountThreads
    <3>2. [job[s] EXCEPT !.pc = "role"].pc = "role"
      BY <3>1 DEF SwitchJob
    <3> QED
      BY <1>1, <2>2, <3>2 DEF UpdateActive, AccountThreads, Idle
  <2>3. CASE UpdateRole(s)
    BY <1>1, <2>3 DEF UpdateRole, AccountThreads, Idle
  <2> QED
    BY <1>5, <2>1, <2>2, <2>3 DEF Switches
<1> HIDE DEF Fine
<1>6. Fine
  BY <1>2, <1>3, <1>4, <1>5 DEF AccountsNext, SignUp, AddGuest, SeedAdmin, AccountThreads
<1> QED
  BY <1>6 DEF Fine

(* Which steps write offerings. *)
LEMMA WholeStep ==
  ASSUME \A s, t \in Scripts : s = t, IInv, IInv', Whole, [Next]_vars
  PROVE  Whole'
<1>a. /\ ThreadsOK /\ TablesOK /\ RowsOK /\ Once
      /\ \A t \in Scripts : Progress(t) /\ t \in AccountThreads
  BY DEF IInv, TablesOK, RowsOK, Whole, AccountThreads
<1>b. \A next : \A t \in AccountThreads : Goto(t, next) =>
        job'[t] = next /\ \A s \in AccountThreads \ {t} : job'[s] = job[s]
  BY <1>a DEF ThreadsOK, Goto
<1>c. DOMAIN Entries = 1 .. Len(Entries) /\ Len(Entries) \in Nat
  BY CatalogueAssumption
(* A request of the owner that writes. *)
<1>d. ASSUME Once', ~calm', \A t \in Scripts : job'[t] = job[t] \/ job'[t] = Idle,
             \A n \in DOMAIN Entries : Titled(Entries[n].title)' \subseteq Titled(Entries[n].title)
      PROVE  Whole'
  <2> SUFFICES ASSUME NEW t \in Scripts PROVE Progress(t)'
    BY <1>d DEF Whole
  <2>1. CASE job'[t] = Idle
    BY <1>d, <2>1 DEF Progress, Idle
  <2>2. CASE job'[t] = job[t]
    <3>1. ASSUME job[t].pc = "add" PROVE job[t].id \in DOMAIN Entries /\ ~Kept(job[t].id)
      BY <1>a, <3>1 DEF ThreadsOK, Fit, EntryJob, Progress
    <3> QED
      BY <1>d, <2>2, <3>1 DEF Progress, Kept
  <2> QED
    BY <1>d, <2>1, <2>2
(* A step that writes none. *)
<1>e. ASSUME UNCHANGED offerings,
             \A t \in Scripts : \/ job'[t] = job[t] /\ (calm' => calm)
                                \/ job'[t].pc \notin {"look", "add", "finished"}
      PROVE  Whole'
  BY <1>a, <1>e, ProgressKept, OnceKept DEF Whole
<1>1. CASE AccountsNext /\ UNCHANGED <<tables, calm>>
  BY <1>1, <1>a, <1>e, AccountsMoves DEF tables
<1>2. ASSUME NEW t \in WebThreads, OwnerNext(t) PROVE Whole'
  <2>a. t \in AccountThreads
    BY DEF AccountThreads
  <2>1. ASSUME NEW title \in OwnerTitles, NEW length \in AskedLengths, CreateOffering(t, title, length)
        PROVE  Whole'
    <3> DEFINE row == [title |-> title, length |-> length, live |-> TRUE]
    <3>1. row \in Offering
      BY <2>1, CatalogueAssumption DEF Offering, Titles, CreateOffering, Valid
    <3>2. \A n \in DOMAIN Entries : Entries[n].title # row.title
      BY CatalogueAssumption
    <3>3. offerings' = Append(offerings, row)
      BY <2>1 DEF CreateOffering
    <3> HIDE DEF row
    <3>4. \A n \in DOMAIN Entries : Titled(Entries[n].title)' = Titled(Entries[n].title)
      BY <1>a, <3>1, <3>2, <3>3, AfterAppend
    <3> QED
      BY <1>a, <1>d, <2>1, <3>4 DEF CreateOffering, Once
  <2>2. ASSUME NEW i, NEW patch, StartPatch(t, i, patch) PROVE Whole'
    <3>1. job'[t].pc = "patch" /\ \A s \in AccountThreads \ {t} : job'[s] = job[s]
      BY <1>b, <2>a, <2>2 DEF StartPatch
    <3> QED
      BY <1>a, <1>e, <2>2, <3>1 DEF StartPatch, tables
  <2>3. CASE UpdateOffering(t)
    <3> DEFINE patch == job[t].patch
               k == job[t].id
    <3>1. patch.title \in OwnerTitles \union {Absent}
      BY <1>a, <2>a, <2>3 DEF UpdateOffering, At, ThreadsOK, Fit, PatchOK
    <3>2. /\ DOMAIN offerings' = DOMAIN offerings
          /\ \A i \in DOMAIN offerings :
               \/ offerings'[i] = offerings[i]
               \/ offerings[i] # Gone /\ offerings'[i] = Patched(offerings[i], patch)
      BY <2>3 DEF UpdateOffering
    <3>3. \A i \in DOMAIN offerings : offerings[i] \in Offering \union {Gone}
      BY <1>a, ElementOfSeq, LenProperties DEF RowsOK
    <3>4. ASSUME NEW n \in DOMAIN Entries
          PROVE  Titled(Entries[n].title)' \subseteq Titled(Entries[n].title)
      <4>1. \A old \in Offering : \/ Patched(old, patch).title = old.title
                                  \/ Patched(old, patch).title \in OwnerTitles
        BY <3>1 DEF Patched, Offering
      <4>2. Entries[n].title \notin OwnerTitles
        BY CatalogueAssumption
      <4> QED
        BY <3>2, <3>3, <4>1, <4>2 DEF Titled, Rows
    <3>5. Once'
      BY <1>a, <3>4 DEF Once
    <3>6. \A s \in Scripts : job'[s] = job[s] \/ job'[s] = Idle
      BY <1>a, <1>b, <2>a, <2>3 DEF UpdateOffering
    <3> QED
      BY <1>d, <2>3, <3>4, <3>5, <3>6 DEF UpdateOffering
  <2>4. ASSUME NEW w \in OwnerWindows, AddWindow(t, w) PROVE Whole'
    BY <1>e, <2>4 DEF AddWindow
  <2>5. ASSUME NEW i, DeleteWindow(t, i) PROVE Whole'
    BY <1>e, <2>5 DEF DeleteWindow
  <2> QED
    BY <1>2, <2>1, <2>2, <2>3, <2>4, <2>5 DEF OwnerNext
<1>3. ASSUME NEW t \in Scripts, ScriptNext(t) PROVE Whole'
  <2>a. t \in AccountThreads /\ Progress(t) /\ Fit(job[t]) /\ \A s \in Scripts : s = t
    BY <1>a DEF ThreadsOK
  (* A step to a stage that holds no entry. *)
  <2>b. ASSUME NEW next, Goto(t, next), next.pc \notin {"look", "add", "finished"},
               UNCHANGED offerings
        PROVE  Whole'
    BY <1>b, <1>e, <2>a, <2>b
  (* A step to the n-th entry, or past the last. *)
  <2>c. ASSUME NEW n \in 1 .. Len(Entries) + 1, Goto(t, Entry(n)), Once',
               calm => \A m \in 1 .. n - 1 : Kept(m)', calm' = calm
        PROVE  Whole'
    <3>1. job'[t] = Entry(n)
      BY <1>b, <2>a, <2>c
    <3>2. CASE n > Len(Entries)
      BY <1>c, <2>a, <2>c, <3>1, <3>2 DEF Entry, Stage, Progress, Whole
    <3>3. CASE n <= Len(Entries)
      <4>1. job'[t].pc = "look" /\ job'[t].id = n
        BY <1>c, <3>1, <3>3 DEF Entry, Stage
      <4> QED
        BY <2>a, <2>c, <4>1 DEF Progress, Whole
    <3> QED
      BY <1>c, <3>2, <3>3
  <2>1. CASE StartScript(t)
    BY <2>b, <2>1 DEF StartScript, Stage, Adding, tables
  <2>2. CASE InsertOwner(t)
    BY <2>b, <2>2 DEF InsertOwner, Insert, Stage, Idle, tables
  <2>3. CASE FindWindow(t)
    <3>1. \E next : Goto(t, next) /\ next.pc \notin {"look", "add", "finished"}
      BY <2>3 DEF FindWindow, Found, Stage
    <3> QED
      BY <2>b, <2>3, <3>1 DEF FindWindow, tables
  <2>4. CASE InsertWindow(t) \/ UpdateWindow(t)
    BY <2>b, <2>4 DEF InsertWindow, UpdateWindow, Stage
  <2>5. CASE StartOfferings(t)
    <3>1. ASSUME offerings' = [i \in DOMAIN offerings |-> Gone] PROVE Once'
      BY <3>1 DEF Once, Titled, Rows
    <3>2. Once'
      BY <1>a, <2>5, <3>1, OnceKept DEF StartOfferings
    <3> QED
      BY <1>c, <2>c, <2>5, <3>2 DEF StartOfferings
  <2>6. CASE FindOffering(t)
    <3> DEFINE n == job[t].id
    <3>1. /\ job[t].pc = "look" /\ job[t] \in EntryJob /\ n \in 1 .. Len(Entries)
          /\ UNCHANGED offerings /\ calm' = calm
      BY <1>c, <2>a, <2>6 DEF FindOffering, At, Fit, EntryJob, tables
    <3>2. Once' /\ \A m : Kept(m)' = Kept(m)
      BY <1>a, <3>1, OnceKept DEF Kept, Titled, Rows
    <3>3. CASE Kept(n)
      <4>1. Goto(t, Entry(n + 1))
        BY <2>6, <3>3 DEF FindOffering, Kept
      <4>2. calm => \A m \in 1 .. (n + 1) - 1 : Kept(m)'
        BY <1>c, <2>a, <3>1, <3>2, <3>3 DEF Progress
      <4>3. n + 1 \in 1 .. Len(Entries) + 1
        BY <1>c, <3>1
      <4>4. PICK k : k = n + 1
        OBVIOUS
      <4> QED
        BY <2>c, <3>1, <3>2, <4>1, <4>2, <4>3, <4>4
    <3>4. CASE ~Kept(n)
      <4>1. job'[t] = [job[t] EXCEPT !.pc = "add"]
        BY <1>b, <2>a, <2>6, <3>4 DEF FindOffering, Kept
      <4>2. job'[t].pc = "add" /\ job'[t].id = n
        BY <3>1, <4>1 DEF EntryJob
      <4> QED
        BY <2>a, <3>1, <3>2, <3>4, <4>2 DEF Progress, Whole
    <3> QED
      BY <3>3, <3>4
  <2>7. CASE InsertOffering(t)
    <3> DEFINE entry == Entries[job[t].id]
               row == [title |-> entry.title, length |-> entry.length, live |-> TRUE]
    <3>0. PICK n : n = job[t].id
      OBVIOUS
    <3>1. /\ job[t].pc = "add" /\ n \in 1 .. Len(Entries) /\ ~Kept(n)
          /\ calm' = calm /\ Goto(t, Entry(n + 1)) /\ offerings' = Append(offerings, row)
      BY <1>c, <2>a, <2>7, <3>0 DEF InsertOffering, At, Fit, EntryJob, Progress
    <3>2. row \in Offering /\ row.title = Entries[n].title
      BY <1>c, <3>0, <3>1, CatalogueAssumption DEF Offering, Titles
    <3> HIDE DEF row
    <3>3. ASSUME NEW title
          PROVE  /\ title # Entries[n].title => Titled(title)' = Titled(title)
                 /\ Titled(title) \subseteq Titled(title)'
                 /\ Titled(title)' \subseteq Titled(title) \union {Len(offerings) + 1}
                 /\ title = Entries[n].title => Len(offerings) + 1 \in Titled(title)'
      BY <1>a, <3>1, <3>2, AfterAppend
    <3>4. ASSUME NEW m \in DOMAIN Entries PROVE \A i, k \in Titled(Entries[m].title)' : i = k
      <4>1. CASE Entries[m].title = Entries[n].title
        BY <3>1, <3>3, <4>1 DEF Kept
      <4>2. CASE Entries[m].title # Entries[n].title
        BY <1>a, <3>3, <4>2 DEF Once
      <4> QED
        BY <4>1, <4>2
    <3>5. Kept(n)' /\ \A m : Kept(m) => Kept(m)'
      BY <3>3 DEF Kept
    <3>6. calm => \A m \in 1 .. (n + 1) - 1 : Kept(m)'
      BY <2>a, <3>0, <3>1, <3>5 DEF Progress
    <3>7. Once'
      BY <3>4 DEF Once
    <3>8. n + 1 \in 1 .. Len(Entries) + 1
      BY <1>c, <3>1
    <3> QED
      BY <2>c, <3>1, <3>6, <3>7, <3>8
  <2>8. CASE Finish(t)
    BY <2>b, <2>8 DEF Finish, Idle, tables
  <2>9. CASE Kill(t)
    BY <2>b, <2>9 DEF Kill, Idle, tables
  <2> QED
    BY <1>3, <2>1, <2>2, <2>3, <2>4, <2>5, <2>6, <2>7, <2>8, <2>9 DEF ScriptNext
<1>4. CASE UNCHANGED vars
  BY <1>4, <1>e DEF vars
<1> QED
  BY <1>1, <1>2, <1>3, <1>4 DEF Next

(* Run in one terminal at a time, and left to finish, seed_luke.py leaves  *)
(* every entry of any catalogue there exactly once, however often it was   *)
(* killed or its owner was at work before.                                 *)
THEOREM ScriptLeavesAWholeCatalogue ==
  ASSUME \A s, t \in Scripts : s = t
  PROVE  Spec => []CatalogueIsWhole
<1>1. Init => Whole
  <2> SUFFICES ASSUME Init PROVE Whole
    OBVIOUS
  <2>1. \A title : Titled(title) = {}
    BY DEF Init, Titled, Rows
  <2>2. \A t \in Scripts : job[t].pc = "idle"
    BY DEF Init, AccountsInit, AccountThreads, Idle
  <2> QED
    BY <2>1, <2>2 DEF Whole, Once, Progress
<1>2. IInv /\ IInv' /\ Whole /\ [Next]_vars => Whole'
  BY WholeStep
<1>3. Whole => CatalogueIsWhole
  <2> SUFFICES ASSUME Whole, NEW t \in Scripts, At(t, "finished"), calm, NEW n \in DOMAIN Entries
               PROVE  Cardinality(Titled(Entries[n].title)) = 1
    BY DEF CatalogueIsWhole, Titled
  <2>1. PICK i : i \in Titled(Entries[n].title)
    BY DEF Whole, Progress, At, Kept
  <2>2. Titled(Entries[n].title) = {i}
    BY <2>1 DEF Whole, Once
  <2> QED
    BY <2>2, FS_Singleton
<1> QED
  BY <1>1, <1>2, <1>3, Invariant, PTL DEF Spec

-----------------------------------------------------------------------------
(* The grid, when the script is run in one terminal at a time.             *)

(* The row the script takes for the seeded one has the seeded grid. *)
OnGrid == Same # {} /\ windows[First(Same)].step = Seeded.step

(* What the script knows of the hours, while its owner writes nothing. *)
Laid(t) ==
  /\ calm /\ job[t].pc = "addWindow" => Same = {}
  /\ calm /\ job[t].pc = "fixWindow" => Same # {} /\ job[t].id = First(Same)
  /\ calm /\ job[t].pc \in {"offerings", "look", "add", "finished"} => OnGrid

(* There is a row with the least id. *)
LEMMA FirstIsThere ==
  ASSUME NEW n \in Nat, NEW ids, ids \subseteq 1 .. n, ids # {}
  PROVE  First(ids) \in ids /\ \A j \in ids : First(ids) <= j
<1> DEFINE T == {n - i : i \in ids}
<1>1. T \subseteq 0 .. n /\ T # {}
  <2>1. \A i \in ids : n - i \in 0 .. n
    OBVIOUS
  <2>2. PICK i \in ids : TRUE
    OBVIOUS
  <2> QED
    BY <2>1, <2>2
<1>2. PICK c \in T : \A d \in T : d <= c
  <2> HIDE DEF T
  <2> QED
    BY <1>1, LastOne
<1>3. PICK i \in ids : c = n - i
  BY <1>2
<1>4. \A j \in ids : i <= j
  <2> SUFFICES ASSUME NEW j \in ids PROVE i <= j
    OBVIOUS
  <2>1. n - j <= n - i
    BY <1>2, <1>3
  <2> QED
    BY <2>1
<1> QED
  BY <1>3, <1>4 DEF First

LEMMA HoursTyped ==
  ASSUME HoursOK
  PROVE  /\ Len(windows) \in Nat /\ DOMAIN windows = 1 .. Len(windows)
         /\ Hours \subseteq 1 .. Len(windows) /\ Same \subseteq Hours
         /\ \A i \in Hours : windows[i] \in Window
         /\ Same # {} => First(Same) \in Same
<1>1. Len(windows) \in Nat /\ DOMAIN windows = 1 .. Len(windows)
  BY LenProperties DEF HoursOK
<1>2. \A i \in DOMAIN windows : windows[i] \in Window \union {Gone}
  BY ElementOfSeq, LenProperties DEF HoursOK
<1>3. Hours \subseteq 1 .. Len(windows) /\ Same \subseteq Hours
  BY <1>1 DEF Hours, Same
<1> QED
  BY <1>1, <1>2, <1>3, FirstIsThere DEF Hours

LEMMA HoursKept ==
  ASSUME UNCHANGED windows
  PROVE  Same' = Same /\ OnGrid' = OnGrid
  BY DEF Same, Hours, OnGrid

(* The script's own writes. *)
LEMMA RowLaid ==
  ASSUME HoursOK, Same = {}, windows' = Append(windows, Seeded)
  PROVE  OnGrid'
<1> DEFINE n == Len(windows) + 1
<1>1. Seeded \in Window /\ Seeded # Gone
  BY CatalogueAssumption DEF Window, Acceptable
<1>2. /\ DOMAIN windows' = 1 .. n /\ Len(windows) \in Nat /\ DOMAIN windows = 1 .. Len(windows)
      /\ \A i \in DOMAIN windows : windows'[i] = windows[i]
      /\ windows'[n] = Seeded
  <2>1. windows \in Seq(Window \union {Gone}) /\ Seeded \in Window \union {Gone}
    BY <1>1 DEF HoursOK
  <2> QED
    BY <2>1, AppendProperties, LenProperties
<1>3. Same' = {n}
  BY <1>1, <1>2 DEF Same, Hours
<1>4. First(Same)' = n
  BY <1>2, <1>3 DEF First
<1> QED
  BY <1>2, <1>3, <1>4 DEF OnGrid

LEMMA RowMended ==
  ASSUME HoursOK, NEW i, Same # {}, i = First(Same),
         windows' = [windows EXCEPT ![i] = IF @ = Gone THEN Gone ELSE [@ EXCEPT !.step = Seeded.step]]
  PROVE  OnGrid'
<1>1. i \in Same /\ i \in Hours /\ windows[i] \in Window /\ windows[i] # Gone /\ i \in DOMAIN windows
  BY HoursTyped DEF Hours
<1>2. PICK row : row = [windows[i] EXCEPT !.step = Seeded.step]
  OBVIOUS
<1>3. row.start = windows[i].start /\ row.step = Seeded.step /\ row # Gone
  BY <1>1, <1>2, CatalogueAssumption DEF Window
<1>4. windows' = [windows EXCEPT ![i] = row]
  BY <1>1, <1>2
<1>5. Same' = Same
  BY <1>1, <1>3, <1>4 DEF Same, Hours
<1> QED
  BY <1>1, <1>3, <1>4, <1>5 DEF OnGrid, First

LEMMA LaidStep ==
  ASSUME \A s, t \in Scripts : s = t, IInv, \A t \in Scripts : Laid(t), [Next]_vars
  PROVE  \A t \in Scripts : Laid(t)'
<1> SUFFICES ASSUME NEW t \in Scripts PROVE Laid(t)'
  OBVIOUS
<1>a. /\ ThreadsOK /\ HoursOK /\ t \in AccountThreads /\ Laid(t) /\ Fit(job[t])
      /\ \A s \in Scripts : s = t
  BY DEF IInv, TablesOK, HoursOK, AccountThreads, ThreadsOK
<1>b. \A next : Goto(t, next) => job'[t] = next
  BY <1>a DEF ThreadsOK, Goto
(* A step that writes no hours. *)
<1>c. ASSUME UNCHANGED windows,
             \/ job'[t] = job[t] /\ (calm' => calm)
             \/ job'[t].pc \notin {"addWindow", "fixWindow", "offerings", "look", "add", "finished"}
             \/ /\ calm' => calm
                /\ job[t].pc \in {"offerings", "look", "add"}
                /\ job'[t].pc \in {"look", "add", "finished"}
      PROVE  Laid(t)'
  BY <1>a, <1>c, HoursKept DEF Laid
<1>1. CASE AccountsNext /\ UNCHANGED <<tables, calm>>
  BY <1>1, <1>a, <1>c, AccountsMoves DEF tables
<1>2. ASSUME NEW s \in WebThreads, OwnerNext(s) PROVE Laid(t)'
  <2>1. ~calm' \/ \E i, patch : StartPatch(s, i, patch)
    BY <1>2 DEF OwnerNext, CreateOffering, UpdateOffering, AddWindow, DeleteWindow
  <2>2. ASSUME NEW i, NEW patch, StartPatch(s, i, patch) PROVE Laid(t)'
    <3>1. job'[t] = job[t] \/ job'[t].pc = "patch"
      BY <1>a, <2>2 DEF StartPatch, Goto, ThreadsOK
    <3> QED
      BY <1>c, <2>2, <3>1 DEF StartPatch, tables
  <2> QED
    BY <2>1, <2>2 DEF Laid
<1>3. CASE ScriptNext(t)
  <2>1. CASE StartScript(t)
    BY <1>b, <1>c, <2>1 DEF StartScript, Stage, Adding, tables
  <2>2. CASE InsertOwner(t)
    BY <1>b, <1>c, <2>2 DEF InsertOwner, Insert, Stage, Idle, tables
  <2>3. CASE FindWindow(t)
    <3>1. UNCHANGED windows /\ calm' = calm
      BY <2>3 DEF FindWindow, tables
    <3>2. CASE Same = {}
      <4>1. job'[t].pc = "addWindow"
        BY <1>b, <2>3, <3>2 DEF FindWindow, Stage
      <4> QED
        BY <3>1, <3>2, <4>1, HoursKept DEF Laid
    <3>3. CASE Same # {} /\ windows[First(Same)].step = Seeded.step
      <4>1. job'[t].pc = "offerings"
        BY <1>b, <2>3, <3>3 DEF FindWindow, Found, Stage
      <4> QED
        BY <3>1, <3>3, <4>1, HoursKept DEF Laid, OnGrid
    <3>4. CASE Same # {} /\ windows[First(Same)].step # Seeded.step
      <4>1. job'[t].pc = "fixWindow" /\ job'[t].id = First(Same)
        BY <1>b, <2>3, <3>4 DEF FindWindow, Found, Stage
      <4> QED
        BY <3>1, <3>4, <4>1, HoursKept DEF Laid
    <3> QED
      BY <3>2, <3>3, <3>4
  <2>4. CASE InsertWindow(t)
    <3>1. calm' = calm /\ job'[t].pc = "offerings" /\ job[t].pc = "addWindow"
          /\ windows' = Append(windows, Seeded)
      BY <1>b, <2>4 DEF InsertWindow, Stage, At
    <3> QED
      BY <1>a, <3>1, RowLaid DEF Laid
  <2>5. CASE UpdateWindow(t)
    <3>1. calm' = calm /\ job'[t].pc = "offerings" /\ job[t].pc = "fixWindow"
      BY <1>b, <2>5 DEF UpdateWindow, Stage, At
    <3>2. ASSUME calm PROVE OnGrid'
      BY <1>a, <2>5, <3>1, <3>2, RowMended DEF Laid, UpdateWindow
    <3> QED
      BY <3>1, <3>2 DEF Laid
  <2>6. CASE StartOfferings(t) \/ FindOffering(t) \/ InsertOffering(t)
    <3>1. \A n : Entry(n).pc \in {"look", "finished"}
      BY DEF Entry, Stage
    <3>2. FindOffering(t) => [job[t] EXCEPT !.pc = "add"].pc = "add"
      BY <1>a DEF FindOffering, At, Fit, EntryJob
    <3>3. UNCHANGED <<windows, calm>> /\ job[t].pc \in {"offerings", "look", "add"}
      BY <2>6 DEF StartOfferings, FindOffering, InsertOffering, tables, At
    <3>4. job'[t].pc \in {"look", "add", "finished"}
      BY <1>b, <2>6, <3>1, <3>2 DEF StartOfferings, FindOffering, InsertOffering
    <3> QED
      BY <1>c, <3>3, <3>4
  <2>7. CASE Finish(t) \/ Kill(t)
    BY <1>b, <1>c, <2>7 DEF Finish, Kill, Idle, tables
  <2> QED
    BY <1>3, <2>1, <2>2, <2>3, <2>4, <2>5, <2>6, <2>7 DEF ScriptNext
<1>4. CASE UNCHANGED vars
  BY <1>4, <1>c DEF vars
<1> QED
  BY <1>a, <1>1, <1>2, <1>3, <1>4 DEF Next

(* A length that is whole steps of a window's grid, and no longer than the *)
(* window, has a start on a free day where no other window overlaps it.    *)
LEMMA WholeStepsFit ==
  ASSUME HoursOK, NEW w \in Hours, \A i \in Hours \ {w} : ~Overlapping(i, w),
         NEW length \in Nat \ {0}, length <= windows[w].end - windows[w].start,
         windows[w].step # 0, length % windows[w].step = 0
  PROVE  SlotStartsFor(FreeSlots([i \in Hours |-> windows[i]], {}, -1), length) # {}
<1> DEFINE free == FreeSlots([i \in Hours |-> windows[i]], {}, -1)
           next == NextBoundary(free)
           g == windows[w].step
           s == windows[w].start
           e == windows[w].end
<1>1. /\ g \in Nat \ {0} /\ s \in Minutes /\ e \in Minutes
      /\ s \in Nat /\ e \in Nat /\ e <= MinutesInADay /\ length <= e - s
  BY HoursTyped, MinutesAssumption DEF Window, Minutes
<1>2. /\ DOMAIN free = Hours
      /\ \A i \in Hours : free[i] = Tile(windows[i], {}, -1) /\ WindowOK(windows[i])
  BY HoursTyped, MinutesAssumption DEF FreeSlots, Window, WindowOK, Minutes
<1>3. FreeOK(free)
  BY <1>2, HoursTyped, FreeSlotsOK
<1>4. free[w] = {slot \in Pieces(windows[w]) : slot.start > -1}
  <2>1. Usable(windows[w])
    BY <1>1, MinutesAssumption DEF Usable
  <2> QED
    BY <1>2, <2>1 DEF Tile, Bookable
(* Every grid point with room after it is a boundary, and leads one step on. *)
<1>5. ASSUME NEW c \in Nat, s <= c, c + g <= e, (c - s) % g = 0
      PROVE  c \in DOMAIN next /\ next[c] = c + g
  <2>1. PICK slot : slot = [start |-> c, end |-> c + g]
    OBVIOUS
  <2>2. slot \in free[w]
    BY <1>1, <1>4, <1>5, <2>1 DEF Pieces
  <2>3. c \in DOMAIN next
    BY <1>2, <2>1, <2>2 DEF NextBoundary, Range
  <2>4. PICK i \in DOMAIN free : \E f \in free[i] : f.start = c /\ f.end = next[c]
    BY <1>3, <2>3, BoundaryIsASlot
  <2>5. PICK f \in free[i] : f.start = c /\ f.end = next[c]
    BY <2>4
  <2>6. i \in Hours /\ f \in Tile(windows[i], {}, -1) /\ WindowOK(windows[i])
    BY <1>2
  <2>7. PICK v : v = windows[i]
    OBVIOUS
  <2>8. /\ v.start \in Minutes /\ v.end \in Minutes /\ f.end = c + v.step
        /\ v.start <= c /\ f.end <= v.end /\ f.end \in Minutes /\ c < f.end
    BY <2>5, <2>6, <2>7, TileSound
  <2>9. v.start < e /\ s < v.end
    BY <1>1, <1>5, <2>8, MinutesAssumption DEF Minutes
  <2>10. i = w
    BY <2>6, <2>7, <2>9 DEF Overlapping
  <2> QED
    BY <2>3, <2>5, <2>7, <2>8, <2>10
<1>6. PICK k : k = length \div g
  OBVIOUS
<1>7. k \in Nat /\ length = k * g /\ k # 0
  <2> HIDE DEF g
  <2>1. k \in Nat /\ length = k * g
    BY <1>1, <1>6, WholeSteps DEF g
  <2> QED
    BY <1>1, <2>1
<1> HIDE DEF next, g, s, e
<1>8. ASSUME NEW n \in 0 .. k - 1
      PROVE  s + n * g \in DOMAIN next /\ next[s + n * g] = (s + n * g) + g
  <2>1. PICK d : d = n * g
    OBVIOUS
  <2>2. d \in Nat /\ d + g <= k * g
    <3>1. n \in Nat /\ n + 1 <= k
      BY <1>7
    <3>2. n * g \in Nat /\ (n + 1) * g = n * g + g /\ (n + 1) * g <= k * g
      BY <1>1, <1>7, <3>1
    <3> QED
      BY <2>1, <3>2
  <2>3. d % g = 0
    <3>1. n \in Nat /\ g \in Nat \ {0}
      BY <1>1, <1>7
    <3> QED
      BY <2>1, <2>2, <3>1, WholeSteps
  <2>4. s + d \in Nat /\ s <= s + d /\ (s + d) + g <= e /\ ((s + d) - s) % g = 0
    BY <1>1, <1>7, <2>2, <2>3
  <2> QED
    BY <1>5, <2>1, <2>4
<1>9. s + length \in Minutes
  BY <1>1, MinutesAssumption DEF Minutes
<1>10. Walk(next, s + length)[s]
  BY <1>1, <1>3, <1>7, <1>8, <1>9, BoundariesGoForward, StepsAreWalked DEF next
<1>11. \E f \in UNION Range(free) : f.start = s
  <2>1. s + 0 * g = s /\ 0 \in 0 .. k - 1
    BY <1>1, <1>7
  <2>2. s \in DOMAIN next
    BY <1>8, <2>1, Zenon
  <2> QED
    BY <2>2 DEF next, NextBoundary
<1>12. PICK f \in UNION Range(free) : f.start = s
  BY <1>11
<1>13. IsSlotFree(free, s, s + length)
  BY <1>1, <1>9, <1>10, <1>12 DEF IsSlotFree, next
<1>14. s + length <= MinutesInADay
  BY <1>9, MinutesAssumption DEF Minutes
<1> HIDE DEF free
<1>15. [start |-> f.start, end |-> f.start + length] \in SlotStartsFor(free, length)
  BY <1>12, <1>13, <1>14 DEF SlotStartsFor
<1> QED
  BY <1>15 DEF free

(* Run in one terminal at a time, and left to finish, seed_luke.py leaves  *)
(* hours in which every length it sells can be booked, for any catalogue   *)
(* whose lengths are whole steps of the seeded grid, as the code's are,    *)
(* whatever grid the owner had laid at the same hour before.               *)
THEOREM ScriptLeavesBookableHours ==
  ASSUME \A s, t \in Scripts : s = t,
         \A n \in DOMAIN Entries : Entries[n].length % Seeded.step = 0
  PROVE  Spec => []EveryLengthIsBookable
<1> DEFINE AllLaid == \A t \in Scripts : Laid(t)
<1>1. Init => AllLaid
  BY DEF Init, AccountsInit, AccountThreads, Idle, Laid
<1>2. IInv /\ AllLaid /\ [Next]_vars => AllLaid'
  BY LaidStep
<1>3. IInv /\ AllLaid => EveryLengthIsBookable
  <2> SUFFICES ASSUME IInv, AllLaid, NEW t \in Scripts, At(t, "finished"), calm
               PROVE  /\ Same # {}
                      /\ (\A i \in Hours \ {First(Same)} : ~Overlapping(i, First(Same))) =>
                           \A n \in DOMAIN Entries :
                             Entries[n].length <= windows[First(Same)].end - windows[First(Same)].start =>
                               SlotStartsFor(FreeSlots([i \in Hours |-> windows[i]], {}, -1),
                                             Entries[n].length) # {}
    BY DEF EveryLengthIsBookable
  <2>1. HoursOK /\ OnGrid
    BY DEF IInv, TablesOK, HoursOK, Laid, At
  <2>2. First(Same) \in Hours /\ windows[First(Same)].step = Seeded.step
    BY <2>1, HoursTyped DEF OnGrid
  <2>3. \A n \in DOMAIN Entries : Entries[n].length \in Nat \ {0}
    BY CatalogueAssumption DEF SlotMultiples
  <2>4. Seeded.step # 0
    <3>1. Seeded.step \in 5 .. 24 * 60
      BY CatalogueAssumption, Zenon
    <3> QED
      BY <3>1
  <2> QED
    BY <2>1, <2>2, <2>3, <2>4, WholeStepsFit DEF OnGrid
<1> HIDE DEF AllLaid
<1> QED
  BY <1>1, <1>2, <1>3, Invariant, PTL DEF Spec

-----------------------------------------------------------------------------
(* The last admin, when one request at a time changes accounts.            *)

(* Whoever asked for a switch is still an active admin while it is served, *)
(* and has not named is_active of the account in use. *)
Serving(t) ==
  job[t].pc \in {"active", "role"} =>
    /\ job[t].by \in ActiveAdmins
    /\ job[t].pc = "active" => job[t].target # job[t].by

LEMMA ServingStep ==
  ASSUME \A s, t \in AdminThreads : s = t, IInv, [Next]_vars,
         \A t \in AccountThreads : job[t].pc \in {"active", "role"} => t \in AdminThreads,
         \A t \in AccountThreads : Serving(t)
  PROVE  /\ \A t \in AccountThreads : job'[t].pc \in {"active", "role"} => t \in AdminThreads
         /\ \A t \in AccountThreads : Serving(t)'
         /\ ActiveAdmins # {} /\ ActiveAdmins' = {} =>
              \E t \in AdminThreads :
                At(t, "role") /\ ActiveAdmins = {job[t].by} /\ job[t].target = job[t].by
<1> DEFINE LastGaveUp ==
             ActiveAdmins # {} /\ ActiveAdmins' = {} =>
               \E t \in AdminThreads :
                 At(t, "role") /\ ActiveAdmins = {job[t].by} /\ job[t].target = job[t].by
           OnlyAdmins ==
             \A t \in AccountThreads : job[t].pc \in {"active", "role"} => t \in AdminThreads
           AllServing == \A t \in AccountThreads : Serving(t)
<1> SUFFICES OnlyAdmins' /\ AllServing' /\ LastGaveUp
  OBVIOUS
<1>a. /\ AccountsTypeOK /\ ThreadsOK /\ AdminThreads \subseteq AccountThreads
      /\ WebThreads \subseteq AccountThreads /\ Scripts \subseteq AccountThreads
  BY DEF IInv, TablesOK, AccountThreads
<1>b. \A next : \A t \in AccountThreads : Goto(t, next) =>
        job'[t] = next /\ \A s \in AccountThreads \ {t} : job'[s] = job[s]
  BY <1>a DEF ThreadsOK, Goto
(* A step of any other kind: admins stay what they are. *)
<1>c. ASSUME ActiveAdmins \subseteq ActiveAdmins',
             \A t \in AccountThreads : \/ job'[t] = job[t]
                                       \/ job'[t].pc \notin {"active", "role"}
      PROVE  OnlyAdmins' /\ AllServing' /\ LastGaveUp
  BY <1>c DEF Serving
<1>d. ASSUME NEW t \in AccountThreads, NEW next, Goto(t, next),
             next.pc \notin {"active", "role"}, ActiveAdmins \subseteq ActiveAdmins'
      PROVE  OnlyAdmins' /\ AllServing' /\ LastGaveUp
  BY <1>b, <1>c, <1>d
<1>e. ASSUME users' = users PROVE ActiveAdmins' = ActiveAdmins
  BY <1>e DEF ActiveAdmins
<1>f. ASSUME NEW t \in AccountThreads, NEW next, Insert(t, next), next.pc \notin {"active", "role"}
      PROVE  OnlyAdmins' /\ AllServing' /\ LastGaveUp
  <2>1. CASE job[t].email \in DOMAIN users
    BY <1>d, <1>e, <1>f, <2>1 DEF Insert, Idle, accounts
  <2>2. CASE job[t].email \notin DOMAIN users
    <3>1. users' = With(job[t].email, job[t].row) /\ Goto(t, next)
      BY <1>f, <2>2 DEF Insert
    <3>2. ActiveAdmins \subseteq ActiveAdmins'
      BY <2>2, <3>1 DEF With, ActiveAdmins
    <3> QED
      BY <1>d, <1>f, <3>1, <3>2
  <2> QED
    BY <2>1, <2>2
<1>1. ASSUME NEW t \in AdminThreads, NEW by \in DOMAIN users, NEW target,
             NEW active, NEW role, StartSwitch(t, by, target, active, role)
      PROVE  OnlyAdmins' /\ AllServing' /\ LastGaveUp
  <2>1. by \in ActiveAdmins /\ (active = Absent \/ target # by) /\ users' = users
    BY <1>1 DEF StartSwitch, Signed, MaySwitch, ActiveAdmins, accounts
  <2>2. /\ job'[t] = [pc |-> IF active = Absent THEN "role" ELSE "active",
                      by |-> by, target |-> target, active |-> active, role |-> role]
        /\ \A s \in AccountThreads \ {t} : job'[s] = job[s]
    BY <1>1, <1>a, <1>b DEF StartSwitch
  <2> QED
    BY <1>1, <1>e, <2>1, <2>2 DEF Serving
<1>2. ASSUME NEW t \in AdminThreads, UpdateActive(t)
      PROVE  OnlyAdmins' /\ AllServing' /\ LastGaveUp
  <2>1. /\ job[t].pc = "active" /\ job[t] \in SwitchJob
        /\ job[t].by \in ActiveAdmins /\ job[t].target # job[t].by
    BY <1>2, <1>a DEF UpdateActive, At, Serving, ThreadsOK, Fit, SwitchingOK
  <2>2. job[t].by \in ActiveAdmins'
    BY <1>2, <2>1 DEF UpdateActive, ActiveAdmins
  <2>3. /\ job'[t] = Idle \/ job'[t] = [job[t] EXCEPT !.pc = "role"]
        /\ \A s \in AccountThreads \ {t} : job'[s] = job[s]
    BY <1>2, <1>a, <1>b DEF UpdateActive
  <2>4. job'[t].pc # "active" /\ (job'[t].pc = "role" => job'[t].by = job[t].by)
    BY <2>1, <2>3 DEF SwitchJob, Idle
  <2>5. \A s \in AccountThreads \ {t} : job[s].pc \notin {"active", "role"}
    BY <1>a
  <2>6. AllServing'
    BY <2>2, <2>3, <2>4, <2>5 DEF Serving
  <2> QED
    BY <2>2, <2>3, <2>6
<1>3. ASSUME NEW t \in AdminThreads, UpdateRole(t)
      PROVE  OnlyAdmins' /\ AllServing' /\ LastGaveUp
  <2>1. job[t].pc = "role" /\ job[t].by \in ActiveAdmins
    BY <1>3, <1>a DEF UpdateRole, At, Serving
  <2>2. /\ job'[t] = Idle
        /\ \A s \in AccountThreads \ {t} : job'[s] = job[s] /\ job[s].pc \notin {"active", "role"}
    BY <1>3, <1>a, <1>b DEF UpdateRole
  <2>3. OnlyAdmins' /\ AllServing'
    BY <2>2 DEF Serving, Idle
  <2>4. \A e \in ActiveAdmins : e # job[t].target => e \in ActiveAdmins'
    BY <1>3 DEF UpdateRole, ActiveAdmins
  <2> QED
    BY <1>3, <2>1, <2>3, <2>4 DEF UpdateRole
<1>4. CASE AccountsNext
  <2>1. ASSUME NEW t \in AccountThreads, NEW e, NEW row, LookBeforeInsert(t, e, row)
        PROVE  OnlyAdmins' /\ AllServing' /\ LastGaveUp
    BY <1>d, <1>e, <2>1 DEF LookBeforeInsert, Adding, accounts
  <2>2. ASSUME NEW e \in Emails, Login(e) PROVE OnlyAdmins' /\ AllServing' /\ LastGaveUp
    BY <1>c, <1>e, <2>2 DEF Login
  <2>3. ASSUME NEW t \in AccountThreads, Insert(t, Idle)
        PROVE  OnlyAdmins' /\ AllServing' /\ LastGaveUp
    BY <1>f, <2>3 DEF Idle
  <2> QED
    BY <1>1, <1>2, <1>3, <1>4, <1>a, <2>1, <2>2, <2>3
       DEF AccountsNext, Switches, SignUp, AddGuest, SeedAdmin
<1>5. ASSUME NEW t \in WebThreads, OwnerNext(t) PROVE OnlyAdmins' /\ AllServing' /\ LastGaveUp
  <2>1. users' = users
    BY <1>5 DEF OwnerNext, CreateOffering, StartPatch, UpdateOffering, AddWindow, DeleteWindow, accounts
  <2>2. job' = job \/ \E next : Goto(t, next) /\ next.pc \notin {"active", "role"}
    <3>1. ASSUME NEW i, NEW patch, StartPatch(t, i, patch)
          PROVE  \E next : Goto(t, next) /\ next.pc \notin {"active", "role"}
      BY <3>1 DEF StartPatch
    <3>2. UpdateOffering(t) => Goto(t, Idle) /\ Idle.pc \notin {"active", "role"}
      BY DEF UpdateOffering, Idle
    <3>3. CASE \E title \in OwnerTitles, length \in AskedLengths : CreateOffering(t, title, length)
      BY <3>3 DEF CreateOffering
    <3>4. CASE (\E w \in OwnerWindows : AddWindow(t, w)) \/ (\E i \in Hours : DeleteWindow(t, i))
      BY <3>4 DEF AddWindow, DeleteWindow
    <3> QED
      BY <1>5, <3>1, <3>2, <3>3, <3>4 DEF OwnerNext
  <2> QED
    BY <1>a, <1>c, <1>d, <1>e, <2>1, <2>2
<1>6. ASSUME NEW t \in Scripts, ScriptNext(t) PROVE OnlyAdmins' /\ AllServing' /\ LastGaveUp
  <2>1. CASE InsertOwner(t)
    BY <1>a, <1>f, <2>1 DEF InsertOwner, Stage
  <2>2. CASE ~InsertOwner(t)
    <3>1. users' = users
      BY <1>6, <2>2 DEF ScriptNext, StartScript, FindWindow, InsertWindow, UpdateWindow,
                        StartOfferings, FindOffering, InsertOffering, Finish, Kill, accounts
    <3>2. \A n : Entry(n).pc \notin {"active", "role"}
      BY DEF Entry, Stage
    <3>3. ASSUME FindOffering(t)
          PROVE  [job[t] EXCEPT !.pc = "add"].pc = "add"
      <4>1. job[t] \in EntryJob
        BY <1>a, <3>3 DEF FindOffering, At, ThreadsOK, Fit
      <4> QED
        BY <4>1 DEF EntryJob
    <3>4. \E next : Goto(t, next) /\ next.pc \notin {"active", "role"}
      <4>1. CASE FindOffering(t)
        BY <3>2, <3>3, <4>1 DEF FindOffering
      <4>2. CASE StartOfferings(t) \/ InsertOffering(t)
        BY <3>2, <4>2 DEF StartOfferings, InsertOffering
      <4>3. CASE StartScript(t) \/ FindWindow(t) \/ InsertWindow(t) \/ UpdateWindow(t)
                 \/ Finish(t) \/ Kill(t)
        BY <4>3 DEF StartScript, FindWindow, Found, InsertWindow, UpdateWindow, Finish, Kill,
                    Idle, Stage, Adding
      <4> QED
        BY <1>6, <2>2, <4>1, <4>2, <4>3 DEF ScriptNext
    <3> QED
      BY <1>a, <1>d, <1>e, <3>1, <3>4
  <2> QED
    BY <2>1, <2>2
<1>7. CASE UNCHANGED vars
  BY <1>7, <1>c, <1>e DEF vars, accounts
<1> HIDE DEF OnlyAdmins, AllServing, LastGaveUp
<1> QED
  BY <1>4, <1>5, <1>6, <1>7 DEF Next

(* With one request at a time changing accounts, the last active admin is  *)
(* only ever lost by giving up the role itself, for any number of admins,  *)
(* sign-ups and scripts.                                                   *)
THEOREM OnlyTheLastAdminCanLeave ==
  ASSUME \A s, t \in AdminThreads : s = t
  PROVE  Spec => AnAdminRemains
<1> DEFINE OnlyAdmins ==
             \A t \in AccountThreads : job[t].pc \in {"active", "role"} => t \in AdminThreads
           AllServing == \A t \in AccountThreads : Serving(t)
           LastGaveUp ==
             ActiveAdmins # {} /\ ActiveAdmins' = {} =>
               \E t \in AdminThreads :
                 At(t, "role") /\ ActiveAdmins = {job[t].by} /\ job[t].target = job[t].by
<1>1. Init => OnlyAdmins /\ AllServing
  BY DEF Init, AccountsInit, Idle, Serving
<1>2. IInv /\ OnlyAdmins /\ AllServing /\ [Next]_vars => OnlyAdmins' /\ AllServing' /\ LastGaveUp
  BY ServingStep
<1>3. IInv /\ OnlyAdmins /\ AllServing /\ [Next]_vars => [LastGaveUp]_<<accounts, job, budget>>
  BY <1>2
<1>4. Spec => [](OnlyAdmins /\ AllServing)
  <2> HIDE DEF OnlyAdmins, AllServing
  <2> QED
    BY <1>1, <1>2, Invariant, PTL DEF Spec
<1>5. Spec => [][LastGaveUp]_<<accounts, job, budget>>
  <2> HIDE DEF OnlyAdmins, AllServing
  <2> QED
    BY <1>3, <1>4, Invariant, PTL DEF Spec
<1> QED
  BY <1>5 DEF AnAdminRemains
================================================================================
