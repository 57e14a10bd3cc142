----------------------------- MODULE Catalogue -----------------------------
(***************************************************************************)
(* A provider's priced catalogue (offerings.py, routes/offering_routes.py) *)
(* and the script that fills it in, seed_luke.py, which is run again and   *)
(* again, may be killed half-way, and shares its tables with the owner's   *)
(* own requests.  Accounts has the users; Calendar says what can be booked.*)
(*                                                                         *)
(* One provider, and one day of the week: nothing the script or a handler  *)
(* does with one day looks at another.  Ids are never used again, so a     *)
(* table is a sequence and a deleted row leaves Gone.  Prices and wording  *)
(* are left out.                                                           *)
(***************************************************************************)
EXTENDS Accounts, Calendar

CONSTANTS
  Owner,          \* the address of EMAIL
  Seeded,         \* the day's row of AVAILABILITY, [start, end, step]
  Entries,        \* CATALOGUE, a sequence of [title, length]
  OwnerTitles,    \* what the owner calls things; not titles of CATALOGUE
  AskedLengths,   \* lengths the owner asks for
  OwnerWindows,   \* hours the owner adds
  Gone

SlotMultiples == {15, 30, 45, 60, 90}

Titles == OwnerTitles \union {Entries[n].title : n \in DOMAIN Entries}

ASSUME CatalogueAssumption ==
  /\ Owner \in Emails /\ Owner # AdminEmail
  /\ Len(Entries) \in Nat /\ DOMAIN Entries = 1 .. Len(Entries)
  /\ \A n \in DOMAIN Entries :
       Entries[n].title \notin OwnerTitles /\ Entries[n].length \in SlotMultiples
  /\ AskedLengths \subseteq Nat /\ Absent \notin AskedLengths
  /\ OwnerWindows \union {Seeded} \subseteq [start : Minutes, end : Minutes, step : Nat]
  /\ Gone \notin [title : Titles, length : SlotMultiples, live : BOOLEAN]
  /\ Gone \notin [start : Minutes, end : Minutes, step : Nat]
  /\ Seeded.start < Seeded.end /\ Seeded.step \in 5 .. 24 * 60

VARIABLES
  offerings,  \* the table: [title, length, live] by id
  windows,    \* availability on the day: [start, end, step] by id
  calm        \* no owner's request has written since the script was started;
              \* only properties read it

vars == <<accounts, job, budget, offerings, windows, calm>>
tables == <<offerings, windows>>

Init ==
  /\ AccountsInit
  /\ offerings = << >> /\ windows = << >>
  /\ calm = FALSE

Rows == {i \in DOMAIN offerings : offerings[i] # Gone}
Hours == {i \in DOMAIN windows : windows[i] # Gone}

-----------------------------------------------------------------------------
(* The owner's requests.                                                   *)

(* _validate, in create() and in update().  The fault takes what is asked. *)
Valid_Fault(length) == length \in AskedLengths \union {Absent}
Valid(length) == length \in SlotMultiples \union {Absent}

CreateOffering(t, title, length) ==
  /\ At(t, "idle") /\ Spend("edits")
  /\ Signed(Owner, {"provider", "admin"})
  /\ Valid(length)
  /\ offerings' = Append(offerings, [title |-> title, length |-> length, live |-> TRUE])
  /\ calm' = FALSE
  /\ UNCHANGED <<accounts, job, windows>>

Keep == [title |-> Absent, length |-> Absent, live |-> Absent]

(* update() and deactivate() read the row first; a patch keeps what it     *)
(* does not name.                                                          *)
StartPatch(t, i, patch) ==
  /\ At(t, "idle") /\ Spend("edits")
  /\ Signed(Owner, {"provider", "admin"})
  /\ Valid(patch.length)
  /\ Goto(t, [pc |-> "patch", id |-> i, patch |-> patch])
  /\ UNCHANGED <<accounts, tables, calm>>

Patched(row, patch) == [f \in DOMAIN row |-> IF patch[f] = Absent THEN row[f] ELSE patch[f]]

(* The UPDATE by id: of nothing, when --reset has deleted the row. *)
UpdateOffering(t) ==
  LET i == job[t].id
  IN /\ At(t, "patch")
     /\ offerings' = [offerings EXCEPT ![i] = IF @ = Gone THEN Gone ELSE Patched(@, job[t].patch)]
     /\ calm' = FALSE
     /\ Goto(t, Idle)
     /\ UNCHANGED <<accounts, budget, windows>>

(* _window_problem *)
Acceptable(w) == w.start < w.end /\ w.step \in 5 .. 24 * 60

AddWindow(t, w) ==
  /\ At(t, "idle") /\ Spend("edits")
  /\ Signed(Owner, {"provider"})
  /\ Acceptable(w)
  /\ windows' = Append(windows, w)
  /\ calm' = FALSE
  /\ UNCHANGED <<accounts, job, offerings>>

(* A second DELETE of the row finds nothing, as the SELECT before it did. *)
DeleteWindow(t, i) ==
  /\ At(t, "idle") /\ Spend("edits")
  /\ Signed(Owner, {"provider"})
  /\ windows' = [windows EXCEPT ![i] = Gone]
  /\ calm' = FALSE
  /\ UNCHANGED <<accounts, job, offerings>>

OwnerNext(t) ==
  \/ \E title \in OwnerTitles, length \in AskedLengths : CreateOffering(t, title, length)
  \/ \E i \in Rows :
       \/ \E title \in OwnerTitles : StartPatch(t, i, [Keep EXCEPT !.title = title])
       \/ \E length \in AskedLengths : StartPatch(t, i, [Keep EXCEPT !.length = length])
       \/ \E live \in BOOLEAN : StartPatch(t, i, [Keep EXCEPT !.live = live])
  \/ UpdateOffering(t)
  \/ \E w \in OwnerWindows : AddWindow(t, w)
  \/ \E i \in Hours : DeleteWindow(t, i)

-----------------------------------------------------------------------------
(* seed_luke.main(): ensure_luke, ensure_availability, ensure_offerings.   *)

Stage(label) == [pc |-> label, id |-> 0]

StartScript(t) ==
  /\ At(t, "idle") /\ Spend("catalogues")
  /\ calm' = TRUE
  /\ Goto(t, IF Owner \in DOMAIN users THEN Stage("windows")
             ELSE Adding(Owner, Row("provider", "seed")))
  /\ UNCHANGED <<accounts, tables>>

InsertOwner(t) ==
  /\ At(t, "insert") /\ job[t].email = Owner
  /\ Insert(t, Stage("windows"))
  /\ UNCHANGED <<tables, calm>>

(* Rows of the day that start when the seeded one does: the first is taken *)
(* for it, and its grid corrected.  The fault leaves a stale grid alone.   *)
Same == {i \in Hours : windows[i].start = Seeded.start}
First(ids) == CHOOSE i \in ids : \A j \in ids : i <= j

Found_Fault(t) == Goto(t, Stage("offerings"))

Found(t) ==
  LET i == First(Same)
  IN Goto(t, IF windows[i].step = Seeded.step THEN Stage("offerings")
             ELSE [Stage("fixWindow") EXCEPT !.id = i])

FindWindow(t) ==
  /\ At(t, "windows")
  /\ IF Same = {} THEN Goto(t, Stage("addWindow")) ELSE Found(t)
  /\ UNCHANGED <<accounts, budget, tables, calm>>

InsertWindow(t) ==
  /\ At(t, "addWindow")
  /\ windows' = Append(windows, Seeded)
  /\ Goto(t, Stage("offerings"))
  /\ UNCHANGED <<accounts, budget, offerings, calm>>

UpdateWindow(t) ==
  LET i == job[t].id
  IN /\ At(t, "fixWindow")
     /\ windows' = [windows EXCEPT ![i] = IF @ = Gone THEN Gone ELSE [@ EXCEPT !.step = Seeded.step]]
     /\ Goto(t, Stage("offerings"))
     /\ UNCHANGED <<accounts, budget, offerings, calm>>

Entry(n) == IF n > Len(Entries) THEN Stage("finished") ELSE [Stage("look") EXCEPT !.id = n]

(* With --reset the owner's offerings are deleted before the first look. *)
StartOfferings(t) ==
  /\ At(t, "offerings")
  /\ \/ UNCHANGED offerings
     \/ offerings' = [i \in DOMAIN offerings |-> Gone]
  /\ Goto(t, Entry(1))
  /\ UNCHANGED <<accounts, budget, windows, calm>>

(* By title, shown or hidden.  The fault looks where a page would.         *)
Titled_Fault(title) == {i \in Rows : offerings[i].title = title /\ offerings[i].live}
Titled(title) == {i \in Rows : offerings[i].title = title}

FindOffering(t) ==
  LET n == job[t].id
  IN /\ At(t, "look")
     /\ Goto(t, IF Titled(Entries[n].title) # {} THEN Entry(n + 1) ELSE [job[t] EXCEPT !.pc = "add"])
     /\ UNCHANGED <<accounts, budget, tables, calm>>

InsertOffering(t) ==
  LET entry == Entries[job[t].id]
  IN /\ At(t, "add")
     /\ offerings' = Append(offerings, [title |-> entry.title, length |-> entry.length, live |-> TRUE])
     /\ Goto(t, Entry(job[t].id + 1))
     /\ UNCHANGED <<accounts, budget, windows, calm>>

Finish(t) ==
  /\ At(t, "finished")
  /\ Goto(t, Idle)
  /\ UNCHANGED <<accounts, budget, tables, calm>>

(* Ctrl-C, or a connection lost, between two statements. *)
Kill(t) ==
  /\ ~At(t, "idle") /\ Spend("kills")
  /\ Goto(t, Idle)
  /\ UNCHANGED <<accounts, tables, calm>>

ScriptNext(t) ==
  \/ StartScript(t) \/ InsertOwner(t)
  \/ FindWindow(t) \/ InsertWindow(t) \/ UpdateWindow(t)
  \/ StartOfferings(t) \/ FindOffering(t) \/ InsertOffering(t)
  \/ Finish(t) \/ Kill(t)

Next ==
  \/ AccountsNext /\ UNCHANGED <<tables, calm>>
  \/ \E t \in WebThreads : OwnerNext(t)
  \/ \E t \in Scripts : ScriptNext(t)

Spec == Init /\ [][Next]_vars

-----------------------------------------------------------------------------
TypeOK ==
  /\ AccountsTypeOK
  /\ \A i \in Rows : offerings[i] \in [title : Titles, length : SlotMultiples, live : BOOLEAN]
  /\ \A i \in Hours : Acceptable(windows[i])
  /\ calm \in BOOLEAN

(* "Running it twice does not create two accounts or duplicate the         *)
(* catalogue" (seed_luke.py:12-14): a run that is left to finish leaves    *)
(* every entry there exactly once, whatever earlier runs were killed and   *)
(* wherever, and whatever the owner hid, renamed or deleted before.        *)
CatalogueIsWhole ==
  \A t \in Scripts :
    At(t, "finished") /\ calm =>
      \A n \in DOMAIN Entries :
        Cardinality({i \in Rows : offerings[i].title = Entries[n].title}) = 1

Overlapping(i, j) == windows[i].start < windows[j].end /\ windows[j].start < windows[i].end

(* "On a 30-minute grid a 45-minute session has no valid start time        *)
(* anywhere in the day" (seed_luke.py:39-40, offerings.py:33-35): after a  *)
(* run left to finish, every length the catalogue sells that fits the      *)
(* window the script found or made has a start there on a free day, even   *)
(* where the hours had been deleted and laid again by hand on another grid.*)
EveryLengthIsBookable ==
  \A t \in Scripts :
    At(t, "finished") /\ calm =>
      /\ Same # {}
      /\ LET w == First(Same)
             free == FreeSlots([i \in Hours |-> windows[i]], {}, -1)
         IN (\A i \in Hours \ {w} : ~Overlapping(i, w)) =>
              \A n \in DOMAIN Entries :
                Entries[n].length <= windows[w].end - windows[w].start =>
                  SlotStartsFor(free, Entries[n].length) # {}

=============================================================================
