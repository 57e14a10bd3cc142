------------------------------ MODULE Accounts ------------------------------
(***************************************************************************)
(* Who has an account, who may use it, and who administers: auth_routes.py *)
(* and auth.py, the guest accounts of coffee_chats.py, the admin's switch  *)
(* of user_routes.py and the first admin of seed_data.py.                  *)
(*                                                                         *)
(* users.email is unique and no statement changes it, so the table is a    *)
(* function on addresses; no statement deletes a user.  As elsewhere, an   *)
(* action is one SQL statement with the tests made on its result.          *)
(*                                                                         *)
(* A definition whose name ends in _Fault is the definition after it with  *)
(* one plausible mistake, kept to show that the runs would notice it.      *)
(***************************************************************************)
EXTENDS Integers, FiniteSets

CONSTANTS
  WebThreads,    \* threads serving requests
  AdminThreads,  \* threads serving PATCH /api/admin/users/<id>
  Scripts,       \* terminals in which seed_data.py, or another script, runs
  Emails, AdminEmail,
  Budgets,       \* bounds: how many of each request a behaviour may hold
  Absent         \* a field a request does not name

AccountThreads == WebThreads \union AdminThreads \union Scripts
Requests == {"signups", "guests", "seeds", "switches", "catalogues", "kills", "edits"}

Roles == {"admin", "provider", "client"}

ASSUME AccountsAssumption ==
  /\ AdminEmail \in Emails
  /\ Budgets \subseteq [Requests -> Nat]
  /\ Absent \notin BOOLEAN /\ Absent \notin Roles

VARIABLES
  users,   \* the users table: address to [role, active, made]; made says who
           \* inserted the row, and with it whether its password works
  tokens,  \* addresses that were handed a token; none expires
  job,     \* per thread: its handler and what it holds
  budget   \* requests still to come

accounts == <<users, tokens>>

SelfSignupRoles == {"client", "provider"}

Row(role, made) == [role |-> role, active |-> TRUE, made |-> made]
Idle == [pc |-> "idle"]
Adding(e, row) == [pc |-> "insert", email |-> e, row |-> row]

AccountsInit ==
  /\ users = << >>
  /\ tokens = {}
  /\ job = [t \in AccountThreads |-> Idle]
  /\ budget \in Budgets

At(t, label) == job[t].pc = label
Goto(t, next) == job' = [job EXCEPT ![t] = next]
Spend(what) == budget[what] > 0 /\ budget' = [budget EXCEPT ![what] = @ - 1]

-----------------------------------------------------------------------------
(* Adding an account: four callers look for the address first, and return  *)
(* without a write when it is there.                                       *)

LookBeforeInsert(t, e, row) ==
  /\ At(t, "idle")
  /\ e \notin DOMAIN users
  /\ Goto(t, Adding(e, row))
  /\ UNCHANGED accounts

(* register() *)
SignUp(t, e) ==
  /\ Spend("signups")
  /\ \E role \in SelfSignupRoles : LookBeforeInsert(t, e, Row(role, "signup"))

(* _find_or_create_guest: an account whose password matches nothing. *)
AddGuest(t, e) ==
  /\ Spend("guests")
  /\ LookBeforeInsert(t, e, Row("client", "invite"))

(* seed_data.main() goes by the address alone. *)
SeedAdmin(t) ==
  /\ Spend("seeds")
  /\ LookBeforeInsert(t, AdminEmail, Row("admin", "seed"))

With(e, row) == [x \in DOMAIN users \union {e} |-> IF x = e THEN row ELSE users[x]]

(* The INSERT, which the unique address may refuse: the request or the     *)
(* script then ends in an error.  register() answers with a token.         *)
Insert(t, next) ==
  LET e == job[t].email
  IN /\ At(t, "insert")
     /\ IF e \in DOMAIN users
        THEN UNCHANGED accounts /\ Goto(t, Idle)
        ELSE /\ users' = With(e, job[t].row)
             /\ tokens' = IF job[t].row.made = "signup" THEN tokens \union {e} ELSE tokens
             /\ Goto(t, next)
     /\ UNCHANGED budget

HasPassword(e) == users[e].made # "invite"

Login(e) ==
  /\ e \in DOMAIN users
  /\ HasPassword(e)
  /\ users[e].active
  /\ tokens' = tokens \union {e}
  /\ UNCHANGED <<users, job, budget>>

-----------------------------------------------------------------------------
(* token_required and roles_required read the row again for every request. *)
(* The fault is a route without the second decorator.                      *)
Signed_Fault(e, roles) == e \in tokens /\ users[e].active
Signed(e, roles) == e \in tokens /\ users[e].active /\ users[e].role \in roles

(* A PATCH may name either field, or both.                                 *)
(* Nobody may name is_active on the account in use; the fault drops that.  *)
MaySwitch_Fault(by, target, active) == target \in DOMAIN users
MaySwitch(by, target, active) == active = Absent \/ target # by

StartSwitch(t, by, target, active, role) ==
  /\ At(t, "idle")
  /\ Spend("switches")
  /\ Signed(by, {"admin"})
  /\ MaySwitch(by, target, active)
  /\ Goto(t, [pc |-> IF active = Absent THEN "role" ELSE "active",
              by |-> by, target |-> target, active |-> active, role |-> role])
  /\ UNCHANGED accounts

UpdateActive(t) ==
  /\ At(t, "active")
  /\ users' = [users EXCEPT ![job[t].target].active = job[t].active]
  /\ Goto(t, IF job[t].role = Absent THEN Idle ELSE [job[t] EXCEPT !.pc = "role"])
  /\ UNCHANGED <<tokens, budget>>

UpdateRole(t) ==
  /\ At(t, "role")
  /\ users' = [users EXCEPT ![job[t].target].role = job[t].role]
  /\ Goto(t, Idle)
  /\ UNCHANGED <<tokens, budget>>

Switches(t) ==
  \/ \E by, target \in DOMAIN users, active \in BOOLEAN \union {Absent}, role \in Roles \union {Absent} :
       ~(active = Absent /\ role = Absent) /\ StartSwitch(t, by, target, active, role)
  \/ UpdateActive(t)
  \/ UpdateRole(t)

AccountsNext ==
  \/ \E t \in WebThreads, e \in Emails : SignUp(t, e) \/ AddGuest(t, e)
  \/ \E t \in WebThreads : Insert(t, Idle)
  \/ \E t \in Scripts : SeedAdmin(t) \/ (job[t].pc = "insert" /\ job[t].email = AdminEmail /\ Insert(t, Idle))
  \/ \E e \in Emails : Login(e)
  \/ \E t \in AdminThreads : Switches(t)

-----------------------------------------------------------------------------
UserRow == [role : Roles, active : BOOLEAN, made : {"signup", "invite", "seed"}]

AccountsTypeOK ==
  /\ DOMAIN users \subseteq Emails
  /\ \A e \in DOMAIN users : users[e] \in UserRow
  /\ tokens \subseteq DOMAIN users
  /\ budget \in [Requests -> Nat]

ActiveAdmins == {e \in DOMAIN users : users[e].role = "admin" /\ users[e].active}

(* "It is granted, never claimed" (_registration_problem,                  *)
(* auth_routes.py:26-27): wherever there is an admin, active or not, there *)
(* is the account seed_data.py inserted, whoever raced the script for its  *)
(* address and however roles were handed on since.                         *)
AdminsComeFromTheSeed ==
  (\E e \in DOMAIN users : users[e].role = "admin") =>
    AdminEmail \in DOMAIN users /\ users[AdminEmail].made = "seed"

(* With one admin at work at a time, the platform loses its last active    *)
(* admin in one way only: that admin gives up the role itself, which       *)
(* nothing prevents ("You can't deactivate your own account",              *)
(* user_routes.py:42-43).                                                  *)
AnAdminRemains ==
  [][ActiveAdmins # {} /\ ActiveAdmins' = {} =>
       \E t \in AdminThreads :
         At(t, "role") /\ ActiveAdmins = {job[t].by} /\ job[t].target = job[t].by]_<<accounts, job, budget>>

=============================================================================
