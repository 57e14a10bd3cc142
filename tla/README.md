# Almanac, an appointment-booking platform: specification and proofs

TLA+ modules for the server side of the platform in `src/`: its calendar, its
appointments, its coffee-chat invites, its mailer, its reminder timer, its
accounts and a provider's catalogue with the script that fills it in. TLC checks
them on small instances; TLAPS proves the theorems of the `*Proofs` modules for
every value of the constants.

## How to run

    tlc -workers 2 -config MCMailerCallers.cfg MCMailer     # any run of the table below
    tlapm MailerProofs.tla                                  # any proof module

## The system

A Flask process (possibly several) over one SQL database, SQLite or Postgres.
Requests are served by threads; a mailer thread delivers e-mail from a queue in
memory; a scheduler thread sweeps reminders and invites every few minutes.
`database.py` commits after **every statement** (`execute`, `insert`), so a
handler is a sequence of separate transactions, and anything may happen between
two of them. That is the source of most of what is hard here. Two command-line
scripts, `seed_data.py` and `seed_luke.py`, write the same tables the same way.

| Component | State it keeps | Operations | Talks to |
|---|---|---|---|
| `calendar_logic` | none: reads availability, blocked_slots, appointments | free slots, is-slot-free, starts for a length | `database` |
| `routes/appointment_routes` | appointments | book, cancel, complete | calendar, `notifications` |
| `routes/availability_routes` | availability, blocked_slots | add and delete windows and blocks | — |
| `routes/user_routes` | users (role, is_active) | admin switch | `auth` |
| `auth` | none (tokens are with their owners) | who may call what | users |
| `routes/auth_routes` | users | register, log in | `auth`, `notifications` |
| `coffee_chats`, `routes/coffee_routes` | coffee_invites, guests' users rows | create, view, book, decline, nudge, revoke, expire | calendar, appointments |
| `coffee_notifications` | none | invite, nudge, booked and declined mail; the nudge sweep | `coffee_chats`, `mailer` |
| `mailer` | email_log, the queue, the worker | send, claim, deliver, mark | SMTP |
| `notifications` | none | booking, cancellation, completion mail; reminder scan | `mailer` |
| `scheduler` | one thread | sweep: reminders, then nudges | both of the above |
| `offerings`, `routes/offering_routes` | offerings | create, edit, hide | invites copy from it |
| `routes/email_routes` | none | delivery log, run reminders, test message | `notifications`, `mailer` |
| `seed_data`, `seed_luke` | users, availability, offerings | the first admin; a provider, its hours, its catalogue | `database` |
| `email_render`, `config`, `app`, `login_page`, templates, static | none that matters here | formatting, wiring, browser side | |

What makes each component correct:

- **Calendar**: it accepts an interval exactly when every minute is in the
  provider's hours, free, and still to come, whatever old or unreadable rows are
  stored.
- **Appointments**: nobody is double-booked; history is not rewritten; a
  cancelled or completed appointment stays so; both sides hear of it.
- **Invites**: one link, one booking; a booked invite stays booked and names
  its appointment; nobody is chased more than twice; silence ends in expiry.
- **Mailer**: one message for one key; the log tells the truth; what failed
  comes round again; nothing is left queued.
- **Reminders**: everybody is reminded in time, whatever failed or was restarted;
  nobody is reminded out of time, or of what was closed before the scan began.
- **Accounts**: an admin is made by the seed or by an admin; the last one is not
  switched off by accident.
- **Catalogue**: run again after any death, the script completes and duplicates
  nothing; what it sells can be booked on the hours it leaves.

What is hard: handlers interleaved between their statements, a status read and
then written by id alone, lists read once and worked through, a queue that a
restart loses and a table that it does not, retries racing one another.
`PROJECT.json` lists these as hazards, each at its line.

## Modules

| Module | What it is |
|---|---|
| `Calendar` | the slot engine as operators: `BlockRange`, `Tile` (a window's `Pieces`, kept when `Bookable`), `Walk` of `IsSlotFree` (a recursive function, no `RECURSIVE`), `SlotStartsFor` |
| `CalendarDay` | one date whose rows grow and whose clock moves, comparing the engine with a minute-by-minute reading |
| `Diary` | **abstract**: a ledger of disjoint entries, taken whole, given up for good |
| `Appointments` | users, availability, blocks, appointments and their handlers; extends `Calendar` |
| `OneUseLink` | **abstract**: a link that is used once, or closed, and never reopened |
| `CoffeeInvites` | invites, guests, nudges, the sweep, restarts |
| `MailPromise` | **abstract**: a key is claimed once and arrives once, unless a delivery failed |
| `Mailer` | `email_log`, queue, worker, callers, failures, restarts |
| `Reminders` | the timer, its sweep in two halves, the scan by hand, appointments that come and go; uses `MailPromise` |
| `Accounts` | users, tokens, registration, guests' accounts, the admin's switch, the first admin |
| `Catalogue` | offerings, a day's windows, their handlers and `seed_luke.py`; extends `Accounts` and `Calendar` |
| `CalendarProofs` | lemmas about the engine: what the walk accepts, what a slot is; used by the next three |
| `CalendarDayProofs`, `AppointmentsProofs`, `CatalogueProofs`, `MailerProofs`, `RemindersProofs`, `CoffeeInvitesProofs`, `OneUseLinkProofs` | theorems and their proofs |
| `MC…` | instances for TLC: small sets of model values, and the rows or budgets each run may use |

**From code to actions.** Each action is one SQL statement (or one step of the
mailer) with the tests the handler makes on its result. `pc` or `job[t].pc` is
the statement a thread has reached; what a handler has read and will still use is
in per-thread variables, and is dropped after its last use. Handlers of one write
whose earlier reads cannot change what it does (`add_block`, the admin's PATCH)
are one action. A PATCH that sets both `is_active` and `role` is two actions, as
it is two statements. A refused INSERT (unique index) is a disjunct of the INSERT's
action. Times are minutes since midnight; the "HH:MM" text the code compares has
the same order, and unreadable text is the model value `Unreadable`.

**Dates and times are text.** The booking routes store a date and a time as they were
sent. `strptime` checks the date and takes "2026-9-5" for 2026-09-05; the queries, the unique
index and the reminder scan compare the text; `add_block` alone insists on the padded form.
So a date of `Appointments` is a spelling: `Day` says which day's, `Padded` which ones
`add_block` takes, and everything the code compares as text is compared as spellings. The
properties speak of days: of the bookings that are `Written`, under a padded date, which the
code must keep apart whatever is booked under other spellings beside them. A time is a minute
or one of `OddTimes`: text that is not the HH:MM of a minute, which `book_appointment` stores when the end is the start, and of which
`_to_minutes` makes something (`Reads`: `int()` takes "9:0") or raises. In `Reminders`,
`SortsAt` is the place of an appointment's text among the clock's. `CoffeeInvites` names a slot in one
way; no property of it depends on what is free.

`Appointments` takes the mailer at its word: `send()` claims one `email_log` row
per appointment and kind. `Mailer` is where that word is examined, so the two
compose through the abstract promise. `Reminders` makes that use explicit: its
`Send` is `Claim` of an instance of `MailPromise`, or nothing when the key is
already claimed. *Claimed* is not *delivered*: that a failed delivery comes round
again is `RemindersAreRetried` of `Mailer`. `CoffeeInvites` likewise
reduces the calendar to slots on one grid, each free when no confirmed
appointment is in it, which is what `OneGridIsExact` shows of the engine.
`Catalogue` has no such reduction: whether a length the script sells can be
booked is asked of the engine of `Calendar` itself.

`Accounts` keeps the users table as a function on addresses (the address is
unique and no statement changes it or deletes a row) and a token as a member
of a set that only grows: no statement takes one back, and its expiry is left
out. Every request reads the row again, as `token_required` does. `made` says
which of the callers inserted the row; the code reads of it only whether the
password works. `Catalogue` keeps a deleted row's place as `Gone`, since ids
are not used again and a script may hold one.

`Reminders` counts time in steps; `StartsAt`, `Lead`, `Gap` and the rest are
steps. What it assumes of time is in one constant: a sweep or a request is over
within `SweepTime` of its beginning, which is reasonable of code that only
reads and writes tables and leaves delivery to the mailer's worker. A process
that dies is started again at once; how long it stays down is not the program's.

The definitions ending in `_Fault` are plausible mistakes, each next to what it
would replace; every property of a passing run is violated by one of them.

## Runs

| Run | What it shows | Bounds |
|---|---|---|
| `calendar_day` | no accepted interval holds a busy, past or closed minute; with one slot length nothing free is refused; offered starts hold | six-minute day, every interval, ≤ 2 windows of different grids (and zero-step, unreadable), 1 block, 2 bookings |
| `appointments_grid` | unique slots, history, refinement of `Diary` (which forbids two entries in one minute), with two threads and restarts anywhere | one slot of a grid, asked for under 2 spellings of the day, 2 clients, 1 appointment per history |
| `appointments_serial` | one request at a time: final statuses, one ending, time really free, everything announced, `Diary` | overlapping grids, blocks, one text that is no time and one that is a time unpadded, an admin switching the provider, 2 appointments, 2 spellings of the day |
| `appointments_overlap` ✗ | two bookings of several slots overlap | 2 threads, 2 clients, 2 asks |
| `coffee_serial` | one open invite per guest, booked is final, refinement of `OneUseLink` (which allows one use) | 2 guests, 2 invites, 2 slots, expiry and cancellations, the sweep in turn |
| `coffee_concurrent` | what two threads cannot break | 1 invite, 2 web threads of which one also sweeps |
| `coffee_sweep` | nudges capped and spaced, stale invites closed, bookings reach both sides | 1 web thread, 1 sweeper, a restart at any statement, 5 days, 2 nudges, due after a day |
| `coffee_two_bookings` ✗ | one token books twice | 2 web threads |
| `mailer_callers` | all the mailer's properties, refinement of `MailPromise` | 2 callers, 2 keys, 2 failures of each message (before or after the server took it), 1 restart, with and without a worker |
| `mailer_twice` ✗ | overlapping scans deliver a retried message twice | 2 callers, 1 failure, which is one |
| `reminders` | who is `Written` is reminded in time and never out of time, no thread ends | 1 timer, 1 route, 2 appointments of which one sorts late, 1 restart, 1 failed scan, any number of failed nudge halves, 11 steps |
| `catalogue` | admins come from the seed, the last one leaves only by its own hand, the script leaves a whole catalogue that can be booked | 2 web threads, 1 admin thread, 1 terminal, 3 addresses, 2 entries; three budgets of requests |

✗ marks a run that expects a violation; each is a finding in `PROJECT.json`.

**Why the bounds are enough.** The races here are between two parties (two
bookings, a booking and a sweep, two scans), so two threads show them; a second
appointment or invite is there where properties relate two rows. In
`appointments_grid` one row is enough for the two threads to race for, to cancel,
to complete and to announce; the *two-row* questions with concurrency are the
violation run, and the theorems `SlotsAreUnique` and `OneGridKeepsADiary` for every number of rows. A day of six minutes
holds two windows of different length and alignment with a block in the middle.
Two failures let a retry fail too.
In `reminders` the written appointment starts nine steps away and a scan reaches nine, so it is
in reach from the start; with a gap of two, a sweep of one, one restart and one failed scan the
longest wait `Patience` allows is nine, so its deadline falls on the start itself, and the clock goes
on past it. The other starts after four steps and sorts after eight: it is found by scans it should
not be found by, beside the first on their lists. In `catalogue` a budget is a scenario and says how many of
each request a behaviour may hold: accounts racing for an address and then
three switches; a script that meets an account half-made; a script killed
anywhere and run again with three edits of its owner around it.

**One thread, or two?** `StatusIsFinal`, `OneEnding`, `TakenTimeWasFree`,
`OneBookingPerInvite`, `BookedIsFinal`, `OneOpenInvite`, `BookingReachesBoth` and
`NudgesAreCapped` hold when requests are served one at a time and **fail with two threads** (or two
sweeps), because the code reads, commits and then writes by id (or, for `BookingReachesBoth`, reads
the invite again: two bookings with one token both write to the host about the appointment
linked last, and of the first the host is never told). So do
`AnAdminRemains` with two requests switching accounts at once (two admins switch each
other off) and `CatalogueIsWhole` with the script in two terminals (each looks,
then both insert); there the one-at-a-time is an admin's thread and a terminal, and everything
else stays concurrent. The three failures that contradict the
repository's own words most plainly are runs; the others are hazards. With two threads
the code keeps what `appointments_grid` and `coffee_concurrent` check. The cap on nudges is
one of automatic nudges: the route by which a host nudges does not test it.
README.md:236 of the repository says "one nudge"; the code sends two, as README.md:32 says.

**What other spellings break.** The site's own pages send the value of a date field
(app.js:277), which is padded. The routes do not insist on it, and both appointment runs book
the day under "2026-09-05" and under "2026-9-5". `TakenTimeWasFree` (but for the weekly hours, which
the code finds by the day) and `KeepsADiary` speak of the padded date only, because the
code does no better: with one thread and one grid, a booking
under either text does not see one under the other, nor, under the unpadded one, the
provider's blocks; both are confirmed and share their minutes. `UniqueActiveSlot` holds of the text, as
the index does. For the same reason `RemindedInTime`, and the time bound of `ReminderIsTimely`, are
about the appointments that are `Written` as the clock writes, though the run has another one:
that one is not reminded of in time, and can be reminded of long after its start. A booking whose start
and end are one text that is no time is stored too; from then on every lookup and
every booking of that provider's date (as it was written) raises, which `Raises` and `ReadBooked` model.

**Deadlock** is checked except in `CalendarDay`, where the bounds on rows end the
behaviour, in `Catalogue`, where the budgets do, and in `Mailer`, where a process
with nothing to send or to deliver is at rest. In `Reminders` the clock is stopped
by a thread that is late (`Tick` waits for its end), so a deadlock
there would be a thread that cannot end its sweep in time.

**Fairness.** A thread inside a handler goes on (`WF` of the handler's steps),
the mailer's worker loops for ever (`WF` of `Take`, `Deliver`, `Mark`), the
scheduler's thread comes round again (`WF` of `StartSweep`), and time passes (`WF`
of `Tick`). Nothing makes a client send a request, a delivery succeed or a
process die. `SF` of sending a scan key stands for a reminder that is still due
being in every scan; a caller that is busy from time to time comes back to it.
Fairness of handlers says nothing once the process has died: what a handler
held is gone. So liveness of an appointment's announcements is checked without
restarts, and `QueuedIsSettled` and `BookingReachesBoth` end at one;
`StaleInvitesAreClosed`, whose work list is read from the table again, goes on
across them. `RemindedInTime` needs no fairness: it is a deadline against the clock.

## Abstract specifications

- `Appointments` implements `Diary` (`entries` are the confirmed rows under padded dates, each with
  the day and the minutes it stands for): checked on one grid with two threads, and on overlapping
  grids with one, the day being booked under a second spelling as well; proved in both
  cases for any numbers of rows, spellings, threads and restarts. The run on
  overlapping times is the counterexample to more threads off a grid.
- `CoffeeInvites` implements `OneUseLink` with one thread and no restart: checked, and
  proved. A link is spent from the moment its appointment exists, before the invite
  says so; a death between the two statements leaves it usable again.
- `Mailer` implements `MailPromise` with any number of callers: checked, and proved.
  `Reminders` is built on it.

## What is proved

From the assumptions named in the modules (`MinutesAssumption`, `CalendarDayAssumption`,
`AppointmentsAssumption`, `MailerAssumption`, `CoffeeAssumption`, `RemindersAssumption`,
`AccountsAssumption`, `CatalogueAssumption`: constants are of their type, stored times are
times of day, missing or unreadable, `Null` and
`Gone` are no key, status, request or row, the timer's intervals are as `config.py` and
`start()` leave them, the catalogue's own lengths fit its multiples and its titles
differ from those the owner invents), for all values of the constants:

**The slot engine** (`CalendarProofs`, `CalendarDayProofs`)

The walk of `is_slot_free` is a recursive function, and induction over data is out of
the provers' reach. What is true of every minute of a day is proved instead
from the *last* minute at which it could fail (`LastOne`, from the well-foundedness of
`<` on the naturals): a boundary leads forward, so at the minute it leads to the fact
holds already.
- `WalkIsDefined`: the recursive definition does what its text says; then `WalkCovers`
  (what holds throughout every slot holds throughout what is accepted), `WalkIsStepped`
  and `StepsAreWalked` (with slots of one length, the walk accepts whole steps and those only).
- `AcceptedTimesAreFree`: `[]AcceptedTimeIsFree`, the engine's promise, for any rows.
  It follows from `AcceptedIsFree`, which `Appointments` uses as well.
- `OfferedStartsAreFree`: `[]OfferedStartsHold`.
- `OneGridIsWalkedExactly`: `[]OneGridIsExact`, assuming `ProperRows`: every block and
  booking covers at least a minute. The assumption is needed. A row 3–3 takes no minute, and
  `_tile` still drops the slot 2–4 for it. The route refuses such a block today but not
  such an appointment (a hazard at `calendar_logic.py:171`).

**Appointments** (`AppointmentsProofs`)
- `Typed`: `Spec => []TypeOK`, with what each
  thread holds at each statement; it is inductive as it stands.
- `SlotsAreUnique`: `Spec => []UniqueActiveSlot`. Inductive given `TypeOK`: only
  an INSERT makes a confirmed row, and only if `SlotTaken` is false *in that step*;
  an UPDATE never confirms. `OnlyTwoWriters` discharges the other actions.
- `HistoryHolds`: `Spec => HistoryIsKept`, from the same two effects.
- `EndingsAreFinal`, `OneEndingIsTold`: with one thread (`OneThread`),
  `StatusIsFinal` and `[]OneEnding`, restarts and account switches included. The invariant `Serially`
  says that a thread about to write a status has a confirmed row before it, and that
  every message it has still to send fits the status stored.
- `OnlyFreeTimeIsTaken`: `TakenTimeWasFree` under `OneThread`, for any hours, blocks,
  grids, spellings of dates and texts sent for times. The invariant `CalmReads` says that what the thread has read is still
  in the tables, statement by statement (`ReadsHold`); then the walk's promise about the
  rows read is one about the tables.
- `OneThreadKeepsADiary` and `OneThreadBooksOnce`: the refinement of `Diary`, and
  `[]WrittenOnce` (no two confirmed appointments under padded dates share a minute), under
  `OneThread`, from the same invariant. Padded dates of one day are one text
  (`SameDaySameText`), which is why the code's comparison of texts is enough for them.
- `OneGridKeepsADiary` and `OneGridBooksOnce`: the same two for **any number of threads**
  under `OnAGrid`: intervals clients may ask for that overlap have the same start. Then
  overlapping is colliding in the unique index, which is tested in the step that inserts
  (`SlotsAreUnique`); `FromAsks` carries each row's interval back to a request. The run `appointments_overlap`
  has neither one thread nor a grid; that `NoDoubleBooking` itself, which
  speaks of every spelling, is not proved is the code's doing.

**Mailer** (`MailerProofs`)
- `Typed`, and `SentIsReal`: `Spec => []SentMeansDelivered`. Not
  inductive: strengthened by `SuccessIsReal` (whoever is about to record success has
  delivered).
- `MailedOnce`: `Spec => []MailedOnceUnlessFailed`. The invariant
  `Orderly` says of each key without a failure that it is in one place at most,
  a caller's hand, one position of the queue, the worker's hand, and nowhere
  once it has arrived (`Solo`); that it is not being retried (`NoRetries`); and that
  whatever is carried has its row (`Claimed`). `Solo` alone is not inductive: without
  `NoRetries` a reclaim would start a second message.
- `OneUnderWay`: `Spec => []OneMessageUnderWay`, from `Orderly`, `SuccessIsReal` and
  `UnderWay`, which follows the message one step further, to the hand that records it,
  and ties every place it can be in to a row that says queued.
- `PromiseKept`: `Spec => KeepsThePromise`, the refinement of `MailPromise`, each
  step a step or a stutter, from `Orderly`.

**Reminders** (`RemindersProofs`)
- `Typed`: no failure ends a scheduler's thread.
- `WrittenIsRemindedInTime`: `Spec => []RemindedInTime`, for appointments written as the clock
  writes, whatever others sort among them. The invariant gives each
  thread a clock (`Clock`: nobody is past the end of a wait or a sweep), says what a list
  may still hold (`Listed`), and sets each scheduler a `Deadline` for each appointment
  that is owed reminders: while it waits, the wake-up is early enough; while it
  reminds, either the appointment is on the list or the scan began before the
  appointment was in reach; while it nudges, a whole round is still to spare.
  `Patience` grows with every restart and every failed scan by exactly what they cost.
- `RemindersAreTimely`: `Spec => ReminderIsTimely`, from `Listed`.

**Accounts and catalogue** (`CatalogueProofs`)
- `Typed`, and `AdminsAreGranted`: `Spec => []AdminsComeFromTheSeed`. Inductive with what
  each thread holds (`Fit`): a row on its way into the table is an admin's only if
  it is the seed's, and a switch is only under way if the seed's account exists.
- `ScriptLeavesAWholeCatalogue`: `[]CatalogueIsWhole`, one terminal. The invariant:
  no title of the catalogue is there twice (`Once`), and, while the owner writes nothing,
  every entry before the one the script has reached is there (`Progress`). Any number of
  kills, since a run looks again.
- `ScriptLeavesBookableHours`: `[]EveryLengthIsBookable`, one terminal, for any catalogue
  whose lengths are whole steps of the seeded grid (the code's are: a quarter of an
  hour, and 30 to 90 minutes). The invariant `Laid` says what the script knows of the
  hours at each statement while its owner writes nothing; at the end the row it goes by
  is on the seeded grid (`OnGrid`), and `StepsAreWalked` does the rest.
- `OnlyTheLastAdminCanLeave`: `AnAdminRemains`, one admin request at a time. The
  one who asked is still an active admin when the UPDATE is run, unless it is the target itself.

**Invites** (`CoffeeInvitesProofs`, `OneUseLinkProofs`)
- `Typed`, `BookedInvitesNameTheirs`, `OnlyLapsedInvitesExpire`: for any
  number of threads and restarts. The invariant (`Holds`) says of a thread about to link that its appointment
  was made from its invite, and of what a sweep lists that it had lapsed when it was
  read: dates do not change and time does not go back, so it still has.
- `NudgesHaveACap` and `NudgesKeepTheirDistance`: `[]NudgesAreCapped` and `NudgesAreSpaced` for
  any number of invites, web threads and restarts, under `OneSweeper`: one sweep thread, and no nudges by
  hand, since the route a host nudges by tests neither the cap nor the interval. The
  invariant `Chased` ties the messages in the log to `nudge_count` across restarts
  (`Counted`: a message that is not counted is in the sweeper's hand, or was when a
  process died) and the sweeper's list to the rows (`Chases`: each invite on it
  is still below the cap and due).
- Under `OneAtATime` (one thread, no restart): `OneLiveLink`, `OneAppointment`,
  `BookedStaysBooked` and `ImplementsOneUseLink`, the refinement of `OneUseLink`. The invariant
  `Serial` says that what the handler found is still so (`Found`), that
  an invite has at most one appointment, and that an invite with an
  appointment is booked or about to be linked. Each step is then one of a few kinds
  (`Quiet`, `Restated`, `Issued`, `Used`, `Settled`), each a step of the link or none.

Every invariant and every action property that a passing run checks, and each of the three
refinements, is stated by a theorem above. Only model-checked: the leads-to
properties, `BookingIsAnnounced`, `CancellationIsAnnounced`, `StaleInvitesAreClosed`,
`BookingReachesBoth`, `QueuedIsSettled` and `RemindersAreRetried`, since liveness under
fairness and `ENABLED` are out of the prover's reach.

## Not modelled, and why

- Passwords, token encoding and expiry (cryptography); rendering, templates, the
  browser (no server state); configuration.
- `login_page.py`: a second, stand-alone program with a database file of its own, whose
  register and login are those of `auth_routes`.
- Prices, categories, wording and the public page of `offerings` (formatting), and
  requests on another provider's rows, which are turned away before a write.
- The length an invite copies from its offering: invites of `CoffeeInvites` have one
  length. No statement writes the column after the INSERT, so an edited offering leaves
  its invites as they were; a property would only restate that.
- `slot_starts_for` reads the tables again for every start it tries; `SlotStartsFor` is given one
  reading of them. What it offers is advice to the guest; `book` asks `is_slot_free` again.
- Dates `strptime` refuses: such a request stores nothing.
- SQL statements do not fail, except on a unique index (and whole scans, in
  `Reminders`). A nudge `send_nudge` fails to hand over is counted all the same; it only
  makes fewer of them. What differs between SQLite and Postgres is not modelled.
- `is_active` is a Boolean; another number in a PATCH is out.
- `seed_luke.py` in two terminals at once, and its days other than one: nothing it does with a day looks at another.
- Messages with no appointment are never de-duplicated by the code and so are not keys
  of `Mailer`; `CoffeeInvites` counts them. Several processes sharing the database are
  covered as more threads for the tables and as more schedulers in `Reminders`, but `Mailer`
  has one queue and one worker.

## Plan

Done: calendar, appointments, invites with restarts, mailer, reminders and scheduler,
accounts, catalogue and seeds. Next, in order:

1. The safety half of the leads-to properties, as invariants: while a handler lives,
   what it has still to announce is in its hands (`Announced`, `Inserted`), so that what is
   left to fairness is only that it goes on.
2. `CoffeeInvites` takes a slot to be one cell of a grid, free when nobody has it: the theorem
   that on such a calendar `IsSlotFree` says just that, from `OneGridIsWalkedExactly`.
3. What two threads keep of the properties that need one: which fields of an
   invite a lost update can still touch.
