------------------------------- MODULE Mailer -------------------------------
(***************************************************************************)
(* mailer.py: send() claims a row of email_log and hands the message to a  *)
(* queue in memory; one worker thread delivers and records what happened.  *)
(*                                                                         *)
(* A message is known by its key, the (appointment, kind, recipient) that  *)
(* the unique index is over; messages with no appointment are never        *)
(* de-duplicated and are left out.  Callers are threads: a handler sends   *)
(* each of its keys once, a reminder scan sends the same keys every time.  *)
(*                                                                         *)
(* A definition whose name ends in _Fault is the definition after it with  *)
(* one plausible mistake, kept to show that the runs would notice it.      *)
(***************************************************************************)
EXTENDS Integers, Sequences, SequencesExt, FiniteSets

CONSTANTS
  Callers,      \* threads that call send()
  OnceKeys,     \* messages a handler sends once, when something happens
  ScanKeys,     \* reminders: sent again by every scan
  WorkerRuns,   \* whether init_app has started the worker, as the process
                \* may have been begun: a set of Booleans
  LateFailures, \* whether a delivery may fail after the server has taken the
                \* message: the reply was lost, or quitting timed out
  MaxOutages,   \* bound on deliveries of one message that fail
  MaxCrashes,   \* bound on restarts of the process
  Worker, Null

Keys == OnceKeys \union ScanKeys
Processes == Callers \union {Worker}

ASSUME MailerAssumption ==
  /\ WorkerRuns \subseteq BOOLEAN /\ LateFailures \in BOOLEAN
  /\ MaxOutages \in Nat /\ MaxCrashes \in Nat
  /\ Worker \notin Callers
  /\ Null \notin Keys \union {"queued", "sent", "failed"}

VARIABLES
  email_log,  \* status of the row of each key, Null where there is none
  queue,      \* _queue: keys waiting for the worker
  job,        \* per process: what it does next, and for which key
  working,    \* _worker is alive
  crashes,    \* restarts so far
  \* Nothing in the program reads the three that follow; properties do.
  occurred,   \* keys of OnceKeys whose handler has called send()
  outages,    \* per key: deliveries of it that have failed
  delivered   \* per key: how many times it reached its recipient

vars == <<email_log, queue, job, working, crashes, occurred, outages, delivered>>

Idle == [pc |-> "idle", key |-> Null]

Init ==
  /\ email_log = [k \in Keys |-> Null]
  /\ queue = << >>
  /\ job = [p \in Processes |-> Idle]
  /\ working \in WorkerRuns
  /\ crashes = 0
  /\ occurred = {}
  /\ outages = [k \in Keys |-> 0]
  /\ delivered = [k \in Keys |-> 0]

At(p, label) == job[p].pc = label
Goto(p, label) == job' = [job EXCEPT ![p].pc = label]
Finish(p) == job' = [job EXCEPT ![p] = Idle]
Log(k, status) == email_log' = [email_log EXCEPT ![k] = status]

-----------------------------------------------------------------------------
(* send(): _claim, statement by statement.                                 *)

StartSend(c, k) ==
  /\ At(c, "idle")
  /\ k \in ScanKeys \/ k \notin occurred
  /\ occurred' = occurred \union ({k} \ ScanKeys)
  /\ job' = [job EXCEPT ![c] = [pc |-> "claim", key |-> k]]
  /\ UNCHANGED <<email_log, queue, working, outages, crashes, delivered>>

(* The unique index decides.  The fault has no index. *)
MayInsert_Fault(k) == TRUE
MayInsert(k) == email_log[k] = Null

Claim(c) ==
  LET k == job[c].key
  IN /\ At(c, "claim")
     /\ IF MayInsert(k)
        THEN Log(k, "queued") /\ Goto(c, "handOver")
        ELSE UNCHANGED email_log /\ Goto(c, "look")
     /\ UNCHANGED <<queue, working, outages, crashes, occurred, delivered>>

(* Only a failed row is handed back.  The faults hand back any unsent one, *)
(* or none.                                                                *)
MayRetry_Fault(k) == email_log[k] # "sent"
MayRetry_Never_Fault(k) == FALSE
MayRetry(k) == email_log[k] = "failed"

Look(c) ==
  /\ At(c, "look")
  /\ IF MayRetry(job[c].key) THEN Goto(c, "reclaim") ELSE Finish(c)
  /\ UNCHANGED <<email_log, queue, working, outages, crashes, occurred, delivered>>

(* The UPDATE names the row by id alone: whether it is still failed is not *)
(* tested again.                                                           *)
Reclaim(c) ==
  /\ At(c, "reclaim")
  /\ Log(job[c].key, "queued")
  /\ Goto(c, "handOver")
  /\ UNCHANGED <<queue, working, outages, crashes, occurred, delivered>>

(* With no worker the caller delivers the message itself. *)
HandOver(c) ==
  /\ At(c, "handOver")
  /\ \/ /\ working
        /\ queue' = Append(queue, job[c].key)
        /\ Finish(c)
     \/ /\ ~working
        /\ Goto(c, "deliver")
        /\ UNCHANGED queue
  /\ UNCHANGED <<email_log, working, outages, crashes, occurred, delivered>>

-----------------------------------------------------------------------------
(* _worker_loop and _process.                                              *)

Take ==
  /\ working
  /\ At(Worker, "idle")
  /\ queue # << >>
  /\ job' = [job EXCEPT ![Worker] = [pc |-> "deliver", key |-> Head(queue)]]
  /\ queue' = Tail(queue)
  /\ UNCHANGED <<email_log, working, outages, crashes, occurred, delivered>>

(* _deliver raises, or it does not; _process takes whatever it raises for  *)
(* a failure.                                                              *)
Deliver(p) ==
  /\ At(p, "deliver")
  /\ \/ /\ delivered' = [delivered EXCEPT ![job[p].key] = @ + 1]
        /\ Goto(p, "markSent")
        /\ UNCHANGED outages
     \/ /\ outages[job[p].key] < MaxOutages
        /\ outages' = [outages EXCEPT ![job[p].key] = @ + 1]
        /\ Goto(p, "markFailed")
        /\ \/ UNCHANGED delivered
           \/ LateFailures /\ delivered' = [delivered EXCEPT ![job[p].key] = @ + 1]
  /\ UNCHANGED <<email_log, queue, working, crashes, occurred>>

(* What _process records after a delivery.  The faults record success      *)
(* whatever happened, leave a failure queued, or invent a status.          *)
Outcome_Fault(label) == "sent"
Outcome_Queued_Fault(label) == IF label = "markFailed" THEN "queued" ELSE "sent"
Outcome_Label_Fault(label) == label
Outcome(label) == IF label = "markFailed" THEN "failed" ELSE "sent"

Mark(p) ==
  /\ job[p].pc \in {"markSent", "markFailed"}
  /\ Log(job[p].key, Outcome(job[p].pc))
  /\ Finish(p)
  /\ UNCHANGED <<queue, working, outages, crashes, occurred, delivered>>

(* The process dies, and another begins.  The queue was in memory; the log *)
(* is not.                                                                 *)
Crash ==
  /\ crashes < MaxCrashes
  /\ crashes' = crashes + 1
  /\ queue' = << >>
  /\ job' = [p \in Processes |-> Idle]
  /\ working' \in WorkerRuns
  /\ UNCHANGED <<email_log, outages, occurred, delivered>>

-----------------------------------------------------------------------------
Sending(c) == Claim(c) \/ Look(c) \/ Reclaim(c) \/ HandOver(c)
Processing(p) == Deliver(p) \/ Mark(p)

Next ==
  \/ \E c \in Callers, k \in Keys : StartSend(c, k)
  \/ \E c \in Callers : Sending(c)
  \/ Take
  \/ \E p \in Processes : Processing(p)
  \/ Crash

Spec == Init /\ [][Next]_vars

(* Threads that have begun go on, the worker loops forever, and a reminder *)
(* that is still due comes round again in every scan.                      *)
FairSpec ==
  /\ Spec
  /\ \A c \in Callers : WF_vars(Sending(c))
  /\ \A p \in Processes : WF_vars(Processing(p))
  /\ WF_vars(Take)
  /\ \A c \in Callers, k \in ScanKeys : SF_vars(StartSend(c, k))

-----------------------------------------------------------------------------
TypeOK ==
  /\ email_log \in [Keys -> {"queued", "sent", "failed", Null}]
  /\ queue \in Seq(Keys)
  /\ job \in [Processes ->
       [pc : {"idle", "claim", "look", "reclaim", "handOver", "deliver",
              "markSent", "markFailed"},
        key : Keys \union {Null}]]
  /\ working \in BOOLEAN
  /\ crashes \in 0 .. MaxCrashes
  /\ occurred \subseteq OnceKeys
  /\ outages \in [Keys -> 0 .. MaxOutages]
  /\ delivered \in [Keys -> Nat]

(* "Nobody is mailed twice ... overlapping reminder scans, a double-       *)
(* clicked button, or several web workers running at once all collapse to  *)
(* one message" (README; the index at database.py:252-256).                *)
NobodyIsMailedTwice == \A k \in Keys : delivered[k] <= 1

(* A message no delivery of which has failed arrives once at most, however *)
(* many callers send it at once and whenever the process is restarted.     *)
MailedOnceUnlessFailed == \A k \in Keys : outages[k] = 0 => delivered[k] <= 1

(* The log never claims a delivery that did not happen, although marking   *)
(* and delivering are separate and a failed row can be queued again        *)
(* between them ("every attempt is recorded", README).                     *)
SentMeansDelivered ==
  \A k \in Keys : email_log[k] = "sent" => delivered[k] > 0

(* A message is under way while it is in the queue or in somebody's hand.  *)
InHand(k) ==
  {p \in Processes : /\ job[p].key = k
                     /\ job[p].pc \in {"handOver", "deliver", "markSent", "markFailed"}}
Waiting(k) == {i \in DOMAIN queue : queue[i] = k}

(* Until a delivery of it fails, a message is under way at one place at    *)
(* most, and while it is its row says queued: no other caller can take it  *)
(* for one that was never sent or may be sent again (_claim).              *)
OneMessageUnderWay ==
  \A k \in Keys : outages[k] = 0 =>
    /\ Cardinality(InHand(k)) + Cardinality(Waiting(k)) <= 1
    /\ InHand(k) # {} \/ Waiting(k) # {} => email_log[k] = "queued"

(* No message the process has taken up stays queued for ever: it is        *)
(* delivered or recorded as failed, unless the process dies first.  (After *)
(* that nobody has it in memory any more.)                                 *)
QueuedIsSettled ==
  \A k \in Keys, n \in 0 .. MaxCrashes :
    (InHand(k) # {} \/ Waiting(k) # {}) /\ crashes = n
      ~> email_log[k] \in {"sent", "failed"} \/ crashes > n

(* "Failures are retried.  A row left in failed is picked up by the next   *)
(* reminder scan" (README): of the messages that scan sends.               *)
RemindersAreRetried ==
  \A k \in ScanKeys : email_log[k] = "failed" ~> email_log[k] # "failed"

(* What the rest of the program takes send() for: the first call for a key *)
(* claims it, and only a message that has failed is ever sent again.       *)
Promise == INSTANCE MailPromise WITH
  claimed <- {k \in Keys : email_log[k] # Null},
  failed <- {k \in Keys : outages[k] > 0},
  arrived <- delivered

KeepsThePromise == Promise!Spec

=============================================================================
