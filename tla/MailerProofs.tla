----------------------------- MODULE MailerProofs -----------------------------
(* Theorems about Mailer, for any callers, messages, outages and restarts. *)
EXTENDS Mailer, SequenceTheorems, TLAPS, FiniteSetTheorems

Labels == {"idle", "claim", "look", "reclaim", "handOver", "deliver", "markSent", "markFailed"}

(* A process that is not idle is about one message. *)
JobsOK == \A p \in Processes : job[p].pc # "idle" => job[p].key \in Keys

Typing == TypeOK /\ JobsOK

(* The process starts typed. *)
LEMMA InitTyped == Init => Typing
  BY MailerAssumption DEF Init, Typing, TypeOK, JobsOK, Idle

(* Writing one job, or finishing it, keeps the jobs typed. *)
LEMMA JobTyped ==
  ASSUME Typing, NEW p \in Processes,
         \/ Finish(p)
         \/ \E label \in Labels : Goto(p, label) /\ job[p].pc # "idle"
         \/ \E label \in Labels, k \in Keys : job' = [job EXCEPT ![p] = [pc |-> label, key |-> k]]
  PROVE  job' \in [Processes -> [pc : Labels, key : Keys \union {Null}]] /\ JobsOK'
<1>1. job \in [Processes -> [pc : Labels, key : Keys \union {Null}]]
  BY DEF Typing, TypeOK, Labels
<1>2. CASE Finish(p)
  BY <1>1, <1>2 DEF Typing, JobsOK, Finish, Idle, Labels
<1>3. ASSUME NEW label \in Labels, Goto(p, label), job[p].pc # "idle"
      PROVE  job' \in [Processes -> [pc : Labels, key : Keys \union {Null}]] /\ JobsOK'
  <2>1. [job[p] EXCEPT !.pc = label] \in [pc : Labels, key : Keys \union {Null}]
    BY <1>1
  <2>2. [job[p] EXCEPT !.pc = label].key = job[p].key
    BY <1>1
  <2>3. job' = [job EXCEPT ![p] = [job[p] EXCEPT !.pc = label]]
    BY <1>1, <1>3 DEF Goto
  <2> QED
    BY <1>1, <1>3, <2>1, <2>2, <2>3 DEF Typing, JobsOK
<1>4. ASSUME NEW label \in Labels, NEW k \in Keys, job' = [job EXCEPT ![p] = [pc |-> label, key |-> k]]
      PROVE  job' \in [Processes -> [pc : Labels, key : Keys \union {Null}]] /\ JobsOK'
  BY <1>1, <1>4 DEF Typing, JobsOK
<1> QED
  BY <1>2, <1>3, <1>4

(* Every step keeps the mailer typed. *)
LEMMA NextTyped == Typing /\ [Next]_vars => Typing'
<1> SUFFICES ASSUME Typing, [Next]_vars PROVE Typing'
  OBVIOUS
<1> DEFINE JobsTyped == job' \in [Processes -> [pc : Labels, key : Keys \union {Null}]] /\ JobsOK'
<1>1. ASSUME NEW c \in Callers, NEW k \in Keys, StartSend(c, k) PROVE Typing'
  <2>1. JobsTyped
    BY <1>1, JobTyped DEF StartSend, Processes, Labels
  <2> QED
    BY <1>1, <2>1 DEF Typing, TypeOK, StartSend, Keys, Labels
<1>2. ASSUME NEW c \in Callers, Sending(c) PROVE Typing'
  <2>1. c \in Processes /\ job[c].pc # "idle"
    BY <1>2 DEF Sending, Claim, Look, Reclaim, HandOver, At, Processes
  <2>2. job[c].key \in Keys
    BY <2>1 DEF Typing, JobsOK
  <2>3. JobsTyped
    BY <1>2, <2>1, JobTyped DEF Sending, Claim, Look, Reclaim, HandOver, Labels
  <2>4. email_log' \in [Keys -> {"queued", "sent", "failed", Null}]
    BY <1>2, <2>2 DEF Typing, TypeOK, Sending, Claim, Look, Reclaim, HandOver, Log
  <2>5. queue' \in Seq(Keys)
    <3>1. UNCHANGED queue \/ queue' = Append(queue, job[c].key)
      BY <1>2 DEF Sending, Claim, Look, Reclaim, HandOver
    <3>2. queue \in Seq(Keys)
      BY DEF Typing, TypeOK
    <3> QED
      BY <2>2, <3>1, <3>2, AppendProperties
  <2>6. UNCHANGED <<working, outages, crashes, occurred, delivered>>
    BY <1>2 DEF Sending, Claim, Look, Reclaim, HandOver
  <2> QED
    BY <2>3, <2>4, <2>5, <2>6 DEF Typing, TypeOK, Labels
<1>3. CASE Take
  <2>1. Head(queue) \in Keys /\ Tail(queue) \in Seq(Keys)
    BY <1>3 DEF Take, Typing, TypeOK
  <2>2. JobsTyped
    BY <1>3, <2>1, JobTyped DEF Take, Processes, Labels
  <2> QED
    BY <1>3, <2>1, <2>2 DEF Take, Typing, TypeOK, Labels
<1>4. ASSUME NEW p \in Processes, Deliver(p) PROVE Typing'
  <2>1. job[p].pc # "idle" /\ job[p].key \in Keys
    BY <1>4 DEF Deliver, At, Typing, JobsOK
  <2>2. JobsTyped
    BY <1>4, <2>1, JobTyped DEF Deliver, Labels
  <2>3. outages' \in [Keys -> 0 .. MaxOutages]
    <3>1. outages \in [Keys -> 0 .. MaxOutages]
      BY DEF Typing, TypeOK
    <3>2. CASE UNCHANGED outages
      BY <3>1, <3>2
    <3>3. CASE /\ outages[job[p].key] < MaxOutages
               /\ outages' = [outages EXCEPT ![job[p].key] = @ + 1]
      <4>1. outages[job[p].key] + 1 \in 0 .. MaxOutages
        BY <2>1, <3>1, <3>3, MailerAssumption
      <4> QED
        BY <3>1, <3>3, <4>1
    <3> QED
      BY <1>4, <3>2, <3>3 DEF Deliver
  <2>4. delivered' \in [Keys -> Nat]
    <3>1. UNCHANGED delivered \/ delivered' = [delivered EXCEPT ![job[p].key] = @ + 1]
      BY <1>4 DEF Deliver
    <3>2. delivered \in [Keys -> Nat]
      BY DEF Typing, TypeOK
    <3> QED
      BY <2>1, <3>1, <3>2
  <2>5. UNCHANGED <<email_log, queue, working, crashes, occurred>>
    BY <1>4 DEF Deliver
  <2> QED
    BY <2>2, <2>3, <2>4, <2>5 DEF Typing, TypeOK, Labels
<1>5. ASSUME NEW p \in Processes, Mark(p) PROVE Typing'
  <2>1. job[p].key \in Keys
    BY <1>5 DEF Mark, Typing, JobsOK
  <2>2. JobsTyped
    BY <1>5, JobTyped DEF Mark
  <2> QED
    BY <1>5, <2>1, <2>2 DEF Mark, Log, Outcome, Typing, TypeOK, Labels
<1>6. CASE Crash
  BY <1>6, MailerAssumption DEF Crash, Idle, Typing, TypeOK, JobsOK
<1>7. CASE UNCHANGED vars
  BY <1>7 DEF vars, Typing, TypeOK, JobsOK
<1> QED
  BY <1>1, <1>2, <1>3, <1>4, <1>5, <1>6, <1>7 DEF Next, Processing

(* The log, the queue and every thread are typed in every reachable state. *)
THEOREM Typed == Spec => []TypeOK
<1>1. Typing => TypeOK
  BY DEF Typing
<1> QED
  BY <1>1, InitTyped, NextTyped, PTL DEF Spec

-----------------------------------------------------------------------------
(* A process that is about to record success has delivered. *)
SuccessIsReal ==
  \A p \in Processes : job[p].pc = "markSent" => delivered[job[p].key] > 0

(* What has reached its recipient is not taken back. *)
LEMMA DeliveredGrows ==
  ASSUME Typing, [Next]_vars
  PROVE  \A k \in Keys : delivered'[k] \in Nat /\ delivered[k] <= delivered'[k]
<1>1. \A k \in Keys : delivered[k] \in Nat
  BY DEF Typing, TypeOK
<1>2. UNCHANGED delivered \/ \E p \in Processes : delivered' = [delivered EXCEPT ![job[p].key] = @ + 1]
  BY DEF Next, StartSend, Sending, Claim, Look, Reclaim, HandOver, Take, Processing,
         Deliver, Mark, Crash, vars
<1>3. delivered \in [Keys -> Nat]
  BY DEF Typing, TypeOK
<1> QED
  BY <1>1, <1>2, <1>3

(* Which processes a step can set to recording success. *)
LEMMA SuccessStep ==
  ASSUME Typing, SuccessIsReal, [Next]_vars
  PROVE  SuccessIsReal'
<1> SUFFICES ASSUME NEW q \in Processes, job'[q].pc = "markSent"
             PROVE  delivered'[job'[q].key] > 0
  BY DEF SuccessIsReal
<1>0. job \in [Processes -> [pc : Labels, key : Keys \union {Null}]]
  BY DEF Typing, TypeOK, Labels
<1>1. \A k \in Keys : delivered[k] \in Nat /\ delivered'[k] \in Nat /\ delivered[k] <= delivered'[k]
  BY DeliveredGrows DEF Typing, TypeOK
<1>2. CASE job'[q] = job[q]
  <2>1. job[q].pc = "markSent" /\ job[q].key \in Keys
    BY <1>2 DEF Typing, JobsOK
  <2> QED
    BY <1>1, <1>2, <2>1 DEF SuccessIsReal
<1>3. CASE job'[q] # job[q]
  <2>1. Deliver(q)
    BY <1>0, <1>3 DEF Next, StartSend, Sending, Claim, Look, Reclaim, HandOver, Take,
       Processing, Deliver, Mark, Crash, vars, At, Goto, Finish, Idle, Processes
  <2>2. job[q].key \in Keys /\ job'[q].key = job[q].key
    BY <1>0, <2>1 DEF Typing, JobsOK, Deliver, At, Goto
  <2>3. delivered' = [delivered EXCEPT ![job[q].key] = @ + 1]
    BY <1>0, <2>1 DEF Deliver, Goto
  <2>4. delivered'[job[q].key] = delivered[job[q].key] + 1
    BY <2>2, <2>3 DEF Typing, TypeOK
  <2> QED
    BY <1>1, <2>2, <2>4
<1> QED
  BY <1>2, <1>3

(* A row comes to say sent only through a delivery that succeeded. *)
LEMMA SentStep ==
  ASSUME Typing, SuccessIsReal, SentMeansDelivered, [Next]_vars
  PROVE  SentMeansDelivered'
<1> SUFFICES ASSUME NEW k \in Keys, email_log'[k] = "sent"
             PROVE  delivered'[k] > 0
  BY DEF SentMeansDelivered
<1>1. delivered[k] \in Nat /\ delivered'[k] \in Nat /\ delivered[k] <= delivered'[k]
  BY DeliveredGrows DEF Typing, TypeOK
<1>2. CASE email_log[k] = "sent"
  BY <1>1, <1>2 DEF SentMeansDelivered
<1>3. CASE email_log[k] # "sent"
  <2>1. PICK p \in Processes : Mark(p) /\ job[p].key = k
    BY <1>3 DEF Typing, TypeOK, Next, StartSend, Sending, Claim, Look, Reclaim, HandOver, Take,
       Processing, Deliver, Mark, Crash, vars, Log
  <2>2. job[p].pc = "markSent"
    BY <2>1 DEF Mark, Log, Outcome, Typing, TypeOK
  <2> QED
    BY <1>1, <2>1, <2>2 DEF SuccessIsReal
<1> QED
  BY <1>2, <1>3

(* The delivery log never claims what did not happen: a row says "sent"    *)
(* only if the message has reached its recipient, with any number of       *)
(* callers, retries and restarts (_process, mailer.py:199-208).            *)
THEOREM SentIsReal == Spec => []SentMeansDelivered
<1> DEFINE IInv == Typing /\ SuccessIsReal /\ SentMeansDelivered
<1>1. Init => IInv
  BY InitTyped, MailerAssumption DEF Init, Idle, SuccessIsReal, SentMeansDelivered
<1>2. IInv /\ [Next]_vars => IInv'
  BY NextTyped, SuccessStep, SentStep
<1> QED
  BY <1>1, <1>2, PTL DEF Spec

-----------------------------------------------------------------------------
(* No message is retried before a delivery of it has failed. *)
NoRetries ==
  \A k \in Keys : outages[k] = 0 =>
    /\ \A p \in Processes : job[p].key = k => job[p].pc \notin {"reclaim", "markFailed"}
    /\ email_log[k] # "failed"

(* The number of failed deliveries of a message never goes down. *)
LEMMA OutagesGrow ==
  ASSUME Typing, NEW k \in Keys, [Next]_vars, outages'[k] = 0
  PROVE  outages[k] = 0
<1>1. outages \in [Keys -> Nat] 
  BY MailerAssumption DEF Typing, TypeOK
<1>2. UNCHANGED outages \/ \E p \in Processes : outages' = [outages EXCEPT ![job[p].key] = @ + 1]
  BY DEF Next, StartSend, Sending, Claim, Look, Reclaim, HandOver, Take, Processing,
         Deliver, Mark, Crash, vars
<1> QED
  BY <1>1, <1>2

(* A step that fails no delivery of a message starts no retry of it. *)
LEMMA NoRetriesStep ==
  ASSUME Typing, NoRetries, [Next]_vars
  PROVE  NoRetries'
<1> SUFFICES ASSUME NEW k \in Keys, outages'[k] = 0
             PROVE  /\ \A p \in Processes : job'[p].key = k => job'[p].pc \notin {"reclaim", "markFailed"}
                    /\ email_log'[k] # "failed"
  BY DEF NoRetries
<1>0. job \in [Processes -> [pc : Labels, key : Keys \union {Null}]]
  BY DEF Typing, TypeOK, Labels
<1>1. outages[k] = 0
  BY OutagesGrow
<1>2. /\ \A p \in Processes : job[p].key = k => job[p].pc \notin {"reclaim", "markFailed"}
      /\ email_log[k] # "failed"
  BY <1>1 DEF NoRetries
<1>3. email_log'[k] # "failed"
  BY <1>0, <1>2, MailerAssumption DEF Typing, TypeOK, Next, StartSend, Sending, Claim, Look,
     Reclaim, HandOver, Take, Processing, Deliver, Mark, Crash, vars, Log, Outcome
<1>4. ASSUME NEW p \in Processes, job'[p].key = k, job'[p].pc = "reclaim" PROVE FALSE
  <2>1. job'[p] # job[p]
    BY <1>2, <1>4
  <2>2. p \in Callers /\ Look(p) /\ MayRetry(job[p].key) /\ job[p].key = k
    BY <1>0, <1>4, <2>1 DEF Next, StartSend, Sending, Claim, Look, Reclaim, HandOver, Take,
       Processing, Deliver, Mark, Crash, vars, At, Goto, Finish, Idle, Processes
  <2> QED
    BY <1>2, <2>2 DEF MayRetry
<1>5. ASSUME NEW p \in Processes, job'[p].key = k, job'[p].pc = "markFailed" PROVE FALSE
  <2>1. job'[p] # job[p]
    BY <1>2, <1>5
  <2>2. Deliver(p) /\ job[p].key = k
    BY <1>0, <1>5, <2>1 DEF Next, StartSend, Sending, Claim, Look, Reclaim, HandOver, Take,
       Processing, Deliver, Mark, Crash, vars, At, Goto, Finish, Idle, Processes
  <2>3. CASE Goto(p, "markSent")
    BY <1>0, <1>5, <2>3 DEF Goto
  <2>4. CASE outages' = [outages EXCEPT ![job[p].key] = @ + 1]
    <3>1. outages'[k] = 1
      BY <1>1, <2>2, <2>4 DEF Typing, TypeOK
    <3> QED
      BY <3>1
  <2> QED
    BY <2>2, <2>3, <2>4 DEF Deliver
<1> QED
  BY <1>3, <1>4, <1>5

(* One message for one key: whoever claimed it hands it over once, it      *)
(* waits in one place of the queue, it is in one hand, and after that it   *)
(* has arrived and is nowhere.                                             *)
InTransit(p, k) == job[p].key = k /\ job[p].pc \in {"handOver", "deliver"}

Elsewhere(k) ==
  /\ \A p \in Processes : ~InTransit(p, k)
  /\ \A i \in DOMAIN queue : queue[i] # k

Solo(k) ==
  /\ \A p, q \in Processes : InTransit(p, k) /\ InTransit(q, k) => p = q
  /\ \A i, j \in DOMAIN queue : queue[i] = k /\ queue[j] = k => i = j
  /\ \A p \in Processes : InTransit(p, k) => \A i \in DOMAIN queue : queue[i] # k
  /\ delivered[k] # 0 => delivered[k] = 1 /\ Elsewhere(k)
  /\ email_log[k] = Null => delivered[k] = 0 /\ Elsewhere(k)

(* At the start there is no message. *)
LEMMA SoloInit ==
  ASSUME Init, NEW k \in Keys
  PROVE  Solo(k)
  BY EmptySeq DEF Init, Idle, Solo, InTransit, Elsewhere

(* A step that starts no message on its way keeps every message single. *)
LEMMA SoloKept ==
  ASSUME NEW k \in Keys, Solo(k),
         queue' = queue \/ queue' = << >>,
         \A p \in Processes : InTransit(p, k)' => InTransit(p, k),
         delivered'[k] = delivered[k],
         email_log'[k] = Null => email_log[k] = Null
  PROVE  Solo(k)'
<1>1. \A i \in DOMAIN queue' : i \in DOMAIN queue /\ queue'[i] = queue[i]
  BY EmptySeq
<1> QED
  BY <1>1 DEF Solo, Elsewhere

(* What Goto does to each job, ... *)
LEMMA GotoEffect ==
  ASSUME Typing, NEW p \in Processes, NEW label, Goto(p, label)
  PROVE  \A q \in Processes : /\ job'[q].pc = IF q = p THEN label ELSE job[q].pc
                              /\ job'[q].key = job[q].key
<1>1. job \in [Processes -> [pc : Labels, key : Keys \union {Null}]]
  BY DEF Typing, TypeOK, Labels
<1> QED
  BY <1>1 DEF Goto

(* ... and what Finish does. *)
LEMMA FinishEffect ==
  ASSUME Typing, NEW p \in Processes, Finish(p)
  PROVE  \A q \in Processes : job'[q] = IF q = p THEN Idle ELSE job[q]
  BY DEF Typing, TypeOK, Finish

(* A message begins its way when its row is inserted, and there was none. *)
LEMMA ClaimSolo ==
  ASSUME Typing, NEW k \in Keys, Solo(k), NEW c \in Callers, Claim(c)
  PROVE  Solo(k)'
<1>0. c \in Processes /\ job[c].key \in Keys /\ job[c].pc = "claim"
  BY DEF Claim, At, Processes, Typing, JobsOK
<1>1. UNCHANGED <<queue, delivered>>
  BY DEF Claim
<1>2. CASE MayInsert(job[c].key) /\ job[c].key = k
  <2>1. email_log[k] = Null /\ email_log'[k] # Null /\ Goto(c, "handOver")
    BY <1>2, MailerAssumption DEF Claim, MayInsert, Log, Typing, TypeOK
  <2>2. delivered[k] = 0 /\ Elsewhere(k)
    BY <2>1 DEF Solo
  <2>3. \A q \in Processes : InTransit(q, k)' => q = c
    BY <1>0, <2>1, <2>2, GotoEffect DEF InTransit, Elsewhere
  <2> QED
    BY <1>1, <2>1, <2>2, <2>3 DEF Solo, Elsewhere
<1>3. CASE ~MayInsert(job[c].key) \/ job[c].key # k
  <2>1. \A q \in Processes : InTransit(q, k)' => InTransit(q, k)
    BY <1>0, <1>3, GotoEffect DEF Claim, InTransit
  <2>2. email_log'[k] = email_log[k]
    BY <1>0, <1>3 DEF Claim, Log, Typing, TypeOK
  <2> QED
    BY <1>1, <2>1, <2>2, SoloKept
<1> QED
  BY <1>2, <1>3

(* The message moves from the caller's hand to the end of the queue. *)
LEMMA HandOverSolo ==
  ASSUME Typing, NEW k \in Keys, Solo(k), NEW c \in Callers, HandOver(c)
  PROVE  Solo(k)'
<1>0. c \in Processes /\ job[c].key \in Keys /\ job[c].pc = "handOver"
  BY DEF HandOver, At, Processes, Typing, JobsOK
<1>1. UNCHANGED <<email_log, delivered>>
  BY DEF HandOver
<1>2. CASE Goto(c, "deliver") /\ UNCHANGED queue
  <2>1. \A q \in Processes : InTransit(q, k)' => InTransit(q, k)
    BY <1>0, <1>2, GotoEffect DEF InTransit
  <2> QED
    BY <1>1, <1>2, <2>1, SoloKept
<1>3. CASE queue' = Append(queue, job[c].key) /\ Finish(c)
  <2>0. PICK last : last = Len(queue) + 1
    OBVIOUS
  <2>1. /\ DOMAIN queue' = DOMAIN queue \union {last} /\ last \notin DOMAIN queue
        /\ \A i \in DOMAIN queue : queue'[i] = queue[i]
        /\ queue'[last] = job[c].key
    BY <1>0, <1>3, <2>0 DEF Typing, TypeOK
  <2>2. \A q \in Processes : InTransit(q, k)' => InTransit(q, k) /\ q # c
    BY <1>0, <1>3, FinishEffect DEF InTransit, Idle
  <2>3. CASE job[c].key = k
    <3>1. InTransit(c, k)
      BY <1>0, <2>3 DEF InTransit
    <3>2. /\ \A q \in Processes : ~InTransit(q, k)'
          /\ \A i \in DOMAIN queue : queue[i] # k
          /\ delivered[k] = 0 /\ email_log[k] # Null
      BY <1>0, <2>2, <3>1 DEF Solo, Elsewhere
    <3> QED
      BY <1>1, <2>1, <3>2 DEF Solo, Elsewhere
  <2>4. CASE job[c].key # k
    <3>1. \A i \in DOMAIN queue' : queue'[i] = k => i \in DOMAIN queue /\ queue[i] = k
      BY <2>1, <2>4
    <3> QED
      BY <1>1, <2>2, <3>1 DEF Solo, Elsewhere
  <2> QED
    BY <2>3, <2>4
<1> QED
  BY <1>2, <1>3 DEF HandOver

(* The message moves from the head of the queue to the worker's hand. *)
LEMMA TakeSolo ==
  ASSUME Typing, NEW k \in Keys, Solo(k), Take
  PROVE  Solo(k)'
<1>1. /\ queue \in Seq(Keys) /\ queue # << >>
      /\ queue' = Tail(queue)
      /\ job' = [job EXCEPT ![Worker] = [pc |-> "deliver", key |-> Head(queue)]]
      /\ UNCHANGED <<email_log, delivered>>
  BY DEF Take, Typing, TypeOK
<1>2. /\ Head(queue) = queue[1] /\ 1 \in DOMAIN queue
      /\ \A i \in DOMAIN queue' : /\ i \in Nat /\ i + 1 \in DOMAIN queue /\ i + 1 # 1
                                  /\ queue'[i] = queue[i + 1]
  BY <1>1
<1>3. \A q \in Processes :
        InTransit(q, k)' <=> IF q = Worker THEN queue[1] = k ELSE InTransit(q, k)
  BY <1>1, <1>2 DEF Typing, TypeOK, InTransit, Processes
<1>4. \A i, j \in DOMAIN queue' : queue'[i] = k /\ queue'[j] = k => i = j
  <2> SUFFICES ASSUME NEW i \in DOMAIN queue', NEW j \in DOMAIN queue',
                      queue'[i] = k, queue'[j] = k
               PROVE  i = j
    OBVIOUS
  <2>1. i + 1 = j + 1
    BY <1>2 DEF Solo
  <2> QED
    BY <1>2, <2>1
<1>5. CASE queue[1] = k
  <2>1. /\ \A q \in Processes : ~InTransit(q, k)
        /\ \A i \in DOMAIN queue' : queue'[i] # k
        /\ delivered[k] = 0 /\ email_log[k] # Null
    BY <1>2, <1>5 DEF Solo, Elsewhere
  <2> QED
    BY <1>1, <1>3, <1>4, <2>1 DEF Solo, Elsewhere
<1>6. CASE queue[1] # k
  <2>1. \A q \in Processes : InTransit(q, k)' => InTransit(q, k)
    BY <1>3, <1>6
  <2>2. (\A i \in DOMAIN queue : queue[i] # k) => \A i \in DOMAIN queue' : queue'[i] # k
    BY <1>2
  <2> QED
    BY <1>1, <1>4, <2>1, <2>2 DEF Solo, Elsewhere
<1> QED
  BY <1>5, <1>6

(* A message that arrives leaves its carrier's hand, and is nowhere else. *)
LEMMA DeliverSolo ==
  ASSUME Typing, NEW k \in Keys, Solo(k), NEW p \in Processes, Deliver(p),
         outages'[k] = outages[k]
  PROVE  Solo(k)'
<1>0. job[p].key \in Keys /\ job[p].pc = "deliver"
  BY DEF Deliver, At, Typing, JobsOK
<1>1. UNCHANGED <<email_log, queue>>
  BY DEF Deliver
<1>2. \A q \in Processes : InTransit(q, k)' => InTransit(q, k) /\ (q = p => job[p].key # k)
  BY <1>0, GotoEffect DEF Deliver, InTransit
<1>3. CASE job[p].key = k
  <2>1. InTransit(p, k)
    BY <1>0, <1>3 DEF InTransit
  <2>2. /\ \A q \in Processes : ~InTransit(q, k)'
        /\ \A i \in DOMAIN queue : queue[i] # k
        /\ delivered[k] = 0 /\ email_log[k] # Null
    BY <1>2, <1>3, <2>1 DEF Solo, Elsewhere
  <2>3. delivered' = [delivered EXCEPT ![job[p].key] = @ + 1]
    <3>1. outages' # [outages EXCEPT ![job[p].key] = @ + 1]
      BY <1>3 DEF Typing, TypeOK
    <3> QED
      BY <3>1 DEF Deliver
  <2>4. delivered'[k] = 1
    BY <1>3, <2>2, <2>3 DEF Typing, TypeOK
  <2> QED
    BY <1>1, <2>2, <2>4 DEF Solo, Elsewhere
<1>4. CASE job[p].key # k
  <2>1. delivered'[k] = delivered[k]
    BY <1>0, <1>4 DEF Deliver, Typing, TypeOK
  <2> QED
    BY <1>1, <1>2, <2>1, SoloKept
<1> QED
  BY <1>3, <1>4

(* Every step keeps a message single that has not failed. *)
LEMMA SoloStep ==
  ASSUME Typing, NoRetries, NEW k \in Keys, outages'[k] = 0, Solo(k), [Next]_vars
  PROVE  Solo(k)'
<1>0. outages[k] = 0
  BY OutagesGrow
<1>1. ASSUME NEW c \in Callers, NEW m \in Keys, StartSend(c, m) PROVE Solo(k)'
  <2>1. \A q \in Processes : InTransit(q, k)' => InTransit(q, k)
    BY <1>1 DEF StartSend, InTransit, Typing, TypeOK
  <2> QED
    BY <1>1, <2>1, SoloKept DEF StartSend
<1>2. ASSUME NEW c \in Callers, Look(c) PROVE Solo(k)'
  <2>1. c \in Processes
    BY DEF Processes
  <2>2. \A q \in Processes : InTransit(q, k)' => InTransit(q, k)
    BY <1>2, <2>1, GotoEffect, FinishEffect DEF Look, InTransit, Idle
  <2> QED
    BY <1>2, <2>2, SoloKept DEF Look
<1>3. ASSUME NEW c \in Callers, Reclaim(c) PROVE Solo(k)'
  <2>0. c \in Processes /\ job[c].pc = "reclaim" /\ job[c].key \in Keys
    BY <1>3 DEF Reclaim, At, Processes, Typing, JobsOK
  <2>1. job[c].key # k
    BY <1>0, <2>0 DEF NoRetries
  <2>2. \A q \in Processes : InTransit(q, k)' => InTransit(q, k)
    BY <1>3, <2>0, <2>1, GotoEffect DEF Reclaim, InTransit
  <2>3. email_log'[k] = email_log[k]
    BY <1>3, <2>1 DEF Reclaim, Log, Typing, TypeOK
  <2> QED
    BY <1>3, <2>2, <2>3, SoloKept DEF Reclaim
<1>4. ASSUME NEW p \in Processes, Mark(p) PROVE Solo(k)'
  <2>1. \A q \in Processes : InTransit(q, k)' => InTransit(q, k)
    BY <1>4, FinishEffect DEF Mark, InTransit, Idle
  <2>2. email_log'[k] = Null => email_log[k] = Null
    BY <1>4, MailerAssumption DEF Mark, Log, Outcome, Typing, TypeOK
  <2> QED
    BY <1>4, <2>1, <2>2, SoloKept DEF Mark
<1>5. CASE Crash
  <2>1. \A q \in Processes : ~InTransit(q, k)'
    BY <1>5 DEF Crash, InTransit, Idle
  <2> QED
    BY <1>5, <2>1, SoloKept DEF Crash
<1>6. CASE UNCHANGED vars
  BY <1>6, SoloKept DEF vars, InTransit
<1>7. ASSUME NEW p \in Processes, Deliver(p) PROVE Solo(k)'
  BY <1>0, <1>7, DeliverSolo
<1> QED
  BY <1>1, <1>2, <1>3, <1>4, <1>5, <1>6, <1>7, ClaimSolo, HandOverSolo, TakeSolo
     DEF Next, Sending, Processing

(* A message that has not failed is single. *)
Singles == \A k \in Keys : outages[k] = 0 => Solo(k)

(* Nobody carries a message, or looks for its row, that has none. *)
Claimed ==
  /\ \A p \in Processes : job[p].pc \notin {"idle", "claim"} => email_log[job[p].key] # Null
  /\ \A i \in DOMAIN queue : email_log[queue[i]] # Null

(* The row of a message, once there, is never taken away. *)
LEMMA RowsStay ==
  ASSUME Typing, [Next]_vars, NEW k \in Keys, email_log[k] # Null
  PROVE  email_log'[k] # Null
BY MailerAssumption DEF Typing, TypeOK, JobsOK, Next, StartSend, Sending, Claim, Look, Reclaim,
   HandOver, Take, Processing, Deliver, Mark, Crash, vars, Log, Outcome

(* A message is carried further only by those who carry it, and picked up  *)
(* only once it has its row.                                               *)
LEMMA ClaimedStep ==
  ASSUME Typing, Claimed, [Next]_vars
  PROVE  Claimed'
<1>0. job \in [Processes -> [pc : Labels, key : Keys \union {Null}]] /\ queue \in Seq(Keys)
  BY DEF Typing, TypeOK, Labels
<1>1. ASSUME NEW p \in Processes, job'[p].pc \notin {"idle", "claim"}
      PROVE  email_log'[job'[p].key] # Null
  <2>1. CASE job'[p] = job[p]
    BY <1>1, <2>1, RowsStay DEF Claimed, Typing, JobsOK
  <2>2. CASE job'[p] # job[p] /\ p \in Callers /\ Claim(p)
    <3>1. job[p].key \in Keys /\ job'[p].key = job[p].key
      BY <2>2, GotoEffect DEF Claim, At, Typing, JobsOK
    <3>2. email_log'[job[p].key] # Null
      BY <2>2, <3>1, MailerAssumption DEF Claim, MayInsert, Log, Typing, TypeOK
    <3> QED
      BY <3>1, <3>2
  <2>3. CASE Take /\ p = Worker
    <3>1. job'[p].key = queue[1] /\ queue[1] \in Keys /\ 1 \in DOMAIN queue
      BY <1>0, <2>3 DEF Take
    <3> QED
      BY <3>1, RowsStay DEF Claimed
  <2>4. CASE /\ job[p].pc \notin {"idle", "claim"}
             /\ job'[p].key = job[p].key
    BY <2>4, RowsStay DEF Claimed, Typing, JobsOK
  <2> QED
    BY <1>0, <1>1, <2>1, <2>2, <2>3, <2>4 DEF Next, StartSend, Sending, Claim, Look, Reclaim,
       HandOver, Take, Processing, Deliver, Mark, Crash, vars, At, Goto, Finish, Idle, Processes
<1>2. \A i \in DOMAIN queue' : email_log'[queue'[i]] # Null
  <2>1. \A i \in DOMAIN queue : email_log'[queue[i]] # Null
    BY <1>0, RowsStay DEF Claimed
  <2>3. CASE UNCHANGED queue \/ queue' = << >>
    BY <2>1, <2>3, EmptySeq
  <2>4. ASSUME NEW c \in Callers, HandOver(c), queue' = Append(queue, job[c].key)
        PROVE  \A i \in DOMAIN queue' : email_log'[queue'[i]] # Null
    <3>1. c \in Processes /\ job[c].pc = "handOver" /\ job[c].key \in Keys
      BY <2>4 DEF HandOver, At, Processes, Typing, JobsOK
    <3>2. email_log'[job[c].key] # Null
      BY <3>1, RowsStay DEF Claimed
    <3>3. \A i \in DOMAIN queue' : queue'[i] = job[c].key \/ (i \in DOMAIN queue /\ queue'[i] = queue[i])
      BY <1>0, <2>4, <3>1
    <3> QED
      BY <2>1, <3>2, <3>3
  <2>5. CASE Take
    <3>1. \A i \in DOMAIN queue' : i + 1 \in DOMAIN queue /\ queue'[i] = queue[i + 1]
      BY <1>0, <2>5 DEF Take
    <3> QED
      BY <2>1, <3>1
  <2> QED
    BY <2>3, <2>4, <2>5 DEF Next, StartSend, Sending, Claim, Look, Reclaim, HandOver,
       Processing, Deliver, Mark, Crash, vars
<1> QED
  BY <1>1, <1>2 DEF Claimed

(* The inductive invariant of the two theorems that follow. *)
Orderly == Typing /\ NoRetries /\ Singles /\ Claimed

(* It holds at the start, ... *)
LEMMA OrderlyInit == Init => Orderly
<1> SUFFICES ASSUME Init PROVE NoRetries /\ Singles /\ Claimed
  BY InitTyped DEF Orderly
<1>1. NoRetries
  BY MailerAssumption DEF Init, Idle, NoRetries
<1>2. Singles
  BY SoloInit DEF Singles
<1>3. Claimed
  BY EmptySeq DEF Init, Idle, Claimed
<1> QED
  BY <1>1, <1>2, <1>3

(* ... and every step keeps it. *)
LEMMA OrderlyStep == Orderly /\ [Next]_vars => Orderly'
<1> SUFFICES ASSUME Orderly, [Next]_vars PROVE Singles'
  BY NextTyped, NoRetriesStep, ClaimedStep DEF Orderly
<1> QED
  BY SoloStep, OutagesGrow DEF Orderly, Singles

(* Nobody is mailed twice about what has never failed, whatever the number *)
(* of callers sending one message at once, of messages, and of restarts    *)
(* with messages in the queue: the unique index on email_log is enough     *)
(* (_claim, mailer.py:138-168; database.py:252-256).                       *)
THEOREM MailedOnce == Spec => []MailedOnceUnlessFailed
<1>1. Orderly => MailedOnceUnlessFailed
  <2> SUFFICES ASSUME Orderly, NEW k \in Keys, outages[k] = 0 PROVE delivered[k] <= 1
    BY DEF MailedOnceUnlessFailed
  <2>1. delivered[k] = 0 \/ delivered[k] = 1
    BY DEF Orderly, Singles, Solo
  <2> QED
    BY <2>1
<1> QED
  BY <1>1, OrderlyInit, OrderlyStep, PTL DEF Spec

-----------------------------------------------------------------------------
(* One step of the mailer is one step of the promise, or none. *)
LEMMA PromiseStep ==
  ASSUME Orderly, [Next]_vars
  PROVE  [Promise!Next]_<<{k \in Keys : email_log[k] # Null}, {k \in Keys : outages[k] > 0}, delivered>>
<1> DEFINE claimed == {k \in Keys : email_log[k] # Null}
           failed == {k \in Keys : outages[k] > 0}
<1>0. /\ email_log \in [Keys -> {"queued", "sent", "failed", Null}]
      /\ outages \in [Keys -> Nat] /\ delivered \in [Keys -> Nat]
  BY MailerAssumption DEF Orderly, Typing, TypeOK
<1>1. ASSUME NEW c \in Callers, Claim(c), MayInsert(job[c].key) PROVE Promise!Next
  <2>1. job[c].key \in Keys
    BY <1>1 DEF Orderly, Typing, JobsOK, Claim, At, Processes
  <2>2. email_log[job[c].key] = Null /\ email_log' = [email_log EXCEPT ![job[c].key] = "queued"]
    BY <1>1 DEF Claim, MayInsert, Log
  <2>3. job[c].key \notin claimed /\ claimed' = claimed \union {job[c].key}
    BY <1>0, <2>1, <2>2, MailerAssumption
  <2>4. UNCHANGED <<failed, delivered>>
    BY <1>1 DEF Claim
  <2> QED
    BY <2>1, <2>3, <2>4 DEF Promise!Next, Promise!Claim
<1>2. ASSUME NEW p \in Processes, Deliver(p) PROVE Promise!Next
  <2> DEFINE k == job[p].key
  <2>1. k \in Keys /\ InTransit(p, k)
    BY <1>2 DEF Orderly, Typing, JobsOK, Deliver, At, InTransit
  <2>2. k \in claimed /\ (delivered[k] = 0 \/ k \in failed)
    <3>1. email_log[k] # Null
      BY <2>1 DEF Orderly, Claimed, InTransit
    <3>2. CASE outages[k] = 0
      BY <2>1, <3>1, <3>2 DEF Orderly, Singles, Solo, Elsewhere
    <3>3. CASE outages[k] # 0
      BY <1>0, <2>1, <3>1, <3>3
    <3> QED
      BY <3>2, <3>3
  <2>3. UNCHANGED claimed
    BY <1>2 DEF Deliver
  <2>4. CASE delivered' = [delivered EXCEPT ![k] = @ + 1] /\ UNCHANGED outages
    <3>1. UNCHANGED failed
      BY <2>4
    <3> QED
      BY <2>1, <2>2, <2>3, <2>4, <3>1 DEF Promise!Next, Promise!Arrive
  <2>5. CASE /\ outages' = [outages EXCEPT ![k] = @ + 1]
             /\ UNCHANGED delivered \/ delivered' = [delivered EXCEPT ![k] = @ + 1]
    <3>1. failed' = failed \union {k}
      BY <1>0, <2>1, <2>5
    <3> QED
      BY <2>1, <2>2, <2>3, <2>5, <3>1 DEF Promise!Next, Promise!Fail
  <2> QED
    BY <1>2, <2>4, <2>5 DEF Deliver
<1>3. ASSUME NEW c \in Callers, Reclaim(c) PROVE UNCHANGED <<claimed, failed, delivered>>
  <2>1. email_log[job[c].key] # Null
    BY <1>3 DEF Orderly, Claimed, Reclaim, At, Processes
  <2>2. email_log' = [email_log EXCEPT ![job[c].key] = "queued"] /\ "queued" # Null
    BY <1>3, MailerAssumption DEF Reclaim, Log
  <2>3. UNCHANGED claimed
    BY <1>0, <2>1, <2>2
  <2> QED
    BY <1>3, <2>3 DEF Reclaim
<1>4. ASSUME NEW p \in Processes, Mark(p) PROVE UNCHANGED <<claimed, failed, delivered>>
  <2>1. email_log[job[p].key] # Null
    BY <1>4 DEF Orderly, Claimed, Mark
  <2>2. PICK s \in {"sent", "failed"} : email_log' = [email_log EXCEPT ![job[p].key] = s]
    BY <1>4 DEF Mark, Log, Outcome
  <2>3. UNCHANGED claimed
    BY <1>0, <2>1, <2>2, MailerAssumption
  <2> QED
    BY <1>4, <2>3 DEF Mark
<1>5. ASSUME UNCHANGED <<email_log, outages, delivered>>
      PROVE  UNCHANGED <<claimed, failed, delivered>>
  BY <1>5
<1> QED
  BY <1>1, <1>2, <1>3, <1>4, <1>5 DEF Next, StartSend, Sending, Claim, Look, HandOver, Take,
     Processing, Crash, vars

(* The mailer keeps its promise: whatever its callers, its outages and its *)
(* restarts, a message is sent again only once a delivery of it has failed *)
(* ("Nobody is mailed twice", README, up to the retry it cannot rule out). *)
THEOREM PromiseKept == Spec => KeepsThePromise
<1>1. Init => Promise!Init
  BY DEF Init, Promise!Init
<1> QED
  BY <1>1, OrderlyInit, OrderlyStep, PromiseStep, PTL DEF Spec, KeepsThePromise, Promise!Spec

-----------------------------------------------------------------------------
(* A message that has arrived and is not yet recorded. *)
Arrived(p, k) == job[p].key = k /\ job[p].pc = "markSent"

(* One process at most is recording it, and whoever has it, carried,       *)
(* queued or arrived, its row says queued.                                 *)
UnderWay(k) ==
  /\ \A p, q \in Processes : Arrived(p, k) /\ Arrived(q, k) => p = q
  /\ \A p \in Processes : InTransit(p, k) \/ Arrived(p, k) => email_log[k] = "queued"
  /\ \A i \in DOMAIN queue : queue[i] = k => email_log[k] = "queued"

(* A step that gives the message to nobody and does not write its row.     *)
LEMMA UnderWayKept ==
  ASSUME NEW k \in Keys, UnderWay(k),
         queue' = queue \/ queue' = << >>,
         \A p \in Processes : /\ InTransit(p, k)' => InTransit(p, k)
                              /\ Arrived(p, k)' => Arrived(p, k),
         email_log'[k] = email_log[k]
  PROVE  UnderWay(k)'
<1>1. \A i \in DOMAIN queue' : i \in DOMAIN queue /\ queue'[i] = queue[i]
  BY EmptySeq
<1> QED
  BY <1>1 DEF UnderWay

(* What has arrived is nowhere else. *)
LEMMA ArrivedIsAlone ==
  ASSUME Typing, SuccessIsReal, NEW k \in Keys, Solo(k), NEW p \in Processes, Arrived(p, k)
  PROVE  Elsewhere(k)
<1>1. delivered[k] > 0
  BY DEF SuccessIsReal, Arrived
<1> QED
  BY <1>1 DEF Solo

(* The steps of a caller. *)
LEMMA SendingUnderWay ==
  ASSUME Typing, NoRetries, NEW k \in Keys, outages[k] = 0, Solo(k), UnderWay(k),
         NEW c \in Callers, Sending(c)
  PROVE  UnderWay(k)'
<1>0. /\ c \in Processes /\ job[c].key \in Keys
      /\ job[c].pc \in {"claim", "look", "reclaim", "handOver"}
  BY DEF Sending, Claim, Look, Reclaim, HandOver, At, Processes, Typing, JobsOK
<1>1. CASE Claim(c) /\ MayInsert(job[c].key) /\ job[c].key = k
  <2>1. /\ email_log'[k] = "queued" /\ Goto(c, "handOver") /\ queue' = queue
    BY <1>1 DEF Claim, Log, Typing, TypeOK
  <2>2. \A q \in Processes : Arrived(q, k)' => Arrived(q, k)
    BY <1>0, <2>1, GotoEffect DEF Arrived
  <2> QED
    BY <2>1, <2>2 DEF UnderWay
<1>2. CASE Claim(c) /\ ~(MayInsert(job[c].key) /\ job[c].key = k)
  <2>1. /\ email_log'[k] = email_log[k] /\ queue' = queue
    BY <1>0, <1>2 DEF Claim, Log, Typing, TypeOK
  <2>2. \A q \in Processes : /\ InTransit(q, k)' => InTransit(q, k)
                             /\ Arrived(q, k)' => Arrived(q, k)
    BY <1>0, <1>2, GotoEffect DEF Claim, InTransit, Arrived
  <2> QED
    BY <2>1, <2>2, UnderWayKept
<1>3. CASE Look(c)
  <2>1. \A q \in Processes : /\ InTransit(q, k)' => InTransit(q, k)
                             /\ Arrived(q, k)' => Arrived(q, k)
    BY <1>0, <1>3, GotoEffect, FinishEffect DEF Look, InTransit, Arrived, Idle
  <2> QED
    BY <1>3, <2>1, UnderWayKept DEF Look
<1>4. CASE Reclaim(c)
  <2>1. job[c].key # k
    BY <1>0, <1>4 DEF Reclaim, At, NoRetries
  <2>2. email_log'[k] = email_log[k] /\ queue' = queue
    BY <1>0, <1>4, <2>1 DEF Reclaim, Log, Typing, TypeOK
  <2>3. \A q \in Processes : /\ InTransit(q, k)' => InTransit(q, k)
                             /\ Arrived(q, k)' => Arrived(q, k)
    BY <1>0, <1>4, <2>1, GotoEffect DEF Reclaim, InTransit, Arrived
  <2> QED
    BY <2>2, <2>3, UnderWayKept
<1>5. CASE HandOver(c)
  <2>1. email_log' = email_log /\ job[c].pc = "handOver"
    BY <1>5 DEF HandOver, At
  <2>2. CASE Goto(c, "deliver") /\ UNCHANGED queue
    <3>1. \A q \in Processes : /\ InTransit(q, k)' => InTransit(q, k)
                               /\ Arrived(q, k)' => Arrived(q, k)
      BY <1>0, <2>1, <2>2, GotoEffect DEF InTransit, Arrived
    <3> QED
      BY <2>1, <2>2, <3>1, UnderWayKept
  <2>3. CASE queue' = Append(queue, job[c].key) /\ Finish(c)
    <3>1. \A q \in Processes : /\ InTransit(q, k)' => InTransit(q, k)
                               /\ Arrived(q, k)' => Arrived(q, k)
      BY <1>0, <2>3, FinishEffect DEF InTransit, Arrived, Idle
    <3>2. \A i \in DOMAIN queue' : \/ i \in DOMAIN queue /\ queue'[i] = queue[i]
                                   \/ queue'[i] = job[c].key
      BY <1>0, <2>3 DEF Typing, TypeOK
    <3>3. job[c].key = k => email_log[k] = "queued"
      BY <1>0, <2>1 DEF UnderWay, InTransit
    <3> QED
      BY <2>1, <3>1, <3>2, <3>3 DEF UnderWay
  <2> QED
    BY <1>5, <2>2, <2>3 DEF HandOver
<1> QED
  BY <1>1, <1>2, <1>3, <1>4, <1>5 DEF Sending

(* The steps of whoever delivers. *)
LEMMA ProcessingUnderWay ==
  ASSUME Typing, NoRetries, SuccessIsReal, NEW k \in Keys, outages'[k] = 0, outages[k] = 0,
         Solo(k), UnderWay(k), NEW p \in Processes, Processing(p)
  PROVE  UnderWay(k)'
<1>0. queue' = queue /\ job[p].key \in Keys
  BY DEF Processing, Deliver, Mark, At, Typing, JobsOK
<1>1. CASE Deliver(p)
  <2>1. email_log' = email_log /\ job[p].pc = "deliver"
    BY <1>1 DEF Deliver, At
  <2>2. CASE job[p].key = k
    <3>1. InTransit(p, k)
      BY <2>1, <2>2 DEF InTransit
    <3>2. \A q \in Processes : ~Arrived(q, k)
      BY <3>1, ArrivedIsAlone DEF Elsewhere
    <3>3. \A q \in Processes : /\ InTransit(q, k)' => InTransit(q, k)
                               /\ Arrived(q, k)' => q = p
      BY <1>1, <2>1, <3>2, GotoEffect DEF Deliver, InTransit, Arrived
    <3> QED
      BY <1>0, <2>1, <3>1, <3>3 DEF UnderWay
  <2>3. CASE job[p].key # k
    <3>1. \A q \in Processes : /\ InTransit(q, k)' => InTransit(q, k)
                               /\ Arrived(q, k)' => Arrived(q, k)
      BY <1>1, <2>3, GotoEffect DEF Deliver, InTransit, Arrived
    <3> QED
      BY <1>0, <2>1, <3>1, UnderWayKept
  <2> QED
    BY <2>2, <2>3
<1>2. CASE Mark(p)
  <2>1. \A q \in Processes : /\ InTransit(q, k)' => InTransit(q, k) /\ q # p
                             /\ Arrived(q, k)' => Arrived(q, k) /\ q # p
    BY <1>2, FinishEffect DEF Mark, InTransit, Arrived, Idle
  <2>2. CASE job[p].key = k
    <3>1. Arrived(p, k)
      BY <1>2, <2>2 DEF Mark, NoRetries, Arrived
    <3>2. Elsewhere(k) /\ \A q \in Processes : Arrived(q, k) => q = p
      BY <3>1, ArrivedIsAlone DEF UnderWay
    <3> QED
      BY <1>0, <2>1, <3>2 DEF UnderWay, Elsewhere
  <2>3. CASE job[p].key # k
    <3>1. email_log'[k] = email_log[k]
      BY <1>0, <1>2, <2>3 DEF Mark, Log, Typing, TypeOK
    <3> QED
      BY <1>0, <2>1, <3>1, UnderWayKept
  <2> QED
    BY <2>2, <2>3
<1> QED
  BY <1>1, <1>2 DEF Processing

(* Every step keeps a message that has not failed under way at one place.  *)
LEMMA UnderWayStep ==
  ASSUME Orderly, SuccessIsReal, NEW k \in Keys, outages'[k] = 0, UnderWay(k), [Next]_vars
  PROVE  UnderWay(k)'
<1>0. Typing /\ NoRetries /\ outages[k] = 0 /\ Solo(k)
  BY OutagesGrow DEF Orderly, Singles
<1>1. ASSUME NEW c \in Callers, NEW m \in Keys, StartSend(c, m) PROVE UnderWay(k)'
  <2>1. \A q \in Processes : /\ InTransit(q, k)' => InTransit(q, k)
                             /\ Arrived(q, k)' => Arrived(q, k)
    BY <1>0, <1>1 DEF StartSend, InTransit, Arrived, Typing, TypeOK
  <2> QED
    BY <1>1, <2>1, UnderWayKept DEF StartSend
<1>2. CASE Take
  <2>1. /\ queue \in Seq(Keys) /\ queue # << >> /\ queue' = Tail(queue)
        /\ job' = [job EXCEPT ![Worker] = [pc |-> "deliver", key |-> Head(queue)]]
        /\ email_log' = email_log
    BY <1>0, <1>2 DEF Take, Typing, TypeOK
  <2>2. /\ Head(queue) = queue[1] /\ 1 \in DOMAIN queue
        /\ \A i \in DOMAIN queue' : i + 1 \in DOMAIN queue /\ queue'[i] = queue[i + 1]
    BY <2>1
  <2>3. \A q \in Processes : /\ InTransit(q, k)' => InTransit(q, k) \/ queue[1] = k
                             /\ Arrived(q, k)' => Arrived(q, k)
    BY <1>0, <2>1, <2>2 DEF Typing, TypeOK, InTransit, Arrived, Processes
  <2> QED
    BY <2>1, <2>2, <2>3 DEF UnderWay
<1>3. CASE Crash
  <2>1. \A q \in Processes : ~InTransit(q, k)' /\ ~Arrived(q, k)'
    BY <1>3 DEF Crash, InTransit, Arrived, Idle
  <2> QED
    BY <1>3, <2>1, UnderWayKept DEF Crash
<1>4. CASE UNCHANGED vars
  BY <1>4, UnderWayKept DEF vars, InTransit, Arrived
<1> QED
  BY <1>0, <1>1, <1>2, <1>3, <1>4, SendingUnderWay, ProcessingUnderWay DEF Next

(* Until a delivery of it fails a message is in one place only, and its    *)
(* row says so, so that no other caller takes it for one that was never    *)
(* sent or may be sent again (_claim, mailer.py:138-168). *)
THEOREM OneUnderWay == Spec => []OneMessageUnderWay
<1> DEFINE AllUnderWay == \A k \in Keys : outages[k] = 0 => UnderWay(k)
           IInv == Orderly /\ SuccessIsReal /\ AllUnderWay
<1>1. Init => IInv
  <2> SUFFICES ASSUME Init PROVE SuccessIsReal /\ AllUnderWay
    BY OrderlyInit
  <2> QED
    BY EmptySeq DEF Init, Idle, SuccessIsReal, UnderWay, InTransit, Arrived
<1>2. IInv /\ [Next]_vars => IInv'
  BY OrderlyStep, SuccessStep, UnderWayStep, OutagesGrow DEF Orderly
<1>3. IInv => OneMessageUnderWay
  <2> SUFFICES ASSUME IInv, NEW k \in Keys, outages[k] = 0
               PROVE  /\ Cardinality(InHand(k)) + Cardinality(Waiting(k)) <= 1
                      /\ InHand(k) # {} \/ Waiting(k) # {} => email_log[k] = "queued"
    BY DEF OneMessageUnderWay
  <2>1. Typing /\ NoRetries /\ SuccessIsReal /\ Solo(k) /\ UnderWay(k)
    BY DEF Orderly, Singles
  <2>2. \A p \in InHand(k) : p \in Processes /\ (InTransit(p, k) \/ Arrived(p, k))
    BY <2>1 DEF InHand, InTransit, Arrived, NoRetries
  <2>3. InHand(k) # {} \/ Waiting(k) # {} => email_log[k] = "queued"
    BY <2>1, <2>2 DEF UnderWay, Waiting
  <2>4. \A p, q \in InHand(k) : p = q
    BY <2>1, <2>2, ArrivedIsAlone DEF Solo, UnderWay, Elsewhere
  <2>5. \A i, j \in Waiting(k) : i = j
    BY <2>1 DEF Solo, Waiting
  <2>6. InHand(k) = {} \/ Waiting(k) = {}
    BY <2>1, <2>2, ArrivedIsAlone DEF Solo, Elsewhere, Waiting
  <2>7. \A S : (\A x, y \in S : x = y) => S = {} \/ \E x : S = {x}
    <3> SUFFICES ASSUME NEW S, \A x, y \in S : x = y, NEW z \in S PROVE S = {z}
      OBVIOUS
    <3> QED
      OBVIOUS
  <2>8. /\ Cardinality(InHand(k)) \in {0, 1} /\ Cardinality(Waiting(k)) \in {0, 1}
        /\ Cardinality(InHand(k)) = 0 \/ Cardinality(Waiting(k)) = 0
    BY <2>4, <2>5, <2>6, <2>7, FS_EmptySet, FS_Singleton
  <2> QED
    BY <2>3, <2>8
<1> QED
  BY <1>1, <1>2, <1>3, PTL DEF Spec
=============================================================================
