SPECIFICATION FairSpec
CONSTANTS
  Null = Null
  Worker = Worker
  c1 = c1
  c2 = c2
  Callers = {c1, c2}
  OnceKeys = {k1}
  ScanKeys = {r1}
  WorkerRuns = {TRUE, FALSE}
  LateFailures = TRUE
  MaxOutages = 2
  MaxCrashes = 1
INVARIANTS
  TypeOK
  MailedOnceUnlessFailed
  OneMessageUnderWay
  SentMeansDelivered
PROPERTIES
  QueuedIsSettled
  RemindersAreRetried
  KeepsThePromise
CHECK_DEADLOCK FALSE
