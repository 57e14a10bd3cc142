SPECIFICATION Spec
CONSTANTS
  Null = Null
  Worker = Worker
  c1 = c1
  c2 = c2
  Callers = {c1, c2}
  OnceKeys = {}
  ScanKeys = {r1}
  WorkerRuns = {TRUE}
  LateFailures = FALSE
  MaxOutages = 1
  MaxCrashes = 0
INVARIANTS
  NobodyIsMailedTwice
SYMMETRY Symmetry
CHECK_DEADLOCK FALSE
