SPECIFICATION Spec
CONSTANTS
  a1 = a1
  loose = loose
  s1 = s1
  w1 = w1
  Schedulers = {s1}
  Admins = {w1}
  Appointments = {a1, loose}
  StartsAt <- MCStartsAt
  SortsAt <- MCSortsAt
  Lead = 9
  ScanEvery = 0
  MinInterval = 2
  StartupDelay = 1
  SweepTime = 1
  MaxRestarts = 1
  MaxFailures = 1
  MaxNow = 11
INVARIANTS
  TypeOK
  RemindedInTime
PROPERTIES
  ReminderIsTimely
