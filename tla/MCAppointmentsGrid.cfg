SPECIFICATION Spec
CONSTANTS
  MinutesInADay = 4
  Null = Null
  Unreadable = Unreadable
  prov = prov
  cli = cli
  cli2 = cli2
  adm = adm
  day = day
  loose = loose
  bad = bad
  short = short
  t1 = t1
  t2 = t2
  Threads = {t1, t2}
  Users = {prov, cli, cli2}
  Dates = {day, loose}
  Day <- MCDay
  Weekday <- MCWeekday
  OddTimes = {}
  Reads <- MCReads
  WindowRows <- GridWindows
  BlockRows <- NoBlocks
  Asks <- SlotAsks
  Clock <- OffToday
  FirstAccounts <- MCAccounts
  AdminTargets = {}
  MaxAppointments = 1
  Restarts = TRUE
INVARIANTS
  TypeOK
  UniqueActiveSlot
PROPERTIES
  HistoryIsKept
  KeepsADiary
SYMMETRY Symmetry
