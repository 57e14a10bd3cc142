SPECIFICATION Spec
CONSTANTS
  MinutesInADay = 4
  Null = Null
  Unreadable = Unreadable
  prov = prov
  cli = cli
  cli2 = cli2
  adm = adm
  day = day
  loose = loose
  bad = bad
  short = short
  t1 = t1
  t2 = t2
  Threads = {t1, t2}
  Users = {prov, cli, cli2}
  Dates = {day}
  Day <- MCDay
  Weekday <- MCWeekday
  OddTimes = {}
  Reads <- MCReads
  WindowRows <- FineWindows
  BlockRows <- NoBlocks
  Asks <- LongAsks
  Clock <- OffToday
  FirstAccounts <- MCAccounts
  AdminTargets = {}
  MaxAppointments = 2
  Restarts = FALSE
INVARIANTS
  NoDoubleBooking
