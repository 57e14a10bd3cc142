SPECIFICATION FairSpec
CONSTANTS
  MinutesInADay = 4
  Null = Null
  Unreadable = Unreadable
  prov = prov
  cli = cli
  cli2 = cli2
  adm = adm
  day = day
  loose = loose
  bad = bad
  short = short
  t1 = t1
  t2 = t2
  Threads = {t1}
  Users = {prov, cli, adm}
  Dates = {day, loose}
  Day <- MCDay
  Weekday <- MCWeekday
  OddTimes = {short, bad}
  Reads <- MCReads
  WindowRows <- MixedWindows
  BlockRows <- WholeDay
  Asks <- MixedAsks
  Clock <- Today
  FirstAccounts <- MCAccounts
  AdminTargets = {prov}
  MaxAppointments = 2
  Restarts = FALSE
INVARIANTS
  OneEnding
PROPERTIES
  StatusIsFinal
  TakenTimeWasFree
  BookingIsAnnounced
  CancellationIsAnnounced
  KeepsADiary
