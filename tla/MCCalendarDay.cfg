SPECIFICATION Spec
CONSTANTS
  MinutesInADay = 6
  Null = Null
  Unreadable = Unreadable
  WindowRows <- MCWindowRows
  BlockRows <- MCBlockRows
  BookedRows <- MCBookedRows
  Clock <- MCClock
  Durations <- MCDurations
  MaxWindows = 2
  MaxBlocks = 1
  MaxBooked = 2
INVARIANTS
  TypeOK
  AcceptedTimeIsFree
  OneGridIsExact
  OfferedStartsHold
CHECK_DEADLOCK FALSE
