SPECIFICATION Spec
CONSTANTS
  Null = Null
  host = host
  g1 = g1
  g2 = g2
  w1 = w1
  w2 = w2
  sweeper = sweeper
  WebThreads = {w1}
  SweepThreads = {w1}
  Hosts = {host}
  Guests = {g1, g2}
  Slots = {1, 2}
  ExpiryDays = 1
  NudgeAfterDays = 0
  MaxNudges = 1
  ManualNudges = 1
  MaxInvites = 2
  MaxNow = 2
  Cancellations = TRUE
  MaxRestarts = 0
INVARIANTS
  OneOpenInvite
PROPERTIES
  BookedIsFinal
  IsAOneUseLink
SYMMETRY GuestSymmetry
