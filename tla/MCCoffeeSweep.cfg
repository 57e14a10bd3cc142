SPECIFICATION FairSpec
CONSTANTS
  Null = Null
  host = host
  g1 = g1
  g2 = g2
  w1 = w1
  w2 = w2
  sweeper = sweeper
  WebThreads = {w1}
  SweepThreads = {sweeper}
  Hosts = {host}
  Guests = {g1}
  Slots = {2}
  ExpiryDays = 4
  NudgeAfterDays = 0
  MaxNudges = 2
  ManualNudges = 0
  MaxInvites = 1
  MaxNow = 5
  Cancellations = FALSE
  MaxRestarts = 1
INVARIANTS
  NudgesAreCapped
PROPERTIES
  NudgesAreSpaced
  StaleInvitesAreClosed
  BookingReachesBoth
