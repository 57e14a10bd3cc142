SPECIFICATION Spec
CONSTANTS
  Null = Null
  host = host
  g1 = g1
  g2 = g2
  w1 = w1
  w2 = w2
  sweeper = sweeper
  WebThreads = {w1, w2}
  SweepThreads = {w2}
  Hosts = {host}
  Guests = {g1}
  Slots = {1, 2}
  ExpiryDays = 1
  NudgeAfterDays = 0
  MaxNudges = 1
  ManualNudges = 0
  MaxInvites = 1
  MaxNow = 1
  Cancellations = FALSE
  MaxRestarts = 0
INVARIANTS
  OneBookingPerInvite
