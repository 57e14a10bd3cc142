SPECIFICATION Spec
CONSTANTS
  admin = admin
  luke = luke
  guest = guest
  mock = mock
  review = review
  own = own
  w1 = w1
  w2 = w2
  Absent = Absent
  Null = Null
  Unreadable = Unreadable
  MinutesInADay = 1440
  WebThreads = {w1, w2}
  AdminThreads = {d1}
  Scripts = {s1}
  Emails = {admin, luke, guest}
  AdminEmail = admin
  Owner = luke
  Budgets <- MCBudgets
  Seeded <- MCSeeded
  Entries <- MCEntries
  OwnerTitles = {own}
  AskedLengths = {30, 50}
  OwnerWindows <- MCOwnerWindows
  Gone = Gone
SYMMETRY Alike
INVARIANTS
  TypeOK
  AdminsComeFromTheSeed
  CatalogueIsWhole
  EveryLengthIsBookable
PROPERTIES
  AnAdminRemains
CHECK_DEADLOCK FALSE
