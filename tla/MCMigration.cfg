SPECIFICATION Spec
CONSTANTS
  p1 = p1
  p2 = p2
  h1 = h1
  h2 = h2
  r1 = r1
  None = None
  Procs = {p1, p2}
  Hosts = {h1, h2}
  Hostings <- TwoHostings
  Ids <- FourIds
  Rows = {r1}
  Versions = {1, 2}
  Version <- TwoVersions
  GuardAttempts = 2
  LockRounds = 2
  MaxCrashes = 1
  MaxFaults = 2
  MaxAges = 1
  MaxCycles = 2
  MaxArrivals = 1
INVARIANTS TypeOK HandleOwnsPath SuccessCovers NoLostEntry
CHECK_DEADLOCK FALSE
