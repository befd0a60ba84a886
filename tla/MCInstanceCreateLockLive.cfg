SPECIFICATION FairSpec
CONSTANTS
  Gets = {1, 2}
  p1 = p1
  p2 = p2
  Procs = {p1, p2}
  ProcOf <- MCProcOf
  MaxListFailures = 1
INVARIANTS TypeOK
PROPERTIES EveryGetEnds
CHECK_DEADLOCK FALSE
