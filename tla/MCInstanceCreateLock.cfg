SPECIFICATION Spec
CONSTANTS
  Gets = {1, 2, 3}
  p1 = p1
  p2 = p2
  Procs = {p1, p2}
  ProcOf <- MCProcOf
  MaxListFailures = 0
INVARIANTS OneHolder TicketOrder OneIdentity
CHECK_DEADLOCK FALSE
