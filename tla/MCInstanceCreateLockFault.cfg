SPECIFICATION Spec
CONSTANTS
  Gets = {1, 2}
  p1 = p1
  p2 = p2
  Procs = {p1, p2}
  ProcOf <- MCProcOf
  MaxListFailures = 1
INVARIANTS OneRowMinted
CHECK_DEADLOCK FALSE
