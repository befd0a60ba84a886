SPECIFICATION FairUsageSpec
CONSTANTS
  cited = cited
  retried = retried
  other = other
  agentA = agentA
  agentB = agentB
  Calls = {cited, retried, other}
  Idempotent = {}
  NoCall = NoCall
  Attempts = 2
  Counts = {2}
  MaxRaw = 1
  MaxPuts = 1
  Agent <- MCAgent
INVARIANTS UsageTypeOK CountedOncePerAgent CountWithinLedger NoLostBump
PROPERTIES LockIsReleased
CHECK_DEADLOCK FALSE
