SPECIFICATION Spec
CONSTANTS
  Ids = {1, 2}
  NoCall = NoCall
  Fresh = Fresh
  archive = archive
  rival = rival
  s1 = s1
  s2 = s2
  wA = wA
  wB = wB
  wR = wR
  wX = wX
  main = main
  pq = pq
  Calls = {archive, rival}
  Workers = {main}
  WorkerOf <- MCWorkerOf
  IdsOf <- MCIdsOf
  Attempts <- MCAttempts
  Lockable = {archive, rival}
  MaxRestarts = 0
  Scopes = {s1, s2}
  Writes = {wA, wB, wR}
  ScopeCall <- MCScopeCall
  WriteScope <- MCWriteScope
  WriteToken <- MCWriteToken
  Puts = {pq}
  PutId <- MCPutId
  WriteId <- MCWriteId
INVARIANTS TypeOK AllOrNothing UnawaitedFailureSurfaces
PROPERTIES MismatchHasCause ImplementsAtomicMemory
CHECK_DEADLOCK FALSE
