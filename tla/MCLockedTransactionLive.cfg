SPECIFICATION FairSpec
CONSTANTS
  Ids = {1, 2}
  NoCall = NoCall
  Fresh = Fresh
  archive = archive
  rival = rival
  s1 = s1
  s2 = s2
  wA = wA
  wB = wB
  wR = wR
  wX = wX
  main = main
  pq = pq
  Calls = {archive, rival}
  Workers = {main}
  WorkerOf <- MCWorkerOf
  IdsOf <- LiveIdsOf
  Attempts <- MCAttempts
  Lockable = {archive, rival}
  MaxRestarts = 1
  Scopes = {s1}
  Writes = {wA, wB, wX}
  ScopeCall <- LiveScopeCall
  WriteScope <- LiveWriteScope
  WriteToken <- LiveWriteToken
  Puts = {}
  PutId <- LivePutId
  WriteId <- LiveWriteId
PROPERTIES EveryScopeSettles MismatchHasCause CommitUnderKeys
CHECK_DEADLOCK FALSE
