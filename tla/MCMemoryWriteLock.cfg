SPECIFICATION LockFairSpec
CONSTANTS
  Ids = {1, 2}
  NoCall = NoCall
  put = put
  merge = merge
  purge = purge
  w1 = w1
  w2 = w2
  Calls <- MCCalls
  Workers = {w1, w2}
  WorkerOf <- MCWorkerOf
  IdsOf <- MCIdsOf
  Attempts <- MCAttempts
  Lockable = {put, merge, purge}
  MaxRestarts = 1
INVARIANTS LockTypeOK OpenScopeHoldsKeys NoHoldAndWait
PROPERTIES MarkedIdNotEntered EveryCallAnswered
CHECK_DEADLOCK FALSE
