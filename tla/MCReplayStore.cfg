SPECIFICATION FairSpec
CONSTANTS
  p1 = p1
  p2 = p2
  p3 = p3
  q1 = q1
  nonce = nonce
  other = other
  t1 = t1
  t2 = t2
  NoOne = NoOne
  Keys = {nonce, other}
  Presentations = {p1, p2, p3, q1}
  Threads = {t1, t2}
  KeyOf <- MCKeyOf
  ThreadOf <- MCThreadOf
  SignedAt <- MCSignedAt
  Window = 1
  Retention = 4
  MaxDelay = 1
  CacheLimit = 2
  MaxTime = 4
  MaxRestarts = 1
INVARIANTS TypeOK AcceptedOnce ReplayWasRecorded
PROPERTIES KeyLockReleased
CHECK_DEADLOCK FALSE
