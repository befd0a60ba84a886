SPECIFICATION FairSpec
CONSTANTS
  cite = cite
  backfill = backfill
  Calls = {cite, backfill}
  Idempotent = {backfill}
  NoCall = NoCall
  Attempts = 2
  Counts = {1}
  MaxRaw = 2
INVARIANTS TypeOK AnswerTellsStored LandsAtMostOnce
PROPERTIES EveryCallAnswers
CHECK_DEADLOCK FALSE
