SPECIFICATION SerialSpec
CONSTANTS
  Runs = {r1, r2}
  Legacy = {}
  Targets = {t1}
  Catalog <- PlainAndGuarded
  Workers = {w1, w2}
  Operators = {}
  Replayers = {}
  MaxAttempts = 2
  Backoff <- OneTick
  Ttl = 2
  ClaimRounds = 2
  Window = 2
  BatchLimit = 1
  MaxTime = 3
  MaxReviews = 0
  MaxCrashes = 1
  None = None
SYMMETRY WorkerSymmetry
INVARIANTS TypeOK RollbackEndsRun AttemptBudget AttemptsRecorded
PROPERTY BackoffRespected
