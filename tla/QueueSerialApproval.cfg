SPECIFICATION SerialSpec
CONSTANTS
  Runs = {r1, r2}
  Legacy = {}
  Targets = {t1}
  Catalog <- RiskyOnly
  Workers = {w1, w2}
  Operators = {o1, o2}
  Replayers = {p1}
  MaxAttempts = 2
  Backoff <- OneTick
  Ttl = 1
  ClaimRounds = 2
  Window = 2
  BatchLimit = 1
  MaxTime = 1
  MaxReviews = 2
  MaxCrashes = 0
  None = None
SYMMETRY WorkerSymmetry
INVARIANTS ExclusiveClaim ApprovalGate
PROPERTY ImplementsLease
