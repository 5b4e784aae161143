SPECIFICATION SerialSpec
CONSTANTS
  Runs = {r0, r1, r2}
  Legacy = {r0}
  Targets = {t1}
  Catalog <- PlainAndGuarded
  Workers = {w1}
  Operators = {}
  Replayers = {p1, p2}
  MaxAttempts = 1
  Backoff <- OneTick
  Ttl = 1
  ClaimRounds = 2
  Window = 3
  BatchLimit = 2
  MaxTime = 1
  MaxReviews = 0
  MaxCrashes = 0
  None = None
INVARIANTS DeadLetterShape ReplayRetiresSource
