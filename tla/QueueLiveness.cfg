SPECIFICATION FairSerialSpec
CONSTANTS
  Runs = {r1, r2}
  Legacy = {}
  Targets = {t1}
  Catalog <- PlainAndRisky
  Workers = {w1, w2}
  Operators = {o1}
  Replayers = {}
  MaxAttempts = 2
  Backoff <- OneTick
  Ttl = 1
  ClaimRounds = 2
  Window = 2
  BatchLimit = 1
  MaxTime = 1
  MaxReviews = 1
  MaxCrashes = 0
  None = None
PROPERTIES ClaimedRunSettles QueuedRunFinishes
