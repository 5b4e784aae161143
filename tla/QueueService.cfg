SPECIFICATION Spec
CONSTANTS
  Runs = {r1, r2, r3}
  Waiting = {r1}
  MaxAttempts = 2
  Nobody = Nobody
  Worker = Worker
  Operators = {o1}
  Interval = 1
  IdleInterval = 2
  MaxBackoff = 3
  DrainLimit = 1
  DrainCap = 2
  ReplayCap = 2
  MaxFails = 3
  PowerOf2 <- Powers
  MaxCalls = 2
  Requests = {q1, q2}
  NoRequest = NoRequest
  Polls = 1
INVARIANTS PauseFollowsFailures ReplaysOnce OneScript
PROPERTY QueueIsServed
CHECK_DEADLOCK FALSE
