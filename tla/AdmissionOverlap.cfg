SPECIFICATION Spec
CONSTANTS
  Runs = {r1, r2, r3}
  Hosts = {h1}
  Acts = {a1}
  Tier <- SafeOrGuarded
  Risk <- LowOrHigh
  MaxTier = "guarded_auto"
  Threshold = "medium"
  Operators = {o1}
  Sweeps = {s1}
  Replays = {p1}
  Batch = 2
  MaxHost = 1
  MaxTotal = 1
  MaxHour = 1
  MaxAutoHour = 1
  Cycle = 1
  Hour = 1
  Cooldown = 0
  DryRunAge = 1
  MaxTime = 0
  Serial = FALSE
  None = None
SYMMETRY Symmetry
INVARIANTS OvershootBounded HourlyRate
CHECK_DEADLOCK FALSE
