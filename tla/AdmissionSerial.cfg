SPECIFICATION Spec
CONSTANTS
  Runs = {r1, r2, r3}
  Hosts = {h1}
  Acts = {a1, a2}
  Tier <- SafeOrGuarded
  Risk <- LowOrHigh
  MaxTier = "guarded_auto"
  Threshold = "medium"
  Operators = {o1}
  Sweeps = {s1}
  Replays = {p1}
  Batch = 2
  MaxHost = 2
  MaxTotal = 3
  MaxHour = 2
  MaxAutoHour = 2
  Cycle = 2
  Hour = 2
  Cooldown = 1
  DryRunAge = 1
  MaxTime = 2
  Serial = TRUE
  None = None
SYMMETRY Symmetry
INVARIANTS CooldownKept
PROPERTY AutonomousFindsIdle
CHECK_DEADLOCK FALSE
