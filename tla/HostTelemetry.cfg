SPECIFICATION Spec
CONSTANTS
  Keys = {k1, k2, k3}
  Admins = {c1, c2}
  Scopes = {"write"}
  Expiries = {1, 2}
  MaxVersion = 3
  MaxTime = 1
  MaxCalls = 4
  None = None
  Msgs = {"loud", "mild", "other"}
  Ts <- SentAt
  Signals = {"tamper", "ports"}
  Level <- SeverityOf
  Ingests = {i1, i2}
  Breaches = {b1, b2, b3}
  Expected = 1
  StaleBy = 1
  MissingBy = 1
  WriteScope = "write"
SYMMETRY Symmetry
INVARIANTS SuccessorIsNewer RepeatsBounded OpenRowsBounded
PROPERTIES HostKeepsKey LedgerFollowsSnapshot IgnoreOutlivesSnapshots
CHECK_DEADLOCK FALSE
