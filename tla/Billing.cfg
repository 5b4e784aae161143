SPECIFICATION MCSpec
CONSTANTS
  Subs = {s1, s2}
  Customers = {c1, c2}
  Handlers = {h1, h2}
  Callers = {k1}
  Cancellers = {x1}
  Creators = {n1, n2}
  HostNames = {"a"}
  MaxSuffix = 2
  FreeHosts = 1
  ProHosts = 2
  EliteHosts = 3
  None = None
  MaxCalls = 3
  MaxTwins = 2
INVARIANTS EntitlementIsCurrent RowsAgree MarkerIsTrue HostsWithinPeak
PROPERTIES EventsReachUser
CHECK_DEADLOCK FALSE
