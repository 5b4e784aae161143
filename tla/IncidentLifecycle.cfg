SPECIFICATION Spec
CONSTANTS
  Incidents = {i1}
  Severities = {"critical", "medium"}
  Users = {u1}
  Sweeps = {s1, s2}
  Steps = {p1}
  AckMinutes <- Ack
  EscMinutes <- Esc
  Custom = {3}
  Limit = 1
  MaxTime = 6
  MaxCalls = 5
  MaxAborts = 0
  Nobody = Nobody
INVARIANTS TypeOK LifecycleTrail OpenHasTimer EscalationsNumbered
