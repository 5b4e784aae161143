SPECIFICATION Spec
CONSTANTS
  Incidents = {i1, i2}
  Severities = {"critical"}
  Users = {}
  Sweeps = {s1}
  Steps = {}
  AckMinutes <- Ack
  EscMinutes <- Esc
  Custom = {}
  Limit = 1
  MaxTime = 6
  MaxCalls = 4
  MaxAborts = 1
  Nobody = Nobody
PROPERTIES EscalationsPaced NoSecondTurn
