SPECIFICATION Spec
CONSTANTS
  NHosts = 4
  NGroups = 1
  Tags = {"web"}
  Rollouts = {r1, r2}
  Editors = {e1, e2}
  Selectors <- SomeSelectors
  Patches <- SomePatches
  Profiles = {"balanced", "strict"}
  MaxHosts = 3
  MaxPerGroup = 2
  MaxPercent = 75
  StageSize = 2
  EditLimit = 2
  RequireSelector = TRUE
  InitialFleets <- SomeFleets
  Keep = Keep
  None = None
  MaxCalls = 3
SYMMETRY Symmetry
INVARIANTS PlanIsSound RolloutWithinRadius
PROPERTY EditsKeepTheRest
CHECK_DEADLOCK FALSE
