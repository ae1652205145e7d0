SPECIFICATION Spec
CONSTANTS
  d1 = d1
  d2 = d2
  g1 = g1
  s1 = s1
  none = none
  DetectorWorker = {d1, d2}
  NoGoal = none
  Agent <- MCAgent
  Role <- PipelineRoles
  Payload <- MCPayload
  Priority <- RolePriority
  Goals <- OneGoal
  ScaGoals <- NoGoals
  EnableAntares = TRUE
  EnableLlmCodeguard = FALSE
  MayCancel = FALSE
  MaxFaults = 0
  MaxDeaths = 0
  MaxLapses = 0
INVARIANT
  TriageAfterDetectors
CHECK_DEADLOCK FALSE
