SPECIFICATION FairSpec
CONSTANTS
  d1 = d1
  d2 = d2
  g1 = g1
  s1 = s1
  none = none
  DetectorWorker = {d1, d2}
  NoGoal = none
  Agent <- MCAgent
  Role <- PipelineRoles
  Payload <- MCPayload
  Priority <- RolePriority
  Goals <- NoGoals
  ScaGoals <- NoGoals
  EnableAntares = TRUE
  EnableLlmCodeguard = FALSE
  MayCancel = FALSE
  MaxFaults = 1
  MaxDeaths = 1
  MaxLapses = 0
PROPERTY
  ScanEnds
CHECK_DEADLOCK FALSE
