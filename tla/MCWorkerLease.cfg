SPECIFICATION FairSpec
CONSTANTS
  a1 = a1
  a2 = a2
  a3 = a3
  none = none
  Agent = {a1, a2, a3}
  Role <- MCRole
  Payload <- MCPayload
  Priority <- MCPriority
  Serves <- MCServes
  Room = {0, 1}
  MaxLapses = 2
INVARIANTS
  TypeOK
  ClaimedIffClaimRow
  HandedOutThrice
  DistinctAttempts
PROPERTIES
  ReaperSparesFresh
  MortalClaims
  ImplementsExclusiveWork
  OnlyStaleStripped
CHECK_DEADLOCK FALSE
