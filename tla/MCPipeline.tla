----------------------------- MODULE MCPipeline -----------------------------
(***************************************************************************)
(* Small instances of Pipeline.  One goal of the target and one goal from  *)
(* the SCA findings give every role a row and make the set of detector     *)
(* rows grow while detectors run.                                          *)
(***************************************************************************)
EXTENDS Pipeline, TLC

CONSTANTS d1, d2, g1, s1, none

MCAgent == Singletons \cup DetectorWorker
MCPayload == ItemsOf(Goals) \cup ItemsOf(ScaGoals) \cup {NoGoal}
NoGoals == << >>
OneGoal == <<g1>>
OneScaGoal == <<s1>>

Symmetric == Permutations(DetectorWorker)
=============================================================================
