------------------------- MODULE MCLearningRuntime -------------------------
(* LearningRuntime with interchangeable targets.                           *)
EXTENDS LearningRuntime, TLC

TargetSymmetry == Permutations(Targets)

\* No action and no property of the run reads rows.
WithoutRows == <<runtimeVars, failedAt, worked, streak>>
=============================================================================
