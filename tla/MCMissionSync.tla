---------------------------- MODULE MCMissionSync ----------------------------
(* Model-checking instance of MissionSync with model-value clusters and     *)
(* missions.                                                                *)
EXTENDS MissionSync, TLC

CONSTANTS e1, e2, m1, m2

ClusterSymmetry == Permutations({e1, e2})

=============================================================================
