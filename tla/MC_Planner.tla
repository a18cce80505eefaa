---------------------------- MODULE MC_Planner ----------------------------
(* MpcLocalPlannerROS with one plan, one path and one obstacle message     *)
(* beside the empty ones, two settings of the feasibility check and two    *)
(* failures in a row.                                                      *)
EXTENDS MpcLocalPlannerROS

CONSTANTS p1, v1, o1, c1, c2

MCPlans        == {p1}
MCPaths        == {v1}
MCObstacleMsgs == {o1}
MCCheckParams  == {c1, c2}
=============================================================================
