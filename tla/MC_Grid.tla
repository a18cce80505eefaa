----------------------------- MODULE MC_Grid -----------------------------
(* The grid with up to five states.  Every duration in MCFinalTimes is a   *)
(* multiple of 12 = lcm(1, 2, 3, 4), so that each dt is whole.             *)
EXTENDS FullDiscretizationGrid

CONSTANTS s1, s2, g1, g2, d1, d2

MCStarts     == {s1, s2}
MCGoals      == {g1, g2}
MCDims       == {d1, d2}
MCFinalTimes == {0, 12, 36, 84}
=============================================================================
