--------------------------- MODULE MC_Controller ---------------------------
(* Three positions one unit apart and headings on both sides of the cut at *)
(* -pi: neighbours are within the thresholds, the outer positions are not. *)
EXTENDS Controller

MCGoals      == {<<1, 3>>, <<2, -4>>, <<2, -2>>, <<3, -4>>}
MCForceSteps == {0, 2}
MCPauses     == {1, 3}
MCDelays     == {-1, 2}
=============================================================================
