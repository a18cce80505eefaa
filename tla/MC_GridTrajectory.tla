------------------------- MODULE MC_GridTrajectory -------------------------
(* Up to four states.  36 units are one step of position or an eighth of a *)
(* turn: sampling (sixths) and two resamplings (thirds, halves) stay whole.*)
EXTENDS GridTrajectory

P(pos, th) == [pos |-> 36 * pos, th |-> 36 * th]

MCPoses      == {P(0, 0), P(1, 3), P(3, -3), P(2, 4)}
MCPlans      == {<<P(3, -3)>>, <<P(1, 3), P(3, -3)>>, <<P(2, 4), P(1, 3), P(0, 0)>>}
MCDts        == {1, 2, 3}
MCLookAheads == {-1, 1, 7}
MCObstacles  == {18, 54, 90}
=============================================================================
