------------------------------- MODULE MC_Plan -------------------------------
(***************************************************************************)
(* Plans on a grid of 5 by 2 points: straight, around an obstacle and back *)
(* beside itself, through the same point twice, a single pose, none.       *)
(***************************************************************************)
EXTENDS GlobalPlan

MCPositions == (0..4) \X (0..1)

Straight == [i \in 1..5 |-> <<i - 1, 0>>]
Hairpin  == Straight \o [i \in 1..5 |-> <<5 - i, 1>>]
Loop     == << <<0, 0>>, <<1, 0>>, <<2, 0>>, <<2, 1>>, <<1, 1>>, <<1, 0>>, <<0, 0>> >>
Sparse   == << <<0, 0>>, <<2, 0>>, <<4, 0>>, <<4, 1>> >>

MCPlans == {<<>>, << <<3, 1>> >>, Straight, Hairpin, Loop, Sparse}
=============================================================================
