------------------------------ MODULE MC_Track ------------------------------
(***************************************************************************)
(* Plans in steps of half a metre that start in a corner and pass through  *)
(* no point twice: every one of eleven steps on a grid of 5 by 3 points    *)
(* and every one of twelve steps on a grid of 7 by 2.                      *)
(***************************************************************************)
EXTENDS GlobalPlan

Room     == (0..4) \X (0..2)
Corridor == (0..6) \X (0..1)
MCPositions == Room \cup Corridor

Walks(grid, length) ==
    LET steps(w) == {q \in grid : SqDist(w[Len(w)], q) = 1 /\ \A i \in DOMAIN w : w[i] # q}
        walks[n \in 0..length] ==
            IF n = 0 THEN { << <<0, 0>> >> }
            ELSE UNION { {Append(w, q) : q \in steps(w)} : w \in walks[n - 1] }
    IN  walks[length]

MCPlans == {<<>>} \cup Walks(Room, 11) \cup Walks(Corridor, 12)
=============================================================================
