------------------------------ MODULE MC_Stage ------------------------------
(* Trajectories of two to five states along a line and around a corner,    *)
(* obstacles on both sides of them, of the origin and beyond the cutoff.   *)
(* A converter delivers no empty polygons; custom obstacles may have one.  *)
EXTENDS StageFunctions

At(x, y) == [x |-> x, y |-> y]
East(x, y)  == [at |-> At(x, y), dir |-> At(1, 0)]
North(x, y) == [at |-> At(x, y), dir |-> At(0, 1)]
Message(x, y, v) == [at |-> At(x, y), v |-> v, empty |-> FALSE]
NoPolygon(v)     == [at |-> At(0, 0), v |-> v, empty |-> TRUE]

MCTrajectories ==
    {<<East(0, 2), East(3, 2)>>,
     <<East(0, 2), East(2, 2), North(3, 3)>>,
     <<East(0, 2), East(1, 2), North(2, 3), North(2, 4)>>,
     <<East(0, 2), East(1, 2), East(2, 2), East(3, 2), East(4, 2)>>}
MCCells     == {<<At(1, 1), At(-3, 2)>>, <<At(2, 1), At(3, 4), At(1, 3)>>}
MCConverted == {<<>>, <<Message(2, 4, 1), Message(2, 0, 0)>>}
MCCustoms   == {<<>>, <<Message(1, 2, 0), Message(1, 3, 0), NoPolygon(1), Message(9, 9, 1)>>}
MCViaLists  == {<<>>, <<At(0, 2), At(1, 2)>>, <<At(3, 2), At(1, 2), At(4, 2)>>}
MCLimitSets == {{}, {"acc", "second"}}
MCShift     == At(1, 0)
=============================================================================
