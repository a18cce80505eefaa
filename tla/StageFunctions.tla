--------------------------- MODULE StageFunctions ---------------------------
(***************************************************************************)
(* What the optimisation problem consists of in one control step: the      *)
(* obstacles collected by the planner, the choice of relevant obstacles at *)
(* every state (StageInequalitySE2), the via-points tied to states         *)
(* (MinTimeViaPointsCost), and the edges, which are made anew only when    *)
(* one of the functions says that its dimensions have changed.             *)
(*                                                                         *)
(* Poses have integer coordinates and one of four headings, the robot and  *)
(* the obstacles are points, distances are compared by their squares.      *)
(* Obstacles and via-points are named by their index in their container.   *)
(***************************************************************************)
EXTENDS Integers, Sequences, FiniteSets

CONSTANTS
    Trajectories,       \* sequences of poses of the grid
    Cells,              \* sequences of positions of lethal costmap cells
    Converted, Customs, \* sequences of obstacle messages: converter, custom
    ViaLists,           \* sequences of via-points
    BehindSq,           \* costmap_obstacles_behind_robot_dist, squared
    ForceSq, CutoffSq,  \* force_inclusion_dist and cutoff_dist, squared
    Shift,              \* position of the frame of custom obstacles
    LimitSets           \* which of the limits of acceleration are finite

Point == [x : Int, y : Int]
Pose  == [at : Point, dir : Point]
ObstacleMessage == [at : Point, v : Int, empty : BOOLEAN]

ASSUME StageAssumption ==
    /\ Trajectories # {} /\ Cells # {} /\ Customs # {} /\ ViaLists # {}
    /\ \A t \in Trajectories : t \in Seq(Pose) /\ Len(t) >= 2
    /\ Cells \subseteq Seq(Point) /\ ViaLists \subseteq Seq(Point)
    /\ Converted \cup Customs \subseteq Seq(ObstacleMessage) /\ Shift \in Point
    /\ LimitSets \subseteq SUBSET {"acc", "dec", "second"}
    /\ BehindSq \in Nat /\ ForceSq \in Nat /\ CutoffSq \in Nat

VARIABLES
    limits,         \* the finite ones; second is the limit of the second control
    ordered,        \* _via_points_ordered
    dynamic,        \* _enable_dynamic_obstacles
    poses,          \* states of the grid, by their number in the code
    obstacles, via_points,
    relevant,       \* _relevant_obstacles
    relevant_dyn,   \* _relevant_dyn_obstacles
    num_du,         \* _num_du_lb_finite and _num_du_ub_finite
    association,    \* _vp_association: the via-points of a state, and their last number
    edges,          \* dimensions the edges were made with
    phase           \* collected: inputs are new, updated: functions and edges are

config == <<limits, ordered, dynamic>>
inputs == <<poses, obstacles, via_points>>
functions == <<relevant, relevant_dyn, num_du, association, edges>>
vars == <<config, inputs, functions, phase>>

NoEdges == [n |-> 0]

Init ==
    /\ limits \in LimitSets /\ ordered \in BOOLEAN /\ dynamic \in BOOLEAN
    /\ poses = <<>> /\ obstacles = <<>> /\ via_points = <<>>
    /\ relevant = <<>> /\ relevant_dyn = <<>> /\ num_du = [lb |-> 0, ub |-> 0]
    /\ association = <<>> /\ edges = NoEdges /\ phase = "updated"

N == Cardinality(DOMAIN poses)

TypeOK ==
    /\ phase \in {"collected", "updated"}
    /\ num_du \in [lb : 0..2, ub : 0..2]
    /\ phase = "updated" =>
         /\ DOMAIN relevant = DOMAIN poses /\ DOMAIN relevant_dyn = DOMAIN poses
         /\ DOMAIN association = DOMAIN poses
         /\ \A k \in DOMAIN poses :
              /\ relevant[k] \cup relevant_dyn[k] \subseteq 1..Len(obstacles)
              /\ relevant[k] \cap relevant_dyn[k] = {}
              /\ association[k].first \subseteq 1..Len(via_points)

-----------------------------------------------------------------------------
(* Collecting obstacles                                                    *)

SqDist(p, q) == (p.x - q.x) * (p.x - q.x) + (p.y - q.y) * (p.y - q.y)
Minus(p, q)  == [x |-> p.x - q.x, y |-> p.y - q.y]
Plus(p, q)   == [x |-> p.x + q.x, y |-> p.y + q.y]
Dot(p, q)    == p.x * q.x + p.y * q.y
Cross(p, q)  == p.x * q.y - q.x * p.y

(* A moving obstacle has v # 0.  Of is the velocity of its message.        *)
Obstacle(at, of) == [at |-> at, v |-> 0, of |-> of]

(* Costmap cells, unless far behind the robot.                             *)
FromCostmap(cells, robot) ==
    LET InFront(c) == ~ /\ Dot(Minus(c, robot.at), robot.dir) < 0
                        /\ SqDist(c, robot.at) > BehindSq
        after[i \in 0..Len(cells)] ==
            IF i = 0 THEN <<>>
            ELSE IF InFront(cells[i]) THEN Append(after[i - 1], Obstacle(cells[i], 0))
            ELSE after[i - 1]
    IN  after[Len(cells)]

(* setCentroidVelocity on the last obstacle; very small ones are ignored.  *)
WithVelocity(container, v) ==
    IF container = <<>> \/ v = 0 THEN container
    ELSE [container EXCEPT ![Len(container)].v = v]

(* A circle, point, line or polygon by its number of points, whichever it  *)
(* is one obstacle; nothing for an empty polygon.                          *)
Added(container, m, offset) ==
    IF m.empty THEN container ELSE Append(container, Obstacle(Plus(m.at, offset), m.v))

(* A message of the converter: an empty polygon still has its velocity set.*)
WithConverted(container, m) ==
    WithVelocity(Added(container, m, [x |-> 0, y |-> 0]), m.v)

FromConverter(messages) ==
    LET after[i \in 0..Len(messages)] ==
            IF i = 0 THEN <<>> ELSE WithConverted(after[i - 1], messages[i])
    IN  after[Len(messages)]

(* Mutant: a custom obstacle without polygon is not skipped.               *)
WithMessageNotSkipped(container, m, offset) ==
    WithVelocity(Added(container, m, offset), m.v)

(* A custom obstacle: skipped altogether when its polygon is empty.        *)
WithMessage(container, m, offset) ==
    IF m.empty THEN container ELSE WithVelocity(Added(container, m, offset), m.v)

(* Custom obstacles come last, with the identity for their transform when  *)
(* tf fails.                                                               *)
Container(base, customs, tf_ok) ==
    LET offset == IF tf_ok THEN Shift ELSE [x |-> 0, y |-> 0]
        after[i \in 0..Len(customs)] ==
            IF i = 0 THEN base ELSE WithMessage(after[i - 1], customs[i], offset)
    IN  after[Len(customs)]

-----------------------------------------------------------------------------
(* StageInequalitySE2::update                                              *)

Moving(i) == dynamic /\ obstacles[i].v # 0
Dist(k, i) == SqDist(poses[k].at, obstacles[i].at)

(* Mutant: a moving obstacle goes on to the test of its distance.          *)
FixedAndMoving == 1..Len(obstacles)

Fixed     == {i \in 1..Len(obstacles) : ~ Moving(i)}
Forced(k) == {i \in Fixed : Dist(k, i) < ForceSq}
Near(k)   == {i \in Fixed \ Forced(k) : Dist(k, i) <= CutoffSq}

(* The side is that of the obstacle's position in the world.               *)
Left(k)  == {i \in Near(k) : Cross(poses[k].dir, obstacles[i].at) > 0}
Right(k) == Near(k) \ Left(k)

(* Mutant: a later obstacle always replaces the one before.                *)
NearestLast(k, S) == {i \in S : \A j \in S : j <= i}

(* Empty without candidates, else the first of those at minimal distance.  *)
Nearest(k, S) ==
    {i \in S : \A j \in S : Dist(k, i) < Dist(k, j) \/ (Dist(k, i) = Dist(k, j) /\ i <= j)}

Relevant(k) ==
    IF k = 0 THEN {} ELSE Forced(k) \cup Nearest(k, Left(k)) \cup Nearest(k, Right(k))

RelevantDyn(k) == IF k = 0 THEN {} ELSE {i \in 1..Len(obstacles) : Moving(i)}

(* Bounds of the control deviation that configureOcp leaves finite.        *)
DuFinite ==
    [lb |-> Cardinality(limits \cap {"dec", "second"}),
     ub |-> Cardinality(limits \cap {"acc", "second"})]

(* Mutant: the total number of obstacles is compared, not that of a state. *)
TotalOf(sets) == Cardinality(UNION {{k} \X sets[k] : k \in DOMAIN sets})
ObstaclesChangedInTotal(old, new) ==
    DOMAIN old # DOMAIN new \/ TotalOf(old) # TotalOf(new)

ObstaclesChanged(old, new) ==
    \/ DOMAIN old # DOMAIN new
    \/ \E k \in DOMAIN new : Cardinality(old[k]) # Cardinality(new[k])

-----------------------------------------------------------------------------
(* MinTimeViaPointsCost::update                                            *)

(* findClosestPose from state start on; the final state always counts.     *)
ClosestPose(p, start) ==
    LET candidates == (start..(N - 2)) \cup {N - 1}
        D(i) == SqDist(p, poses[i].at)
    IN  CHOOSE i \in candidates :
            \A j \in candidates : D(i) < D(j) \/ (D(i) = D(j) /\ i <= j)

(* Mutant: the next search starts right after the last match.              *)
NextStartAdjacent(idx) == IF ordered THEN idx + 1 ELSE 0

(* With ordered via-points a state is left out in between.                 *)
NextStart(idx) == IF ordered THEN idx + 2 ELSE 0

(* The closest pose of every via-point, before it is moved.                *)
Closest ==
    LET closest[j \in 1..Len(via_points)] ==
            ClosestPose(via_points[j], IF j = 1 THEN 0 ELSE NextStart(closest[j - 1]))
    IN  closest

(* Not behind the last state before the goal, not before the second one;   *)
(* an unordered via-point at the start is skipped.                         *)
StateOf(closest) ==
    LET idx == IF closest > N - 2 THEN N - 2 ELSE closest
    IN  IF idx >= 1 THEN idx ELSE IF ordered THEN 1 ELSE -1

Association ==
    LET closest == Closest
    IN  [k \in DOMAIN poses |-> {j \in 1..Len(via_points) : StateOf(closest[j]) = k}]

-----------------------------------------------------------------------------
(* update() of the grid: functions first, edges if anything has changed    *)

(* createEdges: per interval the terms of its first state and its control, *)
(* the deviation of the last control, no obstacle at the final state.      *)
Edges(rel, dyn, du, assoc) ==
    [n    |-> N,
     obst |-> [k \in 0..(N - 2) |-> Cardinality(rel[k])],
     dyn  |-> [k \in 0..(N - 2) |-> Cardinality(dyn[k])],
     via  |-> [k \in 0..(N - 2) |-> assoc[k].second],
     du   |-> [k \in 0..(N - 1) |-> du.lb + du.ub]]

ViaChanged(old, new) ==
    \/ DOMAIN old # DOMAIN new
    \/ \E k \in DOMAIN new : Cardinality(new[k]) # old[k].second

(* The inputs of a step; the trajectory is what solver and grid made of it.*)
Collect(t, base, customs, tf_ok, via) ==
    /\ phase = "updated" /\ phase' = "collected"
    /\ poses' = [k \in 0..(Len(t) - 1) |-> t[k + 1]]
    /\ obstacles' = Container(base, customs, tf_ok)
    /\ via_points' = via
    /\ UNCHANGED <<config, functions>>

(* The grid calls this in a new run and whenever its vertices have changed,*)
(* as they have when their number has; edges are then made anew in any case.*)
Update(vertices_updated) ==
    /\ phase = "collected" /\ phase' = "updated"
    /\ vertices_updated \/ edges.n = N
    /\ relevant' = [k \in DOMAIN poses |-> Relevant(k)]
    /\ relevant_dyn' = [k \in DOMAIN poses |-> RelevantDyn(k)]
    /\ num_du' = DuFinite
    /\ association' = [k \in DOMAIN poses |->
            [first |-> Association[k], second |-> Cardinality(Association[k])]]
    /\ edges' = IF \/ vertices_updated
                   \/ ObstaclesChanged(relevant, relevant')
                   \/ ObstaclesChanged(relevant_dyn, relevant_dyn')
                   \/ num_du' # num_du
                   \/ ViaChanged(association, Association)
                THEN Edges(relevant', relevant_dyn', num_du', association')
                ELSE edges
    /\ UNCHANGED <<config, inputs>>

Next ==
    \/ \E t \in Trajectories, customs \in Customs, tf_ok \in BOOLEAN, via \in ViaLists :
         \/ \E cells \in Cells : Collect(t, FromCostmap(cells, t[1]), customs, tf_ok, via)
         \/ \E conv \in Converted : Collect(t, FromConverter(conv), customs, tf_ok, via)
    \/ \E v \in BOOLEAN : Update(v)

Spec == Init /\ [][Next]_vars

-----------------------------------------------------------------------------
(* Properties                                                              *)

(* The edges have the dimensions the stage functions have now, at every    *)
(* state: what the assertions in the functions' compute methods demand.    *)
(* Functions change with every call, edges only when a function says so.   *)
EdgesFit ==
    phase = "updated" /\ N > 0 =>
        /\ edges.n = N
        /\ \A k \in 0..(N - 2) :
             /\ edges.obst[k] = Cardinality(relevant[k])
             /\ edges.dyn[k] = Cardinality(relevant_dyn[k])
             /\ edges.via[k] = Cardinality(association[k].first)
        /\ \A k \in 0..(N - 1) : edges.du[k] = num_du.lb + num_du.ub

(* The filter never loses the obstacle that matters most: a static one at  *)
(* minimal distance is relevant if any is within the cutoff, so are all    *)
(* that are very close and all that move, and at most two others.          *)
NearestConsidered ==
    phase = "updated" => \A k \in DOMAIN poses \ {0} :
        LET close == {i \in Fixed : Dist(k, i) <= CutoffSq}
        IN  /\ close # {} => \E i \in relevant[k] : \A j \in close : Dist(k, i) <= Dist(k, j)
            /\ Forced(k) \subseteq relevant[k]
            /\ Cardinality(relevant[k] \ Forced(k)) <= 2
            /\ \A i \in 1..Len(obstacles) : Moving(i) => i \in relevant_dyn[k]

(* Ordered via-points are tied to states in their order, each to exactly   *)
(* one that the optimisation may move; two share a state only where no     *)
(* further one is left before the goal.                                    *)
ViaPointsInOrder ==
    ordered /\ phase = "updated" =>
        /\ \A k, l \in DOMAIN poses :
             \A i \in association[k].first, j \in association[l].first :
                i < j => k < l \/ (k = l /\ k >= N - 2)
        /\ N >= 3 => \A j \in 1..Len(via_points) :
                        \E k \in 1..(N - 2) : j \in association[k].first

(* An obstacle moves with the velocity its own message gives, whatever     *)
(* custom obstacles without a polygon come before or after it.             *)
VelocityBelongs == \A i \in 1..Len(obstacles) : obstacles[i].v = obstacles[i].of

(* The nearest obstacle on the left of the robot and the one on its right  *)
(* are relevant, seen from the pose of the robot.                          *)
SidesRelativeToRobot ==
    phase = "updated" => \A k \in DOMAIN poses \ {0} :
        LET OnLeft(i) == Cross(poses[k].dir, Minus(obstacles[i].at, poses[k].at)) > 0
            left      == {i \in Near(k) : OnLeft(i)}
        IN  /\ left # {} => Nearest(k, left) \subseteq relevant[k]
            /\ Near(k) \ left # {} => Nearest(k, Near(k) \ left) \subseteq relevant[k]
=============================================================================
