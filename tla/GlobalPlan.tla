------------------------------ MODULE GlobalPlan ------------------------------
(***************************************************************************)
(* The global plan inside MpcLocalPlannerROS: how setPlan stores it, how   *)
(* each call of computeVelocityCommands prunes the part the robot has      *)
(* passed, cuts out the local plan, takes via-points from it, compares the *)
(* robot with the end of the plan, and estimates the heading of the local  *)
(* goal.  Callbacks and failures of the optimisation are the subject of    *)
(* MpcLocalPlannerROS; here only the robot moves between two calls.        *)
(*                                                                         *)
(* Poses are points of the plane with integer coordinates.  A rigid        *)
(* transform keeps distances, so that the frames of plan and costmap are   *)
(* not told apart; what is kept of tf is that a lookup may throw.          *)
(***************************************************************************)
EXTENDS Integers, Sequences, FiniteSetsExt

CONSTANTS
    Positions,      \* where the robot may be
    Plans,          \* plans move_base may hand over, the empty one among them
    PruneSq,        \* global_plan_prune_distance, squared
    ReachSq,        \* 85% of half the costmap size, squared
    MaxLength,      \* max_global_plan_lookahead_dist, 0 when disabled
    ViaSepSq,       \* global_plan_viapoint_sep, squared, 0 when disabled
    ToleranceSq,    \* xy_goal_tolerance, squared
    MovingAverage   \* poses estimateLocalGoalOrientation averages over

ASSUME PlanAssumption ==
    /\ Positions \subseteq Int \X Int
    /\ Plans \subseteq Seq(Int \X Int) /\ <<>> \in Plans
    /\ \A p \in Plans : \A i \in 2..Len(p) : p[i - 1][1] = p[i][1] \/ p[i - 1][2] = p[i][2]
    /\ PruneSq \in Nat /\ ReachSq \in Nat /\ MaxLength \in Nat
    /\ ViaSepSq \in Nat /\ ToleranceSq \in Nat /\ MovingAverage \in Nat \ {0}

VARIABLES
    pc,             \* idle, or where computeVelocityCommands stands
    robot,          \* position measured for the call
    plan,           \* history: the plan as setPlan received it
    global_plan,    \* _global_plan
    prune_ret,      \* what pruneGlobalPlan returned last
    local,          \* the local plan: poses first..last of _global_plan
    via_points,     \* poses of _global_plan taken as via-points
    heading_from,   \* poses of _global_plan the heading of the local goal was taken from
    goal_reached

callVars == <<prune_ret, local, via_points, heading_from>>
vars == <<pc, robot, plan, global_plan, callVars, goal_reached>>

NoLocal == [first |-> 0, last |-> 0]
Indices == DOMAIN global_plan

TypeOK ==
    /\ pc \in {"idle", "pruned", "transformed", "optimise"}
    /\ robot \in Positions
    /\ plan \in Plans
    /\ global_plan \in Seq(Int \X Int)
    /\ prune_ret \in BOOLEAN
    /\ local \in [first : Nat, last : Nat]
    /\ via_points \in Seq(Nat)
    /\ heading_from \in SUBSET Nat
    /\ goal_reached \in BOOLEAN

Init ==
    /\ pc = "idle" /\ robot \in Positions
    /\ plan = <<>> /\ global_plan = <<>>
    /\ prune_ret = TRUE /\ local = NoLocal
    /\ via_points = <<>> /\ heading_from = {}
    /\ goal_reached = FALSE

SetPlan ==
    /\ pc = "idle"
    /\ plan' \in Plans /\ global_plan' = plan'
    /\ goal_reached' = FALSE
    /\ UNCHANGED <<pc, robot, callVars>>

-----------------------------------------------------------------------------
(* Distances.  Plans run parallel to the axes, so that the length of a     *)
(* segment is a whole number.                                              *)
SqDist(a, b)  == (a[1] - b[1]) * (a[1] - b[1]) + (a[2] - b[2]) * (a[2] - b[2])
AbsVal(x)     == IF x < 0 THEN -x ELSE x
Segment(p, j) == AbsVal(p[j - 1][1] - p[j][1]) + AbsVal(p[j - 1][2] - p[j][2])

FromRobot(j) == SqDist(robot, global_plan[j])

(* plan_length after poses i..j were taken: the segment that leads to pose *)
(* i counts as well.                                                       *)
PlanLength(p, i, j) == MapThenSumSet(LAMBDA k : Segment(p, k), (i..j) \ {1})

-----------------------------------------------------------------------------
(* pruneGlobalPlan                                                         *)

NearRobot == {j \in Indices : FromRobot(j) < PruneSq}

(* Mutants: nothing is erased; the pose found is erased as well; the loop  *)
(* runs on to the last pose close to the robot.                            *)
RemainingUnpruned == global_plan

RemainingWithoutFound ==
    IF NearRobot = {} THEN global_plan
    ELSE SubSeq(global_plan, Min(NearRobot) + 1, Len(global_plan))

RemainingToLast ==
    IF NearRobot = {} THEN global_plan
    ELSE SubSeq(global_plan, Max(NearRobot), Len(global_plan))

(* Poses before the first one close to the robot are erased.               *)
Remaining ==
    IF NearRobot = {} THEN global_plan
    ELSE SubSeq(global_plan, Min(NearRobot), Len(global_plan))

(* The call begins.  Without a pose close to the robot the iterator still  *)
(* stands at the first pose and the method returns true; it returns false  *)
(* only when tf throws.                                                    *)
Prune ==
    /\ pc = "idle"
    /\ pc' = "pruned"
    /\ goal_reached' = FALSE
    /\ \/ prune_ret' = TRUE /\ global_plan' = Remaining
       \/ global_plan # <<>> /\ prune_ret' = FALSE /\ global_plan' = global_plan
    /\ UNCHANGED <<robot, plan, local, via_points, heading_from>>

-----------------------------------------------------------------------------
(* transformGlobalPlan                                                     *)

(* The closest pose so far, 0 if there is none, after a look at pose j.    *)
Nearer(p, at, j) == IF at = 0 \/ SqDist(robot, p[j]) < SqDist(robot, p[at]) THEN j ELSE at

(* Mutant: the search passes over poses beyond the border of the costmap   *)
(* and goes on.                                                            *)
ClosestOnward(p) ==
    LET search[j \in 1..(Len(p) + 1)] ==
            [at \in 0..Len(p) |->
                IF j > Len(p) THEN at
                ELSE search[j + 1][IF SqDist(robot, p[j]) > ReachSq THEN at ELSE Nearer(p, at, j)]]
    IN  search[1][0]

(* The search for the closest pose stops at the border of the costmap.  It *)
(* finds none when the first pose is out of reach already: then sq_dist    *)
(* keeps its initial value.                                                *)
Closest(p) ==
    LET search[j \in 1..(Len(p) + 1)] ==
            [at \in 0..Len(p) |->
                IF j > Len(p) \/ SqDist(robot, p[j]) > ReachSq THEN at
                ELSE search[j + 1][Nearer(p, at, j)]]
    IN  search[1][0]

(* Mutant: the border of the costmap does not end the local plan.          *)
LastByLength(i) ==
    Min({j \in i..Len(global_plan) :
            \/ j = Len(global_plan)
            \/ MaxLength > 0 /\ PlanLength(global_plan, i, j) > MaxLength})

(* The loop takes a pose before it looks how far it is and how long the    *)
(* local plan has become.                                                  *)
LastFrom(i) ==
    Min({j \in i..Len(global_plan) :
            \/ j = Len(global_plan)
            \/ FromRobot(j) > ReachSq
            \/ MaxLength > 0 /\ PlanLength(global_plan, i, j) > MaxLength})

(* When no pose was taken, the local plan is the global goal alone.        *)
LocalPlan ==
    LET i == Closest(global_plan)
    IN  IF i = 0 THEN [first |-> Len(global_plan), last |-> Len(global_plan)]
        ELSE [first |-> i, last |-> LastFrom(i)]

(* Mutant: each pose is compared with the first pose of the local plan.    *)
ViaPointsFromStart(l) ==
    SelectSeq([k \in 1..(l.last - l.first) |-> l.first + k],
              LAMBDA j : SqDist(global_plan[l.first], global_plan[j]) >= ViaSepSq)

(* updateViaPointsContainer: a pose far enough from the via-point before   *)
(* it, or from the first pose of the local plan, becomes a via-point.      *)
ViaPoints(l) ==
    LET taken[j \in l.first..l.last] ==
            IF j = l.first THEN <<>>
            ELSE LET before == taken[j - 1]
                     prev   == IF before = <<>> THEN l.first ELSE before[Len(before)]
                 IN  IF SqDist(global_plan[prev], global_plan[j]) < ViaSepSq THEN before
                     ELSE Append(before, j)
    IN  taken[l.last]

(* INTERNAL_ERROR for an empty plan and when tf throws.                    *)
TransformFails ==
    /\ pc = "pruned"
    /\ pc' = "idle"
    /\ UNCHANGED <<robot, plan, global_plan, callVars, goal_reached>>

Transform ==
    /\ pc = "pruned" /\ global_plan # <<>>
    /\ pc' = "transformed"
    /\ local' = LocalPlan
    /\ via_points' = IF ViaSepSq = 0 THEN <<>> ELSE ViaPoints(LocalPlan)
    /\ UNCHANGED <<robot, plan, global_plan, prune_ret, heading_from, goal_reached>>

-----------------------------------------------------------------------------
(* Goal check, heading of the local goal, end of the call                  *)

(* Mutant: the robot is compared with the local goal.                      *)
AtGoalLocally == FromRobot(local.last) < ToleranceSq

AtGoal == FromRobot(Len(global_plan)) < ToleranceSq

(* Success without a command, if the robot's heading is right too.         *)
GoalReached ==
    /\ pc = "transformed" /\ AtGoal
    /\ pc' = "idle" /\ goal_reached' = TRUE
    /\ UNCHANGED <<robot, plan, global_plan, callVars>>

(* Mutants: poses that lead to the local goal, not on from it; the         *)
(* vicinity of the end of the plan is not treated apart.                   *)
HeadingFromBehind(g) == (g - MovingAverage)..g

HeadingFromPath(g) == (g + 1)..Min({g + MovingAverage, Len(global_plan)})

(* estimateLocalGoalOrientation: the pose of the local goal itself, the    *)
(* last pose of the plan, or the directions towards the poses that follow. *)
HeadingFrom(g) ==
    IF g >= Len(global_plan) THEN {g}
    ELSE IF g > Len(global_plan) - MovingAverage - 1 THEN {Len(global_plan)}
    ELSE (g + 1)..Min({g + MovingAverage, Len(global_plan)})

GoalNotReached ==
    /\ pc = "transformed"
    /\ pc' = "optimise"
    /\ heading_from' = HeadingFrom(local.last)
    /\ UNCHANGED <<robot, plan, global_plan, prune_ret, local, via_points, goal_reached>>

(* The rest of the call does not touch the plan.                           *)
EndCall ==
    /\ pc = "optimise"
    /\ pc' = "idle"
    /\ UNCHANGED <<robot, plan, global_plan, callVars, goal_reached>>

Move ==
    /\ pc = "idle"
    /\ robot' \in Positions
    /\ UNCHANGED <<pc, plan, global_plan, callVars, goal_reached>>

Next ==
    \/ SetPlan \/ Move
    \/ Prune \/ TransformFails \/ Transform \/ GoalReached \/ GoalNotReached \/ EndCall

Spec == Init /\ [][Next]_vars

-----------------------------------------------------------------------------
(* A robot that tracks its local plans, with tf at work                    *)

TrackInit ==
    /\ pc = "idle"
    /\ plan \in Plans \ {<<>>} /\ global_plan = plan /\ robot = plan[1]
    /\ prune_ret = TRUE /\ local = NoLocal
    /\ via_points = <<>> /\ heading_from = {}
    /\ goal_reached = FALSE

(* After a call the robot drives on to the next pose of the local plan, or *)
(* does not get there before the next call.                                *)
DriveOn ==
    /\ pc = "idle" /\ local.first < local.last
    /\ robot' = global_plan[local.first + 1]
    /\ local' = NoLocal
    /\ UNCHANGED <<pc, plan, global_plan, prune_ret, via_points, heading_from, goal_reached>>

CallNow == (Prune /\ prune_ret') \/ Transform \/ GoalReached \/ GoalNotReached \/ EndCall

TrackNext == CallNow \/ DriveOn

(* move_base keeps calling, and the robot gets to the next pose of its     *)
(* local plan again and again.                                             *)
TrackSpec == TrackInit /\ [][TrackNext]_vars /\ WF_vars(CallNow) /\ SF_vars(DriveOn)

-----------------------------------------------------------------------------
(* Properties                                                              *)

(* Whatever the robot does, pruning leaves a suffix of the plan that was   *)
(* set, never without its last pose: neither the goal nor a part of the    *)
(* way to it is lost from behind.                                          *)
PlanIsSuffix ==
    \/ plan = <<>> /\ global_plan = <<>>
    \/ \E k \in 1..Len(plan) : global_plan = SubSeq(plan, k, Len(plan))

(* The local plan is never empty and lies within the plan; its poses, but  *)
(* for the last one, lie in the costmap and keep to the lookahead.  So the *)
(* return value INVALID_PATH for an empty local plan does not occur.       *)
LocalPlanInWindow ==
    pc \in {"transformed", "optimise"} =>
        /\ 1 <= local.first /\ local.first <= local.last /\ local.last <= Len(global_plan)
        /\ \A j \in local.first..(local.last - 1) :
              /\ FromRobot(j) <= ReachSq
              /\ MaxLength > 0 => ~ (PlanLength(global_plan, local.first, j) > MaxLength)

(* Poses before the plan leaves the costmap for the first time.            *)
BeforeBorder == {j \in Indices : \A k \in 1..j : FromRobot(k) <= ReachSq}

(* The search with its break and its running minimum finds what it is for: *)
(* the first of the poses closest to the robot among those the plan        *)
(* reaches without leaving the costmap.  The local plan takes no shortcut  *)
(* over a part of the plan beyond the border, and where the plan comes     *)
(* back to a place it takes the way there first.                           *)
StartsAtClosest ==
    (pc \in {"transformed", "optimise"} /\ BeforeBorder # {}) =>
        /\ local.first \in BeforeBorder
        /\ \A j \in BeforeBorder : FromRobot(local.first) <= FromRobot(j)
        /\ \A j \in 1..(local.first - 1) : FromRobot(local.first) < FromRobot(j)

(* Pruning and the search for the closest pose look at distances of their  *)
(* own.  Pruning still costs the search neither its find nor a pose as     *)
(* close: a plan that could be followed can be followed after it, from a   *)
(* pose no farther away.                                                   *)
PruningKeepsStart ==
    [][ (pc = "idle" /\ pc' = "pruned" /\ Closest(global_plan) # 0)
            => /\ Closest(global_plan') # 0
               /\ SqDist(robot, global_plan'[Closest(global_plan')])
                    <= SqDist(robot, global_plan[Closest(global_plan)]) ]_vars

(* Via-points follow the local plan, each at least the separation away     *)
(* from the one before it, and none is missed in between.                  *)
ViaPointsSpaced ==
    (pc = "transformed" /\ ViaSepSq > 0) =>
        LET from(i) == IF i = 1 THEN local.first ELSE via_points[i - 1]
            upto(i) == IF i > Len(via_points) THEN local.last + 1 ELSE via_points[i]
        IN  /\ \A i \in 1..(Len(via_points) + 1) : \A j \in (from(i) + 1)..(upto(i) - 1) :
                  SqDist(global_plan[from(i)], global_plan[j]) < ViaSepSq
            /\ \A i \in 1..Len(via_points) :
                  /\ from(i) < via_points[i] /\ via_points[i] <= local.last
                  /\ SqDist(global_plan[from(i)], global_plan[via_points[i]]) >= ViaSepSq

(* The heading of the local goal comes from poses the plan has, and from   *)
(* one at least: global_plan.at(i + 1) does not throw and the average is   *)
(* not taken over nothing.                                                 *)
HeadingFromPlan ==
    pc = "optimise" => heading_from # {} /\ heading_from \subseteq Indices

(* The goal counts as reached only at the end of the plan that was set.    *)
GoalIsPlanEnd ==
    [][ (~ goal_reached /\ goal_reached') => SqDist(robot, plan[Len(plan)]) < ToleranceSq ]_vars

(* A robot that tracks its local plans gets to the end of the plan.        *)
ReachesGoal == <>(robot = plan[Len(plan)])

(* The global goal alone is the local plan only "if we are really close to *)
(* the goal".                                                              *)
InjectedOnlyNearGoal ==
    [][ (pc = "pruned" /\ pc' = "transformed" /\ BeforeBorder = {})
            => FromRobot(Len(global_plan)) <= ReachSq ]_vars
=============================================================================
