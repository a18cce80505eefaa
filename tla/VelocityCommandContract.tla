---------------------- MODULE VelocityCommandContract ----------------------
(***************************************************************************)
(* What move_base may rely on when it uses the planner through the         *)
(* interface of nav_core and mbf_costmap_core: what a call of              *)
(* computeVelocityCommands may answer, and what isGoalReached may say      *)
(* between calls.  Threads, mutexes and the way to an answer do not appear *)
(* here; MpcLocalPlannerROS is shown to implement it.                      *)
(***************************************************************************)
EXTENDS Naturals

CONSTANTS Plans, NoPlan

VARIABLES
    ready,                \* initialize() has completed
    busy,                 \* a call is under way
    global_plan,
    goal_reached,         \* the answer of isGoalReached
    ret,                  \* what the last call returned
    no_infeasible_plans,  \* failures in a row
    trajectory            \* what the next optimisation may start from

vars == <<ready, busy, global_plan, goal_reached, ret, no_infeasible_plans, trajectory>>

Answer(o, c) == ret' = [outcome |-> o, cmd |-> c]

Init ==
    /\ ready = FALSE /\ busy = FALSE
    /\ global_plan = NoPlan /\ goal_reached = FALSE
    /\ ret = [outcome |-> "none", cmd |-> "zero"]
    /\ no_infeasible_plans = 0 /\ trajectory = "empty"

BecomeReady ==
    /\ ~ ready /\ ~ busy
    /\ ready' = TRUE
    /\ UNCHANGED <<busy, global_plan, goal_reached, ret, no_infeasible_plans, trajectory>>

(* Before initialize() has completed a call moves nothing and says so.     *)
Refuse ==
    /\ ~ ready /\ ~ busy
    /\ Answer("NOT_INITIALIZED", "zero")
    /\ UNCHANGED <<ready, busy, global_plan, goal_reached, no_infeasible_plans, trajectory>>

(* A new plan withdraws the statement that the goal is reached.            *)
SetPlan ==
    /\ ready /\ ~ busy
    /\ global_plan' \in Plans \cup {NoPlan}
    /\ goal_reached' = FALSE
    /\ UNCHANGED <<ready, busy, ret, no_infeasible_plans, trajectory>>

Call ==
    /\ ready /\ ~ busy
    /\ busy' = TRUE /\ goal_reached' = FALSE
    /\ UNCHANGED <<ready, global_plan, ret, no_infeasible_plans, trajectory>>

Work ==
    /\ busy
    /\ trajectory' \in {"empty", "planned"}
    /\ UNCHANGED <<ready, busy, global_plan, goal_reached, ret, no_infeasible_plans>>

(* At the goal: success with zero velocity, and only with a plan.          *)
ReturnGoal ==
    /\ busy /\ global_plan # NoPlan
    /\ busy' = FALSE /\ goal_reached' = TRUE
    /\ Answer("SUCCESS", "zero")
    /\ UNCHANGED <<ready, global_plan, no_infeasible_plans, trajectory>>

(* A velocity is the first control of the solution of this call; the       *)
(* count of failures starts again and the trajectory is kept.              *)
ReturnCommand ==
    /\ busy /\ global_plan # NoPlan /\ trajectory = "planned"
    /\ busy' = FALSE
    /\ Answer("SUCCESS", "current")
    /\ no_infeasible_plans' = 0
    /\ UNCHANGED <<ready, global_plan, goal_reached, trajectory>>

(* A failure stops the robot, is counted, and leaves no trajectory the     *)
(* next call could start from.                                             *)
ReturnFailure ==
    /\ busy
    /\ busy' = FALSE
    /\ Answer("NO_VALID_CMD", "zero")
    /\ no_infeasible_plans' = no_infeasible_plans + 1
    /\ trajectory' = "empty"
    /\ UNCHANGED <<ready, global_plan, goal_reached>>

(* The plan cannot be used: the robot stops, nothing else changes.         *)
ReturnError ==
    /\ busy
    /\ busy' = FALSE
    /\ Answer("INTERNAL_ERROR", "zero")
    /\ UNCHANGED <<ready, global_plan, goal_reached, no_infeasible_plans, trajectory>>

Next ==
    \/ BecomeReady \/ Refuse \/ SetPlan \/ Call \/ Work
    \/ ReturnGoal \/ ReturnCommand \/ ReturnFailure \/ ReturnError

Spec == Init /\ [][Next]_vars
=============================================================================
