------------------------- MODULE MpcLocalPlannerROS -------------------------
(***************************************************************************)
(* The local planner plugin of src/mpc_local_planner_ros.cpp as move_base  *)
(* and the ROS callback threads see it.  One control thread calls          *)
(* initialize, setPlan and computeVelocityCommands one after the other;    *)
(* customViaPointsCB, customObstacleCB and the reconfigure callbacks run   *)
(* on other threads.  computeVelocityCommands is cut where it touches      *)
(* state the other threads touch too, where it takes or releases a mutex,  *)
(* and where it returns.                                                   *)
(*                                                                         *)
(* Data is kept to what the properties tell apart: a plan, a via-point     *)
(* path and an obstacle message are model values, a container is the set   *)
(* of the origins of its elements, a velocity command is zero or the first *)
(* control of a solution of this or of an earlier call.                    *)
(***************************************************************************)
EXTENDS Naturals

CONSTANTS
    Plans,          \* global plans move_base may hand over
    Paths,          \* nonempty paths received on topic via_points
    ObstacleMsgs,   \* nonempty messages received on topic obstacles
    CheckParams,    \* values of the parameters of the feasibility check
    MaxInfeasible   \* bound: move_base stops calling after so many failures in a row

NoPlan      == "no_plan"        \* _global_plan is empty
EmptyPath   == "empty_path"     \* a via_points message without poses
NoObstacles == "no_obstacles"   \* an obstacles message without obstacles
FromPlan    == "from_plan"      \* origin of a via-point sampled from the global plan

ASSUME PlannerAssumption ==
    /\ MaxInfeasible \in Nat \ {0}
    /\ NoPlan \notin Plans
    /\ EmptyPath \notin Paths /\ FromPlan \notin Paths
    /\ NoObstacles \notin ObstacleMsgs

VARIABLES
    stage,          \* progress of initialize(): new, advertised, ready (_initialized)
    pc,             \* where the control thread stands
    sep_on,         \* argument min_separation > 0 of the pending updateViaPointsContainer
    u_seq,          \* first control in _u_seq: none, or of an older or of this call
    ret,            \* outcome and cmd_vel of the last call that returned
    global_plan,
    goal_reached,
    no_infeasible_plans,
    trajectory,     \* the controller's grid: empty, or holding a trajectory
    obstacles,      \* origins of the custom obstacles in _obstacles
    via_points,     \* origins of the elements of _via_points
    dangling,       \* _via_points changed since the cost terms took pointers into it
    custom_via_points_active,
    via_cb,         \* where customViaPointsCB stands
    via_msg,        \* the path it is handling
    custom_obstacle_msg,
    obstacle_msgs_seen,  \* history: messages current since this call began, until it read one
    params,
    holder          \* the thread that holds each mutex, or none

planVars  == <<global_plan, goal_reached>>
optVars   == <<u_seq, no_infeasible_plans, trajectory>>
viaVars   == <<via_points, dangling>>
cbVars    == <<via_cb, via_msg>>
obstVars  == <<custom_obstacle_msg, obstacle_msgs_seen>>

vars == <<stage, pc, sep_on, planVars, ret, optVars, obstacles, viaVars,
          custom_via_points_active, cbVars, obstVars, params, holder>>

-----------------------------------------------------------------------------
(* The values the variables take.                                          *)

Mutexes  == {"config", "via_point", "custom_obst"}
Outcomes == {"NOT_INITIALIZED", "INTERNAL_ERROR", "NO_VALID_CMD", "SUCCESS"}
Commands == {"zero", "older", "current"}
Result   == [outcome : Outcomes \cup {"none"}, cmd : Commands]
Params   == [viapoint_sep : BOOLEAN, check : CheckParams]

(* Program points of the control thread, in the order of the code.         *)
BeforeObstacles == {"transform", "via_check", "via_clear", "via_fill", "goal_check", "obstacles"}
ConfigLocked == {"lock_via", "lock_obst", "step", "solving", "no_solution",
                 "feasibility", "command"}
ViaLocked    == {"lock_obst", "step", "solving"}
ObstLocked   == {"step", "solving"}
PCs == {"idle", "lock_config"} \cup BeforeObstacles \cup ConfigLocked

Free(m) == holder[m] = "none"

TypeOK ==
    /\ stage \in {"new", "advertised", "ready"}
    /\ pc \in PCs
    /\ sep_on \in BOOLEAN
    /\ u_seq \in {"none", "older", "current"}
    /\ ret \in Result
    /\ global_plan \in Plans \cup {NoPlan}
    /\ goal_reached \in BOOLEAN
    /\ no_infeasible_plans \in 0..MaxInfeasible
    /\ trajectory \in {"empty", "planned"}
    /\ obstacles \in SUBSET ObstacleMsgs
    /\ via_points \in SUBSET (Paths \cup {FromPlan})
    /\ dangling \in BOOLEAN
    /\ custom_via_points_active \in BOOLEAN
    /\ via_cb \in {"idle", "received", "ignore", "filling"}
    /\ via_msg \in Paths \cup {EmptyPath}
    /\ custom_obstacle_msg \in ObstacleMsgs \cup {NoObstacles}
    /\ obstacle_msgs_seen \in SUBSET (ObstacleMsgs \cup {NoObstacles})
    /\ params \in Params
    /\ holder \in [Mutexes -> {"control", "via_cb", "none"}]

-----------------------------------------------------------------------------
Init ==
    /\ stage = "new" /\ pc = "idle" /\ sep_on = FALSE
    /\ u_seq = "none"
    /\ ret = [outcome |-> "none", cmd |-> "zero"]
    /\ global_plan = NoPlan /\ goal_reached = FALSE
    /\ no_infeasible_plans = 0 /\ trajectory = "empty"
    /\ obstacles = {} /\ via_points = {} /\ dangling = FALSE
    /\ custom_via_points_active = FALSE
    /\ via_cb = "idle" /\ via_msg = EmptyPath
    /\ custom_obstacle_msg = NoObstacles /\ obstacle_msgs_seen = {NoObstacles}
    /\ params \in Params
    /\ holder = [m \in Mutexes |-> "none"]

(* initialize() up to the subscriptions: from here on callbacks arrive.  A *)
(* failing Controller::configure returns before that and changes nothing.  *)
Advertise ==
    /\ pc = "idle" /\ stage = "new"
    /\ stage' = "advertised"
    /\ UNCHANGED <<pc, sep_on, planVars, ret, optVars, obstacles, viaVars,
                   custom_via_points_active, cbVars, obstVars, params, holder>>

(* The end of initialize(): _initialized = true.                           *)
Initialized ==
    /\ pc = "idle" /\ stage = "advertised"
    /\ stage' = "ready"
    /\ UNCHANGED <<pc, sep_on, planVars, ret, optVars, obstacles, viaVars,
                   custom_via_points_active, cbVars, obstVars, params, holder>>

(* Mutant: the flag of the old plan stays.                                 *)
SetPlanKeepingGoalReached ==
    /\ pc = "idle" /\ stage = "ready"
    /\ \E p \in Plans \cup {NoPlan} : global_plan' = p
    /\ UNCHANGED <<stage, pc, sep_on, goal_reached, ret, optVars, obstacles, viaVars,
                   custom_via_points_active, cbVars, obstVars, params, holder>>

(* setPlan: the controller keeps its trajectory.                           *)
SetPlan ==
    /\ pc = "idle" /\ stage = "ready"
    /\ \E p \in Plans \cup {NoPlan} : global_plan' = p
    /\ goal_reached' = FALSE
    /\ UNCHANGED <<stage, pc, sep_on, ret, optVars, obstacles, viaVars,
                   custom_via_points_active, cbVars, obstVars, params, holder>>

-----------------------------------------------------------------------------
(* computeVelocityCommands                                                 *)

(* Return to the caller: the scoped lock of config_mutex_ ends.            *)
Return(outcome, twist) ==
    /\ pc' = "idle"
    /\ ret' = [outcome |-> outcome, cmd |-> twist]
    /\ holder' = [holder EXCEPT !["config"] = "none"]

(* The command of a refused call is that of the Twist overload, which      *)
(* starts from an empty message; the other overload leaves it untouched.   *)
ComputeRefused ==
    /\ pc = "idle" /\ stage # "ready"
    /\ Return("NOT_INITIALIZED", "zero")
    /\ UNCHANGED <<stage, sep_on, planVars, optVars, obstacles, viaVars,
                   custom_via_points_active, cbVars, obstVars, params>>

Compute ==
    /\ pc = "idle" /\ stage = "ready"
    /\ no_infeasible_plans < MaxInfeasible
    /\ pc' = "transform"
    /\ goal_reached' = FALSE
    /\ u_seq' = IF u_seq = "current" THEN "older" ELSE u_seq
    /\ obstacle_msgs_seen' = {custom_obstacle_msg}
    /\ UNCHANGED <<stage, sep_on, ret, global_plan, no_infeasible_plans, trajectory,
                   obstacles, viaVars, custom_via_points_active, cbVars,
                   custom_obstacle_msg, params, holder>>

(* pruneGlobalPlan and transformGlobalPlan: false for an empty plan and    *)
(* when tf throws.                                                         *)
TransformFails ==
    /\ pc = "transform"
    /\ Return("INTERNAL_ERROR", "zero")
    /\ UNCHANGED <<stage, sep_on, planVars, optVars, obstacles, viaVars,
                   custom_via_points_active, cbVars, obstVars, params>>

Transform ==
    /\ pc = "transform" /\ global_plan # NoPlan
    /\ pc' = "via_check"
    /\ UNCHANGED <<stage, sep_on, planVars, ret, optVars, obstacles, viaVars,
                   custom_via_points_active, cbVars, obstVars, params, holder>>

(* `if (!_custom_via_points_active) updateViaPointsContainer(...)`: the    *)
(* flag and the parameter are read here, with no mutex held.               *)
CheckViaPoints ==
    /\ pc = "via_check"
    /\ pc' = IF custom_via_points_active THEN "goal_check" ELSE "via_clear"
    /\ sep_on' = (params.viapoint_sep /\ ~ custom_via_points_active)
    /\ UNCHANGED <<stage, planVars, ret, optVars, obstacles, viaVars,
                   custom_via_points_active, cbVars, obstVars, params, holder>>

ClearViaPoints ==
    /\ pc = "via_clear"
    /\ pc' = IF sep_on THEN "via_fill" ELSE "goal_check"
    /\ via_points' = {} /\ dangling' = TRUE
    /\ sep_on' = FALSE
    /\ UNCHANGED <<stage, planVars, ret, optVars, obstacles,
                   custom_via_points_active, cbVars, obstVars, params, holder>>

(* A plan shorter than the separation gives no via-point.                  *)
FillViaPoints ==
    /\ pc = "via_fill"
    /\ pc' = "goal_check"
    /\ via_points' \in {via_points, via_points \cup {FromPlan}}
    /\ dangling' = TRUE
    /\ UNCHANGED <<stage, sep_on, planVars, ret, optVars, obstacles,
                   custom_via_points_active, cbVars, obstVars, params, holder>>

GoalReached ==
    /\ pc = "goal_check"
    /\ goal_reached' = TRUE
    /\ Return("SUCCESS", "zero")
    /\ UNCHANGED <<stage, sep_on, global_plan, optVars, obstacles, viaVars,
                   custom_via_points_active, cbVars, obstVars, params>>

GoalNotReached ==
    /\ pc = "goal_check"
    /\ pc' = "obstacles"
    /\ UNCHANGED <<stage, sep_on, planVars, ret, optVars, obstacles, viaVars,
                   custom_via_points_active, cbVars, obstVars, params, holder>>

(* Mutant: _obstacles is not cleared first.                                *)
UpdateObstaclesUncleared ==
    /\ pc = "obstacles" /\ Free("custom_obst")
    /\ pc' = "lock_config"
    /\ obstacles' = obstacles \cup ({custom_obstacle_msg} \ {NoObstacles})
    /\ UNCHANGED <<stage, sep_on, planVars, ret, optVars, viaVars,
                   custom_via_points_active, cbVars, obstVars, params, holder>>

(* _obstacles is cleared, filled from the costmap and then, holding        *)
(* _custom_obst_mutex, from the message received last.                     *)
UpdateObstacles ==
    /\ pc = "obstacles" /\ Free("custom_obst")
    /\ pc' = "lock_config"
    /\ obstacles' = {custom_obstacle_msg} \ {NoObstacles}
    /\ UNCHANGED <<stage, sep_on, planVars, ret, optVars, viaVars,
                   custom_via_points_active, cbVars, obstVars, params, holder>>

Lock(from, m, to) ==
    /\ pc = from /\ Free(m)
    /\ pc' = to
    /\ holder' = [holder EXCEPT ![m] = "control"]
    /\ UNCHANGED <<stage, sep_on, planVars, ret, optVars, obstacles, viaVars,
                   custom_via_points_active, cbVars, obstVars, params>>

(* Mutant: the optimisation runs without _via_point_mutex.                 *)
LockNothing ==
    /\ pc = "lock_via"
    /\ pc' = "lock_obst"
    /\ UNCHANGED <<stage, sep_on, planVars, ret, optVars, obstacles, viaVars,
                   custom_via_points_active, cbVars, obstVars, params, holder>>

LockConfig     == Lock("lock_config", "config", "lock_via")
LockViaPoints  == Lock("lock_via", "via_point", "lock_obst")
LockObstacles  == Lock("lock_obst", "custom_obst", "step")

(* Mutant: one of the two mutexes stays locked.                            *)
UnlockViaPointsOnly == holder' = [holder EXCEPT !["via_point"] = "none"]

(* The block with the two lock guards ends.                                *)
UnlockStep == holder' = [holder EXCEPT !["via_point"] = "none", !["custom_obst"] = "none"]

(* Controller::step prepares the grid and the edges; the via-point cost    *)
(* takes fresh pointers into _via_points.                                  *)
StepStarts ==
    /\ pc = "step"
    /\ pc' = "solving"
    /\ dangling' = FALSE
    /\ trajectory' = "planned"
    /\ UNCHANGED <<stage, sep_on, planVars, ret, u_seq, no_infeasible_plans,
                   obstacles, via_points, custom_via_points_active, cbVars, obstVars,
                   params, holder>>

StepSucceeds ==
    /\ pc = "solving"
    /\ pc' = "feasibility"
    /\ u_seq' = "current"
    /\ UnlockStep
    /\ UNCHANGED <<stage, sep_on, planVars, ret, no_infeasible_plans, trajectory,
                   obstacles, viaVars, custom_via_points_active, cbVars, obstVars, params>>

(* Refused before the solver runs, or not solved.  Whether the sequences   *)
(* of a failed optimisation are copied out is up to the solver library.    *)
StepFails ==
    /\ pc \in {"step", "solving"}
    /\ pc' = "no_solution"
    /\ u_seq' \in {u_seq, "current"}
    /\ UnlockStep
    /\ UNCHANGED <<stage, sep_on, planVars, ret, no_infeasible_plans, trajectory,
                   obstacles, viaVars, custom_via_points_active, cbVars, obstVars, params>>

(* Mutant: the failed trajectory is kept.                                  *)
NoValidCmdWithoutReset ==
    /\ no_infeasible_plans' = no_infeasible_plans + 1
    /\ Return("NO_VALID_CMD", "zero")
    /\ UNCHANGED <<stage, sep_on, planVars, u_seq, trajectory, obstacles, viaVars,
                   custom_via_points_active, cbVars, obstVars, params>>

(* The three NO_VALID_CMD returns: Controller::reset clears the grid.      *)
NoValidCmd ==
    /\ trajectory' = "empty"
    /\ no_infeasible_plans' = no_infeasible_plans + 1
    /\ Return("NO_VALID_CMD", "zero")
    /\ UNCHANGED <<stage, sep_on, planVars, u_seq, obstacles, viaVars,
                   custom_via_points_active, cbVars, obstVars, params>>

NoSolution == pc = "no_solution" /\ NoValidCmd
Infeasible == pc = "feasibility" /\ NoValidCmd
BadTwist   == pc = "command" /\ NoValidCmd

Feasible ==
    /\ pc = "feasibility"
    /\ pc' = "command"
    /\ UNCHANGED <<stage, sep_on, planVars, ret, optVars, obstacles, viaVars,
                   custom_via_points_active, cbVars, obstVars, params, holder>>

Command ==
    /\ pc = "command"
    /\ no_infeasible_plans' = 0
    /\ Return("SUCCESS", u_seq)
    /\ UNCHANGED <<stage, sep_on, planVars, u_seq, trajectory, obstacles, viaVars,
                   custom_via_points_active, cbVars, obstVars, params>>

ControlNext ==
    \/ Advertise \/ Initialized \/ SetPlan \/ ComputeRefused \/ Compute
    \/ TransformFails \/ Transform \/ CheckViaPoints \/ ClearViaPoints \/ FillViaPoints
    \/ GoalReached \/ GoalNotReached \/ UpdateObstacles
    \/ LockConfig \/ LockViaPoints \/ LockObstacles
    \/ StepStarts \/ StepSucceeds \/ StepFails
    \/ NoSolution \/ Infeasible \/ Feasible \/ BadTwist \/ Command

-----------------------------------------------------------------------------
(* Callback threads                                                        *)

(* customViaPointsCB reads _params and writes the flag without a mutex.    *)
ReceiveViaPoints ==
    /\ via_cb = "idle" /\ stage # "new"
    /\ \/ /\ params.viapoint_sep
          /\ via_cb' = "ignore" /\ via_msg' = via_msg
       \/ /\ ~ params.viapoint_sep
          /\ via_cb' = "received" /\ via_msg' \in Paths \cup {EmptyPath}
    /\ UNCHANGED <<stage, pc, sep_on, planVars, ret, optVars, obstacles, viaVars,
                   custom_via_points_active, obstVars, params, holder>>

IgnoreViaPoints ==
    /\ via_cb = "ignore"
    /\ via_cb' = "idle" /\ via_msg' = EmptyPath
    /\ custom_via_points_active' = FALSE
    /\ UNCHANGED <<stage, pc, sep_on, planVars, ret, optVars, obstacles, viaVars,
                   obstVars, params, holder>>

(* Mutants: a path without poses counts as a via-point; the mutex is not   *)
(* released.                                                               *)
EndViaPointsUnfiltered ==
    /\ via_cb = "filling"
    /\ via_cb' = "idle" /\ via_msg' = EmptyPath
    /\ holder' = [holder EXCEPT !["via_point"] = "none"]
    /\ via_points' = via_points \cup {via_msg}
    /\ custom_via_points_active' = TRUE
    /\ dangling' = TRUE
    /\ UNCHANGED <<stage, pc, sep_on, planVars, ret, optVars, obstacles,
                   obstVars, params>>

EndViaPointsLocked ==
    /\ via_cb = "filling"
    /\ via_cb' = "idle" /\ via_msg' = EmptyPath
    /\ via_points' = via_points \cup ({via_msg} \ {EmptyPath})
    /\ custom_via_points_active' = (via_points' # {})
    /\ dangling' = TRUE
    /\ UNCHANGED <<stage, pc, sep_on, planVars, ret, optVars, obstacles,
                   obstVars, params, holder>>

(* Lock and clear, then fill, set the flag and unlock.                     *)
BeginViaPoints ==
    /\ via_cb = "received" /\ Free("via_point")
    /\ via_cb' = "filling"
    /\ holder' = [holder EXCEPT !["via_point"] = "via_cb"]
    /\ via_points' = {} /\ dangling' = TRUE
    /\ UNCHANGED <<stage, pc, sep_on, planVars, ret, optVars, obstacles,
                   custom_via_points_active, via_msg, obstVars, params>>

EndViaPoints ==
    /\ via_cb = "filling"
    /\ via_cb' = "idle" /\ via_msg' = EmptyPath
    /\ holder' = [holder EXCEPT !["via_point"] = "none"]
    /\ via_points' = via_points \cup ({via_msg} \ {EmptyPath})
    /\ custom_via_points_active' = (via_points' # {})
    /\ dangling' = TRUE
    /\ UNCHANGED <<stage, pc, sep_on, planVars, ret, optVars, obstacles,
                   obstVars, params>>

(* Lock, copy, unlock: one step, since every access holds the mutex.       *)
CustomObstacles ==
    /\ stage # "new" /\ Free("custom_obst")
    /\ \E o \in ObstacleMsgs \cup {NoObstacles} :
          /\ custom_obstacle_msg' = o
          /\ obstacle_msgs_seen' = IF pc \in BeforeObstacles THEN obstacle_msgs_seen \cup {o}
                                                          ELSE obstacle_msgs_seen
    /\ UNCHANGED <<stage, pc, sep_on, planVars, ret, optVars, obstacles, viaVars,
                   custom_via_points_active, cbVars, params, holder>>

ReconfigureController ==
    /\ stage # "new" /\ Free("config")
    /\ \E b \in BOOLEAN : params' = [params EXCEPT !.viapoint_sep = b]
    /\ UNCHANGED <<stage, pc, sep_on, planVars, ret, optVars, obstacles, viaVars,
                   custom_via_points_active, cbVars, obstVars, holder>>

(* Mutant: the parameters are written without config_mutex_.               *)
ReconfigureCheckUnlocked ==
    /\ stage # "new"
    /\ \E c \in CheckParams : params' = [params EXCEPT !.check = c]
    /\ UNCHANGED <<stage, pc, sep_on, planVars, ret, optVars, obstacles, viaVars,
                   custom_via_points_active, cbVars, obstVars, holder>>

(* reconfigureCollisionCB and reconfigureFootprintCB write what the        *)
(* feasibility check reads.                                                *)
ReconfigureCheck ==
    /\ stage # "new" /\ Free("config")
    /\ \E c \in CheckParams : params' = [params EXCEPT !.check = c]
    /\ UNCHANGED <<stage, pc, sep_on, planVars, ret, optVars, obstacles, viaVars,
                   custom_via_points_active, cbVars, obstVars, holder>>

CallbackNext ==
    \/ ReceiveViaPoints \/ IgnoreViaPoints \/ BeginViaPoints \/ EndViaPoints
    \/ CustomObstacles \/ ReconfigureController \/ ReconfigureCheck

Next == ControlNext \/ CallbackNext

Spec == Init /\ [][Next]_vars

(* The control thread is scheduled within a call, the solver returns, and  *)
(* customViaPointsCB leaves its critical section.  A std::mutex that is    *)
(* free again and again is taken at last: strong fairness, as the mutex    *)
(* queues nobody but via_points messages arrive with pauses in between.    *)
WithinCall ==
    \/ TransformFails \/ Transform \/ CheckViaPoints \/ ClearViaPoints \/ FillViaPoints
    \/ GoalReached \/ GoalNotReached \/ UpdateObstacles \/ LockConfig \/ LockObstacles
    \/ StepStarts \/ StepSucceeds \/ StepFails
    \/ NoSolution \/ Infeasible \/ Feasible \/ BadTwist \/ Command

Fairness ==
    /\ WF_vars(WithinCall) /\ SF_vars(LockViaPoints)
    /\ WF_vars(EndViaPoints)

FairSpec == Spec /\ Fairness

-----------------------------------------------------------------------------
(* Properties                                                              *)

(* Each mutex is held by the control thread in its section of              *)
(* computeVelocityCommands, by customViaPointsCB in its own, and by nobody *)
(* else: no return path, of the many there are, leaves a mutex locked.     *)
LockDiscipline ==
    /\ holder["config"] = IF pc \in ConfigLocked THEN "control" ELSE "none"
    /\ holder["custom_obst"] = IF pc \in ObstLocked THEN "control" ELSE "none"
    /\ holder["via_point"] = IF pc \in ViaLocked THEN "control"
                             ELSE IF via_cb = "filling" THEN "via_cb" ELSE "none"
    /\ ~ (pc \in ViaLocked /\ via_cb = "filling")

(* The solver never evaluates a cost term through a pointer into           *)
(* _via_points that the container has since invalidated, although the cost *)
(* keeps raw pointers from one call to the next and other threads, and the *)
(* control thread itself, clear the container in between.                  *)
NoDanglingViaPoint == pc = "solving" => ~ dangling

(* The custom obstacles of an optimisation all stem from messages that     *)
(* were current at some time during this very call, never from an earlier  *)
(* call.                                                                   *)
ObstaclesOfThisCall ==
    pc \in ConfigLocked => obstacles \subseteq obstacle_msgs_seen

(* isGoalReached answers true only when the last call checked the plan in  *)
(* force, commanded zero and reported success.                             *)
GoalOnlyAtRest ==
    goal_reached => /\ pc = "idle" /\ global_plan # NoPlan
                    /\ ret = [outcome |-> "SUCCESS", cmd |-> "zero"]

(* What the comment at the config lock promises: from taking the lock to   *)
(* the return of the call no parameter changes; and while Controller::step *)
(* runs, neither the via-points nor the custom obstacles do.               *)
InputsFrozen ==
    [][ /\ (pc \in ConfigLocked /\ pc' \in ConfigLocked) => params' = params
        /\ (pc \in ObstLocked /\ pc' \in ObstLocked)
              => UNCHANGED <<via_points, custom_obstacle_msg, obstacles>> ]_vars

(* A flag that says custom via-points are in force means the optimisation  *)
(* runs with custom via-points.  The code does not keep this: see README.  *)
ActiveMeansCustom ==
    (pc = "solving" /\ custom_via_points_active)
        => via_points # {} /\ via_points \subseteq Paths

(* Every call of computeVelocityCommands returns.                          *)
ComputeReturns == (pc # "idle") ~> (pc = "idle")

(* The planner implements the contract its caller relies on.               *)
Contract == INSTANCE VelocityCommandContract WITH
    ready <- stage = "ready",
    busy  <- pc # "idle",
    no_infeasible_plans <- no_infeasible_plans

ImplementsContract == Contract!Spec
=============================================================================
