----------------------------- MODULE Controller -----------------------------
(***************************************************************************)
(* Controller of src/controller.cpp: configure() builds robot dynamics,    *)
(* grid, solver and optimal control problem from the parameters; step()    *)
(* chooses the state to start from, decides whether the trajectory of the  *)
(* grid is thrown away, makes a new initial trajectory if it was, and runs *)
(* the optimisation; stateFeedbackCallback() arrives on another thread;    *)
(* the planner calls reset() when it rejects the result.                   *)
(*                                                                         *)
(* A pointer is the number of the configure() call that made the object,   *)
(* 0 when it is null.  A state vector is kept as where its parts come      *)
(* from.  A goal is a pair of integers, position and heading; a full turn  *)
(* has Turn units.                                                         *)
(***************************************************************************)
EXTENDS Integers

CONSTANTS
    Goals,          \* goals of the local plans
    Turn,           \* units of angle in a full turn
    GoalDist,       \* force_reinit_new_goal_dist
    GoalAngle,      \* force_reinit_new_goal_angular
    ForceSteps,     \* values of force_reinit_num_steps, 0 when disabled
    Dt,             \* 1 / controller_frequency
    Pauses,         \* time between two steps
    Delays,         \* now minus the time stamp of an arriving state feedback
    MaxConfigure,   \* bound: calls of configure()
    MaxSteps        \* bound: calls of step()

ASSUME ControllerAssumption ==
    /\ Goals \subseteq Int \X Int /\ Goals # {}
    /\ Turn \in Nat \ {0} /\ GoalDist \in Nat /\ GoalAngle \in Nat
    /\ ForceSteps \subseteq Nat
    /\ Dt \in Nat \ {0} /\ Pauses \subseteq Nat /\ Delays \subseteq Int
    /\ MaxConfigure \in Nat /\ MaxSteps \in Nat

VARIABLES
    life,           \* unconfigured, ready, or crashed on a null pointer
    configures,     \* configure() calls so far
    dynamics, grid, solver, ocp,
    subscribed,     \* the state_feedback subscriber exists
    force_steps,    \* _force_reinit_num_steps
    prefer_x,       \* _prefer_x_feedback
    pc,             \* idle, optimise, solved or failed
    now,
    recent_time,    \* _recent_x_time
    recent,         \* _recent_x_feedback: set, and the stamp of the message it is from
    storing,        \* message for which stateFeedbackCallback holds _x_feedback_mutex
    x_ts,           \* 0 or the step that computed the last state sequence
    x,              \* state handed to the optimisation
    goal, last_goal,
    ocp_seq,
    trajectory,     \* history: goal the grid was last optimised for, steps it has lived
    x_init          \* _x_seq_init: the step and goal it was generated for

pointers == <<dynamics, grid, solver, ocp>>
confVars == <<life, configures, pointers, subscribed, force_steps, prefer_x>>
stepVars == <<pc, x, goal, last_goal, ocp_seq, trajectory, x_init, x_ts>>
feedbackVars == <<recent_time, recent, storing>>
vars == <<confVars, stepVars, now, feedbackVars>>

NoGoal       == <<0, 0>>
NoTrajectory == [goal |-> NoGoal, age |-> 0]
NoFeedback   == [set |-> FALSE, stamp |-> 0]
GridEmpty    == trajectory.age = 0

Sources == {"none", "odom", "feedback", "predicted", "steady"}
State   == [pose : Sources, rest : Sources, stamp : Int]

TypeOK ==
    /\ life \in {"unconfigured", "ready", "crashed"}
    /\ configures \in Nat
    /\ {dynamics, grid, solver, ocp} \subseteq Nat
    /\ subscribed \in BOOLEAN /\ force_steps \in ForceSteps \cup {0} /\ prefer_x \in BOOLEAN
    /\ pc \in {"idle", "optimise", "solved", "failed"}
    /\ now \in Nat /\ ocp_seq \in Nat /\ x_ts \in 0..ocp_seq
    /\ recent_time \in Int
    /\ {recent, storing} \subseteq [set : BOOLEAN, stamp : Int]
    /\ x \in State
    /\ goal \in Goals \cup {NoGoal} /\ last_goal \in Goals \cup {NoGoal}
    /\ trajectory \in [goal : Goals \cup {NoGoal}, age : Nat]
    /\ x_init \in [goal : Goals \cup {NoGoal}, seq : Int]

Init ==
    /\ life = "unconfigured" /\ configures = 0
    /\ dynamics = 0 /\ grid = 0 /\ solver = 0 /\ ocp = 0
    /\ subscribed = FALSE /\ force_steps = 0 /\ prefer_x = FALSE
    /\ pc = "idle" /\ now = 0
    /\ recent_time = 0 /\ recent = NoFeedback /\ storing = NoFeedback
    /\ x = [pose |-> "none", rest |-> "none", stamp |-> 0]
    /\ goal = NoGoal /\ last_goal = NoGoal /\ ocp_seq = 0 /\ x_ts = 0
    /\ trajectory = NoTrajectory /\ x_init = [goal |-> NoGoal, seq |-> -1]

-----------------------------------------------------------------------------
(* configure()                                                             *)

(* Parameters, as far as they decide whether an object is made: "bad"      *)
(* stands for an unknown name or a vector of the wrong length.             *)
Parameters ==
    [robot : {"known", "bad"}, grid_type : {"fd_grid", "bad"}, xf_fixed : {"fits", "bad"},
     solver_type : {"ipopt", "lsq_lm", "bad"},
     objective : {"minimum_time", "quadratic_form", "minimum_time_via_points", "bad"},
     weights : {"fit", "bad"},
     terminal_cost : {"none", "quadratic", "bad"},
     terminal_constraint : {"none", "l2_ball", "bad"},
     final_weights : {"fit", "bad"}, ball_weights : {"fit", "bad"}]

MakesDynamics(p) == p.robot # "bad"
MakesGrid(p)     == p.grid_type = "fd_grid" /\ p.xf_fixed = "fits"
MakesSolver(p)   == p.solver_type \in {"ipopt", "lsq_lm"}

(* The weights matter only for the type that uses them.                    *)
StageCostFits(p) ==
    p.objective # "bad" /\ (p.objective = "quadratic_form" => p.weights = "fit")
FinalCostFits(p) ==
    p.terminal_cost # "bad" /\ (p.terminal_cost = "quadratic" => p.final_weights = "fit")
FinalConstraintFits(p) ==
    p.terminal_constraint # "bad" /\ (p.terminal_constraint = "l2_ball" => p.ball_weights = "fit")

MakesOcp(p) == StageCostFits(p) /\ FinalCostFits(p) /\ FinalConstraintFits(p)

(* The new object of this configure() call, or null.                       *)
Made(made) == IF made THEN configures + 1 ELSE 0

(* Mutant: configure() goes on without a solver; only the end tests it.    *)
ConfigureSolverUntested(p) ==
    /\ configures' = configures + 1
    /\ dynamics' = Made(MakesDynamics(p)) /\ grid' = Made(MakesGrid(p))
    /\ solver' = Made(MakesSolver(p)) /\ ocp' = Made(MakesOcp(p))
    /\ \E n \in ForceSteps : force_steps' = n
    /\ prefer_x' \in BOOLEAN /\ subscribed' = TRUE
    /\ life' = IF dynamics' # 0 /\ grid' # 0 /\ ocp' # 0 THEN "ready" ELSE "unconfigured"
    /\ UNCHANGED <<stepVars, now, feedbackVars>>

(* Without dynamics configure() returns false and leaves the other         *)
(* pointers.  A null solver is dereferenced while the optimal control      *)
(* problem is made, a null problem right after; a null grid is found at    *)
(* the end, if the problem's initialize() has not failed before.           *)
ConfigureWith(p) ==
    /\ configures' = configures + 1
    /\ dynamics' = Made(MakesDynamics(p))
    /\ \/ /\ ~ MakesDynamics(p)
          /\ UNCHANGED <<life, grid, solver, ocp, subscribed, force_steps, prefer_x>>
       \/ /\ MakesDynamics(p) /\ ~ MakesSolver(p)
          /\ life' = "crashed"
          /\ grid' = Made(MakesGrid(p)) /\ solver' = 0
          /\ UNCHANGED <<ocp, subscribed, force_steps, prefer_x>>
       \/ /\ MakesDynamics(p) /\ MakesSolver(p)
          /\ grid' = Made(MakesGrid(p)) /\ solver' = configures + 1
          /\ ocp' = Made(MakesOcp(p))
          /\ \E n \in ForceSteps : force_steps' = n
          /\ prefer_x' \in BOOLEAN /\ subscribed' = TRUE
          /\ \/ ~ MakesOcp(p) /\ life' = "crashed"
             \/ MakesOcp(p) /\ MakesGrid(p) /\ life' = "ready"
             \/ MakesOcp(p) /\ life' = "unconfigured"
    /\ UNCHANGED <<stepVars, now, feedbackVars>>

(* The planner configures until it succeeds.                               *)
Configure ==
    /\ life = "unconfigured" /\ configures < MaxConfigure
    /\ \E p \in Parameters : ConfigureWith(p)

-----------------------------------------------------------------------------
(* State feedback and the state to start from                              *)

(* stateFeedbackCallback: refused without dynamics; then it locks the      *)
(* mutex and stores the time stamp ...                                     *)
StateFeedback ==
    /\ subscribed /\ dynamics # 0 /\ ~ storing.set
    /\ \E d \in Delays :
          /\ storing' = [set |-> TRUE, stamp |-> now - d]
          /\ recent_time' = now - d
    /\ UNCHANGED <<confVars, stepVars, now, recent>>

(* ... and then the value, and unlocks.                                    *)
StateFeedbackStored ==
    /\ storing.set
    /\ recent' = storing /\ storing' = NoFeedback
    /\ UNCHANGED <<confVars, stepVars, now, recent_time>>

(* Mutant: step() reads without locking.                                   *)
FeedbackReadableUnlocked == TRUE

(* step() has the mutex to itself while it tests the time stamp and copies *)
(* the value.                                                              *)
FeedbackReadable == ~ storing.set

NewX == recent.set /\ now - recent_time < 2 * Dt

(* The measurement, else the state dt ahead on the last state sequence,    *)
(* else the robot's pose at rest.                                          *)
Unmerged == IF NewX THEN "feedback" ELSE IF x_ts # 0 THEN "predicted" ELSE "steady"

(* Odometry replaces the pose unless a measurement is preferred; the rest  *)
(* of the state stays.                                                     *)
StartState ==
    [pose  |-> IF NewX /\ prefer_x THEN "feedback" ELSE "odom",
     rest  |-> Unmerged, stamp |-> recent.stamp]

-----------------------------------------------------------------------------
(* step()                                                                  *)

AbsVal(i) == IF i < 0 THEN -i ELSE i
NormalizeTheta(a) == ((a + Turn \div 2) % Turn) - Turn \div 2

(* goal pose diverges a lot from the previous one                          *)
Far(g, h) == AbsVal(g[1] - h[1]) > GoalDist \/ AbsVal(NormalizeTheta(g[2] - h[2])) > GoalAngle

(* Mutant: one step more than force_reinit_num_steps.                      *)
ForceReinitLate == force_steps > 0 /\ ocp_seq % (force_steps + 1) = 0

ForceReinit == force_steps > 0 /\ ocp_seq % force_steps = 0

Reinit(g) == ForceReinit \/ (~ GridEmpty /\ Far(g, last_goal))

(* step() up to PredictiveController::step.                                *)
BeginStep(g) ==
    /\ pc = "idle" /\ life = "ready" /\ ocp_seq < MaxSteps
    /\ dynamics # 0 /\ grid # 0 /\ ocp # 0
    /\ FeedbackReadable
    /\ pc' = "optimise" /\ goal' = g
    /\ x' = StartState
    /\ trajectory' = IF Reinit(g) THEN NoTrajectory ELSE trajectory
    /\ x_init' = IF trajectory'.age = 0 THEN [goal |-> g, seq |-> ocp_seq] ELSE x_init
    /\ UNCHANGED <<confVars, now, feedbackVars, last_goal, ocp_seq, x_ts>>

(* Mutants: the step is not counted; the goal is remembered only when the  *)
(* trajectory is new.                                                      *)
OptimiseUncounted ==
    /\ pc = "optimise"
    /\ pc' \in {"solved", "failed"}
    /\ trajectory' = [goal |-> goal, age |-> trajectory.age + 1]
    /\ x_ts' \in IF pc' = "solved" THEN {ocp_seq + 1} ELSE {x_ts, ocp_seq + 1}
    /\ last_goal' = goal
    /\ \E d \in Pauses : now' = now + d
    /\ UNCHANGED <<confVars, feedbackVars, x, goal, x_init, ocp_seq>>

OptimiseKeepingFirstGoal ==
    /\ pc = "optimise"
    /\ pc' \in {"solved", "failed"}
    /\ trajectory' = [goal |-> goal, age |-> trajectory.age + 1]
    /\ x_ts' \in IF pc' = "solved" THEN {ocp_seq + 1} ELSE {x_ts, ocp_seq + 1}
    /\ ocp_seq' = ocp_seq + 1
    /\ last_goal' = IF GridEmpty THEN goal ELSE last_goal
    /\ \E d \in Pauses : now' = now + d
    /\ UNCHANGED <<confVars, feedbackVars, x, goal, x_init>>

(* PredictiveController::step (external) updates the grid for the goal and *)
(* solves; whatever comes of it, the step is counted and the goal kept.    *)
Optimise ==
    /\ pc = "optimise"
    /\ pc' \in {"solved", "failed"}
    /\ trajectory' = [goal |-> goal, age |-> trajectory.age + 1]
    /\ x_ts' \in IF pc' = "solved" THEN {ocp_seq + 1} ELSE {x_ts, ocp_seq + 1}
    /\ ocp_seq' = ocp_seq + 1
    /\ last_goal' = goal
    /\ \E d \in Pauses : now' = now + d
    /\ UNCHANGED <<confVars, feedbackVars, x, goal, x_init>>

(* reset(): by the planner after a failed step, or when the trajectory or  *)
(* the command is not usable.  Whether the external part also empties the  *)
(* last state sequence is left open.                                       *)
Reset ==
    /\ pc \in {"solved", "failed"}
    /\ pc' = "idle"
    /\ trajectory' = NoTrajectory
    /\ x_ts' \in {0, x_ts}
    /\ UNCHANGED <<confVars, now, feedbackVars, x, goal, last_goal, ocp_seq, x_init>>

Accept ==
    /\ pc = "solved"
    /\ pc' = "idle"
    /\ UNCHANGED <<confVars, now, feedbackVars, x, goal, last_goal, ocp_seq, trajectory, x_init, x_ts>>

Next ==
    \/ Configure
    \/ StateFeedback \/ StateFeedbackStored
    \/ \E g \in Goals : BeginStep(g)
    \/ Optimise \/ Reset \/ Accept

Spec == Init /\ [][Next]_vars

-----------------------------------------------------------------------------
(* Properties                                                              *)

(* No part of the state the optimisation starts from comes from a message  *)
(* two periods old or older, although time stamp and value are stored one  *)
(* after the other while another thread reads them.                        *)
MeasurementFresh ==
    (pc = "optimise" /\ "feedback" \in {x.pose, x.rest}) => now - x.stamp < 2 * Dt

(* With force_reinit_num_steps a trajectory lives that many steps at most, *)
(* also when goals, failures and resets throw it away in between.          *)
TrajectoryRenewed == force_steps > 0 => trajectory.age <= force_steps

(* A trajectory is warm-started only for a goal close to the one it was    *)
(* last optimised for.                                                     *)
WarmStartNearGoal == (pc = "optimise" /\ ~ GridEmpty) => ~ Far(goal, trajectory.goal)

(* What step() works with was made by one and the same configure() call,   *)
(* the last one, and nothing is missing, the solver included, for which    *)
(* step() itself does not look.                                            *)
OneConfiguration ==
    pc = "optimise" =>
        /\ configures > 0
        /\ dynamics = configures /\ grid = configures
        /\ solver = configures /\ ocp = configures
=============================================================================
