-------------------------- MODULE ControllerProofs --------------------------
(* Proofs about the controller, for all parameters, goals and delays.      *)
EXTENDS Controller, TLAPS

(* Pointers stem from the last configure() once it succeeded; before, no   *)
(* step has been made.                                                     *)
Configured ==
    /\ life = "ready" =>
         /\ configures > 0
         /\ dynamics = configures /\ grid = configures
         /\ solver = configures /\ ocp = configures
    /\ life # "ready" => pc = "idle" /\ ocp_seq = 0 /\ trajectory.age = 0

(* The trajectory is always one for the last goal.                         *)
GoalKept == trajectory.age # 0 => trajectory.goal = last_goal

(* Time stamp and value are from one message unless the mutex is held.     *)
Untorn == ~ storing.set /\ recent.set => recent.stamp = recent_time
StoringLast == storing.set => storing.stamp = recent_time

(* What holds while the optimisation runs.                                 *)
Stepping ==
    pc = "optimise" =>
        /\ "feedback" \in {x.pose, x.rest} => now - x.stamp < 2 * Dt
        /\ trajectory.age # 0 => ~ Far(goal, last_goal)

(* The age of the trajectory against the counter that renews it.           *)
Counted ==
    force_steps > 0 =>
        IF pc = "optimise" THEN trajectory.age <= ocp_seq % force_steps
        ELSE IF ocp_seq = 0 THEN trajectory.age = 0
        ELSE trajectory.age <= ((ocp_seq - 1) % force_steps) + 1

IInv == TypeOK /\ Configured /\ GoalKept /\ Untorn /\ StoringLast /\ Stepping /\ Counted

-----------------------------------------------------------------------------
(* Counting modulo n, with quotient and remainder at hand.                 *)
LEMMA ModuloRange ==
    ASSUME NEW q \in Nat, NEW n \in Nat, n > 0
    PROVE  q % n \in 0..(n - 1) /\ q \div n \in Nat /\ q = n * (q \div n) + (q % n)
  OBVIOUS

LEMMA ModuloUnique ==
    ASSUME NEW n \in Nat, n > 0, NEW a \in Int, NEW b \in Int,
           NEW r \in 0..(n - 1), NEW s \in 0..(n - 1), n * a + r = n * b + s
    PROVE  r = s
  <1>1. n * (a - b) = s - r
    OBVIOUS
  <1>2. CASE a = b
    BY <1>1, <1>2
  <1>3. CASE a > b
    <2>1. n * (a - b) >= n
      BY <1>3
    <2> QED
      BY <1>1, <2>1
  <1>4. CASE a < b
    <2>1. n * (a - b) <= -n
      BY <1>4
    <2> QED
      BY <1>1, <2>1
  <1> QED
    BY <1>2, <1>3, <1>4

(* One step before a number that is no multiple the remainder is one less.       *)
LEMMA ModuloBefore ==
    ASSUME NEW q \in Nat, NEW n \in Nat, n > 0, q % n # 0
    PROVE  ((q - 1) % n) + 1 = q % n
  <1>1. q > 0
    <2>1. n * (q \div n) + (q % n) = q /\ q \div n \in Nat /\ q % n \in 0..(n - 1)
      BY ModuloRange
    <2>2. n * (q \div n) >= 0
      BY <2>1
    <2> QED
      BY <2>1, <2>2
  <1>2. /\ q % n \in 0..(n - 1) /\ q \div n \in Nat /\ q = n * (q \div n) + (q % n)
        /\ (q - 1) % n \in 0..(n - 1) /\ (q - 1) \div n \in Nat
        /\ q - 1 = n * ((q - 1) \div n) + ((q - 1) % n)
    BY <1>1, ModuloRange
  <1> DEFINE a == q \div n
             r == q % n
             b == (q - 1) \div n
             s == (q - 1) % n
  <1>3. r - 1 \in 0..(n - 1)
    BY <1>2
  <1>4. n * a + (r - 1) = n * b + s
    BY <1>2
  <1> HIDE DEF a, b, r, s
  <1>5. r - 1 = s
    <2>1. a \in Int /\ b \in Int /\ s \in 0..(n - 1)
      BY <1>2 DEF a, b, s
    <2> QED
      BY <1>3, <1>4, <2>1, ModuloUnique
  <1> QED
    BY <1>2, <1>5 DEF r, s

-----------------------------------------------------------------------------
LEMMA Numbers ==
    ASSUME TypeOK
    PROVE  force_steps \in Nat /\ ocp_seq \in Nat /\ trajectory.age \in Nat
  BY ControllerAssumption DEF TypeOK

LEMMA InitInvariant == Init => IInv
  <1> SUFFICES ASSUME Init PROVE IInv
    OBVIOUS
  <1>1. TypeOK
    <2>1. x \in State /\ {recent, storing} \subseteq [set : BOOLEAN, stamp : Int] /\ recent_time \in Int
      BY DEF Init, State, Sources, NoFeedback
    <2>2. /\ trajectory \in [goal : Goals \cup {NoGoal}, age : Nat]
          /\ x_init \in [goal : Goals \cup {NoGoal}, seq : Int]
      BY DEF Init, NoTrajectory
    <2>3. /\ life \in {"unconfigured", "ready", "crashed"}
          /\ pc \in {"idle", "optimise", "solved", "failed"}
          /\ goal \in Goals \cup {NoGoal} /\ last_goal \in Goals \cup {NoGoal}
      BY DEF Init
    <2>4. /\ configures \in Nat /\ {dynamics, grid, solver, ocp} \subseteq Nat
          /\ force_steps \in ForceSteps \cup {0}
          /\ now \in Nat /\ ocp_seq \in Nat /\ x_ts \in 0..ocp_seq
      BY DEF Init
    <2>5. subscribed \in BOOLEAN /\ prefer_x \in BOOLEAN
      BY DEF Init
    <2> QED
      BY <2>1, <2>2, <2>3, <2>4, <2>5 DEF TypeOK
  <1>2. Configured /\ GoalKept /\ Untorn /\ StoringLast /\ Stepping /\ Counted
    BY DEF Init, Configured, GoalKept, Untorn, StoringLast, Stepping, Counted, NoTrajectory, NoFeedback
  <1> QED
    BY <1>1, <1>2 DEF IInv

(* A call of configure() succeeds as a whole or leaves no step possible.   *)
LEMMA ConfigureInvariant == IInv /\ Configure => IInv'
  <1> SUFFICES ASSUME IInv, life = "unconfigured", NEW p \in Parameters, ConfigureWith(p)
               PROVE  IInv'
    BY DEF Configure
  <1>1. UNCHANGED <<stepVars, now, feedbackVars>> /\ configures' = configures + 1
    BY DEF ConfigureWith
  <1>2. pc = "idle" /\ ocp_seq = 0 /\ trajectory.age = 0
    BY DEF IInv, Configured
  <1>3. TypeOK'
    <2>1. /\ {dynamics, grid, solver, ocp}' \subseteq Nat /\ configures' \in Nat
          /\ life' \in {"unconfigured", "ready", "crashed"}
      BY <1>1 DEF IInv, TypeOK, ConfigureWith, Made
    <2>2. subscribed' \in BOOLEAN /\ prefer_x' \in BOOLEAN
      BY DEF IInv, TypeOK, ConfigureWith
    <2>3. force_steps' \in ForceSteps \cup {0}
      BY DEF IInv, TypeOK, ConfigureWith
    <2> QED
      BY <1>1, <2>1, <2>2, <2>3 DEF IInv, TypeOK, stepVars, feedbackVars
  <1>4. Configured'
    BY <1>1, <1>2
    DEF IInv, TypeOK, Configured, ConfigureWith, Made, stepVars
  <1>5. GoalKept' /\ Stepping' /\ Counted'
    BY <1>1, <1>2 DEF GoalKept, Stepping, Counted, stepVars
  <1>6. Untorn' /\ StoringLast'
    BY <1>1 DEF IInv, Untorn, StoringLast, feedbackVars
  <1> QED
    BY <1>3, <1>4, <1>5, <1>6 DEF IInv

(* A message on its way into the controller disturbs no step: it changes   *)
(* neither the state the optimisation started from nor the time.           *)
LEMMA StateFeedbackInvariant == IInv /\ StateFeedback => IInv'
  <1> SUFFICES ASSUME IInv, NEW d \in Delays,
                      ~ storing.set,
                      storing' = [set |-> TRUE, stamp |-> now - d], recent_time' = now - d,
                      UNCHANGED <<confVars, stepVars, now, recent>>
               PROVE  IInv'
    BY DEF StateFeedback
  <1>1. now - d \in Int
    BY ControllerAssumption DEF IInv, TypeOK
  <1>2. storing' \in [set : BOOLEAN, stamp : Int]
    BY <1>1
  <1>3. TypeOK'
    BY <1>1, <1>2 DEF IInv, TypeOK, confVars, stepVars, pointers
  <1>4. Untorn' /\ StoringLast'
    BY DEF Untorn, StoringLast
  <1>5. Configured' /\ GoalKept' /\ Stepping' /\ Counted'
    BY DEF IInv, Configured, GoalKept, Stepping, Counted, confVars, stepVars, pointers
  <1> QED
    BY <1>3, <1>4, <1>5 DEF IInv

LEMMA StateFeedbackStoredInvariant == IInv /\ StateFeedbackStored => IInv'
  <1> SUFFICES ASSUME IInv, storing.set, recent' = storing, storing' = NoFeedback,
                      UNCHANGED <<confVars, stepVars, now, recent_time>>
               PROVE  IInv'
    BY DEF StateFeedbackStored
  <1>1. storing' \in [set : BOOLEAN, stamp : Int] /\ ~ storing'.set
    BY DEF NoFeedback
  <1>2. TypeOK'
    BY <1>1 DEF IInv, TypeOK, confVars, stepVars, pointers
  <1>3. Untorn' /\ StoringLast'
    BY <1>1 DEF IInv, Untorn, StoringLast
  <1>4. Configured' /\ GoalKept' /\ Stepping' /\ Counted'
    BY DEF IInv, Configured, GoalKept, Stepping, Counted, confVars, stepVars, pointers
  <1> QED
    BY <1>2, <1>3, <1>4 DEF IInv

LEMMA BeginStepInvariant == ASSUME IInv, NEW g \in Goals, BeginStep(g) PROVE IInv'
  <1> USE DEF IInv
  <1>1. /\ pc = "idle" /\ pc' = "optimise" /\ goal' = g /\ x' = StartState
        /\ FeedbackReadable /\ UNCHANGED <<confVars, now, feedbackVars, last_goal, ocp_seq, x_ts>>
        /\ trajectory' = IF Reinit(g) THEN NoTrajectory ELSE trajectory
        /\ x_init' = IF trajectory'.age = 0 THEN [goal |-> g, seq |-> ocp_seq] ELSE x_init
        /\ life = "ready"
    BY DEF BeginStep
  <1>2. StartState \in State
    BY DEF StartState, State, Sources, Unmerged, TypeOK
  <1>3. NoTrajectory.age = 0 /\ NoTrajectory \in [goal : Goals \cup {NoGoal}, age : Nat]
    BY DEF NoTrajectory
  <1>4. TypeOK'
    BY <1>1, <1>2, <1>3 DEF TypeOK, confVars, feedbackVars, pointers
  <1>5. Configured'
    BY <1>1 DEF Configured, confVars, pointers
  <1>6. GoalKept'
    BY <1>1, <1>3 DEF GoalKept
  <1>7. Stepping'
    <2>1. "feedback" \in {x'.pose, x'.rest} => now' - x'.stamp < 2 * Dt
      <3> SUFFICES ASSUME "feedback" \in {x'.pose, x'.rest} PROVE now - recent.stamp < 2 * Dt
        BY <1>1 DEF StartState
      <3>1. NewX
        BY <1>1 DEF StartState, Unmerged
      <3>2. recent.stamp = recent_time
        BY <1>1, <3>1 DEF NewX, FeedbackReadable, Untorn
      <3> QED
        BY <3>1, <3>2 DEF NewX
    <2>2. trajectory'.age # 0 => ~ Far(goal', last_goal')
      <3> SUFFICES ASSUME trajectory'.age # 0 PROVE ~ Far(g, last_goal)
        BY <1>1 DEF Far, AbsVal, NormalizeTheta
      <3> QED
        BY <1>1, <1>3 DEF Reinit, GridEmpty
    <2> QED
      BY <2>1, <2>2 DEF Stepping
  <1>8. Counted'
    <2> SUFFICES ASSUME force_steps > 0
                 PROVE  trajectory'.age <= ocp_seq % force_steps
      BY <1>1 DEF Counted, confVars
    <2>1. force_steps \in Nat /\ ocp_seq \in Nat /\ trajectory.age \in Nat
      BY Numbers
    <2>2. ocp_seq % force_steps \in 0..(force_steps - 1)
      BY <2>1, ModuloRange
    <2>3. CASE ocp_seq % force_steps = 0
      <3>1. trajectory'.age = 0
        BY <2>3, <1>1, <1>3 DEF Reinit, ForceReinit
      <3> QED
        BY <3>1, <2>2
    <2>4. CASE ocp_seq % force_steps # 0
      <3>1. ((ocp_seq - 1) % force_steps) + 1 = ocp_seq % force_steps
        BY <2>1, <2>4, ModuloBefore
      <3>2. trajectory'.age = 0 \/ trajectory'.age = trajectory.age
        BY <1>1, <1>3
      <3>3. trajectory.age = 0 \/ trajectory.age <= ((ocp_seq - 1) % force_steps) + 1
        BY <1>1 DEF Counted
      <3> QED
        BY <3>1, <3>2, <3>3, <2>2
    <2> QED
      BY <2>3, <2>4
  <1>9. Untorn' /\ StoringLast'
    BY <1>1 DEF Untorn, StoringLast, feedbackVars
  <1> QED
    BY <1>4, <1>5, <1>6, <1>7, <1>8, <1>9

LEMMA OptimiseInvariant == IInv /\ Optimise => IInv'
  <1> SUFFICES ASSUME IInv, Optimise PROVE IInv'
    OBVIOUS
  <1> USE DEF IInv
  <1>1. /\ pc = "optimise" /\ pc' \in {"solved", "failed"}
        /\ trajectory' = [goal |-> goal, age |-> trajectory.age + 1]
        /\ x_ts' \in {x_ts, ocp_seq + 1}
        /\ ocp_seq' = ocp_seq + 1 /\ last_goal' = goal
        /\ UNCHANGED <<confVars, feedbackVars, x, goal, x_init>>
    BY DEF Optimise
  <1>2. now' \in Nat
    BY ControllerAssumption DEF Optimise, TypeOK
  <1>3. TypeOK'
    BY <1>1, <1>2 DEF TypeOK, confVars, feedbackVars, pointers
  <1>4. Configured'
    BY <1>1 DEF Configured, confVars, pointers
  <1>5. GoalKept' /\ Stepping'
    BY <1>1 DEF GoalKept, Stepping
  <1>6. Counted'
    <2> SUFFICES ASSUME force_steps > 0
                 PROVE  trajectory'.age <= ((ocp_seq' - 1) % force_steps) + 1 /\ ocp_seq' # 0
      BY <1>1 DEF Counted, confVars
    <2>1. force_steps \in Nat /\ ocp_seq \in Nat /\ trajectory.age \in Nat
      BY ControllerAssumption DEF TypeOK
    <2>2. ocp_seq' - 1 = ocp_seq /\ ocp_seq' # 0
      BY <1>1, <2>1
    <2>3. trajectory.age <= ocp_seq % force_steps /\ trajectory'.age = trajectory.age + 1
      BY <1>1 DEF Counted
    <2>4. ocp_seq % force_steps \in Nat
      BY <2>1, ModuloRange
    <2> QED
      BY <2>1, <2>2, <2>3, <2>4
  <1>7. Untorn' /\ StoringLast'
    BY <1>1 DEF Untorn, StoringLast, feedbackVars
  <1> QED
    BY <1>3, <1>4, <1>5, <1>6, <1>7

LEMMA ResetInvariant == IInv /\ Reset => IInv'
  <1> SUFFICES ASSUME IInv, Reset PROVE IInv'
    OBVIOUS
  <1> USE DEF IInv
  <1>1. /\ pc \in {"solved", "failed"} /\ pc' = "idle"
        /\ trajectory' = NoTrajectory /\ x_ts' \in {0, x_ts}
        /\ UNCHANGED <<confVars, now, feedbackVars, x, goal, last_goal, ocp_seq, x_init>>
    BY DEF Reset
  <1>2. NoTrajectory.age = 0 /\ NoTrajectory \in [goal : Goals \cup {NoGoal}, age : Nat]
    BY DEF NoTrajectory
  <1>3. TypeOK' /\ Configured' /\ GoalKept' /\ Untorn' /\ StoringLast' /\ Stepping'
    BY <1>1, <1>2 DEF TypeOK, Configured, GoalKept, Untorn, StoringLast, Stepping, confVars,
       feedbackVars, pointers
  <1>4. Counted'
    <2> SUFFICES ASSUME force_steps > 0, ocp_seq # 0
                 PROVE  0 <= ((ocp_seq - 1) % force_steps) + 1
      BY <1>1, <1>2 DEF Counted, confVars
    <2>1. force_steps \in Nat /\ ocp_seq - 1 \in Nat
      BY ControllerAssumption DEF TypeOK
    <2>2. (ocp_seq - 1) % force_steps \in 0..(force_steps - 1)
      BY <2>1, ModuloRange
    <2> QED
      BY <2>2
  <1> QED
    BY <1>3, <1>4

LEMMA AcceptInvariant == IInv /\ Accept => IInv'
  BY DEF IInv, TypeOK, Configured, GoalKept, Untorn, StoringLast, Stepping, Counted, Accept,
     confVars, feedbackVars, pointers

(* The inductive invariant of the controller: types, pointers of one       *)
(* configuration, the goal of the trajectory, and its age against the      *)
(* counter of steps.                                                       *)
THEOREM Invariance == Spec => []IInv
  <1>1. IInv /\ [Next]_vars => IInv'
    <2> SUFFICES ASSUME IInv, [Next]_vars PROVE IInv'
      OBVIOUS
    <2>1. CASE Configure
      BY <2>1, ConfigureInvariant
    <2>2. CASE StateFeedback
      BY <2>2, StateFeedbackInvariant
    <2>3. CASE StateFeedbackStored
      BY <2>3, StateFeedbackStoredInvariant
    <2>4. CASE \E g \in Goals : BeginStep(g)
      BY <2>4, BeginStepInvariant
    <2>5. CASE Optimise
      BY <2>5, OptimiseInvariant
    <2>6. CASE Reset
      BY <2>6, ResetInvariant
    <2>7. CASE Accept
      BY <2>7, AcceptInvariant
    <2>8. CASE UNCHANGED vars
      BY <2>8 DEF vars, confVars, stepVars, feedbackVars, pointers, IInv, TypeOK, Configured, GoalKept,
         Untorn, StoringLast, Stepping, Counted
    <2> QED
      BY <2>1, <2>2, <2>3, <2>4, <2>5, <2>6, <2>7, <2>8 DEF Next
  <1> QED
    BY <1>1, InitInvariant, PTL DEF Spec

(* Every variable of the controller keeps to its type.                     *)
THEOREM TypeCorrect == Spec => []TypeOK
  <1>1. IInv => TypeOK
    BY DEF IInv
  <1> QED
    BY <1>1, Invariance, PTL

(* For any delays, pauses and periods, and wherever messages arrive, no    *)
(* step starts from a value two periods old.                               *)
THEOREM MeasurementAlwaysFresh == Spec => []MeasurementFresh
  <1>1. IInv => MeasurementFresh
    BY DEF IInv, Stepping, MeasurementFresh
  <1> QED
    BY <1>1, Invariance, PTL

(* For every force_reinit_num_steps no trajectory gets older than that.    *)
THEOREM Renewed == Spec => []TrajectoryRenewed
  <1>1. IInv => TrajectoryRenewed
    <2> SUFFICES ASSUME IInv, force_steps > 0 PROVE trajectory.age <= force_steps
      BY DEF TrajectoryRenewed
    <2>1. force_steps \in Nat /\ ocp_seq \in Nat /\ trajectory.age \in Nat
      BY ControllerAssumption DEF IInv, TypeOK
    <2>2. ocp_seq % force_steps \in 0..(force_steps - 1)
      BY <2>1, ModuloRange
    <2>3. ocp_seq # 0 => (ocp_seq - 1) % force_steps \in 0..(force_steps - 1)
      BY <2>1, ModuloRange
    <2> QED
      BY <2>1, <2>2, <2>3 DEF IInv, Counted
  <1> QED
    BY <1>1, Invariance, PTL

(* A warm start is for a goal within both thresholds of the one before.    *)
THEOREM WarmStartNear == Spec => []WarmStartNearGoal
  <1>1. IInv => WarmStartNearGoal
    <2> SUFFICES ASSUME IInv, pc = "optimise", ~ GridEmpty PROVE ~ Far(goal, trajectory.goal)
      BY DEF WarmStartNearGoal
    <2> QED
      BY DEF IInv, Stepping, GoalKept, GridEmpty
  <1> QED
    BY <1>1, Invariance, PTL

(* A step uses objects of one configure() call only, and all of them.      *)
THEOREM ConfiguredAtOnce == Spec => []OneConfiguration
  <1>1. IInv => OneConfiguration
    BY DEF IInv, Configured, OneConfiguration
  <1> QED
    BY <1>1, Invariance, PTL
=============================================================================
