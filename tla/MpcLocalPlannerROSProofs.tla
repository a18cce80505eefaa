---------------------- MODULE MpcLocalPlannerROSProofs ----------------------
(***************************************************************************)
(* Proofs about MpcLocalPlannerROS, for any number of plans, paths,        *)
(* obstacle messages and settings and any bound on failures.               *)
(***************************************************************************)
EXTENDS MpcLocalPlannerROS, TLAPS

(* A call is under way only after initialize(), below the bound on         *)
(* failures, and past the transformation only with a plan; before          *)
(* initialize() has ended no goal was reached.                             *)
CallInv ==
    /\ stage # "ready" => ~ goal_reached
    /\ pc # "idle" => stage = "ready" /\ no_infeasible_plans < MaxInfeasible
    /\ pc \notin {"idle", "transform"} => global_plan # NoPlan

(* After a successful step the control sequence is the one of this call.   *)
SolutionInv ==
    /\ pc \in {"solving", "feasibility", "command"} => trajectory = "planned"
    /\ pc \in {"feasibility", "command"} => u_seq = "current"

(* Until the call reads the obstacle message, the message is on record.    *)
ObstacleInv ==
    pc \in BeforeObstacles => custom_obstacle_msg \in obstacle_msgs_seen

(* The obstacles of a call are on record from the moment they are read.    *)
ObstaclesRecorded ==
    pc \in {"lock_config"} \cup ConfigLocked => obstacles \subseteq obstacle_msgs_seen

IInv ==
    /\ TypeOK
    /\ LockDiscipline
    /\ CallInv
    /\ SolutionInv
    /\ ObstacleInv
    /\ ObstaclesRecorded
    /\ NoDanglingViaPoint
    /\ GoalOnlyAtRest

USE PlannerAssumption DEF PlannerAssumption

-----------------------------------------------------------------------------
(* A planner that was just constructed holds no mutex, no pointer and no   *)
(* obstacle: it satisfies the inductive invariant.                         *)
LEMMA InitIInv == Init => IInv
  <1> SUFFICES ASSUME Init PROVE IInv
    OBVIOUS
  <1> USE DEF Init, PCs, BeforeObstacles, ConfigLocked, ViaLocked, ObstLocked
  <1>1. goal_reached \in BOOLEAN /\ sep_on \in BOOLEAN /\ dangling \in BOOLEAN
        /\ custom_via_points_active \in BOOLEAN
    OBVIOUS
  <1>2. TypeOK
    BY <1>1 DEF TypeOK, Result, Outcomes, Commands, Mutexes
  <1>3. LockDiscipline
    BY DEF LockDiscipline, Mutexes
  <1> QED
    BY <1>2, <1>3 DEF IInv, CallInv, SolutionInv, ObstacleInv, ObstaclesRecorded,
       NoDanglingViaPoint, GoalOnlyAtRest

(* Every step keeps the invariant: one step of the proof for each action.  *)
(* Where an action sets a flag, that the flag stays Boolean comes first.   *)
LEMMA NextIInv == IInv /\ [Next]_vars => IInv'
  <1> SUFFICES ASSUME IInv, [Next]_vars PROVE IInv'
    OBVIOUS
  <1> USE DEF IInv, TypeOK, LockDiscipline, CallInv, SolutionInv, ObstacleInv,
              ObstaclesRecorded, NoDanglingViaPoint, GoalOnlyAtRest,
              Mutexes, Params, Result, Commands, Outcomes,
              PCs, BeforeObstacles, ConfigLocked, ViaLocked, ObstLocked,
              planVars, optVars, viaVars, cbVars, obstVars
  <1>1. CASE Advertise
    BY <1>1 DEF Advertise
  <1>2. CASE Initialized
    BY <1>2 DEF Initialized
  <1>3. CASE SetPlan
    <2>1. goal_reached' \in BOOLEAN
      BY <1>3 DEF SetPlan
    <2> QED
      BY <1>3, <2>1 DEF SetPlan
  <1>4. CASE ComputeRefused
    BY <1>4 DEF ComputeRefused, Return
  <1>5. CASE Compute
    <2>1. goal_reached' \in BOOLEAN
      BY <1>5 DEF Compute
    <2> QED
      BY <1>5, <2>1 DEF Compute
  <1>6. CASE TransformFails
    BY <1>6 DEF TransformFails, Return
  <1>7. CASE Transform
    BY <1>7 DEF Transform
  <1>8. CASE CheckViaPoints
    <2>1. sep_on' \in BOOLEAN
      BY <1>8 DEF CheckViaPoints
    <2> QED
      BY <1>8, <2>1 DEF CheckViaPoints
  <1>9. CASE ClearViaPoints
    <2>1. sep_on' \in BOOLEAN /\ dangling' \in BOOLEAN
      BY <1>9 DEF ClearViaPoints
    <2> QED
      BY <1>9, <2>1 DEF ClearViaPoints
  <1>10. CASE FillViaPoints
    <2>1. dangling' \in BOOLEAN
      BY <1>10 DEF FillViaPoints
    <2> QED
      BY <1>10, <2>1 DEF FillViaPoints
  <1>11. CASE GoalReached
    <2>1. goal_reached' \in BOOLEAN
      BY <1>11 DEF GoalReached, Return
    <2> QED
      BY <1>11, <2>1 DEF GoalReached, Return
  <1>12. CASE GoalNotReached
    BY <1>12 DEF GoalNotReached
  <1>13. CASE UpdateObstacles
    BY <1>13 DEF UpdateObstacles, Free
  <1>14. CASE LockConfig
    BY <1>14 DEF LockConfig, Lock, Free
  <1>15. CASE LockViaPoints
    BY <1>15 DEF LockViaPoints, Lock, Free
  <1>16. CASE LockObstacles
    BY <1>16 DEF LockObstacles, Lock, Free
  <1>17. CASE StepStarts
    <2>1. dangling' \in BOOLEAN
      BY <1>17 DEF StepStarts
    <2> QED
      BY <1>17, <2>1 DEF StepStarts
  <1>18. CASE StepSucceeds
    BY <1>18 DEF StepSucceeds, UnlockStep
  <1>19. CASE StepFails
    BY <1>19 DEF StepFails, UnlockStep
  <1>20. CASE NoSolution
    BY <1>20 DEF NoSolution, NoValidCmd, Return
  <1>21. CASE Infeasible
    BY <1>21 DEF Infeasible, NoValidCmd, Return
  <1>22. CASE Feasible
    BY <1>22 DEF Feasible
  <1>23. CASE BadTwist
    BY <1>23 DEF BadTwist, NoValidCmd, Return
  <1>24. CASE Command
    BY <1>24 DEF Command, Return
  <1>25. CASE ReceiveViaPoints
    BY <1>25 DEF ReceiveViaPoints
  <1>26. CASE IgnoreViaPoints
    <2>1. custom_via_points_active' \in BOOLEAN
      BY <1>26 DEF IgnoreViaPoints
    <2> QED
      BY <1>26, <2>1 DEF IgnoreViaPoints
  <1>27. CASE BeginViaPoints
    <2>1. dangling' \in BOOLEAN
      BY <1>27 DEF BeginViaPoints, Free
    <2> QED
      BY <1>27, <2>1 DEF BeginViaPoints, Free
  <1>28. CASE EndViaPoints
    <2>1. custom_via_points_active' \in BOOLEAN /\ dangling' \in BOOLEAN
      BY <1>28 DEF EndViaPoints
    <2> QED
      BY <1>28, <2>1 DEF EndViaPoints
  <1>29. CASE CustomObstacles
    BY <1>29 DEF CustomObstacles, Free
  <1>30. CASE ReconfigureController
    BY <1>30 DEF ReconfigureController, Free
  <1>31. CASE ReconfigureCheck
    BY <1>31 DEF ReconfigureCheck, Free
  <1>32. CASE UNCHANGED vars
    BY <1>32 DEF vars
  <1> QED
    BY <1>1, <1>2, <1>3, <1>4, <1>5, <1>6, <1>7, <1>8, <1>9, <1>10, <1>11,
       <1>12, <1>13, <1>14, <1>15, <1>16, <1>17, <1>18, <1>19, <1>20,
       <1>21, <1>22, <1>23, <1>24, <1>25, <1>26, <1>27, <1>28, <1>29,
       <1>30, <1>31, <1>32
    DEF Next, ControlNext, CallbackNext

(* Types, mutexes, pointers, obstacles and the facts that hold within a    *)
(* call are invariant together, whatever the interleaving of the threads.  *)
THEOREM Invariance == Spec => []IInv
  <1> QED BY InitIInv, NextIInv, PTL DEF Spec

(* Every variable keeps to its type; in particular the number of failures  *)
(* in a row never passes the bound at which move_base gives up.            *)
THEOREM TypeCorrect == Spec => []TypeOK
  <1>1. IInv => TypeOK
    BY DEF IInv
  <1> QED BY <1>1, Invariance, PTL

(* No return path of computeVelocityCommands leaves a mutex locked, and    *)
(* the control thread and customViaPointsCB exclude each other.            *)
THEOREM LocksDisciplined == Spec => []LockDiscipline
  <1>1. IInv => LockDiscipline
    BY DEF IInv
  <1> QED BY <1>1, Invariance, PTL

(* The pointers the via-point cost keeps into _via_points are valid        *)
(* whenever the solver may follow them.                                    *)
THEOREM NoDanglingPointer == Spec => []NoDanglingViaPoint
  <1>1. IInv => NoDanglingViaPoint
    BY DEF IInv
  <1> QED BY <1>1, Invariance, PTL

(* An optimisation never runs with custom obstacles of an earlier call.    *)
THEOREM ObstaclesFresh == Spec => []ObstaclesOfThisCall
  <1>1. IInv => ObstaclesOfThisCall
    BY DEF IInv, ObstaclesRecorded, ObstaclesOfThisCall
  <1> QED BY <1>1, Invariance, PTL

(* isGoalReached says yes only after a call that checked the plan in force *)
(* and commanded zero velocity.                                            *)
THEOREM GoalAtRest == Spec => []GoalOnlyAtRest
  <1>1. IInv => GoalOnlyAtRest
    BY DEF IInv
  <1> QED BY <1>1, Invariance, PTL

-----------------------------------------------------------------------------

(* The critical sections of the callbacks exclude the control thread's:    *)
(* parameters stay from the config lock to the return, via-points and      *)
(* obstacles while Controller::step runs.                                  *)
LEMMA NextFrozen ==
  ASSUME IInv, [Next]_vars
  PROVE  /\ (pc \in ConfigLocked /\ pc' \in ConfigLocked) => params' = params
         /\ (pc \in ObstLocked /\ pc' \in ObstLocked)
               => UNCHANGED <<via_points, custom_obstacle_msg, obstacles>>
  <1> USE DEF IInv, LockDiscipline, ConfigLocked, ViaLocked, ObstLocked,
              planVars, optVars, viaVars, cbVars, obstVars
  <1>1. CASE UNCHANGED vars
    BY <1>1 DEF vars
  <1>2. CASE ControlNext
    BY <1>2 DEF ControlNext, Advertise, Initialized, SetPlan, ComputeRefused, Compute,
       TransformFails, Transform, CheckViaPoints, ClearViaPoints, FillViaPoints,
       GoalReached, GoalNotReached, UpdateObstacles, LockConfig, LockViaPoints,
       LockObstacles, Lock, StepStarts, StepSucceeds, StepFails, NoSolution, Infeasible,
       Feasible, BadTwist, Command, NoValidCmd, Return
  <1>3. CASE CallbackNext
    BY <1>3 DEF CallbackNext, ReceiveViaPoints, IgnoreViaPoints, BeginViaPoints,
       EndViaPoints, CustomObstacles, ReconfigureController, ReconfigureCheck, Free
  <1> QED
    BY <1>1, <1>2, <1>3 DEF Next

(* What the comment at the config lock promises holds of every run.        *)
THEOREM Frozen == Spec => InputsFrozen
  <1>1. IInv /\ [Next]_vars
        => [ /\ (pc \in ConfigLocked /\ pc' \in ConfigLocked) => params' = params
             /\ (pc \in ObstLocked /\ pc' \in ObstLocked)
                   => UNCHANGED <<via_points, custom_obstacle_msg, obstacles>> ]_vars
    BY NextFrozen
  <1> QED BY <1>1, Invariance, PTL DEF Spec, InputsFrozen

-----------------------------------------------------------------------------
(* Refinement: initial states and steps map to those of the contract.      *)
LEMMA InitRefines == Init => Contract!Init
  BY DEF Init, Contract!Init

(* Every step of the control thread and of the callbacks is a step of the  *)
(* contract or leaves what the caller sees unchanged.                      *)
LEMMA NextRefines == IInv /\ [Next]_vars => [Contract!Next]_(Contract!vars)
  <1> SUFFICES ASSUME IInv, [Next]_vars PROVE [Contract!Next]_(Contract!vars)
    OBVIOUS
  <1> USE DEF IInv, TypeOK, CallInv, SolutionInv, BeforeObstacles, ConfigLocked,
              planVars, optVars, viaVars, cbVars, obstVars
  <1>1. CASE Advertise
    BY <1>1 DEF Advertise, Contract!vars
  <1>2. CASE Initialized
    <2>1. Contract!BecomeReady
      BY <1>2 DEF Initialized, Contract!BecomeReady
    <2> QED BY <2>1 DEF Contract!Next
  <1>3. CASE SetPlan
    <2>1. Contract!SetPlan
      BY <1>3 DEF SetPlan, Contract!SetPlan
    <2> QED BY <2>1 DEF Contract!Next
  <1>4. CASE ComputeRefused
    <2>1. Contract!Refuse
      BY <1>4 DEF ComputeRefused, Return, Contract!Refuse, Contract!Answer
    <2> QED BY <2>1 DEF Contract!Next
  <1>5. CASE Compute
    <2>1. Contract!Call
      BY <1>5 DEF Compute, Contract!Call
    <2> QED BY <2>1 DEF Contract!Next
  <1>6. CASE TransformFails
    <2>1. Contract!ReturnError
      BY <1>6 DEF TransformFails, Return, Contract!ReturnError, Contract!Answer
    <2> QED BY <2>1 DEF Contract!Next
  <1>7. CASE Transform
    BY <1>7 DEF Transform, Contract!vars
  <1>8. CASE CheckViaPoints
    BY <1>8 DEF CheckViaPoints, Contract!vars
  <1>9. CASE ClearViaPoints
    BY <1>9 DEF ClearViaPoints, Contract!vars
  <1>10. CASE FillViaPoints
    BY <1>10 DEF FillViaPoints, Contract!vars
  <1>11. CASE GoalReached
    <2>1. Contract!ReturnGoal
      BY <1>11 DEF GoalReached, Return, Contract!ReturnGoal, Contract!Answer
    <2> QED BY <2>1 DEF Contract!Next
  <1>12. CASE GoalNotReached
    BY <1>12 DEF GoalNotReached, Contract!vars
  <1>13. CASE UpdateObstacles
    BY <1>13 DEF UpdateObstacles, Free, Contract!vars
  <1>14. CASE LockConfig
    BY <1>14 DEF LockConfig, Lock, Free, Contract!vars
  <1>15. CASE LockViaPoints
    BY <1>15 DEF LockViaPoints, Lock, Free, Contract!vars
  <1>16. CASE LockObstacles
    BY <1>16 DEF LockObstacles, Lock, Free, Contract!vars
  <1>17. CASE StepStarts
    <2>1. Contract!Work
      BY <1>17 DEF StepStarts, Contract!Work
    <2> QED BY <2>1 DEF Contract!Next
  <1>18. CASE StepSucceeds
    BY <1>18 DEF StepSucceeds, UnlockStep, Contract!vars
  <1>19. CASE StepFails
    BY <1>19 DEF StepFails, UnlockStep, Contract!vars
  <1>20. CASE NoSolution
    <2>1. Contract!ReturnFailure
      BY <1>20 DEF NoSolution, NoValidCmd, Return, Contract!ReturnFailure, Contract!Answer
    <2> QED BY <2>1 DEF Contract!Next
  <1>21. CASE Infeasible
    <2>1. Contract!ReturnFailure
      BY <1>21 DEF Infeasible, NoValidCmd, Return, Contract!ReturnFailure, Contract!Answer
    <2> QED BY <2>1 DEF Contract!Next
  <1>22. CASE Feasible
    BY <1>22 DEF Feasible, Contract!vars
  <1>23. CASE BadTwist
    <2>1. Contract!ReturnFailure
      BY <1>23 DEF BadTwist, NoValidCmd, Return, Contract!ReturnFailure, Contract!Answer
    <2> QED BY <2>1 DEF Contract!Next
  <1>24. CASE Command
    <2>1. Contract!ReturnCommand
      BY <1>24 DEF Command, Return, Contract!ReturnCommand, Contract!Answer
    <2> QED BY <2>1 DEF Contract!Next
  <1>25. CASE ReceiveViaPoints
    BY <1>25 DEF ReceiveViaPoints, Contract!vars
  <1>26. CASE IgnoreViaPoints
    BY <1>26 DEF IgnoreViaPoints, Contract!vars
  <1>27. CASE BeginViaPoints
    BY <1>27 DEF BeginViaPoints, Free, Contract!vars
  <1>28. CASE EndViaPoints
    BY <1>28 DEF EndViaPoints, Contract!vars
  <1>29. CASE CustomObstacles
    BY <1>29 DEF CustomObstacles, Free, Contract!vars
  <1>30. CASE ReconfigureController
    BY <1>30 DEF ReconfigureController, Free, Contract!vars
  <1>31. CASE ReconfigureCheck
    BY <1>31 DEF ReconfigureCheck, Free, Contract!vars
  <1>32. CASE UNCHANGED vars
    BY <1>32 DEF vars, Contract!vars
  <1> QED
    BY <1>1, <1>2, <1>3, <1>4, <1>5, <1>6, <1>7, <1>8, <1>9, <1>10, <1>11,
       <1>12, <1>13, <1>14, <1>15, <1>16, <1>17, <1>18, <1>19, <1>20,
       <1>21, <1>22, <1>23, <1>24, <1>25, <1>26, <1>27, <1>28, <1>29,
       <1>30, <1>31, <1>32
    DEF Next, ControlNext, CallbackNext

(* Seen from its caller, the planner with its threads and mutexes behaves  *)
(* as VelocityCommandContract says.                                        *)
THEOREM Refinement == Spec => ImplementsContract
  <1> QED BY InitRefines, NextRefines, Invariance, PTL
          DEF Spec, ImplementsContract, Contract!Spec
-----------------------------------------------------------------------------
(* What a call of computeVelocityCommands owes its end to: ComputeReturns  *)
(* follows from the next two theorems and the fairness of the threads.     *)

(* How far a call is from its end, by the point where it stands.           *)
Remaining ==
    [idle |-> 0, command |-> 1, feasibility |-> 2, no_solution |-> 2, solving |-> 3,
     step |-> 4, lock_obst |-> 5, lock_via |-> 6, lock_config |-> 7, obstacles |-> 8,
     goal_check |-> 9, via_fill |-> 10, via_clear |-> 11, via_check |-> 12, transform |-> 13]

(* Every point of the program but the start has its distance to the end.  *)
LEMMA RemainingAt ==
  /\ DOMAIN Remaining = PCs /\ Remaining["idle"] = 0 /\ Remaining["command"] = 1
  /\ Remaining["feasibility"] = 2 /\ Remaining["no_solution"] = 2 /\ Remaining["solving"] = 3
  /\ Remaining["step"] = 4 /\ Remaining["lock_obst"] = 5 /\ Remaining["lock_via"] = 6
  /\ Remaining["lock_config"] = 7 /\ Remaining["obstacles"] = 8
  /\ Remaining["goal_check"] = 9 /\ Remaining["via_fill"] = 10
  /\ Remaining["via_clear"] = 11 /\ Remaining["via_check"] = 12
  /\ Remaining["transform"] = 13
  BY DEF Remaining, PCs, BeforeObstacles, ConfigLocked

(* No path through a call goes back: each step of the control thread takes *)
(* it nearer to its end, and no callback takes it further away.            *)
THEOREM NeverGoesBack ==
    Spec => [][ pc # "idle" => pc' = pc \/ Remaining[pc'] < Remaining[pc] ]_vars
  <1>1. ASSUME pc # "idle", pc' # pc, Next
        PROVE  Remaining[pc'] < Remaining[pc]
    <2> USE RemainingAt, <1>1
    <2>1. CASE Compute \/ ComputeRefused \/ Advertise \/ Initialized \/ SetPlan
      BY <2>1 DEF Compute, ComputeRefused, Advertise, Initialized, SetPlan
    <2>2. CASE TransformFails \/ Transform \/ CheckViaPoints \/ ClearViaPoints \/ FillViaPoints
      BY <2>2 DEF TransformFails, Transform, CheckViaPoints, ClearViaPoints, FillViaPoints, Return
    <2>3. CASE GoalReached \/ GoalNotReached \/ UpdateObstacles
               \/ LockConfig \/ LockViaPoints \/ LockObstacles
      BY <2>3 DEF GoalReached, GoalNotReached, UpdateObstacles, LockConfig, LockViaPoints,
         LockObstacles, Lock, Return
    <2>4. CASE StepStarts \/ StepSucceeds \/ StepFails
      BY <2>4 DEF StepStarts, StepSucceeds, StepFails
    <2>5. CASE NoSolution \/ Infeasible \/ Feasible \/ BadTwist \/ Command
      BY <2>5 DEF NoSolution, Infeasible, Feasible, BadTwist, Command, NoValidCmd, Return
    <2>6. CASE CallbackNext
      BY <2>6 DEF CallbackNext, ReceiveViaPoints, IgnoreViaPoints, BeginViaPoints,
         EndViaPoints, CustomObstacles, ReconfigureController, ReconfigureCheck
    <2> QED
      BY <2>1, <2>2, <2>3, <2>4, <2>5, <2>6 DEF Next, ControlNext
  <1>2. [Next]_vars => [pc # "idle" => pc' = pc \/ Remaining[pc'] < Remaining[pc]]_vars
    BY <1>1
  <1> QED BY <1>2, PTL DEF Spec

(* A thread waits only for one that waits for nothing.                     *)
NoCircularWait ==
    /\ pc \in {"obstacles", "lock_obst"} => Free("custom_obst")
    /\ pc = "lock_config" => Free("config")
    /\ (pc = "lock_via" /\ ~ Free("via_point")) => via_cb = "filling"
    /\ (via_cb = "received" /\ ~ Free("via_point")) => pc \in ViaLocked

(* The control thread waits for customViaPointsCB in its section, or the   *)
(* other way round, never both; every other mutex the control thread asks  *)
(* for is free when it does.                                               *)
THEOREM NeverDeadlocked == Spec => []NoCircularWait
  <1>1. IInv => NoCircularWait
    BY DEF IInv, LockDiscipline, NoCircularWait, Free, ConfigLocked, ObstLocked, ViaLocked
  <1> QED BY <1>1, Invariance, PTL
=============================================================================
