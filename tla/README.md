# A verification project for mpc_local_planner

`mpc_local_planner` is a local planner plugin for the ROS navigation stack: at a
fixed rate `move_base` asks it for a velocity, it cuts a local plan out of the
global plan, optimises a trajectory along it (with the external library
control_box_rst, "corbo"), checks the trajectory against the costmap and returns
its first control. This directory models its control logic in TLA+, checks the
models with TLC and proves the main results with TLAPS.

Source paths below are relative to `src/mpc_local_planner/`.

## 1. The system

### Components

| component | source | state it keeps | operations |
|---|---|---|---|
| Planner plugin, calls and callbacks | `src/mpc_local_planner_ros.cpp` | `_initialized`, `_global_plan`, `_goal_reached`, `_no_infeasible_plans`, `_obstacles`, `_via_points`, `_custom_via_points_active`, `_custom_obstacle_msg`, `_params`, `_u_seq`/`_x_seq`, three mutexes | `initialize`, `setPlan`, `computeVelocityCommands`, `isGoalReached`; `customViaPointsCB`, `customObstacleCB`, three reconfigure callbacks |
| Planner plugin, global plan | same | `_global_plan`, local plan, via-points, local goal | `pruneGlobalPlan`, `transformGlobalPlan`, `updateViaPointsContainer`, goal check, `estimateLocalGoalOrientation` |
| Planner plugin, obstacles | same | `_obstacles` | three `updateObstacleContainerWith...` |
| Planner plugin, parameters and footprints | same, `cfg/` | `_params` | parameter reading, footprint models, `validateFootprints` |
| Controller | `src/controller.cpp` | grid, last goal, `_ocp_seq`, `_x_ts`, recent state feedback, initial trajectory | `configure`, `step`, `reset`, `stateFeedbackCallback`, `isPoseTrajectoryFeasible`, `generateInitialStateTrajectory` |
| Trajectory grid | `src/optimal_control/full_discretization_grid_base_se2.cpp`, `finite_differences_variable_grid_se2.cpp` | `_x_seq`, `_u_seq`, `_xf`, `_dt`, `_n_ref`, `_n_adapt`, `_first_run`, `_nlp_fun`, modified flag | `update`, `adaptGrid`, `resampleTrajectory`, `warmStartShifting`, `clear`, `setN`, `setNRef` |
| Edges | `finite_differences_grid_se2.cpp` | edge set | `createEdges` |
| Stage inequality | `stage_inequality_se2.cpp` | relevant obstacles per state | `update`, constraint values |
| Via-point cost | `min_time_via_points_cost.cpp` | association of via-points (raw pointers) to states | `update`, cost values |
| Costs, terminal conditions, collocation, robot models | `quadratic_cost_se2.cpp`, `final_state_conditions_se2.cpp`, `fd_collocation_se2.h`, `systems/` | weights, no changing state | formulas over reals |
| Utilities | `utils/` | - | angles, time series, conversion, publishing |
| Test node, messages, examples | `src/test_mpc_optim_node.cpp`, other packages | obstacles and via-points of the demo | interactive loop |

### Interaction

`move_base` calls `initialize`, `setPlan`, `computeVelocityCommands` and
`isGoalReached` from one control thread, one after the other. Topics and
dynamic_reconfigure run callbacks on other threads. They share with the control
thread the members of the plugin: `_params` (mutex `config_mutex_`),
`_via_points` and its flag (`_via_point_mutex`), `_custom_obstacle_msg`
(`_custom_obst_mutex`). `computeVelocityCommands` calls `Controller::step`,
which may clear the grid and then runs corbo's `PredictiveController::step`; that
alternates between the grid's `update()` and the solver, a configured number of
outer iterations per call. `update()` calls the `update` of the stage functions,
which take pointers into the plugin's containers, and recreates the edges when
a flag or a changed structure says so. State feedback arrives on one more
callback, in the controller; it shares the last measurement and its time stamp
with `step` under a mutex of its own.

### What is hard, and what makes each component correct

* **Threads** (plugin): mutexes released on each of eight returns; inputs of the
  optimisation unchanged while it runs; pointers into a container other threads
  clear; a flag tested outside its mutex.
* **Partial failure** (plugin): what a call has changed before it fails must not
  be visible as a success, a stale command or a trajectory to start from.
* **Long sequences of calls** (plan): pruning is destructive; hundreds of calls
  must neither lose the goal nor get stuck.
* **Stale caches** (grid, stage functions): sizes, edges, cached references and
  time differences have to follow every adaptation, resize and clear.
* **Warm starts** (controller, grid): what is kept from the last step has to fit the
  goal, the state and the age it may have; states and controls are shifted and
  resampled by separate code.
* **Numeric edges** (grid, plan, trajectory, filters): sizes of one or two, empty
  plans, the border of the costmap, headings that jump from pi to -pi, velocities
  of obstacles that do not exist, via-points past the end.

The list with source lines is `hazards` in `PROJECT.json`.

## 2. Modules

| module | models | runs |
|---|---|---|
| `VelocityCommandContract` | abstract: what a caller of `computeVelocityCommands` and `isGoalReached` may rely on | (through `Planner.cfg`) |
| `MpcLocalPlannerROS` | the plugin with its threads; instantiates the contract | `Planner.cfg`, `PlannerViaPoints.cfg` (module `MC_Planner`) |
| `FullDiscretizationGrid` | the grid and the calls that reach it | `Grid.cfg`, `GridInitialSize.cfg`, `GridStaleDt.cfg` (`MC_Grid`) |
| `GlobalPlan` | the global plan from `setPlan` to the local goal | `Plan.cfg`, `PlanInjection.cfg` (`MC_Plan`), `Track.cfg` (`MC_Track`) |
| `Controller` | `configure`, `step`, `reset`, state feedback | `Controller.cfg` (`MC_Controller`) |
| `GridTrajectory` | the values in the grid: initial trajectory, warm start, resampling; collision check | `Trajectory.cfg` (`MC_GridTrajectory`) |
| `StageFunctions` | obstacle containers, obstacle filter, association of via-points, edges | `Stage.cfg`, `StageSides.cfg` (`MC_Stage`) |
| `...Proofs` | theorems about the six detailed modules; those of `StageFunctions` are in `StageFunctionsProofs` (edges) and `StageSelectionProofs` (what is selected) | - |
| `InductionLemmas` | induction and recursion over intervals of integers, for the proofs | - |

`FullDiscretizationGrid` and `GridTrajectory` share the grid between them: the
first keeps sizes, time difference, flags and ends and has the order of
`update()`, the second has the states and controls and takes the operations in any
order, so that it allows every behaviour of the first. In the same way
`StageFunctions` shows what `FullDiscretizationGrid` leaves open with `Dims`:
that a stage function reports a change whenever the edges no longer fit.
`Controller` sees of the grid whether it is empty, and fixes when `Clear` and
`NewRun` of the grid happen.

### MpcLocalPlannerROS

The control thread's position is `pc`. `computeVelocityCommands` is cut into
steps at exactly the places where another thread can make a difference: reads
of shared members outside a mutex (`CheckViaPoints`, line 310), changes of shared
members outside a mutex (`ClearViaPoints`, `FillViaPoints`, the vector being
cleared and refilled without lock), locking and unlocking, the solver, and the
returns. `LockConfig`, `LockViaPoints`, `LockObstacles` follow lines 372, 389, 390;
`UnlockStep` is the end of the block at 392; `Return` ends the scoped lock.
The three `NO_VALID_CMD` returns share one operator because the code repeats the
same assignments. `INVALID_PATH` (325-330) does not occur: `GlobalPlan` proves
that the local plan is never empty. The zero command of `ComputeRefused` is the one
`move_base` gets through the `Twist` overload (253-262), which starts from an empty
message; the `TwistStamped` overload returns at 272 before it zeroes the command in 279.

`customViaPointsCB` is `ReceiveViaPoints` (reads the parameter), then
`IgnoreViaPoints` or `BeginViaPoints`/`EndViaPoints` (the critical section, in
two steps). `customObstacleCB` and the reconfigure callbacks hold their mutex for
copies only and are one step. Via-points and obstacles are kept as origins: from
which message, or from the plan. `dangling` says that `_via_points` changed after
the via-point cost took pointers into it (`min_time_via_points_cost.cpp:102`).
`obstacle_msgs_seen` is a history variable. `u_seq` distinguishes a first control
of this call from an older one: a failed optimisation may or may not leave
something in the sequences, so `StepFails` allows both.

### FullDiscretizationGrid

The vertex sequences are kept as their length, plus the values of the first and
the final state. `Update` is the whole of `update()`: adaptation, caching of the
reference, initialisation or warm start, update of the stage functions, creation
of the edges, in that order. The configuration (`Configs`) is any that
`Controller::configureGrid` can choose. A stage function may report a changed
structure or not (`Dims`). The solver is external: it resets the modified flag
and may find any duration on the variable grid. Time is counted in a unit in
which every occurring `dt` is whole, so that `DurationKept` is exact.

### GlobalPlan

Poses are points with integer coordinates; plans run parallel to the axes, so
that lengths are whole numbers; thresholds are squared like in the code. One
call is `Prune`, `Transform` or `TransformFails`, `GoalReached` or
`GoalNotReached`, `EndCall`. `Closest` is the search loop of `transformGlobalPlan` as a
recursive function, with its running minimum (`Nearer`) and its break at the border of
the costmap; what it is meant to find, `BeforeBorder` and the first of the closest
poses in it, is stated with the properties only. In `Spec` the robot may be anywhere
at each call.
`TrackSpec` adds an environment: the robot drives on to the next pose of its
local plan, sooner or later.

### Controller

A pointer is the number of the `configure()` call that made the object, 0 for null.
`ConfigureWith` follows the order in which `configure()` makes its objects and
tests them: without dynamics it returns at once, a missing solver is dereferenced
in `configureOcp` (553), a missing problem in line 92; both end in `life = "crashed"`.
The planner configures until it succeeds and steps only then.

`BeginStep` is `step()` up to the call of `PredictiveController::step`: choice of
the state (`StartState`: feedback younger than two periods, else the prediction on
the last state sequence, else the steady state, then the merge with odometry),
reinitialisation (`ForceReinit`, `Far`), and the initial trajectory for an empty
grid. `Optimise` is the rest; it counts the step and keeps the goal whether or not
the solver succeeded. `Reset` is what the planner calls after a failure, an
infeasible trajectory or an unusable command. `stateFeedbackCallback`
takes two steps under its mutex: `StateFeedback` stores the time stamp,
`StateFeedbackStored` the value, and `BeginStep` waits for the mutex
(`FeedbackReadable`); it reads both at once since nothing comes in between while it
holds it. `MeasurementFresh` compares the stamp that came with the value, not the
stored one. A state is kept as the sources of
its parts; `trajectory` is a history variable, the goal and the age of what is in
the grid. Whether corbo's `reset()` empties the last state sequence is not visible
in this repository and left open, as is whether a failed solver leaves one.

### GridTrajectory

A state is a position and a heading; all other components are treated like the
position by the code. The states are one function `xs` on `0..N-1` whose last
element is `_xf`, the controls `us` carry the number they had in the solution of
the solver. `Fill` is `generateInitialStateTrajectory`, the sampling of the time
series with any value `clear()` may have left in `_dt` and either extrapolation, and
`initializeSequences`. (The overload of `initializeSequences` without a trajectory is
never called: `step` always passes one.) `NewRun` is `findNearestState`,
`warmStartShifting` and the assignment of start and goal; `Resample` is
`resampleTrajectory`, where the time difference cancels out as long as it is
positive. `Optimise` stands for the solver, which adds any increments to the
components that are not fixed. The collision check is an operator: it changes
nothing. Interpolation is exact integer division; the MC module chooses units in
which every interpolated value of its bounds is whole.

### StageFunctions

A control step is `Collect` (the containers and the trajectory as the planner, the
grid and the solver leave them: any) and `Update`, that part of the grid's
`update()` that calls the stage functions and makes the edges. Obstacles are points.
`FromCostmap`, `FromConverter` and `Container` are the three methods that fill
`_obstacles`. They differ for a message without polygon: custom obstacles skip it,
obstacles of the converter do not (539), so that its velocity goes to the obstacle
before. The model keeps the difference; the run has no such message from the
converter, which delivers none (it makes an obstacle from the points of a cluster). `Relevant` is the filter: obstacles that are very
close, and the nearest one on each side. `Closest` and `StateOf` are the search
and the correction of the state a via-point is tied to. `Edges` is what
`createEdges` reads from the functions. The final state has no obstacle
constraint and state 0 is skipped, as in the code.

## 3. Runs

| run | shows | states |
|---|---|---|
| `planner` | all interleavings of the control thread with five callbacks: `LockDiscipline`, `NoDanglingViaPoint`, `ObstaclesOfThisCall`, `GoalOnlyAtRest`, `InputsFrozen`, the refinement `ImplementsContract`, and `ComputeReturns` | 429,256 |
| `grid` | sizes (`SizeInBounds`), edges (`EdgesFitGrid`, `StaleEdgesFlagged`), cached reference (`ReferenceCovers`), ends (`EndsFixed`), duration (`DurationKept`) for every configuration and sequence of calls, and that single-step adaptation does not undo its own step (`NoFlipFlop`) | 657,680 |
| `plan` | `PlanIsSuffix`, `LocalPlanInWindow`, `StartsAtClosest`, `ViaPointsSpaced`, `HeadingFromPlan`, `GoalIsPlanEnd`, `PruningKeepsStart`, wherever the robot is | 242,664 |
| `track` | `ReachesGoal`: no livelock on 184 self-avoiding plans | 14,944 |
| `controller` | that no old measurement passes for a fresh one (`MeasurementFresh`), what the optimisation is warm-started from (`TrajectoryRenewed`, `WarmStartNearGoal`) and with which objects it runs (`OneConfiguration`) | 3,236,815 |
| `trajectory` | `SampledNoFaster`, `ShiftedTogether`, `ControlsInOrder` for the states and controls of the grid, `NothingJumpedOver` for the collision check | 110,934 |
| `stage` | edges that follow the stage functions (`EdgesFit`), obstacles (`NearestConsidered`, `VelocityBelongs`), via-points (`ViaPointsInOrder`) | 133,064 |
| `planner_via_points` | **violated**: custom via-points are lost although the flag says they are in force | |
| `grid_initial_size` | **violated**: the assertion at line 235 of the grid fails for `n_ref` = 2 | |
| `grid_stale_dt` | **violated**: after `clear()` the initial trajectory is sampled with the old `dt` | |
| `plan_injection` | **violated**: the goal is injected as local plan although it is far away | |
| `stage_sides` | **violated**: the nearest obstacle on one side of the robot is dropped | |

### Bounds, and why they are enough

* `planner`: one plan, path and obstacle message beside the empty ones, two
  settings of the feasibility check, two failures in a row (`MaxInfeasible`, the
  bound at which `move_base` gives up). The code never compares two plans, paths
  or messages with each other; what counts is "none", "this one", "the one
  before". The theorems hold for any number.
* `grid`: up to five states (`NLimit`), `min_grid_size` 2, `max_grid_size` 4, so that
  the reference size may lie above the maximum; durations 0, 12, 36, 84 reach a `dt`
  of zero, below, within and above the hysteresis (a quarter) at each size; all are
  multiples of lcm(1, 2, 3, 4). `NoFlipFlop` is about a hysteresis that is wide for
  the size at hand: one step of the size changes `dt` by less than the two thresholds
  are apart. A quarter is wide for growing from three states on and for shrinking from
  four, the default of 0.1 only from six and seven; below, the grid may in fact
  alternate.
* `plan`: plans that fold back beside themselves, cross themselves, have long
  segments, one pose, none; window smaller than the plan, lookahead smaller than
  the window. The theorems hold for any.
* `controller`: two calls of `configure`, each with any of the 6912 combinations of good
  and bad parameters, four steps (two renewals with `force_reinit_num_steps` 2), goals
  on both sides of each threshold and of the cut at -pi, feedback that is fresh, old or
  stamped in the future. The system of the run stops at the bounds, and when it has
  crashed; hence no check for deadlock.
* `trajectory`: up to four states, two changes between two solutions (so that a warm start
  follows a resampling and the reverse), plans with zero to two poses between start and
  goal, headings on both sides of the cut, `_dt` below, at and above `dt_ref`, obstacles
  between any two poses, distances between states of up to eleven times the radius.
* `stage`: two to five states; obstacles inside and outside each threshold, at equal
  distances, on both sides of the path and of the origin; up to three ordered
  via-points on too few states; every pair of inputs one after the other.
* `track`: all self-avoiding plans of eleven steps on 5x3 and twelve steps on 7x2
  points. Distances are in units of 0.5 m: prune distance 1 m, lookahead 1.5 m as
  in the defaults, 85 % of half the costmap 2 m.

Constants are assumed to satisfy the assumption of their module (`PlannerAssumption`,
`GridAssumption`, `PlanAssumption`, `ControllerAssumption`, `TrajectoryAssumption`,
`StageAssumption`). The radius and the angular resolution of the collision check and
every `dt` are assumed positive; the code divides by them untested. `2 <= NMin` is an assumption the code does not check:
`setNmin` takes any value, and with 1 the shrinking horizon would divide by zero.

### Fairness

`FairSpec` assumes that the control thread is scheduled within a call, that the
solver returns (its iterations are bounded in the configuration), and that
`customViaPointsCB` leaves its critical section. Strong fairness is needed for
`LockViaPoints` alone: a `std::mutex` promises no order, and only the pauses
between messages guarantee that the control thread gets it. Nothing is assumed of
callbacks arriving, of `move_base` calling, or of locks being free.

`TrackSpec` assumes that calls go on, that tf works, and that the robot, offered
a local plan with a next pose again and again, gets to that pose. These are
assumptions on the environment, and `ReachesGoal` depends on more of it: with
a costmap window that is small against the prune distance (window^2 of 2, 4
or 5 against prune distance^2 of 4) TLC finds a robot that stays or goes round,
since the pose pruning keeps first is not the closest within the window; so it
does for a plan that passes through a point twice in a loop shorter than the
prune distance; and with poses farther apart than the lookahead the local plan is
the closest pose alone. The run fixes the ratio the defaults have.

## 4. Proofs

For every value of the constants under their assumptions, every safety property that
a passing run checks is stated by a theorem. Three theorems carry a hypothesis, below.

* **MpcLocalPlannerROSProofs**: all invariants of the run `planner`, `InputsFrozen`,
  and the refinement. The inductive invariant `IInv` adds to the properties what
  makes them inductive: `CallInv` (a call is under way only after
  initialisation, below the failure bound, and past the transformation only with
  a plan), `SolutionInv` (behind a successful step the trajectory is there and
  the control sequence is of this call: without it a command could map to no step
  of the contract), `ObstacleInv` and `ObstaclesRecorded` (messages current
  before the container is filled are on record). `NoDanglingViaPoint` needs
  `LockDiscipline`: it is the mutex that keeps the callback out.
  `NeverGoesBack` and `NeverDeadlocked` are what `ComputeReturns` owes to safety: a
  rank over the points of the program falls with every step of the control thread
  and no callback raises it; and a thread waits only for one that waits for
  nothing. With the fairness of section 3 every call returns; that last
  step is TLC's.
* **FullDiscretizationGridProofs**: all properties of the run `grid`. `IInv` adds
  `StepInv` (within a control step the grid is filled and its ends are fixed) and
  `FitInv` (edges and stage functions fit unless the modified flag is up and no
  update has seen it), from which `EdgesFitGrid` and `StaleEdgesFlagged` follow.
  `AdaptedSize` bounds each adaptation strategy. `Settles` proves `NoFlipFlop` for
  every size and hysteresis, by the arithmetic of `GrowthSettles` and
  `ShrinkingSettles`: after a step in one direction the new `dt`, the duration over
  one interval more or fewer, does not cross the opposite threshold.
  `DurationSurvives` proves `DurationKept` for every adaptation under `WholeTime`.
* **GlobalPlanProofs**: all properties of the run `plan`, from lemmas on suffixes,
  minima and on what `LastFrom`, `HeadingFrom` and the recursive functions of the search
  and of the via-points return. `SearchEnds` shows by induction on the poses looked at
  that the search stops at the border and holds the first of the closest poses, so that
  `NoShortcut` speaks of the loop. `PruningAlwaysKeepsStart`: if the pose found lies
  behind the cut, it and the poses before it are still there; if it was cut off, it was
  farther away than the pruning distance, and the first pose left is nearer. `ViaPointsAlwaysSpaced` is by induction on the poses gone
  through: what has been collected so far is spaced, and no pose since the last
  via-point is a separation away from it.
* **ControllerProofs**: all invariants of the run `controller`. The inductive invariant
  relates the age of the trajectory to the step counter (`TrajectoryRenewed` is not
  inductive: the counter decides, not the age), the goal of the trajectory to the last
  goal whenever the grid is not empty, and the pointers to the number of calls while
  the controller is ready. For `MeasurementAlwaysFresh` it says that value and time
  stamp are of one message whenever the mutex is free (`Untorn`).
* **StageFunctionsProofs**: `EdgesFit` and `TypeOK`. Between `Collect` and `Update` the edges
  fit the functions of the last step; an update that keeps the edges has found every
  dimension unchanged. The argument needs of the containers only that they are
  sequences, so that it covers any way of filling them.
* **StageSelectionProofs**: the other three invariants of the run `stage`.
  `FunctionsCurrent` says that after an update the relevant obstacles and the association
  are those of the containers now in force. `NearestAlwaysConsidered` follows from the
  first minimum of a function on a finite set of indices; `VelocitiesBelong` by
  induction on the messages, since what is kept for one message (own velocity) must
  survive the next ones; `ViaPointsAlwaysInOrder` by induction on the via-points: the
  state tied to one is before the start of the search for the next, until the
  correction at the end of the grid.
* **GridTrajectoryProofs**: all properties of the run `trajectory`. `IInv` is `TypeOK`,
  `ControlsInOrder` and that states and controls are empty together. The warm start
  is two recursive functions that write the sequences in place; `StatesShifted` and
  `ControlsShifted` give their closed forms, which only read the old sequences,
  and `AlwaysShiftedTogether` compares the two. `NeverJumpsOver`: the number of intervals
  times the radius is at least the distance (`SamplesDense`), so one of the samples
  is within the radius (`SampleNear`). `AnewNeverFaster`: two samples next to each other
  lie in one old interval or on both sides of an old state (`Apart`, `KnotsWithin`),
  so that the step between them is at most that share of the largest old step; for
  headings the same holds of the shorter way round, by the lemmas on
  `NormalizeTheta`.

The hypotheses:

* `WholeUnits` (of `AnewNeverFaster`) and `WholeTime` (of `DurationSurvives`): the parts
  into which a path or a duration is divided are whole numbers of units. The code
  divides in `double`, the models in integers; where a division had a remainder,
  the model would round where the code does not, and the property would be one
  of the rounding. The units of the runs are chosen so that both hold in every
  state and step, and any rational path has such a unit.
* `ConvertersGivePolygons` (of `VelocitiesBelong`): no message of the external
  costmap_converter lacks a polygon. With one that does, line 539 writes its velocity to the
  obstacle before, as noted in section 5.

**InductionLemmas.** The provers cannot use the induction theorems of the library, which
take a predicate as parameter. The lemmas of this module say the same with a set in
place of the predicate, over intervals of integers: `LeastElement` from the
well-foundedness of the natural numbers, from it `StrongInduction` and
`IntervalInduction`, and `Recursion`, that a recursion over an interval
is solved by some function, so that the `CHOOSE` behind a recursive definition finds one. A proof names the set of indices at
which its claim holds and cites the lemma.

Only model-checked: `ComputeReturns` and `ReachesGoal` (liveness under fairness is out of
the prover's reach), and the five runs that expect a violation.

## 5. Findings

1. `mpc_local_planner_ros.cpp:310`: the control thread tests the flag and clears
   `_via_points` without `_via_point_mutex`. A `via_points` message handled in
   between sets the flag, its points are cleared, and they stay lost until the next
   message.
2. `full_discretization_grid_base_se2.cpp:235`: the assertion wants two states
   beside the final one; `setNRef` accepts, and falls back to, a grid with one.
3. `full_discretization_grid_base_se2.cpp:526`: `clear()` keeps `_dt`; the next
   initial trajectory is sampled with it although it is stamped with `dt_ref`.
4. `mpc_local_planner_ros.cpp:764`: the goal is injected not when it is close but
   when the first pose is beyond the border of the costmap.

5. `stage_inequality_se2.cpp:121`: the side of an obstacle is that of its position in
   the world, not relative to the robot; the nearest obstacle on one side can be
   dropped in favour of a farther one.

Noted, without a run:

* `pruneGlobalPlan` returns true where the header promises false (675), the result
  being ignored.
* `controller.cpp:553` and `92` dereference a solver and a problem that may be null,
  before `configure()` tests them; `466` reads `weight_init_eq` a second time for
  another weight; `841` discards the result of `normalize_theta`.
* `controller.h:96` says the opposite of what `isPoseTrajectoryFeasible` returns.
* `time_series_se2.h` promises false beyond the last sample without extrapolation;
  the code continues the last interval.
* `vector_vertex_se2.h:43` promises headings in [-pi, pi); constructors and
  assignments store what they get, and `atan2` may give pi. `set` of `VectorVertexSE2` ignores its
  argument `fixed` (119). The constructor with fixed components (153) counts none
  as fixed.
* `findNearestState` compares headings without normalising their difference.
* `updateObstacleContainerWithCostmap` never looks at the last row and column.
* `updateObstacleContainerWithCostmapConverter` writes the velocity of a message
  without polygon to the obstacle before (539).
* The previous control handed to the optimisation (`mpc_local_planner_ros.cpp:384`) may be
  one that was rejected.

## 6. Not modelled, and plan

Not modelled for good: costs, constraint values, collocation and differential
equations (closed formulas over reals without changing state), `average_angles`,
publishing and conversion (pure I/O), the test node, messages and examples. Shapes
of obstacles, footprint models and parameter reading are data. A time difference of
zero, which divides by zero in the resampling, is outside the models.

Next, in this order:

1. Progress of pruning as an action property: a call that finds the robot nearer to a
   later pose drops the poses before it. `PruningKeepsStart` is the other half of what
   `ReachesGoal` owes to safety: pruning never costs the robot its start.
2. Composition of `FullDiscretizationGrid` and `GridTrajectory` by a refinement: the grid
   of states and controls implements the grid of sizes.
3. Bounds of the rounding in place of `WholeUnits` and `WholeTime`.
