----------------------- MODULE FullDiscretizationGrid -----------------------
(***************************************************************************)
(* The trajectory the optimiser works on: FullDiscretizationGridBaseSE2    *)
(* with its two subclasses, the grid of fixed and the grid of variable     *)
(* temporal resolution, and the calls that reach it: Controller::step      *)
(* clears it on reinitialisation, PredictiveController (external) calls    *)
(* update() and the solver in turn, with new_run set in the first outer    *)
(* iteration of a control step only.                                       *)
(*                                                                         *)
(* The vertices of _x_seq and _u_seq are kept as their common number,      *)
(* except the first state and the final state _xf, whose values are.       *)
(* Times are integers in a unit in which every dt that occurs is whole.    *)
(***************************************************************************)
EXTENDS Integers

CONSTANTS
    Starts, Goals,      \* measured states and goals
    NLimit,             \* bound: largest horizon length set through the interface
    NMin, NMax,         \* min_grid_size and max_grid_size of the grid adaptation
    DtRef,              \* dt_ref
    HystNum, HystDen,   \* dt_hyst_ratio = HystNum / HystDen
    FinalTimes,         \* bound: durations of a trajectory the solver may find
    Dims                \* structures of the stage functions (obstacles in range)

ASSUME GridAssumption ==
    /\ NLimit \in Nat /\ NMin \in Nat /\ NMax \in Nat
    /\ 2 <= NMin /\ NMin <= NMax /\ 2 <= NLimit
    /\ DtRef \in Nat \ {0}
    /\ HystNum \in Nat /\ HystDen \in Nat \ {0} /\ HystNum < HystDen
    /\ FinalTimes \subseteq Nat
    /\ Starts # {} /\ Goals # {} /\ Dims # {}

VARIABLES
    config,     \* what Controller::configureGrid chose
    n_ref, n_adapt, first_run,
    len,        \* _x_seq.size() = _u_seq.size()
    dt,
    front, xf,  \* values of _x_seq.front() and _xf
    modified,   \* isModified()
    nlp_fun,    \* _nlp_fun is set
    edges,      \* the discretisation and structure the edges were made for
    nlp,        \* ... and the stage functions were updated for
    cached,     \* sampling of the cached reference: dt and number of samples
    phase,      \* idle, updated (before the solver), solved (after it)
    x0, goal    \* measured state and goal of the control step under way

Shifted  == "shifted"   \* a final state extrapolated by the warm start
NoState  == "none"

seqVars  == <<len, dt, front, xf>>
sizeVars == <<n_ref, n_adapt, first_run>>
nlpVars  == <<edges, nlp, cached>>
stepVars == <<phase, x0, goal>>
vars == <<config, sizeVars, seqVars, modified, nlp_fun, nlpVars, stepVars>>

Strategies == {"no_adapt", "single_step", "aggressive", "shrinking"}
Configs ==
    {c \in [variable : BOOLEAN, strategy : Strategies, adapt_first_iter : BOOLEAN,
            warm_start : BOOLEAN, xf_fixed : BOOLEAN] :
        /\ ~ c.variable => c.strategy = "no_adapt"
        /\ c.strategy = "no_adapt" => ~ c.adapt_first_iter
        /\ c.variable => ~ c.warm_start}

MaxOf(a, b) == IF a >= b THEN a ELSE b
Largest     == MaxOf(NLimit, NMax)
N           == len + 1
Empty       == len = 0

Structure(n, d) == [n |-> n, dims |-> d]
Structures      == [n : 0..Largest, dims : Dims]

TypeOK ==
    /\ config \in Configs
    /\ n_ref \in 2..NLimit /\ n_adapt \in 0..Largest /\ first_run \in BOOLEAN
    /\ len \in 0..(Largest - 1) /\ dt \in Nat
    /\ front \in Starts \cup {NoState} /\ xf \in Goals \cup {Shifted, NoState}
    /\ modified \in BOOLEAN /\ nlp_fun \in BOOLEAN
    /\ edges \in Structures /\ nlp \in Structures
    /\ cached \in [dt : Nat, n : 0..Largest]
    /\ phase \in {"idle", "updated", "solved"}
    /\ x0 \in Starts /\ goal \in Goals

Init ==
    /\ config \in Configs
    /\ n_ref \in 2..NLimit /\ n_adapt = 0 /\ first_run = TRUE
    /\ len = 0 /\ dt = 0 /\ front = NoState /\ xf = NoState
    /\ modified = TRUE /\ nlp_fun = FALSE
    /\ \E d \in Dims : edges = Structure(0, d) /\ nlp = Structure(0, d)
    /\ cached = [dt |-> 0, n |-> 0]
    /\ phase = "idle" /\ x0 \in Starts /\ goal \in Goals

-----------------------------------------------------------------------------
(* Changing the horizon length                                             *)

(* Mutant: the duration is divided as if there were n intervals.           *)
ResampledDtOffByOne(n_new) == IF n_new = N THEN dt ELSE (dt * N) \div n_new

(* resampleTrajectory: n_new states over the same duration.  The first and *)
(* the final state stay; nothing happens when the length is right already. *)
ResampledDt(n_new) == IF n_new = N THEN dt ELSE (dt * (N - 1)) \div (n_new - 1)

(* Thresholds dt_ref * (1 +- dt_hyst_ratio).                               *)
AboveHysteresis(d) == d * HystDen > DtRef * (HystDen + HystNum)

(* Mutant: both thresholds lie above dt_ref.                               *)
BelowHysteresisOneSided(d) == d * HystDen < DtRef * (HystDen + HystNum)

BelowHysteresis(d) == d * HystDen < DtRef * (HystDen - HystNum)

(* Mutant: one state more than max_grid_size.                              *)
SingleStepNBeyondMax ==
    IF AboveHysteresis(dt) /\ N <= NMax THEN N + 1
    ELSE IF BelowHysteresis(dt) /\ N > NMin THEN N - 1
    ELSE N

SingleStepN ==
    IF AboveHysteresis(dt) /\ N < NMax THEN N + 1
    ELSE IF BelowHysteresis(dt) /\ N > NMin THEN N - 1
    ELSE N

(* std::round(n * dt / dt_ref), kept between n_min and n_max.              *)
AggressiveN ==
    LET new_n == (2 * N * dt + DtRef) \div (2 * DtRef)
    IN  IF ~ AboveHysteresis(dt) /\ ~ BelowHysteresis(dt) THEN N
        ELSE IF new_n > NMax THEN NMax
        ELSE IF new_n < NMin THEN NMin
        ELSE new_n

ShrinkingN == IF N > NMin THEN N - 1 ELSE N

AdaptedN(new_run) ==
    IF \/ ~ config.variable \/ first_run \/ Empty
       \/ new_run /\ ~ config.adapt_first_iter
    THEN N
    ELSE CASE config.strategy = "no_adapt"    -> N
           [] config.strategy = "single_step" -> SingleStepN
           [] config.strategy = "aggressive"  -> AggressiveN
           [] config.strategy = "shrinking"   -> ShrinkingN

(* clear(): the time difference _dt keeps the value it has.                *)
ClearGrid ==
    /\ len' = 0 /\ front' = NoState /\ xf' = NoState /\ dt' = dt
    /\ nlp_fun' = FALSE /\ n_adapt' = 0 /\ first_run' = TRUE
    /\ modified' = TRUE

(* Controller::step when it reinitialises, and Controller::reset.          *)
Clear ==
    /\ phase = "idle"
    /\ ClearGrid
    /\ UNCHANGED <<config, n_ref, nlpVars, stepVars>>

(* Mutant: a length below two is reported, not replaced.                   *)
SetNRefUnclamped(n) ==
    /\ phase = "idle"
    /\ n_ref' = n
    /\ n # N /\ ClearGrid
    /\ UNCHANGED <<config, nlpVars, stepVars>>

(* setNRef: a length that differs from the present one clears the grid; a  *)
(* length below two is refused and replaced.                               *)
SetNRef(n) ==
    /\ phase = "idle"
    /\ n_ref' = MaxOf(n, 2)
    /\ \/ n # N /\ ClearGrid
       \/ /\ n = N
          /\ n_adapt' = IF n < 2 THEN n_adapt ELSE 0
          /\ UNCHANGED <<seqVars, first_run, modified, nlp_fun>>
    /\ UNCHANGED <<config, nlpVars, stepVars>>

(* Mutant: a resampled grid is not announced as modified.                  *)
SetNUnannounced(n) ==
    /\ phase = "idle"
    /\ n_ref' = n
    /\ nlp_fun /\ ~ Empty
    /\ len' = n - 1 /\ dt' = ResampledDt(n)
    /\ n_adapt' = 0
    /\ UNCHANGED <<config, front, xf, first_run, modified, nlp_fun, nlpVars, stepVars>>

(* setN with resampling: the grid has length n before setNRef is called.   *)
SetN(n) ==
    /\ phase = "idle"
    /\ n_ref' = n
    /\ \/ /\ nlp_fun /\ ~ Empty
          /\ len' = n - 1 /\ dt' = ResampledDt(n)
          /\ modified' = (modified \/ n # N)
          /\ n_adapt' = 0
          /\ UNCHANGED <<front, xf, first_run, nlp_fun>>
       \/ (~ nlp_fun \/ Empty) /\ ClearGrid
    /\ UNCHANGED <<config, nlpVars, stepVars>>

-----------------------------------------------------------------------------
(* update()                                                                *)

InitialN(n_adapted) == IF n_adapted > 0 THEN n_adapted ELSE n_ref

(* Mutant: only a change the adaptation reports, which the shrinking       *)
(* horizon never does, has the edges rebuilt.                              *)
VerticesReported(n_now) ==
    modified \/ Empty \/ (n_now # N /\ config.strategy # "shrinking")

(* isModified(): set by initializeSequences and by resampleTrajectory.     *)
VerticesUpdated(n_now) == modified \/ Empty \/ n_now # N

(* Mutant: the length before the adaptation counts.                        *)
CacheSizeBeforeAdaptation(n_now, adapted) == MaxOf(n_ref, N)

(* How many reference samples are cached.                                  *)
CacheSize(n_now, adapted) == MaxOf(MaxOf(n_ref, n_now), adapted)

(* Mutant: the warm start runs after the final state is fixed.             *)
FinalStateShiftedLast(new_run, g) ==
    IF new_run /\ config.warm_start THEN {xf, Shifted}
    ELSE IF new_run /\ config.xf_fixed THEN {g}
    ELSE {xf}

(* The final state after update() on a grid that holds a trajectory: a new *)
(* run with warm start extrapolates it or leaves it, then the fixed        *)
(* components follow the goal.                                             *)
FinalState(new_run, g) ==
    IF new_run /\ config.xf_fixed THEN {g}
    ELSE IF new_run /\ config.warm_start THEN {xf, Shifted}
    ELSE {xf}

Update(new_run, x, g) ==
    LET n_now   == AdaptedN(new_run)
        dt_now  == ResampledDt(n_now)
        adapted == IF n_now = N THEN n_adapt ELSE n_now
        dt_ok   == IF dt_now <= 0 THEN DtRef ELSE dt_now
        changed == VerticesUpdated(n_now)
    IN  /\ x0' = x /\ goal' = g
        /\ n_adapt' = adapted
        /\ cached' = [dt |-> dt_ok, n |-> CacheSize(n_now, adapted)]
        /\ \/ /\ Empty
              /\ len' = InitialN(adapted) - 1
              /\ dt' = DtRef
              /\ front' = x /\ xf' = g
           \/ /\ ~ Empty
              /\ len' = n_now - 1
              /\ dt' = dt_ok
              /\ front' = IF new_run THEN x ELSE front
              /\ xf' \in FinalState(new_run, g)
        /\ modified' = changed
        /\ nlp_fun' = TRUE
        /\ \E d \in Dims :
              /\ nlp' = IF new_run \/ changed THEN Structure(len' + 1, d) ELSE nlp
              /\ edges' = IF changed \/ nlp'.dims # nlp.dims THEN nlp' ELSE edges
        /\ first_run' = FALSE
        /\ phase' = "updated"
        /\ UNCHANGED <<config, n_ref>>

NewRun ==
    /\ phase = "idle"
    /\ \E x \in Starts, g \in Goals : Update(TRUE, x, g)

NextOuterIteration ==
    /\ phase = "solved"
    /\ Update(FALSE, x0, goal)

(* The solver (external) takes over the structure and optimises; on the    *)
(* variable grid the duration of the trajectory is one of its unknowns.    *)
Solve ==
    /\ phase = "updated"
    /\ phase' = "solved"
    /\ modified' = FALSE
    /\ \/ ~ config.variable /\ dt' = dt
       \/ config.variable /\ \E T \in FinalTimes : dt' = T \div len
    /\ xf' \in {xf} \cup (IF config.xf_fixed THEN {} ELSE {Shifted})
    /\ UNCHANGED <<config, sizeVars, len, front, nlp_fun, nlpVars, x0, goal>>

EndStep ==
    /\ phase = "solved"
    /\ phase' = "idle"
    /\ UNCHANGED <<config, sizeVars, seqVars, modified, nlp_fun, nlpVars, x0, goal>>

Next ==
    \/ Clear
    \/ \E n \in 1..NLimit : SetNRef(n)
    \/ \E n \in 2..NLimit : SetN(n)
    \/ NewRun \/ NextOuterIteration \/ Solve \/ EndStep

Spec == Init /\ [][Next]_vars

-----------------------------------------------------------------------------
(* Properties                                                              *)

(* A grid that holds a trajectory has two states at least, and never more  *)
(* than the larger of the reference and the maximum size, whatever sequence*)
(* of resampling, clearing and resizing led there.                         *)
SizeInBounds == ~ Empty => 2 <= N /\ N <= MaxOf(n_ref, NMax)

(* When the solver runs, the edges of the optimisation problem and the     *)
(* stage functions fit the grid as it is now: same number of states and    *)
(* same structure.  Edges are rebuilt only when a flag says so, and the    *)
(* shrinking horizon resizes the grid but reports no change.               *)
EdgesFitGrid ==
    phase = "updated" => edges.n = N /\ nlp.n = N /\ edges.dims = nlp.dims

(* Between calls a stale edge set is always announced by the flag.         *)
StaleEdgesFlagged == edges.n # N => modified \/ Empty

(* The cached reference holds a sample for every grid point update() reads.*)
ReferenceCovers == phase = "updated" => N <= cached.n

(* The trajectory starts where the robot was measured in this control step *)
(* and, with a fixed final state, ends at the goal of this control step,   *)
(* after warm start, resampling and every outer iteration.                 *)
EndsFixed ==
    phase = "updated" => front = x0 /\ (config.xf_fixed => xf = goal)

(* An empty grid starts again with the reference size: no trace of an      *)
(* earlier adaptation survives clear().                                    *)
EmptyStartsOver == Empty => n_adapt = 0 /\ first_run

(* Where the hysteresis is wide enough for the size of the grid, an        *)
(* adaptation by a single step does not call for the opposite one: the new *)
(* time difference is not beyond the other threshold.  The code relies on  *)
(* it for the grid to settle, and does not check the width.                *)
WideForGrowth    == 2 * HystNum * N >= HystDen + HystNum
WideForShrinking == HystNum * (2 * N - 3) >= HystDen

NoFlipFlop ==
    [][ (/\ config.strategy = "single_step" /\ phase' = "updated"
         /\ ~ Empty /\ len' * dt' = len * dt) =>
        /\ (len' = len + 1 /\ WideForGrowth) => ~ BelowHysteresis(dt')
        /\ (len' = len - 1 /\ WideForShrinking /\ dt > 0) => ~ AboveHysteresis(dt') ]_vars

(* Resizing a grid that keeps its trajectory keeps its duration.           *)
DurationKept ==
    [][ (~ Empty /\ len' # 0 /\ len' # len /\ dt > 0) => len' * dt' = len * dt ]_vars

(* assert(_x_seq.size() > 1) at the end of initializeSequences.            *)
InitialSizeAsserted == [][ (Empty /\ len' # 0) => len' > 1 ]_vars

(* The initial trajectory is stamped with dt_ref, so it has to be sampled  *)
(* with dt_ref when the grid is filled from it.                            *)
InitialGuessSampledWithDtRef == [][ (Empty /\ len' # 0) => cached'.dt = DtRef ]_vars
=============================================================================
