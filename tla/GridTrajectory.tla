--------------------------- MODULE GridTrajectory ---------------------------
(***************************************************************************)
(* The values of the trajectory grid: the initial trajectory sampled from  *)
(* the plan, the warm start that shifts the last solution, the resampling  *)
(* to another number of states, the increments of the solver, and the      *)
(* collision check of the result.  FullDiscretizationGrid says when these  *)
(* happen; here is what they do to states and controls.                    *)
(*                                                                         *)
(* A state is a position and a heading.  All components but the heading    *)
(* are treated alike by the code, so one stands for them.  Quantities are  *)
(* integers in a unit in which the interpolated values are whole.  The     *)
(* state with index N - 1 is the final state _xf, the others are _x_seq.   *)
(* A control is the number it had in the solution it comes from.  The time *)
(* difference is positive, it cancels out in the resampling.               *)
(***************************************************************************)
EXTENDS Integers, Sequences

CONSTANTS
    Poses,          \* measured states, plan poses and results of the solver
    Half,           \* half a turn
    NMax,           \* bound: number of states
    Plans,          \* initial plans behind the start, the goal at the end
    DtRef, Dts,     \* dt_ref, and the values _dt may have left by clear()
    MaxMoves,       \* bound: warm starts and resamplings between two solutions
    Radius, MinAngle,   \* inscribed_radius, min_resolution_collision_check_angular
    LookAheads,     \* feasibility_check_no_poses
    Obstacles       \* positions of points in the costmap

ASSUME TrajectoryAssumption ==
    /\ Half \in Nat \ {0}
    /\ Poses \subseteq [pos : Int, th : -Half..Half] /\ Poses # {}
    /\ NMax \in Nat /\ NMax >= 2
    /\ Plans \subseteq Seq(Poses) /\ <<>> \notin Plans
    /\ DtRef \in Nat \ {0} /\ Dts \subseteq Nat \ {0} /\ MaxMoves \in Nat
    /\ Radius \in Nat \ {0} /\ MinAngle \in Nat \ {0}
    /\ LookAheads \subseteq Int /\ Obstacles \subseteq Int

VARIABLES
    xs,         \* _x_seq and _xf, a function on 0..N-1, empty after clear()
    us,         \* _u_seq, a function on 0..N-2
    xf_fixed,   \* components of the final state that are fixed
    moves,      \* bounded: changes since the last solution
    source      \* history: the path the states were sampled from last

vars == <<xs, us, xf_fixed, moves, source>>

State    == [pos : Int, th : -Half..Half]
NoPath   == [i \in {} |-> 0]
N        == IF xs = NoPath THEN 0 ELSE CHOOSE n \in 2..NMax : DOMAIN xs = 0..(n - 1)
LastOf(path) == CHOOSE m \in DOMAIN path : m + 1 \notin DOMAIN path

TypeOK ==
    /\ xs = NoPath \/ \E n \in 2..NMax :
         /\ xs \in [0..(n - 1) -> State]
         /\ us \in [0..(n - 2) -> 0..NMax]
    /\ xf_fixed \in SUBSET {"pos", "th"}
    /\ moves \in 0..MaxMoves

Init ==
    /\ xs = NoPath /\ us = NoPath
    /\ xf_fixed \in SUBSET {"pos", "th"}
    /\ moves = 0 /\ source = NoPath

-----------------------------------------------------------------------------
(* Angles and interpolation                                                *)

AbsVal(i) == IF i < 0 THEN -i ELSE i
NormalizeTheta(a) ==
    LET rest == a % (2 * Half)
    IN  IF -Half <= a /\ a < Half THEN a
        ELSE IF rest >= Half THEN rest - 2 * Half ELSE rest

(* Mutants: the result is not normalised, or the difference is not.        *)
InterpolateAngleUnnormalised(a, b, num, den) ==
    a + (num * NormalizeTheta(b - a)) \div den
InterpolateAngleLongWay(a, b, num, den) ==
    NormalizeTheta(a + (num * (b - a)) \div den)

InterpolateAngle(a, b, num, den) ==
    NormalizeTheta(a + (num * NormalizeTheta(b - a)) \div den)

(* num / den of the way from s to t, beyond t when the quotient exceeds 1. *)
Between(s, t, num, den) ==
    [pos |-> s.pos + (num * (t.pos - s.pos)) \div den,
     th  |-> InterpolateAngle(s.th, t.th, num, den)]

(* getValuesInterpolate of a series with samples every step: the value of  *)
(* a sample, else between two.  After the end it holds the last value or,  *)
(* under NoExtrapolation, continues the last interval.                     *)
ValuesAt(ts, step, time, hold) ==
    LET last  == LastOf(ts)
        above == (time + step - 1) \div step
        idx   == IF above > last THEN last ELSE above
    IN  IF idx * step = time \/ (above > last /\ hold) THEN ts[idx]
        ELSE Between(ts[idx - 1], ts[idx], time - (idx - 1) * step, step)

-----------------------------------------------------------------------------
(* Initial trajectory                                                      *)

(* Yaw of the way to the next pose; that a plan leads backwards does not   *)
(* turn it, the result of normalize_theta is discarded there.              *)
YawTo(p, q) == IF q.pos < p.pos THEN Half ELSE 0

(* generateInitialStateTrajectory: start, poses between, goal, one every   *)
(* tf_ref / (n_init - 1).                                                  *)
InitialSeries(x0, plan, estimate) ==
    [i \in 0..Len(plan) |->
        IF i = 0 THEN x0
        ELSE IF i < Len(plan) /\ estimate
             THEN [plan[i] EXCEPT !.th = YawTo(plan[i], plan[i + 1])]
             ELSE plan[i]]

(* step() on an empty grid: the series is sampled every dt, in update(),   *)
(* and start and goal are put at the ends by initializeSequences.  Times   *)
(* are multiplied by n_init - 1.                                           *)
Fill(n_ref, x0, plan, estimate, dt, hold) ==
    LET ts   == InitialSeries(x0, plan, estimate)
        step == (n_ref - 1) * DtRef
    IN  /\ xs = NoPath
        /\ xs' = [k \in 0..(n_ref - 1) |->
                    IF k = 0 THEN x0
                    ELSE IF k = n_ref - 1 THEN ts[Len(plan)]
                    ELSE ValuesAt(ts, step, k * dt * Len(plan), hold)]
        /\ us' = [k \in 0..(n_ref - 2) |-> 0]
        /\ source' = IF dt = DtRef THEN ts ELSE NoPath
        /\ UNCHANGED <<xf_fixed, moves>>

-----------------------------------------------------------------------------
(* Warm start                                                              *)

SqDist(s, t) == (s.pos - t.pos) * (s.pos - t.pos) + (s.th - t.th) * (s.th - t.th)

(* findNearestState: the search stops where the distance does not fall.    *)
NearestState(x0) ==
    LET lookahead == IF N - 2 > 20 THEN 20 ELSE N - 2
        Nearer(i) == SqDist(x0, xs[i]) < SqDist(x0, xs[i - 1])
    IN  IF x0 = xs[0] THEN 0
        ELSE CHOOSE s \in 0..lookahead :
                /\ \A i \in 1..s : Nearer(i)
                /\ s < lookahead => ~ Nearer(s + 1)

(* Mutant: the final state is not moved into the sequence.                 *)
ShiftedStatesWithoutFinal(s) ==
    LET shifted[i \in 0..(N - 1)] ==
            IF i + s <= N - 2 \/ s = 0 THEN xs[i + s]
            ELSE IF i < 2 THEN xs[i] ELSE Between(shifted[i - 2], shifted[i - 1], 2, 1)
    IN  shifted

(* The states behind the old final state continue the last interval.       *)
ShiftedStates(s) ==
    LET shifted[i \in 0..(N - 1)] ==
            IF i + s <= N - 1 THEN xs[i + s]
            ELSE Between(shifted[i - 2], shifted[i - 1], 2, 1)
    IN  shifted

(* Mutant: the last control is held from one index later on.               *)
ShiftedControlsHeldLate(s) ==
    LET shifted[i \in 0..(N - 2)] ==
            IF i + s <= N - 2 THEN us[i + s]
            ELSE IF i + s = N - 1 THEN us[i] ELSE shifted[i - 1]
    IN  shifted

ShiftedControls(s) ==
    LET shifted[i \in 0..(N - 2)] ==
            IF i + s <= N - 2 THEN us[i + s] ELSE shifted[i - 1]
    IN  shifted

(* A new run: with or without warm start, then the first state is the      *)
(* measured one and fixed components of the final state are the goal's.    *)
NewRun(warm, x0, goal) ==
    LET s       == IF warm THEN NearestState(x0) ELSE 0
        shifted == ShiftedStates(s)
        xf      == shifted[N - 1]
    IN  /\ xs # NoPath /\ moves < MaxMoves
        /\ xs' = [shifted EXCEPT
                    ![0] = x0,
                    ![N - 1] = [pos |-> IF "pos" \in xf_fixed THEN goal.pos ELSE xf.pos,
                                th  |-> IF "th" \in xf_fixed THEN goal.th ELSE xf.th]]
        /\ us' = ShiftedControls(s)
        /\ moves' = moves + 1 /\ source' = NoPath
        /\ UNCHANGED xf_fixed

-----------------------------------------------------------------------------
(* Resampling                                                              *)

(* The first old sample that is not before the new sample k.               *)
IdxOld(k, n_new) == (k * (N - 1) + n_new - 2) \div (n_new - 1)

(* resampleTrajectory: same duration, n_new states; a control is the one   *)
(* of the old interval the new sample lies in or ends.                     *)
Resample(n_new) ==
    /\ xs # NoPath /\ moves < MaxMoves
    /\ n_new # N
    /\ xs' = [k \in 0..(n_new - 1) |->
                IF k = 0 THEN xs[0]
                ELSE IF k = n_new - 1 THEN xs[N - 1]
                ELSE LET j == IdxOld(k, n_new)
                     IN  Between(xs[j - 1], xs[j], k * (N - 1) - (j - 1) * (n_new - 1), n_new - 1)]
    /\ us' = [k \in 0..(n_new - 2) |-> IF k = 0 THEN us[0] ELSE us[IdxOld(k, n_new) - 1]]
    /\ moves' = moves + 1 /\ source' = xs
    /\ UNCHANGED xf_fixed

(* The solver (external) adds increments to the components that are not    *)
(* fixed: all of the inner states, none of the first.                      *)
Optimise ==
    /\ xs # NoPath
    /\ \E inner \in [1..(N - 1) -> Poses] :
         LET xf == inner[N - 1] IN
         xs' = [k \in 0..(N - 1) |->
                  IF k = 0 THEN xs[0]
                  ELSE IF k < N - 1 THEN inner[k]
                  ELSE [pos |-> IF "pos" \in xf_fixed THEN xs[k].pos ELSE xf.pos,
                        th  |-> IF "th" \in xf_fixed THEN xs[k].th ELSE xf.th]]
    /\ us' = [k \in 0..(N - 2) |-> k + 1]
    /\ moves' = 0 /\ source' = NoPath
    /\ UNCHANGED xf_fixed

Clear ==
    /\ xs # NoPath
    /\ xs' = NoPath /\ us' = NoPath /\ moves' = 0 /\ source' = NoPath
    /\ UNCHANGED xf_fixed

Next ==
    \/ \E n \in 2..NMax, x0 \in Poses, p \in Plans, e \in BOOLEAN, dt \in Dts, h \in BOOLEAN :
         Fill(n, x0, p, e, dt, h)
    \/ \E w \in BOOLEAN, x0 \in Poses, g \in Poses : NewRun(w, x0, g)
    \/ \E n \in 2..NMax : Resample(n)
    \/ Optimise \/ Clear

Spec == Init /\ [][Next]_vars

-----------------------------------------------------------------------------
(* Collision check of the trajectory                                       *)

CeilDiv(a, b) == (a + b - 1) \div b

LookAhead(l) == IF l < 0 \/ l >= N THEN N - 1 ELSE l

(* Mutant: the smaller of the two numbers is taken.                        *)
AdditionalSamplesOfSmaller(rot, dist) ==
    LET a == CeilDiv(rot, MinAngle)
        d == CeilDiv(dist, Radius)
    IN  IF rot > MinAngle \/ dist > Radius THEN (IF a < d THEN a ELSE d) - 1 ELSE 0

(* Poses checked between two states; rot and dist are absolute values.     *)
AdditionalSamples(rot, dist) ==
    LET a == CeilDiv(rot, MinAngle)
        d == CeilDiv(dist, Radius)
    IN  IF rot > MinAngle \/ dist > Radius THEN (IF a > d THEN a ELSE d) - 1 ELSE 0

Rot(path, i)  == AbsVal(NormalizeTheta(path[i + 1].th - path[i].th))
Dist(path, i) == AbsVal(path[i + 1].pos - path[i].pos)

(* The footprint at some pose covers o: its inscribed circle does.         *)
(* Positions are multiplied by the number of intervals between samples.    *)
Covers(i, o) ==
    LET parts == AdditionalSamples(Rot(xs, i), Dist(xs, i)) + 1
    IN  \E m \in 0..(parts - 1) :
          AbsVal(parts * (xs[i].pos - o) + m * (xs[i + 1].pos - xs[i].pos)) <= Radius * parts

(* isPoseTrajectoryFeasible, with a single point o in the costmap.         *)
Feasible(l, o) ==
    /\ N >= 2
    /\ \A i \in 0..(LookAhead(l) - 1) : ~ Covers(i, o)
    /\ AbsVal(xs[LookAhead(l)].pos - o) > Radius

-----------------------------------------------------------------------------
(* Properties                                                              *)

(* No step of the new path takes more distance or more turn, for the time  *)
(* it has, than the largest step of the old one.                           *)
NoFaster(old, new) ==
    LET n == LastOf(old)
        m == LastOf(new)
    IN  \A k \in 0..(m - 1) :
          /\ \E j \in 0..(n - 1) : Dist(new, k) * m <= Dist(old, j) * n
          /\ \E j \in 0..(n - 1) : Rot(new, k) * m <= Rot(old, j) * n

(* Sampling a path anew, the plan for the first trajectory or the last     *)
(* solution for another grid size, keeps both ends and never asks the      *)
(* robot to drive or to turn faster than the path did, also where headings *)
(* cross from pi to -pi.                                                   *)
SampledNoFaster ==
    source # NoPath =>
        /\ xs[0] = source[0] /\ xs[N - 1] = source[LastOf(source)]
        /\ NoFaster(source, xs)

(* Controls stay in the order in which the solver found them, through warm *)
(* starts and resamplings in any sequence.                                 *)
ControlsInOrder == \A i, j \in DOMAIN us : i < j => us[i] <= us[j]

(* A new run shifts states and controls by the same number of intervals;   *)
(* behind the old end the trajectory goes on as in its last interval and   *)
(* the last control is held.  Only start and final state may deviate.      *)
ShiftedTogether ==
    [][ (xs # NoPath /\ moves' = moves + 1 /\ source' = NoPath) =>
        \E s \in 0..(N - 2) :
          /\ \A i \in 1..(N - 2) :
               xs'[i] = IF i + s <= N - 1 THEN xs[i + s]
                        ELSE Between(xs[N - 2], xs[N - 1], i + s - (N - 2), 1)
          /\ \A i \in 0..(N - 2) : us'[i] = us[IF i + s <= N - 2 THEN i + s ELSE N - 2] ]_vars

(* A trajectory found feasible does not jump over an obstacle between two  *)
(* of its states, however far apart obstacles or the solver have pushed    *)
(* them.                                                                   *)
NothingJumpedOver ==
    \A l \in LookAheads, o \in Obstacles :
        (xs # NoPath /\ Feasible(l, o)) =>
            \A i \in 0..(LookAhead(l) - 1) :
                ~ (xs[i].pos <= o /\ o <= xs[i + 1].pos) /\ ~ (xs[i + 1].pos <= o /\ o <= xs[i].pos)
=============================================================================
