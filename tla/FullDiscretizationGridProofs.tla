-------------------- MODULE FullDiscretizationGridProofs --------------------
(***************************************************************************)
(* Proofs about FullDiscretizationGrid, for any sizes, hysteresis, states  *)
(* and structures, and for each adaptation strategy.                       *)
(***************************************************************************)
EXTENDS FullDiscretizationGrid, TLAPS

(* The solver runs, and the outer iterations repeat, on a grid that holds  *)
(* a trajectory between the ends of this control step.                     *)
StepInv ==
    phase # "idle" => ~ Empty /\ front = x0 /\ (config.xf_fixed => xf = goal)

(* Edges and stage functions fit the grid unless the flag says otherwise   *)
(* and no update() has seen it.                                            *)
FitInv ==
    (~ Empty /\ (~ modified \/ phase = "updated"))
        => edges.n = N /\ nlp.n = N /\ edges.dims = nlp.dims

IInv ==
    /\ TypeOK
    /\ SizeInBounds
    /\ StepInv
    /\ FitInv
    /\ ReferenceCovers
    /\ EmptyStartsOver

USE GridAssumption DEF GridAssumption

-----------------------------------------------------------------------------
(* Integer division of natural numbers stays within the natural numbers.   *)
LEMMA DivNat == \A a \in Nat, b \in Nat \ {0} : a \div b \in Nat
  OBVIOUS

(* A grid with fewer intervals than the largest size has a legal size.     *)
LEMMA SizeOfIntervals == \A m \in Nat : \A l \in 1..(m - 1) : l + 1 \in 0..m
  OBVIOUS

(* Whatever the strategy, the adaptation leaves an empty grid alone, keeps *)
(* two states at least and grows no grid beyond the maximum size.          *)
LEMMA AdaptedSize ==
  ASSUME TypeOK, SizeInBounds, NEW new_run \in BOOLEAN
  PROVE  /\ AdaptedN(new_run) \in Int
         /\ Empty => AdaptedN(new_run) = N
         /\ ~ Empty => /\ 2 <= AdaptedN(new_run)
                       /\ AdaptedN(new_run) <= MaxOf(n_ref, NMax)
  <1> USE DEF TypeOK, SizeInBounds, Empty, N, MaxOf, Largest, Configs, Strategies
  <1>1. SingleStepN \in Int /\ (~ Empty => 2 <= SingleStepN /\ SingleStepN <= MaxOf(n_ref, NMax))
    BY DEF SingleStepN
  <1>2. AggressiveN \in Int /\ (~ Empty => 2 <= AggressiveN /\ AggressiveN <= MaxOf(n_ref, NMax))
    <2>1. (2 * N * dt + DtRef) \div (2 * DtRef) \in Nat
      <3>1. 2 * N * dt + DtRef \in Nat /\ 2 * DtRef \in Nat \ {0}
        OBVIOUS
      <3> QED BY <3>1, DivNat
    <2> QED BY <2>1 DEF AggressiveN
  <1>3. ShrinkingN \in Int /\ (~ Empty => 2 <= ShrinkingN /\ ShrinkingN <= MaxOf(n_ref, NMax))
    BY DEF ShrinkingN
  <1> QED BY <1>1, <1>2, <1>3 DEF AdaptedN

(* The time difference after resampling is a natural number.               *)
LEMMA ResampledDtNat ==
  ASSUME TypeOK, NEW n \in Nat, 2 <= n
  PROVE  ResampledDt(n) \in Nat
  <1>1. dt * (N - 1) \in Nat /\ n - 1 \in Nat \ {0}
    BY DEF TypeOK, N
  <1> QED BY <1>1, DivNat DEF ResampledDt, TypeOK

(* The empty grid of a new controller satisfies the inductive invariant.   *)
LEMMA InitIInv == Init => IInv
  <1> SUFFICES ASSUME Init PROVE IInv
    OBVIOUS
  <1> USE DEF Init, Empty, N
  <1>1. first_run \in BOOLEAN /\ modified \in BOOLEAN /\ nlp_fun \in BOOLEAN
    OBVIOUS
  <1>2. Largest \in Nat /\ 2 <= Largest
    BY DEF Largest, MaxOf
  <1>3. TypeOK
    BY <1>1, <1>2 DEF TypeOK, Structures, Structure
  <1> QED
    BY <1>3 DEF IInv, SizeInBounds, StepInv, FitInv, ReferenceCovers, EmptyStartsOver

(* update() keeps the invariant, in a new run and in a later iteration.    *)
LEMMA UpdateIInv ==
  ASSUME IInv, NEW new_run \in BOOLEAN, NEW x \in Starts, NEW g \in Goals,
         new_run \/ (~ Empty /\ x = x0 /\ g = goal /\ phase = "solved"),
         Update(new_run, x, g)
  PROVE  IInv'
  <1> DEFINE n_now   == AdaptedN(new_run)
             dt_now  == ResampledDt(n_now)
             adapted == IF n_now = N THEN n_adapt ELSE n_now
             dt_ok   == IF dt_now <= 0 THEN DtRef ELSE dt_now
             changed == VerticesUpdated(n_now)
  <1> USE DEF IInv, Empty, N
  <1>1. /\ n_now \in Int
        /\ Empty => n_now = N
        /\ ~ Empty => 2 <= n_now /\ n_now <= MaxOf(n_ref, NMax)
    BY AdaptedSize
  <1>2. Largest \in Nat /\ MaxOf(n_ref, NMax) <= Largest /\ n_ref <= Largest /\ NMax <= Largest
    BY DEF TypeOK, Largest, MaxOf
  <1>3. adapted \in 0..Largest /\ (Empty => adapted = 0)
    BY <1>1, <1>2 DEF TypeOK, EmptyStartsOver, MaxOf
  <1>4. dt_ok \in Nat
    <2>1. CASE Empty
      BY <2>1, <1>1 DEF TypeOK, ResampledDt
    <2>2. CASE ~ Empty
      BY <2>2, <1>1, ResampledDtNat DEF TypeOK
    <2> QED BY <2>1, <2>2
  <1> HIDE DEF n_now
  <1>5. /\ x0' = x /\ goal' = g /\ n_adapt' = adapted /\ nlp_fun' = TRUE
        /\ modified' = changed /\ first_run' = FALSE /\ phase' = "updated"
        /\ config' = config /\ n_ref' = n_ref
        /\ cached' = [dt |-> dt_ok, n |-> CacheSize(n_now, adapted)]
    BY DEF Update, n_now
  <1>6. \/ Empty /\ len' = n_ref - 1 /\ dt' = DtRef /\ front' = x /\ xf' = g
        \/ /\ ~ Empty /\ len' = n_now - 1 /\ dt' = dt_ok
           /\ front' = IF new_run THEN x ELSE front
           /\ xf' \in FinalState(new_run, g)
    BY <1>3 DEF Update, n_now, InitialN
  <1>7. PICK d \in Dims :
          /\ nlp' = IF new_run \/ changed THEN Structure(len' + 1, d) ELSE nlp
          /\ edges' = IF changed \/ nlp'.dims # nlp.dims THEN nlp' ELSE edges
    BY DEF Update, n_now
  <1>8. len' \in 1..(Largest - 1) /\ len' + 1 <= MaxOf(n_ref, NMax) /\ len' + 1 >= 2
    BY <1>1, <1>2, <1>6 DEF TypeOK, MaxOf
  <1>9. SizeInBounds' /\ EmptyStartsOver'
    <2>1. n_ref' = n_ref
      BY <1>5
    <2>2. SizeInBounds'
      BY <2>1, <1>8 DEF SizeInBounds, MaxOf
    <2>3. len' # 0
      BY <1>8
    <2> QED BY <2>2, <2>3 DEF EmptyStartsOver
  <1>10. CacheSize(n_now, adapted) \in 0..Largest /\ len' + 1 <= CacheSize(n_now, adapted)
    BY <1>1, <1>2, <1>3, <1>6 DEF CacheSize, MaxOf, TypeOK
  <1>11. ReferenceCovers'
    BY <1>5, <1>10 DEF ReferenceCovers
  <1>12. StepInv'
    <2>1. len' # 0
      BY <1>8
    <2>2. front' = x
      BY <1>6 DEF StepInv
    <2>3. config.xf_fixed => xf' = g
      BY <1>6 DEF StepInv, FinalState
    <2> QED BY <2>1, <2>2, <2>3, <1>5 DEF StepInv
  <1>13. FitInv'
    <2>1. CASE changed
      BY <2>1, <1>5, <1>7 DEF FitInv, Structure
    <2>2. CASE ~ changed
      <3>1. ~ modified /\ ~ Empty /\ n_now = N /\ len' = len
        BY <2>2, <1>6 DEF VerticesUpdated, TypeOK
      <3>2. edges.n = N /\ nlp.n = N /\ edges.dims = nlp.dims
        BY <3>1 DEF FitInv
      <3> QED BY <2>2, <3>1, <3>2, <1>5, <1>7 DEF FitInv, Structure
    <2> QED BY <2>1, <2>2
  <1>14. TypeOK'
    <2>1. first_run' \in BOOLEAN /\ modified' \in BOOLEAN /\ nlp_fun' \in BOOLEAN
      BY <1>5 DEF VerticesUpdated
    <2>2. nlp' \in Structures /\ edges' \in Structures
      <3>1. nlp \in Structures /\ edges \in Structures
        BY DEF TypeOK
      <3>2. len' + 1 \in 0..Largest
        BY <1>2, <1>8, SizeOfIntervals
      <3>3. Structure(len' + 1, d) \in Structures
        BY <3>2 DEF Structure, Structures
      <3>4. nlp' \in Structures
        BY <1>7, <3>1, <3>3, Zenon
      <3> QED BY <1>7, <3>1, <3>4, Zenon
    <2>3. front' \in Starts
      BY <1>6 DEF StepInv
    <2>4. xf' \in Goals \cup {Shifted, NoState}
      BY <1>6 DEF FinalState, TypeOK
    <2> QED
      BY <2>1, <2>2, <2>3, <2>4, <1>3, <1>4, <1>5, <1>6, <1>8, <1>10 DEF TypeOK
  <1> QED BY <1>9, <1>11, <1>12, <1>13, <1>14

(* Every step keeps the invariant.                                         *)
LEMMA NextIInv == IInv /\ [Next]_vars => IInv'
  <1> SUFFICES ASSUME IInv, [Next]_vars PROVE IInv'
    OBVIOUS
  <1> USE DEF Empty, N, seqVars, sizeVars, nlpVars, stepVars
  <1>0. Largest \in Nat /\ NLimit <= Largest /\ NMax <= Largest
    BY DEF Largest, MaxOf
  <1>1. ASSUME phase = "idle", ClearGrid, n_ref' \in 2..NLimit,
               UNCHANGED <<config, nlpVars, stepVars>>
        PROVE  IInv'
    <2>1. first_run' \in BOOLEAN /\ modified' \in BOOLEAN /\ nlp_fun' \in BOOLEAN
      BY <1>1 DEF ClearGrid
    <2>2. TypeOK'
      BY <1>0, <1>1, <2>1 DEF IInv, TypeOK, ClearGrid, Structures
    <2> QED
      BY <1>1, <2>2 DEF IInv, ClearGrid, SizeInBounds, StepInv, FitInv, ReferenceCovers,
         EmptyStartsOver
  <1>2. CASE Clear
    BY <1>1, <1>2 DEF Clear, IInv, TypeOK
  <1>3. ASSUME NEW n \in 1..NLimit, SetNRef(n)
        PROVE  IInv'
    <2>1. n_ref' \in 2..NLimit
      BY <1>3 DEF SetNRef, MaxOf
    <2>2. CASE n # N /\ ClearGrid
      BY <1>1, <1>3, <2>1, <2>2 DEF SetNRef
    <2>3. CASE /\ n = N
               /\ n_adapt' = IF n < 2 THEN n_adapt ELSE 0
               /\ UNCHANGED <<seqVars, first_run, modified, nlp_fun>>
      <3>1. ~ Empty => n_ref' = N
        BY <1>3, <2>3 DEF SetNRef, MaxOf, IInv, SizeInBounds
      <3>2. TypeOK'
        BY <1>0, <1>3, <2>1, <2>3 DEF SetNRef, IInv, TypeOK, Structures
      <3> QED
        BY <1>3, <2>3, <3>1, <3>2 DEF SetNRef, IInv, TypeOK, SizeInBounds, StepInv, FitInv,
           ReferenceCovers, EmptyStartsOver, MaxOf
    <2> QED BY <1>3, <2>2, <2>3 DEF SetNRef
  <1>4. ASSUME NEW n \in 2..NLimit, SetN(n)
        PROVE  IInv'
    <2>1. CASE (~ nlp_fun \/ Empty) /\ ClearGrid
      BY <1>1, <1>4, <2>1 DEF SetN
    <2>2. CASE /\ nlp_fun /\ ~ Empty
               /\ len' = n - 1 /\ dt' = ResampledDt(n)
               /\ modified' = (modified \/ n # N)
               /\ n_adapt' = 0
               /\ UNCHANGED <<front, xf, first_run, nlp_fun>>
      <3>1. dt' \in Nat
        BY <2>2, ResampledDtNat DEF IInv
      <3>2. modified' \in BOOLEAN
        BY <2>2
      <3>3. TypeOK'
        BY <1>0, <1>4, <2>2, <3>1, <3>2 DEF SetN, IInv, TypeOK, Structures
      <3>4. SizeInBounds' /\ EmptyStartsOver' /\ StepInv' /\ ReferenceCovers'
        BY <1>4, <2>2 DEF SetN, IInv, TypeOK, SizeInBounds, EmptyStartsOver, StepInv,
           ReferenceCovers, MaxOf
      <3>5. FitInv'
        <4>1. phase' = "idle" /\ UNCHANGED <<edges, nlp>>
          BY <1>4 DEF SetN
        <4>2. modified' = (modified \/ n # N)
          BY <2>2
        <4>3. n = N => len' = len
          BY <2>2 DEF IInv, TypeOK
        <4>4. ~ modified' => ~ modified /\ len' = len
          BY <4>2, <4>3, Zenon
        <4> QED BY <2>2, <4>1, <4>4 DEF IInv, FitInv
      <3> QED BY <3>3, <3>4, <3>5 DEF IInv
    <2> QED BY <1>4, <2>1, <2>2 DEF SetN
  <1>5. CASE NewRun
    BY <1>5, UpdateIInv DEF NewRun
  <1>6. CASE NextOuterIteration
    <2>1. ~ Empty /\ x0 \in Starts /\ goal \in Goals
      BY <1>6 DEF NextOuterIteration, IInv, StepInv, TypeOK
    <2> QED BY <1>6, <2>1, UpdateIInv DEF NextOuterIteration
  <1>7. CASE Solve
    <2>1. ~ Empty
      BY <1>7 DEF Solve, IInv, StepInv
    <2>2. dt' \in Nat
      <3>1. ASSUME NEW T \in FinalTimes PROVE T \div len \in Nat
        BY <2>1, DivNat DEF IInv, TypeOK
      <3> QED BY <1>7, <3>1 DEF Solve, IInv, TypeOK
    <2>3. TypeOK'
      BY <1>7, <2>2 DEF Solve, IInv, TypeOK, Structures
    <2>4. SizeInBounds' /\ EmptyStartsOver' /\ ReferenceCovers'
      BY <1>7 DEF Solve, IInv, SizeInBounds, EmptyStartsOver, ReferenceCovers, MaxOf
    <2>5. StepInv'
      BY <1>7, <2>1 DEF Solve, IInv, StepInv
    <2>6. FitInv'
      BY <1>7, <2>1 DEF Solve, IInv, FitInv
    <2> QED BY <2>3, <2>4, <2>5, <2>6 DEF IInv
  <1>8. CASE EndStep
    <2>1. TypeOK'
      BY <1>8 DEF EndStep, IInv, TypeOK, Structures
    <2> QED
      BY <1>8, <2>1 DEF EndStep, IInv, SizeInBounds, EmptyStartsOver, ReferenceCovers,
         StepInv, FitInv, MaxOf
  <1>9. CASE UNCHANGED vars
    <2>1. TypeOK'
      BY <1>9 DEF vars, IInv, TypeOK, Structures
    <2> QED
      BY <1>9, <2>1 DEF vars, IInv, SizeInBounds, EmptyStartsOver, ReferenceCovers,
         StepInv, FitInv, MaxOf
  <1> QED
    BY <1>2, <1>3, <1>4, <1>5, <1>6, <1>7, <1>8, <1>9 DEF Next

(* IInv, the inductive invariant, holds in every state the grid can reach. *)
THEOREM Invariance == Spec => []IInv
  <1> QED BY InitIInv, NextIInv, PTL DEF Spec

(* Every variable keeps to its type: the sizes stay in range and the time  *)
(* difference a natural number through every division.                     *)
THEOREM TypeCorrect == Spec => []TypeOK
  <1>1. IInv => TypeOK
    BY DEF IInv
  <1> QED BY <1>1, Invariance, PTL

(* No sequence of adaptation, resampling, resizing and clearing takes a    *)
(* trajectory below two states or beyond its maximum size.                 *)
THEOREM SizeBounded == Spec => []SizeInBounds
  <1>1. IInv => SizeInBounds
    BY DEF IInv
  <1> QED BY <1>1, Invariance, PTL

(* The solver never sees edges or stage functions of another size or       *)
(* structure than the grid has.                                            *)
THEOREM EdgesFit == Spec => []EdgesFitGrid
  <1>1. IInv => EdgesFitGrid
    BY DEF IInv, StepInv, FitInv, EdgesFitGrid
  <1> QED BY <1>1, Invariance, PTL

(* Stale edges are always announced.                                       *)
THEOREM StaleFlagged == Spec => []StaleEdgesFlagged
  <1>1. IInv => StaleEdgesFlagged
    BY DEF IInv, FitInv, StaleEdgesFlagged
  <1> QED BY <1>1, Invariance, PTL

(* update() reads no reference sample that was not computed.               *)
THEOREM ReferenceCached == Spec => []ReferenceCovers
  <1>1. IInv => ReferenceCovers
    BY DEF IInv
  <1> QED BY <1>1, Invariance, PTL

(* The solver starts from the measured state and, with a fixed final       *)
(* state, heads for the goal of the same control step.                     *)
THEOREM EndsAreFixed == Spec => []EndsFixed
  <1>1. IInv => EndsFixed
    BY DEF IInv, StepInv, EndsFixed
  <1> QED BY <1>1, Invariance, PTL

(* The size of an earlier adaptation never survives clear(), so that the   *)
(* alternative `_n_adapt > 0` of initializeSequences is never taken.       *)
THEOREM StartsOver == Spec => []EmptyStartsOver
  <1>1. IInv => EmptyStartsOver
    BY DEF IInv
  <1> QED BY <1>1, Invariance, PTL

-----------------------------------------------------------------------------
(* Products of the thresholds: what is multiplied by a positive factor     *)
(* keeps its order, and the other way round.                               *)
LEMMA TimesKeepsOrder ==
  ASSUME NEW n \in Nat \ {0}, NEW a \in Int, NEW b \in Int, a < b
  PROVE  n * a < n * b
  <1>1. b - a >= 1
    OBVIOUS
  <1>2. n * (b - a) >= 1
    BY <1>1
  <1>3. n * (b - a) = n * b - n * a
    OBVIOUS
  <1> QED BY <1>2, <1>3

LEMMA TimesKeepsOrderWeakly ==
  ASSUME NEW n \in Nat, NEW a \in Int, NEW b \in Int, a <= b
  PROVE  n * a <= n * b
  <1>1. CASE n = 0 \/ a = b
    BY <1>1
  <1>2. CASE n # 0 /\ a < b
    BY <1>2, TimesKeepsOrder
  <1> QED BY <1>1, <1>2

LEMMA FactorCancels ==
  ASSUME NEW n \in Nat \ {0}, NEW a \in Int, NEW b \in Int, n * a < n * b
  PROVE  a < b
  <1> SUFFICES ASSUME b <= a PROVE FALSE
    OBVIOUS
  <1>1. n * b <= n * a
    BY TimesKeepsOrderWeakly
  <1> QED BY <1>1

(* The duration l * d spread over one interval more or less, e each: the   *)
(* width h of the hysteresis, in parts of m, keeps e on its side.          *)
LEMMA GrowthSettles ==
  ASSUME NEW l \in Nat \ {0}, NEW d \in Nat, NEW e \in Nat,
         NEW r \in Nat \ {0}, NEW h \in Nat, NEW m \in Nat,
         (l + 1) * e = l * d, d * m > r * (m + h), 2 * h * (l + 1) >= m + h
  PROVE  ~ (e * m < r * (m - h))
  <1>1. l * (r * (m + h)) < l * (d * m)
    BY TimesKeepsOrder
  <1>2. (l + 1) * (e * m) = l * (d * m)
    <2>1. (l + 1) * (e * m) = ((l + 1) * e) * m /\ l * (d * m) = (l * d) * m
      OBVIOUS
    <2> QED BY <2>1
  <1>3. (l + 1) * (m - h) <= l * (m + h)
    OBVIOUS
  <1>4. r * ((l + 1) * (m - h)) <= r * (l * (m + h))
    BY <1>3, TimesKeepsOrderWeakly
  <1>5. /\ r * ((l + 1) * (m - h)) = (l + 1) * (r * (m - h))
        /\ r * (l * (m + h)) = l * (r * (m + h))
    OBVIOUS
  <1> DEFINE a == r * (m - h)
             b == e * m
  <1>6. (l + 1) * a < (l + 1) * b
    BY <1>1, <1>2, <1>4, <1>5
  <1>7. a \in Int /\ b \in Int
    OBVIOUS
  <1> HIDE DEF a, b
  <1>8. a < b
    BY <1>6, <1>7, FactorCancels
  <1>9. ~ (b < a)
    BY <1>7, <1>8
  <1> QED BY <1>9 DEF a, b

LEMMA ShrinkingSettles ==
  ASSUME NEW l \in Nat \ {0, 1}, NEW d \in Nat, NEW e \in Nat,
         NEW r \in Nat \ {0}, NEW h \in Nat, NEW m \in Nat,
         (l - 1) * e = l * d, d * m < r * (m - h), h * (2 * l - 1) >= m
  PROVE  ~ (e * m > r * (m + h))
  <1>1. l * (d * m) < l * (r * (m - h))
    BY TimesKeepsOrder
  <1>2. (l - 1) * (e * m) = l * (d * m)
    <2>1. (l - 1) * (e * m) = ((l - 1) * e) * m /\ l * (d * m) = (l * d) * m
      OBVIOUS
    <2> QED BY <2>1
  <1>3. l * (m - h) <= (l - 1) * (m + h)
    OBVIOUS
  <1>4. r * (l * (m - h)) <= r * ((l - 1) * (m + h))
    BY <1>3, TimesKeepsOrderWeakly
  <1>5. /\ r * (l * (m - h)) = l * (r * (m - h))
        /\ r * ((l - 1) * (m + h)) = (l - 1) * (r * (m + h))
    OBVIOUS
  <1> DEFINE a == e * m
             b == r * (m + h)
  <1>6. (l - 1) * a < (l - 1) * b
    BY <1>1, <1>2, <1>4, <1>5
  <1>7. a \in Int /\ b \in Int /\ l - 1 \in Nat \ {0}
    OBVIOUS
  <1> HIDE DEF a, b
  <1>8. a < b
    BY <1>6, <1>7, FactorCancels
  <1>9. ~ (a > b)
    BY <1>7, <1>8
  <1> QED BY <1>9 DEF a, b

(* Where the hysteresis is as wide as the size of the grid demands, growing*)
(* by one state never calls for shrinking by one, nor the other way round. *)
THEOREM Settles == Spec => NoFlipFlop
  <1> DEFINE Turned ==
        /\ (len' = len + 1 /\ WideForGrowth) => ~ BelowHysteresis(dt')
        /\ (len' = len - 1 /\ WideForShrinking /\ dt > 0) => ~ AboveHysteresis(dt')
      Adapting == /\ config.strategy = "single_step" /\ phase' = "updated"
                  /\ ~ Empty /\ len' * dt' = len * dt
  <1>1. ASSUME IInv, IInv', NEW new_run \in BOOLEAN, NEW x, NEW g,
               Update(new_run, x, g), Adapting
        PROVE  Turned
    <2>1. /\ len \in Nat \ {0} /\ dt \in Nat /\ dt' \in Nat
      BY <1>1 DEF IInv, TypeOK, Empty
    <2>2. len' = AdaptedN(new_run) - 1
      BY <1>1 DEF Update
    <2>3. AdaptedN(new_run) \in {N, SingleStepN}
      BY <1>1 DEF AdaptedN
    <2>4. /\ len' = len + 1 => AboveHysteresis(dt)
          /\ len' = len - 1 => BelowHysteresis(dt) /\ len > 1
      BY <2>1, <2>2, <2>3 DEF SingleStepN, N
    <2>5. ASSUME len' = len + 1, WideForGrowth
          PROVE  ~ BelowHysteresis(dt')
      <3>1. /\ (len + 1) * dt' = len * dt
            /\ dt * HystDen > DtRef * (HystDen + HystNum)
            /\ 2 * HystNum * (len + 1) >= HystDen + HystNum
        BY <1>1, <2>4, <2>5 DEF AboveHysteresis, WideForGrowth, N
      <3>2. ~ (dt' * HystDen < DtRef * (HystDen - HystNum))
        BY <2>1, <3>1, GrowthSettles
      <3> QED BY <3>2 DEF BelowHysteresis
    <2>6. ASSUME len' = len - 1, WideForShrinking
          PROVE  ~ AboveHysteresis(dt')
      <3>1. (len - 1) * dt' = len * dt
        BY <1>1, <2>6
      <3>2. dt * HystDen < DtRef * (HystDen - HystNum)
        BY <2>4, <2>6 DEF BelowHysteresis
      <3>3. len \in Nat \ {0, 1}
        BY <2>1, <2>4, <2>6
      <3>4. HystNum * (2 * len - 1) >= HystDen
        <4>1. 2 * N - 3 = 2 * len - 1
          BY <2>1 DEF N
        <4> QED BY <2>6, <4>1 DEF WideForShrinking
      <3>5. ~ (dt' * HystDen > DtRef * (HystDen + HystNum))
        BY <2>1, <3>1, <3>2, <3>3, <3>4, ShrinkingSettles
      <3> QED BY <3>5 DEF AboveHysteresis
    <2> QED BY <2>5, <2>6
  <1>2. ASSUME IInv, IInv', [Next]_vars, Adapting
        PROVE  Turned
    <2>1. CASE NewRun \/ NextOuterIteration
      BY <1>1, <1>2, <2>1 DEF NewRun, NextOuterIteration
    <2>2. CASE Clear \/ (\E n \in 1..NLimit : SetNRef(n)) \/ (\E n \in 2..NLimit : SetN(n))
               \/ Solve \/ EndStep
      <3>1. phase' # "updated"
        BY <2>2 DEF Clear, SetNRef, SetN, Solve, EndStep, stepVars
      <3> QED BY <1>2, <3>1
    <2>3. CASE UNCHANGED vars
      <3>1. len \in Nat /\ len' = len
        BY <1>2, <2>3 DEF vars, seqVars, IInv, TypeOK
      <3> QED BY <3>1
    <2> QED BY <1>2, <2>1, <2>2, <2>3 DEF Next
  <1>3. IInv /\ IInv' /\ [Next]_vars
          => [Adapting => Turned]_vars
    BY <1>2
  <1> QED BY <1>3, Invariance, PTL DEF Spec, NoFlipFlop

-----------------------------------------------------------------------------
(* The duration of a trajectory can be divided by its new number of        *)
(* intervals in whole units of time.                                       *)
WholeTime == (~ Empty /\ len' # 0) => (dt * len) % len' = 0

(* Division without remainder is undone by multiplication.                *)
LEMMA WholeQuotient ==
  ASSUME NEW a \in Nat, NEW l \in Nat \ {0}, a % l = 0
  PROVE  a \div l \in Nat /\ l * (a \div l) = a
  OBVIOUS

(* Resampled to n states, the trajectory takes as long as before.          *)
LEMMA ResampledDuration ==
  ASSUME TypeOK, ~ Empty, dt > 0, NEW n \in Nat, 2 <= n, (dt * len) % (n - 1) = 0
  PROVE  (n - 1) * ResampledDt(n) = len * dt /\ ResampledDt(n) > 0
  <1>1. len \in Nat \ {0} /\ dt \in Nat \ {0} /\ N - 1 = len /\ n - 1 \in Nat \ {0}
    BY DEF TypeOK, Empty, N
  <1>2. CASE n = N
    BY <1>1, <1>2 DEF ResampledDt
  <1>3. CASE n # N
    <2> DEFINE a == dt * len
               l == n - 1
    <2>1. ResampledDt(n) = a \div l
      BY <1>1, <1>3 DEF ResampledDt
    <2>2. a \in Nat \ {0} /\ l \in Nat \ {0} /\ a % l = 0 /\ a = len * dt
      <3>1. \A x, y \in Nat \ {0} : x * y \in Nat \ {0} /\ x * y = y * x
        OBVIOUS
      <3> QED BY <1>1, <3>1
    <2> HIDE DEF a, l
    <2>3. a \div l \in Nat /\ l * (a \div l) = a
      BY <2>2, WholeQuotient
    <2>4. a \div l # 0
      <3> SUFFICES ASSUME a \div l = 0 PROVE FALSE
        OBVIOUS
      <3>1. l * 0 = 0
        BY <2>2
      <3> QED BY <2>2, <2>3, <3>1
    <2> QED BY <2>1, <2>2, <2>3, <2>4 DEF l
  <1> QED BY <1>2, <1>3

(* In every run in which the units of time are fine enough, no adaptation  *)
(* and no resizing changes the duration of a trajectory that is kept.      *)
THEOREM DurationSurvives == Spec /\ [][WholeTime]_vars => DurationKept
  <1> DEFINE Kept == (~ Empty /\ len' # 0 /\ len' # len /\ dt > 0) => len' * dt' = len * dt
  <1>1. ASSUME IInv, WholeTime, ~ Empty, len' # 0, dt > 0, NEW n \in Nat, 2 <= n, len' = n - 1,
               dt' \in {ResampledDt(n), IF ResampledDt(n) <= 0 THEN DtRef ELSE ResampledDt(n)}
        PROVE  Kept
    <2>1. (dt * len) % (n - 1) = 0
      BY <1>1 DEF WholeTime
    <2>2. (n - 1) * ResampledDt(n) = len * dt /\ ResampledDt(n) > 0
      BY <1>1, <2>1, ResampledDuration DEF IInv
    <2>3. ResampledDt(n) \in Nat
      BY <1>1, ResampledDtNat DEF IInv
    <2>4. dt' = ResampledDt(n)
      BY <1>1, <2>2, <2>3
    <2> QED BY <1>1, <2>2, <2>4
  <1>2. ASSUME IInv, WholeTime, ~ Empty, len' # 0, dt > 0,
               NEW new_run \in BOOLEAN, NEW x, NEW g, Update(new_run, x, g)
        PROVE  Kept
    <2> DEFINE n == AdaptedN(new_run)
    <2>1. n \in Nat /\ 2 <= n
      BY <1>2, AdaptedSize DEF IInv
    <2>2. len' = n - 1 /\ dt' = IF ResampledDt(n) <= 0 THEN DtRef ELSE ResampledDt(n)
      BY <1>2 DEF Update
    <2> HIDE DEF n, Kept
    <2> QED BY <1>1, <1>2, <2>1, <2>2
  <1>3. ASSUME IInv, WholeTime, [Next]_vars PROVE Kept
    <2> SUFFICES ASSUME ~ Empty, len' # 0, len' # len, dt > 0 PROVE Kept
      OBVIOUS
    <2>1. CASE NewRun \/ NextOuterIteration
      BY <1>2, <1>3, <2>1 DEF NewRun, NextOuterIteration
    <2>2. CASE \E n \in 2..NLimit : SetN(n)
      <3>1. PICK n \in 2..NLimit : SetN(n)
        BY <2>2
      <3>2. n \in Nat /\ 2 <= n
        OBVIOUS
      <3>3. len' = n - 1 /\ dt' = ResampledDt(n)
        BY <3>1 DEF SetN, ClearGrid
      <3> HIDE DEF Kept
      <3> QED BY <1>1, <1>3, <3>2, <3>3
    <2>3. CASE Clear \/ (\E n \in 1..NLimit : SetNRef(n)) \/ Solve \/ EndStep \/ UNCHANGED vars
      <3>1. len' = 0 \/ len' = len
        BY <2>3 DEF Clear, SetNRef, ClearGrid, Solve, EndStep, seqVars, vars
      <3> QED BY <3>1
    <2> HIDE DEF Kept
    <2> QED BY <1>3, <2>1, <2>2, <2>3 DEF Next
  <1>4. IInv /\ [Next]_vars /\ [WholeTime]_vars
          => [(~ Empty /\ len' # 0 /\ len' # len /\ dt > 0) => len' * dt' = len * dt]_vars
    BY <1>3
  <1> QED BY <1>4, Invariance, PTL DEF Spec, DurationKept
=============================================================================
