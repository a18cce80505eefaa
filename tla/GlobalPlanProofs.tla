--------------------------- MODULE GlobalPlanProofs ---------------------------
(***************************************************************************)
(* Proofs about GlobalPlan, for any plans, distances and lookahead.        *)
(***************************************************************************)
EXTENDS GlobalPlan, SequenceTheorems, InductionLemmas, TLAPS

(* What is left of the plan is never empty once it has been transformed,   *)
(* and the local plan that was cut out of it still refers to it.           *)
Typed ==
    /\ pc \in {"idle", "pruned", "transformed", "optimise"}
    /\ robot \in Positions /\ plan \in Plans
    /\ local \in [first : Nat, last : Nat]

IInv ==
    /\ Typed
    /\ PlanIsSuffix
    /\ LocalPlanInWindow
    /\ StartsAtClosest
    /\ HeadingFromPlan

-----------------------------------------------------------------------------
(* A nonempty set of natural numbers has a least element, and Min is it.   *)
LEMMA MinOfNats ==
  ASSUME NEW S, S \subseteq Nat, S # {}
  PROVE  Min(S) \in S /\ \A k \in S : Min(S) <= k
  <1>1. \E m \in S : \A k \in S : m <= k
    BY LeastElement
  <1>2. Min(S) = CHOOSE m \in S : \A k \in S : m <= k
    BY DEF Min
  <1> QED BY <1>1, <1>2, Zenon

(* A suffix of a suffix is a suffix.                                       *)
LEMMA SuffixOfSuffix ==
  ASSUME NEW S, NEW s \in Seq(S), NEW k \in 1..Len(s),
         NEW m \in 1..Len(SubSeq(s, k, Len(s)))
  PROVE  /\ k + m - 1 \in 1..Len(s)
         /\ SubSeq(SubSeq(s, k, Len(s)), m, Len(SubSeq(s, k, Len(s))))
              = SubSeq(s, k + m - 1, Len(s))
  <1> DEFINE t == SubSeq(s, k, Len(s))
  <1>1. t \in Seq(S) /\ Len(t) = Len(s) - k + 1
    BY SubSeqProperties
  <1>2. m \in 1..(Len(s) - k + 1) /\ Len(t) \in 1..(Len(s) - k + 1) /\ Len(s) \in 1..Len(s)
    BY <1>1
  <1>3. SubSeq(t, m, Len(t)) = SubSeq(s, k + m - 1, k + Len(t) - 1)
    BY <1>1, <1>2, SubSeqOfSubSeq
  <1> QED BY <1>1, <1>2, <1>3

(* What is left of the plan is a sequence of points, empty only if the     *)
(* plan itself is.                                                         *)
LEMMA PlanLeft ==
  ASSUME Typed, PlanIsSuffix
  PROVE  /\ global_plan \in Seq(Int \X Int)
         /\ global_plan # <<>> => /\ plan # <<>> /\ Len(global_plan) \in Nat \ {0}
                                  /\ global_plan[Len(global_plan)] = plan[Len(plan)]
  <1>1. plan \in Seq(Int \X Int)
    BY PlanAssumption DEF PlanAssumption, Typed
  <1>2. CASE global_plan = <<>>
    BY <1>2
  <1>3. CASE \E k \in 1..Len(plan) : global_plan = SubSeq(plan, k, Len(plan))
    <2>1. PICK k \in 1..Len(plan) : global_plan = SubSeq(plan, k, Len(plan))
      BY <1>3
    <2>2. /\ global_plan \in Seq(Int \X Int) /\ Len(global_plan) = Len(plan) - k + 1
          /\ \A i \in 1..(Len(plan) - k + 1) : global_plan[i] = plan[k + i - 1]
      <3>1. k \in Int /\ Len(plan) \in Int /\ k <= Len(plan)
        BY <1>1
      <3>2. \A i \in k..Len(plan) : plan[i] \in Int \X Int
        BY <1>1
      <3> QED BY <2>1, <3>1, <3>2, SubSeqProperties
    <2>3. Len(plan) \in Nat \ {0} /\ Len(plan) - k + 1 \in 1..(Len(plan) - k + 1)
      BY <1>1
    <2>4. global_plan[Len(plan) - k + 1] = plan[k + (Len(plan) - k + 1) - 1]
      BY <2>2, <2>3
    <2>5. k + (Len(plan) - k + 1) - 1 = Len(plan)
      BY <2>3
    <2>6. plan # <<>>
      BY <2>3
    <2>7. global_plan[Len(global_plan)] = plan[Len(plan)]
      BY <2>2, <2>4, <2>5
    <2> QED BY <2>2, <2>3, <2>6, <2>7
  <1> QED BY <1>2, <1>3 DEF PlanIsSuffix

(* Pruning leaves a suffix of the plan.                                    *)
LEMMA RemainingIsSuffix ==
  ASSUME Typed, PlanIsSuffix, global_plan' = Remaining, plan' = plan
  PROVE  PlanIsSuffix'
  <1>1. CASE NearRobot = {}
    BY <1>1 DEF Remaining, PlanIsSuffix
  <1>2. CASE NearRobot # {}
    <2>1. global_plan \in Seq(Int \X Int) /\ plan \in Seq(Int \X Int)
      BY PlanLeft, PlanAssumption DEF PlanAssumption, Typed
    <2>2. NearRobot \subseteq 1..Len(global_plan)
      BY <2>1 DEF NearRobot, Indices
    <2>3. Min(NearRobot) \in 1..Len(global_plan)
      <3>1. NearRobot \subseteq Nat
        BY <2>2
      <3>2. Min(NearRobot) \in NearRobot
        BY <1>2, <3>1, MinOfNats
      <3> QED BY <2>2, <3>2
    <2>4. PICK k \in 1..Len(plan) : global_plan = SubSeq(plan, k, Len(plan))
      BY <2>1, <2>3 DEF PlanIsSuffix
    <2>5. /\ k + Min(NearRobot) - 1 \in 1..Len(plan)
          /\ global_plan' = SubSeq(plan, k + Min(NearRobot) - 1, Len(plan))
      BY <1>2, <2>1, <2>3, <2>4, SuffixOfSuffix DEF Remaining
    <2> QED BY <2>5 DEF PlanIsSuffix
  <1> QED BY <1>1, <1>2

-----------------------------------------------------------------------------
(* The search for the closest pose                                         *)

LEMMA SqDistInt ==
  ASSUME NEW p \in Int \X Int, NEW q \in Int \X Int
  PROVE  SqDist(p, q) \in Int
  <1>1. \A a, b \in Int : (a - b) * (a - b) \in Int
    OBVIOUS
  <1>2. \A a, b \in Int : a + b \in Int
    OBVIOUS
  <1>3. p[1] \in Int /\ p[2] \in Int /\ q[1] \in Int /\ q[2] \in Int
    OBVIOUS
  <1> QED BY <1>1, <1>2, <1>3, Zenon DEF SqDist

(* The first m poses of plan p lie within the costmap.                     *)
Within(p, m) == \A k \in 1..m : SqDist(robot, p[k]) <= ReachSq

(* Pose c is the first of the closest poses among the first m.             *)
FirstLeast(p, c, m) ==
    /\ c \in 1..m
    /\ \A k \in 1..m : SqDist(robot, p[c]) <= SqDist(robot, p[k])
    /\ \A k \in 1..(c - 1) : SqDist(robot, p[c]) < SqDist(robot, p[k])

Best(p, c, m) == IF m = 0 THEN c = 0 ELSE FirstLeast(p, c, m)

(* What a search that looked at m poses of plan p has to find.             *)
SearchResult(p, c, m) ==
    /\ m \in 0..Len(p)
    /\ Within(p, m)
    /\ m = Len(p) \/ SqDist(robot, p[m + 1]) > ReachSq
    /\ Best(p, c, m)

(* The loop unrolled once: from pose j, with at the closest pose so far.   *)
Unrolls(f, p, n) ==
    \A j \in 1..(n + 1) : \A at \in 0..n :
        f[j][at] = IF j > n \/ SqDist(robot, p[j]) > ReachSq THEN at
                   ELSE f[j + 1][Nearer(p, at, j)]

LEMMA Thresholds == ReachSq \in Int /\ PruneSq \in Int
  BY PlanAssumption DEF PlanAssumption

LEMMA PlanDistance ==
  ASSUME robot \in Positions, NEW p \in Seq(Int \X Int), NEW j \in 1..Len(p)
  PROVE  SqDist(robot, p[j]) \in Int
  <1>1. robot \in Int \X Int /\ p[j] \in Int \X Int
    BY PlanAssumption DEF PlanAssumption
  <1> QED BY <1>1, SqDistInt

(* The recursive function of Closest exists: it is built from the end of   *)
(* the plan.                                                               *)
LEMMA SearchUnrolls ==
  ASSUME NEW p, NEW n \in Nat, n = Len(p)
  PROVE  \E f : Closest(p) = f[1][0] /\ Unrolls(f, p, n)
  <1> DEFINE Pass(j, after) ==
                 [at \in 0..n |->
                    IF j > n \/ SqDist(robot, p[j]) > ReachSq THEN at ELSE after[Nearer(p, at, j)]]
             Rhs(g) == [j \in 1..(n + 1) |-> Pass(j, g[j + 1])]
             search == CHOOSE g : g = [j \in 1..(Len(p) + 1) |->
                          [at \in 0..Len(p) |->
                             IF j > Len(p) \/ SqDist(robot, p[j]) > ReachSq THEN at
                             ELSE g[j + 1][Nearer(p, at, j)]]]
             T    == [0..n -> 0..n]
             last == [at \in 0..n |-> at]
             step == [q \in (0..n) \X T |-> Pass(n + 1 - q[1], q[2])]
  <1>1. Closest(p) = search[1][0]
    BY DEF Closest
  <1>2. search = CHOOSE g : g = Rhs(g)
    OBVIOUS
  <1>3. ASSUME NEW j \in 1..n, NEW after \in T PROVE Pass(j, after) \in T
    <2>1. \A at \in 0..n : Nearer(p, at, j) \in 0..n
      BY DEF Nearer
    <2> QED BY <2>1
  <1>4. ASSUME NEW after PROVE Pass(n + 1, after) = last
    OBVIOUS
  <1> HIDE DEF Pass, T, search
  <1>5. ASSUME NEW i \in (0..n) \ {0}, NEW c \in T
        PROVE  step[<<i, c>>] = Pass(n + 1 - i, c) /\ step[<<i, c>>] \in T
    <2>1. n + 1 - i \in 1..n
      OBVIOUS
    <2> QED BY <1>3, <2>1
  <1>6. PICK g : Follows(g, T, 0, n, last, step)
    <2>1. StaysIn(T, 0, n, step)
      <3> HIDE DEF step
      <3> QED BY <1>5 DEF StaysIn
    <2>2. last \in T
      BY DEF T
    <2> HIDE DEF step, last
    <2> QED BY <2>1, <2>2, Recursion
  <1> DEFINE h == [j \in 1..(n + 1) |-> g[n + 1 - j]]
  <1>7. h = Rhs(h)
    <2> SUFFICES ASSUME NEW j \in 1..(n + 1) PROVE h[j] = Pass(j, h[j + 1])
      OBVIOUS
    <2>1. CASE j = n + 1
      <3>1. h[j] = g[0]
        BY <2>1
      <3>2. g[0] = last
        BY <1>6 DEF Follows
      <3> HIDE DEF h, last
      <3> QED BY <2>1, <3>1, <3>2, <1>4
    <2>2. CASE j # n + 1
      <3>1. /\ n + 1 - j \in (0..n) \ {0} /\ (n + 1 - j) - 1 \in 0..n
            /\ n + 1 - (n + 1 - j) = j
        BY <2>2
      <3>2. h[j + 1] = g[(n + 1 - j) - 1] /\ h[j] = g[n + 1 - j]
        <4>1. j + 1 \in 1..(n + 1) /\ n + 1 - (j + 1) = (n + 1 - j) - 1
          BY <2>2
        <4> QED BY <4>1
      <3> HIDE DEF h, step
      <3>3. g[(n + 1 - j) - 1] \in T /\ g[n + 1 - j] = step[<<n + 1 - j, g[(n + 1 - j) - 1]>>]
        BY <1>6, <3>1 DEF Follows
      <3>4. g[n + 1 - j] = Pass(n + 1 - (n + 1 - j), g[(n + 1 - j) - 1])
        BY <1>5, <3>1, <3>3
      <3> QED BY <3>1, <3>2, <3>4
    <2> QED BY <2>1, <2>2
  <1>8. search = Rhs(search)
    <2> HIDE DEF h, Rhs
    <2> QED BY <1>2, <1>7
  <1>9. Unrolls(search, p, n)
    <2> SUFFICES ASSUME NEW j \in 1..(n + 1), NEW at \in 0..n
                 PROVE  search[j][at] = IF j > n \/ SqDist(robot, p[j]) > ReachSq THEN at
                                        ELSE search[j + 1][Nearer(p, at, j)]
      BY Zenon DEF Unrolls
    <2>1. search[j] = Pass(j, search[j + 1])
      <3> HIDE DEF step, last, h
      <3> QED BY <1>8, Zenon
    <2>2. Pass(j, search[j + 1])[at] = IF j > n \/ SqDist(robot, p[j]) > ReachSq THEN at
                                       ELSE search[j + 1][Nearer(p, at, j)]
      <3> HIDE DEF Rhs, step, last, h
      <3> QED BY Zenon DEF Pass
    <2> QED BY <2>1, <2>2, Zenon
  <1> QED BY <1>1, <1>9

(* A look at pose j keeps the first of the closest poses.                  *)
LEMMA NearerBest ==
  ASSUME robot \in Positions, NEW p \in Seq(Int \X Int), NEW j \in 1..Len(p),
         NEW at, Best(p, at, j - 1)
  PROVE  Best(p, Nearer(p, at, j), j)
  <1>1. \A k \in 1..j : SqDist(robot, p[k]) \in Int
    <2>1. 1..j \subseteq 1..Len(p)
      OBVIOUS
    <2> QED BY <2>1, PlanDistance
  <1>2. CASE j = 1
    BY <1>1, <1>2 DEF Best, FirstLeast, Nearer
  <1>3. CASE j # 1
    <2>1. j - 1 # 0 /\ FirstLeast(p, at, j - 1) /\ at \in 1..(j - 1)
      BY <1>3 DEF Best, FirstLeast
    <2>2. FirstLeast(p, Nearer(p, at, j), j)
      <3>1. CASE SqDist(robot, p[j]) < SqDist(robot, p[at])
        <4>1. Nearer(p, at, j) = j
          BY <3>1 DEF Nearer
        <4>2. ASSUME NEW k \in 1..(j - 1) PROVE SqDist(robot, p[j]) < SqDist(robot, p[k])
          <5>1. SqDist(robot, p[at]) <= SqDist(robot, p[k])
            BY <2>1, Zenon DEF FirstLeast
          <5>2. /\ SqDist(robot, p[k]) \in Int /\ SqDist(robot, p[j]) \in Int
                /\ SqDist(robot, p[at]) \in Int
            <6>1. at \in 1..j /\ k \in 1..j /\ j \in 1..j
              BY <2>1
            <6> QED BY <1>1, <6>1, Zenon
          <5> QED BY <3>1, <5>1, <5>2
        <4>3. ASSUME NEW k \in 1..j PROVE SqDist(robot, p[j]) <= SqDist(robot, p[k])
          <5>1. /\ k = j \/ k \in 1..(j - 1)
                /\ SqDist(robot, p[k]) \in Int /\ SqDist(robot, p[j]) \in Int
            <6>1. j \in 1..j /\ (k = j \/ k \in 1..(j - 1))
              OBVIOUS
            <6> QED BY <1>1, <6>1, Zenon
          <5> QED BY <4>2, <5>1
        <4> QED BY <4>1, <4>2, <4>3 DEF FirstLeast
      <3>2. CASE ~ (SqDist(robot, p[j]) < SqDist(robot, p[at]))
        <4>1. Nearer(p, at, j) = at
          BY <2>1, <3>2 DEF Nearer
        <4>2. ASSUME NEW k \in 1..j PROVE SqDist(robot, p[at]) <= SqDist(robot, p[k])
          <5>1. /\ k = j \/ k \in 1..(j - 1)
                /\ SqDist(robot, p[k]) \in Int /\ SqDist(robot, p[at]) \in Int
            <6>1. at \in 1..j /\ (k = j \/ k \in 1..(j - 1))
              BY <2>1
            <6> QED BY <1>1, <6>1, Zenon
          <5>2. CASE k = j
            BY <3>2, <5>1, <5>2
          <5>3. CASE k \in 1..(j - 1)
            BY <2>1, <5>3, Zenon DEF FirstLeast
          <5> QED BY <5>1, <5>2, <5>3
        <4>3. at \in 1..j /\ \A k \in 1..(at - 1) : SqDist(robot, p[at]) < SqDist(robot, p[k])
          BY <2>1 DEF FirstLeast
        <4> QED BY <4>1, <4>2, <4>3 DEF FirstLeast
      <3> QED BY <3>1, <3>2
    <2> QED BY <1>3, <2>2 DEF Best
  <1> QED BY <1>2, <1>3

(* The search of transformGlobalPlan finds the first of the closest poses  *)
(* before the border of the costmap, and none if there is none.            *)
LEMMA SearchEnds ==
  ASSUME robot \in Positions, NEW p \in Seq(Int \X Int)
  PROVE  \E m : SearchResult(p, Closest(p), m)
  <1> DEFINE n == Len(p)
             c == Closest(p)
             Standing(j, at) == at \in 0..n /\ Within(p, j - 1) /\ Best(p, at, j - 1)
             Done == \E m : SearchResult(p, c, m)
  <1>1. n \in Nat
    OBVIOUS
  <1>2. PICK f : c = f[1][0] /\ Unrolls(f, p, n)
    <2> HIDE DEF c, n
    <2> QED BY <1>1, SearchUnrolls DEF c, n
  <1> DEFINE S == {j \in 1..(n + 1) : Done \/ \E at : Standing(j, at) /\ f[j][at] = c}
  <1>3. 1 \in S
    <2>1. Standing(1, 0)
      BY DEF Within, Best
    <2> QED BY <1>1, <1>2, <2>1
  <1>4. ASSUME NEW j \in 1..n, j \in S PROVE j + 1 \in S
    <2>1. CASE Done
      BY <2>1
    <2>2. CASE ~ Done
      <3>1. PICK at : Standing(j, at) /\ f[j][at] = c
        BY <2>2, <1>4
      <3>2. f[j][at] = IF j > n \/ SqDist(robot, p[j]) > ReachSq THEN at
                       ELSE f[j + 1][Nearer(p, at, j)]
        <4>1. j \in 1..(n + 1) /\ at \in 0..n
          BY <3>1 DEF Standing
        <4> HIDE DEF n
        <4> QED BY <1>2, <4>1, Zenon DEF Unrolls
      <3>3. CASE SqDist(robot, p[j]) > ReachSq
        <4>1. c = at /\ j - 1 \in 0..n /\ (j - 1) + 1 = j
          BY <3>1, <3>2, <3>3
        <4>2. SearchResult(p, c, j - 1)
          BY <3>1, <3>3, <4>1 DEF SearchResult, Standing
        <4> QED BY <2>2, <4>2
      <3>4. CASE ~ (SqDist(robot, p[j]) > ReachSq)
        <4>1. ~ (j > n)
          OBVIOUS
        <4>2. c = f[j + 1][Nearer(p, at, j)]
          BY <3>1, <3>2, <3>4, <4>1
        <4>3. SqDist(robot, p[j]) <= ReachSq
          BY <3>4, PlanDistance, Thresholds
        <4>4. Within(p, j)
          <5> SUFFICES ASSUME NEW k \in 1..j PROVE SqDist(robot, p[k]) <= ReachSq
            BY DEF Within
          <5>1. k = j \/ k \in 1..(j - 1)
            OBVIOUS
          <5> QED BY <3>1, <4>3, <5>1 DEF Within, Standing
        <4>5. Best(p, Nearer(p, at, j), j)
          BY <3>1, NearerBest DEF Standing
        <4>6. Nearer(p, at, j) \in 0..n /\ (j + 1) - 1 = j
          BY <3>1 DEF Nearer, Standing
        <4>7. Standing(j + 1, Nearer(p, at, j))
          BY <4>4, <4>5, <4>6 DEF Standing
        <4> HIDE DEF Standing, Done, c
        <4>8. j + 1 \in 1..(n + 1)
          OBVIOUS
        <4> QED BY <4>2, <4>7, <4>8
      <3> QED BY <3>3, <3>4
    <2> QED BY <2>1, <2>2
  <1>5. n + 1 \in S
    <2> HIDE DEF S, n
    <2>1. (n + 1) - 1 = n /\ n + 1 \in Int
      BY <1>1
    <2>2. \A j \in 1..((n + 1) - 1) : j \in S => j + 1 \in S
      BY <1>4, <2>1, Zenon
    <2>3. \A j \in 1..(n + 1) : j \in S
      <3>1. 1 \in Int
        OBVIOUS
      <3> QED BY <1>3, <2>1, <2>2, <3>1, IntervalInduction, Zenon
    <2> QED BY <1>1, <2>3
  <1>6. CASE Done
    BY <1>6
  <1>7. CASE ~ Done
    <2>1. PICK at : Standing(n + 1, at) /\ f[n + 1][at] = c
      BY <1>5, <1>7
    <2>2. c = at
      <3>1. n + 1 \in 1..(n + 1) /\ n + 1 > n
        BY <1>1
      <3> QED BY <1>2, <2>1, <3>1 DEF Unrolls, Standing
    <2>3. SearchResult(p, c, n)
      <3>1. (n + 1) - 1 = n /\ n \in 0..Len(p)
        BY <1>1
      <3> QED BY <2>1, <2>2, <3>1 DEF SearchResult, Standing
    <2> QED BY <2>3
  <1> QED BY <1>6, <1>7

(* The poses the search looked at are those before the border.             *)
LEMMA SearchedPoses ==
  ASSUME robot \in Positions, global_plan \in Seq(Int \X Int), NEW c, NEW m,
         SearchResult(global_plan, c, m)
  PROVE  BeforeBorder = 1..m
  <1>1. m \in 0..Len(global_plan) /\ Len(global_plan) \in Nat /\ Indices = 1..Len(global_plan)
    BY DEF SearchResult, Indices
  <1>2. ASSUME NEW j \in BeforeBorder PROVE j \in 1..m
    <2>1. j \in 1..Len(global_plan) /\ \A k \in 1..j : SqDist(robot, global_plan[k]) <= ReachSq
      BY <1>1 DEF BeforeBorder, FromRobot
    <2> SUFFICES ASSUME m < j PROVE FALSE
      BY <1>1, <2>1
    <2>2. m + 1 \in 1..j /\ m + 1 \in 1..Len(global_plan) /\ m # Len(global_plan)
      BY <1>1, <2>1
    <2>3. SqDist(robot, global_plan[m + 1]) > ReachSq
      BY <2>2 DEF SearchResult
    <2>4. SqDist(robot, global_plan[m + 1]) \in Int
      BY <2>2, PlanDistance
    <2>5. SqDist(robot, global_plan[m + 1]) <= ReachSq
      BY <2>1, <2>2
    <2> QED BY <2>3, <2>4, <2>5, Thresholds
  <1>3. ASSUME NEW j \in 1..m PROVE j \in BeforeBorder
    <2>1. j \in Indices /\ 1..j \subseteq 1..m
      BY <1>1
    <2> QED BY <2>1 DEF SearchResult, Within, BeforeBorder, FromRobot
  <1> QED BY <1>2, <1>3

-----------------------------------------------------------------------------
(* The local plan                                                          *)

(* The loop of transformGlobalPlan stops within the plan, and at the first *)
(* pose that gives it a reason to.                                         *)
LEMMA LastFromStops ==
  ASSUME global_plan \in Seq(Int \X Int), NEW i \in 1..Len(global_plan)
  PROVE  /\ LastFrom(i) \in i..Len(global_plan)
         /\ \A j \in i..(LastFrom(i) - 1) :
               ~ FromRobot(j) > ReachSq /\ ~ (MaxLength > 0 /\ PlanLength(global_plan, i, j) > MaxLength)
  <1> DEFINE stop(j) == \/ j = Len(global_plan)
                        \/ FromRobot(j) > ReachSq
                        \/ MaxLength > 0 /\ PlanLength(global_plan, i, j) > MaxLength
             S == {j \in i..Len(global_plan) : stop(j)}
  <1>1. S \subseteq Nat /\ Len(global_plan) \in S
    OBVIOUS
  <1>2. Min(S) \in S /\ \A k \in S : Min(S) <= k
    BY <1>1, MinOfNats
  <1>3. LastFrom(i) = Min(S)
    BY DEF LastFrom
  <1>4. ASSUME NEW j \in i..(LastFrom(i) - 1) PROVE ~ stop(j)
    <2>1. j \in i..Len(global_plan) /\ ~ (LastFrom(i) <= j)
      <3>1. LastFrom(i) \in i..Len(global_plan)
        BY <1>2, <1>3
      <3> QED BY <3>1, <1>4
    <2>2. j \notin S
      BY <1>2, <1>3, <2>1
    <2> QED BY <2>1, <2>2
  <1> QED BY <1>2, <1>3, <1>4

(* Distances from the robot are natural numbers.                           *)
LEMMA DistanceNat ==
  ASSUME robot \in Positions, global_plan \in Seq(Int \X Int), NEW j \in 1..Len(global_plan)
  PROVE  FromRobot(j) \in Int
  <1>1. robot \in Int \X Int /\ global_plan[j] \in Int \X Int
    BY PlanAssumption DEF PlanAssumption
  <1>2. \A a, b \in Int : (a - b) * (a - b) \in Int
    OBVIOUS
  <1>3. \A a, b \in Int : a + b \in Int
    OBVIOUS
  <1>4. /\ robot[1] \in Int /\ robot[2] \in Int
        /\ global_plan[j][1] \in Int /\ global_plan[j][2] \in Int
    BY <1>1
  <1> QED BY <1>2, <1>3, <1>4, Zenon DEF FromRobot, SqDist

(* The local plan is cut out of the plan: it is not empty, it keeps to the *)
(* window, and it starts at the closest pose.                              *)
LEMMA LocalPlanOf ==
  ASSUME Typed, PlanIsSuffix, global_plan # <<>>, NEW l, l = LocalPlan
  PROVE  /\ l \in [first : Nat, last : Nat]
         /\ 1 <= l.first /\ l.first <= l.last /\ l.last <= Len(global_plan)
         /\ \A j \in l.first..(l.last - 1) :
               /\ FromRobot(j) <= ReachSq
               /\ MaxLength > 0 => ~ PlanLength(global_plan, l.first, j) > MaxLength
         /\ BeforeBorder # {} =>
               /\ l.first \in BeforeBorder
               /\ \A j \in BeforeBorder : FromRobot(l.first) <= FromRobot(j)
               /\ \A j \in 1..(l.first - 1) : FromRobot(l.first) < FromRobot(j)
  <1> DEFINE i == Closest(global_plan)
  <1>1. global_plan \in Seq(Int \X Int) /\ Len(global_plan) \in Nat \ {0}
    BY PlanLeft
  <1>2. PICK m : SearchResult(global_plan, i, m)
    BY <1>1, SearchEnds DEF Typed
  <1>3. BeforeBorder = 1..m /\ m \in 0..Len(global_plan)
    BY <1>1, <1>2, SearchedPoses DEF Typed, SearchResult
  <1>4. CASE m = 0
    <2>1. l = [first |-> Len(global_plan), last |-> Len(global_plan)]
      BY <1>2, <1>4 DEF LocalPlan, SearchResult, Best
    <2>2. BeforeBorder = {}
      BY <1>3, <1>4
    <2> QED BY <1>1, <2>1, <2>2
  <1>5. CASE m # 0
    <2>1. FirstLeast(global_plan, i, m) /\ i \in 1..Len(global_plan) /\ i # 0
      BY <1>2, <1>3, <1>5 DEF SearchResult, Best, FirstLeast
    <2>2. l = [first |-> i, last |-> LastFrom(i)]
      BY <2>1 DEF LocalPlan
    <2> HIDE DEF i
    <2>3. /\ i \in BeforeBorder
          /\ \A j \in BeforeBorder : FromRobot(i) <= FromRobot(j)
          /\ \A j \in 1..(i - 1) : FromRobot(i) < FromRobot(j)
      BY <1>3, <2>1 DEF FirstLeast, FromRobot
    <2>4. /\ LastFrom(i) \in i..Len(global_plan)
          /\ \A j \in i..(LastFrom(i) - 1) :
                ~ FromRobot(j) > ReachSq /\ ~ (MaxLength > 0 /\ PlanLength(global_plan, i, j) > MaxLength)
      BY <1>1, <2>1, LastFromStops
    <2>5. ASSUME NEW j \in i..(LastFrom(i) - 1) PROVE FromRobot(j) <= ReachSq
      <3>1. j \in 1..Len(global_plan)
        BY <1>1, <2>1, <2>4
      <3>2. FromRobot(j) \in Int
        BY <1>1, <3>1, DistanceNat DEF Typed
      <3> QED BY <2>4, <3>2, PlanAssumption DEF PlanAssumption
    <2> QED BY <1>1, <2>1, <2>2, <2>3, <2>4, <2>5
  <1> QED BY <1>4, <1>5

-----------------------------------------------------------------------------
(* A pose within the plan has its heading taken from poses of the plan.    *)
LEMMA HeadingInPlan ==
  ASSUME NEW n \in Nat \ {0}, Len(global_plan) = n, NEW g \in 1..n
  PROVE  HeadingFrom(g) # {} /\ HeadingFrom(g) \subseteq 1..n
  <1>1. CASE g >= n
    BY <1>1 DEF HeadingFrom
  <1>2. CASE ~ (g >= n) /\ g > n - MovingAverage - 1
    BY <1>2, PlanAssumption DEF PlanAssumption, HeadingFrom
  <1>3. CASE ~ (g >= n) /\ ~ (g > n - MovingAverage - 1)
    <2>1. MovingAverage \in Nat \ {0}
      BY PlanAssumption DEF PlanAssumption
    <2>2. Min({g + MovingAverage, n}) \in {g + MovingAverage, n}
      <3>1. {g + MovingAverage, n} \subseteq Nat /\ {g + MovingAverage, n} # {}
        BY <2>1
      <3> QED BY <3>1, MinOfNats
    <2>3. HeadingFrom(g) = (g + 1)..Min({g + MovingAverage, n})
      BY <1>3 DEF HeadingFrom
    <2>4. Min({g + MovingAverage, n}) \in (g + 1)..n
      <3>1. g + MovingAverage \in (g + 1)..n /\ n \in (g + 1)..n
        BY <1>3, <2>1
      <3> QED BY <2>2, <3>1
    <2>5. g + 1 \in HeadingFrom(g)
      BY <2>3, <2>4
    <2>6. ASSUME NEW m \in (g + 1)..n PROVE (g + 1)..m \subseteq 1..n
      BY <2>6
    <2>7. HeadingFrom(g) \subseteq 1..n
      BY <2>3, <2>4, <2>6, Zenon
    <2> QED BY <2>5, <2>7, Zenon
  <1> QED BY <1>1, <1>2, <1>3

(* The empty plan of a new planner satisfies the invariant.                *)
LEMMA InitIInv == Init => IInv
  <1> SUFFICES ASSUME Init PROVE IInv
    OBVIOUS
  <1> QED
    BY PlanAssumption DEF PlanAssumption, Init, NoLocal, IInv, Typed, PlanIsSuffix,
       LocalPlanInWindow, StartsAtClosest, HeadingFromPlan

(* An action that keeps robot and plan and leaves computeVelocityCommands  *)
(* keeps the invariant.                                                    *)
LEMMA LeaveCall ==
  ASSUME IInv, pc' = "idle", UNCHANGED <<plan, global_plan, local>>, robot' \in Positions
  PROVE  IInv'
  BY DEF IInv, Typed, PlanIsSuffix, LocalPlanInWindow, StartsAtClosest, HeadingFromPlan

(* What the local plan promises depends on the robot and the plan only.    *)
LEMMA SamePlan ==
  ASSUME UNCHANGED <<robot, global_plan>>
  PROVE  /\ BeforeBorder' = BeforeBorder
         /\ \A j : FromRobot(j)' = FromRobot(j)
         /\ \A i, j : PlanLength(global_plan', i, j) = PlanLength(global_plan, i, j)
         /\ Indices' = Indices
  <1>1. ASSUME NEW j PROVE FromRobot(j)' = FromRobot(j)
    BY DEF FromRobot
  <1>2. Indices' = Indices
    BY DEF Indices
  <1>3. BeforeBorder' = BeforeBorder
    BY DEF BeforeBorder, Indices, FromRobot
  <1> QED BY <1>1, <1>2, <1>3

(* Every step keeps the invariant.                                         *)
LEMMA NextIInv == IInv /\ [Next]_vars => IInv'
  <1> SUFFICES ASSUME IInv, [Next]_vars PROVE IInv'
    OBVIOUS
  <1> USE DEF callVars
  <1>1. CASE SetPlan
    <2>1. plan' \in Seq(Int \X Int) /\ plan' \in Plans
      BY <1>1, PlanAssumption DEF PlanAssumption, SetPlan
    <2>2. PlanIsSuffix'
      <3>1. CASE plan' = <<>>
        BY <1>1, <3>1 DEF SetPlan, PlanIsSuffix
      <3>2. CASE plan' # <<>>
        <4>1. 1 \in 1..Len(plan')
          BY <2>1, <3>2
        <4>2. plan' = SubSeq(plan', 1, Len(plan'))
          BY <2>1, SubSeqFull
        <4> QED BY <1>1, <4>1, <4>2, Zenon DEF SetPlan, PlanIsSuffix
      <3> QED BY <3>1, <3>2
    <2> QED
      BY <1>1, <2>1, <2>2 DEF SetPlan, IInv, Typed, LocalPlanInWindow, StartsAtClosest,
         HeadingFromPlan
  <1>2. CASE Move
    BY <1>2, LeaveCall DEF Move
  <1>3. CASE Prune
    <2>1. PlanIsSuffix'
      <3>1. CASE global_plan' = Remaining
        BY <1>3, <3>1, RemainingIsSuffix DEF Prune, IInv
      <3>2. CASE global_plan' = global_plan
        BY <1>3, <3>2 DEF Prune, IInv, PlanIsSuffix
      <3> QED BY <1>3, <3>1, <3>2 DEF Prune
    <2> QED
      BY <1>3, <2>1 DEF Prune, IInv, Typed, LocalPlanInWindow, StartsAtClosest, HeadingFromPlan
  <1>4. CASE TransformFails
    BY <1>4, LeaveCall DEF TransformFails, IInv, Typed
  <1>5. CASE Transform
    <2>1. PICK l : l = LocalPlan /\ local' = l
      BY <1>5 DEF Transform
    <2>2. /\ pc' = "transformed" /\ global_plan # <<>>
          /\ UNCHANGED <<robot, plan, global_plan, heading_from>>
      BY <1>5 DEF Transform
    <2>3. /\ l \in [first : Nat, last : Nat]
          /\ 1 <= l.first /\ l.first <= l.last /\ l.last <= Len(global_plan)
          /\ \A j \in l.first..(l.last - 1) :
                /\ FromRobot(j) <= ReachSq
                /\ MaxLength > 0 => ~ (PlanLength(global_plan, l.first, j) > MaxLength)
          /\ BeforeBorder # {} =>
                /\ l.first \in BeforeBorder
                /\ \A j \in BeforeBorder : FromRobot(l.first) <= FromRobot(j)
                /\ \A j \in 1..(l.first - 1) : FromRobot(l.first) < FromRobot(j)
      BY <2>1, <2>2, LocalPlanOf DEF IInv
    <2>4. Typed' /\ PlanIsSuffix' /\ HeadingFromPlan'
      BY <2>1, <2>2, <2>3 DEF IInv, Typed, PlanIsSuffix, HeadingFromPlan
    <2>5. LocalPlanInWindow'
      BY <2>1, <2>2, <2>3, SamePlan, Zenon DEF LocalPlanInWindow
    <2>6. StartsAtClosest'
      BY <2>1, <2>2, <2>3, SamePlan, Zenon DEF StartsAtClosest
    <2> QED BY <2>4, <2>5, <2>6 DEF IInv
  <1>6. CASE GoalReached
    BY <1>6, LeaveCall DEF GoalReached, IInv, Typed
  <1>7. CASE GoalNotReached
    <2>1. /\ pc = "transformed" /\ pc' = "optimise"
          /\ UNCHANGED <<robot, plan, global_plan, local>>
          /\ heading_from' = HeadingFrom(local.last)
      BY <1>7 DEF GoalNotReached
    <2>2. Typed' /\ PlanIsSuffix' /\ LocalPlanInWindow' /\ StartsAtClosest'
      <3>1. Typed' /\ PlanIsSuffix'
        BY <2>1 DEF IInv, Typed, PlanIsSuffix
      <3>2. LocalPlanInWindow /\ StartsAtClosest
        BY DEF IInv
      <3>3. LocalPlanInWindow'
        BY <2>1, <3>2, SamePlan, Zenon DEF LocalPlanInWindow
      <3>4. StartsAtClosest'
        BY <2>1, <3>2, SamePlan, Zenon DEF StartsAtClosest
      <3> QED BY <3>1, <3>3, <3>4
    <2>3. HeadingFromPlan'
      <3>1. global_plan \in Seq(Int \X Int)
        BY PlanLeft DEF IInv
      <3>2. local.first \in Nat /\ local.last \in Nat
        BY DEF IInv, Typed
      <3>3. Len(global_plan) \in Nat \ {0} /\ local.last \in 1..Len(global_plan)
        BY <2>1, <3>1, <3>2 DEF IInv, LocalPlanInWindow
      <3>4. /\ HeadingFrom(local.last) # {}
            /\ HeadingFrom(local.last) \subseteq 1..Len(global_plan)
        BY <3>3, HeadingInPlan
      <3> QED BY <2>1, <3>1, <3>4 DEF HeadingFromPlan, Indices
    <2> QED BY <2>2, <2>3 DEF IInv
  <1>8. CASE EndCall
    BY <1>8, LeaveCall DEF EndCall, IInv, Typed
  <1>9. CASE UNCHANGED vars
    <2>1. UNCHANGED <<pc, robot, plan, global_plan, local, heading_from>>
      BY <1>9 DEF vars
    <2>2. Typed' /\ PlanIsSuffix' /\ HeadingFromPlan'
      BY <2>1 DEF IInv, Typed, PlanIsSuffix, HeadingFromPlan, Indices
    <2>3. LocalPlanInWindow'
      BY <2>1, SamePlan, Zenon DEF IInv, LocalPlanInWindow
    <2>4. StartsAtClosest'
      BY <2>1, SamePlan, Zenon DEF IInv, StartsAtClosest
    <2> QED BY <2>2, <2>3, <2>4 DEF IInv
  <1> QED
    BY <1>1, <1>2, <1>3, <1>4, <1>5, <1>6, <1>7, <1>8, <1>9 DEF Next

-----------------------------------------------------------------------------
(* IInv, the inductive invariant, holds in every reachable state.          *)
THEOREM Invariance == Spec => []IInv
  <1> QED BY InitIInv, NextIInv, PTL DEF Spec

(* Pruning never loses the goal or a part of the way to it.                *)
THEOREM GoalNeverPruned == Spec => []PlanIsSuffix
  <1>1. IInv => PlanIsSuffix
    BY DEF IInv
  <1> QED BY <1>1, Invariance, PTL

(* The local plan is never empty, lies in the plan and keeps to costmap    *)
(* and lookahead: INVALID_PATH is never returned.                          *)
THEOREM LocalPlanNeverEmpty == Spec => []LocalPlanInWindow
  <1>1. IInv => LocalPlanInWindow
    BY DEF IInv
  <1> QED BY <1>1, Invariance, PTL

(* The search with its break finds the first of the closest poses before   *)
(* the border: the local plan takes no shortcut over a part beyond it.     *)
THEOREM NoShortcut == Spec => []StartsAtClosest
  <1>1. IInv => StartsAtClosest
    BY DEF IInv
  <1> QED BY <1>1, Invariance, PTL

(* estimateLocalGoalOrientation reads poses the plan has, and at least one.*)
THEOREM HeadingDefined == Spec => []HeadingFromPlan
  <1>1. IInv => HeadingFromPlan
    BY DEF IInv
  <1> QED BY <1>1, Invariance, PTL

(* Pruning or not, the goal check looks at the last pose that was set.     *)
THEOREM GoalChecked == Spec => GoalIsPlanEnd
  <1>1. ASSUME IInv, [Next]_vars, ~ goal_reached, goal_reached'
        PROVE  SqDist(robot, plan[Len(plan)]) < ToleranceSq
    <2>1. GoalReached
      BY <1>1 DEF Next, vars, callVars, SetPlan, Move, Prune, TransformFails, Transform,
         GoalNotReached, EndCall
    <2>2. global_plan # <<>>
      <3>1. local.first \in Nat /\ local.last \in Nat
        BY <1>1 DEF IInv, Typed
      <3>2. 1 <= Len(global_plan)
        <4>1. Len(global_plan) \in Nat
          BY <1>1, PlanLeft DEF IInv
        <4> QED BY <1>1, <2>1, <3>1, <4>1 DEF GoalReached, IInv, LocalPlanInWindow
      <3> QED BY <3>2
    <2>3. global_plan[Len(global_plan)] = plan[Len(plan)]
      BY <1>1, <2>2, PlanLeft DEF IInv
    <2> QED BY <2>1, <2>3 DEF GoalReached, AtGoal, FromRobot
  <1>2. IInv /\ [Next]_vars
          => [(~ goal_reached /\ goal_reached') => SqDist(robot, plan[Len(plan)]) < ToleranceSq]_vars
    BY <1>1
  <1> QED BY <1>2, Invariance, PTL DEF Spec, GoalIsPlanEnd

-----------------------------------------------------------------------------
(* Pruning against the search                                              *)

(* A search finds a pose no farther away than any before the border.       *)
LEMMA FindsAsClose ==
  ASSUME robot \in Positions, NEW q \in Seq(Int \X Int), NEW b \in 1..Len(q), Within(q, b)
  PROVE  Closest(q) # 0 /\ SqDist(robot, q[Closest(q)]) <= SqDist(robot, q[b])
  <1>1. PICK m : SearchResult(q, Closest(q), m)
    BY SearchEnds
  <1>2. b <= m
    <2> SUFFICES ASSUME m < b PROVE FALSE
      BY <1>1 DEF SearchResult
    <2>1. m + 1 \in 1..b /\ m + 1 \in 1..Len(q) /\ SqDist(robot, q[m + 1]) > ReachSq
      BY <1>1 DEF SearchResult
    <2>2. SqDist(robot, q[m + 1]) \in Int /\ SqDist(robot, q[m + 1]) <= ReachSq
      BY <2>1, PlanDistance DEF Within
    <2> QED BY <2>1, <2>2, Thresholds
  <1>3. b \in 1..m /\ m # 0 /\ FirstLeast(q, Closest(q), m)
    BY <1>1, <1>2 DEF SearchResult, Best
  <1> QED BY <1>3 DEF FirstLeast

(* Of a plan cut off before its first pose k closer than the pruning       *)
(* distance, a search finds one no farther away than before the cut.       *)
LEMMA CutPlanKeepsClosest ==
  ASSUME robot \in Positions, NEW p \in Seq(Int \X Int), NEW k \in 1..Len(p),
         SqDist(robot, p[k]) < PruneSq, \A i \in 1..(k - 1) : ~ SqDist(robot, p[i]) < PruneSq,
         Closest(p) # 0, NEW q, q = SubSeq(p, k, Len(p))
  PROVE  Closest(q) # 0 /\ SqDist(robot, q[Closest(q)]) <= SqDist(robot, p[Closest(p)])
  <1> DEFINE n == Len(p)
             c == Closest(p)
  <1>1. PICK m : SearchResult(p, c, m)
    BY SearchEnds
  <1>2. m \in 1..n /\ Within(p, m) /\ FirstLeast(p, c, m) /\ c \in 1..m
    BY <1>1 DEF SearchResult, Best, FirstLeast
  <1>3. /\ q \in Seq(Int \X Int) /\ Len(q) = n - k + 1
        /\ \A i \in 1..(n - k + 1) : q[i] = p[k + i - 1]
    <2>1. k \in Int /\ n \in Int /\ k <= n /\ \A i \in k..n : p[i] \in Int \X Int
      OBVIOUS
    <2> QED BY <2>1, SubSeqProperties
  <1> HIDE DEF c
  <1>4. SUFFICES \E b \in 1..Len(q) : Within(q, b) /\ SqDist(robot, q[b]) <= SqDist(robot, p[c])
    <2>1. PICK b \in 1..Len(q) : Within(q, b) /\ SqDist(robot, q[b]) <= SqDist(robot, p[c])
      BY <1>4
    <2>2. Closest(q) # 0 /\ SqDist(robot, q[Closest(q)]) <= SqDist(robot, q[b])
      BY <1>3, <2>1, FindsAsClose
    <2>3. /\ SqDist(robot, q[b]) \in Int /\ SqDist(robot, p[c]) \in Int
          /\ SqDist(robot, q[Closest(q)]) \in Int
      <3>1. Closest(q) \in 1..Len(q)
        <4>1. PICK mq : SearchResult(q, Closest(q), mq)
          BY <1>3, SearchEnds
        <4> QED BY <1>3, <2>2, <4>1 DEF SearchResult, Best, FirstLeast
      <3>2. c \in 1..Len(p)
        BY <1>2
      <3> QED BY <1>3, <3>1, <3>2, PlanDistance, Zenon
    <2>4. \A x, y, z \in Int : x <= y /\ y <= z => x <= z
      OBVIOUS
    <2> QED BY <2>1, <2>2, <2>3, <2>4, Zenon DEF c
  <1>5. CASE k <= c
    <2>1. c - k + 1 \in 1..Len(q) /\ q[c - k + 1] = p[c]
      <3>1. c - k + 1 \in 1..(n - k + 1) /\ k + (c - k + 1) - 1 = c
        BY <1>2, <1>5
      <3>2. q[c - k + 1] = p[k + (c - k + 1) - 1]
        BY <1>3, <3>1
      <3> QED BY <1>3, <3>1, <3>2
    <2>2. Within(q, c - k + 1)
      <3> SUFFICES ASSUME NEW i \in 1..(c - k + 1) PROVE SqDist(robot, q[i]) <= ReachSq
        BY DEF Within
      <3>1. i \in 1..(n - k + 1) /\ k + i - 1 \in 1..m
        BY <1>2, <1>5
      <3>2. q[i] = p[k + i - 1]
        BY <1>3, <3>1
      <3> QED BY <1>2, <3>1, <3>2 DEF Within
    <2>3. SqDist(robot, q[c - k + 1]) <= SqDist(robot, p[c])
      <3>1. SqDist(robot, p[c]) \in Int
        BY <1>2, PlanDistance
      <3> QED BY <2>1, <3>1
    <2> QED BY <2>1, <2>2, <2>3, Zenon
  <1>6. CASE ~ (k <= c)
    <2>1. c \in 1..(k - 1)
      BY <1>2, <1>6
    <2>2. /\ SqDist(robot, p[c]) \in Int /\ SqDist(robot, p[k]) \in Int
          /\ SqDist(robot, p[c]) <= ReachSq /\ ~ (SqDist(robot, p[c]) < PruneSq)
      BY <1>2, <2>1, PlanDistance DEF Within
    <2>3. SqDist(robot, p[k]) <= SqDist(robot, p[c]) /\ SqDist(robot, p[k]) <= ReachSq
      BY <2>2, Thresholds
    <2>4. 1 \in 1..Len(q) /\ q[1] = p[k]
      <3>1. 1 \in 1..(n - k + 1) /\ k + 1 - 1 = k
        OBVIOUS
      <3>2. q[1] = p[k + 1 - 1]
        BY <1>3, <3>1
      <3> QED BY <1>3, <3>1, <3>2
    <2>5. Within(q, 1)
      BY <2>3, <2>4 DEF Within
    <2> QED BY <2>3, <2>4, <2>5
  <1> QED BY <1>5, <1>6

(* For any pruning distance and costmap, pruning takes from the search     *)
(* neither its find nor a pose as close.                                   *)
THEOREM PruningAlwaysKeepsStart == Spec => PruningKeepsStart
  <1>1. ASSUME IInv, [Next]_vars, pc = "idle", pc' = "pruned", Closest(global_plan) # 0
        PROVE  /\ Closest(global_plan') # 0
               /\ SqDist(robot, global_plan'[Closest(global_plan')])
                    <= SqDist(robot, global_plan[Closest(global_plan)])
    <2>1. Prune
      BY <1>1 DEF Next, vars, SetPlan, Move, TransformFails, Transform, GoalReached,
         GoalNotReached, EndCall
    <2>2. /\ robot \in Positions /\ global_plan \in Seq(Int \X Int)
          /\ SqDist(robot, global_plan[Closest(global_plan)]) \in Int
      <3>1. robot \in Positions /\ global_plan \in Seq(Int \X Int)
        BY <1>1, PlanLeft DEF IInv, Typed
      <3>2. PICK m : SearchResult(global_plan, Closest(global_plan), m)
        BY <3>1, SearchEnds
      <3>3. Closest(global_plan) \in 1..Len(global_plan)
        BY <1>1, <3>1, <3>2 DEF SearchResult, Best, FirstLeast
      <3> QED BY <3>1, <3>3, PlanDistance
    <2>3. CASE global_plan' = global_plan
      BY <1>1, <2>2, <2>3
    <2>4. CASE global_plan' = Remaining /\ NearRobot # {}
      <3> DEFINE k == Min(NearRobot)
      <3>1. NearRobot \subseteq 1..Len(global_plan) /\ NearRobot \subseteq Nat
        BY <2>2 DEF NearRobot, Indices
      <3>2. k \in NearRobot /\ \A i \in NearRobot : k <= i
        BY <2>4, <3>1, MinOfNats
      <3>3. global_plan' = SubSeq(global_plan, k, Len(global_plan))
        BY <2>4 DEF Remaining
      <3> HIDE DEF k
      <3>4. k \in 1..Len(global_plan) /\ SqDist(robot, global_plan[k]) < PruneSq
        BY <3>1, <3>2 DEF NearRobot, FromRobot
      <3>5. ASSUME NEW i \in 1..(k - 1) PROVE ~ SqDist(robot, global_plan[i]) < PruneSq
        <4>1. i \in Indices /\ ~ (k <= i)
          BY <2>2, <3>4 DEF Indices
        <4> QED BY <3>2, <4>1 DEF NearRobot, FromRobot
      <3> QED BY <1>1, <2>2, <3>3, <3>4, <3>5, CutPlanKeepsClosest
    <2> QED BY <2>1, <2>3, <2>4 DEF Prune, Remaining
  <1>2. IInv /\ [Next]_vars
          => [(pc = "idle" /\ pc' = "pruned" /\ Closest(global_plan) # 0)
                => /\ Closest(global_plan') # 0
                   /\ SqDist(robot, global_plan'[Closest(global_plan')])
                        <= SqDist(robot, global_plan[Closest(global_plan)])]_vars
    BY <1>1
  <1> QED BY <1>2, Invariance, PTL DEF Spec, PruningKeepsStart

-----------------------------------------------------------------------------
(* Via-points                                                              *)

(* The pose that the pose of via-point i, or a later one before the next,  *)
(* is compared with, and where the next one ends the comparison.           *)
ComparedWith(taken, first, i) == IF i = 1 THEN first ELSE taken[i - 1]
EndsBefore(taken, last, i) == IF i > Len(taken) THEN last + 1 ELSE taken[i]

(* ViaPointsSpaced for the poses first..last alone.                        *)
SpacedUpto(taken, first, last) ==
    /\ \A i \in 1..(Len(taken) + 1) :
         \A j \in (ComparedWith(taken, first, i) + 1)..(EndsBefore(taken, last, i) - 1) :
            SqDist(global_plan[ComparedWith(taken, first, i)], global_plan[j]) < ViaSepSq
    /\ \A i \in 1..Len(taken) :
         /\ ComparedWith(taken, first, i) < taken[i] /\ taken[i] <= last
         /\ SqDist(global_plan[ComparedWith(taken, first, i)], global_plan[taken[i]]) >= ViaSepSq

(* Two poses of the plan are a whole number apart.                         *)
PlanDistances(m) == \A a, b \in 1..m : SqDist(global_plan[a], global_plan[b]) \in Int

(* A pose too close to the last via-point is passed over.                  *)
LEMMA PassedOver ==
  ASSUME NEW first \in Nat \ {0}, NEW j \in Nat, first <= j, NEW n \in Nat, NEW taken,
         Len(taken) = n, SpacedUpto(taken, first, j),
         SqDist(global_plan[ComparedWith(taken, first, n + 1)], global_plan[j + 1]) < ViaSepSq,
         ComparedWith(taken, first, n + 1) \in first..j, \A i \in 1..n : taken[i] \in first..j
  PROVE  SpacedUpto(taken, first, j + 1)
  <1> DEFINE prev == ComparedWith(taken, first, n + 1)
  <1>1. ASSUME NEW i \in 1..(n + 1),
               NEW k \in (ComparedWith(taken, first, i) + 1)..(EndsBefore(taken, j + 1, i) - 1)
        PROVE  SqDist(global_plan[ComparedWith(taken, first, i)], global_plan[k]) < ViaSepSq
    <2>1. CASE i \in 1..n
      <3>1. EndsBefore(taken, j + 1, i) = EndsBefore(taken, j, i)
        BY <2>1 DEF EndsBefore
      <3> QED BY <1>1, <3>1 DEF SpacedUpto
    <2>2. CASE i = n + 1
      <3>1. EndsBefore(taken, j + 1, i) = j + 2 /\ EndsBefore(taken, j, i) = j + 1
        BY <2>2 DEF EndsBefore
      <3>2. k \in (prev + 1)..(j + 1) /\ prev \in Nat
        BY <1>1, <2>2, <3>1
      <3>3. CASE k = j + 1
        BY <2>2, <3>3
      <3>4. CASE k # j + 1
        <4>1. k \in (prev + 1)..(EndsBefore(taken, j, i) - 1)
          BY <3>1, <3>2, <3>4
        <4> QED BY <2>2, <4>1 DEF SpacedUpto
      <3> QED BY <3>3, <3>4
    <2> QED BY <2>1, <2>2
  <1>2. ASSUME NEW i \in 1..n
        PROVE  /\ ComparedWith(taken, first, i) < taken[i] /\ taken[i] <= j + 1
               /\ SqDist(global_plan[ComparedWith(taken, first, i)], global_plan[taken[i]]) >= ViaSepSq
    <2>1. /\ ComparedWith(taken, first, i) < taken[i] /\ taken[i] <= j
          /\ SqDist(global_plan[ComparedWith(taken, first, i)], global_plan[taken[i]]) >= ViaSepSq
      BY DEF SpacedUpto
    <2>2. taken[i] \in Nat
      OBVIOUS
    <2> QED BY <2>1, <2>2
  <1> QED BY <1>1, <1>2 DEF SpacedUpto

(* One far enough away becomes the next via-point.                         *)
LEMMA TakenAsNext ==
  ASSUME NEW first \in Nat \ {0}, NEW j \in Nat, first <= j, NEW n \in Nat, NEW taken,
         Len(taken) = n, SpacedUpto(taken, first, j),
         PlanDistances(j + 1), ViaSepSq \in Int,
         ~ SqDist(global_plan[ComparedWith(taken, first, n + 1)], global_plan[j + 1]) < ViaSepSq,
         ComparedWith(taken, first, n + 1) \in first..j, \A i \in 1..n : taken[i] \in first..j,
         NEW next, Len(next) = n + 1, next[n + 1] = j + 1, \A i \in 1..n : next[i] = taken[i]
  PROVE  SpacedUpto(next, first, j + 1)
  <1> DEFINE prev == ComparedWith(taken, first, n + 1)
  <1>1. \A i \in 1..(n + 1) : ComparedWith(next, first, i) = ComparedWith(taken, first, i)
    <2> SUFFICES ASSUME NEW i \in 1..(n + 1)
                 PROVE  ComparedWith(next, first, i) = ComparedWith(taken, first, i)
      OBVIOUS
    <2>1. i = 1 \/ i - 1 \in 1..n
      OBVIOUS
    <2> QED BY <2>1 DEF ComparedWith
  <1>2. \A i \in 1..(n + 1) : EndsBefore(next, j + 1, i) = EndsBefore(taken, j, i)
    <2> SUFFICES ASSUME NEW i \in 1..(n + 1)
                 PROVE  EndsBefore(next, j + 1, i) = EndsBefore(taken, j, i)
      OBVIOUS
    <2>1. i = n + 1 \/ i \in 1..n
      OBVIOUS
    <2> QED BY <2>1 DEF EndsBefore
  <1>3. ComparedWith(next, first, n + 2) = j + 1 /\ EndsBefore(next, j + 1, n + 2) = j + 2
    <2>1. n + 2 # 1 /\ (n + 2) - 1 = n + 1 /\ n + 2 > Len(next) /\ (j + 1) + 1 = j + 2
      OBVIOUS
    <2> QED BY <2>1 DEF ComparedWith, EndsBefore
  <1>4. ASSUME NEW i \in 1..(n + 2),
               NEW k \in (ComparedWith(next, first, i) + 1)..(EndsBefore(next, j + 1, i) - 1)
        PROVE  SqDist(global_plan[ComparedWith(next, first, i)], global_plan[k]) < ViaSepSq
    <2>1. CASE i \in 1..(n + 1)
      BY <1>1, <1>2, <1>4, <2>1 DEF SpacedUpto
    <2>2. CASE i = n + 2
      BY <1>3, <1>4, <2>2
    <2> QED BY <2>1, <2>2
  <1>5. ASSUME NEW i \in 1..(n + 1)
        PROVE  /\ ComparedWith(next, first, i) < next[i] /\ next[i] <= j + 1
               /\ SqDist(global_plan[ComparedWith(next, first, i)], global_plan[next[i]]) >= ViaSepSq
    <2>1. CASE i \in 1..n
      <3>1. /\ ComparedWith(taken, first, i) < taken[i] /\ taken[i] <= j
            /\ SqDist(global_plan[ComparedWith(taken, first, i)], global_plan[taken[i]]) >= ViaSepSq
        BY <2>1 DEF SpacedUpto
      <3>2. taken[i] \in Nat /\ next[i] = taken[i]
        BY <2>1
      <3> QED BY <1>1, <3>1, <3>2
    <2>2. CASE i = n + 1
      <3>1. ComparedWith(next, first, i) = prev /\ next[i] = j + 1
        BY <1>1, <2>2
      <3>2. prev \in 1..(j + 1) /\ j + 1 \in 1..(j + 1) /\ prev < j + 1
        OBVIOUS
      <3>3. SqDist(global_plan[prev], global_plan[j + 1]) \in Int
        BY <3>2 DEF PlanDistances
      <3> QED BY <3>1, <3>2, <3>3
    <2> QED BY <2>1, <2>2
  <1>6. Len(next) + 1 = n + 2 /\ Len(next) = n + 1
    OBVIOUS
  <1> QED BY <1>4, <1>5, <1>6 DEF SpacedUpto

(* The via-points that have been taken when the loop has passed pose j.    *)
TakenUpto(taken, first, j) ==
    /\ taken \in Seq(Nat) /\ \A i \in 1..Len(taken) : taken[i] \in first..j
    /\ SpacedUpto(taken, first, j)

(* One pass of the loop of updateViaPointsContainer.                       *)
NextTaken(taken, first, j) ==
    LET prev == IF taken = <<>> THEN first ELSE taken[Len(taken)]
    IN  IF SqDist(global_plan[prev], global_plan[j]) < ViaSepSq THEN taken ELSE Append(taken, j)

LEMMA DistancesInPlan ==
  ASSUME global_plan \in Seq(Int \X Int)
  PROVE  PlanDistances(Len(global_plan))
  <1> SUFFICES ASSUME NEW a \in 1..Len(global_plan), NEW b \in 1..Len(global_plan)
               PROVE  SqDist(global_plan[a], global_plan[b]) \in Int
    BY DEF PlanDistances
  <1>1. global_plan[a] \in Int \X Int /\ global_plan[b] \in Int \X Int
    OBVIOUS
  <1> QED BY <1>1, SqDistInt

LEMMA NextTakenSpaced ==
  ASSUME NEW first \in Nat \ {0}, NEW j \in Nat, first <= j, PlanDistances(j + 1),
         NEW taken, TakenUpto(taken, first, j)
  PROVE  TakenUpto(NextTaken(taken, first, j + 1), first, j + 1)
  <1> DEFINE n == Len(taken)
             prev == IF taken = <<>> THEN first ELSE taken[n]
             next == NextTaken(taken, first, j + 1)
  <1>1. /\ taken \in Seq(Nat) /\ n \in Nat /\ \A i \in 1..n : taken[i] \in first..j
        /\ SpacedUpto(taken, first, j) /\ ViaSepSq \in Int
    BY PlanAssumption DEF TakenUpto, PlanAssumption
  <1>2. prev \in first..j /\ prev = ComparedWith(taken, first, n + 1)
    <2>1. CASE taken = <<>>
      <3>1. n = 0
        BY <2>1
      <3> QED BY <2>1, <3>1 DEF ComparedWith
    <2>2. CASE taken # <<>>
      <3>1. n \in 1..n /\ n + 1 # 1 /\ (n + 1) - 1 = n
        BY <1>1, <2>2
      <3> QED BY <1>1, <2>2, <3>1 DEF ComparedWith
    <2> QED BY <2>1, <2>2
  <1>3. CASE SqDist(global_plan[prev], global_plan[j + 1]) < ViaSepSq
    <2>1. next = taken
      BY <1>3 DEF NextTaken
    <2>2. SpacedUpto(taken, first, j + 1)
      <3> HIDE DEF prev
      <3> QED BY <1>1, <1>2, <1>3, PassedOver
    <2>3. \A i \in 1..n : taken[i] \in first..(j + 1)
      BY <1>1
    <2> QED BY <1>1, <2>1, <2>2, <2>3 DEF TakenUpto
  <1>4. CASE ~ SqDist(global_plan[prev], global_plan[j + 1]) < ViaSepSq
    <2>1. next = Append(taken, j + 1)
      BY <1>4 DEF NextTaken
    <2>2. /\ next \in Seq(Nat) /\ Len(next) = n + 1 /\ next[n + 1] = j + 1
          /\ \A i \in 1..n : next[i] = taken[i]
      <3>1. j + 1 \in Nat
        OBVIOUS
      <3> HIDE DEF next
      <3> QED BY <1>1, <2>1, <3>1
    <2> HIDE DEF next, prev, n
    <2>3. Len(taken) = n
      BY DEF n
    <2>4. SpacedUpto(next, first, j + 1)
      BY <1>1, <1>2, <1>4, <2>2, <2>3, TakenAsNext
    <2>5. \A i \in 1..(n + 1) : next[i] \in first..(j + 1)
      <3> SUFFICES ASSUME NEW i \in 1..(n + 1) PROVE next[i] \in first..(j + 1)
        OBVIOUS
      <3>1. i \in 1..n \/ i = n + 1
        BY <1>1
      <3> QED BY <1>1, <2>2, <3>1
    <2>6. TakenUpto(next, first, j + 1)
      BY <2>2, <2>4, <2>5 DEF TakenUpto
    <2> QED BY <2>6 DEF next
  <1> QED BY <1>3, <1>4

(* updateViaPointsContainer finds via-points at the separation, for any    *)
(* local plan.                                                             *)
LEMMA ViaPointsTaken ==
  ASSUME NEW l \in [first : Nat, last : Nat], 1 <= l.first, l.first <= l.last,
         PlanDistances(l.last)
  PROVE  TakenUpto(ViaPoints(l), l.first, l.last)
  <1> DEFINE a == l.first
             b == l.last
             Rhs(g) == [j \in a..b |->
                          IF j = a THEN <<>>
                          ELSE LET before == g[j - 1]
                                   prev   == IF before = <<>> THEN a ELSE before[Len(before)]
                               IN  IF SqDist(global_plan[prev], global_plan[j]) < ViaSepSq
                                   THEN before ELSE Append(before, j)]
             taken == CHOOSE g : g = Rhs(g)
             step == [q \in (a..b) \X Seq(Nat) |-> NextTaken(q[2], a, q[1])]
  <1>1. a \in Nat \ {0} /\ b \in Nat /\ a <= b
    OBVIOUS
  <1>2. \A g : Rhs(g) = [j \in a..b |-> IF j = a THEN <<>> ELSE NextTaken(g[j - 1], a, j)]
    BY DEF NextTaken
  <1>3. ViaPoints(l) = taken[b]
    BY DEF ViaPoints
  <1> HIDE DEF a, b, Rhs, step
  <1>4. ASSUME NEW j \in (a..b) \ {a}, NEW c \in Seq(Nat)
        PROVE  step[<<j, c>>] = NextTaken(c, a, j) /\ step[<<j, c>>] \in Seq(Nat)
    <2>1. step[<<j, c>>] = NextTaken(c, a, j)
      BY DEF step
    <2>2. NextTaken(c, a, j) \in {c, Append(c, j)}
      BY DEF NextTaken
    <2>3. j \in Nat
      BY <1>1
    <2>4. Append(c, j) \in Seq(Nat)
      BY <2>3
    <2> QED BY <2>1, <2>2, <2>4
  <1>5. PICK g : Follows(g, Seq(Nat), a, b, <<>>, step)
    <2>1. StaysIn(Seq(Nat), a, b, step)
      BY <1>4 DEF StaysIn
    <2>2. <<>> \in Seq(Nat) /\ a \in Int /\ b \in Int
      BY <1>1
    <2> QED BY <1>1, <2>1, <2>2, Recursion
  <1>6. g = Rhs(g)
    <2>1. \A j \in (a..b) \ {a} : j - 1 \in a..b
      BY <1>1
    <2>2. \A j \in (a..b) \ {a} : g[j] = NextTaken(g[j - 1], a, j)
      BY <1>4, <1>5, <2>1 DEF Follows
    <2>3. g \in [a..b -> Seq(Nat)] /\ g[a] = <<>>
      BY <1>5 DEF Follows
    <2> QED BY <1>2, <2>2, <2>3
  <1>7. taken = Rhs(taken)
    BY <1>6
  <1> HIDE DEF taken
  <1>8. taken = [j \in a..b |-> IF j = a THEN <<>> ELSE NextTaken(taken[j - 1], a, j)]
    BY <1>2, <1>7
  <1>9. TakenUpto(taken[a], a, a)
    <2>1. taken[a] = <<>>
      BY <1>1, <1>8
    <2>2. SpacedUpto(<<>>, a, a)
      BY <1>1 DEF SpacedUpto, ComparedWith, EndsBefore
    <2> QED BY <2>1, <2>2 DEF TakenUpto
  <1>10. ASSUME NEW j \in a..(b - 1), TakenUpto(taken[j], a, j)
         PROVE  TakenUpto(taken[j + 1], a, j + 1)
    <2>1. j + 1 \in a..b /\ j + 1 # a /\ (j + 1) - 1 = j /\ j \in Nat /\ a <= j
      BY <1>1
    <2>2. taken[j + 1] = NextTaken(taken[j], a, j + 1)
      BY <1>8, <2>1
    <2>3. PlanDistances(j + 1)
      <3>1. 1..(j + 1) \subseteq 1..b
        BY <1>1, <2>1
      <3>2. PlanDistances(b)
        BY DEF b
      <3> QED BY <3>1, <3>2 DEF PlanDistances
    <2> QED BY <1>1, <1>10, <2>1, <2>2, <2>3, NextTakenSpaced
  <1>11. \A j \in a..b : TakenUpto(taken[j], a, j)
    <2> DEFINE S == {j \in a..b : TakenUpto(taken[j], a, j)}
    <2>1. a \in S /\ \A j \in a..(b - 1) : j \in S => j + 1 \in S
      BY <1>1, <1>9, <1>10
    <2> HIDE DEF S
    <2>2. \A j \in a..b : j \in S
      BY <1>1, <2>1, IntervalInduction
    <2> QED BY <2>2 DEF S
  <1>12. b \in a..b
    BY <1>1
  <1>13. TakenUpto(taken[b], a, b)
    BY <1>11, <1>12
  <1> QED BY <1>3, <1>13 DEF a, b

(* What a call of transformGlobalPlan takes.                               *)
LEMMA TransformTakes ==
  ASSUME IInv, Transform
  PROVE  /\ via_points' \in Seq(Nat)
         /\ ViaSepSq > 0 => SpacedUpto(via_points', local'.first, local'.last)
  <1>1. PICK l :
            /\ l = LocalPlan /\ local' = l
            /\ via_points' = IF ViaSepSq = 0 THEN <<>> ELSE ViaPoints(l)
    BY DEF Transform
  <1>2. global_plan \in Seq(Int \X Int) /\ global_plan # <<>>
    BY PlanLeft DEF IInv, Transform
  <1>3. /\ l \in [first : Nat, last : Nat]
        /\ 1 <= l.first /\ l.first <= l.last /\ l.last <= Len(global_plan)
    BY <1>1, <1>2, LocalPlanOf DEF IInv
  <1>4. PlanDistances(l.last)
    <2>1. PlanDistances(Len(global_plan))
      BY <1>2, DistancesInPlan
    <2>2. l.last \in Nat /\ Len(global_plan) \in Nat
      BY <1>2, <1>3
    <2>3. 1..l.last \subseteq 1..Len(global_plan)
      BY <1>3, <2>2
    <2> QED BY <2>1, <2>3 DEF PlanDistances
  <1>5. TakenUpto(ViaPoints(l), l.first, l.last)
    BY <1>3, <1>4, ViaPointsTaken
  <1>6. ViaSepSq \in Nat
    BY PlanAssumption DEF PlanAssumption
  <1> QED BY <1>1, <1>5, <1>6 DEF TakenUpto

(* In every reachable state via-points follow the local plan at the        *)
(* separation, and no pose far enough away was left out.                   *)
THEOREM ViaPointsAlwaysSpaced == Spec => []ViaPointsSpaced
  <1> DEFINE Inv == pc = "transformed" /\ ViaSepSq > 0
                        => SpacedUpto(via_points, local.first, local.last)
  <1>1. Init => Inv
    BY DEF Init
  <1>2. IInv /\ Inv /\ [Next]_vars => Inv'
    <2> SUFFICES ASSUME IInv, Inv, [Next]_vars, pc' = "transformed", ViaSepSq > 0
                 PROVE  SpacedUpto(via_points, local.first, local.last)'
      OBVIOUS
    <2>1. CASE Transform
      BY <2>1, TransformTakes DEF Transform, SpacedUpto, ComparedWith, EndsBefore
    <2>2. CASE UNCHANGED vars
      BY <2>2 DEF vars, callVars, SpacedUpto, ComparedWith, EndsBefore
    <2>3. Transform \/ UNCHANGED vars
      BY DEF Next, Prune, TransformFails, GoalReached, GoalNotReached, EndCall, Move, SetPlan
    <2> QED BY <2>1, <2>2, <2>3
  <1>3. Inv => ViaPointsSpaced
    BY DEF ViaPointsSpaced, SpacedUpto, ComparedWith, EndsBefore
  <1> QED BY <1>1, <1>2, <1>3, Invariance, PTL DEF Spec

(* All variables keep their types: what is left of the plan are points,    *)
(* via-points and the poses the heading comes from are numbers of poses.   *)
THEOREM TypeCorrect == Spec => []TypeOK
  <1> DEFINE Inv == /\ prune_ret \in BOOLEAN /\ goal_reached \in BOOLEAN
                    /\ via_points \in Seq(Nat) /\ heading_from \in SUBSET Nat
  <1>1. Init => Inv
    <2>1. <<>> \in Seq(Nat)
      OBVIOUS
    <2> QED BY <2>1 DEF Init
  <1>2. IInv /\ Inv /\ [Next]_vars => Inv'
    <2> SUFFICES ASSUME IInv, Inv, [Next]_vars PROVE Inv'
      OBVIOUS
    <2>1. CASE Transform
      BY <2>1, TransformTakes DEF Transform
    <2>2. CASE GoalNotReached
      <3>1. /\ Len(global_plan) \in Nat \ {0} /\ local.last \in 1..Len(global_plan)
        <4>1. Len(global_plan) \in Nat /\ local.first \in Nat /\ local.last \in Nat
          BY PlanLeft DEF IInv, Typed
        <4> QED BY <2>2, <4>1 DEF GoalNotReached, IInv, LocalPlanInWindow
      <3>2. HeadingFrom(local.last) \subseteq 1..Len(global_plan)
        BY <3>1, HeadingInPlan
      <3>3. heading_from' \subseteq Nat
        BY <2>2, <3>1, <3>2 DEF GoalNotReached
      <3> QED BY <2>2, <3>3 DEF GoalNotReached
    <2>3. CASE SetPlan \/ Move \/ Prune
      BY <2>3 DEF SetPlan, Move, Prune, callVars
    <2>4. CASE TransformFails \/ GoalReached \/ EndCall \/ UNCHANGED vars
      BY <2>4 DEF TransformFails, GoalReached, EndCall, vars, callVars
    <2> QED BY <2>1, <2>2, <2>3, <2>4 DEF Next
  <1>3. IInv /\ Inv => TypeOK
    BY PlanLeft DEF IInv, Typed, TypeOK
  <1> QED BY <1>1, <1>2, <1>3, Invariance, PTL DEF Spec
=============================================================================
