--------------------------- MODULE InductionLemmas ---------------------------
(* Induction and recursion over intervals of integers, with sets and       *)
(* functions in place of the predicates and operators that the theorems of *)
(* the library take.  They rest on the least element of a set of natural   *)
(* numbers.                                                                *)
EXTENDS Integers, WellFoundedInduction, TLAPS

(* A set of natural numbers that is not empty has a least element.         *)
LEMMA LeastElement ==
  ASSUME NEW S, S \subseteq Nat, S # {}
  PROVE  \E n \in S : \A k \in S : n <= k
  <1>1. \E n \in S : \A k \in S : ~ (<<k, n>> \in OpToRel(<, Nat))
    BY NatLessThanWellFounded, WFMin, Zenon
  <1>2. PICK n \in S : \A k \in S : ~ (<<k, n>> \in OpToRel(<, Nat))
    BY <1>1, Zenon
  <1>3. ASSUME NEW k \in S PROVE n <= k
    <2>1. k \in Nat /\ n \in Nat
      OBVIOUS
    <2>2. k < n => <<k, n>> \in OpToRel(<, Nat)
      BY <2>1, Zenon DEF OpToRel
    <2>3. ~ (k < n)
      BY <1>2, <2>2, Zenon
    <2> QED BY <2>1, <2>3
  <1> QED BY <1>3, Zenon

(* Of the numbers with the least value of a function there is a first one. *)
LEMMA FirstMinimum ==
  ASSUME NEW S, S \subseteq Nat, S # {}, NEW D \in [S -> Nat]
  PROVE  \E i \in S : \A j \in S : D[i] < D[j] \/ (D[i] = D[j] /\ i <= j)
  <1> DEFINE Values == {D[i] : i \in S}
  <1>1. Values \subseteq Nat /\ Values # {}
    OBVIOUS
  <1>2. PICK v \in Values : \A w \in Values : v <= w
    <2> HIDE DEF Values
    <2> QED BY <1>1, LeastElement
  <1> DEFINE Best == {i \in S : D[i] = v}
  <1>3. Best \subseteq Nat /\ Best # {}
    BY <1>2
  <1>4. PICK i \in Best : \A j \in Best : i <= j
    <2> HIDE DEF Best
    <2> QED BY <1>3, LeastElement
  <1>5. ASSUME NEW j \in S PROVE D[i] < D[j] \/ (D[i] = D[j] /\ i <= j)
    <2>1. D[i] = v /\ v <= D[j] /\ v \in Nat /\ D[j] \in Nat
      BY <1>1, <1>2, <1>4
    <2>2. D[j] = v => i <= j
      BY <1>4
    <2> QED BY <2>1, <2>2
  <1> QED BY <1>4, <1>5

(* Strong induction: a set that holds each number of an interval whose     *)
(* predecessors in the interval it holds is the whole interval.            *)
LEMMA StrongInduction ==
  ASSUME NEW m \in Int, NEW n \in Int, NEW S,
         \A i \in m..n : (\A j \in m..(i - 1) : j \in S) => i \in S
  PROVE  \A i \in m..n : i \in S
  <1> DEFINE Missing == {k \in Nat : m + k <= n /\ m + k \notin S}
  <1>1. CASE Missing = {}
    <2> SUFFICES ASSUME NEW i \in m..n, i \notin S PROVE FALSE
      OBVIOUS
    <2>1. i - m \in Nat /\ m + (i - m) = i
      OBVIOUS
    <2>2. i - m \in Missing
      BY <2>1
    <2> QED BY <1>1, <2>2
  <1>2. CASE Missing # {}
    <2>1. PICK k \in Missing : \A l \in Missing : k <= l
      <3> HIDE DEF Missing
      <3>1. \E k \in Missing : \A l \in Missing : k <= l
        <4>1. Missing \subseteq Nat
          BY DEF Missing
        <4> QED BY <1>2, <4>1, LeastElement
      <3> QED BY <3>1
    <2>2. m + k \in m..n /\ m + k \notin S
      OBVIOUS
    <2>3. ASSUME NEW j \in m..(m + k - 1) PROVE j \in S
      <3>1. j - m \in Nat /\ m + (j - m) = j /\ ~ (k <= j - m)
        OBVIOUS
      <3>2. j - m \notin Missing
        BY <2>1, <3>1
      <3> QED BY <2>2, <3>1, <3>2
    <2> QED BY <2>2, <2>3
  <1> QED BY <1>1, <1>2

(* Induction from one number of an interval to the next.                   *)
LEMMA IntervalInduction ==
  ASSUME NEW m \in Int, NEW n \in Int, NEW S,
         m \in S, \A i \in m..(n - 1) : i \in S => i + 1 \in S
  PROVE  \A i \in m..n : i \in S
  <1>1. ASSUME NEW i \in m..n, \A j \in m..(i - 1) : j \in S PROVE i \in S
    <2>1. CASE i = m
      BY <2>1
    <2>2. CASE i # m
      <3>1. i - 1 \in m..(i - 1) /\ i - 1 \in m..(n - 1) /\ (i - 1) + 1 = i
        BY <2>2
      <3>2. i - 1 \in S
        BY <1>1, <3>1
      <3>3. (i - 1) + 1 \in S
        BY <3>1, <3>2
      <3> QED BY <3>1, <3>3
    <2> QED BY <2>1, <2>2
  <1> QED BY <1>1, StrongInduction

(* The same for the values of a function.                                  *)
LEMMA ValuesInduction ==
  ASSUME NEW m \in Int, NEW n \in Int, NEW T, NEW f,
         f[m] \in T, \A i \in m..(n - 1) : f[i] \in T => f[i + 1] \in T
  PROVE  \A i \in m..n : f[i] \in T
  <1> DEFINE S == {i \in m..n : f[i] \in T}
  <1>1. CASE n < m
    BY <1>1
  <1>2. CASE m <= n
    <2>1. m \in S /\ \A i \in m..(n - 1) : i \in S => i + 1 \in S
      BY <1>2
    <2> HIDE DEF S
    <2>2. \A i \in m..n : i \in S
      BY <2>1, IntervalInduction
    <2> QED BY <2>2 DEF S
  <1> QED BY <1>1, <1>2

(* A function over an interval can be defined by its first value and, from *)
(* there, each value by the one before it; step[<<i, c>>] is value i if    *)
(* the one before is c.                                                    *)
StaysIn(T, m, n, step) == \A i \in (m..n) \ {m} : \A c \in T : step[<<i, c>>] \in T

Follows(g, T, m, n, a, step) ==
  /\ g \in [m..n -> T] /\ g[m] = a
  /\ \A i \in (m..n) \ {m} : g[i] = step[<<i, g[i - 1]>>]

LEMMA Recursion ==
  ASSUME NEW T, NEW m \in Int, NEW n \in Int, m <= n, NEW a \in T, NEW step,
         StaysIn(T, m, n, step)
  PROVE  \E g : Follows(g, T, m, n, a, step)
  <1> DEFINE S == {l \in m..n : \E g : Follows(g, T, m, l, a, step)}
  <1>1. m \in S
    <2> DEFINE g == [i \in m..m |-> a]
    <2>1. g \in [m..m -> T] /\ g[m] = a
      OBVIOUS
    <2>2. (m..m) \ {m} = {} /\ m \in m..n
      OBVIOUS
    <2> HIDE DEF g
    <2>3. Follows(g, T, m, m, a, step)
      BY <2>1, <2>2 DEF Follows
    <2> QED BY <2>2, <2>3
  <1>2. ASSUME NEW l \in m..(n - 1), l \in S PROVE l + 1 \in S
    <2>1. PICK g : Follows(g, T, m, l, a, step)
      BY <1>2
    <2> DEFINE v == step[<<l + 1, g[l]>>]
               h == [i \in m..(l + 1) |-> IF i = l + 1 THEN v ELSE g[i]]
    <2>2. g[l] \in T /\ l + 1 \in (m..n) \ {m}
      BY <2>1 DEF Follows
    <2>3. v \in T
      BY <2>2 DEF StaysIn
    <2>4. h \in [m..(l + 1) -> T]
      BY <2>1, <2>3 DEF Follows
    <2>5. h[m] = a
      BY <2>1 DEF Follows
    <2>6. ASSUME NEW i \in (m..(l + 1)) \ {m} PROVE h[i] = step[<<i, h[i - 1]>>]
      <3>1. i \in m..(l + 1) /\ i - 1 \in m..(l + 1) /\ i - 1 # l + 1
        OBVIOUS
      <3>2. h[i - 1] = g[i - 1]
        BY <3>1
      <3>3. CASE i = l + 1
        <4>1. i - 1 = l /\ h[i] = v
          BY <3>1, <3>3
        <4> QED BY <3>2, <3>3, <4>1
      <3>4. CASE i # l + 1
        <4>1. i \in (m..l) \ {m} /\ h[i] = g[i]
          BY <3>1, <3>4
        <4> QED BY <2>1, <3>2, <4>1 DEF Follows
      <3> QED BY <3>3, <3>4
    <2>7. Follows(h, T, m, l + 1, a, step)
      <3> HIDE DEF h
      <3> QED BY <2>4, <2>5, <2>6 DEF Follows
    <2> HIDE DEF h, v
    <2> QED BY <2>2, <2>7
  <1>3. \A i \in m..n : i \in S
    <2> HIDE DEF S
    <2> QED BY <1>1, <1>2, IntervalInduction
  <1>4. n \in m..n
    OBVIOUS
  <1> QED BY <1>3, <1>4
=============================================================================
