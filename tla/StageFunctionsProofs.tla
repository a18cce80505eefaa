------------------------ MODULE StageFunctionsProofs ------------------------
(* Proofs about the stage functions and the edges, for all trajectories,   *)
(* obstacles, via-points and limits.                                       *)
EXTENDS StageFunctions, FiniteSetTheorems, TLAPS

(* The states of the grid are numbered from 0; a grid has at least two.    *)
Numbered ==
    \/ poses = <<>> /\ edges = NoEdges /\ phase = "updated"
    \/ \E last \in Nat \ {0} : DOMAIN poses = 0..last

(* The edges fit what the functions remember of their last update, which   *)
(* is what the functions compare with to ask for new ones.                 *)
Remembered(last) ==
    /\ edges.n = last + 1
    /\ DOMAIN relevant = 0..last /\ DOMAIN relevant_dyn = 0..last
    /\ DOMAIN association = 0..last
    /\ \A k \in 0..last :
         /\ association[k].second = Cardinality(association[k].first)
         /\ edges.du[k] = num_du.lb + num_du.ub
    /\ \A k \in 0..(last - 1) :
         /\ edges.obst[k] = Cardinality(relevant[k])
         /\ edges.dyn[k] = Cardinality(relevant_dyn[k])
         /\ edges.via[k] = association[k].second

EdgesKnown == edges = NoEdges \/ \E last \in Nat \ {0} : Remembered(last)

Current == phase = "updated" /\ poses # <<>> => edges.n = N

IInv == Numbered /\ EdgesKnown /\ Current

-----------------------------------------------------------------------------
LEMMA NumberOfStates ==
    ASSUME NEW last \in Nat, DOMAIN poses = 0..last
    PROVE  N = last + 1
  BY FS_Interval DEF N

(* No more than two bounds of the control deviation are finite.            *)
LEMMA AtMostTwo ==
    ASSUME NEW S, NEW a, NEW b
    PROVE  Cardinality(S \cap {a, b}) \in 0..2
  <1>1. IsFiniteSet({a}) /\ Cardinality({a}) = 1
    BY FS_Singleton
  <1>2. IsFiniteSet({a, b}) /\ Cardinality({a, b}) <= 2 /\ Cardinality({a, b}) \in Nat
    <2>1. {a, b} = {a} \cup {b}
      OBVIOUS
    <2>2. IsFiniteSet({a} \cup {b}) /\ Cardinality({a} \cup {b}) \in {1, 2}
      BY <1>1, FS_AddElement
    <2> QED
      BY <2>1, <2>2
  <1>3. IsFiniteSet(S \cap {a, b}) /\ Cardinality(S \cap {a, b}) <= Cardinality({a, b})
    BY <1>2, FS_Subset
  <1> QED
    BY <1>2, <1>3, FS_CardinalityType

-----------------------------------------------------------------------------
LEMMA InitInvariant == Init => IInv
  BY DEF Init, IInv, Numbered, EdgesKnown, Current

(* New inputs leave functions and edges as they were.                      *)
LEMMA CollectInvariant ==
    ASSUME IInv, NEW t \in Trajectories, NEW base, NEW customs, NEW tf_ok, NEW via,
           Collect(t, base, customs, tf_ok, via)
    PROVE  IInv'
  <1>1. DOMAIN poses' = 0..(Len(t) - 1) /\ Len(t) >= 2 /\ phase' = "collected"
    BY StageAssumption DEF Collect
  <1>2. Len(t) - 1 \in Nat \ {0}
    <2>1. t \in Seq(Pose)
      BY StageAssumption
    <2>2. Len(t) \in Nat
      BY <2>1
    <2> QED
      BY <1>1, <2>2
  <1>3. Numbered' /\ Current'
    BY <1>1, <1>2 DEF Numbered, Current
  <1>4. EdgesKnown'
    BY DEF IInv, EdgesKnown, Remembered, Collect, functions
  <1> QED
    BY <1>3, <1>4 DEF IInv

-----------------------------------------------------------------------------
(* Edges that are made anew fit by construction.                           *)
LEMMA EdgesMade ==
    ASSUME NEW v, Update(v), NEW last \in Nat \ {0}, DOMAIN poses = 0..last,
           edges' = Edges(relevant', relevant_dyn', num_du', association')
    PROVE  Remembered(last)'
  <1>1. N = last + 1
    BY NumberOfStates
  <1>2. edges'.n = last + 1
    BY <1>1 DEF Edges
  <1>3. /\ DOMAIN relevant' = 0..last /\ DOMAIN relevant_dyn' = 0..last
        /\ DOMAIN association' = 0..last
    BY DEF Update
  <1>4. \A k \in 0..last : association'[k].second = Cardinality(association'[k].first)
    BY DEF Update
  <1>5. \A k \in 0..last : edges'.du[k] = num_du'.lb + num_du'.ub
    BY <1>1 DEF Edges
  <1>6. \A k \in 0..(last - 1) :
            /\ edges'.obst[k] = Cardinality(relevant'[k])
            /\ edges'.dyn[k] = Cardinality(relevant_dyn'[k])
            /\ edges'.via[k] = association'[k].second
    BY <1>1 DEF Edges
  <1> QED
    BY <1>2, <1>3, <1>4, <1>5, <1>6 DEF Remembered

(* Edges that are kept still fit: the functions have compared what they    *)
(* remember with what they have now, state by state.                       *)
LEMMA EdgesKept ==
    ASSUME IInv, Update(FALSE), NEW last \in Nat \ {0}, DOMAIN poses = 0..last,
           edges' = edges,
           ~ ObstaclesChanged(relevant, relevant'),
           ~ ObstaclesChanged(relevant_dyn, relevant_dyn'),
           num_du' = num_du,
           ~ ViaChanged(association, Association)
    PROVE  Remembered(last)'
  <1>1. edges.n = last + 1
    BY NumberOfStates DEF Update
  <1>2. Remembered(last)
    <2>1. edges # NoEdges
      BY <1>1 DEF NoEdges
    <2>2. PICK l \in Nat \ {0} : Remembered(l)
      BY <2>1 DEF IInv, EdgesKnown
    <2>3. l = last
      BY <1>1, <2>2 DEF Remembered
    <2> QED
      BY <2>2, <2>3
  <1>3. /\ relevant' = [k \in 0..last |-> Relevant(k)]
        /\ relevant_dyn' = [k \in 0..last |-> RelevantDyn(k)]
        /\ association' = [k \in 0..last |->
               [first |-> Association[k], second |-> Cardinality(Association[k])]]
    BY DEF Update
  <1>4. DOMAIN Association = 0..last
    BY DEF Association
  <1>5. \A k \in 0..last : /\ Cardinality(relevant'[k]) = Cardinality(relevant[k])
                           /\ Cardinality(relevant_dyn'[k]) = Cardinality(relevant_dyn[k])
    BY <1>3 DEF ObstaclesChanged
  <1>6. \A k \in 0..last : Cardinality(Association[k]) = association[k].second
    BY <1>4 DEF ViaChanged
  <1>7. \A k \in 0..last : /\ association'[k].second = Cardinality(association'[k].first)
                           /\ association'[k].second = association[k].second
    BY <1>3, <1>6
  <1> QED
    BY <1>2, <1>3, <1>5, <1>7 DEF Remembered

LEMMA UpdateInvariant ==
    ASSUME IInv, NEW v \in BOOLEAN, Update(v)
    PROVE  IInv'
  <1>1. PICK last \in Nat \ {0} : DOMAIN poses = 0..last
    BY DEF IInv, Numbered, Update
  <1>2. poses' = poses /\ N' = N /\ N = last + 1
    BY <1>1, NumberOfStates DEF Update, inputs, N
  <1>3. Remembered(last)'
    <2>1. CASE edges' = Edges(relevant', relevant_dyn', num_du', association')
      BY <1>1, <2>1, EdgesMade
    <2>2. CASE edges' # Edges(relevant', relevant_dyn', num_du', association')
      <3>1. /\ ~ v /\ edges' = edges /\ num_du' = num_du
            /\ ~ ObstaclesChanged(relevant, relevant')
            /\ ~ ObstaclesChanged(relevant_dyn, relevant_dyn')
            /\ ~ ViaChanged(association, Association)
        BY <2>2 DEF Update
      <3>2. v = FALSE
        BY <3>1
      <3>3. Update(FALSE)
        BY <3>2
      <3> QED
        BY <1>1, <3>1, <3>3, EdgesKept
    <2> QED
      BY <2>1, <2>2
  <1>4. Numbered'
    BY <1>1, <1>2 DEF Numbered
  <1>5. EdgesKnown'
    BY <1>3 DEF EdgesKnown
  <1>6. Current'
    BY <1>2, <1>3 DEF Current, Remembered
  <1> QED
    BY <1>4, <1>5, <1>6 DEF IInv

LEMMA StepInvariant == IInv /\ [Next]_vars => IInv'
  <1> SUFFICES ASSUME IInv, [Next]_vars PROVE IInv'
    OBVIOUS
  <1>1. CASE Next
    BY <1>1, CollectInvariant, UpdateInvariant DEF Next
  <1>2. CASE UNCHANGED vars
    BY <1>2 DEF vars, inputs, functions, IInv, Numbered, EdgesKnown, Remembered, Current, N
  <1> QED
    BY <1>1, <1>2

THEOREM Invariance == Spec => []IInv
  BY InitInvariant, StepInvariant, PTL DEF Spec

(* However obstacles, via-points and grid change from step to step, the    *)
(* edges the solver works with have the dimensions of the stage functions. *)
THEOREM EdgesAlwaysFit == Spec => []EdgesFit
  <1>1. IInv => EdgesFit
    <2> SUFFICES ASSUME IInv, phase = "updated", N > 0 PROVE EdgesFit
      BY DEF EdgesFit
    <2>1. poses # <<>>
      <3>1. DOMAIN <<>> = {}
        OBVIOUS
      <3> QED
        BY <3>1, FS_EmptySet DEF N
    <2>2. PICK last \in Nat \ {0} : DOMAIN poses = 0..last
      BY <2>1 DEF IInv, Numbered
    <2>3. edges.n = last + 1 /\ N = last + 1
      BY <2>1, <2>2, NumberOfStates DEF IInv, Current
    <2>4. PICK l \in Nat \ {0} : Remembered(l)
      BY <2>3 DEF IInv, EdgesKnown, NoEdges
    <2>5. l = last
      BY <2>3, <2>4 DEF Remembered
    <2> QED
      BY <2>3, <2>4, <2>5 DEF Remembered, EdgesFit
  <1> QED
    BY <1>1, Invariance, PTL

(* At every state the relevant obstacles, fixed and moving ones apart, and *)
(* the associated via-points are members of their containers.              *)
THEOREM TypeCorrect == Spec => []TypeOK
  <1>1. Init => TypeOK
    <2> SUFFICES ASSUME Init PROVE TypeOK
      OBVIOUS
    <2>1. DOMAIN poses = {} /\ poses = <<>>
      BY DEF Init
    <2> QED
      BY <2>1 DEF Init, TypeOK
  <1>2. ASSUME TypeOK, NEW t \in Trajectories, NEW base, NEW customs, NEW tf_ok, NEW via,
               Collect(t, base, customs, tf_ok, via)
        PROVE  TypeOK'
    BY <1>2 DEF TypeOK, Collect, functions
  <1>3. ASSUME TypeOK, NEW v \in BOOLEAN, Update(v)
        PROVE  TypeOK'
    <2>1. phase' = "updated" /\ poses' = poses /\ obstacles' = obstacles /\ via_points' = via_points
      BY <1>3 DEF Update, inputs
    <2>2. num_du' \in [lb : 0..2, ub : 0..2]
      BY <1>3, AtMostTwo DEF Update, DuFinite
    <2>3. /\ relevant' = [k \in DOMAIN poses |-> Relevant(k)]
          /\ relevant_dyn' = [k \in DOMAIN poses |-> RelevantDyn(k)]
          /\ association' = [k \in DOMAIN poses |->
                 [first |-> Association[k], second |-> Cardinality(Association[k])]]
      BY <1>3 DEF Update
    <2>4. ASSUME NEW k \in DOMAIN poses
          PROVE  /\ Relevant(k) \subseteq Fixed /\ RelevantDyn(k) \subseteq 1..Len(obstacles)
                 /\ RelevantDyn(k) \cap Fixed = {}
      <3>1. Forced(k) \subseteq Fixed /\ Near(k) \subseteq Fixed
        BY DEF Forced, Near
      <3>2. Nearest(k, Left(k)) \subseteq Near(k) /\ Nearest(k, Right(k)) \subseteq Near(k)
        BY DEF Nearest, Left, Right
      <3>3. Relevant(k) \subseteq Fixed
        BY <3>1, <3>2 DEF Relevant
      <3>4. RelevantDyn(k) \subseteq 1..Len(obstacles) /\ RelevantDyn(k) \cap Fixed = {}
        BY DEF RelevantDyn, Fixed
      <3> QED
        BY <3>3, <3>4
    <2>5. \A k \in DOMAIN poses : Association[k] \subseteq 1..Len(via_points)
      BY DEF Association
    <2>6. Fixed \subseteq 1..Len(obstacles)
      BY DEF Fixed
    <2>7. DOMAIN relevant' = DOMAIN poses /\ DOMAIN relevant_dyn' = DOMAIN poses
          /\ DOMAIN association' = DOMAIN poses
      BY <2>3
    <2>8. \A k \in DOMAIN poses :
              /\ relevant'[k] \cup relevant_dyn'[k] \subseteq 1..Len(obstacles)
              /\ relevant'[k] \cap relevant_dyn'[k] = {}
              /\ association'[k].first \subseteq 1..Len(via_points)
      BY <2>3, <2>4, <2>5, <2>6
    <2> QED
      BY <2>1, <2>2, <2>7, <2>8 DEF TypeOK
  <1>4. TypeOK /\ UNCHANGED vars => TypeOK'
    BY DEF TypeOK, vars, inputs, functions
  <1>5. TypeOK /\ [Next]_vars => TypeOK'
    BY <1>2, <1>3, <1>4 DEF Next
  <1> QED
    BY <1>1, <1>5, PTL DEF Spec
=============================================================================
