------------------------ MODULE StageSelectionProofs ------------------------
(* Proofs about what the stage functions select, for all trajectories,     *)
(* obstacles and via-points: how the obstacles of a step are collected,    *)
(* which of them the filter keeps, and which states via-points are tied    *)
(* to.  The loops of the code are recursive functions; what they keep is   *)
(* proved by the induction of InductionLemmas.                             *)
EXTENDS StageFunctionsProofs, InductionLemmas

-----------------------------------------------------------------------------
(* Collected obstacles                                                     *)

AnyObstacle == [at : Point, v : Int, of : Int]

(* What every message preserves holds of all obstacles of a converter.     *)
LEMMA ConverterKeeps ==
    ASSUME NEW T, <<>> \in T, NEW messages, Len(messages) \in Nat,
           \A c \in T : \A i \in 1..Len(messages) : WithConverted(c, messages[i]) \in T
    PROVE  FromConverter(messages) \in T
  <1> DEFINE n == Len(messages)
             Rhs(g) == [i \in 0..n |-> IF i = 0 THEN <<>> ELSE WithConverted(g[i - 1], messages[i])]
             after == CHOOSE g : g = Rhs(g)
             step == [q \in (1..n) \X T |-> WithConverted(q[2], messages[q[1]])]
  <1>1. ASSUME NEW i \in (0..n) \ {0}, NEW c \in T
        PROVE  step[<<i, c>>] = WithConverted(c, messages[i]) /\ step[<<i, c>>] \in T
    <2>1. i \in 1..n
      OBVIOUS
    <2> QED BY <2>1
  <1> HIDE DEF step
  <1>2. PICK g : Follows(g, T, 0, n, <<>>, step)
    <2>1. n \in Int /\ 0 \in Int /\ 0 <= n
      OBVIOUS
    <2> HIDE DEF n
    <2>2. StaysIn(T, 0, n, step)
      BY <1>1 DEF StaysIn
    <2> QED BY <2>1, <2>2, Recursion
  <1>3. g = Rhs(g)
    <2>1. \A i \in (0..n) \ {0} : i - 1 \in 0..n
      OBVIOUS
    <2> HIDE DEF n
    <2> QED BY <1>1, <1>2, <2>1 DEF Follows
  <1>4. after = Rhs(after)
    <2> HIDE DEF Rhs
    <2> QED BY <1>3
  <1>5. FromConverter(messages) = after[n]
    BY DEF FromConverter
  <1> HIDE DEF after
  <1>6. ASSUME NEW i \in 0..(n - 1), after[i] \in T PROVE after[i + 1] \in T
    <2>1. i + 1 \in 1..n /\ i + 1 \in 0..n /\ i + 1 # 0 /\ (i + 1) - 1 = i
      OBVIOUS
    <2> QED BY <1>4, <1>6, <2>1
  <1>7. after[0] \in T /\ n \in 0..n /\ n \in Int /\ 0 \in Int
    BY <1>4
  <1> HIDE DEF n
  <1>8. \A i \in 0..n : after[i] \in T
    BY <1>6, <1>7, ValuesInduction, Zenon
  <1> QED BY <1>5, <1>7, <1>8
(* and so for the cells of the costmap                                     *)
LEMMA CostmapKeeps ==
    ASSUME NEW T, <<>> \in T, NEW cells, NEW robot, Len(cells) \in Nat,
           \A c \in T : \A i \in 1..Len(cells) : Append(c, Obstacle(cells[i], 0)) \in T
    PROVE  FromCostmap(cells, robot) \in T
  <1> DEFINE n == Len(cells)
             InFront(c) == ~ /\ Dot(Minus(c, robot.at), robot.dir) < 0
                             /\ SqDist(c, robot.at) > BehindSq
             Rhs(g) == [i \in 0..n |->
                           IF i = 0 THEN <<>>
                           ELSE IF InFront(cells[i]) THEN Append(g[i - 1], Obstacle(cells[i], 0))
                           ELSE g[i - 1]]
             after == CHOOSE g : g = Rhs(g)
             step == [q \in (1..n) \X T |->
                         IF InFront(cells[q[1]]) THEN Append(q[2], Obstacle(cells[q[1]], 0))
                         ELSE q[2]]
  <1> HIDE DEF InFront
  <1>1. ASSUME NEW i \in (0..n) \ {0}, NEW c \in T
        PROVE  /\ step[<<i, c>>] = IF InFront(cells[i]) THEN Append(c, Obstacle(cells[i], 0)) ELSE c
               /\ step[<<i, c>>] \in T
    <2>1. i \in 1..n
      OBVIOUS
    <2> QED BY <2>1
  <1> HIDE DEF step
  <1>2. PICK g : Follows(g, T, 0, n, <<>>, step)
    <2>1. n \in Int /\ 0 \in Int /\ 0 <= n
      OBVIOUS
    <2> HIDE DEF n
    <2>2. StaysIn(T, 0, n, step)
      BY <1>1 DEF StaysIn
    <2> QED BY <2>1, <2>2, Recursion
  <1>3. g = Rhs(g)
    <2>1. \A i \in (0..n) \ {0} : i - 1 \in 0..n
      OBVIOUS
    <2>2. \A i \in (0..n) \ {0} : g[i] = step[<<i, g[i - 1]>>] /\ g[i - 1] \in T
      BY <1>2, <2>1 DEF Follows
    <2>3. \A i \in (0..n) \ {0} :
             g[i] = IF InFront(cells[i]) THEN Append(g[i - 1], Obstacle(cells[i], 0)) ELSE g[i - 1]
      BY <1>1, <2>2
    <2>4. g \in [0..n -> T] /\ g[0] = <<>>
      BY <1>2 DEF Follows
    <2> HIDE DEF n
    <2> QED BY <2>3, <2>4
  <1>4. after = Rhs(after)
    <2> HIDE DEF Rhs
    <2> QED BY <1>3
  <1>5. FromCostmap(cells, robot) = after[n]
    BY DEF FromCostmap, InFront
  <1> HIDE DEF after
  <1>6. ASSUME NEW i \in 0..(n - 1), after[i] \in T PROVE after[i + 1] \in T
    <2>1. i + 1 \in 1..n /\ i + 1 \in 0..n /\ i + 1 # 0 /\ (i + 1) - 1 = i
      OBVIOUS
    <2> QED BY <1>4, <1>6, <2>1
  <1>7. after[0] \in T /\ n \in 0..n /\ n \in Int /\ 0 \in Int
    BY <1>4
  <1> HIDE DEF n
  <1>8. \A i \in 0..n : after[i] \in T
    BY <1>6, <1>7, ValuesInduction, Zenon
  <1> QED BY <1>5, <1>7, <1>8
(* and for the custom obstacles behind the others.                         *)
LEMMA ContainerKeeps ==
    ASSUME NEW T, NEW base \in T, NEW customs, NEW tf_ok, Len(customs) \in Nat,
           \A c \in T : \A i \in 1..Len(customs) : \A at \in {Shift, [x |-> 0, y |-> 0]} :
               WithMessage(c, customs[i], at) \in T
    PROVE  Container(base, customs, tf_ok) \in T
  <1> DEFINE n == Len(customs)
             offset == IF tf_ok THEN Shift ELSE [x |-> 0, y |-> 0]
             Rhs(g) == [i \in 0..n |-> IF i = 0 THEN base ELSE WithMessage(g[i - 1], customs[i], offset)]
             after == CHOOSE g : g = Rhs(g)
             step == [q \in (1..n) \X T |-> WithMessage(q[2], customs[q[1]], offset)]
  <1>0. offset \in {Shift, [x |-> 0, y |-> 0]}
    OBVIOUS
  <1> HIDE DEF offset
  <1>1. ASSUME NEW i \in (0..n) \ {0}, NEW c \in T
        PROVE  step[<<i, c>>] = WithMessage(c, customs[i], offset) /\ step[<<i, c>>] \in T
    <2>1. i \in 1..n
      OBVIOUS
    <2> QED BY <1>0, <2>1
  <1> HIDE DEF step
  <1>2. PICK g : Follows(g, T, 0, n, base, step)
    <2>1. n \in Int /\ 0 \in Int /\ 0 <= n
      OBVIOUS
    <2> HIDE DEF n
    <2>2. StaysIn(T, 0, n, step)
      BY <1>1 DEF StaysIn
    <2> QED BY <2>1, <2>2, Recursion
  <1>3. g = Rhs(g)
    <2>1. \A i \in (0..n) \ {0} : i - 1 \in 0..n
      OBVIOUS
    <2> HIDE DEF n
    <2> QED BY <1>1, <1>2, <2>1 DEF Follows
  <1>4. after = Rhs(after)
    <2> HIDE DEF Rhs
    <2> QED BY <1>3
  <1>5. Container(base, customs, tf_ok) = after[n]
    BY DEF Container, offset
  <1> HIDE DEF after
  <1>6. ASSUME NEW i \in 0..(n - 1), after[i] \in T PROVE after[i + 1] \in T
    <2>1. i + 1 \in 1..n /\ i + 1 \in 0..n /\ i + 1 # 0 /\ (i + 1) - 1 = i
      OBVIOUS
    <2>2. after[i + 1] = WithMessage(after[i], customs[i + 1], offset)
      BY <1>4, <2>1
    <2> QED BY <1>0, <1>6, <2>1, <2>2
  <1>7. after[0] \in T /\ n \in 0..n /\ n \in Int /\ 0 \in Int
    BY <1>4
  <1> HIDE DEF n
  <1>8. \A i \in 0..n : after[i] \in T
    BY <1>6, <1>7, ValuesInduction, Zenon
  <1> QED BY <1>5, <1>7, <1>8

(* Adding an obstacle keeps those there are; an empty polygon adds none.   *)
LEMMA AddedTyped ==
    ASSUME NEW c \in Seq(AnyObstacle), NEW m \in ObstacleMessage, NEW offset \in Point
    PROVE  /\ Added(c, m, offset) \in Seq(AnyObstacle)
           /\ ~ m.empty => /\ Len(Added(c, m, offset)) = Len(c) + 1
                           /\ \A i \in 1..Len(c) : Added(c, m, offset)[i] = c[i]
                           /\ Added(c, m, offset)[Len(c) + 1] = Obstacle(Plus(m.at, offset), m.v)
  <1> DEFINE o == Obstacle(Plus(m.at, offset), m.v)
  <1>1. o \in AnyObstacle
    <2>1. Plus(m.at, offset) \in Point
      BY DEF ObstacleMessage, Point, Plus
    <2> QED BY <2>1 DEF Obstacle, AnyObstacle, ObstacleMessage
  <1> HIDE DEF o
  <1>2. Append(c, o) \in Seq(AnyObstacle)
    BY <1>1
  <1>3. Added(c, m, offset) = IF m.empty THEN c ELSE Append(c, o)
    BY DEF Added, o
  <1> QED BY <1>1, <1>2, <1>3 DEF o

(* A velocity changes the last obstacle only.                              *)
LEMMA WithVelocityTyped ==
    ASSUME NEW c \in Seq(AnyObstacle), NEW v \in Int
    PROVE  /\ WithVelocity(c, v) \in Seq(AnyObstacle)
           /\ Len(WithVelocity(c, v)) = Len(c)
           /\ \A i \in 1..Len(c) :
                 WithVelocity(c, v)[i] = IF v # 0 /\ i = Len(c) THEN [c[i] EXCEPT !.v = v] ELSE c[i]
  <1>1. CASE c = <<>> \/ v = 0
    BY <1>1 DEF WithVelocity
  <1>2. CASE c # <<>> /\ v # 0
    <2>1. WithVelocity(c, v) = [c EXCEPT ![Len(c)].v = v]
      BY <1>2 DEF WithVelocity
    <2>2. Len(c) \in 1..Len(c)
      BY <1>2
    <2>3. [c[Len(c)] EXCEPT !.v = v] \in AnyObstacle
      <3>1. \A o \in AnyObstacle : [o EXCEPT !.v = v] \in AnyObstacle
        BY DEF AnyObstacle
      <3>2. c[Len(c)] \in AnyObstacle
        BY <2>2
      <3> QED BY <3>1, <3>2
    <2> QED BY <1>2, <2>1, <2>2, <2>3
  <1> QED BY <1>1, <1>2

(* The containers are sequences of obstacles.                              *)
LEMMA ContainersTyped ==
    ASSUME NEW robot
    PROVE  /\ \A cells \in Cells : FromCostmap(cells, robot) \in Seq(AnyObstacle)
           /\ \A conv \in Converted : FromConverter(conv) \in Seq(AnyObstacle)
           /\ \A base \in Seq(AnyObstacle) : \A customs \in Customs : \A tf_ok \in BOOLEAN :
                 Container(base, customs, tf_ok) \in Seq(AnyObstacle)
  <1> DEFINE T == Seq(AnyObstacle)
  <1>1. /\ \A m \in Converted \cup Customs : m \in Seq(ObstacleMessage)
        /\ Cells \subseteq Seq(Point) /\ Shift \in Point /\ [x |-> 0, y |-> 0] \in Point
    BY StageAssumption DEF Point
  <1>2. <<>> \in T
    OBVIOUS
  <1>3. ASSUME NEW cells \in Cells PROVE FromCostmap(cells, robot) \in T
    <2>1. Len(cells) \in Nat /\ \A i \in 1..Len(cells) : cells[i] \in Point
      BY <1>1
    <2>2. \A i \in 1..Len(cells) : Obstacle(cells[i], 0) \in AnyObstacle
      BY <2>1 DEF Obstacle, AnyObstacle
    <2>3. \A c \in T : \A i \in 1..Len(cells) : Append(c, Obstacle(cells[i], 0)) \in T
      BY <2>2
    <2> HIDE DEF T
    <2> QED BY <1>2, <2>1, <2>3, CostmapKeeps, Zenon
  <1>4. ASSUME NEW conv \in Converted PROVE FromConverter(conv) \in T
    <2>1. Len(conv) \in Nat /\ \A i \in 1..Len(conv) : conv[i] \in ObstacleMessage
      BY <1>1
    <2>2. ASSUME NEW c \in T, NEW i \in 1..Len(conv) PROVE WithConverted(c, conv[i]) \in T
      <3>1. conv[i] \in ObstacleMessage /\ conv[i].v \in Int
        BY <2>1 DEF ObstacleMessage
      <3> QED BY <1>1, <3>1, AddedTyped, WithVelocityTyped DEF WithConverted
    <2> HIDE DEF T
    <2> QED BY <1>2, <2>1, <2>2, ConverterKeeps
  <1>5. ASSUME NEW base \in T, NEW customs \in Customs, NEW tf_ok \in BOOLEAN
        PROVE  Container(base, customs, tf_ok) \in T
    <2>1. Len(customs) \in Nat /\ \A i \in 1..Len(customs) : customs[i] \in ObstacleMessage
      BY <1>1
    <2>2. ASSUME NEW c \in T, NEW i \in 1..Len(customs), NEW at \in {Shift, [x |-> 0, y |-> 0]}
          PROVE  WithMessage(c, customs[i], at) \in T
      <3>1. customs[i] \in ObstacleMessage /\ customs[i].v \in Int /\ at \in Point
        BY <1>1, <2>1 DEF ObstacleMessage
      <3> QED BY <3>1, AddedTyped, WithVelocityTyped DEF WithMessage
    <2> HIDE DEF T
    <2> QED BY <2>1, <2>2, ContainerKeeps
  <1> QED BY <1>3, <1>4, <1>5

(* Containers in which every obstacle has the velocity of its message.     *)
Belonging == {c \in Seq(AnyObstacle) : \A i \in 1..Len(c) : c[i].v = c[i].of}

(* An obstacle that is added gets the velocity of its own message.         *)
LEMMA BelongsWhenAdded ==
    ASSUME NEW c \in Belonging, NEW m \in ObstacleMessage, ~ m.empty, NEW offset \in Point
    PROVE  WithVelocity(Added(c, m, offset), m.v) \in Belonging
  <1> DEFINE a == Added(c, m, offset)
             w == WithVelocity(a, m.v)
  <1>1. c \in Seq(AnyObstacle) /\ m.v \in Int /\ \A i \in 1..Len(c) : c[i].v = c[i].of
    BY DEF Belonging, ObstacleMessage
  <1>2. /\ a \in Seq(AnyObstacle) /\ Len(a) = Len(c) + 1
        /\ \A i \in 1..Len(c) : a[i] = c[i]
        /\ a[Len(c) + 1] = Obstacle(Plus(m.at, offset), m.v)
    BY <1>1, AddedTyped
  <1> HIDE DEF a
  <1>3. /\ w \in Seq(AnyObstacle) /\ Len(w) = Len(a)
        /\ \A i \in 1..Len(a) :
              w[i] = IF m.v # 0 /\ i = Len(a) THEN [a[i] EXCEPT !.v = m.v] ELSE a[i]
    BY <1>1, <1>2, WithVelocityTyped
  <1> HIDE DEF w
  <1>4. ASSUME NEW i \in 1..Len(w) PROVE w[i].v = w[i].of
    <2>1. CASE i # Len(a)
      <3>1. i \in 1..Len(c)
        BY <1>1, <1>2, <1>3, <2>1
      <3> QED BY <1>1, <1>2, <1>3, <2>1, <3>1
    <2>2. CASE i = Len(a)
      <3>1. a[i] = Obstacle(Plus(m.at, offset), m.v)
        BY <1>2, <2>2
      <3>2. a[i].v = 0 /\ a[i].of = m.v /\ [a[i] EXCEPT !.v = m.v].v = m.v
            /\ [a[i] EXCEPT !.v = m.v].of = m.v
        BY <3>1 DEF Obstacle
      <3> QED BY <1>3, <2>2, <3>2
    <2> QED BY <2>1, <2>2
  <1> QED BY <1>3, <1>4 DEF Belonging, w, a

(* A converter makes an obstacle from the points of a cluster, it has one  *)
(* point at least.                                                         *)
ConvertersGivePolygons == \A conv \in Converted : \A i \in 1..Len(conv) : ~ conv[i].empty

(* So the containers of all sources hold such obstacles only.              *)
LEMMA ContainersBelong ==
    ASSUME NEW robot
    PROVE  /\ \A cells \in Cells : FromCostmap(cells, robot) \in Belonging
           /\ ConvertersGivePolygons => \A conv \in Converted : FromConverter(conv) \in Belonging
           /\ \A base \in Belonging : \A customs \in Customs : \A tf_ok \in BOOLEAN :
                 Container(base, customs, tf_ok) \in Belonging
  <1>1. /\ \A m \in Converted \cup Customs : m \in Seq(ObstacleMessage)
        /\ Cells \subseteq Seq(Point) /\ Shift \in Point /\ [x |-> 0, y |-> 0] \in Point
    BY StageAssumption DEF Point
  <1>2. <<>> \in Belonging
    BY DEF Belonging
  <1>3. ASSUME NEW cells \in Cells PROVE FromCostmap(cells, robot) \in Belonging
    <2>1. Len(cells) \in Nat /\ \A i \in 1..Len(cells) : cells[i] \in Point
      BY <1>1
    <2>2. ASSUME NEW c \in Belonging, NEW i \in 1..Len(cells)
          PROVE  Append(c, Obstacle(cells[i], 0)) \in Belonging
      <3>1. Obstacle(cells[i], 0) \in AnyObstacle /\ Obstacle(cells[i], 0).v = 0
            /\ Obstacle(cells[i], 0).of = 0
        BY <2>1 DEF Obstacle, AnyObstacle
      <3>2. c \in Seq(AnyObstacle) /\ \A j \in 1..Len(c) : c[j].v = c[j].of
        BY DEF Belonging
      <3> DEFINE w == Append(c, Obstacle(cells[i], 0))
      <3>3. w \in Seq(AnyObstacle) /\ Len(w) = Len(c) + 1 /\ w[Len(c) + 1] = Obstacle(cells[i], 0)
            /\ \A j \in 1..Len(c) : w[j] = c[j]
        BY <3>1, <3>2
      <3> HIDE DEF w
      <3>4. ASSUME NEW j \in 1..Len(w) PROVE w[j].v = w[j].of
        <4>1. j \in 1..Len(c) \/ j = Len(c) + 1
          BY <3>2, <3>3
        <4> QED BY <3>1, <3>2, <3>3, <4>1
      <3>5. w \in Belonging
        BY <3>3, <3>4 DEF Belonging
      <3> QED BY <3>5 DEF w
    <2> QED BY <1>2, <2>1, <2>2, CostmapKeeps, Zenon
  <1>4. ASSUME ConvertersGivePolygons, NEW conv \in Converted
        PROVE  FromConverter(conv) \in Belonging
    <2>1. Len(conv) \in Nat /\ \A i \in 1..Len(conv) : conv[i] \in ObstacleMessage /\ ~ conv[i].empty
      BY <1>1, <1>4 DEF ConvertersGivePolygons
    <2>2. ASSUME NEW c \in Belonging, NEW i \in 1..Len(conv)
          PROVE  WithConverted(c, conv[i]) \in Belonging
      BY <1>1, <2>1, BelongsWhenAdded DEF WithConverted
    <2> QED BY <1>2, <2>1, <2>2, ConverterKeeps
  <1>5. ASSUME NEW base \in Belonging, NEW customs \in Customs, NEW tf_ok \in BOOLEAN
        PROVE  Container(base, customs, tf_ok) \in Belonging
    <2>1. Len(customs) \in Nat /\ \A i \in 1..Len(customs) : customs[i] \in ObstacleMessage
      BY <1>1
    <2>2. ASSUME NEW c \in Belonging, NEW i \in 1..Len(customs),
                 NEW at \in {Shift, [x |-> 0, y |-> 0]}
          PROVE  WithMessage(c, customs[i], at) \in Belonging
      <3>1. CASE customs[i].empty
        BY <3>1 DEF WithMessage
      <3>2. CASE ~ customs[i].empty
        BY <1>1, <2>1, <3>2, BelongsWhenAdded DEF WithMessage
      <3> QED BY <3>1, <3>2
    <2> QED BY <2>1, <2>2, ContainerKeeps
  <1> QED BY <1>3, <1>4, <1>5

-----------------------------------------------------------------------------
(* Inputs and functions                                                    *)

InputsTyped ==
    /\ obstacles \in Seq(AnyObstacle) /\ via_points \in Seq(Point)
    /\ \A k \in DOMAIN poses : poses[k] \in Pose

(* After an update the functions hold what their inputs give.              *)
FunctionsCurrent ==
    phase = "updated" =>
        \A k \in DOMAIN poses : /\ relevant[k] = Relevant(k) /\ relevant_dyn[k] = RelevantDyn(k)
                                /\ association[k].first = Association[k]

(* Obstacles, via-points and states always are what their types say.       *)
LEMMA InputsInvariant == Spec => []InputsTyped
  <1>1. Init => InputsTyped
    <2> SUFFICES ASSUME Init PROVE InputsTyped
      OBVIOUS
    <2>1. obstacles = <<>> /\ via_points = <<>> /\ poses = <<>> /\ DOMAIN <<>> = {}
      BY DEF Init
    <2> QED BY <2>1 DEF InputsTyped
  <1>2. ASSUME NEW t \in Trajectories, NEW base \in Seq(AnyObstacle), NEW customs \in Customs,
               NEW tf_ok \in BOOLEAN, NEW via \in ViaLists, Collect(t, base, customs, tf_ok, via)
        PROVE  InputsTyped'
    <2>1. obstacles' \in Seq(AnyObstacle)
      BY <1>2, ContainersTyped DEF Collect
    <2>2. via_points' \in Seq(Point)
      BY <1>2, StageAssumption DEF Collect
    <2>3. t \in Seq(Pose)
      BY StageAssumption
    <2>4. \A k \in 0..(Len(t) - 1) : t[k + 1] \in Pose
      BY <2>3
    <2>5. \A k \in DOMAIN poses' : poses'[k] \in Pose
      BY <1>2, <2>4 DEF Collect
    <2> QED BY <2>1, <2>2, <2>5 DEF InputsTyped
  <1>3. InputsTyped /\ [Next]_vars => InputsTyped'
    <2> SUFFICES ASSUME InputsTyped, [Next]_vars PROVE InputsTyped'
      OBVIOUS
    <2>1. CASE \E v \in BOOLEAN : Update(v)
      BY <2>1 DEF InputsTyped, Update, inputs
    <2>2. CASE UNCHANGED vars
      BY <2>2 DEF InputsTyped, vars, inputs
    <2>3. CASE \E t \in Trajectories, customs \in Customs, tf_ok \in BOOLEAN, via \in ViaLists :
                  \/ \E cells \in Cells : Collect(t, FromCostmap(cells, t[1]), customs, tf_ok, via)
                  \/ \E conv \in Converted : Collect(t, FromConverter(conv), customs, tf_ok, via)
      BY <1>2, <2>3, ContainersTyped
    <2> QED BY <2>1, <2>2, <2>3 DEF Next
  <1> QED BY <1>1, <1>3, PTL DEF Spec

(* The functions depend on nothing but the inputs and the configuration.   *)
LEMMA SameInputsSameFunctions ==
    ASSUME poses' = poses, obstacles' = obstacles, via_points' = via_points,
           ordered' = ordered, dynamic' = dynamic
    PROVE  /\ \A k : Relevant(k)' = Relevant(k) /\ RelevantDyn(k)' = RelevantDyn(k)
           /\ Association' = Association
  <1>1. \A k : Relevant(k)' = Relevant(k)
    BY DEF Relevant, Forced, Fixed, Moving, Nearest, Left, Right, Near, Dist
  <1>2. \A k : RelevantDyn(k)' = RelevantDyn(k)
    BY DEF RelevantDyn, Moving
  <1>3. Association' = Association
    BY DEF Association, Closest, ClosestPose, NextStart, StateOf, N
  <1> QED BY <1>1, <1>2, <1>3

(* An update computes all functions anew, from inputs that do not change   *)
(* until the next step collects new ones.                                  *)
LEMMA FunctionsInvariant == Spec => []FunctionsCurrent
  <1>1. Init => FunctionsCurrent
    <2> SUFFICES ASSUME Init PROVE FunctionsCurrent
      OBVIOUS
    <2>1. poses = <<>> /\ DOMAIN <<>> = {}
      BY DEF Init
    <2> QED BY <2>1 DEF FunctionsCurrent
  <1>2. ASSUME NEW v \in BOOLEAN, Update(v) PROVE FunctionsCurrent'
    <2>1. /\ poses' = poses /\ obstacles' = obstacles /\ via_points' = via_points
          /\ ordered' = ordered /\ dynamic' = dynamic
      BY <1>2 DEF Update, inputs, config
    <2>2. \A k \in DOMAIN poses' :
             /\ relevant'[k] = Relevant(k) /\ relevant_dyn'[k] = RelevantDyn(k)
             /\ association'[k].first = Association[k]
      BY <1>2, <2>1 DEF Update
    <2> QED BY <2>1, <2>2, SameInputsSameFunctions DEF FunctionsCurrent
  <1>3. FunctionsCurrent /\ [Next]_vars => FunctionsCurrent'
    <2> SUFFICES ASSUME FunctionsCurrent, [Next]_vars PROVE FunctionsCurrent'
      OBVIOUS
    <2>1. CASE \E v \in BOOLEAN : Update(v)
      BY <1>2, <2>1
    <2>2. CASE UNCHANGED vars
      <3>1. /\ poses' = poses /\ obstacles' = obstacles /\ via_points' = via_points
            /\ ordered' = ordered /\ dynamic' = dynamic /\ phase' = phase
            /\ relevant' = relevant /\ relevant_dyn' = relevant_dyn /\ association' = association
        BY <2>2 DEF vars, inputs, config, functions
      <3> QED BY <3>1, SameInputsSameFunctions DEF FunctionsCurrent
    <2>3. CASE phase' = "collected"
      BY <2>3 DEF FunctionsCurrent
    <2> QED BY <2>1, <2>2, <2>3 DEF Next, Collect
  <1> QED BY <1>1, <1>3, PTL DEF Spec

-----------------------------------------------------------------------------
(* The obstacle filter                                                     *)

(* Squared distances are natural numbers.                                  *)
LEMMA DistNat ==
    ASSUME InputsTyped, NEW k \in DOMAIN poses, NEW i \in 1..Len(obstacles)
    PROVE  Dist(k, i) \in Nat
  <1>1. poses[k].at \in Point /\ obstacles[i].at \in Point
    <2>1. poses[k] \in Pose /\ obstacles[i] \in AnyObstacle
      BY DEF InputsTyped
    <2> QED BY <2>1 DEF Pose, AnyObstacle
  <1>2. \A p, q \in Point : SqDist(p, q) \in Nat
    <2> SUFFICES ASSUME NEW p \in Point, NEW q \in Point PROVE SqDist(p, q) \in Nat
      OBVIOUS
    <2>1. p.x - q.x \in Int /\ p.y - q.y \in Int
      BY DEF Point
    <2>2. \A a \in Int : a * a \in Nat
      OBVIOUS
    <2> QED BY <2>1, <2>2 DEF SqDist
  <1> QED BY <1>1, <1>2 DEF Dist

(* Among candidates there is a nearest one, and no more than one.          *)
LEMMA NearestOne ==
    ASSUME InputsTyped, NEW k \in DOMAIN poses, NEW S, S \subseteq 1..Len(obstacles)
    PROVE  /\ S # {} => \E i \in Nearest(k, S) : \A j \in S : Dist(k, i) <= Dist(k, j)
           /\ \A i, j \in Nearest(k, S) : i = j
           /\ Nearest(k, S) \subseteq S
  <1>1. \A i \in S : Dist(k, i) \in Nat
    BY DistNat
  <1>2. S \subseteq Nat
    OBVIOUS
  <1>3. ASSUME S # {} PROVE \E i \in Nearest(k, S) : \A j \in S : Dist(k, i) <= Dist(k, j)
    <2> DEFINE D == [i \in S |-> Dist(k, i)]
    <2>1. D \in [S -> Nat]
      BY <1>1
    <2>2. \E i \in S : \A j \in S : D[i] < D[j] \/ (D[i] = D[j] /\ i <= j)
      <3> HIDE DEF D
      <3> QED BY <1>2, <1>3, <2>1, FirstMinimum
    <2>3. PICK i \in S : \A j \in S : D[i] < D[j] \/ (D[i] = D[j] /\ i <= j)
      BY <2>2
    <2>4. i \in Nearest(k, S)
      BY <2>3 DEF Nearest
    <2>5. \A j \in S : Dist(k, i) <= Dist(k, j)
      BY <1>1, <2>3
    <2> QED BY <2>4, <2>5
  <1>4. ASSUME NEW i \in Nearest(k, S), NEW j \in Nearest(k, S) PROVE i = j
    <2>1. i \in S /\ j \in S /\ i \in Nat /\ j \in Nat
      BY <1>2 DEF Nearest
    <2>2. /\ Dist(k, i) < Dist(k, j) \/ (Dist(k, i) = Dist(k, j) /\ i <= j)
          /\ Dist(k, j) < Dist(k, i) \/ (Dist(k, j) = Dist(k, i) /\ j <= i)
      BY <2>1 DEF Nearest
    <2> QED BY <1>1, <2>1, <2>2
  <1> QED BY <1>3, <1>4 DEF Nearest

(* At every state but the first, the filter keeps all static obstacles     *)
(* that are very close, one at minimal distance if any is within the       *)
(* cutoff, two others at most, and every obstacle that moves.              *)
THEOREM NearestAlwaysConsidered == Spec => []NearestConsidered
  <1>1. ASSUME InputsTyped, FunctionsCurrent PROVE NearestConsidered
    <2> SUFFICES ASSUME phase = "updated", NEW k \in DOMAIN poses \ {0}
                 PROVE  LET close == {i \in Fixed : Dist(k, i) <= CutoffSq}
                        IN  /\ close # {} => \E i \in relevant[k] :
                                                \A j \in close : Dist(k, i) <= Dist(k, j)
                            /\ Forced(k) \subseteq relevant[k]
                            /\ Cardinality(relevant[k] \ Forced(k)) <= 2
                            /\ \A i \in 1..Len(obstacles) : Moving(i) => i \in relevant_dyn[k]
      BY DEF NearestConsidered
    <2> DEFINE close == {i \in Fixed : Dist(k, i) <= CutoffSq}
               A == Nearest(k, Left(k))
               B == Nearest(k, Right(k))
    <2>1. relevant[k] = Forced(k) \cup A \cup B /\ relevant_dyn[k] = RelevantDyn(k)
      BY <1>1 DEF FunctionsCurrent, Relevant
    <2>2. /\ Fixed \subseteq 1..Len(obstacles) /\ Forced(k) \subseteq Fixed
          /\ Near(k) \subseteq Fixed /\ Left(k) \subseteq Near(k) /\ Right(k) \subseteq Near(k)
          /\ Near(k) = Left(k) \cup Right(k)
      BY DEF Fixed, Forced, Near, Left, Right
    <2>3. \A i \in Fixed : Dist(k, i) \in Nat
      BY <1>1, <2>2, DistNat
    <2>4. ForceSq \in Nat /\ CutoffSq \in Nat
      BY StageAssumption
    <2>5. ASSUME close # {}
          PROVE  \E i \in relevant[k] : \A j \in close : Dist(k, i) <= Dist(k, j)
      <3>1. CASE Forced(k) # {}
        <4>1. PICK i \in Nearest(k, Forced(k)) : \A j \in Forced(k) : Dist(k, i) <= Dist(k, j)
          BY <1>1, <2>2, <3>1, NearestOne
        <4>2. i \in Forced(k)
          BY <4>1 DEF Nearest
        <4>3. \A j \in close : Dist(k, i) <= Dist(k, j)
          BY <2>2, <2>3, <2>4, <4>1, <4>2 DEF Forced
        <4> QED BY <2>1, <4>2, <4>3
      <3>2. CASE Forced(k) = {}
        <4>1. close = Near(k)
          BY <3>2 DEF Near
        <4>2. PICK i \in Nearest(k, Near(k)) : \A j \in Near(k) : Dist(k, i) <= Dist(k, j)
          BY <1>1, <2>2, <2>5, <4>1, NearestOne
        <4>3. i \in A \cup B
          BY <2>2, <4>2 DEF Nearest
        <4> QED BY <2>1, <4>1, <4>2, <4>3
      <3> QED BY <3>1, <3>2
    <2>6. Cardinality(relevant[k] \ Forced(k)) <= 2
      <3>1. (\A i, j \in A : i = j) /\ (\A i, j \in B : i = j)
        BY <1>1, <2>2, NearestOne
      <3>2. \E a, b : A \subseteq {a} /\ B \subseteq {b}
        <4> HIDE DEF A, B
        <4>1. (\E a : A \subseteq {a}) /\ (\E b : B \subseteq {b})
          BY <3>1
        <4> QED BY <4>1
      <3>3. PICK a, b : A \subseteq {a} /\ B \subseteq {b}
        BY <3>2
      <3>4. relevant[k] \ Forced(k) = (relevant[k] \ Forced(k)) \cap {a, b}
        BY <2>1, <3>3
      <3>5. Cardinality((relevant[k] \ Forced(k)) \cap {a, b}) \in 0..2
        BY AtMostTwo
      <3> QED BY <3>4, <3>5
    <2>7. \A i \in 1..Len(obstacles) : Moving(i) => i \in relevant_dyn[k]
      BY <2>1 DEF RelevantDyn
    <2> QED BY <2>1, <2>5, <2>6, <2>7
  <1> QED BY <1>1, InputsInvariant, FunctionsInvariant, PTL

(* Every obstacle of the problem has the velocity of its own message,      *)
(* provided that converters deliver no obstacle without a polygon.         *)
THEOREM VelocitiesBelong == Spec => [](ConvertersGivePolygons => VelocityBelongs)
  <1> DEFINE Inv == ConvertersGivePolygons => obstacles \in Belonging
  <1>1. Init => Inv
    BY DEF Init, Belonging
  <1>2. Inv /\ [Next]_vars => Inv'
    <2> SUFFICES ASSUME ConvertersGivePolygons, obstacles \in Belonging, [Next]_vars
                 PROVE  obstacles' \in Belonging
      OBVIOUS
    <2>1. CASE \E v \in BOOLEAN : Update(v)
      BY <2>1 DEF Update, inputs
    <2>2. CASE UNCHANGED vars
      BY <2>2 DEF vars, inputs
    <2>3. ASSUME NEW t \in Trajectories, NEW base \in Belonging, NEW customs \in Customs,
                 NEW tf_ok \in BOOLEAN, NEW via, Collect(t, base, customs, tf_ok, via)
          PROVE  obstacles' \in Belonging
      BY <2>3, ContainersBelong DEF Collect
    <2> QED BY <2>1, <2>2, <2>3, ContainersBelong DEF Next
  <1>3. Inv => (ConvertersGivePolygons => VelocityBelongs)
    BY DEF Belonging, VelocityBelongs
  <1> QED BY <1>1, <1>2, <1>3, PTL DEF Spec

-----------------------------------------------------------------------------
(* Via-points                                                              *)

(* A search finds the first of the closest among its candidates.           *)
LEMMA PoseFound ==
    ASSUME InputsTyped, NEW last \in Nat \ {0}, DOMAIN poses = 0..last,
           NEW p \in Point, NEW start \in Nat
    PROVE  ClosestPose(p, start) \in (start..(last - 1)) \cup {last}
  <1> DEFINE S == (start..(last - 1)) \cup {last}
             D == [i \in S |-> SqDist(p, poses[i].at)]
  <1>1. N = last + 1 /\ N - 2 = last - 1 /\ N - 1 = last
    BY NumberOfStates
  <1>2. S \subseteq Nat /\ S # {} /\ S \subseteq 0..last
    OBVIOUS
  <1>3. \A i \in S : SqDist(p, poses[i].at) \in Nat
    <2> SUFFICES ASSUME NEW i \in S PROVE SqDist(p, poses[i].at) \in Nat
      OBVIOUS
    <2>1. poses[i] \in Pose
      BY <1>2 DEF InputsTyped
    <2>2. p.x - poses[i].at.x \in Int /\ p.y - poses[i].at.y \in Int
      BY <2>1 DEF Pose, Point
    <2>3. \A a \in Int : a * a \in Nat
      OBVIOUS
    <2> QED BY <2>2, <2>3 DEF SqDist
  <1>4. D \in [S -> Nat]
    BY <1>3
  <1>5. PICK i \in S : \A j \in S : D[i] < D[j] \/ (D[i] = D[j] /\ i <= j)
    <2> HIDE DEF D, S
    <2> QED BY <1>2, <1>4, FirstMinimum
  <1>6. \A j \in S : \/ SqDist(p, poses[i].at) < SqDist(p, poses[j].at)
                     \/ SqDist(p, poses[i].at) = SqDist(p, poses[j].at) /\ i <= j
    BY <1>5
  <1>7. ClosestPose(p, start) \in S
    <2> HIDE DEF D
    <2> QED BY <1>1, <1>6 DEF ClosestPose
  <1> QED BY <1>7

(* The closest pose of each via-point is found from the one before.        *)
LEMMA ClosestFollows ==
    ASSUME InputsTyped, NEW last \in Nat \ {0}, DOMAIN poses = 0..last,
           Len(via_points) \in Nat \ {0}
    PROVE  /\ Closest[1] = ClosestPose(via_points[1], 0)
           /\ \A j \in 1..(Len(via_points) - 1) :
                 Closest[j + 1] = ClosestPose(via_points[j + 1], NextStart(Closest[j]))
  <1> DEFINE n == Len(via_points)
             T == 0..last
             Rhs(g) == [j \in 1..n |->
                           ClosestPose(via_points[j], IF j = 1 THEN 0 ELSE NextStart(g[j - 1]))]
             step == [q \in (1..n) \X T |-> ClosestPose(via_points[q[1]], NextStart(q[2]))]
             first == ClosestPose(via_points[1], 0)
             closest == CHOOSE g : g = Rhs(g)
  <1>1. \A j \in 1..n : via_points[j] \in Point
    BY DEF InputsTyped
  <1>2. \A c \in T : NextStart(c) \in Nat
    BY DEF NextStart
  <1>3. first \in T
    BY <1>1, PoseFound
  <1>4. ASSUME NEW j \in (1..n) \ {1}, NEW c \in T
        PROVE  /\ step[<<j, c>>] = ClosestPose(via_points[j], NextStart(c))
               /\ step[<<j, c>>] \in T
    <2>1. ClosestPose(via_points[j], NextStart(c)) \in T
      BY <1>1, <1>2, PoseFound
    <2> QED BY <2>1
  <1> HIDE DEF step, first
  <1>5. PICK g : Follows(g, T, 1, n, first, step)
    <2>1. n \in Int /\ 1 \in Int /\ 1 <= n
      OBVIOUS
    <2> HIDE DEF n, T
    <2>2. StaysIn(T, 1, n, step)
      BY <1>4 DEF StaysIn
    <2> QED BY <1>3, <2>1, <2>2, Recursion
  <1>6. g = Rhs(g)
    <2>1. \A j \in (1..n) \ {1} : j - 1 \in 1..n
      OBVIOUS
    <2>2. \A j \in (1..n) \ {1} : g[j] = ClosestPose(via_points[j], NextStart(g[j - 1]))
      <3> HIDE DEF n, T
      <3> QED BY <1>4, <1>5, <2>1 DEF Follows
    <2>3. g \in [1..n -> T] /\ g[1] = first
      BY <1>5 DEF Follows
    <2> HIDE DEF n, T
    <2> QED BY <2>2, <2>3 DEF first
  <1>7. closest = Rhs(closest)
    <2> HIDE DEF Rhs
    <2> QED BY <1>6
  <1>8. Closest = closest
    BY DEF Closest
  <1> HIDE DEF closest
  <1>9. closest[1] = ClosestPose(via_points[1], 0)
    BY <1>7
  <1>10. ASSUME NEW j \in 1..(n - 1)
         PROVE  closest[j + 1] = ClosestPose(via_points[j + 1], NextStart(closest[j]))
    <2>1. j + 1 \in 1..n /\ j + 1 # 1 /\ (j + 1) - 1 = j
      OBVIOUS
    <2> QED BY <1>7, <2>1
  <1> QED BY <1>8, <1>9, <1>10

(* With ordered via-points a search starts two states behind the last      *)
(* match, unless that is the final state.                                  *)
Spread(closest, last, j) ==
    /\ closest[j] \in 0..last
    /\ \A i \in 1..(j - 1) : /\ closest[i] \in 0..last
                             /\ closest[j] = last \/ closest[i] + 2 <= closest[j]

LEMMA ClosestSpread ==
    ASSUME InputsTyped, ordered, NEW last \in Nat \ {0}, DOMAIN poses = 0..last
    PROVE  \A j \in 1..Len(via_points) : Spread(Closest, last, j)
  <1> DEFINE n == Len(via_points)
             S == {j \in 1..n : Spread(Closest, last, j)}
  <1>1. n \in Nat /\ \A j \in 1..n : via_points[j] \in Point
    BY DEF InputsTyped
  <1>2. CASE n = 0
    BY <1>2
  <1>3. CASE n # 0
    <2>1. /\ Closest[1] = ClosestPose(via_points[1], 0)
          /\ \A j \in 1..(n - 1) :
                Closest[j + 1] = ClosestPose(via_points[j + 1], NextStart(Closest[j]))
      BY <1>1, <1>3, ClosestFollows
    <2>2. 1 \in S
      <3>1. Closest[1] \in (0..(last - 1)) \cup {last}
        BY <1>1, <1>3, <2>1, PoseFound
      <3>2. Closest[1] \in 0..last /\ 1..(1 - 1) = {} /\ 1 \in 1..n
        BY <1>1, <1>3, <3>1
      <3> QED BY <3>2 DEF Spread
    <2>3. ASSUME NEW j \in 1..(n - 1), j \in S PROVE j + 1 \in S
      <3>1. Spread(Closest, last, j)
        BY <2>3
      <3>2. Closest[j] \in 0..last /\ NextStart(Closest[j]) = Closest[j] + 2
        BY <3>1 DEF Spread, NextStart
      <3>3. j + 1 \in 1..n
        BY <1>1
      <3>4. Closest[j + 1] \in ((Closest[j] + 2)..(last - 1)) \cup {last}
        BY <1>1, <2>1, <3>2, <3>3, PoseFound
      <3>5. Closest[j + 1] \in 0..last
        BY <3>2, <3>4
      <3>6. ASSUME NEW i \in 1..((j + 1) - 1)
            PROVE  /\ Closest[i] \in 0..last
                   /\ Closest[j + 1] = last \/ Closest[i] + 2 <= Closest[j + 1]
        <4>1. CASE i = j
          BY <3>2, <3>4, <4>1
        <4>2. CASE i # j
          <5>1. i \in 1..(j - 1) /\ i \in 1..n
            BY <1>1, <4>2
          <5>2. /\ Closest[i] \in 0..last
                /\ Closest[j] = last \/ Closest[i] + 2 <= Closest[j]
            BY <3>1, <5>1 DEF Spread
          <5>3. \A b \in 0..last : \A c \in (b + 2)..(last - 1) : b # last /\ b <= c
            OBVIOUS
          <5>4. Closest[j + 1] = last \/ (Closest[j] # last /\ Closest[j] <= Closest[j + 1])
            BY <3>2, <3>4, <5>3
          <5>5. \A a, b, c \in 0..last : a + 2 <= b /\ b <= c => a + 2 <= c
            OBVIOUS
          <5> HIDE DEF S, n
          <5> QED BY <3>2, <3>5, <5>2, <5>4, <5>5
        <4> QED BY <4>1, <4>2
      <3> QED BY <3>3, <3>5, <3>6 DEF Spread
    <2>4. \A j \in 1..n : j \in S
      <3> HIDE DEF S, n
      <3>1. n \in Int /\ 1 \in Int
        BY <1>1
      <3> QED BY <2>2, <2>3, <3>1, IntervalInduction
    <2> QED BY <2>4
  <1> QED BY <1>2, <1>3

(* Ordered via-points are tied to states in their order, each to exactly   *)
(* one that can be moved; two share a state only at the end.               *)
THEOREM ViaPointsAlwaysInOrder == Spec => []ViaPointsInOrder
  <1>1. ASSUME IInv, InputsTyped, FunctionsCurrent PROVE ViaPointsInOrder
    <2> SUFFICES ASSUME ordered, phase = "updated" PROVE ViaPointsInOrder
      BY DEF ViaPointsInOrder
    <2>1. CASE poses = <<>>
      <3>1. DOMAIN poses = {} /\ N = 0
        BY <2>1, FS_EmptySet DEF N
      <3> QED BY <3>1 DEF ViaPointsInOrder
    <2>2. CASE poses # <<>>
      <3>1. PICK last \in Nat \ {0} : DOMAIN poses = 0..last
        BY <1>1, <2>2 DEF IInv, Numbered
      <3>2. N = last + 1 /\ N - 2 = last - 1
        BY <3>1, NumberOfStates
      <3>3. \A j \in 1..Len(via_points) : Spread(Closest, last, j)
        BY <1>1, <3>1, ClosestSpread
      <3>4. \A k \in 0..last : association[k].first = {j \in 1..Len(via_points) : StateOf(Closest[j]) = k}
        BY <1>1, <3>1 DEF FunctionsCurrent, Association
      <3>5. \A c \in 0..last : StateOf(c) = IF c > last - 1 THEN IF last - 1 >= 1 THEN last - 1 ELSE 1
                                            ELSE IF c >= 1 THEN c ELSE 1
        BY <3>2 DEF StateOf
      <3>6. ASSUME NEW k \in DOMAIN poses, NEW l \in DOMAIN poses,
                   NEW i \in association[k].first, NEW j \in association[l].first, i < j
            PROVE  k < l \/ (k = l /\ k >= N - 2)
        <4>1. /\ i \in 1..Len(via_points) /\ j \in 1..Len(via_points) /\ Len(via_points) \in Nat
              /\ StateOf(Closest[i]) = k /\ StateOf(Closest[j]) = l
          BY <1>1, <3>1, <3>4, <3>6 DEF InputsTyped
        <4>2. i \in 1..(j - 1)
          BY <3>6, <4>1
        <4>3. /\ Closest[i] \in 0..last /\ Closest[j] \in 0..last
              /\ Closest[j] = last \/ Closest[i] + 2 <= Closest[j]
          BY <3>3, <4>1, <4>2 DEF Spread
        <4> DEFINE a == Closest[i]
                   b == Closest[j]
        <4>4. /\ k = IF a > last - 1 THEN IF last - 1 >= 1 THEN last - 1 ELSE 1
                     ELSE IF a >= 1 THEN a ELSE 1
              /\ l = IF b > last - 1 THEN IF last - 1 >= 1 THEN last - 1 ELSE 1
                     ELSE IF b >= 1 THEN b ELSE 1
          BY <3>5, <4>1, <4>3
        <4> HIDE DEF a, b
        <4>5. a \in 0..last /\ b \in 0..last /\ (b = last \/ a + 2 <= b)
          BY <4>3 DEF a, b
        <4> QED BY <3>2, <4>4, <4>5
      <3>7. ASSUME N >= 3, NEW j \in 1..Len(via_points)
            PROVE  \E k \in 1..(N - 2) : j \in association[k].first
        <4>1. Closest[j] \in 0..last
          BY <3>3 DEF Spread
        <4>2. StateOf(Closest[j]) \in 1..(N - 2) /\ 1..(N - 2) \subseteq 0..last
          BY <3>2, <3>5, <3>7, <4>1
        <4> QED BY <3>4, <4>2
      <3> QED BY <3>6, <3>7 DEF ViaPointsInOrder
    <2> QED BY <2>1, <2>2
  <1> QED BY <1>1, Invariance, InputsInvariant, FunctionsInvariant, PTL
=============================================================================
