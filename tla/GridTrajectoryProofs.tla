------------------------ MODULE GridTrajectoryProofs ------------------------
(* Proofs about the operators of GridTrajectory, for all resolutions,      *)
(* grid sizes and states: angles, and the sampling of the collision check. *)
EXTENDS GridTrajectory, InductionLemmas, TLAPS

LEMMA Division ==
    ASSUME NEW n \in Nat \ {0}, NEW a \in Int
    PROVE  a \div n \in Int /\ a % n \in 0..(n - 1) /\ a = n * (a \div n) + (a % n)
  OBVIOUS

LEMMA WholeTurns ==
    ASSUME NEW n \in Nat \ {0}, NEW q \in Int
    PROVE  (n * q) % n = 0
  <1> DEFINE b == (n * q) \div n
             s == (n * q) % n
  <1>1. n * q \in Int
    OBVIOUS
  <1>2. n * q = n * b + s /\ b \in Int /\ s \in 0..(n - 1)
    BY <1>1
  <1> HIDE DEF b, s
  <1>3. n * (q - b) = s
    BY <1>2
  <1>4. CASE q = b
    BY <1>2, <1>4 DEF s
  <1>5. CASE q > b
    <2>1. n * (q - b) >= n
      BY <1>2, <1>5
    <2> QED
      BY <1>2, <1>3, <2>1
  <1>6. CASE q < b
    <2>1. n * (b - q) >= n /\ n * (q - b) = -(n * (b - q))
      BY <1>2, <1>6
    <2> QED
      BY <1>2, <1>3, <2>1
  <1> QED
    BY <1>2, <1>4, <1>5, <1>6

(* normalize_theta returns an angle in [-pi, pi) that differs from its     *)
(* argument by full turns.                                                 *)
LEMMA NormalizeRange ==
    ASSUME NEW a \in Int
    PROVE  /\ NormalizeTheta(a) \in -Half..(Half - 1)
           /\ (a - NormalizeTheta(a)) % (2 * Half) = 0
  <1> DEFINE turn == 2 * Half
             rest == a % turn
             q    == a \div turn
  <1>1. turn \in Nat \ {0} /\ Half \in Nat \ {0}
    BY TrajectoryAssumption
  <1>2. rest \in 0..(turn - 1) /\ q \in Int /\ a = turn * q + rest
    <2> HIDE DEF turn
    <2> QED
      BY <1>1, Division
  <1>3. NormalizeTheta(a) \in {a, rest, rest - turn}
    BY DEF NormalizeTheta
  <1>4. NormalizeTheta(a) \in -Half..(Half - 1)
    <2>1. CASE -Half <= a /\ a < Half
      BY <1>1, <2>1 DEF NormalizeTheta
    <2>2. CASE ~ (-Half <= a /\ a < Half)
      <3>1. NormalizeTheta(a) = IF rest >= Half THEN rest - turn ELSE rest
        BY <2>2 DEF NormalizeTheta
      <3> HIDE DEF rest
      <3> QED
        BY <1>1, <1>2, <3>1
    <2> QED
      BY <2>1, <2>2
  <1>5. (turn * q) % turn = 0 /\ (turn * (q + 1)) % turn = 0 /\ (turn * 0) % turn = 0
    <2>1. turn \in Nat \ {0} /\ q \in Int
      BY <1>1, <1>2
    <2> HIDE DEF turn, q
    <2> QED
      BY <2>1, WholeTurns
  <1>6. a - NormalizeTheta(a) \in {turn * 0, turn * q, turn * (q + 1)}
    <2>1. turn * 0 = 0 /\ turn * (q + 1) = turn * q + turn /\ turn * q \in Int
      BY <1>1, <1>2
    <2>2. a - a = 0 /\ a - rest = turn * q /\ a - (rest - turn) = turn * q + turn
      BY <1>1, <1>2, <2>1
    <2> QED
      BY <1>3, <2>1, <2>2
  <1> QED
    BY <1>4, <1>5, <1>6

-----------------------------------------------------------------------------
(* Angles that differ by full turns                                        *)

SameAngle(a, b) == \E q \in Int : a - b = 2 * Half * q

LEMMA HalfPositive == Half \in Nat \ {0} /\ 2 * Half \in Nat \ {0}
  BY TrajectoryAssumption

LEMMA SameAngles ==
    ASSUME NEW a \in Int, NEW b \in Int, NEW c \in Int, NEW d \in Int
    PROVE  /\ SameAngle(a, a)
           /\ SameAngle(a, b) => SameAngle(b, a)
           /\ SameAngle(a, b) /\ SameAngle(c, d)
                 => SameAngle(a + c, b + d) /\ SameAngle(a - c, b - d)
           /\ SameAngle(a, b) /\ SameAngle(b, c) => SameAngle(a, c)
  <1> DEFINE turn == 2 * Half
  <1>1. turn \in Int
    BY HalfPositive
  <1>2. \A p, q \in Int : /\ turn * (p + q) = turn * p + turn * q
                          /\ turn * (p - q) = turn * p - turn * q
                          /\ turn * (-q) = -(turn * q) /\ turn * 0 = 0
                          /\ turn * p \in Int
    <2> HIDE DEF turn
    <2> QED
      BY <1>1
  <1> HIDE DEF turn
  <1>3. \A x, y : SameAngle(x, y) <=> \E q \in Int : x - y = turn * q
    BY DEF SameAngle, turn
  <1>4. SameAngle(a, a)
    <2>1. a - a = turn * 0 /\ 0 \in Int
      BY <1>2
    <2> QED
      BY <1>3, <2>1
  <1>5. ASSUME SameAngle(a, b) PROVE SameAngle(b, a)
    <2>1. PICK q \in Int : a - b = turn * q
      BY <1>3, <1>5
    <2>2. b - a = turn * (-q) /\ -q \in Int
      BY <1>2, <2>1
    <2> QED
      BY <1>3, <2>2
  <1>6. ASSUME SameAngle(a, b), SameAngle(c, d)
        PROVE  SameAngle(a + c, b + d) /\ SameAngle(a - c, b - d)
    <2>1. PICK p \in Int : a - b = turn * p
      BY <1>3, <1>6
    <2>2. PICK q \in Int : c - d = turn * q
      BY <1>3, <1>6
    <2>3. (a + c) - (b + d) = turn * (p + q) /\ (a - c) - (b - d) = turn * (p - q)
      <3>1. /\ turn * (p + q) = turn * p + turn * q /\ turn * (p - q) = turn * p - turn * q
            /\ turn * p \in Int /\ turn * q \in Int
        BY <1>2
      <3> QED
        BY <2>1, <2>2, <3>1
    <2>4. p + q \in Int /\ p - q \in Int
      OBVIOUS
    <2> QED
      BY <1>3, <2>3, <2>4
  <1>7. ASSUME SameAngle(a, b), SameAngle(b, c) PROVE SameAngle(a, c)
    <2>1. PICK p \in Int : a - b = turn * p
      BY <1>3, <1>7
    <2>2. PICK q \in Int : b - c = turn * q
      BY <1>3, <1>7
    <2>3. a - c = turn * (p + q) /\ p + q \in Int
      BY <1>2, <2>1, <2>2
    <2> QED
      BY <1>3, <2>3
  <1> QED
    BY <1>4, <1>5, <1>6, <1>7

LEMMA SumOfAngles ==
    ASSUME NEW a \in Int, NEW b \in Int, SameAngle(a, b),
           NEW c \in Int, NEW d \in Int, SameAngle(c, d)
    PROVE  SameAngle(a + c, b + d) /\ SameAngle(a - c, b - d)
  BY SameAngles

(* A normalised angle stands for all that differ from it by full turns.    *)
LEMMA NormalizeCanonical ==
    ASSUME NEW a \in Int
    PROVE  /\ NormalizeTheta(a) \in Int /\ NormalizeTheta(a) \in -Half..(Half - 1)
           /\ SameAngle(a, NormalizeTheta(a))
           /\ \A b \in Int : SameAngle(a, b) => NormalizeTheta(a) = NormalizeTheta(b)
           /\ a \in -Half..(Half - 1) => NormalizeTheta(a) = a
  <1> DEFINE turn == 2 * Half
  <1>1. turn \in Nat \ {0} /\ Half \in Nat
    BY HalfPositive
  <1>2. \A x \in Int : NormalizeTheta(x) \in Int /\ NormalizeTheta(x) \in -Half..(Half - 1)
    BY <1>1, NormalizeRange
  <1>3. ASSUME NEW x \in Int PROVE SameAngle(x, NormalizeTheta(x))
    <2> DEFINE y == x - NormalizeTheta(x)
    <2>1. y \in Int /\ y % turn = 0
      BY <1>2, NormalizeRange
    <2> HIDE DEF y, turn
    <2>2. y = turn * (y \div turn) + (y % turn) /\ y \div turn \in Int
      BY <1>1, <2>1, Division
    <2>3. y = turn * (y \div turn)
      BY <1>1, <2>1, <2>2
    <2> QED
      BY <2>2, <2>3 DEF SameAngle, y, turn
  <1>4. ASSUME NEW b \in Int, SameAngle(a, b) PROVE NormalizeTheta(a) = NormalizeTheta(b)
    <2> DEFINE na == NormalizeTheta(a)
               nb == NormalizeTheta(b)
    <2>1. na \in Int /\ nb \in Int /\ na - nb < turn /\ nb - na < turn
      BY <1>1, <1>2
    <2>2. SameAngle(na, nb)
      <3>1. SameAngle(na, a) /\ SameAngle(b, nb)
        BY <1>3, <2>1, SameAngles
      <3> HIDE DEF na, nb
      <3>2. SameAngle(na, b)
        BY <1>4, <2>1, <3>1, SameAngles
      <3> QED
        BY <2>1, <3>1, <3>2, SameAngles
    <2>3. PICK q \in Int : na - nb = turn * q
      BY <2>2 DEF SameAngle
    <2> SUFFICES na = nb
      OBVIOUS
    <2> HIDE DEF na, nb, turn
    <2>4. CASE q >= 1
      <3>1. turn * (q - 1) >= 0 /\ turn * (q - 1) = turn * q - turn
        BY <1>1, <2>4
      <3> QED
        BY <1>1, <2>1, <2>3, <3>1
    <2>5. CASE q <= -1
      <3>1. turn * (-q - 1) >= 0 /\ turn * (-q - 1) = -(turn * q) - turn
        BY <1>1, <2>5
      <3> QED
        BY <1>1, <2>1, <2>3, <3>1
    <2>6. CASE q = 0
      <3>1. turn * 0 = 0
        BY <1>1
      <3> QED
        BY <2>1, <2>3, <2>6, <3>1
    <2> QED
      BY <2>3, <2>4, <2>5, <2>6
  <1>5. a \in -Half..(Half - 1) => NormalizeTheta(a) = a
    BY <1>1 DEF NormalizeTheta
  <1> QED
    BY <1>2, <1>3, <1>4, <1>5

-----------------------------------------------------------------------------
(* Interpolation                                                           *)

LEMMA StateFields ==
    ASSUME NEW s \in State
    PROVE  s.pos \in Int /\ s.th \in Int /\ s = [pos |-> s.pos, th |-> s.th]
  <1>1. s.pos \in Int /\ s.th \in -Half..Half /\ s = [pos |-> s.pos, th |-> s.th]
    BY DEF State
  <1> QED
    BY <1>1, HalfPositive

LEMMA DivByOne == \A a \in Int : a \div 1 = a
  OBVIOUS

(* Whatever is interpolated is a state.                                    *)
LEMMA BetweenTyped ==
    ASSUME NEW s \in State, NEW t \in State, NEW num \in Int, NEW den \in Nat \ {0}
    PROVE  Between(s, t, num, den) \in State
  <1>1. s.pos \in Int /\ s.th \in Int /\ t.pos \in Int /\ t.th \in Int
    BY StateFields
  <1>2. (num * (t.pos - s.pos)) \div den \in Int
    <2>1. num * (t.pos - s.pos) \in Int
      BY <1>1
    <2> QED
      BY <2>1, Division
  <1>3. (num * NormalizeTheta(t.th - s.th)) \div den \in Int
    <2>1. NormalizeTheta(t.th - s.th) \in Int
      BY <1>1, NormalizeCanonical
    <2>2. num * NormalizeTheta(t.th - s.th) \in Int
      BY <2>1
    <2> QED
      BY <2>2, Division
  <1>4. InterpolateAngle(s.th, t.th, num, den) \in -Half..Half
    <2>1. s.th + (num * NormalizeTheta(t.th - s.th)) \div den \in Int
      BY <1>1, <1>3
    <2>2. InterpolateAngle(s.th, t.th, num, den) \in -Half..(Half - 1)
      BY <2>1, NormalizeCanonical DEF InterpolateAngle
    <2> QED
      BY <2>2, HalfPositive
  <1>5. s.pos + (num * (t.pos - s.pos)) \div den \in Int
    BY <1>1, <1>2
  <1> QED
    BY <1>4, <1>5 DEF Between, State

(* u lies m intervals behind x on the way that leads from x to y.          *)
OnWay(u, x, y, m) ==
    /\ u \in State
    /\ u.pos = x.pos + m * (y.pos - x.pos)
    /\ SameAngle(u.th, x.th + m * NormalizeTheta(y.th - x.th))

LEMMA WayGoesOn ==
    ASSUME NEW x \in State, NEW y \in State, NEW m \in Nat
    PROVE  /\ OnWay(x, x, y, 0) /\ OnWay(y, x, y, 1)
           /\ OnWay(Between(x, y, m, 1), x, y, m)
           /\ \A u, v : OnWay(u, x, y, m) /\ OnWay(v, x, y, m + 1)
                           => Between(u, v, 2, 1) = Between(x, y, m + 2, 1)
  <1> DEFINE e == y.pos - x.pos
             d == NormalizeTheta(y.th - x.th)
  <1>1. x.pos \in Int /\ x.th \in Int /\ y.pos \in Int /\ y.th \in Int
    BY StateFields
  <1>2. e \in Int /\ d \in Int /\ y.th - x.th \in Int /\ SameAngle(y.th - x.th, d)
    BY <1>1, NormalizeCanonical
  <1> HIDE DEF e, d
  <1>3. /\ m * e \in Int /\ (m + 1) * e = m * e + e /\ (m + 2) * e = m * e + 2 * e
        /\ m * d \in Int /\ (m + 1) * d = m * d + d /\ (m + 2) * d = m * d + 2 * d
        /\ 0 * e = 0 /\ 1 * e = e /\ 0 * d = 0 /\ 1 * d = d
    BY <1>2
  <1>4. OnWay(x, x, y, 0)
    <2>1. SameAngle(x.th, x.th) /\ x.th + 0 * d = x.th /\ x.pos + 0 * e = x.pos
      BY <1>1, <1>3, SameAngles
    <2> QED
      BY <2>1 DEF OnWay, e, d
  <1>5. OnWay(y, x, y, 1)
    <2>1. SameAngle(x.th + (y.th - x.th), x.th + d)
      <3>1. SameAngle(x.th, x.th)
        BY <1>1, SameAngles
      <3> QED
        BY <1>1, <1>2, <3>1, SumOfAngles
    <2>2. x.th + (y.th - x.th) = y.th /\ x.pos + 1 * e = y.pos /\ x.th + 1 * d = x.th + d
      BY <1>1, <1>3 DEF e
    <2> QED
      BY <2>1, <2>2 DEF OnWay, e, d
  <1>6. ASSUME NEW k \in Nat, k * e \in Int, k * d \in Int
        PROVE  /\ Between(x, y, k, 1).pos = x.pos + k * e
               /\ Between(x, y, k, 1).th = NormalizeTheta(x.th + k * d)
    BY <1>6, DivByOne DEF Between, InterpolateAngle, e, d
  <1>7. OnWay(Between(x, y, m, 1), x, y, m)
    <2>1. Between(x, y, m, 1) \in State
      BY BetweenTyped
    <2>2. x.th + m * d \in Int
      BY <1>1, <1>3
    <2>3. SameAngle(NormalizeTheta(x.th + m * d), x.th + m * d)
      BY <2>2, NormalizeCanonical, SameAngles
    <2> QED
      BY <1>3, <1>6, <2>1, <2>3 DEF OnWay, e, d
  <1>8. ASSUME NEW u, NEW v, OnWay(u, x, y, m), OnWay(v, x, y, m + 1)
        PROVE  Between(u, v, 2, 1) = Between(x, y, m + 2, 1)
    <2>1. u \in State /\ u.pos = x.pos + m * e /\ SameAngle(u.th, x.th + m * d)
      BY <1>8 DEF OnWay, e, d
    <2>2. v \in State /\ v.pos = x.pos + (m + 1) * e /\ SameAngle(v.th, x.th + (m + 1) * d)
      BY <1>8 DEF OnWay, e, d
    <2>3. u.pos \in Int /\ u.th \in Int /\ v.pos \in Int /\ v.th \in Int
      BY <2>1, <2>2, StateFields
    <2>4. v.pos - u.pos = e
      BY <1>1, <1>2, <1>3, <2>1, <2>2
    <2>5. NormalizeTheta(v.th - u.th) = d
      <3>1. SameAngle(v.th - u.th, (x.th + (m + 1) * d) - (x.th + m * d))
        <4>1. x.th + (m + 1) * d \in Int /\ x.th + m * d \in Int
          BY <1>1, <1>2, <1>3
        <4> QED
          BY <2>1, <2>2, <2>3, <4>1, SumOfAngles
      <3>2. (x.th + (m + 1) * d) - (x.th + m * d) = d
        BY <1>1, <1>2, <1>3
      <3>3. NormalizeTheta(v.th - u.th) = NormalizeTheta(d)
        BY <1>2, <2>3, <3>1, <3>2, NormalizeCanonical
      <3>4. d \in -Half..(Half - 1)
        BY <1>2, NormalizeCanonical DEF d
      <3> QED
        BY <1>2, <3>3, <3>4, NormalizeCanonical
    <2>6. Between(u, v, 2, 1).pos = x.pos + (m + 2) * e
      <3>1. Between(u, v, 2, 1).pos = u.pos + (2 * e) \div 1
        BY <2>4 DEF Between
      <3>2. (2 * e) \div 1 = 2 * e
        BY <1>2, DivByOne
      <3> QED
        BY <1>1, <1>2, <1>3, <2>1, <3>1, <3>2
    <2>7. Between(u, v, 2, 1).th = NormalizeTheta(x.th + (m + 2) * d)
      <3>1. Between(u, v, 2, 1).th = NormalizeTheta(u.th + (2 * d) \div 1)
        BY <2>5 DEF Between, InterpolateAngle
      <3>2. (2 * d) \div 1 = 2 * d /\ 2 * d \in Int
        BY <1>2, DivByOne
      <3>3. SameAngle(u.th + 2 * d, (x.th + m * d) + 2 * d)
        <4>1. SameAngle(2 * d, 2 * d) /\ x.th + m * d \in Int
          BY <1>1, <1>3, <3>2, SameAngles
        <4> QED
          BY <2>1, <2>3, <3>2, <4>1, SumOfAngles
      <3>4. (x.th + m * d) + 2 * d = x.th + (m + 2) * d /\ x.th + (m + 2) * d \in Int
        BY <1>1, <1>2, <1>3
      <3>5. u.th + 2 * d \in Int
        BY <2>3, <3>2
      <3> QED
        BY <3>1, <3>2, <3>3, <3>4, <3>5, NormalizeCanonical
    <2>8. /\ Between(x, y, m + 2, 1).pos = x.pos + (m + 2) * e
          /\ Between(x, y, m + 2, 1).th = NormalizeTheta(x.th + (m + 2) * d)
      <3>1. m + 2 \in Nat /\ (m + 2) * e \in Int /\ (m + 2) * d \in Int
        BY <1>2
      <3> QED
        BY <1>6, <3>1
    <2> QED
      BY <2>6, <2>7, <2>8 DEF Between
  <1> QED
    BY <1>4, <1>5, <1>7, <1>8

-----------------------------------------------------------------------------
LEMMA CeilDivCovers ==
    ASSUME NEW a \in Nat, NEW b \in Nat \ {0}
    PROVE  CeilDiv(a, b) \in Nat /\ a <= b * CeilDiv(a, b) /\ (a > b => CeilDiv(a, b) >= 1)
  <1>1. a + b - 1 \in Nat
    OBVIOUS
  <1>2. /\ CeilDiv(a, b) \in Nat
        /\ a + b - 1 = b * CeilDiv(a, b) + ((a + b - 1) % b)
        /\ (a + b - 1) % b \in 0..(b - 1)
    BY <1>1 DEF CeilDiv
  <1>3. a <= b * CeilDiv(a, b)
    BY <1>2
  <1>4. ASSUME a > b PROVE CeilDiv(a, b) # 0
    BY <1>2, <1>3, <1>4
  <1> QED
    BY <1>2, <1>3, <1>4

LEMMA TimesMonotone ==
    ASSUME NEW r \in Nat, NEW a \in Nat, NEW b \in Nat, a <= b
    PROVE  r * a <= r * b
  <1>1. r * (b - a) >= 0
    OBVIOUS
  <1>2. r * (b - a) = r * b - r * a
    OBVIOUS
  <1> QED
    BY <1>1, <1>2

(* The samples between two states are no farther apart than the radius of  *)
(* the robot and no farther turned than the angular resolution.            *)
LEMMA SamplesDense ==
    ASSUME NEW rot \in Nat, NEW dist \in Nat
    PROVE  LET parts == AdditionalSamples(rot, dist) + 1
           IN  /\ parts \in Nat \ {0}
               /\ dist <= Radius * parts /\ rot <= MinAngle * parts
  <1> DEFINE a == CeilDiv(rot, MinAngle)
             d == CeilDiv(dist, Radius)
             parts == AdditionalSamples(rot, dist) + 1
  <1>1. Radius \in Nat \ {0} /\ MinAngle \in Nat \ {0}
    BY TrajectoryAssumption
  <1>2. /\ a \in Nat /\ rot <= MinAngle * a /\ (rot > MinAngle => a >= 1)
        /\ d \in Nat /\ dist <= Radius * d /\ (dist > Radius => d >= 1)
    BY <1>1, CeilDivCovers
  <1> HIDE DEF a, d
  <1>3. CASE rot > MinAngle \/ dist > Radius
    <2>1. parts = IF a > d THEN a ELSE d
      BY <1>2, <1>3 DEF AdditionalSamples, a, d
    <2>2. parts \in Nat \ {0} /\ a <= parts /\ d <= parts
      BY <1>2, <1>3, <2>1
    <2> HIDE DEF parts
    <2>3. Radius * d <= Radius * parts /\ MinAngle * a <= MinAngle * parts
      BY <1>1, <1>2, <2>2, TimesMonotone
    <2>4. dist <= Radius * parts /\ rot <= MinAngle * parts
      BY <1>1, <1>2, <2>2, <2>3
    <2> QED
      BY <2>2, <2>4 DEF parts
  <1>4. CASE ~ (rot > MinAngle \/ dist > Radius)
    <2>1. parts = 1
      BY <1>4 DEF AdditionalSamples
    <2> QED
      BY <1>1, <1>4, <2>1
  <1> QED
    BY <1>3, <1>4

LEMMA Opposite ==
    ASSUME NEW n \in Int, NEW m \in Int, NEW p \in Int, NEW q \in Int, NEW o \in Int
    PROVE  /\ n * ((-p) - (-o)) + m * ((-q) - (-p)) = -(n * (p - o) + m * (q - p))
           /\ n * (p - o) + m * (q - p) \in Int
  <1>1. (-p) - (-o) = -(p - o) /\ (-q) - (-p) = -(q - p)
    OBVIOUS
  <1>2. \A a \in Int, b \in Int : a * (-b) = -(a * b)
    OBVIOUS
  <1>3. n * (-(p - o)) = -(n * (p - o)) /\ m * (-(q - p)) = -(m * (q - p))
    BY <1>2
  <1> QED
    BY <1>1, <1>3

(* Of samples at most radius apart between p and q, one is within radius   *)
(* of any o in between: the last one before o.                             *)
LEMMA SampleNear ==
    ASSUME NEW p \in Int, NEW q \in Int, NEW o \in Int, NEW parts \in Nat \ {0},
           NEW w \in Nat, q - p <= w, p <= o, o <= q
    PROVE  \E m \in 0..(parts - 1) : AbsVal(parts * (p - o) + m * (q - p)) <= w
  <1> DEFINE d == q - p
             t == parts * (o - p)
             m == t \div d
             r == t % d
  <1>1. d \in Nat /\ o - p \in 0..d
    OBVIOUS
  <1>2. parts * (p - o) = -t /\ t \in Nat /\ t <= parts * d
    <2>1. t >= 0 /\ parts * (d - (o - p)) >= 0
      BY <1>1
    <2>2. parts * (d - (o - p)) = parts * d - t
      OBVIOUS
    <2> QED
      BY <2>1, <2>2
  <1>3. CASE d = 0
    <2>1. parts * (p - o) + 0 * (q - p) = 0
      BY <1>1, <1>3
    <2>2. AbsVal(0) <= w
      BY DEF AbsVal
    <2> QED
      BY <2>1, <2>2
  <1>4. CASE d # 0 /\ t = parts * d
    <2>1. parts * (p - o) + (parts - 1) * (q - p) = -d
      BY <1>2, <1>4
    <2>2. AbsVal(-d) <= w
      BY <1>1 DEF AbsVal
    <2>3. parts - 1 \in 0..(parts - 1)
      OBVIOUS
    <2> QED
      BY <2>1, <2>2, <2>3
  <1>5. CASE d # 0 /\ t < parts * d
    <2>1. m \in Nat /\ r \in 0..(d - 1) /\ t = d * m + r
      <3>1. d \in Nat \ {0} /\ t \in Int /\ t >= 0
        BY <1>1, <1>2, <1>5
      <3> HIDE DEF d, t
      <3>2. m \in Int /\ r \in 0..(d - 1) /\ t = d * m + r
        BY <3>1, Division
      <3>3. m >= 0
        <4> HIDE DEF m, r
        <4> SUFFICES ASSUME m < 0 PROVE FALSE
          BY <3>2
        <4>1. d * (-m) >= d /\ d * m = -(d * (-m))
          BY <3>1, <3>2
        <4> QED
          BY <3>1, <3>2, <4>1
      <3> QED
        BY <3>2, <3>3
    <2>2. m < parts
      <3> SUFFICES ASSUME m >= parts PROVE FALSE
        BY <2>1
      <3>1. d * m >= d * parts
        BY <1>1, <2>1, TimesMonotone
      <3> QED
        BY <1>5, <2>1, <3>1
    <2>3. parts * (p - o) + m * (q - p) = -r
      <3>1. m * d = d * m
        BY <1>1, <2>1
      <3>2. parts * (p - o) + m * d = -t + d * m
        BY <1>2, <3>1
      <3> HIDE DEF t, m, r
      <3>3. d * m \in Int
        BY <1>1, <2>1
      <3> QED
        BY <1>2, <2>1, <3>2, <3>3
    <2>4. AbsVal(-r) <= w
      BY <2>1 DEF AbsVal
    <2>5. m \in 0..(parts - 1)
      BY <2>1, <2>2
    <2> QED
      BY <2>3, <2>4, <2>5
  <1> QED
    BY <1>2, <1>3, <1>4, <1>5

-----------------------------------------------------------------------------
LEMMA SizeOfGrid ==
    ASSUME TypeOK, xs # NoPath
    PROVE  N \in 2..NMax /\ DOMAIN xs = 0..(N - 1) /\ \A i \in 0..(N - 1) : xs[i] \in State
  <1>1. PICK n \in 2..NMax : xs \in [0..(n - 1) -> State]
    BY DEF TypeOK
  <1>2. N \in 2..NMax /\ DOMAIN xs = 0..(N - 1)
    BY <1>1 DEF N
  <1> QED
    BY <1>1, <1>2

(* The samples between two neighbours find any point they drive over.      *)
LEMMA BetweenIsCovered ==
    ASSUME NEW i, xs[i] \in State, xs[i + 1] \in State, NEW o \in Int,
           \/ xs[i].pos <= o /\ o <= xs[i + 1].pos
           \/ xs[i + 1].pos <= o /\ o <= xs[i].pos
    PROVE  Covers(i, o)
  <1> DEFINE p == xs[i].pos
             q == xs[i + 1].pos
             parts == AdditionalSamples(Rot(xs, i), Dist(xs, i)) + 1
  <1>1. p \in Int /\ q \in Int
    BY DEF State
  <1>2. Rot(xs, i) \in Nat /\ Dist(xs, i) \in Nat
    <2>1. xs[i + 1].th - xs[i].th \in Int
      BY TrajectoryAssumption DEF State
    <2>2. NormalizeTheta(xs[i + 1].th - xs[i].th) \in Int
      BY <2>1, NormalizeRange, TrajectoryAssumption
    <2> QED
      BY <1>1, <2>2 DEF Rot, Dist, AbsVal
  <1>3. parts \in Nat \ {0} /\ Dist(xs, i) <= Radius * parts
    BY <1>2, SamplesDense
  <1>4. Radius * parts \in Nat
    BY <1>3, TrajectoryAssumption
  <1>5. q - p <= Radius * parts /\ p - q <= Radius * parts
    BY <1>1, <1>3, <1>4 DEF Dist, AbsVal
  <1> HIDE DEF parts
  <1>6. \E m \in 0..(parts - 1) : AbsVal(parts * (p - o) + m * (q - p)) <= Radius * parts
    <2>1. CASE p <= o /\ o <= q
      BY <1>1, <1>3, <1>4, <1>5, <2>1, SampleNear
    <2>2. CASE q <= o /\ o <= p
      <3>1. PICK m \in 0..(parts - 1) :
                AbsVal(parts * ((-p) - (-o)) + m * ((-q) - (-p))) <= Radius * parts
        <4> DEFINE a == -p
                   b == -q
                   c == -o
        <4>1. a \in Int /\ b \in Int /\ c \in Int /\ a <= c /\ c <= b
          BY <1>1, <2>2
        <4>2. b - a <= Radius * parts
          BY <1>1, <1>4, <1>5
        <4> HIDE DEF a, b, c
        <4>3. \E m \in 0..(parts - 1) :
                 AbsVal(parts * (a - c) + m * (b - a)) <= Radius * parts
          BY <1>3, <1>4, <4>1, <4>2, SampleNear
        <4> QED
          BY <4>3 DEF a, b, c
      <3>2. m \in Int /\ parts \in Int
        BY <1>3
      <3>3. /\ parts * ((-p) - (-o)) + m * ((-q) - (-p)) = -(parts * (p - o) + m * (q - p))
            /\ parts * (p - o) + m * (q - p) \in Int
        BY <1>1, <3>2, Opposite
      <3>4. \A n \in Int : AbsVal(-n) = AbsVal(n)
        BY DEF AbsVal
      <3> QED
        BY <3>1, <3>2, <3>3, <3>4
    <2> QED
      BY <2>1, <2>2
  <1> QED
    BY <1>6 DEF Covers, parts

(* Whatever values the states have, a trajectory found feasible jumps over *)
(* no obstacle between two states that were looked at.                     *)
LEMMA NoJump == TypeOK => NothingJumpedOver
  <1> SUFFICES ASSUME TypeOK, NEW l \in LookAheads, NEW o \in Obstacles, xs # NoPath,
                      Feasible(l, o), NEW i \in 0..(LookAhead(l) - 1),
                      \/ xs[i].pos <= o /\ o <= xs[i + 1].pos
                      \/ xs[i + 1].pos <= o /\ o <= xs[i].pos
               PROVE  FALSE
    BY DEF NothingJumpedOver
  <1>1. N \in 2..NMax /\ \A k \in 0..(N - 1) : xs[k] \in State
    BY SizeOfGrid
  <1>2. LookAhead(l) \in Nat /\ LookAhead(l) <= N - 1
    BY <1>1, TrajectoryAssumption DEF LookAhead
  <1>3. xs[i] \in State /\ xs[i + 1] \in State
    BY <1>1, <1>2
  <1>4. o \in Int
    BY TrajectoryAssumption
  <1>5. Covers(i, o)
    BY <1>3, <1>4, BetweenIsCovered
  <1> QED
    BY <1>5 DEF Feasible

-----------------------------------------------------------------------------
(* The warm start                                                          *)

(* The state j of the old trajectory, which goes on behind its end as in   *)
(* its last interval.                                                      *)
Beyond(j) == IF j <= N - 1 THEN xs[j]
             ELSE Between(xs[N - 2], xs[N - 1], j - (N - 2), 1)

LEMMA BeyondGoesOn ==
    ASSUME TypeOK, xs # NoPath
    PROVE  /\ \A j \in Nat : Beyond(j) \in State
           /\ \A j \in Nat : j >= N => Beyond(j) = Between(Beyond(j - 2), Beyond(j - 1), 2, 1)
  <1> DEFINE x == xs[N - 2]
             y == xs[N - 1]
  <1>1. N \in 2..NMax /\ \A i \in 0..(N - 1) : xs[i] \in State
    BY SizeOfGrid
  <1>2. N \in Int /\ N >= 2 /\ N - 2 \in 0..(N - 1) /\ N - 1 \in 0..(N - 1)
    BY <1>1, TrajectoryAssumption
  <1>3. x \in State /\ y \in State
    BY <1>1, <1>2
  <1>4. \A j \in Int : Beyond(j) = IF j <= N - 1 THEN xs[j] ELSE Between(x, y, j - (N - 2), 1)
    BY DEF Beyond
  <1>5. ASSUME NEW j \in Nat PROVE Beyond(j) \in State
    <2>1. CASE j <= N - 1
      BY <1>1, <1>2, <1>4, <2>1
    <2>2. CASE ~ (j <= N - 1)
      <3>1. Beyond(j) = Between(x, y, j - (N - 2), 1)
        BY <1>4, <2>2
      <3>2. j - (N - 2) \in Int /\ 1 \in Nat \ {0}
        BY <1>2
      <3> HIDE DEF x, y
      <3> QED
        BY <1>3, <3>1, <3>2, BetweenTyped
    <2> QED
      BY <2>1, <2>2
  <1>6. ASSUME NEW m \in Nat PROVE OnWay(Beyond(m + (N - 2)), x, y, m)
    <2>1. Beyond(m + (N - 2)) = IF m = 0 THEN x ELSE IF m = 1 THEN y ELSE Between(x, y, m, 1)
      <3>1. m + (N - 2) \in Int /\ (m + (N - 2)) - (N - 2) = m
        BY <1>2
      <3>2. m + (N - 2) <= N - 1 <=> m \in {0, 1}
        BY <1>2
      <3>3. m = 0 => m + (N - 2) = N - 2
        BY <1>2
      <3>4. m = 1 => m + (N - 2) = N - 1
        BY <1>2
      <3> QED
        BY <1>4, <3>1, <3>2, <3>3, <3>4
    <2> HIDE DEF x, y
    <2>2. OnWay(x, x, y, 0) /\ OnWay(y, x, y, 1) /\ OnWay(Between(x, y, m, 1), x, y, m)
      BY <1>3, WayGoesOn
    <2> QED
      BY <2>1, <2>2
  <1>7. ASSUME NEW j \in Nat, j >= N
        PROVE  Beyond(j) = Between(Beyond(j - 2), Beyond(j - 1), 2, 1)
    <2> DEFINE m == j - N
    <2>1. m \in Nat /\ m + (N - 2) = j - 2 /\ (m + 1) + (N - 2) = j - 1 /\ j - (N - 2) = m + 2
      BY <1>2, <1>7
    <2>2. Beyond(j) = Between(x, y, m + 2, 1)
      BY <1>2, <1>4, <1>7, <2>1
    <2> HIDE DEF x, y, m
    <2>3. OnWay(Beyond(j - 2), x, y, m)
      BY <1>6, <2>1
    <2>4. OnWay(Beyond(j - 1), x, y, m + 1)
      <3>1. m + 1 \in Nat
        BY <2>1
      <3>2. OnWay(Beyond((m + 1) + (N - 2)), x, y, m + 1)
        BY <1>6, <3>1, Zenon
      <3> QED
        BY <2>1, <3>2
    <2>5. \A u, v : OnWay(u, x, y, m) /\ OnWay(v, x, y, m + 1)
                       => Between(u, v, 2, 1) = Between(x, y, m + 2, 1)
      BY <1>3, <2>1, WayGoesOn
    <2> QED
      BY <2>2, <2>3, <2>4, <2>5
  <1> QED
    BY <1>5, <1>7

(* The states are moved by s, those behind the old end continue it.        *)
LEMMA StatesShifted ==
    ASSUME TypeOK, xs # NoPath, NEW s \in 0..(N - 2)
    PROVE  ShiftedStates(s) = [i \in 0..(N - 1) |-> Beyond(i + s)]
  <1> DEFINE Rhs(g) == [i \in 0..(N - 1) |->
                          IF i + s <= N - 1 THEN xs[i + s]
                          ELSE Between(g[i - 2], g[i - 1], 2, 1)]
             closed == [i \in 0..(N - 1) |-> Beyond(i + s)]
             f == CHOOSE g : g = Rhs(g)
  <1>1. N \in Int /\ N >= 2 /\ s \in Nat /\ s <= N - 2
    BY SizeOfGrid, TrajectoryAssumption
  <1>2. ASSUME NEW i \in 0..(N - 1)
        PROVE  Rhs(closed)[i] = closed[i]
    <2>1. CASE i + s <= N - 1
      BY <2>1 DEF Beyond
    <2>2. CASE ~ (i + s <= N - 1)
      <3>1. i - 2 \in 0..(N - 1) /\ i - 1 \in 0..(N - 1)
        BY <1>1, <2>2
      <3>2. (i - 2) + s = (i + s) - 2 /\ (i - 1) + s = (i + s) - 1
        BY <1>1
      <3>3. Beyond(i + s) = Between(Beyond((i + s) - 2), Beyond((i + s) - 1), 2, 1)
        <4>1. i + s \in Nat /\ i + s >= N
          BY <1>1, <2>2
        <4> QED
          BY <4>1, BeyondGoesOn
      <3>4. closed[i - 2] = Beyond((i + s) - 2) /\ closed[i - 1] = Beyond((i + s) - 1)
        BY <3>1, <3>2
      <3>5. Rhs(closed)[i] = Between(closed[i - 2], closed[i - 1], 2, 1)
        BY <2>2
      <3>6. closed[i] = Beyond(i + s)
        OBVIOUS
      <3> HIDE DEF closed
      <3> QED
        BY <3>3, <3>4, <3>5, <3>6
    <2> QED
      BY <2>1, <2>2
  <1>3. closed = Rhs(closed)
    <2>1. DOMAIN closed = 0..(N - 1) /\ DOMAIN Rhs(closed) = 0..(N - 1)
      OBVIOUS
    <2>2. closed = [i \in 0..(N - 1) |-> closed[i]]
      OBVIOUS
    <2>3. Rhs(closed) = [i \in 0..(N - 1) |-> Rhs(closed)[i]]
      OBVIOUS
    <2> HIDE DEF closed, Rhs
    <2> QED
      BY <1>2, <2>2, <2>3
  <1>4. f = Rhs(f)
    <2> HIDE DEF Rhs, closed
    <2> QED
      BY <1>3, Zenon
  <1>5. \A i \in 0..(N - 1) : f[i] = closed[i]
    <2> HIDE DEF f
    <2> DEFINE S == {i \in 0..(N - 1) : f[i] = closed[i]}
    <2>1. ASSUME NEW i \in 0..(N - 1), \A j \in 0..(i - 1) : j \in S
          PROVE  i \in S
      <3>1. \A g : Rhs(g)[i] = IF i + s <= N - 1 THEN xs[i + s]
                               ELSE Between(g[i - 2], g[i - 1], 2, 1)
        OBVIOUS
      <3> HIDE DEF Rhs, closed
      <3>2. f[i] = Rhs(f)[i]
        BY <1>4
      <3>3. closed[i] = Rhs(closed)[i]
        BY <1>3
      <3>4. CASE i + s <= N - 1
        BY <3>1, <3>2, <3>3, <3>4
      <3>5. CASE ~ (i + s <= N - 1)
        <4>1. i - 2 \in 0..(i - 1) /\ i - 1 \in 0..(i - 1)
          BY <1>1, <3>5
        <4>2. f[i - 2] = closed[i - 2] /\ f[i - 1] = closed[i - 1]
          BY <2>1, <4>1
        <4> QED
          BY <3>1, <3>2, <3>3, <3>5, <4>2
      <3> QED
        BY <3>4, <3>5
    <2> HIDE DEF S
    <2>2. \A i \in 0..(N - 1) : i \in S
      <3>1. 0 \in Int /\ N - 1 \in Int
        BY <1>1
      <3> QED
        BY <2>1, <3>1, StrongInduction
    <2> QED
      BY <2>2 DEF S
  <1>6. f = closed
    <2>1. f = [i \in 0..(N - 1) |-> f[i]]
      <3>1. \A g : Rhs(g) = [i \in 0..(N - 1) |-> Rhs(g)[i]]
        OBVIOUS
      <3> HIDE DEF f, Rhs
      <3> QED
        BY <1>4, <3>1
    <2>2. closed = [i \in 0..(N - 1) |-> closed[i]]
      OBVIOUS
    <2> HIDE DEF f, closed
    <2> QED
      BY <1>5, <2>1, <2>2
  <1>7. ShiftedStates(s) = f
    BY DEF ShiftedStates
  <1> QED
    BY <1>6, <1>7

(* The controls are moved by as much, the last one is held.                *)
LEMMA ControlsShifted ==
    ASSUME TypeOK, xs # NoPath, NEW s \in 0..(N - 2)
    PROVE  ShiftedControls(s) =
             [i \in 0..(N - 2) |-> us[IF i + s <= N - 2 THEN i + s ELSE N - 2]]
  <1> DEFINE Rhs(g) == [i \in 0..(N - 2) |-> IF i + s <= N - 2 THEN us[i + s] ELSE g[i - 1]]
             closed == [i \in 0..(N - 2) |-> us[IF i + s <= N - 2 THEN i + s ELSE N - 2]]
             f == CHOOSE g : g = Rhs(g)
  <1>1. N \in Int /\ N >= 2 /\ s \in Nat /\ s <= N - 2
    BY SizeOfGrid, TrajectoryAssumption
  <1>2. ASSUME NEW i \in 0..(N - 2) PROVE Rhs(closed)[i] = closed[i]
    <2>1. CASE i + s <= N - 2
      BY <2>1
    <2>2. CASE ~ (i + s <= N - 2)
      <3>1. i - 1 \in 0..(N - 2)
        BY <1>1, <2>2
      <3>2. closed[i - 1] = us[N - 2]
        <4>1. (i - 1) + s <= N - 2 => (i - 1) + s = N - 2
          BY <1>1, <2>2
        <4> QED
          BY <3>1, <4>1
      <3>3. Rhs(closed)[i] = closed[i - 1] /\ closed[i] = us[N - 2]
        BY <2>2
      <3> HIDE DEF closed
      <3> QED
        BY <3>2, <3>3
    <2> QED
      BY <2>1, <2>2
  <1>3. closed = Rhs(closed)
    <2>1. closed = [i \in 0..(N - 2) |-> closed[i]]
      OBVIOUS
    <2>2. Rhs(closed) = [i \in 0..(N - 2) |-> Rhs(closed)[i]]
      OBVIOUS
    <2> HIDE DEF closed, Rhs
    <2> QED
      BY <1>2, <2>1, <2>2
  <1>4. f = Rhs(f)
    <2> HIDE DEF Rhs, closed
    <2> QED
      BY <1>3, Zenon
  <1>5. \A i \in 0..(N - 2) : f[i] = closed[i]
    <2> HIDE DEF f
    <2> DEFINE S == {i \in 0..(N - 2) : f[i] = closed[i]}
    <2>1. \A g : \A i \in 0..(N - 2) :
             Rhs(g)[i] = IF i + s <= N - 2 THEN us[i + s] ELSE g[i - 1]
      OBVIOUS
    <2> HIDE DEF Rhs, closed
    <2>2. 0 \in S
      <3>1. 0 \in 0..(N - 2) /\ 0 + s <= N - 2
        BY <1>1
      <3>2. f[0] = us[0 + s] /\ closed[0] = us[0 + s]
        BY <1>3, <1>4, <2>1, <3>1
      <3> QED
        BY <3>1, <3>2
    <2>3. ASSUME NEW i \in 0..(N - 2 - 1), i \in S PROVE i + 1 \in S
      <3>1. i + 1 \in 0..(N - 2) /\ (i + 1) - 1 = i
        BY <1>1
      <3>2. /\ f[i + 1] = IF (i + 1) + s <= N - 2 THEN us[(i + 1) + s] ELSE f[i]
            /\ closed[i + 1] = IF (i + 1) + s <= N - 2 THEN us[(i + 1) + s] ELSE closed[i]
        BY <1>3, <1>4, <2>1, <3>1
      <3> QED
        BY <2>3, <3>1, <3>2
    <2> HIDE DEF S
    <2>4. \A i \in 0..(N - 2) : i \in S
      <3>1. 0 \in Int /\ N - 2 \in Int
        BY <1>1
      <3> QED
        BY <2>2, <2>3, <3>1, IntervalInduction
    <2> QED
      BY <2>4 DEF S
  <1>6. f = closed
    <2>1. f = [i \in 0..(N - 2) |-> f[i]]
      <3>1. \A g : Rhs(g) = [i \in 0..(N - 2) |-> Rhs(g)[i]]
        OBVIOUS
      <3> HIDE DEF f, Rhs
      <3> QED
        BY <1>4, <3>1
    <2>2. closed = [i \in 0..(N - 2) |-> closed[i]]
      OBVIOUS
    <2> HIDE DEF f, closed
    <2> QED
      BY <1>5, <2>1, <2>2
  <1>7. ShiftedControls(s) = f
    BY DEF ShiftedControls
  <1> QED
    BY <1>6, <1>7

(* findNearestState leaves at least the last interval.                     *)
LEMMA NearestStateInRange ==
    ASSUME TypeOK, xs # NoPath, NEW x0
    PROVE  NearestState(x0) \in 0..(N - 2)
  <1> DEFINE lookahead == IF N - 2 > 20 THEN 20 ELSE N - 2
             Nearer(i) == SqDist(x0, xs[i]) < SqDist(x0, xs[i - 1])
             Stops(s) == (\A i \in 1..s : Nearer(i)) /\ (s < lookahead => ~ Nearer(s + 1))
             Farther == {i \in 1..lookahead : ~ Nearer(i)}
  <1>1. N \in Int /\ N >= 2
    BY SizeOfGrid, TrajectoryAssumption
  <1>2. lookahead \in Nat /\ lookahead <= N - 2
    BY <1>1
  <1>3. NearestState(x0) = IF x0 = xs[0] THEN 0 ELSE CHOOSE s \in 0..lookahead : Stops(s)
    BY DEF NearestState
  <1> HIDE DEF lookahead, Nearer
  <1>4. \E s \in 0..lookahead : Stops(s)
    <2>1. CASE Farther = {}
      <3>1. \A i \in 1..lookahead : Nearer(i)
        BY <2>1
      <3>2. lookahead \in 0..lookahead /\ ~ (lookahead < lookahead)
        BY <1>2
      <3> QED
        BY <3>1, <3>2
    <2>2. CASE Farther # {}
      <3>1. PICK n \in Farther : \A k \in Farther : n <= k
        <4>1. Farther \subseteq Nat
          BY <1>2
        <4> HIDE DEF Farther
        <4> QED
          BY <2>2, <4>1, LeastElement
      <3>2. n \in 1..lookahead /\ ~ Nearer(n)
        OBVIOUS
      <3>3. \A i \in 1..(n - 1) : Nearer(i)
        <4> SUFFICES ASSUME NEW i \in 1..(n - 1), ~ Nearer(i) PROVE FALSE
          OBVIOUS
        <4>1. i \in Farther
          BY <1>2, <3>2
        <4>2. n <= i
          BY <3>1, <4>1
        <4> QED
          BY <1>2, <3>2, <4>2
      <3>4. n - 1 \in 0..lookahead /\ (n - 1) + 1 = n
        BY <1>2, <3>2
      <3>5. Stops(n - 1)
        BY <3>2, <3>3, <3>4
      <3> QED
        BY <3>4, <3>5
    <2> QED
      BY <2>1, <2>2
  <1> HIDE DEF Stops
  <1>5. (CHOOSE s \in 0..lookahead : Stops(s)) \in 0..lookahead
    BY <1>4
  <1> QED
    BY <1>1, <1>2, <1>3, <1>5

-----------------------------------------------------------------------------
(* The resampling                                                          *)

LEMMA DivBounds ==
    ASSUME NEW n \in Nat \ {0}, NEW a \in Int, NEW lo \in Int, NEW hi \in Int,
           n * lo <= a, a < n * (hi + 1)
    PROVE  a \div n \in lo..hi
  <1> DEFINE q == a \div n
             r == a % n
  <1>1. q \in Int /\ r \in 0..(n - 1) /\ a = n * q + r
    BY Division
  <1> HIDE DEF q, r
  <1>2. n * q \in Int /\ n * lo \in Int /\ n * (hi + 1) \in Int
    BY <1>1
  <1>3. ASSUME q < lo PROVE FALSE
    <2>1. n * (lo - q) >= n /\ n * (lo - q) = n * lo - n * q
      BY <1>1, <1>3
    <2> QED
      BY <1>1, <1>2, <2>1
  <1>4. ASSUME q > hi PROVE FALSE
    <2>1. n * (q - (hi + 1)) >= 0 /\ n * (q - (hi + 1)) = n * q - n * (hi + 1)
      BY <1>1, <1>4
    <2> QED
      BY <1>1, <1>2, <2>1
  <1> QED
    BY <1>1, <1>3, <1>4 DEF q

LEMMA DivMonotone ==
    ASSUME NEW n \in Nat \ {0}, NEW a \in Int, NEW b \in Int, a <= b
    PROVE  a \div n <= b \div n
  <1> DEFINE q == b \div n
  <1>1. q \in Int /\ b % n \in 0..(n - 1) /\ b = n * q + (b % n)
    BY Division
  <1> DEFINE p == a \div n
  <1>2. p \in Int /\ a % n \in 0..(n - 1) /\ a = n * p + (a % n)
    BY Division
  <1> HIDE DEF p, q
  <1>3. ASSUME p > q PROVE FALSE
    <2>1. n * (p - q) >= n /\ n * (p - q) = n * p - n * q
      BY <1>1, <1>2, <1>3
    <2>2. n * p \in Int /\ n * q \in Int
      BY <1>1, <1>2
    <2> QED
      BY <1>1, <1>2, <2>1, <2>2
  <1> QED
    BY <1>1, <1>2, <1>3 DEF p, q

(* A sample between the ends of the new grid has an old interval, and a    *)
(* later one no earlier interval.                                          *)
LEMMA OldIntervals ==
    ASSUME TypeOK, xs # NoPath, NEW n_new \in 2..NMax
    PROVE  /\ \A k \in 1..(n_new - 2) : IdxOld(k, n_new) \in 1..(N - 1)
           /\ \A k, l \in 1..(n_new - 2) : k <= l => IdxOld(k, n_new) <= IdxOld(l, n_new)
  <1> DEFINE n == N - 1
             d == n_new - 1
             Num(k) == k * n + n_new - 2
  <1>1. n \in Nat \ {0} /\ d \in Nat \ {0} /\ n_new \in Nat
    BY SizeOfGrid, TrajectoryAssumption
  <1>2. \A k : IdxOld(k, n_new) = Num(k) \div d
    BY DEF IdxOld
  <1>3. ASSUME NEW k \in 1..(n_new - 2)
        PROVE  Num(k) \in Int /\ Num(k) \div d \in 1..n
    <2>1. n_new - 2 = d - 1 /\ k \in Nat /\ k <= d - 1 /\ k >= 1
      BY <1>1
    <2> HIDE DEF n, d
    <2>2. k * n \in Nat /\ k * n >= n /\ k * n <= (d - 1) * n
      <3>1. (k - 1) * n >= 0 /\ (k - 1) * n = k * n - n
        BY <1>1, <2>1
      <3>2. (d - 1 - k) * n >= 0 /\ (d - 1 - k) * n = (d - 1) * n - k * n
        BY <1>1, <2>1
      <3> QED
        BY <1>1, <2>1, <3>1, <3>2
    <2>3. d * 1 = d /\ d * (n + 1) = d * n + d /\ (d - 1) * n = d * n - n /\ d * n \in Nat
      BY <1>1
    <2>4. Num(k) \in Int /\ d * 1 <= Num(k) /\ Num(k) < d * (n + 1)
      BY <1>1, <2>1, <2>2, <2>3
    <2> HIDE DEF Num
    <2> QED
      BY <1>1, <2>4, DivBounds
  <1>4. ASSUME NEW k \in 1..(n_new - 2), NEW l \in 1..(n_new - 2), k <= l
        PROVE  Num(k) \div d <= Num(l) \div d
    <2>1. (l - k) * n >= 0 /\ (l - k) * n = l * n - k * n /\ l * n \in Int /\ k * n \in Int
      BY <1>1, <1>4
    <2>2. Num(k) <= Num(l)
      BY <1>1, <2>1
    <2>3. Num(k) \in Int /\ Num(l) \in Int
      BY <1>3
    <2> HIDE DEF Num, d
    <2> QED
      BY <1>1, <2>2, <2>3, DivMonotone
  <1> HIDE DEF Num, d
  <1> QED
    BY <1>2, <1>3, <1>4 DEF n

-----------------------------------------------------------------------------
(* The initial trajectory                                                  *)

LEMMA PosesAreStates ==
    /\ Poses \subseteq State
    /\ \A p \in Plans : Len(p) \in Nat \ {0} /\ \A i \in 1..Len(p) : p[i] \in State
  <1>1. Poses \subseteq State
    BY TrajectoryAssumption DEF State
  <1>2. ASSUME NEW p \in Plans
        PROVE  Len(p) \in Nat \ {0} /\ \A i \in 1..Len(p) : p[i] \in State
    <2>1. p \in Seq(Poses) /\ p # <<>>
      BY TrajectoryAssumption
    <2> QED
      BY <1>1, <2>1
  <1> QED
    BY <1>1, <1>2

(* The series has a state for the start and one for each pose of the plan. *)
LEMMA SeriesTyped ==
    ASSUME NEW x0 \in Poses, NEW p \in Plans, NEW e \in BOOLEAN
    PROVE  LET ts == InitialSeries(x0, p, e)
           IN  ts \in [0..Len(p) -> State] /\ LastOf(ts) = Len(p)
  <1> DEFINE ts == InitialSeries(x0, p, e)
  <1>1. Len(p) \in Nat \ {0} /\ x0 \in State /\ \A i \in 1..Len(p) : p[i] \in State
    BY PosesAreStates
  <1>2. ASSUME NEW i \in 0..Len(p), i # 0 PROVE [p[i] EXCEPT !.th = YawTo(p[i], p[i + 1])] \in State
    <2>1. p[i] \in State /\ YawTo(p[i], p[i + 1]) \in -Half..Half
      <3>1. p[i] \in State
        BY <1>1, <1>2
      <3>2. YawTo(p[i], p[i + 1]) \in {Half, 0}
        BY DEF YawTo
      <3> QED
        BY <3>1, <3>2, HalfPositive
    <2> QED
      BY <2>1 DEF State
  <1>3. ts \in [0..Len(p) -> State]
    <2>1. \A i \in 0..Len(p) :
             (IF i = 0 THEN x0
              ELSE IF i < Len(p) /\ e THEN [p[i] EXCEPT !.th = YawTo(p[i], p[i + 1])]
              ELSE p[i]) \in State
      BY <1>1, <1>2
    <2> QED
      BY <2>1 DEF InitialSeries
  <1>4. LastOf(ts) = Len(p)
    <2>1. DOMAIN ts = 0..Len(p)
      BY <1>3
    <2> HIDE DEF ts
    <2> QED
      BY <1>1, <2>1 DEF LastOf
  <1> QED
    BY <1>3, <1>4

(* A value read from a series at a later time is a state.                  *)
LEMMA ValuesTyped ==
    ASSUME NEW last \in Nat \ {0}, NEW ts \in [0..last -> State], LastOf(ts) = last,
           NEW step \in Nat \ {0}, NEW time \in Nat \ {0}, NEW hold \in BOOLEAN
    PROVE  ValuesAt(ts, step, time, hold) \in State
  <1> DEFINE above == (time + step - 1) \div step
             idx   == IF above > last THEN last ELSE above
             num   == time - (idx - 1) * step
  <1>1. above \in Int /\ above >= 1
    <2> DEFINE a == time + step - 1
    <2>1. a \in Int /\ step <= a
      OBVIOUS
    <2>2. a \div step \in Int /\ a % step \in 0..(step - 1) /\ a = step * (a \div step) + (a % step)
      BY <2>1, Division
    <2> DEFINE q == a \div step
    <2>3. q >= 1
      <3>1. q \in Int /\ a % step \in 0..(step - 1) /\ a = step * q + (a % step)
        BY <2>2
      <3> HIDE DEF a, q
      <3>2. ASSUME q <= 0 PROVE FALSE
        <4>1. step * (-q) >= 0 /\ step * q = -(step * (-q)) /\ step * q \in Int
          BY <3>1, <3>2
        <4> QED
          BY <2>1, <3>1, <4>1
      <3> QED
        BY <3>1, <3>2
    <2> QED
      BY <2>2, <2>3
  <1> HIDE DEF above
  <1>2. idx \in 1..last
    BY <1>1
  <1> HIDE DEF idx
  <1>3. ts[idx] \in State /\ ts[idx - 1] \in State
    BY <1>2
  <1>4. num \in Int
    <2>1. (idx - 1) * step \in Int
      BY <1>2
    <2> QED
      BY <2>1
  <1> HIDE DEF num
  <1>5. Between(ts[idx - 1], ts[idx], num, step) \in State
    BY <1>3, <1>4, BetweenTyped
  <1>6. ValuesAt(ts, step, time, hold) \in {ts[idx], Between(ts[idx - 1], ts[idx], num, step)}
    BY DEF ValuesAt, above, idx, num
  <1> QED
    BY <1>3, <1>5, <1>6

-----------------------------------------------------------------------------
(* The inductive invariant: a cleared grid has no controls either.         *)
IInv == TypeOK /\ ControlsInOrder /\ (xs = NoPath => us = NoPath)

(* The grid has n states and n - 1 controls.                               *)
OfSize(n) == xs \in [0..(n - 1) -> State] /\ us \in [0..(n - 2) -> 0..NMax]

LEMMA SizeOfControls ==
    ASSUME TypeOK, xs # NoPath
    PROVE  N \in 2..NMax /\ OfSize(N)
  <1>1. PICK n \in 2..NMax : OfSize(n)
    BY DEF TypeOK, OfSize
  <1>2. N \in 2..NMax /\ DOMAIN xs = 0..(N - 1)
    BY SizeOfGrid
  <1>3. DOMAIN xs = 0..(n - 1)
    BY <1>1 DEF OfSize
  <1>4. n = N
    BY <1>2, <1>3
  <1> QED
    BY <1>1, <1>4

LEMMA FillKeeps ==
    ASSUME TypeOK, NEW n \in 2..NMax, NEW x0 \in Poses, NEW p \in Plans, NEW e \in BOOLEAN,
           NEW dt \in Dts, NEW h \in BOOLEAN, Fill(n, x0, p, e, dt, h)
    PROVE  OfSize(n)' /\ ControlsInOrder'
  <1> DEFINE ts   == InitialSeries(x0, p, e)
             step == (n - 1) * DtRef
  <1>1. /\ xs' = [k \in 0..(n - 1) |->
                    IF k = 0 THEN x0
                    ELSE IF k = n - 1 THEN ts[Len(p)]
                    ELSE ValuesAt(ts, step, k * dt * Len(p), h)]
        /\ us' = [k \in 0..(n - 2) |-> 0]
    BY DEF Fill
  <1>2. /\ n \in Nat /\ n >= 2 /\ NMax \in Nat /\ x0 \in State /\ dt \in Nat \ {0}
        /\ DtRef \in Nat \ {0} /\ Len(p) \in Nat \ {0}
    BY TrajectoryAssumption, PosesAreStates
  <1>3. step \in Nat \ {0} /\ \A k \in 1..(n - 1) : k * dt * Len(p) \in Nat \ {0}
    <2>1. \A a, b \in Nat \ {0} : a * b \in Nat \ {0}
      OBVIOUS
    <2>2. step \in Nat \ {0}
      BY <1>2, <2>1
    <2>3. ASSUME NEW k \in 1..(n - 1) PROVE k * dt * Len(p) \in Nat \ {0}
      <3>1. k \in Nat \ {0}
        BY <1>2
      <3>2. k * dt \in Nat \ {0}
        BY <1>2, <2>1, <3>1
      <3> QED
        BY <1>2, <2>1, <3>2
    <2> QED
      BY <2>2, <2>3
  <1>4. ts \in [0..Len(p) -> State] /\ LastOf(ts) = Len(p)
    BY SeriesTyped
  <1> HIDE DEF ts, step
  <1>5. ts[Len(p)] \in State
    BY <1>2, <1>4
  <1>6. ASSUME NEW k \in 1..(n - 1) PROVE ValuesAt(ts, step, k * dt * Len(p), h) \in State
    BY <1>2, <1>3, <1>4, ValuesTyped
  <1>7. xs' \in [0..(n - 1) -> State]
    <2>1. \A k \in 0..(n - 1) : k = 0 \/ k \in 1..(n - 1)
      BY <1>2
    <2>2. \A k \in 0..(n - 1) :
             (IF k = 0 THEN x0 ELSE IF k = n - 1 THEN ts[Len(p)]
              ELSE ValuesAt(ts, step, k * dt * Len(p), h)) \in State
      BY <1>2, <1>5, <1>6, <2>1, Zenon
    <2> QED
      BY <1>1, <2>2, Zenon
  <1>8. us' \in [0..(n - 2) -> 0..NMax] /\ ControlsInOrder'
    BY <1>1, <1>2 DEF ControlsInOrder
  <1> QED
    BY <1>7, <1>8 DEF OfSize

(* Controls picked in the order of the old ones are in order.              *)
LEMMA PickedInOrder ==
    ASSUME NEW n \in Int, NEW m \in Int, us \in [0..n -> 0..NMax], ControlsInOrder,
           NEW at \in [0..m -> 0..n], \A i, j \in 0..m : i < j => at[i] <= at[j],
           us' = [i \in 0..m |-> us[at[i]]]
    PROVE  us' \in [0..m -> 0..NMax] /\ ControlsInOrder'
  <1>1. us' \in [0..m -> 0..NMax]
    OBVIOUS
  <1>2. ASSUME NEW i \in 0..m, NEW j \in 0..m, i < j PROVE us'[i] <= us'[j]
    <2>1. at[i] \in 0..n /\ at[j] \in 0..n /\ at[i] <= at[j]
      BY <1>2
    <2>2. us[at[i]] \in 0..NMax /\ us[at[j]] \in 0..NMax
      BY <2>1
    <2>3. us[at[i]] <= us[at[j]]
      <3>1. CASE at[i] < at[j]
        BY <2>1, <3>1 DEF ControlsInOrder
      <3>2. CASE at[i] = at[j]
        BY <2>2, <3>2, TrajectoryAssumption
      <3> QED
        BY <2>1, <3>1, <3>2
    <2> QED
      BY <2>3
  <1> QED
    BY <1>1, <1>2 DEF ControlsInOrder

LEMMA NewRunKeeps ==
    ASSUME TypeOK, ControlsInOrder, NEW w \in BOOLEAN, NEW x0 \in Poses, NEW g \in Poses,
           NewRun(w, x0, g)
    PROVE  (\E n \in 2..NMax : OfSize(n)') /\ ControlsInOrder'
  <1> DEFINE s  == IF w THEN NearestState(x0) ELSE 0
             xf == ShiftedStates(s)[N - 1]
             fx == [pos |-> IF "pos" \in xf_fixed THEN g.pos ELSE xf.pos,
                    th  |-> IF "th" \in xf_fixed THEN g.th ELSE xf.th]
             at == [i \in 0..(N - 2) |-> IF i + s <= N - 2 THEN i + s ELSE N - 2]
  <1>1. /\ xs # NoPath
        /\ xs' = [ShiftedStates(s) EXCEPT ![0] = x0, ![N - 1] = fx]
        /\ us' = ShiftedControls(s)
    BY DEF NewRun
  <1>2. N \in Int /\ N >= 2 /\ N \in 2..NMax /\ OfSize(N)
    BY <1>1, SizeOfControls, TrajectoryAssumption
  <1>3. s \in 0..(N - 2)
    BY <1>1, <1>2, NearestStateInRange
  <1>4. /\ ShiftedStates(s) = [i \in 0..(N - 1) |-> Beyond(i + s)]
        /\ ShiftedControls(s) = [i \in 0..(N - 2) |-> us[IF i + s <= N - 2 THEN i + s ELSE N - 2]]
    BY <1>1, <1>3, StatesShifted, ControlsShifted
  <1> HIDE DEF s
  <1>5. ShiftedStates(s) \in [0..(N - 1) -> State]
    <2>1. \A i \in 0..(N - 1) : Beyond(i + s) \in State
      <3>1. \A i \in 0..(N - 1) : i + s \in Nat
        BY <1>2, <1>3
      <3> QED
        BY <1>1, <3>1, BeyondGoesOn
    <2> QED
      BY <1>4, <2>1
  <1>6. fx \in State
    <2>1. xf \in State /\ g \in State
      BY <1>2, <1>5, PosesAreStates
    <2> HIDE DEF xf
    <2> QED
      BY <2>1 DEF State
  <1> HIDE DEF fx
  <1>7. xs' \in [0..(N - 1) -> State]
    <2>1. x0 \in State
      BY PosesAreStates
    <2> HIDE DEF State
    <2> QED
      BY <1>1, <1>5, <1>6, <2>1
  <1>8. at \in [0..(N - 2) -> 0..(N - 2)] /\ \A i, j \in 0..(N - 2) : i < j => at[i] <= at[j]
    BY <1>2, <1>3
  <1>9. us' = [i \in 0..(N - 2) |-> us[at[i]]]
    BY <1>1, <1>4
  <1> HIDE DEF at
  <1>10. us' \in [0..(N - 2) -> 0..NMax] /\ ControlsInOrder'
    <2>1. us \in [0..(N - 2) -> 0..NMax] /\ N - 2 \in Int
      BY <1>2 DEF OfSize
    <2> QED
      BY <1>8, <1>9, <2>1, PickedInOrder
  <1>11. PICK n \in 2..NMax : n = N
    BY <1>2
  <1>12. OfSize(n)'
    BY <1>7, <1>10, <1>11 DEF OfSize
  <1> QED
    BY <1>10, <1>12

LEMMA ResampleKeeps ==
    ASSUME TypeOK, ControlsInOrder, NEW n \in 2..NMax, Resample(n)
    PROVE  OfSize(n)' /\ ControlsInOrder'
  <1> DEFINE Rest(k) == LET j == IdxOld(k, n)
                        IN  Between(xs[j - 1], xs[j], k * (N - 1) - (j - 1) * (n - 1), n - 1)
             at == [k \in 0..(n - 2) |-> IF k = 0 THEN 0 ELSE IdxOld(k, n) - 1]
  <1>1. /\ xs # NoPath
        /\ xs' = [k \in 0..(n - 1) |-> IF k = 0 THEN xs[0]
                                     ELSE IF k = n - 1 THEN xs[N - 1] ELSE Rest(k)]
        /\ us' = [k \in 0..(n - 2) |-> IF k = 0 THEN us[0] ELSE us[IdxOld(k, n) - 1]]
    BY DEF Resample
  <1>2. N \in Int /\ N >= 2 /\ N \in 2..NMax /\ OfSize(N) /\ n \in Nat /\ n >= 2
    BY <1>1, SizeOfControls, TrajectoryAssumption
  <1>3. \A i \in 0..(N - 1) : xs[i] \in State
    BY <1>2 DEF OfSize
  <1>4. /\ \A k \in 1..(n - 2) : IdxOld(k, n) \in 1..(N - 1)
        /\ \A k, l \in 1..(n - 2) : k <= l => IdxOld(k, n) <= IdxOld(l, n)
    BY <1>1, OldIntervals
  <1>5. ASSUME NEW k \in 1..(n - 2) PROVE Rest(k) \in State
    <2> DEFINE j   == IdxOld(k, n)
               num == k * (N - 1) - (j - 1) * (n - 1)
    <2>1. j \in 1..(N - 1)
      BY <1>4
    <2>2. Rest(k) = Between(xs[j - 1], xs[j], num, n - 1)
      OBVIOUS
    <2> HIDE DEF j
    <2>3. xs[j - 1] \in State /\ xs[j] \in State
      BY <1>2, <1>3, <2>1
    <2>4. num \in Int /\ n - 1 \in Nat \ {0}
      <3>1. \A a, b \in Int : a * b \in Int
        OBVIOUS
      <3>2. k * (N - 1) \in Int /\ (j - 1) * (n - 1) \in Int
        BY <1>2, <2>1, <3>1
      <3> QED
        BY <1>2, <3>2
    <2> HIDE DEF num, Rest
    <2> QED
      BY <2>2, <2>3, <2>4, BetweenTyped
  <1> HIDE DEF Rest
  <1>6. xs' \in [0..(n - 1) -> State]
    <2>1. \A k \in 0..(n - 1) : k = 0 \/ k = n - 1 \/ k \in 1..(n - 2)
      BY <1>2
    <2>2. xs[0] \in State /\ xs[N - 1] \in State
      BY <1>2, <1>3
    <2>3. \A k \in 0..(n - 1) :
            (IF k = 0 THEN xs[0] ELSE IF k = n - 1 THEN xs[N - 1] ELSE Rest(k)) \in State
      BY <1>5, <2>1, <2>2, Zenon
    <2> QED
      BY <1>1, <2>3, Zenon
  <1>7. at \in [0..(n - 2) -> 0..(N - 2)] /\ \A i, j \in 0..(n - 2) : i < j => at[i] <= at[j]
    <2>1. \A k \in 0..(n - 2) : k # 0 => k \in 1..(n - 2)
      BY <1>2
    <2>2. \A k \in 0..(n - 2) : at[k] \in 0..(N - 2)
      <3>1. ASSUME NEW k \in 1..(n - 2) PROVE IdxOld(k, n) - 1 \in 0..(N - 2)
        BY <1>2, <1>4
      <3>2. 0 \in 0..(N - 2)
        BY <1>2
      <3> QED
        BY <2>1, <3>1, <3>2
    <2>3. ASSUME NEW i \in 0..(n - 2), NEW j \in 0..(n - 2), i < j PROVE at[i] <= at[j]
      <3>1. j \in 1..(n - 2)
        BY <1>2, <2>3
      <3>2. CASE i = 0
        <4>1. at[i] = 0 /\ at[j] \in 0..(N - 2)
          BY <2>2, <3>2
        <4> QED
          BY <1>2, <4>1
      <3>3. CASE i # 0
        <4>1. i \in 1..(n - 2) /\ i <= j
          BY <2>1, <2>3, <3>3
        <4>2. /\ IdxOld(i, n) \in 1..(N - 1) /\ IdxOld(j, n) \in 1..(N - 1)
              /\ IdxOld(i, n) <= IdxOld(j, n)
          BY <1>4, <3>1, <4>1
        <4>3. at[i] = IdxOld(i, n) - 1 /\ at[j] = IdxOld(j, n) - 1
          BY <3>1, <4>1
        <4> QED
          BY <1>2, <4>2, <4>3
      <3> QED
        BY <3>2, <3>3
    <2> HIDE DEF at
    <2>4. at = [k \in 0..(n - 2) |-> at[k]]
      BY DEF at
    <2> QED
      BY <2>2, <2>3, <2>4
  <1>8. us' = [k \in 0..(n - 2) |-> us[at[k]]]
    <2>1. \A k \in 0..(n - 2) :
             (IF k = 0 THEN us[0] ELSE us[IdxOld(k, n) - 1]) = us[at[k]]
      OBVIOUS
    <2> QED
      BY <1>1, <2>1
  <1> HIDE DEF at
  <1>9. us' \in [0..(n - 2) -> 0..NMax] /\ ControlsInOrder'
    <2>1. us \in [0..(N - 2) -> 0..NMax] /\ N - 2 \in Int /\ n - 2 \in Int
      BY <1>2 DEF OfSize
    <2> QED
      BY <1>7, <1>8, <2>1, PickedInOrder
  <1> QED
    BY <1>6, <1>9 DEF OfSize

LEMMA OptimiseKeeps ==
    ASSUME TypeOK, Optimise
    PROVE  (\E n \in 2..NMax : OfSize(n)') /\ ControlsInOrder'
  <1>1. xs # NoPath
    BY DEF Optimise
  <1>2. PICK n \in 2..NMax : n = N
    BY <1>1, SizeOfControls
  <1>3. /\ n \in Nat /\ n >= 2 /\ NMax \in Nat
        /\ \A i \in 0..(n - 1) : xs[i] \in State
    BY <1>1, <1>2, SizeOfGrid, TrajectoryAssumption
  <1>4. PICK inner \in [1..(n - 1) -> Poses] :
          LET xf == inner[n - 1] IN
          xs' = [k \in 0..(n - 1) |->
                   IF k = 0 THEN xs[0]
                   ELSE IF k < n - 1 THEN inner[k]
                   ELSE [pos |-> IF "pos" \in xf_fixed THEN xs[k].pos ELSE xf.pos,
                         th  |-> IF "th" \in xf_fixed THEN xs[k].th ELSE xf.th]]
    BY <1>2 DEF Optimise
  <1>5. \A k \in 1..(n - 1) : inner[k] \in State
    BY PosesAreStates
  <1>6. ASSUME NEW s \in State, NEW t \in State
        PROVE  [pos |-> IF "pos" \in xf_fixed THEN s.pos ELSE t.pos,
                th  |-> IF "th" \in xf_fixed THEN s.th ELSE t.th] \in State
    BY DEF State
  <1>7. xs' \in [0..(n - 1) -> State]
    <2>1. \A k \in 0..(n - 1) : k = 0 \/ k \in 1..(n - 1)
      BY <1>3
    <2>2. 0 \in 0..(n - 1) /\ n - 1 \in 1..(n - 1)
      BY <1>3
    <2> HIDE DEF State
    <2>3. \A k \in 0..(n - 1) :
             (IF k = 0 THEN xs[0]
              ELSE IF k < n - 1 THEN inner[k]
              ELSE [pos |-> IF "pos" \in xf_fixed THEN xs[k].pos ELSE inner[n - 1].pos,
                    th  |-> IF "th" \in xf_fixed THEN xs[k].th ELSE inner[n - 1].th]) \in State
      BY <1>3, <1>5, <1>6, <2>1, <2>2, Zenon
    <2> QED
      BY <1>4, <2>3, Zenon
  <1>8. us' = [k \in 0..(n - 2) |-> k + 1]
    BY <1>2 DEF Optimise
  <1>9. us' \in [0..(n - 2) -> 0..NMax] /\ ControlsInOrder'
    BY <1>3, <1>8 DEF ControlsInOrder
  <1> QED
    BY <1>7, <1>9 DEF OfSize

(* A grid of some size after the step keeps the invariant.                 *)
LEMMA FilledKeeps ==
    ASSUME \E n \in 2..NMax : OfSize(n)', ControlsInOrder',
           xf_fixed' \in SUBSET {"pos", "th"}, moves' \in 0..MaxMoves
    PROVE  IInv'
  <1>1. PICK n \in 2..NMax : OfSize(n)'
    OBVIOUS
  <1>2. xs' \in [0..(n - 1) -> State] /\ us' \in [0..(n - 2) -> 0..NMax]
    BY <1>1 DEF OfSize
  <1>3. xs' # NoPath
    <2>1. 0 \in DOMAIN xs'
      BY <1>2, TrajectoryAssumption
    <2>2. DOMAIN NoPath = {}
      BY DEF NoPath
    <2> QED
      BY <2>1, <2>2
  <1> QED
    BY <1>2, <1>3 DEF IInv, TypeOK

LEMMA InitIInv == Init => IInv
  <1>1. Init => moves \in 0..MaxMoves
    BY TrajectoryAssumption DEF Init
  <1>2. Init => ControlsInOrder
    BY DEF Init, NoPath, ControlsInOrder
  <1> QED
    BY <1>1, <1>2 DEF Init, IInv, TypeOK

LEMMA NextIInv == IInv /\ [Next]_vars => IInv'
  <1> SUFFICES ASSUME IInv, [Next]_vars PROVE IInv'
    OBVIOUS
  <1>1. TypeOK /\ ControlsInOrder /\ (xs = NoPath => us = NoPath)
    BY DEF IInv
  <1>2. xf_fixed \in SUBSET {"pos", "th"} /\ moves \in 0..MaxMoves /\ MaxMoves \in Nat
    BY <1>1, TrajectoryAssumption DEF TypeOK
  <1>3. moves < MaxMoves => moves + 1 \in 0..MaxMoves
    BY <1>2
  <1>4. ASSUME NEW n \in 2..NMax, NEW x0 \in Poses, NEW p \in Plans, NEW e \in BOOLEAN,
               NEW dt \in Dts, NEW h \in BOOLEAN, Fill(n, x0, p, e, dt, h)
        PROVE  IInv'
    <2>1. xf_fixed' = xf_fixed /\ moves' = moves
      BY <1>4 DEF Fill
    <2>2. OfSize(n)' /\ ControlsInOrder'
      BY <1>1, <1>4, FillKeeps
    <2> QED
      BY <1>2, <2>1, <2>2, FilledKeeps
  <1>5. ASSUME NEW w \in BOOLEAN, NEW x0 \in Poses, NEW g \in Poses, NewRun(w, x0, g)
        PROVE  IInv'
    <2>1. xf_fixed' = xf_fixed /\ moves' = moves + 1 /\ moves < MaxMoves
      BY <1>5 DEF NewRun
    <2>2. (\E n \in 2..NMax : OfSize(n)') /\ ControlsInOrder'
      BY <1>1, <1>5, NewRunKeeps
    <2> QED
      BY <1>2, <1>3, <2>1, <2>2, FilledKeeps
  <1>6. ASSUME NEW n \in 2..NMax, Resample(n)
        PROVE  IInv'
    <2>1. xf_fixed' = xf_fixed /\ moves' = moves + 1 /\ moves < MaxMoves
      BY <1>6 DEF Resample
    <2>2. OfSize(n)' /\ ControlsInOrder'
      BY <1>1, <1>6, ResampleKeeps
    <2> QED
      BY <1>2, <1>3, <2>1, <2>2, FilledKeeps
  <1>7. CASE Optimise
    <2>1. xf_fixed' = xf_fixed /\ moves' = 0 /\ 0 \in 0..MaxMoves
      BY <1>2, <1>7 DEF Optimise
    <2>2. (\E n \in 2..NMax : OfSize(n)') /\ ControlsInOrder'
      BY <1>1, <1>7, OptimiseKeeps
    <2> QED
      BY <1>2, <2>1, <2>2, FilledKeeps
  <1>8. CASE Clear
    <2>1. xs' = NoPath /\ us' = NoPath /\ xf_fixed' = xf_fixed /\ moves' = 0
      BY <1>8 DEF Clear
    <2>2. ControlsInOrder'
      BY <2>1 DEF NoPath, ControlsInOrder
    <2> QED
      BY <1>2, <2>1, <2>2 DEF IInv, TypeOK
  <1>9. CASE UNCHANGED vars
    BY <1>1, <1>9 DEF vars, IInv, TypeOK, ControlsInOrder
  <1> QED
    BY <1>4, <1>5, <1>6, <1>7, <1>8, <1>9 DEF Next

LEMMA Invariance == Spec => []IInv
  <1> QED
    BY InitIInv, NextIInv, PTL DEF Spec

(* States and controls are of one size and in their ranges: what is        *)
(* sampled, moved or resampled is a state with a heading in half a turn to *)
(* either side, and every control comes from the last solution.            *)
THEOREM TypeCorrect == Spec => []TypeOK
  <1>1. IInv => TypeOK
    BY DEF IInv
  <1> QED
    BY <1>1, Invariance, PTL

(* Whatever warm starts and resamplings follow each other, the controls    *)
(* stay in the order in which the solver found them.                       *)
THEOREM AlwaysInOrder == Spec => []ControlsInOrder
  <1>1. IInv => ControlsInOrder
    BY DEF IInv
  <1> QED
    BY <1>1, Invariance, PTL

(* A new run moves states and controls by the same number of intervals,    *)
(* whatever the size of the grid and the state measured.                   *)
THEOREM AlwaysShiftedTogether == Spec => ShiftedTogether
  <1> DEFINE Together ==
        (xs # NoPath /\ moves' = moves + 1 /\ source' = NoPath) =>
          \E s \in 0..(N - 2) :
            /\ \A i \in 1..(N - 2) :
                 xs'[i] = IF i + s <= N - 1 THEN xs[i + s]
                          ELSE Between(xs[N - 2], xs[N - 1], i + s - (N - 2), 1)
            /\ \A i \in 0..(N - 2) : us'[i] = us[IF i + s <= N - 2 THEN i + s ELSE N - 2]
  <1>1. ASSUME IInv, NEW w \in BOOLEAN, NEW x0 \in Poses, NEW g \in Poses, NewRun(w, x0, g)
        PROVE  Together
    <2> DEFINE s  == IF w THEN NearestState(x0) ELSE 0
    <2>1. TypeOK /\ xs # NoPath
      BY <1>1 DEF IInv, NewRun
    <2>2. N \in Int /\ N >= 2
      BY <2>1, SizeOfGrid, TrajectoryAssumption
    <2>3. s \in 0..(N - 2)
      BY <2>1, <2>2, NearestStateInRange
    <2>4. \E fx : xs' = [ShiftedStates(s) EXCEPT ![0] = x0, ![N - 1] = fx]
      BY <1>1 DEF NewRun
    <2>5. us' = ShiftedControls(s)
      BY <1>1 DEF NewRun
    <2> HIDE DEF s
    <2>6. /\ ShiftedStates(s) = [i \in 0..(N - 1) |-> Beyond(i + s)]
          /\ us' = [i \in 0..(N - 2) |-> us[IF i + s <= N - 2 THEN i + s ELSE N - 2]]
      BY <2>1, <2>3, <2>5, StatesShifted, ControlsShifted
    <2>7. \A i \in 1..(N - 2) : xs'[i] = Beyond(i + s)
      <3>1. \A i \in 1..(N - 2) : i \in 0..(N - 1) /\ i # 0 /\ i # N - 1
        BY <2>2
      <3> QED
        BY <2>4, <2>6, <3>1
    <2>8. \A i \in 1..(N - 2) :
             Beyond(i + s) = IF i + s <= N - 1 THEN xs[i + s]
                             ELSE Between(xs[N - 2], xs[N - 1], i + s - (N - 2), 1)
      <3>1. \A i \in 1..(N - 2) : (i + s) - (N - 2) = i + s - (N - 2)
        BY <2>2, <2>3
      <3> QED
        BY <3>1 DEF Beyond
    <2>9. \A i \in 0..(N - 2) : us'[i] = us[IF i + s <= N - 2 THEN i + s ELSE N - 2]
      BY <2>6
    <2> QED
      BY <2>3, <2>7, <2>8, <2>9
  <1>2. ASSUME IInv, [Next]_vars PROVE Together
    <2>1. moves \in Nat
      BY <1>2 DEF IInv, TypeOK
    <2>2. CASE \E n \in 2..NMax, x0 \in Poses, p \in Plans, e \in BOOLEAN, dt \in Dts,
                   h \in BOOLEAN : Fill(n, x0, p, e, dt, h)
      BY <2>2 DEF Fill
    <2>3. CASE \E n \in 2..NMax : Resample(n)
      BY <2>3 DEF Resample
    <2>4. CASE Optimise \/ Clear
      <3>1. moves' = 0
        BY <2>4 DEF Optimise, Clear
      <3> QED
        BY <2>1, <3>1
    <2>5. CASE UNCHANGED vars
      <3>1. moves' = moves
        BY <2>5 DEF vars
      <3> QED
        BY <2>1, <3>1
    <2> HIDE DEF Together
    <2> QED
      BY <1>1, <1>2, <2>2, <2>3, <2>4, <2>5 DEF Next
  <1>3. IInv /\ [Next]_vars
        => [ (xs # NoPath /\ moves' = moves + 1 /\ source' = NoPath) =>
                \E s \in 0..(N - 2) :
                  /\ \A i \in 1..(N - 2) :
                       xs'[i] = IF i + s <= N - 1 THEN xs[i + s]
                                ELSE Between(xs[N - 2], xs[N - 1], i + s - (N - 2), 1)
                  /\ \A i \in 0..(N - 2) :
                       us'[i] = us[IF i + s <= N - 2 THEN i + s ELSE N - 2] ]_vars
    BY <1>2
  <1> QED
    BY <1>3, Invariance, PTL DEF Spec, ShiftedTogether

(* A trajectory found feasible jumps over no obstacle between two states   *)
(* that were looked at, whatever the resolution, the grid size and the     *)
(* states the solver has left.                                             *)
THEOREM NeverJumpsOver == Spec => []NothingJumpedOver
  <1> QED
    BY NoJump, TypeCorrect, PTL

-----------------------------------------------------------------------------
(* Sampling anew                                                           *)

(* a and b differ by d, up to multiples of turn; a turn of zero is none.   *)
Apart(turn, a, b, d) == \E q \in Int : b - a = d + turn * q

LEMMA ApartAdds ==
    ASSUME NEW turn \in Int, NEW a \in Int, NEW b \in Int, NEW c \in Int,
           NEW d \in Int, NEW e \in Int
    PROVE  /\ Apart(turn, a, b, d) /\ Apart(turn, b, c, e) => Apart(turn, a, c, d + e)
           /\ Apart(turn, a, b, d) => Apart(turn, b, a, -d)
           /\ Apart(turn, a, a + d, d)
  <1>1. \A p, q \in Int : /\ turn * (p + q) = turn * p + turn * q /\ turn * (-q) = -(turn * q)
                          /\ turn * 0 = 0 /\ turn * q \in Int
    OBVIOUS
  <1>2. ASSUME Apart(turn, a, b, d), Apart(turn, b, c, e) PROVE Apart(turn, a, c, d + e)
    <2>1. PICK p \in Int : b - a = d + turn * p
      BY <1>2 DEF Apart
    <2>2. PICK q \in Int : c - b = e + turn * q
      BY <1>2 DEF Apart
    <2>3. c - a = (d + e) + turn * (p + q) /\ p + q \in Int
      BY <1>1, <2>1, <2>2
    <2> QED
      BY <2>3 DEF Apart
  <1>3. ASSUME Apart(turn, a, b, d) PROVE Apart(turn, b, a, -d)
    <2>1. PICK p \in Int : b - a = d + turn * p
      BY <1>3 DEF Apart
    <2>2. a - b = -d + turn * (-p) /\ -p \in Int
      BY <1>1, <2>1
    <2> QED
      BY <2>2 DEF Apart
  <1>4. Apart(turn, a, a + d, d)
    <2>1. (a + d) - a = d + turn * 0 /\ 0 \in Int
      BY <1>1
    <2> QED
      BY <2>1 DEF Apart
  <1> QED
    BY <1>2, <1>3, <1>4

LEMMA ProductBound ==
    ASSUME NEW r \in Nat, NEW e \in Int, NEW E \in Nat, AbsVal(e) <= E
    PROVE  r * e \in Int /\ r * E \in Nat /\ AbsVal(r * e) <= r * E
  <1>1. -E <= e /\ e <= E
    BY DEF AbsVal
  <1>2. r * (E - e) >= 0 /\ r * (E + e) >= 0
    BY <1>1
  <1>3. r * (E - e) = r * E - r * e /\ r * (E + e) = r * E + r * e
    OBVIOUS
  <1>4. r * e \in Int /\ r * E \in Nat
    OBVIOUS
  <1>5. \A x \in Int, y \in Nat : -y <= x /\ x <= y => AbsVal(x) <= y
    BY DEF AbsVal
  <1>6. -(r * E) <= r * e /\ r * e <= r * E
    BY <1>2, <1>3, <1>4
  <1> QED
    BY <1>4, <1>5, <1>6

LEMMA AbsSum ==
    ASSUME NEW a \in Int, NEW b \in Int, NEW x \in Int, NEW y \in Int,
           AbsVal(a) <= x, AbsVal(b) <= y
    PROVE  AbsVal(a + b) <= x + y
  BY DEF AbsVal

(* Two values are apart by no more than w.                                 *)
Within(turn, a, b, w) == \E d \in Int : AbsVal(d) <= w /\ Apart(turn, a, b, d)

LEMMA WithinAdds ==
    ASSUME NEW turn \in Int, NEW a \in Int, NEW b \in Int, NEW c \in Int,
           NEW v \in Nat, NEW w \in Nat, Within(turn, a, b, v), Within(turn, b, c, w)
    PROVE  Within(turn, a, c, v + w)
  <1>1. PICK d \in Int : AbsVal(d) <= v /\ Apart(turn, a, b, d)
    BY DEF Within
  <1>2. PICK e \in Int : AbsVal(e) <= w /\ Apart(turn, b, c, e)
    BY DEF Within
  <1>3. AbsVal(d + e) <= v + w
    BY <1>1, <1>2, AbsSum
  <1>4. Apart(turn, a, c, d + e)
    BY <1>1, <1>2, ApartAdds
  <1>5. d + e \in Int
    OBVIOUS
  <1> QED
    BY <1>3, <1>4, <1>5 DEF Within

LEMMA WithinReflexive ==
    ASSUME NEW turn \in Int, NEW a \in Int
    PROVE  Within(turn, a, a, 0)
  <1>1. Apart(turn, a, a + 0, 0) /\ a + 0 = a
    BY ApartAdds
  <1>2. AbsVal(0) <= 0
    BY DEF AbsVal
  <1> QED
    BY <1>1, <1>2 DEF Within

(* A path of n intervals with knots val, in each of which the value goes   *)
(* on by e per unit, m units long, at most E in either direction.          *)
Path(turn, n, m, val, e, E) ==
    /\ val \in [0..n -> Int] /\ e \in [0..(n - 1) -> Int] /\ E \in Nat
    /\ \A j \in 0..(n - 1) : AbsVal(e[j]) <= E
    /\ \A j \in 0..(n - 1) : Apart(turn, val[j], val[j + 1], m * e[j])

LEMMA KnotsWithin ==
    ASSUME NEW turn \in Int, NEW n \in Nat, NEW m \in Nat, NEW val, NEW e, NEW E,
           Path(turn, n, m, val, e, E), NEW i \in 0..n
    PROVE  \A j \in i..n : (j - i) * (m * E) \in Nat /\ Within(turn, val[i], val[j], (j - i) * (m * E))
  <1> DEFINE w == m * E
             S == {j \in i..n : (j - i) * w \in Nat /\ Within(turn, val[i], val[j], (j - i) * w)}
  <1>1. /\ val \in [0..n -> Int] /\ e \in [0..(n - 1) -> Int] /\ E \in Nat
        /\ \A j \in 0..(n - 1) : AbsVal(e[j]) <= E
        /\ \A j \in 0..(n - 1) : Apart(turn, val[j], val[j + 1], m * e[j])
    BY DEF Path
  <1>2. w \in Nat
    BY <1>1
  <1> HIDE DEF w
  <1>3. i \in S
    <2>1. val[i] \in Int /\ (i - i) * w = 0 /\ i \in i..n
      BY <1>1, <1>2
    <2>2. Within(turn, val[i], val[i], 0)
      BY <2>1, WithinReflexive
    <2> QED
      BY <2>1, <2>2
  <1>4. ASSUME NEW j \in i..(n - 1), j \in S PROVE j + 1 \in S
    <2>1. (j - i) * w \in Nat /\ Within(turn, val[i], val[j], (j - i) * w)
      BY <1>4
    <2>2. val[i] \in Int /\ val[j] \in Int /\ val[j + 1] \in Int /\ e[j] \in Int /\ j \in 0..(n - 1)
      BY <1>1
    <2>3. Within(turn, val[j], val[j + 1], w)
      <3>1. m * e[j] \in Int /\ AbsVal(m * e[j]) <= m * E
        BY <1>1, <2>2, ProductBound
      <3>2. Apart(turn, val[j], val[j + 1], m * e[j])
        BY <1>1, <2>2
      <3> QED
        BY <3>1, <3>2 DEF Within, w
    <2>4. Within(turn, val[i], val[j + 1], (j - i) * w + w)
      BY <1>2, <2>1, <2>2, <2>3, WithinAdds
    <2>5. (j - i) * w + w = (j + 1 - i) * w
      BY <1>2
    <2>6. (j + 1 - i) * w \in Nat /\ j + 1 \in i..n
      BY <1>2, <2>1, <2>5
    <2> QED
      BY <2>4, <2>5, <2>6
  <1> HIDE DEF S
  <1>5. \A j \in i..n : j \in S
    <2>1. i \in Int /\ n \in Int
      OBVIOUS
    <2> QED
      BY <1>3, <1>4, <2>1, IntervalInduction
  <1> QED
    BY <1>5 DEF S, w

(* y is the value r units into interval j.                                 *)
OnPath(turn, y, val, e, j, r) == y \in Int /\ Apart(turn, val[j], y, r * e[j])

LEMMA SamplesWithin ==
    ASSUME NEW turn \in Int, NEW n \in Nat, NEW m \in Nat, NEW val, NEW e, NEW E,
           Path(turn, n, m, val, e, E), NEW w \in Nat \ {0},
           NEW i \in 0..(n - 1), NEW r \in 0..m, NEW x, OnPath(turn, x, val, e, i, r),
           NEW j \in 0..(n - 1), NEW s \in 0..m, NEW y, OnPath(turn, y, val, e, j, s),
           j * m + s = i * m + r + w
    PROVE  Within(turn, x, y, w * E)
  <1>1. /\ val \in [0..n -> Int] /\ e \in [0..(n - 1) -> Int] /\ E \in Nat
        /\ \A k \in 0..(n - 1) : AbsVal(e[k]) <= E
        /\ \A k \in 0..(n - 1) : Apart(turn, val[k], val[k + 1], m * e[k])
    BY DEF Path
  <1>2. /\ x \in Int /\ Apart(turn, val[i], x, r * e[i])
        /\ y \in Int /\ Apart(turn, val[j], y, s * e[j])
    BY DEF OnPath
  <1>3. /\ val[i] \in Int /\ val[j] \in Int /\ val[i + 1] \in Int /\ e[i] \in Int /\ e[j] \in Int
        /\ AbsVal(e[i]) <= E /\ AbsVal(e[j]) <= E /\ i \in Nat /\ j \in Nat /\ r \in Nat /\ s \in Nat
        /\ Apart(turn, val[i], val[i + 1], m * e[i])
    BY <1>1
  <1>4. r * e[i] \in Int /\ s * e[j] \in Int /\ m * e[i] \in Int
    BY <1>3
  <1>5. Apart(turn, x, val[i], -(r * e[i]))
    BY <1>2, <1>3, <1>4, ApartAdds
  <1>6. j >= i
    <2> SUFFICES ASSUME j <= i - 1 PROVE FALSE
      BY <1>3
    <2>1. (i - 1 - j) * m >= 0 /\ (i - 1 - j) * m = i * m - m - j * m /\ i * m \in Int /\ j * m \in Int
      BY <1>3
    <2> QED
      BY <1>3, <2>1
  <1>7. CASE j = i
    <2>1. s - r = w
      <3>1. i * m \in Int
        BY <1>3
      <3> QED
        BY <1>3, <1>7, <3>1
    <2>2. Apart(turn, x, y, -(r * e[i]) + s * e[i])
      BY <1>2, <1>3, <1>4, <1>5, <1>7, ApartAdds
    <2>3. -(r * e[i]) + s * e[i] = w * e[i]
      BY <1>3, <2>1
    <2>4. w * e[i] \in Int /\ AbsVal(w * e[i]) <= w * E
      BY <1>1, <1>3, ProductBound
    <2> QED
      BY <2>2, <2>3, <2>4 DEF Within
  <1>8. CASE j > i
    <2> DEFINE u == m - r
    <2>1. u \in Nat /\ i + 1 \in 0..n /\ j \in (i + 1)..n
      BY <1>3, <1>8
    <2>2. Within(turn, x, val[i + 1], u * E)
      <3>1. Apart(turn, x, val[i + 1], -(r * e[i]) + m * e[i])
        BY <1>2, <1>3, <1>4, <1>5, ApartAdds
      <3>2. -(r * e[i]) + m * e[i] = u * e[i]
        BY <1>3
      <3> HIDE DEF u
      <3>3. u * e[i] \in Int /\ AbsVal(u * e[i]) <= u * E
        BY <1>1, <1>3, <2>1, ProductBound
      <3> QED
        BY <3>1, <3>2, <3>3 DEF Within
    <2>3. (j - (i + 1)) * (m * E) \in Nat /\ Within(turn, val[i + 1], val[j], (j - (i + 1)) * (m * E))
      BY <2>1, KnotsWithin
    <2>4. Within(turn, val[j], y, s * E)
      <3>1. s * e[j] \in Int /\ AbsVal(s * e[j]) <= s * E
        BY <1>1, <1>3, ProductBound
      <3> QED
        BY <1>2, <3>1 DEF Within
    <2>5. u * E \in Nat /\ s * E \in Nat /\ u * E + (j - (i + 1)) * (m * E) \in Nat
      <3> HIDE DEF u
      <3>1. u * E \in Nat /\ s * E \in Nat
        BY <1>1, <1>3, <2>1
      <3> QED
        BY <2>3, <3>1
    <2>6. Within(turn, x, val[j], u * E + (j - (i + 1)) * (m * E))
      <3> HIDE DEF u
      <3> QED
        BY <1>2, <1>3, <2>2, <2>3, <2>5, WithinAdds
    <2>7. Within(turn, x, y, u * E + (j - (i + 1)) * (m * E) + s * E)
      <3> DEFINE v == u * E + (j - (i + 1)) * (m * E)
      <3>1. v \in Nat /\ Within(turn, x, val[j], v)
        BY <2>5, <2>6
      <3> HIDE DEF v
      <3>2. Within(turn, x, y, v + s * E)
        BY <1>2, <1>3, <2>4, <2>5, <3>1, WithinAdds
      <3> QED
        BY <3>2 DEF v
    <2>8. u * E + (j - (i + 1)) * (m * E) + s * E = w * E
      <3>1. (j - (i + 1)) * (m * E) = ((j - (i + 1)) * m) * E
        BY <1>1, <1>3
      <3>2. u + (j - (i + 1)) * m + s = w
        <4>1. (j - (i + 1)) * m = j * m - i * m - m /\ i * m \in Int /\ j * m \in Int
          BY <1>3
        <4> QED
          BY <1>3, <4>1
      <3>3. (j - (i + 1)) * m \in Int
        BY <1>3
      <3> DEFINE t == (j - (i + 1)) * m
      <3> HIDE DEF u, t
      <3>4. u * E + t * E + s * E = (u + t + s) * E
        BY <1>1, <1>3, <2>1, <3>3 DEF t
      <3> QED
        BY <3>1, <3>2, <3>4 DEF t
    <2> QED
      BY <2>7, <2>8
  <1> QED
    BY <1>3, <1>6, <1>7, <1>8

LEMMA TimesPositive == \A a, b \in Nat \ {0} : a * b \in Nat \ {0}
  OBVIOUS

(* Some value of a function over an interval is the largest.               *)
LEMMA LargestValue ==
    ASSUME NEW n \in Nat, NEW f \in [0..n -> Nat]
    PROVE  \E j \in 0..n : \A i \in 0..n : f[i] <= f[j]
  <1> DEFINE S == {l \in 0..n : \E j \in 0..l : \A i \in 0..l : f[i] <= f[j]}
  <1>1. 0 \in S
    OBVIOUS
  <1>2. ASSUME NEW l \in 0..(n - 1), l \in S PROVE l + 1 \in S
    <2>1. PICK j \in 0..l : \A i \in 0..l : f[i] <= f[j]
      BY <1>2
    <2>2. f[j] \in Nat /\ f[l + 1] \in Nat /\ \A i \in 0..l : f[i] \in Nat
      OBVIOUS
    <2>3. \A i \in 0..(l + 1) : i \in 0..l \/ i = l + 1
      OBVIOUS
    <2>4. \E k \in {j, l + 1} : \A i \in 0..(l + 1) : f[i] <= f[k]
      BY <2>1, <2>2, <2>3
    <2>5. l + 1 \in 0..n /\ \A k \in {j, l + 1} : k \in 0..(l + 1)
      OBVIOUS
    <2>6. \E k \in 0..(l + 1) : \A i \in 0..(l + 1) : f[i] <= f[k]
      BY <2>4, <2>5, Zenon
    <2> QED
      BY <2>5, <2>6
  <1> HIDE DEF S
  <1>3. \A l \in 0..n : l \in S
    <2>1. 0 \in Int /\ n \in Int
      OBVIOUS
    <2> QED
      BY <1>1, <1>2, <2>1, IntervalInduction
  <1>4. n \in S
    BY <1>3
  <1> QED
    BY <1>4 DEF S

(* The normalised angle is the shortest turn to a heading.                 *)
LEMMA ShortestTurn ==
    ASSUME NEW a \in Int, NEW d \in Int, SameAngle(a, d)
    PROVE  AbsVal(NormalizeTheta(a)) \in Nat /\ AbsVal(NormalizeTheta(a)) <= AbsVal(d)
  <1>1. NormalizeTheta(a) = NormalizeTheta(d)
    BY NormalizeCanonical
  <1>2. NormalizeTheta(d) \in -Half..(Half - 1) /\ (d \in -Half..(Half - 1) => NormalizeTheta(d) = d)
    BY NormalizeCanonical
  <1> QED
    BY <1>1, <1>2, HalfPositive DEF AbsVal

LEMMA WholeDivision ==
    ASSUME NEW c \in Nat \ {0}, NEW m \in Nat \ {0}, NEW r \in Nat, NEW a \in Int, a % m = 0
    PROVE  /\ a \div m \in Int /\ a = m * (a \div m)
           /\ ((c * r) * a) \div (c * m) = r * (a \div m)
  <1> DEFINE q == a \div m
  <1>1. q \in Int /\ a = m * q
    BY Division
  <1> HIDE DEF q
  <1> DEFINE d == c * m
             p == r * q
  <1>2. d \in Nat \ {0}
    BY TimesPositive
  <1>3. p \in Int
    BY <1>1
  <1>4. (c * r) * a = d * p
    BY <1>1
  <1> HIDE DEF d, p
  <1>5. d * p \in Int /\ d * (p + 1) = d * p + d /\ d * p <= d * p
    BY <1>2, <1>3
  <1>6. (d * p) \div d \in p..p
    BY <1>2, <1>3, <1>5, DivBounds
  <1> QED
    BY <1>1, <1>3, <1>4, <1>6 DEF q, d, p

Positions(old, n)   == [j \in 0..n |-> old[j].pos]
Headings(old, n)    == [j \in 0..n |-> old[j].th]
PosSteps(old, n, m) == [j \in 0..(n - 1) |-> (old[j + 1].pos - old[j].pos) \div m]
ThSteps(old, n, m)  == [j \in 0..(n - 1) |-> NormalizeTheta(old[j + 1].th - old[j].th) \div m]

(* An m-th part of the way and of the turn between two states of old is a  *)
(* whole number of units.                                                  *)
Whole(old, n, m) ==
    \A j \in 0..(n - 1) :
      /\ (old[j + 1].pos - old[j].pos) % m = 0
      /\ NormalizeTheta(old[j + 1].th - old[j].th) % m = 0

(* y is the state of the path r units into its interval j.                 *)
SampleOf(y, old, n, m, j, r) ==
    /\ OnPath(0, y.pos, Positions(old, n), PosSteps(old, n, m), j, r)
    /\ OnPath(2 * Half, y.th, Headings(old, n), ThSteps(old, n, m), j, r)

(* The states of new divide the path of old into m parts of equal duration.*)
Sampled(old, new, n, m) ==
    \A k \in 0..m : \E j \in 0..(n - 1), r \in 0..m :
       k * n = j * m + r /\ SampleOf(new[k], old, n, m, j, r)

(* The knots of the old trajectory make a path, and some interval of it    *)
(* has its largest step.                                                   *)
LEMMA OldIsPath ==
    ASSUME NEW n \in Nat \ {0}, NEW m \in Nat \ {0}, NEW old \in [0..n -> State],
           Whole(old, n, m)
    PROVE  /\ \E i \in 0..(n - 1), E \in Nat :
                 Path(0, n, m, Positions(old, n), PosSteps(old, n, m), E) /\ Dist(old, i) = m * E
           /\ \E i \in 0..(n - 1), E \in Nat :
                 Path(2 * Half, n, m, Headings(old, n), ThSteps(old, n, m), E)
                   /\ Rot(old, i) = m * E
  <1> DEFINE p == Positions(old, n)
             h == Headings(old, n)
             e == PosSteps(old, n, m)
             t == ThSteps(old, n, m)
             way(j) == old[j + 1].pos - old[j].pos
             diff(j) == old[j + 1].th - old[j].th
             turn(j) == NormalizeTheta(diff(j))
  <1>1. \A j \in 0..n : old[j].pos \in Int /\ old[j].th \in Int
    BY StateFields
  <1>2. \A j \in 0..(n - 1) : j \in 0..n /\ j + 1 \in 0..n
    OBVIOUS
  <1>3. p \in [0..n -> Int] /\ h \in [0..n -> Int]
    BY <1>1 DEF Positions, Headings
  <1>4. ASSUME NEW j \in 0..(n - 1)
        PROVE  /\ way(j) \in Int /\ diff(j) \in Int /\ turn(j) \in Int /\ SameAngle(diff(j), turn(j))
               /\ way(j) = p[j + 1] - p[j] /\ diff(j) = h[j + 1] - h[j]
               /\ e[j] \in Int /\ way(j) = m * e[j] /\ t[j] \in Int /\ turn(j) = m * t[j]
    <2>1. way(j) \in Int /\ diff(j) \in Int
      BY <1>1, <1>2
    <2>2. turn(j) \in Int /\ SameAngle(diff(j), turn(j))
      BY <2>1, NormalizeCanonical
    <2>3. way(j) % m = 0 /\ turn(j) % m = 0
      BY DEF Whole
    <2>4. e[j] = way(j) \div m /\ t[j] = turn(j) \div m
      BY DEF PosSteps, ThSteps
    <2>5. way(j) = p[j + 1] - p[j] /\ diff(j) = h[j + 1] - h[j]
      BY <1>2 DEF Positions, Headings
    <2> HIDE DEF way, diff, turn, e, t, p, h
    <2>6. e[j] \in Int /\ way(j) = m * e[j] /\ t[j] \in Int /\ turn(j) = m * t[j]
      <3>1. \A a \in Int : a % m = 0 => a \div m \in Int /\ a = m * (a \div m)
        <4> SUFFICES ASSUME NEW a \in Int, a % m = 0 PROVE a \div m \in Int /\ a = m * (a \div m)
          OBVIOUS
        <4>1. a \div m \in Int /\ a = m * (a \div m) + (a % m)
          BY Division
        <4> QED
          BY <4>1
      <3> QED
        BY <2>1, <2>2, <2>3, <2>4, <3>1
    <2> QED
      BY <2>1, <2>2, <2>5, <2>6
  <1>5. e \in [0..(n - 1) -> Int] /\ t \in [0..(n - 1) -> Int]
    <2>1. e = [j \in 0..(n - 1) |-> e[j]] /\ t = [j \in 0..(n - 1) |-> t[j]]
      BY DEF PosSteps, ThSteps
    <2> HIDE DEF e, t
    <2> QED
      BY <1>4, <2>1
  <1>6. ASSUME NEW g \in [0..(n - 1) -> Int]
        PROVE  \E i \in 0..(n - 1), E \in Nat :
                 E = AbsVal(g[i]) /\ \A j \in 0..(n - 1) : AbsVal(g[j]) <= E
    <2> DEFINE f == [j \in 0..(n - 1) |-> AbsVal(g[j])]
    <2>1. f \in [0..(n - 1) -> Nat] /\ n - 1 \in Nat
      BY DEF AbsVal
    <2> HIDE DEF f
    <2>2. PICK i \in 0..(n - 1) : \A j \in 0..(n - 1) : f[j] <= f[i]
      BY <2>1, LargestValue
    <2>3. f[i] \in Nat /\ \A j \in 0..(n - 1) : f[j] = AbsVal(g[j])
      BY <2>1 DEF f
    <2> QED
      BY <2>2, <2>3
  <1>7. \A x \in Int : AbsVal(m * x) = m * AbsVal(x)
    <2>1. \A x \in Int : (x >= 0 => m * x >= 0) /\ (x < 0 => m * x < 0 /\ m * (-x) = -(m * x))
      <3> SUFFICES ASSUME NEW x \in Int, x < 0 PROVE m * x < 0 /\ m * (-x) = -(m * x)
        OBVIOUS
      <3>1. m * (-x) >= -x /\ m * (-x) = -(m * x)
        <4>1. (m - 1) * (-x) >= 0 /\ (m - 1) * (-x) = m * (-x) - (-x)
          OBVIOUS
        <4> QED
          BY <4>1
      <3> QED
        BY <3>1
    <2> QED
      BY <2>1 DEF AbsVal
  <1> HIDE DEF p, h, e, t
  <1>8. \E i \in 0..(n - 1), E \in Nat : Path(0, n, m, p, e, E) /\ Dist(old, i) = m * E
    <2>1. PICK i \in 0..(n - 1), E \in Nat : E = AbsVal(e[i]) /\ \A j \in 0..(n - 1) : AbsVal(e[j]) <= E
      BY <1>5, <1>6
    <2>2. \A j \in 0..(n - 1) : Apart(0, p[j], p[j + 1], m * e[j])
      <3> SUFFICES ASSUME NEW j \in 0..(n - 1) PROVE Apart(0, p[j], p[j + 1], m * e[j])
        OBVIOUS
      <3>1. p[j + 1] - p[j] = m * e[j] + 0 * 0 /\ 0 \in Int
        BY <1>4
      <3> QED
        BY <3>1 DEF Apart
    <2>3. Path(0, n, m, p, e, E)
      BY <1>3, <1>5, <2>1, <2>2 DEF Path
    <2>4. Dist(old, i) = m * E
      <3>1. Dist(old, i) = AbsVal(way(i))
        BY DEF Dist
      <3> HIDE DEF way
      <3> QED
        BY <1>4, <1>7, <2>1, <3>1
    <2> QED
      BY <2>3, <2>4
  <1>9. \E i \in 0..(n - 1), E \in Nat : Path(2 * Half, n, m, h, t, E) /\ Rot(old, i) = m * E
    <2>1. PICK i \in 0..(n - 1), E \in Nat : E = AbsVal(t[i]) /\ \A j \in 0..(n - 1) : AbsVal(t[j]) <= E
      BY <1>5, <1>6
    <2>2. \A j \in 0..(n - 1) : Apart(2 * Half, h[j], h[j + 1], m * t[j])
      <3> SUFFICES ASSUME NEW j \in 0..(n - 1) PROVE Apart(2 * Half, h[j], h[j + 1], m * t[j])
        OBVIOUS
      <3>1. SameAngle(diff(j), turn(j)) /\ diff(j) \in Int /\ turn(j) = m * t[j] /\ m * t[j] \in Int
        BY <1>4
      <3>2. diff(j) = h[j + 1] - h[j]
        BY <1>4
      <3> HIDE DEF diff, turn
      <3>3. PICK q \in Int : diff(j) - turn(j) = 2 * Half * q
        BY <3>1 DEF SameAngle
      <3>4. 2 * Half * q \in Int
        BY HalfPositive
      <3>5. h[j + 1] - h[j] = m * t[j] + 2 * Half * q
        BY <3>1, <3>2, <3>3, <3>4
      <3> QED
        BY <3>5 DEF Apart
    <2>3. Path(2 * Half, n, m, h, t, E)
      BY <1>3, <1>5, <2>1, <2>2 DEF Path
    <2>4. Rot(old, i) = m * E
      <3>1. Rot(old, i) = AbsVal(turn(i))
        BY DEF Rot
      <3> HIDE DEF turn
      <3> QED
        BY <1>4, <1>7, <2>1, <3>1
    <2> QED
      BY <2>3, <2>4
  <1> QED
    BY <1>8, <1>9 DEF p, h, e, t

LEMMA LastOfIs ==
    ASSUME NEW n \in Nat, NEW path, DOMAIN path = 0..n
    PROVE  LastOf(path) = n
  BY DEF LastOf

(* States at equal distances along the path of old make no larger step,    *)
(* for the time it takes, than the largest step of old.                    *)
LEMMA AnewNoFaster ==
    ASSUME NEW n \in Nat \ {0}, NEW m \in Nat \ {0},
           NEW old \in [0..n -> State], NEW new \in [0..m -> State], Whole(old, n, m),
           Sampled(old, new, n, m)
    PROVE  NoFaster(old, new)
  <1>1. LastOf(old) = n /\ LastOf(new) = m
    BY LastOfIs
  <1> SUFFICES ASSUME NEW k \in 0..(m - 1)
               PROVE  /\ \E j \in 0..(n - 1) : Dist(new, k) * m <= Dist(old, j) * n
                      /\ \E j \in 0..(n - 1) : Rot(new, k) * m <= Rot(old, j) * n
    BY <1>1 DEF NoFaster
  <1>2. PICK i \in 0..(n - 1), r \in 0..m :
              k * n = i * m + r /\ SampleOf(new[k], old, n, m, i, r)
    BY DEF Sampled
  <1>3. PICK j \in 0..(n - 1), s \in 0..m :
              (k + 1) * n = j * m + s /\ SampleOf(new[k + 1], old, n, m, j, s)
    BY DEF Sampled
  <1>4. j * m + s = i * m + r + n
    <2>1. (k + 1) * n = k * n + n
      OBVIOUS
    <2> QED
      BY <1>2, <1>3, <2>1
  <1>5. new[k].pos \in Int /\ new[k + 1].pos \in Int /\ new[k].th \in Int /\ new[k + 1].th \in Int
    <2>1. new[k] \in State /\ new[k + 1] \in State
      OBVIOUS
    <2> QED
      BY <2>1, StateFields
  <1>6. \A a \in Nat, E \in Nat : a <= n * E => a * m <= (m * E) * n
    <2> SUFFICES ASSUME NEW a \in Nat, NEW E \in Nat, a <= n * E PROVE a * m <= (m * E) * n
      OBVIOUS
    <2> DEFINE b == n * E
    <2>1. b \in Nat
      OBVIOUS
    <2>2. (m * E) * n = m * b /\ a * m = m * a
      OBVIOUS
    <2> HIDE DEF b
    <2>3. m * a <= m * b
      BY <2>1, TimesMonotone DEF b
    <2> QED
      BY <2>2, <2>3
  <1>7. \E l \in 0..(n - 1) : Dist(new, k) * m <= Dist(old, l) * n
    <2> DEFINE p == Positions(old, n)
               e == PosSteps(old, n, m)
    <2>1. PICK l \in 0..(n - 1), E \in Nat : Path(0, n, m, p, e, E) /\ Dist(old, l) = m * E
      BY OldIsPath
    <2>2. OnPath(0, new[k].pos, p, e, i, r) /\ OnPath(0, new[k + 1].pos, p, e, j, s)
      BY <1>2, <1>3 DEF SampleOf
    <2> HIDE DEF p, e
    <2> DEFINE x == new[k].pos
               y == new[k + 1].pos
    <2>3. Within(0, new[k].pos, new[k + 1].pos, n * E)
      <3> DEFINE none == 0
      <3>1. /\ none \in Int /\ Path(none, n, m, p, e, E)
            /\ OnPath(none, x, p, e, i, r) /\ OnPath(none, y, p, e, j, s)
        BY <2>1, <2>2
      <3> HIDE DEF x, y, none
      <3>2. Within(none, x, y, n * E)
        BY <1>4, <3>1, SamplesWithin
      <3> QED
        BY <3>2 DEF x, y, none
    <2>4. PICK d \in Int : AbsVal(d) <= n * E /\ Apart(0, new[k].pos, new[k + 1].pos, d)
      BY <2>3 DEF Within
    <2>5. new[k + 1].pos - new[k].pos = d
      <3>1. PICK q \in Int : new[k + 1].pos - new[k].pos = d + 0 * q
        BY <2>4 DEF Apart
      <3>2. 0 * q = 0
        OBVIOUS
      <3> QED
        BY <3>1, <3>2
    <2>6. Dist(new, k) = AbsVal(d) /\ AbsVal(d) \in Nat
      <3>1. AbsVal(d) \in Nat
        BY DEF AbsVal
      <3> QED
        BY <2>5, <3>1 DEF Dist
    <2>7. Dist(new, k) * m <= (m * E) * n
      BY <1>6, <2>4, <2>6
    <2> QED
      BY <2>1, <2>7
  <1>8. \E l \in 0..(n - 1) : Rot(new, k) * m <= Rot(old, l) * n
    <2> DEFINE h == Headings(old, n)
               t == ThSteps(old, n, m)
    <2>1. PICK l \in 0..(n - 1), E \in Nat : Path(2 * Half, n, m, h, t, E) /\ Rot(old, l) = m * E
      BY OldIsPath
    <2>2. OnPath(2 * Half, new[k].th, h, t, i, r) /\ OnPath(2 * Half, new[k + 1].th, h, t, j, s)
      BY <1>2, <1>3 DEF SampleOf
    <2> HIDE DEF h, t
    <2> DEFINE x == new[k].th
               y == new[k + 1].th
               full == 2 * Half
    <2>3. Within(2 * Half, new[k].th, new[k + 1].th, n * E)
      <3>1. /\ full \in Int /\ Path(full, n, m, h, t, E)
            /\ OnPath(full, x, h, t, i, r) /\ OnPath(full, y, h, t, j, s)
        BY <2>1, <2>2, HalfPositive
      <3> HIDE DEF x, y, full
      <3>2. Within(full, x, y, n * E)
        BY <1>4, <3>1, SamplesWithin
      <3> QED
        BY <3>2 DEF x, y, full
    <2>4. PICK d \in Int : AbsVal(d) <= n * E /\ Apart(2 * Half, new[k].th, new[k + 1].th, d)
      BY <2>3 DEF Within
    <2> DEFINE b == new[k + 1].th - new[k].th
    <2>5. b \in Int
      BY <1>5
    <2>6. SameAngle(b, d)
      <3>1. PICK q \in Int : b = d + 2 * Half * q
        BY <2>4 DEF Apart
      <3>2. 2 * Half * q \in Int
        BY HalfPositive
      <3> HIDE DEF b
      <3>3. b - d = 2 * Half * q
        BY <3>1, <3>2
      <3> QED
        BY <3>3 DEF SameAngle
    <2>7. Rot(new, k) = AbsVal(NormalizeTheta(b))
      BY DEF Rot
    <2> HIDE DEF b
    <2>8. Rot(new, k) \in Nat /\ Rot(new, k) <= AbsVal(d) /\ AbsVal(d) \in Int
      BY <2>5, <2>6, <2>7, ShortestTurn DEF AbsVal
    <2>9. Rot(new, k) <= n * E
      <3>1. n * E \in Nat
        OBVIOUS
      <3> QED
        BY <2>4, <2>8, <3>1
    <2>10. Rot(new, k) * m <= (m * E) * n
      BY <1>6, <2>8, <2>9
    <2> QED
      BY <2>1, <2>10
  <1> QED
    BY <1>7, <1>8

(* What is interpolated in an interval of old, and the states at its ends, *)
(* are samples of it; numerator and denominator may have a common factor.  *)
LEMMA InterpolatedOnPath ==
    ASSUME NEW n \in Nat \ {0}, NEW m \in Nat \ {0}, NEW old \in [0..n -> State],
           Whole(old, n, m), NEW j \in 0..(n - 1), NEW c \in Nat \ {0}
    PROVE  /\ SampleOf(old[j], old, n, m, j, 0) /\ SampleOf(old[j + 1], old, n, m, j, m)
           /\ \A r \in Nat : SampleOf(Between(old[j], old[j + 1], c * r, c * m), old, n, m, j, r)
  <1> DEFINE s == old[j]
             t == old[j + 1]
             way == t.pos - s.pos
             diff == t.th - s.th
             turn == NormalizeTheta(diff)
             e == way \div m
             d == turn \div m
  <1>1. s.pos \in Int /\ s.th \in Int /\ t.pos \in Int /\ t.th \in Int
    BY StateFields
  <1>2. way \in Int /\ diff \in Int /\ turn \in Int /\ SameAngle(diff, turn)
    <2>1. way \in Int /\ diff \in Int
      BY <1>1
    <2> HIDE DEF diff
    <2> QED
      BY <2>1, NormalizeCanonical
  <1>3. way % m = 0 /\ turn % m = 0
    BY DEF Whole
  <1>4. ASSUME NEW y, NEW r \in Nat, y.pos \in Int, y.th \in Int,
               Apart(0, s.pos, y.pos, r * e), Apart(2 * Half, s.th, y.th, r * d)
        PROVE  SampleOf(y, old, n, m, j, r)
    <2>1. /\ Positions(old, n)[j] = s.pos /\ Headings(old, n)[j] = s.th
          /\ PosSteps(old, n, m)[j] = e /\ ThSteps(old, n, m)[j] = d
      BY DEF Positions, Headings, PosSteps, ThSteps
    <2> HIDE DEF e, d, s
    <2> QED
      BY <1>4, <2>1 DEF SampleOf, OnPath
  <1> HIDE DEF way, diff, turn
  <1>5. e \in Int /\ way = m * e /\ d \in Int /\ turn = m * d
    BY <1>2, <1>3, WholeDivision
  <1>6. \A r \in Nat : ((c * r) * way) \div (c * m) = r * e /\ ((c * r) * turn) \div (c * m) = r * d
    BY <1>2, <1>3, WholeDivision
  <1>7. 2 * Half \in Int
    BY HalfPositive
  <1> HIDE DEF e, d
  <1>8. SampleOf(s, old, n, m, j, 0)
    <2>1. s.pos + 0 * e = s.pos /\ s.th + 0 * d = s.th /\ 0 * e = 0 /\ 0 * d = 0
      BY <1>1, <1>5
    <2>2. Apart(0, s.pos, s.pos + 0, 0) /\ Apart(2 * Half, s.th, s.th + 0, 0)
      BY <1>1, <1>7, ApartAdds
    <2>3. s.pos + 0 = s.pos /\ s.th + 0 = s.th
      BY <1>1
    <2> HIDE DEF s
    <2> QED
      BY <1>1, <1>4, <2>1, <2>2, <2>3
  <1>9. SampleOf(t, old, n, m, j, m)
    <2>1. Apart(0, s.pos, t.pos, m * e)
      <3>1. t.pos - s.pos = m * e + 0 * 0 /\ 0 \in Int
        BY <1>1, <1>5 DEF way
      <3> QED
        BY <3>1 DEF Apart
    <2>2. Apart(2 * Half, s.th, t.th, m * d)
      <3>1. PICK q \in Int : diff - turn = 2 * Half * q
        BY <1>2 DEF SameAngle
      <3>2. 2 * Half * q \in Int
        BY HalfPositive
      <3>3. diff = m * d + 2 * Half * q
        BY <1>2, <1>5, <3>1, <3>2
      <3> QED
        BY <3>3 DEF Apart, diff
    <2> HIDE DEF s, t
    <2> QED
      BY <1>1, <1>4, <2>1, <2>2
  <1>10. ASSUME NEW r \in Nat
         PROVE  SampleOf(Between(s, t, c * r, c * m), old, n, m, j, r)
    <2> DEFINE y == Between(s, t, c * r, c * m)
    <2>1. y.pos = s.pos + r * e /\ y.th = NormalizeTheta(s.th + r * d)
      <3>1. /\ y.pos = s.pos + ((c * r) * way) \div (c * m)
            /\ y.th = NormalizeTheta(s.th + ((c * r) * turn) \div (c * m))
        BY DEF Between, InterpolateAngle, way, turn, diff
      <3> HIDE DEF y
      <3> QED
        BY <1>6, <3>1
    <2>2. r * e \in Int /\ r * d \in Int
      BY <1>5
    <2> DEFINE a == s.th + r * d
    <2>3. a \in Int
      BY <1>1, <2>2
    <2>4. NormalizeTheta(a) \in Int /\ SameAngle(NormalizeTheta(a), a)
      <3> HIDE DEF a
      <3> QED
        BY <2>3, NormalizeCanonical, SameAngles
    <2> HIDE DEF y
    <2>5. Apart(0, s.pos, y.pos, r * e)
      <3> DEFINE w == r * e
      <3>1. w \in Int /\ y.pos = s.pos + w
        BY <2>1, <2>2
      <3> HIDE DEF w
      <3>2. y.pos - s.pos = w + 0 * 0 /\ 0 \in Int
        BY <1>1, <3>1
      <3> QED
        BY <3>2 DEF Apart, w
    <2>6. Apart(2 * Half, s.th, y.th, r * d)
      <3>1. PICK q \in Int : NormalizeTheta(a) - a = 2 * Half * q
        BY <2>4 DEF SameAngle
      <3>2. 2 * Half * q \in Int
        BY HalfPositive
      <3>3. NormalizeTheta(a) - s.th = r * d + 2 * Half * q
        <4> DEFINE b == NormalizeTheta(a)
        <4>1. b \in Int
          BY <2>4
        <4> HIDE DEF b
        <4>2. b - a = 2 * Half * q
          BY <3>1 DEF b
        <4>3. b - s.th = r * d + 2 * Half * q
          BY <1>1, <2>2, <3>2, <4>1, <4>2
        <4> QED
          BY <4>3 DEF b
      <3> QED
        BY <2>1, <3>3 DEF Apart
    <2>7. y.pos \in Int /\ y.th \in Int
      BY <1>1, <2>1, <2>2, <2>4
    <2> HIDE DEF s
    <2>8. SampleOf(y, old, n, m, j, r)
      BY <1>4, <2>5, <2>6, <2>7
    <2> QED
      BY <2>8 DEF y
  <1> QED
    BY <1>8, <1>9, <1>10

(* The ends are samples, so only the states between them are left.         *)
LEMMA SampledByInner ==
    ASSUME NEW n \in Nat \ {0}, NEW m \in Nat \ {0}, NEW old \in [0..n -> State],
           Whole(old, n, m), NEW new, new[0] = old[0], new[m] = old[n],
           \A k \in 1..(m - 1) : \E j \in 0..(n - 1), r \in 0..m :
              k * n = j * m + r /\ SampleOf(new[k], old, n, m, j, r)
    PROVE  Sampled(old, new, n, m)
  <1> SUFFICES ASSUME NEW k \in 0..m
               PROVE  \E j \in 0..(n - 1), r \in 0..m :
                         k * n = j * m + r /\ SampleOf(new[k], old, n, m, j, r)
    BY DEF Sampled
  <1>1. CASE k = 0
    <2>1. 0 \in 0..(n - 1) /\ 0 \in 0..m /\ 0 * n = 0 * m + 0
      OBVIOUS
    <2>2. SampleOf(new[0], old, n, m, 0, 0)
      <3>1. 1 \in Nat \ {0}
        OBVIOUS
      <3> QED
        BY <2>1, <3>1, InterpolatedOnPath, Zenon
    <2> QED
      BY <1>1, <2>1, <2>2, Zenon
  <1>2. CASE k = m
    <2>1. n - 1 \in 0..(n - 1) /\ m \in 0..m /\ m * n = (n - 1) * m + m /\ (n - 1) + 1 = n
      OBVIOUS
    <2>2. SampleOf(new[m], old, n, m, n - 1, m)
      <3>1. 1 \in Nat \ {0}
        OBVIOUS
      <3>2. SampleOf(old[(n - 1) + 1], old, n, m, n - 1, m)
        BY <2>1, <3>1, InterpolatedOnPath, Zenon
      <3> QED
        BY <2>1, <3>2, Zenon
    <2> QED
      BY <1>2, <2>1, <2>2, Zenon
  <1>3. CASE k # 0 /\ k # m
    <2>1. k \in 1..(m - 1)
      BY <1>3
    <2> QED
      BY <2>1, Zenon
  <1> QED
    BY <1>1, <1>2, <1>3

(* Where the sample k of m lies: the first knot that is not before it is   *)
(* the end of its interval.                                                *)
LEMMA PlaceOfSample ==
    ASSUME NEW n \in Nat \ {0}, NEW m \in Nat \ {0}, NEW c \in Nat \ {0},
           NEW k \in 1..(m - 1), NEW j \in Int, NEW rem \in 0..(m * c - 1),
           c * (k * n) = (m * c) * (j - 1) + rem + 1
    PROVE  LET r == k * n - (j - 1) * m
           IN  /\ j - 1 \in 0..(n - 1) /\ r \in 0..m /\ k * n = (j - 1) * m + r
               /\ c * r = rem + 1 /\ c * r = c * (k * n) - (j - 1) * (m * c)
  <1> DEFINE i == j - 1
             a == k * n
             b == i * m
             r == a - b
  <1>1. i \in Int /\ a \in Int /\ b \in Int /\ r \in Int /\ a = b + r
    OBVIOUS
  <1>2. c * r = c * a - c * b /\ c * b = (m * c) * i /\ c * b = i * (m * c)
    <2> HIDE DEF a
    <2>1. c * (a - b) = c * a - c * b
      BY <1>1
    <2>2. c * (i * m) = (m * c) * i /\ c * (i * m) = i * (m * c)
      BY <1>1
    <2> QED
      BY <2>1, <2>2
  <1>3. m * c \in Nat /\ c * a \in Int /\ c * b \in Int /\ m * c = c * m
    BY <1>1
  <1>4. c * r = rem + 1
    <2>1. c * a = c * b + rem + 1
      BY <1>2
    <2> HIDE DEF a, b, r
    <2> QED
      BY <1>2, <1>3, <2>1
  <1> HIDE DEF r
  <1>5. r >= 1
    <2> SUFFICES ASSUME r <= 0 PROVE FALSE
      BY <1>1
    <2>1. c * (-r) >= 0 /\ c * (-r) = -(c * r)
      BY <1>1
    <2> QED
      BY <1>4, <2>1
  <1>6. r <= m
    <2> SUFFICES ASSUME r >= m + 1 PROVE FALSE
      BY <1>1
    <2>1. c * (r - (m + 1)) >= 0 /\ c * (r - (m + 1)) = c * r - c * m - c
      BY <1>1
    <2> QED
      BY <1>3, <1>4, <2>1
  <1>7. a >= 1 /\ a <= m * n - n /\ m * n \in Nat
    <2>1. (k - 1) * n >= 0 /\ (k - 1) * n = k * n - n
      OBVIOUS
    <2>2. (m - 1 - k) * n >= 0 /\ (m - 1 - k) * n = m * n - n - k * n
      OBVIOUS
    <2>3. m * n \in Nat
      OBVIOUS
    <2> HIDE DEF i
    <2> QED
      BY <1>1, <2>1, <2>2, <2>3
  <1>8. i >= 0
    <2> SUFFICES ASSUME i <= -1 PROVE FALSE
      BY <1>1
    <2>1. (-1 - i) * m >= 0 /\ (-1 - i) * m = -m - i * m
      BY <1>1
    <2> HIDE DEF i, a
    <2> QED
      BY <1>1, <1>6, <1>7, <2>1
  <1>9. i <= n - 1
    <2> SUFFICES ASSUME i >= n PROVE FALSE
      BY <1>1
    <2>1. (i - n) * m >= 0 /\ (i - n) * m = i * m - n * m /\ n * m = m * n
      BY <1>1
    <2> HIDE DEF i, a
    <2> QED
      BY <1>1, <1>5, <1>7, <2>1
  <1>10. i \in 0..(n - 1) /\ r \in 0..m /\ a = b + r /\ c * r = rem + 1 /\ c * r = c * a - i * (m * c)
    <2> HIDE DEF i, a, b
    <2> QED
      BY <1>1, <1>2, <1>4, <1>5, <1>6, <1>8, <1>9
  <1> QED
    BY <1>10 DEF r

(* The history variable holds a path that can be divided into as many      *)
(* parts as the grid has intervals.                                        *)
WholeUnits == source # NoPath => Whole(source, LastOf(source), N - 1)

(* Any path sampled in equal parts into the new grid is kept by it.        *)
LEMMA SampledKept ==
    ASSUME NEW n \in Nat \ {0}, NEW l \in 2..NMax, source' \in [0..n -> State], OfSize(l)',
           Whole(source', n, l - 1) => Sampled(source', xs', n, l - 1),
           xs'[0] = source'[0], xs'[l - 1] = source'[n]
    PROVE  (WholeUnits => SampledNoFaster)'
  <1> DEFINE m == l - 1
  <1>1. m \in Nat \ {0} /\ l \in Nat /\ xs' \in [0..m -> State]
    BY TrajectoryAssumption DEF OfSize
  <1>2. xs' # NoPath /\ source' # NoPath
    <2>1. 0 \in DOMAIN xs' /\ 0 \in DOMAIN source'
      BY <1>1
    <2>2. DOMAIN NoPath = {}
      BY DEF NoPath
    <2> QED
      BY <2>1, <2>2
  <1>3. N' = l
    <2>1. DOMAIN xs' = 0..(l - 1)
      BY <1>1
    <2>2. \A i \in 2..NMax : 0..(l - 1) = 0..(i - 1) => i = l
      BY <1>1
    <2>3. N' = CHOOSE i \in 2..NMax : DOMAIN xs' = 0..(i - 1)
      BY <1>2 DEF N
    <2> QED
      BY <2>1, <2>2, <2>3
  <1>4. LastOf(source') = n
    BY LastOfIs
  <1> SUFFICES ASSUME Whole(source', n, m)
               PROVE  /\ xs'[0] = source'[0] /\ xs'[m] = source'[n]
                      /\ NoFaster(source', xs')
    BY <1>2, <1>3, <1>4 DEF WholeUnits, SampledNoFaster
  <1>5. Sampled(source', xs', n, m)
    OBVIOUS
  <1> HIDE DEF m
  <1>6. NoFaster(source', xs')
    BY <1>1, <1>5, AnewNoFaster
  <1> QED
    BY <1>6 DEF m

LEMMA ResampledNoFaster ==
    ASSUME TypeOK, NEW l \in 2..NMax, Resample(l), OfSize(l)'
    PROVE  (WholeUnits => SampledNoFaster)'
  <1> DEFINE n == N - 1
             m == l - 1
  <1>1. /\ xs # NoPath /\ source' = xs
        /\ xs' = [k \in 0..(l - 1) |->
                    IF k = 0 THEN xs[0]
                    ELSE IF k = l - 1 THEN xs[N - 1]
                    ELSE LET j == IdxOld(k, l)
                         IN  Between(xs[j - 1], xs[j], k * (N - 1) - (j - 1) * (l - 1), l - 1)]
    BY DEF Resample
  <1>2. N \in Int /\ N >= 2 /\ OfSize(N) /\ l \in Nat /\ l >= 2
    BY <1>1, SizeOfControls, TrajectoryAssumption
  <1>3. n \in Nat \ {0} /\ m \in Nat \ {0} /\ xs \in [0..n -> State]
    BY <1>2 DEF OfSize
  <1>4. xs'[0] = xs[0] /\ xs'[m] = xs[n]
    BY <1>1, <1>2
  <1>5. ASSUME Whole(xs, n, m), NEW k \in 1..(m - 1)
        PROVE  \E j \in 0..(n - 1), r \in 0..m : k * n = j * m + r /\ SampleOf(xs'[k], xs, n, m, j, r)
    <2> DEFINE j   == IdxOld(k, l)
               rem == (k * n + l - 2) % m
               r   == k * n - (j - 1) * m
    <2>1. j \in Int /\ rem \in 0..(m - 1) /\ k * n + l - 2 = m * j + rem
      <3>1. k * n + l - 2 \in Int
        BY <1>2, <1>3
      <3>2. j = (k * n + l - 2) \div m
        BY DEF IdxOld
      <3> HIDE DEF j, m, n
      <3> QED
        BY <1>3, <3>1, <3>2, Division
    <2>2. xs'[k] = Between(xs[j - 1], xs[j], r, m)
      <3>1. k \in 0..(l - 1) /\ k # 0 /\ k # l - 1
        BY <1>2
      <3> QED
        BY <1>1, <3>1
    <2>3. l - 2 = m - 1
      BY <1>2
    <2> HIDE DEF j, rem, m, n
    <2>4. 1 * (k * n) = (m * 1) * (j - 1) + rem + 1
      <3>1. (m * 1) * (j - 1) = m * j - m /\ m * j \in Int /\ k * n \in Int /\ 1 * (k * n) = k * n
        BY <1>3, <2>1
      <3> QED
        BY <1>2, <1>3, <2>1, <2>3, <3>1
    <2>5. j - 1 \in 0..(n - 1) /\ r \in 0..m /\ k * n = (j - 1) * m + r
      <3>1. 1 \in Nat \ {0} /\ rem \in 0..(m * 1 - 1)
        BY <1>3, <2>1
      <3> QED
        BY <1>3, <2>1, <2>4, <3>1, PlaceOfSample
    <2>6. SampleOf(Between(xs[j - 1], xs[(j - 1) + 1], 1 * r, 1 * m), xs, n, m, j - 1, r)
      <3> DEFINE i == j - 1
      <3>1. i \in 0..(n - 1) /\ r \in Nat /\ 1 \in Nat \ {0}
        BY <2>5
      <3> HIDE DEF i, r
      <3>2. SampleOf(Between(xs[i], xs[i + 1], 1 * r, 1 * m), xs, n, m, i, r)
        BY <1>3, <1>5, <3>1, InterpolatedOnPath
      <3> QED
        BY <3>2 DEF i
    <2>7. (j - 1) + 1 = j /\ 1 * r = r /\ 1 * m = m
      BY <1>3, <2>1, <2>5
    <2>8. SampleOf(xs'[k], xs, n, m, j - 1, r)
      BY <2>2, <2>6, <2>7
    <2> HIDE DEF r
    <2> QED
      BY <2>5, <2>8
  <1>6. Whole(xs, n, m) => Sampled(xs, xs', n, m)
    <2> HIDE DEF n, m
    <2> QED
      BY <1>3, <1>4, <1>5, SampledByInner
  <1> HIDE DEF n
  <1> QED
    BY <1>1, <1>3, <1>4, <1>6, SampledKept

LEMMA FilledNoFaster ==
    ASSUME TypeOK, NEW l \in 2..NMax, NEW x0 \in Poses, NEW p \in Plans, NEW e \in BOOLEAN,
           NEW h \in BOOLEAN, Fill(l, x0, p, e, DtRef, h), OfSize(l)'
    PROVE  (WholeUnits => SampledNoFaster)'
  <1> DEFINE ts == InitialSeries(x0, p, e)
             n  == Len(p)
             m  == l - 1
             c  == DtRef
  <1>1. /\ source' = ts
        /\ xs' = [k \in 0..(l - 1) |->
                    IF k = 0 THEN x0
                    ELSE IF k = l - 1 THEN ts[n]
                    ELSE ValuesAt(ts, m * c, k * c * n, h)]
    BY DEF Fill
  <1>2. l \in Nat /\ l >= 2 /\ n \in Nat \ {0} /\ m \in Nat \ {0} /\ c \in Nat \ {0}
    BY TrajectoryAssumption, PosesAreStates
  <1>3. ts \in [0..n -> State] /\ LastOf(ts) = n /\ ts[0] = x0
    <2>1. ts[0] = x0
      BY <1>2 DEF InitialSeries
    <2> QED
      BY <2>1, SeriesTyped
  <1> HIDE DEF ts
  <1>4. xs'[0] = ts[0] /\ xs'[m] = ts[n]
    BY <1>1, <1>2, <1>3
  <1>5. ASSUME Whole(ts, n, m), NEW k \in 1..(m - 1)
        PROVE  \E j \in 0..(n - 1), r \in 0..m : k * n = j * m + r /\ SampleOf(xs'[k], ts, n, m, j, r)
    <2> DEFINE step  == m * c
               time  == k * c * n
               above == (time + step - 1) \div step
               rem   == (time + step - 1) % step
               j     == above
               r     == k * n - (j - 1) * m
    <2>1. xs'[k] = ValuesAt(ts, step, time, h)
      <3>1. k \in 0..(l - 1) /\ k # 0 /\ k # l - 1
        BY <1>2
      <3> QED
        BY <1>1, <3>1
    <2>2. step \in Nat \ {0} /\ time \in Int /\ time = c * (k * n)
      <3>1. m * c \in Nat \ {0}
        BY <1>2, TimesPositive
      <3>2. \A x, y, z \in Int : x * y * z \in Int /\ x * y * z = y * (x * z)
        OBVIOUS
      <3>3. k \in Int /\ c \in Int /\ n \in Int
        BY <1>2
      <3> HIDE DEF c, n
      <3> QED
        BY <3>1, <3>2, <3>3
    <2> HIDE DEF time
    <2>3. j \in Int /\ rem \in 0..(step - 1) /\ time + step - 1 = step * j + rem
      <3> DEFINE a == time + step - 1
      <3>1. a \in Int
        BY <2>2
      <3> HIDE DEF step, a
      <3>2. a \div step \in Int /\ a % step \in 0..(step - 1) /\ a = step * (a \div step) + (a % step)
        BY <2>2, <3>1, Division
      <3> QED
        BY <3>2 DEF a
    <2> HIDE DEF j, rem
    <2>4. c * (k * n) = (m * c) * (j - 1) + rem + 1
      <3>1. step * (j - 1) = step * j - step /\ step * j \in Int
        BY <2>2, <2>3
      <3> HIDE DEF step
      <3>2. time = step * (j - 1) + rem + 1
        BY <2>2, <2>3, <3>1
      <3> QED
        BY <2>2, <3>2 DEF step
    <2>5. /\ j - 1 \in 0..(n - 1) /\ r \in 0..m /\ k * n = (j - 1) * m + r
          /\ c * r = c * (k * n) - (j - 1) * (m * c)
      <3>1. rem \in 0..(m * c - 1)
        BY <2>3
      <3> HIDE DEF rem, m, c, n
      <3> QED
        BY <1>2, <2>3, <2>4, <3>1, PlaceOfSample
    <2>6. c * r = time - (j - 1) * step
      BY <2>2, <2>5
    <2> DEFINE i == j - 1
    <2>7. i \in 0..(n - 1) /\ i + 1 = j /\ ~ (j > n)
      BY <1>2, <2>3, <2>5
    <2>8. xs'[k] = IF j * step = time THEN ts[i + 1] ELSE Between(ts[i], ts[i + 1], c * r, step)
      <3>1. ValuesAt(ts, step, time, h) =
              IF j * step = time \/ (j > n /\ h) THEN ts[j]
              ELSE Between(ts[j - 1], ts[j], time - (j - 1) * step, step)
        BY <1>3, <2>7 DEF ValuesAt, j
      <3> HIDE DEF step, r
      <3> QED
        BY <2>1, <2>6, <2>7, <3>1
    <2>9. SampleOf(xs'[k], ts, n, m, i, r)
      <3>1. r \in Nat /\ step = c * m
        BY <1>2, <2>5
      <3>2. /\ SampleOf(ts[i + 1], ts, n, m, i, m)
            /\ SampleOf(Between(ts[i], ts[i + 1], c * r, c * m), ts, n, m, i, r)
        <4> HIDE DEF i, r, c, m, n
        <4> QED
          BY <1>2, <1>3, <1>5, <2>7, <3>1, InterpolatedOnPath
      <3>3. CASE j * step = time
        <4>1. r = m
          <5>1. j * step = (j - 1) * step + step
            BY <2>2, <2>3
          <5>2. (j - 1) * step \in Int
            BY <2>2, <2>3
          <5>3. c * r = c * m
            <6> HIDE DEF step, r
            <6>1. c * r = step
              BY <2>2, <2>6, <3>3, <5>1, <5>2
            <6> QED
              BY <3>1, <6>1
          <5> HIDE DEF r
          <5>4. c * (r - m) = 0
            <6>1. c * (r - m) = c * r - c * m /\ c * m \in Int
              BY <1>2, <3>1
            <6> QED
              BY <5>3, <6>1
          <5>5. r \in Int /\ (r - m) \in Int
            BY <1>2, <3>1
          <5>6. ASSUME r - m >= 1 PROVE FALSE
            <6>1. c * ((r - m) - 1) >= 0 /\ c * ((r - m) - 1) = c * (r - m) - c
              BY <1>2, <5>5, <5>6
            <6> QED
              BY <1>2, <5>4, <6>1
          <5>7. ASSUME r - m <= -1 PROVE FALSE
            <6>1. c * (-1 - (r - m)) >= 0 /\ c * (-1 - (r - m)) = -c - c * (r - m)
              BY <1>2, <5>5, <5>7
            <6> QED
              BY <1>2, <5>4, <6>1
          <5> QED
            BY <1>2, <5>5, <5>6, <5>7
        <4> HIDE DEF r, step, i
        <4> QED
          BY <2>8, <3>2, <3>3, <4>1
      <3>4. CASE j * step # time
        <4> HIDE DEF r, i
        <4> QED
          BY <2>8, <3>1, <3>2, <3>4
      <3> QED
        BY <3>3, <3>4
    <2>10. k * n = i * m + r
      BY <2>5
    <2> HIDE DEF i, r
    <2> QED
      BY <2>5, <2>7, <2>9, <2>10
  <1>6. Whole(ts, n, m) => Sampled(ts, xs', n, m)
    <2> HIDE DEF n, m, c
    <2> QED
      BY <1>2, <1>3, <1>4, <1>5, SampledByInner
  <1> HIDE DEF n
  <1> QED
    BY <1>1, <1>2, <1>3, <1>4, <1>6, SampledKept

(* Wherever the units are fine enough for the interpolation to be exact,   *)
(* sampling a plan or the last solution anew keeps both ends and asks for  *)
(* no larger step and no larger turn in the time than the path did.        *)
THEOREM AnewNeverFaster == Spec => [](WholeUnits => SampledNoFaster)
  <1>1. Init => (WholeUnits => SampledNoFaster)
    BY DEF Init, SampledNoFaster
  <1>2. ASSUME IInv, IInv', [Next]_vars, WholeUnits => SampledNoFaster
        PROVE  (WholeUnits => SampledNoFaster)'
    <2>1. TypeOK
      BY <1>2 DEF IInv
    <2>2. source' = NoPath => SampledNoFaster'
      BY DEF SampledNoFaster
    <2>3. ASSUME NEW n \in 2..NMax, NEW x0 \in Poses, NEW p \in Plans, NEW e \in BOOLEAN,
                 NEW dt \in Dts, NEW h \in BOOLEAN, Fill(n, x0, p, e, dt, h)
          PROVE  (WholeUnits => SampledNoFaster)'
      <3>1. OfSize(n)'
        BY <2>1, <2>3, FillKeeps
      <3>2. CASE dt = DtRef
        BY <2>1, <2>3, <3>1, <3>2, FilledNoFaster
      <3>3. CASE dt # DtRef
        <4>1. source' = NoPath
          BY <2>3, <3>3 DEF Fill
        <4> QED
          BY <2>2, <4>1
      <3> QED
        BY <3>2, <3>3
    <2>4. ASSUME NEW n \in 2..NMax, Resample(n)
          PROVE  (WholeUnits => SampledNoFaster)'
      <3>1. OfSize(n)'
        BY <1>2, <2>1, <2>4, ResampleKeeps DEF IInv
      <3> QED
        BY <2>1, <2>4, <3>1, ResampledNoFaster
    <2>5. CASE \/ \E w \in BOOLEAN, x0 \in Poses, g \in Poses : NewRun(w, x0, g)
               \/ Optimise \/ Clear
      <3>1. source' = NoPath
        BY <2>5 DEF NewRun, Optimise, Clear
      <3> QED
        BY <2>2, <3>1
    <2>6. CASE UNCHANGED vars
      <3>1. xs' = xs /\ source' = source
        BY <2>6 DEF vars
      <3>2. N' = N
        BY <3>1 DEF N
      <3>3. WholeUnits' = WholeUnits /\ SampledNoFaster' = SampledNoFaster
        BY <3>1, <3>2 DEF WholeUnits, SampledNoFaster
      <3> QED
        BY <1>2, <3>3
    <2> QED
      BY <1>2, <2>3, <2>4, <2>5, <2>6 DEF Next
  <1> QED
    BY <1>1, <1>2, Invariance, PTL DEF Spec
=============================================================================
