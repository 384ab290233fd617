---------------------------- MODULE ReplayProofs ----------------------------
(***************************************************************************)
(* Proofs about Fuzzy and Replay, for all parameter vectors, output sets,  *)
(* metrics and requests.                                                   *)
(***************************************************************************)
EXTENDS Replay, ListProofs

(***************************************************************************)
(* Part 1: degrees and scores are numbers in their range                   *)
(***************************************************************************)
\* The quotient of a part by the whole.
LEMMA QuotientBelow ==
  \A c \in {100, 1000}, x \in Nat, y \in Nat \ {0} :
     /\ x \div y \in Nat
     /\ x <= c * y => x \div y <= c
     /\ x < c * y => x \div y < c
  OBVIOUS

\* A number on one side of the quotient.
LEMMA QuotientAround ==
  \A m, x \in Nat, y \in Nat \ {0} : /\ x \div y >= m => x - m * y >= 0
                                     /\ x \div y < m => x - m * y <= 0
  <1> SUFFICES ASSUME NEW m \in Nat, NEW x \in Nat, NEW y \in Nat \ {0}
               PROVE  /\ x \div y >= m => x - m * y >= 0
                      /\ x \div y < m => x - m * y <= 0
    OBVIOUS
  <1> DEFINE q == x \div y
  <1>1. q \in Nat /\ q * y <= x /\ x < (q + 1) * y
    OBVIOUS
  <1> HIDE DEF q
  <1>2. \A a, b \in Nat : a <= b => a * y <= b * y
    OBVIOUS
  <1>3. q >= m => m * y <= x
    BY <1>1, <1>2
  <1>4. q < m => x <= m * y
    <2>1. q < m => q + 1 <= m
      BY <1>1
    <2>2. QED
      BY <1>1, <1>2, <2>1
  <1>5. QED
    BY <1>3, <1>4 DEF q

\* A degree between the two ends is neither 0 nor the whole by the code's own
\* guards; rounded down it may be 0.
LEMMA DegreeTyped ==
  \A part, whole \in Int : 0 < part /\ part < whole => Degree(part, whole) \in 0..(One - 1)
  <1> SUFFICES ASSUME NEW part \in Int, NEW whole \in Int, 0 < part, part < whole
               PROVE  Degree(part, whole) \in 0..(One - 1)
    OBVIOUS
  <1>1. One * part \in Nat /\ whole \in Nat \ {0} /\ One * part < 1000 * whole
    BY DEF One
  <1>2. (One * part) \div whole \in Nat /\ (One * part) \div whole < 1000
    BY <1>1, QuotientBelow
  <1>3. QED
    BY <1>2 DEF Degree, One

\* A set is met in part, in full, or not at all.
LEMMA FuzzifyTyped ==
  ASSUME NEW v \in Int, NEW mf, mf[1] \in Int, mf[2] \in Int, mf[3] \in Int
  PROVE  /\ FuzzifyLeft(v, mf) \in 0..One
         /\ FuzzifyTriangle(v, mf) \in 0..One
         /\ FuzzifyRight(v, mf) \in 0..One
         /\ Fuzzify(v, mf) \in 0..One
  <1> DEFINE a == mf[1]
             b == mf[2]
             c == mf[3]
  <1>1. a \in Int /\ b \in Int /\ c \in Int
    OBVIOUS
  <1>2. /\ FuzzifyLeft(v, mf) = IF v <= b THEN One ELSE IF v >= c THEN 0
                                ELSE Degree(c - v, c - b)
        /\ FuzzifyTriangle(v, mf) = IF v = b THEN One ELSE IF v <= a \/ v >= c THEN 0
                                    ELSE IF v < b THEN Degree(v - a, b - a)
                                    ELSE Degree(c - v, c - b)
        /\ FuzzifyRight(v, mf) = IF v >= b THEN One ELSE IF v <= a THEN 0
                                 ELSE Degree(v - a, b - a)
    BY DEF FuzzifyLeft, FuzzifyTriangle, FuzzifyRight
  <1> HIDE DEF a, b, c
  <1>3. /\ b < v /\ v < c => Degree(c - v, c - b) \in 0..One
        /\ a < v /\ v < b => Degree(v - a, b - a) \in 0..One
    <2>1. 0..(One - 1) \subseteq 0..One
      BY DEF One
    <2>2. ASSUME b < v, v < c
          PROVE  Degree(c - v, c - b) \in 0..One
      <3>1. c - v \in Int /\ c - b \in Int /\ 0 < c - v /\ c - v < c - b
        BY <1>1, <2>2
      <3>2. QED
        BY <3>1, <2>1, DegreeTyped
    <2>3. ASSUME a < v, v < b
          PROVE  Degree(v - a, b - a) \in 0..One
      <3>1. v - a \in Int /\ b - a \in Int /\ 0 < v - a /\ v - a < b - a
        BY <1>1, <2>3
      <3>2. QED
        BY <3>1, <2>1, DegreeTyped
    <2>4. QED
      BY <2>2, <2>3
  <1>4. 0 \in 0..One /\ One \in 0..One
    BY DEF One
  <1>5. FuzzifyLeft(v, mf) \in 0..One
    BY <1>1, <1>2, <1>3, <1>4
  <1>6. FuzzifyTriangle(v, mf) \in 0..One
    BY <1>1, <1>2, <1>3, <1>4
  <1>7. FuzzifyRight(v, mf) \in 0..One
    BY <1>1, <1>2, <1>3, <1>4
  <1>8. QED
    BY <1>5, <1>6, <1>7 DEF Fuzzify

\* The parameters of a set.
LEMMA TripleIs ==
  ASSUME NEW p \in Profiles, NEW input \in 0..2, NEW level \in 0..2
  PROVE  \A k \in 1..3 : /\ Triple(p, input, level)[k] = p[9*input + 3*level + k]
                         /\ Triple(p, input, level)[k] \in Int
  <1>1. p \in Seq(Int) /\ Len(p) = 27
    BY FuzzyAssumption
  <1> DEFINE m == 9*input + 3*level
  <1>2. m \in 0..24
    OBVIOUS
  <1>3. Triple(p, input, level) = SubSeq(p, m + 1, m + 3)
    BY DEF Triple
  <1> HIDE DEF m
  <1>4. \A k \in 1..3 : SubSeq(p, m + 1, m + 3)[k] = p[m + k] /\ p[m + k] \in Int
    <2>1. SubSeq(p, m + 1, m + 3) = [i \in 1..3 |-> p[i + (m + 1) - 1]]
      BY <1>2 DEF SubSeq
    <2>2. \A k \in 1..3 : k + (m + 1) - 1 = m + k /\ m + k \in 1..27
      BY <1>2
    <2>3. \A i \in 1..27 : p[i] \in Int
      <3>1. \A s \in Seq(Int) : \A i \in 1..Len(s) : s[i] \in Int
        OBVIOUS
      <3>2. QED
        BY <1>1, <3>1
    <2>4. QED
      BY <2>1, <2>2, <2>3
  <1>5. QED
    BY <1>3, <1>4 DEF m

\* The degrees of an input.
LEMMA MembershipsTyped ==
  ASSUME NEW p \in Profiles, NEW input \in 0..2, NEW v \in Int
  PROVE  \A k \in 1..3 : Memberships(p, input, v)[k] \in 0..One
  <1>1. \A level \in 0..2 :
          /\ FuzzifyLeft(v, Triple(p, input, level)) \in 0..One
          /\ FuzzifyTriangle(v, Triple(p, input, level)) \in 0..One
          /\ FuzzifyRight(v, Triple(p, input, level)) \in 0..One
    <2> SUFFICES ASSUME NEW level \in 0..2
                 PROVE  /\ FuzzifyLeft(v, Triple(p, input, level)) \in 0..One
                        /\ FuzzifyTriangle(v, Triple(p, input, level)) \in 0..One
                        /\ FuzzifyRight(v, Triple(p, input, level)) \in 0..One
      OBVIOUS
    <2> DEFINE mf == Triple(p, input, level)
    <2>1. mf[1] \in Int /\ mf[2] \in Int /\ mf[3] \in Int
      BY TripleIs
    <2> HIDE DEF mf
    <2>2. /\ FuzzifyLeft(v, mf) \in 0..One /\ FuzzifyTriangle(v, mf) \in 0..One
          /\ FuzzifyRight(v, mf) \in 0..One
      BY <2>1, FuzzifyTyped
    <2>3. QED
      BY <2>2 DEF mf
  <1>2. QED
    BY <1>1 DEF Memberships

(***************************************************************************)
(* Part 2: the centroid                                                    *)
(***************************************************************************)
\* How strongly the rules demand each output.
Demands(alpha) == \A o \in Levels : alpha[o] \in 0..One

\* The least and the greatest of some degrees is a degree.
LEMMA ExtremesTyped ==
  ASSUME NEW T \in SUBSET (0..One), T # {}
  PROVE  Min(T) \in 0..One /\ Max(T) \in 0..One
  <1>1. T \in SUBSET Nat /\ One \in Nat /\ \A k \in T : k <= One
    BY DEF One
  <1>2. Min(T) \in T
    BY <1>1, MinIs, Zenon
  <1>3. Max(T) \in T
    BY <1>1, MaxIs, Zenon
  <1>4. QED
    BY <1>2, <1>3

\* The aggregated output at one point of the domain.
Area(alpha, z) == Max({Min({alpha[o], OutputDegrees[o][z]}) : o \in Levels})

\* The output sets are degrees at every point of the domain.
LEMMA OutputDegreesTyped ==
  ASSUME NEW z \in 0..100
  PROVE  \A o \in Levels : OutputDegrees[o][z] \in 0..One
  <1> SUFFICES ASSUME NEW o \in Levels PROVE Fuzzify(z, OutputMF[o]) \in 0..One
    BY DEF OutputDegrees
  <1> DEFINE mf == OutputMF[o]
  <1>1. OutputMF[o] \in Nat \X Nat \X Nat
    BY FuzzyAssumption
  <1>2. mf[1] \in Int /\ mf[2] \in Int /\ mf[3] \in Int /\ z \in Int
    BY <1>1
  <1> HIDE DEF mf
  <1>3. Fuzzify(z, mf) \in 0..One
    BY <1>2, FuzzifyTyped
  <1>4. QED
    BY <1>3 DEF mf

\* The aggregated output is a degree.
LEMMA AreaTyped ==
  ASSUME NEW alpha, Demands(alpha), NEW z \in 0..100
  PROVE  Area(alpha, z) \in 0..One
  <1>1. \A o \in Levels : OutputDegrees[o][z] \in 0..One
    BY OutputDegreesTyped
  <1>2. ASSUME NEW o \in Levels
        PROVE  Min({alpha[o], OutputDegrees[o][z]}) \in 0..One
    <2> DEFINE T == {alpha[o], OutputDegrees[o][z]}
    <2>1. T \in SUBSET (0..One) /\ T # {}
      BY <1>1 DEF Demands
    <2> HIDE DEF T
    <2>2. Min(T) \in 0..One
      BY <2>1, ExtremesTyped
    <2>3. QED
      BY <2>2 DEF T
  <1> DEFINE T == {Min({alpha[o], OutputDegrees[o][z]}) : o \in Levels}
  <1>3. T \in SUBSET (0..One) /\ T # {}
    BY <1>2 DEF Levels
  <1> HIDE DEF T
  <1>4. Max(T) \in 0..One
    BY <1>3, ExtremesTyped
  <1>5. QED
    BY <1>4 DEF Area, T

\* One round of the loop over the domain.
SumsStep(alpha, g, z) ==
    LET area   == Area(alpha, z)
        before == IF z = 0 THEN <<0, 0>> ELSE g[z - 1]
    IN  <<before[1] + z * area, before[2] + area>>

\* g is the numerator and the denominator after each round.
SumsUp(alpha, n, g) == g = [z \in 0..n |-> SumsStep(alpha, g, z)]

\* The loop has such sums, and the centroid is the quotient of the last.
LEMMA CentroidSums ==
  ASSUME NEW alpha
  PROVE  \E g : /\ SumsUp(alpha, 100, g)
                /\ DefuzzifyMamdani(alpha) = IF g[100][2] = 0 THEN 0
                                             ELSE g[100][1] \div g[100][2]
  <1> DEFINE C == {k \in 0..100 : \E g : SumsUp(alpha, k, g)}
  <1>1. 0 \in C
    <2>1. SumsUp(alpha, 0, [z \in 0..0 |-> <<0 + 0 * Area(alpha, 0), 0 + Area(alpha, 0)>>])
      BY DEF SumsUp, SumsStep
    <2>2. QED
      BY <2>1
  <1>2. ASSUME NEW k \in 0..(100 - 1), k \in C
        PROVE  k + 1 \in C
    <2>1. PICK g : SumsUp(alpha, k, g)
      BY <1>2
    <2> DEFINE h == [z \in 0..(k + 1) |->
                       IF z <= k THEN g[z] ELSE SumsStep(alpha, g, k + 1)]
    <2>2. ASSUME NEW z \in 0..(k + 1)
          PROVE  h[z] = SumsStep(alpha, h, z)
      <3>1. z # 0 => z - 1 \in 0..k /\ h[z - 1] = g[z - 1]
        BY <1>2
      <3>2. SumsStep(alpha, h, z) = SumsStep(alpha, g, z)
        BY <3>1 DEF SumsStep
      <3>3. z <= k => g[z] = SumsStep(alpha, g, z)
        <4>1. \A i \in 0..k : g[i] = SumsStep(alpha, g, i)
          BY <2>1 DEF SumsUp
        <4>2. z <= k => z \in 0..k
          BY <1>2
        <4>3. QED
          BY <4>1, <4>2
      <3>4. z <= k \/ z = k + 1
        BY <1>2
      <3>5. QED
        BY <3>2, <3>3, <3>4
    <2>3. SumsUp(alpha, k + 1, h)
      <3>1. h = [z \in 0..(k + 1) |-> h[z]]
        OBVIOUS
      <3> HIDE DEF h
      <3>2. QED
        BY <2>2, <3>1 DEF SumsUp
    <2>4. k + 1 \in 0..100
      BY <1>2
    <2>5. QED
      BY <2>3, <2>4
  <1>3. C = 0..100
    <2>1. C \in SUBSET (0..100)
      OBVIOUS
    <2> HIDE DEF C
    <2>2. 100 \in Nat
      OBVIOUS
    <2>3. QED
      BY <1>1, <1>2, <2>1, <2>2, BoundedInduction
  <1>4. \E g : SumsUp(alpha, 100, g)
    BY <1>3
  <1> DEFINE sums == CHOOSE g : SumsUp(alpha, 100, g)
  <1>5. SumsUp(alpha, 100, sums)
    BY <1>4
  <1>6. DefuzzifyMamdani(alpha) = IF sums[100][2] = 0 THEN 0
                                  ELSE sums[100][1] \div sums[100][2]
    BY DEF DefuzzifyMamdani, SumsUp, SumsStep, Area
  <1>7. QED
    BY <1>5, <1>6

\* The centroid lies on the domain.
LEMMA CentroidTyped ==
  ASSUME NEW alpha, Demands(alpha)
  PROVE  DefuzzifyMamdani(alpha) \in 0..100
  <1>1. PICK g : /\ SumsUp(alpha, 100, g)
                 /\ DefuzzifyMamdani(alpha) = IF g[100][2] = 0 THEN 0
                                              ELSE g[100][1] \div g[100][2]
    BY CentroidSums
  <1> DEFINE Good(k) == /\ g[k][1] \in Nat /\ g[k][2] \in Nat
                        /\ g[k][1] <= 100 * g[k][2]
             C == {k \in 0..100 : Good(k)}
  <1>2. \A z \in 0..100 : g[z] = SumsStep(alpha, g, z)
    BY <1>1 DEF SumsUp
  <1>3. ASSUME NEW z \in 0..100
        PROVE  LET area == Area(alpha, z)
               IN  area \in Nat /\ z * area \in Nat /\ z * area <= 100 * area
    <2>1. Area(alpha, z) \in Nat
      BY AreaTyped
    <2>2. \A a \in Nat : z * a \in Nat /\ z * a <= 100 * a
      OBVIOUS
    <2>3. QED
      BY <2>1, <2>2
  <1>4. Good(0)
    <2> DEFINE area == Area(alpha, 0)
    <2>1. g[0] = SumsStep(alpha, g, 0)
      BY <1>2
    <2>2. SumsStep(alpha, g, 0) = <<0 + 0 * area, 0 + area>>
      BY DEF SumsStep
    <2>3. area \in Nat
      BY <1>3
    <2> HIDE DEF area
    <2>4. 0 + 0 * area = 0 /\ 0 + area = area
      BY <2>3
    <2>5. g[0] = <<0, area>>
      BY <2>1, <2>2, <2>4
    <2>6. g[0][1] = 0 /\ g[0][2] = area
      BY <2>5
    <2>7. QED
      BY <2>3, <2>6
  <1>5. ASSUME NEW k \in 0..(100 - 1), Good(k)
        PROVE  Good(k + 1)
    <2> DEFINE area == Area(alpha, k + 1)
               part == (k + 1) * area
               x == g[k][1]
               y == g[k][2]
    <2>1. k + 1 \in 0..100 /\ k + 1 # 0 /\ (k + 1) - 1 = k
      OBVIOUS
    <2>2. g[k + 1] = <<x + part, y + area>>
      <3>1. g[k + 1] = SumsStep(alpha, g, k + 1)
        BY <1>2, <2>1
      <3>2. SumsStep(alpha, g, k + 1) = <<x + part, y + area>>
        BY <2>1 DEF SumsStep
      <3>3. QED
        BY <3>1, <3>2
    <2>3. area \in Nat /\ part \in Nat /\ part <= 100 * area
      BY <1>3, <2>1
    <2>4. x \in Nat /\ y \in Nat /\ x <= 100 * y
      BY <1>5
    <2> HIDE DEF area, part, x, y
    <2>5. x + part \in Nat /\ y + area \in Nat /\ x + part <= 100 * (y + area)
      BY <2>3, <2>4
    <2>6. QED
      BY <2>2, <2>5
  <1>6. C = 0..100
    <2> HIDE DEF Good
    <2>1. C \in SUBSET (0..100) /\ 0 \in C /\ 100 \in Nat
      BY <1>4
    <2>2. \A k \in 0..(100 - 1) : k \in C => k + 1 \in C
      BY <1>5
    <2> HIDE DEF C
    <2>3. QED
      BY <2>1, <2>2, BoundedInduction
  <1>7. Good(100)
    BY <1>6
  <1>8. g[100][2] # 0 => g[100][1] \div g[100][2] \in 0..100
    <2> DEFINE x == g[100][1]
               y == g[100][2]
    <2>1. x \in Nat /\ y \in Nat /\ x <= 100 * y
      BY <1>7
    <2> HIDE DEF x, y
    <2>2. y # 0 => x \div y \in 0..100
      BY <2>1, QuotientBelow
    <2>3. QED
      BY <2>2 DEF x, y
  <1>9. QED
    BY <1>1, <1>8

(***************************************************************************)
(* Part 3: the rules                                                       *)
(***************************************************************************)
\* The output of a rule depends on how many steps its inputs are from idle.
OutputOfSum(sum) == IF sum <= 1 THEN 2 ELSE IF sum <= 3 THEN 1 ELSE 0

\* The table of config.go looks at nothing but how many steps there are.
LEMMA RulesCountSteps ==
  \A c, q, r \in Levels : RuleOutput(c, q, r) = OutputOfSum(c + q + r)
  <1> USE DEF RuleOutput, DefaultRules, OutputOfSum, Levels
  <1> SUFFICES ASSUME NEW c \in 0..2, NEW q \in 0..2, NEW r \in 0..2
               PROVE  RuleOutput(c, q, r) = OutputOfSum(c + q + r)
    OBVIOUS
  <1>1. CASE c = 0
    BY <1>1
  <1>2. CASE c = 1
    BY <1>2
  <1>3. CASE c = 2
    BY <1>3
  <1>4. QED
    BY <1>1, <1>2, <1>3

\* The trainer's rules are the same.
LEMMA RulesCompiled ==
  CompiledRules = {<<c, q, r, OutputOfSum(c + q + r)>> :
                      c \in Levels, q \in Levels, r \in Levels}
  <1>1. ASSUME NEW c \in 0..2, NEW q \in 0..2, NEW r \in 0..2
        PROVE  <<c, q, r, OutputOfSum(c + q + r)>> \in CompiledRules
    <2> USE DEF CompiledRules, OutputOfSum
    <2>1. CASE c = 0
      BY <2>1
    <2>2. CASE c = 1
      BY <2>2
    <2>3. CASE c = 2
      BY <2>3
    <2>4. QED
      BY <2>1, <2>2, <2>3
  <1>2. ASSUME NEW rule \in CompiledRules
        PROVE  \E c, q, r \in 0..2 : rule = <<c, q, r, OutputOfSum(c + q + r)>>
    BY DEF CompiledRules, OutputOfSum
  <1>3. Levels = 0..2
    BY DEF Levels
  <1>4. ASSUME NEW c \in Levels, NEW q \in Levels, NEW r \in Levels
        PROVE  <<c, q, r, OutputOfSum(c + q + r)>> \in CompiledRules
    BY <1>1, <1>3
  <1>5. ASSUME NEW rule \in CompiledRules
        PROVE  \E c, q, r \in Levels : rule = <<c, q, r, OutputOfSum(c + q + r)>>
    BY <1>2, <1>3
  <1>6. QED
    BY <1>4, <1>5

\* Degrees of all three inputs.
Degrees(mu) == \A i, k \in 1..3 : mu[i][k] \in 0..One

\* The degree to which a rule fires.
Fires(mu, x) == Min({mu[i][x[i] + 1] : i \in 1..3})

\* The combinations of levels for which the rules give an output.
Inputs(o) == {x \in Levels \X Levels \X Levels : OutputOfSum(x[1] + x[2] + x[3]) = o}

\* An output is demanded as strongly as the strongest of its rules fires.
LEMMA ActivationIs ==
  ASSUME NEW mu, NEW o
  PROVE  Activation(mu, o) = Max({0} \cup {Fires(mu, x) : x \in Inputs(o)})
  <1>1. {rule \in Levels \X Levels \X Levels : RuleOutput(rule[1], rule[2], rule[3]) = o}
           = Inputs(o)
    BY RulesCountSteps DEF Inputs
  <1>2. QED
    BY <1>1 DEF Activation, Fires

\* A rule of known degrees fires to a degree.
LEMMA FiresTyped ==
  ASSUME NEW mu, Degrees(mu), NEW x \in Levels \X Levels \X Levels
  PROVE  Fires(mu, x) \in 0..One
  <1> DEFINE T == {mu[i][x[i] + 1] : i \in 1..3}
  <1>1. \A i \in 1..3 : x[i] + 1 \in 1..3
    BY DEF Levels
  <1>2. T \in SUBSET (0..One) /\ T # {}
    BY <1>1 DEF Degrees
  <1> HIDE DEF T
  <1>3. Min(T) \in 0..One
    BY <1>2, ExtremesTyped
  <1>4. QED
    BY <1>3 DEF T, Fires

\* So outputs are demanded to degrees.
LEMMA ActivationTyped ==
  ASSUME NEW mu, Degrees(mu), NEW o
  PROVE  /\ Activation(mu, o) \in 0..One
         /\ \A x \in Inputs(o) : Fires(mu, x) <= Activation(mu, o)
         /\ Activation(mu, o) # 0 => \E x \in Inputs(o) : Fires(mu, x) = Activation(mu, o)
  <1> DEFINE T == {0} \cup {Fires(mu, x) : x \in Inputs(o)}
  <1>1. T \in SUBSET (0..One) /\ T # {}
    BY FiresTyped DEF Inputs, One
  <1>2. \A x \in Inputs(o) : Fires(mu, x) \in T
    OBVIOUS
  <1>3. \A t \in T : t # 0 => \E x \in Inputs(o) : Fires(mu, x) = t
    OBVIOUS
  <1>4. Activation(mu, o) = Max(T)
    BY ActivationIs
  <1> HIDE DEF T
  <1>5. T \in SUBSET Nat /\ One \in Nat /\ \A k \in T : k <= One
    BY <1>1 DEF One
  <1>6. Max(T) \in T /\ \A k \in T : k <= Max(T)
    BY <1>1, <1>5, MaxIs, Zenon
  <1>7. QED
    BY <1>1, <1>2, <1>3, <1>4, <1>6

\* The degrees of the metrics of a node.
MuOf(p, metrics) == <<Memberships(p, 0, metrics.cpu),
                      Memberships(p, 1, metrics.queue),
                      Memberships(p, 2, metrics.resp)>>

\* Metrics are whole numbers.
Measured(metrics) ==
    /\ metrics.raw \in Int /\ metrics.cpu \in Int
    /\ metrics.queue \in Int /\ metrics.resp \in Int

\* The memberships of the three inputs are degrees.
LEMMA MuTyped ==
  ASSUME NEW p \in Profiles, NEW metrics, Measured(metrics)
  PROVE  Degrees(MuOf(p, metrics))
  <1>1. /\ \A k \in 1..3 : Memberships(p, 0, metrics.cpu)[k] \in 0..One
        /\ \A k \in 1..3 : Memberships(p, 1, metrics.queue)[k] \in 0..One
        /\ \A k \in 1..3 : Memberships(p, 2, metrics.resp)[k] \in 0..One
    BY MembershipsTyped DEF Measured
  <1> DEFINE a == Memberships(p, 0, metrics.cpu)
             b == Memberships(p, 1, metrics.queue)
             c == Memberships(p, 2, metrics.resp)
  <1> HIDE DEF a, b, c
  <1>2. \A i, k \in 1..3 : <<a, b, c>>[i][k] \in 0..One
    BY <1>1 DEF a, b, c
  <1>3. QED
    BY <1>2 DEF Degrees, MuOf, a, b, c

\* A score is the centroid of what the rules demand, and on the domain.
LEMMA ScoreOnDomain ==
  ASSUME NEW p \in Profiles, NEW metrics, Measured(metrics)
  PROVE  /\ CalculateMamdani(p, metrics)
              = DefuzzifyMamdani([o \in Levels |-> Activation(MuOf(p, metrics), o)])
         /\ CalculateMamdani(p, metrics) \in 0..100
  <1> DEFINE alpha == [o \in Levels |-> Activation(MuOf(p, metrics), o)]
  <1>1. CalculateMamdani(p, metrics) = DefuzzifyMamdani(alpha)
    BY DEF CalculateMamdani, MuOf
  <1>2. Demands(alpha)
    <2>1. \A o : Activation(MuOf(p, metrics), o) \in 0..One
      BY MuTyped, ActivationTyped
    <2>2. QED
      BY <2>1 DEF Demands
  <1> HIDE DEF alpha
  <1>3. DefuzzifyMamdani(alpha) \in 0..100
    BY <1>2, CentroidTyped
  <1>4. QED
    BY <1>1, <1>3 DEF alpha

(***************************************************************************)
(* Part 4: one inference, twice                                            *)
(***************************************************************************)
\* The trainer fuzzifies as the balancer does: the guards it adds against sets
\* without width never decide.
LEMMA SameDegrees ==
  ASSUME NEW p \in Profiles, NEW input \in 0..2, NEW v \in Int
  PROVE  TrainerDegrees(p, 9*input, v) = Memberships(p, input, v)
  <1>1. \A a, b, c \in Int :
          /\ TrainerLeft(v, a, b, c) = FuzzifyLeft(v, <<a, b, c>>)
          /\ TrainerTriangle(v, a, b, c) = FuzzifyTriangle(v, <<a, b, c>>)
          /\ TrainerRight(v, a, b, c) = FuzzifyRight(v, <<a, b, c>>)
    BY DEF TrainerLeft, TrainerTriangle, TrainerRight,
           FuzzifyLeft, FuzzifyTriangle, FuzzifyRight
  <1>2. ASSUME NEW level \in 0..2
        PROVE  LET i == 9*input + 3*level
                   t == <<p[i + 1], p[i + 2], p[i + 3]>>
               IN  /\ p[i + 1] \in Int /\ p[i + 2] \in Int /\ p[i + 3] \in Int
                   /\ FuzzifyLeft(v, Triple(p, input, level)) = FuzzifyLeft(v, t)
                   /\ FuzzifyTriangle(v, Triple(p, input, level)) = FuzzifyTriangle(v, t)
                   /\ FuzzifyRight(v, Triple(p, input, level)) = FuzzifyRight(v, t)
    <2> DEFINE i == 9*input + 3*level
               mf == Triple(p, input, level)
    <2>1. /\ mf[1] = p[i + 1] /\ mf[2] = p[i + 2] /\ mf[3] = p[i + 3]
          /\ mf[1] \in Int /\ mf[2] \in Int /\ mf[3] \in Int
      BY TripleIs
    <2> HIDE DEF i, mf
    <2>2. QED
      BY <2>1 DEF FuzzifyLeft, FuzzifyTriangle, FuzzifyRight, i, mf
  <1> DEFINE j == 9*input
  <1>3. j \in Nat /\ 9*input + 3*0 = j /\ 9*input + 3*1 = j + 3 /\ 9*input + 3*2 = j + 6
    OBVIOUS
  <1>4. /\ TrainerLeft(v, p[j + 1], p[j + 2], p[j + 3])
             = FuzzifyLeft(v, Triple(p, input, 0))
        /\ TrainerTriangle(v, p[j + 4], p[j + 5], p[j + 6])
             = FuzzifyTriangle(v, Triple(p, input, 1))
        /\ TrainerRight(v, p[j + 7], p[j + 8], p[j + 9])
             = FuzzifyRight(v, Triple(p, input, 2))
    <2> HIDE DEF j
    <2>1. /\ (j + 3) + 1 = j + 4 /\ (j + 3) + 2 = j + 5 /\ (j + 3) + 3 = j + 6
          /\ (j + 6) + 1 = j + 7 /\ (j + 6) + 2 = j + 8 /\ (j + 6) + 3 = j + 9
      BY <1>3
    <2>2. TrainerLeft(v, p[j + 1], p[j + 2], p[j + 3])
             = FuzzifyLeft(v, Triple(p, input, 0))
      <3>1. 0 \in 0..2
        OBVIOUS
      <3>2. QED
        BY <1>1, <1>2, <1>3, <3>1
    <2>3. TrainerTriangle(v, p[j + 4], p[j + 5], p[j + 6])
             = FuzzifyTriangle(v, Triple(p, input, 1))
      <3> DEFINE i == j + 3
      <3>1. 1 \in 0..2 /\ 9*input + 3*1 = i
        BY <1>3
      <3>2. /\ p[i + 1] \in Int /\ p[i + 2] \in Int /\ p[i + 3] \in Int
            /\ FuzzifyTriangle(v, Triple(p, input, 1))
                 = FuzzifyTriangle(v, <<p[i + 1], p[i + 2], p[i + 3]>>)
        BY <1>2, <3>1
      <3>3. i + 1 = j + 4 /\ i + 2 = j + 5 /\ i + 3 = j + 6
        BY <2>1
      <3> HIDE DEF i
      <3>4. TrainerTriangle(v, p[i + 1], p[i + 2], p[i + 3])
              = FuzzifyTriangle(v, <<p[i + 1], p[i + 2], p[i + 3]>>)
        BY <1>1, <3>2
      <3>5. QED
        BY <3>2, <3>3, <3>4
    <2>4. TrainerRight(v, p[j + 7], p[j + 8], p[j + 9])
             = FuzzifyRight(v, Triple(p, input, 2))
      <3> DEFINE i == j + 6
      <3>1. 2 \in 0..2 /\ 9*input + 3*2 = i
        BY <1>3
      <3>2. /\ p[i + 1] \in Int /\ p[i + 2] \in Int /\ p[i + 3] \in Int
            /\ FuzzifyRight(v, Triple(p, input, 2))
                 = FuzzifyRight(v, <<p[i + 1], p[i + 2], p[i + 3]>>)
        BY <1>2, <3>1
      <3>3. i + 1 = j + 7 /\ i + 2 = j + 8 /\ i + 3 = j + 9
        BY <2>1
      <3> HIDE DEF i
      <3>4. TrainerRight(v, p[i + 1], p[i + 2], p[i + 3])
              = FuzzifyRight(v, <<p[i + 1], p[i + 2], p[i + 3]>>)
        BY <1>1, <3>2
      <3>5. QED
        BY <3>2, <3>3, <3>4
    <2>5. QED
      BY <2>2, <2>3, <2>4
  <1>5. QED
    BY <1>4 DEF TrainerDegrees, Memberships

\* Its rules demand the same.
LEMMA SameActivation ==
  ASSUME NEW mu, NEW o
  PROVE  Max({0} \cup {Min({mu[i][r[i] + 1] : i \in 1..3}) :
                          r \in {rule \in CompiledRules : rule[4] = o}})
           = Activation(mu, o)
  <1> DEFINE Compiled == {Fires(mu, r) : r \in {rule \in CompiledRules : rule[4] = o}}
             Listed == {Fires(mu, x) : x \in Inputs(o)}
  <1>1. ASSUME NEW r \in CompiledRules, r[4] = o
        PROVE  Fires(mu, r) \in Listed
    <2>1. PICK a \in Levels, b \in Levels, c \in Levels :
             r = <<a, b, c, OutputOfSum(a + b + c)>>
      BY RulesCompiled
    <2>2. <<a, b, c>> \in Inputs(o)
      BY <1>1, <2>1 DEF Inputs
    <2>3. \A i \in 1..3 : r[i] = <<a, b, c>>[i]
      BY <2>1
    <2>4. Fires(mu, r) = Fires(mu, <<a, b, c>>)
      BY <2>3 DEF Fires
    <2>5. QED
      BY <2>2, <2>4
  <1>2. ASSUME NEW x \in Inputs(o)
        PROVE  Fires(mu, x) \in Compiled
    <2> DEFINE r == <<x[1], x[2], x[3], o>>
    <2>1. /\ x[1] \in Levels /\ x[2] \in Levels /\ x[3] \in Levels
          /\ OutputOfSum(x[1] + x[2] + x[3]) = o
      BY DEF Inputs
    <2>2. r \in CompiledRules /\ r[4] = o
      BY <2>1, RulesCompiled
    <2>3. \A i \in 1..3 : r[i] = x[i]
      OBVIOUS
    <2>4. Fires(mu, r) = Fires(mu, x)
      BY <2>3 DEF Fires
    <2>5. QED
      BY <2>2, <2>4
  <1>3. Compiled = Listed
    BY <1>1, <1>2
  <1>4. QED
    BY <1>3, ActivationIs DEF Fires

\* What comes out of it is the same score.
LEMMA SameScore ==
  ASSUME NEW p \in Profiles, NEW metrics, Measured(metrics)
  PROVE  FuzzyScore(p, metrics.cpu, metrics.queue, metrics.resp)
           = CalculateMamdani(p, metrics)
  <1>1. /\ TrainerDegrees(p, 0, metrics.cpu) = Memberships(p, 0, metrics.cpu)
        /\ TrainerDegrees(p, 9, metrics.queue) = Memberships(p, 1, metrics.queue)
        /\ TrainerDegrees(p, 18, metrics.resp) = Memberships(p, 2, metrics.resp)
    <2>1. \A input \in 0..2, v \in Int :
             TrainerDegrees(p, 9*input, v) = Memberships(p, input, v)
      BY SameDegrees
    <2>2. 9*0 = 0 /\ 9*1 = 9 /\ 9*2 = 18
      OBVIOUS
    <2>3. 0 \in 0..2 /\ 1 \in 0..2 /\ 2 \in 0..2
      OBVIOUS
    <2>4. QED
      BY <2>1, <2>2, <2>3 DEF Measured
  <1> DEFINE mu == MuOf(p, metrics)
             nu == <<TrainerDegrees(p, 0, metrics.cpu), TrainerDegrees(p, 9, metrics.queue),
                     TrainerDegrees(p, 18, metrics.resp)>>
             DemandOf(m) == [o \in Levels |->
                Max({0} \cup {Min({m[i][r[i] + 1] : i \in 1..3}) :
                                r \in {rule \in CompiledRules : rule[4] = o}})]
  <1>5. FuzzyScore(p, metrics.cpu, metrics.queue, metrics.resp) =
          DefuzzifyMamdani(DemandOf(nu))
    BY DEF FuzzyScore
  <1>6. nu = mu
    BY <1>1 DEF MuOf
  <1> HIDE DEF mu, nu
  <1>2. FuzzyScore(p, metrics.cpu, metrics.queue, metrics.resp) =
          DefuzzifyMamdani(DemandOf(mu))
    BY <1>5, <1>6
  <1>3. FuzzyScore(p, metrics.cpu, metrics.queue, metrics.resp) =
          DefuzzifyMamdani([o \in Levels |-> Activation(mu, o)])
    BY <1>2, SameActivation
  <1>4. QED
    BY <1>3, ScoreOnDomain DEF mu

\* It normalises a CPU to the same percentage, though it clips it first and the
\* balancer last.
LEMMA SameCPU ==
  ASSUME NEW raw \in Int, NEW n \in Nodes
  PROVE  /\ NormalizedCPU(raw, CPUCap[n]) \in 0..100
         /\ ToNormalizedCPU(raw, n) = NormalizedCPU(raw, CPUCap[n])
  <1> DEFINE cap == Capacity(n)
  <1>1. cap \in Nat \ {0}
    BY FuzzyAssumption DEF Capacity
  <1>2. NormalizedCPU(raw, CPUCap[n]) =
          IF raw <= 0 THEN 0 ELSE Min({100, (raw * 100) \div cap})
    BY DEF NormalizedCPU, Capacity
  <1>3. ToNormalizedCPU(raw, n) = (100 * Max({0, Min({raw, cap})})) \div cap
    BY DEF ToNormalizedCPU, ToRawCPU, Clip
  <1> HIDE DEF cap
  <1>4. \A a, b \in Int : /\ Min({a, b}) = IF a <= b THEN a ELSE b
                          /\ Max({a, b}) = IF a >= b THEN a ELSE b
    BY DEF Min, Max
  <1>5. CASE raw <= 0
    <2>1. Max({0, Min({raw, cap})}) = 0
      <3>1. Min({raw, cap}) = raw
        BY <1>1, <1>4, <1>5
      <3>2. Max({0, raw}) = 0
        <4>1. Max({0, raw}) = IF 0 >= raw THEN 0 ELSE raw
          BY <1>4
        <4>2. QED
          BY <4>1, <1>5
      <3>3. QED
        BY <3>1, <3>2
    <2>2. (100 * 0) \div cap = 0
      BY <1>1
    <2>3. QED
      BY <1>2, <1>3, <1>5, <2>1, <2>2
  <1>6. CASE 0 < raw /\ raw < cap
    <2>1. Max({0, Min({raw, cap})}) = raw
      BY <1>1, <1>4, <1>6
    <2>2. raw * 100 \in Nat /\ raw * 100 = 100 * raw /\ 100 * raw < 100 * cap
      BY <1>1, <1>6
    <2>3. (raw * 100) \div cap \in Nat /\ (raw * 100) \div cap < 100
      BY <1>1, <2>2, QuotientBelow
    <2>4. Min({100, (raw * 100) \div cap}) = (raw * 100) \div cap
      BY <1>4, <2>3
    <2>5. ~(raw <= 0)
      BY <1>6
    <2>6. QED
      BY <1>2, <1>3, <2>1, <2>2, <2>3, <2>4, <2>5
  <1>7. CASE raw >= cap
    <2>1. Max({0, Min({raw, cap})}) = cap /\ ~(raw <= 0)
      BY <1>1, <1>4, <1>7
    <2>2. (100 * cap) \div cap = 100
      BY <1>1
    <2>3. (raw * 100) \div cap \in Int /\ (raw * 100) \div cap >= 100
      <3>1. raw * 100 \in Nat /\ raw * 100 >= 100 * cap
        BY <1>1, <1>7
      <3>2. \A x \in Nat : x >= 100 * cap => x \div cap \in Int /\ x \div cap >= 100
        BY <1>1
      <3>3. QED
        BY <3>1, <3>2
    <2>4. Min({100, (raw * 100) \div cap}) = 100
      BY <1>4, <2>3
    <2>5. QED
      BY <1>2, <1>3, <2>1, <2>2, <2>4
  <1>8. QED
    BY <1>1, <1>5, <1>6, <1>7

(***************************************************************************)
(* Part 5: scoring                                                         *)
(***************************************************************************)
\* The metrics of a node, as they are scored.
Metrics == [raw : Int, cpu : 0..100, queue : Int, resp : Int]

\* Every score so far is that of the metrics it was made of.
FuzzyInv ==
    /\ TypeOK
    /\ inputs \in Seq(Metrics)
    /\ \A n \in DOMAIN scores :
          /\ inputs[n].cpu = NormalizedCPU(inputs[n].raw, CPUCap[n])
          /\ scores[n] = CalculateMamdani(params, inputs[n])

\* Metrics are whole numbers.
LEMMA MetricsMeasured == \A metrics \in Metrics : Measured(metrics)
  BY DEF Metrics, Measured

\* The scores up to a node add up to no more than all of them.
LEMMA WheelTyped ==
  ASSUME NEW s \in Seq(0..100), Len(s) = NumNodes
  PROVE  /\ Total(s) \in Nat /\ Total(s) = UpTo(s, NumNodes)
         /\ \A i \in 0..NumNodes : UpTo(s, i) \in Nat
  <1>1. /\ NumNodes \in Nat /\ DOMAIN s = 1..NumNodes
        /\ \A i \in 1..NumNodes : s[i] \in Nat
    <2>1. NumNodes \in Nat
      BY FuzzyAssumption
    <2>2. \A i \in 1..Len(s) : s[i] \in 0..100
      BY ElementOfSeq
    <2>3. DOMAIN s = 1..Len(s)
      BY LenProperties
    <2>4. 0..100 \subseteq Nat
      OBVIOUS
    <2>5. QED
      BY <2>1, <2>2, <2>3, <2>4
  <1>2. /\ SumFunction(s) = SumFunctionOnSet(s, 1..NumNodes)
        /\ SumFunction(s) \in Nat
        /\ IsFiniteSet(1..NumNodes) /\ Counts(s, 1..NumNodes)
    BY <1>1, SumOfSequence
  <1>3. \A i \in 0..NumNodes : 1..i \in SUBSET (1..NumNodes)
    BY <1>1
  <1>4. \A i \in 0..NumNodes : SumFunctionOnSet(s, 1..i) \in Nat
    BY <1>2, <1>3, SumTyped
  <1>5. QED
    BY <1>2, <1>4 DEF Total, UpTo

\* The wheel stops at a node.
LEMMA RouletteTyped ==
  ASSUME NEW s \in Seq(0..100), Len(s) = NumNodes, NEW roll \in Rolls(s)
  PROVE  Roulette(s, roll) \in Nodes
  <1>1. Total(s) \in Nat /\ Total(s) = UpTo(s, NumNodes)
    BY WheelTyped
  <1>2. CASE Total(s) = 0
    BY <1>2 DEF Roulette, Rolls
  <1>3. CASE Total(s) > 0
    <2> DEFINE T == {i \in Nodes : roll <= 2 * UpTo(s, i)}
    <2>1. roll \in 0..(2 * Total(s) - 1)
      BY <1>3 DEF Rolls
    <2>2. NumNodes \in T
      BY <1>1, <2>1, FuzzyAssumption DEF Nodes
    <2>3. T \in SUBSET Nat /\ T # {} /\ T \subseteq Nodes
      BY <2>2 DEF Nodes
    <2>4. Roulette(s, roll) = Min(T)
      BY <1>3, <1>1 DEF Roulette
    <2> HIDE DEF T
    <2>5. Min(T) \in T
      BY <2>3, MinIs, Zenon
    <2>6. QED
      BY <2>3, <2>4, <2>5
  <1>4. QED
    BY <1>1, <1>2, <1>3

\* A node that is scored preserves the invariant.
LEMMA ScoreKeeps ==
  ASSUME FuzzyInv, Score
  PROVE  FuzzyInv'
  <1> DEFINE n == Len(scores) + 1
  <1>1. PICK raw \in RawCPUs, queue \in Queues, resp \in RespTimes :
          LET metrics == [raw |-> raw, cpu |-> NormalizedCPU(raw, CPUCap[n]),
                          queue |-> queue, resp |-> resp]
          IN  /\ inputs' = Append(inputs, metrics)
              /\ scores' = Append(scores, CalculateMamdani(params, metrics))
    BY DEF Score
  <1> DEFINE metrics == [raw |-> raw, cpu |-> NormalizedCPU(raw, CPUCap[n]),
                         queue |-> queue, resp |-> resp]
  <1>2. /\ params \in Profiles /\ scores \in Seq(0..100) /\ inputs \in Seq(Metrics)
        /\ Len(scores) < NumNodes /\ Len(inputs) = Len(scores)
        /\ params' = params /\ selected' = selected /\ selected \in 0..NumNodes
    BY DEF FuzzyInv, TypeOK, Score
  <1>3. n \in Nodes /\ n \in Nat /\ n <= NumNodes
    BY <1>2, FuzzyAssumption DEF Nodes
  <1>4. raw \in Int /\ queue \in Int /\ resp \in Int
    BY FuzzyAssumption
  <1>5. NormalizedCPU(raw, CPUCap[n]) \in 0..100
    BY <1>3, <1>4, SameCPU
  <1>6. metrics \in Metrics
    BY <1>4, <1>5 DEF Metrics
  <1>7. metrics.cpu = NormalizedCPU(metrics.raw, CPUCap[n])
    OBVIOUS
  <1>8. /\ inputs' = Append(inputs, metrics)
        /\ scores' = Append(scores, CalculateMamdani(params, metrics))
    BY <1>1
  <1> HIDE DEF metrics
  <1>9. CalculateMamdani(params, metrics) \in 0..100
    BY <1>2, <1>6, MetricsMeasured, ScoreOnDomain
  <1>10. /\ inputs' \in Seq(Metrics) /\ scores' \in Seq(0..100)
         /\ Len(scores') = n /\ Len(inputs') = n
         /\ inputs'[n] = metrics /\ scores'[n] = CalculateMamdani(params, metrics)
         /\ \A i \in 1..Len(scores) : inputs'[i] = inputs[i] /\ scores'[i] = scores[i]
    BY <1>2, <1>6, <1>8, <1>9
  <1>11. TypeOK'
    BY <1>2, <1>3, <1>10 DEF TypeOK
  <1>12. ASSUME NEW i \in DOMAIN scores'
         PROVE  /\ inputs'[i].cpu = NormalizedCPU(inputs'[i].raw, CPUCap[i])
                /\ scores'[i] = CalculateMamdani(params', inputs'[i])
    <2>1. i = n \/ (i \in DOMAIN scores /\ i \in 1..Len(scores))
      BY <1>2, <1>10
    <2>2. CASE i = n
      BY <2>2, <1>2, <1>7, <1>10
    <2>3. CASE i \in DOMAIN scores /\ i \in 1..Len(scores)
      BY <2>3, <1>2, <1>10 DEF FuzzyInv
    <2>4. QED
      BY <2>1, <2>2, <2>3
  <1>13. QED
    BY <1>10, <1>11, <1>12 DEF FuzzyInv

\* The invariant is inductive.
LEMMA FuzzyInductive == FuzzyInv /\ [Next]_vars => FuzzyInv'
  <1> SUFFICES ASSUME FuzzyInv, [Next]_vars PROVE FuzzyInv'
    OBVIOUS
  <1>1. CASE Score
    BY <1>1, ScoreKeeps
  <1>2. CASE Spin
    <2>1. PICK roll \in Rolls(scores) : selected' = Roulette(scores, roll)
      BY <1>2 DEF Spin
    <2>2. Len(scores) = NumNodes /\ UNCHANGED <<params, inputs, scores>>
      BY <1>2 DEF Spin
    <2>3. selected' \in Nodes
      BY <2>1, <2>2, RouletteTyped DEF FuzzyInv, TypeOK
    <2>4. TypeOK'
      BY <2>2, <2>3, FuzzyAssumption DEF FuzzyInv, TypeOK, Nodes
    <2>5. QED
      BY <2>2, <2>4 DEF FuzzyInv
  <1>3. CASE UNCHANGED vars
    BY <1>3 DEF vars, FuzzyInv, TypeOK
  <1>4. QED
    BY <1>1, <1>2, <1>3 DEF Next

\* The invariant holds when nothing is scored.
LEMMA FuzzyStarts == Init => FuzzyInv
  BY FuzzyAssumption DEF Init, FuzzyInv, TypeOK

\* Whatever the parameters, the output sets and the metrics, a score is on the
\* output domain, and the wheel stops at a node.
THEOREM ScoresStayOnDomain == Spec => []TypeOK
  <1>1. FuzzyInv => TypeOK
    BY DEF FuzzyInv
  <1>2. QED
    BY <1>1, FuzzyStarts, FuzzyInductive, PTL DEF Spec

(***************************************************************************)
(* Part 6: at the peaks, less load scores no less                          *)
(***************************************************************************)
\* The degrees of an input at the peak of one set, and in no other.
Peak(level) == [k \in 1..3 |-> IF k = level THEN One ELSE 0]

\* A set is met in full on its peak or its shoulder, and nowhere else.
LEMMA FullWhere ==
  ASSUME NEW v \in Int, NEW mf, mf[1] \in Int, mf[2] \in Int, mf[3] \in Int
  PROVE  /\ FuzzifyLeft(v, mf) = One <=> v <= mf[2]
         /\ FuzzifyTriangle(v, mf) = One <=> v = mf[2]
         /\ FuzzifyRight(v, mf) = One <=> v >= mf[2]
  <1> DEFINE a == mf[1]
             b == mf[2]
             c == mf[3]
  <1>1. a \in Int /\ b \in Int /\ c \in Int
    OBVIOUS
  <1>2. /\ FuzzifyLeft(v, mf) = IF v <= b THEN One ELSE IF v >= c THEN 0
                                ELSE Degree(c - v, c - b)
        /\ FuzzifyTriangle(v, mf) = IF v = b THEN One ELSE IF v <= a \/ v >= c THEN 0
                                    ELSE IF v < b THEN Degree(v - a, b - a)
                                    ELSE Degree(c - v, c - b)
        /\ FuzzifyRight(v, mf) = IF v >= b THEN One ELSE IF v <= a THEN 0
                                 ELSE Degree(v - a, b - a)
    BY DEF FuzzifyLeft, FuzzifyTriangle, FuzzifyRight
  <1> HIDE DEF a, b, c
  <1>3. One # 0 /\ \A d \in 0..(One - 1) : d # One
    BY DEF One
  <1>4. b < v /\ v < c => Degree(c - v, c - b) # One
    <2> SUFFICES ASSUME b < v, v < c PROVE Degree(c - v, c - b) # One
      OBVIOUS
    <2>1. c - v \in Int /\ c - b \in Int /\ 0 < c - v /\ c - v < c - b
      BY <1>1
    <2>2. QED
      BY <1>3, <2>1, DegreeTyped
  <1>5. a < v /\ v < b => Degree(v - a, b - a) # One
    <2> SUFFICES ASSUME a < v, v < b PROVE Degree(v - a, b - a) # One
      OBVIOUS
    <2>1. v - a \in Int /\ b - a \in Int /\ 0 < v - a /\ v - a < b - a
      BY <1>1
    <2>2. QED
      BY <1>3, <2>1, DegreeTyped
  <1>6. FuzzifyLeft(v, mf) = One <=> v <= b
    BY <1>1, <1>2, <1>3, <1>4
  <1>7. FuzzifyTriangle(v, mf) = One <=> v = b
    BY <1>1, <1>2, <1>3, <1>4, <1>5
  <1>8. FuzzifyRight(v, mf) = One <=> v >= b
    BY <1>1, <1>2, <1>3, <1>5
  <1>9. QED
    BY <1>6, <1>7, <1>8 DEF b

\* Of two values that are each at the peak of one set, the lesser is at that of
\* the lower.
LEMMA PeaksInOrder ==
  ASSUME NEW p \in Profiles, NEW input \in 0..2, NEW v \in Int, NEW w \in Int, v <= w,
         NEW k \in 1..3, NEW l \in 1..3,
         Memberships(p, input, v) = Peak(k), Memberships(p, input, w) = Peak(l)
  PROVE  k <= l
  <1> DEFINE b(level) == Triple(p, input, level)[2]
             Full(x, i) == Memberships(p, input, x)[i] = One
  <1>1. ASSUME NEW x \in Int
        PROVE  /\ Full(x, 1) <=> x <= b(0)
               /\ Full(x, 2) <=> x = b(1)
               /\ Full(x, 3) <=> x >= b(2)
    <2>1. \A level \in 0..2 :
             /\ FuzzifyLeft(x, Triple(p, input, level)) = One <=> x <= b(level)
             /\ FuzzifyTriangle(x, Triple(p, input, level)) = One <=> x = b(level)
             /\ FuzzifyRight(x, Triple(p, input, level)) = One <=> x >= b(level)
      <3> SUFFICES ASSUME NEW level \in 0..2
                   PROVE  /\ FuzzifyLeft(x, Triple(p, input, level)) = One <=> x <= b(level)
                          /\ FuzzifyTriangle(x, Triple(p, input, level)) = One
                               <=> x = b(level)
                          /\ FuzzifyRight(x, Triple(p, input, level)) = One
                               <=> x >= b(level)
        OBVIOUS
      <3> DEFINE mf == Triple(p, input, level)
      <3>1. mf[1] \in Int /\ mf[2] \in Int /\ mf[3] \in Int
        BY TripleIs
      <3> HIDE DEF mf
      <3>2. /\ FuzzifyLeft(x, mf) = One <=> x <= mf[2]
            /\ FuzzifyTriangle(x, mf) = One <=> x = mf[2]
            /\ FuzzifyRight(x, mf) = One <=> x >= mf[2]
        BY <3>1, FullWhere
      <3>3. QED
        BY <3>2 DEF mf
    <2>2. /\ Memberships(p, input, x)[1] = FuzzifyLeft(x, Triple(p, input, 0))
          /\ Memberships(p, input, x)[2] = FuzzifyTriangle(x, Triple(p, input, 1))
          /\ Memberships(p, input, x)[3] = FuzzifyRight(x, Triple(p, input, 2))
      BY DEF Memberships
    <2>3. QED
      BY <2>1, <2>2
  <1>2. b(0) \in Int /\ b(1) \in Int /\ b(2) \in Int
    BY TripleIs
  <1>3. \A i \in 1..3 : (Full(v, i) <=> i = k) /\ (Full(w, i) <=> i = l)
    BY DEF Peak, One
  <1> HIDE DEF b, Full
  <1>4. /\ k = 1 <=> v <= b(0)
        /\ k = 2 <=> v = b(1)
        /\ k = 3 <=> v >= b(2)
        /\ l = 1 <=> w <= b(0)
        /\ l = 2 <=> w = b(1)
        /\ l = 3 <=> w >= b(2)
    BY <1>1, <1>3
  <1>5. QED
    BY <1>2, <1>4

\* An output that is demanded in full, and no other.
Alone(level) == [o \in Levels |-> IF o = level THEN One ELSE 0]

\* Crisp metrics fire one rule.
LEMMA CrispFiresOne ==
  ASSUME NEW mu, NEW c \in 1..3, NEW q \in 1..3, NEW r \in 1..3,
         mu[1] = Peak(c), mu[2] = Peak(q), mu[3] = Peak(r)
  PROVE  \A o \in Levels : Activation(mu, o) = Alone(OutputOfSum(c + q + r - 3))[o]
  <1> DEFINE sum == c + q + r - 3
             at == <<c - 1, q - 1, r - 1>>
  <1>1. Degrees(mu)
    BY DEF Degrees, Peak, One
  <1>2. at \in Levels \X Levels \X Levels /\ at[1] + at[2] + at[3] = sum
    BY DEF Levels
  <1>3. Fires(mu, at) = One
    <2>1. mu[1][at[1] + 1] = One /\ mu[2][at[2] + 1] = One /\ mu[3][at[3] + 1] = One
      BY DEF Peak
    <2>2. {mu[i][at[i] + 1] : i \in 1..3} = {One}
      BY <2>1
    <2>3. Min({One}) = One
      BY DEF Min, One
    <2>4. QED
      BY <2>2, <2>3 DEF Fires
  <1>4. ASSUME NEW x \in Levels \X Levels \X Levels, x # at
        PROVE  Fires(mu, x) = 0
    <2>1. x = <<x[1], x[2], x[3]>> /\ x[1] \in 0..2 /\ x[2] \in 0..2 /\ x[3] \in 0..2
      BY DEF Levels
    <2>2. x[1] + 1 # c \/ x[2] + 1 # q \/ x[3] + 1 # r
      BY <1>4, <2>1
    <2>3. mu[1][x[1] + 1] = 0 \/ mu[2][x[2] + 1] = 0 \/ mu[3][x[3] + 1] = 0
      BY <2>1, <2>2 DEF Peak
    <2> DEFINE T == {mu[i][x[i] + 1] : i \in 1..3}
    <2>4. T \in SUBSET Nat /\ T # {} /\ 0 \in T
      <3>1. \A i \in 1..3 : mu[i][x[i] + 1] \in Nat
        <4>1. \A i \in 1..3 : x[i] + 1 \in 1..3
          BY <2>1
        <4>2. \A d \in 0..One : d \in Nat
          OBVIOUS
        <4>3. QED
          BY <1>1, <4>1, <4>2 DEF Degrees
      <3>2. QED
        BY <2>3, <3>1
    <2> HIDE DEF T
    <2>5. Min(T) \in T /\ \A k \in T : Min(T) <= k
      BY <2>4, MinIs, Zenon
    <2>6. Min(T) = 0
      <3>1. Min(T) \in Nat
        BY <2>4, <2>5
      <3>2. Min(T) <= 0
        BY <2>4, <2>5
      <3>3. QED
        BY <3>1, <3>2
    <2>7. QED
      BY <2>6 DEF T, Fires
  <1> HIDE DEF sum, at
  <1>5. ASSUME NEW o \in Levels
        PROVE  Activation(mu, o) = IF o = OutputOfSum(sum) THEN One ELSE 0
    <2>1. /\ Activation(mu, o) \in 0..One
          /\ \A x \in Inputs(o) : Fires(mu, x) <= Activation(mu, o)
          /\ Activation(mu, o) # 0 => \E x \in Inputs(o) : Fires(mu, x) = Activation(mu, o)
      BY <1>1, ActivationTyped
    <2>2. CASE o = OutputOfSum(sum)
      <3>1. at \in Inputs(o)
        BY <1>2, <2>2 DEF Inputs
      <3>2. One <= Activation(mu, o)
        BY <1>3, <2>1, <3>1
      <3>3. QED
        BY <2>1, <2>2, <3>2 DEF One
    <2>3. CASE o # OutputOfSum(sum)
      <3>1. \A x \in Inputs(o) : x \in Levels \X Levels \X Levels /\ x # at
        BY <1>2, <2>3 DEF Inputs
      <3>2. QED
        BY <1>4, <2>1, <2>3, <3>1
    <2>4. QED
      BY <2>2, <2>3
  <1>6. QED
    BY <1>5 DEF Alone, sum

\* So their score is the centroid of one output set.
LEMMA CrispScore ==
  ASSUME NEW p \in Profiles, NEW metrics, Measured(metrics),
         NEW c \in 1..3, NEW q \in 1..3, NEW r \in 1..3,
         Memberships(p, 0, metrics.cpu) = Peak(c),
         Memberships(p, 1, metrics.queue) = Peak(q),
         Memberships(p, 2, metrics.resp) = Peak(r)
  PROVE  CalculateMamdani(p, metrics) = DefuzzifyMamdani(Alone(OutputOfSum(c + q + r - 3)))
  <1> DEFINE mu == MuOf(p, metrics)
             level == OutputOfSum(c + q + r - 3)
  <1>1. mu[1] = Peak(c) /\ mu[2] = Peak(q) /\ mu[3] = Peak(r)
    BY DEF MuOf
  <1>2. CalculateMamdani(p, metrics) = DefuzzifyMamdani([o \in Levels |-> Activation(mu, o)])
    BY ScoreOnDomain
  <1> HIDE DEF mu
  <1>3. \A o \in Levels : Activation(mu, o) = Alone(level)[o]
    BY <1>1, CrispFiresOne
  <1> HIDE DEF level
  <1>4. [o \in Levels |-> Activation(mu, o)] = Alone(level)
    BY <1>3 DEF Alone
  <1>5. QED
    BY <1>2, <1>4 DEF level

\* With output sets in order, the metrics scored so far are, too.
LEMMA LessLoadByInv ==
  ASSUME FuzzyInv, OutputsRise
  PROVE  LessLoadScoresNoLess
  <1> SUFFICES ASSUME NEW m \in DOMAIN scores, NEW n \in DOMAIN scores,
                      Crisp(inputs[m]), Crisp(inputs[n]),
                      inputs[m].cpu <= inputs[n].cpu,
                      inputs[m].queue <= inputs[n].queue,
                      inputs[m].resp <= inputs[n].resp
               PROVE  scores[m] >= scores[n]
    BY DEF LessLoadScoresNoLess
  <1>1. /\ params \in Profiles /\ inputs[m] \in Metrics /\ inputs[n] \in Metrics
        /\ scores[m] = CalculateMamdani(params, inputs[m])
        /\ scores[n] = CalculateMamdani(params, inputs[n])
    <2>1. DOMAIN inputs = DOMAIN scores
      BY DEF FuzzyInv, TypeOK
    <2>2. QED
      BY <2>1 DEF FuzzyInv, TypeOK
  <1>2. Measured(inputs[m]) /\ Measured(inputs[n])
    BY <1>1, MetricsMeasured
  <1>3. PICK c1 \in 1..3, q1 \in 1..3, r1 \in 1..3 :
           /\ Memberships(params, 0, inputs[m].cpu) = Peak(c1)
           /\ Memberships(params, 1, inputs[m].queue) = Peak(q1)
           /\ Memberships(params, 2, inputs[m].resp) = Peak(r1)
    BY DEF Crisp, Peak
  <1>4. PICK c2 \in 1..3, q2 \in 1..3, r2 \in 1..3 :
           /\ Memberships(params, 0, inputs[n].cpu) = Peak(c2)
           /\ Memberships(params, 1, inputs[n].queue) = Peak(q2)
           /\ Memberships(params, 2, inputs[n].resp) = Peak(r2)
    BY DEF Crisp, Peak
  <1>5. c1 <= c2 /\ q1 <= q2 /\ r1 <= r2
    <2>1. c1 <= c2
      BY <1>1, <1>2, <1>3, <1>4, PeaksInOrder DEF Measured
    <2>2. q1 <= q2
      BY <1>1, <1>2, <1>3, <1>4, PeaksInOrder DEF Measured
    <2>3. r1 <= r2
      BY <1>1, <1>2, <1>3, <1>4, PeaksInOrder DEF Measured
    <2>4. QED
      BY <2>1, <2>2, <2>3
  <1> DEFINE high == OutputOfSum(c1 + q1 + r1 - 3)
             low == OutputOfSum(c2 + q2 + r2 - 3)
  <1>6. low \in Levels /\ high \in Levels /\ low <= high
    BY <1>5 DEF OutputOfSum, Levels
  <1>7. /\ scores[m] = DefuzzifyMamdani(Alone(high))
        /\ scores[n] = DefuzzifyMamdani(Alone(low))
    BY <1>1, <1>2, <1>3, <1>4, CrispScore
  <1> HIDE DEF low, high
  <1>8. DefuzzifyMamdani(Alone(low)) <= DefuzzifyMamdani(Alone(high))
    BY <1>6 DEF OutputsRise, Alone
  <1>9. scores[m] \in Int /\ scores[n] \in Int
    <2>1. scores \in Seq(0..100)
      BY DEF FuzzyInv, TypeOK
    <2>2. scores[m] \in 0..100 /\ scores[n] \in 0..100
      BY <2>1, ElementOfSeq, LenProperties
    <2>3. QED
      BY <2>2
  <1>10. QED
    BY <1>7, <1>8, <1>9

\* Where the output sets rise with their level, a node that is no more loaded
\* in any input than another never has the lower score, at the peaks of any
\* parameter vector.
THEOREM LessLoadNeverScoresLess ==
  ASSUME OutputsRise
  PROVE  Spec => []LessLoadScoresNoLess
  <1>1. FuzzyInv => LessLoadScoresNoLess
    BY LessLoadByInv
  <1>2. QED
    BY <1>1, FuzzyStarts, FuzzyInductive, PTL DEF Spec

(***************************************************************************)
(* Part 7: the replay                                                      *)
(***************************************************************************)
\* The trainer has the balancer's scores, and what a replay came to follows
\* from them.
ReplayInv ==
    /\ FuzzyInv
    /\ trained = scores
    /\ replay # {} => Len(scores) = NumNodes
    /\ \A r \in replay :
          /\ r.requests \in RequestCounts \X RequestCounts
          /\ r.requests[1] + r.requests[2] > 0
          /\ r.idle \in OSIdles
          /\ \A n \in Nodes : r.cpu[n] = Simulate(n, r.requests, r.idle)

\* A step of the replay is one of the balancer's, or none.
LEMMA ReplayStepsAre == [ReplayNext]_replayVars => [Next]_vars
  BY DEF ReplayNext, ScoreTwice, Replay, replayVars, Next

\* With a sample to replay, the fuzzy strategy scores and selects as it does.
THEOREM ReplayRunsTheStrategy == ReplaySpec => Spec
  <1>1. ReplayInit => Init
    BY DEF ReplayInit
  <1>2. QED
    BY <1>1, ReplayStepsAre, PTL DEF ReplaySpec, Spec

\* The node both score last.
LEMMA ScoresAlike ==
  ASSUME ReplayInv, ScoreTwice
  PROVE  trained' = scores'
  <1> DEFINE n == Len(scores) + 1
             node == inputs'[n]
  <1>1. FuzzyInv'
    BY ScoreKeeps DEF ReplayInv, ScoreTwice
  <1>2. PICK metrics : /\ inputs' = Append(inputs, metrics)
                       /\ scores' = Append(scores, CalculateMamdani(params, metrics))
    BY DEF ScoreTwice, Score
  <1>3. trained' = Append(trained,
            FuzzyScore(params, ToNormalizedCPU(node.raw, n), node.queue, node.resp))
    BY DEF ScoreTwice
  <1>4. /\ params' = params /\ params \in Profiles /\ Len(scores) < NumNodes
        /\ scores \in Seq(0..100) /\ inputs \in Seq(Metrics) /\ Len(inputs) = Len(scores)
    BY DEF ScoreTwice, Score, ReplayInv, FuzzyInv, TypeOK
  <1>5. n \in Nodes
    BY <1>4, FuzzyAssumption DEF Nodes
  <1>6. inputs'[n] = metrics /\ n \in DOMAIN inputs' /\ n \in DOMAIN scores'
    BY <1>2, <1>4
  <1>7. metrics \in Metrics /\ metrics.cpu = NormalizedCPU(metrics.raw, CPUCap[n])
    BY <1>1, <1>6 DEF FuzzyInv
  <1>8. ToNormalizedCPU(node.raw, n) = metrics.cpu
    BY <1>5, <1>6, <1>7, SameCPU DEF Metrics
  <1>9. FuzzyScore(params, metrics.cpu, metrics.queue, metrics.resp)
          = CalculateMamdani(params, metrics)
    BY <1>4, <1>7, MetricsMeasured, SameScore
  <1>10. QED
    BY <1>2, <1>3, <1>6, <1>8, <1>9 DEF ReplayInv

\* The invariant is inductive.
LEMMA ReplayInductive == ReplayInv /\ [ReplayNext]_replayVars => ReplayInv'
  <1> SUFFICES ASSUME ReplayInv, [ReplayNext]_replayVars PROVE ReplayInv'
    OBVIOUS
  <1>1. FuzzyInv'
    BY ReplayStepsAre, FuzzyInductive DEF ReplayInv
  <1>2. CASE ScoreTwice
    <2>1. trained' = scores'
      BY <1>2, ScoresAlike
    <2>2. replay = {} /\ replay' = {}
      BY <1>2, FuzzyAssumption DEF ScoreTwice, Score, ReplayInv
    <2>3. QED
      BY <1>1, <2>1, <2>2 DEF ReplayInv
  <1>3. CASE replay = {} /\ Spin /\ UNCHANGED <<trained, replay>>
    BY <1>1, <1>3 DEF Spin, ReplayInv
  <1>4. CASE Replay
    <2>1. PICK requests \in RequestCounts \X RequestCounts, idle \in OSIdles :
            /\ requests[1] + requests[2] > 0
            /\ replay' = {[requests |-> requests, idle |-> idle,
                           cpu |-> <<Simulate(1, requests, idle),
                                     Simulate(2, requests, idle)>>]}
      BY <1>4 DEF Replay
    <2>2. /\ UNCHANGED <<params, inputs, scores, selected, trained>>
          /\ Len(trained) = NumNodes
      BY <1>4 DEF Replay, vars
    <2>3. Nodes = {1, 2}
      BY ReplayAssumption DEF Nodes
    <2>4. ASSUME NEW r \in replay'
          PROVE  /\ r.requests \in RequestCounts \X RequestCounts
                 /\ r.requests[1] + r.requests[2] > 0
                 /\ r.idle \in OSIdles
                 /\ \A n \in Nodes : r.cpu[n] = Simulate(n, r.requests, r.idle)
      BY <2>1, <2>3
    <2>5. ASSUME NEW n \in Nodes, NEW split, NEW rest
          PROVE  Simulate(n, split, rest)' = Simulate(n, split, rest)
      BY <2>2 DEF Simulate, Predicted, Total, ToRawCPU, Clip, Capacity, Observed, OSIdle
    <2>6. QED
      BY <1>1, <2>2, <2>4, <2>5 DEF ReplayInv
  <1>5. CASE UNCHANGED replayVars
    <2>1. UNCHANGED <<params, inputs, scores, selected, trained, replay>>
      BY <1>5 DEF replayVars, vars
    <2>2. ASSUME NEW n \in Nodes, NEW requests, NEW idle
          PROVE  Simulate(n, requests, idle)' = Simulate(n, requests, idle)
      BY <2>1 DEF Simulate, Predicted, Total, ToRawCPU, Clip, Capacity, Observed, OSIdle
    <2>3. QED
      BY <1>1, <2>1, <2>2 DEF ReplayInv
  <1>6. QED
    BY <1>2, <1>3, <1>4, <1>5 DEF ReplayNext

\* The invariant holds before anything is scored.
LEMMA ReplayStarts == ReplayInit => ReplayInv
  BY FuzzyStarts DEF ReplayInit, ReplayInv, Init

\* The two inferences, written twice with rules and guards of their own, come to
\* the same scores of the same metrics, whatever the parameters.
THEOREM TrainerScoresAlike == ReplaySpec => [](trained = scores)
  <1>1. ReplayInv => trained = scores
    BY DEF ReplayInv
  <1>2. QED
    BY <1>1, ReplayStarts, ReplayInductive, PTL DEF ReplaySpec

\* More than what a node was seen to serve costs it no less, fewer no more: the
\* division rounds down, so both bounds are met exactly.
LEMMA CostFollows ==
  ASSUME NEW cost \in Nat, NEW part \in Nat, NEW whole \in Nat \ {0}, NEW was \in Nat \ {0}
  PROVE  /\ (cost * part) \div (whole * was) \in Nat
         /\ part >= was * whole => (cost * part) \div (whole * was) >= cost
         /\ part <= was * whole => (cost * part) \div (whole * was) <= cost
  <1> DEFINE m == whole * was
             x == cost * part
  <1>1. m \in Nat \ {0} /\ was * whole = m /\ x \in Nat
    <2>1. \A a, b \in Nat : a * b \in Nat /\ (a # 0 /\ b # 0 => a * b # 0) /\ a * b = b * a
      OBVIOUS
    <2>2. QED
      BY <2>1
  <1>2. part >= m => x >= cost * m
    <2>1. \A a, b, c \in Nat : a >= b => c * a >= c * b
      OBVIOUS
    <2> HIDE DEF m
    <2>2. QED
      BY <1>1, <2>1
  <1>3. part <= m => x <= cost * m
    <2>1. \A a, b, c \in Nat : a <= b => c * a <= c * b
      OBVIOUS
    <2> HIDE DEF m
    <2>2. QED
      BY <1>1, <2>1
  <1>4. \A y, c \in Nat, d \in Nat \ {0} :
           /\ y \div d \in Nat
           /\ y >= c * d => y \div d >= c
           /\ y <= c * d => y \div d <= c
    <2> SUFFICES ASSUME NEW y \in Nat, NEW c \in Nat, NEW d \in Nat \ {0}
                 PROVE  /\ y \div d \in Nat
                        /\ y >= c * d => y \div d >= c
                        /\ y <= c * d => y \div d <= c
      OBVIOUS
    <2> DEFINE z == y \div d
    <2>1. z \in Nat /\ d * z <= y /\ y < d * z + d
      OBVIOUS
    <2> HIDE DEF z
    <2>2. ASSUME y >= c * d PROVE z >= c
      <3>1. CASE z + 1 <= c
        <4>1. (z + 1) * d <= c * d
          BY <2>1, <3>1
        <4>2. (z + 1) * d = d * z + d
          BY <2>1
        <4>3. QED
          BY <2>1, <2>2, <4>1, <4>2
      <3>2. QED
        BY <2>1, <3>1
    <2>3. ASSUME y <= c * d PROVE z <= c
      <3>1. CASE c + 1 <= z
        <4>1. (c + 1) * d <= d * z
          BY <2>1, <3>1
        <4>2. (c + 1) * d = c * d + d
          OBVIOUS
        <4>3. c * d \in Nat /\ d * z \in Nat
          BY <2>1
        <4>4. QED
          BY <2>1, <2>3, <4>1, <4>2, <4>3
      <3>2. QED
        BY <2>1, <3>1
    <2>4. QED
      BY <2>1, <2>2, <2>3 DEF z
  <1> HIDE DEF m, x
  <1>5. /\ x \div m \in Nat
        /\ x >= cost * m => x \div m >= cost
        /\ x <= cost * m => x \div m <= cost
    BY <1>1, <1>4
  <1>6. QED
    BY <1>1, <1>2, <1>3, <1>5 DEF m, x

\* A score is a natural number.
LEMMA PercentsCount == \A x \in 0..100 : x \in Nat
  OBVIOUS

\* The least and the greatest of two.
LEMMA OfTwo ==
  \A a, b \in Int : /\ Min({a, b}) = IF a <= b THEN a ELSE b
                    /\ Max({a, b}) = IF a >= b THEN a ELSE b
  BY DEF Min, Max

\* Clipping keeps the order.
LEMMA ClipKeepsOrder ==
  ASSUME NEW n \in Nodes, NEW v \in Int, NEW w \in Int
  PROVE  Clip(v, n) \in Nat /\ (v <= w => Clip(v, n) <= Clip(w, n))
  <1> DEFINE cap == Capacity(n)
  <1>1. cap \in Nat \ {0}
    BY FuzzyAssumption DEF Capacity
  <1>2. Clip(v, n) = Max({0, Min({v, cap})}) /\ Clip(w, n) = Max({0, Min({w, cap})})
    BY DEF Clip
  <1> HIDE DEF cap
  <1>3. /\ Min({v, cap}) = IF v <= cap THEN v ELSE cap
        /\ Min({w, cap}) = IF w <= cap THEN w ELSE cap
    BY <1>1, OfTwo
  <1> DEFINE x == Min({v, cap})
             y == Min({w, cap})
  <1>4. x \in Int /\ y \in Int /\ (v <= w => x <= y)
    BY <1>1, <1>3
  <1> HIDE DEF x, y
  <1>5. /\ Max({0, x}) = IF 0 >= x THEN 0 ELSE x
        /\ Max({0, y}) = IF 0 >= y THEN 0 ELSE y
    BY <1>4, OfTwo
  <1>6. QED
    BY <1>2, <1>4, <1>5 DEF x, y

\* What is predicted is a fraction.
LEMMA PredictedTyped ==
  ASSUME ReplayInv, Len(scores) = NumNodes, NEW n \in Nodes, NEW requests \in Nat \X Nat
  PROVE  /\ Predicted(n, requests)[1] \in Nat /\ Predicted(n, requests)[2] \in Nat \ {0}
         /\ Predicted(n, requests) =
              IF Total(scores) > 0
              THEN <<(requests[1] + requests[2]) * scores[n], Total(scores)>>
              ELSE <<requests[1] + requests[2], 2>>
  <1>1. trained = scores /\ scores \in Seq(0..100)
    BY DEF ReplayInv, FuzzyInv, TypeOK
  <1>2. Total(scores) \in Nat
    BY <1>1, WheelTyped
  <1>3. scores[n] \in Nat
    <2>1. scores[n] \in 0..100
      BY <1>1, ElementOfSeq DEF Nodes
    <2>2. QED
      BY <2>1, PercentsCount
  <1> DEFINE total == requests[1] + requests[2]
  <1>4. total \in Nat
    OBVIOUS
  <1> HIDE DEF total
  <1>5. total * scores[n] \in Nat
    BY <1>3, <1>4
  <1>6. Predicted(n, requests) = IF Total(scores) > 0 THEN <<total * scores[n], Total(scores)>>
                                 ELSE <<total, 2>>
    BY <1>1 DEF Predicted, total
  <1>7. QED
    BY <1>2, <1>4, <1>5, <1>6 DEF total

\* A node is taken to have served what it served, and one request at least.
LEMMA ObservedCounts ==
  ASSUME NEW count \in Nat
  PROVE  /\ Observed(count) = IF count > 0 THEN count ELSE 1
         /\ Observed(count) \in Nat \ {0} /\ count <= Observed(count)
  <1>1. Max({count, 1}) = IF count >= 1 THEN count ELSE 1
    BY OfTwo
  <1>2. QED
    BY <1>1 DEF Observed

\* No requests cost nothing.
LEMMA NoneCostsNone ==
  ASSUME NEW cost \in Nat, NEW whole \in Nat \ {0}, NEW was \in Nat \ {0}
  PROVE  (cost * 0) \div (whole * was) = 0
  <1>1. whole * was \in Nat \ {0}
    <2>1. \A a, b \in Nat : a * b \in Nat /\ (a # 0 /\ b # 0 => a * b # 0)
      OBVIOUS
    <2>2. QED
      BY <2>1
  <1>2. cost * 0 = 0
    OBVIOUS
  <1>3. \A d \in Nat \ {0} : 0 \div d = 0
    OBVIOUS
  <1>4. QED
    BY <1>1, <1>2, <1>3

\* More requests than the trainer takes a node to have served cost it no less
\* than was seen, fewer no more, and none the idle CPU.
LEMMA MovedFromSeen ==
  ASSUME ReplayInv, NEW r \in replay, NEW n \in Nodes
  PROVE  /\ AtLeast(n, r.requests, Observed(r.requests[n])) => r.cpu[n] >= Seen(n, r.idle)
         /\ AtMost(n, r.requests, Observed(r.requests[n])) => r.cpu[n] <= Seen(n, r.idle)
         /\ AtMost(n, r.requests, 0) => r.cpu[n] = Clip(OSIdle(r.idle), n)
  <1> DEFINE part  == Predicted(n, r.requests)[1]
             whole == Predicted(n, r.requests)[2]
             obs   == Observed(r.requests[n])
             raw   == ToRawCPU(inputs[n].raw, n)
             idle  == OSIdle(r.idle)
             cost  == Max({0, raw - idle})
             moved == (cost * part) \div (whole * obs)
             most  == Max({raw, idle})
  <1>1. /\ Len(scores) = NumNodes
        /\ r.requests \in RequestCounts \X RequestCounts /\ r.idle \in OSIdles
        /\ r.cpu[n] = Simulate(n, r.requests, r.idle)
    BY DEF ReplayInv
  <1>2. n \in {1, 2} /\ r.requests \in Nat \X Nat /\ r.idle \in Nat
    <2>1. n \in {1, 2}
      BY ReplayAssumption DEF Nodes
    <2>2. RequestCounts \X RequestCounts \subseteq Nat \X Nat
      BY ReplayAssumption
    <2>3. r.idle \in Nat
      BY <1>1, ReplayAssumption
    <2>4. QED
      BY <1>1, <2>1, <2>2, <2>3
  <1>3. part \in Nat /\ whole \in Nat \ {0}
    BY <1>1, <1>2, PredictedTyped
  <1>4. obs \in Nat \ {0}
    <2>1. r.requests[n] \in Nat
      BY <1>2
    <2>2. QED
      BY <2>1, ObservedCounts
  <1>5. idle \in Nat
    BY <1>2 DEF OSIdle
  <1>6. raw \in Nat
    <2>1. inputs[n] \in Metrics
      BY <1>1 DEF ReplayInv, FuzzyInv, TypeOK, Nodes
    <2>2. inputs[n].raw \in Int
      BY <2>1 DEF Metrics
    <2>3. QED
      BY <2>2, ClipKeepsOrder DEF ToRawCPU
  <1>7. r.cpu[n] = Clip(idle + moved, n)
    BY <1>1 DEF Simulate
  <1> HIDE DEF part, whole, obs, raw, idle
  <1>8. cost \in Nat /\ most \in Int /\ idle + cost = most
    <2> DEFINE d == raw - idle
    <2>1. d \in Int /\ 0 \in Int /\ raw \in Int /\ idle \in Int
      BY <1>5, <1>6
    <2> HIDE DEF d
    <2>2. Max({0, d}) = IF 0 >= d THEN 0 ELSE d
      BY <2>1, OfTwo
    <2>3. most = IF raw >= idle THEN raw ELSE idle
      BY <2>1, OfTwo
    <2>4. QED
      BY <1>5, <1>6, <2>2, <2>3 DEF d
  <1> HIDE DEF cost, most
  <1>9. /\ moved \in Nat
        /\ part >= obs * whole => moved >= cost
        /\ part <= obs * whole => moved <= cost
    BY <1>3, <1>4, <1>8, CostFollows
  <1> HIDE DEF moved
  <1>10. /\ part >= obs * whole => most <= idle + moved
         /\ part <= obs * whole => idle + moved <= most
         /\ idle + moved \in Int
    BY <1>5, <1>8, <1>9
  <1>11. /\ Clip(idle + moved, n) \in Nat /\ Clip(most, n) \in Nat
         /\ most <= idle + moved => Clip(most, n) <= Clip(idle + moved, n)
         /\ idle + moved <= most => Clip(idle + moved, n) <= Clip(most, n)
    BY <1>8, <1>10, ClipKeepsOrder
  <1>12. /\ part >= obs * whole => r.cpu[n] >= Clip(most, n)
         /\ part <= obs * whole => r.cpu[n] <= Clip(most, n)
    BY <1>7, <1>10, <1>11
  <1>13. part <= 0 * whole => r.cpu[n] = Clip(idle, n)
    <2>1. part <= 0 * whole => part = 0
      BY <1>3
    <2>2. part = 0 => moved = 0
      BY <1>3, <1>4, <1>8, NoneCostsNone DEF moved
    <2>3. QED
      BY <1>5, <1>7, <2>1, <2>2
  <1>14. QED
    BY <1>12, <1>13 DEF part, whole, obs, most, raw, idle, AtLeast, AtMost, Seen

\* The wheel of two nodes.
LEMMA WheelOfTwo ==
  ASSUME NEW s \in Seq(0..100), Len(s) = NumNodes
  PROVE  /\ s[1] \in Nat /\ s[2] \in Nat /\ Total(s) = s[1] + s[2]
         /\ UpTo(s, 1) = s[1] /\ UpTo(s, 2) = s[1] + s[2]
  <1>1. NumNodes = 2
    BY ReplayAssumption
  <1>2. s[1] \in 0..100 /\ s[2] \in 0..100
    <2>1. 1 \in 1..Len(s) /\ 2 \in 1..Len(s)
      BY <1>1
    <2>2. \A i \in 1..Len(s) : s[i] \in 0..100
      BY ElementOfSeq
    <2>3. QED
      BY <2>1, <2>2
  <1>3. s[1] \in Nat /\ s[2] \in Nat
    BY <1>2, PercentsCount
  <1>4. 1..1 = {1} /\ 1..2 = {1, 2} /\ {1, 2} \ {2} = {1} /\ {1} \ {1} = {}
    OBVIOUS
  <1>5. IsFiniteSet({1}) /\ IsFiniteSet({1, 2})
    <2>1. IsFiniteSet({1})
      BY FS_Singleton
    <2>2. IsFiniteSet({1} \cup {2})
      BY <2>1, FS_AddElement
    <2>3. {1} \cup {2} = {1, 2}
      OBVIOUS
    <2>4. QED
      BY <2>1, <2>2, <2>3
  <1>6. Counts(s, {1}) /\ Counts(s, {1, 2})
    BY <1>3 DEF Counts
  <1>7. SumFunctionOnSet(s, {1}) = s[1] + SumFunctionOnSet(s, {})
    <2>1. SumFunctionOnSet(s, {1}) = s[1] + SumFunctionOnSet(s, {1} \ {1})
      BY <1>5, <1>6, SumTakesOut
    <2>2. QED
      BY <2>1, <1>4
  <1>8. SumFunctionOnSet(s, {1, 2}) = s[2] + SumFunctionOnSet(s, {1})
    <2>1. SumFunctionOnSet(s, {1, 2}) = s[2] + SumFunctionOnSet(s, {1, 2} \ {2})
      BY <1>5, <1>6, SumTakesOut
    <2>2. QED
      BY <2>1, <1>4
  <1>9. UpTo(s, 1) = s[1] /\ UpTo(s, 2) = s[1] + s[2]
    BY <1>3, <1>4, <1>7, <1>8, SumOfNone DEF UpTo
  <1>10. Total(s) = UpTo(s, 2)
    BY <1>1, WheelTyped
  <1>11. QED
    BY <1>3, <1>9, <1>10

\* The requests predicted for two nodes are all there were.
LEMMA PredictedAreAll ==
  ASSUME ReplayInv, Len(scores) = NumNodes, NEW requests \in Nat \X Nat
  PROVE  /\ Predicted(1, requests)[2] = Predicted(2, requests)[2]
         /\ Predicted(1, requests)[1] + Predicted(2, requests)[1]
               = (requests[1] + requests[2]) * Predicted(1, requests)[2]
  <1> DEFINE total == requests[1] + requests[2]
  <1>1. 1 \in Nodes /\ 2 \in Nodes
    BY ReplayAssumption DEF Nodes
  <1>2. scores[1] \in Nat /\ scores[2] \in Nat /\ Total(scores) = scores[1] + scores[2]
    BY WheelOfTwo DEF ReplayInv, FuzzyInv, TypeOK
  <1>3. total \in Nat
    OBVIOUS
  <1>4. \A n \in {1, 2} : Predicted(n, requests) =
            IF Total(scores) > 0 THEN <<total * scores[n], Total(scores)>> ELSE <<total, 2>>
    BY <1>1, PredictedTyped
  <1> HIDE DEF total
  <1>5. total * scores[1] + total * scores[2] = total * (scores[1] + scores[2])
    BY <1>2, <1>3
  <1>6. total + total = total * 2
    BY <1>3
  <1>7. QED
    BY <1>2, <1>4, <1>5, <1>6 DEF total

\* So not every node is predicted more than it is taken to have served.
LEMMA SomeNodeNoMore ==
  ASSUME ReplayInv, NEW r \in replay
  PROVE  \E n \in Nodes : AtMost(n, r.requests, Observed(r.requests[n]))
  <1> DEFINE part1 == Predicted(1, r.requests)[1]
             part2 == Predicted(2, r.requests)[1]
             whole == Predicted(1, r.requests)[2]
             count1 == r.requests[1]
             count2 == r.requests[2]
             obs1  == Observed(count1)
             obs2  == Observed(count2)
  <1>1. 1 \in Nodes /\ 2 \in Nodes
    BY ReplayAssumption DEF Nodes
  <1>2. Len(scores) = NumNodes /\ r.requests \in Nat \X Nat
    BY ReplayAssumption DEF ReplayInv
  <1>3. part1 \in Nat /\ part2 \in Nat /\ whole \in Nat
    BY <1>1, <1>2, PredictedTyped
  <1>4. part1 + part2 = (count1 + count2) * whole /\ whole = Predicted(2, r.requests)[2]
    BY <1>2, PredictedAreAll
  <1>5. count1 \in Nat /\ count2 \in Nat
    BY <1>2
  <1> HIDE DEF part1, part2, whole, count1, count2
  <1>6. obs1 \in Nat /\ obs2 \in Nat /\ count1 <= obs1 /\ count2 <= obs2
    BY <1>5, ObservedCounts
  <1> HIDE DEF obs1, obs2
  <1>7. part1 <= obs1 * whole \/ part2 <= obs2 * whole
    <2>1. count1 * whole <= obs1 * whole /\ count2 * whole <= obs2 * whole
      <3>1. \A a, b, c \in Nat : a <= b => a * c <= b * c
        OBVIOUS
      <3>2. QED
        BY <1>3, <1>5, <1>6, <3>1
    <2>2. (count1 + count2) * whole = count1 * whole + count2 * whole
      BY <1>3, <1>5
    <2> DEFINE a == count1 * whole
               b == count2 * whole
               c == obs1 * whole
               d == obs2 * whole
    <2>3. a \in Int /\ b \in Int /\ c \in Int /\ d \in Int
      BY <1>3, <1>5, <1>6
    <2> HIDE DEF a, b, c, d
    <2>4. part1 + part2 = a + b /\ a <= c /\ b <= d
      BY <1>4, <2>1, <2>2 DEF a, b, c, d
    <2>5. part1 <= c \/ part2 <= d
      BY <1>3, <2>3, <2>4
    <2>6. QED
      BY <2>5 DEF c, d
  <1>8. CASE part1 <= obs1 * whole
    BY <1>1, <1>8 DEF part1, obs1, count1, whole, AtMost
  <1>9. CASE part2 <= obs2 * whole
    BY <1>1, <1>4, <1>9 DEF part2, obs2, count2, AtMost
  <1>10. QED
    BY <1>7, <1>8, <1>9

\* A replay moves the CPU as it moves the requests.
LEMMA ShiftByInv == ReplayInv => ReplayFollowsTheShift
  <1> SUFFICES ASSUME ReplayInv, NEW r \in replay
               PROVE  /\ \A n \in Nodes :
                            LET count == r.requests[n]
                                seen  == Seen(n, r.idle)
                            IN  IF count > 0
                                THEN /\ AtLeast(n, r.requests, count) => r.cpu[n] >= seen
                                     /\ AtMost(n, r.requests, count) => r.cpu[n] <= seen
                                ELSE /\ AtMost(n, r.requests, 0) => r.cpu[n] = Clip(OSIdle(r.idle), n)
                                     /\ AtMost(n, r.requests, 1) => r.cpu[n] <= seen
                                     /\ AtLeast(n, r.requests, 1) => r.cpu[n] >= seen
                      /\ \E n \in Nodes : r.cpu[n] <= Seen(n, r.idle)
    BY DEF ReplayFollowsTheShift
  <1>1. ASSUME NEW n \in Nodes
        PROVE  r.requests[n] \in Nat
    <2>1. n \in {1, 2}
      BY ReplayAssumption DEF Nodes
    <2>2. r.requests \in Nat \X Nat
      BY ReplayAssumption DEF ReplayInv
    <2>3. QED
      BY <2>1, <2>2
  <1>2. ASSUME NEW n \in Nodes
        PROVE  Observed(r.requests[n]) = IF r.requests[n] > 0 THEN r.requests[n] ELSE 1
    BY <1>1, ObservedCounts
  <1>3. \E n \in Nodes : r.cpu[n] <= Seen(n, r.idle)
    BY SomeNodeNoMore, MovedFromSeen
  <1>4. QED
    BY <1>2, <1>3, MovedFromSeen

\* Objectives compare vectors by what they would have done.  For all counts,
\* CPUs and idle levels, a replay never lowers the CPU of a node that served
\* requests by sending it more, or raises it by fewer; treats a node that served
\* none as one that served one; and never raises both nodes at once.
THEOREM ReplayMovesWithTheRequests == ReplaySpec => []ReplayFollowsTheShift
  BY ShiftByInv, ReplayStarts, ReplayInductive, PTL DEF ReplaySpec

(***************************************************************************)
(* Part 8: the wheel and the share                                         *)
(***************************************************************************)
\* The whole numbers from a up to b, not included, as odd rolls.
OddRolls(a, b) == {2*k + 1 : k \in a..(b - 1)}

\* There are as many as the numbers.
LEMMA CountOdd ==
  ASSUME NEW a \in Nat, NEW b \in Nat, a <= b
  PROVE  Cardinality(OddRolls(a, b)) = b - a
  <1> DEFINE S == a..(b - 1)
             f == [k \in S |-> 2*k + 1]
  <1>1. IsFiniteSet(S) /\ Cardinality(S) = b - a
    <2>1. a \in Int /\ b - 1 \in Int
      OBVIOUS
    <2>2. /\ IsFiniteSet(S)
          /\ Cardinality(S) = IF a > b - 1 THEN 0 ELSE (b - 1) - a + 1
      BY <2>1, FS_Interval, Zenon
    <2>3. QED
      BY <2>2
  <1>2. f \in [S -> OddRolls(a, b)]
    BY DEF OddRolls
  <1>3. \A x, y \in S : f[x] = f[y] => x = y
    OBVIOUS
  <1>4. \A t \in OddRolls(a, b) : \E x \in S : f[x] = t
    BY DEF OddRolls
  <1> HIDE DEF S, f
  <1>5. Cardinality(OddRolls(a, b)) = Cardinality(S)
    BY <1>1, <1>2, <1>3, <1>4, AsMany
  <1>6. QED
    BY <1>1, <1>5

\* A roll between two whole numbers stops at the node whose part it falls in.
LEMMA WheelStops ==
  ASSUME NEW s \in Seq(0..100), Len(s) = NumNodes, NEW k \in 0..(Total(s) - 1)
  PROVE  Roulette(s, 2*k + 1) = IF k < s[1] THEN 1 ELSE 2
  <1>1. /\ s[1] \in Nat /\ s[2] \in Nat /\ Total(s) = s[1] + s[2]
        /\ UpTo(s, 1) = s[1] /\ UpTo(s, 2) = s[1] + s[2]
    BY WheelOfTwo
  <1>2. k \in Nat /\ k < s[1] + s[2] /\ Total(s) # 0
    BY <1>1
  <1> DEFINE T == {i \in Nodes : 2*k + 1 <= 2 * UpTo(s, i)}
  <1>3. Roulette(s, 2*k + 1) = Min(T)
    BY <1>2 DEF Roulette
  <1>4. Nodes = {1, 2}
    BY ReplayAssumption DEF Nodes
  <1>5. 2 \in T
    BY <1>1, <1>2, <1>4
  <1>6. 1 \in T <=> k < s[1]
    BY <1>1, <1>2, <1>4
  <1>7. T \in SUBSET Nat /\ T # {} /\ T \subseteq {1, 2}
    BY <1>4, <1>5
  <1> HIDE DEF T
  <1>8. Min(T) \in T /\ \A t \in T : Min(T) <= t
    BY <1>7, MinIs, Zenon
  <1>9. Min(T) \in {1, 2}
    BY <1>7, <1>8
  <1>10. CASE k < s[1]
    <2>1. Min(T) <= 1
      BY <1>6, <1>8, <1>10
    <2>2. Min(T) = 1
      BY <1>9, <2>1
    <2>3. QED
      BY <1>3, <1>10, <2>2
  <1>11. CASE ~(k < s[1])
    <2>1. Min(T) # 1
      BY <1>6, <1>8, <1>11
    <2>2. Min(T) = 2
      BY <1>9, <2>1
    <2>3. QED
      BY <1>3, <1>11, <2>2
  <1>12. QED
    BY <1>10, <1>11

\* A node wins as many rolls as its score says, of as many as all scores say.
LEMMA WonByScore ==
  ASSUME NEW s \in Seq(0..100), Len(s) = NumNodes, Total(s) > 0, NEW n \in Nodes
  PROVE  LET all == OddRolls(0, Total(s))
         IN  /\ Cardinality(all) = Total(s)
             /\ Cardinality({roll \in all : Roulette(s, roll) = n}) = s[n]
  <1> DEFINE all == OddRolls(0, Total(s))
             total == Total(s)
  <1>1. s[1] \in Nat /\ s[2] \in Nat /\ total = s[1] + s[2]
    BY WheelOfTwo
  <1>2. Cardinality(all) = total
    <2>1. 0 \in Nat /\ total \in Nat /\ 0 <= total
      BY <1>1
    <2>2. Cardinality(OddRolls(0, total)) = total - 0
      BY <2>1, CountOdd
    <2>3. QED
      BY <2>1, <2>2
  <1>3. \A k \in 0..(total - 1) : Roulette(s, 2*k + 1) = IF k < s[1] THEN 1 ELSE 2
    BY WheelStops
  <1>4. CASE n = 1
    <2>1. {roll \in all : Roulette(s, roll) = n} = OddRolls(0, s[1])
      <3>1. \A k \in 0..(s[1] - 1) : k \in 0..(total - 1) /\ Roulette(s, 2*k + 1) = 1
        BY <1>1, <1>3
      <3>2. \A k \in 0..(total - 1) : Roulette(s, 2*k + 1) = 1 => k \in 0..(s[1] - 1)
        BY <1>1, <1>3
      <3> HIDE DEF total
      <3>3. QED
        BY <1>4, <3>1, <3>2 DEF OddRolls, total
    <2>2. Cardinality(OddRolls(0, s[1])) = s[1] - 0
      <3> DEFINE part == s[1]
      <3>1. 0 \in Nat /\ part \in Nat /\ 0 <= part
        BY <1>1
      <3> HIDE DEF part
      <3>2. Cardinality(OddRolls(0, part)) = part - 0
        BY <3>1, CountOdd
      <3>3. QED
        BY <3>2 DEF part
    <2>3. s[1] - 0 = s[n]
      BY <1>1, <1>4
    <2>4. QED
      BY <1>2, <2>1, <2>2, <2>3
  <1>5. CASE n = 2
    <2>1. {roll \in all : Roulette(s, roll) = n} = OddRolls(s[1], total)
      <3>1. \A k \in s[1]..(total - 1) : k \in 0..(total - 1) /\ Roulette(s, 2*k + 1) = 2
        BY <1>1, <1>3
      <3>2. \A k \in 0..(total - 1) : Roulette(s, 2*k + 1) = 2 => k \in s[1]..(total - 1)
        BY <1>1, <1>3
      <3> HIDE DEF total
      <3>3. QED
        BY <1>5, <3>1, <3>2 DEF OddRolls, total
    <2>2. Cardinality(OddRolls(s[1], total)) = total - s[1]
      <3> DEFINE part == s[1]
      <3>1. total \in Nat /\ part \in Nat /\ part <= total
        BY <1>1
      <3> HIDE DEF part, total
      <3>2. Cardinality(OddRolls(part, total)) = total - part
        BY <3>1, CountOdd
      <3>3. QED
        BY <3>2 DEF part
    <2>3. total - s[1] = s[2]
      BY <1>1
    <2>4. QED
      BY <1>2, <1>5, <2>1, <2>2, <2>3
  <1>6. n = 1 \/ n = 2
    BY ReplayAssumption DEF Nodes
  <1>7. QED
    BY <1>4, <1>5, <1>6

\* The share the trainer predicts is the part of the rolls the node wins.
LEMMA PredictsByInv == ReplayInv => TrainerPredictsTheRoulette
  <1> DEFINE all == IF Total(scores) > 0 THEN {2*k + 1 : k \in 0..(Total(scores) - 1)}
                    ELSE Nodes
  <1> SUFFICES ASSUME ReplayInv, Len(scores) = NumNodes, NEW n \in Nodes
               PROVE  LET won   == Cardinality({roll \in all : Roulette(scores, roll) = n})
                          share == Predicted(n, <<1, 0>>)
                      IN  won * share[2] = share[1] * Cardinality(all)
    BY DEF TrainerPredictsTheRoulette
  <1> DEFINE won   == Cardinality({roll \in all : Roulette(scores, roll) = n})
             share == Predicted(n, <<1, 0>>)
             total == Total(scores)
  <1>1. scores \in Seq(0..100) /\ total \in Nat /\ scores[n] \in Nat
    <2>1. scores \in Seq(0..100)
      BY DEF ReplayInv, FuzzyInv, TypeOK
    <2>2. scores[n] \in 0..100
      BY <2>1, ElementOfSeq DEF Nodes
    <2>3. QED
      BY <2>1, <2>2, WheelTyped, PercentsCount
  <1>2. share = IF total > 0 THEN <<(1 + 0) * scores[n], total>> ELSE <<1 + 0, 2>>
    <2> DEFINE one == <<1, 0>>
    <2>1. one \in Nat \X Nat /\ one[1] = 1 /\ one[2] = 0
      OBVIOUS
    <2> HIDE DEF one
    <2>2. Predicted(n, one) = IF total > 0 THEN <<(one[1] + one[2]) * scores[n], total>>
                              ELSE <<one[1] + one[2], 2>>
      BY <2>1, PredictedTyped
    <2>3. QED
      BY <2>1, <2>2 DEF one
  <1>3. CASE total > 0
    <2>1. all = OddRolls(0, total)
      BY <1>3 DEF OddRolls
    <2>2. Cardinality(all) = total /\ won = scores[n]
      BY <1>1, <1>3, <2>1, WonByScore
    <2>3. share[1] = scores[n] /\ share[2] = total
      BY <1>1, <1>2, <1>3
    <2> HIDE DEF won, share, total, all
    <2>4. won * share[2] = share[1] * Cardinality(all)
      BY <2>2, <2>3
    <2>5. QED
      BY <2>4 DEF won, share, all
  <1>4. CASE ~(total > 0)
    <2>1. total = 0 /\ all = Nodes /\ Nodes = {1, 2} /\ n \in {1, 2}
      BY <1>1, <1>4, ReplayAssumption DEF Nodes
    <2>2. {roll \in all : Roulette(scores, roll) = n} = {n}
      BY <2>1 DEF Roulette
    <2>3. won = 1
      <3>1. \A x : Cardinality({x}) = 1
        BY FS_Singleton
      <3>2. QED
        BY <2>2, <3>1
    <2>4. Cardinality(all) = 2
      <3>1. Cardinality(1..2) = IF 1 > 2 THEN 0 ELSE 2 - 1 + 1
        <4>1. 1 \in Int /\ 2 \in Int
          OBVIOUS
        <4>2. QED
          BY <4>1, FS_Interval, Zenon
      <3>2. all = 1..2
        BY <2>1
      <3>3. Cardinality(1..2) = 2
        BY <3>1
      <3>4. QED
        BY <3>2, <3>3, Zenon
    <2>5. share[1] = 1 /\ share[2] = 2
      BY <1>2, <1>4
    <2> HIDE DEF won, share, total, all
    <2>6. won * share[2] = share[1] * Cardinality(all)
      BY <2>3, <2>4, <2>5
    <2>7. QED
      BY <2>6 DEF won, share, all
  <1>5. QED
    BY <1>3, <1>4

\* The share of the requests the trainer predicts for a node is the part of the
\* rolls for which the balancer selects it.
THEOREM TrainerPredictsWhatIsSpun == ReplaySpec => []TrainerPredictsTheRoulette
  BY PredictsByInv, ReplayStarts, ReplayInductive, PTL DEF ReplaySpec

(***************************************************************************)
(* Part 9: no node starves                                                 *)
(***************************************************************************)
\* A part of no more than One parts is a positive number of thousandths.
LEMMA DegreePositive ==
  \A part, whole \in Int : 0 < part /\ part < whole /\ whole <= One => Degree(part, whole) > 0
  <1> SUFFICES ASSUME NEW part \in Int, NEW whole \in Int,
                      0 < part, part < whole, whole <= One
               PROVE  Degree(part, whole) > 0
    OBVIOUS
  <1>1. \A x \in Nat, y \in Nat \ {0} : x >= y => x \div y >= 1
    OBVIOUS
  <1>2. One * part \in Nat /\ whole \in Nat \ {0} /\ One * part >= whole
    BY DEF One
  <1>3. (One * part) \div whole >= 1 /\ (One * part) \div whole \in Int
    BY <1>1, <1>2
  <1>4. QED
    BY <1>3 DEF Degree

\* Where a set is met at all.
LEMMA MetWhere ==
  ASSUME NEW v \in Int, NEW mf, mf[1] \in Int, mf[2] \in Int, mf[3] \in Int,
         mf[2] - mf[1] <= One, mf[3] - mf[2] <= One
  PROVE  /\ v < mf[3] => FuzzifyLeft(v, mf) > 0
         /\ mf[1] < v /\ v < mf[3] => FuzzifyTriangle(v, mf) > 0
         /\ mf[1] < v => FuzzifyRight(v, mf) > 0
  <1> DEFINE a == mf[1]
             b == mf[2]
             c == mf[3]
  <1>1. a \in Int /\ b \in Int /\ c \in Int /\ b - a <= One /\ c - b <= One
    OBVIOUS
  <1>2. /\ FuzzifyLeft(v, mf) = IF v <= b THEN One ELSE IF v >= c THEN 0
                                ELSE Degree(c - v, c - b)
        /\ FuzzifyTriangle(v, mf) = IF v = b THEN One ELSE IF v <= a \/ v >= c THEN 0
                                    ELSE IF v < b THEN Degree(v - a, b - a)
                                    ELSE Degree(c - v, c - b)
        /\ FuzzifyRight(v, mf) = IF v >= b THEN One ELSE IF v <= a THEN 0
                                 ELSE Degree(v - a, b - a)
    BY DEF FuzzifyLeft, FuzzifyTriangle, FuzzifyRight
  <1> HIDE DEF a, b, c
  <1>3. One > 0
    BY DEF One
  <1>4. b < v /\ v < c => Degree(c - v, c - b) > 0
    <2> SUFFICES ASSUME b < v, v < c PROVE Degree(c - v, c - b) > 0
      OBVIOUS
    <2>1. c - v \in Int /\ c - b \in Int /\ 0 < c - v /\ c - v < c - b
      BY <1>1
    <2>2. QED
      BY <1>1, <2>1, DegreePositive
  <1>5. a < v /\ v < b => Degree(v - a, b - a) > 0
    <2> SUFFICES ASSUME a < v, v < b PROVE Degree(v - a, b - a) > 0
      OBVIOUS
    <2>1. v - a \in Int /\ b - a \in Int /\ 0 < v - a /\ v - a < b - a
      BY <1>1
    <2>2. QED
      BY <1>1, <2>1, DegreePositive
  <1>6. v < c => FuzzifyLeft(v, mf) > 0
    BY <1>1, <1>2, <1>3, <1>4
  <1>7. a < v /\ v < c => FuzzifyTriangle(v, mf) > 0
    BY <1>1, <1>2, <1>3, <1>4, <1>5
  <1>8. a < v => FuzzifyRight(v, mf) > 0
    BY <1>1, <1>2, <1>3, <1>5
  <1>9. QED
    BY <1>6, <1>7, <1>8 DEF a, c

\* A value between no two neighbouring sets meets one of them.
LEMMA EveryValueMeets ==
  ASSUME Resolved, NEW p \in Profiles, NEW input \in 0..2, NEW v \in Int,
         ~BetweenSets(p, input, v)
  PROVE  \E k \in 1..3 : Memberships(p, input, v)[k] > 0
  <1> DEFINE low == Triple(p, input, 0)
             mid == Triple(p, input, 1)
             high == Triple(p, input, 2)
  <1>1. /\ low[1] \in Int /\ low[2] \in Int /\ low[3] \in Int
        /\ mid[1] \in Int /\ mid[2] \in Int /\ mid[3] \in Int
        /\ high[1] \in Int /\ high[2] \in Int /\ high[3] \in Int
    <2>1. \A level \in 0..2, k \in 1..3 : Triple(p, input, level)[k] \in Int
      BY TripleIs
    <2>2. 0 \in 0..2 /\ 1 \in 0..2 /\ 2 \in 0..2 /\ 1 \in 1..3 /\ 2 \in 1..3 /\ 3 \in 1..3
      OBVIOUS
    <2>3. QED
      BY <2>1, <2>2
  <1>2. /\ ~(low[3] <= v /\ v <= mid[1])
        /\ ~(mid[3] <= v /\ v <= high[1])
    <2>1. 0 \in 0..1 /\ 1 \in 0..1 /\ 0 + 1 = 1 /\ 1 + 1 = 2
      OBVIOUS
    <2>2. \A level \in 0..1 : ~(/\ Triple(p, input, level)[3] <= v
                               /\ v <= Triple(p, input, level + 1)[1])
      BY DEF BetweenSets
    <2>3. QED
      BY <2>1, <2>2
  <1>3. /\ low[2] - low[1] <= One /\ low[3] - low[2] <= One
        /\ mid[2] - mid[1] <= One /\ mid[3] - mid[2] <= One
        /\ high[2] - high[1] <= One /\ high[3] - high[2] <= One
    <2>1. 0 \in Levels /\ 1 \in Levels /\ 2 \in Levels
      BY DEF Levels
    <2>2. \A level \in Levels :
             /\ Triple(p, input, level)[2] - Triple(p, input, level)[1] <= One
             /\ Triple(p, input, level)[3] - Triple(p, input, level)[2] <= One
      BY DEF Resolved
    <2>3. QED
      BY <2>1, <2>2
  <1>4. Memberships(p, input, v) = <<FuzzifyLeft(v, low), FuzzifyTriangle(v, mid),
                                     FuzzifyRight(v, high)>>
    BY DEF Memberships
  <1> HIDE DEF low, mid, high
  <1>5. v < low[3] => FuzzifyLeft(v, low) > 0
    BY <1>1, <1>3, MetWhere
  <1>6. mid[1] < v /\ v < mid[3] => FuzzifyTriangle(v, mid) > 0
    BY <1>1, <1>3, MetWhere
  <1>7. high[1] < v => FuzzifyRight(v, high) > 0
    BY <1>1, <1>3, MetWhere
  <1>8. \/ FuzzifyLeft(v, low) > 0
        \/ FuzzifyTriangle(v, mid) > 0
        \/ FuzzifyRight(v, high) > 0
    BY <1>1, <1>2, <1>5, <1>6, <1>7
  <1>9. QED
    BY <1>4, <1>8

\* So some output is demanded for metrics that are met.
LEMMA SomeRuleFires ==
  ASSUME Resolved, NEW p \in Profiles, NEW metrics, Measured(metrics), Met(p, metrics)
  PROVE  \E o \in Levels : Activation(MuOf(p, metrics), o) > 0
  <1> DEFINE mu == MuOf(p, metrics)
  <1>1. Degrees(mu)
    BY MuTyped
  <1>2. \A i \in 1..3 : \E k \in 1..3 : mu[i][k] > 0
    <2>1. /\ \E k \in 1..3 : Memberships(p, 0, metrics.cpu)[k] > 0
          /\ \E k \in 1..3 : Memberships(p, 1, metrics.queue)[k] > 0
          /\ \E k \in 1..3 : Memberships(p, 2, metrics.resp)[k] > 0
      BY EveryValueMeets DEF Measured, Met
    <2> DEFINE a == Memberships(p, 0, metrics.cpu)
               b == Memberships(p, 1, metrics.queue)
               c == Memberships(p, 2, metrics.resp)
    <2> HIDE DEF a, b, c
    <2>2. \A i \in 1..3 : \E k \in 1..3 : <<a, b, c>>[i][k] > 0
      BY <2>1 DEF a, b, c
    <2>3. QED
      BY <2>2 DEF MuOf, a, b, c
  <1> HIDE DEF mu
  <1>3. PICK x1 \in 1..3, x2 \in 1..3, x3 \in 1..3 :
          mu[1][x1] > 0 /\ mu[2][x2] > 0 /\ mu[3][x3] > 0
    BY <1>2
  <1> DEFINE x == <<x1 - 1, x2 - 1, x3 - 1>>
             o == OutputOfSum((x1 - 1) + (x2 - 1) + (x3 - 1))
  <1>4. x \in Levels \X Levels \X Levels /\ o \in Levels
    BY DEF Levels, OutputOfSum
  <1>5. x \in Inputs(o)
    BY <1>4 DEF Inputs
  <1>6. \A i \in 1..3 : mu[i][x[i] + 1] > 0 /\ mu[i][x[i] + 1] \in 0..One
    BY <1>1, <1>3 DEF Degrees
  <1> HIDE DEF x, o
  <1>7. Fires(mu, x) > 0
    <2> DEFINE T == {mu[i][x[i] + 1] : i \in 1..3}
    <2>0. \A n \in 0..One : n \in Nat
      BY DEF One
    <2>1. T \in SUBSET Nat /\ T # {} /\ \A t \in T : t > 0
      BY <1>6, <2>0
    <2> HIDE DEF T
    <2>2. Min(T) \in T
      BY <2>1, MinIs, Zenon
    <2>3. QED
      BY <2>1, <2>2 DEF T, Fires
  <1>8. Fires(mu, x) <= Activation(mu, o) /\ Activation(mu, o) \in 0..One
    BY <1>1, <1>5, ActivationTyped
  <1>9. Fires(mu, x) \in 0..One
    BY <1>1, <1>4, FiresTyped
  <1>10. Activation(mu, o) > 0
    BY <1>7, <1>8, <1>9 DEF One
  <1>11. QED
    BY <1>4, <1>10 DEF mu

\* Degrees are naturals.
LEMMA DegreesCount == \A n \in 0..One : n \in Nat /\ n <= One
  BY DEF One

\* An area is a natural.
LEMMA AreaCounts ==
  ASSUME NEW alpha, Demands(alpha), NEW z \in 0..100
  PROVE  Area(alpha, z) \in Nat
  BY AreaTyped, DegreesCount

\* The aggregated output is the height at which some set is cut, or its degree
\* if that is lower, and no set exceeds it.
LEMMA AreaIs ==
  ASSUME NEW alpha, Demands(alpha), NEW z \in 0..100
  PROVE  LET Cut(o) == IF alpha[o] <= OutputDegrees[o][z] THEN alpha[o]
                                                          ELSE OutputDegrees[o][z]
         IN  /\ \E o \in Levels : Area(alpha, z) = Cut(o)
             /\ \A o \in Levels : Cut(o) <= Area(alpha, z)
  <1> DEFINE Cut(o) == IF alpha[o] <= OutputDegrees[o][z] THEN alpha[o]
                                                          ELSE OutputDegrees[o][z]
  <1>1. \A n \in 0..One : n \in Nat /\ n \in Int /\ n <= One
    BY DegreesCount
  <1>2. \A o \in Levels : alpha[o] \in 0..One /\ OutputDegrees[o][z] \in 0..One
    BY OutputDegreesTyped DEF Demands
  <1>3. \A o \in Levels : Min({alpha[o], OutputDegrees[o][z]}) = Cut(o)
    BY <1>1, <1>2, OfTwo
  <1>4. \A o \in Levels : Cut(o) \in Nat /\ Cut(o) <= One
    BY <1>1, <1>2
  <1> HIDE DEF Cut
  <1> DEFINE T == {Cut(o) : o \in Levels}
  <1>5. Area(alpha, z) = Max(T)
    BY <1>3 DEF Area
  <1>6. T \in SUBSET Nat /\ T # {} /\ One \in Nat /\ \A k \in T : k <= One
    <2>1. T # {}
      BY DEF Levels
    <2>2. One \in Nat
      BY DEF One
    <2>3. QED
      BY <1>4, <2>1, <2>2
  <1>7. Max(T) \in T /\ \A k \in T : k <= Max(T)
    <2> HIDE DEF T
    <2>1. QED
      BY <1>6, MaxIs, Zenon
  <1>8. QED
    BY <1>5, <1>7 DEF Cut

\* Cutting a set higher leaves no less of it.
LEMMA CutGrows ==
  \A a, b, d, y \in Nat :
     (a <= b \/ d = 0) /\ (IF b <= d THEN b ELSE d) <= y => (IF a <= d THEN a ELSE d) <= y
  OBVIOUS

\* It does not shrink when every set that matters at this point is demanded no
\* less.
LEMMA AreaGrows ==
  ASSUME NEW alpha, Demands(alpha), NEW beta, Demands(beta), NEW z \in 0..100,
         \A o \in Levels : alpha[o] <= beta[o] \/ OutputDegrees[o][z] = 0
  PROVE  Area(alpha, z) <= Area(beta, z)
  <1>1. \A o \in Levels : /\ alpha[o] \in 0..One /\ beta[o] \in 0..One
                          /\ OutputDegrees[o][z] \in 0..One
    BY OutputDegreesTyped DEF Demands
  <1>2. PICK o \in Levels :
          Area(alpha, z) = IF alpha[o] <= OutputDegrees[o][z] THEN alpha[o]
                                                              ELSE OutputDegrees[o][z]
    BY AreaIs
  <1>3. (IF beta[o] <= OutputDegrees[o][z] THEN beta[o] ELSE OutputDegrees[o][z])
           <= Area(beta, z)
    BY AreaIs
  <1>4. Area(beta, z) \in Nat
    BY AreaCounts
  <1> DEFINE a == alpha[o]
             b == beta[o]
             d == OutputDegrees[o][z]
  <1>5. a \in Nat /\ b \in Nat /\ d \in Nat /\ (a <= b \/ d = 0)
    BY <1>1, DegreesCount
  <1> HIDE DEF a, b, d
  <1> DEFINE x == Area(alpha, z)
             y == Area(beta, z)
  <1>6. y \in Nat /\ x = (IF a <= d THEN a ELSE d) /\ (IF b <= d THEN b ELSE d) <= y
    BY <1>2, <1>3, <1>4, Zenon DEF a, b, d
  <1>7. x <= y
    <2> HIDE DEF x, y
    <2>1. QED
      BY <1>5, <1>6, CutGrows
  <1>8. QED
    BY <1>7

\* The sums of the loop over the domain, one round at a time.
LEMMA SumsAre ==
  ASSUME NEW alpha, Demands(alpha), NEW g, SumsUp(alpha, 100, g)
  PROVE  /\ g[0][1] = 0 /\ g[0][2] = Area(alpha, 0)
         /\ \A k \in 0..99 : /\ g[k + 1][1] = g[k][1] + (k + 1) * Area(alpha, k + 1)
                             /\ g[k + 1][2] = g[k][2] + Area(alpha, k + 1)
  <1>1. \A z \in 0..100 : g[z] = SumsStep(alpha, g, z)
    BY DEF SumsUp
  <1>2. g[0][1] = 0 /\ g[0][2] = Area(alpha, 0)
    <2> DEFINE area == Area(alpha, 0)
    <2>1. g[0] = <<0 + 0 * area, 0 + area>>
      BY <1>1 DEF SumsStep
    <2>2. area \in Nat
      BY AreaCounts
    <2> HIDE DEF area
    <2>3. 0 + 0 * area = 0 /\ 0 + area = area
      BY <2>2
    <2>4. QED
      BY <2>1, <2>3 DEF area
  <1>3. ASSUME NEW k \in 0..99
        PROVE  g[k + 1] = <<g[k][1] + (k + 1) * Area(alpha, k + 1),
                            g[k][2] + Area(alpha, k + 1)>>
    <2>1. k + 1 \in 0..100 /\ k + 1 # 0 /\ (k + 1) - 1 = k
      OBVIOUS
    <2>2. g[k + 1] = SumsStep(alpha, g, k + 1)
      BY <1>1, <2>1
    <2>3. QED
      BY <2>1, <2>2 DEF SumsStep
  <1>4. ASSUME NEW k \in 0..99
        PROVE  /\ g[k + 1][1] = g[k][1] + (k + 1) * Area(alpha, k + 1)
               /\ g[k + 1][2] = g[k][2] + Area(alpha, k + 1)
    <2> DEFINE x == g[k][1] + (k + 1) * Area(alpha, k + 1)
               y == g[k][2] + Area(alpha, k + 1)
    <2>1. g[k + 1] = <<x, y>>
      BY <1>3, Zenon
    <2> HIDE DEF x, y
    <2>2. g[k + 1][1] = x /\ g[k + 1][2] = y
      BY <2>1
    <2>3. QED
      BY <2>2 DEF x, y
  <1>5. QED
    BY <1>2, <1>4, Zenon

\* The sums are numbers, and the moments no more than the domain allows; where
\* the output has a height the area is positive.
LEMMA SumsTyped ==
  ASSUME NEW alpha, Demands(alpha), NEW g, SumsUp(alpha, 100, g)
  PROVE  /\ \A k \in 0..100 : g[k][1] \in Nat /\ g[k][2] \in Nat /\ g[k][1] <= 100 * g[k][2]
         /\ \A z \in 0..100 : Area(alpha, z) <= g[100][2]
  <1> DEFINE Good(k) == /\ g[k][1] \in Nat /\ g[k][2] \in Nat
                        /\ g[k][1] <= 100 * g[k][2]
                        /\ \A z \in 0..k : Area(alpha, z) <= g[k][2]
             C == {k \in 0..100 : Good(k)}
  <1>1. \A z \in 0..100 : Area(alpha, z) \in Nat
    BY AreaCounts
  <1>2. Good(0)
    <2>1. g[0][1] = 0 /\ g[0][2] = Area(alpha, 0)
      BY SumsAre
    <2>2. 0 \in 0..100 /\ \A z \in 0..0 : z = 0
      OBVIOUS
    <2>3. QED
      BY <1>1, <2>1, <2>2
  <1>3. ASSUME NEW k \in 0..(100 - 1), Good(k)
        PROVE  Good(k + 1)
    <2> DEFINE area == Area(alpha, k + 1)
               part == (k + 1) * area
               x == g[k][1]
               y == g[k][2]
    <2>1. k \in 0..99 /\ k + 1 \in 0..100
      OBVIOUS
    <2>2. g[k + 1][1] = x + part /\ g[k + 1][2] = y + area
      BY <2>1, SumsAre
    <2>3. area \in Nat /\ part \in Nat /\ part <= 100 * area
      <3>1. area \in Nat
        BY <1>1, <2>1
      <3>2. \A a \in Nat : (k + 1) * a \in Nat /\ (k + 1) * a <= 100 * a
        BY <2>1
      <3>3. QED
        BY <3>1, <3>2
    <2>4. x \in Nat /\ y \in Nat /\ x <= 100 * y /\ \A z \in 0..k : Area(alpha, z) <= y
      BY <1>3
    <2>5. \A z \in 0..(k + 1) : z \in 0..k \/ z = k + 1
      OBVIOUS
    <2>6. \A z \in 0..k : Area(alpha, z) \in Nat
      BY <1>1
    <2>7. Area(alpha, k + 1) = area
      OBVIOUS
    <2> HIDE DEF area, part, x, y
    <2>8. x + part \in Nat /\ y + area \in Nat /\ x + part <= 100 * (y + area)
      BY <2>3, <2>4
    <2>9. \A z \in 0..(k + 1) : Area(alpha, z) <= y + area
      <3>1. \A z \in 0..k : Area(alpha, z) <= y + area
        BY <2>3, <2>4, <2>6
      <3>2. area <= y + area
        BY <2>3, <2>4
      <3>3. QED
        BY <2>5, <2>7, <3>1, <3>2
    <2>10. QED
      BY <2>2, <2>8, <2>9
  <1>4. C = 0..100
    <2> HIDE DEF Good
    <2>1. C \in SUBSET (0..100) /\ 0 \in C /\ 100 \in Nat
      BY <1>2
    <2>2. \A k \in 0..(100 - 1) : k \in C => k + 1 \in C
      BY <1>3
    <2> HIDE DEF C
    <2>3. QED
      BY <2>1, <2>2, BoundedInduction
  <1>5. \A k \in 0..100 : Good(k)
    <2> HIDE DEF Good
    <2>1. QED
      BY <1>4, Zenon
  <1>6. 100 \in 0..100
    OBVIOUS
  <1>7. Good(100)
    BY <1>5, <1>6, Zenon
  <1>8. QED
    BY <1>5, <1>7, Zenon

\* Where the products of a point with what is above it and below it go.
LEMMA MomentMoves ==
  \A a, b \in Nat, z \in 0..100, m \in Nat :
     (z < m => a <= b) /\ (z >= m => a >= b) => z * a - m * a >= z * b - m * b
  <1> SUFFICES ASSUME NEW a \in Nat, NEW b \in Nat, NEW z \in 0..100, NEW m \in Nat,
                      z < m => a <= b, z >= m => a >= b
               PROVE  z * a - m * a >= z * b - m * b
    OBVIOUS
  <1>1. \A x, y \in Nat : x * y >= 0
    OBVIOUS
  <1>2. CASE z < m
    <2>1. (m - z) * (b - a) >= 0
      BY <1>1, <1>2
    <2>2. (m - z) * (b - a) = (m * b - z * b) - (m * a - z * a)
      OBVIOUS
    <2>3. QED
      BY <2>1, <2>2
  <1>3. CASE z >= m
    <2>1. (z - m) * (a - b) >= 0
      BY <1>1, <1>3
    <2>2. (z - m) * (a - b) = (z * a - m * a) - (z * b - m * b)
      OBVIOUS
    <2>3. QED
      BY <2>1, <2>2
  <1>4. QED
    BY <1>2, <1>3

\* An output that is no higher below a point and no lower above it has its
\* centroid no lower, relative to that point.
LEMMA MomentsCompare ==
  ASSUME NEW m \in Nat,
         NEW alpha, Demands(alpha), NEW g, SumsUp(alpha, 100, g),
         NEW beta, Demands(beta), NEW h, SumsUp(beta, 100, h),
         \A z \in 0..100 : /\ z < m => Area(alpha, z) <= Area(beta, z)
                           /\ z >= m => Area(alpha, z) >= Area(beta, z)
  PROVE  g[100][1] - m * g[100][2] >= h[100][1] - m * h[100][2]
  <1> DEFINE Good(k) == g[k][1] - m * g[k][2] >= h[k][1] - m * h[k][2]
             C == {k \in 0..100 : Good(k)}
  <1>1. \A z \in 0..100 : Area(alpha, z) \in Nat /\ Area(beta, z) \in Nat
    BY AreaCounts
  <1>2. \A z \in 0..100 : z * Area(alpha, z) - m * Area(alpha, z)
                            >= z * Area(beta, z) - m * Area(beta, z)
    BY <1>1, MomentMoves
  <1>3. \A k \in 0..100 : /\ g[k][1] \in Nat /\ g[k][2] \in Nat
                          /\ h[k][1] \in Nat /\ h[k][2] \in Nat
    <2>1. \A k \in 0..100 : g[k][1] \in Nat /\ g[k][2] \in Nat
      BY SumsTyped
    <2>2. \A k \in 0..100 : h[k][1] \in Nat /\ h[k][2] \in Nat
      BY SumsTyped
    <2>3. QED
      BY <2>1, <2>2
  <1>4. Good(0)
    <2> DEFINE a == Area(alpha, 0)
               b == Area(beta, 0)
    <2>1. /\ g[0][1] = 0 /\ g[0][2] = a
          /\ h[0][1] = 0 /\ h[0][2] = b
      BY SumsAre
    <2>2. 0 \in 0..100 /\ a \in Nat /\ b \in Nat
      BY <1>1
    <2>3. 0 * a - m * a >= 0 * b - m * b
      BY <1>2, <2>2
    <2> HIDE DEF a, b
    <2>4. 0 - m * a >= 0 - m * b
      BY <2>2, <2>3
    <2>5. QED
      BY <2>1, <2>4
  <1>5. ASSUME NEW k \in 0..(100 - 1), Good(k)
        PROVE  Good(k + 1)
    <2> DEFINE a == Area(alpha, k + 1)
               b == Area(beta, k + 1)
               a1 == g[k][1]
               a2 == g[k][2]
               b1 == h[k][1]
               b2 == h[k][2]
    <2>1. k \in 0..99 /\ k + 1 \in 0..100 /\ k \in 0..100
      OBVIOUS
    <2>2. /\ g[k + 1][1] = a1 + (k + 1) * a /\ g[k + 1][2] = a2 + a
          /\ h[k + 1][1] = b1 + (k + 1) * b /\ h[k + 1][2] = b2 + b
      <3>1. g[k + 1][1] = a1 + (k + 1) * a /\ g[k + 1][2] = a2 + a
        BY <2>1, SumsAre
      <3>2. h[k + 1][1] = b1 + (k + 1) * b /\ h[k + 1][2] = b2 + b
        BY <2>1, SumsAre
      <3>3. QED
        BY <3>1, <3>2
    <2>3. (k + 1) * a - m * a >= (k + 1) * b - m * b
      BY <1>2, <2>1
    <2>4. /\ a \in Nat /\ b \in Nat /\ a1 \in Nat /\ a2 \in Nat
          /\ b1 \in Nat /\ b2 \in Nat /\ m \in Nat
      <3>1. a \in Nat /\ b \in Nat
        BY <1>1, <2>1
      <3>2. a1 \in Nat /\ a2 \in Nat /\ b1 \in Nat /\ b2 \in Nat
        BY <1>3, <2>1
      <3>3. QED
        BY <3>1, <3>2
    <2>5. a1 - m * a2 >= b1 - m * b2
      BY <1>5
    <2> HIDE DEF a, b, a1, a2, b1, b2
    <2> DEFINE za == (k + 1) * a
               zb == (k + 1) * b
               ma == m * a
               mb == m * b
               ma2 == m * a2
               mb2 == m * b2
    <2>6. /\ za \in Nat /\ zb \in Nat /\ ma \in Nat /\ mb \in Nat
          /\ ma2 \in Nat /\ mb2 \in Nat
      BY <2>1, <2>4
    <2>7. m * (a2 + a) = ma2 + ma /\ m * (b2 + b) = mb2 + mb
      BY <2>4
    <2>8. (a1 + za) - m * (a2 + a) >= (b1 + zb) - m * (b2 + b)
      <3>1. za - ma >= zb - mb /\ a1 - ma2 >= b1 - mb2
        BY <2>3, <2>5
      <3> HIDE DEF za, zb, ma, mb, ma2, mb2
      <3>2. QED
        BY <2>4, <2>6, <2>7, <3>1
    <2>9. QED
      BY <2>2, <2>8
  <1>6. C = 0..100
    <2> HIDE DEF Good
    <2>1. C \in SUBSET (0..100) /\ 0 \in C /\ 100 \in Nat
      BY <1>4
    <2>2. \A k \in 0..(100 - 1) : k \in C => k + 1 \in C
      BY <1>5
    <2> HIDE DEF C
    <2>3. QED
      BY <2>1, <2>2, BoundedInduction
  <1>7. 100 \in C
    BY <1>6
  <1>8. QED
    BY <1>7

\* One output demanded, and no other.
LEMMA SoleIs ==
  \A level, degree : \A o \in Levels : Sole(level, degree)[o] = IF o = level THEN degree ELSE 0
  BY DEF Sole

\* One output demanded is a demand.
LEMMA SoleDemands ==
  ASSUME NEW level \in Levels, NEW degree \in 0..One
  PROVE  Demands(Sole(level, degree))
  <1>1. 0 \in 0..One
    BY DEF One
  <1>2. QED
    BY <1>1, SoleIs DEF Demands

\* What is not demanded has no area.
LEMMA NothingSums ==
  ASSUME NEW level \in Levels
  PROVE  \E h : SumsUp(Sole(level, 0), 100, h) /\ h[100][1] = 0 /\ h[100][2] = 0
  <1> DEFINE alpha == Sole(level, 0)
             h == [z \in 0..100 |-> <<0, 0>>]
  <1>1. Demands(alpha)
    BY SoleDemands DEF One
  <1>2. ASSUME NEW z \in 0..100
        PROVE  Area(alpha, z) = 0
    <2>1. PICK o \in Levels :
            Area(alpha, z) = IF alpha[o] <= OutputDegrees[o][z] THEN alpha[o]
                                                                ELSE OutputDegrees[o][z]
      <3> HIDE DEF alpha
      <3>1. QED
        BY <1>1, AreaIs
    <2>2. alpha[o] = 0
      BY SoleIs
    <2>3. OutputDegrees[o][z] \in Nat
      BY OutputDegreesTyped, DegreesCount
    <2>4. QED
      BY <2>1, <2>2, <2>3
  <1>3. ASSUME NEW z \in 0..100
        PROVE  SumsStep(alpha, h, z) = <<0, 0>>
    <2> HIDE DEF alpha
    <2>1. z * 0 = 0 /\ (z # 0 => z - 1 \in 0..100)
      OBVIOUS
    <2>2. (IF z = 0 THEN <<0, 0>> ELSE h[z - 1]) = <<0, 0>>
      BY <2>1
    <2> HIDE DEF h
    <2>3. QED
      BY <1>2, <2>1, <2>2 DEF SumsStep
  <1>4. SumsUp(alpha, 100, h)
    <2> HIDE DEF alpha
    <2>1. h = [z \in 0..100 |-> SumsStep(alpha, h, z)]
      BY <1>3
    <2>2. QED
      BY <2>1 DEF SumsUp
  <1>5. QED
    BY <1>4

\* The moments of one output demanded to a degree, relative to a bound that its
\* centroid keeps on one side of.
LEMMA SoleSums ==
  ASSUME NEW level \in Levels, NEW degree \in 0..One, NEW m \in Nat
  PROVE  LET D == DefuzzifyMamdani(Sole(level, degree))
         IN  \E h : /\ SumsUp(Sole(level, degree), 100, h)
                    /\ degree = 0 \/ D >= m => h[100][1] - m * h[100][2] >= 0
                    /\ degree = 0 \/ D < m => h[100][1] - m * h[100][2] <= 0
  <1>1. CASE degree = 0
    <2>1. PICK h : SumsUp(Sole(level, 0), 100, h) /\ h[100][1] = 0 /\ h[100][2] = 0
      BY NothingSums
    <2>2. m * 0 = 0
      OBVIOUS
    <2>3. h[100][1] - m * h[100][2] = 0
      BY <2>1, <2>2
    <2>4. QED
      BY <1>1, <2>1, <2>3
  <1>2. CASE degree > 0
    <2> DEFINE alpha == Sole(level, degree)
    <2>1. Demands(alpha)
      BY SoleDemands
    <2> HIDE DEF alpha
    <2>2. PICK h : /\ SumsUp(alpha, 100, h)
                   /\ DefuzzifyMamdani(alpha) = IF h[100][2] = 0 THEN 0
                                                ELSE h[100][1] \div h[100][2]
      BY CentroidSums
    <2> DEFINE x == h[100][1]
               y == h[100][2]
               D == DefuzzifyMamdani(alpha)
    <2>3. x \in Nat /\ y \in Nat /\ x <= 100 * y
      <3>1. \A k \in 0..100 : h[k][1] \in Nat /\ h[k][2] \in Nat /\ h[k][1] <= 100 * h[k][2]
        BY <2>1, <2>2, SumsTyped
      <3>2. QED
        BY <3>1
    <2>4. D = IF y = 0 THEN 0 ELSE x \div y
      BY <2>2
    <2> HIDE DEF x, y, D
    <2>5. (D >= m => x - m * y >= 0) /\ (D < m => x - m * y <= 0)
      <3>1. CASE y = 0
        <4>1. x = 0 /\ m * y = 0
          BY <2>3, <3>1
        <4>2. QED
          BY <4>1
      <3>2. CASE y # 0
        BY <2>3, <2>4, <3>2, QuotientAround
      <3>3. QED
        BY <3>1, <3>2
    <2>6. degree # 0
      BY <1>2
    <2>7. QED
      BY <2>2, <2>5, <2>6 DEF alpha, x, y, D
  <1>3. degree \in Nat
    BY DegreesCount
  <1>4. QED
    BY <1>1, <1>2, <1>3

\* The score keeps off the upper end, and off the lower one when some output is
\* demanded.
LEMMA CentroidInside ==
  ASSUME OutputsInside, NEW alpha, Demands(alpha)
  PROVE  /\ DefuzzifyMamdani(alpha) \in {0} \cup 16..84
         /\ (\E o \in Levels : alpha[o] > 0) => DefuzzifyMamdani(alpha) \in 16..84
  <1> DEFINE low == Sole(0, alpha[0])
             high == Sole(2, alpha[2])
  <1>0. 0 \in Levels /\ 1 \in Levels /\ 2 \in Levels /\ \A o \in Levels : o \in {0, 1, 2}
    BY DEF Levels
  <1>1. /\ \A o \in Levels : alpha[o] \in 0..One /\ alpha[o] \in Nat
        /\ \A o \in Levels : low[o] = IF o = 0 THEN alpha[0] ELSE 0
        /\ \A o \in Levels : high[o] = IF o = 2 THEN alpha[2] ELSE 0
    BY DegreesCount, SoleIs DEF Demands
  <1>2. Demands(low) /\ Demands(high)
    BY <1>0, <1>1, SoleDemands
  <1>3. \A o \in Levels : low[o] <= alpha[o] /\ high[o] <= alpha[o]
    BY <1>0, <1>1
  <1>4. PICK h : SumsUp(low, 100, h) /\ h[100][1] - 16 * h[100][2] >= 0
    <2>1. alpha[0] \in 0..One /\ alpha[0] \in Nat /\ 16 \in Nat
      BY <1>0, <1>1
    <2>2. \A degree \in 1..One : DefuzzifyMamdani(Sole(0, degree)) >= 16
      BY DEF OutputsInside
    <2>3. alpha[0] = 0 \/ alpha[0] \in 1..One
      BY <2>1 DEF One
    <2>4. alpha[0] = 0 \/ DefuzzifyMamdani(low) >= 16
      BY <2>2, <2>3
    <2> HIDE DEF low
    <2>5. PICK h : /\ SumsUp(low, 100, h)
                   /\ (alpha[0] = 0 \/ DefuzzifyMamdani(low) >= 16)
                         => h[100][1] - 16 * h[100][2] >= 0
      BY <1>0, <2>1, SoleSums DEF low
    <2>6. h[100][1] - 16 * h[100][2] >= 0
      BY <2>4, <2>5
    <2>7. QED
      BY <2>5, <2>6
  <1>5. PICK k : SumsUp(high, 100, k) /\ k[100][1] - 84 * k[100][2] <= 0
    <2>1. alpha[2] \in 0..One /\ alpha[2] \in Nat /\ 84 \in Nat
      BY <1>0, <1>1
    <2>2. \A degree \in 1..One : DefuzzifyMamdani(Sole(2, degree)) < 84
      BY DEF OutputsInside
    <2>3. alpha[2] = 0 \/ alpha[2] \in 1..One
      BY <2>1 DEF One
    <2>4. alpha[2] = 0 \/ DefuzzifyMamdani(high) < 84
      BY <2>2, <2>3
    <2> HIDE DEF high
    <2>5. PICK k : /\ SumsUp(high, 100, k)
                   /\ (alpha[2] = 0 \/ DefuzzifyMamdani(high) < 84)
                         => k[100][1] - 84 * k[100][2] <= 0
      BY <1>0, <2>1, SoleSums DEF high
    <2>6. k[100][1] - 84 * k[100][2] <= 0
      BY <2>4, <2>5
    <2>7. QED
      BY <2>5, <2>6
  <1>6. PICK g : /\ SumsUp(alpha, 100, g)
                 /\ DefuzzifyMamdani(alpha) = IF g[100][2] = 0 THEN 0
                                              ELSE g[100][1] \div g[100][2]
    BY CentroidSums
  <1>7. \A z \in 0..100 : /\ z < 16 => Area(alpha, z) <= Area(low, z)
                          /\ z >= 16 => Area(alpha, z) >= Area(low, z)
    <2> SUFFICES ASSUME NEW z \in 0..100
                 PROVE  /\ z < 16 => Area(alpha, z) <= Area(low, z)
                        /\ Area(low, z) <= Area(alpha, z)
      BY AreaCounts, <1>2
    <2>1. Area(low, z) <= Area(alpha, z)
      BY <1>2, <1>3, AreaGrows
    <2>2. ASSUME z < 16 PROVE Area(alpha, z) <= Area(low, z)
      <3>1. OutputDegrees[1][z] = 0 /\ OutputDegrees[2][z] = 0
        BY <2>2 DEF OutputsInside
      <3>2. \A o \in Levels : alpha[o] <= low[o] \/ OutputDegrees[o][z] = 0
        BY <1>0, <1>1, <3>1
      <3> HIDE DEF low
      <3>3. QED
        BY <1>2, <3>2, AreaGrows
    <2>3. QED
      BY <2>1, <2>2
  <1>8. \A z \in 0..100 : /\ z < 84 => Area(high, z) <= Area(alpha, z)
                          /\ z >= 84 => Area(high, z) >= Area(alpha, z)
    <2> SUFFICES ASSUME NEW z \in 0..100
                 PROVE  /\ z >= 84 => Area(alpha, z) <= Area(high, z)
                        /\ Area(high, z) <= Area(alpha, z)
      BY AreaCounts, <1>2
    <2>1. Area(high, z) <= Area(alpha, z)
      BY <1>2, <1>3, AreaGrows
    <2>2. ASSUME z >= 84 PROVE Area(alpha, z) <= Area(high, z)
      <3>1. OutputDegrees[0][z] = 0 /\ OutputDegrees[1][z] = 0
        BY <2>2 DEF OutputsInside
      <3>2. \A o \in Levels : alpha[o] <= high[o] \/ OutputDegrees[o][z] = 0
        BY <1>0, <1>1, <3>1
      <3> HIDE DEF high
      <3>3. QED
        BY <1>2, <3>2, AreaGrows
    <2>3. QED
      BY <2>1, <2>2
  <1> HIDE DEF low, high
  <1> DEFINE x == g[100][1]
             y == g[100][2]
  <1>9. x \in Nat /\ y \in Nat
    <2>1. \A i \in 0..100 : g[i][1] \in Nat /\ g[i][2] \in Nat
      BY <1>6, SumsTyped
    <2>2. QED
      BY <2>1
  <1>10. ASSUME NEW o \in Levels, alpha[o] > 0
         PROVE  y > 0
    <2>1. PICK z \in 0..100 : OutputDegrees[o][z] > 0
      BY DEF OutputsInside
    <2>2. (IF alpha[o] <= OutputDegrees[o][z] THEN alpha[o] ELSE OutputDegrees[o][z])
             <= Area(alpha, z)
      BY AreaIs
    <2>3. Area(alpha, z) <= y /\ Area(alpha, z) \in Nat
      <3>1. Area(alpha, z) <= g[100][2]
        BY <1>6, SumsTyped
      <3>2. QED
        BY <3>1, AreaCounts
    <2>4. OutputDegrees[o][z] \in Nat /\ alpha[o] \in Nat
      BY <1>1, OutputDegreesTyped, DegreesCount
    <2> HIDE DEF y
    <2>5. QED
      BY <1>9, <1>10, <2>1, <2>2, <2>3, <2>4
  <1>11. x - 16 * y >= 0
    <2>1. x - 16 * y >= h[100][1] - 16 * h[100][2]
      BY <1>2, <1>4, <1>6, <1>7, MomentsCompare
    <2>2. h[100][1] \in Nat /\ h[100][2] \in Nat
      <3>1. \A i \in 0..100 : h[i][1] \in Nat /\ h[i][2] \in Nat
        BY <1>2, <1>4, SumsTyped
      <3>2. QED
        BY <3>1
    <2> HIDE DEF x, y
    <2>3. QED
      BY <1>4, <1>9, <2>1, <2>2
  <1>12. x - 84 * y <= 0
    <2>1. k[100][1] - 84 * k[100][2] >= x - 84 * y
      BY <1>2, <1>5, <1>6, <1>8, MomentsCompare
    <2>2. k[100][1] \in Nat /\ k[100][2] \in Nat
      <3>1. \A i \in 0..100 : k[i][1] \in Nat /\ k[i][2] \in Nat
        BY <1>2, <1>5, SumsTyped
      <3>2. QED
        BY <3>1
    <2> HIDE DEF x, y
    <2>3. QED
      BY <1>5, <1>9, <2>1, <2>2
  <1>13. DefuzzifyMamdani(alpha) = IF y = 0 THEN 0 ELSE x \div y
    BY <1>6
  <1> HIDE DEF x, y
  <1>14. y > 0 => x \div y \in 16..84
    <2>1. \A a \in Nat, b \in Nat \ {0} :
             16 * b <= a /\ a <= 84 * b => a \div b \in 16..84
      OBVIOUS
    <2>2. QED
      BY <1>9, <1>11, <1>12, <2>1
  <1>15. y = 0 \/ y > 0
    BY <1>9
  <1>16. y > 0 => y # 0
    OBVIOUS
  <1>17. QED
    BY <1>10, <1>13, <1>14, <1>15, <1>16

\* So it is with every score, and with that of a node that is met.
LEMMA ScoreInside ==
  ASSUME OutputsInside, Resolved,
         NEW p \in Profiles, NEW metrics, Measured(metrics)
  PROVE  /\ CalculateMamdani(p, metrics) \in {0} \cup 16..84
         /\ Met(p, metrics) => CalculateMamdani(p, metrics) \in 16..84
  <1> DEFINE alpha == [o \in Levels |-> Activation(MuOf(p, metrics), o)]
  <1>1. CalculateMamdani(p, metrics) = DefuzzifyMamdani(alpha)
    BY ScoreOnDomain
  <1>2. Demands(alpha)
    <2>1. \A o : Activation(MuOf(p, metrics), o) \in 0..One
      BY MuTyped, ActivationTyped
    <2>2. QED
      BY <2>1 DEF Demands
  <1>3. Met(p, metrics) => \E o \in Levels : alpha[o] > 0
    BY SomeRuleFires
  <1> HIDE DEF alpha
  <1>4. QED
    BY <1>1, <1>2, <1>3, CentroidInside

\* From the invariant: the sector of a node that is met is at least 16 percent of
\* the wheel.
LEMMA StarvesByInv ==
  ASSUME OutputsInside, Resolved, FuzzyInv
  PROVE  NobodyStarves
  <1> SUFFICES ASSUME Len(scores) = NumNodes, NEW n \in Nodes, Met(params, inputs[n])
               PROVE  scores[n] > 0 /\ 100 * scores[n] >= 16 * Total(scores)
    BY DEF NobodyStarves
  <1>1. /\ params \in Profiles /\ scores \in Seq(0..100) /\ Len(inputs) = Len(scores)
        /\ inputs \in Seq(Metrics)
    BY DEF FuzzyInv, TypeOK
  <1>2. NumNodes = 2 /\ Nodes = {1, 2}
    BY ReplayAssumption DEF Nodes
  <1>3. DOMAIN scores = {1, 2} /\ DOMAIN inputs = {1, 2}
    BY <1>1, <1>2
  <1>4. ASSUME NEW i \in {1, 2}
        PROVE  /\ scores[i] \in {0} \cup 16..84
               /\ Met(params, inputs[i]) => scores[i] \in 16..84
    <2>1. inputs[i] \in Metrics
      <3>1. i \in 1..Len(inputs)
        BY <1>1, <1>2
      <3>2. QED
        BY <1>1, <3>1, ElementOfSeq
    <2>2. Measured(inputs[i])
      BY <2>1, MetricsMeasured
    <2>3. scores[i] = CalculateMamdani(params, inputs[i])
      BY <1>3 DEF FuzzyInv
    <2>4. QED
      BY <1>1, <2>2, <2>3, ScoreInside
  <1> DEFINE s == scores[1]
             t == scores[2]
             mine == scores[n]
  <1>5. /\ s \in {0} \cup 16..84 /\ t \in {0} \cup 16..84
        /\ mine \in 16..84 /\ mine \in {s, t}
    <2>1. n \in {1, 2} /\ 1 \in {1, 2} /\ 2 \in {1, 2}
      BY <1>2
    <2>2. mine \in {s, t}
      BY <2>1
    <2>3. QED
      BY <1>4, <2>1, <2>2
  <1>6. Total(scores) = s + t
    BY <1>1, WheelOfTwo
  <1> HIDE DEF s, t, mine
  <1>7. mine > 0 /\ 100 * mine >= 16 * (s + t)
    BY <1>5
  <1>8. QED
    BY <1>6, <1>7 DEF mine

\* Where the output sets keep off the ends of the domain, no node whose metrics
\* lie between no two neighbouring sets is ever without a score or with less than
\* 16 percent of the roulette.
THEOREM NoNodeStarves ==
  ASSUME OutputsInside, Resolved
  PROVE  Spec => []NobodyStarves
  <1>1. FuzzyInv => NobodyStarves
    BY StarvesByInv
  <1>2. QED
    BY <1>1, FuzzyStarts, FuzzyInductive, PTL DEF Spec

=============================================================================
