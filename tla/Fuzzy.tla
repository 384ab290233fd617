------------------------------- MODULE Fuzzy -------------------------------
(***************************************************************************)
(* The fuzzy strategy (load-balancer/pkg/algorithm/fuzzy) with the CPU     *)
(* normalisation it uses (pkg/types/cpu.go) and the rules of               *)
(* pkg/config/config.go: from the metrics of the nodes to the node a spin  *)
(* of the roulette selects.  It runs under selectMu, so nothing interleaves*)
(* with it; LBProxy abstracts it to "any node".                            *)
(*                                                                         *)
(* A degree of membership, a float in 0..1 in the code, is a whole number  *)
(* of thousandths, rounded down; a score is a whole number, rounded down.  *)
(* With whole parameters at most 1000 apart no positive degree is rounded  *)
(* to 0, and no positive score is either.                                  *)
(***************************************************************************)
EXTENDS Integers, Sequences, FiniteSets, FiniteSetsExt, Functions

CONSTANTS
    NumNodes,
    CPUCap,      \* CPU capacity of each node, in percent of one core
    OutputMF,    \* output membership functions, by level
    Profiles,    \* the parameter vectors an engine may be built with
    RawCPUs, Queues, RespTimes    \* what the metrics of a node may be

Nodes  == 1..NumNodes
Levels == 0..2      \* Rendah, Sedang, Tinggi; Cepat, Normal, Lambat
One    == 1000

ASSUME FuzzyAssumption ==
    /\ NumNodes \in Nat \ {0}
    /\ CPUCap \in [Nodes -> Int]
    /\ OutputMF \in [Levels -> Nat \X Nat \X Nat]
    /\ \A p \in Profiles : p \in Seq(Int) /\ Len(p) = 27
    /\ RawCPUs \cup Queues \cup RespTimes \subseteq Int

VARIABLES
    params,     \* of the engine in use
    inputs,     \* the metrics of the nodes scored so far
    scores,
    selected    \* 0 before the spin

vars == <<params, inputs, scores, selected>>

Init ==
    /\ params \in Profiles
    /\ inputs = <<>> /\ scores = <<>>
    /\ selected = 0

-----------------------------------------------------------------------------
(***************************************************************************)
(* Membership functions.  A triple <<a, b, c>> has its peak at b.          *)
(***************************************************************************)
Degree(part, whole) == (One * part) \div whole

FuzzifyLeft(val, mf) ==
    IF val <= mf[2] THEN One
    ELSE IF val >= mf[3] THEN 0
    ELSE Degree(mf[3] - val, mf[3] - mf[2])

FuzzifyTriangle(val, mf) ==
    IF val = mf[2] THEN One
    ELSE IF val <= mf[1] \/ val >= mf[3] THEN 0
    ELSE IF val < mf[2] THEN Degree(val - mf[1], mf[2] - mf[1])
    ELSE Degree(mf[3] - val, mf[3] - mf[2])

\* Mutant: nothing is high beyond the right end of the shoulder.
FuzzifyRightEnding(val, mf) ==
    IF val > mf[3] THEN 0
    ELSE IF val >= mf[2] THEN One
    ELSE IF val <= mf[1] THEN 0
    ELSE Degree(val - mf[1], mf[2] - mf[1])

FuzzifyRight(val, mf) ==
    IF val >= mf[2] THEN One
    ELSE IF val <= mf[1] THEN 0
    ELSE Degree(val - mf[1], mf[2] - mf[1])

\* For an output set the shape follows from the triple.
Fuzzify(val, mf) ==
    IF mf[1] = mf[2] THEN FuzzifyLeft(val, mf)
    ELSE IF mf[2] = mf[3] THEN FuzzifyRight(val, mf)
    ELSE FuzzifyTriangle(val, mf)

\* Parameters come in nine triples, low to high, of CPU, queue and response.
Triple(p, input, level) == SubSeq(p, 9*input + 3*level + 1, 9*input + 3*level + 3)

Memberships(p, input, val) ==
    <<FuzzifyLeft(val, Triple(p, input, 0)),
      FuzzifyTriangle(val, Triple(p, input, 1)),
      FuzzifyRight(val, Triple(p, input, 2))>>

-----------------------------------------------------------------------------
(***************************************************************************)
(* Rules, inference and centroid                                           *)
(***************************************************************************)
\* DefaultRules: a row per level of CPU and queue, a column per level of the
\* response time.
DefaultRules == <<
    <<2, 2, 1>>, <<2, 1, 1>>, <<1, 1, 0>>,
    <<2, 1, 1>>, <<1, 1, 0>>, <<1, 0, 0>>,
    <<1, 1, 0>>, <<1, 0, 0>>, <<0, 0, 0>> >>

\* Mutant: one rule has its output in the wrong place.
RuleOutputSwapped(c, q, r) ==
    IF <<c, q, r>> = <<2, 0, 1>> THEN 2 ELSE DefaultRules[3*c + q + 1][r + 1]

RuleOutput(c, q, r) == DefaultRules[3*c + q + 1][r + 1]

Activation(mu, o) ==
    Max({0} \cup {Min({mu[i][x[i] + 1] : i \in 1..3}) :
                     x \in {rule \in Levels \X Levels \X Levels :
                              RuleOutput(rule[1], rule[2], rule[3]) = o}})

OutputDegrees == [o \in Levels |-> [z \in 0..100 |-> Fuzzify(z, OutputMF[o])]]

DefuzzifyMamdani(alpha) ==
    LET Area(z) == Max({Min({alpha[o], OutputDegrees[o][z]}) : o \in Levels})
        \* numerator and denominator over the points up to z
        sums[z \in 0..100] ==
            LET area   == Area(z)
                before == IF z = 0 THEN <<0, 0>> ELSE sums[z - 1]
            IN  <<before[1] + z * area, before[2] + area>>
        all == sums[100]
    IN  IF all[2] = 0 THEN 0 ELSE all[1] \div all[2]

\* Mutant: the score is how strongly the strongest output is demanded.
StrongestOutput(p, metrics) ==
    LET mu == <<Memberships(p, 0, metrics.cpu),
                Memberships(p, 1, metrics.queue),
                Memberships(p, 2, metrics.resp)>>
    IN  Max({Activation(mu, o) : o \in Levels})

CalculateMamdani(p, metrics) ==
    LET mu == <<Memberships(p, 0, metrics.cpu),
                Memberships(p, 1, metrics.queue),
                Memberships(p, 2, metrics.resp)>>
    IN  DefuzzifyMamdani([o \in Levels |-> Activation(mu, o)])

NormalizedCPU(raw, cap) ==
    IF raw <= 0 THEN 0
    ELSE Min({100, (raw * 100) \div (IF cap <= 0 THEN 100 ELSE cap)})

-----------------------------------------------------------------------------
(***************************************************************************)
(* SelectNode                                                              *)
(***************************************************************************)
Total(s) == SumFunction(s)
UpTo(s, i) == SumFunctionOnSet(s, 1..i)

\* A roll, a float of at least 0 and below the total, is told apart as far as
\* the wheel does: 2*k is exactly k, 2*k + 1 lies between k and k + 1.  When
\* all scores are 0 the roll is a node.
Rolls(s) == IF Total(s) > 0 THEN 0..(2 * Total(s) - 1) ELSE Nodes

\* Mutant: the roll is compared before the score of the node is added.
RouletteLate(s, roll) ==
    IF Total(s) = 0 THEN roll
    ELSE Min({NumNodes} \cup {i \in Nodes : roll <= 2 * UpTo(s, i - 1)})

Roulette(s, roll) ==
    IF Total(s) = 0 THEN roll
    ELSE Min({i \in Nodes : roll <= 2 * UpTo(s, i)})

Score ==
    /\ Len(scores) < NumNodes
    /\ \E raw \in RawCPUs, queue \in Queues, resp \in RespTimes :
          LET metrics == [raw |-> raw,
                          cpu |-> NormalizedCPU(raw, CPUCap[Len(scores) + 1]),
                          queue |-> queue, resp |-> resp]
          IN  /\ inputs' = Append(inputs, metrics)
              /\ scores' = Append(scores, CalculateMamdani(params, metrics))
    /\ UNCHANGED <<params, selected>>

Spin ==
    /\ Len(scores) = NumNodes /\ selected = 0
    /\ \E roll \in Rolls(scores) : selected' = Roulette(scores, roll)
    /\ UNCHANGED <<params, inputs, scores>>

Next == Score \/ Spin

Spec == Init /\ [][Next]_vars

-----------------------------------------------------------------------------
(***************************************************************************)
(* Properties                                                              *)
(***************************************************************************)

\* Scores stay on the output domain, also for degenerate triples and metrics
\* beyond the parameters; and a node is selected.
TypeOK ==
    /\ params \in Profiles
    /\ scores \in Seq(0..100) /\ Len(scores) <= NumNodes
    /\ Len(inputs) = Len(scores)
    /\ selected \in 0..NumNodes

\* A value lies between two neighbouring sets of its input, within neither.
BetweenSets(p, input, val) ==
    \E level \in 0..1 : /\ Triple(p, input, level)[3] <= val
                        /\ val <= Triple(p, input, level + 1)[1]

Met(p, metrics) ==
    /\ ~BetweenSets(p, 0, metrics.cpu)
    /\ ~BetweenSets(p, 1, metrics.queue)
    /\ ~BetweenSets(p, 2, metrics.resp)

\* Some rule fires for every node whose metrics lie between no two sets, so that
\* it is not left without a score; and because the centroid of what fires stays
\* inside the output sets, it keeps 16 percent of the roulette however loaded it
\* is and however idle the other one.
NobodyStarves ==
    Len(scores) = NumNodes =>
        \A n \in Nodes : Met(params, inputs[n]) =>
            scores[n] > 0 /\ 100 * scores[n] >= 16 * Total(scores)

\* The parameters are at most One apart, so that no degree is rounded to 0: the
\* unit of this model is fine enough for them.
Resolved ==
    \A p \in Profiles, input \in 0..2, level \in Levels :
        LET mf == Triple(p, input, level)
        IN  mf[2] - mf[1] <= One /\ mf[3] - mf[2] <= One

\* An output that is demanded to a degree, and no other.
Sole(level, degree) == [o \in Levels |-> IF o = level THEN degree ELSE 0]

\* The output sets meet the domain; near either end of it only the outermost
\* one does, whose centroid keeps off that end, however low it is cut.
OutputsInside ==
    /\ \A level \in Levels : \E z \in 0..100 : OutputDegrees[level][z] > 0
    /\ \A level \in {1, 2}, z \in 0..15 : OutputDegrees[level][z] = 0
    /\ \A level \in {0, 1}, z \in 84..100 : OutputDegrees[level][z] = 0
    /\ \A degree \in 1..One : /\ DefuzzifyMamdani(Sole(0, degree)) >= 16
                              /\ DefuzzifyMamdani(Sole(2, degree)) < 84

\* The metrics are at the peak of one set in every input, and in no other.
Crisp(metrics) ==
    \A m \in {Memberships(params, 0, metrics.cpu),
              Memberships(params, 1, metrics.queue),
              Memberships(params, 2, metrics.resp)} :
        \E level \in 1..3 : m = [i \in 1..3 |-> IF i = level THEN One ELSE 0]

\* Of two output sets the one of the higher level has no lesser centroid, as in
\* configs/fuzzy_output_mf.json; BuildOutputMFSet takes any triples.
OutputsRise ==
    \A low, high \in Levels : low <= high =>
        LET Alone(level) == [o \in Levels |-> IF o = level THEN One ELSE 0]
        IN  DefuzzifyMamdani(Alone(low)) <= DefuzzifyMamdani(Alone(high))

\* At the peaks of the sets the rules order the nodes: one that is no more
\* loaded in any input never has the lower score.  (Between the peaks the
\* centroid does not keep that order.)
LessLoadScoresNoLess ==
    \A m, n \in DOMAIN scores :
        /\ Crisp(inputs[m]) /\ Crisp(inputs[n])
        /\ inputs[m].cpu <= inputs[n].cpu
        /\ inputs[m].queue <= inputs[n].queue
        /\ inputs[m].resp <= inputs[n].resp
        => scores[m] >= scores[n]

=============================================================================
