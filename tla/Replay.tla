------------------------------- MODULE Replay -------------------------------
(***************************************************************************)
(* One sample of a recorded window, replayed by the offline trainer        *)
(* (cmd/mopso-train/internal/mopso): what its own copy of the fuzzy        *)
(* inference (mopso.go) makes of the metrics the balancer scored, how it   *)
(* would split the requests of the window, and the CPU it then expects of  *)
(* the nodes (evaluateDatasetDIAndBCU in offline_training.go).             *)
(*                                                                         *)
(* Both programs read the same metrics here; what recording does to them   *)
(* is the matter of DatasetReader.  A CPU is in whole percent.             *)
(***************************************************************************)
EXTENDS Fuzzy

CONSTANTS
    RequestCounts,   \* requests of a node in the window
    OSIdles          \* idle CPU of the operating system; 0 if none was recorded

ASSUME ReplayAssumption ==
    /\ NumNodes = 2
    /\ RequestCounts \subseteq Nat /\ OSIdles \subseteq Nat

VARIABLES
    trained,    \* the trainer's scores of the metrics the balancer scored
    replay      \* the sample that was replayed and what came out: none or one

replayVars == <<vars, trained, replay>>

-----------------------------------------------------------------------------
(***************************************************************************)
(* fuzzyScore: the inference a second time                                 *)
(***************************************************************************)
TrainerLeft(v, a, b, c) ==
    IF v <= b THEN One
    ELSE IF v >= c \/ c <= b THEN 0
    ELSE Degree(c - v, c - b)

TrainerTriangle(v, a, b, c) ==
    IF v = b THEN One
    ELSE IF v <= a \/ v >= c THEN 0
    ELSE IF v < b THEN Degree(v - a, b - a)
    ELSE Degree(c - v, c - b)

TrainerRight(v, a, b, c) ==
    IF v >= b THEN One
    ELSE IF v <= a \/ b <= a THEN 0
    ELSE Degree(v - a, b - a)

\* Low, medium and high of the input whose nine parameters begin after i.
TrainerDegrees(p, i, v) ==
    <<TrainerLeft(v, p[i + 1], p[i + 2], p[i + 3]),
      TrainerTriangle(v, p[i + 4], p[i + 5], p[i + 6]),
      TrainerRight(v, p[i + 7], p[i + 8], p[i + 9])>>

\* Levels of CPU, queue and response time, and of the output.
CompiledRules == {
    <<0,0,0,2>>, <<0,0,1,2>>, <<0,0,2,1>>, <<0,1,0,2>>, <<0,1,1,1>>, <<0,1,2,1>>,
    <<0,2,0,1>>, <<0,2,1,1>>, <<0,2,2,0>>, <<1,0,0,2>>, <<1,0,1,1>>, <<1,0,2,1>>,
    <<1,1,0,1>>, <<1,1,1,1>>, <<1,1,2,0>>, <<1,2,0,1>>, <<1,2,1,0>>, <<1,2,2,0>>,
    <<2,0,0,1>>, <<2,0,1,1>>, <<2,0,2,0>>, <<2,1,0,1>>, <<2,1,1,0>>, <<2,1,2,0>>,
    <<2,2,0,0>>, <<2,2,1,0>>, <<2,2,2,0>> }

\* Mutant: the row of busy nodes that answer in a normal time is off by one.
FuzzyScoreMisruled(p, cpu, q, rt) ==
    LET mu == <<TrainerDegrees(p, 0, cpu), TrainerDegrees(p, 9, q),
                TrainerDegrees(p, 18, rt)>>
        rules == (CompiledRules \ {<<2,0,1,1>>}) \cup {<<2,0,1,0>>}
    IN  DefuzzifyMamdani([o \in Levels |->
            Max({0} \cup {Min({mu[i][r[i] + 1] : i \in 1..3}) :
                            r \in {rule \in rules : rule[4] = o}})])

FuzzyScore(p, cpu, q, rt) ==
    LET mu == <<TrainerDegrees(p, 0, cpu), TrainerDegrees(p, 9, q),
                TrainerDegrees(p, 18, rt)>>
    IN  DefuzzifyMamdani([o \in Levels |->
            Max({0} \cup {Min({mu[i][r[i] + 1] : i \in 1..3}) :
                            r \in {rule \in CompiledRules : rule[4] = o}})])

-----------------------------------------------------------------------------
(***************************************************************************)
(* evaluateDatasetDIAndBCU                                                 *)
(***************************************************************************)
Capacity(n) == IF CPUCap[n] <= 0 THEN 100 ELSE CPUCap[n]
Clip(v, n)  == Max({0, Min({v, Capacity(n)})})

ToRawCPU(raw, n) == Clip(raw, n)
ToNormalizedCPU(raw, n) == (100 * ToRawCPU(raw, n)) \div Capacity(n)

\* Requests predicted for a node, as a fraction <<part, of>>: its share of the
\* scores, or a half when neither node has one.
Predicted(n, requests) ==
    LET total == requests[1] + requests[2]
    IN  IF Total(trained) > 0 THEN <<total * trained[n], Total(trained)>>
        ELSE <<total, 2>>

OSIdle(idle)     == IF idle <= 0 THEN 10 ELSE idle
Observed(count)  == Max({count, 1})

\* Mutant: the cost of a request is taken over all requests of the window.
SimulateByTotal(n, requests, idle) ==
    LET pred == Predicted(n, requests)
        cost == Max({0, ToRawCPU(inputs[n].raw, n) - OSIdle(idle)})
    IN  Clip(OSIdle(idle)
                + (cost * pred[1]) \div (pred[2] * (requests[1] + requests[2])), n)

\* What a node needs beyond the idle CPU, per request it was seen to serve,
\* for the requests predicted for it.
Simulate(n, requests, idle) ==
    LET pred == Predicted(n, requests)
        cost == Max({0, ToRawCPU(inputs[n].raw, n) - OSIdle(idle)})
    IN  Clip(OSIdle(idle)
                + (cost * pred[1]) \div (pred[2] * Observed(requests[n])), n)

-----------------------------------------------------------------------------
ReplayInit == Init /\ trained = <<>> /\ replay = {}

\* The metrics the balancer scores for a node are in the sample, too.
ScoreTwice ==
    /\ Score
    /\ LET n == Len(scores) + 1
           node == inputs'[n]
       IN  trained' = Append(trained,
               FuzzyScore(params, ToNormalizedCPU(node.raw, n), node.queue, node.resp))
    /\ UNCHANGED replay

\* A sample without requests is passed over.
Replay ==
    /\ Len(trained) = NumNodes /\ replay = {} /\ selected = 0
    /\ \E requests \in RequestCounts \X RequestCounts, idle \in OSIdles :
          /\ requests[1] + requests[2] > 0
          /\ replay' = {[requests |-> requests, idle |-> idle,
                         cpu |-> <<Simulate(1, requests, idle),
                                   Simulate(2, requests, idle)>>]}
    /\ UNCHANGED <<vars, trained>>

ReplayNext ==
    \/ ScoreTwice
    \/ replay = {} /\ Spin /\ UNCHANGED <<trained, replay>>
    \/ Replay

ReplaySpec == ReplayInit /\ [][ReplayNext]_replayVars

-----------------------------------------------------------------------------
(***************************************************************************)
(* Properties                                                              *)
(***************************************************************************)

\* The share of the requests the trainer predicts for a node is the part of
\* the rolls for which the balancer selects it, although the two programs have
\* an inference, a rule base and a normalisation of their own and one divides
\* where the other spins a wheel.
TrainerPredictsTheRoulette ==
    Len(scores) = NumNodes /\ selected = 0 /\ replay = {} =>
        LET all == IF Total(scores) > 0 THEN {2*k + 1 : k \in 0..(Total(scores) - 1)}
                   ELSE Nodes
        IN  \A n \in Nodes :
                LET won   == Cardinality({roll \in all : Roulette(scores, roll) = n})
                    share == Predicted(n, <<1, 0>>)
                IN  won * share[2] = share[1] * Cardinality(all)

\* What a node was seen to use, the idle CPU taken as the least.
Seen(n, idle) == Clip(Max({ToRawCPU(inputs[n].raw, n), OSIdle(idle)}), n)

\* The trainer predicts so many requests for a node, or more; or fewer.
AtLeast(n, requests, count) ==
    LET pred == Predicted(n, requests) IN pred[1] >= count * pred[2]
AtMost(n, requests, count) ==
    LET pred == Predicted(n, requests) IN pred[1] <= count * pred[2]

\* Objectives compare vectors by what they would have done to the recorded
\* window, so a replay must move the CPU the way it moves the requests.  For a
\* node that served some, more than it served never cost it less than it was
\* seen to use, fewer never more, and so as many cost exactly that.  For a node
\* that served none the code takes what it was seen to use as the cost of one
\* request: none predicted leave it the idle CPU, up to one cost no more than
\* was seen (so a part of a request may lower its CPU), from one on no less.
\* And a replay that shifts load invents none: not every node ends above what
\* it was seen to use.
ReplayFollowsTheShift ==
    \A r \in replay :
        /\ \A n \in Nodes :
              LET count == r.requests[n]
                  seen  == Seen(n, r.idle)
              IN  IF count > 0
                  THEN /\ AtLeast(n, r.requests, count) => r.cpu[n] >= seen
                       /\ AtMost(n, r.requests, count) => r.cpu[n] <= seen
                  ELSE /\ AtMost(n, r.requests, 0) => r.cpu[n] = Clip(OSIdle(r.idle), n)
                       /\ AtMost(n, r.requests, 1) => r.cpu[n] <= seen
                       /\ AtLeast(n, r.requests, 1) => r.cpu[n] >= seen
        /\ \E n \in Nodes : r.cpu[n] <= Seen(n, r.idle)

=============================================================================
