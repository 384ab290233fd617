----------------------------- MODULE Collector -----------------------------
(***************************************************************************)
(* How a CPU reading gets from a backend into a decision: the backend's    *)
(* sampler (api-service/main.go), the collector of the load balancer       *)
(* (load-balancer/pkg/metrics/collector.go), the CPU and its stamp in      *)
(* BackendNode (load-balancer/pkg/types/strategy.go), the decision that    *)
(* reads them (decayCPUForDecision in lb_proxy.go) and the telemetry reset *)
(* that clears them.                                                       *)
(*                                                                         *)
(* A reading is known by its age, which a tick of time increases up to     *)
(* MaxAge; every comparison the code makes is with a smaller number.  Code *)
(* that waits for nothing takes no time, but interleaves at every access   *)
(* to shared state.                                                        *)
(*                                                                         *)
(* The age is the true one.  The collector does not see it: it subtracts   *)
(* the time on the backend's clock from the time on its own, and so errs   *)
(* by as much as the two clocks differ (SampleAges).                       *)
(***************************************************************************)
EXTENDS Integers

CONSTANTS
    Nodes,
    TTL,          \* telemetryFreshnessTTL
    StaleAfter,   \* cpuStaleAfter
    DecayWindow,  \* cpuDecayWindow
    Timeout,      \* the HTTP client's
    Lead,         \* a backend's clock is ahead of the balancer's by at most this,
    Lag,          \* and behind it by at most this
    MaxAge,       \* bound: ages beyond it are not told apart
    MaxResets,    \* bound: telemetry resets
    MaxChanges,   \* bound: changes of a backend's health
    NoNode

ASSUME TimesAssumption ==
    /\ {TTL, StaleAfter, DecayWindow, Timeout, Lead, Lag, MaxAge, MaxResets,
        MaxChanges} \subseteq Nat
    /\ StaleAfter > 0 /\ DecayWindow > 0 /\ Timeout > 0
    /\ MaxAge > TTL + Lead + StaleAfter /\ MaxAge >= StaleAfter + DecayWindow
    /\ NoNode \notin Nodes

Ages  == 0..MaxAge
Never == -1     \* no reading, or a stamp of 0

VARIABLES
    \* backends
    health,     \* "ok"; "stuck": answers, but its sampler does not run; "down"
    changes,
    backend,    \* age of the sampler's latest reading
    \* BackendNode
    cpu,        \* age of the reading CPU was stored from; Never when it is 0
    stamp,      \* age of lastCPUObservedAtNS
    gauge,      \* what fuzzy_input_cpu_percent shows of CPU
    \* collector
    phase,      \* "starting": StartCollector has not returned; "serving"
    due,        \* the ticker has fired, or the retry delay is over
    pc, reply, wait,  \* the goroutine of each node
    seen,       \* its local copy of CPU in publishCPUState
    \* a decision
    looking,    \* the node whose decay it computes, or NoNode
    dcpu,       \* the CPU it read
    dpc, weight,
    \* telemetry reset
    rpc, resets

backendVars  == <<health, changes, backend>>
nodeVars     == <<cpu, stamp, gauge>>
loopVars     == <<phase, due>>
roundVars    == <<pc, reply, wait, seen>>
decisionVars == <<looking, dcpu, dpc, weight>>
resetVars    == <<rpc, resets>>
vars == <<backendVars, nodeVars, loopVars, roundVars, decisionVars, resetVars>>

Weights == {"zero", "partial", "full"}

\* decayToBaseline with baseline 0: how much of a reading is left, by its
\* stamp.  A CPU of 0 stays 0, and without a stamp nothing decays.
Weight(reading, stampAge) ==
    IF reading = Never THEN "zero"
    ELSE IF stampAge <= StaleAfter THEN "full"     \* Never included
    ELSE IF stampAge - StaleAfter < DecayWindow THEN "partial"
    ELSE "zero"

Init ==
    /\ health \in [Nodes -> {"ok", "stuck", "down"}] /\ changes = 0
    /\ backend = [n \in Nodes |-> Never]
    /\ cpu = [n \in Nodes |-> Never]
    /\ stamp = [n \in Nodes |-> Never]
    /\ gauge = [n \in Nodes |-> "zero"]
    /\ phase = "starting" /\ due = TRUE
    /\ pc = [n \in Nodes |-> "idle"]
    /\ reply = [n \in Nodes |-> Never]
    /\ wait = [n \in Nodes |-> 0]
    /\ seen = [n \in Nodes |-> Never]
    /\ looking = NoNode /\ dcpu = Never /\ dpc = "idle" /\ weight = "zero"
    /\ rpc = [n \in Nodes |-> "done"] /\ resets = 0


-----------------------------------------------------------------------------
(***************************************************************************)
(* Time and the backends                                                   *)
(***************************************************************************)
Older(age) ==
    IF age = Never THEN Never ELSE IF age = MaxAge THEN MaxAge ELSE age + 1

Waiting(n) == pc[n] \in {"asked", "replied"}

\* Mutant: a client without a timeout.
WithoutTimeout(n) == TRUE

\* The client of StartCollector gives up a call after Timeout.
WithinTimeout(n) == Waiting(n) => wait[n] < Timeout

\* Nothing is left to do but wait: for a backend within the client's timeout,
\* for the ticker, or for a sampler that has just run.
CanWait ==
    /\ \A n \in Nodes :
          /\ pc[n] \in {"idle", "asked", "replied", "done"}
          /\ WithinTimeout(n)
          /\ health[n] = "ok" => backend[n] = 0
          /\ rpc[n] = "done"
    /\ \E n \in Nodes : pc[n] # "done"
    /\ due => \E n \in Nodes : pc[n] # "idle"
    /\ dpc = "idle"

\* Mutant: the start-up loop does not come back after its delay.
TickWithoutRetry ==
    /\ CanWait
    /\ backend' = [n \in Nodes |-> Older(backend[n])]
    /\ cpu' = [n \in Nodes |-> Older(cpu[n])]
    /\ stamp' = [n \in Nodes |-> Older(stamp[n])]
    /\ reply' = [n \in Nodes |-> Older(reply[n])]
    /\ wait' = [n \in Nodes |-> IF Waiting(n) THEN wait[n] + 1 ELSE 0]
    /\ due' = (phase = "serving")
    /\ UNCHANGED <<health, changes, gauge, phase, pc, seen, decisionVars,
                   resetVars>>

\* One unit of time: the ticker fires, or the retry delay ends.  A tick that
\* finds another pending is dropped.
Tick ==
    /\ CanWait
    /\ backend' = [n \in Nodes |-> Older(backend[n])]
    /\ cpu' = [n \in Nodes |-> Older(cpu[n])]
    /\ stamp' = [n \in Nodes |-> Older(stamp[n])]
    /\ reply' = [n \in Nodes |-> Older(reply[n])]
    /\ wait' = [n \in Nodes |-> IF Waiting(n) THEN wait[n] + 1 ELSE 0]
    /\ due' = TRUE
    /\ UNCHANGED <<health, changes, gauge, phase, pc, seen, decisionVars,
                   resetVars>>

\* startCPUTelemetrySampler, whose 200 ms are less than a unit of time.
Sample(n) ==
    /\ health[n] = "ok" /\ backend[n] # 0
    /\ backend' = [backend EXCEPT ![n] = 0]
    /\ UNCHANGED <<health, changes, nodeVars, loopVars, roundVars,
                   decisionVars, resetVars>>

\* A backend or its network fails, or recovers; one that went down may have
\* lost its reading in a restart.
Change(n) ==
    /\ changes < MaxChanges /\ changes' = changes + 1
    /\ \E h \in {"ok", "stuck", "down"} \ {health[n]} :
          health' = [health EXCEPT ![n] = h]
    /\ \/ UNCHANGED backend
       \/ health[n] = "down" /\ backend' = [backend EXCEPT ![n] = Never]
    /\ UNCHANGED <<nodeVars, loopVars, roundVars, decisionVars, resetVars>>

-----------------------------------------------------------------------------
(***************************************************************************)
(* The collector: StartCollector, updateAllMetrics, collectNodeCPUMetric   *)
(***************************************************************************)
Step(n, from, to) == pc[n] = from /\ pc' = [pc EXCEPT ![n] = to]

\* updateAllMetrics starts a goroutine per node; the next round cannot start
\* before its wg.Wait is over.
StartRound ==
    /\ due
    /\ \A n \in Nodes : pc[n] = "idle"
    /\ due' = FALSE
    /\ pc' = [n \in Nodes |-> "asked"]
    /\ UNCHANGED <<backendVars, nodeVars, phase, reply, wait, seen,
                   decisionVars, resetVars>>

\* cpuTelemetryHandler of the backend; 503 as long as there is no reading.
Serve(n) ==
    /\ health[n] # "down"
    /\ Step(n, "asked", "replied")
    /\ reply' = [reply EXCEPT ![n] = backend[n]]
    /\ UNCHANGED <<backendVars, nodeVars, loopVars, wait, seen, decisionVars,
                   resetVars>>

\* Mutant: the failed call leaves the gauge as it is.
FailSilently(n) ==
    /\ health[n] = "down"
    /\ Waiting(n)
    /\ pc' = [pc EXCEPT ![n] = "done"]
    /\ reply' = [reply EXCEPT ![n] = Never]
    /\ UNCHANGED <<backendVars, nodeVars, loopVars, wait, seen, decisionVars,
                   resetVars>>

\* The call fails: refused, cut off while the body is decoded, or timed out.
Fail(n) ==
    /\ health[n] = "down"
    /\ Waiting(n)
    /\ pc' = [pc EXCEPT ![n] = "publish"]
    /\ reply' = [reply EXCEPT ![n] = Never]
    /\ UNCHANGED <<backendVars, nodeVars, loopVars, wait, seen, decisionVars,
                   resetVars>>

\* The age the collector may compute for a reading: what the backend's clock
\* is ahead is missing from it, what it is behind is added, and a reading from
\* the future counts as one of this moment.
SampleAges(age) ==
    {IF age + error < 0 THEN 0 ELSE age + error : error \in (-Lead)..Lag}

\* The answer is there: no reading in it, one that looks too old, or one to
\* store.  Each reading has an error of its own, for clocks are set meanwhile.
Receive(n) ==
    /\ pc[n] = "replied"
    /\ \E sampleAge \in SampleAges(reply[n]) :
          IF reply[n] # Never /\ sampleAge <= TTL
          THEN pc' = [pc EXCEPT ![n] = "store"] /\ UNCHANGED reply
          ELSE pc' = [pc EXCEPT ![n] = "publish"]
               /\ reply' = [reply EXCEPT ![n] = Never]
    /\ UNCHANGED <<backendVars, nodeVars, loopVars, wait, seen, decisionVars,
                   resetVars>>

\* Mutant: the time of the update is not stored.
StoreUnstamped(n) ==
    /\ Step(n, "store", "publish")
    /\ cpu' = [cpu EXCEPT ![n] = reply[n]]
    /\ UNCHANGED <<backendVars, stamp, gauge, loopVars, reply, wait, seen,
                   decisionVars, resetVars>>

\* UpdateCPU stamps the reading with the time it is stored, not with its own.
UpdateCPU(n) ==
    /\ Step(n, "store", "publish")
    /\ cpu' = [cpu EXCEPT ![n] = reply[n]]
    /\ stamp' = [stamp EXCEPT ![n] = 0]
    /\ UNCHANGED <<backendVars, gauge, loopVars, reply, wait, seen,
                   decisionVars, resetVars>>

\* publishCPUState reads the CPU under node.mu ...
ReadForGauge(n) ==
    /\ Step(n, "publish", "gauge")
    /\ seen' = [seen EXCEPT ![n] = cpu[n]]
    /\ UNCHANGED <<backendVars, nodeVars, loopVars, reply, wait, decisionVars,
                   resetVars>>

\* ... and the stamp after it, and sets the gauge.
PublishCPUState(n) ==
    /\ Step(n, "gauge", "done")
    /\ gauge' = [gauge EXCEPT ![n] = Weight(seen[n], stamp[n])]
    /\ seen' = [seen EXCEPT ![n] = Never]
    /\ UNCHANGED <<backendVars, cpu, stamp, loopVars, reply, wait,
                   decisionVars, resetVars>>

\* wg.Wait is over.  StartCollector returns, and main goes on to serve, after
\* the first round in which every node gave a reading.
EndRound ==
    /\ \A n \in Nodes : pc[n] = "done"
    /\ phase' = IF \A n \in Nodes : reply[n] # Never THEN "serving" ELSE phase
    /\ pc' = [n \in Nodes |-> "idle"]
    /\ reply' = [n \in Nodes |-> Never]
    /\ wait' = [n \in Nodes |-> 0]
    /\ UNCHANGED <<backendVars, nodeVars, due, seen, decisionVars, resetVars>>

-----------------------------------------------------------------------------
(***************************************************************************)
(* A decision, as seen from one of its nodes, and a telemetry reset,       *)
(* likewise.  selectMu keeps them apart; the collector does not take it.   *)
(***************************************************************************)
SelectionFree == dpc = "idle" /\ \A n \in Nodes : rpc[n] = "done"

\* SnapshotForDecision
DecisionReadsCPU(n) ==
    /\ phase = "serving" /\ SelectionFree
    /\ dpc' = "read" /\ looking' = n /\ dcpu' = cpu[n]
    /\ UNCHANGED <<backendVars, nodeVars, loopVars, roundVars, weight,
                   resetVars>>

\* decayCPUForDecision
DecisionDecays ==
    /\ dpc = "read"
    /\ dpc' = "weighed"
    /\ weight' = Weight(dcpu, stamp[looking])
    /\ UNCHANGED <<backendVars, nodeVars, loopVars, roundVars, looking, dcpu,
                   resetVars>>

\* publishDecisionInputs
DecisionPublishes ==
    /\ dpc = "weighed"
    /\ gauge' = [gauge EXCEPT ![looking] = weight]
    /\ dpc' = "idle" /\ looking' = NoNode /\ dcpu' = Never /\ weight' = "zero"
    /\ UNCHANGED <<backendVars, cpu, stamp, loopVars, roundVars, resetVars>>

\* Mutant: the reset does not wait for the decision under way.
ResetAnytime(n) ==
    /\ phase = "serving" /\ resets < MaxResets
    /\ resets' = resets + 1
    /\ rpc' = [rpc EXCEPT ![n] = "stamp"]
    /\ cpu' = [cpu EXCEPT ![n] = Never]
    /\ UNCHANGED <<backendVars, stamp, gauge, loopVars, roundVars,
                   decisionVars>>

\* ResetRuntimeState under node.mu ...
ResetCPU(n) ==
    /\ phase = "serving" /\ SelectionFree /\ resets < MaxResets
    /\ resets' = resets + 1
    /\ rpc' = [rpc EXCEPT ![n] = "stamp"]
    /\ cpu' = [cpu EXCEPT ![n] = Never]
    /\ UNCHANGED <<backendVars, stamp, gauge, loopVars, roundVars,
                   decisionVars>>

\* ... then the stamp ...
ResetStamp(n) ==
    /\ rpc[n] = "stamp"
    /\ rpc' = [rpc EXCEPT ![n] = "gauge"]
    /\ stamp' = [stamp EXCEPT ![n] = Never]
    /\ UNCHANGED <<backendVars, cpu, gauge, loopVars, roundVars, decisionVars,
                   resets>>

\* ... and the gauge.
ResetGauge(n) ==
    /\ rpc[n] = "gauge"
    /\ rpc' = [rpc EXCEPT ![n] = "done"]
    /\ gauge' = [gauge EXCEPT ![n] = "zero"]
    /\ UNCHANGED <<backendVars, cpu, stamp, loopVars, roundVars, decisionVars,
                   resets>>

-----------------------------------------------------------------------------
CollectStep(n) ==
    \/ Serve(n)
    \/ Fail(n)
    \/ Receive(n)
    \/ UpdateCPU(n)
    \/ ReadForGauge(n)
    \/ PublishCPUState(n)

Next ==
    \/ Tick
    \/ StartRound
    \/ EndRound
    \/ \E n \in Nodes :
          \/ Sample(n)
          \/ Change(n)
          \/ CollectStep(n)
          \/ DecisionReadsCPU(n)
          \/ ResetCPU(n)
          \/ ResetStamp(n)
          \/ ResetGauge(n)
    \/ DecisionDecays
    \/ DecisionPublishes

Spec == Init /\ [][Next]_vars

\* Time passes however many decisions come; samplers and goroutines run.  No
\* decision or reset need come, and backends change as they please.
Fairness ==
    /\ SF_vars(Tick) /\ WF_vars(StartRound) /\ WF_vars(EndRound)
    /\ WF_vars(DecisionDecays) /\ WF_vars(DecisionPublishes)
    /\ \A n \in Nodes :
          /\ WF_vars(Sample(n)) /\ WF_vars(CollectStep(n))
          /\ WF_vars(ResetStamp(n)) /\ WF_vars(ResetGauge(n))

FairSpec == Spec /\ Fairness

-----------------------------------------------------------------------------
(***************************************************************************)
(* Properties                                                              *)
(***************************************************************************)
MaybeAges == Ages \cup {Never}

\* Every variable keeps its type; ages never pass the bound and no call waits
\* longer than the client's timeout.
TypeOK ==
    /\ health \in [Nodes -> {"ok", "stuck", "down"}]
    /\ {backend, cpu, stamp, reply, seen} \subseteq [Nodes -> MaybeAges]
    /\ gauge \in [Nodes -> Weights]
    /\ phase \in {"starting", "serving"} /\ due \in BOOLEAN
    /\ pc \in [Nodes -> {"idle", "asked", "replied", "store", "publish",
                         "gauge", "done"}]
    /\ wait \in [Nodes -> 0..Timeout]
    /\ looking \in Nodes \cup {NoNode}
    /\ dcpu \in MaybeAges
    /\ dpc \in {"idle", "read", "weighed"} /\ weight \in Weights
    /\ rpc \in [Nodes -> {"stamp", "gauge", "done"}]
    /\ resets \in 0..MaxResets /\ changes \in 0..MaxChanges

\* No request is served before the CPU of every node has been observed once;
\* so without a reset no decision scores a node on the initial 0.
ServingAfterEveryNodeObserved ==
    phase = "serving" /\ resets = 0 =>
        \A n \in Nodes : cpu[n] # Never /\ stamp[n] # Never

\* UpdateCPU stamps a reading with the time of its arrival; all the same the
\* stamp vouches for it: the reading is older than its stamp by no more than
\* the TTL and what its backend's clock is ahead.
StampVouchesForReading ==
    \A n \in Nodes :
        cpu[n] # Never /\ stamp[n] # Never => cpu[n] <= stamp[n] + (TTL + Lead)

\* A decision that takes a CPU at full weight has a reading no older than the
\* TTL, StaleAfter and what its backend's clock is ahead together, or one that
\* was replaced while the decision was under way.
FullWeightIsRecent ==
    dpc = "weighed" /\ weight = "full" /\ resets = 0 =>
        dcpu <= TTL + Lead + StaleAfter \/ cpu[looking] # dcpu

\* Nothing is between two stores to a node.
Quiet == \A n \in Nodes : pc[n] \in {"idle", "asked"} /\ rpc[n] = "done"

\* TestPublishCPUStateDecaysGraduallyToBaseline (collector_test.go:88) has a
\* CPU reading decay to 0 when no other follows: whenever nothing is between
\* two stores, a reading has a time it ages from.
ReadingCanDecay ==
    Quiet => \A n \in Nodes : cpu[n] # Never => stamp[n] # Never

\* A decision has settled what counts: when it has weighed the reading, or
\* when it has found that there is none.
Settled == dpc = "weighed" \/ (dpc = "read" /\ dcpu = Never)

Promise == INSTANCE Readings WITH
    open <- phase = "serving", reading <- cpu, since <- stamp,
    consulted <- IF Settled THEN looking ELSE NoNode, chosen <- weight,
    shown <- gauge, forgotten <- resets > 0

\* The collector, the decisions and the resets keep the promise of Readings.
\* A decision reads the CPU and the stamp in two steps, with an update
\* possible between them and a reset kept out by selectMu: how much of the
\* reading it counts is all the same what counted at one moment of it.
ImplementsReadings == Promise!Spec

\* The reading of a sampler that runs, sampled up to a unit of time before the
\* call, is within the TTL after the longest call, even by a clock that is behind.
AnswersAreFresh == 1 + Timeout + Lag <= TTL

\* StartCollector retries for as long as it takes: once every backend is well
\* for good, the load balancer serves, unless a clock is so far behind that the
\* readings of a well backend are refused.
StartupCompletes ==
    AnswersAreFresh /\ (\A n \in Nodes : <>[](health[n] = "ok")) =>
        <>(phase = "serving")

\* The CPU shown for a backend that is gone for good, or answers without a new
\* reading, fades to zero, unless a reset came in between: every call that
\* brings nothing publishes the decayed value.
DeadBackendFades ==
    \A n \in Nodes :
        [](resets = 0) /\ <>[](health[n] # "ok") => <>[](gauge[n] = "zero")

\* A reset may race with UpdateCPU and leave a reading without a stamp, but
\* not for long while the backend is well: the next rounds stamp it again.
ReadingsComeBack ==
    \A n \in Nodes :
        AnswersAreFresh /\ <>[](health[n] = "ok") =>
            <>[](cpu[n] # Never /\ stamp[n] # Never)

=============================================================================
