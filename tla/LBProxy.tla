------------------------------ MODULE LBProxy ------------------------------
(***************************************************************************)
(* The request path of the load balancer                                   *)
(* (load-balancer/pkg/proxy/lb_proxy.go) and the runtime state of the      *)
(* backend nodes it reads and writes (load-balancer/pkg/types/strategy.go).*)
(*                                                                         *)
(* A request is a goroutine running proxyHTTPHandler, a resetter one       *)
(* running resetTelemetryHTTPHandler.  One action is one access to state   *)
(* that another goroutine can touch at that moment; accesses that selectMu *)
(* already protects are folded into the neighbouring action.               *)
(*                                                                         *)
(* A latency is a small number of milliseconds.  The time of the last      *)
(* observation is kept as its age class, which is all decayToBaseline      *)
(* reads of it: see Ages.                                                  *)
(***************************************************************************)
EXTENDS Integers, FiniteSets

CONSTANTS
    NumNodes,      \* len(p.nodes); every entry is a usable node
    Requests,      \* goroutines running proxyHTTPHandler, one request each
    Resetters,     \* goroutines running resetTelemetryHTTPHandler
    Routable,      \* the nodes whose URL is set
    Algorithm,     \* "rr" or "fuzzy": which strategy NewLBProxy was given
    Latencies,     \* values time.Since(start).Milliseconds() may take
    DecisionCap,   \* capacity of decisionSnapshotC
    ResponseCap,   \* capacity of responseSampleC
    NoOne          \* selectMu is free

Nodes == 1..NumNodes

ASSUME NodesAssumption == NumNodes \in Nat \ {0}
ASSUME HandlersAssumption ==
    /\ IsFiniteSet(Requests)
    /\ Requests \cap Resetters = {}
    /\ NoOne \notin Requests \cup Resetters
ASSUME ParametersAssumption ==
    /\ Routable \subseteq Nodes
    /\ Algorithm \in {"rr", "fuzzy"}
    /\ Latencies \subseteq Nat
    /\ DecisionCap \in Nat
    /\ ResponseCap \in Nat

VARIABLES
    \* LBProxy
    selectMu,       \* holder of p.selectMu, or NoOne
    observedRT,     \* p.nodeTelemetry[n].observedRTMS
    rrCounter,      \* counter of the round-robin balancer in use
    decisionLen,    \* snapshots waiting in decisionSnapshotC
    responseLen,    \* samples waiting in responseSampleC
    \* BackendNode
    proxyInflight, requestCount, respMS, lastLatency,
    rtStamp,        \* age class of lastRTObservedAtNS
    \* Prometheus gauges
    inflightGauge, rtGauge,
    \* locals of whoever holds selectMu
    cursor,         \* the node its loop is at
    snapQueue,      \* Queue in observedSnapshots
    snapRT,         \* RespMS in decisionNodes
    \* locals of the handlers
    pc, chosen, next, rtMs, rpc

nodeVars    == <<proxyInflight, requestCount, respMS, lastLatency, rtStamp>>
gaugeVars   == <<inflightGauge, rtGauge>>
channelVars == <<decisionLen, responseLen>>
snapVars    == <<snapQueue, snapRT>>
localVars   == <<chosen, next, rtMs>>
vars == <<selectMu, observedRT, rrCounter, channelVars, nodeVars, gaugeVars,
          cursor, snapVars, pc, localVars, rpc>>

(***************************************************************************)
(* lastRTObservedAtNS is 0 ("never"), or at most cpuStaleAfter old         *)
(* ("fresh"), or inside the decay window ("decaying"), or past it          *)
(* ("expired").                                                            *)
(***************************************************************************)
Ages == {"never", "fresh", "decaying", "expired"}

\* decayToBaseline with baseline 0, and the IsZero return of its callers.
\* Interpolation inside the window is left open.
Decayed(value, age) ==
    CASE age \in {"never", "fresh"} -> {value}
      [] age = "decaying"           -> 0..value
      [] age = "expired"            -> {0}

\* Mutant: the length is not compared with the capacity.
OfferUnbounded(len, cap) == len + 1

\* A non-blocking send on a channel: dropped when the buffer is full.
Offer(len, cap) == IF len < cap THEN len + 1 ELSE len

RequestPCs == {"new", "waiting", "snapshot", "telemetry", "stamp", "publish",
               "select", "admit", "gaugeUp", "serving", "decrement", "clamp",
               "gaugeDown", "observe", "respMS", "stampRT", "sample",
               "gaugeRT", "done", "rejected"}
ResetPCs == {"new", "waiting", "clearMap", "runtime", "counters", "stamps",
             "gaugeRT", "gaugeInflight", "done"}

\* Where a request, or a reset, holds selectMu.
Selecting  == {"snapshot", "telemetry", "stamp", "publish", "select",
               "admit", "gaugeUp"}
Resetting  == {"clearMap", "runtime", "counters", "stamps", "gaugeRT",
               "gaugeInflight"}

Init ==
    /\ selectMu = NoOne
    /\ observedRT = [n \in Nodes |-> 0]
    /\ rrCounter = 0
    /\ decisionLen = 0 /\ responseLen = 0
    /\ proxyInflight = [n \in Nodes |-> 0]
    /\ requestCount = [n \in Nodes |-> 0]
    /\ respMS = [n \in Nodes |-> 0]
    /\ lastLatency = [n \in Nodes |-> 0]
    /\ rtStamp = [n \in Nodes |-> "never"]
    /\ inflightGauge = [n \in Nodes |-> 0]
    /\ rtGauge = [n \in Nodes |-> 0]
    /\ cursor = 1
    /\ snapQueue = [n \in Nodes |-> 0]
    /\ snapRT = [n \in Nodes |-> 0]
    /\ pc = [r \in Requests |-> "new"]
    /\ chosen = [r \in Requests |-> 0]
    /\ next = [r \in Requests |-> 0]
    /\ rtMs = [r \in Requests |-> 0]
    /\ rpc = [x \in Resetters |-> "new"]

-----------------------------------------------------------------------------
(***************************************************************************)
(* selectBackend, under selectMu                                           *)
(***************************************************************************)
Goto(r, from, to) == pc[r] = from /\ pc' = [pc EXCEPT ![r] = to]

\* One iteration of a loop over p.nodes; after the last node, go to `after`.
Visit(r, loop, after) ==
    /\ pc[r] = loop
    /\ IF cursor = NumNodes
       THEN cursor' = 1 /\ pc' = [pc EXCEPT ![r] = after]
       ELSE cursor' = cursor + 1 /\ UNCHANGED pc

Arrive(r) ==
    /\ Goto(r, "new", "waiting")
    /\ UNCHANGED <<selectMu, observedRT, rrCounter, channelVars, nodeVars,
                   gaugeVars, cursor, snapVars, localVars, rpc>>

LockSelection(r) ==
    /\ Goto(r, "waiting", "snapshot")
    /\ selectMu = NoOne
    /\ selectMu' = r
    /\ cursor' = 1
    /\ UNCHANGED <<observedRT, rrCounter, channelVars, nodeVars, gaugeVars,
                   snapVars, localVars, rpc>>

\* Mutant: the Queue field, which nothing updates, instead of ProxyInflight.
SnapshotOfQueueField(r) ==
    /\ Visit(r, "snapshot", "telemetry")
    /\ snapQueue' = [snapQueue EXCEPT ![cursor] = 0]
    /\ UNCHANGED <<selectMu, observedRT, rrCounter, channelVars, nodeVars,
                   gaugeVars, snapRT, localVars, rpc>>

\* SnapshotForDecision.  Its RespMS is replaced by the telemetry map's value
\* in decayRTForDecision, so only the queue is kept.
SnapshotForDecision(r) ==
    /\ Visit(r, "snapshot", "telemetry")
    /\ snapQueue' = [snapQueue EXCEPT ![cursor] = proxyInflight[cursor]]
    /\ UNCHANGED <<selectMu, observedRT, rrCounter, channelVars, nodeVars,
                   gaugeVars, snapRT, localVars, rpc>>

\* decayRTForDecision reads the telemetry map, then, unlocked, the stamp.
ReadTelemetry(r) ==
    /\ Goto(r, "telemetry", "stamp")
    /\ snapRT' = [snapRT EXCEPT ![cursor] = observedRT[cursor]]
    /\ UNCHANGED <<selectMu, observedRT, rrCounter, channelVars, nodeVars,
                   gaugeVars, cursor, snapQueue, localVars, rpc>>

DecayRT(r) ==
    /\ pc[r] = "stamp"
    /\ \E rt \in Decayed(snapRT[cursor], rtStamp[cursor]) :
          snapRT' = [snapRT EXCEPT ![cursor] = rt]
    /\ IF cursor = NumNodes
       THEN cursor' = 1 /\ pc' = [pc EXCEPT ![r] = "publish"]
       ELSE cursor' = cursor + 1 /\ pc' = [pc EXCEPT ![r] = "telemetry"]
    /\ UNCHANGED <<selectMu, observedRT, rrCounter, channelVars, nodeVars,
                   gaugeVars, snapQueue, localVars, rpc>>

PublishDecisionInputs(r) ==
    /\ Visit(r, "publish", "select")
    /\ rtGauge' = [rtGauge EXCEPT ![cursor] = snapRT[cursor]]
    /\ UNCHANGED <<selectMu, observedRT, rrCounter, channelVars, nodeVars,
                   inflightGauge, snapVars, localVars, rpc>>

\* Mutant: the counter is advanced twice per decision.
PickTwice(n) ==
    \/ Algorithm = "rr"    /\ n = (rrCounter % NumNodes) + 1
                           /\ rrCounter' = rrCounter + 2
    \/ Algorithm = "fuzzy" /\ UNCHANGED rrCounter

\* The strategy: round robin takes the next index; the fuzzy roulette may
\* land on any node.
Pick(n) ==
    \/ Algorithm = "rr"    /\ n = (rrCounter % NumNodes) + 1
                           /\ rrCounter' = rrCounter + 1
    \/ Algorithm = "fuzzy" /\ UNCHANGED rrCounter

\* Mutant: selectMu is released as soon as the node is selected.
SelectAndUnlock(r) ==
    /\ Goto(r, "select", "admit")
    /\ \E n \in Nodes : Pick(n) /\ chosen' = [chosen EXCEPT ![r] = n]
    /\ decisionLen' = Offer(decisionLen, DecisionCap)
    /\ selectMu' = NoOne
    /\ UNCHANGED <<observedRT, responseLen, nodeVars, gaugeVars, cursor,
                   snapVars, next, rtMs, rpc>>

\* Mutant: the send on decisionSnapshotC blocks while the channel is full.
SelectAndWait(r) ==
    /\ Goto(r, "select", "admit")
    /\ \E n \in Nodes : Pick(n) /\ chosen' = [chosen EXCEPT ![r] = n]
    /\ decisionLen < DecisionCap
    /\ decisionLen' = decisionLen + 1
    /\ UNCHANGED <<selectMu, observedRT, responseLen, nodeVars, gaugeVars,
                   cursor, snapVars, next, rtMs, rpc>>

\* SelectNode, enqueueDecisionSnapshot and nodeByName.
SelectBackend(r) ==
    /\ Goto(r, "select", "admit")
    /\ \E n \in Nodes : Pick(n) /\ chosen' = [chosen EXCEPT ![r] = n]
    /\ decisionLen' = Offer(decisionLen, DecisionCap)
    /\ UNCHANGED <<selectMu, observedRT, responseLen, nodeVars, gaugeVars,
                   cursor, snapVars, next, rtMs, rpc>>

(***************************************************************************)
(* proxyHTTPHandler around it                                              *)
(***************************************************************************)
\* The locals of the critical section go out of scope.
UnlockSelection ==
    /\ selectMu' = NoOne
    /\ snapQueue' = [n \in Nodes |-> 0]
    /\ snapRT' = [n \in Nodes |-> 0]

\* Mutant: the error path returns without the unlock.
RefuseLocked(r) ==
    /\ chosen[r] \notin Routable
    /\ Goto(r, "admit", "rejected")
    /\ UNCHANGED <<selectMu, observedRT, rrCounter, channelVars, nodeVars,
                   gaugeVars, cursor, snapVars, localVars, rpc>>

\* backendNode.URL == nil: 503, and the deferred unlock.
Refuse(r) ==
    /\ chosen[r] \notin Routable
    /\ Goto(r, "admit", "rejected")
    /\ UnlockSelection
    /\ UNCHANGED <<observedRT, rrCounter, channelVars, nodeVars, gaugeVars,
                   cursor, localVars, rpc>>

\* ProxyInflight.Add(1)
Admit(r) ==
    /\ chosen[r] \in Routable
    /\ Goto(r, "admit", "gaugeUp")
    /\ proxyInflight' = [proxyInflight EXCEPT ![chosen[r]] = @ + 1]
    /\ next' = [next EXCEPT ![r] = proxyInflight[chosen[r]] + 1]
    /\ UNCHANGED <<selectMu, observedRT, rrCounter, channelVars, requestCount,
                   respMS, lastLatency, rtStamp, gaugeVars, cursor, snapVars,
                   chosen, rtMs, rpc>>

\* The inflight gauge, RequestCount.Add(1) and the unlock; ServeHTTP follows.
Forward(r) ==
    /\ Goto(r, "gaugeUp", "serving")
    /\ inflightGauge' = [inflightGauge EXCEPT ![chosen[r]] = next[r]]
    /\ requestCount' = [requestCount EXCEPT ![chosen[r]] = @ + 1]
    /\ next' = [next EXCEPT ![r] = 0]
    /\ UnlockSelection
    /\ UNCHANGED <<observedRT, rrCounter, channelVars, proxyInflight, respMS,
                   lastLatency, rtStamp, rtGauge, cursor, chosen, rtMs, rpc>>

\* Mutant: the completion is not deferred, so a panic skips it.
ReturnOrPanic(r) ==
    /\ Goto(r, "serving", "decrement") \/ Goto(r, "serving", "done")
    /\ UNCHANGED <<selectMu, observedRT, rrCounter, channelVars, nodeVars,
                   gaugeVars, cursor, snapVars, localVars, rpc>>

\* ServeHTTP comes back: an answer, the 503 of ErrorHandler, or a panic.  The
\* deferred completion runs after each of them.
Return(r) ==
    /\ Goto(r, "serving", "decrement")
    /\ UNCHANGED <<selectMu, observedRT, rrCounter, channelVars, nodeVars,
                   gaugeVars, cursor, snapVars, localVars, rpc>>

\* Mutant: no repair of a counter that went negative.
DecrementUnclamped(r) ==
    LET v == proxyInflight[chosen[r]] - 1
    IN  /\ Goto(r, "decrement", "gaugeDown")
        /\ proxyInflight' = [proxyInflight EXCEPT ![chosen[r]] = v]
        /\ next' = [next EXCEPT ![r] = v]
        /\ UNCHANGED <<selectMu, observedRT, rrCounter, channelVars,
                       requestCount, respMS, lastLatency, rtStamp, gaugeVars,
                       cursor, snapVars, chosen, rtMs, rpc>>

\* next := ProxyInflight.Add(-1)
Decrement(r) ==
    LET n == chosen[r]
        v == proxyInflight[n] - 1
    IN  /\ pc[r] = "decrement"
        /\ pc' = [pc EXCEPT ![r] = IF v < 0 THEN "clamp" ELSE "gaugeDown"]
        /\ proxyInflight' = [proxyInflight EXCEPT ![n] = v]
        /\ next' = [next EXCEPT ![r] = IF v < 0 THEN 0 ELSE v]
        /\ UNCHANGED <<selectMu, observedRT, rrCounter, channelVars,
                       requestCount, respMS, lastLatency, rtStamp, gaugeVars,
                       cursor, snapVars, chosen, rtMs, rpc>>

\* if next < 0 { ProxyInflight.Store(0) }: a store of its own, not a
\* compare-and-swap on the value that was seen negative.
Clamp(r) ==
    /\ Goto(r, "clamp", "gaugeDown")
    /\ proxyInflight' = [proxyInflight EXCEPT ![chosen[r]] = 0]
    /\ UNCHANGED <<selectMu, observedRT, rrCounter, channelVars, requestCount,
                   respMS, lastLatency, rtStamp, gaugeVars, cursor, snapVars,
                   localVars, rpc>>

PublishCompletion(r) ==
    /\ Goto(r, "gaugeDown", "observe")
    /\ inflightGauge' = [inflightGauge EXCEPT ![chosen[r]] = next[r]]
    /\ next' = [next EXCEPT ![r] = 0]
    /\ UNCHANGED <<selectMu, observedRT, rrCounter, channelVars, nodeVars,
                   rtGauge, cursor, snapVars, chosen, rtMs, rpc>>

(***************************************************************************)
(* updateResponseRaw                                                       *)
(***************************************************************************)
ObserveRT(r) ==
    /\ Goto(r, "observe", "respMS")
    /\ \E ms \in Latencies :
          /\ rtMs' = [rtMs EXCEPT ![r] = ms]
          /\ observedRT' = [observedRT EXCEPT ![chosen[r]] = ms]
    /\ UNCHANGED <<selectMu, rrCounter, channelVars, nodeVars, gaugeVars,
                   cursor, snapVars, chosen, next, rpc>>

\* UpdateResponseMS stores the value under node.mu ...
UpdateResponseMS(r) ==
    /\ Goto(r, "respMS", "stampRT")
    /\ respMS' = [respMS EXCEPT ![chosen[r]] = rtMs[r]]
    /\ UNCHANGED <<selectMu, observedRT, rrCounter, channelVars, proxyInflight,
                   requestCount, lastLatency, rtStamp, gaugeVars, cursor,
                   snapVars, localVars, rpc>>

\* Mutant: the time of the observation is not stored.
StampNothing(r) ==
    /\ Goto(r, "stampRT", "sample")
    /\ UNCHANGED <<selectMu, observedRT, rrCounter, channelVars, nodeVars,
                   gaugeVars, cursor, snapVars, localVars, rpc>>

\* ... and its time after the unlock.
StampRT(r) ==
    /\ Goto(r, "stampRT", "sample")
    /\ rtStamp' = [rtStamp EXCEPT ![chosen[r]] = "fresh"]
    /\ UNCHANGED <<selectMu, observedRT, rrCounter, channelVars, proxyInflight,
                   requestCount, respMS, lastLatency, gaugeVars, cursor,
                   snapVars, localVars, rpc>>

\* SetLastProxyLatencyMS and enqueueResponseSample.
EmitSample(r) ==
    /\ Goto(r, "sample", "gaugeRT")
    /\ lastLatency' = [lastLatency EXCEPT ![chosen[r]] = rtMs[r]]
    /\ responseLen' = Offer(responseLen, ResponseCap)
    /\ UNCHANGED <<selectMu, observedRT, rrCounter, decisionLen, proxyInflight,
                   requestCount, respMS, rtStamp, gaugeVars, cursor, snapVars,
                   localVars, rpc>>

PublishRT(r) ==
    /\ Goto(r, "gaugeRT", "done")
    /\ rtGauge' = [rtGauge EXCEPT ![chosen[r]] = rtMs[r]]
    /\ rtMs' = [rtMs EXCEPT ![r] = 0]
    /\ UNCHANGED <<selectMu, observedRT, rrCounter, channelVars, nodeVars,
                   inflightGauge, cursor, snapVars, chosen, next, rpc>>

-----------------------------------------------------------------------------
(***************************************************************************)
(* resetTelemetryHTTPHandler (a POST), which calls ResetRuntimeState on    *)
(* each node in turn                                                       *)
(***************************************************************************)
ResetGoto(x, from, to) == rpc[x] = from /\ rpc' = [rpc EXCEPT ![x] = to]

ArriveReset(x) ==
    /\ ResetGoto(x, "new", "waiting")
    /\ UNCHANGED <<selectMu, observedRT, rrCounter, channelVars, nodeVars,
                   gaugeVars, cursor, snapVars, pc, localVars>>

LockReset(x) ==
    /\ ResetGoto(x, "waiting", "clearMap")
    /\ selectMu = NoOne
    /\ selectMu' = x
    /\ cursor' = 1
    /\ UNCHANGED <<observedRT, rrCounter, channelVars, nodeVars, gaugeVars,
                   snapVars, pc, localVars>>

ClearTelemetry(x) ==
    /\ ResetGoto(x, "clearMap", "runtime")
    /\ observedRT' = [n \in Nodes |-> 0]
    /\ UNCHANGED <<selectMu, rrCounter, channelVars, nodeVars, gaugeVars,
                   cursor, snapVars, pc, localVars>>

\* ResetRuntimeState under node.mu ...
ResetRespMS(x) ==
    /\ ResetGoto(x, "runtime", "counters")
    /\ respMS' = [respMS EXCEPT ![cursor] = 0]
    /\ UNCHANGED <<selectMu, observedRT, rrCounter, channelVars, proxyInflight,
                   requestCount, lastLatency, rtStamp, gaugeVars, cursor,
                   snapVars, pc, localVars>>

\* ... then the two counters ...
ResetCounters(x) ==
    /\ ResetGoto(x, "counters", "stamps")
    /\ requestCount' = [requestCount EXCEPT ![cursor] = 0]
    /\ proxyInflight' = [proxyInflight EXCEPT ![cursor] = 0]
    /\ UNCHANGED <<selectMu, observedRT, rrCounter, channelVars, respMS,
                   lastLatency, rtStamp, gaugeVars, cursor, snapVars, pc,
                   localVars>>

\* ... then the last latency and the stamp.
ResetStamps(x) ==
    /\ ResetGoto(x, "stamps", "gaugeRT")
    /\ lastLatency' = [lastLatency EXCEPT ![cursor] = 0]
    /\ rtStamp' = [rtStamp EXCEPT ![cursor] = "never"]
    /\ UNCHANGED <<selectMu, observedRT, rrCounter, channelVars, proxyInflight,
                   requestCount, respMS, gaugeVars, cursor, snapVars, pc,
                   localVars>>

ResetRTGauge(x) ==
    /\ ResetGoto(x, "gaugeRT", "gaugeInflight")
    /\ rtGauge' = [rtGauge EXCEPT ![cursor] = 0]
    /\ UNCHANGED <<selectMu, observedRT, rrCounter, channelVars, nodeVars,
                   inflightGauge, cursor, snapVars, pc, localVars>>

\* The last gauge of the node; after the last node, the deferred unlock.
ResetInflightGauge(x) ==
    /\ rpc[x] = "gaugeInflight"
    /\ inflightGauge' = [inflightGauge EXCEPT ![cursor] = 0]
    /\ IF cursor = NumNodes
       THEN /\ rpc' = [rpc EXCEPT ![x] = "done"]
            /\ selectMu' = NoOne
            /\ cursor' = 1
       ELSE /\ rpc' = [rpc EXCEPT ![x] = "runtime"]
            /\ cursor' = cursor + 1
            /\ UNCHANGED selectMu
    /\ UNCHANGED <<observedRT, rrCounter, channelVars, nodeVars, rtGauge,
                   snapVars, pc, localVars>>

-----------------------------------------------------------------------------
(***************************************************************************)
(* Time, and the worker at the other end of the channels                   *)
(***************************************************************************)
Older(age) == IF age = "fresh" THEN "decaying" ELSE "expired"

Age(n) ==
    /\ rtStamp[n] \in {"fresh", "decaying"}
    /\ rtStamp' = [rtStamp EXCEPT ![n] = Older(@)]
    /\ UNCHANGED <<selectMu, observedRT, rrCounter, channelVars, proxyInflight,
                   requestCount, respMS, lastLatency, gaugeVars, cursor,
                   snapVars, pc, localVars, rpc>>

WorkerReceives ==
    /\ \/ decisionLen > 0 /\ decisionLen' = decisionLen - 1
                          /\ UNCHANGED responseLen
       \/ responseLen > 0 /\ responseLen' = responseLen - 1
                          /\ UNCHANGED decisionLen
    /\ UNCHANGED <<selectMu, observedRT, rrCounter, nodeVars, gaugeVars,
                   cursor, snapVars, pc, localVars, rpc>>

-----------------------------------------------------------------------------
\* What the goroutine of r does once it runs, up to its wait for the backend
\* and after it.
HandlerStep(r) ==
    \/ LockSelection(r)
    \/ SnapshotForDecision(r)
    \/ ReadTelemetry(r)
    \/ DecayRT(r)
    \/ PublishDecisionInputs(r)
    \/ SelectBackend(r)
    \/ Refuse(r)
    \/ Admit(r)
    \/ Forward(r)
    \/ Decrement(r)
    \/ Clamp(r)
    \/ PublishCompletion(r)
    \/ ObserveRT(r)
    \/ UpdateResponseMS(r)
    \/ StampRT(r)
    \/ EmitSample(r)
    \/ PublishRT(r)

ResetStep(x) ==
    \/ LockReset(x)
    \/ ClearTelemetry(x)
    \/ ResetRespMS(x)
    \/ ResetCounters(x)
    \/ ResetStamps(x)
    \/ ResetRTGauge(x)
    \/ ResetInflightGauge(x)

\* Clients, backends, time and the worker.
Environment ==
    \/ \E r \in Requests : Arrive(r) \/ Return(r)
    \/ \E x \in Resetters : ArriveReset(x)
    \/ \E n \in Nodes : Age(n)
    \/ WorkerReceives

Next ==
    \/ \E r \in Requests : HandlerStep(r)
    \/ \E x \in Resetters : ResetStep(x)
    \/ Environment

Spec == Init /\ [][Next]_vars

\* The Go scheduler runs every runnable goroutine, and each selectMu wait is
\* served once the finitely many other holders are through.  Nothing is
\* assumed of clients, of backends (the transport sets no response timeout),
\* or of the dataset worker.
Fairness ==
    /\ \A r \in Requests : WF_vars(HandlerStep(r))
    /\ \A x \in Resetters : WF_vars(ResetStep(x))

FairSpec == Spec /\ Fairness

-----------------------------------------------------------------------------
(***************************************************************************)
(* Properties                                                              *)
(***************************************************************************)
HandlerTypes ==
    /\ pc \in [Requests -> RequestPCs]
    /\ rpc \in [Resetters -> ResetPCs]
    /\ chosen \in [Requests -> 0..NumNodes]
    /\ next \in [Requests -> Int]
    /\ rtMs \in [Requests -> Nat]

SelectionTypes ==
    /\ selectMu \in Requests \cup Resetters \cup {NoOne}
    /\ cursor \in Nodes
    /\ rrCounter \in Nat
    /\ snapQueue \in [Nodes -> Int]
    /\ snapRT \in [Nodes -> Nat]

NodeTypes ==
    /\ proxyInflight \in [Nodes -> Int]
    /\ requestCount \in [Nodes -> Nat]
    /\ observedRT \in [Nodes -> Nat]
    /\ respMS \in [Nodes -> Nat]
    /\ lastLatency \in [Nodes -> Nat]
    /\ rtStamp \in [Nodes -> Ages]
    /\ inflightGauge \in [Nodes -> Int]
    /\ rtGauge \in [Nodes -> Nat]

ChannelTypes ==
    /\ decisionLen \in 0..DecisionCap
    /\ responseLen \in 0..ResponseCap

\* Every variable keeps its type; in particular selectMu is only ever held by
\* a handler and a counter never leaves the integers.
TypeOK ==
    /\ HandlerTypes
    /\ SelectionTypes
    /\ NodeTypes
    /\ ChannelTypes

\* Requests between their Add(1) and their Add(-1) on node n.
Running == {"gaugeUp", "serving", "decrement"}
Active(n) == {r \in Requests : pc[r] \in Running /\ chosen[r] = n}

\* Requests that saw their node's counter go negative and are about to store 0.
Clamping(n) == {r \in Requests : pc[r] = "clamp" /\ chosen[r] = n}

\* No reset has taken selectMu yet.
NoResetYet == \A x \in Resetters : rpc[x] \in {"new", "waiting"}

\* As long as no telemetry reset has run, ProxyInflight of every node is
\* exactly the number of requests between their Add(1) and their Add(-1).
InflightExact ==
    NoResetYet => \A n \in Nodes : proxyInflight[n] = Cardinality(Active(n))

\* A reset zeroes ProxyInflight under requests that will still decrement it,
\* and the clamp's Store(0) may erase a concurrent Add(1); yet the counter
\* never shows more load than the node carries.
InflightNeverOverstates ==
    \A n \in Nodes : proxyInflight[n] <= Cardinality(Active(n))

\* The counter goes below zero only while as many completions are between
\* their Add(-1) and the Store(0) that repairs it; an idle node reads 0.
NegativeOnlyWhileClamping ==
    \A n \in Nodes : proxyInflight[n] >= -Cardinality(Clamping(n))

\* selectMu serialises decisions and resets: two handlers are never both
\* between its Lock and its Unlock.
OneSelectionAtATime ==
    /\ \A r \in Requests : pc[r] \in Selecting => selectMu = r
    /\ \A x \in Resetters : rpc[x] \in Resetting => selectMu = x

\* The decision of r has read the queue of node n, and has not yet counted
\* its own request.
HasRead(r, n) ==
    \/ pc[r] = "snapshot" /\ n < cursor
    \/ pc[r] \in {"telemetry", "stamp", "publish", "select", "admit"}

NonNegative(v) == IF v < 0 THEN 0 ELSE v

\* From the moment a decision has read a node's queue until it has counted
\* its own request, no load is added to that node behind its back: the value
\* it scores with is never below the counter.  This is what selectMu is for.
DecisionNeverUnderestimates ==
    \A r \in Requests, n \in Nodes :
        HasRead(r, n) => proxyInflight[n] <= NonNegative(snapQueue[n])

\* Completions of a node that have written the telemetry map but not yet the
\* time of the observation.
Unstamped(n) == {r \in Requests : pc[r] \in {"respMS", "stampRT"} /\ chosen[r] = n}

\* As long as no telemetry reset has run, a latency that decisions score with
\* also has a time to decay from, except for the two stores a completion still
\* has to make.
LatencyCanDecay ==
    NoResetYet => \A n \in Nodes :
        observedRT[n] > 0 /\ rtStamp[n] = "never" => Unstamped(n) # {}

\* Round robin with every node routable: the numbers of requests the nodes
\* were given never differ by more than one, however handlers interleave.
RotationIsFair ==
    (Algorithm = "rr" /\ Routable = Nodes /\ NoResetYet) =>
        \A m, n \in Nodes : requestCount[m] <= requestCount[n] + 1

\* A request that has arrived is forwarded or refused, even if no backend ever
\* answers and the dataset worker never reads its channels.
ArrivalsAreDispatched ==
    \A r \in Requests : pc[r] = "waiting" ~> pc[r] \in {"serving", "rejected"}

\* Whoever is to account for something does: a request whose backend call is
\* over finishes its accounting, and a reset that was asked for is carried out.
HandlersFinish ==
    /\ \A r \in Requests : pc[r] = "decrement" ~> pc[r] = "done"
    /\ \A x \in Resetters : rpc[x] = "waiting" ~> rpc[x] = "done"

\* Every handler that was started is through, or waits for its backend.
Quiet ==
    /\ \A r \in Requests : pc[r] \in {"new", "serving", "done", "rejected"}
    /\ \A x \in Resetters : rpc[x] \in {"new", "done"}

\* The Help text of fuzzy_input_inflight_queue (fuzzy_prometheus.go:30) calls
\* it the real-time queue the engine uses: once no handler has anything left
\* to store, the gauge shows the counter.
GaugeShowsInflight ==
    Quiet => \A n \in Nodes : inflightGauge[n] = proxyInflight[n]

\* TestDecayRTForDecisionDecaysStaleLatency (lb_proxy_test.go:37) has a stale
\* latency decay to 0: once no handler has anything left to store, a latency
\* decisions score with has a time it ages from.
StaleLatencyDecays ==
    Quiet => \A n \in Nodes : observedRT[n] > 0 => rtStamp[n] # "never"

Undecided == {"new", "waiting", "snapshot", "telemetry", "stamp", "publish",
              "select", "admit"}

\* The abstract dispatcher, seen through the request path: the counter floored
\* at 0 is its load, the requests between Add(1) and Add(-1) are placed, and
\* the queue values read under selectMu are its view.
Placed(r) ==
    IF pc[r] \in Running THEN chosen[r]
    ELSE IF pc[r] \in Undecided THEN 0 ELSE -1

Promise == INSTANCE Dispatcher WITH
    load  <- [n \in Nodes |-> NonNegative(proxyInflight[n])],
    place <- [r \in Requests |-> Placed(r)],
    view  <- [n \in Nodes |-> NonNegative(snapQueue[n])],
    dirty <- ~NoResetYet

\* The request path, resets included, implements the dispatcher.
ImplementsDispatcher == Promise!Spec

=============================================================================
