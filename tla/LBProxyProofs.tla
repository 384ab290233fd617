--------------------------- MODULE LBProxyProofs ---------------------------
(***************************************************************************)
(* Proofs about LBProxy, for every number of nodes, requests and resets.   *)
(***************************************************************************)
EXTENDS LBProxy, FiniteSetTheorems, TLAPS

(***************************************************************************)
(* Part 1: types, and who holds selectMu                                   *)
(***************************************************************************)

\* A request past its selection has a node.
ChosenOK ==
    \A r \in Requests :
        pc[r] \notin {"new", "waiting", "snapshot", "telemetry", "stamp",
                      "publish", "select"} => chosen[r] \in Nodes

LockInv == TypeOK /\ ChosenOK /\ OneSelectionAtATime

\* The initial state has the types, and nobody in the critical section.
LEMMA LockInvInit == Init => LockInv
  BY NodesAssumption, HandlersAssumption, ParametersAssumption
  DEF Init, LockInv, TypeOK, HandlerTypes, SelectionTypes, NodeTypes,
      ChannelTypes, ChosenOK, OneSelectionAtATime, Nodes, Ages, RequestPCs,
      ResetPCs, Selecting, Resetting

\* What the selection of a request does to types and lock.
LEMMA LockInvSelecting ==
  ASSUME LockInv, NEW r \in Requests,
         \/ LockSelection(r)
         \/ SnapshotForDecision(r)
         \/ ReadTelemetry(r)
         \/ DecayRT(r)
         \/ PublishDecisionInputs(r)
         \/ SelectBackend(r)
  PROVE  LockInv'
  <1> USE NodesAssumption, HandlersAssumption, ParametersAssumption
      DEF nodeVars, gaugeVars, channelVars, snapVars, localVars, Goto, Visit,
          UnlockSelection, ResetGoto, LockInv, TypeOK
  <1>1. CASE LockSelection(r)
    <2> USE <1>1 DEF LockSelection
    <2>1. HandlerTypes'
      BY DEF HandlerTypes, RequestPCs
    <2>2. SelectionTypes'
      BY DEF SelectionTypes, Nodes
    <2>3. NodeTypes'
      BY DEF NodeTypes, HandlerTypes, SelectionTypes
    <2>4. ChannelTypes'
      BY DEF ChannelTypes
    <2>5. ChosenOK'
      BY DEF HandlerTypes, ChosenOK
    <2>6. OneSelectionAtATime'
      BY DEF HandlerTypes, OneSelectionAtATime, Selecting, Resetting
    <2>7. QED
      BY <2>1, <2>2, <2>3, <2>4, <2>5, <2>6
  <1>2. CASE SnapshotForDecision(r)
    <2> USE <1>2 DEF SnapshotForDecision
    <2>1. HandlerTypes'
      BY DEF HandlerTypes, RequestPCs
    <2>2. SelectionTypes'
      <3>1. snapQueue' \in [Nodes -> Int]
        BY DEF SelectionTypes, NodeTypes
      <3>2. cursor' \in Nodes
        BY DEF SelectionTypes, Nodes
      <3>3. QED
        BY <3>1, <3>2 DEF SelectionTypes
    <2>3. NodeTypes'
      BY DEF NodeTypes, HandlerTypes, SelectionTypes
    <2>4. ChannelTypes'
      BY DEF ChannelTypes
    <2>5. ChosenOK'
      BY DEF HandlerTypes, ChosenOK
    <2>6. OneSelectionAtATime'
      BY DEF HandlerTypes, OneSelectionAtATime, Selecting, Resetting
    <2>7. QED
      BY <2>1, <2>2, <2>3, <2>4, <2>5, <2>6
  <1>3. CASE ReadTelemetry(r)
    <2> USE <1>3 DEF ReadTelemetry
    <2>1. HandlerTypes'
      BY DEF HandlerTypes, RequestPCs
    <2>2. SelectionTypes'
      BY DEF SelectionTypes, Nodes, NodeTypes
    <2>3. NodeTypes'
      BY DEF NodeTypes, HandlerTypes, SelectionTypes
    <2>4. ChannelTypes'
      BY DEF ChannelTypes
    <2>5. ChosenOK'
      BY DEF HandlerTypes, ChosenOK
    <2>6. OneSelectionAtATime'
      BY DEF HandlerTypes, OneSelectionAtATime, Selecting, Resetting
    <2>7. QED
      BY <2>1, <2>2, <2>3, <2>4, <2>5, <2>6
  <1>4. CASE DecayRT(r)
    <2> USE <1>4 DEF DecayRT
    <2>1. HandlerTypes'
      BY DEF HandlerTypes, RequestPCs
    <2>2. SelectionTypes'
      <3>1. snapRT' \in [Nodes -> Nat]
        <4>1. /\ rtStamp[cursor] \in Ages
              /\ snapRT[cursor] \in Nat
          BY DEF SelectionTypes, NodeTypes
        <4>2. Decayed(snapRT[cursor], rtStamp[cursor]) \subseteq Nat
          BY <4>1 DEF Decayed, Ages
        <4>3. QED
          BY <4>2 DEF SelectionTypes
      <3>2. cursor' \in Nodes
        BY DEF SelectionTypes, Nodes
      <3>3. QED
        BY <3>1, <3>2 DEF SelectionTypes
    <2>3. NodeTypes'
      BY DEF NodeTypes, HandlerTypes, SelectionTypes
    <2>4. ChannelTypes'
      BY DEF ChannelTypes
    <2>5. ChosenOK'
      BY DEF HandlerTypes, ChosenOK
    <2>6. OneSelectionAtATime'
      BY DEF HandlerTypes, OneSelectionAtATime, Selecting, Resetting
    <2>7. QED
      BY <2>1, <2>2, <2>3, <2>4, <2>5, <2>6
  <1>5. CASE PublishDecisionInputs(r)
    <2> USE <1>5 DEF PublishDecisionInputs
    <2>1. HandlerTypes'
      BY DEF HandlerTypes, RequestPCs
    <2>2. SelectionTypes'
      BY DEF SelectionTypes, Nodes
    <2>3. NodeTypes'
      BY DEF NodeTypes, HandlerTypes, SelectionTypes
    <2>4. ChannelTypes'
      BY DEF ChannelTypes
    <2>5. ChosenOK'
      BY DEF HandlerTypes, ChosenOK
    <2>6. OneSelectionAtATime'
      BY DEF HandlerTypes, OneSelectionAtATime, Selecting, Resetting
    <2>7. QED
      BY <2>1, <2>2, <2>3, <2>4, <2>5, <2>6
  <1>6. CASE SelectBackend(r)
    <2> USE <1>6 DEF SelectBackend, Pick, Offer
    <2>1. HandlerTypes'
      BY DEF HandlerTypes, Nodes, RequestPCs
    <2>2. SelectionTypes'
      BY DEF SelectionTypes, Nodes
    <2>3. NodeTypes'
      BY DEF NodeTypes, HandlerTypes, SelectionTypes
    <2>4. ChannelTypes'
      BY DEF ChannelTypes
    <2>5. ChosenOK'
      BY DEF HandlerTypes, ChosenOK
    <2>6. OneSelectionAtATime'
      BY DEF HandlerTypes, OneSelectionAtATime, Selecting, Resetting
    <2>7. QED
      BY <2>1, <2>2, <2>3, <2>4, <2>5, <2>6
  <1>7. QED
    BY <1>1, <1>2, <1>3, <1>4, <1>5, <1>6

\* What the rest of proxyHTTPHandler does to them.
LEMMA LockInvServing ==
  ASSUME LockInv, NEW r \in Requests,
         \/ Refuse(r)
         \/ Admit(r)
         \/ Forward(r)
         \/ Decrement(r)
         \/ Clamp(r)
         \/ PublishCompletion(r)
  PROVE  LockInv'
  <1> USE NodesAssumption, HandlersAssumption, ParametersAssumption
      DEF nodeVars, gaugeVars, channelVars, snapVars, localVars, Goto, Visit,
          UnlockSelection, ResetGoto, LockInv, TypeOK
  <1>1. CASE Refuse(r)
    <2> USE <1>1 DEF Refuse
    <2>1. HandlerTypes'
      BY DEF HandlerTypes, RequestPCs
    <2>2. SelectionTypes'
      BY DEF SelectionTypes, Nodes
    <2>3. NodeTypes'
      BY DEF NodeTypes, HandlerTypes, SelectionTypes
    <2>4. ChannelTypes'
      BY DEF ChannelTypes
    <2>5. ChosenOK'
      BY DEF HandlerTypes, ChosenOK
    <2>6. OneSelectionAtATime'
      BY DEF HandlerTypes, OneSelectionAtATime, Selecting, Resetting
    <2>7. QED
      BY <2>1, <2>2, <2>3, <2>4, <2>5, <2>6
  <1>2. CASE Admit(r)
    <2> USE <1>2 DEF Admit
    <2>1. HandlerTypes'
      <3>1. proxyInflight[chosen[r]] \in Int
        BY DEF ChosenOK, NodeTypes
      <3>2. QED
        BY <3>1 DEF HandlerTypes, RequestPCs
    <2>2. SelectionTypes'
      BY DEF SelectionTypes, Nodes
    <2>3. NodeTypes'
      <3>1. proxyInflight' \in [Nodes -> Int]
        BY DEF ChosenOK, NodeTypes
      <3>2. QED
        BY <3>1 DEF NodeTypes
    <2>4. ChannelTypes'
      BY DEF ChannelTypes
    <2>5. ChosenOK'
      BY DEF HandlerTypes, ChosenOK
    <2>6. OneSelectionAtATime'
      BY DEF HandlerTypes, OneSelectionAtATime, Selecting, Resetting
    <2>7. QED
      BY <2>1, <2>2, <2>3, <2>4, <2>5, <2>6
  <1>3. CASE Forward(r)
    <2> USE <1>3 DEF Forward
    <2>1. HandlerTypes'
      BY DEF HandlerTypes, RequestPCs
    <2>2. SelectionTypes'
      BY DEF SelectionTypes, Nodes
    <2>3. NodeTypes'
      <3>1. inflightGauge' \in [Nodes -> Int]
        BY DEF NodeTypes, HandlerTypes
      <3>2. requestCount' \in [Nodes -> Nat]
        BY DEF ChosenOK, NodeTypes
      <3>3. QED
        BY <3>1, <3>2 DEF NodeTypes
    <2>4. ChannelTypes'
      BY DEF ChannelTypes
    <2>5. ChosenOK'
      BY DEF HandlerTypes, ChosenOK
    <2>6. OneSelectionAtATime'
      BY DEF HandlerTypes, OneSelectionAtATime, Selecting, Resetting
    <2>7. QED
      BY <2>1, <2>2, <2>3, <2>4, <2>5, <2>6
  <1>4. CASE Decrement(r)
    <2> USE <1>4 DEF Decrement
    <2>1. HandlerTypes'
      <3>1. proxyInflight[chosen[r]] \in Int
        BY DEF ChosenOK, NodeTypes
      <3>2. QED
        BY <3>1 DEF HandlerTypes, RequestPCs
    <2>2. SelectionTypes'
      BY DEF SelectionTypes, Nodes
    <2>3. NodeTypes'
      <3>1. proxyInflight' \in [Nodes -> Int]
        BY DEF ChosenOK, NodeTypes
      <3>2. QED
        BY <3>1 DEF NodeTypes
    <2>4. ChannelTypes'
      BY DEF ChannelTypes
    <2>5. ChosenOK'
      BY DEF HandlerTypes, ChosenOK
    <2>6. OneSelectionAtATime'
      BY DEF HandlerTypes, OneSelectionAtATime, Selecting, Resetting
    <2>7. QED
      BY <2>1, <2>2, <2>3, <2>4, <2>5, <2>6
  <1>5. CASE Clamp(r)
    <2> USE <1>5 DEF Clamp
    <2>1. HandlerTypes'
      BY DEF HandlerTypes, RequestPCs
    <2>2. SelectionTypes'
      BY DEF SelectionTypes, Nodes
    <2>3. NodeTypes'
      <3>1. proxyInflight' \in [Nodes -> Int]
        BY DEF ChosenOK, NodeTypes
      <3>2. QED
        BY <3>1 DEF NodeTypes
    <2>4. ChannelTypes'
      BY DEF ChannelTypes
    <2>5. ChosenOK'
      BY DEF HandlerTypes, ChosenOK
    <2>6. OneSelectionAtATime'
      BY DEF HandlerTypes, OneSelectionAtATime, Selecting, Resetting
    <2>7. QED
      BY <2>1, <2>2, <2>3, <2>4, <2>5, <2>6
  <1>6. CASE PublishCompletion(r)
    <2> USE <1>6 DEF PublishCompletion
    <2>1. HandlerTypes'
      BY DEF HandlerTypes, RequestPCs
    <2>2. SelectionTypes'
      BY DEF SelectionTypes, Nodes
    <2>3. NodeTypes'
      BY DEF NodeTypes, HandlerTypes, SelectionTypes
    <2>4. ChannelTypes'
      BY DEF ChannelTypes
    <2>5. ChosenOK'
      BY DEF HandlerTypes, ChosenOK
    <2>6. OneSelectionAtATime'
      BY DEF HandlerTypes, OneSelectionAtATime, Selecting, Resetting
    <2>7. QED
      BY <2>1, <2>2, <2>3, <2>4, <2>5, <2>6
  <1>7. QED
    BY <1>1, <1>2, <1>3, <1>4, <1>5, <1>6

\* What updateResponseRaw does to them.
LEMMA LockInvObserving ==
  ASSUME LockInv, NEW r \in Requests,
         \/ ObserveRT(r)
         \/ UpdateResponseMS(r)
         \/ StampRT(r)
         \/ EmitSample(r)
         \/ PublishRT(r)
  PROVE  LockInv'
  <1> USE NodesAssumption, HandlersAssumption, ParametersAssumption
      DEF nodeVars, gaugeVars, channelVars, snapVars, localVars, Goto, Visit,
          UnlockSelection, ResetGoto, LockInv, TypeOK
  <1>1. CASE ObserveRT(r)
    <2> USE <1>1 DEF ObserveRT
    <2>1. HandlerTypes'
      BY DEF HandlerTypes, RequestPCs
    <2>2. SelectionTypes'
      BY DEF SelectionTypes, Nodes
    <2>3. NodeTypes'
      BY DEF NodeTypes, HandlerTypes, SelectionTypes
    <2>4. ChannelTypes'
      BY DEF ChannelTypes
    <2>5. ChosenOK'
      BY DEF HandlerTypes, ChosenOK
    <2>6. OneSelectionAtATime'
      BY DEF HandlerTypes, OneSelectionAtATime, Selecting, Resetting
    <2>7. QED
      BY <2>1, <2>2, <2>3, <2>4, <2>5, <2>6
  <1>2. CASE UpdateResponseMS(r)
    <2> USE <1>2 DEF UpdateResponseMS
    <2>1. HandlerTypes'
      BY DEF HandlerTypes, RequestPCs
    <2>2. SelectionTypes'
      BY DEF SelectionTypes, Nodes
    <2>3. NodeTypes'
      BY DEF NodeTypes, HandlerTypes, SelectionTypes
    <2>4. ChannelTypes'
      BY DEF ChannelTypes
    <2>5. ChosenOK'
      BY DEF HandlerTypes, ChosenOK
    <2>6. OneSelectionAtATime'
      BY DEF HandlerTypes, OneSelectionAtATime, Selecting, Resetting
    <2>7. QED
      BY <2>1, <2>2, <2>3, <2>4, <2>5, <2>6
  <1>3. CASE StampRT(r)
    <2> USE <1>3 DEF StampRT
    <2>1. HandlerTypes'
      BY DEF HandlerTypes, RequestPCs
    <2>2. SelectionTypes'
      BY DEF SelectionTypes, Nodes
    <2>3. NodeTypes'
      BY DEF NodeTypes, Ages, HandlerTypes, SelectionTypes
    <2>4. ChannelTypes'
      BY DEF ChannelTypes
    <2>5. ChosenOK'
      BY DEF HandlerTypes, ChosenOK
    <2>6. OneSelectionAtATime'
      BY DEF HandlerTypes, OneSelectionAtATime, Selecting, Resetting
    <2>7. QED
      BY <2>1, <2>2, <2>3, <2>4, <2>5, <2>6
  <1>4. CASE EmitSample(r)
    <2> USE <1>4 DEF EmitSample, Offer
    <2>1. HandlerTypes'
      BY DEF HandlerTypes, RequestPCs
    <2>2. SelectionTypes'
      BY DEF SelectionTypes, Nodes
    <2>3. NodeTypes'
      BY DEF NodeTypes, HandlerTypes, SelectionTypes
    <2>4. ChannelTypes'
      BY DEF ChannelTypes
    <2>5. ChosenOK'
      BY DEF HandlerTypes, ChosenOK
    <2>6. OneSelectionAtATime'
      BY DEF HandlerTypes, OneSelectionAtATime, Selecting, Resetting
    <2>7. QED
      BY <2>1, <2>2, <2>3, <2>4, <2>5, <2>6
  <1>5. CASE PublishRT(r)
    <2> USE <1>5 DEF PublishRT
    <2>1. HandlerTypes'
      BY DEF HandlerTypes, RequestPCs
    <2>2. SelectionTypes'
      BY DEF SelectionTypes, Nodes
    <2>3. NodeTypes'
      BY DEF NodeTypes, HandlerTypes, SelectionTypes
    <2>4. ChannelTypes'
      BY DEF ChannelTypes
    <2>5. ChosenOK'
      BY DEF HandlerTypes, ChosenOK
    <2>6. OneSelectionAtATime'
      BY DEF HandlerTypes, OneSelectionAtATime, Selecting, Resetting
    <2>7. QED
      BY <2>1, <2>2, <2>3, <2>4, <2>5, <2>6
  <1>6. QED
    BY <1>1, <1>2, <1>3, <1>4, <1>5

\* What a reset does to them.
LEMMA LockInvResetting ==
  ASSUME LockInv, NEW x \in Resetters,
         \/ LockReset(x)
         \/ ClearTelemetry(x)
         \/ ResetRespMS(x)
         \/ ResetCounters(x)
         \/ ResetStamps(x)
         \/ ResetRTGauge(x)
         \/ ResetInflightGauge(x)
  PROVE  LockInv'
  <1> USE NodesAssumption, HandlersAssumption, ParametersAssumption
      DEF nodeVars, gaugeVars, channelVars, snapVars, localVars, Goto, Visit,
          UnlockSelection, ResetGoto, LockInv, TypeOK
  <1>1. CASE LockReset(x)
    <2> USE <1>1 DEF LockReset
    <2>1. HandlerTypes'
      BY DEF HandlerTypes, ResetPCs
    <2>2. SelectionTypes'
      BY DEF SelectionTypes, Nodes
    <2>3. NodeTypes'
      BY DEF NodeTypes, SelectionTypes
    <2>4. ChannelTypes'
      BY DEF ChannelTypes
    <2>5. ChosenOK'
      BY DEF HandlerTypes, ChosenOK
    <2>6. OneSelectionAtATime'
      BY DEF HandlerTypes, OneSelectionAtATime, Selecting, Resetting
    <2>7. QED
      BY <2>1, <2>2, <2>3, <2>4, <2>5, <2>6
  <1>2. CASE ClearTelemetry(x)
    <2> USE <1>2 DEF ClearTelemetry
    <2>1. HandlerTypes'
      BY DEF HandlerTypes, ResetPCs
    <2>2. SelectionTypes'
      BY DEF SelectionTypes, Nodes
    <2>3. NodeTypes'
      BY DEF NodeTypes, SelectionTypes
    <2>4. ChannelTypes'
      BY DEF ChannelTypes
    <2>5. ChosenOK'
      BY DEF HandlerTypes, ChosenOK
    <2>6. OneSelectionAtATime'
      BY DEF HandlerTypes, OneSelectionAtATime, Selecting, Resetting
    <2>7. QED
      BY <2>1, <2>2, <2>3, <2>4, <2>5, <2>6
  <1>3. CASE ResetRespMS(x)
    <2> USE <1>3 DEF ResetRespMS
    <2>1. HandlerTypes'
      BY DEF HandlerTypes, ResetPCs
    <2>2. SelectionTypes'
      BY DEF SelectionTypes, Nodes
    <2>3. NodeTypes'
      BY DEF NodeTypes, SelectionTypes
    <2>4. ChannelTypes'
      BY DEF ChannelTypes
    <2>5. ChosenOK'
      BY DEF HandlerTypes, ChosenOK
    <2>6. OneSelectionAtATime'
      BY DEF HandlerTypes, OneSelectionAtATime, Selecting, Resetting
    <2>7. QED
      BY <2>1, <2>2, <2>3, <2>4, <2>5, <2>6
  <1>4. CASE ResetCounters(x)
    <2> USE <1>4 DEF ResetCounters
    <2>1. HandlerTypes'
      BY DEF HandlerTypes, ResetPCs
    <2>2. SelectionTypes'
      BY DEF SelectionTypes, Nodes
    <2>3. NodeTypes'
      <3>1. /\ requestCount' \in [Nodes -> Nat]
            /\ proxyInflight' \in [Nodes -> Int]
        BY DEF NodeTypes, SelectionTypes
      <3>2. QED
        BY <3>1 DEF NodeTypes
    <2>4. ChannelTypes'
      BY DEF ChannelTypes
    <2>5. ChosenOK'
      BY DEF HandlerTypes, ChosenOK
    <2>6. OneSelectionAtATime'
      BY DEF HandlerTypes, OneSelectionAtATime, Selecting, Resetting
    <2>7. QED
      BY <2>1, <2>2, <2>3, <2>4, <2>5, <2>6
  <1>5. CASE ResetStamps(x)
    <2> USE <1>5 DEF ResetStamps
    <2>1. HandlerTypes'
      BY DEF HandlerTypes, ResetPCs
    <2>2. SelectionTypes'
      BY DEF SelectionTypes, Nodes
    <2>3. NodeTypes'
      BY DEF NodeTypes, Ages, SelectionTypes
    <2>4. ChannelTypes'
      BY DEF ChannelTypes
    <2>5. ChosenOK'
      BY DEF HandlerTypes, ChosenOK
    <2>6. OneSelectionAtATime'
      BY DEF HandlerTypes, OneSelectionAtATime, Selecting, Resetting
    <2>7. QED
      BY <2>1, <2>2, <2>3, <2>4, <2>5, <2>6
  <1>6. CASE ResetRTGauge(x)
    <2> USE <1>6 DEF ResetRTGauge
    <2>1. HandlerTypes'
      BY DEF HandlerTypes, ResetPCs
    <2>2. SelectionTypes'
      BY DEF SelectionTypes, Nodes
    <2>3. NodeTypes'
      BY DEF NodeTypes, SelectionTypes
    <2>4. ChannelTypes'
      BY DEF ChannelTypes
    <2>5. ChosenOK'
      BY DEF HandlerTypes, ChosenOK
    <2>6. OneSelectionAtATime'
      BY DEF HandlerTypes, OneSelectionAtATime, Selecting, Resetting
    <2>7. QED
      BY <2>1, <2>2, <2>3, <2>4, <2>5, <2>6
  <1>7. CASE ResetInflightGauge(x)
    <2> USE <1>7 DEF ResetInflightGauge
    <2>1. HandlerTypes'
      BY DEF HandlerTypes, ResetPCs
    <2>2. SelectionTypes'
      BY DEF SelectionTypes, Nodes
    <2>3. NodeTypes'
      <3>1. inflightGauge' \in [Nodes -> Int]
        BY DEF NodeTypes, SelectionTypes
      <3>2. QED
        BY <3>1 DEF NodeTypes
    <2>4. ChannelTypes'
      BY DEF ChannelTypes
    <2>5. ChosenOK'
      BY DEF HandlerTypes, ChosenOK
    <2>6. OneSelectionAtATime'
      BY DEF HandlerTypes, OneSelectionAtATime, Selecting, Resetting
    <2>7. QED
      BY <2>1, <2>2, <2>3, <2>4, <2>5, <2>6
  <1>8. QED
    BY <1>1, <1>2, <1>3, <1>4, <1>5, <1>6, <1>7

\* What the clients, backends, time and the worker do to them.
LEMMA LockInvEnvironment ==
  ASSUME LockInv, Environment
  PROVE  LockInv'
  <1> USE NodesAssumption, HandlersAssumption, ParametersAssumption
      DEF nodeVars, gaugeVars, channelVars, snapVars, localVars, Goto, Visit,
          UnlockSelection, ResetGoto, LockInv, TypeOK
  <1>1. ASSUME NEW r \in Requests, Arrive(r) PROVE LockInv'
    <2> USE <1>1 DEF Arrive
    <2>1. HandlerTypes'
      BY DEF HandlerTypes, RequestPCs
    <2>2. SelectionTypes'
      BY DEF SelectionTypes, Nodes
    <2>3. NodeTypes'
      BY DEF NodeTypes, SelectionTypes
    <2>4. ChannelTypes'
      BY DEF ChannelTypes
    <2>5. ChosenOK'
      BY DEF HandlerTypes, ChosenOK
    <2>6. OneSelectionAtATime'
      BY DEF HandlerTypes, OneSelectionAtATime, Selecting, Resetting
    <2>7. QED
      BY <2>1, <2>2, <2>3, <2>4, <2>5, <2>6
  <1>2. ASSUME NEW r \in Requests, Return(r) PROVE LockInv'
    <2> USE <1>2 DEF Return
    <2>1. HandlerTypes'
      BY DEF HandlerTypes, RequestPCs
    <2>2. SelectionTypes'
      BY DEF SelectionTypes, Nodes
    <2>3. NodeTypes'
      BY DEF NodeTypes, SelectionTypes
    <2>4. ChannelTypes'
      BY DEF ChannelTypes
    <2>5. ChosenOK'
      BY DEF HandlerTypes, ChosenOK
    <2>6. OneSelectionAtATime'
      BY DEF HandlerTypes, OneSelectionAtATime, Selecting, Resetting
    <2>7. QED
      BY <2>1, <2>2, <2>3, <2>4, <2>5, <2>6
  <1>3. ASSUME NEW x \in Resetters, ArriveReset(x) PROVE LockInv'
    <2> USE <1>3 DEF ArriveReset
    <2>1. HandlerTypes'
      BY DEF HandlerTypes, ResetPCs
    <2>2. SelectionTypes'
      BY DEF SelectionTypes, Nodes
    <2>3. NodeTypes'
      BY DEF NodeTypes, SelectionTypes
    <2>4. ChannelTypes'
      BY DEF ChannelTypes
    <2>5. ChosenOK'
      BY DEF HandlerTypes, ChosenOK
    <2>6. OneSelectionAtATime'
      BY DEF HandlerTypes, OneSelectionAtATime, Selecting, Resetting
    <2>7. QED
      BY <2>1, <2>2, <2>3, <2>4, <2>5, <2>6
  <1>4. ASSUME NEW n \in Nodes, Age(n) PROVE LockInv'
    <2> USE <1>4 DEF Age, Older
    <2>1. HandlerTypes'
      BY DEF HandlerTypes, RequestPCs
    <2>2. SelectionTypes'
      BY DEF SelectionTypes, Nodes
    <2>3. NodeTypes'
      BY DEF NodeTypes, Ages, SelectionTypes
    <2>4. ChannelTypes'
      BY DEF ChannelTypes
    <2>5. ChosenOK'
      BY DEF HandlerTypes, ChosenOK
    <2>6. OneSelectionAtATime'
      BY DEF HandlerTypes, OneSelectionAtATime, Selecting, Resetting
    <2>7. QED
      BY <2>1, <2>2, <2>3, <2>4, <2>5, <2>6
  <1>5. CASE WorkerReceives
    <2> USE <1>5 DEF WorkerReceives
    <2>1. HandlerTypes'
      BY DEF HandlerTypes, RequestPCs
    <2>2. SelectionTypes'
      BY DEF SelectionTypes, Nodes
    <2>3. NodeTypes'
      BY DEF NodeTypes, SelectionTypes
    <2>4. ChannelTypes'
      BY DEF ChannelTypes
    <2>5. ChosenOK'
      BY DEF HandlerTypes, ChosenOK
    <2>6. OneSelectionAtATime'
      BY DEF HandlerTypes, OneSelectionAtATime, Selecting, Resetting
    <2>7. QED
      BY <2>1, <2>2, <2>3, <2>4, <2>5, <2>6
  <1>6. QED
    BY <1>1, <1>2, <1>3, <1>4, <1>5 DEF Environment

\* Every step keeps the types and the lock discipline.
LEMMA LockInvNext == LockInv /\ [Next]_vars => LockInv'
  <1> SUFFICES ASSUME LockInv, [Next]_vars PROVE LockInv'
    OBVIOUS
  <1>1. ASSUME NEW r \in Requests, HandlerStep(r) PROVE LockInv'
    BY <1>1, LockInvSelecting, LockInvServing, LockInvObserving DEF HandlerStep
  <1>2. ASSUME NEW x \in Resetters, ResetStep(x) PROVE LockInv'
    BY <1>2, LockInvResetting DEF ResetStep
  <1>3. CASE Environment
    BY <1>3, LockInvEnvironment
  <1>4. CASE UNCHANGED vars
    BY <1>4 DEF LockInv, TypeOK, HandlerTypes, SelectionTypes, NodeTypes,
                ChannelTypes, ChosenOK, OneSelectionAtATime, vars, nodeVars,
                gaugeVars, channelVars, snapVars, localVars
  <1>5. QED
    BY <1>1, <1>2, <1>3, <1>4 DEF Next

(***************************************************************************)
(* Part 2: the inflight counters                                           *)
(***************************************************************************)
\* An exact counter is never decremented below 0.
ClampsOnlyAfterReset == NoResetYet => \A n \in Nodes : Clamping(n) = {}

CountInv ==
    /\ InflightExact
    /\ ClampsOnlyAfterReset
    /\ InflightNeverOverstates
    /\ NegativeOnlyWhileClamping

\* The sets the counters are compared with are finite.
LEMMA CountedSetsFinite ==
  ASSUME NEW n \in Nodes
  PROVE  /\ IsFiniteSet(Active(n)) /\ Cardinality(Active(n)) \in Nat
         /\ IsFiniteSet(Clamping(n)) /\ Cardinality(Clamping(n)) \in Nat
  BY HandlersAssumption, FS_Subset, FS_CardinalityType DEF Active, Clamping

\* A step that leaves the counters and both sets of requests alone.
CountSilent ==
    /\ UNCHANGED proxyInflight
    /\ NoResetYet' => NoResetYet
    /\ \A n \in Nodes : Active(n)' = Active(n) /\ Clamping(n)' = Clamping(n)

\* What moves no counter and no request in or out keeps CountInv.
LEMMA CountSilentKeeps ==
  ASSUME CountInv, CountSilent
  PROVE  CountInv'
  BY DEF CountInv, CountSilent, InflightExact, ClampsOnlyAfterReset,
         InflightNeverOverstates, NegativeOnlyWhileClamping

\* No step of a selection is an increment or a decrement.
LEMMA SilentSelection ==
  ASSUME LockInv, NEW r \in Requests,
         \/ LockSelection(r)
         \/ SnapshotForDecision(r)
         \/ ReadTelemetry(r)
         \/ DecayRT(r)
         \/ PublishDecisionInputs(r)
         \/ SelectBackend(r)
         \/ Refuse(r)
  PROVE  CountSilent
  <1> USE DEF LockInv, TypeOK, HandlerTypes, nodeVars, localVars,
          CountSilent, NoResetYet, Active, Clamping, Running, Goto, Visit
  <1>1. CASE LockSelection(r)
    BY <1>1 DEF LockSelection
  <1>2. CASE SnapshotForDecision(r)
    BY <1>2 DEF SnapshotForDecision
  <1>3. CASE ReadTelemetry(r)
    BY <1>3 DEF ReadTelemetry
  <1>4. CASE DecayRT(r)
    BY <1>4 DEF DecayRT
  <1>5. CASE PublishDecisionInputs(r)
    BY <1>5 DEF PublishDecisionInputs
  <1>6. CASE SelectBackend(r)
    BY <1>6 DEF SelectBackend
  <1>7. CASE Refuse(r)
    BY <1>7 DEF Refuse
  <1>8. QED
    BY <1>1, <1>2, <1>3, <1>4, <1>5, <1>6, <1>7

\* Neither is publishing, serving or observing.
LEMMA SilentRequest ==
  ASSUME LockInv, NEW r \in Requests,
         \/ Forward(r)
         \/ PublishCompletion(r)
         \/ ObserveRT(r)
         \/ UpdateResponseMS(r)
         \/ StampRT(r)
         \/ EmitSample(r)
         \/ PublishRT(r)
         \/ Arrive(r)
         \/ Return(r)
  PROVE  CountSilent
  <1> USE DEF LockInv, TypeOK, HandlerTypes, nodeVars, localVars,
          CountSilent, NoResetYet, Active, Clamping, Running, Goto, Visit
  <1>1. CASE Forward(r)
    BY <1>1 DEF Forward
  <1>2. CASE PublishCompletion(r)
    BY <1>2 DEF PublishCompletion
  <1>3. CASE ObserveRT(r)
    BY <1>3 DEF ObserveRT
  <1>4. CASE UpdateResponseMS(r)
    BY <1>4 DEF UpdateResponseMS
  <1>5. CASE StampRT(r)
    BY <1>5 DEF StampRT
  <1>6. CASE EmitSample(r)
    BY <1>6 DEF EmitSample
  <1>7. CASE PublishRT(r)
    BY <1>7 DEF PublishRT
  <1>8. CASE Arrive(r)
    BY <1>8 DEF Arrive
  <1>9. CASE Return(r)
    BY <1>9 DEF Return
  <1>10. QED
    BY <1>1, <1>2, <1>3, <1>4, <1>5, <1>6, <1>7, <1>8, <1>9

\* Nor a step of a reset, except the one on the counters.
LEMMA SilentReset ==
  ASSUME LockInv, NEW x \in Resetters,
         \/ ArriveReset(x)
         \/ LockReset(x)
         \/ ClearTelemetry(x)
         \/ ResetRespMS(x)
         \/ ResetStamps(x)
         \/ ResetRTGauge(x)
         \/ ResetInflightGauge(x)
  PROVE  CountSilent
  <1> USE DEF LockInv, TypeOK, HandlerTypes, nodeVars, localVars,
          CountSilent, NoResetYet, Active, Clamping, Running, ResetGoto
  <1>1. CASE ArriveReset(x)
    BY <1>1 DEF ArriveReset
  <1>2. CASE LockReset(x)
    BY <1>2 DEF LockReset
  <1>3. CASE ClearTelemetry(x)
    BY <1>3 DEF ClearTelemetry
  <1>4. CASE ResetRespMS(x)
    BY <1>4 DEF ResetRespMS
  <1>5. CASE ResetStamps(x)
    BY <1>5 DEF ResetStamps
  <1>6. CASE ResetRTGauge(x)
    BY <1>6 DEF ResetRTGauge
  <1>7. CASE ResetInflightGauge(x)
    BY <1>7 DEF ResetInflightGauge
  <1>8. QED
    BY <1>1, <1>2, <1>3, <1>4, <1>5, <1>6, <1>7

\* Time, the worker and a stutter do neither.
LEMMA SilentElse ==
  ASSUME (\E n \in Nodes : Age(n)) \/ WorkerReceives \/ UNCHANGED vars
  PROVE  CountSilent
  BY DEF Age, WorkerReceives, vars, nodeVars, localVars, CountSilent,
         NoResetYet, Active, Clamping, Running

\* Add(1): the request becomes active on its node and the counter grows with it.
LEMMA CountAdmit ==
  ASSUME LockInv, CountInv, NEW r \in Requests, Admit(r)
  PROVE  CountInv'
  <1>0. PICK k \in Nodes : k = chosen[r]
    BY DEF Admit, Goto, LockInv, ChosenOK
  <1>1. r \notin Active(k)
    BY <1>0 DEF Admit, Goto, LockInv, ChosenOK, Active, Running
  <1>2. /\ Active(k)' = Active(k) \cup {r}
        /\ \A n \in Nodes \ {k} : Active(n)' = Active(n)
        /\ \A n \in Nodes : Clamping(n)' = Clamping(n)
        /\ NoResetYet' => NoResetYet
    BY <1>0 DEF Admit, Goto, LockInv, TypeOK, HandlerTypes, Active, Clamping,
           Running, NoResetYet
  <1>3. Cardinality(Active(k))' = Cardinality(Active(k)) + 1
    BY <1>1, <1>2, CountedSetsFinite, FS_AddElement
  <1>4. /\ proxyInflight'[k] = proxyInflight[k] + 1
        /\ \A n \in Nodes \ {k} : proxyInflight'[n] = proxyInflight[n]
        /\ \A n \in Nodes : proxyInflight[n] \in Int
    BY <1>0 DEF Admit, LockInv, TypeOK, NodeTypes
  <1>5. InflightNeverOverstates' /\ NegativeOnlyWhileClamping'
    BY <1>1, <1>2, <1>3, <1>4, CountedSetsFinite
    DEF CountInv, InflightNeverOverstates, NegativeOnlyWhileClamping
  <1>6. InflightExact' /\ ClampsOnlyAfterReset'
    BY <1>1, <1>2, <1>3, <1>4, CountedSetsFinite
    DEF CountInv, InflightExact, ClampsOnlyAfterReset
  <1>7. QED
    BY <1>5, <1>6 DEF CountInv

\* Add(-1): the request stops being active, and is about to store 0 if it has
\* made the counter negative.
LEMMA CountDecrement ==
  ASSUME LockInv, CountInv, NEW r \in Requests, Decrement(r)
  PROVE  CountInv'
  <1>0. PICK k \in Nodes : k = chosen[r]
    BY DEF Decrement, LockInv, ChosenOK
  <1>1. r \in Active(k) /\ r \notin Clamping(k)
    BY <1>0 DEF Decrement, LockInv, ChosenOK, Active, Clamping, Running
  <1>2. /\ Active(k)' = Active(k) \ {r}
        /\ \A n \in Nodes \ {k} : /\ Active(n)' = Active(n)
                                  /\ Clamping(n)' = Clamping(n)
        /\ NoResetYet' => NoResetYet
    BY <1>0 DEF Decrement, LockInv, TypeOK, HandlerTypes, Active, Clamping,
                Running, NoResetYet
  <1>3. Cardinality(Active(k))' = Cardinality(Active(k)) - 1
    BY <1>1, <1>2, CountedSetsFinite, FS_RemoveElement
  <1>4. /\ proxyInflight'[k] = proxyInflight[k] - 1
        /\ \A n \in Nodes \ {k} : proxyInflight'[n] = proxyInflight[n]
        /\ \A n \in Nodes : proxyInflight[n] \in Int
    BY <1>0 DEF Decrement, LockInv, TypeOK, NodeTypes
  <1>5. InflightNeverOverstates'
    BY <1>1, <1>2, <1>3, <1>4, CountedSetsFinite
    DEF CountInv, InflightNeverOverstates
  <1>6. proxyInflight'[k] >= -Cardinality(Clamping(k)')
    <2>1. CASE proxyInflight[k] - 1 < 0
      <3>1. Clamping(k)' = Clamping(k) \cup {r}
        BY <1>0, <1>4, <2>1 DEF Decrement, LockInv, TypeOK, HandlerTypes, Clamping
      <3>2. Cardinality(Clamping(k)') = Cardinality(Clamping(k)) + 1
        BY <1>1, <3>1, CountedSetsFinite, FS_AddElement
      <3>3. QED
        BY <1>1, <1>4, <3>2, CountedSetsFinite
        DEF CountInv, NegativeOnlyWhileClamping
    <2>2. CASE ~(proxyInflight[k] - 1 < 0)
      <3>1. Clamping(k)' = Clamping(k)
        BY <1>0, <1>4, <2>2 DEF Decrement, LockInv, TypeOK, HandlerTypes, Clamping
      <3>2. QED
        BY <1>1, <1>4, <2>2, <3>1, CountedSetsFinite
    <2>3. QED
      BY <2>1, <2>2
  <1>7. NegativeOnlyWhileClamping'
    <2>1. ASSUME NEW n \in Nodes \ {k}
          PROVE  proxyInflight'[n] >= -Cardinality(Clamping(n)')
      BY <1>2, <1>4 DEF CountInv, NegativeOnlyWhileClamping
    <2>2. QED
      BY <1>6, <2>1 DEF NegativeOnlyWhileClamping
  <1>8. ASSUME NoResetYet'
        PROVE  InflightExact' /\ ClampsOnlyAfterReset'
    <2>1. NoResetYet
      BY <1>2, <1>8
    <2>2. \A n \in Nodes : /\ proxyInflight[n] = Cardinality(Active(n))
                           /\ Clamping(n) = {}
      BY <2>1 DEF CountInv, InflightExact, ClampsOnlyAfterReset
    <2>3. ~(proxyInflight[k] - 1 < 0)
      <3>1. Cardinality(Active(k)) # 0
        BY <1>1, CountedSetsFinite, FS_EmptySet
      <3>2. QED
        BY <1>1, <2>2, <3>1, CountedSetsFinite
    <2>4. Clamping(k)' = Clamping(k)
      BY <1>0, <1>4, <2>3 DEF Decrement, LockInv, TypeOK, HandlerTypes, Clamping
    <2>5. \A n \in Nodes : /\ proxyInflight'[n] = Cardinality(Active(n)')
                           /\ Clamping(n)' = {}
      BY <1>2, <1>3, <1>4, <2>2, <2>4
    <2>6. QED
      BY <2>5 DEF InflightExact, ClampsOnlyAfterReset
  <1>9. InflightExact' /\ ClampsOnlyAfterReset'
    BY <1>8 DEF InflightExact, ClampsOnlyAfterReset
  <1>10. QED
    BY <1>5, <1>7, <1>9 DEF CountInv

\* Store(0) by a completion: only after a reset, since an exact counter never
\* goes negative.
LEMMA CountClamp ==
  ASSUME LockInv, CountInv, NEW r \in Requests, Clamp(r)
  PROVE  CountInv'
  <1>0. PICK k \in Nodes : k = chosen[r]
    BY DEF Clamp, Goto, LockInv, ChosenOK
  <1>1. r \in Clamping(k)
    BY <1>0 DEF Clamp, Goto, LockInv, ChosenOK, Clamping
  <1>2. /\ Clamping(k)' = Clamping(k) \ {r}
        /\ \A n \in Nodes \ {k} : Clamping(n)' = Clamping(n)
        /\ \A n \in Nodes : Active(n)' = Active(n)
        /\ NoResetYet' => NoResetYet
    <2>1. pc' = [pc EXCEPT ![r] = "gaugeDown"] /\ pc[r] = "clamp"
          /\ pc \in [Requests -> RequestPCs] /\ UNCHANGED <<chosen, rpc>>
      BY DEF Clamp, Goto, LockInv, TypeOK, HandlerTypes, localVars
    <2>2. Clamping(k)' = Clamping(k) \ {r}
      BY <1>0, <2>1 DEF Clamping
    <2>3. \A n \in Nodes \ {k} : Clamping(n)' = Clamping(n)
      BY <1>0, <2>1 DEF Clamping
    <2>4. \A n \in Nodes : Active(n)' = Active(n)
      BY <2>1 DEF Active, Running
    <2>5. NoResetYet' => NoResetYet
      BY <2>1 DEF NoResetYet
    <2>6. QED
      BY <2>2, <2>3, <2>4, <2>5
  <1>3. /\ proxyInflight'[k] = 0
        /\ \A n \in Nodes \ {k} : proxyInflight'[n] = proxyInflight[n]
    BY <1>0 DEF Clamp, LockInv, TypeOK, NodeTypes
  <1>4. IsFiniteSet(Clamping(k)') /\ Cardinality(Clamping(k)') \in Nat
    BY <1>1, <1>2, CountedSetsFinite, FS_Subset, FS_CardinalityType
  <1>5. ~NoResetYet'
    BY <1>1, <1>2 DEF CountInv, ClampsOnlyAfterReset
  <1>6. InflightNeverOverstates'
    BY <1>1, <1>2, <1>3, CountedSetsFinite DEF CountInv, InflightNeverOverstates
  <1>7. NegativeOnlyWhileClamping'
    <2>1. ASSUME NEW n \in Nodes \ {k}
          PROVE  proxyInflight'[n] >= -Cardinality(Clamping(n)')
      BY <1>2, <1>3 DEF CountInv, NegativeOnlyWhileClamping
    <2>2. proxyInflight'[k] >= -Cardinality(Clamping(k)')
      BY <1>3, <1>4
    <2>3. QED
      BY <2>1, <2>2 DEF NegativeOnlyWhileClamping
  <1>8. QED
    BY <1>5, <1>6, <1>7 DEF CountInv, InflightExact, ClampsOnlyAfterReset

\* Store(0) by a reset, which has begun.
LEMMA CountReset ==
  ASSUME LockInv, CountInv, NEW x \in Resetters, ResetCounters(x)
  PROVE  CountInv'
  <1>1. cursor \in Nodes /\ proxyInflight'[cursor] = 0
    BY DEF ResetCounters, LockInv, TypeOK, SelectionTypes, NodeTypes
  <1>2. /\ \A n \in Nodes : Clamping(n)' = Clamping(n) /\ Active(n)' = Active(n)
        /\ \A n \in Nodes \ {cursor} : proxyInflight'[n] = proxyInflight[n]
    BY DEF ResetCounters, LockInv, TypeOK, NodeTypes, localVars, Active, Clamping
  <1>3. ~NoResetYet'
    BY DEF ResetCounters, ResetGoto, LockInv, TypeOK, HandlerTypes, NoResetYet
  <1>4. InflightNeverOverstates' /\ NegativeOnlyWhileClamping'
    BY <1>1, <1>2, CountedSetsFinite
    DEF CountInv, InflightNeverOverstates, NegativeOnlyWhileClamping
  <1>5. QED
    BY <1>3, <1>4 DEF CountInv, InflightExact, ClampsOnlyAfterReset

\* Nobody is counted at first.
LEMMA CountInvInit == Init => CountInv
  <1> SUFFICES ASSUME Init PROVE CountInv
    OBVIOUS
  <1>1. \A n \in Nodes : /\ Active(n) = {} /\ Clamping(n) = {}
                         /\ proxyInflight[n] = 0
    BY DEF Init, Active, Clamping, Running
  <1>2. QED
    BY <1>1, FS_EmptySet
    DEF CountInv, InflightExact, ClampsOnlyAfterReset, InflightNeverOverstates,
        NegativeOnlyWhileClamping

\* Every step keeps CountInv.
LEMMA CountInvNext == LockInv /\ CountInv /\ [Next]_vars => CountInv'
  <1> SUFFICES ASSUME LockInv, CountInv, [Next]_vars PROVE CountInv'
    OBVIOUS
  <1>1. ASSUME NEW r \in Requests, HandlerStep(r) PROVE CountInv'
    BY <1>1, SilentSelection, SilentRequest, CountSilentKeeps, CountAdmit,
       CountDecrement, CountClamp
    DEF HandlerStep
  <1>2. ASSUME NEW x \in Resetters, ResetStep(x) PROVE CountInv'
    BY <1>2, SilentReset, CountSilentKeeps, CountReset DEF ResetStep
  <1>3. CASE Environment
    BY <1>3, SilentRequest, SilentReset, SilentElse, CountSilentKeeps
    DEF Environment
  <1>4. CASE UNCHANGED vars
    BY <1>4, SilentElse, CountSilentKeeps
  <1>5. QED
    BY <1>1, <1>2, <1>3, <1>4 DEF Next

(***************************************************************************)
(* Part 3: what a decision sees                                            *)
(***************************************************************************)
\* Whatever a decision has read after a step it had read before, and the
\* counter has not grown above it.
ViewSilent ==
    \A r \in Requests, n \in Nodes : HasRead(r, n)' =>
        /\ HasRead(r, n)
        /\ snapQueue'[n] = snapQueue[n]
        /\ proxyInflight'[n] <= NonNegative(proxyInflight[n])

\* Such a step keeps every view above the load.
LEMMA ViewSilentKeeps ==
  ASSUME LockInv, LockInv', DecisionNeverUnderestimates, ViewSilent
  PROVE  DecisionNeverUnderestimates'
  <1> SUFFICES ASSUME NEW r \in Requests, NEW n \in Nodes, HasRead(r, n)'
               PROVE  proxyInflight'[n] <= NonNegative(snapQueue'[n])
    BY DEF DecisionNeverUnderestimates, NonNegative
  <1>1. /\ proxyInflight[n] <= NonNegative(snapQueue[n])
        /\ snapQueue'[n] = snapQueue[n]
        /\ proxyInflight'[n] <= NonNegative(proxyInflight[n])
    BY DEF ViewSilent, DecisionNeverUnderestimates
  <1>2. /\ proxyInflight[n] \in Int /\ snapQueue[n] \in Int
        /\ proxyInflight'[n] \in Int
    BY DEF LockInv, TypeOK, NodeTypes, SelectionTypes
  <1>3. QED
    BY <1>1, <1>2 DEF NonNegative

\* A selection starts with nothing read, while nobody else selects.
LEMMA ViewLock ==
  ASSUME LockInv, NEW r \in Requests, LockSelection(r)
  PROVE  ViewSilent
  <1>1. /\ pc[r] = "waiting" /\ selectMu = NoOne
        /\ pc' = [pc EXCEPT ![r] = "snapshot"] /\ cursor' = 1
        /\ pc \in [Requests -> RequestPCs]
    BY DEF LockSelection, Goto, LockInv, TypeOK, HandlerTypes
  <1>2. \A s \in Requests : pc[s] \notin Selecting
    BY <1>1, HandlersAssumption DEF LockInv, OneSelectionAtATime
  <1>3. \A s \in Requests, n \in Nodes : ~HasRead(s, n)'
    BY <1>1, <1>2, NodesAssumption DEF HasRead, Selecting, Nodes
  <1>4. QED
    BY <1>3 DEF ViewSilent

\* The rest of a selection only uses what it has seen.
LEMMA ViewSelection ==
  ASSUME LockInv, NEW r \in Requests,
         \/ ReadTelemetry(r)
         \/ DecayRT(r)
         \/ PublishDecisionInputs(r)
         \/ SelectBackend(r)
         \/ Refuse(r)
         \/ Admit(r)
  PROVE  ViewSilent
  <1> USE HandlersAssumption
      DEF LockInv, TypeOK, HandlerTypes, SelectionTypes, NodeTypes,
          OneSelectionAtATime, Selecting, Resetting, nodeVars, snapVars,
          ViewSilent, HasRead, NonNegative, Goto, Visit
  <1>1. CASE ReadTelemetry(r)
    BY <1>1 DEF ReadTelemetry
  <1>2. CASE DecayRT(r)
    BY <1>2 DEF DecayRT
  <1>3. CASE PublishDecisionInputs(r)
    BY <1>3 DEF PublishDecisionInputs
  <1>4. CASE SelectBackend(r)
    BY <1>4 DEF SelectBackend
  <1>5. CASE Refuse(r)
    BY <1>5 DEF Refuse, UnlockSelection
  <1>6. CASE Admit(r)
    BY <1>6 DEF Admit
  <1>7. QED
    BY <1>1, <1>2, <1>3, <1>4, <1>5, <1>6

\* Requests outside the selection only lower the counters.
LEMMA ViewRequest ==
  ASSUME LockInv, NEW r \in Requests,
         \/ Forward(r)
         \/ Decrement(r)
         \/ Clamp(r)
         \/ PublishCompletion(r)
         \/ ObserveRT(r)
         \/ UpdateResponseMS(r)
         \/ StampRT(r)
         \/ EmitSample(r)
         \/ PublishRT(r)
         \/ Arrive(r)
         \/ Return(r)
  PROVE  ViewSilent
  <1> USE HandlersAssumption
      DEF LockInv, TypeOK, HandlerTypes, SelectionTypes, NodeTypes,
          OneSelectionAtATime, Selecting, Resetting, nodeVars, snapVars,
          ViewSilent, HasRead, NonNegative, Goto, Visit
  <1>1. CASE Forward(r)
    BY <1>1 DEF Forward, UnlockSelection
  <1>2. CASE Decrement(r)
    BY <1>2 DEF Decrement
  <1>3. CASE Clamp(r)
    BY <1>3 DEF Clamp
  <1>4. CASE PublishCompletion(r)
    BY <1>4 DEF PublishCompletion
  <1>5. CASE ObserveRT(r)
    BY <1>5 DEF ObserveRT
  <1>6. CASE UpdateResponseMS(r)
    BY <1>6 DEF UpdateResponseMS
  <1>7. CASE StampRT(r)
    BY <1>7 DEF StampRT
  <1>8. CASE EmitSample(r)
    BY <1>8 DEF EmitSample
  <1>9. CASE PublishRT(r)
    BY <1>9 DEF PublishRT
  <1>10. CASE Arrive(r)
    BY <1>10 DEF Arrive
  <1>11. CASE Return(r)
    BY <1>11 DEF Return
  <1>12. QED
    BY <1>1, <1>2, <1>3, <1>4, <1>5, <1>6, <1>7, <1>8, <1>9, <1>10, <1>11

\* A reset never runs inside a selection.
LEMMA ViewReset ==
  ASSUME LockInv, NEW x \in Resetters,
         \/ ArriveReset(x)
         \/ LockReset(x)
         \/ ClearTelemetry(x)
         \/ ResetRespMS(x)
         \/ ResetCounters(x)
         \/ ResetStamps(x)
         \/ ResetRTGauge(x)
         \/ ResetInflightGauge(x)
  PROVE  ViewSilent
  <1> USE HandlersAssumption
      DEF LockInv, TypeOK, HandlerTypes, SelectionTypes, NodeTypes,
          OneSelectionAtATime, Selecting, Resetting, nodeVars, snapVars,
          ViewSilent, HasRead, NonNegative, ResetGoto
  <1>1. CASE ArriveReset(x)
    BY <1>1 DEF ArriveReset
  <1>2. CASE LockReset(x)
    BY <1>2 DEF LockReset
  <1>3. CASE ClearTelemetry(x)
    BY <1>3 DEF ClearTelemetry
  <1>4. CASE ResetRespMS(x)
    BY <1>4 DEF ResetRespMS
  <1>5. CASE ResetCounters(x)
    BY <1>5 DEF ResetCounters
  <1>6. CASE ResetStamps(x)
    BY <1>6 DEF ResetStamps
  <1>7. CASE ResetRTGauge(x)
    BY <1>7 DEF ResetRTGauge
  <1>8. CASE ResetInflightGauge(x)
    BY <1>8 DEF ResetInflightGauge
  <1>9. QED
    BY <1>1, <1>2, <1>3, <1>4, <1>5, <1>6, <1>7, <1>8

\* Time, the worker and a stutter change no view.
LEMMA ViewElse ==
  ASSUME LockInv, (\E n \in Nodes : Age(n)) \/ WorkerReceives \/ UNCHANGED vars
  PROVE  ViewSilent
  BY DEF Age, WorkerReceives, vars, nodeVars, snapVars, ViewSilent, HasRead,
         NonNegative, LockInv, TypeOK, SelectionTypes, NodeTypes

\* Reading one more queue.
LEMMA ViewSnapshot ==
  ASSUME LockInv, DecisionNeverUnderestimates,
         NEW r \in Requests, SnapshotForDecision(r)
  PROVE  DecisionNeverUnderestimates'
  <1>1. /\ cursor \in Nodes /\ UNCHANGED proxyInflight
        /\ snapQueue' = [snapQueue EXCEPT ![cursor] = proxyInflight[cursor]]
        /\ pc[r] = "snapshot" /\ selectMu = r
    BY DEF SnapshotForDecision, Visit, nodeVars, LockInv, TypeOK,
           SelectionTypes, OneSelectionAtATime, Selecting
  <1>2. \A s \in Requests \ {r}, n \in Nodes : ~HasRead(s, n)'
    BY <1>1 DEF SnapshotForDecision, Visit, LockInv, TypeOK, HandlerTypes,
                OneSelectionAtATime, Selecting, HasRead
  <1>3. \A n \in Nodes \ {cursor} : HasRead(r, n)' => HasRead(r, n)
    BY <1>1, NodesAssumption
    DEF SnapshotForDecision, Visit, LockInv, TypeOK, HandlerTypes, HasRead,
        Nodes
  <1>4. \A n \in Nodes \ {cursor} :
            HasRead(r, n)' => proxyInflight'[n] <= NonNegative(snapQueue'[n])
    BY <1>1, <1>3
    DEF DecisionNeverUnderestimates, NonNegative, LockInv, TypeOK, NodeTypes,
        SelectionTypes
  <1>5. proxyInflight'[cursor] <= NonNegative(snapQueue'[cursor])
    BY <1>1 DEF NonNegative, LockInv, TypeOK, NodeTypes, SelectionTypes
  <1>6. QED
    BY <1>2, <1>4, <1>5 DEF DecisionNeverUnderestimates, NonNegative

\* Every step keeps every view above the load.
LEMMA ViewNext ==
    LockInv /\ DecisionNeverUnderestimates /\ [Next]_vars
        => DecisionNeverUnderestimates'
  <1> SUFFICES ASSUME LockInv, DecisionNeverUnderestimates, [Next]_vars
               PROVE  DecisionNeverUnderestimates'
    OBVIOUS
  <1>0. LockInv'
    BY LockInvNext
  <1>1. ASSUME NEW r \in Requests, HandlerStep(r)
        PROVE  DecisionNeverUnderestimates'
    BY <1>0, <1>1, ViewLock, ViewSelection, ViewRequest, ViewSnapshot, ViewSilentKeeps
    DEF HandlerStep
  <1>2. ASSUME NEW x \in Resetters, ResetStep(x)
        PROVE  DecisionNeverUnderestimates'
    BY <1>0, <1>2, ViewReset, ViewSilentKeeps DEF ResetStep
  <1>3. CASE Environment
    BY <1>0, <1>3, ViewRequest, ViewReset, ViewElse, ViewSilentKeeps DEF Environment
  <1>4. CASE UNCHANGED vars
    BY <1>0, <1>4, ViewElse, ViewSilentKeeps
  <1>5. QED
    BY <1>1, <1>2, <1>3, <1>4 DEF Next

(***************************************************************************)
(* Part 4: latencies and the time they decay from                          *)
(***************************************************************************)
\* A request that writes the map stamps the node before it leaves Unstamped.
LEMMA DecayRequest ==
  ASSUME LockInv, LatencyCanDecay, NEW r \in Requests,
         \/ LockSelection(r)
         \/ SnapshotForDecision(r)
         \/ ReadTelemetry(r)
         \/ DecayRT(r)
         \/ PublishDecisionInputs(r)
         \/ SelectBackend(r)
         \/ Refuse(r)
         \/ Admit(r)
         \/ Forward(r)
         \/ Decrement(r)
         \/ Clamp(r)
         \/ PublishCompletion(r)
         \/ ObserveRT(r)
         \/ UpdateResponseMS(r)
         \/ StampRT(r)
         \/ EmitSample(r)
         \/ PublishRT(r)
         \/ Arrive(r)
         \/ Return(r)
  PROVE  LatencyCanDecay'
  <1> USE DEF LockInv, TypeOK, HandlerTypes, NodeTypes, ChosenOK, nodeVars, localVars,
          LatencyCanDecay, NoResetYet, Unstamped, Ages, Goto, Visit
  <1>1. CASE LockSelection(r)
    BY <1>1 DEF LockSelection
  <1>2. CASE SnapshotForDecision(r)
    BY <1>2 DEF SnapshotForDecision
  <1>3. CASE ReadTelemetry(r)
    BY <1>3 DEF ReadTelemetry
  <1>4. CASE DecayRT(r)
    BY <1>4 DEF DecayRT
  <1>5. CASE PublishDecisionInputs(r)
    BY <1>5 DEF PublishDecisionInputs
  <1>6. CASE SelectBackend(r)
    BY <1>6 DEF SelectBackend
  <1>7. CASE Refuse(r)
    BY <1>7 DEF Refuse
  <1>8. CASE Admit(r)
    BY <1>8 DEF Admit
  <1>9. CASE Forward(r)
    BY <1>9 DEF Forward
  <1>10. CASE Decrement(r)
    BY <1>10 DEF Decrement
  <1>11. CASE Clamp(r)
    BY <1>11 DEF Clamp
  <1>12. CASE PublishCompletion(r)
    BY <1>12 DEF PublishCompletion
  <1>13. CASE ObserveRT(r)
    BY <1>13 DEF ObserveRT
  <1>14. CASE UpdateResponseMS(r)
    BY <1>14 DEF UpdateResponseMS
  <1>15. CASE StampRT(r)
    BY <1>15 DEF StampRT
  <1>16. CASE EmitSample(r)
    BY <1>16 DEF EmitSample
  <1>17. CASE PublishRT(r)
    BY <1>17 DEF PublishRT
  <1>18. CASE Arrive(r)
    BY <1>18 DEF Arrive
  <1>19. CASE Return(r)
    BY <1>19 DEF Return
  <1>20. QED
    BY <1>1, <1>2, <1>3, <1>4, <1>5, <1>6, <1>7, <1>8, <1>9, <1>10, <1>11, <1>12, <1>13, <1>14, <1>15, <1>16, <1>17, <1>18, <1>19

\* Once a reset has begun nothing is claimed; before, it changes nothing.
LEMMA DecayReset ==
  ASSUME LockInv, LatencyCanDecay, NEW x \in Resetters,
         ArriveReset(x) \/ ResetStep(x)
  PROVE  LatencyCanDecay'
  <1> USE DEF LockInv, TypeOK, HandlerTypes, nodeVars, localVars,
          LatencyCanDecay, NoResetYet, Unstamped, ResetGoto
  <1>1. CASE ArriveReset(x)
    BY <1>1 DEF ArriveReset
  <1>2. CASE ResetStep(x)
    <2>1. rpc'[x] \notin {"new", "waiting"}
      BY <1>2 DEF ResetStep, LockReset, ClearTelemetry, ResetRespMS,
                  ResetCounters, ResetStamps, ResetRTGauge, ResetInflightGauge
    <2>2. QED
      BY <2>1
  <1>3. QED
    BY <1>1, <1>2

\* Time ages a stamp but never removes it.
LEMMA DecayElse ==
  ASSUME LockInv, LatencyCanDecay,
         (\E n \in Nodes : Age(n)) \/ WorkerReceives \/ UNCHANGED vars
  PROVE  LatencyCanDecay'
  BY DEF Age, Older, WorkerReceives, vars, nodeVars, localVars, LatencyCanDecay,
         NoResetYet, Unstamped, LockInv, TypeOK, NodeTypes

\* Every step leaves latencies that can age.
LEMMA DecayNext ==
    LockInv /\ LatencyCanDecay /\ [Next]_vars => LatencyCanDecay'
  BY DecayRequest, DecayReset, DecayElse DEF Next, HandlerStep, Environment

(***************************************************************************)
(* Part 5: the request path implements the dispatcher                      *)
(***************************************************************************)
\* Steps the dispatcher does not see.
Unseen ==
    /\ UNCHANGED <<proxyInflight, snapQueue>>
    /\ \A r \in Requests : Placed(r)' = Placed(r)
    /\ NoResetYet' <=> NoResetYet

\* Such a step is a stutter of the dispatcher.
LEMMA UnseenStutters ==
  ASSUME Unseen
  PROVE  UNCHANGED Promise!dvars
  <1>1. UNCHANGED [n \in Nodes |-> NonNegative(proxyInflight[n])]
    BY DEF Unseen, NonNegative
  <1>2. UNCHANGED [n \in Nodes |-> NonNegative(snapQueue[n])]
    BY DEF Unseen, NonNegative
  <1>3. UNCHANGED [r \in Requests |-> Placed(r)]
    BY DEF Unseen
  <1>4. UNCHANGED (~NoResetYet)
    BY DEF Unseen
  <1>5. QED
    BY <1>1, <1>2, <1>3, <1>4 DEF Promise!dvars

\* Locking, decaying, publishing, serving and observing.
LEMMA UnseenRequest ==
  ASSUME LockInv, NEW r \in Requests,
         \/ LockSelection(r)
         \/ ReadTelemetry(r)
         \/ DecayRT(r)
         \/ PublishDecisionInputs(r)
         \/ SelectBackend(r)
         \/ PublishCompletion(r)
         \/ ObserveRT(r)
         \/ UpdateResponseMS(r)
         \/ StampRT(r)
         \/ EmitSample(r)
         \/ PublishRT(r)
         \/ Arrive(r)
         \/ Return(r)
  PROVE  Unseen
  <1> USE DEF LockInv, TypeOK, HandlerTypes, nodeVars, snapVars, localVars,
          Unseen, NoResetYet, Placed, Running, Undecided, Goto, Visit
  <1>1. CASE LockSelection(r)
    BY <1>1 DEF LockSelection
  <1>2. CASE ReadTelemetry(r)
    BY <1>2 DEF ReadTelemetry
  <1>3. CASE DecayRT(r)
    BY <1>3 DEF DecayRT
  <1>4. CASE PublishDecisionInputs(r)
    BY <1>4 DEF PublishDecisionInputs
  <1>5. CASE SelectBackend(r)
    BY <1>5 DEF SelectBackend
  <1>6. CASE PublishCompletion(r)
    BY <1>6 DEF PublishCompletion
  <1>7. CASE ObserveRT(r)
    BY <1>7 DEF ObserveRT
  <1>8. CASE UpdateResponseMS(r)
    BY <1>8 DEF UpdateResponseMS
  <1>9. CASE StampRT(r)
    BY <1>9 DEF StampRT
  <1>10. CASE EmitSample(r)
    BY <1>10 DEF EmitSample
  <1>11. CASE PublishRT(r)
    BY <1>11 DEF PublishRT
  <1>12. CASE Arrive(r)
    BY <1>12 DEF Arrive
  <1>13. CASE Return(r)
    BY <1>13 DEF Return
  <1>14. QED
    BY <1>1, <1>2, <1>3, <1>4, <1>5, <1>6, <1>7, <1>8, <1>9, <1>10, <1>11, <1>12, <1>13

\* What a reset does apart from taking the lock and zeroing counters.
LEMMA UnseenReset ==
  ASSUME LockInv, NEW x \in Resetters,
         \/ ArriveReset(x)
         \/ ClearTelemetry(x)
         \/ ResetRespMS(x)
         \/ ResetStamps(x)
         \/ ResetRTGauge(x)
         \/ ResetInflightGauge(x)
  PROVE  Unseen
  <1> USE DEF LockInv, TypeOK, HandlerTypes, nodeVars, snapVars, localVars,
          Unseen, NoResetYet, Placed, Running, Undecided, ResetGoto
  <1>1. CASE ArriveReset(x)
    BY <1>1 DEF ArriveReset
  <1>2. CASE ClearTelemetry(x)
    BY <1>2 DEF ClearTelemetry
  <1>3. CASE ResetRespMS(x)
    BY <1>3 DEF ResetRespMS
  <1>4. CASE ResetStamps(x)
    BY <1>4 DEF ResetStamps
  <1>5. CASE ResetRTGauge(x)
    BY <1>5 DEF ResetRTGauge
  <1>6. CASE ResetInflightGauge(x)
    BY <1>6 DEF ResetInflightGauge
  <1>7. QED
    BY <1>1, <1>2, <1>3, <1>4, <1>5, <1>6

\* The dispatcher does not see time and the worker.
LEMMA UnseenElse ==
  ASSUME (\E n \in Nodes : Age(n)) \/ WorkerReceives \/ UNCHANGED vars
  PROVE  Unseen
  BY DEF Age, WorkerReceives, vars, nodeVars, snapVars, localVars, Unseen,
         NoResetYet, Placed

\* The abstract variables, for the steps the dispatcher sees.
LEMMA AbstractTypes ==
  ASSUME LockInv
  PROVE  /\ [n \in Nodes |-> NonNegative(proxyInflight[n])] \in [Nodes -> Nat]
         /\ [n \in Nodes |-> NonNegative(snapQueue[n])] \in [Nodes -> Nat]
  BY DEF NonNegative, LockInv, TypeOK, NodeTypes, SelectionTypes

\* Reading a queue and dropping the values read are both an Observe.
LEMMA SeenObserve ==
  ASSUME LockInv, LockInv', NEW r \in Requests,
         SnapshotForDecision(r) \/ Forward(r)
  PROVE  Promise!Observe
  <1>1. /\ UNCHANGED proxyInflight
        /\ \A s \in Requests : Placed(s)' = Placed(s)
        /\ NoResetYet' <=> NoResetYet
    <2> USE DEF LockInv, TypeOK, HandlerTypes, nodeVars, localVars, NoResetYet,
                Placed, Running, Undecided, Goto, Visit
    <2>1. CASE SnapshotForDecision(r)
      BY <2>1 DEF SnapshotForDecision
    <2>2. CASE Forward(r)
      BY <2>2 DEF Forward
    <2>3. QED
      BY <2>1, <2>2
  <1>2. /\ UNCHANGED [n \in Nodes |-> NonNegative(proxyInflight[n])]
        /\ UNCHANGED [s \in Requests |-> Placed(s)]
        /\ UNCHANGED (~NoResetYet)
    BY <1>1 DEF NonNegative
  <1>3. [n \in Nodes |-> NonNegative(snapQueue[n])]' \in [Nodes -> Nat]
    BY DEF NonNegative, LockInv, TypeOK, SelectionTypes
  <1>4. QED
    BY <1>2, <1>3 DEF Promise!Observe

\* The 503 for a node without URL.
LEMMA SeenRefuse ==
  ASSUME LockInv, LockInv', NEW r \in Requests, Refuse(r)
  PROVE  Promise!Refuse(r)
  <1>1. /\ UNCHANGED proxyInflight
        /\ Placed(r) = 0 /\ Placed(r)' = -1
        /\ \A s \in Requests \ {r} : Placed(s)' = Placed(s)
        /\ NoResetYet' <=> NoResetYet
    BY DEF Refuse, LockInv, TypeOK, HandlerTypes, nodeVars, localVars,
           NoResetYet, Placed, Running, Undecided, Goto
  <1>2. /\ UNCHANGED [n \in Nodes |-> NonNegative(proxyInflight[n])]
        /\ UNCHANGED (~NoResetYet)
    BY <1>1 DEF NonNegative
  <1>3. [s \in Requests |-> Placed(s)]'
          = [[s \in Requests |-> Placed(s)] EXCEPT ![r] = -1]
    BY <1>1
  <1>4. [n \in Nodes |-> NonNegative(snapQueue[n])]' \in [Nodes -> Nat]
    BY DEF NonNegative, LockInv, TypeOK, SelectionTypes
  <1>5. QED
    BY <1>1, <1>2, <1>3, <1>4 DEF Promise!Refuse, Promise!Queued, Promise!Gone

\* Add(1) dispatches the request on a view that covers the load.
LEMMA SeenAdmit ==
  ASSUME LockInv, CountInv, DecisionNeverUnderestimates,
         NEW r \in Requests, Admit(r)
  PROVE  \E n \in Nodes : Promise!Dispatch(r, n)
  <1>0. PICK k \in Nodes : k = chosen[r]
    BY DEF Admit, Goto, LockInv, ChosenOK
  <1>1. /\ Placed(r) = 0 /\ Placed(r)' = k
        /\ \A s \in Requests \ {r} : Placed(s)' = Placed(s)
        /\ UNCHANGED snapQueue
        /\ NoResetYet' <=> NoResetYet
    BY <1>0 DEF Admit, LockInv, TypeOK, HandlerTypes, snapVars, NoResetYet,
                Placed, Running, Undecided, Goto
  <1>2. [s \in Requests |-> Placed(s)]'
          = [[s \in Requests |-> Placed(s)] EXCEPT ![r] = k]
    BY <1>1
  <1>3. \A n \in Nodes : NonNegative(proxyInflight[n]) <= NonNegative(snapQueue[n])
    <2>1. \A n \in Nodes : proxyInflight[n] <= NonNegative(snapQueue[n])
      BY DEF Admit, Goto, DecisionNeverUnderestimates, HasRead
    <2>2. QED
      BY <2>1 DEF NonNegative, LockInv, TypeOK, NodeTypes, SelectionTypes
  <1>4. /\ UNCHANGED [n \in Nodes |-> NonNegative(snapQueue[n])]
        /\ UNCHANGED (~NoResetYet)
    BY <1>1 DEF NonNegative
  <1>5. /\ proxyInflight \in [Nodes -> Int]
        /\ proxyInflight' = [proxyInflight EXCEPT ![k] = proxyInflight[k] + 1]
    BY <1>0 DEF Admit, LockInv, TypeOK, NodeTypes
  <1>6. CASE proxyInflight[k] >= 0
    <2>1. [n \in Nodes |-> NonNegative(proxyInflight[n])]'
            = [[n \in Nodes |-> NonNegative(proxyInflight[n])]
                 EXCEPT ![k] = NonNegative(proxyInflight[k]) + 1]
      <3>1. \A n \in Nodes \ {k} : proxyInflight'[n] = proxyInflight[n]
        BY <1>5
      <3>2. NonNegative(proxyInflight'[k]) = NonNegative(proxyInflight[k]) + 1
        BY <1>5, <1>6 DEF NonNegative
      <3>3. QED
        BY <3>1, <3>2
    <2>2. QED
      BY <1>1, <1>2, <1>3, <1>4, <2>1 DEF Promise!Dispatch, Promise!Queued
  <1>7. CASE proxyInflight[k] < 0
    <2>1. ~NoResetYet
      BY <1>0, <1>5, <1>7, CountedSetsFinite DEF CountInv, InflightExact
    <2>2. UNCHANGED [n \in Nodes |-> NonNegative(proxyInflight[n])]
      BY <1>5, <1>7 DEF NonNegative
    <2>3. QED
      BY <1>1, <1>2, <1>3, <1>4, <2>1, <2>2
      DEF Promise!Dispatch, Promise!Queued
  <1>8. QED
    BY <1>5, <1>6, <1>7

\* Add(-1) takes the request off its node.
LEMMA SeenDecrement ==
  ASSUME LockInv, CountInv, NEW r \in Requests, Decrement(r)
  PROVE  Promise!Finish(r)
  <1>0. PICK k \in Nodes : k = chosen[r]
    BY DEF Decrement, LockInv, ChosenOK
  <1>1. /\ Placed(r) = k /\ Placed(r)' = -1
        /\ \A s \in Requests \ {r} : Placed(s)' = Placed(s)
        /\ UNCHANGED snapQueue
        /\ NoResetYet' <=> NoResetYet
    BY <1>0 DEF Decrement, LockInv, TypeOK, HandlerTypes, snapVars, NoResetYet,
                Placed, Running, Undecided
  <1>2. [s \in Requests |-> Placed(s)]'
          = [[s \in Requests |-> Placed(s)] EXCEPT ![r] = -1]
    BY <1>1
  <1>3. /\ UNCHANGED [n \in Nodes |-> NonNegative(snapQueue[n])]
        /\ UNCHANGED (~NoResetYet)
    BY <1>1 DEF NonNegative
  <1>4. /\ proxyInflight \in [Nodes -> Int]
        /\ proxyInflight' = [proxyInflight EXCEPT ![k] = proxyInflight[k] - 1]
    BY <1>0 DEF Decrement, LockInv, TypeOK, NodeTypes
  <1>5. CASE proxyInflight[k] > 0
    <2>1. [n \in Nodes |-> NonNegative(proxyInflight[n])]'
            = [[n \in Nodes |-> NonNegative(proxyInflight[n])]
                 EXCEPT ![k] = NonNegative(proxyInflight[k]) - 1]
      <3>1. \A n \in Nodes \ {k} : proxyInflight'[n] = proxyInflight[n]
        BY <1>4
      <3>2. NonNegative(proxyInflight'[k]) = NonNegative(proxyInflight[k]) - 1
        BY <1>4, <1>5 DEF NonNegative
      <3>3. QED
        BY <3>1, <3>2
    <2>2. NonNegative(proxyInflight[k]) > 0
      BY <1>4, <1>5 DEF NonNegative
    <2>3. QED
      BY <1>1, <1>2, <1>3, <2>1, <2>2 DEF Promise!Finish, Promise!Gone
  <1>6. CASE proxyInflight[k] <= 0
    <2>1. ~NoResetYet
      <3>1. r \in Active(k)
        BY <1>0 DEF Decrement, Active, Running
      <3>2. Cardinality(Active(k)) > 0
        BY <3>1, CountedSetsFinite, FS_EmptySet
      <3>3. QED
        BY <1>4, <1>6, <3>2, CountedSetsFinite DEF CountInv, InflightExact
    <2>2. UNCHANGED [n \in Nodes |-> NonNegative(proxyInflight[n])]
      BY <1>4, <1>6 DEF NonNegative
    <2>3. NonNegative(proxyInflight[k]) = 0
      BY <1>4, <1>6 DEF NonNegative
    <2>4. QED
      BY <1>1, <1>2, <1>3, <2>1, <2>2, <2>3 DEF Promise!Finish, Promise!Gone
  <1>7. QED
    BY <1>4, <1>5, <1>6

ForgetsLoad ==
    /\ \E k \in Nodes : proxyInflight' = [proxyInflight EXCEPT ![k] = 0]
    /\ \A s \in Requests : Placed(s)' = Placed(s)
    /\ UNCHANGED snapQueue
    /\ ~NoResetYet /\ ~NoResetYet'

\* A store of 0, by a completion or by a reset, forgets load; both come after
\* a reset has begun.
LEMMA SeenForget ==
  ASSUME LockInv, CountInv,
         \/ \E r \in Requests : Clamp(r)
         \/ \E x \in Resetters : ResetCounters(x)
  PROVE  \E n \in Nodes : Promise!Forget(n)
  <1>1. ForgetsLoad
    <2>1. ASSUME NEW r \in Requests, Clamp(r)
          PROVE  ForgetsLoad
      <3>1. chosen[r] \in Nodes /\ r \in Clamping(chosen[r])
        BY <2>1 DEF Clamp, Goto, LockInv, ChosenOK, Clamping
      <3>2. ~NoResetYet
        BY <3>1 DEF CountInv, ClampsOnlyAfterReset
      <3>3. /\ proxyInflight' = [proxyInflight EXCEPT ![chosen[r]] = 0]
            /\ UNCHANGED <<snapQueue, rpc>>
            /\ \A s \in Requests : Placed(s)' = Placed(s)
        BY <2>1 DEF Clamp, LockInv, TypeOK, HandlerTypes, snapVars, localVars,
                    Placed, Running, Undecided, Goto
      <3>4. ~NoResetYet'
        BY <3>2, <3>3 DEF NoResetYet
      <3>5. QED
        BY <3>1, <3>2, <3>3, <3>4 DEF ForgetsLoad
    <2>2. ASSUME NEW x \in Resetters, ResetCounters(x)
          PROVE  ForgetsLoad
      <3>1. /\ cursor \in Nodes
            /\ proxyInflight' = [proxyInflight EXCEPT ![cursor] = 0]
            /\ UNCHANGED <<snapQueue, pc, chosen>>
            /\ rpc[x] = "counters" /\ rpc'[x] = "stamps"
        BY <2>2 DEF ResetCounters, ResetGoto, LockInv, TypeOK, HandlerTypes,
                    SelectionTypes, snapVars, localVars
      <3>2. ~NoResetYet /\ ~NoResetYet'
        BY <3>1 DEF NoResetYet
      <3>3. \A s \in Requests : Placed(s)' = Placed(s)
        BY <3>1 DEF Placed
      <3>4. QED
        BY <3>1, <3>2, <3>3 DEF ForgetsLoad
    <2>3. QED
      BY <2>1, <2>2
  <1>2. PICK k \in Nodes : proxyInflight' = [proxyInflight EXCEPT ![k] = 0]
    BY <1>1 DEF ForgetsLoad
  <1>3. [n \in Nodes |-> NonNegative(proxyInflight[n])]'
          = [[n \in Nodes |-> NonNegative(proxyInflight[n])] EXCEPT ![k] = 0]
    BY <1>2 DEF NonNegative, LockInv, TypeOK, NodeTypes
  <1>4. /\ UNCHANGED [s \in Requests |-> Placed(s)]
        /\ UNCHANGED [n \in Nodes |-> NonNegative(snapQueue[n])]
        /\ UNCHANGED (~NoResetYet)
    BY <1>1 DEF ForgetsLoad, NonNegative
  <1>5. QED
    BY <1>1, <1>3, <1>4 DEF ForgetsLoad, Promise!Forget

\* A reset that takes selectMu.
LEMMA SeenReset ==
  ASSUME LockInv, NEW x \in Resetters, LockReset(x)
  PROVE  Promise!Reset
  <1>1. /\ UNCHANGED <<proxyInflight, snapQueue, pc, chosen>>
        /\ rpc'[x] = "clearMap"
    BY DEF LockReset, ResetGoto, LockInv, TypeOK, HandlerTypes, nodeVars,
           snapVars, localVars
  <1>2. ~NoResetYet'
    BY <1>1 DEF NoResetYet
  <1>3. /\ UNCHANGED [n \in Nodes |-> NonNegative(proxyInflight[n])]
        /\ UNCHANGED [s \in Requests |-> Placed(s)]
        /\ UNCHANGED [n \in Nodes |-> NonNegative(snapQueue[n])]
    BY <1>1 DEF NonNegative, Placed
  <1>4. QED
    BY <1>2, <1>3 DEF Promise!Reset

\* The initial state is one of the dispatcher.
LEMMA PromiseInit == Init => Promise!Init
  <1> SUFFICES ASSUME Init PROVE Promise!Init
    OBVIOUS
  <1>1. /\ \A n \in Nodes : proxyInflight[n] = 0 /\ snapQueue[n] = 0
        /\ \A r \in Requests : Placed(r) = 0
        /\ NoResetYet
    BY DEF Init, Placed, Running, Undecided, NoResetYet
  <1>2. QED
    BY <1>1 DEF Promise!Init, Promise!Queued, NonNegative

\* Every step is one of the dispatcher, or a stutter.
LEMMA PromiseNext ==
    LockInv /\ LockInv' /\ CountInv /\ DecisionNeverUnderestimates /\ [Next]_vars
        => [Promise!Next]_(Promise!dvars)
  <1> SUFFICES ASSUME LockInv, LockInv', CountInv, DecisionNeverUnderestimates,
                      [Next]_vars
               PROVE  [Promise!Next]_(Promise!dvars)
    OBVIOUS
  <1>1. Unseen => [Promise!Next]_(Promise!dvars)
    BY UnseenStutters
  <1>2. ASSUME NEW r \in Requests, HandlerStep(r)
        PROVE  [Promise!Next]_(Promise!dvars)
    BY <1>1, <1>2, UnseenRequest, SeenObserve, SeenRefuse, SeenAdmit,
       SeenDecrement, SeenForget
    DEF HandlerStep, Promise!Next
  <1>3. ASSUME NEW x \in Resetters, ResetStep(x)
        PROVE  [Promise!Next]_(Promise!dvars)
    BY <1>1, <1>3, UnseenReset, SeenReset, SeenForget
    DEF ResetStep, Promise!Next
  <1>4. CASE Environment
    BY <1>1, <1>4, UnseenRequest, UnseenReset, UnseenElse DEF Environment
  <1>5. CASE UNCHANGED vars
    BY <1>1, <1>5, UnseenElse
  <1>6. QED
    BY <1>2, <1>3, <1>4, <1>5 DEF Next

(***************************************************************************)
(* Part 6: round robin                                                     *)
(***************************************************************************)
\* Selections that are not counted on their node yet; selectMu allows one.
Pending == {r \in Requests : pc[r] \in {"admit", "gaugeUp"}}

\* The counts after c turns: every node has had q of them, and the first ones
\* of the order one more.
Dealt(c) == \E q \in Nat : \A n \in Nodes :
                requestCount[n] = IF n <= c % NumNodes THEN q + 1 ELSE q

(***************************************************************************)
(* RotationIsFair says how far the counts are apart, and not whose turn it *)
(* is: the counts follow the counter, but for a turn that was taken and is *)
(* not counted yet.                                                        *)
(***************************************************************************)
RotationInv ==
    (Algorithm = "rr" /\ Routable = Nodes /\ NoResetYet) =>
        /\ Pending = {} => Dealt(rrCounter)
        /\ \A r \in Pending :
              /\ rrCounter > 0
              /\ chosen[r] = ((rrCounter - 1) % NumNodes) + 1
              /\ Dealt(rrCounter - 1)

\* A number has one quotient and one remainder.
LEMMA OneRemainder ==
  ASSUME NEW d \in Nat \ {0}, NEW q1 \in Int, NEW q2 \in Int,
         NEW r1 \in 0..(d - 1), NEW r2 \in 0..(d - 1),
         d * q1 + r1 = d * q2 + r2
  PROVE  r1 = r2
  <1>1. ASSUME NEW x \in Int, NEW y \in Int, x >= y + 1
        PROVE  d * x >= d * y + d
    <2>1. d * (x - y - 1) >= 0
      BY <1>1
    <2>2. d * (x - y - 1) = d * x - d * y - d
      OBVIOUS
    <2>3. d * x \in Int /\ d * y \in Int
      OBVIOUS
    <2>4. QED
      BY <2>1, <2>2, <2>3
  <1>2. d * q1 \in Int /\ d * q2 \in Int
    OBVIOUS
  <1>3. ~(q1 >= q2 + 1) /\ ~(q2 >= q1 + 1)
    BY <1>1, <1>2
  <1>4. q1 = q2
    BY <1>3
  <1>5. QED
    BY <1>2, <1>4

\* After the last node comes the first.
LEMMA NextTurn ==
  ASSUME NEW c \in Nat
  PROVE  /\ c % NumNodes \in 0..(NumNodes - 1)
         /\ (c + 1) % NumNodes =
               IF c % NumNodes = NumNodes - 1 THEN 0 ELSE (c % NumNodes) + 1
  <1> DEFINE d == NumNodes
             q == c \div d
             m == c % d
             q1 == (c + 1) \div d
             m1 == (c + 1) % d
  <1>1. d \in Nat \ {0}
    BY NodesAssumption
  <1>2. /\ q \in Int /\ m \in 0..(d - 1) /\ c = d * q + m
        /\ q1 \in Int /\ m1 \in 0..(d - 1) /\ c + 1 = d * q1 + m1
    BY <1>1
  <1>3. /\ d * (q + 1) = d * q + d
        /\ d * q \in Int /\ d * (q + 1) \in Int /\ d * q1 \in Int
    BY <1>1, <1>2
  <1> HIDE DEF d, q, m, q1, m1
  <1>4. CASE m = d - 1
    <2>1. d * q1 + m1 = d * (q + 1) + 0
      BY <1>1, <1>2, <1>3, <1>4
    <2>2. m1 = 0
      BY <1>1, <1>2, <2>1, OneRemainder
    <2>3. QED
      BY <1>2, <1>4, <2>2 DEF d, m, m1
  <1>5. CASE m # d - 1
    <2>1. d * q1 + m1 = d * q + (m + 1)
      BY <1>2, <1>3, <1>5
    <2>2. m1 = m + 1
      BY <1>1, <1>2, <1>5, <2>1, OneRemainder
    <2>3. QED
      BY <1>2, <1>5, <2>2 DEF d, m, m1
  <1>6. QED
    BY <1>4, <1>5

\* Steps that take no turn and count none.
RotationSilent ==
    NoResetYet' =>
        /\ NoResetYet
        /\ UNCHANGED <<rrCounter, requestCount>>
        /\ Pending' = Pending
        /\ \A r \in Pending : chosen'[r] = chosen[r]

\* They keep the invariant.
LEMMA RotationSilentKeeps ==
  ASSUME RotationInv, RotationSilent
  PROVE  RotationInv'
  BY DEF RotationInv, RotationSilent, Dealt

\* Before a node is selected, and after it is counted.
LEMMA RotationRequest ==
  ASSUME LockInv, NEW r \in Requests,
         \/ Arrive(r) \/ LockSelection(r) \/ SnapshotForDecision(r)
         \/ ReadTelemetry(r) \/ DecayRT(r) \/ PublishDecisionInputs(r)
         \/ Admit(r)
         \/ Return(r) \/ Decrement(r) \/ Clamp(r) \/ PublishCompletion(r)
         \/ ObserveRT(r) \/ UpdateResponseMS(r) \/ StampRT(r) \/ EmitSample(r)
         \/ PublishRT(r)
  PROVE  RotationSilent
  <1> USE DEF LockInv, TypeOK, HandlerTypes, nodeVars, localVars,
          RotationSilent, NoResetYet, Pending, Goto, Visit
  <1>1. CASE Arrive(r) \/ LockSelection(r) \/ SnapshotForDecision(r)
    BY <1>1 DEF Arrive, LockSelection, SnapshotForDecision
  <1>2. CASE ReadTelemetry(r) \/ DecayRT(r) \/ PublishDecisionInputs(r)
    BY <1>2 DEF ReadTelemetry, DecayRT, PublishDecisionInputs
  <1>3. CASE Admit(r)
    BY <1>3 DEF Admit
  <1>4. CASE Return(r) \/ Decrement(r) \/ Clamp(r) \/ PublishCompletion(r)
    BY <1>4 DEF Return, Decrement, Clamp, PublishCompletion
  <1>5. CASE ObserveRT(r) \/ UpdateResponseMS(r) \/ StampRT(r)
    BY <1>5 DEF ObserveRT, UpdateResponseMS, StampRT
  <1>6. CASE EmitSample(r) \/ PublishRT(r)
    BY <1>6 DEF EmitSample, PublishRT
  <1>7. QED
    BY <1>1, <1>2, <1>3, <1>4, <1>5, <1>6

\* A reset that has begun ends the claim; nothing else touches turns.
LEMMA RotationElse ==
  ASSUME LockInv,
         \/ \E x \in Resetters : ResetStep(x) \/ ArriveReset(x)
         \/ \E n \in Nodes : Age(n)
         \/ WorkerReceives \/ UNCHANGED vars
  PROVE  RotationSilent
  <1> USE DEF LockInv, TypeOK, HandlerTypes, nodeVars, localVars,
          RotationSilent, NoResetYet, Pending, ResetGoto
  <1>1. ASSUME NEW x \in Resetters, ArriveReset(x)
        PROVE  RotationSilent
    BY <1>1 DEF ArriveReset
  <1>2. ASSUME NEW x \in Resetters, ResetStep(x)
        PROVE  ~NoResetYet'
    BY <1>2 DEF ResetStep, LockReset, ClearTelemetry, ResetRespMS,
                ResetCounters, ResetStamps, ResetRTGauge, ResetInflightGauge
  <1>3. CASE (\E n \in Nodes : Age(n)) \/ WorkerReceives \/ UNCHANGED vars
    BY <1>3 DEF Age, WorkerReceives, vars
  <1>4. QED
    BY <1>1, <1>2, <1>3

\* A selection takes the turn that the counter names.
LEMMA RotationSelect ==
  ASSUME LockInv, RotationInv, NEW r \in Requests, SelectBackend(r)
  PROVE  RotationInv'
  <1> SUFFICES ASSUME Algorithm = "rr", Routable = Nodes, NoResetYet'
               PROVE  RotationInv'
    BY DEF RotationInv
  <1>1. /\ pc[r] = "select" /\ pc' = [pc EXCEPT ![r] = "admit"]
        /\ pc \in [Requests -> RequestPCs]
        /\ rrCounter' = rrCounter + 1 /\ rrCounter \in Nat
        /\ chosen' = [chosen EXCEPT ![r] = (rrCounter % NumNodes) + 1]
        /\ chosen \in [Requests -> 0..NumNodes]
        /\ requestCount' = requestCount /\ NoResetYet
    BY DEF SelectBackend, Goto, Pick, LockInv, TypeOK, HandlerTypes,
           SelectionTypes, nodeVars, NoResetYet
  <1>2. Pending = {}
    BY <1>1 DEF Pending, LockInv, OneSelectionAtATime, Selecting
  <1>3. Pending' = {r}
    BY <1>1, <1>2 DEF Pending
  <1>4. Dealt(rrCounter)
    BY <1>1, <1>2 DEF RotationInv
  <1>5. /\ rrCounter' > 0 /\ rrCounter' - 1 = rrCounter
        /\ chosen'[r] = ((rrCounter' - 1) % NumNodes) + 1
    BY <1>1
  <1>6. Dealt(rrCounter - 1)'
    BY <1>1, <1>4, <1>5 DEF Dealt
  <1>7. QED
    BY <1>3, <1>5, <1>6 DEF RotationInv

\* It is counted on the node whose turn it was.
LEMMA RotationForward ==
  ASSUME LockInv, RotationInv, NEW r \in Requests, Forward(r)
  PROVE  RotationInv'
  <1> SUFFICES ASSUME Algorithm = "rr", Routable = Nodes, NoResetYet'
               PROVE  RotationInv'
    BY DEF RotationInv
  <1>1. /\ pc[r] = "gaugeUp" /\ pc' = [pc EXCEPT ![r] = "serving"]
        /\ pc \in [Requests -> RequestPCs]
        /\ rrCounter' = rrCounter /\ rrCounter \in Nat
        /\ requestCount' = [requestCount EXCEPT ![chosen[r]] = @ + 1]
        /\ requestCount \in [Nodes -> Nat]
        /\ NoResetYet
    BY DEF Forward, Goto, LockInv, TypeOK, HandlerTypes, SelectionTypes,
           NodeTypes, NoResetYet
  <1>2. /\ r \in Pending
        /\ \A s \in Requests : pc[s] \in {"admit", "gaugeUp"} => s = r
    BY <1>1 DEF Pending, LockInv, OneSelectionAtATime, Selecting
  <1>3. Pending' = {}
    BY <1>1, <1>2 DEF Pending
  <1>4. /\ rrCounter > 0 /\ chosen[r] = ((rrCounter - 1) % NumNodes) + 1
        /\ Dealt(rrCounter - 1)
    BY <1>1, <1>2 DEF RotationInv
  <1> DEFINE c == rrCounter - 1
             m == c % NumNodes
  <1>5. /\ c \in Nat /\ c + 1 = rrCounter
        /\ m \in 0..(NumNodes - 1) /\ chosen[r] = m + 1
        /\ rrCounter % NumNodes = IF m = NumNodes - 1 THEN 0 ELSE m + 1
    BY <1>1, <1>4, NextTurn
  <1>6. PICK q \in Nat : \A n \in Nodes :
          requestCount[n] = IF n <= m THEN q + 1 ELSE q
    BY <1>4 DEF Dealt
  <1> HIDE DEF m
  <1>7. \A n \in Nodes : /\ n \in 1..NumNodes
                         /\ requestCount'[n] = IF n <= m + 1 THEN q + 1 ELSE q
    <2>1. \A n \in Nodes : n \in 1..NumNodes
      BY DEF Nodes
    <2>2. \A n \in Nodes : requestCount'[n] =
             IF n = m + 1 THEN requestCount[n] + 1 ELSE requestCount[n]
      BY <1>1, <1>5
    <2>3. QED
      BY <1>5, <1>6, <2>1, <2>2
  <1>8. Dealt(rrCounter)'
    <2>1. CASE m = NumNodes - 1
      <3>1. \A n \in Nodes :
               requestCount'[n] = IF n <= rrCounter % NumNodes THEN (q + 1) + 1
                                  ELSE q + 1
        BY <1>5, <1>7, <2>1, NodesAssumption
      <3>2. q + 1 \in Nat
        OBVIOUS
      <3>3. QED
        BY <1>1, <3>1, <3>2 DEF Dealt
    <2>2. CASE m # NumNodes - 1
      <3>1. \A n \in Nodes :
               requestCount'[n] = IF n <= rrCounter % NumNodes THEN q + 1 ELSE q
        BY <1>5, <1>7, <2>2
      <3>2. QED
        BY <1>1, <3>1 DEF Dealt
    <2>3. QED
      BY <2>1, <2>2
  <1>9. QED
    BY <1>3, <1>8 DEF RotationInv

\* A selection of a node that cannot be routed to ends without being counted.
LEMMA RotationRefuse ==
  ASSUME LockInv, RotationInv, NEW r \in Requests, Refuse(r)
  PROVE  RotationInv'
  BY DEF Refuse, Goto, LockInv, ChosenOK, RotationInv

\* Every step keeps the invariant.
LEMMA RotationNext == LockInv /\ RotationInv /\ [Next]_vars => RotationInv'
  <1> SUFFICES ASSUME LockInv, RotationInv, [Next]_vars PROVE RotationInv'
    OBVIOUS
  <1>1. ASSUME NEW r \in Requests, HandlerStep(r) PROVE RotationInv'
    BY <1>1, RotationRequest, RotationSilentKeeps, RotationSelect,
       RotationForward, RotationRefuse
    DEF HandlerStep
  <1>2. CASE Environment \/ \E x \in Resetters : ResetStep(x)
    BY <1>2, RotationRequest, RotationElse, RotationSilentKeeps
    DEF Environment
  <1>3. CASE UNCHANGED vars
    BY <1>3, RotationElse, RotationSilentKeeps
  <1>4. QED
    BY <1>1, <1>2, <1>3 DEF Next

(***************************************************************************)
(* Part 7: theorems                                                        *)
(***************************************************************************)
\* Every reachable state is well typed: no counter, stamp or lock ever holds a
\* value the handlers do not expect, for any number of nodes and goroutines.
THEOREM TypeCorrect == Spec => []TypeOK
  <1>1. Spec => []LockInv
    BY LockInvInit, LockInvNext, PTL DEF Spec
  <1>2. LockInv => TypeOK
    BY DEF LockInv
  <1>3. QED
    BY <1>1, <1>2, PTL

\* selectMu really serialises every decision with every other and with every
\* telemetry reset.
THEOREM SelectionSerialised == Spec => []OneSelectionAtATime
  <1>1. Spec => []LockInv
    BY LockInvInit, LockInvNext, PTL DEF Spec
  <1>2. LockInv => OneSelectionAtATime
    BY DEF LockInv
  <1>3. QED
    BY <1>1, <1>2, PTL

\* Until the first reset the counter of a node is the number of requests between
\* their Add(1) and their Add(-1), whatever the interleaving.
THEOREM InflightAccounting == Spec => []InflightExact
  <1>1. Spec => [](LockInv /\ CountInv)
    BY LockInvInit, LockInvNext, CountInvInit, CountInvNext, PTL DEF Spec
  <1>2. CountInv => InflightExact
    BY DEF CountInv
  <1>3. QED
    BY <1>1, <1>2, PTL

\* Resets included, the counter of a node never shows more load than it has.
THEOREM InflightNotOverstated == Spec => []InflightNeverOverstates
  <1>1. Spec => [](LockInv /\ CountInv)
    BY LockInvInit, LockInvNext, CountInvInit, CountInvNext, PTL DEF Spec
  <1>2. CountInv => InflightNeverOverstates
    BY DEF CountInv
  <1>3. QED
    BY <1>1, <1>2, PTL

\* A counter is below zero only while completions are about to store 0, and by
\* no more than their number.
THEOREM NegativeInClampsOnly == Spec => []NegativeOnlyWhileClamping
  <1>1. Spec => [](LockInv /\ CountInv)
    BY LockInvInit, LockInvNext, CountInvInit, CountInvNext, PTL DEF Spec
  <1>2. CountInv => NegativeOnlyWhileClamping
    BY DEF CountInv
  <1>3. QED
    BY <1>1, <1>2, PTL

\* No decision is ever taken on a queue value below the load its node has by
\* the time the decision is counted.
THEOREM DecisionsSeeTheLoad == Spec => []DecisionNeverUnderestimates
  <1>1. Init => DecisionNeverUnderestimates
    BY DEF Init, DecisionNeverUnderestimates, HasRead
  <1>2. QED
    BY <1>1, LockInvInit, LockInvNext, ViewNext, PTL DEF Spec

\* Without resets, every latency that decisions score with has, or is about to
\* get, the time it decays from, however the completions of a node interleave.
THEOREM LatenciesDecay == Spec => []LatencyCanDecay
  <1>1. Init => LatencyCanDecay
    BY DEF Init, LatencyCanDecay
  <1>2. QED
    BY <1>1, LockInvInit, LockInvNext, DecayNext, PTL DEF Spec

\* Round robin deals the requests evenly, for any number of nodes and handlers
\* and however completions interleave with decisions.
THEOREM RotationDealsEvenly == Spec => []RotationIsFair
  <1>1. Init => RotationInv
    <2>1. ASSUME Init PROVE RotationInv
      <3>1. /\ rrCounter = 0 /\ requestCount = [n \in Nodes |-> 0]
            /\ \A r \in Requests : pc[r] = "new"
        BY <2>1 DEF Init
      <3>2. Pending = {} /\ 0 % NumNodes = 0
        BY <3>1, NodesAssumption DEF Pending
      <3>3. \A n \in Nodes : requestCount[n] = IF n <= 0 THEN 0 + 1 ELSE 0
        BY <3>1 DEF Nodes
      <3>4. Dealt(0)
        BY <3>2, <3>3 DEF Dealt
      <3>5. QED
        BY <3>1, <3>2, <3>4 DEF RotationInv
    <2>2. QED
      BY <2>1
  <1>2. RotationInv => RotationIsFair
    <2>1. ASSUME NEW c, Dealt(c)
          PROVE  \A m, n \in Nodes : requestCount[m] <= requestCount[n] + 1
      BY <2>1 DEF Dealt
    <2>2. QED
      BY <2>1 DEF RotationInv, RotationIsFair
  <1>3. QED
    BY <1>1, <1>2, LockInvInit, LockInvNext, RotationNext, PTL DEF Spec

\* The request path with its locks, loops, counters, repairs and resets
\* implements the dispatcher: every request is placed on a view of the load
\* that covers it, and taken off its node once.
THEOREM RefinesDispatcher == Spec => ImplementsDispatcher
  <1>1. Spec => [](LockInv /\ CountInv /\ DecisionNeverUnderestimates)
    <2>1. Init => DecisionNeverUnderestimates
      BY DEF Init, DecisionNeverUnderestimates, HasRead
    <2>2. QED
      BY <2>1, LockInvInit, LockInvNext, CountInvInit, CountInvNext, ViewNext,
         PTL DEF Spec
  <1>2. QED
    BY <1>1, PromiseInit, PromiseNext, PTL
    DEF Spec, ImplementsDispatcher, Promise!Spec

=============================================================================
