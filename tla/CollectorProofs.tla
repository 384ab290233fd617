--------------------------- MODULE CollectorProofs ---------------------------
(***************************************************************************)
(* Proofs about Collector, for every number of nodes and all times that    *)
(* satisfy TimesAssumption.                                                *)
(***************************************************************************)
EXTENDS Collector, TLAPS

(***************************************************************************)
(* Part 1: types                                                           *)
(***************************************************************************)

\* Ageing stays within the bound.
LEMMA OlderTyped == \A age \in MaybeAges : Older(age) \in MaybeAges
  BY TimesAssumption DEF MaybeAges, Ages, Never, Older

\* A weight is one of three.
LEMMA WeightTyped == \A reading, stampAge : Weight(reading, stampAge) \in Weights
  BY DEF Weight, Weights

\* The initial state has the types.
LEMMA TypeInit == Init => TypeOK
  BY TimesAssumption DEF Init, TypeOK, MaybeAges, Ages, Never, Weights

\* Time and backends preserve the types.
LEMMA TypeEnvironment ==
  ASSUME TypeOK,
         Tick \/ \E n \in Nodes : Sample(n) \/ Change(n)
  PROVE  TypeOK'
  <1> USE TimesAssumption
      DEF TypeOK, nodeVars, loopVars, roundVars, decisionVars, resetVars,
          backendVars
  <1>1. CASE Tick
    <2>1. /\ {backend', cpu', stamp', reply'} \subseteq [Nodes -> MaybeAges]
          /\ UNCHANGED seen
      BY <1>1, OlderTyped DEF Tick
    <2>2. wait' \in [Nodes -> 0..Timeout]
      BY <1>1 DEF Tick, CanWait, WithinTimeout
    <2>3. QED
      BY <1>1, <2>1, <2>2 DEF Tick
  <1>2. ASSUME NEW n \in Nodes, Sample(n) \/ Change(n)
        PROVE  TypeOK'
    BY <1>2 DEF Sample, Change, MaybeAges, Ages, Never
  <1>3. QED
    BY <1>1, <1>2

\* The collector preserves the types.
LEMMA TypeCollector ==
  ASSUME TypeOK,
         StartRound \/ EndRound \/ \E n \in Nodes : CollectStep(n)
  PROVE  TypeOK'
  <1> USE TimesAssumption
      DEF TypeOK, nodeVars, loopVars, roundVars, decisionVars, resetVars,
          backendVars, Step
  <1>1. CASE StartRound
    BY <1>1 DEF StartRound
  <1>2. CASE EndRound
    BY <1>2 DEF EndRound, MaybeAges
  <1>3. ASSUME NEW n \in Nodes, CollectStep(n)
        PROVE  TypeOK'
    <2>1. CASE Serve(n)
      BY <2>1 DEF Serve
    <2>2. CASE Fail(n)
      BY <2>2 DEF Fail, MaybeAges
    <2>3. CASE Receive(n)
      BY <2>3 DEF Receive, MaybeAges
    <2>4. CASE UpdateCPU(n)
      BY <2>4 DEF UpdateCPU, MaybeAges, Ages
    <2>5. CASE ReadForGauge(n)
      BY <2>5 DEF ReadForGauge
    <2>6. CASE PublishCPUState(n)
      BY <2>6, WeightTyped DEF PublishCPUState, MaybeAges
    <2>7. QED
      BY <1>3, <2>1, <2>2, <2>3, <2>4, <2>5, <2>6 DEF CollectStep
  <1>4. QED
    BY <1>1, <1>2, <1>3

\* Decisions and resets preserve the types.
LEMMA TypeSelection ==
  ASSUME TypeOK,
         \/ DecisionDecays \/ DecisionPublishes
         \/ \E n \in Nodes : \/ DecisionReadsCPU(n) \/ ResetCPU(n)
                             \/ ResetStamp(n) \/ ResetGauge(n)
  PROVE  TypeOK'
  <1> USE TimesAssumption
      DEF TypeOK, nodeVars, loopVars, roundVars, decisionVars, resetVars,
          backendVars
  <1>1. CASE DecisionDecays
    BY <1>1, WeightTyped DEF DecisionDecays
  <1>2. CASE DecisionPublishes
    BY <1>2 DEF DecisionPublishes, MaybeAges, Weights
  <1>3. ASSUME NEW n \in Nodes, DecisionReadsCPU(n)
        PROVE  TypeOK'
    BY <1>3 DEF DecisionReadsCPU
  <1>4. ASSUME NEW n \in Nodes, ResetCPU(n) \/ ResetStamp(n) \/ ResetGauge(n)
        PROVE  TypeOK'
    BY <1>4 DEF ResetCPU, ResetStamp, ResetGauge, MaybeAges, Weights
  <1>5. QED
    BY <1>1, <1>2, <1>3, <1>4

\* Every step preserves the types.
LEMMA TypeStep == TypeOK /\ [Next]_vars => TypeOK'
  <1> SUFFICES ASSUME TypeOK, [Next]_vars PROVE TypeOK'
    OBVIOUS
  <1>1. CASE UNCHANGED vars
    BY <1>1 DEF TypeOK, vars, backendVars, nodeVars, loopVars, roundVars,
                decisionVars, resetVars
  <1>2. CASE Next
    BY <1>2, TypeEnvironment, TypeCollector, TypeSelection DEF Next
  <1>3. QED
    BY <1>1, <1>2

\* The collector, the decisions and the resets keep the type of every
\* variable, whatever the times and however many nodes there are.
THEOREM TypeCorrect == Spec => []TypeOK
  BY TypeInit, TypeStep, PTL DEF Spec

(***************************************************************************)
(* Part 2: a stamp vouches for its reading                                 *)
(***************************************************************************)

\* A reading that looks fresh is younger than the TTL and what the backend's
\* clock is ahead, clipped at 0 or not.
LEMMA LooksFresh ==
  ASSUME NEW age \in Ages, NEW sampleAge \in SampleAges(age), sampleAge <= TTL
  PROVE  age <= TTL + Lead
  <1>1. PICK error \in (-Lead)..Lag :
            sampleAge = IF age + error < 0 THEN 0 ELSE age + error
    BY DEF SampleAges
  <1>2. CASE age + error < 0
    BY <1>1, <1>2, TimesAssumption DEF Ages
  <1>3. CASE ~(age + error < 0)
    BY <1>1, <1>3, TimesAssumption DEF Ages
  <1>4. QED
    BY <1>2, <1>3

\* A reply that is about to be stored has passed the freshness check.  No tick
\* comes in between, so it is as fresh when it is stored.
StoredIsFresh ==
    \A n \in Nodes :
        pc[n] = "store" => reply[n] # Never /\ reply[n] <= TTL + Lead

FreshInv == TypeOK /\ StoredIsFresh /\ StampVouchesForReading

\* Nothing is stored in the initial state.
LEMMA FreshInit == Init => FreshInv
  BY TypeInit DEF Init, FreshInv, StoredIsFresh, StampVouchesForReading

\* Every step keeps what is about to be stored fresh, and the readings within
\* TTL and Lead of their stamps.
LEMMA FreshStep == FreshInv /\ [Next]_vars => FreshInv'
  <1> SUFFICES ASSUME FreshInv, [Next]_vars
               PROVE  StoredIsFresh' /\ StampVouchesForReading'
    BY TypeStep DEF FreshInv
  <1> USE TimesAssumption
      DEF FreshInv, TypeOK, StoredIsFresh, StampVouchesForReading, MaybeAges,
          Ages, Never, nodeVars, loopVars, roundVars, decisionVars, resetVars,
          backendVars, Step
  <1>1. CASE UNCHANGED vars
    BY <1>1 DEF vars
  <1>2. CASE Tick
    <2>1. \A n \in Nodes : pc[n] # "store"
      BY <1>2 DEF Tick, CanWait
    <2>2. \A n \in Nodes : cpu'[n] = Older(cpu[n]) /\ stamp'[n] = Older(stamp[n])
      BY <1>2 DEF Tick
    <2>3. ASSUME NEW c \in MaybeAges, NEW s \in MaybeAges,
                 c # Never /\ s # Never => c <= s + (TTL + Lead),
                 Older(c) # Never, Older(s) # Never
          PROVE  Older(c) <= Older(s) + (TTL + Lead)
      <3> DEFINE d == TTL + Lead
      <3>1. d \in Nat
        OBVIOUS
      <3> HIDE DEF d
      <3>2. c \in 0..MaxAge /\ s \in 0..MaxAge /\ c <= s + d
        BY <2>3 DEF Older, d
      <3>3. Older(c) <= Older(s) + d
        BY <3>1, <3>2 DEF Older
      <3>4. QED
        BY <3>3 DEF d
    <2>4. \A n \in Nodes : cpu[n] \in MaybeAges /\ stamp[n] \in MaybeAges
      OBVIOUS
    <2>5. StampVouchesForReading'
      BY <2>2, <2>3, <2>4
    <2>6. QED
      BY <1>2, <2>1, <2>5 DEF Tick
  <1>3. CASE StartRound \/ EndRound \/ DecisionDecays \/ DecisionPublishes
    BY <1>3 DEF StartRound, EndRound, DecisionDecays, DecisionPublishes
  <1>4. ASSUME NEW n \in Nodes, CollectStep(n)
        PROVE  StoredIsFresh' /\ StampVouchesForReading'
    <2>1. CASE Serve(n) \/ Fail(n)
      BY <2>1 DEF Serve, Fail
    <2>2. CASE Receive(n)
      <3>1. pc'[n] = "store" => reply'[n] # Never /\ reply'[n] <= TTL + Lead
        BY <2>2, LooksFresh DEF Receive
      <3>2. QED
        BY <2>2, <3>1 DEF Receive
    <2>3. CASE UpdateCPU(n)
      BY <2>3 DEF UpdateCPU
    <2>4. CASE ReadForGauge(n) \/ PublishCPUState(n)
      BY <2>4 DEF ReadForGauge, PublishCPUState
    <2>5. QED
      BY <1>4, <2>1, <2>2, <2>3, <2>4 DEF CollectStep
  <1>5. ASSUME NEW n \in Nodes,
               \/ Sample(n) \/ Change(n) \/ DecisionReadsCPU(n)
               \/ ResetCPU(n) \/ ResetStamp(n) \/ ResetGauge(n)
        PROVE  StoredIsFresh' /\ StampVouchesForReading'
    BY <1>5 DEF Sample, Change, DecisionReadsCPU, ResetCPU, ResetStamp,
                ResetGauge
  <1>6. QED
    BY <1>1, <1>2, <1>3, <1>4, <1>5 DEF Next

\* A reading is older than its stamp by no more than the TTL and what its
\* backend's clock is ahead, although it is stamped with the time of its
\* arrival: for all times, differences of clocks, nodes and resets.
THEOREM StampsVouch == Spec => []StampVouchesForReading
  <1>1. FreshInv => StampVouchesForReading
    BY DEF FreshInv
  <1>2. QED
    BY <1>1, FreshInit, FreshStep, PTL DEF Spec

(***************************************************************************)
(* Part 3: without a reset, what is served was observed, and recently      *)
(***************************************************************************)

\* A goroutine that ends its round with a reply in hand has stored it, and
\* only a reset takes it away again.
ReplyIsStored ==
    \A n \in Nodes :
        /\ rpc[n] = "done"
        /\ pc[n] \in {"publish", "gauge", "done"} /\ reply[n] # Never =>
              cpu[n] # Never /\ stamp[n] # Never

\* A decision under way is about a node, and was taken after start-up.
ReadIsCurrent ==
    dpc \in {"read", "weighed"} => phase = "serving" /\ looking \in Nodes

ObservedInv ==
    /\ FreshInv
    /\ ReadIsCurrent
    /\ resets = 0 => ReplyIsStored
    /\ ServingAfterEveryNodeObserved
    /\ FullWeightIsRecent

\* Nothing is served in the initial state.
LEMMA ObservedInit == Init => ObservedInv
  BY FreshInit DEF Init, ObservedInv, ReadIsCurrent, ReplyIsStored,
     ServingAfterEveryNodeObserved, FullWeightIsRecent

\* Every step keeps observed what was observed before a reset.
LEMMA ObservedStep == ObservedInv /\ [Next]_vars => ObservedInv'
  <1> SUFFICES ASSUME ObservedInv, [Next]_vars
               PROVE  /\ ReadIsCurrent'
                      /\ resets' = 0 => ReplyIsStored'
                      /\ ServingAfterEveryNodeObserved'
                      /\ FullWeightIsRecent'
    BY FreshStep DEF ObservedInv
  <1> DEFINE Goal == /\ ReadIsCurrent'
                     /\ resets' = 0 => ReplyIsStored'
                     /\ ServingAfterEveryNodeObserved'
                     /\ FullWeightIsRecent'
  <1> USE TimesAssumption
      DEF ObservedInv, FreshInv, TypeOK, StoredIsFresh,
          StampVouchesForReading, ReadIsCurrent, ReplyIsStored,
          ServingAfterEveryNodeObserved, FullWeightIsRecent, MaybeAges, Ages,
          Never, nodeVars, loopVars, roundVars, decisionVars, resetVars,
          backendVars, Step
  <1>1. CASE UNCHANGED vars
    BY <1>1 DEF vars
  <1>2. CASE Tick
    <2>1. \A a \in MaybeAges : a # Never => Older(a) # Never
      BY DEF Older
    <2>2. dpc' = "idle"
      BY <1>2 DEF Tick, CanWait
    <2>3. \A n \in Nodes : Older(reply[n]) # Never => reply[n] # Never
      BY DEF Older
    <2>4. \A n \in Nodes : /\ cpu'[n] = Older(cpu[n])
                           /\ stamp'[n] = Older(stamp[n])
                           /\ reply'[n] = Older(reply[n])
      BY <1>2 DEF Tick
    <2>5. resets' = 0 => ReplyIsStored'
      BY <1>2, <2>1, <2>3, <2>4 DEF Tick
    <2>6. ServingAfterEveryNodeObserved'
      BY <1>2, <2>1, <2>4 DEF Tick
    <2>7. QED
      BY <2>2, <2>5, <2>6
  <1>3. CASE StartRound
    BY <1>3 DEF StartRound
  <1>4. CASE EndRound
    BY <1>4 DEF EndRound
  <1>5. ASSUME NEW n \in Nodes, CollectStep(n)
        PROVE  Goal
    <2>1. CASE Serve(n)
      BY <2>1 DEF Serve
    <2>2. CASE Fail(n)
      BY <2>2 DEF Fail
    <2>3. CASE Receive(n)
      BY <2>3 DEF Receive
    <2>4. CASE UpdateCPU(n)
      BY <2>4 DEF UpdateCPU
    <2>5. CASE ReadForGauge(n)
      BY <2>5 DEF ReadForGauge
    <2>6. CASE PublishCPUState(n)
      BY <2>6 DEF PublishCPUState
    <2>7. QED
      BY <1>5, <2>1, <2>2, <2>3, <2>4, <2>5, <2>6 DEF CollectStep
  <1>6. ASSUME NEW n \in Nodes, DecisionReadsCPU(n)
        PROVE  Goal
    BY <1>6 DEF DecisionReadsCPU
  <1>7. CASE DecisionDecays
    BY <1>7 DEF DecisionDecays, Weight
  <1>8. CASE DecisionPublishes
    BY <1>8 DEF DecisionPublishes
  <1>9. ASSUME NEW n \in Nodes, ResetCPU(n) \/ ResetStamp(n) \/ ResetGauge(n)
        PROVE  Goal
    BY <1>9 DEF ResetCPU, ResetStamp, ResetGauge
  <1>10. ASSUME NEW n \in Nodes, Sample(n) \/ Change(n)
         PROVE  Goal
    BY <1>10 DEF Sample, Change
  <1>11. QED
    BY <1>1, <1>2, <1>3, <1>4, <1>5, <1>6, <1>7, <1>8, <1>9, <1>10 DEF Next

\* StartCollector does not let main serve before every node was observed, for
\* any number of nodes.
THEOREM ObservedBeforeServing == Spec => []ServingAfterEveryNodeObserved
  <1>1. ObservedInv => ServingAfterEveryNodeObserved
    BY DEF ObservedInv
  <1>2. QED
    BY <1>1, ObservedInit, ObservedStep, PTL DEF Spec

\* Without a reset no decision takes a CPU older than the TTL, StaleAfter and
\* what the backend's clock is ahead at full weight, unless it is being replaced
\* at that moment: for all times and differences of clocks.
THEOREM FullWeightsAreRecent == Spec => []FullWeightIsRecent
  <1>1. ObservedInv => FullWeightIsRecent
    BY DEF ObservedInv
  <1>2. QED
    BY <1>1, ObservedInit, ObservedStep, PTL DEF Spec

(***************************************************************************)
(* Part 4: the collector implements Readings                               *)
(***************************************************************************)

\* selectMu: a reset and a decision are never under way together.
OneHolder == dpc # "idle" => \A n \in Nodes : rpc[n] = "done"

\* Nothing is weighed before the decision has read the stamp.
WeightIsOfDecision == dpc # "weighed" => weight = "zero"

\* Only a reset takes a reading away, and none does during a decision: a
\* decision that found a reading weighs one that is there, if another.
ReadingStays == dpc = "read" /\ dcpu # Never => cpu[looking] # Never

\* Before a reset, the goroutine between the two reads of publishCPUState
\* holds the CPU of the node; start-up knows no resets.
SeenIsCurrent ==
    /\ resets = 0 => \A n \in Nodes : pc[n] = "gauge" => seen[n] = cpu[n]
    /\ resets > 0 => phase = "serving"
    /\ \A n \in Nodes : rpc[n] # "done" => resets > 0

PromiseInv ==
    /\ ObservedInv
    /\ OneHolder /\ WeightIsOfDecision /\ ReadingStays /\ SeenIsCurrent

\* No decision, no reset and no goroutine is under way at the start.
LEMMA PromiseInit == Init => PromiseInv
  BY ObservedInit
     DEF Init, PromiseInv, OneHolder, WeightIsOfDecision, ReadingStays,
         SeenIsCurrent

\* Every step keeps decisions and resets apart, and the local copies of the
\* CPU true.
LEMMA PromiseStep == PromiseInv /\ [Next]_vars => PromiseInv'
  <1> DEFINE Goal == /\ OneHolder' /\ WeightIsOfDecision' /\ ReadingStays'
                     /\ SeenIsCurrent'
  <1> SUFFICES ASSUME PromiseInv, [Next]_vars
               PROVE  Goal
    BY ObservedStep DEF PromiseInv
  <1> USE TimesAssumption
      DEF PromiseInv, ObservedInv, FreshInv, TypeOK, StoredIsFresh,
          ReadIsCurrent, OneHolder, WeightIsOfDecision, ReadingStays,
          SeenIsCurrent, MaybeAges, Ages, Never, nodeVars, loopVars,
          roundVars, decisionVars, resetVars, backendVars, Step
  <1>1. CASE UNCHANGED vars
    BY <1>1 DEF vars
  <1>2. CASE Tick
    BY <1>2 DEF Tick, CanWait
  <1>3. CASE StartRound \/ EndRound
    BY <1>3 DEF StartRound, EndRound
  <1>4. ASSUME NEW n \in Nodes, CollectStep(n)
        PROVE  Goal
    <2>1. CASE Serve(n) \/ Fail(n) \/ Receive(n)
      BY <2>1 DEF Serve, Fail, Receive
    <2>2. CASE UpdateCPU(n)
      BY <2>2 DEF UpdateCPU
    <2>3. CASE ReadForGauge(n)
      BY <2>3 DEF ReadForGauge
    <2>4. CASE PublishCPUState(n)
      BY <2>4 DEF PublishCPUState
    <2>5. QED
      BY <1>4, <2>1, <2>2, <2>3, <2>4 DEF CollectStep
  <1>5. ASSUME NEW n \in Nodes, DecisionReadsCPU(n)
        PROVE  Goal
    BY <1>5 DEF DecisionReadsCPU, SelectionFree
  <1>6. CASE DecisionDecays \/ DecisionPublishes
    BY <1>6 DEF DecisionDecays, DecisionPublishes
  <1>7. ASSUME NEW n \in Nodes, ResetCPU(n)
        PROVE  Goal
    BY <1>7 DEF ResetCPU, SelectionFree
  <1>8. ASSUME NEW n \in Nodes, ResetStamp(n) \/ ResetGauge(n)
        PROVE  Goal
    BY <1>8 DEF ResetStamp, ResetGauge
  <1>9. ASSUME NEW n \in Nodes, Sample(n) \/ Change(n)
        PROVE  Goal
    BY <1>9 DEF Sample, Change
  <1>10. QED
    BY <1>1, <1>2, <1>3, <1>4, <1>5, <1>6, <1>7, <1>8, <1>9 DEF Next

\* The two say the same of what is left of a reading.
LEMMA LeftIsWeight ==
  ASSUME TypeOK, NEW n \in Nodes
  PROVE  Promise!Left(n) = Weight(cpu[n], stamp[n])
  BY TimesAssumption
     DEF TypeOK, Promise!Left, Weight, Promise!Never, Never, MaybeAges, Ages

\* A weight asks of a reading only whether there is one.
LEMMA WeightOfAny ==
  ASSUME NEW c \in MaybeAges, NEW d \in MaybeAges, NEW s \in MaybeAges,
         c # Never, d # Never
  PROVE  Weight(c, s) = Weight(d, s)
  BY DEF Weight

\* The collector starts where the readings start.
LEMMA PromiseStarts == Init => Promise!Init
  BY DEF Init, Promise!Init, Settled, Promise!Never, Never

\* Time passes for both alike.
LEMMA TickPasses ==
  ASSUME PromiseInv, Tick
  PROVE  Promise!Pass
  <1>1. \A a \in MaybeAges : Older(a) = Promise!After(a)
    BY DEF Older, Promise!After, Promise!Never, Never
  <1>2. \A n \in Nodes : cpu[n] \in MaybeAges /\ stamp[n] \in MaybeAges
    BY DEF PromiseInv, ObservedInv, FreshInv, TypeOK
  <1>3. /\ cpu' = [n \in Nodes |-> Promise!After(cpu[n])]
        /\ stamp' = [n \in Nodes |-> Promise!After(stamp[n])]
    BY <1>1, <1>2 DEF Tick
  <1>4. ~Settled /\ ~Settled'
    BY DEF Tick, CanWait, Settled, decisionVars
  <1>5. QED
    BY <1>3, <1>4
       DEF Tick, Promise!Pass, Promise!Undecided, decisionVars, resetVars

\* The steps of the environment and of a round that readings do not see.
LEMMA UnseenSteps ==
  ASSUME UNCHANGED <<nodeVars, phase, decisionVars, resets>>
  PROVE  UNCHANGED Promise!rvars
  BY DEF Promise!rvars, Settled, nodeVars, decisionVars

\* The end of the first complete round opens.
LEMMA EndRoundOpens ==
  ASSUME PromiseInv, EndRound
  PROVE  Promise!Open \/ UNCHANGED Promise!rvars
  <1> USE DEF EndRound, nodeVars, decisionVars, resetVars
  <1>1. CASE phase = "starting" /\ \A n \in Nodes : reply[n] # Never
    <2>1. resets = 0
      BY <1>1, TimesAssumption
         DEF PromiseInv, ObservedInv, FreshInv, TypeOK, SeenIsCurrent
    <2>2. \A n \in Nodes : cpu[n] # Never /\ stamp[n] # Never
      BY <1>1, <2>1 DEF PromiseInv, ObservedInv, ReplyIsStored
    <2>3. QED
      BY <1>1, <2>2 DEF Promise!Open, Promise!Never, Never, Settled
  <1>2. CASE ~(phase = "starting" /\ \A n \in Nodes : reply[n] # Never)
    <2>1. phase' = phase
      BY <1>2 DEF PromiseInv, ObservedInv, FreshInv, TypeOK
    <2>2. QED
      BY <2>1, UnseenSteps
  <1>3. QED
    BY <1>1, <1>2

\* A goroutine of a round learns, shows, or does nothing that counts.
LEMMA CollectLearns ==
  ASSUME PromiseInv, NEW n \in Nodes, CollectStep(n)
  PROVE  Promise!Learn(n) \/ Promise!Show(n) \/ UNCHANGED Promise!rvars
  <1>1. CASE Serve(n) \/ Fail(n) \/ Receive(n) \/ ReadForGauge(n)
    BY <1>1, UnseenSteps
       DEF Serve, Fail, Receive, ReadForGauge, loopVars, resetVars
  <1>2. CASE UpdateCPU(n)
    <2>1. reply[n] \in 0..(TTL + Lead)
      BY <1>2, TimesAssumption
         DEF UpdateCPU, Step, PromiseInv, ObservedInv, FreshInv, TypeOK,
             StoredIsFresh, MaybeAges, Ages, Never
    <2>2. QED
      BY <1>2, <2>1
         DEF UpdateCPU, Promise!Learn, Settled, loopVars, decisionVars,
             resetVars
  <1>3. CASE PublishCPUState(n)
    <2>1. resets > 0 \/ seen[n] = cpu[n]
      BY <1>3, TimesAssumption
         DEF PublishCPUState, Step, PromiseInv, ObservedInv, FreshInv, TypeOK,
             SeenIsCurrent
    <2>2. \/ resets > 0
          \/ Weight(seen[n], stamp[n]) = Promise!Left(n)
      BY <2>1, LeftIsWeight DEF PromiseInv, ObservedInv, FreshInv
    <2>3. Weight(seen[n], stamp[n]) \in Promise!Shares
      BY WeightTyped DEF Promise!Shares, Weights
    <2>4. QED
      BY <1>3, <2>2, <2>3
         DEF PublishCPUState, Promise!Show, Settled, loopVars, decisionVars,
             resetVars
  <1>4. QED
    BY <1>1, <1>2, <1>3 DEF CollectStep

\* A decision that finds no reading has consulted its node with that; one that
\* finds a reading consults it when it reads the stamp.
LEMMA DecisionConsults ==
  ASSUME PromiseInv,
         DecisionDecays \/ \E n \in Nodes : DecisionReadsCPU(n)
  PROVE  \/ \E n \in Nodes : Promise!Consult(n)
         \/ UNCHANGED Promise!rvars
  <1> USE DEF PromiseInv, ObservedInv, FreshInv, WeightIsOfDecision, nodeVars,
              loopVars, resetVars, Promise!Undecided
  <1>1. ASSUME NEW n \in Nodes, DecisionReadsCPU(n), cpu[n] = Never
        PROVE  Promise!Consult(n)
    <2>1. Promise!Left(n) = "zero"
      BY <1>1, LeftIsWeight DEF Weight
    <2>2. weight' = "zero" /\ ~Settled /\ Settled' /\ looking' = n
      BY <1>1 DEF DecisionReadsCPU, SelectionFree, Settled
    <2>3. QED
      BY <1>1, <2>1, <2>2 DEF DecisionReadsCPU, Promise!Consult
  <1>2. ASSUME NEW n \in Nodes, DecisionReadsCPU(n), cpu[n] # Never
        PROVE  UNCHANGED Promise!rvars
    BY <1>2 DEF DecisionReadsCPU, SelectionFree, Settled, Promise!rvars
  <1>3. CASE DecisionDecays /\ dcpu = Never
    <2>1. weight' = "zero" /\ weight = "zero"
      BY <1>3 DEF DecisionDecays, Weight
    <2>2. Settled /\ Settled'
      BY <1>3 DEF DecisionDecays, Settled
    <2>3. QED
      BY <1>3, <2>1, <2>2 DEF DecisionDecays, Promise!rvars
  <1>4. CASE DecisionDecays /\ dcpu # Never
    <2>1. looking \in Nodes /\ phase = "serving" /\ cpu[looking] # Never
      BY <1>4 DEF DecisionDecays, ReadIsCurrent, ReadingStays
    <2>2. weight' = Promise!Left(looking)
      <3>1. /\ cpu[looking] \in MaybeAges /\ stamp[looking] \in MaybeAges
            /\ dcpu \in MaybeAges
        BY <2>1 DEF TypeOK
      <3>2. Weight(dcpu, stamp[looking]) = Weight(cpu[looking], stamp[looking])
        BY <1>4, <2>1, <3>1, WeightOfAny
      <3>3. QED
        BY <1>4, <2>1, <3>2, LeftIsWeight DEF DecisionDecays
    <2>3. ~Settled /\ Settled' /\ looking' = looking
      BY <1>4 DEF DecisionDecays, Settled
    <2>4. QED
      BY <1>4, <2>1, <2>2, <2>3 DEF DecisionDecays, Promise!Consult
  <1>5. QED
    BY <1>1, <1>2, <1>3, <1>4

\* A decision ends with the share it has settled.
LEMMA DecisionEnds ==
  ASSUME PromiseInv, DecisionPublishes
  PROVE  Promise!Decide
  <1>1. looking \in Nodes /\ looking # NoNode
    BY TimesAssumption
       DEF DecisionPublishes, PromiseInv, ObservedInv, ReadIsCurrent
  <1>2. Settled /\ ~Settled'
    BY DEF DecisionPublishes, Settled
  <1>3. QED
    BY <1>1, <1>2
       DEF DecisionPublishes, Promise!Decide, Promise!Undecided, loopVars,
           resetVars

\* A reset forgets a reading and its time, between decisions.
LEMMA ResetForgets ==
  ASSUME PromiseInv, NEW n \in Nodes,
         ResetCPU(n) \/ ResetStamp(n) \/ ResetGauge(n)
  PROVE  \/ Promise!Forget(n) \/ Promise!ForgetTime(n) \/ Promise!Show(n)
  <1>1. dpc = "idle" /\ dpc' = "idle"
    BY DEF ResetCPU, ResetStamp, ResetGauge, SelectionFree, decisionVars,
           PromiseInv, OneHolder
  <1>2. ~Settled /\ ~Settled'
    BY <1>1 DEF Settled
  <1> USE <1>2 DEF Promise!Undecided, loopVars, decisionVars
  <1>3. CASE ResetCPU(n)
    <2>1. resets' > 0
      BY <1>3, TimesAssumption
         DEF ResetCPU, PromiseInv, ObservedInv, FreshInv, TypeOK
    <2>2. QED
      BY <1>3, <2>1 DEF ResetCPU, Promise!Forget, Promise!Never, Never
  <1>4. CASE ResetStamp(n)
    BY <1>4 DEF ResetStamp, Promise!ForgetTime, PromiseInv, SeenIsCurrent,
                Promise!Never, Never
  <1>5. CASE ResetGauge(n)
    <2>1. resets > 0
      BY <1>5 DEF ResetGauge, PromiseInv, SeenIsCurrent
    <2>2. QED
      BY <1>5, <2>1 DEF ResetGauge, Promise!Show, Promise!Shares
  <1>6. QED
    BY <1>3, <1>4, <1>5

\* Every step of the collector is a step of the readings, or none.
LEMMA PromiseKept ==
  PromiseInv /\ [Next]_vars => [Promise!Next]_Promise!rvars
  <1> SUFFICES ASSUME PromiseInv, [Next]_vars
               PROVE  [Promise!Next]_Promise!rvars
    OBVIOUS
  <1>1. CASE UNCHANGED vars
    BY <1>1, UnseenSteps DEF vars, loopVars, resetVars
  <1>2. CASE Tick
    BY <1>2, TickPasses DEF Promise!Next
  <1>3. CASE StartRound
    BY <1>3, UnseenSteps DEF StartRound, resetVars
  <1>4. CASE EndRound
    BY <1>4, EndRoundOpens DEF Promise!Next
  <1>5. ASSUME NEW n \in Nodes, CollectStep(n)
        PROVE  [Promise!Next]_Promise!rvars
    BY <1>5, CollectLearns DEF Promise!Next
  <1>6. CASE DecisionDecays \/ \E n \in Nodes : DecisionReadsCPU(n)
    BY <1>6, DecisionConsults DEF Promise!Next
  <1>7. CASE DecisionPublishes
    BY <1>7, DecisionEnds DEF Promise!Next
  <1>8. ASSUME NEW n \in Nodes, ResetCPU(n) \/ ResetStamp(n) \/ ResetGauge(n)
        PROVE  [Promise!Next]_Promise!rvars
    BY <1>8, ResetForgets DEF Promise!Next
  <1>9. ASSUME NEW n \in Nodes, Sample(n) \/ Change(n)
        PROVE  UNCHANGED Promise!rvars
    BY <1>9, UnseenSteps DEF Sample, Change, loopVars, resetVars
  <1>10. QED
    BY <1>1, <1>2, <1>3, <1>4, <1>5, <1>6, <1>7, <1>8, <1>9 DEF Next

\* Collector, decisions and resets implement the abstract readings: what is
\* learned is fresh by its backend's clock, nothing is decided before every
\* node has a reading, and although a decision reads CPU and stamp in two steps,
\* with updates between them, what counts in it is what counted in one moment.
THEOREM RefinesReadings == Spec => ImplementsReadings
  <1>1. Init => Promise!Init
    BY PromiseStarts
  <1>2. QED
    BY <1>1, PromiseInit, PromiseStep, PromiseKept, PTL
       DEF Spec, ImplementsReadings, Promise!Spec

=============================================================================
