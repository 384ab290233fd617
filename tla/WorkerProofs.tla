---------------------------- MODULE WorkerProofs ----------------------------
(***************************************************************************)
(* Proofs about DatasetWorker, for any nodes, latencies and bounds and any *)
(* way a failed write may cut a line.                                      *)
(***************************************************************************)
EXTENDS DatasetWorker, ListProofs

(***************************************************************************)
(* Part 1: lines and files                                                 *)
(***************************************************************************)

\* Of every line of the file some column is there.
Written == {line \in Lines : line.width > 0}

\* A header and a row are lines.
LEMMA WholeLines ==
  ASSUME req \in [Nodes -> Nat], rtSum \in [Nodes -> Nat], rtN \in [Nodes -> Nat]
  PROVE  /\ Header \in Written /\ Row \in Written
         /\ Header.kind = "whole" /\ Row.kind = "whole"
         /\ Header.rtSum = Zero /\ Header.rtN = Zero
         /\ Row.rtSum = rtSum /\ Row.rtN = rtN
  BY DEF Header, Row, Line, Written, Lines, Columns, Zero

\* The front of a line is one, and counts nothing.
LEMMA TornLines ==
  ASSUME NEW line \in Written, NEW cut \in Cuts
  PROVE  /\ Torn(line, cut) \in Written
         /\ Torn(line, cut).rtSum = Zero /\ Torn(line, cut).rtN = Zero
  <1>1. cut \in Nat /\ cut > 0 /\ Zero \in [Nodes -> Nat]
    BY WorkerAssumption DEF Zero
  <1>2. line.of \in {"header", "row", "mixed"} /\ line.cells \in [Nodes -> Nat]
    BY DEF Written, Lines
  <1>3. QED
    BY <1>1, <1>2 DEF Torn, Written, Lines

\* Two that were glued are one, and it counts what the second does.
LEMMA GluedLines ==
  ASSUME NEW torn \in Written, NEW line \in Written
  PROVE  /\ Glued(torn, line) \in Written
         /\ Glued(torn, line).rtSum = line.rtSum
         /\ Glued(torn, line).rtN = line.rtN
  <1> DEFINE cells == IF torn.width = 1 THEN line.cells ELSE torn.cells
             of == IF torn.width = 1 THEN line.of
                   ELSE IF torn.width > Needed THEN torn.of ELSE "mixed"
             kind == IF line.kind = "torn" THEN "torn" ELSE "garbled"
  <1>1. /\ cells \in [Nodes -> Nat] /\ of \in {"header", "row", "mixed"}
        /\ kind \in {"torn", "garbled"}
    BY DEF Written, Lines
  <1>2. torn.width + line.width - 1 \in Nat /\ torn.width + line.width - 1 > 0
    BY DEF Written, Lines
  <1>3. /\ line.req \in [Nodes -> Nat] /\ line.rtSum \in [Nodes -> Nat]
        /\ line.rtN \in [Nodes -> Nat]
    BY DEF Written, Lines
  <1>4. Glued(torn, line) =
          [kind |-> kind, width |-> torn.width + line.width - 1, of |-> of,
           cells |-> cells, req |-> line.req, rtSum |-> line.rtSum,
           rtN |-> line.rtN]
    BY DEF Glued
  <1> HIDE DEF cells, of, kind
  <1>5. QED
    BY <1>1, <1>2, <1>3, <1>4 DEF Written, Lines

\* The first members of a sequence.
LEMMA Prefix ==
  ASSUME NEW S, NEW s \in Seq(S), NEW k \in 0..Len(s)
  PROVE  /\ SubSeq(s, 1, k) \in Seq(S) /\ Len(SubSeq(s, 1, k)) = k
         /\ \A i \in 1..k : SubSeq(s, 1, k)[i] = s[i]
  <1>1. k \in Int /\ 1 \in Int /\ \A i \in 1..k : s[i] \in S
    OBVIOUS
  <1>2. /\ SubSeq(s, 1, k) \in Seq(S)
        /\ Len(SubSeq(s, 1, k)) = IF 1 <= k THEN k - 1 + 1 ELSE 0
        /\ \A i \in 1..(k - 1 + 1) : SubSeq(s, 1, k)[i] = s[1 + i - 1]
    BY <1>1, SubSeqProperties
  <1>3. \A i \in 1..k : i \in 1..(k - 1 + 1) /\ 1 + i - 1 = i
    BY <1>1
  <1>4. QED
    BY <1>2, <1>3

\* A sequence without its last member.
LEMMA FrontOf ==
  ASSUME NEW S, NEW s \in Seq(S), s # <<>>
  PROVE  /\ Len(s) \in Nat \ {0} /\ Last(s) \in S
         /\ Front(s) \in Seq(S) /\ Len(Front(s)) = Len(s) - 1
         /\ \A i \in 1..(Len(s) - 1) : Front(s)[i] = s[i]
  <1>1. Len(s) \in Nat \ {0} /\ \A i \in 1..Len(s) : s[i] \in S
    OBVIOUS
  <1>2. /\ SubSeq(s, 1, Len(s) - 1) \in Seq(S)
        /\ Len(SubSeq(s, 1, Len(s) - 1)) = Len(s) - 1
        /\ \A i \in 1..(Len(s) - 1) : SubSeq(s, 1, Len(s) - 1)[i] = s[i]
    <2>1. Len(s) - 1 \in 0..Len(s)
      BY <1>1
    <2>2. QED
      BY <2>1, Prefix
  <1>3. QED
    BY <1>1, <1>2 DEF Front, Last


\* What appending makes of a file: its last line changes or one is added, and
\* only a torn line is ever changed.
LEMMA Appending ==
  ASSUME NEW f \in Seq(Written), NEW line \in Written
  PROVE  LET g == AppendLine(f, line)
         IN  /\ g \in Seq(Written) /\ Len(g) > 0
             /\ \A i \in 1..(Len(g) - 1) : i \in DOMAIN f /\ g[i] = f[i]
             /\ g[Len(g)].rtSum = line.rtSum /\ g[Len(g)].rtN = line.rtN
             /\ \/ Len(g) = Len(f) + 1 /\ g[Len(g)] = line
                \/ Len(g) = Len(f) /\ f[Len(f)].kind = "torn"
  <1>1. CASE EndsTorn(f)
    <2>1. f # <<>> /\ f[Len(f)].kind = "torn"
      BY <1>1 DEF EndsTorn, Last
    <2>2. /\ Len(f) \in Nat \ {0} /\ Last(f) \in Written
          /\ Front(f) \in Seq(Written) /\ Len(Front(f)) = Len(f) - 1
          /\ \A i \in 1..(Len(f) - 1) : Front(f)[i] = f[i]
      BY <2>1, FrontOf
    <2>3. /\ Glued(Last(f), line) \in Written
          /\ Glued(Last(f), line).rtSum = line.rtSum
          /\ Glued(Last(f), line).rtN = line.rtN
      BY <2>2, GluedLines
    <2>4. AppendLine(f, line) = Append(Front(f), Glued(Last(f), line))
      BY <1>1 DEF AppendLine
    <2>5. /\ AppendLine(f, line) \in Seq(Written)
          /\ Len(AppendLine(f, line)) = Len(f)
          /\ \A i \in 1..(Len(f) - 1) : AppendLine(f, line)[i] = f[i]
          /\ AppendLine(f, line)[Len(f)] = Glued(Last(f), line)
      BY <2>2, <2>3, <2>4
    <2>6. QED
      BY <2>1, <2>2, <2>3, <2>5
  <1>2. CASE ~EndsTorn(f)
    BY <1>2 DEF AppendLine
  <1>3. QED
    BY <1>1, <1>2

\* A file that was appended to, or was not, is a file and no shorter.
LEMMA AppendedTyped ==
  ASSUME NEW f \in Seq(Written), NEW line \in Written,
         NEW g \in FailedAppends(f, line) \cup {AppendLine(f, line)}
  PROVE  g \in Seq(Written) /\ Len(g) >= Len(f)
  <1>1. CASE g = f
    BY <1>1
  <1>2. CASE g = AppendLine(f, line)
    BY <1>2, Appending
  <1>3. ASSUME NEW cut \in Cuts, g = AppendLine(f, Torn(line, cut))
        PROVE  g \in Seq(Written) /\ Len(g) >= Len(f)
    <2>1. Torn(line, cut) \in Written
      BY TornLines
    <2>2. QED
      BY <1>3, <2>1, Appending
  <1>4. QED
    BY <1>1, <1>2, <1>3 DEF FailedAppends

\* What is known of the variables the proofs are about.
Types ==
    /\ decisionC \in Seq(Nodes) /\ responseC \in Seq(Nodes \X Latencies)
    /\ req \in [Nodes -> Nat] /\ rtSum \in [Nodes -> Nat] /\ rtN \in [Nodes -> Nat]
    /\ file \in Seq(Written)
    /\ synced \in 0..Len(file)
    /\ restarts \in Nat

\* The steps that leave the file as it is, and the process alive.
Elsewhere ==
    \/ \E n \in Nodes : SendDecision(n) \/ \E ms \in Latencies : SendSample(n, ms)
    \/ StartDraining \/ OpenExisting
    \/ AccumulateSnapshot \/ AccumulateResponseSample
    \/ DrainSnapshot \/ DrainSample
    \/ Tick \/ SyncRow \/ UNCHANGED vars

\* How many lines survive, and which of them are on disk, keeps its range.
LEMMA SyncedTyped ==
  ASSUME Types, file' \in Seq(Written), synced' = StillSynced(file, file'),
         Len(file') >= Len(file)
  PROVE  synced' \in 0..Len(file')
  BY DEF Types, StillSynced, EndsTorn

\* They may sync it, and change the window by what was received.
LEMMA FileElsewhere ==
  ASSUME Types, Elsewhere
  PROVE  /\ file' = file /\ restarts' = restarts
         /\ synced' \in {synced, Len(file)}
  <1> USE DEF bufferVars, aggVars, fileVars, history, bounds
  <1>1. CASE \E n \in Nodes : SendDecision(n) \/ \E ms \in Latencies : SendSample(n, ms)
    BY <1>1 DEF SendDecision, SendSample
  <1>2. CASE StartDraining \/ OpenExisting
    BY <1>2 DEF StartDraining, OpenExisting
  <1>3. CASE AccumulateSnapshot \/ AccumulateResponseSample
    BY <1>3 DEF AccumulateSnapshot, AccumulateResponseSample
  <1>4. CASE DrainSnapshot \/ DrainSample
    BY <1>4 DEF DrainSnapshot, DrainSample
  <1>5. CASE Tick
    BY <1>5 DEF Tick
  <1>6. CASE SyncRow
    BY <1>6 DEF SyncRow
  <1>7. CASE UNCHANGED vars
    BY <1>7 DEF vars
  <1>8. QED
    BY <1>1, <1>2, <1>3, <1>4, <1>5, <1>6, <1>7 DEF Elsewhere

\* They receive what was sent, and count it.
LEMMA WindowElsewhere ==
  ASSUME Types, Elsewhere
  PROVE  /\ decisionC' \in Seq(Nodes)
         /\ responseC' \in Seq(Nodes \X Latencies)
         /\ req' \in [Nodes -> Nat]
         /\ rtSum' \in [Nodes -> Nat] /\ rtN' \in [Nodes -> Nat]
  <1> USE DEF bufferVars, aggVars, fileVars, history, bounds
  <1>1. CASE \E n \in Nodes : SendDecision(n) \/ \E ms \in Latencies : SendSample(n, ms)
    <2>1. PICK n \in Nodes : SendDecision(n) \/ \E ms \in Latencies : SendSample(n, ms)
      BY <1>1
    <2>2. CASE SendDecision(n)
      BY <2>2 DEF SendDecision, Types
    <2>3. ASSUME NEW ms \in Latencies, SendSample(n, ms)
          PROVE  /\ responseC' \in Seq(Nodes \X Latencies)
                 /\ UNCHANGED <<decisionC, req, rtSum, rtN>>
      <3>1. <<n, ms>> \in Nodes \X Latencies
        OBVIOUS
      <3>2. /\ responseC' = Append(responseC, <<n, ms>>)
            /\ UNCHANGED <<decisionC, req, rtSum, rtN>>
        BY <2>3 DEF SendSample
      <3>3. QED
        BY <3>1, <3>2 DEF Types
    <2>4. QED
      BY <2>1, <2>2, <2>3 DEF Types
  <1>2. CASE StartDraining \/ OpenExisting
    BY <1>2 DEF StartDraining, OpenExisting, Types
  <1>3. CASE AccumulateSnapshot
    <2>1. PICK n \in Nodes : n = Head(decisionC) /\ Tail(decisionC) \in Seq(Nodes)
      BY <1>3, HeadTailProperties DEF AccumulateSnapshot, Types
    <2>2. /\ decisionC' = Tail(decisionC) /\ req' = [req EXCEPT ![n] = @ + 1]
          /\ UNCHANGED <<responseC, rtSum, rtN>>
      BY <1>3, <2>1 DEF AccumulateSnapshot
    <2>3. req' \in [Nodes -> Nat]
      BY <2>2 DEF Types
    <2>4. QED
      BY <2>1, <2>2, <2>3 DEF Types
  <1>4. CASE AccumulateResponseSample
    <2>1. /\ Head(responseC) \in Nodes \X Latencies
          /\ Tail(responseC) \in Seq(Nodes \X Latencies)
      BY <1>4, HeadTailProperties DEF AccumulateResponseSample, Types
    <2>2. PICK n \in Nodes, ms \in Nat :
             Head(responseC)[1] = n /\ Head(responseC)[2] = ms
      BY <2>1, WorkerAssumption
    <2>3. /\ responseC' = Tail(responseC) /\ UNCHANGED <<decisionC, req>>
          /\ \/ UNCHANGED <<rtSum, rtN>>
             \/ /\ rtSum' = [rtSum EXCEPT ![n] = @ + ms]
                /\ rtN' = [rtN EXCEPT ![n] = @ + 1]
      BY <1>4, <2>2 DEF AccumulateResponseSample
    <2>4. rtSum' \in [Nodes -> Nat] /\ rtN' \in [Nodes -> Nat]
      <3>1. rtSum \in [Nodes -> Nat] /\ rtN \in [Nodes -> Nat]
        BY DEF Types
      <3>2. CASE UNCHANGED <<rtSum, rtN>>
        BY <3>1, <3>2
      <3>3. CASE rtSum' = [rtSum EXCEPT ![n] = @ + ms] /\ rtN' = [rtN EXCEPT ![n] = @ + 1]
        <4>1. rtSum[n] + ms \in Nat /\ rtN[n] + 1 \in Nat
          BY <3>1
        <4>2. QED
          BY <3>1, <3>3, <4>1
      <3>4. QED
        BY <2>3, <3>2, <3>3
    <2>5. QED
      BY <2>1, <2>3, <2>4 DEF Types
  <1>5. CASE DrainSnapshot
    BY <1>5, HeadTailProperties DEF DrainSnapshot, Types
  <1>6. CASE DrainSample
    BY <1>6, HeadTailProperties DEF DrainSample, Types
  <1>7. CASE Tick
    BY <1>7 DEF Tick, Types
  <1>8. CASE SyncRow
    <2>1. Zero \in [Nodes -> Nat]
      BY DEF Zero
    <2>2. /\ UNCHANGED <<decisionC, responseC>>
          /\ \/ req' = Zero /\ rtSum' = Zero /\ rtN' = Zero
             \/ UNCHANGED <<req, rtSum, rtN>>
      BY <1>8 DEF SyncRow
    <2>3. QED
      BY <2>1, <2>2 DEF Types
  <1>9. CASE UNCHANGED vars
    BY <1>9 DEF vars, Types
  <1>10. QED
    BY <1>1, <1>2, <1>3, <1>4, <1>5, <1>6, <1>7, <1>8, <1>9 DEF Elsewhere

\* Every step keeps the types.
LEMMA TypesInductive == Types /\ [Next]_vars => Types'
  <1> SUFFICES ASSUME Types, [Next]_vars PROVE Types'
    OBVIOUS
  <1> USE DEF bufferVars, aggVars, fileVars, history, bounds
  <1>1. CASE Elsewhere
    <2>1. synced' \in 0..Len(file')
      BY <1>1, FileElsewhere DEF Types
    <2>2. QED
      BY <1>1, <2>1, FileElsewhere, WindowElsewhere DEF Types
  <1>2. CASE WriteHeader
    <2>1. file = <<>> /\ (file' = AppendLine(file, Header) \/ file' \in FailedAppends(file, Header))
      BY <1>2 DEF WriteHeader
    <2>2. file' \in Seq(Written) /\ Len(file') >= 0
      BY <2>1, WholeLines, AppendedTyped DEF Types
    <2>3. synced = 0 /\ synced' = synced
      BY <1>2, <2>1 DEF Types, WriteHeader
    <2>4. UNCHANGED <<decisionC, responseC, req, rtSum, rtN, restarts>>
      BY <1>2 DEF WriteHeader
    <2>5. QED
      BY <2>2, <2>3, <2>4 DEF Types
  <1>3. CASE WriteRow
    <2>1. \/ file' = file
          \/ file' = AppendLine(file, Row)
          \/ file' \in FailedAppends(file, Row)
      BY <1>3 DEF WriteRow
    <2>2. file' \in Seq(Written) /\ Len(file') >= Len(file)
      <3>1. CASE file' = file
        BY <3>1 DEF Types
      <3>2. CASE file' # file
        BY <2>1, <3>2, WholeLines, AppendedTyped DEF Types
      <3>3. QED
        BY <3>1, <3>2
    <2>3. synced' \in 0..Len(file')
      BY <1>3, <2>2, SyncedTyped DEF WriteRow
    <2>4. UNCHANGED <<decisionC, responseC, req, rtSum, rtN, restarts>>
      BY <1>3 DEF WriteRow
    <2>5. QED
      BY <2>2, <2>3, <2>4 DEF Types
  <1>4. CASE Crash \/ PowerLoss
    <2>1. /\ decisionC' = <<>> /\ responseC' = <<>> /\ req' = Zero /\ rtSum' = Zero /\ rtN' = Zero
          /\ restarts' = restarts + 1
      BY <1>4 DEF Crash, PowerLoss, LoseMemory
    <2>2. file' \in Seq(Written) /\ synced' \in 0..Len(file')
      <3>1. CASE Crash
        BY <3>1 DEF Crash, Types
      <3>2. CASE PowerLoss
        <4>1. PICK k \in synced..Len(file) :
                /\ synced' = k
                /\ \/ file' = SubSeq(file, 1, k)
                   \/ /\ k < Len(file)
                      /\ \E cut \in Cuts :
                            file' = AppendLine(SubSeq(file, 1, k),
                                               Torn(file[k + 1], cut))
          BY <3>2 DEF PowerLoss
        <4>2. /\ SubSeq(file, 1, k) \in Seq(Written) /\ Len(SubSeq(file, 1, k)) = k
              /\ k \in 0..Len(file)
          BY <4>1, Prefix DEF Types
        <4>3. CASE file' = SubSeq(file, 1, k)
          BY <4>1, <4>2, <4>3
        <4>4. CASE file' # SubSeq(file, 1, k)
          <5>1. PICK cut \in Cuts :
                  file' = AppendLine(SubSeq(file, 1, k), Torn(file[k + 1], cut))
            BY <4>1, <4>4
          <5>2. file[k + 1] \in Written
            BY <4>1, <4>2, <4>4 DEF Types
          <5>3. file' \in Seq(Written) /\ Len(file') >= k
            <6>1. file' \in FailedAppends(SubSeq(file, 1, k), file[k + 1])
              BY <5>1 DEF FailedAppends
            <6>2. QED
              BY <4>2, <5>2, <6>1, AppendedTyped
          <5>4. QED
            BY <4>1, <4>2, <5>3
        <4>5. QED
          BY <4>3, <4>4
      <3>3. QED
        BY <1>4, <3>1, <3>2
    <2>3. QED
      BY <2>1, <2>2 DEF Zero, Types
  <1>5. CASE ClearDataset
    BY <1>5 DEF ClearDataset, Types
  <1>6. QED
    BY <1>1, <1>2, <1>3, <1>4, <1>5 DEF Next, Elsewhere

\* They hold at first.
LEMMA TypesInit == Init => Types
  BY DEF Init, Types, Zero

(***************************************************************************)
(* Part 2: latencies                                                       *)
(***************************************************************************)
\* A sum of k measured latencies, as far as bounds tell.
Mean(sum, k) ==
    \/ k = 0 /\ sum = 0
    \/ \E lo, hi \in Latencies \ {0} : lo * k <= sum /\ sum <= hi * k

\* The window and every line hold such sums.
MeanInv ==
    /\ \A n \in Nodes : Mean(rtSum[n], rtN[n])
    /\ \A i \in DOMAIN file : \A n \in Nodes : Mean(file[i].rtSum[n], file[i].rtN[n])

\* A product grows with its factor.
LEMMA Products ==
  ASSUME NEW a \in Nat, NEW b \in Nat, NEW k \in Nat, a <= b
  PROVE  a * k <= b * k
  OBVIOUS

\* Adding a latency to a sum and one to its count leaves such a sum.
LEMMA MeanGrows ==
  ASSUME NEW sum \in Nat, NEW k \in Nat, Mean(sum, k),
         NEW ms \in Latencies, ms > 0
  PROVE  Mean(sum + ms, k + 1)
  <1>1. ms \in Latencies \ {0} /\ ms \in Nat
    BY WorkerAssumption
  <1>2. CASE k = 0 /\ sum = 0
    <2>1. ms * (k + 1) <= sum + ms /\ sum + ms <= ms * (k + 1)
      BY <1>1, <1>2
    <2>2. QED
      BY <1>1, <2>1 DEF Mean
  <1>3. ASSUME NEW lo \in Latencies \ {0}, NEW hi \in Latencies \ {0},
               lo * k <= sum, sum <= hi * k
        PROVE  Mean(sum + ms, k + 1)
    <2>1. lo \in Nat /\ hi \in Nat
      BY WorkerAssumption
    <2>2. \E l \in Latencies \ {0} : l * (k + 1) <= sum + ms
      <3>1. CASE lo <= ms
        <4>1. lo * (k + 1) = lo * k + lo
          BY <2>1
        <4>2. lo * k \in Nat
          BY <2>1
        <4>3. lo * (k + 1) <= sum + ms
          BY <1>1, <1>3, <2>1, <3>1, <4>1, <4>2
        <4>4. QED
          BY <4>3
      <3>2. CASE ms <= lo
        <4>1. ms * (k + 1) = ms * k + ms /\ ms * k <= lo * k
          BY <1>1, <2>1, <3>2, Products
        <4>2. lo * k \in Nat /\ ms * k \in Nat
          BY <1>1, <2>1
        <4>3. ms * (k + 1) <= sum + ms
          BY <1>1, <1>3, <4>1, <4>2
        <4>4. QED
          BY <1>1, <4>3
      <3>3. QED
        BY <1>1, <2>1, <3>1, <3>2
    <2>3. \E h \in Latencies \ {0} : sum + ms <= h * (k + 1)
      <3>1. CASE ms <= hi
        <4>1. hi * (k + 1) = hi * k + hi
          BY <2>1
        <4>2. hi * k \in Nat
          BY <2>1
        <4>3. sum + ms <= hi * (k + 1)
          BY <1>1, <1>3, <2>1, <3>1, <4>1, <4>2
        <4>4. QED
          BY <4>3
      <3>2. CASE hi <= ms
        <4>1. ms * (k + 1) = ms * k + ms /\ hi * k <= ms * k
          BY <1>1, <2>1, <3>2, Products
        <4>2. hi * k \in Nat /\ ms * k \in Nat
          BY <1>1, <2>1
        <4>3. sum + ms <= ms * (k + 1)
          BY <1>1, <1>3, <4>1, <4>2
        <4>4. QED
          BY <1>1, <4>3
      <3>3. QED
        BY <1>1, <2>1, <3>1, <3>2
    <2>4. QED
      BY <2>2, <2>3 DEF Mean
  <1>4. QED
    BY <1>2, <1>3 DEF Mean

\* A file of such sums to which one is appended is a file of such sums.
LEMMA MeanAppended ==
  ASSUME NEW f \in Seq(Written), NEW line \in Written,
         \A i \in DOMAIN f : \A n \in Nodes : Mean(f[i].rtSum[n], f[i].rtN[n]),
         \A n \in Nodes : Mean(line.rtSum[n], line.rtN[n]),
         NEW g \in FailedAppends(f, line) \cup {AppendLine(f, line)}
  PROVE  \A i \in DOMAIN g : \A n \in Nodes : Mean(g[i].rtSum[n], g[i].rtN[n])
  <1>1. CASE g = f
    BY <1>1
  <1>2. ASSUME NEW l \in Written, g = AppendLine(f, l),
               \A n \in Nodes : Mean(l.rtSum[n], l.rtN[n])
        PROVE  \A i \in DOMAIN g : \A n \in Nodes : Mean(g[i].rtSum[n], g[i].rtN[n])
    <2>1. /\ g \in Seq(Written) /\ Len(g) > 0
          /\ \A i \in 1..(Len(g) - 1) : i \in DOMAIN f /\ g[i] = f[i]
          /\ g[Len(g)].rtSum = l.rtSum /\ g[Len(g)].rtN = l.rtN
      BY <1>2, Appending
    <2>2. SUFFICES ASSUME NEW i \in DOMAIN g, NEW n \in Nodes
                   PROVE  Mean(g[i].rtSum[n], g[i].rtN[n])
      OBVIOUS
    <2>3. i \in 1..(Len(g) - 1) \/ i = Len(g)
      BY <2>1, <2>2
    <2>4. QED
      BY <1>2, <2>1, <2>3
  <1>3. ASSUME NEW cut \in Cuts, g = AppendLine(f, Torn(line, cut))
        PROVE  \A i \in DOMAIN g : \A n \in Nodes : Mean(g[i].rtSum[n], g[i].rtN[n])
    <2>1. /\ Torn(line, cut) \in Written
          /\ Torn(line, cut).rtSum = Zero /\ Torn(line, cut).rtN = Zero
      BY TornLines
    <2>2. \A n \in Nodes : Mean(Torn(line, cut).rtSum[n], Torn(line, cut).rtN[n])
      BY <2>1 DEF Mean, Zero
    <2>3. QED
      BY <1>2, <1>3, <2>1, <2>2
  <1>4. QED
    BY <1>1, <1>2, <1>3 DEF FailedAppends

\* The window after a step that leaves the file alone.
LEMMA MeanWindow ==
  ASSUME Types, MeanInv, Elsewhere
  PROVE  \A n \in Nodes : Mean(rtSum'[n], rtN'[n])
  <1> USE DEF bufferVars, aggVars, fileVars, history, bounds
  <1>1. CASE UNCHANGED <<rtSum, rtN>>
    BY <1>1 DEF MeanInv
  <1>2. CASE AccumulateResponseSample
    <2>1. Head(responseC) \in Nodes \X Latencies
      BY <1>2, HeadTailProperties DEF AccumulateResponseSample, Types
    <2>2. PICK m \in Nodes, ms \in Latencies :
             Head(responseC)[1] = m /\ Head(responseC)[2] = ms
      BY <2>1
    <2>3. \/ UNCHANGED <<rtSum, rtN>>
          \/ /\ ms > 0
             /\ rtSum' = [rtSum EXCEPT ![m] = @ + ms]
             /\ rtN' = [rtN EXCEPT ![m] = @ + 1]
      BY <1>2, <2>2 DEF AccumulateResponseSample
    <2>4. CASE /\ ms > 0
               /\ rtSum' = [rtSum EXCEPT ![m] = @ + ms]
               /\ rtN' = [rtN EXCEPT ![m] = @ + 1]
      <3>1. Mean(rtSum[m], rtN[m]) /\ rtSum[m] \in Nat /\ rtN[m] \in Nat
        BY DEF MeanInv, Types
      <3>2. Mean(rtSum[m] + ms, rtN[m] + 1)
        BY <2>4, <3>1, MeanGrows
      <3>3. rtSum'[m] = rtSum[m] + ms /\ rtN'[m] = rtN[m] + 1
        BY <2>4 DEF Types
      <3>4. \A n \in Nodes \ {m} : rtSum'[n] = rtSum[n] /\ rtN'[n] = rtN[n]
        BY <2>4 DEF Types
      <3>5. QED
        BY <3>2, <3>3, <3>4 DEF MeanInv
    <2>5. QED
      BY <1>1, <2>3, <2>4
  <1>3. CASE SyncRow
    <2>1. \/ rtSum' = rtSum /\ rtN' = rtN
          \/ rtSum' = Zero /\ rtN' = Zero
      BY <1>3 DEF SyncRow
    <2>2. CASE rtSum' = Zero /\ rtN' = Zero
      BY <2>2 DEF Mean, Zero
    <2>3. QED
      BY <1>1, <2>1, <2>2
  <1>4. CASE \/ \E n \in Nodes : SendDecision(n) \/ \E ms \in Latencies : SendSample(n, ms)
             \/ StartDraining \/ OpenExisting \/ AccumulateSnapshot
             \/ DrainSnapshot \/ DrainSample \/ Tick \/ UNCHANGED vars
    BY <1>1, <1>4 DEF SendDecision, SendSample, StartDraining, OpenExisting,
       AccumulateSnapshot, DrainSnapshot, DrainSample, Tick, vars
  <1>5. QED
    BY <1>2, <1>3, <1>4 DEF Elsewhere

\* What a power loss leaves of the file: its first lines, and perhaps the
\* front of the next.
LEMMA AfterPowerLoss ==
  ASSUME Types, PowerLoss
  PROVE  \E k \in 0..Len(file) :
            \/ file' = SubSeq(file, 1, k)
            \/ /\ k < Len(file) /\ file[k + 1] \in Written
               /\ \E cut \in Cuts :
                    file' = AppendLine(SubSeq(file, 1, k), Torn(file[k + 1], cut))
  <1>1. PICK k \in synced..Len(file) :
          \/ file' = SubSeq(file, 1, k)
          \/ /\ k < Len(file)
             /\ \E cut \in Cuts :
                  file' = AppendLine(SubSeq(file, 1, k), Torn(file[k + 1], cut))
    BY DEF PowerLoss
  <1>2. k \in 0..Len(file)
    BY DEF Types
  <1>3. k < Len(file) => file[k + 1] \in Written
    BY <1>2 DEF Types
  <1>4. QED
    BY <1>1, <1>2, <1>3

\* Every step keeps window and file such sums.
LEMMA MeanInductive == Types /\ MeanInv /\ [Next]_vars => MeanInv'
  <1> SUFFICES ASSUME Types, MeanInv, [Next]_vars PROVE MeanInv'
    OBVIOUS
  <1> USE DEF bufferVars, aggVars, fileVars, history, bounds
  <1>1. CASE Elsewhere
    BY <1>1, MeanWindow, FileElsewhere DEF MeanInv
  <1>2. CASE WriteHeader
    <2>1. /\ file' \in FailedAppends(file, Header) \cup {AppendLine(file, Header)}
          /\ UNCHANGED <<rtSum, rtN>>
      BY <1>2 DEF WriteHeader
    <2>2. \A n \in Nodes : Mean(Header.rtSum[n], Header.rtN[n])
      BY WholeLines DEF Mean, Zero, Types
    <2>3. Header \in Written
      BY WholeLines DEF Types
    <2>4. \A i \in DOMAIN file' : \A n \in Nodes : Mean(file'[i].rtSum[n], file'[i].rtN[n])
      BY <2>1, <2>2, <2>3, MeanAppended DEF Types, MeanInv
    <2>5. QED
      BY <2>1, <2>4 DEF MeanInv
  <1>3. CASE WriteRow
    <2>1. /\ file' \in FailedAppends(file, Row) \cup {AppendLine(file, Row)}
          /\ UNCHANGED <<rtSum, rtN>>
      BY <1>3 DEF WriteRow, FailedAppends
    <2>2. \A n \in Nodes : Mean(Row.rtSum[n], Row.rtN[n])
      BY WholeLines DEF Types, MeanInv
    <2>3. Row \in Written
      BY WholeLines DEF Types
    <2>4. \A i \in DOMAIN file' : \A n \in Nodes : Mean(file'[i].rtSum[n], file'[i].rtN[n])
      BY <2>1, <2>2, <2>3, MeanAppended DEF Types, MeanInv
    <2>5. QED
      BY <2>1, <2>4 DEF MeanInv
  <1>4. CASE Crash
    <2>1. file' = file /\ rtSum' = Zero /\ rtN' = Zero
      BY <1>4 DEF Crash, LoseMemory
    <2>2. QED
      BY <2>1 DEF MeanInv, Mean, Zero
  <1>5. CASE PowerLoss
    <2>1. rtSum' = Zero /\ rtN' = Zero
      BY <1>5 DEF PowerLoss, LoseMemory
    <2>2. PICK k \in 0..Len(file) :
            \/ file' = SubSeq(file, 1, k)
            \/ /\ k < Len(file) /\ file[k + 1] \in Written
               /\ \E cut \in Cuts :
                    file' = AppendLine(SubSeq(file, 1, k), Torn(file[k + 1], cut))
      BY <1>5, AfterPowerLoss
    <2>3. /\ SubSeq(file, 1, k) \in Seq(Written) /\ Len(SubSeq(file, 1, k)) = k
          /\ \A i \in 1..k : SubSeq(file, 1, k)[i] = file[i]
      BY Prefix DEF Types
    <2>4. \A i \in DOMAIN SubSeq(file, 1, k) : \A n \in Nodes :
             Mean(SubSeq(file, 1, k)[i].rtSum[n], SubSeq(file, 1, k)[i].rtN[n])
      BY <2>3 DEF MeanInv, Types
    <2>5. \A i \in DOMAIN file' : \A n \in Nodes : Mean(file'[i].rtSum[n], file'[i].rtN[n])
      <3>1. CASE file' = SubSeq(file, 1, k)
        BY <2>4, <3>1
      <3>2. CASE file' # SubSeq(file, 1, k)
        <4>1. /\ k + 1 \in DOMAIN file /\ file[k + 1] \in Written
              /\ file' \in FailedAppends(SubSeq(file, 1, k), file[k + 1])
          BY <2>2, <3>2 DEF FailedAppends, Types
        <4>2. \A n \in Nodes : Mean(file[k + 1].rtSum[n], file[k + 1].rtN[n])
          BY <4>1 DEF MeanInv
        <4>3. QED
          BY <2>3, <2>4, <4>1, <4>2, MeanAppended
      <3>3. QED
        BY <3>1, <3>2
    <2>6. QED
      BY <2>1, <2>5 DEF MeanInv, Mean, Zero
  <1>6. CASE ClearDataset
    <2>1. file' = <<>> /\ UNCHANGED <<rtSum, rtN>>
      BY <1>6 DEF ClearDataset
    <2>2. QED
      BY <2>1 DEF MeanInv
  <1>7. QED
    BY <1>1, <1>2, <1>3, <1>4, <1>5, <1>6 DEF Next, Elsewhere

\* The latency column of a row is an average of latencies that were measured.
THEOREM LatenciesAreAverages == Spec => []LatencyIsAnAverage
  <1>1. Init => MeanInv
    BY DEF Init, MeanInv, Mean, Zero
  <1>2. MeanInv => LatencyIsAnAverage
    BY DEF MeanInv, Mean, LatencyIsAnAverage
  <1>3. QED
    BY <1>1, <1>2, TypesInit, TypesInductive, MeanInductive, PTL DEF Spec

(***************************************************************************)
(* Part 3: bad lines                                                       *)
(***************************************************************************)

Bad(f) == {i \in DOMAIN f : f[i].kind # "whole"}

(***************************************************************************)
(* OneBadLinePerRun does not say when a run may spoil a line.  It has not  *)
(* yet while it records and its writer holds no error; and a power loss    *)
(* that spoils another takes the last line first.                          *)
(***************************************************************************)
BadInv ==
    /\ Cardinality(Bad(file)) <= restarts + 1
    /\ Cardinality(Bad(file) \ {Len(file)}) <= restarts
    /\ mode = "starting" \/ (mode = "recording" /\ ~werr)
          => Cardinality(Bad(file)) <= restarts

\* The bad lines of a file are finitely many, and fewer lines are no more.
LEMMA BadFinite ==
  ASSUME NEW f \in Seq(Written), NEW T \in SUBSET Bad(f)
  PROVE  /\ IsFiniteSet(Bad(f)) /\ IsFiniteSet(T)
         /\ Cardinality(T) \in Nat /\ Cardinality(Bad(f)) \in Nat
         /\ Cardinality(T) <= Cardinality(Bad(f))
  <1>1. IsFiniteSet(1..Len(f))
    BY FS_Interval
  <1>2. Bad(f) \in SUBSET (1..Len(f))
    BY DEF Bad
  <1>3. IsFiniteSet(Bad(f))
    BY <1>1, <1>2, FS_Subset
  <1>4. IsFiniteSet(T) /\ Cardinality(T) <= Cardinality(Bad(f))
    BY <1>3, FS_Subset
  <1>5. QED
    BY <1>3, <1>4, FS_CardinalityType

\* A line that is appended is the only one that can become bad, and a whole
\* one cannot: what it is glued to was bad already.
LEMMA BadAppended ==
  ASSUME NEW f \in Seq(Written), NEW line \in Written
  PROVE  LET g == AppendLine(f, line)
         IN  /\ g \in Seq(Written)
             /\ Bad(g) \subseteq Bad(f) \cup {Len(f) + 1}
             /\ Bad(g) \ {Len(g)} \subseteq Bad(f)
             /\ line.kind = "whole" => Bad(g) \subseteq Bad(f)
  <1> DEFINE g == AppendLine(f, line)
  <1>1. /\ g \in Seq(Written) /\ Len(g) > 0
        /\ \A i \in 1..(Len(g) - 1) : i \in DOMAIN f /\ g[i] = f[i]
        /\ \/ Len(g) = Len(f) + 1 /\ g[Len(g)] = line
           \/ Len(g) = Len(f) /\ f[Len(f)].kind = "torn"
    BY Appending
  <1> HIDE DEF g
  <1>2. Len(g) \in Nat /\ Len(f) \in Nat /\ DOMAIN g = 1..Len(g) /\ DOMAIN f = 1..Len(f)
    BY <1>1
  <1>3. ASSUME NEW i \in Bad(g), i # Len(g)
        PROVE  i \in Bad(f)
    <2>1. i \in 1..(Len(g) - 1)
      BY <1>2, <1>3 DEF Bad
    <2>2. QED
      BY <1>1, <1>3, <2>1 DEF Bad
  <1>4. CASE Len(g) = Len(f) + 1 /\ g[Len(g)] = line
    <2>1. line.kind = "whole" => Len(g) \notin Bad(g)
      BY <1>4 DEF Bad
    <2>2. QED
      BY <1>1, <1>3, <1>4, <2>1 DEF g
  <1>5. CASE Len(g) = Len(f) /\ f[Len(f)].kind = "torn"
    <2>1. Len(g) \in Bad(f)
      BY <1>1, <1>2, <1>5 DEF Bad
    <2>2. QED
      BY <1>1, <1>3, <2>1 DEF g
  <1>6. QED
    BY <1>1, <1>4, <1>5

\* A write, failed or not, spoils one line at most, and the last.
LEMMA BadWrite ==
  ASSUME NEW f \in Seq(Written), NEW line \in Written,
         NEW g \in FailedAppends(f, line)
  PROVE  /\ g \in Seq(Written)
         /\ Cardinality(Bad(g)) <= Cardinality(Bad(f)) + 1
         /\ Cardinality(Bad(g) \ {Len(g)}) <= Cardinality(Bad(f))
  <1>1. /\ g \in Seq(Written)
        /\ Bad(g) \subseteq Bad(f) \cup {Len(f) + 1}
        /\ Bad(g) \ {Len(g)} \subseteq Bad(f)
    <2>1. CASE g = f
      BY <2>1
    <2>2. ASSUME NEW cut \in Cuts, g = AppendLine(f, Torn(line, cut))
          PROVE  /\ g \in Seq(Written)
                 /\ Bad(g) \subseteq Bad(f) \cup {Len(f) + 1}
                 /\ Bad(g) \ {Len(g)} \subseteq Bad(f)
      <3>1. Torn(line, cut) \in Written
        BY TornLines
      <3>2. QED
        BY <2>2, <3>1, BadAppended
    <2>3. QED
      BY <2>1, <2>2 DEF FailedAppends
  <1>2. IsFiniteSet(Bad(f)) /\ Cardinality(Bad(f)) \in Nat
    BY BadFinite
  <1>3. /\ IsFiniteSet(Bad(f) \cup {Len(f) + 1})
        /\ Cardinality(Bad(f) \cup {Len(f) + 1}) <= Cardinality(Bad(f)) + 1
    <2>1. /\ IsFiniteSet(Bad(f) \cup {Len(f) + 1})
          /\ Cardinality(Bad(f) \cup {Len(f) + 1}) =
               IF Len(f) + 1 \in Bad(f) THEN Cardinality(Bad(f))
               ELSE Cardinality(Bad(f)) + 1
      BY <1>2, FS_AddElement
    <2>2. QED
      BY <1>2, <2>1
  <1>4. Cardinality(Bad(g)) <= Cardinality(Bad(f) \cup {Len(f) + 1})
    BY <1>1, <1>3, FS_Subset
  <1>5. Cardinality(Bad(g) \ {Len(g)}) <= Cardinality(Bad(f))
    BY <1>1, BadFinite
  <1>6. /\ Cardinality(Bad(f) \cup {Len(f) + 1}) \in Nat
        /\ Cardinality(Bad(g)) \in Nat
    BY <1>1, <1>3, BadFinite, FS_CardinalityType
  <1>7. QED
    BY <1>1, <1>2, <1>3, <1>4, <1>5, <1>6

\* The lines up to the k-th, and the bad ones among them.
LEMMA BadPrefix ==
  ASSUME NEW f \in Seq(Written), NEW k \in 0..Len(f)
  PROVE  /\ SubSeq(f, 1, k) \in Seq(Written)
         /\ Bad(SubSeq(f, 1, k)) \subseteq Bad(f)
         /\ k < Len(f) => Bad(SubSeq(f, 1, k)) \subseteq Bad(f) \ {Len(f)}
  <1>1. /\ SubSeq(f, 1, k) \in Seq(Written) /\ Len(SubSeq(f, 1, k)) = k
        /\ \A i \in 1..k : SubSeq(f, 1, k)[i] = f[i]
    BY Prefix
  <1>2. ASSUME NEW i \in Bad(SubSeq(f, 1, k))
        PROVE  i \in Bad(f) /\ (k < Len(f) => i # Len(f))
    <2>1. i \in 1..k /\ SubSeq(f, 1, k)[i].kind # "whole"
      BY <1>1 DEF Bad
    <2>2. i \in DOMAIN f /\ f[i].kind # "whole"
      BY <1>1, <2>1
    <2>3. QED
      BY <2>1, <2>2 DEF Bad
  <1>3. QED
    BY <1>1, <1>2

\* Every step keeps the count of bad lines below that of runs.
LEMMA BadInductive == Types /\ BadInv /\ [Next]_vars => BadInv'
  <1> SUFFICES ASSUME Types, BadInv, [Next]_vars PROVE BadInv'
    OBVIOUS
  <1> USE DEF bufferVars, aggVars, fileVars, history, bounds
  <1>f. /\ file \in Seq(Written) /\ restarts \in Nat
        /\ Cardinality(Bad(file)) \in Nat
    BY BadFinite DEF Types
  <1>1. CASE Elsewhere
    <2>1. file' = file /\ restarts' = restarts
      BY <1>1, FileElsewhere
    <2>2. \/ mode' = mode /\ werr' = werr
          \/ mode' = "draining"
          \/ mode = "starting"
      <3>1. CASE StartDraining \/ OpenExisting
        BY <3>1 DEF StartDraining, OpenExisting
      <3>2. CASE \E n \in Nodes : SendDecision(n) \/ \E ms \in Latencies : SendSample(n, ms)
        BY <3>2 DEF SendDecision, SendSample
      <3>3. CASE \/ AccumulateSnapshot \/ AccumulateResponseSample
                 \/ DrainSnapshot \/ DrainSample
        BY <3>3 DEF AccumulateSnapshot, AccumulateResponseSample, DrainSnapshot,
           DrainSample
      <3>4. CASE Tick \/ SyncRow \/ UNCHANGED vars
        BY <3>4 DEF Tick, SyncRow, vars
      <3>5. QED
        BY <1>1, <3>1, <3>2, <3>3, <3>4 DEF Elsewhere
    <2>3. QED
      BY <2>1, <2>2 DEF BadInv
  <1>2. CASE WriteHeader
    <2>1. /\ mode = "starting" /\ restarts' = restarts
          /\ \/ mode' = "recording" /\ file' = AppendLine(file, Header)
             \/ mode' = "draining" /\ file' \in FailedAppends(file, Header)
      BY <1>2 DEF WriteHeader
    <2>2. Cardinality(Bad(file)) <= restarts
      BY <2>1 DEF BadInv
    <2>3. Header \in Written /\ Header.kind = "whole"
      BY WholeLines DEF Types
    <2>4. CASE mode' = "recording" /\ file' = AppendLine(file, Header)
      <3>1. Bad(file') \subseteq Bad(file)
        BY <1>f, <2>3, <2>4, BadAppended
      <3>2. /\ Cardinality(Bad(file')) \in Nat
            /\ Cardinality(Bad(file') \ {Len(file')}) \in Nat
            /\ Cardinality(Bad(file')) <= Cardinality(Bad(file))
            /\ Cardinality(Bad(file') \ {Len(file')}) <= Cardinality(Bad(file))
        BY <1>f, <3>1, BadFinite
      <3>3. QED
        BY <1>f, <2>1, <2>2, <3>2 DEF BadInv
    <2>5. CASE mode' = "draining" /\ file' \in FailedAppends(file, Header)
      <3>1. /\ file' \in Seq(Written)
            /\ Cardinality(Bad(file')) <= Cardinality(Bad(file)) + 1
            /\ Cardinality(Bad(file') \ {Len(file')}) <= Cardinality(Bad(file))
        BY <1>f, <2>3, <2>5, BadWrite
      <3>2. /\ Cardinality(Bad(file')) \in Nat
            /\ Cardinality(Bad(file') \ {Len(file')}) \in Nat
        BY <3>1, BadFinite
      <3>3. QED
        BY <1>f, <2>1, <2>2, <2>5, <3>1, <3>2 DEF BadInv
    <2>6. QED
      BY <2>1, <2>4, <2>5
  <1>3. CASE WriteRow
    <2>1. /\ mode = "recording" /\ mode' = mode /\ restarts' = restarts
          /\ \/ ~werr /\ werr' = werr /\ file' = AppendLine(file, Row)
             \/ ~werr /\ werr' /\ file' \in FailedAppends(file, Row)
             \/ werr' = werr /\ file' = file
      BY <1>3 DEF WriteRow, Selecting
    <2>2. ~werr => Cardinality(Bad(file)) <= restarts
      BY <2>1 DEF BadInv
    <2>3. Row \in Written /\ Row.kind = "whole"
      BY WholeLines DEF Types
    <2>4. CASE ~werr /\ werr' = werr /\ file' = AppendLine(file, Row)
      <3>1. Bad(file') \subseteq Bad(file)
        BY <1>f, <2>3, <2>4, BadAppended
      <3>2. /\ Cardinality(Bad(file')) \in Nat
            /\ Cardinality(Bad(file') \ {Len(file')}) \in Nat
            /\ Cardinality(Bad(file')) <= Cardinality(Bad(file))
            /\ Cardinality(Bad(file') \ {Len(file')}) <= Cardinality(Bad(file))
        BY <1>f, <3>1, BadFinite
      <3>3. QED
        BY <1>f, <2>1, <2>2, <2>4, <3>2 DEF BadInv
    <2>5. CASE ~werr /\ werr' /\ file' \in FailedAppends(file, Row)
      <3>1. /\ file' \in Seq(Written)
            /\ Cardinality(Bad(file')) <= Cardinality(Bad(file)) + 1
            /\ Cardinality(Bad(file') \ {Len(file')}) <= Cardinality(Bad(file))
        BY <1>f, <2>3, <2>5, BadWrite
      <3>2. /\ Cardinality(Bad(file')) \in Nat
            /\ Cardinality(Bad(file') \ {Len(file')}) \in Nat
        BY <3>1, BadFinite
      <3>3. mode' = "recording" /\ werr'
        BY <2>1, <2>5
      <3>4. QED
        BY <1>f, <2>1, <2>2, <2>5, <3>1, <3>2, <3>3 DEF BadInv
    <2>6. CASE werr' = werr /\ file' = file
      BY <2>1, <2>6 DEF BadInv
    <2>7. QED
      BY <2>1, <2>4, <2>5, <2>6
  <1>4. CASE Crash
    <2>1. file' = file /\ restarts' = restarts + 1
      BY <1>4 DEF Crash, LoseMemory
    <2>2. /\ Cardinality(Bad(file) \ {Len(file)}) \in Nat
          /\ Cardinality(Bad(file) \ {Len(file)}) <= restarts
      BY <1>f, BadFinite DEF BadInv
    <2>3. QED
      BY <1>f, <2>1, <2>2 DEF BadInv
  <1>5. CASE PowerLoss
    <2>1. restarts' = restarts + 1
      BY <1>5 DEF PowerLoss, LoseMemory
    <2>2. PICK k \in 0..Len(file) :
            \/ file' = SubSeq(file, 1, k)
            \/ /\ k < Len(file) /\ file[k + 1] \in Written
               /\ \E cut \in Cuts :
                    file' = AppendLine(SubSeq(file, 1, k), Torn(file[k + 1], cut))
      BY <1>5, AfterPowerLoss
    <2>3. /\ SubSeq(file, 1, k) \in Seq(Written)
          /\ Bad(SubSeq(file, 1, k)) \subseteq Bad(file)
          /\ k < Len(file) => Bad(SubSeq(file, 1, k)) \subseteq Bad(file) \ {Len(file)}
      BY <1>f, BadPrefix
    <2>4. /\ file' \in Seq(Written)
          /\ Cardinality(Bad(file')) <= restarts + 1
      <3>1. CASE file' = SubSeq(file, 1, k)
        <4>1. Cardinality(Bad(file')) <= Cardinality(Bad(file))
          BY <1>f, <2>3, <3>1, BadFinite
        <4>2. Cardinality(Bad(file')) \in Nat
          BY <2>3, <3>1, BadFinite
        <4>3. QED
          BY <1>f, <2>3, <3>1, <4>1, <4>2 DEF BadInv
      <3>2. CASE file' # SubSeq(file, 1, k)
        <4>1. /\ k < Len(file) /\ file[k + 1] \in Written
              /\ file' \in FailedAppends(SubSeq(file, 1, k), file[k + 1])
          BY <2>2, <3>2 DEF FailedAppends
        <4>2. /\ file' \in Seq(Written)
              /\ Cardinality(Bad(file')) <= Cardinality(Bad(SubSeq(file, 1, k))) + 1
          BY <2>3, <4>1, BadWrite
        <4>3. /\ IsFiniteSet(Bad(file) \ {Len(file)})
              /\ Cardinality(Bad(file) \ {Len(file)}) \in Nat
          BY <1>f, BadFinite
        <4>4. Cardinality(Bad(SubSeq(file, 1, k))) <= Cardinality(Bad(file) \ {Len(file)})
          BY <2>3, <4>1, <4>3, FS_Subset
        <4>5. /\ Cardinality(Bad(SubSeq(file, 1, k))) \in Nat
              /\ Cardinality(Bad(file')) \in Nat
          BY <2>3, <4>2, BadFinite
        <4>6. QED
          BY <1>f, <4>2, <4>3, <4>4, <4>5 DEF BadInv
      <3>3. QED
        BY <3>1, <3>2
    <2>5. /\ Cardinality(Bad(file')) \in Nat
          /\ Cardinality(Bad(file') \ {Len(file')}) \in Nat
          /\ Cardinality(Bad(file') \ {Len(file')}) <= Cardinality(Bad(file'))
      BY <2>4, BadFinite
    <2>6. QED
      BY <1>f, <2>1, <2>4, <2>5 DEF BadInv
  <1>6. CASE ClearDataset
    <2>1. file' = <<>> /\ restarts' = restarts
      BY <1>6 DEF ClearDataset
    <2>2. Bad(file') = {}
      BY <2>1 DEF Bad
    <2>3. Bad(file') \ {Len(file')} = {}
      BY <2>2
    <2>4. Cardinality(Bad(file')) = 0 /\ Cardinality(Bad(file') \ {Len(file')}) = 0
      BY <2>2, <2>3, FS_EmptySet
    <2>5. QED
      BY <1>f, <2>1, <2>4 DEF BadInv
  <1>7. QED
    BY <1>1, <1>2, <1>3, <1>4, <1>5, <1>6 DEF Next, Elsewhere

\* A run of the process spoils at most one line of the file.
THEOREM BadLinesAreFew == Spec => []OneBadLinePerRun
  <1>1. Init => BadInv
    <2>1. ASSUME Init PROVE BadInv
      <3>1. file = <<>> /\ restarts = 0
        BY <2>1 DEF Init
      <3>2. Bad(file) = {}
        BY <3>1 DEF Bad
      <3>3. Bad(file) \ {Len(file)} = {}
        BY <3>2
      <3>4. Cardinality(Bad(file)) = 0 /\ Cardinality(Bad(file) \ {Len(file)}) = 0
        BY <3>2, <3>3, FS_EmptySet
      <3>5. QED
        BY <3>1, <3>4 DEF BadInv
    <2>2. QED
      BY <2>1
  <1>2. BadInv => OneBadLinePerRun
    BY DEF BadInv, Bad, OneBadLinePerRun
  <1>3. QED
    BY <1>1, <1>2, TypesInit, TypesInductive, BadInductive, PTL DEF Spec

(***************************************************************************)
(* Part 4: types                                                           *)
(***************************************************************************)
\* How often node n is in the list c of nodes.
Queued(c, n) == Cardinality({i \in DOMAIN c : c[i] = n})

\* What the lines of f say was sent to node n.
Requests(f, n) == SumFunction([i \in DOMAIN f |-> f[i].req[n]])

\* Both are numbers.
LEMMA QueuedTyped ==
  ASSUME NEW c \in Seq(Nodes), NEW n \in Nodes
  PROVE  /\ IsFiniteSet({i \in DOMAIN c : c[i] = n})
         /\ Queued(c, n) \in Nat
  <1>1. IsFiniteSet(1..Len(c)) /\ DOMAIN c = 1..Len(c)
    BY FS_Interval
  <1>2. {i \in DOMAIN c : c[i] = n} \in SUBSET (1..Len(c))
    BY <1>1
  <1>3. IsFiniteSet({i \in DOMAIN c : c[i] = n})
    BY <1>1, <1>2, FS_Subset
  <1>4. QED
    BY <1>3, FS_CardinalityType DEF Queued

\* The requests in a file are a natural number.
LEMMA RequestsTyped ==
  ASSUME NEW f \in Seq(Written), NEW n \in Nodes
  PROVE  /\ \A i \in 1..Len(f) : f[i].req[n] \in Nat
         /\ Requests(f, n) \in Nat
  <1>1. DOMAIN f = 1..Len(f) /\ Len(f) \in Nat
    OBVIOUS
  <1>2. \A i \in 1..Len(f) : f[i].req[n] \in Nat
    BY <1>1 DEF Written, Lines
  <1> DEFINE c == [i \in DOMAIN f |-> f[i].req[n]]
  <1>3. DOMAIN c = 1..Len(f) /\ \A i \in 1..Len(f) : c[i] \in Nat
    BY <1>1, <1>2
  <1>4. SumFunction(c) \in Nat
    <2> HIDE DEF c
    <2>1. QED
      BY <1>1, <1>3, SumOfSequence
  <1>5. QED
    BY <1>2, <1>4 DEF Requests

\* What TypeOK says beyond Types.
MoreTypes ==
    /\ mode \in {"starting", "recording", "draining"}
    /\ stage \in {"select", "sync"}
    /\ Len(decisionC) <= DecisionCap /\ Len(responseC) <= ResponseCap
    /\ accepted \in [Nodes -> Nat] /\ lost \in [Nodes -> Nat]
    /\ werr \in BOOLEAN /\ tickPending \in BOOLEAN /\ syncFailed \in BOOLEAN
    /\ decisions \in Nat /\ samples \in Nat /\ ticks \in Nat
    /\ failures \in Nat /\ clears \in Nat

\* One more of one node.
LEMMA OneMore ==
  ASSUME NEW f \in [Nodes -> Nat], NEW n \in Nodes
  PROVE  [f EXCEPT ![n] = @ + 1] \in [Nodes -> Nat]
  <1>1. f[n] + 1 \in Nat
    OBVIOUS
  <1>2. QED
    BY <1>1

\* Every step keeps them, too.
LEMMA MoreTypesInductive == Types /\ MoreTypes /\ [Next]_vars => MoreTypes'
  <1> SUFFICES ASSUME Types, MoreTypes, [Next]_vars PROVE MoreTypes'
    OBVIOUS
  <1> USE DEF MoreTypes, bufferVars, aggVars, fileVars, history, bounds
  <1>0. DecisionCap \in Nat /\ ResponseCap \in Nat
    BY WorkerAssumption
  <1>1. ASSUME NEW n \in Nodes, SendDecision(n) PROVE MoreTypes'
    <2>1. Len(decisionC') = Len(decisionC) + 1 /\ Len(decisionC) < DecisionCap
      BY <1>1 DEF SendDecision, Types
    <2>2. accepted' \in [Nodes -> Nat]
      BY <1>1, OneMore DEF SendDecision
    <2>3. Len(decisionC') <= DecisionCap
      BY <1>0, <2>1 DEF Types
    <2>4. QED
      BY <1>1, <2>2, <2>3 DEF SendDecision
  <1>2. ASSUME NEW n \in Nodes, NEW ms \in Latencies, SendSample(n, ms) PROVE MoreTypes'
    <2>1. Len(responseC') = Len(responseC) + 1 /\ Len(responseC) < ResponseCap
      BY <1>2 DEF SendSample, Types
    <2>2. QED
      BY <1>0, <1>2, <2>1 DEF SendSample, Types
  <1>3. CASE StartDraining \/ OpenExisting
    BY <1>3 DEF StartDraining, OpenExisting
  <1>4. CASE WriteHeader
    <2>1. failures' \in Nat
      BY <1>4 DEF WriteHeader, Failed
    <2>2. mode' \in {"recording", "draining"}
      BY <1>4 DEF WriteHeader
    <2>3. QED
      BY <1>4, <2>1, <2>2 DEF WriteHeader
  <1>5. CASE AccumulateSnapshot \/ AccumulateResponseSample \/ DrainSample \/ DrainSnapshot
    <2>1. Len(decisionC') <= Len(decisionC) /\ Len(responseC') <= Len(responseC)
      <3>0. Len(decisionC) \in Nat /\ Len(responseC) \in Nat
        BY DEF Types
      <3>1. CASE AccumulateSnapshot \/ DrainSnapshot
        <4>1. /\ decisionC # <<>> /\ decisionC' = Tail(decisionC) /\ responseC' = responseC
          BY <3>1 DEF AccumulateSnapshot, DrainSnapshot
        <4>2. Len(decisionC') = Len(decisionC) - 1
          BY <4>1, HeadTailProperties DEF Types
        <4>3. QED
          BY <3>0, <4>1, <4>2
      <3>2. CASE AccumulateResponseSample \/ DrainSample
        <4>1. /\ responseC # <<>> /\ responseC' = Tail(responseC) /\ decisionC' = decisionC
          BY <3>2 DEF AccumulateResponseSample, DrainSample
        <4>2. Len(responseC') = Len(responseC) - 1
          BY <4>1, HeadTailProperties DEF Types
        <4>3. QED
          BY <3>0, <4>1, <4>2
      <3>3. QED
        BY <1>5, <3>1, <3>2
    <2>2. lost' \in [Nodes -> Nat]
      <3>1. CASE DrainSnapshot
        <4>1. Head(decisionC) \in Nodes
          BY <3>1, HeadTailProperties DEF DrainSnapshot, Types
        <4>2. QED
          BY <3>1, <4>1, OneMore DEF DrainSnapshot
      <3>2. CASE AccumulateSnapshot \/ AccumulateResponseSample \/ DrainSample
        BY <3>2 DEF AccumulateSnapshot, AccumulateResponseSample, DrainSample
      <3>3. QED
        BY <1>5, <3>1, <3>2
    <2>3. UNCHANGED <<mode, stage, werr, tickPending, accepted, syncFailed, bounds>>
      BY <1>5 DEF AccumulateSnapshot, AccumulateResponseSample, DrainSample, DrainSnapshot
    <2>4. /\ Len(decisionC') \in Nat /\ Len(responseC') \in Nat
          /\ Len(decisionC) \in Nat /\ Len(responseC) \in Nat
      BY TypesInductive DEF Types
    <2>5. QED
      BY <1>0, <2>1, <2>2, <2>3, <2>4
  <1>6. CASE Tick
    BY <1>6 DEF Tick
  <1>7. CASE WriteRow
    <2>1. failures' \in Nat /\ stage' \in {"select", "sync"}
      BY <1>7 DEF WriteRow, Failed, Selecting
    <2>2. werr' \in BOOLEAN /\ tickPending' \in BOOLEAN
      BY <1>7, Zenon DEF WriteRow
    <2>3. UNCHANGED <<mode, bufferVars, history, decisions, samples, ticks, clears>>
      BY <1>7 DEF WriteRow
    <2>4. QED
      BY <2>1, <2>2, <2>3
  <1>8. CASE SyncRow
    <2>1. failures' \in Nat /\ stage' \in {"select", "sync"}
      BY <1>8 DEF SyncRow, Failed
    <2>2. syncFailed' \in BOOLEAN
      BY <1>8, Zenon DEF SyncRow
    <2>3. UNCHANGED <<mode, bufferVars, werr, tickPending, accepted, lost, decisions,
                      samples, ticks, clears>>
      BY <1>8 DEF SyncRow
    <2>4. QED
      BY <2>1, <2>2, <2>3
  <1>9. CASE Crash \/ PowerLoss
    <2>1. LoseMemory
      BY <1>9 DEF Crash, PowerLoss
    <2>2. \A n \in Nodes : lost[n] + QueuedFor(n) + req[n] \in Nat
      <3>1. \A n \in Nodes : Queued(decisionC, n) \in Nat /\ req[n] \in Nat /\ lost[n] \in Nat
        BY QueuedTyped DEF Types
      <3>2. QED
        BY <3>1 DEF QueuedFor, Queued
    <2>3. lost' \in [Nodes -> Nat]
      BY <2>1, <2>2 DEF LoseMemory
    <2>4. Len(decisionC') = 0 /\ Len(responseC') = 0
      BY <2>1 DEF LoseMemory
    <2>5. werr' \in BOOLEAN /\ tickPending' \in BOOLEAN /\ syncFailed' \in BOOLEAN
      BY <2>1, Zenon DEF LoseMemory
    <2>6. mode' \in {"starting", "recording", "draining"} /\ stage' \in {"select", "sync"}
      BY <2>1 DEF LoseMemory
    <2>7. accepted' \in [Nodes -> Nat] /\ UNCHANGED <<decisions, samples, ticks, failures, clears>>
      BY <2>1 DEF LoseMemory
    <2>8. QED
      BY <1>0, <2>3, <2>4, <2>5, <2>6, <2>7
  <1>10. CASE ClearDataset
    <2>1. \A n \in Nodes : lost[n] + Counted(n) \in Nat
      <3>1. \A n \in Nodes : Requests(file, n) \in Nat /\ lost[n] \in Nat
        BY RequestsTyped DEF Types
      <3>2. QED
        BY <3>1 DEF Counted, Requests
    <2>2. lost' \in [Nodes -> Nat]
      BY <1>10, <2>1 DEF ClearDataset
    <2>3. QED
      BY <1>10, <2>2 DEF ClearDataset
  <1>11. CASE UNCHANGED vars
    BY <1>11 DEF vars
  <1>12. QED
    BY <1>1, <1>2, <1>3, <1>4, <1>5, <1>6, <1>7, <1>8, <1>9, <1>10, <1>11 DEF Next

\* The worker starts with variables of their types.
LEMMA MoreTypesInit == Init => MoreTypes
  <1> SUFFICES ASSUME Init PROVE MoreTypes
    OBVIOUS
  <1>1. mode \in {"starting", "recording", "draining"} /\ stage \in {"select", "sync"}
    BY DEF Init
  <1>2. Len(decisionC) = 0 /\ Len(responseC) = 0 /\ DecisionCap \in Nat /\ ResponseCap \in Nat
    BY WorkerAssumption DEF Init
  <1>3. accepted \in [Nodes -> Nat] /\ lost \in [Nodes -> Nat]
    BY DEF Init, Zero
  <1>4. werr \in BOOLEAN /\ tickPending \in BOOLEAN /\ syncFailed \in BOOLEAN
    BY Zenon DEF Init
  <1>5. QED
    BY <1>1, <1>2, <1>3, <1>4 DEF Init, MoreTypes

\* Every variable keeps its type, and no channel holds more than its capacity.
THEOREM WorkerTypes == Spec => []TypeOK
  <1>1. Types /\ MoreTypes => TypeOK
    <2>1. ASSUME Types, MoreTypes PROVE TypeOK
      <3>1. file \in Seq(Lines)
        BY <2>1 DEF Types, Written
      <3>2. QED
        BY <2>1, <3>1 DEF Types, MoreTypes, TypeOK
    <2>2. QED
      BY <2>1
  <1>2. QED
    BY <1>1, TypesInit, TypesInductive, MoreTypesInit, MoreTypesInductive, PTL DEF Spec

(***************************************************************************)
(* Part 5: the account of decisions                                       *)
(***************************************************************************)
ReqOf(n) == [line \in Written |-> line.req[n]]

\* Nothing is counted in a torn line.
TornEmpty(f) == \A i \in DOMAIN f : f[i].kind = "torn" => f[i].req = Zero

\* The requests of a node in a file are the tally of its lines.
LEMMA RequestsAre ==
  ASSUME NEW f \in Seq(Written), NEW n \in Nodes
  PROVE  ReqOf(n) \in [Written -> Nat] /\ Requests(f, n) = Tally(f, ReqOf(n))
  <1>1. ReqOf(n) \in [Written -> Nat]
    BY DEF ReqOf, Written, Lines
  <1>2. \A i \in DOMAIN f : f[i] \in Written
    OBVIOUS
  <1>3. \A i \in DOMAIN f : ReqOf(n)[f[i]] = f[i].req[n]
    BY <1>2 DEF ReqOf
  <1>4. [i \in DOMAIN f |-> f[i].req[n]] = [i \in DOMAIN f |-> ReqOf(n)[f[i]]]
    BY <1>3
  <1>5. QED
    BY <1>1, <1>4 DEF Requests, Tally

\* What a line is, and the file before it, when a line is appended.
LEMMA AppendedParts ==
  ASSUME NEW f \in Seq(Written), NEW line \in Written
  PROVE  \/ ~EndsTorn(f) /\ AppendLine(f, line) = Append(f, line)
         \/ /\ f # <<>> /\ Last(f) \in Written /\ Last(f).kind = "torn"
            /\ Last(f) = f[Len(f)] /\ Len(f) \in DOMAIN f
            /\ Front(f) \in Seq(Written) /\ Len(f) = Len(Front(f)) + 1
            /\ \A i \in 1..Len(Front(f)) : Front(f)[i] = f[i]
            /\ Glued(Last(f), line) \in Written
            /\ AppendLine(f, line) = Append(Front(f), Glued(Last(f), line))
  <1>1. CASE EndsTorn(f)
    <2>1. f # <<>> /\ Last(f).kind = "torn"
      BY <1>1 DEF EndsTorn
    <2>2. /\ Len(f) \in Nat \ {0} /\ Last(f) \in Written
          /\ Front(f) \in Seq(Written) /\ Len(Front(f)) = Len(f) - 1
          /\ \A i \in 1..(Len(f) - 1) : Front(f)[i] = f[i]
      BY <2>1, FrontOf
    <2>3. Glued(Last(f), line) \in Written
      BY <2>2, GluedLines
    <2>4. Last(f) = f[Len(f)] /\ Len(f) \in DOMAIN f
      BY <2>2 DEF Last
    <2>5. QED
      BY <1>1, <2>1, <2>2, <2>3, <2>4 DEF AppendLine
  <1>2. CASE ~EndsTorn(f)
    BY <1>2 DEF AppendLine
  <1>3. QED
    BY <1>1, <1>2

\* Appending a line adds what it counts: what it may be glued to counts none.
LEMMA RequestsAppended ==
  ASSUME NEW f \in Seq(Written), TornEmpty(f), NEW line \in Written,
         line.kind = "torn" => line.req = Zero, NEW n \in Nodes
  PROVE  /\ Requests(AppendLine(f, line), n) = Requests(f, n) + line.req[n]
         /\ TornEmpty(AppendLine(f, line))
  <1> DEFINE v == ReqOf(n)
             g == AppendLine(f, line)
  <1>1. v \in [Written -> Nat] /\ g \in Seq(Written) /\ v[line] = line.req[n]
    BY RequestsAre, Appending DEF ReqOf
  <1>2. Requests(f, n) = Tally(f, v) /\ Requests(g, n) = Tally(g, v)
    BY <1>1, RequestsAre
  <1>t. Tally(f, v) \in Nat
    BY <1>1, TallyTyped
  <1>3. CASE ~EndsTorn(f) /\ g = Append(f, line)
    <2>1. Tally(g, v) = Tally(f, v) + v[line]
      <3> HIDE DEF v, g
      <3>1. QED
        BY <1>1, <1>3, TallyAppended
    <2>2. TornEmpty(g)
      <3>1. \A i \in DOMAIN g : g[i] = line \/ (i \in DOMAIN f /\ g[i] = f[i])
        <4>1. ASSUME NEW i \in DOMAIN g PROVE g[i] = line \/ (i \in DOMAIN f /\ g[i] = f[i])
          <5>1. i \in 1..Len(f) \/ i = Len(f) + 1
            BY <1>3
          <5>2. i \in 1..Len(f) => i \in DOMAIN f /\ Append(f, line)[i] = f[i]
            OBVIOUS
          <5>3. Append(f, line)[Len(f) + 1] = line
            OBVIOUS
          <5>4. QED
            BY <1>3, <5>1, <5>2, <5>3
        <4>2. QED
          BY <4>1
      <3> HIDE DEF g
      <3>2. QED
        BY <3>1 DEF TornEmpty
    <2>3. QED
      BY <1>1, <1>2, <2>1, <2>2
  <1>4. ASSUME f # <<>>, Last(f) \in Written, Last(f).kind = "torn",
               Last(f) = f[Len(f)], Len(f) \in DOMAIN f,
               Front(f) \in Seq(Written), Len(f) = Len(Front(f)) + 1,
               \A i \in 1..Len(Front(f)) : Front(f)[i] = f[i],
               Glued(Last(f), line) \in Written,
               g = Append(Front(f), Glued(Last(f), line))
        PROVE  Requests(g, n) = Requests(f, n) + line.req[n] /\ TornEmpty(g)
    <2> DEFINE l == Glued(Last(f), line)
               fr == Front(f)
    <2>1. v[Last(f)] = 0 /\ v[l] = v[line]
      <3>1. Last(f).req = Zero
        BY <1>4 DEF TornEmpty
      <3>2. l.req = line.req /\ l \in Written
        BY <1>4 DEF Glued
      <3>3. QED
        BY <1>4, <3>1, <3>2 DEF ReqOf, Zero
    <2>2. Tally(f, v) = Tally(fr, v) + v[f[Len(f)]]
      <3>1. Len(fr) <= Len(f)
        BY <1>4
      <3> HIDE DEF v, g
      <3>2. QED
        BY <1>1, <1>4, <3>1, TallyOfLonger
    <2>3. Tally(g, v) = Tally(fr, v) + v[l]
      <3> HIDE DEF v, g, l, fr
      <3>1. fr \in Seq(Written) /\ l \in Written /\ g = Append(fr, l)
        BY <1>4 DEF l, fr
      <3>2. QED
        BY <1>1, <3>1, TallyAppended
    <2>4. Tally(fr, v) \in Nat
      BY <1>1, <1>4, TallyTyped
    <2>5. TornEmpty(g)
      <3>1. \A i \in DOMAIN g : g[i] = l \/ (i \in DOMAIN f /\ g[i] = f[i])
        <4> HIDE DEF l
        <4>1. DOMAIN g = 1..(Len(fr) + 1) /\ g[Len(fr) + 1] = l /\ Len(fr) \in Nat
              /\ \A i \in 1..Len(fr) : g[i] = fr[i]
          BY <1>4 DEF l
        <4>2. \A i \in 1..Len(fr) : i \in DOMAIN f
          BY <1>4, <4>1
        <4>3. \A i \in DOMAIN g : i = Len(fr) + 1 \/ i \in 1..Len(fr)
          BY <4>1
        <4>4. \A i \in 1..Len(fr) : g[i] = f[i]
          BY <1>4, <4>1
        <4> HIDE DEF g, fr
        <4>5. QED
          BY <4>1, <4>2, <4>3, <4>4
      <3>2. l.kind = "torn" => l.req = Zero
        BY DEF Glued
      <3> HIDE DEF g, l
      <3>3. QED
        BY <3>1, <3>2 DEF TornEmpty
    <2>6. QED
      <3> HIDE DEF v, g, l
      <3>1. QED
        BY <1>1, <1>2, <1>4, <2>1, <2>2, <2>3, <2>4, <2>5
  <1>5. QED
    BY <1>3, <1>4, AppendedParts

\* A failed write counts nothing.
LEMMA RequestsNotWritten ==
  ASSUME NEW f \in Seq(Written), TornEmpty(f), NEW line \in Written,
         NEW g \in FailedAppends(f, line), NEW n \in Nodes
  PROVE  Requests(g, n) = Requests(f, n) /\ TornEmpty(g)
  <1>1. ASSUME NEW cut \in Cuts, g = AppendLine(f, Torn(line, cut))
        PROVE  Requests(g, n) = Requests(f, n) /\ TornEmpty(g)
    <2>1. Torn(line, cut) \in Written
      BY TornLines
    <2>2. Torn(line, cut).req = Zero /\ Zero[n] = 0
      BY DEF Torn, Zero
    <2>3. Requests(g, n) = Requests(f, n) + 0 /\ TornEmpty(g)
      BY <1>1, <2>1, <2>2, RequestsAppended
    <2>4. QED
      BY <2>3, RequestsTyped
  <1>2. QED
    BY <1>1 DEF FailedAppends

\* The lines up to the k-th count no more than all.
LEMMA RequestsPrefix ==
  ASSUME NEW f \in Seq(Written), TornEmpty(f), NEW k \in 0..Len(f), NEW n \in Nodes
  PROVE  /\ Requests(SubSeq(f, 1, k), n) <= Requests(f, n)
         /\ TornEmpty(SubSeq(f, 1, k))
         /\ k = Len(f) - 1 /\ f[Len(f)].kind = "torn" =>
               Requests(SubSeq(f, 1, k), n) = Requests(f, n)
  <1> DEFINE v == ReqOf(n)
             g == SubSeq(f, 1, k)
  <1>1. g \in Seq(Written) /\ Len(g) = k /\ \A i \in 1..k : g[i] = f[i]
    BY Prefix
  <1> HIDE DEF g
  <1>2. /\ v \in [Written -> Nat]
        /\ Requests(f, n) = Tally(f, v) /\ Requests(g, n) = Tally(g, v)
    BY <1>1, RequestsAre
  <1> HIDE DEF v
  <1>3. Len(g) <= Len(f)
    BY <1>1
  <1>4. /\ Tally(g, v) <= Tally(f, v)
        /\ Len(f) = Len(g) + 1 => Tally(f, v) = Tally(g, v) + v[f[Len(f)]]
    BY <1>1, <1>2, <1>3, TallyOfLonger
  <1>5. TornEmpty(g)
    <2>1. \A i \in DOMAIN g : i \in DOMAIN f /\ g[i] = f[i]
      BY <1>1
    <2>2. QED
      BY <2>1 DEF TornEmpty
  <1>6. ASSUME k = Len(f) - 1, f[Len(f)].kind = "torn"
        PROVE  Tally(g, v) = Tally(f, v)
    <2>1. Len(f) = Len(g) + 1 /\ Len(f) \in DOMAIN f /\ f[Len(f)] \in Written
      BY <1>1, <1>6
    <2>2. v[f[Len(f)]] = 0
      BY <1>6, <2>1 DEF v, ReqOf, TornEmpty, Zero
    <2>3. Tally(g, v) \in Nat
      BY <1>1, <1>2, TallyTyped
    <2>4. QED
      BY <1>4, <2>1, <2>2, <2>3
  <1>7. QED
    BY <1>2, <1>4, <1>5, <1>6 DEF g

\* A node that is appended to a list is once more in it.
LEMMA QueuedAppended ==
  ASSUME NEW c \in Seq(Nodes), NEW m \in Nodes, NEW n \in Nodes
  PROVE  Queued(Append(c, m), n) = Queued(c, n) + (IF m = n THEN 1 ELSE 0)
  <1> DEFINE d == Append(c, m)
             C == {i \in DOMAIN c : c[i] = n}
             D == {i \in DOMAIN d : d[i] = n}
  <1>1. /\ DOMAIN c = 1..Len(c) /\ DOMAIN d = 1..(Len(c) + 1) /\ Len(c) \in Nat
        /\ \A i \in 1..Len(c) : d[i] = c[i] /\ i # Len(c) + 1
        /\ d[Len(c) + 1] = m
        /\ \A i \in 1..(Len(c) + 1) : i \in 1..Len(c) \/ i = Len(c) + 1
        /\ \A i \in 1..Len(c) : i \in 1..(Len(c) + 1)
        /\ Len(c) + 1 \in 1..(Len(c) + 1)
    OBVIOUS
  <1>2. IsFiniteSet(C) /\ Queued(c, n) \in Nat /\ Queued(c, n) = Cardinality(C)
    BY QueuedTyped DEF Queued
  <1>3. Queued(d, n) = Cardinality(D)
    BY DEF Queued
  <1> HIDE DEF d
  <1>4. CASE m = n
    <2>1. D = C \cup {Len(c) + 1} /\ Len(c) + 1 \notin C
      BY <1>1, <1>4
    <2> HIDE DEF C, D
    <2>2. Cardinality(D) = Cardinality(C) + 1
      BY <1>2, <2>1, FS_AddElement
    <2>3. QED
      BY <1>2, <1>3, <1>4, <2>2 DEF d
  <1>5. CASE m # n
    <2>1. D = C
      BY <1>1, <1>5
    <2> HIDE DEF C, D
    <2>2. QED
      BY <1>2, <1>3, <1>5, <2>1 DEF d
  <1>6. QED
    BY <1>4, <1>5

\* The first is once less in what remains.
LEMMA QueuedTail ==
  ASSUME NEW c \in Seq(Nodes), c # <<>>, NEW n \in Nodes
  PROVE  /\ Head(c) \in Nodes /\ Tail(c) \in Seq(Nodes)
         /\ Queued(c, n) = Queued(Tail(c), n) + (IF Head(c) = n THEN 1 ELSE 0)
  <1> DEFINE d == Tail(c)
             C == {i \in DOMAIN c : c[i] = n}
             D == {i \in DOMAIN d : d[i] = n}
             shift == [i \in D |-> i + 1]
  <1>1. /\ Head(c) \in Nodes /\ d \in Seq(Nodes) /\ Head(c) = c[1]
        /\ Len(c) \in Nat /\ Len(c) > 0 /\ Len(d) = Len(c) - 1
        /\ DOMAIN c = 1..Len(c) /\ DOMAIN d = 1..(Len(c) - 1)
        /\ \A i \in 1..(Len(c) - 1) : d[i] = c[i + 1]
    BY HeadTailProperties
  <1>2. /\ IsFiniteSet(C) /\ Queued(c, n) \in Nat /\ Queued(c, n) = Cardinality(C)
        /\ IsFiniteSet(D) /\ Queued(d, n) \in Nat /\ Queued(d, n) = Cardinality(D)
    BY <1>1, QueuedTyped DEF Queued
  <1> HIDE DEF d
  <1>4. Cardinality(C \ {1}) = Cardinality(D)
    <2>1. \A i \in D : i \in 1..(Len(c) - 1) /\ i + 1 \in C /\ i + 1 # 1
      BY <1>1
    <2>2. \A i, j \in D : i + 1 = j + 1 => i = j
      BY <1>1
    <2>3. \A j \in C \ {1} : j - 1 \in D /\ (j - 1) + 1 = j
      BY <1>1
    <2> HIDE DEF C, D
    <2>4. shift \in [D -> C \ {1}] /\ \A i, j \in D : shift[i] = shift[j] => i = j
      BY <2>1, <2>2
    <2>5. \A j \in C \ {1} : \E i \in D : shift[i] = j
      BY <2>3
    <2> HIDE DEF shift
    <2>6. QED
      BY <1>2, <2>4, <2>5, AsMany
  <1>5. CASE Head(c) = n
    <2>1. 1 \in C
      BY <1>1, <1>5
    <2> HIDE DEF C, D
    <2>2. Cardinality(C \ {1}) = Cardinality(C) - 1
      BY <1>2, <2>1, FS_RemoveElement
    <2>3. QED
      BY <1>1, <1>2, <1>4, <1>5, <2>2 DEF d
  <1>6. CASE Head(c) # n
    <2>1. 1 \notin C
      BY <1>1, <1>6
    <2>2. C \ {1} = C
      BY <2>1
    <2> HIDE DEF C, D
    <2>3. Queued(c, n) = Queued(d, n)
      BY <1>2, <1>4, <2>2
    <2>4. QED
      BY <1>1, <1>2, <1>6, <2>3 DEF d
  <1>7. QED
    BY <1>5, <1>6

\* The steps that touch neither the file nor what is known to be on disk.
Moves ==
    \/ \E n \in Nodes : SendDecision(n) \/ \E ms \in Latencies : SendSample(n, ms)
    \/ StartDraining \/ OpenExisting
    \/ AccumulateSnapshot \/ AccumulateResponseSample
    \/ DrainSnapshot \/ DrainSample
    \/ Tick \/ UNCHANGED vars

\* They move decisions of a node from one account to the next; between the
\* write of a row and the Sync, none into the window.
Balanced(n) ==
    /\ accepted'[n] + Queued(decisionC, n) + req[n] + lost[n]
         = accepted[n] + Queued(decisionC', n) + req'[n] + lost'[n]
    /\ stage = "sync" => req'[n] = req[n]
    /\ lost'[n] >= lost[n] /\ req'[n] >= req[n]

\* The moves between channel and window keep the account balanced.
LEMMA MovesBalance ==
  ASSUME Types, MoreTypes, Moves, stage = "sync" => mode = "recording"
  PROVE  /\ \A n \in Nodes : Balanced(n)
         /\ UNCHANGED <<stage, syncFailed, werr, fileVars>>
         /\ stage = "sync" => mode' = "recording"
  <1> USE DEF bufferVars, aggVars, fileVars, history, bounds
  <1>0. \A n \in Nodes :
          /\ accepted[n] \in Nat /\ lost[n] \in Nat /\ req[n] \in Nat
          /\ Queued(decisionC, n) \in Nat
    BY QueuedTyped DEF Types, MoreTypes
  <1>1. ASSUME NEW m \in Nodes, SendDecision(m)
        PROVE  \A n \in Nodes : Balanced(n)
    <2>1. ASSUME NEW n \in Nodes PROVE Balanced(n)
      <3>1. Queued(decisionC', n) = Queued(decisionC, n) + (IF m = n THEN 1 ELSE 0)
        BY <1>1, QueuedAppended DEF SendDecision, Types
      <3>2. accepted'[n] = accepted[n] + (IF m = n THEN 1 ELSE 0)
        BY <1>1 DEF SendDecision, MoreTypes
      <3>3. UNCHANGED <<req, lost>>
        BY <1>1 DEF SendDecision
      <3>4. QED
        BY <1>0, <3>1, <3>2, <3>3 DEF Balanced
    <2>2. QED
      BY <2>1
  <1>2. ASSUME AccumulateSnapshot
        PROVE  \A n \in Nodes : Balanced(n)
    <2>1. ASSUME NEW n \in Nodes PROVE Balanced(n)
      <3>1. /\ Head(decisionC) \in Nodes
            /\ Queued(decisionC, n) = Queued(decisionC', n) + (IF Head(decisionC) = n THEN 1 ELSE 0)
            /\ Queued(decisionC', n) \in Nat
        BY <1>2, QueuedTail, QueuedTyped DEF AccumulateSnapshot, Types
      <3>2. req'[n] = req[n] + (IF Head(decisionC) = n THEN 1 ELSE 0)
        <4>1. req' = [req EXCEPT ![Head(decisionC)] = @ + 1] /\ req \in [Nodes -> Nat]
          BY <1>2 DEF AccumulateSnapshot, Types
        <4> HIDE DEF bufferVars, aggVars, fileVars, history, bounds
        <4>2. req[n] \in Nat
          BY <4>1
        <4>3. QED
          BY <4>1, <4>2
      <3>3. UNCHANGED <<accepted, lost>> /\ stage = "select"
        BY <1>2 DEF AccumulateSnapshot, Selecting
      <3>4. QED
        BY <1>0, <3>1, <3>2, <3>3 DEF Balanced
    <2>2. QED
      BY <2>1
  <1>3. ASSUME DrainSnapshot
        PROVE  \A n \in Nodes : Balanced(n)
    <2>1. ASSUME NEW n \in Nodes PROVE Balanced(n)
      <3>1. /\ Head(decisionC) \in Nodes
            /\ Queued(decisionC, n) = Queued(decisionC', n) + (IF Head(decisionC) = n THEN 1 ELSE 0)
            /\ Queued(decisionC', n) \in Nat
        BY <1>3, QueuedTail, QueuedTyped DEF DrainSnapshot, Types
      <3>2. lost'[n] = lost[n] + (IF Head(decisionC) = n THEN 1 ELSE 0)
        BY <1>3, <3>1 DEF DrainSnapshot, MoreTypes
      <3>3. UNCHANGED <<accepted, req>>
        BY <1>3 DEF DrainSnapshot
      <3>4. QED
        BY <1>0, <3>1, <3>2, <3>3 DEF Balanced
    <2>2. QED
      BY <2>1
  <1>4. ASSUME \/ \E n \in Nodes : \E ms \in Latencies : SendSample(n, ms)
               \/ StartDraining \/ OpenExisting
               \/ AccumulateResponseSample \/ DrainSample
               \/ Tick \/ UNCHANGED vars
        PROVE  \A n \in Nodes : Balanced(n)
    <2>1. UNCHANGED <<decisionC, accepted, req, lost>>
      BY <1>4 DEF SendSample, StartDraining, OpenExisting, AccumulateResponseSample,
         DrainSample, Tick, vars
    <2>2. QED
      BY <1>0, <2>1 DEF Balanced
  <1>5. UNCHANGED <<stage, syncFailed, werr, fileVars>>
    <2>1. CASE \E n \in Nodes : SendDecision(n) \/ \E ms \in Latencies : SendSample(n, ms)
      BY <2>1 DEF SendDecision, SendSample
    <2>2. CASE \/ StartDraining \/ OpenExisting \/ AccumulateSnapshot
               \/ AccumulateResponseSample
      BY <2>2 DEF StartDraining, OpenExisting, AccumulateSnapshot,
         AccumulateResponseSample
    <2>3. CASE DrainSnapshot \/ DrainSample \/ Tick \/ UNCHANGED vars
      BY <2>3 DEF DrainSnapshot, DrainSample, Tick, vars
    <2>4. QED
      BY <2>1, <2>2, <2>3 DEF Moves
  <1>6. stage = "sync" => mode' = "recording"
    <2>1. CASE \E n \in Nodes : SendDecision(n) \/ \E ms \in Latencies : SendSample(n, ms)
      BY <2>1 DEF SendDecision, SendSample
    <2>2. CASE \/ StartDraining \/ OpenExisting \/ AccumulateSnapshot
               \/ AccumulateResponseSample
      BY <2>2 DEF StartDraining, OpenExisting, AccumulateSnapshot,
         AccumulateResponseSample
    <2>3. CASE DrainSnapshot \/ DrainSample \/ Tick \/ UNCHANGED vars
      BY <2>3 DEF DrainSnapshot, DrainSample, Tick, vars
    <2>4. QED
      BY <2>1, <2>2, <2>3 DEF Moves
  <1>7. QED
    BY <1>1, <1>2, <1>3, <1>4, <1>5, <1>6 DEF Moves

(***************************************************************************)
(* CountedOnce is inductive once it is known that torn lines count nothing *)
(* and that only a worker that records is ever between a write and a Sync. *)
(***************************************************************************)
Unsynced(n) == IF stage = "sync" THEN 0 ELSE req[n]

CountInv ==
    /\ TornEmpty(file)
    /\ stage = "sync" => mode = "recording"
    /\ ~syncFailed => \A n \in Nodes :
          Requests(file, n) + Queued(decisionC, n) + Unsynced(n) <= accepted[n]

\* What the accounts hold are numbers.
\* The accounts of a node are natural numbers.
LEMMA AccountsTyped ==
  ASSUME Types, MoreTypes, NEW n \in Nodes
  PROVE  /\ accepted[n] \in Nat /\ lost[n] \in Nat /\ req[n] \in Nat
         /\ Queued(decisionC, n) \in Nat /\ Requests(file, n) \in Nat
  BY QueuedTyped, RequestsTyped DEF Types, MoreTypes

\* An empty channel holds no decision.
LEMMA NothingQueued ==
  ASSUME NEW n \in Nodes
  PROVE  Queued(<<>>, n) = 0
  <1>1. {i \in DOMAIN <<>> : <<>>[i] = n} = {}
    OBVIOUS
  <1>2. QED
    BY <1>1, FS_EmptySet DEF Queued

\* An empty file holds no request.
LEMMA NothingRequested ==
  ASSUME NEW n \in Nodes
  PROVE  Requests(<<>>, n) = 0 /\ TornEmpty(<<>>)
  <1>1. <<>> \in Seq(Written)
    OBVIOUS
  <1>2. Requests(<<>>, n) = 0
    BY <1>1, RequestsAre, TallyOfNone
  <1>3. QED
    BY <1>2 DEF TornEmpty

\* Without nodes there is nothing to count.
LEMMA NoNodes ==
  ASSUME NEW f \in Seq(Written), Nodes = {}
  PROVE  TornEmpty(f)
  <1>1. \A line \in Written : line.req \in [Nodes -> Nat]
    BY DEF Written, Lines
  <1>2. \A line \in Written : line.req = Zero
    BY <1>1 DEF Zero
  <1>3. QED
    BY <1>2 DEF TornEmpty

\* Every step keeps the ledger.
LEMMA CountInductive == Types /\ MoreTypes /\ CountInv /\ [Next]_vars => CountInv'
  <1> SUFFICES ASSUME Types, MoreTypes, CountInv, [Next]_vars PROVE CountInv'
    OBVIOUS
  <1> USE DEF bufferVars, aggVars, fileVars, history, bounds
  <1>0. \A n \in Nodes :
          /\ accepted[n] \in Nat /\ lost[n] \in Nat /\ req[n] \in Nat
          /\ Queued(decisionC, n) \in Nat /\ Requests(file, n) \in Nat
    BY AccountsTyped
  <1>f. file \in Seq(Written) /\ TornEmpty(file)
    BY DEF Types, CountInv
  <1>n. /\ Types' /\ MoreTypes'
        /\ \A n \in Nodes : req'[n] \in Nat /\ lost'[n] \in Nat /\ accepted'[n] \in Nat
    BY TypesInductive, MoreTypesInductive DEF Types, MoreTypes
  <1>q. \A n \in Nodes : Queued(decisionC', n) \in Nat
    BY <1>n, QueuedTyped DEF Types
  <1>1. CASE Moves
    <2>1. /\ \A n \in Nodes : Balanced(n)
          /\ UNCHANGED <<stage, syncFailed, werr, fileVars>>
          /\ stage = "sync" => mode' = "recording"
      BY <1>1, MovesBalance DEF CountInv
    <2>2. ASSUME ~syncFailed', NEW n \in Nodes
          PROVE  Requests(file', n) + Queued(decisionC', n) + Unsynced(n)' <= accepted'[n]
      <3>1. Requests(file, n) + Queued(decisionC, n) + Unsynced(n) <= accepted[n]
        BY <2>1, <2>2 DEF CountInv
      <3>2. QED
        BY <1>0, <1>n, <1>q, <2>1, <3>1 DEF Balanced, Unsynced
    <2>3. QED
      BY <1>f, <2>1, <2>2 DEF CountInv
  <1>2. CASE WriteHeader
    <2>1. /\ file' = AppendLine(file, Header) \/ file' \in FailedAppends(file, Header)
          /\ mode = "starting" /\ UNCHANGED <<stage, decisionC, req, accepted, syncFailed>>
      BY <1>2 DEF WriteHeader
    <2>2. Header \in Written /\ Header.req = Zero /\ Header.kind = "whole"
      BY WholeLines DEF Types, Header, Line
    <2>3. ASSUME NEW n \in Nodes
          PROVE  Requests(file', n) = Requests(file, n) /\ TornEmpty(file')
      <3>1. CASE file' = AppendLine(file, Header)
        <4>1. Requests(file', n) = Requests(file, n) + Header.req[n] /\ TornEmpty(file')
          BY <1>f, <2>2, <3>1, RequestsAppended
        <4>2. QED
          BY <1>0, <2>2, <4>1 DEF Zero
      <3>2. CASE file' \in FailedAppends(file, Header)
        BY <1>f, <2>2, <3>2, RequestsNotWritten
      <3>3. QED
        BY <2>1, <3>1, <3>2
    <2>4. TornEmpty(file')
      <3>1. CASE Nodes = {}
        BY <1>n, <3>1, NoNodes DEF Types
      <3>2. CASE Nodes # {}
        BY <2>3, <3>2
      <3>3. QED
        BY <3>1, <3>2
    <2>5. QED
      BY <2>1, <2>3, <2>4 DEF CountInv, Unsynced
  <1>3. CASE WriteRow
    <2>1. /\ \/ file' = AppendLine(file, Row) /\ stage' = "sync"
             \/ file' \in FailedAppends(file, Row) /\ stage' = stage
             \/ file' = file /\ stage' = stage
          /\ stage = "select" /\ mode = "recording"
          /\ UNCHANGED <<mode, decisionC, req, accepted, syncFailed>>
      BY <1>3 DEF WriteRow, Selecting
    <2>2. Row \in Written /\ Row.req = req /\ Row.kind = "whole"
      BY WholeLines DEF Types, Row, Line
    <2>3. ASSUME NEW n \in Nodes
          PROVE  /\ Requests(file', n) + Unsynced(n)' = Requests(file, n) + Unsynced(n)
                 /\ TornEmpty(file')
      <3>1. CASE file' = AppendLine(file, Row) /\ stage' = "sync"
        <4>1. Requests(file', n) = Requests(file, n) + req[n] /\ TornEmpty(file')
          BY <1>f, <2>2, <3>1, RequestsAppended
        <4>2. QED
          BY <1>0, <2>1, <3>1, <4>1 DEF Unsynced
      <3>2. CASE file' \in FailedAppends(file, Row) /\ stage' = stage
        <4>1. Requests(file', n) = Requests(file, n) /\ TornEmpty(file')
          BY <1>f, <2>2, <3>2, RequestsNotWritten
        <4>2. QED
          BY <2>1, <3>2, <4>1 DEF Unsynced
      <3>3. CASE file' = file /\ stage' = stage
        BY <1>f, <2>1, <3>3 DEF Unsynced
      <3>4. QED
        BY <2>1, <3>1, <3>2, <3>3
    <2>4. TornEmpty(file')
      <3>1. CASE Nodes = {}
        BY <1>n, <3>1, NoNodes DEF Types
      <3>2. CASE Nodes # {}
        BY <2>3, <3>2
      <3>3. QED
        BY <3>1, <3>2
    <2>5. ASSUME ~syncFailed', NEW n \in Nodes
          PROVE  Requests(file', n) + Queued(decisionC', n) + Unsynced(n)' <= accepted'[n]
      <3>1. Requests(file, n) + Queued(decisionC, n) + Unsynced(n) <= accepted[n]
        BY <2>1, <2>5 DEF CountInv
      <3>2. Requests(file', n) \in Nat /\ Unsynced(n)' \in Nat /\ Unsynced(n) \in Nat
        BY <1>0, <1>n, RequestsTyped DEF Types, Unsynced
      <3>3. QED
        BY <1>0, <2>1, <2>3, <3>1, <3>2
    <2>6. QED
      BY <2>1, <2>4, <2>5 DEF CountInv
  <1>4. CASE SyncRow
    <2>1. /\ UNCHANGED <<mode, file, decisionC, accepted>> /\ stage = "sync" /\ stage' = "select"
          /\ \/ req' = Zero /\ syncFailed' = syncFailed
             \/ syncFailed'
      BY <1>4, Zenon DEF SyncRow
    <2>2. ASSUME ~syncFailed', NEW n \in Nodes
          PROVE  Requests(file', n) + Queued(decisionC', n) + Unsynced(n)' <= accepted'[n]
      <3>1. Requests(file, n) + Queued(decisionC, n) + Unsynced(n) <= accepted[n]
        BY <2>1, <2>2 DEF CountInv
      <3>2. Unsynced(n)' = 0 /\ Unsynced(n) = 0
        BY <2>1, <2>2 DEF Unsynced, Zero
      <3>3. QED
        BY <2>1, <3>1, <3>2
    <2>3. QED
      BY <1>f, <2>1, <2>2 DEF CountInv
  <1>5. CASE Crash \/ PowerLoss
    <2>1. /\ decisionC' = <<>> /\ req' = Zero /\ stage' = "select"
          /\ UNCHANGED <<accepted, syncFailed>>
      BY <1>5 DEF Crash, PowerLoss, LoseMemory
    <2>2. /\ TornEmpty(file')
          /\ \A n \in Nodes : Requests(file', n) <= Requests(file, n)
      <3>1. CASE Crash
        BY <1>0, <1>f, <3>1 DEF Crash
      <3>2. CASE PowerLoss
        <4>1. PICK k \in 0..Len(file) :
                \/ file' = SubSeq(file, 1, k)
                \/ /\ k < Len(file) /\ file[k + 1] \in Written
                   /\ \E cut \in Cuts :
                        file' = AppendLine(SubSeq(file, 1, k), Torn(file[k + 1], cut))
          BY <3>2, AfterPowerLoss
        <4>2. SubSeq(file, 1, k) \in Seq(Written)
          BY <1>f, Prefix
        <4>3. ASSUME NEW n \in Nodes
              PROVE  Requests(file', n) <= Requests(file, n) /\ TornEmpty(file')
          <5>1. /\ Requests(SubSeq(file, 1, k), n) <= Requests(file, n)
                /\ TornEmpty(SubSeq(file, 1, k))
            BY <1>f, RequestsPrefix
          <5>2. CASE file' = SubSeq(file, 1, k)
            BY <5>1, <5>2
          <5>3. CASE file' # SubSeq(file, 1, k)
            <6>1. file[k + 1] \in Written /\ file' \in FailedAppends(SubSeq(file, 1, k), file[k + 1])
              BY <4>1, <5>3 DEF FailedAppends
            <6>2. Requests(file', n) = Requests(SubSeq(file, 1, k), n) /\ TornEmpty(file')
              BY <4>2, <5>1, <6>1, RequestsNotWritten
            <6>3. QED
              BY <5>1, <6>2
          <5>4. QED
            BY <5>2, <5>3
        <4>4. TornEmpty(file')
          <5>1. CASE Nodes = {}
            BY <1>n, <5>1, NoNodes DEF Types
          <5>2. CASE Nodes # {}
            BY <4>3, <5>2
          <5>3. QED
            BY <5>1, <5>2
        <4>5. QED
          BY <4>3, <4>4
      <3>3. QED
        BY <1>5, <3>1, <3>2
    <2>3. ASSUME ~syncFailed', NEW n \in Nodes
          PROVE  Requests(file', n) + Queued(decisionC', n) + Unsynced(n)' <= accepted'[n]
      <3>1. Requests(file, n) + Queued(decisionC, n) + Unsynced(n) <= accepted[n]
        BY <2>1, <2>3 DEF CountInv
      <3>2. Unsynced(n)' = 0 /\ Queued(decisionC', n) = 0 /\ Unsynced(n) \in Nat
        BY <1>0, <2>1, NothingQueued DEF Unsynced, Zero
      <3>3. Requests(file', n) \in Nat
        BY <1>n, RequestsTyped DEF Types
      <3>4. QED
        BY <1>0, <2>1, <2>2, <3>1, <3>2, <3>3
    <2>4. QED
      BY <2>1, <2>2, <2>3 DEF CountInv
  <1>6. CASE ClearDataset
    <2>1. file' = <<>> /\ UNCHANGED <<mode, stage, decisionC, req, accepted, syncFailed>>
      BY <1>6 DEF ClearDataset
    <2>2. TornEmpty(file')
      BY <2>1 DEF TornEmpty
    <2>3. ASSUME ~syncFailed', NEW n \in Nodes
          PROVE  Requests(file', n) + Queued(decisionC', n) + Unsynced(n)' <= accepted'[n]
      <3>1. Requests(file, n) + Queued(decisionC, n) + Unsynced(n) <= accepted[n]
        BY <2>1, <2>3 DEF CountInv
      <3>2. Requests(file', n) = 0 /\ Unsynced(n)' = Unsynced(n) /\ Unsynced(n) \in Nat
        BY <1>0, <2>1, NothingRequested DEF Unsynced
      <3>3. QED
        BY <1>0, <2>1, <3>1, <3>2
    <2>4. QED
      BY <2>1, <2>2, <2>3 DEF CountInv
  <1>7. QED
    BY <1>1, <1>2, <1>3, <1>4, <1>5, <1>6 DEF Next, Moves

\* It holds at first.
LEMMA CountInit == Init => CountInv
  <1>1. ASSUME Init PROVE CountInv
    <2>1. file = <<>> /\ decisionC = <<>> /\ stage = "select" /\ req = Zero /\ accepted = Zero
      BY <1>1 DEF Init
    <2>2. TornEmpty(file)
      BY <2>1 DEF TornEmpty
    <2>3. \A n \in Nodes :
            Requests(file, n) = 0 /\ Queued(decisionC, n) = 0 /\ Unsynced(n) = 0
      BY <2>1, NothingQueued, NothingRequested DEF Unsynced, Zero
    <2>4. \A n \in Nodes : accepted[n] = 0
      BY <2>1 DEF Zero
    <2>5. QED
      BY <2>1, <2>2, <2>3, <2>4 DEF CountInv
  <1>2. QED
    BY <1>1

\* Until a Sync fails no decision is counted in two rows, whatever writes fail
\* and whenever the process dies.
THEOREM DecisionsCountOnce == Spec => []CountedOnce
  <1>1. CountInv => CountedOnce
    BY DEF CountInv, CountedOnce, Counted, Requests, QueuedFor, Queued, Unsynced
  <1>2. QED
    BY <1>1, CountInit, TypesInit, TypesInductive, MoreTypesInit,
       MoreTypesInductive, CountInductive, PTL DEF Spec

(***************************************************************************)
(* NothingForgotten has to survive a power loss, which may leave any       *)
(* number of lines from those known to be on disk upwards: it holds of     *)
(* each of these prefixes.  And as the window is reset after the Sync, it  *)
(* holds without the window once the row is written.                       *)
(***************************************************************************)
Recorded(k, n) == Requests(SubSeq(file, 1, k), n)

ForgetInv ==
    /\ \A n \in Nodes : \A k \in synced..Len(file) :
          accepted[n] <= Recorded(k, n) + Queued(decisionC, n) + req[n] + lost[n]
    /\ stage = "sync" => \A n \in Nodes :
          accepted[n] <= Requests(file, n) + Queued(decisionC, n) + lost[n]

\* All lines up to the last are the file.
LEMMA WholePrefix ==
  ASSUME NEW f \in Seq(Written)
  PROVE  SubSeq(f, 1, Len(f)) = f
  <1>1. Len(f) \in 0..Len(f)
    OBVIOUS
  <1>2. /\ SubSeq(f, 1, Len(f)) \in Seq(Written)
        /\ Len(SubSeq(f, 1, Len(f))) = Len(f)
        /\ \A i \in 1..Len(f) : SubSeq(f, 1, Len(f))[i] = f[i]
    BY <1>1, Prefix
  <1>3. QED
    BY <1>2

\* What is appended leaves the lines before it alone, all of them or all but
\* a torn one.
LEMMA AppendedPrefix ==
  ASSUME NEW f \in Seq(Written), NEW line \in Written,
         NEW k \in 0..(Len(AppendLine(f, line)) - 1)
  PROVE  k \in 0..Len(f) /\ SubSeq(AppendLine(f, line), 1, k) = SubSeq(f, 1, k)
  <1> DEFINE g == AppendLine(f, line)
  <1>1. /\ g \in Seq(Written) /\ Len(g) > 0
        /\ \A i \in 1..(Len(g) - 1) : i \in DOMAIN f /\ g[i] = f[i]
        /\ Len(g) = Len(f) + 1 \/ Len(g) = Len(f)
    BY Appending
  <1>k. k \in 0..(Len(g) - 1)
    OBVIOUS
  <1> HIDE DEF g
  <1>2. k \in 0..Len(f) /\ k \in 0..Len(g)
    BY <1>1, <1>k
  <1>3. /\ SubSeq(g, 1, k) \in Seq(Written) /\ Len(SubSeq(g, 1, k)) = k
        /\ \A i \in 1..k : SubSeq(g, 1, k)[i] = g[i]
    BY <1>1, <1>2, Prefix
  <1>4. /\ SubSeq(f, 1, k) \in Seq(Written) /\ Len(SubSeq(f, 1, k)) = k
        /\ \A i \in 1..k : SubSeq(f, 1, k)[i] = f[i]
    BY <1>2, Prefix
  <1>5. \A i \in 1..k : g[i] = f[i]
    BY <1>1, <1>2, <1>k
  <1>6. SubSeq(g, 1, k) = SubSeq(f, 1, k)
    BY <1>3, <1>4, <1>5
  <1>7. QED
    BY <1>2, <1>6 DEF g

\* A write keeps the promise for every prefix it may be cut to, and the new
\* line adds what it counts.
LEMMA WrittenPrefixes ==
  ASSUME Types, TornEmpty(file), NEW line \in Written,
         line.kind = "torn" => line.req = Zero,
         file' = AppendLine(file, line), synced' = StillSynced(file, file'),
         NEW n \in Nodes, NEW least \in Int,
         \A k \in synced..Len(file) : least <= Recorded(k, n) + req[n]
  PROVE  \A k \in synced'..Len(file') : least <= Recorded(k, n)' + req[n]
  <1>f. /\ file \in Seq(Written) /\ synced \in 0..Len(file) /\ req[n] \in Nat
        /\ Len(file) \in Nat
    BY DEF Types
  <1>1. /\ file' \in Seq(Written) /\ Len(file') \in Nat \ {0}
        /\ \/ Len(file') = Len(file) + 1
           \/ Len(file') = Len(file) /\ EndsTorn(file) /\ file[Len(file)].kind = "torn"
    <2>1. file' \in Seq(Written) /\ Len(file') > 0
      BY <1>f, Appending
    <2>2. \/ Len(file') = Len(file) + 1
          \/ Len(file') = Len(file) /\ EndsTorn(file) /\ file[Len(file)].kind = "torn"
      <3>1. \/ Len(file') = Len(file) + 1
            \/ Len(file') = Len(file) /\ file[Len(file)].kind = "torn"
        BY <1>f, Appending
      <3>2. Len(file') = Len(file) => file # <<>>
        BY <2>1
      <3>3. QED
        BY <3>1, <3>2 DEF EndsTorn, Last
    <2>3. QED
      BY <2>1, <2>2
  <1>2. synced' = synced \/ (synced' = Len(file) - 1 /\ EndsTorn(file))
    BY <1>f DEF StillSynced
  <1>3. Requests(file', n) = Requests(file, n) + line.req[n] /\ line.req[n] \in Nat
    <2>1. line.req[n] \in Nat
      BY DEF Written, Lines
    <2>2. QED
      BY <1>f, <2>1, RequestsAppended
  <1>4. /\ least <= Requests(file, n) + req[n]
        /\ Requests(file, n) \in Nat
    <2>1. least <= Recorded(Len(file), n) + req[n]
      BY <1>f
    <2>2. Recorded(Len(file), n) = Requests(file, n)
      BY <1>f, WholePrefix DEF Recorded
    <2>3. QED
      BY <1>f, <2>1, <2>2, RequestsTyped
  <1>5. ASSUME NEW k \in synced'..Len(file')
        PROVE  least <= Recorded(k, n)' + req[n]
    <2>0. k \in Int /\ k <= Len(file')
      BY <1>1, <1>2, <1>f
    <2>1. CASE k = Len(file')
      <3>1. Recorded(k, n)' = Requests(file', n)
        BY <1>1, <2>1, WholePrefix DEF Recorded
      <3> DEFINE r == Requests(file, n)
                 r2 == Requests(file', n)
                 w == req[n]
                 d == line.req[n]
      <3>2. /\ r \in Nat /\ w \in Nat /\ d \in Nat
            /\ r2 = r + d /\ least <= r + w
        BY <1>f, <1>3, <1>4
      <3>3. least <= r2 + w
        <4> HIDE DEF r, r2, w, d
        <4>1. QED
          BY <3>2
      <3>4. QED
        BY <3>1, <3>3
    <2>2. CASE k # Len(file')
      <3>1. k >= 0
        <4>1. CASE synced' = synced
          BY <1>f, <2>0, <4>1
        <4>2. CASE synced' = Len(file) - 1 /\ EndsTorn(file)
          BY <1>f, <2>0, <4>2 DEF EndsTorn
        <4>3. QED
          BY <1>2, <4>1, <4>2
      <3>2. k \in 0..(Len(file') - 1)
        BY <1>1, <2>0, <2>2, <3>1
      <3>3. k \in 0..Len(file) /\ Recorded(k, n)' = Recorded(k, n)
        BY <1>f, <3>2, AppendedPrefix DEF Recorded
      <3>4. CASE k >= synced
        BY <1>f, <3>3, <3>4
      <3>5. CASE k < synced
        <4>1. k = Len(file) - 1 /\ EndsTorn(file)
          BY <1>2, <1>f, <2>0, <3>3, <3>5
        <4>2. file[Len(file)].kind = "torn"
          BY <4>1 DEF EndsTorn, Last
        <4>3. Recorded(k, n) = Requests(file, n)
          BY <1>f, <3>3, <4>1, <4>2, RequestsPrefix DEF Recorded
        <4>4. QED
          BY <1>4, <3>3, <4>3
      <3>6. QED
        BY <1>f, <2>0, <3>4, <3>5
    <2>3. QED
      BY <2>1, <2>2
  <1>6. QED
    BY <1>5

\* Every step keeps it.
LEMMA ForgetInductive ==
  Types /\ MoreTypes /\ CountInv /\ ForgetInv /\ [Next]_vars => ForgetInv'
  <1> SUFFICES ASSUME Types, MoreTypes, CountInv, ForgetInv, [Next]_vars
               PROVE  ForgetInv'
    OBVIOUS
  <1> USE DEF bufferVars, aggVars, fileVars, history, bounds
  <1>0. \A n \in Nodes :
          /\ accepted[n] \in Nat /\ lost[n] \in Nat /\ req[n] \in Nat
          /\ Queued(decisionC, n) \in Nat /\ Requests(file, n) \in Nat
    BY AccountsTyped
  <1>f. /\ file \in Seq(Written) /\ TornEmpty(file) /\ synced \in 0..Len(file)
        /\ Len(file) \in synced..Len(file) /\ Len(file) \in Nat
    BY DEF Types, CountInv
  <1>w. \A n \in Nodes :
          accepted[n] <= Requests(file, n) + Queued(decisionC, n) + req[n] + lost[n]
    BY <1>f, WholePrefix DEF ForgetInv, Recorded
  <1>n. Types' /\ MoreTypes'
    BY TypesInductive, MoreTypesInductive
  <1>m. \A n \in Nodes :
          /\ accepted'[n] \in Nat /\ lost'[n] \in Nat /\ req'[n] \in Nat
          /\ Queued(decisionC', n) \in Nat /\ Requests(file', n) \in Nat
    BY <1>n, QueuedTyped, RequestsTyped DEF Types, MoreTypes
  <1>p. \A n \in Nodes : \A k \in 0..Len(file) :
          Recorded(k, n) \in Nat
    BY <1>f, Prefix, RequestsTyped DEF Recorded
  <1>1. CASE Moves
    <2>1. /\ \A n \in Nodes : Balanced(n)
          /\ UNCHANGED <<stage, file, synced>>
      BY <1>1, MovesBalance DEF CountInv
    <2>2. ASSUME NEW n \in Nodes, NEW k \in synced'..Len(file')
          PROVE  accepted'[n] <= Recorded(k, n)' + Queued(decisionC', n) + req'[n] + lost'[n]
      <3> DEFINE a == accepted[n]
                 q == Queued(decisionC, n)
                 w == req[n]
                 l == lost[n]
                 a2 == accepted'[n]
                 q2 == Queued(decisionC', n)
                 w2 == req'[n]
                 l2 == lost'[n]
                 r == Recorded(k, n)
      <3>1. a <= r + q + w + l /\ r \in Nat
        BY <1>f, <1>p, <2>1 DEF ForgetInv
      <3>2. Recorded(k, n)' = r
        BY <2>1 DEF Recorded
      <3>3. a2 + q + w + l = a + q2 + w2 + l2
        BY <2>1 DEF Balanced
      <3>4. /\ a \in Nat /\ q \in Nat /\ w \in Nat /\ l \in Nat
            /\ a2 \in Nat /\ q2 \in Nat /\ w2 \in Nat /\ l2 \in Nat
        BY <1>0, <1>m
      <3>5. a2 <= r + q2 + w2 + l2
        <4> HIDE DEF a, q, w, l, a2, q2, w2, l2, r
        <4>1. QED
          BY <3>1, <3>3, <3>4
      <3>6. QED
        BY <3>2, <3>5
    <2>3. ASSUME stage' = "sync", NEW n \in Nodes
          PROVE  accepted'[n] <= Requests(file', n) + Queued(decisionC', n) + lost'[n]
      <3>1. accepted[n] <= Requests(file, n) + Queued(decisionC, n) + lost[n]
        BY <2>1, <2>3 DEF ForgetInv
      <3>2. /\ accepted'[n] + Queued(decisionC, n) + req[n] + lost[n]
                 = accepted[n] + Queued(decisionC', n) + req'[n] + lost'[n]
            /\ req'[n] = req[n]
        BY <2>1, <2>3 DEF Balanced
      <3>3. Requests(file', n) = Requests(file, n)
        BY <2>1
      <3> DEFINE a == accepted[n]
                 q == Queued(decisionC, n)
                 w == req[n]
                 l == lost[n]
                 a2 == accepted'[n]
                 q2 == Queued(decisionC', n)
                 w2 == req'[n]
                 l2 == lost'[n]
                 r == Requests(file, n)
      <3>4. /\ a \in Nat /\ q \in Nat /\ w \in Nat /\ l \in Nat
            /\ a2 \in Nat /\ q2 \in Nat /\ w2 \in Nat /\ l2 \in Nat
        BY <1>0, <1>m
      <3>5. r \in Nat
        BY <1>0
      <3>6. a2 <= r + q2 + l2
        <4>1. a <= r + q + l /\ a2 + q + w + l = a + q2 + w2 + l2 /\ w2 = w
          BY <3>1, <3>2
        <4> HIDE DEF a, q, w, l, a2, q2, w2, l2, r
        <4>2. QED
          BY <3>4, <3>5, <4>1
      <3>7. QED
        BY <3>3, <3>6
    <2>4. QED
      BY <2>2, <2>3 DEF ForgetInv
  <1>2. CASE WriteHeader
    <2>1. /\ file = <<>> /\ synced' = synced /\ mode = "starting"
          /\ UNCHANGED <<stage, decisionC, req, accepted, lost>>
      BY <1>2 DEF WriteHeader
    <2>2. stage # "sync" /\ synced' = 0
      BY <1>f, <2>1 DEF CountInv
    <2>3. ASSUME NEW n \in Nodes, NEW k \in synced'..Len(file')
          PROVE  accepted'[n] <= Recorded(k, n)' + Queued(decisionC', n) + req'[n] + lost'[n]
      <3>1. Requests(file, n) = 0
        BY <2>1, NothingRequested
      <3>2. Recorded(k, n)' \in Nat
        <4>1. file' \in Seq(Written) /\ k \in 0..Len(file')
          BY <1>n, <2>2 DEF Types
        <4>2. QED
          BY <4>1, Prefix, RequestsTyped DEF Recorded
      <3> DEFINE a == accepted[n]
                 q == Queued(decisionC, n)
                 w == req[n]
                 l == lost[n]
                 r2 == Recorded(k, n)'
      <3>a. a \in Nat /\ q \in Nat /\ w \in Nat /\ l \in Nat
        BY <1>0
      <3>3. /\ accepted'[n] = a /\ Queued(decisionC', n) = q
            /\ req'[n] = w /\ lost'[n] = l
        BY <2>1
      <3>4. r2 \in Nat /\ a <= 0 + q + w + l
        BY <1>w, <3>1, <3>2
      <3>5. a <= r2 + q + w + l
        <4> HIDE DEF a, q, w, l, r2
        <4>1. QED
          BY <3>a, <3>4
      <3>6. QED
        BY <3>3, <3>5
    <2>4. QED
      BY <2>1, <2>2, <2>3 DEF ForgetInv
  <1>3. CASE WriteRow
    <2>1. /\ \/ file' = AppendLine(file, Row) /\ stage' = "sync"
             \/ file' \in FailedAppends(file, Row) /\ stage' = stage
             \/ file' = file /\ stage' = stage
          /\ stage = "select" /\ mode = "recording"
          /\ synced' = StillSynced(file, file')
          /\ UNCHANGED <<mode, decisionC, req, accepted, lost>>
      BY <1>3 DEF WriteRow, Selecting
    <2>2. Row \in Written /\ Row.req = req /\ Row.kind = "whole"
      BY WholeLines DEF Types, Row, Line
    <2>3. ASSUME NEW n \in Nodes, NEW k \in synced'..Len(file')
          PROVE  accepted'[n] <= Recorded(k, n)' + Queued(decisionC', n) + req'[n] + lost'[n]
      <3> DEFINE a == accepted[n]
                 q == Queued(decisionC, n)
                 w == req[n]
                 l == lost[n]
                 least == a - q - l
      <3>0. a \in Nat /\ q \in Nat /\ w \in Nat /\ l \in Nat
        BY <1>0
      <3>u. /\ accepted'[n] = a /\ Queued(decisionC', n) = q
            /\ req'[n] = w /\ lost'[n] = l
        BY <2>1
      <3>1. least \in Int
        <4> HIDE DEF a, q, w, l
        <4>1. QED
          BY <3>0
      <3>2. \A j \in synced..Len(file) : least <= Recorded(j, n) + w
        <4>1. ASSUME NEW j \in synced..Len(file)
              PROVE  least <= Recorded(j, n) + w
          <5> DEFINE r == Recorded(j, n)
          <5>1. r \in Nat
            BY <1>f, <1>p
          <5>2. a <= r + q + w + l
            BY DEF ForgetInv
          <5>3. least <= r + w
            <6> HIDE DEF a, q, w, l, r
            <6>1. QED
              BY <3>0, <5>1, <5>2
          <5>4. QED
            BY <5>3
        <4>2. QED
          BY <4>1
      <3>3. Recorded(k, n)' \in Nat
        <4>1. file' \in Seq(Written) /\ k \in 0..Len(file')
          BY <1>n DEF Types
        <4>2. QED
          BY <4>1, Prefix, RequestsTyped DEF Recorded
      <3>4. least <= Recorded(k, n)' + w
        <4> HIDE DEF least
        <4>1. CASE file' = AppendLine(file, Row)
          <5>1. \A j \in synced'..Len(file') : least <= Recorded(j, n)' + w
            BY <1>f, <2>1, <2>2, <3>1, <3>2, <4>1, WrittenPrefixes
          <5>2. QED
            BY <5>1
        <4>2. CASE file' = file
          <5>1. synced' = synced /\ Recorded(k, n)' = Recorded(k, n)
            BY <2>1, <4>2 DEF StillSynced, Recorded
          <5>2. QED
            BY <3>2, <4>2, <5>1
        <4>3. ASSUME NEW cut \in Cuts, file' = AppendLine(file, Torn(Row, cut))
              PROVE  least <= Recorded(k, n)' + w
          <5>1. Torn(Row, cut) \in Written /\ Torn(Row, cut).req = Zero
            BY <2>2, TornLines DEF Torn
          <5>2. \A j \in synced'..Len(file') : least <= Recorded(j, n)' + w
            BY <1>f, <2>1, <3>1, <3>2, <4>3, <5>1, WrittenPrefixes
          <5>3. QED
            BY <5>2
        <4>4. QED
          BY <2>1, <4>1, <4>2, <4>3 DEF FailedAppends
      <3> DEFINE r2 == Recorded(k, n)'
      <3>5. a <= r2 + q + w + l
        <4>1. r2 \in Nat /\ least <= r2 + w
          BY <3>3, <3>4
        <4> HIDE DEF a, q, w, l, r2
        <4>2. QED
          BY <3>0, <4>1
      <3>6. QED
        BY <3>u, <3>5
    <2>4. ASSUME stage' = "sync", NEW n \in Nodes
          PROVE  accepted'[n] <= Requests(file', n) + Queued(decisionC', n) + lost'[n]
      <3>1. Requests(file', n) = Requests(file, n) + req[n]
        BY <1>f, <2>1, <2>2, <2>4, RequestsAppended
      <3> DEFINE a == accepted[n]
                 q == Queued(decisionC, n)
                 w == req[n]
                 l == lost[n]
                 r == Requests(file, n)
      <3>a. a \in Nat /\ q \in Nat /\ w \in Nat /\ l \in Nat
        BY <1>0
      <3>2. accepted'[n] = a /\ Queued(decisionC', n) = q /\ lost'[n] = l
        BY <2>1
      <3>3. r \in Nat /\ a <= r + q + w + l
        BY <1>0, <1>w
      <3>4. a <= (r + w) + q + l
        <4> HIDE DEF a, q, w, l, r
        <4>1. QED
          BY <3>a, <3>3
      <3>5. QED
        BY <3>1, <3>2, <3>4
    <2>5. QED
      BY <2>3, <2>4 DEF ForgetInv
  <1>4. CASE SyncRow
    <2>1. /\ UNCHANGED <<file, decisionC, accepted, lost>> /\ stage = "sync" /\ stage' = "select"
          /\ \/ req' = Zero /\ synced' = Len(file)
             \/ req' = req /\ synced' = synced
      BY <1>4 DEF SyncRow
    <2>2. ASSUME NEW n \in Nodes, NEW k \in synced'..Len(file')
          PROVE  accepted'[n] <= Recorded(k, n)' + Queued(decisionC', n) + req'[n] + lost'[n]
      <3>1. Recorded(k, n)' = Recorded(k, n)
        BY <2>1 DEF Recorded
      <3>2. CASE req' = Zero /\ synced' = Len(file)
        <4>1. k = Len(file)
          BY <1>f, <2>1, <3>2
        <4>2. Recorded(k, n) = Requests(file, n)
          BY <1>f, <4>1, WholePrefix DEF Recorded
        <4>3. accepted[n] <= Requests(file, n) + Queued(decisionC, n) + lost[n]
          BY <2>1 DEF ForgetInv
        <4>4. req'[n] = 0
          BY <3>2 DEF Zero
        <4>5. QED
          BY <1>0, <2>1, <3>1, <4>2, <4>3, <4>4
      <3>3. CASE req' = req /\ synced' = synced
        BY <2>1, <3>1, <3>3 DEF ForgetInv
      <3>4. QED
        BY <2>1, <3>2, <3>3
    <2>3. QED
      BY <2>1, <2>2 DEF ForgetInv
  <1>5. CASE Crash \/ PowerLoss
    <2>1. /\ decisionC' = <<>> /\ req' = Zero /\ stage' = "select" /\ accepted' = accepted
          /\ \A n \in Nodes : lost'[n] = lost[n] + Queued(decisionC, n) + req[n]
      BY <1>5 DEF Crash, PowerLoss, LoseMemory, QueuedFor, Queued
    <2>2. ASSUME NEW n \in Nodes, NEW k \in synced'..Len(file')
          PROVE  \E j \in synced..Len(file) : Recorded(k, n)' = Recorded(j, n)
      <3>1. CASE Crash
        <4>1. file' = file /\ synced' = synced
          BY <3>1 DEF Crash
        <4>2. QED
          BY <4>1 DEF Recorded
      <3>2. CASE PowerLoss
        <4>1. PICK j \in synced..Len(file) :
                /\ synced' = j
                /\ \/ file' = SubSeq(file, 1, j)
                   \/ /\ j < Len(file)
                      /\ \E cut \in Cuts :
                           file' = AppendLine(SubSeq(file, 1, j), Torn(file[j + 1], cut))
          BY <3>2 DEF PowerLoss
        <4> DEFINE kept == SubSeq(file, 1, j)
        <4>2. kept \in Seq(Written) /\ Len(kept) = j /\ TornEmpty(kept) /\ j \in 0..Len(file)
          BY <1>f, <4>1, Prefix, RequestsPrefix
        <4> HIDE DEF kept
        <4>3. CASE file' = kept
          <5>1. k = j
            BY <4>1, <4>2, <4>3
          <5>2. Recorded(k, n)' = Requests(kept, n)
            BY <4>2, <4>3, <5>1, WholePrefix DEF Recorded
          <5>3. QED
            BY <5>2 DEF Recorded, kept
        <4>4. CASE file' # kept
          <5>1. PICK cut \in Cuts : file' = AppendLine(kept, Torn(file[j + 1], cut)) /\ j < Len(file)
            BY <4>1, <4>4 DEF kept
          <5>2. file[j + 1] \in Written
            BY <1>f, <4>2, <5>1
          <5>3. Torn(file[j + 1], cut) \in Written
            BY <5>2, TornLines
          <5>4. file' \in Seq(Written) /\ Len(file') \in Nat
            BY <1>n DEF Types
          <5>5. Requests(file', n) = Requests(kept, n)
            <6>1. file' \in FailedAppends(kept, file[j + 1])
              BY <5>1 DEF FailedAppends
            <6>2. QED
              BY <4>2, <5>2, <6>1, RequestsNotWritten
          <5>6. CASE k = Len(file')
            <6>1. Recorded(k, n)' = Requests(file', n)
              BY <5>4, <5>6, WholePrefix DEF Recorded
            <6>2. QED
              BY <5>5, <6>1 DEF Recorded, kept
          <5>7. CASE k # Len(file')
            <6>1. k \in 0..(Len(file') - 1)
              BY <4>1, <4>2, <5>4, <5>7
            <6>2. k \in 0..Len(kept) /\ SubSeq(file', 1, k) = SubSeq(kept, 1, k)
              BY <4>2, <5>1, <5>3, <6>1, AppendedPrefix
            <6>3. k = j
              BY <4>1, <4>2, <6>2
            <6>4. SubSeq(file', 1, k) = kept
              BY <4>2, <6>2, <6>3, WholePrefix
            <6>5. QED
              BY <6>4 DEF Recorded, kept
          <5>8. QED
            BY <5>6, <5>7
        <4>5. QED
          BY <4>3, <4>4
      <3>3. QED
        BY <1>5, <3>1, <3>2
    <2>3. ASSUME NEW n \in Nodes, NEW k \in synced'..Len(file')
          PROVE  accepted'[n] <= Recorded(k, n)' + Queued(decisionC', n) + req'[n] + lost'[n]
      <3>1. PICK j \in synced..Len(file) : Recorded(k, n)' = Recorded(j, n)
        BY <2>2
      <3>2. /\ accepted[n] <= Recorded(j, n) + Queued(decisionC, n) + req[n] + lost[n]
            /\ Recorded(j, n) \in Nat
        BY <1>f, <1>p DEF ForgetInv
      <3>3. req'[n] = 0 /\ Queued(decisionC', n) = 0
        BY <2>1, NothingQueued DEF Zero
      <3> DEFINE a == accepted[n]
                 q == Queued(decisionC, n)
                 w == req[n]
                 l == lost[n]
                 r == Recorded(j, n)
      <3>a. a \in Nat /\ q \in Nat /\ w \in Nat /\ l \in Nat
        BY <1>0
      <3>4. accepted'[n] = a /\ lost'[n] = l + q + w
        BY <2>1
      <3>5. r \in Nat /\ a <= r + q + w + l
        BY <3>2
      <3>6. a <= r + 0 + 0 + (l + q + w)
        <4> HIDE DEF a, q, w, l, r
        <4>1. QED
          BY <3>a, <3>5
      <3>7. QED
        BY <3>1, <3>3, <3>4, <3>6
    <2>4. QED
      BY <2>1, <2>3 DEF ForgetInv
  <1>6. CASE ClearDataset
    <2>1. /\ file' = <<>> /\ synced' = 0 /\ UNCHANGED <<stage, decisionC, req, accepted>>
          /\ \A n \in Nodes : lost'[n] = lost[n] + Requests(file, n)
      BY <1>6 DEF ClearDataset, Counted, Requests
    <2>2. ASSUME NEW n \in Nodes, NEW k \in synced'..Len(file')
          PROVE  accepted'[n] <= Recorded(k, n)' + Queued(decisionC', n) + req'[n] + lost'[n]
      <3>1. Recorded(k, n)' \in Nat
        <4>1. file' \in Seq(Written) /\ k \in 0..Len(file')
          BY <1>n DEF Types
        <4>2. QED
          BY <4>1, Prefix, RequestsTyped DEF Recorded
      <3> DEFINE a == accepted[n]
                 q == Queued(decisionC, n)
                 w == req[n]
                 l == lost[n]
                 r == Requests(file, n)
                 r2 == Recorded(k, n)'
      <3>a. a \in Nat /\ q \in Nat /\ w \in Nat /\ l \in Nat
        BY <1>0
      <3>2. /\ accepted'[n] = a /\ Queued(decisionC', n) = q
            /\ req'[n] = w /\ lost'[n] = l + r
        BY <2>1
      <3>3. r2 \in Nat /\ r \in Nat /\ a <= r + q + w + l
        BY <1>0, <1>w, <3>1
      <3>4. a <= r2 + q + w + (l + r)
        <4> HIDE DEF a, q, w, l, r, r2
        <4>1. QED
          BY <3>a, <3>3
      <3>5. QED
        BY <3>2, <3>4
    <2>3. ASSUME stage' = "sync", NEW n \in Nodes
          PROVE  accepted'[n] <= Requests(file', n) + Queued(decisionC', n) + lost'[n]
      <3>1. accepted[n] <= Requests(file, n) + Queued(decisionC, n) + lost[n]
        BY <2>1, <2>3 DEF ForgetInv
      <3> DEFINE a == accepted[n]
                 q == Queued(decisionC, n)
                 w == req[n]
                 l == lost[n]
                 r == Requests(file, n)
                 r2 == Requests(file', n)
      <3>a. a \in Nat /\ q \in Nat /\ w \in Nat /\ l \in Nat
        BY <1>0
      <3>2. /\ accepted'[n] = a /\ Queued(decisionC', n) = q
            /\ lost'[n] = l + r
        BY <2>1
      <3>3. r \in Nat /\ r2 \in Nat /\ a <= r + q + l
        BY <1>0, <1>m, <3>1
      <3>4. a <= r2 + q + (l + r)
        <4> HIDE DEF a, q, l, r, r2
        <4>1. QED
          BY <3>a, <3>3
      <3>5. QED
        BY <3>2, <3>4
    <2>4. QED
      BY <2>2, <2>3 DEF ForgetInv
  <1>7. QED
    BY <1>1, <1>2, <1>3, <1>4, <1>5, <1>6 DEF Next, Moves

\* A decision the channel accepted is in the file, or still in memory, or was
\* lost with the process: no failed write or Sync and no power loss between
\* them makes the worker forget it.
THEOREM NoDecisionIsForgotten == Spec => []NothingForgotten
  <1>1. Init => CountInv /\ ForgetInv
    <2>1. ASSUME Init PROVE CountInv /\ ForgetInv
      <3>1. /\ file = <<>> /\ decisionC = <<>> /\ stage = "select"
            /\ req = Zero /\ accepted = Zero /\ lost = Zero /\ synced = 0
        BY <2>1 DEF Init
      <3>2. TornEmpty(file)
        BY <3>1 DEF TornEmpty
      <3>3. \A n \in Nodes :
              /\ Requests(file, n) = 0 /\ Queued(decisionC, n) = 0 /\ Unsynced(n) = 0
              /\ accepted[n] = 0 /\ req[n] = 0 /\ lost[n] = 0
        BY <3>1, NothingQueued, NothingRequested DEF Unsynced, Zero
      <3>4. SubSeq(file, 1, 0) = file /\ synced..Len(file) = {0}
        BY <3>1, WholePrefix
      <3>5. CountInv
        BY <3>1, <3>2, <3>3 DEF CountInv
      <3>6. \A k \in synced..Len(file) : SubSeq(file, 1, k) = file
        BY <3>4
      <3>7. \A n \in Nodes : \A k \in synced..Len(file) : Recorded(k, n) = 0
        BY <3>3, <3>6 DEF Recorded
      <3>8. \A n \in Nodes : \A k \in synced..Len(file) :
              accepted[n] <= Recorded(k, n) + Queued(decisionC, n) + req[n] + lost[n]
        BY <3>3, <3>7
      <3>9. QED
        BY <3>1, <3>5, <3>8 DEF ForgetInv
    <2>2. QED
      BY <2>1
  <1>2. Types /\ ForgetInv => NothingForgotten
    <2>1. ASSUME Types, ForgetInv PROVE NothingForgotten
      <3>1. Len(file) \in synced..Len(file) /\ file \in Seq(Written)
        BY <2>1 DEF Types
      <3>2. SubSeq(file, 1, Len(file)) = file
        BY <3>1, WholePrefix
      <3>3. QED
        BY <2>1, <3>1, <3>2
           DEF ForgetInv, Recorded, NothingForgotten, Counted, Requests, QueuedFor, Queued
    <2>2. QED
      BY <2>1
  <1>3. QED
    BY <1>1, <1>2, TypesInit, TypesInductive, MoreTypesInit, MoreTypesInductive,
       CountInductive, ForgetInductive, PTL DEF Spec

(***************************************************************************)
(* Part 6: the worker implements the ledger.  What is on disk is a prefix  *)
(* of the file, and a write changes no line of it but a torn one, which    *)
(* counts nothing (CountInv).                                              *)
(***************************************************************************)
\* The lines up to the k-th count what the file cut after them counts.
LEMMA PrefixCounts ==
  ASSUME NEW f \in Seq(Written), NEW k \in 0..Len(f), NEW n \in Nodes
  PROVE  SumFunction([i \in 1..k |-> f[i].req[n]]) = Requests(SubSeq(f, 1, k), n)
  <1> DEFINE g == SubSeq(f, 1, k)
  <1>1. Len(g) = k /\ \A i \in 1..k : g[i] = f[i]
    BY Prefix
  <1>2. DOMAIN g = 1..k
    BY <1>1, Prefix
  <1> HIDE DEF g
  <1>3. [i \in 1..k |-> f[i].req[n]] = [i \in DOMAIN g |-> g[i].req[n]]
    BY <1>1, <1>2
  <1>4. QED
    BY <1>3 DEF Requests, g

\* A shorter prefix counts no more.
LEMMA PrefixesCount ==
  ASSUME NEW f \in Seq(Written), TornEmpty(f),
         NEW j \in 0..Len(f), NEW k \in 0..j, NEW n \in Nodes
  PROVE  Requests(SubSeq(f, 1, k), n) <= Requests(SubSeq(f, 1, j), n)
  <1> DEFINE g == SubSeq(f, 1, j)
  <1>1. /\ g \in Seq(Written) /\ Len(g) = j /\ \A i \in 1..j : g[i] = f[i]
        /\ TornEmpty(g)
    BY Prefix, RequestsPrefix
  <1>2. k \in 0..Len(f)
    OBVIOUS
  <1> HIDE DEF g
  <1>3. k \in 0..Len(g)
    BY <1>1
  <1>4. /\ SubSeq(g, 1, k) \in Seq(Written) /\ Len(SubSeq(g, 1, k)) = k
        /\ \A i \in 1..k : SubSeq(g, 1, k)[i] = g[i]
    BY <1>1, <1>3, Prefix
  <1>5. /\ SubSeq(f, 1, k) \in Seq(Written) /\ Len(SubSeq(f, 1, k)) = k
        /\ \A i \in 1..k : SubSeq(f, 1, k)[i] = f[i]
    BY <1>2, Prefix
  <1>6. \A i \in 1..k : g[i] = f[i]
    BY <1>1, <1>2
  <1>7. SubSeq(g, 1, k) = SubSeq(f, 1, k)
    BY <1>4, <1>5, <1>6
  <1>8. Requests(SubSeq(g, 1, k), n) <= Requests(g, n)
    BY <1>1, <1>3, RequestsPrefix
  <1>9. QED
    BY <1>7, <1>8 DEF g

\* What the accounts of the ledger stand for.
LEMMA LedgerAccounts ==
  ASSUME Types
  PROVE  /\ InMemory = [n \in Nodes |-> Queued(decisionC, n) + req[n]]
         /\ InFile = [n \in Nodes |-> Requests(file, n)]
         /\ OnDisk = [n \in Nodes |-> Recorded(synced, n)]
  <1>1. \A n \in Nodes :
           SumFunction([i \in 1..synced |-> file[i].req[n]]) = Recorded(synced, n)
    BY PrefixCounts DEF Types, Recorded
  <1>2. OnDisk = [n \in Nodes |-> Recorded(synced, n)]
    BY <1>1, Zenon DEF OnDisk
  <1>3. QED
    BY <1>2 DEF InMemory, InFile, QueuedFor, Queued, Counted, Requests

\* And after a step.
LEMMA LedgerAccountsNext ==
  ASSUME Types'
  PROVE  /\ InMemory' = [n \in Nodes |-> Queued(decisionC', n) + req'[n]]
         /\ InFile' = [n \in Nodes |-> Requests(file', n)]
         /\ OnDisk' = [n \in Nodes |-> Recorded(synced, n)']
  <1>1. \A n \in Nodes :
           SumFunction([i \in 1..synced' |-> file'[i].req[n]]) = Recorded(synced, n)'
    BY PrefixCounts DEF Types, Recorded
  <1>2. OnDisk' = [n \in Nodes |-> Recorded(synced, n)']
    BY <1>1, Zenon DEF OnDisk
  <1>3. QED
    BY <1>2 DEF InMemory, InFile, QueuedFor, Queued, Counted, Requests

\* A write leaves what is on disk as it is.
LEMMA DiskAppended ==
  ASSUME Types, TornEmpty(file), NEW line \in Written,
         file' = AppendLine(file, line), synced' = StillSynced(file, file'),
         NEW n \in Nodes
  PROVE  Recorded(synced, n)' = Recorded(synced, n)
  <1>f. file \in Seq(Written) /\ synced \in 0..Len(file) /\ Len(file) \in Nat
    BY DEF Types
  <1>1. CASE file' = file
    BY <1>1 DEF StillSynced, Recorded
  <1>2. CASE file' # file /\ EndsTorn(file) /\ synced = Len(file)
    <2>1. /\ synced' = Len(file) - 1 /\ file[Len(file)].kind = "torn"
          /\ Len(file) > 0
      BY <1>2, <1>f DEF StillSynced, EndsTorn, Last
    <2>2. Len(file') >= Len(file)
      BY <1>f, AppendedTyped
    <2>3. Len(file') \in Nat
      BY <1>f, Appending
    <2>4. synced' \in 0..(Len(file') - 1) /\ synced' \in 0..Len(file)
      BY <1>f, <2>1, <2>2, <2>3
    <2>5. SubSeq(file', 1, synced') = SubSeq(file, 1, synced')
      BY <1>f, <2>4, AppendedPrefix
    <2>6. Requests(SubSeq(file, 1, synced'), n) = Requests(file, n)
      BY <1>f, <2>1, <2>4, RequestsPrefix
    <2>7. Recorded(synced, n) = Requests(file, n)
      BY <1>2, <1>f, WholePrefix DEF Recorded
    <2>8. QED
      BY <2>5, <2>6, <2>7 DEF Recorded
  <1>3. CASE file' # file /\ ~(EndsTorn(file) /\ synced = Len(file))
    <2>1. synced' = synced
      BY <1>3 DEF StillSynced
    <2>2. /\ Len(file') \in Nat /\ Len(file') > 0
          /\ \/ Len(file') = Len(file) + 1
             \/ Len(file') = Len(file) /\ file[Len(file)].kind = "torn"
      <3>1. file' \in Seq(Written) /\ Len(file') > 0
        BY <1>f, Appending
      <3>2. \/ Len(file') = Len(file) + 1
            \/ Len(file') = Len(file) /\ file[Len(file)].kind = "torn"
        BY <1>f, Appending
      <3>3. QED
        BY <3>1, <3>2
    <2>3. synced \in 0..(Len(file') - 1)
      <3>1. CASE Len(file') = Len(file) + 1
        BY <1>f, <3>1
      <3>2. CASE Len(file') = Len(file) /\ file[Len(file)].kind = "torn"
        <4>1. EndsTorn(file)
          BY <2>2, <3>2 DEF EndsTorn, Last
        <4>2. QED
          BY <1>3, <1>f, <3>2, <4>1
      <3>3. QED
        BY <2>2, <3>1, <3>2
    <2>4. SubSeq(file', 1, synced) = SubSeq(file, 1, synced)
      BY <1>f, <2>3, AppendedPrefix
    <2>5. QED
      BY <2>1, <2>4 DEF Recorded
  <1>4. QED
    BY <1>1, <1>2, <1>3

\* A step that moves no decision changes nothing in the ledger.
LEMMA LedgerKept ==
  ASSUME UNCHANGED <<decisionC, req, accepted, stage, syncFailed, file, synced>>
  PROVE  UNCHANGED Book!lvars
  BY DEF Book!lvars, InMemory, Pending, InFile, OnDisk, QueuedFor, Counted

\* An account that has one more of one node, and one that has one fewer.
LEMMA OneLarger ==
  ASSUME NEW f \in [Nodes -> Nat], NEW g \in [Nodes -> Nat], NEW m \in Nodes,
         \A n \in Nodes : g[n] = f[n] + (IF m = n THEN 1 ELSE 0)
  PROVE  g = [f EXCEPT ![m] = @ + 1]
  <1>1. \A n \in Nodes : g[n] = [f EXCEPT ![m] = @ + 1][n]
    OBVIOUS
  <1>2. QED
    BY <1>1

\* The same, for one decision that leaves.
LEMMA OneSmaller ==
  ASSUME NEW f \in [Nodes -> Nat], NEW g \in [Nodes -> Nat], NEW m \in Nodes,
         \A n \in Nodes : f[n] = g[n] + (IF m = n THEN 1 ELSE 0)
  PROVE  g = [f EXCEPT ![m] = @ - 1] /\ f[m] > 0
  <1>1. f[m] > 0
    OBVIOUS
  <1>2. \A n \in Nodes : g[n] = [f EXCEPT ![m] = @ - 1][n]
    OBVIOUS
  <1>3. QED
    BY <1>1, <1>2

\* Between the channel and the window, decisions stay in memory; they come in
\* one at a time, and a worker that records nothing lets go of them one at a time.
LEMMA LedgerMoves ==
  ASSUME Types, MoreTypes, CountInv, Types', Moves
  PROVE  [Book!Next]_(Book!lvars)
  <1> USE DEF bufferVars, aggVars, fileVars, history, bounds
  <1> DEFINE q == [n \in Nodes |-> Queued(decisionC, n)]
             q2 == [n \in Nodes |-> Queued(decisionC', n)]
  <1>0. /\ q \in [Nodes -> Nat] /\ q2 \in [Nodes -> Nat] /\ req \in [Nodes -> Nat]
        /\ accepted \in [Nodes -> Nat] /\ decisionC \in Seq(Nodes)
    BY QueuedTyped DEF Types, MoreTypes
  <1>1. /\ InMemory = [n \in Nodes |-> q[n] + req[n]]
        /\ InMemory' = [n \in Nodes |-> q2[n] + req'[n]]
    BY LedgerAccounts, LedgerAccountsNext
  <1>i. InMemory \in [Nodes -> Nat] /\ InMemory' \in [Nodes -> Nat]
    <2>1. /\ \A n \in Nodes : q[n] + req[n] \in Nat
          /\ \A n \in Nodes : q2[n] + req'[n] \in Nat
      <3>1. req' \in [Nodes -> Nat]
        BY DEF Types
      <3> HIDE DEF q, q2
      <3>2. QED
        BY <1>0, <3>1
    <2>2. QED
      BY <1>1, <2>1
  <1>2. UNCHANGED <<stage, syncFailed, file, synced>>
    BY MovesBalance DEF CountInv
  <1>3. UNCHANGED <<InFile, OnDisk>>
    BY <1>2 DEF InFile, OnDisk, Counted
  <1>4. CASE \E m \in Nodes : SendDecision(m)
    <2>1. PICK m \in Nodes : SendDecision(m)
      BY <1>4
    <2>2. /\ decisionC' = Append(decisionC, m) /\ req' = req
          /\ accepted' = [accepted EXCEPT ![m] = @ + 1]
      BY <2>1 DEF SendDecision
    <2>3. \A n \in Nodes : q2[n] = q[n] + (IF m = n THEN 1 ELSE 0)
      BY <1>0, <2>2, QueuedAppended
    <2> HIDE DEF q, q2
    <2>4. InMemory' = [InMemory EXCEPT ![m] = @ + 1]
      <3>1. ASSUME NEW n \in Nodes
            PROVE  InMemory'[n] = InMemory[n] + (IF m = n THEN 1 ELSE 0)
        <4>1. InMemory[n] = q[n] + req[n] /\ InMemory'[n] = q2[n] + req[n]
          BY <1>1, <2>2
        <4>2. q[n] \in Nat /\ q2[n] \in Nat /\ req[n] \in Nat
          BY <1>0
        <4>3. QED
          BY <2>3, <4>1, <4>2
      <3>2. QED
        BY <1>i, <3>1, OneLarger
    <2>5. Pending' = Pending
      BY <1>2, <2>2 DEF Pending
    <2>6. Book!Send(m)
      BY <1>2, <1>3, <2>2, <2>4, <2>5 DEF Book!Send
    <2>7. QED
      BY <2>6 DEF Book!Next
  <1>5. CASE AccumulateSnapshot
    <2>1. /\ decisionC' = Tail(decisionC) /\ decisionC # <<>> /\ stage = "select"
          /\ req' = [req EXCEPT ![Head(decisionC)] = @ + 1]
          /\ accepted' = accepted
      BY <1>5 DEF AccumulateSnapshot, Selecting
    <2>2. /\ Head(decisionC) \in Nodes
          /\ \A n \in Nodes : q[n] = q2[n] + (IF Head(decisionC) = n THEN 1 ELSE 0)
      BY <1>0, <2>1, QueuedTail
    <2> HIDE DEF q, q2
    <2>3. ASSUME NEW n \in Nodes
          PROVE  req'[n] = req[n] + (IF Head(decisionC) = n THEN 1 ELSE 0)
      <3>1. req[n] \in Nat /\ req \in [Nodes -> Nat]
        BY <1>0
      <3>2. req' = [req EXCEPT ![Head(decisionC)] = @ + 1]
        BY <2>1
      <3>3. QED
        BY <3>1, <3>2
    <2>4. ASSUME NEW n \in Nodes
          PROVE  q2[n] + req'[n] = q[n] + req[n]
      <3>1. q[n] \in Nat /\ q2[n] \in Nat /\ req[n] \in Nat
        BY <1>0
      <3>2. /\ q[n] = q2[n] + (IF Head(decisionC) = n THEN 1 ELSE 0)
            /\ req'[n] = req[n] + (IF Head(decisionC) = n THEN 1 ELSE 0)
        BY <2>2, <2>3
      <3>3. QED
        BY <3>1, <3>2
    <2>5. InMemory' = InMemory
      BY <1>1, <2>4
    <2>6. Pending' = Pending
      BY <1>2, <2>1 DEF Pending
    <2>7. UNCHANGED Book!lvars
      BY <1>2, <1>3, <2>1, <2>5, <2>6 DEF Book!lvars
    <2>8. QED
      BY <2>7
  <1>6. CASE DrainSnapshot
    <2>1. /\ decisionC' = Tail(decisionC) /\ decisionC # <<>>
          /\ UNCHANGED <<req, accepted>>
      BY <1>6 DEF DrainSnapshot
    <2> DEFINE m == Head(decisionC)
    <2>2. /\ m \in Nodes
          /\ \A n \in Nodes : q[n] = q2[n] + (IF m = n THEN 1 ELSE 0)
      BY <1>0, <2>1, QueuedTail
    <2> HIDE DEF q, q2, m
    <2>3. /\ InMemory' = [InMemory EXCEPT ![m] = @ - 1]
          /\ InMemory[m] > 0
      <3>1. ASSUME NEW n \in Nodes
            PROVE  InMemory[n] = InMemory'[n] + (IF m = n THEN 1 ELSE 0)
        <4>1. InMemory[n] = q[n] + req[n] /\ InMemory'[n] = q2[n] + req[n]
          BY <1>1, <2>1
        <4>2. q[n] \in Nat /\ q2[n] \in Nat /\ req[n] \in Nat
          BY <1>0
        <4>3. QED
          BY <2>2, <4>1, <4>2
      <3>2. QED
        BY <1>i, <2>2, <3>1, OneSmaller
    <2>4. Pending' = Pending
      BY <1>2, <2>1 DEF Pending
    <2>5. Book!Drop(m)
      BY <1>2, <1>3, <2>1, <2>3, <2>4 DEF Book!Drop
    <2>6. QED
      BY <2>2, <2>5 DEF Book!Next
  <1>7. CASE \/ \E n \in Nodes : \E ms \in Latencies : SendSample(n, ms)
             \/ StartDraining \/ OpenExisting
             \/ AccumulateResponseSample \/ DrainSample
             \/ Tick \/ UNCHANGED vars
    <2>1. UNCHANGED <<decisionC, accepted, req>>
      BY <1>7 DEF SendSample, StartDraining, OpenExisting, AccumulateResponseSample,
         DrainSample, Tick, vars
    <2>2. QED
      BY <1>2, <2>1, LedgerKept
  <1>8. QED
    BY <1>4, <1>5, <1>6, <1>7 DEF Moves

\* A header counts nothing, whole or torn.
LEMMA LedgerHeader ==
  ASSUME Types, MoreTypes, CountInv, Types', WriteHeader
  PROVE  UNCHANGED Book!lvars
  <1> USE DEF bufferVars, aggVars, fileVars, history, bounds
  <1>1. /\ file' = AppendLine(file, Header) \/ file' \in FailedAppends(file, Header)
        /\ mode = "starting" /\ file = <<>> /\ synced' = synced
        /\ UNCHANGED <<stage, decisionC, req, accepted, syncFailed>>
    BY DEF WriteHeader
  <1>2. /\ file \in Seq(Written) /\ TornEmpty(file) /\ synced = 0
        /\ file' \in Seq(Written)
    BY <1>1 DEF Types, CountInv
  <1>3. Header \in Written /\ Header.req = Zero /\ Header.kind = "whole"
    BY WholeLines DEF Types, Header, Line
  <1>4. ASSUME NEW n \in Nodes
        PROVE  Requests(file', n) = Requests(file, n)
    <2>1. CASE file' = AppendLine(file, Header)
      <3>1. Requests(file', n) = Requests(file, n) + Header.req[n]
        BY <1>2, <1>3, <2>1, RequestsAppended
      <3>2. QED
        BY <1>2, <1>3, <3>1, RequestsTyped DEF Zero
    <2>2. CASE file' \in FailedAppends(file, Header)
      BY <1>2, <1>3, <2>2, RequestsNotWritten
    <2>3. QED
      BY <1>1, <2>1, <2>2
  <1>5. InFile' = InFile
    BY <1>4, LedgerAccounts, LedgerAccountsNext
  <1>6. OnDisk' = OnDisk
    <2>1. ASSUME NEW n \in Nodes
          PROVE  SumFunction([i \in 1..synced' |-> file'[i].req[n]])
                   = SumFunction([i \in 1..synced |-> file[i].req[n]])
      <3>1. [i \in 1..synced' |-> file'[i].req[n]] = [i \in 1..synced |-> file[i].req[n]]
        BY <1>1, <1>2
      <3>2. QED
        BY <3>1
    <2>2. QED
      BY <2>1 DEF OnDisk
  <1>7. UNCHANGED <<InMemory, Pending>>
    BY <1>1 DEF InMemory, Pending, QueuedFor
  <1>8. QED
    BY <1>1, <1>5, <1>6, <1>7 DEF Book!lvars

\* A row that is written, or not, leaves it too.
LEMMA DiskWritten ==
  ASSUME Types, CountInv, Types', WriteRow
  PROVE  OnDisk' = OnDisk
  <1>1. /\ \/ file' = AppendLine(file, Row)
           \/ file' \in FailedAppends(file, Row)
           \/ file' = file
        /\ synced' = StillSynced(file, file')
    BY DEF WriteRow
  <1>2. file \in Seq(Written) /\ TornEmpty(file)
    BY DEF Types, CountInv
  <1>3. Row \in Written
    BY WholeLines DEF Types
  <1>4. ASSUME NEW n \in Nodes PROVE Recorded(synced, n)' = Recorded(synced, n)
    <2>1. CASE file' = AppendLine(file, Row)
      BY <1>1, <1>2, <1>3, <2>1, DiskAppended
    <2>2. ASSUME NEW cut \in Cuts, file' = AppendLine(file, Torn(Row, cut))
          PROVE  Recorded(synced, n)' = Recorded(synced, n)
      <3>1. Torn(Row, cut) \in Written
        BY <1>3, TornLines
      <3>2. QED
        BY <1>1, <1>2, <2>2, <3>1, DiskAppended
    <2>3. CASE file' = file
      BY <1>1, <2>3 DEF StillSynced, Recorded
    <2>4. QED
      BY <1>1, <2>1, <2>2, <2>3 DEF FailedAppends
  <1>5. QED
    BY <1>4, LedgerAccounts, LedgerAccountsNext

\* A row is entered when it is written, and only if it is written whole.
LEMMA LedgerRow ==
  ASSUME Types, MoreTypes, CountInv, Types', WriteRow
  PROVE  [Book!Next]_(Book!lvars)
  <1> USE DEF bufferVars, aggVars, fileVars, history, bounds
  <1>1. /\ \/ file' = AppendLine(file, Row) /\ stage' = "sync"
           \/ file' \in FailedAppends(file, Row) /\ stage' = stage
           \/ file' = file /\ stage' = stage
        /\ stage = "select" /\ synced' = StillSynced(file, file')
        /\ UNCHANGED <<decisionC, req, accepted, syncFailed>>
    BY DEF WriteRow, Selecting
  <1>2. file \in Seq(Written) /\ TornEmpty(file) /\ req \in [Nodes -> Nat]
    BY DEF Types, CountInv
  <1>3. Row \in Written /\ Row.req = req /\ Row.kind = "whole"
    BY WholeLines DEF Types, Row, Line
  <1>4. OnDisk' = OnDisk
    BY DiskWritten
  <1>5. InMemory' = InMemory
    BY <1>1 DEF InMemory, QueuedFor
  <1>6. CASE file' = AppendLine(file, Row) /\ stage' = "sync"
    <2>1. ASSUME NEW n \in Nodes
          PROVE  Requests(file', n) = Requests(file, n) + req[n]
      BY <1>2, <1>3, <1>6, RequestsAppended
    <2>2. Pending = Zero /\ Pending' = req
      BY <1>1, <1>6 DEF Pending
    <2>3. InFile' = [n \in Nodes |-> InFile[n] + Pending'[n]]
      BY <2>1, <2>2, LedgerAccounts, LedgerAccountsNext
    <2>4. \A n \in Nodes : Pending'[n] <= InMemory[n]
      <3>1. \A n \in Nodes : Queued(decisionC, n) \in Nat
        BY QueuedTyped DEF Types
      <3>2. \A n \in Nodes : req[n] <= Queued(decisionC, n) + req[n]
        BY <1>2, <3>1
      <3>3. QED
        BY <2>2, <3>2, LedgerAccounts
    <2>5. Book!Enter
      BY <1>1, <1>2, <1>4, <1>5, <2>2, <2>3, <2>4 DEF Book!Enter, Book!Accounts, Book!Zero, Zero
    <2>6. QED
      BY <2>5 DEF Book!Next
  <1>7. CASE (file' \in FailedAppends(file, Row) \/ file' = file) /\ stage' = stage
    <2>1. \A n \in Nodes : Requests(file', n) = Requests(file, n)
      BY <1>2, <1>3, <1>7, RequestsNotWritten
    <2>2. InFile' = InFile
      BY <2>1, LedgerAccounts, LedgerAccountsNext
    <2>3. Pending' = Pending
      BY <1>1, <1>7 DEF Pending
    <2>4. UNCHANGED Book!lvars
      BY <1>1, <1>4, <1>5, <2>2, <2>3 DEF Book!lvars
    <2>5. QED
      BY <2>4
  <1>8. QED
    BY <1>1, <1>6, <1>7

\* A Sync that succeeds lets go of what is now on disk; one that fails leaves
\* it in doubt.
LEMMA LedgerSync ==
  ASSUME Types, MoreTypes, CountInv, Types', SyncRow
  PROVE  Book!Commit \/ Book!Doubt
  <1> USE DEF bufferVars, aggVars, fileVars, history, bounds
  <1>1. /\ UNCHANGED <<file, decisionC, accepted>> /\ stage = "sync" /\ stage' = "select"
        /\ \/ req' = Zero /\ synced' = Len(file) /\ syncFailed' = syncFailed
           \/ req' = req /\ synced' = synced /\ syncFailed' = TRUE
    BY DEF SyncRow
  <1>2. /\ file \in Seq(Written) /\ req \in [Nodes -> Nat]
        /\ \A n \in Nodes : Queued(decisionC, n) \in Nat
    BY QueuedTyped DEF Types
  <1>3. Pending = req /\ Pending' = Zero
    BY <1>1 DEF Pending
  <1>4. InFile' = InFile
    BY <1>1 DEF InFile, Counted
  <1>5. CASE req' = Zero /\ synced' = Len(file) /\ syncFailed' = syncFailed
    <2>1. \A n \in Nodes : Recorded(synced, n)' = Requests(file, n)
      BY <1>1, <1>2, <1>5, WholePrefix DEF Recorded
    <2>2. OnDisk' = InFile
      BY <2>1, LedgerAccounts, LedgerAccountsNext
    <2>3. \A n \in Nodes :
            Queued(decisionC', n) + req'[n] = (Queued(decisionC, n) + req[n]) - req[n]
      BY <1>1, <1>2, <1>5 DEF Zero
    <2>4. InMemory' = [n \in Nodes |-> InMemory[n] - Pending[n]]
      <3>1. ASSUME NEW n \in Nodes
            PROVE  InMemory[n] - Pending[n] = Queued(decisionC', n) + req'[n]
        <4>1. InMemory[n] = Queued(decisionC, n) + req[n] /\ Pending[n] = req[n]
          BY <1>3, LedgerAccounts
        <4>2. Queued(decisionC', n) + req'[n] = (Queued(decisionC, n) + req[n]) - req[n]
          BY <2>3
        <4>3. QED
          BY <4>1, <4>2, Zenon
      <3>2. QED
        BY <3>1, LedgerAccountsNext, Zenon
    <2>5. Book!Commit
      BY <1>1, <1>3, <1>4, <1>5, <2>2, <2>4 DEF Book!Commit, Book!Zero, Zero
    <2>6. QED
      BY <2>5
  <1>6. CASE req' = req /\ synced' = synced /\ syncFailed' = TRUE
    <2>1. InMemory' = InMemory /\ OnDisk' = OnDisk
      BY <1>1, <1>6 DEF InMemory, OnDisk, QueuedFor
    <2>2. Book!Doubt
      BY <1>1, <1>3, <1>4, <1>6, <2>1 DEF Book!Doubt, Book!Zero, Zero
    <2>3. QED
      BY <2>2
  <1>7. QED
    BY <1>1, <1>5, <1>6

\* A process that dies forgets what it held.
LEMMA LedgerForget ==
  ASSUME Types', LoseMemory
  PROVE  Book!Forget
  <1>1. /\ decisionC' = <<>> /\ req' = Zero /\ stage' = "select"
        /\ UNCHANGED <<accepted, syncFailed>>
    BY DEF LoseMemory
  <1>2. \A n \in Nodes : Queued(decisionC', n) + req'[n] = 0
    BY <1>1, NothingQueued DEF Zero
  <1>3. InMemory' = Zero
    BY <1>2, LedgerAccountsNext DEF Zero
  <1>4. Pending' = Zero
    BY <1>1 DEF Pending
  <1>5. QED
    BY <1>1, <1>3, <1>4 DEF Book!Forget, Book!Zero, Zero

\* Losing power cuts the file somewhere after what is on disk.
LEMMA LedgerPowerLoss ==
  ASSUME Types, MoreTypes, CountInv, Types', PowerLoss
  PROVE  Book!PowerLoss
  <1>f. /\ file \in Seq(Written) /\ TornEmpty(file) /\ synced \in 0..Len(file)
        /\ file' \in Seq(Written)
    BY DEF Types, CountInv
  <1>1. PICK j \in synced..Len(file) :
          /\ synced' = j
          /\ \/ file' = SubSeq(file, 1, j)
             \/ /\ j < Len(file)
                /\ \E cut \in Cuts :
                     file' = AppendLine(SubSeq(file, 1, j), Torn(file[j + 1], cut))
    BY DEF PowerLoss
  <1> DEFINE kept == SubSeq(file, 1, j)
  <1>2. /\ kept \in Seq(Written) /\ Len(kept) = j /\ TornEmpty(kept)
        /\ j \in 0..Len(file) /\ synced \in 0..j
    <2>1. j \in 0..Len(file) /\ synced \in 0..j
      BY <1>f, <1>1
    <2>2. kept \in Seq(Written) /\ Len(kept) = j
      BY <1>f, <2>1, Prefix
    <2>3. \A n \in Nodes : TornEmpty(kept)
      BY <1>f, <2>1, RequestsPrefix
    <2>4. TornEmpty(kept)
      BY <2>2, <2>3, NoNodes
    <2>5. QED
      BY <2>1, <2>2, <2>4
  <1> HIDE DEF kept
  <1>3. ASSUME NEW n \in Nodes
        PROVE  Requests(file', n) = Requests(kept, n) /\ Recorded(synced, n)' = Requests(kept, n)
    <2>1. CASE file' = kept
      <3>1. SubSeq(file', 1, j) = kept
        BY <1>2, <2>1, WholePrefix
      <3>2. QED
        BY <1>1, <2>1, <3>1 DEF Recorded
    <2>2. ASSUME NEW cut \in Cuts, j < Len(file),
                 file' = AppendLine(kept, Torn(file[j + 1], cut))
          PROVE  Requests(file', n) = Requests(kept, n) /\ Recorded(synced, n)' = Requests(kept, n)
      <3>1. file[j + 1] \in Written
        BY <1>f, <1>2, <2>2
      <3>2. Torn(file[j + 1], cut) \in Written
        BY <3>1, TornLines
      <3>3. Requests(file', n) = Requests(kept, n)
        <4>1. file' \in FailedAppends(kept, file[j + 1])
          BY <2>2 DEF FailedAppends
        <4>2. QED
          BY <1>2, <3>1, <4>1, RequestsNotWritten
      <3>4. Len(file') \in Nat /\ j <= Len(file') /\ j \in Nat
        BY <1>f, <1>1, <1>2, Types' DEF Types
      <3>5. CASE j = Len(file')
        BY <1>f, <1>1, <3>3, <3>5, WholePrefix DEF Recorded
      <3>6. CASE j # Len(file')
        <4>1. j \in 0..(Len(file') - 1)
          BY <3>4, <3>6
        <4>2. SubSeq(file', 1, j) = SubSeq(kept, 1, j)
          BY <1>2, <2>2, <3>2, <4>1, AppendedPrefix
        <4>3. SubSeq(kept, 1, j) = kept
          BY <1>2, WholePrefix
        <4>4. QED
          BY <1>1, <3>3, <4>2, <4>3 DEF Recorded
      <3>7. QED
        BY <3>5, <3>6
    <2>3. QED
      BY <1>1, <2>1, <2>2 DEF kept
  <1>4. ASSUME NEW n \in Nodes
        PROVE  /\ Recorded(synced, n) <= Requests(kept, n)
               /\ Requests(kept, n) <= Requests(file, n)
               /\ Requests(kept, n) \in Nat
    BY <1>f, <1>2, PrefixesCount, RequestsPrefix, RequestsTyped DEF Recorded, kept
  <1>5. /\ InFile' = [n \in Nodes |-> Requests(kept, n)]
        /\ OnDisk' = InFile'
    BY <1>3, LedgerAccountsNext
  <1>6. /\ InFile' \in [Nodes -> Nat]
        /\ \A n \in Nodes : OnDisk[n] <= InFile'[n] /\ InFile'[n] <= InFile[n]
    BY <1>4, <1>5, LedgerAccounts
  <1>7. Book!Forget
    BY LedgerForget DEF PowerLoss
  <1>8. QED
    BY <1>5, <1>6, <1>7 DEF Book!PowerLoss, Book!Accounts

\* Emptying the file empties the book.
LEMMA LedgerClear ==
  ASSUME Types, Types', ClearDataset
  PROVE  Book!Clear
  <1>1. /\ file' = <<>> /\ synced' = 0
        /\ UNCHANGED <<stage, decisionC, req, accepted, syncFailed>>
    BY DEF ClearDataset, aggVars, bufferVars
  <1>2. file' \in Seq(Written) /\ SubSeq(file', 1, 0) = file'
    BY <1>1, WholePrefix
  <1>3. \A n \in Nodes : Requests(file', n) = 0 /\ Recorded(synced, n)' = 0
    BY <1>1, <1>2, NothingRequested DEF Recorded
  <1>4. InFile' = Zero /\ OnDisk' = Zero
    BY <1>3, LedgerAccountsNext DEF Zero
  <1>5. UNCHANGED <<InMemory, Pending>>
    BY <1>1 DEF InMemory, Pending, QueuedFor
  <1>6. QED
    BY <1>1, <1>4, <1>5 DEF Book!Clear, Book!Zero, Zero

\* At first all accounts are empty.
LEMMA LedgerInit == Init => Book!Init
  <1> SUFFICES ASSUME Init PROVE Book!Init
    OBVIOUS
  <1>1. /\ file = <<>> /\ decisionC = <<>> /\ stage = "select" /\ synced = 0
        /\ req = Zero /\ accepted = Zero /\ syncFailed = FALSE
    BY DEF Init
  <1>2. Types
    BY TypesInit
  <1>3. SubSeq(file, 1, 0) = file
    BY <1>1, WholePrefix
  <1>4. \A n \in Nodes :
          /\ Requests(file, n) = 0 /\ Recorded(synced, n) = 0
          /\ Queued(decisionC, n) + req[n] = 0
    <2>1. ASSUME NEW n \in Nodes
          PROVE  Queued(decisionC, n) = 0 /\ req[n] = 0 /\ Requests(file, n) = 0
      BY <1>1, NothingQueued, NothingRequested DEF Zero
    <2>2. \A n \in Nodes : Recorded(synced, n) = Requests(file, n)
      BY <1>1, <1>3 DEF Recorded
    <2>3. QED
      BY <2>1, <2>2
  <1>5. InMemory = Zero /\ InFile = Zero /\ OnDisk = Zero
    BY <1>2, <1>4, LedgerAccounts DEF Zero
  <1>6. Pending = Zero
    BY <1>1 DEF Pending
  <1>7. QED
    BY <1>1, <1>5, <1>6 DEF Book!Init, Book!Zero, Zero

\* Every step of the worker is one of the ledger, or nothing to it.
LEMMA LedgerNext ==
  Types /\ MoreTypes /\ CountInv /\ [Next]_vars => [Book!Next]_(Book!lvars)
  <1> SUFFICES ASSUME Types, MoreTypes, CountInv, [Next]_vars
               PROVE  [Book!Next]_(Book!lvars)
    OBVIOUS
  <1>1. Types'
    BY TypesInductive
  <1>2. CASE Moves
    BY <1>1, <1>2, LedgerMoves
  <1>3. CASE WriteHeader
    BY <1>1, <1>3, LedgerHeader
  <1>4. CASE WriteRow
    BY <1>1, <1>4, LedgerRow
  <1>5. CASE SyncRow
    BY <1>1, <1>5, LedgerSync DEF Book!Next
  <1>6. CASE Crash
    <2>1. Book!Forget /\ UNCHANGED <<file, synced>>
      BY <1>1, <1>6, LedgerForget DEF Crash, fileVars
    <2>2. UNCHANGED <<InFile, OnDisk>>
      BY <2>1 DEF InFile, OnDisk, Counted
    <2>3. Book!Die
      BY <2>1, <2>2 DEF Book!Die
    <2>4. QED
      BY <2>3 DEF Book!Next
  <1>7. CASE PowerLoss
    BY <1>1, <1>7, LedgerPowerLoss DEF Book!Next
  <1>8. CASE ClearDataset
    BY <1>1, <1>8, LedgerClear DEF Book!Next
  <1>9. QED
    BY <1>2, <1>3, <1>4, <1>5, <1>6, <1>7, <1>8 DEF Next, Moves

\* The worker implements the ledger: through channels, windows, torn and glued
\* lines, failed writes and Syncs, crashes and power losses, a decision is held
\* until the row that counts it is on disk, and entered once unless a Sync fails.
THEOREM RefinesLedger == Spec => ImplementsLedger
  BY CountInit, LedgerInit, LedgerNext, TypesInit, TypesInductive, MoreTypesInit,
     MoreTypesInductive, CountInductive, PTL DEF Spec, ImplementsLedger, Book!Spec

\* What is on disk stays there: whatever is written, torn or lost with the power,
\* no recorded decision leaves the disk, unless somebody empties the file.
THEOREM RecordedStaysOnDisk == Spec => OnDiskStays
  <1>1. ASSUME Types, MoreTypes, CountInv, [Next]_vars, clears' = clears
        PROVE  \A n \in Nodes : OnDisk[n] <= OnDisk'[n]
    <2>1. /\ Types' /\ clears \in Nat
          /\ \A n \in Nodes : OnDisk[n] \in Nat /\ OnDisk[n] <= InFile[n]
      <3>1. Types' /\ clears \in Nat
        BY <1>1, TypesInductive DEF MoreTypes
      <3>2. ASSUME NEW n \in Nodes
            PROVE  Recorded(synced, n) \in Nat /\ Recorded(synced, n) <= Requests(file, n)
        BY <1>1, Prefix, RequestsTyped, RequestsPrefix DEF Types, CountInv, Recorded
      <3>3. QED
        BY <1>1, <3>1, <3>2, LedgerAccounts
    <2>2. CASE OnDisk' = OnDisk
      BY <2>1, <2>2
    <2>3. CASE Moves \/ Crash
      <3>1. UNCHANGED <<file, synced>>
        BY <1>1, <2>3, MovesBalance DEF CountInv, Crash, fileVars
      <3>2. QED
        BY <2>2, <3>1 DEF OnDisk
    <2>4. CASE WriteHeader
      BY <1>1, <2>1, <2>2, <2>4, LedgerHeader DEF Book!lvars
    <2>5. CASE WriteRow
      BY <1>1, <2>1, <2>2, <2>5, DiskWritten
    <2>6. CASE SyncRow
      BY <1>1, <2>1, <2>2, <2>6, LedgerSync DEF Book!Commit, Book!Doubt
    <2>7. CASE PowerLoss
      BY <1>1, <2>1, <2>7, LedgerPowerLoss DEF Book!PowerLoss
    <2>8. CASE ClearDataset
      BY <1>1, <2>1, <2>8 DEF ClearDataset
    <2>9. QED
      BY <1>1, <2>3, <2>4, <2>5, <2>6, <2>7, <2>8 DEF Next, Moves
  <1>2. Types /\ MoreTypes /\ CountInv /\ [Next]_vars =>
          [clears' = clears => \A n \in Nodes : OnDisk[n] <= OnDisk'[n]]_vars
    BY <1>1
  <1>3. QED
    BY <1>2, CountInit, TypesInit, TypesInductive, MoreTypesInit,
       MoreTypesInductive, CountInductive, PTL DEF Spec, OnDiskStays

=============================================================================
