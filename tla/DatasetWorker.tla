--------------------------- MODULE DatasetWorker ---------------------------
(***************************************************************************)
(* The dataset worker (load-balancer/pkg/dataset/worker.go): one goroutine *)
(* that takes decisions and response samples off two bounded channels,     *)
(* adds them up over a window of one second and appends one CSV row per    *)
(* window to a file that outlives the process.                             *)
(*                                                                         *)
(* Of a row only what the properties tell apart is kept: the two request   *)
(* counts and the latency averages, and how many of its 26 columns reached *)
(* the file.  The scores are summed and reset like the latencies, and the  *)
(* other columns are read from the nodes when the row is built.            *)
(***************************************************************************)
EXTENDS Integers, FiniteSets, Sequences, SequencesExt

CONSTANTS
    Nodes,          \* the two nodes of the configuration
    Latencies,      \* LatencyMS a response sample may carry
    DecisionCap,    \* capacity of the snapshot channel
    ResponseCap,    \* capacity of the response sample channel
    MaxDecisions,   \* bound: decisions accepted
    MaxResponses,   \* bound: samples accepted
    MaxTicks,       \* bound: ticks of the one-second ticker
    Cuts,           \* how many columns a failed write may leave, the last
                    \* of them in part
    MaxFailures,    \* bound: file operations that fail
    MaxClears,      \* bound: times the file is emptied under the worker
    MaxRestarts     \* bound: times the process dies

ASSUME WorkerAssumption ==
    /\ IsFiniteSet(Nodes)
    /\ Latencies \subseteq Nat
    /\ Cuts \subseteq 1..26
    /\ {DecisionCap, ResponseCap, MaxDecisions, MaxResponses, MaxTicks,
        MaxFailures, MaxClears, MaxRestarts} \subseteq Nat

VARIABLES
    mode,          \* "starting", "recording" or "draining"
    stage,         \* in the loop: "select", or "sync" inside flushAggregate
    decisionC,     \* snapshots in the channel: the selected nodes
    responseC,     \* response samples in the channel: <<node, latency>>
    req, rtSum, rtN,  \* perSecondAggregate
    werr,          \* the bufio.Writer holds an error, which it never clears
    tickPending,   \* the ticker's channel, of capacity 1, holds a tick
    file,          \* the lines of the CSV file, as a reader sees them
    synced,        \* how many of them are known to be on disk
    \* history and bounds
    accepted,      \* decisions sent to the channel
    lost,          \* decisions that died with the process, were drained, or
                   \* were in the file when it was emptied
    syncFailed,    \* a Sync has failed
    decisions, samples, ticks, failures, clears, restarts

bufferVars == <<decisionC, responseC>>
aggVars    == <<req, rtSum, rtN>>
fileVars   == <<file, synced>>
history    == <<accepted, lost, syncFailed>>
bounds     == <<decisions, samples, ticks, failures, clears, restarts>>
vars == <<mode, stage, bufferVars, aggVars, werr, tickPending, fileVars,
          history, bounds>>

Zero == [n \in Nodes |-> 0]

(***************************************************************************)
(* A line of the file is whole; or torn, the front part of one, with no    *)
(* newline; or garbled, a torn line and what was appended to it.  Of its   *)
(* columns it is known how many they are, and whose the request counts and *)
(* metrics among them are: those of one header, of one row, or mixed.      *)
(***************************************************************************)
Columns == 26       \* of the header and of every row
Needed  == 23       \* all that the trainer needs are among the first 23

Line(of, q, s, k) ==
    [kind |-> "whole", width |-> Columns, of |-> of, cells |-> q,
     req |-> q, rtSum |-> s, rtN |-> k]
Header == Line("header", Zero, Zero, Zero)
Row    == Line("row", req, rtSum, rtN)

\* A torn line does not count as recorded, whatever can be read in it.
Torn(line, cut) ==
    [kind |-> "torn", width |-> cut, of |-> line.of, cells |-> line.cells,
     req |-> Zero, rtSum |-> Zero, rtN |-> Zero]

EndsTorn(f) == f # <<>> /\ Last(f).kind = "torn"

\* The last column of the torn line and the first of the appended are one.
\* The first, the time stamp, is all the trainer does not mind.
Glued(torn, line) ==
    [kind  |-> IF line.kind = "torn" THEN "torn" ELSE "garbled",
     width |-> torn.width + line.width - 1,
     of    |-> IF torn.width = 1 THEN line.of
               ELSE IF torn.width > Needed THEN torn.of ELSE "mixed",
     cells |-> IF torn.width = 1 THEN line.cells ELSE torn.cells,
     req |-> line.req, rtSum |-> line.rtSum, rtN |-> line.rtN]

\* What O_APPEND makes of a line.
AppendLine(f, line) ==
    IF EndsTorn(f) THEN Append(Front(f), Glued(Last(f), line))
    ELSE Append(f, line)

\* A failed write may leave nothing, or the front of the line.
FailedAppends(f, line) == {f} \cup {AppendLine(f, Torn(line, cut)) : cut \in Cuts}

\* A torn line that is on disk stops being so when something is glued to it.
StillSynced(old, new) ==
    IF EndsTorn(old) /\ new # old /\ synced = Len(old) THEN synced - 1
    ELSE synced

\* What the file says was sent to node n.
Counted(n) == SumFunction([i \in DOMAIN file |-> file[i].req[n]])

QueuedFor(n) == Cardinality({i \in DOMAIN decisionC : decisionC[i] = n})

Init ==
    /\ mode = "starting" /\ stage = "select"
    /\ decisionC = <<>> /\ responseC = <<>>
    /\ req = Zero /\ rtSum = Zero /\ rtN = Zero
    /\ werr = FALSE /\ tickPending = FALSE
    /\ file = <<>> /\ synced = 0
    /\ accepted = Zero /\ lost = Zero /\ syncFailed = FALSE
    /\ decisions = 0 /\ samples = 0 /\ ticks = 0 /\ failures = 0
    /\ clears = 0 /\ restarts = 0

CanFail == failures < MaxFailures
Failed == CanFail /\ failures' = failures + 1

-----------------------------------------------------------------------------
(***************************************************************************)
(* The request path, at the other end of the channels                      *)
(***************************************************************************)
\* enqueueDecisionSnapshot; a full channel drops the snapshot and changes
\* nothing.
SendDecision(n) ==
    /\ Len(decisionC) < DecisionCap
    /\ decisions < MaxDecisions
    /\ decisions' = decisions + 1
    /\ decisionC' = Append(decisionC, n)
    /\ accepted' = [accepted EXCEPT ![n] = @ + 1]
    /\ UNCHANGED <<mode, stage, responseC, aggVars, werr, tickPending,
                   fileVars, lost, syncFailed, samples, ticks, failures,
                   clears, restarts>>

\* enqueueResponseSample, likewise.
SendSample(n, ms) ==
    /\ Len(responseC) < ResponseCap
    /\ samples < MaxResponses
    /\ samples' = samples + 1
    /\ responseC' = Append(responseC, <<n, ms>>)
    /\ UNCHANGED <<mode, stage, decisionC, aggVars, werr, tickPending,
                   fileVars, history, decisions, ticks, failures, clears,
                   restarts>>

-----------------------------------------------------------------------------
(***************************************************************************)
(* StartWorker                                                             *)
(***************************************************************************)
\* The algorithm is not fuzzy, or the traffic log is not per hit; or the
\* directory or the file cannot be opened.
StartDraining ==
    /\ mode = "starting"
    /\ mode' = "draining"
    /\ UNCHANGED <<stage, bufferVars, aggVars, werr, tickPending, fileVars,
                   history, bounds>>

\* Mutant: the size of the file is not looked at.
OpenWithHeader ==
    /\ mode = "starting" /\ file # <<>>
    /\ mode' = "recording"
    /\ file' = AppendLine(file, Header)
    /\ UNCHANGED <<stage, bufferVars, aggVars, werr, tickPending, synced,
                   history, bounds>>

\* Mutant: the file is opened with O_TRUNC instead of O_APPEND.
OpenTruncating ==
    /\ mode = "starting" /\ file # <<>>
    /\ mode' = "recording"
    /\ file' = <<Header>> /\ synced' = 0
    /\ UNCHANGED <<stage, bufferVars, aggVars, werr, tickPending, history,
                   bounds>>

\* initCSV finds a file with something in it.
OpenExisting ==
    /\ mode = "starting" /\ file # <<>>
    /\ mode' = "recording"
    /\ UNCHANGED <<stage, bufferVars, aggVars, werr, tickPending, fileVars,
                   history, bounds>>

\* Mutant: after a failed initCSV nobody reads the channels.
WriteHeaderOrQuit ==
    /\ mode = "starting" /\ file = <<>>
    /\ \/ /\ mode' = "recording"
          /\ file' = AppendLine(file, Header)
          /\ UNCHANGED failures
       \/ /\ Failed
          /\ mode' = "quit"
          /\ UNCHANGED file
    /\ UNCHANGED <<stage, bufferVars, aggVars, werr, tickPending, synced,
                   history, decisions, samples, ticks, clears, restarts>>

\* initCSV finds no file or an empty one, and writes the header.
WriteHeader ==
    /\ mode = "starting" /\ file = <<>>
    /\ \/ /\ mode' = "recording"
          /\ file' = AppendLine(file, Header)
          /\ UNCHANGED failures
       \/ /\ Failed
          /\ mode' = "draining"
          /\ file' \in FailedAppends(file, Header)
    /\ UNCHANGED <<stage, bufferVars, aggVars, werr, tickPending, synced,
                   history, decisions, samples, ticks, clears, restarts>>

Selecting == mode = "recording" /\ stage = "select"

\* Mutant: the request is counted on every node the snapshot names.
AccumulateAll ==
    /\ Selecting /\ decisionC # <<>>
    /\ decisionC' = Tail(decisionC)
    /\ req' = [n \in Nodes |-> req[n] + 1]
    /\ UNCHANGED <<mode, stage, responseC, rtSum, rtN, werr, tickPending,
                   fileVars, history, bounds>>

AccumulateSnapshot ==
    /\ Selecting /\ decisionC # <<>>
    /\ decisionC' = Tail(decisionC)
    /\ req' = [req EXCEPT ![Head(decisionC)] = @ + 1]
    /\ UNCHANGED <<mode, stage, responseC, rtSum, rtN, werr, tickPending,
                   fileVars, history, bounds>>

\* A latency of 0 ms, a request faster than a millisecond, is not counted.
AccumulateResponseSample ==
    /\ Selecting /\ responseC # <<>>
    /\ responseC' = Tail(responseC)
    /\ LET n == Head(responseC)[1]
           ms == Head(responseC)[2]
       IN  IF ms > 0
           THEN /\ rtSum' = [rtSum EXCEPT ![n] = @ + ms]
                /\ rtN' = [rtN EXCEPT ![n] = @ + 1]
           ELSE UNCHANGED <<rtSum, rtN>>
    /\ UNCHANGED <<mode, stage, decisionC, req, werr, tickPending, fileVars,
                   history, bounds>>

\* drainWorkerChannels
DrainSnapshot ==
    /\ mode = "draining" /\ decisionC # <<>>
    /\ decisionC' = Tail(decisionC)
    /\ lost' = [lost EXCEPT ![Head(decisionC)] = @ + 1]
    /\ UNCHANGED <<mode, stage, responseC, aggVars, werr, tickPending,
                   fileVars, accepted, syncFailed, bounds>>

DrainSample ==
    /\ mode = "draining" /\ responseC # <<>>
    /\ responseC' = Tail(responseC)
    /\ UNCHANGED <<mode, stage, decisionC, aggVars, werr, tickPending,
                   fileVars, history, bounds>>

(***************************************************************************)
(* The ticker and flushAggregate                                           *)
(***************************************************************************)
\* A tick that finds the last one still pending is dropped.
Tick ==
    /\ mode = "recording" /\ ~tickPending /\ ticks < MaxTicks
    /\ tickPending' = TRUE
    /\ ticks' = ticks + 1
    /\ UNCHANGED <<mode, stage, bufferVars, aggVars, werr, fileVars, history,
                   decisions, samples, failures, clears, restarts>>

\* Mutant: a failed write is forgotten, and the next row goes after it.
WriteRowAgain ==
    /\ Selecting /\ tickPending
    /\ tickPending' = FALSE
    /\ \/ /\ file' = AppendLine(file, Row)
          /\ stage' = "sync"
          /\ UNCHANGED failures
       \/ /\ Failed
          /\ file' \in FailedAppends(file, Row)
          /\ UNCHANGED stage
    /\ synced' = StillSynced(file, file')
    /\ UNCHANGED <<mode, bufferVars, aggVars, werr, history, decisions,
                   samples, ticks, clears, restarts>>

\* WriteString and Flush.  A failed write may leave the front of the row in
\* the file; the writer then refuses every later row.
WriteRow ==
    /\ Selecting /\ tickPending
    /\ tickPending' = FALSE
    /\ \/ /\ ~werr
          /\ file' = AppendLine(file, Row)
          /\ stage' = "sync"
          /\ UNCHANGED <<werr, failures>>
       \/ /\ ~werr /\ Failed
          /\ file' \in FailedAppends(file, Row)
          /\ werr' = TRUE
          /\ UNCHANGED stage
       \/ /\ werr
          /\ UNCHANGED <<file, stage, werr, failures>>
    /\ synced' = StillSynced(file, file')
    /\ UNCHANGED <<mode, bufferVars, aggVars, history, decisions, samples,
                   ticks, clears, restarts>>

\* Mutant: the window is reset without the Sync.
ResetWithoutSync ==
    /\ mode = "recording" /\ stage = "sync"
    /\ stage' = "select"
    /\ req' = Zero /\ rtSum' = Zero /\ rtN' = Zero
    /\ UNCHANGED <<mode, bufferVars, werr, tickPending, fileVars, history,
                   bounds>>

\* Mutant: the sample counts survive the reset of the window.
SyncKeepingCounts ==
    /\ mode = "recording" /\ stage = "sync"
    /\ stage' = "select"
    /\ synced' = Len(file)
    /\ req' = Zero /\ rtSum' = Zero
    /\ UNCHANGED <<mode, bufferVars, rtN, werr, tickPending, file, history,
                   bounds>>

\* Mutant: the window is not reset.
SyncWithoutReset ==
    /\ mode = "recording" /\ stage = "sync"
    /\ stage' = "select"
    /\ synced' = Len(file)
    /\ UNCHANGED <<mode, bufferVars, aggVars, werr, tickPending, file, history,
                   bounds>>

\* file.Sync; the window is reset only when it succeeds.
SyncRow ==
    /\ mode = "recording" /\ stage = "sync"
    /\ stage' = "select"
    /\ \/ /\ synced' = Len(file)
          /\ req' = Zero /\ rtSum' = Zero /\ rtN' = Zero
          /\ UNCHANGED <<syncFailed, failures>>
       \/ /\ Failed
          /\ syncFailed' = TRUE
          /\ UNCHANGED <<synced, aggVars>>
    /\ UNCHANGED <<mode, bufferVars, werr, tickPending, file, accepted, lost,
                   decisions, samples, ticks, clears, restarts>>

-----------------------------------------------------------------------------
(***************************************************************************)
(* The process dies, or the machine with it, and starts again              *)
(***************************************************************************)
\* What was in memory is gone: both channels, the window and the writer.
LoseMemory ==
    /\ restarts < MaxRestarts
    /\ restarts' = restarts + 1
    /\ mode' = "starting" /\ stage' = "select"
    /\ decisionC' = <<>> /\ responseC' = <<>>
    /\ req' = Zero /\ rtSum' = Zero /\ rtN' = Zero
    /\ werr' = FALSE /\ tickPending' = FALSE
    /\ lost' = [n \in Nodes |-> lost[n] + QueuedFor(n) + req[n]]
    /\ UNCHANGED <<accepted, syncFailed, decisions, samples, ticks, failures,
                   clears>>

Crash ==
    /\ LoseMemory
    /\ UNCHANGED fileVars

\* Of the lines not yet synced only the first k survive, and perhaps the
\* front of the next.
PowerLoss ==
    /\ LoseMemory
    /\ \E k \in synced..Len(file) :
          /\ synced' = k
          /\ LET kept == SubSeq(file, 1, k)
             IN  \/ file' = kept
                 \/ k < Len(file)
                   /\ \E cut \in Cuts :
                         /\ cut <= file[k + 1].width
                         /\ file' = AppendLine(kept, Torn(file[k + 1], cut))

\* capture-dataset of the Makefile empties the file before a load test; the
\* worker has it open, and appends its next row at the start of it.
ClearDataset ==
    /\ clears < MaxClears
    /\ clears' = clears + 1
    /\ file' = <<>> /\ synced' = 0
    /\ lost' = [n \in Nodes |-> lost[n] + Counted(n)]
    /\ UNCHANGED <<mode, stage, bufferVars, aggVars, werr, tickPending,
                   accepted, syncFailed, decisions, samples, ticks, failures,
                   restarts>>

-----------------------------------------------------------------------------
Next ==
    \/ \E n \in Nodes : \/ SendDecision(n)
                        \/ \E ms \in Latencies : SendSample(n, ms)
    \/ StartDraining
    \/ OpenExisting
    \/ WriteHeader
    \/ AccumulateSnapshot
    \/ AccumulateResponseSample
    \/ DrainSnapshot
    \/ DrainSample
    \/ Tick
    \/ WriteRow
    \/ SyncRow
    \/ Crash
    \/ PowerLoss
    \/ ClearDataset

Spec == Init /\ [][Next]_vars

\* The goroutine runs and file operations return; select picks among the ready
\* cases at random, so one that is ready again and again is taken.
Fairness ==
    /\ WF_vars(StartDraining \/ OpenExisting \/ WriteHeader)
    /\ SF_vars(AccumulateSnapshot) /\ SF_vars(AccumulateResponseSample)
    /\ SF_vars(DrainSnapshot) /\ SF_vars(DrainSample)
    /\ WF_vars(Tick) /\ WF_vars(WriteRow) /\ WF_vars(SyncRow)

FairSpec == Spec /\ Fairness

-----------------------------------------------------------------------------
(***************************************************************************)
(* Properties                                                              *)
(***************************************************************************)
Lines == [kind : {"whole", "torn", "garbled"}, width : Nat,
          of : {"header", "row", "mixed"}, cells : [Nodes -> Nat],
          req : [Nodes -> Nat], rtSum : [Nodes -> Nat], rtN : [Nodes -> Nat]]

\* Every variable keeps its type; the synced part is a part of the file, and
\* a channel never holds more than its capacity.
TypeOK ==
    /\ mode \in {"starting", "recording", "draining"}
    /\ stage \in {"select", "sync"}
    /\ decisionC \in Seq(Nodes) /\ Len(decisionC) <= DecisionCap
    /\ responseC \in Seq(Nodes \X Latencies) /\ Len(responseC) <= ResponseCap
    /\ {req, rtSum, rtN, accepted, lost} \subseteq [Nodes -> Nat]
    /\ {werr, tickPending, syncFailed} \subseteq BOOLEAN
    /\ file \in Seq(Lines)
    /\ synced \in 0..Len(file)
    /\ {decisions, samples, ticks, failures, clears, restarts} \subseteq Nat

\* A decision the channel accepted is in the file, or still in memory, or was
\* in memory when the process died (or was drained by a worker that records
\* nothing): neither a failed write or Sync nor a power loss between them
\* makes the worker forget it.
NothingForgotten ==
    \A n \in Nodes : accepted[n] <= Counted(n) + QueuedFor(n) + req[n] + lost[n]

\* Until a Sync fails no decision is counted in two rows, whatever writes fail
\* and whenever the process dies.
CountedOnce ==
    ~syncFailed => \A n \in Nodes :
        Counted(n) + QueuedFor(n) + (IF stage = "sync" THEN 0 ELSE req[n])
            <= accepted[n]

\* A run of the process spoils at most one line of the file: nothing is
\* appended after a failed write.
OneBadLinePerRun ==
    Cardinality({i \in DOMAIN file : file[i].kind # "whole"})
        <= restarts + 1

\* The latency column of a row is an average of latencies that were measured:
\* sum and count always cover the same samples.
LatencyIsAnAverage ==
    \A i \in DOMAIN file, n \in Nodes :
        \/ file[i].rtN[n] = 0 /\ file[i].rtSum[n] = 0
        \/ \E lo, hi \in Latencies \ {0} :
              /\ lo * file[i].rtN[n] <= file[i].rtSum[n]
              /\ file[i].rtSum[n] <= hi * file[i].rtN[n]

\* The request path finds room in the channel again, whatever becomes of the
\* file: a worker that cannot record drains.
ChannelsAreServed ==
    /\ Len(decisionC) = DecisionCap ~> Len(decisionC) < DecisionCap
    /\ Len(responseC) = ResponseCap ~> Len(responseC) < ResponseCap

\* At a tick the window goes to the file, unless a file operation fails.
WindowIsRecorded ==
    \A n \in Nodes :
        tickPending /\ req[n] > 0 ~> req[n] = 0 \/ failures > 0

\* Where the decisions accepted for each node are: in the channel or the window;
\* in a row that is written and not yet synced, as well; in the file; and in the
\* part of it that is known to be on disk.
InMemory == [n \in Nodes |-> QueuedFor(n) + req[n]]
Pending  == IF stage = "sync" THEN req ELSE Zero
InFile   == [n \in Nodes |-> Counted(n)]
OnDisk   == [n \in Nodes |-> SumFunction([i \in 1..synced |-> file[i].req[n]])]

\* What is on disk stays there: no write, failed write, crash, loss of power or
\* restart takes a recorded decision from it, only who empties the file.
OnDiskStays ==
    [][clears' = clears => \A n \in Nodes : OnDisk[n] <= OnDisk'[n]]_vars

\* The worker, with its channels, windows, torn lines and restarts, implements
\* the ledger: a decision is held until the row that counts it is synced, and is
\* entered in the file once, unless a Sync fails.
Book == INSTANCE Ledger WITH
    sent <- accepted, held <- InMemory, entry <- Pending,
    book <- InFile, durable <- OnDisk, doubtful <- syncFailed

ImplementsLedger == Book!Spec

=============================================================================
