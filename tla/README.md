# Adaptive load balancer: verification project

TLA+ models of the load balancer under `src/load-balancer`, of its offline
trainer, and of what both need from the backends under `src/api-service`; TLC
configurations that check them; and TLAPS proofs about them. `PROJECT.json` is
the index: components, runs, mutants, the map from definitions to source lines,
hazards, findings and theorems.

Paths below are relative to `src/load-balancer` unless they begin otherwise.

## 1. The system

    clients --> newHTTPMux --> proxyHTTPHandler --> reverse proxy --> api-node1/2
                                 |   ^                                    |
                   decision and  |   | BackendNode state                  | CPU sampler
                   sample channel|   | (ProxyInflight, RespMS, CPU,       |
                                 v   |  stamps)                           v
                           dataset worker     CPU collector  <-- GET /telemetry/cpu
                                 |                 |
                            CSV on a volume   Prometheus gauges
                                 |
           capture-dataset, loadOfflineSamples
                                 v
                           mopso-train --> optimised parameters --> pushed, and
                                           loaded at the next start of the balancer

| Component | State | Operations | Talks to |
|---|---|---|---|
| Request path `pkg/proxy/lb_proxy.go` | `selectMu`, `nodeTelemetry`, two gauges | `proxyHTTPHandler` (admit, select, forward, complete), `resetTelemetryHTTPHandler` | nodes, strategy, both channels (non-blocking send), gauges |
| Backend node `pkg/types/strategy.go` | CPU, RespMS (under `mu`), atomics ProxyInflight, RequestCount, LastLatency, two stamps | `SnapshotForDecision`, `UpdateCPU`, `UpdateResponseMS`, `ResetRuntimeState` | shared by handlers and collector |
| Round robin `pkg/algorithm/roundrobin` | an atomic counter | `NextIndex` | called under `selectMu` |
| Fuzzy engine and strategy `pkg/algorithm/fuzzy` | 27 parameters under an RWMutex | `CalculateMamdani`, `SelectNode` (roulette), `UpdateParams` (never called after start-up) | called under `selectMu` |
| CPU collector `pkg/metrics/collector.go` | ticker, one goroutine per node and round | `StartCollector`, `updateAllMetrics`, `collectNodeCPUMetric`, `publishCPUState` | backends over HTTP, nodes, gauges |
| Dataset worker `pkg/dataset/worker.go` | window aggregate, buffered writer, CSV file | `StartWorker`, `drainWorkerChannels`, `accumulate...`, `flushAggregate`, `initCSV` | both channels, file system |
| Configuration and start-up `pkg/config`, `cmd/lb` | none after start | `Load`, choice of strategy and engine | environment, three parameter files |
| Trainer `cmd/mopso-train` | samples, swarm, Pareto archives | `loadOfflineSamples`, `OptimizeOffline` (replay, `addToArchive`, `repairParams`), the choice in `main`, `saveJSON` | CSV in, JSON out; a separate program |
| Steps of `src/Makefile` | the files | `capture-dataset` (empties the live file, copies it later), `params-push-optimized` | worker's file, trainer's files |
| Backend `src/api-service/main.go` | latest CPU reading | sampler, `/telemetry/cpu`, work endpoints | polled by the collector |
| Load generator, plots, notebooks | none | offline | nothing at run time |

What is hard here, and what would make each part correct:

- **Request path.** Handlers of many requests and of telemetry resets run
  concurrently. `selectMu` covers the decision up to the count of the request,
  and nothing of its completion, so completions interleave with decisions,
  with resets and with one another. Correct means: a counter of requests in
  flight that can be trusted, decisions that see it, a lock that is always
  released, no waiting on a backend or on the dataset worker.
- **Node state.** Values and the times they are stamped with are stored in two
  steps and read in two steps, with a reset between. Correct means: a value
  that decisions use can always grow old.
- **Collector.** HTTP calls that fail in several ways, a backend that answers
  with an old reading, a start-up that must not give up, a reset that does not
  wait for it.
- **Dataset worker and its reader.** File operations that fail half way, a
  `bufio.Writer` that keeps its first error, crashes and power loss between a
  write, its Sync and the reset of the window, a file emptied while it is
  written, a reader that refuses the whole file for one line. Correct means:
  every decision is counted once, and the trainer reads what was sent.
- **Strategies and replay.** Numeric edges: degenerate membership functions,
  zero scores, the ends of the inputs; and an inference that exists twice, in
  the balancer and in the trainer, and must come to the same.
- **Trainer.** An archive at its capacity, dominance and score as two orders
  over the same objectives, the repair of parameters at the ends of their
  ranges, a result that is written in place, pushed and loaded later.

`PROJECT.json` lists each hazard at its source line with the properties that
cover it, or the reason why none does.

## 2. Modules

| Module | Models | Grain |
|---|---|---|
| `LBProxy` | the request path, the latency half of the node state, round robin | one action per access to shared state |
| `Dispatcher` | abstract: what the request path promises | no locks, no loops |
| `Collector` | sampler, collector, the CPU half of the node state, decision decay, reset of it | one action per access to shared state |
| `Readings` | abstract: what the collector promises of the CPU a decision uses | no rounds, answers or locks |
| `DatasetWorker` | both channels, the worker, the CSV file across restarts | one action per select case and file operation |
| `Ledger` | abstract: what the dataset worker promises | no channels, windows, lines or columns |
| `DatasetReader` (extends `DatasetWorker`) | `capture-dataset`'s copy and `loadOfflineSamples` | operators on any reachable file |
| `Fuzzy` | metrics, membership, rules, centroid and roulette of the fuzzy strategy | one action per node scored, one for the spin |
| `Replay` (extends `Fuzzy`) | the trainer's own inference and the replay of one sample | one action per node scored twice, one for the replay |
| `Trainer` | runs of the offline trainer, their archives, the choice of what is saved | one action per evaluation, move, end of run and outcome |
| `Rollout` (extends `Trainer`) | the file the trainer writes, the push, the start of a balancer | one action per step of a process |
| `Repair` | the optimiser's repair of parameters and the trainer's last resort | one action per repair of a group |
| `Lists` | the loop that filters a list, of both programs | one operator, shared by `DatasetReader` and `Trainer` |
| `LBProxyProofs`, `CollectorProofs`, `WorkerProofs`, `ReaderProofs`, `TrainerProofs`, `RepairProofs`, `ReplayProofs` | TLAPS proofs about the module of that name | |
| `ListProofs` | lemmas about numbers, sums and lists that those proofs share | |
| `MC...` | constants and symmetry for TLC | |

The shared vocabulary is the file and the channels: `LBProxy` counts what it
sends, `DatasetWorker` says what becomes of it, `DatasetReader` what the trainer
gets of it. `LBProxy` sees the fuzzy strategy as "any node may be selected";
`Fuzzy` says which.

### LBProxy

A request is a goroutine in `proxyHTTPHandler`; its `pc` walks through

    new -> waiting -> [snapshot -> telemetry <-> stamp -> publish -> select ->
    admit -> gaugeUp] -> serving -> decrement (-> clamp) -> gaugeDown ->
    observe -> respMS -> stampRT -> sample -> gaugeRT -> done

with `selectMu` held in brackets, and `admit -> rejected` when the node has no
URL. The loops over the nodes are modelled node by node (`cursor`), because
completions change the nodes while a decision reads them. A reset is a
goroutine in `resetTelemetryHTTPHandler` with a `rpc` of its own. What
`selectMu` protects from everybody (e.g. the round-robin counter) is folded
into the neighbouring action; what it does not (atomics, gauges, stamps) is an
action of its own.

Abstractions: a latency is a natural number; the time of an observation is its
age class (`never`, `fresh`, `decaying`, `expired`), the only thing
`decayToBaseline` asks of it, and inside the decay window any value up to the
reading may result; the fuzzy roulette may land on any node (every score can
be drawn, and with all scores zero it is uniform); of a snapshot in a channel
only its presence counts here (its content is in `DatasetWorker`). Latency and
stamp are read in two steps; `DecayRT` reads the stamp when it decays, and so
lets a value be aged by a later or an earlier stamp.

`ReverseProxy.ServeHTTP` ends by an answer, by `ErrorHandler` or by a panic;
the deferred completion runs in all three, so they are one action, `Return`.

### Dispatcher

The promise, in terms a reader of the balancer would use: `place` says where a
request is (queued, on a node, gone), `load` is what the balancer accounts for
on each node, `view` is what it looks at when it decides. A request is placed
only while the view is nowhere below the load, is counted on its node in the
same step, and is taken off once. After a telemetry reset (`dirty`) the
accounts may run short, never over. `LBProxy!ImplementsDispatcher` maps `load`
to `ProxyInflight` floored at 0, `view` to the queue values the holder of
`selectMu` has read, `place` to the program counters.

### Collector

Readings are known by their age in ticks. A tick passes only when nobody has
anything to do but wait (`CanWait`), so code takes no time but interleaves
freely. A backend is `ok`, `stuck` (answers, but its sampler does not run) or
`down`, and changes between them. A round asks every node, each in a goroutine
of its own: `Serve`/`Fail`, `Receive` (freshness check), `UpdateCPU`, then
`publishCPUState` in two steps. A decision is seen from one of its nodes (it
treats nodes one by one and takes no other lock), and so is a reset;
`selectMu` keeps the two apart, and the collector does not take it.

Two clocks meet in `Receive`. A reading carries the time of its backend's clock,
and the collector subtracts that from its own (`collector.go:140`), with a
negative age taken as 0. In the model an age is the true one; `SampleAges` is
what the collector may compute for it, when the backend's clock is ahead by
`Lead` at most or behind by `Lag` at most. The error is chosen for each reading,
since clocks are set and drift between two. The program assumes nothing about
the clocks and checks nothing, so neither bound comes from the code: they are
parameters, and what is promised of a reading's age is promised up to `Lead`
(`FullWeightIsRecent`, `StampVouchesForReading`, `Readings!Learn`), what is
promised of start-up and recovery as long as `Lag` leaves room
(`AnswersAreFresh`). With `Lead = Lag = 0` they are the properties of
synchronised clocks. Stamp and decay are times of the balancer's clock alone,
which is taken to run evenly.

The constants keep the order the code has: freshness TTL (at least 2.5 s) above
sampler period (0.2 s) plus client timeout (1.2 s), `StaleAfter` and
`DecayWindow` positive. The order matters: with a TTL not above the time a
reading may spend in flight, and what its clock is behind, start-up could refuse
every reading for ever. This is the hypothesis `AnswersAreFresh` of
`StartupCompletes` and `ReadingsComeBack`; safety does not need it. For the
code's default interval (TTL 2.5 s) it says that no backend's clock is behind by
more than 1.1 s.

### Readings

The promise of the collector, the decisions and the resets together. A reading
is learned while it is within the TTL by the clock of its backend (`Learn`; its
true age may be greater by `Lead`), decisions begin when every node
has one (`Open`), and a decision consults a node in a single moment (`Consult`):
whether its reading counts in full, in part or not at all. The code reads CPU and
stamp in two steps, with `UpdateCPU` possible between them; the moment is then
the second step, or the first when there was no reading. *Which* reading is
counted stays open: an old one may be vouched for by the stamp of the one that
replaced it (the exception in `FullWeightIsRecent`). `selectMu` is what keeps a
reset out of a decision; without it a reading that had just been cleared could
count in full. After a reset (`forgotten`) a reading may lack its time, which is
finding 3, and then counts in full until the next is learned; and the collector's
own two reads in `publishCPUState`, which no lock covers, may set a gauge to what
was left at no moment.
`Collector!ImplementsReadings` maps `reading` to `cpu`, `since` to `stamp`,
`chosen` to the weight of the decision, and `consulted` to its node once that is
settled (`Settled`).

### DatasetWorker

`SendDecision` and `SendSample` are the request path's non-blocking sends; a
send on a full channel changes nothing and is not an action. The worker's
select is one action per ready case; `flushAggregate` is `WriteRow` (write and
flush) followed by `SyncRow`, each of which may fail. `Crash` loses memory;
`PowerLoss` loses, besides, any suffix of the lines not synced, and may keep
the front of the first of them. `ClearDataset` is `capture-dataset` of
`src/Makefile`, which truncates the file that the running worker has open for
appending. Histories (`accepted`, `lost`, `syncFailed`) exist for the properties
only.

A row keeps the request counts and the latency sums and counts; the score
columns are summed and reset in the same statements, and the other columns are
read from the nodes when the row is built. A line of the file is whole, torn
(the front of one, without a newline) or garbled (a torn line with what was
appended to it); of its columns it is known how many there are and whose they
are. `Cuts` says after how many columns a failed write may stop. A torn line
that was synced may be glued to one that is not; `StillSynced` then counts the
glued line as not synced, so that a power loss may take more than it would on a
real disk: an approximation that makes the environment worse. Truncation is taken
to be on disk at once.

A decision and the latency of its request travel on two channels and are
counted when they are received, so a row does not pair them; no property says it
does.

### Ledger

The promise of the worker for the decisions it is sent, as an account per node:
`sent`; `held` in memory; `entry`, those of the entry that is pending; `book`,
what a reader of the book counts; `durable`, what of that is on disk. A decision
is held until the entry that contains it is on disk (`Commit`), and is entered
once, unless an entry could not be brought to disk (`Doubt`): its decisions are
then in the book and still held. Who dies forgets what it held; a power loss may
take of the book what is not durable, and nothing else.
`DatasetWorker!ImplementsLedger` maps `held` to the channel and the window
(`InMemory`), `entry` to a row between its write and its Sync (`Pending`), `book`
to the requests in the file's lines (`InFile`), `durable` to those in its synced
lines (`OnDisk`). A failed write, whatever it leaves in the file, is a stutter:
a torn line counts nothing.

### DatasetReader

`LoadOfflineSamples` is what the trainer makes of a file: it refuses a file that
is empty, whose first line does not name all the columns it needs, or of which
any other line has another number of columns or text where a number belongs.
`Captured` is the copy of `capture-dataset`: headers dropped wherever they stand,
one put in front. Both are evaluated on every file the worker can leave behind.
Whether the optional `os_idle_cpu` column is present is not followed; its
default is in `Replay`.

### Fuzzy

`Score` treats one node as the loop of `SelectNode` does: the CPU is normalised
by the node's capacity, every input gets its three memberships, the 27 rules
combine them by minimum and maximum, and the centroid over `0..100` is the
score. `Spin` draws the roll. The strategy runs under `selectMu`, so nothing
interleaves with it, and `LBProxy` sees of it only that some node is selected.

Floats are whole numbers: a degree counts thousandths and a score is a whole
number, both rounded down. With whole parameters no positive degree or score is
rounded to 0, so the zero cases, which decide between the two branches of the
roulette, are exact. A roll is known by where it lies among whole numbers (on
`k`, or between `k` and `k + 1`), which is all that a comparison with sums of
whole scores can see. The rules are the table of `config.go`, a row per CPU and
queue level; the program has no other.

### Replay

The trainer does not use the balancer's engine: `mopso.go` has its own
membership functions, its own list of 27 rules and its own normalisation.
`ScoreTwice` scores what the balancer scores with both. `Replay` is one pass of
the loop in `evaluateDatasetDIAndBCU`: requests predicted from the shares of the
scores, the cost of a request estimated from the CPU that was seen, the CPU
that would follow. It is computed as one fraction that is rounded down once;
the code's intermediate floats are not rounded here.

The cost of a request is the CPU that was seen over the requests that were
served, or over 1 if there were none (`Observed`). So a node that served none is
treated as one that served one: predict less than a request for it and its CPU
falls towards the idle one, though the node is sent more than it was.
`ReplayFollowsTheShift` says so for that case, and what one expects only for a
node that served some: more requests never cost less, fewer never more, the
observed split gives the observed CPU. For all counts it says that a replay never
raises every node above what was seen.

Sums over samples, and
the two objectives made of them, are in `Trainer`.

### Trainer

A parameter vector is what the program finds out about it: its objective over
the data set, and whether `isSaneParams` accepts it. A particle's next vector
is left open (any objective, sane or not), since it depends on random numbers
and on the data set; what is kept is all that is done with the objectives: the
personal best, the archive of a run, sorting, and the choice in `main` among
the runs, a repaired vector and the base. A repaired vector has any objective,
and may still fail `isSaneParams`. `sort.Slice` is not stable, so `Sorted` gives
every order of equals. All runs read the same data set: `OptimizeOffline`
refuses it in every run (`FailRun`) or in none. Objectives are those of two
average CPUs, so that they depend on one another as in the code: `1 - BCU` is
half of `DI`, but for averages below one percent, where it is 0.

### Rollout

Follows one training to the balancer that serves with its result. The
trainer's process may end or die at any moment (`Exit`), also between
`os.Create` and the end of the encoding, which leaves a torn artifact; `Push`
replaces the balancer's file at once by whatever artifact there is; `Start`
starts a balancer with any environment, and is `config.Load` and the choice in
`cmd/lb/main.go`. A parameter file is missing, torn, old or new. The make
targets run one after the other, so nothing is pushed while the trainer runs,
and a second training is not followed.

### Repair

The 27 parameters are three groups, one per input, that are repaired alike and
apart; a group is three triples. `RepairParams` is what every moved particle
goes through, `ForceSaneParams` the last resort of `main`. Parameters are whole
numbers: every order, gap and clamp is exact; the midpoint that closes a gap is
rounded down, and the rounding of floats (a gap of `minGap` that comes out a
little less) is not seen.

## 3. Runs

| Run | Instance | What it shows |
|---|---|---|
| `core` | 3 requests, 2 nodes, round robin, channels of 1, no reset | exact counters, decisions that see the load, latencies that can age, even rotation |
| `reset` | 2 requests, 1 reset, roulette over 2 nodes of which one has no URL | counters under a reset: never over, below zero only under a pending clamp; refinement of `Dispatcher`; arrivals, completions and resets finish |
| `gauge_order` | 2 requests, 1 node | finding 1 |
| `stale_latency` | 1 request, 1 reset, 1 node | finding 2 |
| `cpu_live` | 1 node, 1 reset, 2 changes of health, a clock ahead or behind by 1 | refinement of `Readings` (fresh when learned, complete before the first decision, counted as of one moment), full weight is recent; start-up completes, readings come back after a reset, the CPU of a dead or stuck backend fades |
| `cpu_unstamped` | 1 node, 1 reset, 1 change of health | finding 3 |
| `dataset_ledger` | 2 nodes, 2 decisions, 3 ticks, 2 failures, 1 truncation, 2 restarts, cuts in 3 columns | no decision forgotten or counted twice, at most one spoiled line per run of the process, the trainer reads what was sent, what is on disk stays there, refinement of `Ledger` |
| `dataset_live` | 1 node, 2 decisions, 2 samples, channels of 1, 1 failure, 1 restart | latency columns are averages, channels are emptied, windows are recorded |
| `fuzzy_scores` | 2 nodes, 3 parameter vectors, 4 CPUs, 3 queues, 4 response times; counts 0, 1, 4 and idle CPU none or 40 | no node whose metrics meet a set of each input starves, the rules order the nodes, the trainer predicts the roulette, a replay moves the CPU with the requests and invents no load |
| `trainer_choice` | 2 runs, 2 particles, 2 iterations, archive of 2, 3 averages; any crash, push and start after it | the archive is a front and keeps the least peak, personal bests, the choice among runs and against the base, what serves in the end |
| `repair` | ranges of 12, gap 2, 5 values per coordinate | repaired groups are in order and apart, no dead zone but where sets touch, the last resort changes no verdict |
| `repair_last` | as `repair` | finding 4 |

Bounds and why they are enough:

- Two requests are the least for a race of completions or of a completion with
  a decision; three let two completions race under a third's decision. Two
  nodes are what `config.go` builds, and the least for a choice. The theorems
  of section 5 hold for any number of each; what these bounds carry alone is
  liveness.
- Channels of capacity 1 are full after one send, so the drop is reached.
- `MaxAge` is larger than every age the code compares with (assumed in
  `TimesAssumption`), so ages beyond it are indistinguishable.
- `cpu_live` has one node: goroutines of different nodes share only the end of
  the round, and `CollectorProofs` proves the safety properties for any number.
  That a node which hangs holds up the others until the client's timeout is not
  shown. `Lead` and `Lag` of one unit let an old reading pass and a fresh one be
  late; without `Lead` in it, `FullWeightIsRecent` fails in this run, and with a
  `Lag` of three and without `AnswersAreFresh`, `StartupCompletes` does.
  A change of health to `down` and back needs two; it starts from every health.
- One reset suffices for each race of section 6.
- `dataset_ledger`: a torn line needs a failure, and what is glued to it the
  next run of the process; a second torn line needs a second failure, and in
  one run (what `OneBadLinePerRun` excludes) a row between the two, so three
  ticks. The cuts lie before the last column the trainer needs, after it, and
  within the last one; 3 and 24 columns glued together have as many columns as a
  whole line, the case a column count cannot detect. It sends no samples; those
  are in `dataset_live`, where two samples of different latencies are the least in
  which sums and counts of two windows could mix.
- `Fuzzy` uses the two shipped parameter vectors (the optimised one rounded to
  whole numbers) and one as `repairParams` leaves it, with a gap between two sets
  closed to a point and a triangle that is half a triangle. The metrics lie on
  the peaks, between them, on that point (where no rule fires, and with both
  nodes there, the total is 0), and beyond the last parameter. A node with no
  request in the window takes the floor of one request in the estimate; an idle
  CPU above the CPU that was seen makes the cost 0.
- `Trainer` overflows its archive at the third solution; three evaluations need
  two particles and two iterations, and the best of several runs needs two. The
  averages give objectives that dominate one another, are equal, and (below one
  percent) do neither.
- `Repair`: coordinates at either end, within a gap of it, and between, which is
  every case of the clamps; the theorems hold for every range and gap.

Deadlock is not checked where the instance is meant to stop: `LBProxy` ends
with every request done, `DatasetWorker` when its bounds are used up, `Fuzzy`
after the spin or the replay, `Repair` after both repairs. `Collector` and
`Rollout` never stop, and their runs check it.

Every property of a passing run has a mutant: a plausible bug in the
definition that models the code, under which the same run finds the property
violated.

## 4. Fairness

- `LBProxy!FairSpec` (run `reset`): weak fairness of each handler's and each
  reset's own steps. The Go scheduler runs runnable goroutines. The only wait is
  on `selectMu`; the instance has finitely many handlers, so a handler that
  waits is, in the end, alone with a free lock (`sync.Mutex` hands over to a
  waiter after 1 ms in any case). Nothing is assumed of clients, of backends
  (the transport has no response timeout) or of the dataset worker: `Arrive`,
  `Return`, `Age` and `WorkerReceives` may never happen.
- `Collector!FairSpec` (`cpu_live`): weak fairness of samplers, goroutines,
  decisions and resets once begun; strong fairness of `Tick`, since time passes
  however many decisions come, while in the model each of them disables the tick
  for a moment. No decision, reset or change of health need ever happen.
- `DatasetWorker!FairSpec` (`dataset_live`): weak fairness of start, ticker and
  file operations (they return), strong fairness of the receiving cases, because
  Go's `select` picks at random among the ready ones and so takes each that stays
  ready again and again. No crash, failure or send need happen.

The other specifications are checked for safety only: what the trainer and a
deployment must do in the end is up to whoever starts them.

## 5. Proofs

### The request path

`LBProxyProofs` proves, for every number of nodes, every finite set of
requests, every set of resets and all channel capacities:

| Theorem | Property |
|---|---|
| `TypeCorrect` | `TypeOK` |
| `SelectionSerialised` | `OneSelectionAtATime` (proved only; no run repeats it) |
| `InflightAccounting` | `InflightExact` |
| `InflightNotOverstated` | `InflightNeverOverstates` |
| `NegativeInClampsOnly` | `NegativeOnlyWhileClamping` |
| `DecisionsSeeTheLoad` | `DecisionNeverUnderestimates` |
| `LatenciesDecay` | `LatencyCanDecay` |
| `RotationDealsEvenly` | `RotationIsFair` |
| `RefinesDispatcher` | `ImplementsDispatcher` |

They rest on `NodesAssumption`, `HandlersAssumption` and
`ParametersAssumption` of `LBProxy`: a positive number of nodes, a finite set
of requests disjoint from the resets, natural capacities and latencies.

The argument. `TypeOK` is inductive. With it, so is `LockInv`: who is between
Lock and Unlock holds `selectMu`, and whoever is past the selection has a node.
The counters need `CountInv`, which relates `ProxyInflight` of each
node to the number of its active and of its clamping requests from both
sides, and says that a clamp only happens after a reset
(`ClampsOnlyAfterReset`): without that part, a `Store(0)` could erase a count
before any reset and `InflightExact` would not be preserved. Each handler step
either moves one request in or out of a set, whose cardinality changes by one,
or leaves the sets alone; lemmas about `Cardinality` carry that. Given
`LockInv`, only the holder of `selectMu` can add load, so a queue value once
read stays an upper bound until its reader has counted itself
(`DecisionsSeeTheLoad`). `RotationIsFair` says how far the counts are apart but
not whose turn it is; `RotationInv` adds that they are those of the counter's
value, but for a turn that was taken and not counted yet, of which `LockInv`
allows one. The only arithmetic it needs is that after the last remainder comes
0 (`NextTurn`). The refinement maps each step to a step of `Dispatcher` or a
stutter and uses all of the above: `Admit` is `Dispatch` because the view is an
upper bound, `Decrement` is `Finish`, a reset's store is `Forget`.

### The collector

`CollectorProofs` proves, for every set of nodes, every number of resets and of
changes of health, and all times that satisfy `TimesAssumption` (positive, and
`MaxAge` above what the code compares with; any `Lead` and `Lag`; how the TTL
relates to the sampler, the timeout and `Lag` matters for start-up, not for
safety):

| Theorem | Property |
|---|---|
| `TypeCorrect` | `TypeOK` |
| `StampsVouch` | `StampVouchesForReading` (proved only) |
| `ObservedBeforeServing` | `ServingAfterEveryNodeObserved` (proved only) |
| `FullWeightsAreRecent` | `FullWeightIsRecent` |
| `RefinesReadings` | `ImplementsReadings` |

No run repeats two of these: they follow from the refinement of `Readings`, where
readings and stamps age alike from `Learn` on and only a reset forgets one.
`StampVouchesForReading` is not inductive: it needs `StoredIsFresh`, that a reply
which passed the freshness check is within TTL and `Lead` when it is stored.
`LooksFresh` is the step from the age the collector computes, clipped at 0 or not,
to the true one.
Serving needs `ReplyIsStored`, that a goroutine which ends its round with a reply
in hand has stored it and its stamp, since `EndRound` counts goroutines and does
not look at the nodes; it holds until the first reset. `FullWeightIsRecent`
follows from the two and from `ReadIsCurrent` (decisions are taken only after
start-up): full weight means a recent stamp, and the stamp vouches for the
reading.

The refinement needs `PromiseInv` besides: decisions and resets are never under
way together (`OneHolder`), so that a decision which found a reading weighs one
that is there, if another (`ReadingStays`), and what the gauge's goroutine holds
is current until the first reset (`SeenIsCurrent`). `DecisionDecays` is then
`Consult`, because a weight asks of a reading only whether there is one
(`WeightOfAny`); where there was none, `DecisionReadsCPU` is. `UpdateCPU` is
`Learn` by `StoredIsFresh`, the end of a complete round is `Open` by
`ReplyIsStored`.

### The dataset worker and its reader

`WorkerProofs` and `ReaderProofs` prove, for every finite set of nodes, all
capacities and bounds, and any way a failed write may cut a line
(`WorkerAssumption`):

| Theorem | Property |
|---|---|
| `WorkerTypes` | `TypeOK` |
| `LatenciesAreAverages` | `LatencyIsAnAverage` |
| `BadLinesAreFew` | `OneBadLinePerRun` |
| `DecisionsCountOnce` | `CountedOnce` |
| `NoDecisionIsForgotten` | `NothingForgotten` |
| `ReadsWhatWasSent` | `TrainerReadsWhatWasSent` |
| `RefinesLedger` | `ImplementsLedger` |
| `RecordedStaysOnDisk` | `OnDiskStays` |

The lemma all rest on is `Appending`: an append changes the last line or adds
one, and only a torn line is ever changed. `MeanInv` extends the claim about the
file to the window that becomes its next row, which is what makes it inductive.
`BadInv` says when a run of the process may still spoil a line: not yet, while it
records and its writer holds no error; and that the last line is among the
bad ones when the allowance is used up, since a power loss that tears a line has
taken the last one first.

`CountInv` and `ForgetInv` bound the same account from both sides: what the file,
the channel and the window hold of a node, against what the channel accepted.

- From above (`CountedOnce`): the row that was written and not yet synced is in
  the file and in the window, so while a row waits for its Sync the window does
  not count (`Unsynced`). `CountInv` adds that a torn line counts nothing (a power
  loss that keeps the front of a line keeps no request), and that only a worker
  that records waits for a Sync. A failed Sync ends the claim: the row stays in
  the file and the window is kept, and may be written again.
- From below (`NothingForgotten`): the property speaks of the synced part of the
  file, of which a power loss leaves any prefix that is longer. `ForgetInv`
  therefore makes the promise for every prefix from `synced` up, with the window
  counted; and for the whole file without the window while a row waits for its
  Sync, which is what the reset of the window needs.

The ledger is the two at once, step by step. What it needs beyond `CountInv` is
that the book is what the file counts and its durable part what the synced
lines count (`PrefixCounts`, `PrefixesCount`), and that neither changes but
where the ledger says: an append changes no line but a torn one, which counts
nothing (`RequestsAppended`). `WriteRow` is `Enter`, or a stutter when it fails;
a Sync is `Commit`, and with the window reset in the same step the decisions are
never both held and durable; a failed one is `Doubt`; a power loss keeps a prefix
that contains the synced lines. `RecordedStaysOnDisk` follows from the same
facts, since only `ClearDataset` shortens the synced prefix.

For the reader, `CellsInv` is the upper bound for what the trainer reads. It
counts the cells of a line, which the trainer reads whatever the line's kind, and
not the requests recorded in it. Of a torn line and what is glued to it the
trainer reads the one, the other or neither, so an append adds no more than the
cells of what is appended (`CellsAppended`); a failed write may leave a torn line
with all of them, so the window does not count once its row has been written or
its write has failed (`Unwritten`). `WholeInv` says that lines are well formed
and that, until the file is emptied, a whole first line is the header. From the
two `ReadsWhatWasSent` follows for the live file and for the captured copy:
dropping lines adds to no tally, and the loader keeps every line of a file it
does not refuse.

### The fuzzy strategy and the replay

`ReplayProofs` proves, for every CPU capacity, every set of parameter vectors of 27
whole numbers, any output sets and all metrics (`FuzzyAssumption`), and for
the replay with two nodes, as the program has (`ReplayAssumption`):

| Theorem | Property |
|---|---|
| `ScoresStayOnDomain` | `Fuzzy!TypeOK` |
| `LessLoadNeverScoresLess` | `LessLoadScoresNoLess` |
| `TrainerPredictsWhatIsSpun` | `TrainerPredictsTheRoulette` |
| `ReplayMovesWithTheRequests` | `ReplayFollowsTheShift` |
| `NoNodeStarves` | `NobodyStarves` |
| `TrainerScoresAlike` | the trainer's scores are the balancer's (proved only) |
| `ReplayRunsTheStrategy` | `ReplaySpec => Spec`: what is proved of the strategy holds for the replay, too |

`LessLoadNeverScoresLess` has a hypothesis, `OutputsRise`: that the centroids of the
three output sets rise with their level. The code takes any three triples
(`BuildOutputMFSet`) and does not look, so it is no assumption of the module;
TLC evaluates it for the sets of `configs/fuzzy_output_mf.json`, which the run
uses (`MCFuzzy!OutputAssumption`). `NoNodeStarves` has two: `OutputsInside`,
that near each end of the domain there is only the outermost output set, and that
its centroid alone, however low it is cut, keeps off that end (16 and 84 for the
shipped sets); and `Resolved`, that neighbouring parameters are at most 1000
apart, within which a thousandth is fine enough for every positive degree (the
parameters are percents, queue lengths and milliseconds). TLC evaluates both for
the run.

The argument. A degree is a number of thousandths whatever the triple
(`MembershipsTyped`), the centroid's sum of moments is at most 100 times its sum
of areas, and so a score lies on `0..100` (`CentroidTyped`). At the peaks one rule fires, at
full degree; the table of `config.go` depends only on the sum of the three levels
(`RulesCountSteps`), and a lesser value lies at no higher peak (`PeaksInOrder`),
whatever the order of the parameters. The trainer's inference has another list of
rules and its guards in another order; `TrainerScoresAlike` shows by cases that
both come to the same membership, activation and area. The roulette gives node
`n` the rolls between two sums of scores, as many as its score, which is the
share the trainer predicts. `ReplayFollowsTheShift` is a comparison of fractions
(`MovedFromSeen`): the cost of a request times the requests is no more than the
CPU that was seen, or no less, and the clip at both ends keeps the order. What is
predicted for the two nodes adds up to the window (`PredictedAreAll`), and what
they are taken to have served is no less, so one of them is predicted no more
than that (`SomeNodeNoMore`): that node is not raised.

`NoNodeStarves` says when a node is left without a score, and that no other node
is ever starved. A value that lies between no two neighbouring sets meets one of
them (`EveryValueMeets`), so some rule fires (`SomeRuleFires`), an output is
demanded to a positive degree, and there is some area under it (`AreaCounts`).
That the centroid is at least 16 is a comparison of sums over the domain
(`MomentsCompare`): the moments about 16 are no less than those of the lowest set
cut alone, since the other sets add area above 16 only; likewise at 84. So the
score is 0 or within 16..84 (`CentroidInside`, `ScoreInside`), and of two
scores in that range each is at least 16 percent of the sum. By
`RepairsLeaveNoDeadZone` a repaired vector has a gap between two sets at most where
they touch, in one point: there, and only there, a repaired strategy may leave a
node without a score.

### The trainer and what serves

`TrainerProofs` proves, for every number of runs, particles and iterations, every
capacity of the archive and all averages (`TrainerAssumption`):

| Theorem | Property |
|---|---|
| `TrainerTypes` | `TypeOK` |
| `BestsScoreLeast` | `BestScoresLeast` |
| `ArchiveStaysAFront` | `ArchiveIsAFront` |
| `LeastPeakStays` | `LeastPeakIsKept` |
| `BaseDecidesOutcome` | `OutcomeFollowsTheBase` |
| `ServesTrueToItsWord` | `ServesWhatItSays` |
| `TrainingRollsOut` | the first five in `RolloutSpec`, the specification of the run |

A personal best is replaced by dominance first and by score second. The step
that makes this safe is `DominatedScoresMore`: who is dominated has the greater
score, so the two orders agree; `BestInv` adds that a particle without a best has
evaluated nothing.

`addToArchive` works on the slice it is given, and returns half way when it meets
a member that dominates the candidate, after it may have dropped members
before that one. Of a front this drops nothing: a member that the candidate
dominates would be dominated by the one that stopped it. `ArchiveStaysAFront`
rests on that. An archive that is too long is sorted by peak, and its first
member has the least of all, so cutting the rest keeps the promise of
`LeastPeakStays`, whatever order `sort.Slice` gives equals (`PermutedKeeps`).
`TrainerInv` adds that an evaluation leaves the archive non-empty, that reports
are sorted by score, and that nothing is saved before the end; from the second
follows that the first sane entry of a report is its best one, which is what
`main` relies on when it compares one candidate of each run with the base.

For `ServesWhatItSays`, `RolloutInv` follows the vector of the training from
`saved` through artifact and active file to the engine: wherever it is, it was
saved first, and nothing is saved afterwards.

### The repairs

`RepairProofs` proves, for every range, every gap that leaves room for four of it,
and every set of coordinates (`RepairAssumption`):

| Theorem | Property |
|---|---|
| `RepairsOrder` | `RepairedIsOrdered` |
| `RepairsLeaveNoDeadZone` | `DeadOnlyWhereTheyTouch` |
| `LastResortIsNone` | `ForcingChangesNoVerdict` |

Each stage of a repair has a lemma that says what it hands to the next:
`SpreadFits`, `PeaksApart`, `AroundHolds`, `CloseGapsHolds`. `RepairInv` adds to
the claims that neighbours meet (`Meeting`) and how a peak that was pushed lies
(`Pushed`), which the second repair needs. `SaneBelowTheTop` is the reason of
`LastResortIsNone`: an ordered group is sane exactly when its last peak is a gap
below the end, and neither repair moves that peak off the end.

### Sums, folds and filtered lists

The provers cannot use an induction theorem that quantifies over an operator.
`ListProofs` states the principle for sets instead, which is first-order: a set
of naturals that is not empty has a least member (`LeastMember`, from the
library's theorem that `<` is well founded), hence a set with 0 that is closed
under successor is all of them (`SetInduction`), and likewise for a bounded range
and for the subsets of a finite set. A proof about a recursive function names the
set of the indices where the claim holds and shows that it is closed. In this
way it proves what `Only`, `Min` and `Max` return, and that `SumFunction` is the
sum of what is taken out one by one, in whatever order, and grows with the list
(`SumTakesOut`, `SumGrows`, and `Tally` for the lines of a file).
`Lists!Only` is a function of how far the loop has come, where the library's
`SelectSeq` is an operator that cannot be unfolded.

### Model-checked only

- liveness under fairness (`reset`, `cpu_live`, `dataset_live`), which is beyond
  the prover.

Every other property that a passing run checks is a theorem: each invariant, each
action property, and the refinements of `Dispatcher`, `Readings` and `Ledger`.

## 6. Findings

1. **`gauge_order`.** Completions publish the in-flight gauge outside any lock
   (`lb_proxy.go:413`), in another order than they decremented. The gauge of
   an idle node may read 1 until the next request, though its help text
   promises the real-time queue.
2. **`stale_latency`.** A reset that clears the stamp after a completion has
   stored its latency leaves a latency that never decays
   (`strategy.go:103`, `lb_proxy.go:506`).
3. **`cpu_unstamped`.** The same for the CPU: the collector does not take
   `selectMu`, and a reading may arrive between the two stores of a reset
   (`strategy.go:92`, `:102`). It lasts until the next good round
   (`ReadingsComeBack`), or for ever if the backend dies first.
4. **`repair_last`.** `main` repairs its best candidate when none is sane, so
   that the training is not lost (`main.go:140`). The repair never makes it
   sane: what the optimiser has repaired is insane only where the peak of High
   has run into the end of the range, and the second repair leaves it there.
   `LastResortIsNone` proves it for every range and gap.

Seen while modelling, and not stated as properties:

- The freshness check trusts the backends' clocks (`collector.go:140`). A backend
  whose clock is more than about a second behind has readings refused, and one
  that is behind by the TTL has all of them refused and keeps the balancer from
  ever starting; one whose clock is ahead passes readings as fresh that are older
  than the TTL by as much.
- A node that served no request in a window is replayed as if it had served one
  (`offline_training.go:247`): a vector that sends it a part of a request lowers
  its CPU in the estimate.
- Nothing in the program writes the `[DATASET_CSV]` lines that `dataset-pull`
  (and so `offline-flow`) greps for in the balancer's log; `capture-dataset` is
  the path that works, and the one modelled.
- `dataset-reset-remote` (`src/Makefile:233`) removes the file while the worker
  has it open; the worker then goes on writing to a file without a name until it
  is restarted.
- `ApplyMetricPenalty` is never called: a dead backend answers 503 at once, its
  latency stays low, and only its CPU and queue speak against it.
- A captured dataset stays readable after a truncation only because
  `capture-dataset` puts a header in front; the live file then has none until
  it is empty at a start (`TrainerReadsWhatWasSent`, the condition on `clears`).

## 7. Not modelled, and why

- Logging, the status page, CORS and header handling, layout of the CSV: no
  state the rest depends on.
- `ApplyMetricPenalty` and `UpdateMetrics`: nothing calls them.
- The worker's branches for closed channels: nothing closes the channels.
- `Engine.UpdateParams`: nothing calls it after start-up.
- How particles move (velocities, leaders, mutation): random numbers and floats
  without a property beyond the repair that follows every move; a particle may
  move anywhere.
- `OptimizeReplay`, `ActiveByMode`, `buildCompromises` and the other entry points
  of `mopso.go` that the trainer's `main` does not use: nothing calls them.
- Reading capacities, intervals and the log mode from the environment, the
  wiring of handlers and ports: no state, and constants here.
- Two hazards without a property: the latency and its stamp are read in two steps
  (`lb_proxy.go:492`), which scores one decision lower and which nothing in the
  repository rules out; and a backend that accepts and never answers holds its
  request for ever (`lb_proxy.go:170`), against which the code has no timeout
  that a property could be about.
- The work endpoints of the backends: stateless for the balancer.
- Load generator, plots, notebooks, Prometheus and container set-up: outside
  the running system.

## 8. Plan

Done, in order of importance: the request path with its refinement and proofs;
the dataset worker; the collector and its proofs; the fuzzy strategy; the
trainer; the repairs and their proofs; the reader of the dataset; the replay;
the roll-out; proofs about worker, reader, trainer, strategy and replay; the
abstract ledger and the abstract readings with their refinements; no node
starves, for every parameter vector.

Left:

1. Several trainings in `Rollout`, with make targets that overlap.
