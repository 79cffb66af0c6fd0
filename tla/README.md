# A TLA+ model of the NGD/NGG resource pool scheduler

The repository schedules topology-aware pools of Nodes. A user writes a `NodeGroupDemand` (NGD); the
**PRC** (Platform Resource Controller, Go, `prc/`) asks the **Algorithm API Server** (Go,
`algorithm_server/go`), which runs a **Python worker** (`algorithm_server/python`), for a group of
Nodes and publishes it as a `NodeGroupGrant` (NGG). The **LLDP agent** (`topology_agent/`) writes to
which leaf switches each Node is wired into the Node's labels and annotations. This directory holds
TLA+ modules that model the system, TLC configurations that check them, and TLAPS proofs.

## 1. Inventory

| Component (source) | State it keeps | Operations | Interacts with | What makes it correct |
|---|---|---|---|---|
| Refresh loop (`prc/pkg/controller/refresh_scheduler.go`, `refresh_controller.go`) | task map: UID, generation, timer, cancel; a channel; two work queues | `Upsert`, `Trigger`, `Begin`, `Finish`, `IsCurrent`, `ScheduleAfter`, timer callback, `Remove`, `Start`; two `Reconcile`s | NGD watch; calls the demand processor | no demand is forgotten, no change missed, a replaced execution is cancelled, deleted demands come to rest |
| Demand processor (`prc_controller.go`) | none of its own; writes NGD status, NGG spec and status | `Process`, `upsertGrant`, `failPlatformDemand`, `setPlatformGrantReturned`, ... | Kubernetes API, static snapshot state, Algorithm | NGD status and NGG converge to what the last spec calls for; superseded executions stop publishing |
| Static snapshot controller (`static_snapshot_controller.go`, `snapshot.go`) | last confirmed snapshot and Algorithm boot ID, ready flag | `Reconcile`: List, build, status, PUT; resync timer | Node informer, Algorithm | fails closed while publishing; finally the Algorithm holds the snapshot of the cluster |
| Algorithm client (`algorithm_client.go`) | none | status, PUT, allocate | HTTP | each outcome (answer, final or retryable error, time-out) is handled |
| Static cache (`algorithm/cache.go`) | current and previous snapshot | `put`, `get`, `status` | HTTP routes, allocation | a switch of snapshots spares calculations under way |
| Allocation service (`algorithm/service.go`, `quantity.go`) | none per request | `allocate` | all caches, Python worker | an answer belongs to the snapshots it names |
| Metrics cache (`algorithm/metrics.go`, `metric_binding.go`) | current and previous metric snapshot, last error | `run`/`refresh`, `resolve`, `status` | Prometheus | a failed refresh keeps a whole snapshot; staleness degrades |
| Network topology (`go/topology`) | immutable after start | `LoadSource`, `ResolveNodes`, `ResolveDemandTopologyLabels` | allocation | a Node is placed alike by any part of its switches; a demand selects the Nodes of the switch it names |
| Python worker host (`algorithm/worker.go`) | one process, a gate, generation, stopping flag | `calculate`, `recycle`, `close` | stdin/stdout of the worker | no answer reaches another request, no process is replaced unreaped, callers always return |
| Python pipeline (`algorithm_worker/`) | none across requests | filter, group, score, select | one JSON line per request | a pool keeps minimum, quota, `maxNodes`, selector and one domain; what is refused could not be granted |
| HTTP server life (`algorithm/server.go`, `application.go`) | listener, closed flag | `Start`, `Wait`, `Close` | all | closes once, in order; no calculation after it; every request accepted is answered |
| LLDP agent (`topology_agent/`) | none across cycles | select interfaces, listen, build facts, patch, verify | network, Kubernetes API | a cycle writes only what its own window heard; a partial observation does not misplace the Node |

**How they interact.** The LLDP agent's annotations reach the PRC as Node events; the static
snapshot controller publishes the snapshot to the Algorithm's cache and then sets the shared ready
flag. An NGD event (or a timer) puts a key into the refresh queue; a refresh worker calls the demand
processor, which reads the confirmed snapshot identity, sends it with Node and Pod state to the
Algorithm, checks the answer against what it sent, and writes NGG and NGD status.

**What is hard here.** One event worker, several refresh workers and timer callbacks share the task
map; cancellation races completion; publishing takes four requests without preconditions, by name;
an NGD can be deleted and recreated under its name; requests that timed out may still be performed;
either process may restart and loses all memory; some Node changes raise no event; Python answers
race deadlines; snapshots are replaced and the server is shut down under running calculations; a greedy
selection must keep limits that it sums up Node by Node; agents hear only some of a Node's switches and
write to a Node object that others delete and edit. `PROJECT.json` lists these hazards at their lines with the properties that cover them.

## 2. Modules

| Module | Models | Checked by | Proofs |
|---|---|---|---|
| `RefreshScheduler` | the refresh loop; `Process` is one opaque step | `MCRefreshScheduler` | `RefreshSchedulerProofs` |
| `DemandLifecycle` | extends it: every request of `Process` and of the event reconciler, NGD status, NGG, garbage collector, late requests | `MCDemandLifecycle` | `DemandLifecycleProofs` |
| `StaticSync` | snapshot controller, shared state, static cache, tasks that use them | itself | `StaticSyncProofs` |
| `PythonWorker` | the Go host of the Python process: gate, exchange, recycling, close | itself | `PythonWorkerProofs` |
| `SerialWorker` | abstract: calls are calculated one at a time, each answered from its own payload or refused | as the property `SerialCalls` | `PythonWorkerProofs`, `AlgorithmServiceProofs` |
| `NetworkTopology` | topology source, domains, placement of Nodes, constraints of demands: functions | `MCLldpAgent` | `LldpAgentProofs` |
| `LldpAgent` | extends it: one Node's agent, its cabling and its Node object; how the PRC reads the facts | `MCLldpAgent` | `LldpAgentProofs` |
| `PoolPromise` | abstract: a job is refused, or answered with pools that keep what was promised | as the property `PoolPromised` | `PoolSelectionProofs` |
| `PoolSelection` | extends `NetworkTopology`: the Python pipeline, Node by Node | `MCPoolSelection`, `MCAlgorithmService` | `PoolSelectionProofs` |
| `MetricsCache` | the refresh of Prometheus metrics query by query, `resolve`, the binding to Nodes | `MCAlgorithmService` | `MetricsCacheProofs` |
| `AlgorithmService` | composes the two: requests, static snapshots, the server's life | `MCAlgorithmService` | `AlgorithmServiceProofs` |

The modules meet where the programs do. `StaticSync` has of the Algorithm Server what the snapshot
controller sees of it, `DemandLifecycle` has of a calculation its conclusion; `AlgorithmService` takes the
other side of both, with the worker's gate but without the exchange of lines, which `PythonWorker` has. What
the two agree on is `SerialWorker`: the one implements it, the other's requests are its calls, and both are theorems.
`LldpAgent` ends with the placement that `AlgorithmService` computes for its Nodes.

### RefreshScheduler

`taskId`, `taskTimer` and `taskCancel` are the fields of `tasks[k]`; `timer` the `time.Timer`
objects, which outlive their handle; `events` the channel; `dirty`/`backoff` and
`evtDirty`/`evtRetry` the two work queues; `evt[k]` and `exec[k]` the two `Reconcile` calls with
their local variables. Each critical section of the mutex is one action, named after its method; the
points between them (the channel send, a status write, the call of `Process`) are program counters.
A `time.AfterFunc` callback is three steps - it fires, takes the mutex, sends - because each can be
overtaken. `CancelExec` closes the context of the execution; the model keeps the context with the
execution (`exec[k].ctx`) and the map's cancel function as membership in `taskCancel`, since a key is
never executed twice at once. NGD reads are live: the manager's client caches no unstructured object.

### DemandLifecycle

`DemandLifecycle` conjoins to every step of `RefreshScheduler` its effect on the published objects,
and splits the opaque step: `proc[k].pc` names the request an execution waits for (`get`,
`existing`, `calculate`, `reread`, `returned`, `spec`, `applied`, `active`, `fulfilled`, `fail`,
`failRetry`). A request is answered, fails, or fails for its sender and stays in `late`, from where
it may take effect at any later time, restarts included. Before each request the context is looked
at (`Ask`). What the calculation concludes is the constant `Verdict`: for each UID and generation a
set of possible conclusions (`feasible`, `infeasible`, `rejected` by a final error, `invalid` spec).
A failure with a retryable reason is the phase `Retrying`, which the API shows as Failed: it lets
`Settled` tell a final state from one that is still being retried. That `DemandLifecycle` implements
`RefreshScheduler` is a theorem (`Implements`), so all of the latter's invariants carry over.

### StaticSync

The reconcile is `List`, then a status request if the snapshot is confirmed already, then a PUT; each
request has a server's part (`StatusServed`, `PutServed`) and a receipt, so that either process can
restart in between. A snapshot stands for its content hash; `None` for Nodes from which none can be
built (no Node, an illegal one, no leaf). `NodesChange` may raise no event: the predicate does not
look at the InternalIP, which the snapshot contains. A task remembers the identity it read.

### PythonWorker

A member of `Calls` is one call of `calculate`, `pc` its place in it; `gate` names the holder of the
channel's one slot. `procs` is the sequence of process generations, each with its state in the
operating system (`running`, `dead`, `reaped`), the flag `stopping` (which also says that the pipes are
closed and `Wait` runs) and its two pipes. The reader goroutine of an exchange is `reader[c]`, its result
on `done` is `scanned[c]`. `recycle` is a step that stops the process, then a wait that ends with the
reaping or with the cleanup timer; `why[c]` remembers which of the five callers of `recycle` continues.
`select` statements with several ready cases are disjunctions. The Python process (`main` of `worker.py`)
answers a line with a line under the same id; a faulty one answers twice, writes what Go rejects, or
dies. A failing append to the evidence file, or a failing start, is a fault too. Time is abstracted: each
timer may fire whenever it is armed, so `close` may give up although its 4 s exceed the 2 s of `stop`.

`SerialWorker` forgets processes and lines. Under the refinement mapping a call waits until it has the gate and has
seen that the worker is open (`Phase`), then calculates, whatever is started, recycled and sent meanwhile, until
it returns a line (answered) or an error (refused); `AnswerFor` is the call whose payload the returned line
answers, and the worker is closed from the moment its context is cancelled. In `AlgorithmService` a request refused
for a reason of its own has never been a call.

### NetworkTopology and LldpAgent

A topology source is a set of rows, one per leaf; a domain that the code names by a hash is its kind with
the set that is hashed, so that equal hashes are equal values. `Accepted` is the conjunction of the checks
of `buildCache`, `Placement` is `ResolveNodes`, `ResolveDemand` is `ResolveDemandTopologyLabels`; both
modes of a topology (`layered`, when every row has spines and borders, and `uplink-compatible`) are there.
Border domains that a configuration may name stay empty, since `rawToNormalized` writes none.

`pc` is the step of the agent's cycle, `selected`, `heard` and `want` its local variables; `node` is the
Node's metadata, `cable`, `link` and `name` its surroundings. The listening window is the steps `Hear`, in
any order and any number, and `CloseWindow`. `Patch` may take effect without an answer, and `Verify` may
read what somebody else made of it. `live` and `edited` are history: what could be heard since the window
opened, and that somebody edited the label after the agent. `TopologyFromNode` is the PRC's reading.
A neighbour is an interface, a chassis and that chassis's port, as in `neighborIdentity`; the port is called by
the Node's port at the other end of the cable. The host's own frames are known by name: `External` drops
neighbours whose name is `HostName` (which stands for every name that `sameHostName` takes for the host's). So a
frame that is reflected without a name makes the host a Leaf of its own, and a switch that bears the host's
name is never heard; `Self` and the switches may advertise the host's name, another one or none.

### PoolPromise and PoolSelection

`job` is the line that the worker got, `answer` its result. The pipeline's steps are `Filter`, `Group`
(which fixes the levels to try), then for each group `Open`, one `Consider` per Node in the order of the
scores, and `Close`; a level that has pools is the last one (`Narrowed`), one without is followed by the
next (`Widen`), and `Finish` or `Unsatisfied` answers. `totals` is the code's variable, which has the
names of the last Node taken only; `total` is history, the true sums, with which the promise is stated. A pool's
score is any member of `Scores`. `PoolPromise` says nothing of how a pool is found: it has one action that
answers. The refinement maps `job` and `answer` to themselves, leaving out a refusal's diagnosis.

### MetricsCache and AlgorithmService

`refresh` is the local state of `metricsCache.refresh`, one query a step; a refresh ends with a snapshot or
leaves everything but `lastError` as it was. `loop` is the goroutine of `run` and `cancelled` the application's
context: `Close` ends the context only, and the goroutine sees it between two refreshes (`LoopEnds`), where a
tick that is due as well may be taken first; a query in progress fails. `resolve` reads the snapshot of the moment, and degrades the
answer if the last refresh failed or the snapshot is stale. A request passes `FindStatic` (the lookup of
the static snapshot), `Prepare` (placement, labels, metrics: no lock is held, and it reads nothing that
changes but the metric cache, once), `Call` (the worker's gate) and `Respond`; its record keeps the
copies that the Go function keeps in its variables. `Start` is its first goroutine (`Start`), the background
refresh (`BackgroundStarts`), which may find that the server has already failed and closed the application, and
the goroutine that waits for the context (`BeginShutdown`). `serving`, `closer`, `app` and `stopping` are the
goroutine that serves, `Server.Close`, `Application.Close` and the end of `Run`'s context: `Serve` returns as
soon as `Shutdown` begins, so `Application.Close` may run while handlers are still being drained. Requests come in
until a shutdown within its deadline has closed every connection (`drained`): a failing listener does not stop
connections that are open.

## 3. Runs

| Run | Question | Result |
|---|---|---|
| `refresh_safety` | can any interleaving forget a demand, miss a change, or let a replaced execution run on? | holds |
| `refresh_liveness` | is every existing NGD calculated for ever under its latest identity, and does a deleted one come to rest? | holds |
| `refresh_orphan_timer` | "Remove cancels ... the next timer" (`refresh_scheduler.go:170`) | **violated** |
| `lifecycle_safety` | how many writes of a superseded execution can take effect? | at most one |
| `lifecycle_converges` | do NGD status and NGG reach what the last spec calls for? | holds |
| `lifecycle_stale_publish` | "only if UID and generation agree may the NGG be updated" | **violated** |
| `static_sync` | does publishing fail closed, spare tasks, and end synchronised? | holds |
| `static_unusable` | "when Node information changes the PRC first sets the snapshot not ready" | **violated** |
| `worker` | is the worker a serial one whose answers are never crossed, are processes never doubled, calls never stuck, and nothing left after close? | holds |
| `leaf_facts` | does every accepted topology file place a Node alike by any part of its Leaves and let a demand select the Nodes of its switch, does an agent write only its own facts, and is a Node in the end placed where it is wired? | holds |
| `allocation` | do pools keep the promise, are refusals true, do answers belong to their snapshots, does every request come to an end, and every shutdown, the refresh loop included? | holds |
| `quota_respected` | a pool "never exceeds maxNodes and quota" (`algorithm_server/README.md:132`) | **violated** |

**The four violations.**

- *Orphan timer.* A callback that has fired waits for the mutex while an execution of the same
  identity (started by a spec-neutral event, or a retry) calls `ScheduleAfter`: the new timer's handle
  is stored, then the old callback, which compares UID and generation only, sets it to `nil`
  (`refresh_scheduler.go:159`). The timer can no longer be stopped by `Remove`. It does no harm to a
  deleted demand beyond one wasted wake-up (its callback finds no task: `DeletedDemandQuiesces` holds),
  but a living demand then has two refresh chains.
- *Stale publish.* `demandStillCurrent` and the apply are separate requests. The next calculation
  repairs the NGG (`Converges` holds), so the disagreement is with the documentation's guarantee.
- *Unusable Nodes.* `failed` leaves `ready` set; one Node with an illegal annotation keeps the whole
  cluster on the old snapshot for as long as it lasts, with tasks running.
- *Quota.* `_select_resource_pool_nodes` sums up under the names of the Node at hand and then takes these
  sums for its own (`loadbalance.py:242-251`): a name that this Node lacks is forgotten. With a machine without
  GPU between two with one, a quota of one GPU lets both be taken; and the same loss lets a group that
  could be granted whole be refused for lack of resources. Where all Nodes name the same resources, as in
  the jobs of `allocation`, the promise holds (`PoolPromised`) and refusals are true (`NarrowestWhole`,
  `InsufficientIsTrue`).

Observed while modelling, without a run:

- `prc/README.md:145` says that a demand failed for a final reason waits for an update of its spec, while
  `refresh_controller.go:149` schedules every calculation again after `RefreshInterval`; a final failure may
  therefore turn into Fulfilled by itself. And a demand whose new spec is invalid or rejected keeps the
  Active NGG of its former spec (`Settled` allows it).
- Of several levels required to be the same only the narrowest bounds the groups (`topology.py:47`). The
  wider ones hold where domains nest (`RequiredSameWhenNested`), which uplinks need not do.
- The diagnoses that quota or `maxNodes` prevents the minimum speak of the greedy choice: another choice
  of Nodes may reach it. Only lack of resources is claimed to be true.
- `server.go:199` speaks of handlers that finish before the application closes, but `Serve` returns, and its
  goroutine closes the application, when `Shutdown` begins: such handlers are answered with an error.
- `Application.Close` says that it closes the background goroutine (`application.go:197`), but it only ends its
  context: the server is done, and `Wait` returns, while a refresh may still be under way, or has yet to begin.
  The queries then fail and the goroutine ends soon (`ShutdownCompletes`).
- The host's own frames are known by its name alone (`lldp_socket_linux.go:128`, `lldp.go:241`): reflected without
  a name they count as a Leaf called by the host's own chassis identity.
- The status route reads the metric cache in two critical sections (`metrics.go:245`) and may show
  identifiers of two moments; with `--count`, the host's own reflected frames count as neighbours
  (`lldp_socket_linux.go:78`); more than two leaves on one Node fail the snapshot of the whole cluster
  (`snapshot.go:122`); under `nodeUsageStates` a Node that is not mentioned is idle, under
  `schedulerState` in use.

**Bounds.** One demand suffices for the safety of the task map, whose sections touch one key; two
demands share the channel and the worker in `refresh_liveness`. Two UIDs and two generations give a
replaced and a recreated identity; two timers let an orphan coexist with its successor; a channel of
capacity 1 makes every sender block; one failing API call on each side and one restart reach each
error path, at any point. `NumTimers` bounds `time.Timer` objects alive at once: an execution that
needs a third waits. In liveness runs the environment is split into
scenarios (`MCRefreshScheduler`: faults, restart, shared; `MCDemandLifecycle`: update, recreate,
restart), chosen in the initial state; each bounds users, faults and restarts only, never the program.
`static_sync` has two contents, three changes, two processes of the Algorithm, two faults and a restart
of the PRC; two late PUTs of different contents fit, so eviction from the cache occurs.
`worker` has two calls: one that leaves a line, a reader or an unreaped process behind and one that meets
it; three faults let, for instance, a process answer twice, its line fail to be recorded, and its
successor fail to start.
`leaf_facts` loads each of 12348 files of three leaves - with pairs that are symmetric, one-sided, triple or
unknown, switches shared or not, in one room or two - and, separately, runs the agent on one file, with a
bond of two slaves and a third port, three switches, one change of the surroundings and one fault, at any
point. Names are unique, shared or missing, and the host's own frames are reflected under its name, under no
name, or not at all. A file is read once, when the server starts, so each of the two properties of files
is membership in the set of files of which it is true. `allocation` splits into scenarios too (`MCAlgorithmService`): the worker alone
on 602 jobs over four Nodes; one request against a metric cache that is refreshed twice, with failing queries
and a clock of three ticks; two requests with two PUTs, failing calls and the end of the server; and the end of the
server with the refresh loop running, at each of its points, two refreshes and a clock that stands still. Worker and
server share only the job and its answer, so in the scenarios with both the server moves when the worker is idle,
walks through a group, or is done: each phase of a calculation that the server can tell apart.
`CHECK_DEADLOCK FALSE`: with every NGD deleted, no Node at all, or every call returned, and the bounds on the environment
used up, the system rightly waits.

**Fairness.** Goroutines, informers, timers and back-offs make progress (weak); a request is answered
or times out (the HTTP client has a time-out, the context a deadline) and one given up is performed or
lost (weak). Waiting in a FIFO work queue for the single event worker or a free refresh worker, and
blocking on a full channel, is strongly fair: Go serves blocked senders, and controller-runtime its
queue, in order. A call's context ends, because the
PRC's HTTP client has a time-out. The Python process may hang, a write may block, and the operating
system may never report a death: none of these is fair. An agent's steps are weakly fair: its requests have
time-outs. That it hears a frame of an external switch, when one can be heard again and again, is strongly
fair: switches send every 30 s, a window lasts 65 s. The pipeline terminates by itself (weak); a request's
handler runs on, and a call to a closed worker fails (weak). No query of metrics need ever succeed, and no
call to the worker either; once its context has ended a query ends (weak, as its client has a time-out and the
context is gone), and between refreshes `select`, which picks any case that is ready, does not prefer the tick
for ever (strong, `LoopStops`). Nothing is assumed of users, faults, changes of the Nodes, cables, or restarts.

## 4. Theorems

All hold for every value of the constants that satisfies the modules' named assumptions, and are proved
from these alone. The assumptions say that `None` is no other value, that bounds are naturals, that the
sets of demands, Nodes of a job and rows of a file are finite, and of what form inputs are:

- `PoolAssumption`: jobs are `WellFormed` - amounts are naturals, Nodes are ordered by name, a named constraint is one
  the Go side produces. That the service sends no other jobs is a theorem (`JobsWellFormed`), so behind the
  service this assumes nothing.
- `InputAssumption`: what is left to assume of requests, snapshots and the profile. Amounts are naturals
  (`normalizeResourceMap` refuses a negative quantity in a request as in a snapshot), labels are topology labels
  (`ResolveDemandTopologyLabels` refuses others), names of a snapshot's Nodes differ, and rules have a non-negative
  weight and a positive reference.
- `JobsAssumption` says only that the constant `Jobs` holds the jobs that requests become; `Jobs` is what the
  pipeline is checked on, not a restriction of the service.

- `TypeCorrect`: `TypeOK` is inductive.
- `StaleIsCancelled`: from `ExecutionAttached` - while an execution's context is live, the map holds its
  identity and its cancel function. `StaleExecutionCancelled` alone is not inductive: `Upsert` cancels
  only what the map still points to.
- `ChangesAreSeen`: with `ObservationRepeated` - an observation out of date will be made again.
- `NothingIsForgotten`: with `TimerHandleOwned` - the timer that `StopTimer` stops belongs to the task,
  so stopping it never stops another demand's refresh. The orphan timer is the reason why the
  converse (every timer is someone's handle) is *not* part of the invariant.
- `Implements`, `LifecycleKeepsRefreshing`: every step of `LNext` is a step of `Next` or leaves `vars`
  unchanged; the three invariants above follow for the lifecycle.
- `OneStaleWrite`: with `ProcRunsInExecution`, `ExecutionAttached` and `StaleWriteIsLast` - the write
  that took effect under a cancelled context was the execution's last request.
- `LifecycleTypes`: `LTypeOK`, with `DemandRead` - a request of an execution that has gone past its first
  read carries the identity of an NGD, so a spec that lands late never writes a grant without a source - and
  `PhaseWritten`, the same for the event reconciler's status.
- `SyncTypeCorrect`, `FailsClosed` (with: an answer under way carries the listed snapshot; the status is
  asked only while ready), `SwitchIsSafe` (with `HeldInv`: before the first switch the snapshot read is
  current, after it previous; `BootsKnown`: a boot ID once read does not come back).
- `WorkerTypeCorrect`, `OneProcessAtATime`, `AnswersAreOwn`, `ReadersHoldGate`, `CloseLeavesNothing`: from
  `Holders` and `HolderProcess` (which phases hold the gate, and whether they have a process), `Readers`,
  and `Typed`, which says that every line on a pipe is for the one call that has its message id; a fresh
  id keeps old lines good (`SendKeepsLines`). `CleanClose` needs `Finished`: a clean close leaves no call
  that could still start a process.
- `AgentTypes`, `FactsAreOwn`, `LabelAgrees`: the second says of each link to be written that a frame of that
  interface and port, not under the host's name, could be heard in this window, and that its Leaf is called by that
  chassis or by a name the same chassis advertised in the window; the third is an equivalence for Leaves that have
  a name. From `AgentInv`, which adds that the neighbours heard were
  `live` in this window (`Windowed`) and that the label of the facts to be written agrees with their
  leaves before anybody writes them (`WantAgrees`).
- `PlacedAlikeByAnyPart`, `SwitchSelectsItsNodes`: facts about *every* source that
  `buildCache` accepts, of any size, proved from the definitions of the checks;
  `PartsKeepPlace` and `SwitchesSelectNodes` say so of a running server. The key is that leaves of one
  set of peers agree on their uplinks (`UplinksAgree`), so that a domain is determined by any member.
- `CompleteSnapshots`, `MetricsTypes`: from `MetricsInv` - a refresh that is not fatal has values of the
  required metrics among those already queried (`MetricsSoFar`).
- `PoolTypes`, `ImplementsPromise`: from `PoolInv` - `Weighed`: what was selected, with its sums, is within
  every limit and in one domain of the level tried, and every candidate keeps the promise; the theorem is
  the safety half of the refinement. The sums the code keeps are never more than the true ones, so the
  minimum is always reached in truth (`MinimumHolds`); they are the true ones, and the quota is kept, where all
  Nodes of the job name the same resources (`SameNames`, a premise of the promise about quota). `QuotaWhenSame` says
  so of `QuotaRespected` itself, the property that run `quota_respected` refutes without the premise.
- `NarrowestHolds`, `InsufficientHolds`: from `PoolInv` and `Thorough`, which says what the walk has *not* overlooked.
  `Greedy`: while a group that could be granted whole is walked, no Node of it was passed over. `Tried`: each
  such group of a level is still to be walked, under way, or among the candidates. `Explained`: a diagnosis of too
  few resources is true of its group. `Counted` and `Ended` carry this over the levels to the answer.
  The sums over sets of Nodes that these compare are a fold; that it exists and is one whatever the order
  (`SumsExist`, `FoldedSums`), adds up Node by Node (`SumAdd`) and grows with the set (`SumMonotone`) is proved with
  a smallest counterexample among the finite subsets, since the induction theorems of the library take
  an operator as a parameter.
- `SameWhenNested`: from `PoolInv`, since the levels tried are no wider than the narrowest constraint.
- `ServiceTypes`, `ServedComplete`, `AnswersNameSnapshots`, `FreshAnswers`, `OffersReported`, `NothingAfterDone`:
  from `ServiceInv`, whose core is `RequestOK` (what a request has resolved, and that its payload was made of
  it) and `Gate` (the job in the worker is that of the one request that calculates).
- `JobsWellFormed`: for each accepted request and whatever the metric cache says, `JobOf` is `WellFormed`: scores are
  naturals, constraints are levels of the topology's mode, a compatible uplink comes with its domain.
- `ServiceRunsPipeline`, `ServiceKeepsPromise`, `ServicePipelineProperties`: the service *is* the pipeline as far
  as the worker goes, so what is proved of `PoolSelection` alone holds behind requests, time-outs and
  shutdown. From `ServedInv`: a request under way has a job of `Jobs` (`Kept`), for which the metric cache's
  values must still be readings of metrics.
- `DemandsMet`: the end-to-end statement. Every pool of every answer consists of free Nodes of the request's snapshot
  that lie where the demand's labels want them, no more than `maxNodes`, with the minimum together, and within
  the quota where `SameNames` holds. It needs all of the above, and `Kept` for what an answer keeps after the
  worker has gone on to another job.
- `ImplementsSerial`: `PythonWorker` implements `SerialWorker`, from its invariant and `Unreplied` (no reply before the
  return). The step that matters is `SerialReturn`: the line that a call returns answers that very call.
- `ServiceCallsSerially`: the service's requests are calls of a `SerialWorker`. In this mapping an answer counts as
  calculated from a request's payload only if its pools are what *that* payload was promised.

**Model-checked only.** Liveness (`CurrentDemandRefreshed`, `DeletedDemandQuiesces`, `Converges`,
`Resynced`, `EveryCallReturns`, `NothingRunsOn`, `EventuallyPlaced`, `EveryRequestAnswered`,
`ShutdownCompletes`, and that a job is answered, the liveness half of `PoolPromised`): fairness and ENABLED are
out of the proof system's reach. Every invariant and every safety property of a run that holds is a theorem.

## 5. Not modelled

- Entry points, flags, logging, manifests, images and scripts hold no program state of their own.
- The validation of NGD specs, the content of the NGG's spec and of the response are verdicts in
  `DemandLifecycle`: one function each, of one object.
- Quantities: parsing and rounding of strings (`quantity.go`, `pkg` helpers), and so the refusal of an illegal or
  negative one (`INVALID_RESOURCE_QUANTITY`). Amounts are integers. The code
  rounds up a demand as well as what a Node has (`quantity.go:129`).
- Frames (`lldp.go`), packet sockets and sysfs: parsing and I/O. A socket that fails ends the cycle like a request
  that fails (`RequestFails`). One port of a switch is wired to each port of the Node. Node labels other than the
  topology's are left out, and with them the older label `switch` that `TopologyFromNode` falls back to, and JSON it
  cannot read, which fails the snapshot like any illegal Node (`StaticSync`).
- Metrics whose identity label is not `paas_node_ip` are used as they are (`metric_binding.go:12`); the binding by
  address is the case modelled.
- Handlers that still run when `Run` has returned end with the process. A connection that is opened after the
  listener has failed is not told from one that was open.
- The status and health routes, `WaitForReady`, `RefreshMetrics` (called by tests only) and a `Close` before
  `Start`. What the caller does when `Run` has returned is the caller's: the server may be embedded.
- Malformed payloads of the Python worker, which the Go side never sends, and the wording of its answers.
- The code under `docs/` (a copy of another project's API, with generated files) is not part of the system.

What would come next: `StaticSync`'s server as an abstraction of `AlgorithmService`'s cache, as `SerialWorker` is
of its worker; the status route; two agents and the snapshot builder composed with `StaticSync`.
