--------------------------- MODULE AlgorithmService ---------------------------
(***************************************************************************)
(* The Algorithm Server: concurrent requests for a calculation (algorithm_ *)
(* server/go/algorithm/service.go), each of which resolves a static and a  *)
(* metric snapshot, turns the demand, the Nodes' usage and the topology    *)
(* into a job and has it calculated by the one Python worker; the PUT of   *)
(* static snapshots; the background refresh of metrics; the server's life  *)
(* (server.go, application.go).                                            *)
(*                                                                         *)
(* Composes PoolSelection, one job at a time behind the worker's gate      *)
(* (PythonWorker has the exchange itself), and MetricsCache.  Amounts are  *)
(* integers; a snapshot's hash stands for its contents.                    *)
(***************************************************************************)
EXTENDS PoolSelection, MetricsCache

CONSTANTS
  Requests,  \* requests, each sent once
  Asks,      \* what a request may say
  Statics,   \* static Node snapshots that may be PUT
  Source,    \* the rows of the topology source
  NameOrder, \* the order of the Nodes' names
  Profile,   \* weights of the scoring profile
  MaxPuts    \* bound: PUTs of another snapshot

VARIABLES
  requests,              \* each request, from its arrival to its reply
  staticNow, staticBefore, puts,
  serving,               \* the goroutine that serves
  closer,                \* Server.Close
  app,                   \* Application.Close
  stopping,              \* the context of Run has ended
  drained                \* a shutdown has closed every connection

statics == <<staticNow, staticBefore, puts>>
life    == <<serving, closer, app, stopping, drained>>
svars   == <<pvars, mvars, requests, statics, life>>

Config == RawToNormalized(Source)
ASSUME ServiceAssumption ==
  /\ LoadSource(Source) /\ MaxPuts \in Nat
  /\ None \notin Statics \cup Asks
  /\ \A ask \in Asks : ask.static \in Statics

\* Requests and snapshots once decoded (normalizeWorkerResources refuses a quantity that
\* is negative, ResolveDemandTopologyLabels an unknown label), and a profile's rules.
IsAsk(ask) ==
  /\ Amounts(ask.minimum) /\ Amounts(ask.quota) /\ ask.maxNodes \in Nat
  /\ \A n \in DOMAIN ask.usage : Amounts(ask.usage[n].requested)
  /\ DOMAIN ask.labels \subseteq Uplinks \cup {"leafDomain", "room", "dataCenter"}
IsStatic(s) ==
  /\ IsFiniteSet(s.nodes) /\ \A n \in s.nodes : Amounts(s.allocatable[n])
  /\ \A n \in s.nodes : NameOrder[n] \in Nat
  /\ \A n, m \in s.nodes : NameOrder[n] = NameOrder[m] => n = m
IsRule(rule) == rule.weight \in Nat /\ rule.reference \in Nat \ {0}

ASSUME InputAssumption ==
  /\ \A ask \in Asks : IsAsk(ask)
  /\ \A s \in Statics : IsStatic(s)
  /\ Profile.resourceWeight \in Nat /\ Profile.metricWeight \in Nat
  /\ IsFiniteSet(DOMAIN Profile.metrics) /\ \A m \in DOMAIN Profile.metrics : IsRule(Profile.metrics[m])

-----------------------------------------------------------------------------
(* From a request to a job.                                                *)

\* resourcesFull: every resource the Node has is requested to the last unit.
Full(capacity, requested) ==
  LET positive == {r \in DOMAIN capacity : capacity[r] > 0}
  IN positive # {} /\ \A r \in positive : Amount(requested, r) >= capacity[r]

\* Mutant of InUse: a Node the scheduler state does not mention is idle.
InUse_IfMentioned(ask) ==
  {n \in DOMAIN ask.usage :
     IF ask.form = "nodeUsageStates" THEN ask.usage[n].inUse
     ELSE \/ ~ask.usage[n].ready \/ ask.usage[n].unschedulable
          \/ Full(ask.static.allocatable[n], ask.usage[n].requested)}

\* normalizeUsageStates: a Node the scheduler state does not mention is in use, one
\* the usage states do not mention is not.
InUse(ask) ==
  IF ask.form = "nodeUsageStates" THEN {n \in DOMAIN ask.usage : ask.usage[n].inUse}
  ELSE {n \in ask.static.nodes :
          n \in DOMAIN ask.usage =>
            \/ ~ask.usage[n].ready \/ ask.usage[n].unschedulable
            \/ Full(ask.static.allocatable[n], ask.usage[n].requested)}

RequestedOn(ask, n) == IF n \in DOMAIN ask.usage THEN ask.usage[n].requested ELSE Empty

\* ResolveNodes leaves out the Nodes without a place.
Places ==
  [snapshot \in Statics |->
     [n \in {n \in snapshot.nodes : Placement(Config, snapshot.leaves[n]) # Unplaced} |->
        Placement(Config, snapshot.leaves[n])]]
Placed(snapshot) == DOMAIN Places[snapshot]

\* What the topology makes of a request's labels.
Constraints == [labels \in {ask.labels : ask \in Asks} |-> ResolveDemand(Config, labels)]

\* _score_node, of 100: what is left of CPU and memory, and the metrics there are.
Mean(sum, weight, default) == IF weight = 0 THEN default ELSE sum \div weight
ResourceScore(capacity, available) ==
  LET scored == {r \in {"cpu", "memory"} \cap DOMAIN capacity : capacity[r] > 0}
  IN Mean(MapThenSumSet(LAMBDA r : (100 * available[r]) \div capacity[r], scored),
          Cardinality(scored), 0)
MetricScore(metrics) ==
  LET known == DOMAIN metrics \cap DOMAIN Profile.metrics
      Part(m) == LET p == Profile.metrics[m]
                     v == IF metrics[m] < p.reference THEN metrics[m] ELSE p.reference
                 IN p.weight * ((100 * (IF p.lower THEN p.reference - v ELSE v)) \div p.reference)
  IN Mean(MapThenSumSet(Part, known),
          MapThenSumSet(LAMBDA m : Profile.metrics[m].weight, known), 100)
NodeScore(capacity, available, metrics) ==
  Mean(Profile.resourceWeight * ResourceScore(capacity, available)
         + Profile.metricWeight * MetricScore(metrics),
       Profile.resourceWeight + Profile.metricWeight, 100)

\* The payload of the worker; metrics are those bound to Nodes.
JobOf(ask, metrics) ==
  LET nodes == Placed(ask.static)
      loads == [capacity |-> ask.static.allocatable,
                requested |-> [n \in nodes |-> RequestedOn(ask, n)]]
      Metrics(n) == IF n \in DOMAIN metrics THEN metrics[n] ELSE Empty
  IN [nodes |-> nodes, mode |-> Mode(Config.topology), place |-> Places[ask.static],
      at |-> Constraints[ask.labels].at, labels |-> ask.static.labels,
      matchLabels |-> ask.matchLabels, expressions |-> ask.expressions,
      capacity |-> loads.capacity, requested |-> loads.requested, busy |-> InUse(ask),
      minimum |-> ask.minimum, quota |-> ask.quota, maxNodes |-> ask.maxNodes,
      score |-> [n \in nodes |-> NodeScore(loads.capacity[n], Available(loads, n), Metrics(n))],
      order |-> NameOrder]

\* Why a request with a known static snapshot is refused, in the code's order.
Problem(ask) ==
  IF Placed(ask.static) = {} THEN "TOPOLOGY_RESOLUTION_FAILED"
  ELSE IF ask.form = "nodeUsageStates" /\ ~(DOMAIN ask.usage \subseteq ask.static.nodes)
  THEN "INVALID_REQUEST"
  ELSE IF ~Constraints[ask.labels].ok THEN "INVALID_TOPOLOGY_LABELS"
  ELSE IF \E r \in DOMAIN ask.minimum \cap DOMAIN ask.quota : ask.minimum[r] > ask.quota[r]
  THEN "MIN_RESOURCES_EXCEEDS_QUOTA" ELSE ""

\* bindMetricSnapshotToNodes, on the Nodes that have a place.
Addresses(snapshot) == [n \in Placed(snapshot) |-> snapshot.ip[n]]
BoundMetrics(ask, metric) ==
  IF metric = None THEN Empty ELSE Bind(metric.values, Addresses(ask.static))

\* What the metric cache may say of a snapshot's Nodes; the jobs there may be are those
\* that requests become.
Measurements(snapshot) == UNION {[some -> Readings] : some \in SUBSET Placed(snapshot)}
ASSUME JobsAssumption ==
  \A ask \in Asks : Problem(ask) = "" =>
    \A metrics \in Measurements(ask.static) : JobOf(ask, metrics) \in Jobs

-----------------------------------------------------------------------------
(* The service.                                                            *)

NoReply == [kind |-> "none"]
Error(code) == [kind |-> "error", code |-> code]
Response(static, metric, degraded, result) ==
  [kind |-> "response", static |-> static, metric |-> metric, degraded |-> degraded, result |-> result]

\* metric, degraded and at: what was resolved, and when.
Unsent == [pc |-> "unsent", ask |-> None, metric |-> None, degraded |-> FALSE, at |-> 0,
           payload |-> NoJob, reply |-> NoReply]

ServiceInit ==
  /\ PoolInit /\ MetricsInit
  /\ requests = [q \in Requests |-> Unsent]
  /\ staticNow = None /\ staticBefore = None /\ puts = 0
  /\ serving = "built" /\ closer = "none" /\ app = "open" /\ stopping = FALSE /\ drained = FALSE

Answered(q, reply) ==
  requests' = [requests EXCEPT ![q].pc = "answered", ![q].reply = reply]

\* A connection that is open goes on delivering requests, though the listener failed
\* or a shutdown has begun, until a shutdown in time has closed it.
Accepting == serving # "built" /\ ~drained

Send(q, ask) ==
  /\ requests[q].pc = "unsent" /\ Accepting
  /\ requests' = [requests EXCEPT ![q].pc = "accepted", ![q].ask = ask]
  /\ UNCHANGED <<pvars, mvars, statics, life>>

FindStatic(q) ==
  /\ requests[q].pc = "accepted"
  /\ \/ /\ requests[q].ask.static \in {staticNow, staticBefore}
        /\ requests' = [requests EXCEPT ![q].pc = "found"]
     \/ /\ requests[q].ask.static \notin {staticNow, staticBefore}
        /\ Answered(q, Error("STATIC_SNAPSHOT_NOT_FOUND"))
  /\ UNCHANGED <<pvars, mvars, statics, life>>

Prepare(q) ==
  LET ask == requests[q].ask
      metric == Resolve.snapshot
  IN /\ requests[q].pc = "found"
     /\ \/ Problem(ask) # "" /\ Answered(q, Error(Problem(ask)))
        \/ /\ Problem(ask) = ""
           /\ requests' = [requests EXCEPT
                ![q].pc = "waiting", ![q].metric = metric, ![q].at = clock,
                ![q].degraded = \/ Resolve.degraded
                                \/ metric # None /\ ~BindsAll(metric.values, Addresses(ask.static)),
                ![q].payload = JobOf(ask, BoundMetrics(ask, metric))]
     /\ UNCHANGED <<pvars, mvars, statics, life>>

WorkerClosed == app # "open"

Call(q) ==
  /\ requests[q].pc = "waiting" /\ ~WorkerClosed
  /\ Receive(requests[q].payload)
  /\ requests' = [requests EXCEPT ![q].pc = "calculating"]
  /\ UNCHANGED <<mvars, statics, life>>

\* Mutant of CallFails: a closed worker leaves its queue waiting.
CallFails_IfCalculating(q) ==
  /\ requests[q].pc = "calculating" /\ Release
  /\ Answered(q, Error("ALGORITHM_WORKER_UNAVAILABLE")) /\ UNCHANGED <<mvars, statics, life>>

\* The deadline, a process that fails, or the worker's Close: the process is killed.
CallFails(q) ==
  /\ \/ requests[q].pc = "waiting" /\ UNCHANGED pvars
     \/ requests[q].pc = "calculating" /\ Release
  /\ Answered(q, Error("ALGORITHM_WORKER_UNAVAILABLE")) /\ UNCHANGED <<mvars, statics, life>>

\* Mutant of ReplyTo: the metric snapshot is resolved again for the answer.
ReplyTo_ResolvesAgain(q) ==
  Response(requests[q].ask.static, Resolve.snapshot, requests[q].degraded, answer)

ReplyTo(q) ==
  Response(requests[q].ask.static, requests[q].metric, requests[q].degraded, answer)

Respond(q) ==
  /\ requests[q].pc = "calculating" /\ pc = "done"
  /\ Answered(q, ReplyTo(q)) /\ Release /\ UNCHANGED <<mvars, statics, life>>

\* The snapshot before stays for requests that name it.
PutStatic(snapshot) ==
  /\ Accepting /\ puts < MaxPuts /\ puts' = puts + 1
  /\ snapshot # staticNow
  /\ staticNow' = snapshot /\ staticBefore' = staticNow
  /\ UNCHANGED <<pvars, mvars, requests, life>>

-----------------------------------------------------------------------------
(* The server's life.                                                      *)

RestOfMetrics == <<enabled, refresh, mcache, clock, refreshes>>

Start ==
  /\ serving = "built" /\ serving' = "serving"
  /\ UNCHANGED <<pvars, mvars, requests, statics, closer, app, stopping, drained>>

\* Start goes on while the server already serves, or has failed to.
BackgroundStarts ==
  /\ serving # "built" /\ loop = "off" /\ StartMetrics
  /\ UNCHANGED <<pvars, RestOfMetrics, requests, statics, life>>

StopRun ==
  /\ serving # "built" /\ ~stopping /\ stopping' = TRUE
  /\ UNCHANGED <<pvars, mvars, requests, statics, serving, closer, app, drained>>

\* Serve returns as soon as a shutdown begins, or because the listener fails.
ServeReturns ==
  /\ serving = "serving" /\ serving' = "returned"
  /\ UNCHANGED <<pvars, mvars, requests, statics, closer, app, stopping, drained>>

\* The goroutine that waits for the context is the last that Start creates.
BeginShutdown ==
  /\ stopping /\ closer = "none" /\ serving # "done" /\ (enabled => loop # "off")
  /\ closer' = "draining"
  /\ UNCHANGED <<pvars, mvars, requests, statics, serving, app, stopping, drained>>

\* The requests under way are answered, or the shutdown's deadline passes.
DrainEnds ==
  /\ closer = "draining" /\ closer' = "cleaning"
  /\ \/ drained' = TRUE /\ \A q \in Requests : requests[q].pc \in {"unsent", "answered"}
     \/ UNCHANGED drained
  /\ UNCHANGED <<pvars, mvars, requests, statics, serving, app, stopping>>

\* Application.Close, by whoever is first: the worker is closed, then the context of
\* the background work ends.
BeginCleaning ==
  /\ serving = "returned" \/ closer = "cleaning"
  /\ app = "open" /\ app' = "closing"
  /\ UNCHANGED <<pvars, mvars, requests, statics, serving, closer, stopping, drained>>

EndCleaning ==
  /\ app = "closing" /\ app' = "closed" /\ StopMetrics
  /\ UNCHANGED <<pvars, RestOfMetrics, requests, statics, serving, closer, stopping, drained>>

CloseReturns ==
  /\ closer = "cleaning" /\ app = "closed" /\ closer' = "closed"
  /\ UNCHANGED <<pvars, mvars, requests, statics, serving, app, stopping, drained>>

\* Mutant of ServeDone: the goroutine that serves leaves cleaning up to Close.
ServeDone_Uncleaned ==
  /\ serving = "returned" /\ serving' = "done"
  /\ UNCHANGED <<pvars, mvars, requests, statics, closer, app, stopping, drained>>

ServeDone ==
  /\ serving = "returned" /\ app = "closed" /\ serving' = "done"
  /\ UNCHANGED <<pvars, mvars, requests, statics, closer, app, stopping, drained>>

LifeStep ==
  \/ BeginShutdown \/ DrainEnds \/ BeginCleaning \/ EndCleaning \/ CloseReturns \/ ServeDone
  \/ closer # "none" /\ ServeReturns

-----------------------------------------------------------------------------

PoolWorks == PoolStep /\ UNCHANGED <<mvars, requests, statics, life>>
Handles(q) == FindStatic(q) \/ Prepare(q) \/ Call(q) \/ Respond(q)
MetricsWork ==
  /\ serving # "built" /\ UNCHANGED <<pvars, requests, statics, life>>
  /\ MetricsStep \/ Tick

ServiceNext ==
  \/ PoolWorks \/ MetricsWork
  \/ \E q \in Requests : \/ Handles(q) \/ CallFails(q)
                         \/ \E ask \in Asks : Send(q, ask)
  \/ \E snapshot \in Statics : PutStatic(snapshot)
  \/ Start \/ BackgroundStarts \/ StopRun \/ ServeReturns
  \/ BeginShutdown \/ DrainEnds \/ BeginCleaning \/ EndCleaning \/ CloseReturns \/ ServeDone

\* After the context's end a query ends soon, and with it the refresh.
Elsewhere == <<pvars, requests, statics, life>>
RefreshEnds ==
  /\ cancelled /\ UNCHANGED Elsewhere
  /\ QueryFails \/ EndRefresh \/ (refreshes = 0 /\ BeginRefresh)
LoopStops == LoopEnds /\ UNCHANGED Elsewhere

\* Goroutines run, the worker calculates, a closed worker ends every call.  Between two
\* refreshes the loop may take another tick, but select does not for ever.
ServiceFairness ==
  /\ WF_pvars(PoolWorks)
  /\ \A q \in Requests : WF_(requests[q].pc)(Handles(q) \/ (WorkerClosed /\ CallFails(q)))
  /\ WF_life(LifeStep) /\ WF_loop(BackgroundStarts)
  /\ WF_mvars(RefreshEnds) /\ SF_mvars(LoopStops)

ServiceSpec == ServiceInit /\ [][ServiceNext]_svars /\ ServiceFairness

-----------------------------------------------------------------------------
(* Properties.                                                             *)

Phases == {"unsent", "accepted", "found", "waiting", "calculating", "answered"}
ServiceTypeOK ==
  /\ MetricsTypeOK
  /\ \A q \in Requests :
       /\ requests[q].pc \in Phases
       /\ (requests[q].pc = "unsent") = (requests[q].ask = None)
       /\ requests[q].pc # "unsent" => requests[q].ask \in Asks
       /\ (requests[q].pc = "answered") = (requests[q].reply # NoReply)
       /\ requests[q].pc = "calculating" => requests[q].payload = job
  /\ {staticNow, staticBefore} \subseteq Statics \cup {None} /\ puts \in 0..MaxPuts
  /\ serving \in {"built", "serving", "returned", "done"}
  /\ closer \in {"none", "draining", "cleaning", "closed"}
  /\ app \in {"open", "closing", "closed"} /\ stopping \in BOOLEAN /\ drained \in BOOLEAN

Reply(q) == requests[q].reply
Responded == {q \in Requests : Reply(q).kind = "response"}

\* An answer names the snapshots it was calculated from, though both caches may have
\* moved on meanwhile (allocate keeps copies of what it resolved).
AnswerNamesItsSnapshots ==
  \A q \in Responded :
    /\ Reply(q).static = requests[q].ask.static
    /\ requests[q].payload = JobOf(requests[q].ask, BoundMetrics(requests[q].ask, Reply(q).metric))
    /\ \A pool \in Reply(q).result.pools : pool.nodes \subseteq Reply(q).static.nodes

\* An answer that is not marked degraded used metrics queried recently, although a
\* failed refresh keeps the old snapshot (resolve).
FreshOrDegraded ==
  \A q \in Responded :
    ~Reply(q).degraded =>
      /\ Reply(q).metric # None
      /\ requests[q].at - Reply(q).metric.began <= StaleAfter + RefreshTime

\* A Node is offered only if the scheduler state says it can take Pods: what the PRC
\* did not see is in use (normalizeUsageStates).
OnlyReportedNodesOffered ==
  \A q \in Responded :
    LET ask == requests[q].ask IN
      ask.form = "schedulerState" =>
        \A pool \in Reply(q).result.pools : \A n \in pool.nodes :
          n \in DOMAIN ask.usage /\ ask.usage[n].ready /\ ~ask.usage[n].unschedulable

\* Once the server says it is done no calculation begins, although handlers that
\* were accepted before the shutdown may still be running (Server.Start, Close).
NoCalculationAfterDone ==
  [][serving = "done" => (job' = job \/ job' = NoJob)]_svars

\* Every request accepted is answered, though calls fail, the worker is closed under
\* it or the listener fails.
EveryRequestAnswered ==
  \A q \in Requests : requests[q].pc = "accepted" ~> requests[q].pc = "answered"

\* When the context of Run ends the server is done in the end and for good: it
\* calculates nothing, no refresh is under way and the refresh loop has ended, though
\* Close only ends the loop's context and nobody waits for it, the first refresh may
\* begin after that, and requests still come in on open connections (Server.Start,
\* Application.Close, metricsCache.run).
ShutdownCompletes ==
  stopping ~> [](serving = "done" /\ job = NoJob /\ refresh = None /\ (enabled => loop = "ended"))
=============================================================================
