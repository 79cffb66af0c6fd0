----------------------- MODULE AlgorithmServiceProofs -----------------------
(***************************************************************************)
(* Proofs about AlgorithmService, for any requests, snapshots, topology,   *)
(* metrics and bounds: types, what an answer was calculated from, how old  *)
(* its metrics are, which Nodes it offers, and that nothing is calculated  *)
(* once the server is done; that every request accepted becomes a job as   *)
(* PoolSelection takes them, that the worker behind the service runs that  *)
(* pipeline, and so that every answer is what its demand asked for.        *)
(***************************************************************************)
EXTENDS AlgorithmService, MetricsCacheProofs, PoolSelectionProofs

LEMMA ServiceBounds ==
  /\ MaxPuts \in Nat /\ None \notin Statics /\ None \notin Asks
  /\ \A ask \in Asks : ask.static \in Statics
BY ServiceAssumption

-----------------------------------------------------------------------------
(* A request's record.                                                     *)

IsRequest(r) ==
  r = [pc |-> r.pc, ask |-> r.ask, metric |-> r.metric, degraded |-> r.degraded, at |-> r.at,
       payload |-> r.payload, reply |-> r.reply]

\* What was resolved for it, and what became of it.
Prepared(r) ==
  /\ r.payload = JobOf(r.ask, BoundMetrics(r.ask, r.metric))
  /\ ~r.degraded => r.metric # None /\ r.at - r.metric.began <= StaleAfter + RefreshTime

\* What is answered: the snapshots resolved, and pools of Nodes free for the request.
Faithful(r) ==
  /\ r.reply.static = r.ask.static /\ r.reply.metric = r.metric /\ r.reply.degraded = r.degraded
  /\ \A pool \in r.reply.result.pools : pool.nodes \subseteq Placed(r.ask.static) \ InUse(r.ask)

RequestOK(r) ==
  /\ IsRequest(r) /\ r.pc \in Phases
  /\ (r.pc = "unsent") = (r.ask = None)
  /\ r.pc # "unsent" => r.ask \in Asks
  /\ (r.pc = "answered") = (r.reply # NoReply)
  /\ r.pc \in {"waiting", "calculating"} \/ r.reply.kind = "response" => Prepared(r)
  /\ r.reply.kind = "response" => Faithful(r)

RequestsOK ==
  /\ requests = [q \in Requests |-> requests[q]]
  /\ \A q \in Requests : RequestOK(requests[q])

\* The worker calculates for one request at a time.
Gate ==
  /\ \A q \in Requests : requests[q].pc = "calculating" => requests[q].payload = job /\ pc # "idle"
  /\ \A q, p \in Requests : requests[q].pc = "calculating" /\ requests[p].pc = "calculating" => q = p

LifeOK ==
  /\ {staticNow, staticBefore} \subseteq Statics \cup {None} /\ puts \in 0..MaxPuts
  /\ serving \in {"built", "serving", "returned", "done"}
  /\ closer \in {"none", "draining", "cleaning", "closed"}
  /\ app \in {"open", "closing", "closed"} /\ stopping \in BOOLEAN /\ drained \in BOOLEAN
  /\ serving = "done" => app = "closed"

ServiceInv == MetricsInv /\ PoolFlow /\ RequestsOK /\ Gate /\ LifeOK

LEMMA PlacedNodes == ASSUME NEW s \in Statics PROVE Placed(s) \subseteq s.nodes
BY DEF Placed, Places

LEMMA JobOfAsk ==
  \A ask, metrics : /\ JobOf(ask, metrics).nodes = Placed(ask.static)
                    /\ JobOf(ask, metrics).busy = InUse(ask)
BY DEF JobOf

LEMMA ReplyKinds ==
  /\ NoReply.kind = "none" /\ \A code : Error(code).kind = "error"
  /\ \A s, m, d, x : /\ Response(s, m, d, x).kind = "response" /\ Response(s, m, d, x).static = s
                     /\ Response(s, m, d, x).metric = m /\ Response(s, m, d, x).degraded = d
                     /\ Response(s, m, d, x).result = x
BY DEF NoReply, Error, Response

\* One request changes.
LEMMA OneRequest ==
  ASSUME RequestsOK, NEW q \in Requests, requests' = [requests EXCEPT ![q] = requests'[q]],
         RequestOK(requests'[q])
  PROVE  RequestsOK'
<1>1. requests' = [p \in Requests |-> requests'[p]]
  BY DEF RequestsOK
<1>2. ASSUME NEW p \in Requests PROVE RequestOK(requests'[p])
  <2>1. CASE p = q
    BY <2>1
  <2>2. CASE p # q
    <3>1. requests'[p] = requests[p]
      BY <2>2 DEF RequestsOK
    <3> QED
      BY <3>1 DEF RequestsOK
  <2> QED
    BY <2>1, <2>2
<1> QED
  BY <1>1, <1>2 DEF RequestsOK

LEMMA Moved ==
  ASSUME RequestsOK, NEW q \in Requests, NEW x, requests' = [requests EXCEPT ![q].pc = x]
  PROVE  /\ requests' = [requests EXCEPT ![q] = requests'[q]]
         /\ requests'[q] = [pc |-> x, ask |-> requests[q].ask, metric |-> requests[q].metric,
                            degraded |-> requests[q].degraded, at |-> requests[q].at,
                            payload |-> requests[q].payload, reply |-> requests[q].reply]
<1>1. requests'[q] = [requests[q] EXCEPT !.pc = x] /\ requests' = [requests EXCEPT ![q] = requests'[q]]
  BY DEF RequestsOK
<1>2. IsRequest(requests[q])
  BY DEF RequestsOK, RequestOK
<1> QED
  BY <1>1, <1>2 DEF IsRequest

LEMMA AnsweredWith ==
  ASSUME RequestsOK, NEW q \in Requests, NEW y, Answered(q, y)
  PROVE  /\ requests' = [requests EXCEPT ![q] = requests'[q]]
         /\ requests'[q] = [pc |-> "answered", ask |-> requests[q].ask, metric |-> requests[q].metric,
                            degraded |-> requests[q].degraded, at |-> requests[q].at,
                            payload |-> requests[q].payload, reply |-> y]
<1>1. /\ requests'[q] = [requests[q] EXCEPT !.pc = "answered", !.reply = y]
      /\ requests' = [requests EXCEPT ![q] = requests'[q]]
  BY DEF RequestsOK, Answered
<1>2. IsRequest(requests[q])
  BY DEF RequestsOK, RequestOK
<1> QED
  BY <1>1, <1>2 DEF IsRequest

\* An error may be answered to any request that was sent.
LEMMA ErrorAnswered ==
  ASSUME RequestsOK, NEW q \in Requests, NEW code, Answered(q, Error(code)),
         requests[q].pc # "unsent"
  PROVE  RequestsOK'
<1>1. /\ requests' = [requests EXCEPT ![q] = requests'[q]]
      /\ requests'[q] = [pc |-> "answered", ask |-> requests[q].ask, metric |-> requests[q].metric,
                         degraded |-> requests[q].degraded, at |-> requests[q].at,
                         payload |-> requests[q].payload, reply |-> Error(code)]
  BY AnsweredWith
<1>2. RequestOK(requests[q])
  BY DEF RequestsOK
<1>3. RequestOK(requests'[q])
  BY <1>1, <1>2, ReplyKinds, ServiceBounds DEF RequestOK, IsRequest, Phases
<1> QED
  BY <1>1, <1>3, OneRequest

LEMMA RequestsUnchanged == RequestsOK /\ UNCHANGED requests => RequestsOK'
BY DEF RequestsOK

\* The gate does not care for requests elsewhere.
LEMMA GateElsewhere ==
  ASSUME RequestsOK, Gate, NEW q \in Requests,
         requests' = [requests EXCEPT ![q] = requests'[q]], requests'[q].pc # "calculating",
         requests[q].pc # "calculating" /\ UNCHANGED <<job, pc>>
  PROVE  Gate'
<1>1. \A p \in Requests : p # q => requests'[p] = requests[p]
  BY DEF RequestsOK
<1> QED
  BY <1>1 DEF Gate

\* The request that held the gate leaves it.
LEMMA GateLeft ==
  ASSUME RequestsOK, Gate, NEW q \in Requests, requests[q].pc = "calculating",
         requests' = [requests EXCEPT ![q] = requests'[q]], requests'[q].pc # "calculating"
  PROVE  Gate'
<1>1. \A p \in Requests : p # q => requests'[p] = requests[p]
  BY DEF RequestsOK
<1>2. \A p \in Requests : requests'[p].pc # "calculating"
  BY <1>1 DEF Gate
<1> QED
  BY <1>2 DEF Gate

-----------------------------------------------------------------------------
(* Initial states, and the steps of requests.                              *)

LEMMA InitServiceInv == ServiceInit => ServiceInv
<1> SUFFICES ASSUME ServiceInit PROVE ServiceInv
  OBVIOUS
<1> USE DEF ServiceInit
<1>1. MetricsInv /\ PoolFlow
  BY MetricsInitInv, FlowInit
<1>2. \A q \in Requests : requests[q] = Unsent
  OBVIOUS
<1>3. RequestsOK
  <2>1. RequestOK(Unsent)
    BY ReplyKinds DEF RequestOK, IsRequest, Unsent, Phases
  <2> QED
    BY <1>2, <2>1 DEF RequestsOK
<1>4. Gate
  BY <1>2 DEF Gate, Unsent
<1>5. LifeOK
  <2>1. puts \in 0..MaxPuts
    BY ServiceBounds
  <2>2. staticNow = None /\ staticBefore = None /\ stopping = FALSE /\ drained = FALSE
    OBVIOUS
  <2>3. serving = "built" /\ closer = "none" /\ app = "open"
    OBVIOUS
  <2> QED
    BY <2>1, <2>2, <2>3 DEF LifeOK
<1> QED
  BY <1>1, <1>3, <1>4, <1>5 DEF ServiceInv

LEMMA WorkerUnchanged == UNCHANGED pvars => UNCHANGED <<job, answer, pc>>
BY DEF pvars, work

LEMMA LifeUnchanged == LifeOK /\ UNCHANGED <<statics, life>> => LifeOK'
BY DEF LifeOK, statics, life

LEMMA SendInv ==
  ASSUME ServiceInv, NEW q \in Requests, NEW ask \in Asks, Send(q, ask)
  PROVE  ServiceInv'
<1> USE DEF ServiceInv
<1>1. requests[q].pc = "unsent" /\ UNCHANGED <<pvars, mvars, statics, life>>
  BY DEF Send
<1>2. /\ requests' = [requests EXCEPT ![q] = requests'[q]]
      /\ requests'[q] = [requests[q] EXCEPT !.pc = "accepted", !.ask = ask]
  BY DEF Send, RequestsOK
<1>3. RequestOK(requests[q]) /\ IsRequest(requests[q])
  BY DEF RequestsOK, RequestOK
<1>4. requests'[q] = [pc |-> "accepted", ask |-> ask, metric |-> requests[q].metric,
                      degraded |-> requests[q].degraded, at |-> requests[q].at,
                      payload |-> requests[q].payload, reply |-> requests[q].reply]
  BY <1>2, <1>3 DEF IsRequest
<1>5. requests[q].reply = NoReply
  BY <1>1, <1>3 DEF RequestOK
<1>6. RequestOK(requests'[q])
  <2>1. IsRequest(requests'[q]) /\ requests'[q].pc = "accepted" /\ requests'[q].ask = ask
    BY <1>4 DEF IsRequest
  <2>2. requests'[q].reply = NoReply /\ NoReply.kind = "none"
    BY <1>4, <1>5, ReplyKinds
  <2>3. ask # None
    BY ServiceBounds
  <2> QED
    BY <2>1, <2>2, <2>3 DEF RequestOK, Phases
<1>7. RequestsOK'
  BY <1>2, <1>6, OneRequest
<1>8. requests'[q].pc # "calculating" /\ UNCHANGED <<job, pc>>
  BY <1>1, <1>4, WorkerUnchanged
<1>9. Gate'
  BY <1>1, <1>2, <1>8, GateElsewhere
<1> QED
  BY <1>1, <1>7, <1>9, MetricsUnchangedInv, FlowUnchanged, LifeUnchanged

\* A request is answered with an error before or after it held the gate.
LEMMA RefusedInv ==
  ASSUME ServiceInv, NEW q \in Requests, NEW code, Answered(q, Error(code)),
         requests[q].pc \notin {"unsent", "calculating"}, UNCHANGED <<pvars, mvars, statics, life>>
  PROVE  ServiceInv'
<1> USE DEF ServiceInv
<1>1. RequestsOK'
  BY ErrorAnswered
<1>2. /\ requests' = [requests EXCEPT ![q] = requests'[q]]
      /\ requests'[q] = [pc |-> "answered", ask |-> requests[q].ask, metric |-> requests[q].metric,
                         degraded |-> requests[q].degraded, at |-> requests[q].at,
                         payload |-> requests[q].payload, reply |-> Error(code)]
  BY AnsweredWith
<1>3. Gate'
  BY <1>2, GateElsewhere, WorkerUnchanged
<1> QED
  BY <1>1, <1>3, MetricsUnchangedInv, FlowUnchanged, LifeUnchanged

LEMMA FindStaticInv ==
  ASSUME ServiceInv, NEW q \in Requests, FindStatic(q)
  PROVE  ServiceInv'
<1> USE DEF ServiceInv
<1>1. requests[q].pc = "accepted" /\ UNCHANGED <<pvars, mvars, statics, life>>
  BY DEF FindStatic
<1>2. CASE Answered(q, Error("STATIC_SNAPSHOT_NOT_FOUND"))
  BY <1>1, <1>2, RefusedInv
<1>3. CASE requests' = [requests EXCEPT ![q].pc = "found"]
  <2>1. /\ requests' = [requests EXCEPT ![q] = requests'[q]]
        /\ requests'[q] = [pc |-> "found", ask |-> requests[q].ask, metric |-> requests[q].metric,
                           degraded |-> requests[q].degraded, at |-> requests[q].at,
                           payload |-> requests[q].payload, reply |-> requests[q].reply]
    BY <1>3, Moved
  <2>2. RequestOK(requests[q])
    BY DEF RequestsOK
  <2>3. requests[q].reply = NoReply
    BY <1>1, <2>2 DEF RequestOK
  <2>4. RequestOK(requests'[q])
    BY <1>1, <2>1, <2>2, <2>3, ReplyKinds DEF RequestOK, IsRequest, Phases
  <2>5. RequestsOK'
    BY <2>1, <2>4, OneRequest
  <2>6. Gate'
    BY <1>1, <2>1, GateElsewhere DEF pvars, work
  <2> QED
    BY <1>1, <2>5, <2>6, MetricsUnchangedInv, FlowUnchanged, LifeUnchanged
<1> QED
  BY <1>2, <1>3 DEF FindStatic

\* What is resolved and not degraded is recent: a stale snapshot is not passed off.
LEMMA ResolvedRecent ==
  ASSUME MetricsInv, ~Resolve.degraded
  PROVE  Resolve.snapshot # None /\ clock - Resolve.snapshot.began <= StaleAfter + RefreshTime
<1>1. enabled /\ current # None /\ Resolve.snapshot = current /\ ~Stale
  BY DEF Resolve
<1>2. current.captured \in 0..clock /\ current.began \in 0..current.captured /\ clock \in 0..MaxClock
  BY <1>1 DEF MetricsInv, MetricsTypeOK, IsSnapshot
<1>3. current.captured <= current.began + RefreshTime
  BY <1>1 DEF MetricsInv, CapturedInTime
<1>4. clock - current.captured <= StaleAfter
  BY <1>1, <1>2, MetricsBounds DEF Stale
<1> QED
  BY <1>1, <1>2, <1>3, <1>4, MetricsBounds

LEMMA PrepareInv ==
  ASSUME ServiceInv, NEW q \in Requests, Prepare(q)
  PROVE  ServiceInv'
<1> USE DEF ServiceInv
<1> DEFINE ask == requests[q].ask
           metric == Resolve.snapshot
<1>1. requests[q].pc = "found" /\ UNCHANGED <<pvars, mvars, statics, life>>
  BY DEF Prepare
<1>2. CASE Answered(q, Error(Problem(ask)))
  BY <1>1, <1>2, RefusedInv
<1>3. CASE ~Answered(q, Error(Problem(ask)))
  <2>1. PICK degraded : 
          /\ degraded = (\/ Resolve.degraded
                         \/ metric # None /\ ~BindsAll(metric.values, Addresses(ask.static)))
          /\ requests' = [requests EXCEPT ![q].pc = "waiting", ![q].metric = metric, ![q].at = clock,
                                          ![q].degraded = degraded,
                                          ![q].payload = JobOf(ask, BoundMetrics(ask, metric))]
    BY <1>3 DEF Prepare
  <2> DEFINE payload == JobOf(ask, BoundMetrics(ask, metric))
  <2>2. RequestOK(requests[q])
    BY DEF RequestsOK
  <2> HIDE DEF metric, payload
  <2>3. /\ requests' = [requests EXCEPT ![q] = requests'[q]]
        /\ requests'[q] = [requests[q] EXCEPT !.pc = "waiting", !.metric = metric, !.at = clock,
                                              !.degraded = degraded, !.payload = payload]
    BY <2>1 DEF RequestsOK, payload
  <2>4. requests'[q] = [pc |-> "waiting", ask |-> ask, metric |-> metric, degraded |-> degraded,
                        at |-> clock, payload |-> payload, reply |-> requests[q].reply]
    BY <2>2, <2>3 DEF RequestOK, IsRequest
  <2>5. requests[q].reply = NoReply
    BY <1>1, <2>2 DEF RequestOK
  <2>6. Prepared(requests'[q])
    <3>1. ~degraded => metric # None /\ clock - metric.began <= StaleAfter + RefreshTime
      BY <2>1, ResolvedRecent DEF metric
    <3> QED
      BY <2>4, <3>1 DEF Prepared, payload
  <2>7. RequestOK(requests'[q])
    BY <1>1, <2>2, <2>4, <2>5, <2>6, ReplyKinds DEF RequestOK, IsRequest, Phases
  <2>8. RequestsOK'
    BY <2>3, <2>7, OneRequest
  <2>9. Gate'
    BY <1>1, <2>3, <2>4, GateElsewhere DEF pvars, work
  <2> QED
    BY <1>1, <2>8, <2>9, MetricsUnchangedInv, FlowUnchanged, LifeUnchanged
<1> QED
  BY <1>2, <1>3

LEMMA CallInv ==
  ASSUME ServiceInv, NEW q \in Requests, Call(q)
  PROVE  ServiceInv'
<1> USE DEF ServiceInv
<1>1. /\ requests[q].pc = "waiting" /\ UNCHANGED <<mvars, statics, life>>
      /\ Receive(requests[q].payload) /\ requests' = [requests EXCEPT ![q].pc = "calculating"]
  BY DEF Call
<1>2. pc = "idle" /\ pc' = "filter" /\ job' = requests[q].payload
  BY <1>1 DEF Receive
<1>3. /\ requests' = [requests EXCEPT ![q] = requests'[q]]
      /\ requests'[q] = [pc |-> "calculating", ask |-> requests[q].ask, metric |-> requests[q].metric,
                         degraded |-> requests[q].degraded, at |-> requests[q].at,
                         payload |-> requests[q].payload, reply |-> requests[q].reply]
  BY <1>1, Moved
<1>4. RequestOK(requests[q])
  BY DEF RequestsOK
<1>5. requests[q].reply = NoReply
  BY <1>1, <1>4 DEF RequestOK
<1>6. Prepared(requests'[q])
  BY <1>1, <1>3, <1>4 DEF RequestOK, Prepared
<1>7. RequestOK(requests'[q])
  BY <1>1, <1>3, <1>4, <1>5, <1>6, ReplyKinds DEF RequestOK, IsRequest, Phases
<1>8. RequestsOK'
  BY <1>3, <1>7, OneRequest
<1>9. \A p \in Requests : p # q => requests'[p] = requests[p] /\ requests[p].pc # "calculating"
  BY <1>2, <1>3 DEF RequestsOK, Gate
<1>10. requests'[q].payload = job' /\ pc' # "idle"
  BY <1>2, <1>3
<1>11. Gate'
  BY <1>9, <1>10 DEF Gate
<1>12. PoolFlow'
  BY <1>1, FlowReceive
<1> QED
  BY <1>1, <1>8, <1>11, <1>12, MetricsUnchangedInv, LifeUnchanged

LEMMA CallFailsInv ==
  ASSUME ServiceInv, NEW q \in Requests, CallFails(q)
  PROVE  ServiceInv'
<1> USE DEF ServiceInv
<1>1. UNCHANGED <<mvars, statics, life>> /\ Answered(q, Error("ALGORITHM_WORKER_UNAVAILABLE"))
  BY DEF CallFails
<1>2. CASE requests[q].pc = "waiting" /\ UNCHANGED pvars
  BY <1>1, <1>2, RefusedInv
<1>3. CASE requests[q].pc = "calculating" /\ Release
  <2>1. RequestsOK'
    BY <1>1, <1>3, ErrorAnswered
  <2>2. /\ requests' = [requests EXCEPT ![q] = requests'[q]]
        /\ requests'[q] = [pc |-> "answered", ask |-> requests[q].ask, metric |-> requests[q].metric,
                           degraded |-> requests[q].degraded, at |-> requests[q].at,
                           payload |-> requests[q].payload,
                           reply |-> Error("ALGORITHM_WORKER_UNAVAILABLE")]
    BY <1>1, AnsweredWith
  <2>3. Gate'
    BY <1>3, <2>2, GateLeft
  <2>4. PoolFlow'
    BY <1>3, FlowRelease
  <2> QED
    BY <1>1, <2>1, <2>3, <2>4, MetricsUnchangedInv, LifeUnchanged
<1> QED
  BY <1>2, <1>3 DEF CallFails

\* Pools are made of Nodes of the job that are not in use.
LEMMA PoolsOfJob ==
  ASSUME PoolFlow, pc = "done", NEW pool \in answer.pools
  PROVE  pool.nodes \subseteq job.nodes \ job.busy
<1>1. pool.nodes \subseteq eligible /\ eligible \subseteq Usable(job)
  BY DEF PoolFlow
<1> QED
  BY <1>1 DEF Usable

LEMMA RespondInv ==
  ASSUME ServiceInv, NEW q \in Requests, Respond(q)
  PROVE  ServiceInv'
<1> USE DEF ServiceInv
<1>1. /\ requests[q].pc = "calculating" /\ pc = "done" /\ Release
      /\ Answered(q, ReplyTo(q)) /\ UNCHANGED <<mvars, statics, life>>
  BY DEF Respond
<1>2. /\ requests' = [requests EXCEPT ![q] = requests'[q]]
      /\ requests'[q] = [pc |-> "answered", ask |-> requests[q].ask, metric |-> requests[q].metric,
                         degraded |-> requests[q].degraded, at |-> requests[q].at,
                         payload |-> requests[q].payload, reply |-> ReplyTo(q)]
  BY <1>1, AnsweredWith
<1>3. RequestOK(requests[q])
  BY DEF RequestsOK
<1>4. /\ ReplyTo(q).kind = "response" /\ ReplyTo(q).static = requests[q].ask.static
      /\ ReplyTo(q).metric = requests[q].metric /\ ReplyTo(q).degraded = requests[q].degraded
      /\ ReplyTo(q).result = answer
  BY ReplyKinds DEF ReplyTo
<1>5. Prepared(requests[q])
  BY <1>1, <1>3 DEF RequestOK
<1>6. /\ requests[q].payload = job
      /\ job = JobOf(requests[q].ask, BoundMetrics(requests[q].ask, requests[q].metric))
  BY <1>1, <1>5 DEF Gate, Prepared
<1>7. \A pool \in answer.pools :
        pool.nodes \subseteq Placed(requests[q].ask.static) \ InUse(requests[q].ask)
  BY <1>1, <1>6, PoolsOfJob, JobOfAsk
<1>8. Prepared(requests'[q])
  BY <1>2, <1>5 DEF Prepared
<1>9. Faithful(requests'[q])
  BY <1>2, <1>4, <1>7 DEF Faithful
<1>10. RequestOK(requests'[q])
  <2>1. /\ IsRequest(requests'[q]) /\ requests'[q].pc = "answered"
        /\ requests'[q].ask = requests[q].ask /\ requests'[q].reply = ReplyTo(q)
    BY <1>2 DEF IsRequest
  <2>2. requests[q].ask \in Asks /\ requests[q].ask # None
    BY <1>1, <1>3 DEF RequestOK
  <2>3. ReplyTo(q) # NoReply
    BY <1>4, ReplyKinds
  <2> QED
    BY <1>8, <1>9, <2>1, <2>2, <2>3 DEF RequestOK, Phases
<1>11. RequestsOK'
  BY <1>2, <1>10, OneRequest
<1>12. Gate'
  BY <1>1, <1>2, GateLeft
<1>13. PoolFlow'
  BY <1>1, FlowRelease
<1> QED
  BY <1>1, <1>11, <1>12, <1>13, MetricsUnchangedInv, LifeUnchanged

-----------------------------------------------------------------------------
(* The other steps.                                                        *)

LEMMA PoolWorksInv == ServiceInv /\ PoolWorks => ServiceInv'
<1> SUFFICES ASSUME ServiceInv, PoolWorks PROVE ServiceInv'
  OBVIOUS
<1> USE DEF ServiceInv
<1>1. PoolStep /\ UNCHANGED <<mvars, requests, statics, life>>
  BY DEF PoolWorks
<1>2. UNCHANGED job /\ pc' # "idle"
  BY <1>1 DEF PoolStep, Filter, Group, Widen, Open, Consider, Close, Unsatisfied, Finish
<1>3. Gate'
  BY <1>1, <1>2 DEF Gate
<1> QED
  BY <1>1, <1>3, FlowStep, MetricsUnchangedInv, RequestsUnchanged, LifeUnchanged

LEMMA MetricsWorkInv == ServiceInv /\ MetricsWork => ServiceInv'
<1> SUFFICES ASSUME ServiceInv, MetricsWork PROVE ServiceInv'
  OBVIOUS
<1> USE DEF ServiceInv
<1>1. (MetricsStep \/ Tick) /\ UNCHANGED <<pvars, requests, statics, life>>
  BY DEF MetricsWork
<1>2. MetricsInv'
  BY <1>1, MetricsNextInv DEF MetricsNext
<1>3. Gate'
  BY <1>1, WorkerUnchanged DEF Gate
<1> QED
  BY <1>1, <1>2, <1>3, FlowUnchanged, RequestsUnchanged, LifeUnchanged

LEMMA GateUnchanged == Gate /\ UNCHANGED <<pvars, requests>> => Gate'
BY WorkerUnchanged DEF Gate

LEMMA PutStaticInv ==
  ASSUME ServiceInv, NEW snapshot \in Statics, PutStatic(snapshot)
  PROVE  ServiceInv'
<1> USE DEF ServiceInv
<1>1. UNCHANGED <<pvars, mvars, requests, life>>
  BY DEF PutStatic
<1>2. puts' \in 0..MaxPuts
  BY ServiceBounds DEF PutStatic, LifeOK
<1>3. {staticNow', staticBefore'} \subseteq Statics \cup {None}
  BY DEF PutStatic, LifeOK
<1>4. LifeOK'
  BY <1>1, <1>2, <1>3 DEF LifeOK, life
<1> QED
  BY <1>1, <1>4, GateUnchanged, MetricsUnchangedInv, FlowUnchanged, RequestsUnchanged

\* The steps of the server's life, which only start and stop the cache of metrics.
LEMMA LifeInv ==
  ASSUME ServiceInv,
         \/ Start \/ BackgroundStarts \/ StopRun \/ ServeReturns \/ BeginShutdown \/ DrainEnds
         \/ BeginCleaning \/ EndCleaning \/ CloseReturns \/ ServeDone
  PROVE  ServiceInv'
<1> USE DEF ServiceInv
<1>1. UNCHANGED <<pvars, requests, statics>>
  BY DEF Start, BackgroundStarts, StopRun, ServeReturns, BeginShutdown, DrainEnds, BeginCleaning,
         EndCleaning, CloseReturns, ServeDone, life
<1>2. MetricsInv'
  <2>1. CASE BackgroundStarts
    BY <2>1, LoopInv DEF BackgroundStarts, RestOfMetrics
  <2>2. CASE EndCleaning
    BY <2>2, LoopInv DEF EndCleaning, RestOfMetrics
  <2>3. CASE ~BackgroundStarts /\ ~EndCleaning
    <3>1. UNCHANGED mvars
      BY <2>3 DEF Start, StopRun, ServeReturns, BeginShutdown, DrainEnds, BeginCleaning,
                  CloseReturns, ServeDone, life
    <3> QED
      BY <3>1, MetricsUnchangedInv
  <2> QED
    BY <2>1, <2>2, <2>3
<1>3. /\ serving' \in {"built", "serving", "returned", "done"}
      /\ closer' \in {"none", "draining", "cleaning", "closed"}
  BY DEF LifeOK, Start, BackgroundStarts, StopRun, ServeReturns, BeginShutdown, DrainEnds,
         BeginCleaning, EndCleaning, CloseReturns, ServeDone, life
<1>4. app' \in {"open", "closing", "closed"} /\ (app = "closed" => app' = "closed")
  BY DEF LifeOK, Start, BackgroundStarts, StopRun, ServeReturns, BeginShutdown, DrainEnds,
         BeginCleaning, EndCleaning, CloseReturns, ServeDone, life
<1>5. stopping' \in BOOLEAN
  <2>1. stopping' = stopping \/ stopping' = TRUE
    BY DEF Start, BackgroundStarts, StopRun, ServeReturns, BeginShutdown, DrainEnds,
           BeginCleaning, EndCleaning, CloseReturns, ServeDone, life
  <2> QED
    BY <2>1, Zenon DEF LifeOK
<1>6. drained' \in BOOLEAN
  <2>1. drained' = drained \/ drained' = TRUE
    BY DEF Start, BackgroundStarts, StopRun, ServeReturns, BeginShutdown, DrainEnds, BeginCleaning,
           EndCleaning, CloseReturns, ServeDone, life
  <2> QED
    BY <2>1, Zenon DEF LifeOK
<1>7. serving' = "done" => app' = "closed"
  <2>1. CASE ServeDone
    BY <2>1 DEF ServeDone
  <2>2. CASE ~ServeDone
    <3>1. serving' = "done" => serving = "done"
      BY <2>2 DEF Start, BackgroundStarts, StopRun, ServeReturns, BeginShutdown, DrainEnds,
                  BeginCleaning, EndCleaning, CloseReturns, life
    <3> QED
      BY <3>1, <1>4 DEF LifeOK
  <2> QED
    BY <2>1, <2>2
<1>8. {staticNow', staticBefore'} \subseteq Statics \cup {None} /\ puts' \in 0..MaxPuts
  BY <1>1 DEF LifeOK, statics
<1>9. LifeOK'
  BY <1>3, <1>4, <1>5, <1>6, <1>7, <1>8 DEF LifeOK
<1> QED
  BY <1>1, <1>2, <1>9, GateUnchanged, FlowUnchanged, RequestsUnchanged

LEMMA UnchangedServiceInv == ServiceInv /\ UNCHANGED svars => ServiceInv'
BY GateUnchanged, MetricsUnchangedInv, FlowUnchanged, RequestsUnchanged, LifeUnchanged
   DEF svars, ServiceInv

LEMMA ServiceNextInv == ServiceInv /\ [ServiceNext]_svars => ServiceInv'
<1> SUFFICES ASSUME ServiceInv, [ServiceNext]_svars PROVE ServiceInv'
  OBVIOUS
<1>1. CASE PoolWorks \/ MetricsWork
  BY <1>1, PoolWorksInv, MetricsWorkInv
<1>2. CASE \E q \in Requests : \/ Handles(q) \/ CallFails(q)
                               \/ \E ask \in Asks : Send(q, ask)
  BY <1>2, FindStaticInv, PrepareInv, CallInv, RespondInv, CallFailsInv, SendInv DEF Handles
<1>3. CASE \E snapshot \in Statics : PutStatic(snapshot)
  BY <1>3, PutStaticInv
<1>4. CASE \/ Start \/ BackgroundStarts \/ StopRun \/ ServeReturns \/ BeginShutdown \/ DrainEnds
           \/ BeginCleaning \/ EndCleaning \/ CloseReturns \/ ServeDone
  BY <1>4, LifeInv
<1>5. CASE UNCHANGED svars
  BY <1>5, UnchangedServiceInv
<1> QED
  BY <1>1, <1>2, <1>3, <1>4, <1>5 DEF ServiceNext

THEOREM ServiceInvariant == ServiceSpec => []ServiceInv
BY InitServiceInv, ServiceNextInv, PTL DEF ServiceSpec

-----------------------------------------------------------------------------
(* What it says.                                                           *)

\* Types: a request has an answer when it is answered and not before, and what the
\* worker calculates is what the request in its turn asked for.
THEOREM ServiceTypes == ServiceSpec => []ServiceTypeOK
<1>1. ServiceInv => ServiceTypeOK
  BY DEF ServiceInv, ServiceTypeOK, MetricsInv, RequestsOK, RequestOK, Gate, LifeOK
<1> QED
  BY <1>1, ServiceInvariant, PTL

\* The cache of metrics keeps its promise under requests, shutdowns and all
\* (MetricsCache.refresh).
THEOREM ServedComplete == ServiceSpec => []MetricsComplete
<1>1. ServiceInv => MetricsComplete
  BY DEF ServiceInv, MetricsInv
<1> QED
  BY <1>1, ServiceInvariant, PTL

\* However the caches move on meanwhile, an answer names the snapshots it was
\* calculated from, and its pools are of Nodes of that snapshot (allocate).
THEOREM AnswersNameSnapshots == ServiceSpec => []AnswerNamesItsSnapshots
<1>1. ServiceInv => AnswerNamesItsSnapshots
  <2> SUFFICES ASSUME ServiceInv, NEW q \in Responded PROVE
        /\ Reply(q).static = requests[q].ask.static
        /\ requests[q].payload = JobOf(requests[q].ask, BoundMetrics(requests[q].ask, Reply(q).metric))
        /\ \A pool \in Reply(q).result.pools : pool.nodes \subseteq Reply(q).static.nodes
    BY DEF AnswerNamesItsSnapshots
  <2>1. RequestOK(requests[q]) /\ requests[q].reply.kind = "response"
    BY DEF Responded, Reply, ServiceInv, RequestsOK
  <2>2. Prepared(requests[q]) /\ Faithful(requests[q])
    BY <2>1 DEF RequestOK
  <2>3. requests[q].ask \in Asks
    BY <2>1, ReplyKinds DEF RequestOK
  <2>4. Placed(requests[q].ask.static) \subseteq requests[q].ask.static.nodes
    BY <2>3, ServiceBounds, PlacedNodes
  <2> QED
    BY <2>2, <2>4 DEF Prepared, Faithful, Reply
<1> QED
  BY <1>1, ServiceInvariant, PTL

\* An answer that is not marked degraded used metrics no older than a snapshot may
\* grow and a refresh may take (resolve).
THEOREM FreshAnswers == ServiceSpec => []FreshOrDegraded
<1>1. ServiceInv => FreshOrDegraded
  <2> SUFFICES ASSUME ServiceInv, NEW q \in Responded, ~Reply(q).degraded
               PROVE  /\ Reply(q).metric # None
                      /\ requests[q].at - Reply(q).metric.began <= StaleAfter + RefreshTime
    BY DEF FreshOrDegraded
  <2>1. RequestOK(requests[q]) /\ requests[q].reply.kind = "response"
    BY DEF Responded, Reply, ServiceInv, RequestsOK
  <2> QED
    BY <2>1 DEF RequestOK, Prepared, Faithful, Reply
<1> QED
  BY <1>1, ServiceInvariant, PTL

\* Only Nodes the scheduler state reports, ready and schedulable, are offered
\* (normalizeUsageStates).
THEOREM OffersReported == ServiceSpec => []OnlyReportedNodesOffered
<1>1. ServiceInv => OnlyReportedNodesOffered
  <2> SUFFICES ASSUME ServiceInv, NEW q \in Responded, requests[q].ask.form = "schedulerState",
                      NEW pool \in Reply(q).result.pools, NEW n \in pool.nodes
               PROVE  /\ n \in DOMAIN requests[q].ask.usage
                      /\ requests[q].ask.usage[n].ready /\ ~requests[q].ask.usage[n].unschedulable
    BY DEF OnlyReportedNodesOffered
  <2>1. RequestOK(requests[q]) /\ requests[q].reply.kind = "response"
    BY DEF Responded, Reply, ServiceInv, RequestsOK
  <2>2. Faithful(requests[q]) /\ requests[q].ask \in Asks
    BY <2>1, ReplyKinds DEF RequestOK
  <2>3. n \in Placed(requests[q].ask.static) \ InUse(requests[q].ask)
    BY <2>2 DEF Faithful, Reply
  <2>4. n \in requests[q].ask.static.nodes /\ n \notin InUse(requests[q].ask)
    BY <2>2, <2>3, ServiceBounds, PlacedNodes
  <2> QED
    BY <2>4 DEF InUse
<1> QED
  BY <1>1, ServiceInvariant, PTL

\* Once the server says it is done no calculation begins, though handlers accepted
\* before the shutdown are still running (Server.Start, Application.Close).
THEOREM NothingAfterDone == ServiceSpec => NoCalculationAfterDone
<1>1. ServiceInv /\ [ServiceNext]_svars => [serving = "done" => (job' = job \/ job' = NoJob)]_svars
  <2> SUFFICES ASSUME ServiceInv, ServiceNext, serving = "done" PROVE job' = job \/ job' = NoJob
    BY DEF svars
  <2>1. WorkerClosed
    BY DEF ServiceInv, LifeOK, WorkerClosed
  <2>2. CASE PoolWorks
    BY <2>2 DEF PoolWorks, PoolStep, Filter, Group, Widen, Open, Consider, Close, Unsatisfied, Finish
  <2>3. ASSUME NEW q \in Requests, Respond(q) \/ CallFails(q) PROVE job' = job \/ job' = NoJob
    BY <2>3 DEF Respond, CallFails, Release, pvars
  <2>4. CASE UNCHANGED pvars
    BY <2>4 DEF pvars
  <2>5. ASSUME NEW q \in Requests, FindStatic(q) \/ Prepare(q) \/ \E ask \in Asks : Send(q, ask)
        PROVE  UNCHANGED pvars
    BY <2>5 DEF FindStatic, Prepare, Send
  <2>6. \A q \in Requests : ~Call(q)
    BY <2>1 DEF Call
  <2> QED
    BY <2>2, <2>3, <2>4, <2>5, <2>6
       DEF ServiceNext, Handles, MetricsWork, PutStatic, Start, BackgroundStarts, StopRun,
           ServeReturns, BeginShutdown, DrainEnds, BeginCleaning, EndCleaning, CloseReturns,
           ServeDone
<1> QED
  BY <1>1, ServiceInvariant, PTL DEF ServiceSpec, NoCalculationAfterDone
-----------------------------------------------------------------------------
(* The jobs that requests become are well formed.                          *)

LEMMA Inputs ==
  /\ \A ask \in Asks : IsAsk(ask)
  /\ \A s \in Statics : IsStatic(s)
  /\ Profile.resourceWeight \in Nat /\ Profile.metricWeight \in Nat
  /\ IsFiniteSet(DOMAIN Profile.metrics)
  /\ \A m \in DOMAIN Profile.metrics : IsRule(Profile.metrics[m])
BY InputAssumption

\* A fold that sums naturals over a finite set gives a natural.
LEMMA FoldNat ==
  ASSUME NEW S, IsFiniteSet(S), NEW f, \A x \in S : f[x] \in Nat
  PROVE  /\ \E g : Folded(g, f, S)
         /\ \A g : Folded(g, f, S) => g[S] \in Nat
<1>1. PICK h : Sums(h, f, S)
  BY SumsExist
<1>2. Folded(h, f, S)
  BY <1>1, SumsFolded
<1>3. \A g : Folded(g, f, S) => g[S] = h[S]
  BY <1>1, FoldedSums
<1>4. h[S] \in Nat
  BY <1>1 DEF Sums
<1> QED
  BY <1>2, <1>3, <1>4

LEMMA MeanNat ==
  ASSUME NEW sum \in Nat, NEW weight \in Nat, NEW default \in Nat
  PROVE  Mean(sum, weight, default) \in Nat
<1>1. CASE weight = 0
  BY <1>1 DEF Mean
<1>2. CASE weight # 0
  <2>1. sum \div weight \in Nat
    BY <1>2
  <2> QED
    BY <1>2, <2>1 DEF Mean
<1> QED
  BY <1>1, <1>2

LEMMA ResourceScoreNat ==
  ASSUME NEW capacity, Amounts(capacity), NEW available,
         \A r \in DOMAIN capacity : available[r] \in Nat
  PROVE  ResourceScore(capacity, available) \in Nat
<1> DEFINE S == {r \in {"cpu", "memory"} \cap DOMAIN capacity : capacity[r] > 0}
           E(r) == (100 * available[r]) \div capacity[r]
           f == [r \in S |-> E(r)]
           c(s) == CHOOSE x \in s : TRUE
           P(g) == g = [s \in SUBSET S |-> IF s = {} THEN 0 ELSE E(c(s)) + g[s \ {c(s)}]]
           iter == CHOOSE g : P(g)
           sum == MapThenSumSet(LAMBDA r : (100 * available[r]) \div capacity[r], S)
<1>1. sum = iter[S]
  BY DEF MapThenSumSet, MapThenFoldSet
<1>2. IsFiniteSet(S) /\ Cardinality(S) \in Nat
  <2>1. IsFiniteSet({"cpu", "memory"})
    <3>1. IsFiniteSet({"cpu"}) /\ IsFiniteSet({"memory"})
      BY FS_Singleton
    <3>2. {"cpu", "memory"} = {"cpu"} \cup {"memory"}
      OBVIOUS
    <3> QED
      BY <3>1, <3>2, FS_Union
  <2>2. S \subseteq {"cpu", "memory"}
    OBVIOUS
  <2> HIDE DEF S
  <2> QED
    BY <2>1, <2>2, FS_Subset, FS_CardinalityType
<1>3. \A r \in S : f[r] \in Nat /\ f[r] = E(r)
  <2> SUFFICES ASSUME NEW r \in S PROVE E(r) \in Nat
    OBVIOUS
  <2>1. available[r] \in Nat /\ capacity[r] \in Nat /\ capacity[r] > 0
    BY DEF Amounts
  <2> QED
    BY <2>1
<1>4. \A g : P(g) <=> Folded(g, f, S)
  <2> TAKE g
  <2> DEFINE left == [s \in SUBSET S |-> IF s = {} THEN 0 ELSE E(c(s)) + g[s \ {c(s)}]]
             right == [s \in SUBSET S |-> IF s = {} THEN 0 ELSE f[c(s)] + g[s \ {c(s)}]]
  <2>1. left = right
    <3> HIDE DEF E
    <3> QED
      OBVIOUS
  <2>2. P(g) <=> g = left
    OBVIOUS
  <2>3. Folded(g, f, S) <=> g = right
    BY DEF Folded
  <2> HIDE DEF left, right, P
  <2> QED
    BY <2>1, <2>2, <2>3
<1> HIDE DEF f, E, S
<1>5. (\E g : Folded(g, f, S)) /\ \A g : Folded(g, f, S) => g[S] \in Nat
  BY <1>2, <1>3, FoldNat
<1>6. P(iter)
  <2> HIDE DEF P
  <2> QED
    BY <1>4, <1>5
<1> HIDE DEF P, iter
<1>7. sum \in Nat
  BY <1>1, <1>4, <1>5, <1>6
<1> HIDE DEF sum
<1>8. Mean(sum, Cardinality(S), 0) \in Nat
  BY <1>2, <1>7, MeanNat
<1> QED
  BY <1>8 DEF ResourceScore, sum, S

LEMMA MetricScoreNat ==
  ASSUME NEW metrics, \A m \in DOMAIN metrics : metrics[m] \in Nat
  PROVE  MetricScore(metrics) \in Nat
<1> DEFINE S == DOMAIN metrics \cap DOMAIN Profile.metrics
           Part(m) == LET p == Profile.metrics[m]
                          v == IF metrics[m] < p.reference THEN metrics[m] ELSE p.reference
                      IN p.weight * ((100 * (IF p.lower THEN p.reference - v ELSE v)) \div p.reference)
           parts == MapThenSumSet(Part, S)
           weights == MapThenSumSet(LAMBDA m : Profile.metrics[m].weight, S)
           c(s) == CHOOSE x \in s : TRUE
<1>1. IsFiniteSet(S)
  <2>1. S \subseteq DOMAIN Profile.metrics
    OBVIOUS
  <2> HIDE DEF S
  <2> QED
    BY <2>1, Inputs, FS_Subset
<1>2. ASSUME NEW m \in S PROVE Part(m) \in Nat
  <2> DEFINE p == Profile.metrics[m]
             v == IF metrics[m] < p.reference THEN metrics[m] ELSE p.reference
             w == IF p.lower THEN p.reference - v ELSE v
  <2>1. p.weight \in Nat /\ p.reference \in Nat \ {0} /\ metrics[m] \in Nat
    BY Inputs DEF IsRule
  <2>2. v \in 0..p.reference
    BY <2>1
  <2>3. w \in Nat
    <3> HIDE DEF v, p
    <3> QED
      BY <2>1, <2>2
  <2> HIDE DEF w
  <2>4. (100 * w) \div p.reference \in Nat
    BY <2>1, <2>3
  <2> DEFINE x == (100 * w) \div p.reference
  <2>5. p.weight * x \in Nat
    <3> HIDE DEF x, p
    <3> QED
      BY <2>1, <2>4 DEF x
  <2> QED
    BY <2>5 DEF w
<1>3. \A m \in S : Profile.metrics[m].weight \in Nat
  BY Inputs DEF IsRule
<1>4. parts \in Nat
  <2> DEFINE f == [m \in S |-> Part(m)]
             P(g) == g = [s \in SUBSET S |-> IF s = {} THEN 0 ELSE Part(c(s)) + g[s \ {c(s)}]]
             iter == CHOOSE g : P(g)
  <2>1. parts = iter[S]
    <3> HIDE DEF Part, S
    <3> QED
      BY DEF MapThenSumSet, MapThenFoldSet
  <2> HIDE DEF Part, S
  <2>2. \A g : P(g) <=> Folded(g, f, S)
    <3> TAKE g
    <3> DEFINE left == [s \in SUBSET S |-> IF s = {} THEN 0 ELSE Part(c(s)) + g[s \ {c(s)}]]
               right == [s \in SUBSET S |-> IF s = {} THEN 0 ELSE f[c(s)] + g[s \ {c(s)}]]
    <3>1. left = right
      OBVIOUS
    <3>2. P(g) <=> g = left
      OBVIOUS
    <3>3. Folded(g, f, S) <=> g = right
      BY DEF Folded
    <3> HIDE DEF left, right, P
    <3> QED
      BY <3>1, <3>2, <3>3
  <2>3. \A m \in S : f[m] \in Nat
    BY <1>2
  <2> HIDE DEF f
  <2>4. (\E g : Folded(g, f, S)) /\ \A g : Folded(g, f, S) => g[S] \in Nat
    BY <1>1, <2>3, FoldNat
  <2>5. P(iter)
    <3> HIDE DEF P
    <3> QED
      BY <2>2, <2>4
  <2> HIDE DEF P, iter, parts
  <2> QED
    BY <2>1, <2>2, <2>4, <2>5
<1>5. weights \in Nat
  <2> DEFINE f == [m \in S |-> Profile.metrics[m].weight]
             P(g) == g = [s \in SUBSET S |-> IF s = {} THEN 0 ELSE Profile.metrics[c(s)].weight + g[s \ {c(s)}]]
             iter == CHOOSE g : P(g)
  <2>1. weights = iter[S]
    <3> HIDE DEF S
    <3> QED
      BY DEF MapThenSumSet, MapThenFoldSet
  <2> HIDE DEF S
  <2>2. \A g : P(g) <=> Folded(g, f, S)
    <3> TAKE g
    <3> DEFINE left == [s \in SUBSET S |-> IF s = {} THEN 0 ELSE Profile.metrics[c(s)].weight + g[s \ {c(s)}]]
               right == [s \in SUBSET S |-> IF s = {} THEN 0 ELSE f[c(s)] + g[s \ {c(s)}]]
    <3>1. left = right
      OBVIOUS
    <3>2. P(g) <=> g = left
      OBVIOUS
    <3>3. Folded(g, f, S) <=> g = right
      BY DEF Folded
    <3> HIDE DEF left, right, P
    <3> QED
      BY <3>1, <3>2, <3>3
  <2>3. \A m \in S : f[m] \in Nat
    BY <1>3
  <2> HIDE DEF f
  <2>4. (\E g : Folded(g, f, S)) /\ \A g : Folded(g, f, S) => g[S] \in Nat
    BY <1>1, <2>3, FoldNat
  <2>5. P(iter)
    <3> HIDE DEF P
    <3> QED
      BY <2>2, <2>4
  <2> HIDE DEF P, iter, weights
  <2> QED
    BY <2>1, <2>2, <2>4, <2>5
<1> HIDE DEF parts, weights
<1>6. Mean(parts, weights, 100) \in Nat
  BY <1>4, <1>5, MeanNat
<1> QED
  BY <1>6 DEF MetricScore, parts, weights

\* A Node's score is a natural number.
LEMMA NodeScoreNat ==
  ASSUME NEW capacity, Amounts(capacity), NEW available,
         \A r \in DOMAIN capacity : available[r] \in Nat,
         NEW metrics, \A m \in DOMAIN metrics : metrics[m] \in Nat
  PROVE  NodeScore(capacity, available, metrics) \in Nat
<1> DEFINE a == ResourceScore(capacity, available)
           b == MetricScore(metrics)
<1>1. a \in Nat /\ b \in Nat
  BY ResourceScoreNat, MetricScoreNat
<1>2. Profile.resourceWeight \in Nat /\ Profile.metricWeight \in Nat
  BY Inputs
<1> HIDE DEF a, b
<1>3. /\ Profile.resourceWeight * a + Profile.metricWeight * b \in Nat
      /\ Profile.resourceWeight + Profile.metricWeight \in Nat
  BY <1>1, <1>2
<1> QED
  BY <1>3, MeanNat DEF NodeScore, a, b

\* A value that a demand may name stands for a domain.
LEMMA KnownDomains ==
  ASSUME NEW l \in Uplinks \cup {"leafDomain", "room", "dataCenter"}, NEW a \in Known(Config, l)
  PROVE  a[2] # NoDomain
<1>1. NoDomain.kind = "none"
  BY DEF NoDomain, Domain
<1>2. \A kind, members : Domain(kind, members).kind = kind
  BY DEF Domain
<1>3. \A d, switches : \A b \in Aliases(d, switches) : b[2] = d
  BY DEF Aliases
<1> SUFFICES a[2].kind # "none"
  BY <1>1
<1>4. CASE l \in {"dataCenter", "room"}
  <2>1. \/ \E s \in Config.dataCenters : a = <<Scope(s.id), Scope(s.id)>>
        \/ \E s \in Config.rooms : a = <<Scope(s.id), Scope(s.id)>>
    BY <1>4 DEF Known
  <2>2. PICK s : a = <<Scope(s.id), Scope(s.id)>>
    BY <2>1
  <2>3. a[2] = Scope(s.id)
    BY <2>2
  <2>4. Scope(s.id).kind = "scope"
    BY <1>2 DEF Scope
  <2> QED
    BY <2>3, <2>4
<1>5. CASE l = "leafDomain"
  <2>1. a \in LeafAliases(Config)
    BY <1>5 DEF Known
  <2>2. PICK r \in Config.topology : a[2] = LeafDomain(r)
    BY <1>3, <2>1 DEF LeafAliases
  <2> QED
    BY <1>2, <2>2 DEF LeafDomain, Name
<1>6. CASE l = "spineDomain"
  <2>1. a \in SpineAliases(Config)
    BY <1>6 DEF Known
  <2>2. PICK r \in Config.topology : r.spines # {} /\ a[2] = SpineDomain(r)
    BY <1>3, <2>1 DEF SpineAliases
  <2> QED
    BY <1>2, <2>2 DEF SpineDomain
<1>7. CASE l = "borderDomain"
  <2>1. a \in BorderAliases(Config)
    BY <1>7 DEF Known
  <2>2. PICK r \in Config.topology : r.borders # {} /\ a[2] = BorderDomain(Config, r)
    BY <1>3, <2>1 DEF BorderAliases
  <2> QED
    BY <1>2, <2>2 DEF BorderDomain, Name
<1> QED
  BY <1>4, <1>5, <1>6, <1>7 DEF Uplinks

\* What ResolveDemandTopologyLabels hands to the worker: levels of the mode, or an uplink
\* of a compatible topology besides its uplink domain, each with a domain or "the same".
LEMMA ConstraintsFormed ==
  ASSUME NEW ask \in Asks, Constraints[ask.labels].ok, NEW at, at = Constraints[ask.labels].at,
         NEW mode, mode = Mode(Config.topology)
  PROVE  /\ mode \in {"layered", "uplink-compatible"}
         /\ \A level \in DOMAIN at :
              \/ mode = "uplink-compatible" /\ level \in Uplinks
              \/ \E k \in DOMAIN LevelsOf(mode) : LevelsOf(mode)[k] = level
         /\ \A level \in DOMAIN at : at[level] # NoDomain
         /\ mode = "uplink-compatible" /\ DOMAIN at \cap Uplinks # {} => "uplinkDomain" \in DOMAIN at
<1> DEFINE labels == ask.labels
           made == [l \in Levels(Config, labels) |->
                      IF l = "uplinkDomain" THEN RequiredSame ELSE Translate(Config, l, labels[l])]
<1>1. /\ at = made
      /\ \A l \in DOMAIN labels :
           labels[l] = RequiredSame \/ \E a \in Known(Config, l) : a[1] = labels[l]
  <2>1. Constraints[labels] = ResolveDemand(Config, labels)
    BY DEF Constraints
  <2>2. ~Refused.ok
    BY DEF Refused
  <2>3. ResolveDemand(Config, labels) # Refused
    BY <2>1, <2>2
  <2>4. Constrain(made).at = made
    BY DEF Constrain
  <2> QED
    BY <2>1, <2>3, <2>4 DEF ResolveDemand
<1>2. mode \in {"layered", "uplink-compatible"}
  BY DEF Mode
<1>3. DOMAIN labels \subseteq Uplinks \cup {"leafDomain", "room", "dataCenter"}
  BY Inputs DEF IsAsk
<1>4. DOMAIN at = Levels(Config, labels)
  BY <1>1
<1>5. /\ mode = "layered" => Levels(Config, labels) = DOMAIN labels
      /\ mode # "layered" => Levels(Config, labels) = CompatibleLevels(labels)
  BY DEF Levels
<1>6. ASSUME NEW level \in DOMAIN at
      PROVE  \/ mode = "uplink-compatible" /\ level \in Uplinks
             \/ \E k \in DOMAIN LevelsOf(mode) : LevelsOf(mode)[k] = level
  <2>1. CASE mode = "layered"
    <3>1. level \in {"leafDomain", "spineDomain", "borderDomain", "room", "dataCenter"}
      BY <1>3, <1>4, <1>5, <2>1 DEF Uplinks
    <3>2. /\ DOMAIN LevelsOf(mode) = 1..5
          /\ LevelsOf(mode)[1] = "leafDomain" /\ LevelsOf(mode)[2] = "spineDomain"
          /\ LevelsOf(mode)[3] = "borderDomain" /\ LevelsOf(mode)[4] = "room"
          /\ LevelsOf(mode)[5] = "dataCenter"
      BY <2>1 DEF LevelsOf
    <3> QED
      BY <3>1, <3>2
  <2>2. CASE mode = "uplink-compatible"
    <3>1. level \in Uplinks \/ level \in {"leafDomain", "uplinkDomain", "room", "dataCenter"}
      BY <1>3, <1>4, <1>5, <2>2 DEF CompatibleLevels
    <3>2. /\ DOMAIN LevelsOf(mode) = 1..4
          /\ LevelsOf(mode)[1] = "leafDomain" /\ LevelsOf(mode)[2] = "uplinkDomain"
          /\ LevelsOf(mode)[3] = "room" /\ LevelsOf(mode)[4] = "dataCenter"
      BY <2>2 DEF LevelsOf
    <3> QED
      BY <2>2, <3>1, <3>2
  <2> QED
    BY <1>2, <2>1, <2>2
<1>7. ASSUME NEW level \in DOMAIN at PROVE at[level] # NoDomain
  <2>1. RequiredSame # NoDomain
    <3>1. RequiredSame.kind = "requiredSame" /\ NoDomain.kind = "none"
      BY DEF RequiredSame, NoDomain, Domain
    <3> QED
      BY <3>1
  <2>2. CASE level = "uplinkDomain"
    BY <1>1, <1>4, <2>1, <2>2
  <2>3. CASE level # "uplinkDomain"
    <3>1. level \in DOMAIN labels /\ at[level] = Translate(Config, level, labels[level])
      BY <1>1, <1>4, <1>5, <2>3 DEF CompatibleLevels
    <3>2. CASE labels[level] = RequiredSame
      BY <2>1, <3>1, <3>2 DEF Translate
    <3>3. CASE labels[level] # RequiredSame
      <4> DEFINE a == CHOOSE a \in Known(Config, level) : a[1] = labels[level]
      <4>1. a \in Known(Config, level)
        BY <1>1, <3>1, <3>3
      <4>2. at[level] = a[2]
        BY <3>1, <3>3 DEF Translate
      <4> HIDE DEF a
      <4> QED
        BY <1>3, <3>1, <4>1, <4>2, KnownDomains
    <3> QED
      BY <3>2, <3>3
  <2> QED
    BY <2>2, <2>3
<1>8. mode = "uplink-compatible" /\ DOMAIN at \cap Uplinks # {} => "uplinkDomain" \in DOMAIN at
  BY <1>4, <1>5 DEF CompatibleLevels, Uplinks
<1> QED
  BY <1>2, <1>6, <1>7, <1>8

LEMMA LeftNat ==
  ASSUME NEW j, NEW n, Amounts(j.capacity[n]), Amounts(j.requested[n])
  PROVE  \A r \in DOMAIN j.capacity[n] : Available(j, n)[r] \in Nat
<1> SUFFICES ASSUME NEW r \in DOMAIN j.capacity[n] PROVE Available(j, n)[r] \in Nat
  OBVIOUS
<1> DEFINE x == Amount(j.capacity[n], r)
           y == Amount(j.requested[n], r)
<1>1. Available(j, n)[r] = IF x > y THEN x - y ELSE 0
  BY DEF Available
<1>2. x \in Nat /\ y \in Nat
  BY DEF Amounts, Amount
<1> HIDE DEF x, y
<1> QED
  BY <1>1, <1>2

\* The loads of a Node, as the worker is told of them.
LEMMA LoadsFormed ==
  ASSUME NEW ask \in Asks, NEW n \in Placed(ask.static)
  PROVE  /\ Amounts(ask.static.allocatable[n]) /\ Amounts(RequestedOn(ask, n))
         /\ NameOrder[n] \in Nat
<1>1. n \in ask.static.nodes /\ IsStatic(ask.static) /\ IsAsk(ask)
  BY Inputs, ServiceBounds, PlacedNodes
<1>2. Amounts(Empty)
  BY DEF Amounts, Empty
<1> QED
  BY <1>1, <1>2 DEF IsStatic, IsAsk, RequestedOn

\* Every job that an accepted request becomes is well formed, whatever the metric cache
\* says of its Nodes: to ask this of Jobs is no restriction (PoolAssumption).
THEOREM JobsWellFormed ==
  \A ask \in Asks : Problem(ask) = "" =>
    \A metrics \in Measurements(ask.static) : WellFormed(JobOf(ask, metrics))
<1> SUFFICES ASSUME NEW ask \in Asks, Problem(ask) = "", NEW metrics \in Measurements(ask.static)
             PROVE  WellFormed(JobOf(ask, metrics))
  OBVIOUS
<1> DEFINE j == JobOf(ask, metrics)
           nodes == Placed(ask.static)
           loads == [capacity |-> ask.static.allocatable,
                     requested |-> [n \in nodes |-> RequestedOn(ask, n)]]
           Metrics(n) == IF n \in DOMAIN metrics THEN metrics[n] ELSE Empty
<1>1. /\ j.nodes = nodes /\ j.mode = Mode(Config.topology) /\ j.at = Constraints[ask.labels].at
      /\ j.minimum = ask.minimum /\ j.quota = ask.quota /\ j.maxNodes = ask.maxNodes
      /\ j.order = NameOrder
  BY DEF JobOf
<1>2. /\ j.capacity = ask.static.allocatable
      /\ j.requested = [n \in nodes |-> RequestedOn(ask, n)]
      /\ j.score = [n \in nodes |-> NodeScore(loads.capacity[n], Available(loads, n), Metrics(n))]
  BY DEF JobOf
<1>3. nodes \subseteq ask.static.nodes /\ IsStatic(ask.static) /\ IsAsk(ask)
  BY Inputs, ServiceBounds, PlacedNodes
<1>4. Constraints[ask.labels].ok
  BY DEF Problem
<1>5. IsFiniteSet(nodes)
  <2>1. IsFiniteSet(ask.static.nodes)
    BY <1>3 DEF IsStatic
  <2> HIDE DEF nodes
  <2> QED
    BY <1>3, <2>1, FS_Subset
<1>6. \A n \in nodes : Amounts(j.capacity[n]) /\ Amounts(j.requested[n])
  BY <1>2, LoadsFormed
<1>7. ASSUME NEW n \in nodes PROVE j.score[n] \in Nat
  <2>1. Amounts(loads.capacity[n]) /\ Amounts(loads.requested[n])
    BY LoadsFormed
  <2>2. \A r \in DOMAIN loads.capacity[n] : Available(loads, n)[r] \in Nat
    <3> HIDE DEF loads
    <3> QED
      BY <2>1, LeftNat
  <2>3. \A m \in DOMAIN Metrics(n) : Metrics(n)[m] \in Nat
    <3>1. CASE n \in DOMAIN metrics
      <4>1. metrics[n] \in Readings
        BY <3>1 DEF Measurements
      <4> QED
        BY <3>1, <4>1, ReadingNats
    <3>2. CASE n \notin DOMAIN metrics
      BY <3>2 DEF Empty
    <3> QED
      BY <3>1, <3>2
  <2>4. j.score[n] = NodeScore(loads.capacity[n], Available(loads, n), Metrics(n))
    BY <1>2
  <2> HIDE DEF loads, Metrics, j
  <2> QED
    BY <2>1, <2>2, <2>3, <2>4, NodeScoreNat
<1>8. \A n \in nodes : j.order[n] \in Nat /\ \A m \in nodes : j.order[n] = j.order[m] => n = m
  BY <1>1, <1>3 DEF IsStatic
<1>9. Amounts(j.minimum) /\ Amounts(j.quota) /\ j.maxNodes \in Nat
  BY <1>1, <1>3 DEF IsAsk
<1> HIDE DEF j
<1>10. /\ j.mode \in {"layered", "uplink-compatible"}
       /\ \A level \in DOMAIN j.at :
            \/ j.mode = "uplink-compatible" /\ level \in Uplinks
            \/ \E k \in DOMAIN LevelsOf(j.mode) : LevelsOf(j.mode)[k] = level
       /\ \A level \in DOMAIN j.at : j.at[level] # NoDomain
       /\ j.mode = "uplink-compatible" /\ DOMAIN j.at \cap Uplinks # {} => "uplinkDomain" \in DOMAIN j.at
  BY <1>1, <1>4, ConstraintsFormed
<1>11. WellFormed(j)
  <2> HIDE DEF nodes
  <2> QED
    BY <1>1, <1>5, <1>6, <1>7, <1>8, <1>9, <1>10 DEF WellFormed
<1> QED
  BY <1>11 DEF j

-----------------------------------------------------------------------------
(* The worker in the service: the pipeline's promise reaches the answers.  *)

\* What the metric cache says of a request's Nodes is among what it may say.
LEMMA BoundMeasured ==
  ASSUME MetricsInv, NEW ask \in Asks
  PROVE  BoundMetrics(ask, Resolve.snapshot) \in Measurements(ask.static)
<1> DEFINE ip == Addresses(ask.static)
<1>1. CASE Resolve.snapshot = None
  <2>1. BoundMetrics(ask, Resolve.snapshot) = Empty
    BY <1>1 DEF BoundMetrics
  <2>2. Empty \in [{} -> Readings]
    BY DEF Empty
  <2> QED
    BY <2>1, <2>2 DEF Measurements
<1>2. CASE Resolve.snapshot # None
  <2>1. Resolve.snapshot = current /\ current # None
    BY <1>2 DEF Resolve
  <2>2. IsValues(current.values)
    BY <2>1 DEF MetricsInv, MetricsTypeOK, IsSnapshot
  <2>3. BoundMetrics(ask, Resolve.snapshot) = [n \in Bound(current.values, ip) |-> current.values[ip[n]]]
    BY <1>2, <2>1 DEF BoundMetrics, Bind
  <2>4. Bound(current.values, ip) \subseteq Placed(ask.static)
    BY DEF Bound, Addresses
  <2>5. \A n \in Bound(current.values, ip) : current.values[ip[n]] \in Readings
    BY <2>2 DEF Bound, IsValues
  <2> HIDE DEF ip
  <2>6. BoundMetrics(ask, Resolve.snapshot) \in [Bound(current.values, ip) -> Readings]
    BY <2>3, <2>5
  <2> QED
    BY <2>4, <2>6 DEF Measurements
<1> QED
  BY <1>1, <1>2

LEMMA AcceptedJob ==
  ASSUME MetricsInv, NEW ask \in Asks, Problem(ask) = ""
  PROVE  JobOf(ask, BoundMetrics(ask, Resolve.snapshot)) \in Jobs
BY BoundMeasured, JobsAssumption

\* A request whose job is at the worker, or waits for it.
Under(r) == r.pc \in {"waiting", "calculating"}

\* What a step may do to a request.
Stays(q) ==
  /\ requests'[q].ask = requests[q].ask /\ requests'[q].payload = requests[q].payload
  /\ requests'[q].reply = requests[q].reply
  /\ Under(requests'[q]) => Under(requests[q])
Dropped(q) == ~Under(requests'[q]) /\ requests'[q].reply.kind # "response"
Admitted(q) ==
  /\ requests'[q].ask = requests[q].ask /\ requests[q].ask \in Asks /\ Problem(requests[q].ask) = ""
  /\ requests'[q].payload = JobOf(requests[q].ask, BoundMetrics(requests[q].ask, Resolve.snapshot))
  /\ requests'[q].reply.kind # "response"
Served(q) ==
  /\ Respond(q) /\ requests'[q].reply.result = answer
  /\ requests'[q].ask = requests[q].ask /\ requests'[q].payload = requests[q].payload

LEMMA StepOfRequest ==
  ASSUME RequestsOK, NEW q \in Requests, Handles(q) \/ CallFails(q) \/ \E ask \in Asks : Send(q, ask)
  PROVE  /\ Stays(q) \/ Dropped(q) \/ Admitted(q) \/ Served(q)
         /\ \A p \in Requests : p # q => requests'[p] = requests[p]
<1> USE DEF Stays, Dropped, Admitted, Served, Under
<1>1. RequestOK(requests[q]) /\ IsRequest(requests[q])
  BY DEF RequestsOK, RequestOK
<1>2. requests[q].pc # "answered" => requests[q].reply.kind # "response"
  BY <1>1, ReplyKinds DEF RequestOK
<1>3. CASE \E ask \in Asks : Send(q, ask)
  <2>1. PICK ask \in Asks : Send(q, ask)
    BY <1>3
  <2>2. /\ requests[q].pc = "unsent"
        /\ requests' = [requests EXCEPT ![q] = requests'[q]]
        /\ requests'[q] = [requests[q] EXCEPT !.pc = "accepted", !.ask = ask]
    BY <2>1 DEF Send, RequestsOK
  <2>3. requests'[q].pc = "accepted" /\ requests'[q].reply = requests[q].reply
    BY <1>1, <2>2 DEF IsRequest
  <2>4. Dropped(q)
    BY <1>2, <2>2, <2>3
  <2> QED
    BY <2>2, <2>4 DEF RequestsOK
<1>4. ASSUME NEW code, Answered(q, Error(code))
      PROVE  Dropped(q) /\ \A p \in Requests : p # q => requests'[p] = requests[p]
  <2>1. /\ requests' = [requests EXCEPT ![q] = requests'[q]]
        /\ requests'[q] = [pc |-> "answered", ask |-> requests[q].ask, metric |-> requests[q].metric,
                           degraded |-> requests[q].degraded, at |-> requests[q].at,
                           payload |-> requests[q].payload, reply |-> Error(code)]
    BY <1>4, AnsweredWith
  <2>2. Dropped(q)
    BY <2>1, ReplyKinds
  <2> QED
    BY <2>1, <2>2 DEF RequestsOK
<1>5. ASSUME NEW x, requests' = [requests EXCEPT ![q].pc = x], Under(requests'[q]) => Under(requests[q])
      PROVE  Stays(q) /\ \A p \in Requests : p # q => requests'[p] = requests[p]
  <2>1. /\ requests' = [requests EXCEPT ![q] = requests'[q]]
        /\ requests'[q] = [pc |-> x, ask |-> requests[q].ask, metric |-> requests[q].metric,
                           degraded |-> requests[q].degraded, at |-> requests[q].at,
                           payload |-> requests[q].payload, reply |-> requests[q].reply]
    BY <1>5, Moved
  <2>2. Stays(q)
    BY <1>5, <2>1
  <2> QED
    BY <2>1, <2>2 DEF RequestsOK
<1>6. CASE FindStatic(q)
  <2>1. CASE Answered(q, Error("STATIC_SNAPSHOT_NOT_FOUND"))
    BY <1>4, <2>1
  <2>2. CASE requests' = [requests EXCEPT ![q].pc = "found"]
    <3>1. requests'[q] = [pc |-> "found", ask |-> requests[q].ask, metric |-> requests[q].metric,
                          degraded |-> requests[q].degraded, at |-> requests[q].at,
                          payload |-> requests[q].payload, reply |-> requests[q].reply]
      BY <2>2, Moved
    <3>2. requests'[q].pc = "found"
      BY <3>1
    <3> QED
      BY <1>5, <2>2, <3>2
  <2> QED
    BY <1>6, <2>1, <2>2 DEF FindStatic
<1>7. CASE Prepare(q)
  <2> DEFINE ask == requests[q].ask
             metric == Resolve.snapshot
             payload == JobOf(ask, BoundMetrics(ask, metric))
  <2>1. CASE Answered(q, Error(Problem(ask)))
    BY <1>4, <2>1
  <2>2. CASE ~Answered(q, Error(Problem(ask)))
    <3>1. requests[q].pc = "found" /\ Problem(ask) = ""
      BY <1>7, <2>2 DEF Prepare
    <3>2. PICK degraded :
            requests' = [requests EXCEPT ![q].pc = "waiting", ![q].metric = metric, ![q].at = clock,
                                         ![q].degraded = degraded, ![q].payload = payload]
      BY <1>7, <2>2 DEF Prepare
    <3> HIDE DEF metric, payload
    <3>3. /\ requests' = [requests EXCEPT ![q] = requests'[q]]
          /\ requests'[q] = [requests[q] EXCEPT !.pc = "waiting", !.metric = metric, !.at = clock,
                                                !.degraded = degraded, !.payload = payload]
      BY <3>2 DEF RequestsOK
    <3>4. requests'[q] = [pc |-> "waiting", ask |-> ask, metric |-> metric, degraded |-> degraded,
                          at |-> clock, payload |-> payload, reply |-> requests[q].reply]
      BY <1>1, <3>3 DEF IsRequest
    <3>5. ask \in Asks
      BY <1>1, <3>1 DEF RequestOK
    <3>6. requests'[q].ask = ask /\ requests'[q].payload = payload /\ requests'[q].reply = requests[q].reply
      BY <3>4
    <3>7. Admitted(q)
      BY <1>2, <3>1, <3>5, <3>6 DEF payload, metric
    <3> QED
      BY <3>3, <3>7 DEF RequestsOK
  <2> QED
    BY <2>1, <2>2
<1>8. CASE Call(q)
  <2>1. requests[q].pc = "waiting" /\ requests' = [requests EXCEPT ![q].pc = "calculating"]
    BY <1>8 DEF Call
  <2> QED
    BY <1>5, <2>1
<1>9. CASE CallFails(q)
  BY <1>4, <1>9 DEF CallFails
<1>10. CASE Respond(q)
  <2>1. Answered(q, ReplyTo(q)) /\ ReplyTo(q).result = answer
    BY <1>10, ReplyKinds DEF Respond, ReplyTo
  <2>2. /\ requests' = [requests EXCEPT ![q] = requests'[q]]
        /\ requests'[q] = [pc |-> "answered", ask |-> requests[q].ask, metric |-> requests[q].metric,
                           degraded |-> requests[q].degraded, at |-> requests[q].at,
                           payload |-> requests[q].payload, reply |-> ReplyTo(q)]
    BY <2>1, AnsweredWith
  <2>3. Served(q)
    BY <1>10, <2>1, <2>2
  <2> QED
    BY <2>2, <2>3 DEF RequestsOK
<1> QED
  BY <1>3, <1>6, <1>7, <1>8, <1>9, <1>10 DEF Handles

LEMMA RequestMoves ==
  ASSUME RequestsOK, [ServiceNext]_svars, NEW q \in Requests
  PROVE  Stays(q) \/ Dropped(q) \/ Admitted(q) \/ Served(q)
<1>1. CASE \E p \in Requests : Handles(p) \/ CallFails(p) \/ \E ask \in Asks : Send(p, ask)
  <2>1. PICK p \in Requests : Handles(p) \/ CallFails(p) \/ \E ask \in Asks : Send(p, ask)
    BY <1>1
  <2>2. CASE p = q
    BY <2>1, <2>2, StepOfRequest
  <2>3. CASE p # q
    <3>1. requests'[q] = requests[q]
      BY <2>1, <2>3, StepOfRequest
    <3> QED
      BY <3>1 DEF Stays
  <2> QED
    BY <2>2, <2>3
<1>2. CASE ~\E p \in Requests : Handles(p) \/ CallFails(p) \/ \E ask \in Asks : Send(p, ask)
  <2>1. UNCHANGED requests
    BY <1>2 DEF ServiceNext, PoolWorks, MetricsWork, PutStatic, Start, BackgroundStarts, StopRun,
                ServeReturns, BeginShutdown, DrainEnds, BeginCleaning, EndCleaning, CloseReturns,
                ServeDone, svars
  <2> QED
    BY <2>1 DEF Stays
<1> QED
  BY <1>1, <1>2

\* A request under way has a job of Jobs, and an answer what was promised for it.
Kept(r) ==
  /\ Under(r) \/ r.reply.kind = "response" =>
       r.payload \in Jobs /\ r.ask \in Asks /\ Problem(r.ask) = ""
  /\ r.reply.kind = "response" =>
       \A pool \in r.reply.result.pools :
         /\ Promised(r.payload, pool)
         /\ \A res \in Resources : pool.total[res] = SumFor(r.payload, pool.nodes)[res]

ServedInv == ServiceInv /\ PoolInv /\ Thorough /\ \A q \in Requests : Kept(requests[q])

\* The service's steps are steps of the pipeline: one job after the other, each of them
\* one there may be.
LEMMA ServicePoolStep == ServedInv /\ [ServiceNext]_svars => [PoolNext]_pvars
<1> SUFFICES ASSUME ServedInv, [ServiceNext]_svars PROVE [PoolNext]_pvars
  OBVIOUS
<1>1. CASE PoolWorks
  BY <1>1 DEF PoolWorks, PoolNext
<1>2. ASSUME NEW q \in Requests, Call(q) PROVE PoolNext
  <2>1. requests[q].payload \in Jobs /\ Receive(requests[q].payload)
    BY <1>2 DEF Call, ServedInv, Kept, Under
  <2>2. job = NoJob
    BY <2>1 DEF Receive, ServedInv, PoolInv, PoolFlow
  <2> QED
    BY <2>1, <2>2 DEF PoolNext
<1>3. ASSUME NEW q \in Requests, Respond(q) \/ CallFails(q) PROVE [PoolNext]_pvars
  BY <1>3 DEF Respond, CallFails, PoolNext
<1>4. ASSUME NEW q \in Requests, FindStatic(q) \/ Prepare(q) \/ \E ask \in Asks : Send(q, ask)
      PROVE  UNCHANGED pvars
  BY <1>4 DEF FindStatic, Prepare, Send
<1>5. CASE MetricsWork \/ UNCHANGED svars \/ \E snapshot \in Statics : PutStatic(snapshot)
  BY <1>5 DEF MetricsWork, svars, PutStatic
<1>6. CASE \/ Start \/ BackgroundStarts \/ StopRun \/ ServeReturns \/ BeginShutdown \/ DrainEnds
           \/ BeginCleaning \/ EndCleaning \/ CloseReturns \/ ServeDone
  BY <1>6 DEF Start, BackgroundStarts, StopRun, ServeReturns, BeginShutdown, DrainEnds,
              BeginCleaning, EndCleaning, CloseReturns, ServeDone
<1> QED
  BY <1>1, <1>2, <1>3, <1>4, <1>5, <1>6 DEF ServiceNext, Handles

LEMMA KeptNext ==
  ASSUME ServedInv, [ServiceNext]_svars, NEW q \in Requests
  PROVE  Kept(requests'[q])
<1>1. Kept(requests[q]) /\ RequestsOK /\ Gate /\ MetricsInv
  BY DEF ServedInv, ServiceInv
<1>2. CASE Stays(q)
  BY <1>1, <1>2 DEF Stays, Kept
<1>3. CASE Dropped(q)
  BY <1>3 DEF Dropped, Kept
<1>4. CASE Admitted(q)
  <2>1. requests'[q].payload \in Jobs
    BY <1>1, <1>4, AcceptedJob DEF Admitted
  <2> QED
    BY <1>4, <2>1 DEF Admitted, Kept
<1>5. CASE Served(q)
  <2>1. requests[q].pc = "calculating" /\ pc = "done"
    BY <1>5 DEF Served, Respond
  <2>2. requests[q].payload = job /\ job \in Jobs /\ requests[q].ask \in Asks /\ Problem(requests[q].ask) = ""
    BY <1>1, <2>1 DEF Gate, Kept, Under
  <2>3. \A pool \in answer.pools :
          /\ Promised(job, pool)
          /\ \A res \in Resources : pool.total[res] = SumFor(job, pool.nodes)[res]
    BY OfferedSums, SumOfIsSumFor DEF Offered, ServedInv
  <2> QED
    BY <1>5, <2>2, <2>3 DEF Served, Kept
<1> QED
  BY <1>1, <1>2, <1>3, <1>4, <1>5, RequestMoves

LEMMA InitServedInv == ServiceInit => ServedInv
<1> SUFFICES ASSUME ServiceInit PROVE ServedInv
  OBVIOUS
<1>1. ServiceInv /\ PoolInv /\ Thorough
  BY InitServiceInv, FlowInit, InitWeighed, InitThorough DEF ServiceInit, PoolInv
<1>2. \A q \in Requests : Kept(requests[q])
  BY ReplyKinds DEF ServiceInit, Unsent, Kept, Under
<1> QED
  BY <1>1, <1>2 DEF ServedInv

LEMMA ServedNext == ServedInv /\ [ServiceNext]_svars => ServedInv'
<1> SUFFICES ASSUME ServedInv, [ServiceNext]_svars PROVE ServedInv'
  OBVIOUS
<1>1. ServiceInv'
  BY ServiceNextInv DEF ServedInv
<1>2. PoolInv' /\ Thorough'
  BY ServicePoolStep, PoolNextInv, ThoroughNext DEF ServedInv
<1>3. \A q \in Requests : Kept(requests'[q])
  BY KeptNext
<1> QED
  BY <1>1, <1>2, <1>3 DEF ServedInv

THEOREM ServedInvariant == ServiceSpec => []ServedInv
BY InitServedInv, ServedNext, PTL DEF ServiceSpec

\* Behind the service the worker behaves as the pipeline does when it is alone, and so
\* keeps the promise: one job at a time, each answered once or given up, whatever
\* requests, timeouts and shutdowns there are (WorkerHost.Call, service.go allocate).
THEOREM ServiceRunsPipeline == ServiceSpec => PoolInit /\ [][PoolNext]_pvars
<1>1. ServiceInit => PoolInit
  BY DEF ServiceInit
<1> QED
  BY <1>1, InitServedInv, ServedNext, ServicePoolStep, PTL DEF ServiceSpec

THEOREM ServiceKeepsPromise == ServiceSpec => Promise!PSafe
<1>1. ServiceInit => Promise!PInit
  <2> SUFFICES ASSUME ServiceInit PROVE Promise!PInit
    OBVIOUS
  <2>1. job = NoJob /\ Said = [kind |-> "none", pools |-> {}]
    BY DEF ServiceInit, PoolInit, NoAnswer, Said
  <2> QED
    BY <2>1 DEF Promise!PInit, Promise!Unanswered
<1>2. ServedInv /\ [ServiceNext]_svars => [Promise!PNext]_<<job, Said>>
  BY ServicePoolStep, StepPromise DEF ServedInv
<1> QED
  BY <1>1, <1>2, InitServedInv, ServedNext, PTL DEF ServiceSpec, Promise!PSafe

\* What the pipeline says of levels, refusals and types holds of it behind the service.
THEOREM ServicePipelineProperties ==
  ServiceSpec => [](PoolTypeOK /\ NarrowestWhole /\ InsufficientIsTrue /\ RequiredSameWhenNested)
<1>1. ServedInv => PoolTypeOK /\ NarrowestWhole /\ InsufficientIsTrue /\ RequiredSameWhenNested
  BY ThoroughNarrowest, ThoroughInsufficient, NestedSame DEF ServedInv, PoolInv
<1> QED
  BY <1>1, ServedInvariant, PTL

\* Every pool of every answer is what the demand asked for: Nodes of its snapshot that
\* are free and where its topology labels want them, no more than it asked for, together
\* with the minimum and, where the Nodes name the same resources, within the quota.
AnswersMeetDemand ==
  \A q \in Responded : \A pool \in Reply(q).result.pools :
    LET ask == requests[q].ask
        together == SumFor(requests[q].payload, pool.nodes)
    IN /\ pool.nodes # {} /\ Cardinality(pool.nodes) <= ask.maxNodes
       /\ \A n \in pool.nodes :
            /\ n \in ask.static.nodes /\ n \notin InUse(ask)
            /\ Matches(Placement(Config, ask.static.leaves[n]), ResolveDemand(Config, ask.labels).at)
       /\ \A r \in DOMAIN ask.minimum : together[r] >= ask.minimum[r]
       /\ SameNames(requests[q].payload) => \A r \in DOMAIN ask.quota : together[r] <= ask.quota[r]

THEOREM DemandsMet == ServiceSpec => []AnswersMeetDemand
<1>1. ServedInv => AnswersMeetDemand
  <2> SUFFICES ASSUME ServedInv, NEW q \in Responded, NEW pool \in Reply(q).result.pools
               PROVE  LET ask == requests[q].ask
                          together == SumFor(requests[q].payload, pool.nodes)
                      IN /\ pool.nodes # {} /\ Cardinality(pool.nodes) <= ask.maxNodes
                         /\ \A n \in pool.nodes :
                              /\ n \in ask.static.nodes /\ n \notin InUse(ask)
                              /\ Matches(Placement(Config, ask.static.leaves[n]),
                                         ResolveDemand(Config, ask.labels).at)
                         /\ \A r \in DOMAIN ask.minimum : together[r] >= ask.minimum[r]
                         /\ SameNames(requests[q].payload) =>
                              \A r \in DOMAIN ask.quota : together[r] <= ask.quota[r]
    BY DEF AnswersMeetDemand
  <2> DEFINE ask == requests[q].ask
             payload == requests[q].payload
  <2>1. /\ requests[q].reply.kind = "response" /\ RequestOK(requests[q]) /\ Kept(requests[q])
        /\ pool \in requests[q].reply.result.pools
    BY DEF Responded, Reply, ServedInv, ServiceInv, RequestsOK
  <2>2. /\ payload \in Jobs /\ ask \in Asks
        /\ Promised(payload, pool)
        /\ \A res \in Resources : pool.total[res] = SumFor(payload, pool.nodes)[res]
    BY <2>1 DEF Kept
  <2>3. PICK metrics : payload = JobOf(ask, metrics)
    BY <2>1 DEF RequestOK, Prepared
  <2>4. /\ payload.nodes = Placed(ask.static) /\ payload.busy = InUse(ask)
        /\ payload.place = Places[ask.static] /\ payload.at = Constraints[ask.labels].at
        /\ payload.minimum = ask.minimum /\ payload.quota = ask.quota
        /\ payload.maxNodes = ask.maxNodes
    BY <2>3 DEF JobOf
  <2>5. ask.static \in Statics /\ Placed(ask.static) \subseteq ask.static.nodes
    BY <2>2, ServiceBounds, PlacedNodes
  <2>6. \A n \in Placed(ask.static) : Places[ask.static][n] = Placement(Config, ask.static.leaves[n])
    BY <2>5 DEF Placed, Places
  <2>7. Constraints[ask.labels] = ResolveDemand(Config, ask.labels)
    BY <2>2 DEF Constraints
  <2>8. Amounts(payload.minimum) /\ Amounts(payload.quota)
    BY <2>2, JobFacts
  <2>9. DOMAIN payload.minimum \subseteq Resources /\ DOMAIN payload.quota \subseteq Resources
    BY <2>8 DEF Amounts
  <2> HIDE DEF ask, payload
  <2>10. pool.nodes # {} /\ Cardinality(pool.nodes) <= ask.maxNodes
    BY <2>2, <2>4 DEF Promised
  <2>11. ASSUME NEW n \in pool.nodes
         PROVE  /\ n \in ask.static.nodes /\ n \notin InUse(ask)
                /\ Matches(Placement(Config, ask.static.leaves[n]), ResolveDemand(Config, ask.labels).at)
    <3>1. n \in Placed(ask.static) /\ n \notin InUse(ask) /\ Matches(payload.place[n], payload.at)
      BY <2>2, <2>4 DEF Promised, Usable
    <3> QED
      BY <2>4, <2>5, <2>6, <2>7, <3>1
  <2>12. \A r \in DOMAIN ask.minimum : SumFor(payload, pool.nodes)[r] >= ask.minimum[r]
    BY <2>2, <2>4, <2>9 DEF Promised
  <2>13. SameNames(payload) => \A r \in DOMAIN ask.quota : SumFor(payload, pool.nodes)[r] <= ask.quota[r]
    BY <2>2, <2>4, <2>9 DEF Promised
  <2> QED
    BY <2>10, <2>11, <2>12, <2>13 DEF ask, payload
<1> QED
  BY <1>1, ServedInvariant, PTL

-----------------------------------------------------------------------------
(* What the service relies on in its worker is SerialWorker.               *)

\* A request as a call of the worker: refused by it, or never made, when no answer came.
PhaseOf(r) ==
  IF Under(r) THEN r.pc
  ELSE IF r.reply.kind = "response" THEN "answered"
  ELSE IF r.reply = Error("ALGORITHM_WORKER_UNAVAILABLE") THEN "refused" ELSE "out"
CallPhase == [q \in Requests |-> PhaseOf(requests[q])]

\* The call whose payload the answer was calculated from.
FromPayload(r) ==
  r.reply.kind = "response" /\ \A pool \in r.reply.result.pools : Promised(r.payload, pool)
CalculatedFor == [q \in Requests |-> IF FromPayload(requests[q]) THEN q ELSE None]

Worker == INSTANCE SerialWorker
            WITH Calls <- Requests, phase <- CallPhase, answer <- CalculatedFor, closed <- WorkerClosed

LEMMA UnansweredOut ==
  ASSUME NEW r, RequestOK(r), r.pc \in {"unsent", "accepted", "found"}
  PROVE  PhaseOf(r) = "out" /\ ~FromPayload(r)
BY ReplyKinds DEF RequestOK, PhaseOf, FromPayload, Under

LEMMA UnderPhase ==
  ASSUME NEW r, RequestOK(r), Under(r)
  PROVE  PhaseOf(r) = r.pc /\ ~FromPayload(r)
BY ReplyKinds DEF RequestOK, PhaseOf, FromPayload, Under

LEMMA ErrorCodes ==
  /\ \A x : Error(x).code = x
  /\ \A ask : Problem(ask) # "ALGORITHM_WORKER_UNAVAILABLE"
BY DEF Error, Problem

LEMMA ErrorPhase ==
  ASSUME NEW r, NEW x, r.pc = "answered", r.reply = Error(x)
  PROVE  /\ PhaseOf(r) = IF x = "ALGORITHM_WORKER_UNAVAILABLE" THEN "refused" ELSE "out"
         /\ ~FromPayload(r)
<1>1. ~Under(r) /\ r.reply.kind = "error"
  BY ReplyKinds DEF Under
<1>2. r.reply = Error("ALGORITHM_WORKER_UNAVAILABLE") <=> x = "ALGORITHM_WORKER_UNAVAILABLE"
  BY ErrorCodes
<1> QED
  BY <1>1, <1>2 DEF PhaseOf, FromPayload

\* One request moves.
LEMMA OneCall ==
  ASSUME NEW q \in Requests, \A p \in Requests : p # q => requests'[p] = requests[p]
  PROVE  /\ CallPhase' = [CallPhase EXCEPT ![q] = PhaseOf(requests'[q])]
         /\ CalculatedFor' = [CalculatedFor EXCEPT ![q] = IF FromPayload(requests'[q]) THEN q ELSE None]
BY DEF CallPhase, CalculatedFor

\* A step that leaves the call where it was.
LEMMA CallStays ==
  ASSUME NEW q \in Requests, \A p \in Requests : p # q => requests'[p] = requests[p],
         PhaseOf(requests'[q]) = PhaseOf(requests[q]),
         ~FromPayload(requests[q]), ~FromPayload(requests'[q])
  PROVE  UNCHANGED <<CallPhase, CalculatedFor>>
BY DEF CallPhase, CalculatedFor

\* A call moves and no answer comes.
LEMMA CallMoves ==
  ASSUME NEW q \in Requests, \A p \in Requests : p # q => requests'[p] = requests[p],
         ~FromPayload(requests[q]), ~FromPayload(requests'[q]), NEW to, PhaseOf(requests'[q]) = to
  PROVE  CallPhase' = [CallPhase EXCEPT ![q] = to] /\ UNCHANGED CalculatedFor
BY DEF CallPhase, CalculatedFor

\* Whichever request a handler is about, the others keep theirs and the worker its life.
LEMMA HandledAlone ==
  ASSUME RequestsOK, NEW q \in Requests, Handles(q) \/ CallFails(q) \/ \E ask \in Asks : Send(q, ask)
  PROVE  (\A p \in Requests : p # q => requests'[p] = requests[p]) /\ UNCHANGED WorkerClosed
BY StepOfRequest DEF Handles, FindStatic, Prepare, Call, Respond, CallFails, Send, life, WorkerClosed

LEMMA WorkerStep ==
  ASSUME ServedInv, ServedInv', NEW q \in Requests,
         Handles(q) \/ CallFails(q) \/ \E ask \in Asks : Send(q, ask)
  PROVE  [Worker!SNext]_<<CallPhase, CalculatedFor, WorkerClosed>>
<1> USE DEF Worker!SNext, Worker!Moves
<1>1. /\ RequestsOK /\ RequestOK(requests[q]) /\ RequestOK(requests'[q]) /\ Kept(requests'[q]) /\ Gate
      /\ CallPhase[q] = PhaseOf(requests[q])
  BY DEF ServedInv, ServiceInv, RequestsOK, CallPhase
<1>2. (\A p \in Requests : p # q => requests'[p] = requests[p]) /\ UNCHANGED WorkerClosed
  BY <1>1, HandledAlone
<1>3. ASSUME NEW x, requests' = [requests EXCEPT ![q].pc = x] PROVE requests'[q].pc = x
  <2>1. requests'[q] = [pc |-> x, ask |-> requests[q].ask, metric |-> requests[q].metric,
                        degraded |-> requests[q].degraded, at |-> requests[q].at,
                        payload |-> requests[q].payload, reply |-> requests[q].reply]
    BY <1>1, <1>3, Moved
  <2> QED
    BY <2>1
<1>4. ASSUME NEW y, Answered(q, y) PROVE requests'[q].pc = "answered" /\ requests'[q].reply = y
  <2>1. requests'[q] = [pc |-> "answered", ask |-> requests[q].ask, metric |-> requests[q].metric,
                        degraded |-> requests[q].degraded, at |-> requests[q].at,
                        payload |-> requests[q].payload, reply |-> y]
    BY <1>1, <1>4, AnsweredWith
  <2> QED
    BY <2>1
<1>5. CASE requests[q].pc \in {"unsent", "accepted", "found"} /\ requests'[q].pc \in {"accepted", "found"}
  <2>1. PhaseOf(requests[q]) = "out" /\ ~FromPayload(requests[q])
    BY <1>1, <1>5, UnansweredOut
  <2>2. PhaseOf(requests'[q]) = "out" /\ ~FromPayload(requests'[q])
    BY <1>1, <1>5, UnansweredOut
  <2> QED
    BY <1>2, <2>1, <2>2, CallStays
<1>6. ASSUME NEW x, requests[q].pc \in {"accepted", "found"}, Answered(q, Error(x)),
             x # "ALGORITHM_WORKER_UNAVAILABLE"
      PROVE  UNCHANGED <<CallPhase, CalculatedFor>>
  <2>1. PhaseOf(requests'[q]) = "out" /\ ~FromPayload(requests'[q])
    BY <1>4, <1>6, ErrorPhase
  <2>2. PhaseOf(requests[q]) = "out" /\ ~FromPayload(requests[q])
    BY <1>1, <1>6, UnansweredOut
  <2> QED
    BY <1>2, <2>1, <2>2, CallStays
<1>7. CASE \E ask \in Asks : Send(q, ask)
  <2>1. PICK ask \in Asks : Send(q, ask)
    BY <1>7
  <2>2. requests[q].pc = "unsent" /\ requests'[q] = [requests[q] EXCEPT !.pc = "accepted", !.ask = ask]
    BY <1>1, <2>1 DEF Send, RequestsOK
  <2>3. requests'[q].pc = "accepted"
    BY <1>1, <2>2 DEF RequestOK, IsRequest
  <2> QED
    BY <1>5, <2>2, <2>3
<1>8. CASE FindStatic(q)
  <2>1. CASE Answered(q, Error("STATIC_SNAPSHOT_NOT_FOUND"))
    BY <1>2, <1>6, <1>8, <2>1 DEF FindStatic
  <2>2. CASE requests' = [requests EXCEPT ![q].pc = "found"]
    BY <1>3, <1>5, <1>8, <2>2 DEF FindStatic
  <2> QED
    BY <1>8, <2>1, <2>2 DEF FindStatic
<1>9. CASE Prepare(q)
  <2>1. CASE Answered(q, Error(Problem(requests[q].ask)))
    <3>1. requests[q].pc = "found" /\ Problem(requests[q].ask) # "ALGORITHM_WORKER_UNAVAILABLE"
      BY <1>9, ErrorCodes DEF Prepare
    <3> QED
      BY <1>2, <1>6, <2>1, <3>1
  <2>2. CASE ~Answered(q, Error(Problem(requests[q].ask)))
    <3>1. requests[q].pc = "found"
      BY <1>9 DEF Prepare
    <3>2. requests'[q].pc = "waiting"
      <4> DEFINE metric == Resolve.snapshot
                 payload == JobOf(requests[q].ask, BoundMetrics(requests[q].ask, metric))
      <4>1. PICK degraded :
              requests' = [requests EXCEPT ![q].pc = "waiting", ![q].metric = metric, ![q].at = clock,
                                           ![q].degraded = degraded, ![q].payload = payload]
        BY <1>9, <2>2 DEF Prepare
      <4> HIDE DEF metric, payload
      <4>2. requests'[q] = [requests[q] EXCEPT !.pc = "waiting", !.metric = metric, !.at = clock,
                                               !.degraded = degraded, !.payload = payload]
        BY <1>1, <4>1 DEF RequestsOK
      <4> QED
        BY <1>1, <4>2 DEF RequestOK, IsRequest
    <3>3. PhaseOf(requests'[q]) = "waiting" /\ ~FromPayload(requests'[q])
      BY <1>1, <3>2, UnderPhase DEF Under
    <3>4. PhaseOf(requests[q]) = "out" /\ ~FromPayload(requests[q])
      BY <1>1, <3>1, UnansweredOut
    <3> QED
      BY <1>1, <1>2, <3>3, <3>4, CallMoves DEF Worker!Arrive
  <2> QED
    BY <2>1, <2>2
<1>10. CASE Call(q)
  <2>1. requests[q].pc = "waiting" /\ requests'[q].pc = "calculating" /\ ~WorkerClosed /\ pc = "idle"
    BY <1>3, <1>10 DEF Call, Receive
  <2>2. PhaseOf(requests'[q]) = "calculating" /\ ~FromPayload(requests'[q])
    BY <1>1, <2>1, UnderPhase DEF Under
  <2>3. PhaseOf(requests[q]) = "waiting" /\ ~FromPayload(requests[q])
    BY <1>1, <2>1, UnderPhase DEF Under
  <2>4. ASSUME NEW p \in Requests PROVE CallPhase[p] # "calculating"
    <3>1. requests[p].pc # "calculating"
      BY <1>1, <2>1 DEF Gate
    <3> QED
      BY <3>1 DEF CallPhase, PhaseOf
  <2> QED
    BY <1>1, <1>2, <2>1, <2>2, <2>3, <2>4, CallMoves DEF Worker!Begin
<1>11. CASE CallFails(q)
  <2>1. Under(requests[q]) /\ requests'[q].pc = "answered"
        /\ requests'[q].reply = Error("ALGORITHM_WORKER_UNAVAILABLE")
    BY <1>4, <1>11 DEF CallFails, Under
  <2>2. PhaseOf(requests'[q]) = "refused" /\ ~FromPayload(requests'[q])
    BY <2>1, ErrorPhase
  <2>3. PhaseOf(requests[q]) \in {"waiting", "calculating"} /\ ~FromPayload(requests[q])
    BY <1>1, <2>1, UnderPhase DEF Under
  <2> QED
    BY <1>1, <1>2, <2>2, <2>3, CallMoves DEF Worker!Refuse
<1>12. CASE Respond(q)
  <2>1. /\ requests[q].pc = "calculating" /\ requests'[q].pc = "answered"
        /\ requests'[q].reply.kind = "response"
    BY <1>4, <1>12, ReplyKinds DEF Respond, ReplyTo
  <2>2. PhaseOf(requests[q]) = "calculating"
    BY <1>1, <2>1, UnderPhase DEF Under
  <2>3. PhaseOf(requests'[q]) = "answered" /\ FromPayload(requests'[q])
    BY <1>1, <2>1 DEF PhaseOf, Under, FromPayload, Kept
  <2> QED
    BY <1>1, <1>2, <2>2, <2>3, OneCall DEF Worker!Answer
<1> QED
  BY <1>7, <1>8, <1>9, <1>10, <1>11, <1>12 DEF Handles

\* The service and its worker agree on what a call is: requests wait for the one worker,
\* are calculated one at a time, each answer was calculated from the request's own
\* payload, and none begins once the worker is closed (allocate, Application.Close).
\* PythonWorker implements the same SerialWorker.
THEOREM ServiceCallsSerially == ServiceSpec => Worker!SSpec
<1>1. ServiceInit => Worker!SInit
  <2> SUFFICES ASSUME ServiceInit PROVE Worker!SInit
    OBVIOUS
  <2>1. \A q \in Requests : PhaseOf(requests[q]) = "out" /\ ~FromPayload(requests[q])
    BY ReplyKinds DEF ServiceInit, Unsent, PhaseOf, FromPayload, Under, Error
  <2> QED
    BY <2>1 DEF Worker!SInit, CallPhase, CalculatedFor, ServiceInit, WorkerClosed
<1>2. ASSUME ServedInv, ServedInv', [ServiceNext]_svars
      PROVE  [Worker!SNext]_<<CallPhase, CalculatedFor, WorkerClosed>>
  <2>1. CASE \E q \in Requests : Handles(q) \/ CallFails(q) \/ \E ask \in Asks : Send(q, ask)
    BY <1>2, <2>1, WorkerStep
  <2>2. CASE ~\E q \in Requests : Handles(q) \/ CallFails(q) \/ \E ask \in Asks : Send(q, ask)
    <3>1. UNCHANGED requests /\ (WorkerClosed' = WorkerClosed \/ WorkerClosed' = TRUE)
      BY <1>2, <2>2 DEF ServiceNext, PoolWorks, MetricsWork, PutStatic, Start, BackgroundStarts,
                        StopRun, ServeReturns, BeginShutdown, DrainEnds, BeginCleaning,
                        EndCleaning, CloseReturns, ServeDone, svars, life, WorkerClosed
    <3>2. UNCHANGED <<CallPhase, CalculatedFor>>
      BY <3>1 DEF CallPhase, CalculatedFor
    <3> QED
      BY <3>1, <3>2 DEF Worker!SNext, Worker!Shut
  <2> QED
    BY <2>1, <2>2
<1> QED
  BY <1>1, <1>2, InitServedInv, ServedNext, PTL DEF ServiceSpec, Worker!SSpec, Worker!svars
=============================================================================
