---------------------------- MODULE PoolSelection ----------------------------
(***************************************************************************)
(* The Python worker's pipeline (algorithm_server/python/algorithm_worker):*)
(* Nodes are filtered, grouped by the domains of each topology level, and  *)
(* level by level, narrowest first, each group is walked through once in   *)
(* the order of the Nodes' scores, until the minimum is reached.  The      *)
(* first level with a pool is the last one; its best pools are offered.    *)
(*                                                                         *)
(* Groups of a level are taken in any order: the code's, by name, differs  *)
(* in the order of the diagnostics only.  The score of a pool is any of    *)
(* Scores.  total is history: what the selected Nodes have together, which *)
(* the code does not keep as such.                                         *)
(***************************************************************************)
EXTENDS NetworkTopology, FiniteSetsExt

CONSTANTS
  Jobs,       \* the jobs there may be
  NoJob,      \* the worker is idle
  Resources,  \* names of resources
  Scores,     \* scores of pools
  MaxGroups   \* pools offered at most; 3 in the code

\* Amounts of some of the resources, by name.
Amounts(values) ==
  DOMAIN values \subseteq Resources /\ values \in [DOMAIN values -> Nat]

\* Levels of the topology, narrowest first.
LevelsOf(mode) ==
  IF mode = "layered"
  THEN <<"leafDomain", "spineDomain", "borderDomain", "room", "dataCenter">>
  ELSE <<"leafDomain", "uplinkDomain", "room", "dataCenter">>

\* In a compatible topology a named spine or border counts as the uplink.
Order(mode, level) ==
  IF mode = "uplink-compatible" /\ level \in Uplinks THEN 2
  ELSE CHOOSE k \in DOMAIN LevelsOf(mode) : LevelsOf(mode)[k] = level

\* What the Go side makes sure of before it calls the worker.
WellFormed(j) ==
  /\ IsFiniteSet(j.nodes) /\ j.maxNodes \in Nat
  /\ j.mode \in {"layered", "uplink-compatible"}
  /\ \A level \in DOMAIN j.at :
       \/ j.mode = "uplink-compatible" /\ level \in Uplinks
       \/ \E k \in DOMAIN LevelsOf(j.mode) : LevelsOf(j.mode)[k] = level
  /\ \A level \in DOMAIN j.at : j.at[level] # NoDomain
  /\ j.mode = "uplink-compatible" /\ DOMAIN j.at \cap Uplinks # {} => "uplinkDomain" \in DOMAIN j.at
  /\ \A n \in j.nodes : Amounts(j.capacity[n]) /\ Amounts(j.requested[n])
  /\ Amounts(j.minimum) /\ Amounts(j.quota)
  /\ \A n \in j.nodes : j.score[n] \in Nat /\ j.order[n] \in Nat
  /\ \A n, m \in j.nodes : j.order[n] = j.order[m] => n = m

ASSUME PoolAssumption ==
  /\ NoJob \notin Jobs /\ MaxGroups \in Nat \ {0}
  /\ Scores # {} /\ Scores \subseteq Nat
  /\ \A j \in Jobs : WellFormed(j)

VARIABLES
  job,         \* what the worker calculates
  answer,      \* what it says
  pc,          \* the pipeline's next step
  matched,     \* Nodes that pass the selector,
  scoped,      \* and the topology constraints,
  eligible,    \* and are not in use
  tier,        \* the topology level under way
  todo,        \* its groups not yet walked
  group, rest, \* the group being walked; its Nodes not yet considered
  selected, totals, total,
  candidates,  \* pools found
  diagnostics  \* groups without a pool

walk  == <<group, rest, selected, totals, total>>
found == <<candidates, diagnostics>>
work  == <<pc, matched, scoped, eligible, tier, todo, walk, found>>
pvars == <<job, answer, work>>

NoAnswer == [kind |-> "none", pools |-> {}]
Failure(code, domain) == [kind |-> "failure", pools |-> {}, code |-> code, domain |-> domain]
Offer(pools) == [kind |-> "groups", pools |-> pools]

NoGroup == [nodes |-> {}, domain |-> NoDomain]
Nothing == [r \in Resources |-> 0]
Empty   == [r \in {} |-> 0]

PoolInit ==
  /\ job = NoJob /\ answer = NoAnswer /\ pc = "idle"
  /\ matched = {} /\ scoped = {} /\ eligible = {} /\ tier = 1 /\ todo = {}
  /\ group = NoGroup /\ rest = {} /\ selected = {} /\ totals = Empty /\ total = Nothing
  /\ candidates = {} /\ diagnostics = {}

-----------------------------------------------------------------------------
(* Jobs, and what is promised of a pool.                                   *)

\* _matches_expressions, and matchLabels.
MatchesExpression(labels, e) ==
  \/ e.operator = "In"     /\ e.key \in DOMAIN labels /\ labels[e.key] \in e.values
  \/ e.operator = "NotIn"  /\ (e.key \in DOMAIN labels => labels[e.key] \notin e.values)
  \/ e.operator = "Exists" /\ e.key \in DOMAIN labels
  \/ e.operator = "DoesNotExist" /\ e.key \notin DOMAIN labels

MatchesLabels(j, n) ==
  /\ \A key \in DOMAIN j.matchLabels :
       key \in DOMAIN j.labels[n] /\ j.labels[n][key] = j.matchLabels[key]
  /\ \A e \in j.expressions : MatchesExpression(j.labels[n], e)

Usable(j) ==
  {n \in j.nodes : MatchesLabels(j, n) /\ Matches(j.place[n], j.at) /\ n \notin j.busy}

\* What a Node has left, by the names of its capacity and of what is requested there.
Amount(values, r) == IF r \in DOMAIN values THEN values[r] ELSE 0
Available(j, n) ==
  [r \in DOMAIN j.capacity[n] \cup DOMAIN j.requested[n] |->
     IF Amount(j.capacity[n], r) > Amount(j.requested[n], r)
     THEN Amount(j.capacity[n], r) - Amount(j.requested[n], r) ELSE 0]

\* The widest level a pool may span: the narrowest one the demand constrains.
Allowed(j) ==
  {k \in DOMAIN LevelsOf(j.mode) : \A level \in DOMAIN j.at : k <= Order(j.mode, level)}

InOneDomain(j, nodes, k) ==
  \E n \in nodes : j.place[n][LevelsOf(j.mode)[k]] # NoDomain /\
    \A m \in nodes : j.place[m][LevelsOf(j.mode)[k]] = j.place[n][LevelsOf(j.mode)[k]]

\* All Nodes name the same resources, as they do in a cluster of one kind of machine.
SameNames(j) ==
  \A n, m \in j.nodes : DOMAIN Available(j, n) = DOMAIN Available(j, m)

\* A pool is its Nodes and what they have together.
Promised(j, pool) ==
  /\ pool.nodes # {} /\ pool.nodes \subseteq Usable(j)
  /\ Cardinality(pool.nodes) <= j.maxNodes
  /\ \E k \in Allowed(j) : InOneDomain(j, pool.nodes, k)
  /\ \A r \in DOMAIN j.minimum : pool.total[r] >= j.minimum[r]
  /\ SameNames(j) => \A r \in DOMAIN j.quota : pool.total[r] <= j.quota[r]

-----------------------------------------------------------------------------

Receive(j) ==
  /\ pc = "idle"
  /\ job' = j /\ pc' = "filter"
  /\ UNCHANGED <<answer, matched, scoped, eligible, tier, todo, walk, found>>

Filter ==
  /\ pc = "filter"
  /\ matched' = {n \in job.nodes : MatchesLabels(job, n)}
  /\ scoped' = {n \in matched' : Matches(job.place[n], job.at)}
  /\ eligible' = scoped' \ job.busy
  /\ pc' = "group" /\ UNCHANGED <<job, answer, tier, todo, walk, found>>

\* _group: the domains of a level and the Nodes in each.
DomainsAt(k) == {job.place[n][LevelsOf(job.mode)[k]] : n \in eligible} \ {NoDomain}
Groups(k) ==
  {[domain |-> d, nodes |-> {n \in eligible : job.place[n][LevelsOf(job.mode)[k]] = d}] :
     d \in DomainsAt(k)}

\* Mutant of LevelsToTry: the order of the widest constraint bounds the groups.
LevelsToTry_Widest ==
  {k \in DOMAIN LevelsOf(job.mode) :
     job.at = Empty \/ \E constrained \in DOMAIN job.at : k <= Order(job.mode, constrained)}

LevelsToTry == Allowed(job)

Group ==
  /\ pc = "group"
  /\ tier' = 1 /\ todo' = Groups(1)
  /\ pc' = "open" /\ UNCHANGED <<job, answer, matched, scoped, eligible, walk, found>>

\* Mutant of Open: what was selected in the former group is not dropped.
Open_KeepsSelected(g) ==
  /\ pc = "open" /\ g \in todo
  /\ group' = g /\ rest' = g.nodes /\ todo' = todo \ {g}
  /\ selected' = UNION {c.nodes : c \in candidates} /\ totals' = Empty /\ total' = Nothing
  /\ pc' = "walk" /\ UNCHANGED <<job, answer, matched, scoped, eligible, tier, found>>

Open(g) ==
  /\ pc = "open" /\ g \in todo
  /\ group' = g /\ rest' = g.nodes /\ todo' = todo \ {g}
  /\ selected' = {} /\ totals' = Empty /\ total' = Nothing
  /\ pc' = "walk" /\ UNCHANGED <<job, answer, matched, scoped, eligible, tier, found>>

Covers(amounts, minimum) == \A r \in DOMAIN minimum : Amount(amounts, r) >= minimum[r]
Enough == selected # {} /\ DOMAIN job.minimum # {} /\ Covers(totals, job.minimum)
Walked == rest = {} \/ Cardinality(selected) >= job.maxNodes \/ Enough

\* Only the names of the Node at hand: what was summed under other names is lost.
Proposed(n) ==
  [r \in DOMAIN Available(job, n) |-> Amount(totals, r) + Available(job, n)[r]]

\* Mutant of OverQuota: the quota is compared with what was selected before.
OverQuota_Before(n) == \E r \in DOMAIN job.quota : Amount(totals, r) > job.quota[r]

OverQuota(n) == \E r \in DOMAIN job.quota : Amount(Proposed(n), r) > job.quota[r]

\* By falling score, then by name.
Before(m, n) ==
  \/ job.score[m] > job.score[n]
  \/ job.score[m] = job.score[n] /\ job.order[m] < job.order[n]

\* The best Node left is taken, unless that would break the quota.
Consider(n) ==
  /\ pc = "walk" /\ ~Walked
  /\ n \in rest /\ \A m \in rest : ~Before(m, n)
  /\ rest' = rest \ {n}
  /\ IF OverQuota(n) THEN UNCHANGED <<selected, totals, total>>
     ELSE /\ selected' = selected \cup {n}
          /\ totals' = Proposed(n)
          /\ total' = [r \in Resources |-> total[r] + Amount(Available(job, n), r)]
  /\ UNCHANGED <<job, answer, pc, matched, scoped, eligible, tier, todo, group, found>>

\* _sum_resources, and the first k Nodes of the group.
SumOf(nodes) == [r \in Resources |-> MapThenSumSet(LAMBDA n : Amount(Available(job, n), r), nodes)]
First(nodes, k) == {n \in nodes : Cardinality({m \in nodes : Before(m, n)}) < k}

\* Mutant of Diagnosis: the limit on the number of Nodes is not considered.
Diagnosis_NoMaxNodes ==
  IF Covers(totals, job.minimum) THEN ""
  ELSE IF DOMAIN job.quota # {} /\ Covers(SumOf(First(group.nodes, job.maxNodes)), job.minimum)
  THEN "QUOTA_PREVENTS_MINIMUM" ELSE "INSUFFICIENT_RESOURCES"

\* Why the group has no pool.
Diagnosis ==
  IF Covers(totals, job.minimum) THEN ""
  ELSE IF DOMAIN job.quota # {} /\ Covers(SumOf(First(group.nodes, job.maxNodes)), job.minimum)
  THEN "QUOTA_PREVENTS_MINIMUM"
  ELSE IF job.maxNodes < Cardinality(group.nodes) /\ Covers(SumOf(group.nodes), job.minimum)
  THEN "MAX_NODES_PREVENTS_MINIMUM"
  ELSE "INSUFFICIENT_RESOURCES"

Found == selected # {} /\ Covers(totals, job.minimum)

Close(score) ==
  /\ pc = "walk" /\ Walked
  /\ \/ /\ Found
        /\ candidates' = candidates \cup
             {[nodes |-> selected, total |-> total, domain |-> group.domain, score |-> score]}
        /\ UNCHANGED diagnostics
     \/ /\ ~Found /\ UNCHANGED candidates
        /\ diagnostics' = diagnostics \cup
             {[domain |-> group.domain, code |-> Diagnosis,
               count |-> IF Covers(totals, job.minimum) THEN 0 ELSE Cardinality(selected)]}
  /\ group' = NoGroup /\ rest' = {} /\ selected' = {} /\ totals' = Empty /\ total' = Nothing
  /\ pc' = "open" /\ UNCHANGED <<job, answer, matched, scoped, eligible, tier, todo>>

\* Mutant of Narrowed: wider levels are tried although there is a pool.
Narrowed_Never == FALSE

\* NarrowestFit: a level with a pool is the last one.
Narrowed == candidates # {}

Widen ==
  /\ pc = "open" /\ todo = {} /\ ~Narrowed /\ tier + 1 \in LevelsToTry
  /\ tier' = tier + 1 /\ todo' = Groups(tier + 1)
  /\ UNCHANGED <<job, answer, pc, matched, scoped, eligible, walk, found>>

Exhausted == pc = "open" /\ todo = {} /\ (Narrowed \/ tier + 1 \notin LevelsToTry)

Refuse(code, domain) == answer' = Failure(code, domain)

\* _unsatisfied_failure: of several diagnoses, one of a group that got furthest.
Diagnosed == {d \in diagnostics : d.code # ""}
Unsatisfied ==
  /\ Exhausted /\ candidates = {}
  /\ \/ matched = {} /\ Refuse("NODE_SELECTOR_NO_MATCH", NoDomain)
     \/ matched # {} /\ scoped = {} /\ Refuse("NO_NODES_IN_TOPOLOGY_SCOPE", NoDomain)
     \/ scoped # {} /\ eligible = {} /\ Refuse("ALL_MATCHING_NODES_UNAVAILABLE", NoDomain)
     \/ /\ eligible # {}
        /\ \E d \in Diagnosed : /\ \A e \in Diagnosed : e.count <= d.count
                                /\ Refuse(d.code, d.domain)
     \/ /\ eligible # {} /\ Diagnosed = {}
        /\ Refuse(IF diagnostics = {} THEN "NO_TOPOLOGY_GROUP" ELSE "NO_FEASIBLE_NODE_GROUP", NoDomain)
  /\ pc' = "done" /\ UNCHANGED <<job, matched, scoped, eligible, tier, todo, walk, found>>

\* PipelineRunner.run: the best pools, three at most.
Best(pools) ==
  /\ pools \subseteq candidates
  /\ Cardinality(pools) =
       IF Cardinality(candidates) < MaxGroups THEN Cardinality(candidates) ELSE MaxGroups
  /\ \A p \in pools, q \in candidates \ pools : p.score >= q.score

Finish(pools) ==
  /\ Exhausted /\ candidates # {} /\ Best(pools)
  /\ answer' = Offer(pools)
  /\ pc' = "done" /\ UNCHANGED <<job, matched, scoped, eligible, tier, todo, walk, found>>

\* The answer's line is written, or the process is killed: the worker is idle again.
Release ==
  /\ job # NoJob
  /\ job' = NoJob /\ answer' = NoAnswer /\ pc' = "idle"
  /\ matched' = {} /\ scoped' = {} /\ eligible' = {} /\ tier' = 1 /\ todo' = {}
  /\ group' = NoGroup /\ rest' = {} /\ selected' = {} /\ totals' = Empty /\ total' = Nothing
  /\ candidates' = {} /\ diagnostics' = {}

PoolStep ==
  \/ Filter \/ Group \/ Widen \/ Unsatisfied
  \/ \E g \in todo : Open(g)
  \/ \E n \in rest : Consider(n)
  \/ \E s \in Scores : Close(s)
  \/ \E pools \in SUBSET candidates : Finish(pools)

PoolNext == (job = NoJob /\ \E j \in Jobs : Receive(j)) \/ PoolStep \/ Release
PoolSpec == PoolInit /\ [][PoolNext]_pvars /\ WF_pvars(PoolStep)

-----------------------------------------------------------------------------
(* Properties.                                                             *)

PoolTypeOK ==
  /\ job \in Jobs \cup {NoJob}
  /\ pc \in {"idle", "filter", "group", "open", "walk", "done"}
  /\ (pc = "idle") = (job = NoJob)
  /\ (pc = "done") = (answer # NoAnswer)
  /\ eligible \subseteq scoped /\ scoped \subseteq matched
  /\ matched # {} => matched \subseteq job.nodes
  /\ rest \cup selected \subseteq group.nodes /\ rest \cap selected = {}
  /\ group.nodes \subseteq eligible
  /\ \A g \in todo : g.nodes \subseteq eligible
  /\ tier \in 1..5
  /\ total \in [Resources -> Nat] /\ Amounts(totals)

\* What the answer says of its pools.
Said == [kind |-> answer.kind,
         pools |-> {[nodes |-> p.nodes, total |-> p.total] : p \in answer.pools}]

\* The pipeline implements the promise: whatever groups overlap, are passed over or
\* run out, each pool offered keeps to it, and every job gets an answer.
Promise == INSTANCE PoolPromise WITH answer <- Said
PoolPromised == Promise!PSpec

Offered == answer.pools

\* The quota holds for what the Nodes of a pool have together
\* (algorithm_server/README.md:132: "never exceeds maxNodes and quota").
QuotaRespected ==
  \A pool \in Offered : \A r \in DOMAIN job.quota : SumOf(pool.nodes)[r] <= job.quota[r]

\* If a group could be granted whole there is a pool, in no wider a domain, when all
\* Nodes name the same resources: the greedy walk takes as much of the group as it
\* needs (NarrowestFit).
Whole(nodes) ==
  /\ Cardinality(nodes) <= job.maxNodes /\ nodes # {}
  /\ Covers(SumOf(nodes), job.minimum)
  /\ \A r \in DOMAIN job.quota : SumOf(nodes)[r] <= job.quota[r]
NarrowestWhole ==
  pc = "done" /\ SameNames(job) =>
    \A k \in Allowed(job) : \A g \in Groups(k) :
      Whole(g.nodes) =>
        /\ Offered # {}
        /\ \E narrow \in 1..k : \A pool \in Offered : InOneDomain(job, pool.nodes, narrow)

\* A refusal for lack of resources is true, when all Nodes name the same resources:
\* the group it speaks of cannot reach the minimum even with all of its Nodes.
InsufficientIsTrue ==
  answer.kind = "failure" /\ SameNames(job)
    /\ answer.code = "INSUFFICIENT_RESOURCES" =>
      \E k \in DOMAIN LevelsOf(job.mode) : \E g \in Groups(k) :
        g.domain = answer.domain /\ ~Covers(SumOf(g.nodes), job.minimum)

\* Where domains nest, a pool keeps every level the demand wants to be the same, not
\* only the narrowest.
Nested ==
  \A k, w \in DOMAIN LevelsOf(job.mode) : k < w =>
    \A n, m \in job.nodes :
      LET Here(x, l) == job.place[x][LevelsOf(job.mode)[l]]
      IN Here(n, k) = Here(m, k) /\ Here(n, k) # NoDomain => Here(n, w) = Here(m, w)
RequiredSameWhenNested ==
  \A pool \in Offered :
    Nested => \A constrained \in DOMAIN job.at :
      InOneDomain(job, pool.nodes, Order(job.mode, constrained))
=============================================================================
