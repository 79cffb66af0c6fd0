------------------------ MODULE PoolSelectionProofs ------------------------
(***************************************************************************)
(* Proofs about PoolSelection, for any jobs, resources and scores: types,  *)
(* where the Nodes of a pool come from, that the pipeline implements       *)
(* PoolPromise, its liveness apart, what its sums are sums of, and that    *)
(* its walk is thorough.                                                   *)
(***************************************************************************)
EXTENDS PoolSelection, FiniteSetTheorems, TLAPS

-----------------------------------------------------------------------------
(* Facts about jobs and levels.                                            *)

LEMMA JobFacts ==
  ASSUME NEW j \in Jobs
  PROVE  /\ IsFiniteSet(j.nodes) /\ j.maxNodes \in Nat
         /\ j.mode \in {"layered", "uplink-compatible"}
         /\ \A n \in j.nodes : Amounts(j.capacity[n]) /\ Amounts(j.requested[n])
         /\ Amounts(j.minimum) /\ Amounts(j.quota)
BY PoolAssumption DEF WellFormed

LEMMA NoJobFacts == NoJob \notin Jobs /\ MaxGroups \in Nat \ {0}
BY PoolAssumption

LEMMA LevelsDomain ==
  \A mode : DOMAIN LevelsOf(mode) = IF mode = "layered" THEN 1..5 ELSE 1..4
BY DEF LevelsOf

\* The narrowest level is always allowed.
LEMMA FirstAllowed ==
  ASSUME NEW j \in Jobs
  PROVE  1 \in Allowed(j)
<1> SUFFICES ASSUME NEW level \in DOMAIN j.at PROVE 1 <= Order(j.mode, level)
  BY LevelsDomain DEF Allowed
<1>1. CASE j.mode = "uplink-compatible" /\ level \in Uplinks
  BY <1>1 DEF Order
<1>2. CASE ~(j.mode = "uplink-compatible" /\ level \in Uplinks)
  <2>1. \E k \in DOMAIN LevelsOf(j.mode) : LevelsOf(j.mode)[k] = level
    BY <1>2, PoolAssumption DEF WellFormed
  <2>2. Order(j.mode, level) = CHOOSE k \in DOMAIN LevelsOf(j.mode) : LevelsOf(j.mode)[k] = level
    BY <1>2 DEF Order
  <2>3. Order(j.mode, level) \in DOMAIN LevelsOf(j.mode)
    BY <2>1, <2>2
  <2> QED
    BY <2>3, LevelsDomain
<1> QED
  BY <1>1, <1>2

LEMMA AllowedLevels == \A j : Allowed(j) \subseteq 1..5
BY LevelsDomain DEF Allowed

LEMMA AvailableAmounts ==
  ASSUME NEW j \in Jobs, NEW n \in j.nodes
  PROVE  Amounts(Available(j, n))
<1> DEFINE names == DOMAIN j.capacity[n] \cup DOMAIN j.requested[n]
<1>1. Amounts(j.capacity[n]) /\ Amounts(j.requested[n])
  BY JobFacts
<1>2. \A r : Amount(j.capacity[n], r) \in Nat /\ Amount(j.requested[n], r) \in Nat
  BY <1>1 DEF Amounts, Amount
<1>3. DOMAIN Available(j, n) = names
  BY DEF Available
<1>4. \A r \in names : Available(j, n)[r] \in Nat
  BY <1>2 DEF Available
<1>5. names \subseteq Resources
  BY <1>1 DEF Amounts
<1> HIDE DEF names
<1>6. Available(j, n) = [r \in names |-> Available(j, n)[r]]
  BY <1>3 DEF Available, names
<1> QED
  BY <1>3, <1>4, <1>5, <1>6 DEF Amounts

LEMMA AmountType ==
  ASSUME NEW values, Amounts(values), NEW r
  PROVE  Amount(values, r) \in Nat
BY DEF Amounts, Amount

-----------------------------------------------------------------------------
(* Where Nodes come from: this part needs nothing of the job.              *)

Phase == {"idle", "filter", "group", "open", "walk", "done"}

IsPool(c) == c = [nodes |-> c.nodes, total |-> c.total, domain |-> c.domain, score |-> c.score]

PoolFlow ==
  /\ pc \in Phase
  /\ pc = "idle" => job = NoJob
  /\ pc # "done" => answer = NoAnswer
  /\ pc \in {"idle", "filter"} => matched = {} /\ scoped = {} /\ eligible = {}
  /\ pc \in {"idle", "filter", "group"} => tier = 1 /\ todo = {} /\ candidates = {}
  /\ pc # "walk" => group = NoGroup /\ rest = {} /\ selected = {} /\ totals = Empty /\ total = Nothing
  /\ scoped \subseteq matched /\ eligible \subseteq scoped
  /\ pc \notin {"idle", "filter"} => eligible \subseteq Usable(job) /\ matched \subseteq job.nodes
  /\ tier \in 1..5
  /\ \A g \in todo : g \in Groups(tier)
  /\ pc = "walk" => group \in Groups(tier)
  /\ rest \cup selected \subseteq group.nodes /\ rest \cap selected = {}
  /\ \A c \in candidates : IsPool(c) /\ c.nodes # {} /\ c.nodes \subseteq eligible
  /\ answer.pools \subseteq candidates

LEMMA GroupNodes == \A k : \A g \in Groups(k) : g.nodes \subseteq eligible
BY DEF Groups

LEMMA FlowInit == PoolInit => PoolFlow
BY DEF PoolInit, PoolFlow, Phase, NoGroup, NoAnswer

LEMMA FlowReceive ==
  ASSUME PoolFlow, NEW j, Receive(j)
  PROVE  PoolFlow'
BY DEF PoolFlow, Receive, Phase, walk, found, Groups, DomainsAt, IsPool, NoGroup, NoAnswer

LEMMA FlowFilter == PoolFlow /\ Filter => PoolFlow'
<1> SUFFICES ASSUME PoolFlow, Filter PROVE PoolFlow'
  OBVIOUS
<1> USE DEF PoolFlow, Filter, walk, found, Phase
<1>1. eligible' \subseteq Usable(job) /\ matched' \subseteq job.nodes
  BY DEF Usable
<1>2. scoped' \subseteq matched' /\ eligible' \subseteq scoped'
  OBVIOUS
<1>3. todo' = {} /\ candidates' = {} /\ tier' = 1 /\ pc' = "group"
  OBVIOUS
<1> QED
  BY <1>1, <1>2, <1>3 DEF NoGroup, Usable, Groups, IsPool

LEMMA FlowGroup == PoolFlow /\ Group => PoolFlow'
<1> SUFFICES ASSUME PoolFlow, Group PROVE PoolFlow'
  OBVIOUS
<1> USE DEF PoolFlow, Group, walk, found, Phase
<1>1. \A g \in todo' : g \in Groups(tier)'
  BY DEF Groups, DomainsAt
<1> QED
  BY <1>1 DEF NoGroup, Usable, IsPool

LEMMA FlowOpen ==
  ASSUME PoolFlow, NEW g \in todo, Open(g)
  PROVE  PoolFlow'
<1> USE DEF PoolFlow, Open, found, Phase
<1>1. \A h : (h \in Groups(tier)) = (h \in Groups(tier)')
  BY DEF Groups, DomainsAt
<1> QED
  BY <1>1 DEF NoGroup, Usable, IsPool

LEMMA FlowConsider ==
  ASSUME PoolFlow, NEW n \in rest, Consider(n)
  PROVE  PoolFlow'
<1> USE DEF PoolFlow, Phase
<1>1. UNCHANGED <<job, answer, pc, matched, scoped, eligible, tier, todo, group, candidates, diagnostics>>
  BY DEF Consider, found
<1>2. \A h : (h \in Groups(tier)) = (h \in Groups(tier)')
  BY <1>1 DEF Groups, DomainsAt
<1>3. rest' = rest \ {n} /\ selected' \subseteq selected \cup {n} /\ (n \notin selected' \/ n \notin rest')
  BY DEF Consider
<1>4. rest' \cup selected' \subseteq group.nodes /\ rest' \cap selected' = {} /\ pc = "walk"
  BY <1>3 DEF Consider
<1> QED
  BY <1>1, <1>2, <1>4 DEF Usable, IsPool

LEMMA FlowClose ==
  ASSUME PoolFlow, NEW s \in Scores, Close(s)
  PROVE  PoolFlow'
<1> USE DEF PoolFlow, Phase
<1>1. UNCHANGED <<job, answer, matched, scoped, eligible, tier, todo>> /\ pc = "walk" /\ pc' = "open"
  BY DEF Close
<1>2. \A h : (h \in Groups(tier)) = (h \in Groups(tier)')
  BY <1>1 DEF Groups, DomainsAt
<1>3. group' = NoGroup /\ rest' = {} /\ selected' = {} /\ totals' = Empty /\ total' = Nothing
  BY DEF Close
<1>4. selected \subseteq eligible
  BY <1>1, GroupNodes
<1>5. candidates \subseteq candidates' /\ \A c \in candidates' \ candidates :
        c = [nodes |-> selected, total |-> total, domain |-> group.domain, score |-> s] /\ selected # {}
  BY DEF Close, Found
<1>6. \A c \in candidates' : IsPool(c) /\ c.nodes # {} /\ c.nodes \subseteq eligible
  BY <1>4, <1>5 DEF IsPool
<1> QED
  BY <1>1, <1>2, <1>3, <1>5, <1>6 DEF NoGroup, Usable, IsPool

LEMMA FlowWiden == PoolFlow /\ Widen => PoolFlow'
<1> SUFFICES ASSUME PoolFlow, Widen PROVE PoolFlow'
  OBVIOUS
<1> USE DEF PoolFlow, Widen, walk, found, Phase
<1>1. \A g \in todo' : g \in Groups(tier)'
  BY DEF Groups, DomainsAt
<1>2. tier' \in 1..5
  BY AllowedLevels DEF LevelsToTry
<1> QED
  BY <1>1, <1>2 DEF NoGroup, Usable, IsPool

LEMMA FlowUnsatisfied == PoolFlow /\ Unsatisfied => PoolFlow'
<1> SUFFICES ASSUME PoolFlow, Unsatisfied PROVE PoolFlow'
  OBVIOUS
<1> USE DEF PoolFlow, Phase
<1>1. /\ UNCHANGED <<job, matched, scoped, eligible, tier, todo, walk, found>>
      /\ pc = "open" /\ pc' = "done"
  BY DEF Unsatisfied, Exhausted
<1>2. answer'.pools = {}
  BY DEF Unsatisfied, Refuse, Failure
<1>3. \A h : (h \in Groups(tier)) = (h \in Groups(tier)')
  BY <1>1 DEF Groups, DomainsAt
<1> QED
  BY <1>1, <1>2, <1>3 DEF walk, found, NoGroup, Usable, IsPool

LEMMA FlowFinish ==
  ASSUME PoolFlow, NEW pools \in SUBSET candidates, Finish(pools)
  PROVE  PoolFlow'
<1> USE DEF PoolFlow, Phase
<1>1. /\ UNCHANGED <<job, matched, scoped, eligible, tier, todo, walk, found>>
      /\ pc = "open" /\ pc' = "done" /\ answer'.pools = pools
  BY DEF Finish, Exhausted, Offer
<1>2. \A h : (h \in Groups(tier)) = (h \in Groups(tier)')
  BY <1>1 DEF Groups, DomainsAt
<1> QED
  BY <1>1, <1>2 DEF walk, found, NoGroup, Usable, IsPool

LEMMA FlowRelease == PoolFlow /\ Release => PoolFlow'
BY DEF PoolFlow, Release, Phase, NoGroup, NoAnswer

LEMMA FlowStep == PoolFlow /\ PoolStep => PoolFlow'
BY FlowFilter, FlowGroup, FlowOpen, FlowConsider, FlowClose, FlowWiden, FlowUnsatisfied, FlowFinish
   DEF PoolStep

LEMMA FlowUnchanged == PoolFlow /\ UNCHANGED pvars => PoolFlow'
BY DEF PoolFlow, pvars, work, walk, found, Groups, DomainsAt, IsPool, Usable, Phase

-----------------------------------------------------------------------------
(* What pools weigh: types, limits and sums.                               *)

\* What has been selected in the group at hand.
Weight ==
  /\ IsFiniteSet(selected) /\ Cardinality(selected) <= job.maxNodes
  /\ \A r \in Resources : Amount(totals, r) <= total[r]
  /\ \A r \in DOMAIN job.quota : Amount(totals, r) <= job.quota[r]
  /\ SameNames(job) =>
       /\ \A r \in Resources : Amount(totals, r) = total[r]
       /\ \A n \in job.nodes : DOMAIN totals \subseteq DOMAIN Available(job, n)

Weighed ==
  /\ pc \in {"open", "walk"} => tier \in Allowed(job)
  /\ pc = "walk" => Weight
  /\ IsFiniteSet(candidates)
  /\ \A c \in candidates : Promised(job, c)

PoolInv == PoolFlow /\ PoolTypeOK /\ Weighed

LEMMA WorkingJob == PoolTypeOK /\ pc # "idle" => job \in Jobs
BY DEF PoolTypeOK

LEMMA EmptyAmounts ==
  /\ Amounts(Empty) /\ Nothing \in [Resources -> Nat] /\ DOMAIN Empty = {}
  /\ \A r \in Resources : Amount(Empty, r) = 0 /\ Nothing[r] = 0
  /\ \A r : Amount(Empty, r) = 0
BY DEF Amounts, Empty, Nothing, Amount

LEMMA InitWeighed == PoolInit => PoolTypeOK /\ Weighed
<1> SUFFICES ASSUME PoolInit PROVE PoolTypeOK /\ Weighed
  OBVIOUS
<1>1. PoolTypeOK
  BY EmptyAmounts DEF PoolInit, PoolTypeOK, NoGroup
<1>2. Weighed
  BY FS_EmptySet DEF PoolInit, Weighed
<1> QED
  BY <1>1, <1>2

LEMMA ReceiveWeighed ==
  ASSUME PoolInv, NEW j \in Jobs, Receive(j)
  PROVE  PoolTypeOK' /\ Weighed'
<1> USE DEF PoolInv, Receive, walk, found
<1>1. job' \in Jobs /\ job' # NoJob /\ pc = "idle" /\ pc' = "filter" /\ candidates = {}
  BY NoJobFacts DEF PoolFlow
<1>2. PoolTypeOK'
  BY <1>1 DEF PoolTypeOK, PoolFlow, Amounts
<1>3. Weighed'
  BY <1>1 DEF Weighed
<1> QED
  BY <1>2, <1>3

LEMMA FilterWeighed == PoolInv /\ Filter => PoolTypeOK' /\ Weighed'
<1> SUFFICES ASSUME PoolInv, Filter PROVE PoolTypeOK' /\ Weighed'
  OBVIOUS
<1> USE DEF PoolInv, Filter, walk, found
<1>1. matched' \subseteq job.nodes /\ scoped' \subseteq matched' /\ eligible' \subseteq scoped'
  OBVIOUS
<1>2. todo = {} /\ candidates = {} /\ group = NoGroup /\ rest = {} /\ selected = {}
  BY DEF PoolFlow
<1>3. PoolTypeOK'
  BY <1>1, <1>2 DEF PoolTypeOK, NoGroup, Amounts
<1>4. Weighed'
  BY <1>2 DEF Weighed
<1> QED
  BY <1>3, <1>4

LEMMA GroupWeighed == PoolInv /\ Group => PoolTypeOK' /\ Weighed'
<1> SUFFICES ASSUME PoolInv, Group PROVE PoolTypeOK' /\ Weighed'
  OBVIOUS
<1> USE DEF PoolInv, Group, walk, found
<1>1. \A g \in todo' : g.nodes \subseteq eligible
  BY GroupNodes
<1>2. PoolTypeOK'
  BY <1>1 DEF PoolTypeOK, Amounts
<1>3. 1 \in Allowed(job) /\ candidates = {}
  BY FirstAllowed, WorkingJob DEF PoolFlow
<1>4. Weighed'
  BY <1>3 DEF Weighed, Allowed
<1> QED
  BY <1>2, <1>4

LEMMA OpenWeighed ==
  ASSUME PoolInv, NEW g \in todo, Open(g)
  PROVE  PoolTypeOK' /\ Weighed'
<1> USE DEF PoolInv, Open, found
<1>1. g.nodes \subseteq eligible /\ job \in Jobs
  BY GroupNodes, WorkingJob DEF PoolFlow
<1>2. PoolTypeOK'
  BY <1>1, EmptyAmounts DEF PoolTypeOK, Amounts
<1>3. Weight'
  <2>1. IsFiniteSet(selected') /\ Cardinality(selected') <= job.maxNodes
    BY <1>1, FS_EmptySet, JobFacts
  <2>2. \A r \in DOMAIN job.quota : 0 <= job.quota[r]
    BY <1>1, JobFacts DEF Amounts
  <2>3. /\ \A r \in Resources : Amount(totals', r) = 0 /\ total'[r] = 0
        /\ \A r : Amount(totals', r) = 0
        /\ DOMAIN totals' = {} /\ job' = job
    BY EmptyAmounts
  <2> QED
    BY <2>1, <2>2, <2>3 DEF Weight
<1>4. Weighed'
  BY <1>3 DEF Weighed, Allowed
<1> QED
  BY <1>2, <1>4

LEMMA ConsiderWeighed ==
  ASSUME PoolInv, NEW n \in rest, Consider(n)
  PROVE  PoolTypeOK' /\ Weighed'
<1> USE DEF PoolInv
<1>1. /\ UNCHANGED <<job, answer, pc, matched, scoped, eligible, tier, todo, group, candidates, diagnostics>>
      /\ pc = "walk" /\ ~Walked
  BY DEF Consider, found
<1>2. job \in Jobs /\ n \in job.nodes
  BY <1>1, WorkingJob, GroupNodes DEF PoolFlow
<1>3. rest' \cup selected' \subseteq group.nodes /\ rest' \cap selected' = {}
  BY DEF Consider, PoolFlow
<1>4. CASE OverQuota(n)
  <2>1. UNCHANGED <<selected, totals, total>>
    BY <1>4 DEF Consider
  <2>2. PoolTypeOK'
    BY <1>1, <1>3, <2>1 DEF PoolTypeOK, Amounts
  <2>3. Weighed'
    BY <1>1, <2>1 DEF Weighed, Weight
  <2> QED
    BY <2>2, <2>3
<1>5. CASE ~OverQuota(n)
  <2> DEFINE left == Available(job, n)
  <2>1. /\ selected' = selected \cup {n} /\ totals' = Proposed(n)
        /\ total' = [r \in Resources |-> total[r] + Amount(left, r)]
    BY <1>5 DEF Consider
  <2>2. Amounts(left) /\ Amounts(totals) /\ total \in [Resources -> Nat]
    BY <1>2, AvailableAmounts DEF PoolTypeOK
  <2>3. \A r : Amount(totals, r) \in Nat /\ Amount(left, r) \in Nat
    BY <2>2, AmountType
  <2>4. /\ DOMAIN totals' = DOMAIN left
        /\ \A r \in DOMAIN left : totals'[r] = Amount(totals, r) + left[r]
        /\ totals' = [r \in DOMAIN left |-> Amount(totals, r) + left[r]]
    BY <2>1 DEF Proposed
  <2> HIDE DEF left
  <2>5. \A r : Amount(totals', r) = IF r \in DOMAIN left THEN Amount(totals, r) + Amount(left, r) ELSE 0
    BY <2>4 DEF Amount
  <2>6. \A r \in Resources : total[r] \in Nat /\ total'[r] = total[r] + Amount(left, r)
    BY <2>1, <2>2
  <2>7. Amounts(totals') /\ total' \in [Resources -> Nat]
    <3>1. \A r \in DOMAIN left : Amount(totals, r) + left[r] \in Nat
      BY <2>2, <2>3 DEF Amounts
    <3>2. Amounts(totals')
      BY <3>1, <2>2, <2>4 DEF Amounts
    <3>3. total' \in [Resources -> Nat]
      BY <2>1, <2>3, <2>6
    <3> QED
      BY <3>2, <3>3
  <2>8. PoolTypeOK'
    BY <1>1, <1>3, <2>7 DEF PoolTypeOK
  <2>9. Weight'
    <3>1. IsFiniteSet(selected') /\ Cardinality(selected') <= job.maxNodes
      <4>1. IsFiniteSet(selected) /\ Cardinality(selected) < job.maxNodes
        <5>1. Cardinality(selected) \in Nat /\ job.maxNodes \in Nat
          BY <1>1, <1>2, FS_CardinalityType, JobFacts DEF Weighed, Weight
        <5> QED
          BY <1>1, <5>1 DEF Weighed, Weight, Walked
      <4>2. Cardinality(selected \cup {n}) \in {Cardinality(selected), Cardinality(selected) + 1}
        BY <4>1, FS_AddElement
      <4> QED
        BY <4>1, <4>2, <2>1, <1>2, FS_AddElement, FS_CardinalityType, JobFacts
    <3>2. \A r \in Resources : Amount(totals', r) <= total'[r]
      <4> SUFFICES ASSUME NEW r \in Resources PROVE Amount(totals', r) <= total'[r]
        OBVIOUS
      <4>1. Amount(totals, r) <= total[r]
        BY <1>1 DEF Weighed, Weight
      <4> QED
        BY <4>1, <2>3, <2>5, <2>6
    <3>3. \A r \in DOMAIN job.quota : Amount(totals', r) <= job.quota[r]
      <4> SUFFICES ASSUME NEW r \in DOMAIN job.quota PROVE Amount(totals', r) <= job.quota[r]
        OBVIOUS
      <4>1. Amount(totals', r) \in Nat /\ job.quota[r] \in Nat
        BY <1>2, <2>7, AmountType, JobFacts DEF Amounts
      <4>2. ~(Amount(totals', r) > job.quota[r])
        BY <1>5, <2>1 DEF OverQuota
      <4> QED
        BY <4>1, <4>2
    <3>4. ASSUME SameNames(job)
          PROVE  /\ \A r \in Resources : Amount(totals', r) = total'[r]
                 /\ \A m \in job.nodes : DOMAIN totals' \subseteq DOMAIN Available(job, m)
      <4>1. \A m \in job.nodes : DOMAIN Available(job, m) = DOMAIN left
        BY <1>2, <3>4 DEF SameNames, left
      <4>2. DOMAIN totals \subseteq DOMAIN left
        BY <1>1, <1>2, <3>4, <4>1 DEF Weighed, Weight
      <4>3. \A r \in Resources : Amount(totals, r) = total[r]
        BY <1>1, <3>4 DEF Weighed, Weight
      <4>4. \A r : r \notin DOMAIN left => Amount(totals, r) = 0 /\ Amount(left, r) = 0
        BY <4>2 DEF Amount
      <4>5. \A r \in Resources : Amount(totals', r) = total'[r]
        BY <4>3, <4>4, <2>3, <2>5, <2>6
      <4> QED
        BY <4>1, <4>5, <2>4
    <3> QED
      BY <3>1, <3>2, <3>3, <3>4, <1>1 DEF Weight, SameNames
  <2>10. Weighed'
    BY <2>9, <1>1 DEF Weighed
  <2> QED
    BY <2>8, <2>10
<1> QED
  BY <1>4, <1>5

\* What is closed with enough is what was promised.
LEMMA SelectedPromised ==
  ASSUME PoolInv, pc = "walk", Found, NEW pool,
         pool.nodes = selected, pool.total = total
  PROVE  Promised(job, pool)
<1> USE DEF PoolInv
<1>1. job \in Jobs /\ Weight /\ tier \in Allowed(job) /\ group \in Groups(tier)
  BY WorkingJob DEF Weighed, PoolFlow
<1>2. Amounts(job.minimum) /\ Amounts(job.quota) /\ Amounts(totals) /\ total \in [Resources -> Nat]
  BY <1>1, JobFacts DEF PoolTypeOK
<1>3. selected # {} /\ selected \subseteq Usable(job)
  BY <1>1, GroupNodes DEF Found, PoolFlow
<1>4. InOneDomain(job, selected, tier)
  <2>1. PICK d \in DomainsAt(tier) :
          group.nodes = {n \in eligible : job.place[n][LevelsOf(job.mode)[tier]] = d}
    BY <1>1 DEF Groups
  <2>2. d # NoDomain /\ selected \subseteq group.nodes
    BY <2>1 DEF DomainsAt, PoolFlow
  <2>3. \A n \in selected : job.place[n][LevelsOf(job.mode)[tier]] = d
    BY <2>1, <2>2
  <2> QED
    BY <2>2, <2>3, <1>3 DEF InOneDomain
<1>5. ASSUME NEW r \in DOMAIN job.minimum PROVE total[r] >= job.minimum[r]
  <2>1. r \in Resources /\ job.minimum[r] \in Nat /\ total[r] \in Nat
    BY <1>2 DEF Amounts
  <2>2. Amount(totals, r) \in Nat /\ Amount(totals, r) <= total[r]
    BY <1>1, <1>2, <2>1, AmountType DEF Weight
  <2>3. Amount(totals, r) >= job.minimum[r]
    BY DEF Found, Covers
  <2> QED
    BY <2>1, <2>2, <2>3
<1>6. ASSUME SameNames(job), NEW r \in DOMAIN job.quota PROVE total[r] <= job.quota[r]
  BY <1>1, <1>2, <1>6 DEF Weight, Amounts
<1>7. Cardinality(selected) <= job.maxNodes
  BY <1>1 DEF Weight
<1> QED
  BY <1>1, <1>3, <1>4, <1>5, <1>6, <1>7 DEF Promised

LEMMA CloseWeighed ==
  ASSUME PoolInv, NEW s \in Scores, Close(s)
  PROVE  PoolTypeOK' /\ Weighed'
<1> USE DEF PoolInv
<1>1. /\ UNCHANGED <<job, answer, matched, scoped, eligible, tier, todo>>
      /\ pc = "walk" /\ pc' = "open"
      /\ group' = NoGroup /\ rest' = {} /\ selected' = {} /\ totals' = Empty /\ total' = Nothing
  BY DEF Close
<1>2. PoolTypeOK'
  BY <1>1, EmptyAmounts DEF PoolTypeOK, NoGroup
<1>3. IsFiniteSet(candidates') /\ \A c \in candidates' : Promised(job, c)
  <2>1. CASE ~Found
    BY <2>1 DEF Close, Weighed
  <2>2. CASE Found
    <3> DEFINE pool == [nodes |-> selected, total |-> total, domain |-> group.domain, score |-> s]
    <3>1. candidates' = candidates \cup {pool}
      BY <2>2 DEF Close
    <3>2. Promised(job, pool)
      BY <1>1, <2>2, SelectedPromised
    <3> HIDE DEF pool
    <3> QED
      BY <3>1, <3>2, FS_AddElement DEF Weighed
  <2> QED
    BY <2>1, <2>2
<1>4. Weighed'
  BY <1>1, <1>3 DEF Weighed, Allowed
<1> QED
  BY <1>2, <1>4

LEMMA WidenWeighed == PoolInv /\ Widen => PoolTypeOK' /\ Weighed'
<1> SUFFICES ASSUME PoolInv, Widen PROVE PoolTypeOK' /\ Weighed'
  OBVIOUS
<1> USE DEF PoolInv, Widen, walk, found
<1>1. (\A g \in todo' : g.nodes \subseteq eligible) /\ tier' \in Allowed(job)
  BY GroupNodes DEF LevelsToTry
<1>2. PoolTypeOK'
  BY <1>1, AllowedLevels DEF PoolTypeOK, Amounts
<1>3. Weighed'
  BY <1>1 DEF Weighed, Allowed
<1> QED
  BY <1>2, <1>3

LEMMA UnsatisfiedWeighed == PoolInv /\ Unsatisfied => PoolTypeOK' /\ Weighed'
<1> SUFFICES ASSUME PoolInv, Unsatisfied PROVE PoolTypeOK' /\ Weighed'
  OBVIOUS
<1> USE DEF PoolInv
<1>1. /\ UNCHANGED <<job, matched, scoped, eligible, tier, todo, walk, found>>
      /\ pc = "open" /\ pc' = "done"
  BY DEF Unsatisfied, Exhausted
<1>2. answer' # NoAnswer
  <2>1. answer'.kind = "failure"
    BY DEF Unsatisfied, Refuse, Failure
  <2> QED
    BY <2>1 DEF NoAnswer
<1>3. PoolTypeOK'
  BY <1>1, <1>2 DEF PoolTypeOK, Amounts, walk, found
<1>4. Weighed'
  BY <1>1 DEF Weighed, walk, found
<1> QED
  BY <1>3, <1>4

LEMMA FinishWeighed ==
  ASSUME PoolInv, NEW pools \in SUBSET candidates, Finish(pools)
  PROVE  PoolTypeOK' /\ Weighed'
<1> USE DEF PoolInv
<1>1. /\ UNCHANGED <<job, matched, scoped, eligible, tier, todo, walk, found>>
      /\ pc = "open" /\ pc' = "done"
  BY DEF Finish, Exhausted
<1>2. answer' # NoAnswer
  <2>1. answer'.kind = "groups"
    BY DEF Finish, Offer
  <2> QED
    BY <2>1 DEF NoAnswer
<1>3. PoolTypeOK'
  BY <1>1, <1>2 DEF PoolTypeOK, Amounts, walk, found
<1>4. Weighed'
  BY <1>1 DEF Weighed, walk, found
<1> QED
  BY <1>3, <1>4

LEMMA ReleaseWeighed == PoolInv /\ Release => PoolTypeOK' /\ Weighed'
<1> SUFFICES ASSUME PoolInv, Release PROVE PoolTypeOK' /\ Weighed'
  OBVIOUS
<1>1. PoolTypeOK'
  BY EmptyAmounts DEF Release, PoolTypeOK, NoGroup
<1>2. Weighed'
  BY FS_EmptySet DEF Release, Weighed
<1> QED
  BY <1>1, <1>2

LEMMA UnchangedWeighed == PoolInv /\ UNCHANGED pvars => PoolTypeOK' /\ Weighed'
BY DEF PoolInv, pvars, work, walk, found, PoolTypeOK, Amounts, Weighed, Weight

LEMMA PoolNextInv == PoolInv /\ [PoolNext]_pvars => PoolInv'
<1> SUFFICES ASSUME PoolInv, [PoolNext]_pvars PROVE PoolInv'
  OBVIOUS
<1>1. CASE \E j \in Jobs : Receive(j)
  BY <1>1, FlowReceive, ReceiveWeighed DEF PoolInv
<1>2. CASE PoolStep
  <2>1. PoolFlow'
    BY <1>2, FlowStep DEF PoolInv
  <2>2. PoolTypeOK' /\ Weighed'
    BY <1>2, FilterWeighed, GroupWeighed, OpenWeighed, ConsiderWeighed, CloseWeighed, WidenWeighed,
       UnsatisfiedWeighed, FinishWeighed
       DEF PoolStep
  <2> QED
    BY <2>1, <2>2 DEF PoolInv
<1>3. CASE Release
  BY <1>3, FlowRelease, ReleaseWeighed DEF PoolInv
<1>4. CASE UNCHANGED pvars
  BY <1>4, FlowUnchanged, UnchangedWeighed DEF PoolInv
<1> QED
  BY <1>1, <1>2, <1>3, <1>4 DEF PoolNext

THEOREM PoolInvariant == PoolSpec => []PoolInv
<1>1. PoolInit => PoolInv
  BY FlowInit, InitWeighed DEF PoolInv
<1> QED
  BY <1>1, PoolNextInv, PTL DEF PoolSpec

\* Types: the Nodes selected are Nodes of the group at hand, which are eligible Nodes
\* of the job; nothing of a former group or job is left (execute, main).
THEOREM PoolTypes == PoolSpec => []PoolTypeOK
BY PoolInvariant, PTL DEF PoolInv

-----------------------------------------------------------------------------
(* The pipeline implements the promise.                                    *)

\* The image of a finite set is finite and no larger.
LEMMA ImageBound ==
  ASSUME NEW S, IsFiniteSet(S), NEW f, DOMAIN f = S
  PROVE  /\ IsFiniteSet({f[x] : x \in S})
         /\ Cardinality({f[x] : x \in S}) <= Cardinality(S)
<1> DEFINE T == {f[x] : x \in S}
           g == [x \in S |-> f[x]]
<1>1. g \in Surjection(S, T)
  BY DEF Surjection
<1> QED
  BY <1>1, FS_Surjection

LEMMA BestBound ==
  ASSUME PoolInv, NEW pools, Best(pools), candidates # {}
  PROVE  IsFiniteSet(pools) /\ pools # {} /\ Cardinality(pools) <= MaxGroups
<1>1. IsFiniteSet(candidates) /\ IsFiniteSet(pools) /\ Cardinality(candidates) \in Nat \ {0}
  BY FS_CardinalityType, FS_EmptySet, FS_Subset DEF PoolInv, Weighed, Best
<1>2. Cardinality(pools) = IF Cardinality(candidates) < MaxGroups THEN Cardinality(candidates) ELSE MaxGroups
  BY DEF Best
<1>3. Cardinality(pools) # 0 /\ Cardinality(pools) <= MaxGroups
  BY <1>1, <1>2, NoJobFacts
<1> QED
  BY <1>1, <1>3, FS_EmptySet

LEMMA FinishPromise ==
  ASSUME PoolInv, NEW pools \in SUBSET candidates, Finish(pools)
  PROVE  Promise!PAnswer
<1> DEFINE view == [p \in pools |-> [nodes |-> p.nodes, total |-> p.total]]
           seen == {[nodes |-> p.nodes, total |-> p.total] : p \in pools}
<1>1. /\ pc = "open" /\ UNCHANGED job /\ candidates # {} /\ Best(pools)
      /\ answer = NoAnswer /\ answer' = Offer(pools)
  BY DEF Finish, Exhausted, PoolInv, PoolFlow
<1>2. job # NoJob
  BY <1>1 DEF PoolInv, PoolTypeOK
<1>3. IsFiniteSet(pools) /\ pools # {} /\ Cardinality(pools) <= MaxGroups
  BY <1>1, BestBound
<1>4. seen = {view[p] : p \in pools} /\ DOMAIN view = pools
  OBVIOUS
<1>5. IsFiniteSet(seen) /\ Cardinality(seen) <= Cardinality(pools)
  <2> HIDE DEF view, seen
  <2> QED
    BY <1>3, <1>4, ImageBound
<1>6. seen # {} /\ Cardinality(seen) <= MaxGroups
  <2>1. seen # {}
    BY <1>3
  <2>2. Cardinality(seen) \in Nat /\ Cardinality(pools) \in Nat
    BY <1>3, <1>5, FS_CardinalityType
  <2> HIDE DEF seen
  <2> QED
    BY <1>3, <1>5, <2>1, <2>2, NoJobFacts
<1>7. \A pool \in seen : Promised(job, pool)
  <2> SUFFICES ASSUME NEW p \in pools PROVE Promised(job, [nodes |-> p.nodes, total |-> p.total])
    OBVIOUS
  <2>1. Promised(job, p)
    BY DEF PoolInv, Weighed
  <2> QED
    BY <2>1 DEF Promised
<1>8. Said = [kind |-> "none", pools |-> {}] /\ Said' = [kind |-> "groups", pools |-> seen]
  BY <1>1 DEF Said, NoAnswer, Offer
<1>9. Said'.pools = seen
  BY <1>8
<1> HIDE DEF seen
<1>10. Said' = [kind |-> "groups", pools |-> Said'.pools]
  BY <1>8, <1>9
<1>11. /\ Said'.pools # {} /\ Cardinality(Said'.pools) <= MaxGroups
       /\ \A pool \in Said'.pools : Promised(job, pool)
  BY <1>6, <1>7, <1>9
<1>12. Said = [kind |-> "none", pools |-> {}]
  BY <1>8
<1>13. Promise!Cardinality(Said'.pools) <= MaxGroups
  BY <1>11 DEF Promise!Cardinality, Cardinality
<1> QED
  BY <1>1, <1>2, <1>10, <1>11, <1>12, <1>13
     DEF Promise!PAnswer, Promise!Unanswered, Promise!OfferOf

LEMMA UnsatisfiedPromise == PoolInv /\ Unsatisfied => Promise!PAnswer
<1> SUFFICES ASSUME PoolInv, Unsatisfied PROVE Promise!PAnswer
  OBVIOUS
<1>1. pc = "open" /\ UNCHANGED job /\ answer = NoAnswer
  BY DEF Unsatisfied, Exhausted, PoolInv, PoolFlow
<1>2. job # NoJob
  BY <1>1 DEF PoolInv, PoolTypeOK
<1>3. answer'.kind = "failure" /\ answer'.pools = {}
  BY DEF Unsatisfied, Refuse, Failure
<1>4. Said = [kind |-> "none", pools |-> {}] /\ Said' = [kind |-> "failure", pools |-> {}]
  BY <1>1, <1>3 DEF Said, NoAnswer
<1> QED
  BY <1>1, <1>2, <1>4 DEF Promise!PAnswer, Promise!Unanswered, Promise!Refusal

LEMMA ReleasePromise == PoolInv /\ Release => Promise!PRelease
<1> SUFFICES ASSUME PoolInv, Release PROVE Promise!PRelease
  OBVIOUS
<1>1. Said' = [kind |-> "none", pools |-> {}]
  BY DEF Release, Said, NoAnswer
<1> QED
  BY <1>1 DEF Release, Promise!PRelease, Promise!Unanswered

LEMMA ReceivePromise ==
  ASSUME PoolInv, NEW j \in Jobs, Receive(j)
  PROVE  Promise!PReceive
<1>1. job = NoJob /\ job' \in Jobs /\ UNCHANGED Said
  BY DEF Receive, PoolInv, PoolFlow, Said
<1> QED
  BY <1>1 DEF Promise!PReceive

LEMMA QuietPromise ==
  ASSUME UNCHANGED <<job, answer>>
  PROVE  UNCHANGED <<job, Said>>
BY DEF Said

LEMMA StepPromise == PoolInv /\ [PoolNext]_pvars => [Promise!PNext]_<<job, Said>>
<1> SUFFICES ASSUME PoolInv, [PoolNext]_pvars PROVE [Promise!PNext]_<<job, Said>>
  OBVIOUS
<1>1. CASE \E j \in Jobs : Receive(j)
  BY <1>1, ReceivePromise DEF Promise!PNext
<1>2. CASE Unsatisfied \/ \E pools \in SUBSET candidates : Finish(pools)
  BY <1>2, UnsatisfiedPromise, FinishPromise DEF Promise!PNext
<1>3. CASE PoolStep /\ ~Unsatisfied /\ ~\E pools \in SUBSET candidates : Finish(pools)
  <2>1. UNCHANGED <<job, answer>>
    BY <1>3 DEF PoolStep, Filter, Group, Widen, Open, Consider, Close
  <2> QED
    BY <2>1, QuietPromise
<1>4. CASE Release
  BY <1>4, ReleasePromise DEF Promise!PNext
<1>5. CASE UNCHANGED pvars
  BY <1>5, QuietPromise DEF pvars
<1> QED
  BY <1>1, <1>2, <1>3, <1>4, <1>5 DEF PoolNext

\* Every pool offered is made of usable Nodes within one domain the demand allows, no
\* more than it asked for and enough for its minimum, within its quota when the Nodes
\* name the same resources; every answer is to the job at hand (PipelineRunner.run).
THEOREM ImplementsPromise == PoolSpec => Promise!PSafe
<1>1. PoolInit => PoolInv
  BY FlowInit, InitWeighed DEF PoolInv
<1>2. PoolInit => Promise!PInit
  <2> SUFFICES ASSUME PoolInit PROVE Promise!PInit
    OBVIOUS
  <2>1. Said = [kind |-> "none", pools |-> {}]
    BY DEF PoolInit, NoAnswer, Said
  <2> QED
    BY <2>1 DEF PoolInit, Promise!PInit, Promise!Unanswered
<1> QED
  BY <1>1, <1>2, PoolNextInv, StepPromise, PTL DEF PoolSpec, Promise!PSafe

-----------------------------------------------------------------------------
(* Levels that must be the same.                                           *)

LEMMA ConstraintFacts ==
  ASSUME NEW j \in Jobs, NEW level \in DOMAIN j.at
  PROVE  /\ j.at[level] # NoDomain
         /\ \/ j.mode = "uplink-compatible" /\ level \in Uplinks /\ "uplinkDomain" \in DOMAIN j.at
            \/ ~(j.mode = "uplink-compatible" /\ level \in Uplinks)
               /\ \E k \in DOMAIN LevelsOf(j.mode) : LevelsOf(j.mode)[k] = level
BY PoolAssumption DEF WellFormed

\* A Node that matches the constraints has a domain at every level they bound.
LEMMA ConstrainedHere ==
  ASSUME NEW j \in Jobs, NEW level \in DOMAIN j.at, NEW n, Matches(j.place[n], j.at)
  PROVE  /\ Order(j.mode, level) \in DOMAIN LevelsOf(j.mode)
         /\ j.place[n][LevelsOf(j.mode)[Order(j.mode, level)]] # NoDomain
<1>1. \A l \in DOMAIN j.at : j.place[n][l] # NoDomain
  BY ConstraintFacts DEF Matches
<1>2. CASE j.mode = "uplink-compatible" /\ level \in Uplinks
  <2>1. Order(j.mode, level) = 2 /\ "uplinkDomain" \in DOMAIN j.at
    BY <1>2, ConstraintFacts DEF Order
  <2>2. 2 \in DOMAIN LevelsOf(j.mode) /\ LevelsOf(j.mode)[2] = "uplinkDomain"
    BY <1>2 DEF LevelsOf
  <2> QED
    BY <1>1, <2>1, <2>2
<1>3. CASE ~(j.mode = "uplink-compatible" /\ level \in Uplinks)
  <2>1. \E k \in DOMAIN LevelsOf(j.mode) : LevelsOf(j.mode)[k] = level
    BY <1>3, ConstraintFacts
  <2>2. Order(j.mode, level) = CHOOSE k \in DOMAIN LevelsOf(j.mode) : LevelsOf(j.mode)[k] = level
    BY <1>3 DEF Order
  <2>3. /\ Order(j.mode, level) \in DOMAIN LevelsOf(j.mode)
        /\ LevelsOf(j.mode)[Order(j.mode, level)] = level
    BY <2>1, <2>2
  <2> QED
    BY <1>1, <2>3
<1> QED
  BY <1>2, <1>3

LEMMA NestedSame == PoolInv => RequiredSameWhenNested
<1> SUFFICES ASSUME PoolInv, NEW pool \in answer.pools, Nested, NEW level \in DOMAIN job.at
             PROVE  InOneDomain(job, pool.nodes, Order(job.mode, level))
  BY DEF RequiredSameWhenNested, Offered
<1> DEFINE Here(x, k) == job.place[x][LevelsOf(job.mode)[k]]
           w == Order(job.mode, level)
<1>1. job \in Jobs
  BY DEF PoolInv, PoolFlow, PoolTypeOK
<1>2. Promised(job, pool)
  BY DEF PoolInv, PoolFlow, Weighed
<1>3. pool.nodes \subseteq Usable(job) /\ Usable(job) \subseteq job.nodes
  BY <1>2 DEF Promised, Usable
<1>4. PICK k \in Allowed(job) : InOneDomain(job, pool.nodes, k)
  BY <1>2 DEF Promised
<1>5. k \in DOMAIN LevelsOf(job.mode) /\ k <= w
  BY <1>4 DEF Allowed
<1>6. PICK n \in pool.nodes : Here(n, k) # NoDomain /\ \A m \in pool.nodes : Here(m, k) = Here(n, k)
  BY <1>4 DEF InOneDomain
<1>7. w \in DOMAIN LevelsOf(job.mode) /\ Here(n, w) # NoDomain
  BY <1>1, <1>3, ConstrainedHere DEF Usable
<1>8. ASSUME NEW m \in pool.nodes PROVE Here(m, w) = Here(n, w)
  <2>1. CASE k = w
    BY <1>6, <2>1
  <2>2. CASE k < w
    BY <1>3, <1>5, <1>6, <1>7, <2>2 DEF Nested
  <2> QED
    BY <1>5, <1>7, <2>1, <2>2, LevelsDomain
<1> QED
  BY <1>7, <1>8 DEF InOneDomain

\* Where domains nest, a pool within one domain of the narrowest constrained level is
\* within one domain of every constrained level (TopologyAlgorithm.execute).
THEOREM SameWhenNested == PoolSpec => []RequiredSameWhenNested
BY NestedSame, PoolInvariant, PTL

-----------------------------------------------------------------------------
(* Sums over sets of Nodes.  The induction over a finite set is an         *)
(* argument about a smallest set for which a statement fails               *)
(* (FS_StrictSubsetOrderingWellFounded, WFMin): these theorems take sets,  *)
(* where those of induction take an operator.                              *)

\* What a Node has left of a resource, and SumOf for any job.
AmountOf(j, n, r) == Amount(Available(j, n), r)
SumFor(j, nodes) == [r \in Resources |-> MapThenSumSet(LAMBDA n : Amount(Available(j, n), r), nodes)]

\* h holds the sums of f over the subsets of S, whichever element is added last.
Sums(h, f, S) ==
  /\ h \in [SUBSET S -> Nat] /\ h[{}] = 0
  /\ \A T \in SUBSET S : \A x \in T : h[T] = f[x] + h[T \ {x}]

\* Of the subsets of a finite set for which something holds, one has none below it.
LEMMA SmallestSubset ==
  ASSUME NEW S, IsFiniteSet(S), NEW Bad, Bad \subseteq SUBSET S, Bad # {}
  PROVE  \E T \in Bad : \A U \in Bad : ~ (U \subseteq T /\ U # T)
<1>1. IsWellFoundedOn(StrictSubsetOrdering(S), SUBSET S)
  BY FS_StrictSubsetOrderingWellFounded, FS_FiniteSubsetsOfFinite
<1>2. \E T \in Bad : \A U \in Bad : ~ (<<U, T>> \in StrictSubsetOrdering(S))
  BY <1>1, WFMin
<1> QED
  BY <1>2 DEF StrictSubsetOrdering

\* Sums over the subsets of T without x extend to those of T.
LEMMA SumsExtend ==
  ASSUME NEW T, NEW x \in T, NEW f, \A y \in T : f[y] \in Nat,
         NEW h, Sums(h, f, T \ {x})
  PROVE  \E g : Sums(g, f, T)
<1> DEFINE g == [U \in SUBSET T |-> IF x \in U THEN f[x] + h[U \ {x}] ELSE h[U]]
<1>1. \A U \in SUBSET T : g[U] = IF x \in U THEN f[x] + h[U \ {x}] ELSE h[U]
  OBVIOUS
<1>2. \A U \in SUBSET (T \ {x}) : h[U] \in Nat
  BY DEF Sums
<1>3. \A U \in SUBSET T : U \ {x} \in SUBSET (T \ {x}) /\ (x \notin U => U \in SUBSET (T \ {x}))
  OBVIOUS
<1>4. g \in [SUBSET T -> Nat]
  BY <1>2, <1>3
<1>5. g[{}] = 0
  BY <1>1 DEF Sums
<1>6. ASSUME NEW U \in SUBSET T, NEW y \in U
      PROVE  g[U] = f[y] + g[U \ {y}]
  <2>1. U \ {y} \in SUBSET T /\ f[x] \in Nat /\ f[y] \in Nat
    OBVIOUS
  <2>2. CASE y = x
    <3>1. g[U] = f[x] + h[U \ {x}]
      BY <1>1, <2>2
    <3>2. g[U \ {x}] = h[U \ {x}]
      BY <1>1
    <3> HIDE DEF g
    <3> QED
      BY <2>2, <3>1, <3>2
  <2>3. CASE y # x /\ x \notin U
    <3>1. g[U] = h[U] /\ g[U \ {y}] = h[U \ {y}]
      BY <1>1, <2>1, <2>3
    <3>2. h[U] = f[y] + h[U \ {y}]
      BY <1>3, <2>3 DEF Sums
    <3> HIDE DEF g
    <3> QED
      BY <3>1, <3>2
  <2>4. CASE y # x /\ x \in U
    <3> DEFINE V == U \ {x}
               W == (U \ {y}) \ {x}
    <3>1. g[U] = f[x] + h[V] /\ g[U \ {y}] = f[x] + h[W]
      BY <1>1, <2>1, <2>4
    <3>2. V \in SUBSET (T \ {x}) /\ W \in SUBSET (T \ {x}) /\ y \in V /\ W = V \ {y}
      BY <2>4
    <3> HIDE DEF V, W, g
    <3>3. h[V] = f[y] + h[W]
      BY <3>2 DEF Sums
    <3>4. h[V] \in Nat /\ h[W] \in Nat
      BY <1>2, <3>2
    <3> QED
      BY <2>1, <3>1, <3>3, <3>4
  <2> QED
    BY <2>2, <2>3, <2>4
<1>7. Sums(g, f, T)
  <2> HIDE DEF g
  <2> QED
    BY <1>4, <1>5, <1>6 DEF Sums
<1> QED
  BY <1>7

\* There are sums over every finite set.
LEMMA SumsExist ==
  ASSUME NEW S, IsFiniteSet(S), NEW f, \A x \in S : f[x] \in Nat
  PROVE  \E h : Sums(h, f, S)
<1> DEFINE Bad == {T \in SUBSET S : ~ \E h : Sums(h, f, T)}
<1> SUFFICES ASSUME Bad # {} PROVE FALSE
  BY S \in SUBSET S
<1>1. PICK T \in Bad : \A U \in Bad : ~ (U \subseteq T /\ U # T)
  <2>1. Bad \subseteq SUBSET S
    OBVIOUS
  <2> HIDE DEF Bad
  <2> QED
    BY <2>1, SmallestSubset
<1>2. CASE T = {}
  <2> DEFINE h == [U \in SUBSET T |-> 0]
  <2>1. h \in [SUBSET T -> Nat] /\ h[{}] = 0
    BY <1>2
  <2>2. Sums(h, f, T)
    BY <1>2, <2>1 DEF Sums
  <2> QED
    BY <2>2
<1>3. ASSUME NEW x \in T PROVE FALSE
  <2>1. T \ {x} \in SUBSET S /\ T \ {x} \notin Bad
    BY <1>1
  <2>2. PICK h : Sums(h, f, T \ {x})
    BY <2>1
  <2>3. \A y \in T : f[y] \in Nat
    BY <1>1
  <2>4. \E g : Sums(g, f, T)
    BY <2>2, <2>3, SumsExtend
  <2> QED
    BY <2>4
<1> QED
  BY <1>2, <1>3

\* The equation of the fold that SumOf is made of; it adds the elements in an order of its own.
Folded(g, f, S) ==
  g = [s \in SUBSET S |-> IF s = {} THEN 0 ELSE f[CHOOSE x \in s : TRUE] + g[s \ {CHOOSE x \in s : TRUE}]]

\* Sums satisfy it,
LEMMA SumsFolded ==
  ASSUME NEW S, NEW f, NEW h, Sums(h, f, S)
  PROVE  Folded(h, f, S)
<1> DEFINE F(s) == IF s = {} THEN 0 ELSE f[CHOOSE x \in s : TRUE] + h[s \ {CHOOSE x \in s : TRUE}]
<1>1. ASSUME NEW s \in SUBSET S PROVE h[s] = F(s)
  <2>1. CASE s = {}
    BY <2>1 DEF Sums
  <2>2. CASE s # {}
    <3>1. (CHOOSE x \in s : TRUE) \in s
      BY <2>2
    <3> QED
      BY <2>2, <3>1 DEF Sums
  <2> QED
    BY <2>1, <2>2
<1>2. h = [s \in SUBSET S |-> h[s]]
  BY DEF Sums
<1> QED
  BY <1>1, <1>2 DEF Folded

\* and nothing else does.
LEMMA FoldedSums ==
  ASSUME NEW S, IsFiniteSet(S), NEW f, NEW h, Sums(h, f, S), NEW g, Folded(g, f, S)
  PROVE  g[S] = h[S]
<1> DEFINE Bad == {T \in SUBSET S : g[T] # h[T]}
<1> SUFFICES ASSUME Bad # {} PROVE FALSE
  BY S \in SUBSET S
<1>1. PICK T \in Bad : \A U \in Bad : ~ (U \subseteq T /\ U # T)
  <2>1. Bad \subseteq SUBSET S
    OBVIOUS
  <2> HIDE DEF Bad
  <2> QED
    BY <2>1, SmallestSubset
<1>2. \A s \in SUBSET S : g[s] = IF s = {} THEN 0 ELSE f[CHOOSE x \in s : TRUE] + g[s \ {CHOOSE x \in s : TRUE}]
  BY DEF Folded
<1>3. T # {}
  BY <1>1, <1>2 DEF Sums
<1> DEFINE x == CHOOSE x \in T : TRUE
<1>4. x \in T
  BY <1>3
<1>5. g[T] = f[x] + g[T \ {x}]
  BY <1>2, <1>3
<1> HIDE DEF x
<1>6. T \ {x} \in SUBSET S /\ g[T \ {x}] = h[T \ {x}]
  BY <1>1, <1>4
<1>7. h[T] = f[x] + h[T \ {x}]
  BY <1>4 DEF Sums
<1> QED
  BY <1>1, <1>5, <1>6, <1>7

\* SumFor is such a fold.
LEMMA SumForSums ==
  ASSUME NEW j, NEW S, IsFiniteSet(S), NEW r \in Resources,
         \A n \in S : AmountOf(j, n, r) \in Nat,
         NEW f, f = [n \in S |-> AmountOf(j, n, r)], NEW h, Sums(h, f, S)
  PROVE  SumFor(j, S)[r] = h[S]
<1> DEFINE c(s) == CHOOSE x \in s : TRUE
           P(g) == g = [s \in SUBSET S |->
                          IF s = {} THEN 0 ELSE Amount(Available(j, c(s)), r) + g[s \ {c(s)}]]
           iter == CHOOSE g : P(g)
<1>1. SumFor(j, S)[r] = iter[S]
  BY DEF SumFor, MapThenSumSet, MapThenFoldSet
<1>2. \A s \in SUBSET S : s # {} => f[c(s)] = Amount(Available(j, c(s)), r)
  BY DEF AmountOf
<1>3. \A g : P(g) <=> Folded(g, f, S)
  <2> TAKE g
  <2> DEFINE left == [s \in SUBSET S |-> IF s = {} THEN 0 ELSE Amount(Available(j, c(s)), r) + g[s \ {c(s)}]]
             right == [s \in SUBSET S |-> IF s = {} THEN 0 ELSE f[c(s)] + g[s \ {c(s)}]]
  <2>1. left = right
    BY <1>2
  <2>2. P(g) <=> g = left
    OBVIOUS
  <2>3. Folded(g, f, S) <=> g = right
    BY DEF Folded
  <2> HIDE DEF left, right, P
  <2> QED
    BY <2>1, <2>2, <2>3
<1>4. P(h)
  BY <1>3, SumsFolded
<1>5. P(iter)
  <2> HIDE DEF P
  <2> QED
    BY <1>4
<1> HIDE DEF P, iter
<1>6. Folded(iter, f, S)
  BY <1>3, <1>5
<1> QED
  BY <1>1, <1>6, FoldedSums

LEMMA AmountOfNat ==
  ASSUME NEW j \in Jobs
  PROVE  \A n \in j.nodes : \A r : AmountOf(j, n, r) \in Nat
BY AvailableAmounts, AmountType DEF AmountOf

\* One function gives the sums over all sets of Nodes of a job.
LEMMA JobSums ==
  ASSUME NEW j \in Jobs, NEW r \in Resources
  PROVE  \E h : /\ h \in [SUBSET j.nodes -> Nat] /\ h[{}] = 0
                /\ \A T \in SUBSET j.nodes : \A n \in T : h[T] = AmountOf(j, n, r) + h[T \ {n}]
                /\ \A T \in SUBSET j.nodes : SumFor(j, T)[r] = h[T]
<1> DEFINE f == [n \in j.nodes |-> AmountOf(j, n, r)]
<1>1. \A n \in j.nodes : f[n] \in Nat /\ f[n] = AmountOf(j, n, r)
  BY AmountOfNat
<1> HIDE DEF f
<1>2. PICK h : Sums(h, f, j.nodes)
  BY <1>1, SumsExist, JobFacts
<1>3. /\ h \in [SUBSET j.nodes -> Nat] /\ h[{}] = 0
      /\ \A T \in SUBSET j.nodes : \A n \in T : h[T] = AmountOf(j, n, r) + h[T \ {n}]
  BY <1>1, <1>2 DEF Sums
<1>4. ASSUME NEW T \in SUBSET j.nodes PROVE SumFor(j, T)[r] = h[T]
  <2> DEFINE e == [n \in T |-> AmountOf(j, n, r)]
             g == [U \in SUBSET T |-> h[U]]
  <2>1. g \in [SUBSET T -> Nat] /\ g[{}] = 0 /\ \A U \in SUBSET T : g[U] = h[U]
    BY <1>3
  <2>2. \A U \in SUBSET T : \A n \in U : g[U] = e[n] + g[U \ {n}]
    <3> SUFFICES ASSUME NEW U \in SUBSET T, NEW n \in U PROVE g[U] = e[n] + g[U \ {n}]
      OBVIOUS
    <3>1. U \in SUBSET j.nodes /\ U \ {n} \in SUBSET T /\ e[n] = AmountOf(j, n, r)
      OBVIOUS
    <3> HIDE DEF g, e
    <3> QED
      BY <3>1, <2>1, <1>3
  <2>3. Sums(g, e, T)
    <3> HIDE DEF g, e
    <3> QED
      BY <2>1, <2>2 DEF Sums
  <2>4. IsFiniteSet(T) /\ \A n \in T : AmountOf(j, n, r) \in Nat
    BY JobFacts, FS_Subset, AmountOfNat
  <2>5. SumFor(j, T)[r] = g[T]
    BY <2>3, <2>4, SumForSums
  <2> QED
    BY <2>5
<1> QED
  BY <1>3, <1>4

\* A sum is a natural number; one Node more adds what it has left.
LEMMA SumAdd ==
  ASSUME NEW j \in Jobs, NEW S \in SUBSET j.nodes, NEW r \in Resources
  PROVE  /\ SumFor(j, S)[r] \in Nat
         /\ SumFor(j, {})[r] = 0
         /\ \A n \in j.nodes \ S : SumFor(j, S \cup {n})[r] = SumFor(j, S)[r] + AmountOf(j, n, r)
<1>1. PICK h : /\ h \in [SUBSET j.nodes -> Nat] /\ h[{}] = 0
               /\ \A T \in SUBSET j.nodes : \A n \in T : h[T] = AmountOf(j, n, r) + h[T \ {n}]
               /\ \A T \in SUBSET j.nodes : SumFor(j, T)[r] = h[T]
  BY JobSums
<1>2. ASSUME NEW n \in j.nodes \ S
      PROVE  SumFor(j, S \cup {n})[r] = SumFor(j, S)[r] + AmountOf(j, n, r)
  <2> DEFINE T == S \cup {n}
  <2>1. T \in SUBSET j.nodes /\ n \in T /\ T \ {n} = S
    OBVIOUS
  <2> HIDE DEF T
  <2>2. SumFor(j, T)[r] = AmountOf(j, n, r) + SumFor(j, S)[r]
    BY <1>1, <2>1
  <2>3. AmountOf(j, n, r) \in Nat /\ SumFor(j, S)[r] \in Nat
    BY <1>1, AmountOfNat
  <2> QED
    BY <2>2, <2>3 DEF T
<1>3. SumFor(j, S)[r] \in Nat /\ SumFor(j, {})[r] = 0
  BY <1>1
<1> QED
  BY <1>2, <1>3

\* More Nodes have no less.
LEMMA SumMonotone ==
  ASSUME NEW j \in Jobs, NEW T \in SUBSET j.nodes, NEW S \in SUBSET T, NEW r \in Resources
  PROVE  SumFor(j, S)[r] <= SumFor(j, T)[r]
<1> DEFINE Bad == {U \in SUBSET T : S \subseteq U /\ ~ SumFor(j, S)[r] <= SumFor(j, U)[r]}
<1> SUFFICES ASSUME Bad # {} PROVE FALSE
  BY T \in SUBSET T
<1>1. PICK U \in Bad : \A V \in Bad : ~ (V \subseteq U /\ V # U)
  <2>1. Bad \subseteq SUBSET T /\ IsFiniteSet(T)
    BY JobFacts, FS_Subset
  <2> HIDE DEF Bad
  <2> QED
    BY <2>1, SmallestSubset
<1>2. U \in SUBSET j.nodes /\ S \in SUBSET U
  BY <1>1
<1>3. SumFor(j, S)[r] \in Nat /\ SumFor(j, U)[r] \in Nat
  BY <1>2, SumAdd
<1>4. U # S
  BY <1>1, <1>3
<1>5. PICK n \in U : n \notin S
  BY <1>2, <1>4
<1> DEFINE V == U \ {n}
<1>6. V \in SUBSET j.nodes /\ S \subseteq V /\ V \subseteq U /\ V # U /\ n \in j.nodes \ V /\ V \cup {n} = U
  BY <1>1, <1>2, <1>5
<1>7. SumFor(j, S)[r] <= SumFor(j, V)[r]
  BY <1>1, <1>6
<1> HIDE DEF V
<1>8. SumFor(j, U)[r] = SumFor(j, V)[r] + AmountOf(j, n, r) /\ SumFor(j, V)[r] \in Nat
  BY <1>6, SumAdd
<1>9. AmountOf(j, n, r) \in Nat
  BY <1>6, AmountOfNat
<1>10. SumFor(j, S)[r] <= SumFor(j, U)[r]
  BY <1>3, <1>7, <1>8, <1>9
<1> QED
  BY <1>1, <1>10

-----------------------------------------------------------------------------
(* The walk is thorough: a group that could be granted whole is found, and *)
(* a refusal for lack of resources is true.                                *)

\* The group is within the quota as a whole.
Fits(j, nodes) == \A r \in DOMAIN j.quota : SumFor(j, nodes)[r] <= j.quota[r]

\* Whole, for any job.
WholeFor(j, nodes) ==
  /\ Cardinality(nodes) <= j.maxNodes /\ nodes # {}
  /\ Covers(SumFor(j, nodes), j.minimum) /\ Fits(j, nodes)

\* Some group of the domain cannot reach the minimum with all of its Nodes.
Short(domain) ==
  \E k \in DOMAIN LevelsOf(job.mode) : \E g \in Groups(k) :
    g.domain = domain /\ ~Covers(SumFor(job, g.nodes), job.minimum)

\* The total is the true sum of the Nodes selected; a pool lies in one domain of the tier,
\* for there is no wider tier once there is a pool.
Counted ==
  /\ pc = "walk" => \A r \in Resources : total[r] = SumFor(job, selected)[r]
  /\ \A c \in candidates : /\ \A r \in Resources : c.total[r] = SumFor(job, c.nodes)[r]
                           /\ InOneDomain(job, c.nodes, tier)

\* Of a group that fits the quota no Node is passed over.
Greedy == pc = "walk" /\ Fits(job, group.nodes) => selected \cup rest = group.nodes

\* A group of a level tried that could be granted whole is still to be walked, or has led
\* to a pool; there is none in the levels before.
Tried ==
  pc \in {"open", "walk", "done"} =>
    \A k \in 1..tier : \A g \in Groups(k) :
      WholeFor(job, g.nodes) =>
        k = tier /\ (g \in todo \/ (pc = "walk" /\ g = group) \/ candidates # {})

\* A diagnosis of too few resources is true of its group.
Explained == \A d \in diagnostics : d.code = "INSUFFICIENT_RESOURCES" => Short(d.domain)

\* The levels not tried are not allowed or not needed; an answer is taken from what was found.
Ended ==
  pc = "done" =>
    /\ todo = {} /\ (candidates # {} => answer.pools # {})
    /\ \A k \in Allowed(job) : k <= tier \/ candidates # {}
    /\ answer.kind = "failure" /\ answer.code = "INSUFFICIENT_RESOURCES" =>
         \E d \in diagnostics : d.code = answer.code /\ d.domain = answer.domain

Thorough ==
  /\ pc \in {"idle", "filter", "group"} => diagnostics = {}
  /\ Counted /\ Ended
  /\ SameNames(job) => Greedy /\ Tried /\ Explained

-----------------------------------------------------------------------------

LEMMA SumOfIsSumFor == \A nodes : SumOf(nodes) = SumFor(job, nodes)
BY DEF SumOf, SumFor

LEMMA WholeIsWholeFor == \A nodes : Whole(nodes) = WholeFor(job, nodes)
<1> SUFFICES ASSUME NEW nodes PROVE Whole(nodes) = WholeFor(job, nodes)
  OBVIOUS
<1>1. SumOf(nodes) = SumFor(job, nodes)
  BY SumOfIsSumFor
<1> QED
  BY <1>1 DEF Whole, WholeFor, Fits

LEMMA AmountOfSum ==
  ASSUME NEW j, NEW S, NEW r \in Resources
  PROVE  Amount(SumFor(j, S), r) = SumFor(j, S)[r]
<1>1. DOMAIN SumFor(j, S) = Resources
  BY DEF SumFor
<1> QED
  BY <1>1 DEF Amount

LEMMA OneGroupOneDomain ==
  ASSUME NEW k, NEW g \in Groups(k), NEW S \in SUBSET g.nodes, S # {}
  PROVE  InOneDomain(job, S, k)
<1>1. PICK d \in DomainsAt(k) :
        g.nodes = {n \in eligible : job.place[n][LevelsOf(job.mode)[k]] = d}
  BY DEF Groups
<1>2. d # NoDomain /\ \A n \in S : job.place[n][LevelsOf(job.mode)[k]] = d
  BY <1>1 DEF DomainsAt
<1> QED
  BY <1>2 DEF InOneDomain

LEMMA SameGroups ==
  ASSUME UNCHANGED <<job, eligible>>
  PROVE  \A k : Groups(k)' = Groups(k)
BY DEF Groups, DomainsAt

LEMMA LevelBelow ==
  ASSUME NEW j \in Jobs, NEW k \in Allowed(j), NEW t \in 1..k
  PROVE  t \in Allowed(j)
<1>1. t \in DOMAIN LevelsOf(j.mode) /\ k \in 1..5
  BY LevelsDomain, AllowedLevels DEF Allowed
<1> SUFFICES ASSUME NEW level \in DOMAIN j.at PROVE t <= Order(j.mode, level)
  BY <1>1 DEF Allowed
<1>2. k <= Order(j.mode, level)
  BY DEF Allowed
<1>3. CASE j.mode = "uplink-compatible" /\ level \in Uplinks
  BY <1>1, <1>2, <1>3 DEF Order
<1>4. CASE ~(j.mode = "uplink-compatible" /\ level \in Uplinks)
  <2>1. \E l \in DOMAIN LevelsOf(j.mode) : LevelsOf(j.mode)[l] = level
    BY <1>4, PoolAssumption DEF WellFormed
  <2>2. Order(j.mode, level) = CHOOSE l \in DOMAIN LevelsOf(j.mode) : LevelsOf(j.mode)[l] = level
    BY <1>4 DEF Order
  <2>3. Order(j.mode, level) \in DOMAIN LevelsOf(j.mode)
    BY <2>1, <2>2
  <2>4. Order(j.mode, level) \in Int
    BY <2>3, LevelsDomain
  <2> QED
    BY <1>1, <1>2, <2>4
<1> QED
  BY <1>3, <1>4

\* Facts about the group being walked.
LEMMA WalkFacts ==
  ASSUME PoolInv, pc = "walk"
  PROVE  /\ job \in Jobs /\ Weight /\ tier \in Allowed(job) /\ group \in Groups(tier)
         /\ group.nodes \in SUBSET job.nodes /\ IsFiniteSet(group.nodes)
         /\ selected \in SUBSET group.nodes /\ rest \in SUBSET group.nodes
         /\ Amounts(job.minimum) /\ Amounts(job.quota) /\ Amounts(totals)
         /\ total \in [Resources -> Nat]
<1>1. job \in Jobs /\ Weight /\ tier \in Allowed(job) /\ group \in Groups(tier)
  BY WorkingJob DEF PoolInv, Weighed, PoolFlow
<1>2. group.nodes \subseteq eligible /\ eligible \subseteq job.nodes
  BY <1>1, GroupNodes DEF PoolInv, PoolFlow
<1>3. IsFiniteSet(group.nodes)
  BY <1>1, <1>2, JobFacts, FS_Subset
<1> QED
  BY <1>1, <1>2, <1>3, JobFacts DEF PoolInv, PoolFlow, PoolTypeOK

\* With the same names on all Nodes, what the code has summed is the true sum.
LEMMA TrueTotals ==
  ASSUME PoolInv, Thorough, pc = "walk", SameNames(job)
  PROVE  \A r \in Resources : Amount(totals, r) = SumFor(job, selected)[r]
BY WalkFacts DEF Thorough, Counted, Weight

\* A group that fits the quota as a whole never breaks it on the way.
LEMMA NeverOverQuota ==
  ASSUME PoolInv, Thorough, pc = "walk", SameNames(job), Fits(job, group.nodes), NEW n \in rest
  PROVE  ~OverQuota(n)
<1> SUFFICES ASSUME NEW r \in DOMAIN job.quota
             PROVE  ~ (Amount(Proposed(n), r) > job.quota[r])
  BY DEF OverQuota
<1>1. n \in job.nodes \ selected /\ selected \in SUBSET job.nodes
  BY WalkFacts DEF PoolInv, PoolFlow
<1>2. r \in Resources /\ job.quota[r] \in Nat
  BY WalkFacts DEF Amounts
<1> DEFINE S == selected \cup {n}
<1>3. S \in SUBSET group.nodes
  BY WalkFacts
<1>4. SumFor(job, S)[r] <= SumFor(job, group.nodes)[r]
  <2> HIDE DEF S
  <2> QED
    BY <1>2, <1>3, WalkFacts, SumMonotone
<1>5. SumFor(job, S)[r] = SumFor(job, selected)[r] + AmountOf(job, n, r)
  BY <1>1, <1>2, WalkFacts, SumAdd
<1>6. SumFor(job, selected)[r] = Amount(totals, r)
  BY <1>2, TrueTotals
<1>7. SumFor(job, selected)[r] \in Nat /\ SumFor(job, group.nodes)[r] \in Nat /\ AmountOf(job, n, r) \in Nat
  BY <1>1, <1>2, WalkFacts, SumAdd, AmountOfNat
<1>8. SumFor(job, group.nodes)[r] <= job.quota[r]
  BY DEF Fits
<1> DEFINE left == Available(job, n)
<1>9. Amount(Proposed(n), r) \in {0, Amount(totals, r) + Amount(left, r)}
  <2>1. DOMAIN Proposed(n) = DOMAIN left /\ \A q \in DOMAIN left : Proposed(n)[q] = Amount(totals, q) + left[q]
    BY DEF Proposed
  <2> HIDE DEF left
  <2> QED
    BY <2>1 DEF Amount
<1>10. Amount(left, r) = AmountOf(job, n, r)
  BY DEF AmountOf
<1> HIDE DEF S, left
<1> QED
  BY <1>2, <1>4, <1>5, <1>6, <1>7, <1>8, <1>9, <1>10

\* A walk that ends with the whole group taken, or enough of it, has found a pool.
LEMMA AllTaken ==
  ASSUME PoolInv, pc = "walk", Walked, selected \cup rest = group.nodes,
         Cardinality(group.nodes) <= job.maxNodes, ~Enough
  PROVE  selected = group.nodes
<1>1. CASE rest = {}
  BY <1>1
<1>2. CASE Cardinality(selected) >= job.maxNodes
  <2>1. /\ IsFiniteSet(selected) /\ Cardinality(selected) <= Cardinality(group.nodes)
        /\ Cardinality(group.nodes) = Cardinality(selected) => group.nodes = selected
    BY WalkFacts, FS_Subset
  <2>2. Cardinality(selected) \in Nat /\ Cardinality(group.nodes) \in Nat /\ job.maxNodes \in Nat
    BY <2>1, WalkFacts, FS_CardinalityType, JobFacts
  <2> QED
    BY <1>2, <2>1, <2>2
<1> QED
  BY <1>1, <1>2 DEF Walked

LEMMA WholeIsFound ==
  ASSUME PoolInv, Thorough, pc = "walk", Walked, SameNames(job), WholeFor(job, group.nodes)
  PROVE  Found
<1>1. CASE Enough
  BY <1>1 DEF Enough, Found
<1>2. CASE ~Enough
  <2>1. selected = group.nodes
    BY <1>2, AllTaken DEF Thorough, Greedy, WholeFor
  <2>2. ASSUME NEW r \in DOMAIN job.minimum PROVE Amount(totals, r) >= job.minimum[r]
    <3>1. r \in Resources
      BY WalkFacts DEF Amounts
    <3>2. Amount(totals, r) = Amount(SumFor(job, group.nodes), r)
      BY <2>1, <3>1, TrueTotals, AmountOfSum
    <3> QED
      BY <3>2 DEF WholeFor, Covers
  <2> QED
    BY <2>1, <2>2 DEF WholeFor, Found, Covers
<1> QED
  BY <1>1, <1>2

LEMMA FirstIsAll ==
  ASSUME job \in Jobs, NEW nodes \in SUBSET job.nodes, NEW k \in Nat, Cardinality(nodes) <= k
  PROVE  First(nodes, k) = nodes
<1> SUFFICES ASSUME NEW n \in nodes PROVE Cardinality({m \in nodes : Before(m, n)}) < k
  BY DEF First
<1> DEFINE ahead == {m \in nodes : Before(m, n)}
<1>1. IsFiniteSet(nodes)
  BY JobFacts, FS_Subset
<1>2. ~Before(n, n)
  <2>1. job.score[n] \in Nat /\ job.order[n] \in Nat
    BY PoolAssumption DEF WellFormed
  <2> QED
    BY <2>1 DEF Before
<1>3. ahead \subseteq nodes \ {n}
  BY <1>2
<1>4. IsFiniteSet(nodes \ {n}) /\ Cardinality(nodes \ {n}) = Cardinality(nodes) - 1
  BY <1>1, FS_RemoveElement
<1> HIDE DEF ahead
<1>5. IsFiniteSet(ahead) /\ Cardinality(ahead) <= Cardinality(nodes) - 1
  BY <1>3, <1>4, FS_Subset
<1>6. Cardinality(ahead) \in Nat /\ Cardinality(nodes) \in Nat
  BY <1>1, <1>5, FS_CardinalityType
<1> QED
  BY <1>5, <1>6 DEF ahead

\* Without a quota nothing is passed over.
LEMMA NoQuotaFits == \A j, nodes : DOMAIN j.quota = {} => Fits(j, nodes)
BY DEF Fits

LEMMA DiagnosisTrue ==
  ASSUME PoolInv, Thorough, pc = "walk", Walked, SameNames(job), Diagnosis = "INSUFFICIENT_RESOURCES"
  PROVE  ~Covers(SumFor(job, group.nodes), job.minimum)
<1>1. /\ ~Covers(totals, job.minimum)
      /\ ~(DOMAIN job.quota # {} /\ Covers(SumOf(First(group.nodes, job.maxNodes)), job.minimum))
      /\ ~(job.maxNodes < Cardinality(group.nodes) /\ Covers(SumOf(group.nodes), job.minimum))
  BY DEF Diagnosis
<1>2. SumOf(group.nodes) = SumFor(job, group.nodes)
  BY SumOfIsSumFor
<1>3. CASE job.maxNodes < Cardinality(group.nodes)
  BY <1>1, <1>2, <1>3
<1>4. CASE ~(job.maxNodes < Cardinality(group.nodes))
  <2>1. Cardinality(group.nodes) <= job.maxNodes /\ job.maxNodes \in Nat
    BY <1>4, WalkFacts, FS_CardinalityType, JobFacts
  <2>2. CASE DOMAIN job.quota # {}
    <3>1. First(group.nodes, job.maxNodes) = group.nodes
      BY <2>1, WalkFacts, FirstIsAll
    <3> QED
      BY <1>1, <1>2, <2>2, <3>1
  <2>3. CASE DOMAIN job.quota = {}
    <3>1. ~Enough
      BY <1>1 DEF Enough
    <3>2. selected = group.nodes
      BY <2>1, <2>3, <3>1, NoQuotaFits, AllTaken DEF Thorough, Greedy
    <3>3. PICK r \in DOMAIN job.minimum : ~ (Amount(totals, r) >= job.minimum[r])
      BY <1>1 DEF Covers
    <3>4. r \in Resources
      BY WalkFacts DEF Amounts
    <3>5. Amount(totals, r) = Amount(SumFor(job, group.nodes), r)
      BY <3>2, <3>4, TrueTotals, AmountOfSum
    <3> QED
      BY <3>3, <3>5 DEF Covers
  <2> QED
    BY <2>2, <2>3
<1> QED
  BY <1>3, <1>4

-----------------------------------------------------------------------------
LEMMA InitThorough == PoolInit => Thorough
BY DEF PoolInit, Thorough, Counted, Ended, Greedy, Tried, Explained

LEMMA ReceiveThorough ==
  ASSUME PoolInv, Thorough, NEW j \in Jobs, Receive(j)
  PROVE  Thorough'
<1>1. pc' = "filter" /\ candidates' = {} /\ diagnostics' = {}
  BY DEF Receive, found, PoolInv, PoolFlow, Thorough
<1> QED
  BY <1>1 DEF Thorough, Counted, Ended, Greedy, Tried, Explained

LEMMA FilterThorough == PoolInv /\ Thorough /\ Filter => Thorough'
<1> SUFFICES ASSUME PoolInv, Thorough, Filter PROVE Thorough'
  OBVIOUS
<1>1. pc' = "group" /\ candidates' = {} /\ diagnostics' = {}
  BY DEF Filter, found, PoolInv, PoolFlow, Thorough
<1> QED
  BY <1>1 DEF Thorough, Counted, Ended, Greedy, Tried, Explained

LEMMA GroupThorough == PoolInv /\ Thorough /\ Group => Thorough'
<1> SUFFICES ASSUME PoolInv, Thorough, Group PROVE Thorough'
  OBVIOUS
<1>1. /\ pc' = "open" /\ candidates' = {} /\ diagnostics' = {} /\ tier' = 1 /\ todo' = Groups(1)
      /\ UNCHANGED <<job, eligible>>
  BY DEF Group, found, PoolInv, PoolFlow, Thorough
<1>2. Groups(1)' = Groups(1)
  BY <1>1, SameGroups
<1>3. Tried'
  <2> SUFFICES ASSUME NEW k \in 1..1, NEW g \in Groups(k)' PROVE k = tier' /\ g \in todo'
    BY <1>1 DEF Tried
  <2>1. k = 1
    OBVIOUS
  <2> QED
    BY <1>1, <1>2, <2>1
<1> QED
  BY <1>1, <1>3 DEF Thorough, Counted, Ended, Greedy, Explained

\* What a step that leaves job, Nodes, candidates and diagnostics alone keeps.
LEMMA SameExplained ==
  ASSUME Explained, UNCHANGED <<job, eligible, diagnostics>>
  PROVE  Explained'
<1> SUFFICES ASSUME NEW d \in diagnostics, d.code = "INSUFFICIENT_RESOURCES"
             PROVE  Short(d.domain)'
  BY DEF Explained
<1>1. Short(d.domain)
  BY DEF Explained
<1>2. \A k : Groups(k)' = Groups(k)
  BY SameGroups
<1> QED
  BY <1>1, <1>2 DEF Short

LEMMA OpenThorough ==
  ASSUME PoolInv, Thorough, NEW g \in todo, Open(g)
  PROVE  Thorough'
<1>1. /\ pc = "open" /\ pc' = "walk" /\ group' = g /\ rest' = g.nodes /\ todo' = todo \ {g}
      /\ selected' = {} /\ total' = Nothing
      /\ UNCHANGED <<job, eligible, tier, candidates, diagnostics>>
  BY DEF Open, found
<1>2. \A k : Groups(k)' = Groups(k)
  BY <1>1, SameGroups
<1>3. job \in Jobs
  BY <1>1, WorkingJob DEF PoolInv
<1>4. Counted'
  <2>1. \A r \in Resources : total'[r] = SumFor(job', selected')[r]
    BY <1>1, <1>3, SumAdd, EmptyAmounts
  <2> QED
    BY <1>1, <2>1 DEF Thorough, Counted
<1>5. Greedy'
  BY <1>1 DEF Greedy
<1>6. Tried => Tried'
  <2> SUFFICES ASSUME Tried, NEW k \in 1..tier, NEW h \in Groups(k), WholeFor(job, h.nodes)
               PROVE  k = tier /\ (h \in todo' \/ h = group' \/ candidates # {})
    BY <1>1, <1>2 DEF Tried
  <2>1. k = tier /\ (h \in todo \/ candidates # {})
    BY <1>1 DEF Tried
  <2> QED
    BY <1>1, <2>1
<1>7. Explained => Explained'
  BY <1>1, SameExplained
<1> QED
  BY <1>1, <1>4, <1>5, <1>6, <1>7 DEF Thorough, Ended

LEMMA ConsiderThorough ==
  ASSUME PoolInv, Thorough, NEW n \in rest, Consider(n)
  PROVE  Thorough'
<1>1. /\ pc = "walk" /\ UNCHANGED <<job, eligible, pc, tier, todo, group, candidates, diagnostics>>
      /\ rest' = rest \ {n}
  BY DEF Consider, found
<1>2. \A k : Groups(k)' = Groups(k)
  BY <1>1, SameGroups
<1>3. n \in job.nodes \ selected /\ selected \in SUBSET job.nodes /\ job \in Jobs
  BY <1>1, WalkFacts DEF PoolInv, PoolFlow
<1>4. CASE OverQuota(n)
  <2>1. UNCHANGED <<selected, total>>
    BY <1>4 DEF Consider
  <2>2. Counted'
    BY <1>1, <2>1 DEF Thorough, Counted
  <2>3. SameNames(job) => Greedy'
    BY <1>1, <1>4, NeverOverQuota DEF Greedy
  <2> QED
    <3>1. Tried => Tried'
      BY <1>1, <1>2 DEF Tried
    <3> QED
      BY <1>1, <2>2, <2>3, <3>1, SameExplained DEF Thorough, Ended
<1>5. CASE ~OverQuota(n)
  <2>1. /\ selected' = selected \cup {n}
        /\ total' = [r \in Resources |-> total[r] + Amount(Available(job, n), r)]
    BY <1>5 DEF Consider
  <2>2. \A r \in Resources : total'[r] = SumFor(job', selected')[r]
    <3> SUFFICES ASSUME NEW r \in Resources
                 PROVE  total'[r] = SumFor(job, selected \cup {n})[r]
      BY <1>1, <2>1
    <3>1. total'[r] = total[r] + AmountOf(job, n, r)
      BY <2>1 DEF AmountOf
    <3>2. total[r] = SumFor(job, selected)[r]
      BY <1>1 DEF Thorough, Counted
    <3> QED
      BY <1>3, <3>1, <3>2, SumAdd
  <2>3. Counted'
    BY <1>1, <2>2 DEF Thorough, Counted
  <2>4. Greedy => Greedy'
    BY <1>1, <2>1 DEF Greedy
  <2> QED
    <3>1. Tried => Tried'
      BY <1>1, <1>2 DEF Tried
    <3> QED
      BY <1>1, <2>3, <2>4, <3>1, SameExplained DEF Thorough, Ended
<1> QED
  BY <1>4, <1>5

LEMMA CloseThorough ==
  ASSUME PoolInv, Thorough, NEW s \in Scores, Close(s)
  PROVE  Thorough'
<1> DEFINE pool == [nodes |-> selected, total |-> total, domain |-> group.domain, score |-> s]
           word == [domain |-> group.domain, code |-> Diagnosis,
                    count |-> IF Covers(totals, job.minimum) THEN 0 ELSE Cardinality(selected)]
<1>1. /\ pc = "walk" /\ Walked /\ pc' = "open" /\ UNCHANGED <<job, eligible, tier, todo>>
      /\ \/ Found /\ candidates' = candidates \cup {pool} /\ UNCHANGED diagnostics
         \/ ~Found /\ UNCHANGED candidates /\ diagnostics' = diagnostics \cup {word}
  BY DEF Close
<1>2. \A k : Groups(k)' = Groups(k)
  BY <1>1, SameGroups
<1>3. Counted'
  <2>1. ASSUME Found
        PROVE  /\ \A r \in Resources : pool.total[r] = SumFor(job, pool.nodes)[r]
               /\ InOneDomain(job, pool.nodes, tier)
    <3>1. \A r \in Resources : total[r] = SumFor(job, selected)[r]
      BY <1>1 DEF Thorough, Counted
    <3>2. InOneDomain(job, selected, tier)
      BY <1>1, <2>1, WalkFacts, OneGroupOneDomain DEF Found
    <3> QED
      BY <3>1, <3>2
  <2> HIDE DEF pool, word
  <2> QED
    BY <1>1, <2>1 DEF Thorough, Counted
<1>4. SameNames(job) /\ Tried => Tried'
  <2> SUFFICES ASSUME SameNames(job), Tried, NEW k \in 1..tier, NEW h \in Groups(k), WholeFor(job, h.nodes)
               PROVE  k = tier /\ (h \in todo \/ candidates' # {})
    BY <1>1, <1>2 DEF Tried
  <2>1. k = tier /\ (h \in todo \/ h = group \/ candidates # {})
    BY <1>1 DEF Tried
  <2>2. h = group => Found
    BY <1>1, WholeIsFound
  <2> HIDE DEF pool, word
  <2> QED
    BY <1>1, <2>1, <2>2
<1>5. SameNames(job) /\ Explained => Explained'
  <2> SUFFICES ASSUME SameNames(job), Explained, NEW d \in diagnostics', d.code = "INSUFFICIENT_RESOURCES"
               PROVE  Short(d.domain)
    BY <1>1, <1>2 DEF Explained, Short
  <2>1. CASE d \in diagnostics
    BY <2>1 DEF Explained
  <2>2. CASE d = word
    <3>1. ~Covers(SumFor(job, group.nodes), job.minimum)
      BY <1>1, <2>2, DiagnosisTrue
    <3>2. group \in Groups(tier) /\ tier \in DOMAIN LevelsOf(job.mode) /\ d.domain = group.domain
      BY <1>1, <2>2, WalkFacts DEF Allowed
    <3> QED
      BY <3>1, <3>2 DEF Short
  <2> HIDE DEF pool, word
  <2> QED
    BY <1>1, <2>1, <2>2
<1> HIDE DEF pool, word
<1> QED
  BY <1>1, <1>3, <1>4, <1>5 DEF Thorough, Ended, Greedy

LEMMA WidenThorough == PoolInv /\ Thorough /\ Widen => Thorough'
<1> SUFFICES ASSUME PoolInv, Thorough, Widen PROVE Thorough'
  OBVIOUS
<1>1. /\ pc = "open" /\ todo = {} /\ candidates = {} /\ tier' = tier + 1 /\ todo' = Groups(tier + 1)
      /\ UNCHANGED <<pc, job, eligible, candidates, diagnostics>>
  BY DEF Widen, Narrowed, found
<1>2. \A k : Groups(k)' = Groups(k)
  BY <1>1, SameGroups
<1>3. Tried => Tried'
  <2> SUFFICES ASSUME Tried, NEW k \in 1..(tier + 1), NEW h \in Groups(k), WholeFor(job, h.nodes)
               PROVE  k = tier + 1 /\ h \in todo'
    BY <1>1, <1>2 DEF Tried
  <2>1. tier \in 1..5
    BY DEF PoolInv, PoolFlow
  <2>2. k \notin 1..tier
    BY <1>1 DEF Tried
  <2> QED
    BY <1>1, <2>1, <2>2
<1> QED
  BY <1>1, <1>3, SameExplained DEF Thorough, Counted, Ended, Greedy

\* When the levels are exhausted, those not tried are not allowed or not needed.
LEMMA NoneLeft ==
  ASSUME PoolInv, Exhausted, NEW k \in Allowed(job)
  PROVE  k <= tier \/ candidates # {}
<1> SUFFICES ASSUME candidates = {}, ~ (k <= tier) PROVE FALSE
  OBVIOUS
<1>1. tier \in 1..5 /\ job \in Jobs /\ tier + 1 \notin Allowed(job)
  BY WorkingJob DEF PoolInv, PoolFlow, Exhausted, Narrowed, LevelsToTry
<1>2. k \in 1..5
  BY AllowedLevels
<1>3. tier + 1 \in 1..k
  BY <1>1, <1>2
<1> QED
  BY <1>1, <1>3, LevelBelow

LEMMA UnsatisfiedThorough == PoolInv /\ Thorough /\ Unsatisfied => Thorough'
<1> SUFFICES ASSUME PoolInv, Thorough, Unsatisfied PROVE Thorough'
  OBVIOUS
<1>1. /\ pc = "open" /\ pc' = "done" /\ Exhausted /\ todo = {} /\ candidates = {}
      /\ UNCHANGED <<job, eligible, tier, todo, candidates, diagnostics>>
  BY DEF Unsatisfied, Exhausted, found
<1>2. \A k : Groups(k)' = Groups(k)
  BY <1>1, SameGroups
<1>3. \A k \in Allowed(job) : k <= tier \/ candidates # {}
  BY <1>1, NoneLeft
<1>4. answer'.code = "INSUFFICIENT_RESOURCES" =>
        \E d \in diagnostics : d.code = answer'.code /\ d.domain = answer'.domain
  <2>1. \/ \E c \in {"NODE_SELECTOR_NO_MATCH", "NO_NODES_IN_TOPOLOGY_SCOPE",
                     "ALL_MATCHING_NODES_UNAVAILABLE", "NO_TOPOLOGY_GROUP", "NO_FEASIBLE_NODE_GROUP"} :
             answer' = Failure(c, NoDomain)
        \/ \E d \in diagnostics : answer' = Failure(d.code, d.domain)
    BY DEF Unsatisfied, Refuse, Diagnosed
  <2>2. \A c, d : Failure(c, d).code = c /\ Failure(c, d).domain = d
    BY DEF Failure
  <2> QED
    BY <2>1, <2>2
<1>5. Tried => Tried'
  BY <1>1, <1>2 DEF Tried
<1>6. Ended'
  BY <1>1, <1>3, <1>4 DEF Ended, Allowed
<1> QED
  BY <1>1, <1>5, <1>6, SameExplained DEF Thorough, Counted, Greedy

LEMMA FinishThorough ==
  ASSUME PoolInv, Thorough, NEW pools \in SUBSET candidates, Finish(pools)
  PROVE  Thorough'
<1>1. /\ pc = "open" /\ pc' = "done" /\ Exhausted /\ todo = {} /\ candidates # {} /\ Best(pools)
      /\ answer' = Offer(pools)
      /\ UNCHANGED <<job, eligible, tier, todo, candidates, diagnostics>>
  BY DEF Finish, Exhausted, found
<1>2. \A k : Groups(k)' = Groups(k)
  BY <1>1, SameGroups
<1>3. \A k \in Allowed(job) : k <= tier \/ candidates # {}
  BY <1>1, NoneLeft
<1>4. answer'.pools # {} /\ answer'.kind = "groups"
  BY <1>1, BestBound DEF Offer
<1>5. Tried => Tried'
  BY <1>1, <1>2 DEF Tried
<1>6. Ended'
  BY <1>1, <1>3, <1>4 DEF Ended, Allowed
<1> QED
  BY <1>1, <1>5, <1>6, SameExplained DEF Thorough, Counted, Greedy

LEMMA ReleaseThorough == Release => Thorough'
BY DEF Release, Thorough, Counted, Ended, Greedy, Tried, Explained

LEMMA UnchangedThorough == Thorough /\ UNCHANGED pvars => Thorough'
<1> SUFFICES ASSUME Thorough, UNCHANGED pvars PROVE Thorough'
  OBVIOUS
<1>1. UNCHANGED <<job, answer, pc, eligible, tier, todo, group, rest, selected, total, candidates, diagnostics>>
  BY DEF pvars, work, walk, found
<1>2. \A k : Groups(k)' = Groups(k)
  BY <1>1, SameGroups
<1>3. (Tried => Tried') /\ (Greedy => Greedy') /\ (Explained => Explained')
  BY <1>1, <1>2, SameExplained DEF Tried, Greedy
<1> QED
  BY <1>1, <1>3 DEF Thorough, Counted, Ended, Allowed

LEMMA ThoroughNext == PoolInv /\ Thorough /\ [PoolNext]_pvars => Thorough'
<1> SUFFICES ASSUME PoolInv, Thorough, [PoolNext]_pvars PROVE Thorough'
  OBVIOUS
<1>1. CASE \E j \in Jobs : Receive(j)
  BY <1>1, ReceiveThorough
<1>2. CASE PoolStep
  BY <1>2, FilterThorough, GroupThorough, OpenThorough, ConsiderThorough, CloseThorough, WidenThorough,
     UnsatisfiedThorough, FinishThorough
     DEF PoolStep
<1>3. CASE Release
  BY <1>3, ReleaseThorough
<1>4. CASE UNCHANGED pvars
  BY <1>4, UnchangedThorough
<1> QED
  BY <1>1, <1>2, <1>3, <1>4 DEF PoolNext

\* The pipeline is thorough.
THEOREM ThoroughInvariant == PoolSpec => []Thorough
<1> QED
  BY InitThorough, ThoroughNext, PoolInvariant, PTL DEF PoolSpec

LEMMA ThoroughNarrowest == PoolInv /\ Thorough => NarrowestWhole
<1> SUFFICES ASSUME PoolInv, Thorough, pc = "done", SameNames(job),
                    NEW k \in Allowed(job), NEW g \in Groups(k), Whole(g.nodes)
             PROVE  /\ Offered # {}
                    /\ \E narrow \in 1..k : \A pool \in Offered : InOneDomain(job, pool.nodes, narrow)
  BY DEF NarrowestWhole
<1>1. WholeFor(job, g.nodes)
  BY WholeIsWholeFor
<1>2. k \in 1..5 /\ tier \in 1..5
  BY AllowedLevels DEF PoolInv, PoolFlow
<1>3. \A c \in Offered : c \in candidates /\ InOneDomain(job, c.nodes, tier)
  BY DEF Thorough, Counted, PoolInv, PoolFlow, Offered
<1>4. candidates # {} /\ tier <= k
  <2>1. CASE k <= tier
    <3>1. k \in 1..tier
      BY <1>2, <2>1
    <3>2. k = tier /\ candidates # {}
      BY <1>1, <3>1 DEF Thorough, Tried, Ended
    <3> QED
      BY <1>2, <3>2
  <2>2. CASE ~ (k <= tier)
    BY <1>2, <2>2 DEF Thorough, Ended
  <2> QED
    BY <2>1, <2>2
<1>5. Offered # {} /\ tier \in 1..k
  BY <1>2, <1>4 DEF Thorough, Ended, Offered
<1> QED
  BY <1>3, <1>5

\* If a group could be granted whole there is a pool, in no wider a domain: the greedy
\* walk takes all of a group that fits the quota until it has enough
\* (LoadBalanceAlgorithm._select_resource_pool_nodes, NarrowestFit).
THEOREM NarrowestHolds == PoolSpec => []NarrowestWhole
BY PoolInvariant, ThoroughInvariant, ThoroughNarrowest, PTL

LEMMA ThoroughInsufficient == PoolInv /\ Thorough => InsufficientIsTrue
<1> SUFFICES ASSUME PoolInv, Thorough, answer.kind = "failure", SameNames(job),
                    answer.code = "INSUFFICIENT_RESOURCES"
             PROVE  \E k \in DOMAIN LevelsOf(job.mode) : \E g \in Groups(k) :
                      g.domain = answer.domain /\ ~Covers(SumOf(g.nodes), job.minimum)
  BY DEF InsufficientIsTrue
<1>1. pc = "done"
  BY DEF PoolInv, PoolFlow, NoAnswer
<1>2. PICK d \in diagnostics : d.code = answer.code /\ d.domain = answer.domain
  BY <1>1 DEF Thorough, Ended
<1>3. Short(answer.domain)
  BY <1>2 DEF Thorough, Explained
<1> QED
  BY <1>3, SumOfIsSumFor DEF Short

\* A refusal for lack of resources is true: even all Nodes of the group it speaks of do
\* not reach the minimum (LoadBalanceAlgorithm.execute, _unsatisfied_failure).
THEOREM InsufficientHolds == PoolSpec => []InsufficientIsTrue
BY PoolInvariant, ThoroughInvariant, ThoroughInsufficient, PTL

\* What is said of a pool's Nodes together is their true sum.
LEMMA OfferedSums ==
  ASSUME PoolInv, Thorough, NEW pool \in Offered
  PROVE  /\ Promised(job, pool)
         /\ \A r \in Resources : pool.total[r] = SumOf(pool.nodes)[r]
<1>1. pool \in candidates
  BY DEF PoolInv, PoolFlow, Offered
<1> QED
  BY <1>1, SumOfIsSumFor DEF PoolInv, Weighed, Thorough, Counted

LEMMA OfferedWithinQuota == PoolInv /\ Thorough => (SameNames(job) => QuotaRespected)
<1> SUFFICES ASSUME PoolInv, Thorough, SameNames(job), NEW pool \in Offered, NEW r \in DOMAIN job.quota
             PROVE  SumOf(pool.nodes)[r] <= job.quota[r]
  BY DEF QuotaRespected
<1>1. pc = "done" /\ job \in Jobs
  BY WorkingJob DEF PoolInv, PoolFlow, Offered, NoAnswer
<1>2. r \in Resources
  BY <1>1, JobFacts DEF Amounts
<1> QED
  BY <1>2, OfferedSums DEF Promised

\* The quota holds for what the Nodes of a pool have together, if all Nodes of the job
\* name the same resources (the run quota_respected shows that it need not otherwise).
THEOREM QuotaWhenSame == PoolSpec => [](SameNames(job) => QuotaRespected)
BY PoolInvariant, ThoroughInvariant, OfferedWithinQuota, PTL

\* The Nodes of each pool offered have, together, the minimum of every resource.
MinimumReached ==
  \A pool \in Offered : Covers(SumOf(pool.nodes), job.minimum)

LEMMA OfferedCovers == PoolInv /\ Thorough => MinimumReached
<1> SUFFICES ASSUME PoolInv, Thorough, NEW pool \in Offered, NEW r \in DOMAIN job.minimum
             PROVE  Amount(SumOf(pool.nodes), r) >= job.minimum[r]
  BY DEF MinimumReached, Covers
<1>1. pc = "done" /\ job \in Jobs
  BY WorkingJob DEF PoolInv, PoolFlow, Offered, NoAnswer
<1>2. r \in Resources
  BY <1>1, JobFacts DEF Amounts
<1>3. Amount(SumOf(pool.nodes), r) = SumOf(pool.nodes)[r]
  BY <1>2, AmountOfSum, SumOfIsSumFor
<1> QED
  BY <1>2, <1>3, OfferedSums DEF Promised

\* The Nodes of a pool reach the minimum together, whatever resources they name: what
\* the walk has lost count of only makes it go on (LoadBalanceAlgorithm.execute).
THEOREM MinimumHolds == PoolSpec => []MinimumReached
BY PoolInvariant, ThoroughInvariant, OfferedCovers, PTL
=============================================================================
