-------------------------- MODULE MCAlgorithmService --------------------------
(* Instances of AlgorithmService for TLC.  Scenario "pool": the worker alone *)
(* on the jobs of MCPoolSelection.  "metrics": one request against a cache   *)
(* of metrics that is refreshed, fails and grows stale.  "life": two         *)
(* requests, PUTs of snapshots, failing calls and the end of the server.     *)
(* "drain": the end of a server that refreshes its metrics.                  *)
EXTENDS AlgorithmService, MCPoolSelection

Room(n) == <<"cn", "bj", "1", n>>
MCSource ==
  {[leaf |-> "l1", room |-> Room("1"), spines |-> {"s1"}, borders |-> {"b1"}, peers |-> {"l2"}],
   [leaf |-> "l2", room |-> Room("1"), spines |-> {"s1"}, borders |-> {"b1"}, peers |-> {"l1"}]}

\* n1 and n2 hear both switches or one of them; n3 hears one the topology lacks.
\* n1 and n2 have addresses of their own, or n2 has none.
Three == {"n1", "n2", "n3"}
Static(ip2) ==
  [nodes |-> Three, ip |-> [n1 |-> "ip1", n2 |-> ip2, n3 |-> "ip3"],
   leaves |-> [n1 |-> {"l1", "l2"}, n2 |-> {"l2"}, n3 |-> {"l9"}],
   labels |-> [n \in Three |-> Empty], allocatable |-> [n \in Three |-> Cpu(2)]]
MCStatics == {Static("ip2"), Static(None)}

Ask(static, form, usage, labels, minimum, quota) ==
  [static |-> static, form |-> form, usage |-> usage, labels |-> labels,
   matchLabels |-> Empty, expressions |-> {}, minimum |-> minimum, quota |-> quota, maxNodes |-> 1]

State(ready, unschedulable, used) ==
  [ready |-> ready, unschedulable |-> unschedulable, requested |-> Cpu(used)]
Good == State(TRUE, FALSE, 0)
OneKnown == [n \in {"n2"} |-> Good]
BothGood == [n \in {"n1", "n2"} |-> Good]

\* Two requests as the PRC sends them, and what is refused on the way.
MetricAsks == {Ask(Static("ip2"), "schedulerState", BothGood, Empty, Cpu(1), Empty)}
LifeAsks ==
  {Ask(Static("ip2"), "schedulerState", OneKnown, Empty, Cpu(1), Empty),
   Ask(Static(None), "schedulerState", [BothGood EXCEPT !["n1"] = State(TRUE, FALSE, 2)],
       Empty, Cpu(1), Empty)}
LaterAsks == {Ask(Static("ip2"), "schedulerState", OneKnown, Empty, Cpu(1), Empty)}
RefusedAsks ==
  {Ask(Static("ip2"), "nodeUsageStates", [n \in {"n1"} |-> [inUse |-> TRUE, requested |-> Empty]],
       [leafDomain |-> Name("l1")], Cpu(1), Cpu(1)),
   Ask(Static("ip2"), "nodeUsageStates", [n \in {"n9"} |-> [inUse |-> TRUE, requested |-> Empty]],
       Empty, Cpu(1), Empty),
   Ask(Static("ip2"), "schedulerState", BothGood, [spineDomain |-> Name("s9")], Cpu(1), Empty),
   Ask(Static("ip2"), "schedulerState", BothGood, Empty, Cpu(3), Cpu(2))}
MCAsks == MetricAsks \cup LifeAsks \cup RefusedAsks

\* A load of each address; one of them without a series; no series at all.
MCSamples == {[ip1 |-> 0, ip2 |-> 1], [ip1 |-> 1], NoValues}
MCCatalogue == <<"cpuUsageRatio", "networkLinkUpRatio">>
MCProfile ==
  [resourceWeight |-> 1, metricWeight |-> 3,
   metrics |-> [cpuUsageRatio |-> [weight |-> 2, reference |-> 1, lower |-> TRUE],
                networkLinkUpRatio |-> [weight |-> 1, reference |-> 1, lower |-> FALSE]]]
MCNameOrder == [n1 |-> 1, n2 |-> 2, n3 |-> 3]

\* Every job a request may become.
ServiceJobs ==
  UNION {{JobOf(ask, metrics) : metrics \in Measurements(ask.static)} :
           ask \in {a \in MCAsks : Problem(a) = ""}}
MCJobs == PoolJobs \cup ServiceJobs

VARIABLE scenario

MCInit ==
  /\ ServiceInit
  /\ \/ scenario = "pool" /\ enabled = FALSE
     \/ scenario = "metrics"
     \/ scenario = "life" /\ enabled = FALSE
     \/ scenario = "drain" /\ enabled = TRUE

\* The worker and the rest share no state but the job: it is enough that the rest
\* moves when the worker is idle, walks through a group, or is done.  A
\* request reads the cache of metrics in Prepare only: that is where the two are
\* interleaved with a refresh under way.
Between == pc \in {"idle", "walk", "done"}
OneScore == \A c \in candidates' : c.score = 0

PoolOnly ==
  /\ \/ PoolWorks \/ Release
     \/ job = NoJob /\ \E j \in PoolJobs : Receive(j)
  /\ UNCHANGED <<mvars, requests, statics, life>>
MetricsOnly ==
  /\ \/ PoolWorks
     \/ (requests["q1"].pc \in {"waiting", "calculating"} => refresh = None) /\ Handles("q1")
     \/ /\ pc \in {"idle", "done"} /\ staticNow # None
        /\ requests["q1"].pc \in {"unsent", "waiting", "calculating"}
        /\ MetricsWork
     \/ Start \/ BackgroundStarts \/ PutStatic(Static("ip2"))
     \/ staticNow # None /\ \E ask \in MetricAsks : Send("q1", ask)
  /\ OneScore
LifeWorks ==
  \/ Start \/ StopRun \/ ServeReturns
  \/ BeginShutdown \/ DrainEnds \/ BeginCleaning \/ EndCleaning \/ CloseReturns \/ ServeDone
LifeOnly ==
  /\ \/ PoolWorks
     \/ /\ Between
        /\ \/ \E q \in Requests : Handles(q) \/ CallFails(q)
           \/ \E ask \in MCAsks : Send("q1", ask)
           \/ \E ask \in LaterAsks : Send("q2", ask)
           \/ \E snapshot \in Statics : PutStatic(snapshot)
           \/ LifeWorks
  /\ OneScore
DrainOnly ==
  \/ LifeWorks \/ BackgroundStarts
  \/ MetricsWork /\ UNCHANGED clock

MCNext ==
  /\ UNCHANGED scenario
  /\ \/ scenario = "pool" /\ PoolOnly
     \/ scenario = "metrics" /\ MetricsOnly
     \/ scenario = "life" /\ LifeOnly
     \/ scenario = "drain" /\ DrainOnly

MCSpec == MCInit /\ [][MCNext]_<<svars, scenario>> /\ ServiceFairness
=============================================================================
