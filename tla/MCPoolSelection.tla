--------------------------- MODULE MCPoolSelection ---------------------------
(* Instances of PoolSelection for TLC: four Nodes of one data center.  In    *)
(* the layered topology p1 and p2 share a Leaf, p3 their spine, p4 only the  *)
(* border; in the compatible one p3 has no uplink of that kind.              *)
EXTENDS PoolSelection

PoolNodes == {"p1", "p2", "p3", "p4"}
At(leaf, spine, uplink) ==
  [leafDomain |-> Name(leaf), spineDomain |-> Name(spine), borderDomain |-> Name("b1"),
   uplinkDomain |-> uplink, room |-> Scope("r1"), dataCenter |-> Scope("dc")]
PoolPlace(mode) ==
  LET up(d) == IF mode = "layered" THEN NoDomain ELSE Name(d)
  IN [p1 |-> At("A", "S", up("u1")), p2 |-> At("A", "S", up("u1")),
      p3 |-> At("B", "S", up("u2")), p4 |-> At("C", "T", up("u1"))]

NoConstraint == Empty
Same(levels) == [l \in levels |-> RequiredSame]

Cpu(n) == [r \in {"cpu"} |-> n]
CpuGpu(c, g) == [r \in {"cpu", "gpu"} |-> IF r = "cpu" THEN c ELSE g]

Job(mode, at, minimum, quota, maxNodes, score, capacity, requested, busy, expressions) ==
  [mode |-> mode, nodes |-> PoolNodes, place |-> PoolPlace(mode), at |-> at,
   labels |-> [n \in PoolNodes |-> IF n = "p4" THEN [pool |-> "b"] ELSE [pool |-> "a"]],
   matchLabels |-> Empty, expressions |-> expressions,
   capacity |-> capacity, requested |-> requested, busy |-> busy,
   minimum |-> minimum, quota |-> quota, maxNodes |-> maxNodes,
   score |-> score, order |-> [p1 |-> 1, p2 |-> 2, p3 |-> 3, p4 |-> 4]]

\* By name; or p4, p2, p3, p1.
NodeScores ==
  {[p1 |-> 0, p2 |-> 0, p3 |-> 0, p4 |-> 0], [p1 |-> 0, p2 |-> 1, p3 |-> 1, p4 |-> 2]}

\* What is requested on p3, and the Nodes in use.
Loads == {[used |-> Empty, busy |-> {}], [used |-> Cpu(3), busy |-> {}], [used |-> Empty, busy |-> {"p2"}]}

\* Every kind of constraint, minimum, quota and limit on Nodes of one and two CPUs.
LayeredJobs ==
  {Job("layered", at, minimum, quota, maxNodes, score,
       [n \in PoolNodes |-> Cpu(IF n \in {"p1", "p3"} THEN 2 ELSE 1)],
       [n \in PoolNodes |-> IF n = "p3" THEN load.used ELSE Empty], load.busy, {}) :
     at \in {NoConstraint, Same({"spineDomain"}), Same({"leafDomain", "room"}),
             [spineDomain |-> Name("T"), leafDomain |-> RequiredSame]},
     minimum \in {Empty, Cpu(2), Cpu(3), Cpu(5)}, quota \in {Empty, Cpu(3)},
     maxNodes \in {1, 2, 4}, score \in NodeScores, load \in Loads}

CompatibleJobs ==
  {Job("uplink-compatible", at, minimum, Cpu(3), 3, score,
       [n \in PoolNodes |-> Cpu(1)], [n \in PoolNodes |-> Empty], {}, {}) :
     at \in {NoConstraint, Same({"uplinkDomain"}), Same({"uplinkDomain", "dataCenter"}),
             [uplinkDomain |-> RequiredSame, spineDomain |-> Name("S")]},
     minimum \in {Cpu(2), Cpu(3)}, score \in NodeScores}

\* Selectors that leave some Nodes, or none; and all Nodes in use.
Pools(op, values) == [key |-> "pool", operator |-> op, values |-> values]
FilteredJobs ==
  {Job("layered", NoConstraint, Cpu(1), Empty, 4, CHOOSE s \in NodeScores : TRUE,
       [n \in PoolNodes |-> Cpu(1)], [n \in PoolNodes |-> Empty], busy, {e}) :
     e \in {Pools("In", {"a"}), Pools("NotIn", {"a"}), Pools("Exists", {}), Pools("DoesNotExist", {})},
     busy \in {{}, PoolNodes}}
  \cup {[Job("layered", [leafDomain |-> Name("D")], Cpu(1), Empty, 4, CHOOSE s \in NodeScores : TRUE,
             [n \in PoolNodes |-> Cpu(1)], [n \in PoolNodes |-> Empty], {}, {})
           EXCEPT !.matchLabels = [pool |-> "a"]]}
  \cup {[Job("layered", NoConstraint, Cpu(1), Empty, 4, CHOOSE s \in NodeScores : TRUE,
             [n \in PoolNodes |-> Cpu(1)], [n \in PoolNodes |-> Empty], {}, {})
           EXCEPT !.place = [n \in PoolNodes |-> [l \in DOMAIN At("A", "S", NoDomain) |-> NoDomain]]]}

PoolJobs == LayeredJobs \cup CompatibleJobs \cup FilteredJobs

\* Two machines with a GPU and one without it in between.
MixedJobs ==
  {Job("layered", NoConstraint, Cpu(n), quota, 4, score,
       [m \in PoolNodes |-> IF m \in {"p1", "p3"} THEN CpuGpu(2, 1) ELSE Cpu(1)],
       [m \in PoolNodes |-> Empty], {}, {}) :
     n \in 1..6, quota \in {[r \in {"gpu"} |-> 1], Empty}, score \in NodeScores}
=============================================================================
