----------------------------- MODULE MCLldpAgent -----------------------------
(* Instances of LldpAgent and NetworkTopology for TLC.  Either a topology   *)
(* file is loaded, among all files of three Leaves, or the agent runs.      *)
EXTENDS LldpAgent

Room(n) == <<"cn", "bj", "1", n>>

\* l1 in room 1, l2 in room 1 or 2, l3 in room 2; two spines, two borders; each
\* Leaf may claim no peer, one, or (l2) two, known or not.
UplinkSets ==
  ({{}, {"s1"}, {"s1", "s2"}} \X {{}, {"b1"}}) \cup {<<{"s1"}, {"b1", "b2"}>>}
AllFiles ==
  {{[leaf |-> "l1", room |-> Room("1"), spines |-> u1[1], borders |-> u1[2], peers |-> p1],
    [leaf |-> "l2", room |-> room,      spines |-> u2[1], borders |-> u2[2], peers |-> p2],
    [leaf |-> "l3", room |-> Room("2"), spines |-> u3[1], borders |-> u3[2], peers |-> p3]} :
      room \in {Room("1"), Room("2")}, u1 \in UplinkSets, u2 \in UplinkSets, u3 \in UplinkSets,
      p1 \in {{}, {"l2"}}, p2 \in {{}, {"l1"}, {"l1", "l3"}}, p3 \in {{}, {"l2"}, {"l4"}}}

\* l1 and l2 are a pair; l3 hangs off a border switch alone.
PairAndSingle ==
  {[leaf |-> "l1", room |-> Room("1"), spines |-> {"s1"}, borders |-> {}, peers |-> {"l2"}],
   [leaf |-> "l2", room |-> Room("1"), spines |-> {"s1"}, borders |-> {}, peers |-> {"l1"}],
   [leaf |-> "l3", room |-> Room("2"), spines |-> {}, borders |-> {"b1"}, peers |-> {}]}
MCFiles == AllFiles \cup {PairAndSingle}

\* Each has its name; or the third switch and the host's reflection have none.
MCNamings ==
  {[c1 |-> "l1", c2 |-> "l2", c3 |-> "l3", self |-> "host"],
   [c1 |-> "l1", c2 |-> "l2", c3 |-> None, self |-> None]}

\* The bond's slaves on the pair; the standalone port unplugged, or on the third.
MCCablings ==
  {[eth0 |-> "c1", eth1 |-> "c2", eth2 |-> None], [eth0 |-> "c1", eth1 |-> "c1", eth2 |-> "c3"]}

\* The deployment's flags; one named slave; a limit of neighbours, once.
MCOptions ==
  {[explicit |-> {}, count |-> 0, periodic |-> TRUE],
   [explicit |-> {"eth0", "eth2"}, count |-> 0, periodic |-> TRUE],
   [explicit |-> {"bond0"}, count |-> 1, periodic |-> FALSE]}

VARIABLE scenario

MCInit ==
  /\ AgentInit
  /\ \/ /\ scenario = "agent" /\ file = PairAndSingle
        /\ name["c3"] = None => cable["eth2"] = "c3" /\ option.explicit = {"eth0", "eth2"}
     \/ /\ scenario = "file" /\ cable = [eth0 |-> "c1", eth1 |-> "c2", eth2 |-> None]
        /\ name["self"] = "host"
        /\ option = [explicit |-> {}, count |-> 0, periodic |-> TRUE]

MCNext == scenario = "agent" /\ AgentNext /\ UNCHANGED scenario
MCSpec == MCInit /\ [][MCNext]_<<avars, scenario>> /\ AgentFairness
=============================================================================
