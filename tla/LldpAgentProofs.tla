--------------------------- MODULE LldpAgentProofs ---------------------------
(***************************************************************************)
(* Proofs about LldpAgent and NetworkTopology, for any ports, switches,    *)
(* names, flags, files and bounds: type correctness, that what a cycle     *)
(* writes was heard in its own window, that the label agrees with the      *)
(* recorded Leaves, that an accepted file places a Node alike by any part  *)
(* of its Leaves, and that a demand for a switch selects the Nodes on it.  *)
(***************************************************************************)
EXTENDS LldpAgent, FiniteSetTheorems, TLAPS

Interfaces == Ports \cup {Bond}
Neighbours(interfaces) ==
  [interface : interfaces, port : Ports, chassis : Chassis, name : SystemNames]

LEMMA AgentConstants ==
  /\ Slaves \subseteq Ports /\ None \notin Chassis
  /\ Namings \subseteq [Chassis -> SystemNames]
  /\ Cablings \subseteq [Ports -> Chassis \cup {None}]
  /\ \A o \in Options : o.explicit \subseteq Interfaces
  /\ MaxChanges \in Nat /\ MaxFaults \in Nat
  /\ None \in SystemNames /\ SystemNames \subseteq LeafNames /\ Chassis \subseteq LeafNames
  /\ \A f \in Files : IsFiniteSet(f)
<1>1. None \in SystemNames
  BY DEF SystemNames
<1>2. SystemNames \subseteq LeafNames /\ Chassis \subseteq LeafNames
  BY DEF LeafNames, Chassis
<1>3. /\ Namings \subseteq [Chassis -> SystemNames]
      /\ Cablings \subseteq [Ports -> Chassis \cup {None}]
  BY AgentAssumption
<1>4. /\ Slaves \subseteq Ports /\ None \notin Chassis
      /\ \A o \in Options : o.explicit \subseteq Interfaces
      /\ MaxChanges \in Nat /\ MaxFaults \in Nat /\ \A f \in Files : IsFiniteSet(f)
  BY AgentAssumption DEF Interfaces
<1> QED
  BY <1>1, <1>2, <1>3, <1>4

-----------------------------------------------------------------------------
(* What is heard, and the facts made of it.                                *)

\* A frame comes in on a given interface, from a chassis, under a name or none.
LEMMA FramesType ==
  ASSUME AgentTypeOK, NEW interfaces \in SUBSET Interfaces
  PROVE  Frames(interfaces) \subseteq Neighbours(interfaces)
<1> SUFFICES ASSUME NEW i \in interfaces, NEW p \in Audible(i)
             PROVE  [interface |-> i, port |-> p, chassis |-> cable[p], name |-> name[cable[p]]]
                      \in Neighbours(interfaces)
  BY DEF Frames
<1>1. p \in Ports /\ cable[p] # None
  BY AgentConstants DEF Audible, PortsOf, Interfaces
<1>2. cable[p] \in Chassis
  BY <1>1 DEF AgentTypeOK
<1>3. name[cable[p]] \in SystemNames
  BY <1>2 DEF AgentTypeOK
<1> QED
  BY <1>1, <1>2, <1>3 DEF Neighbours

\* A Leaf is a chassis, or goes by a name that one of its frames carried.
LEMMA LeafIdNamed ==
  ASSUME NEW neighbours, NEW c
  PROVE  \/ LeafId(neighbours, c) = c
         \/ \E g \in neighbours : g.chassis = c /\ g.name # None /\ g.name = LeafId(neighbours, c)
<1>1. CASE Named(neighbours, c) = {}
  BY <1>1 DEF LeafId
<1>2. CASE Named(neighbours, c) # {}
  <2>1. LeafId(neighbours, c) \in Named(neighbours, c)
    BY <1>2 DEF LeafId
  <2> QED
    BY <2>1 DEF Named
<1> QED
  BY <1>1, <1>2

\* The label is none, or the only Leaf; a single Leaf with a name is the label.
LEMMA LabelIsOnlyLeaf ==
  ASSUME NEW leaves
  PROVE  /\ Label(leaves) = None \/ leaves = {Label(leaves)}
         /\ \A l \in leaves \ Chassis : leaves = {l} => Label(leaves) = l
<1>1. CASE \E l \in leaves \ Chassis : leaves = {l}
  <2>1. PICK l \in leaves : leaves = {l}
    BY <1>1
  <2>2. Label(leaves) = l
    BY <1>1, <2>1 DEF Label
  <2> QED
    BY <2>1, <2>2
<1>2. CASE ~\E l \in leaves \ Chassis : leaves = {l}
  BY <1>2 DEF Label
<1> QED
  BY <1>1, <1>2

LEMMA FactsType ==
  ASSUME NEW interfaces \in SUBSET Interfaces,
         NEW neighbours \in SUBSET Neighbours(interfaces)
  PROVE  BuildNodeMetadata(BuildLeafLinks(neighbours)) \in Facts
<1> DEFINE links == BuildLeafLinks(neighbours)
           leaves == {l.leaf : l \in links}
<1>1. ASSUME NEW n \in neighbours PROVE LeafId(neighbours, n.chassis) \in LeafNames
  BY LeafIdNamed, AgentConstants DEF Neighbours
<1>2. links \subseteq Links
  BY <1>1 DEF BuildLeafLinks, Links, Interfaces, Neighbours
<1>3. leaves \subseteq LeafNames
  BY <1>2 DEF Links
<1>4. Label(leaves) \in LeafNames
  BY <1>3, LabelIsOnlyLeaf, AgentConstants
<1>5. BuildNodeMetadata(links) = [leaves |-> leaves, links |-> links, label |-> Label(leaves)]
  BY DEF BuildNodeMetadata
<1> QED
  BY <1>2, <1>3, <1>4, <1>5 DEF Facts

LEMMA NoFactsType == NoFacts \in Facts
BY AgentConstants DEF NoFacts, Facts

-----------------------------------------------------------------------------
(* The invariant.                                                          *)

\* While the window is open, live has what can be heard now; what was heard was
\* live; nothing is left over from the cycle before.
Windowed ==
  /\ pc = "listen" => Frames(selected) \subseteq live
  /\ heard \subseteq live
  /\ pc \in {"select", "wait", "done"} => want = NoFacts

\* The label to be written agrees with the Leaves to be written.
WantAgrees ==
  /\ want.label # None => want.leaves = {want.label}
  /\ \A l \in want.leaves \ Chassis : want.leaves = {l} => want.label = l

AgentInv ==
  /\ AgentTypeOK /\ Windowed /\ WantAgrees
  /\ FactsFromThisWindow /\ LabelAgreesWithLeaves

LEMMA InitInv == AgentInit => AgentInv
<1> SUFFICES ASSUME AgentInit PROVE AgentInv
  OBVIOUS
<1>1. AgentTypeOK
  <2>1. cable \in [Ports -> Chassis \cup {None}] /\ name \in [Chassis -> SystemNames]
    BY AgentConstants DEF AgentInit
  <2>2. link \in [Ports -> {"up", "noCarrier", "adminDown"}]
    BY DEF AgentInit
  <2>3. changes \in 0..MaxChanges /\ faults \in 0..MaxFaults
    BY AgentConstants DEF AgentInit
  <2> QED
    BY <2>1, <2>2, <2>3, NoFactsType DEF AgentInit, AgentTypeOK, Steps
<1> QED
  BY <1>1 DEF AgentInit, AgentInv, Windowed, WantAgrees, FactsFromThisWindow,
              LabelAgreesWithLeaves, NoFacts

\* What can be heard does not change with the agent's steps.
LEMMA FramesKept ==
  ASSUME UNCHANGED wiring, selected' = selected
  PROVE  Frames(selected)' = Frames(selected)
BY DEF wiring, Frames, Audible, PortsOf

\* A cycle that ends forgets all it had.
LEMMA EndKeepsInv ==
  ASSUME AgentInv, NEW ok, EndCycle(ok), UNCHANGED <<file, wiring, option, live, changes>>,
         faults' \in 0..MaxFaults,
         \/ UNCHANGED <<node, edited>>
         \/ Write
  PROVE  AgentInv'
<1>1. AgentTypeOK'
  BY NoFactsType DEF AgentInv, AgentTypeOK, EndCycle, Write, wiring, Steps
<1>2. Windowed' /\ WantAgrees' /\ FactsFromThisWindow'
  BY DEF AgentInv, Windowed, WantAgrees, FactsFromThisWindow, EndCycle, NoFacts
<1>3. LabelAgreesWithLeaves'
  BY DEF AgentInv, WantAgrees, LabelAgreesWithLeaves, Write
<1> QED
  BY <1>1, <1>2, <1>3 DEF AgentInv

LEMMA SelectKeepsInv == AgentInv /\ Select => AgentInv'
<1> SUFFICES ASSUME AgentInv, Select PROVE AgentInv'
  OBVIOUS
<1>1. CASE SelectInterfaces # {} /\ pc' = "listen"
  <2>1. selected' = SelectInterfaces /\ heard' = {} /\ live' = Frames(selected') /\ want' = want
    BY <1>1 DEF Select, EndCycle
  <2>2. SelectInterfaces \subseteq Interfaces
    BY AgentConstants DEF SelectInterfaces, Interfaces, AgentInv, AgentTypeOK
  <2>3. AgentTypeOK'
    BY <1>1, <2>1, <2>2 DEF Select, Kept, AgentInv, AgentTypeOK, wiring, bound, Steps, Interfaces
  <2>4. Frames(selected)' = Frames(selected')
    BY DEF Select, Kept, wiring, Frames, Audible, PortsOf
  <2>5. want = NoFacts
    BY DEF Select, AgentInv, Windowed
  <2> QED
    BY <1>1, <2>1, <2>3, <2>4, <2>5
       DEF Select, Kept, AgentInv, Windowed, WantAgrees, FactsFromThisWindow, LabelAgreesWithLeaves, NoFacts
<1>2. CASE EndCycle(FALSE) /\ UNCHANGED live
  BY <1>2, EndKeepsInv DEF Select, Kept, bound, AgentInv, AgentTypeOK
<1> QED
  BY <1>1, <1>2 DEF Select

LEMMA HearKeepsInv ==
  ASSUME AgentInv, NEW frame \in Frames(selected), Hear(frame) PROVE AgentInv'
<1>1. heard' \subseteq heard \cup {frame}
  BY DEF Hear
<1>2. frame \in Neighbours(selected)
  BY FramesType DEF AgentInv, AgentTypeOK, Interfaces
<1>3. AgentTypeOK'
  BY <1>1, <1>2 DEF Hear, Kept, AgentInv, AgentTypeOK, wiring, bound, Neighbours
<1>4. Frames(selected)' = Frames(selected)
  BY FramesKept DEF Hear, Kept
<1>5. frame \in live
  BY DEF Hear, AgentInv, Windowed
<1> QED
  BY <1>1, <1>3, <1>4, <1>5
     DEF Hear, Kept, AgentInv, Windowed, WantAgrees, FactsFromThisWindow, LabelAgreesWithLeaves

LEMMA BuildKeepsInv == AgentInv /\ Build => AgentInv'
<1> SUFFICES ASSUME AgentInv, Build PROVE AgentInv'
  OBVIOUS
<1> DEFINE neighbours == External(heard)
<1>1. CASE /\ want' = BuildNodeMetadata(BuildLeafLinks(neighbours))
           /\ pc' = "get" /\ UNCHANGED <<selected, heard>>
  <2>1. neighbours \subseteq heard /\ \A n \in neighbours : n.name # HostName
    BY DEF External
  <2>2. neighbours \in SUBSET Neighbours(selected) /\ selected \in SUBSET Interfaces
    BY <2>1 DEF AgentInv, AgentTypeOK, Neighbours, Interfaces
  <2>3. want' \in Facts
    BY <1>1, <2>2, FactsType
  <2>4. AgentTypeOK'
    BY <1>1, <2>3 DEF Build, Kept, AgentInv, AgentTypeOK, wiring, bound, Steps
  <2>5. /\ want'.links = BuildLeafLinks(neighbours)
        /\ want'.label = Label(want'.leaves)
    BY <1>1 DEF BuildNodeMetadata
  <2>6. WantAgrees'
    BY <2>5, LabelIsOnlyLeaf DEF WantAgrees
  <2>7. FactsFromThisWindow'
    <3> SUFFICES ASSUME NEW n \in neighbours
                 PROVE  \E f \in live :
                   /\ f.interface = n.interface /\ f.port = n.port /\ f.name # HostName
                   /\ LeafId(neighbours, n.chassis)
                        \in {f.chassis} \cup ({g.name : g \in {h \in live : h.chassis = f.chassis}} \ {HostName, None})
      BY <2>5 DEF FactsFromThisWindow, BuildLeafLinks, Build
    <3>1. n \in live /\ neighbours \subseteq live
      BY <2>1 DEF AgentInv, Windowed
    <3>2. LeafId(neighbours, n.chassis)
            \in {n.chassis} \cup ({g.name : g \in {h \in live : h.chassis = n.chassis}} \ {HostName, None})
      BY <2>1, <3>1, LeafIdNamed
    <3> QED
      BY <2>1, <3>1, <3>2
  <2> QED
    BY <1>1, <2>4, <2>6, <2>7 DEF Build, Kept, AgentInv, Windowed, LabelAgreesWithLeaves
<1>2. CASE EndCycle(FALSE)
  BY <1>2, EndKeepsInv DEF Build, Kept, bound, AgentInv, AgentTypeOK
<1> QED
  BY <1>1, <1>2 DEF Build

\* The surroundings leave the agent as it is, and what they make audible is live.
LEMMA ChangeKeepsInv ==
  ASSUME AgentInv, Change, StillLive,
         cable' \in [Ports -> Chassis \cup {None}],
         link' \in [Ports -> {"up", "noCarrier", "adminDown"}],
         name' \in [Chassis -> SystemNames]
  PROVE  AgentInv'
<1>1. AgentTypeOK'
  BY AgentConstants DEF Change, agent, AgentInv, AgentTypeOK
<1>2. live \subseteq live' /\ (pc = "listen" => Frames(selected)' \subseteq live')
  BY DEF StillLive
<1>3. Windowed'
  BY <1>2 DEF Change, agent, AgentInv, Windowed
<1>4. FactsFromThisWindow'
  BY <1>2 DEF Change, agent, AgentInv, FactsFromThisWindow
<1> QED
  BY <1>1, <1>3, <1>4 DEF Change, agent, AgentInv, WantAgrees, LabelAgreesWithLeaves

LEMMA WiringChangesKeepInv ==
  ASSUME AgentInv,
         \/ \E p \in Ports, c \in Chassis \cup {None} : Recable(p, c)
         \/ \E p \in Ports, state \in {"up", "noCarrier", "adminDown"} : LinkChanges(p, state)
         \/ \E c \in Chassis, n \in SystemNames : Rename(c, n)
  PROVE  AgentInv'
<1>0. /\ cable \in [Ports -> Chassis \cup {None}]
      /\ link \in [Ports -> {"up", "noCarrier", "adminDown"}]
      /\ name \in [Chassis -> SystemNames]
  BY DEF AgentInv, AgentTypeOK
<1>1. CASE \E p \in Ports, c \in Chassis \cup {None} : Recable(p, c)
  BY <1>0, <1>1, ChangeKeepsInv DEF Recable
<1>2. CASE \E p \in Ports, state \in {"up", "noCarrier", "adminDown"} : LinkChanges(p, state)
  BY <1>0, <1>2, ChangeKeepsInv DEF LinkChanges
<1>3. CASE \E c \in Chassis, n \in SystemNames : Rename(c, n)
  BY <1>0, <1>3, ChangeKeepsInv DEF Rename
<1> QED
  BY <1>1, <1>2, <1>3

LEMMA NextKeepsInv == AgentInv /\ [AgentNext]_avars => AgentInv'
<1> SUFFICES ASSUME AgentInv, [AgentNext]_avars PROVE AgentInv'
  OBVIOUS
<1>F. Fault => faults' \in 0..MaxFaults /\ changes' = changes
  BY AgentConstants DEF Fault, AgentInv, AgentTypeOK
<1>1. CASE Select
  BY <1>1, SelectKeepsInv
<1>2. CASE CloseWindow
  <2>1. CASE pc' = "build" /\ UNCHANGED <<selected, heard, want, live>>
    <3>1. AgentTypeOK'
      BY <1>2, <2>1 DEF CloseWindow, Kept, AgentInv, AgentTypeOK, wiring, bound, Steps
    <3> QED
      BY <1>2, <2>1, <3>1 DEF CloseWindow, Kept, AgentInv, Windowed, WantAgrees, FactsFromThisWindow, LabelAgreesWithLeaves
  <2>2. CASE EndCycle(FALSE) /\ UNCHANGED live
    BY <1>2, <2>2, EndKeepsInv DEF CloseWindow, Kept, bound, AgentInv, AgentTypeOK
  <2> QED
    BY <1>2, <2>1, <2>2 DEF CloseWindow
<1>3. CASE Build
  BY <1>3, BuildKeepsInv
<1>4. CASE Get
  <2>1. AgentTypeOK'
    BY <1>4 DEF Get, Kept, AgentInv, AgentTypeOK, wiring, bound, Steps
  <2> QED
    BY <1>4, <2>1 DEF Get, Kept, AgentInv, Windowed, WantAgrees, FactsFromThisWindow, LabelAgreesWithLeaves
<1>5. CASE Patch
  <2>1. AgentTypeOK'
    BY <1>5 DEF Patch, Write, AgentInv, AgentTypeOK, wiring, bound, Steps
  <2> QED
    BY <1>5, <2>1 DEF Patch, Write, AgentInv, Windowed, WantAgrees, FactsFromThisWindow, LabelAgreesWithLeaves
<1>6. CASE Verify
  BY <1>6, EndKeepsInv DEF Verify, Kept, bound, AgentInv, AgentTypeOK
<1>7. CASE NextCycle
  <2>1. AgentTypeOK'
    BY <1>7 DEF NextCycle, Kept, AgentInv, AgentTypeOK, wiring, bound, Steps
  <2> QED
    BY <1>7, <2>1 DEF NextCycle, Kept, AgentInv, Windowed, WantAgrees, FactsFromThisWindow, LabelAgreesWithLeaves
<1>8. CASE \E frame \in Frames(selected) : Hear(frame)
  BY <1>8, HearKeepsInv
<1>9. CASE RequestFails
  BY <1>9, <1>F, EndKeepsInv DEF RequestFails
<1>10. CASE PatchUnanswered
  BY <1>10, <1>F, EndKeepsInv DEF PatchUnanswered
<1>11. CASE \/ \E p \in Ports, c \in Chassis \cup {None} : Recable(p, c)
            \/ \E p \in Ports, state \in {"up", "noCarrier", "adminDown"} : LinkChanges(p, state)
            \/ \E c \in Chassis, n \in SystemNames : Rename(c, n)
  BY <1>11, WiringChangesKeepInv
<1>12. CASE RecreateNode
  <2>1. AgentTypeOK'
    BY <1>12, <1>F, NoFactsType DEF RecreateNode, AgentInv, AgentTypeOK, agent, wiring
  <2>2. Frames(selected)' = Frames(selected)
    BY <1>12, FramesKept DEF RecreateNode, agent
  <2> QED
    BY <1>12, <2>1, <2>2 DEF RecreateNode, agent, AgentInv, Windowed, WantAgrees, FactsFromThisWindow, LabelAgreesWithLeaves, NoFacts
<1>13. CASE Restart
  <2>1. AgentTypeOK'
    BY <1>13, <1>F, NoFactsType DEF Restart, AgentInv, AgentTypeOK, wiring, Steps
  <2> QED
    BY <1>13, <2>1 DEF Restart, AgentInv, Windowed, WantAgrees, FactsFromThisWindow, LabelAgreesWithLeaves, NoFacts
<1>14. CASE \E l \in SystemNames : EditLabel(l)
  <2>1. PICK l \in SystemNames : EditLabel(l)
    BY <1>14
  <2>2. node' \in Facts
    BY <2>1, AgentConstants DEF EditLabel, AgentInv, AgentTypeOK, Facts
  <2>3. AgentTypeOK'
    BY <2>1, <2>2, <1>F DEF EditLabel, AgentInv, AgentTypeOK, agent, wiring
  <2>4. Frames(selected)' = Frames(selected)
    BY <2>1, FramesKept DEF EditLabel, agent
  <2> QED
    BY <2>1, <2>3, <2>4 DEF EditLabel, agent, AgentInv, Windowed, WantAgrees, FactsFromThisWindow, LabelAgreesWithLeaves
<1>15. CASE UNCHANGED avars
  <2>1. Frames(selected)' = Frames(selected)
    BY <1>15, FramesKept DEF avars, agent
  <2>2. AgentTypeOK'
    BY <1>15 DEF avars, agent, wiring, bound, AgentInv, AgentTypeOK
  <2> QED
    BY <1>15, <2>1, <2>2 DEF avars, agent, wiring, AgentInv, Windowed, WantAgrees, FactsFromThisWindow, LabelAgreesWithLeaves
<1> QED
  BY <1>1, <1>2, <1>3, <1>4, <1>5, <1>6, <1>7, <1>8, <1>9, <1>10, <1>11, <1>12, <1>13,
     <1>14, <1>15 DEF AgentNext

\* What is inductive, in every run of the agent and its surroundings.
THEOREM AgentInvariant == AgentSpec => []AgentInv
BY InitInv, NextKeepsInv, PTL DEF AgentSpec

\* Types of the agent, the Node and their surroundings.
THEOREM AgentTypes == AgentSpec => []AgentTypeOK
BY AgentInvariant, PTL DEF AgentInv

\* What a cycle writes could be heard while its own window was open, on an interface
\* it selected and not under the host's name, and is called by a name of the same
\* chassis, or by its identity (receiveLLDPOnHost, buildLeafLinks).
THEOREM FactsAreOwn == AgentSpec => []FactsFromThisWindow
BY AgentInvariant, PTL DEF AgentInv

\* Unless edited, the label is there exactly for a single Leaf with a name, and is that
\* Leaf, whatever requests fail or are lost (BuildNodeMetadata, patchNode).
THEOREM LabelAgrees == AgentSpec => []LabelAgreesWithLeaves
BY AgentInvariant, PTL DEF AgentInv

-----------------------------------------------------------------------------
(* Files the Algorithm Server accepts.                                     *)

\* One name is an alias of one domain.
LEMMA AliasOfOneDomain ==
  ASSUME NEW aliases, AliasesAgree(aliases), NEW n, NEW d, NEW e,
         <<n, d>> \in aliases, <<n, e>> \in aliases
  PROVE  d = e
BY DEF AliasesAgree

LEMMA SpineAlias ==
  ASSUME NEW config, NEW r \in config.topology, NEW s \in r.spines
  PROVE  <<Name(s), SpineDomain(r)>> \in SpineAliases(config)
<1>1. <<Name(s), SpineDomain(r)>> \in Aliases(SpineDomain(r), r.spines)
  BY DEF Aliases
<1> QED
  BY <1>1 DEF SpineAliases

LEMMA BorderAlias ==
  ASSUME NEW config, NEW r \in config.topology, NEW b \in r.borders
  PROVE  <<Name(b), BorderDomain(config, r)>> \in BorderAliases(config)
<1>1. <<Name(b), BorderDomain(config, r)>> \in Aliases(BorderDomain(config, r), r.borders)
  BY DEF Aliases
<1> QED
  BY <1>1 DEF BorderAliases

LEMMA LeafAlias ==
  ASSUME NEW config, NEW r \in config.topology, NEW l \in Members(r)
  PROVE  <<Name(l), LeafDomain(r)>> \in LeafAliases(config)
<1>1. <<Name(l), LeafDomain(r)>> \in Aliases(LeafDomain(r), Members(r))
  BY DEF Aliases
<1> QED
  BY <1>1 DEF LeafAliases

\* Switches are in one domain each, because a name with two domains is refused.
LEMMA OneDomain ==
  ASSUME NEW config, Accepted(config), NEW r \in config.topology, NEW q \in config.topology
  PROVE  /\ r.spines \cap q.spines # {} => SpineDomain(r) = SpineDomain(q)
         /\ r.borders \cap q.borders # {} => BorderDomain(config, r) = BorderDomain(config, q)
         /\ Members(r) \cap Members(q) # {} => LeafDomain(r) = LeafDomain(q)
<1>0. /\ AliasesAgree(LeafAliases(config)) /\ AliasesAgree(SpineAliases(config))
      /\ AliasesAgree(BorderAliases(config))
  BY DEF Accepted
<1>1. ASSUME NEW s \in r.spines \cap q.spines PROVE SpineDomain(r) = SpineDomain(q)
  <2>1. /\ <<Name(s), SpineDomain(r)>> \in SpineAliases(config)
        /\ <<Name(s), SpineDomain(q)>> \in SpineAliases(config)
    BY SpineAlias
  <2> QED
    BY <1>0, <2>1, AliasOfOneDomain
<1>2. ASSUME NEW b \in r.borders \cap q.borders
      PROVE  BorderDomain(config, r) = BorderDomain(config, q)
  <2>1. /\ <<Name(b), BorderDomain(config, r)>> \in BorderAliases(config)
        /\ <<Name(b), BorderDomain(config, q)>> \in BorderAliases(config)
    BY BorderAlias
  <2> QED
    BY <1>0, <2>1, AliasOfOneDomain
<1>3. ASSUME NEW l \in Members(r) \cap Members(q) PROVE LeafDomain(r) = LeafDomain(q)
  <2>1. /\ <<Name(l), LeafDomain(r)>> \in LeafAliases(config)
        /\ <<Name(l), LeafDomain(q)>> \in LeafAliases(config)
    BY LeafAlias
  <2> QED
    BY <1>0, <2>1, AliasOfOneDomain
<1> QED
  BY <1>1, <1>2, <1>3

LEMMA SpineDomainIsItsSpines ==
  ASSUME NEW r, NEW q, r.spines # {}, SpineDomain(r) = SpineDomain(q)
  PROVE  r.spines = q.spines
BY DEF SpineDomain, NoDomain, Domain

-----------------------------------------------------------------------------
(* The place of a Node.                                                    *)

LEMMA RowOfLeaf ==
  ASSUME NEW config, Accepted(config), NEW r \in config.topology
  PROVE  Row(config.topology, r.leaf) = r
BY DEF Accepted, RowsAgree, Row

LEMMA LeafHasRow ==
  ASSUME NEW rows, NEW l \in Leaves(rows)
  PROVE  Row(rows, l) \in rows /\ Row(rows, l).leaf = l
BY DEF Leaves, Row

\* A Leaf's domain determines its members: a pair is no single Leaf.
LEMMA LeafDomainIsItsMembers ==
  ASSUME NEW r, NEW q, LeafDomain(r) = LeafDomain(q)
  PROVE  Members(r) = Members(q)
<1>1. CASE Members(r) = {r.leaf}
  <2>1. LeafDomain(r).kind = "name" /\ LeafDomain(r).members = {r.leaf}
    BY <1>1 DEF LeafDomain, Name, Domain
  <2>2. Members(q) = {q.leaf}
    BY <2>1 DEF LeafDomain, Domain
  <2>3. LeafDomain(q).members = {q.leaf}
    BY <2>2 DEF LeafDomain, Name, Domain
  <2> QED
    BY <1>1, <2>1, <2>2, <2>3
<1>2. CASE Members(r) # {r.leaf}
  <2>1. LeafDomain(r).kind = "pair" /\ LeafDomain(r).members = Members(r)
    BY <1>2 DEF LeafDomain, Domain
  <2>2. Members(q) # {q.leaf}
    BY <2>1 DEF LeafDomain, Name, Domain
  <2>3. LeafDomain(q).members = Members(q)
    BY <2>2 DEF LeafDomain, Domain
  <2> QED
    BY <2>1, <2>3
<1> QED
  BY <1>1, <1>2

LEMMA SameDomainSameRoom ==
  ASSUME NEW config, Accepted(config), NEW r \in config.topology, NEW q \in config.topology,
         LeafDomain(r) = LeafDomain(q)
  PROVE  r.room = q.room
<1>1. q.leaf \in Members(r)
  BY LeafDomainIsItsMembers DEF Members
<1>2. PICK p \in config.topology : p.leaf = q.leaf /\ p.room = r.room
  BY <1>1 DEF Accepted, LeafDomainsAgree
<1>3. p = q
  BY <1>2 DEF Accepted, RowsAgree
<1> QED
  BY <1>2, <1>3

LEMMA AgreeingUplinks ==
  ASSUME NEW config, NEW r, NEW q, UplinksAgree(config, r, q)
  PROVE  /\ SpineDomain(r) = SpineDomain(q) /\ BorderDomain(config, r) = BorderDomain(config, q)
         /\ UplinkDomain(config, r) = UplinkDomain(config, q)
<1>1. CASE Mode(config.topology) = "layered"
  BY <1>1 DEF UplinksAgree, UplinkDomain
<1>2. CASE Mode(config.topology) # "layered"
  <2>1. UplinkDomain(config, r) = UplinkDomain(config, q)
    BY <1>2 DEF UplinksAgree
  <2> DEFINE Kinds(x) == {<<"spine", SpineDomain(x)>>, <<"border", BorderDomain(config, x)>>}
  <2>2. Kinds(r) = Kinds(q)
    BY <1>2, <2>1 DEF UplinkDomain, Domain
  <2>3. <<"spine", SpineDomain(r)>> \in Kinds(q) /\ <<"border", BorderDomain(config, r)>> \in Kinds(q)
    BY <2>2
  <2> QED
    BY <2>1, <2>3
<1> QED
  BY <1>1, <1>2

LEMMA SharedIsResolvedAlike ==
  ASSUME NEW config, Accepted(config), NEW r \in config.topology, NEW q \in config.topology,
         SharePlacement(config, r, q)
  PROVE  Resolved(config, r) = Resolved(config, q)
<1>1. LeafDomain(r) = LeafDomain(q)
  BY DEF SharePlacement
<1>2. r.room = q.room
  BY <1>1, SameDomainSameRoom
<1>3. UplinksAgree(config, r, q)
  BY DEF SharePlacement, UplinksAgree
<1> QED
  BY <1>1, <1>2, <1>3, AgreeingUplinks DEF Resolved

\* A part of one or two things is one thing or two, unless it is none.
LEMMA PartOfFew ==
  ASSUME NEW S, IsFiniteSet(S), Cardinality(S) \in {1, 2}, NEW T \in SUBSET S, T # {}
  PROVE  Cardinality(T) \in {1, 2}
<1>1. IsFiniteSet(T) /\ Cardinality(T) <= Cardinality(S)
  BY FS_Subset
<1>2. Cardinality(T) \in Nat /\ Cardinality(T) # 0
  BY <1>1, FS_CardinalityType, FS_EmptySet
<1> QED
  BY <1>1, <1>2

\* The place of a Node does not depend on which of its Leaves were recorded.
THEOREM PlacedAlikeByAnyPart ==
  ASSUME NEW config, Accepted(config), IsFiniteSet(config.topology)
  PROVE  PartialObservationKeepsPlacement(config)
<1> DEFINE rows == config.topology
           Fit(leaves) ==
             /\ Cardinality(leaves) \in {1, 2} /\ leaves \subseteq Leaves(rows)
             /\ \A l, k \in leaves : SharePlacement(config, Row(rows, l), Row(rows, k))
<1> SUFFICES ASSUME NEW leaves \in SUBSET Leaves(rows), Placement(config, leaves) # Unplaced,
                    NEW some \in (SUBSET leaves) \ {{}}
             PROVE  Placement(config, some) = Placement(config, leaves)
  BY DEF PartialObservationKeepsPlacement
<1>0. some \in SUBSET leaves /\ some # {} /\ leaves # {}
  OBVIOUS
<1>1. Fit(leaves)
  BY DEF Placement
<1>2. IsFiniteSet(leaves)
  <2>1. IsFiniteSet(Leaves(rows))
    <3> DEFINE f == [r \in rows |-> r.leaf]
    <3>1. f \in Surjection(rows, Leaves(rows))
      BY DEF Surjection, Leaves
    <3> QED
      BY <3>1, FS_Surjection
  <2> QED
    BY <2>1, FS_Subset
<1>3. Fit(some)
  <2>1. Cardinality(some) \in {1, 2}
    BY <1>0, <1>1, <1>2, PartOfFew
  <2> QED
    BY <1>1, <2>1
<1> DEFINE first == CHOOSE l \in leaves : TRUE
           other == CHOOSE l \in some : TRUE
<1>4. first \in leaves /\ other \in leaves
  <2>1. first \in leaves /\ other \in some
    BY <1>0
  <2> QED
    BY <1>0, <2>1
<1>5. /\ Placement(config, leaves) = Resolved(config, Row(rows, first))
      /\ Placement(config, some) = Resolved(config, Row(rows, other))
  BY <1>1, <1>3 DEF Placement
<1>6. Row(rows, first) \in rows /\ Row(rows, other) \in rows
  BY <1>4, LeafHasRow
<1>7. SharePlacement(config, Row(rows, other), Row(rows, first))
  BY <1>1, <1>4
<1> QED
  BY <1>5, <1>6, <1>7, SharedIsResolvedAlike

-----------------------------------------------------------------------------
(* The constraint made of a demand for one switch.                         *)

\* What a Leaf's place says of the level of a switch, and the switches there.
Uplinked == {"leafDomain", "spineDomain", "borderDomain"}

LEMMA PlaceAt ==
  ASSUME NEW config, NEW r
  PROVE  /\ Resolved(config, r)["leafDomain"] = LeafDomain(r)
         /\ Resolved(config, r)["spineDomain"] = SpineDomain(r)
         /\ Resolved(config, r)["borderDomain"] = BorderDomain(config, r)
         /\ Resolved(config, r)["uplinkDomain"] = UplinkDomain(config, r)
BY DEF Resolved

LEMMA OnLevel ==
  ASSUME NEW r
  PROVE  /\ On(r, "leafDomain") = Members(r)
         /\ On(r, "spineDomain") = r.spines
         /\ On(r, "borderDomain") = r.borders
BY Zenon DEF On

LEMMA KnownAt ==
  ASSUME NEW config
  PROVE  /\ Known(config, "leafDomain") = LeafAliases(config)
         /\ Known(config, "spineDomain") = SpineAliases(config)
         /\ Known(config, "borderDomain") = BorderAliases(config)
BY Zenon DEF Known

LEMMA BorderDomainOfSet ==
  ASSUME NEW config, config.borderDomains = {}, NEW r, r.borders # {}
  PROVE  BorderDomain(config, r) = Domain("border-domain", r.borders)
<1>1. Configured(config, r) = {}
  BY DEF Configured
<1>2. Cardinality(Configured(config, r)) = 0
  BY <1>1, FS_EmptySet
<1> QED
  BY <1>2 DEF BorderDomain

\* Leaves on the same switch are those of the same domain.
LEMMA SameDomainSameSwitches ==
  ASSUME NEW config, Accepted(config), config.borderDomains = {},
         NEW level \in Uplinked, NEW r \in config.topology, NEW q \in config.topology,
         On(r, level) # {}
  PROVE  Resolved(config, q)[level] = Resolved(config, r)[level]
           <=> On(q, level) \cap On(r, level) # {}
<1>1. CASE level = "leafDomain"
  BY <1>1, PlaceAt, OnLevel, OneDomain, LeafDomainIsItsMembers
<1>2. CASE level = "spineDomain"
  BY <1>2, PlaceAt, OnLevel, OneDomain, SpineDomainIsItsSpines
<1>3. CASE level = "borderDomain"
  <2>1. ASSUME BorderDomain(config, q) = BorderDomain(config, r) PROVE q.borders = r.borders
    <3>1. BorderDomain(config, r).members = r.borders /\ BorderDomain(config, r).kind = "border-domain"
      BY <1>3, OnLevel, BorderDomainOfSet DEF Domain
    <3>2. q.borders # {}
      BY <2>1, <3>1 DEF BorderDomain, NoDomain, Domain
    <3>3. BorderDomain(config, q).members = q.borders
      BY <3>2, BorderDomainOfSet DEF Domain
    <3> QED
      BY <2>1, <3>1, <3>3
  <2> QED
    BY <1>3, <2>1, PlaceAt, OnLevel, OneDomain
<1> QED
  BY <1>1, <1>2, <1>3 DEF Uplinked

\* The domain of a switch is a domain, and not the wish for any.
LEMMA DomainOfSwitch ==
  ASSUME NEW config, config.borderDomains = {}, NEW level \in Uplinked,
         NEW r \in config.topology, On(r, level) # {}
  PROVE  Resolved(config, r)[level] # RequiredSame /\ Resolved(config, r)[level] # NoDomain
<1>0. RequiredSame.kind = "requiredSame" /\ NoDomain.kind = "none"
  BY DEF RequiredSame, NoDomain, Domain
<1>1. CASE level = "leafDomain"
  <2>1. LeafDomain(r).kind \in {"name", "pair"}
    BY DEF LeafDomain, Name, Domain
  <2> QED
    BY <1>0, <1>1, <2>1, PlaceAt
<1>2. CASE level = "spineDomain"
  <2>1. SpineDomain(r).kind = "spine-domain"
    BY <1>2, OnLevel DEF SpineDomain, Domain
  <2> QED
    BY <1>0, <1>2, <2>1, PlaceAt
<1>3. CASE level = "borderDomain"
  BY <1>3, PlaceAt, OnLevel, BorderDomainOfSet DEF Domain, RequiredSame, NoDomain
<1> QED
  BY <1>1, <1>2, <1>3 DEF Uplinked

\* A switch is an alias of the domain it is in, and translated into it.
LEMMA SwitchIsKnown ==
  ASSUME NEW config, Accepted(config), NEW level \in Uplinked,
         NEW r \in config.topology, NEW switch \in On(r, level)
  PROVE  /\ <<Name(switch), Resolved(config, r)[level]>> \in Known(config, level)
         /\ Translate(config, level, Name(switch)) = Resolved(config, r)[level]
<1>1. <<Name(switch), Resolved(config, r)[level]>> \in Known(config, level)
  <2>1. CASE level = "leafDomain"
    BY <2>1, PlaceAt, OnLevel, KnownAt, LeafAlias
  <2>2. CASE level = "spineDomain"
    BY <2>2, PlaceAt, OnLevel, KnownAt, SpineAlias
  <2>3. CASE level = "borderDomain"
    BY <2>3, PlaceAt, OnLevel, KnownAt, BorderAlias
  <2> QED
    BY <2>1, <2>2, <2>3 DEF Uplinked
<1>2. AliasesAgree(Known(config, level))
  BY KnownAt DEF Accepted, Uplinked
<1>3. Name(switch) # RequiredSame
  BY DEF Name, RequiredSame, Domain
<1> DEFINE alias == CHOOSE a \in Known(config, level) : a[1] = Name(switch)
<1>4. alias \in Known(config, level) /\ alias[1] = Name(switch)
  <2>1. \E a \in Known(config, level) : a[1] = Name(switch)
    BY <1>1
  <2> QED
    BY <2>1
<1>5. alias[2] = Resolved(config, r)[level]
  BY <1>1, <1>2, <1>4 DEF AliasesAgree
<1> QED
  BY <1>1, <1>3, <1>5 DEF Translate

LEMMA PlaceOfSingle ==
  ASSUME NEW config, Accepted(config), NEW q \in config.topology
  PROVE  Placement(config, {q.leaf}) = Resolved(config, q)
<1>1. Cardinality({q.leaf}) = 1
  BY FS_Singleton
<1>2. {q.leaf} \subseteq Leaves(config.topology)
  BY DEF Leaves
<1>3. Row(config.topology, q.leaf) = q
  BY RowOfLeaf
<1>4. SharePlacement(config, q, q)
  BY DEF SharePlacement, UplinksAgree
<1> QED
  BY <1>1, <1>2, <1>3, <1>4 DEF Placement

\* A demand for a switch selects the Nodes on it and no other, in either mode.
THEOREM SwitchSelectsItsNodes ==
  ASSUME NEW config, Accepted(config), config.borderDomains = {}
  PROVE  NamedSwitchSelectsItsNodes(config)
<1> SUFFICES ASSUME NEW level \in Uplinked, NEW r \in config.topology, NEW switch \in On(r, level)
             PROVE  LET demand == ResolveDemand(config, [l \in {level} |-> Name(switch)])
                    IN /\ demand.ok
                       /\ \A q \in config.topology :
                            Matches(Placement(config, {q.leaf}), demand.at)
                              <=> On(q, level) \cap On(r, level) # {}
  BY DEF NamedSwitchSelectsItsNodes, Uplinks, Uplinked
<1> DEFINE labels == [l \in {level} |-> Name(switch)]
           at == [l \in Levels(config, labels) |->
                    IF l = "uplinkDomain" THEN RequiredSame ELSE Translate(config, l, labels[l])]
           domain == Resolved(config, r)[level]
<1>1. DOMAIN labels = {level} /\ labels[level] = Name(switch) /\ level # "uplinkDomain"
  BY DEF Uplinked
<1>2. labels[level] # RequiredSame
  BY <1>1 DEF Name, RequiredSame, Domain
<1>3. /\ level \in Levels(config, labels)
      /\ Levels(config, labels) \subseteq {level, "uplinkDomain"}
      /\ "uplinkDomain" \in Levels(config, labels) => Mode(config.topology) # "layered"
  <2> HIDE DEF labels
  <2>1. CASE Mode(config.topology) = "layered"
    BY <1>1, <2>1 DEF Levels
  <2>2. CASE Mode(config.topology) # "layered"
    <3>1. Levels(config, labels) = CompatibleLevels(labels)
      BY <2>2 DEF Levels
    <3>2. level \in CompatibleLevels(labels)
      BY <1>1, <1>2 DEF CompatibleLevels
    <3>3. CompatibleLevels(labels) \subseteq {level, "uplinkDomain"}
      BY <1>1 DEF CompatibleLevels
    <3> QED
      BY <2>2, <3>1, <3>2, <3>3
  <2> QED
    BY <2>1, <2>2
<1>4. /\ DOMAIN at = Levels(config, labels) /\ at[level] = domain
      /\ "uplinkDomain" \in DOMAIN at => at["uplinkDomain"] = RequiredSame
  <2>1. Translate(config, level, labels[level]) = domain
    BY <1>1, SwitchIsKnown
  <2> HIDE DEF labels, domain
  <2> QED
    BY <1>1, <1>3, <2>1
<1>5. domain # RequiredSame
  BY DomainOfSwitch
<1>6. ASSUME NEW q \in config.topology
      PROVE  Matches(Resolved(config, q), at) <=> Resolved(config, q)[level] = domain
  <2>1. Mode(config.topology) # "layered" => Resolved(config, q)["uplinkDomain"] # NoDomain
    <3>1. Domain("uplink", {<<"spine", SpineDomain(q)>>, <<"border", BorderDomain(config, q)>>}) # NoDomain
      BY DEF Domain, NoDomain
    <3> QED
      BY <3>1, PlaceAt DEF UplinkDomain
  <2> HIDE DEF at, domain, labels
  <2> QED
    BY <1>3, <1>4, <1>5, <2>1 DEF Matches
<1>7. ASSUME NEW q \in config.topology
      PROVE  Matches(Placement(config, {q.leaf}), at) <=> On(q, level) \cap On(r, level) # {}
  BY <1>6, PlaceOfSingle, SameDomainSameSwitches
<1>8. ResolveDemand(config, labels) = Constrain(at)
  <2>1. \E a \in Known(config, level) : a[1] = Name(switch)
    <3>1. <<Name(switch), domain>> \in Known(config, level)
      BY SwitchIsKnown
    <3> HIDE DEF domain
    <3> QED
      BY <3>1
  <2>2. \A l \in DOMAIN labels : labels[l] = RequiredSame \/ \E a \in Known(config, l) : a[1] = labels[l]
    BY <1>1, <2>1
  <2>3. Matches(Resolved(config, r), at)
    BY <1>6
  <2> HIDE DEF labels
  <2> QED
    BY <2>2, <2>3 DEF ResolveDemand
<1> HIDE DEF at, labels
<1>9. ResolveDemand(config, labels).ok /\ ResolveDemand(config, labels).at = at
  BY <1>8 DEF Constrain
<1> USE DEF labels
<1> QED
  BY <1>7, <1>9

\* Every server that starts places a Node alike by any part of its Leaves.
THEOREM PartsKeepPlace == AgentSpec => []PartialObservationKeepsPlace
<1>1. ASSUME NEW f \in Files, LoadSource(f)
      PROVE  PartialObservationKeepsPlacement(RawToNormalized(f))
  <2>1. IsFiniteSet(RawToNormalized(f).topology)
    BY AgentConstants DEF RawToNormalized
  <2> QED
    BY <1>1, <2>1, PlacedAlikeByAnyPart DEF LoadSource
<1>2. AgentInv => PartialObservationKeepsPlace
  BY <1>1 DEF AgentInv, AgentTypeOK, PartialObservationKeepsPlace, FilesKeepingPlace
<1> QED
  BY <1>2, AgentInvariant, PTL

\* Every server that starts meets a demand for a switch with the Nodes on it.
THEOREM SwitchesSelectNodes == AgentSpec => []NamedSwitchSelectsNodes
<1>1. ASSUME NEW f \in Files, LoadSource(f)
      PROVE  NamedSwitchSelectsItsNodes(RawToNormalized(f))
  <2>1. RawToNormalized(f).borderDomains = {}
    BY DEF RawToNormalized
  <2> QED
    BY <1>1, <2>1, SwitchSelectsItsNodes DEF LoadSource
<1>2. AgentInv => NamedSwitchSelectsNodes
  BY <1>1 DEF AgentInv, AgentTypeOK, NamedSwitchSelectsNodes, FilesNamingSwitches
<1> QED
  BY <1>2, AgentInvariant, PTL
=============================================================================
