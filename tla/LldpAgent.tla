------------------------------ MODULE LldpAgent ------------------------------
(***************************************************************************)
(* The topology agent of one Node (topology_agent): in each cycle it picks *)
(* interfaces, listens for LLDP frames during a window, builds the direct  *)
(* Leaf facts, writes them into the Node's labels and annotations and      *)
(* reads them back.  Then how the PRC reads the facts                      *)
(* (prc/pkg/controller/snapshot.go), and NetworkTopology for the place the *)
(* Algorithm Server derives from them.                                     *)
(*                                                                         *)
(* Meanwhile the Node is recabled, links flap, switches are renamed, the   *)
(* API server fails, the Node object is recreated, somebody edits the      *)
(* label, the agent restarts.  A frame tells the chassis that sent it, its *)
(* port (called by the Node's port it is wired to) and its name, if any;   *)
(* a frame of the host's own is known by the host's name alone.            *)
(***************************************************************************)
EXTENDS NetworkTopology

CONSTANTS
  Files,       \* topology sources, as sets of rows
  Ports,       \* physical wired interfaces
  Slaves,      \* those that are slaves of the bond
  Bond,        \* the bond master
  Switches,    \* chassis identities
  Self,        \* the chassis identity of the host, whose frames may be reflected
  HostName,    \* the host's name
  None,        \* nothing plugged in; no name; no label
  Namings,     \* what names they may advertise at first
  Cablings,    \* where the ports may be plugged at first
  Options,     \* [explicit, count, periodic]: --interfaces, --count, --interval > 0
  MaxChanges,  \* bound: recablings, link changes and renamings
  MaxFaults    \* bound: failing requests, recreations, edits and restarts

Chassis == Switches \cup {Self}
SystemNames == (UNION {{n[c] : c \in Chassis} : n \in Namings}) \cup {None}

ASSUME AgentAssumption ==
  /\ \A f \in Files : IsFiniteSet(f)
  /\ Namings \subseteq [Chassis -> SystemNames]
  /\ Cablings \subseteq [Ports -> Chassis \cup {None}]
  /\ Slaves \subseteq Ports /\ Bond \notin Ports
  /\ Self \notin Switches /\ None \notin Chassis /\ HostName # None
  /\ \A o \in Options : /\ o.explicit \subseteq Ports \cup {Bond}
                        /\ o.count \in Nat /\ o.periodic \in BOOLEAN
  /\ MaxChanges \in Nat /\ MaxFaults \in Nat

VARIABLES
  file,       \* the Algorithm Server's topology source
  cable,      \* the chassis at the other end of each port
  link,       \* "up", "noCarrier" or "adminDown"
  name,       \* the system name each chassis advertises
  option,     \* the agent's flags
  pc,         \* the agent's next step
  selected,   \* interfaces of this cycle
  heard,      \* neighbours of this window
  want,       \* the metadata of this cycle
  node,       \* the Node's metadata
  live,       \* history: what could be heard since the window opened
  edited,     \* history: the label was edited since the agent wrote it
  changes, faults

wiring == <<cable, link, name>>
agent  == <<pc, selected, heard, want>>
bound  == <<changes, faults>>
avars  == <<file, wiring, option, agent, node, live, edited, bound>>

NoFacts == [leaves |-> {}, links |-> {}, label |-> None]

LeafNames == SystemNames \cup Chassis
Links     == [interface : Ports \cup {Bond}, port : Ports, leaf : LeafNames]
Facts     == [leaves : SUBSET LeafNames, links : SUBSET Links, label : LeafNames]
Steps     == {"select", "listen", "build", "get", "patch", "verify", "wait", "done"}

AgentTypeOK ==
  /\ file \in Files
  /\ cable \in [Ports -> Chassis \cup {None}]
  /\ link \in [Ports -> {"up", "noCarrier", "adminDown"}]
  /\ name \in [Chassis -> SystemNames]
  /\ option \in Options
  /\ pc \in Steps
  /\ selected \subseteq Ports \cup {Bond}
  /\ heard \subseteq [interface : selected, port : Ports, chassis : Chassis, name : SystemNames]
  /\ want \in Facts /\ node \in Facts
  /\ edited \in BOOLEAN
  /\ changes \in 0..MaxChanges /\ faults \in 0..MaxFaults

-----------------------------------------------------------------------------
(* Interfaces (pkg/bond/discovery.go).                                     *)

\* The bond has carrier when one of its slaves has.
LinkValid(i) == IF i = Bond THEN \E p \in Slaves : link[p] = "up" ELSE link[i] = "up"
AdministrativeUp(i) == i = Bond \/ link[i] # "adminDown"

\* A bond is captured at its master.  A named interface needs no carrier.
SelectInterfaces ==
  IF option.explicit # {}
  THEN {i \in option.explicit : IF i = Bond THEN LinkValid(i) ELSE AdministrativeUp(i)}
  ELSE {i \in (Ports \ Slaves) \cup {Bond} : LinkValid(i)}

\* The ports whose frames an interface delivers, and what they deliver now.
PortsOf(i) == IF i = Bond THEN Slaves ELSE {i}
Audible(i) == {p \in PortsOf(i) : link[p] = "up" /\ cable[p] # None}
Frames(interfaces) ==
  UNION {{[interface |-> i, port |-> p, chassis |-> cable[p], name |-> name[cable[p]]] :
            p \in Audible(i)} : i \in interfaces}

-----------------------------------------------------------------------------
(* Facts (agent.go buildLeafLinks, pkg/topologyfacts).                     *)

\* Mutant of External: what bears the host's name counts as a Leaf.
External_All(neighbours) == neighbours

\* LooksLikeLocalHost goes by the name: a switch that bears the host's is dropped, a
\* reflected frame without a name is a Leaf's.
External(neighbours) == {n \in neighbours : n.name # HostName}

\* A chassis is called by the name any of its frames carried, or by its identity.
Named(neighbours, c) == {n.name : n \in {m \in neighbours : m.chassis = c}} \ {None}
LeafId(neighbours, c) ==
  IF Named(neighbours, c) = {} THEN c ELSE CHOOSE x \in Named(neighbours, c) : TRUE

Ambiguous(neighbours) ==
  \/ \E n, m \in neighbours :
       /\ n.chassis = m.chassis /\ n.name # m.name /\ None \notin {n.name, m.name}
  \/ \E n, m \in neighbours :
       /\ n.chassis # m.chassis
       /\ LeafId(neighbours, n.chassis) = LeafId(neighbours, m.chassis)

BuildLeafLinks(neighbours) ==
  {[interface |-> n.interface, port |-> n.port, leaf |-> LeafId(neighbours, n.chassis)] :
     n \in neighbours}

\* Mutant of Label: the label of a single Leaf stays when there are two.
Label_Kept(leaves) ==
  IF \E l \in leaves : leaves = {l} THEN CHOOSE l \in leaves : TRUE ELSE node.label

\* The label names a single Leaf; the patch removes it otherwise.  The identity of
\* a chassis, an address with colons, is not a legal value of a label.
Label(leaves) ==
  IF \E l \in leaves \ Chassis : leaves = {l} THEN CHOOSE l \in leaves : TRUE ELSE None

BuildNodeMetadata(links) ==
  LET leaves == {l.leaf : l \in links}
  IN [leaves |-> leaves, links |-> links, label |-> Label(leaves)]

-----------------------------------------------------------------------------
(* The agent's cycle (agent.go run, reconcile, collect; kube.go patchNode).*)

AgentInit ==
  /\ file \in Files /\ cable \in Cablings /\ link = [p \in Ports |-> "up"]
  /\ name \in Namings /\ option \in Options
  /\ pc = "select" /\ selected = {} /\ heard = {} /\ want = NoFacts
  /\ node = NoFacts /\ live = {} /\ edited = FALSE
  /\ changes = 0 /\ faults = 0

\* Mutant of EndCycle: a failed cycle ends the agent.
EndCycle_Stop(ok) ==
  /\ pc' = IF ok /\ option.periodic THEN "wait" ELSE "done"
  /\ selected' = {} /\ heard' = {} /\ want' = NoFacts

\* Mutant of EndCycle: the neighbours heard stay for the next cycle.
EndCycle_KeepHeard(ok) ==
  /\ pc' = IF option.periodic THEN "wait" ELSE "done"
  /\ selected' = {} /\ want' = NoFacts /\ UNCHANGED heard

\* Failed or not: the next cycle comes with the next interval.  One-shot is over.
EndCycle(ok) ==
  /\ pc' = IF option.periodic THEN "wait" ELSE "done"
  /\ selected' = {} /\ heard' = {} /\ want' = NoFacts

Kept == UNCHANGED <<file, wiring, option, node, edited, bound>>

Select ==
  /\ pc = "select" /\ Kept
  /\ \/ /\ SelectInterfaces # {}
        /\ pc' = "listen" /\ selected' = SelectInterfaces
        /\ heard' = {} /\ live' = Frames(selected') /\ UNCHANGED want
     \/ SelectInterfaces = {} /\ EndCycle(FALSE) /\ UNCHANGED live

WindowFull == option.count > 0 /\ Cardinality(heard) >= option.count

\* A later frame of a neighbour replaces the former; the host's own count as well.
Hear(frame) ==
  /\ pc = "listen" /\ ~WindowFull /\ Kept
  /\ frame \in Frames(selected)
  /\ heard' = {n \in heard : \/ n.interface # frame.interface
                             \/ n.chassis # frame.chassis \/ n.port # frame.port} \cup {frame}
  /\ UNCHANGED <<pc, selected, want, live>>

\* The deadline, or the limit.
CloseWindow ==
  /\ pc = "listen" /\ Kept
  /\ \/ heard # {} /\ pc' = "build" /\ UNCHANGED <<selected, heard, want, live>>
     \/ heard = {} /\ EndCycle(FALSE) /\ UNCHANGED live

Build ==
  /\ pc = "build" /\ Kept /\ UNCHANGED live
  /\ LET neighbours == External(heard) IN
       \/ /\ neighbours # {} /\ ~Ambiguous(neighbours)
          /\ want' = BuildNodeMetadata(BuildLeafLinks(neighbours))
          /\ pc' = "get" /\ UNCHANGED <<selected, heard>>
       \/ (neighbours = {} \/ Ambiguous(neighbours)) /\ EndCycle(FALSE)

Fault == faults < MaxFaults /\ faults' = faults + 1 /\ UNCHANGED changes

\* A request to the API server, or the socket.
RequestFails ==
  /\ pc \in {"listen", "get", "patch", "verify"} /\ Fault
  /\ EndCycle(FALSE)
  /\ UNCHANGED <<file, wiring, option, node, live, edited>>

Get ==
  /\ pc = "get" /\ Kept
  /\ pc' = "patch" /\ UNCHANGED <<selected, heard, want, live>>

Write == node' = want /\ edited' = FALSE

Patch ==
  /\ pc = "patch" /\ Write
  /\ pc' = "verify" /\ UNCHANGED <<selected, heard, want, live, file, wiring, option, bound>>

\* The patch is made, its answer lost.
PatchUnanswered ==
  /\ pc = "patch" /\ Write /\ Fault
  /\ EndCycle(FALSE) /\ UNCHANGED <<file, wiring, option, live>>

Verify ==
  /\ pc = "verify" /\ Kept /\ UNCHANGED live
  /\ EndCycle(node = want)

NextCycle ==
  /\ pc = "wait" /\ Kept
  /\ pc' = "select" /\ UNCHANGED <<selected, heard, want, live>>

-----------------------------------------------------------------------------
(* The surroundings.                                                       *)

StillLive == live' = IF pc = "listen" THEN live \cup Frames(selected)' ELSE live

Change ==
  /\ changes < MaxChanges /\ changes' = changes + 1
  /\ UNCHANGED <<file, option, agent, node, edited, faults>>

Recable(p, c) ==
  /\ Change /\ c # cable[p]
  /\ cable' = [cable EXCEPT ![p] = c] /\ UNCHANGED <<link, name>> /\ StillLive

LinkChanges(p, state) ==
  /\ Change /\ state # link[p]
  /\ link' = [link EXCEPT ![p] = state] /\ UNCHANGED <<cable, name>> /\ StillLive

Rename(c, n) ==
  /\ Change /\ n # name[c]
  /\ name' = [name EXCEPT ![c] = n] /\ UNCHANGED <<cable, link>> /\ StillLive

RecreateNode ==
  /\ Fault /\ node # NoFacts
  /\ node' = NoFacts /\ edited' = FALSE
  /\ UNCHANGED <<file, wiring, option, agent, live>>

EditLabel(l) ==
  /\ Fault /\ l # node.label
  /\ node' = [node EXCEPT !.label = l] /\ edited' = TRUE
  /\ UNCHANGED <<file, wiring, option, agent, live>>

\* The Pod is replaced: its memory is lost, the Node's metadata stays.
Restart ==
  /\ Fault /\ pc # "select"
  /\ pc' = "select" /\ selected' = {} /\ heard' = {} /\ want' = NoFacts
  /\ UNCHANGED <<file, wiring, option, node, live, edited>>

AgentStep ==
  \/ Select \/ CloseWindow \/ Build \/ Get \/ Patch \/ Verify \/ NextCycle
HearsSwitch == \E frame \in External(Frames(selected)) : Hear(frame)

AgentNext ==
  \/ Select \/ CloseWindow \/ Build \/ Get \/ Patch \/ Verify \/ NextCycle
  \/ \E frame \in Frames(selected) : Hear(frame)
  \/ RequestFails \/ PatchUnanswered
  \/ \E p \in Ports, c \in Chassis \cup {None} : Recable(p, c)
  \/ \E p \in Ports, state \in {"up", "noCarrier", "adminDown"} : LinkChanges(p, state)
  \/ \E c \in Chassis, n \in SystemNames : Rename(c, n)
  \/ RecreateNode \/ Restart
  \/ \E l \in SystemNames : EditLabel(l)

\* A step of the agent is taken once it can be.  Switches send every 30 s, windows
\* last 65 s: over and over, a switch that can be heard is heard within one.
AgentFairness == WF_avars(AgentStep) /\ SF_avars(HearsSwitch)

AgentSpec == AgentInit /\ [][AgentNext]_avars /\ AgentFairness

-----------------------------------------------------------------------------
(* The PRC reads the facts; the Algorithm Server places the Node.          *)

\* topologyFromNode: both annotations count, the label if they say nothing.  More
\* than two Leaves give this Node no place, and the cluster no snapshot (StaticSync).
TopologyFromNode(facts) ==
  LET annotated == facts.leaves \cup {l.leaf : l \in facts.links}
  IN IF annotated # {} \/ facts.label = None THEN annotated ELSE {facts.label}

NodePlacement == Placement(RawToNormalized(file), TopologyFromNode(node))

-----------------------------------------------------------------------------
(* Properties.                                                             *)

\* Of the files the server may start with, those of which a fact about every file that
\* LoadSource accepts is true.  The file is read once: so is each set computed once.
FilesKeepingPlace ==
  {f \in Files : LoadSource(f) => PartialObservationKeepsPlacement(RawToNormalized(f))}
FilesNamingSwitches ==
  {f \in Files : LoadSource(f) => NamedSwitchSelectsItsNodes(RawToNormalized(f))}

\* With a file that LoadSource accepts a Node's place does not depend on which of its
\* Leaves were recorded (ResolveNodes).
PartialObservationKeepsPlace == file \in FilesKeepingPlace

\* With a file that LoadSource accepts a demand for one switch is met by the Nodes on
\* that switch and no other (ResolveDemandTopologyLabels).
NamedSwitchSelectsNodes == file \in FilesNamingSwitches

\* What a cycle writes could be heard, on an interface it had selected, while its own
\* window was open, from a chassis that did not go by the host's name then, and each
\* Leaf is called by a name that this very chassis advertised in that window, or by
\* its identity: whatever is replugged or renamed meanwhile, no fact survives from an
\* earlier window and no name goes to another switch (receiveLLDPOnHost,
\* buildLeafLinks).
FactsFromThisWindow ==
  \A l \in want.links : \E f \in live :
    /\ f.interface = l.interface /\ f.port = l.port /\ f.name # HostName
    /\ l.leaf \in {f.chassis} \cup ({g.name : g \in {h \in live : h.chassis = f.chassis}} \ {HostName, None})

\* Unless somebody else edited the label, it names a Leaf exactly when one Leaf is
\* recorded and that Leaf has a name: whoever reads the label and who reads the
\* annotations see the same Node (BuildNodeMetadata removes the label of a Node with
\* two Leaves, and of one whose Leaf is called by an identity no label may hold).
LabelAgreesWithLeaves ==
  ~edited => /\ node.label # None => node.leaves = {node.label}
             /\ \A l \in node.leaves \ Chassis : node.leaves = {l} => node.label = l

\* The wiring is placed: what can be heard of it is unambiguous and in one domain.
HeardNow == External(Frames(SelectInterfaces))
WiredPlacement ==
  Placement(RawToNormalized(file), {LeafId(HeardNow, n.chassis) : n \in HeardNow})
WellWired ==
  /\ option.periodic /\ option.count = 0
  /\ HeardNow # {} /\ ~Ambiguous(HeardNow) /\ WiredPlacement # Unplaced

\* A Node whose wiring stays in one scheduling domain is in the end placed there for
\* good, whatever part of its switches each window hears, whatever cycles failed and
\* wherever the Node was wired before (run keeps going after a failed cycle; a
\* success replaces all facts).
EventuallyPlaced ==
  <>[]WellWired => <>[](NodePlacement = WiredPlacement)
=============================================================================
