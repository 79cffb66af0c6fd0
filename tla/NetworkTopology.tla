--------------------------- MODULE NetworkTopology ---------------------------
(***************************************************************************)
(* The Algorithm Server's network topology (algorithm_server/go/topology): *)
(* which source files it accepts, the logical domains it derives from one, *)
(* the placement it gives a Node from the Leaves recorded for it, and the  *)
(* constraint it makes of a demand's topology labels.  All of it is        *)
(* functions of the file, which is read once, when the process starts.     *)
(*                                                                         *)
(* A source is a set of rows, one per Leaf: its room, itself, its spine    *)
(* and border switches and its peer Leaves.  A room's name is the sequence *)
(* of its parts ("cn-bj-1-2" is <<"cn", "bj", "1", "2">>).  A domain that  *)
(* the code names by a hash is that kind with the hashed set.              *)
(***************************************************************************)
EXTENDS FiniteSets, Sequences, Naturals

Domain(kind, members) == [kind |-> kind, members |-> members]
Name(switch)  == Domain("name", {switch})
Scope(parts)  == Domain("scope", {parts})
NoDomain      == Domain("none", {})
RequiredSame  == Domain("requiredSame", {})

-----------------------------------------------------------------------------
(* The scopes of a file and what buildCache asks of them.                  *)

RoomsDerive(rows) == \A r \in rows : Len(r.room) >= 3

RawToNormalized(rows) ==
  LET Level(n) == {[id |-> SubSeq(r.room, 1, n), parent |-> SubSeq(r.room, 1, n - 1)] : r \in rows}
  IN [regions |-> Level(1), locations |-> Level(2), dataCenters |-> Level(3),
      rooms |-> {[id |-> r.room, parent |-> SubSeq(r.room, 1, 3)] : r \in rows},
      borderDomains |-> {}, topology |-> rows]

Ids(scopes) == {s.id : s \in scopes}
\* There is one, none has the empty name, no two have the same.
IndexScopes(scopes) ==
  scopes # {} /\ \A s, t \in scopes : s.id # <<"">> /\ (s.id = t.id => s = t)
ParentsKnown(scopes, parents) == {s.parent : s \in scopes} \subseteq Ids(parents)
ParentIn(scopes, id) == (CHOOSE s \in scopes : s.id = id).parent

ScopesAgree(config) ==
  /\ IndexScopes(config.regions) /\ IndexScopes(config.locations)
  /\ IndexScopes(config.dataCenters) /\ IndexScopes(config.rooms)
  /\ ParentsKnown(config.locations, config.regions)
  /\ ParentsKnown(config.dataCenters, config.locations)
  /\ ParentsKnown(config.rooms, config.dataCenters)

-----------------------------------------------------------------------------
(* The Leaves and their domains.                                           *)

Leaves(rows) == {r.leaf : r \in rows}
Row(rows, leaf) == CHOOSE r \in rows : r.leaf = leaf

RowsAgree(config) ==
  /\ config.topology # {}
  /\ \A r \in config.topology :
       /\ r.room \in Ids(config.rooms)
       /\ \A q \in config.topology : q.leaf = r.leaf => q = r
       /\ r.spines # {} \/ r.borders # {}

\* Every Leaf has both kinds of uplink, or the domains go by the uplink each has.
Mode(rows) ==
  IF \A r \in rows : r.spines # {} /\ r.borders # {} THEN "layered" ELSE "uplink-compatible"

SpineDomain(r) == IF r.spines = {} THEN NoDomain ELSE Domain("spine-domain", r.spines)

Configured(config, r) ==
  {d \in config.borderDomains : d.room = r.room /\ d.members = r.borders}

BorderDomain(config, r) ==
  IF r.borders = {} THEN NoDomain
  ELSE IF Cardinality(Configured(config, r)) = 1
       THEN Name((CHOOSE d \in Configured(config, r) : TRUE).id)
       ELSE Domain("border-domain", r.borders)

\* The kind of uplink and the two domains it joins; none in a layered topology.
UplinkDomain(config, r) ==
  IF Mode(config.topology) = "layered" THEN NoDomain
  ELSE Domain("uplink", {<<"spine", SpineDomain(r)>>, <<"border", BorderDomain(config, r)>>})

Members(r) == {r.leaf} \cup r.peers
LeafDomain(r) == IF Members(r) = {r.leaf} THEN Name(r.leaf) ELSE Domain("pair", Members(r))

\* Mutant of UplinksAgree: peers may hang off different switches of the same kind.
UplinksAgree_KindOnly(config, r, q) ==
  (SpineDomain(r) = NoDomain) <=> (SpineDomain(q) = NoDomain)

UplinksAgree(config, r, q) ==
  IF Mode(config.topology) = "layered"
  THEN SpineDomain(q) = SpineDomain(r) /\ BorderDomain(config, q) = BorderDomain(config, r)
  ELSE UplinkDomain(config, q) = UplinkDomain(config, r)

\* assignLeafDomains: a Leaf and its peer name one another and share their place.
LeafDomainsAgree(config) ==
  \A r \in config.topology :
    /\ Cardinality(Members(r)) <= 2
    /\ \A member \in Members(r) : \E q \in config.topology :
         /\ q.leaf = member
         /\ q.peers = Members(r) \ {member}
         /\ q.room = r.room
         /\ UplinksAgree(config, r, q)

\* The names under which a demand may ask for the domain of a row.
Aliases(domain, switches) == {<<domain, domain>>} \cup {<<Name(s), domain>> : s \in switches}
LeafAliases(config)   == UNION {Aliases(LeafDomain(r), Members(r)) : r \in config.topology}
SpineAliases(config)  ==
  UNION {Aliases(SpineDomain(r), r.spines) : r \in {q \in config.topology : q.spines # {}}}
BorderAliases(config) ==
  UNION {Aliases(BorderDomain(config, r), r.borders) : r \in {q \in config.topology : q.borders # {}}}

AliasesAgree(aliases) == \A a, b \in aliases : a[1] = b[1] => a[2] = b[2]

Accepted(config) ==
  /\ ScopesAgree(config) /\ RowsAgree(config) /\ LeafDomainsAgree(config)
  /\ AliasesAgree(LeafAliases(config))
  /\ AliasesAgree(SpineAliases(config))
  /\ AliasesAgree(BorderAliases(config))

\* What is kept of a Leaf.
Resolved(config, r) ==
  LET dc == ParentIn(config.rooms, r.room)
      location == ParentIn(config.dataCenters, dc)
  IN [region |-> Scope(ParentIn(config.locations, location)), location |-> Scope(location),
      dataCenter |-> Scope(dc), room |-> Scope(r.room), leafDomain |-> LeafDomain(r),
      spineDomain |-> SpineDomain(r), borderDomain |-> BorderDomain(config, r),
      uplinkDomain |-> UplinkDomain(config, r)]

\* LoadSource: with a file that is not accepted the process does not start.
LoadSource(rows) == RoomsDerive(rows) /\ Accepted(RawToNormalized(rows))

-----------------------------------------------------------------------------
(* ResolveNodes.                                                           *)

\* The Node is left out of the calculation, with a warning.
Unplaced == [leafDomain |-> NoDomain]

SharePlacement(config, r, q) ==
  /\ LeafDomain(q) = LeafDomain(r)
  /\ UplinksAgree(config, r, q)

\* nodeLeafIDs gives one Leaf or two; all are known and of one scheduling domain.
\* The first, in the order of the names, then stands for the Node.
Placement(config, leaves) ==
  IF /\ Cardinality(leaves) \in {1, 2} /\ leaves \subseteq Leaves(config.topology)
     /\ \A l, k \in leaves : SharePlacement(config, Row(config.topology, l), Row(config.topology, k))
  THEN Resolved(config, Row(config.topology, CHOOSE l \in leaves : TRUE))
  ELSE Unplaced

-----------------------------------------------------------------------------
(* ResolveDemandTopologyLabels: labels map some of the five levels to what *)
(* the demand asks for.                                                    *)

Refused == [ok |-> FALSE, at |-> <<>>]
Constrain(at) == [ok |-> TRUE, at |-> at]

\* One level at a time: the values known there, and what each stands for.
Known(config, level) ==
  CASE level = "dataCenter"   -> {<<Scope(s.id), Scope(s.id)>> : s \in config.dataCenters}
    [] level = "room"         -> {<<Scope(s.id), Scope(s.id)>> : s \in config.rooms}
    [] level = "leafDomain"   -> LeafAliases(config)
    [] level = "spineDomain"  -> SpineAliases(config)
    [] level = "borderDomain" -> BorderAliases(config)

Translate(config, level, value) ==
  IF value = RequiredSame THEN value
  ELSE (CHOOSE a \in Known(config, level) : a[1] = value)[2]

Uplinks == {"spineDomain", "borderDomain"}

\* Mutant of CompatibleLevels: the named switch is forgotten, as if any would do.
CompatibleLevels_Forget(labels) ==
  (DOMAIN labels \ Uplinks) \cup IF DOMAIN labels \cap Uplinks # {} THEN {"uplinkDomain"} ELSE {}

\* resolveCompatibleUplink: whichever uplink is asked for, all Nodes of a pool have
\* one uplink domain; a named switch is required besides.
CompatibleLevels(labels) ==
  (DOMAIN labels \ {l \in Uplinks \cap DOMAIN labels : labels[l] = RequiredSame})
    \cup IF DOMAIN labels \cap Uplinks # {} THEN {"uplinkDomain"} ELSE {}

Levels(config, labels) ==
  IF Mode(config.topology) = "layered" THEN DOMAIN labels ELSE CompatibleLevels(labels)

\* leafMatches, and the same test on a Node's placement in the Python worker.
Matches(placement, at) ==
  \A level \in DOMAIN at :
    IF at[level] = RequiredSame THEN placement[level] # NoDomain ELSE placement[level] = at[level]

ResolveDemand(config, labels) ==
  LET at == [l \in Levels(config, labels) |->
               IF l = "uplinkDomain" THEN RequiredSame ELSE Translate(config, l, labels[l])]
  IN IF /\ \A l \in DOMAIN labels :
             labels[l] = RequiredSame \/ \E a \in Known(config, l) : a[1] = labels[l]
        /\ \E r \in config.topology : Matches(Resolved(config, r), at)
     THEN Constrain(at) ELSE Refused

-----------------------------------------------------------------------------
(* Properties of an accepted file.                                         *)

\* A Node that is placed is placed alike by any part of its Leaves: a Node whose
\* agent heard one switch of a pair is not moved when it hears the other.
PartialObservationKeepsPlacement(config) ==
  \A leaves \in SUBSET Leaves(config.topology) :
    Placement(config, leaves) # Unplaced =>
      \A some \in (SUBSET leaves) \ {{}} : Placement(config, some) = Placement(config, leaves)

On(r, level) ==
  CASE level = "leafDomain" -> Members(r) [] level = "spineDomain" -> r.spines
    [] level = "borderDomain" -> r.borders

\* The constraint made of a demand that names one switch selects the Nodes on that
\* switch, in either mode, and no Node off it.
NamedSwitchSelectsItsNodes(config) ==
  \A level \in Uplinks \cup {"leafDomain"}, r \in config.topology :
    \A switch \in On(r, level) :
      LET demand == ResolveDemand(config, [l \in {level} |-> Name(switch)]) IN
        /\ demand.ok
        /\ \A q \in config.topology :
             Matches(Placement(config, {q.leaf}), demand.at)
               <=> On(q, level) \cap On(r, level) # {}
=============================================================================
