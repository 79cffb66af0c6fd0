----------------------------- MODULE StaticSync -----------------------------
(***************************************************************************)
(* How the PRC keeps the Algorithm Server's cache of static Node snapshots *)
(* in step with the cluster (prc/pkg/controller/static_snapshot_controller *)
(* .go against algorithm_server/go/algorithm/cache.go), and the tasks that *)
(* use the snapshot meanwhile.                                             *)
(*                                                                         *)
(* The reconciler is one worker on one key.  Its two requests are taken    *)
(* apart into the server's part and the receipt of the answer, because     *)
(* either process may restart in between; a PUT that failed for the PRC    *)
(* may still be performed later.  A snapshot stands for its content hash.  *)
(*                                                                         *)
(* External, modelled by how the code uses them: the Node informer and the *)
(* controller-runtime work queue.                                          *)
(***************************************************************************)
EXTENDS Naturals

CONSTANTS
  Snapshots,   \* contents of the cluster from which a snapshot can be built
  None,        \* no Node, an illegal Node or no Leaf at all; no snapshot
  Tasks,       \* calculations under way at once
  MaxBoots,    \* bound: Algorithm processes
  MaxChanges,  \* bound: changes of the Nodes
  MaxFaults,   \* bound: failing requests and List calls
  MaxRestarts  \* bound: restarts of the PRC

ASSUME SyncAssumption ==
  /\ None \notin Snapshots
  /\ MaxBoots \in Nat \ {0}
  /\ {MaxChanges, MaxFaults, MaxRestarts} \subseteq Nat

VARIABLES
  nodes,      \* what the Node informer holds
  dirty,      \* the singleton key is in the work queue
  delayed,    \* ... or waits for RequeueAfter or a rate-limited retry
  pc, listed, \* the reconcile: its next step, what its last List showed
  reply,      \* the answer on its way to the reconciler
  confirmed,  \* StaticSnapshotState.status: snapshot and Algorithm boot ID
  ready,      \* StaticSnapshotState.ready
  boot,       \* the Algorithm's boot ID
  current, previous,  \* the Algorithm's staticCache
  late,       \* PUTs given up by the PRC that may still be performed
  task,       \* calculations: the snapshot they read from the state
  changes, faults, restarts

prc   == <<dirty, delayed, pc, listed, reply, confirmed, ready>>
alg   == <<boot, current, previous>>
bound == <<changes, faults, restarts>>
vars  == <<nodes, prc, alg, late, task, bound>>

Contents  == Snapshots \cup {None}
Boots     == 0..MaxBoots
Identity  == [id : Contents, boot : Boots]
NoAnswer  == [id |-> None, boot |-> 0]
\* held: the Algorithm's current snapshot was the one the task read when it read
\* it; installs: how often another one became current since.
TaskRec   == [pc : {"idle", "calculate"}, read : Identity, held : BOOLEAN, installs : 0..2]
IdleTask  == [pc |-> "idle", read |-> NoAnswer, held |-> FALSE, installs |-> 0]

SyncTypeOK ==
  /\ nodes \in Contents /\ listed \in Contents
  /\ dirty \in BOOLEAN /\ delayed \in BOOLEAN /\ ready \in BOOLEAN
  /\ pc \in {"idle", "status", "statusReply", "put", "putReply"}
  /\ pc # "idle" => listed # None
  /\ reply \in Identity /\ confirmed \in Identity
  /\ boot \in Boots \ {0} /\ current \in Contents /\ previous \in Contents
  /\ late \in SUBSET Snapshots
  /\ task \in [Tasks -> TaskRec]
  /\ changes \in 0..MaxChanges /\ faults \in 0..MaxFaults /\ restarts \in 0..MaxRestarts

\* A process that starts lists the Nodes: there is a first event if there is one.
FirstEvent(content) == IF content = None THEN BOOLEAN ELSE {TRUE}

Init ==
  /\ nodes \in Contents
  /\ dirty \in FirstEvent(nodes) /\ delayed = FALSE
  /\ pc = "idle" /\ listed = None /\ reply = NoAnswer
  /\ confirmed = NoAnswer /\ ready = FALSE
  /\ boot = 1 /\ current = None /\ previous = None
  /\ late = {}
  /\ task = [t \in Tasks |-> IdleTask]
  /\ changes = 0 /\ faults = 0 /\ restarts = 0

\* staticNodeChangePredicate: every change of the Nodes is an event, except that
\* it does not look at the InternalIP, which the snapshot contains.
NodesChange(content) ==
  /\ changes < MaxChanges /\ changes' = changes + 1
  /\ content # nodes /\ nodes' = content
  /\ \/ dirty' = TRUE
     \/ None \notin {nodes, content} /\ UNCHANGED dirty
  /\ UNCHANGED <<delayed, pc, listed, reply, confirmed, ready, alg, late, task, faults, restarts>>

DelayElapses ==
  /\ delayed
  /\ delayed' = FALSE /\ dirty' = TRUE
  /\ UNCHANGED <<nodes, pc, listed, reply, confirmed, ready, alg, late, task, bound>>

Fault == faults < MaxFaults /\ faults' = faults + 1 /\ UNCHANGED <<changes, restarts>>

-----------------------------------------------------------------------------
(* NodeStaticSnapshotReconciler.Reconcile.                                 *)

\* Mutant of Syncing: tasks go on with the old snapshot during the PUT.
Syncing_StaysReady == pc' = "put" /\ UNCHANGED ready

\* syncing: tasks are shut out until the PUT that follows is acknowledged.
Syncing == pc' = "put" /\ ready' = FALSE

\* Mutant of Resync: a reconcile that ends without an error is not repeated.
Resync_Never == pc' = "idle" /\ UNCHANGED delayed

\* The result asks for RequeueAfter.
Resync == pc' = "idle" /\ delayed' = TRUE

\* The error makes the work queue retry, after its back-off.
Retry == pc' = "idle" /\ delayed' = TRUE

ListFails ==
  /\ pc = "idle" /\ dirty /\ Fault
  /\ dirty' = FALSE
  /\ Retry
  /\ UNCHANGED <<nodes, listed, reply, confirmed, ready, alg, late, task>>

\* Nodes from which no snapshot can be built leave the shared state as it is.
ListUnusable ==
  /\ pc = "idle" /\ dirty /\ nodes = None
  /\ dirty' = FALSE /\ listed' = None
  /\ UNCHANGED <<confirmed, ready>>
  /\ Resync
  /\ UNCHANGED <<nodes, reply, alg, late, task, bound>>

\* Mutant of List: the Nodes are published without having looked at them.
List_Unchecked ==
  /\ pc = "idle" /\ dirty
  /\ dirty' = FALSE /\ listed' = nodes
  /\ IF ready /\ confirmed.id = nodes
     THEN pc' = "status" /\ UNCHANGED ready
     ELSE Syncing
  /\ UNCHANGED <<nodes, delayed, reply, confirmed, alg, late, task, bound>>

\* A snapshot that is confirmed already is looked for, any other published.
List ==
  /\ pc = "idle" /\ dirty /\ nodes # None
  /\ dirty' = FALSE /\ listed' = nodes
  /\ IF ready /\ confirmed.id = nodes
     THEN pc' = "status" /\ UNCHANGED ready
     ELSE Syncing
  /\ UNCHANGED <<nodes, delayed, reply, confirmed, alg, late, task, bound>>

StatusServed ==
  /\ pc = "status"
  /\ reply' = [id |-> current, boot |-> boot]
  /\ pc' = "statusReply"
  /\ UNCHANGED <<nodes, dirty, delayed, listed, confirmed, ready, alg, late, task, bound>>

StatusReceived ==
  /\ pc = "statusReply"
  /\ IF reply = [id |-> listed, boot |-> confirmed.boot]
     THEN UNCHANGED <<confirmed, ready>> /\ Resync
     ELSE Syncing /\ UNCHANGED <<confirmed, delayed>>
  /\ reply' = NoAnswer
  /\ UNCHANGED <<nodes, dirty, listed, alg, late, task, bound>>

StatusFails ==
  /\ pc \in {"status", "statusReply"} /\ Fault
  /\ Syncing /\ reply' = NoAnswer
  /\ UNCHANGED <<nodes, dirty, delayed, listed, confirmed, alg, late, task>>

\* The calculations under way see one more switch.
Switched(t) ==
  IF task[t].pc = "idle" THEN IdleTask
  ELSE [task[t] EXCEPT !.installs = IF task[t].installs < 2 THEN task[t].installs + 1 ELSE 2]

\* Mutant of Install: the cache keeps one version only.
Install_OneVersion(s) ==
  IF current = s THEN UNCHANGED <<current, previous, task>>
  ELSE /\ current' = s /\ UNCHANGED previous
       /\ task' = [t \in Tasks |-> Switched(t)]

\* staticCache.put: the current version and the one before are kept.
Install(s) ==
  IF current = s THEN UNCHANGED <<current, previous, task>>
  ELSE /\ current' = s /\ previous' = current
       /\ task' = [t \in Tasks |-> Switched(t)]

PutServed ==
  /\ pc = "put"
  /\ Install(listed)
  /\ reply' = [id |-> listed, boot |-> boot]
  /\ pc' = "putReply"
  /\ UNCHANGED <<nodes, dirty, delayed, listed, confirmed, ready, boot, late, bound>>

PutReceived ==
  /\ pc = "putReply"
  /\ confirmed' = reply /\ ready' = TRUE
  /\ reply' = NoAnswer
  /\ Resync
  /\ UNCHANGED <<nodes, dirty, listed, alg, late, task, bound>>

\* A PUT the server has not performed yet may survive its sender.
GivenUp == late' = late \/ (pc = "put" /\ late' = late \cup {listed})

PutFails ==
  /\ pc \in {"put", "putReply"} /\ Fault
  /\ GivenUp
  /\ reply' = NoAnswer
  /\ Retry /\ UNCHANGED ready
  /\ UNCHANGED <<nodes, dirty, listed, confirmed, alg, task>>

Reconcile ==
  \/ ListFails \/ ListUnusable \/ List
  \/ StatusServed \/ StatusReceived \/ StatusFails
  \/ PutServed \/ PutReceived \/ PutFails

LatePutLands(s) ==
  /\ s \in late /\ late' = late \ {s}
  /\ Install(s)
  /\ UNCHANGED <<nodes, prc, boot, bound>>

LatePutIsLost(s) ==
  /\ s \in late /\ late' = late \ {s}
  /\ UNCHANGED <<nodes, prc, alg, task, bound>>

-----------------------------------------------------------------------------
(* Calculations: DemandProcessor reads the state once, before the request. *)

TaskReads(t) ==
  /\ task[t].pc = "idle" /\ ready
  /\ task' = [task EXCEPT ![t] =
       [pc |-> "calculate", read |-> confirmed, installs |-> 0,
        held |-> confirmed = [id |-> current, boot |-> boot]]]
  /\ UNCHANGED <<nodes, prc, alg, late, bound>>

\* Answered from the cache, refused with STATIC_SNAPSHOT_NOT_FOUND, or failed.
TaskEnds(t) ==
  /\ task[t].pc = "calculate"
  /\ task' = [task EXCEPT ![t] = IdleTask]
  /\ UNCHANGED <<nodes, prc, alg, late, bound>>

Found(id) == id \in {current, previous}

-----------------------------------------------------------------------------
(* Restarts lose the memory of the process; no other state is kept.        *)

AlgorithmRestarts ==
  /\ boot < MaxBoots /\ boot' = boot + 1
  /\ current' = None /\ previous' = None
  /\ UNCHANGED <<nodes, prc, late, task, bound>>

PrcRestarts ==
  /\ restarts < MaxRestarts /\ restarts' = restarts + 1
  /\ GivenUp
  /\ dirty' \in FirstEvent(nodes) /\ delayed' = FALSE
  /\ pc' = "idle" /\ listed' = None /\ reply' = NoAnswer
  /\ confirmed' = NoAnswer /\ ready' = FALSE
  /\ task' = [t \in Tasks |-> IdleTask]
  /\ UNCHANGED <<nodes, alg, changes, faults>>

Next ==
  \/ \E content \in Contents : NodesChange(content)
  \/ DelayElapses \/ Reconcile
  \/ \E s \in Snapshots : LatePutLands(s) \/ LatePutIsLost(s)
  \/ \E t \in Tasks : TaskReads(t) \/ TaskEnds(t)
  \/ AlgorithmRestarts \/ PrcRestarts

SyncSpec == Init /\ [][Next]_vars

\* Timers elapse, the worker runs, requests are answered or time out, and a
\* request given up is performed or lost.  Tasks and the environment are free.
SyncFairness ==
  /\ WF_vars(DelayElapses) /\ WF_vars(Reconcile)
  /\ WF_vars(\E s \in Snapshots : LatePutLands(s) \/ LatePutIsLost(s))

FairSyncSpec == SyncSpec /\ SyncFairness

-----------------------------------------------------------------------------
(* Properties.                                                             *)

\* Failing closed: while a snapshot is being published no task may start, and
\* the snapshot tasks are given is the newest one the reconciler could build,
\* after whatever failures, restarts and late PUTs.
FailClosed ==
  /\ pc \in {"put", "putReply"} => ~ready
  /\ ready => confirmed.id # None /\ listed \in {confirmed.id, None}

\* A switch of snapshots spares the calculations under way: one that read the
\* Algorithm's current snapshot finds it through one switch, whether it is the
\* PRC's next PUT or a late one.
SwitchSparesTasks ==
  \A t \in Tasks :
    task[t].pc = "calculate" /\ task[t].held /\ task[t].read.boot = boot /\ task[t].installs <= 1
      => Found(task[t].read.id)

\* Once the cluster settles on Nodes a snapshot can be built from, tasks are
\* given that snapshot, and the running Algorithm process holds it, for good:
\* through changes without an event, lost answers, restarts of either process
\* and PUTs that land out of order.
Synced ==
  /\ ready /\ confirmed = [id |-> nodes, boot |-> boot]
  /\ current = nodes
Resynced == <>[](nodes # None) => <>[]Synced

\* "When static Node information changes, the PRC first sets the snapshot not
\* ready": a reconcile that saw Nodes other than the confirmed ones leaves the
\* state not ready.
ChangeClosesFirst == pc = "idle" /\ ready => listed = confirmed.id
=============================================================================
