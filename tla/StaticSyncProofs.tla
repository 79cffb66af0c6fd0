-------------------------- MODULE StaticSyncProofs --------------------------
(***************************************************************************)
(* Proofs about StaticSync, for any snapshots, tasks and bounds: type      *)
(* correctness, that the PRC fails closed, and that one switch of          *)
(* snapshots spares the calculations under way.                            *)
(***************************************************************************)
EXTENDS StaticSync, TLAPS

LEMMA Bounds ==
  /\ None \notin Snapshots /\ MaxBoots \in Nat \ {0}
  /\ MaxChanges \in Nat /\ MaxFaults \in Nat /\ MaxRestarts \in Nat
BY SyncAssumption

USE Bounds DEF prc, alg, bound

LEMMA Records ==
  /\ NoAnswer \in Identity
  /\ IdleTask \in TaskRec
BY DEF NoAnswer, Identity, IdleTask, TaskRec, Contents, Boots

LEMMA FirstEventType == \A content : FirstEvent(content) \subseteq BOOLEAN
BY DEF FirstEvent

\* A switch changes how often a calculation was switched, nothing else.
LEMMA SwitchedFacts ==
  ASSUME NEW t, t \in Tasks, task \in [Tasks -> TaskRec]
  PROVE  /\ Switched(t) \in TaskRec
         /\ Switched(t).pc = task[t].pc
         /\ Switched(t).pc = "calculate" =>
              /\ Switched(t).read = task[t].read
              /\ Switched(t).held = task[t].held
              /\ Switched(t).installs <= 1 => task[t].installs = 0
              /\ Switched(t).installs # 0
<1>1. CASE task[t].pc = "idle"
  BY <1>1, Records DEF Switched, IdleTask
<1>2. CASE task[t].pc # "idle"
  <2>1. task[t] \in [pc : {"idle", "calculate"}, read : Identity, held : BOOLEAN, installs : 0..2]
    BY DEF TaskRec
  <2>2. Switched(t) = [task[t] EXCEPT !.installs =
                         IF task[t].installs < 2 THEN task[t].installs + 1 ELSE 2]
    BY <1>2 DEF Switched
  <2> QED
    BY <2>1, <2>2 DEF TaskRec
<1> QED
  BY <1>1, <1>2

LEMMA InstallType ==
  ASSUME SyncTypeOK, NEW s, s \in Snapshots, Install(s)
  PROVE  current' \in Contents /\ previous' \in Contents /\ task' \in [Tasks -> TaskRec]
BY SwitchedFacts DEF SyncTypeOK, Install, Contents

LEMMA InitType == Init => SyncTypeOK
<1> SUFFICES ASSUME Init PROVE SyncTypeOK
  OBVIOUS
<1>1. dirty \in BOOLEAN
  BY FirstEventType DEF Init
<1>2. boot \in Boots \ {0}
  BY DEF Init, Boots
<1>3. changes \in 0..MaxChanges /\ faults \in 0..MaxFaults /\ restarts \in 0..MaxRestarts
  BY DEF Init
<1>4. task \in [Tasks -> TaskRec]
  BY Records DEF Init
<1> QED
  BY <1>1, <1>2, <1>3, <1>4, Records DEF Init, SyncTypeOK, Contents

LEMMA StepType == SyncTypeOK /\ [Next]_vars => SyncTypeOK'
<1> SUFFICES ASSUME SyncTypeOK, [Next]_vars PROVE SyncTypeOK'
  OBVIOUS
<1> USE DEF SyncTypeOK
<1>1. ASSUME NEW content \in Contents, NodesChange(content) PROVE SyncTypeOK'
  <2>1. changes' \in 0..MaxChanges /\ faults' \in 0..MaxFaults /\ restarts' \in 0..MaxRestarts
    BY <1>1 DEF NodesChange
  <2>2. dirty' \in BOOLEAN
    BY <1>1 DEF NodesChange
  <2> QED
    BY <1>1, <2>1, <2>2 DEF NodesChange
<1>2. CASE DelayElapses
  BY <1>2 DEF DelayElapses
<1>3. CASE ListFails
  <2>1. changes' \in 0..MaxChanges /\ faults' \in 0..MaxFaults /\ restarts' \in 0..MaxRestarts
    BY <1>3 DEF ListFails, Fault
  <2> QED
    BY <1>3, <2>1 DEF ListFails, Retry
<1>4. CASE ListUnusable
  BY <1>4 DEF ListUnusable, Resync, Contents
<1>5. CASE List
  BY <1>5 DEF List, Syncing
<1>6. CASE StatusServed
  <2>1. reply' \in Identity
    BY <1>6 DEF StatusServed, Identity
  <2> QED
    BY <1>6, <2>1 DEF StatusServed
<1>7. CASE StatusReceived
  BY <1>7, Records DEF StatusReceived, Syncing, Resync
<1>8. CASE StatusFails
  <2>1. changes' \in 0..MaxChanges /\ faults' \in 0..MaxFaults /\ restarts' \in 0..MaxRestarts
    BY <1>8 DEF StatusFails, Fault
  <2> QED
    BY <1>8, <2>1, Records DEF StatusFails, Syncing
<1>9. CASE PutServed
  <2>1. listed \in Snapshots
    BY <1>9 DEF PutServed, Contents
  <2>2. reply' \in Identity
    BY <1>9 DEF PutServed, Identity
  <2> QED
    BY <1>9, <2>1, <2>2, InstallType DEF PutServed
<1>10. CASE PutReceived
  BY <1>10, Records DEF PutReceived, Resync
<1>11. CASE PutFails
  <2>1. late' \in SUBSET Snapshots
    BY <1>11 DEF PutFails, GivenUp, Contents
  <2>2. changes' \in 0..MaxChanges /\ faults' \in 0..MaxFaults /\ restarts' \in 0..MaxRestarts
    BY <1>11 DEF PutFails, Fault
  <2> QED
    BY <1>11, <2>1, <2>2, Records DEF PutFails, Retry
<1>12. ASSUME NEW s \in Snapshots, LatePutLands(s) PROVE SyncTypeOK'
  BY <1>12, InstallType DEF LatePutLands
<1>13. ASSUME NEW s \in Snapshots, LatePutIsLost(s) PROVE SyncTypeOK'
  BY <1>13 DEF LatePutIsLost
<1>14. ASSUME NEW t \in Tasks, TaskReads(t) PROVE SyncTypeOK'
  <2>1. [pc |-> "calculate", read |-> confirmed, installs |-> 0,
         held |-> confirmed = [id |-> current, boot |-> boot]] \in TaskRec
    BY DEF TaskRec
  <2> QED
    BY <1>14, <2>1 DEF TaskReads
<1>15. ASSUME NEW t \in Tasks, TaskEnds(t) PROVE SyncTypeOK'
  BY <1>15, Records DEF TaskEnds
<1>16. CASE AlgorithmRestarts
  BY <1>16 DEF AlgorithmRestarts, Boots, Contents
<1>17. CASE PrcRestarts
  <2>1. late' \in SUBSET Snapshots
    BY <1>17 DEF PrcRestarts, GivenUp, Contents
  <2>2. changes' \in 0..MaxChanges /\ faults' \in 0..MaxFaults /\ restarts' \in 0..MaxRestarts
    BY <1>17 DEF PrcRestarts
  <2>3. dirty' \in BOOLEAN
    BY <1>17, FirstEventType DEF PrcRestarts
  <2>4. task' \in [Tasks -> TaskRec]
    BY <1>17, Records DEF PrcRestarts
  <2> QED
    BY <1>17, <2>1, <2>2, <2>3, <2>4, Records DEF PrcRestarts, Contents
<1>18. CASE UNCHANGED vars
  BY <1>18 DEF vars
<1> QED
  BY <1>1, <1>2, <1>3, <1>4, <1>5, <1>6, <1>7, <1>8, <1>9, <1>10, <1>11, <1>12, <1>13,
     <1>14, <1>15, <1>16, <1>17, <1>18 DEF Next, Reconcile

\* Every variable of the module keeps its type, and a reconcile that has got as
\* far as a request has a snapshot to publish.
THEOREM SyncTypeCorrect == SyncSpec => []SyncTypeOK
BY InitType, StepType, PTL DEF SyncSpec

-----------------------------------------------------------------------------
(* Failing closed.  The answer under way carries the snapshot published,   *)
(* and the status is asked only for a snapshot that is confirmed.          *)

ClosedInv ==
  /\ FailClosed
  /\ pc = "putReply" => reply.id = listed
  /\ pc \in {"status", "statusReply"} => ready

LEMMA StepClosed == SyncTypeOK /\ ClosedInv /\ [Next]_vars => ClosedInv'
<1> SUFFICES ASSUME SyncTypeOK, ClosedInv, [Next]_vars PROVE ClosedInv'
  OBVIOUS
<1> USE DEF SyncTypeOK, ClosedInv, FailClosed
<1>1. CASE \E content \in Contents : NodesChange(content)
  BY <1>1 DEF NodesChange
<1>2. CASE DelayElapses
  BY <1>2 DEF DelayElapses
<1>3. CASE ListFails
  BY <1>3 DEF ListFails, Retry
<1>4. CASE ListUnusable
  BY <1>4 DEF ListUnusable, Resync
<1>5. CASE List
  BY <1>5 DEF List, Syncing
<1>6. CASE StatusServed
  BY <1>6 DEF StatusServed
<1>7. CASE StatusReceived
  <2>1. UNCHANGED <<confirmed, listed>>
    BY <1>7 DEF StatusReceived
  <2>2. \/ pc' = "idle" /\ UNCHANGED ready
        \/ pc' = "put" /\ ready' = FALSE
    BY <1>7 DEF StatusReceived, Syncing, Resync
  <2> QED
    BY <2>1, <2>2
<1>8. CASE StatusFails
  BY <1>8 DEF StatusFails, Syncing
<1>9. CASE PutServed
  BY <1>9 DEF PutServed
<1>10. CASE PutReceived
  BY <1>10 DEF PutReceived, Resync
<1>11. CASE PutFails
  BY <1>11 DEF PutFails, Retry
<1>12. CASE \E s \in Snapshots : LatePutLands(s) \/ LatePutIsLost(s)
  BY <1>12 DEF LatePutLands, LatePutIsLost
<1>13. CASE \E t \in Tasks : TaskReads(t) \/ TaskEnds(t)
  BY <1>13 DEF TaskReads, TaskEnds
<1>14. CASE AlgorithmRestarts
  BY <1>14 DEF AlgorithmRestarts
<1>15. CASE PrcRestarts
  BY <1>15 DEF PrcRestarts
<1>16. CASE UNCHANGED vars
  BY <1>16 DEF vars
<1> QED
  BY <1>1, <1>2, <1>3, <1>4, <1>5, <1>6, <1>7, <1>8, <1>9, <1>10, <1>11, <1>12, <1>13,
     <1>14, <1>15, <1>16 DEF Next, Reconcile

\* While a snapshot is being published no task may start, and the snapshot that
\* tasks are given is the newest one the reconciler could build.
THEOREM FailsClosed == SyncSpec => []FailClosed
<1>1. Init => ClosedInv
  BY DEF Init, ClosedInv, FailClosed
<1>2. ClosedInv => FailClosed
  BY DEF ClosedInv
<1> QED
  BY <1>1, <1>2, StepClosed, SyncTypeCorrect, PTL DEF SyncSpec

-----------------------------------------------------------------------------
(* One switch spares the calculations under way: until the first switch    *)
(* the snapshot read is the current one, after it the previous one.  A     *)
(* boot ID that was read never comes back.                                 *)

HeldInv ==
  \A t \in Tasks : task[t].pc = "calculate" =>
    /\ task[t].read.boot <= boot
    /\ task[t].held /\ task[t].read.boot = boot =>
         /\ task[t].installs = 0 => task[t].read.id = current
         /\ task[t].installs <= 1 => Found(task[t].read.id)

\* The PRC learns boot IDs from the Algorithm only.
BootsKnown == reply.boot <= boot /\ confirmed.boot <= boot

LEMMA StepBootsKnown == SyncTypeOK /\ BootsKnown /\ [Next]_vars => BootsKnown'
<1> SUFFICES ASSUME SyncTypeOK, BootsKnown, [Next]_vars PROVE BootsKnown'
  OBVIOUS
<1> USE DEF BootsKnown, SyncTypeOK, Identity, Boots, NoAnswer
<1>1. CASE \E content \in Contents : NodesChange(content)
  BY <1>1 DEF NodesChange
<1>2. CASE DelayElapses \/ ListFails \/ ListUnusable \/ List
  BY <1>2 DEF DelayElapses, ListFails, ListUnusable, List
<1>3. CASE StatusServed
  BY <1>3 DEF StatusServed
<1>4. CASE StatusReceived \/ StatusFails \/ PutFails
  BY <1>4 DEF StatusReceived, StatusFails, PutFails
<1>5. CASE PutServed
  BY <1>5 DEF PutServed
<1>6. CASE PutReceived
  BY <1>6 DEF PutReceived
<1>7. CASE \E s \in Snapshots : LatePutLands(s) \/ LatePutIsLost(s)
  BY <1>7 DEF LatePutLands, LatePutIsLost
<1>8. CASE \E t \in Tasks : TaskReads(t) \/ TaskEnds(t)
  BY <1>8 DEF TaskReads, TaskEnds
<1>9. CASE AlgorithmRestarts
  BY <1>9 DEF AlgorithmRestarts
<1>10. CASE PrcRestarts
  BY <1>10 DEF PrcRestarts
<1>11. CASE UNCHANGED vars
  BY <1>11 DEF vars
<1> QED
  BY <1>1, <1>2, <1>3, <1>4, <1>5, <1>6, <1>7, <1>8, <1>9, <1>10, <1>11 DEF Next, Reconcile

LEMMA InstallKeepsHeld ==
  ASSUME SyncTypeOK, HeldInv, NEW s \in Snapshots, Install(s), UNCHANGED boot
  PROVE  HeldInv'
<1>1. CASE current = s
  BY <1>1 DEF Install, HeldInv, Found
<1>2. CASE current # s
  <2> SUFFICES ASSUME NEW t \in Tasks, task'[t].pc = "calculate"
               PROVE  /\ task'[t].read.boot <= boot
                      /\ task'[t].held /\ task'[t].read.boot = boot =>
                           /\ task'[t].installs = 0 => task'[t].read.id = current'
                           /\ task'[t].installs <= 1 => task'[t].read.id \in {current', previous'}
    BY DEF HeldInv, Found
  <2>1. task'[t] = Switched(t) /\ previous' = current
    BY <1>2 DEF Install
  <2>2. task \in [Tasks -> TaskRec]
    BY DEF SyncTypeOK
  <2>3. /\ task[t].pc = "calculate"
        /\ task'[t].read = task[t].read /\ task'[t].held = task[t].held
        /\ task'[t].installs <= 1 => task[t].installs = 0
        /\ task'[t].installs # 0
    BY <2>1, <2>2, SwitchedFacts
  <2> QED
    BY <2>1, <2>3 DEF HeldInv, Found
<1> QED
  BY <1>1, <1>2

LEMMA StepHeld == SyncTypeOK /\ BootsKnown /\ HeldInv /\ [Next]_vars => HeldInv'
<1> SUFFICES ASSUME SyncTypeOK, BootsKnown, HeldInv, [Next]_vars PROVE HeldInv'
  OBVIOUS
<1>1. CASE UNCHANGED <<alg, task>>
  BY <1>1 DEF HeldInv, Found
<1>2. CASE PutServed
  <2>1. listed \in Snapshots
    BY <1>2 DEF PutServed, SyncTypeOK, Contents
  <2> QED
    BY <1>2, <2>1, InstallKeepsHeld DEF PutServed
<1>3. ASSUME NEW s \in Snapshots, LatePutLands(s) PROVE HeldInv'
  BY <1>3, InstallKeepsHeld DEF LatePutLands
<1>4. ASSUME NEW t \in Tasks, TaskReads(t) PROVE HeldInv'
  <2>1. task' = [task EXCEPT ![t] =
          [pc |-> "calculate", read |-> confirmed, installs |-> 0,
           held |-> confirmed = [id |-> current, boot |-> boot]]]
    BY <1>4 DEF TaskReads
  <2>2. /\ confirmed.boot <= boot
        /\ confirmed = [id |-> current, boot |-> boot] => confirmed.id = current
    BY DEF BootsKnown
  <2>3. UNCHANGED alg /\ task \in [Tasks -> TaskRec]
    BY <1>4 DEF TaskReads, SyncTypeOK
  <2>4. \A u \in Tasks \ {t} : task'[u] = task[u]
    BY <2>1, <2>3
  <2>5. /\ task'[t].read = confirmed
        /\ task'[t].held => confirmed = [id |-> current, boot |-> boot]
    BY <2>1, <2>3
  <2> QED
    BY <2>2, <2>3, <2>4, <2>5 DEF HeldInv, Found
<1>5. ASSUME NEW t \in Tasks, TaskEnds(t) PROVE HeldInv'
  BY <1>5 DEF TaskEnds, HeldInv, SyncTypeOK, IdleTask, Found
<1>6. CASE AlgorithmRestarts
  <2>1. \A t \in Tasks : task[t].read.boot \in Nat
    BY DEF SyncTypeOK, TaskRec, Identity, Boots
  <2> QED
    BY <1>6, <2>1 DEF AlgorithmRestarts, HeldInv, SyncTypeOK, Boots
<1>7. CASE PrcRestarts
  BY <1>7 DEF PrcRestarts, HeldInv, IdleTask
<1> QED
  BY <1>1, <1>2, <1>3, <1>4, <1>5, <1>6, <1>7
  DEF vars, Next, Reconcile, NodesChange, DelayElapses, ListFails, ListUnusable, List,
      StatusServed, StatusReceived, StatusFails, PutReceived, PutFails, LatePutIsLost

\* A calculation that read the Algorithm's current snapshot finds it through one
\* switch, whether that was the PRC's next PUT or a late one.
THEOREM SwitchIsSafe == SyncSpec => []SwitchSparesTasks
<1>1. Init => BootsKnown /\ HeldInv
  BY DEF Init, BootsKnown, HeldInv, NoAnswer, IdleTask
<1>2. HeldInv => SwitchSparesTasks
  BY DEF HeldInv, SwitchSparesTasks
<1> QED
  BY <1>1, <1>2, StepBootsKnown, StepHeld, SyncTypeCorrect, PTL DEF SyncSpec
=============================================================================
