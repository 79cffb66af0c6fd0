----------------------- MODULE RefreshSchedulerProofs -----------------------
(***************************************************************************)
(* What RefreshScheduler keeps invariant for every set of demands, every   *)
(* channel capacity, every number of workers and every bound.              *)
(***************************************************************************)
EXTENDS RefreshScheduler, TLAPS

USE DEF api, queue, task, work, bound

-----------------------------------------------------------------------------
(* Records: what the updates of one entry preserve.                        *)

LEMMA Bounds == /\ MaxUid \in Nat /\ MaxGen \in Nat /\ BufferSize \in Nat
                /\ MaxUid >= 1 /\ MaxGen >= 1 /\ BufferSize >= 1
                /\ MaxFaults \in Nat /\ MaxRestarts \in Nat
BY ConstantsAssumption

LEMMA IdleRecords == IdleEvt \in EvtRec /\ IdleExec \in ExecRec /\ FreeTimer \in TimerRec
BY DEF IdleEvt, EvtRec, EvtPcs, IdleExec, ExecRec, ExecPcs, FreeTimer, TimerRec

LEMMA EvtUpdate ==
  /\ \A p \in EvtPcs, i \in Ids \cup {None} : [pc |-> p, seen |-> i] \in EvtRec
  /\ \A r \in EvtRec, p \in EvtPcs : [r EXCEPT !.pc = p] \in EvtRec
BY DEF EvtRec

LEMMA ExecUpdate ==
  ASSUME NEW r \in ExecRec
  PROVE  /\ r.id \in Ids \cup {None}
         /\ \A p \in ExecPcs : [r EXCEPT !.pc = p] \in ExecRec
         /\ [r EXCEPT !.ctx = "done"] \in ExecRec
         /\ \A p \in ExecPcs, s \in {"ok", "err"} :
              [[r EXCEPT !.pc = p] EXCEPT !.res = s] \in ExecRec
BY DEF ExecRec

LEMMA TimerUpdate ==
  ASSUME NEW r \in TimerRec
  PROVE  /\ r.key \in Keys \cup {None} /\ r.id \in Ids \cup {None}
         /\ [r EXCEPT !.st = "fired"] \in TimerRec
         /\ [r EXCEPT !.st = "emit"] \in TimerRec
BY DEF TimerRec

LEMMA StopTimerType ==
  ASSUME TypeOK, NEW k \in Keys
  PROVE  /\ StopTimer(k) \in [TimerIds -> TimerRec]
         /\ \A t \in TimerIds : StopTimer(k)[t].st # "free" => StopTimer(k)[t].key \in Keys
BY IdleRecords DEF TypeOK, StopTimer, FreeTimer

LEMMA CancelExecType ==
  ASSUME TypeOK, NEW k \in Keys
  PROVE  CancelExec(k) \in [Keys -> ExecRec]
BY ExecUpdate DEF TypeOK, CancelExec

LEMMA EmitType ==
  ASSUME TypeOK, NEW k \in Keys, Emit(k)
  PROVE  events' \in Seq(Keys) /\ Len(events') <= BufferSize
BY Bounds DEF TypeOK, Emit

LEMMA RetryEventType ==
  ASSUME TypeOK, NEW k \in Keys, RetryEvent(k)
  PROVE  evtRetry' \in SUBSET Keys /\ evt' \in [Keys -> EvtRec]
BY IdleRecords DEF TypeOK, RetryEvent

LEMMA EvtFailsType ==
  ASSUME TypeOK, NEW k \in Keys, EvtFails(k)
  PROVE  faults' \in 0..MaxFaults /\ evtRetry' \in SUBSET Keys /\ evt' \in [Keys -> EvtRec]
BY Bounds, RetryEventType DEF TypeOK, EvtFails

-----------------------------------------------------------------------------
LEMMA InitTypeOK == Init => TypeOK
BY Bounds, IdleRecords DEF Init, TypeOK, FreeTimer

LEMMA StepTypeOK == TypeOK /\ [Next]_vars => TypeOK'
<1> SUFFICES ASSUME TypeOK, [Next]_vars PROVE TypeOK'
  OBVIOUS
<1>1. ASSUME NEW k \in Keys, UserCreate(k) PROVE TypeOK'
  BY <1>1, Bounds DEF TypeOK, UserCreate, Notify, Ids
<1>2. ASSUME NEW k \in Keys, UserUpdate(k) PROVE TypeOK'
  BY <1>2, Bounds DEF TypeOK, UserUpdate, Notify, Ids
<1>3. ASSUME NEW k \in Keys, UserDelete(k) PROVE TypeOK'
  BY <1>3 DEF TypeOK, UserDelete, Notify
<1>4. ASSUME NEW k \in Keys, DeliverWatch(k) PROVE TypeOK'
  BY <1>4 DEF TypeOK, DeliverWatch
<1>5. ASSUME NEW k \in Keys, EvtGet(k) PROVE TypeOK'
  <2>1. evt' \in [Keys -> EvtRec]
    <3>1. [pc |-> "observed", seen |-> ngd[k]] \in EvtRec
      BY DEF TypeOK, EvtRec, EvtPcs
    <3> QED
      BY <1>5, <3>1, EvtFailsType DEF TypeOK, EvtGet
  <2> QED
    BY <1>5, <2>1, EvtFailsType DEF TypeOK, EvtGet
<1>6. ASSUME NEW k \in Keys, EvtUpsert(k) PROVE TypeOK'
  <2>1. evt' \in [Keys -> EvtRec]
    <3>1. \A p \in {"status", "trigger"} : [pc |-> p, seen |-> None] \in EvtRec
      BY DEF EvtRec, EvtPcs
    <3> QED
      BY <1>6, <3>1 DEF TypeOK, EvtUpsert
  <2>2. evt[k].seen \in Ids
    BY <1>6 DEF TypeOK, EvtUpsert, EvtRec
  <2>3. CASE taskId[k] = evt[k].seen
    BY <1>6, <2>1, <2>3 DEF TypeOK, EvtUpsert, Upsert
  <2>4. CASE taskId[k] # evt[k].seen
    <3>1. /\ timer' \in [TimerIds -> TimerRec] /\ exec' \in [Keys -> ExecRec]
          /\ \A t \in TimerIds : timer'[t].st # "free" => timer'[t].key \in Keys
      BY <1>6, <2>4, StopTimerType, CancelExecType DEF EvtUpsert, Upsert
    <3> QED
      BY <1>6, <2>1, <2>2, <2>4, <3>1 DEF TypeOK, EvtUpsert, Upsert
  <2> QED
    BY <2>3, <2>4
<1>7. ASSUME NEW k \in Keys, EvtRemove(k) PROVE TypeOK'
  <2>1. evt' \in [Keys -> EvtRec]
    BY <1>7, EvtUpdate DEF TypeOK, EvtRemove, EvtPcs
  <2> QED
    BY <1>7, <2>1, StopTimerType, CancelExecType DEF TypeOK, EvtRemove, Remove
<1>8. ASSUME NEW k \in Keys, EvtDeleteGrant(k) PROVE TypeOK'
  BY <1>8, IdleRecords, EvtFailsType DEF TypeOK, EvtDeleteGrant
<1>9. ASSUME NEW k \in Keys, EvtStatus(k) PROVE TypeOK'
  <2>1. CASE evt' = [evt EXCEPT ![k].pc = "trigger"] /\ UNCHANGED <<evtRetry, bound>>
    <3>1. [evt[k] EXCEPT !.pc = "trigger"] \in EvtRec
      BY EvtUpdate DEF TypeOK, EvtPcs
    <3> QED
      BY <1>9, <2>1, <3>1 DEF TypeOK, EvtStatus
  <2>2. CASE RetryEvent(k) /\ UNCHANGED bound
    BY <1>9, <2>2, RetryEventType DEF TypeOK, EvtStatus
  <2>3. CASE EvtFails(k) /\ UNCHANGED restarts
    BY <1>9, <2>3, EvtFailsType DEF TypeOK, EvtStatus
  <2> QED
    BY <1>9, <2>1, <2>2, <2>3 DEF EvtStatus
<1>10. ASSUME NEW k \in Keys, EvtTrigger(k) PROVE TypeOK'
  <2>1. evt' \in [Keys -> EvtRec]
    <3>1. \A p \in {"idle", "emit"} : [evt[k] EXCEPT !.pc = p] \in EvtRec
      BY DEF TypeOK, EvtRec, EvtPcs
    <3> QED
      BY <1>10, <3>1 DEF TypeOK, EvtTrigger
  <2> QED
    BY <1>10, <2>1 DEF TypeOK, EvtTrigger
<1>11. ASSUME NEW k \in Keys, EvtEmit(k) PROVE TypeOK'
  BY <1>11, EmitType, IdleRecords DEF TypeOK, EvtEmit
<1>12. ASSUME NEW t \in TimerIds, TimerFires(t) PROVE TypeOK'
  <2>1. timer' \in [TimerIds -> TimerRec]
    BY <1>12, TimerUpdate DEF TypeOK, TimerFires
  <2>2. \A u \in TimerIds : timer'[u].st # "free" => timer'[u].key \in Keys
    BY <1>12 DEF TypeOK, TimerFires, TimerRec
  <2> QED
    BY <1>12, <2>1, <2>2 DEF TypeOK, TimerFires
<1>13. ASSUME NEW t \in TimerIds, TimerCallback(t) PROVE TypeOK'
  <2>1. timer' \in [TimerIds -> TimerRec]
    <3>1. [timer[t] EXCEPT !.st = "emit"] \in TimerRec
      BY TimerUpdate DEF TypeOK
    <3> QED
      BY <1>13, <3>1, IdleRecords DEF TypeOK, TimerCallback
  <2>2. \A u \in TimerIds : timer'[u].st # "free" => timer'[u].key \in Keys
    <3>1. timer'[t].st = "free" \/ timer'[t].key = timer[t].key
      BY <1>13 DEF TypeOK, TimerCallback, TimerRec, FreeTimer
    <3>2. \A u \in TimerIds \ {t} : timer'[u] = timer[u]
      BY <1>13 DEF TypeOK, TimerCallback
    <3> QED
      BY <1>13, <3>1, <3>2 DEF TypeOK, TimerCallback
  <2>3. taskTimer' \in [Keys -> TimerIds \cup {None}]
    BY <1>13 DEF TypeOK, TimerCallback
  <2> QED
    BY <1>13, <2>1, <2>2, <2>3 DEF TypeOK, TimerCallback
<1>14. ASSUME NEW t \in TimerIds, TimerEmit(t) PROVE TypeOK'
  <2>1. timer[t].key \in Keys
    BY <1>14 DEF TypeOK, TimerEmit
  <2>2. events' \in Seq(Keys) /\ Len(events') <= BufferSize
    BY <1>14, <2>1, EmitType DEF TimerEmit
  <2>3. timer' \in [TimerIds -> TimerRec]
    BY <1>14, IdleRecords DEF TypeOK, TimerEmit
  <2>4. \A u \in TimerIds : timer'[u].st # "free" => timer'[u].key \in Keys
    BY <1>14 DEF TypeOK, TimerEmit, FreeTimer
  <2> QED
    BY <1>14, <2>2, <2>3, <2>4 DEF TypeOK, TimerEmit
<1>15. CASE SourceDelivers
  BY <1>15, Bounds DEF TypeOK, SourceDelivers
<1>16. ASSUME NEW k \in Keys, BackoffExpires(k) PROVE TypeOK'
  BY <1>16 DEF TypeOK, BackoffExpires
<1>17. ASSUME NEW k \in Keys, Dequeue(k) PROVE TypeOK'
  <2>1. exec' \in [Keys -> ExecRec]
    <3>1. [IdleExec EXCEPT !.pc = "begin"] \in ExecRec
      BY DEF IdleExec, ExecRec, ExecPcs
    <3> QED
      BY <1>17, <3>1 DEF TypeOK, Dequeue
  <2> QED
    BY <1>17, <2>1 DEF TypeOK, Dequeue
<1>18. ASSUME NEW k \in Keys, Begin(k) PROVE TypeOK'
  <2>1. exec' \in [Keys -> ExecRec]
    <3>1. [pc |-> "process", id |-> taskId[k], ctx |-> "live", res |-> "ok"] \in ExecRec
      BY DEF TypeOK, ExecRec, ExecPcs
    <3> QED
      BY <1>18, <3>1, IdleRecords DEF TypeOK, Begin
  <2> QED
    BY <1>18, <2>1 DEF TypeOK, Begin
<1>19. ASSUME NEW k \in Keys, NEW res \in {"ok", "err"}, ProcessReturns(k, res) PROVE TypeOK'
  <2>1. exec' \in [Keys -> ExecRec]
    <3>1. [[exec[k] EXCEPT !.pc = "finish"] EXCEPT !.res = res] \in ExecRec
      BY ExecUpdate DEF TypeOK, ExecPcs
    <3> QED
      BY <1>19, <3>1 DEF TypeOK, ProcessReturns
  <2> QED
    BY <1>19, <2>1 DEF TypeOK, ProcessReturns
<1>20. ASSUME NEW k \in Keys, Finish(k) PROVE TypeOK'
  <2>1. exec' \in [Keys -> ExecRec]
    <3>1. [CancelExec(k)[k] EXCEPT !.pc = "check"] \in ExecRec
      BY ExecUpdate, CancelExecType DEF ExecPcs
    <3>2. [exec[k] EXCEPT !.pc = "check"] \in ExecRec
      BY ExecUpdate DEF TypeOK, ExecPcs
    <3> QED
      BY <1>20, <3>1, <3>2, CancelExecType DEF TypeOK, Finish
  <2> QED
    BY <1>20, <2>1 DEF TypeOK, Finish
<1>21. ASSUME NEW k \in Keys, Check(k) PROVE TypeOK'
  <2>1. exec' \in [Keys -> ExecRec]
    BY <1>21, IdleRecords, ExecUpdate DEF TypeOK, Check, ExecPcs
  <2> QED
    BY <1>21, <2>1 DEF TypeOK, Check, RequeueOnError
<1>22. ASSUME NEW k \in Keys, ScheduleAfter(k) PROVE TypeOK'
  <2>1. exec' \in [Keys -> ExecRec]
    BY <1>22, IdleRecords DEF TypeOK, ScheduleAfter
  <2>2. [st |-> "armed", key |-> k, id |-> exec[k].id] \in TimerRec
    BY DEF TypeOK, TimerRec, ExecRec
  <2>3. /\ timer' \in [TimerIds -> TimerRec] /\ taskTimer' \in [Keys -> TimerIds \cup {None}]
        /\ \A u \in TimerIds : timer'[u].st # "free" => timer'[u].key \in Keys
    <3>1. CASE taskId[k] = exec[k].id
      <4>1. PICK t \in TimerIds :
              /\ timer' = [StopTimer(k) EXCEPT ![t] = [st |-> "armed", key |-> k, id |-> exec[k].id]]
              /\ taskTimer' = [taskTimer EXCEPT ![k] = t]
        BY <1>22, <3>1 DEF ScheduleAfter, NewTimer
      <4> QED
        BY <4>1, <2>2, StopTimerType DEF TypeOK
    <3>2. CASE taskId[k] # exec[k].id
      BY <1>22, <3>2 DEF TypeOK, ScheduleAfter
    <3> QED
      BY <3>1, <3>2
  <2> QED
    BY <1>22, <2>1, <2>3 DEF TypeOK, ScheduleAfter
<1>23. CASE Restart
  BY <1>23, Bounds, IdleRecords DEF TypeOK, Restart, FreeTimer
<1>24. CASE UNCHANGED vars
  BY <1>24 DEF TypeOK, vars
<1> QED
  BY <1>1, <1>2, <1>3, <1>4, <1>5, <1>6, <1>7, <1>8, <1>9, <1>10, <1>11, <1>12,
     <1>13, <1>14, <1>15, <1>16, <1>17, <1>18, <1>19, <1>20, <1>21, <1>22, <1>23, <1>24
     DEF Next, User, EventController, RefreshWorker, TimerStep

\* The type invariant, the bound on the event channel included, holds in every
\* reachable state: no interleaving of the senders exceeds the buffer.
THEOREM TypeCorrect == Spec => []TypeOK
BY InitTypeOK, StepTypeOK, PTL DEF Spec
-----------------------------------------------------------------------------
(* StaleExecutionCancelled rests on ExecutionAttached: Begin stores the     *)
(* cancel function, and only Finish, Upsert and Remove take it away.        *)

LEMMA StepExecutionAttached ==
  TypeOK /\ ExecutionAttached /\ [Next]_vars => ExecutionAttached'
<1> SUFFICES ASSUME TypeOK, ExecutionAttached, [Next]_vars, NEW j \in Keys,
                    exec'[j].pc = "process", exec'[j].ctx = "live"
             PROVE  taskId'[j] = exec'[j].id /\ j \in taskCancel'
  BY DEF ExecutionAttached
<1>0. /\ exec \in [Keys -> ExecRec] /\ taskCancel \in SUBSET Keys
      /\ taskId \in [Keys -> Ids \cup {None}]
  BY DEF TypeOK
<1>1. \A r \in ExecRec : [r EXCEPT !.ctx = "done"].ctx = "done"
  BY DEF ExecRec
<1>2. ASSUME UNCHANGED <<exec, taskId, taskCancel>>
      PROVE  taskId'[j] = exec'[j].id /\ j \in taskCancel'
  BY <1>2 DEF ExecutionAttached
<1>3. ASSUME NEW k \in Keys, User(k) \/ DeliverWatch(k) \/ EvtGet(k) \/ EvtDeleteGrant(k)
                              \/ EvtStatus(k) \/ EvtTrigger(k) \/ EvtEmit(k) \/ BackoffExpires(k)
      PROVE  UNCHANGED <<exec, taskId, taskCancel>>
  BY <1>3 DEF User, UserCreate, UserUpdate, UserDelete, DeliverWatch, EvtGet, EvtDeleteGrant,
              EvtStatus, EvtTrigger, EvtEmit, BackoffExpires
<1>4. ASSUME NEW t \in TimerIds, TimerStep(t) PROVE UNCHANGED <<exec, taskId, taskCancel>>
  BY <1>4 DEF TimerStep, TimerFires, TimerCallback, TimerEmit
<1>5. SourceDelivers \/ UNCHANGED vars => UNCHANGED <<exec, taskId, taskCancel>>
  BY DEF SourceDelivers, vars
<1>6. ASSUME NEW k \in Keys, EvtUpsert(k)
      PROVE  taskId'[j] = exec'[j].id /\ j \in taskCancel'
  <2>1. CASE taskId[k] = evt[k].seen
    BY <1>2, <1>6, <2>1 DEF EvtUpsert, Upsert
  <2>2. CASE taskId[k] # evt[k].seen
    BY <1>0, <1>1, <1>6, <2>2 DEF ExecutionAttached, EvtUpsert, Upsert, CancelExec
  <2> QED BY <2>1, <2>2
<1>7. ASSUME NEW k \in Keys, EvtRemove(k)
      PROVE  taskId'[j] = exec'[j].id /\ j \in taskCancel'
  BY <1>0, <1>1, <1>7 DEF ExecutionAttached, EvtRemove, Remove, CancelExec
<1>8. ASSUME NEW k \in Keys, Dequeue(k) \/ Check(k) \/ ScheduleAfter(k)
      PROVE  taskId'[j] = exec'[j].id /\ j \in taskCancel'
  BY <1>0, <1>8 DEF ExecutionAttached, Dequeue, Check, ScheduleAfter, IdleExec, ExecRec
<1>9. ASSUME NEW k \in Keys, Begin(k)
      PROVE  taskId'[j] = exec'[j].id /\ j \in taskCancel'
  BY <1>0, <1>9 DEF ExecutionAttached, Begin, IdleExec
<1>10. ASSUME NEW k \in Keys, NEW res \in {"ok", "err"}, ProcessReturns(k, res)
       PROVE  taskId'[j] = exec'[j].id /\ j \in taskCancel'
  BY <1>0, <1>10 DEF ExecutionAttached, ProcessReturns, ExecRec
<1>11. ASSUME NEW k \in Keys, Finish(k)
       PROVE  taskId'[j] = exec'[j].id /\ j \in taskCancel'
  BY <1>0, <1>11 DEF ExecutionAttached, Finish, CancelExec, ExecRec
<1>12. CASE Restart
  BY <1>12 DEF Restart, IdleExec
<1> QED
  BY <1>2, <1>3, <1>4, <1>5, <1>6, <1>7, <1>8, <1>9, <1>10, <1>11, <1>12
     DEF Next, EventController, RefreshWorker

\* Whatever Upsert or Remove interleaves with an execution, the execution of a
\* replaced or removed identity runs under a cancelled context.
THEOREM StaleIsCancelled == Spec => []StaleExecutionCancelled
<1>1. Init => ExecutionAttached
  BY DEF Init, ExecutionAttached, IdleExec
<1>2. TypeOK /\ ExecutionAttached => StaleExecutionCancelled
  BY DEF TypeOK, ExecutionAttached, StaleExecutionCancelled, ExecRec
<1> QED
  BY <1>1, <1>2, TypeCorrect, StepExecutionAttached, PTL DEF Spec

-----------------------------------------------------------------------------
(* NoMissedChange rests on ObservationRepeated: a change that overtakes the *)
(* read of an event reconcile leaves a notification behind it.              *)

ChangeInv == NoMissedChange /\ ObservationRepeated

LEMMA StepChangeInv == TypeOK /\ ChangeInv /\ [Next]_vars => ChangeInv'
<1> SUFFICES ASSUME TypeOK, ChangeInv, [Next]_vars, NEW j \in Keys
             PROVE  /\ taskId'[j] # ngd'[j] =>
                         \/ j \in watch' \cup evtDirty' \cup evtRetry'
                         \/ evt'[j].pc = "observed" /\ evt'[j].seen = ngd'[j]
                    /\ evt'[j].pc = "observed" /\ evt'[j].seen # ngd'[j] =>
                         j \in watch' \cup evtDirty' \cup evtRetry'
  BY DEF ChangeInv, NoMissedChange, ObservationRepeated
<1> DEFINE Good == /\ taskId'[j] # ngd'[j] =>
                         \/ j \in watch' \cup evtDirty' \cup evtRetry'
                         \/ evt'[j].pc = "observed" /\ evt'[j].seen = ngd'[j]
                   /\ evt'[j].pc = "observed" /\ evt'[j].seen # ngd'[j] =>
                         j \in watch' \cup evtDirty' \cup evtRetry'
<1> USE DEF ChangeInv, NoMissedChange, ObservationRepeated
<1>0. /\ ngd \in [Keys -> Ids \cup {None}] /\ taskId \in [Keys -> Ids \cup {None}]
      /\ evt \in [Keys -> EvtRec]
  BY DEF TypeOK
<1>1. ASSUME NEW k \in Keys, User(k) PROVE Good
  BY <1>0, <1>1 DEF User, UserCreate, UserUpdate, UserDelete, Notify
<1>2. ASSUME NEW k \in Keys, DeliverWatch(k) PROVE Good
  BY <1>2 DEF DeliverWatch
<1>3. ASSUME NEW k \in Keys, EvtGet(k) PROVE Good
  BY <1>0, <1>3 DEF EvtGet, EvtFails, RetryEvent, IdleEvt
<1>4. ASSUME NEW k \in Keys, EvtUpsert(k) PROVE Good
  BY <1>0, <1>4 DEF EvtUpsert, Upsert
<1>5. ASSUME NEW k \in Keys, EvtRemove(k) PROVE Good
  BY <1>0, <1>5 DEF EvtRemove, Remove
<1>6. ASSUME NEW k \in Keys, EvtDeleteGrant(k) \/ EvtStatus(k) PROVE Good
  BY <1>0, <1>6 DEF EvtDeleteGrant, EvtStatus, EvtFails, RetryEvent, IdleEvt, EvtRec
<1>7. ASSUME NEW k \in Keys, EvtTrigger(k) \/ EvtEmit(k) PROVE Good
  BY <1>0, <1>7 DEF EvtTrigger, EvtEmit, IdleEvt, EvtRec
<1>8. ASSUME UNCHANGED <<ngd, watch, evtDirty, evtRetry, evt, taskId>> PROVE Good
  BY <1>8
<1>9. ASSUME NEW t \in TimerIds, TimerStep(t) PROVE Good
  BY <1>8, <1>9 DEF TimerStep, TimerFires, TimerCallback, TimerEmit
<1>10. ASSUME NEW k \in Keys, RefreshWorker(k) PROVE Good
  BY <1>8, <1>10 DEF RefreshWorker, BackoffExpires, Dequeue, Begin, ProcessReturns, Finish,
                     Check, ScheduleAfter
<1>11. SourceDelivers \/ UNCHANGED vars => Good
  BY <1>8 DEF SourceDelivers, vars
<1>12. CASE Restart
  BY <1>0, <1>12 DEF Restart, IdleEvt
<1> QED
  BY <1>1, <1>2, <1>3, <1>4, <1>5, <1>6, <1>7, <1>9, <1>10, <1>11, <1>12
     DEF Next, EventController

\* The task map is never silently out of date with the API server.
THEOREM ChangesAreSeen == Spec => []NoMissedChange
<1>1. Init => ChangeInv
  BY DEF Init, ChangeInv, NoMissedChange, ObservationRepeated, IdleEvt
<1>2. ChangeInv => NoMissedChange
  BY DEF ChangeInv
<1> QED
  BY <1>1, <1>2, TypeCorrect, StepChangeInv, PTL DEF Spec

-----------------------------------------------------------------------------
(* NoLostRefresh rests on TimerHandleOwned: stopping the timer of one task  *)
(* never stops the timer of another.                                        *)

LEMMA StepTimerHandleOwned ==
  TypeOK /\ TimerHandleOwned /\ [Next]_vars => TimerHandleOwned'
<1> SUFFICES ASSUME TypeOK, TimerHandleOwned, [Next]_vars, NEW j \in Keys, NEW u \in TimerIds,
                    taskTimer'[j] = u
             PROVE  timer'[u].st \in {"armed", "fired"} /\ timer'[u].key = j /\ timer'[u].id = taskId'[j]
  BY DEF TimerHandleOwned
<1> DEFINE Good == timer'[u].st \in {"armed", "fired"} /\ timer'[u].key = j /\ timer'[u].id = taskId'[j]
<1>0. /\ timer \in [TimerIds -> TimerRec] /\ taskTimer \in [Keys -> TimerIds \cup {None}]
      /\ taskId \in [Keys -> Ids \cup {None}] /\ None \notin TimerIds
  BY ConstantsAssumption DEF TypeOK
<1>1. ASSUME UNCHANGED <<timer, taskTimer, taskId>> PROVE Good
  BY <1>1 DEF TimerHandleOwned
<1>2. ASSUME NEW k \in Keys, User(k) \/ DeliverWatch(k) \/ EvtGet(k) \/ EvtDeleteGrant(k)
                              \/ EvtStatus(k) \/ EvtTrigger(k) \/ EvtEmit(k) \/ BackoffExpires(k)
                              \/ Dequeue(k) \/ Begin(k) \/ Finish(k) \/ Check(k)
      PROVE  Good
  BY <1>1, <1>2 DEF User, UserCreate, UserUpdate, UserDelete, DeliverWatch, EvtGet, EvtDeleteGrant,
              EvtStatus, EvtTrigger, EvtEmit, BackoffExpires, Dequeue, Begin, Finish, Check
<1>3. ASSUME NEW k \in Keys, NEW res \in {"ok", "err"}, ProcessReturns(k, res) PROVE Good
  BY <1>1, <1>3 DEF ProcessReturns
<1>4. SourceDelivers \/ UNCHANGED vars => Good
  BY <1>1 DEF SourceDelivers, vars
<1>5. ASSUME NEW k \in Keys, EvtUpsert(k) PROVE Good
  <2>1. CASE taskId[k] = evt[k].seen
    BY <1>1, <1>5, <2>1 DEF EvtUpsert, Upsert
  <2>2. CASE taskId[k] # evt[k].seen
    BY <1>0, <1>5, <2>2 DEF TimerHandleOwned, EvtUpsert, Upsert, StopTimer
  <2> QED BY <2>1, <2>2
<1>6. ASSUME NEW k \in Keys, EvtRemove(k) PROVE Good
  BY <1>0, <1>6 DEF TimerHandleOwned, EvtRemove, Remove, StopTimer
<1>7. ASSUME NEW t \in TimerIds, TimerFires(t) PROVE Good
  BY <1>0, <1>7 DEF TimerHandleOwned, TimerFires, TimerRec
<1>8. ASSUME NEW t \in TimerIds, TimerCallback(t) PROVE Good
  <2>1. timer[t].key \in Keys
    BY <1>8 DEF TypeOK, TimerCallback
  <2>2. u # t /\ taskTimer[j] = u
    BY <1>0, <1>8, <2>1 DEF TimerHandleOwned, TimerCallback, TimerStillCurrent
  <2> QED
    BY <1>0, <1>8, <2>1, <2>2 DEF TimerHandleOwned, TimerCallback
<1>9. ASSUME NEW t \in TimerIds, TimerEmit(t) PROVE Good
  BY <1>0, <1>9 DEF TimerHandleOwned, TimerEmit
<1>10. ASSUME NEW k \in Keys, ScheduleAfter(k) PROVE Good
  <2>1. CASE taskId[k] # exec[k].id
    BY <1>1, <1>10, <2>1 DEF ScheduleAfter
  <2>2. CASE taskId[k] = exec[k].id
    <3>1. PICK t \in TimerIds :
            /\ StopTimer(k)[t].st = "free"
            /\ timer' = [StopTimer(k) EXCEPT ![t] = [st |-> "armed", key |-> k, id |-> exec[k].id]]
            /\ taskTimer' = [taskTimer EXCEPT ![k] = t]
      BY <1>10, <2>2 DEF ScheduleAfter, NewTimer
    <3>2. StopTimer(k) \in [TimerIds -> TimerRec]
      BY StopTimerType
    <3>3. taskId' = taskId
      BY <1>10 DEF ScheduleAfter
    <3>4. CASE j = k
      BY <1>0, <2>2, <3>1, <3>2, <3>3, <3>4
    <3>5. CASE j # k
      <4>1. taskTimer[j] = u /\ taskTimer[k] # u
        BY <1>0, <3>1, <3>5 DEF TimerHandleOwned
      <4>2. StopTimer(k)[u] = timer[u]
        BY <1>0, <4>1 DEF StopTimer
      <4> QED
        BY <1>0, <3>1, <3>2, <3>3, <4>1, <4>2 DEF TimerHandleOwned
    <3> QED BY <3>4, <3>5
  <2> QED BY <2>1, <2>2
<1>11. CASE Restart
  BY <1>0, <1>11 DEF Restart
<1> QED
  BY <1>2, <1>3, <1>4, <1>5, <1>6, <1>7, <1>8, <1>9, <1>10, <1>11
     DEF Next, EventController, RefreshWorker, TimerStep

LEMMA EmitIsPending ==
  ASSUME TypeOK, NEW k \in Keys, Emit(k)
  PROVE  EventPending(k)' /\ \A j \in Keys : EventPending(j) => EventPending(j)'
<1>1. /\ events \in Seq(Keys) /\ events' = Append(events, k) /\ Len(events') = Len(events) + 1
      /\ events'[Len(events) + 1] = k
      /\ \A i \in 1..Len(events) : events'[i] = events[i]
  BY DEF TypeOK, Emit
<1>2. EventPending(k)'
  BY <1>1 DEF EventPending
<1>3. ASSUME NEW j \in Keys, EventPending(j) PROVE EventPending(j)'
  <2>1. PICK i \in 1..Len(events) : events[i] = j
    BY <1>3 DEF EventPending
  <2>2. i \in 1..Len(events') /\ events'[i] = j
    BY <1>1, <2>1
  <2> QED
    BY <2>2 DEF EventPending
<1> QED
  BY <1>2, <1>3

LEMMA DeliveryKeepsPending ==
  ASSUME TypeOK, SourceDelivers, NEW j \in Keys, EventPending(j)
  PROVE  EventPending(j)' \/ j \in dirty'
<1>1. /\ events \in Seq(Keys) /\ events # <<>> /\ events' = Tail(events)
      /\ Head(events) \in dirty'
  BY DEF TypeOK, SourceDelivers
<1>2. PICK i \in 1..Len(events) : events[i] = j
  BY DEF EventPending
<1>3. CASE i = 1
  BY <1>1, <1>2, <1>3
<1>4. CASE i # 1
  <2>1. i - 1 \in 1..Len(Tail(events)) /\ Tail(events)[i - 1] = j
    BY <1>1, <1>2, <1>4
  <2> QED
    BY <1>1, <2>1 DEF EventPending
<1> QED
  BY <1>3, <1>4

\* The timer of another task survives StopTimer and NewTimer.
LEMMA OtherTimersKept ==
  ASSUME TypeOK, TimerHandleOwned, NEW k \in Keys, NEW u \in TimerIds, timer[u].key # k
  PROVE  StopTimer(k)[u] = timer[u]
BY ConstantsAssumption DEF TypeOK, TimerHandleOwned, StopTimer

LEMMA StepNoLostRefresh ==
  TypeOK /\ TimerHandleOwned /\ NoLostRefresh /\ [Next]_vars => NoLostRefresh'
<1> SUFFICES ASSUME TypeOK, TimerHandleOwned, NoLostRefresh, [Next]_vars, NEW j \in Keys,
                    taskId'[j] # None
             PROVE  RefreshUnderWay(j)'
  BY DEF NoLostRefresh
<1>0. /\ timer \in [TimerIds -> TimerRec] /\ taskTimer \in [Keys -> TimerIds \cup {None}]
      /\ taskId \in [Keys -> Ids \cup {None}] /\ evt \in [Keys -> EvtRec]
      /\ exec \in [Keys -> ExecRec]
  BY DEF TypeOK
<1>a. taskId[j] # None => RefreshUnderWay(j)
  BY DEF NoLostRefresh
<1>b. UNCHANGED <<timer, taskId>> /\ TimerWillRefresh(j) => TimerWillRefresh(j)'
  BY DEF TimerWillRefresh
<1>c. UNCHANGED <<exec, taskId>> /\ ExecWillRefresh(j) => ExecWillRefresh(j)'
  BY DEF ExecWillRefresh
<1>d. UNCHANGED events /\ EventPending(j) => EventPending(j)'
  BY DEF EventPending
<1>e. UNCHANGED <<evt, evtDirty, evtRetry>> /\ EvtWillTrigger(j) => EvtWillTrigger(j)'
  BY DEF EvtWillTrigger
<1>1. ASSUME NEW k \in Keys, User(k) PROVE RefreshUnderWay(j)'
  BY <1>1, <1>a, <1>b, <1>c, <1>d, <1>e
     DEF User, UserCreate, UserUpdate, UserDelete, Notify, RefreshUnderWay
<1>2. ASSUME NEW k \in Keys, DeliverWatch(k) PROVE RefreshUnderWay(j)'
  <2>1. EvtWillTrigger(j) => EvtWillTrigger(j)'
    BY <1>2 DEF DeliverWatch, EvtWillTrigger
  <2> QED
    BY <1>2, <1>a, <1>b, <1>c, <1>d, <2>1 DEF DeliverWatch, RefreshUnderWay
<1>3. ASSUME NEW k \in Keys, EvtGet(k) PROVE RefreshUnderWay(j)'
  <2>1. EvtWillTrigger(j) => EvtWillTrigger(j)'
    BY <1>0, <1>3 DEF EvtGet, EvtFails, RetryEvent, EvtWillTrigger
  <2> QED
    BY <1>3, <1>a, <1>b, <1>c, <1>d, <2>1 DEF EvtGet, RefreshUnderWay
<1>4. ASSUME NEW k \in Keys, EvtUpsert(k) PROVE RefreshUnderWay(j)'
  <2>1. CASE j = k
    BY <1>0, <1>4, <2>1 DEF EvtUpsert, EvtWillTrigger, RefreshUnderWay
  <2>2. CASE j # k
    <3>1. EvtWillTrigger(j) => EvtWillTrigger(j)'
      BY <1>0, <1>4, <2>2 DEF EvtUpsert, EvtWillTrigger
    <3>2. taskId'[j] = taskId[j] /\ exec'[j] = exec[j]
      BY <1>0, <1>4, <2>2 DEF EvtUpsert, Upsert, CancelExec
    <3>3. \A u \in TimerIds : timer[u].key = j => timer'[u] = timer[u]
      BY <1>4, <2>2, OtherTimersKept DEF EvtUpsert, Upsert
    <3>4. TimerWillRefresh(j) => TimerWillRefresh(j)'
      BY <3>2, <3>3 DEF TimerWillRefresh
    <3>5. ExecWillRefresh(j) => ExecWillRefresh(j)'
      BY <3>2 DEF ExecWillRefresh
    <3> QED
      BY <1>4, <1>a, <1>d, <3>1, <3>2, <3>4, <3>5 DEF EvtUpsert, RefreshUnderWay
  <2> QED
    BY <2>1, <2>2
<1>5. ASSUME NEW k \in Keys, EvtRemove(k) PROVE RefreshUnderWay(j)'
  <2>1. j # k
    BY <1>0, <1>5 DEF EvtRemove, Remove
  <2>2. EvtWillTrigger(j) => EvtWillTrigger(j)'
    BY <1>0, <1>5, <2>1 DEF EvtRemove, EvtWillTrigger
  <2>3. taskId'[j] = taskId[j] /\ exec'[j] = exec[j]
    BY <1>0, <1>5, <2>1 DEF EvtRemove, Remove, CancelExec
  <2>4. \A u \in TimerIds : timer[u].key = j => timer'[u] = timer[u]
    BY <1>5, <2>1, OtherTimersKept DEF EvtRemove, Remove
  <2>5. TimerWillRefresh(j) => TimerWillRefresh(j)'
    BY <2>3, <2>4 DEF TimerWillRefresh
  <2>6. ExecWillRefresh(j) => ExecWillRefresh(j)'
    BY <2>3 DEF ExecWillRefresh
  <2> QED
    BY <1>5, <1>a, <1>d, <2>2, <2>3, <2>5, <2>6 DEF EvtRemove, RefreshUnderWay
<1>6. ASSUME NEW k \in Keys, EvtDeleteGrant(k) \/ EvtStatus(k) PROVE RefreshUnderWay(j)'
  <2>1. EvtWillTrigger(j) => EvtWillTrigger(j)'
    BY <1>0, <1>6 DEF EvtDeleteGrant, EvtStatus, EvtFails, RetryEvent, IdleEvt, EvtWillTrigger, EvtRec
  <2> QED
    BY <1>6, <1>a, <1>b, <1>c, <1>d, <2>1 DEF EvtDeleteGrant, EvtStatus, RefreshUnderWay
<1>7. ASSUME NEW k \in Keys, EvtTrigger(k) PROVE RefreshUnderWay(j)'
  <2>1. EvtWillTrigger(j) => EvtWillTrigger(j)'
    BY <1>0, <1>7 DEF EvtTrigger, EvtWillTrigger, EvtRec
  <2> QED
    BY <1>7, <1>a, <1>b, <1>c, <1>d, <2>1 DEF EvtTrigger, RefreshUnderWay
<1>8. ASSUME NEW k \in Keys, EvtEmit(k) PROVE RefreshUnderWay(j)'
  <2>1. j # k /\ EvtWillTrigger(j) => EvtWillTrigger(j)'
    BY <1>0, <1>8 DEF EvtEmit, EvtWillTrigger
  <2>2. (j = k \/ EventPending(j)) => EventPending(j)'
    BY <1>8, EmitIsPending DEF EvtEmit
  <2> QED
    BY <1>8, <1>a, <1>b, <1>c, <2>1, <2>2 DEF EvtEmit, RefreshUnderWay
<1>9. ASSUME NEW t \in TimerIds, TimerFires(t) \/ TimerCallback(t) PROVE RefreshUnderWay(j)'
  <2>1. TimerWillRefresh(j) => TimerWillRefresh(j)'
    <3>1. SUFFICES ASSUME NEW u \in TimerIds, timer[u].key = j,
                          \/ timer[u].st = "emit"
                          \/ timer[u].st \in {"armed", "fired"} /\ timer[u].id = taskId[j]
                   PROVE  /\ timer'[u].key = j
                          /\ \/ timer'[u].st = "emit"
                             \/ timer'[u].st \in {"armed", "fired"} /\ timer'[u].id = taskId'[j]
      BY DEF TimerWillRefresh
    <3>2. CASE u # t
      BY <1>0, <1>9, <3>1, <3>2 DEF TimerFires, TimerCallback
    <3>3. CASE u = t
      BY <1>0, <1>9, <3>1, <3>3 DEF TimerFires, TimerCallback, TimerStillCurrent, TimerRec
    <3> QED
      BY <3>2, <3>3
  <2> QED
    BY <1>9, <1>a, <1>c, <1>d, <1>e, <2>1 DEF TimerFires, TimerCallback, RefreshUnderWay
<1>10. ASSUME NEW t \in TimerIds, TimerEmit(t) PROVE RefreshUnderWay(j)'
  <2>1. timer[t].key \in Keys
    BY <1>10 DEF TypeOK, TimerEmit
  <2>2. (timer[t].key = j \/ EventPending(j)) => EventPending(j)'
    BY <1>10, <2>1, EmitIsPending DEF TimerEmit
  <2>3. timer[t].key # j /\ TimerWillRefresh(j) => TimerWillRefresh(j)'
    BY <1>0, <1>10 DEF TimerEmit, TimerWillRefresh
  <2> QED
    BY <1>10, <1>a, <1>c, <1>e, <2>2, <2>3 DEF TimerEmit, RefreshUnderWay
<1>11. CASE SourceDelivers
  BY <1>11, <1>a, <1>b, <1>c, <1>e, DeliveryKeepsPending DEF SourceDelivers, RefreshUnderWay
<1>12. ASSUME NEW k \in Keys, BackoffExpires(k) PROVE RefreshUnderWay(j)'
  BY <1>12, <1>a, <1>b, <1>c, <1>d, <1>e DEF BackoffExpires, RefreshUnderWay
<1>13. ASSUME NEW k \in Keys, Dequeue(k) PROVE RefreshUnderWay(j)'
  <2>1. (j = k \/ ExecWillRefresh(j)) => ExecWillRefresh(j)'
    BY <1>0, <1>13 DEF Dequeue, ExecWillRefresh, IdleExec
  <2> QED
    BY <1>13, <1>a, <1>b, <1>d, <1>e, <2>1 DEF Dequeue, RefreshUnderWay
<1>14. ASSUME NEW k \in Keys, Begin(k) PROVE RefreshUnderWay(j)'
  <2>1. ExecWillRefresh(j) => ExecWillRefresh(j)'
    BY <1>0, <1>14 DEF Begin, ExecWillRefresh
  <2> QED
    BY <1>14, <1>a, <1>b, <1>d, <1>e, <2>1 DEF Begin, RefreshUnderWay
<1>15. ASSUME NEW k \in Keys, NEW res \in {"ok", "err"}, ProcessReturns(k, res)
       PROVE  RefreshUnderWay(j)'
  <2>1. ExecWillRefresh(j) => ExecWillRefresh(j)'
    BY <1>0, <1>15 DEF ProcessReturns, ExecWillRefresh, ExecRec
  <2> QED
    BY <1>15, <1>a, <1>b, <1>d, <1>e, <2>1 DEF ProcessReturns, RefreshUnderWay
<1>16. ASSUME NEW k \in Keys, Finish(k) PROVE RefreshUnderWay(j)'
  <2>1. ExecWillRefresh(j) => ExecWillRefresh(j)'
    BY <1>0, <1>16 DEF Finish, CancelExec, ExecWillRefresh, ExecRec
  <2> QED
    BY <1>16, <1>a, <1>b, <1>d, <1>e, <2>1 DEF Finish, RefreshUnderWay
<1>17. ASSUME NEW k \in Keys, Check(k) PROVE RefreshUnderWay(j)'
  <2>1. ExecWillRefresh(j) => ExecWillRefresh(j)' \/ j \in backoff'
    BY <1>0, <1>17 DEF Check, RequeueOnError, ExecWillRefresh, ExecRec
  <2>2. dirty' = dirty /\ backoff \subseteq backoff'
    BY <1>17 DEF Check, RequeueOnError
  <2> QED
    BY <1>17, <1>a, <1>b, <1>d, <1>e, <2>1, <2>2 DEF Check, RefreshUnderWay
<1>18. ASSUME NEW k \in Keys, ScheduleAfter(k) PROVE RefreshUnderWay(j)'
  <2>0. taskId' = taskId
    BY <1>18 DEF ScheduleAfter
  <2>1. CASE taskId[k] = exec[k].id
    <3>1. PICK t \in TimerIds :
            /\ StopTimer(k)[t].st = "free"
            /\ timer' = [StopTimer(k) EXCEPT ![t] = [st |-> "armed", key |-> k, id |-> exec[k].id]]
      BY <1>18, <2>1 DEF ScheduleAfter, NewTimer
    <3>2. StopTimer(k) \in [TimerIds -> TimerRec]
      BY StopTimerType
    <3>3. CASE j = k
      <4>1. timer'[t] = [st |-> "armed", key |-> j, id |-> taskId'[j]]
        BY <2>0, <2>1, <3>1, <3>2, <3>3
      <4> QED
        BY <4>1 DEF RefreshUnderWay, TimerWillRefresh
    <3>4. CASE j # k
      <4>1. \A u \in TimerIds : timer[u].key = j /\ timer[u].st # "free" => timer'[u] = timer[u]
        BY <3>1, <3>2, <3>4, OtherTimersKept
      <4>2. TimerWillRefresh(j) => TimerWillRefresh(j)'
        BY <2>0, <4>1 DEF TimerWillRefresh
      <4>3. ExecWillRefresh(j) => ExecWillRefresh(j)'
        BY <1>0, <1>18, <2>0, <3>4 DEF ScheduleAfter, ExecWillRefresh
      <4> QED
        BY <1>18, <1>a, <1>d, <1>e, <2>0, <4>2, <4>3 DEF ScheduleAfter, RefreshUnderWay
    <3> QED
      BY <3>3, <3>4
  <2>2. CASE taskId[k] # exec[k].id
    <3>1. ExecWillRefresh(j) => ExecWillRefresh(j)'
      BY <1>0, <1>18, <2>0, <2>2 DEF ScheduleAfter, ExecWillRefresh, IdleExec
    <3> QED
      BY <1>18, <1>a, <1>b, <1>d, <1>e, <2>0, <2>2, <3>1 DEF ScheduleAfter, RefreshUnderWay
  <2> QED
    BY <2>1, <2>2
<1>19. CASE Restart
  BY <1>19 DEF Restart
<1>20. CASE UNCHANGED vars
  BY <1>20, <1>a, <1>b, <1>c, <1>d, <1>e DEF vars, RefreshUnderWay
<1> QED
  BY <1>1, <1>2, <1>3, <1>4, <1>5, <1>6, <1>7, <1>8, <1>9, <1>10, <1>11, <1>12, <1>13,
     <1>14, <1>15, <1>16, <1>17, <1>18, <1>19, <1>20
     DEF Next, EventController, RefreshWorker, TimerStep

\* For every tracked demand the next calculation is always under way.
THEOREM NothingIsForgotten == Spec => []NoLostRefresh
<1>1. Init => TimerHandleOwned /\ NoLostRefresh
  BY ConstantsAssumption DEF Init, TimerHandleOwned, NoLostRefresh
<1> QED
  BY <1>1, TypeCorrect, StepTimerHandleOwned, StepNoLostRefresh, PTL DEF Spec
=============================================================================
