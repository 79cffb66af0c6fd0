-------------------------- MODULE RefreshScheduler --------------------------
(***************************************************************************)
(* The event-driven refresh loop of the Platform Resource Controller       *)
(* (prc/pkg/controller/refresh_scheduler.go and refresh_controller.go).    *)
(*                                                                         *)
(* Three kinds of goroutines share the scheduler's task map under one      *)
(* mutex: the NGD event reconciler (one worker), the refresh workers (at   *)
(* most MaxConcurrent, never two on one key) and the time.AfterFunc        *)
(* callbacks.  A critical section is one step.  What the Processor does    *)
(* between Begin and Finish is one opaque step here; DemandLifecycle       *)
(* refines it.                                                             *)
(*                                                                         *)
(* External, modelled by how the code uses them: the NGD objects of the    *)
(* API server, their watch, and the two controller-runtime work queues.    *)
(* NGD reads are live: the manager's client does not cache unstructured    *)
(* objects.                                                                *)
(***************************************************************************)
EXTENDS Naturals, Sequences, FiniteSets

CONSTANTS
  Keys,           \* names of NodeGroupDemands
  None,           \* nil: no object, no task, no timer
  MaxUid,         \* bound: creations of an NGD under one name
  MaxGen,         \* bound: generations of one NGD
  NumTimers,      \* bound: time.Timer objects alive at once
  BufferSize,     \* capacity of RefreshScheduler.events
  MaxConcurrent,  \* MaxConcurrentReconciles of the refresh controller
  MaxFaults,      \* bound: failing API calls of the event reconciler
  MaxRestarts     \* bound: process restarts and leader changes

Ids == (1..MaxUid) \X (1..MaxGen)     \* <<UID, generation>>
TimerIds == 1..NumTimers

ASSUME ConstantsAssumption ==
  /\ None \notin Ids
  /\ None \notin TimerIds
  /\ None \notin Keys
  /\ {MaxUid, MaxGen, NumTimers, BufferSize, MaxConcurrent} \subseteq Nat \ {0}
  /\ {MaxFaults, MaxRestarts} \subseteq Nat

VARIABLES
  ngd,         \* API server: identity of each NGD, None when absent
  uids,        \* API server: UIDs handed out under each name
  watch,       \* notifications under way to the event controller
  evtDirty,    \* work queue of the event controller
  evtRetry,    \* rate-limited retries of the event controller
  evt,         \* the event reconcile of each key
  taskId,      \* tasks[k].uid and .generation, None when k is not in the map
  taskTimer,   \* tasks[k].timer
  taskCancel,  \* keys whose tasks[k].cancel is set (to cancel the execution)
  timer,       \* the time.Timer objects
  events,      \* the GenericEvent channel
  dirty,       \* work queue of the refresh controller
  backoff,     \* rate-limited retries of the refresh controller
  exec,        \* the refresh execution of each key
  faults, restarts

api   == <<ngd, uids>>
queue == <<watch, evtDirty, evtRetry>>
task  == <<taskId, taskTimer, taskCancel>>
work  == <<dirty, backoff, exec>>
bound == <<faults, restarts>>
vars  == <<api, queue, evt, task, timer, events, work, bound>>

EvtPcs  == {"idle", "observed", "status", "trigger", "emit", "deleteGrant"}
ExecPcs == {"idle", "begin", "process", "finish", "check", "schedule"}

EvtRec   == [pc : EvtPcs, seen : Ids \cup {None}]
TimerRec == [st : {"free", "armed", "fired", "emit"}, key : Keys \cup {None},
             id : Ids \cup {None}]
ExecRec  == [pc : ExecPcs, id : Ids \cup {None}, ctx : {"live", "done"}, res : {"ok", "err"}]

TypeOK ==
  /\ ngd \in [Keys -> Ids \cup {None}]
  /\ uids \in [Keys -> 0..MaxUid]
  /\ watch \in SUBSET Keys /\ evtDirty \in SUBSET Keys /\ evtRetry \in SUBSET Keys
  /\ evt \in [Keys -> EvtRec]
  /\ taskId \in [Keys -> Ids \cup {None}]
  /\ taskTimer \in [Keys -> TimerIds \cup {None}]
  /\ taskCancel \in SUBSET Keys
  /\ timer \in [TimerIds -> TimerRec]
  /\ \A t \in TimerIds : timer[t].st # "free" => timer[t].key \in Keys
  /\ events \in Seq(Keys) /\ Len(events) <= BufferSize
  /\ dirty \in SUBSET Keys /\ backoff \in SUBSET Keys
  /\ exec \in [Keys -> ExecRec]
  /\ faults \in 0..MaxFaults /\ restarts \in 0..MaxRestarts

IdleEvt   == [pc |-> "idle", seen |-> None]
IdleExec  == [pc |-> "idle", id |-> None, ctx |-> "done", res |-> "ok"]
FreeTimer == [st |-> "free", key |-> None, id |-> None]

Init ==
  /\ ngd = [k \in Keys |-> None]
  /\ uids = [k \in Keys |-> 0]
  /\ watch = {} /\ evtDirty = {} /\ evtRetry = {}
  /\ evt = [k \in Keys |-> IdleEvt]
  /\ taskId = [k \in Keys |-> None]
  /\ taskTimer = [k \in Keys |-> None]
  /\ taskCancel = {}
  /\ timer = [t \in TimerIds |-> FreeTimer]
  /\ events = <<>>
  /\ dirty = {} /\ backoff = {}
  /\ exec = [k \in Keys |-> IdleExec]
  /\ faults = 0 /\ restarts = 0

-----------------------------------------------------------------------------
(* The user and the API server.  GenerationChangedPredicate passes exactly *)
(* creations, spec updates and deletions on to the event controller.       *)

Notify(k) == watch' = watch \cup {k} /\ UNCHANGED <<evtDirty, evtRetry>>

UserCreate(k) ==
  /\ ngd[k] = None /\ uids[k] < MaxUid
  /\ uids' = [uids EXCEPT ![k] = @ + 1]
  /\ ngd' = [ngd EXCEPT ![k] = <<uids[k] + 1, 1>>]
  /\ Notify(k)
  /\ UNCHANGED <<evt, task, timer, events, work, bound>>

UserUpdate(k) ==
  /\ ngd[k] # None /\ ngd[k][2] < MaxGen
  /\ ngd' = [ngd EXCEPT ![k] = <<ngd[k][1], ngd[k][2] + 1>>]
  /\ Notify(k)
  /\ UNCHANGED <<uids, evt, task, timer, events, work, bound>>

UserDelete(k) ==
  /\ ngd[k] # None
  /\ ngd' = [ngd EXCEPT ![k] = None]
  /\ Notify(k)
  /\ UNCHANGED <<uids, evt, task, timer, events, work, bound>>

\* The notification, or a retry whose back-off has passed, is enqueued.
DeliverWatch(k) ==
  /\ \/ k \in watch /\ watch' = watch \ {k} /\ UNCHANGED evtRetry
     \/ k \in evtRetry /\ evtRetry' = evtRetry \ {k} /\ UNCHANGED watch
  /\ evtDirty' = evtDirty \cup {k}
  /\ UNCHANGED <<api, evt, task, timer, events, work, bound>>

-----------------------------------------------------------------------------
(* Critical sections of RefreshScheduler, as updates of the task map.      *)

\* timer.Stop(): an armed timer never runs; a fired callback is past stopping.
StopTimer(k) ==
  IF taskTimer[k] # None /\ timer[taskTimer[k]].st = "armed"
  THEN [timer EXCEPT ![taskTimer[k]] = FreeTimer]
  ELSE timer

\* Mutant of CancelExec: the cancel function is dropped without being called.
CancelExec_Dropped(k) == exec

\* task.cancel(): the context of the execution in progress is done.
CancelExec(k) ==
  IF k \in taskCancel THEN [exec EXCEPT ![k].ctx = "done"] ELSE exec

\* Mutant of Upsert: the UID is not compared, only the generation.
Upsert_GenerationOnly(k, id) ==
  IF taskId[k] # None /\ taskId[k][2] = id[2]
  THEN UNCHANGED <<task, timer, exec>>
  ELSE /\ taskId' = [taskId EXCEPT ![k] = id]
       /\ timer' = StopTimer(k)
       /\ taskTimer' = [taskTimer EXCEPT ![k] = None]
       /\ exec' = CancelExec(k)
       /\ taskCancel' = taskCancel \ {k}

\* Upsert stops the timer and the execution of the identity it replaces.
Upsert(k, id) ==
  IF taskId[k] = id
  THEN UNCHANGED <<task, timer, exec>>
  ELSE /\ taskId' = [taskId EXCEPT ![k] = id]
       /\ timer' = StopTimer(k)
       /\ taskTimer' = [taskTimer EXCEPT ![k] = None]
       /\ exec' = CancelExec(k)
       /\ taskCancel' = taskCancel \ {k}

\* Mutant of Remove: timer and execution are cancelled, the task stays.
Remove_TaskKept(k) ==
  /\ timer' = StopTimer(k)
  /\ taskTimer' = [taskTimer EXCEPT ![k] = None]
  /\ exec' = CancelExec(k)
  /\ taskCancel' = taskCancel \ {k}
  /\ UNCHANGED taskId

Remove(k) ==
  /\ taskId' = [taskId EXCEPT ![k] = None]
  /\ timer' = StopTimer(k)
  /\ taskTimer' = [taskTimer EXCEPT ![k] = None]
  /\ exec' = CancelExec(k)
  /\ taskCancel' = taskCancel \ {k}

\* Mutant of Emit: a send that ignores the capacity.
Emit_Unbounded(k) == events' = Append(events, k)

\* emit: the send waits for room in the channel.
Emit(k) ==
  /\ Len(events) < BufferSize
  /\ events' = Append(events, k)

-----------------------------------------------------------------------------
(* NodeGroupDemandReconciler.Reconcile; the event controller keeps the     *)
(* default of one worker.                                                  *)

\* Mutant of EvtFails: the error is logged and swallowed.
EvtFails_Swallowed(k) ==
  /\ faults < MaxFaults
  /\ faults' = faults + 1
  /\ evt' = [evt EXCEPT ![k] = IdleEvt]
  /\ UNCHANGED evtRetry

\* Reconcile returns an error: the work queue retries the key later.
RetryEvent(k) ==
  /\ evtRetry' = evtRetry \cup {k}
  /\ evt' = [evt EXCEPT ![k] = IdleEvt]

\* An API call of the reconciler fails.
EvtFails(k) ==
  /\ faults < MaxFaults
  /\ faults' = faults + 1
  /\ RetryEvent(k)

\* The worker takes the key and reads the NGD.
EvtGet(k) ==
  /\ k \in evtDirty
  /\ \A j \in Keys : evt[j].pc = "idle"
  /\ evtDirty' = evtDirty \ {k}
  /\ \/ /\ evt' = [evt EXCEPT ![k] = [pc |-> "observed", seen |-> ngd[k]]]
        /\ UNCHANGED <<evtRetry, bound>>
     \/ EvtFails(k) /\ UNCHANGED restarts
  /\ UNCHANGED <<api, watch, task, timer, events, work>>

\* A new demand without a phase is marked Pending, a changed one Updating.
EvtUpsert(k) ==
  /\ evt[k].pc = "observed" /\ evt[k].seen # None
  /\ Upsert(k, evt[k].seen)
  /\ \E next \in IF taskId[k] = evt[k].seen THEN {"trigger"}
                 ELSE IF taskId[k] = None   THEN {"status", "trigger"}
                 ELSE {"status"} :
       evt' = [evt EXCEPT ![k] = [pc |-> next, seen |-> None]]
  /\ UNCHANGED <<api, queue, events, dirty, backoff, bound>>

EvtRemove(k) ==
  /\ evt[k].pc = "observed" /\ evt[k].seen = None
  /\ Remove(k)
  /\ evt' = [evt EXCEPT ![k] = [pc |-> "deleteGrant", seen |-> None]]
  /\ UNCHANGED <<api, queue, events, dirty, backoff, bound>>

EvtDeleteGrant(k) ==
  /\ evt[k].pc = "deleteGrant"
  /\ \/ evt' = [evt EXCEPT ![k] = IdleEvt] /\ UNCHANGED <<evtRetry, bound>>
     \/ EvtFails(k) /\ UNCHANGED restarts
  /\ UNCHANGED <<api, watch, evtDirty, task, timer, events, work>>

\* The status of an NGD that is gone by now cannot be written: NotFound.
EvtStatus(k) ==
  /\ evt[k].pc = "status"
  /\ \/ /\ ngd[k] # None
        /\ evt' = [evt EXCEPT ![k].pc = "trigger"]
        /\ UNCHANGED <<evtRetry, bound>>
     \/ /\ ngd[k] = None
        /\ RetryEvent(k)
        /\ UNCHANGED bound
     \/ EvtFails(k) /\ UNCHANGED restarts
  /\ UNCHANGED <<api, watch, evtDirty, task, timer, events, work>>

\* Trigger emits only for a key that is still in the map.
EvtTrigger(k) ==
  /\ evt[k].pc = "trigger"
  /\ evt' = [evt EXCEPT ![k].pc = IF taskId[k] = None THEN "idle" ELSE "emit"]
  /\ UNCHANGED <<api, queue, task, timer, events, work, bound>>

EvtEmit(k) ==
  /\ evt[k].pc = "emit"
  /\ Emit(k)
  /\ evt' = [evt EXCEPT ![k] = IdleEvt]
  /\ UNCHANGED <<api, queue, task, timer, work, bound>>

-----------------------------------------------------------------------------
(* The callback of ScheduleAfter.                                          *)

TimerFires(t) ==
  /\ timer[t].st = "armed"
  /\ timer' = [timer EXCEPT ![t].st = "fired"]
  /\ UNCHANGED <<api, queue, evt, task, events, work, bound>>

TimerStillCurrent(t) == taskId[timer[t].key] = timer[t].id

\* Under the mutex: a stale callback returns, a current one drops the handle.
TimerCallback(t) ==
  /\ timer[t].st = "fired"
  /\ IF TimerStillCurrent(t)
     THEN /\ taskTimer' = [taskTimer EXCEPT ![timer[t].key] = None]
          /\ timer' = [timer EXCEPT ![t].st = "emit"]
     ELSE /\ timer' = [timer EXCEPT ![t] = FreeTimer]
          /\ UNCHANGED taskTimer
  /\ UNCHANGED <<api, queue, evt, taskId, taskCancel, events, work, bound>>

TimerEmit(t) ==
  /\ timer[t].st = "emit"
  /\ Emit(timer[t].key)
  /\ timer' = [timer EXCEPT ![t] = FreeTimer]
  /\ UNCHANGED <<api, queue, evt, task, work, bound>>

-----------------------------------------------------------------------------
(* The refresh controller: channel source, work queue and workers.         *)

SourceDelivers ==
  /\ events # <<>>
  /\ events' = Tail(events)
  /\ dirty' = dirty \cup {Head(events)}
  /\ UNCHANGED <<api, queue, evt, task, timer, backoff, exec, bound>>

BackoffExpires(k) ==
  /\ k \in backoff
  /\ backoff' = backoff \ {k}
  /\ dirty' = dirty \cup {k}
  /\ UNCHANGED <<api, queue, evt, task, timer, events, exec, bound>>

\* The queue hands out a dirty key that no worker is processing.
Dequeue(k) ==
  /\ k \in dirty /\ exec[k].pc = "idle"
  /\ Cardinality({j \in Keys : exec[j].pc # "idle"}) < MaxConcurrent
  /\ dirty' = dirty \ {k}
  /\ exec' = [exec EXCEPT ![k] = [IdleExec EXCEPT !.pc = "begin"]]
  /\ UNCHANGED <<api, queue, evt, task, timer, events, backoff, bound>>

Begin(k) ==
  /\ exec[k].pc = "begin"
  /\ IF taskId[k] = None
     THEN exec' = [exec EXCEPT ![k] = IdleExec] /\ UNCHANGED taskCancel
     ELSE /\ exec' = [exec EXCEPT ![k] = [pc |-> "process", id |-> taskId[k],
                                          ctx |-> "live", res |-> "ok"]]
          /\ taskCancel' = taskCancel \cup {k}
  /\ UNCHANGED <<api, queue, evt, taskId, taskTimer, timer, events, dirty, backoff, bound>>

\* Processor.Process returns; what it does before is DemandLifecycle's.
ProcessReturns(k, res) ==
  /\ exec[k].pc = "process"
  /\ exec' = [exec EXCEPT ![k].pc = "finish", ![k].res = res]
  /\ UNCHANGED <<api, queue, evt, task, timer, events, dirty, backoff, bound>>

Finish(k) ==
  /\ exec[k].pc = "finish"
  /\ IF taskId[k] = exec[k].id
     THEN /\ exec' = [CancelExec(k) EXCEPT ![k].pc = "check"]
          /\ taskCancel' = taskCancel \ {k}
     ELSE /\ exec' = [exec EXCEPT ![k].pc = "check"]
          /\ UNCHANGED taskCancel
  /\ UNCHANGED <<api, queue, evt, taskId, taskTimer, timer, events, dirty, backoff, bound>>

\* AddRateLimited, when Reconcile returns an error; and its mutant, where the
\* error is swallowed.
RequeueOnError_Swallowed(k) == UNCHANGED backoff
RequeueOnError(k) == backoff' = backoff \cup {k}

\* IsCurrent, and the error path's rate-limited requeue.
Check(k) ==
  /\ exec[k].pc = "check"
  /\ \/ /\ taskId[k] # exec[k].id
        /\ exec' = [exec EXCEPT ![k] = IdleExec]
        /\ UNCHANGED backoff
     \/ /\ taskId[k] = exec[k].id /\ exec[k].res = "err"
        /\ exec' = [exec EXCEPT ![k] = IdleExec]
        /\ RequeueOnError(k)
     \/ /\ taskId[k] = exec[k].id /\ exec[k].res = "ok"
        /\ exec' = [exec EXCEPT ![k].pc = "schedule"]
        /\ UNCHANGED backoff
  /\ UNCHANGED <<api, queue, evt, task, timer, events, dirty, bound>>

\* time.AfterFunc makes a timer; the lowest free one stands for the new object.
NewTimer(k, pool) ==
  \E t \in TimerIds :
    /\ pool[t].st = "free" /\ \A u \in TimerIds : pool[u].st = "free" => t <= u
    /\ timer' = [pool EXCEPT ![t] = [st |-> "armed", key |-> k, id |-> exec[k].id]]
    /\ taskTimer' = [taskTimer EXCEPT ![k] = t]

ScheduleAfter(k) ==
  /\ exec[k].pc = "schedule"
  /\ IF taskId[k] = exec[k].id
     THEN NewTimer(k, StopTimer(k))
     ELSE UNCHANGED <<timer, taskTimer>>
  /\ exec' = [exec EXCEPT ![k] = IdleExec]
  /\ UNCHANGED <<api, queue, evt, taskId, taskCancel, events, dirty, backoff, bound>>

-----------------------------------------------------------------------------
(* The process stops, or loses the leader lease, and a replica starts with *)
(* empty memory; its informer lists the NGDs that exist.                   *)
Restart ==
  /\ restarts < MaxRestarts
  /\ restarts' = restarts + 1
  /\ watch' = {k \in Keys : ngd[k] # None} /\ evtDirty' = {} /\ evtRetry' = {}
  /\ evt' = [k \in Keys |-> IdleEvt]
  /\ taskId' = [k \in Keys |-> None]
  /\ taskTimer' = [k \in Keys |-> None]
  /\ taskCancel' = {}
  /\ timer' = [t \in TimerIds |-> FreeTimer]
  /\ events' = <<>>
  /\ dirty' = {} /\ backoff' = {}
  /\ exec' = [k \in Keys |-> IdleExec]
  /\ UNCHANGED <<api, faults>>

EventController(k) ==
  \/ DeliverWatch(k)
  \/ EvtGet(k) \/ EvtUpsert(k) \/ EvtRemove(k) \/ EvtDeleteGrant(k)
  \/ EvtStatus(k) \/ EvtTrigger(k) \/ EvtEmit(k)

RefreshWorker(k) ==
  \/ BackoffExpires(k) \/ Dequeue(k) \/ Begin(k)
  \/ \E res \in {"ok", "err"} : ProcessReturns(k, res)
  \/ Finish(k) \/ Check(k) \/ ScheduleAfter(k)

TimerStep(t) == TimerFires(t) \/ TimerCallback(t) \/ TimerEmit(t)

User(k) == UserCreate(k) \/ UserUpdate(k) \/ UserDelete(k)

Next ==
  \/ \E k \in Keys : User(k) \/ EventController(k) \/ RefreshWorker(k)
  \/ \E t \in TimerIds : TimerStep(t)
  \/ SourceDelivers
  \/ Restart

Spec == Init /\ [][Next]_vars

(***************************************************************************)
(* Fairness.  Every goroutine, informer, timer and back-off makes progress *)
(* and a Process call returns (its HTTP and API calls time out).  Waiting  *)
(* in a FIFO work queue, or blocked on a channel send, is strongly fair.   *)
(* Nothing is assumed of users, faults or restarts.                        *)
(***************************************************************************)
Fairness ==
  /\ \A k \in Keys :
       /\ WF_vars(DeliverWatch(k)) /\ SF_vars(EvtGet(k))
       /\ WF_vars(EvtUpsert(k) \/ EvtRemove(k) \/ EvtDeleteGrant(k)
                  \/ EvtStatus(k) \/ EvtTrigger(k))
       /\ SF_vars(EvtEmit(k))
       /\ WF_vars(BackoffExpires(k)) /\ SF_vars(Dequeue(k))
       /\ WF_vars(Begin(k) \/ (\E res \in {"ok", "err"} : ProcessReturns(k, res))
                  \/ Finish(k) \/ Check(k) \/ ScheduleAfter(k))
  /\ \A t \in TimerIds : WF_vars(TimerFires(t) \/ TimerCallback(t)) /\ SF_vars(TimerEmit(t))
  /\ WF_vars(SourceDelivers)

FairSpec == Spec /\ Fairness

-----------------------------------------------------------------------------
(* Properties.                                                             *)

TimerWillRefresh(k) ==
  \E t \in TimerIds :
    /\ timer[t].key = k
    /\ timer[t].st = "emit" \/ (timer[t].st \in {"armed", "fired"} /\ timer[t].id = taskId[k])

ExecWillRefresh(k) ==
  \/ exec[k].pc = "begin"
  \/ exec[k].pc # "idle" /\ exec[k].id = taskId[k]

EventPending(k) == \E i \in 1..Len(events) : events[i] = k

EvtWillTrigger(k) ==
  \/ evt[k].pc \in {"observed", "status", "trigger", "emit"}
  \/ k \in evtDirty \cup evtRetry

RefreshUnderWay(k) ==
  \/ TimerWillRefresh(k) \/ EventPending(k)
  \/ k \in dirty \cup backoff
  \/ ExecWillRefresh(k) \/ EvtWillTrigger(k)

\* A tracked demand is never forgotten by the periodic refresh: whatever the
\* interleaving of Upsert, Trigger, ScheduleAfter, the timer callbacks and the
\* error paths, something that leads to its next calculation is under way.
NoLostRefresh == \A k \in Keys : taskId[k] # None => RefreshUnderWay(k)

\* An execution whose identity was replaced by Upsert or dropped by Remove runs
\* under a cancelled context: Begin's cancel function is never lost to it.
StaleExecutionCancelled ==
  \A k \in Keys :
    exec[k].pc = "process" /\ taskId[k] # exec[k].id => exec[k].ctx = "done"

\* Whenever the task map disagrees with the API server about an NGD, an event
\* that will make it agree is still under way, failed API calls included.
NoMissedChange ==
  \A k \in Keys : taskId[k] # ngd[k] =>
    \/ k \in watch \cup evtDirty \cup evtRetry
    \/ evt[k].pc = "observed" /\ evt[k].seen = ngd[k]

\* Strengthenings for the proofs: the map holds the cancel function of every
\* execution with a live context, a task's timer handle is its own, and an
\* observation that is out of date will be made again.
ExecutionAttached ==
  \A k \in Keys : exec[k].pc = "process" /\ exec[k].ctx = "live" =>
    taskId[k] = exec[k].id /\ k \in taskCancel
TimerHandleOwned ==
  \A k \in Keys, t \in TimerIds : taskTimer[k] = t =>
    timer[t].st \in {"armed", "fired"} /\ timer[t].key = k /\ timer[t].id = taskId[k]
ObservationRepeated ==
  \A k \in Keys : evt[k].pc = "observed" /\ evt[k].seen # ngd[k] =>
    k \in watch \cup evtDirty \cup evtRetry

\* An NGD that exists is calculated again and again under its latest identity.
CurrentDemandRefreshed ==
  \A k \in Keys :
    []<>(ngd[k] = None \/ (exec[k].pc = "process" /\ exec[k].ctx = "live" /\ exec[k].id = ngd[k]))

\* A deleted NGD is dropped from the map, its timers run out and its key is no
\* longer executed.
DeletedDemandQuiesces ==
  \A k \in Keys :
    <>[](ngd[k] = None) =>
      <>[](/\ taskId[k] = None /\ exec[k].pc = "idle"
           /\ \A t \in TimerIds : timer[t].key # k)

\* "Remove cancels both the next timer and a currently executing request": no
\* timer of a removed demand is still running.
RemoveCancelsNextTimer ==
  \A k \in Keys : taskId[k] = None =>
    \A t \in TimerIds : timer[t].key = k => timer[t].st # "armed"
=============================================================================
