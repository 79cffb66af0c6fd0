--------------------------- MODULE DemandLifecycle ---------------------------
(***************************************************************************)
(* What the PRC publishes for a demand: the requests of                    *)
(* DemandProcessor.Process (prc/pkg/controller/prc_controller.go) and of   *)
(* the NGD event reconciler, and the NodeGroupGrant and the NGD status     *)
(* they write.  RefreshScheduler's opaque steps are refined: an execution  *)
(* sends one request after the other, each may be answered, fail, or fail  *)
(* for its sender and still take effect later; its context may be          *)
(* cancelled at any point.                                                 *)
(*                                                                         *)
(* External, modelled by how the code uses them: server-side apply by name *)
(* without UID or resourceVersion, and the garbage collector that follows  *)
(* the grant's OwnerReference.  status.consumer is another field manager's.*)
(***************************************************************************)
EXTENDS RefreshScheduler

CONSTANTS
  Verdict,        \* what calculations may conclude for the spec of each identity
  MaxProcFaults,  \* bound: failing requests of Process
  MaxLate         \* bound: requests that failed for their sender, yet to land

Verdicts == {"feasible", "infeasible", "rejected", "invalid"}

ASSUME LifecycleAssumption ==
  /\ Verdict \in [Ids -> (SUBSET Verdicts) \ {{}}]
  /\ \A i \in Ids : "invalid" \in Verdict[i] => Verdict[i] = {"invalid"}
  /\ MaxProcFaults \in Nat /\ MaxLate \in Nat
  /\ IsFiniteSet(Keys)

VARIABLES
  status,     \* API server: NGD status, and for which identity it was written
  grant,      \* API server: NGG of each NGD: source identity and status.phase
  evtPhase,   \* event reconcile: NGD phase it read, then the one it writes
  proc,       \* the request an execution waits for, and what it knows
  late,       \* requests given up by their sender that may still take effect
  procFaults

life  == <<status, grant, evtPhase, proc, late, procFaults>>
lvars == <<vars, life>>

\* "Retrying" is phase Failed with a reason that is retried after defaultRetry.
Phases   == {"", "Pending", "Updating", "Failed", "Retrying", "Fulfilled"}
ProcPcs  == {"idle", "get", "existing", "calculate", "reread", "returned", "spec",
             "applied", "active", "fulfilled", "fail", "failRetry", "return", "error"}
WriteOps == {"returned", "spec", "active", "fulfilled", "fail", "failRetry",
             "Pending", "Updating", "deleteGrant"}

StatusRec == [phase : Phases, by : Ids \cup {None}]
GrantRec  == [src : Ids, phase : {"", "Active", "Returned"}]
ProcRec   == [pc : ProcPcs, id : Ids \cup {None}, existing : {"none", "some"},
              response : {"none", "groups", "empty", "bad"}, stale : Nat]
Writes    == [key : Keys, op : WriteOps, id : Ids \cup {None}]

ProcTypeOK == proc \in [Keys -> ProcRec]

\* Process runs exactly while the scheduler's execution is in "process".
ProcRunsInExecution == \A k \in Keys : proc[k].pc # "idle" <=> exec[k].pc = "process"

LTypeOK ==
  /\ TypeOK /\ ProcTypeOK /\ ProcRunsInExecution
  /\ status \in [Keys -> StatusRec]
  /\ grant \in [Keys -> GrantRec \cup {None}]
  /\ evtPhase \in [Keys -> Phases]
  /\ late \in SUBSET Writes /\ Cardinality(late) <= MaxLate
  /\ procFaults \in 0..MaxProcFaults

NoStatus == [phase |-> "", by |-> None]
IdleProc == [pc |-> "idle", id |-> None, existing |-> "none", response |-> "none", stale |-> 0]

LInit ==
  /\ Init
  /\ status = [k \in Keys |-> NoStatus]
  /\ grant = [k \in Keys |-> None]
  /\ evtPhase = [k \in Keys |-> ""]
  /\ proc = [k \in Keys |-> IdleProc]
  /\ late = {} /\ procFaults = 0

-----------------------------------------------------------------------------
(* The API server's side of a write.                                       *)

PhaseOf == [Pending |-> "Pending", Updating |-> "Updating", fulfilled |-> "Fulfilled",
            fail |-> "Failed", failRetry |-> "Retrying"]

\* A status can be applied only to an object that exists: NotFound otherwise.
Accepted(w) ==
  /\ w.op \in DOMAIN PhaseOf => ngd[w.key] # None
  /\ w.op \in {"returned", "active"} => grant[w.key] # None

\* The apply of the spec creates the NGG or takes it over, owner included.
GrantAfter(w) ==
  CASE w.op = "spec" ->
         [src |-> w.id, phase |-> IF grant[w.key] = None THEN "" ELSE grant[w.key].phase]
    [] w.op = "active"      -> [grant[w.key] EXCEPT !.phase = "Active"]
    [] w.op = "returned"    -> [grant[w.key] EXCEPT !.phase = "Returned"]
    [] w.op = "deleteGrant" -> None
    [] OTHER                -> grant[w.key]

TakesEffect(w) ==
  /\ status' = IF w.op \in DOMAIN PhaseOf
               THEN [status EXCEPT ![w.key] = [phase |-> PhaseOf[w.op], by |-> w.id]]
               ELSE status
  /\ grant' = [grant EXCEPT ![w.key] = GrantAfter(w)]

\* Requests under way whose senders go away may survive them.
MayLand(W) == \E S \in SUBSET (W \ late) :
  Cardinality(late \cup S) <= MaxLate /\ late' = late \cup S

LateLands(w) ==
  /\ w \in late
  /\ late' = late \ {w}
  /\ IF Accepted(w) THEN TakesEffect(w) ELSE UNCHANGED <<status, grant>>
  /\ UNCHANGED <<vars, evtPhase, proc, procFaults>>

LateIsLost(w) ==
  /\ w \in late
  /\ late' = late \ {w}
  /\ UNCHANGED <<vars, status, grant, evtPhase, proc, procFaults>>

\* The NGG's OwnerReference names the NGD by UID.
OwnerGone(k) == ngd[k] \notin {grant[k].src[1]} \X (1..MaxGen)

GarbageCollect(k) ==
  /\ grant[k] # None /\ OwnerGone(k)
  /\ grant' = [grant EXCEPT ![k] = None]
  /\ UNCHANGED <<vars, status, evtPhase, proc, late, procFaults>>

-----------------------------------------------------------------------------
(* Users, and the event reconciler's part.                                 *)

LUser(k) ==
  \/ /\ UserCreate(k) \/ UserDelete(k)
     /\ status' = [status EXCEPT ![k] = NoStatus]
     /\ UNCHANGED <<grant, evtPhase, proc, late, procFaults>>
  \/ UserUpdate(k) /\ UNCHANGED life

LEvtGet(k) ==
  /\ EvtGet(k)
  /\ evtPhase' = [evtPhase EXCEPT ![k] = IF evt'[k].pc = "observed" THEN status[k].phase ELSE ""]
  /\ UNCHANGED <<status, grant, proc, late, procFaults>>

\* The phase the reconciler writes before it triggers, "" for none.
PhaseToWrite(k) ==
  CASE taskId[k] = evt[k].seen -> ""
    [] taskId[k] = None        -> IF evtPhase[k] = "" THEN "Pending" ELSE ""
    [] OTHER                   -> "Updating"

LEvtUpsert(k) ==
  /\ EvtUpsert(k)
  /\ evt'[k].pc = IF PhaseToWrite(k) = "" THEN "trigger" ELSE "status"
  /\ evtPhase' = [evtPhase EXCEPT ![k] = PhaseToWrite(k)]
  /\ UNCHANGED <<status, grant, proc, late, procFaults>>

\* The write of the event reconciler that is under way for k, if any.  It names
\* neither UID nor generation: the status is that of the NGD as it is by then.
EvtWrites(k) ==
  CASE evt[k].pc = "status"      -> {[key |-> k, op |-> evtPhase[k], id |-> taskId[k]]}
    [] evt[k].pc = "deleteGrant" -> {[key |-> k, op |-> "deleteGrant", id |-> None]}
    [] OTHER                     -> {}

LEvtWrite(k) ==
  /\ EvtStatus(k) \/ EvtDeleteGrant(k)
  /\ evtPhase' = [evtPhase EXCEPT ![k] = ""]
  /\ \E w \in EvtWrites(k) :
       \/ faults' = faults /\ Accepted(w) /\ TakesEffect(w) /\ UNCHANGED late
       \/ faults' = faults /\ ~Accepted(w) /\ UNCHANGED <<status, grant, late>>
       \/ faults' # faults /\ MayLand({w}) /\ UNCHANGED <<status, grant>>
  /\ UNCHANGED <<proc, procFaults>>

-----------------------------------------------------------------------------
(* DemandProcessor.Process.  proc[k].pc names the request under way.       *)

\* Mutant of Ask: the next request is sent whatever the context says.
Ask_Unchecked(k, p, next) == [p EXCEPT !.pc = next]

\* The next request fails at once when the context is done.
Ask(k, p, next) ==
  [p EXCEPT !.pc = IF exec[k].ctx = "live" \/ next \in {"return", "error"} THEN next ELSE "error"]

Answered(k, pc) == proc[k].pc = pc /\ UNCHANGED <<vars, evtPhase, late, procFaults>>

\* A request fails; a cancelled context is free to fail it, anything else is
\* bounded.  A write may take effect even so.
ProcWrites(k) ==
  IF proc[k].pc \in WriteOps
  THEN {[key |-> k, op |-> proc[k].pc, id |-> proc[k].id]} ELSE {}

RequestFails(k) ==
  /\ proc[k].pc \notin {"idle", "return", "error"}
  /\ \/ exec[k].ctx = "done" /\ UNCHANGED procFaults
     \/ procFaults < MaxProcFaults /\ procFaults' = procFaults + 1
  /\ proc' = [proc EXCEPT ![k] =
                Ask(k, @, IF @.pc = "calculate" THEN "failRetry" ELSE "error")]
  /\ MayLand(ProcWrites(k))
  /\ UNCHANGED <<vars, status, grant, evtPhase>>

\* The NGD is read by name, so it may be a newer one than the scheduler's.
\* validatePlatformDemandSpec and the readiness of the static snapshot follow.
GetDemand(k) ==
  /\ Answered(k, "get")
  /\ proc' = [proc EXCEPT ![k] =
       IF ngd[k] = None THEN Ask(k, @, "return")
       ELSE Ask(k, [@ EXCEPT !.id = ngd[k]],
                IF Verdict[ngd[k]] = {"invalid"} THEN "fail" ELSE "existing")]
  /\ UNCHANGED <<status, grant>>

StaticNotReady(k) ==
  /\ proc[k].pc = "get" /\ ngd[k] # None /\ Verdict[ngd[k]] # {"invalid"}
  /\ procFaults < MaxProcFaults /\ procFaults' = procFaults + 1
  /\ proc' = [proc EXCEPT ![k] = Ask(k, [@ EXCEPT !.id = ngd[k]], "failRetry")]
  /\ UNCHANGED <<vars, status, grant, evtPhase, late>>

GetExisting(k) ==
  /\ Answered(k, "existing")
  /\ proc' = [proc EXCEPT ![k] =
       Ask(k, [@ EXCEPT !.existing = IF grant[k] = None THEN "none" ELSE "some"], "calculate")]
  /\ UNCHANGED <<status, grant>>

\* The Algorithm Server answers; a retryable error or a timeout is RequestFails.
Calculate(k) ==
  /\ Answered(k, "calculate")
  /\ \E v \in Verdict[proc[k].id] :
       proc' = [proc EXCEPT ![k] =
         CASE v = "feasible"   -> Ask(k, [@ EXCEPT !.response = "groups"], "reread")
           [] v = "infeasible" -> Ask(k, [@ EXCEPT !.response = "empty"], "reread")
           [] OTHER            -> Ask(k, @, "fail")]
  /\ UNCHANGED <<status, grant>>

\* The answer fails validateResponse.
CalculateBad(k) ==
  /\ proc[k].pc = "calculate"
  /\ procFaults < MaxProcFaults /\ procFaults' = procFaults + 1
  /\ proc' = [proc EXCEPT ![k] = Ask(k, [@ EXCEPT !.response = "bad"], "reread")]
  /\ UNCHANGED <<vars, status, grant, evtPhase, late>>

AfterReread(k) ==
  CASE ngd[k] # proc[k].id            -> "return"
    [] proc[k].response = "bad"       -> "failRetry"
    [] proc[k].response = "groups"    -> "spec"
    [] proc[k].existing = "some"      -> "returned"
    [] OTHER                          -> "fail"

\* demandStillCurrent, validateResponse, and the choice of what to publish.
Reread(k) ==
  /\ Answered(k, "reread")
  /\ proc' = [proc EXCEPT ![k] = Ask(k, @, AfterReread(k))]
  /\ UNCHANGED <<status, grant>>

\* upsertGrant reads back what it applied.
GetApplied(k) ==
  /\ Answered(k, "applied")
  /\ proc' = [proc EXCEPT ![k] = Ask(k, @, IF grant[k] = None THEN "error" ELSE "active")]
  /\ UNCHANGED <<status, grant>>

\* Mutant of AfterWrite: an unsatisfied demand's failure is not recorded.
AfterWrite_NoFailure ==
  [returned |-> "return", spec |-> "applied", active |-> "fulfilled",
   fulfilled |-> "return", fail |-> "return", failRetry |-> "return"]

\* What Process does after each of its writes.
AfterWrite ==
  [returned |-> "fail", spec |-> "applied", active |-> "fulfilled",
   fulfilled |-> "return", fail |-> "return", failRetry |-> "return"]

\* "stale" counts the writes of this execution that took effect after the
\* scheduler had replaced or dropped its identity.
Counted(k) == [proc[k] EXCEPT !.stale = IF taskId[k] = exec[k].id THEN @ ELSE @ + 1]

WriteAnswered(k) ==
  /\ \E w \in ProcWrites(k) :
       /\ IF Accepted(w)
          THEN /\ TakesEffect(w)
               /\ proc' = [proc EXCEPT ![k] = Ask(k, Counted(k), AfterWrite[w.op])]
          ELSE /\ proc' = [proc EXCEPT ![k].pc = "error"]
               /\ UNCHANGED <<status, grant>>
  /\ UNCHANGED <<vars, evtPhase, late, procFaults>>

ProcReturns(k) ==
  /\ proc[k].pc \in {"return", "error"}
  /\ ProcessReturns(k, IF proc[k].pc = "return" THEN "ok" ELSE "err")
  /\ proc' = [proc EXCEPT ![k] = IdleProc]
  /\ UNCHANGED <<status, grant, evtPhase, late, procFaults>>

LBegin(k) ==
  /\ Begin(k)
  /\ proc' = IF exec'[k].pc = "process" THEN [proc EXCEPT ![k].pc = "get"] ELSE proc
  /\ UNCHANGED <<status, grant, evtPhase, late, procFaults>>

Process(k) ==
  \/ GetDemand(k) \/ StaticNotReady(k) \/ GetExisting(k)
  \/ Calculate(k) \/ CalculateBad(k) \/ Reread(k)
  \/ GetApplied(k) \/ WriteAnswered(k) \/ RequestFails(k)

-----------------------------------------------------------------------------
LRestart ==
  /\ Restart
  /\ MayLand(UNION {EvtWrites(k) \cup ProcWrites(k) : k \in Keys})
  /\ evtPhase' = [k \in Keys |-> ""]
  /\ proc' = [k \in Keys |-> IdleProc]
  /\ UNCHANGED <<status, grant, procFaults>>

LEvent(k) ==
  \/ LEvtUpsert(k) \/ LEvtWrite(k)
  \/ EvtRemove(k) /\ UNCHANGED life
  \/ EvtTrigger(k) /\ UNCHANGED life

LWorker(k) ==
  \/ LBegin(k) \/ Process(k) \/ ProcReturns(k)
  \/ Finish(k) /\ UNCHANGED life
  \/ Check(k) /\ UNCHANGED life
  \/ ScheduleAfter(k) /\ UNCHANGED life

Quiet(A) == A /\ UNCHANGED life

LNext ==
  \/ \E k \in Keys :
       \/ LUser(k) \/ LEvtGet(k) \/ LEvent(k) \/ LWorker(k) \/ GarbageCollect(k)
       \/ Quiet(DeliverWatch(k)) \/ Quiet(EvtEmit(k))
       \/ Quiet(BackoffExpires(k)) \/ Quiet(Dequeue(k))
  \/ \E t \in TimerIds : Quiet(TimerStep(t))
  \/ \E w \in late : LateLands(w) \/ LateIsLost(w)
  \/ Quiet(SourceDelivers)
  \/ LRestart

LSpec == LInit /\ [][LNext]_lvars

\* Fairness is RefreshScheduler's; every request is answered or times out, a
\* request given up lands or is lost, and the garbage collector works.
LFairness ==
  /\ \A k \in Keys :
       /\ WF_lvars(Quiet(DeliverWatch(k))) /\ SF_lvars(LEvtGet(k))
       /\ WF_lvars(LEvent(k)) /\ SF_lvars(Quiet(EvtEmit(k)))
       /\ WF_lvars(Quiet(BackoffExpires(k))) /\ SF_lvars(Quiet(Dequeue(k)))
       /\ WF_lvars(LWorker(k)) /\ WF_lvars(GarbageCollect(k))
  /\ \A t \in TimerIds :
       /\ WF_lvars(Quiet(TimerFires(t) \/ TimerCallback(t)))
       /\ SF_lvars(Quiet(TimerEmit(t)))
  /\ WF_lvars(\E w \in late : LateLands(w) \/ LateIsLost(w))
  /\ WF_lvars(Quiet(SourceDelivers))

FairLSpec == LSpec /\ LFairness

-----------------------------------------------------------------------------
(* Properties.                                                             *)

\* Once Upsert or Remove has replaced or dropped the identity of an execution,
\* at most one more of its writes takes effect: the one that was already sent.
AtMostOneStaleWrite == \A k \in Keys : proc[k].stale <= 1

\* Strengthening for its proof: such a write was the execution's last.
StaleWriteIsLast ==
  \A k \in Keys : \/ proc[k].stale = 0
                  \/ proc[k].stale = 1 /\ proc[k].pc \in {"return", "error"}

\* What users find when nothing more is to be done.  A demand whose spec is
\* invalid, or that the Algorithm Server rejects, keeps the grant it had.
Settled(k) ==
  IF ngd[k] = None THEN grant[k] = None
  ELSE CASE Verdict[ngd[k]] = {"feasible"} ->
              /\ status[k] = [phase |-> "Fulfilled", by |-> ngd[k]]
              /\ grant[k] = [src |-> ngd[k], phase |-> "Active"]
         [] Verdict[ngd[k]] = {"infeasible"} ->
              /\ status[k] = [phase |-> "Failed", by |-> ngd[k]]
              /\ grant[k] # None => grant[k].phase = "Returned"
         [] OTHER -> status[k] = [phase |-> "Failed", by |-> ngd[k]] /\ (grant[k] = None \/ ~OwnerGone(k))

\* When users stop changing demands, every demand and its grant reach the state
\* its spec calls for and keep it, and the grant of a deleted demand goes: for
\* every order of the event and the refresh workers, cancelled executions,
\* writes that land late, a restart at any point.
Converges == \A k \in Keys : <>[]Settled(k)

\* "Only if UID and generation agree may the NGG be updated; the check before
\* the write prevents an old demand from overwriting a new one".
PublishOnlyCurrent ==
  [][\A k \in Keys : grant'[k] # None /\ (grant[k] = None \/ grant'[k].src # grant[k].src) =>
       grant'[k].src = ngd[k]]_lvars
=============================================================================
