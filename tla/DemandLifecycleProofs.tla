----------------------- MODULE DemandLifecycleProofs -----------------------
(***************************************************************************)
(* DemandLifecycle implements RefreshScheduler, so what is proved of the   *)
(* refresh loop holds of the whole PRC; and a superseded execution gets at *)
(* most one more write through.                                            *)
(***************************************************************************)
EXTENDS DemandLifecycle, RefreshSchedulerProofs, FiniteSetTheorems

USE DEF api, queue, task, work, bound

-----------------------------------------------------------------------------
(* The refinement: every step of LNext is a step of Next or leaves the     *)
(* scheduler's variables alone.                                            *)

LEMMA ProcessStutters ==
  ASSUME NEW k \in Keys, Process(k)
  PROVE  UNCHANGED vars
BY DEF Process, GetDemand, StaticNotReady, GetExisting, Calculate, CalculateBad, Reread,
       GetApplied, WriteAnswered, RequestFails, Answered

LEMMA StepImplements == LNext => [Next]_vars
<1> SUFFICES ASSUME LNext PROVE [Next]_vars
  OBVIOUS
<1>1. ASSUME NEW k \in Keys, LUser(k) \/ LEvtGet(k) PROVE Next
  BY <1>1 DEF LUser, LEvtGet, Next, User, EventController
<1>2. ASSUME NEW k \in Keys, LEvent(k) PROVE Next
  BY <1>2 DEF LEvent, LEvtUpsert, LEvtWrite, Next, EventController
<1>3. ASSUME NEW k \in Keys, LWorker(k) PROVE [Next]_vars
  <2>1. CASE LBegin(k)
    BY <2>1 DEF LBegin, Next, RefreshWorker
  <2>2. CASE Process(k)
    BY <2>2, ProcessStutters
  <2>3. CASE ProcReturns(k)
    <3>1. \E res \in {"ok", "err"} : ProcessReturns(k, res)
      BY <2>3 DEF ProcReturns
    <3> QED
      BY <3>1 DEF Next, RefreshWorker
  <2>4. CASE Finish(k) \/ Check(k) \/ ScheduleAfter(k)
    BY <2>4 DEF Next, RefreshWorker
  <2> QED
    BY <1>3, <2>1, <2>2, <2>3, <2>4 DEF LWorker
<1>4. ASSUME NEW k \in Keys, GarbageCollect(k) PROVE UNCHANGED vars
  BY <1>4 DEF GarbageCollect
<1>5. ASSUME NEW k \in Keys,
             \/ Quiet(DeliverWatch(k)) \/ Quiet(EvtEmit(k))
             \/ Quiet(BackoffExpires(k)) \/ Quiet(Dequeue(k))
      PROVE  Next
  BY <1>5 DEF Quiet, Next, EventController, RefreshWorker
<1>6. ASSUME NEW t \in TimerIds, Quiet(TimerStep(t)) PROVE Next
  BY <1>6 DEF Quiet, Next
<1>7. ASSUME NEW w \in late, LateLands(w) \/ LateIsLost(w) PROVE UNCHANGED vars
  BY <1>7 DEF LateLands, LateIsLost
<1>8. Quiet(SourceDelivers) \/ LRestart => Next
  BY DEF Quiet, LRestart, Next
<1> QED
  BY <1>1, <1>2, <1>3, <1>4, <1>5, <1>6, <1>7, <1>8 DEF LNext

\* The detailed processor and the publications implement the refresh loop with
\* its opaque Process step.
THEOREM Implements == LSpec => Spec
<1>1. LInit => Init
  BY DEF LInit
<1>2. [LNext]_lvars => [Next]_vars
  BY StepImplements DEF lvars
<1> QED
  BY <1>1, <1>2, PTL DEF LSpec, Spec

\* Whatever is published, however requests fail and writes land late, no demand
\* is forgotten and no change missed, and replaced executions are cancelled.
THEOREM LifecycleKeepsRefreshing ==
  LSpec => [](NoLostRefresh /\ NoMissedChange /\ StaleExecutionCancelled)
BY Implements, NothingIsForgotten, ChangesAreSeen, StaleIsCancelled, PTL

-----------------------------------------------------------------------------
(* A superseded execution: Process runs exactly while the execution is in  *)
(* "process"; the first write that lands after the identity has changed    *)
(* finds the context cancelled, so no request follows it.                  *)

SamePc == \A j \in Keys : exec'[j].pc = "process" <=> exec[j].pc = "process"

LEMMA ExecFacts ==
  /\ \A r \in ExecRec : [r EXCEPT !.ctx = "done"].pc = r.pc
  /\ \A r \in ExecRec : [r EXCEPT !.pc = "check"].pc = "check"
  /\ \A r \in ExecRec : [r EXCEPT !.pc = "schedule"].pc = "schedule"
  /\ IdleExec.pc = "idle" /\ [IdleExec EXCEPT !.pc = "begin"].pc = "begin"
BY DEF ExecRec, IdleExec

LEMMA CancelKeepsPc ==
  ASSUME TypeOK, NEW k \in Keys, NEW j \in Keys
  PROVE  CancelExec(k)[j].pc = exec[j].pc
BY ExecFacts DEF TypeOK, CancelExec

LEMMA FinishKeepsPc ==
  ASSUME TypeOK, NEW k \in Keys, Finish(k)
  PROVE  SamePc
<1>1. CASE taskId[k] = exec[k].id
  <2>1. exec' = [CancelExec(k) EXCEPT ![k].pc = "check"]
    BY <1>1 DEF Finish
  <2>2. CancelExec(k) \in [Keys -> ExecRec]
    BY CancelExecType
  <2>3. exec'[k].pc = "check"
    BY <2>1, <2>2, ExecFacts
  <2>4. \A j \in Keys \ {k} : exec'[j] = CancelExec(k)[j]
    BY <2>1, <2>2
  <2> QED
    BY <2>3, <2>4, CancelKeepsPc DEF SamePc, Finish
<1>2. CASE taskId[k] # exec[k].id
  BY <1>2, ExecFacts DEF SamePc, Finish, TypeOK
<1> QED
  BY <1>1, <1>2

LEMMA SchedulerKeepsPc ==
  ASSUME TypeOK, NEW k \in Keys,
         \/ EvtUpsert(k) \/ EvtRemove(k)
         \/ Dequeue(k) \/ Finish(k) \/ Check(k) \/ ScheduleAfter(k)
  PROVE  SamePc
<1>1. CASE EvtUpsert(k)
  <2>1. exec' = exec \/ exec' = CancelExec(k)
    BY <1>1 DEF EvtUpsert, Upsert
  <2> QED
    BY <2>1, CancelKeepsPc DEF SamePc
<1>2. CASE EvtRemove(k)
  BY <1>2, CancelKeepsPc DEF SamePc, EvtRemove, Remove
<1>3. CASE Dequeue(k)
  BY <1>3, ExecFacts DEF SamePc, Dequeue, TypeOK
<1>4. CASE Check(k)
  BY <1>4, ExecFacts DEF SamePc, Check, TypeOK
<1>5. CASE ScheduleAfter(k)
  BY <1>5, ExecFacts DEF SamePc, ScheduleAfter, TypeOK
<1> QED
  BY <1>1, <1>2, <1>3, <1>4, <1>5, FinishKeepsPc

\* The steps that neither begin, run nor end a Process call.
LEMMA OtherStepsQuiet ==
  ASSUME TypeOK, LNext,
         \A k \in Keys : ~LBegin(k) /\ ~Process(k) /\ ~ProcReturns(k),
         ~LRestart
  PROVE  proc' = proc /\ SamePc
<1>1. ASSUME NEW k \in Keys, LUser(k) \/ LEvtGet(k) PROVE proc' = proc /\ exec' = exec
  BY <1>1 DEF LUser, LEvtGet, UserCreate, UserUpdate, UserDelete, EvtGet, life
<1>2. ASSUME NEW k \in Keys, LEvent(k) PROVE proc' = proc /\ SamePc
  <2>1. CASE LEvtUpsert(k)
    BY <2>1, SchedulerKeepsPc DEF LEvtUpsert
  <2>2. CASE LEvtWrite(k)
    BY <2>2 DEF LEvtWrite, EvtStatus, EvtDeleteGrant, SamePc
  <2>3. CASE EvtRemove(k) /\ UNCHANGED life
    BY <2>3, SchedulerKeepsPc DEF life
  <2>4. CASE EvtTrigger(k) /\ UNCHANGED life
    BY <2>4 DEF EvtTrigger, SamePc, life
  <2> QED
    BY <1>2, <2>1, <2>2, <2>3, <2>4 DEF LEvent
<1>3. ASSUME NEW k \in Keys, LWorker(k) PROVE proc' = proc /\ SamePc
  BY <1>3, SchedulerKeepsPc DEF LWorker, life
<1>4. ASSUME NEW k \in Keys, GarbageCollect(k) PROVE proc' = proc /\ exec' = exec
  BY <1>4 DEF GarbageCollect, vars
<1>5. ASSUME NEW k \in Keys,
             Quiet(DeliverWatch(k)) \/ Quiet(EvtEmit(k)) \/ Quiet(BackoffExpires(k))
      PROVE  proc' = proc /\ exec' = exec
  BY <1>5 DEF Quiet, DeliverWatch, EvtEmit, BackoffExpires, life
<1>6. ASSUME NEW k \in Keys, Quiet(Dequeue(k)) PROVE proc' = proc /\ SamePc
  BY <1>6, SchedulerKeepsPc DEF Quiet, life
<1>7. ASSUME NEW t \in TimerIds, Quiet(TimerStep(t)) PROVE proc' = proc /\ exec' = exec
  BY <1>7 DEF Quiet, TimerStep, TimerFires, TimerCallback, TimerEmit, life
<1>8. ASSUME NEW w \in late, LateLands(w) \/ LateIsLost(w) PROVE proc' = proc /\ exec' = exec
  BY <1>8 DEF LateLands, LateIsLost, vars
<1>9. ASSUME Quiet(SourceDelivers) PROVE proc' = proc /\ exec' = exec
  BY <1>9 DEF Quiet, SourceDelivers, life
<1>10. exec' = exec => SamePc
  BY DEF SamePc
<1> QED
  BY <1>1, <1>2, <1>3, <1>4, <1>5, <1>6, <1>7, <1>8, <1>9, <1>10 DEF LNext

LEMMA AskFacts ==
  ASSUME NEW k \in Keys, NEW p \in ProcRec, NEW next \in ProcPcs \ {"idle"}
  PROVE  /\ Ask(k, p, next) \in ProcRec
         /\ Ask(k, p, next).pc \in {next, "error"}
         /\ Ask(k, p, next).stale = p.stale
         /\ exec[k].ctx # "live" => Ask(k, p, next).pc \in {"return", "error"}
BY DEF Ask, ProcRec, ProcPcs

LEMMA ProcUpdates ==
  ASSUME NEW p \in ProcRec
  PROVE  /\ p.stale \in Nat
         /\ [p EXCEPT !.stale = p.stale + 1] \in ProcRec
         /\ [p EXCEPT !.stale = p.stale + 1].stale = p.stale + 1
         /\ [p EXCEPT !.stale = p.stale] \in ProcRec
         /\ [p EXCEPT !.stale = p.stale].stale = p.stale
         /\ [p EXCEPT !.pc = "error"] \in ProcRec
         /\ [p EXCEPT !.pc = "error"].pc = "error"
         /\ [p EXCEPT !.pc = "error"].stale = p.stale
         /\ \A i \in Ids : [p EXCEPT !.id = i] \in ProcRec /\ [p EXCEPT !.id = i].stale = p.stale
         /\ \A e \in {"none", "some"} : /\ [p EXCEPT !.existing = e] \in ProcRec
                                        /\ [p EXCEPT !.existing = e].stale = p.stale
         /\ \A r \in {"groups", "empty", "bad"} : /\ [p EXCEPT !.response = r] \in ProcRec
                                                  /\ [p EXCEPT !.response = r].stale = p.stale
BY DEF ProcRec, ProcPcs

StaleOK(r) == r.stale = 0 \/ (r.stale = 1 /\ r.pc \in {"return", "error"})

\* The form of every step of Process: the record goes from a request under way
\* to another record that is not idle.
LEMMA AskStep ==
  ASSUME NEW k \in Keys, NEW p \in ProcRec, NEW next \in ProcPcs \ {"idle"},
         p.stale = 0 \/ (p.stale = 1 /\ exec[k].ctx # "live")
  PROVE  /\ Ask(k, p, next) \in ProcRec /\ Ask(k, p, next).pc # "idle"
         /\ StaleOK(Ask(k, p, next))
BY AskFacts DEF StaleOK

LEMMA ReadStep ==
  ASSUME ProcTypeOK, StaleWriteIsLast, TypeOK, NEW k \in Keys,
         \/ GetDemand(k) \/ StaticNotReady(k) \/ GetExisting(k)
         \/ Calculate(k) \/ CalculateBad(k) \/ Reread(k)
         \/ GetApplied(k) \/ RequestFails(k)
  PROVE  /\ proc[k].pc # "idle"
         /\ \E r \in ProcRec : /\ proc' = [proc EXCEPT ![k] = r]
                               /\ r.pc # "idle" /\ StaleOK(r)
<1> DEFINE Goal == /\ proc[k].pc # "idle"
                   /\ \E r \in ProcRec : /\ proc' = [proc EXCEPT ![k] = r]
                                         /\ r.pc # "idle" /\ StaleOK(r)
<1>0. /\ proc[k] \in ProcRec
      /\ proc[k].pc \notin {"return", "error"} => proc[k].stale = 0
  BY DEF ProcTypeOK, StaleWriteIsLast
<1>a. ASSUME NEW p \in ProcRec, p.stale = 0, NEW next \in ProcPcs \ {"idle"},
             proc' = [proc EXCEPT ![k] = Ask(k, p, next)], proc[k].pc # "idle"
      PROVE  Goal
  BY <1>a, AskStep
<1>b. ngd[k] # None => ngd[k] \in Ids
  BY DEF TypeOK
<1>1. CASE GetDemand(k)
  <2>1. CASE ngd[k] = None
    BY <1>0, <1>a, <1>1, <2>1 DEF GetDemand, Answered, ProcPcs
  <2>2. CASE ngd[k] # None
    <3> DEFINE next == IF Verdict[ngd[k]] = {"invalid"} THEN "fail" ELSE "existing"
    <3>1. [proc[k] EXCEPT !.id = ngd[k]] \in ProcRec /\ [proc[k] EXCEPT !.id = ngd[k]].stale = 0
      BY <1>0, <1>1, <1>b, <2>2, ProcUpdates DEF GetDemand, Answered
    <3>2. next \in ProcPcs \ {"idle"}
      BY DEF ProcPcs
    <3>3. proc' = [proc EXCEPT ![k] = Ask(k, [proc[k] EXCEPT !.id = ngd[k]], next)]
      BY <1>1, <2>2 DEF GetDemand
    <3>4. proc[k].pc # "idle"
      BY <1>1 DEF GetDemand, Answered
    <3> QED
      BY <1>a, <3>1, <3>2, <3>3, <3>4
  <2> QED
    BY <2>1, <2>2
<1>2. CASE StaticNotReady(k)
  <2>1. [proc[k] EXCEPT !.id = ngd[k]] \in ProcRec /\ [proc[k] EXCEPT !.id = ngd[k]].stale = 0
    BY <1>0, <1>2, <1>b, ProcUpdates DEF StaticNotReady
  <2> QED
    BY <1>a, <1>2, <2>1 DEF StaticNotReady, ProcPcs
<1>3. CASE GetExisting(k)
  <2> DEFINE e == IF grant[k] = None THEN "none" ELSE "some"
  <2>1. /\ [proc[k] EXCEPT !.existing = e] \in ProcRec
        /\ [proc[k] EXCEPT !.existing = e].stale = 0
    BY <1>0, <1>3, ProcUpdates DEF GetExisting, Answered
  <2> QED
    BY <1>a, <1>3, <2>1 DEF GetExisting, Answered, ProcPcs
<1>4. CASE Calculate(k)
  <2>0. proc[k].pc = "calculate" /\ proc[k].stale = 0
    BY <1>0, <1>4 DEF Calculate, Answered
  <2>1. \/ proc' = [proc EXCEPT ![k] = Ask(k, [proc[k] EXCEPT !.response = "groups"], "reread")]
        \/ proc' = [proc EXCEPT ![k] = Ask(k, [proc[k] EXCEPT !.response = "empty"], "reread")]
        \/ proc' = [proc EXCEPT ![k] = Ask(k, proc[k], "fail")]
    BY <1>4 DEF Calculate
  <2>2. \A r \in {"groups", "empty"} : /\ [proc[k] EXCEPT !.response = r] \in ProcRec
                                       /\ [proc[k] EXCEPT !.response = r].stale = 0
    BY <1>0, <2>0, ProcUpdates
  <2> QED
    BY <1>0, <1>a, <2>0, <2>1, <2>2 DEF ProcPcs
<1>5. CASE CalculateBad(k)
  <2>1. /\ [proc[k] EXCEPT !.response = "bad"] \in ProcRec
        /\ [proc[k] EXCEPT !.response = "bad"].stale = 0
    BY <1>0, <1>5, ProcUpdates DEF CalculateBad
  <2> QED
    BY <1>a, <1>5, <2>1 DEF CalculateBad, ProcPcs
<1>6. CASE Reread(k)
  <2>1. AfterReread(k) \in ProcPcs \ {"idle"}
    BY DEF AfterReread, ProcPcs
  <2> QED
    BY <1>0, <1>a, <1>6, <2>1 DEF Reread, Answered
<1>7. CASE GetApplied(k)
  BY <1>0, <1>a, <1>7 DEF GetApplied, Answered, ProcPcs
<1>8. CASE RequestFails(k)
  BY <1>0, <1>a, <1>8 DEF RequestFails, ProcPcs
<1> QED
  BY <1>1, <1>2, <1>3, <1>4, <1>5, <1>6, <1>7, <1>8

\* A write that lands on behalf of a superseded identity is the last request.
LEMMA WriteStep ==
  ASSUME TypeOK, ProcTypeOK, ProcRunsInExecution, StaleWriteIsLast, StaleExecutionCancelled,
         NEW k \in Keys, WriteAnswered(k)
  PROVE  /\ proc[k].pc # "idle"
         /\ \E r \in ProcRec : /\ proc' = [proc EXCEPT ![k] = r]
                               /\ r.pc # "idle" /\ StaleOK(r)
<1>0. proc[k].pc \in WriteOps /\ proc[k].pc \notin {"idle", "return", "error"}
  BY DEF WriteAnswered, ProcWrites, WriteOps
<1>1. proc[k] \in ProcRec /\ proc[k].stale = 0
  BY <1>0 DEF ProcTypeOK, StaleWriteIsLast
<1>2. exec[k].pc = "process"
  BY <1>0 DEF ProcRunsInExecution
<1>3. taskId[k] # exec[k].id => exec[k].ctx # "live"
  BY <1>2 DEF StaleExecutionCancelled
<1>4. proc[k].pc \in DOMAIN AfterWrite
  BY <1>0, <1>1 DEF AfterWrite, WriteOps, ProcRec, ProcPcs
<1>5. AfterWrite[proc[k].pc] \in ProcPcs \ {"idle"}
  BY <1>4 DEF AfterWrite, ProcPcs
<1>6. CASE proc' = [proc EXCEPT ![k].pc = "error"]
  <2>1. [proc[k] EXCEPT !.pc = "error"] \in ProcRec /\ StaleOK([proc[k] EXCEPT !.pc = "error"])
    BY <1>1, ProcUpdates DEF StaleOK
  <2>2. [proc[k] EXCEPT !.pc = "error"].pc # "idle"
    BY <1>1, ProcUpdates
  <2> QED
    BY <1>0, <1>6, <2>1, <2>2
<1>7. CASE proc' = [proc EXCEPT ![k] = Ask(k, Counted(k), AfterWrite[proc[k].pc])]
  <2>1. /\ Counted(k) \in ProcRec
        /\ Counted(k).stale = 0 \/ (Counted(k).stale = 1 /\ exec[k].ctx # "live")
    <3>1. CASE taskId[k] = exec[k].id
      BY <1>1, <3>1, ProcUpdates DEF Counted
    <3>2. CASE taskId[k] # exec[k].id
      <4>1. Counted(k) = [proc[k] EXCEPT !.stale = proc[k].stale + 1]
        BY <3>2 DEF Counted
      <4>2. [proc[k] EXCEPT !.stale = proc[k].stale + 1] \in ProcRec
        BY <1>1, ProcUpdates
      <4>3. [proc[k] EXCEPT !.stale = proc[k].stale + 1].stale = 1
        BY <1>1, ProcUpdates
      <4> QED
        BY <1>3, <3>2, <4>1, <4>2, <4>3
    <3> QED
      BY <3>1, <3>2
  <2> QED
    BY <1>0, <1>5, <1>7, <2>1, AskStep
<1>8. ProcWrites(k) = {[key |-> k, op |-> proc[k].pc, id |-> proc[k].id]}
  BY <1>0 DEF ProcWrites
<1>9. PICK w \in ProcWrites(k) :
        \/ proc' = [proc EXCEPT ![k] = Ask(k, Counted(k), AfterWrite[w.op])]
        \/ proc' = [proc EXCEPT ![k].pc = "error"]
  BY DEF WriteAnswered
<1>10. w.op = proc[k].pc
  BY <1>8
<1> QED
  BY <1>6, <1>7, <1>9, <1>10

-----------------------------------------------------------------------------
LInd == ProcTypeOK /\ ProcRunsInExecution /\ StaleWriteIsLast

LEMMA IdleProcFacts == IdleProc \in ProcRec /\ IdleProc.pc = "idle" /\ IdleProc.stale = 0
BY DEF IdleProc, ProcRec, ProcPcs

LEMMA InitLInd == LInit => LInd
<1> SUFFICES ASSUME LInit PROVE LInd
  OBVIOUS
<1>1. proc = [k \in Keys |-> IdleProc]
  BY DEF LInit
<1>2. \A k \in Keys : exec[k].pc = "idle"
  BY ExecFacts DEF LInit, Init
<1> QED
  BY <1>1, <1>2, IdleProcFacts DEF LInd, ProcTypeOK, ProcRunsInExecution, StaleWriteIsLast

LEMMA StepLInd ==
  TypeOK /\ StaleExecutionCancelled /\ LInd /\ [LNext]_lvars => LInd'
<1> SUFFICES ASSUME TypeOK, StaleExecutionCancelled, LInd, [LNext]_lvars PROVE LInd'
  OBVIOUS
<1> USE DEF LInd
<1>1. ASSUME proc' = proc, SamePc PROVE LInd'
  BY <1>1 DEF SamePc, ProcTypeOK, ProcRunsInExecution, StaleWriteIsLast
<1>2. ASSUME NEW k \in Keys, Process(k) PROVE LInd'
  <2>1. /\ proc[k].pc # "idle"
        /\ \E r \in ProcRec : /\ proc' = [proc EXCEPT ![k] = r]
                              /\ r.pc # "idle" /\ StaleOK(r)
    BY <1>2, ReadStep, WriteStep DEF Process
  <2>2. exec' = exec
    BY <1>2, ProcessStutters DEF vars
  <2> QED
    BY <2>1, <2>2 DEF ProcTypeOK, ProcRunsInExecution, StaleWriteIsLast, StaleOK
<1>3. ASSUME NEW k \in Keys, LBegin(k) PROVE LInd'
  <2>1. \A j \in Keys \ {k} : exec'[j] = exec[j]
    BY <1>3 DEF LBegin, Begin, TypeOK
  <2>2. proc[k].pc = "idle" /\ proc[k].stale = 0 /\ proc[k] \in ProcRec
    BY <1>3 DEF LBegin, Begin, ProcTypeOK, ProcRunsInExecution, StaleWriteIsLast
  <2>3. [proc[k] EXCEPT !.pc = "get"] \in ProcRec /\ [proc[k] EXCEPT !.pc = "get"].pc = "get"
        /\ [proc[k] EXCEPT !.pc = "get"].stale = 0
    BY <2>2 DEF ProcRec, ProcPcs
  <2>4. proc' = IF exec'[k].pc = "process" THEN [proc EXCEPT ![k].pc = "get"] ELSE proc
    BY <1>3 DEF LBegin
  <2> QED
    BY <2>1, <2>2, <2>3, <2>4 DEF ProcTypeOK, ProcRunsInExecution, StaleWriteIsLast
<1>4. ASSUME NEW k \in Keys, ProcReturns(k) PROVE LInd'
  <2>1. PICK res \in {"ok", "err"} : ProcessReturns(k, res)
    BY <1>4 DEF ProcReturns
  <2>2. exec'[k].pc = "finish" /\ \A j \in Keys \ {k} : exec'[j] = exec[j]
    BY <2>1 DEF ProcessReturns, TypeOK, ExecRec
  <2>3. proc' = [proc EXCEPT ![k] = IdleProc]
    BY <1>4 DEF ProcReturns
  <2> QED
    BY <2>2, <2>3, IdleProcFacts DEF ProcTypeOK, ProcRunsInExecution, StaleWriteIsLast
<1>5. CASE LRestart
  <2>1. \A j \in Keys : exec'[j].pc = "idle" /\ proc'[j] = IdleProc
    BY <1>5, ExecFacts DEF LRestart, Restart
  <2>2. proc' = [j \in Keys |-> IdleProc]
    BY <1>5 DEF LRestart
  <2> QED
    BY <2>1, <2>2, IdleProcFacts DEF ProcTypeOK, ProcRunsInExecution, StaleWriteIsLast
<1>6. CASE UNCHANGED lvars
  BY <1>1, <1>6 DEF lvars, life, vars, SamePc
<1> QED
  BY <1>1, <1>2, <1>3, <1>4, <1>5, <1>6, OtherStepsQuiet

\* However an update or a deletion overtakes a calculation, at most one write on
\* behalf of the superseded identity is accepted while the execution lasts.
THEOREM OneStaleWrite == LSpec => []AtMostOneStaleWrite
<1>1. LSpec => [](TypeOK /\ StaleExecutionCancelled)
  BY Implements, TypeCorrect, StaleIsCancelled, PTL
<1>2. LInd => AtMostOneStaleWrite
  BY DEF LInd, StaleWriteIsLast, AtMostOneStaleWrite
<1> QED
  BY <1>1, <1>2, InitLInd, StepLInd, PTL DEF LSpec
-----------------------------------------------------------------------------
(* The types of what is published.  A request that was given up lands with *)
(* the identity its sender had: whoever sends a spec has read a demand.    *)

PhaseWritten ==
  /\ evtPhase \in [Keys -> Phases]
  /\ \A k \in Keys : evt[k].pc = "status" => evtPhase[k] \in {"Pending", "Updating"}

DemandRead == \A k \in Keys : proc[k].pc \notin {"idle", "get", "return", "error"} => proc[k].id \in Ids

GoodWrites == {w \in Writes : w.op = "spec" => w.id \in Ids}
LateTyped == late \subseteq GoodWrites /\ IsFiniteSet(late) /\ Cardinality(late) <= MaxLate

Published == status \in [Keys -> StatusRec] /\ grant \in [Keys -> GrantRec \cup {None}]

LTypes == PhaseWritten /\ DemandRead /\ LateTyped /\ Published /\ procFaults \in 0..MaxProcFaults

NoNewStatus == \A k \in Keys : evt'[k].pc = "status" => evt[k].pc = "status"

LEMMA EvtFacts ==
  /\ \A r \in EvtRec : [r EXCEPT !.pc = "trigger"].pc = "trigger"
  /\ \A r \in EvtRec, t \in BOOLEAN :
       [r EXCEPT !.pc = IF t THEN "idle" ELSE "emit"].pc \in {"idle", "emit"}
  /\ IdleEvt.pc = "idle"
BY DEF EvtRec, IdleEvt

\* The steps that change what is published or an execution.
LEMMA LifeSteps ==
  ASSUME TypeOK, LNext
  PROVE  \/ UNCHANGED life /\ NoNewStatus
         \/ \E k \in Keys : \/ LUser(k) \/ LEvtGet(k) \/ LEvtUpsert(k) \/ LEvtWrite(k)
                            \/ LBegin(k) \/ Process(k) \/ ProcReturns(k) \/ GarbageCollect(k)
         \/ \E w \in late : LateLands(w) \/ LateIsLost(w)
         \/ LRestart
<1>0. evt' = evt => NoNewStatus
  BY DEF NoNewStatus
<1>1. ASSUME NEW k \in Keys, EvtRemove(k) \/ EvtTrigger(k) \/ EvtEmit(k) PROVE NoNewStatus
  <2>1. CASE EvtRemove(k)
    BY <2>1 DEF EvtRemove, NoNewStatus, TypeOK
  <2>2. CASE EvtTrigger(k)
    <3>1. evt[k] \in EvtRec /\ (taskId[k] = None) \in BOOLEAN
      BY DEF TypeOK
    <3>2. evt' = [evt EXCEPT ![k] = [evt[k] EXCEPT !.pc = IF taskId[k] = None THEN "idle" ELSE "emit"]]
      BY <2>2 DEF EvtTrigger
    <3>3. evt'[k].pc \in {"idle", "emit"}
      BY <3>1, <3>2, EvtFacts DEF TypeOK
    <3> QED
      BY <3>2, <3>3 DEF NoNewStatus, TypeOK
  <2>3. CASE EvtEmit(k)
    BY <2>3, EvtFacts DEF EvtEmit, NoNewStatus, TypeOK
  <2> QED
    BY <1>1, <2>1, <2>2, <2>3
<1>2. ASSUME NEW k \in Keys,
             \/ Finish(k) \/ Check(k) \/ ScheduleAfter(k)
             \/ DeliverWatch(k) \/ BackoffExpires(k) \/ Dequeue(k)
      PROVE  evt' = evt
  BY <1>2 DEF Finish, Check, ScheduleAfter, DeliverWatch, BackoffExpires, Dequeue
<1>3. ASSUME NEW t \in TimerIds, TimerStep(t) PROVE evt' = evt
  BY <1>3 DEF TimerStep, TimerFires, TimerCallback, TimerEmit
<1>4. SourceDelivers => evt' = evt
  BY DEF SourceDelivers
<1> QED
  BY <1>0, <1>1, <1>2, <1>3, <1>4 DEF LNext, LEvent, LWorker, Quiet

LEMMA PhaseChoice ==
  ASSUME NEW k \in Keys
  PROVE  PhaseToWrite(k) \in {"", "Pending", "Updating"}
BY DEF PhaseToWrite

LEMMA StepPhaseWritten ==
  ASSUME TypeOK, PhaseWritten, Published, LNext
  PROVE  PhaseWritten'
<1>1. ASSUME UNCHANGED evtPhase, NoNewStatus PROVE PhaseWritten'
  BY <1>1 DEF PhaseWritten, NoNewStatus
<1>2. ASSUME UNCHANGED <<evt, evtPhase>> PROVE PhaseWritten'
  BY <1>2 DEF PhaseWritten
<1>3. ASSUME NEW k \in Keys, NEW phase \in Phases, NEW r \in EvtRec,
             evtPhase' = [evtPhase EXCEPT ![k] = phase], evt' = [evt EXCEPT ![k] = r],
             r.pc = "status" => phase \in {"Pending", "Updating"}
      PROVE  PhaseWritten'
  BY <1>3 DEF PhaseWritten, TypeOK
<1>4. "" \in Phases /\ IdleEvt \in EvtRec /\ IdleEvt.pc = "idle"
  BY DEF Phases, IdleEvt, EvtRec, EvtPcs
<1>5. ASSUME NEW k \in Keys, LUser(k) PROVE UNCHANGED <<evt, evtPhase>>
  BY <1>5 DEF LUser, UserCreate, UserUpdate, UserDelete, life
<1>6. ASSUME NEW k \in Keys, LEvtGet(k) PROVE PhaseWritten'
  <2> DEFINE phase == IF evt'[k].pc = "observed" THEN status[k].phase ELSE ""
  <2>1. phase \in Phases
    BY <1>4 DEF Published, StatusRec
  <2>2. evtPhase' = [evtPhase EXCEPT ![k] = phase]
    BY <1>6 DEF LEvtGet
  <2>3. CASE evt' = [evt EXCEPT ![k] = [pc |-> "observed", seen |-> ngd[k]]]
    <3>1. [pc |-> "observed", seen |-> ngd[k]] \in EvtRec
      BY DEF TypeOK, EvtRec, EvtPcs
    <3> QED
      BY <1>3, <2>1, <2>2, <2>3, <3>1
  <2>4. CASE evt' = [evt EXCEPT ![k] = IdleEvt]
    BY <1>3, <1>4, <2>1, <2>2, <2>4
  <2> QED
    BY <1>6, <2>3, <2>4 DEF LEvtGet, EvtGet, EvtFails, RetryEvent
<1>7. ASSUME NEW k \in Keys, LEvtUpsert(k) PROVE PhaseWritten'
  <2>1. PICK next \in {"status", "trigger"} : evt' = [evt EXCEPT ![k] = [pc |-> next, seen |-> None]]
    BY <1>7 DEF LEvtUpsert, EvtUpsert
  <2>2. [pc |-> next, seen |-> None] \in EvtRec
    BY DEF EvtRec, EvtPcs
  <2>3. next = IF PhaseToWrite(k) = "" THEN "trigger" ELSE "status"
    BY <1>7, <2>1 DEF LEvtUpsert, TypeOK
  <2>4. evtPhase' = [evtPhase EXCEPT ![k] = PhaseToWrite(k)]
    BY <1>7 DEF LEvtUpsert
  <2>5. PhaseToWrite(k) \in Phases /\ (next = "status" => PhaseToWrite(k) \in {"Pending", "Updating"})
    BY <2>3, PhaseChoice DEF Phases
  <2> QED
    BY <1>3, <2>1, <2>2, <2>4, <2>5
<1>8. ASSUME NEW k \in Keys, LEvtWrite(k) PROVE PhaseWritten'
  <2>1. evtPhase' = [evtPhase EXCEPT ![k] = ""]
    BY <1>8 DEF LEvtWrite
  <2>2. CASE evt' = [evt EXCEPT ![k] = IdleEvt]
    BY <1>3, <1>4, <2>1, <2>2
  <2>3. CASE evt' = [evt EXCEPT ![k].pc = "trigger"]
    <3>1. [evt[k] EXCEPT !.pc = "trigger"] \in EvtRec /\ [evt[k] EXCEPT !.pc = "trigger"].pc = "trigger"
      BY DEF TypeOK, EvtRec, EvtPcs
    <3> QED
      BY <1>3, <1>4, <2>1, <2>3, <3>1
  <2> QED
    BY <1>8, <2>2, <2>3 DEF LEvtWrite, EvtStatus, EvtDeleteGrant, EvtFails, RetryEvent
<1>9. ASSUME NEW k \in Keys, LBegin(k) \/ Process(k) \/ ProcReturns(k) \/ GarbageCollect(k)
      PROVE  UNCHANGED <<evt, evtPhase>>
  <2>1. CASE Process(k)
    BY <2>1, ProcessStutters DEF Process, GetDemand, StaticNotReady, GetExisting, Calculate,
       CalculateBad, Reread, GetApplied, WriteAnswered, RequestFails, Answered, vars
  <2> QED
    BY <1>9, <2>1 DEF LBegin, Begin, ProcReturns, ProcessReturns, GarbageCollect, vars
<1>10. ASSUME NEW w \in late, LateLands(w) \/ LateIsLost(w) PROVE UNCHANGED <<evt, evtPhase>>
  BY <1>10 DEF LateLands, LateIsLost, vars
<1>11. CASE LRestart
  <2>1. evtPhase' = [k \in Keys |-> ""] /\ evt' = [k \in Keys |-> IdleEvt]
    BY <1>11 DEF LRestart, Restart
  <2> QED
    BY <1>4, <2>1 DEF PhaseWritten
<1>12. CASE UNCHANGED life /\ NoNewStatus
  BY <1>1, <1>12 DEF life
<1> QED
  BY <1>2, <1>5, <1>6, <1>7, <1>8, <1>9, <1>10, <1>11, <1>12, LifeSteps

LEMMA AskKeepsId ==
  ASSUME NEW k \in Keys, NEW p \in ProcRec, NEW next \in ProcPcs
  PROVE  Ask(k, p, next).id = p.id /\ Ask(k, p, next).pc \in {next, "error"}
BY DEF Ask, ProcRec

\* Every step of Process keeps the demand it has read.
LEMMA ProcessKeepsDemand ==
  ASSUME TypeOK, ProcTypeOK, DemandRead, NEW k \in Keys, Process(k)
  PROVE  DemandRead'
<1> DEFINE Read(r) == r.pc \notin {"idle", "get", "return", "error"} => r.id \in Ids
<1>0. proc[k] \in ProcRec /\ Read(proc[k])
  BY DEF ProcTypeOK, DemandRead
<1>a. ASSUME NEW r, proc' = [proc EXCEPT ![k] = r], Read(r) PROVE DemandRead'
  BY <1>a DEF DemandRead, ProcTypeOK
<1>b. ASSUME NEW p \in ProcRec, NEW next \in ProcPcs, p.id \in Ids \/ next \in {"return", "error"},
             proc' = [proc EXCEPT ![k] = Ask(k, p, next)]
      PROVE  DemandRead'
  BY <1>a, <1>b, AskKeepsId
<1>c. /\ ngd[k] # None => [proc[k] EXCEPT !.id = ngd[k]] \in ProcRec
                          /\ [proc[k] EXCEPT !.id = ngd[k]].id \in Ids
      /\ \A e \in {"none", "some"} : [proc[k] EXCEPT !.existing = e] \in ProcRec
                                     /\ [proc[k] EXCEPT !.existing = e].id = proc[k].id
      /\ \A r \in {"groups", "empty", "bad"} : [proc[k] EXCEPT !.response = r] \in ProcRec
                                               /\ [proc[k] EXCEPT !.response = r].id = proc[k].id
  BY <1>0 DEF TypeOK, ProcRec
<1> HIDE DEF Read
<1>d. proc[k].pc \notin {"idle", "get", "return", "error"} => proc[k].id \in Ids
  BY <1>0 DEF Read
<1>1. CASE GetDemand(k)
  <2>1. CASE ngd[k] = None
    BY <1>0, <1>1, <1>b, <2>1 DEF GetDemand, ProcPcs
  <2>2. CASE ngd[k] # None
    BY <1>1, <1>b, <1>c, <2>2 DEF GetDemand, ProcPcs
  <2> QED
    BY <2>1, <2>2
<1>2. CASE StaticNotReady(k)
  BY <1>2, <1>b, <1>c DEF StaticNotReady, ProcPcs
<1>3. CASE GetExisting(k)
  BY <1>3, <1>b, <1>c, <1>d DEF GetExisting, Answered, ProcPcs
<1>4. CASE Calculate(k)
  <2>1. \/ proc' = [proc EXCEPT ![k] = Ask(k, [proc[k] EXCEPT !.response = "groups"], "reread")]
        \/ proc' = [proc EXCEPT ![k] = Ask(k, [proc[k] EXCEPT !.response = "empty"], "reread")]
        \/ proc' = [proc EXCEPT ![k] = Ask(k, proc[k], "fail")]
    BY <1>4 DEF Calculate
  <2>2. proc[k].id \in Ids
    BY <1>4, <1>d DEF Calculate, Answered
  <2> QED
    BY <1>0, <1>b, <1>c, <2>1, <2>2 DEF ProcPcs
<1>5. CASE CalculateBad(k)
  BY <1>5, <1>b, <1>c, <1>d DEF CalculateBad, ProcPcs
<1>6. CASE Reread(k)
  <2>1. AfterReread(k) \in ProcPcs
    BY DEF AfterReread, ProcPcs
  <2> QED
    BY <1>0, <1>6, <1>b, <1>d, <2>1 DEF Reread, Answered
<1>7. CASE GetApplied(k)
  BY <1>0, <1>7, <1>b, <1>d DEF GetApplied, Answered, ProcPcs
<1>8. CASE WriteAnswered(k)
  <2>1. proc[k].pc \in WriteOps
    BY <1>8 DEF WriteAnswered, ProcWrites
  <2>2. PICK w \in ProcWrites(k) :
          \/ proc' = [proc EXCEPT ![k] = Ask(k, Counted(k), AfterWrite[w.op])]
          \/ proc' = [proc EXCEPT ![k].pc = "error"]
    BY <1>8 DEF WriteAnswered
  <2>3. w.op = proc[k].pc
    BY <2>1 DEF ProcWrites
  <2>4. proc[k].pc \in DOMAIN AfterWrite
    BY <1>0, <2>1 DEF AfterWrite, WriteOps, ProcRec, ProcPcs
  <2>5. AfterWrite[w.op] \in ProcPcs
    BY <2>3, <2>4 DEF AfterWrite, ProcPcs
  <2>6. Counted(k) \in ProcRec /\ Counted(k).id = proc[k].id
    BY <1>0 DEF Counted, ProcRec
  <2>7. proc[k].id \in Ids
    BY <1>d, <2>1 DEF WriteOps
  <2>8. [proc[k] EXCEPT !.pc = "error"].pc = "error"
    BY <1>0, ProcUpdates
  <2> QED
    BY <1>a, <1>b, <2>2, <2>5, <2>6, <2>7, <2>8 DEF Read
<1>9. CASE RequestFails(k)
  BY <1>0, <1>9, <1>b, <1>d DEF RequestFails, ProcPcs
<1> QED
  BY <1>1, <1>2, <1>3, <1>4, <1>5, <1>6, <1>7, <1>8, <1>9 DEF Process

LEMMA StepDemandRead ==
  ASSUME TypeOK, ProcTypeOK, DemandRead, LNext
  PROVE  DemandRead'
<1>1. ASSUME proc' = proc PROVE DemandRead'
  BY <1>1 DEF DemandRead
<1>2. ASSUME NEW k \in Keys, LBegin(k) PROVE DemandRead'
  <2>1. [proc[k] EXCEPT !.pc = "get"].pc = "get"
    BY DEF ProcTypeOK, ProcRec
  <2> QED
    BY <1>2, <2>1 DEF LBegin, DemandRead, ProcTypeOK
<1>3. ASSUME NEW k \in Keys, ProcReturns(k) PROVE DemandRead'
  BY <1>3, IdleProcFacts DEF ProcReturns, DemandRead, ProcTypeOK
<1>4. ASSUME NEW k \in Keys, LUser(k) \/ LEvtGet(k) \/ LEvtUpsert(k) \/ LEvtWrite(k) \/ GarbageCollect(k)
      PROVE  proc' = proc
  BY <1>4 DEF LUser, LEvtGet, LEvtUpsert, LEvtWrite, GarbageCollect, life
<1>5. ASSUME NEW w \in late, LateLands(w) \/ LateIsLost(w) PROVE proc' = proc
  BY <1>5 DEF LateLands, LateIsLost
<1>6. CASE LRestart
  <2>1. proc' = [j \in Keys |-> IdleProc]
    BY <1>6 DEF LRestart
  <2> QED
    BY <2>1, IdleProcFacts DEF DemandRead
<1>7. UNCHANGED life => proc' = proc
  BY DEF life
<1> QED
  BY <1>1, <1>2, <1>3, <1>4, <1>5, <1>6, <1>7, LifeSteps, ProcessKeepsDemand

-----------------------------------------------------------------------------
(* Requests under way, and what they do when they take effect.             *)

LEMMA EvtWritesGood ==
  ASSUME TypeOK, PhaseWritten, NEW k \in Keys
  PROVE  EvtWrites(k) \subseteq GoodWrites /\ IsFiniteSet(EvtWrites(k))
<1>1. CASE evt[k].pc = "status"
  <2> DEFINE w == [key |-> k, op |-> evtPhase[k], id |-> taskId[k]]
  <2>1. EvtWrites(k) = {w}
    BY <1>1 DEF EvtWrites
  <2>2. evtPhase[k] \in {"Pending", "Updating"} /\ taskId[k] \in Ids \cup {None}
    BY <1>1 DEF PhaseWritten, TypeOK
  <2>3. w \in GoodWrites
    BY <2>2 DEF GoodWrites, Writes, WriteOps
  <2> QED
    BY <2>1, <2>3, FS_Singleton
<1>2. CASE evt[k].pc = "deleteGrant"
  <2> DEFINE w == [key |-> k, op |-> "deleteGrant", id |-> None]
  <2>1. EvtWrites(k) = {w}
    BY <1>2 DEF EvtWrites
  <2>2. w \in GoodWrites
    BY DEF GoodWrites, Writes, WriteOps
  <2> QED
    BY <2>1, <2>2, FS_Singleton
<1>3. CASE evt[k].pc \notin {"status", "deleteGrant"}
  <2>1. EvtWrites(k) = {}
    BY <1>3 DEF EvtWrites
  <2> QED
    BY <2>1, FS_EmptySet
<1> QED
  BY <1>1, <1>2, <1>3

LEMMA ProcWritesGood ==
  ASSUME ProcTypeOK, DemandRead, NEW k \in Keys
  PROVE  ProcWrites(k) \subseteq GoodWrites /\ IsFiniteSet(ProcWrites(k))
<1>1. CASE proc[k].pc \in WriteOps
  <2> DEFINE w == [key |-> k, op |-> proc[k].pc, id |-> proc[k].id]
  <2>1. ProcWrites(k) = {w}
    BY <1>1 DEF ProcWrites
  <2>2. proc[k].id \in Ids
    BY <1>1 DEF DemandRead, WriteOps
  <2>3. w \in GoodWrites
    BY <1>1, <2>2 DEF GoodWrites, Writes
  <2> QED
    BY <2>1, <2>3, FS_Singleton
<1>2. CASE proc[k].pc \notin WriteOps
  BY <1>2, FS_EmptySet DEF ProcWrites
<1> QED
  BY <1>1, <1>2

LEMMA MayLandGood ==
  ASSUME LateTyped, NEW W, W \subseteq GoodWrites, IsFiniteSet(W), MayLand(W)
  PROVE  LateTyped'
<1>1. PICK S \in SUBSET (W \ late) : Cardinality(late \cup S) <= MaxLate /\ late' = late \cup S
  BY DEF MayLand
<1>2. IsFiniteSet(S)
  BY <1>1, FS_Subset
<1>3. IsFiniteSet(late \cup S)
  BY <1>2, FS_Union DEF LateTyped
<1> QED
  BY <1>1, <1>3 DEF LateTyped

LEMMA LateLeaves ==
  ASSUME LateTyped, NEW w \in late, late' = late \ {w}
  PROVE  LateTyped'
<1>1. IsFiniteSet(late \ {w}) /\ Cardinality(late \ {w}) = Cardinality(late) - 1
  BY FS_RemoveElement DEF LateTyped
<1>2. Cardinality(late) \in Nat
  BY FS_CardinalityType DEF LateTyped
<1> QED
  BY <1>1, <1>2, LifecycleAssumption DEF LateTyped

LEMMA RestartWritesFinite ==
  ASSUME TypeOK, PhaseWritten, ProcTypeOK, DemandRead
  PROVE  IsFiniteSet(UNION {EvtWrites(k) \cup ProcWrites(k) : k \in Keys})
<1> DEFINE f == [k \in Keys |-> EvtWrites(k) \cup ProcWrites(k)]
           R == {EvtWrites(k) \cup ProcWrites(k) : k \in Keys}
<1>1. f \in Surjection(Keys, R)
  BY DEF Surjection
<1>2. IsFiniteSet(R)
  BY <1>1, FS_Surjection, LifecycleAssumption
<1>3. \A k \in Keys : IsFiniteSet(EvtWrites(k) \cup ProcWrites(k))
  BY EvtWritesGood, ProcWritesGood, FS_Union
<1>4. \A x \in R : IsFiniteSet(x)
  BY <1>3
<1> HIDE DEF R
<1>5. IsFiniteSet(UNION R)
  BY <1>2, <1>4, FS_UNION
<1> QED
  BY <1>5 DEF R

LEMMA StepLateTyped ==
  ASSUME TypeOK, PhaseWritten, ProcTypeOK, DemandRead, LateTyped, LNext
  PROVE  LateTyped'
<1>1. ASSUME late' = late PROVE LateTyped'
  BY <1>1 DEF LateTyped
<1>2. ASSUME NEW k \in Keys, LEvtWrite(k) PROVE LateTyped'
  <2>1. PICK w \in EvtWrites(k) : late' = late \/ MayLand({w})
    BY <1>2 DEF LEvtWrite
  <2>2. {w} \subseteq GoodWrites /\ IsFiniteSet({w})
    BY <2>1, EvtWritesGood, FS_Singleton
  <2> QED
    BY <1>1, <2>1, <2>2, MayLandGood
<1>3. ASSUME NEW k \in Keys, Process(k) PROVE LateTyped'
  <2>1. CASE RequestFails(k)
    BY <2>1, MayLandGood, ProcWritesGood DEF RequestFails
  <2> QED
    BY <1>1, <1>3, <2>1 DEF Process, GetDemand, StaticNotReady, GetExisting, Calculate,
       CalculateBad, Reread, GetApplied, WriteAnswered, Answered
<1>4. ASSUME NEW k \in Keys,
             \/ LUser(k) \/ LEvtGet(k) \/ LEvtUpsert(k) \/ LBegin(k) \/ ProcReturns(k) \/ GarbageCollect(k)
      PROVE  late' = late
  BY <1>4 DEF LUser, LEvtGet, LEvtUpsert, LBegin, ProcReturns, GarbageCollect, life
<1>5. ASSUME NEW w \in late, LateLands(w) \/ LateIsLost(w) PROVE LateTyped'
  BY <1>5, LateLeaves DEF LateLands, LateIsLost
<1>6. CASE LRestart
  <2> DEFINE W == UNION {EvtWrites(k) \cup ProcWrites(k) : k \in Keys}
  <2>1. W \subseteq GoodWrites
    BY EvtWritesGood, ProcWritesGood
  <2>2. IsFiniteSet(W)
    BY RestartWritesFinite
  <2>3. MayLand(W)
    BY <1>6 DEF LRestart
  <2> HIDE DEF W
  <2> QED
    BY <2>1, <2>2, <2>3, MayLandGood
<1>7. UNCHANGED life => late' = late
  BY DEF life
<1> QED
  BY <1>1, <1>2, <1>3, <1>4, <1>5, <1>6, <1>7, LifeSteps

LEMMA GrantTyped ==
  ASSUME Published, NEW w \in GoodWrites, Accepted(w)
  PROVE  GrantAfter(w) \in GrantRec \cup {None}
<1>1. w.key \in Keys /\ grant[w.key] \in GrantRec \cup {None}
  BY DEF Published, GoodWrites, Writes
<1>2. CASE w.op = "spec"
  <2> DEFINE phase == IF grant[w.key] = None THEN "" ELSE grant[w.key].phase
  <2>1. GrantAfter(w) = [src |-> w.id, phase |-> phase]
    BY <1>2 DEF GrantAfter
  <2>2. phase \in {"", "Active", "Returned"} /\ w.id \in Ids
    BY <1>1, <1>2 DEF GrantRec, GoodWrites
  <2> HIDE DEF phase
  <2>3. [src |-> w.id, phase |-> phase] \in GrantRec
    BY <2>2 DEF GrantRec
  <2> QED
    BY <2>1, <2>3
<1>3. CASE w.op \in {"active", "returned"}
  <2>1. \/ GrantAfter(w) = [grant[w.key] EXCEPT !.phase = "Active"]
        \/ GrantAfter(w) = [grant[w.key] EXCEPT !.phase = "Returned"]
    BY <1>3 DEF GrantAfter
  <2>2. grant[w.key] \in GrantRec
    BY <1>1, <1>3 DEF Accepted
  <2>3. \A g \in GrantRec : /\ [g EXCEPT !.phase = "Active"] \in GrantRec
                            /\ [g EXCEPT !.phase = "Returned"] \in GrantRec
    BY DEF GrantRec
  <2> QED
    BY <2>1, <2>2, <2>3
<1>4. CASE w.op = "deleteGrant"
  BY <1>4 DEF GrantAfter
<1>5. CASE w.op \notin {"spec", "active", "returned", "deleteGrant"}
  <2>1. GrantAfter(w) = grant[w.key]
    BY <1>5 DEF GrantAfter
  <2> QED
    BY <1>1, <2>1
<1> QED
  BY <1>2, <1>3, <1>4, <1>5

LEMMA PhasesWritten == \A op \in DOMAIN PhaseOf : PhaseOf[op] \in Phases
<1>1. DOMAIN PhaseOf = {"Pending", "Updating", "fulfilled", "fail", "failRetry"}
  BY DEF PhaseOf
<1>2. /\ PhaseOf["Pending"] = "Pending" /\ PhaseOf["Updating"] = "Updating"
      /\ PhaseOf["fulfilled"] = "Fulfilled" /\ PhaseOf["fail"] = "Failed"
      /\ PhaseOf["failRetry"] = "Retrying"
  BY DEF PhaseOf
<1> QED
  BY <1>1, <1>2 DEF Phases

LEMMA EffectTyped ==
  ASSUME Published, NEW w \in GoodWrites, Accepted(w), TakesEffect(w)
  PROVE  Published'
<1>1. grant' \in [Keys -> GrantRec \cup {None}]
  BY GrantTyped DEF TakesEffect, Published
<1>2. CASE w.op \in DOMAIN PhaseOf
  <2>1. PhaseOf[w.op] \in Phases
    BY <1>2, PhasesWritten
  <2>3. w.id \in Ids \cup {None} /\ w.key \in Keys
    BY DEF GoodWrites, Writes
  <2>4. [phase |-> PhaseOf[w.op], by |-> w.id] \in StatusRec
    BY <2>1, <2>3 DEF StatusRec
  <2>2. status' = [status EXCEPT ![w.key] = [phase |-> PhaseOf[w.op], by |-> w.id]]
    BY <1>2 DEF TakesEffect
  <2> QED
    BY <1>1, <2>2, <2>4 DEF Published
<1>3. CASE w.op \notin DOMAIN PhaseOf
  BY <1>1, <1>3 DEF TakesEffect, Published
<1> QED
  BY <1>2, <1>3

LEMMA StepPublished ==
  ASSUME TypeOK, PhaseWritten, ProcTypeOK, DemandRead, LateTyped, Published, LNext
  PROVE  Published'
<1>1. ASSUME UNCHANGED <<status, grant>> PROVE Published'
  BY <1>1 DEF Published
<1>2. ASSUME NEW k \in Keys, LUser(k) PROVE Published'
  <2>1. NoStatus \in StatusRec
    BY DEF NoStatus, StatusRec, Phases
  <2> QED
    BY <1>2, <2>1 DEF LUser, Published, life
<1>3. ASSUME NEW k \in Keys, LEvtWrite(k) PROVE Published'
  <2>1. PICK w \in EvtWrites(k) : (Accepted(w) /\ TakesEffect(w)) \/ UNCHANGED <<status, grant>>
    BY <1>3 DEF LEvtWrite
  <2> QED
    BY <1>1, <2>1, EvtWritesGood, EffectTyped
<1>4. ASSUME NEW k \in Keys, WriteAnswered(k) PROVE Published'
  <2>1. PICK w \in ProcWrites(k) : (Accepted(w) /\ TakesEffect(w)) \/ UNCHANGED <<status, grant>>
    BY <1>4 DEF WriteAnswered
  <2> QED
    BY <1>1, <2>1, ProcWritesGood, EffectTyped
<1>5. ASSUME NEW k \in Keys, Process(k) PROVE Published'
  BY <1>1, <1>4, <1>5 DEF Process, GetDemand, StaticNotReady, GetExisting, Calculate,
     CalculateBad, Reread, GetApplied, RequestFails
<1>6. ASSUME NEW k \in Keys, GarbageCollect(k) PROVE Published'
  BY <1>6 DEF GarbageCollect, Published
<1>7. ASSUME NEW k \in Keys, LEvtGet(k) \/ LEvtUpsert(k) \/ LBegin(k) \/ ProcReturns(k)
      PROVE  UNCHANGED <<status, grant>>
  BY <1>7 DEF LEvtGet, LEvtUpsert, LBegin, ProcReturns
<1>8. ASSUME NEW w \in late, LateLands(w) \/ LateIsLost(w) PROVE Published'
  <2>1. w \in GoodWrites
    BY DEF LateTyped
  <2>2. CASE UNCHANGED <<status, grant>>
    BY <1>1, <2>2
  <2> QED
    BY <1>8, <2>1, <2>2, EffectTyped DEF LateLands, LateIsLost
<1>9. LRestart \/ UNCHANGED life => UNCHANGED <<status, grant>>
  BY DEF LRestart, life
<1> QED
  BY <1>1, <1>2, <1>3, <1>5, <1>6, <1>7, <1>8, <1>9, LifeSteps

LEMMA InitLTypes == LInit => LTypes
<1> SUFFICES ASSUME LInit PROVE LTypes
  OBVIOUS
<1>1. PhaseWritten
  <2>1. \A k \in Keys : evt[k].pc = "idle"
    BY EvtFacts DEF LInit, Init
  <2> QED
    BY <2>1 DEF LInit, PhaseWritten, Phases
<1>2. DemandRead
  BY IdleProcFacts DEF LInit, DemandRead
<1>3. LateTyped
  <2>1. late = {} /\ IsFiniteSet({}) /\ Cardinality({}) = 0
    BY FS_EmptySet DEF LInit
  <2> QED
    BY <2>1, LifecycleAssumption DEF LateTyped
<1>4. Published
  BY DEF LInit, Published, NoStatus, StatusRec, Phases
<1>5. procFaults \in 0..MaxProcFaults
  <2>1. procFaults = 0
    BY DEF LInit
  <2>2. MaxProcFaults \in Nat
    BY LifecycleAssumption
  <2> QED
    BY <2>1, <2>2
<1> QED
  BY <1>1, <1>2, <1>3, <1>4, <1>5 DEF LTypes

LEMMA StepLTypes ==
  TypeOK /\ LInd /\ LTypes /\ [LNext]_lvars => LTypes'
<1> SUFFICES ASSUME TypeOK, LInd, LTypes, [LNext]_lvars PROVE LTypes'
  OBVIOUS
<1> USE DEF LTypes, LInd
<1>1. CASE UNCHANGED lvars
  BY <1>1 DEF lvars, life, vars, PhaseWritten, DemandRead, LateTyped, Published
<1>2. CASE LNext
  <2>1. PhaseWritten' /\ DemandRead' /\ LateTyped' /\ Published'
    BY <1>2, StepPhaseWritten, StepDemandRead, StepLateTyped, StepPublished
  <2> DEFINE Faulted == procFaults' = procFaults \/ (procFaults < MaxProcFaults /\ procFaults' = procFaults + 1)
  <2>2. Faulted
    <3>1. ASSUME NEW k \in Keys, Process(k) PROVE Faulted
      BY <3>1 DEF Process, GetDemand, StaticNotReady, GetExisting, Calculate,
         CalculateBad, Reread, GetApplied, WriteAnswered, RequestFails, Answered
    <3>2. ASSUME NEW k \in Keys,
                 \/ LUser(k) \/ LEvtGet(k) \/ LEvtUpsert(k) \/ LEvtWrite(k)
                 \/ LBegin(k) \/ ProcReturns(k) \/ GarbageCollect(k)
          PROVE  procFaults' = procFaults
      BY <3>2 DEF LUser, LEvtGet, LEvtUpsert, LEvtWrite, LBegin, ProcReturns, GarbageCollect, life
    <3>3. ASSUME NEW w \in late, LateLands(w) \/ LateIsLost(w) PROVE procFaults' = procFaults
      BY <3>3 DEF LateLands, LateIsLost
    <3>4. LRestart \/ UNCHANGED life => procFaults' = procFaults
      BY DEF LRestart, life
    <3> QED
      BY <1>2, <3>1, <3>2, <3>3, <3>4, LifeSteps
  <2> QED
    BY <2>1, <2>2, LifecycleAssumption
<1> QED
  BY <1>1, <1>2

\* Types of the lifecycle: the API server never holds a status or a grant of another
\* form, whichever requests fail or land late; requests under way stay bounded.
THEOREM LifecycleTypes == LSpec => []LTypeOK
<1>1. LSpec => [](TypeOK /\ StaleExecutionCancelled)
  BY Implements, TypeCorrect, StaleIsCancelled, PTL
<1>2. TypeOK /\ LInd /\ LTypes => LTypeOK
  BY DEF LTypeOK, LInd, LTypes, PhaseWritten, LateTyped, Published, GoodWrites
<1> QED
  BY <1>1, <1>2, InitLInd, StepLInd, InitLTypes, StepLTypes, PTL DEF LSpec
=============================================================================
