---------------------------- MODULE PythonWorker ----------------------------
(***************************************************************************)
(* The algorithm server's single Python process and the callers that share *)
(* it (src/algorithm_server/go/algorithm/worker.go).  A caller holds the   *)
(* gate, a channel of capacity one, for a whole exchange: restart the      *)
(* process if there is none, write one line, read one line, judge it.  A   *)
(* process that misbehaves, or whose caller gives up, is recycled: its     *)
(* pipes are closed, it is killed, and it is replaced only once reaped.    *)
(*                                                                         *)
(* Each member of Calls is one call of calculate.  A generation of the     *)
(* process is its index in procs.  A line on a pipe is the message id and  *)
(* the call the payload belongs to; a result and a legal business error    *)
(* are both an "answer", which the caller passes on alike.  A process that *)
(* was killed or crashed is "dead" until the operating system reports it   *)
(* to the goroutine in Wait, which makes it "reaped".                      *)
(***************************************************************************)
EXTENDS Naturals, Sequences

CONSTANTS
  Calls,      \* the calls of calculate, each made once
  None,       \* no call, no reply, no line
  Closer,     \* the goroutine inside close
  MaxFaults   \* bound on crashes, stray answers and failed system calls

ASSUME CallsAssumption == /\ None \notin Calls
                          /\ Closer \notin Calls
                          /\ None # Closer
ASSUME FaultsAssumption == MaxFaults \in Nat

VARIABLES
  gate,       \* who holds the gate: a call, Closer or None
  process,    \* the generation in w.process, 0 for nil
  procs,      \* every generation started: its OS state, flag and pipes
  nextID,     \* the counter of message ids
  cancelled,  \* w.ctx is done
  closer,     \* progress of close, then its result
  pc,         \* where each call is
  ctxDone,    \* the call's own context is done
  id,         \* the message id of the call's exchange
  gen,        \* the generation the call's exchange uses
  reader,     \* the goroutine that writes and scans for the call
  scanned,    \* what that goroutine delivered on done
  why,        \* why the call recycles the process
  reply,      \* what the call returned
  faults

shared   == <<gate, process, procs>>
exchange == <<id, gen, reader, scanned>>
vars == <<shared, nextID, cancelled, closer, pc, ctxDone, exchange, why, reply, faults>>

Line == [id : Nat, for : Calls, kind : {"answer", "malformed"}]
Failure == [kind |-> "failure"]           \* a write or scan error, or end of file
Timeout == [kind |-> "timeout"]           \* workerTimeout: 504
Unavailable == [kind |-> "unavailable"]   \* internalWorkerError: 503
ASSUME NoneAssumption == None \notin Line \cup {Failure, Timeout, Unavailable}

NewProcess == [os |-> "running", stopping |-> FALSE, stdin |-> <<>>, stdout |-> <<>>]

Init ==
  /\ gate = None
  /\ process = 1
  /\ procs = <<NewProcess>>
  /\ nextID = 0
  /\ cancelled = FALSE
  /\ closer = "open"
  /\ pc = [c \in Calls |-> "idle"]
  /\ ctxDone = [c \in Calls |-> FALSE]
  /\ id = [c \in Calls |-> 0]
  /\ gen = [c \in Calls |-> 0]
  /\ reader = [c \in Calls |-> "none"]
  /\ scanned = [c \in Calls |-> None]
  /\ why = [c \in Calls |-> "none"]
  /\ reply = [c \in Calls |-> None]
  /\ faults = 0

Fault == /\ faults < MaxFaults
         /\ faults' = faults + 1

Goto(c, label) == pc' = [pc EXCEPT ![c] = label]

\* The call returns r; the deferred receive frees the gate if the call holds it.
Return(c, r) ==
  /\ Goto(c, "returned")
  /\ reply' = [reply EXCEPT ![c] = r]
  /\ gate' = IF gate = c THEN None ELSE gate

-----------------------------------------------------------------------------
\* Waiting for the gate.

Call(c) ==
  /\ pc[c] = "idle"
  /\ Goto(c, "queued")
  /\ UNCHANGED <<shared, nextID, cancelled, closer, ctxDone, exchange, why, reply, faults>>

\* The caller's deadline passes or its client goes away.
Expire(c) ==
  /\ pc[c] \notin {"idle", "returned"}
  /\ ~ctxDone[c]
  /\ ctxDone' = [ctxDone EXCEPT ![c] = TRUE]
  /\ UNCHANGED <<shared, nextID, cancelled, closer, pc, exchange, why, reply, faults>>

LeaveQueue(c) ==
  /\ pc[c] = "queued"
  /\ \/ ctxDone[c] /\ Return(c, Timeout)
     \/ cancelled /\ Return(c, Unavailable)
  /\ UNCHANGED <<process, procs, nextID, cancelled, closer, ctxDone, exchange, why, faults>>

Acquire(c) ==
  /\ pc[c] = "queued"
  /\ gate = None
  /\ gate' = c
  /\ Goto(c, "entered")
  /\ UNCHANGED <<process, procs, nextID, cancelled, closer, ctxDone, exchange, why, reply, faults>>

-----------------------------------------------------------------------------
\* Recycling: stop closes the pipes and kills, then waits for the reaper.

Stopped(p) == [p EXCEPT !.stopping = TRUE, !.os = IF @ = "running" THEN "dead" ELSE @]

\* The call begins to recycle the process it holds.
BeginRecycle(c, reason) ==
  /\ Goto(c, "recycling")
  /\ why' = [why EXCEPT ![c] = reason]
  /\ procs' = [procs EXCEPT ![process] = Stopped(@)]

\* Mutant: the call does not wait for its reader.
AfterRecycle_NoWait(c, reaped) ==
  IF why[c] = "restart" /\ reaped
    THEN Goto(c, "backoff") /\ UNCHANGED <<gate, reply>>
    ELSE Return(c, IF why[c] = "timeout" THEN Timeout ELSE Unavailable)

\* Once recycle is over the call restarts, waits for its reader, or fails.
AfterRecycle(c, reaped) ==
  \/ /\ why[c] = "restart" /\ reaped
     /\ Goto(c, "backoff") /\ UNCHANGED <<gate, reply>>
  \/ /\ why[c] \in {"timeout", "closed"}
     /\ Goto(c, "draining") /\ UNCHANGED <<gate, reply>>
  \/ /\ why[c] = "failed" \/ (why[c] = "restart" /\ ~reaped)
     /\ Return(c, Unavailable)

\* Only a process that was reaped is forgotten.
Recycled(c) ==
  /\ pc[c] = "recycling"
  /\ procs[process].os = "reaped"
  /\ process' = 0
  /\ AfterRecycle(c, TRUE)
  /\ UNCHANGED <<procs, nextID, cancelled, closer, ctxDone, exchange, why, faults>>

\* Mutant: the process is forgotten although it was not reaped.
RecycleTimesOut_Forgets(c) ==
  /\ pc[c] = "recycling"
  /\ procs[process].os # "reaped"
  /\ process' = 0
  /\ AfterRecycle(c, FALSE)
  /\ UNCHANGED <<procs, nextID, cancelled, closer, ctxDone, exchange, why, faults>>

\* Mutant: stop waits for the reaper without a timer.
RecycleTimesOut_Never(c) == FALSE

\* The cleanup timer fires first: the process stays, marked as stopping.
RecycleTimesOut(c) ==
  /\ pc[c] = "recycling"
  /\ procs[process].os # "reaped"
  /\ AfterRecycle(c, FALSE)
  /\ UNCHANGED <<process, procs, nextID, cancelled, closer, ctxDone, exchange, why, faults>>

\* The pipes are closed, so the reader ends; only then does the call return.
Drained(c) ==
  /\ pc[c] = "draining"
  /\ reader[c] = "done"
  /\ reader' = [reader EXCEPT ![c] = "none"]
  /\ scanned' = [scanned EXCEPT ![c] = None]
  /\ Return(c, IF why[c] = "timeout" THEN Timeout ELSE Unavailable)
  /\ UNCHANGED <<process, procs, nextID, cancelled, closer, ctxDone, id, gen, why, faults>>

-----------------------------------------------------------------------------
\* Holding the gate: make sure there is a process, then exchange one line.

Enter(c) ==
  /\ pc[c] = "entered"
  /\ \/ /\ ctxDone[c] \/ cancelled
        /\ Return(c, IF ctxDone[c] THEN Timeout ELSE Unavailable)
        /\ UNCHANGED <<procs, why>>
     \/ /\ ~ctxDone[c] /\ ~cancelled
        /\ process # 0 /\ procs[process].stopping
        /\ BeginRecycle(c, "restart")
        /\ UNCHANGED <<gate, reply>>
     \/ /\ ~ctxDone[c] /\ ~cancelled
        /\ process = 0
        /\ Goto(c, "backoff")
        /\ UNCHANGED <<gate, procs, why, reply>>
     \/ /\ ~ctxDone[c] /\ ~cancelled
        /\ process # 0 /\ ~procs[process].stopping
        /\ Goto(c, "ready")
        /\ UNCHANGED <<gate, procs, why, reply>>
  /\ UNCHANGED <<process, nextID, cancelled, closer, ctxDone, exchange, faults>>

\* The backoff timer fires; the command refuses to start under a done context.
Backoff(c) ==
  /\ pc[c] = "backoff"
  /\ \/ ctxDone[c] /\ Return(c, Timeout)
     \/ cancelled /\ Return(c, Unavailable)
     \/ ~cancelled /\ Goto(c, "starting") /\ UNCHANGED <<gate, reply>>
  /\ UNCHANGED <<process, procs, nextID, cancelled, closer, ctxDone, exchange, why, faults>>

\* Mutant: w.process is assigned whatever the start returned.
Start_KeepsFailed(c) ==
  /\ pc[c] = "starting"
  /\ process' = Len(procs) + 1
  /\ \/ /\ procs' = Append(procs, NewProcess)
        /\ Goto(c, "ready")
        /\ UNCHANGED <<gate, reply, faults>>
     \/ /\ Fault
        /\ Return(c, Unavailable)
        /\ UNCHANGED procs
  /\ UNCHANGED <<nextID, cancelled, closer, ctxDone, exchange, why>>

Start(c) ==
  /\ pc[c] = "starting"
  /\ \/ /\ procs' = Append(procs, NewProcess)
        /\ process' = Len(procs) + 1
        /\ Goto(c, "ready")
        /\ UNCHANGED <<gate, reply, faults>>
     \/ /\ Fault
        /\ Return(c, Unavailable)
        /\ UNCHANGED <<process, procs>>
  /\ UNCHANGED <<nextID, cancelled, closer, ctxDone, exchange, why>>

\* The evidence line is appended first; failing that, nothing is sent.
Send(c) ==
  /\ pc[c] = "ready"
  /\ nextID' = nextID + 1
  /\ id' = [id EXCEPT ![c] = nextID + 1]
  /\ \/ /\ gen' = [gen EXCEPT ![c] = process]
        /\ reader' = [reader EXCEPT ![c] = "write"]
        /\ Goto(c, "exchange")
        /\ UNCHANGED <<gate, reply, faults>>
     \/ /\ Fault
        /\ Return(c, Unavailable)
        /\ UNCHANGED <<gen, reader>>
  /\ UNCHANGED <<process, procs, cancelled, closer, ctxDone, scanned, why>>

\* The call's context or the worker's is done before the answer is taken.
Interrupt(c) ==
  /\ pc[c] = "exchange"
  /\ \/ ctxDone[c] /\ BeginRecycle(c, "timeout")
     \/ cancelled /\ BeginRecycle(c, "closed")
  /\ UNCHANGED <<gate, process, nextID, cancelled, closer, ctxDone, exchange, reply, faults>>

\* Mutant: the message id is not compared.
Answers_AnyId(c, line) ==
  /\ line # Failure
  /\ line.kind = "answer"

\* A line that answers this very message.
Answers(c, line) ==
  /\ line # Failure
  /\ line.kind = "answer"
  /\ line.id = id[c]

\* The caller judges what was read: a good line is returned, anything else
\* recycles the process, except that failing to record a line only fails.
Judge(c) ==
  /\ pc[c] = "exchange"
  /\ reader[c] = "done"
  /\ reader' = [reader EXCEPT ![c] = "none"]
  /\ scanned' = [scanned EXCEPT ![c] = None]
  /\ \/ /\ Answers(c, scanned[c])
        /\ Return(c, scanned[c])
        /\ UNCHANGED <<procs, why, faults>>
     \/ /\ ~Answers(c, scanned[c])
        /\ BeginRecycle(c, "failed")
        /\ UNCHANGED <<gate, reply, faults>>
     \/ /\ scanned[c] # Failure
        /\ Fault
        /\ Return(c, Unavailable)
        /\ UNCHANGED <<procs, why>>
  /\ UNCHANGED <<process, nextID, cancelled, closer, ctxDone, id, gen>>

-----------------------------------------------------------------------------
\* The goroutine of one exchange, on the pipes of the generation it was given.

Deliver(c, what) ==
  /\ reader' = [reader EXCEPT ![c] = "done"]
  /\ scanned' = [scanned EXCEPT ![c] = what]

\* A full pipe blocks the write: the step may never be taken.
Write(c) ==
  LET p == procs[gen[c]] IN
  /\ reader[c] = "write"
  /\ ~p.stopping /\ p.os = "running"
  /\ procs' = [procs EXCEPT ![gen[c]].stdin = Append(@, [id |-> id[c], for |-> c])]
  /\ reader' = [reader EXCEPT ![c] = "scan"]
  /\ UNCHANGED <<gate, process, nextID, cancelled, closer, pc, ctxDone, id, gen, scanned, why, reply, faults>>

Scan(c) ==
  LET p == procs[gen[c]] IN
  /\ reader[c] = "scan"
  /\ ~p.stopping /\ p.stdout # <<>>
  /\ procs' = [procs EXCEPT ![gen[c]].stdout = Tail(@)]
  /\ Deliver(c, Head(p.stdout))
  /\ UNCHANGED <<gate, process, nextID, cancelled, closer, pc, ctxDone, id, gen, why, reply, faults>>

\* Closed pipes, or a process that is gone, end the write or the scan.  (A scan
\* may still find a buffered line after stop; the draining call discards it.)
BrokenPipe(c) ==
  LET p == procs[gen[c]] IN
  /\ reader[c] \in {"write", "scan"}
  /\ \/ p.stopping
     \/ p.os # "running" /\ (reader[c] = "scan" => p.stdout = <<>>)
  /\ Deliver(c, Failure)
  /\ UNCHANGED <<shared, nextID, cancelled, closer, pc, ctxDone, id, gen, why, reply, faults>>

-----------------------------------------------------------------------------
\* The Python process answers each line with one line under the same id.  A
\* faulty one answers twice, writes a line Go cannot accept, or dies.

Python(g) ==
  LET p == procs[g]
      request == Head(p.stdin)
      line(kind) == [id |-> request.id, for |-> request.for, kind |-> kind]
      Put(lines) == procs' = [procs EXCEPT ![g].stdin = Tail(@),
                                           ![g].stdout = @ \o lines]
  IN
  /\ p.os = "running"
  /\ p.stdin # <<>>
  /\ \/ Put(<<line("answer")>>) /\ UNCHANGED faults
     \/ Put(<<line("answer"), line("answer")>>) /\ Fault
     \/ Put(<<line("malformed")>>) /\ Fault
  /\ UNCHANGED <<gate, process, nextID, cancelled, closer, pc, ctxDone, exchange, why, reply>>

Crash(g) ==
  /\ procs[g].os = "running"
  /\ Fault
  /\ procs' = [procs EXCEPT ![g].os = "dead"]
  /\ UNCHANGED <<gate, process, nextID, cancelled, closer, pc, ctxDone, exchange, why, reply>>

\* Mutant: the command is not bound to w.ctx.
KilledByContext_Never(g) == FALSE

\* The command was started under w.ctx, whose end kills it.
KilledByContext(g) ==
  /\ cancelled
  /\ procs[g].os = "running"
  /\ procs' = [procs EXCEPT ![g].os = "dead"]
  /\ UNCHANGED <<gate, process, nextID, cancelled, closer, pc, ctxDone, exchange, why, reply, faults>>

\* Wait returns: it runs only once stop was called.
Reap(g) ==
  /\ procs[g].stopping
  /\ procs[g].os = "dead"
  /\ procs' = [procs EXCEPT ![g].os = "reaped"]
  /\ UNCHANGED <<gate, process, nextID, cancelled, closer, pc, ctxDone, exchange, why, reply, faults>>

-----------------------------------------------------------------------------
\* Shutdown: by Close, or because the parent context is done.

CancelParent ==
  /\ ~cancelled
  /\ cancelled' = TRUE
  /\ UNCHANGED <<shared, nextID, closer, pc, ctxDone, exchange, why, reply, faults>>

\* closeOnce: later calls only wait for this one and return its result.
BeginClose ==
  /\ closer = "open"
  /\ cancelled' = TRUE
  /\ closer' = "waiting"
  /\ UNCHANGED <<shared, nextID, pc, ctxDone, exchange, why, reply, faults>>

\* Mutant: close does not wait for the gate.
CloseTakesGate_Barges ==
  /\ closer = "waiting"
  /\ closer' = IF process = 0 THEN "clean" ELSE "busy"
  /\ UNCHANGED <<shared, nextID, cancelled, pc, ctxDone, exchange, why, reply, faults>>

CloseTakesGate ==
  /\ closer = "waiting"
  /\ gate = None
  /\ \/ /\ process = 0
        /\ closer' = "clean"
        /\ UNCHANGED <<gate, procs>>
     \/ /\ process # 0
        /\ gate' = Closer
        /\ closer' = "recycling"
        /\ procs' = [procs EXCEPT ![process] = Stopped(@)]
  /\ UNCHANGED <<process, nextID, cancelled, pc, ctxDone, exchange, why, reply, faults>>

CloseGivesUp ==
  /\ closer = "waiting"
  /\ gate # None
  /\ closer' = "busy"
  /\ UNCHANGED <<shared, nextID, cancelled, pc, ctxDone, exchange, why, reply, faults>>

CloseEnds ==
  /\ closer = "recycling"
  /\ gate' = None
  /\ \/ /\ procs[process].os = "reaped"
        /\ process' = 0
        /\ closer' = "clean"
     \/ /\ procs[process].os # "reaped"
        /\ closer' = "unreaped"
        /\ UNCHANGED process
  /\ UNCHANGED <<procs, nextID, cancelled, pc, ctxDone, exchange, why, reply, faults>>

-----------------------------------------------------------------------------
\* What a call's own goroutine does next.
Step(c) ==
  \/ LeaveQueue(c) \/ Acquire(c) \/ Enter(c)
  \/ Recycled(c) \/ RecycleTimesOut(c) \/ Drained(c)
  \/ Backoff(c) \/ Start(c) \/ Send(c)
  \/ Interrupt(c) \/ Judge(c)

Close == CloseTakesGate \/ CloseGivesUp \/ CloseEnds

Next ==
  \/ \E c \in Calls : \/ Call(c) \/ Expire(c) \/ Step(c)
                      \/ Write(c) \/ Scan(c) \/ BrokenPipe(c)
  \/ \E g \in DOMAIN procs : Python(g) \/ Crash(g) \/ KilledByContext(g) \/ Reap(g)
  \/ CancelParent \/ BeginClose \/ Close

\* The goroutines run; a call's context ends (the PRC's client has a timeout).
\* The Python process may hang, and the system may never report a death.
Fairness ==
  /\ \A c \in Calls : /\ WF_vars(Expire(c))
                      /\ WF_vars(Step(c))
                      /\ WF_vars(BrokenPipe(c))
  /\ WF_vars(\E g \in DOMAIN procs : KilledByContext(g))
  /\ WF_vars(cancelled /\ BeginClose)
  /\ WF_vars(Close)

Spec == Init /\ [][Next]_vars /\ Fairness

-----------------------------------------------------------------------------
Labels == {"idle", "queued", "entered", "recycling", "backoff", "starting",
           "ready", "exchange", "draining", "returned"}

\* The type invariant.
TypeOK ==
  /\ gate \in Calls \cup {None, Closer}
  /\ procs \in Seq([os : {"running", "dead", "reaped"}, stopping : BOOLEAN,
                    stdin : Seq([id : Nat, for : Calls]), stdout : Seq(Line)])
  /\ process \in 0..Len(procs)
  /\ nextID \in Nat
  /\ cancelled \in BOOLEAN
  /\ closer \in {"open", "waiting", "recycling", "clean", "unreaped", "busy"}
  /\ pc \in [Calls -> Labels]
  /\ ctxDone \in [Calls -> BOOLEAN]
  /\ id \in [Calls -> Nat]
  /\ gen \in [Calls -> 0..Len(procs)]
  /\ reader \in [Calls -> {"none", "write", "scan", "done"}]
  /\ scanned \in [Calls -> Line \cup {None, Failure}]
  /\ why \in [Calls -> {"none", "restart", "timeout", "closed", "failed"}]
  /\ reply \in [Calls -> Line \cup {None, Timeout, Unavailable}]
  /\ faults \in 0..MaxFaults

\* "A process whose reaping is not complete is not replaced": a process that
\* has not been reaped is always the one the worker still holds, so two are
\* never alive together and none is lost, whoever stopped it (recycle).
OneProcess == \A g \in DOMAIN procs : procs[g].os # "reaped" => g = process

\* The id ties an answer to its request: a call that returns an answer returns
\* the one computed from its own payload, even when a process answered twice
\* and the stray line is still in the pipe for the next call (calculate).
OwnAnswer == \A c \in Calls : reply[c] \in Line => reply[c].for = c /\ reply[c].kind = "answer"

\* Where a call is for those that wait for it - it calculates from the moment it has
\* the gate and has seen that the worker is open - and whose answer it returned.
Phase ==
  [c \in Calls |->
     IF pc[c] = "idle" THEN "out"
     ELSE IF pc[c] \in {"queued", "entered"} THEN "waiting"
     ELSE IF pc[c] # "returned" THEN "calculating"
     ELSE IF reply[c] \in Line THEN "answered" ELSE "refused"]
AnswerFor ==
  [c \in Calls |-> IF reply[c] \in Line /\ reply[c].kind = "answer" THEN reply[c].for ELSE None]

\* The worker keeps what the service relies on, although processes die, answer twice and
\* are replaced: one call at a time, each answered from its own payload, and none begins
\* once the worker is closed (calculate).
Serial == INSTANCE SerialWorker WITH phase <- Phase, answer <- AnswerFor, closed <- cancelled
SerialCalls == Serial!SSpec

\* "No reader is left to the next request": a goroutine that writes or scans
\* belongs to the call that holds the gate (calculate waits for done).
NoLeftoverReader == \A c \in Calls : reader[c] # "none" => gate = c

\* When close returns nil there is no process, and none ever again, although
\* calls may have been queued, starting one or recycling one meanwhile.
CleanClose == closer = "clean" => \A g \in DOMAIN procs : procs[g].os = "reaped"

\* Every call returns within its context, even if Python hangs, blocks the
\* write, or cannot be reaped.
EveryCallReturns == \A c \in Calls : pc[c] = "queued" ~> pc[c] = "returned"

\* Once the context of the worker is done close returns and, in the end, no
\* process runs, also when close gave up waiting for the gate.
NothingRunsOn ==
  cancelled ~> [](/\ closer \in {"clean", "unreaped", "busy"}
                  /\ \A g \in DOMAIN procs : procs[g].os # "running")
=============================================================================
