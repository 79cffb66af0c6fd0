------------------------- MODULE PythonWorkerProofs -------------------------
(***************************************************************************)
(* Theorems about PythonWorker for any set of calls and any bound on       *)
(* faults.  The inductive invariant says which phases of a call hold the   *)
(* gate and what they may assume about the process, that every line on a   *)
(* pipe matches the call whose message id it carries, and that a clean     *)
(* close leaves no call that could start a process.  From it follows that  *)
(* PythonWorker implements SerialWorker.                                   *)
(***************************************************************************)
EXTENDS PythonWorker, TLAPS, SequenceTheorems

\* A line is good if the call whose exchange has its id is the one it is for.
Matches(n, i, x) == x.id \in 1..n /\ \A c \in Calls : i[c] = x.id => x.for = c
Requests(n, i) == {x \in [id : Nat, for : Calls] : Matches(n, i, x)}
Lines(n, i) == {x \in Line : Matches(n, i, x)}
Procs(n, i) == [os : {"running", "dead", "reaped"}, stopping : BOOLEAN,
                stdin : Seq(Requests(n, i)), stdout : Seq(Lines(n, i))]

\* TypeOK, with what is on the pipes and delivered by the readers narrowed.
Typed ==
  /\ gate \in Calls \cup {None, Closer}
  /\ procs \in Seq(Procs(nextID, id))
  /\ process \in 0..Len(procs)
  /\ nextID \in Nat
  /\ cancelled \in BOOLEAN
  /\ closer \in {"open", "waiting", "recycling", "clean", "unreaped", "busy"}
  /\ pc \in [Calls -> Labels]
  /\ ctxDone \in [Calls -> BOOLEAN]
  /\ id \in [Calls -> 0..nextID]
  /\ gen \in [Calls -> 0..Len(procs)]
  /\ reader \in [Calls -> {"none", "write", "scan", "done"}]
  /\ scanned \in [Calls -> Lines(nextID, id) \cup {None, Failure}]
  /\ why \in [Calls -> {"none", "restart", "timeout", "closed", "failed"}]
  /\ reply \in [Calls -> Line \cup {None, Timeout, Unavailable}]
  /\ faults \in 0..MaxFaults

Holding == {"entered", "recycling", "backoff", "starting", "ready", "exchange", "draining"}

\* Who holds the gate.
Holders ==
  /\ \A c \in Calls : pc[c] \in Holding => gate = c
  /\ closer = "recycling" => gate = Closer

\* What the holder knows of w.process.
HolderProcess ==
  /\ \A c \in Calls : /\ pc[c] \in {"recycling", "ready", "exchange"} => process # 0
                      /\ pc[c] \in {"backoff", "starting"} => process = 0
  /\ closer = "recycling" => process # 0

\* When a reader exists, on which generation, and under which message id.
Readers ==
  \A c \in Calls :
    /\ reader[c] # "none" =>
         /\ pc[c] \in {"exchange", "recycling", "draining"}
         /\ pc[c] = "recycling" => why[c] \in {"timeout", "closed"}
         /\ gen[c] # 0 /\ id[c] # 0
    /\ reader[c] = "done" => scanned[c] # None
    /\ \A d \in Calls : id[c] = id[d] /\ id[c] # 0 => c = d

\* A clean close leaves no process and no call that could still start one.
Finished ==
  closer = "clean" => /\ cancelled
                      /\ process = 0
                      /\ \A c \in Calls : pc[c] # "starting"
CloseCancels == closer # "open" => cancelled

IInv == Typed /\ Holders /\ HolderProcess /\ Readers /\ Finished /\ CloseCancels
             /\ OneProcess /\ OwnAnswer

-----------------------------------------------------------------------------
\* Replacing one generation by a well-typed one keeps the sequence well typed.
LEMMA ReplaceProc ==
  ASSUME NEW S, NEW s \in Seq(S), NEW g \in 1..Len(s), NEW p \in S
  PROVE  /\ [s EXCEPT ![g] = p] \in Seq(S)
         /\ Len([s EXCEPT ![g] = p]) = Len(s)
         /\ DOMAIN [s EXCEPT ![g] = p] = DOMAIN s
BY ExceptSeq

\* A generation of a well-typed sequence is well typed.
LEMMA ProcTyped ==
  ASSUME Typed
  PROVE  /\ Len(procs) \in Nat
         /\ DOMAIN procs = 1..Len(procs)
         /\ \A g \in 1..Len(procs) : procs[g] \in Procs(nextID, id)
BY ElementOfSeq, LenProperties DEF Typed

\* What changes the flag and the state of one generation only.
LEMMA StoppedTyped ==
  ASSUME Typed, NEW g \in 1..Len(procs)
  PROVE  /\ [procs EXCEPT ![g] = Stopped(@)] \in Seq(Procs(nextID, id))
         /\ Len([procs EXCEPT ![g] = Stopped(@)]) = Len(procs)
         /\ DOMAIN [procs EXCEPT ![g] = Stopped(@)] = DOMAIN procs
<1>1. procs[g] \in Procs(nextID, id)
  BY ProcTyped
<1>2. Stopped(procs[g]) \in Procs(nextID, id)
  BY <1>1 DEF Stopped, Procs
<1>. QED
  BY <1>2, ReplaceProc DEF Typed

LEMMA DeadTyped ==
  ASSUME Typed, NEW g \in 1..Len(procs), NEW os \in {"dead", "reaped"}
  PROVE  /\ [procs EXCEPT ![g].os = os] \in Seq(Procs(nextID, id))
         /\ Len([procs EXCEPT ![g].os = os]) = Len(procs)
         /\ DOMAIN [procs EXCEPT ![g].os = os] = DOMAIN procs
<1>1. procs[g] \in Procs(nextID, id)
  BY ProcTyped
<1>2. [procs[g] EXCEPT !.os = os] \in Procs(nextID, id)
  BY <1>1 DEF Procs
<1>. QED
  BY <1>2, ReplaceProc DEF Typed

\* Return, whatever is returned, and what it leaves alone.
LEMMA ReturnTyped ==
  ASSUME Typed, NEW c \in Calls, NEW r \in Line \cup {Timeout, Unavailable}, Return(c, r)
  PROVE  /\ gate' \in Calls \cup {None, Closer}
         /\ pc' \in [Calls -> Labels]
         /\ reply' \in [Calls -> Line \cup {None, Timeout, Unavailable}]
BY DEF Typed, Return, Goto, Labels

LEMMA GotoTyped ==
  ASSUME Typed, NEW c \in Calls, NEW l \in Labels, Goto(c, l)
  PROVE  pc' \in [Calls -> Labels]
BY DEF Typed, Goto

LEMMA FaultTyped ==
  ASSUME Typed, Fault
  PROVE  faults' \in 0..MaxFaults
BY FaultsAssumption DEF Typed, Fault

LEMMA BeginRecycleTyped ==
  ASSUME Typed, NEW c \in Calls, process # 0,
         NEW w \in {"restart", "timeout", "closed", "failed"}, BeginRecycle(c, w)
  PROVE  /\ procs' \in Seq(Procs(nextID, id))
         /\ Len(procs') = Len(procs)
         /\ pc' \in [Calls -> Labels]
         /\ why' \in [Calls -> {"none", "restart", "timeout", "closed", "failed"}]
<1>1. process \in 1..Len(procs)
  BY ProcTyped DEF Typed
<1>2. /\ procs' \in Seq(Procs(nextID, id))
      /\ Len(procs') = Len(procs)
  BY <1>1, StoppedTyped DEF BeginRecycle
<1>. QED
  BY <1>2, GotoTyped DEF Typed, BeginRecycle, Labels

LEMMA AfterRecycleTyped ==
  ASSUME Typed, NEW c \in Calls, NEW b \in BOOLEAN, AfterRecycle(c, b)
  PROVE  /\ gate' \in Calls \cup {None, Closer}
         /\ pc' \in [Calls -> Labels]
         /\ reply' \in [Calls -> Line \cup {None, Timeout, Unavailable}]
<1>1. CASE Goto(c, "backoff") /\ UNCHANGED <<gate, reply>>
  BY <1>1, GotoTyped DEF Typed, Labels
<1>2. CASE Goto(c, "draining") /\ UNCHANGED <<gate, reply>>
  BY <1>2, GotoTyped DEF Typed, Labels
<1>3. CASE Return(c, Unavailable)
  BY <1>3, ReturnTyped
<1>. QED
  BY <1>1, <1>2, <1>3 DEF AfterRecycle

\* The initial state satisfies the invariant.
THEOREM InitIInv == Init => IInv
<1>. SUFFICES ASSUME Init PROVE IInv
  OBVIOUS
<1>1. <<NewProcess>> \in Seq(Procs(0, [c \in Calls |-> 0])) /\ Len(<<NewProcess>>) = 1
  BY DEF NewProcess, Procs
<1>2. Typed
  <2>1. procs \in Seq(Procs(nextID, id)) /\ Len(procs) = 1
    BY <1>1 DEF Init
  <2>2. scanned \in [Calls -> Lines(nextID, id) \cup {None, Failure}]
    BY DEF Init
  <2>3. reply \in [Calls -> Line \cup {None, Timeout, Unavailable}]
    BY DEF Init
  <2>4. /\ id \in [Calls -> 0..nextID]
        /\ gen \in [Calls -> 0..Len(procs)]
        /\ process \in 0..Len(procs)
        /\ faults \in 0..MaxFaults
    BY <2>1, FaultsAssumption DEF Init
  <2>5. /\ pc \in [Calls -> Labels]
        /\ ctxDone \in [Calls -> BOOLEAN]
        /\ reader \in [Calls -> {"none", "write", "scan", "done"}]
        /\ why \in [Calls -> {"none", "restart", "timeout", "closed", "failed"}]
    BY DEF Init, Labels
  <2>. QED
    BY <2>1, <2>2, <2>3, <2>4, <2>5 DEF Init, Typed
<1>3. OneProcess
  BY <1>1 DEF Init, OneProcess
<1>4. OwnAnswer
  BY NoneAssumption DEF Init, OwnAnswer
<1>. QED
  BY <1>2, <1>3, <1>4 DEF Init, IInv, Holders, Holding, HolderProcess, Readers, Finished, CloseCancels


-----------------------------------------------------------------------------
\* Steps of a call outside its exchange keep the variables well typed.
USE DEF shared, exchange

LEMMA WaitingTyped ==
  ASSUME IInv, NEW c \in Calls,
         \/ Call(c) \/ Expire(c) \/ LeaveQueue(c) \/ Acquire(c)
         \/ Recycled(c) \/ RecycleTimesOut(c) \/ Drained(c) \/ Backoff(c)
  PROVE  Typed'
<1>0. Typed
  BY DEF IInv
<1>1. CASE Call(c)
  BY <1>0, <1>1, GotoTyped DEF Typed, Call, Labels
<1>2. CASE Expire(c)
  BY <1>0, <1>2 DEF Typed, Expire
<1>3. CASE LeaveQueue(c)
  BY <1>0, <1>3, ReturnTyped DEF Typed, LeaveQueue
<1>4. CASE Acquire(c)
  BY <1>0, <1>4, GotoTyped DEF Typed, Acquire, Labels
<1>5. CASE Recycled(c)
  <2>1. AfterRecycle(c, TRUE)
    BY <1>5 DEF Recycled
  <2>2. /\ gate' \in Calls \cup {None, Closer}
        /\ pc' \in [Calls -> Labels]
        /\ reply' \in [Calls -> Line \cup {None, Timeout, Unavailable}]
    BY <1>0, <2>1, AfterRecycleTyped
  <2>3. process' \in 0..Len(procs')
    BY <1>0, <1>5, ProcTyped DEF Recycled
  <2>. QED
    BY <1>0, <1>5, <2>2, <2>3 DEF Typed, Recycled
<1>6. CASE RecycleTimesOut(c)
  BY <1>0, <1>6, AfterRecycleTyped DEF Typed, RecycleTimesOut
<1>7. CASE Drained(c)
  BY <1>0, <1>7, ReturnTyped DEF Typed, Drained
<1>8. CASE Backoff(c)
  BY <1>0, <1>8, ReturnTyped, GotoTyped DEF Typed, Backoff, Labels
<1>. QED
  BY <1>1, <1>2, <1>3, <1>4, <1>5, <1>6, <1>7, <1>8


\* Entering, starting and sending.
LEMMA EnterTyped ==
  ASSUME IInv, NEW c \in Calls, Enter(c)
  PROVE  Typed'
<1>1. CASE /\ Return(c, IF ctxDone[c] THEN Timeout ELSE Unavailable)
           /\ UNCHANGED <<procs, why>>
  BY <1>1, ReturnTyped DEF IInv, Typed, Enter
<1>2. CASE process # 0 /\ BeginRecycle(c, "restart") /\ UNCHANGED <<gate, reply>>
  BY <1>2, BeginRecycleTyped DEF IInv, Typed, Enter
<1>3. CASE Goto(c, "backoff") /\ UNCHANGED <<gate, procs, why, reply>>
  BY <1>3, GotoTyped DEF IInv, Typed, Enter, Labels
<1>4. CASE Goto(c, "ready") /\ UNCHANGED <<gate, procs, why, reply>>
  BY <1>4, GotoTyped DEF IInv, Typed, Enter, Labels
<1>. QED
  BY <1>1, <1>2, <1>3, <1>4 DEF Enter

LEMMA StartTyped ==
  ASSUME IInv, NEW c \in Calls, Start(c)
  PROVE  Typed'
<1>1. NewProcess \in Procs(nextID, id)
  BY DEF NewProcess, Procs
<1>2. CASE /\ procs' = Append(procs, NewProcess)
           /\ process' = Len(procs) + 1
           /\ Goto(c, "ready")
           /\ UNCHANGED <<gate, reply, faults>>
  <2>1. procs' \in Seq(Procs(nextID, id)) /\ Len(procs') = Len(procs) + 1 /\ Len(procs) \in Nat
    BY <1>1, <1>2, AppendProperties, LenProperties DEF IInv, Typed
  <2>2. gen' \in [Calls -> 0..Len(procs')] /\ process' \in 0..Len(procs')
    BY <1>2, <2>1 DEF IInv, Typed, Start
  <2>3. pc' \in [Calls -> Labels]
    BY <1>2, GotoTyped DEF IInv, Labels
  <2>. QED
    BY <1>2, <2>1, <2>2, <2>3 DEF IInv, Typed, Start
<1>3. CASE Fault /\ Return(c, Unavailable) /\ UNCHANGED <<process, procs>>
  BY <1>3, FaultTyped, ReturnTyped DEF IInv, Typed, Start
<1>. QED
  BY <1>2, <1>3 DEF Start

\* A new message id matches no line written before, so what was good stays good.
LEMMA SendKeepsLines ==
  ASSUME Typed, NEW c \in Calls
  PROVE  LET n == nextID + 1
             i == [id EXCEPT ![c] = nextID + 1]
         IN  /\ Lines(nextID, id) \subseteq Lines(n, i)
             /\ Seq(Procs(nextID, id)) \subseteq Seq(Procs(n, i))
<1>. DEFINE n == nextID + 1
            i == [id EXCEPT ![c] = nextID + 1]
<1>1. ASSUME NEW x, Matches(nextID, id, x) PROVE Matches(n, i, x)
  BY <1>1 DEF Matches, Typed
<1>2. Lines(nextID, id) \subseteq Lines(n, i) /\ Requests(nextID, id) \subseteq Requests(n, i)
  BY <1>1 DEF Lines, Requests
<1>3. Procs(nextID, id) \subseteq Procs(n, i)
  <2>1. Seq(Lines(nextID, id)) \subseteq Seq(Lines(n, i))
    BY <1>2, SeqMonotonic
  <2>2. Seq(Requests(nextID, id)) \subseteq Seq(Requests(n, i))
    BY <1>2, SeqMonotonic
  <2>. HIDE DEF n, i
  <2>. QED
    BY <2>1, <2>2 DEF Procs
<1>. QED
  BY <1>2, <1>3, SeqMonotonic

LEMMA SendTyped ==
  ASSUME IInv, NEW c \in Calls, Send(c)
  PROVE  Typed'
<1>0. Typed /\ process \in 0..Len(procs) /\ nextID' = nextID + 1 /\ nextID \in Nat
           /\ id' = [id EXCEPT ![c] = nextID + 1]
           /\ procs' = procs /\ scanned' = scanned
  BY DEF IInv, Typed, Send
<1>1. procs' \in Seq(Procs(nextID', id')) /\ Lines(nextID, id) \subseteq Lines(nextID', id')
  BY <1>0, SendKeepsLines DEF Typed
<1>2. scanned' \in [Calls -> Lines(nextID', id') \cup {None, Failure}]
  BY <1>0, <1>1 DEF Typed
<1>3. id' \in [Calls -> 0..nextID'] /\ nextID' \in Nat
  BY <1>0 DEF Typed
<1>4. CASE /\ gen' = [gen EXCEPT ![c] = process]
           /\ reader' = [reader EXCEPT ![c] = "write"]
           /\ Goto(c, "exchange")
           /\ UNCHANGED <<gate, reply, faults>>
  BY <1>0, <1>1, <1>2, <1>3, <1>4, GotoTyped DEF Typed, Send, Labels
<1>5. CASE Fault /\ Return(c, Unavailable) /\ UNCHANGED <<gen, reader>>
  BY <1>0, <1>1, <1>2, <1>3, <1>5, FaultTyped, ReturnTyped DEF Typed, Send
<1>. QED
  BY <1>4, <1>5 DEF Send


\* The exchange: interrupting, judging, and the goroutine at the pipes.
LEMMA InterruptTyped ==
  ASSUME IInv, NEW c \in Calls, Interrupt(c)
  PROVE  Typed'
<1>1. process # 0
  BY DEF IInv, HolderProcess, Interrupt
<1>2. PICK w \in {"timeout", "closed"} : BeginRecycle(c, w)
  BY DEF Interrupt
<1>. QED
  BY <1>1, <1>2, BeginRecycleTyped DEF IInv, Typed, Interrupt

LEMMA JudgeTyped ==
  ASSUME IInv, NEW c \in Calls, Judge(c)
  PROVE  Typed'
<1>0. /\ Typed
      /\ scanned[c] \in Lines(nextID, id) \cup {Failure}
      /\ process # 0
  BY DEF IInv, Typed, Readers, HolderProcess, Judge
<1>1. /\ reader' \in [Calls -> {"none", "write", "scan", "done"}]
      /\ scanned' \in [Calls -> Lines(nextID, id) \cup {None, Failure}]
  BY <1>0 DEF Typed, Judge
<1>2. CASE Answers(c, scanned[c]) /\ Return(c, scanned[c]) /\ UNCHANGED <<procs, why, faults>>
  <2>1. scanned[c] \in Line
    BY <1>0, <1>2 DEF Answers, Lines
  <2>. QED
    BY <1>0, <1>1, <1>2, <2>1, ReturnTyped DEF Typed, Judge
<1>3. CASE BeginRecycle(c, "failed") /\ UNCHANGED <<gate, reply, faults>>
  BY <1>0, <1>1, <1>3, BeginRecycleTyped DEF Typed, Judge
<1>4. CASE Fault /\ Return(c, Unavailable) /\ UNCHANGED <<procs, why>>
  BY <1>0, <1>1, <1>4, FaultTyped, ReturnTyped DEF Typed, Judge
<1>. QED
  BY <1>2, <1>3, <1>4 DEF Judge

\* The generation of a live reader.
LEMMA ReaderGeneration ==
  ASSUME IInv, NEW c \in Calls, reader[c] # "none"
  PROVE  gen[c] \in 1..Len(procs) /\ procs[gen[c]] \in Procs(nextID, id)
<1>1. gen[c] \in 1..Len(procs)
  BY ProcTyped DEF IInv, Typed, Readers
<1>. QED
  BY <1>1, ProcTyped DEF IInv

LEMMA WriteTyped ==
  ASSUME IInv, NEW c \in Calls, Write(c)
  PROVE  Typed'
<1>. DEFINE p == procs[gen[c]]
            request == [id |-> id[c], for |-> c]
<1>1. gen[c] \in 1..Len(procs) /\ p \in Procs(nextID, id)
  BY ReaderGeneration DEF Write
<1>2. request \in Requests(nextID, id)
  <2>1. id[c] \in 1..nextID /\ \A d \in Calls : id[d] = id[c] => c = d
    BY DEF IInv, Typed, Readers, Write
  <2>. QED
    BY <2>1 DEF Requests, Matches, IInv, Typed
<1>3. [p EXCEPT !.stdin = Append(@, request)] \in Procs(nextID, id)
  <2>1. p.stdin \in Seq(Requests(nextID, id))
    BY <1>1 DEF Procs
  <2>2. Append(p.stdin, request) \in Seq(Requests(nextID, id))
    BY <1>2, <2>1, AppendProperties
  <2>. HIDE DEF request
  <2>. QED
    BY <1>1, <2>2 DEF Procs
<1>4. procs' = [procs EXCEPT ![gen[c]] = [p EXCEPT !.stdin = Append(@, request)]]
  BY DEF Write
<1>5. procs' \in Seq(Procs(nextID, id)) /\ Len(procs') = Len(procs)
  <2>. HIDE DEF p
  <2>. QED
    BY <1>1, <1>3, <1>4, ReplaceProc DEF IInv, Typed
<1>. QED
  BY <1>5 DEF IInv, Typed, Write

\* What a scan takes from the pipe.
LEMMA ScanReadsLine ==
  ASSUME IInv, NEW c \in Calls, Scan(c)
  PROVE  /\ Head(procs[gen[c]].stdout) \in Lines(nextID, id)
         /\ Head(procs[gen[c]].stdout) # None
<1>1. /\ procs[gen[c]].stdout \in Seq(Lines(nextID, id))
      /\ procs[gen[c]].stdout # <<>>
  BY ReaderGeneration DEF Scan, Procs
<1>2. Head(procs[gen[c]].stdout) \in Lines(nextID, id)
  BY <1>1, HeadTailProperties
<1>. QED
  BY <1>2, NoneAssumption DEF Lines

LEMMA ScanTyped ==
  ASSUME IInv, NEW c \in Calls, Scan(c)
  PROVE  Typed'
<1>. DEFINE p == procs[gen[c]]
<1>1. gen[c] \in 1..Len(procs) /\ p \in Procs(nextID, id) /\ p.stdout # <<>>
  BY ReaderGeneration DEF Scan
<1>2. /\ Head(p.stdout) \in Lines(nextID, id)
      /\ Tail(p.stdout) \in Seq(Lines(nextID, id))
  BY <1>1, HeadTailProperties DEF Procs
<1>3. [p EXCEPT !.stdout = Tail(@)] \in Procs(nextID, id)
  BY <1>1, <1>2 DEF Procs
<1>4. procs' = [procs EXCEPT ![gen[c]] = [p EXCEPT !.stdout = Tail(@)]]
  BY DEF Scan
<1>5. procs' \in Seq(Procs(nextID, id)) /\ Len(procs') = Len(procs)
  <2>. HIDE DEF p
  <2>. QED
    BY <1>1, <1>3, <1>4, ReplaceProc DEF IInv, Typed
<1>6. /\ reader' \in [Calls -> {"none", "write", "scan", "done"}]
      /\ scanned' \in [Calls -> Lines(nextID, id) \cup {None, Failure}]
  BY <1>2 DEF IInv, Typed, Scan, Deliver
<1>. QED
  BY <1>5, <1>6 DEF IInv, Typed, Scan

LEMMA BrokenPipeTyped ==
  ASSUME IInv, NEW c \in Calls, BrokenPipe(c)
  PROVE  Typed'
BY DEF IInv, Typed, BrokenPipe, Deliver

-----------------------------------------------------------------------------
\* Steps of the process, of the operating system and of close.
LEMMA PythonTyped ==
  ASSUME IInv, NEW g \in DOMAIN procs, Python(g)
  PROVE  Typed'
<1>. DEFINE p == procs[g]
            request == Head(p.stdin)
            line(kind) == [id |-> request.id, for |-> request.for, kind |-> kind]
            Put(lines) == procs' = [procs EXCEPT ![g].stdin = Tail(@),
                                                 ![g].stdout = @ \o lines]
<1>1. g \in 1..Len(procs) /\ p \in Procs(nextID, id) /\ p.stdin # <<>>
  BY ProcTyped DEF IInv, Python
<1>2. p.stdin \in Seq(Requests(nextID, id)) /\ p.stdout \in Seq(Lines(nextID, id))
  BY <1>1 DEF Procs
<1>3. request \in Requests(nextID, id) /\ Tail(p.stdin) \in Seq(Requests(nextID, id))
  BY <1>1, <1>2, HeadTailProperties
<1>4. \A kind \in {"answer", "malformed"} : line(kind) \in Lines(nextID, id)
  BY <1>3 DEF Requests, Lines, Line, Matches
<1>5. ASSUME NEW lines \in Seq(Lines(nextID, id)), Put(lines)
      PROVE  procs' \in Seq(Procs(nextID, id)) /\ Len(procs') = Len(procs)
  <2>1. p.stdout \o lines \in Seq(Lines(nextID, id))
    BY <1>2, ConcatProperties
  <2>2. [p EXCEPT !.stdin = Tail(@), !.stdout = @ \o lines] \in Procs(nextID, id)
    BY <1>1, <1>3, <2>1 DEF Procs
  <2>3. procs' = [procs EXCEPT ![g] = [p EXCEPT !.stdin = Tail(@), !.stdout = @ \o lines]]
    BY <1>5
  <2>. HIDE DEF p
  <2>. QED
    BY <1>1, <2>2, <2>3, ReplaceProc DEF IInv, Typed
<1>6. procs' \in Seq(Procs(nextID, id)) /\ Len(procs') = Len(procs)
  <2>1. PICK lines \in Seq(Lines(nextID, id)) : Put(lines)
    <3>1. /\ <<line("answer")>> \in Seq(Lines(nextID, id))
          /\ <<line("answer"), line("answer")>> \in Seq(Lines(nextID, id))
          /\ <<line("malformed")>> \in Seq(Lines(nextID, id))
      <4>. HIDE DEF line
      <4>. QED
        BY <1>4
    <3>2. \/ Put(<<line("answer")>>)
          \/ Put(<<line("answer"), line("answer")>>)
          \/ Put(<<line("malformed")>>)
      BY DEF Python
    <3>. HIDE DEF line, Put
    <3>. QED
      BY <3>1, <3>2
  <2>. QED
    BY <1>5, <2>1
<1>7. faults' \in 0..MaxFaults
  BY FaultTyped DEF IInv, Typed, Python
<1>. QED
  BY <1>6, <1>7 DEF IInv, Typed, Python

LEMMA SystemTyped ==
  ASSUME IInv, NEW g \in DOMAIN procs, Crash(g) \/ KilledByContext(g) \/ Reap(g)
  PROVE  Typed'
<1>0. g \in 1..Len(procs) /\ Typed
  BY ProcTyped DEF IInv
<1>1. CASE Crash(g)
  BY <1>0, <1>1, DeadTyped, FaultTyped DEF Typed, Crash
<1>2. CASE KilledByContext(g)
  BY <1>0, <1>2, DeadTyped DEF Typed, KilledByContext
<1>3. CASE Reap(g)
  BY <1>0, <1>3, DeadTyped DEF Typed, Reap
<1>. QED
  BY <1>1, <1>2, <1>3

LEMMA CloseTyped ==
  ASSUME IInv, CancelParent \/ BeginClose \/ Close
  PROVE  Typed'
<1>1. CASE CancelParent
  BY <1>1 DEF IInv, Typed, CancelParent
<1>2. CASE BeginClose
  BY <1>2 DEF IInv, Typed, BeginClose
<1>3. CASE CloseTakesGate
  <2>1. CASE process = 0
    BY <1>3, <2>1 DEF IInv, Typed, CloseTakesGate
  <2>2. CASE process # 0
    <3>1. process \in 1..Len(procs)
      BY <2>2, ProcTyped DEF IInv, Typed
    <3>. QED
      BY <1>3, <2>2, <3>1, StoppedTyped DEF IInv, Typed, CloseTakesGate
  <2>. QED
    BY <2>1, <2>2
<1>4. CASE CloseGivesUp
  BY <1>4 DEF IInv, Typed, CloseGivesUp
<1>5. CASE CloseEnds
  BY <1>5, ProcTyped DEF IInv, Typed, CloseEnds
<1>. QED
  BY <1>1, <1>2, <1>3, <1>4, <1>5 DEF Close

LEMMA StepTyped == IInv /\ [Next]_vars => Typed'
<1>. SUFFICES ASSUME IInv, [Next]_vars PROVE Typed'
  OBVIOUS
<1>1. ASSUME NEW c \in Calls, Call(c) \/ Expire(c) \/ Step(c) \/ Write(c) \/ Scan(c) \/ BrokenPipe(c)
      PROVE  Typed'
  BY <1>1, WaitingTyped, EnterTyped, StartTyped, SendTyped, InterruptTyped, JudgeTyped,
     WriteTyped, ScanTyped, BrokenPipeTyped DEF Step
<1>2. ASSUME NEW g \in DOMAIN procs, Python(g) \/ Crash(g) \/ KilledByContext(g) \/ Reap(g)
      PROVE  Typed'
  BY <1>2, PythonTyped, SystemTyped
<1>3. CASE CancelParent \/ BeginClose \/ Close
  BY <1>3, CloseTyped
<1>4. CASE UNCHANGED vars
  BY <1>4 DEF IInv, Typed, vars
<1>. QED
  BY <1>1, <1>2, <1>3, <1>4 DEF Next

-----------------------------------------------------------------------------
\* Who holds the gate, and what a holder knows, step by step.
Control == Holders /\ HolderProcess /\ Readers /\ Finished /\ CloseCancels

LEMMA StepControl == IInv /\ [Next]_vars => Control'
<1>. SUFFICES ASSUME IInv, [Next]_vars PROVE Control'
  OBVIOUS
<1>. USE CallsAssumption DEF IInv, Typed, Control, Holders, Holding, HolderProcess, Readers, Finished, CloseCancels
<1>1. ASSUME NEW c \in Calls, Call(c) PROVE Control'
  BY <1>1 DEF Call, Goto
<1>2. ASSUME NEW c \in Calls, Expire(c) PROVE Control'
  BY <1>2 DEF Expire
<1>3. ASSUME NEW c \in Calls, LeaveQueue(c) PROVE Control'
  <2>1. Holders'
    BY <1>3 DEF LeaveQueue, Return, Goto
  <2>2. HolderProcess'
    BY <1>3 DEF LeaveQueue, Return, Goto
  <2>3. Readers'
    BY <1>3 DEF LeaveQueue, Return, Goto
  <2>4. Finished'
    BY <1>3 DEF LeaveQueue, Return, Goto
  <2>5. CloseCancels'
    BY <1>3 DEF LeaveQueue, Return, Goto
  <2>. QED
    BY <2>1, <2>2, <2>3, <2>4, <2>5
<1>4. ASSUME NEW c \in Calls, Acquire(c) PROVE Control'
  BY <1>4 DEF Acquire, Goto
<1>5. ASSUME NEW c \in Calls, Enter(c) PROVE Control'
  <2>1. Holders'
    BY <1>5 DEF Enter, Return, BeginRecycle, Goto
  <2>2. HolderProcess'
    BY <1>5 DEF Enter, Return, BeginRecycle, Goto
  <2>3. Readers'
    BY <1>5 DEF Enter, Return, BeginRecycle, Goto
  <2>4. Finished'
    BY <1>5 DEF Enter, Return, BeginRecycle, Goto
  <2>5. CloseCancels'
    BY <1>5 DEF Enter, Return, BeginRecycle, Goto
  <2>. QED
    BY <2>1, <2>2, <2>3, <2>4, <2>5
<1>6. ASSUME NEW c \in Calls, Recycled(c) PROVE Control'
  <2>1. Holders'
    BY <1>6 DEF Recycled, AfterRecycle, Return, Goto
  <2>2. HolderProcess'
    <3>1. gate = c /\ closer # "recycling" /\ \A d \in Calls \ {c} : pc[d] \notin Holding
      BY <1>6 DEF Recycled
    <3>2. pc' \in [Calls -> Labels] /\ pc'[c] \in {"backoff", "draining", "returned"}
      BY <1>6, StepTyped DEF Recycled, AfterRecycle, Return, Goto, Labels
    <3>3. \A d \in Calls \ {c} : pc'[d] = pc[d]
      BY <1>6 DEF Recycled, AfterRecycle, Return, Goto
    <3>4. process' = 0 /\ closer' = closer
      BY <1>6 DEF Recycled
    <3>. QED
      BY <3>1, <3>2, <3>3, <3>4
  <2>3. Readers'
    BY <1>6 DEF Recycled, AfterRecycle, Return, Goto
  <2>4. Finished'
    BY <1>6 DEF Recycled, AfterRecycle, Return, Goto
  <2>5. CloseCancels'
    BY <1>6 DEF Recycled, AfterRecycle, Return, Goto
  <2>. QED
    BY <2>1, <2>2, <2>3, <2>4, <2>5
<1>7. ASSUME NEW c \in Calls, RecycleTimesOut(c) PROVE Control'
  <2>1. Holders'
    BY <1>7 DEF RecycleTimesOut, AfterRecycle, Return, Goto
  <2>2. HolderProcess'
    BY <1>7 DEF RecycleTimesOut, AfterRecycle, Return, Goto
  <2>3. Readers'
    BY <1>7 DEF RecycleTimesOut, AfterRecycle, Return, Goto
  <2>4. Finished'
    BY <1>7 DEF RecycleTimesOut, AfterRecycle, Return, Goto
  <2>5. CloseCancels'
    BY <1>7 DEF RecycleTimesOut, AfterRecycle, Return, Goto
  <2>. QED
    BY <2>1, <2>2, <2>3, <2>4, <2>5
<1>8. ASSUME NEW c \in Calls, Drained(c) PROVE Control'
  BY <1>8 DEF Drained, Return, Goto
<1>9. ASSUME NEW c \in Calls, Backoff(c) PROVE Control'
  BY <1>9 DEF Backoff, Return, Goto
<1>10. ASSUME NEW c \in Calls, Start(c) PROVE Control'
  BY <1>10 DEF Start, Return, Goto
<1>11. ASSUME NEW c \in Calls, Send(c) PROVE Control'
  <2>1. Holders'
    BY <1>11 DEF Send, Return, Goto
  <2>2. HolderProcess'
    BY <1>11 DEF Send, Return, Goto
  <2>3. Readers'
    BY <1>11 DEF Send, Return, Goto
  <2>4. Finished'
    BY <1>11 DEF Send, Return, Goto
  <2>5. CloseCancels'
    BY <1>11 DEF Send, Return, Goto
  <2>. QED
    BY <2>1, <2>2, <2>3, <2>4, <2>5
<1>12. ASSUME NEW c \in Calls, Interrupt(c) PROVE Control'
  BY <1>12 DEF Interrupt, BeginRecycle, Goto
<1>13. ASSUME NEW c \in Calls, Judge(c) PROVE Control'
  BY <1>13 DEF Judge, Return, BeginRecycle, Answers, Goto
<1>14. ASSUME NEW c \in Calls, Write(c) PROVE Control'
  BY <1>14 DEF Write
<1>15. ASSUME NEW c \in Calls, Scan(c) PROVE Control'
  <2>1. Head(procs[gen[c]].stdout) # None
    BY <1>15, ScanReadsLine
  <2>. QED
    BY <1>15, <2>1 DEF Scan, Deliver
<1>16. ASSUME NEW c \in Calls, BrokenPipe(c) PROVE Control'
  BY <1>16, NoneAssumption DEF BrokenPipe, Deliver
<1>17. ASSUME NEW g \in DOMAIN procs, Python(g) PROVE Control'
  BY <1>17 DEF Python
<1>18. ASSUME NEW g \in DOMAIN procs, Crash(g) PROVE Control'
  BY <1>18 DEF Crash
<1>19. ASSUME NEW g \in DOMAIN procs, KilledByContext(g) PROVE Control'
  BY <1>19 DEF KilledByContext
<1>20. ASSUME NEW g \in DOMAIN procs, Reap(g) PROVE Control'
  BY <1>20 DEF Reap
<1>21. CASE CancelParent
  BY <1>21 DEF CancelParent
<1>22. CASE BeginClose
  BY <1>22 DEF BeginClose
<1>23. CASE CloseTakesGate
  BY <1>23 DEF CloseTakesGate
<1>24. CASE CloseGivesUp
  BY <1>24 DEF CloseGivesUp
<1>25. CASE CloseEnds
  BY <1>25 DEF CloseEnds
<1>26. CASE UNCHANGED vars
  BY <1>26 DEF vars
<1>. HIDE DEF IInv, Control, Holders, Holding, HolderProcess, Readers, Finished, CloseCancels
<1>. QED
  BY <1>1, <1>2, <1>3, <1>4, <1>5, <1>6, <1>7, <1>8, <1>9, <1>10, <1>11, <1>12, <1>13, <1>14, <1>15, <1>16, <1>17, <1>18, <1>19, <1>20, <1>21, <1>22, <1>23, <1>24, <1>25, <1>26
     DEF Next, Step, Close

-----------------------------------------------------------------------------
\* Only the generation the worker holds may be unreaped.

\* A step that stops, kills or reaps one generation, or writes on its pipes,
\* makes none unreaped and leaves w.process alone.
LEMMA SameGenerations ==
  ASSUME IInv, NEW g \in DOMAIN procs, NEW p,
         procs' = [procs EXCEPT ![g] = p], process' = process,
         procs[g].os = "reaped" => p.os = "reaped"
  PROVE  OneProcess'
<1>1. DOMAIN procs' = DOMAIN procs
  OBVIOUS
<1>2. \A h \in DOMAIN procs : procs'[h].os # "reaped" => procs[h].os # "reaped"
  BY DEF IInv
<1>. QED
  BY <1>1, <1>2 DEF IInv, OneProcess

\* Forgetting a process that was reaped.
LEMMA ForgetReaped ==
  ASSUME IInv, process # 0, procs[process].os = "reaped", process' = 0, procs' = procs
  PROVE  OneProcess'
BY ProcTyped DEF IInv, OneProcess

LEMMA BeginRecycleKeepsOne ==
  ASSUME IInv, NEW c \in Calls, NEW w, BeginRecycle(c, w), process # 0, process' = process
  PROVE  OneProcess'
<1>1. process \in DOMAIN procs
  BY ProcTyped DEF IInv, Typed
<1>2. procs[process] \in Procs(nextID, id)
  BY <1>1, ProcTyped DEF IInv
<1>3. procs[process].os = "reaped" => Stopped(procs[process]).os = "reaped"
  BY <1>2 DEF Stopped, Procs
<1>. QED
  BY <1>1, <1>3, SameGenerations DEF BeginRecycle

LEMMA StartKeepsOne ==
  ASSUME IInv, process = 0, procs' = Append(procs, NewProcess), process' = Len(procs) + 1
  PROVE  OneProcess'
<1>1. Len(procs) \in Nat /\ DOMAIN procs = 1..Len(procs)
  BY ProcTyped DEF IInv
<1>2. NewProcess \in Procs(nextID, id)
  BY DEF NewProcess, Procs
<1>3. /\ DOMAIN procs' = 1..(Len(procs) + 1)
      /\ \A g \in 1..Len(procs) : procs'[g] = procs[g]
  BY <1>1, <1>2, AppendProperties, LenProperties DEF IInv, Typed
<1>4. \A g \in 1..Len(procs) : procs[g].os = "reaped"
  BY <1>1 DEF IInv, OneProcess
<1>. QED
  BY <1>1, <1>3, <1>4 DEF OneProcess

LEMMA StepOneProcess == IInv /\ [Next]_vars => OneProcess'
<1>. SUFFICES ASSUME IInv, [Next]_vars PROVE OneProcess'
  OBVIOUS
<1>1. ASSUME UNCHANGED <<process, procs>> PROVE OneProcess'
  BY <1>1 DEF IInv, OneProcess
<1>2. ASSUME NEW c \in Calls,
             Call(c) \/ Expire(c) \/ LeaveQueue(c) \/ Acquire(c) \/ RecycleTimesOut(c)
               \/ Drained(c) \/ Backoff(c) \/ Send(c) \/ BrokenPipe(c)
      PROVE  OneProcess'
  BY <1>1, <1>2 DEF Call, Expire, LeaveQueue, Acquire, RecycleTimesOut, Drained, Backoff,
                    Send, BrokenPipe
<1>3. ASSUME NEW c \in Calls, Recycled(c) PROVE OneProcess'
  BY <1>3, ForgetReaped DEF Recycled, IInv, HolderProcess
<1>4. ASSUME NEW c \in Calls, Enter(c) PROVE OneProcess'
  BY <1>1, <1>4, BeginRecycleKeepsOne DEF Enter
<1>5. ASSUME NEW c \in Calls, Start(c) PROVE OneProcess'
  BY <1>1, <1>5, StartKeepsOne DEF Start, IInv, HolderProcess
<1>6. ASSUME NEW c \in Calls, Interrupt(c) PROVE OneProcess'
  BY <1>6, BeginRecycleKeepsOne DEF Interrupt, IInv, HolderProcess
<1>7. ASSUME NEW c \in Calls, Judge(c) PROVE OneProcess'
  BY <1>1, <1>7, BeginRecycleKeepsOne DEF Judge, IInv, HolderProcess
<1>8. ASSUME NEW c \in Calls, Write(c) PROVE OneProcess'
  <2>1. gen[c] \in DOMAIN procs /\ procs[gen[c]] \in Procs(nextID, id)
    BY <1>8, ReaderGeneration, ProcTyped DEF Write, IInv
  <2>. QED
    BY <1>8, <2>1, SameGenerations DEF Write, Procs
<1>9. ASSUME NEW c \in Calls, Scan(c) PROVE OneProcess'
  <2>1. gen[c] \in DOMAIN procs /\ procs[gen[c]] \in Procs(nextID, id)
    BY <1>9, ReaderGeneration, ProcTyped DEF Scan, IInv
  <2>. QED
    BY <1>9, <2>1, SameGenerations DEF Scan, Procs
<1>10. ASSUME NEW g \in DOMAIN procs, Python(g) \/ Crash(g) \/ KilledByContext(g) \/ Reap(g)
       PROVE  OneProcess'
  <2>1. procs[g] \in Procs(nextID, id)
    BY ProcTyped DEF IInv
  <2>2. CASE Python(g)
    <3>. DEFINE request == Head(procs[g].stdin)
                line(kind) == [id |-> request.id, for |-> request.for, kind |-> kind]
                Put(lines) == procs' = [procs EXCEPT ![g].stdin = Tail(@),
                                                     ![g].stdout = @ \o lines]
    <3>1. process' = process
      BY <2>2 DEF Python
    <3>2. ASSUME NEW lines, Put(lines) PROVE OneProcess'
      BY <2>1, <3>1, <3>2, SameGenerations DEF Procs
    <3>3. \/ Put(<<line("answer")>>)
          \/ Put(<<line("answer"), line("answer")>>)
          \/ Put(<<line("malformed")>>)
      BY <2>2 DEF Python
    <3>. HIDE DEF line, Put
    <3>. QED
      BY <3>2, <3>3
  <2>3. CASE Crash(g)
    BY <2>1, <2>3, SameGenerations DEF Crash, Procs
  <2>4. CASE KilledByContext(g)
    BY <2>1, <2>4, SameGenerations DEF KilledByContext, Procs
  <2>5. CASE Reap(g)
    BY <2>1, <2>5, SameGenerations DEF Reap, Procs
  <2>. QED
    BY <1>10, <2>2, <2>3, <2>4, <2>5
<1>11. CASE CancelParent \/ BeginClose \/ CloseGivesUp
  BY <1>1, <1>11 DEF CancelParent, BeginClose, CloseGivesUp
<1>12. CASE CloseTakesGate
  <2>1. CASE process = 0
    BY <1>1, <1>12, <2>1 DEF CloseTakesGate
  <2>2. CASE process # 0
    <3>1. process \in DOMAIN procs /\ procs[process] \in Procs(nextID, id)
      BY <2>2, ProcTyped DEF IInv, Typed
    <3>2. procs[process].os = "reaped" => Stopped(procs[process]).os = "reaped"
      BY <3>1 DEF Stopped, Procs
    <3>. QED
      BY <1>12, <2>2, <3>1, <3>2, SameGenerations DEF CloseTakesGate
  <2>. QED
    BY <2>1, <2>2
<1>13. CASE CloseEnds
  BY <1>1, <1>13, ForgetReaped DEF CloseEnds, IInv, HolderProcess
<1>14. CASE UNCHANGED vars
  BY <1>1, <1>14 DEF vars
<1>. QED
  BY <1>2, <1>3, <1>4, <1>5, <1>6, <1>7, <1>8, <1>9, <1>10, <1>11, <1>12, <1>13, <1>14
     DEF Next, Step, Close

-----------------------------------------------------------------------------
\* A call returns no answer but its own.

LEMMA ReturnsNoAnswer ==
  ASSUME IInv, NEW c \in Calls, NEW r \in {Timeout, Unavailable}, Return(c, r)
  PROVE  OwnAnswer'
<1>1. r \notin Line
  BY DEF Timeout, Unavailable, Line
<1>. QED
  BY <1>1 DEF IInv, Typed, OwnAnswer, Return

LEMMA StepOwnAnswer == IInv /\ [Next]_vars => OwnAnswer'
<1>. SUFFICES ASSUME IInv, [Next]_vars PROVE OwnAnswer'
  OBVIOUS
<1>1. ASSUME UNCHANGED reply PROVE OwnAnswer'
  BY <1>1 DEF IInv, OwnAnswer
<1>2. ASSUME NEW c \in Calls, LeaveQueue(c) \/ Drained(c) \/ Enter(c) \/ Backoff(c) \/ Start(c) \/ Send(c)
      PROVE  OwnAnswer'
  BY <1>1, <1>2, ReturnsNoAnswer DEF LeaveQueue, Drained, Enter, Backoff, Start, Send
<1>3. ASSUME NEW c \in Calls, Recycled(c) \/ RecycleTimesOut(c) PROVE OwnAnswer'
  BY <1>1, <1>3, ReturnsNoAnswer DEF Recycled, RecycleTimesOut, AfterRecycle
<1>4. ASSUME NEW c \in Calls, Judge(c) PROVE OwnAnswer'
  <2>1. CASE Answers(c, scanned[c]) /\ Return(c, scanned[c])
    <3>1. scanned[c] \in Lines(nextID, id)
      BY <1>4, <2>1 DEF Judge, Answers, IInv, Typed, Readers
    <3>2. scanned[c].for = c /\ scanned[c].kind = "answer"
      BY <2>1, <3>1 DEF Answers, Lines, Matches
    <3>. QED
      BY <2>1, <3>2 DEF IInv, Typed, OwnAnswer, Return
  <2>2. CASE UNCHANGED reply
    BY <1>1, <2>2
  <2>3. CASE Return(c, Unavailable)
    BY <2>3, ReturnsNoAnswer
  <2>. QED
    BY <1>4, <2>1, <2>2, <2>3 DEF Judge
<1>5. ASSUME NEW c \in Calls,
             Call(c) \/ Expire(c) \/ Acquire(c) \/ Interrupt(c) \/ Write(c) \/ Scan(c) \/ BrokenPipe(c)
      PROVE  OwnAnswer'
  BY <1>1, <1>5 DEF Call, Expire, Acquire, Interrupt, Write, Scan, BrokenPipe
<1>6. ASSUME NEW g \in DOMAIN procs, Python(g) \/ Crash(g) \/ KilledByContext(g) \/ Reap(g)
      PROVE  OwnAnswer'
  BY <1>1, <1>6 DEF Python, Crash, KilledByContext, Reap
<1>7. CASE CancelParent \/ BeginClose \/ Close
  BY <1>1, <1>7 DEF CancelParent, BeginClose, Close, CloseTakesGate, CloseGivesUp, CloseEnds
<1>8. CASE UNCHANGED vars
  BY <1>1, <1>8 DEF vars
<1>. QED
  BY <1>2, <1>3, <1>4, <1>5, <1>6, <1>7, <1>8 DEF Next, Step

-----------------------------------------------------------------------------
\* The theorems.
LEMMA StepInvariant == IInv /\ [Next]_vars => IInv'
BY StepTyped, StepControl, StepOneProcess, StepOwnAnswer DEF IInv, Control

THEOREM Invariance == Spec => []IInv
BY InitIInv, StepInvariant, PTL DEF Spec

\* Every reachable state is well typed, for any number of calls and faults.
THEOREM WorkerTypeCorrect == Spec => []TypeOK
<1>1. IInv => TypeOK
  <2>. SUFFICES ASSUME IInv PROVE TypeOK
    OBVIOUS
  <2>1. \A n, i : Lines(n, i) \subseteq Line /\ Requests(n, i) \subseteq [id : Nat, for : Calls]
    BY DEF Lines, Requests
  <2>2. procs \in Seq([os : {"running", "dead", "reaped"}, stopping : BOOLEAN,
                       stdin : Seq([id : Nat, for : Calls]), stdout : Seq(Line)])
    <3>1. Seq(Lines(nextID, id)) \subseteq Seq(Line)
      BY <2>1, SeqMonotonic
    <3>2. Seq(Requests(nextID, id)) \subseteq Seq([id : Nat, for : Calls])
      BY <2>1, SeqMonotonic
    <3>3. Procs(nextID, id) \subseteq [os : {"running", "dead", "reaped"}, stopping : BOOLEAN,
                       stdin : Seq([id : Nat, for : Calls]), stdout : Seq(Line)]
      BY <3>1, <3>2 DEF Procs
    <3>. QED
      BY <3>3, SeqMonotonic DEF IInv, Typed
  <2>3. scanned \in [Calls -> Line \cup {None, Failure}] /\ id \in [Calls -> Nat]
    BY <2>1 DEF IInv, Typed
  <2>. QED
    BY <2>2, <2>3 DEF IInv, Typed, TypeOK
<1>. QED
  BY <1>1, Invariance, PTL

\* A process is replaced only once it was reaped: two never live together.
THEOREM OneProcessAtATime == Spec => []OneProcess
<1>1. IInv => OneProcess
  BY DEF IInv
<1>. QED
  BY <1>1, Invariance, PTL

\* No call ever returns the answer to another one.
THEOREM AnswersAreOwn == Spec => []OwnAnswer
<1>1. IInv => OwnAnswer
  BY DEF IInv
<1>. QED
  BY <1>1, Invariance, PTL

\* The gate is never passed on while a goroutine still uses the pipes.
THEOREM ReadersHoldGate == Spec => []NoLeftoverReader
<1>1. IInv => NoLeftoverReader
  BY DEF IInv, Readers, Holders, Holding, NoLeftoverReader
<1>. QED
  BY <1>1, Invariance, PTL

\* A close that returned nil left no process, for good.
THEOREM CloseLeavesNothing == Spec => []CleanClose
<1>1. IInv => CleanClose
  BY ProcTyped DEF IInv, Finished, OneProcess, CleanClose
<1>. QED
  BY <1>1, Invariance, PTL


-----------------------------------------------------------------------------
(* The worker implements SerialWorker.                                     *)

\* What a step is for those that wait for calls.
Inside == {"recycling", "backoff", "starting", "ready", "exchange", "draining"}
Advances(c) ==
  /\ UNCHANGED <<reply, cancelled>>
  /\ \/ pc[c] = "idle" /\ Goto(c, "queued")
     \/ pc[c] = "queued" /\ Goto(c, "entered")
     \/ /\ pc[c] \in Inside \/ (pc[c] = "entered" /\ ~cancelled)
        /\ \E l \in Inside : Goto(c, l)
Fails(c) ==
  /\ pc[c] \notin {"idle", "returned"} /\ UNCHANGED cancelled
  /\ Return(c, Timeout) \/ Return(c, Unavailable)
Replies(c) ==
  /\ pc[c] \in Inside /\ reader[c] = "done" /\ UNCHANGED cancelled
  /\ Answers(c, scanned[c]) /\ Return(c, scanned[c])
Quiet == UNCHANGED <<pc, reply>> /\ (cancelled' = cancelled \/ cancelled' = TRUE)

LEMMA GoesInside ==
  ASSUME NEW c, NEW l \in Inside, Goto(c, l), UNCHANGED <<reply, cancelled>>,
         pc[c] \in Inside \/ (pc[c] = "entered" /\ ~cancelled)
  PROVE  Advances(c)
BY DEF Advances

LEMMA Insides ==
  /\ "recycling" \in Inside /\ "backoff" \in Inside /\ "starting" \in Inside
  /\ "ready" \in Inside /\ "exchange" \in Inside /\ "draining" \in Inside
BY DEF Inside

LEMMA RecycleAdvances ==
  ASSUME NEW c, NEW b \in BOOLEAN, pc[c] = "recycling", UNCHANGED cancelled, AfterRecycle(c, b)
  PROVE  Advances(c) \/ Fails(c)
BY GoesInside, Insides DEF AfterRecycle, Fails

LEMMA StepKinds ==
  ASSUME [Next]_vars
  PROVE  Quiet \/ \E c \in Calls : Advances(c) \/ Fails(c) \/ Replies(c)
<1>1. ASSUME NEW c \in Calls, Call(c) \/ Acquire(c) PROVE Advances(c)
  BY <1>1 DEF Call, Acquire, Advances
<1>2. ASSUME NEW c \in Calls, LeaveQueue(c) PROVE Fails(c)
  BY <1>2 DEF LeaveQueue, Fails
<1>3. ASSUME NEW c \in Calls, Enter(c) PROVE Advances(c) \/ Fails(c)
  BY <1>3, GoesInside, Insides DEF Enter, Fails, BeginRecycle
<1>4. ASSUME NEW c \in Calls, Recycled(c) \/ RecycleTimesOut(c) PROVE Advances(c) \/ Fails(c)
  BY <1>4, RecycleAdvances DEF Recycled, RecycleTimesOut
<1>5. ASSUME NEW c \in Calls, Drained(c) PROVE Fails(c)
  BY <1>5 DEF Drained, Fails
<1>6. ASSUME NEW c \in Calls, Backoff(c) \/ Start(c) \/ Send(c) PROVE Advances(c) \/ Fails(c)
  BY <1>6, GoesInside, Insides DEF Backoff, Start, Send, Fails
<1>7. ASSUME NEW c \in Calls, Interrupt(c) PROVE Advances(c)
  BY <1>7, GoesInside, Insides DEF Interrupt, BeginRecycle
<1>8. ASSUME NEW c \in Calls, Judge(c) PROVE Advances(c) \/ Fails(c) \/ Replies(c)
  BY <1>8, GoesInside, Insides DEF Judge, BeginRecycle, Fails, Replies
<1>9. ASSUME NEW c \in Calls, Expire(c) \/ Write(c) \/ Scan(c) \/ BrokenPipe(c) PROVE Quiet
  BY <1>9 DEF Expire, Write, Scan, BrokenPipe, Quiet
<1>10. ASSUME NEW g \in DOMAIN procs, Python(g) \/ Crash(g) \/ KilledByContext(g) \/ Reap(g) PROVE Quiet
  BY <1>10 DEF Python, Crash, KilledByContext, Reap, Quiet
<1>11. CASE CancelParent \/ BeginClose \/ Close \/ UNCHANGED vars
  BY <1>11 DEF CancelParent, BeginClose, Close, CloseTakesGate, CloseGivesUp, CloseEnds, vars, Quiet
<1>. QED
  BY <1>1, <1>2, <1>3, <1>4, <1>5, <1>6, <1>7, <1>8, <1>9, <1>10, <1>11 DEF Next, Step

\* A call has no reply before it returns.
Unreplied == \A c \in Calls : pc[c] # "returned" => reply[c] = None

LEMMA UnrepliedNext == IInv /\ Unreplied /\ [Next]_vars => Unreplied'
<1>. SUFFICES ASSUME IInv, Unreplied, [Next]_vars, NEW d \in Calls, pc'[d] # "returned"
              PROVE  reply'[d] = None
  BY DEF Unreplied
<1>0. pc \in [Calls -> Labels] /\ DOMAIN reply = Calls
  BY DEF IInv, Typed
<1>1. CASE Quiet
  BY <1>1 DEF Quiet, Unreplied
<1>2. ASSUME NEW c \in Calls, Advances(c) PROVE reply'[d] = None
  BY <1>0, <1>2 DEF Advances, Goto, Unreplied, Inside
<1>3. ASSUME NEW c \in Calls, NEW r, Return(c, r) PROVE reply'[d] = None
  BY <1>0, <1>3 DEF Return, Goto, Unreplied
<1>. QED
  BY <1>1, <1>2, <1>3, StepKinds DEF Fails, Replies

\* What a call is to others changes with its own steps only.
LEMMA OnePhase ==
  ASSUME IInv, NEW c \in Calls, NEW l, NEW r, Goto(c, l),
         reply' = reply \/ reply' = [reply EXCEPT ![c] = r]
  PROVE  /\ Phase' = [Phase EXCEPT ![c] = Phase'[c]]
         /\ AnswerFor' = [AnswerFor EXCEPT ![c] = AnswerFor'[c]]
<1>1. pc \in [Calls -> Labels] /\ reply \in [Calls -> Line \cup {None, Timeout, Unavailable}]
  BY DEF IInv, Typed
<1>2. \A d \in Calls : d # c => pc'[d] = pc[d] /\ reply'[d] = reply[d]
  BY <1>1 DEF Goto
<1>3. \A d \in Calls : d # c => Phase'[d] = Phase[d] /\ AnswerFor'[d] = AnswerFor[d]
  BY <1>2 DEF Phase, AnswerFor
<1>4. Phase' = [d \in Calls |-> Phase'[d]] /\ Phase = [d \in Calls |-> Phase[d]]
  BY DEF Phase
<1>5. AnswerFor' = [d \in Calls |-> AnswerFor'[d]] /\ AnswerFor = [d \in Calls |-> AnswerFor[d]]
  BY DEF AnswerFor
<1>. QED
  BY <1>3, <1>4, <1>5

LEMMA SerialAdvance ==
  ASSUME IInv, IInv', NEW c \in Calls, Advances(c)
  PROVE  [Serial!SNext]_<<Phase, AnswerFor, cancelled>>
<1>1. UNCHANGED <<reply, cancelled>> /\ AnswerFor' = AnswerFor
  BY DEF Advances, AnswerFor
<1>2. PICK l \in Labels : Goto(c, l)
  BY DEF Advances, Inside, Labels
<1>3. Phase' = [Phase EXCEPT ![c] = Phase'[c]] /\ pc'[c] = l
  BY <1>1, <1>2, OnePhase DEF Goto, IInv, Typed
<1>4. Phase = [d \in Calls |-> Phase[d]]
  BY DEF Phase
<1>5. CASE pc[c] = "idle" /\ pc'[c] = "queued"
  <2>1. Phase[c] = "out" /\ Phase'[c] = "waiting"
    BY <1>5 DEF Phase
  <2>. QED
    BY <1>1, <1>3, <2>1 DEF Serial!SNext, Serial!Arrive, Serial!Moves
<1>6. CASE pc[c] = "queued" /\ pc'[c] = "entered"
  <2>1. Phase[c] = "waiting" /\ Phase'[c] = "waiting"
    BY <1>6 DEF Phase
  <2>. QED
    BY <1>1, <1>3, <1>4, <2>1
<1>7. CASE pc[c] \in Inside /\ pc'[c] \in Inside
  <2>1. Phase[c] = "calculating" /\ Phase'[c] = "calculating"
    BY <1>7 DEF Phase, Inside
  <2>. QED
    BY <1>1, <1>3, <1>4, <2>1
<1>8. CASE pc[c] = "entered" /\ ~cancelled /\ pc'[c] \in Inside
  <2>1. Phase[c] = "waiting" /\ Phase'[c] = "calculating"
    BY <1>8 DEF Phase, Inside
  <2>2. ASSUME NEW d \in Calls, Phase[d] = "calculating" PROVE FALSE
    <3>1. pc[d] \in Inside
      BY <2>2 DEF Phase, Inside, IInv, Typed, Labels
    <3>2. gate = d /\ gate = c
      BY <1>8, <3>1 DEF IInv, Holders, Holding, Inside
    <3>. QED
      BY <1>8, <3>1, <3>2 DEF Inside
  <2>. QED
    BY <1>1, <1>3, <1>8, <2>1, <2>2 DEF Serial!SNext, Serial!Begin, Serial!Moves
<1>9. \/ pc[c] = "idle" /\ pc'[c] = "queued"
      \/ pc[c] = "queued" /\ pc'[c] = "entered"
      \/ (pc[c] \in Inside \/ (pc[c] = "entered" /\ ~cancelled)) /\ pc'[c] \in Inside
  BY DEF Advances, Goto, IInv, Typed
<1>. QED
  BY <1>5, <1>6, <1>7, <1>8, <1>9

LEMMA NotLines == {None, Timeout, Unavailable} \cap Line = {}
BY NoneAssumption DEF Line, Timeout, Unavailable

LEMMA SerialReturn ==
  ASSUME IInv, IInv', Unreplied, NEW c \in Calls, Fails(c) \/ Replies(c)
  PROVE  Serial!SNext
<1>. PICK r : Return(c, r) /\ ((Fails(c) /\ r \in {Timeout, Unavailable}) \/ (Replies(c) /\ r = scanned[c]))
  BY DEF Fails, Replies
<1>0. /\ pc \in [Calls -> Labels] /\ reply \in [Calls -> Line \cup {None, Timeout, Unavailable}]
      /\ reply' \in [Calls -> Line \cup {None, Timeout, Unavailable}]
  BY DEF IInv, Typed
<1>1. Goto(c, "returned") /\ reply' = [reply EXCEPT ![c] = r] /\ UNCHANGED cancelled
  BY DEF Return, Fails, Replies
<1>2. /\ Phase' = [Phase EXCEPT ![c] = Phase'[c]]
      /\ AnswerFor' = [AnswerFor EXCEPT ![c] = AnswerFor'[c]]
  BY <1>1, OnePhase
<1>3. pc'[c] = "returned" /\ reply'[c] = r
  BY <1>0, <1>1 DEF Goto
<1>4. pc[c] \notin {"idle", "returned"}
  BY DEF Fails, Replies, Inside
<1>5. reply[c] = None /\ AnswerFor[c] = None
  BY <1>4, NotLines DEF Unreplied, AnswerFor
<1>6. Phase[c] \in {"waiting", "calculating"} /\ (pc[c] \in Inside => Phase[c] = "calculating")
  BY <1>4 DEF Phase, Inside
<1>7. CASE r \in {Timeout, Unavailable}
  <2>1. r \notin Line
    BY <1>7, NotLines
  <2>2. Phase'[c] = "refused" /\ AnswerFor'[c] = None
    BY <1>3, <2>1 DEF Phase, AnswerFor
  <2>3. AnswerFor' = AnswerFor
    BY <1>2, <1>5, <2>2 DEF AnswerFor
  <2>. QED
    BY <1>1, <1>2, <1>6, <2>2, <2>3 DEF Serial!SNext, Serial!Refuse, Serial!Moves
<1>8. CASE Replies(c) /\ r = scanned[c] /\ r \notin {Timeout, Unavailable}
  <2>1. r # None
    BY <1>8 DEF Replies, IInv, Readers
  <2>2. r \in Line
    BY <1>0, <1>3, <1>8, <2>1
  <2>3. r.for = c /\ r.kind = "answer"
    BY <1>3, <2>2 DEF IInv, OwnAnswer
  <2>4. Phase'[c] = "answered" /\ AnswerFor'[c] = c
    BY <1>3, <2>2, <2>3 DEF Phase, AnswerFor
  <2>5. Phase[c] = "calculating"
    BY <1>6, <1>8 DEF Replies
  <2>. QED
    BY <1>1, <1>2, <2>4, <2>5 DEF Serial!SNext, Serial!Answer, Serial!Moves
<1>. QED
  BY <1>7, <1>8

LEMMA SerialStep ==
  IInv /\ IInv' /\ Unreplied /\ [Next]_vars => [Serial!SNext]_<<Phase, AnswerFor, cancelled>>
<1>. SUFFICES ASSUME IInv, IInv', Unreplied, [Next]_vars
              PROVE  [Serial!SNext]_<<Phase, AnswerFor, cancelled>>
  OBVIOUS
<1>1. CASE Quiet
  BY <1>1 DEF Quiet, Phase, AnswerFor, Serial!SNext, Serial!Shut
<1>. QED
  BY <1>1, StepKinds, SerialAdvance, SerialReturn

\* The worker implements SerialWorker: whatever processes do and whenever callers give
\* up, calls are calculated one at a time, each answered from its own payload, and none
\* begins once the worker is closed (calculate, close).
THEOREM ImplementsSerial == Spec => SerialCalls
<1>1. Init => Unreplied /\ Serial!SInit
  BY NotLines DEF Init, Unreplied, Serial!SInit, Phase, AnswerFor
<1>. QED
  BY <1>1, InitIInv, StepInvariant, UnrepliedNext, SerialStep, PTL
     DEF Spec, SerialCalls, Serial!SSpec, Serial!svars
=============================================================================
