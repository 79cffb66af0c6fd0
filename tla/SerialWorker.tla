---------------------------- MODULE SerialWorker ----------------------------
(***************************************************************************)
(* What the Algorithm Server relies on in its Python worker: calls are     *)
(* calculated one at a time, each is answered from its own payload or      *)
(* refused, once, and none begins when the worker has been closed.         *)
(* Nothing is said of processes, lines or time.  PythonWorker implements   *)
(* it, and the requests of AlgorithmService are such calls.                *)
(***************************************************************************)
CONSTANTS
  Calls,  \* the calls of calculate, each made once
  None    \* no answer

VARIABLES
  phase,  \* of each call: "out", "waiting", "calculating", "answered" or "refused"
  answer, \* the call whose payload its answer was calculated from
  closed  \* the worker is closed, or closing

svars == <<phase, answer, closed>>

SInit ==
  /\ phase = [c \in Calls |-> "out"] /\ answer = [c \in Calls |-> None]
  /\ closed = FALSE

Moves(c, from, to) ==
  phase[c] \in from /\ phase' = [phase EXCEPT ![c] = to]

Arrive(c) == Moves(c, {"out"}, "waiting") /\ UNCHANGED <<answer, closed>>

Begin(c) ==
  /\ ~closed /\ \A d \in Calls : phase[d] # "calculating"
  /\ Moves(c, {"waiting"}, "calculating") /\ UNCHANGED <<answer, closed>>

Answer(c) ==
  /\ Moves(c, {"calculating"}, "answered")
  /\ answer' = [answer EXCEPT ![c] = c] /\ UNCHANGED closed

\* The deadline, the worker's failure or its end.
Refuse(c) == Moves(c, {"waiting", "calculating"}, "refused") /\ UNCHANGED <<answer, closed>>

Shut == closed' = TRUE /\ UNCHANGED <<phase, answer>>

SNext == Shut \/ \E c \in Calls : Arrive(c) \/ Begin(c) \/ Answer(c) \/ Refuse(c)

SSpec == SInit /\ [][SNext]_svars
=============================================================================
