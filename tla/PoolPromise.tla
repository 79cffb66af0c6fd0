----------------------------- MODULE PoolPromise -----------------------------
(***************************************************************************)
(* What a calculation promises: a job is either refused or answered with a *)
(* few pools, each of which keeps what was Promised for that job.  Nothing *)
(* is said of how pools are found; PoolSelection implements this.          *)
(***************************************************************************)
EXTENDS Naturals, FiniteSets

CONSTANTS
  Jobs,           \* the jobs there may be
  NoJob,          \* the worker is idle
  MaxGroups,      \* pools offered at most; 3 in the code
  Promised(_, _)  \* what a pool must be for a job

VARIABLES job, answer

Unanswered == [kind |-> "none", pools |-> {}]
Refusal    == [kind |-> "failure", pools |-> {}]
OfferOf(pools) == [kind |-> "groups", pools |-> pools]

PInit == job = NoJob /\ answer = Unanswered

PReceive == job = NoJob /\ job' \in Jobs /\ UNCHANGED answer

PAnswer ==
  /\ job # NoJob /\ answer = Unanswered /\ UNCHANGED job
  /\ \/ answer' = Refusal
     \/ /\ answer' = OfferOf(answer'.pools)
        /\ answer'.pools # {} /\ Cardinality(answer'.pools) <= MaxGroups
        /\ \A pool \in answer'.pools : Promised(job, pool)

\* The answer is taken, or the worker is stopped.
PRelease == job # NoJob /\ job' = NoJob /\ answer' = Unanswered

PNext == PReceive \/ PAnswer \/ PRelease

\* A job is answered unless it is given up.
PAnswers == (job # NoJob /\ answer = Unanswered) ~> (job = NoJob \/ answer # Unanswered)

PSafe == PInit /\ [][PNext]_<<job, answer>>
PSpec == PSafe /\ PAnswers
=============================================================================
