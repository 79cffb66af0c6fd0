------------------------- MODULE MCDemandLifecycle -------------------------
(* Instances of DemandLifecycle for TLC: what calculations conclude, and    *)
(* the scenarios of the convergence run, each bounding the environment only.*)
EXTENDS DemandLifecycle

\* Feasible or not, or rejected, at each calculation; a recreated demand is invalid.
AnyVerdict ==
  [i \in Ids |-> IF i[1] = 1 THEN {"feasible", "infeasible", "rejected"} ELSE {"invalid"}]

\* Verdicts that depend on the spec alone: the first generation is feasible.
ByGeneration == [i \in Ids |-> IF i[2] = 1 THEN {"feasible"} ELSE {"infeasible"}]

VARIABLE scenario

\* A demand is updated, or recreated, while requests of the processor fail and
\* land late, or the PRC restarts and any request may fail.
WithinScenario ==
  \A k \in Keys :
    CASE scenario = "update"   -> uids[k] <= 1 /\ faults = 0 /\ restarts = 0
      [] scenario = "recreate" -> /\ ngd[k] # None => ngd[k][2] = 1
                                  /\ faults = 0 /\ procFaults = 0 /\ restarts = 0
      [] scenario = "restart"  -> uids[k] <= 1 /\ (ngd[k] # None => ngd[k][2] = 1)

ScenarioInit == LInit /\ scenario \in {"update", "recreate", "restart"}
ScenarioNext == LNext /\ UNCHANGED scenario /\ WithinScenario'
ScenarioSpec == ScenarioInit /\ [][ScenarioNext]_<<lvars, scenario>> /\ LFairness

\* The safety runs explore everything within the bounds.
MCInit == LInit /\ scenario = "any"
MCSpec == MCInit /\ [][LNext /\ UNCHANGED scenario]_<<lvars, scenario>>
=============================================================================
