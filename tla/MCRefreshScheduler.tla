------------------------- MODULE MCRefreshScheduler -------------------------
(* Instances of RefreshScheduler for TLC.  The liveness run explores three  *)
(* scenarios of the same system, each bounding the environment only: a      *)
(* demand recreated while API calls fail; a demand and a restart; several   *)
(* demands that share the channel and the worker.                           *)
EXTENDS RefreshScheduler

VARIABLE scenario

FirstKey == CHOOSE k \in Keys : TRUE

WithinScenario ==
  CASE scenario = "faults"  -> restarts = 0 /\ \A k \in Keys \ {FirstKey} : uids[k] = 0
    [] scenario = "restart" -> /\ uids[FirstKey] <= 1 /\ faults = 0
                               /\ \A k \in Keys \ {FirstKey} : uids[k] = 0
    [] scenario = "shared"  -> faults = 0 /\ restarts = 0 /\ \A k \in Keys : uids[k] <= 1

ScenarioInit == Init /\ scenario \in {"faults", "restart", "shared"}
ScenarioNext == Next /\ UNCHANGED scenario /\ WithinScenario'
ScenarioSpec == ScenarioInit /\ [][ScenarioNext]_<<vars, scenario>> /\ Fairness

\* The safety runs explore everything within the bounds.
MCInit == Init /\ scenario = "any"
MCSpec == MCInit /\ [][Next /\ UNCHANGED scenario]_<<vars, scenario>>
=============================================================================
