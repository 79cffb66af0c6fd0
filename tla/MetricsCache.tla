----------------------------- MODULE MetricsCache -----------------------------
(***************************************************************************)
(* The Algorithm Server's cache of Prometheus metrics (algorithm_server/go *)
(* /algorithm/metrics.go): one goroutine queries the metrics of the        *)
(* catalogue one after the other and publishes what it got as a whole, or  *)
(* nothing of it; requests resolve the snapshot of the moment and bind it  *)
(* to Nodes by IP address (metric_binding.go).                             *)
(*                                                                         *)
(* A snapshot's hash stands for its contents.  Time is a coarse clock; it  *)
(* bounds how long a refresh may take, as the client's timeout does.       *)
(***************************************************************************)
EXTENDS Naturals, Sequences, FiniteSets

CONSTANTS
  Catalogue,     \* names of the metrics, in order
  Required,      \* those without which there is no snapshot
  Identities,    \* IP addresses, the values of the series' paas_node_ip
  Samples,       \* what a query may return: values by identity
  None,          \* no snapshot, no refresh, no address
  StaleAfter,    \* age at which a snapshot is stale
  RefreshTime,   \* time a refresh may take
  MaxClock,      \* bound: time
  MaxRefreshes   \* bound: refreshes

ASSUME MetricsAssumption ==
  /\ Catalogue \in Seq(STRING) /\ Required \subseteq {Catalogue[k] : k \in DOMAIN Catalogue}
  /\ \A s \in Samples : DOMAIN s \subseteq Identities /\ s \in [DOMAIN s -> Nat]
  /\ {StaleAfter, RefreshTime, MaxClock, MaxRefreshes} \subseteq Nat
  /\ None \notin Identities

VARIABLES
  enabled,       \* there is a Prometheus to ask
  loop,          \* the goroutine: "off", "on", "ended"
  cancelled,     \* the application's context has ended
  refresh,       \* the refresh under way
  current,       \* the snapshot calculations use
  previous,      \* the one before, if it was another
  lastError,     \* the last refresh gave no snapshot
  lastWarnings,  \* an optional metric was missing in the last refresh
  clock, refreshes

mcache == <<current, previous, lastError, lastWarnings>>
mvars  == <<enabled, loop, cancelled, refresh, mcache, clock, refreshes>>

NoValues == [i \in {} |-> 0]
Snapshot(values, began) == [values |-> values, captured |-> clock, began |-> began]

MetricsInit ==
  /\ enabled \in BOOLEAN /\ loop = "off" /\ cancelled = FALSE /\ refresh = None
  /\ current = None /\ previous = None /\ lastError = FALSE /\ lastWarnings = FALSE
  /\ clock = 0 /\ refreshes = 0

\* Mutant of StartMetrics: the goroutine starts whether or not there is a Prometheus.
StartMetrics_Always == loop' = (IF loop = "off" THEN "on" ELSE loop) /\ UNCHANGED cancelled

\* StartBackgroundMetrics: once; a cache without Prometheus is not refreshed.
StartMetrics == loop' = (IF loop = "off" /\ enabled THEN "on" ELSE loop) /\ UNCHANGED cancelled

\* Mutant of StopMetrics: the application's context is never ended.
StopMetrics_Never == UNCHANGED <<loop, cancelled>>

\* The application's context ends.  Nobody waits for the goroutine.
StopMetrics == cancelled' = TRUE /\ UNCHANGED loop

\* Between two refreshes, the first of which is unconditional.  A tick that is due as
\* well may be taken first (BeginRefresh): select picks any.
LoopEnds ==
  /\ loop = "on" /\ cancelled /\ refresh = None /\ refreshes > 0
  /\ loop' = "ended"
  /\ UNCHANGED <<enabled, cancelled, refresh, mcache, clock, refreshes>>

BeginRefresh ==
  /\ loop = "on" /\ refresh = None /\ refreshes < MaxRefreshes
  /\ refresh' = [at |-> 1, values |-> NoValues, warned |-> FALSE, fatal |-> FALSE, began |-> clock]
  /\ refreshes' = refreshes + 1
  /\ UNCHANGED <<enabled, loop, cancelled, mcache, clock>>

Querying == refresh # None /\ ~refresh.fatal /\ refresh.at <= Len(Catalogue)

\* What the samples of a metric add to the values by identity.
With(values, metric, sample) ==
  [i \in DOMAIN values \cup DOMAIN sample |->
     LET former == IF i \in DOMAIN values THEN values[i] ELSE NoValues
     IN IF i \in DOMAIN sample
        THEN [m \in DOMAIN former \cup {metric} |-> IF m = metric THEN sample[i] ELSE former[m]]
        ELSE former]

\* A query that the end of the context finds under way fails, and so does a later one.
QuerySucceeds(sample) ==
  /\ Querying /\ ~cancelled /\ DOMAIN sample # {}
  /\ refresh' = [refresh EXCEPT !.at = @ + 1, !.values = With(@, Catalogue[refresh.at], sample)]
  /\ UNCHANGED <<enabled, loop, cancelled, mcache, clock, refreshes>>

\* Mutant of QueryFails: a required metric without a series is only a warning.
QueryFails_WarnsOnly ==
  /\ Querying
  /\ refresh' = [refresh EXCEPT !.at = @ + 1, !.warned = TRUE]
  /\ UNCHANGED <<enabled, loop, cancelled, mcache, clock, refreshes>>

\* An error, two series for one identity, or no series at all.
QueryFails ==
  /\ Querying
  /\ refresh' = IF Catalogue[refresh.at] \in Required
                THEN [refresh EXCEPT !.fatal = TRUE]
                ELSE [refresh EXCEPT !.at = @ + 1, !.warned = TRUE]
  /\ UNCHANGED <<enabled, loop, cancelled, mcache, clock, refreshes>>

\* Mutant of Failed: the snapshot kept counts as captured anew.
Failed_Renews ==
  /\ lastError' = FALSE /\ UNCHANGED previous
  /\ current' = IF current = None THEN None ELSE [current EXCEPT !.captured = clock]

\* The last complete snapshot stays.
Failed == lastError' = TRUE /\ UNCHANGED <<current, previous>>

Succeeded ==
  /\ lastError' = FALSE
  /\ current' = Snapshot(refresh.values, refresh.began)
  /\ previous' = IF current # None /\ current.values # refresh.values THEN current ELSE previous

EndRefresh ==
  /\ refresh # None /\ ~Querying
  /\ lastWarnings' = refresh.warned
  /\ \/ (refresh.fatal \/ DOMAIN refresh.values = {}) /\ Failed
     \/ ~refresh.fatal /\ DOMAIN refresh.values # {} /\ Succeeded
  /\ refresh' = None /\ UNCHANGED <<enabled, loop, cancelled, clock, refreshes>>

Tick ==
  /\ clock < MaxClock /\ clock' = clock + 1
  /\ refresh # None => clock < refresh.began + RefreshTime
  /\ UNCHANGED <<enabled, loop, cancelled, refresh, mcache, refreshes>>

MetricsStep ==
  \/ BeginRefresh \/ QueryFails \/ EndRefresh \/ LoopEnds
  \/ \E s \in Samples : QuerySucceeds(s)
MetricsNext ==
  \/ MetricsStep \/ Tick
  \/ StartMetrics /\ UNCHANGED <<enabled, refresh, mcache, clock, refreshes>>
  \/ StopMetrics /\ UNCHANGED <<enabled, refresh, mcache, clock, refreshes>>
MetricsSpec == MetricsInit /\ [][MetricsNext]_mvars

-----------------------------------------------------------------------------
(* What a request is given.                                                *)

Stale == clock - current.captured > StaleAfter
Resolve ==
  IF ~enabled \/ current = None THEN [snapshot |-> None, degraded |-> TRUE]
  ELSE [snapshot |-> current, degraded |-> lastError \/ Stale]

\* ip gives each Node's address, or None.  A Node whose address is another one's
\* too is left without metrics; so is one no series speaks of.
Bound(values, ip) ==
  {n \in DOMAIN ip : ip[n] \in DOMAIN values /\ \A m \in DOMAIN ip : ip[m] = ip[n] => m = n}
Bind(values, ip) == [n \in Bound(values, ip) |-> values[ip[n]]]

\* Bound without a warning: every Node has its series, every series its Node.
BindsAll(values, ip) ==
  Bound(values, ip) = DOMAIN ip /\ DOMAIN values \subseteq {ip[n] : n \in DOMAIN ip}

-----------------------------------------------------------------------------
(* Properties.                                                             *)

\* A reading has sampled values of one or more metrics of the catalogue.
MetricValues == UNION {{s[i] : i \in DOMAIN s} : s \in Samples}
Readings ==
  UNION {[names -> MetricValues] : names \in (SUBSET {Catalogue[k] : k \in DOMAIN Catalogue}) \ {{}}}

IsValues(values) ==
  /\ DOMAIN values \subseteq Identities
  /\ \A i \in DOMAIN values : values[i] \in Readings
IsSnapshot(s) == IsValues(s.values) /\ s.captured \in 0..clock /\ s.began \in 0..s.captured

MetricsTypeOK ==
  /\ enabled \in BOOLEAN /\ loop \in {"off", "on", "ended"} /\ cancelled \in BOOLEAN
  /\ loop # "off" => enabled
  /\ refresh # None =>
       /\ IsValues(refresh.values) /\ refresh.at \in 1..(Len(Catalogue) + 1)
       /\ refresh.warned \in BOOLEAN /\ refresh.fatal \in BOOLEAN
       /\ refresh.began \in 0..clock /\ clock <= refresh.began + RefreshTime
  /\ current # None => IsSnapshot(current)
  /\ previous # None => IsSnapshot(previous)
  /\ lastError \in BOOLEAN /\ lastWarnings \in BOOLEAN
  /\ clock \in 0..MaxClock /\ refreshes \in 0..MaxRefreshes

Measured(values) == UNION {DOMAIN values[i] : i \in DOMAIN values}

\* A snapshot in use has a value for every required metric, whatever queries failed
\* and wherever a refresh was broken off (refresh keeps the last complete one).
MetricsComplete == \A s \in {current, previous} \ {None} : Required \subseteq Measured(s.values)
=============================================================================
