------------------------- MODULE MetricsCacheProofs -------------------------
(***************************************************************************)
(* Proofs about MetricsCache, for any catalogue, samples and bounds: type  *)
(* correctness, and that a snapshot in use has every required metric.      *)
(***************************************************************************)
EXTENDS MetricsCache, TLAPS

LEMMA MetricsBounds ==
  /\ Catalogue \in Seq(STRING) /\ Required \subseteq {Catalogue[k] : k \in DOMAIN Catalogue}
  /\ StaleAfter \in Nat /\ RefreshTime \in Nat /\ MaxClock \in Nat /\ MaxRefreshes \in Nat
BY MetricsAssumption

LEMMA CatalogueDomain == Len(Catalogue) \in Nat /\ DOMAIN Catalogue = 1..Len(Catalogue)
BY MetricsBounds

LEMMA SampleType ==
  ASSUME NEW s, s \in Samples
  PROVE  DOMAIN s \subseteq Identities /\ s \in [DOMAIN s -> Nat]
BY MetricsAssumption

-----------------------------------------------------------------------------
(* The invariant: types, shapes, and what a refresh has measured so far.   *)

\* What snapshots and refreshes are made of.
MetricsShape ==
  /\ refresh # None =>
       refresh = [at |-> refresh.at, values |-> refresh.values, warned |-> refresh.warned,
                  fatal |-> refresh.fatal, began |-> refresh.began]
  /\ \A s \in {current, previous} \ {None} :
       s = [values |-> s.values, captured |-> s.captured, began |-> s.began]

\* A refresh that has not failed measured every required metric it is past.
MetricsSoFar ==
  refresh # None /\ ~refresh.fatal =>
    \A k \in DOMAIN Catalogue :
      k < refresh.at /\ Catalogue[k] \in Required => Catalogue[k] \in Measured(refresh.values)

\* A snapshot is no older, when captured, than a refresh may take.
CapturedInTime ==
  \A s \in {current, previous} \ {None} : s.captured <= s.began + RefreshTime

MetricsInv ==
  /\ MetricsTypeOK /\ MetricsShape /\ MetricsSoFar /\ MetricsComplete /\ CapturedInTime

LEMMA ReadingType ==
  \A f : f \in Readings <=>
            /\ f \in [DOMAIN f -> MetricValues]
            /\ DOMAIN f # {} /\ DOMAIN f \subseteq {Catalogue[k] : k \in DOMAIN Catalogue}
BY DEF Readings

\* Sampled values are natural numbers.
LEMMA ReadingNats ==
  ASSUME NEW f \in Readings
  PROVE  \A m \in DOMAIN f : f[m] \in Nat
<1> SUFFICES ASSUME NEW m \in DOMAIN f PROVE f[m] \in Nat
  OBVIOUS
<1>1. f[m] \in MetricValues
  BY ReadingType
<1>2. PICK s \in Samples : \E i \in DOMAIN s : f[m] = s[i]
  BY <1>1 DEF MetricValues
<1> QED
  BY <1>2, SampleType

\* What With adds to the values, and that it keeps the rest.
LEMMA WithType ==
  ASSUME NEW values, IsValues(values), NEW k \in DOMAIN Catalogue, NEW s \in Samples
  PROVE  IsValues(With(values, Catalogue[k], s))
<1> DEFINE metric == Catalogue[k]
           more == With(values, metric, s)
<1>1. DOMAIN more = DOMAIN values \cup DOMAIN s
  BY DEF With
<1>2. ASSUME NEW i \in DOMAIN values \cup DOMAIN s
      PROVE  more[i] \in Readings
  <2> DEFINE former == IF i \in DOMAIN values THEN values[i] ELSE NoValues
  <2>1. /\ former \in [DOMAIN former -> MetricValues]
        /\ DOMAIN former \subseteq {Catalogue[l] : l \in DOMAIN Catalogue}
    <3>1. CASE i \in DOMAIN values
      BY <3>1, ReadingType DEF IsValues
    <3>2. CASE i \notin DOMAIN values
      BY <3>2 DEF NoValues
    <3> QED
      BY <3>1, <3>2
  <2>2. CASE i \in DOMAIN s
    <3>1. more[i] =
            [m \in DOMAIN former \cup {metric} |-> IF m = metric THEN s[i] ELSE former[m]]
      BY <2>2 DEF With
    <3>2. s[i] \in MetricValues
      BY <2>2 DEF MetricValues
    <3> HIDE DEF former, more
    <3>3. DOMAIN more[i] = DOMAIN former \cup {metric}
      BY <3>1
    <3>4. more[i] \in [DOMAIN more[i] -> MetricValues]
      BY <2>1, <3>1, <3>2, <3>3
    <3> QED
      BY <2>1, <3>3, <3>4, ReadingType
  <2>3. CASE i \notin DOMAIN s
    <3>1. more[i] = values[i] /\ i \in DOMAIN values
      BY <2>3 DEF With
    <3> HIDE DEF former, more
    <3> QED
      BY <3>1 DEF IsValues
  <2> QED
    BY <2>2, <2>3
<1> QED
  BY <1>1, <1>2, SampleType DEF IsValues

LEMMA WithMeasures ==
  ASSUME NEW values, NEW metric, NEW s, DOMAIN s # {}
  PROVE  Measured(values) \cup {metric} \subseteq Measured(With(values, metric, s))
<1>1. DOMAIN With(values, metric, s) = DOMAIN values \cup DOMAIN s
  BY DEF With
<1>2. ASSUME NEW i \in DOMAIN s PROVE metric \in DOMAIN With(values, metric, s)[i]
  BY <1>2 DEF With
<1>3. ASSUME NEW i \in DOMAIN values
      PROVE  DOMAIN values[i] \subseteq DOMAIN With(values, metric, s)[i]
  BY <1>3 DEF With
<1>4. metric \in Measured(With(values, metric, s))
  BY <1>1, <1>2 DEF Measured
<1>5. ASSUME NEW m \in Measured(values) PROVE m \in Measured(With(values, metric, s))
  <2>1. PICK i \in DOMAIN values : m \in DOMAIN values[i]
    BY <1>5 DEF Measured
  <2> QED
    BY <2>1, <1>1, <1>3 DEF Measured
<1> QED
  BY <1>4, <1>5

-----------------------------------------------------------------------------
(* Initial states and steps.                                               *)

LEMMA MetricsInitInv == MetricsInit => MetricsInv
<1> SUFFICES ASSUME MetricsInit PROVE MetricsInv
  OBVIOUS
<1> USE MetricsBounds DEF MetricsInit
<1>1. enabled \in BOOLEAN /\ cancelled \in BOOLEAN /\ loop \in {"off", "on", "ended"} /\ (loop # "off" => enabled)
  OBVIOUS
<1>2. clock \in 0..MaxClock /\ refreshes \in 0..MaxRefreshes
  OBVIOUS
<1>3. MetricsTypeOK
  BY <1>1, <1>2 DEF MetricsTypeOK
<1>4. MetricsShape /\ MetricsSoFar /\ MetricsComplete /\ CapturedInTime
  BY DEF MetricsShape, MetricsSoFar, MetricsComplete, CapturedInTime
<1> QED
  BY <1>3, <1>4 DEF MetricsInv

LEMMA BeginRefreshInv == MetricsInv /\ BeginRefresh => MetricsInv'
<1> SUFFICES ASSUME MetricsInv, BeginRefresh PROVE MetricsInv'
  OBVIOUS
<1> USE MetricsBounds, CatalogueDomain DEF MetricsInv, BeginRefresh, mcache
<1>1. IsValues(NoValues)
  BY DEF IsValues, NoValues
<1>2. MetricsTypeOK'
  BY <1>1 DEF MetricsTypeOK, IsSnapshot, IsValues
<1>3. MetricsShape'
  BY DEF MetricsShape
<1>4. MetricsSoFar'
  BY DEF MetricsSoFar
<1>5. MetricsComplete' /\ CapturedInTime'
  BY DEF MetricsComplete, CapturedInTime, Measured
<1> QED
  BY <1>2, <1>3, <1>4, <1>5

LEMMA QuerySucceedsInv ==
  ASSUME MetricsInv, NEW s \in Samples, QuerySucceeds(s)
  PROVE  MetricsInv'
<1> USE MetricsBounds, CatalogueDomain DEF MetricsInv, mcache
<1> DEFINE metric == Catalogue[refresh.at]
           values == With(refresh.values, metric, s)
<1>1. /\ refresh # None /\ ~refresh.fatal /\ refresh.at \in DOMAIN Catalogue
      /\ metric \in STRING
  BY DEF QuerySucceeds, Querying, MetricsTypeOK
<1>2. refresh' = [at |-> refresh.at + 1, values |-> values, warned |-> refresh.warned,
                  fatal |-> refresh.fatal, began |-> refresh.began]
  <2>1. refresh' = [refresh EXCEPT !.at = refresh.at + 1, !.values = values]
    BY DEF QuerySucceeds
  <2>2. refresh = [at |-> refresh.at, values |-> refresh.values, warned |-> refresh.warned,
                   fatal |-> refresh.fatal, began |-> refresh.began]
    BY <1>1 DEF MetricsShape
  <2> HIDE DEF values, metric
  <2> QED
    BY <2>1, <2>2
<1>3. UNCHANGED <<enabled, loop, cancelled, current, previous, lastError, lastWarnings, clock, refreshes>>
  BY DEF QuerySucceeds
<1>4. IsValues(values)
  BY <1>1, WithType DEF MetricsTypeOK
<1>5. Measured(refresh.values) \cup {metric} \subseteq Measured(values)
  BY WithMeasures DEF QuerySucceeds
<1> HIDE DEF values
<1>6. MetricsTypeOK'
  BY <1>1, <1>2, <1>3, <1>4 DEF MetricsTypeOK, IsSnapshot, IsValues
<1>7. MetricsShape'
  BY <1>2, <1>3 DEF MetricsShape
<1>8. MetricsSoFar'
  <2> SUFFICES ASSUME NEW k \in DOMAIN Catalogue, k < refresh.at + 1, Catalogue[k] \in Required
               PROVE  Catalogue[k] \in Measured(values)
    BY <1>2, <1>3 DEF MetricsSoFar, Measured
  <2>1. CASE k = refresh.at
    BY <2>1, <1>5
  <2>2. CASE k < refresh.at
    BY <2>2, <1>1, <1>5 DEF MetricsSoFar
  <2> QED
    BY <2>1, <2>2, <1>1
<1>9. MetricsComplete' /\ CapturedInTime'
  BY <1>3 DEF MetricsComplete, CapturedInTime, Measured
<1> QED
  BY <1>6, <1>7, <1>8, <1>9

LEMMA QueryFailsInv == MetricsInv /\ QueryFails => MetricsInv'
<1> SUFFICES ASSUME MetricsInv, QueryFails PROVE MetricsInv'
  OBVIOUS
<1> USE MetricsBounds, CatalogueDomain DEF MetricsInv, mcache
<1>1. /\ refresh # None /\ ~refresh.fatal /\ refresh.at \in DOMAIN Catalogue
      /\ UNCHANGED <<enabled, loop, cancelled, current, previous, lastError, lastWarnings, clock, refreshes>>
  BY DEF QueryFails, Querying, MetricsTypeOK
<1>2. refresh = [at |-> refresh.at, values |-> refresh.values, warned |-> refresh.warned,
                 fatal |-> refresh.fatal, began |-> refresh.began]
  BY <1>1 DEF MetricsShape
<1>3. \/ refresh' = [at |-> refresh.at, values |-> refresh.values, warned |-> refresh.warned,
                     fatal |-> TRUE, began |-> refresh.began]
      \/ /\ Catalogue[refresh.at] \notin Required
         /\ refresh' = [at |-> refresh.at + 1, values |-> refresh.values, warned |-> TRUE,
                        fatal |-> refresh.fatal, began |-> refresh.began]
  BY <1>2 DEF QueryFails
<1>4. MetricsTypeOK'
  <2>1. refresh' # None =>
          /\ IsValues(refresh.values) /\ refresh'.values = refresh.values
          /\ refresh'.at \in 1..(Len(Catalogue) + 1)
          /\ refresh'.warned \in BOOLEAN /\ refresh'.fatal \in BOOLEAN
          /\ refresh'.began = refresh.began
    <3>1. refresh.at \in 1..Len(Catalogue) /\ IsValues(refresh.values)
      BY <1>1 DEF MetricsTypeOK
    <3>2. refresh.warned \in BOOLEAN /\ refresh.fatal \in BOOLEAN
      BY <1>1 DEF MetricsTypeOK
    <3>3. refresh'.values = refresh.values /\ refresh'.began = refresh.began
      BY <1>3
    <3>4. refresh'.at \in {refresh.at, refresh.at + 1}
      BY <1>3
    <3>5. \/ refresh'.warned = refresh.warned /\ refresh'.fatal = TRUE
          \/ refresh'.warned = TRUE /\ refresh'.fatal = refresh.fatal
      BY <1>3
    <3>6. refresh'.warned \in BOOLEAN /\ refresh'.fatal \in BOOLEAN
      BY <3>2, <3>5, Zenon
    <3>7. refresh'.at \in 1..(Len(Catalogue) + 1)
      BY <3>1, <3>4
    <3> QED
      BY <3>1, <3>3, <3>6, <3>7
  <2> QED
    BY <1>1, <2>1 DEF MetricsTypeOK, IsSnapshot, IsValues
<1>5. MetricsShape'
  BY <1>1, <1>3 DEF MetricsShape
<1>6. MetricsSoFar'
  <2>1. CASE refresh'.fatal
    BY <2>1 DEF MetricsSoFar
  <2>2. CASE ~refresh'.fatal
    <3>1. /\ Catalogue[refresh.at] \notin Required
          /\ refresh'.at = refresh.at + 1 /\ refresh'.values = refresh.values
      BY <2>2, <1>3
    <3>2. \A k \in DOMAIN Catalogue : k < refresh.at + 1 => k = refresh.at \/ k < refresh.at
      BY <1>1
    <3> QED
      BY <3>1, <3>2, <1>1 DEF MetricsSoFar, Measured
  <2> QED
    BY <2>1, <2>2
<1>7. MetricsComplete' /\ CapturedInTime'
  BY <1>1 DEF MetricsComplete, CapturedInTime, Measured
<1> QED
  BY <1>4, <1>5, <1>6, <1>7

LEMMA EndRefreshInv == MetricsInv /\ EndRefresh => MetricsInv'
<1> SUFFICES ASSUME MetricsInv, EndRefresh PROVE MetricsInv'
  OBVIOUS
<1> USE MetricsBounds, CatalogueDomain DEF MetricsInv
<1>1. /\ refresh # None /\ ~Querying /\ refresh' = None /\ lastWarnings' = refresh.warned
      /\ UNCHANGED <<enabled, loop, cancelled, clock, refreshes>>
  BY DEF EndRefresh
<1>2. CASE Failed
  <2>1. MetricsTypeOK'
    BY <1>1, <1>2 DEF Failed, MetricsTypeOK, IsSnapshot, IsValues
  <2>2. MetricsShape' /\ MetricsSoFar' /\ MetricsComplete' /\ CapturedInTime'
    BY <1>1, <1>2
       DEF Failed, MetricsShape, MetricsSoFar, MetricsComplete, CapturedInTime, Measured
  <2> QED
    BY <2>1, <2>2
<1>3. CASE ~refresh.fatal /\ Succeeded
  <2>1. /\ lastError' = FALSE
        /\ current' = [values |-> refresh.values, captured |-> clock, began |-> refresh.began]
        /\ previous' \in {current, previous}
    BY <1>3 DEF Succeeded, Snapshot
  <2>2. MetricsTypeOK'
    <3>1. IsSnapshot(current')
      BY <1>1, <2>1 DEF MetricsTypeOK, IsSnapshot, IsValues
    <3>2. previous' # None => IsSnapshot(previous')
      BY <2>1 DEF MetricsTypeOK
    <3>3. enabled' \in BOOLEAN /\ cancelled' \in BOOLEAN /\ loop' \in {"off", "on", "ended"} /\ (loop' # "off" => enabled')
      BY <1>1 DEF MetricsTypeOK
    <3>4. lastError' \in BOOLEAN /\ lastWarnings' \in BOOLEAN
      BY <1>1, <2>1 DEF MetricsTypeOK
    <3>5. /\ clock' \in 0..MaxClock /\ refreshes' \in 0..MaxRefreshes
          /\ UNCHANGED clock /\ refresh' = None
      BY <1>1 DEF MetricsTypeOK
    <3> QED
      BY <3>1, <3>2, <3>3, <3>4, <3>5 DEF MetricsTypeOK, IsSnapshot, IsValues
  <2>3. MetricsShape'
    BY <1>1, <2>1 DEF MetricsShape
  <2>4. MetricsSoFar'
    BY <1>1 DEF MetricsSoFar
  <2>5. Required \subseteq Measured(refresh.values)
    <3>1. refresh.at > Len(Catalogue) /\ refresh.at \in Nat
      BY <1>1, <1>3 DEF Querying, MetricsTypeOK
    <3>2. \A k \in DOMAIN Catalogue : Catalogue[k] \in Required => Catalogue[k] \in Measured(refresh.values)
      BY <3>1, <1>1, <1>3 DEF MetricsSoFar
    <3> QED
      BY <3>2
  <2>6. MetricsComplete'
    BY <2>1, <2>5 DEF MetricsComplete, Measured
  <2>7. CapturedInTime'
    BY <1>1, <2>1 DEF CapturedInTime, MetricsTypeOK
  <2> QED
    BY <2>2, <2>3, <2>4, <2>6, <2>7
<1> QED
  BY <1>2, <1>3 DEF EndRefresh

LEMMA TickInv == MetricsInv /\ Tick => MetricsInv'
<1> SUFFICES ASSUME MetricsInv, Tick PROVE MetricsInv'
  OBVIOUS
<1> USE MetricsBounds DEF MetricsInv, Tick, mcache
<1>1. MetricsTypeOK'
  BY DEF MetricsTypeOK, IsSnapshot, IsValues
<1>2. MetricsShape' /\ MetricsSoFar' /\ MetricsComplete' /\ CapturedInTime'
  BY DEF MetricsShape, MetricsSoFar, MetricsComplete, CapturedInTime, Measured
<1> QED
  BY <1>1, <1>2

\* The goroutine is started once, and told to end.
LEMMA LoopInv ==
  ASSUME MetricsInv, StartMetrics \/ StopMetrics,
         UNCHANGED <<enabled, refresh, mcache, clock, refreshes>>
  PROVE  MetricsInv'
<1> USE DEF MetricsInv, mcache
<1>1. loop' \in {"off", "on", "ended"} /\ cancelled' \in BOOLEAN /\ (loop' # "off" => enabled)
  <2>1. loop \in {"off", "on", "ended"} /\ cancelled \in BOOLEAN /\ (loop # "off" => enabled)
    BY DEF MetricsTypeOK
  <2>2. CASE StartMetrics
    BY <2>1, <2>2 DEF StartMetrics
  <2>3. CASE StopMetrics
    BY <2>1, <2>3 DEF StopMetrics
  <2> QED
    BY <2>2, <2>3
<1>2. MetricsTypeOK'
  BY <1>1 DEF MetricsTypeOK, IsSnapshot, IsValues
<1>3. MetricsShape' /\ MetricsSoFar' /\ MetricsComplete' /\ CapturedInTime'
  BY DEF MetricsShape, MetricsSoFar, MetricsComplete, CapturedInTime, Measured
<1> QED
  BY <1>2, <1>3

LEMMA LoopEndsInv == MetricsInv /\ LoopEnds => MetricsInv'
<1> SUFFICES ASSUME MetricsInv, LoopEnds PROVE MetricsInv'
  OBVIOUS
<1> USE DEF MetricsInv, LoopEnds, mcache
<1>1. MetricsTypeOK'
  BY DEF MetricsTypeOK, IsSnapshot, IsValues
<1>2. MetricsShape' /\ MetricsSoFar' /\ MetricsComplete' /\ CapturedInTime'
  BY DEF MetricsShape, MetricsSoFar, MetricsComplete, CapturedInTime, Measured
<1> QED
  BY <1>1, <1>2

LEMMA MetricsUnchangedInv == MetricsInv /\ UNCHANGED mvars => MetricsInv'
BY DEF mvars, mcache, MetricsInv, MetricsTypeOK, IsSnapshot, IsValues, MetricsShape, MetricsSoFar,
       MetricsComplete, CapturedInTime, Measured

LEMMA MetricsNextInv == MetricsInv /\ [MetricsNext]_mvars => MetricsInv'
<1> SUFFICES ASSUME MetricsInv, [MetricsNext]_mvars PROVE MetricsInv'
  OBVIOUS
<1>1. CASE MetricsStep
  BY <1>1, BeginRefreshInv, QuerySucceedsInv, QueryFailsInv, EndRefreshInv, LoopEndsInv DEF MetricsStep
<1>2. CASE MetricsNext /\ ~MetricsStep
  BY <1>2, TickInv, LoopInv DEF MetricsNext
<1>3. CASE UNCHANGED mvars
  BY <1>3, MetricsUnchangedInv
<1> QED
  BY <1>1, <1>2, <1>3

THEOREM MetricsInvariant == MetricsSpec => []MetricsInv
BY MetricsInitInv, MetricsNextInv, PTL DEF MetricsSpec

\* Types: snapshots are values by identity, captured when a refresh that was in time
\* ended; a cache without Prometheus is never refreshed (MetricsCache.run).
THEOREM MetricsTypes == MetricsSpec => []MetricsTypeOK
BY MetricsInvariant, PTL DEF MetricsInv

\* Whatever queries fail and wherever a refresh is broken off, a snapshot in use has a
\* value for every required metric (MetricsCache.refresh).
THEOREM CompleteSnapshots == MetricsSpec => []MetricsComplete
BY MetricsInvariant, PTL DEF MetricsInv
=============================================================================
