----------------------- MODULE SnapshotServingProofs ------------------------
(***************************************************************************)
(* Theorems about SnapshotServing, for every number of forecasters,        *)
(* scalers, sources and demands and every freshness limit.                 *)
(***************************************************************************)
EXTENDS SnapshotServing, WellFoundedInduction, TLAPS

\* The constants are numbers.
LEMMA Naturals ==
    /\ MaxTime \in Nat /\ MaxEdits \in Nat
    /\ SnapshotMaxAge \in Nat /\ SourceMaxAge \in Nat /\ SourceGap \in Nat
    /\ \A f \in Forecasters : Skew[f] \in Nat
    /\ \A d \in Skews : d \in Nat
  BY ServingAssumption DEF Skews

\* A set of numbers that is not empty has a least one.
LEMMA LeastNumber ==
    ASSUME NEW S \in SUBSET Nat, S # {}
    PROVE  \E m \in S : \A n \in S : m <= n
<1>1. PICK m \in S : \A n \in S : ~(<<n, m>> \in OpToRel(<, Nat))
  BY NatLessThanWellFounded, WFMin
<1>2. \A n \in S : ~(n < m)
  BY <1>1 DEF OpToRel
<1> QED BY <1>2

\* Max picks the latest of a set of times.
LEMMA LatestTime ==
    ASSUME NEW S \in SUBSET Times, S # {}
    PROVE  Max(S) \in S /\ \A t \in S : Max(S) >= t
<1> DEFINE R == {MaxTime - t : t \in S}
<1>1. R \in SUBSET Nat
  <2> SUFFICES ASSUME NEW t \in S PROVE MaxTime - t \in Nat
    OBVIOUS
  <2>1. t \in 0 .. MaxTime  BY DEF Times
  <2> QED BY <2>1, Naturals
<1>2. R # {}  OBVIOUS
<1>3. PICK m \in R : \A n \in R : m <= n
  <2> HIDE DEF R
  <2> QED BY <1>1, <1>2, LeastNumber
<1>4. PICK last \in S : m = MaxTime - last
  BY <1>3
<1>5. \A t \in S : last >= t
  <2> SUFFICES ASSUME NEW t \in S PROVE last >= t
    OBVIOUS
  <2>1. MaxTime - last <= MaxTime - t
    BY <1>3, <1>4
  <2>2. t \in 0 .. MaxTime /\ last \in 0 .. MaxTime
    BY DEF Times
  <2> QED BY <2>1, <2>2, Naturals
<1> QED BY <1>5 DEF Max

\* A forecaster between two cycles is typed.
LEMMA IdleType == Idle \in ForecasterType
  BY DEF Idle, ForecasterType

\* The types of a state whose forecasters alone have changed.
LEMMA ForecasterTypes ==
    ASSUME TypeOK, NEW f \in Forecasters, NEW new \in ForecasterType,
           forecaster' = [forecaster EXCEPT ![f] = new],
           new.pc \in {"forecast", "save"} => new.source \in Sources,
           UNCHANGED <<now, workload, left, samples, table, scaler, answer, edits>>
    PROVE  TypeOK'
  BY DEF TypeOK

\* A scaler starts with a typed, empty cache.
LEMMA StartedType == Started \in ScalerType
  BY DEF Started, ScalerType, Cached

\* A snapshot is dated by a forecaster's clock and made from an observation.
LEMMA SnapshotType ==
    ASSUME TypeOK, NEW f \in Forecasters, NEW d \in Demands
    PROVE  forecaster[f].pc = "save" => Snapshot(f, d) \in Snapshots
  BY DEF Snapshot, Snapshots, TypeOK, ForecasterType

\* Every row is a snapshot.
LEMMA RowType == ASSUME TypeOK PROVE Range(table) \subseteq Snapshots
  BY DEF Range, TypeOK

\* Inserting a row keeps the others.
LEMMA AppendRange ==
    ASSUME TypeOK, NEW r
    PROVE  Range(Append(table, r)) = Range(table) \cup {r}
<1> DEFINE new == Append(table, r)
<1>1. /\ DOMAIN table = 1 .. Len(table) /\ Len(table) \in Nat
      /\ DOMAIN new = 1 .. Len(table) + 1
      /\ \A i \in 1 .. Len(table) : new[i] = table[i]
      /\ new[Len(table) + 1] = r
  BY DEF TypeOK
<1>2. Range(new) \subseteq Range(table) \cup {r}
  <2> SUFFICES ASSUME NEW i \in 1 .. Len(table) + 1
               PROVE  new[i] \in Range(table) \cup {r}
    BY <1>1 DEF Range
  <2>1. CASE i = Len(table) + 1  BY <2>1, <1>1
  <2>2. CASE i \in 1 .. Len(table)  BY <2>2, <1>1 DEF Range
  <2> QED BY <2>1, <2>2, <1>1
<1>3. Range(table) \subseteq Range(new)
  <2> SUFFICES ASSUME NEW i \in 1 .. Len(table) PROVE table[i] \in Range(new)
    BY <1>1 DEF Range
  <2>1. i \in DOMAIN new /\ new[i] = table[i]  BY <1>1
  <2> QED BY <2>1 DEF Range
<1>4. r \in Range(new)
  <2>1. Len(table) + 1 \in DOMAIN new  BY <1>1
  <2> QED BY <2>1, <1>1 DEF Range
<1> QED BY <1>2, <1>3, <1>4

-----------------------------------------------------------------------------
(* Types. *)

\* The initial states have their types.
LEMMA InitType == ASSUME Init PROVE TypeOK
<1>1. Idle \in ForecasterType /\ Idle.pc = "idle"
  BY IdleType DEF Idle
<1>2. 0 \in Times /\ 0 \in 0 .. MaxEdits
  BY Naturals DEF Times
<1>3. table \in Seq(Snapshots)  BY DEF Init
<1> QED BY <1>1, <1>2, <1>3, StartedType DEF Init, TypeOK

\* Each action keeps the types.
LEMMA NextType == ASSUME TypeOK, [Next]_vars PROVE TypeOK'
<1> USE DEF TypeOK
<1>1. CASE Tick
  BY <1>1, ServingAssumption DEF Tick, Times
<1>2. CASE Reconcile
  BY <1>2, ServingAssumption DEF Reconcile
<1>3. CASE Sample
  BY <1>3 DEF Sample
<1>4. ASSUME NEW f \in Forecasters, StartCycle(f) PROVE TypeOK'
  <2>1. Clock(f) \in Nat
    <3>1. now \in Nat /\ Skew[f] \in Nat  BY Naturals DEF Times
    <3> QED BY <3>1 DEF Clock
  <2>2. [forecaster[f] EXCEPT !.pc = "list", !.at = Clock(f)] \in ForecasterType
    BY <2>1 DEF ForecasterType
  <2> QED BY <1>4, <2>2, ForecasterTypes DEF StartCycle, ForecasterType
<1>5. ASSUME NEW f \in Forecasters, ListActive(f) PROVE TypeOK'
  <2>1. [forecaster[f] EXCEPT !.pc = "forecast", !.source = workload.source]
            \in ForecasterType
    BY DEF ForecasterType
  <2>2. CASE workload.active
    <3>1. forecaster' = [forecaster EXCEPT ![f] =
            [forecaster[f] EXCEPT !.pc = "forecast", !.source = workload.source]]
      BY <1>5, <2>2 DEF ListActive
    <3>2. [forecaster[f] EXCEPT !.pc = "forecast", !.source = workload.source].source
              \in Sources
      BY DEF ForecasterType
    <3> QED BY <1>5, <2>1, <3>1, <3>2, ForecasterTypes DEF ListActive
  <2>3. CASE ~workload.active
    BY <1>5, <2>3, IdleType, ForecasterTypes DEF ListActive, Idle
  <2> QED BY <2>2, <2>3
<1>6. ASSUME NEW f \in Forecasters, Forecast(f) PROVE TypeOK'
  <2>1. CASE forecaster' = [forecaster EXCEPT ![f] = Idle]
    BY <1>6, <2>1, IdleType, ForecasterTypes DEF Forecast, Idle
  <2>2. CASE /\ \E t \in Observed(f) : forecaster[f].at - t <= SourceGap
             /\ forecaster' = [forecaster EXCEPT ![f].pc = "save",
                                    ![f].observed = Max(Observed(f))]
    <3>1. Max(Observed(f)) \in Nat
      <4>1. Observed(f) \in SUBSET Times
        BY <1>6 DEF Forecast, Observed, ForecasterType
      <4>2. Max(Observed(f)) \in Times
        BY <4>1, <2>2, LatestTime
      <4> QED BY <4>2 DEF Times
    <3>2. [forecaster[f] EXCEPT !.pc = "save", !.observed = Max(Observed(f))]
              \in ForecasterType
      BY <3>1 DEF ForecasterType
    <3>3. [forecaster[f] EXCEPT !.pc = "save", !.observed = Max(Observed(f))].source
              \in Sources
      BY <1>6 DEF Forecast, ForecasterType
    <3> DEFINE new == [forecaster[f] EXCEPT !.pc = "save",
                                            !.observed = Max(Observed(f))]
    <3>4. forecaster' = [forecaster EXCEPT ![f] = new]
      BY <2>2
    <3> HIDE DEF new
    <3> QED BY <1>6, <3>2, <3>3, <3>4, ForecasterTypes DEF Forecast, new
  <2> QED BY <1>6, <2>1, <2>2 DEF Forecast
<1>7. ASSUME NEW f \in Forecasters, SaveSnapshot(f) PROVE TypeOK'
  <2>1. PICK d \in Demands : table' = Append(table, Snapshot(f, d))
    BY <1>7 DEF SaveSnapshot
  <2>2. table' \in Seq(Snapshots)
    BY <1>7, <2>1, SnapshotType DEF SaveSnapshot
  <2> QED BY <1>7, <2>2, IdleType DEF SaveSnapshot, Idle
<1>8. ASSUME NEW f \in Forecasters, StopForecaster(f) PROVE TypeOK'
  BY <1>8, IdleType, ForecasterTypes DEF StopForecaster, Idle
<1>9. ASSUME NEW s \in Scalers, Query(s) PROVE TypeOK'
  <2>1. PICK r \in IF workload.active /\ table # <<>> THEN Latest ELSE {NoSnapshot} :
          scaler' = [scaler EXCEPT ![s].fetched = r, ![s].pc = "swap"]
    BY <1>9 DEF Query
  <2>2. r \in Cached
    BY RowType DEF Latest, Cached
  <2>3. [scaler[s] EXCEPT !.fetched = r, !.pc = "swap"] \in ScalerType
    <3>1. scaler[s] \in ScalerType  OBVIOUS
    <3> HIDE DEF TypeOK
    <3> QED BY <2>2, <3>1 DEF ScalerType
  <2> QED BY <1>9, <2>1, <2>3 DEF Query
<1>10. ASSUME NEW s \in Scalers, Swap(s) PROVE TypeOK'
  <2>1. PICK next \in {scaler[s].fetched, scaler[s].cache} :
          scaler' = [scaler EXCEPT ![s] = [Started EXCEPT !.cache = next]]
    BY <1>10 DEF Swap
  <2>2. [Started EXCEPT !.cache = next] \in ScalerType
    BY DEF ScalerType, Started, Cached
  <2> QED BY <1>10, <2>1, <2>2 DEF Swap
<1>11. ASSUME NEW s \in Scalers, RestartScaler(s) PROVE TypeOK'
  BY <1>11, StartedType, ServingAssumption DEF RestartScaler
<1>12. ASSUME NEW s \in Scalers, GetMetrics(s) PROVE TypeOK'
  <2>1. Serves(s) => scaler[s].cache.demand \in Demands
    BY DEF Serves, ScalerType, Cached, Snapshots
  <2> QED BY <1>12, <2>1 DEF GetMetrics
<1>13. CASE UNCHANGED vars
  BY <1>13 DEF vars
<1> QED BY <1>1, <1>2, <1>3, <1>4, <1>5, <1>6, <1>7, <1>8, <1>9, <1>10, <1>11,
           <1>12, <1>13 DEF Next

\* Every variable keeps its type, for any number of processes and sources.
THEOREM TypeCorrect == Spec => []TypeOK
<1>1. Init => TypeOK  BY InitType
<1>2. TypeOK /\ [Next]_vars => TypeOK'  BY NextType
<1> QED BY <1>1, <1>2, PTL DEF Spec

-----------------------------------------------------------------------------
(* The promise of the trigger. *)

\* Whatever a scaler holds is in the table, for rows are never removed.
Stored == \A s \in Scalers :
    {scaler[s].cache, scaler[s].fetched} \subseteq Range(table) \cup {NoSnapshot}

\* Every step keeps what the scalers hold in the table.
LEMMA StoredSteps == ASSUME TypeOK, Stored, [Next]_vars PROVE Stored'
<1>1. ASSUME NEW f \in Forecasters, SaveSnapshot(f) PROVE Stored'
  <2>1. PICK d \in Demands : table' = Append(table, Snapshot(f, d))
    BY <1>1 DEF SaveSnapshot
  <2>2. Range(table') = Range(table) \cup {Snapshot(f, d)}
    BY <2>1, AppendRange
  <2> QED BY <1>1, <2>2 DEF SaveSnapshot, Stored
<1>2. ASSUME NEW s \in Scalers, Query(s) PROVE Stored'
  <2>1. PICK r \in IF workload.active /\ table # <<>> THEN Latest ELSE {NoSnapshot} :
          scaler' = [scaler EXCEPT ![s].fetched = r, ![s].pc = "swap"]
    BY <1>2 DEF Query
  <2>2. r \in Range(table) \cup {NoSnapshot}  BY DEF Latest
  <2> QED BY <1>2, <2>1, <2>2 DEF Query, Stored, TypeOK, ScalerType
<1>3. ASSUME NEW s \in Scalers, Swap(s) PROVE Stored'
  BY <1>3 DEF Swap, Stored, TypeOK, ScalerType, Started
<1>4. ASSUME NEW s \in Scalers, RestartScaler(s) PROVE Stored'
  BY <1>4 DEF RestartScaler, Stored, TypeOK, ScalerType, Started
<1>5. CASE UNCHANGED <<scaler, table>>
  BY <1>5 DEF Stored
<1> QED BY <1>1, <1>2, <1>3, <1>4, <1>5
        DEF Next, vars, Tick, Reconcile, Sample, StartCycle, ListActive,
            Forecast, StopForecaster, GetMetrics

\* The scalers start with nothing.
LEMMA InitStored == ASSUME Init PROVE Stored
  BY DEF Init, Stored, Started

\* Whatever a scaler holds or has fetched is a row of the table, always.
THEOREM HeldIsStored == Spec => []Stored
<1>1. TypeOK /\ Stored /\ [Next]_vars => Stored'  BY StoredSteps
<1> QED BY <1>1, InitStored, TypeCorrect, PTL DEF Spec

\* Every step of the serving path is a step of the promise, or none.
LEMMA PromisedStep ==
    ASSUME TypeOK, Stored, [Next]_vars
    PROVE  [Promise!Next]_<<now, Range(table), answer>>
<1>1. CASE Tick
  BY <1>1 DEF Tick, Promise!Next, Promise!Tick
<1>2. ASSUME NEW f \in Forecasters, SaveSnapshot(f)
      PROVE  Promise!Next
  <2>1. PICK d \in Demands : table' = Append(table, Snapshot(f, d))
    BY <1>2 DEF SaveSnapshot
  <2>2. Range(table) \subseteq Range(table')
    BY <2>1, AppendRange
  <2> QED BY <1>2, <2>2 DEF SaveSnapshot, Promise!Next, Promise!Forecast
<1>3. ASSUME NEW s \in Scalers, GetMetrics(s)
      PROVE  Promise!Next
  <2>1. UNCHANGED <<now, Range(table)>>
    BY <1>3 DEF GetMetrics
  <2>2. CASE ~Serves(s)
    BY <1>3, <2>1, <2>2 DEF GetMetrics, Promise!Next, Promise!Answer
  <2>3. CASE Serves(s)
    <3> DEFINE r == scaler[s].cache
    <3>1. r \in Range(table)
      BY <2>3 DEF Serves, Stored
    <3>2. Promise!Fresh(r)
      BY <2>3 DEF Serves, SnapshotFresh, Promise!Fresh, Promise!Within
    <3>3. answer' = [answer EXCEPT ![s] = r.demand]
      BY <1>3, <2>3 DEF GetMetrics
    <3> QED BY <2>1, <3>1, <3>2, <3>3 DEF Promise!Next, Promise!Answer
  <2> QED BY <2>2, <2>3
<1>4. CASE UNCHANGED <<now, table, answer>>
  BY <1>4
<1> QED BY <1>1, <1>2, <1>3, <1>4
        DEF Next, vars, Reconcile, Sample, StartCycle, ListActive, Forecast,
            StopForecaster, Query, Swap, RestartScaler

\* The caches, the table and the processes between the source and KEDA keep
\* the promise of the predictive trigger: an answer is zero or a forecast that
\* is recent, not from the future, and made from a recent observation.
THEOREM PromiseKept == Spec => KeepsPromise
<1>1. Init => Promise!Init
  BY DEF Init, Promise!Init, Range
<1>2. TypeOK /\ Stored /\ [Next]_vars
          => [Promise!Next]_<<now, Range(table), answer>>
  BY PromisedStep
<1> QED BY <1>1, <1>2, TypeCorrect, HeldIsStored, PTL
        DEF Spec, KeepsPromise, Promise!Spec

-----------------------------------------------------------------------------
(* A scaler never goes back. *)

\* What was fetched is not older than what is cached: of one scaler, only the
\* refresh that waits to be swapped in replaces the entry.
FetchedIsNewer == \A s \in Scalers :
    LET k == scaler[s].cache  f == scaler[s].fetched
    IN  (scaler[s].pc = "swap" /\ k # NoSnapshot /\ f # NoSnapshot)
            => k.generated <= f.generated

\* The scalers have fetched nothing to begin with.
LEMMA InitNewer == ASSUME Init PROVE FetchedIsNewer
  BY DEF Init, FetchedIsNewer, Started

\* Every step keeps what is fetched at least as new as what is cached.
LEMMA NewerSteps ==
    ASSUME TypeOK, Stored, FetchedIsNewer, [Next]_vars
    PROVE  FetchedIsNewer'
<1>1. ASSUME NEW s \in Scalers, Query(s) PROVE FetchedIsNewer'
  <2>1. PICK r \in IF workload.active /\ table # <<>> THEN Latest ELSE {NoSnapshot} :
          scaler' = [scaler EXCEPT ![s].fetched = r, ![s].pc = "swap"]
    BY <1>1 DEF Query
  <2>2. r # NoSnapshot => \A o \in Range(table) : o.generated <= r.generated
    BY <2>1 DEF Latest
  <2>3. /\ scaler'[s].cache = scaler[s].cache /\ scaler'[s].fetched = r
        /\ \A t \in Scalers \ {s} : scaler'[t] = scaler[t]
    BY <2>1 DEF TypeOK, ScalerType
  <2>4. scaler[s].cache \in Range(table) \cup {NoSnapshot}
    BY DEF Stored
  <2> QED BY <2>2, <2>3, <2>4 DEF FetchedIsNewer
<1>2. ASSUME NEW s \in Scalers, Swap(s) PROVE FetchedIsNewer'
  BY <1>2 DEF Swap, FetchedIsNewer, TypeOK, Started
<1>3. ASSUME NEW s \in Scalers, RestartScaler(s) PROVE FetchedIsNewer'
  BY <1>3 DEF RestartScaler, FetchedIsNewer, TypeOK, Started
<1>4. CASE UNCHANGED scaler
  BY <1>4 DEF FetchedIsNewer
<1> QED BY <1>1, <1>2, <1>3, <1>4
        DEF Next, vars, Tick, Reconcile, Sample, StartCycle, ListActive,
            Forecast, SaveSnapshot, StopForecaster, GetMetrics

\* One step of one scaler replaces its entry by a newer one, or empties it.
LEMMA NoStepBack ==
    ASSUME TypeOK, FetchedIsNewer, [Next]_vars, NEW s \in Scalers,
           scaler[s].cache # NoSnapshot, scaler'[s].cache # NoSnapshot
    PROVE  scaler'[s].cache = scaler[s].cache
               \/ scaler[s].cache.generated <= scaler'[s].cache.generated
<1>1. ASSUME NEW t \in Scalers, Query(t) PROVE scaler'[s].cache = scaler[s].cache
  BY <1>1 DEF Query, TypeOK, ScalerType
<1>2. ASSUME NEW t \in Scalers, Swap(t)
      PROVE  \/ scaler'[s].cache = scaler[s].cache
             \/ scaler[s].cache.generated <= scaler'[s].cache.generated
  <2>1. CASE t # s  BY <1>2, <2>1 DEF Swap, TypeOK
  <2>2. CASE t = s
    <3>1. scaler'[s].cache \in {scaler[s].fetched, scaler[s].cache}
      BY <1>2, <2>2 DEF Swap, TypeOK, Started
    <3>2. scaler[s].pc = "swap"  BY <1>2, <2>2 DEF Swap
    <3> QED BY <3>1, <3>2 DEF FetchedIsNewer
  <2> QED BY <2>1, <2>2
<1>3. ASSUME NEW t \in Scalers, RestartScaler(t)
      PROVE scaler'[s].cache = scaler[s].cache
  BY <1>3 DEF RestartScaler, TypeOK, Started
<1>4. CASE UNCHANGED scaler
  BY <1>4
<1> QED BY <1>1, <1>2, <1>3, <1>4
        DEF Next, vars, Tick, Reconcile, Sample, StartCycle, ListActive,
            Forecast, SaveSnapshot, StopForecaster, GetMetrics

\* A scaler never replaces a forecast by an older one, however many
\* forecasters insert rows in whatever order.
THEOREM NoGoingBack == Spec => NeverGoesBack
<1>1. TypeOK /\ Stored /\ FetchedIsNewer /\ [Next]_vars => FetchedIsNewer'
  BY NewerSteps
<1>2. ASSUME TypeOK, Stored, FetchedIsNewer, [Next]_vars, NEW s \in Scalers,
             scaler[s].cache # NoSnapshot, scaler'[s].cache # NoSnapshot
      PROVE  scaler[s].cache.generated <= scaler'[s].cache.generated
  <2>1. scaler[s].cache \in Snapshots
    BY <1>2, RowType DEF Stored
  <2>2. scaler[s].cache.generated \in Nat
    BY <2>1 DEF Snapshots
  <2> QED BY <1>2, <2>2, NoStepBack
<1>3. TypeOK /\ Stored /\ FetchedIsNewer /\ [Next]_vars
         => [\A s \in Scalers :
              (scaler[s].cache # NoSnapshot /\ scaler'[s].cache # NoSnapshot) =>
                scaler[s].cache.generated <= scaler'[s].cache.generated]_vars
  BY <1>2
<1> QED BY <1>1, <1>3, InitNewer, TypeCorrect, HeldIsStored, PTL
        DEF Spec, NeverGoesBack

-----------------------------------------------------------------------------
(* A former source fades. *)

Current(q) == workload = [source |-> q, active |-> TRUE]

\* A cycle is dated before the workloads are listed: what it makes of a source
\* that is no longer current is dated before the source was left.
DatedCycle(f) ==
    /\ forecaster[f].pc # "idle" => forecaster[f].at <= now + Skew[f]
    /\ (forecaster[f].pc \in {"forecast", "save"} /\ ~Current(forecaster[f].source))
          => forecaster[f].at <= left[forecaster[f].source] + Skew[f]

DatedRow(r) == \E d \in Skews :
    /\ r.generated <= now + d
    /\ ~Current(r.source) => r.generated <= left[r.source] + d

Dated == /\ \A f \in Forecasters : DatedCycle(f)
         /\ \A r \in Range(table) : DatedRow(r)

\* To begin with there is no cycle and no row to date.
LEMMA InitDated == ASSUME Init PROVE Dated
  BY DEF Init, Dated, DatedCycle, Idle, Range

\* The clock goes on.
LEMMA TickDated == ASSUME TypeOK, Dated, Tick PROVE Dated'
<1>1. now \in Nat /\ \A f \in Forecasters : Skew[f] \in Nat
  BY Naturals DEF TypeOK, Times
<1>2. ASSUME NEW f \in Forecasters PROVE DatedCycle(f)'
  <2>1. forecaster[f].at \in Nat  BY DEF TypeOK, ForecasterType
  <2> QED BY <1>1, <2>1 DEF Tick, Dated, DatedCycle, Current
<1>3. ASSUME NEW r \in Range(table) PROVE DatedRow(r)'
  <2>1. PICK d \in Skews : /\ r.generated <= now + d
                           /\ ~Current(r.source) => r.generated <= left[r.source] + d
    BY DEF Dated, DatedRow
  <2>2. r.generated \in Nat /\ d \in Nat
    BY RowType, Naturals DEF Snapshots
  <2>3. r.generated <= now' + d
    BY <1>1, <2>1, <2>2 DEF Tick
  <2> QED BY <2>1, <2>3 DEF Tick, DatedRow, Current
<1> QED BY <1>2, <1>3 DEF Dated, Tick

\* At an edit, every date so far is before the time at which the source is left.
LEMMA EditDated == ASSUME TypeOK, Dated, Reconcile PROVE Dated'
<1>1. /\ left' = IF workload.active
                 THEN [left EXCEPT ![workload.source] = now] ELSE left
      /\ UNCHANGED <<now, forecaster, table>>
  BY DEF Reconcile
<1>2. ASSUME NEW q \in Sources
      PROVE  IF Current(q) THEN left'[q] = now ELSE left'[q] = left[q]
  <2>1. workload = [source |-> workload.source, active |-> workload.active]
    BY DEF TypeOK
  <2> QED BY <1>1, <2>1 DEF Current, TypeOK
<1>3. ASSUME NEW f \in Forecasters PROVE DatedCycle(f)'
  <2>1. forecaster[f].pc \in {"forecast", "save"} => forecaster[f].source \in Sources
    BY DEF TypeOK
  <2> QED BY <1>1, <1>2, <2>1 DEF Dated, DatedCycle
<1>4. ASSUME NEW r \in Range(table) PROVE DatedRow(r)'
  <2>1. r.source \in Sources  BY RowType DEF Snapshots
  <2>2. PICK d \in Skews : /\ r.generated <= now + d
                           /\ ~Current(r.source) => r.generated <= left[r.source] + d
    BY DEF Dated, DatedRow
  <2>3. r.generated <= left'[r.source] + d
    BY <1>2, <2>1, <2>2
  <2> QED BY <1>1, <2>2, <2>3 DEF DatedRow
<1> QED BY <1>1, <1>3, <1>4 DEF Dated

\* The forecasters' own steps.
LEMMA ForecasterDated ==
    ASSUME TypeOK, Dated, NEW f \in Forecasters,
           StartCycle(f) \/ ListActive(f) \/ Forecast(f) \/ StopForecaster(f)
    PROVE  Dated'
<1>1. /\ UNCHANGED <<now, workload, left, table>>
      /\ \A g \in Forecasters \ {f} : forecaster'[g] = forecaster[g]
  BY DEF StartCycle, ListActive, Forecast, StopForecaster, TypeOK
<1>2. DatedCycle(f)'
  <2>1. CASE StartCycle(f)
    <3>1. forecaster'[f].pc = "list" /\ forecaster'[f].at = now + Skew[f]
      BY <2>1 DEF StartCycle, Clock, TypeOK, ForecasterType
    <3>2. now + Skew[f] <= now + Skew[f]
      BY Naturals DEF TypeOK, Times
    <3> QED BY <1>1, <3>1, <3>2 DEF DatedCycle
  <2>2. CASE ListActive(f)
    <3>1. CASE ~workload.active
      BY <1>1, <2>2, <3>1 DEF ListActive, DatedCycle, TypeOK, Idle
    <3>2. CASE workload.active
      <4>1. /\ forecaster'[f].pc = "forecast"
            /\ forecaster'[f].at = forecaster[f].at
            /\ forecaster'[f].source = workload.source
        BY <2>2, <3>2 DEF ListActive, TypeOK, ForecasterType
      <4>2. Current(workload.source)
        BY <3>2 DEF Current, TypeOK
      <4>3. forecaster[f].at <= now + Skew[f]
        BY <2>2 DEF Dated, DatedCycle, ListActive
      <4> QED BY <1>1, <4>1, <4>2, <4>3 DEF DatedCycle, Current
    <3> QED BY <3>1, <3>2
  <2>3. CASE Forecast(f)
    <3>1. CASE forecaster' = [forecaster EXCEPT ![f] = Idle]
      BY <3>1 DEF DatedCycle, TypeOK, Idle
    <3>2. CASE forecaster' = [forecaster EXCEPT ![f].pc = "save",
                                    ![f].observed = Max(Observed(f))]
      <4>1. /\ forecaster'[f].pc = "save"
            /\ forecaster'[f].at = forecaster[f].at
            /\ forecaster'[f].source = forecaster[f].source
        BY <3>2 DEF TypeOK, ForecasterType
      <4> QED BY <1>1, <2>3, <4>1 DEF Forecast, Dated, DatedCycle, Current
    <3> QED BY <2>3, <3>1, <3>2 DEF Forecast
  <2>4. CASE StopForecaster(f)
    BY <2>4 DEF StopForecaster, DatedCycle, TypeOK, Idle
  <2> QED BY <2>1, <2>2, <2>3, <2>4
<1>3. \A g \in Forecasters \ {f} : DatedCycle(g)'
  BY <1>1 DEF Dated, DatedCycle, Current
<1>4. \A r \in Range(table) : DatedRow(r)'
  BY <1>1 DEF Dated, DatedRow, Current
<1> QED BY <1>1, <1>2, <1>3, <1>4 DEF Dated

\* A row takes the date of its cycle.
LEMMA SaveDated ==
    ASSUME TypeOK, Dated, NEW f \in Forecasters, SaveSnapshot(f)
    PROVE  Dated'
<1>1. PICK d \in Demands : table' = Append(table, Snapshot(f, d))
  BY DEF SaveSnapshot
<1>2. Range(table') = Range(table) \cup {Snapshot(f, d)}
  BY <1>1, AppendRange
<1>3. UNCHANGED <<now, workload, left>>
  BY DEF SaveSnapshot
<1>4. DatedRow(Snapshot(f, d))
  <2>1. forecaster[f].pc = "save" /\ DatedCycle(f) /\ Skew[f] \in Skews
    BY DEF SaveSnapshot, Dated, Skews
  <2>2. /\ Snapshot(f, d).generated = forecaster[f].at
        /\ Snapshot(f, d).source = forecaster[f].source
    BY DEF Snapshot
  <2> QED BY <2>1, <2>2 DEF DatedRow, DatedCycle
<1>5. \A r \in Range(table') : DatedRow(r)'
  BY <1>2, <1>3, <1>4 DEF Dated, DatedRow, Current
<1>6. \A g \in Forecasters : DatedCycle(g)'
  BY <1>3 DEF SaveSnapshot, Dated, DatedCycle, Current, TypeOK, Idle
<1> QED BY <1>5, <1>6 DEF Dated

\* Every step keeps the dates of a former source bounded.
LEMMA DatedSteps == ASSUME TypeOK, Dated, [Next]_vars PROVE Dated'
<1>1. CASE UNCHANGED <<now, workload, left, table, forecaster>>
  BY <1>1 DEF Dated, DatedCycle, DatedRow, Current
<1> QED BY <1>1, TickDated, EditDated, ForecasterDated, SaveDated
        DEF Next, vars, Sample, Query, Swap, RestartScaler, GetMetrics

\* A row that is served is recent, so that a former source was left recently.
LEMMA FadesByDate == ASSUME TypeOK, Stored, Dated PROVE FormerSourceFades
<1> SUFFICES ASSUME NEW s \in Scalers, NEW q \in Sources, Serves(s),
                    scaler[s].cache.source = q, ~Current(q)
             PROVE  \E d \in Skews : now <= left[q] + SnapshotMaxAge + d
  BY DEF FormerSourceFades, Current
<1> DEFINE r == scaler[s].cache
<1>1. r \in Range(table) /\ r \in Snapshots
  BY RowType DEF Serves, Stored
<1>2. PICK d \in Skews : r.generated <= left[q] + d
  BY <1>1 DEF Dated, DatedRow
<1>3. now - r.generated <= SnapshotMaxAge
  BY DEF Serves, SnapshotFresh
<1>4. /\ now \in Nat /\ left[q] \in Nat /\ d \in Nat /\ r.generated \in Nat
      /\ SnapshotMaxAge \in Nat
  BY <1>1, Naturals DEF TypeOK, Times, Snapshots
<1>5. now <= left[q] + SnapshotMaxAge + d
  <2> HIDE DEF r
  <2> QED BY <1>2, <1>3, <1>4
<1> QED BY <1>5

\* A forecast of a former query or of a deleted workload is served no longer
\* than a snapshot lives after the edit, plus the error of the clocks, however
\* long the forecast was under way.
THEOREM FormerSourcesFade == Spec => []FormerSourceFades
<1>1. TypeOK /\ Dated /\ [Next]_vars => Dated'  BY DatedSteps
<1>2. TypeOK /\ Stored /\ Dated => FormerSourceFades  BY FadesByDate
<1> QED BY <1>1, <1>2, InitDated, TypeCorrect, HeldIsStored, PTL DEF Spec
=============================================================================
