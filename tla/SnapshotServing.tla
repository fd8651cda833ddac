--------------------------- MODULE SnapshotServing --------------------------
(***************************************************************************)
(* How a forecast reaches KEDA: the sampler stores observations, the       *)
(* forecaster turns the newest into a row of forecast_snapshots, each      *)
(* external scaler copies the latest row into its cache and answers from   *)
(* the cache.  One workload, whose source query changes and which may be   *)
(* deactivated; a rollout runs two forecasters side by side, and their     *)
(* clocks may be ahead.                                                    *)
(***************************************************************************)
EXTENDS Integers, Sequences, FiniteSetsExt, Functions

CONSTANTS
    Forecasters, Scalers,
    Sources,          \* source fingerprints: what the workload's query may be
    Demands,          \* safe demands of a snapshot
    NoSource,         \* of a forecaster that has listed nothing
    NoSnapshot,       \* an empty cache entry
    Skew,             \* [Forecasters -> how far the clock there is ahead]
    SourceGap,        \* age of the newest observation that may be forecast from
    SnapshotMaxAge, SourceMaxAge,        \* what a scaler serves
    MaxTime, MaxRows, MaxEdits   \* bounds

ASSUME ServingAssumption ==
    /\ Demands \subseteq Nat /\ Skew \in [Forecasters -> Nat]
    /\ {SourceGap, SnapshotMaxAge, SourceMaxAge} \subseteq Nat
    /\ {MaxTime, MaxRows, MaxEdits} \subseteq Nat

VARIABLES
    now,       \* the scalers' and the sampler's clock
    workload,  \* its source fingerprint, and whether it is active
    left,      \* when the workload last stopped using each source
    samples,   \* times observed, by source
    table,     \* forecast_snapshots, in the order of insertion
    forecaster, scaler,   \* the processes
    answer,    \* last answer of each scaler to GetMetrics
    edits                 \* edits so far

vars == <<now, workload, left, samples, table, forecaster, scaler,
          answer, edits>>

Times == 0 .. MaxTime
Skews == {Skew[f] : f \in Forecasters}
Snapshots == [source : Sources, generated : Nat, observed : Nat,
              demand : Demands]
Cached == Snapshots \cup {NoSnapshot}

ForecasterType ==
    [pc : {"idle", "list", "forecast", "save"}, at : Nat,
     source : Sources \cup {NoSource}, observed : Nat]
ScalerType == [cache : Cached, fetched : Cached, pc : {"idle", "swap"}]

Idle == [pc |-> "idle", at |-> 0, source |-> NoSource, observed |-> 0]
Started == [cache |-> NoSnapshot, fetched |-> NoSnapshot, pc |-> "idle"]

Init ==
    /\ now = 0
    /\ workload \in [source : Sources, active : {TRUE}]
    /\ left = [q \in Sources |-> 0]
    /\ samples = [q \in Sources |-> {}]
    /\ table = <<>>
    /\ forecaster = [f \in Forecasters |-> Idle]
    /\ scaler = [s \in Scalers |-> Started]
    /\ answer = [s \in Scalers |-> 0]
    /\ edits = 0

Tick ==
    /\ now < MaxTime
    /\ now' = now + 1
    /\ UNCHANGED <<workload, left, samples, table, forecaster, scaler,
                   answer, edits>>

\* The controller stores a changed query, a deletion or a return.
Reconcile ==
    /\ edits < MaxEdits
    /\ \E w \in [source : Sources, active : BOOLEAN] \ {workload} :
          /\ workload' = w
          /\ left' = IF workload.active
                     THEN [left EXCEPT ![workload.source] = now] ELSE left
    /\ edits' = edits + 1
    /\ UNCHANGED <<now, samples, table, forecaster, scaler, answer>>

\* The sampler observes the source of an active workload.
Sample ==
    /\ workload.active
    /\ samples' = [samples EXCEPT ![workload.source] = @ \cup {now}]
    /\ UNCHANGED <<now, workload, left, table, forecaster, scaler, answer,
                   edits>>

-----------------------------------------------------------------------------
(* A forecaster.  The time of a cycle is read before anything else.        *)

\* Faulty variant: the sign of the offset is mistaken.
ClockBehind(f) == now - Skew[f]

Clock(f) == now + Skew[f]

StartCycle(f) ==
    /\ forecaster[f].pc = "idle"
    /\ forecaster' = [forecaster EXCEPT ![f].pc = "list", ![f].at = Clock(f)]
    /\ UNCHANGED <<now, workload, left, samples, table, scaler, answer,
                   edits>>

ListActive(f) ==
    /\ forecaster[f].pc = "list"
    /\ forecaster' = [forecaster EXCEPT ![f] =
            IF workload.active
            THEN [@ EXCEPT !.pc = "forecast", !.source = workload.source]
            ELSE Idle]
    /\ UNCHANGED <<now, workload, left, samples, table, scaler, answer,
                   edits>>

\* Observations of the workload listed, up to the time of the cycle.
Observed(f) == {t \in samples[forecaster[f].source] : t <= forecaster[f].at}

\* The newest must be recent.  Any later guard may withhold the forecast too.
Forecast(f) ==
    /\ forecaster[f].pc = "forecast"
    /\ \/ /\ \E t \in Observed(f) : forecaster[f].at - t <= SourceGap
          /\ forecaster' = [forecaster EXCEPT ![f].pc = "save",
                                              ![f].observed = Max(Observed(f))]
       \/ forecaster' = [forecaster EXCEPT ![f] = Idle]
    /\ UNCHANGED <<now, workload, left, samples, table, scaler, answer,
                   edits>>

\* Faulty variant: the snapshot is dated when it is saved.
DatedWhenSaved(f, demand) ==
    [source |-> forecaster[f].source, generated |-> Clock(f),
     observed |-> forecaster[f].observed, demand |-> demand]

\* The snapshot is dated with the time of the cycle.
Snapshot(f, demand) ==
    [source |-> forecaster[f].source, generated |-> forecaster[f].at,
     observed |-> forecaster[f].observed, demand |-> demand]

\* The time is unique among the snapshots of a source.
SaveSnapshot(f) ==
    /\ forecaster[f].pc = "save" /\ Len(table) < MaxRows
    /\ \E d \in Demands : LET r == Snapshot(f, d) IN
          /\ \A o \in Range(table) :
                o.source = r.source => o.generated # r.generated
          /\ table' = Append(table, r)
    /\ forecaster' = [forecaster EXCEPT ![f] = Idle]
    /\ UNCHANGED <<now, workload, left, samples, scaler, answer,
                   edits>>

\* The process stops anywhere and starts anew, or the INSERT fails.
StopForecaster(f) ==
    /\ forecaster[f].pc # "idle"
    /\ forecaster' = [forecaster EXCEPT ![f] = Idle]
    /\ UNCHANGED <<now, workload, left, samples, table, scaler, answer,
                   edits>>

-----------------------------------------------------------------------------
(* An external scaler. *)

\* Faulty variant: the row inserted last is taken for the latest.
LastInserted == {table[i] : i \in {Len(table)} \cap DOMAIN table}

\* The rows with the greatest generated_at: of two, either.
Latest == {r \in Range(table) : \A o \in Range(table) : o.generated <= r.generated}

\* ListLatestSnapshots, then the exchange of the entries under the lock.
Query(s) ==
    /\ scaler[s].pc = "idle"
    /\ \E r \in IF workload.active /\ table # <<>> THEN Latest ELSE {NoSnapshot} :
          scaler' = [scaler EXCEPT ![s].fetched = r, ![s].pc = "swap"]
    /\ UNCHANGED <<now, workload, left, samples, table, forecaster, answer,
                   edits>>

\* A refresh that fails keeps the entries.
Swap(s) ==
    /\ scaler[s].pc = "swap"
    /\ \E next \in {scaler[s].fetched, scaler[s].cache} :
          scaler' = [scaler EXCEPT ![s] = [Started EXCEPT !.cache = next]]
    /\ UNCHANGED <<now, workload, left, samples, table, forecaster, answer,
                   edits>>

RestartScaler(s) ==
    /\ scaler' = [scaler EXCEPT ![s] = Started]
    /\ UNCHANGED <<now, workload, left, samples, table, forecaster, answer,
                   edits>>

\* Faulty variant: a date in the future is as good as a recent one.
NotOld(time, age) == now - time <= age

SnapshotFresh(time, age) == time <= now /\ now - time <= age

\* Nothing is served from an empty cache or a snapshot that is not fresh.
Serves(s) == LET r == scaler[s].cache IN
    /\ r # NoSnapshot
    /\ SnapshotFresh(r.generated, SnapshotMaxAge)
    /\ SnapshotFresh(r.observed, SourceMaxAge)

GetMetrics(s) ==
    /\ answer' = [answer EXCEPT ![s] =
                    IF Serves(s) THEN scaler[s].cache.demand ELSE 0]
    /\ UNCHANGED <<now, workload, left, samples, table, forecaster, scaler,
                   edits>>

Next ==
    \/ Tick \/ Reconcile \/ Sample
    \/ \E f \in Forecasters :
          \/ StartCycle(f) \/ ListActive(f) \/ Forecast(f) \/ SaveSnapshot(f)
          \/ StopForecaster(f)
    \/ \E s \in Scalers :
          Query(s) \/ Swap(s) \/ RestartScaler(s) \/ GetMetrics(s)

Spec == Init /\ [][Next]_vars

-----------------------------------------------------------------------------
(* Properties. *)

\* Every variable keeps its type.
TypeOK ==
    /\ now \in Times
    /\ workload \in [source : Sources, active : BOOLEAN]
    /\ left \in [Sources -> Times] /\ samples \in [Sources -> SUBSET Times]
    /\ table \in Seq(Snapshots)
    /\ forecaster \in [Forecasters -> ForecasterType]
    /\ \A f \in Forecasters : forecaster[f].pc \in {"forecast", "save"}
                               => forecaster[f].source \in Sources
    /\ scaler \in [Scalers -> ScalerType]
    /\ answer \in [Scalers -> Demands \cup {0}]
    /\ edits \in 0 .. MaxEdits

\* The scalers keep the promise of the predictive trigger, whatever is slow,
\* stopped or failing between the source and KEDA.
Promise == INSTANCE ServedPrediction WITH forecasts <- Range(table)
KeepsPromise == Promise!Spec

\* The forecasts of a former query, or of a deleted workload, are not served
\* longer than a snapshot lives, counted from the edit: a forecast under way
\* at the edit and stored long after it gains nothing.
FormerSourceFades ==
    \A s \in Scalers, q \in Sources : LET r == scaler[s].cache IN
        (Serves(s) /\ r.source = q /\ workload # [source |-> q, active |-> TRUE])
            => \E d \in Skews : now <= left[q] + SnapshotMaxAge + d

\* A scaler never goes back to an older forecast, though forecasters overlap
\* and one may store its forecast after a later one.
NeverGoesBack ==
    [][\A s \in Scalers :
        (scaler[s].cache # NoSnapshot /\ scaler'[s].cache # NoSnapshot) =>
            scaler[s].cache.generated <= scaler'[s].cache.generated]_vars
=============================================================================
