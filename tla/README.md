# ReplicaSense: a verification development in TLA+

ReplicaSense adds a predictive trigger to KEDA. A controller reads
ScaledObjects that have such a trigger, a sampler copies the source metric of each workload from
Prometheus into PostgreSQL, trainer Jobs fit models to it, a forecaster
evaluates models, predicts and stores forecast snapshots, and an external scaler
answers KEDA from the latest snapshot. All state that two components share is in
PostgreSQL or in the Kubernetes API; there is no message bus. This directory
holds TLA+ modules of these parts, the TLC configurations that check them on
small instances, and proofs that TLAPS checks for all values of the constants.

Paths are relative to the root of the repository (`src/` in `PROJECT.json`).
`PROJECT.json` lists components, runs, mutants, theorems, findings and hazards,
and maps every definition that models code to the lines it stands for.

## The system

| Component | State it keeps | Operations | Who reads that state |
|---|---|---|---|
| Controller (`internal/controller`) | table `workloads` through the repository; the leader's cache and queue | reconcile an object: parse its triggers, upsert the valid ones, deactivate the others; remove finished Jobs | everybody: each component lists the active workloads of its cluster |
| HPA metric recovery (`internal/controller/hpa_recovery.go`, `internal/kube/predictive_metric_probe.go`) | in memory of the leader: per object the HPA, the attempts and the time of the next; an annotation of the HPA | per interval: list the objects, read the HPA of each, probe KEDA for a missing metric, patch the annotation | KEDA, which reconciles an HPA that changed; the exported series |
| Workload repository (`internal/postgres/workload_repository.go`) | `workloads.policy_revision`, `source_fingerprint`, `status` | one transaction per object: upsert each valid trigger, deactivate the active rows that are not among them; when the revision changes to one with `clearOldModels`, delete the models | trainers, evaluation and repairs compare revisions with it |
| Sampler (`internal/sampler`) | table `samples`; in memory: bootstrapped sources and markers of failed queries | a round per tick: bootstrap, instant query at the workload's second, recovery of a gap, upsert | forecaster, trainers, evaluation |
| History repair (`internal/history`) | rows of `samples` | read the missing slots, query spans, insert under the policy fence, read again | both trainer images run it before they fit |
| Training scheduler (`internal/training/scheduler.go`) | table `training_runs` | per poll and workload: claim an immediate run or a scheduled slot, create a Job, mark failures | trainers mark the same rows |
| Trainer Jobs (`internal/trainer`, `pytorch/gru_trainer.py`) | `training_runs`, `models` | start, repair, fit, insert a candidate, mark the run | evaluation |
| Evaluation worker (`internal/training/evaluation.go`, `internal/postgres/model_evaluation.go`) | `models`: status, report, predecessor; a session advisory lock | choose a target, score it against the champion, apply the decision in one fenced transaction | forecaster's model cache |
| Forecaster (`internal/forecaster`) | table `forecast_snapshots` | per cycle and workload: read samples and replicas, predict, ask the guards, apply guardrails, insert a snapshot | scaler, budget guard |
| External scaler (`internal/scaler`) | a cache of the latest snapshots | refresh; IsActive and GetMetrics answer from the cache | KEDA, and through it the HPA |
| KEDA and the HPA (external) | replicas | follow the larger of the native trigger and the prediction | guards and the next cycle |

What is hard about it:

* **Concurrency without locks.** The guards of a cycle, the steps of a Job, a
  poll of a scheduler and the steps of a repair are separate statements; an edit
  or a reset of the workload may fall between any two. Where it matters the code
  compares a policy revision inside a transaction. Two forecasters and two
  schedulers run during a rollout.
* **Failure.** Every process may stop between two statements. PostgreSQL may
  drop the session that holds the evaluation lock. API calls fail after they
  took effect. Jobs are killed, removed and created again under the same name.
* **Ordering.** Long transactions publish late (`created_at` is the start of the
  transaction), clocks of forecasters differ, snapshots are inserted out of order.
* **Time.** Evidence ages, certificates need a span of observations after a
  fitting cutoff, snapshots and observations expire, a sampler round is due in
  one exact second.
* **Feedback.** What the forecaster approves becomes pods, which the guards of
  the next cycle measure.

## The modules

| Module | Models | Properties (run) |
|---|---|---|
| `ModelLifecycle` | one workload's models from candidate to serving: reconciliation, native and PyTorch Jobs, the evaluation worker | `TypeOK`, `SeasonedCertificates`, `RollbackWaits`, `HandsOver`, `QueueDrains` (model_lineage); `OneActive`, `ActivatedUnderCurrentPolicy`, `LinkIsFaithful`, `OlderReplacesOnlyByRollback`, `TakesTurns` (model_disturbed); `PublishesCurrentPolicy` (model_stale_job, violated) |
| `ModelLifecycleProofs` | theorems about it | |
| `TrainingRuns` | schedulers, `training_runs`, Jobs and trainers | `TruthfulRuns`, `ScheduledRunsAreSpaced`, `ResetIsFinal` (runs_schedulers); `RequestIsAnswered`, `ResetIsApplied` (runs_requests) |
| `TrainingRunsProofs` | theorems about `TrainingRuns` | |
| `SampleHistory` | sampler, bootstrap, recovery and repair over `samples` | `TypeOK`, `TrainsOnCompleteHistory`, `RowsMatchSource`, `FailedSlotsAreRecovered`, `BridgesAreSound`, `SurgeIsConfirmed`, `EvidenceIsFair`, `ObservationsAreKept` (samples) |
| `SampleHistoryProofs` | theorems about it and about the histories that are read | |
| `InferenceHistory` | the pure functions that models read rows through: inputs of forecasts, evidence of surges, segments of trainers | |
| `ArtifactComparison` | the pure functions that choose what an evaluation scores; extends `InferenceHistory` and is extended by `SampleHistory`, which applies both to every reachable table | |
| `SpeculativeScaling` | the forecasters' cycles with their guards, the snapshot table, KEDA's HPA and the pods | `TypeOK`, `RaisesWithinBudget` (scaling_budget); `SurgeIsReleased`, `RaisesAreGradual` (scaling_release); `EveryRaiseWithinBudget` (scaling_rollout, violated) |
| `SpeculativeScalingProofs` | theorems about it | |
| `SetLemmas` | what the two modules above share: lemmas about extremes, sums, the first n members, images and ranks in finite sets | |
| `ServedPrediction` | what the predictive trigger promises: an abstract specification | |
| `SnapshotServing` | observations, forecasters, snapshot table, scalers' caches | `TypeOK`, `KeepsPromise` (refinement of `ServedPrediction`), `NeverGoesBack`, `FormerSourceFades` (serving_rollout) |
| `SnapshotServingProofs` | theorems about it | |
| `WorkloadReconcile` | the leading controllers, one ScaledObject and its rows of `workloads`, one statement at a time | `TypeOK`, `WholeVersions`, `ResetOncePerChange`, `Converges`, `DeletionIsApplied` (workload_leaders) |
| `WorkloadReconcileProofs` | theorems about it | |
| `HPARecovery` | the leader's recovery loop, HPAs and their objects, KEDA, the garbage collector, outages of scalers | `SeriesHaveStates`, `PatchesWhatItRead`, `Recovers`, `RequestsEnd` (hpa_recovery) |
| `HPARecoveryProofs` | theorems about it | |
| `MC...` | the instances of the cfg files | |

The type invariants of `TrainingRuns` and `HPARecovery` are proved for all constants
(`TypeCorrect`) and not checked again.

A definition marked *Faulty variant* is a plausible bug: `PROJECT.json` pairs
each property with one, which replaces a definition of the model and makes TLC
find that property violated. They are used nowhere else.

### ModelLifecycle

`policy` and `live` are the workload row, `models` the table, `job` the trainer
Jobs, `lock` the advisory lock, `ev` the evaluation workers. A policy revision
stands for everything it hashes; engine, source and contract are functions of
it. The worker's pass is four steps, as in the code: acquire the lock, read the
models, evaluate, apply in a transaction. `Evaluate` follows
`EvaluationService.Evaluate` branch by branch: turn and target, the early
reports, the comparison under each mode, the decision. Scores are abstracted to
the verdicts derived from them, with the span of their evidence. `Fenced` is the
list of comparisons inside `CompleteEvaluation`; a session that is dropped frees
the lock while the worker goes on, so the fences are what is left. A native Job
inserts its candidate as one statement after it has checked its revision; a
PyTorch Job holds one transaction, so its candidate is as old as its start.
One tick of the clock is a long while (hours): the evaluation deadline and the
age accepted by the transaction are 0 ticks.

### TrainingRuns

A run is identified by workload and slot. `Scheduler(s)` is `RunOnce` one
statement or API call at a time; `Trainer(w, k)` both images. A Job is a record
named after its run: `made` counts the objects created under that name and
`published` the candidates, which the code does not count but the properties
need. `Disturb` names the faults a run may take: a scheduler that stops between
two steps, a killed Job, a failing API call.

`reset` is the transaction of a revision with `clearOldModels`, the only
reconciliation that is more than one step here, because it waits: `LockRow` takes
the workload's row FOR UPDATE, `CommitReset` detaches the runs, for which it needs
the rows that PyTorch trainers hold (`RowHeld`), deletes the models and commits.
While the row is locked nobody inserts a run or a candidate (foreign keys) or
repairs history (FOR SHARE). So a reset and a trainer that wants to publish wait
for each other until PostgreSQL ends one of the two (`AbortReset`, `CannotFit`),
and a reset, a trainer and the trainer's helper process wait for each other until
the helper times out (`CannotFit`), which PostgreSQL cannot see as two of the
three are one process tree with two sessions. A native candidate that is deleted
before it is reported makes the report fail (`Cleared`). The waits of others for
run rows that a reset holds end with the reset and are left out. A return to a
clearing revision after a deactivation counts as a reset (one edit per run of
TLC).

### SampleHistory, InferenceHistory and ArtifactComparison

`rows` is the table, by fingerprint and second; a row tells which query and
which path produced it. The sampler's round has the steps of `RunOnce` for one
workload: `StartRound` (list), `Bootstrap`/`Fill`, `Sample` (the marker of
failures is deleted here, as in the code), `Recover`/`Refill`, `Save`. The
trainer's steps are those of `Repair` and the reads after it: the missing slots,
the spans, the fenced inserts, the second look, and `Load`, which is a read of
its own and may find more than the repair did. `failed` holds the
times of failed queries where the code holds one marker, so that
`FailedSlotsAreRecovered` can say what a recovery owes. Times are whole seconds;
with an interval of 2 and a jitter of 1, range rows and live rows of one slot
differ, gaps are one, one and a half or more intervals, and every rounding
boundary of `PrepareInferenceHistory` occurs. The fixed limits of the code
(10000 points, 128 spans, 5%, 60 inputs, the surge policy, the windows of an
evaluation) are constants, so that small instances
reach them. The clock of a round may run on
while it is under way; a failing list of workloads is a round that does not
start.

`hole` is what is wrong with the source: moments without data, moments whose
value is no number, and moments whose value is negative. A single value that is
no number fails a whole range query (`internal/prometheus/client.go:129,201`), so
`RangeFails` is different from a missing point. A negative value is stored:
`migrations/schema.sql:87-88` asks for a finite value only. Each consumer refuses it, which
`TrainsOnCompleteHistory`, `BridgesAreSound` and `EvidenceIsFair` check for a
value that appears between any two steps. Values are otherwise a function of the
time.

The pure functions are checked on every table that the two processes can
produce, with its duplicate rows of a slot, gaps, live seconds and repaired
moments. `ForecastInput` is one cycle's input, with bridging and without;
`BridgesAreSound` relates it to the rows. `RealContiguousSuffix`, `Candidate` and
`SurgeDemand` are surge detection; `SurgeIsConfirmed` says what two rows
of one slot must not do. `TrainingSegment`, `FitSamples` and `CanFit` are what a
trainer fits and holds out. `Compared` is `CompareArtifacts` up to its scores:
the horizons with a whole history before them, disjoint, sampled when there are
too many, with their peaks; `EvidenceIsFair` evaluates the model that was just
fitted against whatever has been stored since.

### SpeculativeScaling

Each forecaster has a `cycle` of its own and visits the workloads in order:
`StartCycle`, `Observe` (samples and replicas), the guards as calls of their own,
`SaveSnapshot`; `Stop` ends the process anywhere, and a later `StartCycle` is that of
the one that takes its place. A rollout runs two of them. Between the statement that
reads the sum (`BudgetAllows`) and the INSERT (`SaveSnapshot`) there is neither a
transaction nor a lock, so that another forecaster may insert in between.

A cycle reads the time once, at its start, and dates all its snapshots with it; the
latest row of a workload is the one with the latest date (`Latest`), whichever was
inserted last. Ages are counted in starts of a cycle. The clocks agree here;
`SnapshotServing` has clocks that do not. The reason of a snapshot is reduced to
whether there is one and whether the guards agreed.

`missed` is a history variable: the workloads the compared sum cannot have held as
they are now, which are the forecaster's own when it had no row in the join, and
those that another forecaster has raised since. `RaisesWithinBudget` is the
promise the guard can keep, `EveryRaiseWithinBudget` the one the documents make.

Safe demand is counted in quarter replicas because the limit for estimated inputs
is 25%. `HPA(w)` follows the larger of the native trigger and the served snapshot,
within the bounds. Surge detection (its evidence is in `InferenceHistory`) and the
models are levels of demand that a prediction may take.

`SurgeIsReleased` assumes of its workload that refusals end: a refusal serves the
replicas that ran, and refusals that feed on what they hold are real (see Findings).
What it shows is that a refusal or a cautious recovery that is over leaves nothing
behind, whatever order the two forecasters insert in.

### SnapshotServing and ServedPrediction

`ServedPrediction` says what KEDA may be told: at any time zero, or the demand
of a stored forecast that is recent, not from the future, and made from a recent
observation. `SnapshotServing` has the path below it: the sampler stores
observation times, forecasters read the clock (which may be ahead by `Skew`),
list, forecast and insert as separate steps, scalers query and swap their cache
as separate steps and answer in between. `left` is a history variable: when the
workload last stopped using a source.

### WorkloadReconcile

`history` holds the versions of the object at the API server, `lease` the leader
election, `proc` what each controller has in memory and in its open transaction,
`table` the committed rows. The object's versions reach a leader through a cache
that lags (`Deliver`); a new leader may list an old version and gets no event for
an object that is gone. `StartReconcile` is `Reconcile` and
`ObserveScaledObject` up to the transaction; then `Select`, `Upsert` per trigger
(with the deletion of the models), `Scan` and `Deactivate` for the last UPDATE,
`Commit`. Deactivating a parent is the same without triggers. Row locks follow
PostgreSQL: a SELECT FOR UPDATE locks the committed row it finds and nothing
else, a conflicting INSERT waits, the UPDATE takes the rows its snapshot saw as
they are when it gets them. `Parse` is the set of places of the triggers that
become workloads: well formed, and alone with their name and their source; `todo`
holds those the loop has yet to upsert, and `Place` is the next one in the object's
order. The lease does not
reach the database: `LoseLease` leaves the process going until `Exit`, and
`overlap` remembers that two reconciliations were under way at once. The other
modules have a reconciliation as one step, which is what its transaction is to
them.

### HPARecovery

`object` and `hpa` are what the API server has, `leader` the `Check` under way
with what it listed and read, `states` the map of `hpaRecoveryState`, `shown` the
objects whose missing metrics are exported. `List`, `PassOver`, `Healthy`,
`Wait`, `Attempt`, `Probe`, `Patch` and `Prune` are the calls of `Check` in
their order; `...Fails` are their errors. Between any two of them `Edit`,
`Keda`, `Collect`, `Outage` and `Return` may happen. These are external and
modelled from what the code relies on: KEDA builds an HPA from the triggers whose
scaler answers, wakes when an HPA or an object is written, and leaves an HPA of a
former owner to the garbage collector; a reconciliation of KEDA is one step.
Resource versions are one bit, `fresh`: the copy that the leader read is still
what the server has. Names of HPAs are one per object, and an HPA that is being
deleted counts as gone. Time is counted in scan intervals: `age` since the last
listing, and `due` from it; where the two are equal a fraction of an interval
decides, so that `Wait` and `Attempt` are both possible. The annotation is one bit
that a patch flips, since a patch that writes the value that is there changes
nothing and wakes nobody. A failed read of the HPA drops the state of its object
(`hpa_recovery.go:102-106` leaves it out of `seen`, lines 158-160 delete it), so
that the backoff starts anew, although `docs/architecture.md:124` speaks of a
restored metric only. A former leader that still runs when the next one starts is
left out: both would patch under the same condition.

## The runs

| Run | Question | Bounds and why they are enough |
|---|---|---|
| model_lineage | Do promotions, rejections, revalidations and rollbacks of three successive models keep certificates, waiting times and turns, and does every candidate leave the queue? | automatic and shadow mode, expiry within the clock; 3 models: champion, predecessor and candidate; 3 ticks with a window of 2, models fitted up to their creation: evidence that is too short, too old and overlapping the fit all occur |
| model_disturbed | Is the lineage safe when two workers, two one-transaction Jobs, an edit with reset and engine change, a deletion, a restart or a lost session interleave, and do candidate and champion alternate? | 2 models, 2 workers, 1 disturbance of any kind at any step; a pre-upgrade model may be there. The ABA of the list of active rows needs two switches, which fit |
| model_stale_job | Does a trainer publish under the present revision only? | violated, see Findings |
| runs_schedulers | Do two schedulers on one workload, crashes, kills and a reset keep the runs truthful and spaced, and the reset final? | 2 clock values, each a slot of its own, 2 faults, an edit to either revision with reset; native and PyTorch images |
| runs_requests | Is an immediate request answered, and a reset applied? | 2 workloads of which the first is refused, 1 fault of any kind and 1 edit at any step, removal of Jobs; the clock stands, as neither answer depends on time |
| samples | Do sampler and trainers, interleaved, keep the table right for what trainers, forecasts, surge detection and evaluations read of it? | window of 4 slots and the clock 2 slots beyond, with live rounds at due seconds; a complete source, one without two slots and a live moment, one without a number at a live moment, one without a number early in the window and with a negative value; one fault, one edit; a plan of one query and spans of 2 slots make both ways of planning happen; demand that grows late and fast: bridged inputs with estimates, surges over duplicate rows and comparisons of more windows than are scored all occur |
| scaling_budget | How far can a raise of two forecasters exceed the budget? | 2 forecasters, 2 workloads with minima 0 and 1 and maxima 4 and 2, demand 1 or 4, predictions independent of the load, every guard may refuse, either process may stop; an empty table first, so that first forecasts occur as well; the budget of 4 binds with both workloads forecast. Clocks do not pass a snapshot's age and the load stands, as neither enters the sum |
| scaling_release | Are replicas of a past surge released, and is every snapshot within its step? | 2 forecasters, one workload from zero to 4 replicas, demand 1 or 4 with one shift, gaps, failing calls, missing forecasts; the capacity and budget suffice. From zero replicas the limit of three binds, from one the doubling and the 25% |
| scaling_rollout | Does the budget hold for every raise? | violated, see Findings |
| serving_rollout | Does the path keep its promise with two forecasters and a clock ahead, and for how long is a former source served? | 2 rows: stored in either order; an edit of the query, a deletion; observations live 2 ticks and snapshots 0, so that within 3 clock values each of the two dates decides; the two sources are interchangeable |
| workload_leaders | Do the rows follow the object through two leaders? | one edit between 5 versions of 2 triggers (both changed in another order, one broken, one listed twice, one refused by the table) or a deletion; one fault of any kind between any two statements: enough for the two transactions to overlap, to deadlock and to insert disjoint rows |
| hpa_recovery | Does recovery change only what it read, repair every HPA and then leave KEDA alone? | one object with one or two predictive triggers; two edits of any kind (pause, composite, deletion and a new object of the name, a trigger more or less) and one fault (an outage, a failing call, a restart of KEDA or of the leader) at any step; a delay of at most 2 intervals and 3 attempts reach the cap of the backoff |

Deadlock is checked in every run but `samples` and `workload_leaders`: the bound
of the clock stops a deactivated workload that has nothing left to do, and a
controller has nothing left to do when the object is gone and its rows are
inactive. In the other modules
the clock's bound stops nothing, as some process always has a step.
`model_disturbed`, `runs_schedulers`, `samples`, `scaling_budget` and `serving_rollout` use symmetry
(processes or sources that are interchangeable, revisions together with their
queries); none checks a liveness property.

**Fairness.** `ModelLifecycle!FairSpec`: the clock advances and each evaluation
worker goes on, because the worker is a loop over a ticker whose calls have
deadlines. Trainers, edits and faults get none. `TrainingRuns!FairSpec`: the
schedulers loop, a reset gets its locks, and Jobs end, because a Job has a
deadline and a trainer can always fail; edits, crashes and kills get none and are bounded in number, since
nothing is answered under endless crashes. `SpeculativeScaling!FairSpec`: some
forecaster is running and loops, and the HPA polls; the load need not change and changes finitely
often. `WorkloadReconcile!FairSpec`: a free lease is taken, a process without its lease
exits (client-go ends it), the watch delivers, the queue is worked and
statements return, because calls that hang fail in the end. The resync of the
cache is fair as well: the manager sets no sync period, so that the library's
period of about ten hours holds, and KEDA's updates of the object's status
enqueue it more often. `Converges` needs it, as a former leader's late write is
followed by no event; the time until it is undone is not modelled. Edits and
faults are bounded and never required. `HPARecovery!FairSpec`: the ticker and
the calls of a check go on (the probe has a timeout), KEDA works off what wakes
it, the garbage collector collects, and an outage of a scaler ends: without the
last there is nothing to restore.
All fairness is weak. `QueueDrains` is stated for candidates whose expiry
lies inside the clock.

## What is proved

TLAPS checks, with no bound on any constant:

* `ModelLifecycleProofs`: `TypeCorrect`, `OneActiveModel`, `SeasonedModels`,
  `CurrentPolicyActivation`, `PatientRollback`, `OlderModelsReturnOnlyByRollback`
  and its lemma-like invariant `ForwardPromotion`, `FaithfulLinks`, `TurnsTaken`,
  `TurnsHandedOver`.
* `TrainingRunsProofs`: `TypeCorrect`, `SpacedRuns`, `ResetsAreFinal`,
  `RunsAreTruthful`.
* `SampleHistoryProofs`: `TypeCorrect`, `MatchingRows`, `KeptObservations`,
  `CompleteTraining`, `RecoveredFailures`, `SoundBridges`, `ConfirmedSurges`,
  `FairEvidence`.
* `SpeculativeScalingProofs`: `TypeCorrect`, `RaisesInSteps`, `BudgetKept`.
* `SnapshotServingProofs`: `TypeCorrect`, `HeldIsStored`, `PromiseKept` (the
  refinement), `NoGoingBack`, `FormerSourcesFade`.
* `WorkloadReconcileProofs`: `TypeCorrect`, `OneResetPerChange`, `OneVersion`, and
  `AlwaysResets` with the facts about locks they rest on.
* `HPARecoveryProofs`: `TypeCorrect`, `PatchesOnlyWhatItRead`,
  `SeriesFollowStates`.

They use the named assumptions of the modules only, except for four.
`RunsAreTruthful` assumes what its property is stated for: API calls that do not
fail and Jobs that are not removed. `FaithfulLinks` assumes that an evaluation
ends before a minimum duration has passed (4 minutes against 24 hours by default),
`TurnsTaken` that either no session is lost or evaluations end within a tick, and
`TurnsHandedOver` the latter. The instances satisfy these; what happens
without them is under Findings.

The argument for the models: type correctness is inductive as it stands.
`OneActive` is preserved because a switch retires exactly the active row whose
identity the transaction compared with what the worker had read
(`Fenced`, `Replaced`); neither the lock nor the number of workers enters, so
the theorem covers lost sessions and any number of forecasters.
`SeasonedCertificates` is not inductive: a switch takes its certificate from a
report drafted earlier. The strengthening says of every worker with a draft that
its evidence is a real span after the fitting cutoff of a model that has not
changed since; models keep their fitting cutoff while they exist, and a reset
makes the comparison of the transaction fail. `RollbackWaits` and
`OlderReplacesOnlyByRollback` follow from similar facts about drafts: a
promotion in flight goes from an older champion to a newer candidate
(`ForwardPromotion`), which holds although PyTorch candidates appear late,
because `EvaluationModels` only reads candidates created after the champion.

`LinkIsFaithful` needs the table and the draft at once. A retired model has an
active successor (`Successors`), so that the champion a worker compared can be away
and back only by a rollback, whose evidence spans a minimum duration of the service
of the model in between: a draft on the champion carries its link, or
the champion was switched on again a minimum duration after the evaluation began,
when the transaction no longer accepts it (`KnowsLink`). Which row a draft speaks of
is certain because identifiers are used once (`IdsOnce`, with the candidates that
PyTorch trainers have yet to show). `TakesTurns` says of a draft on a candidate that
the champion was reported on since (`HasTurn`); another worker cannot spoil that,
because a worker at work holds the lock (`LockHeld`) or, where sessions are lost,
because what it reports on the same tick is no earlier. `HandsOver` uses that nothing
is dated after the clock (`Dated`).

The argument for samples: a row is of the source that was asked (`MatchingRows`)
because the query and the fingerprint travel together. `FailedSlotsAreRecovered`
speaks of one recovery but depends on everything that was stored since the query
failed, because the recovery starts after the newest row. Its invariant
(`FailuresKnown`) says of every failed slot on the marker that nothing later is stored
while that slot is missing, unless the window of a training has left it behind
(`NotPassed`). A live row comes after the marker is gone. A repair stores later slots,
and `SpansKnown` says why it does so in order: what its plan found missing is filled,
in the batch, or in a span still to be asked, a query asks each slot of its span, and
spans are taken up smallest first. Then a recovery asks a moment of each slot
it owes (`RecoveryAsks`).

The argument for scaling: `RaisesInSteps` compares the four limits of the guards with
what was read, whatever the capacity, the pods and the budget are. `BudgetKept` has
to carry a sum over all workloads from the guard to the insert while any number of
other forecasters write. Its invariant (`WithinBudget`) is about the sum over what the
forecaster has not missed: another's insert either lowers a row, which keeps the
bound, or raises it and leaves the sum (`StillWithin`, by `SumBound`).
`AloneWithinBudget` draws from it what holds between rollouts: with a single
forecaster only its own first forecast can be missed (`OwnOnly`). The sum is a fold over a set in an arbitrary order;
`SumsExist` shows by a least counterexample that there is a function of the subsets
which adds one member at a time in some order, `AnyFirst` that the order is
irrelevant, and `SumOfRest` that a sum is one member's share and the sum of the others.

The argument for runs: a claim's slot is that of the poll, which began in the
past, so that no later claim of an earlier slot can follow (`PollsBegan`;
`SpacedRuns` adds the arithmetic of intervals). `ResetIsFinal` rests on
`HeldIsCurrent`: a row that a PyTorch trainer holds under a clearing revision is of that
revision. A reset cannot commit beside a row that is held, and a run cannot
become claimed under a trainer that is already at work, because it is on record
before its Job exists (`RunsPrecedeJobs`). `TruthfulRuns` is strengthened to `Truth`,
which says for each stage of a Job how many candidates there are and which ends
of the run are possible; the only scheduler that marks a run is one whose Job
was refused, so that no Job of that name ever ran.

The argument for samples: slots are multiples of the interval, so that different
ones lie an interval apart (`SlotsApart`) and a moment has one slot
(`SlotWithin`). Three statements write rows (`Writers`), each under the
fingerprint of the query it sent (`Written`, behind `MatchingRows`); the repair
writes at the start of a slot, so that its look at one interval is a look at
that slot (`KeptObservations`). `CompleteTraining` needs `LoadsRepaired`: a
trainer before its last read misses no slot, and stays so because nothing is
deleted (`NothingIsLost`), whoever writes meanwhile. What it then reads covers
exactly the closed slots (`WindowSlots`, where window and end are multiples of
the interval), and of such rows the newest long segment is all of them
(`SegmentIsAll`).

The argument for the histories that are read holds for any rows, so that of the
table only the type is used. `SoundBridges`: a segment keeps every later
observation (`SegmentHolds`), a gap of n intervals gets n - 1 estimates
(`EstimatesOfGap`), the last of them at most five quarters of an interval before
the gap ends (`StepsFit`), so that no gap is left in the segment (`NoGapIsLeft`)
nor in what is cut from its end (`InputHasNoGap`); and each estimate lies in a gap
that is short enough, between two observations with nothing between them but rows
of the slot that ends it (`EstimatesLie`). `ConfirmedSurges`: what precedes an
observation in the suffix is the latest of all earlier slots (`SuffixFollows`), and
growth over a positive baseline leaves a positive value, whose multiple is more
than the value (`SurgeAsksMore`): this uses that the maximum multiplier exceeds 1,
as `normalizedSurgePolicy` sees to.

`FairEvidence` needs the type of the table as well: nothing stored is of the future.
The number of observations equals the number of indices they span exactly if no
slot in between is missing (`NoneMissing`). So the horizon of a complete window is
the next slots (`HorizonSlots`), and its input reaches back as far as the
comparison asks without a missing slot (`InputIsWhole`). The windows are taken by a
recursive function; it exists as the least sets closed under taking the next window
(`ChainExists`), and whatever satisfies its equation yields windows that begin after
the horizon before them (`ChainFollows`, by the latest counterexample). Of too many
windows the ranks `i * (n - 1) div (m - 1)` are m different ones from 0 to n - 1
(`RanksAreSpread`), so that the first and the last stay; a window with the greatest
value is a peak (`PeaksAreThere`). That nothing scored was fitted follows from
`Unseen`, as horizons come after their origins.

The argument for serving: what a scaler holds or has fetched is a row of the
table (`HeldIsStored`); rows are only appended, so a held row stays a stored
forecast, and the freshness tests of the scaler give each conjunct of
`ServedPrediction`. `FormerSourcesFade` needs that a row's time is at most the
forecaster's clock when its cycle listed the source, which is no later than the
edit plus the skew; forecasters that started before the edit carry their time
with them. `NoGoingBack` needs that the latest row of the table is never older
than what was fetched.

The argument for the rows of an object: the places of one list that `Parse` selects
have different names (`NamesOnce`), so a transaction comes to each row once.
Locks of two processes are disjoint and every row a process has written is under
its lock (`LocksHeld`), so that a commit of another leaves the rows it holds as
they were (`HeldStays`). With that, the comparison of revisions made when the row was
locked is still true at the commit (`Clears`), which is `OneResetPerChange`.
`OneVersion` is stated without overlap: then whoever reconciles does so alone
(`OneAtATime`). Each trigger of the version it read is still to do or written
active; each other row is written inactive or, after the scan, inactive already or
still a target (`Progress`). At the commit nothing is left to do, so the active rows are
what that version says (`CommitsDesired`); a transaction that ends otherwise
writes nothing.

The argument for the recovery: `PatchesOnlyWhatItRead` says of a copy that is
still current (`CopyIsCurrent`) that the HPA lacks a metric, belongs to the object
listed and has the leader's state. Any write of the HPA ends its currency, which
is what the resource version in the patch stands for, and only `Attempt` makes a
copy current. `SeriesFollowStates` holds in the middle of a check
too: whatever is exported has a state, which a healthy HPA keeps as well, and
`Prune` deletes the two together.

Every invariant and every action property of a passing run is the property of a
theorem. Only model-checked: the liveness properties, `QueueDrains`,
`RequestIsAnswered`, `ResetIsApplied`, `SurgeIsReleased`, `Converges`,
`DeletionIsApplied`, `Recovers` and `RequestsEnd`, which are out of the
prover's reach because fairness is defined with ENABLED. Induction principles
that take a predicate cannot be instantiated; the sums of `SetLemmas` and the
windows of `ArtifactComparison` do without, by the least counterexample of a
set of numbers and by least closed sets. No module here needs a RECURSIVE
operator.

## Findings

Two runs are expected to be violated; each states what a document says.

* **model_stale_job.** The native trainer compares its revision once, before it
  repairs and fits, and inserts the candidate hours later without a comparison.
  `docs/architecture.md:184-187` says the revision is verified again before
  publication, so that a Job of a replaced configuration cannot bring a model
  back after a reset. The evaluation does not promote such a candidate (its
  contract differs), but it is in the table. `ActivatedUnderCurrentPolicy`
  shows the limit of the harm, and is proved.
* **scaling_rollout.** The budget guard reads the sum of the latest snapshots
  (`forecast_repository.go:64`) and the INSERT comes later as a statement of its own
  (line 19). In a rollout, for which the chart sets no strategy that would stop the old
  forecaster first, one forecaster approves a workload and the other another one,
  each against the other's old row; both insert, and the sum exceeds the budget.
  `docs/architecture.md:232-233` says the budget caps the total. With one
  forecaster the same statement fails only for a workload's first forecast: the sum
  joins the latest snapshots, and a workload without one is not in it, so that its
  first raise is approved whatever it adds. `BudgetKept` says that these are the only
  two ways, `AloneWithinBudget` that the second is the only one for a single
  forecaster, which is the chart's default outside of a rollout.

Observed while modelling, without a run of their own:

* An API error on creation marks an immediate run failed and it is never handed
  out again (`scheduler.go:102-109`, `training_repository.go:59`):
  `RequestIsAnswered` therefore promises a Job or a failed run, not a model. The
  mark has no condition on the status (`training_repository.go`, `MarkFailed`), so
  that it may overwrite what a trainer has reported when the call failed after
  it took effect; `TruthfulRuns` is stated for calls that do not.
* A killed PyTorch Job leaves its run claimed; each removal of the Job object
  then leads to another Job of the same run.
* While a reset waits for a PyTorch trainer it holds the workload's row FOR UPDATE
  (`internal/postgres/workload_repository.go:73`), without a timeout. Every INSERT
  that refers to the workload waits as well: the sampler's upsert, the forecaster's
  snapshot, the scheduler's claim, and with them the loops that go on to other
  workloads. It lasts until the trainer wants to publish or fails.
* A scheduled offset in the last poll of an interval can be stepped over, and
  the interval is not trained (`scheduler.go:110`).
* `EvaluationPolicy.Validate` (`internal/training/evaluation.go:57`) accepts any
  minimum duration above zero. If it is no longer than the deadline of an evaluation
  (4 minutes, `cmd/replicasense-forecaster/main.go:84`) and a session is lost, a
  stale report on a model that was replaced and rolled back meanwhile passes every
  comparison and overwrites its link to its predecessor. TLC finds it
  with both set to 1, and it is the hypothesis of `FaithfulLinks`.
* The transaction of an evaluation compares everything but the time of the target's
  last report. When a session is lost, two workers can both report on the
  candidate within one deadline, without the champion's turn in between. And as an
  evaluation takes its time before its lock, one that began earlier can be recorded
  later. These are the hypotheses of `TurnsTaken` and `TurnsHandedOver`.
* A rollback withheld by shadow mode is reported on the retired model
  (`internal/training/evaluation.go:309`), not on the champion. A candidate
  reported on last, which waits when the mode changes from automatic to shadow, gets
  no turn as long as the predecessor keeps winning, although the comment at
  `internal/training/evaluation.go:142` wants bounded attempts to alternate.
* A candidate of a former engine gets no report the transaction accepts and
  keeps its place until it expires.
* After a refusal the snapshot carries the replicas read earlier. When the HPA
  scaled down in between it scales up again; two workloads above the budget hold
  each other there; `RaisesAreGradual` bounds a snapshot by what was read, not by what
  runs when it is stored; a pending pod of a past surge keeps the cluster unhealthy
  and is therefore kept. `docs/architecture.md:9-11` speaks of zero.
* Capacity is compared per workload: two workloads of one cycle can be approved
  against the same free pods (`internal/kube/capacity.go:98`).
* A recovery starts after the newest row (`internal/sampler/backfill.go:61`). A trainer
  that begins while a round is retrying, with a window that no longer contains the
  oldest failed slot, stores later slots first, and the recovery then steps over that
  slot although its own window contains it. It takes a training window hardly longer
  than the recovery window (24 hours by default against 7 days; nothing relates the
  two). TLC finds it with both set to 4 seconds, and `FailedSlotsAreRecovered` excepts
  the slots that the training window has left behind.
* `SampleHistory` has one sampler. A second one, in a rollout, could store a later
  row before the first one's recovery begins, which then steps over a failed slot:
  `FailedSlotsAreRecovered` is shown for one sampler at a time.
* A round of the sampler that steps over the due second, or whose upsert fails,
  leaves no marker, a failed recovery has deleted it, and a restart forgets it:
  the slot stays missing until a trainer repairs it. A source that returns after
  an edit counts as bootstrapped, so the gap is not filled by the sampler either.
* The parser accepts a trigger when horizon, latency and buffer together are a
  multiple of the sampling interval (`internal/scaledobject/parser.go:208`); the
  schema wants the horizon alone to be one (`migrations/schema.sql:48`). With a
  horizon of 90s, a latency of 30s and an interval of 1m the INSERT is refused,
  and with it, at every retry, the whole object: valid triggers beside it are not
  updated either. `Converges` is therefore stated for objects the table takes.
* One value that is no number in the training window fails the bootstrap's query
  for the whole window, and with it every round of the workload until the value
  has left the window (`internal/sampler/service.go` goes on to the other
  workloads): a source with such a value has no live samples meanwhile.
* Negative values are stored, and refused by repairs, trainers, comparisons and
  bridged inputs: one of them stops the training and the evaluation of its
  workload until it leaves their window. With bridging switched off
  (`internal/forecaster/service.go:103-108`) an input is only validated for its
  gaps, so that a model reads the negative value; duplicate rows of a slot then
  count towards the minimum of samples as well.
* `RealContiguousSuffix` takes a gap of less than one and a half intervals for
  none. With a jitter of more than half an interval a live row and the range row two
  slots later are that near, and the slot between them may be missing; the
  instance, with whole seconds and an interval of 2, does not have such a gap.
* A step up to a plateau is no surge: both confirming observations have to grow
  against the one before (`IsSurgeCandidate`).
* The maturity evaluator takes the 100 oldest unevaluated snapshots by observation time
  (`internal/postgres/evaluator.go:20`). One without any sample in its horizon
  stays unevaluated and first in that order; as soon as 100 exist nothing else is
  evaluated. A verdict over a horizon that was still filling is not revised.
* A forecaster whose refresh fails keeps its copy of the active models, and
  `ModelFor` compares the age of the artifact, the engine and the quantile
  (`internal/forecaster/model_cache.go:80-96`): after a reset whose refreshes fail
  the deleted model can serve until `REPLICASENSE_MODEL_MAX_AGE`.
* An object that is deleted while no controller runs is never deactivated: a new
  leader lists the objects that exist. `DeletionIsApplied` is stated for a leader
  that has yet to see or to handle the deletion. Without its condition on
  `overlap` TLC finds the former leader that writes the rows again afterwards.
* The UPDATE of missing triggers does not see rows that an overlapping
  transaction is inserting, so that two leaders can leave the triggers of two
  versions active; `WholeVersions` without its condition on `overlap` shows it.
  The next reconciliation repairs it.

## Not modelled

Numerical code (models, features, scores), the decoding of Prometheus answers,
configuration, metrics and packaging. Time-out budgets appear as failures.
The model cache is a forecaster's copy of the active rows, replaced as a whole
by one query and compared in two fields when it is used: what may be in it is
what `ModelLifecycle` says may be active, and a copy of the lineage in every
forecaster would multiply the states of the largest runs without a step that
depends on it. The maturity evaluator is one UPDATE per matured snapshot, which no other
part reads. What the code of both makes possible is under Findings.
The syntax of a trigger's fields is one flag.
Collisions of hashed slots and identifiers are left out. PostgreSQL is assumed
to give each statement and transaction the atomicity of its isolation level;
waiting for row locks is a step that is not enabled. `PROJECT.json` lists each
component with its status and each hazard with the properties that cover it.

## Plan

Done, in the order of importance: `ModelLifecycle` with proofs, `TrainingRuns`
with proofs, `SpeculativeScaling`, `SnapshotServing` with refinement and proofs,
`SampleHistory` with `InferenceHistory`, `ArtifactComparison` and proofs,
`WorkloadReconcile` with proofs, `HPARecovery` with proofs, the proofs about
`SpeculativeScaling`, the turns and links of `ModelLifecycle`, the histories of
`InferenceHistory` and the evidence of `ArtifactComparison`.

Worth doing next: the hypotheses of `TurnsTaken`, `TurnsHandedOver` and `FaithfulLinks`
as properties of the configuration a deployment may have, and theorems about what
the liveness properties rest on, as far as they are safety (that a run that waits
is not lost, that a failing HPA keeps its request).
