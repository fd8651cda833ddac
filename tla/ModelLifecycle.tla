--------------------------- MODULE ModelLifecycle ---------------------------
(***************************************************************************)
(* The models of one workload, from the candidate a trainer Job inserts to *)
(* the artifact that serves: the controller's reconciliation of the        *)
(* workload row, the trainers, and the forecaster's evaluation worker with *)
(* its session lock and its fenced transaction.                            *)
(*                                                                         *)
(* A policy revision stands for everything it hashes: the model engine,    *)
(* the metric source (fingerprint), the evaluation contract and            *)
(* clearOldModels.  Scores are abstracted to the verdicts the code derives *)
(* from them; evidence keeps its first and last observation.  One clock    *)
(* tick is a long while of real time (hours), and model ids follow         *)
(* created_at.                                                             *)
(***************************************************************************)
EXTENDS Integers, FiniteSets

CONSTANTS
    Policies,       \* policy revisions the ScaledObject can have
    Engine,         \* [Policies -> engine named by that revision]
    Fingerprint,    \* [Policies -> identity of the metric source]
    Semantics,      \* [Policies -> contract without the policy revision]
    Clearing,       \* revisions with clearOldModels: "true"
    Legacy,         \* revisions a pre-upgrade active model may come from
    Evaluators,     \* forecaster processes with an evaluation worker
    Trainers,       \* trainer Jobs that may run at once
    Transactional,  \* those of the PyTorch image: one transaction per Job
    NoOne,          \* the advisory lock is free
    Modes,          \* promotion modes a forecaster may be started with
    Rollback,       \* REPLICASENSE_MODEL_ROLLBACK_ENABLED
    SessionsDrop,   \* PostgreSQL may drop the session that holds the lock
    Window,         \* evaluation window
    MinDuration,    \* least span of evidence
    EvidenceAge,    \* horizon + 3 sampling intervals
    ExpireAfter,    \* max(72h, window + minimum duration)
    Deadline,       \* deadline of one evaluation (4 minutes)
    CommitAge,      \* report age accepted by the transaction (10 minutes)
    FitLags,        \* how far a fitted segment may end behind the Job's start
    MaxTime, MaxModels, MaxFaults   \* bounds: clock, models, disturbances

ASSUME PolicyAssumption ==
    /\ Policies # {}
    /\ Clearing \subseteq Policies
    /\ Legacy \subseteq Policies

ASSUME WorkerAssumption ==
    /\ NoOne \notin Evaluators
    /\ Modes \subseteq {"automatic", "shadow"}
    /\ Modes # {}
    /\ Rollback \in BOOLEAN /\ SessionsDrop \in BOOLEAN
    /\ Transactional \subseteq Trainers

ASSUME TimeAssumption ==
    /\ MaxTime \in Nat \ {0}
    /\ Window \in Nat /\ MinDuration \in Nat \ {0}
    /\ MinDuration <= Window
    /\ EvidenceAge \in Nat /\ ExpireAfter \in Nat
    /\ Deadline \in Nat /\ CommitAge \in Nat
    /\ FitLags \subseteq Nat
    /\ MaxModels \in Nat \ {0} /\ MaxFaults \in Nat

Ids  == 1 .. MaxModels
None == 0                   \* the empty model id of the code
Time == 0 .. MaxTime        \* 0 is Go's zero time; the clock starts at 1

\* Reasons and actions a report can end with.  The first four take a
\* candidate out of the queue, like the action "rejected".
Departing == {"incompatible_contract", "invalid_training_boundary",
              "candidate_expired", "invalid_artifact"}
Retrying  == {"no_current_evidence", "invalid_rollback_artifact"}
Actions   == {"promote", "shadow", "rejected", "revalidated", "degraded",
              "rollback", "shadow_rollback"}
Outcomes  == {"none"} \cup Departing \cup Retrying \cup Actions
Switching == {"promote", "rollback"}

VARIABLES
    now,      \* the clock shared by the processes and PostgreSQL
    live,     \* workloads.status = 'active'
    policy,   \* workloads.policy_revision (and what it hashes)
    models,   \* the rows of table models
    born,     \* rows inserted so far
    job,      \* trainer Jobs
    lock,     \* holder of the evaluation advisory lock
    ev,       \* evaluation workers
    faults    \* disturbances so far: edits, restarts, lost sessions

vars == <<now, live, policy, models, born, job, lock, ev, faults>>

NoModel == [status |-> "absent", rev |-> CHOOSE p \in Policies : TRUE,
            legacy |-> FALSE, fitted |-> 0, created |-> 0, activated |-> 0,
            certified |-> 0, at |-> 0, outcome |-> "none", prev |-> None]

NoReport == [target |-> None, expected |-> {}, outcome |-> "none",
             start |-> 0, end |-> 0, scored |-> {}, prev |-> None]

IdleWorker(mode) == [pc |-> "idle", mode |-> mode, at |-> 0,
                     w |-> CHOOSE p \in Policies : TRUE, report |-> NoReport]

IdleJob == [pc |-> "idle", rev |-> CHOOSE p \in Policies : TRUE, id |-> None,
            start |-> 0, fitted |-> 0]

ModelType == [status : {"absent", "candidate", "active", "retired"},
              rev : Policies, legacy : BOOLEAN, fitted : Time,
              created : Time, activated : Time, certified : Time, at : Time,
              outcome : Outcomes, prev : Ids \cup {None}]

ReportType == [target : Ids \cup {None}, expected : SUBSET Ids,
               outcome : Outcomes, start : Time, end : Time,
               scored : SUBSET {"candidate", "champion", "previous"},
               prev : Ids \cup {None}]

WorkerType == [pc : {"idle", "waiting", "locked", "scored"}, mode : Modes,
               at : Time, w : Policies, report : ReportType]

JobType == [pc : {"idle", "repairing", "fitting"}, rev : Policies,
            id : Ids \cup {None}, start : Time, fitted : Time]

-----------------------------------------------------------------------------
(* The table, as the queries of EvaluationModels see it.                   *)

Rows(fp) == {i \in Ids : /\ models[i].status # "absent"
                         /\ Fingerprint[models[i].rev] = fp}

WithStatus(fp, s) == {i \in Rows(fp) : models[i].status = s}

ActiveIds(fp) == WithStatus(fp, "active")

\* Faulty variant: a late, older candidate still counts as pending.
PendingAnyAge(fp) ==
    {i \in WithStatus(fp, "candidate") :
        models[i].outcome \notin Departing \cup {"rejected"}}

\* Candidates newer than the champion that no report has sent away.
Pending(fp) ==
    {i \in WithStatus(fp, "candidate") :
        /\ \A a \in ActiveIds(fp) : i > a
        /\ models[i].outcome \notin Departing \cup {"rejected"}}

Oldest(S) == IF S = {} THEN None ELSE CHOOSE i \in S : \A j \in S : i <= j
Newest(S) == IF S = {} THEN None ELSE CHOOSE i \in S : \A j \in S : i >= j

\* One row per status: the oldest pending candidate, the newest others.
EvaluationModels(fp) ==
    [active |-> Newest(ActiveIds(fp)), candidate |-> Oldest(Pending(fp)),
     previous |-> Newest(WithStatus(fp, "retired"))]

\* Faulty variant: the oldest candidate is always first.
NoTurns(v) == v

\* The candidate yields its turn when it was evaluated after the champion.
Turn(v) ==
    IF /\ v.active # None /\ v.candidate # None
       /\ models[v.candidate].at > models[v.active].at
    THEN [v EXCEPT !.candidate = None]
    ELSE v

Target(v) == IF v.candidate # None THEN v.candidate ELSE v.active

HasContract(i, w) == models[i].rev = w /\ ~models[i].legacy

LegacyActive(v, w) == LET t == Target(v) IN
    t = v.active /\ models[t].legacy /\ Engine[models[t].rev] = Engine[w]

\* Faulty variant: candidates do not expire.
FaultNoExpiry(v, w, at) == LET t == Target(v) IN
    IF ~HasContract(t, w) /\ ~LegacyActive(v, w) THEN "incompatible_contract"
    ELSE IF models[t].fitted > at THEN "invalid_training_boundary"
    ELSE "none"

\* Checks made before any artifact is loaded, first failure first.
Fault(v, w, at) == LET t == Target(v) IN
    IF ~HasContract(t, w) /\ ~LegacyActive(v, w) THEN "incompatible_contract"
    ELSE IF models[t].fitted > at THEN "invalid_training_boundary"
    ELSE IF v.candidate # None /\ at - models[t].created > ExpireAfter
         THEN "candidate_expired"
    ELSE "none"

RollbackEligible(v, w) ==
    /\ Rollback /\ v.candidate = None /\ v.previous # None
    /\ v.previous = models[v.active].prev
    /\ HasContract(v.previous, w)

\* The champion can be paired with the candidate on the same windows.
Comparable(v, w) ==
    /\ v.candidate # None /\ v.active # None
    /\ Engine[models[v.active].rev] = Engine[models[v.candidate].rev]
    /\ \/ models[v.active].legacy
       \/ Semantics[models[v.active].rev] = Semantics[w]

\* Evidence may not begin before any of these instants.
Cutoffs(v, w, at, paired) ==
    {models[Target(v)].fitted, at - Window}
    \cup (IF paired THEN {models[v.active].fitted} ELSE {})
    \cup (IF RollbackEligible(v, w)
          THEN {models[v.previous].fitted, models[v.active].activated} ELSE {})

\* Faulty variant: any span of evidence will do.
AnySpanOfEvidence(r, at, t) ==
    /\ r.end <= at /\ at - r.end <= EvidenceAge
    /\ at >= t - CommitAge /\ at <= t

FreshEvaluationEvidence(r, at, t) ==
    /\ r.end <= at /\ r.end - r.start >= MinDuration
    /\ at - r.end <= EvidenceAge
    /\ at >= t - CommitAge /\ at <= t

-----------------------------------------------------------------------------
Init ==
    /\ now = 1 /\ live = TRUE
    /\ policy \in Policies
    /\ \/ models = [i \in Ids |-> NoModel] /\ born = 0
       \/ \E p \in Legacy :
            /\ models = [i \in Ids |->
                    IF i = 1 THEN [NoModel EXCEPT !.status = "active",
                                                  !.rev = p, !.legacy = TRUE]
                             ELSE NoModel]
            /\ born = 1
    /\ job = [t \in Trainers |-> IdleJob]
    /\ lock = NoOne
    /\ ev \in [Evaluators -> {IdleWorker(m) : m \in Modes}]
    /\ faults = 0

Tick == /\ now < MaxTime
        /\ now' = now + 1
        /\ UNCHANGED <<live, policy, models, born, job, lock, ev, faults>>

(* The controller. *)

Clears(p) == p \in Clearing /\ p # policy

\* One transaction: the row takes the observed revision, and a changed
\* revision that asks for it deletes every model of the workload.  It detaches
\* the training runs first, so it waits for a transaction that holds one.
Reconcile(p) ==
    /\ p # policy \/ ~live
    /\ live => faults < MaxFaults
    /\ Clears(p) => \A t \in Transactional : job[t].pc = "idle"
    /\ live' = TRUE /\ policy' = p
    /\ models' = IF Clears(p) THEN [i \in Ids |-> NoModel] ELSE models
    /\ faults' = IF live THEN faults + 1 ELSE faults
    /\ UNCHANGED <<now, born, job, lock, ev>>

DeactivateParent ==
    /\ live /\ faults < MaxFaults
    /\ live' = FALSE /\ faults' = faults + 1
    /\ UNCHANGED <<now, policy, models, born, job, lock, ev>>

(* The trainers. *)

\* The Job finds its workload under the revision it was created for.  The
\* created_at of a row is the start of the transaction that inserts it, so a
\* transactional Job takes its place in the order here.
StartTraining(t) ==
    /\ job[t].pc = "idle" /\ live /\ born < MaxModels
    /\ born' = IF t \in Transactional THEN born + 1 ELSE born
    /\ \E lag \in FitLags :
        /\ lag <= now
        /\ job' = [job EXCEPT ![t] =
                    [pc |-> "repairing", rev |-> policy,
                     id |-> IF t \in Transactional THEN born + 1 ELSE None,
                     start |-> IF t \in Transactional THEN now ELSE 0,
                     fitted |-> now - lag]]
    /\ UNCHANGED <<now, live, policy, models, lock, ev, faults>>

\* History repair: with no missing slot it writes nothing and checks nothing;
\* otherwise its insert is fenced by the revision.
RepairHistory(t) ==
    /\ job[t].pc = "repairing"
    /\ \E missing \in BOOLEAN :
        job' = IF missing /\ ~(live /\ policy = job[t].rev)
               THEN [job EXCEPT ![t] = IdleJob]
               ELSE [job EXCEPT ![t].pc = "fitting"]
    /\ UNCHANGED <<now, live, policy, models, born, lock, ev, faults>>

\* Faulty variant: a status the schema's CHECK does not know.
InsertUnknownStatus(i, t, created) ==
    models' = [models EXCEPT ![i] = [NoModel EXCEPT !.status = "pending",
                                                    !.rev = job[t].rev]]

Insert(i, t, created) ==
    models' = [models EXCEPT ![i] = [NoModel EXCEPT !.status = "candidate",
                                                    !.rev = job[t].rev,
                                                    !.fitted = job[t].fitted,
                                                    !.created = created]]

\* A plain INSERT: neither the revision nor the workload's status is read.
CreateCandidate(t) ==
    /\ job[t].pc = "fitting"
    /\ \/ /\ t \in Transactional
          /\ Insert(job[t].id, t, job[t].start)
          /\ UNCHANGED born
       \/ /\ t \notin Transactional /\ born < MaxModels
          /\ Insert(born + 1, t, now)
          /\ born' = born + 1
    /\ job' = [job EXCEPT ![t] = IdleJob]
    /\ UNCHANGED <<now, live, policy, lock, ev, faults>>

\* The Job dies, or cannot train on the segment it loaded.
AbandonJob(t) ==
    /\ job[t].pc # "idle"
    /\ job' = [job EXCEPT ![t] = IdleJob]
    /\ UNCHANGED <<now, live, policy, models, born, lock, ev, faults>>

(* The evaluation worker. *)

\* The loop lists the workload and takes the time of the evaluation ...
BeginEvaluation(e) ==
    /\ ev[e].pc = "idle" /\ live
    /\ ev' = [ev EXCEPT ![e].pc = "waiting", ![e].at = now, ![e].w = policy]
    /\ UNCHANGED <<now, live, policy, models, born, job, lock, faults>>

\* ... then tries the session lock once; a held lock ends this attempt.
AcquireEvaluation(e) ==
    /\ ev[e].pc = "waiting"
    /\ \/ /\ lock = NoOne
          /\ lock' = e
          /\ ev' = [ev EXCEPT ![e].pc = "locked"]
       \/ /\ lock # NoOne
          /\ ev' = [ev EXCEPT ![e] = IdleWorker(@.mode)]
          /\ UNCHANGED lock
    /\ UNCHANGED <<now, live, policy, models, born, job, faults>>

Unlock(e) == lock' = IF lock = e THEN NoOne ELSE lock

\* The report as finish() will hand it to the store.  A report that names no
\* previous model keeps the link its target already has.
Draft(v, start, end, scored) ==
    [target |-> Target(v), expected |-> {v.active} \ {None},
     outcome |-> "none", start |-> start, end |-> end, scored |-> scored,
     prev |-> models[Target(v)].prev]

Withheld(v, w, at) ==
    LET fault == Fault(v, w, at)
        whys  == IF fault # "none" THEN {fault}
                 ELSE {"invalid_artifact", "no_current_evidence"}
                      \cup (IF RollbackEligible(v, w)
                            THEN {"invalid_rollback_artifact"} ELSE {})
    IN  {[Draft(v, 0, 0, {}) EXCEPT !.outcome = why] : why \in whys}

Scored(v, w, at, start, end, paired) ==
    {r \in {Draft(v, start, end,
                  {"candidate"}
                  \cup (IF paired THEN {"champion"} ELSE {})
                  \cup (IF RollbackEligible(v, w) THEN {"previous"} ELSE {}))} :
        /\ \A c \in Cutoffs(v, w, at, paired) : start >= c
        /\ FreshEvaluationEvidence(r, at, at)}

\* What the verdicts on the scores make of a report.
Decisions(v, w, mode, r) ==
    IF v.candidate # None
    THEN {[r EXCEPT !.outcome = "rejected"],
          [r EXCEPT !.outcome = IF mode = "shadow" THEN "shadow" ELSE "promote",
                    !.prev = IF v.active = None THEN @ ELSE v.active]}
    ELSE {[r EXCEPT !.outcome = "revalidated"],
          [r EXCEPT !.outcome = "degraded"]}
         \cup IF RollbackEligible(v, w)
              THEN {[r EXCEPT !.outcome = IF mode = "shadow"
                                          THEN "shadow_rollback"
                                          ELSE "rollback",
                              !.target = v.previous, !.prev = v.active]}
              ELSE {}

Evaluate(e) ==
    /\ ev[e].pc = "locked"
    /\ LET w  == ev[e].w
           at == ev[e].at
       IN  \E v \in {Turn(EvaluationModels(Fingerprint[w]))} :
           \/ /\ Target(v) = None
              /\ ev' = [ev EXCEPT ![e] = IdleWorker(@.mode)]
              /\ Unlock(e)
           \/ /\ Target(v) # None
              /\ \/ \E r \in Withheld(v, w, at) :
                        ev' = [ev EXCEPT ![e].pc = "scored", ![e].report = r]
                 \/ /\ Fault(v, w, at) = "none"
                    /\ \E paired \in {b \in BOOLEAN : b => Comparable(v, w)},
                          start, end \in 0 .. at :
                        \E r \in Scored(v, w, at, start, end, paired) :
                          \E d \in Decisions(v, w, ev[e].mode, r) :
                            ev' = [ev EXCEPT ![e].pc = "scored",
                                             ![e].report = d]
              /\ UNCHANGED lock
    /\ UNCHANGED <<now, live, policy, models, born, job, faults>>

\* Faulty variant: evaluations have no deadline.
AnyTime(e) == TRUE

\* The context of the evaluation has not expired.
InTime(e) == now - ev[e].at <= Deadline

\* Faulty variant: the revision is not compared.
AnyPolicy(e) == live

SamePolicy(e) == live /\ policy = ev[e].w

\* The rows CompleteEvaluation locks are those the evaluation saw.
Fenced(e) == LET w == ev[e].w
                 r == ev[e].report
                 fp == Fingerprint[w] IN
    /\ InTime(e) /\ SamePolicy(e)
    /\ ActiveIds(fp) = r.expected
    /\ r.target \in Rows(fp)
    /\ Engine[models[r.target].rev] = Engine[w]

\* The conditions under which the transaction renews or switches a model.
Evidenced(e) == LET w == ev[e].w
                    r == ev[e].report
                    t == models[r.target]
                    actives == ActiveIds(Fingerprint[w]) IN
    /\ r.outcome \in Switching \cup {"revalidated"} =>
        /\ FreshEvaluationEvidence(r, ev[e].at, now)
        /\ r.start >= t.fitted
    /\ r.outcome = "revalidated" => t.status = "active"
    /\ r.outcome \in Switching =>
        /\ HasContract(r.target, w)
        /\ ev[e].mode = "automatic"
        /\ "champion" \in r.scored =>
                \A a \in actives : r.start >= models[a].fitted
    /\ r.outcome = "promote" => t.status = "candidate"
    /\ r.outcome = "rollback" =>
        /\ t.status = "retired" /\ Rollback
        /\ \A a \in actives : /\ r.start >= models[a].activated
                              /\ r.start >= models[a].fitted
                              /\ models[a].prev = r.target

Latest(a, b) == IF a >= b THEN a ELSE b

\* Faulty variant: a promotion leaves the champion active.
ReplacedByRollback(e) == LET r == ev[e].report IN
    IF r.outcome = "rollback" THEN r.expected ELSE {}

\* The champion a switch retires.
Replaced(e) == LET r == ev[e].report IN
    IF r.outcome \in Switching THEN r.expected ELSE {}

\* Faulty variant: a withheld check of the champion is not dated.
DatedWhenDecided(e) == LET r == ev[e].report IN
    IF models[r.target].status = "active" /\ r.outcome \notin Actions
    THEN models[r.target].at ELSE ev[e].at

ReportedAt(e) == ev[e].at

\* The table after the transaction: the champion retires, the target serves,
\* and the report is recorded on the target.
Recorded(e) == LET r == ev[e].report IN
    [i \in Ids |->
        IF i = r.target
        THEN [models[i] EXCEPT
                !.status = IF r.outcome \in Switching THEN "active" ELSE @,
                !.activated = IF r.outcome \in Switching THEN now ELSE @,
                !.certified =
                    CASE r.outcome \in Switching -> now
                      [] r.outcome = "revalidated" ->
                            Latest(models[i].activated, ev[e].at)
                      [] OTHER -> @,
                !.at = ReportedAt(e), !.outcome = r.outcome, !.prev = r.prev]
        ELSE IF i \in Replaced(e)
        THEN [models[i] EXCEPT !.status = "retired"]
        ELSE models[i]]

\* One transaction, then the deferred release of the lock.  A refused report
\* is an error: nothing is recorded.
CompleteEvaluation(e) ==
    /\ ev[e].pc = "scored"
    /\ models' = IF Fenced(e) /\ Evidenced(e) THEN Recorded(e) ELSE models
    /\ ev' = [ev EXCEPT ![e] = IdleWorker(@.mode)]
    /\ Unlock(e)
    /\ UNCHANGED <<now, live, policy, born, job, faults>>

\* The process stops anywhere and comes back, perhaps with another mode; an
\* evaluation that ends with an error goes the same way.
Restart(e) ==
    /\ faults < MaxFaults
    /\ \E m \in Modes : /\ ev[e].pc # "idle" \/ m # ev[e].mode
                        /\ ev' = [ev EXCEPT ![e] = IdleWorker(m)]
    /\ Unlock(e)
    /\ faults' = faults + 1
    /\ UNCHANGED <<now, live, policy, models, born, job>>

\* PostgreSQL drops the session that held the lock; the evaluation goes on
\* over other connections of the pool.
LoseSession(e) ==
    /\ SessionsDrop /\ lock = e /\ faults < MaxFaults
    /\ lock' = NoOne
    /\ faults' = faults + 1
    /\ UNCHANGED <<now, live, policy, models, born, job, ev>>

Worker(e) == \/ BeginEvaluation(e) \/ AcquireEvaluation(e)
             \/ Evaluate(e) \/ CompleteEvaluation(e)

Next ==
    \/ Tick
    \/ \E p \in Policies : Reconcile(p)
    \/ DeactivateParent
    \/ \E t \in Trainers : \/ StartTraining(t) \/ RepairHistory(t)
                           \/ CreateCandidate(t) \/ AbandonJob(t)
    \/ \E e \in Evaluators : Worker(e) \/ Restart(e) \/ LoseSession(e)

Spec == Init /\ [][Next]_vars

\* The worker's loop and the clock go on; Jobs, edits and failures need not.
FairSpec == Spec /\ WF_vars(Tick)
                 /\ \A e \in Evaluators : WF_vars(Worker(e))

-----------------------------------------------------------------------------
(* Properties. *)

\* Every variable keeps its type.
TypeOK ==
    /\ now \in 1 .. MaxTime /\ live \in BOOLEAN /\ policy \in Policies
    /\ models \in [Ids -> ModelType] /\ born \in 0 .. MaxModels
    /\ job \in [Trainers -> JobType]
    /\ lock \in Evaluators \cup {NoOne}
    /\ ev \in [Evaluators -> WorkerType]
    /\ faults \in 0 .. MaxFaults

\* A workload never has two active models for one metric source: promotions,
\* rollbacks and late evaluations of several forecasters, with or without the
\* session lock, always retire the model they replace.
OneActive ==
    \A i, j \in Ids :
        /\ models[i].status = "active" /\ models[j].status = "active"
        /\ Fingerprint[models[i].rev] = Fingerprint[models[j].rev]
        => i = j

\* A model that serves was scored on at least the minimum duration of
\* observations made after its own fitting cutoff, whatever evaluation
\* promoted it, restored it or renewed it.
SeasonedCertificates ==
    \A i \in Ids : models[i].status = "active" /\ ~models[i].legacy
        => models[i].certified - models[i].fitted >= MinDuration

Activates(i) == models[i].status # "active" /\ models'[i].status = "active"
Retires(i)   == models[i].status = "active" /\ models'[i].status = "retired"

\* A model is switched on only for the revision it was trained for, and only
\* while that is the revision of a live workload: an edit that lands between
\* the evaluation and its transaction voids the decision.
ActivatedUnderCurrentPolicy ==
    [][\A i \in Ids : Activates(i) => live /\ HasContract(i, policy)]_vars

\* A model created before the champion replaces it only by a rollback to the
\* champion's recorded predecessor, however late a Job publishes it.
OlderReplacesOnlyByRollback ==
    [][\A i, a \in Ids : Activates(i) /\ Retires(a) /\ i < a
            => models[i].status = "retired" /\ models[a].prev = i]_vars

\* The predecessor recorded with an active model is the model it replaced:
\* it is written when the model is switched on and no later report, however
\* stale the evaluation that wrote it, changes it.
LinkIsFaithful ==
    [][\A i \in Ids :
        /\ Activates(i) => \A a \in Ids : Retires(a) => models'[i].prev = a
        /\ models[i].status = "active" /\ models'[i].status = "active"
               => models'[i].prev = models[i].prev]_vars

\* A champion is rolled back only after the minimum duration of service:
\* the evidence against it was observed after its activation.
RollbackWaits ==
    [][\A i, a \in Ids :
        Activates(i) /\ models[i].status = "retired" /\ Retires(a)
            => now - models[a].activated >= MinDuration]_vars

Reported(i) == models'[i].status # "absent" /\ models'[i].at # models[i].at

\* Candidate and champion take turns: between two reports on a candidate the
\* champion it competes with has been reported on.
TakesTurns ==
    [][\A i, a \in Ids :
        /\ models[i].status = "candidate" /\ Reported(i)
        /\ models[a].status = "active"
        /\ Fingerprint[models[a].rev] = Fingerprint[models[i].rev]
        => models[i].at <= models[a].at]_vars

\* An applied evaluation of the champion, or the rollback that ends its time,
\* hands the next turn to the candidates that wait: none of them was reported
\* on after the model that serves then.
HandsOver ==
    [][\A e \in Evaluators : LET t == ev[e].report.target IN
        (/\ ev[e].pc = "scored" /\ ev'[e].pc = "idle" /\ models' # models
         /\ models[t].status # "candidate" /\ models'[t].status = "active") =>
            \A c, a \in Ids :
                (/\ c \in Pending(Fingerprint[policy])
                 /\ models'[c].status = "candidate"
                 /\ models'[a].status = "active"
                 /\ Fingerprint[models'[a].rev] = Fingerprint[policy])
                    => models'[c].at <= models'[a].at]_vars

\* A trainer publishes only under the revision its workload has now.
PublishesCurrentPolicy ==
    [][\A i \in Ids :
        models[i].status = "absent" /\ models'[i].status = "candidate"
            => live /\ models'[i].rev = policy]_vars

InQueue(i)   == live /\ i \in Pending(Fingerprint[policy])
Expirable(i) == models[i].created + ExpireAfter < MaxTime

\* Every pending candidate is eventually decided, superseded or expired, with
\* the clock running and the workers scheduled.
QueueDrains ==
    \A i \in Ids : (InQueue(i) /\ Expirable(i)) ~> ~InQueue(i)
=============================================================================
