------------------------ MODULE ModelLifecycleProofs ------------------------
(***************************************************************************)
(* What ModelLifecycle guarantees for any number of forecasters, Jobs,     *)
(* models, policies and faults, and for any timing constants.              *)
(***************************************************************************)
EXTENDS ModelLifecycle, WellFoundedInduction, TLAPS

USE DEF Ids, None, Time

(* Picking a row of the table. *)

\* A set of numbers that is not empty has a least one.
LEMMA LeastExists ==
    ASSUME NEW S \in SUBSET Nat, S # {}
    PROVE  \E i \in S : \A j \in S : i <= j
<1>1. \E x \in S : \A y \in S : ~(<<y, x>> \in OpToRel(<, Nat))
    BY NatLessThanWellFounded, WFMin
<1>2. PICK x \in S : \A y \in S : ~(<<y, x>> \in OpToRel(<, Nat))
    BY <1>1
<1>3. \A y \in S : ~(y < x)
    BY <1>2 DEF OpToRel
<1>4. QED BY <1>3

\* A set of model ids that is not empty has a greatest one.
LEMMA GreatestExists ==
    ASSUME NEW S \in SUBSET Ids, S # {}
    PROVE  \E i \in S : \A j \in S : i >= j
<1> DEFINE R == {MaxModels - i : i \in S}
<1>1. R \in SUBSET Nat /\ R # {}
    <2>1. ASSUME NEW i \in S PROVE MaxModels - i \in Nat
        <3>1. i \in 1 .. MaxModels
            OBVIOUS
        <3> QED BY <3>1, TimeAssumption
    <2>2. \A r \in R : r \in Nat
        BY <2>1
    <2>3. PICK i \in S : TRUE
        OBVIOUS
    <2>4. MaxModels - i \in R
        BY <2>3
    <2> QED BY <2>2, <2>4
<1>2. PICK m \in R : \A n \in R : m <= n
    BY <1>1, LeastExists
<1>3. PICK i \in S : m = MaxModels - i
    BY <1>2
<1>4. \A j \in S : i >= j
    <2> SUFFICES ASSUME NEW j \in S PROVE i >= j
        OBVIOUS
    <2>1. MaxModels - j \in R
        OBVIOUS
    <2>2. MaxModels - i <= MaxModels - j
        BY <2>1, <1>2, <1>3
    <2> QED BY <2>2, TimeAssumption
<1> QED BY <1>4

\* The picked row is one of the rows it is picked from.
LEMMA PickedRow ==
    ASSUME NEW S \in SUBSET Ids
    PROVE  /\ Oldest(S) \in S \cup {None}
           /\ Newest(S) \in S \cup {None}
<1>1. CASE S = {}
    BY <1>1 DEF Oldest, Newest
<1>2. CASE S # {}
    <2>1. \E i \in S : \A j \in S : i <= j
        BY <1>2, LeastExists, TimeAssumption
    <2>2. \E i \in S : \A j \in S : i >= j
        BY <1>2, GreatestExists
    <2> QED BY <1>2, <2>1, <2>2 DEF Oldest, Newest
<1> QED BY <1>1, <1>2

-----------------------------------------------------------------------------
(* Type correctness. *)

\* There is a policy revision to put into empty records.
LEMMA SomePolicy == (CHOOSE p \in Policies : TRUE) \in Policies
BY PolicyAssumption

\* The empty records have their types.
LEMMA EmptyRecords ==
    /\ NoModel \in ModelType
    /\ NoReport \in ReportType
    /\ IdleJob \in JobType
    /\ \A m \in Modes : IdleWorker(m) \in WorkerType
<1>1. 0 \in Time
    BY TimeAssumption
<1> QED BY <1>1, SomePolicy
        DEF NoModel, NoReport, IdleJob, IdleWorker, ModelType, ReportType,
            JobType, WorkerType, Outcomes

\* The initial states have their types.
LEMMA InitialTypes == Init => TypeOK
<1> SUFFICES ASSUME Init PROVE TypeOK
    OBVIOUS
<1>0. /\ now = 1 /\ live = TRUE /\ policy \in Policies
      /\ \/ models = [i \in Ids |-> NoModel] /\ born = 0
         \/ \E p \in Legacy :
              /\ models = [i \in Ids |->
                    IF i = 1 THEN [NoModel EXCEPT !.status = "active",
                                                  !.rev = p, !.legacy = TRUE]
                             ELSE NoModel]
              /\ born = 1
      /\ job = [t \in Trainers |-> IdleJob]
      /\ lock = NoOne /\ faults = 0
      /\ ev \in [Evaluators -> {IdleWorker(m) : m \in Modes}]
    BY Zenon DEF Init
<1>1. now \in 1 .. MaxTime /\ live \in BOOLEAN /\ policy \in Policies
    <2>1. 1 \in 1 .. MaxTime
        BY TimeAssumption
    <2> QED BY <2>1, <1>0, Zenon
<1>2. models \in [Ids -> ModelType] /\ born \in 0 .. MaxModels
    <2>1. CASE models = [i \in Ids |-> NoModel] /\ born = 0
        BY <2>1, EmptyRecords, TimeAssumption
    <2>2. ASSUME NEW p \in Legacy,
                 models = [i \in Ids |->
                    IF i = 1 THEN [NoModel EXCEPT !.status = "active",
                                                  !.rev = p, !.legacy = TRUE]
                             ELSE NoModel],
                 born = 1
          PROVE  models \in [Ids -> ModelType] /\ born \in 0 .. MaxModels
        <3>1. p \in Policies
            BY PolicyAssumption
        <3>2. [NoModel EXCEPT !.status = "active", !.rev = p, !.legacy = TRUE]
                \in ModelType
            BY <3>1, EmptyRecords DEF ModelType
        <3> QED BY <2>2, <3>2, EmptyRecords, TimeAssumption
    <2> QED BY <1>0, <2>1, <2>2, Zenon
<1>3. job \in [Trainers -> JobType]
    BY <1>0, EmptyRecords, Zenon
<1>4. lock \in Evaluators \cup {NoOne} /\ faults \in 0 .. MaxFaults
    <2>1. 0 \in 0 .. MaxFaults
        BY TimeAssumption
    <2> QED BY <2>1, <1>0, Zenon
<1>5. ev \in [Evaluators -> WorkerType]
    <2>1. {IdleWorker(m) : m \in Modes} \subseteq WorkerType
        BY EmptyRecords, Zenon
    <2> QED BY <2>1, <1>0, Zenon
<1> QED BY <1>1, <1>2, <1>3, <1>4, <1>5 DEF TypeOK

\* What the worker sees of the table has the types of ids.
LEMMA ViewTypes ==
    ASSUME TypeOK, NEW fp
    PROVE  LET v == Turn(EvaluationModels(fp)) IN
           /\ v.active \in ActiveIds(fp) \cup {None}
           /\ v.candidate \in Pending(fp) \cup {None}
           /\ v.previous \in WithStatus(fp, "retired") \cup {None}
           /\ v.active \in Ids \cup {None}
           /\ v.candidate \in Ids \cup {None}
           /\ v.previous \in Ids \cup {None}
<1> DEFINE u == EvaluationModels(fp)
<1>1. /\ ActiveIds(fp) \in SUBSET Ids
      /\ Pending(fp) \in SUBSET Ids
      /\ WithStatus(fp, "retired") \in SUBSET Ids
    BY DEF ActiveIds, Pending, WithStatus, Rows
<1>2. /\ Newest(ActiveIds(fp)) \in ActiveIds(fp) \cup {None}
      /\ Oldest(Pending(fp)) \in Pending(fp) \cup {None}
      /\ Newest(WithStatus(fp, "retired"))
            \in WithStatus(fp, "retired") \cup {None}
    BY <1>1, PickedRow
<1>3. /\ u.active \in ActiveIds(fp) \cup {None}
      /\ u.candidate \in Pending(fp) \cup {None}
      /\ u.previous \in WithStatus(fp, "retired") \cup {None}
    BY <1>2 DEF EvaluationModels
<1>4. /\ Turn(u).active = u.active
      /\ Turn(u).candidate \in {u.candidate, None}
      /\ Turn(u).previous = u.previous
    BY DEF Turn, EvaluationModels
<1> QED BY <1>1, <1>3, <1>4

\* The parts of the type invariant, and the clock as a time of a record.
LEMMA TypeParts ==
    ASSUME TypeOK
    PROVE  /\ now \in 1 .. MaxTime /\ live \in BOOLEAN /\ policy \in Policies
           /\ models \in [Ids -> ModelType] /\ born \in 0 .. MaxModels
           /\ job \in [Trainers -> JobType]
           /\ lock \in Evaluators \cup {NoOne}
           /\ ev \in [Evaluators -> WorkerType]
           /\ faults \in 0 .. MaxFaults
           /\ now \in Time
BY TimeAssumption DEF TypeOK

\* An edit, with or without a reset of the models, keeps the types.
LEMMA ReconcileTypes ==
    ASSUME TypeOK, NEW p \in Policies, Reconcile(p)
    PROVE  TypeOK'
<1>1. models' \in [Ids -> ModelType]
    BY TypeParts, EmptyRecords DEF Reconcile
<1>2. live' \in BOOLEAN /\ policy' \in Policies
    BY DEF Reconcile
<1>3. faults' \in 0 .. MaxFaults
    BY TypeParts, TimeAssumption DEF Reconcile
<1> QED BY <1>1, <1>2, <1>3, TypeParts DEF TypeOK, Reconcile

\* The start of a Job keeps the types.
LEMMA StartTrainingTypes ==
    ASSUME TypeOK, NEW t \in Trainers, StartTraining(t)
    PROVE  TypeOK'
<1>1. born' \in 0 .. MaxModels
    BY TypeParts, TimeAssumption DEF StartTraining
<1>2. job' \in [Trainers -> JobType]
    <2>1. PICK lag \in FitLags :
            /\ lag <= now
            /\ job' = [job EXCEPT ![t] =
                        [pc |-> "repairing", rev |-> policy,
                         id |-> IF t \in Transactional THEN born + 1 ELSE None,
                         start |-> IF t \in Transactional THEN now ELSE 0,
                         fitted |-> now - lag]]
        BY Zenon DEF StartTraining
    <2>2. now - lag \in Time
        BY <2>1, TypeParts, TimeAssumption
    <2>3. born < MaxModels
        BY DEF StartTraining
    <2>4. born + 1 \in Ids /\ 0 \in Time
        BY <2>3, TypeParts, TimeAssumption
    <2>5. [pc |-> "repairing", rev |-> policy,
           id |-> IF t \in Transactional THEN born + 1 ELSE None,
           start |-> IF t \in Transactional THEN now ELSE 0,
           fitted |-> now - lag] \in JobType
        BY <2>2, <2>4, TypeParts DEF JobType
    <2> QED BY <2>1, <2>5, TypeParts
<1> QED BY <1>1, <1>2, TypeParts DEF TypeOK, StartTraining

\* The repair of the history keeps the types.
LEMMA RepairHistoryTypes ==
    ASSUME TypeOK, NEW t \in Trainers, RepairHistory(t)
    PROVE  TypeOK'
<1>1. job' \in [Trainers -> JobType]
    <2>1. [job[t] EXCEPT !.pc = "fitting"] \in JobType
        BY TypeParts DEF JobType
    <2> QED BY <2>1, TypeParts, EmptyRecords DEF RepairHistory
<1> QED BY <1>1, TypeParts DEF TypeOK, RepairHistory

\* The publication of a candidate keeps the types.
LEMMA CreateCandidateTypes ==
    ASSUME TypeOK, NEW t \in Trainers, CreateCandidate(t)
    PROVE  TypeOK'
<1>1. \A created \in Time :
        [NoModel EXCEPT !.status = "candidate", !.rev = job[t].rev,
                        !.fitted = job[t].fitted, !.created = created]
            \in ModelType
    BY TypeParts, EmptyRecords DEF ModelType, JobType
<1>2. ASSUME NEW i, NEW created \in Time, Insert(i, t, created)
      PROVE  models' \in [Ids -> ModelType]
    BY <1>1, <1>2, TypeParts DEF Insert
<1>3. job[t].start \in Time
    BY TypeParts DEF JobType
<1>4. models' \in [Ids -> ModelType]
    BY <1>2, <1>3, TypeParts DEF CreateCandidate
<1>5. born' \in 0 .. MaxModels
    BY TypeParts, TimeAssumption DEF CreateCandidate
<1>6. job' \in [Trainers -> JobType]
    BY TypeParts, EmptyRecords DEF CreateCandidate
<1> QED BY <1>4, <1>5, <1>6, TypeParts DEF TypeOK, CreateCandidate

\* The end of a Job without a candidate keeps the types.
LEMMA AbandonJobTypes ==
    ASSUME TypeOK, NEW t \in Trainers, AbandonJob(t)
    PROVE  TypeOK'
<1>1. job' \in [Trainers -> JobType]
    BY TypeParts, EmptyRecords DEF AbandonJob
<1> QED BY <1>1, TypeParts DEF TypeOK, AbandonJob

\* What happens to the worker and the lock keeps their types.
LEMMA WorkerTypes ==
    ASSUME TypeOK, NEW e \in Evaluators
    PROVE  /\ ev[e] \in WorkerType
           /\ IdleWorker(ev[e].mode) \in WorkerType
           /\ (IF lock = e THEN NoOne ELSE lock) \in Evaluators \cup {NoOne}
<1>1. ev[e] \in WorkerType
    BY TypeParts
<1>2. ev[e].mode \in Modes
    BY <1>1 DEF WorkerType
<1> QED BY <1>1, <1>2, TypeParts, EmptyRecords

\* The listing of the workload keeps the types.
LEMMA BeginEvaluationTypes ==
    ASSUME TypeOK, NEW e \in Evaluators, BeginEvaluation(e)
    PROVE  TypeOK'
<1>1. [ev[e] EXCEPT !.pc = "waiting", !.at = now, !.w = policy] \in WorkerType
    BY TypeParts, WorkerTypes DEF WorkerType
<1>2. ev' \in [Evaluators -> WorkerType]
    BY <1>1, TypeParts, WorkerTypes DEF BeginEvaluation, WorkerType
<1> QED BY <1>2, TypeParts DEF TypeOK, BeginEvaluation

\* The attempt at the session lock keeps the types.
LEMMA AcquireEvaluationTypes ==
    ASSUME TypeOK, NEW e \in Evaluators, AcquireEvaluation(e)
    PROVE  TypeOK'
<1>1. [ev[e] EXCEPT !.pc = "locked"] \in WorkerType
    BY WorkerTypes DEF WorkerType
<1>2. ev' \in [Evaluators -> WorkerType]
    BY <1>1, TypeParts, WorkerTypes DEF AcquireEvaluation
<1>3. lock' \in Evaluators \cup {NoOne}
    BY TypeParts DEF AcquireEvaluation
<1> QED BY <1>2, <1>3, TypeParts DEF TypeOK, AcquireEvaluation

\* Every report the worker drafts is a report.
LEMMA DraftTypes ==
    ASSUME TypeOK, NEW v, v.active \in Ids \cup {None}, Target(v) \in Ids,
           NEW start \in Time, NEW end \in Time,
           NEW scored \in SUBSET {"candidate", "champion", "previous"}
    PROVE  Draft(v, start, end, scored) \in ReportType
<1>1. {v.active} \ {None} \in SUBSET Ids
    OBVIOUS
<1>2. models[Target(v)].prev \in Ids \cup {None}
    BY TypeParts DEF ModelType
<1>3. "none" \in Outcomes
    BY DEF Outcomes
<1> QED BY <1>1, <1>2, <1>3 DEF Draft, ReportType

\* A withheld report has its type.
LEMMA WithheldTypes ==
    ASSUME TypeOK, NEW v, v.active \in Ids \cup {None}, Target(v) \in Ids,
           NEW w, NEW at, NEW r \in Withheld(v, w, at)
    PROVE  r \in ReportType
<1>1. Fault(v, w, at) \in Outcomes
    BY DEF Fault, Outcomes, Departing
<1>2. {"invalid_artifact", "no_current_evidence", "invalid_rollback_artifact"}
        \subseteq Outcomes
    BY DEF Outcomes, Departing, Retrying
<1>3. PICK why \in Outcomes :
            r = [Draft(v, 0, 0, {}) EXCEPT !.outcome = why]
    BY <1>1, <1>2, Zenon DEF Withheld
<1>4. Draft(v, 0, 0, {}) \in ReportType
    BY DraftTypes, TimeAssumption
<1> QED BY <1>3, <1>4 DEF ReportType

\* A report with scores has its type.
LEMMA ScoredTypes ==
    ASSUME TypeOK, NEW v, v.active \in Ids \cup {None}, Target(v) \in Ids,
           NEW w, NEW at, NEW start \in Time, NEW end \in Time, NEW paired,
           NEW r \in Scored(v, w, at, start, end, paired)
    PROVE  r \in ReportType
<1> DEFINE scored == {"candidate"}
                     \cup (IF paired THEN {"champion"} ELSE {})
                     \cup (IF RollbackEligible(v, w) THEN {"previous"} ELSE {})
<1>1. r = Draft(v, start, end, scored)
    BY Zenon DEF Scored
<1>2. scored \in SUBSET {"candidate", "champion", "previous"}
    OBVIOUS
<1> HIDE DEF scored
<1> QED BY <1>1, <1>2, DraftTypes

\* A decision, a rollback included, has the type of a report.
LEMMA DecisionTypes ==
    ASSUME TypeOK, NEW v, v.active \in Ids \cup {None},
           v.previous \in Ids \cup {None},
           NEW w, NEW mode, NEW r \in ReportType,
           NEW d \in Decisions(v, w, mode, r)
    PROVE  d \in ReportType
<1>1. {"rejected", "shadow", "promote", "revalidated", "degraded",
       "shadow_rollback", "rollback"} \subseteq Outcomes
    BY DEF Outcomes, Actions
<1>2. CASE v.candidate # None
    BY <1>1, <1>2 DEF Decisions, ReportType
<1>3. CASE v.candidate = None
    <2> DEFINE a == [r EXCEPT !.outcome = "revalidated"]
               b == [r EXCEPT !.outcome = "degraded"]
               c == [r EXCEPT !.outcome = IF mode = "shadow" THEN "shadow_rollback"
                                          ELSE "rollback",
                              !.target = v.previous, !.prev = v.active]
    <2>0. Decisions(v, w, mode, r)
            = {a, b} \cup (IF RollbackEligible(v, w) THEN {c} ELSE {})
        BY <1>3, Zenon DEF Decisions
    <2> HIDE DEF a, b, c
    <2>1. d = a \/ d = b \/ d = c
        BY <2>0
    <2> USE DEF a, b, c
    <2>2. (IF mode = "shadow" THEN "shadow_rollback" ELSE "rollback") \in Outcomes
        BY <1>1
    <2>3. a \in ReportType
        BY <1>1 DEF ReportType
    <2>4. b \in ReportType
        BY <1>1 DEF ReportType
    <2>5. c \in ReportType
        BY <2>2 DEF ReportType
    <2> HIDE DEF a, b, c
    <2> QED BY <2>1, <2>3, <2>4, <2>5
<1> QED BY <1>2, <1>3

\* The shape of an evaluation: it ends with nothing to do, or with a report.
LEMMA EvaluateCases ==
    ASSUME NEW e, Evaluate(e)
    PROVE  LET w == ev[e].w
               at == ev[e].at
               v == Turn(EvaluationModels(Fingerprint[w]))
           IN  \/ ev' = [ev EXCEPT ![e] = IdleWorker(@.mode)] /\ Unlock(e)
               \/ /\ Target(v) # None /\ lock' = lock
                  /\ \/ \E r \in Withheld(v, w, at) :
                            ev' = [ev EXCEPT ![e].pc = "scored",
                                             ![e].report = r]
                     \/ \E paired \in BOOLEAN, start, end \in 0 .. at :
                            \E r \in Scored(v, w, at, start, end, paired) :
                              \E d \in Decisions(v, w, ev[e].mode, r) :
                                ev' = [ev EXCEPT ![e].pc = "scored",
                                                 ![e].report = d]
BY Zenon DEF Evaluate

\* An evaluation keeps the types.
LEMMA EvaluateTypes ==
    ASSUME TypeOK, NEW e \in Evaluators, Evaluate(e)
    PROVE  TypeOK'
<1> DEFINE w == ev[e].w
           at == ev[e].at
           v == Turn(EvaluationModels(Fingerprint[w]))
<1>1. at \in Time /\ 0 .. at \subseteq Time
    BY WorkerTypes, TimeAssumption DEF WorkerType
<1>2. /\ v.active \in Ids \cup {None} /\ v.candidate \in Ids \cup {None}
      /\ v.previous \in Ids \cup {None}
    BY ViewTypes
<1>3. Target(v) # None => Target(v) \in Ids
    BY <1>2 DEF Target
<1> HIDE DEF v
<1>4. ASSUME NEW r \in ReportType,
             ev' = [ev EXCEPT ![e].pc = "scored", ![e].report = r]
      PROVE  ev' \in [Evaluators -> WorkerType]
    <2>1. [ev[e] EXCEPT !.pc = "scored", !.report = r] \in WorkerType
        BY WorkerTypes DEF WorkerType
    <2>2. ev' = [ev EXCEPT ![e] = [ev[e] EXCEPT !.pc = "scored", !.report = r]]
        BY <1>4, TypeParts DEF WorkerType
    <2> QED BY <2>1, <2>2, TypeParts
<1>5. CASE ev' = [ev EXCEPT ![e] = IdleWorker(@.mode)] /\ Unlock(e)
    <2>1. ev' \in [Evaluators -> WorkerType]
        BY <1>5, TypeParts, WorkerTypes
    <2>2. lock' \in Evaluators \cup {NoOne}
        BY <1>5, WorkerTypes DEF Unlock
    <2> QED BY <2>1, <2>2, TypeParts DEF TypeOK, Evaluate
<1>6. CASE /\ Target(v) # None /\ lock' = lock
           /\ \E r \in Withheld(v, w, at) :
                 ev' = [ev EXCEPT ![e].pc = "scored", ![e].report = r]
    <2>1. ev' \in [Evaluators -> WorkerType]
        BY <1>2, <1>3, <1>4, <1>6, WithheldTypes
    <2> QED BY <1>6, <2>1, TypeParts DEF TypeOK, Evaluate
<1>7. CASE /\ Target(v) # None /\ lock' = lock
           /\ \E paired \in BOOLEAN, start, end \in 0 .. at :
                 \E r \in Scored(v, w, at, start, end, paired) :
                   \E d \in Decisions(v, w, ev[e].mode, r) :
                     ev' = [ev EXCEPT ![e].pc = "scored", ![e].report = d]
    <2>1. PICK paired \in BOOLEAN, start \in 0 .. at, end \in 0 .. at :
            \E r \in Scored(v, w, at, start, end, paired) :
              \E d \in Decisions(v, w, ev[e].mode, r) :
                ev' = [ev EXCEPT ![e].pc = "scored", ![e].report = d]
        BY <1>7, Zenon
    <2>2. PICK r \in Scored(v, w, at, start, end, paired) :
            \E d \in Decisions(v, w, ev[e].mode, r) :
                ev' = [ev EXCEPT ![e].pc = "scored", ![e].report = d]
        BY <2>1, Zenon
    <2>3. r \in ReportType
        BY <1>1, <1>2, <1>3, <1>7, ScoredTypes
    <2>4. PICK d \in Decisions(v, w, ev[e].mode, r) :
                ev' = [ev EXCEPT ![e].pc = "scored", ![e].report = d]
        BY <2>2, Zenon
    <2>5. d \in ReportType
        BY <1>2, <2>3, DecisionTypes
    <2>6. ev' \in [Evaluators -> WorkerType]
        BY <1>4, <2>4, <2>5
    <2> QED BY <1>7, <2>6, TypeParts DEF TypeOK, Evaluate
<1> QED BY <1>5, <1>6, <1>7, EvaluateCases, Zenon DEF v

\* Recording a report keeps the type of a row.
LEMMA RowTypes ==
    ASSUME NEW m \in ModelType, NEW s \in {"active", m.status},
           NEW a \in Time, NEW c \in Time, NEW t \in Time,
           NEW o \in Outcomes, NEW p \in Ids \cup {None}
    PROVE  [m EXCEPT !.status = s, !.activated = a, !.certified = c,
                     !.at = t, !.outcome = o, !.prev = p] \in ModelType
<1> HIDE DEF Ids, Time
<1> DEFINE n == [m EXCEPT !.status = s, !.activated = a, !.certified = c]
<1>1. n \in ModelType
    BY DEF ModelType
<1> HIDE DEF n
<1>2. [n EXCEPT !.at = t, !.outcome = o, !.prev = p] \in ModelType
    BY <1>1 DEF ModelType
<1>3. [m EXCEPT !.status = s, !.activated = a, !.certified = c,
                !.at = t, !.outcome = o, !.prev = p]
        = [n EXCEPT !.at = t, !.outcome = o, !.prev = p]
    BY DEF n, ModelType
<1> QED BY <1>2, <1>3

\* The rows that the transaction writes have their types.
LEMMA RecordedTypes ==
    ASSUME TypeOK, NEW e \in Evaluators
    PROVE  Recorded(e) \in [Ids -> ModelType]
<1>1. ev[e].report \in ReportType /\ ev[e].at \in Time
    BY WorkerTypes DEF WorkerType
<1>2. ASSUME NEW i \in Ids PROVE Latest(models[i].activated, ev[e].at) \in Time
    BY <1>1, TypeParts DEF Latest, ModelType
<1>3. ASSUME NEW i \in Ids, NEW s \in {"active", models[i].status},
             NEW a \in Time, NEW c \in Time
      PROVE  [models[i] EXCEPT !.status = s, !.activated = a, !.certified = c,
                               !.at = ev[e].at, !.outcome = ev[e].report.outcome,
                               !.prev = ev[e].report.prev] \in ModelType
    <2>1. ev[e].report.outcome \in Outcomes /\ ev[e].report.prev \in Ids \cup {None}
        BY <1>1 DEF ReportType
    <2>2. models[i] \in ModelType
        BY TypeParts
    <2> QED BY <1>1, <2>1, <2>2, RowTypes
<1>4. ASSUME NEW i \in Ids
      PROVE  [models[i] EXCEPT !.status = "retired"] \in ModelType
    BY TypeParts DEF ModelType
<1>5. ASSUME NEW i \in Ids
      PROVE  /\ models[i] \in ModelType
             /\ models[i].activated \in Time /\ models[i].certified \in Time
    BY TypeParts DEF ModelType
<1>6. ASSUME NEW i \in Ids PROVE Recorded(e)[i] \in ModelType
    <2> DEFINE r == ev[e].report
               s == IF r.outcome \in Switching THEN "active"
                    ELSE models[i].status
               a == IF r.outcome \in Switching THEN now
                    ELSE models[i].activated
               c == CASE r.outcome \in Switching -> now
                      [] r.outcome = "revalidated" ->
                            Latest(models[i].activated, ev[e].at)
                      [] OTHER -> models[i].certified
    <2>1. a \in Time /\ c \in Time /\ s \in {"active", models[i].status}
        BY <1>2, <1>5, TypeParts
    <2>2. Recorded(e)[i] =
            IF i = r.target
            THEN [models[i] EXCEPT !.status = s, !.activated = a,
                                   !.certified = c, !.at = ev[e].at,
                                   !.outcome = r.outcome, !.prev = r.prev]
            ELSE IF i \in Replaced(e)
            THEN [models[i] EXCEPT !.status = "retired"]
            ELSE models[i]
        BY DEF Recorded, ReportedAt
    <2> HIDE DEF s, a, c
    <2>3. CASE i = r.target
        <3>1. [models[i] EXCEPT !.status = s, !.activated = a,
                                !.certified = c, !.at = ev[e].at,
                                !.outcome = r.outcome, !.prev = r.prev]
                \in ModelType
            BY <1>3, <2>1, Zenon
        <3> QED BY <2>2, <2>3, <3>1, Zenon
    <2>4. CASE i # r.target
        BY <1>4, <1>5, <2>2, <2>4
    <2> QED BY <2>3, <2>4
<1> QED BY <1>6 DEF Recorded

\* The transaction, whether it commits or not, keeps the types.
LEMMA CompleteEvaluationTypes ==
    ASSUME TypeOK, NEW e \in Evaluators, CompleteEvaluation(e)
    PROVE  TypeOK'
<1>1. models' \in [Ids -> ModelType]
    BY RecordedTypes, TypeParts, Zenon DEF CompleteEvaluation
<1>2. ev' \in [Evaluators -> WorkerType]
    BY TypeParts, WorkerTypes DEF CompleteEvaluation
<1>3. lock' \in Evaluators \cup {NoOne}
    BY WorkerTypes DEF CompleteEvaluation, Unlock
<1> QED BY <1>1, <1>2, <1>3, TypeParts DEF TypeOK, CompleteEvaluation

\* A restart of the worker keeps the types.
LEMMA RestartTypes ==
    ASSUME TypeOK, NEW e \in Evaluators, Restart(e)
    PROVE  TypeOK'
<1>1. ev' \in [Evaluators -> WorkerType]
    BY TypeParts, EmptyRecords DEF Restart
<1>2. lock' \in Evaluators \cup {NoOne}
    BY WorkerTypes DEF Restart, Unlock
<1>3. faults' \in 0 .. MaxFaults
    BY TypeParts, TimeAssumption DEF Restart
<1> QED BY <1>1, <1>2, <1>3, TypeParts DEF TypeOK, Restart

\* Every step keeps the types: one case per action.
LEMMA TypeStep ==
    ASSUME TypeOK, [Next]_vars
    PROVE  TypeOK'
<1>1. CASE Tick
    BY <1>1, TypeParts, TimeAssumption DEF TypeOK, Tick
<1>2. ASSUME NEW p \in Policies, Reconcile(p) PROVE TypeOK'
    BY <1>2, ReconcileTypes
<1>3. CASE DeactivateParent
    <2>1. faults' \in 0 .. MaxFaults
        BY <1>3, TypeParts, TimeAssumption DEF DeactivateParent
    <2>2. live' \in BOOLEAN
        BY <1>3, Zenon DEF DeactivateParent
    <2> QED BY <1>3, <2>1, <2>2, TypeParts DEF TypeOK, DeactivateParent
<1>4. ASSUME NEW t \in Trainers,
             \/ StartTraining(t) \/ RepairHistory(t)
             \/ CreateCandidate(t) \/ AbandonJob(t)
      PROVE  TypeOK'
    BY <1>4, StartTrainingTypes, RepairHistoryTypes, CreateCandidateTypes,
       AbandonJobTypes
<1>5. ASSUME NEW e \in Evaluators, Worker(e) PROVE TypeOK'
    BY <1>5, BeginEvaluationTypes, AcquireEvaluationTypes, EvaluateTypes,
       CompleteEvaluationTypes DEF Worker
<1>6. ASSUME NEW e \in Evaluators, Restart(e) PROVE TypeOK'
    BY <1>6, RestartTypes
<1>7. ASSUME NEW e \in Evaluators, LoseSession(e) PROVE TypeOK'
    BY <1>7, TypeParts, TimeAssumption DEF TypeOK, LoseSession
<1>8. CASE UNCHANGED vars
    BY <1>8 DEF TypeOK, vars
<1> QED BY <1>1, <1>2, <1>3, <1>4, <1>5, <1>6, <1>7, <1>8, Zenon DEF Next

\* Every variable keeps its type: no evaluation writes a row, a report or a
\* Job outside what the schema and the report format allow.
THEOREM TypeCorrect == Spec => []TypeOK
<1>1. Init => TypeOK
    BY InitialTypes
<1>2. TypeOK /\ [Next]_vars => TypeOK'
    BY TypeStep
<1> QED BY <1>1, <1>2, PTL DEF Spec

-----------------------------------------------------------------------------
(* Which step changes what of a row.                                       *)

\* The transaction of evaluation e was applied.
Applied(e) == CompleteEvaluation(e) /\ Fenced(e) /\ Evidenced(e)

\* A row is inserted as a candidate, deleted, or recorded on by an applied
\* evaluation; nothing else touches the table.
LEMMA TableSteps ==
    ASSUME TypeOK, [Next]_vars
    PROVE  \/ models' = models
           \/ models' = [i \in Ids |-> NoModel]
           \/ \E i, t, created : Insert(i, t, created)
           \/ \E e \in Evaluators : Applied(e) /\ models' = Recorded(e)
<1>1. CASE Tick \/ DeactivateParent \/ UNCHANGED vars
    BY <1>1 DEF Tick, DeactivateParent, vars
<1>2. ASSUME NEW p \in Policies, Reconcile(p)
      PROVE  models' \in {models, [i \in Ids |-> NoModel]}
    BY <1>2, Zenon DEF Reconcile
<1>3. ASSUME NEW t \in Trainers,
             StartTraining(t) \/ RepairHistory(t) \/ AbandonJob(t)
      PROVE  models' = models
    BY <1>3 DEF StartTraining, RepairHistory, AbandonJob
<1>4. ASSUME NEW t \in Trainers, CreateCandidate(t)
      PROVE  \E i, u, created : Insert(i, u, created)
    BY <1>4, Zenon DEF CreateCandidate
<1>5. ASSUME NEW e \in Evaluators,
             \/ BeginEvaluation(e) \/ AcquireEvaluation(e) \/ Evaluate(e)
             \/ Restart(e) \/ LoseSession(e)
      PROVE  models' = models
    BY <1>5, Zenon DEF BeginEvaluation, AcquireEvaluation, Evaluate, Restart,
                       LoseSession
<1>6. ASSUME NEW e \in Evaluators, CompleteEvaluation(e)
      PROVE  models' = models \/ (Applied(e) /\ models' = Recorded(e))
    BY <1>6, Zenon DEF CompleteEvaluation, Applied
<1> QED BY <1>1, <1>2, <1>3, <1>4, <1>5, <1>6, Zenon DEF Next, Worker

\* An inserted row is a candidate and the other rows stay.
LEMMA InsertedRow ==
    ASSUME TypeOK, NEW i, NEW t, NEW created, Insert(i, t, created),
           NEW j \in Ids
    PROVE  \/ models'[j] = models[j]
           \/ models'[j].status = "candidate"
<1>1. [NoModel EXCEPT !.status = "candidate", !.rev = job[t].rev,
                      !.fitted = job[t].fitted,
                      !.created = created].status = "candidate"
    BY DEF NoModel
<1> QED BY <1>1, TypeParts DEF Insert

\* What an applied evaluation makes of each row.
LEMMA RecordedRow ==
    ASSUME TypeOK, NEW e \in Evaluators, models' = Recorded(e), NEW i \in Ids
    PROVE  LET r == ev[e].report IN
           /\ i # r.target /\ i \notin Replaced(e) => models'[i] = models[i]
           /\ i # r.target /\ i \in Replaced(e)
                => models'[i] = [models[i] EXCEPT !.status = "retired"]
           /\ i = r.target =>
                /\ models'[i].status = IF r.outcome \in Switching
                                       THEN "active" ELSE models[i].status
                /\ models'[i].rev = models[i].rev
                /\ models'[i].legacy = models[i].legacy
                /\ models'[i].fitted = models[i].fitted
                /\ models'[i].prev = r.prev
                /\ models'[i].certified =
                    CASE r.outcome \in Switching -> now
                      [] r.outcome = "revalidated" ->
                            Latest(models[i].activated, ev[e].at)
                      [] OTHER -> models[i].certified
<1> DEFINE r == ev[e].report
           s == IF r.outcome \in Switching THEN "active" ELSE models[i].status
           a == IF r.outcome \in Switching THEN now ELSE models[i].activated
           c == CASE r.outcome \in Switching -> now
                  [] r.outcome = "revalidated" ->
                        Latest(models[i].activated, ev[e].at)
                  [] OTHER -> models[i].certified
<1>1. models'[i] =
        IF i = r.target
        THEN [models[i] EXCEPT !.status = s, !.activated = a,
                               !.certified = c, !.at = ev[e].at,
                               !.outcome = r.outcome, !.prev = r.prev]
        ELSE IF i \in Replaced(e)
        THEN [models[i] EXCEPT !.status = "retired"]
        ELSE models[i]
    BY DEF Recorded, ReportedAt
<1>2. models[i] \in ModelType
    BY TypeParts
<1> HIDE DEF s, a, c
<1>3. i = r.target =>
        /\ models'[i].status = s /\ models'[i].rev = models[i].rev
        /\ models'[i].legacy = models[i].legacy
        /\ models'[i].fitted = models[i].fitted
        /\ models'[i].prev = r.prev /\ models'[i].certified = c
    BY <1>1, <1>2 DEF ModelType
<1> QED BY <1>1, <1>3, Zenon DEF s, c

\* The parts of RecordedRow, one field at a time.
LEMMA RecordedStatus ==
    ASSUME TypeOK, NEW e \in Evaluators, models' = Recorded(e), NEW i \in Ids
    PROVE  /\ models'[i].rev = models[i].rev
           /\ models'[i].legacy = models[i].legacy
           /\ models'[i].fitted = models[i].fitted
           /\ models'[i].status =
                IF i = ev[e].report.target
                THEN IF ev[e].report.outcome \in Switching
                     THEN "active" ELSE models[i].status
                ELSE IF i \in Replaced(e) THEN "retired" ELSE models[i].status
           /\ models'[i].prev = IF i = ev[e].report.target
                                THEN ev[e].report.prev ELSE models[i].prev
<1> DEFINE r == ev[e].report
<1>1. CASE i = r.target
    BY <1>1, RecordedRow, Zenon
<1>2. CASE i # r.target /\ i \notin Replaced(e)
    <2>1. models'[i] = models[i]
        BY <1>2, RecordedRow, Zenon
    <2> QED BY <1>2, <2>1, Zenon
<1>3. CASE i # r.target /\ i \in Replaced(e)
    <2>1. models'[i] = [models[i] EXCEPT !.status = "retired"]
        BY <1>3, RecordedRow, Zenon
    <2>2. models[i] \in ModelType
        BY TypeParts
    <2>3. /\ models'[i].rev = models[i].rev
          /\ models'[i].legacy = models[i].legacy
          /\ models'[i].fitted = models[i].fitted
          /\ models'[i].status = "retired" /\ models'[i].prev = models[i].prev
        BY <2>1, <2>2 DEF ModelType
    <2> QED BY <1>3, <2>3, Zenon
<1> QED BY <1>1, <1>2, <1>3, Zenon

\* What the transaction writes as the target's certificate.
LEMMA RecordedCertificate ==
    ASSUME TypeOK, NEW e \in Evaluators, models' = Recorded(e),
           ev[e].report.target \in Ids
    PROVE  LET t == ev[e].report.target
               o == ev[e].report.outcome IN
           /\ o \in Switching => models'[t].certified = now
           /\ o = "revalidated" =>
                models'[t].certified = Latest(models[t].activated, ev[e].at)
           /\ o \notin Switching \cup {"revalidated"} =>
                models'[t].certified = models[t].certified
<1> DEFINE t == ev[e].report.target
           o == ev[e].report.outcome
<1>1. models'[t].certified =
        CASE o \in Switching -> now
          [] o = "revalidated" -> Latest(models[t].activated, ev[e].at)
          [] OTHER -> models[t].certified
    BY RecordedRow, Zenon
<1>2. "revalidated" \notin Switching
    BY DEF Switching
<1> HIDE DEF t, o
<1>3. /\ o \in Switching => models'[t].certified = now
      /\ o = "revalidated" =>
                models'[t].certified = Latest(models[t].activated, ev[e].at)
      /\ o \notin Switching \cup {"revalidated"} =>
                models'[t].certified = models[t].certified
    BY <1>1, <1>2
<1> QED BY <1>3, Zenon DEF t, o

\* The table starts empty or with one active, pre-upgrade model.
LEMMA InitialRows ==
    ASSUME Init
    PROVE  \A i \in Ids : /\ models[i].status \in {"absent", "active"}
                          /\ models[i].status = "active"
                                => i = 1 /\ models[i].legacy
<1>1. \/ models = [i \in Ids |-> NoModel]
      \/ \E p \in Legacy :
           models = [i \in Ids |->
                    IF i = 1 THEN [NoModel EXCEPT !.status = "active",
                                                  !.rev = p, !.legacy = TRUE]
                             ELSE NoModel]
    BY Zenon DEF Init
<1>2. NoModel.status = "absent"
    BY DEF NoModel
<1>3. CASE models = [i \in Ids |-> NoModel]
    BY <1>2, <1>3
<1>4. ASSUME NEW p \in Legacy, NEW m,
             m = [NoModel EXCEPT !.status = "active", !.rev = p,
                                 !.legacy = TRUE],
             models = [i \in Ids |-> IF i = 1 THEN m ELSE NoModel]
      PROVE  \A i \in Ids : /\ models[i].status \in {"absent", "active"}
                            /\ models[i].status = "active"
                                  => i = 1 /\ models[i].legacy
    <2>1. m.status = "active" /\ m.legacy
        BY <1>4 DEF NoModel
    <2>2. \A i \in Ids : models[i] = IF i = 1 THEN m ELSE NoModel
        BY <1>4
    <2> QED BY <1>2, <2>1, <2>2, Zenon
<1> QED BY <1>1, <1>3, <1>4, Zenon

-----------------------------------------------------------------------------
(* One active model.                                                       *)

\* Every step keeps the active model the only one of its source.
LEMMA OneActiveStep ==
    ASSUME TypeOK, OneActive, [Next]_vars
    PROVE  OneActive'
<1>1. CASE models' = models
    BY <1>1 DEF OneActive
<1>2. CASE models' = [i \in Ids |-> NoModel]
    BY <1>2 DEF OneActive, NoModel
<1>3. ASSUME NEW i, NEW t, NEW created, Insert(i, t, created)
      PROVE  OneActive'
    <2>1. \A j \in Ids : models'[j].status = "active" => models'[j] = models[j]
        BY <1>3, InsertedRow
    <2> QED BY <2>1 DEF OneActive
<1>4. ASSUME NEW e \in Evaluators, Applied(e), models' = Recorded(e)
      PROVE  OneActive'
    <2> DEFINE r == ev[e].report
               fp == Fingerprint[ev[e].w]
    <2>1. r.target \in Ids /\ Fingerprint[models[r.target].rev] = fp
        BY <1>4 DEF Applied, Fenced, Rows
    <2>2. ActiveIds(fp) = r.expected
        BY <1>4, Zenon DEF Applied, Fenced
    <2>3. \A i \in Ids : models'[i].rev = models[i].rev
        BY <1>4, RecordedStatus
    <2>4. CASE r.outcome \notin Switching
        <3>1. Replaced(e) = {}
            BY <2>4 DEF Replaced
        <3>2. \A i \in Ids : models'[i].status = models[i].status
            BY <1>4, <2>4, <3>1, RecordedStatus
        <3> QED BY <2>3, <3>2 DEF OneActive
    <2>5. CASE r.outcome \in Switching
        <3>1. Replaced(e) = ActiveIds(fp)
            BY <2>2, <2>5 DEF Replaced
        <3>2. ASSUME NEW i \in Ids, i # r.target, models'[i].status = "active"
              PROVE  models[i].status = "active" /\ Fingerprint[models[i].rev] # fp
            <4>1. i \notin Replaced(e)
                BY <1>4, <3>2, RecordedStatus
            <4>2. models'[i] = models[i]
                BY <1>4, <3>2, <4>1, RecordedRow, Zenon
            <4> QED BY <3>1, <3>2, <4>1, <4>2 DEF ActiveIds, WithStatus, Rows
        <3> QED BY <2>1, <2>3, <3>2 DEF OneActive
    <2> QED BY <2>4, <2>5
<1> QED BY <1>1, <1>2, <1>3, <1>4, TableSteps

\* A metric source of a workload has one active model at most, however many
\* forecasters evaluate it and whatever becomes of their session locks: the
\* comparison of the active rows in the transaction is enough.
THEOREM OneActiveModel == Spec => []OneActive
<1>1. Init => OneActive
    BY InitialRows, Zenon DEF OneActive
<1>2. TypeOK /\ OneActive /\ [Next]_vars => OneActive'
    BY OneActiveStep
<1> QED BY <1>1, <1>2, TypeCorrect, PTL DEF Spec

-----------------------------------------------------------------------------
(* Evidence behind the active models.                                      *)

\* Every step keeps a minimum span of evidence behind the active models.
LEMMA SeasonedStep ==
    ASSUME TypeOK, SeasonedCertificates, [Next]_vars
    PROVE  SeasonedCertificates'
<1>1. CASE models' = models
    BY <1>1 DEF SeasonedCertificates
<1>2. CASE models' = [i \in Ids |-> NoModel]
    BY <1>2 DEF SeasonedCertificates, NoModel
<1>3. ASSUME NEW i, NEW t, NEW created, Insert(i, t, created)
      PROVE  SeasonedCertificates'
    <2>1. \A j \in Ids : models'[j].status = "active" => models'[j] = models[j]
        BY <1>3, InsertedRow
    <2> QED BY <2>1 DEF SeasonedCertificates
<1>4. ASSUME NEW e \in Evaluators, Applied(e), models' = Recorded(e)
      PROVE  SeasonedCertificates'
    <2> DEFINE r == ev[e].report
    <2>1. /\ r.start \in Nat /\ r.end \in Nat /\ ev[e].at \in Nat /\ now \in Nat
        <3>1. ev[e].report \in ReportType /\ ev[e].at \in Time
            BY WorkerTypes DEF WorkerType
        <3> QED BY <3>1, TypeParts, TimeAssumption DEF ReportType
    <2>2. ASSUME NEW i \in Ids, i # r.target,
                 models'[i].status = "active"
          PROVE  models'[i] = models[i]
        <3>1. i \notin Replaced(e)
            BY <1>4, <2>2, RecordedStatus
        <3> QED BY <1>4, <2>2, <3>1, RecordedRow, Zenon
    <2>3. ASSUME r.target \in Ids, models'[r.target].status = "active",
                 ~models'[r.target].legacy
          PROVE  models'[r.target].certified - models'[r.target].fitted
                    >= MinDuration
        <3> DEFINE t == models[r.target]
        <3>0. t \in ModelType
            BY <2>3, TypeParts
        <3>1. /\ t.fitted \in Nat /\ t.activated \in Nat
              /\ models'[r.target].fitted = t.fitted
              /\ models'[r.target].legacy = t.legacy
            BY <1>4, <2>3, <3>0, RecordedStatus, TimeAssumption DEF ModelType
        <3>2. r.outcome \in Switching \cup {"revalidated"} =>
                /\ r.end <= ev[e].at /\ r.end - r.start >= MinDuration
                /\ ev[e].at <= now /\ r.start >= t.fitted
            BY <1>4, Zenon DEF Applied, Evidenced, FreshEvaluationEvidence
        <3>3. CASE r.outcome \in Switching
            <4>1. models'[r.target].certified = now
                BY <1>4, <2>3, <3>3, RecordedCertificate, Zenon
            <4> HIDE DEF t
            <4> QED BY <2>1, <3>1, <3>2, <3>3, <4>1, TimeAssumption
        <3>4. CASE r.outcome = "revalidated"
            <4>1. models'[r.target].certified = Latest(t.activated, ev[e].at)
                BY <1>4, <2>3, <3>4, RecordedCertificate, Zenon
            <4> HIDE DEF t
            <4> QED BY <2>1, <3>1, <3>2, <3>4, <4>1, TimeAssumption DEF Latest
        <3>5. CASE r.outcome \notin Switching \cup {"revalidated"}
            <4>1. /\ models'[r.target].certified = t.certified
                  /\ t.status = "active"
                BY <1>4, <2>3, <3>5, RecordedCertificate, RecordedStatus
            <4> QED BY <2>3, <3>1, <4>1 DEF SeasonedCertificates
        <3> QED BY <3>3, <3>4, <3>5
    <2> QED BY <2>2, <2>3 DEF SeasonedCertificates
<1> QED BY <1>1, <1>2, <1>3, <1>4, TableSteps

\* Every model that serves was scored on the minimum duration of observations
\* made after its own fitting cutoff, for any timing constants.
THEOREM SeasonedModels == Spec => []SeasonedCertificates
<1>1. Init => SeasonedCertificates
    BY InitialRows, Zenon DEF SeasonedCertificates
<1>2. TypeOK /\ SeasonedCertificates /\ [Next]_vars => SeasonedCertificates'
    BY SeasonedStep
<1> QED BY <1>1, <1>2, TypeCorrect, PTL DEF Spec

-----------------------------------------------------------------------------
(* What activates a model.                                                 *)

\* A model is switched on only by an applied evaluation that targets it, and
\* what that step retires is the set of active models it expected.
LEMMA Activation ==
    ASSUME TypeOK, [Next]_vars, NEW i \in Ids, Activates(i)
    PROVE  \E e \in Evaluators :
              /\ Applied(e) /\ models' = Recorded(e)
              /\ ev[e].report.target = i
              /\ ev[e].report.outcome \in Switching
              /\ \A a \in Ids : Retires(a) => a \in ev[e].report.expected
<1>1. models' # models
    BY DEF Activates
<1>2. models' # [j \in Ids |-> NoModel]
    <2>1. NoModel.status = "absent"
        BY DEF NoModel
    <2>2. models'[i].status = "active"
        BY DEF Activates
    <2> QED BY <2>1, <2>2
<1>3. ASSUME NEW j, NEW t, NEW created, Insert(j, t, created) PROVE FALSE
    BY <1>3, InsertedRow DEF Activates
<1>4. PICK e \in Evaluators : Applied(e) /\ models' = Recorded(e)
    BY <1>1, <1>2, <1>3, TableSteps
<1>5. ev[e].report.target = i /\ ev[e].report.outcome \in Switching
    BY <1>4, RecordedStatus DEF Activates
<1>6. ASSUME NEW a \in Ids, Retires(a) PROVE a \in ev[e].report.expected
    <2>1. a \in Replaced(e)
        BY <1>4, <1>5, <1>6, RecordedStatus DEF Retires
    <2> QED BY <2>1 DEF Replaced
<1> QED BY <1>4, <1>5, <1>6

\* The types of a scored evaluation's times.
LEMMA ReportTimes ==
    ASSUME TypeOK, NEW e \in Evaluators
    PROVE  /\ ev[e].report.start \in Nat /\ ev[e].report.end \in Nat
           /\ ev[e].at \in Nat /\ now \in Nat
<1>1. ev[e].report \in ReportType /\ ev[e].at \in Time
    BY WorkerTypes DEF WorkerType
<1> QED BY <1>1, TypeParts, TimeAssumption DEF ReportType

\* The expected models of an applied switch are the active ones.
LEMMA ExpectedAreActive ==
    ASSUME NEW e \in Evaluators, Applied(e)
    PROVE  ev[e].report.expected = ActiveIds(Fingerprint[ev[e].w])
BY Zenon DEF Applied, Fenced

\* A step that switches a model on finds its revision current.
LEMMA ActivationPolicyStep ==
    ASSUME TypeOK, [Next]_vars
    PROVE  \A i \in Ids : Activates(i) => live /\ HasContract(i, policy)
<1> SUFFICES ASSUME NEW i \in Ids, Activates(i)
             PROVE  live /\ HasContract(i, policy)
    OBVIOUS
<1>1. PICK e \in Evaluators : /\ Applied(e) /\ ev[e].report.target = i
                              /\ ev[e].report.outcome \in Switching
    BY Activation
<1>2. live /\ policy = ev[e].w
    BY <1>1, Zenon DEF Applied, Fenced, SamePolicy
<1>3. HasContract(i, ev[e].w)
    BY <1>1, Zenon DEF Applied, Evidenced
<1> QED BY <1>2, <1>3

\* Whatever edits, deletions and restarts fall between an evaluation and its
\* transaction, a model is switched on only under the revision it was trained
\* for, and only for a live workload.
THEOREM CurrentPolicyActivation == Spec => ActivatedUnderCurrentPolicy
<1>1. TypeOK /\ [Next]_vars
        => [\A i \in Ids : Activates(i) => live /\ HasContract(i, policy)]_vars
    BY ActivationPolicyStep
<1> QED BY <1>1, TypeCorrect, PTL DEF Spec, ActivatedUnderCurrentPolicy

\* A step that rolls a champion back finds it old enough.
LEMMA RollbackWaitsStep ==
    ASSUME TypeOK, [Next]_vars
    PROVE  \A i, a \in Ids :
             Activates(i) /\ models[i].status = "retired" /\ Retires(a)
                => now - models[a].activated >= MinDuration
<1> SUFFICES ASSUME NEW i \in Ids, NEW a \in Ids, Activates(i),
                    models[i].status = "retired", Retires(a)
             PROVE  now - models[a].activated >= MinDuration
    OBVIOUS
<1>1. PICK e \in Evaluators : /\ Applied(e) /\ ev[e].report.target = i
                              /\ ev[e].report.outcome \in Switching
                              /\ a \in ev[e].report.expected
    BY Activation
<1>2. a \in ActiveIds(Fingerprint[ev[e].w])
    BY <1>1, ExpectedAreActive
<1>3. ev[e].report.outcome = "rollback"
    <2>1. ev[e].report.outcome = "promote" => models[i].status = "candidate"
        BY <1>1, Zenon DEF Applied, Evidenced
    <2> QED BY <1>1, <2>1 DEF Switching
<1>4. ev[e].report.start >= models[a].activated
    BY <1>1, <1>2, <1>3, Zenon DEF Applied, Evidenced
<1>5. /\ ev[e].report.end <= ev[e].at /\ ev[e].at <= now
      /\ ev[e].report.end - ev[e].report.start >= MinDuration
    <2>1. FreshEvaluationEvidence(ev[e].report, ev[e].at, now)
        BY <1>1, Zenon DEF Applied, Evidenced
    <2> QED BY <2>1 DEF FreshEvaluationEvidence
<1>6. models[a].activated \in Nat
    BY TypeParts, TimeAssumption DEF ModelType
<1> QED BY <1>4, <1>5, <1>6, ReportTimes, TimeAssumption

\* No rollback before the minimum duration of service, for any timing.
THEOREM PatientRollback == Spec => RollbackWaits
<1>1. TypeOK /\ [Next]_vars
        => [\A i, a \in Ids :
              Activates(i) /\ models[i].status = "retired" /\ Retires(a)
                => now - models[a].activated >= MinDuration]_vars
    BY RollbackWaitsStep
<1> QED BY <1>1, TypeCorrect, PTL DEF Spec, RollbackWaits

-----------------------------------------------------------------------------
(* Promotions go forward.                                                  *)

\* A promotion that is about to be recorded names a candidate newer than the
\* champion it was compared with.
ForwardPromotions ==
    \A e \in Evaluators : LET r == ev[e].report IN
        ev[e].pc = "scored" /\ r.outcome = "promote"
            => \A a \in r.expected : a < r.target

\* The decision on a draft promotes the candidate in it, and only that.
LEMMA PromotionIsOfCandidate ==
    ASSUME NEW v, NEW w, NEW at, NEW start, NEW end, NEW paired, NEW mode,
           NEW r \in Scored(v, w, at, start, end, paired),
           NEW d \in Decisions(v, w, mode, r), d.outcome = "promote"
    PROVE  /\ v.candidate # None
           /\ d.target = v.candidate /\ d.expected = {v.active} \ {None}
<1>1. \E scored : r = Draft(v, start, end, scored)
    BY Zenon DEF Scored
<1>2. PICK scored : r = Draft(v, start, end, scored)
    BY <1>1
<1>3. /\ r.target = Target(v) /\ r.expected = {v.active} \ {None}
      /\ r.outcome = "none"
    BY <1>2 DEF Draft
<1>4. v.candidate # None
    BY <1>2 DEF Decisions, Draft
<1>5. d.target = r.target /\ d.expected = r.expected
    BY <1>2, <1>4 DEF Decisions, Draft
<1> QED BY <1>3, <1>4, <1>5 DEF Target

\* A step leaves a worker's scored evaluation alone, ends it or makes it.
LEMMA ScoredSteps ==
    ASSUME TypeOK, [Next]_vars, NEW e \in Evaluators, ev'[e].pc = "scored"
    PROVE  ev'[e] = ev[e] \/ Evaluate(e)
<1>1. CASE UNCHANGED ev
    BY <1>1
<1>2. CASE Tick \/ DeactivateParent \/ UNCHANGED vars
    BY <1>1, <1>2 DEF Tick, DeactivateParent, vars
<1>3. ASSUME NEW p \in Policies, Reconcile(p) PROVE UNCHANGED ev
    BY <1>3, Zenon DEF Reconcile
<1>4. ASSUME NEW t \in Trainers,
             \/ StartTraining(t) \/ RepairHistory(t)
             \/ CreateCandidate(t) \/ AbandonJob(t)
      PROVE  UNCHANGED ev
    BY <1>4, Zenon DEF StartTraining, RepairHistory, CreateCandidate, AbandonJob
<1>5. ASSUME NEW f \in Evaluators, LoseSession(f) PROVE UNCHANGED ev
    BY <1>5, Zenon DEF LoseSession
<1>6. ASSUME NEW f \in Evaluators,
             \/ BeginEvaluation(f) \/ AcquireEvaluation(f)
             \/ CompleteEvaluation(f) \/ Restart(f)
      PROVE  ev'[e] = ev[e]
    <2>1. f # e => ev'[e] = ev[e]
        BY <1>6, TypeParts DEF BeginEvaluation, AcquireEvaluation,
                               CompleteEvaluation, Restart
    <2>2. ev[e] \in WorkerType
        BY TypeParts
    <2>3. f = e => ev'[e].pc # "scored"
        BY <1>6, <2>2, TypeParts
           DEF BeginEvaluation, AcquireEvaluation, CompleteEvaluation, Restart,
               IdleWorker, WorkerType
    <2> QED BY <2>1, <2>3
<1>7. ASSUME NEW f \in Evaluators, Evaluate(f)
      PROVE  ev'[e] = ev[e] \/ Evaluate(e)
    <2>1. f # e => ev'[e] = ev[e]
        BY <1>7, TypeParts DEF Evaluate
    <2> QED BY <1>7, <2>1
<1> QED BY <1>1, <1>2, <1>3, <1>4, <1>5, <1>6, <1>7, Zenon DEF Next, Worker

\* Every step keeps the promotions under way directed forward.
LEMMA ForwardStep ==
    ASSUME TypeOK, ForwardPromotions, [Next]_vars
    PROVE  ForwardPromotions'
<1> SUFFICES ASSUME NEW e \in Evaluators, ev'[e].pc = "scored",
                    ev'[e].report.outcome = "promote"
             PROVE  \A a \in ev'[e].report.expected : a < ev'[e].report.target
    BY DEF ForwardPromotions
<1>1. CASE ev'[e] = ev[e]
    BY <1>1 DEF ForwardPromotions
<1>2. CASE Evaluate(e)
    <2> DEFINE w == ev[e].w
               at == ev[e].at
               fp == Fingerprint[w]
               v == Turn(EvaluationModels(fp))
    <2>1. ev[e] \in WorkerType /\ ev[e].pc = "locked"
        BY <1>2, TypeParts DEF Evaluate
    <2>2. v.active \in ActiveIds(fp) \cup {None}
          /\ v.candidate \in Pending(fp) \cup {None}
        BY ViewTypes
    <2> HIDE DEF v
    <2>3. ASSUME NEW r, ev' = [ev EXCEPT ![e].pc = "scored", ![e].report = r]
          PROVE  ev'[e].report = r
        BY <2>1, <2>3, TypeParts DEF WorkerType
    <2>4. CASE ev' = [ev EXCEPT ![e] = IdleWorker(@.mode)] /\ Unlock(e)
        BY <2>4, TypeParts DEF IdleWorker
    <2>5. CASE \E r \in Withheld(v, w, at) :
                 ev' = [ev EXCEPT ![e].pc = "scored", ![e].report = r]
        <3>1. PICK r \in Withheld(v, w, at) : ev'[e].report = r
            BY <2>3, <2>5
        <3>2. PICK why : /\ r = [Draft(v, 0, 0, {}) EXCEPT !.outcome = why]
                         /\ why \in {Fault(v, w, at), "invalid_artifact",
                                     "no_current_evidence",
                                     "invalid_rollback_artifact"}
            BY Zenon DEF Withheld
        <3>3. Fault(v, w, at) # "promote"
            BY DEF Fault
        <3>4. r.outcome = why
            BY <3>2 DEF Draft
        <3> QED BY <3>1, <3>2, <3>3, <3>4
    <2>6. CASE \E paired \in BOOLEAN, start, end \in 0 .. at :
                 \E r \in Scored(v, w, at, start, end, paired) :
                   \E d \in Decisions(v, w, ev[e].mode, r) :
                     ev' = [ev EXCEPT ![e].pc = "scored", ![e].report = d]
        <3>1. PICK paired, start, end :
                 \E r \in Scored(v, w, at, start, end, paired) :
                   \E d \in Decisions(v, w, ev[e].mode, r) :
                     ev' = [ev EXCEPT ![e].pc = "scored", ![e].report = d]
            BY <2>6, Zenon
        <3>2. PICK r \in Scored(v, w, at, start, end, paired) :
                 \E d \in Decisions(v, w, ev[e].mode, r) :
                   ev' = [ev EXCEPT ![e].pc = "scored", ![e].report = d]
            BY <3>1, Zenon
        <3>3. PICK d \in Decisions(v, w, ev[e].mode, r) : ev'[e].report = d
            BY <2>3, <3>2
        <3>4. /\ v.candidate # None /\ d.target = v.candidate
              /\ d.expected = {v.active} \ {None}
            BY <3>3, PromotionIsOfCandidate
        <3>5. \A a \in ActiveIds(fp) : v.candidate > a
            BY <2>2, <3>4, Zenon DEF Pending
        <3>6. \A a \in {v.active} \ {None} : a \in ActiveIds(fp)
            BY <2>2
        <3>7. v.candidate \in Nat /\ ActiveIds(fp) \subseteq Nat
            BY <2>2, <3>4, TimeAssumption
               DEF Pending, ActiveIds, WithStatus, Rows
        <3> QED BY <3>3, <3>4, <3>5, <3>6, <3>7
    <2> QED BY <1>2, <2>4, <2>5, <2>6, EvaluateCases, Zenon DEF v
<1> QED BY <1>1, <1>2, ScoredSteps

\* A promotion under way, from its evaluation to its transaction, always goes
\* from an older champion to a newer candidate.
THEOREM ForwardPromotion == Spec => []ForwardPromotions
<1>1. Init => ForwardPromotions
    <2> SUFFICES ASSUME Init, NEW e \in Evaluators PROVE ev[e].pc # "scored"
        BY DEF ForwardPromotions
    <2>1. ev \in [Evaluators -> {IdleWorker(m) : m \in Modes}]
        BY Zenon DEF Init
    <2>2. PICK m \in Modes : ev[e] = IdleWorker(m)
        BY <2>1
    <2> QED BY <2>2 DEF IdleWorker
<1>2. TypeOK /\ ForwardPromotions /\ [Next]_vars => ForwardPromotions'
    BY ForwardStep
<1> QED BY <1>1, <1>2, TypeCorrect, PTL DEF Spec

\* A step that puts an older model in the champion's place is a rollback.
LEMMA OlderReplacesStep ==
    ASSUME TypeOK, ForwardPromotions, [Next]_vars
    PROVE  \A i, a \in Ids : Activates(i) /\ Retires(a) /\ i < a
             => models[i].status = "retired" /\ models[a].prev = i
<1> SUFFICES ASSUME NEW i \in Ids, NEW a \in Ids,
                    Activates(i), Retires(a), i < a
             PROVE  models[i].status = "retired" /\ models[a].prev = i
    OBVIOUS
<1>1. PICK e \in Evaluators : /\ Applied(e) /\ ev[e].report.target = i
                              /\ ev[e].report.outcome \in Switching
                              /\ a \in ev[e].report.expected
    BY Activation
<1>2. CASE ev[e].report.outcome = "promote"
    <2>1. ev[e].pc = "scored"
        BY <1>1, Zenon DEF Applied, CompleteEvaluation
    <2>2. a < i
        BY <1>1, <1>2, <2>1, Zenon DEF ForwardPromotions
    <2> QED BY <2>2, TimeAssumption
<1>3. CASE ev[e].report.outcome = "rollback"
    <2>1. a \in ActiveIds(Fingerprint[ev[e].w])
        BY <1>1, ExpectedAreActive
    <2> QED BY <1>1, <1>3, <2>1, Zenon DEF Applied, Evidenced
<1> QED BY <1>1, <1>2, <1>3 DEF Switching

\* However late a Job publishes, a model created before the champion takes its
\* place only by a rollback to the champion's recorded predecessor.
THEOREM OlderModelsReturnOnlyByRollback == Spec => OlderReplacesOnlyByRollback
<1>1. TypeOK /\ ForwardPromotions /\ [Next]_vars
        => [\A i, a \in Ids : Activates(i) /\ Retires(a) /\ i < a
              => models[i].status = "retired" /\ models[a].prev = i]_vars
    BY OlderReplacesStep
<1> QED BY <1>1, TypeCorrect, ForwardPromotion, PTL
        DEF Spec, OlderReplacesOnlyByRollback

-----------------------------------------------------------------------------
(* Dates and identities of rows.                                           *)

\* Nothing in the table, and no evaluation, is dated later than the clock.
Dated == /\ \A i \in Ids : models[i].at <= now /\ models[i].activated <= now
         /\ \A e \in Evaluators : ev[e].at <= now

\* The dates an applied evaluation leaves in a row.
LEMMA RecordedDates ==
    ASSUME TypeOK, NEW e \in Evaluators, models' = Recorded(e), NEW i \in Ids
    PROVE  LET r == ev[e].report IN
           /\ models'[i].at = IF i = r.target THEN ev[e].at ELSE models[i].at
           /\ models'[i].activated = IF i = r.target /\ r.outcome \in Switching
                                     THEN now ELSE models[i].activated
<1> DEFINE r == ev[e].report
           s == IF r.outcome \in Switching THEN "active" ELSE models[i].status
           a == IF r.outcome \in Switching THEN now ELSE models[i].activated
           c == CASE r.outcome \in Switching -> now
                  [] r.outcome = "revalidated" ->
                        Latest(models[i].activated, ev[e].at)
                  [] OTHER -> models[i].certified
<1>1. models'[i] =
        IF i = r.target
        THEN [models[i] EXCEPT !.status = s, !.activated = a,
                               !.certified = c, !.at = ev[e].at,
                               !.outcome = r.outcome, !.prev = r.prev]
        ELSE IF i \in Replaced(e)
        THEN [models[i] EXCEPT !.status = "retired"]
        ELSE models[i]
    BY DEF Recorded, ReportedAt
<1>2. models[i] \in ModelType
    BY TypeParts
<1> HIDE DEF s, a, c
<1>3. i = r.target => models'[i].at = ev[e].at /\ models'[i].activated = a
    BY <1>1, <1>2 DEF ModelType
<1>4. i # r.target => /\ models'[i].at = models[i].at
                      /\ models'[i].activated = models[i].activated
    BY <1>1, <1>2 DEF ModelType
<1> QED BY <1>3, <1>4, Zenon DEF a

\* An inserted row is a new candidate without dates; the other rows stay.
LEMMA InsertedDates ==
    ASSUME TypeOK, NEW j, NEW t, NEW created, Insert(j, t, created), NEW i \in Ids
    PROVE  /\ i # j => models'[i] = models[i]
           /\ i = j => /\ models'[i].status = "candidate"
                       /\ models'[i].at = 0 /\ models'[i].activated = 0
<1> DEFINE n == [NoModel EXCEPT !.status = "candidate", !.rev = job[t].rev,
                                !.fitted = job[t].fitted, !.created = created]
<1>1. models' = [models EXCEPT ![j] = n]
    BY Zenon DEF Insert
<1>2. n.status = "candidate" /\ n.at = 0 /\ n.activated = 0
    BY DEF NoModel
<1> HIDE DEF n
<1> QED BY <1>1, <1>2, TypeParts

\* A worker's time is the one it had, the clock's or none.
LEMMA WorkerDates ==
    ASSUME TypeOK, [Next]_vars, NEW e \in Evaluators
    PROVE  ev'[e].at \in {ev[e].at, now, 0}
<1>1. CASE UNCHANGED ev
    BY <1>1
<1>2. CASE Tick \/ DeactivateParent \/ UNCHANGED vars
    BY <1>1, <1>2 DEF Tick, DeactivateParent, vars
<1>3. ASSUME NEW p \in Policies, Reconcile(p) PROVE UNCHANGED ev
    BY <1>3, Zenon DEF Reconcile
<1>4. ASSUME NEW t \in Trainers,
             \/ StartTraining(t) \/ RepairHistory(t)
             \/ CreateCandidate(t) \/ AbandonJob(t)
      PROVE  UNCHANGED ev
    BY <1>4, Zenon DEF StartTraining, RepairHistory, CreateCandidate, AbandonJob
<1>5. ASSUME NEW f \in Evaluators, LoseSession(f) PROVE UNCHANGED ev
    BY <1>5, Zenon DEF LoseSession
<1>6. ASSUME NEW f \in Evaluators,
             \/ BeginEvaluation(f) \/ AcquireEvaluation(f)
             \/ CompleteEvaluation(f) \/ Restart(f)
      PROVE  ev'[e].at \in {ev[e].at, now, 0}
    <2>1. f # e => ev'[e] = ev[e]
        BY <1>6, TypeParts DEF BeginEvaluation, AcquireEvaluation,
                               CompleteEvaluation, Restart
    <2>2. ev[e] \in WorkerType
        BY TypeParts
    <2>3. CASE f = e
        BY <1>6, <2>2, <2>3, TypeParts
           DEF BeginEvaluation, AcquireEvaluation, CompleteEvaluation, Restart,
               IdleWorker, WorkerType
    <2> QED BY <2>1, <2>3
<1>7. ASSUME NEW f \in Evaluators, Evaluate(f)
      PROVE  ev'[e].at \in {ev[e].at, now, 0}
    <2>1. f # e => ev'[e] = ev[e]
        BY <1>7, TypeParts DEF Evaluate
    <2>2. ev[e] \in WorkerType
        BY TypeParts
    <2>3. ASSUME f = e, NEW r,
                 ev' = [ev EXCEPT ![e].pc = "scored", ![e].report = r]
          PROVE  ev'[e].at = ev[e].at
        BY <2>2, <2>3, TypeParts DEF WorkerType
    <2>4. CASE f = e /\ ev' = [ev EXCEPT ![e] = IdleWorker(@.mode)]
        BY <2>4, TypeParts DEF IdleWorker
    <2>5. f = e => \/ ev' = [ev EXCEPT ![e] = IdleWorker(@.mode)]
                   \/ \E r : ev' = [ev EXCEPT ![e].pc = "scored",
                                              ![e].report = r]
        BY <1>7, EvaluateCases, Zenon
    <2> QED BY <2>1, <2>3, <2>4, <2>5
<1> QED BY <1>1, <1>2, <1>3, <1>4, <1>5, <1>6, <1>7, Zenon DEF Next, Worker

\* The clock does not go back.
LEMMA ClockSteps ==
    ASSUME TypeOK, [Next]_vars
    PROVE  now' \in {now, now + 1}
BY Zenon DEF Next, vars, Tick, Reconcile, DeactivateParent, StartTraining,
    RepairHistory, CreateCandidate, AbandonJob, Worker, BeginEvaluation,
    AcquireEvaluation, Evaluate, CompleteEvaluation, Restart, LoseSession

\* Every step keeps the dates in the past.
LEMMA DatedStep ==
    ASSUME TypeOK, Dated, [Next]_vars
    PROVE  Dated'
<1>0. now \in Nat /\ now' \in Nat /\ now <= now'
    BY ClockSteps, TypeParts, TimeAssumption
<1>1. \A i \in Ids : models[i].at \in Nat /\ models[i].activated \in Nat
    BY TypeParts, TimeAssumption DEF ModelType
<1>2. ASSUME NEW e \in Evaluators PROVE ev[e].at \in Nat /\ ev'[e].at <= now'
    BY <1>0, WorkerDates, ReportTimes DEF Dated
<1>3. ASSUME NEW i \in Ids
      PROVE  models'[i].at <= now' /\ models'[i].activated <= now'
    <2>1. CASE models' = models
        BY <1>0, <1>1, <2>1 DEF Dated
    <2>2. CASE models' = [j \in Ids |-> NoModel]
        BY <1>0, <2>2 DEF NoModel
    <2>3. ASSUME NEW j, NEW t, NEW created, Insert(j, t, created)
          PROVE  models'[i].at <= now' /\ models'[i].activated <= now'
        <3>1. CASE i # j
            BY <1>0, <1>1, <2>3, <3>1, InsertedDates DEF Dated
        <3>2. CASE i = j
            BY <1>0, <2>3, <3>2, InsertedDates
        <3> QED BY <3>1, <3>2
    <2>4. ASSUME NEW e \in Evaluators, models' = Recorded(e)
          PROVE  models'[i].at <= now' /\ models'[i].activated <= now'
        BY <1>0, <1>1, <1>2, <2>4, RecordedDates DEF Dated
    <2> QED BY <2>1, <2>2, <2>3, <2>4, TableSteps
<1> QED BY <1>2, <1>3 DEF Dated

\* What the initial states hold of the workers.
LEMMA InitialWorkers ==
    ASSUME Init, NEW e \in Evaluators
    PROVE  ev[e].pc = "idle" /\ ev[e].at = 0
<1>1. ev \in [Evaluators -> {IdleWorker(m) : m \in Modes}]
    BY Zenon DEF Init
<1>2. PICK m \in Modes : ev[e] = IdleWorker(m)
    BY <1>1
<1> QED BY <1>2 DEF IdleWorker

\* The dates of the initial rows are unset.
LEMMA InitialDates ==
    ASSUME Init, NEW i \in Ids
    PROVE  /\ models[i].at = 0 /\ models[i].activated = 0 /\ now = 1
           /\ models[i].status # "absent" => i <= born
<1>1. \/ models = [j \in Ids |-> NoModel]
      \/ /\ born = 1
         /\ \E p \in Legacy :
              models = [j \in Ids |->
                    IF j = 1 THEN [NoModel EXCEPT !.status = "active",
                                                  !.rev = p, !.legacy = TRUE]
                             ELSE NoModel]
    BY Zenon DEF Init
<1>2. now = 1
    BY Zenon DEF Init
<1>3. CASE models = [j \in Ids |-> NoModel]
    BY <1>2, <1>3 DEF NoModel
<1>4. ASSUME NEW p \in Legacy, NEW m, born = 1,
             m = [NoModel EXCEPT !.status = "active", !.rev = p,
                                 !.legacy = TRUE],
             models = [j \in Ids |-> IF j = 1 THEN m ELSE NoModel]
      PROVE  /\ models[i].at = 0 /\ models[i].activated = 0
             /\ models[i].status # "absent" => i <= born
    <2>1. m.at = 0 /\ m.activated = 0
        BY <1>4 DEF NoModel
    <2>2. /\ NoModel.at = 0 /\ NoModel.activated = 0
          /\ NoModel.status = "absent"
        BY DEF NoModel
    <2>3. models[i] = IF i = 1 THEN m ELSE NoModel
        BY <1>4
    <2> QED BY <1>4, <2>1, <2>2, <2>3
<1> QED BY <1>1, <1>2, <1>3, <1>4, Zenon

\* Nothing is dated in the future.
LEMMA AlwaysDated == Spec => []Dated
<1>1. Init => Dated
    <2> SUFFICES ASSUME Init PROVE Dated
        OBVIOUS
    <2>1. now = 1
        BY Zenon DEF Init
    <2> QED BY <2>1, InitialDates, InitialWorkers DEF Dated
<1>2. TypeOK /\ Dated /\ [Next]_vars => Dated'
    BY DatedStep
<1> QED BY <1>1, <1>2, TypeCorrect, PTL DEF Spec

-----------------------------------------------------------------------------
(* An id is given to one row only. *)

\* A transactional Job that runs has an id nobody else has.
Reserved(t) == t \in Transactional /\ job[t].pc # "idle"

IdsOnce ==
    /\ \A i \in Ids : models[i].status # "absent" => i <= born
    /\ \A t \in Trainers : Reserved(t) =>
         /\ job[t].id \in Ids /\ job[t].id <= born
         /\ models[job[t].id].status = "absent"
         /\ \A u \in Trainers \ {t} : Reserved(u) => job[u].id # job[t].id
    /\ \A e \in Evaluators : ev[e].pc = "scored" =>
         /\ ev[e].report.target \in Ids /\ ev[e].report.target <= born
         /\ \A t \in Trainers : Reserved(t) => job[t].id # ev[e].report.target

\* An evaluation that ends with a report: what it says about the models that
\* were read, and what it leaves of the worker.
LEMMA Drafted ==
    ASSUME TypeOK, NEW e \in Evaluators, Evaluate(e), ev'[e].pc = "scored"
    PROVE  LET fp == Fingerprint[ev[e].w]
               v  == Turn(EvaluationModels(fp))
               r  == ev'[e].report
           IN  /\ ev'[e].at = ev[e].at /\ ev'[e].w = ev[e].w
               /\ r.expected = {v.active} \ {None}
               /\ r.outcome \in Switching => r.expected \subseteq {r.prev}
               /\ \/ v.candidate # None /\ r.target = v.candidate
                  \/ /\ v.candidate = None /\ v.active # None
                     /\ r.target = v.active /\ r.prev = models[v.active].prev
                     /\ r.outcome \notin Switching
                  \/ /\ v.candidate = None /\ v.active # None
                     /\ v.previous # None /\ r.target = v.previous
<1> DEFINE w == ev[e].w
           at == ev[e].at
           fp == Fingerprint[w]
           v == Turn(EvaluationModels(fp))
           Good(r) ==
             /\ r.expected = {v.active} \ {None}
             /\ r.outcome \in Switching => r.expected \subseteq {r.prev}
             /\ \/ v.candidate # None /\ r.target = v.candidate
                \/ /\ v.candidate = None /\ v.active # None
                   /\ r.target = v.active /\ r.prev = models[v.active].prev
                   /\ r.outcome \notin Switching
                \/ /\ v.candidate = None /\ v.active # None
                   /\ v.previous # None /\ r.target = v.previous
<1>1. ev[e] \in WorkerType /\ ev[e].pc = "locked"
    BY TypeParts DEF Evaluate
<1> HIDE DEF v
<1>2. ASSUME NEW r, ev' = [ev EXCEPT ![e].pc = "scored", ![e].report = r], Good(r)
      PROVE  ev'[e].at = ev[e].at /\ ev'[e].w = ev[e].w /\ Good(ev'[e].report)
    <2>1. /\ ev'[e].report = r
          /\ ev'[e].at = ev[e].at /\ ev'[e].w = ev[e].w
        BY <1>1, <1>2, TypeParts DEF WorkerType
    <2> HIDE DEF Good
    <2> QED BY <1>2, <2>1
<1>3. ~(ev' = [ev EXCEPT ![e] = IdleWorker(@.mode)])
    BY TypeParts DEF IdleWorker
<1>4. ASSUME NEW r \in Withheld(v, w, at), Target(v) # None
      PROVE  Good(r)
    <2>1. PICK why : /\ r = [Draft(v, 0, 0, {}) EXCEPT !.outcome = why]
                     /\ why \in {Fault(v, w, at), "invalid_artifact",
                                 "no_current_evidence",
                                 "invalid_rollback_artifact"}
        BY Zenon DEF Withheld
    <2>2. Fault(v, w, at) \notin Switching
        BY DEF Fault, Switching
    <2>3. why \notin Switching
        BY <2>1, <2>2 DEF Switching
    <2>4. /\ r.outcome = why /\ r.target = Target(v)
          /\ r.expected = {v.active} \ {None} /\ r.prev = models[Target(v)].prev
        BY <2>1 DEF Draft
    <2> QED BY <1>4, <2>3, <2>4 DEF Target
<1>5. ASSUME NEW paired, NEW start, NEW end,
             NEW r \in Scored(v, w, at, start, end, paired),
             NEW d \in Decisions(v, w, ev[e].mode, r), Target(v) # None
      PROVE  Good(d)
    <2>1. PICK scored : r = Draft(v, start, end, scored)
        BY Zenon DEF Scored
    <2>2. /\ r.target = Target(v) /\ r.expected = {v.active} \ {None}
          /\ r.prev = models[Target(v)].prev
        BY <2>1 DEF Draft
    <2>3. CASE v.candidate # None
        <3>1. /\ d.target = r.target /\ d.expected = r.expected
              /\ d.outcome \in {"rejected", "shadow", "promote"}
              /\ d.outcome = "promote" =>
                    d.prev = IF v.active = None THEN r.prev ELSE v.active
            BY <2>1, <2>3 DEF Decisions, Draft
        <3> QED BY <2>2, <2>3, <3>1 DEF Target, Switching
    <2>4. CASE v.candidate = None
        <3> DEFINE a == [r EXCEPT !.outcome = "revalidated"]
                   b == [r EXCEPT !.outcome = "degraded"]
                   c == [r EXCEPT !.outcome = IF ev[e].mode = "shadow"
                                              THEN "shadow_rollback"
                                              ELSE "rollback",
                                  !.target = v.previous, !.prev = v.active]
        <3>1. Decisions(v, w, ev[e].mode, r)
                = {a, b} \cup (IF RollbackEligible(v, w) THEN {c} ELSE {})
            BY <2>4, Zenon DEF Decisions
        <3> HIDE DEF a, b, c
        <3>2. d = a \/ d = b \/ (d = c /\ v.previous # None)
            BY <3>1 DEF RollbackEligible
        <3> USE DEF a, b, c
        <3>3. v.active # None /\ Target(v) = v.active
            BY <1>5, <2>4 DEF Target
        <3>4. CASE d = a \/ d = b
            <4>1. /\ d.target = v.active /\ d.expected = {v.active} \ {None}
                  /\ d.prev = models[v.active].prev
                  /\ d.outcome \notin Switching
                BY <2>1, <3>3, <3>4 DEF Draft, Switching
            <4> QED BY <2>4, <3>3, <4>1
        <3>5. CASE d = c /\ v.previous # None
            <4>1. /\ d.target = v.previous /\ d.expected = {v.active} \ {None}
                  /\ d.prev = v.active
                BY <2>1, <3>5 DEF Draft
            <4> QED BY <2>4, <3>3, <3>5, <4>1
        <3> QED BY <3>2, <3>4, <3>5
    <2> QED BY <2>3, <2>4
<1> HIDE DEF Good
<1>6. ev'[e].at = ev[e].at /\ ev'[e].w = ev[e].w /\ Good(ev'[e].report)
    BY <1>2, <1>3, <1>4, <1>5, EvaluateCases, Zenon DEF v
<1> QED BY <1>6 DEF Good, v

\* The model a new report is about is in the table, and which one it is.
LEMMA DraftedRows ==
    ASSUME TypeOK, NEW e \in Evaluators, Evaluate(e), ev'[e].pc = "scored"
    PROVE  LET fp == Fingerprint[ev[e].w]
               r  == ev'[e].report
           IN  /\ r.target \in Rows(fp)
               /\ r.expected \subseteq ActiveIds(fp)
               /\ r.target \in r.expected =>
                    /\ models[r.target].status = "active"
                    /\ r.outcome \notin Switching
                    /\ r.prev = models[r.target].prev
               /\ models[r.target].status = "candidate" =>
                    \A a \in r.expected : models[r.target].at <= models[a].at
<1> DEFINE fp == Fingerprint[ev[e].w]
           u == EvaluationModels(fp)
           v == Turn(u)
           r == ev'[e].report
<1>1. /\ v.active \in ActiveIds(fp) \cup {None}
      /\ v.candidate \in Pending(fp) \cup {None}
      /\ v.previous \in WithStatus(fp, "retired") \cup {None}
    BY ViewTypes
<1>2. ASSUME v.candidate # None, v.active # None
      PROVE  models[v.candidate].at <= models[v.active].at
    <2>1. /\ v.candidate = u.candidate /\ v.active = u.active
          /\ ~(models[u.candidate].at > models[u.active].at)
        BY <1>2 DEF Turn, EvaluationModels
    <2>2. v.candidate \in Ids /\ v.active \in Ids
        BY <1>2, ViewTypes
    <2>3. \A i \in Ids : models[i].at \in Nat
        BY TypeParts, TimeAssumption DEF ModelType
    <2> HIDE DEF u, v
    <2> QED BY <2>1, <2>2, <2>3
<1> HIDE DEF u, v
<1>3. /\ r.expected = {v.active} \ {None}
      /\ \/ v.candidate # None /\ r.target = v.candidate
         \/ /\ v.candidate = None /\ v.active # None
            /\ r.target = v.active /\ r.prev = models[v.active].prev
            /\ r.outcome \notin Switching
         \/ /\ v.candidate = None /\ v.active # None
            /\ v.previous # None /\ r.target = v.previous
    BY Drafted DEF u, v
<1>4. \A i \in Pending(fp) : i \in Rows(fp) /\ models[i].status = "candidate"
    BY DEF Pending, WithStatus
<1>5. \A s : \A i \in WithStatus(fp, s) : i \in Rows(fp) /\ models[i].status = s
    BY DEF WithStatus
<1>6. \A i \in ActiveIds(fp) : i \in Rows(fp) /\ models[i].status = "active"
    BY <1>5 DEF ActiveIds
<1> HIDE DEF r
<1>7. CASE v.candidate # None /\ r.target = v.candidate
    BY <1>1, <1>2, <1>3, <1>4, <1>6, <1>7 DEF r
<1>8. CASE v.candidate = None /\ v.active # None /\ r.target = v.active
                /\ r.prev = models[v.active].prev /\ r.outcome \notin Switching
    BY <1>1, <1>3, <1>6, <1>8 DEF r
<1>9. CASE v.candidate = None /\ v.active # None
                /\ v.previous # None /\ r.target = v.previous
    BY <1>1, <1>3, <1>5, <1>6, <1>9 DEF r
<1> QED BY <1>3, <1>7, <1>8, <1>9

\* Every step uses an id once.
LEMMA IdsStep ==
    ASSUME TypeOK, IdsOnce, [Next]_vars
    PROVE  IdsOnce'
<1>0. born \in Nat /\ MaxModels \in Nat /\ Ids \subseteq Nat
    BY TypeParts, TimeAssumption
<1>a. ASSUME models' = models, UNCHANGED <<job, born>>, NEW f \in Evaluators,
             ev'[f].pc # "scored", \A e \in Evaluators \ {f} : ev'[e] = ev[e]
      PROVE  IdsOnce'
    BY <1>a DEF IdsOnce, Reserved
<1>b. ASSUME models' = models, born' = born, ev' = ev, NEW t \in Trainers,
             job'[t].pc = "idle" \/ (job[t].pc # "idle" /\ job'[t].id = job[t].id),
             \A u \in Trainers \ {t} : job'[u] = job[u]
      PROVE  IdsOnce'
    BY <1>b DEF IdsOnce, Reserved
<1>1. CASE Tick \/ DeactivateParent \/ UNCHANGED vars
    BY <1>1 DEF IdsOnce, Reserved, Tick, DeactivateParent, vars
<1>2. ASSUME NEW p \in Policies, Reconcile(p) PROVE IdsOnce'
    <2>1. UNCHANGED <<born, job, ev>>
        BY <1>2, Zenon DEF Reconcile
    <2>2. models' = models \/ models' = [i \in Ids |-> NoModel]
        BY <1>2, Zenon DEF Reconcile
    <2>3. \A i \in Ids : models'[i] = models[i] \/ models'[i].status = "absent"
        <3>1. NoModel.status = "absent"
            BY DEF NoModel
        <3>2. CASE models' = models
            BY <3>2
        <3>3. CASE models' = [i \in Ids |-> NoModel]
            BY <3>1, <3>3
        <3> QED BY <2>2, <3>2, <3>3
    <2>4. \A i \in Ids :
            /\ models'[i].status # "absent" => models[i].status # "absent"
            /\ models[i].status = "absent" => models'[i].status = "absent"
        BY <2>3
    <2>5. \A t \in Trainers : Reserved(t)' = Reserved(t)
        BY <2>1 DEF Reserved
    <2> HIDE DEF Ids
    <2> QED BY <2>1, <2>4, <2>5 DEF IdsOnce
<1>3. ASSUME NEW t \in Trainers, StartTraining(t) PROVE IdsOnce'
    <2>1. UNCHANGED <<models, ev>> /\ job[t].pc = "idle" /\ born < MaxModels
        BY <1>3, Zenon DEF StartTraining
    <2>2. born' = IF t \in Transactional THEN born + 1 ELSE born
        BY <1>3, Zenon DEF StartTraining
    <2>3. /\ \A u \in Trainers \ {t} : job'[u] = job[u]
          /\ t \in Transactional => job'[t].id = born + 1
        BY <1>3, TypeParts DEF StartTraining
    <2>4. CASE t \notin Transactional
        <3>1. \A u \in Trainers : Reserved(u)' => u # t /\ Reserved(u)
            BY <2>3, <2>4 DEF Reserved
        <3> QED BY <2>1, <2>2, <2>3, <2>4, <3>1 DEF IdsOnce
    <2>5. CASE t \in Transactional
        <3>1. \A u \in Trainers \ {t} : /\ job'[u] = job[u]
                                        /\ Reserved(u)' = Reserved(u)
            BY <2>3 DEF Reserved
        <3>2. /\ born + 1 \in Ids /\ models[born + 1].status = "absent"
              /\ job'[t].id = born + 1 /\ born' = born + 1
            BY <1>0, <2>1, <2>2, <2>3, <2>5 DEF IdsOnce
        <3>3. \A i \in Ids : models'[i].status # "absent" => i <= born'
            BY <1>0, <2>1, <3>2 DEF IdsOnce
        <3>4. ASSUME NEW u \in Trainers, Reserved(u)'
              PROVE  /\ job'[u].id \in Ids /\ job'[u].id <= born'
                     /\ models'[job'[u].id].status = "absent"
                     /\ \A x \in Trainers \ {u} :
                            Reserved(x)' => job'[x].id # job'[u].id
            BY <1>0, <2>1, <3>1, <3>2, <3>4 DEF IdsOnce
        <3>5. ASSUME NEW e \in Evaluators, ev'[e].pc = "scored"
              PROVE  /\ ev'[e].report.target \in Ids
                     /\ ev'[e].report.target <= born'
                     /\ \A u \in Trainers :
                          Reserved(u)' => job'[u].id # ev'[e].report.target
            BY <1>0, <2>1, <3>1, <3>2, <3>5 DEF IdsOnce
        <3> QED BY <3>3, <3>4, <3>5 DEF IdsOnce
    <2> QED BY <2>4, <2>5
<1>4. ASSUME NEW t \in Trainers, RepairHistory(t) \/ AbandonJob(t) PROVE IdsOnce'
    <2>1. models' = models /\ born' = born /\ ev' = ev
        BY <1>4, Zenon DEF RepairHistory, AbandonJob
    <2>2. job[t] \in JobType
        BY TypeParts
    <2>3. /\ job'[t].pc = "idle" \/ (job[t].pc # "idle" /\ job'[t].id = job[t].id)
          /\ \A u \in Trainers \ {t} : job'[u] = job[u]
        BY <1>4, <2>2, TypeParts DEF RepairHistory, AbandonJob, IdleJob, JobType
    <2> QED BY <1>b, <2>1, <2>3
<1>5. ASSUME NEW t \in Trainers, CreateCandidate(t) PROVE IdsOnce'
    <2>1. /\ ev' = ev /\ job[t].pc = "fitting"
          /\ \A u \in Trainers \ {t} : job'[u] = job[u]
          /\ job'[t].pc = "idle"
        BY <1>5, TypeParts DEF CreateCandidate, IdleJob
    <2>2. PICK n, created :
             /\ Insert(n, t, created) /\ n \in Ids /\ n <= born'
             /\ born' \in Nat /\ born <= born'
             /\ models[n].status = "absent"
             /\ \A u \in Trainers \ {t} : Reserved(u) => job[u].id # n
             /\ \A e \in Evaluators :
                  ev[e].pc = "scored" => ev[e].report.target # n
        <3>1. CASE t \in Transactional /\ Insert(job[t].id, t, job[t].start)
                   /\ UNCHANGED born
            <4>1. Reserved(t)
                BY <2>1, <3>1 DEF Reserved
            <4> QED BY <1>0, <3>1, <4>1 DEF IdsOnce
        <3>2. CASE t \notin Transactional /\ born < MaxModels
                   /\ Insert(born + 1, t, now) /\ born' = born + 1
            <4>1. born + 1 \in Ids /\ born + 1 > born
                BY <1>0, <3>2
            <4>2. models[born + 1].status = "absent"
                BY <1>0, <4>1 DEF IdsOnce
            <4>3. \A u \in Trainers : Reserved(u) => job[u].id # born + 1
                BY <1>0, <4>1 DEF IdsOnce
            <4>4. \A e \in Evaluators :
                    ev[e].pc = "scored" => ev[e].report.target # born + 1
                BY <1>0, <4>1 DEF IdsOnce
            <4> QED BY <1>0, <3>2, <4>1, <4>2, <4>3, <4>4
        <3> QED BY <1>5, <3>1, <3>2, Zenon DEF CreateCandidate
    <2>3. \A i \in Ids \ {n} : models'[i] = models[i]
        BY <2>2, InsertedDates
    <2>4. \A u \in Trainers : Reserved(u)' => u # t /\ Reserved(u)
                                              /\ job'[u] = job[u]
        BY <2>1 DEF Reserved
    <2>5. \A i \in Ids : models'[i].status # "absent" => i <= born'
        BY <1>0, <2>2, <2>3 DEF IdsOnce
    <2>6. ASSUME NEW u \in Trainers, Reserved(u)'
          PROVE  /\ job'[u].id \in Ids /\ job'[u].id <= born'
                 /\ models'[job'[u].id].status = "absent"
                 /\ \A x \in Trainers \ {u} :
                        Reserved(x)' => job'[x].id # job'[u].id
        BY <1>0, <2>2, <2>3, <2>4, <2>6 DEF IdsOnce
    <2>7. ASSUME NEW e \in Evaluators, ev'[e].pc = "scored"
          PROVE  /\ ev'[e].report.target \in Ids
                 /\ ev'[e].report.target <= born'
                 /\ \A u \in Trainers :
                      Reserved(u)' => job'[u].id # ev'[e].report.target
        BY <1>0, <2>1, <2>2, <2>4, <2>7 DEF IdsOnce
    <2> QED BY <2>5, <2>6, <2>7 DEF IdsOnce
<1>6. ASSUME NEW f \in Evaluators,
             \/ BeginEvaluation(f) \/ AcquireEvaluation(f) \/ Restart(f)
      PROVE  IdsOnce'
    <2>1. models' = models /\ UNCHANGED <<job, born>>
        BY <1>6, Zenon DEF BeginEvaluation, AcquireEvaluation, Restart
    <2>2. ev[f] \in WorkerType
        BY TypeParts
    <2>3. ev'[f].pc # "scored" /\ \A e \in Evaluators \ {f} : ev'[e] = ev[e]
        BY <1>6, <2>2, TypeParts
           DEF BeginEvaluation, AcquireEvaluation, Restart, IdleWorker, WorkerType
    <2> QED BY <1>a, <2>1, <2>3
<1>7. ASSUME NEW f \in Evaluators, LoseSession(f) PROVE IdsOnce'
    <2>1. UNCHANGED <<models, job, born, ev>>
        BY <1>7, Zenon DEF LoseSession
    <2> QED BY <2>1 DEF IdsOnce, Reserved
<1>8. ASSUME NEW f \in Evaluators, Evaluate(f) PROVE IdsOnce'
    <2>1. UNCHANGED <<models, job, born>>
        BY <1>8, Zenon DEF Evaluate
    <2>2. \A e \in Evaluators \ {f} : ev'[e] = ev[e]
        BY <1>8, TypeParts DEF Evaluate
    <2>3. CASE ev'[f].pc # "scored"
        BY <1>a, <2>1, <2>2, <2>3
    <2>4. CASE ev'[f].pc = "scored"
        <3>1. /\ ev'[f].report.target \in Ids
              /\ models[ev'[f].report.target].status # "absent"
            BY <1>8, <2>4, DraftedRows DEF Rows
        <3> QED BY <2>1, <2>2, <3>1 DEF IdsOnce, Reserved
    <2> QED BY <2>3, <2>4
<1>9. ASSUME NEW f \in Evaluators, CompleteEvaluation(f) PROVE IdsOnce'
    <2>1. UNCHANGED <<job, born>>
        BY <1>9, Zenon DEF CompleteEvaluation
    <2>2. ev'[f].pc # "scored" /\ \A e \in Evaluators \ {f} : ev'[e] = ev[e]
        BY <1>9, TypeParts DEF CompleteEvaluation, IdleWorker
    <2>3. CASE models' = models
        BY <1>a, <2>1, <2>2, <2>3
    <2>4. CASE models' # models
        <3>1. Fenced(f) /\ models' = Recorded(f)
            BY <1>9, <2>4, Zenon DEF CompleteEvaluation
        <3>2. \A i \in Replaced(f) : models[i].status # "absent"
            BY <3>1 DEF Fenced, Replaced, ActiveIds, WithStatus, Rows
        <3>3. models[ev[f].report.target].status # "absent"
            BY <3>1 DEF Fenced, Rows
        <3>4. \A i \in Ids : models[i].status = "absent"
                                => models'[i].status = "absent"
            BY <3>1, <3>2, <3>3, RecordedStatus
        <3>5. \A i \in Ids : models'[i].status # "absent"
                                => models[i].status # "absent"
            BY <3>4
        <3> QED BY <2>1, <2>2, <3>4, <3>5 DEF IdsOnce, Reserved
    <2> QED BY <2>3, <2>4
<1> QED BY <1>1, <1>2, <1>3, <1>4, <1>5, <1>6, <1>7, <1>8, <1>9, Zenon
        DEF Next, Worker

\* Every id is given to one row only, and no evaluation in flight is about a
\* row that is still to come.
LEMMA IdsUsedOnce == Spec => []IdsOnce
<1>1. Init => IdsOnce
    <2> SUFFICES ASSUME Init PROVE IdsOnce
        OBVIOUS
    <2>1. \A t \in Trainers : job[t].pc = "idle"
        <3>1. job = [t \in Trainers |-> IdleJob]
            BY Zenon DEF Init
        <3> QED BY <3>1 DEF IdleJob
    <2> QED BY <2>1, InitialDates, InitialWorkers DEF IdsOnce, Reserved
<1>2. TypeOK /\ IdsOnce /\ [Next]_vars => IdsOnce'
    BY IdsStep
<1> QED BY <1>1, <1>2, TypeCorrect, PTL DEF Spec

\* What a step does to the table, when ids are used once: an inserted row was
\* absent, no evaluation in flight is about it, and no evaluation moves.
LEMMA FreshTableSteps ==
    ASSUME TypeOK, IdsOnce, [Next]_vars
    PROVE  \/ models' = models
           \/ models' = [i \in Ids |-> NoModel]
           \/ /\ ev' = ev
              /\ \E n \in Ids : \E t, created :
                   /\ Insert(n, t, created) /\ models[n].status = "absent"
                   /\ \A e \in Evaluators :
                        ev[e].pc = "scored" => ev[e].report.target # n
           \/ \E e \in Evaluators : Applied(e) /\ models' = Recorded(e)
<1>1. CASE Tick \/ DeactivateParent \/ UNCHANGED vars
    BY <1>1 DEF Tick, DeactivateParent, vars
<1>2. ASSUME NEW p \in Policies, Reconcile(p)
      PROVE  models' \in {models, [i \in Ids |-> NoModel]}
    BY <1>2, Zenon DEF Reconcile
<1>3. ASSUME NEW t \in Trainers,
             StartTraining(t) \/ RepairHistory(t) \/ AbandonJob(t)
      PROVE  models' = models
    BY <1>3 DEF StartTraining, RepairHistory, AbandonJob
<1>4. ASSUME NEW t \in Trainers, CreateCandidate(t)
      PROVE  /\ ev' = ev
             /\ \E n \in Ids : \E u, created :
                  /\ Insert(n, u, created) /\ models[n].status = "absent"
                  /\ \A e \in Evaluators :
                       ev[e].pc = "scored" => ev[e].report.target # n
    <2>0. born \in Nat /\ MaxModels \in Nat /\ Ids \subseteq Nat
        BY TypeParts, TimeAssumption
    <2>1. ev' = ev /\ job[t].pc = "fitting"
        BY <1>4, Zenon DEF CreateCandidate
    <2>2. CASE t \in Transactional /\ Insert(job[t].id, t, job[t].start)
        <3>1. Reserved(t)
            BY <2>1, <2>2 DEF Reserved
        <3> QED BY <2>1, <2>2, <3>1 DEF IdsOnce
    <2>3. CASE born < MaxModels /\ Insert(born + 1, t, now)
        <3>1. born + 1 \in Ids /\ ~(born + 1 <= born)
            BY <2>0, <2>3
        <3> QED BY <2>1, <2>3, <3>1 DEF IdsOnce
    <2> QED BY <1>4, <2>2, <2>3, Zenon DEF CreateCandidate
<1>5. ASSUME NEW e \in Evaluators,
             \/ BeginEvaluation(e) \/ AcquireEvaluation(e) \/ Evaluate(e)
             \/ Restart(e) \/ LoseSession(e)
      PROVE  models' = models
    BY <1>5, Zenon DEF BeginEvaluation, AcquireEvaluation, Evaluate, Restart,
                       LoseSession
<1>6. ASSUME NEW e \in Evaluators, CompleteEvaluation(e)
      PROVE  models' = models \/ (Applied(e) /\ models' = Recorded(e))
    BY <1>6, Zenon DEF CompleteEvaluation, Applied
<1> QED BY <1>1, <1>2, <1>3, <1>4, <1>5, <1>6, Zenon DEF Next, Worker

-----------------------------------------------------------------------------
(* The recorded predecessor. *)

\* A source that has a retired model has an active one.
Successors ==
    \A i \in Ids : models[i].status = "retired" =>
        \E a \in Ids : /\ models[a].status = "active"
                       /\ Fingerprint[models[a].rev] = Fingerprint[models[i].rev]

\* An applied evaluation by its parts.
LEMMA AppliedParts ==
    ASSUME TypeOK, NEW f \in Evaluators, Applied(f)
    PROVE  LET r == ev[f].report  fp == Fingerprint[ev[f].w] IN
           /\ ev[f].pc = "scored" /\ ev'[f].pc = "idle"
           /\ \A e \in Evaluators \ {f} : ev'[e] = ev[e]
           /\ r.target \in Ids /\ models[r.target].status # "absent"
           /\ Fingerprint[models[r.target].rev] = fp
           /\ r.expected = ActiveIds(fp) /\ policy = ev[f].w
           /\ r.outcome \in Switching => Replaced(f) = ActiveIds(fp)
           /\ r.outcome \notin Switching => Replaced(f) = {}
           /\ r.outcome = "promote" => models[r.target].status = "candidate"
           /\ r.outcome = "rollback" => models[r.target].status = "retired"
           /\ r.outcome \in Switching <=> r.outcome \in {"promote", "rollback"}
<1> DEFINE r == ev[f].report
           fp == Fingerprint[ev[f].w]
<1>1. CompleteEvaluation(f) /\ Fenced(f) /\ Evidenced(f)
    BY Zenon DEF Applied
<1>2. ev[f].pc = "scored" /\ ev' = [ev EXCEPT ![f] = IdleWorker(@.mode)]
    BY <1>1, Zenon DEF CompleteEvaluation
<1>3. ev'[f].pc = "idle" /\ \A e \in Evaluators \ {f} : ev'[e] = ev[e]
    BY <1>2, TypeParts DEF IdleWorker
<1>4. ActiveIds(fp) = r.expected /\ r.target \in Rows(fp) /\ policy = ev[f].w
    BY <1>1, Zenon DEF Fenced, SamePolicy
<1>5. /\ r.target \in Ids /\ models[r.target].status # "absent"
      /\ Fingerprint[models[r.target].rev] = fp
    BY <1>4 DEF Rows
<1>6. /\ r.outcome = "promote" => models[r.target].status = "candidate"
      /\ r.outcome = "rollback" => models[r.target].status = "retired"
    BY <1>1, Zenon DEF Evidenced
<1>7. /\ r.outcome \in Switching => Replaced(f) = r.expected
      /\ r.outcome \notin Switching => Replaced(f) = {}
    BY Zenon DEF Replaced
<1>8. r.outcome \in Switching <=> r.outcome \in {"promote", "rollback"}
    BY DEF Switching
<1> HIDE DEF r, fp
<1>9. /\ ev[f].pc = "scored" /\ ev'[f].pc = "idle"
      /\ \A e \in Evaluators \ {f} : ev'[e] = ev[e]
      /\ r.target \in Ids /\ models[r.target].status # "absent"
      /\ Fingerprint[models[r.target].rev] = fp
      /\ r.expected = ActiveIds(fp) /\ policy = ev[f].w
      /\ r.outcome \in Switching => Replaced(f) = ActiveIds(fp)
      /\ r.outcome \notin Switching => Replaced(f) = {}
      /\ r.outcome = "promote" => models[r.target].status = "candidate"
      /\ r.outcome = "rollback" => models[r.target].status = "retired"
      /\ r.outcome \in Switching <=> r.outcome \in {"promote", "rollback"}
    BY <1>2, <1>3, <1>4, <1>5, <1>6, <1>7, <1>8
<1> QED BY <1>9 DEF r, fp

\* What is active for a source.
LEMMA ActiveRows ==
    \A fp : \A i : i \in ActiveIds(fp) <=>
        /\ i \in Ids /\ models[i].status = "active"
        /\ Fingerprint[models[i].rev] = fp
BY DEF ActiveIds, WithStatus, Rows

\* Every step leaves a successor to each retired model.
LEMMA SuccessorsStep ==
    ASSUME TypeOK, IdsOnce, Successors, [Next]_vars
    PROVE  Successors'
<1>1. CASE models' = models
    BY <1>1 DEF Successors
<1>2. CASE models' = [i \in Ids |-> NoModel]
    BY <1>2 DEF Successors, NoModel
<1>3. ASSUME NEW n \in Ids, NEW t, NEW created, Insert(n, t, created),
             models[n].status = "absent"
      PROVE  Successors'
    <2>1. \A i \in Ids : models[i].status \in {"retired", "active"}
                            => models'[i] = models[i]
        BY <1>3, InsertedDates
    <2>2. \A i \in Ids : models'[i].status = "retired"
                            => models[i].status = "retired"
        BY <1>3, InsertedDates
    <2> QED BY <2>1, <2>2 DEF Successors
<1>4. ASSUME NEW f \in Evaluators, Applied(f), models' = Recorded(f)
      PROVE  Successors'
    <2> DEFINE r == ev[f].report
               fp == Fingerprint[ev[f].w]
    <2>1. SUFFICES ASSUME NEW i \in Ids, models'[i].status = "retired"
                   PROVE  \E a \in Ids :
                            /\ models'[a].status = "active"
                            /\ Fingerprint[models'[a].rev]
                                    = Fingerprint[models'[i].rev]
        BY DEF Successors
    <2>2. \A j \in Ids : models'[j].rev = models[j].rev
        BY <1>4, RecordedStatus
    <2>3. CASE r.outcome \notin Switching
        <3>1. \A j \in Ids : models'[j].status = models[j].status
            BY <1>4, <2>3, AppliedParts, RecordedStatus
        <3> QED BY <2>1, <2>2, <3>1 DEF Successors
    <2>4. CASE r.outcome \in Switching
        <3>1. /\ r.target \in Ids /\ models'[r.target].status = "active"
              /\ Fingerprint[models'[r.target].rev] = fp
            BY <1>4, <2>2, <2>4, AppliedParts, RecordedStatus
        <3>2. CASE Fingerprint[models[i].rev] = fp
            BY <2>2, <3>1, <3>2
        <3>3. CASE Fingerprint[models[i].rev] # fp
            <4>1. i # r.target /\ i \notin Replaced(f)
                BY <1>4, <2>4, <3>3, AppliedParts, ActiveRows
            <4>2. models[i].status = "retired"
                BY <1>4, <2>1, <4>1, RecordedStatus
            <4>3. PICK a \in Ids :
                    /\ models[a].status = "active"
                    /\ Fingerprint[models[a].rev] = Fingerprint[models[i].rev]
                BY <4>2 DEF Successors
            <4>4. a \notin Replaced(f)
                BY <1>4, <2>4, <3>3, <4>3, AppliedParts, ActiveRows
            <4>5. models'[a].status = "active"
                BY <1>4, <2>4, <4>3, <4>4, RecordedStatus
            <4> QED BY <2>2, <4>3, <4>5
        <3> QED BY <3>2, <3>3
    <2> QED BY <2>3, <2>4
<1> QED BY <1>1, <1>2, <1>3, <1>4, FreshTableSteps

\* A source that once had a champion has one until its models are deleted.
LEMMA AlwaysSuccessors == Spec => []Successors
<1>1. Init => Successors
    BY InitialRows, Zenon DEF Successors
<1>2. TypeOK /\ IdsOnce /\ Successors /\ [Next]_vars => Successors'
    BY SuccessorsStep
<1> QED BY <1>1, <1>2, TypeCorrect, IdsUsedOnce, PTL DEF Spec

\* What a report in flight knows of its target's predecessor.  A switch names
\* the champion it replaces.  A report on the champion carries the link that
\* was read: it is the link of the row unless the model was retired and has
\* come back since, which takes the minimum duration.
KnowsLink(e) ==
    LET r == ev[e].report  m == models[r.target]  fp == Fingerprint[ev[e].w]
    IN  /\ r.outcome \in Switching => r.expected \subseteq {r.prev}
        /\ (r.outcome \notin Switching /\ r.target \in r.expected) =>
             /\ m.status # "candidate"
             /\ m.status # "absent" => Fingerprint[m.rev] = fp
             /\ m.status = "active" => \/ m.prev = r.prev
                                       \/ m.activated - ev[e].at >= MinDuration
             /\ m.status = "retired" =>
                  \A a \in ActiveIds(fp) : models[a].activated >= ev[e].at

Links == \A e \in Evaluators : ev[e].pc = "scored" => KnowsLink(e)

\* The times of an applied evaluation: it ends before its deadline, and a
\* rollback shows a minimum duration of service of every active model.
LEMMA AppliedTimes ==
    ASSUME TypeOK, Dated, NEW f \in Evaluators, Applied(f)
    PROVE  /\ ev[f].at <= now /\ now - ev[f].at <= Deadline
           /\ ev[f].report.outcome = "rollback" =>
                \A a \in ActiveIds(Fingerprint[ev[f].w]) :
                    now - models[a].activated >= MinDuration
<1> DEFINE r == ev[f].report
<1>1. CompleteEvaluation(f) /\ Fenced(f) /\ Evidenced(f)
    BY Zenon DEF Applied
<1>2. now - ev[f].at <= Deadline
    BY <1>1, Zenon DEF Fenced, InTime
<1>3. ev[f].at <= now
    BY DEF Dated
<1>4. ASSUME r.outcome = "rollback", NEW a \in ActiveIds(Fingerprint[ev[f].w])
      PROVE  now - models[a].activated >= MinDuration
    <2>1. r.start >= models[a].activated
        BY <1>1, <1>4, Zenon DEF Evidenced
    <2>2. FreshEvaluationEvidence(r, ev[f].at, now)
        BY <1>1, <1>4, Zenon DEF Evidenced, Switching
    <2>3. r.end <= ev[f].at /\ r.end - r.start >= MinDuration
        BY <2>2 DEF FreshEvaluationEvidence
    <2>4. \A i \in Ids : models[i].activated \in Nat
        BY TypeParts, TimeAssumption DEF ModelType
    <2>5. models[a].activated \in Nat
        BY <2>4, ActiveRows
    <2>6. MinDuration \in Nat
        BY TimeAssumption
    <2> QED BY <1>3, <2>1, <2>3, <2>5, <2>6, ReportTimes
<1> QED BY <1>2, <1>3, <1>4

\* An applied report on an active model is no switch and repeats its link.
LEMMA ServingKeepsLink ==
    ASSUME TypeOK, Dated, Links, Deadline < MinDuration,
           NEW f \in Evaluators, Applied(f),
           models[ev[f].report.target].status = "active"
    PROVE  /\ ev[f].report.outcome \notin Switching
           /\ ev[f].report.prev = models[ev[f].report.target].prev
<1> DEFINE r == ev[f].report
           m == models[r.target]
<1>1. r.outcome \notin Switching
    BY AppliedParts
<1>2. r.target \in r.expected
    BY AppliedParts, ActiveRows
<1>3. KnowsLink(f)
    BY AppliedParts DEF Links
<1>4. m.prev = r.prev \/ m.activated - ev[f].at >= MinDuration
    BY <1>1, <1>2, <1>3 DEF KnowsLink
<1>5. m.activated <= now /\ m.activated \in Nat
    <2>1. \A i \in Ids : models[i].activated \in Nat /\ models[i].activated <= now
        BY TypeParts, TimeAssumption DEF ModelType, Dated
    <2> QED BY <2>1, AppliedParts
<1>6. MinDuration \in Nat /\ Deadline \in Nat
    BY TimeAssumption
<1> HIDE DEF r, m
<1>7. ~(m.activated - ev[f].at >= MinDuration)
    BY <1>5, <1>6, AppliedTimes, ReportTimes
<1> QED BY <1>1, <1>4, <1>7 DEF r, m

\* A new report knows the link it read.
LEMMA DraftKnowsLink ==
    ASSUME TypeOK, NEW e \in Evaluators, Evaluate(e), ev'[e].pc = "scored"
    PROVE  KnowsLink(e)'
<1> DEFINE r == ev'[e].report
           fp == Fingerprint[ev[e].w]
<1>1. models' = models /\ ev'[e].at = ev[e].at /\ ev'[e].w = ev[e].w
    BY Drafted, Zenon DEF Evaluate
<1>2. r.outcome \in Switching => r.expected \subseteq {r.prev}
    BY Drafted
<1>3. r.target \in r.expected =>
        /\ r.target \in ActiveIds(fp) /\ models[r.target].status = "active"
        /\ r.prev = models[r.target].prev
    BY DraftedRows
<1>4. r.target \in r.expected =>
        /\ models'[r.target].status = "active"
        /\ Fingerprint[models'[r.target].rev] = fp
        /\ models'[r.target].prev = r.prev
    BY <1>1, <1>3, ActiveRows
<1> QED BY <1>1, <1>2, <1>4 DEF KnowsLink

\* An applied evaluation leaves the reports in flight with what they know.
LEMMA RecordedKnowsLink ==
    ASSUME TypeOK, IdsOnce, Dated, Successors, Links, Deadline < MinDuration,
           NEW f \in Evaluators, Applied(f), models' = Recorded(f),
           NEW e \in Evaluators, ev[e].pc = "scored", ev'[e] = ev[e]
    PROVE  KnowsLink(e)'
<1> DEFINE r == ev[e].report
           i == r.target
           fp == Fingerprint[ev[e].w]
           g == ev[f].report
           gp == Fingerprint[ev[f].w]
<1>1. KnowsLink(e) /\ i \in Ids
    BY DEF Links, IdsOnce
<1>2. SUFFICES ASSUME r.outcome \notin Switching, i \in r.expected
      PROVE  /\ models'[i].status # "candidate"
             /\ models'[i].status # "absent" => Fingerprint[models'[i].rev] = fp
             /\ models'[i].status = "active" =>
                    \/ models'[i].prev = r.prev
                    \/ models'[i].activated - ev[e].at >= MinDuration
             /\ models'[i].status = "retired" =>
                    \A a \in ActiveIds(fp)' : models'[a].activated >= ev[e].at
    BY <1>1 DEF KnowsLink
<1>3. /\ models[i].status # "candidate"
      /\ models[i].status # "absent" => Fingerprint[models[i].rev] = fp
      /\ models[i].status = "active" =>
            \/ models[i].prev = r.prev
            \/ models[i].activated - ev[e].at >= MinDuration
      /\ models[i].status = "retired" =>
            \A a \in ActiveIds(fp) : models[a].activated >= ev[e].at
    BY <1>1, <1>2 DEF KnowsLink
<1>4. \A j \in Ids :
        /\ models'[j].rev = models[j].rev
        /\ models'[j].status =
             IF j = g.target
             THEN IF g.outcome \in Switching THEN "active" ELSE models[j].status
             ELSE IF j \in Replaced(f) THEN "retired" ELSE models[j].status
        /\ models'[j].prev = IF j = g.target THEN g.prev ELSE models[j].prev
        /\ models'[j].activated = IF j = g.target /\ g.outcome \in Switching
                                  THEN now ELSE models[j].activated
    BY RecordedStatus, RecordedDates
<1>5. /\ g.target \in Ids /\ models[g.target].status # "absent"
      /\ Fingerprint[models[g.target].rev] = gp
      /\ g.outcome \in Switching => Replaced(f) = ActiveIds(gp)
      /\ g.outcome \notin Switching => Replaced(f) = {}
      /\ g.outcome = "promote" => models[g.target].status = "candidate"
      /\ g.outcome = "rollback" => models[g.target].status = "retired"
      /\ g.outcome \in Switching <=> g.outcome \in {"promote", "rollback"}
    BY AppliedParts
<1>6. /\ ev[e].at <= now /\ ev[e].at \in Nat /\ now \in Nat
      /\ MinDuration \in Nat
      /\ \A j \in Ids : models[j].activated \in Nat
    BY ReportTimes, TypeParts, TimeAssumption DEF Dated, ModelType
<1>7. \A a : a \in ActiveIds(fp)' <=>
        /\ a \in Ids /\ models'[a].status = "active"
        /\ Fingerprint[models'[a].rev] = fp
    BY DEF ActiveIds, WithStatus, Rows
<1> HIDE DEF r, i, fp, g, gp
<1>8. models'[i].status # "candidate"
    BY <1>1, <1>3, <1>4
<1>9. models'[i].status # "absent" => Fingerprint[models'[i].rev] = fp
    <2>1. models[i].status = "absent" => models'[i].status = "absent"
        <3>1. i \in ActiveIds(gp) => models[i].status = "active"
            BY ActiveRows
        <3> QED BY <1>1, <1>4, <1>5, <3>1
    <2> QED BY <1>1, <1>3, <1>4, <2>1
<1>10. ASSUME models'[i].status = "active"
       PROVE  \/ models'[i].prev = r.prev
              \/ models'[i].activated - ev[e].at >= MinDuration
    <2>1. CASE i # g.target
        <3>1. models[i].status = "active"
            BY <1>1, <1>4, <1>10, <2>1
        <3> QED BY <1>1, <1>3, <1>4, <2>1, <3>1
    <2>2. CASE i = g.target /\ g.outcome \notin Switching
        <3>1. models[i].status = "active"
            BY <1>1, <1>4, <1>10, <2>2
        <3>2. g.prev = models[i].prev
            BY <2>2, <3>1, ServingKeepsLink DEF g
        <3> QED BY <1>1, <1>3, <1>4, <2>2, <3>1, <3>2
    <2>3. CASE i = g.target /\ g.outcome \in Switching
        <3>1. g.outcome = "rollback" /\ models[i].status = "retired" /\ gp = fp
            BY <1>3, <1>5, <2>3
        <3>2. PICK a \in Ids : /\ models[a].status = "active"
                               /\ Fingerprint[models[a].rev] = fp
            BY <1>1, <1>3, <3>1 DEF Successors
        <3>3. a \in ActiveIds(fp)
            BY <3>2, ActiveRows
        <3>4. models[a].activated >= ev[e].at
            BY <1>3, <3>1, <3>3
        <3>5. now - models[a].activated >= MinDuration
            BY <3>1, <3>3, AppliedTimes DEF g, gp
        <3>6. now - ev[e].at >= MinDuration
            BY <1>6, <3>2, <3>4, <3>5
        <3> QED BY <1>1, <1>4, <2>3, <3>6
    <2> QED BY <2>1, <2>2, <2>3
<1>11. ASSUME models'[i].status = "retired", NEW a \in ActiveIds(fp)'
       PROVE  models'[a].activated >= ev[e].at
    <2>1. /\ a \in Ids /\ models'[a].status = "active"
          /\ Fingerprint[models[a].rev] = fp
        BY <1>4, <1>7
    <2>2. CASE a = g.target /\ g.outcome \in Switching
        BY <1>4, <1>6, <2>1, <2>2
    <2>3. CASE ~(a = g.target /\ g.outcome \in Switching)
        <3>1. models[a].status = "active" /\ models'[a].activated = models[a].activated
            BY <1>4, <2>1, <2>3
        <3>2. a \in ActiveIds(fp)
            BY <2>1, <3>1, ActiveRows
        <3>3. CASE models[i].status = "retired"
            BY <1>3, <3>1, <3>2, <3>3
        <3>4. CASE models[i].status # "retired"
            <4>1. i \in Replaced(f) /\ i # g.target
                BY <1>1, <1>4, <1>11, <3>4
            <4>2. g.outcome \in Switching /\ Replaced(f) = ActiveIds(gp)
                BY <1>5, <4>1
            <4>3. models[i].status = "active" /\ Fingerprint[models[i].rev] = gp
                BY <4>1, <4>2, ActiveRows
            <4>4. a \in Replaced(f) /\ a # g.target
                BY <1>3, <2>3, <3>2, <4>2, <4>3
            <4> QED BY <1>4, <2>1, <4>4
        <3> QED BY <3>3, <3>4
    <2> QED BY <2>2, <2>3
<1> QED BY <1>8, <1>9, <1>10, <1>11

\* Every step keeps what the reports in flight know.
LEMMA LinksStep ==
    ASSUME TypeOK, IdsOnce, Dated, Successors, Links, Deadline < MinDuration,
           [Next]_vars
    PROVE  Links'
<1> SUFFICES ASSUME NEW e \in Evaluators, ev'[e].pc = "scored"
             PROVE  KnowsLink(e)'
    BY DEF Links
<1>1. CASE Evaluate(e)
    BY <1>1, DraftKnowsLink
<1>2. CASE ev'[e] = ev[e]
    <2> DEFINE r == ev[e].report
               fp == Fingerprint[ev[e].w]
    <2>1. KnowsLink(e) /\ r.target \in Ids
        BY <1>2 DEF Links, IdsOnce
    <2>2. CASE models' = models
        BY <1>2, <2>1, <2>2 DEF KnowsLink, ActiveIds, WithStatus, Rows
    <2>3. CASE models' = [i \in Ids |-> NoModel]
        <3>1. models'[r.target].status = "absent"
            BY <2>1, <2>3 DEF NoModel
        <3> QED BY <1>2, <2>1, <3>1 DEF KnowsLink
    <2>4. ASSUME NEW n \in Ids, NEW t, NEW created, Insert(n, t, created),
                 r.target # n
          PROVE  KnowsLink(e)'
        <3>1. models'[r.target] = models[r.target]
            BY <2>1, <2>4, InsertedDates
        <3>2. \A a \in ActiveIds(fp)' : a \in ActiveIds(fp)
                                        /\ models'[a] = models[a]
            <4>1. \A a \in Ids : models'[a].status = "active"
                                    => models'[a] = models[a]
                BY <2>4, InsertedDates
            <4>2. \A a \in ActiveIds(fp)' :
                    /\ a \in Ids /\ models'[a].status = "active"
                    /\ Fingerprint[models'[a].rev] = fp
                BY <1>2 DEF ActiveIds, WithStatus, Rows
            <4> QED BY <4>1, <4>2, ActiveRows
        <3> QED BY <1>2, <2>1, <3>1, <3>2 DEF KnowsLink
    <2>5. ASSUME NEW f \in Evaluators, Applied(f), models' = Recorded(f)
          PROVE  KnowsLink(e)'
        BY <1>2, <2>5, RecordedKnowsLink
    <2> QED BY <1>2, <2>2, <2>3, <2>4, <2>5, FreshTableSteps
<1> QED BY <1>1, <1>2, ScoredSteps

\* A step keeps the recorded predecessor of a model that serves.
LEMMA LinkStep ==
    ASSUME TypeOK, IdsOnce, Dated, Links, Deadline < MinDuration, [Next]_vars
    PROVE  \A i \in Ids :
             /\ Activates(i) => \A a \in Ids : Retires(a) => models'[i].prev = a
             /\ models[i].status = "active" /\ models'[i].status = "active"
                    => models'[i].prev = models[i].prev
<1> SUFFICES ASSUME NEW i \in Ids
             PROVE  /\ Activates(i) => \A a \in Ids :
                                         Retires(a) => models'[i].prev = a
                    /\ models[i].status = "active" /\ models'[i].status = "active"
                           => models'[i].prev = models[i].prev
    OBVIOUS
<1>1. ASSUME Activates(i), NEW a \in Ids, Retires(a) PROVE models'[i].prev = a
    <2>1. PICK e \in Evaluators : /\ Applied(e) /\ models' = Recorded(e)
                                  /\ ev[e].report.target = i
                                  /\ ev[e].report.outcome \in Switching
                                  /\ a \in ev[e].report.expected
        BY <1>1, Activation
    <2>2. KnowsLink(e)
        BY <2>1, AppliedParts DEF Links
    <2>3. a = ev[e].report.prev
        BY <2>1, <2>2 DEF KnowsLink
    <2> QED BY <2>1, <2>3, RecordedStatus
<1>2. ASSUME models[i].status = "active", models'[i].status = "active"
      PROVE  models'[i].prev = models[i].prev
    <2>1. CASE models' = models
        BY <2>1
    <2>2. CASE models' = [j \in Ids |-> NoModel]
        BY <1>2, <2>2 DEF NoModel
    <2>3. ASSUME NEW n, NEW t, NEW created, Insert(n, t, created)
          PROVE  models'[i] = models[i]
        BY <1>2, <2>3, InsertedRow
    <2>4. ASSUME NEW f \in Evaluators, Applied(f), models' = Recorded(f)
          PROVE  models'[i].prev = models[i].prev
        <3>1. CASE i = ev[f].report.target
            BY <1>2, <2>4, <3>1, ServingKeepsLink, RecordedStatus
        <3>2. CASE i # ev[f].report.target
            BY <2>4, <3>2, RecordedStatus
        <3> QED BY <3>1, <3>2
    <2> QED BY <2>1, <2>2, <2>3, <2>4, TableSteps
<1> QED BY <1>1, <1>2

\* The predecessor recorded with a model that serves is the model it replaced,
\* and stays it, whatever stale report is applied later: where the minimum
\* duration of evidence is longer than an evaluation may take.
THEOREM FaithfulLinks ==
    ASSUME Deadline < MinDuration
    PROVE  Spec => LinkIsFaithful
<1>1. Init => Links
    BY InitialWorkers, Zenon DEF Links
<1>2. TypeOK /\ IdsOnce /\ Dated /\ Successors /\ Links /\ [Next]_vars => Links'
    BY LinksStep
<1>3. TypeOK /\ IdsOnce /\ Dated /\ Links /\ [Next]_vars
        => [\A i \in Ids :
              /\ Activates(i) => \A a \in Ids : Retires(a) => models'[i].prev = a
              /\ models[i].status = "active" /\ models'[i].status = "active"
                     => models'[i].prev = models[i].prev]_vars
    BY LinkStep
<1> QED BY <1>1, <1>2, <1>3, TypeCorrect, IdsUsedOnce, AlwaysDated,
        AlwaysSuccessors, PTL DEF Spec, LinkIsFaithful

-----------------------------------------------------------------------------
(* Turns. *)

\* While no session is lost, whoever evaluates holds the lock.
LockHeld == ~SessionsDrop =>
    \A e \in Evaluators : ev[e].pc \in {"locked", "scored"} => lock = e

\* A worker that holds the lock after a step held it before or has taken it.
LEMMA LockStep ==
    ASSUME TypeOK, LockHeld, [Next]_vars
    PROVE  LockHeld'
<1> SUFFICES ASSUME ~SessionsDrop, NEW e \in Evaluators,
                    ev'[e].pc \in {"locked", "scored"}
             PROVE  lock' = e
    BY DEF LockHeld
<1>0. \A f \in Evaluators : ev[f].pc \in {"locked", "scored"} => lock = f
    BY DEF LockHeld
<1>1. CASE UNCHANGED <<ev, lock>>
    BY <1>0, <1>1
<1>2. CASE Tick \/ DeactivateParent \/ UNCHANGED vars
    BY <1>1, <1>2 DEF Tick, DeactivateParent, vars
<1>3. ASSUME NEW p \in Policies, Reconcile(p) PROVE UNCHANGED <<ev, lock>>
    BY <1>3, Zenon DEF Reconcile
<1>4. ASSUME NEW t \in Trainers,
             \/ StartTraining(t) \/ RepairHistory(t)
             \/ CreateCandidate(t) \/ AbandonJob(t)
      PROVE  UNCHANGED <<ev, lock>>
    BY <1>4, Zenon DEF StartTraining, RepairHistory, CreateCandidate, AbandonJob
<1>5. ASSUME NEW f \in Evaluators, LoseSession(f) PROVE FALSE
    BY <1>5, Zenon DEF LoseSession
<1>6. ASSUME NEW f \in Evaluators, BeginEvaluation(f) PROVE lock' = e
    <2>1. ev[f] \in WorkerType
        BY TypeParts
    <2>2. lock' = lock /\ ev'[f].pc = "waiting"
          /\ \A g \in Evaluators \ {f} : ev'[g] = ev[g]
        BY <1>6, <2>1, TypeParts DEF BeginEvaluation, WorkerType
    <2> QED BY <1>0, <2>2
<1>7. ASSUME NEW f \in Evaluators, AcquireEvaluation(f) PROVE lock' = e
    <2>1. \A g \in Evaluators \ {f} : ev'[g] = ev[g]
        BY <1>7, TypeParts DEF AcquireEvaluation
    <2>2. CASE lock = NoOne /\ lock' = f
        <3>1. e = f
            BY <1>0, <2>1, <2>2, WorkerAssumption
        <3> QED BY <2>2, <3>1
    <2>3. CASE lock' = lock /\ ev' = [ev EXCEPT ![f] = IdleWorker(@.mode)]
        <3>1. ev'[f].pc = "idle"
            BY <2>3, TypeParts DEF IdleWorker
        <3> QED BY <1>0, <2>1, <2>3, <3>1
    <2> QED BY <1>7, <2>2, <2>3, Zenon DEF AcquireEvaluation
<1>8. ASSUME NEW f \in Evaluators, Evaluate(f) PROVE lock' = e
    <2>1. \A g \in Evaluators \ {f} : ev'[g] = ev[g]
        BY <1>8, TypeParts DEF Evaluate
    <2>2. ev[f].pc = "locked"
        BY <1>8, Zenon DEF Evaluate
    <2>3. CASE lock' = lock
        BY <1>0, <2>1, <2>2, <2>3
    <2>4. CASE ev' = [ev EXCEPT ![f] = IdleWorker(@.mode)] /\ Unlock(f)
        <3>1. ev'[f].pc = "idle"
            BY <2>4, TypeParts DEF IdleWorker
        <3> QED BY <1>0, <2>1, <2>4, <3>1 DEF Unlock
    <2> QED BY <1>8, <2>3, <2>4, EvaluateCases, Zenon
<1>9. ASSUME NEW f \in Evaluators, CompleteEvaluation(f) \/ Restart(f)
      PROVE  lock' = e
    <2>1. \A g \in Evaluators \ {f} : ev'[g] = ev[g]
        BY <1>9, TypeParts DEF CompleteEvaluation, Restart
    <2>2. ev'[f].pc = "idle" /\ Unlock(f)
        BY <1>9, TypeParts DEF CompleteEvaluation, Restart, IdleWorker
    <2> QED BY <1>0, <2>1, <2>2 DEF Unlock
<1> QED BY <1>1, <1>2, <1>3, <1>4, <1>5, <1>6, <1>7, <1>8, <1>9, Zenon
        DEF Next, Worker

\* A report in flight is about a candidate that was not ahead of the champion,
\* unless another one, without a lock, was recorded within its time.
HasTurn(e) == LET r == ev[e].report IN
    models[r.target].status = "candidate" =>
        \A a \in r.expected : models[a].status = "active" =>
            \/ models[r.target].at <= models[a].at
            \/ SessionsDrop /\ models[r.target].at >= ev[e].at

Turns == \A e \in Evaluators : ev[e].pc = "scored" => HasTurn(e)

\* Every step keeps the turns of the reports in flight.
LEMMA TurnsStep ==
    ASSUME TypeOK, IdsOnce, Dated, LockHeld, Turns,
           SessionsDrop => Deadline = 0, [Next]_vars
    PROVE  Turns'
<1> SUFFICES ASSUME NEW e \in Evaluators, ev'[e].pc = "scored"
             PROVE  HasTurn(e)'
    BY DEF Turns
<1>1. CASE Evaluate(e)
    <2>1. models' = models
        BY <1>1, Zenon DEF Evaluate
    <2> QED BY <1>1, <2>1, DraftedRows DEF HasTurn
<1>2. CASE ev'[e] = ev[e]
    <2> DEFINE r == ev[e].report
    <2>1. HasTurn(e) /\ r.target \in Ids
        BY <1>2 DEF Turns, IdsOnce
    <2>2. r.expected \subseteq Ids
        <3>1. ev[e].report \in ReportType
            BY WorkerTypes DEF WorkerType
        <3> QED BY <3>1 DEF ReportType
    <2>3. CASE models' = models
        BY <1>2, <2>1, <2>3 DEF HasTurn
    <2>4. CASE models' = [i \in Ids |-> NoModel]
        <3>1. models'[r.target].status = "absent"
            BY <2>1, <2>4 DEF NoModel
        <3> QED BY <1>2, <2>1, <3>1 DEF HasTurn
    <2>5. ASSUME NEW n \in Ids, NEW t, NEW created, Insert(n, t, created),
                 r.target # n
          PROVE  HasTurn(e)'
        <3>1. models'[r.target] = models[r.target]
            BY <2>1, <2>5, InsertedDates
        <3>2. \A a \in Ids : models'[a].status = "active"
                                => models'[a] = models[a]
            BY <2>5, InsertedDates
        <3> QED BY <1>2, <2>1, <2>2, <3>1, <3>2 DEF HasTurn
    <2>6. ASSUME NEW f \in Evaluators, Applied(f), models' = Recorded(f)
          PROVE  HasTurn(e)'
        <3> DEFINE g == ev[f].report
        <3>1. f # e /\ ev[f].pc = "scored"
            BY <1>2, <2>6, AppliedParts
        <3>2. SessionsDrop /\ Deadline = 0
            BY <1>2, <3>1 DEF LockHeld
        <3>3. ev[f].at = now /\ ev[e].at <= now
            BY <2>6, <3>2, AppliedTimes, ReportTimes DEF Dated
        <3>4. \A j \in Ids :
                /\ models'[j].status =
                     IF j = g.target
                     THEN IF g.outcome \in Switching THEN "active"
                          ELSE models[j].status
                     ELSE IF j \in Replaced(f) THEN "retired"
                          ELSE models[j].status
                /\ models'[j].at = IF j = g.target THEN now ELSE models[j].at
            BY <2>6, <3>3, RecordedStatus, RecordedDates
        <3>5. SUFFICES ASSUME models'[r.target].status = "candidate",
                              NEW a \in r.expected,
                              models'[a].status = "active"
              PROVE  \/ models'[r.target].at <= models'[a].at
                     \/ SessionsDrop /\ models'[r.target].at >= ev[e].at
            BY <1>2 DEF HasTurn
        <3>6. \A j \in Ids : models[j].at \in Nat /\ models[j].at <= now
            BY TypeParts, TimeAssumption DEF ModelType, Dated
        <3>7. CASE r.target = g.target
            BY <2>1, <3>2, <3>3, <3>4, <3>7, ReportTimes
        <3>8. CASE r.target # g.target /\ a = g.target
            BY <2>1, <2>2, <3>3, <3>4, <3>6, <3>8, ReportTimes
        <3>9. CASE r.target # g.target /\ a # g.target
            BY <2>1, <2>2, <3>4, <3>5, <3>9 DEF HasTurn
        <3> QED BY <3>7, <3>8, <3>9
    <2> QED BY <1>2, <2>3, <2>4, <2>5, <2>6, FreshTableSteps
<1> QED BY <1>1, <1>2, ScoredSteps

\* A step that reports on a candidate finds it behind the champion.
LEMMA TakesTurnsStep ==
    ASSUME TypeOK, IdsOnce, Dated, Turns, SessionsDrop => Deadline = 0,
           [Next]_vars
    PROVE  \A i, a \in Ids :
             /\ models[i].status = "candidate" /\ Reported(i)
             /\ models[a].status = "active"
             /\ Fingerprint[models[a].rev] = Fingerprint[models[i].rev]
             => models[i].at <= models[a].at
<1> SUFFICES ASSUME NEW i \in Ids, NEW a \in Ids,
                    models[i].status = "candidate", Reported(i),
                    models[a].status = "active",
                    Fingerprint[models[a].rev] = Fingerprint[models[i].rev]
             PROVE  models[i].at <= models[a].at
    OBVIOUS
<1>1. models' # models
    BY DEF Reported
<1>2. models' # [j \in Ids |-> NoModel]
    <2>1. NoModel.status = "absent"
        BY DEF NoModel
    <2> QED BY <2>1 DEF Reported
<1>3. ASSUME NEW n \in Ids, NEW t, NEW created, Insert(n, t, created),
             models[n].status = "absent"
      PROVE  FALSE
    BY <1>3, InsertedDates DEF Reported
<1>4. PICK e \in Evaluators : Applied(e) /\ models' = Recorded(e)
    BY <1>1, <1>2, <1>3, FreshTableSteps
<1> DEFINE r == ev[e].report
<1>5. i = r.target /\ models'[i].at = ev[e].at
    BY <1>4, RecordedDates DEF Reported
<1>6. a \in r.expected /\ HasTurn(e)
    BY <1>4, <1>5, AppliedParts, ActiveRows DEF Turns
<1>7. models[i].at \in Nat /\ models[i].at <= now /\ models[i].at # ev[e].at
    <2>1. models[i] \in ModelType
        BY TypeParts
    <2>2. models[i].at \in Nat
        BY <2>1, TimeAssumption DEF ModelType
    <2>3. models[i].at <= now
        BY DEF Dated
    <2>4. models[i].at # ev[e].at
        BY <1>5 DEF Reported
    <2> QED BY <2>2, <2>3, <2>4
<1>8. SessionsDrop => ev[e].at = now
    BY <1>4, AppliedTimes, ReportTimes
<1> QED BY <1>5, <1>6, <1>7, <1>8, ReportTimes DEF HasTurn

\* Candidate and champion take turns, while sessions are kept; and where they
\* may be lost, for evaluations that end within a tick of the clock.
THEOREM TurnsTaken ==
    ASSUME SessionsDrop => Deadline = 0
    PROVE  Spec => TakesTurns
<1>1. Init => LockHeld /\ Turns
    BY InitialWorkers, Zenon DEF LockHeld, Turns
<1>2. TypeOK /\ LockHeld /\ [Next]_vars => LockHeld'
    BY LockStep
<1>3. TypeOK /\ IdsOnce /\ Dated /\ LockHeld /\ Turns /\ [Next]_vars => Turns'
    BY TurnsStep
<1>4. TypeOK /\ IdsOnce /\ Dated /\ Turns /\ [Next]_vars
        => [\A i, a \in Ids :
              /\ models[i].status = "candidate" /\ Reported(i)
              /\ models[a].status = "active"
              /\ Fingerprint[models[a].rev] = Fingerprint[models[i].rev]
              => models[i].at <= models[a].at]_vars
    BY TakesTurnsStep
<1> QED BY <1>1, <1>2, <1>3, <1>4, TypeCorrect, IdsUsedOnce, AlwaysDated,
        PTL DEF Spec, TakesTurns

\* A step that reports on the champion, or rolls it back, dates the model that
\* serves then with the time of the clock.
LEMMA HandsOverStep ==
    ASSUME TypeOK, IdsOnce, Dated, OneActive', Deadline = 0, [Next]_vars
    PROVE  \A e \in Evaluators : LET t == ev[e].report.target IN
        (/\ ev[e].pc = "scored" /\ ev'[e].pc = "idle" /\ models' # models
         /\ models[t].status # "candidate" /\ models'[t].status = "active") =>
            \A c, a \in Ids :
                (/\ c \in Pending(Fingerprint[policy])
                 /\ models'[c].status = "candidate"
                 /\ models'[a].status = "active"
                 /\ Fingerprint[models'[a].rev] = Fingerprint[policy])
                    => models'[c].at <= models'[a].at
<1> SUFFICES ASSUME NEW e \in Evaluators,
                    ev[e].pc = "scored", ev'[e].pc = "idle", models' # models,
                    models[ev[e].report.target].status # "candidate",
                    models'[ev[e].report.target].status = "active",
                    NEW c \in Ids, NEW a \in Ids,
                    models'[c].status = "candidate",
                    models'[a].status = "active",
                    Fingerprint[models'[a].rev] = Fingerprint[policy]
             PROVE  models'[c].at <= models'[a].at
    BY Zenon
<1> DEFINE t == ev[e].report.target
<1>0. t \in Ids
    BY DEF IdsOnce
<1>1. models' # [i \in Ids |-> NoModel]
    <2>1. NoModel.status = "absent"
        BY DEF NoModel
    <2> QED BY <1>0, <2>1
<1>2. PICK f \in Evaluators : Applied(f) /\ models' = Recorded(f)
    BY <1>1, FreshTableSteps
<1>3. f = e
    BY <1>2, AppliedParts
<1>4. /\ t \in Ids /\ models'[t].rev = models[t].rev
      /\ Fingerprint[models[t].rev] = Fingerprint[policy]
    BY <1>2, <1>3, AppliedParts, RecordedStatus
<1>5. a = t
    BY <1>4 DEF OneActive
<1>6. models'[a].at = ev[e].at /\ ev[e].at = now
    BY <1>2, <1>3, <1>5, AppliedTimes, ReportTimes, RecordedDates
<1>7. models'[c].at = models[c].at /\ models[c].at <= now
    <2>1. models'[c].status # models'[t].status
        BY <1>5
    <2>2. c # t
        BY <2>1
    <2> QED BY <1>2, <1>3, <2>2, RecordedDates DEF Dated
<1> QED BY <1>6, <1>7

\* A report on the champion, or its rollback, gives the next turn to the
\* candidates, for evaluations that end within a tick of the clock.
THEOREM TurnsHandedOver ==
    ASSUME Deadline = 0
    PROVE  Spec => HandsOver
<1>1. TypeOK /\ IdsOnce /\ Dated /\ OneActive' /\ [Next]_vars
        => [\A e \in Evaluators : LET t == ev[e].report.target IN
             (/\ ev[e].pc = "scored" /\ ev'[e].pc = "idle" /\ models' # models
              /\ models[t].status # "candidate" /\ models'[t].status = "active") =>
                \A c, a \in Ids :
                  (/\ c \in Pending(Fingerprint[policy])
                   /\ models'[c].status = "candidate"
                   /\ models'[a].status = "active"
                   /\ Fingerprint[models'[a].rev] = Fingerprint[policy])
                      => models'[c].at <= models'[a].at]_vars
    BY HandsOverStep
<1> QED BY <1>1, TypeCorrect, IdsUsedOnce, AlwaysDated, OneActiveModel,
        PTL DEF Spec, HandsOver
=============================================================================
