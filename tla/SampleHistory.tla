---------------------------- MODULE SampleHistory ----------------------------
(***************************************************************************)
(* The stored observations of one workload and the three processes that    *)
(* fill them: the sampler's live rounds, its bootstrap and recovery range  *)
(* queries, and the repair that a trainer makes before it fits.  Forecasts *)
(* and trainers read what is stored (InferenceHistory).                    *)
(*                                                                         *)
(* Each database statement and each metric query is one step, except that  *)
(* the coverage read and the range query it starts are one: what the range *)
(* query returns does not depend on the table.  A row is identified by its *)
(* source fingerprint and its time; it tells which query produced it and   *)
(* by which path it came.                                                  *)
(***************************************************************************)
EXTENDS ArtifactComparison

CONSTANTS
    Policies,      \* policy revisions
    SourceOf,      \* [policies -> metric sources (fingerprints)]
    Inactive,      \* in place of the revision: the workload is deactivated, or no
                   \* workload is at hand
    NoRow,
    Jitter,        \* jitterFor(workload), in seconds
    Window,        \* forecast.trainingWindow
    RecoveryWindow,\* REPLICASENSE_SAMPLER_RECOVERY_WINDOW
    MaxSpan,       \* slots per repair query
    MaxPlan,       \* repair queries before they are coalesced
    Holes,         \* what the sources may lack, see "hole"
    MaxTime, MaxFaults, MaxEdits   \* bounds: clock, faults, edits

Sources == {SourceOf[p] : p \in Policies}
Times == 0 .. MaxTime

Row == [query : Sources, by : {"live", "range", "repair"}]

ASSUME SampleAssumption ==
    /\ Inactive \notin Policies
    /\ Jitter \in 0 .. Interval - 1
    /\ Window \in 1 .. MaxTime /\ Window % Interval = 0
    /\ RecoveryWindow \in 0 .. Window /\ MaxTime \in Nat
    /\ NoRow \notin Row
    /\ MaxSpan \in Nat \ {0} /\ MaxPlan \in Nat \ {0}
    /\ Holes \subseteq
            [none : SUBSET Times, nan : SUBSET Times, negative : SUBSET Times]
    /\ MaxFaults \in Nat /\ MaxEdits \in Nat
    /\ Level \in [Times -> Nat]

VARIABLES
    now,      \* the clock
    policy,   \* workloads.policy_revision, or Inactive
    rows,     \* samples, by source fingerprint and time
    sampler,  \* the sampler process and the round it is in
    job,      \* the trainer
    hole,     \* times without data, with no number, with a negative value
    faults, edits   \* failed calls and restarts, edits so far

vars == <<now, policy, rows, sampler, job, hole, faults, edits>>

\* "at" is the time of the round and "rev" the revision it listed.  "failed"
\* holds the failed queries since the last success; the code keeps a marker in
\* their place.  "gap" is what a successful query found there, "batch" a range.
SamplerType ==
    [pc : {"idle", "bootstrap", "fill", "sample", "recover", "refill", "save"},
     at : Times, rev : Policies \cup {Inactive}, bootstrapped : SUBSET Sources,
     failed : [Sources -> SUBSET Times], gap : SUBSET Times, batch : SUBSET Times]

Booted(t) ==
    [pc |-> "idle", at |-> t, rev |-> Inactive,
     bootstrapped |-> {}, failed |-> [f \in Sources |-> {}], gap |-> {}, batch |-> {}]

\* "todo" is what is left of the plan, "used" what the trainer fits.
JobType ==
    [pc : {"idle", "check", "query", "insert", "recheck", "load", "fitting"},
     rev : Policies \cup {Inactive}, end : Times, missing : SUBSET Times,
     todo : SUBSET (SUBSET Times), batch : SUBSET Times, used : SUBSET Times]

NoTraining ==
    [pc |-> "idle", rev |-> Inactive, end |-> 0,
     missing |-> {}, todo |-> {}, batch |-> {}, used |-> {}]

Init ==
    /\ now = Window
    /\ policy \in Policies
    /\ rows = [f \in Sources |-> [t \in Times |-> NoRow]]
    /\ sampler = Booted(0)
    /\ job = NoTraining
    /\ hole \in Holes
    /\ faults = 0 /\ edits = 0

Stored(f) == {t \in Times : rows[f][t] # NoRow}

Tick ==
    /\ now < MaxTime
    /\ now' = now + 1
    /\ UNCHANGED <<policy, rows, sampler, job, hole, faults, edits>>

\* The controller reconciles an edit, a deletion or a new ScaledObject.
Edit ==
    /\ edits < MaxEdits
    /\ \E p \in (Policies \cup {Inactive}) \ {policy} : policy' = p
    /\ edits' = edits + 1
    /\ UNCHANGED <<now, rows, sampler, job, hole, faults>>

Fault == /\ faults < MaxFaults
         /\ faults' = faults + 1

\* A range query returns the points from a on that the source has data for; one
\* value that is no finite number fails it.
Asked(a, b) == {t \in a .. b : (t - a) % Interval = 0}
RangeQuery(a, b) == Asked(a, b) \ hole.none
RangeFails(a, b) == RangeQuery(a, b) \cap hole.nan # {}

\* An instant query succeeds if there is one finite value.
InstantWorks(t) == t \notin hole.none \cup hole.nan

\* A cause of its own, or a fault.
FailsFor(cause) == \/ cause /\ UNCHANGED faults
                   \/ ~cause /\ Fault

-----------------------------------------------------------------------------
(* The sampler: RunOnce for one workload.                                  *)

Source == SourceOf[sampler.rev]

\* Faulty variant: the fingerprint is read again when the row is built.
LatestFingerprint == IF policy = Inactive THEN Source ELSE SourceOf[policy]

\* The fingerprint of BuildSample.
Fingerprint == Source

Upsert(times, by) ==
    rows' = [rows EXCEPT ![Fingerprint] =
                [t \in Times |-> IF t \in times THEN [query |-> Source, by |-> by]
                                                ELSE @[t]]]

Due(t) == t % Interval = Jitter
Then(pc) == sampler' = [sampler EXCEPT !.pc = pc, !.batch = {}]
EndRound == sampler' = [sampler EXCEPT !.pc = "idle", !.rev = Inactive,
                                       !.batch = {}, !.gap = {}]

\* Where a round goes once the history is there.
Sampling(t) == IF Due(t) THEN "sample" ELSE "idle"

\* At most one round starts in a tick; a round with nothing to do is left out.
StartRound ==
    /\ sampler.pc = "idle" /\ sampler.at < now
    /\ policy # Inactive
    /\ LET next == IF SourceOf[policy] \in sampler.bootstrapped
                   THEN Sampling(now) ELSE "bootstrap"
       IN  /\ next # "idle"
           /\ sampler' = [sampler EXCEPT !.pc = next, !.at = now, !.rev = policy]
    /\ UNCHANGED <<now, policy, rows, job, hole, faults, edits>>

\* hasSufficientHistory: nearly every slot is stored, and both ends are.
Sufficient(obs, start, end) ==
    /\ obs # {}
    /\ Cardinality(obs) >= Max({1, (end - start) \div Interval - 2})
    /\ Min(obs) <= start + Interval
    /\ Max(obs) >= end - 2 * Interval

Covered(start, end) == Stored(Source) \cap (start .. end)

BootstrapEnd == SlotOf(sampler.at)
BootstrapStart == BootstrapEnd - Window
HistoryIsThere ==
    Sufficient(Covered(BootstrapStart, BootstrapEnd), BootstrapStart, BootstrapEnd)

\* EnsureHistory: the coverage, then the whole window if it is too little.
Bootstrap ==
    /\ sampler.pc = "bootstrap"
    /\ HistoryIsThere \/ ~RangeFails(BootstrapStart, BootstrapEnd)
    /\ LET batch == RangeQuery(BootstrapStart, BootstrapEnd)
       IN  IF HistoryIsThere \/ batch = {}
           THEN sampler' = [sampler EXCEPT !.pc = Sampling(sampler.at),
                                           !.bootstrapped = @ \cup {Source}]
           ELSE sampler' = [sampler EXCEPT !.pc = "fill", !.batch = batch]
    /\ UNCHANGED <<now, policy, rows, job, hole, faults, edits>>

Fill ==
    /\ sampler.pc = "fill"
    /\ Upsert(sampler.batch, "range")
    /\ sampler' = [sampler EXCEPT !.pc = Sampling(sampler.at), !.batch = {},
                                  !.bootstrapped = @ \cup {Source}]
    /\ UNCHANGED <<now, policy, job, hole, faults, edits>>

\* Any of the bootstrap's calls fails: the round leaves the workload out.
BootstrapFails ==
    /\ sampler.pc \in {"bootstrap", "fill"}
    /\ FailsFor(/\ sampler.pc = "bootstrap" /\ ~HistoryIsThere
                /\ RangeFails(BootstrapStart, BootstrapEnd))
    /\ EndRound
    /\ UNCHANGED <<now, policy, rows, job, hole, edits>>

\* The instant query succeeds.  The marker of earlier failures is deleted
\* before their recovery starts.
Sample ==
    /\ sampler.pc = "sample" /\ InstantWorks(sampler.at)
    /\ LET gap == sampler.failed[Source]
       IN  sampler' = [sampler EXCEPT !.pc = IF gap = {} THEN "save" ELSE "recover",
                                      !.gap = gap, !.failed[Source] = {}]
    /\ UNCHANGED <<now, policy, rows, job, hole, faults, edits>>

SampleFails ==
    /\ sampler.pc = "sample"
    /\ FailsFor(~InstantWorks(sampler.at))
    /\ sampler' = [sampler EXCEPT !.pc = "idle", !.rev = Inactive,
                                  !.failed[Source] = @ \cup {sampler.at}]
    /\ UNCHANGED <<now, policy, rows, job, hole, edits>>

\* Faulty variant: recovery starts two slots after the last row.
SkipsOne(obs, start) == IF obs = {} THEN start ELSE Max(obs) + 2 * Interval

\* Recovery starts one slot after the last row of the recovery window.
RecoveryStart(obs, start) ==
    IF obs # {} /\ Max(obs) > start THEN Max(obs) + Interval ELSE start

RecoveryOpens == SlotOf(sampler.at) - RecoveryWindow
MissingFrom == RecoveryStart(Covered(RecoveryOpens, SlotOf(sampler.at)), RecoveryOpens)
RecoveryQueries == MissingFrom < SlotOf(sampler.at)

Recover ==
    /\ sampler.pc = "recover"
    /\ RecoveryQueries => ~RangeFails(MissingFrom, SlotOf(sampler.at))
    /\ LET batch == RangeQuery(MissingFrom, SlotOf(sampler.at))
       IN  IF RecoveryQueries /\ batch # {}
           THEN sampler' = [sampler EXCEPT !.pc = "refill", !.batch = batch]
           ELSE Then("save")
    /\ UNCHANGED <<now, policy, rows, job, hole, faults, edits>>

Refill ==
    /\ sampler.pc = "refill"
    /\ Upsert(sampler.batch, "range")
    /\ Then("save")
    /\ UNCHANGED <<now, policy, job, hole, faults, edits>>

\* Best effort: the live sample is stored without the gap.
RecoveryFails ==
    /\ sampler.pc \in {"recover", "refill"}
    /\ FailsFor(/\ sampler.pc = "recover" /\ RecoveryQueries
                /\ RangeFails(MissingFrom, SlotOf(sampler.at)))
    /\ sampler' = [sampler EXCEPT !.pc = "save", !.batch = {}, !.gap = {}]
    /\ UNCHANGED <<now, policy, rows, job, hole, edits>>

Save ==
    /\ sampler.pc = "save"
    /\ Upsert({sampler.at}, "live")
    /\ EndRound
    /\ UNCHANGED <<now, policy, job, hole, faults, edits>>

\* The batch of the round is lost; no marker asks for its recovery.
SaveFails ==
    /\ sampler.pc = "save"
    /\ Fault /\ EndRound
    /\ UNCHANGED <<now, policy, rows, job, hole, edits>>

\* bootstrapped and failed live in memory.
Restart ==
    /\ Fault
    /\ sampler' = Booted(now)
    /\ UNCHANGED <<now, policy, rows, job, hole, edits>>

-----------------------------------------------------------------------------
(* The trainer: Repair, then the samples it fits.                          *)

JobSource == SourceOf[job.rev]
ClosedSlots(end) == {t \in end - Window .. end - 1 : t = SlotOf(t)}

MissingSlots(f, end) ==
    {s \in ClosedSlots(end) : \A t \in Stored(f) : SlotOf(t) # s}

\* The first slot of the missing run of s.
FirstOf(missing, s) ==
    Min({a \in missing : /\ a <= s
                         /\ \A u \in a .. s : u = SlotOf(u) => u \in missing})

Piece(missing, s) == (s - FirstOf(missing, s)) \div (Interval * MaxSpan)

\* The missing runs, in pieces of at most MaxSpan slots.
MissingRuns(missing) ==
    {{u \in missing : /\ FirstOf(missing, u) = FirstOf(missing, s)
                      /\ Piece(missing, u) = Piece(missing, s)} : s \in missing}

\* A fragmented history: shards of MaxSpan slots, from the first to the last
\* missing slot of each.
Shards(missing, end) ==
    LET shard(s) == (s - (end - Window)) \div (Interval * MaxSpan)
        lost(s)  == {u \in missing : shard(u) = shard(s)}
    IN  {{u \in ClosedSlots(end) : Min(lost(s)) <= u /\ u <= Max(lost(s))}
            : s \in missing}

Plan(missing, end) ==
    IF Cardinality(MissingRuns(missing)) > MaxPlan THEN Shards(missing, end)
                                                   ELSE MissingRuns(missing)

JobTo(pc) == job' = [job EXCEPT !.pc = pc]
JobEnds == job' = NoTraining

StartTraining ==
    /\ job.pc \in {"idle", "fitting"}
    /\ policy # Inactive
    /\ job' = [NoTraining EXCEPT !.pc = "check", !.rev = policy, !.end = SlotOf(now)]
    /\ UNCHANGED <<now, policy, rows, sampler, hole, faults, edits>>

\* What a trainer reads; it refuses all of it for one negative value.
InWindow(end) == Stored(JobSource) \cap (end - Window .. end - 1)

NoNegative(times) == times \cap hole.negative = {}

CheckHistory ==
    /\ job.pc = "check"
    /\ LET missing == MissingSlots(JobSource, job.end)
       IN  IF ~NoNegative(InWindow(job.end)) THEN JobEnds
           ELSE IF missing = {} THEN JobTo("load")
           ELSE job' = [job EXCEPT !.pc = "query", !.missing = missing,
                                   !.todo = Plan(missing, job.end)]
    /\ UNCHANGED <<now, policy, rows, sampler, hole, faults, edits>>

\* On to the rest of the plan, or to the second read.
NextSpan(rest) ==
    IF rest # {} THEN [job EXCEPT !.pc = "query", !.todo = rest, !.batch = {}]
    ELSE [job EXCEPT !.pc = "recheck", !.todo = {}, !.batch = {}, !.missing = {}]

\* The earliest span of the plan is queried; known slots are left out.  A point
\* that is no number, or negative, ends the training.
QuerySpan ==
    /\ job.pc = "query"
    /\ LET span  == CHOOSE s \in job.todo : \A u \in job.todo : Min(s) <= Min(u)
           found == RangeQuery(Min(span), Max(span))
           batch == found \cap job.missing
           rest  == job.todo \ {span}
       IN  job' = IF found \cap (hole.nan \cup hole.negative) # {} THEN NoTraining
                  ELSE IF batch = {} THEN NextSpan(rest)
                  ELSE [job EXCEPT !.pc = "insert", !.todo = rest, !.batch = batch]
    /\ UNCHANGED <<now, policy, rows, sampler, hole, faults, edits>>

\* Faulty variant: a stored row gives way.
AnySlot(f, s) == TRUE

\* No row at s or later in its slot.
SlotIsFree(f, s) == \A t \in s .. s + Interval - 1 : t \in Times => rows[f][t] = NoRow

\* The row of the workload, read under a share lock.
Unchanged(rev) == policy = rev

\* One transaction: the check and the inserts, which never update a row.
InsertMissing ==
    /\ job.pc = "insert"
    /\ IF Unchanged(job.rev)
       THEN /\ rows' = [rows EXCEPT ![JobSource] = [t \in Times |->
                    IF t \in job.batch /\ SlotIsFree(JobSource, t)
                    THEN [query |-> JobSource, by |-> "repair"] ELSE @[t]]]
            /\ job' = NextSpan(job.todo)
       ELSE JobEnds /\ UNCHANGED rows
    /\ UNCHANGED <<now, policy, sampler, hole, faults, edits>>

\* Faulty variant: inserted spans are trusted.
TrustsInserts(end) == TRUE

Repaired(end) == MissingSlots(JobSource, end) = {}

\* The second read: training fails when a slot is still missing.
Recheck ==
    /\ job.pc = "recheck"
    /\ IF NoNegative(InWindow(job.end)) /\ Repaired(job.end)
       THEN JobTo("load") ELSE JobEnds
    /\ UNCHANGED <<now, policy, rows, sampler, hole, faults, edits>>

\* The samples of the window, in one read of their own.
Load ==
    /\ job.pc = "load"
    /\ LET seg == TrainingSegment(InWindow(job.end), hole.negative)
       IN  IF seg = {} \/ ~CanFit(seg) THEN JobEnds
           ELSE job' = [job EXCEPT !.pc = "fitting", !.used = seg]
    /\ UNCHANGED <<now, policy, rows, sampler, hole, faults, edits>>

\* A query fails twice, a statement fails or the trainer is killed.
TrainingFails ==
    /\ job.pc \notin {"idle", "fitting"}
    /\ Fault /\ JobEnds
    /\ UNCHANGED <<now, policy, rows, sampler, hole, edits>>

Next ==
    \/ Tick \/ Edit
    \/ StartRound \/ Bootstrap \/ Fill \/ BootstrapFails
    \/ Sample \/ SampleFails \/ Recover \/ Refill \/ RecoveryFails
    \/ Save \/ SaveFails \/ Restart
    \/ StartTraining \/ CheckHistory \/ QuerySpan \/ InsertMissing
    \/ Recheck \/ Load \/ TrainingFails

Spec == Init /\ [][Next]_vars

-----------------------------------------------------------------------------
(* Properties.                                                             *)

\* Every variable keeps its type: the processes store and repair moments of
\* the window, never later than the clock.
TypeOK ==
    /\ now \in Times
    /\ policy \in Policies \cup {Inactive}
    /\ rows \in [Sources -> [Times -> Row \cup {NoRow}]]
    /\ \A f \in Sources : \A t \in Stored(f) : t <= now
    /\ sampler \in SamplerType
    /\ job \in JobType
    /\ hole \in Holes
    /\ faults \in 0 .. MaxFaults /\ edits \in 0 .. MaxEdits

\* A trainer that repaired its history fits one observation of every closed
\* slot of the whole window: leading, interior and trailing gaps end the
\* training instead (Repair, TrainingSegment), whatever the sampler wrote and
\* whichever spans failed before.  None of these is a negative value, although
\* the sampler stores those.
TrainsOnCompleteHistory ==
    job.pc = "fitting" =>
        /\ {SlotOf(t) : t \in job.used} = ClosedSlots(job.end)
        /\ \A t, u \in job.used : SlotOf(t) = SlotOf(u) => t = u
        /\ job.used \cap hole.negative = {}

\* A trainer never adds to nor changes a slot that holds an observation, not
\* even one the sampler stored between its read and its insert
\* (InsertMissingSamples).
ObservationsAreKept ==
    [][\A f \in Sources : \A t \in Times :
            rows'[f][t] # rows[f][t] /\ rows'[f][t].by = "repair"
                => \A u \in Stored(f) : SlotOf(u) # SlotOf(t)]_vars

\* The rows of a fingerprint all come from its own query, although an edit may
\* replace the query while a round or a repair of the old one is under way.
RowsMatchSource ==
    \A f \in Sources : \A t \in Stored(f) : rows[f][t].query = f

\* Once a recovery has succeeded, no slot of the recovery window in which a
\* live query failed is missing, unless the source has no data there or the
\* window of a training has left it behind while the round lasted: a trainer may
\* then have stored later slots, after which a recovery would start
\* (RecoverRecentHistory: the marker of the failures is gone by then).
FailedSlotsAreRecovered ==
    sampler.pc = "save" =>
        \A t \in sampler.gap :
            \/ SlotOf(t) < SlotOf(sampler.at) - RecoveryWindow
            \/ SlotOf(t) < SlotOf(now) - Window
            \/ (SlotOf(t) .. SlotOf(t) + Interval - 1) \cap hole.none # {}
            \/ \E u \in Stored(Source) : SlotOf(u) = SlotOf(t)

\* What a forecast of the workload reads now.
ForecastRows == Stored(SourceOf[policy]) \cap (SlotOf(now) - Window .. SlotOf(now))

\* The input of a forecast has no gap and no negative value; its estimates lie
\* between two stored observations near enough, and its last two observations
\* are real ones of two slots, although live and range rows share slots
\* (PrepareInferenceHistory).  Without bridging it still reaches over no outage.
BridgesAreSound ==
    policy # Inactive =>
        LET obs   == ForecastRows
            p     == ForecastInput(obs, hole.negative, SlotOf(now), TRUE)
            input == p.real \cup p.estimated
            plain == ForecastInput(obs, hole.negative, SlotOf(now), FALSE)
        IN  /\ plain.ok => \A t \in plain.real :
                    t = Min(plain.real) \/ Gap(obs, t) <= 2 * Interval
            /\ p.ok =>
                /\ \A t \in input : ~HasGap(input, t)
                /\ p.real \cap hole.negative = {}
                /\ \A e \in p.estimated : \E a, b \in obs :
                        /\ a < e /\ e < b /\ 4 * (b - a) <= 4 * MaxGap + Interval
                        /\ \A u \in obs : a < u /\ u < b => SlotOf(u) = SlotOf(b)
                /\ p.estimated # {} =>
                        /\ Newest(input, 2) \subseteq obs
                        /\ Cardinality({SlotOf(t) : t \in Newest(input, 2)}) = 2

\* A surge is confirmed by observations of as many slots, in each of which
\* demand grew and none of which follows an outage; rows that share a slot
\* confirm it once (RealContiguousSuffix, detectSurge).
SurgeIsConfirmed ==
    policy # Inactive =>
        LET obs    == ForecastRows
            suffix == RealContiguousSuffix(obs)
            newest == Newest(suffix, Confirmation)
        IN  SurgeDetected(suffix, hole.negative) =>
            /\ Cardinality({SlotOf(t) : t \in newest}) = Confirmation
            /\ \A t \in newest :
                    LET before == {u \in obs : SlotOf(u) < SlotOf(t)}
                    IN  /\ ValueAt(t, hole.negative)
                                > ValueAt(Max(before), hole.negative)
                        /\ 2 * (t - Max(before)) < 5 * Interval
            /\ SurgeDemand(suffix, hole.negative)
                    > Level[Max(obs)] * Interval * MaxMultiplier[2]

\* The cutoff of the model that is fitted.
Cutoff == Max(FitSamples(job.used))

\* An evaluation of the fitted model against what has been stored since scores
\* it on whole horizons that do not overlap, on nothing it was fitted on, with
\* an input that ends before the horizon and misses no slot; the first and the
\* last of the horizons are among them, and as many as required
\* (CompareArtifacts).
EvidenceIsFair ==
    job.pc = "fitting" =>
        \A steps \in 1 .. 2, lookback \in {0, 2} :
            LET obs == Stored(JobSource)
                pts == LatestPerSlot(obs)
                c   == Compared(obs, hole.negative, {lookback}, steps, Cutoff)
                slots(t) == {SlotOf(u) : u \in Targets(pts, t, steps)}
            IN  c.ok =>
                /\ Cardinality(c.windows) \in MinWindows .. MaxWindows
                /\ c.start = Min(c.windows)
                /\ c.end = EndOf(pts, Max(c.windows), steps) /\ c.end <= now
                /\ c.peaks # {} /\ c.peaks \subseteq c.windows
                /\ \A t \in c.windows :
                    LET input == InputAt(pts, t, lookback, Window \div Interval)
                    IN  /\ slots(t) = {SlotOf(t) + k * Interval : k \in 1 .. steps}
                        /\ Targets(pts, t, steps) \cap FitSamples(job.used) = {}
                        /\ Max(input) = t /\ NoSlotMissing(input)
                        /\ lookback > 0 => Cardinality(input) = lookback
                        /\ obs \cap hole.negative = {}
                        /\ \A u \in c.windows \ {t} : slots(t) \cap slots(u) = {}
=============================================================================
