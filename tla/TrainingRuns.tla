---------------------------- MODULE TrainingRuns ----------------------------
(***************************************************************************)
(* Training runs, from the claim of a slot to the trainer that ends them:  *)
(* the schedulers' polling loop, the table training_runs, the Kubernetes   *)
(* Jobs named after the runs, the two trainer images and the removal of    *)
(* finished Jobs.                                                          *)
(*                                                                         *)
(* A run is keyed by its workload and its slot: the number of a schedule   *)
(* interval, or the policy revision of an immediate request (immediateSlot *)
(* hashes the revision into a century of reserved slots; collisions are    *)
(* left out).  Each SQL statement is one step, but a transaction that     *)
(* nothing can come between is one step too.                               *)
(***************************************************************************)
EXTENDS Integers, Sequences

CONSTANTS
    Order,        \* the workloads, in the order the schedulers list them
    Policies,     \* policy revisions
    Inactive,     \* in place of the revision of a deactivated workload
    Immediate,    \* revisions with immediateTraining: "true"
    Clearing,     \* revisions with clearOldModels: "true"
    PyTorch,      \* revisions whose Jobs use the PyTorch image
    Rejected,     \* workloads whose Jobs the API server refuses
    Schedulers,   \* scheduler processes
    Faults,       \* kinds of disturbance: see Disturb
    Removal,      \* finished Jobs are removed (TTL, cleaner)
    Offset,       \* [workloads -> delay within the schedule interval]
    Interval,     \* REPLICASENSE_TRAINING_INTERVAL
    Poll,         \* REPLICASENSE_TRAINING_POLL_INTERVAL
    MaxTime, MaxFaults, MaxEdits   \* bounds: clock, disturbances, edits

Workloads == {Order[i] : i \in 1 .. Len(Order)}

ASSUME RunAssumption ==
    /\ Len(Order) \in Nat \ {0}
    /\ Immediate \subseteq Policies /\ Clearing \subseteq Policies
    /\ PyTorch \subseteq Policies
    /\ Inactive \notin Policies
    /\ Policies \cap Nat = {}
    /\ Rejected \subseteq Workloads
    /\ Faults \subseteq {"crash", "kill", "api"}
    /\ Removal \in BOOLEAN

ASSUME ScheduleAssumption ==
    /\ Interval \in Nat \ {0} /\ Poll \in Nat
    /\ Offset \in [Workloads -> 0 .. Interval - 1]
    /\ MaxTime \in Nat /\ MaxFaults \in Nat /\ MaxEdits \in Nat

SlotOf(t) == t \div Interval
Slots == 0 .. SlotOf(MaxTime)
Keys  == Slots \cup Policies

VARIABLES
    now,      \* the clock
    policy,   \* workloads.policy_revision, or Inactive
    reset,    \* the open transaction of a reset: the revision, and whether it has the row
    runs,     \* training_runs: status and creation time, by workload and slot
    jobs,     \* Kubernetes Jobs and their trainers, by the run they are named after
    sched,    \* scheduler processes
    faults, edits   \* disturbances and edits so far

vars == <<now, policy, reset, runs, jobs, sched, faults, edits>>

NoReset == [to |-> Inactive, pc |-> "none"]
NoRun == [status |-> "absent", created |-> 0]
NoJob == [pc |-> "absent", rev |-> Inactive, made |-> 0, published |-> 0,
          cleared |-> FALSE]
Asleep(t) == [pc |-> "asleep", at |-> t, list |-> [w \in Workloads |-> Inactive],
              pos |-> 1, key |-> 0]

RunType == [status : {"absent", "claimed", "running", "succeeded", "failed"},
            created : Nat]

\* "made" counts the Job objects created under one name, "published" the
\* candidates that trainers of the run inserted; a reset may have "cleared" one.
JobType == [pc : {"absent", "pending", "repairing", "fitting", "publishing",
                  "failing", "complete", "failed"},
            rev : Policies \cup {Inactive}, made : Nat, published : Nat,
            cleared : BOOLEAN]

ResetType == [to : Clearing, pc : {"wanted", "locked"}] \cup {NoReset}

\* "at" is the next poll of a sleeping scheduler and the time of the poll of
\* the others; "list" is what the poll listed.
SchedType == [pc : {"asleep", "immediate", "scheduled", "create", "mark"},
              at : Nat, list : [Workloads -> Policies \cup {Inactive}],
              pos : 1 .. Len(Order), key : Keys]

Init ==
    /\ now = 0
    /\ policy \in [Workloads -> Policies]
    /\ reset = [w \in Workloads |-> NoReset]
    /\ runs = [w \in Workloads |-> [k \in Keys |-> NoRun]]
    /\ jobs = [w \in Workloads |-> [k \in Keys |-> NoJob]]
    /\ sched = [s \in Schedulers |-> Asleep(0)]
    /\ faults = 0 /\ edits = 0

Tick ==
    /\ now < MaxTime
    /\ now' = now + 1
    /\ UNCHANGED <<policy, reset, runs, jobs, sched, faults, edits>>

\* The controller reconciles an edit, a deletion or a new ScaledObject, one at
\* a time.  A new revision with clearOldModels needs a longer transaction.
Edit(w) ==
    /\ edits < MaxEdits /\ edits' = edits + 1
    /\ \A v \in Workloads : reset[v] = NoReset
    /\ \E p \in (Policies \cup {Inactive}) \ {policy[w]} :
          IF p \in Clearing
          THEN /\ reset' = [reset EXCEPT ![w] = [to |-> p, pc |-> "wanted"]]
               /\ UNCHANGED policy
          ELSE policy' = [policy EXCEPT ![w] = p] /\ UNCHANGED reset
    /\ UNCHANGED <<now, runs, jobs, sched, faults>>

\* A disturbance of a given kind takes one of the bounded number.
Disturb(kind) == /\ kind \in Faults /\ faults < MaxFaults
                 /\ faults' = faults + 1

SetStatus(w, k, status) == runs' = [runs EXCEPT ![w][k].status = status]
SetJob(w, k, pc) == jobs' = [jobs EXCEPT ![w][k].pc = pc]

-----------------------------------------------------------------------------
(* A reset: it locks the workload's row for update, detaches all runs of    *)
(* the workload from their models, deletes the models and commits.         *)

\* Nobody else gets the row, nor inserts anything that refers to it.
Locked(w) == reset[w].pc = "locked"

\* A PyTorch trainer that took the run holds its row until it commits.
RowHeld(w, k) == /\ jobs[w][k].rev \in PyTorch
                 /\ jobs[w][k].pc \in {"repairing", "fitting"}
                 /\ runs[w][k].status = "claimed"

LockRow(w) ==
    /\ reset[w].pc = "wanted"
    /\ reset' = [reset EXCEPT ![w].pc = "locked"]
    /\ UNCHANGED <<now, policy, runs, jobs, sched, faults, edits>>

\* A trainer whose candidate is deleted before it reports cannot report it.
Cleared(job) ==
    [job EXCEPT !.cleared = @ \/ job.published > 0,
                !.pc = IF @ = "publishing" THEN "failing" ELSE @]

Applied(w) ==
    /\ policy' = [policy EXCEPT ![w] = reset[w].to]
    /\ reset' = [reset EXCEPT ![w] = NoReset]
    /\ jobs' = [jobs EXCEPT ![w] = [k \in Keys |-> Cleared(@[k])]]

\* Faulty variant: the runs are not detached, so that the reset waits for none.
CommitAtOnce(w) ==
    /\ Locked(w)
    /\ Applied(w)
    /\ UNCHANGED <<now, runs, sched, faults, edits>>

\* Detaching waits for the runs that trainers hold.
CommitReset(w) ==
    /\ Locked(w) /\ \A k \in Keys : ~RowHeld(w, k)
    /\ Applied(w)
    /\ UNCHANGED <<now, runs, sched, faults, edits>>

\* A trainer that publishes needs the workload's row: PostgreSQL ends one of the
\* two transactions.  If it is the reset, the controller tries again; if it is
\* the trainer, CannotFit.
AbortReset(w) ==
    /\ Locked(w)
    /\ \E k \in Keys : RowHeld(w, k) /\ jobs[w][k].pc = "fitting"
    /\ reset' = [reset EXCEPT ![w].pc = "wanted"]
    /\ UNCHANGED <<now, policy, runs, jobs, sched, faults, edits>>

-----------------------------------------------------------------------------
(* A scheduler: RunOnce, one statement or API call at a time.              *)

Current(s) == Order[sched[s].pos]

\* On to the next workload of the list, or back to sleep.
NextWorkload(s) ==
    sched' = [sched EXCEPT ![s] =
                IF @.pos < Len(Order)
                THEN [sched[s] EXCEPT !.pos = @ + 1, !.pc = "immediate"]
                ELSE Asleep(now + Poll)]

StartPoll(s) ==
    /\ sched[s].pc = "asleep" /\ sched[s].at <= now
    /\ sched' = [sched EXCEPT ![s] = [Asleep(now) EXCEPT !.pc = "immediate",
                                                        !.list = policy]]
    /\ UNCHANGED <<now, policy, reset, runs, jobs, faults, edits>>

Claimed(w, k) ==
    runs' = [runs EXCEPT ![w][k] = [status |-> "claimed", created |-> now]]

\* Faulty variant: a claim is handed out once.
HandedOutOnce(w, k) == runs[w][k].status = "absent"

\* The revision's run is handed out again while it is claimed.
HandedOut(w, k) == runs[w][k].status \in {"absent", "claimed"}

\* INSERT, or SELECT what is still claimed.
ClaimImmediate(s) == LET w == Current(s)  k == sched[s].list[w] IN
    /\ sched[s].pc = "immediate"
    /\ \/ /\ k = Inactive
          /\ NextWorkload(s) /\ UNCHANGED runs
       \/ /\ k \in Immediate /\ HandedOut(w, k)
          /\ IF runs[w][k].status = "absent" THEN ~Locked(w) /\ Claimed(w, k)
             ELSE UNCHANGED runs
          /\ sched' = [sched EXCEPT ![s].pc = "create", ![s].key = k]
       \/ /\ k \in Policies
          /\ ~(k \in Immediate /\ HandedOut(w, k))
          /\ sched' = [sched EXCEPT ![s].pc = "scheduled"]
          /\ UNCHANGED runs
    /\ UNCHANGED <<now, policy, reset, jobs, faults, edits>>

\* Faulty variant: ExclusiveSince is left out of the claim.
AnyRunSince(w, t) == TRUE

\* No run of the workload was created since the slot began.
NoneSince(w, t) == \A k \in Keys :
    runs[w][k].status # "absent" => runs[w][k].created < t

ClaimScheduled(s) ==
    LET w    == Current(s)
        slot == SlotOf(sched[s].at)
        due  == sched[s].at >= slot * Interval + Offset[w]
        free == /\ NoneSince(w, slot * Interval)
                /\ runs[w][slot].status = "absent"
    IN  /\ sched[s].pc = "scheduled"
        /\ \/ /\ due /\ free /\ ~Locked(w)
              /\ Claimed(w, slot)
              /\ sched' = [sched EXCEPT ![s].pc = "create", ![s].key = slot]
           \/ /\ ~(due /\ free)
              /\ NextWorkload(s) /\ UNCHANGED runs
        /\ UNCHANGED <<now, policy, reset, jobs, faults, edits>>

\* Faulty variant: the name of a Job is not that of its run, so that a
\* finished Job does not stand in the way of another.
AddAnyJob(w, k, rev) ==
    IF jobs[w][k].pc \in {"absent", "complete", "failed"}
    THEN jobs' = [jobs EXCEPT ![w][k].pc = "pending", ![w][k].rev = rev,
                              ![w][k].made = @ + 1]
    ELSE UNCHANGED jobs

\* A Job of that name that exists already is as good as a new one.
AddJob(w, k, rev) ==
    IF jobs[w][k].pc = "absent"
    THEN jobs' = [jobs EXCEPT ![w][k].pc = "pending", ![w][k].rev = rev,
                              ![w][k].made = @ + 1]
    ELSE UNCHANGED jobs

\* The immediate run done, the workload's schedule is next.
AfterCreate(s) ==
    IF sched[s].key \in Policies
    THEN sched' = [sched EXCEPT ![s].pc = "scheduled"]
    ELSE NextWorkload(s)

CreateJob(s) == LET w == Current(s)  k == sched[s].key IN
    /\ sched[s].pc = "create"
    /\ \/ /\ w \notin Rejected
          /\ AddJob(w, k, sched[s].list[w])
          /\ AfterCreate(s) /\ UNCHANGED faults
       \/ /\ w \in Rejected
          /\ sched' = [sched EXCEPT ![s].pc = "mark"]
          /\ UNCHANGED <<jobs, faults>>
       \/ /\ Disturb("api")        \* the call fails, or its answer is lost
          /\ AddJob(w, k, sched[s].list[w]) \/ UNCHANGED jobs
          /\ sched' = [sched EXCEPT ![s].pc = "mark"]
    /\ UNCHANGED <<now, policy, reset, runs, edits>>

MarkCreateFailed(w, k) == SetStatus(w, k, "failed")

\* Create failed: the run is marked and the poll ends with the error.
MarkFailed(s) == LET w == Current(s)  k == sched[s].key IN
    /\ sched[s].pc = "mark" /\ ~RowHeld(w, k)
    /\ MarkCreateFailed(w, k)
    /\ sched' = [sched EXCEPT ![s] = Asleep(now + Poll)]
    /\ UNCHANGED <<now, policy, reset, jobs, faults, edits>>

\* The process stops and starts again with a poll.
Crash(s) ==
    /\ sched[s].pc # "asleep" /\ Disturb("crash")
    /\ sched' = [sched EXCEPT ![s] = Asleep(now)]
    /\ UNCHANGED <<now, policy, reset, runs, jobs, edits>>

Scheduler(s) == \/ StartPoll(s) \/ ClaimImmediate(s) \/ ClaimScheduled(s)
                \/ CreateJob(s) \/ MarkFailed(s)

-----------------------------------------------------------------------------
(* The Job of a run.                                                       *)

\* The native trainer marks the run and compares revisions.  The PyTorch
\* trainer does so inside a transaction, which nobody sees.  The history may be
\* complete already.
StartTrainer(w, k) == LET job == jobs[w][k] IN
    /\ job.pc = "pending"
    /\ IF job.rev \notin PyTorch /\ runs[w][k].status = "claimed"
       THEN SetStatus(w, k, "running") ELSE UNCHANGED runs
    /\ IF policy[w] = job.rev
       THEN \E pc \in {"repairing", "fitting"} : SetJob(w, k, pc)
       ELSE SetJob(w, k, "failing")
    /\ UNCHANGED <<now, policy, reset, sched, faults, edits>>

\* The missing rows are inserted, in a transaction that shares the workload's
\* row and compares the revision.  It is the trainer's own; of the PyTorch
\* trainer it is that of a helper process.
RepairHistory(w, k) ==
    /\ jobs[w][k].pc = "repairing" /\ ~Locked(w)
    /\ SetJob(w, k, IF policy[w] = jobs[w][k].rev THEN "fitting" ELSE "failing")
    /\ UNCHANGED <<now, policy, reset, runs, sched, faults, edits>>

\* Faulty variant: the repair has no timeout.
FitFails(w, k) ==
    /\ jobs[w][k].pc = "fitting"
    /\ SetJob(w, k, "failing")
    /\ UNCHANGED <<now, policy, reset, runs, sched, faults, edits>>

\* The history cannot be repaired in time or is too short.
CannotFit(w, k) ==
    /\ jobs[w][k].pc \in {"repairing", "fitting"}
    /\ SetJob(w, k, "failing")
    /\ UNCHANGED <<now, policy, reset, runs, sched, faults, edits>>

\* The native trainer inserts the candidate and then reports.  The PyTorch
\* trainer commits both.  A candidate refers to its workload.
Publish(w, k) == LET native == jobs[w][k].rev \notin PyTorch IN
    /\ jobs[w][k].pc = "fitting" /\ ~Locked(w)
    /\ IF native THEN UNCHANGED runs ELSE SetStatus(w, k, "succeeded")
    /\ jobs' = [jobs EXCEPT ![w][k].published = @ + 1,
                            ![w][k].pc = IF native THEN "publishing"
                                         ELSE "complete"]
    /\ UNCHANGED <<now, policy, reset, sched, faults, edits>>

\* The UPDATE leaves a run that is not running alone, without an error.
MarkSucceeded(w, k) ==
    /\ jobs[w][k].pc = "publishing"
    /\ IF runs[w][k].status = "running"
       THEN SetStatus(w, k, "succeeded") ELSE UNCHANGED runs
    /\ SetJob(w, k, "complete")
    /\ UNCHANGED <<now, policy, reset, sched, faults, edits>>

\* Both trainers mark the run whatever its status.
TrainerFails(w, k) ==
    /\ jobs[w][k].pc = "failing"
    /\ SetStatus(w, k, "failed")
    /\ SetJob(w, k, "failed")
    /\ UNCHANGED <<now, policy, reset, sched, faults, edits>>

Unfinished == {"pending", "repairing", "fitting", "publishing", "failing"}

\* The deadline, the node or the kernel ends the Job: it may not be retried
\* (backoffLimit 0), and nobody marks the run.
Kill(w, k) ==
    /\ jobs[w][k].pc \in Unfinished /\ Disturb("kill")
    /\ SetJob(w, k, "failed")
    /\ UNCHANGED <<now, policy, reset, runs, sched, edits>>

\* The cleaner deletes completed Jobs, the TTL controller also failed ones.
RemoveJob(w, k) ==
    /\ Removal /\ jobs[w][k].pc \in {"complete", "failed"}
    /\ jobs' = [jobs EXCEPT ![w][k].pc = "absent", ![w][k].rev = Inactive]
    /\ UNCHANGED <<now, policy, reset, runs, sched, faults, edits>>

Trainer(w, k) == \/ StartTrainer(w, k) \/ RepairHistory(w, k)
                 \/ CannotFit(w, k) \/ Publish(w, k)
                 \/ MarkSucceeded(w, k) \/ TrainerFails(w, k)

Next ==
    \/ Tick
    \/ \E w \in Workloads :
            Edit(w) \/ LockRow(w) \/ CommitReset(w) \/ AbortReset(w)
    \/ \E s \in Schedulers : Scheduler(s) \/ Crash(s)
    \/ \E w \in Workloads, k \in Keys :
            Trainer(w, k) \/ Kill(w, k) \/ RemoveJob(w, k)

Spec == Init /\ [][Next]_vars

\* The schedulers' loops and the clock go on, a reset gets the locks it waits
\* for, and Jobs end (they have a deadline and a failure is always possible);
\* edits and faults need not occur.
FairSpec ==
    /\ Spec
    /\ WF_vars(Tick)
    /\ \A s \in Schedulers : WF_vars(Scheduler(s))
    /\ WF_vars(\E w \in Workloads : LockRow(w) \/ CommitReset(w))
    /\ WF_vars(\E w \in Workloads, k \in Keys : Trainer(w, k))

-----------------------------------------------------------------------------
(* Properties. *)

\* Every variable keeps its type.
TypeOK ==
    /\ now \in 0 .. MaxTime
    /\ policy \in [Workloads -> Policies \cup {Inactive}]
    /\ reset \in [Workloads -> ResetType]
    /\ runs \in [Workloads -> [Keys -> RunType]]
    /\ jobs \in [Workloads -> [Keys -> JobType]]
    /\ sched \in [Schedulers -> SchedType]
    /\ faults \in 0 .. MaxFaults /\ edits \in 0 .. MaxEdits

\* As long as the API server answers and keeps the Job objects, a run
\* publishes at most one candidate, however many schedulers hand out its claim;
\* one marked failed has published none, or a reset deleted it before it was
\* reported, and one marked succeeded has published one, whatever schedulers
\* crash and trainers are killed.
TruthfulRuns ==
    \A w \in Workloads, k \in Keys :
        /\ jobs[w][k].published <= 1
        /\ runs[w][k].status = "failed" => jobs[w][k].published = 0 \/ jobs[w][k].cleared
        /\ runs[w][k].status = "succeeded" => jobs[w][k].published = 1

\* A scheduled run follows no other run of its workload in the interval in
\* which it is created.
ScheduledRunsAreSpaced ==
    [][\A w \in Workloads, k \in Slots :
        (runs[w][k].status = "absent" /\ runs'[w][k].status = "claimed") =>
            \A j \in Keys : runs[w][j].status # "absent"
                                => SlotOf(runs[w][j].created) < SlotOf(now)]_vars

\* A PyTorch trainer that holds its run does not bring a model of a former
\* revision back after a reset: it publishes before, or not at all.
ResetIsFinal ==
    [][\A w \in Workloads, k \in Keys :
        (RowHeld(w, k) /\ jobs'[w][k].published > jobs[w][k].published
                       /\ policy[w] \in Clearing)
            => jobs[w][k].rev = policy[w]]_vars

\* A reset is applied in the end: the trainer that holds a run while its helper
\* waits for the workload's row, which the reset holds while it waits for the
\* run, is a circle that PostgreSQL does not see, and does not last.
ResetIsApplied ==
    \A w \in Workloads, p \in Clearing : reset[w].to = p ~> policy[w] = p

Requested(w, p) == policy[w] = p

\* An immediate request is answered as long as it stands: it gets its Job, or
\* a failed attempt is on record.  Neither a scheduler that stops between the
\* claim and the Job, nor a workload before it in the list whose Jobs the API
\* server refuses, leaves it waiting.
RequestIsAnswered ==
    \A w \in Workloads, p \in Immediate :
        Requested(w, p) ~> \/ jobs[w][p].made > 0
                           \/ runs[w][p].status = "failed"
                           \/ ~Requested(w, p)
=============================================================================
