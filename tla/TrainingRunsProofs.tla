------------------------- MODULE TrainingRunsProofs -------------------------
(* Theorems about TrainingRuns.  The effects of a step on runs, jobs and     *)
(* schedulers are stated once, as lemmas; every invariant builds on them.    *)
EXTENDS TrainingRuns, TLAPS

Statuses == {"absent", "claimed", "running", "succeeded", "failed"}
JobPcs == {"absent", "pending", "repairing", "fitting", "publishing",
           "failing", "complete", "failed"}

RunsTyped == runs \in [Workloads -> [Keys -> RunType]]
JobsTyped == jobs \in [Workloads -> [Keys -> JobType]]
SchedTyped == sched \in [Schedulers -> SchedType]
ResetTyped == reset \in [Workloads -> ResetType]
PolicyTyped == policy \in [Workloads -> Policies \cup {Inactive}]

-----------------------------------------------------------------------------
(* Slots.                                                                    *)

LEMMA SlotIsNat == ASSUME NEW a \in Nat PROVE SlotOf(a) \in Nat
<1>1. ASSUME NEW i \in Nat \ {0} PROVE a \div i \in Nat
  OBVIOUS
<1> QED BY <1>1, ScheduleAssumption DEF SlotOf

LEMMA SlotIsMonotone ==
  ASSUME NEW a \in Nat, NEW b \in Nat, a <= b PROVE SlotOf(a) <= SlotOf(b)
<1>1. ASSUME NEW i \in Nat \ {0} PROVE a \div i <= b \div i
  OBVIOUS
<1> QED BY <1>1, ScheduleAssumption DEF SlotOf

LEMMA SlotBeforeStart ==
  ASSUME NEW a \in Nat, NEW s \in Nat, a < s * Interval PROVE SlotOf(a) < s
<1>1. ASSUME NEW i \in Nat \ {0}, a < s * i PROVE a \div i < s
  BY <1>1
<1> QED BY <1>1, ScheduleAssumption DEF SlotOf

LEMMA ReachableSlot ==
  ASSUME NEW t \in 0 .. MaxTime PROVE SlotOf(t) \in Slots
<1>1. t \in Nat /\ MaxTime \in Nat /\ t <= MaxTime
  BY ScheduleAssumption
<1>2. SlotOf(t) \in Nat /\ SlotOf(MaxTime) \in Nat /\ SlotOf(t) <= SlotOf(MaxTime)
  BY <1>1, SlotIsNat, SlotIsMonotone
<1> QED BY <1>2 DEF Slots

LEMMA ZeroIsKey == 0 \in Keys /\ 1 \in 1 .. Len(Order)
<1>1. SlotOf(MaxTime) \in Nat
  BY ScheduleAssumption, SlotIsNat
<1> QED BY <1>1, RunAssumption DEF Keys, Slots

\* A key is the number of a slot or a revision, never both.
LEMMA KeysApart == \A k \in Slots : k \notin Policies
<1>1. SlotOf(MaxTime) \in Nat
  BY ScheduleAssumption, SlotIsNat
<1> QED BY <1>1, RunAssumption DEF Slots

-----------------------------------------------------------------------------
(* The effects of the operators that steps are made of.                      *)

LEMMA StatusEffect ==
  ASSUME RunsTyped, NEW w \in Workloads, NEW k \in Keys, NEW st \in Statuses,
         SetStatus(w, k, st)
  PROVE  /\ RunsTyped'
         /\ runs'[w][k].status = st
         /\ \A v \in Workloads, j \in Keys : runs'[v][j].created = runs[v][j].created
         /\ \A v \in Workloads, j \in Keys :
                v # w \/ j # k => runs'[v][j] = runs[v][j]
<1>1. [runs[w][k] EXCEPT !.status = st] \in RunType
  BY DEF RunsTyped, RunType, Statuses
<1>2. runs' = [runs EXCEPT ![w] = [runs[w] EXCEPT ![k] = [runs[w][k] EXCEPT !.status = st]]]
  BY DEF SetStatus, RunsTyped
<1>3. [runs[w] EXCEPT ![k] = [runs[w][k] EXCEPT !.status = st]] \in [Keys -> RunType]
  BY <1>1 DEF RunsTyped
<1>4. RunsTyped'
  BY <1>2, <1>3 DEF RunsTyped
<1>5. runs'[w][k] = [runs[w][k] EXCEPT !.status = st]
  BY <1>2, <1>3 DEF RunsTyped
<1>6. \A v \in Workloads, j \in Keys : v # w \/ j # k => runs'[v][j] = runs[v][j]
  BY <1>2, <1>3 DEF RunsTyped
<1>7. runs'[w][k].status = st /\ runs'[w][k].created = runs[w][k].created
  BY <1>5 DEF RunsTyped, RunType
<1> QED BY <1>4, <1>6, <1>7

LEMMA ClaimEffect ==
  ASSUME RunsTyped, NEW w \in Workloads, NEW k \in Keys, now \in Nat, Claimed(w, k)
  PROVE  /\ RunsTyped'
         /\ runs'[w][k].status = "claimed"
         /\ \A v \in Workloads, j \in Keys :
                v # w \/ j # k => runs'[v][j] = runs[v][j]
<1> DEFINE r == [status |-> "claimed", created |-> now]
<1>1. r \in RunType
  BY DEF RunType
<1>2. runs' = [runs EXCEPT ![w] = [runs[w] EXCEPT ![k] = r]]
  BY DEF Claimed, RunsTyped
<1>3. [runs[w] EXCEPT ![k] = r] \in [Keys -> RunType]
  BY <1>1 DEF RunsTyped
<1>4. RunsTyped' /\ runs'[w][k] = r
  BY <1>2, <1>3 DEF RunsTyped
<1>5. \A v \in Workloads, j \in Keys : v # w \/ j # k => runs'[v][j] = runs[v][j]
  BY <1>2, <1>3 DEF RunsTyped
<1> QED BY <1>4, <1>5

\* Records like those of jobs, for any sets of values.
Records(S, T, B) == [pc : S, rev : T, made : Nat, published : Nat, cleared : B]

LEMMA JobTypeIs == JobType = Records(JobPcs, Policies \cup {Inactive}, BOOLEAN)
  BY DEF JobType, JobPcs, Records

LEMMA JobFields ==
  ASSUME NEW job \in JobType
  PROVE  /\ job.pc \in JobPcs /\ job.rev \in Policies \cup {Inactive}
         /\ job.made \in Nat /\ job.published \in Nat /\ job.cleared \in BOOLEAN
<1>1. ASSUME NEW S, NEW T, NEW B, NEW r \in Records(S, T, B)
      PROVE  r.pc \in S /\ r.rev \in T /\ r.made \in Nat /\ r.published \in Nat /\ r.cleared \in B
  BY DEF Records
<1> QED BY <1>1, JobTypeIs

LEMMA JobWithPc ==
  ASSUME NEW job \in JobType, NEW pc \in JobPcs
  PROVE  [job EXCEPT !.pc = pc] \in JobType
<1>1. ASSUME NEW S, NEW T, NEW B, NEW r \in Records(S, T, B), NEW q \in S
      PROVE  [r EXCEPT !.pc = q] \in Records(S, T, B)
  BY DEF Records
<1> QED BY <1>1, JobTypeIs

LEMMA JobAdded ==
  ASSUME NEW job \in JobType, NEW rev \in Policies \cup {Inactive}
  PROVE  [job EXCEPT !.pc = "pending", !.rev = rev, !.made = @ + 1] \in JobType
<1>1. ASSUME NEW S, NEW T, NEW B, NEW r \in Records(S, T, B), NEW q \in S, NEW v \in T,
             NEW n \in Nat
      PROVE  [r EXCEPT !.pc = q, !.rev = v, !.made = n] \in Records(S, T, B)
  BY DEF Records
<1>2. job.made + 1 \in Nat
  BY JobFields
<1> QED BY <1>1, <1>2, JobTypeIs DEF JobPcs

LEMMA JobRemoved ==
  ASSUME NEW job \in JobType
  PROVE  [job EXCEPT !.pc = "absent", !.rev = Inactive] \in JobType
<1>1. ASSUME NEW S, NEW T, NEW B, NEW r \in Records(S, T, B), NEW q \in S, NEW v \in T
      PROVE  [r EXCEPT !.pc = q, !.rev = v] \in Records(S, T, B)
  BY DEF Records
<1> QED BY <1>1, JobTypeIs DEF JobPcs

LEMMA JobPublished ==
  ASSUME NEW job \in JobType, NEW pc \in JobPcs
  PROVE  [job EXCEPT !.published = @ + 1, !.pc = pc] \in JobType
<1>1. ASSUME NEW S, NEW T, NEW B, NEW r \in Records(S, T, B), NEW q \in S, NEW n \in Nat
      PROVE  [r EXCEPT !.published = n, !.pc = q] \in Records(S, T, B)
  BY DEF Records
<1>2. job.published + 1 \in Nat
  BY JobFields
<1> QED BY <1>1, <1>2, JobTypeIs

LEMMA JobCleared ==
  ASSUME NEW job \in JobType
  PROVE  /\ Cleared(job) \in JobType
         /\ Cleared(job).rev = job.rev /\ Cleared(job).published = job.published
         /\ Cleared(job).cleared = (job.cleared \/ job.published > 0)
         /\ Cleared(job).pc = IF job.pc = "publishing" THEN "failing" ELSE job.pc
<1> DEFINE pc == IF job.pc = "publishing" THEN "failing" ELSE job.pc
           b == job.cleared \/ job.published > 0
<1>1. ASSUME NEW S, NEW T, NEW B, NEW r \in Records(S, T, B), NEW q \in S, NEW c \in B
      PROVE  [r EXCEPT !.cleared = c, !.pc = q] \in Records(S, T, B)
  BY DEF Records
<1>2. pc \in JobPcs
  BY JobFields DEF JobPcs
<1>3. b \in BOOLEAN
  OBVIOUS
<1>4. Cleared(job) = [job EXCEPT !.cleared = b, !.pc = pc]
  BY DEF Cleared
<1> HIDE DEF b, pc
<1>5. [job EXCEPT !.cleared = b, !.pc = pc] \in JobType
  BY <1>1, <1>2, <1>3, JobTypeIs
<1>6. ASSUME NEW c, NEW q
      PROVE  /\ [job EXCEPT !.cleared = c, !.pc = q].rev = job.rev
             /\ [job EXCEPT !.cleared = c, !.pc = q].published = job.published
             /\ [job EXCEPT !.cleared = c, !.pc = q].cleared = c
             /\ [job EXCEPT !.cleared = c, !.pc = q].pc = q
  BY DEF JobType
<1>7. /\ Cleared(job) \in JobType
      /\ Cleared(job).rev = job.rev /\ Cleared(job).published = job.published
      /\ Cleared(job).cleared = b /\ Cleared(job).pc = pc
  BY <1>4, <1>5, <1>6
<1> QED BY <1>7 DEF b, pc

LEMMA JobPcEffect ==
  ASSUME JobsTyped, NEW w \in Workloads, NEW k \in Keys, NEW pc \in JobPcs,
         SetJob(w, k, pc)
  PROVE  /\ JobsTyped'
         /\ jobs'[w][k].pc = pc
         /\ \A v \in Workloads, j \in Keys :
                /\ jobs'[v][j].rev = jobs[v][j].rev
                /\ jobs'[v][j].published = jobs[v][j].published
                /\ jobs'[v][j].cleared = jobs[v][j].cleared
         /\ \A v \in Workloads, j \in Keys :
                v # w \/ j # k => jobs'[v][j] = jobs[v][j]
<1> DEFINE r == [jobs[w][k] EXCEPT !.pc = pc]
<1>1. r \in JobType
  BY JobWithPc DEF JobsTyped
<1>2. jobs' = [jobs EXCEPT ![w] = [jobs[w] EXCEPT ![k] = r]]
  BY DEF SetJob, JobsTyped
<1>3. [jobs[w] EXCEPT ![k] = r] \in [Keys -> JobType]
  BY <1>1 DEF JobsTyped
<1>4. JobsTyped' /\ jobs'[w][k] = r
  BY <1>2, <1>3 DEF JobsTyped
<1>5. \A v \in Workloads, j \in Keys : v # w \/ j # k => jobs'[v][j] = jobs[v][j]
  BY <1>2, <1>3 DEF JobsTyped
<1>6. /\ r.pc = pc /\ r.rev = jobs[w][k].rev
      /\ r.published = jobs[w][k].published /\ r.cleared = jobs[w][k].cleared
  BY DEF JobsTyped, JobType
<1> QED BY <1>4, <1>5, <1>6

LEMMA AddEffect ==
  ASSUME JobsTyped, NEW w \in Workloads, NEW k \in Keys,
         NEW rev \in Policies \cup {Inactive}, AddJob(w, k, rev)
  PROVE  /\ JobsTyped'
         /\ \/ jobs' = jobs
            \/ /\ jobs[w][k].pc = "absent"
               /\ jobs'[w][k].pc = "pending" /\ jobs'[w][k].rev = rev
         /\ \A v \in Workloads, j \in Keys :
                /\ jobs'[v][j].published = jobs[v][j].published
                /\ jobs'[v][j].cleared = jobs[v][j].cleared
         /\ \A v \in Workloads, j \in Keys :
                v # w \/ j # k => jobs'[v][j] = jobs[v][j]
<1> DEFINE r == [jobs[w][k] EXCEPT !.pc = "pending", !.rev = rev, !.made = @ + 1]
<1>0. CASE jobs[w][k].pc # "absent"
  BY <1>0 DEF AddJob, JobsTyped
<1>1. r \in JobType
  BY JobAdded DEF JobsTyped
<1>2. CASE jobs[w][k].pc = "absent"
  <2>2. jobs' = [jobs EXCEPT ![w] = [jobs[w] EXCEPT ![k] = r]]
    BY <1>2 DEF AddJob, JobsTyped, JobType
  <2>3. [jobs[w] EXCEPT ![k] = r] \in [Keys -> JobType]
    BY <1>1 DEF JobsTyped
  <2>4. JobsTyped' /\ jobs'[w][k] = r
    BY <2>2, <2>3 DEF JobsTyped
  <2>5. \A v \in Workloads, j \in Keys : v # w \/ j # k => jobs'[v][j] = jobs[v][j]
    BY <2>2, <2>3 DEF JobsTyped
  <2>6. /\ r.pc = "pending" /\ r.rev = rev
        /\ r.published = jobs[w][k].published /\ r.cleared = jobs[w][k].cleared
    BY DEF JobsTyped, JobType
  <2> QED BY <1>2, <2>4, <2>5, <2>6
<1> QED BY <1>0, <1>2

LEMMA PublishEffect ==
  ASSUME JobsTyped, RunsTyped, NEW w \in Workloads, NEW k \in Keys, Publish(w, k)
  PROVE  /\ JobsTyped' /\ RunsTyped'
         /\ jobs'[w][k].published = jobs[w][k].published + 1
         /\ jobs'[w][k].cleared = jobs[w][k].cleared
         /\ jobs'[w][k].rev = jobs[w][k].rev
         /\ \/ /\ jobs[w][k].rev \notin PyTorch
               /\ runs' = runs /\ jobs'[w][k].pc = "publishing"
            \/ /\ jobs[w][k].rev \in PyTorch
               /\ runs'[w][k].status = "succeeded" /\ jobs'[w][k].pc = "complete"
         /\ \A v \in Workloads, j \in Keys :
                v # w \/ j # k => /\ jobs'[v][j] = jobs[v][j]
                                  /\ runs'[v][j] = runs[v][j]
<1> DEFINE pc == IF jobs[w][k].rev \notin PyTorch THEN "publishing" ELSE "complete"
           r == [jobs[w][k] EXCEPT !.published = @ + 1, !.pc = pc]
<1>0. pc \in JobPcs
  BY DEF JobPcs
<1>1. r \in JobType /\ r.pc = pc /\ r.rev = jobs[w][k].rev
      /\ r.published = jobs[w][k].published + 1 /\ r.cleared = jobs[w][k].cleared
  <2> HIDE DEF pc
  <2>1. r \in JobType
    BY <1>0, JobPublished DEF JobsTyped
  <2> QED BY <2>1 DEF JobsTyped, JobType
<1>2. jobs' = [jobs EXCEPT ![w] = [jobs[w] EXCEPT ![k] = r]]
  BY DEF Publish, JobsTyped, JobType
<1> HIDE DEF r
<1>3. [jobs[w] EXCEPT ![k] = r] \in [Keys -> JobType]
  BY <1>1 DEF JobsTyped
<1>4. JobsTyped' /\ jobs'[w][k] = r
  BY <1>2, <1>3 DEF JobsTyped
<1>5. \A v \in Workloads, j \in Keys : v # w \/ j # k => jobs'[v][j] = jobs[v][j]
  BY <1>2, <1>3 DEF JobsTyped
<1>6. CASE jobs[w][k].rev \notin PyTorch
  <2>1. runs' = runs /\ pc = "publishing"
    BY <1>6 DEF Publish
  <2> QED BY <1>1, <1>4, <1>5, <1>6, <2>1 DEF RunsTyped
<1>7. CASE jobs[w][k].rev \in PyTorch
  <2>1. SetStatus(w, k, "succeeded") /\ pc = "complete"
    BY <1>7 DEF Publish
  <2>2. /\ RunsTyped' /\ runs'[w][k].status = "succeeded"
        /\ \A v \in Workloads, j \in Keys : v # w \/ j # k => runs'[v][j] = runs[v][j]
    BY <2>1, StatusEffect DEF Statuses
  <2> QED BY <1>1, <1>4, <1>5, <1>7, <2>1, <2>2
<1> QED BY <1>6, <1>7

LEMMA ResetEffect ==
  ASSUME JobsTyped, PolicyTyped, ResetTyped, NEW w \in Workloads, Locked(w), Applied(w)
  PROVE  /\ JobsTyped' /\ PolicyTyped' /\ ResetTyped'
         /\ reset[w].to \in Clearing /\ policy'[w] = reset[w].to
         /\ \A v \in Workloads : v # w => policy'[v] = policy[v]
         /\ \A v \in Workloads, j \in Keys :
                v # w => jobs'[v][j] = jobs[v][j]
         /\ \A j \in Keys : jobs'[w][j] = Cleared(jobs[w][j])
<1>1. reset[w] # NoReset /\ reset[w] \in [to : Clearing, pc : {"wanted", "locked"}]
  BY DEF Locked, NoReset, ResetTyped, ResetType
<1>2. reset[w].to \in Clearing
  BY <1>1
<1>3. ASSUME NEW j \in Keys PROVE Cleared(jobs[w][j]) \in JobType
  BY JobCleared DEF JobsTyped
<1>4. [k \in Keys |-> Cleared(jobs[w][k])] \in [Keys -> JobType]
  BY <1>3
<1>5. jobs' = [jobs EXCEPT ![w] = [k \in Keys |-> Cleared(jobs[w][k])]]
  BY DEF Applied, JobsTyped
<1>6. /\ JobsTyped' /\ jobs'[w] = [k \in Keys |-> Cleared(jobs[w][k])]
      /\ \A v \in Workloads : v # w => jobs'[v] = jobs[v]
  BY <1>4, <1>5 DEF JobsTyped
<1>7. ResetTyped'
  BY DEF Applied, ResetTyped, ResetType
<1>8. PolicyTyped' /\ policy'[w] = reset[w].to
      /\ \A v \in Workloads : v # w => policy'[v] = policy[v]
  BY <1>2, RunAssumption DEF Applied, PolicyTyped
<1> QED BY <1>2, <1>6, <1>7, <1>8

LEMMA CurrentIsWorkload ==
  ASSUME SchedTyped, NEW s \in Schedulers PROVE Current(s) \in Workloads
<1>1. sched[s].pos \in 1 .. Len(Order)
  BY DEF SchedTyped, SchedType
<1> QED BY <1>1 DEF Current, Workloads

LEMMA AsleepTyped == ASSUME NEW t \in Nat PROVE Asleep(t) \in SchedType
  BY ZeroIsKey DEF Asleep, SchedType

LEMMA SchedulerSet ==
  ASSUME SchedTyped, NEW s \in Schedulers, NEW r \in SchedType,
         sched' = [sched EXCEPT ![s] = r]
  PROVE  /\ SchedTyped' /\ sched'[s] = r
         /\ \A z \in Schedulers : z # s => sched'[z] = sched[z]
  BY DEF SchedTyped

\* The scheduler goes on, at the same workload or at another.
GoesOn(s, pcs) ==
    /\ SchedTyped'
    /\ sched'[s].pc \in pcs
    /\ sched'[s].pc # "asleep" => sched'[s].at = sched[s].at
    /\ \A z \in Schedulers : z # s => sched'[z] = sched[z]

LEMMA AdvanceEffect ==
  ASSUME SchedTyped, now \in Nat, NEW s \in Schedulers, NextWorkload(s)
  PROVE  GoesOn(s, {"immediate", "asleep"})
<1>1. CASE sched[s].pos < Len(Order)
  <2> DEFINE r == [sched[s] EXCEPT !.pos = @ + 1, !.pc = "immediate"]
  <2>0. sched[s] \in SchedType /\ sched[s].pos \in 1 .. Len(Order)
    BY DEF SchedTyped, SchedType
  <2>a. ASSUME NEW n \in Nat, NEW i \in 1 .. n, i < n PROVE i + 1 \in 1 .. n
    BY <2>a
  <2>b. sched[s].pos + 1 \in 1 .. Len(Order)
    BY <1>1, <2>0, <2>a, RunAssumption
  <2>1. r \in SchedType /\ r.pc = "immediate" /\ r.at = sched[s].at
    BY <2>0, <2>b DEF SchedType
  <2>2. sched' = [sched EXCEPT ![s] = r]
    BY <1>1 DEF NextWorkload, SchedTyped, SchedType
  <2> HIDE DEF r
  <2> QED BY <2>1, <2>2, SchedulerSet DEF GoesOn
<1>2. CASE ~(sched[s].pos < Len(Order))
  <2>1. sched' = [sched EXCEPT ![s] = Asleep(now + Poll)]
    BY <1>2 DEF NextWorkload, SchedTyped
  <2>2. Asleep(now + Poll) \in SchedType
    BY AsleepTyped, ScheduleAssumption
  <2>3. Asleep(now + Poll).pc = "asleep"
    BY DEF Asleep
  <2> QED BY <2>1, <2>2, <2>3, SchedulerSet DEF GoesOn
<1> QED BY <1>1, <1>2

LEMMA SleepEffect ==
  ASSUME SchedTyped, NEW s \in Schedulers, NEW t \in Nat,
         sched' = [sched EXCEPT ![s] = Asleep(t)]
  PROVE  GoesOn(s, {"asleep"})
<1>1. Asleep(t).pc = "asleep"
  BY DEF Asleep
<1> QED BY <1>1, AsleepTyped, SchedulerSet DEF GoesOn

LEMMA PcEffect ==
  ASSUME SchedTyped, NEW s \in Schedulers, NEW pc \in {"scheduled", "mark"},
         sched' = [sched EXCEPT ![s].pc = pc]
  PROVE  /\ GoesOn(s, {pc})
         /\ sched'[s].key = sched[s].key /\ sched'[s].pos = sched[s].pos
<1> DEFINE r == [sched[s] EXCEPT !.pc = pc]
<1>1. /\ r \in SchedType /\ r.pc = pc /\ r.at = sched[s].at
      /\ r.key = sched[s].key /\ r.pos = sched[s].pos
  BY DEF SchedTyped, SchedType
<1>2. sched' = [sched EXCEPT ![s] = r]
  BY DEF SchedTyped, SchedType
<1> HIDE DEF r
<1> QED BY <1>1, <1>2, SchedulerSet DEF GoesOn

LEMMA CreateEffect ==
  ASSUME SchedTyped, NEW s \in Schedulers, NEW k \in Keys,
         sched' = [sched EXCEPT ![s].pc = "create", ![s].key = k]
  PROVE  /\ GoesOn(s, {"create"})
         /\ sched'[s].key = k /\ sched'[s].pos = sched[s].pos
<1> DEFINE r == [sched[s] EXCEPT !.pc = "create", !.key = k]
<1>1. /\ r \in SchedType /\ r.pc = "create" /\ r.at = sched[s].at
      /\ r.key = k /\ r.pos = sched[s].pos
  BY DEF SchedTyped, SchedType
<1>2. sched' = [sched EXCEPT ![s] = r]
  BY DEF SchedTyped, SchedType
<1> HIDE DEF r
<1> QED BY <1>1, <1>2, SchedulerSet DEF GoesOn

LEMMA AfterCreateEffect ==
  ASSUME SchedTyped, now \in Nat, NEW s \in Schedulers, AfterCreate(s)
  PROVE  GoesOn(s, {"immediate", "scheduled", "asleep"})
<1>1. CASE sched[s].key \in Policies
  <2>1. sched' = [sched EXCEPT ![s].pc = "scheduled"]
    BY <1>1 DEF AfterCreate
  <2> QED BY <2>1, PcEffect DEF GoesOn
<1>2. CASE sched[s].key \notin Policies
  BY <1>2, AdvanceEffect DEF AfterCreate, GoesOn
<1> QED BY <1>1, <1>2

-----------------------------------------------------------------------------
(* Types.                                                                    *)

\* A poll under way began in the past.
PollsBegan == \A s \in Schedulers : sched[s].pc # "asleep" => sched[s].at <= now

BoundsTyped == /\ now \in 0 .. MaxTime
               /\ faults \in 0 .. MaxFaults /\ edits \in 0 .. MaxEdits

Typed == /\ RunsTyped /\ JobsTyped /\ SchedTyped /\ ResetTyped /\ PolicyTyped
         /\ BoundsTyped /\ PollsBegan

LEMMA NowIsNat == ASSUME BoundsTyped PROVE now \in Nat
  BY ScheduleAssumption DEF BoundsTyped

\* A step of a scheduler changes the runs by a claim or a failure, and the jobs
\* by an addition.
LEMMA SchedulerTyped ==
  ASSUME Typed, NEW s \in Schedulers, Scheduler(s) \/ Crash(s)
  PROVE  Typed'
<1> USE DEF Typed
<1>0. now \in Nat /\ now' = now /\ policy' = policy /\ reset' = reset /\ edits' = edits
  BY NowIsNat DEF Scheduler, StartPoll, ClaimImmediate, ClaimScheduled, CreateJob,
                  MarkFailed, Crash
<1>1. PolicyTyped' /\ ResetTyped'
  BY <1>0 DEF PolicyTyped, ResetTyped
<1>2. ASSUME NEW pcs, GoesOn(s, pcs), sched[s].pc # "asleep"
      PROVE  SchedTyped' /\ PollsBegan'
  BY <1>0, <1>2 DEF GoesOn, PollsBegan
<1>3. CASE StartPoll(s)
  <2> DEFINE r == [Asleep(now) EXCEPT !.pc = "immediate", !.list = policy]
  <2>1. r \in SchedType /\ r.at = now
    BY <1>0, ZeroIsKey DEF Asleep, SchedType, PolicyTyped
  <2>a. now <= now
    BY <1>0
  <2>2. sched' = [sched EXCEPT ![s] = r]
    BY <1>3 DEF StartPoll
  <2> HIDE DEF r
  <2>3. SchedTyped' /\ PollsBegan'
    BY <1>0, <2>1, <2>2, <2>a, SchedulerSet DEF PollsBegan
  <2>4. RunsTyped' /\ JobsTyped' /\ BoundsTyped'
    BY <1>0, <1>3 DEF StartPoll, RunsTyped, JobsTyped, BoundsTyped
  <2> QED BY <1>1, <2>3, <2>4
<1>4. CASE ClaimImmediate(s)
  <2> DEFINE w == Current(s)
             k == sched[s].list[w]
  <2>1. JobsTyped' /\ BoundsTyped'
    BY <1>0, <1>4 DEF ClaimImmediate, JobsTyped, BoundsTyped
  <2>2. w \in Workloads /\ sched[s].pc = "immediate"
    BY <1>4, CurrentIsWorkload DEF ClaimImmediate
  <2> HIDE DEF w
  <2>3. CASE NextWorkload(s) /\ UNCHANGED runs
    BY <1>0, <1>1, <1>2, <2>1, <2>2, <2>3, AdvanceEffect DEF RunsTyped
  <2>4. CASE sched' = [sched EXCEPT ![s].pc = "scheduled"] /\ UNCHANGED runs
    BY <1>1, <1>2, <2>1, <2>2, <2>4, PcEffect DEF RunsTyped
  <2>5. CASE /\ k \in Immediate /\ (Claimed(w, k) \/ UNCHANGED runs)
             /\ sched' = [sched EXCEPT ![s].pc = "create", ![s].key = k]
    <3>1. k \in Keys
      BY <2>5, RunAssumption DEF Keys
    <3> HIDE DEF k
    <3>2. RunsTyped'
      BY <1>0, <2>2, <2>5, <3>1, ClaimEffect DEF RunsTyped
    <3> QED BY <1>1, <1>2, <2>1, <2>2, <2>5, <3>1, <3>2, CreateEffect
  <2> QED BY <1>4, <2>3, <2>4, <2>5 DEF ClaimImmediate, w
<1>5. CASE ClaimScheduled(s)
  <2> DEFINE w == Current(s)
             slot == SlotOf(sched[s].at)
  <2>1. JobsTyped' /\ BoundsTyped'
    BY <1>0, <1>5 DEF ClaimScheduled, JobsTyped, BoundsTyped
  <2>2. w \in Workloads /\ sched[s].pc = "scheduled"
    BY <1>5, CurrentIsWorkload DEF ClaimScheduled
  <2>3. CASE NextWorkload(s) /\ UNCHANGED runs
    BY <1>0, <1>1, <1>2, <2>1, <2>2, <2>3, AdvanceEffect DEF RunsTyped
  <2>4. CASE /\ Claimed(w, slot)
             /\ sched' = [sched EXCEPT ![s].pc = "create", ![s].key = slot]
    <3>0. sched[s].at \in Nat /\ sched[s].at <= now
      BY <2>2 DEF PollsBegan, SchedTyped, SchedType
    <3>1. sched[s].at \in 0 .. MaxTime
      BY <3>0, ScheduleAssumption DEF BoundsTyped
    <3>2. slot \in Keys
      BY <3>1, ReachableSlot DEF Keys
    <3> HIDE DEF slot, w
    <3> QED BY <1>0, <1>1, <1>2, <2>1, <2>2, <2>4, <3>2, ClaimEffect, CreateEffect
  <2> QED BY <1>5, <2>3, <2>4 DEF ClaimScheduled
<1>6. CASE CreateJob(s)
  <2> DEFINE w == Current(s)
             k == sched[s].key
             rev == sched[s].list[w]
  <2>1. /\ w \in Workloads /\ k \in Keys /\ rev \in Policies \cup {Inactive}
        /\ sched[s].pc = "create"
    BY <1>6, CurrentIsWorkload DEF CreateJob, SchedTyped, SchedType
  <2>2. RunsTyped' /\ BoundsTyped'
    BY <1>0, <1>6, ScheduleAssumption DEF CreateJob, Disturb, RunsTyped, BoundsTyped
  <2>3. AddJob(w, k, rev) \/ UNCHANGED jobs
    BY <1>6 DEF CreateJob
  <2>4. AfterCreate(s) \/ sched' = [sched EXCEPT ![s].pc = "mark"]
    BY <1>6 DEF CreateJob
  <2> HIDE DEF w, k, rev
  <2>5. JobsTyped'
    BY <2>1, <2>3, AddEffect DEF JobsTyped
  <2>6. SchedTyped' /\ PollsBegan'
    BY <1>0, <1>2, <2>1, <2>4, AfterCreateEffect, PcEffect
  <2> QED BY <1>1, <2>2, <2>5, <2>6
<1>7. CASE MarkFailed(s)
  <2> DEFINE w == Current(s)
             k == sched[s].key
  <2>1. w \in Workloads /\ k \in Keys /\ sched[s].pc = "mark" /\ now + Poll \in Nat
    BY <1>0, <1>7, CurrentIsWorkload, ScheduleAssumption DEF MarkFailed, SchedTyped, SchedType
  <2>2. JobsTyped' /\ BoundsTyped'
    BY <1>0, <1>7 DEF MarkFailed, JobsTyped, BoundsTyped
  <2>3. /\ SetStatus(w, k, "failed")
        /\ sched' = [sched EXCEPT ![s] = Asleep(now + Poll)]
    BY <1>7 DEF MarkFailed, MarkCreateFailed
  <2> HIDE DEF w, k
  <2> QED BY <1>1, <1>2, <2>1, <2>2, <2>3, StatusEffect, SleepEffect DEF Statuses
<1>8. CASE Crash(s)
  <2>1. RunsTyped' /\ JobsTyped' /\ BoundsTyped'
    BY <1>0, <1>8, ScheduleAssumption DEF Crash, Disturb, RunsTyped, JobsTyped, BoundsTyped
  <2>2. SchedTyped' /\ PollsBegan'
    BY <1>0, <1>2, <1>8, SleepEffect DEF Crash
  <2> QED BY <1>1, <2>1, <2>2
<1> QED BY <1>3, <1>4, <1>5, <1>6, <1>7, <1>8 DEF Scheduler

\* A step of a trainer, of the kernel or of the cleaner concerns one job.
LEMMA TrainerTyped ==
  ASSUME Typed, NEW w \in Workloads, NEW k \in Keys,
         Trainer(w, k) \/ Kill(w, k) \/ RemoveJob(w, k)
  PROVE  Typed'
<1> USE DEF Typed
<1>0. now' = now /\ policy' = policy /\ reset' = reset /\ edits' = edits /\ sched' = sched
  BY DEF Trainer, StartTrainer, RepairHistory, CannotFit, Publish, MarkSucceeded,
         TrainerFails, Kill, RemoveJob
<1>1. PolicyTyped' /\ ResetTyped' /\ SchedTyped' /\ PollsBegan'
  BY <1>0 DEF PolicyTyped, ResetTyped, SchedTyped, PollsBegan
<1>2. ASSUME NEW pc \in JobPcs, SetJob(w, k, pc) PROVE JobsTyped'
  BY <1>2, JobPcEffect
<1>3. ASSUME NEW st \in Statuses, SetStatus(w, k, st) \/ UNCHANGED runs PROVE RunsTyped'
  BY <1>3, StatusEffect DEF RunsTyped
<1>4. ASSUME UNCHANGED runs PROVE RunsTyped'
  BY <1>4 DEF RunsTyped
<1>5. ASSUME faults' = faults PROVE BoundsTyped'
  BY <1>0, <1>5 DEF BoundsTyped
<1>6. CASE StartTrainer(w, k)
  <2>1. faults' = faults /\ (SetStatus(w, k, "running") \/ UNCHANGED runs)
    BY <1>6 DEF StartTrainer
  <2>2. PICK pc \in JobPcs : SetJob(w, k, pc)
    BY <1>6 DEF StartTrainer, JobPcs
  <2> QED BY <1>1, <1>2, <1>3, <1>5, <2>1, <2>2 DEF Statuses
<1>7. CASE RepairHistory(w, k)
  <2>1. faults' = faults /\ UNCHANGED runs
    BY <1>7 DEF RepairHistory
  <2>2. PICK pc \in JobPcs : SetJob(w, k, pc)
    BY <1>7 DEF RepairHistory, JobPcs
  <2> QED BY <1>1, <1>2, <1>4, <1>5, <2>1, <2>2
<1>8. CASE CannotFit(w, k)
  BY <1>1, <1>2, <1>4, <1>5, <1>8 DEF CannotFit, JobPcs
<1>9. CASE Publish(w, k)
  BY <1>1, <1>5, <1>9, PublishEffect DEF Publish
<1>10. CASE MarkSucceeded(w, k)
  BY <1>1, <1>2, <1>3, <1>5, <1>10 DEF MarkSucceeded, JobPcs, Statuses
<1>11. CASE TrainerFails(w, k)
  BY <1>1, <1>2, <1>3, <1>5, <1>11 DEF TrainerFails, JobPcs, Statuses
<1>12. CASE Kill(w, k)
  <2>1. BoundsTyped'
    BY <1>0, <1>12, ScheduleAssumption DEF Kill, Disturb, BoundsTyped
  <2> QED BY <1>1, <1>2, <1>4, <1>12, <2>1 DEF Kill, JobPcs
<1>13. CASE RemoveJob(w, k)
  <2> DEFINE r == [jobs[w][k] EXCEPT !.pc = "absent", !.rev = Inactive]
  <2>1. r \in JobType
    BY JobRemoved DEF JobsTyped
  <2>2. jobs' = [jobs EXCEPT ![w] = [jobs[w] EXCEPT ![k] = r]]
    BY <1>13 DEF RemoveJob, JobsTyped, JobType
  <2> HIDE DEF r
  <2>3. [jobs[w] EXCEPT ![k] = r] \in [Keys -> JobType]
    BY <2>1 DEF JobsTyped
  <2>4. JobsTyped'
    BY <2>2, <2>3 DEF JobsTyped
  <2> QED BY <1>1, <1>4, <1>5, <1>13, <2>4 DEF RemoveJob
<1> QED BY <1>6, <1>7, <1>8, <1>9, <1>10, <1>11, <1>12, <1>13 DEF Trainer

LEMMA ResetTypedStep ==
  ASSUME Typed, NEW w \in Workloads,
         Edit(w) \/ LockRow(w) \/ CommitReset(w) \/ AbortReset(w)
  PROVE  Typed'
<1> USE DEF Typed
<1>0. now' = now /\ runs' = runs /\ sched' = sched /\ faults' = faults
  BY DEF Edit, LockRow, CommitReset, AbortReset
<1>1. RunsTyped' /\ SchedTyped' /\ PollsBegan'
  BY <1>0 DEF RunsTyped, SchedTyped, PollsBegan
<1>2. CASE Edit(w)
  <2>1. JobsTyped' /\ BoundsTyped'
    BY <1>0, <1>2, ScheduleAssumption DEF Edit, JobsTyped, BoundsTyped
  <2>2. PICK p \in Policies \cup {Inactive} :
           \/ /\ p \in Clearing /\ UNCHANGED policy
              /\ reset' = [reset EXCEPT ![w] = [to |-> p, pc |-> "wanted"]]
           \/ policy' = [policy EXCEPT ![w] = p] /\ UNCHANGED reset
    BY <1>2 DEF Edit
  <2>3. ASSUME NEW q \in Clearing PROVE [to |-> q, pc |-> "wanted"] \in ResetType
    BY DEF ResetType
  <2>4. PolicyTyped' /\ ResetTyped'
    BY <2>2, <2>3 DEF PolicyTyped, ResetTyped
  <2> QED BY <1>1, <2>1, <2>4
<1>3. CASE CommitReset(w)
  <2>1. BoundsTyped'
    BY <1>0, <1>3 DEF CommitReset, BoundsTyped
  <2> QED BY <1>1, <1>3, <2>1, ResetEffect DEF CommitReset
<1>4. CASE LockRow(w) \/ AbortReset(w)
  <2>1. JobsTyped' /\ BoundsTyped' /\ PolicyTyped'
    BY <1>0, <1>4 DEF LockRow, AbortReset, JobsTyped, BoundsTyped, PolicyTyped
  <2>2. reset[w].pc \in {"wanted", "locked"}
    BY <1>4 DEF LockRow, AbortReset, Locked
  <2>3. reset[w] \in [to : Clearing, pc : {"wanted", "locked"}]
    BY <2>2 DEF NoReset, ResetTyped, ResetType
  <2>4. ASSUME NEW pc \in {"wanted", "locked"} PROVE [reset[w] EXCEPT !.pc = pc] \in ResetType
    BY <2>3 DEF ResetType
  <2>5. PICK pc \in {"wanted", "locked"} : reset' = [reset EXCEPT ![w].pc = pc]
    BY <1>4 DEF LockRow, AbortReset
  <2>6. reset' = [reset EXCEPT ![w] = [reset[w] EXCEPT !.pc = pc]]
    BY <2>5 DEF ResetTyped
  <2>7. ResetTyped'
    BY <2>4, <2>6 DEF ResetTyped
  <2> QED BY <1>1, <2>1, <2>7
<1> QED BY <1>2, <1>3, <1>4

LEMMA InitTyped == ASSUME Init PROVE Typed
<1> USE DEF Init
<1>1. 0 \in Nat /\ Asleep(0).pc = "asleep" /\ Asleep(0) \in SchedType
  BY AsleepTyped DEF Asleep
<1>2. SchedTyped /\ PollsBegan
  BY <1>1 DEF SchedTyped, PollsBegan
<1>3. NoRun \in RunType
  BY DEF NoRun, RunType
<1>4. NoJob \in JobType
  BY DEF NoJob, JobType
<1>5. NoReset \in ResetType
  BY DEF ResetType
<1>6. BoundsTyped
  BY ScheduleAssumption DEF BoundsTyped
<1> QED BY <1>2, <1>3, <1>4, <1>5, <1>6
        DEF Typed, RunsTyped, JobsTyped, ResetTyped, PolicyTyped

LEMMA StepTyped == ASSUME Typed, [Next]_vars PROVE Typed'
<1>1. CASE Tick
  <2>1. now \in Nat /\ now' = now + 1 /\ now' \in 0 .. MaxTime
    BY <1>1, ScheduleAssumption DEF Tick, Typed, BoundsTyped
  <2>2. PollsBegan'
    BY <1>1, <2>1 DEF Tick, Typed, PollsBegan, SchedTyped, SchedType
  <2> QED BY <1>1, <2>1, <2>2 DEF Tick, Typed, RunsTyped, JobsTyped, SchedTyped,
             ResetTyped, PolicyTyped, BoundsTyped
<1>2. CASE UNCHANGED vars
  BY <1>2 DEF vars, Typed, RunsTyped, JobsTyped, SchedTyped, ResetTyped, PolicyTyped,
              BoundsTyped, PollsBegan
<1> QED BY <1>1, <1>2, SchedulerTyped, TrainerTyped, ResetTypedStep DEF Next

LEMMA TypedAlways == Spec => []Typed
  BY InitTyped, StepTyped, PTL DEF Spec

\* Every variable keeps its type: in particular the slot of a scheduled claim is
\* one that the clock has reached, as a poll began in the past.
THEOREM TypeCorrect == Spec => []TypeOK
<1>1. Typed => TypeOK
  BY DEF Typed, RunsTyped, JobsTyped, SchedTyped, ResetTyped, PolicyTyped, BoundsTyped, TypeOK
<1> QED BY <1>1, TypedAlways, PTL

-----------------------------------------------------------------------------
(* Spacing.                                                                  *)

\* A scheduled run follows no other run of its workload in the interval in which
\* it is created: the claim looks for runs since the start of the slot of its
\* poll, which the clock may only have left for a later one.
THEOREM SpacedRuns == Spec => ScheduledRunsAreSpaced
<1> DEFINE Spaced ==
      \A w \in Workloads, k \in Slots :
        (runs[w][k].status = "absent" /\ runs'[w][k].status = "claimed") =>
            \A j \in Keys : runs[w][j].status # "absent"
                                => SlotOf(runs[w][j].created) < SlotOf(now)
<1>1. ASSUME Typed, [Next]_vars, NEW w \in Workloads, NEW k \in Slots,
             runs[w][k].status = "absent", runs'[w][k].status = "claimed",
             NEW j \in Keys, runs[w][j].status # "absent"
      PROVE  SlotOf(runs[w][j].created) < SlotOf(now)
  <2> USE <1>1 DEF Typed
  <2>0. k \in Keys /\ k \notin Policies /\ runs' # runs /\ now \in Nat
    BY KeysApart, NowIsNat DEF Keys
  <2>1. ASSUME NEW v \in Workloads, NEW i \in Keys, NEW st \in {"running", "succeeded", "failed"},
               SetStatus(v, i, st)
        PROVE  FALSE
    BY <2>0, <2>1, StatusEffect DEF Statuses
  <2>2. ASSUME NEW v \in Workloads, NEW i \in Keys, Trainer(v, i) \/ Kill(v, i) \/ RemoveJob(v, i)
        PROVE  FALSE
    BY <2>0, <2>1, <2>2 DEF Trainer, StartTrainer, RepairHistory, CannotFit, Publish,
         MarkSucceeded, TrainerFails, Kill, RemoveJob
  <2>3. PICK s \in Schedulers : ClaimImmediate(s) \/ ClaimScheduled(s) \/ MarkFailed(s)
    BY <2>0, <2>2 DEF Next, vars, Tick, Edit, LockRow, CommitReset, AbortReset, Scheduler,
         StartPoll, CreateJob, Crash
  <2>4. Current(s) \in Workloads /\ sched[s].key \in Keys
    BY CurrentIsWorkload DEF SchedTyped, SchedType
  <2>5. ~MarkFailed(s)
    BY <2>1, <2>4 DEF MarkFailed, MarkCreateFailed
  <2>6. ~ClaimImmediate(s)
    <3>1. SUFFICES ASSUME ClaimImmediate(s) PROVE FALSE
      OBVIOUS
    <3> DEFINE i == sched[s].list[Current(s)]
    <3>2. i \in Immediate /\ Claimed(Current(s), i)
      BY <2>0, <3>1 DEF ClaimImmediate
    <3>3. i \in Policies /\ i \in Keys
      BY <3>2, RunAssumption DEF Keys
    <3> QED BY <2>0, <2>4, <3>2, <3>3, ClaimEffect
  <2> DEFINE slot == SlotOf(sched[s].at)
  <2>7. /\ Claimed(Current(s), slot) /\ NoneSince(Current(s), slot * Interval)
        /\ sched[s].pc = "scheduled"
    BY <2>0, <2>3, <2>5, <2>6 DEF ClaimScheduled
  <2>8. sched[s].at \in Nat /\ sched[s].at <= now
    BY <2>7 DEF PollsBegan, SchedTyped, SchedType
  <2>9. slot \in Nat /\ slot <= SlotOf(now) /\ SlotOf(now) \in Nat
    BY <2>0, <2>8, SlotIsNat, SlotIsMonotone
  <2>10. slot \in Keys
    <3>1. sched[s].at \in 0 .. MaxTime
      BY <2>8, ScheduleAssumption DEF BoundsTyped
    <3> QED BY <3>1, ReachableSlot DEF Keys
  <2> HIDE DEF slot
  <2>11. w = Current(s)
    BY <2>0, <2>4, <2>7, <2>10, ClaimEffect
  <2>12. runs[w][j].created < slot * Interval /\ runs[w][j].created \in Nat
    BY <2>7, <2>11 DEF NoneSince, RunsTyped, RunType
  <2>13. SlotOf(runs[w][j].created) < slot /\ SlotOf(runs[w][j].created) \in Nat
    BY <2>9, <2>12, SlotBeforeStart, SlotIsNat
  <2> QED BY <2>9, <2>13
<1>2. Typed /\ [Next]_vars => Spaced
  BY <1>1
<1>3. Spaced => [Spaced]_vars
  OBVIOUS
<1> QED BY <1>2, TypedAlways, PTL DEF Spec, ScheduledRunsAreSpaced

-----------------------------------------------------------------------------
(* Resets.                                                                   *)

\* A run is on record before its Job exists, and before a scheduler creates it.
RunsPrecedeJobs ==
    /\ \A w \in Workloads, k \in Keys :
          jobs[w][k].pc # "absent" => runs[w][k].status # "absent"
    /\ \A s \in Schedulers :
          sched[s].pc \in {"create", "mark"} =>
              runs[Current(s)][sched[s].key].status # "absent"

\* What is known of the runs after any step.
LEMMA RunsStay ==
  ASSUME Typed, [Next]_vars, NEW w \in Workloads, NEW k \in Keys
  PROVE  /\ runs[w][k].status # "absent" => runs'[w][k].status # "absent"
         /\ runs'[w][k].status = "claimed" => runs[w][k].status \in {"absent", "claimed"}
<1> USE DEF Typed
<1> DEFINE Goal == /\ runs[w][k].status # "absent" => runs'[w][k].status # "absent"
                   /\ runs'[w][k].status = "claimed" => runs[w][k].status \in {"absent", "claimed"}
<1>1. CASE UNCHANGED runs
  BY <1>1
<1>2. ASSUME NEW v \in Workloads, NEW i \in Keys, NEW st \in {"running", "succeeded", "failed"},
             SetStatus(v, i, st)
      PROVE  Goal
  <2>1. st \in Statuses /\ st # "absent" /\ st # "claimed"
    BY DEF Statuses
  <2>2. CASE v = w /\ i = k
    BY <1>2, <2>1, <2>2, StatusEffect
  <2>3. CASE ~(v = w /\ i = k)
    <3>1. runs'[w][k] = runs[w][k]
      BY <1>2, <2>1, <2>3, StatusEffect
    <3> QED BY <3>1
  <2> QED BY <2>2, <2>3
<1>3. ASSUME NEW v \in Workloads, NEW i \in Keys, Claimed(v, i), runs[v][i].status = "absent"
      PROVE  Goal
  <2>1. CASE v = w /\ i = k
    BY <1>3, <2>1, NowIsNat, ClaimEffect
  <2>2. CASE ~(v = w /\ i = k)
    <3>1. runs'[w][k] = runs[w][k]
      BY <1>3, <2>2, NowIsNat, ClaimEffect
    <3> QED BY <3>1
  <2> QED BY <2>1, <2>2
<1>4. ASSUME NEW v \in Workloads, NEW i \in Keys, Trainer(v, i) \/ Kill(v, i) \/ RemoveJob(v, i)
      PROVE  Goal
  BY <1>1, <1>2, <1>4 DEF Trainer, StartTrainer, RepairHistory, CannotFit, Publish,
     MarkSucceeded, TrainerFails, Kill, RemoveJob
<1>5. ASSUME NEW s \in Schedulers, Scheduler(s) \/ Crash(s) PROVE Goal
  <2>1. Current(s) \in Workloads /\ sched[s].key \in Keys
    BY CurrentIsWorkload DEF SchedTyped, SchedType
  <2>2. CASE ClaimImmediate(s)
    <3> DEFINE i == sched[s].list[Current(s)]
    <3>1. \/ UNCHANGED runs
          \/ i \in Immediate /\ Claimed(Current(s), i) /\ runs[Current(s)][i].status = "absent"
      BY <2>2 DEF ClaimImmediate
    <3>2. i \in Immediate => i \in Keys
      BY RunAssumption DEF Keys
    <3> QED BY <1>1, <1>3, <2>1, <3>1, <3>2
  <2>3. CASE ClaimScheduled(s)
    <3> DEFINE i == SlotOf(sched[s].at)
    <3>1. \/ UNCHANGED runs
          \/ Claimed(Current(s), i) /\ runs[Current(s)][i].status = "absent"
      BY <2>3 DEF ClaimScheduled
    <3>2. i \in Keys
      <4>1. sched[s].at \in Nat /\ sched[s].at <= now
        BY <2>3 DEF ClaimScheduled, PollsBegan, SchedTyped, SchedType
      <4>2. sched[s].at \in 0 .. MaxTime
        BY <4>1, ScheduleAssumption DEF BoundsTyped
      <4> QED BY <4>2, ReachableSlot DEF Keys
    <3> QED BY <1>1, <1>3, <2>1, <3>1, <3>2
  <2>4. CASE MarkFailed(s)
    BY <1>2, <2>1, <2>4 DEF MarkFailed, MarkCreateFailed
  <2>5. CASE StartPoll(s) \/ CreateJob(s) \/ Crash(s)
    BY <1>1, <2>5 DEF StartPoll, CreateJob, Crash
  <2> QED BY <1>5, <2>2, <2>3, <2>4, <2>5 DEF Scheduler
<1>6. ASSUME NEW v \in Workloads, Edit(v) \/ LockRow(v) \/ CommitReset(v) \/ AbortReset(v)
      PROVE  Goal
  BY <1>1, <1>6 DEF Edit, LockRow, CommitReset, AbortReset
<1>7. CASE Tick \/ UNCHANGED vars
  BY <1>1, <1>7 DEF Tick, vars
<1> QED BY <1>4, <1>5, <1>6, <1>7 DEF Next

\* What a step of the reset or of an edit does to a job: it may be cleared.
LEMMA ResetKeepsJobs ==
  ASSUME Typed, NEW v \in Workloads,
         Edit(v) \/ LockRow(v) \/ CommitReset(v) \/ AbortReset(v),
         NEW w \in Workloads, NEW k \in Keys
  PROVE  \/ jobs'[w][k] = jobs[w][k]
         \/ CommitReset(v) /\ v = w /\ jobs'[w][k] = Cleared(jobs[w][k])
<1>1. CASE CommitReset(v)
  <2>1. CASE v = w
    BY <1>1, <2>1, ResetEffect DEF CommitReset, Typed
  <2>2. CASE v # w
    BY <1>1, <2>2, ResetEffect DEF CommitReset, Typed
  <2> QED BY <2>1, <2>2
<1>2. CASE ~CommitReset(v)
  BY <1>2 DEF Edit, LockRow, AbortReset
<1> QED BY <1>1, <1>2

LEMMA InitPrecedes == ASSUME Init PROVE RunsPrecedeJobs
<1>1. \A s \in Schedulers : sched[s].pc = "asleep"
  BY DEF Init, Asleep
<1>2. \A w \in Workloads, k \in Keys : jobs[w][k].pc = "absent"
  BY DEF Init, NoJob
<1> QED BY <1>1, <1>2 DEF RunsPrecedeJobs

\* Where a scheduler that is about to create or to mark came from.
LEMMA CreatesWhatItClaimed ==
  ASSUME Typed, RunsPrecedeJobs, NEW s \in Schedulers, Scheduler(s) \/ Crash(s),
         sched'[s].pc \in {"create", "mark"}
  PROVE  runs'[Current(s)'][sched'[s].key].status # "absent"
<1> USE DEF Typed
<1>0. Current(s) \in Workloads /\ sched[s].key \in Keys /\ now \in Nat
  BY CurrentIsWorkload, NowIsNat DEF SchedTyped, SchedType
<1>1. ASSUME NEW pcs, GoesOn(s, pcs), "create" \notin pcs, "mark" \notin pcs PROVE FALSE
  BY <1>1 DEF GoesOn
<1>2. CASE ClaimImmediate(s)
  <2> DEFINE w == Current(s)
             i == sched[s].list[w]
  <2>1. /\ i \in Immediate
        /\ (runs[w][i].status = "absent" /\ Claimed(w, i)) \/ (runs[w][i].status # "absent" /\ UNCHANGED runs)
        /\ sched' = [sched EXCEPT ![s].pc = "create", ![s].key = i]
    <3>1. ~NextWorkload(s)
      BY <1>0, <1>1, AdvanceEffect
    <3>2. sched' # [sched EXCEPT ![s].pc = "scheduled"]
      BY <1>1, PcEffect
    <3> QED BY <1>2, <3>1, <3>2 DEF ClaimImmediate
  <2>2. i \in Keys
    BY <2>1, RunAssumption DEF Keys
  <2> HIDE DEF i
  <2>3. sched'[s].key = i /\ Current(s)' = w
    BY <2>1, <2>2, CreateEffect DEF Current
  <2>4. runs'[w][i].status # "absent"
    BY <1>0, <2>1, <2>2, ClaimEffect
  <2> QED BY <2>3, <2>4
<1>3. CASE ClaimScheduled(s)
  <2> DEFINE w == Current(s)
             i == SlotOf(sched[s].at)
  <2>1. /\ Claimed(w, i)
        /\ sched' = [sched EXCEPT ![s].pc = "create", ![s].key = i]
    <3>1. ~NextWorkload(s)
      BY <1>0, <1>1, AdvanceEffect
    <3> QED BY <1>3, <3>1 DEF ClaimScheduled
  <2>2. i \in Keys
    <3>1. sched[s].at \in Nat /\ sched[s].at <= now
      BY <1>3 DEF ClaimScheduled, PollsBegan, SchedTyped, SchedType
    <3>2. sched[s].at \in 0 .. MaxTime
      BY <3>1, ScheduleAssumption DEF BoundsTyped
    <3> QED BY <3>2, ReachableSlot DEF Keys
  <2> HIDE DEF i
  <2>3. sched'[s].key = i /\ Current(s)' = w
    BY <2>1, <2>2, CreateEffect DEF Current
  <2>4. runs'[w][i].status = "claimed"
    BY <1>0, <2>1, <2>2, ClaimEffect
  <2> QED BY <2>3, <2>4
<1>4. CASE CreateJob(s)
  <2>1. sched[s].pc = "create" /\ UNCHANGED runs
    BY <1>4 DEF CreateJob
  <2>2. ~AfterCreate(s)
    BY <1>0, <1>1, AfterCreateEffect
  <2>3. sched' = [sched EXCEPT ![s].pc = "mark"]
    BY <1>4, <2>2 DEF CreateJob
  <2>4. sched'[s].key = sched[s].key /\ Current(s)' = Current(s)
    BY <2>3, PcEffect DEF Current
  <2>5. runs[Current(s)][sched[s].key].status # "absent"
    BY <2>1 DEF RunsPrecedeJobs
  <2> QED BY <2>1, <2>4, <2>5
<1>5. ~MarkFailed(s)
  <2>1. now + Poll \in Nat
    BY <1>0, ScheduleAssumption
  <2> QED BY <1>1, <2>1, SleepEffect DEF MarkFailed
<1>6. ~Crash(s)
  BY <1>0, <1>1, SleepEffect DEF Crash
<1>7. ~StartPoll(s)
  <2> DEFINE r == [Asleep(now) EXCEPT !.pc = "immediate", !.list = policy]
  <2>1. r \in SchedType /\ r.pc = "immediate"
    BY <1>0, ZeroIsKey DEF Asleep, SchedType, PolicyTyped
  <2> HIDE DEF r
  <2>2. sched' = [sched EXCEPT ![s] = r] => sched'[s].pc = "immediate"
    BY <2>1, SchedulerSet
  <2>3. StartPoll(s) => sched' = [sched EXCEPT ![s] = r]
    BY DEF StartPoll, r
  <2> QED BY <2>2, <2>3
<1> QED BY <1>2, <1>3, <1>4, <1>5, <1>6, <1>7 DEF Scheduler

\* A scheduler that stands still keeps its run.
LEMMA OthersWait ==
  ASSUME Typed, NEW s \in Schedulers, sched'[s] = sched[s]
  PROVE  Current(s)' = Current(s) /\ sched'[s].key = sched[s].key
  BY DEF Current

LEMMA SchedulerAlone ==
  ASSUME Typed, NEW s \in Schedulers, Scheduler(s) \/ Crash(s),
         NEW z \in Schedulers, z # s
  PROVE  sched'[z] = sched[z]
<1>1. \E r : sched' = [sched EXCEPT ![s] = r]
  <2>1. ASSUME NEW pc PROVE [sched EXCEPT ![s].pc = pc] = [sched EXCEPT ![s] = [sched[s] EXCEPT !.pc = pc]]
    BY DEF Typed, SchedTyped
  <2>2. ASSUME NEW pc, NEW k PROVE [sched EXCEPT ![s].pc = pc, ![s].key = k]
           = [sched EXCEPT ![s] = [sched[s] EXCEPT !.pc = pc, !.key = k]]
    BY DEF Typed, SchedTyped, SchedType
  <2>3. NextWorkload(s) => \E r : sched' = [sched EXCEPT ![s] = r]
    BY DEF NextWorkload
  <2>4. CASE ClaimImmediate(s) \/ ClaimScheduled(s)
    BY <2>1, <2>2, <2>3, <2>4 DEF ClaimImmediate, ClaimScheduled
  <2>5. CASE CreateJob(s)
    BY <2>1, <2>3, <2>5 DEF CreateJob, AfterCreate
  <2>6. CASE StartPoll(s) \/ MarkFailed(s) \/ Crash(s)
    BY <2>6 DEF StartPoll, MarkFailed, Crash
  <2> QED BY <2>4, <2>5, <2>6 DEF Scheduler
<1> QED BY <1>1 DEF Typed, SchedTyped

\* What a scheduler does to jobs: it may add one of which the run is on record.
LEMMA SchedulerJobs ==
  ASSUME Typed, NEW s \in Schedulers, Scheduler(s) \/ Crash(s)
  PROVE  \/ jobs' = jobs
         \/ /\ sched[s].pc = "create" /\ sched[s].key \in Keys
            /\ Current(s) \in Workloads
            /\ sched[s].list[Current(s)] \in Policies \cup {Inactive}
            /\ AddJob(Current(s), sched[s].key, sched[s].list[Current(s)])
<1>1. CASE CreateJob(s)
  <2>1. Current(s) \in Workloads
    BY CurrentIsWorkload DEF Typed
  <2>2. sched[s].key \in Keys /\ sched[s].list[Current(s)] \in Policies \cup {Inactive}
    BY <2>1 DEF Typed, SchedTyped, SchedType
  <2> QED BY <1>1, <2>1, <2>2 DEF CreateJob
<1>2. CASE ~CreateJob(s)
  BY <1>2 DEF Scheduler, StartPoll, ClaimImmediate, ClaimScheduled, MarkFailed, Crash
<1> QED BY <1>1, <1>2

\* What a trainer, the kernel and the cleaner do to jobs: one changes, which
\* was there.
LEMMA TrainerJobs ==
  ASSUME Typed, NEW v \in Workloads, NEW i \in Keys,
         Trainer(v, i) \/ Kill(v, i) \/ RemoveJob(v, i)
  PROVE  /\ jobs[v][i].pc # "absent"
         /\ \A w \in Workloads, k \in Keys : w # v \/ k # i => jobs'[w][k] = jobs[w][k]
         /\ \A w \in Workloads, k \in Keys : w # v \/ k # i => runs'[w][k] = runs[w][k]
<1> USE DEF Typed
<1> DEFINE Others(f) == \A w \in Workloads, k \in Keys : w # v \/ k # i => f'[w][k] = f[w][k]
<1>1. ASSUME NEW pc \in JobPcs, SetJob(v, i, pc) PROVE Others(jobs)
  BY <1>1, JobPcEffect
<1>2. ASSUME NEW st \in Statuses, SetStatus(v, i, st) PROVE Others(runs)
  BY <1>2, StatusEffect
<1>3. UNCHANGED runs => Others(runs)
  OBVIOUS
<1> HIDE DEF Others
<1>4. CASE StartTrainer(v, i)
  <2>1. PICK pc \in JobPcs : SetJob(v, i, pc)
    BY <1>4 DEF StartTrainer, JobPcs
  <2> QED BY <1>1, <1>2, <1>3, <1>4, <2>1 DEF StartTrainer, Statuses, Others
<1>5. CASE RepairHistory(v, i)
  <2>1. PICK pc \in JobPcs : SetJob(v, i, pc)
    BY <1>5 DEF RepairHistory, JobPcs
  <2> QED BY <1>1, <1>3, <1>5, <2>1 DEF RepairHistory, Others
<1>6. CASE CannotFit(v, i)
  BY <1>1, <1>3, <1>6 DEF CannotFit, JobPcs, Others
<1>7. CASE Publish(v, i)
  <2>1. jobs[v][i].pc # "absent"
    BY <1>7 DEF Publish
  <2>2. Others(jobs) /\ Others(runs)
    BY <1>7, PublishEffect DEF Others
  <2> QED BY <2>1, <2>2 DEF Others
<1>8. CASE MarkSucceeded(v, i)
  BY <1>1, <1>2, <1>3, <1>8 DEF MarkSucceeded, JobPcs, Statuses, Others
<1>9. CASE TrainerFails(v, i)
  BY <1>1, <1>2, <1>3, <1>9 DEF TrainerFails, JobPcs, Statuses, Others
<1>10. CASE Kill(v, i)
  BY <1>1, <1>3, <1>10 DEF Kill, Unfinished, JobPcs, Others
<1>11. CASE RemoveJob(v, i)
  <2> DEFINE r == [jobs[v][i] EXCEPT !.pc = "absent", !.rev = Inactive]
  <2>1. jobs' = [jobs EXCEPT ![v] = [jobs[v] EXCEPT ![i] = r]]
    BY <1>11 DEF RemoveJob, JobsTyped, JobType
  <2> HIDE DEF r
  <2>2. Others(jobs)
    BY <2>1 DEF JobsTyped, Others
  <2> QED BY <1>3, <1>11, <2>2 DEF RemoveJob, Others
<1> QED BY <1>4, <1>5, <1>6, <1>7, <1>8, <1>9, <1>10, <1>11 DEF Trainer

LEMMA StepPrecedes ==
  ASSUME Typed, RunsPrecedeJobs, [Next]_vars PROVE RunsPrecedeJobs'
<1>1. ASSUME NEW w \in Workloads, NEW k \in Keys, jobs[w][k].pc # "absent"
      PROVE  runs'[w][k].status # "absent"
  BY <1>1, RunsStay DEF RunsPrecedeJobs
<1>2. ASSUME NEW s \in Schedulers, sched'[s] = sched[s], sched[s].pc \in {"create", "mark"}
      PROVE  runs'[Current(s)'][sched'[s].key].status # "absent"
  <2>1. Current(s) \in Workloads /\ sched[s].key \in Keys
    BY CurrentIsWorkload DEF Typed, SchedTyped, SchedType
  <2>2. runs'[Current(s)][sched[s].key].status # "absent"
    BY <1>2, <2>1, RunsStay DEF RunsPrecedeJobs
  <2> QED BY <1>2, <2>2, OthersWait
<1>3. ASSUME NEW s \in Schedulers, Scheduler(s) \/ Crash(s) PROVE RunsPrecedeJobs'
  <2>1. ASSUME NEW w \in Workloads, NEW k \in Keys, jobs'[w][k].pc # "absent"
        PROVE  runs'[w][k].status # "absent"
    <3>1. CASE jobs[w][k].pc # "absent"
      BY <1>1, <3>1
    <3>2. CASE jobs[w][k].pc = "absent"
      <4>1. /\ sched[s].pc = "create"
            /\ w = Current(s) /\ k = sched[s].key
        BY <1>3, <2>1, <3>2, SchedulerJobs, AddEffect DEF Typed
      <4>2. runs[w][k].status # "absent"
        BY <4>1 DEF RunsPrecedeJobs
      <4> QED BY <4>2, RunsStay
    <3> QED BY <3>1, <3>2
  <2>2. ASSUME NEW z \in Schedulers, sched'[z].pc \in {"create", "mark"}
        PROVE  runs'[Current(z)'][sched'[z].key].status # "absent"
    <3>1. CASE z = s
      BY <1>3, <2>2, <3>1, CreatesWhatItClaimed
    <3>2. CASE z # s
      BY <1>2, <1>3, <2>2, <3>2, SchedulerAlone
    <3> QED BY <3>1, <3>2
  <2>3. \A z \in Schedulers : sched'[z].pc \in {"create", "mark"}
            => runs'[Current(z)'][sched'[z].key].status # "absent"
    BY <2>2
  <2> QED BY <2>1, <2>3 DEF RunsPrecedeJobs
<1>4. CASE sched' = sched
  <2>1. ASSUME NEW w \in Workloads, NEW k \in Keys, jobs'[w][k].pc # "absent"
        PROVE  jobs[w][k].pc # "absent" \/ \E s \in Schedulers : Scheduler(s) \/ Crash(s)
    <3>1. CASE \E v \in Workloads : Edit(v) \/ LockRow(v) \/ CommitReset(v) \/ AbortReset(v)
      <4>1. jobs[w][k] \in JobType
        BY DEF Typed, JobsTyped
      <4>2. Cleared(jobs[w][k]).pc # "absent" => jobs[w][k].pc # "absent"
        BY <4>1, JobCleared
      <4> QED BY <2>1, <3>1, <4>2, ResetKeepsJobs
    <3>2. CASE \E v \in Workloads, i \in Keys : Trainer(v, i) \/ Kill(v, i) \/ RemoveJob(v, i)
      <4>1. PICK v \in Workloads, i \in Keys : Trainer(v, i) \/ Kill(v, i) \/ RemoveJob(v, i)
        BY <3>2
      <4>2. jobs[v][i].pc # "absent"
        BY <4>1, TrainerJobs
      <4>3. w # v \/ k # i => jobs'[w][k] = jobs[w][k]
        BY <4>1, TrainerJobs
      <4> QED BY <2>1, <4>2, <4>3
    <3>3. CASE Tick \/ UNCHANGED vars
      BY <2>1, <3>3 DEF Tick, vars
    <3> QED BY <3>1, <3>2, <3>3 DEF Next
  <2>2. CASE \E s \in Schedulers : Scheduler(s) \/ Crash(s)
    BY <1>3, <2>2
  <2>3. CASE ~\E s \in Schedulers : Scheduler(s) \/ Crash(s)
    <3>1. \A w \in Workloads, k \in Keys : jobs'[w][k].pc # "absent" => runs'[w][k].status # "absent"
      BY <1>1, <2>1, <2>3
    <3>2. \A s \in Schedulers : sched'[s].pc \in {"create", "mark"}
              => runs'[Current(s)'][sched'[s].key].status # "absent"
      BY <1>2, <1>4
    <3> QED BY <3>1, <3>2 DEF RunsPrecedeJobs
  <2> QED BY <2>2, <2>3
<1>5. sched' = sched \/ \E s \in Schedulers : Scheduler(s) \/ Crash(s)
  <2>1. ASSUME NEW v \in Workloads, Edit(v) \/ LockRow(v) \/ CommitReset(v) \/ AbortReset(v)
        PROVE  sched' = sched
    BY <2>1 DEF Edit, LockRow, CommitReset, AbortReset
  <2>2. ASSUME NEW v \in Workloads, NEW i \in Keys, Trainer(v, i) \/ Kill(v, i) \/ RemoveJob(v, i)
        PROVE  sched' = sched
    BY <2>2 DEF Trainer, StartTrainer, RepairHistory, CannotFit, Publish, MarkSucceeded,
       TrainerFails, Kill, RemoveJob
  <2>3. CASE Tick \/ UNCHANGED vars
    BY <2>3 DEF Tick, vars
  <2> QED BY <2>1, <2>2, <2>3 DEF Next
<1> QED BY <1>3, <1>4, <1>5

\* A trainer that holds its run since before a reset would stop the reset; one
\* that took it later has compared its revision with the new one.
HeldIsCurrent ==
    \A w \in Workloads, k \in Keys :
        RowHeld(w, k) /\ policy[w] \in Clearing => jobs[w][k].rev = policy[w]

LEMMA StepHeld ==
  ASSUME Typed, RunsPrecedeJobs, HeldIsCurrent, [Next]_vars PROVE HeldIsCurrent'
<1> SUFFICES ASSUME NEW w \in Workloads, NEW k \in Keys, RowHeld(w, k)', policy'[w] \in Clearing
             PROVE  jobs'[w][k].rev = policy'[w]
  BY DEF HeldIsCurrent
<1> USE DEF Typed
<1>0. /\ jobs'[w][k].rev \in PyTorch /\ jobs'[w][k].pc \in {"repairing", "fitting"}
      /\ runs'[w][k].status = "claimed"
  BY DEF RowHeld
\* The run is claimed before a Job of it exists.
<1>1. ASSUME jobs[w][k].pc # "absent" PROVE runs[w][k].status = "claimed"
  BY <1>0, <1>1, RunsStay DEF RunsPrecedeJobs
<1>2. ASSUME jobs'[w][k] = jobs[w][k], policy'[w] = policy[w] PROVE jobs'[w][k].rev = policy'[w]
  <2>1. jobs[w][k].pc # "absent"
    BY <1>0, <1>2
  <2>2. RowHeld(w, k)
    BY <1>0, <1>1, <1>2, <2>1 DEF RowHeld
  <2> QED BY <1>2, <2>2 DEF HeldIsCurrent
<1>3. ASSUME NEW s \in Schedulers, Scheduler(s) \/ Crash(s) PROVE jobs'[w][k].rev = policy'[w]
  <2>1. policy' = policy
    BY <1>3 DEF Scheduler, StartPoll, ClaimImmediate, ClaimScheduled, CreateJob, MarkFailed, Crash
  <2>2. jobs'[w][k] = jobs[w][k] \/ jobs'[w][k].pc = "pending"
    BY <1>3, SchedulerJobs, AddEffect
  <2> QED BY <1>0, <1>2, <2>1, <2>2
<1>4. ASSUME NEW v \in Workloads, Edit(v) \/ LockRow(v) \/ CommitReset(v) \/ AbortReset(v)
      PROVE  jobs'[w][k].rev = policy'[w]
  <2>1. CASE CommitReset(v) /\ v = w
    <3>1. ~RowHeld(w, k) /\ jobs'[w][k] = Cleared(jobs[w][k]) /\ jobs[w][k] \in JobType
      BY <2>1, ResetEffect DEF CommitReset, JobsTyped
    <3>2. jobs[w][k].pc = jobs'[w][k].pc /\ jobs[w][k].rev = jobs'[w][k].rev
      BY <1>0, <3>1, JobCleared
    <3>3. RowHeld(w, k)
      BY <1>0, <1>1, <3>2 DEF RowHeld
    <3> QED BY <3>1, <3>3
  <2>2. CASE ~(CommitReset(v) /\ v = w)
    <3>1. jobs'[w][k] = jobs[w][k]
      BY <1>4, <2>2, ResetKeepsJobs
    <3>2. policy'[w] = policy[w]
      <4>1. CASE Edit(v)
        <5>1. PICK p : (p \notin Clearing /\ policy' = [policy EXCEPT ![v] = p]) \/ UNCHANGED policy
          BY <4>1 DEF Edit
        <5> QED BY <5>1 DEF PolicyTyped
      <4>2. CASE CommitReset(v)
        BY <2>2, <4>2, ResetEffect DEF CommitReset
      <4>3. CASE LockRow(v) \/ AbortReset(v)
        BY <4>3 DEF LockRow, AbortReset
      <4> QED BY <1>4, <4>1, <4>2, <4>3
    <3> QED BY <1>2, <3>1, <3>2
  <2> QED BY <2>1, <2>2
<1>5. ASSUME NEW v \in Workloads, NEW i \in Keys, Trainer(v, i) \/ Kill(v, i) \/ RemoveJob(v, i)
      PROVE  jobs'[w][k].rev = policy'[w]
  <2>1. policy' = policy
    BY <1>5 DEF Trainer, StartTrainer, RepairHistory, CannotFit, Publish, MarkSucceeded,
       TrainerFails, Kill, RemoveJob
  <2>2. CASE w # v \/ k # i
    BY <1>2, <1>5, <2>1, <2>2, TrainerJobs
  <2>3. CASE w = v /\ k = i
    <3>1. ASSUME NEW pc \in {"failing", "complete", "failed"}, SetJob(w, k, pc) PROVE FALSE
      BY <1>0, <3>1, JobPcEffect DEF JobPcs
    <3>2. CASE StartTrainer(w, k)
      <4>1. policy[w] = jobs[w][k].rev
        BY <3>1, <3>2 DEF StartTrainer
      <4>2. PICK pc \in JobPcs : SetJob(w, k, pc)
        BY <3>2 DEF StartTrainer, JobPcs
      <4> QED BY <2>1, <4>1, <4>2, JobPcEffect
    <3>3. CASE RepairHistory(w, k)
      <4>1. policy[w] = jobs[w][k].rev
        BY <3>1, <3>3 DEF RepairHistory
      <4>2. PICK pc \in JobPcs : SetJob(w, k, pc)
        BY <3>3 DEF RepairHistory, JobPcs
      <4> QED BY <2>1, <4>1, <4>2, JobPcEffect
    <3>4. ~CannotFit(w, k) /\ ~MarkSucceeded(w, k) /\ ~TrainerFails(w, k) /\ ~Kill(w, k)
      BY <3>1 DEF CannotFit, MarkSucceeded, TrainerFails, Kill
    <3>5. ~Publish(w, k)
      BY <1>0, PublishEffect
    <3>6. ~RemoveJob(w, k)
      <4> DEFINE r == [jobs[w][k] EXCEPT !.pc = "absent", !.rev = Inactive]
      <4>1. r.pc = "absent"
        BY DEF JobsTyped, JobType
      <4>2. RemoveJob(w, k) => jobs' = [jobs EXCEPT ![w] = [jobs[w] EXCEPT ![k] = r]]
        BY DEF RemoveJob, JobsTyped, JobType
      <4> HIDE DEF r
      <4> QED BY <1>0, <4>1, <4>2 DEF JobsTyped
    <3> QED BY <1>5, <2>3, <3>2, <3>3, <3>4, <3>5, <3>6 DEF Trainer
  <2> QED BY <2>2, <2>3
<1>6. CASE Tick \/ UNCHANGED vars
  BY <1>2, <1>6 DEF Tick, vars
<1> QED BY <1>3, <1>4, <1>5, <1>6 DEF Next

LEMMA InitHeld == ASSUME Init PROVE HeldIsCurrent
  BY DEF Init, NoJob, HeldIsCurrent, RowHeld

LEMMA HeldAlways == Spec => [](Typed /\ RunsPrecedeJobs /\ HeldIsCurrent)
<1>1. Init => Typed /\ RunsPrecedeJobs /\ HeldIsCurrent
  BY InitTyped, InitPrecedes, InitHeld
<1>2. Typed /\ RunsPrecedeJobs /\ HeldIsCurrent /\ [Next]_vars
        => (Typed /\ RunsPrecedeJobs /\ HeldIsCurrent)'
  BY StepTyped, StepPrecedes, StepHeld
<1> QED BY <1>1, <1>2, PTL DEF Spec

\* A PyTorch trainer that holds its run does not bring a model of a former
\* revision back after a reset: the reset waits for its run, and one that takes
\* the run later compares its revision with the new one.
THEOREM ResetsAreFinal == Spec => ResetIsFinal
<1> DEFINE Final ==
      \A w \in Workloads, k \in Keys :
        (RowHeld(w, k) /\ jobs'[w][k].published > jobs[w][k].published
                       /\ policy[w] \in Clearing)
            => jobs[w][k].rev = policy[w]
<1>1. HeldIsCurrent => Final
  BY DEF HeldIsCurrent
<1> QED BY <1>1, HeldAlways, PTL DEF ResetIsFinal

-----------------------------------------------------------------------------
(* Truthful runs, while the API server answers and keeps the Job objects.    *)

\* What the progress of a Job says of its candidate, and the status of a run of
\* its Job.
Told(w, job, status) ==
    /\ job.published \in {0, 1}
    /\ job.pc \in {"absent", "pending", "repairing", "fitting"} => job.published = 0
    /\ job.pc \in {"publishing", "complete"} => job.published = 1
    /\ job.pc = "failing" => job.published = 0 \/ job.cleared
    /\ w \in Rejected => job.pc = "absent"
    /\ status = "succeeded" => job.pc = "complete"
    /\ status = "failed" => \/ w \in Rejected
                            \/ /\ job.pc = "failed"
                               /\ job.published = 0 \/ job.cleared

Truth == /\ \A w \in Workloads, k \in Keys : Told(w, jobs[w][k], runs[w][k].status)
         /\ \A s \in Schedulers : sched[s].pc = "mark" => Current(s) \in Rejected

LEMMA InitTruth == ASSUME Init PROVE Truth
<1>1. \A s \in Schedulers : sched[s].pc = "asleep"
  BY DEF Init, Asleep
<1>2. ASSUME NEW w \in Workloads, NEW k \in Keys
      PROVE  jobs[w][k].pc = "absent" /\ jobs[w][k].published = 0 /\ runs[w][k].status = "absent"
  BY DEF Init, NoJob, NoRun
<1> QED BY <1>1, <1>2 DEF Truth, Told

\* A job that stays, with a status that neither ends nor is refused.
LEMMA StillTold ==
  ASSUME Truth, NEW w \in Workloads, NEW k \in Keys, jobs'[w][k] = jobs[w][k],
         \/ runs'[w][k].status = runs[w][k].status
         \/ runs'[w][k].status \in {"claimed", "running"}
         \/ runs'[w][k].status = "failed" /\ w \in Rejected
  PROVE  Told(w, jobs'[w][k], runs'[w][k].status)
<1>1. Told(w, jobs[w][k], runs[w][k].status)
  BY DEF Truth
<1> QED BY <1>1 DEF Told

LEMMA ClearedIsTold ==
  ASSUME NEW w \in Workloads, NEW job \in JobType, NEW status, Told(w, job, status)
  PROVE  Told(w, Cleared(job), status)
<1>1. /\ Cleared(job).published = job.published
      /\ Cleared(job).pc = IF job.pc = "publishing" THEN "failing" ELSE job.pc
      /\ job.cleared \/ job.published > 0 => Cleared(job).cleared
  BY JobCleared
<1> HIDE DEF Cleared
<1>2. job.published = 1 => job.published > 0
  OBVIOUS
<1>3. CASE job.pc = "publishing"
  <2>1. job.published = 1 /\ Cleared(job).pc = "failing" /\ Cleared(job).cleared
    BY <1>1, <1>2, <1>3 DEF Told
  <2> QED BY <1>1, <1>3, <2>1 DEF Told
<1>4. CASE job.pc # "publishing"
  BY <1>1, <1>4 DEF Told
<1> QED BY <1>3, <1>4

\* One step of a Job of which nothing is published in that step.
LEMMA MovesTold ==
  ASSUME Typed, Truth, NEW w \in Workloads, NEW k \in Keys, NEW pc \in JobPcs,
         SetJob(w, k, pc),
         jobs[w][k].pc \in Unfinished,
         NEW st, st = runs'[w][k].status,
         \/ st = runs[w][k].status
         \/ st = "running"
         \/ st = "succeeded" /\ pc = "complete"
         \/ st = "failed" /\ pc = "failed" /\ jobs[w][k].pc = "failing",
         \/ pc \in {"repairing", "fitting"} /\ jobs[w][k].pc \in {"pending", "repairing"}
         \/ pc = "failing" /\ jobs[w][k].pc \in {"pending", "repairing", "fitting"}
         \/ pc = "complete" /\ jobs[w][k].pc = "publishing"
         \/ pc = "failed"
  PROVE  Told(w, jobs'[w][k], st)
<1>1. /\ jobs'[w][k].pc = pc
      /\ jobs'[w][k].published = jobs[w][k].published
      /\ jobs'[w][k].cleared = jobs[w][k].cleared
  BY JobPcEffect DEF Typed
<1>2. Told(w, jobs[w][k], runs[w][k].status)
  BY DEF Truth
<1>3. w \notin Rejected
  BY <1>2 DEF Told, Unfinished
<1>4. jobs[w][k].pc = "failing" => jobs'[w][k].published = 0 \/ jobs'[w][k].cleared
  BY <1>1, <1>2 DEF Told
<1>5. runs[w][k].status # "failed" /\ runs[w][k].status # "succeeded"
  BY <1>2, <1>3 DEF Told, Unfinished
<1> QED BY <1>1, <1>2, <1>3, <1>4, <1>5 DEF Told

LEMMA TrainerTold ==
  ASSUME Typed, Truth, Removal = FALSE, NEW v \in Workloads, NEW i \in Keys,
         Trainer(v, i) \/ Kill(v, i) \/ RemoveJob(v, i)
  PROVE  Truth'
<1> USE DEF Typed
<1>1. ASSUME NEW w \in Workloads, NEW k \in Keys, w # v \/ k # i
      PROVE  Told(w, jobs'[w][k], runs'[w][k].status)
  BY <1>1, TrainerJobs, StillTold
<1>2. UNCHANGED runs => runs'[v][i].status = runs[v][i].status
  OBVIOUS
<1>3. Told(v, jobs'[v][i], runs'[v][i].status)
  <2>1. CASE StartTrainer(v, i)
    <3>1. PICK pc \in {"repairing", "fitting", "failing"} : SetJob(v, i, pc)
      BY <2>1 DEF StartTrainer
    <3>2. runs'[v][i].status = runs[v][i].status \/ runs'[v][i].status = "running"
      BY <1>2, <2>1, StatusEffect DEF StartTrainer, Statuses
    <3>3. jobs[v][i].pc = "pending"
      BY <2>1 DEF StartTrainer
    <3> QED BY <3>1, <3>2, <3>3, MovesTold DEF JobPcs, Unfinished
  <2>2. CASE RepairHistory(v, i)
    <3>1. PICK pc \in {"fitting", "failing"} : SetJob(v, i, pc)
      BY <2>2 DEF RepairHistory
    <3>2. runs'[v][i].status = runs[v][i].status /\ jobs[v][i].pc = "repairing"
      BY <1>2, <2>2 DEF RepairHistory
    <3> QED BY <3>1, <3>2, MovesTold DEF JobPcs, Unfinished
  <2>3. CASE CannotFit(v, i)
    <3>1. SetJob(v, i, "failing") /\ jobs[v][i].pc \in {"repairing", "fitting"}
          /\ runs'[v][i].status = runs[v][i].status
      BY <1>2, <2>3 DEF CannotFit
    <3> QED BY <3>1, MovesTold DEF JobPcs, Unfinished
  <2>4. CASE Publish(v, i)
    <3>1. Told(v, jobs[v][i], runs[v][i].status) /\ jobs[v][i].pc = "fitting"
      BY <2>4 DEF Truth, Publish
    <3>2. jobs'[v][i].published = 1 /\ v \notin Rejected
      BY <2>4, <3>1, PublishEffect DEF Told
    <3>3. runs[v][i].status # "failed" /\ runs[v][i].status # "succeeded"
      BY <3>1, <3>2 DEF Told
    <3>4. \/ jobs'[v][i].pc = "publishing" /\ runs'[v][i].status = runs[v][i].status
          \/ jobs'[v][i].pc = "complete" /\ runs'[v][i].status = "succeeded"
      BY <1>2, <2>4, PublishEffect
    <3> QED BY <3>2, <3>3, <3>4 DEF Told
  <2>5. CASE MarkSucceeded(v, i)
    <3>1. SetJob(v, i, "complete") /\ jobs[v][i].pc = "publishing"
      BY <2>5 DEF MarkSucceeded
    <3>2. runs'[v][i].status = runs[v][i].status \/ runs'[v][i].status = "succeeded"
      BY <1>2, <2>5, StatusEffect DEF MarkSucceeded, Statuses
    <3> QED BY <3>1, <3>2, MovesTold DEF JobPcs, Unfinished
  <2>6. CASE TrainerFails(v, i)
    <3>1. SetJob(v, i, "failed") /\ jobs[v][i].pc = "failing" /\ SetStatus(v, i, "failed")
      BY <2>6 DEF TrainerFails
    <3>2. runs'[v][i].status = "failed"
      BY <3>1, StatusEffect DEF Statuses
    <3> QED BY <3>1, <3>2, MovesTold DEF JobPcs, Unfinished
  <2>7. CASE Kill(v, i)
    <3>1. SetJob(v, i, "failed") /\ jobs[v][i].pc \in Unfinished
          /\ runs'[v][i].status = runs[v][i].status
      BY <1>2, <2>7 DEF Kill
    <3> QED BY <3>1, MovesTold DEF JobPcs
  <2>8. ~RemoveJob(v, i)
    BY DEF RemoveJob
  <2> QED BY <2>1, <2>2, <2>3, <2>4, <2>5, <2>6, <2>7, <2>8 DEF Trainer
<1>4. sched' = sched
  BY DEF Trainer, StartTrainer, RepairHistory, CannotFit, Publish, MarkSucceeded,
     TrainerFails, Kill, RemoveJob
<1>5. \A s \in Schedulers : sched'[s].pc = "mark" => Current(s)' \in Rejected
  BY <1>4, OthersWait DEF Truth
<1> QED BY <1>1, <1>3, <1>5 DEF Truth

\* What a scheduler does to the status of a run.
LEMMA SchedulerRuns ==
  ASSUME Typed, Truth, NEW s \in Schedulers, Scheduler(s) \/ Crash(s),
         NEW w \in Workloads, NEW k \in Keys
  PROVE  \/ runs'[w][k].status = runs[w][k].status
         \/ runs'[w][k].status = "claimed"
         \/ runs'[w][k].status = "failed" /\ w \in Rejected
<1> USE DEF Typed
<1>0. Current(s) \in Workloads /\ sched[s].key \in Keys
  BY CurrentIsWorkload DEF SchedTyped, SchedType
<1>1. ASSUME NEW i \in Keys, Claimed(Current(s), i)
      PROVE  runs'[w][k].status = runs[w][k].status \/ runs'[w][k].status = "claimed"
  <2>1. CASE w = Current(s) /\ k = i
    BY <1>0, <1>1, <2>1, NowIsNat, ClaimEffect
  <2>2. CASE ~(w = Current(s) /\ k = i)
    <3>1. runs'[w][k] = runs[w][k]
      BY <1>0, <1>1, <2>2, NowIsNat, ClaimEffect
    <3> QED BY <3>1
  <2> QED BY <2>1, <2>2
<1>2. CASE ClaimImmediate(s)
  <2> DEFINE i == sched[s].list[Current(s)]
  <2>1. UNCHANGED runs \/ (i \in Immediate /\ Claimed(Current(s), i))
    BY <1>2 DEF ClaimImmediate
  <2>2. i \in Immediate => i \in Keys
    BY RunAssumption DEF Keys
  <2> QED BY <1>1, <2>1, <2>2
<1>3. CASE ClaimScheduled(s)
  <2>1. sched[s].at \in Nat /\ sched[s].at <= now
    BY <1>3 DEF ClaimScheduled, PollsBegan, SchedTyped, SchedType
  <2>2. sched[s].at \in 0 .. MaxTime
    BY <2>1, ScheduleAssumption DEF BoundsTyped
  <2>3. SlotOf(sched[s].at) \in Keys
    BY <2>2, ReachableSlot DEF Keys
  <2> QED BY <1>1, <1>3, <2>3 DEF ClaimScheduled
<1>4. CASE MarkFailed(s)
  <2>1. Current(s) \in Rejected /\ SetStatus(Current(s), sched[s].key, "failed")
    BY <1>4 DEF MarkFailed, MarkCreateFailed, Truth
  <2>2. CASE w = Current(s) /\ k = sched[s].key
    BY <1>0, <2>1, <2>2, StatusEffect DEF Statuses
  <2>3. CASE ~(w = Current(s) /\ k = sched[s].key)
    <3>1. runs'[w][k] = runs[w][k]
      BY <1>0, <2>1, <2>3, StatusEffect DEF Statuses
    <3> QED BY <3>1
  <2> QED BY <2>2, <2>3
<1>5. CASE StartPoll(s) \/ CreateJob(s) \/ Crash(s)
  BY <1>5 DEF StartPoll, CreateJob, Crash
<1> QED BY <1>2, <1>3, <1>4, <1>5 DEF Scheduler

\* A Job that a scheduler adds is the first of its name, and its run is claimed
\* or was ended by nobody.
LEMMA SchedulerTold ==
  ASSUME Typed, Truth, "api" \notin Faults, NEW s \in Schedulers, Scheduler(s) \/ Crash(s)
  PROVE  Truth'
<1> USE DEF Typed
<1>1. ASSUME NEW w \in Workloads, NEW k \in Keys
      PROVE  Told(w, jobs'[w][k], runs'[w][k].status)
  <2>1. CASE jobs'[w][k] = jobs[w][k]
    BY <2>1, SchedulerRuns, StillTold
  <2>2. CASE jobs'[w][k] # jobs[w][k]
    <3>1. /\ Current(s) = w /\ sched[s].key = k
          /\ AddJob(w, k, sched[s].list[w]) /\ sched[s].list[w] \in Policies \cup {Inactive}
          /\ sched[s].pc = "create"
      BY <2>2, SchedulerJobs, AddEffect
    <3>2. CreateJob(s) /\ jobs' # jobs
      BY <2>2, <3>1 DEF Scheduler, StartPoll, ClaimImmediate, ClaimScheduled, MarkFailed, Crash
    <3>3. w \notin Rejected /\ UNCHANGED runs
      BY <3>1, <3>2 DEF CreateJob, Disturb
    <3>4. /\ jobs[w][k].pc = "absent" /\ jobs'[w][k].pc = "pending"
          /\ jobs'[w][k].published = jobs[w][k].published
      BY <2>2, <3>1, AddEffect
    <3>5. Told(w, jobs[w][k], runs[w][k].status)
      BY DEF Truth
    <3> QED BY <3>3, <3>4, <3>5 DEF Told
  <2> QED BY <2>1, <2>2
<1>2. ASSUME NEW z \in Schedulers, sched'[z].pc = "mark" PROVE Current(z)' \in Rejected
  <2>1. CASE z # s
    BY <1>2, <2>1, SchedulerAlone, OthersWait DEF Truth
  <2>2. CASE z = s
    <3>1. ASSUME NEW pcs, GoesOn(s, pcs), "mark" \notin pcs PROVE FALSE
      BY <1>2, <2>2, <3>1 DEF GoesOn
    <3>2. CASE CreateJob(s)
      <4>1. ~AfterCreate(s)
        BY <3>1, NowIsNat, AfterCreateEffect
      <4>2. sched' = [sched EXCEPT ![s].pc = "mark"] /\ Current(s) \in Rejected
        BY <3>2, <4>1 DEF CreateJob, Disturb
      <4> QED BY <2>2, <4>2, PcEffect DEF Current
    <3>3. ~ClaimImmediate(s)
      <4> DEFINE i == sched[s].list[Current(s)]
      <4>1. ClaimImmediate(s) =>
               \/ NextWorkload(s)
               \/ sched' = [sched EXCEPT ![s].pc = "scheduled"]
               \/ i \in Immediate /\ sched' = [sched EXCEPT ![s].pc = "create", ![s].key = i]
        BY DEF ClaimImmediate
      <4>2. i \in Immediate => i \in Keys
        BY RunAssumption DEF Keys
      <4> HIDE DEF i
      <4> QED BY <3>1, <4>1, <4>2, NowIsNat, AdvanceEffect, PcEffect, CreateEffect
    <3>4. ~ClaimScheduled(s)
      <4> DEFINE i == SlotOf(sched[s].at)
      <4>1. SUFFICES ASSUME ClaimScheduled(s) PROVE FALSE
        OBVIOUS
      <4>2. \/ NextWorkload(s)
            \/ sched' = [sched EXCEPT ![s].pc = "create", ![s].key = i]
        BY <4>1 DEF ClaimScheduled
      <4>3. sched[s].at \in Nat /\ sched[s].at <= now
        BY <4>1 DEF ClaimScheduled, PollsBegan, SchedTyped, SchedType
      <4>4. sched[s].at \in 0 .. MaxTime
        BY <4>3, ScheduleAssumption DEF BoundsTyped
      <4>5. i \in Keys
        BY <4>4, ReachableSlot DEF Keys
      <4> HIDE DEF i
      <4> QED BY <3>1, <4>2, <4>5, NowIsNat, AdvanceEffect, CreateEffect
    <3>5. ~MarkFailed(s) /\ ~Crash(s)
      <4>1. now \in Nat /\ now + Poll \in Nat
        BY NowIsNat, ScheduleAssumption
      <4> QED BY <3>1, <4>1, SleepEffect DEF MarkFailed, Crash
    <3>6. ~StartPoll(s)
      <4>1. StartPoll(s) => sched'[s].pc = "immediate"
        BY DEF StartPoll, Asleep, SchedTyped
      <4> QED BY <1>2, <2>2, <4>1
    <3> QED BY <3>2, <3>3, <3>4, <3>5, <3>6 DEF Scheduler
  <2> QED BY <2>1, <2>2
<1>3. \A z \in Schedulers : sched'[z].pc = "mark" => Current(z)' \in Rejected
  BY <1>2
<1> QED BY <1>1, <1>3 DEF Truth

LEMMA ResetTold ==
  ASSUME Typed, Truth, NEW v \in Workloads,
         Edit(v) \/ LockRow(v) \/ CommitReset(v) \/ AbortReset(v)
  PROVE  Truth'
<1>1. runs' = runs /\ sched' = sched
  BY DEF Edit, LockRow, CommitReset, AbortReset
<1>2. ASSUME NEW w \in Workloads, NEW k \in Keys
      PROVE  Told(w, jobs'[w][k], runs'[w][k].status)
  <2>1. jobs[w][k] \in JobType /\ Told(w, jobs[w][k], runs[w][k].status)
    BY DEF Typed, JobsTyped, Truth
  <2> QED BY <1>1, <2>1, ResetKeepsJobs, ClearedIsTold
<1>3. \A s \in Schedulers : sched'[s].pc = "mark" => Current(s)' \in Rejected
  BY <1>1, OthersWait DEF Truth
<1> QED BY <1>2, <1>3 DEF Truth

LEMMA StepTruth ==
  ASSUME Typed, Truth, "api" \notin Faults, Removal = FALSE, [Next]_vars
  PROVE  Truth'
<1>1. CASE Tick \/ UNCHANGED vars
  BY <1>1 DEF Tick, vars, Truth, Current
<1> QED BY <1>1, TrainerTold, SchedulerTold, ResetTold DEF Next

\* As long as the API server answers and keeps the Job objects, a run publishes
\* at most one candidate, one marked failed has none that outlives it, and one
\* marked succeeded has published: whatever schedulers hand out twice, whoever
\* crashes, is killed or resets.
THEOREM RunsAreTruthful ==
  ASSUME "api" \notin Faults, Removal = FALSE
  PROVE  Spec => []TruthfulRuns
<1>1. Init => Typed /\ Truth
  BY InitTyped, InitTruth
<1>2. Typed /\ Truth /\ [Next]_vars => (Typed /\ Truth)'
  BY StepTyped, StepTruth
<1>3. Typed /\ Truth => TruthfulRuns
  <2>1. SUFFICES ASSUME Truth, NEW w \in Workloads, NEW k \in Keys
                 PROVE  /\ jobs[w][k].published <= 1
                        /\ runs[w][k].status = "failed"
                              => jobs[w][k].published = 0 \/ jobs[w][k].cleared
                        /\ runs[w][k].status = "succeeded" => jobs[w][k].published = 1
    BY DEF TruthfulRuns
  <2>2. Told(w, jobs[w][k], runs[w][k].status)
    BY <2>1 DEF Truth
  <2>3. jobs[w][k].published <= 1
    BY <2>2 DEF Told
  <2> QED BY <2>2, <2>3 DEF Told
<1> QED BY <1>1, <1>2, <1>3, PTL DEF Spec
=============================================================================
