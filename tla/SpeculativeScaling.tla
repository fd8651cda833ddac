------------------------- MODULE SpeculativeScaling -------------------------
(***************************************************************************)
(* The forecasters' cycles and the loop they close over the cluster: a     *)
(* forecast becomes a snapshot under the health, capacity and budget       *)
(* guards, the external scaler serves the snapshot, KEDA's HPA follows the *)
(* larger of it and the native trigger, and the pods that result are what  *)
(* the next cycle measures.  A rollout runs two forecasters side by side,  *)
(* without a lock between them.                                            *)
(*                                                                         *)
(* Demand is counted in the replicas it asks for: desired = ceil(raw /     *)
(* threshold).  Safe demand is counted in quarters of a replica: the only  *)
(* fractions are those of the 25% limit for estimated inputs.  Ages, of a  *)
(* snapshot and of the time a cycle dates its snapshots with, are counted  *)
(* in starts of a cycle; the clocks agree (SnapshotServing has clocks that *)
(* do not).  All pods are of one size and Capacity is how many of them the *)
(* nodes hold.                                                             *)
(***************************************************************************)
EXTENDS Integers, Sequences, FiniteSetsExt

CONSTANTS
    Forecasters,
    Order,             \* the workloads, in the order of the cycle
    MinReplicas, MaxReplicas,   \* [workloads -> Nat]
    Levels,            \* levels of demand, in replicas
    Predictions,       \* [Levels -> levels a model may predict there]
    Gaps,              \* inputs may hold interpolated points
    Outages,           \* a forecast may be withheld (source, model, storage)
    ApiErrors,         \* a guard's call to the API server may fail
    Budget,            \* cluster budget of speculative replicas
    Capacity,          \* pods that fit on the nodes
    Permille,          \* speculative headroom fraction, in thousandths
    MaxUnschedulable,  \* pending pods of a cluster that counts as healthy
    MaxAge,            \* age of the oldest snapshot served
    FirstSnapshots,    \* latest snapshots the table may hold at first
    MaxShifts          \* bound: changes of the load

Workloads == {Order[i] : i \in 1 .. Len(Order)}

SnapType == [safe : Nat, age : 0 .. MaxAge + 1,
             reason : {"none", "approved", "denied"}]
CycleType == [pc : {"idle", "observe", "health", "capacity", "budget", "save"},
              pos : 1 .. Len(Order), age : 0 .. MaxAge + 1,
              desired : Nat, current : Nat,
              estimated : BOOLEAN, allowed : BOOLEAN,
              missed : SUBSET Workloads]   \* history, see Missing

NoSnapshot == [safe |-> 0, age |-> MaxAge + 1, reason |-> "none"]
Idle == [pc |-> "idle", pos |-> 1, age |-> 0, desired |-> 0, current |-> 0,
         estimated |-> FALSE, allowed |-> FALSE, missed |-> {}]

ASSUME ScalingAssumption ==
    /\ Len(Order) \in Nat \ {0} /\ Levels \subseteq Nat
    /\ MinReplicas \in [Workloads -> Nat] /\ MaxReplicas \in [Workloads -> Nat]
    /\ \A w \in Workloads : MinReplicas[w] <= MaxReplicas[w]
    /\ Predictions \in [Levels -> SUBSET Levels]
    /\ {Gaps, Outages, ApiErrors} \subseteq BOOLEAN
    /\ {Budget, Capacity, MaxUnschedulable, MaxAge, MaxShifts} \subseteq Nat
    /\ Permille \in 1 .. 1000
    /\ FirstSnapshots \subseteq SnapType
    /\ \A r \in FirstSnapshots : r.reason = "none" => r.safe = 0

VARIABLES
    load,     \* replicas the native trigger asks for
    pods,     \* replicas of the Deployment, scheduled or not
    snap,     \* latest forecast snapshot of each workload
    cycle,    \* the forecasters
    shifts    \* changes of the load so far

vars == <<load, pods, snap, cycle, shifts>>

Init ==
    /\ load \in [Workloads -> Levels]
    /\ pods = MinReplicas
    /\ snap \in [Workloads -> FirstSnapshots]
    /\ cycle = [f \in Forecasters |-> Idle]
    /\ shifts = 0

Larger(m, n) == IF m > n THEN m ELSE n
Over(m, n) == Larger(m - n, 0)
Ceiling(quarters) == (quarters + 3) \div 4
SumOver(f, S) == MapThenSumSet(LAMBDA x : f[x], S)
Total == SumOver(pods, Workloads)

Shift(w) ==
    /\ shifts < MaxShifts
    /\ \E l \in Levels \ {load[w]} : load' = [load EXCEPT ![w] = l]
    /\ shifts' = shifts + 1
    /\ UNCHANGED <<pods, snap, cycle>>

-----------------------------------------------------------------------------
(* A forecaster: one workload after the other, one call at a time.         *)

Turn(f) == Order[cycle[f].pos]

\* Faulty variant: the loop runs one past the end of the list.
PastTheEnd(f) == IF cycle[f].pos <= Len(Order)
                 THEN [Idle EXCEPT !.pc = "observe", !.pos = cycle[f].pos + 1,
                                   !.age = cycle[f].age]
                 ELSE Idle

\* The workload's turn is over, with or without a snapshot.
NextTurn(f) == IF cycle[f].pos < Len(Order)
               THEN [Idle EXCEPT !.pc = "observe", !.pos = cycle[f].pos + 1,
                                 !.age = cycle[f].age]
               ELSE Idle

Older(age) == IF age <= MaxAge THEN age + 1 ELSE age

\* The time is read once: it dates all snapshots of the cycle.
StartCycle(f) ==
    /\ cycle[f].pc = "idle"
    /\ cycle' = [g \in Forecasters |->
          IF g = f THEN [Idle EXCEPT !.pc = "observe"]
          ELSE IF cycle[g].pc = "idle" THEN Idle
          ELSE [cycle[g] EXCEPT !.age = Older(@)]]
    /\ snap' = [w \in Workloads |-> [snap[w] EXCEPT !.age = Older(@)]]
    /\ UNCHANGED <<load, pods, shifts>>

\* Estimated inputs may not ask for fewer replicas than there are.
Observe(f) ==
    /\ cycle[f].pc = "observe"
    /\ \E p \in Predictions[load[Turn(f)]], est \in {FALSE, Gaps} :
          cycle' = [cycle EXCEPT ![f] =
              [@ EXCEPT !.pc = "health", !.current = pods[Turn(f)],
                        !.desired = IF est THEN Larger(p, pods[Turn(f)]) ELSE p,
                        !.estimated = est]]
    /\ UNCHANGED <<load, pods, snap, shifts>>

\* No usable input, model, replica count or database: no snapshot.
Withhold(f) ==
    /\ cycle[f].pc \in {"observe", "save"} /\ Outages
    /\ cycle' = [cycle EXCEPT ![f] = NextTurn(f)]
    /\ UNCHANGED <<load, pods, snap, shifts>>

\* A refusal settles the decision: health leads to the same replicas
\* whatever the other guards answer.
Verdict(f, ok, next) ==
    IF ok THEN [cycle[f] EXCEPT !.pc = next, !.allowed = (next = "save")]
    ELSE [cycle[f] EXCEPT !.pc = "save", !.allowed = FALSE]

Unschedulable == Over(Total, Capacity)

Healthy(f) ==
    /\ cycle[f].pc = "health"
    /\ \E answered \in {TRUE, ~ApiErrors} :
          cycle' = [cycle EXCEPT ![f] =
              Verdict(f, answered /\ Unschedulable <= MaxUnschedulable, "capacity")]
    /\ UNCHANGED <<load, pods, snap, shifts>>

\* Pending pods count as requested, so the free capacity may be negative.
Headroom == Permille * (Capacity - Total)

CapacityAllows(f) ==
    /\ cycle[f].pc = "capacity"
    /\ LET extra == Over(cycle[f].desired, cycle[f].current)
       IN  \E answered \in {TRUE, ~ApiErrors} :
              cycle' = [cycle EXCEPT ![f] =
                  Verdict(f, extra = 0 \/ (answered /\ 1000 * extra <= Headroom),
                          "budget")]
    /\ UNCHANGED <<load, pods, snap, shifts>>

\* The join lists the workloads that have a snapshot.
Forecasted == {w \in Workloads : snap[w].reason # "none"}

\* Faulty variant: only the workload's own replicas are counted.
OwnReplicas(w, desired) == Over(4 * desired, 4 * MinReplicas[w])

\* The workload counts with what it desires, the others with their latest
\* snapshot, however old.
ProjectedSpeculativeReplicas(w, desired) ==
    SumOver([v \in Workloads |-> Over(IF v = w THEN 4 * desired ELSE snap[v].safe,
                                      4 * MinReplicas[v])], Forecasted)

\* The sum is read here, by a statement of its own, and the snapshot inserted
\* by another: what the sum leaves out is remembered in missed.
BudgetAllows(f) ==
    /\ cycle[f].pc = "budget"
    /\ cycle' = [cycle EXCEPT ![f] =
          [Verdict(f, /\ Budget > 0
                      /\ ProjectedSpeculativeReplicas(Turn(f), cycle[f].desired)
                            <= 4 * Budget,
                   "save")
            EXCEPT !.missed = {Turn(f)} \ Forecasted]]
    /\ UNCHANGED <<load, pods, snap, shifts>>

\* One step of a cautious recovery, or the defaults of the Service.
Step(f)    == IF cycle[f].estimated THEN 1 ELSE 3
Percent(f) == IF cycle[f].estimated THEN 25 ELSE 100

\* Faulty variant: a desire below the current replicas is not followed.
NeverDown(f) ==
    Larger(4 * Min({cycle[f].desired, MaxReplicas[Turn(f)]}), 4 * cycle[f].current)

\* Faulty variant: the absolute limit counts from what is desired.
StepFromDesired(f) == {4 * (cycle[f].desired + Step(f))}

StepLimits(f) ==
    {4 * (cycle[f].current + Step(f))}
        \cup IF cycle[f].current > 0
             THEN {cycle[f].current * (4 + Percent(f) \div 25)} ELSE {}

Approved(f) ==
    LET desired == Min({cycle[f].desired, MaxReplicas[Turn(f)]})
    IN  IF desired <= cycle[f].current THEN 4 * desired
        ELSE Min({4 * desired} \cup StepLimits(f))

ApplyGuardrails(f) ==
    IF cycle[f].allowed
    THEN [safe |-> Approved(f), reason |-> "approved", age |-> cycle[f].age]
    ELSE [safe |-> 4 * cycle[f].current, reason |-> "denied", age |-> cycle[f].age]

\* The latest of two snapshots is the one dated later, in whatever order they
\* were inserted.  Which one that is is not kept of two that are both too old.
Latest(row, other) ==
    IF row.reason = "none" THEN {other}
    ELSE {r \in {row, other} : r.age <= row.age /\ r.age <= other.age}

\* Which workloads are missing from the sum a forecaster compared: its own when
\* it had no snapshot yet, and others another forecaster has raised since then.
Missing(g, w, row) ==
    IF cycle[g].allowed /\ row.safe > snap[w].safe
    THEN cycle[g].missed \cup ({w} \ {Turn(g)})
    ELSE cycle[g].missed

SaveSnapshot(f) ==
    /\ cycle[f].pc = "save"
    /\ \E row \in Latest(snap[Turn(f)], ApplyGuardrails(f)) :
          /\ snap' = [snap EXCEPT ![Turn(f)] = row]
          /\ cycle' = [g \in Forecasters |->
                IF g = f THEN NextTurn(f)
                ELSE [cycle[g] EXCEPT !.missed = Missing(g, Turn(f), row)]]
    /\ UNCHANGED <<load, pods, shifts>>

\* The process is stopped anywhere; another one may take its place.
Stop(f) ==
    /\ cycle[f].pc # "idle"
    /\ cycle' = [cycle EXCEPT ![f] = Idle]
    /\ UNCHANGED <<load, pods, snap, shifts>>

Forecaster(f) == \/ StartCycle(f) \/ Observe(f) \/ Withhold(f) \/ Healthy(f)
                 \/ CapacityAllows(f) \/ BudgetAllows(f) \/ SaveSnapshot(f)

-----------------------------------------------------------------------------
(* KEDA and the HPA. *)

\* The external scaler withholds a snapshot past its age.
Served(w) == IF snap[w].age <= MaxAge THEN Ceiling(snap[w].safe) ELSE 0

Wanted(w) == Larger(MinReplicas[w],
                    Min({MaxReplicas[w], Larger(load[w], Served(w))}))

HPA(w) ==
    /\ pods[w] # Wanted(w)
    /\ pods' = [pods EXCEPT ![w] = Wanted(w)]
    /\ UNCHANGED <<load, snap, cycle, shifts>>

Next ==
    \/ \E f \in Forecasters : Forecaster(f) \/ Stop(f)
    \/ \E w \in Workloads : Shift(w) \/ HPA(w)

Spec == Init /\ [][Next]_vars

\* Some forecaster is running, and its loop has no exit but the end of the
\* process; KEDA and the HPA poll; the load may or may not change.
FairSpec ==
    /\ Spec
    /\ WF_vars(\E f \in Forecasters : Forecaster(f))
    /\ \A w \in Workloads : WF_vars(HPA(w))

-----------------------------------------------------------------------------
(* Properties. *)

\* Every variable keeps its type.
TypeOK ==
    /\ load \in [Workloads -> Levels] /\ pods \in [Workloads -> Nat]
    /\ snap \in [Workloads -> SnapType] /\ cycle \in [Forecasters -> CycleType]
    /\ shifts \in 0 .. MaxShifts

Stores(f, w) == /\ cycle[f].pc = "save" /\ Turn(f) = w /\ cycle'[f].pc # "save"
                /\ snap'[w] # snap[w]

Raises(f, w) == Stores(f, w) /\ snap'[w].safe > 4 * cycle[f].current

Extra(s, S) == SumOver([w \in Workloads |-> Over(s[w].safe, 4 * MinReplicas[w])], S)

\* A snapshot that asks for more replicas than were running keeps the sum over
\* the cluster within the budget, but for what the sum that was compared could
\* not hold: the workload itself when that was its first forecast, and others
\* that another forecaster raised between the comparison and the insert.
RaisesWithinBudget ==
    [][\A f \in Forecasters, w \in Workloads :
        Raises(f, w) =>
            Extra(snap', Workloads \ cycle[f].missed) <= 4 * Budget]_vars

\* So does every raise, without exception ("cap the total extra replicas caused
\* by prediction").
EveryRaiseWithinBudget ==
    [][\A f \in Forecasters, w \in Workloads :
        Raises(f, w) => Extra(snap', Workloads) <= 4 * Budget]_vars

\* A snapshot asks for at most three replicas, and at most as many again,
\* above those that were read; after a gap, for at most one more once the HPA
\* has rounded it, and never for fewer.
RaisesAreGradual ==
    [][\A f \in Forecasters, w \in Workloads :
        Stores(f, w) =>
            LET n == Ceiling(snap'[w].safe)  cur == cycle[f].current
            IN  /\ n <= cur + 3 /\ (cur > 0 => n <= 2 * cur)
                /\ cycle[f].estimated =>
                      n <= cur + 1 /\ n >= Min({cur, MaxReplicas[w]})]_vars

\* The next input for workload w that a forecaster reads has no gap.
NoGap(w) ==
    \A f \in Forecasters :
        cycle[f].pc = "observe" /\ Turn(f) = w => ~cycle'[f].estimated

\* Replicas are removed once nobody needs them: when the load stays where it
\* is, the forecast being right, inputs have no more gaps and no refusal is
\* served any more, each workload comes down to its load.  What a refusal or a
\* cautious recovery held does not outlive it.
SurgeIsReleased ==
    \A w \in Workloads, l \in Levels :
        /\ <>[](load[w] = l)
        /\ <>[](snap[w].reason = "denied" => snap[w].age > MaxAge)
        /\ <>[][NoGap(w)]_vars
        => <>[](pods[w] <= Larger(MinReplicas[w], Min({l, MaxReplicas[w]})))
=============================================================================
