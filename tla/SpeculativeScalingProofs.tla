----------------------- MODULE SpeculativeScalingProofs -----------------------
(***************************************************************************)
(* Theorems about SpeculativeScaling: what a cycle of a forecaster may add *)
(* beside any number of others, for any workloads, loads, limits and       *)
(* answers of the guards.                                                  *)
(***************************************************************************)
EXTENDS SpeculativeScaling, SetLemmas

-----------------------------------------------------------------------------
(* Sums of the extra replicas (SumOver).                                     *)

LEMMA SumOverIsSums ==
  ASSUME NEW S, IsFiniteSet(S), NEW f
  PROVE  \E g : Sums(f, g, S) /\ SumOver(f, S) = g[S]
<1>1. SumOver(f, S) = Summed(f, S)
  BY DEF SumOver, Summed, MapThenSumSet, MapThenFoldSet
<1> QED BY <1>1, SumIsSums

\* The sum over a set is that of an element and of the rest.
LEMMA SumOfRest ==
  ASSUME NEW S, IsFiniteSet(S), NEW f, \A x \in S : f[x] \in Nat, NEW y \in S
  PROVE  SumOver(f, S) = f[y] + SumOver(f, S \ {y})
<1>1. PICK g : Sums(f, g, S) /\ SumOver(f, S) = g[S]
  BY SumOverIsSums
<1>2. IsFiniteSet(S \ {y})
  BY FS_Subset
<1>3. PICK h : Sums(f, h, S \ {y}) /\ SumOver(f, S \ {y}) = h[S \ {y}]
  BY <1>2, SumOverIsSums
<1>4. g[S] = f[y] + g[S \ {y}]
  BY <1>1, AnyFirst
<1>5. g[S \ {y}] = h[S \ {y}]
  BY <1>1, <1>3, SumsAgree
<1> QED BY <1>1, <1>3, <1>4, <1>5

LEMMA SumNat ==
  ASSUME NEW S, IsFiniteSet(S), NEW f, \A x \in S : f[x] \in Nat
  PROVE  SumOver(f, S) \in Nat
<1>1. PICK g : Sums(f, g, S) /\ SumOver(f, S) = g[S]
  BY SumOverIsSums
<1>2. \A s \in SUBSET S : g[s] \in Nat
  BY <1>1, SumsNat
<1> QED BY <1>1, <1>2

LEMMA SumOfNone == ASSUME NEW f PROVE SumOver(f, {}) = 0
<1>1. PICK g : Sums(f, g, {}) /\ SumOver(f, {}) = g[{}]
  BY SumOverIsSums, FS_EmptySet
<1> QED BY <1>1 DEF Sums, Unfolded

\* A sum is at most another whose terms are at least as large, when those it
\* has and the other has not are zero.
LEMMA SumBound ==
  ASSUME NEW U, IsFiniteSet(U), NEW S \in SUBSET U, NEW T \in SUBSET U, NEW f, NEW g,
         \A x \in U : f[x] \in Nat /\ g[x] \in Nat,
         \A x \in S \cap T : f[x] <= g[x],
         \A x \in S \ T : f[x] = 0
  PROVE  SumOver(f, S) <= SumOver(g, T)
<1> DEFINE Bad == {s \in SUBSET U : ~(SumOver(f, s \cap S) <= SumOver(g, s \cap T))}
<1>1. ASSUME Bad # {} PROVE FALSE
  <2>1. \A s \in Bad : IsFiniteSet(s)
    BY FS_Subset
  <2>2. PICK s \in Bad : \A t \in Bad : Cardinality(s) <= Cardinality(t)
    BY <1>1, <2>1, FewestElements
  <2>3. s # {}
    <3>1. SUFFICES ASSUME s = {} PROVE FALSE
      OBVIOUS
    <3>2. s \cap S = {} /\ s \cap T = {}
      BY <3>1
    <3>3. SumOver(f, s \cap S) = 0 /\ SumOver(g, s \cap T) = 0
      BY <3>2, SumOfNone
    <3> QED BY <3>3
  <2>4. PICK x \in s : TRUE
    BY <2>3
  <2> DEFINE r == s \ {x}
  <2>5. r \notin Bad /\ r \in SUBSET U /\ x \in U
    <3>1. s \in SUBSET U
      BY <2>2
    <3>2. Cardinality(s) \in Nat /\ Cardinality(r) = Cardinality(s) - 1
      BY <2>4, <3>1, OneFewer
    <3>3. r \notin Bad
      BY <2>2, <3>2
    <3> QED BY <2>4, <3>1, <3>3
  <2>6. SumOver(f, r \cap S) <= SumOver(g, r \cap T)
    BY <2>5
  <2>7. /\ IsFiniteSet(s \cap S) /\ IsFiniteSet(s \cap T)
        /\ IsFiniteSet(r \cap S) /\ IsFiniteSet(r \cap T)
    BY FS_Subset
  <2>8. SumOver(f, r \cap S) \in Nat /\ SumOver(g, r \cap T) \in Nat
    BY <2>5, <2>7, SumNat
  <2>9. SumOver(f, s \cap S) = IF x \in S THEN f[x] + SumOver(f, r \cap S)
                               ELSE SumOver(f, r \cap S)
    <3>1. CASE x \in S
      <4>1. (s \cap S) \ {x} = r \cap S /\ x \in s \cap S
        BY <3>1
      <4> QED BY <2>7, <3>1, <4>1, SumOfRest
    <3>2. CASE x \notin S
      <4>1. s \cap S = r \cap S
        BY <3>2
      <4> QED BY <3>2, <4>1
    <3> QED BY <3>1, <3>2
  <2>10. SumOver(g, s \cap T) = IF x \in T THEN g[x] + SumOver(g, r \cap T)
                                ELSE SumOver(g, r \cap T)
    <3>1. CASE x \in T
      <4>1. (s \cap T) \ {x} = r \cap T /\ x \in s \cap T
        BY <3>1
      <4> QED BY <2>7, <3>1, <4>1, SumOfRest
    <3>2. CASE x \notin T
      <4>1. s \cap T = r \cap T
        BY <3>2
      <4> QED BY <3>2, <4>1
    <3> QED BY <3>1, <3>2
  <2>11. /\ f[x] \in Nat /\ g[x] \in Nat
         /\ x \in S /\ x \in T => f[x] <= g[x]
         /\ x \in S /\ x \notin T => f[x] = 0
    BY <2>5
  <2> HIDE DEF r
  <2>12. SumOver(f, s \cap S) <= SumOver(g, s \cap T)
    BY <2>6, <2>8, <2>9, <2>10, <2>11
  <2> QED BY <2>12
<1>2. U \notin Bad /\ U \cap S = S /\ U \cap T = T
  BY <1>1
<1> QED BY <1>2

-----------------------------------------------------------------------------
(* Types.                                                                    *)

LEMMA Sizes ==
  /\ IsFiniteSet(Workloads)
  /\ \A i \in 1 .. Len(Order) : Order[i] \in Workloads
<1>1. IsFiniteSet(1 .. Len(Order))
  BY ScalingAssumption, FS_Interval
<1> DEFINE f == [i \in 1 .. Len(Order) |-> Order[i]]
<1>2. f \in Surjection(1 .. Len(Order), Workloads)
  BY DEF Surjection, Workloads
<1> QED BY <1>1, <1>2, FS_Surjection DEF Workloads

\* The estimate of a cautious recovery never asks for fewer replicas.
Sound(c) == /\ c \in CycleType
            /\ c.pc \notin {"idle", "observe"} /\ c.estimated => c.current <= c.desired

CycleTyped == /\ cycle \in [Forecasters -> CycleType]
              /\ \A f \in Forecasters : Sound(cycle[f])

\* A workload without a snapshot counts for nothing.
SnapTyped == /\ snap \in [Workloads -> SnapType]
             /\ \A w \in Workloads : snap[w].reason = "none" => snap[w].safe = 0

Typed == /\ load \in [Workloads -> Levels] /\ pods \in [Workloads -> Nat]
         /\ SnapTyped /\ CycleTyped
         /\ shifts \in 0 .. MaxShifts

LEMMA TurnTyped == ASSUME CycleTyped, NEW f \in Forecasters PROVE Turn(f) \in Workloads
<1>1. cycle[f].pos \in 1 .. Len(Order)
  BY DEF CycleTyped, CycleType
<1> QED BY <1>1, Sizes DEF Turn

LEMMA IdleTyped ==
  /\ Sound(Idle) /\ Sound([Idle EXCEPT !.pc = "observe"]) /\ ~Idle.allowed
  /\ [Idle EXCEPT !.pc = "observe"].pc = "observe" /\ Idle.pc = "idle"
<1>1. 1 \in 1 .. Len(Order) /\ 0 \in 0 .. MaxAge + 1
  BY ScalingAssumption
<1>2. Idle \in CycleType
  BY <1>1 DEF Idle, CycleType
<1>3. Idle.pc = "idle" /\ ~Idle.allowed /\ ~Idle.estimated
  BY DEF Idle
<1>4. \A d \in CycleType : LET e == [d EXCEPT !.pc = "observe"]
                         IN  e \in CycleType /\ e.pc = "observe"
  BY DEF CycleType
<1> QED BY <1>2, <1>3, <1>4 DEF Sound

LEMMA NextTurnTyped ==
  ASSUME CycleTyped, NEW f \in Forecasters
  PROVE  /\ Sound(NextTurn(f)) /\ NextTurn(f).pc \in {"idle", "observe"}
         /\ ~NextTurn(f).allowed
<1>1. /\ cycle[f].pos \in 1 .. Len(Order) /\ Len(Order) \in Nat \ {0}
      /\ cycle[f].age \in 0 .. MaxAge + 1
  BY ScalingAssumption DEF CycleTyped, CycleType
<1>2. CASE cycle[f].pos < Len(Order)
  <2>1. cycle[f].pos + 1 \in 1 .. Len(Order)
    BY <1>1, <1>2
  <2>2. NextTurn(f) = [pc |-> "observe", pos |-> cycle[f].pos + 1, age |-> cycle[f].age,
                       desired |-> 0, current |-> 0,
                       estimated |-> FALSE, allowed |-> FALSE, missed |-> {}]
    BY <1>2 DEF NextTurn, Idle
  <2> QED BY <1>1, <2>1, <2>2 DEF Sound, CycleType
<1>3. CASE ~(cycle[f].pos < Len(Order))
  <2>1. NextTurn(f) = Idle
    BY <1>3 DEF NextTurn
  <2> QED BY <2>1, IdleTyped
<1> QED BY <1>2, <1>3

LEMMA VerdictTyped ==
  ASSUME CycleTyped, NEW f \in Forecasters, NEW ok \in BOOLEAN,
         NEW next \in {"capacity", "budget", "save"},
         cycle[f].pc \notin {"idle", "observe"}
  PROVE  /\ Sound(Verdict(f, ok, next))
         /\ Verdict(f, ok, next).pos = cycle[f].pos
         /\ Verdict(f, ok, next).desired = cycle[f].desired
         /\ Verdict(f, ok, next).pc = "save" /\ Verdict(f, ok, next).allowed
                => ok /\ next = "save"
<1>1. Sound(cycle[f])
  BY DEF CycleTyped
<1> DEFINE c == cycle[f]
<1>2. PICK p, al : /\ Verdict(f, ok, next) = [c EXCEPT !.pc = p, !.allowed = al]
                   /\ \/ ok /\ p = next /\ al = (next = "save")
                      \/ p = "save" /\ al = FALSE
  BY DEF Verdict
<1> HIDE DEF c
<1>3. c \in CycleType /\ (c.estimated => c.current <= c.desired)
  BY <1>1 DEF Sound, c
<1>4. p \in {"capacity", "budget", "save"} /\ al \in BOOLEAN
  BY <1>2
<1> QED BY <1>2, <1>3, <1>4 DEF Sound, CycleType, c

\* A step of one forecaster replaces its own record.
LEMMA CycleReplaced ==
  ASSUME CycleTyped, NEW f \in Forecasters, NEW c, Sound(c),
         cycle' = [cycle EXCEPT ![f] = c]
  PROVE  CycleTyped'
<1>1. cycle' \in [Forecasters -> CycleType]
  BY DEF CycleTyped, Sound
<1>2. \A g \in Forecasters : cycle'[g] = IF g = f THEN c ELSE cycle[g]
  BY DEF CycleTyped
<1> QED BY <1>1, <1>2 DEF CycleTyped, Sound

LEMMA MinOfTwo ==
  ASSUME NEW m \in Nat, NEW n \in Nat
  PROVE  Min({m, n}) = IF m <= n THEN m ELSE n
<1>1. Min({m, n}) \in {m, n} /\ \A y \in {m, n} : Min({m, n}) <= y
  BY Smallest
<1> QED BY <1>1

LEMMA LimitsTyped ==
  ASSUME CycleTyped, NEW f \in Forecasters
  PROVE  /\ StepLimits(f) \subseteq Nat
         /\ 4 * (cycle[f].current + Step(f)) \in StepLimits(f)
         /\ cycle[f].current > 0
                => cycle[f].current * (4 + Percent(f) \div 25) \in StepLimits(f)
<1>1. cycle[f].current \in Nat /\ Step(f) \in Nat /\ Percent(f) \div 25 \in {1, 4}
  BY DEF CycleTyped, CycleType, Step, Percent
<1>2. \A a \in Nat, b \in {1, 4} : a * (4 + b) \in Nat
  OBVIOUS
<1> QED BY <1>1, <1>2 DEF StepLimits

\* What a snapshot asks for when every guard agreed.
LEMMA ApprovedIsBounded ==
  ASSUME CycleTyped, NEW f \in Forecasters, NEW w \in Workloads, w = Turn(f)
  PROVE  LET desired == IF cycle[f].desired <= MaxReplicas[w] THEN cycle[f].desired
                                                             ELSE MaxReplicas[w]
         IN  /\ desired \in Nat /\ desired <= cycle[f].desired
             /\ Approved(f) \in Nat
             /\ \/ desired <= cycle[f].current /\ Approved(f) = 4 * desired
                \/ /\ cycle[f].current < desired /\ Approved(f) <= 4 * desired
                   /\ Approved(f) \in {4 * desired} \cup StepLimits(f)
                   /\ \A n \in StepLimits(f) : Approved(f) <= n
<1> DEFINE desired == IF cycle[f].desired <= MaxReplicas[w] THEN cycle[f].desired
                                                           ELSE MaxReplicas[w]
<1>1. cycle[f].desired \in Nat /\ cycle[f].current \in Nat /\ MaxReplicas[w] \in Nat
  BY ScalingAssumption DEF CycleTyped, CycleType
<1>2. /\ desired \in Nat /\ desired <= cycle[f].desired
      /\ Min({cycle[f].desired, MaxReplicas[Turn(f)]}) = desired
  BY <1>1, MinOfTwo
<1> HIDE DEF desired
<1> DEFINE all == {4 * desired} \cup StepLimits(f)
<1>3. all \subseteq Nat /\ all # {}
  BY <1>2, LimitsTyped
<1>4. Min(all) \in all /\ \A n \in all : Min(all) <= n
  BY <1>3, Smallest
<1>5. Approved(f) = IF desired <= cycle[f].current THEN 4 * desired ELSE Min(all)
  BY <1>2 DEF Approved
<1> HIDE DEF all
<1>6. CASE desired <= cycle[f].current
  BY <1>2, <1>5, <1>6 DEF desired
<1>7. CASE cycle[f].current < desired
  <2>1. Approved(f) = Min(all)
    BY <1>1, <1>2, <1>5, <1>7
  <2> QED BY <1>2, <1>3, <1>4, <1>7, <2>1 DEF desired, all
<1> QED BY <1>1, <1>2, <1>6, <1>7

LEMMA SnapshotTyped ==
  ASSUME CycleTyped, NEW f \in Forecasters
  PROVE  /\ ApplyGuardrails(f) \in SnapType /\ ApplyGuardrails(f).reason # "none"
         /\ ApplyGuardrails(f).safe = IF cycle[f].allowed THEN Approved(f)
                                                         ELSE 4 * cycle[f].current
<1>1. Approved(f) \in Nat
  BY TurnTyped, ApprovedIsBounded
<1>2. cycle[f].current \in Nat /\ cycle[f].age \in 0 .. MaxAge + 1
  BY DEF CycleTyped, CycleType
<1> QED BY <1>1, <1>2 DEF ApplyGuardrails, SnapType

\* The row kept for a workload is one of the two.
LEMMA LatestTyped ==
  ASSUME Typed, NEW f \in Forecasters, NEW row \in Latest(snap[Turn(f)], ApplyGuardrails(f))
  PROVE  /\ row \in {snap[Turn(f)], ApplyGuardrails(f)}
         /\ row \in SnapType
         /\ row.reason = "none" => row.safe = 0
<1>1. row \in {snap[Turn(f)], ApplyGuardrails(f)}
  BY DEF Latest
<1>2. Turn(f) \in Workloads
  BY TurnTyped DEF Typed
<1> QED BY <1>1, <1>2, SnapshotTyped DEF Typed, SnapTyped

LEMMA WantedTyped ==
  ASSUME Typed, NEW w \in Workloads PROVE Wanted(w) \in Nat
<1>1. Served(w) \in Nat
  <2>1. \A n \in Nat : Ceiling(n) \in Nat
    BY DEF Ceiling
  <2> QED BY <2>1 DEF Served, Typed, SnapTyped, SnapType
<1>2. Larger(load[w], Served(w)) \in Nat
  BY <1>1, ScalingAssumption DEF Larger, Typed
<1>3. MaxReplicas[w] \in Nat /\ MinReplicas[w] \in Nat
  BY ScalingAssumption
<1>4. Min({MaxReplicas[w], Larger(load[w], Served(w))}) \in Nat
  BY <1>2, <1>3, MinOfTwo
<1> QED BY <1>3, <1>4 DEF Wanted, Larger

LEMMA InitTyped == ASSUME Init PROVE Typed
<1>1. CycleTyped
  BY IdleTyped DEF Init, CycleTyped, Sound
<1> QED BY <1>1, ScalingAssumption DEF Init, Typed, SnapTyped

\* The start of a cycle makes every snapshot and every running cycle older.
LEMMA StartCycleTyped ==
  ASSUME Typed, NEW f \in Forecasters, StartCycle(f)
  PROVE  /\ CycleTyped' /\ SnapTyped'
         /\ \A g \in Forecasters \ {f} : cycle[g].pc # "idle" =>
                /\ \E age : cycle'[g] = [cycle[g] EXCEPT !.age = age]
         /\ cycle'[f].pc = "observe"
         /\ \A w \in Workloads : snap'[w].safe = snap[w].safe /\ snap'[w].reason = snap[w].reason
<1>1. \A age \in 0 .. MaxAge + 1 : Older(age) \in 0 .. MaxAge + 1
  BY ScalingAssumption DEF Older
<1> DEFINE c(g) == IF g = f THEN [Idle EXCEPT !.pc = "observe"]
                   ELSE IF cycle[g].pc = "idle" THEN Idle
                   ELSE [cycle[g] EXCEPT !.age = Older(@)]
           s(w) == [snap[w] EXCEPT !.age = Older(@)]
<1>2. cycle' = [g \in Forecasters |-> c(g)] /\ snap' = [w \in Workloads |-> s(w)]
  BY Zenon DEF StartCycle
<1>3. ASSUME NEW g \in Forecasters PROVE Sound(c(g))
  <2>1. CASE g = f
    BY <2>1, IdleTyped
  <2>2. CASE g # f /\ cycle[g].pc = "idle"
    BY <2>2, IdleTyped
  <2>3. CASE g # f /\ cycle[g].pc # "idle"
    <3>1. c(g) = [cycle[g] EXCEPT !.age = Older(cycle[g].age)]
      BY <2>3
    <3>2. Sound(cycle[g]) /\ Older(cycle[g].age) \in 0 .. MaxAge + 1
      BY <1>1 DEF Typed, CycleTyped, CycleType
    <3>3. \A d \in CycleType, age \in 0 .. MaxAge + 1 :
            Sound(d) => Sound([d EXCEPT !.age = age])
      BY DEF Sound, CycleType
    <3> QED BY <3>1, <3>2, <3>3 DEF Sound
  <2> QED BY <2>1, <2>2, <2>3
<1>4. ASSUME NEW w \in Workloads
      PROVE  s(w) \in SnapType /\ s(w).safe = snap[w].safe /\ s(w).reason = snap[w].reason
  BY <1>1 DEF Typed, SnapTyped, SnapType
<1>5. cycle'[f].pc = "observe"
  BY <1>2, IdleTyped
<1>6. \A g \in Forecasters \ {f} : cycle[g].pc # "idle" =>
          \E age : cycle'[g] = [cycle[g] EXCEPT !.age = age]
  BY <1>2
<1> HIDE DEF c, s
<1>7. CycleTyped'
  BY <1>2, <1>3 DEF CycleTyped, Sound
<1>8. SnapTyped'
  BY <1>2, <1>4 DEF Typed, SnapTyped
<1> QED BY <1>2, <1>4, <1>5, <1>6, <1>7, <1>8

LEMMA ObserveTyped ==
  ASSUME Typed, NEW f \in Forecasters, Observe(f)
  PROVE  CycleTyped' /\ cycle'[f].pc = "health"
<1>1. Turn(f) \in Workloads /\ pods[Turn(f)] \in Nat /\ load[Turn(f)] \in Levels
  BY TurnTyped DEF Typed
<1>2. PICK p \in Predictions[load[Turn(f)]], est \in {FALSE, Gaps} :
        cycle' = [cycle EXCEPT ![f] =
            [@ EXCEPT !.pc = "health", !.current = pods[Turn(f)],
                      !.desired = IF est THEN Larger(p, pods[Turn(f)]) ELSE p,
                      !.estimated = est]]
  BY DEF Observe
<1>3. p \in Nat /\ est \in BOOLEAN
  BY <1>1, <1>2, ScalingAssumption
<1> DEFINE d == IF est THEN Larger(p, pods[Turn(f)]) ELSE p
<1>4. d \in Nat /\ (est => pods[Turn(f)] <= d)
  BY <1>1, <1>3 DEF Larger
<1>5. PICK c : c = [cycle[f] EXCEPT !.pc = "health", !.current = pods[Turn(f)],
                                    !.desired = d, !.estimated = est]
  OBVIOUS
<1>6. cycle' = [cycle EXCEPT ![f] = c]
  BY <1>2, <1>5
<1> HIDE DEF d
<1>7. Sound(c) /\ c.pc = "health"
  <2>1. cycle[f] \in CycleType
    BY DEF Typed, CycleTyped
  <2>2. /\ c.pc = "health" /\ c.current = pods[Turn(f)] /\ c.desired = d
        /\ c.estimated = est
    BY <1>5, <2>1 DEF CycleType
  <2>3. c \in CycleType
    BY <1>1, <1>3, <1>4, <1>5, <2>1 DEF CycleType
  <2> QED BY <1>4, <2>2, <2>3 DEF Sound
<1>8. cycle'[f] = c
  BY <1>6 DEF Typed, CycleTyped
<1> QED BY <1>6, <1>7, <1>8, CycleReplaced DEF Typed

\* A guard's answer goes on or settles the decision.
LEMMA GuardTyped ==
  ASSUME Typed, NEW f \in Forecasters, Healthy(f) \/ CapacityAllows(f)
  PROVE  CycleTyped' /\ ~(cycle'[f].pc = "save" /\ cycle'[f].allowed)
<1>1. /\ cycle[f].pc \notin {"idle", "observe"}
      /\ \E ok \in BOOLEAN, next \in {"capacity", "budget"} :
            cycle' = [cycle EXCEPT ![f] = Verdict(f, ok, next)]
  <2>1. CASE Healthy(f)
    <3>1. PICK answered \in {TRUE, ~ApiErrors} :
            cycle' = [cycle EXCEPT ![f] =
                Verdict(f, answered /\ Unschedulable <= MaxUnschedulable, "capacity")]
      BY <2>1 DEF Healthy
    <3>2. (answered /\ Unschedulable <= MaxUnschedulable) \in BOOLEAN
      OBVIOUS
    <3> QED BY <2>1, <3>1, <3>2 DEF Healthy
  <2>2. CASE CapacityAllows(f)
    <3> DEFINE extra == Over(cycle[f].desired, cycle[f].current)
    <3>1. PICK answered \in {TRUE, ~ApiErrors} :
            cycle' = [cycle EXCEPT ![f] =
                Verdict(f, extra = 0 \/ (answered /\ 1000 * extra <= Headroom), "budget")]
      BY <2>2 DEF CapacityAllows
    <3>2. (extra = 0 \/ (answered /\ 1000 * extra <= Headroom)) \in BOOLEAN
      OBVIOUS
    <3> QED BY <2>2, <3>1, <3>2 DEF CapacityAllows
  <2> QED BY <2>1, <2>2
<1>2. PICK ok \in BOOLEAN, next \in {"capacity", "budget"} :
        cycle' = [cycle EXCEPT ![f] = Verdict(f, ok, next)]
  BY <1>1
<1>3. PICK c : c = Verdict(f, ok, next)
  OBVIOUS
<1>4. Sound(c) /\ ~(c.pc = "save" /\ c.allowed)
  BY <1>1, <1>3, VerdictTyped DEF Typed
<1>5. cycle' = [cycle EXCEPT ![f] = c] /\ cycle'[f] = c
  BY <1>2, <1>3 DEF Typed, CycleTyped
<1> QED BY <1>4, <1>5, CycleReplaced DEF Typed

\* The sum was within the budget when the guard agreed.
LEMMA BudgetTyped ==
  ASSUME Typed, NEW f \in Forecasters, BudgetAllows(f)
  PROVE  /\ CycleTyped'
         /\ cycle'[f].pos = cycle[f].pos /\ cycle'[f].desired = cycle[f].desired
         /\ cycle'[f].missed = {Turn(f)} \ Forecasted
         /\ cycle'[f].pc = "save" /\ cycle'[f].allowed =>
                ProjectedSpeculativeReplicas(Turn(f), cycle[f].desired) <= 4 * Budget
<1>1. PICK ok : ok = (/\ Budget > 0
                      /\ ProjectedSpeculativeReplicas(Turn(f), cycle[f].desired) <= 4 * Budget)
  OBVIOUS
<1>2. ok \in BOOLEAN
  BY <1>1
<1>3. PICK v : v = Verdict(f, ok, "save")
  OBVIOUS
<1>4. /\ Sound(v) /\ v.pos = cycle[f].pos /\ v.desired = cycle[f].desired
      /\ v.pc = "save" /\ v.allowed => ok
  BY <1>2, <1>3, VerdictTyped DEF BudgetAllows, Typed
<1>5. PICK m : m = {Turn(f)} \ Forecasted
  OBVIOUS
<1>6. m \in SUBSET Workloads
  BY <1>5, TurnTyped DEF Typed
<1>7. PICK c : c = [v EXCEPT !.missed = m]
  OBVIOUS
<1>8. cycle' = [cycle EXCEPT ![f] = c]
  BY <1>1, <1>3, <1>5, <1>7 DEF BudgetAllows
<1>9. /\ Sound(c) /\ c.pos = v.pos /\ c.desired = v.desired /\ c.missed = m
      /\ c.pc = v.pc /\ c.allowed = v.allowed
  BY <1>4, <1>6, <1>7 DEF Sound, CycleType
<1>10. cycle'[f] = c
  BY <1>8 DEF Typed, CycleTyped
<1>11. CycleTyped'
  BY <1>8, <1>9, CycleReplaced DEF Typed
<1> QED BY <1>1, <1>4, <1>5, <1>9, <1>10, <1>11

\* The insert of one forecaster changes what the others missed, nothing else.
LEMMA SaveTyped ==
  ASSUME Typed, NEW f \in Forecasters, SaveSnapshot(f)
  PROVE  /\ CycleTyped' /\ SnapTyped'
         /\ cycle'[f] = NextTurn(f)
         /\ \E row \in Latest(snap[Turn(f)], ApplyGuardrails(f)) :
               /\ snap' = [snap EXCEPT ![Turn(f)] = row]
               /\ \A g \in Forecasters \ {f} :
                     cycle'[g] = [cycle[g] EXCEPT !.missed = Missing(g, Turn(f), row)]
<1>1. PICK row \in Latest(snap[Turn(f)], ApplyGuardrails(f)) :
        /\ snap' = [snap EXCEPT ![Turn(f)] = row]
        /\ cycle' = [g \in Forecasters |->
              IF g = f THEN NextTurn(f)
              ELSE [cycle[g] EXCEPT !.missed = Missing(g, Turn(f), row)]]
  BY DEF SaveSnapshot
<1>2. cycle'[f] = NextTurn(f)
  BY <1>1
<1>3. \A g \in Forecasters \ {f} :
        cycle'[g] = [cycle[g] EXCEPT !.missed = Missing(g, Turn(f), row)]
  BY <1>1
<1>4. ASSUME NEW g \in Forecasters PROVE Sound(cycle'[g])
  <2>1. CASE g = f
    BY <1>2, <2>1, NextTurnTyped DEF Typed
  <2>2. CASE g # f
    <3>1. Turn(f) \in Workloads /\ cycle[g] \in CycleType /\ Sound(cycle[g])
      BY TurnTyped DEF Typed, CycleTyped
    <3>2. Missing(g, Turn(f), row) \in SUBSET Workloads
      BY <3>1 DEF Missing, CycleType
    <3>3. \A d \in CycleType, m \in SUBSET Workloads :
            Sound(d) => Sound([d EXCEPT !.missed = m])
      BY DEF Sound, CycleType
    <3> QED BY <1>3, <2>2, <3>1, <3>2, <3>3
  <2> QED BY <2>1, <2>2
<1>5. CycleTyped'
  <2>1. cycle' = [g \in Forecasters |-> cycle'[g]]
    BY <1>1
  <2> QED BY <1>4, <2>1 DEF CycleTyped, Sound
<1>6. SnapTyped'
  <2>1. row \in SnapType /\ (row.reason = "none" => row.safe = 0)
    BY LatestTyped
  <2> QED BY <1>1, <2>1 DEF Typed, SnapTyped
<1> QED BY <1>1, <1>2, <1>3, <1>5, <1>6

LEMMA TypedStep == ASSUME Typed, [Next]_vars PROVE Typed'
<1>1. CASE UNCHANGED vars
  BY <1>1 DEF vars, Typed, SnapTyped, CycleTyped
<1>2. ASSUME NEW f \in Forecasters, StartCycle(f) PROVE Typed'
  BY <1>2, StartCycleTyped DEF StartCycle, Typed
<1>3. ASSUME NEW f \in Forecasters, Observe(f) PROVE Typed'
  BY <1>3, ObserveTyped DEF Observe, Typed, SnapTyped
<1>4. ASSUME NEW f \in Forecasters, Withhold(f) \/ Stop(f) PROVE Typed'
  <2>1. PICK c : /\ c \in {NextTurn(f), Idle} /\ cycle' = [cycle EXCEPT ![f] = c]
    BY <1>4 DEF Withhold, Stop
  <2>2. Sound(c)
    BY <2>1, NextTurnTyped, IdleTyped DEF Typed
  <2>3. CycleTyped'
    BY <2>1, <2>2, CycleReplaced DEF Typed
  <2> QED BY <1>4, <2>3 DEF Withhold, Stop, Typed, SnapTyped
<1>5. ASSUME NEW f \in Forecasters, Healthy(f) \/ CapacityAllows(f) PROVE Typed'
  BY <1>5, GuardTyped DEF Healthy, CapacityAllows, Typed, SnapTyped
<1>6. ASSUME NEW f \in Forecasters, BudgetAllows(f) PROVE Typed'
  BY <1>6, BudgetTyped DEF BudgetAllows, Typed, SnapTyped
<1>7. ASSUME NEW f \in Forecasters, SaveSnapshot(f) PROVE Typed'
  BY <1>7, SaveTyped DEF SaveSnapshot, Typed
<1>8. ASSUME NEW w \in Workloads, Shift(w) PROVE Typed'
  BY <1>8, ScalingAssumption DEF Shift, Typed, SnapTyped, CycleTyped
<1>9. ASSUME NEW w \in Workloads, HPA(w) PROVE Typed'
  BY <1>9, WantedTyped DEF HPA, Typed, SnapTyped, CycleTyped
<1> QED BY <1>1, <1>2, <1>3, <1>4, <1>5, <1>6, <1>7, <1>8, <1>9 DEF Next, Forecaster

\* The typing the lemmas work with holds in every state: of an estimated input
\* never fewer replicas are desired than were counted, and a workload that has
\* no snapshot yet counts for nothing (the forecaster's cycle and the join of
\* ProjectedSpeculativeReplicas).
THEOREM AlwaysTyped == Spec => []Typed
BY InitTyped, TypedStep, PTL DEF Spec

\* Every variable keeps its type, for any forecasters, workloads, limits and
\* predictions.
THEOREM TypeCorrect == Spec => []TypeOK
<1>1. Typed => TypeOK
  BY DEF Typed, SnapTyped, CycleTyped, TypeOK
<1> QED BY <1>1, AlwaysTyped, PTL

-----------------------------------------------------------------------------
(* Limits of a snapshot.                                                     *)

\* A change of the latest snapshots by a forecaster whose turn ends with it is
\* its own insert.
LEMMA SavedInTurn ==
  ASSUME Typed, [Next]_vars, NEW f \in Forecasters, NEW w \in Workloads, Stores(f, w)
  PROVE  SaveSnapshot(f) /\ w = Turn(f) /\ snap'[w] = ApplyGuardrails(f)
<1>1. cycle[f].pc = "save" /\ cycle'[f].pc # "save" /\ snap'[w] # snap[w] /\ Turn(f) = w
  BY DEF Stores
<1>2. snap' # snap
  BY <1>1
<1>3. PICK g \in Forecasters : StartCycle(g) \/ SaveSnapshot(g)
  BY <1>2 DEF Next, Forecaster, Observe, Withhold, Healthy, CapacityAllows, BudgetAllows,
              Stop, Shift, HPA, vars
<1>4. SaveSnapshot(f)
  <2>1. SUFFICES ASSUME ~SaveSnapshot(f) PROVE FALSE
    OBVIOUS
  <2>2. CASE StartCycle(g)
    <3>1. f # g
      BY <1>1, <2>2 DEF StartCycle
    <3>2. PICK age : cycle'[f] = [cycle[f] EXCEPT !.age = age]
      BY <1>1, <2>2, <3>1, StartCycleTyped
    <3>3. cycle'[f].pc = cycle[f].pc
      BY <3>2 DEF Typed, CycleTyped, CycleType
    <3> QED BY <1>1, <3>3
  <2>3. CASE SaveSnapshot(g)
    <3>1. f # g
      BY <2>1, <2>3
    <3>2. PICK row : cycle'[f] = [cycle[f] EXCEPT !.missed = Missing(f, Turn(g), row)]
      BY <2>3, <3>1, SaveTyped
    <3>3. cycle'[f].pc = cycle[f].pc
      BY <3>2 DEF Typed, CycleTyped, CycleType
    <3> QED BY <1>1, <3>3
  <2> QED BY <1>3, <2>2, <2>3
<1>5. PICK row \in Latest(snap[Turn(f)], ApplyGuardrails(f)) :
        snap' = [snap EXCEPT ![Turn(f)] = row]
  BY <1>4, SaveTyped
<1>6. snap'[w] = row
  BY <1>1, <1>5 DEF Typed, SnapTyped
<1>7. row \in {snap[w], ApplyGuardrails(f)}
  BY <1>1, <1>5, LatestTyped
<1> QED BY <1>1, <1>4, <1>6, <1>7

LEMMA Rounding ==
  ASSUME NEW q \in Nat
  PROVE  /\ Ceiling(q) \in Nat /\ q <= 4 * Ceiling(q)
         /\ \A n \in Nat : q <= 4 * n => Ceiling(q) <= n
         /\ \A n \in Nat : Ceiling(4 * n) = n
BY DEF Ceiling

LEMMA GradualStep ==
  ASSUME Typed, NEW f \in Forecasters, NEW w \in Workloads, w = Turn(f),
         cycle[f].pc = "save"
  PROVE  LET n == Ceiling(ApplyGuardrails(f).safe)  cur == cycle[f].current
         IN  /\ n <= cur + 3 /\ (cur > 0 => n <= 2 * cur)
             /\ cycle[f].estimated => n <= cur + 1 /\ n >= Min({cur, MaxReplicas[w]})
<1> DEFINE s == ApplyGuardrails(f).safe
           n == Ceiling(s)
           cur == cycle[f].current
           desired == IF cycle[f].desired <= MaxReplicas[w] THEN cycle[f].desired
                                                           ELSE MaxReplicas[w]
<1>1. cur \in Nat /\ cycle[f].desired \in Nat /\ MaxReplicas[w] \in Nat /\ s \in Nat
      /\ (cycle[f].estimated => cur <= cycle[f].desired) /\ cycle[f].estimated \in BOOLEAN
  BY SnapshotTyped, ScalingAssumption DEF Typed, CycleTyped, CycleType, SnapType, Sound
<1>2. /\ n \in Nat /\ s <= 4 * n
      /\ \A k \in Nat : s <= 4 * k => n <= k
      /\ \A k \in Nat : s = 4 * k => n = k
  BY <1>1, Rounding
<1>3. Min({cur, MaxReplicas[w]}) = IF cur <= MaxReplicas[w] THEN cur ELSE MaxReplicas[w]
  BY <1>1, MinOfTwo
<1>4. CASE ~cycle[f].allowed
  <2>1. n = cur
    BY <1>1, <1>2, <1>4, SnapshotTyped DEF Typed
  <2> QED BY <1>1, <1>3, <2>1
<1>5. CASE cycle[f].allowed
  <2>1. s = Approved(f)
    BY <1>5, SnapshotTyped DEF Typed
  <2>2. desired \in Nat
    BY <1>1
  <2>3. CASE desired <= cur /\ s = 4 * desired
    <3>1. n = desired
      BY <1>2, <2>2, <2>3
    <3>2. n <= cur
      BY <2>3, <3>1
    <3>3. cycle[f].estimated => n >= Min({cur, MaxReplicas[w]})
      BY <1>1, <1>3, <3>1
    <3> QED BY <1>1, <1>2, <3>2, <3>3
  <2>4. CASE /\ cur < desired /\ s \in {4 * desired} \cup StepLimits(f)
             /\ \A m \in StepLimits(f) : s <= m
    <3>1. s <= 4 * (cur + Step(f))
      BY <2>4, LimitsTyped DEF Typed
    <3>2. Step(f) = IF cycle[f].estimated THEN 1 ELSE 3
      BY DEF Step
    <3>3. n <= cur + Step(f)
      BY <1>1, <1>2, <3>1, <3>2
    <3>4. cur > 0 => n <= 2 * cur
      <4>1. SUFFICES ASSUME cur > 0 PROVE n <= 2 * cur
        OBVIOUS
      <4>2. s <= cur * (4 + Percent(f) \div 25)
        BY <2>4, <4>1, LimitsTyped DEF Typed
      <4>3. Percent(f) \div 25 \in {1, 4}
        BY DEF Percent
      <4>4. s <= 4 * (2 * cur)
        BY <1>1, <4>2, <4>3
      <4> QED BY <1>1, <1>2, <4>4
    <3>5. n >= Min({cur, MaxReplicas[w]})
      <4>1. 4 * cur <= s
        <5>1. CASE s = 4 * desired
          BY <1>1, <2>2, <2>4, <5>1
        <5>2. CASE s \in StepLimits(f)
          <6>1. StepLimits(f) \subseteq {4 * (cur + Step(f)), cur * (4 + Percent(f) \div 25)}
            BY DEF StepLimits
          <6>2. 4 * cur <= 4 * (cur + Step(f))
            BY <1>1, <3>2
          <6>3. 4 * cur <= cur * (4 + Percent(f) \div 25)
            <7>1. Percent(f) \div 25 \in {1, 4}
              BY DEF Percent
            <7> QED BY <1>1, <7>1
          <6> QED BY <5>2, <6>1, <6>2, <6>3
        <5> QED BY <2>4, <5>1, <5>2
      <4>2. cur <= n
        BY <1>1, <1>2, <4>1
      <4> QED BY <1>1, <1>2, <1>3, <4>2
    <3> QED BY <1>1, <1>2, <3>2, <3>3, <3>4, <3>5
  <2> QED BY <2>1, <2>3, <2>4, ApprovedIsBounded DEF Typed
<1> QED BY <1>1, <1>4, <1>5

\* One forecast raises a workload by at most three replicas and at most as many
\* again as it read; after a gap by at most one, and it never lowers it
\* (ApplyGuardrails).
THEOREM RaisesInSteps == Spec => RaisesAreGradual
<1>1. Typed /\ [Next]_vars =>
        [\A f \in Forecasters, w \in Workloads :
            Stores(f, w) =>
                LET n == Ceiling(snap'[w].safe)  cur == cycle[f].current
                IN  /\ n <= cur + 3 /\ (cur > 0 => n <= 2 * cur)
                    /\ cycle[f].estimated =>
                          n <= cur + 1 /\ n >= Min({cur, MaxReplicas[w]})]_vars
  <2>1. SUFFICES ASSUME Typed, [Next]_vars,
                        NEW f \in Forecasters, NEW w \in Workloads, Stores(f, w)
                 PROVE  LET n == Ceiling(snap'[w].safe)  cur == cycle[f].current
                        IN  /\ n <= cur + 3 /\ (cur > 0 => n <= 2 * cur)
                            /\ cycle[f].estimated =>
                                  n <= cur + 1 /\ n >= Min({cur, MaxReplicas[w]})
    OBVIOUS
  <2>2. w = Turn(f) /\ snap'[w] = ApplyGuardrails(f) /\ cycle[f].pc = "save"
    BY <2>1, SavedInTurn DEF Stores
  <2> QED BY <2>1, <2>2, GradualStep
<1> QED BY <1>1, AlwaysTyped, PTL DEF Spec, RaisesAreGradual

-----------------------------------------------------------------------------
(* The budget.                                                               *)

\* What each workload adds in the eyes of forecaster f.
Added(f) == [v \in Workloads |-> Over(IF v = Turn(f) THEN 4 * cycle[f].desired
                                      ELSE snap[v].safe, 4 * MinReplicas[v])]

\* From the guard to the insert the sum stands for what was not missed: others
\* write meanwhile, but a workload they raise is missed from then on.
WithinBudget ==
    \A f \in Forecasters :
        cycle[f].pc = "save" /\ cycle[f].allowed =>
            SumOver(Added(f), Workloads \ cycle[f].missed) <= 4 * Budget

LEMMA OverGrows ==
  /\ \A m, n \in Nat : Over(m, n) \in Nat
  /\ \A m, n, k \in Nat : m <= k => Over(m, n) <= Over(k, n)
  /\ \A n \in Nat : Over(0, n) = 0
BY DEF Over, Larger

LEMMA AddedTyped ==
  ASSUME Typed, NEW f \in Forecasters, NEW v \in Workloads
  PROVE  /\ snap[v].safe \in Nat /\ cycle[f].desired \in Nat /\ 4 * cycle[f].desired \in Nat
         /\ MinReplicas[v] \in Nat /\ 4 * MinReplicas[v] \in Nat
         /\ Added(f)[v] = Over(IF v = Turn(f) THEN 4 * cycle[f].desired ELSE snap[v].safe,
                               4 * MinReplicas[v])
         /\ Added(f)[v] \in Nat
<1>1. snap[v].safe \in Nat /\ cycle[f].desired \in Nat
  BY DEF Typed, SnapTyped, SnapType, CycleTyped, CycleType
<1>2. MinReplicas[v] \in Nat
  BY ScalingAssumption
<1>3. 4 * cycle[f].desired \in Nat /\ 4 * MinReplicas[v] \in Nat
  BY <1>1, <1>2
<1>4. Added(f)[v] = Over(IF v = Turn(f) THEN 4 * cycle[f].desired ELSE snap[v].safe,
                         4 * MinReplicas[v])
  BY DEF Added
<1>5. PICK k \in Nat : k = IF v = Turn(f) THEN 4 * cycle[f].desired ELSE snap[v].safe
  BY <1>1, <1>3
<1>6. Over(k, 4 * MinReplicas[v]) \in Nat
  BY <1>3, OverGrows
<1> QED BY <1>1, <1>2, <1>3, <1>4, <1>5, <1>6

\* A forecaster is allowed to insert because its guard just agreed, or it was
\* before and the step made snapshots older or was another's insert.
LEMMA HowAllowed ==
  ASSUME Typed, [Next]_vars, NEW f \in Forecasters,
         cycle'[f].pc = "save", cycle'[f].allowed
  PROVE  \/ BudgetAllows(f)
         \/ /\ cycle[f].pc = "save" /\ cycle[f].allowed
            /\ cycle'[f].pos = cycle[f].pos /\ cycle'[f].desired = cycle[f].desired
            /\ \/ /\ cycle'[f].missed = cycle[f].missed
                  /\ \A v \in Workloads : /\ snap'[v].safe = snap[v].safe
                                          /\ snap'[v].reason = snap[v].reason
               \/ \E g \in Forecasters \ {f} : \E row :
                     /\ snap' = [snap EXCEPT ![Turn(g)] = row]
                     /\ cycle'[f].missed = Missing(f, Turn(g), row)
<1> DEFINE Same == /\ cycle[f].pc = "save" /\ cycle[f].allowed
                   /\ cycle'[f].pos = cycle[f].pos /\ cycle'[f].desired = cycle[f].desired
           Kept == /\ cycle'[f].missed = cycle[f].missed
                   /\ \A v \in Workloads : /\ snap'[v].safe = snap[v].safe
                                           /\ snap'[v].reason = snap[v].reason
<1>1. CASE cycle'[f] = cycle[f] /\ snap' = snap
  BY <1>1
<1>2. ASSUME NEW g \in Forecasters, g # f, Forecaster(g) \/ Stop(g),
             ~StartCycle(g), ~SaveSnapshot(g)
      PROVE  cycle'[f] = cycle[f] /\ snap' = snap
  BY <1>2 DEF Forecaster, Observe, Withhold, Healthy, CapacityAllows, BudgetAllows, Stop,
              Typed, CycleTyped
<1>3. ASSUME NEW g \in Forecasters, g # f, StartCycle(g) PROVE Same /\ Kept
  <2>1. cycle[f].pc # "idle"
    <3>1. SUFFICES ASSUME cycle[f].pc = "idle" PROVE FALSE
      OBVIOUS
    <3>2. cycle'[f] = Idle
      BY <1>3, <3>1 DEF StartCycle
    <3> QED BY <3>2, IdleTyped
  <2>2. PICK age : cycle'[f] = [cycle[f] EXCEPT !.age = age]
    BY <1>3, <2>1, StartCycleTyped
  <2>3. cycle[f] \in CycleType
    BY DEF Typed, CycleTyped
  <2>4. /\ cycle'[f].pc = cycle[f].pc /\ cycle'[f].allowed = cycle[f].allowed
        /\ cycle'[f].pos = cycle[f].pos /\ cycle'[f].desired = cycle[f].desired
        /\ cycle'[f].missed = cycle[f].missed
    BY <2>2, <2>3 DEF CycleType
  <2> QED BY <1>3, <2>4, StartCycleTyped
<1>4. ASSUME NEW g \in Forecasters, g # f, SaveSnapshot(g)
      PROVE  Same /\ \E row : /\ snap' = [snap EXCEPT ![Turn(g)] = row]
                              /\ cycle'[f].missed = Missing(f, Turn(g), row)
  <2>1. PICK row : /\ snap' = [snap EXCEPT ![Turn(g)] = row]
                   /\ cycle'[f] = [cycle[f] EXCEPT !.missed = Missing(f, Turn(g), row)]
    BY <1>4, SaveTyped
  <2>2. cycle[f] \in CycleType
    BY DEF Typed, CycleTyped
  <2>3. /\ cycle'[f].pc = cycle[f].pc /\ cycle'[f].allowed = cycle[f].allowed
        /\ cycle'[f].pos = cycle[f].pos /\ cycle'[f].desired = cycle[f].desired
        /\ cycle'[f].missed = Missing(f, Turn(g), row)
    BY <2>1, <2>2 DEF CycleType
  <2> QED BY <2>1, <2>3
<1>5. ~(StartCycle(f) \/ Observe(f) \/ Healthy(f) \/ CapacityAllows(f))
  BY StartCycleTyped, ObserveTyped, GuardTyped
<1>6. ~(Withhold(f) \/ Stop(f) \/ SaveSnapshot(f))
  <2>1. CASE Withhold(f)
    <3>1. cycle'[f] = NextTurn(f)
      BY <2>1 DEF Withhold, Typed, CycleTyped
    <3> QED BY <3>1, NextTurnTyped DEF Typed
  <2>2. CASE Stop(f)
    <3>1. cycle'[f] = Idle
      BY <2>2 DEF Stop, Typed, CycleTyped
    <3> QED BY <3>1, IdleTyped
  <2>3. CASE SaveSnapshot(f)
    BY <2>3, SaveTyped, NextTurnTyped DEF Typed
  <2> QED BY <2>1, <2>2, <2>3
<1>7. CASE \E g \in Forecasters : Forecaster(g) \/ Stop(g)
  <2>1. PICK g \in Forecasters : Forecaster(g) \/ Stop(g)
    BY <1>7
  <2>2. CASE g = f
    BY <1>5, <1>6, <2>1, <2>2 DEF Forecaster
  <2>3. CASE g # f /\ StartCycle(g)
    BY <1>3, <2>3
  <2>4. CASE g # f /\ SaveSnapshot(g)
    BY <1>4, <2>4
  <2>5. CASE g # f /\ ~StartCycle(g) /\ ~SaveSnapshot(g)
    BY <1>1, <1>2, <2>1, <2>5
  <2> QED BY <2>2, <2>3, <2>4, <2>5
<1>8. CASE UNCHANGED <<cycle, snap>>
  BY <1>1, <1>8
<1> HIDE DEF Same, Kept
<1> QED BY <1>7, <1>8 DEF Next, vars, Shift, HPA

\* What was not missed is no more than it was, whatever else happened.
LEMMA StillWithin ==
  ASSUME Typed, Typed', WithinBudget, NEW f \in Forecasters,
         cycle[f].pc = "save", cycle[f].allowed,
         cycle'[f].pos = cycle[f].pos, cycle'[f].desired = cycle[f].desired,
         cycle[f].missed \subseteq cycle'[f].missed,
         \A v \in Workloads \ cycle'[f].missed :
            v # Turn(f) => snap'[v].safe <= snap[v].safe
  PROVE  SumOver(Added(f)', Workloads \ cycle'[f].missed) <= 4 * Budget
<1>1. PICK s, t, p, q : /\ s = Workloads \ cycle'[f].missed
                        /\ t = Workloads \ cycle[f].missed
                        /\ p = Added(f)' /\ q = Added(f)
  OBVIOUS
<1>2. s \in SUBSET Workloads /\ t \in SUBSET Workloads /\ s \subseteq t
  BY <1>1
<1>3. Turn(f)' = Turn(f)
  BY DEF Turn
<1>4. ASSUME NEW v \in Workloads
      PROVE  /\ p[v] \in Nat /\ q[v] \in Nat
             /\ v \in s => p[v] <= q[v]
  <2> DEFINE m == IF v = Turn(f) THEN 4 * cycle[f].desired ELSE snap'[v].safe
             k == IF v = Turn(f) THEN 4 * cycle[f].desired ELSE snap[v].safe
             n == 4 * MinReplicas[v]
  <2>1. q[v] = Over(k, n) /\ k \in Nat /\ n \in Nat
    BY <1>1, AddedTyped
  <2>2. snap'[v].safe \in Nat
    BY DEF Typed, SnapTyped, SnapType
  <2>3. m \in Nat
    BY <2>1, <2>2
  <2>4. p[v] = Over(m, n)
    BY <1>1, <1>3 DEF Added
  <2>5. v \in s => m <= k
    <3>1. v \in s => v \in Workloads \ cycle'[f].missed
      BY <1>1
    <3> QED BY <2>1, <3>1
  <2> HIDE DEF m, k, n
  <2>6. Over(m, n) \in Nat /\ Over(k, n) \in Nat /\ (m <= k => Over(m, n) <= Over(k, n))
    BY <2>1, <2>3, OverGrows
  <2> QED BY <2>1, <2>4, <2>5, <2>6
<1>5. SumOver(p, s) <= SumOver(q, t)
  <2>1. \A x \in s \cap t : p[x] <= q[x]
    BY <1>2, <1>4
  <2>2. \A x \in s \ t : p[x] = 0
    BY <1>2
  <2>3. \A x \in Workloads : p[x] \in Nat /\ q[x] \in Nat
    BY <1>4
  <2> QED BY <1>2, <2>1, <2>2, <2>3, Sizes, SumBound
<1>6. SumOver(p, s) \in Nat /\ SumOver(q, t) \in Nat
  <2>1. IsFiniteSet(s) /\ IsFiniteSet(t)
    BY <1>2, Sizes, FS_Subset
  <2>2. (\A x \in s : p[x] \in Nat) /\ (\A x \in t : q[x] \in Nat)
    BY <1>2, <1>4
  <2> QED BY <2>1, <2>2, SumNat
<1>7. SumOver(q, t) <= 4 * Budget
  BY <1>1 DEF WithinBudget
<1>8. SumOver(p, s) <= 4 * Budget
  BY <1>5, <1>6, <1>7, ScalingAssumption
<1> QED BY <1>1, <1>8

\* The sum the guard compares covers every workload but its own when that has
\* no snapshot yet: the rest of those it leaves out count for nothing.
LEMMA ComparedCovers ==
  ASSUME Typed, NEW f \in Forecasters,
         ProjectedSpeculativeReplicas(Turn(f), cycle[f].desired) <= 4 * Budget
  PROVE  SumOver(Added(f), Workloads \ ({Turn(f)} \ Forecasted)) <= 4 * Budget
<1>1. PICK s, t, q : /\ s = Workloads \ ({Turn(f)} \ Forecasted)
                     /\ t = Forecasted /\ q = Added(f)
  OBVIOUS
<1>2. s \in SUBSET Workloads /\ t \in SUBSET Workloads
  BY <1>1 DEF Forecasted
<1>3. \A v \in Workloads : q[v] \in Nat
  BY <1>1, AddedTyped
<1>4. \A v \in s \ t : q[v] = 0
  <2>1. SUFFICES ASSUME NEW v \in s \ t PROVE q[v] = 0
    OBVIOUS
  <2>2. v \in Workloads /\ v # Turn(f) /\ snap[v].reason = "none"
    BY <1>1, <2>1 DEF Forecasted
  <2>3. snap[v].safe = 0
    BY <2>2 DEF Typed, SnapTyped
  <2>4. q[v] = Over(0, 4 * MinReplicas[v]) /\ 4 * MinReplicas[v] \in Nat
    BY <1>1, <2>2, <2>3, AddedTyped
  <2> QED BY <2>4, OverGrows
<1>5. SumOver(q, s) <= SumOver(q, t)
  <2>1. \A x \in s \cap t : q[x] <= q[x]
    BY <1>2, <1>3
  <2> QED BY <1>2, <1>3, <1>4, <2>1, Sizes, SumBound
<1>6. SumOver(q, s) \in Nat /\ SumOver(q, t) \in Nat
  <2>1. IsFiniteSet(s) /\ IsFiniteSet(t)
    BY <1>2, Sizes, FS_Subset
  <2>2. (\A x \in s : q[x] \in Nat) /\ (\A x \in t : q[x] \in Nat)
    BY <1>2, <1>3
  <2> QED BY <2>1, <2>2, SumNat
<1>7. SumOver(q, t) = ProjectedSpeculativeReplicas(Turn(f), cycle[f].desired)
  BY <1>1 DEF ProjectedSpeculativeReplicas, Added
<1>8. SumOver(q, s) <= 4 * Budget
  BY <1>5, <1>6, <1>7, ScalingAssumption
<1> QED BY <1>1, <1>8

LEMMA BudgetStep ==
  ASSUME Typed, Typed', WithinBudget, [Next]_vars PROVE WithinBudget'
<1>1. SUFFICES ASSUME NEW f \in Forecasters, cycle'[f].pc = "save", cycle'[f].allowed
               PROVE  SumOver(Added(f)', Workloads \ cycle'[f].missed) <= 4 * Budget
  BY DEF WithinBudget
<1>2. CASE BudgetAllows(f)
  <2>1. ProjectedSpeculativeReplicas(Turn(f), cycle[f].desired) <= 4 * Budget
    BY <1>1, <1>2, BudgetTyped
  <2>2. cycle'[f].missed = {Turn(f)} \ Forecasted
    BY <1>2, BudgetTyped
  <2>3. Added(f)' = Added(f)
    <3>1. Turn(f)' = Turn(f) /\ cycle'[f].desired = cycle[f].desired /\ snap' = snap
      BY <1>2, BudgetTyped DEF BudgetAllows, Turn
    <3> QED BY <3>1, Zenon DEF Added
  <2> QED BY <2>1, <2>2, <2>3, ComparedCovers
<1>3. CASE /\ cycle[f].pc = "save" /\ cycle[f].allowed
           /\ cycle'[f].pos = cycle[f].pos /\ cycle'[f].desired = cycle[f].desired
           /\ cycle'[f].missed = cycle[f].missed
           /\ \A v \in Workloads : snap'[v].safe = snap[v].safe
  <2>1. \A v \in Workloads \ cycle'[f].missed : v # Turn(f) => snap'[v].safe <= snap[v].safe
    BY <1>3, AddedTyped
  <2> QED BY <1>3, <2>1, StillWithin
<1>4. ASSUME /\ cycle[f].pc = "save" /\ cycle[f].allowed
             /\ cycle'[f].pos = cycle[f].pos /\ cycle'[f].desired = cycle[f].desired,
             NEW g \in Forecasters \ {f}, NEW row,
             snap' = [snap EXCEPT ![Turn(g)] = row],
             cycle'[f].missed = Missing(f, Turn(g), row)
      PROVE  SumOver(Added(f)', Workloads \ cycle'[f].missed) <= 4 * Budget
  <2>1. cycle[f].missed \subseteq cycle'[f].missed
    BY <1>4 DEF Missing
  <2>2. ASSUME NEW v \in Workloads \ cycle'[f].missed, v # Turn(f)
        PROVE  snap'[v].safe <= snap[v].safe
    <3>1. snap[v].safe \in Nat
      BY AddedTyped
    <3>2. CASE v # Turn(g)
      <4>1. snap'[v] = snap[v]
        BY <1>4, <3>2 DEF Typed, SnapTyped
      <4> QED BY <3>1, <4>1
    <3>3. CASE v = Turn(g)
      <4>1. snap'[v] = row
        BY <1>4, <3>3 DEF Typed, SnapTyped
      <4>2. ~(row.safe > snap[v].safe)
        BY <1>4, <2>2, <3>3 DEF Missing
      <4>3. row.safe \in Nat
        BY <4>1 DEF Typed, SnapTyped, SnapType
      <4> QED BY <3>1, <4>1, <4>2, <4>3
    <3> QED BY <3>2, <3>3
  <2> QED BY <1>4, <2>1, <2>2, StillWithin
<1> QED BY <1>1, <1>2, <1>3, <1>4, HowAllowed

LEMMA RaiseStep ==
  ASSUME Typed, Typed', WithinBudget, [Next]_vars,
         NEW f \in Forecasters, NEW w \in Workloads, Raises(f, w)
  PROVE  Extra(snap', Workloads \ cycle[f].missed) <= 4 * Budget
<1>1. /\ w = Turn(f) /\ SaveSnapshot(f) /\ snap'[w] = ApplyGuardrails(f)
      /\ cycle[f].pc = "save"
  BY SavedInTurn DEF Raises, Stores
<1>2. cycle[f].allowed
  <2>1. snap'[w].safe > 4 * cycle[f].current
    BY DEF Raises
  <2>2. cycle[f].current \in Nat
    BY DEF Typed, CycleTyped, CycleType
  <2> QED BY <1>1, <2>1, <2>2, SnapshotTyped DEF Typed
<1>3. snap'[w].safe \in Nat /\ snap'[w].safe <= 4 * cycle[f].desired
  <2>1. snap'[w].safe = Approved(f)
    BY <1>1, <1>2, SnapshotTyped DEF Typed
  <2>2. cycle[f].desired \in Nat /\ MaxReplicas[w] \in Nat /\ cycle[f].current \in Nat
    BY ScalingAssumption DEF Typed, CycleTyped, CycleType
  <2> QED BY <1>1, <2>1, <2>2, ApprovedIsBounded DEF Typed
<1>4. \A v \in Workloads \ {w} : snap'[v] = snap[v]
  BY <1>1 DEF SaveSnapshot, Typed, SnapTyped
<1>5. PICK s, p, q : /\ s = Workloads \ cycle[f].missed
                     /\ p = [v \in Workloads |-> Over(snap'[v].safe, 4 * MinReplicas[v])]
                     /\ q = Added(f)
  OBVIOUS
<1>6. ASSUME NEW v \in Workloads
      PROVE  p[v] \in Nat /\ q[v] \in Nat /\ p[v] <= q[v]
  <2> DEFINE m == snap'[v].safe
             k == IF v = w THEN 4 * cycle[f].desired ELSE snap[v].safe
             n == 4 * MinReplicas[v]
  <2>1. q[v] = Over(k, n) /\ k \in Nat /\ n \in Nat
    BY <1>1, <1>5, AddedTyped
  <2>2. m \in Nat
    BY DEF Typed, SnapTyped, SnapType
  <2>3. m <= k
    <3>1. CASE v = w
      BY <1>3, <3>1
    <3>2. CASE v # w
      BY <1>4, <2>2, <3>2
    <3> QED BY <3>1, <3>2
  <2>4. p[v] = Over(m, n)
    BY <1>5
  <2> HIDE DEF m, k, n
  <2> QED BY <2>1, <2>2, <2>3, <2>4, OverGrows
<1>7. SumOver(p, s) <= SumOver(q, s)
  <2>1. s \in SUBSET Workloads
    BY <1>5
  <2>2. /\ \A x \in Workloads : p[x] \in Nat /\ q[x] \in Nat
        /\ \A x \in s \cap s : p[x] <= q[x]
        /\ \A x \in s \ s : p[x] = 0
    BY <1>6, <2>1
  <2> QED BY <2>1, <2>2, Sizes, SumBound
<1>8. SumOver(p, s) \in Nat /\ SumOver(q, s) \in Nat
  <2>1. s \in SUBSET Workloads
    BY <1>5
  <2>2. IsFiniteSet(s)
    BY <2>1, Sizes, FS_Subset
  <2>3. \A x \in s : p[x] \in Nat /\ q[x] \in Nat
    BY <1>6, <2>1
  <2> QED BY <2>2, <2>3, SumNat
<1>9. SumOver(q, s) <= 4 * Budget
  BY <1>1, <1>2, <1>5 DEF WithinBudget
<1>10. Extra(snap', Workloads \ cycle[f].missed) = SumOver(p, s)
  BY <1>5 DEF Extra
<1> QED BY <1>7, <1>8, <1>9, <1>10, ScalingAssumption

\* A forecast that raises a workload keeps the speculative replicas of the
\* cluster within the budget, whatever load, HPA, failures and any number of
\* other forecasters do between the guard and the insert, but for what the sum
\* could not hold: a workload's own first forecast and raises inserted since
\* (ProjectedSpeculativeReplicas, SaveSnapshot).
THEOREM BudgetKept == Spec => RaisesWithinBudget
<1>1. Init => WithinBudget
  BY IdleTyped DEF Init, WithinBudget
<1>2. Typed /\ Typed' /\ WithinBudget /\ [Next]_vars =>
        [\A f \in Forecasters, w \in Workloads :
            Raises(f, w) =>
                Extra(snap', Workloads \ cycle[f].missed) <= 4 * Budget]_vars
  BY RaiseStep
<1>3. Spec => []WithinBudget
  BY <1>1, AlwaysTyped, BudgetStep, PTL DEF Spec
<1> QED BY <1>2, <1>3, AlwaysTyped, PTL DEF Spec, RaisesWithinBudget

-----------------------------------------------------------------------------
(* One forecaster at a time, as the chart deploys it outside of a rollout.   *)

\* Nobody else inserts: only its own first forecast can be missing.
OwnOnly ==
    \A f \in Forecasters :
        cycle[f].pc = "save" /\ cycle[f].allowed =>
            cycle[f].missed = {Turn(f)} \ Forecasted

LEMMA OwnOnlyStep ==
  ASSUME Typed, OwnOnly, [Next]_vars, \A f, g \in Forecasters : f = g
  PROVE  OwnOnly'
<1>1. SUFFICES ASSUME NEW f \in Forecasters, cycle'[f].pc = "save", cycle'[f].allowed
               PROVE  cycle'[f].missed = {Turn(f)'} \ Forecasted'
  BY DEF OwnOnly
<1>2. CASE BudgetAllows(f)
  <2>1. cycle'[f].missed = {Turn(f)} \ Forecasted /\ cycle'[f].pos = cycle[f].pos
    BY <1>2, BudgetTyped
  <2>2. Forecasted' = Forecasted /\ Turn(f)' = Turn(f)
    BY <1>2, <2>1 DEF BudgetAllows, Forecasted, Turn
  <2> QED BY <2>1, <2>2
<1>3. CASE /\ cycle[f].pc = "save" /\ cycle[f].allowed
           /\ cycle'[f].pos = cycle[f].pos
           /\ cycle'[f].missed = cycle[f].missed
           /\ \A v \in Workloads : snap'[v].reason = snap[v].reason
  <2>1. Forecasted' = Forecasted /\ Turn(f)' = Turn(f)
    BY <1>3 DEF Forecasted, Turn
  <2> QED BY <1>3, <2>1 DEF OwnOnly
<1> QED BY <1>1, <1>2, <1>3, HowAllowed

\* While a single forecaster runs, a raise of a workload that has been forecast
\* before keeps the speculative replicas of the whole cluster within the budget
\* (ProjectedSpeculativeReplicas; the first forecast of a workload is not in the
\* join).
THEOREM AloneWithinBudget ==
  ASSUME \A f, g \in Forecasters : f = g
  PROVE  Spec => [][\A f \in Forecasters, w \in Workloads :
                      Raises(f, w) /\ w \in Forecasted =>
                          Extra(snap', Workloads) <= 4 * Budget]_vars
<1>1. Init => WithinBudget /\ OwnOnly
  BY IdleTyped DEF Init, WithinBudget, OwnOnly
<1>2. Typed /\ OwnOnly /\ [Next]_vars => OwnOnly'
  BY OwnOnlyStep
<1>3. Typed /\ Typed' /\ WithinBudget /\ OwnOnly /\ [Next]_vars =>
        [\A f \in Forecasters, w \in Workloads :
                      Raises(f, w) /\ w \in Forecasted =>
                          Extra(snap', Workloads) <= 4 * Budget]_vars
  <2>1. SUFFICES ASSUME Typed, Typed', WithinBudget, OwnOnly, [Next]_vars,
                        NEW f \in Forecasters, NEW w \in Workloads,
                        Raises(f, w), w \in Forecasted
                 PROVE  Extra(snap', Workloads) <= 4 * Budget
    OBVIOUS
  <2>2. /\ w = Turn(f) /\ cycle[f].pc = "save" /\ snap'[w] = ApplyGuardrails(f)
        /\ snap'[w].safe > 4 * cycle[f].current
    BY <2>1, SavedInTurn DEF Raises, Stores
  <2>3. cycle[f].allowed
    <3>1. cycle[f].current \in Nat
      BY <2>1 DEF Typed, CycleTyped, CycleType
    <3> QED BY <2>1, <2>2, <3>1, SnapshotTyped DEF Typed
  <2>4. cycle[f].missed = {}
    BY <2>1, <2>2, <2>3 DEF OwnOnly
  <2>5. Workloads \ cycle[f].missed = Workloads
    BY <2>4
  <2>6. Extra(snap', Workloads \ cycle[f].missed) <= 4 * Budget
    BY <2>1, RaiseStep
  <2> QED BY <2>5, <2>6
<1>4. Spec => []WithinBudget /\ []OwnOnly
  BY <1>1, <1>2, AlwaysTyped, BudgetStep, PTL DEF Spec
<1> QED BY <1>3, <1>4, AlwaysTyped, PTL DEF Spec
=====
