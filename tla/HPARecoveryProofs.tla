------------------------- MODULE HPARecoveryProofs -------------------------
(***************************************************************************)
(* Theorems about HPARecovery, for every number of ScaledObjects, metrics, *)
(* edits and faults and every backoff.                                     *)
(***************************************************************************)
EXTENDS HPARecovery, TLAPS

LEMMA RestingType == Resting \in Leaders
  BY DEF Resting, Leaders, Listings

LEMMA ZeroType == Zero \in States
  BY RecoveryAssumption DEF Zero, States

LEMMA NoHPAType == NoHPA \in HPAs
  BY DEF NoHPA, HPAs

LEMMA BackoffType == ASSUME NEW k PROVE Backoff(k) \in 1 .. MaxDelay
  BY RecoveryAssumption DEF Backoff

LEMMA WrittenType ==
    ASSUME NEW n \in Names, leader \in Leaders, Written(n)
    PROVE  leader' \in Leaders
  BY DEF Written, Leaders

LEMMA LeaveType ==
    ASSUME leader \in Leaders, Leave
    PROVE  leader' \in Leaders
  BY DEF Leave, Leaders

LEMMA StateOfType ==
    ASSUME TypeOK, NEW n \in Names
    PROVE  StateOf(n) \in States /\ Restored(n) \in States
<1>1. hpa[n].id \in Nat  BY DEF TypeOK, HPAs
<1>2. [Zero EXCEPT !.id = hpa[n].id] \in States
  BY <1>1, ZeroType DEF States
<1>3. states[n] \in States  BY DEF TypeOK
<1> QED BY <1>2, <1>3 DEF StateOf, Restored

-----------------------------------------------------------------------------
(* Type correctness. *)

LEMMA TypeInit == Init => TypeOK
<1> SUFFICES ASSUME Init PROVE TypeOK
  OBVIOUS
<1>1. object \in [Names -> Objects]
  <2>1. [uid : {1}, kind : {"plain"}, wants : Policies] \subseteq Objects
    BY RecoveryAssumption DEF Objects, Kinds
  <2> QED BY <2>1 DEF Init
<1>2. hpa \in [Names -> HPAs]
  <2> SUFFICES ASSUME NEW n \in Names
               PROVE  [id |-> 1, owner |-> 1, note |-> FALSE,
                       metrics |-> object[n].wants \cap reach] \in HPAs
    BY DEF Init
  <2>1. reach \subseteq Metrics  BY DEF Init
  <2> QED BY <2>1 DEF HPAs
<1>3. leader \in Leaders  BY RestingType DEF Init
<1>4. states \in [Names -> States]  BY ZeroType DEF Init
<1> QED
  BY <1>1, <1>2, <1>3, <1>4, RecoveryAssumption DEF Init, TypeOK

LEMMA TypeEdit == ASSUME TypeOK, NEW n \in Names, Edit(n) PROVE TypeOK'
<1>1. object' \in [Names -> Objects]
  <2>1. object[n] \in Objects  BY DEF TypeOK
  <2>2. CASE \E kind \in Kinds \ {"gone"}, wants \in Policies :
                object' = [object EXCEPT ![n].kind = kind, ![n].wants = wants]
    <3>1. PICK kind \in Kinds \ {"gone"}, wants \in Policies :
                object' = [object EXCEPT ![n].kind = kind, ![n].wants = wants]
      BY <2>2
    <3>2. wants \in SUBSET Metrics  BY RecoveryAssumption
    <3>3. [object[n] EXCEPT !.kind = kind, !.wants = wants] \in Objects
      BY <2>1, <3>2 DEF Objects
    <3>4. object' = [object EXCEPT ![n] =
                        [object[n] EXCEPT !.kind = kind, !.wants = wants]]
      BY <3>1 DEF TypeOK
    <3> QED BY <3>3, <3>4 DEF TypeOK
  <2>3. CASE \E wants \in Policies : object' = [object EXCEPT ![n] =
                [uid |-> @.uid + 1, kind |-> "plain", wants |-> wants]]
    <3>1. PICK wants \in Policies : object' = [object EXCEPT ![n] =
                [uid |-> @.uid + 1, kind |-> "plain", wants |-> wants]]
      BY <2>3
    <3>2. wants \in SUBSET Metrics  BY RecoveryAssumption
    <3>3. [uid |-> object[n].uid + 1, kind |-> "plain", wants |-> wants] \in Objects
      BY <2>1, <3>2 DEF Objects, Kinds
    <3> QED BY <3>1, <3>3 DEF TypeOK
  <2> QED BY <2>2, <2>3 DEF Edit
<1> QED
  BY <1>1, RecoveryAssumption DEF Edit, process, TypeOK

LEMMA TypeKeda ==
    ASSUME TypeOK, NEW n \in Names, Keda(n) \/ Collect(n)
    PROVE  TypeOK'
<1>0. object[n] \in Objects /\ hpa[n] \in HPAs
  BY DEF TypeOK
<1>1. CASE Keda(n)
  <2>1. object' \in [Names -> Objects]
    <3>1. [object[n] EXCEPT !.kind = "gone"] \in Objects
      BY <1>0 DEF Objects, Kinds
    <3> QED BY <1>1, <3>1 DEF Keda, TypeOK
  <2>2. Built(n) \in SUBSET Metrics
    BY <1>0 DEF Built, Objects
  <2>3. [id |-> made[n] + 1, owner |-> object[n].uid, metrics |-> Built(n),
         note |-> FALSE] \in HPAs
    BY <1>0, <2>2 DEF HPAs, Objects, TypeOK
  <2>4. [hpa[n] EXCEPT !.metrics = Built(n)] \in HPAs
    BY <1>0, <2>2 DEF HPAs
  <2>5. hpa' \in [Names -> HPAs] /\ made' \in [Names -> Nat]
    <3> DEFINE New == [id |-> made[n] + 1, owner |-> object[n].uid,
                       metrics |-> Built(n), note |-> FALSE]
               Updated == [hpa[n] EXCEPT !.metrics = Built(n)]
    <3>1. hpa' = hpa \/ \E h \in {NoHPA, New, Updated} :
                            hpa' = [hpa EXCEPT ![n] = h]
      BY <1>1 DEF Keda, TypeOK
    <3>2. {NoHPA, New, Updated} \subseteq HPAs
      BY <2>3, <2>4, NoHPAType
    <3>3. made' = made \/ made' = [made EXCEPT ![n] = @ + 1]
      BY <1>1 DEF Keda
    <3> HIDE DEF New, Updated
    <3>4. hpa' \in [Names -> HPAs]  BY <3>1, <3>2 DEF TypeOK
    <3>5. made' \in [Names -> Nat]  BY <3>3 DEF TypeOK
    <3> QED BY <3>4, <3>5
  <2>6. leader' \in Leaders
    <3>1. CASE UNCHANGED leader  BY <3>1 DEF TypeOK
    <3>2. CASE Written(n)  BY <3>2, WrittenType DEF TypeOK
    <3> QED BY <1>1, <3>1, <3>2 DEF Keda
  <2>7. woken' \subseteq Names  BY <1>1 DEF Keda, TypeOK
  <2> QED
    BY <1>1, <2>1, <2>5, <2>6, <2>7 DEF Keda, TypeOK
<1>2. CASE Collect(n)
  <2>1. hpa' \in [Names -> HPAs]
    BY <1>2, NoHPAType DEF Collect, TypeOK
  <2>2. leader' \in Leaders
    BY <1>2, WrittenType DEF Collect, TypeOK
  <2> QED
    BY <1>2, <2>1, <2>2 DEF Collect, TypeOK
<1> QED BY <1>1, <1>2

LEMMA TypeScan ==
    ASSUME TypeOK, NEW n \in Names,
           PassOver(n) \/ Healthy(n) \/ Wait(n) \/ Attempt(n)
    PROVE  TypeOK'
<1> USE DEF cluster
<1>0. hpa[n].id \in Nat /\ Missing(n) \in SUBSET Metrics
  BY DEF TypeOK, HPAs, Leaders, Listings, Missing
<1>1. CASE PassOver(n)
  <2>1. leader' \in Leaders  BY <1>1 DEF PassOver, TypeOK, Leaders
  <2>2. faults' \in 0 .. MaxFaults
    BY <1>1, RecoveryAssumption DEF PassOver, Fault, TypeOK
  <2> QED BY <1>1, <2>1, <2>2 DEF PassOver, TypeOK
<1>2. CASE Healthy(n)
  <2>1. leader' \in Leaders  BY <1>2 DEF Healthy, TypeOK, Leaders
  <2>2. states' \in [Names -> States]
    BY <1>2, StateOfType DEF Healthy, TypeOK
  <2> QED BY <1>2, <2>1, <2>2 DEF Healthy, TypeOK
<1>3. CASE Wait(n)
  <2>1. leader' \in Leaders  BY <1>3 DEF Wait, TypeOK, Leaders
  <2> QED BY <1>3, <2>1 DEF Wait, TypeOK
<1>4. CASE Attempt(n)
  <2>1. leader' \in Leaders  BY <1>0, <1>4 DEF Attempt, TypeOK, Leaders
  <2>2. states' \in [Names -> States]
    <3> DEFINE k == IF StateOf(n).attempts < MaxAttempts
                    THEN StateOf(n).attempts + 1 ELSE MaxAttempts
    <3>1. k \in 0 .. MaxAttempts
      BY StateOfType, RecoveryAssumption DEF States
    <3>2. Backoff(k) \in -1 .. MaxDelay
      BY BackoffType, RecoveryAssumption
    <3>3. [id |-> hpa[n].id, attempts |-> k, due |-> Backoff(k)] \in States
      BY <1>0, <3>1, <3>2 DEF States
    <3>4. states' = [states EXCEPT ![n] =
                        [id |-> hpa[n].id, attempts |-> k, due |-> Backoff(k)]]
      BY <1>4 DEF Attempt
    <3> HIDE DEF k
    <3> QED BY <3>3, <3>4 DEF TypeOK
  <2> QED BY <1>4, <2>1, <2>2 DEF Attempt, TypeOK
<1> QED BY <1>1, <1>2, <1>3, <1>4

LEMMA TypeMetrics ==
    ASSUME TypeOK, NEW m \in Metrics, Outage(m) \/ Return(m) \/ Probe(m)
    PROVE  TypeOK'
<1>1. CASE Outage(m)
  BY <1>1, RecoveryAssumption DEF Outage, Fault, process, TypeOK
<1>2. CASE Return(m)
  BY <1>2 DEF Return, process, TypeOK
<1>3. CASE Probe(m)
  <2>1. leader' \in Leaders
    BY <1>3 DEF Probe, TypeOK, Leaders
  <2> QED BY <1>3, <2>1 DEF Probe, cluster, TypeOK
<1> QED BY <1>1, <1>2, <1>3

\* The nextAttempt of a Check that begins stays in its range.
LEMMA AgedType ==
    ASSUME NEW s \in States, age \in Nat
    PROVE  Aged(s) \in States
<1>1. s.due \in -1 .. MaxDelay  BY DEF States
<1>2. (IF s.due - age > 0 THEN s.due - age ELSE IF s.due = age THEN 0 ELSE -1)
        \in -1 .. MaxDelay
  BY <1>1, RecoveryAssumption
<1> QED BY <1>2 DEF Aged, States

LEMMA TypeList == ASSUME TypeOK, List PROVE TypeOK'
<1>1. leader' \in Leaders
  <2> DEFINE L == [n \in Names |-> [uid |-> object[n].uid,
                                    wants |-> ExpectedMetrics(object[n])]]
             T == {n \in Names : ExpectedMetrics(object[n]) # {}}
  <2>1. L \in Listings
    <3> SUFFICES ASSUME NEW n \in Names
                 PROVE  [uid |-> object[n].uid,
                         wants |-> ExpectedMetrics(object[n])]
                           \in [uid : Nat, wants : SUBSET Metrics]
      BY DEF Listings
    <3>1. object[n] \in Objects  BY DEF TypeOK
    <3> QED BY <3>1 DEF ExpectedMetrics, Objects
  <2>2. T \in SUBSET Names  OBVIOUS
  <2>3. leader' = [Resting EXCEPT !.pc = "scan", !.listed = L, !.todo = T]
    BY DEF List
  <2> HIDE DEF L, T
  <2> QED BY <2>1, <2>2, <2>3, RestingType DEF Leaders
<1>2. states' \in [Names -> States]
  <2> SUFFICES ASSUME NEW n \in Names PROVE Aged(states[n]) \in States
    BY DEF List
  <2>1. states[n] \in States /\ age \in Nat
    BY RecoveryAssumption DEF TypeOK
  <2> QED BY <2>1, AgedType
<1>3. age' \in 0 .. MaxDelay + 1  BY RecoveryAssumption DEF List
<1>4. ticked' \in BOOLEAN  BY DEF List
<1>5. UNCHANGED <<object, hpa, made, woken, reach, shown, edits, faults>>
  BY DEF List, cluster
<1> QED BY <1>1, <1>2, <1>3, <1>4, <1>5 DEF TypeOK

LEMMA TypePatch == ASSUME TypeOK, Patch PROVE TypeOK'
<1>1. leader' \in Leaders  BY LeaveType DEF Patch, TypeOK
<1>2. CASE leader.item \in Names
  <2>1. [hpa[leader.item] EXCEPT !.note = Stamp(@)] \in HPAs
    BY <1>2 DEF TypeOK, HPAs, Stamp
  <2>2. hpa' = [hpa EXCEPT ![leader.item] =
                    [hpa[leader.item] EXCEPT !.note = Stamp(@)]]
    BY <1>2 DEF Patch, TypeOK
  <2>3. hpa' \in [Names -> HPAs]
    BY <2>1, <2>2 DEF TypeOK
  <2>4. woken' \subseteq Names  BY <1>2 DEF Patch, TypeOK
  <2> QED BY <1>1, <2>3, <2>4 DEF Patch, TypeOK
<1>3. CASE leader.item \notin Names
  <2>1. hpa' = hpa  BY <1>3 DEF Patch, TypeOK
  <2>2. woken' = woken  BY <2>1 DEF Patch
  <2> QED BY <1>1, <2>1, <2>2 DEF Patch, TypeOK
<1> QED BY <1>2, <1>3

LEMMA TypeCheck ==
    ASSUME TypeOK,
           RestartKeda \/ Elapse \/ ListFails \/ ProbeFails \/ PatchFails
             \/ Prune \/ Failover
    PROVE  TypeOK'
<1>1. CASE RestartKeda
  BY <1>1, RecoveryAssumption DEF RestartKeda, Fault, process, TypeOK
<1>2. CASE Elapse
  <2>1. age' \in 0 .. MaxDelay + 1
    BY <1>2, RecoveryAssumption DEF Elapse, TypeOK
  <2> QED BY <1>2, <2>1 DEF Elapse, cluster, TypeOK
<1>4. CASE ListFails
  <2>1. faults' \in 0 .. MaxFaults
    BY <1>4, RecoveryAssumption DEF ListFails, Fault, TypeOK
  <2>2. ticked' \in BOOLEAN  BY <1>4 DEF ListFails
  <2> QED BY <1>4, <2>1, <2>2 DEF ListFails, cluster, TypeOK
<1>5. CASE ProbeFails
  <2>1. leader' \in Leaders  BY <1>5, LeaveType DEF ProbeFails, TypeOK
  <2>2. faults' \in 0 .. MaxFaults
    BY <1>5, RecoveryAssumption DEF ProbeFails, Fault, TypeOK
  <2> QED BY <1>5, <2>1, <2>2 DEF ProbeFails, cluster, TypeOK
<1>7. CASE PatchFails
  <2>1. leader' \in Leaders  BY <1>7, LeaveType DEF PatchFails, TypeOK
  <2>2. faults' \in 0 .. MaxFaults
    BY <1>7, RecoveryAssumption DEF PatchFails, Fault, TypeOK
  <2> QED BY <1>7, <2>1, <2>2 DEF PatchFails, cluster, TypeOK
<1>8. CASE Prune
  <2>1. states' \in [Names -> States]  BY <1>8, ZeroType DEF Prune, TypeOK
  <2> QED
    BY <1>8, <2>1, RestingType DEF Prune, cluster, TypeOK
<1>9. CASE Failover
  <2>1. states' \in [Names -> States]  BY <1>9, ZeroType DEF Failover
  <2> QED
    BY <1>9, <2>1, RestingType, RecoveryAssumption
    DEF Failover, Fault, cluster, TypeOK
<1> QED BY <1>1, <1>2, <1>4, <1>5, <1>7, <1>8, <1>9

LEMMA TypeStep == ASSUME TypeOK, [Next]_vars PROVE TypeOK'
<1>1. CASE UNCHANGED vars
  BY <1>1 DEF TypeOK, vars, cluster, process
<1>2. CASE Next
  BY <1>2, TypeEdit, TypeKeda, TypeScan, TypeMetrics, TypeList, TypePatch,
     TypeCheck DEF Next, Loop
<1> QED BY <1>1, <1>2

\* The variables of every behaviour keep their types.
THEOREM TypeCorrect == Spec => []TypeOK
<1>1. Init => TypeOK  BY TypeInit
<1>2. TypeOK /\ [Next]_vars => TypeOK'  BY TypeStep
<1> QED BY <1>1, <1>2, PTL DEF Spec

-----------------------------------------------------------------------------
(* The resource version protects the patch.  While nobody has written the  *)
(* HPA since it was read, everything the leader concluded from it holds.   *)

Concluded(n) ==
    /\ hpa[n].id # 0 /\ hpa[n].id = states[n].id
    /\ hpa[n].owner = leader.listed[n].uid
    /\ Missing(n) # {}

CopyIsCurrent ==
    leader.fresh => /\ leader.pc = "probe" /\ leader.item \in Names
                    /\ Concluded(leader.item)

NumberedHPAs == \A n \in Names : hpa[n].id = 0 => hpa[n] = NoHPA

Inv == TypeOK /\ CopyIsCurrent /\ NumberedHPAs

LEMMA InvInit == Init => Inv
  BY TypeInit DEF Init, Inv, CopyIsCurrent, NumberedHPAs, Resting

\* A step that spares what the leader read, and does not read anew, keeps the copy current.
LEMMA CopyKept ==
    ASSUME Inv, leader'.fresh => leader.fresh,
           leader'.fresh => /\ UNCHANGED <<states, hpa[leader.item]>>
                            /\ leader'.item = leader.item
                            /\ leader'.pc = leader.pc
                            /\ leader'.listed = leader.listed
    PROVE  CopyIsCurrent'
  BY DEF Inv, CopyIsCurrent, Concluded, Missing

\* Only KEDA numbers HPAs, and it starts above the number of none.
LEMMA HPAsKept == ASSUME Inv, UNCHANGED hpa PROVE NumberedHPAs'
  BY DEF Inv, NumberedHPAs

LEMMA WrittenCopy ==
    ASSUME Inv, NEW n \in Names, UNCHANGED states, Written(n),
           NEW h, hpa' = [hpa EXCEPT ![n] = h]
    PROVE  CopyIsCurrent'
<1>1. leader'.fresh = (leader.fresh /\ leader.item # n)
      /\ leader'.item = leader.item /\ leader'.pc = leader.pc
      /\ leader'.listed = leader.listed
  BY DEF Written, Inv, TypeOK, Leaders
<1>2. ASSUME leader.fresh, leader.item # n
      PROVE  hpa'[leader.item] = hpa[leader.item]
  BY <1>2 DEF Inv, TypeOK, CopyIsCurrent
<1> QED BY <1>1, <1>2, CopyKept

LEMMA KedaInv ==
    ASSUME Inv, NEW n \in Names, Keda(n)
    PROVE  CopyIsCurrent' /\ NumberedHPAs'
<1> DEFINE New == [id |-> made[n] + 1, owner |-> object[n].uid,
                   metrics |-> Built(n), note |-> FALSE]
           Updated == [hpa[n] EXCEPT !.metrics = Built(n)]
<1>0. hpa[n] \in HPAs /\ object[n] \in Objects /\ made[n] \in Nat
  BY DEF Inv, TypeOK
<1>1. UNCHANGED hpa \/ hpa' = [hpa EXCEPT ![n] = NoHPA]
        \/ hpa' = [hpa EXCEPT ![n] = New] \/ hpa' = [hpa EXCEPT ![n] = Updated]
  BY DEF Keda, Inv, TypeOK
<1>2. CASE UNCHANGED hpa
  <2>1. UNCHANGED <<leader, states>>  BY <1>2 DEF Keda
  <2> QED BY <1>2, <2>1, CopyKept, HPAsKept
<1>3. CASE hpa' # hpa
  <2>1. Written(n) /\ UNCHANGED states  BY <1>3 DEF Keda
  <2>2. CopyIsCurrent'
    <3> HIDE DEF New, Updated
    <3> QED BY <1>1, <1>3, <2>1, WrittenCopy
  <2>3. New.id # 0  BY <1>0
  <2>4. Updated.id = hpa[n].id  BY <1>0 DEF HPAs
  <2>5. ASSUME hpa[n].id = 0 PROVE hpa'[n] \in {NoHPA, New}
    <3>1. hpa[n] = NoHPA  BY <2>5 DEF Inv, NumberedHPAs
    <3>2. hpa[n].owner # object[n].uid  BY <1>0, <3>1 DEF NoHPA, Objects
    <3>3. hpa' = [hpa EXCEPT ![n] = NoHPA] \/ hpa' = [hpa EXCEPT ![n] = New]
      BY <1>3, <3>2 DEF Keda
    <3> HIDE DEF New
    <3> QED BY <3>3 DEF Inv, TypeOK
  <2>6. NumberedHPAs'
    <3> SUFFICES ASSUME NEW o \in Names, hpa'[o].id = 0 PROVE hpa'[o] = NoHPA
      BY DEF NumberedHPAs
    <3>1. CASE o # n
      <4>1. hpa'[o] = hpa[o]  BY <1>1, <3>1 DEF Inv, TypeOK
      <4> QED BY <4>1 DEF Inv, NumberedHPAs
    <3>2. CASE o = n
      <4>1. hpa'[n] \in {NoHPA, New, Updated}
        BY <1>1, <1>3 DEF Inv, TypeOK
      <4> HIDE DEF New, Updated
      <4> QED BY <2>3, <2>4, <2>5, <3>2, <4>1
    <3> QED BY <3>1, <3>2
  <2> QED BY <2>2, <2>6
<1> QED BY <1>2, <1>3

LEMMA ScanInv ==
    ASSUME Inv, NEW n \in Names,
           PassOver(n) \/ Healthy(n) \/ Wait(n) \/ Attempt(n)
    PROVE  CopyIsCurrent'
<1>0. leader \in Leaders /\ hpa[n] \in HPAs  BY DEF Inv, TypeOK
<1>1. CASE PassOver(n) \/ Healthy(n) \/ Wait(n)
  <2>1. leader.pc = "scan" /\ leader'.fresh = leader.fresh
    BY <1>0, <1>1 DEF PassOver, Healthy, Wait, Scanning, Leaders
  <2>2. ~leader'.fresh  BY <2>1 DEF Inv, CopyIsCurrent
  <2> QED BY <2>2 DEF CopyIsCurrent
<1>2. CASE Attempt(n)
  <2>1. /\ leader'.pc = "probe" /\ leader'.item = n
        /\ leader'.listed = leader.listed
    BY <1>0, <1>2 DEF Attempt, Leaders
  <2>2. states'[n].id = hpa[n].id
    BY <1>2 DEF Attempt, Inv, TypeOK
  <2>3. hpa[n].id # 0 /\ hpa[n].owner = leader.listed[n].uid /\ Missing(n) # {}
    BY <1>2 DEF Attempt, OwnedRecoveryHPA, Inv, NumberedHPAs
  <2>4. UNCHANGED hpa  BY <1>2 DEF Attempt, cluster
  <2> QED
    BY <2>1, <2>2, <2>3, <2>4 DEF CopyIsCurrent, Concluded, Missing
<1> QED BY <1>1, <1>2

LEMMA LeaveInv == ASSUME Inv, Leave PROVE CopyIsCurrent'
<1>1. ~leader'.fresh  BY DEF Leave, Inv, TypeOK, Leaders
<1> QED BY <1>1 DEF CopyIsCurrent

LEMMA RestInv ==
    ASSUME Inv, leader' = Resting PROVE CopyIsCurrent'
  BY DEF CopyIsCurrent, Resting

LEMMA PatchInv == ASSUME Inv, Patch PROVE CopyIsCurrent' /\ NumberedHPAs'
<1>1. CopyIsCurrent'  BY LeaveInv DEF Patch
<1>2. leader.item \in Names /\ hpa[leader.item].id # 0
  BY DEF Patch, OptimisticLock, Inv, CopyIsCurrent, Concluded
<1>3. \A n \in Names : hpa'[n].id = hpa[n].id
                       /\ (n # leader.item => hpa'[n] = hpa[n])
  BY <1>2 DEF Patch, Inv, TypeOK, HPAs
<1>4. NumberedHPAs'  BY <1>2, <1>3 DEF Inv, NumberedHPAs
<1> QED BY <1>1, <1>4

LEMMA InvStep == ASSUME Inv, [Next]_vars PROVE Inv'
<1>0. TypeOK'  BY TypeStep DEF Inv
<1> SUFFICES CopyIsCurrent' /\ NumberedHPAs'
  BY <1>0 DEF Inv
<1>1. CASE UNCHANGED vars
  BY <1>1, CopyKept, HPAsKept DEF vars, cluster, process
<1>2. ASSUME NEW n \in Names, Edit(n) PROVE CopyIsCurrent' /\ NumberedHPAs'
  BY <1>2, CopyKept, HPAsKept DEF Edit, process
<1>3. ASSUME NEW n \in Names, Keda(n) PROVE CopyIsCurrent' /\ NumberedHPAs'
  BY <1>3, KedaInv
<1>4. ASSUME NEW n \in Names, Collect(n) PROVE CopyIsCurrent' /\ NumberedHPAs'
  <2>1. CopyIsCurrent'  BY <1>4, WrittenCopy DEF Collect
  <2>2. NumberedHPAs'  BY <1>4 DEF Collect, Inv, TypeOK, NumberedHPAs
  <2> QED BY <2>1, <2>2
<1>5. ASSUME NEW n \in Names, PassOver(n) \/ Healthy(n) \/ Wait(n) \/ Attempt(n)
      PROVE  CopyIsCurrent' /\ NumberedHPAs'
  <2>1. UNCHANGED hpa
    BY <1>5 DEF PassOver, Healthy, Wait, Attempt, cluster
  <2> QED BY <1>5, <2>1, ScanInv, HPAsKept
<1>6. ASSUME NEW m \in Metrics, Outage(m) \/ Return(m)
      PROVE  CopyIsCurrent' /\ NumberedHPAs'
  BY <1>6, CopyKept, HPAsKept DEF Outage, Return, process
<1>7. ASSUME NEW m \in Metrics, Probe(m) PROVE CopyIsCurrent' /\ NumberedHPAs'
  <2>1. /\ leader'.fresh = leader.fresh /\ leader'.item = leader.item
        /\ leader'.pc = leader.pc /\ leader'.listed = leader.listed
        /\ UNCHANGED <<hpa, states>>
    BY <1>7 DEF Probe, cluster, Inv, TypeOK, Leaders
  <2> QED BY <2>1, CopyKept, HPAsKept
<1>8. CASE RestartKeda
  BY <1>8, CopyKept, HPAsKept DEF RestartKeda, process
<1>9. CASE Elapse \/ ListFails
  BY <1>9, CopyKept, HPAsKept DEF Elapse, ListFails, cluster
<1>10. CASE List
  <2>1. ~leader'.fresh  BY <1>10 DEF List, Resting
  <2> QED BY <1>10, <2>1, HPAsKept DEF List, cluster, CopyIsCurrent
<1>11. CASE ProbeFails \/ PatchFails
  BY <1>11, LeaveInv, HPAsKept DEF ProbeFails, PatchFails, cluster
<1>12. CASE Patch
  BY <1>12, PatchInv
<1>13. CASE Prune \/ Failover
  BY <1>13, RestInv, HPAsKept DEF Prune, Failover, cluster
<1> QED
  BY <1>1, <1>2, <1>3, <1>4, <1>5, <1>6, <1>7, <1>8, <1>9, <1>10, <1>11,
     <1>12, <1>13 DEF Next, Loop

\* The copy that the leader holds as current is the HPA itself, and an HPA
\* number names one HPA only: what the next two theorems rest on.
THEOREM Invariant == Spec => []Inv
<1>1. Init => Inv  BY InvInit
<1>2. Inv /\ [Next]_vars => Inv'  BY InvStep
<1> QED BY <1>1, <1>2, PTL DEF Spec

-----------------------------------------------------------------------------
\* The step of PatchesWhatItRead.
Justified ==
    \A n \in Names :
        (hpa'[n].id = hpa[n].id /\ hpa'[n].note # hpa[n].note) =>
            /\ hpa[n].id = states[n].id
            /\ hpa[n].owner = leader.listed[n].uid
            /\ Missing(n) # {}

\* Apart from the patch, no step changes the annotation of an HPA that stays.
LEMMA OthersLeaveNotes ==
    ASSUME Inv, NEW n \in Names, Keda(n) \/ Collect(n)
    PROVE  \A o \in Names : hpa'[o].id = hpa[o].id => hpa'[o].note = hpa[o].note
<1> SUFFICES ASSUME NEW o \in Names, hpa'[o].id = hpa[o].id
             PROVE  hpa'[o].note = hpa[o].note
  OBVIOUS
<1>0. hpa[o] \in HPAs  BY DEF Inv, TypeOK
<1>1. CASE o # n
  BY <1>1 DEF Keda, Collect, Inv, TypeOK
<1>2. CASE o = n
  <2>1. CASE hpa[n].id = 0
    <3>1. hpa[n] = NoHPA  BY <2>1 DEF Inv, NumberedHPAs
    <3>2. (hpa')[n].id = 0  BY <1>2, <2>1
    <3>3. NumberedHPAs'
      <4>1. CASE Keda(n)  BY <4>1, KedaInv
      <4>2. CASE Collect(n)
        BY <4>2 DEF Collect, Inv, TypeOK, NumberedHPAs
      <4> QED BY <4>1, <4>2
    <3>4. hpa'[n] = NoHPA  BY <3>2, <3>3 DEF NumberedHPAs
    <3> QED BY <1>2, <3>1, <3>4
  <2>2. CASE hpa[n].id # 0
    <3>1. hpa'[n] # NoHPA  BY <1>2, <2>2 DEF NoHPA
    <3>2. hpa[n] # NoHPA  BY <2>2 DEF NoHPA
    <3>3. UNCHANGED hpa \/ hpa' = [hpa EXCEPT ![n].metrics = Built(n)]
      BY <3>1, <3>2 DEF Keda, Collect, Inv, TypeOK
    <3> QED BY <1>0, <1>2, <3>3 DEF Inv, TypeOK, HPAs
  <2> QED BY <2>1, <2>2
<1> QED BY <1>1, <1>2

LEMMA StepJustified == ASSUME Inv, [Next]_vars PROVE Justified
<1>1. CASE Patch
  <2>1. Concluded(leader.item) /\ leader.item \in Names
    BY <1>1 DEF Patch, OptimisticLock, Inv, CopyIsCurrent
  <2>2. \A n \in Names : n # leader.item => hpa'[n] = hpa[n]
    BY <1>1 DEF Patch, Inv, TypeOK
  <2> QED BY <2>1, <2>2 DEF Justified, Concluded
<1>2. ASSUME NEW n \in Names, Keda(n) \/ Collect(n) PROVE Justified
  BY <1>2, OthersLeaveNotes DEF Justified
<1>3. ASSUME UNCHANGED hpa PROVE Justified
  BY <1>3 DEF Justified
<1>4. CASE UNCHANGED vars
  BY <1>3, <1>4 DEF vars, cluster
<1>5. CASE Next
  <2>1. ASSUME NEW n \in Names,
               Edit(n) \/ PassOver(n) \/ Healthy(n) \/ Wait(n) \/ Attempt(n)
        PROVE  Justified
    BY <1>3, <2>1 DEF Edit, PassOver, Healthy, Wait, Attempt, cluster
  <2>2. ASSUME NEW m \in Metrics, Outage(m) \/ Return(m) \/ Probe(m)
        PROVE  Justified
    BY <1>3, <2>2 DEF Outage, Return, Probe, cluster
  <2>3. CASE RestartKeda \/ Elapse \/ List \/ ListFails \/ ProbeFails
               \/ PatchFails \/ Prune \/ Failover
    BY <1>3, <2>3 DEF RestartKeda, Elapse, List, ListFails, ProbeFails,
       PatchFails, Prune, Failover, cluster
  <2> QED BY <1>1, <1>2, <1>5, <2>1, <2>2, <2>3 DEF Next, Loop
<1> QED BY <1>4, <1>5

\* Recovery never touches an HPA that was replaced, that belongs to another
\* object, or that KEDA repaired since it was read.
THEOREM PatchesOnlyWhatItRead == Spec => PatchesWhatItRead
<1>1. Inv /\ [Next]_vars => [Justified]_vars
  BY StepJustified
<1>2. Spec => []Inv  BY Invariant
<1>3. Spec => [][Justified]_vars
  BY <1>1, <1>2, PTL DEF Spec
<1> QED BY <1>3 DEF PatchesWhatItRead, Justified

-----------------------------------------------------------------------------
(* The exported series follow the states, in the middle of a Check too. *)

Followed == \A n \in shown : states[n].id # 0

LEMMA FollowedStep ==
    ASSUME Inv, Followed, [Next]_vars PROVE Followed'
<1>0. Followed /\ states \in [Names -> States] /\ shown \subseteq Names
  BY DEF Inv, TypeOK
<1>1. ASSUME NEW n \in Names, Healthy(n) \/ Wait(n) \/ Attempt(n)
      PROVE  Followed'
  <2>1. hpa[n].id # 0 /\ hpa[n] \in HPAs
    BY <1>1 DEF Healthy, Wait, Attempt, OwnedRecoveryHPA, Inv, TypeOK, NumberedHPAs
  <2>2. shown' = shown \cup {n}
    BY <1>1 DEF Healthy, Wait, Attempt
  <2>3. \A o \in Names \ {n} : states'[o] = states[o]
    BY <1>0, <1>1 DEF Healthy, Wait, Attempt
  <2>4. states'[n].id # 0
    <3>1. CASE Healthy(n)
      <4>1. Restored(n).id = hpa[n].id  BY DEF Restored, Zero
      <4> QED BY <1>0, <2>1, <3>1, <4>1 DEF Healthy
    <3>2. CASE Wait(n)
      <4>1. states[n].id = hpa[n].id  BY <3>2 DEF Wait, StateOf, Zero
      <4> QED BY <2>1, <3>2, <4>1 DEF Wait
    <3>3. CASE Attempt(n)
      BY <1>0, <2>1, <3>3 DEF Attempt
    <3> QED BY <1>1, <3>1, <3>2, <3>3
  <2> QED BY <1>0, <2>2, <2>3, <2>4 DEF Followed
<1>2. CASE List
  <2>1. \A n \in Names : Aged(states[n]).id = states[n].id
    BY <1>0 DEF Aged, States
  <2>2. states' = [n \in Names |-> Aged(states[n])] /\ shown' = shown
    BY <1>2 DEF List
  <2> QED BY <1>0, <2>1, <2>2 DEF Followed
<1>3. CASE Prune
  <2>1. \A n \in shown' : n \in shown /\ n \in leader.seen
    BY <1>0, <1>3 DEF Prune, Followed
  <2> QED BY <1>0, <1>3, <2>1 DEF Prune, Followed
<1>4. CASE Failover
  BY <1>4 DEF Failover, Followed
<1>5. ASSUME UNCHANGED <<states, shown>> PROVE Followed'
  BY <1>0, <1>5 DEF Followed
<1>6. ASSUME NEW n \in Names, Edit(n) \/ Keda(n) \/ Collect(n) \/ PassOver(n)
      PROVE  Followed'
  BY <1>5, <1>6 DEF Edit, Keda, Collect, PassOver, process
<1>7. ASSUME NEW m \in Metrics, Outage(m) \/ Return(m) \/ Probe(m)
      PROVE  Followed'
  BY <1>5, <1>7 DEF Outage, Return, Probe, process
<1>8. CASE RestartKeda \/ Elapse \/ ListFails \/ ProbeFails \/ Patch \/ PatchFails
  BY <1>5, <1>8 DEF RestartKeda, Elapse, ListFails, ProbeFails, Patch,
     PatchFails, process
<1>9. CASE UNCHANGED vars
  BY <1>5, <1>9 DEF vars, process
<1> QED
  BY <1>1, <1>2, <1>3, <1>4, <1>6, <1>7, <1>8, <1>9 DEF Next, Loop

\* No series outlives what the leader knows of its object.
THEOREM SeriesFollowStates == Spec => []SeriesHaveStates
<1>1. Init => Followed  BY DEF Init, Followed
<1>2. Inv /\ Followed /\ [Next]_vars => Followed'  BY FollowedStep
<1>3. Followed => SeriesHaveStates  BY DEF Followed, SeriesHaveStates
<1>4. Spec => []Inv  BY Invariant
<1> QED BY <1>1, <1>2, <1>3, <1>4, PTL DEF Spec
=============================================================================
