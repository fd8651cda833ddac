---------------------------- MODULE HPARecovery ----------------------------
(***************************************************************************)
(* The controller's loop that repairs an HPA which KEDA built while the    *)
(* external scaler was out of reach.  Check lists the ScaledObjects, reads *)
(* the HPA of each, and for one that lacks a predictive metric probes      *)
(* KEDA's metrics API and changes an annotation of the HPA, which wakes    *)
(* KEDA.  Between any two of these calls KEDA, the user, the garbage       *)
(* collector and the scaler move on.  Time is counted in scan intervals.   *)
(***************************************************************************)
EXTENDS Integers, FiniteSets

CONSTANTS
    Names,            \* ScaledObjects, by name
    Metrics,          \* names of predictive metrics, s<index>-...
    Policies,         \* sets of them that the triggers of an object may ask for
    NoName,
    MaxDelay,         \* five minutes, in intervals
    MaxAttempts,      \* the count of attempts stops here
    MaxEdits, MaxFaults   \* bounds

ASSUME RecoveryAssumption ==
    /\ NoName \notin Names /\ Policies \subseteq SUBSET Metrics
    /\ MaxDelay \in Nat \ {0} /\ MaxAttempts \in Nat \ {0}
    /\ MaxEdits \in Nat /\ MaxFaults \in Nat

VARIABLES
    object,   \* the ScaledObject of each name: its UID, kind, and metrics
    hpa,      \* its HPA (id 0: none): identity, UID of its owner, predictive metrics, annotation
    made,     \* HPAs created, by name
    woken,    \* names KEDA has to reconcile
    reach,    \* metrics whose scaler KEDA reaches
    leader,   \* the Check under way
    states,   \* hpaRecoveryState by name (id 0: none)
    shown,    \* names whose missing metrics are exported
    age,      \* intervals since the last listing
    ticked,   \* a tick waits in the channel
    edits, faults   \* so far

cluster == <<object, hpa, made, woken, reach>>
process == <<leader, states, shown, age, ticked>>
vars == <<cluster, process, edits, faults>>

Kinds == {"plain", "paused", "composite", "deleting", "gone"}
Objects == [uid : Nat \ {0}, kind : Kinds, wants : SUBSET Metrics]
HPAs == [id : Nat, owner : Nat, metrics : SUBSET Metrics, note : BOOLEAN]
Listings == [Names -> [uid : Nat, wants : SUBSET Metrics]]
Leaders == [pc : {"idle", "scan", "probe"}, todo : SUBSET Names,
            seen : SUBSET Names, item : Names \cup {NoName}, fresh : BOOLEAN,
            ask : SUBSET Metrics, listed : Listings]
States == [id : Nat, attempts : 0 .. MaxAttempts, due : -1 .. MaxDelay]

NoHPA == [id |-> 0, owner |-> 0, metrics |-> {}, note |-> FALSE]
Zero == [id |-> 0, attempts |-> 0, due |-> -1]

Resting == [pc |-> "idle", todo |-> {}, seen |-> {}, item |-> NoName,
            fresh |-> FALSE, ask |-> {},
            listed |-> [n \in Names |-> [uid |-> 0, wants |-> {}]]]

\* KEDA came up while some scalers were out of reach.
Init ==
    /\ reach \in SUBSET Metrics
    /\ object \in [Names -> [uid : {1}, kind : {"plain"}, wants : Policies]]
    /\ hpa = [n \in Names |-> [id |-> 1, owner |-> 1, note |-> FALSE,
                               metrics |-> object[n].wants \cap reach]]
    /\ made = [n \in Names |-> 1]
    /\ woken = {}
    /\ leader = Resting /\ ticked = TRUE /\ age = 0
    /\ states = [n \in Names |-> Zero] /\ shown = {}
    /\ edits = 0 /\ faults = 0

Fault == faults < MaxFaults /\ faults' = faults + 1

-----------------------------------------------------------------------------
(* The cluster: the user, KEDA, the garbage collector, the scalers. *)

\* A write to an HPA changes its resource version: the copy that the leader
\* read is no longer current.
Written(n) == leader' = [leader EXCEPT !.fresh = @ /\ leader.item # n]

Edit(n) ==
    /\ edits < MaxEdits /\ edits' = edits + 1
    /\ \/ /\ object[n].kind \notin {"deleting", "gone"}
          /\ \E kind \in Kinds \ {"gone"}, wants \in Policies :
                object' = [object EXCEPT ![n].kind = kind, ![n].wants = wants]
       \/ /\ object[n].kind = "gone"
          /\ \E wants \in Policies :
                object' = [object EXCEPT ![n] =
                    [uid |-> @.uid + 1, kind |-> "plain", wants |-> wants]]
    /\ object' # object
    /\ woken' = woken \cup {n}
    /\ UNCHANGED <<hpa, made, reach, process, faults>>

\* The metrics KEDA gives an HPA: those of the triggers whose scaler answers.
\* With scalingModifiers there is one composite metric instead.
Built(n) == IF object[n].kind = "composite" THEN {} ELSE object[n].wants \cap reach

\* KEDA reconciles: it finalizes a deleted object, drops the HPA of a paused
\* one, creates a missing HPA and updates its own.  One of a former owner stays.
Keda(n) ==
    /\ n \in woken /\ woken' = woken \ {n}
    /\ IF object[n].kind = "deleting"
       THEN object' = [object EXCEPT ![n].kind = "gone"]
       ELSE UNCHANGED object
    /\ \/ /\ object[n].kind = "paused" /\ hpa[n].owner = object[n].uid
          /\ hpa' = [hpa EXCEPT ![n] = NoHPA]
          /\ UNCHANGED made
       \/ /\ object[n].kind \in {"plain", "composite"} /\ hpa[n] = NoHPA
          /\ hpa' = [hpa EXCEPT ![n] = [id |-> made[n] + 1, owner |-> object[n].uid,
                                        metrics |-> Built(n), note |-> FALSE]]
          /\ made' = [made EXCEPT ![n] = @ + 1]
       \/ /\ object[n].kind \in {"plain", "composite"}
          /\ hpa[n].owner = object[n].uid
          /\ hpa' = [hpa EXCEPT ![n].metrics = Built(n)]
          /\ UNCHANGED made
       \/ /\ \/ object[n].kind \in {"deleting", "gone"}
             \/ hpa[n].owner # object[n].uid /\ (object[n].kind = "paused" \/ hpa[n] # NoHPA)
          /\ UNCHANGED <<hpa, made>>
    /\ IF hpa' = hpa THEN UNCHANGED leader ELSE Written(n)
    /\ UNCHANGED <<reach, states, shown, age, ticked, edits, faults>>

\* The garbage collector removes an HPA whose owner is gone.
Collect(n) ==
    /\ hpa[n] # NoHPA
    /\ object[n].kind = "gone" \/ hpa[n].owner # object[n].uid
    /\ hpa' = [hpa EXCEPT ![n] = NoHPA]
    /\ woken' = woken \cup {n}
    /\ Written(n)
    /\ UNCHANGED <<object, made, reach, states, shown, age, ticked, edits, faults>>

Outage(m) ==
    /\ m \in reach /\ Fault
    /\ reach' = reach \ {m}
    /\ UNCHANGED <<object, hpa, made, woken, process, edits>>

Return(m) ==
    /\ reach' = reach \cup {m}
    /\ UNCHANGED <<object, hpa, made, woken, process, edits, faults>>

\* A KEDA that restarts reconciles every object.
RestartKeda ==
    /\ Fault
    /\ woken' = {n \in Names : object[n].kind # "gone"}
    /\ UNCHANGED <<object, hpa, made, reach, process, edits>>

-----------------------------------------------------------------------------
(* The leader-elected loop. *)

\* The ticker fires; its channel holds one tick.
Elapse ==
    /\ age' = IF age > MaxDelay THEN age ELSE age + 1
    /\ ticked' = TRUE
    /\ UNCHANGED <<cluster, leader, states, shown, edits, faults>>

\* Faulty variant: objects that are paused or composite are repaired too.
AnyWants(o) == IF o.kind = "gone" THEN {} ELSE o.wants

\* expectedMetrics: none for an object that is deleting, paused or composite.
ExpectedMetrics(o) == IF o.kind = "plain" THEN o.wants ELSE {}

\* nextAttempt relative to the Check that begins: -1 when it is past, 0 when a
\* fraction of an interval decides.
Aged(s) == [s EXCEPT !.due = IF @ - age > 0 THEN @ - age
                             ELSE IF @ = age THEN 0 ELSE -1]

\* Check begins: the time is read, then the objects are listed.
List ==
    /\ leader.pc = "idle" /\ ticked
    /\ leader' = [Resting EXCEPT
            !.pc = "scan",
            !.listed = [n \in Names |-> [uid |-> object[n].uid,
                                         wants |-> ExpectedMetrics(object[n])]],
            !.todo = {n \in Names : ExpectedMetrics(object[n]) # {}}]
    /\ states' = [n \in Names |-> Aged(states[n])]
    /\ age' = 0 /\ ticked' = FALSE
    /\ UNCHANGED <<cluster, shown, edits, faults>>

ListFails ==
    /\ leader.pc = "idle" /\ ticked /\ Fault
    /\ ticked' = FALSE
    /\ UNCHANGED <<cluster, leader, states, shown, age, edits>>

Scanning(n) == leader.pc = "scan" /\ n \in leader.todo

\* ownedRecoveryHPA, of the object as it was listed.
OwnedRecoveryHPA(n) == hpa[n] # NoHPA /\ hpa[n].owner = leader.listed[n].uid

\* missingHPAMetrics
Missing(n) == leader.listed[n].wants \ hpa[n].metrics

\* The HPA is not there, is not the object's, or cannot be read.
PassOver(n) ==
    /\ Scanning(n)
    /\ \/ ~OwnedRecoveryHPA(n) /\ UNCHANGED faults
       \/ Fault
    /\ leader' = [leader EXCEPT !.todo = @ \ {n}]
    /\ UNCHANGED <<cluster, states, shown, age, ticked, edits>>

\* The state of the HPA just read: another HPA starts afresh.
StateOf(n) == IF states[n].id = hpa[n].id THEN states[n] ELSE [Zero EXCEPT !.id = hpa[n].id]

\* Faulty variant: a healthy HPA needs no state.
Forgotten(n) == Zero

\* What is kept of an HPA that lacks nothing.
Restored(n) == [Zero EXCEPT !.id = hpa[n].id]

Healthy(n) ==
    /\ Scanning(n) /\ OwnedRecoveryHPA(n) /\ Missing(n) = {}
    /\ states' = [states EXCEPT ![n] = Restored(n)]
    /\ shown' = shown \cup {n}
    /\ leader' = [leader EXCEPT !.todo = @ \ {n}, !.seen = @ \cup {n}]
    /\ UNCHANGED <<cluster, age, ticked, edits, faults>>

\* It is too early for the next attempt.
Wait(n) ==
    /\ Scanning(n) /\ OwnedRecoveryHPA(n) /\ Missing(n) # {}
    /\ StateOf(n).due >= 0
    /\ shown' = shown \cup {n}
    /\ leader' = [leader EXCEPT !.todo = @ \ {n}, !.seen = @ \cup {n}]
    /\ UNCHANGED <<cluster, states, age, ticked, edits, faults>>

\* backoff: an interval, doubled by every attempt after the first.
Backoff(attempt) == LET delay == 2^(attempt - 1) IN
    IF delay \in 1 .. MaxDelay THEN delay ELSE MaxDelay

\* The attempt is recorded before the probe.
Attempt(n) ==
    /\ Scanning(n) /\ OwnedRecoveryHPA(n) /\ Missing(n) # {}
    /\ StateOf(n).due <= 0
    /\ LET attempts == IF StateOf(n).attempts < MaxAttempts
                       THEN StateOf(n).attempts + 1 ELSE MaxAttempts
       IN states' = [states EXCEPT ![n] = [id |-> hpa[n].id, attempts |-> attempts,
                                           due |-> Backoff(attempts)]]
    /\ shown' = shown \cup {n}
    /\ leader' = [leader EXCEPT !.pc = "probe", !.seen = @ \cup {n}, !.item = n,
                                !.fresh = TRUE, !.ask = Missing(n)]
    /\ UNCHANGED <<cluster, age, ticked, edits, faults>>

\* KEDA's metrics API answers for the triggers of the object as it is now.
Answers(m) == m \in reach /\ object[leader.item].kind # "gone"
                          /\ m \in object[leader.item].wants

Probe(m) ==
    /\ leader.pc = "probe" /\ m \in leader.ask /\ Answers(m)
    /\ leader' = [leader EXCEPT !.ask = @ \ {m}]
    /\ UNCHANGED <<cluster, states, shown, age, ticked, edits, faults>>

\* On to the next object.
Leave == leader' = [leader EXCEPT !.pc = "scan", !.todo = @ \ {leader.item},
                                  !.item = NoName, !.fresh = FALSE, !.ask = {}]

\* No answer for the metric, or the timeout of all the probes.
ProbeFails ==
    /\ leader.pc = "probe" /\ leader.ask # {}
    /\ \/ (\E m \in leader.ask : ~Answers(m)) /\ UNCHANGED faults
       \/ Fault
    /\ Leave
    /\ UNCHANGED <<cluster, states, shown, age, ticked, edits>>

\* Faulty variant: the patch carries no resource version.
HPAExists == hpa[leader.item] # NoHPA

\* The precondition of the patch: nobody wrote the HPA since it was read.
OptimisticLock == leader.fresh

\* Faulty variant: the annotation only says that recovery was requested.
Requested(note) == TRUE

\* The annotation is the time of the Check: never the value before.
Stamp(note) == ~note

Patch ==
    /\ leader.pc = "probe" /\ leader.ask = {} /\ OptimisticLock
    /\ LET n == leader.item IN
          /\ hpa' = [hpa EXCEPT ![n].note = Stamp(@)]
          /\ woken' = IF hpa' = hpa THEN woken ELSE woken \cup {n}
    /\ Leave
    /\ UNCHANGED <<object, made, reach, states, shown, age, ticked, edits, faults>>

PatchFails ==
    /\ leader.pc = "probe" /\ leader.ask = {}
    /\ \/ ~OptimisticLock /\ UNCHANGED faults
       \/ Fault
    /\ Leave
    /\ UNCHANGED <<cluster, states, shown, age, ticked, edits>>

\* Check ends: the states of objects it did not see are dropped.
Prune ==
    /\ leader.pc = "scan" /\ leader.todo = {}
    /\ states' = [n \in Names |-> IF n \in leader.seen THEN states[n] ELSE Zero]
    /\ shown' = {n \in shown : n \in leader.seen \/ states[n].id = 0}
    /\ leader' = Resting
    /\ UNCHANGED <<cluster, age, ticked, edits, faults>>

\* The leader stops anywhere; the next one knows nothing and checks at once.
Failover ==
    /\ Fault
    /\ leader' = Resting /\ ticked' = TRUE /\ age' = 0
    /\ states' = [n \in Names |-> Zero] /\ shown' = {}
    /\ UNCHANGED <<cluster, edits>>

-----------------------------------------------------------------------------
\* The leader's loop.
Loop == \/ List \/ ListFails \/ ProbeFails \/ Patch \/ PatchFails \/ Prune
        \/ \E n \in Names : PassOver(n) \/ Healthy(n) \/ Wait(n) \/ Attempt(n)
        \/ \E m \in Metrics : Probe(m)

Next ==
    \/ RestartKeda \/ Elapse \/ Loop \/ Failover
    \/ \E n \in Names : Edit(n) \/ Keda(n) \/ Collect(n)
    \/ \E m \in Metrics : Outage(m) \/ Return(m)

Spec == Init /\ [][Next]_vars

\* The ticker ticks, the loop goes on, KEDA and the garbage collector work
\* off what they were told, and every outage of a scaler ends.
Fairness ==
    /\ WF_vars(Elapse) /\ WF_vars(Loop)
    /\ \A n \in Names : WF_vars(Keda(n)) /\ WF_vars(Collect(n))
    /\ \A m \in Metrics : WF_vars(Return(m))

FairSpec == Spec /\ Fairness

-----------------------------------------------------------------------------
(* Properties. *)

\* Every variable keeps its type.
TypeOK ==
    /\ object \in [Names -> Objects] /\ hpa \in [Names -> HPAs]
    /\ made \in [Names -> Nat] /\ woken \subseteq Names /\ reach \subseteq Metrics
    /\ leader \in Leaders /\ states \in [Names -> States]
    /\ shown \subseteq Names /\ age \in 0 .. MaxDelay + 1 /\ ticked \in BOOLEAN
    /\ edits \in 0 .. MaxEdits /\ faults \in 0 .. MaxFaults

\* The annotation is changed only of the HPA that was read, one of the object
\* that was listed, and only while it lacks a metric of that object: never of
\* one that was replaced or that KEDA has repaired meanwhile.
PatchesWhatItRead ==
    [][\A n \in Names :
        (hpa'[n].id = hpa[n].id /\ hpa'[n].note # hpa[n].note) =>
            /\ hpa[n].id = states[n].id
            /\ hpa[n].owner = leader.listed[n].uid
            /\ Missing(n) # {}]_vars

\* Between two Checks, metrics are exported only of objects whose state is
\* kept, so that the Check after their end removes the series.
SeriesHaveStates ==
    leader.pc = "idle" => \A n \in shown : states[n].id # 0

Complete(n) == object[n].kind = "plain" => object[n].wants \subseteq hpa[n].metrics

\* Whatever was unreachable, edited, replaced, refused or restarted, in the
\* end every HPA has its predictive metrics, for good.
Recovers == <>[](\A n \in Names : Complete(n))

\* and KEDA is left alone, by an HPA of scalingModifiers or a paused one too.
RequestsEnd == <>[][\A n \in Names : hpa'[n].note = hpa[n].note]_vars
=============================================================================
