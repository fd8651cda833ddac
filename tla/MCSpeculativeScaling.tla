------------------------ MODULE MCSpeculativeScaling ------------------------
(* Instances of SpeculativeScaling for TLC. *)
EXTENDS SpeculativeScaling, TLC

CONSTANTS
    a, b,   \* workloads
    f, g    \* forecasters

Rollout == {f, g}
Interchangeable == Permutations(Forecasters)

OneWorkload  == <<a>>
TwoWorkloads == <<a, b>>

Zero == [w \in Workloads |-> 0]
One  == [w \in Workloads |-> 1]
Four == [w \in Workloads |-> 4]
ZeroAndOne == [w \in Workloads |-> IF w = a THEN 0 ELSE 1]
FourAndTwo == [w \in Workloads |-> IF w = a THEN 4 ELSE 2]

\* A table without snapshots, and one with an old snapshot of each workload.
EmptyTable == {NoSnapshot}
OldSnapshots == {[safe |-> 4, age |-> MaxAge + 1, reason |-> "approved"]}

\* A model that is right, and one that may predict anything.
Accurate == [l \in Levels |-> {l}]
Untrusted == [l \in Levels |-> Levels]
=============================================================================
