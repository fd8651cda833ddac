-------------------------- MODULE MCModelLifecycle --------------------------
(* Instances of ModelLifecycle for TLC. *)
EXTENDS ModelLifecycle, TLC

CONSTANTS r1, r2            \* policy revisions
CONSTANTS gru, xgb          \* engines

\* One engine, one source: edits change replica bounds or training flags.
SameEngine == [p \in Policies |-> gru]
SameSource == [p \in Policies |-> "source"]
SameTarget == [p \in Policies |-> "target"]

\* The workers are interchangeable; so are the Jobs of one image.
Symmetry == Permutations(Evaluators) \cup Permutations(Trainers)

\* r1 and r2 differ in their engine.
TwoEngines == [p \in Policies |-> IF p = r1 THEN gru ELSE xgb]
=============================================================================
