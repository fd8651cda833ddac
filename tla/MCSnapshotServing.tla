-------------------------- MODULE MCSnapshotServing --------------------------
(* Instances of SnapshotServing for TLC. *)
EXTENDS SnapshotServing, TLC

CONSTANTS p, q         \* sources
CONSTANTS f1, f2       \* forecasters
CONSTANTS s1           \* scaler

\* The clock of the second forecaster is one tick ahead.
SecondAhead == [f \in Forecasters |-> IF f = f2 THEN 1 ELSE 0]

SourceSymmetry == Permutations(Sources)
=============================================================================
