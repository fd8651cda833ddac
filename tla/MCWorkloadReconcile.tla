------------------------ MODULE MCWorkloadReconcile ------------------------
(* Instances of WorkloadReconcile for TLC. *)
EXTENDS WorkloadReconcile

CONSTANTS c1, c2     \* controllers
CONSTANTS a, b       \* trigger names
CONSTANTS q1, q2     \* source triggers
CONSTANTS r1, r2     \* policy revisions

Trigger(n, q, r) == [name |-> n, source |-> q, rev |-> r, ok |-> TRUE, fits |-> TRUE]

\* Two triggers; both changed and in another order; the first broken; the second
\* listed twice, which makes it invalid; the second refused by the table.
Two     == <<Trigger(a, q1, r1), Trigger(b, q2, r1)>>
Swapped == <<Trigger(b, q2, r2), Trigger(a, q1, r2)>>
Broken  == <<[Trigger(a, q1, r1) EXCEPT !.ok = FALSE], Trigger(b, q2, r2)>>
Doubled == <<Trigger(a, q1, r2), Trigger(b, q2, r1), Trigger(b, q2, r2)>>
Refused == <<Trigger(a, q1, r2), [Trigger(b, q2, r2) EXCEPT !.fits = FALSE]>>

FiveSpecs == {Two, Swapped, Broken, Doubled, Refused}
=============================================================================
