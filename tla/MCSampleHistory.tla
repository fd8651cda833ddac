---------------------------- MODULE MCSampleHistory ----------------------------
(* Instances of SampleHistory for TLC. *)
EXTENDS SampleHistory, TLC

CONSTANTS p1, p2       \* policy revisions
CONSTANTS q1, q2       \* queries

\* The second revision has another query.
NewQuery == [p \in {p1, p2} |-> IF p = p1 THEN q1 ELSE q2]

\* The revisions are interchangeable together with their queries.
Renaming ==
    {f \in Permutations({p1, p2, q1, q2}) :
        \A p \in {p1, p2} : f[p] \in {p1, p2} /\ f[NewQuery[p]] = NewQuery[f[p]]}

NoHoles == [none |-> {}, nan |-> {}, negative |-> {}]

\* The source is complete; it loses one slot late in the first window, and a live
\* moment; it has no number at a live moment, or early in the window, and a
\* negative one.
OneSlotLost ==
    {NoHoles,
     [NoHoles EXCEPT !.none = {6, 7, 11}], [NoHoles EXCEPT !.nan = {9}],
     [NoHoles EXCEPT !.nan = {2}, !.negative = {9}]}

\* Demand grows late and fast.
DemandGrows ==
    [t \in 0 .. MaxTime |-> IF t <= 8 THEN 4 ELSE IF t = 9 THEN 6
                            ELSE IF t <= 11 THEN 10 ELSE 16]

\* The defaults of the surge policy.
Threefold == <<3, 1>>
HalfAgain == <<3, 2>>

\* Up to half of the inputs may be estimates.
Half == <<1, 2>>
=============================================================================
