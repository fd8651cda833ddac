------------------------- MODULE ArtifactComparison -------------------------
(***************************************************************************)
(* The evidence that an evaluation compares models on, as functions of the *)
(* stored observation times of one source: which horizons are complete,    *)
(* which of them are scored, which are peaks, and what each model reads.   *)
(* The scores themselves are numerical and left out.                       *)
(*                                                                         *)
(* A window is named by its origin, the last observation before its        *)
(* horizon.  Lengths are in slots.                                         *)
(***************************************************************************)
EXTENDS InferenceHistory

CONSTANTS
    Seasons,      \* the most seasons a compared model needs (Holt-Winters: 2)
    MinWindows,   \* EvaluationPolicy.MinWindows
    MaxWindows,   \* EvaluationPolicy.MaxWindows
    MinDuration   \* EvaluationPolicy.MinDuration, in seconds

ASSUME ComparisonAssumption ==
    /\ Seasons \in Nat \ {0}
    /\ MinWindows \in Nat \ {0, 1} /\ MaxWindows \in Nat
    /\ MinWindows <= MaxWindows
    /\ MinDuration \in Nat \ {0}

\* The history that every model of the comparison can do with; "lookbacks" has
\* their input lengths, 0 for a model that reads the training window.
History(lookbacks) == Max({Seasons * Season} \cup lookbacks)

UpTo(pts, t) == {u \in pts : u <= t}
After(pts, t) == {u \in pts : u > t}
Oldest(times, n) == {t \in times : Cardinality({u \in times : u < t}) < n}

\* The horizon of the window at t, and the input it must have before.
Targets(pts, t, steps) == Oldest(After(pts, t), steps)
Before(pts, t, history) == Newest(UpTo(pts, t), history)
EndOf(pts, t, steps) == Max(Targets(pts, t, steps))

\* Faulty variant: the observation before the cutoff still counts.
AnyOrigin(t, after) == t + Interval >= after

\* Models have consumed nothing after the cutoff.
Unseen(t, after) == t >= after

\* What a window is made of.
Span(pts, t, history, steps) == Before(pts, t, history) \cup Targets(pts, t, steps)

NoSlotMissing(times) ==
    Max(times) \div Interval - Min(times) \div Interval = Cardinality(times) - 1

\* Origins with enough history and a horizon, none of whose slots is missing.
Complete(pts, history, steps, after) ==
    {t \in pts : /\ Unseen(t, after)
                 /\ Cardinality(Before(pts, t, history)) = history
                 /\ Cardinality(Targets(pts, t, steps)) = steps
                 /\ NoSlotMissing(Span(pts, t, history, steps))}

\* From the first complete window on, each next one that does not overlap.
Disjoint(pts, history, steps, after) ==
    LET complete == Complete(pts, history, steps, after)
        from[t \in pts] ==
            LET left == {u \in complete : u >= t}
            IN  IF left = {} THEN {}
                ELSE {Min(left)} \cup from[EndOf(pts, Min(left), steps)]
    IN  IF complete = {} THEN {} ELSE from[Min(complete)]

\* Of too many windows, MaxWindows evenly spread ones.
Sampled(windows) ==
    LET n       == Cardinality(windows)
        rank(t) == Cardinality({u \in windows : u < t})
        kept    == {(i * (n - 1)) \div (MaxWindows - 1) : i \in 0 .. MaxWindows - 1}
    IN  IF n <= MaxWindows THEN windows ELSE {t \in windows : rank(t) \in kept}

\* The largest value of a horizon, and the nine tenths rank of these.
Actual(pts, t, steps) == Max({Level[u] : u \in Targets(pts, t, steps)})

Peaks(pts, windows, steps) ==
    LET below(t) == {u \in windows : Actual(pts, u, steps) <= Actual(pts, t, steps)}
        rank     == (9 * (Cardinality(windows) - 1)) \div 10
        high     == {t \in windows : Cardinality(below(t)) > rank}
        cutoff   == Min({Actual(pts, t, steps) : t \in high})
    IN  {t \in windows : Actual(pts, t, steps) >= cutoff}

\* The input of a model at t: its lookback or the training window, in slots,
\* and nothing before the last missing slot.
InputAt(pts, t, lookback, window) ==
    Newest(Run(UpTo(pts, t), t), IF lookback > 0 THEN lookback ELSE window)

NoEvidence == [ok |-> FALSE, windows |-> {}, peaks |-> {}, start |-> 0, end |-> 0]

\* The comparison, refused when there are too few windows or they span too
\* little time; "bad" holds the negative observations.
Compared(obs, bad, lookbacks, steps, after) ==
    LET pts   == LatestPerSlot(obs)
        all   == Disjoint(pts, History(lookbacks), steps, after)
        start == Min(all)
        end   == EndOf(pts, Max(all), steps)
        used  == Sampled(all)
    IN  IF \/ obs \cap bad # {}
           \/ Cardinality(all) < MinWindows
           \/ end - start < MinDuration
           \/ 10 * Cardinality(all) * steps * Interval < 9 * MinDuration
        THEN NoEvidence
        ELSE [ok |-> TRUE, windows |-> used, peaks |-> Peaks(pts, used, steps),
              start |-> start, end |-> end]
=============================================================================
