--------------------------- MODULE InferenceHistory ---------------------------
(***************************************************************************)
(* The histories that models consume, as functions of the stored           *)
(* observation times of one source: the input of a forecast, which bridges *)
(* short gaps with estimates, the evidence of a surge, and the segment a   *)
(* trainer fits.                                                           *)
(*                                                                         *)
(* A slot is a sampling interval, named by its first moment.  Times are    *)
(* whole seconds and strictly ordered by construction; values are finite   *)
(* (the schema sees to it) and a function of the time here.  "bad" holds   *)
(* the times of negative values, which the sampler stores and nobody may   *)
(* consume.                                                                *)
(***************************************************************************)
EXTENDS Integers, FiniteSetsExt

CONSTANTS
    Interval,     \* forecast.samplingInterval, in seconds
    MaxGap,       \* REPLICASENSE_INFERENCE_MAX_GAP
    Lookback,     \* the input length of the model, or 0 for all history
    Season,       \* the seasonal period, in slots
    MinimumSamples, \* REPLICASENSE_FORECAST_MIN_SAMPLES, or 0
    Level,        \* the value observed at each time
    MaxEstimated, \* <<n, d>>: at most n of d inputs are estimates
    Recent,       \* the number of inputs that count as recent
    MinSegment,   \* observations a trainer needs
    Holdout,      \* observations held out, at most (48h)
    HoldoutPart,  \* at most one of how many observations is held out
    Confirmation, \* observations that confirm a surge
    Baseline,     \* observations a surge is compared with
    SlopeMultiplier, BaselineMultiplier, MaxMultiplier, \* SurgePolicy, as <<n, d>>
    LeadTime      \* surgeLeadTime, in seconds

ASSUME InferenceAssumption ==
    /\ Interval \in Nat \ {0} /\ MaxGap \in Nat /\ Lookback \in Nat
    /\ Season \in Nat \ {0} /\ MinimumSamples \in Nat
    /\ MaxEstimated \in Nat \X (Nat \ {0}) /\ Recent \in Nat
    /\ MinSegment \in Nat \ {0, 1}
    /\ Holdout \in Nat \ {0} /\ HoldoutPart \in Nat \ {0}
    /\ Confirmation \in Nat \ {0} /\ Baseline \in Nat \ {0, 1}
    /\ {SlopeMultiplier, BaselineMultiplier, MaxMultiplier}
            \subseteq (Nat \ {0}) \X (Nat \ {0})
    /\ MaxMultiplier[1] > MaxMultiplier[2]
    /\ LeadTime \in Nat \ {0}

\* Faulty variant: a time is rounded to the nearest slot.
NearestSlot(t) == Interval * ((2 * t + Interval) \div (2 * Interval))

\* Truncate.
SlotOf(t) == Interval * (t \div Interval)
Distance(a, b) == IF a > b THEN a - b ELSE b - a

\* Faulty variant: every observation is kept.
EveryRow(obs) == obs

\* The latest observation of every slot.
LatestPerSlot(obs) ==
    {t \in obs : \A u \in obs : SlotOf(u) = SlotOf(t) => u <= t}

\* The newest n times.
Newest(times, n) == {t \in times : Cardinality({u \in times : u > t}) < n}

-----------------------------------------------------------------------------
(* Inference: PrepareInferenceHistory.                                     *)

\* The observations a forecast needs, and the length of its input if fixed.
Minimum == IF MinimumSamples > 0 THEN MinimumSamples
           ELSE IF Lookback > 0 THEN Lookback ELSE Season
InputLength == IF Lookback = 0 THEN 0 ELSE Max({Lookback, Minimum})

\* A fixed-window model reads its own length and six slots of anchors.
InReach(obs) ==
    IF InputLength = 0 \/ obs = {} THEN obs
    ELSE {t \in obs : t >= Max(obs) - (InputLength + 6) * Interval}

Previous(pts, t) == Max({u \in pts : u < t})
Gap(pts, t) == t - Previous(pts, t)

\* The gap in intervals, rounded half up.
Steps(gap) == (2 * gap + Interval) \div (2 * Interval)

\* A slot or more is missing before t.
HasGap(pts, t) == /\ \E u \in pts : u < t
                  /\ 2 * Gap(pts, t) >= 3 * Interval

Stable(a, b) ==
    4 * Distance(Level[a], Level[b]) <= Max({1, Level[a], Level[b]})

\* The gap is short, aligned to the interval and between like values.
Bridgeable(pts, t) ==
    LET gap == Gap(pts, t)
    IN  /\ 4 * gap <= 4 * MaxGap + Interval
        /\ 4 * Distance(gap, Steps(gap) * Interval) <= Interval
        /\ Stable(Previous(pts, t), t)
        /\ Steps(gap) <= 6

\* The observations after the last gap that cannot be bridged.
Segment(pts) ==
    LET breaks == {t \in pts : HasGap(pts, t) /\ ~Bridgeable(pts, t)}
    IN  {t \in pts : \A b \in breaks : b <= t}

Estimates(pts) ==
    UNION {{Previous(pts, t) + k * Interval : k \in 1 .. Steps(Gap(pts, t)) - 1}
              : t \in {u \in pts : HasGap(pts, u)}}

\* The newest two inputs are observations.
RealTail(input, estimated) == /\ Newest(input, 2) \cap estimated = {}
                              /\ Cardinality(input) >= 2

\* Few inputs are estimated, few recent ones, and none of the newest two.
Reliable(input, estimated) ==
    \/ estimated = {}
    \/ /\ Cardinality(estimated) * MaxEstimated[2]
            <= MaxEstimated[1] * Cardinality(input)
       /\ LET recent == Newest(input, Recent)
          IN  Cardinality(estimated \cap recent) * MaxEstimated[2]
                <= MaxEstimated[1] * Cardinality(recent)
       /\ RealTail(input, estimated)

\* The prepared input; an unreliable one is withheld.
Prepared(obs, bad) ==
    LET pts   == LatestPerSlot(InReach(obs))
        seg   == Segment(pts)
        all   == seg \cup Estimates(seg)
        input == IF InputLength = 0 THEN all ELSE Newest(all, InputLength)
    IN  [ok |-> pts \cap bad = {} /\ Reliable(input, input \ seg),
         real |-> input \cap seg, estimated |-> input \ seg]

\* ValidateFresh: the source went on to give observations.
Fresh(obs, end) == obs # {} /\ end - Max(obs) \in 0 .. 2 * Interval

\* Validate: enough inputs, none of them more than two intervals apart.
Valid(input) ==
    /\ Cardinality(input) >= Minimum
    /\ \A t \in input : (\E u \in input : u < t) => Gap(input, t) <= 2 * Interval

\* MostRecentContiguous: what follows the last gap of more than two intervals.
MostRecentContiguous(obs) ==
    LET breaks == {t \in obs : (\E u \in obs : u < t) /\ Gap(obs, t) > 2 * Interval}
    IN  {t \in obs : \A b \in breaks : b <= t}

\* The input when bridging is switched off: rows as they are.
Unbridged(obs) ==
    LET suffix == MostRecentContiguous(obs)
    IN  [ok |-> TRUE, estimated |-> {},
         real |-> IF InputLength = 0 THEN suffix ELSE Newest(suffix, InputLength)]

\* What the model reads in a cycle at end.
ForecastInput(obs, bad, end, bridging) ==
    LET p == IF bridging THEN Prepared(obs, bad) ELSE Unbridged(obs)
    IN  [p EXCEPT !.ok = Fresh(obs, end) /\ @ /\ Valid(p.real \cup p.estimated)]

-----------------------------------------------------------------------------
(* Surges: RealContiguousSuffix, detectSurge.                              *)

ValueAt(t, bad) == IF t \in bad THEN -1 ELSE Level[t]

\* The newest real observation of each slot after the last missing one.
RealContiguousSuffix(obs) ==
    LET breaks == {t \in obs : HasGap(obs, t)}
    IN  LatestPerSlot({t \in obs : \A b \in breaks : b <= t})

Slope(pts, t, bad) == ValueAt(t, bad) - ValueAt(Previous(pts, t), bad)

\* The 95th percentile of the slopes before the observations to confirm.
UsualSlope(pts, bad) ==
    LET old    == pts \ Newest(pts, Confirmation)
        rising == old \ {Min(old)}
        upTo(v) == {t \in rising : Slope(old, t, bad) <= v}
        rank   == (95 * Cardinality(rising) + 99) \div 100
    IN  Min({Slope(old, t, bad) : t \in
                {u \in rising : Cardinality(upTo(Slope(old, u, bad))) >= rank}})

\* The sum of the values that the value at t is compared with.
BaselineSum(pts, t, bad) ==
    MapThenSumSet(LAMBDA u : ValueAt(u, bad), Newest({u \in pts : u < t}, Baseline))

\* IsSurgeCandidate: demand grows much faster than usual and stands well above
\* the baseline.
Candidate(pts, t, bad) ==
    LET slope == Slope(pts, t, bad)
        usual == UsualSlope(pts, bad)
        sum   == BaselineSum(pts, t, bad)
    IN  /\ slope > 0 /\ sum > 0
        /\ usual > 0 => slope * SlopeMultiplier[2] >= usual * SlopeMultiplier[1]
        /\ ValueAt(t, bad) * Baseline * BaselineMultiplier[2]
                >= sum * BaselineMultiplier[1]

\* Faulty variant: one observation is enough.
NewestOnly(pts) == Newest(pts, 1)

\* The observations that have to confirm a surge.
Confirming(pts) == Newest(pts, Confirmation)

SurgeDetected(pts, bad) ==
    /\ Cardinality(pts) >= Baseline + Confirmation
    /\ \A t \in Confirming(pts) : Candidate(pts, t, bad)

\* DetectSurge: demand after the lead time, at most a multiple of the present;
\* in units of 1 / (Interval * MaxMultiplier[2]).
SurgeDemand(pts, bad) ==
    LET t == Max(pts)
    IN  Min({(ValueAt(t, bad) * Interval + Slope(pts, t, bad) * LeadTime) * MaxMultiplier[2],
             ValueAt(t, bad) * Interval * MaxMultiplier[1]})

-----------------------------------------------------------------------------
(* Training: TrainingSegment.                                              *)

\* Observations up to t with none missing in between, counted in slots.
Run(pts, t) == {u \in pts : /\ u <= t
                            /\ \A s \in SlotOf(u) .. SlotOf(t) :
                                  s % Interval = 0 => \E v \in pts : SlotOf(v) = s}

\* The newest run of enough consecutive slots, or nothing.
TrainingSegment(obs, bad) ==
    LET pts  == LatestPerSlot(obs)
        long == {t \in pts : Cardinality(Run(pts, t)) >= MinSegment}
    IN  IF obs \cap bad # {} \/ long = {} THEN {} ELSE Run(pts, Max(long))

Reserved(segment) == Min({Holdout, Cardinality(segment) \div HoldoutPart})

\* What is left to fit when the newest observations are held out.
FitSamples(segment) == segment \ Newest(segment, Reserved(segment))

\* There is a holdout, and a season is left.
CanFit(segment) ==
    /\ Reserved(segment) >= 1
    /\ Cardinality(FitSamples(segment)) >= Season
=============================================================================
