------------------------- MODULE SampleHistoryProofs -------------------------
(***************************************************************************)
(* Theorems about SampleHistory: nothing is trained on, or repaired, that  *)
(* is not what the source observed; the arithmetic of slots comes first.   *)
(***************************************************************************)
EXTENDS SampleHistory, SetLemmas

-----------------------------------------------------------------------------
(* Slots, and the largest of some times.                                     *)

LEMMA Division ==
  ASSUME NEW i \in Nat \ {0}, NEW t \in Nat
  PROVE  /\ t \div i \in Nat
         /\ i * (t \div i) \in Nat
         /\ i * (t \div i) <= t /\ t < i * (t \div i) + i
<1>1. t \div i \in Nat /\ t % i \in 0 .. i - 1 /\ t = i * (t \div i) + (t % i)
  OBVIOUS
<1> DEFINE q == t \div i
           r == t % i
<1> HIDE DEF q, r
<1>2. q \in Nat /\ r \in 0 .. i - 1 /\ t = i * q + r
  BY <1>1 DEF q, r
<1>3. i * q \in Nat
  BY <1>2
<1>4. i * q <= t /\ t < i * q + i
  BY <1>2, <1>3
<1> QED BY <1>2, <1>3, <1>4 DEF q

LEMMA Multiples ==
  ASSUME NEW i \in Nat \ {0}, NEW a \in Nat, NEW b \in Nat, a < b
  PROVE  i * a + i <= i * b
  OBVIOUS

LEMMA SlotBounds ==
  ASSUME NEW t \in Nat
  PROVE  SlotOf(t) \in Nat /\ SlotOf(t) <= t /\ t < SlotOf(t) + Interval
  BY Division, InferenceAssumption DEF SlotOf

\* Slots are apart: of two different ones the later begins when the other ends.
LEMMA SlotsApart ==
  ASSUME NEW t \in Nat, NEW u \in Nat, SlotOf(t) < SlotOf(u)
  PROVE  SlotOf(t) + Interval <= SlotOf(u)
<1> DEFINE a == t \div Interval
           b == u \div Interval
<1>1. a \in Nat /\ b \in Nat /\ Interval \in Nat \ {0}
  BY Division, InferenceAssumption
<1>2. SlotOf(t) = Interval * a /\ SlotOf(u) = Interval * b
  BY DEF SlotOf
<1> HIDE DEF a, b
<1>3. a < b
  <2>1. SUFFICES ASSUME b <= a PROVE FALSE
    BY <1>1
  <2>2. a = b \/ b < a
    BY <1>1, <2>1
  <2>3. CASE a = b
    BY <1>1, <1>2, <2>3
  <2>4. CASE b < a
    <3>1. Interval * b + Interval <= Interval * a
      BY <1>1, <2>4, Multiples
    <3>2. Interval * a \in Nat /\ Interval * b \in Nat
      BY <1>1
    <3> QED BY <1>1, <1>2, <3>1, <3>2
  <2> QED BY <2>2, <2>3, <2>4
<1> QED BY <1>1, <1>2, <1>3, Multiples

\* A moment within an interval of a slot's start is of that slot.
LEMMA SlotWithin ==
  ASSUME NEW t \in Nat, NEW s \in Nat, SlotOf(s) = s, s <= t, t < s + Interval
  PROVE  SlotOf(t) = s
<1>1. Interval \in Nat \ {0} /\ SlotOf(t) \in Nat /\ SlotOf(t) <= t /\ t < SlotOf(t) + Interval
  BY SlotBounds, InferenceAssumption
<1>2. ~(SlotOf(t) < SlotOf(s))
  <2>1. SUFFICES ASSUME SlotOf(t) < SlotOf(s) PROVE FALSE
    OBVIOUS
  <2>2. SlotOf(t) + Interval <= SlotOf(s)
    BY <2>1, SlotsApart
  <2> QED BY <1>1, <2>2
<1>3. ~(SlotOf(s) < SlotOf(t))
  <2>1. SUFFICES ASSUME SlotOf(s) < SlotOf(t) PROVE FALSE
    OBVIOUS
  <2>2. SlotOf(s) + Interval <= SlotOf(t)
    BY <2>1, SlotsApart
  <2> QED BY <1>1, <2>2
<1> QED BY <1>1, <1>2, <1>3

\* A product is divided by its factor without a remainder.
LEMMA Quotient ==
  ASSUME NEW i \in Nat \ {0}, NEW q \in Nat
  PROVE  i * q \in Nat /\ (i * q) \div i = q /\ (i * q) % i = 0
<1>1. i * q \in Nat
  OBVIOUS
<1> DEFINE p == (i * q) \div i
<1>2. p \in Nat /\ i * p <= i * q /\ i * q < i * p + i
  BY <1>1, Division
<1>3. i * q = i * p + ((i * q) % i) /\ (i * q) % i \in Nat
  BY <1>1
<1> HIDE DEF p
<1>4. ~(p < q)
  <2>1. SUFFICES ASSUME p < q PROVE FALSE
    OBVIOUS
  <2>2. i * p + i <= i * q
    BY <1>2, <2>1, Multiples
  <2>3. i * p \in Nat
    BY <1>2
  <2> QED BY <1>1, <1>2, <2>2, <2>3
<1>5. ~(q < p)
  <2>1. SUFFICES ASSUME q < p PROVE FALSE
    OBVIOUS
  <2>2. i * q + i <= i * p
    BY <1>2, <2>1, Multiples
  <2>3. i * p \in Nat
    BY <1>2
  <2> QED BY <1>1, <1>2, <2>2, <2>3
<1>6. p = q
  BY <1>2, <1>4, <1>5
<1> DEFINE x == i * q
           r == x % i
<1>7. r = 0
  <2>1. x = i * p + r /\ r \in Nat /\ x \in Nat
    BY <1>1, <1>3
  <2>2. i * p = x
    BY <1>6
  <2> HIDE DEF x, r
  <2> QED BY <2>1, <2>2
<1> QED BY <1>1, <1>6, <1>7 DEF p

LEMMA SlotOfSlot == ASSUME NEW t \in Nat PROVE SlotOf(SlotOf(t)) = SlotOf(t)
<1>1. t \div Interval \in Nat
  BY Division, InferenceAssumption
<1> QED BY <1>1, Quotient, InferenceAssumption DEF SlotOf

LEMMA WindowIsSlot == SlotOf(Window) = Window /\ Window \in Nat \ {0} /\ MaxTime \in Nat
<1>1. Window \in Nat \ {0} /\ Window % Interval = 0 /\ MaxTime \in Nat /\ Interval \in Nat \ {0}
  BY SampleAssumption, InferenceAssumption
<1>2. ASSUME NEW i \in Nat \ {0}, NEW t \in Nat, t % i = 0 PROVE i * (t \div i) = t
  <2>1. t = i * (t \div i) + (t % i) /\ t \div i \in Nat
    BY <1>2
  <2> QED BY <1>2, <2>1
<1> QED BY <1>1, <1>2 DEF SlotOf

\* A moment late enough for a window has the window before its slot.
LEMMA WindowFits ==
  ASSUME NEW t \in Nat, Window <= t
  PROVE  Window <= SlotOf(t)
<1>1. SlotOf(t) \in Nat /\ t < SlotOf(t) + Interval /\ Interval \in Nat \ {0}
  BY SlotBounds, InferenceAssumption
<1>2. SUFFICES ASSUME SlotOf(t) < Window PROVE FALSE
  BY <1>1, WindowIsSlot
<1>3. SlotOf(t) + Interval <= Window
  BY <1>2, WindowIsSlot, SlotsApart
<1> QED BY <1>1, <1>3, WindowIsSlot

-----------------------------------------------------------------------------
(* Types.                                                                    *)

BoundsTyped == /\ now \in Times /\ Window <= now
               /\ policy \in Policies \cup {Inactive} /\ hole \in Holes
               /\ faults \in 0 .. MaxFaults /\ edits \in 0 .. MaxEdits

\* Rows are of the past.
RowsTyped == /\ rows \in [Sources -> [Times -> Row \cup {NoRow}]]
             /\ \A f \in Sources : \A t \in Stored(f) : t <= now

\* A round is of the past and has its workload and a whole window behind it.
RoundTyped ==
    /\ sampler \in SamplerType
    /\ sampler.at <= now
    /\ sampler.pc # "idle" => Window <= sampler.at /\ sampler.rev \in Policies
    /\ \A t \in sampler.batch : t <= now

\* So is a training; it inserts closed slots only.
TrainingTyped ==
    /\ job \in JobType
    /\ job.pc # "idle" => /\ job.rev \in Policies
                          /\ Window <= job.end /\ job.end <= now /\ SlotOf(job.end) = job.end
    /\ \A t \in job.missing \cup job.batch : t < job.end /\ SlotOf(t) = t

Typed == BoundsTyped /\ RowsTyped /\ RoundTyped /\ TrainingTyped

LEMMA TimesAreNat == Times \subseteq Nat /\ \A t \in Times : t <= MaxTime
  BY SampleAssumption DEF Times

LEMMA SourceIsKnown == ASSUME sampler.rev \in Policies PROVE Source \in Sources
  BY DEF Source, Sources

LEMMA JobSourceIsKnown == ASSUME job.rev \in Policies PROVE JobSource \in Sources
  BY DEF JobSource, Sources

\* An upsert adds or replaces rows of one source.
LEMMA UpsertEffect ==
  ASSUME RowsTyped, sampler.rev \in Policies, NEW times, NEW by \in {"live", "range", "repair"},
         Upsert(times, by)
  PROVE  /\ rows' \in [Sources -> [Times -> Row \cup {NoRow}]]
         /\ \A f \in Sources, t \in Times :
                \/ rows'[f][t] = rows[f][t]
                \/ f = Source /\ t \in times /\ rows'[f][t] = [query |-> Source, by |-> by]
<1> DEFINE r == [query |-> Source, by |-> by]
           u == [t \in Times |-> IF t \in times THEN r ELSE rows[Source][t]]
<1>1. Source \in Sources
  BY SourceIsKnown
<1>2. r \in Row
  BY <1>1 DEF Row
<1> HIDE DEF r
<1>3. u \in [Times -> Row \cup {NoRow}]
  BY <1>1, <1>2 DEF RowsTyped
<1>4. rows' = [rows EXCEPT ![Source] = u]
  BY DEF Upsert, Fingerprint, r
<1>5. \A t \in Times : u[t] = rows[Source][t] \/ (t \in times /\ u[t] = r)
  OBVIOUS
<1> HIDE DEF u
<1>6. rows' \in [Sources -> [Times -> Row \cup {NoRow}]]
  BY <1>3, <1>4 DEF RowsTyped
<1>7. \A f \in Sources, t \in Times :
          rows'[f][t] = rows[f][t] \/ (f = Source /\ t \in times /\ rows'[f][t] = r)
  BY <1>1, <1>4, <1>5 DEF RowsTyped
<1> QED BY <1>6, <1>7 DEF r

LEMMA UpsertTyped ==
  ASSUME RowsTyped, sampler.rev \in Policies, NEW times, NEW by \in {"live", "range", "repair"},
         Upsert(times, by), \A t \in times : t <= now, now' = now
  PROVE  RowsTyped'
<1>1. rows' \in [Sources -> [Times -> Row \cup {NoRow}]]
  BY UpsertEffect
<1>2. ASSUME NEW f \in Sources, NEW t \in Times, rows'[f][t] # NoRow PROVE t <= now
  <2>1. rows'[f][t] = rows[f][t] \/ t \in times
    BY UpsertEffect
  <2> QED BY <1>2, <2>1 DEF RowsTyped, Stored
<1> QED BY <1>1, <1>2 DEF RowsTyped, Stored

\* The points of a range lie in it.
LEMMA RangeInside ==
  ASSUME NEW a \in Nat, NEW b \in Nat, b <= now, now \in Times
  PROVE  RangeQuery(a, b) \in SUBSET Times /\ \A t \in RangeQuery(a, b) : t <= now
  BY TimesAreNat, SampleAssumption DEF RangeQuery, Asked, Times

\* Both queries of the sampler ask within the past.
LEMMA RoundQueries ==
  ASSUME BoundsTyped, RowsTyped, RoundTyped, sampler.pc # "idle"
  PROVE  /\ BootstrapStart \in Nat /\ BootstrapEnd \in Nat /\ BootstrapEnd <= now
         /\ MissingFrom \in Nat
<1>0. now \in Nat /\ sampler.at \in Nat /\ Window <= sampler.at /\ sampler.at <= now
  BY TimesAreNat DEF BoundsTyped, RoundTyped, SamplerType
<1>1. /\ SlotOf(sampler.at) \in Nat /\ Window <= SlotOf(sampler.at)
      /\ SlotOf(sampler.at) <= sampler.at
  BY <1>0, SlotBounds, WindowFits
<1>2. Window \in Nat /\ RecoveryWindow \in Nat /\ RecoveryWindow <= Window /\ Interval \in Nat
  BY SampleAssumption, InferenceAssumption, WindowIsSlot
<1>3. RecoveryOpens \in Nat
  BY <1>1, <1>2 DEF RecoveryOpens
<1> DEFINE obs == Covered(RecoveryOpens, SlotOf(sampler.at))
<1>4. obs \subseteq Nat /\ \A t \in obs : t <= MaxTime
  BY TimesAreNat DEF Covered, Stored
<1>5. obs # {} => Max(obs) \in Nat
  BY <1>4, Largest, WindowIsSlot
<1>6. MissingFrom \in Nat
  <2> HIDE DEF obs
  <2>1. RecoveryStart(obs, RecoveryOpens) \in Nat
    BY <1>2, <1>3, <1>5 DEF RecoveryStart
  <2> QED BY <2>1 DEF MissingFrom, obs
<1> QED BY <1>0, <1>1, <1>2, <1>6 DEF BootstrapStart, BootstrapEnd

-----------------------------------------------------------------------------
(* The steps of the sampler.                                                 *)

\* Whatever a step makes of a round, short of its time.
LEMMA RoundStep ==
  ASSUME Typed, UNCHANGED <<now, policy, hole, edits, job>>,
         faults' \in 0 .. MaxFaults, RowsTyped',
         sampler' \in SamplerType, sampler'.at <= now,
         sampler'.pc # "idle" => Window <= sampler'.at /\ sampler'.rev \in Policies,
         \A t \in sampler'.batch : t <= now
  PROVE  Typed'
  BY DEF Typed, BoundsTyped, RoundTyped, TrainingTyped

LEMMA SameRows == ASSUME RowsTyped, UNCHANGED <<now, rows>> PROVE RowsTyped'
  BY DEF RowsTyped, Stored

LEMMA FaultTyped == ASSUME BoundsTyped, Fault \/ UNCHANGED faults PROVE faults' \in 0 .. MaxFaults
  BY SampleAssumption DEF BoundsTyped, Fault

LEMMA FailureTyped == ASSUME BoundsTyped, NEW c, FailsFor(c) PROVE faults' \in 0 .. MaxFaults
  BY FaultTyped DEF FailsFor

LEMMA StartRoundTyped == ASSUME Typed, StartRound PROVE Typed'
<1>1. /\ sampler \in SamplerType /\ now \in Times /\ Window <= now /\ policy \in Policies
      /\ \A t \in sampler.batch : t <= now
  BY DEF Typed, BoundsTyped, RoundTyped, StartRound
<1>2. PICK pc \in {"bootstrap", "sample"} :
        sampler' = [sampler EXCEPT !.pc = pc, !.at = now, !.rev = policy]
  BY DEF StartRound, Sampling
<1>3. /\ sampler' \in SamplerType /\ sampler'.at = now /\ sampler'.rev = policy
      /\ sampler'.batch = sampler.batch
  BY <1>1, <1>2 DEF SamplerType
<1>4. UNCHANGED <<now, policy, hole, edits, job, rows, faults>>
  BY DEF StartRound
<1>5. RowsTyped' /\ faults' \in 0 .. MaxFaults /\ now \in Nat
  BY <1>1, <1>4, SameRows, FaultTyped, TimesAreNat DEF Typed
<1> QED BY <1>1, <1>3, <1>4, <1>5, RoundStep

LEMMA BootstrapTyped == ASSUME Typed, Bootstrap PROVE Typed'
<1>1. /\ sampler \in SamplerType /\ now \in Times /\ Window <= sampler.at /\ sampler.at <= now
      /\ sampler.rev \in Policies /\ Source \in Sources /\ \A t \in sampler.batch : t <= now
  BY SourceIsKnown DEF Typed, BoundsTyped, RoundTyped, Bootstrap
<1>2. BootstrapStart \in Nat /\ BootstrapEnd \in Nat /\ BootstrapEnd <= now
  BY RoundQueries DEF Typed, Bootstrap
<1> DEFINE batch == RangeQuery(BootstrapStart, BootstrapEnd)
<1>3. batch \in SUBSET Times /\ \A t \in batch : t <= now
  BY <1>1, <1>2, RangeInside
<1> HIDE DEF batch
<1> DEFINE seen == sampler.bootstrapped \cup {Source}
<1>4. \/ \E pc \in {"sample", "idle"} :
            sampler' = [sampler EXCEPT !.pc = pc, !.bootstrapped = seen]
      \/ sampler' = [sampler EXCEPT !.pc = "fill", !.batch = batch]
  BY DEF Bootstrap, Sampling, batch
<1>5. /\ sampler' \in SamplerType /\ sampler'.at = sampler.at /\ sampler'.rev = sampler.rev
      /\ \A t \in sampler'.batch : t <= now
  <2>1. seen \in SUBSET Sources
    BY <1>1 DEF SamplerType
  <2> HIDE DEF seen
  <2> QED BY <1>1, <1>3, <1>4, <2>1 DEF SamplerType
<1>6. UNCHANGED <<now, policy, hole, edits, job, rows, faults>>
  BY DEF Bootstrap
<1>7. RowsTyped' /\ faults' \in 0 .. MaxFaults
  BY <1>6, SameRows, FaultTyped DEF Typed
<1> QED BY <1>1, <1>5, <1>6, <1>7, RoundStep

LEMMA FillTyped == ASSUME Typed, Fill PROVE Typed'
<1>1. /\ sampler \in SamplerType /\ now \in Times /\ Window <= sampler.at /\ sampler.at <= now
      /\ sampler.rev \in Policies /\ Source \in Sources /\ \A t \in sampler.batch : t <= now
  BY SourceIsKnown DEF Typed, BoundsTyped, RoundTyped, Fill
<1>2. Upsert(sampler.batch, "range") /\ UNCHANGED <<now, policy, hole, edits, job, faults>>
  BY DEF Fill
<1>3. RowsTyped' /\ faults' \in 0 .. MaxFaults
  <2>1. \A t \in sampler.batch : t <= now
    BY <1>1
  <2> QED BY <1>1, <1>2, <2>1, UpsertTyped, FaultTyped DEF Typed
<1>4. /\ sampler' \in SamplerType /\ sampler'.at = sampler.at
      /\ sampler'.pc # "idle" => sampler'.rev = sampler.rev
      /\ sampler'.batch = {}
  BY <1>1 DEF SamplerType, Fill, Sampling
<1> QED BY <1>1, <1>2, <1>3, <1>4, RoundStep

LEMMA RefillTyped == ASSUME Typed, Refill PROVE Typed'
<1>1. /\ sampler \in SamplerType /\ now \in Times /\ Window <= sampler.at /\ sampler.at <= now
      /\ sampler.rev \in Policies /\ Source \in Sources /\ \A t \in sampler.batch : t <= now
  BY SourceIsKnown DEF Typed, BoundsTyped, RoundTyped, Refill
<1>2. Upsert(sampler.batch, "range") /\ UNCHANGED <<now, policy, hole, edits, job, faults>>
  BY DEF Refill
<1>3. RowsTyped' /\ faults' \in 0 .. MaxFaults
  <2>1. \A t \in sampler.batch : t <= now
    BY <1>1
  <2> QED BY <1>1, <1>2, <2>1, UpsertTyped, FaultTyped DEF Typed
<1>4. /\ sampler' \in SamplerType /\ sampler'.at = sampler.at
      /\ sampler'.pc # "idle" => sampler'.rev = sampler.rev
      /\ sampler'.batch = {}
  BY <1>1 DEF SamplerType, Refill, Then
<1> QED BY <1>1, <1>2, <1>3, <1>4, RoundStep

LEMMA SaveTyped == ASSUME Typed, Save PROVE Typed'
<1>1. /\ sampler \in SamplerType /\ now \in Times /\ Window <= sampler.at /\ sampler.at <= now
      /\ sampler.rev \in Policies /\ Source \in Sources /\ \A t \in sampler.batch : t <= now
  BY SourceIsKnown DEF Typed, BoundsTyped, RoundTyped, Save
<1>2. Upsert({sampler.at}, "live") /\ UNCHANGED <<now, policy, hole, edits, job, faults>>
  BY DEF Save
<1>3. RowsTyped' /\ faults' \in 0 .. MaxFaults
  <2>1. \A t \in {sampler.at} : t <= now
    BY <1>1
  <2> QED BY <1>1, <1>2, <2>1, UpsertTyped, FaultTyped DEF Typed
<1>4. /\ sampler' \in SamplerType /\ sampler'.at = sampler.at
      /\ sampler'.pc # "idle" => sampler'.rev = sampler.rev
      /\ sampler'.batch = {}
  BY <1>1 DEF SamplerType, Save, EndRound
<1> QED BY <1>1, <1>2, <1>3, <1>4, RoundStep

LEMMA BootstrapFailsTyped == ASSUME Typed, BootstrapFails PROVE Typed'
<1>1. /\ sampler \in SamplerType /\ now \in Times /\ Window <= sampler.at /\ sampler.at <= now
      /\ sampler.rev \in Policies /\ Source \in Sources /\ \A t \in sampler.batch : t <= now
  BY SourceIsKnown DEF Typed, BoundsTyped, RoundTyped, BootstrapFails
<1>2. UNCHANGED <<now, policy, hole, edits, job, rows>>
  BY DEF BootstrapFails
<1>3. RowsTyped' /\ faults' \in 0 .. MaxFaults
  BY <1>2, SameRows, FaultTyped, FailureTyped DEF Typed, BootstrapFails
<1>4. /\ sampler' \in SamplerType /\ sampler'.at = sampler.at
      /\ sampler'.pc # "idle" => sampler'.rev = sampler.rev
      /\ \A t \in sampler'.batch : t <= now
  BY <1>1 DEF SamplerType, BootstrapFails, EndRound
<1> QED BY <1>1, <1>2, <1>3, <1>4, RoundStep

LEMMA SampleTyped == ASSUME Typed, Sample PROVE Typed'
<1>1. /\ sampler \in SamplerType /\ now \in Times /\ Window <= sampler.at /\ sampler.at <= now
      /\ sampler.rev \in Policies /\ Source \in Sources /\ \A t \in sampler.batch : t <= now
  BY SourceIsKnown DEF Typed, BoundsTyped, RoundTyped, Sample
<1>2. UNCHANGED <<now, policy, hole, edits, job, rows>>
  BY DEF Sample
<1>3. RowsTyped' /\ faults' \in 0 .. MaxFaults
  BY <1>2, SameRows, FaultTyped, FailureTyped DEF Typed, Sample
<1>4. /\ sampler' \in SamplerType /\ sampler'.at = sampler.at
      /\ sampler'.pc # "idle" => sampler'.rev = sampler.rev
      /\ \A t \in sampler'.batch : t <= now
  BY <1>1 DEF SamplerType, Sample
<1> QED BY <1>1, <1>2, <1>3, <1>4, RoundStep

LEMMA SampleFailsTyped == ASSUME Typed, SampleFails PROVE Typed'
<1>1. /\ sampler \in SamplerType /\ now \in Times /\ Window <= sampler.at /\ sampler.at <= now
      /\ sampler.rev \in Policies /\ Source \in Sources /\ \A t \in sampler.batch : t <= now
  BY SourceIsKnown DEF Typed, BoundsTyped, RoundTyped, SampleFails
<1>2. UNCHANGED <<now, policy, hole, edits, job, rows>>
  BY DEF SampleFails
<1>3. RowsTyped' /\ faults' \in 0 .. MaxFaults
  BY <1>2, SameRows, FaultTyped, FailureTyped DEF Typed, SampleFails
<1>4. /\ sampler' \in SamplerType /\ sampler'.at = sampler.at
      /\ sampler'.pc # "idle" => sampler'.rev = sampler.rev
      /\ \A t \in sampler'.batch : t <= now
  BY <1>1 DEF SamplerType, SampleFails
<1> QED BY <1>1, <1>2, <1>3, <1>4, RoundStep

LEMMA RecoveryFailsTyped == ASSUME Typed, RecoveryFails PROVE Typed'
<1>1. /\ sampler \in SamplerType /\ now \in Times /\ Window <= sampler.at /\ sampler.at <= now
      /\ sampler.rev \in Policies /\ Source \in Sources /\ \A t \in sampler.batch : t <= now
  BY SourceIsKnown DEF Typed, BoundsTyped, RoundTyped, RecoveryFails
<1>2. UNCHANGED <<now, policy, hole, edits, job, rows>>
  BY DEF RecoveryFails
<1>3. RowsTyped' /\ faults' \in 0 .. MaxFaults
  BY <1>2, SameRows, FaultTyped, FailureTyped DEF Typed, RecoveryFails
<1>4. /\ sampler' \in SamplerType /\ sampler'.at = sampler.at
      /\ sampler'.pc # "idle" => sampler'.rev = sampler.rev
      /\ \A t \in sampler'.batch : t <= now
  BY <1>1 DEF SamplerType, RecoveryFails
<1> QED BY <1>1, <1>2, <1>3, <1>4, RoundStep

LEMMA SaveFailsTyped == ASSUME Typed, SaveFails PROVE Typed'
<1>1. /\ sampler \in SamplerType /\ now \in Times /\ Window <= sampler.at /\ sampler.at <= now
      /\ sampler.rev \in Policies /\ Source \in Sources /\ \A t \in sampler.batch : t <= now
  BY SourceIsKnown DEF Typed, BoundsTyped, RoundTyped, SaveFails
<1>2. UNCHANGED <<now, policy, hole, edits, job, rows>>
  BY DEF SaveFails
<1>3. RowsTyped' /\ faults' \in 0 .. MaxFaults
  BY <1>2, SameRows, FaultTyped, FailureTyped DEF Typed, SaveFails
<1>4. /\ sampler' \in SamplerType /\ sampler'.at = sampler.at
      /\ sampler'.pc # "idle" => sampler'.rev = sampler.rev
      /\ \A t \in sampler'.batch : t <= now
  BY <1>1 DEF SamplerType, SaveFails, EndRound
<1> QED BY <1>1, <1>2, <1>3, <1>4, RoundStep

LEMMA RecoverTyped == ASSUME Typed, Recover PROVE Typed'
<1>1. /\ sampler \in SamplerType /\ now \in Times /\ Window <= sampler.at /\ sampler.at <= now
      /\ sampler.rev \in Policies /\ Source \in Sources /\ \A t \in sampler.batch : t <= now
  BY SourceIsKnown DEF Typed, BoundsTyped, RoundTyped, Recover
<1>2. MissingFrom \in Nat /\ SlotOf(sampler.at) <= now /\ SlotOf(sampler.at) \in Nat
  <2>1. MissingFrom \in Nat
    BY RoundQueries DEF Typed, Recover
  <2>2. sampler.at \in Nat /\ now \in Nat
    BY <1>1, TimesAreNat DEF SamplerType
  <2> QED BY <1>1, <2>1, <2>2, SlotBounds
<1> DEFINE batch == RangeQuery(MissingFrom, SlotOf(sampler.at))
<1>3. batch \in SUBSET Times /\ \A t \in batch : t <= now
  BY <1>1, <1>2, RangeInside
<1> HIDE DEF batch
<1>4. \/ sampler' = [sampler EXCEPT !.pc = "save", !.batch = {}]
      \/ sampler' = [sampler EXCEPT !.pc = "refill", !.batch = batch]
  BY DEF Recover, Then, batch
<1>5. /\ sampler' \in SamplerType /\ sampler'.at = sampler.at /\ sampler'.rev = sampler.rev
      /\ \A t \in sampler'.batch : t <= now
  BY <1>1, <1>3, <1>4 DEF SamplerType
<1>6. UNCHANGED <<now, policy, hole, edits, job, rows, faults>>
  BY DEF Recover
<1>7. RowsTyped' /\ faults' \in 0 .. MaxFaults
  BY <1>6, SameRows, FaultTyped DEF Typed
<1> QED BY <1>1, <1>5, <1>6, <1>7, RoundStep

LEMMA RestartTyped == ASSUME Typed, Restart PROVE Typed'
<1>1. now \in Times
  BY DEF Typed, BoundsTyped
<1>2. sampler' = Booted(now) /\ UNCHANGED <<now, policy, hole, edits, job, rows>> /\ Fault
  BY DEF Restart
<1>3. RowsTyped' /\ faults' \in 0 .. MaxFaults
  BY <1>2, SameRows, FaultTyped DEF Typed
<1>4. sampler' \in SamplerType /\ sampler'.at = now /\ sampler'.pc = "idle" /\ sampler'.batch = {}
  BY <1>1, <1>2 DEF SamplerType, Booted
<1>5. now <= now
  BY <1>1, TimesAreNat
<1> QED BY <1>2, <1>3, <1>4, <1>5, RoundStep

-----------------------------------------------------------------------------
(* The steps of the trainer, and of the world around both.                   *)

LEMMA ClosedSlotsArePast ==
  ASSUME NEW end \in Nat, Window <= end, end <= now, now \in Times
  PROVE  ClosedSlots(end) \in SUBSET Times /\ \A t \in ClosedSlots(end) : t < end /\ SlotOf(t) = t
  BY WindowIsSlot, TimesAreNat DEF ClosedSlots, Times

LEMMA PlansAreTyped ==
  ASSUME NEW end, ClosedSlots(end) \in SUBSET Times, NEW missing \in SUBSET ClosedSlots(end)
  PROVE  Plan(missing, end) \in SUBSET (SUBSET Times)
<1>1. MissingRuns(missing) \in SUBSET (SUBSET Times)
  BY DEF MissingRuns
<1>2. Shards(missing, end) \in SUBSET (SUBSET Times)
  BY Zenon DEF Shards
<1> QED BY <1>1, <1>2, Zenon DEF Plan

LEMMA JobStep ==
  ASSUME Typed, UNCHANGED <<now, policy, hole, edits, sampler>>,
         faults' \in 0 .. MaxFaults, RowsTyped',
         job' \in JobType,
         job'.pc # "idle" => /\ job'.rev \in Policies
                             /\ Window <= job'.end /\ job'.end <= now
                             /\ SlotOf(job'.end) = job'.end,
         \A t \in job'.missing \cup job'.batch : t < job'.end /\ SlotOf(t) = t
  PROVE  Typed'
  BY DEF Typed, BoundsTyped, RoundTyped, TrainingTyped

\* A training goes on to another step, or ends.
LEMMA NoTrainingTyped ==
  /\ NoTraining \in JobType /\ NoTraining.pc = "idle"
  /\ NoTraining.missing = {} /\ NoTraining.batch = {}
  BY WindowIsSlot DEF NoTraining, JobType, Times

LEMMA JobGoesOn ==
  ASSUME Typed, UNCHANGED <<now, policy, hole, edits, sampler>>,
         faults' \in 0 .. MaxFaults, RowsTyped',
         \/ JobEnds
         \/ job.pc # "idle" /\ (\E pc \in {"load", "recheck"} : JobTo(pc))
         \/ job.pc # "idle" /\ (\E rest \in SUBSET job.todo : job' = NextSpan(rest))
  PROVE  Typed'
<1>1. job \in JobType /\ TrainingTyped
  BY DEF Typed, TrainingTyped
<1>2. CASE JobEnds
  BY <1>2, NoTrainingTyped, JobStep DEF JobEnds
<1>3. ASSUME job.pc # "idle", NEW pc \in {"load", "recheck"}, JobTo(pc) PROVE Typed'
  <2>1. /\ job' \in JobType /\ job'.end = job.end /\ job'.rev = job.rev
        /\ job'.missing = job.missing /\ job'.batch = job.batch
    BY <1>1, <1>3 DEF JobType, JobTo
  <2> QED BY <1>1, <1>3, <2>1, JobStep DEF TrainingTyped
<1>4. ASSUME job.pc # "idle", NEW rest \in SUBSET job.todo, job' = NextSpan(rest) PROVE Typed'
  <2>1. /\ job' \in JobType /\ job'.end = job.end /\ job'.rev = job.rev
        /\ job'.missing \subseteq job.missing /\ job'.batch = {}
    BY <1>1, <1>4 DEF JobType, NextSpan
  <2> QED BY <1>1, <1>4, <2>1, JobStep DEF TrainingTyped
<1> QED BY <1>2, <1>3, <1>4

LEMMA StartTrainingTyped == ASSUME Typed, StartTraining PROVE Typed'
<1>1. now \in Times /\ now \in Nat /\ Window <= now /\ policy \in Policies
  BY TimesAreNat DEF Typed, BoundsTyped, StartTraining
<1>2. /\ SlotOf(now) \in Times /\ SlotOf(now) <= now /\ Window <= SlotOf(now)
      /\ SlotOf(SlotOf(now)) = SlotOf(now)
  BY <1>1, SlotBounds, WindowFits, SlotOfSlot, WindowIsSlot DEF Times
<1>3. /\ job' = [NoTraining EXCEPT !.pc = "check", !.rev = policy, !.end = SlotOf(now)]
      /\ UNCHANGED <<now, policy, hole, edits, sampler, rows, faults>>
  BY DEF StartTraining
<1>4. /\ job' \in JobType /\ job'.rev = policy /\ job'.end = SlotOf(now)
      /\ job'.missing = {} /\ job'.batch = {}
  BY <1>1, <1>2, <1>3 DEF JobType, NoTraining
<1>5. RowsTyped' /\ faults' \in 0 .. MaxFaults
  BY <1>3, SameRows, FaultTyped DEF Typed
<1> QED BY <1>1, <1>2, <1>3, <1>4, <1>5, JobStep

LEMMA CheckHistoryTyped == ASSUME Typed, CheckHistory PROVE Typed'
<1>1. UNCHANGED <<now, policy, hole, edits, sampler, rows, faults>> /\ job.pc # "idle"
  BY DEF CheckHistory
<1>2. RowsTyped' /\ faults' \in 0 .. MaxFaults
  BY <1>1, SameRows, FaultTyped DEF Typed
<1>3. /\ job \in JobType /\ now \in Times /\ job.end \in Nat /\ job.rev \in Policies
      /\ Window <= job.end /\ job.end <= now /\ SlotOf(job.end) = job.end
  BY <1>1, TimesAreNat DEF Typed, TrainingTyped, BoundsTyped, JobType
<1> DEFINE missing == MissingSlots(JobSource, job.end)
           plan == Plan(missing, job.end)
<1>4. missing \in SUBSET ClosedSlots(job.end)
  BY DEF MissingSlots
<1>5. missing \in SUBSET Times /\ \A t \in missing : t < job.end /\ SlotOf(t) = t
  BY <1>3, <1>4, ClosedSlotsArePast
<1>6. plan \in SUBSET (SUBSET Times)
  BY <1>3, <1>4, ClosedSlotsArePast, PlansAreTyped
<1>7. \/ JobEnds
      \/ JobTo("load")
      \/ job' = [job EXCEPT !.pc = "query", !.missing = missing, !.todo = plan]
  BY DEF CheckHistory
<1> HIDE DEF missing, plan
<1>8. CASE JobEnds \/ JobTo("load")
  BY <1>1, <1>2, <1>8, JobGoesOn
<1>9. CASE job' = [job EXCEPT !.pc = "query", !.missing = missing, !.todo = plan]
  <2>1. /\ job' \in JobType /\ job'.end = job.end /\ job'.rev = job.rev
        /\ job'.missing = missing /\ job'.batch = job.batch
    BY <1>3, <1>5, <1>6, <1>9 DEF JobType
  <2>2. \A t \in job.batch : t < job.end /\ SlotOf(t) = t
    BY DEF Typed, TrainingTyped
  <2> QED BY <1>1, <1>2, <1>3, <1>5, <2>1, <2>2, JobStep
<1> QED BY <1>7, <1>8, <1>9

LEMMA QuerySpanTyped == ASSUME Typed, QuerySpan PROVE Typed'
<1>1. UNCHANGED <<now, policy, hole, edits, sampler, rows, faults>> /\ job.pc # "idle"
  BY DEF QuerySpan
<1>2. RowsTyped' /\ faults' \in 0 .. MaxFaults
  BY <1>1, SameRows, FaultTyped DEF Typed
<1>3. PICK rest \in SUBSET job.todo, batch \in SUBSET job.missing :
        \/ JobEnds
        \/ job' = NextSpan(rest)
        \/ job' = [job EXCEPT !.pc = "insert", !.todo = rest, !.batch = batch]
  <2> DEFINE span  == CHOOSE s \in job.todo : \A u \in job.todo : Min(s) <= Min(u)
             found == RangeQuery(Min(span), Max(span))
             batch == found \cap job.missing
             rest  == job.todo \ {span}
  <2>1. rest \in SUBSET job.todo /\ batch \in SUBSET job.missing
    OBVIOUS
  <2>2. \/ JobEnds
        \/ job' = NextSpan(rest)
        \/ job' = [job EXCEPT !.pc = "insert", !.todo = rest, !.batch = batch]
    BY Zenon DEF QuerySpan, JobEnds
  <2> QED BY <2>1, <2>2, Zenon
<1>4. CASE JobEnds \/ job' = NextSpan(rest)
  BY <1>1, <1>2, <1>4, JobGoesOn
<1>5. CASE job' = [job EXCEPT !.pc = "insert", !.todo = rest, !.batch = batch]
  <2>1. job \in JobType /\ TrainingTyped
    BY DEF Typed, TrainingTyped
  <2>2. /\ job' \in JobType /\ job'.end = job.end /\ job'.rev = job.rev
        /\ job'.missing = job.missing /\ job'.batch \subseteq job.missing
    BY <1>5, <2>1 DEF JobType
  <2> QED BY <1>1, <1>2, <2>1, <2>2, JobStep DEF TrainingTyped
<1> QED BY <1>3, <1>4, <1>5

\* An insert adds rows of the repair at free slots.
LEMMA InsertEffect ==
  ASSUME Typed, InsertMissing
  PROVE  /\ rows' \in [Sources -> [Times -> Row \cup {NoRow}]]
         /\ \A f \in Sources, t \in Times :
                \/ rows'[f][t] = rows[f][t]
                \/ /\ f = JobSource /\ t \in job.batch /\ SlotIsFree(f, t)
                   /\ rows'[f][t] = [query |-> f, by |-> "repair"]
<1> DEFINE r == [query |-> JobSource, by |-> "repair"]
           u == [t \in Times |-> IF t \in job.batch /\ SlotIsFree(JobSource, t)
                                 THEN r ELSE rows[JobSource][t]]
<1>1. job.rev \in Policies /\ JobSource \in Sources /\ RowsTyped
  BY JobSourceIsKnown DEF Typed, TrainingTyped, InsertMissing
<1>2. r \in Row
  BY <1>1 DEF Row
<1> HIDE DEF r
<1>3. u \in [Times -> Row \cup {NoRow}]
  BY <1>1, <1>2 DEF RowsTyped
<1>4. rows' = [rows EXCEPT ![JobSource] = u] \/ UNCHANGED rows
  BY DEF InsertMissing, r
<1>5. \A t \in Times : \/ u[t] = rows[JobSource][t]
                       \/ t \in job.batch /\ SlotIsFree(JobSource, t) /\ u[t] = r
  OBVIOUS
<1> HIDE DEF u
<1>6. rows' \in [Sources -> [Times -> Row \cup {NoRow}]]
  BY <1>1, <1>3, <1>4 DEF RowsTyped
<1>7. \A f \in Sources, t \in Times :
          \/ rows'[f][t] = rows[f][t]
          \/ f = JobSource /\ t \in job.batch /\ SlotIsFree(JobSource, t) /\ rows'[f][t] = r
  BY <1>1, <1>4, <1>5 DEF RowsTyped
<1> QED BY <1>6, <1>7 DEF r

LEMMA InsertMissingTyped == ASSUME Typed, InsertMissing PROVE Typed'
<1>1. UNCHANGED <<now, policy, hole, edits, sampler, faults>> /\ job.pc # "idle"
  BY DEF InsertMissing
<1>2. /\ job \in JobType /\ now \in Nat /\ job.end \in Nat /\ job.end <= now
      /\ \A t \in job.batch : t < job.end
  BY <1>1, TimesAreNat DEF Typed, TrainingTyped, BoundsTyped, JobType
<1>3. job.batch \subseteq Nat
  BY <1>2, TimesAreNat DEF JobType
<1>4. RowsTyped'
  <2>1. rows' \in [Sources -> [Times -> Row \cup {NoRow}]]
    BY InsertEffect
  <2>2. ASSUME NEW f \in Sources, NEW t \in Times, rows'[f][t] # NoRow PROVE t <= now
    <3>1. rows'[f][t] = rows[f][t] \/ t \in job.batch
      BY InsertEffect
    <3> QED BY <1>2, <1>3, <2>2, <3>1 DEF Typed, RowsTyped, Stored
  <2> QED BY <1>1, <2>1, <2>2 DEF RowsTyped, Stored
<1>5. JobEnds \/ job' = NextSpan(job.todo)
  BY DEF InsertMissing
<1>6. faults' \in 0 .. MaxFaults
  BY <1>1, FaultTyped DEF Typed
<1> QED BY <1>1, <1>4, <1>5, <1>6, JobGoesOn

LEMMA RecheckTyped == ASSUME Typed, Recheck PROVE Typed'
<1>1. /\ UNCHANGED <<now, policy, hole, edits, sampler, rows, faults>> /\ job.pc # "idle"
      /\ JobTo("load") \/ JobEnds
  BY DEF Recheck
<1> QED BY <1>1, JobGoesOn, SameRows, FaultTyped DEF Typed

LEMMA SegmentInside ==
  ASSUME NEW obs, NEW bad
  PROVE  TrainingSegment(obs, bad) \subseteq obs
<1>1. \A t : Run(LatestPerSlot(obs), t) \subseteq obs
  BY DEF Run, LatestPerSlot
<1> QED BY <1>1, Zenon DEF TrainingSegment

LEMMA LoadTyped == ASSUME Typed, Load PROVE Typed'
<1>1. UNCHANGED <<now, policy, hole, edits, sampler, rows, faults>> /\ job.pc # "idle"
  BY DEF Load
<1>2. RowsTyped' /\ faults' \in 0 .. MaxFaults
  BY <1>1, SameRows, FaultTyped DEF Typed
<1> DEFINE seg == TrainingSegment(InWindow(job.end), hole.negative)
<1>3. seg \in SUBSET Times
  BY SegmentInside DEF InWindow, Stored
<1>4. JobEnds \/ job' = [job EXCEPT !.pc = "fitting", !.used = seg]
  BY DEF Load
<1> HIDE DEF seg
<1>5. CASE JobEnds
  BY <1>1, <1>2, <1>5, JobGoesOn
<1>6. CASE job' = [job EXCEPT !.pc = "fitting", !.used = seg]
  <2>1. job \in JobType /\ TrainingTyped
    BY DEF Typed, TrainingTyped
  <2>2. /\ job' \in JobType /\ job'.end = job.end /\ job'.rev = job.rev
        /\ job'.missing = job.missing /\ job'.batch = job.batch
    BY <1>3, <1>6, <2>1 DEF JobType
  <2> QED BY <1>1, <1>2, <2>1, <2>2, JobStep DEF TrainingTyped
<1> QED BY <1>4, <1>5, <1>6

LEMMA TrainingFailsTyped == ASSUME Typed, TrainingFails PROVE Typed'
<1>1. UNCHANGED <<now, policy, hole, edits, sampler, rows>> /\ JobEnds /\ Fault
  BY DEF TrainingFails
<1> QED BY <1>1, JobGoesOn, SameRows, FaultTyped DEF Typed

LEMMA TickTyped == ASSUME Typed, Tick PROVE Typed'
<1>1. now \in Nat /\ now + 1 \in Times /\ Window \in Nat
  BY TimesAreNat, WindowIsSlot DEF Typed, BoundsTyped, Tick, Times
<1>2. now' = now + 1 /\ UNCHANGED <<policy, rows, sampler, job, hole, faults, edits>>
  BY DEF Tick
<1>3. Times \subseteq Nat
  BY TimesAreNat
<1>4. BoundsTyped'
  BY <1>1, <1>2 DEF Typed, BoundsTyped
<1>5. RowsTyped'
  <2>1. ASSUME NEW f \in Sources, NEW t \in Times, rows[f][t] # NoRow PROVE t <= now + 1
    BY <1>1, <1>3, <2>1 DEF Typed, RowsTyped, Stored
  <2> QED BY <1>2, <2>1 DEF Typed, RowsTyped, Stored
<1>6. RoundTyped'
  <2>1. sampler.at \in Nat /\ sampler.batch \subseteq Nat
    BY <1>3 DEF Typed, RoundTyped, SamplerType
  <2> QED BY <1>1, <1>2, <2>1 DEF Typed, RoundTyped
<1>7. TrainingTyped'
  <2>1. job.end \in Nat
    BY <1>3 DEF Typed, TrainingTyped, JobType
  <2> QED BY <1>1, <1>2, <2>1 DEF Typed, TrainingTyped
<1> QED BY <1>4, <1>5, <1>6, <1>7 DEF Typed

LEMMA EditTyped == ASSUME Typed, Edit PROVE Typed'
<1>1. /\ policy' \in Policies \cup {Inactive} /\ edits' = edits + 1 /\ edits < MaxEdits
      /\ UNCHANGED <<now, rows, sampler, job, hole, faults>>
  BY DEF Edit
<1>2. MaxEdits \in Nat
  BY SampleAssumption
<1> QED BY <1>1, <1>2 DEF Typed, BoundsTyped, RowsTyped, Stored, RoundTyped, TrainingTyped

LEMMA InitTyped == ASSUME Init PROVE Typed
<1>1. Window \in Times /\ 0 \in Times /\ Window \in Nat
  BY WindowIsSlot, SampleAssumption DEF Times
<1>2. BoundsTyped
  BY <1>1, SampleAssumption DEF Init, BoundsTyped
<1>3. RowsTyped
  BY DEF Init, RowsTyped, Stored
<1>4. RoundTyped
  BY <1>1 DEF Init, RoundTyped, Booted, SamplerType
<1>5. TrainingTyped
  BY NoTrainingTyped DEF Init, TrainingTyped
<1> QED BY <1>2, <1>3, <1>4, <1>5 DEF Typed

LEMMA TypedStep == ASSUME Typed, [Next]_vars PROVE Typed'
<1>1. CASE UNCHANGED vars
  BY <1>1 DEF vars, Typed, BoundsTyped, RowsTyped, Stored, RoundTyped, TrainingTyped
<1>2. CASE Next
  BY <1>2, TickTyped, EditTyped, StartRoundTyped, BootstrapTyped, FillTyped,
     BootstrapFailsTyped, SampleTyped, SampleFailsTyped, RecoverTyped, RefillTyped,
     RecoveryFailsTyped, SaveTyped, SaveFailsTyped, RestartTyped, StartTrainingTyped,
     CheckHistoryTyped, QuerySpanTyped, InsertMissingTyped, RecheckTyped, LoadTyped,
     TrainingFailsTyped DEF Next
<1> QED BY <1>1, <1>2

THEOREM AlwaysTyped == Spec => []Typed
  BY InitTyped, TypedStep, PTL DEF Spec

\* Every variable keeps its type, and nothing that is stored, asked for or
\* repaired is later than the clock (sampler, TrainingRepairer).
THEOREM TypeCorrect == Spec => []TypeOK
<1>1. Typed => TypeOK
  BY DEF Typed, BoundsTyped, RowsTyped, RoundTyped, TrainingTyped, TypeOK
<1> QED BY <1>1, AlwaysTyped, PTL

-----------------------------------------------------------------------------
(* What is written.                                                          *)

\* Three processes write rows, each its own way.
LEMMA Writers ==
  ASSUME Typed, [Next]_vars
  PROVE  \/ UNCHANGED rows
         \/ InsertMissing
         \/ \E by \in {"live", "range"}, times \in SUBSET Times :
                sampler.rev \in Policies /\ Upsert(times, by)
<1>1. sampler.batch \in SUBSET Times /\ {sampler.at} \in SUBSET Times
  BY DEF Typed, RoundTyped, SamplerType
<1>2. sampler.pc # "idle" => sampler.rev \in Policies
  BY DEF Typed, RoundTyped
<1>3. CASE UNCHANGED vars
  BY <1>3 DEF vars
<1>4. CASE Fill
  BY <1>1, <1>2, <1>4 DEF Fill
<1>5. CASE Refill
  BY <1>1, <1>2, <1>5 DEF Refill
<1>6. CASE Save
  BY <1>1, <1>2, <1>6 DEF Save
<1>7. CASE InsertMissing
  BY <1>7
<1>8. CASE Tick \/ Edit \/ StartRound \/ Bootstrap \/ BootstrapFails
  BY <1>8 DEF Tick, Edit, StartRound, Bootstrap, BootstrapFails
<1>9. CASE Sample \/ SampleFails \/ Recover \/ RecoveryFails \/ SaveFails \/ Restart
  BY <1>9 DEF Sample, SampleFails, Recover, RecoveryFails, SaveFails, Restart
<1>10. CASE StartTraining \/ CheckHistory \/ QuerySpan \/ Recheck \/ Load \/ TrainingFails
  BY <1>10 DEF StartTraining, CheckHistory, QuerySpan, Recheck, Load, TrainingFails
<1> QED BY <1>3, <1>4, <1>5, <1>6, <1>7, <1>8, <1>9, <1>10 DEF Next

\* A row is written once by the query of its source: it stays, or an upsert
\* replaces it.
LEMMA Written ==
  ASSUME Typed, [Next]_vars, NEW f \in Sources, NEW t \in Times
  PROVE  \/ rows'[f][t] = rows[f][t]
         \/ \E by \in {"live", "range"} : rows'[f][t] = [query |-> f, by |-> by]
         \/ /\ InsertMissing /\ f = JobSource /\ t \in job.batch /\ SlotIsFree(f, t)
            /\ rows'[f][t] = [query |-> f, by |-> "repair"]
<1>1. CASE UNCHANGED rows
  BY <1>1
<1>2. CASE InsertMissing
  BY <1>2, InsertEffect
<1>3. ASSUME NEW by \in {"live", "range"}, NEW times \in SUBSET Times,
             sampler.rev \in Policies, Upsert(times, by)
      PROVE  \/ rows'[f][t] = rows[f][t]
             \/ \E how \in {"live", "range"} : rows'[f][t] = [query |-> f, by |-> how]
  <2>1. \/ rows'[f][t] = rows[f][t]
        \/ f = Source /\ rows'[f][t] = [query |-> Source, by |-> by]
    BY <1>3, UpsertEffect DEF Typed
  <2> QED BY <2>1
<1> QED BY <1>1, <1>2, <1>3, Writers

LEMMA QueryStep == ASSUME Typed, RowsMatchSource, [Next]_vars PROVE RowsMatchSource'
<1>1. SUFFICES ASSUME NEW f \in Sources, NEW t \in Times, rows'[f][t] # NoRow
               PROVE  rows'[f][t].query = f
  BY DEF RowsMatchSource, Stored
<1>2. \/ rows'[f][t] = rows[f][t]
      \/ \E by \in {"live", "range", "repair"} : rows'[f][t] = [query |-> f, by |-> by]
  BY Written
<1> QED BY <1>1, <1>2 DEF RowsMatchSource, Stored

\* The rows of a fingerprint all come from its own query, although an edit may
\* replace the query while a round or a repair of the old one is under way
\* (BuildSample, InsertMissingSamples).
THEOREM MatchingRows == Spec => []RowsMatchSource
<1>1. Init => RowsMatchSource
  BY DEF Init, RowsMatchSource, Stored
<1> QED BY <1>1, AlwaysTyped, QueryStep, PTL DEF Spec

LEMMA KeptStep ==
  ASSUME Typed, [Next]_vars, NEW f \in Sources, NEW t \in Times,
         rows'[f][t] # rows[f][t], rows'[f][t].by = "repair"
  PROVE  \A u \in Stored(f) : SlotOf(u) # SlotOf(t)
<1>1. InsertMissing /\ t \in job.batch /\ SlotIsFree(f, t)
  <2>1. ASSUME NEW by \in {"live", "range"}, rows'[f][t] = [query |-> f, by |-> by] PROVE FALSE
    <3>1. rows'[f][t].by = by
      BY <2>1
    <3> QED BY <3>1
  <2> QED BY <2>1, Written, Zenon
<1>2. SlotOf(t) = t /\ t \in Nat
  BY <1>1, TimesAreNat DEF Typed, TrainingTyped
<1>3. SUFFICES ASSUME NEW u \in Stored(f), SlotOf(u) = t PROVE FALSE
  BY <1>2
<1>4. u \in Times /\ u \in Nat /\ rows[f][u] # NoRow
  BY TimesAreNat DEF Stored
<1>5. Interval \in Nat /\ t <= u /\ u < t + Interval
  BY <1>3, <1>4, SlotBounds, InferenceAssumption
<1>6. u \in t .. t + Interval - 1
  BY <1>2, <1>4, <1>5
<1> QED BY <1>1, <1>4, <1>6 DEF SlotIsFree

\* A repair adds to no slot that holds an observation, whenever that one was
\* stored (InsertMissingSamples).
THEOREM KeptObservations == Spec => ObservationsAreKept
<1>1. Typed /\ [Next]_vars =>
        [\A f \in Sources : \A t \in Times :
            rows'[f][t] # rows[f][t] /\ rows'[f][t].by = "repair"
                => \A u \in Stored(f) : SlotOf(u) # SlotOf(t)]_vars
  BY KeptStep
<1> QED BY <1>1, AlwaysTyped, PTL DEF Spec, ObservationsAreKept

-----------------------------------------------------------------------------
(* What a trainer fits.                                                      *)

LEMMA MultiplesAreSlots ==
  ASSUME NEW t \in Nat, t % Interval = 0
  PROVE  SlotOf(t) = t
<1>1. ASSUME NEW i \in Nat \ {0}, t % i = 0 PROVE i * (t \div i) = t
  <2>1. t = i * (t \div i) + (t % i) /\ t \div i \in Nat
    BY <1>1
  <2> QED BY <1>1, <2>1
<1> QED BY <1>1, InferenceAssumption DEF SlotOf

\* A window that ends with a slot begins with one.
LEMMA WindowOpens ==
  ASSUME NEW end \in Nat, SlotOf(end) = end, Window <= end
  PROVE  end - Window \in Nat /\ SlotOf(end - Window) = end - Window
<1> DEFINE a == end \div Interval
           b == Window \div Interval
           w == end - Window
<1>1. /\ a \in Nat /\ b \in Nat /\ Interval \in Nat \ {0} /\ Window \in Nat
      /\ end = Interval * a /\ Window = Interval * b
  BY Division, InferenceAssumption, WindowIsSlot DEF SlotOf
<1>2. w \in Nat
  BY <1>1
<1> HIDE DEF a, b
<1>3. w = Interval * (a - b)
  BY <1>1
<1> DEFINE c == w \div Interval
<1>4. c \in Nat /\ SlotOf(w) = Interval * c /\ SlotOf(w) <= w /\ w < SlotOf(w) + Interval
  BY <1>1, <1>2, Division, SlotBounds DEF SlotOf
<1> HIDE DEF c, w
<1>5. b <= a
  <2>1. SUFFICES ASSUME a < b PROVE FALSE
    BY <1>1
  <2>2. Interval * a + Interval <= Interval * b
    BY <1>1, <2>1, Multiples
  <2>3. Interval * a \in Nat /\ Interval * b \in Nat
    BY <1>1
  <2> QED BY <1>1, <2>2, <2>3
<1> DEFINE d == a - b
<1>6. d \in Nat /\ w = Interval * d
  BY <1>1, <1>3, <1>5
<1> HIDE DEF d
<1>7. ~(c < d)
  <2>1. SUFFICES ASSUME c < d PROVE FALSE
    OBVIOUS
  <2>2. Interval * c + Interval <= Interval * d
    BY <1>1, <1>4, <1>6, <2>1, Multiples
  <2> QED BY <1>1, <1>2, <1>4, <1>6, <2>2
<1>8. ~(d < c)
  <2>1. SUFFICES ASSUME d < c PROVE FALSE
    OBVIOUS
  <2>2. Interval * d + Interval <= Interval * c
    BY <1>1, <1>4, <1>6, <2>1, Multiples
  <2> QED BY <1>1, <1>2, <1>4, <1>6, <2>2
<1>9. c = d
  BY <1>4, <1>6, <1>7, <1>8
<1> QED BY <1>2, <1>4, <1>6, <1>9 DEF w

\* The latest observations of the slots: one for each slot that has any.
LEMMA OnePerSlot ==
  ASSUME NEW obs, obs \subseteq Nat, NEW n \in Nat, \A x \in obs : x <= n
  PROVE  /\ LatestPerSlot(obs) \subseteq obs
         /\ \A t \in obs : \E u \in LatestPerSlot(obs) : SlotOf(u) = SlotOf(t)
         /\ \A t, u \in LatestPerSlot(obs) : SlotOf(t) = SlotOf(u) => t = u
<1>1. LatestPerSlot(obs) \subseteq obs
  BY DEF LatestPerSlot
<1>2. ASSUME NEW t \in obs PROVE \E u \in LatestPerSlot(obs) : SlotOf(u) = SlotOf(t)
  <2> DEFINE same == {v \in obs : SlotOf(v) = SlotOf(t)}
  <2>1. same \subseteq Nat /\ same # {} /\ \A x \in same : x <= n
    OBVIOUS
  <2>2. Max(same) \in same /\ \A y \in same : y <= Max(same)
    <3> HIDE DEF same
    <3> QED BY <2>1, Largest
  <2>3. Max(same) \in LatestPerSlot(obs)
    <3> DEFINE m == Max(same)
    <3>1. m \in obs /\ SlotOf(m) = SlotOf(t)
      BY <2>2
    <3>2. \A u \in obs : SlotOf(u) = SlotOf(m) => u <= m
      BY <2>2, <3>1
    <3> HIDE DEF m
    <3>3. m \in LatestPerSlot(obs)
      BY <3>1, <3>2 DEF LatestPerSlot
    <3> QED BY <3>3 DEF m
  <2> QED BY <2>2, <2>3
<1>3. ASSUME NEW t \in LatestPerSlot(obs), NEW u \in LatestPerSlot(obs), SlotOf(t) = SlotOf(u)
      PROVE  t = u
  <2>1. t \in obs /\ u \in obs /\ t <= u /\ u <= t
    BY <1>3 DEF LatestPerSlot
  <2> QED BY <2>1
<1> QED BY <1>1, <1>2, <1>3

\* Of a history without a missing slot the segment is all of it.
LEMMA SegmentIsAll ==
  ASSUME NEW obs, obs \subseteq Nat, NEW n \in Nat, \A x \in obs : x <= n, NEW bad,
         \A t, u \in obs : \A s \in SlotOf(t) .. SlotOf(u) :
            s % Interval = 0 => \E v \in obs : SlotOf(v) = s,
         TrainingSegment(obs, bad) # {}
  PROVE  TrainingSegment(obs, bad) = LatestPerSlot(obs) /\ obs \cap bad = {}
<1> DEFINE pts  == LatestPerSlot(obs)
           long == {t \in pts : Cardinality(Run(pts, t)) >= MinSegment}
<1>1. obs \cap bad = {} /\ long # {} /\ TrainingSegment(obs, bad) = Run(pts, Max(long))
  BY DEF TrainingSegment
<1>2. /\ pts \subseteq obs /\ \A t \in obs : \E u \in pts : SlotOf(u) = SlotOf(t)
  BY OnePerSlot
<1> HIDE DEF pts
<1>3. pts # {} /\ pts \subseteq Nat /\ \A x \in pts : x <= n
  BY <1>1, <1>2
<1>4. Max(pts) \in pts /\ \A y \in pts : y <= Max(pts)
  BY <1>3, Largest
<1> DEFINE m == Max(pts)
<1>5. Run(pts, m) = pts
  <2>1. ASSUME NEW u \in pts, NEW s \in SlotOf(u) .. SlotOf(m), s % Interval = 0
        PROVE  \E v \in pts : SlotOf(v) = s
    <3>1. \E v \in obs : SlotOf(v) = s
      BY <1>2, <1>4, <2>1
    <3> QED BY <1>2, <3>1
  <2> QED BY <1>4, <2>1 DEF Run
<1>6. m \in long
  <2>1. PICK t \in long : TRUE
    BY <1>1
  <2>2. IsFiniteSet(pts)
    <3>1. pts \subseteq 0 .. n
      BY <1>3
    <3>2. IsFiniteSet(0 .. n)
      BY FS_Interval
    <3> QED BY <3>1, <3>2, FS_Subset
  <2>3. Run(pts, t) \subseteq pts
    BY DEF Run
  <2>4. /\ Cardinality(Run(pts, t)) \in Nat /\ Cardinality(pts) \in Nat
        /\ Cardinality(Run(pts, t)) <= Cardinality(pts)
    BY <2>2, <2>3, FS_Subset, FS_CardinalityType
  <2>5. Cardinality(pts) >= MinSegment
    BY <2>1, <2>4, InferenceAssumption
  <2> QED BY <1>4, <1>5, <2>5
<1>7. Max(long) = m
  <2>1. long \subseteq pts
    OBVIOUS
  <2> HIDE DEF long
  <2>2. Max(long) \in long /\ \A y \in long : y <= Max(long)
    <3>1. long \subseteq Nat /\ \A x \in long : x <= n
      BY <1>3, <2>1
    <3> QED BY <1>1, <3>1, Largest
  <2>3. Max(long) <= m /\ m <= Max(long) /\ m \in Nat /\ Max(long) \in Nat
    BY <1>3, <1>4, <1>6, <2>1, <2>2
  <2> QED BY <2>3
<1> QED BY <1>1, <1>5, <1>7 DEF pts

\* A window without a missing slot has observations of its closed slots, and
\* of no others.
LEMMA WindowSlots ==
  ASSUME Typed, job.pc # "idle", MissingSlots(JobSource, job.end) = {}
  PROVE  LET obs == InWindow(job.end)
         IN  /\ obs \subseteq Times
             /\ \A t \in obs : SlotOf(t) \in ClosedSlots(job.end)
             /\ \A s \in ClosedSlots(job.end) : \E t \in obs : SlotOf(t) = s
<1> DEFINE end == job.end
           w == end - Window
<1>1. /\ end \in Nat /\ Window \in Nat /\ SlotOf(end) = end /\ Window <= end
      /\ w \in Nat /\ SlotOf(w) = w /\ Interval \in Nat \ {0}
  BY TimesAreNat, WindowIsSlot, WindowOpens, InferenceAssumption
     DEF Typed, TrainingTyped, JobType
<1>2. Stored(JobSource) \subseteq Times /\ Times \subseteq Nat
  BY TimesAreNat DEF Stored
<1>3. MissingSlots(JobSource, end) = {}
  OBVIOUS
<1> HIDE DEF w, end
<1>4. InWindow(end) = Stored(JobSource) \cap (w .. end - 1)
  BY DEF InWindow, w
<1>5. ClosedSlots(end) = {t \in w .. end - 1 : t = SlotOf(t)}
  BY DEF ClosedSlots, w
<1>6. ASSUME NEW t \in InWindow(end) PROVE SlotOf(t) \in ClosedSlots(end)
  <2>1. t \in Nat /\ w <= t /\ t <= end - 1
    BY <1>1, <1>2, <1>4
  <2>2. /\ SlotOf(t) \in Nat /\ SlotOf(t) <= t /\ t < SlotOf(t) + Interval
        /\ SlotOf(SlotOf(t)) = SlotOf(t)
    BY <2>1, SlotBounds, SlotOfSlot
  <2>3. w <= SlotOf(t)
    <3>1. SUFFICES ASSUME SlotOf(t) < w PROVE FALSE
      BY <1>1, <2>2
    <3>2. SlotOf(t) + Interval <= w
      BY <1>1, <2>1, <3>1, SlotsApart
    <3> QED BY <1>1, <2>1, <2>2, <3>2
  <2> QED BY <1>1, <1>5, <2>1, <2>2, <2>3
<1>7. ASSUME NEW s \in ClosedSlots(end) PROVE \E t \in InWindow(end) : SlotOf(t) = s
  <2>1. s \in Nat /\ w <= s /\ s < end /\ SlotOf(s) = s
    BY <1>1, <1>5
  <2>2. PICK t \in Stored(JobSource) : SlotOf(t) = s
    BY <1>3 DEF MissingSlots
  <2>3. t \in Nat /\ s <= t /\ t < s + Interval
    BY <1>2, <2>2, SlotBounds
  <2>4. s + Interval <= end
    BY <1>1, <2>1, SlotsApart
  <2>5. t \in InWindow(end)
    BY <1>1, <1>4, <2>1, <2>2, <2>3, <2>4
  <2> QED BY <2>2, <2>5
<1> QED BY <1>2, <1>4, <1>6, <1>7 DEF end

\* What a trainer reads that has found its history repaired.
LEMMA FitsWindow ==
  ASSUME Typed, job.pc # "idle", MissingSlots(JobSource, job.end) = {},
         NEW seg, seg = TrainingSegment(InWindow(job.end), hole.negative), seg # {}
  PROVE  /\ {SlotOf(t) : t \in seg} = ClosedSlots(job.end)
         /\ \A t, u \in seg : SlotOf(t) = SlotOf(u) => t = u
         /\ seg \cap hole.negative = {}
<1> DEFINE obs == InWindow(job.end)
           closed == ClosedSlots(job.end)
<1>1. /\ obs \subseteq Times
      /\ \A t \in obs : SlotOf(t) \in closed
      /\ \A s \in closed : \E t \in obs : SlotOf(t) = s
  BY WindowSlots
<1>2. obs \subseteq Nat /\ MaxTime \in Nat /\ \A x \in obs : x <= MaxTime
  BY <1>1, TimesAreNat, WindowIsSlot
<1>3. ASSUME NEW t \in obs, NEW u \in obs, NEW s \in SlotOf(t) .. SlotOf(u), s % Interval = 0
      PROVE  s \in closed
  <2>1. job.end - Window \in Nat /\ job.end \in Nat
    BY TimesAreNat, WindowOpens DEF Typed, TrainingTyped, JobType
  <2>2. SlotOf(t) \in job.end - Window .. job.end - 1 /\ SlotOf(u) \in job.end - Window .. job.end - 1
    BY <1>1, <1>3 DEF ClosedSlots
  <2>3. s \in Nat /\ s \in job.end - Window .. job.end - 1
    BY <1>3, <2>1, <2>2
  <2>4. SlotOf(s) = s
    BY <1>3, <2>3, MultiplesAreSlots
  <2> QED BY <2>3, <2>4 DEF ClosedSlots
<1> HIDE DEF obs, closed
<1>4. seg = TrainingSegment(obs, hole.negative)
  BY DEF obs
<1>5. \A t, u \in obs : \A s \in SlotOf(t) .. SlotOf(u) :
        s % Interval = 0 => \E v \in obs : SlotOf(v) = s
  BY <1>1, <1>3
<1>6. seg = LatestPerSlot(obs) /\ obs \cap hole.negative = {}
  <2> DEFINE bad == hole.negative
  <2>1. TrainingSegment(obs, bad) # {}
    BY <1>4
  <2> HIDE DEF bad
  <2>2. TrainingSegment(obs, bad) = LatestPerSlot(obs) /\ obs \cap bad = {}
    BY <1>2, <1>5, <2>1, SegmentIsAll, Zenon
  <2> QED BY <1>4, <2>2 DEF bad
<1>7. /\ LatestPerSlot(obs) \subseteq obs
      /\ \A t \in obs : \E u \in LatestPerSlot(obs) : SlotOf(u) = SlotOf(t)
      /\ \A t, u \in LatestPerSlot(obs) : SlotOf(t) = SlotOf(u) => t = u
  BY <1>2, OnePerSlot
<1>8. {SlotOf(t) : t \in seg} = closed
  <2>1. \A t \in seg : SlotOf(t) \in closed
    BY <1>1, <1>6, <1>7
  <2>2. \A s \in closed : \E t \in seg : SlotOf(t) = s
    BY <1>1, <1>6, <1>7
  <2> QED BY <2>1, <2>2
<1> QED BY <1>6, <1>7, <1>8 DEF closed

\* A trainer that is about to load misses no slot: rows are never deleted.
LoadsRepaired == job.pc = "load" => MissingSlots(JobSource, job.end) = {}

LEMMA NothingIsLost ==
  ASSUME Typed, [Next]_vars, NEW f \in Sources
  PROVE  Stored(f) \subseteq Stored(f)'
<1>1. SUFFICES ASSUME NEW t \in Times, rows[f][t] # NoRow PROVE rows'[f][t] # NoRow
  BY DEF Stored
<1>2. \A by \in {"live", "range", "repair"} : [query |-> f, by |-> by] \in Row
  BY DEF Row
<1>3. \/ rows'[f][t] = rows[f][t]
      \/ \E by \in {"live", "range", "repair"} : rows'[f][t] = [query |-> f, by |-> by]
  BY Written
<1> QED BY <1>1, <1>2, <1>3, SampleAssumption

\* A trainer comes to load its samples after a read that missed no slot, and
\* fits what it has loaded.
LEMMA TrainerMoves ==
  ASSUME Typed, [Next]_vars
  PROVE  /\ UNCHANGED hole
         /\ \/ UNCHANGED job
            \/ job'.pc \notin {"load", "fitting"}
            \/ /\ job.pc # "idle" /\ MissingSlots(JobSource, job.end) = {}
               /\ job' = [job EXCEPT !.pc = "load"]
            \/ LET seg == TrainingSegment(InWindow(job.end), hole.negative)
               IN  /\ job.pc = "load" /\ seg # {}
                   /\ job' = [job EXCEPT !.pc = "fitting", !.used = seg]
<1>1. job \in JobType
  BY DEF Typed, TrainingTyped
<1>2. JobEnds => job'.pc = "idle"
  BY DEF JobEnds, NoTraining
<1>3. CASE CheckHistory
  <2> DEFINE missing == MissingSlots(JobSource, job.end)
             plan == Plan(missing, job.end)
  <2>1. /\ UNCHANGED hole /\ job.pc # "idle"
        /\ \/ JobEnds
           \/ missing = {} /\ JobTo("load")
           \/ job' = [job EXCEPT !.pc = "query", !.missing = missing, !.todo = plan]
    BY <1>3 DEF CheckHistory
  <2> HIDE DEF missing, plan
  <2>2. job' = [job EXCEPT !.pc = "query", !.missing = missing, !.todo = plan]
        => job'.pc = "query"
    BY <1>1 DEF JobType
  <2> QED BY <1>2, <2>1, <2>2 DEF JobTo, missing
<1>4. CASE Recheck
  BY <1>2, <1>4 DEF Recheck, Repaired, JobTo
<1>5. CASE StartTraining
  BY <1>5 DEF StartTraining, NoTraining
<1>6. ASSUME NEW rest PROVE NextSpan(rest).pc \in {"query", "recheck"}
  BY <1>1 DEF NextSpan, JobType
<1>7. CASE QuerySpan
  <2> DEFINE span  == CHOOSE s \in job.todo : \A u \in job.todo : Min(s) <= Min(u)
             batch == RangeQuery(Min(span), Max(span)) \cap job.missing
             rest  == job.todo \ {span}
  <2>1. \/ JobEnds
        \/ job' = NextSpan(rest)
        \/ job' = [job EXCEPT !.pc = "insert", !.todo = rest, !.batch = batch]
    BY <1>7, Zenon DEF QuerySpan, JobEnds
  <2> HIDE DEF batch, rest
  <2>2. job' = [job EXCEPT !.pc = "insert", !.todo = rest, !.batch = batch]
        => job'.pc = "insert"
    BY <1>1 DEF JobType
  <2>3. job'.pc \notin {"load", "fitting"}
    BY <1>2, <1>6, <2>1, <2>2
  <2> QED BY <1>7, <2>3 DEF QuerySpan
<1>8. CASE InsertMissing
  BY <1>2, <1>6, <1>8 DEF InsertMissing
<1>9. CASE TrainingFails
  BY <1>2, <1>9 DEF TrainingFails
<1>10. CASE Load
  <2> DEFINE seg == TrainingSegment(InWindow(job.end), hole.negative)
  <2>1. /\ UNCHANGED hole /\ job.pc = "load"
        /\ \/ JobEnds
           \/ seg # {} /\ job' = [job EXCEPT !.pc = "fitting", !.used = seg]
    BY <1>10 DEF Load
  <2> HIDE DEF seg
  <2> QED BY <1>2, <2>1 DEF seg
<1>11. CASE Tick \/ Edit \/ StartRound \/ Bootstrap \/ Fill \/ BootstrapFails \/ Sample \/ SampleFails
  BY <1>11 DEF Tick, Edit, StartRound, Bootstrap, Fill, BootstrapFails, Sample, SampleFails
<1>12. CASE Recover \/ Refill \/ RecoveryFails \/ Save \/ SaveFails \/ Restart
  BY <1>12 DEF Recover, Refill, RecoveryFails, Save, SaveFails, Restart
<1>13. CASE UNCHANGED vars
  BY <1>13 DEF vars
<1> QED BY <1>3, <1>4, <1>5, <1>7, <1>8, <1>9, <1>10, <1>11, <1>12, <1>13 DEF Next

LEMMA RepairedStep ==
  ASSUME Typed, [Next]_vars, LoadsRepaired
  PROVE  LoadsRepaired'
<1>1. SUFFICES ASSUME job'.pc = "load" PROVE MissingSlots(JobSource, job.end)' = {}
  BY DEF LoadsRepaired
<1>2. job \in JobType
  BY DEF Typed, TrainingTyped
<1>3. /\ job.pc # "idle" /\ MissingSlots(JobSource, job.end) = {}
      /\ job'.rev = job.rev /\ job'.end = job.end
  <2>1. CASE UNCHANGED job
    BY <1>1, <2>1 DEF LoadsRepaired
  <2>2. CASE /\ job.pc # "idle" /\ MissingSlots(JobSource, job.end) = {}
             /\ job' = [job EXCEPT !.pc = "load"]
    BY <1>2, <2>2 DEF JobType
  <2>3. ASSUME NEW seg PROVE job' # [job EXCEPT !.pc = "fitting", !.used = seg]
    BY <1>1, <1>2 DEF JobType
  <2> QED BY <1>1, <2>1, <2>2, <2>3, TrainerMoves
<1>4. JobSource \in Sources
  BY <1>3, JobSourceIsKnown DEF Typed, TrainingTyped
<1>5. Stored(JobSource) \subseteq Stored(JobSource)'
  BY <1>3, <1>4, NothingIsLost DEF JobSource
<1>6. ClosedSlots(job.end)' = ClosedSlots(job.end)
  BY <1>3 DEF ClosedSlots
<1> QED BY <1>3, <1>5, <1>6 DEF MissingSlots

LEMMA FittingStep ==
  ASSUME Typed, [Next]_vars, LoadsRepaired, TrainsOnCompleteHistory
  PROVE  TrainsOnCompleteHistory'
<1>1. SUFFICES ASSUME job'.pc = "fitting"
               PROVE  /\ {SlotOf(t) : t \in job'.used} = ClosedSlots(job'.end)
                      /\ \A t, u \in job'.used : SlotOf(t) = SlotOf(u) => t = u
                      /\ job'.used \cap hole'.negative = {}
  BY DEF TrainsOnCompleteHistory, ClosedSlots
<1>2. job \in JobType
  BY DEF Typed, TrainingTyped
<1> DEFINE seg == TrainingSegment(InWindow(job.end), hole.negative)
<1>3. hole' = hole /\ (\/ UNCHANGED job
                       \/ /\ job.pc = "load" /\ seg # {}
                          /\ job' = [job EXCEPT !.pc = "fitting", !.used = seg])
  <2>1. job' # [job EXCEPT !.pc = "load"]
    BY <1>1, <1>2 DEF JobType
  <2> QED BY <1>1, <2>1, TrainerMoves
<1>4. CASE UNCHANGED job
  BY <1>1, <1>3, <1>4 DEF TrainsOnCompleteHistory
<1>5. CASE /\ job.pc = "load" /\ seg # {}
           /\ job' = [job EXCEPT !.pc = "fitting", !.used = seg]
  <2>1. /\ {SlotOf(t) : t \in seg} = ClosedSlots(job.end)
        /\ \A t, u \in seg : SlotOf(t) = SlotOf(u) => t = u
        /\ seg \cap hole.negative = {}
    BY <1>5, FitsWindow DEF LoadsRepaired
  <2> HIDE DEF seg
  <2>2. job'.used = seg /\ job'.end = job.end
    BY <1>2, <1>5 DEF JobType
  <2> QED BY <1>3, <2>1, <2>2
<1> QED BY <1>3, <1>4, <1>5

\* A trainer fits one observation of every closed slot of the whole window and
\* no negative value, whatever was sampled, lost or repaired before
\* (Repair, TrainingSegment).
THEOREM CompleteTraining == Spec => []TrainsOnCompleteHistory
<1>1. Init => LoadsRepaired /\ TrainsOnCompleteHistory
  BY DEF Init, NoTraining, LoadsRepaired, TrainsOnCompleteHistory
<1> QED BY <1>1, AlwaysTyped, RepairedStep, FittingStep, PTL DEF Spec
-----------------------------------------------------------------------------
(* Failed queries and their recovery.                                        *)

\* A slot holds an observation, or the source has lost a moment of it.
Filled(f, s) == \/ (s .. s + Interval - 1) \cap hole.none # {}
                \/ \E u \in Stored(f) : SlotOf(u) = s

\* The slot of a moment is older than the window of a training begun now.
Aged(t) == SlotOf(t) < SlotOf(now) - Window

\* Nothing is stored later than the slot of t as long as that one is missing,
\* so that a recovery that starts after the last observation comes to it.
NotPassed(f, t) ==
    (\E u \in Stored(f) : SlotOf(u) > SlotOf(t)) => Filled(f, SlotOf(t)) \/ Aged(t)

Recovered(f, t) == \/ SlotOf(t) < SlotOf(sampler.at) - RecoveryWindow
                   \/ Aged(t) \/ Filled(f, SlotOf(t))

\* What a repair knows of the slots it found missing: those that its plan has
\* left behind are filled, or in the batch, and its batch has no gaps.
SpansKnown ==
    /\ job.pc \in {"check", "query"} => job.batch = {}
    /\ job.pc \in {"query", "insert"} =>
        /\ \A span \in job.todo : span # {} /\ span \subseteq ClosedSlots(job.end)
        /\ \A f \in Sources : f = JobSource =>
            /\ \A s \in ClosedSlots(job.end) \ job.missing : Filled(f, s)
            /\ \A s \in job.missing : \/ s \in job.batch \/ Filled(f, s)
                                      \/ \E span \in job.todo : s \in span
            /\ \A u \in job.batch, s \in job.missing :
                    s < u => s \in job.batch \/ Filled(f, s)

\* Of the source that a round samples.
ThisRound(f) ==
    /\ sampler.pc \in {"bootstrap", "fill"} => sampler.failed[f] = {}
    /\ sampler.pc \in {"sample", "recover", "refill", "save"} =>
            Due(sampler.at) /\ f \in sampler.bootstrapped
    /\ sampler.pc \in {"bootstrap", "fill", "sample"} =>
            /\ NotPassed(f, sampler.at)
            /\ \A t \in sampler.failed[f] : t < sampler.at
    /\ sampler.pc \in {"recover", "refill", "save"} =>
            /\ sampler.failed[f] = {}
            /\ \A t \in sampler.gap : Due(t) /\ t < sampler.at
    /\ sampler.pc = "fill" => \A u \in sampler.batch : u <= sampler.at
    /\ sampler.pc = "recover" => \A t \in sampler.gap : NotPassed(f, t)
    /\ sampler.pc = "refill" => \A t \in sampler.gap :
            Recovered(f, t) \/ \E u \in sampler.batch : SlotOf(u) = SlotOf(t)
    /\ sampler.pc = "save" => \A t \in sampler.gap : Recovered(f, t)

FailuresKnown ==
    /\ \A f \in Sources : \A t \in sampler.failed[f] :
            Due(t) /\ t <= sampler.at /\ NotPassed(f, t)
    /\ \A f \in Sources : f \notin sampler.bootstrapped => sampler.failed[f] = {}
    /\ \A f \in Sources : sampler.pc # "idle" /\ f = Source => ThisRound(f)

\* Slots are in the order of their moments.
LEMMA SlotsOrdered ==
  ASSUME NEW t \in Nat, NEW u \in Nat, t <= u
  PROVE  SlotOf(t) <= SlotOf(u)
<1>1. /\ SlotOf(t) \in Nat /\ SlotOf(t) <= t
      /\ SlotOf(u) \in Nat /\ u < SlotOf(u) + Interval /\ Interval \in Nat \ {0}
  BY SlotBounds, InferenceAssumption
<1>2. SUFFICES ASSUME SlotOf(u) < SlotOf(t) PROVE FALSE
  BY <1>1
<1>3. SlotOf(u) + Interval <= SlotOf(t)
  BY <1>2, SlotsApart
<1> QED BY <1>1, <1>3

\* The moments at which queries are due lie in different slots.
LEMMA DueApart ==
  ASSUME NEW t \in Nat, NEW u \in Nat, Due(t), Due(u), t < u
  PROVE  SlotOf(t) < SlotOf(u)
<1>1. ASSUME NEW i \in Nat \ {0}, NEW v \in Nat PROVE v = i * (v \div i) + (v % i)
  OBVIOUS
<1>2. Interval \in Nat \ {0}
  BY InferenceAssumption
<1>3. t = SlotOf(t) + Jitter /\ u = SlotOf(u) + Jitter
  BY <1>1, <1>2 DEF Due, SlotOf
<1>4. SlotOf(t) \in Nat /\ SlotOf(u) \in Nat /\ Jitter \in Int
  BY SlotBounds, SampleAssumption
<1> QED BY <1>3, <1>4

\* A step keeps observations, the source as it is, and what is too old.
LEMMA FilledStays ==
  ASSUME Typed, [Next]_vars
  PROVE  /\ hole' = hole /\ now <= now' /\ now \in Nat /\ now' \in Nat
         /\ \A f \in Sources, t \in Times : Filled(f, SlotOf(t)) => Filled(f, SlotOf(t))'
         /\ \A f \in Sources, t \in Times : Filled(f, t) => Filled(f, t)'
         /\ \A t \in Times : Aged(t) => Aged(t)'
<1>1. hole' = hole /\ (now' = now \/ now' = now + 1)
  BY DEF Next, vars, Tick, Edit, StartRound, Bootstrap, Fill, BootstrapFails,
     Sample, SampleFails, Recover, Refill, RecoveryFails, Save, SaveFails, Restart,
     StartTraining, CheckHistory, QuerySpan, InsertMissing, Recheck, Load, TrainingFails
<1>2. now \in Nat /\ now' \in Nat /\ now <= now'
  BY <1>1, TimesAreNat DEF Typed, BoundsTyped
<1>3. \A f \in Sources : Stored(f) \subseteq Stored(f)'
  BY NothingIsLost
<1>4. SlotOf(now) <= SlotOf(now')
  BY <1>2, SlotsOrdered
<1>5. SlotOf(now) \in Nat /\ SlotOf(now') \in Nat /\ Window \in Nat
  BY <1>2, SlotBounds, WindowIsSlot
<1>6. ASSUME NEW t \in Times, Aged(t) PROVE Aged(t)'
  <2>1. SlotOf(t) \in Nat
    BY SlotBounds, TimesAreNat
  <2> QED BY <1>4, <1>5, <1>6, <2>1 DEF Aged
<1>7. ASSUME NEW f \in Sources, NEW s, Filled(f, s) PROVE Filled(f, s)'
  BY <1>1, <1>3, <1>7 DEF Filled
<1> QED BY <1>1, <1>2, <1>6, <1>7

\* A missing slot is not passed by a step that stores nothing later, or fills it.
LEMMA NotPassedStays ==
  ASSUME Typed, [Next]_vars, NEW f \in Sources, NEW t \in Times, NotPassed(f, t),
         \A u \in Stored(f)' : \/ u \in Stored(f) \/ SlotOf(u) <= SlotOf(t)
                               \/ Filled(f, SlotOf(t))' \/ Aged(t)'
  PROVE  NotPassed(f, t)'
<1>1. SUFFICES ASSUME NEW u \in Stored(f)', SlotOf(u) > SlotOf(t)
               PROVE  Filled(f, SlotOf(t))' \/ Aged(t)'
  BY DEF NotPassed
<1>2. u \in Times /\ SlotOf(u) \in Nat /\ SlotOf(t) \in Nat
  BY SlotBounds, TimesAreNat DEF Stored
<1>3. u \in Stored(f) \/ Filled(f, SlotOf(t))' \/ Aged(t)'
  BY <1>1, <1>2
<1>4. CASE u \in Stored(f)
  <2>1. Filled(f, SlotOf(t)) \/ Aged(t)
    BY <1>1, <1>4 DEF NotPassed
  <2> QED BY <2>1, FilledStays
<1> QED BY <1>3, <1>4

\* A transaction that finds the revision unchanged fills the slots of its batch.
LEMMA InsertFills ==
  ASSUME Typed, InsertMissing, Unchanged(job.rev), NEW f, f = JobSource,
         NEW s \in Times, s \in job.batch
  PROVE  Filled(f, s)'
<1> DEFINE r == [query |-> JobSource, by |-> "repair"]
           free(t) == t \in job.batch /\ SlotIsFree(JobSource, t)
           u == [t \in Times |-> IF free(t) THEN r ELSE rows[JobSource][t]]
<1>0. [Next]_vars
  BY DEF Next
<1>1. job.rev \in Policies /\ f \in Sources /\ RowsTyped
  BY JobSourceIsKnown DEF Typed, TrainingTyped, InsertMissing
<1>2. s \in Nat /\ SlotOf(s) = s /\ Interval \in Nat \ {0}
  BY TimesAreNat, InferenceAssumption DEF Typed, TrainingTyped
<1>3. CASE SlotIsFree(f, s)
  <2>1. r \in Row
    BY <1>1 DEF Row
  <2>2. rows' = [rows EXCEPT ![JobSource] = u]
    BY DEF InsertMissing
  <2>3. u[s] = r
    BY <1>3
  <2> HIDE DEF u, r
  <2>4. rows'[f] = u
    BY <1>1, <2>2 DEF RowsTyped
  <2>5. s \in Stored(f)'
    BY <2>1, <2>3, <2>4, SampleAssumption DEF Stored
  <2> QED BY <1>2, <2>5 DEF Filled
<1>4. CASE ~SlotIsFree(f, s)
  <2>1. PICK v \in Times : v \in s .. s + Interval - 1 /\ rows[f][v] # NoRow
    BY <1>4 DEF SlotIsFree
  <2>2. v \in Nat /\ s <= v /\ v < s + Interval
    BY <1>2, <2>1, TimesAreNat
  <2>3. v \in Stored(f) /\ SlotOf(v) = s
    BY <1>2, <2>1, <2>2, SlotWithin DEF Stored
  <2>4. Filled(f, s)
    BY <2>3 DEF Filled
  <2> QED BY <1>0, <1>1, <2>4, FilledStays
<1> QED BY <1>3, <1>4

\* The transaction of a repair passes no missing slot of its window.
LEMMA InsertPassesNothing ==
  ASSUME Typed, SpansKnown, InsertMissing, NEW f \in Sources, NEW t \in Times,
         NEW u \in Stored(f)', u \notin Stored(f), SlotOf(u) > SlotOf(t)
  PROVE  Filled(f, SlotOf(t))' \/ Aged(t)'
<1> DEFINE s == SlotOf(t)
<1>0. [Next]_vars
  BY DEF Next
<1>1. u \in Times /\ f = JobSource /\ u \in job.batch
  <2>1. u \in Times /\ rows'[f][u] # NoRow /\ rows[f][u] = NoRow
    BY DEF Stored
  <2> QED BY <2>1, InsertEffect
<1>2. /\ SlotOf(u) = u /\ u < job.end /\ u \in Nat /\ s \in Nat /\ s < u
      /\ job.end \in Nat /\ job.end <= now /\ SlotOf(job.end) = job.end
      /\ Window \in Nat /\ Window <= job.end /\ t \in Nat /\ SlotOf(s) = s
  BY <1>1, TimesAreNat, SlotBounds, SlotOfSlot, WindowIsSlot
     DEF InsertMissing, Typed, TrainingTyped, JobType
<1> HIDE DEF s
<1>3. CASE s < job.end - Window
  <2>1. now' = now /\ now \in Nat
    BY TimesAreNat DEF InsertMissing, Typed, BoundsTyped
  <2>2. job.end <= SlotOf(now) /\ SlotOf(now) \in Nat
    BY <1>2, <2>1, SlotsOrdered, SlotBounds
  <2>3. SlotOf(t) < SlotOf(now) - Window
    BY <1>2, <1>3, <2>2 DEF s
  <2> QED BY <2>1, <2>3 DEF Aged
<1>4. CASE ~(s < job.end - Window)
  <2>1. s \in ClosedSlots(job.end)
    BY <1>2, <1>4 DEF ClosedSlots
  <2>2. s \in job.batch \/ Filled(f, s)
    BY <1>1, <1>2, <2>1 DEF SpansKnown, InsertMissing
  <2>3. s \in Times
    BY <1>2, <2>1, ClosedSlotsArePast DEF Typed, BoundsTyped
  <2>4. CASE Filled(f, s)
    BY <1>0, <2>3, <2>4, FilledStays DEF s
  <2>5. CASE s \in job.batch
    <3>1. Unchanged(job.rev)
      BY <1>1 DEF InsertMissing, Stored
    <3>2. Filled(f, s)'
      BY <1>1, <2>3, <2>5, <3>1, InsertFills
    <3> QED BY <3>2 DEF s
  <2> QED BY <2>2, <2>4, <2>5
<1> QED BY <1>3, <1>4

\* A plan has spans for all that is missing.
LEMMA PlanCovers ==
  ASSUME NEW end \in Nat, Window <= end, end <= now, now \in Times,
         NEW missing \in SUBSET ClosedSlots(end)
  PROVE  /\ \A s \in missing : \E span \in Plan(missing, end) : s \in span
         /\ \A span \in Plan(missing, end) :
                span # {} /\ span \subseteq ClosedSlots(end)
<1>1. /\ missing \subseteq Nat /\ MaxTime \in Nat /\ \A s \in missing : s <= MaxTime
      /\ ClosedSlots(end) \subseteq Nat
  BY ClosedSlotsArePast, TimesAreNat, WindowIsSlot
<1>2. CASE Plan(missing, end) = MissingRuns(missing)
  <2> DEFINE run(s) == {u \in missing : /\ FirstOf(missing, u) = FirstOf(missing, s)
                                        /\ Piece(missing, u) = Piece(missing, s)}
  <2>1. MissingRuns(missing) = {run(s) : s \in missing}
    BY DEF MissingRuns
  <2>2. \A s \in missing : s \in run(s) /\ run(s) \subseteq missing
    OBVIOUS
  <2> HIDE DEF run
  <2> QED BY <1>2, <2>1, <2>2
<1>3. CASE Plan(missing, end) = Shards(missing, end)
  <2> DEFINE shard(s) == (s - (end - Window)) \div (Interval * MaxSpan)
             lost(s)  == {u \in missing : shard(u) = shard(s)}
             span(s)  == {u \in ClosedSlots(end) : Min(lost(s)) <= u /\ u <= Max(lost(s))}
  <2>1. Shards(missing, end) = {span(s) : s \in missing}
    BY DEF Shards
  <2>2. ASSUME NEW s \in missing PROVE s \in span(s) /\ span(s) \subseteq ClosedSlots(end)
    <3>1. s \in lost(s) /\ lost(s) \subseteq missing
      OBVIOUS
    <3> DEFINE l == lost(s)
    <3>2. s \in l /\ l \subseteq Nat /\ \A x \in l : x <= MaxTime
      BY <1>1, <3>1
    <3> HIDE DEF l
    <3>3. Min(l) <= s
      BY <3>2, Smallest
    <3>4. s <= Max(l)
      BY <1>1, <3>2, Largest
    <3> QED BY <3>3, <3>4 DEF l
  <2> HIDE DEF span
  <2> QED BY <1>3, <2>1, <2>2
<1> QED BY <1>2, <1>3 DEF Plan

\* Of two slots the later one is whole intervals after the earlier.
LEMMA SlotsAligned ==
  ASSUME NEW s \in Nat, NEW m \in Nat, SlotOf(s) = s, SlotOf(m) = m, m <= s
  PROVE  (s - m) % Interval = 0
<1> DEFINE a == s \div Interval
           b == m \div Interval
           d == s - m
           q == d \div Interval
           r == d % Interval
<1>1. /\ a \in Nat /\ b \in Nat /\ Interval \in Nat \ {0} /\ d \in Nat
      /\ s = Interval * a /\ m = Interval * b
  BY Division, InferenceAssumption DEF SlotOf
<1>2. q \in Nat /\ r \in 0 .. Interval - 1 /\ d = Interval * q + r
  <2>1. ASSUME NEW i \in Nat \ {0}, NEW v \in Nat
        PROVE  v \div i \in Nat /\ v % i \in 0 .. i - 1 /\ v = i * (v \div i) + (v % i)
    OBVIOUS
  <2> QED BY <1>1, <2>1
<1>3. d = s - m
  OBVIOUS
<1> HIDE DEF a, b, d, q, r
<1> DEFINE c == q + b
<1>4. c \in Nat /\ Interval * c = Interval * q + Interval * b
  BY <1>1, <1>2
<1>5. s = Interval * c + r
  BY <1>1, <1>2, <1>3, <1>4
<1> HIDE DEF c
<1>6. Interval * a \in Nat /\ Interval * c \in Nat
  BY <1>1, <1>4
<1>7. ~(c < a)
  <2>1. SUFFICES ASSUME c < a PROVE FALSE
    OBVIOUS
  <2>2. Interval * c + Interval <= Interval * a
    BY <1>1, <1>4, <2>1, Multiples
  <2> QED BY <1>1, <1>2, <1>5, <1>6, <2>2
<1>8. ~(a < c)
  <2>1. SUFFICES ASSUME a < c PROVE FALSE
    OBVIOUS
  <2>2. Interval * a + Interval <= Interval * c
    BY <1>1, <1>4, <2>1, Multiples
  <2> QED BY <1>1, <1>2, <1>5, <1>6, <2>2
<1>9. a = c
  BY <1>1, <1>4, <1>7, <1>8
<1>10. r = 0
  BY <1>1, <1>2, <1>5, <1>6, <1>9
<1> QED BY <1>10 DEF r, d

\* A range query asks every slot between two slots, and what it does not find
\* the source has lost.
LEMMA RangeFinds ==
  ASSUME NEW a \in Nat, NEW b \in Nat, NEW s \in Nat, SlotOf(a) = a, SlotOf(s) = s,
         a <= s, s <= b, NEW f
  PROVE  s \in RangeQuery(a, b) \/ Filled(f, s)
<1>1. s \in Asked(a, b)
  BY SlotsAligned DEF Asked
<1>2. s \in s .. s + Interval - 1
  BY InferenceAssumption
<1> QED BY <1>1, <1>2 DEF RangeQuery, Filled

\* Whatever a query leaves out of its batch and of the plan is filled.
LEMMA SpansQueried ==
  ASSUME Typed, SpansKnown, QuerySpan, NEW f \in Sources, f = JobSource
  PROVE  SpansKnown'
<1> DEFINE span  == CHOOSE s \in job.todo : \A u \in job.todo : Min(s) <= Min(u)
           found == RangeQuery(Min(span), Max(span))
           batch == found \cap job.missing
           rest  == job.todo \ {span}
<1>0. [Next]_vars
  BY DEF Next
<1>1. /\ job.pc = "query" /\ UNCHANGED rows
      /\ \/ job' = NoTraining
         \/ batch = {} /\ job' = NextSpan(rest)
         \/ job' = [job EXCEPT !.pc = "insert", !.todo = rest, !.batch = batch]
  BY Zenon DEF QuerySpan
<1>2. /\ \A b \in job.todo : b # {} /\ b \subseteq Nat /\ \A x \in b : x <= MaxTime /\ SlotOf(x) = x
      /\ job.missing \subseteq Nat /\ \A x \in job.missing : SlotOf(x) = x
      /\ MaxTime \in Nat
  <2>1. \A t \in ClosedSlots(job.end) : t \in Times /\ SlotOf(t) = t
    BY <1>1, ClosedSlotsArePast, TimesAreNat DEF Typed, TrainingTyped, BoundsTyped, JobType
  <2>2. \A b \in job.todo : b # {} /\ b \subseteq ClosedSlots(job.end)
    BY <1>1 DEF SpansKnown
  <2>3. job.missing \subseteq Times /\ \A x \in job.missing : SlotOf(x) = x
    BY DEF Typed, TrainingTyped, JobType
  <2> QED BY <2>1, <2>2, <2>3, TimesAreNat, WindowIsSlot
<1>3. ASSUME NEW b \in job.todo
      PROVE  Min(b) \in b /\ Max(b) \in b /\ \A x \in b : Min(b) <= x /\ x <= Max(b)
  <2>1. b \subseteq Nat /\ b # {} /\ \A x \in b : x <= MaxTime
    BY <1>2
  <2> QED BY <1>2, <2>1, Smallest, Largest
<1>4. ASSUME NEW b \in job.todo
      PROVE  span \in job.todo /\ \A u \in job.todo : Min(span) <= Min(u)
  <2> DEFINE mins == {Min(u) : u \in job.todo}
  <2>1. mins \subseteq Nat /\ mins # {}
    BY <1>2, <1>3
  <2>2. Min(mins) \in mins /\ \A y \in mins : Min(mins) <= y
    <3> HIDE DEF mins
    <3> QED BY <2>1, Smallest
  <2>3. \E u \in job.todo : \A v \in job.todo : Min(u) <= Min(v)
    BY <2>2
  <2> QED BY <2>3
<1>5. ASSUME NEW s \in job.missing, NEW b \in job.todo, s <= Max(span), s \in b
      PROVE  s \in batch \/ Filled(f, s)
  <2>1. span \in job.todo /\ Min(span) <= Min(b)
    BY <1>4, <1>5
  <2>2. /\ Min(span) \in Nat /\ Max(span) \in Nat /\ s \in Nat /\ Min(b) \in Nat
        /\ SlotOf(Min(span)) = Min(span) /\ SlotOf(s) = s /\ Min(b) <= s
    BY <1>2, <1>3, <1>5, <2>1
  <2>3. Min(span) <= s
    BY <2>1, <2>2
  <2> HIDE DEF span
  <2>4. s \in found \/ Filled(f, s)
    BY <1>5, <2>2, <2>3, RangeFinds
  <2> QED BY <2>4
<1>6. \A s \in job.missing : \/ Filled(f, s) \/ \E b \in job.todo : s \in b
  BY <1>1 DEF SpansKnown
<1>7. ASSUME NEW s \in job.missing
      PROVE  s \in batch \/ Filled(f, s) \/ \E b \in rest : s \in b
  <2>1. CASE Filled(f, s)
    BY <2>1
  <2>2. ASSUME NEW b \in job.todo, s \in b, b # span
        PROVE  \E c \in rest : s \in c
    BY <2>2
  <2>3. ASSUME span \in job.todo, s \in span
        PROVE  s \in batch \/ Filled(f, s)
    <3>1. s <= Max(span)
      BY <1>3, <2>3
    <3> QED BY <1>5, <2>3, <3>1
  <2> QED BY <1>6, <2>1, <2>2, <2>3
<1>8. ASSUME NEW u \in batch, NEW s \in job.missing, s < u
      PROVE  s \in batch \/ Filled(f, s)
  <2>1. CASE Filled(f, s)
    BY <2>1
  <2>2. ASSUME NEW b \in job.todo, s \in b
        PROVE  s \in batch \/ Filled(f, s)
    <3>1. span \in job.todo
      BY <1>4
    <3>2. Max(span) \in Nat /\ Min(span) \in Nat
      BY <1>2, <1>3, <3>1
    <3> HIDE DEF span
    <3>3. u \in Nat /\ u <= Max(span)
      BY <3>2 DEF RangeQuery, Asked
    <3>4. s <= Max(span)
      BY <1>2, <1>8, <3>2, <3>3
    <3> QED BY <1>5, <2>2, <3>4
  <2> QED BY <1>6, <2>1, <2>2
<1>9. batch \subseteq job.missing /\ rest \subseteq job.todo
  OBVIOUS
<1> HIDE DEF batch, rest
<1>10. CASE job' = NoTraining
  BY <1>10 DEF NoTraining, SpansKnown
<1>11. CASE ~(job' = NoTraining)
  <2>1. \A s \in job.missing : \/ s \in batch \/ Filled(f, s)
                               \/ \E b \in rest : s \in b
    BY <1>7
  <2>2. \A u \in batch, s \in job.missing : s < u => s \in batch \/ Filled(f, s)
    BY <1>8
  <2>3. \/ batch = {} /\ job' = NextSpan(rest)
        \/ job' = [job EXCEPT !.pc = "insert", !.todo = rest, !.batch = batch]
    BY <1>1, <1>11
  <2>4. /\ job \in JobType /\ job.rev \in Policies
        /\ ClosedSlots(job.end) \subseteq Times /\ job.missing \subseteq Times
    BY <1>1, ClosedSlotsArePast, TimesAreNat
       DEF Typed, TrainingTyped, BoundsTyped, JobType
  <2>5. CASE job'.pc = "recheck"
    BY <2>5 DEF SpansKnown
  <2>6. CASE job'.pc # "recheck"
    <3>1. /\ job'.pc \in {"query", "insert"} /\ job'.end = job.end
          /\ job'.rev = job.rev /\ job'.missing = job.missing
          /\ job'.todo = rest /\ job'.batch = batch
          /\ job'.pc = "query" => batch = {}
      BY <2>3, <2>4, <2>6, <1>1 DEF JobType, NextSpan
    <3>2. \A s \in Times : Filled(f, s) => Filled(f, s)'
      BY <1>0, FilledStays
    <3>3. ClosedSlots(job.end)' = ClosedSlots(job.end) /\ JobSource' = f
      BY <3>1 DEF ClosedSlots, JobSource
    <3>4. \A s \in ClosedSlots(job.end) \ job.missing : Filled(f, s)
      BY <1>1 DEF SpansKnown
    <3>5. \A b \in job.todo : b # {} /\ b \subseteq ClosedSlots(job.end)
      BY <1>1 DEF SpansKnown
    <3> QED BY <1>9, <2>1, <2>2, <2>4, <3>1, <3>2, <3>3, <3>4, <3>5 DEF SpansKnown
  <2> QED BY <2>5, <2>6
<1> QED BY <1>10, <1>11

LEMMA SpansChecked ==
  ASSUME Typed, SpansKnown, CheckHistory, NEW f \in Sources, f = JobSource
  PROVE  SpansKnown'
<1> DEFINE missing == MissingSlots(JobSource, job.end)
           plan == Plan(missing, job.end)
<1>1. /\ job.pc = "check" /\ job.batch = {} /\ UNCHANGED <<rows, hole>>
      /\ \/ job' = NoTraining
         \/ JobTo("load")
         \/ job' = [job EXCEPT !.pc = "query", !.missing = missing, !.todo = plan]
  BY DEF CheckHistory, JobEnds, SpansKnown
<1>2. job \in JobType /\ job.end \in Nat /\ Window <= job.end /\ job.end <= now /\ now \in Times
  BY <1>1, TimesAreNat DEF Typed, TrainingTyped, BoundsTyped, JobType
<1>3. missing \in SUBSET ClosedSlots(job.end)
  BY DEF MissingSlots
<1>4. /\ \A s \in missing : \E b \in plan : s \in b
      /\ \A b \in plan : b # {} /\ b \subseteq ClosedSlots(job.end)
  BY <1>2, <1>3, PlanCovers
<1>5. \A s \in ClosedSlots(job.end) \ missing : \E t \in Stored(JobSource) : SlotOf(t) = s
  BY DEF MissingSlots
<1> HIDE DEF missing, plan
<1>6. CASE job' = NoTraining
  BY <1>6 DEF NoTraining, SpansKnown
<1>7. CASE JobTo("load")
  BY <1>2, <1>7 DEF JobType, JobTo, SpansKnown
<1>8. CASE job' = [job EXCEPT !.pc = "query", !.missing = missing, !.todo = plan]
  <2>1. /\ job'.pc = "query" /\ job'.end = job.end /\ job'.rev = job.rev
        /\ job'.missing = missing /\ job'.todo = plan /\ job'.batch = {}
    BY <1>1, <1>2, <1>8 DEF JobType
  <2>2. ClosedSlots(job.end)' = ClosedSlots(job.end)
    BY <2>1 DEF ClosedSlots
  <2>3. JobSource' = f /\ Stored(f)' = Stored(f)
    BY <1>1, <2>1 DEF Stored, JobSource
  <2>4. \A s \in ClosedSlots(job.end) \ missing : Filled(f, s)'
    BY <1>5, <2>3 DEF Filled
  <2> QED BY <2>3, <1>4, <2>1, <2>2, <2>4 DEF SpansKnown
<1> QED BY <1>1, <1>6, <1>7, <1>8

LEMMA SpansInserted ==
  ASSUME Typed, SpansKnown, InsertMissing, NEW f \in Sources, f = JobSource
  PROVE  SpansKnown'
<1>1. job.pc = "insert" /\ job \in JobType /\ job.rev \in Policies /\ JobSource \in Sources
      /\ ClosedSlots(job.end) \subseteq Times /\ job.missing \subseteq Times
      /\ job.batch \subseteq Times
  BY ClosedSlotsArePast, TimesAreNat, JobSourceIsKnown
     DEF InsertMissing, Typed, TrainingTyped, BoundsTyped, JobType
<1>2. [Next]_vars
  BY DEF Next
<1>3. CASE job' = NoTraining
  BY <1>3 DEF NoTraining, SpansKnown
<1>4. CASE Unchanged(job.rev) /\ job' = NextSpan(job.todo)
  <2>1. CASE job.todo = {}
    BY <1>1, <1>4, <2>1 DEF NextSpan, JobType, SpansKnown
  <2>2. CASE job.todo # {}
    <3>1. /\ job'.pc = "query" /\ job'.end = job.end /\ job'.rev = job.rev
          /\ job'.missing = job.missing /\ job'.todo = job.todo /\ job'.batch = {}
      BY <1>1, <1>4, <2>2 DEF NextSpan, JobType
    <3>2. ClosedSlots(job.end)' = ClosedSlots(job.end)
      BY <3>1 DEF ClosedSlots
    <3>3. JobSource' = f
      BY <3>1 DEF JobSource
    <3>4. \A s \in Times : Filled(f, s) => Filled(f, s)'
      BY <1>1, <1>2, FilledStays
    <3>5. \A s \in job.batch : Filled(f, s)'
      BY <1>1, <1>4, InsertFills
    <3>6. /\ \A s \in ClosedSlots(job.end) \ job.missing : Filled(f, s)
          /\ \A b \in job.todo : b # {} /\ b \subseteq ClosedSlots(job.end)
          /\ \A s \in job.missing : \/ s \in job.batch \/ Filled(f, s)
                                    \/ \E b \in job.todo : s \in b
      BY <1>1 DEF SpansKnown
    <3> QED BY <1>1, <3>1, <3>2, <3>3, <3>4, <3>5, <3>6 DEF SpansKnown
  <2> QED BY <2>1, <2>2
<1> QED BY <1>3, <1>4 DEF InsertMissing, JobEnds

LEMMA SpansStep ==
  ASSUME Typed, SpansKnown, [Next]_vars
  PROVE  SpansKnown'
<1>1. job.pc # "idle" => \E f \in Sources : f = JobSource
  BY JobSourceIsKnown DEF Typed, TrainingTyped
<1>2. CASE UNCHANGED job
  <2>1. ClosedSlots(job.end)' = ClosedSlots(job.end) /\ JobSource' = JobSource
    BY <1>2 DEF ClosedSlots, JobSource
  <2>2. \A f \in Sources, s \in Times : Filled(f, s) => Filled(f, s)'
    BY FilledStays
  <2>3. job.pc # "idle" =>
            ClosedSlots(job.end) \subseteq Times /\ job.missing \subseteq Times
    BY ClosedSlotsArePast, TimesAreNat
       DEF Typed, TrainingTyped, BoundsTyped, JobType
  <2> QED BY <1>2, <2>1, <2>2, <2>3 DEF SpansKnown
<1>3. CASE CheckHistory
  <2>1. PICK f \in Sources : f = JobSource
    BY <1>1, <1>3 DEF CheckHistory
  <2> QED BY <1>3, <2>1, SpansChecked
<1>4. CASE QuerySpan
  <2>1. PICK f \in Sources : f = JobSource
    BY <1>1, <1>4 DEF QuerySpan
  <2> QED BY <1>4, <2>1, SpansQueried
<1>5. CASE InsertMissing
  <2>1. PICK f \in Sources : f = JobSource
    BY <1>1, <1>5 DEF InsertMissing
  <2> QED BY <1>5, <2>1, SpansInserted
<1>6. CASE StartTraining
  BY <1>6 DEF StartTraining, NoTraining, SpansKnown
<1>7. CASE Recheck \/ Load \/ TrainingFails
  <2>1. job \in JobType
    BY DEF Typed, TrainingTyped
  <2> DEFINE seg == TrainingSegment(InWindow(job.end), hole.negative)
  <2>2. \/ job' = NoTraining \/ JobTo("load")
        \/ job' = [job EXCEPT !.pc = "fitting", !.used = seg]
    BY <1>7 DEF Recheck, Load, TrainingFails, JobEnds
  <2> HIDE DEF seg
  <2>3. job' = NoTraining => job'.pc = "idle"
    BY DEF NoTraining
  <2>4. JobTo("load") => job'.pc = "load"
    BY <2>1 DEF JobType, JobTo
  <2>5. job' = [job EXCEPT !.pc = "fitting", !.used = seg] => job'.pc = "fitting"
    BY <2>1 DEF JobType
  <2> QED BY <2>2, <2>3, <2>4, <2>5 DEF SpansKnown
<1>8. CASE ~UNCHANGED job
  <2>1. StartTraining \/ CheckHistory \/ QuerySpan \/ InsertMissing \/ Recheck \/ Load
        \/ TrainingFails
    BY <1>8 DEF Next, vars, Tick, Edit, StartRound, Bootstrap, Fill, BootstrapFails,
       Sample, SampleFails, Recover, Refill, RecoveryFails, Save, SaveFails, Restart
  <2> QED BY <2>1, <1>3, <1>4, <1>5, <1>6, <1>7
<1> QED BY <1>2, <1>8

\* What a step that is not the sampler's own writing keeps.
LEMMA QuietSteps ==
  ASSUME Typed, SpansKnown, [Next]_vars, UNCHANGED rows \/ InsertMissing
  PROVE  \A f \in Sources, t \in Times : NotPassed(f, t) => NotPassed(f, t)'
<1> SUFFICES ASSUME NEW f \in Sources, NEW t \in Times, NotPassed(f, t)
             PROVE  NotPassed(f, t)'
  OBVIOUS
<1>1. ASSUME NEW u \in Stored(f)'
      PROVE  \/ u \in Stored(f) \/ SlotOf(u) <= SlotOf(t)
             \/ Filled(f, SlotOf(t))' \/ Aged(t)'
  <2>1. CASE UNCHANGED rows
    BY <1>1, <2>1 DEF Stored
  <2>2. CASE InsertMissing
    <3>1. SlotOf(u) \in Nat /\ SlotOf(t) \in Nat
      BY <1>1, SlotBounds, TimesAreNat DEF Stored
    <3> QED BY <1>1, <2>2, <3>1, InsertPassesNothing
  <2> QED BY <2>1, <2>2
<1> QED BY <1>1, NotPassedStays

LEMMA FailuresWait ==
  ASSUME Typed, SpansKnown, FailuresKnown, [Next]_vars, UNCHANGED sampler,
         UNCHANGED rows \/ InsertMissing
  PROVE  FailuresKnown'
<1>1. \A f \in Sources, t \in Times : NotPassed(f, t) => NotPassed(f, t)'
  BY QuietSteps
<1>2. \A f \in Sources, t \in Times : Recovered(f, t) => Recovered(f, t)'
  BY FilledStays DEF Recovered
<1>3. /\ sampler.at \in Times /\ sampler.gap \subseteq Times
      /\ \A f \in Sources : sampler.failed[f] \subseteq Times
  BY DEF Typed, RoundTyped, SamplerType
<1>4. Source' = Source
  BY DEF Source
<1>5. ASSUME NEW f \in Sources, ThisRound(f) PROVE ThisRound(f)'
  BY <1>1, <1>2, <1>3, <1>5 DEF ThisRound, Due
<1> QED BY <1>1, <1>3, <1>4, <1>5 DEF FailuresKnown, Due

\* A recovery asks for a moment of each slot that it owes.
LEMMA RecoveryAsks ==
  ASSUME Typed, sampler.pc = "recover", NEW f \in Sources, f = Source,
         NEW t \in Times, Due(t), Due(sampler.at), t < sampler.at,
         NotPassed(f, t), ~Recovered(f, t)
  PROVE  /\ RecoveryQueries
         /\ \E u \in RangeQuery(MissingFrom, SlotOf(sampler.at)) : SlotOf(u) = SlotOf(t)
<1> DEFINE s == SlotOf(t)
           at == sampler.at
           m == MissingFrom
           obs == Covered(RecoveryOpens, SlotOf(at))
<1>1. /\ t \in Nat /\ at \in Nat /\ s \in Nat /\ SlotOf(at) \in Nat /\ SlotOf(s) = s
      /\ Interval \in Nat \ {0} /\ m \in Nat /\ s <= t /\ t < s + Interval
  <2>1. t \in Nat /\ at \in Nat
    BY TimesAreNat DEF Typed, RoundTyped, SamplerType
  <2>2. m \in Nat
    BY RoundQueries DEF Typed
  <2> QED BY <2>1, <2>2, SlotBounds, SlotOfSlot, InferenceAssumption
<1>2. s + Interval <= SlotOf(at)
  BY <1>1, DueApart, SlotsApart
<1>3. RecoveryOpens \in Int /\ RecoveryOpens <= s
  <2>1. RecoveryWindow \in Nat
    BY SampleAssumption, WindowIsSlot
  <2> QED BY <1>1, <2>1 DEF Recovered, RecoveryOpens
<1>4. ASSUME NEW u \in obs PROVE u \in Nat /\ u < s /\ u <= MaxTime
  <2>1. u \in Stored(f) /\ u \in Times
    BY DEF Covered, Stored
  <2>2. SlotOf(u) # s /\ ~(SlotOf(u) > s)
    BY <2>1 DEF Recovered, NotPassed, Filled
  <2>3. u \in Nat /\ SlotOf(u) \in Nat /\ u < SlotOf(u) + Interval /\ u <= MaxTime
    BY <2>1, TimesAreNat, SlotBounds
  <2>4. SlotOf(u) + Interval <= s
    BY <1>1, <2>2, <2>3, SlotsApart
  <2> QED BY <1>1, <2>3, <2>4
<1>5. m < s + Interval
  <2>1. m = IF obs # {} /\ Max(obs) > RecoveryOpens THEN Max(obs) + Interval
                                                    ELSE RecoveryOpens
    BY DEF MissingFrom, RecoveryStart
  <2> HIDE DEF obs
  <2>2. obs # {} => Max(obs) \in obs
    BY <1>4, Largest, WindowIsSlot
  <2>3. obs # {} => Max(obs) \in Nat /\ Max(obs) < s
    BY <1>4, <2>2
  <2> HIDE DEF m, s
  <2> QED BY <1>1, <1>3, <2>1, <2>3
<1> DEFINE e == s + Interval - 1 - m
           p == m + SlotOf(e)
<1> HIDE DEF s, at, m
<1>6. e \in Nat
  BY <1>1, <1>5
<1>7. SlotOf(e) \in Nat /\ SlotOf(e) <= e /\ e < SlotOf(e) + Interval
  BY <1>6, SlotBounds
<1>8. s <= p /\ p < s + Interval /\ p \in Nat /\ m <= p
  BY <1>1, <1>5, <1>7
<1>9. (p - m) % Interval = 0
  <2>1. SlotOf(0) = 0
    BY SlotBounds
  <2> DEFINE d == SlotOf(e)
  <2>2. SlotOf(d) = d /\ d \in Nat
    BY <1>6, <1>7, SlotOfSlot
  <2>3. p - m = d - 0
    BY <1>1, <2>2
  <2> HIDE DEF d, p
  <2>4. (d - 0) % Interval = 0
    BY <2>1, <2>2, SlotsAligned
  <2> QED BY <2>3, <2>4
<1> HIDE DEF e, p
<1>10. p \in Asked(m, SlotOf(at)) /\ SlotOf(p) = s /\ m < SlotOf(at)
  <2>1. p <= SlotOf(at) /\ m < SlotOf(at)
    BY <1>1, <1>2, <1>5, <1>8
  <2>2. SlotOf(p) = s
    BY <1>1, <1>8, SlotWithin
  <2> QED BY <1>1, <1>8, <1>9, <2>1, <2>2 DEF Asked
<1>11. p \notin hole.none
  <2>1. p \in s .. s + Interval - 1
    BY <1>1, <1>8
  <2>2. ~Filled(f, s)
    BY DEF Recovered, s
  <2> QED BY <2>1, <2>2 DEF Filled
<1>12. p \in RangeQuery(m, SlotOf(at)) /\ SlotOf(p) = s /\ m < SlotOf(at)
  BY <1>10, <1>11 DEF RangeQuery
<1> QED BY <1>12 DEF RecoveryQueries, m, at, s

\* The steps of a round that write nothing.
LEMMA FailuresUnwritten ==
  ASSUME Typed, SpansKnown, FailuresKnown,
         \/ StartRound \/ Bootstrap \/ BootstrapFails \/ Sample \/ SampleFails
         \/ RecoveryFails \/ SaveFails \/ Restart
  PROVE  FailuresKnown'
<1>0. [Next]_vars /\ UNCHANGED <<rows, now, hole>>
  BY DEF Next, StartRound, Bootstrap, BootstrapFails, Sample, SampleFails,
     RecoveryFails, SaveFails, Restart
<1>1. \A f \in Sources, t \in Times : NotPassed(f, t) => NotPassed(f, t)'
  BY <1>0, QuietSteps
<1>2. /\ sampler \in SamplerType /\ sampler.at \in Nat /\ sampler.gap \subseteq Times
      /\ \A f \in Sources : sampler.failed[f] \subseteq Times
      /\ \A f \in Sources : \A t \in sampler.failed[f] : t \in Nat /\ t <= sampler.at
      /\ sampler.at \in Times /\ sampler.at <= now /\ now \in Nat /\ now \in Times
  BY TimesAreNat DEF Typed, RoundTyped, BoundsTyped, SamplerType, FailuresKnown
<1>3. sampler.pc # "idle" => /\ sampler.rev \in Policies /\ Source \in Sources
                             /\ ThisRound(Source)
  BY SourceIsKnown DEF Typed, RoundTyped, FailuresKnown
<1>4. CASE StartRound
  <2>1. policy \in Policies /\ sampler.at < now
    BY <1>4 DEF Typed, BoundsTyped, StartRound
  <2>2. PICK pc \in {"bootstrap", "sample"} :
          /\ sampler' = [sampler EXCEPT !.pc = pc, !.at = now, !.rev = policy]
          /\ pc = "bootstrap" => SourceOf[policy] \notin sampler.bootstrapped
          /\ pc = "sample" => SourceOf[policy] \in sampler.bootstrapped /\ Due(now)
    BY <1>4 DEF StartRound, Sampling
  <2>3. /\ sampler'.pc = pc /\ sampler'.at = now /\ sampler'.rev = policy
        /\ sampler'.failed = sampler.failed
        /\ sampler'.bootstrapped = sampler.bootstrapped
    BY <1>2, <2>2 DEF SamplerType
  <2>4. ASSUME NEW f \in Sources PROVE NotPassed(f, now)'
    <3>1. ASSUME NEW u \in Stored(f) PROVE ~(SlotOf(u) > SlotOf(now))
      <4>1. u \in Nat /\ u <= now
        BY <3>1, TimesAreNat DEF Typed, RowsTyped, Stored
      <4> QED BY <1>2, <4>1, SlotsOrdered, SlotBounds
    <3>2. Stored(f)' = Stored(f) /\ now' = now
      BY <1>0 DEF Stored
    <3> QED BY <3>1, <3>2 DEF NotPassed
  <2>5. ASSUME NEW f \in Sources, f = SourceOf[policy] PROVE ThisRound(f)'
    <3>1. pc = "bootstrap" => sampler.failed[f] = {}
      BY <2>2, <2>5 DEF FailuresKnown
    <3>2. \A t \in sampler.failed[f] : t < now
      BY <1>2, <2>1
    <3>3. PICK a \in Times : a = now
      BY <1>2
    <3>4. NotPassed(f, a)' /\ sampler'.at = a
      BY <1>0, <2>3, <2>4, <3>3
    <3> QED BY <2>2, <2>3, <2>5, <3>1, <3>2, <3>3, <3>4 DEF ThisRound, Due
  <2>6. Source' = SourceOf[policy]
    BY <2>3 DEF Source
  <2>7. \A f \in Sources : \A t \in sampler.failed[f] :
            t <= now /\ Due(t) /\ NotPassed(f, t)'
    BY <1>1, <1>2, <2>1 DEF FailuresKnown
  <2> QED BY <2>3, <2>5, <2>6, <2>7 DEF FailuresKnown, Due
<1>5. CASE Bootstrap
  <2> DEFINE batch == RangeQuery(BootstrapStart, BootstrapEnd)
             seen == sampler.bootstrapped \cup {Source}
  <2>1. /\ sampler.pc = "bootstrap"
        /\ \/ sampler' = [sampler EXCEPT !.pc = Sampling(sampler.at), !.bootstrapped = seen]
           \/ sampler' = [sampler EXCEPT !.pc = "fill", !.batch = batch]
    BY <1>5 DEF Bootstrap
  <2>2. \A u \in batch : u <= sampler.at
    <3>1. BootstrapStart \in Nat /\ BootstrapEnd \in Nat /\ BootstrapEnd <= sampler.at
      BY <1>2, <2>1, RoundQueries, SlotBounds DEF Typed, BootstrapEnd
    <3> QED BY <1>2, <3>1 DEF RangeQuery, Asked
  <2> HIDE DEF batch
  <2>3. Sampling(sampler.at) \in {"sample", "idle"}
        /\ (Sampling(sampler.at) = "sample" => Due(sampler.at))
    BY DEF Sampling
  <2> DEFINE go == Sampling(sampler.at)
  <2> HIDE DEF go, seen
  <2>4. /\ sampler'.at = sampler.at /\ sampler'.rev = sampler.rev
        /\ sampler'.failed = sampler.failed
        /\ \/ sampler'.pc = go /\ sampler'.bootstrapped = seen
           \/ /\ sampler'.pc = "fill" /\ sampler'.bootstrapped = sampler.bootstrapped
              /\ sampler'.batch = batch
    BY <1>2, <2>1 DEF SamplerType, go
  <2>5. ASSUME NEW f \in Sources, f = Source PROVE ThisRound(f)'
    <3>1. sampler.failed[f] = {} /\ NotPassed(f, sampler.at)
      BY <1>3, <2>1, <2>5 DEF ThisRound, FailuresKnown
    <3>2. NotPassed(f, sampler.at)'
      BY <1>0, <1>2, <2>4, <3>1 DEF NotPassed, Filled, Aged, Stored
    <3> QED BY <2>2, <2>3, <2>4, <2>5, <3>1, <3>2 DEF ThisRound, Due, go, seen
  <2>6. Source' = Source
    BY <2>4 DEF Source
  <2>7. \A f \in Sources : \A t \in sampler.failed[f] :
            t <= sampler.at /\ Due(t) /\ NotPassed(f, t)'
    BY <1>1, <1>2 DEF FailuresKnown
  <2>8. \A f \in Sources : f \notin sampler'.bootstrapped => sampler.failed[f] = {}
    BY <2>4 DEF FailuresKnown, seen
  <2> QED BY <2>4, <2>5, <2>6, <2>7, <2>8 DEF FailuresKnown, Due
<1>6. CASE BootstrapFails \/ SaveFails
  <2>1. EndRound
    BY <1>6 DEF BootstrapFails, SaveFails
  <2>2. /\ sampler'.pc = "idle" /\ sampler'.at = sampler.at
        /\ sampler'.failed = sampler.failed
        /\ sampler'.bootstrapped = sampler.bootstrapped
    BY <1>2, <2>1 DEF SamplerType, EndRound
  <2> QED BY <1>1, <1>2, <2>2 DEF FailuresKnown, Due
<1>7. CASE Sample
  <2>1. Source \in Sources /\ sampler.pc = "sample"
    BY <1>3, <1>7 DEF Sample
  <2>2. /\ sampler'.pc \in {"save", "recover"}
        /\ sampler'.pc = "save" => sampler.failed[Source] = {}
        /\ sampler'.at = sampler.at /\ sampler'.rev = sampler.rev
        /\ sampler'.bootstrapped = sampler.bootstrapped
        /\ sampler'.gap = sampler.failed[Source]
        /\ sampler'.failed[Source] = {}
        /\ \A f \in Sources : f # Source => sampler'.failed[f] = sampler.failed[f]
    BY <1>2, <1>7, <2>1 DEF SamplerType, Sample
  <2>3. Source' = Source
    BY <2>2 DEF Source
  <2>4. ASSUME NEW f \in Sources, f = Source PROVE ThisRound(f)'
    <3>1. /\ Due(sampler.at) /\ f \in sampler.bootstrapped
          /\ \A t \in sampler.failed[f] : t < sampler.at
      BY <1>3, <2>1, <2>4 DEF ThisRound
    <3>2. \A t \in sampler.failed[f] : Due(t) /\ NotPassed(f, t)'
      BY <1>1, <1>2 DEF FailuresKnown
    <3> QED BY <2>2, <2>4, <3>1, <3>2 DEF ThisRound, Due
  <2>5. \A f \in Sources : \A t \in sampler'.failed[f] :
            t <= sampler.at /\ Due(t) /\ NotPassed(f, t)'
    BY <1>1, <1>2, <2>2 DEF FailuresKnown
  <2>6. \A f \in Sources : f \notin sampler'.bootstrapped => sampler'.failed[f] = {}
    BY <2>2 DEF FailuresKnown
  <2> QED BY <2>2, <2>3, <2>4, <2>5, <2>6 DEF FailuresKnown, Due
<1>8. CASE SampleFails
  <2>1. Source \in Sources /\ sampler.pc = "sample"
    BY <1>3, <1>8 DEF SampleFails
  <2>2. /\ sampler'.pc = "idle" /\ sampler'.at = sampler.at
        /\ sampler'.bootstrapped = sampler.bootstrapped
        /\ sampler'.failed[Source] = sampler.failed[Source] \cup {sampler.at}
        /\ \A f \in Sources : f # Source => sampler'.failed[f] = sampler.failed[f]
    BY <1>2, <1>8, <2>1 DEF SamplerType, SampleFails
  <2>3. PICK g \in Sources : g = Source
    BY <2>1
  <2>4. Due(sampler.at) /\ g \in sampler.bootstrapped /\ NotPassed(g, sampler.at)
    BY <1>3, <2>1, <2>3 DEF ThisRound
  <2>5. PICK a \in Times : a = sampler.at
    BY <1>2
  <2>6. NotPassed(g, a)'
    BY <1>1, <2>4, <2>5
  <2>7. \A f \in Sources : \A t \in sampler'.failed[f] :
            t <= sampler.at /\ Due(t) /\ NotPassed(f, t)'
    <3>1. \A f \in Sources : \A t \in sampler.failed[f] :
            t <= sampler.at /\ Due(t) /\ NotPassed(f, t)'
      BY <1>1, <1>2 DEF FailuresKnown
    <3>2. a <= sampler.at /\ Due(a) /\ NotPassed(g, a)'
      BY <1>2, <2>4, <2>5, <2>6
    <3> QED BY <2>2, <2>3, <2>5, <3>1, <3>2
  <2>8. \A f \in Sources : f \notin sampler'.bootstrapped => sampler'.failed[f] = {}
    BY <2>2, <2>3, <2>4 DEF FailuresKnown
  <2> QED BY <2>2, <2>7, <2>8 DEF FailuresKnown, Due
<1>9. CASE RecoveryFails
  <2>1. sampler.pc \in {"recover", "refill"}
        /\ sampler' = [sampler EXCEPT !.pc = "save", !.batch = {}, !.gap = {}]
    BY <1>9 DEF RecoveryFails
  <2>2. /\ sampler'.pc = "save" /\ sampler'.at = sampler.at /\ sampler'.rev = sampler.rev
        /\ sampler'.failed = sampler.failed /\ sampler'.gap = {}
        /\ sampler'.bootstrapped = sampler.bootstrapped
    BY <1>2, <2>1 DEF SamplerType
  <2>3. Source' = Source
    BY <2>2 DEF Source
  <2>4. ASSUME NEW f \in Sources, f = Source PROVE ThisRound(f)'
    BY <1>3, <2>1, <2>2, <2>4 DEF ThisRound, Due, FailuresKnown
  <2> QED BY <1>1, <1>2, <2>2, <2>3, <2>4 DEF FailuresKnown, Due
<1>10. CASE Restart
  <2>1. sampler'.pc = "idle" /\ \A f \in Sources : sampler'.failed[f] = {}
    BY <1>10 DEF Restart, Booted
  <2> QED BY <2>1 DEF FailuresKnown
<1> QED BY <1>4, <1>5, <1>6, <1>7, <1>8, <1>9, <1>10

\* A recovery that asks nothing, or finds nothing, owes nothing.
LEMMA FailuresAsked ==
  ASSUME Typed, SpansKnown, FailuresKnown, Recover
  PROVE  FailuresKnown'
<1> DEFINE batch == RangeQuery(MissingFrom, SlotOf(sampler.at))
<1>0. [Next]_vars /\ UNCHANGED <<rows, now, hole>>
  BY DEF Next, Recover
<1>1. \A f \in Sources, t \in Times : NotPassed(f, t) => NotPassed(f, t)'
  BY <1>0, QuietSteps
<1>2. /\ sampler \in SamplerType /\ sampler.gap \subseteq Times
      /\ \A f \in Sources : sampler.failed[f] \subseteq Times
      /\ sampler.pc = "recover" /\ Source \in Sources
  BY SourceIsKnown DEF Typed, RoundTyped, SamplerType, Recover
<1>3. \/ /\ RecoveryQueries => batch = {}
         /\ sampler' = [sampler EXCEPT !.pc = "save", !.batch = {}]
      \/ sampler' = [sampler EXCEPT !.pc = "refill", !.batch = batch]
  BY DEF Recover, Then
<1>4. ASSUME NEW f \in Sources, f = Source, NEW t \in sampler.gap
      PROVE  \/ Recovered(f, t)
             \/ RecoveryQueries /\ \E u \in batch : SlotOf(u) = SlotOf(t)
  <2>1. /\ Due(t) /\ t < sampler.at /\ Due(sampler.at) /\ NotPassed(f, t)
        /\ t \in Times
    BY <1>2, <1>4 DEF FailuresKnown, ThisRound
  <2> QED BY <1>2, <1>4, <2>1, RecoveryAsks
<1> HIDE DEF batch
<1>5. /\ sampler'.at = sampler.at /\ sampler'.rev = sampler.rev
      /\ sampler'.failed = sampler.failed /\ sampler'.gap = sampler.gap
      /\ sampler'.bootstrapped = sampler.bootstrapped
      /\ \/ sampler'.pc = "save" /\ (RecoveryQueries => batch = {})
         \/ sampler'.pc = "refill" /\ sampler'.batch = batch
  BY <1>2, <1>3 DEF SamplerType
<1>6. Source' = Source
  BY <1>5 DEF Source
<1>7. \A f \in Sources, t \in Times : Recovered(f, t) => Recovered(f, t)'
  BY <1>0, <1>5, FilledStays DEF Recovered
<1>8. ASSUME NEW f \in Sources, f = Source PROVE ThisRound(f)'
  <2>1. /\ Due(sampler.at) /\ f \in sampler.bootstrapped /\ sampler.failed[f] = {}
        /\ \A t \in sampler.gap : Due(t) /\ t < sampler.at
    BY <1>2, <1>8 DEF FailuresKnown, ThisRound
  <2>2. \A t \in sampler.gap :
            \/ Recovered(f, t)'
            \/ RecoveryQueries /\ \E u \in batch : SlotOf(u) = SlotOf(t)
    BY <1>2, <1>4, <1>7, <1>8
  <2> QED BY <1>5, <2>1, <2>2 DEF ThisRound, Due
<1> QED BY <1>1, <1>2, <1>5, <1>6, <1>8 DEF FailuresKnown, Due

\* The steps of a round that write.
LEMMA FailuresWritten ==
  ASSUME Typed, SpansKnown, FailuresKnown, Fill \/ Refill \/ Save
  PROVE  FailuresKnown'
<1>0. [Next]_vars /\ UNCHANGED <<now, hole>>
  BY DEF Next, Fill, Refill, Save
<1>1. /\ sampler \in SamplerType /\ sampler.gap \subseteq Times
      /\ sampler.batch \subseteq Times /\ sampler.at \in Times
      /\ \A f \in Sources : sampler.failed[f] \subseteq Times
      /\ sampler.pc \in {"fill", "refill", "save"}
      /\ sampler.rev \in Policies /\ Source \in Sources
  BY SourceIsKnown DEF Typed, RoundTyped, SamplerType, Fill, Refill, Save
<1>2. ASSUME NEW f \in Sources, f # Source, NEW t \in Times, NotPassed(f, t)
      PROVE  NotPassed(f, t)'
  <2>1. Upsert(sampler.batch, "range") \/ Upsert({sampler.at}, "live")
    BY DEF Fill, Refill, Save
  <2>2. \A u \in Times : rows'[f][u] = rows[f][u]
    BY <1>1, <1>2, <2>1, UpsertEffect DEF Typed
  <2>3. Stored(f)' = Stored(f)
    BY <2>2 DEF Stored
  <2> QED BY <1>0, <1>2, <2>3, NotPassedStays
<1>3. ThisRound(Source) /\ sampler.failed[Source] = {}
  BY <1>1 DEF FailuresKnown, ThisRound
<1>4. \A f \in Sources : \A t \in sampler.failed[f] :
          t <= sampler.at /\ Due(t) /\ NotPassed(f, t)'
  BY <1>1, <1>2, <1>3 DEF FailuresKnown
<1>5. CASE Save
  <2>1. /\ sampler'.pc = "idle" /\ sampler'.at = sampler.at
        /\ sampler'.failed = sampler.failed
        /\ sampler'.bootstrapped = sampler.bootstrapped
    BY <1>1, <1>5 DEF SamplerType, Save, EndRound
  <2> QED BY <1>4, <2>1 DEF FailuresKnown, Due
<1>6. CASE Fill
  <2> DEFINE seen == sampler.bootstrapped \cup {Source}
             go == Sampling(sampler.at)
  <2>1. go \in {"sample", "idle"} /\ (go = "sample" => Due(sampler.at))
    BY DEF Sampling
  <2>2. /\ sampler.pc = "fill" /\ Upsert(sampler.batch, "range")
        /\ sampler' = [sampler EXCEPT !.pc = go, !.batch = {}, !.bootstrapped = seen]
    BY <1>6 DEF Fill
  <2> HIDE DEF go, seen
  <2>3. /\ sampler'.pc = go /\ sampler'.at = sampler.at /\ sampler'.rev = sampler.rev
        /\ sampler'.failed = sampler.failed /\ sampler'.bootstrapped = seen
    BY <1>1, <2>2 DEF SamplerType
  <2>4. Source' = Source
    BY <2>3 DEF Source
  <2>5. ASSUME NEW f \in Sources, f = Source, NEW a \in Times, a = sampler.at
        PROVE  NotPassed(f, a)'
    <3>1. NotPassed(f, a) /\ \A u \in sampler.batch : u <= a
      BY <1>3, <2>2, <2>5 DEF ThisRound
    <3>2. ASSUME NEW u \in Stored(f)', u \notin Stored(f) PROVE SlotOf(u) <= SlotOf(a)
      <4>1. u \in Times /\ u \in sampler.batch
        <5>1. u \in Times /\ rows'[f][u] # rows[f][u]
          BY <3>2 DEF Stored
        <5> QED BY <1>1, <2>2, <5>1, UpsertEffect DEF Typed
      <4> QED BY <3>1, <4>1, SlotsOrdered, TimesAreNat
    <3> QED BY <1>0, <3>1, <3>2, NotPassedStays
  <2>6. ASSUME NEW f \in Sources, f = Source PROVE ThisRound(f)'
    <3>1. PICK a \in Times : a = sampler.at
      BY <1>1
    <3>2. NotPassed(f, a)' /\ sampler'.at = a
      BY <2>3, <2>5, <2>6, <3>1
    <3> QED BY <1>3, <2>1, <2>3, <2>6, <3>1, <3>2 DEF ThisRound, Due, seen
  <2>7. \A f \in Sources : f \notin sampler'.bootstrapped => sampler.failed[f] = {}
    BY <2>3 DEF FailuresKnown, seen
  <2> QED BY <1>4, <2>3, <2>4, <2>6, <2>7 DEF FailuresKnown, Due
<1>7. CASE Refill
  <2>1. /\ sampler.pc = "refill" /\ Upsert(sampler.batch, "range")
        /\ sampler' = [sampler EXCEPT !.pc = "save", !.batch = {}]
    BY <1>7 DEF Refill, Then
  <2>2. /\ sampler'.pc = "save" /\ sampler'.at = sampler.at /\ sampler'.rev = sampler.rev
        /\ sampler'.failed = sampler.failed /\ sampler'.gap = sampler.gap
        /\ sampler'.bootstrapped = sampler.bootstrapped
    BY <1>1, <2>1 DEF SamplerType
  <2>3. Source' = Source
    BY <2>2 DEF Source
  <2>4. \A f \in Sources, t \in Times : Recovered(f, t) => Recovered(f, t)'
    BY <1>0, <2>2, FilledStays DEF Recovered
  <2>5. ASSUME NEW f \in Sources, f = Source, NEW u \in sampler.batch
        PROVE  u \in Stored(f)'
    <3> DEFINE r == [query |-> Source, by |-> "range"]
               w == [t \in Times |-> IF t \in sampler.batch THEN r ELSE rows[Source][t]]
    <3>1. rows' = [rows EXCEPT ![Source] = w]
      BY <2>1 DEF Upsert, Fingerprint
    <3>2. u \in Times /\ w[u] = r
      BY <1>1, <2>5
    <3>3. r # NoRow
      BY <1>1, SampleAssumption DEF Row
    <3> HIDE DEF r, w
    <3>4. rows'[f] = w
      BY <1>1, <2>5, <3>1 DEF Typed, RowsTyped
    <3> QED BY <3>2, <3>3, <3>4 DEF Stored
  <2>6. ASSUME NEW f \in Sources, f = Source, NEW t \in sampler.gap
        PROVE  Recovered(f, t)'
    <3>1. CASE Recovered(f, t)
      BY <1>1, <2>4, <2>6, <3>1
    <3>2. ASSUME NEW u \in sampler.batch, SlotOf(u) = SlotOf(t) PROVE Recovered(f, t)'
      BY <2>5, <2>6, <3>2 DEF Recovered, Filled
    <3> QED BY <1>3, <2>1, <2>6, <3>1, <3>2 DEF ThisRound
  <2>7. ASSUME NEW f \in Sources, f = Source PROVE ThisRound(f)'
    BY <1>3, <2>1, <2>2, <2>6, <2>7 DEF ThisRound, Due
  <2> QED BY <1>4, <2>2, <2>3, <2>7 DEF FailuresKnown, Due
<1> QED BY <1>5, <1>6, <1>7

LEMMA FailuresStep ==
  ASSUME Typed, SpansKnown, FailuresKnown, [Next]_vars
  PROVE  FailuresKnown'
<1>1. CASE UNCHANGED sampler /\ (UNCHANGED rows \/ InsertMissing)
  BY <1>1, FailuresWait
<1>2. CASE ~(UNCHANGED sampler /\ (UNCHANGED rows \/ InsertMissing))
  <2>1. \/ StartRound \/ Bootstrap \/ BootstrapFails \/ Sample \/ SampleFails
        \/ RecoveryFails \/ SaveFails \/ Restart \/ Recover \/ Fill \/ Refill \/ Save
    BY <1>2 DEF Next, vars, Tick, Edit, StartTraining, CheckHistory, QuerySpan,
       InsertMissing, Recheck, Load, TrainingFails
  <2> QED BY <2>1, FailuresUnwritten, FailuresAsked, FailuresWritten
<1> QED BY <1>1, <1>2

LEMMA InitialFailures == ASSUME Init PROVE SpansKnown /\ FailuresKnown
<1>1. job.pc = "idle" /\ sampler.pc = "idle" /\ \A f \in Sources : sampler.failed[f] = {}
  BY DEF Init, NoTraining, Booted
<1> QED BY <1>1 DEF SpansKnown, FailuresKnown

\* Once a recovery has succeeded, no slot of the recovery window in which a
\* live query failed is missing, unless the source has no data there or the
\* training window has left it behind (RecoverRecentHistory): wherever the last
\* observation lies, whoever wrote it, the failed slots are not before it.
THEOREM RecoveredFailures == Spec => []FailedSlotsAreRecovered
<1>1. ASSUME Typed, FailuresKnown PROVE FailedSlotsAreRecovered
  <2>1. SUFFICES ASSUME sampler.pc = "save", NEW t \in sampler.gap
                 PROVE  \/ SlotOf(t) < SlotOf(sampler.at) - RecoveryWindow
                        \/ SlotOf(t) < SlotOf(now) - Window
                        \/ (SlotOf(t) .. SlotOf(t) + Interval - 1) \cap hole.none # {}
                        \/ \E u \in Stored(Source) : SlotOf(u) = SlotOf(t)
    BY DEF FailedSlotsAreRecovered
  <2>2. PICK f \in Sources : f = Source
    BY <1>1, <2>1, SourceIsKnown DEF Typed, RoundTyped
  <2>3. Recovered(f, t)
    BY <1>1, <2>1, <2>2 DEF FailuresKnown, ThisRound
  <2> QED BY <2>2, <2>3 DEF Recovered, Aged, Filled
<1>2. Typed /\ SpansKnown /\ [Next]_vars => SpansKnown'
  BY SpansStep
<1>3. Typed /\ SpansKnown /\ FailuresKnown /\ [Next]_vars => FailuresKnown'
  BY FailuresStep
<1> QED BY <1>1, <1>2, <1>3, InitialFailures, AlwaysTyped, PTL DEF Spec

-----------------------------------------------------------------------------
(* Observations, estimates and gaps.                                         *)

LEMMA NewestOf ==
  ASSUME NEW S, IsFiniteSet(S), S \subseteq Int, NEW n \in Nat
  PROVE  /\ Newest(S, n) \subseteq S
         /\ \A t \in Newest(S, n), u \in S : u >= t => u \in Newest(S, n)
         /\ n <= Cardinality(S) => Cardinality(Newest(S, n)) = n
         /\ Cardinality(S) <= n => Newest(S, n) = S
<1>1. Newest(S, n) = First(Later(S), S, n)
  <2>1. \A t \in S : {u \in S : u > t} = {u \in S : <<u, t>> \in Later(S)}
    BY DEF Later
  <2> QED BY <2>1 DEF Newest, First
<1>2. Orders(Later(S), S)
  BY TimesAreOrdered
<1>3. /\ Newest(S, n) \subseteq S
      /\ n <= Cardinality(S) => Cardinality(Newest(S, n)) = n
      /\ Cardinality(S) <= n => Newest(S, n) = S
  BY <1>1, <1>2, FirstCount
<1>4. ASSUME NEW t \in Newest(S, n), NEW u \in S, u >= t PROVE u \in Newest(S, n)
  <2>1. u = t \/ <<u, t>> \in Later(S)
    <3>1. t \in S /\ t \in Int /\ u \in Int
      BY <1>3
    <3>2. u = t \/ u > t
      BY <1>4, <3>1
    <3>3. u > t => <<u, t>> \in Later(S)
      BY <3>1 DEF Later
    <3> QED BY <3>2, <3>3
  <2>2. \A x \in First(Later(S), S, n), y \in S :
            <<y, x>> \in Later(S) => y \in First(Later(S), S, n)
    BY <1>2, FirstAreFirst
  <2> QED BY <1>1, <2>1, <2>2
<1> QED BY <1>3, <1>4

LEMMA PreviousOf ==
  ASSUME NEW pts, IsFiniteSet(pts), pts \subseteq Int, NEW t \in Int,
         \E u \in pts : u < t
  PROVE  /\ Previous(pts, t) \in pts /\ Previous(pts, t) < t
         /\ \A u \in pts : u < t => u <= Previous(pts, t)
<1> DEFINE S == {u \in pts : u < t}
<1>1. S # {} /\ S \subseteq Int /\ S \subseteq pts
  OBVIOUS
<1>2. IsFiniteSet(S)
  BY <1>1, FS_Subset
<1> HIDE DEF S
<1>3. Max(S) \in S /\ \A u \in S : u <= Max(S)
  BY <1>1, <1>2, Extremes
<1> QED BY <1>3 DEF Previous, S

\* Moments up to some time are finitely many.
LEMMA FinitelyMany == ASSUME NEW n \in Nat, NEW S, S \subseteq 0 .. n
                      PROVE  IsFiniteSet(S) /\ S \subseteq Int /\ S \subseteq Nat
<1>1. IsFiniteSet(0 .. n)
  BY FS_Interval
<1>2. IsFiniteSet(S)
  BY <1>1, FS_Subset
<1>3. S \subseteq Int /\ S \subseteq Nat
  OBVIOUS
<1> QED BY <1>2, <1>3

\* Within a segment what precedes is as in all of the history, and a gap can be
\* bridged.
LEMMA SegmentHolds ==
  ASSUME NEW n \in Nat, NEW pts, pts \subseteq 0 .. n,
         NEW t \in Segment(pts), \E u \in Segment(pts) : u < t
  PROVE  /\ Previous(Segment(pts), t) = Previous(pts, t)
         /\ Previous(pts, t) \in Segment(pts) /\ Previous(pts, t) < t
         /\ \A u \in pts : u < t => u <= Previous(pts, t)
         /\ HasGap(Segment(pts), t) => Bridgeable(pts, t)
<1> DEFINE seg == Segment(pts)
           breaks == {b \in pts : HasGap(pts, b) /\ ~Bridgeable(pts, b)}
<1>1. seg = {u \in pts : \A b \in breaks : b <= u}
  BY DEF Segment
<1> HIDE DEF seg, breaks
<1>2. seg \subseteq pts /\ breaks \subseteq pts
  BY <1>1 DEF breaks
<1>3. /\ IsFiniteSet(pts) /\ pts \subseteq Int /\ IsFiniteSet(seg) /\ seg \subseteq Int
      /\ t \in pts /\ t \in seg
  BY <1>2, FinitelyMany, FS_Subset DEF seg
<1>4. PICK u \in seg : u < t
  BY DEF seg
<1> DEFINE p == Previous(pts, t)
           q == Previous(seg, t)
<1>5. p \in pts /\ p < t /\ \A v \in pts : v < t => v <= p
  BY <1>2, <1>3, <1>4, PreviousOf
<1>6. q \in seg /\ q < t /\ \A v \in seg : v < t => v <= q
  BY <1>3, <1>4, PreviousOf
<1> HIDE DEF p, q
<1>7. u <= p /\ u \in Int /\ p \in Int /\ q \in Int /\ t \in Int
  BY <1>2, <1>3, <1>4, <1>5, <1>6
<1>8. p \in seg
  <2>1. \A b \in breaks : b \in Int /\ b <= u
    BY <1>1, <1>2, <1>3
  <2>2. \A b \in breaks : b <= p
    BY <1>7, <2>1
  <2> QED BY <1>1, <1>5, <2>2
<1>9. p = q
  BY <1>2, <1>5, <1>6, <1>7, <1>8
<1>10. t \notin breaks
  BY <1>1, <1>4, <1>7
<1>11. HasGap(seg, t) => HasGap(pts, t)
  BY <1>2, <1>4, <1>9 DEF HasGap, Gap, p, q
<1>12. HasGap(seg, t) => Bridgeable(pts, t)
  BY <1>3, <1>10, <1>11 DEF breaks
<1> QED BY <1>5, <1>8, <1>9, <1>12 DEF p, q, seg

\* The estimates that a gap is filled with end just before the gap does.
LEMMA StepsFit ==
  ASSUME NEW gap \in Nat, 2 * gap >= 3 * Interval,
         4 * Distance(gap, Steps(gap) * Interval) <= Interval
  PROVE  /\ Steps(gap) \in Nat /\ Steps(gap) >= 2
         /\ (Steps(gap) - 1) * Interval < gap
         /\ 4 * (gap - (Steps(gap) - 1) * Interval) <= 5 * Interval
<1> DEFINE n == Steps(gap)
<1>1. Interval \in Nat \ {0} /\ 2 * Interval \in Nat \ {0} /\ 2 * gap + Interval \in Nat
  BY InferenceAssumption
<1>2. n \in Nat /\ 2 * gap + Interval < (2 * Interval) * n + 2 * Interval
  BY <1>1, Division DEF Steps
<1> HIDE DEF n
<1>3. n >= 2
  <2>1. n = 0 \/ n = 1 \/ n >= 2
    BY <1>2
  <2>2. n # 0
    BY <1>1, <1>2
  <2>3. n # 1
    BY <1>1, <1>2
  <2> QED BY <2>1, <2>2, <2>3
<1> DEFINE m == n * Interval
<1>4. m \in Nat /\ (n - 1) * Interval = m - Interval
  BY <1>1, <1>2
<1>5. 4 * Distance(gap, m) <= Interval
  BY DEF n
<1> HIDE DEF m
<1>6. m - Interval < gap /\ 4 * (gap - (m - Interval)) <= 5 * Interval
  BY <1>1, <1>4, <1>5 DEF Distance
<1> QED BY <1>2, <1>3, <1>4, <1>6 DEF n

\* The estimates of a gap lie in it, an interval apart from what precedes them.
LEMMA EstimatesOfGap ==
  ASSUME NEW n \in Nat, NEW pts, pts \subseteq 0 .. n,
         NEW t \in Segment(pts), HasGap(Segment(pts), t)
  PROVE  LET seg == Segment(pts)
             p   == Previous(pts, t)
             m   == Steps(t - p)
         IN  /\ p = Previous(seg, t) /\ p \in seg /\ p < t /\ t <= n
             /\ \A u \in pts : u < t => u <= p
             /\ 4 * (t - p) <= 4 * MaxGap + Interval
             /\ m \in Nat /\ m >= 2 /\ (m - 1) * Interval \in Nat
             /\ 4 * (t - (p + (m - 1) * Interval)) <= 5 * Interval
             /\ \A k \in 1 .. m - 1 :
                    /\ p + k * Interval \in Estimates(seg)
                    /\ p + k * Interval \in Nat
                    /\ p < p + k * Interval /\ p + k * Interval < t
<1> DEFINE seg == Segment(pts)
           p   == Previous(pts, t)
           m   == Steps(t - p)
<1>1. /\ p = Previous(seg, t) /\ p \in seg /\ p < t /\ Bridgeable(pts, t)
      /\ \A u \in pts : u < t => u <= p
  BY SegmentHolds DEF HasGap
<1>2. seg \subseteq pts /\ t \in 0 .. n /\ p \in 0 .. n
  BY <1>1 DEF Segment
<1>3. t - p \in Nat /\ 2 * (t - p) >= 3 * Interval
  <2>1. Gap(seg, t) = t - p
    BY <1>1 DEF Gap
  <2>2. 2 * (t - p) >= 3 * Interval
    BY <2>1 DEF HasGap
  <2> QED BY <1>1, <1>2, <2>2
<1>4. /\ 4 * (t - p) <= 4 * MaxGap + Interval
      /\ 4 * Distance(t - p, m * Interval) <= Interval
  BY <1>1 DEF Bridgeable, Gap
<1>5. /\ m \in Nat /\ m >= 2 /\ (m - 1) * Interval < t - p
      /\ 4 * (t - p - (m - 1) * Interval) <= 5 * Interval
  BY <1>3, <1>4, StepsFit
<1>6. {p + k * Interval : k \in 1 .. m - 1} \subseteq Estimates(seg)
  <2>1. Gap(seg, t) = t - p /\ t \in {u \in seg : HasGap(seg, u)}
    BY <1>1 DEF Gap
  <2> QED BY <1>1, <2>1 DEF Estimates
<1> HIDE DEF seg, p, m
<1>7. Interval \in Nat \ {0} /\ (m - 1) * Interval \in Nat
  BY <1>5, InferenceAssumption
<1>8. ASSUME NEW k \in 1 .. m - 1
      PROVE  /\ p + k * Interval \in Estimates(seg)
             /\ p + k * Interval \in Nat
             /\ p < p + k * Interval /\ p + k * Interval < t
  <2>1. k * Interval \in Nat /\ Interval <= k * Interval
    BY <1>5, <1>7
  <2>2. k * Interval <= (m - 1) * Interval
    <3>1. k = m - 1 \/ k < m - 1
      BY <1>5
    <3>2. CASE k < m - 1
      <4>1. Interval * k + Interval <= Interval * (m - 1)
        <5>1. k \in Nat /\ m - 1 \in Nat
          BY <1>5
        <5> QED BY <1>7, <3>2, <5>1, Multiples
      <4>2. Interval * k = k * Interval /\ Interval * (m - 1) = (m - 1) * Interval
        BY <1>5, <1>7
      <4> QED BY <1>7, <2>1, <4>1, <4>2
    <3> QED BY <1>7, <3>1, <3>2
  <2>3. p + k * Interval \in Estimates(seg)
    BY <1>6
  <2> QED BY <1>2, <1>5, <1>7, <2>1, <2>2, <2>3
<1>9. 4 * (t - (p + (m - 1) * Interval)) <= 5 * Interval
  BY <1>2, <1>5, <1>7
<1> QED BY <1>1, <1>2, <1>4, <1>5, <1>7, <1>8, <1>9 DEF seg, p, m

LEMMA EstimateOf ==
  ASSUME NEW n \in Nat, NEW pts, pts \subseteq 0 .. n, NEW e \in Estimates(Segment(pts))
  PROVE  \E t \in Segment(pts) :
            /\ HasGap(Segment(pts), t)
            /\ \E k \in 1 .. Steps(t - Previous(pts, t)) - 1 :
                    e = Previous(pts, t) + k * Interval
<1> DEFINE seg == Segment(pts)
<1>1. PICK t \in seg : /\ HasGap(seg, t)
                       /\ e \in {Previous(seg, t) + k * Interval :
                                    k \in 1 .. Steps(Gap(seg, t)) - 1}
  BY DEF Estimates
<1>2. Previous(seg, t) = Previous(pts, t)
  BY <1>1, EstimatesOfGap
<1>3. Gap(seg, t) = t - Previous(pts, t)
  BY <1>2 DEF Gap
<1> QED BY <1>1, <1>2, <1>3

\* With the estimates no slot is missing before any input.
LEMMA NoGapIsLeft ==
  ASSUME NEW n \in Nat, NEW pts, pts \subseteq 0 .. n,
         NEW t \in Segment(pts) \cup Estimates(Segment(pts)),
         \E u \in Segment(pts) \cup Estimates(Segment(pts)) : u < t
  PROVE  \E v \in Segment(pts) \cup Estimates(Segment(pts)) :
            v < t /\ 2 * (t - v) < 3 * Interval
<1> DEFINE seg == Segment(pts)
           all == seg \cup Estimates(seg)
<1>1. Interval \in Nat \ {0} /\ seg \subseteq 0 .. n /\ seg \subseteq pts
  BY InferenceAssumption DEF Segment
<1>2. CASE t \in seg /\ HasGap(seg, t)
  <2> DEFINE p == Previous(pts, t)
             m == Steps(t - p)
             v == p + (m - 1) * Interval
  <2>1. /\ m \in Nat /\ m >= 2 /\ (m - 1) * Interval \in Nat /\ p \in seg
        /\ 4 * (t - v) <= 5 * Interval
        /\ \A k \in 1 .. m - 1 : p + k * Interval \in Estimates(seg)
                                  /\ p + k * Interval < t
    BY <1>2, EstimatesOfGap
  <2> HIDE DEF p, m
  <2>2. m - 1 \in 1 .. m - 1
    BY <2>1
  <2>3. v \in Estimates(seg) /\ v < t
    BY <2>1, <2>2
  <2>4. 2 * (t - v) < 3 * Interval
    <3>1. v \in Int /\ t \in Int
      BY <1>1, <1>2, <2>1
    <3> HIDE DEF v
    <3> QED BY <1>1, <2>1, <3>1
  <2> QED BY <2>3, <2>4
<1>3. CASE t \in seg /\ ~HasGap(seg, t)
  <2>1. \E u \in seg : u < t
    <3>1. PICK u \in all : u < t
      OBVIOUS
    <3>2. CASE u \in Estimates(seg)
      <4>1. PICK s \in seg : /\ HasGap(seg, s)
                             /\ \E k \in 1 .. Steps(s - Previous(pts, s)) - 1 :
                                    u = Previous(pts, s) + k * Interval
        BY <3>2, EstimateOf
      <4>2. Previous(pts, s) \in seg /\ Previous(pts, s) < u
        BY <4>1, EstimatesOfGap
      <4>3. u \in Nat
        BY <4>1, EstimatesOfGap
      <4>4. Previous(pts, s) < t
        BY <1>1, <1>3, <3>1, <4>2, <4>3
      <4> QED BY <4>2, <4>4
    <3> QED BY <3>1, <3>2
  <2>2. /\ Previous(seg, t) \in seg /\ Previous(seg, t) < t
    BY <1>3, <2>1, SegmentHolds
  <2>3. ~(2 * (t - Previous(seg, t)) >= 3 * Interval)
    BY <1>3, <2>1 DEF HasGap, Gap
  <2>4. 2 * (t - Previous(seg, t)) < 3 * Interval
    BY <1>1, <1>3, <2>2, <2>3
  <2> QED BY <2>2, <2>4
<1>4. CASE t \in Estimates(seg)
  <2>1. PICK s \in seg : /\ HasGap(seg, s)
                         /\ \E k \in 1 .. Steps(s - Previous(pts, s)) - 1 :
                                t = Previous(pts, s) + k * Interval
    BY <1>4, EstimateOf
  <2>2. PICK k \in 1 .. Steps(s - Previous(pts, s)) - 1 :
            t = Previous(pts, s) + k * Interval
    BY <2>1
  <2> DEFINE p == Previous(pts, s)
             m == Steps(s - p)
             v == p + (k - 1) * Interval
  <2>3. /\ m \in Nat /\ p \in seg
        /\ \A j \in 1 .. m - 1 : p + j * Interval \in Estimates(seg)
    BY <2>1, EstimatesOfGap
  <2>4. k \in Nat /\ p \in Nat /\ (k - 1) * Interval = k * Interval - Interval
        /\ k * Interval \in Nat
    BY <1>1, <2>3
  <2>5. v \in all
    <3>1. CASE k = 1
      BY <1>1, <2>3, <2>4, <3>1
    <3>2. CASE k # 1
      <4>1. k - 1 \in 1 .. m - 1
        BY <2>3, <3>2
      <4> QED BY <2>3, <4>1
    <3> QED BY <3>1, <3>2
  <2>6. v < t /\ 2 * (t - v) < 3 * Interval
    BY <1>1, <2>2, <2>4
  <2> QED BY <2>5, <2>6
<1> QED BY <1>2, <1>3, <1>4

LEMMA EstimatesLie ==
  ASSUME NEW n \in Nat, NEW pts, pts \subseteq 0 .. n
  PROVE  Estimates(Segment(pts)) \subseteq 0 .. n /\ Segment(pts) \subseteq pts
<1>1. ASSUME NEW e \in Estimates(Segment(pts)) PROVE e \in 0 .. n
  <2>1. PICK t \in Segment(pts) :
            /\ HasGap(Segment(pts), t)
            /\ \E k \in 1 .. Steps(t - Previous(pts, t)) - 1 :
                    e = Previous(pts, t) + k * Interval
    BY EstimateOf
  <2>2. e \in Nat /\ e < t /\ t <= n
    BY <2>1, EstimatesOfGap
  <2>3. t \in Int
    BY DEF Segment
  <2> QED BY <2>2, <2>3
<1> QED BY <1>1 DEF Segment

\* Different slots count as often as their moments.
LEMMA SlotsCount ==
  ASSUME NEW T, IsFiniteSet(T), \A t, u \in T : SlotOf(t) = SlotOf(u) => t = u
  PROVE  /\ IsFiniteSet({SlotOf(t) : t \in T})
         /\ Cardinality({SlotOf(t) : t \in T}) = Cardinality(T)
<1> DEFINE f == [t \in T |-> SlotOf(t)]
           V == {SlotOf(t) : t \in T}
<1>1. V = ImageOf(f, T)
  BY DEF ImageOf
<1>2. \A t, u \in T : f[t] = f[u] => t = u
  OBVIOUS
<1> HIDE DEF f, V
<1>3. IsFiniteSet(V) /\ Cardinality(V) = Cardinality(T)
  BY <1>1, <1>2, Images
<1> QED BY <1>3 DEF V

LEMMA InputLengthIsNat == InputLength \in Nat
<1>1. Lookback \in Nat /\ MinimumSamples \in Nat /\ Season \in Nat
  BY InferenceAssumption
<1>2. Minimum \in Nat
  BY <1>1 DEF Minimum
<1>3. {Lookback, Minimum} \subseteq Int /\ IsFiniteSet({Lookback, Minimum})
  <2>1. IsFiniteSet({Lookback} \cup {Minimum})
    BY FS_Singleton, FS_AddElement
  <2>2. {Lookback} \cup {Minimum} = {Lookback, Minimum}
    OBVIOUS
  <2> QED BY <1>1, <1>2, <2>1, <2>2
<1>4. Max({Lookback, Minimum}) \in {Lookback, Minimum}
  BY <1>3, Extremes
<1> QED BY <1>1, <1>2, <1>4 DEF InputLength

\* What is prepared are observations of a segment and estimates between them,
\* the newest ones if the length is fixed.
LEMMA PreparedParts ==
  ASSUME NEW n \in Nat, NEW obs, obs \subseteq 0 .. n, NEW bad
  PROVE  LET p     == Prepared(obs, bad)
             pts   == LatestPerSlot(InReach(obs))
             all   == Segment(pts) \cup Estimates(Segment(pts))
             input == p.real \cup p.estimated
         IN  /\ pts \subseteq obs /\ all \subseteq 0 .. n /\ input \subseteq all
             /\ \A t \in input, u \in all : u >= t => u \in input
             /\ p.real \subseteq Segment(pts) /\ p.estimated \subseteq Estimates(Segment(pts))
             /\ p.ok => pts \cap bad = {} /\ Reliable(input, p.estimated)
<1> DEFINE p     == Prepared(obs, bad)
           pts   == LatestPerSlot(InReach(obs))
           seg   == Segment(pts)
           all   == seg \cup Estimates(seg)
           taken == IF InputLength = 0 THEN all ELSE Newest(all, InputLength)
<1>1. pts \subseteq obs
  BY DEF LatestPerSlot, InReach
<1>2. seg \subseteq 0 .. n /\ all \subseteq 0 .. n
  <2>1. pts \subseteq 0 .. n
    BY <1>1
  <2> HIDE DEF pts
  <2> QED BY <2>1, EstimatesLie
<1>3. /\ p.real = taken \cap seg /\ p.estimated = taken \ seg
      /\ p.ok = (pts \cap bad = {} /\ Reliable(taken, taken \ seg))
  BY DEF Prepared
<1>4. taken \subseteq all /\ \A t \in taken, u \in all : u >= t => u \in taken
  <2>1. IsFiniteSet(all) /\ all \subseteq Int
    BY <1>2, FinitelyMany
  <2>2. InputLength \in Nat
    BY InputLengthIsNat
  <2> HIDE DEF all
  <2> QED BY <2>1, <2>2, NewestOf
<1> HIDE DEF p, pts, seg, all, taken
<1>5. p.real \cup p.estimated = taken
  BY <1>3
<1>6. p.estimated \subseteq Estimates(seg) /\ p.real \subseteq seg
  BY <1>3, <1>4 DEF all
<1> QED BY <1>1, <1>2, <1>3, <1>4, <1>5, <1>6 DEF p, pts, seg, all

LEMMA ReachIsPast ==
  ASSUME NEW n \in Nat, NEW obs, obs \subseteq 0 .. n
  PROVE  /\ InReach(obs) \subseteq 0 .. n /\ InReach(obs) \subseteq Nat
         /\ \A x \in InReach(obs) : x <= n
<1> DEFINE reach == InReach(obs)
<1>1. reach \subseteq obs
  BY DEF InReach
<1> HIDE DEF reach
<1>2. reach \subseteq 0 .. n /\ reach \subseteq Nat /\ \A x \in reach : x <= n
  BY <1>1
<1> QED BY <1>2 DEF reach

\* Of the history that is read, an observation between two that follow each
\* other is of the slot of the later one.
LEMMA NothingBetween ==
  ASSUME NEW n \in Nat, NEW obs, obs \subseteq 0 .. n
  PROVE  \A a, b \in LatestPerSlot(InReach(obs)) :
            (\A r \in LatestPerSlot(InReach(obs)) : r < b => r <= a)
                => \A u \in obs : a < u /\ u < b => SlotOf(u) = SlotOf(b)
<1> SUFFICES ASSUME NEW a \in LatestPerSlot(InReach(obs)),
                    NEW b \in LatestPerSlot(InReach(obs)),
                    \A r \in LatestPerSlot(InReach(obs)) : r < b => r <= a,
                    NEW u \in obs, a < u, u < b
             PROVE  SlotOf(u) = SlotOf(b)
  BY Zenon
<1> DEFINE reach == InReach(obs)
           pts   == LatestPerSlot(reach)
<1>1. reach \subseteq 0 .. n /\ reach \subseteq Nat /\ \A x \in reach : x <= n
  BY ReachIsPast
<1>2. a \in reach /\ b \in reach /\ a \in Nat /\ b \in Nat /\ u \in Nat
  BY <1>1 DEF LatestPerSlot
<1>3. u \in reach
  <2>1. CASE InputLength = 0 \/ obs = {}
    BY <2>1 DEF InReach
  <2>2. CASE ~(InputLength = 0 \/ obs = {})
    <3> DEFINE from == Max(obs) - (InputLength + 6) * Interval
    <3>1. reach = {t \in obs : t >= from}
      BY <2>2 DEF InReach
    <3> HIDE DEF from
    <3>2. Max(obs) \in obs
      <4>1. obs # {} /\ obs \subseteq Nat /\ \A x \in obs : x <= n
        BY <2>2
      <4> QED BY <4>1, Largest
    <3>3. from \in Int
      <4>1. InputLength \in Nat /\ Interval \in Nat /\ Max(obs) \in Nat
        <5>1. Max(obs) \in 0 .. n
          BY <3>2
        <5> QED BY <5>1, InputLengthIsNat, InferenceAssumption
      <4>2. \A x, y \in Int : x * y \in Int
        OBVIOUS
      <4>3. InputLength + 6 \in Int /\ Interval \in Int
        BY <4>1
      <4>4. (InputLength + 6) * Interval \in Int
        BY <4>2, <4>3, Zenon
      <4> QED BY <4>1, <4>4 DEF from
    <3> QED BY <1>2, <3>1, <3>3
  <2> QED BY <2>1, <2>2
<1>4. PICK r \in pts : SlotOf(r) = SlotOf(u)
  BY <1>1, <1>3, OnePerSlot
<1>5. u <= r /\ r \in Nat
  BY <1>1, <1>3, <1>4 DEF LatestPerSlot
<1>6. b <= r
  BY <1>2, <1>4, <1>5
<1>7. SlotOf(u) <= SlotOf(b) /\ SlotOf(b) <= SlotOf(r)
  BY <1>2, <1>5, <1>6, SlotsOrdered
<1> QED BY <1>2, <1>4, <1>5, <1>7, SlotBounds

\* Of an input that reaches back without a break, no two moments are more than
\* a slot apart.
LEMMA InputHasNoGap ==
  ASSUME NEW n \in Nat, NEW pts, pts \subseteq 0 .. n, NEW input,
         input \subseteq Segment(pts) \cup Estimates(Segment(pts)),
         \A t \in input, u \in Segment(pts) \cup Estimates(Segment(pts)) :
            u >= t => u \in input
  PROVE  \A t \in input : ~HasGap(input, t)
<1> DEFINE all == Segment(pts) \cup Estimates(Segment(pts))
<1>1. all \subseteq 0 .. n /\ input \subseteq 0 .. n
  BY EstimatesLie
<1>2. Interval \in Nat
  BY InferenceAssumption
<1>3. SUFFICES ASSUME NEW t \in input, NEW u \in input, u < t
               PROVE  2 * (t - Previous(input, t)) < 3 * Interval
  <2>1. ASSUME NEW t \in input, HasGap(input, t) PROVE FALSE
    <3>1. PICK u \in input : u < t
      BY <2>1 DEF HasGap
    <3>2. 2 * (t - Previous(input, t)) < 3 * Interval
      BY <1>3, <3>1
    <3>3. 2 * (t - Previous(input, t)) >= 3 * Interval
      BY <2>1 DEF HasGap, Gap
    <3>4. Previous(input, t) \in Int /\ t \in Int
      <4>1. IsFiniteSet(input) /\ input \subseteq Int
        BY <1>1, FinitelyMany
      <4> QED BY <3>1, <4>1, PreviousOf
    <3> QED BY <1>2, <3>2, <3>3, <3>4
  <2> QED BY <2>1
<1>4. PICK v \in all : v < t /\ 2 * (t - v) < 3 * Interval
  <2>1. t \in all /\ \E w \in all : w < t
    BY <1>3
  <2> QED BY <2>1, NoGapIsLeft
<1> DEFINE q == Previous(input, t)
<1>5. q \in input /\ q < t /\ \A w \in input : w < t => w <= q
  <2>1. IsFiniteSet(input) /\ input \subseteq Int
    BY <1>1, FinitelyMany
  <2>2. t \in Int
    BY <1>1
  <2> QED BY <1>3, <2>1, <2>2, PreviousOf
<1> HIDE DEF q
<1>6. t \in Int /\ u \in Int /\ v \in Int /\ q \in Int
  BY <1>1, <1>5
<1>7. v <= q
  <2>1. CASE v >= u
    BY <1>4, <1>5, <2>1
  <2>2. CASE v < u
    BY <1>3, <1>5, <1>6, <2>2
  <2> QED BY <1>6, <2>1, <2>2
<1>8. 2 * (t - q) < 3 * Interval
  BY <1>2, <1>4, <1>6, <1>7
<1> QED BY <1>8 DEF q

\* What bridging guarantees of an input that is not withheld, for any stored
\* observations: it has no gap and no negative value, an estimate lies in a short
\* gap with nothing observed in between but earlier in the slot that ends it,
\* and the newest two slots are observed.
LEMMA PreparedIsSound ==
  ASSUME NEW n \in Nat, NEW obs, obs \subseteq 0 .. n, NEW bad,
         Prepared(obs, bad).ok
  PROVE  LET p     == Prepared(obs, bad)
             input == p.real \cup p.estimated
         IN  /\ \A t \in input : ~HasGap(input, t)
             /\ p.real \cap bad = {}
             /\ \A e \in p.estimated : \E a, b \in obs :
                    /\ a < e /\ e < b /\ 4 * (b - a) <= 4 * MaxGap + Interval
                    /\ \A u \in obs : a < u /\ u < b => SlotOf(u) = SlotOf(b)
             /\ p.estimated # {} =>
                    /\ Newest(input, 2) \subseteq obs
                    /\ Cardinality({SlotOf(t) : t \in Newest(input, 2)}) = 2
<1> DEFINE p     == Prepared(obs, bad)
           pts   == LatestPerSlot(InReach(obs))
           seg   == Segment(pts)
           all   == seg \cup Estimates(seg)
           input == p.real \cup p.estimated
<1>1. /\ pts \subseteq obs /\ all \subseteq 0 .. n /\ input \subseteq all
      /\ \A t \in input, u \in all : u >= t => u \in input
      /\ p.real \subseteq seg /\ p.estimated \subseteq Estimates(seg)
      /\ pts \cap bad = {} /\ Reliable(input, p.estimated)
  BY PreparedParts
<1>2. pts \subseteq 0 .. n /\ seg \subseteq pts
  <2>1. pts \subseteq 0 .. n
    BY <1>1
  <2> HIDE DEF pts
  <2> QED BY <2>1, EstimatesLie
<1> HIDE DEF p
<1>3. \A t \in input : ~HasGap(input, t)
  <2> HIDE DEF pts, input
  <2> QED BY <1>1, <1>2, InputHasNoGap
<1>4. p.real \cap bad = {}
  BY <1>1, <1>2
<1>5. ASSUME NEW e \in p.estimated
      PROVE  \E a, b \in obs :
                /\ a < e /\ e < b /\ 4 * (b - a) <= 4 * MaxGap + Interval
                /\ \A u \in obs : a < u /\ u < b => SlotOf(u) = SlotOf(b)
  <2>1. PICK b \in seg : /\ HasGap(seg, b)
                         /\ \E k \in 1 .. Steps(b - Previous(pts, b)) - 1 :
                                e = Previous(pts, b) + k * Interval
    <3>1. e \in Estimates(seg)
      BY <1>1
    <3> HIDE DEF pts
    <3> QED BY <1>2, <3>1, EstimateOf
  <2> DEFINE a == Previous(pts, b)
  <2>2. /\ a \in seg /\ a < e /\ e < b /\ 4 * (b - a) <= 4 * MaxGap + Interval
        /\ \A r \in pts : r < b => r <= a
    <3> HIDE DEF pts
    <3> QED BY <1>2, <2>1, EstimatesOfGap
  <2> HIDE DEF a
  <2>3. a \in pts /\ b \in pts /\ a \in obs /\ b \in obs
    BY <1>1, <1>2, <2>1, <2>2
  <2>4. \A u \in obs : a < u /\ u < b => SlotOf(u) = SlotOf(b)
    <3>1. /\ a \in LatestPerSlot(InReach(obs)) /\ b \in LatestPerSlot(InReach(obs))
          /\ \A r \in LatestPerSlot(InReach(obs)) : r < b => r <= a
      BY <2>2, <2>3
    <3>2. PICK c \in LatestPerSlot(InReach(obs)) : c = a
      BY <3>1
    <3>3. ASSUME NEW u \in obs, c < u, u < b PROVE SlotOf(u) = SlotOf(b)
      <4>1. \A r \in LatestPerSlot(InReach(obs)) : r < b => r <= c
        BY <3>1, <3>2
      <4>2. b \in LatestPerSlot(InReach(obs))
        BY <3>1
      <4> HIDE DEF pts, seg
      <4>3. \A x, y \in LatestPerSlot(InReach(obs)) :
                (\A r \in LatestPerSlot(InReach(obs)) : r < y => r <= x)
                    => \A v \in obs : x < v /\ v < y => SlotOf(v) = SlotOf(y)
        BY NothingBetween, Zenon
      <4> QED BY <3>3, <4>1, <4>2, <4>3, Zenon
    <3> QED BY <3>2, <3>3
  <2> QED BY <2>2, <2>3, <2>4
<1>6. ASSUME p.estimated # {}
      PROVE  /\ Newest(input, 2) \subseteq obs
             /\ Cardinality({SlotOf(t) : t \in Newest(input, 2)}) = 2
  <2>1. Newest(input, 2) \cap p.estimated = {} /\ Cardinality(input) >= 2
    BY <1>1, <1>6 DEF Reliable, RealTail
  <2>2. IsFiniteSet(input) /\ input \subseteq Int /\ IsFiniteSet(Newest(input, 2))
        /\ Newest(input, 2) \subseteq input
    <3>1. input \subseteq 0 .. n
      BY <1>1
    <3> HIDE DEF input
    <3>2. IsFiniteSet(input) /\ input \subseteq Int
      BY <3>1, FinitelyMany
    <3>3. Newest(input, 2) \subseteq input
      BY DEF Newest
    <3> QED BY <3>2, <3>3, FS_Subset
  <2>3. Cardinality(Newest(input, 2)) = 2
    <3> HIDE DEF input
    <3>1. Cardinality(input) \in Nat
      BY <2>2, FS_CardinalityType
    <3> QED BY <2>1, <2>2, <3>1, NewestOf
  <2>4. Newest(input, 2) \subseteq pts
    BY <1>1, <1>2, <2>1, <2>2
  <2>5. \A t, u \in pts : SlotOf(t) = SlotOf(u) => t = u
    BY ReachIsPast, OnePerSlot
  <2> HIDE DEF input, pts
  <2>6. Cardinality({SlotOf(t) : t \in Newest(input, 2)}) = 2
    BY <2>2, <2>3, <2>4, <2>5, SlotsCount
  <2> QED BY <1>1, <2>4, <2>6
<1> QED BY <1>3, <1>4, <1>5, <1>6 DEF p

\* Without bridging no two inputs are more than two intervals apart.
LEMMA UnbridgedIsSound ==
  ASSUME NEW n \in Nat, NEW obs, obs \subseteq 0 .. n,
         NEW t \in Unbridged(obs).real
  PROVE  t = Min(Unbridged(obs).real) \/ Gap(obs, t) <= 2 * Interval
<1> DEFINE real == Unbridged(obs).real
           suffix == MostRecentContiguous(obs)
           breaks == {b \in obs : (\E u \in obs : u < b) /\ Gap(obs, b) > 2 * Interval}
<1>1. suffix = {u \in obs : \A b \in breaks : b <= u}
  BY DEF MostRecentContiguous
<1>2. real \subseteq suffix
  <2>1. Newest(suffix, InputLength) \subseteq suffix
    BY DEF Newest
  <2> QED BY <2>1 DEF Unbridged
<1>3. real \subseteq 0 .. n
  BY <1>1, <1>2
<1> HIDE DEF real, suffix, breaks
<1>4. Min(real) \in real /\ Min(real) <= t
  <2>1. IsFiniteSet(real) /\ real \subseteq Int /\ t \in real
    BY <1>3, FinitelyMany DEF real
  <2> QED BY <2>1, Extremes
<1>5. SUFFICES ASSUME t # Min(real) PROVE Gap(obs, t) <= 2 * Interval
  BY DEF real
<1>6. Min(real) < t /\ t \in obs /\ Min(real) \in obs /\ t \in 0 .. n /\ Min(real) \in 0 .. n
  BY <1>1, <1>2, <1>3, <1>4, <1>5 DEF real
<1>7. t \notin breaks
  <2>1. \A b \in breaks : b <= Min(real)
    BY <1>1, <1>2, <1>4
  <2> QED BY <1>6, <2>1
<1>8. Previous(obs, t) \in Int /\ Interval \in Nat
  <2>1. IsFiniteSet(obs) /\ obs \subseteq Int /\ t \in Int
    BY <1>6, FinitelyMany
  <2> QED BY <1>6, <2>1, PreviousOf, InferenceAssumption
<1>9. ~(Gap(obs, t) > 2 * Interval)
  BY <1>6, <1>7 DEF breaks
<1> QED BY <1>6, <1>8, <1>9 DEF Gap

\* The input of every forecast is sound while a workload is active, whatever
\* live rounds, recoveries and repairs have stored so far.
THEOREM SoundBridges == Spec => []BridgesAreSound
<1>1. BridgesAreSound
  <2> DEFINE obs   == ForecastRows
             bad   == hole.negative
             p     == ForecastInput(obs, bad, SlotOf(now), TRUE)
             plain == ForecastInput(obs, bad, SlotOf(now), FALSE)
  <2>1. obs \subseteq 0 .. MaxTime /\ MaxTime \in Nat
    BY SampleAssumption DEF ForecastRows, Stored, Times
  <2>2. /\ p.real = Prepared(obs, bad).real /\ p.estimated = Prepared(obs, bad).estimated
        /\ p.ok => Prepared(obs, bad).ok
    BY DEF ForecastInput, Prepared
  <2>3. plain.real = Unbridged(obs).real
    BY DEF ForecastInput, Unbridged
  <2> HIDE DEF obs, bad, p, plain
  <2>4. \A t \in plain.real : t = Min(plain.real) \/ Gap(obs, t) <= 2 * Interval
    BY <2>1, <2>3, UnbridgedIsSound
  <2> DEFINE input == p.real \cup p.estimated
  <2>5. p.ok =>
          /\ \A t \in input : ~HasGap(input, t)
          /\ p.real \cap bad = {}
          /\ \A e \in p.estimated : \E a, b \in obs :
                  /\ a < e /\ e < b /\ 4 * (b - a) <= 4 * MaxGap + Interval
                  /\ \A u \in obs : a < u /\ u < b => SlotOf(u) = SlotOf(b)
          /\ p.estimated # {} =>
                  /\ Newest(input, 2) \subseteq obs
                  /\ Cardinality({SlotOf(t) : t \in Newest(input, 2)}) = 2
    <3> DEFINE r == Prepared(obs, bad).real
               e == Prepared(obs, bad).estimated
               i == r \cup e
    <3>1. ASSUME p.ok
          PROVE  /\ \A t \in i : ~HasGap(i, t)
                 /\ r \cap bad = {}
                 /\ \A x \in e : \E a, b \in obs :
                         /\ a < x /\ x < b /\ 4 * (b - a) <= 4 * MaxGap + Interval
                         /\ \A u \in obs : a < u /\ u < b => SlotOf(u) = SlotOf(b)
                 /\ e # {} => /\ Newest(i, 2) \subseteq obs
                             /\ Cardinality({SlotOf(t) : t \in Newest(i, 2)}) = 2
      BY <2>1, <2>2, <3>1, PreparedIsSound
    <3>2. p.real = r /\ p.estimated = e /\ input = i
      BY <2>2
    <3> HIDE DEF r, e, i, input
    <3> QED BY <3>1, <3>2
  <2> QED BY <2>4, <2>5 DEF BridgesAreSound, obs, bad, p, plain
<1> QED BY <1>1, PTL

-----------------------------------------------------------------------------
(* Surges.                                                                   *)

LEMMA PartOfPast ==
  ASSUME NEW n \in Nat, NEW obs, obs \subseteq 0 .. n, NEW S, S \subseteq obs
  PROVE  /\ S \subseteq 0 .. n /\ S \subseteq Nat /\ S \subseteq Int
         /\ \A x \in S : x <= n
         /\ IsFiniteSet(S)
<1>1. S \subseteq 0 .. n
  OBVIOUS
<1>2. IsFiniteSet(S) /\ S \subseteq Int /\ S \subseteq Nat
  BY <1>1, FinitelyMany
<1>3. \A x \in S : x <= n
  BY <1>1
<1> QED BY <1>1, <1>2, <1>3

\* The observations that a surge is judged by: each but the first follows the
\* last observation of the slot before it, without an outage in between.
LEMMA SuffixFollows ==
  ASSUME NEW n \in Nat, NEW obs, obs \subseteq 0 .. n,
         NEW t \in RealContiguousSuffix(obs),
         \E u \in RealContiguousSuffix(obs) : u < t
  PROVE  LET pv     == Previous(RealContiguousSuffix(obs), t)
             before == {u \in obs : SlotOf(u) < SlotOf(t)}
         IN  pv \in obs /\ pv < t /\ Max(before) = pv /\ 2 * (t - pv) < 5 * Interval
<1> DEFINE suffix == RealContiguousSuffix(obs)
           breaks == {b \in obs : HasGap(obs, b)}
           raw    == {u \in obs : \A b \in breaks : b <= u}
           pv     == Previous(suffix, t)
           before == {u \in obs : SlotOf(u) < SlotOf(t)}
<1>1. suffix = LatestPerSlot(raw)
  BY DEF RealContiguousSuffix
<1>2. raw \subseteq obs /\ raw \subseteq Nat /\ \A x \in raw : x <= n
  <2>1. raw \subseteq obs
    OBVIOUS
  <2> HIDE DEF raw
  <2> QED BY <2>1, PartOfPast
<1>3. /\ suffix \subseteq raw /\ \A x \in raw : \E u \in suffix : SlotOf(u) = SlotOf(x)
      /\ \A x, u \in suffix : SlotOf(x) = SlotOf(u) => x = u
  <2> HIDE DEF raw, suffix
  <2> QED BY <1>1, <1>2, OnePerSlot
<1>4. \A r \in suffix, x \in raw : SlotOf(x) = SlotOf(r) => x <= r
  <2> HIDE DEF raw, suffix
  <2> QED BY <1>1 DEF LatestPerSlot
<1>5. breaks \subseteq obs /\ \A u \in raw, b \in breaks : b <= u
  OBVIOUS
<1>6. \A u \in obs : (\A b \in breaks : b <= u) => u \in raw
  OBVIOUS
<1>7. \A b \in obs : HasGap(obs, b) => b \in breaks
  OBVIOUS
<1> HIDE DEF suffix, breaks, raw
<1>8. t \in obs /\ t \in Nat /\ suffix \subseteq Nat /\ suffix \subseteq obs /\ t \in suffix
  BY <1>2, <1>3 DEF suffix
<1>9. pv \in suffix /\ pv < t /\ \A u \in suffix : u < t => u <= pv
  <2>1. suffix \subseteq 0 .. n
    BY <1>8
  <2>2. IsFiniteSet(suffix) /\ suffix \subseteq Int /\ t \in Int
    BY <1>8, <2>1, FinitelyMany
  <2> QED BY <2>2, PreviousOf DEF suffix
<1> HIDE DEF pv
<1>10. pv \in Nat /\ pv \in obs /\ pv \in raw
  BY <1>3, <1>8, <1>9
<1>11. pv \in before
  <2>1. SlotOf(pv) # SlotOf(t)
    BY <1>3, <1>8, <1>9
  <2>2. SlotOf(pv) <= SlotOf(t) /\ SlotOf(pv) \in Nat /\ SlotOf(t) \in Nat
    BY <1>8, <1>9, <1>10, SlotsOrdered, SlotBounds
  <2> QED BY <1>10, <2>1, <2>2
<1>12. ASSUME NEW u \in before PROVE u <= pv
  <2>1. u \in Nat /\ u \in obs /\ SlotOf(u) < SlotOf(t)
    OBVIOUS
  <2>2. SUFFICES ASSUME pv < u PROVE FALSE
    BY <1>10, <2>1
  <2>3. u \in raw
    <3>1. \A b \in breaks : b \in Nat /\ b <= pv
      BY <1>5, <1>10
    <3> QED BY <1>6, <1>10, <2>1, <2>2, <3>1
  <2>4. PICK r \in suffix : SlotOf(r) = SlotOf(u)
    BY <1>3, <2>3
  <2>5. u <= r /\ r \in Nat
    BY <1>4, <1>8, <2>3, <2>4
  <2>6. r < t
    <3>1. SUFFICES ASSUME t <= r PROVE FALSE
      BY <1>8, <2>5
    <3>2. SlotOf(t) <= SlotOf(r) /\ SlotOf(t) \in Nat /\ SlotOf(u) \in Nat
      BY <1>8, <2>1, <2>5, <3>1, SlotsOrdered, SlotBounds
    <3> QED BY <2>1, <2>4, <3>2
  <2> QED BY <1>9, <1>10, <2>1, <2>2, <2>4, <2>5, <2>6
<1>13. Max(before) = pv
  <2>1. before # {} /\ before \subseteq Nat /\ \A x \in before : x <= n
    <3>1. before \subseteq obs /\ before # {}
      BY <1>11
    <3> HIDE DEF before
    <3> QED BY <3>1, PartOfPast
  <2>2. before \subseteq Nat
    BY <2>1
  <2> HIDE DEF before
  <2>3. Max(before) \in before /\ \A y \in before : y <= Max(before)
    BY <2>1, Largest
  <2>4. Max(before) \in Nat /\ Max(before) <= pv /\ pv <= Max(before)
    BY <1>11, <1>12, <2>2, <2>3
  <2> QED BY <1>10, <2>4
<1> DEFINE next == Min({x \in obs : x > pv})
<1>14. next \in obs /\ next > pv /\ next <= t /\ \A x \in obs : x > pv => next <= x
  <2> DEFINE S == {x \in obs : x > pv}
  <2>1. t \in S /\ S \subseteq Nat
    <3>1. t \in S /\ S \subseteq obs
      BY <1>8, <1>9
    <3> HIDE DEF S
    <3> QED BY <3>1, PartOfPast
  <2> HIDE DEF S
  <2>2. Min(S) \in S /\ \A y \in S : Min(S) <= y
    BY <2>1, Smallest
  <2> QED BY <2>1, <2>2 DEF S
<1> HIDE DEF next
<1>15. next \in Nat
  BY <1>14
<1>16. Previous(obs, next) = pv
  <2>1. IsFiniteSet(obs) /\ obs \subseteq Int /\ next \in Int /\ \E u \in obs : u < next
    BY <1>10, <1>14, <1>15, FinitelyMany
  <2> DEFINE q == Previous(obs, next)
  <2>2. q \in obs /\ q < next /\ \A u \in obs : u < next => u <= q
    BY <2>1, PreviousOf
  <2> HIDE DEF q
  <2>3. q \in Nat /\ pv <= q /\ ~(q > pv)
    BY <1>10, <1>14, <1>15, <2>2
  <2>4. q = pv
    BY <1>10, <2>3
  <2> QED BY <2>4 DEF q
<1>17. 2 * (next - pv) < 3 * Interval
  <2>1. next \notin breaks
    BY <1>5, <1>10, <1>14, <1>15
  <2>2. ~HasGap(obs, next)
    BY <1>7, <1>14, <2>1
  <2>3. ~(2 * (next - pv) >= 3 * Interval)
    BY <1>10, <1>14, <1>16, <2>2 DEF HasGap, Gap
  <2> QED BY <1>10, <1>15, <2>3, InferenceAssumption
<1>18. t - next < Interval
  <2>1. ~(SlotOf(next) < SlotOf(t))
    BY <1>10, <1>12, <1>14, <1>15
  <2>2. /\ SlotOf(next) \in Nat /\ SlotOf(t) \in Nat /\ Interval \in Nat
        /\ SlotOf(next) <= next /\ t < SlotOf(t) + Interval
    BY <1>8, <1>15, SlotBounds, InferenceAssumption
  <2> QED BY <1>8, <1>15, <2>1, <2>2
<1>19. 2 * (t - pv) < 5 * Interval
  BY <1>8, <1>10, <1>15, <1>17, <1>18, InferenceAssumption
<1> QED BY <1>9, <1>10, <1>13, <1>19 DEF pv, suffix

\* The sum of a baseline is a number, in whatever order it is taken.
LEMMA BaselineIsNumber ==
  ASSUME NEW pts, IsFiniteSet(pts), NEW t, NEW bad,
         \A u \in pts : ValueAt(u, bad) \in Int
  PROVE  BaselineSum(pts, t, bad) \in Int
<1> DEFINE S == Newest({u \in pts : u < t}, Baseline)
           f == [u \in S |-> ValueAt(u, bad)]
           Taken(g) == [s \in SUBSET S |->
                            IF s = {} THEN 0
                            ELSE LET x == CHOOSE y \in s : TRUE
                                 IN  ValueAt(x, bad) + g[s \ {x}]]
           g == CHOOSE h : h = Taken(h)
<1>1. S \subseteq pts
  BY DEF Newest
<1>2. IsFiniteSet(S)
  <2> HIDE DEF S
  <2> QED BY <1>1, FS_Subset
<1>3. BaselineSum(pts, t, bad) = g[S]
  BY DEF BaselineSum, MapThenSumSet, MapThenFoldSet
<1> HIDE DEF S
<1>4. ASSUME NEW h PROVE Taken(h) = [s \in SUBSET S |-> Unfolded(f, h, s)]
  <2>1. ASSUME NEW s \in SUBSET S PROVE Taken(h)[s] = Unfolded(f, h, s)
    <3>1. CASE s = {}
      BY <3>1 DEF Unfolded
    <3>2. CASE s # {}
      <4>1. (CHOOSE y \in s : TRUE) \in S
        BY <3>2
      <4> QED BY <3>2, <4>1 DEF Unfolded
    <3> QED BY <3>1, <3>2
  <2> QED BY <2>1
<1> HIDE DEF Taken
<1>5. \E h : h = Taken(h)
  <2>1. PICK h : Sums(f, h, S)
    BY <1>2, SumsExist
  <2> QED BY <1>4, <2>1 DEF Sums
<1>6. Sums(f, g, S)
  <2>1. g = Taken(g)
    BY <1>5
  <2> HIDE DEF g
  <2> QED BY <1>4, <2>1 DEF Sums
<1>7. 0 \in Int /\ \A x, y \in Int : x + y \in Int
  OBVIOUS
<1>8. \A u \in S : f[u] \in Int
  BY <1>1
<1> HIDE DEF f, g
<1>9. \A s \in SUBSET S : g[s] \in Int
  BY <1>2, <1>6, <1>7, <1>8, SumsClosed, Zenon
<1> QED BY <1>3, <1>9

\* Demand that grows, ahead of time and up to more than the present.
LEMMA SurgeAsksMore ==
  ASSUME NEW value \in Nat \ {0}, NEW slope \in Nat \ {0}
  PROVE  LET ahead == (value * Interval + slope * LeadTime) * MaxMultiplier[2]
             most  == value * Interval * MaxMultiplier[1]
         IN  Min({ahead, most}) > value * Interval * MaxMultiplier[2]
<1>1. /\ Interval \in Nat \ {0} /\ LeadTime \in Nat \ {0}
      /\ MaxMultiplier[1] \in Nat \ {0} /\ MaxMultiplier[2] \in Nat \ {0}
      /\ MaxMultiplier[2] < MaxMultiplier[1]
  BY InferenceAssumption
<1> DEFINE x == value * Interval
           y == slope * LeadTime
           a == MaxMultiplier[1]
           b == MaxMultiplier[2]
<1>2. \A i, j \in Nat \ {0} : i * j \in Nat \ {0}
  OBVIOUS
<1>3. x \in Nat \ {0} /\ y \in Nat \ {0}
  BY <1>1, <1>2
<1>4. a \in Nat \ {0} /\ b \in Nat \ {0} /\ b < a
  BY <1>1
<1> HIDE DEF x, y, a, b
<1>5. x * b + x <= x * a /\ x * b \in Nat /\ x * a \in Nat
  BY <1>3, <1>4, Multiples
<1>6. (x + y) * b = x * b + y * b /\ y * b \in Nat \ {0}
  BY <1>2, <1>3, <1>4
<1>7. (x + y) * b > x * b /\ x * a > x * b /\ (x + y) * b \in Int /\ x * a \in Int
  BY <1>3, <1>5, <1>6
<1>8. Min({(x + y) * b, x * a}) \in {(x + y) * b, x * a}
  <2>1. {(x + y) * b, x * a} \subseteq Nat
    BY <1>5, <1>6
  <2> QED BY <2>1, Smallest
<1>9. Min({(x + y) * b, x * a}) > x * b
  BY <1>7, <1>8
<1> QED BY <1>9 DEF x, y, a, b

\* A detected surge is confirmed, for any stored observations.
LEMMA DetectedIsConfirmed ==
  ASSUME NEW n \in Nat, NEW obs, obs \subseteq 0 .. n, NEW bad,
         \A t \in obs : Level[t] \in Nat,
         SurgeDetected(RealContiguousSuffix(obs), bad)
  PROVE  LET suffix == RealContiguousSuffix(obs)
             newest == Newest(suffix, Confirmation)
         IN  /\ Cardinality({SlotOf(t) : t \in newest}) = Confirmation
             /\ \A t \in newest :
                    LET before == {u \in obs : SlotOf(u) < SlotOf(t)}
                    IN  /\ ValueAt(t, bad) > ValueAt(Max(before), bad)
                        /\ 2 * (t - Max(before)) < 5 * Interval
             /\ SurgeDemand(suffix, bad) > Level[Max(obs)] * Interval * MaxMultiplier[2]
<1> DEFINE suffix == RealContiguousSuffix(obs)
           breaks == {b \in obs : HasGap(obs, b)}
           raw    == {u \in obs : \A b \in breaks : b <= u}
           newest == Newest(suffix, Confirmation)
           top    == Max(obs)
<1>1. suffix = LatestPerSlot(raw)
  BY DEF RealContiguousSuffix
<1>2. raw \subseteq obs /\ breaks \subseteq obs
      /\ \A u \in obs : (\A b \in breaks : b <= u) => u \in raw
  OBVIOUS
<1> HIDE DEF raw, suffix, breaks
<1>3. /\ suffix \subseteq raw
      /\ \A t, u \in suffix : SlotOf(t) = SlotOf(u) => t = u
  <2>1. raw \subseteq Nat /\ \A x \in raw : x <= n
    BY <1>2, PartOfPast
  <2> QED BY <1>1, <2>1, OnePerSlot
<1>4. suffix \subseteq obs /\ IsFiniteSet(suffix) /\ suffix \subseteq Int /\ suffix \subseteq Nat
  <2>1. suffix \subseteq obs
    BY <1>2, <1>3
  <2> QED BY <2>1, PartOfPast
<1>5. Confirmation \in Nat \ {0} /\ Baseline \in Nat \ {0, 1} /\ Interval \in Nat \ {0}
      /\ BaselineMultiplier[1] \in Nat \ {0} /\ BaselineMultiplier[2] \in Nat \ {0}
  BY InferenceAssumption
<1>6. /\ Cardinality(suffix) >= Baseline + Confirmation /\ Cardinality(suffix) \in Nat
      /\ \A t \in newest : Candidate(suffix, t, bad)
  <2>1. Cardinality(suffix) \in Nat
    BY <1>4, FS_CardinalityType
  <2> QED BY <2>1 DEF SurgeDetected, Confirming, suffix
<1>7. /\ newest \subseteq suffix /\ Cardinality(newest) = Confirmation /\ IsFiniteSet(newest)
      /\ \A t \in newest, u \in suffix : u >= t => u \in newest
  <2>1. Confirmation <= Cardinality(suffix) /\ Confirmation \in Nat
    BY <1>5, <1>6
  <2>2. /\ newest \subseteq suffix /\ Cardinality(newest) = Confirmation
        /\ \A t \in newest, u \in suffix : u >= t => u \in newest
    BY <1>4, <2>1, NewestOf
  <2> QED BY <1>4, <2>2, FS_Subset
<1> HIDE DEF newest
<1>8. Cardinality({SlotOf(t) : t \in newest}) = Confirmation
  <2>1. \A t, u \in newest : SlotOf(t) = SlotOf(u) => t = u
    BY <1>3, <1>7
  <2> QED BY <1>7, <2>1, SlotsCount
<1>9. ASSUME NEW t \in newest PROVE \E u \in suffix : u < t
  <2>1. newest # suffix
    <3>1. Cardinality(newest) # Cardinality(suffix)
      BY <1>5, <1>6, <1>7
    <3> QED BY <3>1
  <2>2. PICK u \in suffix : u \notin newest
    BY <1>7, <2>1
  <2>3. ~(u >= t) /\ u \in Int /\ t \in Int
    BY <1>4, <1>7, <2>2
  <2> QED BY <2>3
<1>10. \A u \in obs : ValueAt(u, bad) \in Int /\ ValueAt(u, bad) >= -1
                      /\ (ValueAt(u, bad) # -1 => ValueAt(u, bad) = Level[u])
  BY DEF ValueAt
<1>11. ASSUME NEW t \in newest
       PROVE  LET before == {u \in obs : SlotOf(u) < SlotOf(t)}
              IN  /\ ValueAt(t, bad) > ValueAt(Max(before), bad)
                  /\ 2 * (t - Max(before)) < 5 * Interval
                  /\ Slope(suffix, t, bad) \in Nat \ {0}
                  /\ ValueAt(t, bad) \in Nat /\ ValueAt(t, bad) = Level[t]
  <2> DEFINE before == {u \in obs : SlotOf(u) < SlotOf(t)}
             pv     == Previous(suffix, t)
  <2>1. pv \in obs /\ pv < t /\ Max(before) = pv /\ 2 * (t - pv) < 5 * Interval
    <3>1. t \in suffix /\ \E u \in suffix : u < t
      BY <1>7, <1>9
    <3> QED BY <3>1, SuffixFollows DEF suffix
  <2>2. Slope(suffix, t, bad) > 0 /\ Slope(suffix, t, bad) = ValueAt(t, bad) - ValueAt(pv, bad)
    BY <1>6 DEF Candidate, Slope
  <2> HIDE DEF before, pv
  <2>3. t \in obs
    BY <1>4, <1>7
  <2>4. /\ ValueAt(t, bad) \in Int /\ ValueAt(pv, bad) \in Int /\ ValueAt(pv, bad) >= -1
        /\ (ValueAt(t, bad) # -1 => ValueAt(t, bad) = Level[t])
    BY <1>10, <2>1, <2>3
  <2>5. /\ ValueAt(t, bad) > ValueAt(pv, bad) /\ ValueAt(t, bad) >= 0
        /\ Slope(suffix, t, bad) \in Nat \ {0}
    BY <2>2, <2>4
  <2> QED BY <2>1, <2>4, <2>5 DEF before
<1>12. top \in newest /\ Max(suffix) = top
  <2>1. newest # {}
    BY <1>5, <1>7, FS_EmptySet
  <2>2. obs # {} /\ obs \subseteq Nat /\ \A x \in obs : x <= n
    <3>1. obs # {}
      BY <1>4, <1>7, <2>1
    <3> QED BY <3>1, PartOfPast
  <2>3. top \in obs /\ \A x \in obs : x <= top
    BY <2>2, Largest
  <2> HIDE DEF top
  <2>4. top \in raw
    BY <1>2, <2>3
  <2>5. top \in suffix
    BY <1>1, <1>2, <2>3, <2>4 DEF LatestPerSlot
  <2>6. top \in newest
    <3>1. PICK t \in newest : TRUE
      BY <2>1
    <3>2. t <= top
      BY <1>4, <1>7, <2>3
    <3> QED BY <1>4, <1>7, <2>5, <3>2
  <2>7. Max(suffix) \in suffix /\ \A y \in suffix : y <= Max(suffix)
    BY <1>4, <2>5, Extremes
  <2>8. Max(suffix) \in Nat /\ top \in Nat /\ Max(suffix) <= top /\ top <= Max(suffix)
    BY <1>4, <2>3, <2>5, <2>7
  <2> QED BY <2>6, <2>8
<1> DEFINE v == ValueAt(top, bad)
           s == Slope(suffix, top, bad)
           sum == BaselineSum(suffix, top, bad)
<1>13. v \in Nat /\ v = Level[top] /\ s \in Nat \ {0}
  BY <1>11, <1>12
<1>14. sum \in Int /\ sum > 0
       /\ v * Baseline * BaselineMultiplier[2] >= sum * BaselineMultiplier[1]
  <2>1. \A u \in suffix : ValueAt(u, bad) \in Int
    BY <1>4, <1>10
  <2>2. sum \in Int
    BY <1>4, <2>1, BaselineIsNumber
  <2> QED BY <1>6, <1>12, <2>2 DEF Candidate
<1>15. SurgeDemand(suffix, bad)
         = Min({(v * Interval + s * LeadTime) * MaxMultiplier[2],
                v * Interval * MaxMultiplier[1]})
  BY <1>12 DEF SurgeDemand
<1> HIDE DEF v, s, sum
<1>16. v # 0
  <2>1. \A i, j \in Nat \ {0} : i * j \in Nat \ {0}
    OBVIOUS
  <2>2. sum * BaselineMultiplier[1] > 0 /\ sum * BaselineMultiplier[1] \in Int
    <3>1. sum \in Nat \ {0}
      BY <1>14
    <3>2. sum * BaselineMultiplier[1] \in Nat \ {0}
      BY <1>5, <2>1, <3>1
    <3> QED BY <3>2
  <2>3. ASSUME v = 0 PROVE v * Baseline * BaselineMultiplier[2] = 0
    BY <1>5, <2>3
  <2> QED BY <1>14, <2>2, <2>3
<1>17. SurgeDemand(suffix, bad) > Level[top] * Interval * MaxMultiplier[2]
  <2>1. v \in Nat \ {0}
    BY <1>13, <1>16
  <2> QED BY <1>13, <1>15, <2>1, SurgeAsksMore
<1> QED BY <1>8, <1>11, <1>17 DEF suffix, newest, top

\* The surges of every forecast are confirmed, whatever is stored so far.
THEOREM ConfirmedSurges == Spec => []SurgeIsConfirmed
<1>1. SurgeIsConfirmed
  <2> DEFINE obs == ForecastRows
  <2>1. obs \subseteq 0 .. MaxTime /\ MaxTime \in Nat
    BY SampleAssumption DEF ForecastRows, Stored, Times
  <2>2. \A t \in obs : Level[t] \in Nat
    BY <2>1, SampleAssumption DEF Times
  <2> HIDE DEF obs
  <2>3. ASSUME SurgeDetected(RealContiguousSuffix(obs), hole.negative)
        PROVE  LET suffix == RealContiguousSuffix(obs)
                   newest == Newest(suffix, Confirmation)
               IN  /\ Cardinality({SlotOf(t) : t \in newest}) = Confirmation
                   /\ \A t \in newest :
                          LET before == {u \in obs : SlotOf(u) < SlotOf(t)}
                          IN  /\ ValueAt(t, hole.negative)
                                    > ValueAt(Max(before), hole.negative)
                              /\ 2 * (t - Max(before)) < 5 * Interval
                   /\ SurgeDemand(suffix, hole.negative)
                        > Level[Max(obs)] * Interval * MaxMultiplier[2]
    BY <2>1, <2>2, <2>3, DetectedIsConfirmed
  <2> QED BY <2>3 DEF SurgeIsConfirmed, obs
<1> QED BY <1>1, PTL

-----------------------------------------------------------------------------
(* Evidence: windows without a missing slot.                                 *)

\* No two of some moments are of the same slot.
Apart(T) == \A t, u \in T : SlotOf(t) = SlotOf(u) => t = u

Indices(T) == {t \div Interval : t \in T}

LEMMA IndexOrdered ==
  ASSUME NEW t \in Nat, NEW u \in Nat
  PROVE  /\ t \div Interval \in Nat /\ u \div Interval \in Nat
         /\ t <= u => t \div Interval <= u \div Interval
         /\ t \div Interval = u \div Interval <=> SlotOf(t) = SlotOf(u)
         /\ SlotOf(t) <= SlotOf(u) => t \div Interval <= u \div Interval
<1> DEFINE a == t \div Interval
           b == u \div Interval
<1>1. /\ a \in Nat /\ b \in Nat /\ Interval \in Nat \ {0}
      /\ SlotOf(t) = Interval * a /\ SlotOf(u) = Interval * b
  BY Division, InferenceAssumption DEF SlotOf
<1>2. t <= u => SlotOf(t) <= SlotOf(u)
  BY SlotsOrdered
<1> HIDE DEF a, b
<1>3. b < a => SlotOf(u) < SlotOf(t)
  <2>1. ASSUME b < a PROVE Interval * b + Interval <= Interval * a
    BY <1>1, <2>1, Multiples
  <2>2. Interval * a \in Nat /\ Interval * b \in Nat
    BY <1>1
  <2> QED BY <1>1, <2>1, <2>2
<1>4. a < b => SlotOf(t) < SlotOf(u)
  <2>1. ASSUME a < b PROVE Interval * a + Interval <= Interval * b
    BY <1>1, <2>1, Multiples
  <2>2. Interval * a \in Nat /\ Interval * b \in Nat
    BY <1>1
  <2> QED BY <1>1, <2>1, <2>2
<1>5. SlotOf(t) \in Nat /\ SlotOf(u) \in Nat
  BY SlotBounds
<1>6. t <= u => a <= b
  BY <1>1, <1>2, <1>3, <1>5
<1>7. a = b <=> SlotOf(t) = SlotOf(u)
  BY <1>1, <1>3, <1>4, <1>5
<1>8. SlotOf(t) <= SlotOf(u) => a <= b
  BY <1>1, <1>3, <1>5
<1> QED BY <1>1, <1>6, <1>7, <1>8 DEF a, b

LEMMA IndicesCount ==
  ASSUME NEW T, IsFiniteSet(T), T \subseteq Nat, Apart(T)
  PROVE  /\ Indices(T) \subseteq Nat /\ IsFiniteSet(Indices(T))
         /\ Cardinality(Indices(T)) = Cardinality(T)
<1> DEFINE f == [t \in T |-> t \div Interval]
<1>1. Indices(T) = ImageOf(f, T)
  BY DEF Indices, ImageOf
<1>2. Indices(T) \subseteq Nat
  BY IndexOrdered DEF Indices
<1>3. \A t, u \in T : f[t] = f[u] => t = u
  BY IndexOrdered DEF Apart
<1> HIDE DEF f
<1> QED BY <1>1, <1>2, <1>3, Images

\* No slot is missing exactly if there is one moment for each index in between.
LEMMA NoneMissing ==
  ASSUME NEW T, IsFiniteSet(T), T \subseteq Nat, T # {}, Apart(T)
  PROVE  NoSlotMissing(T) <=> Indices(T) = Min(T) \div Interval .. Max(T) \div Interval
<1>1. /\ Min(T) \in T /\ Max(T) \in T /\ \A t \in T : Min(T) <= t /\ t <= Max(T)
  <2>1. T \subseteq Int
    OBVIOUS
  <2> QED BY <2>1, Extremes
<1> DEFINE a == Min(T) \div Interval
           b == Max(T) \div Interval
           A == Indices(T)
<1>2. a \in Nat /\ b \in Nat /\ a <= b /\ Min(T) \in Nat /\ Max(T) \in Nat
  BY <1>1, IndexOrdered
<1>3. A \subseteq Nat /\ IsFiniteSet(A) /\ Cardinality(A) = Cardinality(T) /\ Cardinality(T) \in Nat
  BY IndicesCount, FS_CardinalityType
<1>4. A \subseteq a .. b
  <2>1. SUFFICES ASSUME NEW t \in T PROVE t \div Interval \in a .. b
    BY DEF Indices
  <2>2. t \in Nat /\ Min(T) <= t /\ t <= Max(T)
    BY <1>1
  <2> QED BY <1>2, <2>2, IndexOrdered
<1>5. NoSlotMissing(T) <=> b - a = Cardinality(T) - 1
  BY DEF NoSlotMissing
<1> HIDE DEF a, b, A
<1>6. IsFiniteSet(a .. b) /\ Cardinality(a .. b) = b - a + 1
  <2>1. /\ IsFiniteSet(a .. b)
        /\ Cardinality(a .. b) = IF a > b THEN 0 ELSE b - a + 1
    <3>1. a \in Int /\ b \in Int
      BY <1>2
    <3> QED BY <3>1, FS_Interval
  <2> QED BY <1>2, <2>1
<1>7. ASSUME b - a = Cardinality(T) - 1 PROVE A = a .. b
  <2>1. Cardinality(A) = Cardinality(a .. b)
    BY <1>2, <1>3, <1>6, <1>7
  <2> QED BY <1>4, <1>6, <2>1, FS_Subset
<1>8. ASSUME A = a .. b PROVE b - a = Cardinality(T) - 1
  BY <1>2, <1>3, <1>6, <1>8
<1> QED BY <1>5, <1>7, <1>8 DEF a, b, A

LEMMA PartOfThem ==
  ASSUME NEW pts \in SUBSET Nat, IsFiniteSet(pts), NEW S, S \subseteq pts
  PROVE  S \subseteq Nat /\ S \subseteq Int /\ IsFiniteSet(S)
<1>1. IsFiniteSet(S)
  BY FS_Subset, Zenon
<1> QED BY <1>1

\* The horizon of a window follows its origin.
LEMMA HorizonFollows ==
  ASSUME NEW pts \in SUBSET Nat, IsFiniteSet(pts), NEW t \in Nat, NEW steps \in Nat \ {0},
         Cardinality(Targets(pts, t, steps)) = steps
  PROVE  LET T == Targets(pts, t, steps)
         IN  /\ T \subseteq pts /\ T # {} /\ IsFiniteSet(T)
             /\ EndOf(pts, t, steps) \in T
             /\ \A u \in T : t < u /\ u <= EndOf(pts, t, steps)
<1> DEFINE S == After(pts, t)
           T == Targets(pts, t, steps)
<1>1. S \subseteq pts /\ \A u \in S : t < u
  BY DEF After
<1>2. IsFiniteSet(S) /\ S \subseteq Int
  BY <1>1, PartOfThem
<1>3. T \subseteq S
  BY DEF Targets, Oldest
<1>4. T \subseteq pts /\ \A u \in T : t < u
  BY <1>1, <1>3
<1>5. IsFiniteSet(T) /\ T \subseteq Int
  BY <1>4, PartOfThem
<1>6. T # {}
  <2>1. SUFFICES ASSUME T = {} PROVE FALSE
    OBVIOUS
  <2> QED BY <2>1, FS_EmptySet
<1> HIDE DEF T
<1>7. Max(T) \in T /\ \A u \in T : u <= Max(T)
  BY <1>5, <1>6, Extremes
<1> QED BY <1>4, <1>5, <1>6, <1>7 DEF EndOf, T

\* What is needed before a window ends with its origin.
LEMMA InputPrecedes ==
  ASSUME NEW pts \in SUBSET Nat, IsFiniteSet(pts), NEW t \in pts, NEW history \in Nat \ {0},
         Cardinality(Before(pts, t, history)) = history
  PROVE  LET B == Before(pts, t, history)
         IN  /\ B \subseteq pts /\ IsFiniteSet(B) /\ t \in B
             /\ \A u \in B : u <= t
<1> DEFINE S == UpTo(pts, t)
           B == Before(pts, t, history)
<1>1. S \subseteq pts /\ (\A u \in S : u <= t) /\ t \in S
  BY DEF UpTo
<1>2. IsFiniteSet(S) /\ S \subseteq Int
  BY <1>1, PartOfThem
<1>3. B \subseteq S /\ \A u \in B, v \in S : v >= u => v \in B
  BY <1>2, NewestOf DEF Before
<1>4. B \subseteq pts /\ \A u \in B : u <= t
  BY <1>1, <1>3
<1>6. Cardinality(B) = history
  OBVIOUS
<1> HIDE DEF B
<1>5. IsFiniteSet(B) /\ B \subseteq Int
  BY <1>4, PartOfThem
<1>8. B # {}
  BY <1>6, FS_EmptySet
<1>7. t \in B
  <2>1. PICK u \in B : TRUE
    BY <1>8
  <2>2. u <= t /\ u \in Int /\ t \in Int
    BY <1>2, <1>4, <1>5, <1>1
  <2> QED BY <1>1, <1>3, <2>2
<1> QED BY <1>4, <1>5, <1>7 DEF B

\* No index is missing up to the origin of a complete window, nor in its horizon.
LEMMA WindowIsWhole ==
  ASSUME NEW pts \in SUBSET Nat, IsFiniteSet(pts), Apart(pts),
         NEW history \in Nat \ {0}, NEW steps \in Nat \ {0}, NEW after,
         NEW t \in Complete(pts, history, steps, after)
  PROVE  /\ \E a \in Nat : Indices(Before(pts, t, history)) = a .. t \div Interval
         /\ Indices(Targets(pts, t, steps))
                = (t \div Interval) + 1 .. (t \div Interval) + steps
<1> DEFINE i == t \div Interval
           B == Before(pts, t, history)
           T == Targets(pts, t, steps)
           S == Span(pts, t, history, steps)
<1>0. t \in pts /\ Cardinality(B) = history /\ Cardinality(T) = steps /\ NoSlotMissing(S)
  BY DEF Complete
<1>1. B \subseteq pts /\ IsFiniteSet(B) /\ t \in B /\ \A u \in B : u <= t
  BY <1>0, InputPrecedes
<1>2. T \subseteq pts /\ T # {} /\ IsFiniteSet(T) /\ \A u \in T : t < u
  <2>1. t \in Nat
    BY <1>0
  <2> QED BY <1>0, <2>1, HorizonFollows
<1>3. S = B \cup T
  BY DEF Span
<1> HIDE DEF B, T, S
<1>4. pts \subseteq Nat /\ t \in Nat /\ T \subseteq Nat /\ B \subseteq Nat
  <2>1. pts \subseteq Nat
    OBVIOUS
  <2> QED BY <1>0, <1>1, <1>2, <2>1
<1>5. S \subseteq Nat /\ IsFiniteSet(S) /\ S # {} /\ Apart(S) /\ Apart(T) /\ S \subseteq Int
  <2>1. S \subseteq pts
    BY <1>1, <1>2, <1>3
  <2>2. IsFiniteSet(S) /\ S # {}
    <3>1. IsFiniteSet(B \cup T)
      BY <1>1, <1>2, FS_Union
    <3> QED BY <1>1, <1>3, <3>1
  <2>3. Apart(S) /\ Apart(T)
    BY <1>2, <2>1 DEF Apart
  <2> QED BY <1>4, <2>1, <2>2, <2>3
<1> DEFINE a == Min(S) \div Interval
           b == Max(S) \div Interval
<1>6. Indices(S) = a .. b
  BY <1>0, <1>5, NoneMissing
<1>7. Min(S) \in S /\ Max(S) \in S /\ \A u \in S : Min(S) <= u /\ u <= Max(S)
  BY <1>5, Extremes
<1>8. Min(S) \in Nat /\ Max(S) \in T /\ Min(S) <= t
  <2>1. PICK u \in T : TRUE
    BY <1>2
  <2>2. t < u /\ u <= Max(S) /\ Min(S) <= t
    BY <1>1, <1>2, <1>3, <1>7, <2>1
  <2>3. Max(S) \notin B
    <3>1. SUFFICES ASSUME Max(S) \in B PROVE FALSE
      OBVIOUS
    <3>2. Max(S) <= t /\ t < u /\ u <= Max(S)
      BY <1>1, <2>2, <3>1
    <3>3. Max(S) \in Nat /\ t \in Nat /\ u \in Nat
      BY <1>4, <2>1, <3>1
    <3> QED BY <3>2, <3>3
  <2> QED BY <1>3, <1>5, <1>7, <2>2, <2>3
<1>9. /\ i \in Nat
      /\ \A u \in B : u \div Interval \in Nat /\ u \div Interval <= i
      /\ \A u \in T : u \div Interval \in Nat /\ u \div Interval > i
  <2>1. ASSUME NEW u \in B PROVE u \div Interval \in Nat /\ u \div Interval <= i
    BY <1>1, <1>4, IndexOrdered
  <2>2. ASSUME NEW u \in T PROVE u \div Interval \in Nat /\ u \div Interval > i
    <3>1. t < u /\ u \in pts /\ u \in Nat
      BY <1>2, <1>4
    <3>2. SlotOf(t) # SlotOf(u)
      BY <1>0, <1>4, <3>1 DEF Apart
    <3>3. i \in Nat /\ u \div Interval \in Nat /\ i <= u \div Interval /\ i # u \div Interval
      BY <1>4, <3>1, <3>2, IndexOrdered
    <3> HIDE DEF i
    <3> QED BY <3>3
  <2> QED BY <1>4, <2>1, <2>2, IndexOrdered
<1>10. a \in Nat /\ b \in Nat /\ a <= i /\ i < b
  <2>1. a \in Nat /\ a <= i
    BY <1>4, <1>8, IndexOrdered
  <2>2. b \in Nat /\ i < b
    BY <1>8, <1>9
  <2> QED BY <2>1, <2>2
<1>11. /\ Indices(S) = Indices(B) \cup Indices(T)
       /\ \A j \in Indices(B) : j \in Nat /\ j <= i
       /\ \A j \in Indices(T) : j \in Nat /\ j > i
  BY <1>3, <1>9 DEF Indices
<1> HIDE DEF i, a, b
<1>12. Indices(B) = a .. i /\ Indices(T) = i + 1 .. b
  <2>1. i \in Nat
    BY <1>9
  <2>2. \A j \in a .. b : j \in Indices(B) \/ j \in Indices(T)
    BY <1>6, <1>11
  <2>3. Indices(B) \subseteq a .. b /\ Indices(T) \subseteq a .. b
    BY <1>6, <1>11
  <2>4. ASSUME NEW j \in a .. i PROVE j \in Indices(B)
    BY <1>10, <1>11, <2>1, <2>2, <2>4
  <2>5. ASSUME NEW j \in i + 1 .. b PROVE j \in Indices(T)
    BY <1>10, <1>11, <2>1, <2>2, <2>5
  <2>6. ASSUME NEW j \in Indices(B) PROVE j \in a .. i
    BY <1>10, <1>11, <2>1, <2>3, <2>6
  <2>7. ASSUME NEW j \in Indices(T) PROVE j \in i + 1 .. b
    BY <1>10, <1>11, <2>1, <2>3, <2>7
  <2> QED BY <2>4, <2>5, <2>6, <2>7
<1>13. b = i + steps
  <2>1. Cardinality(Indices(T)) = steps
    BY <1>0, <1>2, <1>4, <1>5, IndicesCount
  <2>2. i + 1 \in Int /\ b \in Int /\ i \in Nat
    BY <1>9, <1>10
  <2>3. Cardinality(i + 1 .. b) = IF i + 1 > b THEN 0 ELSE b - (i + 1) + 1
    BY <2>2, FS_Interval
  <2> QED BY <1>10, <1>12, <2>1, <2>2, <2>3
<1>14. i \in Nat
  BY <1>9
<1> QED BY <1>10, <1>12, <1>13 DEF i, B, T

\* The horizon of a complete window is the slots that follow its origin.
LEMMA HorizonSlots ==
  ASSUME NEW pts \in SUBSET Nat, IsFiniteSet(pts), Apart(pts),
         NEW history \in Nat \ {0}, NEW steps \in Nat \ {0}, NEW after,
         NEW t \in Complete(pts, history, steps, after)
  PROVE  {SlotOf(u) : u \in Targets(pts, t, steps)}
            = {SlotOf(t) + k * Interval : k \in 1 .. steps}
<1> DEFINE i == t \div Interval
           T == Targets(pts, t, steps)
           A == {SlotOf(u) : u \in T}
           B == {SlotOf(t) + k * Interval : k \in 1 .. steps}
<1>1. t \in pts /\ Cardinality(T) = steps
  BY DEF Complete
<1>2. Indices(T) = i + 1 .. i + steps
  BY WindowIsWhole
<1>3. T \subseteq pts
  <2>1. t \in Nat
    BY <1>1
  <2> QED BY <1>1, <2>1, HorizonFollows
<1> HIDE DEF T
<1>4. T \subseteq Nat /\ t \in Nat
  BY <1>1, <1>3
<1>5. i \in Nat /\ Interval \in Nat \ {0} /\ SlotOf(t) = Interval * i
  BY <1>4, Division, InferenceAssumption DEF SlotOf
<1> HIDE DEF i
<1>6. ASSUME NEW k \in Int PROVE Interval * (i + k) = Interval * i + k * Interval
  <2>1. \A x, y, z \in Int : x * (y + z) = x * y + z * x
    OBVIOUS
  <2> QED BY <1>5, <2>1
<1>7. ASSUME NEW u \in T PROVE SlotOf(u) \in B
  <2>1. u \div Interval \in i + 1 .. i + steps
    BY <1>2 DEF Indices
  <2> DEFINE k == (u \div Interval) - i
  <2>2. k \in 1 .. steps /\ u \div Interval = i + k
    <3> HIDE DEF k
    <3>1. k = (u \div Interval) - i
      BY DEF k
    <3> QED BY <1>5, <2>1, <3>1
  <2>3. SlotOf(u) = Interval * (i + k)
    BY <2>2 DEF SlotOf
  <2> HIDE DEF k
  <2>4. SlotOf(u) = SlotOf(t) + k * Interval
    BY <1>5, <1>6, <2>2, <2>3
  <2> QED BY <2>2, <2>4
<1>8. ASSUME NEW k \in 1 .. steps PROVE SlotOf(t) + k * Interval \in A
  <2>1. i + k \in i + 1 .. i + steps
    BY <1>5
  <2>2. PICK u \in T : u \div Interval = i + k
    BY <1>2, <2>1 DEF Indices
  <2>3. SlotOf(u) = Interval * (i + k)
    BY <2>2 DEF SlotOf
  <2>4. SlotOf(u) = SlotOf(t) + k * Interval
    BY <1>5, <1>6, <2>3
  <2> QED BY <2>4
<1>9. A = B
  BY <1>7, <1>8
<1> QED BY <1>9 DEF T

\* The observations before t that no missing slot separates from it, by index.
LEMMA RunHolds ==
  ASSUME NEW pts \in SUBSET Nat, NEW t \in pts, NEW u \in pts, u <= t
  PROVE  u \in Run(pts, t) <=>
            \A j \in u \div Interval .. t \div Interval :
                \E v \in pts : v \div Interval = j
<1> DEFINE i == t \div Interval
           m == u \div Interval
<1>1. t \in Nat /\ u \in Nat /\ m \in Nat /\ i \in Nat /\ Interval \in Nat \ {0}
      /\ SlotOf(u) = Interval * m /\ SlotOf(t) = Interval * i
      /\ SlotOf(u) \in Nat /\ SlotOf(t) \in Nat
  BY Division, InferenceAssumption DEF SlotOf
<1> DEFINE Slots == \A s \in SlotOf(u) .. SlotOf(t) :
                        s % Interval = 0 => \E v \in pts : SlotOf(v) = s
           Places == \A j \in m .. i : \E v \in pts : v \div Interval = j
<1>2. u \in Run(pts, t) <=> Slots
  BY DEF Run
<1>3. ASSUME Slots PROVE Places
  <2>1. SUFFICES ASSUME NEW j \in m .. i PROVE \E v \in pts : v \div Interval = j
    OBVIOUS
  <2> HIDE DEF i, m
  <2>2. j \in Nat /\ m <= j /\ j <= i
    BY <1>1, <2>1
  <2> DEFINE s == Interval * j
  <2>3. s \in Nat /\ s % Interval = 0 /\ s \div Interval = j
    BY <1>1, <2>2, Quotient
  <2>4. Interval * m <= s
    <3>1. CASE m = j
      BY <1>1, <2>3, <3>1
    <3>2. CASE m < j
      <4>1. Interval * m + Interval <= Interval * j
        BY <1>1, <2>2, <3>2, Multiples
      <4>2. Interval * m \in Nat
        BY <1>1
      <4> QED BY <1>1, <2>3, <4>1, <4>2
    <3> QED BY <1>1, <2>2, <3>1, <3>2
  <2>5. s <= Interval * i
    <3>1. CASE i = j
      BY <1>1, <2>3, <3>1
    <3>2. CASE j < i
      <4>1. Interval * j + Interval <= Interval * i
        BY <1>1, <2>2, <3>2, Multiples
      <4>2. Interval * i \in Nat
        BY <1>1
      <4> QED BY <1>1, <2>3, <4>1, <4>2
    <3> QED BY <1>1, <2>2, <3>1, <3>2
  <2> HIDE DEF s
  <2>6. s \in SlotOf(u) .. SlotOf(t)
    BY <1>1, <2>3, <2>4, <2>5
  <2>7. PICK v \in pts : SlotOf(v) = s
    BY <1>3, <2>3, <2>6
  <2>8. v \in Nat /\ SlotOf(s) = s
    BY <2>3, MultiplesAreSlots
  <2>9. v \div Interval = s \div Interval
    BY <2>3, <2>7, <2>8, IndexOrdered
  <2> QED BY <2>3, <2>9
<1>4. ASSUME Places PROVE Slots
  <2>1. SUFFICES ASSUME NEW s \in SlotOf(u) .. SlotOf(t), s % Interval = 0
                 PROVE  \E v \in pts : SlotOf(v) = s
    OBVIOUS
  <2>2. s \in Nat /\ SlotOf(u) <= s /\ s <= SlotOf(t)
    BY <1>1, <2>1
  <2>3. SlotOf(s) = s
    BY <2>1, <2>2, MultiplesAreSlots
  <2>4. s \div Interval \in m .. i
    <3>1. SlotOf(u) <= SlotOf(s) /\ SlotOf(s) <= SlotOf(t)
      BY <2>2, <2>3
    <3>2. s \div Interval \in Nat /\ m <= s \div Interval /\ s \div Interval <= i
      BY <1>1, <2>2, <3>1, IndexOrdered
    <3> QED BY <1>1, <3>2
  <2>5. PICK v \in pts : v \div Interval = s \div Interval
    BY <1>4, <2>4
  <2>6. v \in Nat
    OBVIOUS
  <2>7. SlotOf(v) = SlotOf(s)
    BY <2>2, <2>5, <2>6, IndexOrdered
  <2> QED BY <2>3, <2>7
<1> QED BY <1>2, <1>3, <1>4

\* The input of a model at a complete window ends with the origin, misses no slot
\* and is as long as the model asks.
LEMMA InputIsWhole ==
  ASSUME NEW pts \in SUBSET Nat, IsFiniteSet(pts), Apart(pts),
         NEW history \in Nat \ {0}, NEW steps \in Nat \ {0}, NEW after,
         NEW t \in Complete(pts, history, steps, after),
         NEW lookback \in 0 .. history, NEW w \in Nat \ {0}
  PROVE  /\ Max(InputAt(pts, t, lookback, w)) = t
         /\ NoSlotMissing(InputAt(pts, t, lookback, w))
         /\ lookback > 0 => Cardinality(InputAt(pts, t, lookback, w)) = lookback
<1> DEFINE U == UpTo(pts, t)
           R == Run(U, t)
           m == IF lookback > 0 THEN lookback ELSE w
           N == Newest(R, m)
           B == Before(pts, t, history)
           i == t \div Interval
<1>1. /\ t \in pts /\ Cardinality(B) = history
      /\ U \in SUBSET Nat /\ t \in U /\ U \subseteq pts /\ \A u \in U : u <= t
  <2>1. t \in pts /\ Cardinality(B) = history
    BY DEF Complete
  <2> HIDE DEF B
  <2>2. t \in U /\ U \subseteq pts /\ \A u \in U : u <= t
    BY <2>1 DEF UpTo
  <2> HIDE DEF U
  <2> QED BY <2>1, <2>2
<1>2. IsFiniteSet(U) /\ Apart(U)
  <2>1. IsFiniteSet(U)
    BY <1>1, FS_Subset, Zenon
  <2> QED BY <1>1, <2>1 DEF Apart
<1>3. B \subseteq U /\ IsFiniteSet(B)
  <2>1. B \subseteq U
    BY DEF Before, Newest
  <2> QED BY <1>1, <2>1, InputPrecedes
<1>4. \E a \in Nat : Indices(B) = a .. i
  BY WindowIsWhole
<1>5. m \in Nat \ {0} /\ (lookback > 0 => m = lookback) /\ N = InputAt(pts, t, lookback, w)
  BY DEF InputAt
<1>6. R \subseteq U
  BY DEF Run
<1> HIDE DEF U, B
<1>7. ASSUME NEW u \in U
      PROVE  u \in R <=> \A j \in u \div Interval .. i : \E v \in U : v \div Interval = j
  BY <1>1, RunHolds
<1> HIDE DEF R, m
<1>8. R \in SUBSET Nat /\ R \subseteq Int /\ IsFiniteSet(R) /\ Apart(R)
  <2>1. IsFiniteSet(R)
    BY <1>2, <1>6, FS_Subset, Zenon
  <2> QED BY <1>1, <1>2, <1>6, <2>1 DEF Apart
<1>9. i \in Nat /\ \A u \in U : u \div Interval \in Nat /\ u \div Interval <= i
  BY <1>1, IndexOrdered
<1> HIDE DEF i
<1>10. t \in R
  <2>1. \A j \in i .. i : t \div Interval = j
    BY <1>9 DEF i
  <2> QED BY <1>1, <1>7, <2>1 DEF i
<1>11. ASSUME NEW u \in R, NEW v \in U, v >= u PROVE v \in R
  <2>1. u \in Nat /\ v \in Nat /\ u \in U
    BY <1>1, <1>6
  <2>2. /\ u \div Interval \in Nat /\ v \div Interval \in Nat
        /\ u \div Interval <= v \div Interval
    BY <1>11, <2>1, IndexOrdered
  <2>3. \A j \in v \div Interval .. i : j \in u \div Interval .. i
    BY <1>9, <2>2
  <2>4. \A j \in v \div Interval .. i : \E x \in U : x \div Interval = j
    BY <1>7, <2>1, <2>3
  <2> QED BY <1>7, <2>4
<1>12. /\ N \subseteq R
       /\ \A u \in N, v \in R : v >= u => v \in N
       /\ m <= Cardinality(R) => Cardinality(N) = m
       /\ Cardinality(R) <= m => N = R
  BY <1>5, <1>8, NewestOf
<1> HIDE DEF N
<1>13. N \in SUBSET Nat /\ N \subseteq Int /\ IsFiniteSet(N) /\ Apart(N)
  <2>1. IsFiniteSet(N)
    BY <1>8, <1>12, FS_Subset, Zenon
  <2> QED BY <1>8, <1>12, <2>1 DEF Apart
<1>14. N # {}
  <2>1. SUFFICES ASSUME N = {} PROVE FALSE
    OBVIOUS
  <2>2. Cardinality(N) = 0
    BY <2>1, FS_EmptySet
  <2>3. Cardinality(R) \in Nat
    BY <1>8, FS_CardinalityType
  <2> QED BY <1>5, <1>10, <1>12, <2>1, <2>2, <2>3
<1>15. t \in N
  <2>1. PICK u \in N : TRUE
    BY <1>14
  <2>2. u \in U /\ u <= t /\ u \in Nat /\ t \in Nat
    BY <1>1, <1>6, <1>12, <2>1
  <2> QED BY <1>10, <1>12, <2>1, <2>2
<1>16. Max(N) = t
  <2>1. Max(N) \in N /\ \A u \in N : u <= Max(N)
    BY <1>13, <1>14, Extremes
  <2>2. Max(N) \in U
    BY <1>6, <1>12, <2>1
  <2>3. t <= Max(N) /\ Max(N) <= t /\ Max(N) \in Nat /\ t \in Nat
    BY <1>1, <1>13, <1>15, <2>1, <2>2
  <2> QED BY <2>3
<1>17. NoSlotMissing(N)
  <2>1. Min(N) \in N /\ \A u \in N : Min(N) <= u
    BY <1>13, <1>14, Extremes
  <2> DEFINE a == Min(N) \div Interval
  <2>2. /\ Min(N) \in R /\ Min(N) \in U /\ Min(N) \in Nat
        /\ a \in Nat /\ a <= i
    BY <1>6, <1>9, <1>12, <1>13, <2>1
  <2>3. \A u \in N : u \div Interval \in a .. i
    <3>1. SUFFICES ASSUME NEW u \in N PROVE u \div Interval \in a .. i
      OBVIOUS
    <3>2. u \in U /\ u \in Nat /\ Min(N) <= u
      BY <1>6, <1>12, <1>13, <2>1
    <3>3. a <= u \div Interval
      BY <2>2, <3>2, IndexOrdered
    <3> QED BY <1>9, <2>2, <3>2, <3>3
  <2>4. ASSUME NEW j \in a .. i PROVE \E u \in N : u \div Interval = j
    <3>1. PICK v \in U : v \div Interval = j
      BY <1>7, <2>2
    <3>2. CASE j = a
      BY <2>1, <3>2
    <3>3. CASE j # a
      <4>1. v \in Nat /\ ~(v <= Min(N))
        <5>1. v \in Nat
          BY <1>1
        <5>2. v <= Min(N) => v \div Interval <= a
          BY <2>2, <5>1, IndexOrdered
        <5> QED BY <2>2, <2>4, <3>1, <3>3, <5>1, <5>2
      <4>2. v >= Min(N)
        BY <2>2, <4>1
      <4>3. v \in R
        BY <1>11, <2>2, <4>2
      <4> QED BY <1>12, <2>1, <3>1, <4>2, <4>3
    <3> QED BY <3>2, <3>3
  <2>5. Indices(N) = a .. i
    BY <2>3, <2>4 DEF Indices
  <2>6. Indices(N) = Min(N) \div Interval .. Max(N) \div Interval
    BY <1>16, <2>5 DEF i
  <2> QED BY <1>13, <1>14, <2>6, NoneMissing
<1>18. history <= Cardinality(R)
  <2>1. PICK a \in Nat : Indices(B) = a .. i
    BY <1>4
  <2>2. B \subseteq R
    <3>1. SUFFICES ASSUME NEW u \in B PROVE u \in R
      OBVIOUS
    <3>2. u \div Interval \in a .. i /\ u \in U
      BY <1>3, <2>1 DEF Indices
    <3>3. ASSUME NEW j \in u \div Interval .. i PROVE \E v \in U : v \div Interval = j
      <4>1. j \in a .. i
        BY <1>9, <3>2
      <4> QED BY <1>3, <2>1, <4>1 DEF Indices
    <3> QED BY <1>7, <3>2, <3>3
  <2>3. Cardinality(B) <= Cardinality(R)
    BY <1>8, <2>2, FS_Subset, Zenon
  <2> QED BY <1>1, <2>3
<1>19. lookback > 0 => Cardinality(N) = lookback
  <2>1. Cardinality(R) \in Nat
    BY <1>8, FS_CardinalityType
  <2> QED BY <1>5, <1>12, <1>18, <2>1
<1> QED BY <1>5, <1>16, <1>17, <1>19

-----------------------------------------------------------------------------
(* Evidence: windows one after the other.                                    *)

\* The windows of C from each moment on, each next one after the horizon before.
Chained(pts, C, steps, f) ==
    f = [t \in pts |->
            LET left == {u \in C : u >= t}
            IN  IF left = {} THEN {}
                ELSE {Min(left)} \cup f[EndOf(pts, Min(left), steps)]]

\* There is such a function: f[t] is the least set that has the first window
\* from t on and with each window the one that follows it.
LEMMA ChainExists ==
  ASSUME NEW pts \in SUBSET Nat, NEW C \in SUBSET pts, NEW steps,
         \A u \in C : EndOf(pts, u, steps) \in pts
  PROVE  \E f : Chained(pts, C, steps, f)
<1> DEFINE Left(t) == {u \in C : u >= t}
           End(t) == EndOf(pts, Min(Left(t)), steps)
           Starts(t, S) == Left(t) # {} => Min(Left(t)) \in S
           Closed(S) == \A u \in S : Starts(EndOf(pts, u, steps), S)
           Reach(t) == {u \in C : \A S \in SUBSET C : Closed(S) /\ Starts(t, S) => u \in S}
           f == [t \in pts |-> Reach(t)]
<1>1. ASSUME NEW t \in pts, Left(t) = {} PROVE Reach(t) = {}
  <2>1. Closed({}) /\ Starts(t, {}) /\ {} \in SUBSET C
    BY <1>1
  <2> HIDE DEF Closed, Starts
  <2> QED BY <2>1
<1>2. ASSUME NEW t \in pts, Left(t) # {}
      PROVE  /\ Min(Left(t)) \in C /\ End(t) \in pts
             /\ Reach(t) = {Min(Left(t))} \cup Reach(End(t))
  <2> DEFINE m == Min(Left(t))
             e == End(t)
             S0 == {m} \cup Reach(e)
  <2>1. m \in C
    <3>1. Left(t) \subseteq C /\ Left(t) \subseteq Nat
      OBVIOUS
    <3> HIDE DEF Left
    <3>2. m \in Left(t)
      BY <1>2, <3>1, Smallest
    <3> QED BY <3>1, <3>2
  <2>2. e = EndOf(pts, m, steps) /\ e \in pts
    BY <2>1
  <2>3. ASSUME NEW S \in SUBSET C, Closed(S), Starts(t, S) PROVE m \in S /\ Starts(e, S)
    <3>1. m \in S
      BY <1>2, <2>3
    <3> HIDE DEF m, e, Starts
    <3> QED BY <2>2, <2>3, <3>1
  <2>4. S0 \subseteq Reach(t)
    <3> HIDE DEF Closed, Starts, m, e
    <3>1. m \in Reach(t)
      BY <2>1, <2>3
    <3>2. ASSUME NEW u \in Reach(e) PROVE u \in Reach(t)
      BY <2>3
    <3> QED BY <3>1, <3>2
  <2>5. ASSUME NEW x, NEW S \in SUBSET C, Closed(S), Starts(e, S),
               NEW u \in Reach(e), Left(EndOf(pts, u, steps)) # {}
        PROVE  Min(Left(EndOf(pts, u, steps))) \in S
    <3>1. u \in S
      <4> HIDE DEF Closed, Starts, e
      <4> QED BY <2>5
    <3> HIDE DEF e, Left
    <3> QED BY <2>5, <3>1
  <2>6. ASSUME NEW u \in Reach(e), Left(EndOf(pts, u, steps)) # {}
        PROVE  Min(Left(EndOf(pts, u, steps))) \in Reach(e)
    <3> DEFINE v == Min(Left(EndOf(pts, u, steps)))
    <3>1. v \in C
      <4>1. Left(EndOf(pts, u, steps)) \subseteq C /\ Left(EndOf(pts, u, steps)) \subseteq Nat
        OBVIOUS
      <4> HIDE DEF Left
      <4>2. v \in Left(EndOf(pts, u, steps))
        BY <2>6, <4>1, Smallest
      <4> QED BY <4>1, <4>2
    <3>2. \A S \in SUBSET C : Closed(S) /\ Starts(e, S) => v \in S
      BY <2>5, <2>6
    <3> HIDE DEF v, Closed, Starts, e
    <3>3. v \in Reach(e)
      BY <3>1, <3>2
    <3> QED BY <3>3 DEF v
  <2>7. Left(e) # {} => Min(Left(e)) \in Reach(e)
    <3>1. ASSUME Left(e) # {} PROVE Min(Left(e)) \in C
      <4>1. Left(e) \subseteq C /\ Left(e) \subseteq Nat
        <5> HIDE DEF e
        <5> QED OBVIOUS
      <4> HIDE DEF Left, e
      <4>2. Min(Left(e)) \in Left(e)
        BY <3>1, <4>1, Smallest
      <4> QED BY <4>1, <4>2
    <3>2. \A S \in SUBSET C : Starts(e, S) /\ Left(e) # {} => Min(Left(e)) \in S
      OBVIOUS
    <3> HIDE DEF Left, e, Closed, Starts
    <3> QED BY <3>1, <3>2
  <2>8. S0 \in SUBSET C /\ Starts(t, S0)
    <3> HIDE DEF Closed
    <3> QED BY <2>1
  <2>9. Closed(S0)
    <3>1. SUFFICES ASSUME NEW u \in S0, Left(EndOf(pts, u, steps)) # {}
                   PROVE  Min(Left(EndOf(pts, u, steps))) \in S0
      OBVIOUS
    <3>2. CASE u = m
      BY <2>2, <2>7, <3>1, <3>2
    <3>3. CASE u \in Reach(e)
      BY <2>6, <3>1, <3>3
    <3> QED BY <3>2, <3>3
  <2>10. Reach(t) \subseteq S0
    <3> HIDE DEF Closed, Starts, S0
    <3> QED BY <2>8, <2>9
  <2> QED BY <2>1, <2>2, <2>4, <2>10
<1>3. f = [t \in pts |-> IF Left(t) = {} THEN {} ELSE {Min(Left(t))} \cup f[End(t)]]
  <2>1. ASSUME NEW t \in pts
        PROVE  Reach(t) = IF Left(t) = {} THEN {} ELSE {Min(Left(t))} \cup f[End(t)]
    <3> HIDE DEF Reach, Left, End
    <3> QED BY <1>1, <1>2
  <2> HIDE DEF Reach, Left, End
  <2> QED BY <2>1
<1>4. Chained(pts, C, steps, f)
  <2> HIDE DEF f
  <2> QED BY <1>3 DEF Chained
<1> HIDE DEF f
<1> QED BY <1>4

\* A chain takes windows of C in turn, each after the horizon of the one before.
LEMMA ChainFollows ==
  ASSUME NEW pts \in SUBSET Nat, IsFiniteSet(pts), NEW C \in SUBSET pts, NEW steps,
         \A u \in C : EndOf(pts, u, steps) \in pts /\ u < EndOf(pts, u, steps),
         NEW f, Chained(pts, C, steps, f)
  PROVE  \A t \in pts :
            /\ f[t] \subseteq C /\ \A u \in f[t] : t <= u
            /\ \A u, v \in f[t] : u < v => EndOf(pts, u, steps) <= v
<1> DEFINE Good(t) == /\ f[t] \subseteq C /\ \A u \in f[t] : t <= u
                      /\ \A u, v \in f[t] : u < v => EndOf(pts, u, steps) <= v
           Bad == {t \in pts : ~Good(t)}
           Left(t) == {u \in C : u >= t}
<1>1. SUFFICES ASSUME Bad # {} PROVE FALSE
  OBVIOUS
<1> HIDE DEF Good
<1>2. IsFiniteSet(Bad) /\ Bad \subseteq Int
  <2>1. Bad \subseteq pts
    OBVIOUS
  <2> HIDE DEF Bad
  <2>2. IsFiniteSet(Bad)
    BY <2>1, FS_Subset, Zenon
  <2> QED BY <2>1, <2>2
<1>3. PICK t \in Bad : \A u \in Bad : u <= t
  <2> HIDE DEF Bad
  <2> QED BY <1>1, <1>2, Extremes
<1>4. t \in pts /\ ~Good(t) /\ t \in Nat
  BY <1>3
<1>5. f[t] = IF Left(t) = {} THEN {}
             ELSE {Min(Left(t))} \cup f[EndOf(pts, Min(Left(t)), steps)]
  BY <1>4 DEF Chained
<1>6. CASE Left(t) = {}
  BY <1>4, <1>5, <1>6 DEF Good
<1>7. CASE Left(t) # {}
  <2> DEFINE m == Min(Left(t))
             e == EndOf(pts, m, steps)
  <2>1. m \in C /\ t <= m /\ m \in Nat
    <3>1. Left(t) \subseteq C /\ Left(t) \subseteq Nat /\ \A u \in Left(t) : t <= u
      BY <1>4
    <3> HIDE DEF Left
    <3>2. m \in Left(t)
      BY <1>7, <3>1, Smallest
    <3> QED BY <3>1, <3>2
  <2>2. f[t] = {m} \cup f[e]
    BY <1>5, <1>7
  <2> HIDE DEF m
  <2>3. e \in pts /\ m < e /\ e \in Nat
    BY <2>1
  <2> HIDE DEF e
  <2>4. Good(e)
    <3>1. ~(e <= t)
      BY <1>4, <2>1, <2>3
    <3>2. e \notin Bad
      BY <1>3, <3>1
    <3> QED BY <2>3, <3>2
  <2>5. /\ f[e] \subseteq C /\ \A u \in f[e] : e <= u
        /\ \A u, v \in f[e] : u < v => EndOf(pts, u, steps) <= v
    BY <2>4 DEF Good
  <2>6. f[t] \subseteq C /\ \A u \in f[t] : t <= u /\ u \in Nat
    <3>1. \A u \in f[e] : u \in Nat /\ e <= u
      BY <2>5
    <3> QED BY <1>4, <2>1, <2>2, <2>3, <2>5, <3>1
  <2>7. ASSUME NEW u \in f[t], NEW v \in f[t], u < v PROVE EndOf(pts, u, steps) <= v
    <3>1. CASE u \in f[e] /\ v \in f[e]
      BY <2>5, <2>7, <3>1
    <3>2. CASE u = m /\ v \in f[e]
      BY <2>5, <3>2 DEF e
    <3>3. v # m
      <4>1. SUFFICES ASSUME v = m PROVE FALSE
        OBVIOUS
      <4>2. u \in f[e] /\ u \in Nat
        BY <2>1, <2>2, <2>6, <2>7, <4>1
      <4> QED BY <2>1, <2>3, <2>5, <2>7, <4>1, <4>2
    <3> QED BY <2>2, <2>7, <3>1, <3>2, <3>3
  <2>8. Good(t)
    BY <2>6, <2>7 DEF Good
  <2> QED BY <1>4, <2>8
<1> QED BY <1>6, <1>7

\* Compared windows are complete and none begins before the horizon of an
\* earlier one has ended.
LEMMA WindowsFollow ==
  ASSUME NEW pts \in SUBSET Nat, IsFiniteSet(pts),
         NEW history, NEW steps \in Nat \ {0}, NEW after
  PROVE  LET W == Disjoint(pts, history, steps, after)
         IN  /\ W \subseteq Complete(pts, history, steps, after)
             /\ \A u, v \in W : u < v => EndOf(pts, u, steps) <= v
<1> DEFINE C == Complete(pts, history, steps, after)
           W == Disjoint(pts, history, steps, after)
<1>1. C \in SUBSET pts /\ \A t \in C : Cardinality(Targets(pts, t, steps)) = steps
  BY DEF Complete
<1> HIDE DEF C
<1>2. ASSUME NEW t \in C
      PROVE  EndOf(pts, t, steps) \in pts /\ t < EndOf(pts, t, steps)
  <2>1. t \in Nat /\ Cardinality(Targets(pts, t, steps)) = steps
    BY <1>1
  <2> QED BY <2>1, HorizonFollows
<1>3. CASE C = {}
  <2>1. W = {}
    BY <1>3 DEF C, Disjoint
  <2> QED BY <2>1
<1>4. CASE C # {}
  <2>1. \E f : Chained(pts, C, steps, f)
    BY <1>1, <1>2, ChainExists
  <2>2. \E f : Chained(pts, C, steps, f) /\ W = f[Min(C)]
    BY <1>4, <2>1 DEF Disjoint, Chained, C
  <2>3. PICK f : Chained(pts, C, steps, f) /\ W = f[Min(C)]
    BY <2>2
  <2> HIDE DEF W
  <2>4. Min(C) \in pts
    BY <1>1, <1>4, Smallest
  <2>5. /\ f[Min(C)] \subseteq C
        /\ \A u, v \in f[Min(C)] : u < v => EndOf(pts, u, steps) <= v
    BY <1>1, <1>2, <2>3, <2>4, ChainFollows
  <2> QED BY <2>3, <2>5 DEF C, W
<1> QED BY <1>3, <1>4

-----------------------------------------------------------------------------
(* Evidence: the windows that are scored, and their peaks.                   *)

\* Numbers that are d apart have different quotients.
LEMMA QuotientsGrow ==
  ASSUME NEW d \in Nat \ {0}, NEW x \in Nat, NEW y \in Nat, x + d <= y
  PROVE  x \div d \in Nat /\ y \div d \in Nat /\ x \div d < y \div d
<1> DEFINE p == x \div d
           q == y \div d
<1>1. /\ p \in Nat /\ d * p \in Nat /\ d * p <= x
      /\ q \in Nat /\ d * q \in Nat /\ y < d * q + d
  BY Division
<1> HIDE DEF p, q
<1>2. ~(q = p)
  <2>1. q = p => d * q = d * p
    OBVIOUS
  <2> QED BY <1>1, <2>1
<1>3. ~(q < p)
  <2>1. q < p => d * q + d <= d * p
    BY <1>1, Multiples
  <2> QED BY <1>1, <2>1
<1>4. p < q
  BY <1>1, <1>2, <1>3
<1> QED BY <1>1, <1>4 DEF p, q

\* The ranks that Sampled keeps of l + 1: the first, the last, d + 1 in all.
LEMMA RanksAreSpread ==
  ASSUME NEW l \in Nat, NEW d \in Nat \ {0}, d <= l
  PROVE  LET kept == {(i * l) \div d : i \in 0 .. d}
         IN  /\ kept \subseteq 0 .. l /\ 0 \in kept /\ l \in kept
             /\ IsFiniteSet(kept) /\ Cardinality(kept) = d + 1
<1> DEFINE q == [i \in 0 .. d |-> (i * l) \div d]
           kept == {(i * l) \div d : i \in 0 .. d}
<1>1. \A i \in Int : i \in 0 .. d <=> i \in Nat /\ i <= d
  OBVIOUS
<1>2. \A i \in 0 .. d : i * l \in Nat
  <2>1. \A i, j \in Nat : i * j \in Nat
    OBVIOUS
  <2> QED BY <1>1, <2>1
<1>3. ASSUME NEW i \in 0 .. d PROVE q[i] \in Nat
  BY <1>2, Division
<1>4. ASSUME NEW i \in 0 .. d, NEW j \in 0 .. d, i < j PROVE q[i] < q[j]
  <2>1. i * l \in Nat /\ j * l \in Nat
    BY <1>2
  <2>2. i * l + l <= j * l
    <3>1. i \in Nat /\ j \in Nat /\ l \in Nat \ {0}
      OBVIOUS
    <3>2. l * i + l <= l * j
      BY <1>4, <3>1, Multiples
    <3>3. l * i = i * l /\ l * j = j * l
      BY <3>1
    <3> QED BY <3>2, <3>3
  <2> DEFINE x == i * l
             y == j * l
  <2>3. x \in Nat /\ y \in Nat /\ x + d <= y
    <3>1. x \in Nat /\ y \in Nat /\ x + l <= y
      BY <2>1, <2>2
    <3> HIDE DEF x, y
    <3> QED BY <3>1
  <2> HIDE DEF x, y
  <2>4. x \div d < y \div d
    BY <2>3, QuotientsGrow
  <2> QED BY <2>4 DEF x, y
<1>5. 0 \in 0 .. d /\ d \in 0 .. d /\ q[0] = 0 /\ q[d] = l
  <2>1. 0 \in 0 .. d /\ d \in 0 .. d
    OBVIOUS
  <2>2. (d * l) \div d = l
    BY Quotient
  <2>3. 0 * l = 0 /\ 0 \div d = 0
    <3>1. (d * 0) \div d = 0 /\ d * 0 = 0 /\ 0 * l = 0
      BY Quotient
    <3> QED BY <3>1
  <2> QED BY <2>1, <2>2, <2>3
<1>6. kept = ImageOf(q, 0 .. d)
  BY DEF ImageOf
<1> HIDE DEF q, kept
<1>7. \A i, j \in 0 .. d : q[i] = q[j] => i = j
  <2>1. SUFFICES ASSUME NEW i \in 0 .. d, NEW j \in 0 .. d, q[i] = q[j], i # j PROVE FALSE
    OBVIOUS
  <2>2. i < j \/ j < i
    BY <2>1
  <2>3. q[i] \in Nat /\ q[j] \in Nat
    BY <1>3
  <2>4. q[i] < q[j] \/ q[j] < q[i]
    BY <1>4, <2>2
  <2> QED BY <2>1, <2>3, <2>4
<1>8. IsFiniteSet(0 .. d) /\ Cardinality(0 .. d) = d + 1
  <2>1. 0 \in Int /\ d \in Int
    OBVIOUS
  <2>2. IsFiniteSet(0 .. d) /\ Cardinality(0 .. d) = IF 0 > d THEN 0 ELSE d - 0 + 1
    BY <2>1, FS_Interval
  <2> QED BY <2>2
<1>9. IsFiniteSet(kept) /\ Cardinality(kept) = d + 1
  BY <1>6, <1>7, <1>8, Images
<1>10. kept \subseteq 0 .. l
  <2>1. ASSUME NEW i \in 0 .. d PROVE q[i] \in 0 .. l
    <3>1. q[i] \in Nat /\ (i = d \/ q[i] < q[d])
      BY <1>3, <1>4, <1>5
    <3> QED BY <1>5, <3>1
  <2> QED BY <1>6, <2>1 DEF ImageOf
<1>11. 0 \in kept /\ l \in kept
  BY <1>5, <1>6 DEF ImageOf
<1> QED BY <1>9, <1>10, <1>11 DEF kept

\* Of the windows a policy asks for, as many are scored as it allows, the first
\* and the last among them.
LEMMA SampledWindows ==
  ASSUME NEW W \in SUBSET Nat, IsFiniteSet(W), MinWindows <= Cardinality(W)
  PROVE  /\ Sampled(W) \subseteq W
         /\ Cardinality(Sampled(W)) \in MinWindows .. MaxWindows
         /\ Min(Sampled(W)) = Min(W) /\ Max(Sampled(W)) = Max(W)
<1> DEFINE n == Cardinality(W)
           S == Sampled(W)
<1>1. /\ n \in Nat /\ MinWindows <= n /\ MinWindows <= MaxWindows
      /\ MinWindows \in Nat \ {0, 1} /\ MaxWindows \in Nat
  BY FS_CardinalityType, ComparisonAssumption
<1>2. CASE n <= MaxWindows
  <2>1. Sampled(W) = W
    BY <1>2 DEF Sampled
  <2>2. n \in MinWindows .. MaxWindows
    <3> HIDE DEF n
    <3> QED BY <1>1, <1>2
  <2> QED BY <2>1, <2>2
<1>3. CASE ~(n <= MaxWindows)
  <2> DEFINE l == n - 1
             d == MaxWindows - 1
             kept == {(i * l) \div d : i \in 0 .. d}
             R == Ranks(W)
  <2>1. S = {t \in W : R[t] \in kept}
    <3>1. \A t \in W : R[t] = Cardinality({u \in W : u < t})
      BY DEF Ranks
    <3>2. S = {t \in W : Cardinality({u \in W : u < t}) \in kept}
      BY <1>3 DEF Sampled
    <3> HIDE DEF R, kept
    <3> QED BY <3>1, <3>2
  <2>2. l \in Nat /\ d \in Nat \ {0} /\ d <= l /\ d + 1 = MaxWindows
    <3> HIDE DEF n
    <3> QED BY <1>1, <1>3
  <2>3. W \subseteq Int /\ W # {}
    <3>1. W # {}
      BY <1>1, FS_EmptySet
    <3> QED BY <3>1
  <2>4. /\ \A t \in W : R[t] \in 0 .. l
        /\ \A t, u \in W : t < u => R[t] < R[u]
        /\ \A k \in 0 .. l : \E t \in W : R[t] = k
    BY <2>3, RanksCount
  <2> HIDE DEF S, n, l, d
  <2>5. /\ kept \subseteq 0 .. l /\ 0 \in kept /\ l \in kept
        /\ IsFiniteSet(kept) /\ Cardinality(kept) = d + 1
    BY <2>2, RanksAreSpread
  <2> HIDE DEF kept, R
  <2>6. S \subseteq W /\ IsFiniteSet(S)
    <3>1. S \subseteq W
      BY <2>1
    <3> QED BY <3>1, FS_Subset, Zenon
  <2>7. Cardinality(S) = MaxWindows
    <3>1. \A t, u \in S : R[t] = R[u] => t = u
      <4>1. SUFFICES ASSUME NEW t \in S, NEW u \in S, R[t] = R[u], t # u PROVE FALSE
        OBVIOUS
      <4>2. t \in W /\ u \in W /\ t \in Nat /\ u \in Nat
        BY <2>6
      <4>3. R[t] < R[u] \/ R[u] < R[t]
        BY <2>4, <4>1, <4>2
      <4>4. R[t] \in Int /\ R[u] \in Int
        BY <2>2, <2>4, <4>2
      <4> QED BY <4>1, <4>3, <4>4
    <3>2. ImageOf(R, S) = kept
      <4>1. ASSUME NEW k \in kept PROVE \E t \in S : R[t] = k
        BY <2>1, <2>4, <2>5
      <4> QED BY <2>1, <4>1 DEF ImageOf
    <3> QED BY <2>2, <2>5, <2>6, <3>1, <3>2, Images
  <2>8. /\ Min(W) \in W /\ Max(W) \in W
        /\ \A t \in W : Min(W) <= t /\ t <= Max(W)
    BY <2>3, Extremes
  <2>9. Min(W) \in S
    <3>1. PICK t \in W : R[t] = 0
      BY <2>2, <2>4
    <3>2. ~(Min(W) < t)
      <4>1. R[Min(W)] \in 0 .. l
        BY <2>4, <2>8, Zenon
      <4>2. Min(W) < t => R[Min(W)] < R[t]
        BY <2>4, <2>8, Zenon
      <4> QED BY <2>2, <3>1, <4>1, <4>2
    <3>3. Min(W) = t
      <4>1. Min(W) \in Int /\ t \in Int /\ Min(W) <= t
        BY <2>3, <2>8
      <4> QED BY <3>2, <4>1
    <3> QED BY <2>1, <2>5, <3>1, <3>3
  <2>10. Max(W) \in S
    <3>1. PICK t \in W : R[t] = l
      BY <2>2, <2>4
    <3>2. ~(t < Max(W))
      <4>1. R[Max(W)] \in 0 .. l
        BY <2>4, <2>8, Zenon
      <4>2. t < Max(W) => R[t] < R[Max(W)]
        BY <2>4, <2>8, Zenon
      <4> QED BY <2>2, <3>1, <4>1, <4>2
    <3>3. Max(W) = t
      <4>1. Max(W) \in Int /\ t \in Int /\ t <= Max(W)
        BY <2>3, <2>8
      <4> QED BY <3>2, <4>1
    <3> QED BY <2>1, <2>5, <3>1, <3>3
  <2>11. Min(S) = Min(W) /\ Max(S) = Max(W)
    <3>1. S \subseteq Int /\ S # {}
      BY <2>3, <2>6, <2>9
    <3>2. /\ Min(S) \in S /\ Max(S) \in S
          /\ \A t \in S : Min(S) <= t /\ t <= Max(S)
      BY <2>6, <3>1, Extremes
    <3>3. /\ Min(S) \in Int /\ Min(W) \in Int /\ Min(S) <= Min(W) /\ Min(W) <= Min(S)
          /\ Max(S) \in Int /\ Max(W) \in Int /\ Max(S) <= Max(W) /\ Max(W) <= Max(S)
      BY <2>3, <2>6, <2>8, <2>9, <2>10, <3>1, <3>2
    <3> QED BY <3>3
  <2> QED BY <1>1, <2>6, <2>7, <2>11 DEF S
<1> QED BY <1>2, <1>3

\* Some windows are peaks.
LEMMA PeaksAreThere ==
  ASSUME NEW W, IsFiniteSet(W), W # {}, NEW pts, NEW steps,
         \A t \in W : Actual(pts, t, steps) \in Nat
  PROVE  Peaks(pts, W, steps) \subseteq W /\ Peaks(pts, W, steps) # {}
<1> DEFINE A == [t \in W |-> Actual(pts, t, steps)]
           n == Cardinality(W)
           rank == (9 * (n - 1)) \div 10
           Under(t) == {u \in W : A[u] <= A[t]}
           high == {t \in W : Cardinality(Under(t)) > rank}
           V == {A[t] : t \in high}
           P == Peaks(pts, W, steps)
<1>1. P = {t \in W : A[t] >= Min(V)}
  <2>1. \A t \in W : A[t] = Actual(pts, t, steps)
    OBVIOUS
  <2>2. \A t \in W : {u \in W : Actual(pts, u, steps) <= Actual(pts, t, steps)} = Under(t)
    OBVIOUS
  <2>3. {t \in W : Cardinality({u \in W : Actual(pts, u, steps) <= Actual(pts, t, steps)})
                      > rank} = high
    <3> HIDE DEF Under, rank
    <3> QED BY <2>2
  <2>4. {Actual(pts, t, steps) : t \in high} = V
    <3>1. high \subseteq W
      OBVIOUS
    <3> HIDE DEF high
    <3> QED BY <3>1
  <2>5. P = {t \in W : Actual(pts, t, steps) >= Min(V)}
    <3> HIDE DEF V, A
    <3> QED BY <2>3, <2>4 DEF Peaks
  <2> HIDE DEF V, P
  <2> QED BY <2>5
<1>2. \A t \in W : A[t] \in Nat
  OBVIOUS
<1> HIDE DEF A, P
<1>3. n \in Nat /\ n # 0
  BY FS_CardinalityType, FS_EmptySet
<1>4. rank \in Nat /\ rank < n
  <2> HIDE DEF n
  <2> DEFINE x == 9 * (n - 1)
  <2>1. x \in Nat /\ x = 9 * (n - 1)
    BY <1>3
  <2> HIDE DEF x
  <2>2. x \div 10 \in Nat /\ 10 * (x \div 10) <= x
    BY <2>1, Division
  <2>3. x \div 10 < n
    BY <1>3, <2>1, <2>2
  <2> QED BY <2>2, <2>3 DEF x
<1> HIDE DEF n, rank
<1>5. PICK top \in W : \A u \in W : A[u] <= A[top]
  <2> DEFINE I == ImageOf(A, W)
  <2>1. IsFiniteSet(I)
    BY FiniteImage
  <2>2. I \subseteq Int /\ I # {}
    BY <1>2 DEF ImageOf
  <2> HIDE DEF I
  <2>3. Max(I) \in I /\ \A x \in I : x <= Max(I)
    BY <2>1, <2>2, Extremes
  <2> QED BY <2>3 DEF I, ImageOf
<1>6. top \in high
  <2>1. Under(top) = W
    BY <1>5
  <2> HIDE DEF Under
  <2> QED BY <1>3, <1>4, <2>1 DEF n
<1>7. high \subseteq W
  OBVIOUS
<1> HIDE DEF high
<1>8. V \subseteq Nat /\ V # {}
  BY <1>2, <1>6, <1>7
<1>9. PICK t \in high : A[t] = Min(V)
  <2> HIDE DEF V
  <2>1. Min(V) \in V
    BY <1>8, Smallest
  <2> QED BY <2>1 DEF V
<1> HIDE DEF V
<1>10. t \in P
  BY <1>1, <1>2, <1>7, <1>9
<1>11. P \subseteq W
  BY <1>1
<1> QED BY <1>10, <1>11 DEF P

LEMMA HistoryIsLongEnough ==
  ASSUME NEW lookback \in Nat
  PROVE  History({lookback}) \in Nat \ {0} /\ lookback <= History({lookback})
<1> DEFINE s == Seasons * Season
           H == {s} \cup {lookback}
<1>1. s \in Nat \ {0}
  <2>1. \A i, j \in Nat \ {0} : i * j \in Nat \ {0}
    OBVIOUS
  <2>2. Seasons \in Nat \ {0} /\ Season \in Nat \ {0}
    BY InferenceAssumption, ComparisonAssumption
  <2> QED BY <2>1, <2>2, Zenon
<1> HIDE DEF s
<1>2. IsFiniteSet(H)
  <2>1. IsFiniteSet({s}) /\ IsFiniteSet({lookback})
    BY FS_Singleton
  <2> QED BY <2>1, FS_Union
<1>3. H \subseteq Int /\ H # {} /\ s \in H /\ lookback \in H /\ H \subseteq Nat
  BY <1>1
<1>4. History({lookback}) = Max(H)
  BY DEF History, s
<1> HIDE DEF H
<1>5. Max(H) \in H /\ \A x \in H : x <= Max(H)
  BY <1>2, <1>3, Extremes
<1>6. Max(H) \in Nat /\ s <= Max(H) /\ lookback <= Max(H)
  BY <1>3, <1>5
<1> QED BY <1>1, <1>4, <1>6

LEMMA ActualIsNumber ==
  ASSUME NEW pts \in SUBSET Times, NEW t \in Nat, NEW steps \in Nat \ {0},
         Cardinality(Targets(pts, t, steps)) = steps
  PROVE  Actual(pts, t, steps) \in Nat
<1> DEFINE T == Targets(pts, t, steps)
           V == ImageOf(Level, T)
<1>1. pts \subseteq Nat /\ IsFiniteSet(pts)
  <2>1. pts \subseteq 0 .. MaxTime /\ MaxTime \in Nat
    BY SampleAssumption DEF Times
  <2> QED BY <2>1, FinitelyMany
<1>2. T \subseteq pts /\ T # {} /\ IsFiniteSet(T)
  <2>1. pts \in SUBSET Nat
    BY <1>1
  <2> QED BY <1>1, <2>1, HorizonFollows
<1> HIDE DEF T
<1>3. V \subseteq Nat /\ V \subseteq Int /\ V # {}
  BY <1>2, SampleAssumption DEF ImageOf
<1>4. IsFiniteSet(V)
  BY <1>2, FiniteImage
<1>5. Actual(pts, t, steps) = Max(V)
  BY DEF Actual, ImageOf, T
<1> HIDE DEF V
<1>6. Max(V) \in V
  BY <1>3, <1>4, Extremes
<1> QED BY <1>3, <1>5, <1>6

\* What a comparison is based on, whatever rows there are.
LEMMA EvidenceOf ==
  ASSUME NEW obs \in SUBSET Times, NEW bad, NEW lookback \in Nat,
         NEW steps \in Nat \ {0}, NEW after,
         Compared(obs, bad, {lookback}, steps, after).ok
  PROVE  LET pts == LatestPerSlot(obs)
             c   == Compared(obs, bad, {lookback}, steps, after)
         IN  /\ obs \cap bad = {}
             /\ c.windows \subseteq Complete(pts, History({lookback}), steps, after)
             /\ \A u, v \in c.windows : u < v => EndOf(pts, u, steps) <= v
             /\ Cardinality(c.windows) \in MinWindows .. MaxWindows
             /\ c.start = Min(c.windows) /\ c.end = EndOf(pts, Max(c.windows), steps)
             /\ Max(c.windows) \in c.windows
             /\ c.peaks # {} /\ c.peaks \subseteq c.windows
<1> DEFINE pts  == LatestPerSlot(obs)
           c    == Compared(obs, bad, {lookback}, steps, after)
           h    == History({lookback})
           all  == Disjoint(pts, h, steps, after)
           used == Sampled(all)
<1>1. /\ obs \cap bad = {} /\ ~(Cardinality(all) < MinWindows)
      /\ c.windows = used /\ c.peaks = Peaks(pts, used, steps)
      /\ c.start = Min(all) /\ c.end = EndOf(pts, Max(all), steps)
  BY DEF Compared, NoEvidence
<1>2. pts \in SUBSET Times /\ pts \in SUBSET Nat /\ IsFiniteSet(pts)
  <2>1. obs \subseteq 0 .. MaxTime /\ MaxTime \in Nat
    BY SampleAssumption DEF Times
  <2>2. pts \subseteq obs
    BY DEF LatestPerSlot
  <2> HIDE DEF pts
  <2>3. pts \subseteq 0 .. MaxTime
    BY <2>1, <2>2
  <2>4. pts \subseteq Nat /\ IsFiniteSet(pts)
    BY <2>1, <2>3, FinitelyMany
  <2> QED BY <2>2, <2>4
<1>3. h \in Nat \ {0}
  BY HistoryIsLongEnough
<1> HIDE DEF pts, c, h
<1> DEFINE C == Complete(pts, h, steps, after)
<1>4. /\ all \subseteq C
      /\ \A u, v \in all : u < v => EndOf(pts, u, steps) <= v
  BY <1>2, WindowsFollow
<1>5. C \subseteq pts /\ \A t \in C : Cardinality(Targets(pts, t, steps)) = steps
  BY DEF Complete
<1> HIDE DEF all, C
<1>6. all \in SUBSET Nat /\ IsFiniteSet(all)
  <2>1. all \subseteq pts
    BY <1>4, <1>5
  <2>2. IsFiniteSet(all)
    BY <1>2, <2>1, FS_Subset, Zenon
  <2> QED BY <1>2, <2>1, <2>2
<1>7. MinWindows <= Cardinality(all)
  <2>1. Cardinality(all) \in Nat /\ MinWindows \in Nat
    BY <1>6, FS_CardinalityType, ComparisonAssumption
  <2> QED BY <1>1, <2>1
<1>8. /\ used \subseteq all
      /\ Cardinality(used) \in MinWindows .. MaxWindows
      /\ Min(used) = Min(all) /\ Max(used) = Max(all)
  BY <1>6, <1>7, SampledWindows
<1> HIDE DEF used
<1>9. IsFiniteSet(used) /\ used # {} /\ used \subseteq Int
  <2>1. IsFiniteSet(used)
    BY <1>6, <1>8, FS_Subset, Zenon
  <2>2. used # {}
    <3>1. SUFFICES ASSUME used = {} PROVE FALSE
      OBVIOUS
    <3>2. Cardinality(used) = 0
      BY <3>1, FS_EmptySet
    <3>3. MinWindows \in Nat \ {0} /\ MaxWindows \in Nat
      BY ComparisonAssumption
    <3> QED BY <1>8, <3>2, <3>3
  <2> QED BY <1>6, <1>8, <2>1, <2>2
<1>10. Max(used) \in used
  BY <1>9, Extremes
<1>11. \A t \in used : Actual(pts, t, steps) \in Nat
  <2>1. SUFFICES ASSUME NEW t \in used PROVE Actual(pts, t, steps) \in Nat
    OBVIOUS
  <2>2. t \in Nat /\ Cardinality(Targets(pts, t, steps)) = steps
    BY <1>4, <1>5, <1>6, <1>8
  <2> QED BY <1>2, <2>2, ActualIsNumber
<1>12. Peaks(pts, used, steps) \subseteq used /\ Peaks(pts, used, steps) # {}
  BY <1>9, <1>11, PeaksAreThere
<1>13. used \subseteq C /\ \A u, v \in used : u < v => EndOf(pts, u, steps) <= v
  BY <1>4, <1>8
<1> QED BY <1>1, <1>8, <1>10, <1>12, <1>13 DEF pts, c, h, C

\* The horizons of two windows share no slot.
LEMMA HorizonsApart ==
  ASSUME NEW pts \in SUBSET Nat, IsFiniteSet(pts), Apart(pts),
         NEW steps \in Nat \ {0}, NEW t \in pts, NEW u \in pts,
         Cardinality(Targets(pts, t, steps)) = steps,
         Cardinality(Targets(pts, u, steps)) = steps,
         t < u => EndOf(pts, t, steps) <= u, u < t => EndOf(pts, u, steps) <= t, t # u
  PROVE  {SlotOf(x) : x \in Targets(pts, t, steps)}
            \cap {SlotOf(x) : x \in Targets(pts, u, steps)} = {}
<1> DEFINE T == Targets(pts, t, steps)
           U == Targets(pts, u, steps)
           e == EndOf(pts, t, steps)
           g == EndOf(pts, u, steps)
<1>1. t \in Nat /\ u \in Nat
  OBVIOUS
<1>2. /\ T \subseteq pts /\ e \in T /\ \A x \in T : t < x /\ x <= e
      /\ U \subseteq pts /\ g \in U /\ \A x \in U : u < x /\ x <= g
  BY <1>1, HorizonFollows
<1> HIDE DEF T, U
<1>3. (t < u /\ e <= u) \/ (u < t /\ g <= t)
  BY <1>1
<1> HIDE DEF e, g
<1>4. ASSUME NEW x \in T, NEW y \in U PROVE SlotOf(x) # SlotOf(y)
  <2>1. x \in pts /\ y \in pts /\ x \in Nat /\ y \in Nat /\ e \in Nat /\ g \in Nat
    BY <1>2
  <2>2. t < x /\ x <= e /\ u < y /\ y <= g
    BY <1>2
  <2>3. x # y
    BY <1>1, <1>3, <2>1, <2>2
  <2> QED BY <2>1, <2>3 DEF Apart
<1> DEFINE A == {SlotOf(x) : x \in T}
           B == {SlotOf(x) : x \in U}
<1>5. A \cap B = {}
  BY <1>4
<1> QED BY <1>5 DEF T, U

LEMMA WindowHasSlots == Window \div Interval \in Nat \ {0}
<1> DEFINE q == Window \div Interval
<1>1. Window \in Nat \ {0} /\ Interval \in Nat \ {0} /\ SlotOf(Window) = Window
  BY WindowIsSlot, InferenceAssumption
<1>2. q \in Nat /\ Window = Interval * q
  BY <1>1, Division DEF SlotOf
<1> HIDE DEF q
<1>3. q # 0
  <2>1. SUFFICES ASSUME q = 0 PROVE FALSE
    OBVIOUS
  <2>2. Interval * q = 0
    BY <1>1, <2>1
  <2> QED BY <1>1, <1>2, <2>2
<1> QED BY <1>2, <1>3 DEF q

\* What is fitted is before the cutoff.
LEMMA CutoffIsLast ==
  ASSUME Typed, NEW x \in FitSamples(job.used)
  PROVE  Cutoff \in Nat /\ x \in Nat /\ x <= Cutoff
<1> DEFINE F == FitSamples(job.used)
<1>1. F \subseteq 0 .. MaxTime /\ MaxTime \in Nat
  BY SampleAssumption DEF Typed, TrainingTyped, JobType, FitSamples, Times
<1> HIDE DEF F
<1>2. IsFiniteSet(F) /\ F \subseteq Int /\ F \subseteq Nat
  BY <1>1, FinitelyMany
<1>3. x \in F
  BY DEF F
<1>4. Max(F) \in F /\ \A y \in F : y <= Max(F)
  BY <1>2, <1>3, Extremes
<1> QED BY <1>2, <1>3, <1>4 DEF Cutoff, F

\* A fitted model is evaluated on fair evidence.
LEMMA EvidenceStep == ASSUME Typed PROVE EvidenceIsFair
<1> SUFFICES ASSUME job.pc = "fitting", NEW steps \in 1 .. 2, NEW lookback \in {0, 2},
                    Compared(Stored(JobSource), hole.negative, {lookback}, steps, Cutoff).ok
             PROVE
        LET obs == Stored(JobSource)
            pts == LatestPerSlot(obs)
            c   == Compared(obs, hole.negative, {lookback}, steps, Cutoff)
            slots(t) == {SlotOf(u) : u \in Targets(pts, t, steps)}
        IN  /\ Cardinality(c.windows) \in MinWindows .. MaxWindows
            /\ c.start = Min(c.windows)
            /\ c.end = EndOf(pts, Max(c.windows), steps) /\ c.end <= now
            /\ c.peaks # {} /\ c.peaks \subseteq c.windows
            /\ \A t \in c.windows :
                LET input == InputAt(pts, t, lookback, Window \div Interval)
                IN  /\ slots(t) = {SlotOf(t) + k * Interval : k \in 1 .. steps}
                    /\ Targets(pts, t, steps) \cap FitSamples(job.used) = {}
                    /\ Max(input) = t /\ NoSlotMissing(input)
                    /\ lookback > 0 => Cardinality(input) = lookback
                    /\ obs \cap hole.negative = {}
                    /\ \A u \in c.windows \ {t} : slots(t) \cap slots(u) = {}
  BY Zenon DEF EvidenceIsFair
<1> DEFINE obs == Stored(JobSource)
           bad == hole.negative
           pts == LatestPerSlot(obs)
           c   == Compared(obs, bad, {lookback}, steps, Cutoff)
           h   == History({lookback})
           w   == Window \div Interval
           C   == Complete(pts, h, steps, Cutoff)
           slots(t) == {SlotOf(u) : u \in Targets(pts, t, steps)}
<1>1. obs \in SUBSET Times /\ \A t \in obs : t <= now
  <2>1. JobSource \in Sources
    BY JobSourceIsKnown DEF Typed, TrainingTyped
  <2> QED BY <2>1 DEF Typed, RowsTyped, Stored
<1>2. steps \in Nat \ {0} /\ lookback \in Nat /\ c.ok
  OBVIOUS
<1> HIDE DEF obs, bad
<1>3. /\ obs \cap bad = {} /\ c.windows \subseteq C
      /\ \A u, v \in c.windows : u < v => EndOf(pts, u, steps) <= v
      /\ Cardinality(c.windows) \in MinWindows .. MaxWindows
      /\ c.start = Min(c.windows) /\ c.end = EndOf(pts, Max(c.windows), steps)
      /\ Max(c.windows) \in c.windows
      /\ c.peaks # {} /\ c.peaks \subseteq c.windows
  <2>1. PICK o \in SUBSET Times : o = obs
    BY <1>1
  <2>2. PICK b, a : b = bad /\ a = Cutoff
    OBVIOUS
  <2> HIDE DEF C
  <2>3. Compared(o, b, {lookback}, steps, a).ok
    BY <1>2, <2>1, <2>2
  <2>4. LET p == LatestPerSlot(o)
            e == Compared(o, b, {lookback}, steps, a)
        IN  /\ o \cap b = {}
            /\ e.windows \subseteq Complete(p, History({lookback}), steps, a)
            /\ \A u, v \in e.windows : u < v => EndOf(p, u, steps) <= v
            /\ Cardinality(e.windows) \in MinWindows .. MaxWindows
            /\ e.start = Min(e.windows) /\ e.end = EndOf(p, Max(e.windows), steps)
            /\ Max(e.windows) \in e.windows
            /\ e.peaks # {} /\ e.peaks \subseteq e.windows
    BY <1>2, <2>3, EvidenceOf
  <2> QED BY <2>1, <2>2, <2>4 DEF C
<1> HIDE DEF c
<1>4. pts \subseteq obs /\ pts \in SUBSET Nat /\ IsFiniteSet(pts) /\ Apart(pts)
  <2>1. obs \subseteq 0 .. MaxTime /\ MaxTime \in Nat /\ obs \subseteq Nat
    BY <1>1, SampleAssumption DEF Times
  <2>2. /\ pts \subseteq obs
        /\ \A t, u \in pts : SlotOf(t) = SlotOf(u) => t = u
    <3>1. \A x \in obs : x <= MaxTime
      BY <2>1
    <3> QED BY <2>1, <3>1, OnePerSlot
  <2> HIDE DEF pts
  <2>3. pts \subseteq 0 .. MaxTime
    BY <2>1, <2>2
  <2>4. IsFiniteSet(pts) /\ pts \subseteq Nat
    BY <2>1, <2>3, FinitelyMany
  <2> QED BY <2>2, <2>4 DEF Apart
<1>5. h \in Nat \ {0} /\ lookback \in 0 .. h
  <2>1. h \in Nat \ {0} /\ lookback <= h
    BY <1>2, HistoryIsLongEnough
  <2> HIDE DEF h
  <2> QED BY <1>2, <2>1
<1>6. w \in Nat \ {0}
  BY WindowHasSlots
<1> HIDE DEF pts, h, w
<1>7. ASSUME NEW t \in C
      PROVE  t \in pts /\ t \in Nat /\ Cardinality(Targets(pts, t, steps)) = steps
             /\ t >= Cutoff
  BY <1>4 DEF Complete, Unseen
<1>8. c.end <= now
  <2>1. PICK t \in C : t = Max(c.windows)
    BY <1>3
  <2>2. EndOf(pts, t, steps) \in pts
    BY <1>2, <1>4, <1>7, HorizonFollows
  <2> QED BY <1>1, <1>3, <1>4, <2>1, <2>2
<1>9. ASSUME NEW t \in c.windows
      PROVE  /\ slots(t) = {SlotOf(t) + k * Interval : k \in 1 .. steps}
             /\ Targets(pts, t, steps) \cap FitSamples(job.used) = {}
             /\ Max(InputAt(pts, t, lookback, w)) = t
             /\ NoSlotMissing(InputAt(pts, t, lookback, w))
             /\ lookback > 0 => Cardinality(InputAt(pts, t, lookback, w)) = lookback
             /\ \A u \in c.windows \ {t} : slots(t) \cap slots(u) = {}
  <2>1. t \in C
    BY <1>3
  <2>2. slots(t) = {SlotOf(t) + k * Interval : k \in 1 .. steps}
    <3>1. PICK p \in SUBSET Nat : p = pts
      BY <1>4
    <3>2. PICK a, l : a = Cutoff /\ l = h
      OBVIOUS
    <3>3. t \in Complete(p, l, steps, a) /\ l \in Nat \ {0} /\ IsFiniteSet(p) /\ Apart(p)
      BY <1>4, <1>5, <2>1, <3>1, <3>2
    <3>4. {SlotOf(u) : u \in Targets(p, t, steps)}
            = {SlotOf(t) + k * Interval : k \in 1 .. steps}
      BY <1>2, <3>3, HorizonSlots
    <3> QED BY <3>1, <3>4
  <2>3. /\ Max(InputAt(pts, t, lookback, w)) = t
        /\ NoSlotMissing(InputAt(pts, t, lookback, w))
        /\ lookback > 0 => Cardinality(InputAt(pts, t, lookback, w)) = lookback
    BY <1>2, <1>4, <1>5, <1>6, <2>1, InputIsWhole
  <2>4. ASSUME NEW x \in Targets(pts, t, steps) PROVE x \notin FitSamples(job.used)
    <3>1. SUFFICES ASSUME x \in FitSamples(job.used) PROVE FALSE
      OBVIOUS
    <3>2. Cutoff \in Nat /\ x \in Nat /\ x <= Cutoff
      BY <3>1, CutoffIsLast
    <3>3. t < x
      BY <1>2, <1>4, <1>7, <2>1, HorizonFollows
    <3>4. t \in Nat /\ t >= Cutoff
      BY <1>7, <2>1
    <3> QED BY <3>2, <3>3, <3>4
  <2>5. ASSUME NEW u \in c.windows \ {t} PROVE slots(t) \cap slots(u) = {}
    <3>1. u \in C /\ u # t /\ u \in c.windows
      BY <1>3
    <3>2. (t < u => EndOf(pts, t, steps) <= u) /\ (u < t => EndOf(pts, u, steps) <= t)
      BY <1>3, <3>1
    <3> HIDE DEF C
    <3> QED BY <1>2, <1>4, <1>7, <2>1, <3>1, <3>2, HorizonsApart
  <2> HIDE DEF slots
  <2> QED BY <2>2, <2>3, <2>4, <2>5
<1> QED BY <1>3, <1>8, <1>9 DEF obs, bad, pts, c, w

\* An evaluation of the fitted model is based on whole horizons that do not
\* overlap, on none of what was fitted, with inputs without a missing slot
\* (CompareArtifacts).
THEOREM FairEvidence == Spec => []EvidenceIsFair
<1>1. Typed => EvidenceIsFair
  BY EvidenceStep
<1> QED BY <1>1, AlwaysTyped, PTL
=============================================================================
