------------------------ MODULE WorkloadReconcileProofs ------------------------
(***************************************************************************)
(* Theorems about WorkloadReconcile: what row locks and the order of the   *)
(* statements guarantee for any number of controllers and triggers.        *)
(***************************************************************************)
EXTENDS WorkloadReconcile, FiniteSetTheorems, WellFoundedInduction, TLAPS

-----------------------------------------------------------------------------
(* The places of a list of triggers.                                         *)

LEMMA Smallest ==
  ASSUME NEW S, S \subseteq Nat, S # {}
  PROVE  Min(S) \in S /\ \A y \in S : Min(S) <= y
<1>1. PICK m \in S : \A y \in S : ~(<<y, m>> \in OpToRel(<, Nat))
  BY WFMin, NatLessThanWellFounded, Zenon
<1>2. \A y \in S : ~(y < m)
  BY <1>1, Zenon DEF OpToRel
<1>3. \A y \in S : m <= y
  BY <1>2
<1>4. \E x \in S : \A y \in S : x <= y
  BY <1>3
<1> QED BY <1>4 DEF Min

\* No two triggers of an object become workloads under one name.
LEMMA NamesOnce ==
  ASSUME NEW spec \in Specs \cup {<<>>}
  PROVE  /\ Parse(spec) \subseteq Nat
         /\ \A i \in Parse(spec) :
                spec[i] \in Triggers /\ spec[i].name \in Names /\ spec[i].rev \in Revs
         /\ \A i, j \in Parse(spec) : spec[i].name = spec[j].name => i = j
<1>1. CASE spec = <<>>
  BY <1>1 DEF Parse
<1>2. CASE spec \in Specs
  <2>1. DOMAIN spec = 1 .. Len(spec) /\ Len(spec) \in Nat
    BY <1>2, ReconcileAssumption
  <2>2. \A i \in DOMAIN spec : spec[i] \in Triggers
    <3> DEFINE own == {spec[i] : i \in DOMAIN spec}
    <3>1. own \in {{s[i] : i \in DOMAIN s} : s \in Specs}
      BY <1>2
    <3>2. own \subseteq Triggers
      BY <3>1, Zenon DEF Triggers
    <3> QED BY <3>2
  <2>3. ASSUME NEW i \in Parse(spec), NEW j \in Parse(spec), spec[i].name = spec[j].name
        PROVE  i = j
    <3> DEFINE same == {k \in DOMAIN spec : spec[k].name = spec[i].name
                                            \/ spec[k].source = spec[i].source}
    <3>1. Cardinality(same) = 1
      BY DEF Parse, Alone
    <3>2. IsFiniteSet(same)
      <4>1. same \subseteq 1 .. Len(spec)
        BY <2>1
      <4>2. IsFiniteSet(1 .. Len(spec))
        BY <2>1, FS_Interval
      <4> QED BY <4>1, <4>2, FS_Subset
    <3>3. PICK x : same = {x}
      BY <3>1, <3>2, FS_Singleton
    <3>4. i \in same /\ j \in same
      BY <2>3 DEF Parse
    <3> QED BY <3>3, <3>4
  <2> QED BY <2>1, <2>2, <2>3 DEF Parse, Names, Revs
<1> QED BY <1>1, <1>2

-----------------------------------------------------------------------------
(* Types.                                                                    *)

HistoryTyped == history \in Seq(Specs \cup {Absent}) /\ history # <<>>

ProcTyped(c) ==
    /\ proc[c] \in ProcType
    /\ proc[c].seen \in 1 .. Len(history)
    /\ proc[c].todo \subseteq Parse(proc[c].work)
    /\ proc[c].pc \in {"select", "upsert"} <=> proc[c].todo # {}
    /\ \A n \in proc[c].targets : table[n] # NoRow

ProcsTyped == /\ proc \in [Controllers -> ProcType]
              /\ \A c \in Controllers : ProcTyped(c)

RestTyped == /\ lease \in Controllers \cup {NoOne}
             /\ table \in [Names -> Rows \cup {NoRow}]
             /\ overlap \in BOOLEAN /\ faults \in 0 .. MaxFaults

Typed == HistoryTyped /\ ProcsTyped /\ RestTyped

\* The trigger at hand is one of the object's.
LEMMA AtHand ==
  ASSUME Typed, NEW c \in Controllers, proc[c].pc \in {"select", "upsert"}
  PROVE  /\ Place(c) \in proc[c].todo /\ Place(c) \in Parse(proc[c].work)
         /\ Current(c) = proc[c].work[Place(c)]
         /\ Current(c).name \in Names /\ Current(c).rev \in Revs
         /\ Current(c).name \in Working(c)
         /\ Upserted(c) \in Rows
<1>1. proc[c].work \in Specs \cup {<<>>} /\ proc[c].todo # {} /\ proc[c].todo \subseteq Parse(proc[c].work)
  BY DEF Typed, ProcsTyped, ProcTyped, ProcType
<1>2. Parse(proc[c].work) \subseteq Nat
  BY <1>1, NamesOnce
<1>3. Place(c) \in proc[c].todo /\ Place(c) \in Parse(proc[c].work)
  BY <1>1, <1>2, Smallest DEF Place
<1>4. Current(c) = proc[c].work[Place(c)]
  BY DEF Current
<1>5. Current(c).name \in Names /\ Current(c).rev \in Revs
  BY <1>1, <1>3, <1>4, NamesOnce
<1> QED BY <1>3, <1>4, <1>5 DEF Working, Upserted, Rows

LEMMA FaultTyped == ASSUME RestTyped, Fault \/ UNCHANGED faults PROVE faults' \in 0 .. MaxFaults
  BY ReconcileAssumption DEF RestTyped, Fault

-----------------------------------------------------------------------------
(* What the steps do to the process that takes them.                         *)

Others(c) == /\ proc' \in [Controllers -> ProcType]
             /\ \A d \in Controllers \ {c} : proc'[d] = proc[d]

\* The process is left without a transaction.
Cleared(c) ==
    /\ Others(c) /\ UNCHANGED history
    /\ proc'[c].pc = "idle" /\ proc'[c].todo = {} /\ proc'[c].locks = {}
    /\ proc'[c].clears = {} /\ proc'[c].writes = NoWrites /\ proc'[c].targets = {}
    /\ proc'[c].seen \in 1 .. Len(history)

\* It only learns of the object.
Notified(c) ==
    /\ Others(c) /\ UNCHANGED history
    /\ proc'[c].seen \in 1 .. Len(history)
    /\ proc'[c].pc = proc[c].pc /\ proc'[c].work = proc[c].work
    /\ proc'[c].todo = proc[c].todo /\ proc'[c].locks = proc[c].locks
    /\ proc'[c].writes = proc[c].writes /\ proc'[c].fresh = proc[c].fresh
    /\ proc'[c].clears = proc[c].clears /\ proc'[c].targets = proc[c].targets

LEMMA StandbyTyped ==
  /\ Standby \in ProcType /\ Standby.seen = 1 /\ Standby.todo = {}
  /\ Standby.pc = "idle" /\ Standby.locks = {} /\ Standby.clears = {}
  /\ Standby.writes = NoWrites /\ Standby.targets = {}
  BY DEF Standby, ProcType, NoWrites

LEMMA Ends ==
  ASSUME Typed, NEW c \in Controllers, UNCHANGED history,
         \/ proc' = [proc EXCEPT ![c] = Standby]
         \/ \E again \in BOOLEAN : proc' = [proc EXCEPT ![c] = Ended(c, again)]
  PROVE  Cleared(c)
<1>1. /\ proc \in [Controllers -> ProcType] /\ proc[c] \in ProcType
      /\ proc[c].seen \in 1 .. Len(history) /\ Len(history) \in Nat \ {0}
  BY DEF Typed, ProcsTyped, ProcTyped, HistoryTyped
<1>2. CASE proc' = [proc EXCEPT ![c] = Standby]
  BY <1>1, <1>2, StandbyTyped DEF Cleared, Others
<1>3. ASSUME NEW again \in BOOLEAN, proc' = [proc EXCEPT ![c] = Ended(c, again)]
      PROVE  Cleared(c)
  <2> DEFINE e == Ended(c, again)
  <2>1. /\ e \in ProcType /\ e.pc = "idle" /\ e.todo = {} /\ e.locks = {}
        /\ e.clears = {} /\ e.writes = NoWrites /\ e.targets = {} /\ e.seen = proc[c].seen
    <3>1. proc[c].queued \/ again \in BOOLEAN
      OBVIOUS
    <3> QED BY <1>1, <3>1 DEF Ended, Standby, ProcType, NoWrites
  <2> HIDE DEF e
  <2>2. proc' = [proc EXCEPT ![c] = e]
    BY <1>3 DEF e
  <2> QED BY <1>1, <2>1, <2>2 DEF Cleared, Others
<1> QED BY <1>2, <1>3

LEMMA AcquireEffect == ASSUME Typed, NEW c \in Controllers, Acquire(c) PROVE Cleared(c)
<1>1. proc \in [Controllers -> ProcType] /\ Len(history) \in Nat \ {0}
  BY DEF Typed, ProcsTyped, HistoryTyped
<1>2. PICK n \in 1 .. Len(history), q \in BOOLEAN :
        proc' = [proc EXCEPT ![c] =
                    [Standby EXCEPT !.leads = TRUE, !.seen = n, !.queued = q]]
  BY DEF Acquire
<1> DEFINE s == [Standby EXCEPT !.leads = TRUE, !.seen = n, !.queued = q]
<1>3. /\ s \in ProcType /\ s.pc = "idle" /\ s.todo = {} /\ s.locks = {}
      /\ s.clears = {} /\ s.writes = NoWrites /\ s.targets = {} /\ s.seen = n
  <2>1. n \in Nat
    BY <1>1
  <2> QED BY <2>1, StandbyTyped DEF ProcType
<1>4. UNCHANGED history
  BY DEF Acquire
<1> HIDE DEF s
<1>5. proc' = [proc EXCEPT ![c] = s]
  BY <1>2 DEF s
<1> QED BY <1>1, <1>3, <1>4, <1>5 DEF Cleared, Others

LEMMA EndsEffect ==
  ASSUME Typed, NEW c \in Controllers,
         Exit(c) \/ Crash(c) \/ Commit(c) \/ Fail(c) \/ Reject(c) \/ Deadlock(c)
  PROVE  Cleared(c)
  BY Ends DEF Exit, Crash, Commit, Fail, Reject, Deadlock, Retry

LEMMA NotifiedEffect ==
  ASSUME Typed, NEW c \in Controllers, Deliver(c) \/ Resync(c)
  PROVE  Notified(c)
<1>1. /\ proc \in [Controllers -> ProcType] /\ proc[c] \in ProcType
      /\ proc[c].seen \in 1 .. Len(history) /\ Len(history) \in Nat
  BY DEF Typed, ProcsTyped, ProcTyped, HistoryTyped
<1>2. CASE Deliver(c)
  <2> DEFINE n == proc[c].seen + 1
             p == [proc[c] EXCEPT !.seen = n, !.queued = TRUE]
  <2>1. n \in 1 .. Len(history) /\ n \in Nat
    BY <1>1, <1>2 DEF Deliver
  <2>2. proc' = [proc EXCEPT ![c] = p] /\ UNCHANGED history
    BY <1>1, <1>2 DEF Deliver
  <2> HIDE DEF n
  <2>3. /\ p \in ProcType /\ p.seen = n /\ p.pc = proc[c].pc /\ p.work = proc[c].work
        /\ p.todo = proc[c].todo /\ p.locks = proc[c].locks
        /\ p.writes = proc[c].writes /\ p.fresh = proc[c].fresh
        /\ p.clears = proc[c].clears /\ p.targets = proc[c].targets
    BY <1>1, <2>1 DEF ProcType
  <2> HIDE DEF p
  <2> QED BY <1>1, <2>1, <2>2, <2>3 DEF Notified, Others
<1>3. CASE Resync(c)
  BY <1>1, <1>3 DEF Resync, Notified, Others, ProcType
<1> QED BY <1>2, <1>3

\* What stays of a process that goes on with its transaction.
GoesOn(c) ==
    /\ Others(c) /\ UNCHANGED <<history, table>>
    /\ proc'[c] \in ProcType
    /\ proc'[c].seen = proc[c].seen /\ proc'[c].work = proc[c].work

LEMMA StartEffect ==
  ASSUME Typed, NEW c \in Controllers, StartReconcile(c)
  PROVE  /\ Others(c) /\ UNCHANGED <<history, table>> /\ proc'[c] \in ProcType
         /\ proc[c].pc = "idle" /\ proc'[c].seen = proc[c].seen
         /\ proc'[c].work = Work(history[proc[c].seen])
         /\ proc'[c].todo = Parse(proc'[c].work)
         /\ proc'[c].pc = IF proc'[c].todo = {} THEN "scan" ELSE "select"
         /\ proc'[c].locks = proc[c].locks /\ proc'[c].clears = proc[c].clears
         /\ proc'[c].writes = proc[c].writes /\ proc'[c].targets = proc[c].targets
<1> DEFINE work == Work(history[proc[c].seen])
           next == IF Parse(work) = {} THEN "scan" ELSE "select"
           places == Parse(work)
           p == [proc[c] EXCEPT !.queued = FALSE, !.work = work, !.todo = places, !.pc = next]
<1>1. proc \in [Controllers -> ProcType] /\ proc[c] \in ProcType
  BY DEF Typed, ProcsTyped, ProcTyped
<1>2. work \in Specs \cup {<<>>} /\ places \subseteq Nat
  <2>1. history[proc[c].seen] \in Specs \cup {Absent}
    BY DEF Typed, HistoryTyped, ProcsTyped, ProcTyped
  <2>2. work \in Specs \cup {<<>>}
    BY <2>1 DEF Work
  <2> QED BY <2>2, NamesOnce
<1>3. /\ proc' = [proc EXCEPT ![c] = p] /\ UNCHANGED <<history, table>>
      /\ proc[c].pc = "idle"
  BY <1>1 DEF StartReconcile
<1> HIDE DEF work, places
<1>4. next \in {"scan", "select"}
  OBVIOUS
<1> HIDE DEF next
<1>5. /\ p \in ProcType /\ p.seen = proc[c].seen /\ p.work = work /\ p.todo = places
      /\ p.pc = next /\ p.locks = proc[c].locks /\ p.clears = proc[c].clears
      /\ p.writes = proc[c].writes /\ p.targets = proc[c].targets
  BY <1>1, <1>2, <1>4 DEF ProcType
<1> HIDE DEF p
<1>6. proc'[c] = p /\ Others(c)
  BY <1>1, <1>3, <1>5 DEF Others
<1> QED BY <1>3, <1>5, <1>6 DEF work, places, next

LEMMA SelectEffect ==
  ASSUME Typed, NEW c \in Controllers, Select(c)
  PROVE  LET n == Current(c).name
         IN  /\ GoesOn(c) /\ proc[c].pc = "select" /\ proc'[c].pc = "upsert"
             /\ proc'[c].todo = proc[c].todo /\ proc'[c].writes = proc[c].writes
             /\ proc'[c].targets = proc[c].targets
             /\ \/ /\ table[n] # NoRow /\ ~Locked(c, n)
                   /\ proc'[c].locks = proc[c].locks \cup {n}
                   /\ proc'[c].fresh = proc[c].fresh
                   /\ \/ proc'[c].clears = proc[c].clears
                      \/ /\ proc'[c].clears = proc[c].clears \cup {n}
                         /\ Current(c).rev # table[n].rev
                \/ /\ table[n] = NoRow
                   /\ proc'[c].locks = proc[c].locks
                   /\ proc'[c].fresh = proc[c].fresh \cup {n}
                   /\ proc'[c].clears \in {proc[c].clears, proc[c].clears \cup {n}}
<1> DEFINE n == Current(c).name
<1>1. proc \in [Controllers -> ProcType] /\ proc[c] \in ProcType
  BY DEF Typed, ProcsTyped, ProcTyped
<1>2. /\ proc[c].pc = "select" /\ UNCHANGED <<history, table>>
      /\ n \in Names
  BY AtHand DEF Select
<1>3. PICK locks, clears, fresh :
        /\ proc' = [proc EXCEPT ![c] = [proc[c] EXCEPT !.pc = "upsert", !.locks = locks,
                                                       !.clears = clears, !.fresh = fresh]]
        /\ \/ /\ table[n] # NoRow /\ ~Locked(c, n)
              /\ locks = proc[c].locks \cup {n} /\ fresh = proc[c].fresh
              /\ \/ clears = proc[c].clears
                 \/ clears = proc[c].clears \cup {n} /\ Current(c).rev # table[n].rev
           \/ /\ table[n] = NoRow
              /\ locks = proc[c].locks /\ fresh = proc[c].fresh \cup {n}
              /\ clears \in {proc[c].clears, proc[c].clears \cup {n}}
  <2>1. CASE /\ table[n] # NoRow /\ ~Locked(c, n)
             /\ proc' = [proc EXCEPT ![c].pc = "upsert",
                            ![c].locks = @ \cup RowLock(c),
                            ![c].clears =
                                IF Current(c).rev \in Clearing \ {table[n].rev}
                                THEN @ \cup {n} ELSE @]
    <3> DEFINE locks == proc[c].locks \cup {n}
               clears == IF Current(c).rev \in Clearing \ {table[n].rev}
                         THEN proc[c].clears \cup {n} ELSE proc[c].clears
    <3>1. proc' = [proc EXCEPT ![c] = [proc[c] EXCEPT !.pc = "upsert", !.locks = locks,
                                            !.clears = clears, !.fresh = proc[c].fresh]]
      BY <1>1, <2>1 DEF RowLock, ProcType
    <3>2. \/ clears = proc[c].clears
          \/ clears = proc[c].clears \cup {n} /\ Current(c).rev # table[n].rev
      OBVIOUS
    <3> HIDE DEF clears
    <3> QED BY <2>1, <3>1, <3>2
  <2>2. CASE /\ table[n] = NoRow
             /\ proc' = [proc EXCEPT ![c].pc = "upsert", ![c].fresh = @ \cup {n},
                            ![c].clears = IF Current(c).rev \in Clearing
                                          THEN @ \cup {n} ELSE @]
    <3> DEFINE fresh == proc[c].fresh \cup {n}
               clears == IF Current(c).rev \in Clearing
                         THEN proc[c].clears \cup {n} ELSE proc[c].clears
    <3>1. proc' = [proc EXCEPT ![c] = [proc[c] EXCEPT !.pc = "upsert", !.locks = proc[c].locks,
                                            !.clears = clears, !.fresh = fresh]]
      BY <1>1, <2>2 DEF ProcType
    <3>2. clears \in {proc[c].clears, proc[c].clears \cup {n}}
      OBVIOUS
    <3> HIDE DEF clears
    <3> QED BY <2>2, <3>1, <3>2
  <2> QED BY <2>1, <2>2 DEF Select
<1> DEFINE p == [proc[c] EXCEPT !.pc = "upsert", !.locks = locks,
                                !.clears = clears, !.fresh = fresh]
<1> HIDE DEF n
<1>4. locks \subseteq Names /\ clears \subseteq Names /\ fresh \subseteq Names
  BY <1>1, <1>2, <1>3 DEF ProcType
<1>5. /\ p \in ProcType /\ p.pc = "upsert" /\ p.locks = locks /\ p.clears = clears
      /\ p.fresh = fresh /\ p.todo = proc[c].todo /\ p.writes = proc[c].writes
      /\ p.seen = proc[c].seen /\ p.work = proc[c].work /\ p.targets = proc[c].targets
  BY <1>1, <1>4 DEF ProcType
<1>6. proc' = [proc EXCEPT ![c] = p]
  BY <1>3
<1> HIDE DEF p
<1>7. proc'[c] = p /\ Others(c)
  BY <1>1, <1>5, <1>6 DEF Others
<1> QED BY <1>2, <1>3, <1>5, <1>7 DEF GoesOn, n

LEMMA UpsertEffect ==
  ASSUME Typed, NEW c \in Controllers, Upsert(c)
  PROVE  LET n == Current(c).name
         IN  /\ GoesOn(c) /\ proc[c].pc = "upsert" /\ ~Locked(c, n)
             /\ proc'[c].todo = proc[c].todo \ {Place(c)}
             /\ proc'[c].pc = IF proc'[c].todo = {} THEN "scan" ELSE "select"
             /\ proc'[c].locks = proc[c].locks \cup {n}
             /\ proc'[c].writes = [proc[c].writes EXCEPT ![n] = Upserted(c)]
             /\ proc'[c].fresh = proc[c].fresh /\ proc'[c].clears = proc[c].clears
             /\ proc'[c].targets = proc[c].targets
<1> DEFINE n == Current(c).name
           todo == proc[c].todo \ {Place(c)}
           next == IF todo = {} THEN "scan" ELSE "select"
           locks == proc[c].locks \cup {n}
           writes == [proc[c].writes EXCEPT ![n] = Upserted(c)]
           p == [proc[c] EXCEPT !.pc = next, !.todo = todo, !.locks = locks, !.writes = writes]
<1>1. proc \in [Controllers -> ProcType] /\ proc[c] \in ProcType
  BY DEF Typed, ProcsTyped, ProcTyped
<1>2. /\ proc[c].pc = "upsert" /\ UNCHANGED <<history, table>> /\ ~Locked(c, n)
      /\ n \in Names /\ Upserted(c) \in Rows /\ Place(c) \in proc[c].todo
  BY AtHand DEF Upsert
<1>3. Onward(c) = next
  BY <1>2 DEF Onward
<1>4. proc' = [proc EXCEPT ![c] = p]
  <2>1. proc' = [proc EXCEPT ![c].locks = @ \cup {n},
                    ![c].writes[n] = Upserted(c),
                    ![c].todo = @ \ {Place(c)},
                    ![c].pc = Onward(c)]
    BY DEF Upsert
  <2> HIDE DEF n, next
  <2> QED BY <1>1, <1>3, <2>1 DEF ProcType
<1>5. locks \subseteq Names /\ todo \subseteq Nat
  BY <1>1, <1>2 DEF ProcType
<1>6. writes \in [Names -> Rows \cup {NoRow}]
  BY <1>1, <1>2 DEF ProcType
<1>7. next \in {"scan", "select"}
  OBVIOUS
<1> HIDE DEF n, todo, next, locks, writes
<1>8. /\ p \in ProcType /\ p.pc = next /\ p.locks = locks /\ p.clears = proc[c].clears
      /\ p.fresh = proc[c].fresh /\ p.todo = todo /\ p.writes = writes
      /\ p.seen = proc[c].seen /\ p.work = proc[c].work /\ p.targets = proc[c].targets
  BY <1>1, <1>5, <1>6, <1>7 DEF ProcType
<1> HIDE DEF p
<1>9. proc'[c] = p /\ Others(c)
  BY <1>1, <1>4, <1>8 DEF Others
<1> QED BY <1>2, <1>8, <1>9 DEF GoesOn, n, todo, next, locks, writes

LEMMA ScanEffect ==
  ASSUME Typed, NEW c \in Controllers, Scan(c)
  PROVE  /\ GoesOn(c) /\ proc[c].pc = "scan" /\ proc'[c].pc = "deactivate"
         /\ proc'[c].todo = proc[c].todo /\ proc'[c].locks = proc[c].locks
         /\ proc'[c].writes = proc[c].writes /\ proc'[c].fresh = proc[c].fresh
         /\ proc'[c].clears = proc[c].clears
         /\ proc'[c].targets = Missing(c)
<1> DEFINE targets == Missing(c)
           p == [proc[c] EXCEPT !.pc = "deactivate", !.targets = targets]
<1>1. proc \in [Controllers -> ProcType] /\ proc[c] \in ProcType
  BY DEF Typed, ProcsTyped, ProcTyped
<1>2. targets \subseteq Names
  BY DEF Missing
<1> HIDE DEF targets
<1>3. /\ proc' = [proc EXCEPT ![c] = p] /\ UNCHANGED <<history, table>>
      /\ proc[c].pc = "scan"
  BY <1>1 DEF Scan, targets
<1>4. /\ p \in ProcType /\ p.pc = "deactivate" /\ p.locks = proc[c].locks
      /\ p.clears = proc[c].clears /\ p.targets = targets
      /\ p.fresh = proc[c].fresh /\ p.todo = proc[c].todo /\ p.writes = proc[c].writes
      /\ p.seen = proc[c].seen /\ p.work = proc[c].work
  BY <1>1, <1>2 DEF ProcType
<1> HIDE DEF p
<1>5. proc'[c] = p /\ Others(c)
  BY <1>1, <1>3, <1>4 DEF Others
<1> QED BY <1>3, <1>4, <1>5 DEF GoesOn, targets

LEMMA DeactivateEffect ==
  ASSUME Typed, NEW c \in Controllers, Deactivate(c)
  PROVE  /\ GoesOn(c) /\ proc[c].pc = "deactivate" /\ proc'[c].pc = "deactivate"
         /\ proc'[c].todo = proc[c].todo
         /\ proc'[c].fresh = proc[c].fresh /\ proc'[c].clears = proc[c].clears
         /\ \E n \in proc[c].targets :
                /\ n \in Names /\ ~Locked(c, n) /\ table[n] \in Rows
                /\ proc'[c].targets = proc[c].targets \ {n}
                /\ proc'[c].locks = proc[c].locks \cup {n}
                /\ proc'[c].writes =
                        [proc[c].writes EXCEPT ![n] = [table[n] EXCEPT !.active = FALSE]]
<1>1. proc \in [Controllers -> ProcType] /\ proc[c] \in ProcType
  BY DEF Typed, ProcsTyped, ProcTyped
<1>2. PICK n \in proc[c].targets :
        /\ ~Locked(c, n)
        /\ proc' = [proc EXCEPT ![c].targets = @ \ {n},
                        ![c].locks = @ \cup {n},
                        ![c].writes[n] = [table[n] EXCEPT !.active = FALSE]]
  BY DEF Deactivate
<1> DEFINE row == [table[n] EXCEPT !.active = FALSE]
           locks == proc[c].locks \cup {n}
           targets == proc[c].targets \ {n}
           writes == [proc[c].writes EXCEPT ![n] = row]
           p == [proc[c] EXCEPT !.targets = targets, !.locks = locks, !.writes = writes]
<1>3. n \in Names /\ table[n] \in Rows
  BY <1>1, <1>2 DEF ProcType, Typed, ProcsTyped, ProcTyped, RestTyped
<1>4. row \in Rows
  BY <1>3 DEF Rows
<1> HIDE DEF row
<1>5. proc' = [proc EXCEPT ![c] = p]
  <2>1. proc' = [proc EXCEPT ![c].targets = @ \ {n}, ![c].locks = @ \cup {n},
                             ![c].writes[n] = row]
    BY <1>2 DEF row
  <2> QED BY <1>1, <2>1 DEF ProcType
<1>6. locks \subseteq Names /\ targets \subseteq Names
  BY <1>1, <1>3 DEF ProcType
<1>7. writes \in [Names -> Rows \cup {NoRow}]
  BY <1>1, <1>4 DEF ProcType
<1> HIDE DEF locks, targets, writes
<1>8. /\ p \in ProcType /\ p.pc = proc[c].pc /\ p.locks = locks /\ p.clears = proc[c].clears
      /\ p.fresh = proc[c].fresh /\ p.todo = proc[c].todo /\ p.writes = writes
      /\ p.seen = proc[c].seen /\ p.work = proc[c].work /\ p.targets = targets
  BY <1>1, <1>6, <1>7 DEF ProcType
<1> HIDE DEF p
<1>9. proc'[c] = p /\ Others(c)
  BY <1>1, <1>5, <1>8 DEF Others
<1>10. proc[c].pc = "deactivate" /\ UNCHANGED <<history, table>>
  BY DEF Deactivate
<1> QED BY <1>2, <1>3, <1>8, <1>9, <1>10 DEF GoesOn, row, locks, targets, writes

\* A commit writes its rows and deletes none.
LEMMA CommitEffect ==
  ASSUME Typed, NEW c \in Controllers, Commit(c)
  PROVE  /\ proc[c].pc = "deactivate" /\ proc[c].targets = {}
         /\ table' \in [Names -> Rows \cup {NoRow}]
         /\ \A n \in Names :
                table'[n] = IF proc[c].writes[n] # NoRow THEN proc[c].writes[n] ELSE table[n]
  BY DEF Commit, Typed, ProcsTyped, ProcTyped, RestTyped, ProcType

-----------------------------------------------------------------------------
(* Type correctness.                                                         *)

LEMMA OneMoves ==
  ASSUME Typed, NEW c \in Controllers, Others(c), UNCHANGED history,
         \A n \in Names : table[n] # NoRow => table'[n] # NoRow,
         proc'[c].seen \in 1 .. Len(history),
         proc'[c].todo \subseteq Parse(proc'[c].work),
         proc'[c].pc \in {"select", "upsert"} <=> proc'[c].todo # {},
         \A n \in proc'[c].targets : n \in Names /\ table'[n] # NoRow
  PROVE  HistoryTyped' /\ ProcsTyped'
<1>1. HistoryTyped'
  BY DEF Typed, HistoryTyped
<1>2. proc' \in [Controllers -> ProcType]
  BY DEF Others
<1>3. ASSUME NEW d \in Controllers PROVE ProcTyped(d)'
  <2>1. proc'[d] \in ProcType
    BY <1>2
  <2>2. CASE d = c
    BY <2>1, <2>2 DEF ProcTyped
  <2>3. CASE d # c
    <3>1. proc'[d] = proc[d] /\ ProcTyped(d)
      BY <2>3 DEF Others, Typed, ProcsTyped
    <3>2. proc[d].targets \subseteq Names
      BY <3>1 DEF ProcTyped, ProcType
    <3> QED BY <2>1, <3>1, <3>2 DEF ProcTyped
  <2> QED BY <2>2, <2>3
<1> QED BY <1>1, <1>2, <1>3 DEF ProcsTyped

LEMMA StatementTyped ==
  ASSUME Typed, NEW c \in Controllers,
         Acquire(c) \/ Exit(c) \/ Crash(c) \/ Deliver(c) \/ Resync(c)
            \/ StartReconcile(c) \/ Statement(c) \/ Fail(c)
  PROVE  HistoryTyped' /\ ProcsTyped'
<1>1. /\ proc[c] \in ProcType /\ proc[c].seen \in 1 .. Len(history)
      /\ proc[c].todo \subseteq Parse(proc[c].work)
      /\ proc[c].pc \in {"select", "upsert"} <=> proc[c].todo # {}
      /\ \A n \in proc[c].targets : n \in Names /\ table[n] # NoRow
  BY DEF Typed, ProcsTyped, ProcTyped, ProcType
<1>2. \A n \in Names : table[n] # NoRow => table'[n] # NoRow
  <2>1. CASE Commit(c)
    BY <2>1, CommitEffect
  <2>2. CASE ~Commit(c)
    BY <2>2 DEF Acquire, Exit, Crash, Deliver, Resync, StartReconcile, Statement, Fail,
                Select, Upsert, Scan, Deactivate, Reject, Deadlock
  <2> QED BY <2>1, <2>2
<1>3. CASE Acquire(c) \/ Exit(c) \/ Crash(c) \/ Commit(c) \/ Fail(c) \/ Reject(c) \/ Deadlock(c)
  BY <1>2, <1>3, AcquireEffect, EndsEffect, OneMoves DEF Cleared
<1>4. CASE Deliver(c) \/ Resync(c)
  BY <1>1, <1>2, <1>4, NotifiedEffect, OneMoves DEF Notified
<1>5. CASE StartReconcile(c)
  BY <1>1, <1>2, <1>5, StartEffect, OneMoves
<1>6. CASE Select(c)
  BY <1>1, <1>2, <1>6, SelectEffect, OneMoves DEF GoesOn
<1>7. CASE Upsert(c)
  BY <1>1, <1>2, <1>7, UpsertEffect, OneMoves DEF GoesOn
<1>8. CASE Scan(c)
  <2>1. \A n \in Missing(c) : n \in Names /\ table[n] # NoRow
    BY DEF Missing
  <2> QED BY <1>1, <1>2, <1>8, <2>1, ScanEffect, OneMoves DEF GoesOn
<1>9. CASE Deactivate(c)
  BY <1>1, <1>2, <1>9, DeactivateEffect, OneMoves DEF GoesOn
<1> QED BY <1>3, <1>4, <1>5, <1>6, <1>7, <1>8, <1>9 DEF Statement

LEMMA RestStep == ASSUME Typed, [Next]_vars PROVE RestTyped'
<1>1. /\ lease \in Controllers \cup {NoOne} /\ table \in [Names -> Rows \cup {NoRow}]
      /\ overlap \in BOOLEAN /\ RestTyped
  BY DEF Typed, RestTyped
<1>2. lease' \in Controllers \cup {NoOne} /\ overlap' \in BOOLEAN
  BY <1>1 DEF Next, vars, Edit, Acquire, LoseLease, Exit, Crash, Deliver, Resync, StartReconcile,
       Statement, Fail, Select, Upsert, Scan, Deactivate, Commit, Reject, Deadlock
<1>3. faults' \in 0 .. MaxFaults
  <2>1. Fault \/ UNCHANGED faults
    BY Zenon DEF Next, vars, Edit, Acquire, LoseLease, Exit, Crash, Deliver, Resync, StartReconcile,
       Statement, Fail, Select, Upsert, Scan, Deactivate, Commit, Reject, Deadlock
  <2> QED BY <1>1, <2>1, FaultTyped
<1>4. table' \in [Names -> Rows \cup {NoRow}]
  <2>1. UNCHANGED table \/ \E c \in Controllers : Commit(c)
    BY Zenon DEF Next, vars, Edit, Acquire, LoseLease, Exit, Crash, Deliver, Resync, StartReconcile,
       Statement, Fail, Select, Upsert, Scan, Deactivate, Reject, Deadlock
  <2> QED BY <1>1, <2>1, CommitEffect
<1> QED BY <1>2, <1>3, <1>4 DEF RestTyped

\* The object is edited, or a lease lost: no process moves.
LEMMA WorldTyped ==
  ASSUME Typed, UNCHANGED <<proc, table>>, UNCHANGED history \/ Edit
  PROVE  HistoryTyped' /\ ProcsTyped'
<1>1. HistoryTyped' /\ Len(history) <= Len(history') /\ Len(history) \in Nat /\ Len(history') \in Nat
  <2>1. CASE UNCHANGED history
    BY <2>1 DEF Typed, HistoryTyped
  <2>2. CASE Edit
    BY <2>2 DEF Typed, HistoryTyped, Edit
  <2> QED BY <2>1, <2>2
<1>2. ASSUME NEW d \in Controllers PROVE ProcTyped(d)'
  <2>1. ProcTyped(d)
    BY DEF Typed, ProcsTyped
  <2> QED BY <1>1, <2>1 DEF ProcTyped
<1> QED BY <1>1, <1>2 DEF Typed, ProcsTyped

LEMMA InitTyped == ASSUME Init PROVE Typed
<1>1. HistoryTyped /\ Len(history) = 1
  <2>1. PICK o \in Specs \cup {Absent} : history = <<o>>
    BY DEF Init
  <2> QED BY <2>1 DEF HistoryTyped
<1>2. ProcsTyped
  <2>1. ASSUME NEW c \in Controllers PROVE ProcTyped(c)
    BY <1>1, StandbyTyped DEF Init, ProcTyped
  <2> QED BY <2>1, StandbyTyped DEF Init, ProcsTyped
<1>3. RestTyped
  <2>1. MaxFaults \in Nat
    BY ReconcileAssumption
  <2>2. 0 \in 0 .. MaxFaults
    BY <2>1
  <2> QED BY <2>2 DEF Init, RestTyped
<1> QED BY <1>1, <1>2, <1>3 DEF Typed

LEMMA TypedStep == ASSUME Typed, [Next]_vars PROVE Typed'
<1>1. CASE UNCHANGED vars
  BY <1>1, WorldTyped, RestStep DEF vars, Typed
<1>2. CASE Edit
  BY <1>2, WorldTyped, RestStep DEF Edit, Typed
<1>3. ASSUME NEW c \in Controllers, LoseLease(c) PROVE Typed'
  BY <1>3, WorldTyped, RestStep DEF LoseLease, Typed
<1>4. ASSUME NEW c \in Controllers,
             Acquire(c) \/ Exit(c) \/ Crash(c) \/ Deliver(c) \/ Resync(c)
                \/ StartReconcile(c) \/ Statement(c) \/ Fail(c)
      PROVE  Typed'
  BY <1>4, StatementTyped, RestStep DEF Typed
<1> QED BY <1>1, <1>2, <1>3, <1>4 DEF Next

\* The typing the lemmas work with, in parts, holds in every state
\* (the variables of the controllers, the object and its rows).
THEOREM AlwaysTyped == Spec => []Typed
  BY InitTyped, TypedStep, PTL DEF Spec

\* Every variable keeps its type, and a transaction has an open trigger exactly
\* while it upserts (WorkloadRepository.Reconcile).
THEOREM TypeCorrect == Spec => []TypeOK
<1>1. Typed => TypeOK
  BY DEF Typed, HistoryTyped, ProcsTyped, ProcTyped, RestTyped, TypeOK
<1> QED BY <1>1, AlwaysTyped, PTL

-----------------------------------------------------------------------------
(* Locks.                                                                    *)

\* A row has one holder, who alone writes it; no locks outlive a transaction.
Exclusive == \A c, d \in Controllers : c # d => proc[c].locks \cap proc[d].locks = {}

WritesLocked(c) == \A n \in Names : proc[c].writes[n] # NoRow => n \in proc[c].locks

IdleIsClean(c) == proc[c].pc = "idle" => /\ proc[c].locks = {} /\ proc[c].clears = {}
                                         /\ proc[c].writes = NoWrites
                                         /\ proc[c].targets = {}

LocksHeld == /\ Exclusive
             /\ \A c \in Controllers : WritesLocked(c) /\ IdleIsClean(c)

\* A step of one process keeps the locks apart.
LEMMA OneLocks ==
  ASSUME LocksHeld, NEW c \in Controllers, Others(c), WritesLocked(c)', IdleIsClean(c)',
         \/ proc'[c].locks \subseteq proc[c].locks
         \/ \E n : ~Locked(c, n) /\ proc'[c].locks \subseteq proc[c].locks \cup {n}
  PROVE  LocksHeld'
<1>1. ASSUME NEW d \in Controllers PROVE WritesLocked(d)' /\ IdleIsClean(d)'
  <2>1. CASE d # c
    BY <2>1 DEF Others, LocksHeld, WritesLocked, IdleIsClean
  <2> QED BY <2>1
<1>2. \A d \in Controllers \ {c} : proc'[c].locks \cap proc'[d].locks = {}
  BY DEF LocksHeld, Exclusive, Others, Locked
<1>3. Exclusive'
  BY <1>2 DEF LocksHeld, Exclusive, Others
<1> QED BY <1>1, <1>3 DEF LocksHeld

LEMMA LocksStep == ASSUME Typed, LocksHeld, [Next]_vars PROVE LocksHeld'
<1>0. ASSUME UNCHANGED proc PROVE LocksHeld'
  BY <1>0 DEF LocksHeld, Exclusive, WritesLocked, IdleIsClean
<1>1. CASE UNCHANGED vars \/ Edit \/ \E c \in Controllers : LoseLease(c)
  BY <1>0, <1>1 DEF vars, Edit, LoseLease
<1>2. ASSUME NEW c \in Controllers, Cleared(c) PROVE LocksHeld'
  <2>1. WritesLocked(c)' /\ IdleIsClean(c)' /\ proc'[c].locks = {} /\ Others(c)
    BY <1>2 DEF Cleared, WritesLocked, IdleIsClean, NoWrites
  <2> QED BY <2>1, OneLocks
<1>3. ASSUME NEW c \in Controllers, Deliver(c) \/ Resync(c) PROVE LocksHeld'
  <2>1. Notified(c) /\ WritesLocked(c) /\ IdleIsClean(c)
    BY <1>3, NotifiedEffect DEF LocksHeld
  <2>2. WritesLocked(c)' /\ IdleIsClean(c)' /\ proc'[c].locks = proc[c].locks /\ Others(c)
    BY <2>1 DEF Notified, WritesLocked, IdleIsClean
  <2> QED BY <2>2, OneLocks
<1>4. ASSUME NEW c \in Controllers, StartReconcile(c) PROVE LocksHeld'
  <2>1. WritesLocked(c)' /\ IdleIsClean(c)' /\ proc'[c].locks = proc[c].locks /\ Others(c)
    BY <1>4, StartEffect DEF LocksHeld, WritesLocked, IdleIsClean
  <2> QED BY <2>1, OneLocks
<1>5. ASSUME NEW c \in Controllers, Select(c) PROVE LocksHeld'
  <2>1. WritesLocked(c)' /\ IdleIsClean(c)'
    BY <1>5, SelectEffect DEF LocksHeld, WritesLocked, IdleIsClean
  <2>2. /\ Others(c)
        /\ \/ proc'[c].locks \subseteq proc[c].locks
           \/ \E n : ~Locked(c, n) /\ proc'[c].locks \subseteq proc[c].locks \cup {n}
    BY <1>5, SelectEffect DEF GoesOn
  <2> QED BY <2>1, <2>2, OneLocks
<1>6. ASSUME NEW c \in Controllers, Upsert(c) PROVE LocksHeld'
  <2>1. WritesLocked(c)' /\ IdleIsClean(c)'
    <3>1. proc[c].writes \in [Names -> Rows \cup {NoRow}]
      BY DEF Typed, ProcsTyped, ProcTyped, ProcType
    <3> DEFINE n == Current(c).name
               r == Upserted(c)
    <3>2. /\ proc'[c].writes = [proc[c].writes EXCEPT ![n] = r]
          /\ proc'[c].locks = proc[c].locks \cup {n}
      BY <1>6, UpsertEffect
    <3>3. proc'[c].pc # "idle"
      BY <1>6, UpsertEffect
    <3> HIDE DEF n, r
    <3> QED BY <3>1, <3>2, <3>3 DEF LocksHeld, WritesLocked, IdleIsClean
  <2>2. Others(c) /\ \E n : ~Locked(c, n) /\ proc'[c].locks \subseteq proc[c].locks \cup {n}
    BY <1>6, UpsertEffect DEF GoesOn
  <2> QED BY <2>1, <2>2, OneLocks
<1>7. ASSUME NEW c \in Controllers, Scan(c) PROVE LocksHeld'
  <2>1. WritesLocked(c)' /\ IdleIsClean(c)' /\ proc'[c].locks = proc[c].locks /\ Others(c)
    BY <1>7, ScanEffect DEF LocksHeld, WritesLocked, IdleIsClean, GoesOn
  <2> QED BY <2>1, OneLocks
<1>8. ASSUME NEW c \in Controllers, Deactivate(c) PROVE LocksHeld'
  <2>1. WritesLocked(c)' /\ IdleIsClean(c)'
    <3>1. proc[c].writes \in [Names -> Rows \cup {NoRow}]
      BY DEF Typed, ProcsTyped, ProcTyped, ProcType
    <3>2. PICK n, r :
            /\ proc'[c].writes = [proc[c].writes EXCEPT ![n] = r]
            /\ proc'[c].locks = proc[c].locks \cup {n}
      BY <1>8, DeactivateEffect
    <3>3. proc'[c].pc # "idle"
      BY <1>8, DeactivateEffect
    <3> QED BY <3>1, <3>2, <3>3 DEF LocksHeld, WritesLocked, IdleIsClean
  <2>2. Others(c) /\ \E n : ~Locked(c, n) /\ proc'[c].locks \subseteq proc[c].locks \cup {n}
    BY <1>8, DeactivateEffect DEF GoesOn
  <2> QED BY <2>1, <2>2, OneLocks
<1>9. ASSUME NEW c \in Controllers,
             Acquire(c) \/ Exit(c) \/ Crash(c) \/ Commit(c) \/ Fail(c) \/ Reject(c) \/ Deadlock(c)
      PROVE  LocksHeld'
  BY <1>2, <1>9, AcquireEffect, EndsEffect
<1> QED BY <1>1, <1>3, <1>4, <1>5, <1>6, <1>7, <1>8, <1>9 DEF Next, Statement

LEMMA LocksInit == ASSUME Init PROVE LocksHeld
  BY StandbyTyped DEF Init, LocksHeld, Exclusive, WritesLocked, IdleIsClean, NoWrites

\* A row that one process holds is not changed by the others.
LEMMA HeldStays ==
  ASSUME Typed, LocksHeld, NEW c \in Controllers, NEW d \in Controllers, c # d,
         Commit(d), NEW n \in proc[c].locks, n \in Names
  PROVE  table'[n] = table[n]
<1>1. n \notin proc[d].locks
  BY DEF LocksHeld, Exclusive
<1>2. proc[d].writes[n] = NoRow
  BY <1>1 DEF LocksHeld, WritesLocked
<1> QED BY <1>2, CommitEffect

-----------------------------------------------------------------------------
(* Resets.                                                                   *)

\* The triggers whose models a transaction deletes are triggers it has at hand
\* or has upserted: none comes up again.
ClearsAreWork(c) ==
    \A n \in proc[c].clears :
        /\ n \in Working(c)
        /\ \A i \in proc[c].todo :
                proc[c].work[i].name = n => proc[c].pc = "upsert" /\ i = Place(c)

\* A row it found it holds, and gives another revision.
ClearsAreNews(c) ==
    \A n \in proc[c].clears \ proc[c].fresh :
        /\ n \in proc[c].locks /\ table[n] # NoRow
        /\ IF proc[c].pc = "upsert" /\ Current(c).name = n
           THEN Current(c).rev # table[n].rev
           ELSE proc[c].writes[n] # NoRow /\ proc[c].writes[n].rev # table[n].rev

\* What it deactivates is no trigger of the object.
TargetsAreGone(c) == proc[c].targets \cap Working(c) = {}

Clears(c) == ClearsAreWork(c) /\ ClearsAreNews(c) /\ TargetsAreGone(c)

\* A process at rest keeps this, whatever another one commits.
LEMMA OthersClears ==
  ASSUME Typed, LocksHeld, NEW c \in Controllers, NEW d \in Controllers, c # d, Clears(d),
         Others(c), UNCHANGED table \/ Commit(c)
  PROVE  Clears(d)'
<1>1. proc'[d] = proc[d] /\ proc[d].clears \subseteq Names
  BY DEF Others, Typed, ProcsTyped, ProcTyped, ProcType
<1>2. /\ Working(d)' = Working(d) /\ Place(d)' = Place(d) /\ Current(d)' = Current(d)
  BY <1>1 DEF Working, Place, Current
<1>3. ClearsAreWork(d)' /\ TargetsAreGone(d)'
  BY <1>1, <1>2 DEF Clears, ClearsAreWork, TargetsAreGone
<1>4. ASSUME NEW n \in proc[d].clears \ proc[d].fresh PROVE table'[n] = table[n]
  <2>1. n \in proc[d].locks /\ n \in Names
    BY <1>1 DEF Clears, ClearsAreNews
  <2> QED BY <2>1, HeldStays
<1>5. ClearsAreNews(d)'
  BY <1>1, <1>2, <1>4 DEF Clears, ClearsAreNews
<1> QED BY <1>3, <1>5 DEF Clears

LEMMA NotifiedClears ==
  ASSUME NEW c \in Controllers, Clears(c), Notified(c), UNCHANGED table
  PROVE  Clears(c)'
<1>1. /\ Working(c)' = Working(c) /\ Place(c)' = Place(c) /\ Current(c)' = Current(c)
  BY DEF Working, Place, Current, Notified
<1> QED BY <1>1 DEF Clears, ClearsAreWork, ClearsAreNews, TargetsAreGone, Notified

LEMMA EmptyClears ==
  ASSUME NEW c \in Controllers, proc'[c].clears = {}, proc'[c].targets = {}
  PROVE  Clears(c)'
  BY DEF Clears, ClearsAreWork, ClearsAreNews, TargetsAreGone

LEMMA SelectClears ==
  ASSUME Typed, NEW c \in Controllers, Clears(c), Select(c)
  PROVE  Clears(c)'
<1> DEFINE n == Current(c).name
<1>1. /\ GoesOn(c) /\ proc[c].pc = "select" /\ proc'[c].pc = "upsert"
      /\ proc'[c].todo = proc[c].todo /\ proc'[c].writes = proc[c].writes
      /\ proc'[c].targets = proc[c].targets
      /\ \/ /\ table[n] # NoRow
            /\ proc'[c].locks = proc[c].locks \cup {n}
            /\ proc'[c].fresh = proc[c].fresh
            /\ \/ proc'[c].clears = proc[c].clears
               \/ /\ proc'[c].clears = proc[c].clears \cup {n}
                  /\ Current(c).rev # table[n].rev
         \/ /\ proc'[c].locks = proc[c].locks
            /\ proc'[c].fresh = proc[c].fresh \cup {n}
            /\ proc'[c].clears \in {proc[c].clears, proc[c].clears \cup {n}}
  BY SelectEffect
<1>2. /\ Place(c) \in proc[c].todo /\ Current(c) = proc[c].work[Place(c)] /\ n \in Working(c)
      /\ proc[c].todo \subseteq Parse(proc[c].work) /\ proc[c].work \in Specs \cup {<<>>}
  BY <1>1, AtHand DEF Typed, ProcsTyped, ProcTyped, ProcType
<1>3. /\ Working(c)' = Working(c) /\ Place(c)' = Place(c) /\ Current(c)' = Current(c)
      /\ UNCHANGED table
  BY <1>1 DEF Working, Place, Current, GoesOn
<1>4. n \notin proc[c].clears
  BY <1>1, <1>2 DEF Clears, ClearsAreWork
<1>5. \A i \in proc[c].todo : proc[c].work[i].name = n => i = Place(c)
  BY <1>2, NamesOnce
<1>6. proc'[c].work = proc[c].work
  BY <1>1 DEF GoesOn
<1>7. proc'[c].clears \subseteq proc[c].clears \cup {n}
  BY <1>1
<1> HIDE DEF n
<1>8. ClearsAreWork(c)'
  <2>1. ASSUME NEW m \in proc[c].clears, NEW i \in proc[c].todo, proc[c].work[i].name = m
        PROVE  FALSE
    BY <1>1, <2>1 DEF Clears, ClearsAreWork
  <2> QED BY <1>1, <1>2, <1>3, <1>5, <1>6, <1>7, <2>1 DEF Clears, ClearsAreWork
<1>9. ClearsAreNews(c)'
  <2>1. ASSUME NEW m \in proc'[c].clears \ proc'[c].fresh
        PROVE  /\ m \in proc'[c].locks /\ table'[m] # NoRow
               /\ IF proc'[c].pc = "upsert" /\ Current(c)'.name = m
                  THEN Current(c)'.rev # table'[m].rev
                  ELSE proc'[c].writes[m] # NoRow /\ proc'[c].writes[m].rev # table'[m].rev
    <3>1. CASE m = n
      BY <1>1, <1>3, <1>4, <2>1, <3>1 DEF n
    <3>2. CASE m # n
      <4>1. m \in proc[c].clears \ proc[c].fresh
        BY <1>1, <1>7, <2>1, <3>2
      <4>2. /\ m \in proc[c].locks /\ table[m] # NoRow
            /\ proc[c].writes[m] # NoRow /\ proc[c].writes[m].rev # table[m].rev
        BY <1>1, <4>1 DEF Clears, ClearsAreNews
      <4> QED BY <1>1, <1>3, <3>2, <4>2 DEF n
    <3> QED BY <3>1, <3>2
  <2> QED BY <2>1 DEF ClearsAreNews
<1>10. TargetsAreGone(c)'
  BY <1>1, <1>3 DEF Clears, TargetsAreGone
<1> QED BY <1>8, <1>9, <1>10 DEF Clears

LEMMA UpsertClears ==
  ASSUME Typed, NEW c \in Controllers, Clears(c), Upsert(c)
  PROVE  Clears(c)'
<1> DEFINE n == Current(c).name
           row == Upserted(c)
<1>1. /\ GoesOn(c) /\ proc[c].pc = "upsert" /\ proc'[c].pc # "upsert"
      /\ proc'[c].todo = proc[c].todo \ {Place(c)}
      /\ proc'[c].locks = proc[c].locks \cup {n}
      /\ proc'[c].writes = [proc[c].writes EXCEPT ![n] = row]
      /\ proc'[c].fresh = proc[c].fresh /\ proc'[c].clears = proc[c].clears
      /\ proc'[c].targets = proc[c].targets
  BY UpsertEffect
<1>2. /\ n \in Names /\ row.rev = Current(c).rev /\ row \in Rows
      /\ proc[c].writes \in [Names -> Rows \cup {NoRow}] /\ proc[c].clears \subseteq Names
  BY <1>1, AtHand DEF Upserted, Typed, ProcsTyped, ProcTyped, ProcType
<1>3. Working(c)' = Working(c) /\ proc'[c].work = proc[c].work /\ UNCHANGED table
  BY <1>1 DEF Working, GoesOn
<1>4. row # NoRow
  BY <1>2, ReconcileAssumption DEF Rows
<1> HIDE DEF n, row
<1>5. ClearsAreWork(c)'
  BY <1>1, <1>3 DEF Clears, ClearsAreWork
<1>6. ClearsAreNews(c)'
  <2>1. ASSUME NEW m \in proc[c].clears \ proc[c].fresh
        PROVE  /\ m \in proc'[c].locks /\ table[m] # NoRow
               /\ proc'[c].writes[m] # NoRow /\ proc'[c].writes[m].rev # table[m].rev
    <3>1. m \in Names /\ m \in proc[c].locks /\ table[m] # NoRow
      BY <1>2, <2>1 DEF Clears, ClearsAreNews
    <3>2. CASE m = n
      <4>1. Current(c).rev # table[m].rev
        BY <1>1, <2>1, <3>2 DEF Clears, ClearsAreNews, n
      <4>2. proc'[c].writes[m] = row
        BY <1>1, <1>2, <3>1, <3>2
      <4> QED BY <1>1, <1>2, <1>4, <3>1, <4>1, <4>2
    <3>3. CASE m # n
      <4>1. proc[c].writes[m] # NoRow /\ proc[c].writes[m].rev # table[m].rev
        BY <1>1, <2>1, <3>3 DEF Clears, ClearsAreNews, n
      <4>2. proc'[c].writes[m] = proc[c].writes[m]
        BY <1>1, <1>2, <3>1, <3>3
      <4> QED BY <1>1, <3>1, <4>1, <4>2
    <3> QED BY <3>2, <3>3
  <2> QED BY <1>1, <1>3, <2>1 DEF ClearsAreNews
<1>7. TargetsAreGone(c)'
  BY <1>1, <1>3 DEF Clears, TargetsAreGone
<1> QED BY <1>5, <1>6, <1>7 DEF Clears

LEMMA ScanClears ==
  ASSUME NEW c \in Controllers, Typed, Clears(c), Scan(c)
  PROVE  Clears(c)'
<1>1. /\ GoesOn(c) /\ proc[c].pc = "scan" /\ proc'[c].pc = "deactivate"
      /\ proc'[c].todo = proc[c].todo /\ proc'[c].locks = proc[c].locks
      /\ proc'[c].writes = proc[c].writes /\ proc'[c].fresh = proc[c].fresh
      /\ proc'[c].clears = proc[c].clears /\ proc'[c].targets = Missing(c)
  BY ScanEffect
<1>2. Working(c)' = Working(c) /\ proc'[c].work = proc[c].work /\ UNCHANGED table
  BY <1>1 DEF Working, GoesOn
<1>3. ClearsAreWork(c)'
  BY <1>1, <1>2 DEF Clears, ClearsAreWork
<1>4. ClearsAreNews(c)'
  BY <1>1, <1>2 DEF Clears, ClearsAreNews
<1>5. TargetsAreGone(c)'
  BY <1>1, <1>2 DEF TargetsAreGone, Missing
<1> QED BY <1>3, <1>4, <1>5 DEF Clears

LEMMA DeactivateClears ==
  ASSUME NEW c \in Controllers, Typed, Clears(c), Deactivate(c)
  PROVE  Clears(c)'
<1>1. /\ GoesOn(c) /\ proc[c].pc = "deactivate" /\ proc'[c].pc = "deactivate"
      /\ proc'[c].todo = proc[c].todo
      /\ proc'[c].fresh = proc[c].fresh /\ proc'[c].clears = proc[c].clears
  BY DeactivateEffect
<1>2. PICK n \in proc[c].targets :
        /\ proc'[c].targets = proc[c].targets \ {n}
        /\ proc'[c].locks = proc[c].locks \cup {n}
        /\ proc'[c].writes =
                [proc[c].writes EXCEPT ![n] = [table[n] EXCEPT !.active = FALSE]]
  BY DeactivateEffect
<1>3. Working(c)' = Working(c) /\ proc'[c].work = proc[c].work /\ UNCHANGED table
  BY <1>1 DEF Working, GoesOn
<1>4. proc[c].writes \in [Names -> Rows \cup {NoRow}] /\ proc[c].clears \subseteq Names
  BY DEF Typed, ProcsTyped, ProcTyped, ProcType
<1>5. ClearsAreWork(c)'
  BY <1>1, <1>3 DEF Clears, ClearsAreWork
<1>6. ASSUME NEW m \in proc[c].clears PROVE m \in Names /\ proc'[c].writes[m] = proc[c].writes[m]
  <2>1. m # n
    BY <1>2 DEF Clears, ClearsAreWork, TargetsAreGone
  <2> DEFINE row == [table[n] EXCEPT !.active = FALSE]
  <2> HIDE DEF row
  <2>2. proc'[c].writes = [proc[c].writes EXCEPT ![n] = row]
    BY <1>2 DEF row
  <2> QED BY <1>4, <2>1, <2>2
<1>7. ClearsAreNews(c)'
  BY <1>1, <1>2, <1>3, <1>6 DEF Clears, ClearsAreNews
<1>8. TargetsAreGone(c)'
  BY <1>2, <1>3 DEF Clears, TargetsAreGone
<1> QED BY <1>5, <1>7, <1>8 DEF Clears

LEMMA ClearsStep ==
  ASSUME Typed, LocksHeld, \A c \in Controllers : Clears(c), [Next]_vars
  PROVE  \A c \in Controllers : Clears(c)'
<1>1. CASE UNCHANGED vars \/ Edit \/ \E c \in Controllers : LoseLease(c)
  <2>1. UNCHANGED <<proc, table>>
    BY <1>1 DEF vars, Edit, LoseLease
  <2> QED BY <2>1 DEF Clears, ClearsAreWork, ClearsAreNews, TargetsAreGone, Working, Place, Current
<1>2. ASSUME NEW c \in Controllers, Others(c), Clears(c)', UNCHANGED table \/ Commit(c)
      PROVE  \A d \in Controllers : Clears(d)'
  BY <1>2, OthersClears
<1>3. ASSUME NEW c \in Controllers,
             Acquire(c) \/ Exit(c) \/ Crash(c) \/ Commit(c) \/ Fail(c) \/ Reject(c) \/ Deadlock(c)
      PROVE  \A d \in Controllers : Clears(d)'
  <2>1. Cleared(c)
    BY <1>3, AcquireEffect, EndsEffect
  <2>2. UNCHANGED table \/ Commit(c)
    BY <1>3 DEF Acquire, Exit, Crash, Fail, Reject, Deadlock
  <2>3. Clears(c)' /\ Others(c)
    BY <2>1, EmptyClears DEF Cleared
  <2> QED BY <1>2, <2>2, <2>3
<1>4. ASSUME NEW c \in Controllers, Deliver(c) \/ Resync(c) PROVE \A d \in Controllers : Clears(d)'
  <2>1. UNCHANGED table
    BY <1>4 DEF Deliver, Resync
  <2>2. Clears(c)' /\ Others(c)
    BY <1>4, <2>1, NotifiedEffect, NotifiedClears DEF Notified
  <2> QED BY <1>2, <2>1, <2>2
<1>5. ASSUME NEW c \in Controllers, StartReconcile(c) PROVE \A d \in Controllers : Clears(d)'
  <2>1. proc[c].clears = {} /\ proc[c].targets = {}
    BY <1>5, StartEffect DEF LocksHeld, IdleIsClean
  <2>2. Clears(c)' /\ Others(c) /\ UNCHANGED table
    BY <1>5, <2>1, StartEffect, EmptyClears
  <2> QED BY <1>2, <2>2
<1>6. ASSUME NEW c \in Controllers, Select(c) PROVE \A d \in Controllers : Clears(d)'
  BY <1>2, <1>6, SelectEffect, SelectClears DEF GoesOn
<1>7. ASSUME NEW c \in Controllers, Upsert(c) PROVE \A d \in Controllers : Clears(d)'
  BY <1>2, <1>7, UpsertEffect, UpsertClears DEF GoesOn
<1>8. ASSUME NEW c \in Controllers, Scan(c) PROVE \A d \in Controllers : Clears(d)'
  BY <1>2, <1>8, ScanEffect, ScanClears DEF GoesOn
<1>9. ASSUME NEW c \in Controllers, Deactivate(c) PROVE \A d \in Controllers : Clears(d)'
  BY <1>2, <1>9, DeactivateEffect, DeactivateClears DEF GoesOn
<1> QED BY <1>1, <1>3, <1>4, <1>5, <1>6, <1>7, <1>8, <1>9 DEF Next, Statement

ResetsInv == Typed /\ LocksHeld /\ \A c \in Controllers : Clears(c)

\* Row locks are exclusive, rows are written only under them, and models are
\* cleared only for a row whose written revision differs from the one it had
\* (upsertWorkload: SELECT ... FOR UPDATE, then INSERT ... ON CONFLICT).
THEOREM AlwaysResets == Spec => []ResetsInv
<1>1. Init => ResetsInv
  <2>1. ASSUME Init PROVE \A c \in Controllers : Clears(c)
    BY <2>1, StandbyTyped DEF Init, Clears, ClearsAreWork, ClearsAreNews, TargetsAreGone
  <2> QED BY <2>1, InitTyped, LocksInit DEF ResetsInv
<1>2. ResetsInv /\ [Next]_vars => ResetsInv'
  BY TypedStep, LocksStep, ClearsStep DEF ResetsInv
<1> QED BY <1>1, <1>2, PTL DEF Spec

\* Models of a trigger that has a row are deleted only with a change of its
\* policy revision, however many leaders reconcile at once
\* (upsertWorkload: FOR UPDATE).
THEOREM OneResetPerChange == Spec => ResetOncePerChange
<1>1. ASSUME ResetsInv, NEW c \in Controllers, Commit(c), NEW n \in proc[c].clears \ proc[c].fresh
      PROVE  table[n].rev # table'[n].rev
  <2>1. n \in Names /\ proc[c].pc = "deactivate"
    BY <1>1, CommitEffect DEF ResetsInv, Typed, ProcsTyped, ProcTyped, ProcType
  <2>2. proc[c].writes[n] # NoRow /\ proc[c].writes[n].rev # table[n].rev
    BY <1>1, <2>1 DEF ResetsInv, Clears, ClearsAreNews
  <2>3. table'[n] = proc[c].writes[n]
    BY <1>1, <2>1, <2>2, CommitEffect DEF ResetsInv
  <2> QED BY <2>2, <2>3
<1>2. ResetsInv /\ [Next]_vars =>
        [\A c \in Controllers : Commit(c) =>
            \A n \in proc[c].clears \ proc[c].fresh : table[n].rev # table'[n].rev]_vars
  BY <1>1
<1> QED BY <1>2, AlwaysResets, PTL DEF Spec, ResetOncePerChange

-----------------------------------------------------------------------------
(* Whole versions.                                                           *)

\* A transaction that ran alone has written the triggers it went through, and
\* once it deactivates, nothing else of what it saw stays active.
Progress(c) ==
    /\ \E v \in DOMAIN history : proc[c].work = Work(history[v])
    /\ \A i \in Parse(proc[c].work) :
          \/ i \in proc[c].todo
          \/ proc[c].writes[proc[c].work[i].name] = [active |-> TRUE, rev |-> proc[c].work[i].rev]
    /\ \A n \in Names \ Working(c) : proc[c].writes[n] # NoRow => ~proc[c].writes[n].active
    /\ proc[c].pc = "deactivate" =>
          \A n \in Names \ Working(c) :
              table[n] # NoRow /\ table[n].active
                  => n \in proc[c].targets \/ proc[c].writes[n] # NoRow

RunsAlone(c) == \A d \in Controllers \ {c} : proc[d].pc = "idle"

FromOne == Active = {} \/ \E v \in DOMAIN history : Active = Desired(history[v])

\* As long as no two reconciliations overlapped.
OneAtATime ==
    ~overlap => /\ FromOne
                /\ \A c \in Controllers : proc[c].pc # "idle" => RunsAlone(c) /\ Progress(c)

LEMMA WorkingTyped ==
  ASSUME Typed, NEW c \in Controllers
  PROVE  /\ proc[c] \in ProcType /\ proc[c].work \in Specs \cup {<<>>}
         /\ proc[c].writes \in [Names -> Rows \cup {NoRow}]
         /\ Working(c) \subseteq Names
         /\ proc[c].todo \subseteq Parse(proc[c].work)
         /\ proc[c].pc \notin {"select", "upsert"} => proc[c].todo = {}
         /\ \A i \in Parse(proc[c].work) : proc[c].work[i].name \in Working(c)
<1>1. /\ proc[c] \in ProcType /\ proc[c].work \in Specs \cup {<<>>}
      /\ proc[c].writes \in [Names -> Rows \cup {NoRow}]
      /\ proc[c].todo \subseteq Parse(proc[c].work)
      /\ proc[c].pc \notin {"select", "upsert"} => proc[c].todo = {}
  BY DEF Typed, ProcsTyped, ProcTyped, ProcType
<1>2. \A i \in Parse(proc[c].work) : proc[c].work[i].name \in Names
  BY <1>1, NamesOnce
<1> QED BY <1>1, <1>2 DEF Working

\* What such a transaction commits is the version it read.
LEMMA CommitsDesired ==
  ASSUME Typed, NEW c \in Controllers, Commit(c), Progress(c),
         NEW o, proc[c].work = Work(o)
  PROVE  Active' = Desired(o)
<1> DEFINE work == proc[c].work
<1>1. /\ proc[c].pc = "deactivate" /\ proc[c].targets = {}
      /\ \A n \in Names :
            table'[n] = IF proc[c].writes[n] # NoRow THEN proc[c].writes[n] ELSE table[n]
  BY CommitEffect
<1>2. /\ work \in Specs \cup {<<>>} /\ proc[c].todo = {} /\ Working(c) \subseteq Names
      /\ \A i \in Parse(work) : work[i].name \in Working(c)
  BY <1>1, WorkingTyped
<1>3. ASSUME NEW i \in Parse(work)
      PROVE  /\ work[i].name \in Names
             /\ table'[work[i].name] # NoRow
             /\ table'[work[i].name].active /\ table'[work[i].name].rev = work[i].rev
  <2>1. work[i].name \in Names /\ work[i].rev \in Revs
    BY <1>2, NamesOnce
  <2>2. proc[c].writes[work[i].name] = [active |-> TRUE, rev |-> work[i].rev]
    BY <1>2 DEF Progress
  <2> DEFINE row == [active |-> TRUE, rev |-> work[i].rev]
  <2>3. row \in Rows /\ row.active /\ row.rev = work[i].rev
    BY <2>1 DEF Rows
  <2>4. NoRow \notin Rows
    BY ReconcileAssumption DEF Rows
  <2> HIDE DEF row
  <2>5. row # NoRow
    BY <2>3, <2>4
  <2>6. proc[c].writes[work[i].name] = row
    BY <2>2 DEF row
  <2>7. table'[work[i].name] = row
    BY <1>1, <2>1, <2>5, <2>6
  <2> QED BY <2>1, <2>3, <2>5, <2>7
<1>4. ASSUME NEW n \in Names \ Working(c), table'[n] # NoRow
      PROVE  ~table'[n].active
  <2>1. CASE proc[c].writes[n] # NoRow
    BY <1>1, <2>1 DEF Progress
  <2>2. CASE proc[c].writes[n] = NoRow
    BY <1>1, <1>4, <2>2 DEF Progress
  <2> QED BY <2>1, <2>2
<1>5. \A n \in Working(c) : \E i \in Parse(work) : n = work[i].name
  BY DEF Working
<1> HIDE DEF work
<1>6. Desired(o) = {[name |-> work[i].name, rev |-> work[i].rev] : i \in Parse(work)}
  BY DEF Desired, work
<1>7. Active' = {[name |-> n, rev |-> table'[n].rev] :
                    n \in {m \in Names : table'[m] # NoRow /\ table'[m].active}}
  BY DEF Active
<1>8. {m \in Names : table'[m] # NoRow /\ table'[m].active} = {work[i].name : i \in Parse(work)}
  <2>1. ASSUME NEW m \in Names, table'[m] # NoRow, table'[m].active
        PROVE  \E i \in Parse(work) : m = work[i].name
    BY <1>4, <1>5, <2>1
  <2>2. ASSUME NEW i \in Parse(work)
        PROVE  work[i].name \in Names /\ table'[work[i].name] # NoRow /\ table'[work[i].name].active
    BY <1>3
  <2> QED BY <2>1, <2>2
<1>9. \A i \in Parse(work) : table'[work[i].name].rev = work[i].rev
  BY <1>3
<1> QED BY <1>6, <1>7, <1>8, <1>9

LEMMA SameProgress ==
  ASSUME NEW d \in Controllers, proc'[d] = proc[d], UNCHANGED table, Progress(d),
         \A v \in DOMAIN history : v \in DOMAIN history' /\ history'[v] = history[v]
  PROVE  Progress(d)'
<1>1. Working(d)' = Working(d)
  BY DEF Working
<1>2. \E v \in DOMAIN history' : proc'[d].work = Work(history'[v])
  BY DEF Progress
<1> QED BY <1>1, <1>2 DEF Progress

\* A process that works alone goes on, or one ends.
LEMMA AloneStep ==
  ASSUME OneAtATime, ~overlap, NEW c \in Controllers, Others(c), UNCHANGED <<table, history>>,
         proc'[c].pc = "idle" \/ (proc[c].pc # "idle" /\ Progress(c)')
  PROVE  OneAtATime'
<1>1. FromOne'
  BY DEF OneAtATime, FromOne, Active
<1>2. ASSUME NEW d \in Controllers, proc'[d].pc # "idle" PROVE RunsAlone(d)' /\ Progress(d)'
  <2>1. CASE d = c
    BY <1>2, <2>1 DEF OneAtATime, RunsAlone, Others
  <2>2. CASE d # c
    <3>1. proc'[d] = proc[d] /\ RunsAlone(d) /\ Progress(d)
      BY <1>2, <2>2 DEF Others, OneAtATime
    <3>2. Progress(d)'
      BY <3>1, SameProgress
    <3>3. proc'[c].pc = "idle"
      BY <2>2, <3>1 DEF RunsAlone
    <3>4. RunsAlone(d)'
      BY <3>1, <3>3 DEF RunsAlone, Others
    <3> QED BY <3>2, <3>4
  <2> QED BY <2>1, <2>2
<1> QED BY <1>1, <1>2 DEF OneAtATime

LEMMA UpsertProgress ==
  ASSUME Typed, NEW c \in Controllers, Progress(c), Upsert(c)
  PROVE  Progress(c)'
<1> DEFINE n == Current(c).name
           row == Upserted(c)
           work == proc[c].work
<1>1. /\ GoesOn(c) /\ proc'[c].pc # "deactivate"
      /\ proc'[c].todo = proc[c].todo \ {Place(c)}
      /\ proc'[c].writes = [proc[c].writes EXCEPT ![n] = row]
      /\ proc[c].pc = "upsert"
  BY UpsertEffect
<1>2. /\ Place(c) \in Parse(work) /\ Current(c) = work[Place(c)]
      /\ n \in Working(c) /\ n \in Names /\ work \in Specs \cup {<<>>}
      /\ proc[c].writes \in [Names -> Rows \cup {NoRow}]
      /\ proc'[c].work = work /\ Working(c) \subseteq Names
      /\ \A i \in Parse(work) : work[i].name \in Working(c)
  BY <1>1, AtHand, WorkingTyped DEF GoesOn
<1>3. Working(c)' = Working(c) /\ UNCHANGED history
  BY <1>1 DEF Working, GoesOn
<1>4. row = [active |-> TRUE, rev |-> work[Place(c)].rev] /\ work[Place(c)].name = n
  BY <1>2 DEF Upserted
<1>5. \A i \in Parse(work) : work[i].name = n => i = Place(c)
  BY <1>2, <1>4, NamesOnce
<1> HIDE DEF n, row, work
<1>6. ASSUME NEW i \in Parse(work)
      PROVE  \/ i \in proc'[c].todo
             \/ proc'[c].writes[work[i].name] = [active |-> TRUE, rev |-> work[i].rev]
  <2>1. work[i].name \in Names
    BY <1>2
  <2>2. CASE i = Place(c)
    <3>1. proc'[c].writes[n] = row
      BY <1>1, <1>2
    <3> QED BY <1>4, <2>2, <3>1
  <2>3. CASE i # Place(c)
    <3>1. work[i].name # n
      BY <1>5, <2>3
    <3>2. proc'[c].writes[work[i].name] = proc[c].writes[work[i].name]
      BY <1>1, <1>2, <2>1, <3>1
    <3> QED BY <1>1, <2>3, <3>2 DEF Progress, work
  <2> QED BY <2>2, <2>3
<1>7. ASSUME NEW m \in Names \ Working(c), proc'[c].writes[m] # NoRow
      PROVE  ~proc'[c].writes[m].active
  <2>1. proc'[c].writes[m] = proc[c].writes[m]
    BY <1>1, <1>2
  <2> QED BY <1>7, <2>1 DEF Progress
<1> QED BY <1>1, <1>2, <1>3, <1>6, <1>7 DEF Progress, work

LEMMA DeactivateProgress ==
  ASSUME Typed, NEW c \in Controllers, Clears(c), Progress(c), Deactivate(c)
  PROVE  Progress(c)'
<1> DEFINE work == proc[c].work
<1>1. GoesOn(c) /\ proc[c].pc = "deactivate" /\ proc'[c].todo = proc[c].todo
  BY DeactivateEffect
<1>2. PICK n \in proc[c].targets :
        /\ n \in Names /\ table[n] \in Rows
        /\ proc'[c].targets = proc[c].targets \ {n}
        /\ proc'[c].writes = [proc[c].writes EXCEPT ![n] = [table[n] EXCEPT !.active = FALSE]]
  BY DeactivateEffect
<1> DEFINE row == [table[n] EXCEPT !.active = FALSE]
<1>3. row \in Rows /\ ~row.active
  BY <1>2 DEF Rows
<1>4. row # NoRow
  BY <1>3, ReconcileAssumption DEF Rows
<1> HIDE DEF row
<1>5. proc'[c].writes = [proc[c].writes EXCEPT ![n] = row]
  BY <1>2 DEF row
<1>6. /\ work \in Specs \cup {<<>>} /\ proc'[c].work = work /\ UNCHANGED <<history, table>>
      /\ proc[c].writes \in [Names -> Rows \cup {NoRow}] /\ Working(c) \subseteq Names
      /\ \A i \in Parse(work) : work[i].name \in Working(c)
  BY <1>1, WorkingTyped DEF GoesOn
<1>7. Working(c)' = Working(c)
  BY <1>6 DEF Working
<1>8. n \notin Working(c)
  BY <1>2 DEF Clears, TargetsAreGone
<1>9. proc'[c].writes[n] = row /\ \A m \in Names \ {n} : proc'[c].writes[m] = proc[c].writes[m]
  BY <1>2, <1>5, <1>6
<1>10. ASSUME NEW i \in Parse(work)
       PROVE  \/ i \in proc'[c].todo
              \/ proc'[c].writes[work[i].name] = [active |-> TRUE, rev |-> work[i].rev]
  <2>1. work[i].name \in Names \ {n}
    BY <1>6, <1>8
  <2>2. proc'[c].writes[work[i].name] = proc[c].writes[work[i].name]
    BY <1>9, <2>1
  <2> QED BY <1>1, <2>2 DEF Progress
<1>11. ASSUME NEW m \in Names \ Working(c), proc'[c].writes[m] # NoRow
       PROVE  ~proc'[c].writes[m].active
  BY <1>3, <1>9, <1>11 DEF Progress
<1>12. ASSUME NEW m \in Names \ Working(c), table[m] # NoRow, table[m].active
       PROVE  m \in proc'[c].targets \/ proc'[c].writes[m] # NoRow
  BY <1>1, <1>2, <1>4, <1>9, <1>12 DEF Progress
<1> QED BY <1>6, <1>7, <1>10, <1>11, <1>12 DEF Progress

LEMMA VersionsStep == ASSUME ResetsInv, OneAtATime, [Next]_vars PROVE OneAtATime'
<1>0. Typed /\ LocksHeld /\ \A c \in Controllers : Clears(c)
  BY DEF ResetsInv
<1>1. SUFFICES ASSUME ~overlap' PROVE OneAtATime'
  BY DEF OneAtATime
<1>2. ~overlap
  BY <1>0, <1>1 DEF Next, vars, Edit, Acquire, LoseLease, Exit, Crash, Deliver, Resync,
       StartReconcile, Statement, Fail, Select, Upsert, Scan, Deactivate, Commit, Reject,
       Deadlock, Typed, RestTyped
<1>3. CASE UNCHANGED vars \/ Edit \/ \E c \in Controllers : LoseLease(c)
  <2>1. UNCHANGED <<proc, table>>
    BY <1>3 DEF vars, Edit, LoseLease
  <2>2. \A v \in DOMAIN history : v \in DOMAIN history' /\ history'[v] = history[v]
    <3>1. CASE UNCHANGED history
      BY <3>1
    <3>2. CASE Edit
      BY <1>0, <3>2 DEF Edit, Typed, HistoryTyped
    <3> QED BY <1>3, <3>1, <3>2 DEF vars, LoseLease
  <2>3. FromOne'
    <3>1. Active' = Active
      BY <2>1 DEF Active
    <3> QED BY <1>2, <2>2, <3>1 DEF OneAtATime, FromOne
  <2>4. ASSUME NEW d \in Controllers, proc[d].pc # "idle" PROVE RunsAlone(d)' /\ Progress(d)'
    BY <1>2, <2>1, <2>2, <2>4, SameProgress DEF OneAtATime, RunsAlone
  <2> QED BY <2>1, <2>3, <2>4 DEF OneAtATime
<1>4. ASSUME NEW c \in Controllers,
             Acquire(c) \/ Exit(c) \/ Crash(c) \/ Fail(c) \/ Reject(c) \/ Deadlock(c)
      PROVE  OneAtATime'
  <2>1. UNCHANGED <<table, history>>
    BY <1>4 DEF Acquire, Exit, Crash, Fail, Reject, Deadlock
  <2>2. Others(c) /\ proc'[c].pc = "idle"
    BY <1>0, <1>4, AcquireEffect, EndsEffect DEF Cleared
  <2> QED BY <1>2, <2>1, <2>2, AloneStep
<1>5. ASSUME NEW c \in Controllers, Commit(c) PROVE OneAtATime'
  <2>1. Others(c) /\ proc'[c].pc = "idle" /\ UNCHANGED history
    BY <1>0, <1>5, EndsEffect DEF Cleared
  <2>2. RunsAlone(c) /\ Progress(c)
    BY <1>2, <1>5 DEF OneAtATime, Commit
  <2>3. PICK v \in DOMAIN history : proc[c].work = Work(history[v])
    BY <2>2 DEF Progress
  <2>4. Active' = Desired(history[v])
    BY <1>0, <1>5, <2>2, <2>3, CommitsDesired
  <2>5. FromOne'
    BY <2>1, <2>4 DEF FromOne
  <2>6. \A d \in Controllers : proc'[d].pc = "idle"
    BY <2>1, <2>2 DEF RunsAlone, Others
  <2> QED BY <2>5, <2>6 DEF OneAtATime
<1>6. ASSUME NEW c \in Controllers, Deliver(c) \/ Resync(c) PROVE OneAtATime'
  <2>1. UNCHANGED table
    BY <1>6 DEF Deliver, Resync
  <2>2. Notified(c)
    BY <1>0, <1>6, NotifiedEffect
  <2>3. Working(c)' = Working(c)
    BY <2>2 DEF Working, Notified
  <2>4. Progress(c) => Progress(c)'
    BY <2>1, <2>2, <2>3 DEF Progress, Notified
  <2>5. proc'[c].pc = "idle" \/ (proc[c].pc # "idle" /\ Progress(c)')
    BY <1>2, <2>2, <2>4 DEF OneAtATime, Notified
  <2> QED BY <1>2, <2>1, <2>2, <2>5, AloneStep DEF Notified
<1>7. ASSUME NEW c \in Controllers, StartReconcile(c) PROVE OneAtATime'
  <2>1. /\ Others(c) /\ UNCHANGED <<table, history>> /\ proc[c].pc = "idle"
        /\ proc'[c].work = Work(history[proc[c].seen])
        /\ proc'[c].todo = Parse(proc'[c].work)
        /\ proc'[c].pc # "deactivate" /\ proc'[c].writes = proc[c].writes
    BY <1>0, <1>7, StartEffect
  <2>2. RunsAlone(c)
    BY <1>1, <1>2, <1>7 DEF StartReconcile, RunsAlone
  <2>3. proc'[c].writes = NoWrites
    BY <1>0, <2>1 DEF LocksHeld, IdleIsClean
  <2>4. proc[c].seen \in DOMAIN history
    BY <1>0 DEF Typed, HistoryTyped, ProcsTyped, ProcTyped
  <2>5. Progress(c)'
    BY <2>1, <2>3, <2>4 DEF Progress, NoWrites
  <2>6. FromOne'
    BY <1>2, <2>1 DEF OneAtATime, FromOne, Active
  <2>7. RunsAlone(c)' /\ \A d \in Controllers \ {c} : proc'[d].pc = "idle"
    BY <2>1, <2>2 DEF RunsAlone, Others
  <2> QED BY <2>5, <2>6, <2>7 DEF OneAtATime
<1>8. ASSUME NEW c \in Controllers, Select(c) PROVE OneAtATime'
  <2>1. /\ GoesOn(c) /\ proc[c].pc = "select" /\ proc'[c].pc = "upsert"
        /\ proc'[c].todo = proc[c].todo /\ proc'[c].writes = proc[c].writes
    BY <1>0, <1>8, SelectEffect
  <2>2. Working(c)' = Working(c)
    BY <2>1 DEF GoesOn, Working
  <2>3. Progress(c)
    BY <1>2, <2>1 DEF OneAtATime
  <2>4. Progress(c)'
    BY <2>1, <2>2, <2>3 DEF GoesOn, Progress
  <2> QED BY <1>2, <2>1, <2>4, AloneStep DEF GoesOn
<1>9. ASSUME NEW c \in Controllers, Upsert(c) PROVE OneAtATime'
  <2>1. GoesOn(c) /\ proc[c].pc = "upsert"
    BY <1>0, <1>9, UpsertEffect
  <2>2. Progress(c)'
    BY <1>0, <1>2, <1>9, <2>1, UpsertProgress DEF OneAtATime
  <2> QED BY <1>2, <2>1, <2>2, AloneStep DEF GoesOn
<1>10. ASSUME NEW c \in Controllers, Scan(c) PROVE OneAtATime'
  <2>1. /\ GoesOn(c) /\ proc[c].pc = "scan" /\ proc'[c].todo = proc[c].todo
        /\ proc'[c].writes = proc[c].writes /\ proc'[c].targets = Missing(c)
    BY <1>0, <1>10, ScanEffect
  <2>2. Working(c)' = Working(c)
    BY <2>1 DEF GoesOn, Working
  <2>3. Progress(c)
    BY <1>2, <2>1 DEF OneAtATime
  <2>4. Progress(c)'
    BY <2>1, <2>2, <2>3 DEF GoesOn, Progress, Missing
  <2> QED BY <1>2, <2>1, <2>4, AloneStep DEF GoesOn
<1>11. ASSUME NEW c \in Controllers, Deactivate(c) PROVE OneAtATime'
  <2>1. GoesOn(c) /\ proc[c].pc = "deactivate"
    BY <1>0, <1>11, DeactivateEffect
  <2>2. Progress(c)'
    BY <1>0, <1>2, <1>11, <2>1, DeactivateProgress DEF OneAtATime
  <2> QED BY <1>2, <2>1, <2>2, AloneStep DEF GoesOn
<1> QED BY <1>3, <1>4, <1>5, <1>6, <1>7, <1>8, <1>9, <1>10, <1>11 DEF Next, Statement

\* Without overlapping reconciliations the active rows stem from one version of
\* the object, or there are none, whatever crashes, fails or comes late
\* (WorkloadRepository.Reconcile).
THEOREM OneVersion == Spec => []WholeVersions
<1>1. Init => OneAtATime
  <2>1. ASSUME Init PROVE Active = {}
    BY <2>1 DEF Init, Active
  <2> QED BY <2>1, StandbyTyped DEF Init, OneAtATime, FromOne
<1>2. OneAtATime => WholeVersions
  BY DEF OneAtATime, FromOne, WholeVersions
<1> QED BY <1>1, <1>2, AlwaysResets, VersionsStep, PTL DEF Spec
=============================================================================
