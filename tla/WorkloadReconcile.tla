------------------------- MODULE WorkloadReconcile -------------------------
(***************************************************************************)
(* How the table workloads follows one ScaledObject: the watch and the     *)
(* queue of the leading controller, the parser, and the transaction that   *)
(* upserts the valid triggers and deactivates the others, one statement    *)
(* at a time under the row locks of PostgreSQL (READ COMMITTED).           *)
(*                                                                         *)
(* A standby takes the lease when it is free.  A process that lost its     *)
(* lease goes on until it notices: the lease does not fence the database.  *)
(* A trigger is its name, the name of its source trigger, the policy       *)
(* revision it hashes to, and two verdicts on its fields: the parser's, and *)
(* that of the CHECK constraints of the table, which may differ.           *)
(***************************************************************************)
EXTENDS Integers, Sequences, FiniteSetsExt

CONSTANTS
    Controllers,   \* replicas of the controller
    NoOne,         \* the lease is free
    Specs,         \* ReplicaSense triggers the object may have, in order
    Absent,        \* the object does not exist
    NoRow,
    Clearing,      \* policy revisions with clearOldModels: "true"
    MaxEdits, MaxFaults   \* bounds: edits of the object; crashes and errors

Triggers == UNION {{s[i] : i \in DOMAIN s} : s \in Specs}
Names    == {t.name : t \in Triggers}
Revs     == {t.rev : t \in Triggers}

ASSUME ReconcileAssumption ==
    /\ NoOne \notin Controllers
    /\ \A s \in Specs : s \in Seq([name : Names, source : {t.source : t \in Triggers},
                                   rev : Revs, ok : BOOLEAN, fits : BOOLEAN])
    /\ Absent \notin Specs
    /\ NoRow \notin [active : BOOLEAN, rev : Revs]
    /\ MaxEdits \in Nat /\ MaxFaults \in Nat

VARIABLES
    history,   \* versions of the object at the API server, the last one current
    lease,     \* holder of the leader lease
    proc,      \* controller processes
    table,     \* committed rows of workloads, by trigger name
    overlap,   \* two reconciliations have been under way at once
    faults     \* crashes, lost leases and failed statements so far

vars == <<history, lease, proc, table, overlap, faults>>

Object == history[Len(history)]

Rows == [active : BOOLEAN, rev : Revs]

\* "seen" is the version in the cache of the process; "work" the triggers it
\* reconciles and "todo" the places of those it has yet to upsert.
\* The open transaction holds "locks" and "writes"; "fresh" are the triggers it
\* found no row for, "clears" those whose models it deletes, and "targets" the
\* rows it has yet to deactivate.
ProcType ==
    [pc : {"idle", "select", "upsert", "scan", "deactivate"}, leads : BOOLEAN,
     seen : Nat, queued : BOOLEAN, work : Specs \cup {<<>>}, todo : SUBSET Nat,
     locks : SUBSET Names, writes : [Names -> Rows \cup {NoRow}],
     fresh : SUBSET Names, clears : SUBSET Names, targets : SUBSET Names]

NoWrites == [n \in Names |-> NoRow]

Standby == [pc |-> "idle", leads |-> FALSE, seen |-> 1, queued |-> FALSE,
            work |-> <<>>, todo |-> {}, locks |-> {}, writes |-> NoWrites,
            fresh |-> {}, clears |-> {}, targets |-> {}]

Init ==
    /\ history \in {<<o>> : o \in Specs \cup {Absent}}
    /\ lease = NoOne
    /\ proc = [c \in Controllers |-> Standby]
    /\ table = [n \in Names |-> NoRow]
    /\ overlap = FALSE
    /\ faults = 0

Fault == faults < MaxFaults /\ faults' = faults + 1

-----------------------------------------------------------------------------
(* The API server, the lease and the watch. *)

\* The object is created, changed or deleted.
Edit ==
    /\ Len(history) <= MaxEdits
    /\ \E o \in (Specs \cup {Absent}) \ {Object} : history' = Append(history, o)
    /\ UNCHANGED <<lease, proc, table, overlap, faults>>

\* The new leader lists the objects, perhaps as an API server remembers them,
\* and enqueues those that exist: nothing is enqueued for one that is gone.
Acquire(c) ==
    /\ lease = NoOne /\ ~proc[c].leads
    /\ lease' = c
    /\ \E n \in 1 .. Len(history) :
          proc' = [proc EXCEPT ![c] =
                    [Standby EXCEPT !.leads = TRUE, !.seen = n,
                                    !.queued = (history[n] # Absent)]]
    /\ UNCHANGED <<history, table, overlap, faults>>

\* The lease expires while its holder is stalled.
LoseLease(c) ==
    /\ lease = c
    /\ lease' = NoOne
    /\ Fault
    /\ UNCHANGED <<history, proc, table, overlap>>

\* A process without its lease ends, and its transaction with it.
Exit(c) ==
    /\ proc[c].leads /\ lease # c
    /\ proc' = [proc EXCEPT ![c] = Standby]
    /\ UNCHANGED <<history, lease, table, overlap, faults>>

Crash(c) ==
    /\ lease = c
    /\ lease' = NoOne
    /\ proc' = [proc EXCEPT ![c] = Standby]
    /\ Fault
    /\ UNCHANGED <<history, table, overlap>>

\* A watch event updates the cache and enqueues the object's name.
Deliver(c) ==
    /\ proc[c].leads /\ proc[c].seen < Len(history)
    /\ proc' = [proc EXCEPT ![c].seen = @ + 1, ![c].queued = TRUE]
    /\ UNCHANGED <<history, lease, table, overlap, faults>>

\* The periodic resync enqueues what the cache holds.
Resync(c) ==
    /\ proc[c].leads /\ history[proc[c].seen] # Absent
    /\ proc' = [proc EXCEPT ![c].queued = TRUE]
    /\ UNCHANGED <<history, lease, table, overlap, faults>>

-----------------------------------------------------------------------------
(* The parser. *)

\* Other ReplicaSense triggers, valid or not, share neither name nor source.
Alone(t, spec) ==
    Cardinality({i \in DOMAIN spec : spec[i].name = t.name
                                     \/ spec[i].source = t.source}) = 1

\* The places of the triggers that become workloads, in the object's order.
Parse(spec) == {i \in DOMAIN spec : spec[i].ok /\ Alone(spec[i], spec)}

Work(o) == IF o = Absent THEN <<>> ELSE o

Desired(o) == {[name |-> Work(o)[i].name, rev |-> Work(o)[i].rev] : i \in Parse(Work(o))}

\* The parser wants the horizon with latency and buffer to be a multiple of the
\* sampling interval, the table wants it of the horizon alone.
Storable(o) == \A i \in Parse(Work(o)) : Work(o)[i].fits

-----------------------------------------------------------------------------
(* The reconciliation. *)

\* The name leaves the queue and the cache is read: a missing object is
\* deactivated, which is to reconcile no trigger.
StartReconcile(c) ==
    /\ proc[c].leads /\ proc[c].queued /\ proc[c].pc = "idle"
    /\ LET work == Work(history[proc[c].seen]) IN
           proc' = [proc EXCEPT ![c].queued = FALSE, ![c].work = work,
                        ![c].todo = Parse(work),
                        ![c].pc = IF Parse(work) = {} THEN "scan" ELSE "select"]
    /\ overlap' = (overlap \/ \E d \in Controllers \ {c} : proc[d].pc # "idle")
    /\ UNCHANGED <<history, lease, table, faults>>

Place(c)   == Min(proc[c].todo)
Current(c) == proc[c].work[Place(c)]
Working(c) == {proc[c].work[i].name : i \in Parse(proc[c].work)}

Locked(c, n) == \E d \in Controllers \ {c} : n \in proc[d].locks

\* The process after its transaction; a failed one is queued again.
Ended(c, again) ==
    [Standby EXCEPT !.leads = proc[c].leads, !.seen = proc[c].seen,
                    !.queued = proc[c].queued \/ again]

\* Faulty variant: the row is read without a lock.
ReadOnly(c) == {}

\* The SELECT locks the row it finds; an uncommitted one is not found.
RowLock(c) == {Current(c).name}

Select(c) == LET n == Current(c).name IN
    /\ proc[c].pc = "select"
    /\ \/ /\ table[n] # NoRow /\ ~Locked(c, n)
          /\ proc' = [proc EXCEPT ![c].pc = "upsert",
                        ![c].locks = @ \cup RowLock(c),
                        ![c].clears =
                            IF Current(c).rev \in Clearing \ {table[n].rev}
                            THEN @ \cup {n} ELSE @]
       \/ /\ table[n] = NoRow
          /\ proc' = [proc EXCEPT ![c].pc = "upsert", ![c].fresh = @ \cup {n},
                        ![c].clears = IF Current(c).rev \in Clearing
                                      THEN @ \cup {n} ELSE @]
    /\ UNCHANGED <<history, lease, table, overlap, faults>>

\* Faulty variant: an update leaves the status as it was.
KeepsStatus(c) ==
    [active |-> LET n == Current(c).name IN table[n] = NoRow \/ table[n].active,
     rev |-> Current(c).rev]

Upserted(c) == [active |-> TRUE, rev |-> Current(c).rev]

\* Faulty variant: the loop runs once too often.
PastTheEnd(c) == IF proc[c].todo # {} THEN "select" ELSE "scan"

\* The next statement: the next trigger's, or the UPDATE of the missing rows.
Onward(c) == IF proc[c].todo # {Place(c)} THEN "select" ELSE "scan"

\* INSERT ... ON CONFLICT DO UPDATE, then the models of a changed revision.
Upsert(c) == LET n == Current(c).name IN
    /\ proc[c].pc = "upsert" /\ Current(c).fits /\ ~Locked(c, n)
    /\ proc' = [proc EXCEPT ![c].locks = @ \cup {n},
                    ![c].writes[n] = Upserted(c),
                    ![c].todo = @ \ {Place(c)},
                    ![c].pc = Onward(c)]
    /\ UNCHANGED <<history, lease, table, overlap, faults>>

\* Faulty variant: rows of invalid triggers stay as they are.
NoneMissing(c) == {}

\* Active rows of the object that the transaction did not upsert.
Missing(c) == {n \in Names \ Working(c) : table[n] # NoRow /\ table[n].active}

\* The last UPDATE takes its snapshot ...
Scan(c) ==
    /\ proc[c].pc = "scan"
    /\ proc' = [proc EXCEPT ![c].pc = "deactivate", ![c].targets = Missing(c)]
    /\ UNCHANGED <<history, lease, table, overlap, faults>>

\* ... and takes the rows it saw one by one, as they are by then.
Deactivate(c) ==
    /\ proc[c].pc = "deactivate"
    /\ \E n \in proc[c].targets :
          /\ ~Locked(c, n)
          /\ proc' = [proc EXCEPT ![c].targets = @ \ {n},
                        ![c].locks = @ \cup {n},
                        ![c].writes[n] = [table[n] EXCEPT !.active = FALSE]]
    /\ UNCHANGED <<history, lease, table, overlap, faults>>

\* The commit, whose answer may be lost.
Commit(c) ==
    /\ proc[c].pc = "deactivate" /\ proc[c].targets = {}
    /\ table' = [n \in Names |-> IF proc[c].writes[n] # NoRow
                                 THEN proc[c].writes[n] ELSE table[n]]
    /\ \/ proc' = [proc EXCEPT ![c] = Ended(c, FALSE)] /\ UNCHANGED faults
       \/ proc' = [proc EXCEPT ![c] = Ended(c, TRUE)] /\ Fault
    /\ UNCHANGED <<history, lease, overlap>>

\* Faulty variant: an object whose reconciliation failed is forgotten.
Forget(c) == Ended(c, FALSE)

Retry(c) == Ended(c, TRUE)

\* A statement fails: the transaction is rolled back.
Fail(c) ==
    /\ proc[c].pc # "idle"
    /\ proc' = [proc EXCEPT ![c] = Retry(c)]
    /\ Fault
    /\ UNCHANGED <<history, lease, table, overlap>>

\* The table rejects a row: nothing of the object is written.
Reject(c) ==
    /\ proc[c].pc = "upsert" /\ ~Current(c).fits
    /\ proc' = [proc EXCEPT ![c] = Retry(c)]
    /\ UNCHANGED <<history, lease, table, overlap, faults>>

\* The rows the next statement waits for.
Waits(c) ==
    CASE proc[c].pc = "select" -> {n \in {Current(c).name} : table[n] # NoRow}
      [] proc[c].pc = "upsert" /\ Current(c).fits -> {Current(c).name}
      [] proc[c].pc = "deactivate" -> proc[c].targets
      [] OTHER -> {}

\* PostgreSQL ends one of two transactions that wait for each other.
Deadlock(c) ==
    /\ \E d \in Controllers \ {c} :
          /\ Waits(c) \cap proc[d].locks # {}
          /\ Waits(d) \cap proc[c].locks # {}
    /\ proc' = [proc EXCEPT ![c] = Retry(c)]
    /\ UNCHANGED <<history, lease, table, overlap, faults>>

Statement(c) == \/ Select(c) \/ Upsert(c) \/ Scan(c) \/ Deactivate(c)
                \/ Commit(c) \/ Reject(c) \/ Deadlock(c)

Next ==
    \/ Edit
    \/ \E c \in Controllers :
          \/ Acquire(c) \/ LoseLease(c) \/ Exit(c) \/ Crash(c)
          \/ Deliver(c) \/ Resync(c)
          \/ StartReconcile(c) \/ Statement(c) \/ Fail(c)

Spec == Init /\ [][Next]_vars

\* The processes run, a lost lease is noticed and the watch delivers; nobody
\* has to edit the object, and faults need not happen.
FairSpec ==
    /\ Spec
    /\ \A c \in Controllers :
          /\ WF_vars(Acquire(c)) /\ WF_vars(Exit(c))
          /\ WF_vars(Deliver(c)) /\ WF_vars(Resync(c))
          /\ WF_vars(StartReconcile(c)) /\ WF_vars(Statement(c))

-----------------------------------------------------------------------------
(* Properties. *)

\* Every variable keeps its type.
TypeOK ==
    /\ history \in Seq(Specs \cup {Absent}) /\ history # <<>>
    /\ lease \in Controllers \cup {NoOne}
    /\ proc \in [Controllers -> ProcType]
    /\ \A c \in Controllers :
          /\ proc[c].seen <= Len(history)
          /\ proc[c].todo \subseteq Parse(proc[c].work)
          /\ proc[c].pc \in {"select", "upsert"} <=> proc[c].todo # {}
    /\ table \in [Names -> Rows \cup {NoRow}]
    /\ overlap \in BOOLEAN /\ faults \in 0 .. MaxFaults

Active == {[name |-> n, rev |-> table[n].rev] :
              n \in {m \in Names : table[m] # NoRow /\ table[m].active}}

\* The active rows of an object all stem from one version of it, or there are
\* none, as long as no two reconciliations ran at once: crashes, failures and
\* late writes of a former leader never leave triggers of two versions.
WholeVersions ==
    ~overlap => Active = {} \/ \E i \in DOMAIN history : Active = Desired(history[i])

\* The models of a trigger that has a row are deleted only by a transaction
\* that changes its policy revision, although a former leader may reconcile
\* the same revision at the same time (upsertWorkload: FOR UPDATE).
ResetOncePerChange ==
    [][\A c \in Controllers : Commit(c) =>
          \A n \in proc[c].clears \ proc[c].fresh : table[n].rev # table'[n].rev]_vars

\* When an object stays and the table takes every trigger the parser accepts,
\* its rows become what it says and stay so, whatever crashed, failed,
\* deadlocked, was rejected or was written late before.
Converges ==
    <>[](Object # Absent /\ Storable(Object)) => <>[](Active = Desired(Object))

\* The rows of an object that is gone are deactivated, if its leader has yet to
\* see or to handle the deletion and stays the leader.
DeletionIsApplied ==
    \A c \in Controllers :
        (/\ Object = Absent /\ lease = c
         /\ proc[c].seen < Len(history) \/ proc[c].queued \/ proc[c].pc # "idle")
            ~> (Active = {} \/ Object # Absent \/ lease # c \/ overlap)
=============================================================================
