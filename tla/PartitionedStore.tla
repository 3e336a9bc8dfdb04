-------------------------- MODULE PartitionedStore --------------------------
(***************************************************************************)
(* The Java binding's PartitionedStore: one engine per partition, fed from *)
(* a log the caller commits.  Fold threads send a record to the log and    *)
(* stage it in the partition's overlay under stageLock; a transaction      *)
(* boundary then applies the staged set, drops it, or drops it and marks   *)
(* the partitions behind, depending on what is known of the commit.        *)
(*                                                                         *)
(* A value is the log position of the put that wrote it, 0 is an absence.  *)
(* The log (Changelog, Restore) and the engine underneath are external.    *)
(* The engine keeps a live state and a durable one; a flush makes the      *)
(* whole live state durable, writes and watermark together.  The log is    *)
(* read committed: assign and repair run while no transaction is open.     *)
(***************************************************************************)
EXTENDS Integers, FiniteSets, FiniteSetsExt, Sequences

CONSTANTS Partitions,  \* the partition ids
          Threads,     \* fold threads
          Keys,        \* store keys
          MaxRecords,  \* bound: records the log may reach, over all partitions
          MaxFaults    \* bound: failed calls, crashes, closes

ASSUME PartitionsAssumption == Partitions \subseteq Nat

VARIABLES log,          \* [Partitions -> Seq([kind, keys, fate])]
          live,         \* the open engine: [val, wm]
          disk,         \* what survives a crash: [val, wm]
          assigned,     \* partitions: ids in the map
          behind,       \* Partition.behind
          materialized, \* Partition.materialized, 0 for none
          staged,       \* [subset of Partitions -> overlay]
          thread,       \* what each fold thread is doing under a stageLock
          main,         \* the thread that owns the transaction boundaries
          faults

vars == <<log, live, disk, assigned, behind, materialized, staged, thread, main, faults>>

store == <<live, disk, materialized>>

Mutations == [kind: {"put", "delete"}, keys: {{k} : k \in Keys}]
               \cup [kind: {"deleteRange"}, keys: {Keys}]

Idle == [at |-> "idle"]
Open == [at |-> "open"]
Unresolved == [at |-> "unresolved"]
Quiet == \A t \in Threads : thread[t] = Idle

\* Nobody holds the partition's stageLock for writing.
Unlocked(p) == \A t \in Threads : thread[t] # Idle => thread[t].partition # p

Fault == /\ faults < MaxFaults
         /\ faults' = faults + 1

-----------------------------------------------------------------------------
(* The log, external.                                                      *)

\* The value of key k when the records of p with a fate in fates, up to
\* position n, have been applied in order over val.
ValueAfter(val, p, k, from, fates) ==
    LET hits == {i \in from .. Len(log[p]) : log[p][i].fate \in fates /\ k \in log[p][i].keys}
    IN IF hits = {} THEN val[k]
       ELSE IF log[p][Max(hits)].kind = "put" THEN Max(hits) ELSE 0

Settle(fate) ==
    log' = [p \in Partitions |->
              [i \in 1 .. Len(log[p]) |->
                 IF log[p][i].fate = "open" THEN [log[p][i] EXCEPT !.fate = fate] ELSE log[p][i]]]

\* One mutation applied to an engine's values.
Written(val, mutation, position) ==
    [k \in Keys |-> IF k \notin mutation.keys THEN val[k]
                    ELSE IF mutation.kind = "put" THEN position ELSE 0]

-----------------------------------------------------------------------------
(* StagedOverlay.                                                          *)

NewOverlay == [points |-> {}, ranges |-> {}, positions |-> {}, sequence |-> 0]

\* put replaces the point of its key; deleteRange appends a range.
Stage(o, mutation, position) ==
    LET op == [keys |-> mutation.keys, kind |-> mutation.kind, sequence |-> o.sequence,
               value |-> position]
    IN [points |-> IF mutation.kind = "deleteRange" THEN o.points
                   ELSE {q \in o.points : q.keys # mutation.keys} \cup {op},
        ranges |-> IF mutation.kind = "deleteRange" THEN o.ranges \cup {op} ELSE o.ranges,
        positions |-> o.positions \cup {position},
        sequence |-> o.sequence + 1]

covering(o, k) == Max({-1} \cup {r.sequence : r \in {r \in o.ranges : k \in r.keys}})

\* What the staged set says of k: a set holding the answer, empty on a miss.
resolve(o, k) ==
    LET point == {q \in o.points : k \in q.keys}
    IN IF point = {} THEN IF covering(o, k) >= 0 THEN {0} ELSE {}
       ELSE {IF q.sequence < covering(o, k) \/ q.kind = "delete" THEN 0 ELSE q.value : q \in point}

\* into(batch) appends the operations in the order they were staged, so the
\* last one on a key is the one the engine keeps.
into(o, val) ==
    [k \in Keys |->
       LET ops == {op \in o.points \cup o.ranges : k \in op.keys}
           last == CHOOSE op \in ops : \A other \in ops : other.sequence <= op.sequence
       IN IF ops = {} THEN val[k] ELSE IF last.kind = "put" THEN last.value ELSE 0]

\* The keys a scan injects, and the committed keys it drops.
Injections(o) == {k \in Keys : \E q \in o.points : k \in q.keys /\ resolve(o, k) # {0}}
Decides(o, k) == \E op \in o.points \cup o.ranges : k \in op.keys

-----------------------------------------------------------------------------
(* Reads.                                                                  *)

Staged(p) == p \in DOMAIN staged
WithOverlay(p) == [q \in DOMAIN staged \cup {p} |-> IF Staged(q) THEN staged[q] ELSE NewOverlay]
Served(p) == p \in assigned /\ ~behind[p]

get(p, k) ==
    IF Staged(p) /\ resolve(staged[p], k) # {} THEN CHOOSE v \in resolve(staged[p], k) : TRUE
    ELSE live[p].val[k]

getCommitted(p, k) == live[p].val[k]

\* iterator: the committed keys the overlay does not decide, and its puts.
iterator(p) ==
    LET o == IF Staged(p) THEN staged[p] ELSE NewOverlay
    IN {<<k, live[p].val[k]>> : k \in {k \in Keys : live[p].val[k] # 0 /\ ~Decides(o, k)}}
         \cup UNION {{<<k, v>> : v \in resolve(o, k)} : k \in Injections(o)}

-----------------------------------------------------------------------------
(* Staging: put and deleteRange.                                           *)

\* Mutant: the send runs outside the stageLock.
SendOutsideLock(t, p, mutation) ==
    /\ main = Open
    /\ thread[t] = Idle
    /\ Served(p)
    /\ FoldSet(LAMBDA q, n : n + Len(log[q]), 0, Partitions) < MaxRecords
    /\ log' = [log EXCEPT ![p] = Append(@, [kind |-> mutation.kind, keys |-> mutation.keys,
                                            fate |-> "open"])]
    /\ staged' = WithOverlay(p)
    /\ thread' = [thread EXCEPT ![t] = [at |-> "sent", partition |-> p,
                                        position |-> Len(log[p]) + 1]]
    /\ UNCHANGED <<store, assigned, behind, main, faults>>

\* The first half of put: the record reaches the log, with the partition's
\* stageLock held for writing.
Send(t, p, mutation) ==
    /\ main = Open
    /\ thread[t] = Idle
    /\ Served(p)
    /\ Unlocked(p)
    /\ FoldSet(LAMBDA q, n : n + Len(log[q]), 0, Partitions) < MaxRecords
    /\ log' = [log EXCEPT ![p] = Append(@, [kind |-> mutation.kind, keys |-> mutation.keys,
                                            fate |-> "open"])]
    /\ staged' = WithOverlay(p)
    /\ thread' = [thread EXCEPT ![t] = [at |-> "sent", partition |-> p,
                                        position |-> Len(log[p]) + 1]]
    /\ UNCHANGED <<store, assigned, behind, main, faults>>

\* The second half: the overlay records the mutation and the lock is released.
Record(t) ==
    /\ thread[t] # Idle
    /\ LET p == thread[t].partition
           n == thread[t].position
       IN staged' = [staged EXCEPT ![p] = Stage(@, log[p][n], n)]
    /\ thread' = [thread EXCEPT ![t] = Idle]
    /\ UNCHANGED <<log, store, assigned, behind, main, faults>>

\* The send throws: the lock is released and the overlay the call may have
\* created stays, with no position in it.
SendFails(t, p) ==
    /\ main = Open
    /\ thread[t] = Idle
    /\ Served(p)
    /\ Fault
    /\ staged' = WithOverlay(p)
    /\ UNCHANGED <<log, store, assigned, behind, thread, main>>

-----------------------------------------------------------------------------
(* Transaction boundaries.                                                 *)

dropStaged == staged' = <<>>
markBehind(ids) == behind' = [p \in Partitions |-> behind[p] \/ p \in ids \cap assigned]

discard == dropStaged /\ UNCHANGED behind
discardUnknown == dropStaged /\ markBehind(DOMAIN staged)

begin ==
    /\ main \in {Idle, Unresolved}
    /\ main' = Open
    /\ IF DOMAIN staged # {} THEN discardUnknown ELSE UNCHANGED <<staged, behind>>
    /\ UNCHANGED <<log, store, assigned, thread, faults>>

\* commit(action), or a container committing and calling applyCommitted.
CommitSucceeds ==
    /\ main = Open /\ Quiet
    /\ Settle("committed")
    /\ main' = [at |-> "apply", todo |-> DOMAIN staged, failed |-> {}, wrote |-> FALSE]
    /\ UNCHANGED <<store, assigned, behind, staged, thread, faults>>

\* AbortableNotCommitted, ProducerDead, or a container's rollback hook.
CommitDefinitelyFails ==
    /\ main = Open /\ Quiet
    /\ Settle("aborted")
    /\ main' = Idle
    /\ discard
    /\ UNCHANGED <<store, assigned, thread, faults>>

\* OutcomeUnknown, or anything unclassified.
CommitOutcomeUnknown ==
    /\ main = Open /\ Quiet
    /\ \E fate \in {"committed", "aborted"} : Settle(fate)
    /\ main' = Idle
    /\ discardUnknown
    /\ UNCHANGED <<store, assigned, thread, faults>>

\* The container's commit times out: neither hook fires, nothing is called.
HooksStaySilent ==
    /\ main = Open /\ Quiet
    /\ \E fate \in {"committed", "aborted"} : Settle(fate)
    /\ main' = Unresolved
    /\ UNCHANGED <<store, assigned, behind, staged, thread, faults>>

Applying(p) == main.at = "apply" /\ main.todo # {} /\ p = Min(main.todo)
GaveUp(p) == main' = [main EXCEPT !.todo = @ \ {p}, !.failed = @ \cup {p}, !.wrote = FALSE]

\* Partition.apply: the position is read first, then the batch is written,
\* then the watermark is stamped.  A failure of any step fails the partition
\* and the loop goes on.
ApplyWrite(p) ==
    /\ Applying(p) /\ ~main.wrote
    /\ p \in assigned /\ staged[p].positions # {}
    /\ live' = [live EXCEPT ![p].val = into(staged[p], @)]
    /\ main' = [main EXCEPT !.wrote = TRUE]
    /\ UNCHANGED <<log, disk, assigned, behind, materialized, staged, thread, faults>>

ApplyStamp(p) ==
    /\ Applying(p) /\ main.wrote
    /\ live' = [live EXCEPT ![p].wm = Max(staged[p].positions)]
    /\ materialized' = [materialized EXCEPT ![p] = Max(staged[p].positions)]
    /\ main' = [main EXCEPT !.todo = @ \ {p}, !.wrote = FALSE]
    /\ UNCHANGED <<log, disk, assigned, behind, staged, thread, faults>>

\* Mutant: the loop exits on the first failure.
ExitOnFirstFailure(p) ==
    /\ Applying(p)
    /\ main' = [main EXCEPT !.todo = {}, !.failed = {p}, !.wrote = FALSE]
    /\ IF p \in assigned /\ staged[p].positions # {} THEN Fault ELSE UNCHANGED faults
    /\ UNCHANGED <<log, store, assigned, behind, staged, thread>>

ApplyFails(p) ==
    /\ Applying(p)
    /\ GaveUp(p)
    /\ IF p \in assigned /\ staged[p].positions # {} THEN Fault ELSE UNCHANGED faults
    /\ UNCHANGED <<log, store, assigned, behind, staged, thread>>

applyCommitted ==
    /\ main.at = "apply" /\ main.todo = {}
    /\ main' = Idle
    /\ dropStaged
    /\ markBehind(main.failed)
    /\ UNCHANGED <<log, store, assigned, thread, faults>>

-----------------------------------------------------------------------------
(* Assignment.                                                             *)

\* Opens the engine: what it holds is what was durable.
assign(p) ==
    /\ main = Idle
    /\ p \notin assigned
    /\ live' = [live EXCEPT ![p] = disk[p]]
    /\ materialized' = [materialized EXCEPT ![p] = disk[p].wm]
    /\ main' = [at |-> "restore", partition |-> p, wrote |-> FALSE]
    /\ UNCHANGED <<log, disk, assigned, behind, staged, thread, faults>>

\* require(id, false) asks only that the partition is assigned.
repair(p) ==
    /\ main = Idle
    /\ p \in assigned /\ behind[p]
    /\ main' = [at |-> "restore", partition |-> p, wrote |-> FALSE]
    /\ UNCHANGED <<log, store, assigned, behind, staged, thread, faults>>

\* The committed records a restore of p has left.
Remaining(p) == {i \in materialized[p] + 1 .. Len(log[p]) : log[p][i].fate = "committed"}

\* WriteSink.putBatch and deleteRange: write, then stamp.
RestoreWrite ==
    /\ main.at = "restore" /\ ~main.wrote
    /\ LET p == main.partition IN
       /\ Remaining(p) # {}
       /\ live' = [live EXCEPT ![p].val = Written(@, log[p][Min(Remaining(p))], Min(Remaining(p)))]
    /\ main' = [main EXCEPT !.wrote = TRUE]
    /\ UNCHANGED <<log, disk, assigned, behind, materialized, staged, thread, faults>>

\* Mutant: the sink stamps the end of the log, not the batch's own position.
RestoreStampsLogEnd ==
    /\ main.at = "restore" /\ main.wrote
    /\ LET p == main.partition IN
       /\ live' = [live EXCEPT ![p].wm = Max(Remaining(p))]
       /\ materialized' = [materialized EXCEPT ![p] = Min(Remaining(p))]
    /\ main' = [main EXCEPT !.wrote = FALSE]
    /\ UNCHANGED <<log, disk, assigned, behind, staged, thread, faults>>

RestoreStamp ==
    /\ main.at = "restore" /\ main.wrote
    /\ LET p == main.partition IN
       /\ live' = [live EXCEPT ![p].wm = Min(Remaining(p))]
       /\ materialized' = [materialized EXCEPT ![p] = Min(Remaining(p))]
    /\ main' = [main EXCEPT !.wrote = FALSE]
    /\ UNCHANGED <<log, disk, assigned, behind, staged, thread, faults>>

replay ==
    /\ main.at = "restore" /\ ~main.wrote
    /\ Remaining(main.partition) = {}
    /\ assigned' = assigned \cup {main.partition}
    /\ behind' = [behind EXCEPT ![main.partition] = FALSE]
    /\ main' = Idle
    /\ UNCHANGED <<log, store, staged, thread, faults>>

\* The engine of p is closed, leaving this on disk.
Closed(p, left) ==
    /\ disk' = [disk EXCEPT ![p] = left]
    /\ live' = [live EXCEPT ![p] = left]
    /\ materialized' = [materialized EXCEPT ![p] = 0]

\* A restore that throws: an assignment closes its engine, with a flush that
\* may fail too; a repair leaves the partition behind.
RestoreFails ==
    /\ main.at = "restore"
    /\ Fault
    /\ IF main.partition \in assigned THEN UNCHANGED store
       ELSE \E left \in {live[main.partition], disk[main.partition]} : Closed(main.partition, left)
    /\ main' = Idle
    /\ UNCHANGED <<log, assigned, behind, staged, thread>>

Leaves(p) ==
    /\ main \in {Idle, Open, Unresolved} /\ Quiet
    /\ p \in assigned
    /\ Fault
    /\ assigned' = assigned \ {p}
    /\ behind' = [behind EXCEPT ![p] = FALSE]
    /\ staged' = [q \in DOMAIN staged \ {p} |-> staged[q]]
    /\ UNCHANGED <<log, thread, main>>

\* revoke and close flush first, and close even when the flush fails.
revoke(p) ==
    /\ Leaves(p)
    /\ \E left \in {live[p], disk[p]} : Closed(p, left)

lost(p) ==
    /\ Leaves(p)
    /\ Closed(p, disk[p])

-----------------------------------------------------------------------------
(* The engine and the process.                                             *)

\* A background flush: any moment while the engine is open.
EngineFlush(p) ==
    /\ p \in assigned \/ (main.at = "restore" /\ main.partition = p)
    /\ disk[p] # live[p]
    /\ disk' = [disk EXCEPT ![p] = live[p]]
    /\ UNCHANGED <<log, live, materialized, assigned, behind, staged, thread, main, faults>>

\* The process dies; an open transaction's commit may have been in flight.
Crash ==
    /\ Fault
    /\ \E fate \in {"committed", "aborted"} : Settle(fate)
    /\ assigned' = {}
    /\ behind' = [p \in Partitions |-> FALSE]
    /\ staged' = <<>>
    /\ thread' = [t \in Threads |-> Idle]
    /\ main' = Idle
    /\ live' = disk
    /\ materialized' = [p \in Partitions |-> 0]
    /\ UNCHANGED disk

Empty == [val |-> [k \in Keys |-> 0], wm |-> 0]

Init ==
    /\ log = [p \in Partitions |-> <<>>]
    /\ live = [p \in Partitions |-> Empty]
    /\ disk = [p \in Partitions |-> Empty]
    /\ assigned = Partitions
    /\ behind = [p \in Partitions |-> FALSE]
    /\ materialized = [p \in Partitions |-> 0]
    /\ staged = <<>>
    /\ thread = [t \in Threads |-> Idle]
    /\ main = Idle
    /\ faults = 0

Next ==
    \/ \E t \in Threads, p \in Partitions :
         SendFails(t, p) \/ \E mutation \in Mutations : Send(t, p, mutation)
    \/ \E t \in Threads : Record(t)
    \/ begin \/ CommitSucceeds \/ CommitDefinitelyFails \/ CommitOutcomeUnknown
    \/ HooksStaySilent \/ applyCommitted
    \/ \E p \in Partitions : ApplyWrite(p) \/ ApplyStamp(p) \/ ApplyFails(p)
    \/ \E p \in Partitions : assign(p) \/ repair(p) \/ revoke(p) \/ lost(p) \/ EngineFlush(p)
    \/ RestoreWrite \/ RestoreStamp \/ replay \/ RestoreFails
    \/ Crash

Spec == Init /\ [][Next]_vars

-----------------------------------------------------------------------------
(* Properties.                                                             *)

Committed(p, k) == ValueAfter(Empty.val, p, k, 1, {"committed"})

\* Inside a transaction, a get or a scan of a served partition nobody is
\* staging into answers what the log holds, this transaction's records
\* included: the order threads reach the log is the order the overlay keeps,
\* and a partition whose store misses a committed record is refused.
FoldSeesLog ==
    main = Open =>
      \A p \in Partitions :
        (Served(p) /\ Unlocked(p)) =>
          /\ \A k \in Keys : get(p, k) = ValueAfter(Empty.val, p, k, 1, {"committed", "open"})
          /\ iterator(p) = {<<k, get(p, k)>> : k \in {k \in Keys : get(p, k) # 0}}

\* "A lagging partition may not be served": between the outcome calls, what a
\* query reads from a served partition is exactly the committed log, whatever
\* applies failed and whatever was lost on the way.
ServedIsCommitted ==
    main.at \in {"idle", "open"} =>
      \A p \in Partitions : Served(p) =>
        \A k \in Keys : getCommitted(p, k) = Committed(p, k)

\* "The store may only ever lag": the committed records past the watermark,
\* replayed over what the store holds, give the committed state, for the
\* open engine and for what a crash would leave.
StoreOnlyLags ==
    \A p \in Partitions : \A s \in {live[p], disk[p]}, k \in Keys :
      ValueAfter(s.val, p, k, s.wm + 1, {"committed"}) = Committed(p, k)

=============================================================================
