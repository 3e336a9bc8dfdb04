------------------------------ MODULE WritePath ------------------------------
(***************************************************************************)
(* The write path of one writable DbImpl in background mode: application   *)
(* threads that call put, flush and get, the flush thread, the compaction  *)
(* executor and the maintenance coordinator, over the two memtables, the   *)
(* published version, bg_error_ and the shared memory budget.              *)
(*                                                                         *)
(* A write is a number, given to it when it reaches the memtable, and has  *)
(* size one; the version is the set of writes its files hold and the       *)
(* number of its L0 files.  mem_mutex_ is taken and released inside one    *)
(* step; where the code unlocks, another action follows.  A wait on        *)
(* flush_finished_ is untimed in the code: the sleeper takes no step until *)
(* a notify_all.  Every other wait is bounded by a timeout, so it is a     *)
(* state the thread may always leave.                                      *)
(*                                                                         *)
(* The truncation floor is in LsmTree, the coordinator's gate and the      *)
(* published transient-tier stall are in Maintenance, the inside of apply  *)
(* is in VersionSet.                                                       *)
(***************************************************************************)
EXTENDS Integers, FiniteSets, FiniteSetsExt

CONSTANTS Threads,        \* application threads that write
          Flushers,       \* those that also call flush()
          MemtableBytes,  \* Options::memtable_bytes, in writes
          CompactAt,      \* L0 files at which the picker compacts
          SlowdownAt,     \* L0 files at which a write nudges the executor and sleeps
          StopAt,         \* L0 files at which writes stop
          Budget,         \* MemoryBudget::total(), in writes
          MaxWrites,      \* bound: writes inserted
          MaxFlushes,     \* bound: flush() calls
          MaxFaults       \* bound: failing flushes and compactions

ASSUME WritePathAssumption ==
    /\ Threads # {} /\ Flushers \subseteq Threads
    /\ MemtableBytes \in Nat \ {0}
    /\ CompactAt \in 1 .. StopAt
    /\ {SlowdownAt, StopAt, Budget, MaxWrites, MaxFlushes, MaxFaults} \subseteq Nat

VARIABLES
    blockOnStall,   \* Options::block_on_stall
    mem,            \* writes of mem_
    aged,           \* mem_ has been open for flush_interval
    imm,            \* writes of imm_, or NoTable
    bgError,        \* bg_error_
    inserted,       \* writes given a number so far
    durable,        \* writes held by the files of the published version
    l0,             \* VersionSet::published_file_count(0)
    flushPc,        \* where the flush thread is
    flushStatus,    \* status of its flush_memtable
    charged,        \* BudgetCharge it holds
    pending,        \* compaction_pending_
    cache,          \* bytes of the block cache
    thread,         \* one record per thread that writes
    get,            \* the get in progress: what it has still to find
    refused,        \* writes whose put answered something other than Ok
    flushes,        \* flush() calls so far
    faults          \* failures so far

store == <<mem, aged, imm, inserted, durable, l0>>
flusher == <<flushPc, flushStatus, charged>>
ghosts == <<refused, flushes, faults>>
vars == <<blockOnStall, store, bgError, flusher, pending, cache, thread, get, ghosts>>

NoTable == {0}
Status == {"Ok", "Io", "Terminal", "Stalled"}

Putting == {"slot", "shedSlot", "paused", "insert"}
Locations == Putting \cup {"idle", "freeze", "flushSlot", "flushWait", "flushed"}

\* at: the next statement.  asleep: waiting on flush_finished_.  retried: the
\* local of await_flush_slot.  over: budget_overage while budget_stall holds,
\* else 0.  id: the write inserted.  owed: what a flush() in progress has to
\* make durable, the writes acknowledged before the call.
Idle == [at |-> "idle", asleep |-> FALSE, retried |-> FALSE, over |-> 0, id |-> 0, owed |-> {}]

TypeOK ==
    /\ mem \subseteq 1 .. MaxWrites
    /\ imm = NoTable \/ imm \subseteq 1 .. MaxWrites
    /\ durable \subseteq 1 .. MaxWrites
    /\ bgError \in Status \ {"Stalled"}
    /\ flushStatus \in Status \ {"Stalled"}
    /\ \A t \in Threads : thread[t].at \in Locations

Used == Cardinality(mem) + (IF imm = NoTable THEN 0 ELSE Cardinality(imm)) + cache + charged

\* MemoryBudget::overage
overage == IF Used > Budget THEN Used - Budget ELSE 0

memtable_flush_due(force) ==
    force \/ Cardinality(mem) >= MemtableBytes \/ (aged /\ mem # {})

\* Writes whose put has returned Ok: the ones in flight are still before the
\* end of maybe_freeze_memtable.
Acked == ((1 .. inserted) \ {thread[t].id : t \in Threads}) \ refused

-----------------------------------------------------------------------------
Goto(t, at, over) ==
    thread' = [thread EXCEPT ![t].at = at, ![t].retried = FALSE, ![t].over = over]

\* A call returns: a put that inserted and then answers an error has refused
\* a write it stored.
Return(t, status) ==
    /\ thread' = [thread EXCEPT ![t] = Idle]
    /\ refused' = IF status # "Ok" /\ thread[t].id # 0 THEN refused \cup {thread[t].id} ELSE refused

NotifyNobody(threads) == threads

NotifyAll(threads) == [t \in Threads |-> [threads[t] EXCEPT !.asleep = FALSE]]

seal_memtable ==
    /\ imm' = mem
    /\ mem' = {}
    /\ aged' = FALSE

-----------------------------------------------------------------------------
(* await_flush_slot, one turn of its loop: mem_mutex_ is held from the     *)
(* test to the wait.                                                       *)

SlotTaken(force) == imm # NoTable /\ memtable_flush_due(force)

SlotGivesUp(t) == bgError = "Terminal" \/ (bgError = "Io" /\ thread[t].retried)

SlotError(t, force) == SlotTaken(force) /\ SlotGivesUp(t)

SlotStalled(t, force) ==
    /\ SlotTaken(force) /\ ~SlotGivesUp(t) /\ ~blockOnStall
    /\ bgError' = "Ok"

SlotWait(t, force) ==
    /\ SlotTaken(force) /\ ~SlotGivesUp(t) /\ blockOnStall
    /\ bgError' = "Ok"
    /\ thread' = [thread EXCEPT ![t].asleep = TRUE,
                                ![t].retried = @ \/ bgError # "Ok"]

-----------------------------------------------------------------------------
(* put, and remove, delete_range and write(batch), which take the same     *)
(* steps.                                                                  *)

PutBegin(t) ==
    /\ thread[t].at = "idle"
    /\ inserted + Cardinality({u \in Threads : thread[u].at \in Putting}) < MaxWrites
    /\ Goto(t, "slot", 0)
    /\ UNCHANGED <<blockOnStall, get, store, bgError, flusher, pending, cache, ghosts>>

\* One turn of the loop of throttle_writes up to its wait; over is
\* budget_overage while budget_stall holds.
throttle_writes(t, over) ==
    LET stop == l0 >= StopAt \/ over > 0
    IN  \/ /\ ~stop
           /\ Goto(t, "insert", 0)
           /\ pending' = (pending \/ l0 >= SlowdownAt)
           /\ UNCHANGED refused
        \/ stop /\ blockOnStall /\ Goto(t, "paused", over) /\ pending' = TRUE /\ UNCHANGED refused
        \/ stop /\ ~blockOnStall /\ Return(t, "Stalled") /\ pending' = TRUE

\* shed_if_over_budget up to its forced freeze: evict the block cache first,
\* and freeze only a memtable worth a file.
shed_if_over_budget(t) ==
    LET released == Min({cache, overage})
        left == overage - released
    IN  /\ cache' = cache - released
        /\ IF left > 0 /\ Cardinality(mem) >= MemtableBytes \div 4
           THEN Goto(t, "shedSlot", 0) /\ UNCHANGED <<pending, refused>>
           ELSE throttle_writes(t, left)

\* The rotation valve, which comes before every other one.
await_rotation_slot(t) ==
    /\ thread[t].at = "slot" /\ ~thread[t].asleep
    /\ \/ SlotError(t, FALSE) /\ Return(t, bgError) /\ UNCHANGED <<bgError, cache, pending>>
       \/ SlotStalled(t, FALSE) /\ Return(t, "Stalled") /\ UNCHANGED <<cache, pending>>
       \/ SlotWait(t, FALSE) /\ UNCHANGED <<refused, cache, pending>>
       \/ ~SlotTaken(FALSE) /\ shed_if_over_budget(t) /\ UNCHANGED bgError
    /\ UNCHANGED <<blockOnStall, get, store, flusher, flushes, faults>>

\* The forced maybe_freeze_memtable of the shed, whose status is dropped; then
\* budget_stall and budget_overage are read.
ShedFreeze(t) ==
    /\ thread[t].at = "shedSlot" /\ ~thread[t].asleep
    /\ \/ SlotError(t, TRUE) /\ throttle_writes(t, overage) /\ UNCHANGED <<store, bgError>>
       \/ SlotStalled(t, TRUE) /\ throttle_writes(t, overage) /\ UNCHANGED store
       \/ SlotWait(t, TRUE) /\ UNCHANGED <<store, pending, refused>>
       \/ /\ ~SlotTaken(TRUE)
          /\ IF mem = {} THEN UNCHANGED store
             ELSE seal_memtable /\ UNCHANGED <<inserted, durable, l0>>
          /\ throttle_writes(t, overage)
          /\ UNCHANGED bgError
    /\ UNCHANGED <<blockOnStall, get, flusher, cache, flushes, faults>>

\* The wait on compaction_finished_ ends, by a notification or after 50 ms.
\* budget_still_holding keeps waiting only while the overage shrinks.
ThrottleWakes(t) ==
    /\ thread[t].at = "paused"
    /\ IF bgError = "Terminal" THEN Return(t, bgError) /\ UNCHANGED pending
       ELSE throttle_writes(t, IF overage >= thread[t].over THEN 0 ELSE overage)
    /\ UNCHANGED <<blockOnStall, get, store, bgError, flusher, cache, flushes, faults>>

\* The critical section of put.
PutInsert(t) ==
    /\ thread[t].at = "insert"
    /\ IF bgError = "Terminal" THEN Return(t, bgError) /\ UNCHANGED store
       ELSE /\ inserted' = inserted + 1
            /\ mem' = mem \cup {inserted + 1}
            /\ thread' = [thread EXCEPT ![t].at = "freeze", ![t].id = inserted + 1]
            /\ UNCHANGED <<aged, imm, durable, l0, refused>>
    /\ UNCHANGED <<blockOnStall, get, bgError, flusher, pending, cache, flushes, faults>>

FreezeAfterInsertRefuses(t) ==
    /\ thread[t].at = "freeze"
    /\ IF memtable_flush_due(FALSE) /\ imm = NoTable
       THEN seal_memtable /\ UNCHANGED <<inserted, durable, l0>>
       ELSE UNCHANGED store
    /\ Return(t, IF memtable_flush_due(FALSE) /\ imm # NoTable THEN "Stalled" ELSE "Ok")
    /\ UNCHANGED <<blockOnStall, get, bgError, flusher, pending, cache, flushes, faults>>

\* maybe_freeze_memtable(false): a rotation the slot cannot take is left to
\* the next writer or to the coordinator.
maybe_freeze_memtable(t) ==
    /\ thread[t].at = "freeze"
    /\ IF memtable_flush_due(FALSE) /\ imm = NoTable
       THEN seal_memtable /\ UNCHANGED <<inserted, durable, l0>>
       ELSE UNCHANGED store
    /\ Return(t, "Ok")
    /\ UNCHANGED <<blockOnStall, get, bgError, flusher, pending, cache, flushes, faults>>

-----------------------------------------------------------------------------
(* flush(): the forced freeze, then the wait for the flush thread.         *)

FlushBegin(t) ==
    /\ t \in Flushers /\ thread[t].at = "idle"
    /\ flushes < MaxFlushes
    /\ flushes' = flushes + 1
    /\ thread' = [thread EXCEPT ![t].at = "flushSlot", ![t].owed = Acked \ durable]
    /\ UNCHANGED <<blockOnStall, store, bgError, flusher, pending, cache, get, refused, faults>>

FlushFreezesIfFree(t) ==
    /\ thread[t].at = "flushSlot"
    /\ IF SlotTaken(TRUE) \/ mem = {} THEN UNCHANGED store
       ELSE seal_memtable /\ UNCHANGED <<inserted, durable, l0>>
    /\ Goto(t, "flushWait", 0)
    /\ UNCHANGED <<blockOnStall, get, bgError, flusher, pending, cache, ghosts>>

FlushFreeze(t) ==
    /\ thread[t].at = "flushSlot" /\ ~thread[t].asleep
    /\ \/ SlotError(t, TRUE) /\ Return(t, bgError) /\ UNCHANGED <<store, bgError>>
       \/ SlotStalled(t, TRUE) /\ Return(t, "Stalled") /\ UNCHANGED store
       \/ SlotWait(t, TRUE) /\ UNCHANGED <<store, refused>>
       \/ /\ ~SlotTaken(TRUE)
          /\ IF mem = {} THEN UNCHANGED store
             ELSE seal_memtable /\ UNCHANGED <<inserted, durable, l0>>
          /\ Goto(t, "flushWait", 0)
          /\ UNCHANGED <<bgError, refused>>
    /\ UNCHANGED <<blockOnStall, get, flusher, pending, cache, flushes, faults>>

FlushWait(t) ==
    /\ thread[t].at = "flushWait" /\ ~thread[t].asleep
    /\ \/ /\ imm # NoTable /\ bgError = "Ok"
          /\ thread' = [thread EXCEPT ![t].asleep = TRUE]
          /\ UNCHANGED refused
       \/ imm # NoTable /\ bgError # "Ok" /\ Return(t, bgError)
       \/ imm = NoTable /\ Goto(t, "flushed", 0) /\ UNCHANGED refused
    /\ UNCHANGED <<blockOnStall, get, store, bgError, flusher, pending, cache, flushes, faults>>

FlushReturns(t) ==
    /\ thread[t].at = "flushed"
    /\ Return(t, "Ok")
    /\ UNCHANGED <<blockOnStall, get, store, bgError, flusher, pending, cache, flushes, faults>>

-----------------------------------------------------------------------------
(* get, by one more thread: the memtables under the lock, then the        *)
(* version.  A block it reads joins the block cache when the budget has    *)
(* room (try_acquire).                                                     *)

VersionBeforeMemtables(take) == IF take = 1 THEN durable ELSE mem \cup imm

\* What a get captures first and second.
GetTakes(take) == IF take = 1 THEN mem \cup imm ELSE durable

GetMemtables ==
    /\ get.at = "idle"
    /\ get' = [at |-> "version", owed |-> Acked \ GetTakes(1)]
    /\ UNCHANGED <<blockOnStall, store, bgError, flusher, pending, cache, thread, ghosts>>

GetVersion ==
    /\ get.at = "version"
    /\ get' = [at |-> "idle", owed |-> get.owed \ GetTakes(2)]
    /\ cache' \in IF Used < Budget THEN {cache, cache + 1} ELSE {cache}
    /\ UNCHANGED <<blockOnStall, store, bgError, flusher, pending, thread, ghosts>>

-----------------------------------------------------------------------------
(* background_flush_loop and run_one_flush.                                *)

\* The file is built and charged to the budget.
FlushBuild ==
    /\ flushPc = "idle"
    /\ imm # NoTable
    /\ bgError = "Ok"
    /\ flushPc' = "writing"
    /\ charged' = Cardinality(imm)
    /\ UNCHANGED <<blockOnStall, get, store, bgError, flushStatus, pending, cache, thread, ghosts>>

\* write_new_sst and versions_->apply: the file joins L0, or nothing changes.
flush_memtable ==
    /\ flushPc = "writing"
    /\ flushPc' = "finish"
    /\ charged' = 0
    /\ \/ /\ flushStatus' = "Ok"
          /\ durable' = durable \cup imm
          /\ l0' = l0 + 1
          /\ UNCHANGED faults
       \/ /\ faults < MaxFaults
          /\ faults' = faults + 1
          /\ flushStatus' \in {"Io", "Terminal"}
          /\ UNCHANGED <<durable, l0>>
    /\ UNCHANGED <<blockOnStall, get, mem, aged, imm, inserted, bgError, pending, cache, thread,
                   refused, flushes>>

FlushDropsOnFailure ==
    /\ flushPc = "finish"
    /\ flushPc' = "again"
    /\ imm' = NoTable
    /\ bgError' = IF flushStatus = "Ok" \/ bgError = "Terminal" THEN bgError ELSE flushStatus
    /\ thread' = NotifyAll(thread)
    /\ UNCHANGED <<blockOnStall, get, mem, aged, inserted, durable, l0, flushStatus, charged,
                   pending, cache, ghosts>>

\* The second critical section: imm_ goes only once its file is published,
\* and a terminal error is never overwritten.
run_one_flush ==
    /\ flushPc = "finish"
    /\ flushPc' = "again"
    /\ IF flushStatus = "Ok"
       THEN imm' = NoTable /\ UNCHANGED bgError
       ELSE /\ bgError' = IF bgError = "Terminal" THEN bgError ELSE flushStatus
            /\ UNCHANGED imm
    /\ thread' = NotifyAll(thread)
    /\ UNCHANGED <<blockOnStall, get, mem, aged, inserted, durable, l0, flushStatus, charged, pending,
                   cache, ghosts>>

\* The inner loop takes the next memtable without looking at bg_error_; when
\* there is none, or the flush failed, schedule_compaction and back to the wait.
FlushLoop ==
    /\ flushPc = "again"
    /\ IF flushStatus = "Ok" /\ imm # NoTable
       THEN flushPc' = "writing" /\ charged' = Cardinality(imm) /\ UNCHANGED pending
       ELSE flushPc' = "idle" /\ pending' = TRUE /\ UNCHANGED charged
    /\ flushStatus' = "Ok"
    /\ UNCHANGED <<blockOnStall, get, store, bgError, cache, thread, ghosts>>

-----------------------------------------------------------------------------
(* background_compaction_loop, as far as the write path sees it.           *)

\* A pass compacts while the picker finds L0 due; a failure is dropped when
\* it is retryable and recorded unless a terminal one already is.
background_compaction_loop ==
    /\ pending
    /\ pending' = FALSE
    /\ \/ /\ l0' = IF l0 >= CompactAt THEN 0 ELSE l0
          /\ UNCHANGED <<bgError, faults>>
       \/ /\ faults < MaxFaults
          /\ faults' = faults + 1
          /\ bgError' \in {bgError, "Terminal"}
          /\ UNCHANGED l0
    /\ thread' = NotifyAll(thread)
    /\ UNCHANGED <<blockOnStall, get, mem, aged, imm, inserted, durable, flusher, cache,
                   refused, flushes>>

-----------------------------------------------------------------------------
(* maintenance_loop: the retry of a timed wake and the O(1) predicates of  *)
(* reconcile.                                                              *)

MaintenanceRetry ==
    /\ imm # NoTable
    /\ bgError = "Io"
    /\ bgError' = "Ok"
    /\ UNCHANGED <<blockOnStall, get, store, flusher, pending, cache, thread, ghosts>>

reconcile ==
    /\ imm = NoTable
    /\ bgError = "Ok"
    /\ mem # {}
    /\ memtable_flush_due(FALSE)
    /\ seal_memtable
    /\ UNCHANGED <<blockOnStall, get, inserted, durable, l0, bgError, flusher, pending, cache, thread,
                   ghosts>>

\* The clock passes flush_interval for the live memtable.
Age ==
    /\ ~aged
    /\ mem # {}
    /\ aged' = TRUE
    /\ UNCHANGED <<blockOnStall, get, mem, imm, inserted, durable, l0, bgError, flusher, pending,
                   cache, thread, ghosts>>

-----------------------------------------------------------------------------
Init ==
    /\ blockOnStall \in BOOLEAN
    /\ mem = {} /\ aged = FALSE /\ imm = NoTable
    /\ bgError = "Ok"
    /\ inserted = 0 /\ durable = {} /\ l0 = 0
    /\ flushPc = "idle" /\ flushStatus = "Ok" /\ charged = 0
    /\ pending = FALSE
    /\ cache = 0
    /\ thread = [t \in Threads |-> Idle]
    /\ get = [at |-> "idle", owed |-> {}]
    /\ refused = {} /\ flushes = 0 /\ faults = 0

\* The steps of a call in progress.
Call(t) ==
    \/ await_rotation_slot(t) \/ ShedFreeze(t)
    \/ ThrottleWakes(t) \/ PutInsert(t) \/ maybe_freeze_memtable(t)
    \/ FlushFreeze(t) \/ FlushWait(t) \/ FlushReturns(t)

FlushThread == FlushBuild \/ flush_memtable \/ run_one_flush \/ FlushLoop
Coordinator == MaintenanceRetry \/ reconcile

Next ==
    \/ \E t \in Threads : PutBegin(t) \/ FlushBegin(t) \/ Call(t)
    \/ GetMemtables \/ GetVersion
    \/ FlushThread
    \/ background_compaction_loop
    \/ Coordinator
    \/ Age

Fairness ==
    /\ \A t \in Threads : WF_vars(Call(t))
    /\ WF_vars(FlushThread) /\ WF_vars(background_compaction_loop) /\ WF_vars(Coordinator)

Spec == Init /\ [][Next]_vars /\ Fairness

-----------------------------------------------------------------------------
\* No acknowledged write is lost: until a crash it is in the live memtable,
\* in the frozen one or in a file of the version, whatever fails in the
\* flush and whoever seals (run_one_flush, seal_memtable).
NoLostWrite == Acked \subseteq mem \cup imm \cup durable

\* A put that answers Stalled or an error stored nothing: every valve is
\* before the insert, and the freeze after it refuses nothing.
RefusedNotStored == refused \cap (mem \cup imm \cup durable) = {}

\* A get that began after a write was acknowledged finds it, on one side or
\* the other of the hand-off from imm_ to the version.
GetSeesAcked == get.at = "idle" => get.owed = {}

\* flush() that answers Ok has made durable every write acknowledged before
\* the call, also when another thread sealed them or a flush failed and was
\* retried in between.
FlushOkIsDurable ==
    \A t \in Threads : thread[t].at = "flushed" => thread[t].owed \subseteq durable

\* The first terminal error is the one every later call reports: no retry
\* clears it and no later failure replaces it.
TerminalSticks == [][bgError = "Terminal" => bgError' = "Terminal"]_vars

\* Every call returns: a writer held by the rotation slot, by L0 or by the
\* memory budget is released, and no wake-up of flush_finished_ is lost.
CallsReturn == \A t \in Threads : thread[t].at # "idle" ~> thread[t].at = "idle"
=============================================================================
