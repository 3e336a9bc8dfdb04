-------------------------- MODULE WritePathProofs --------------------------
(***************************************************************************)
(* The safety of the write path, for any number of writers, any sizes and  *)
(* limits and any pattern of failures: no acknowledged write is lost or    *)
(* missed by a get, a refused one is not stored, and flush() means durable.*)
(***************************************************************************)
EXTENDS WritePath, TLAPS

Fields == {"at", "asleep", "retried", "over", "id", "owed"}

\* The records of the threads have their fields.
Shape == DOMAIN thread = Threads /\ \A t \in Threads : DOMAIN thread[t] = Fields

\* A write has a number from its insert to the end of its freeze, and no call
\* answers an error in between.
Answers ==
    /\ refused = {}
    /\ \A t \in Threads : thread[t].id # 0 => thread[t].at = "freeze"

\* Every write that reached the memtable is still somewhere.
Stored == inserted \in Nat /\ 1 .. inserted \subseteq mem \cup imm \cup durable

\* The flush thread works on a memtable that stays frozen, and once its file is
\* published the version holds what it holds.
Frozen ==
    /\ flushPc \in {"writing", "finish"} => imm # NoTable
    /\ flushPc = "finish" /\ flushStatus = "Ok" => imm \subseteq durable

\* What a flush() owes moves from the memtables to the frozen one to the version.
Flushing ==
    \A t \in Threads :
        /\ thread[t].owed \subseteq 1 .. inserted
        /\ thread[t].at = "flushWait" => thread[t].owed \subseteq imm \cup durable
        /\ thread[t].at = "flushed" => thread[t].owed \subseteq durable

\* What a get has not found in the memtables is in the version.
Getting ==
    /\ get.at = "idle" => get.owed = {}
    /\ get.at = "version" => get.owed \subseteq durable

Inv == Shape /\ Answers /\ Stored /\ Frozen /\ Flushing /\ Getting

-----------------------------------------------------------------------------
(* What a step does to the stored writes: nothing, or a seal.              *)

Sealed == imm = NoTable /\ seal_memtable /\ UNCHANGED <<inserted, durable>>
Rests == UNCHANGED <<mem, imm, inserted, durable>> \/ Sealed

\* A seal finds the slot free, so no flush is at work, and moves the writes from
\* one memtable to the other.
LEMMA RestsKeeps ==
    ASSUME Inv, Rests, UNCHANGED <<flushPc, flushStatus, get>>
    PROVE  Stored' /\ Frozen' /\ Getting'
<1>1. CASE UNCHANGED <<mem, imm, inserted, durable>>
  BY <1>1 DEF Inv, Stored, Frozen, Getting
<1>2. CASE Sealed
  <2>1. imm = NoTable /\ imm' = mem /\ mem' = {} /\ inserted' = inserted /\ durable' = durable
    BY <1>2 DEF Sealed, seal_memtable
  <2>2. 1 .. inserted \subseteq mem \cup durable /\ inserted \in Nat
    <3>1. inserted \in Nat /\ 1 .. inserted \subseteq mem \cup imm \cup durable
      BY DEF Inv, Stored
    <3>2. 0 \notin 1 .. inserted
      BY <3>1
    <3> QED BY <2>1, <3>1, <3>2 DEF NoTable
  <2>3. Stored'
    BY <2>1, <2>2 DEF Stored
  <2>4. flushPc \notin {"writing", "finish"}
    BY <2>1 DEF Inv, Frozen
  <2>5. Frozen' /\ Getting'
    BY <2>1, <2>4 DEF Inv, Frozen, Getting
  <2> QED BY <2>3, <2>5
<1> QED BY <1>1, <1>2 DEF Rests

\* A step of thread t that leaves the flush thread and the get alone: t keeps
\* what it owes or owes nothing, and what it owes is in the frozen memtable
\* when it begins to wait and in the version when it is done.
LEMMA ThreadStep ==
    ASSUME Inv, Rests, UNCHANGED <<flushPc, flushStatus, get, refused>>, Shape',
           NEW t \in Threads,
           \A u \in Threads \ {t} : thread'[u] = thread[u],
           thread'[t].id = 0,
           thread'[t].owed \in {thread[t].owed, {}},
           thread'[t].at = "flushWait" /\ thread[t].at # "flushWait" =>
                thread'[t].owed \subseteq imm' \cup durable,
           thread'[t].at = "flushed" /\ thread[t].at # "flushed" =>
                thread'[t].owed \subseteq durable
    PROVE  Inv'
<1>1. Stored' /\ Frozen' /\ Getting'
  BY RestsKeeps
<1>2. Answers'
  BY DEF Inv, Answers
<1>3. Flushing'
  <2> SUFFICES ASSUME NEW u \in Threads
               PROVE  /\ thread'[u].owed \subseteq 1 .. inserted'
                      /\ thread'[u].at = "flushWait" => thread'[u].owed \subseteq imm' \cup durable'
                      /\ thread'[u].at = "flushed" => thread'[u].owed \subseteq durable'
    BY DEF Flushing
  <2>1. inserted' = inserted /\ durable' = durable /\ inserted \in Nat
    BY DEF Inv, Stored, Rests, Sealed
  <2>2. 0 \notin thread[u].owed
    BY <2>1 DEF Inv, Flushing
  <2>3. thread[u].owed \subseteq imm \cup durable => thread[u].owed \subseteq imm' \cup durable
    BY <2>2 DEF Rests, Sealed, NoTable
  <2>4. CASE u = t
    BY <2>1, <2>3, <2>4 DEF Inv, Flushing
  <2>5. CASE u # t
    BY <2>1, <2>3, <2>5 DEF Inv, Flushing
  <2> QED BY <2>4, <2>5
<1> QED BY <1>1, <1>2, <1>3 DEF Inv

\* The three ways a thread's record changes.
LEMMA GotoEffect ==
    ASSUME Shape, NEW t \in Threads, NEW at, NEW over, Goto(t, at, over)
    PROVE  /\ Shape'
           /\ \A u \in Threads \ {t} : thread'[u] = thread[u]
           /\ thread'[t].at = at /\ thread'[t].id = thread[t].id /\ thread'[t].owed = thread[t].owed
  BY DEF Shape, Fields, Goto

LEMMA ReturnEffect ==
    ASSUME Shape, NEW t \in Threads, NEW status, Return(t, status)
    PROVE  /\ Shape'
           /\ \A u \in Threads \ {t} : thread'[u] = thread[u]
           /\ thread'[t].at = "idle" /\ thread'[t].id = 0 /\ thread'[t].owed = {}
  BY DEF Shape, Fields, Return, Idle

LEMMA WaitEffect ==
    ASSUME Shape, NEW t \in Threads, NEW force, SlotWait(t, force)
    PROVE  /\ Shape'
           /\ \A u \in Threads \ {t} : thread'[u] = thread[u]
           /\ thread'[t].at = thread[t].at /\ thread'[t].id = thread[t].id
           /\ thread'[t].owed = thread[t].owed
  BY DEF Shape, Fields, SlotWait

\* A call that stored nothing, or that succeeds, refuses nothing.
LEMMA ReturnRefuses ==
    ASSUME NEW t \in Threads, NEW status, Return(t, status), thread[t].id = 0 \/ status = "Ok"
    PROVE  refused' = refused
  BY DEF Return

LEMMA ThrottleEffect ==
    ASSUME Shape, NEW t \in Threads, NEW over, throttle_writes(t, over), thread[t].id = 0
    PROVE  /\ Shape' /\ refused' = refused
           /\ \A u \in Threads \ {t} : thread'[u] = thread[u]
           /\ thread'[t].at \in {"insert", "paused", "idle"} /\ thread'[t].id = 0
           /\ thread'[t].owed \in {thread[t].owed, {}}
<1>1. CASE Goto(t, "insert", 0) /\ UNCHANGED refused
  BY <1>1, GotoEffect
<1>2. CASE Goto(t, "paused", over) /\ UNCHANGED refused
  BY <1>2, GotoEffect
<1>3. CASE Return(t, "Stalled")
  BY <1>3, ReturnEffect, ReturnRefuses
<1> QED BY <1>1, <1>2, <1>3 DEF throttle_writes

-----------------------------------------------------------------------------
(* The steps of a call.                                                    *)

LEMMA PutBeginInv == ASSUME Inv, NEW t \in Threads, PutBegin(t) PROVE Inv'
<1>1. thread[t].id = 0
  BY DEF Inv, Answers, PutBegin
<1>2. Rests /\ UNCHANGED <<flushPc, flushStatus, get, refused>>
  BY DEF PutBegin, store, flusher, ghosts, Rests
<1>3. Goto(t, "slot", 0) /\ Shape
  BY DEF PutBegin, Inv
<1> QED BY <1>1, <1>2, <1>3, GotoEffect, ThreadStep

LEMMA SlotInv == ASSUME Inv, NEW t \in Threads, await_rotation_slot(t) PROVE Inv'
<1>1. thread[t].id = 0 /\ Shape
  BY DEF Inv, Answers, await_rotation_slot
<1>2. Rests /\ UNCHANGED <<flushPc, flushStatus, get>>
  BY DEF await_rotation_slot, store, flusher, Rests
<1>3. CASE \E status : Return(t, status)
  BY <1>1, <1>2, <1>3, ReturnEffect, ReturnRefuses, ThreadStep
<1>4. CASE SlotWait(t, FALSE) /\ UNCHANGED refused
  BY <1>1, <1>2, <1>4, WaitEffect, ThreadStep DEF await_rotation_slot
<1>5. CASE shed_if_over_budget(t)
  <2>1. CASE Goto(t, "shedSlot", 0) /\ UNCHANGED refused
    BY <1>1, <1>2, <2>1, GotoEffect, ThreadStep
  <2>2. CASE \E over : throttle_writes(t, over)
    BY <1>1, <1>2, <2>2, ThrottleEffect, ThreadStep
  <2> QED BY <1>5, <2>1, <2>2 DEF shed_if_over_budget
<1> QED BY <1>3, <1>4, <1>5 DEF await_rotation_slot

LEMMA ShedFreezeInv == ASSUME Inv, NEW t \in Threads, ShedFreeze(t) PROVE Inv'
<1>1. thread[t].id = 0 /\ Shape /\ thread[t].at = "shedSlot"
  BY DEF Inv, Answers, ShedFreeze
<1>2. Rests /\ UNCHANGED <<flushPc, flushStatus, get>>
  BY DEF ShedFreeze, store, flusher, Rests, Sealed, SlotTaken, memtable_flush_due
<1>3. CASE SlotWait(t, TRUE) /\ UNCHANGED refused
  BY <1>1, <1>2, <1>3, WaitEffect, ThreadStep
<1>4. CASE throttle_writes(t, overage)
  BY <1>1, <1>2, <1>4, ThrottleEffect, ThreadStep
<1> QED BY <1>3, <1>4 DEF ShedFreeze

LEMMA ThrottleWakesInv == ASSUME Inv, NEW t \in Threads, ThrottleWakes(t) PROVE Inv'
<1>1. thread[t].id = 0 /\ Shape
  BY DEF Inv, Answers, ThrottleWakes
<1>2. Rests /\ UNCHANGED <<flushPc, flushStatus, get>>
  BY DEF ThrottleWakes, store, flusher, Rests
<1>3. CASE Return(t, bgError)
  BY <1>1, <1>2, <1>3, ReturnEffect, ReturnRefuses, ThreadStep
<1>4. CASE \E over : throttle_writes(t, over)
  BY <1>1, <1>2, <1>4, ThrottleEffect, ThreadStep
<1> QED BY <1>3, <1>4 DEF ThrottleWakes

\* The write is in the memtable the moment it has a number.
LEMMA PutInsertInv == ASSUME Inv, NEW t \in Threads, PutInsert(t) PROVE Inv'
<1>1. thread[t].id = 0 /\ Shape
  BY DEF Inv, Answers, PutInsert
<1>2. UNCHANGED <<flushPc, flushStatus, get>>
  BY DEF PutInsert, flusher
<1>3. CASE Return(t, bgError) /\ UNCHANGED store
  <2>1. Rests
    BY <1>3 DEF Rests, store
  <2> QED BY <1>1, <1>2, <1>3, <2>1, ReturnEffect, ReturnRefuses, ThreadStep
<1>4. CASE /\ inserted' = inserted + 1
           /\ mem' = mem \cup {inserted + 1}
           /\ thread' = [thread EXCEPT ![t].at = "freeze", ![t].id = inserted + 1]
           /\ UNCHANGED <<aged, imm, durable, l0, refused>>
  <2>1. /\ Shape'
        /\ \A u \in Threads \ {t} : thread'[u] = thread[u]
        /\ thread'[t].at = "freeze" /\ thread'[t].owed = thread[t].owed
    BY <1>1, <1>4 DEF Shape, Fields
  <2>2. inserted \in Nat /\ 1 .. inserted' = (1 .. inserted) \cup {inserted + 1}
    BY <1>4 DEF Inv, Stored
  <2>3. Stored' /\ Frozen' /\ Getting'
    BY <1>2, <1>4, <2>2 DEF Inv, Stored, Frozen, Getting
  <2>4. Answers'
    BY <1>4, <2>1 DEF Inv, Answers
  <2>5. Flushing'
    BY <1>4, <2>1, <2>2 DEF Inv, Flushing
  <2> QED BY <2>1, <2>3, <2>4, <2>5 DEF Inv
<1> QED BY <1>3, <1>4 DEF PutInsert

LEMMA FreezeInv == ASSUME Inv, NEW t \in Threads, maybe_freeze_memtable(t) PROVE Inv'
<1>1. Rests /\ UNCHANGED <<flushPc, flushStatus, get>>
  BY DEF maybe_freeze_memtable, store, flusher, Rests, Sealed
<1>2. Return(t, "Ok") /\ Shape
  BY DEF maybe_freeze_memtable, Inv
<1> QED BY <1>1, <1>2, ReturnEffect, ReturnRefuses, ThreadStep

\* Everything acknowledged before flush() was called has a number by then.
LEMMA FlushBeginInv == ASSUME Inv, NEW t \in Threads, FlushBegin(t) PROVE Inv'
<1>1. Shape /\ thread[t].at = "idle"
  BY DEF Inv, FlushBegin
<1>2. /\ Shape'
      /\ \A u \in Threads \ {t} : thread'[u] = thread[u]
      /\ thread'[t].at = "flushSlot" /\ thread'[t].id = thread[t].id
      /\ thread'[t].owed = Acked \ durable
  BY <1>1 DEF FlushBegin, Shape, Fields
<1>3. UNCHANGED <<mem, imm, inserted, durable, flushPc, flushStatus, get, refused>>
  BY DEF FlushBegin, store, flusher
<1>4. Acked \subseteq 1 .. inserted
  BY DEF Acked
<1>5. Stored' /\ Frozen' /\ Getting'
  BY <1>3 DEF Inv, Stored, Frozen, Getting
<1>6. Answers'
  BY <1>1, <1>2, <1>3 DEF Inv, Answers
<1>7. Flushing'
  BY <1>2, <1>3, <1>4 DEF Inv, Flushing
<1> QED BY <1>2, <1>5, <1>6, <1>7 DEF Inv

\* Where the slot is free, the seal leaves the live memtable empty: all that is
\* owed is frozen or durable.
LEMMA FlushFreezeInv == ASSUME Inv, NEW t \in Threads, FlushFreeze(t) PROVE Inv'
<1>1. thread[t].id = 0 /\ Shape /\ thread[t].at = "flushSlot"
  BY DEF Inv, Answers, FlushFreeze
<1>2. Rests /\ UNCHANGED <<flushPc, flushStatus, get>>
  BY DEF FlushFreeze, store, flusher, Rests, Sealed, SlotTaken, memtable_flush_due
<1>3. CASE \E status : Return(t, status)
  BY <1>1, <1>2, <1>3, ReturnEffect, ReturnRefuses, ThreadStep
<1>4. CASE SlotWait(t, TRUE) /\ UNCHANGED refused
  BY <1>1, <1>2, <1>4, WaitEffect, ThreadStep
<1>5. CASE /\ ~SlotTaken(TRUE)
           /\ IF mem = {} THEN UNCHANGED store
              ELSE seal_memtable /\ UNCHANGED <<inserted, durable, l0>>
           /\ Goto(t, "flushWait", 0)
           /\ UNCHANGED <<bgError, refused>>
  <2>1. thread[t].owed \subseteq mem \cup imm \cup durable /\ 0 \notin thread[t].owed
    BY DEF Inv, Flushing, Stored
  <2>2. imm = NoTable
    BY <1>5 DEF SlotTaken, memtable_flush_due
  <2>3. thread[t].owed \subseteq imm' \cup durable
    BY <1>5, <2>1, <2>2 DEF store, seal_memtable, NoTable
  <2> QED BY <1>1, <1>2, <1>5, <2>3, GotoEffect, ThreadStep
<1> QED BY <1>3, <1>4, <1>5 DEF FlushFreeze

LEMMA FlushWaitInv == ASSUME Inv, NEW t \in Threads, FlushWait(t) PROVE Inv'
<1>1. thread[t].id = 0 /\ Shape /\ thread[t].at = "flushWait"
  BY DEF Inv, Answers, FlushWait
<1>2. Rests /\ UNCHANGED <<flushPc, flushStatus, get>>
  BY DEF FlushWait, store, flusher, Rests
<1>3. CASE Return(t, bgError)
  BY <1>1, <1>2, <1>3, ReturnEffect, ReturnRefuses, ThreadStep
<1>4. CASE thread' = [thread EXCEPT ![t].asleep = TRUE] /\ UNCHANGED refused
  <2>1. /\ Shape'
        /\ \A u \in Threads \ {t} : thread'[u] = thread[u]
        /\ thread'[t].at = thread[t].at /\ thread'[t].id = thread[t].id
        /\ thread'[t].owed = thread[t].owed
    BY <1>1, <1>4 DEF Shape, Fields
  <2> QED BY <1>1, <1>2, <1>4, <2>1, ThreadStep
<1>5. CASE imm = NoTable /\ Goto(t, "flushed", 0) /\ UNCHANGED refused
  <2>1. thread[t].owed \subseteq durable
    BY <1>1, <1>5 DEF Inv, Flushing, Stored, NoTable
  <2> QED BY <1>1, <1>2, <1>5, <2>1, GotoEffect, ThreadStep
<1> QED BY <1>3, <1>4, <1>5 DEF FlushWait

LEMMA FlushReturnsInv == ASSUME Inv, NEW t \in Threads, FlushReturns(t) PROVE Inv'
<1>1. Rests /\ UNCHANGED <<flushPc, flushStatus, get>>
  BY DEF FlushReturns, store, flusher, Rests
<1>2. Return(t, "Ok") /\ Shape
  BY DEF FlushReturns, Inv
<1> QED BY <1>1, <1>2, ReturnEffect, ReturnRefuses, ThreadStep

-----------------------------------------------------------------------------
(* The get, the flush thread and the other background threads.             *)

\* A step that moves neither the threads nor the get nor the flush thread.
LEMMA QuietStep ==
    ASSUME Inv, Rests, UNCHANGED <<flushPc, flushStatus, get, refused, thread>>
    PROVE  Inv'
<1>1. Stored' /\ Frozen' /\ Getting' /\ Answers' /\ Shape'
  BY RestsKeeps DEF Inv, Answers, Shape
<1>2. \A t \in Threads : 0 \notin thread[t].owed
  BY DEF Inv, Flushing, Stored
<1>3. Flushing'
  BY <1>2 DEF Inv, Flushing, Rests, Sealed, NoTable
<1> QED BY <1>1, <1>3 DEF Inv

\* The sleepers a notification wakes go on where they were.
LEMMA NotifyEffect ==
    ASSUME Shape, thread' = NotifyAll(thread)
    PROVE  /\ Shape'
           /\ \A t \in Threads : /\ thread'[t].at = thread[t].at /\ thread'[t].id = thread[t].id
                                 /\ thread'[t].owed = thread[t].owed
  BY DEF Shape, Fields, NotifyAll

\* The memtables are taken before the version, so what is missing from them
\* has reached the version already.
LEMMA GetInv == ASSUME Inv, GetMemtables \/ GetVersion PROVE Inv'
<1>1. UNCHANGED <<mem, imm, inserted, durable, flushPc, flushStatus, refused, thread>>
  BY DEF GetMemtables, GetVersion, store, flusher, ghosts
<1>2. Shape' /\ Answers' /\ Stored' /\ Frozen' /\ Flushing'
  BY <1>1 DEF Inv, Shape, Answers, Stored, Frozen, Flushing
<1>3. Getting'
  <2>1. CASE GetMemtables
    <3>1. Acked \subseteq 1 .. inserted
      BY DEF Acked
    <3>2. get'.at = "version" /\ get'.owed = Acked \ (mem \cup imm)
      BY <2>1 DEF GetMemtables, GetTakes
    <3> QED BY <1>1, <3>1, <3>2 DEF Inv, Stored, Getting
  <2>2. CASE GetVersion
    <3>1. get'.at = "idle" /\ get'.owed = get.owed \ durable /\ get.at = "version"
      BY <2>2 DEF GetVersion, GetTakes
    <3> QED BY <3>1 DEF Inv, Getting
  <2> QED BY <2>1, <2>2
<1> QED BY <1>2, <1>3 DEF Inv

LEMMA FlushBuildInv == ASSUME Inv, FlushBuild \/ FlushLoop PROVE Inv'
<1>1. UNCHANGED <<mem, imm, inserted, durable, get, refused, thread>>
  BY DEF FlushBuild, FlushLoop, store, ghosts
<1>2. Shape' /\ Answers' /\ Stored' /\ Flushing' /\ Getting'
  BY <1>1 DEF Inv, Shape, Answers, Stored, Flushing, Getting
<1>3. Frozen'
  BY <1>1 DEF FlushBuild, FlushLoop, Frozen
<1> QED BY <1>2, <1>3 DEF Inv

LEMMA FlushMemtableInv == ASSUME Inv, flush_memtable PROVE Inv'
<1>1. UNCHANGED <<mem, imm, inserted, get, refused, thread>> /\ durable \subseteq durable'
  BY DEF flush_memtable
<1>2. Shape' /\ Answers' /\ Stored' /\ Getting'
  BY <1>1 DEF Inv, Shape, Answers, Stored, Getting
<1>3. Flushing'
  BY <1>1 DEF Inv, Flushing
<1>4. Frozen'
  BY <1>1 DEF Inv, flush_memtable, Frozen
<1> QED BY <1>2, <1>3, <1>4 DEF Inv

\* imm_ is cleared only when its file is published.
LEMMA RunOneFlushInv == ASSUME Inv, run_one_flush PROVE Inv'
<1>1. /\ UNCHANGED <<mem, inserted, durable, get, refused>> /\ flushPc' = "again"
      /\ thread' = NotifyAll(thread) /\ Shape
      /\ imm' = imm \/ imm \subseteq durable
  BY DEF Inv, run_one_flush, ghosts, Frozen
<1>2. /\ Shape'
      /\ \A t \in Threads : /\ thread'[t].at = thread[t].at /\ thread'[t].id = thread[t].id
                            /\ thread'[t].owed = thread[t].owed
  BY <1>1, NotifyEffect
<1>3. Answers' /\ Stored' /\ Frozen' /\ Getting'
  BY <1>1, <1>2 DEF Inv, Answers, Stored, Frozen, Getting
<1>4. Flushing'
  BY <1>1, <1>2 DEF Inv, Flushing
<1> QED BY <1>2, <1>3, <1>4 DEF Inv

LEMMA CompactionInv == ASSUME Inv, background_compaction_loop PROVE Inv'
<1>1. /\ UNCHANGED <<mem, imm, inserted, durable, flushPc, flushStatus, get, refused>>
      /\ thread' = NotifyAll(thread) /\ Shape
  BY DEF Inv, background_compaction_loop, flusher
<1>2. /\ Shape'
      /\ \A t \in Threads : /\ thread'[t].at = thread[t].at /\ thread'[t].id = thread[t].id
                            /\ thread'[t].owed = thread[t].owed
  BY <1>1, NotifyEffect
<1>3. Answers' /\ Stored' /\ Frozen' /\ Getting' /\ Flushing'
  BY <1>1, <1>2 DEF Inv, Answers, Stored, Frozen, Getting, Flushing
<1> QED BY <1>2, <1>3 DEF Inv

LEMMA CoordinatorInv == ASSUME Inv, Coordinator \/ Age PROVE Inv'
<1>1. Rests /\ UNCHANGED <<flushPc, flushStatus, get, refused, thread>>
  BY DEF Coordinator, MaintenanceRetry, reconcile, Age, store, flusher, ghosts, Rests, Sealed
<1> QED BY <1>1, QuietStep

-----------------------------------------------------------------------------
LEMMA InitInv == Init => Inv
  BY DEF Init, Inv, Shape, Fields, Idle, Answers, Stored, Frozen, Flushing, Getting

LEMMA NextInv == Inv /\ [Next]_vars => Inv'
<1> SUFFICES ASSUME Inv, [Next]_vars PROVE Inv'
  OBVIOUS
<1>1. ASSUME NEW t \in Threads, PutBegin(t) \/ FlushBegin(t) PROVE Inv'
  BY <1>1, PutBeginInv, FlushBeginInv
<1>2. ASSUME NEW t \in Threads, Call(t) PROVE Inv'
  BY <1>2, SlotInv, ShedFreezeInv, ThrottleWakesInv, PutInsertInv, FreezeInv, FlushFreezeInv,
     FlushWaitInv, FlushReturnsInv DEF Call
<1>3. CASE FlushThread
  BY <1>3, FlushBuildInv, FlushMemtableInv, RunOneFlushInv DEF FlushThread
<1>4. CASE UNCHANGED vars
  <2>1. Rests /\ UNCHANGED <<flushPc, flushStatus, get, refused, thread>>
    BY <1>4 DEF vars, store, flusher, ghosts, Rests
  <2> QED BY <2>1, QuietStep
<1> QED BY <1>1, <1>2, <1>3, <1>4, GetInv, CompactionInv, CoordinatorInv DEF Next

LEMMA Invariant == Spec => []Inv
  BY InitInv, NextInv, PTL DEF Spec

\* For any number of writers, sizes, limits and failures, a write that was
\* acknowledged is in a memtable or in a file of the version until a crash,
\* whoever seals and whatever the flush answers (run_one_flush).
THEOREM AckedNotLost == Spec => []NoLostWrite
<1>1. Inv => NoLostWrite
  BY DEF Inv, Stored, NoLostWrite, Acked
<1> QED BY <1>1, Invariant, PTL

\* A write whose put answered Stalled or an error is nowhere: all valves of
\* throttle_writes are passed before the insert.
THEOREM RefusedNowhere == Spec => []RefusedNotStored
<1>1. Inv => RefusedNotStored
  BY DEF Inv, Answers, RefusedNotStored
<1> QED BY <1>1, Invariant, PTL

\* A get that began after a write was acknowledged finds it, whatever flushes
\* finish between its two reads: it takes the memtables before the version.
THEOREM GetFindsAcked == Spec => []GetSeesAcked
<1>1. Inv => GetSeesAcked
  BY DEF Inv, Getting, GetSeesAcked
<1> QED BY <1>1, Invariant, PTL

\* A flush() that answers Ok has made durable every write acknowledged before
\* it was called, whichever thread sealed them and however often a flush
\* failed in between.
THEOREM FlushMeansDurable == Spec => []FlushOkIsDurable
<1>1. Inv => FlushOkIsDurable
  BY DEF Inv, Flushing, FlushOkIsDurable
<1> QED BY <1>1, Invariant, PTL
=============================================================================
