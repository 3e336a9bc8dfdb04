----------------------------- MODULE Maintenance -----------------------------
(***************************************************************************)
(* Background maintenance of one writable DbImpl: the coordinator          *)
(* (maintenance_loop, reconcile), its gate, and the maintenance executor   *)
(* (background_compaction_loop) that migrates files off their tier,        *)
(* compacts L0, finishes a key rotation, collects superseded objects and   *)
(* sweeps orphans.  Around them: flushes that install files, a writer held *)
(* by the transient-tier stall, an iterator that pins a version, a cold    *)
(* store that goes away and comes back, and the clock.                     *)
(*                                                                         *)
(* A file is its level, tier, oldest write time and whether it is sealed   *)
(* under the primary key; num, given at its flush, stands for the file     *)
(* number, which every rewrite renews, and pinned tells whether the        *)
(* iterator's version names it.  There is one transient tier and, last,    *)
(* one durable tier.  The epoch of the gate is only ever compared with the *)
(* one last reconciled, so the model keeps whether they differ.            *)
(*                                                                         *)
(* The O(1) half of reconcile (memtable rotation, flush retry) is in       *)
(* WritePath; what a compaction writes is in LsmTree.                      *)
(***************************************************************************)
EXTENDS Integers, FiniteSets, FiniteSetsExt

CONSTANTS Interval,       \* Options::maintenance_interval
          Skew,           \* age of a memtable's oldest write when a tick falls on its flush
          MaxAge,         \* Tier::max_age of the transient tier
          StallAge,       \* Tier::stall_age
          SweepInterval,  \* Options::orphan_sweep_interval
          BypassEvery,    \* kGateBypassEveryTicks
          CompactAt,      \* L0 files at which the picker compacts
          MaxTime,        \* bound: where the clock stops
          MaxEvents       \* bound: flushes, outages and iterators together

ASSUME MaintenanceAssumption ==
    /\ {Interval, BypassEvery, CompactAt, SweepInterval} \subseteq Nat \ {0}
    /\ {Skew, MaxTime, MaxEvents} \subseteq Nat
    /\ MaxAge \in Nat /\ StallAge \in Nat /\ MaxAge < StallAge

VARIABLES
    now,             \* Options::clock
    ticks,           \* reconcile_ticks_, modulo BypassEvery
    notified,        \* a notify of maintenance_tick_ the sleeping coordinator has not served
    coord,           \* where the coordinator is
    epochMoved,      \* maintenance_epoch() # last_reconciled_epoch_
    nextTransition,  \* next_time_transition_ms_
    stalled,         \* transient_stalled_
    pending,         \* compaction_pending_
    exec,            \* where the executor is
    pass,            \* its locals: did_work, status, migration_failure_preempts
    files,           \* files of the published version
    stalePayloads,   \* manifest payloads not sealed under the primary
    deferred,        \* some superseded object is not yet unlinked
    iterator,        \* an iterator holds a version
    nextSweep,       \* next_sweep_ms_
    coldUp,          \* the durable tier's store answers
    writer,          \* a writer inside throttle_writes
    flushes, outages, iterators

clockVars == <<now, ticks, notified, coord>>
gateVars == <<nextTransition, stalled>>
execVars == <<exec, pass>>
fileVars == <<files, stalePayloads, deferred>>
ghosts == <<flushes, outages, iterators>>
vars == <<clockVars, epochMoved, gateVars, pending, execVars, fileVars, iterator, nextSweep,
          coldUp, writer, ghosts>>

Events == flushes + outages + iterators

Transient == 1
Durable == 2
Never == MaxTime + StallAge + SweepInterval + 1

TypeOK ==
    /\ now \in 0 .. MaxTime /\ ticks \in 0 .. BypassEvery - 1
    /\ coord \in {"asleep", "gate", "scan"}
    /\ exec \in {"idle", "migrate", "compact", "reencrypt", "sweep"}
    /\ \A f \in files : f.level \in {0, 1} /\ f.tier \in {Transient, Durable}
    /\ (deferred \/ \E f \in files : f.pinned) => iterators > 0
    /\ nextTransition \in 0 .. Never /\ nextSweep \in 0 .. Never

-----------------------------------------------------------------------------
(* Predicates over the published version.                                  *)

\* Strictly older than max_age: the tier bound placement applies.
placement(born, t) == IF t - born > MaxAge THEN Durable ELSE Transient

Level(n) == {f \in files : f.level = n}
Oldest(fs) == CHOOSE f \in fs : \A g \in fs : f.born < g.born \/ (f.born = g.born /\ f.num <= g.num)
Lowest(fs) == CHOOSE f \in fs : \A g \in fs : f.num <= g.num

\* pick_migration over one transient and one durable tier.
pick_migration == {f \in Level(1) : f.tier < placement(f.born, now)}

\* compact_l0_file_off_its_tier: whether some L0 file has to leave.
MustLeaveL0 == \E f \in Level(0) : f.tier < placement(f.born, now) \/ ~f.primary

pick_compaction == Cardinality(Level(0)) > CompactAt

count_pending_reencryption == {f \in Level(1) : ~f.primary}

TransientStalled == \E f \in files : f.tier = Transient /\ now - f.born > StallAge

TransitionsWithoutStall ==
    LET deadlines == {nextSweep} \cup {f.born + MaxAge : f \in {g \in files : g.tier = Transient}}
    IN  Min({d \in deadlines : d > now} \cup {Never})

\* The crossings the gate has to open for, strictly in the future.
next_time_transition ==
    LET held == {f \in files : f.tier = Transient}
        deadlines == {nextSweep} \cup {f.born + MaxAge : f \in held}
                                 \cup {f.born + StallAge : f \in held}
    IN  Min({d \in deadlines : d > now} \cup {Never})

PublishOnlyEngages == stalled \/ TransientStalled

publish_transient_stall == TransientStalled

-----------------------------------------------------------------------------
(* What the threads share.                                                 *)

\* invalidate_maintenance: the bump, and a notify that only a sleeper hears.
invalidate_maintenance ==
    /\ epochMoved' = TRUE
    /\ notified' = (notified \/ coord = "asleep")

schedule_compaction == invalidate_maintenance /\ pending' = TRUE

\* An object goes unless a version an iterator holds still names it.
collect_obsolete(superseded) == superseded /\ iterator

\* VersionSet::apply: the version is installed, which moves the epoch, and
\* what it dropped is unlinked where it may be.
apply(removed, added) ==
    /\ files' = (files \ removed) \cup added
    /\ deferred' = collect_obsolete(deferred \/ \E f \in removed : f.pinned)
    /\ epochMoved' = TRUE

-----------------------------------------------------------------------------
(* The coordinator.                                                        *)

\* The timed wait of maintenance_loop runs out.
Tick ==
    /\ coord = "asleep"
    /\ now' = IF now + Interval <= MaxTime THEN now + Interval ELSE now
    /\ ticks' = (ticks + 1) % BypassEvery
    /\ coord' = "gate"
    /\ notified' = FALSE
    /\ UNCHANGED <<epochMoved, gateVars, pending, execVars, fileVars, iterator, nextSweep, coldUp,
                   writer, ghosts>>

NotifiedWake ==
    /\ coord = "asleep" /\ notified
    /\ ticks' = (ticks + 1) % BypassEvery
    /\ coord' = "gate"
    /\ notified' = FALSE
    /\ UNCHANGED <<now, epochMoved, gateVars, pending, execVars, fileVars, iterator, nextSweep, coldUp,
                   writer, ghosts>>

GateNeverForced == epochMoved \/ now >= nextTransition

GateOpen == ticks = 0 \/ epochMoved \/ now >= nextTransition

\* The gate.  The epoch is read before the version, so an install that lands
\* in between opens the next gate.
ReconcileGate ==
    /\ coord = "gate"
    /\ IF GateOpen
       THEN coord' = "scan" /\ epochMoved' = FALSE /\ UNCHANGED deferred
       ELSE coord' = "asleep" /\ deferred' = collect_obsolete(deferred) /\ UNCHANGED epochMoved
    /\ UNCHANGED <<now, ticks, notified, gateVars, pending, execVars, files,
                   stalePayloads, iterator, nextSweep, coldUp, writer, ghosts>>

\* The full evaluation, and dispatch_maintenance.
reconcile ==
    /\ coord = "scan"
    /\ stalled' = publish_transient_stall
    /\ nextTransition' = next_time_transition
    /\ pending' = TRUE
    /\ coord' = "asleep"
    /\ UNCHANGED <<now, ticks, notified, epochMoved, execVars, fileVars, iterator, nextSweep, coldUp,
                   writer, ghosts>>

-----------------------------------------------------------------------------
(* The executor: one pass of background_compaction_loop.                   *)

NewPass == [worked |-> FALSE, status |-> "Ok", preempts |-> TRUE]

PassEndsClearing ==
    /\ exec = "sweep"
    /\ nextSweep' = IF now >= nextSweep THEN now + SweepInterval ELSE nextSweep
    /\ exec' = "idle"
    /\ pass' = NewPass
    /\ pending' = FALSE
    /\ IF pass.worked THEN invalidate_maintenance ELSE UNCHANGED <<epochMoved, notified>>
    /\ UNCHANGED <<now, ticks, coord, gateVars, fileVars, iterator, coldUp, writer, ghosts>>

\* compaction_pending_ is cleared before the pass, so a dispatch during it
\* starts another.
PassBegins ==
    /\ exec = "idle" /\ pending
    /\ pending' = FALSE
    /\ deferred' = collect_obsolete(deferred)
    /\ exec' = "migrate"
    /\ pass' = [NewPass EXCEPT !.worked = deferred' # deferred]
    /\ UNCHANGED <<clockVars, epochMoved, gateVars, files, stalePayloads, iterator,
                   nextSweep, coldUp, writer, ghosts>>

\* A rewrite of old into one new file: it needs the cold store when it reads
\* from it or writes to it, and fails with Io when that is away.
Rewrite(old, new, failure) ==
    IF coldUp \/ (new.tier = Transient /\ \A f \in old : f.tier = Transient)
    THEN /\ apply(old, {new})
         /\ pass' = [pass EXCEPT !.worked = TRUE, !.status = "Ok"]
         /\ UNCHANGED exec
    ELSE /\ pass' = [pass EXCEPT !.status = "Io", !.preempts = failure]
         /\ exec' = "compact"
         /\ UNCHANGED <<files, deferred, epochMoved>>

\* One turn of the loop over run_one_migration.
run_one_migration ==
    /\ exec = "migrate"
    /\ IF pick_migration # {}
       THEN LET f == Oldest(pick_migration)
            IN  Rewrite({f}, [f EXCEPT !.pinned = FALSE, !.tier = Durable], TRUE)
       ELSE IF MustLeaveL0
       THEN LET seed == Lowest(Level(0))
            IN  Rewrite({seed}, [seed EXCEPT !.level = 1, !.pinned = FALSE,
                                 !.tier = placement(seed.born, now), !.primary = TRUE],
                        pass.preempts)
       ELSE /\ exec' = "compact"
            /\ UNCHANGED <<pass, files, deferred, epochMoved>>
    /\ UNCHANGED <<clockVars, gateVars, pending, stalePayloads, iterator, nextSweep, coldUp, writer,
                   ghosts>>

\* run_one_compaction, after which the migrations are drained again.  A
\* migration that failed and does not preempt has its status dropped; every
\* one here leaves a transient tier, so all preempt.
run_one_compaction ==
    /\ exec = "compact"
    /\ LET status == IF pass.preempts THEN pass.status ELSE "Ok"
           old == Level(0)
           born == Min({f.born : f \in old})
           new == [num |-> Lowest(old).num, level |-> 1, born |-> born,
                   tier |-> placement(born, now), primary |-> TRUE, pinned |-> FALSE]
       IN  IF status = "Ok" /\ pick_compaction
           THEN IF coldUp \/ new.tier = Transient
                THEN /\ apply(old, {new})
                     /\ pass' = [pass EXCEPT !.worked = TRUE, !.status = "Ok"]
                     /\ exec' = "migrate"
                ELSE /\ pass' = [pass EXCEPT !.status = "Io"]
                     /\ exec' = "reencrypt"
                     /\ UNCHANGED <<files, deferred, epochMoved>>
           ELSE /\ exec' = "reencrypt"
                /\ pass' = [pass EXCEPT !.status = status]
                /\ UNCHANGED <<files, deferred, epochMoved>>
    /\ UNCHANGED <<clockVars, gateVars, pending, stalePayloads, iterator, nextSweep, coldUp, writer,
                   ghosts>>

\* One turn of the loop over run_one_reencryption: files first, then a roll
\* that rewrites the manifest's payloads.
run_one_reencryption ==
    /\ exec = "reencrypt"
    /\ IF pass.status = "Ok" /\ count_pending_reencryption # {}
       THEN \E f \in count_pending_reencryption :
                IF coldUp \/ f.tier = Transient
                THEN /\ apply({f}, {[f EXCEPT !.pinned = FALSE, !.primary = TRUE]})
                     /\ pass' = [pass EXCEPT !.worked = TRUE]
                     /\ UNCHANGED <<exec, stalePayloads>>
                ELSE /\ pass' = [pass EXCEPT !.status = "Io"]
                     /\ exec' = "sweep"
                     /\ UNCHANGED <<fileVars, epochMoved>>
       ELSE IF pass.status = "Ok" /\ stalePayloads
       THEN /\ stalePayloads' = FALSE
            /\ pass' = [pass EXCEPT !.worked = TRUE]
            /\ UNCHANGED <<exec, files, deferred, epochMoved>>
       ELSE exec' = "sweep" /\ UNCHANGED <<pass, fileVars, epochMoved>>
    /\ UNCHANGED <<clockVars, gateVars, pending, iterator, nextSweep, coldUp, writer, ghosts>>

\* The end of a pass: the orphan sweep when its deadline has passed, whatever
\* the pass met.  Only work done moves the epoch; a failure waits for the bypass.
PassEnds ==
    /\ exec = "sweep"
    /\ nextSweep' = IF now >= nextSweep THEN now + SweepInterval ELSE nextSweep
    /\ exec' = "idle"
    /\ pass' = NewPass
    /\ IF pass.worked THEN invalidate_maintenance ELSE UNCHANGED <<epochMoved, notified>>
    /\ UNCHANGED <<now, ticks, coord, gateVars, pending, fileVars, iterator, coldUp, writer,
                   ghosts>>

-----------------------------------------------------------------------------
(* What goes on around them.                                               *)

\* flush_memtable installs an L0 file; background_flush_loop then nudges.
Flush ==
    /\ Events < MaxEvents
    /\ flushes' = flushes + 1
    /\ files' = files \cup {[num |-> flushes + 2, level |-> 0, born |-> now - Skew,
                             tier |-> Transient, primary |-> TRUE, pinned |-> FALSE]}
    /\ schedule_compaction
    /\ UNCHANGED <<now, ticks, coord, gateVars, execVars, stalePayloads, deferred, iterator,
                   nextSweep, coldUp, writer, outages, iterators>>

\* throttle_writes with the published flag set, each turn of its loop.
WriterHeld ==
    /\ stalled
    /\ writer' = "held"
    /\ schedule_compaction
    /\ UNCHANGED <<now, ticks, coord, gateVars, execVars, fileVars, iterator, nextSweep, coldUp,
                   ghosts>>

WriterAdmitted ==
    /\ writer = "held" /\ ~stalled
    /\ writer' = "free"
    /\ UNCHANGED <<clockVars, epochMoved, gateVars, pending, execVars, fileVars, iterator, nextSweep,
                   coldUp, ghosts>>

OpenIterator ==
    /\ Events < MaxEvents /\ ~iterator /\ files # {}
    /\ iterators' = iterators + 1
    /\ iterator' = TRUE
    /\ files' = {[f EXCEPT !.pinned = TRUE] : f \in files}
    /\ UNCHANGED <<clockVars, epochMoved, gateVars, pending, execVars, stalePayloads, deferred, nextSweep, coldUp,
                   writer, flushes, outages>>

CloseIterator ==
    /\ iterator
    /\ iterator' = FALSE
    /\ files' = {[f EXCEPT !.pinned = FALSE] : f \in files}
    /\ UNCHANGED <<clockVars, epochMoved, gateVars, pending, execVars, stalePayloads, deferred, nextSweep, coldUp,
                   writer, ghosts>>

ColdGoes ==
    /\ coldUp /\ Events < MaxEvents
    /\ coldUp' = FALSE
    /\ outages' = outages + 1
    /\ UNCHANGED <<clockVars, epochMoved, gateVars, pending, execVars, fileVars, iterator, nextSweep,
                   writer, flushes, iterators>>

ColdReturns ==
    /\ ~coldUp
    /\ coldUp' = TRUE
    /\ UNCHANGED <<clockVars, epochMoved, gateVars, pending, execVars, fileVars, iterator, nextSweep,
                   writer, ghosts>>

-----------------------------------------------------------------------------
\* start_background: the synchronous, forced reconcile is under way.  The
\* recovered version holds files sealed under a retired key, or none.
Init ==
    /\ now = Skew /\ ticks = 0 /\ notified = FALSE /\ coord = "scan"
    /\ epochMoved = FALSE /\ nextTransition = 0 /\ stalled = FALSE
    /\ pending = FALSE /\ exec = "idle" /\ pass = NewPass
    /\ files \in SUBSET {[num |-> 1 - l, level |-> l, born |-> 0, tier |-> Transient,
                          primary |-> FALSE, pinned |-> FALSE] : l \in {0, 1}}
    /\ stalePayloads = (files # {})
    /\ deferred = FALSE /\ iterator = FALSE
    /\ nextSweep = 0
    /\ coldUp = TRUE /\ writer = "free"
    /\ flushes = 0 /\ outages = 0 /\ iterators = 0

Coordinator == Tick \/ NotifiedWake \/ ReconcileGate \/ reconcile
Executor ==
    \/ PassBegins \/ run_one_migration \/ run_one_compaction \/ run_one_reencryption
    \/ PassEnds

Next ==
    \/ Coordinator \/ Executor
    \/ Flush \/ WriterHeld \/ WriterAdmitted
    \/ OpenIterator \/ CloseIterator \/ ColdGoes \/ ColdReturns

\* Both threads keep running and the writer's wait is bounded.  Nothing is
\* assumed of flushes, of the iterator or of the cold store.
Fairness == WF_vars(Coordinator) /\ WF_vars(Executor) /\ WF_vars(WriterAdmitted)

Spec == Init /\ [][Next]_vars /\ Fairness

-----------------------------------------------------------------------------
Converged ==
    /\ pick_migration = {} /\ ~MustLeaveL0 /\ ~pick_compaction
    /\ count_pending_reencryption = {} /\ ~stalePayloads

Quiet == coord = "asleep" /\ ~notified /\ exec = "idle" /\ ~pending /\ ~epochMoved

\* While the cold store has not failed, a store whose threads are all idle
\* has nothing left to do: no deadline crossed, install or dispatch during a
\* pass was missed by the gate.
QuietIsConverged == Quiet /\ outages = 0 => Converged

\* The published stall is the truth about the version whenever the
\* coordinator has served the last install, also on a store nobody writes to.
StallIsCurrent == coord = "asleep" /\ ~epochMoved => stalled = TransientStalled

\* Once the cold store stays up, the work an outage left behind gets done,
\* though a failed pass tells nobody.
WorkResumes == <>[]coldUp => []<>Converged

\* A writer held by the transient stall is let go once the cold store stays
\* up: the rescue it waits for runs and the flag is cleared.
HeldWriterReturns == <>[]coldUp => (writer = "held" ~> writer = "free")

\* Objects whose unlinking an iterator deferred are unlinked after it closes,
\* though closing one moves no epoch.
DeferredAreUnlinked == deferred /\ ~iterator ~> ~deferred \/ iterator

\* An orphan sweep that is due happens, also on an idle store.
SweepsHappen == now >= nextSweep ~> now < nextSweep
=============================================================================
