------------------------------ MODULE VersionSet ------------------------------
(***************************************************************************)
(* VersionSet: the manifest state every engine instance keeps over a       *)
(* ManifestCatalog, and the objects its files live in.  Writers and        *)
(* read-only readers are separate processes; every call on the catalog or  *)
(* on a store is a step of its own, so other processes move between any    *)
(* two of them.  Inside one process mutex_ serialises recover, apply, roll *)
(* and collect, so one program counter stands for its holder; the flush    *)
(* and compaction threads put objects, and iterators pin versions, without *)
(* holding it.  A Version is abstracted to the set of file numbers it      *)
(* references.                                                             *)
(***************************************************************************)
EXTENDS ManifestCatalog

CONSTANTS
    Writers,            \* processes that open the store read-write
    Readers,            \* processes that open it with open_read_only
    EditsPerGeneration, \* Options::manifest_edits_per_generation
    RecoverAttempts,    \* kRecoverAttempts
    SnapshotAttempts,   \* kSnapshotAttempts
    Retention,          \* Options::obsolete_retention, in clock ticks
    Residue,            \* objects in the stores before the first manifest
    Rotating,           \* run_reencryption may ask for a roll
    TornWrites,         \* a crash may leave a half-written manifest object
    UnreadableIsEmpty,  \* list_edits answers a failed directory read with no edits
    RereadFails,        \* the pointer read that settles an ambiguous CAS may fail too
    Pinning,            \* iterators may outlive the version they were made on
    MaxCommits,         \* bound: manifest edits that ever become durable
    MaxFile,            \* bound: SST objects ever put
    MaxFaults,          \* bound: calls answered with Io
    MaxCrashes,         \* bound: processes killed or closed
    MaxTime             \* bound: clock ticks

ASSUME ConstantsAssumption ==
    /\ Writers \cap Readers = {}
    /\ EditsPerGeneration \in Nat \ {0}
    /\ RecoverAttempts \in Nat \ {0} /\ SnapshotAttempts \in Nat \ {0}
    /\ Retention \in Nat
    /\ Residue \subseteq 1..MaxFile
    /\ {Rotating, TornWrites, UnreadableIsEmpty, RereadFails, Pinning} \subseteq BOOLEAN
    /\ {MaxCommits, MaxFile, MaxFaults, MaxCrashes, MaxTime} \subseteq Nat

Procs == Writers \cup Readers

VARIABLES
    objects,     \* file numbers whose SST object exists
    pc,          \* where the holder of mutex_ is, per process
    entry,       \* entry_: the pointer this instance last read or installed
    seq,         \* next_seq_
    version,     \* current_
    nextFile,    \* next_file_number_
    fenced,      \* fenced_
    pending,     \* pending_deletions_: <<file number, unreferenced_since_ms>>
    written,     \* objects this instance has put whose edit is not applied yet
    pinned,      \* versions that iterators hold (live_versions_ beside current_)
    reseal,      \* manifest_payloads_pending_reencryption_ is not zero
    load,        \* locals of recover
    target,      \* locals of write_snapshot_and_install
    status,      \* what the last recover or failed read reported
    faults, crashes, now,
    log, at,     \* history: every version made durable; address -> its place in log
    acked,       \* history: place in log of the newest version an apply returned Ok for
    asOf         \* history: when the installed version's edits were listed

instanceVars == <<entry, seq, version, nextFile, fenced, pending, written, pinned, reseal>>
localVars == <<load, target, status>>
boundVars == <<faults, crashes, now>>
historyVars == <<log, at, acked, asOf>>
vars == <<catalogVars, objects, pc, instanceVars, localVars, boundVars, historyVars>>

NoLoad == [entry |-> Nowhere, files |-> {}, next |-> 1, seq |-> 1, listed |-> {},
           tries |-> 0, since |-> 0, verdict |-> "Ok"]
NoTarget == [gen |-> 0, then |-> "down", next |-> 1, tries |-> 0]

-----------------------------------------------------------------------------
\* one more call answered with Io, its effect landed or not
Fault == faults < MaxFaults /\ faults' = faults + 1 /\ UNCHANGED <<crashes, now>>
NoFault == UNCHANGED boundVars

Larger(a, b) == IF a < b THEN b ELSE a

\* observe_file_number for every number of a listing: m is what a counter at n becomes
Observed(n, m, listing) ==
    /\ m >= n /\ \A f \in listing : f < m
    /\ m = n \/ m - 1 \in listing

\* where process p's installed version stands in the history
Standing(p) == at[<<entry[p].gen, seq[p] - 1>>]

-----------------------------------------------------------------------------
(* Opening and closing an instance.                                        *)

Goto(p, l) == pc' = [pc EXCEPT ![p] = l]

\* The instance is gone: what it held in memory is lost, the catalog and the
\* objects stay as they are.
Forget(p, s) ==
    /\ Goto(p, "down")
    /\ entry' = [entry EXCEPT ![p] = Nowhere]
    /\ seq' = [seq EXCEPT ![p] = 1]
    /\ version' = [version EXCEPT ![p] = {}]
    /\ nextFile' = [nextFile EXCEPT ![p] = 1]
    /\ fenced' = [fenced EXCEPT ![p] = FALSE]
    /\ pending' = [pending EXCEPT ![p] = {}]
    /\ written' = [written EXCEPT ![p] = {}]
    /\ pinned' = [pinned EXCEPT ![p] = {}]
    /\ reseal' = [reseal EXCEPT ![p] = FALSE]
    /\ load' = [load EXCEPT ![p] = NoLoad]
    /\ target' = [target EXCEPT ![p] = NoTarget]
    /\ status' = [status EXCEPT ![p] = s]
    /\ asOf' = [asOf EXCEPT ![p] = 0]

Open(p) ==
    /\ pc[p] = "down"
    /\ Goto(p, "read")
    /\ status' = [status EXCEPT ![p] = "Ok"]
    /\ UNCHANGED <<catalogVars, objects, instanceVars, load, target, boundVars, historyVars>>

\* DbImpl::refresh: a reader replays again; a writer's version is the newest
Refresh(p) ==
    /\ p \in Readers /\ pc[p] = "idle"
    /\ Goto(p, "read")
    /\ load' = [load EXCEPT ![p] = NoLoad]
    /\ status' = [status EXCEPT ![p] = "Ok"]
    /\ UNCHANGED <<catalogVars, objects, instanceVars, target, boundVars, historyVars>>

\* killed, or closed (a fenced instance has to be), at any point
Crash(p) ==
    /\ pc[p] # "down" /\ crashes < MaxCrashes
    /\ crashes' = crashes + 1
    /\ Forget(p, "Ok")
    /\ UNCHANGED <<catalogVars, objects, faults, now, log, at, acked>>

(* What the executors commit.                                              *)
Change(p, add, del) == [added |-> add, deleted |-> del, next |-> nextFile[p], torn |-> FALSE]

FlushEdits(p) == {Change(p, {n}, {}) : n \in written[p]}
CompactionEdits(p) ==
    {Change(p, add, del) : add \in SUBSET written[p], del \in (SUBSET version[p]) \ {{}}}
\* a copy under a fresh number, never the same number in another store
MigrationEdits(p) == {Change(p, {n}, {f}) : n \in written[p], f \in version[p]}
\* files that truncation, a range delete or the ttl emptied
ReclaimEdits(p) == {Change(p, {}, del) : del \in (SUBSET version[p]) \ {{}}}
\* the same number leaves one level and enters the next
TrivialMoves(p) == {Change(p, {f}, {f}) : f \in version[p]}

EditsOf(p) == FlushEdits(p) \cup CompactionEdits(p) \cup MigrationEdits(p)
              \cup ReclaimEdits(p) \cup TrivialMoves(p)

\* killed inside DiskManifestCatalog::write_object, between the exclusive
\* create and the last byte: the address is taken by an object that does not decode
CrashMidWrite(p) ==
    /\ TornWrites /\ p \in Writers /\ crashes < MaxCrashes
    /\ \/ /\ pc[p] = "idle" /\ ~fenced[p] /\ EditsOf(p) # {}
          /\ ~Occupied(edits, <<entry[p].gen, seq[p]>>)
          /\ PutEdit(entry[p].gen, seq[p], TornEdit)
       \/ /\ pc[p] = "putSnapshot" /\ ~Occupied(snapshots, target[p].gen)
          /\ PutSnapshotAt(target[p].gen, TornSnapshot)
    /\ crashes' = crashes + 1
    /\ Forget(p, "Ok")
    /\ UNCHANGED <<objects, faults, now, log, at, acked>>

-----------------------------------------------------------------------------
(* VersionSet::recover, one action per round trip.                         *)

\* recover returns without installing: an open fails, a refresh keeps its version
Fail(p, s) ==
    /\ Goto(p, IF entry[p] = Nowhere THEN "down" ELSE "idle")
    /\ status' = [status EXCEPT ![p] = s]
    /\ load' = [load EXCEPT ![p] = NoLoad]

\* the locals of the next attempt: everything is read again
FreshAttemptKeepingSeq(p) == [NoLoad EXCEPT !.tries = load[p].tries, !.seq = load[p].seq]
FreshAttempt(p) == [NoLoad EXCEPT !.tries = load[p].tries]

\* the pointer moved under this attempt: take another, or give up as Stale
Retry(p) ==
    IF load[p].tries < RecoverAttempts
    THEN /\ Goto(p, "read")
         /\ load' = [load EXCEPT ![p] = FreshAttempt(p)]
         /\ UNCHANGED status
    ELSE Fail(p, "Stale")

\* CURRENT no longer names the generation this attempt is reading
NeverMoved(p) == FALSE
Moved(p) == pointer.gen # load[p].entry.gen

\* the counter never falls below what a replayed edit recorded
SnapshotCounterOnly(n, e) == n
ReplayedNext(n, e) == Larger(n, e.next)

RecoverFrame == UNCHANGED <<catalogVars, objects, instanceVars, target, historyVars>>

\* write_snapshot_and_install starts: the counter is read once, before the first put
RollTo(p, g, then) ==
    [target EXCEPT ![p] = [gen |-> g, then |-> then, next |-> nextFile[p], tries |-> 1]]

ReadPointer(p) ==
    /\ pc[p] = "read"
    /\ \/ /\ pointer = Nowhere /\ p \in Writers          \* a fresh store: create
          /\ Goto(p, "putSnapshot")
          /\ target' = RollTo(p, 1, "observe")
          /\ UNCHANGED <<load, status>>
       \/ /\ pointer = Nowhere /\ p \in Readers
          /\ Fail(p, "NotFound")
          /\ UNCHANGED target
       \/ /\ pointer # Nowhere
          /\ Goto(p, "snapshot")
          /\ load' = [load EXCEPT ![p].entry = pointer, ![p].tries = @ + 1]
          /\ UNCHANGED <<target, status>>
    /\ NoFault
    /\ UNCHANGED <<catalogVars, objects, instanceVars, historyVars>>

GetSnapshot(p) ==
    /\ pc[p] = "snapshot"
    /\ LET g == load[p].entry.gen IN
       \/ /\ g \in DOMAIN snapshots
          /\ IF snapshots[g].torn THEN Fail(p, "Corrupt")
             ELSE /\ Goto(p, "list")
                  /\ load' = [load EXCEPT ![p].files = snapshots[g].files,
                                          ![p].next = snapshots[g].next]
                  /\ UNCHANGED status
       \/ /\ g \notin DOMAIN snapshots
          /\ Goto(p, "missing")
          /\ load' = [load EXCEPT ![p].verdict = "Corrupt"]
          /\ UNCHANGED status
    /\ NoFault /\ RecoverFrame

ListEditsOf(p) ==
    /\ pc[p] = "list"
    /\ \/ load' = [load EXCEPT ![p].listed = ListEdits(load[p].entry.gen), ![p].since = now]
          /\ NoFault
       \/ /\ UnreadableIsEmpty /\ Fault
          /\ load' = [load EXCEPT ![p].listed = {}, ![p].since = now]
    /\ Goto(p, "replay")
    /\ UNCHANGED status
    /\ RecoverFrame

\* the replay loop has another edit at s: the listed run is still consecutive
LastLeftOut(p, s) == \E k \in load[p].listed : s \in load[p].listed /\ k > s
Listed(p, s) == s \in load[p].listed

\* the replay loop: one listed edit, or the end of the consecutive run
GetEdit(p) ==
    /\ pc[p] = "replay"
    /\ LET s == load[p].seq
           a == <<load[p].entry.gen, s>>
           tail == \A k \in load[p].listed : k <= s
       IN \/ /\ ~Listed(p, s)
             /\ Goto(p, "confirm")
             /\ UNCHANGED <<load, status>> /\ NoFault
          \/ /\ Listed(p, s) /\ a \in DOMAIN edits /\ ~edits[a].torn
             /\ load' = [load EXCEPT ![p].files = ApplyEdit(@, edits[a]),
                                     ![p].next = ReplayedNext(@, edits[a]),
                                     ![p].seq = s + 1]
             /\ UNCHANGED <<pc, status>> /\ NoFault
          \/ /\ Listed(p, s) /\ tail                 \* missing or torn at the tail
             /\ a \in DOMAIN edits => edits[a].torn
             /\ Goto(p, "confirm")
             /\ UNCHANGED <<load, status>> /\ NoFault
          \/ /\ Listed(p, s) /\ ~tail                \* below it, that is damage
             /\ a \in DOMAIN edits => edits[a].torn
             /\ IF a \in DOMAIN edits THEN Fail(p, "Corrupt")
                ELSE /\ Goto(p, "missing")
                     /\ load' = [load EXCEPT ![p].verdict = "Corrupt"]
                     /\ UNCHANGED status
             /\ NoFault
          \/ /\ Listed(p, s) /\ Fault                \* unreadable
             /\ Goto(p, "missing")
             /\ load' = [load EXCEPT ![p].verdict = "Io"]
             /\ UNCHANGED status
    /\ RecoverFrame

\* any other round trip of recover that fails ends it
RecoverIo(p) ==
    /\ pc[p] \in {"read", "snapshot", "list", "confirm"}
    /\ Fault /\ Fail(p, "Io")
    /\ RecoverFrame

\* something the pointer named is not there: a rolled generation, or damage?
Reread(p) ==
    /\ pc[p] = "missing"
    /\ \/ /\ Moved(p)
          /\ Retry(p) /\ NoFault
       \/ /\ ~Moved(p)
          /\ Fail(p, load[p].verdict) /\ NoFault
       \/ /\ Fault
          /\ \/ Fail(p, "Io")
             \/ load[p].verdict = "Io" /\ Retry(p)           \* an unchecked result is dereferenced
    /\ RecoverFrame

\* the pointer again, before anything is installed
Confirm(p) ==
    /\ pc[p] = "confirm"
    /\ LET l == load[p]
           backwards == /\ entry[p] # Nowhere
                        /\ \/ l.entry.gen < entry[p].gen
                           \/ l.entry.gen = entry[p].gen /\ l.seq < seq[p]
       IN \/ /\ Moved(p) \/ backwards                        \* monotone or nothing
             /\ IF Moved(p) THEN Retry(p) ELSE Fail(p, "Corrupt")
             /\ UNCHANGED <<entry, seq, version, nextFile, reseal, asOf>>
          \/ /\ ~Moved(p) /\ ~backwards
             /\ entry' = [entry EXCEPT ![p] = l.entry]
             /\ seq' = [seq EXCEPT ![p] = l.seq]
             /\ version' = [version EXCEPT ![p] = l.files]
             /\ nextFile' = [nextFile EXCEPT ![p] = l.next]
             /\ asOf' = [asOf EXCEPT ![p] = l.since]
             \* whether it replayed a payload sealed by a provider no longer primary
             /\ \E b \in IF Rotating /\ p \in Writers THEN BOOLEAN ELSE {FALSE} :
                   reseal' = [reseal EXCEPT ![p] = b]
             /\ load' = [load EXCEPT ![p] = NoLoad]
             /\ Goto(p, IF entry[p] = Nowhere THEN "verify" ELSE "idle")
             /\ UNCHANGED status
    /\ NoFault
    /\ UNCHANGED <<catalogVars, objects, fenced, pending, written, pinned, target,
                   log, at, acked>>

\* every number a listing of the stores holds is stepped over
ObserveListing(p) ==
    \E m \in 1..(MaxFile + 1) :
       Observed(nextFile[p], m, objects) /\ nextFile' = [nextFile EXCEPT ![p] = m]

\* DbImpl::verify_stores_and_discard on durable stores: step over every number
\* present, refuse the store when a referenced object is missing
VerifyStores(p) ==
    /\ pc[p] = "verify"
    /\ \/ /\ version[p] \subseteq objects
          /\ ObserveListing(p)
          /\ Goto(p, "idle")
          /\ NoFault
          /\ UNCHANGED <<entry, seq, version, fenced, pending, written, pinned,
                         reseal, localVars, asOf>>
       \/ /\ ~(version[p] \subseteq objects)
          /\ Forget(p, "Corrupt") /\ NoFault
       \/ /\ Fault
          /\ Forget(p, "Io")
    /\ UNCHANGED <<catalogVars, objects, log, at, acked>>

\* after create: an unreadable listing is skipped, not refused
ObserveAfterCreate(p) ==
    /\ pc[p] = "observe"
    /\ \/ ObserveListing(p) /\ NoFault
       \/ UNCHANGED nextFile /\ Fault
    /\ Goto(p, "idle")
    /\ UNCHANGED <<catalogVars, objects, entry, seq, version, fenced, pending, written,
                   pinned, reseal, localVars, historyVars>>

-----------------------------------------------------------------------------
(* VersionSet::apply.                                                      *)

Serving(p) == /\ pc[p] \in {"idle", "collect", "putSnapshot", "collided", "relist", "cas",
                            "ambiguous", "installed"}
              /\ entry[p] # Nowhere

\* the attempt is abandoned, its object with it if the put landed after all
AbandonedPutRecorded(p, n) ==
    /\ objects' \in {objects, objects \cup {n}}
    /\ written' = [written EXCEPT ![p] = @ \cup {n}]
AbandonedPut(p, n) ==
    /\ objects' \in {objects, objects \cup {n}}
    /\ UNCHANGED written

\* DbImpl::write_new_sst: a fresh number per attempt; a taken name is stepped
\* over after listing the stores; a failed put may have landed and is abandoned
PutObject(p) ==
    /\ p \in Writers /\ Serving(p)
    /\ nextFile[p] <= MaxFile
    /\ LET n == nextFile[p] IN
       \/ /\ n \in objects
          /\ ObserveListing(p)
          /\ NoFault
          /\ UNCHANGED <<objects, written>>
       \/ /\ n \in objects /\ Fault                         \* the listing failed
          /\ nextFile' = [nextFile EXCEPT ![p] = n + 1]
          /\ UNCHANGED <<objects, written>>
       \/ /\ n \notin objects
          /\ objects' = objects \cup {n}
          /\ written' = [written EXCEPT ![p] = @ \cup {n}]
          /\ nextFile' = [nextFile EXCEPT ![p] = n + 1]
          /\ NoFault
       \/ /\ n \notin objects /\ Fault
          /\ AbandonedPut(p, n)
          /\ nextFile' = [nextFile EXCEPT ![p] = n + 1]
    /\ UNCHANGED <<catalogVars, pc, entry, seq, version, fenced, pending, pinned,
                   reseal, localVars, historyVars>>

\* the edit is an object at its address: the version it makes is durable
Land(p, e) ==
    /\ PutEdit(entry[p].gen, seq[p], e)
    /\ log' = Append(log, ApplyEdit(version[p], e))
    /\ at' = With(at, <<entry[p].gen, seq[p]>>, Len(log) + 1)

Apply(p) ==
    /\ p \in Writers /\ pc[p] = "idle" /\ ~fenced[p]
    /\ Len(log) < MaxCommits
    /\ \E e \in EditsOf(p) :
       LET occupied == Occupied(edits, <<entry[p].gen, seq[p]>>)
           dead == e.deleted \ e.added
       IN
       /\ \/ /\ occupied                                     \* Config: fenced
             /\ fenced' = [fenced EXCEPT ![p] = TRUE]
             /\ NoFault
             /\ UNCHANGED <<catalogVars, pc, seq, version, pending, target, log, at>>
          \/ /\ ~occupied /\ Fault                           \* Io: nothing is swapped
             /\ Land(p, e) \/ UNCHANGED <<catalogVars, log, at>>
             /\ UNCHANGED <<pc, seq, version, fenced, pending, target>>
          \/ /\ ~occupied
             /\ Land(p, e)
             /\ seq' = [seq EXCEPT ![p] = @ + 1]
             /\ version' = [version EXCEPT ![p] = ApplyEdit(@, e)]
             /\ pending' = [pending EXCEPT ![p] = @ \cup (dead \X {now})]
             /\ IF seq[p] + 1 <= EditsPerGeneration          \* maybe_roll_generation
                THEN Goto(p, "collect") /\ UNCHANGED target
                ELSE /\ Goto(p, "putSnapshot")
                     /\ target' = RollTo(p, entry[p].gen + 1, "collect")
             /\ NoFault
             /\ UNCHANGED fenced
       \* a task that fails to commit abandons its objects; its retry writes new ones
       /\ written' = [written EXCEPT ![p] = @ \ e.added]
    /\ UNCHANGED <<objects, entry, nextFile, pinned, reseal, load, status, acked, asOf>>

\* VersionSet::roll_generation_now, which run_one_reencryption calls when payloads are stale
RollNow(p) ==
    /\ p \in Writers /\ pc[p] = "idle" /\ ~fenced[p]
    /\ reseal[p]
    /\ Goto(p, "putSnapshot")
    /\ target' = RollTo(p, entry[p].gen + 1, "idle")
    /\ UNCHANGED <<catalogVars, objects, instanceVars, load, status, boundVars, historyVars>>

-----------------------------------------------------------------------------
(* write_snapshot_and_install.                                             *)

\* An error: create fails the open, apply records it and still returns Ok,
\* roll_generation_now hands it to its caller.
RollFailed(p) ==
    /\ Goto(p, IF target[p].then = "observe" THEN "down" ELSE target[p].then)
    /\ target' = [target EXCEPT ![p] = NoTarget]

Fence(p) == fenced' = [fenced EXCEPT ![p] = target[p].then # "observe"]

RollFrame == UNCHANGED <<objects, version, nextFile, pending, written, pinned, load,
                         acked, asOf>>

PutSnapshot(p) ==
    /\ pc[p] = "putSnapshot"
    /\ LET g == target[p].gen
           s == [files |-> version[p], next |-> target[p].next, torn |-> FALSE]
       IN \/ /\ Occupied(snapshots, g)
             /\ Goto(p, "collided")
             /\ NoFault
             /\ UNCHANGED <<catalogVars, target>>
          \/ /\ ~Occupied(snapshots, g)
             /\ PutSnapshotAt(g, s)
             /\ Goto(p, "cas")
             /\ NoFault
             /\ UNCHANGED target
          \/ /\ ~Occupied(snapshots, g) /\ Fault
             /\ PutSnapshotAt(g, s) \/ UNCHANGED catalogVars
             /\ RollFailed(p)
    /\ UNCHANGED <<entry, seq, fenced, reseal, status, log, at>> /\ RollFrame

\* the address is taken: is CURRENT still where this instance last saw it?
Collided(p) ==
    /\ pc[p] = "collided"
    /\ \/ /\ pointer = entry[p]
          /\ Goto(p, "relist")
          /\ NoFault /\ UNCHANGED <<fenced, target>>
       \/ /\ pointer # entry[p]
          /\ Fence(p) /\ RollFailed(p) /\ NoFault
       \/ /\ Fault /\ RollFailed(p)
          /\ UNCHANGED fenced
    /\ UNCHANGED <<catalogVars, entry, seq, reseal, status, log, at>> /\ RollFrame

\* step past every generation the catalog lists, a bounded number of times
Relist(p) ==
    /\ pc[p] = "relist"
    /\ \/ /\ target[p].tries < SnapshotAttempts
          /\ LET known == ListGenerations \cup {target[p].gen} IN
             \E g \in known :
                /\ \A h \in known : h <= g
                /\ target' = [target EXCEPT ![p].gen = g + 1, ![p].tries = @ + 1]
          /\ Goto(p, "putSnapshot")
          /\ NoFault
       \/ /\ target[p].tries = SnapshotAttempts             \* Unusable
          /\ RollFailed(p) /\ NoFault
       \/ /\ Fault /\ RollFailed(p)
    /\ UNCHANGED <<catalogVars, entry, seq, fenced, reseal, status, log, at>> /\ RollFrame

\* CURRENT now names the target generation; its first version is the one rolled
MovePointer(p) ==
    LET g == target[p].gen IN
    /\ SetPointer(g)
    /\ IF entry[p] = Nowhere
       THEN log' = Append(log, {}) /\ at' = With(at, <<g, 0>>, Len(log) + 1)
       ELSE at' = With(at, <<g, 0>>, Standing(p)) /\ UNCHANGED log

CompareAndSet(p) ==
    /\ pc[p] = "cas"
    /\ \/ /\ Expected(entry[p])
          /\ MovePointer(p)
          /\ Goto(p, "installed")
          /\ NoFault
          /\ UNCHANGED <<fenced, target>>
       \/ /\ Expected(entry[p]) /\ Fault
          /\ MovePointer(p) \/ UNCHANGED <<catalogVars, log, at>>
          /\ Goto(p, "ambiguous")
          /\ UNCHANGED <<fenced, target>>
       \/ /\ ~Expected(entry[p])
          /\ Fence(p) /\ RollFailed(p) /\ NoFault
          /\ UNCHANGED <<catalogVars, log, at>>
    /\ UNCHANGED <<entry, seq, reseal, status>> /\ RollFrame

\* the CAS answered Io: CURRENT says whether it happened
SettleCasByTheError(p) ==
    /\ pc[p] = "ambiguous"
    /\ RollFailed(p) /\ NoFault
    /\ UNCHANGED <<catalogVars, entry, seq, fenced, reseal, status, log, at>> /\ RollFrame
SettleCas(p) ==
    /\ pc[p] = "ambiguous"
    /\ \/ /\ pointer.gen = target[p].gen
          /\ Goto(p, "installed")
          /\ NoFault
          /\ UNCHANGED <<fenced, target>>
       \/ /\ pointer.gen # target[p].gen /\ pointer = entry[p]
          /\ RollFailed(p) /\ NoFault
          /\ UNCHANGED fenced
       \/ /\ pointer.gen # target[p].gen /\ pointer # entry[p]
          /\ Fence(p) /\ RollFailed(p) /\ NoFault
       \/ /\ RereadFails /\ Fault
          /\ RollFailed(p)
          /\ UNCHANGED fenced
    /\ UNCHANGED <<catalogVars, entry, seq, reseal, status, log, at>> /\ RollFrame

\* the generation to delete is the one entry_ named before it was overwritten
PreviousReadTooLate(p) == target[p].gen
Previous(p) == entry[p].gen

\* next_seq_ once a generation is installed
FirstSeq(p) == 1

\* adopt the new entry, delete the previous generation (its failure is
\* ignored), start numbering edits at 1 again
Installed(p) ==
    /\ pc[p] = "installed"
    /\ entry' = [entry EXCEPT ![p] = [gen |-> target[p].gen, token |-> @.token + 1]]
    /\ seq' = [seq EXCEPT ![p] = FirstSeq(p)]
    /\ reseal' = [reseal EXCEPT ![p] = FALSE]
    /\ Goto(p, target[p].then)
    /\ target' = [target EXCEPT ![p] = NoTarget]
    /\ \/ entry[p] # Nowhere /\ DeleteGeneration(Previous(p)) /\ NoFault
       \/ entry[p] # Nowhere /\ DeletePartOf(Previous(p)) /\ Fault
       \/ entry[p] = Nowhere /\ NoFault /\ UNCHANGED catalogVars
    /\ UNCHANGED <<fenced, status, log, at>> /\ RollFrame

-----------------------------------------------------------------------------
(* Collection, and the iterators it has to wait for.                       *)

\* what no live version of this process references, out of the reader window
Collectable(p) ==
    {d \in pending[p] : /\ \A v \in pinned[p] \cup {version[p]} : d[1] \notin v
                       /\ now - d[2] >= Retention}

\* what the deleter could not remove goes back with its window spent
RependNothing(due) == {}
Repend(due) == {<<d[1], 0>> : d \in due}

\* collect_obsolete_locked at the end of apply, or from the compaction loop.  The
\* deleter answers for a batch: when it fails, some of it may be gone all the same.
CollectObsolete(p) ==
    /\ p \in Writers /\ pc[p] \in {"collect", "idle"} /\ entry[p] # Nowhere
    /\ LET due == Collectable(p)
           files == {d[1] : d \in due}
       IN \/ /\ objects' = objects \ files
             /\ pending' = [pending EXCEPT ![p] = @ \ due]
             /\ NoFault
          \/ /\ due # {} /\ Fault
             /\ \E gone \in SUBSET files : objects' = objects \ gone
             /\ pending' = [pending EXCEPT ![p] = (@ \ due) \cup Repend(due)]
    /\ acked' = IF pc[p] = "collect" THEN Standing(p) ELSE acked
    /\ Goto(p, "idle")
    /\ UNCHANGED <<catalogVars, entry, seq, version, nextFile, fenced, written, pinned,
                   reseal, localVars, log, at, asOf>>

\* an iterator takes the current version; it may be held past any number of swaps
Pin(p) ==
    /\ Pinning /\ Serving(p) /\ version[p] \notin pinned[p]
    /\ pinned' = [pinned EXCEPT ![p] = @ \cup {version[p]}]
    /\ UNCHANGED <<catalogVars, objects, pc, entry, seq, version, nextFile, fenced, pending,
                   written, reseal, localVars, boundVars, historyVars>>

Unpin(p) ==
    /\ \E v \in pinned[p] : pinned' = [pinned EXCEPT ![p] = @ \ {v}]
    /\ UNCHANGED <<catalogVars, objects, pc, entry, seq, version, nextFile, fenced, pending,
                   written, reseal, localVars, boundVars, historyVars>>

-----------------------------------------------------------------------------
(* A reader meets a missing object: reader_for asks manifest_advanced.     *)

ReadMissing(p) ==
    /\ p \in Readers /\ pc[p] = "idle"
    /\ \E v \in pinned[p] \cup {version[p]} : ~(v \subseteq objects)
    /\ Goto(p, "advanced")
    /\ UNCHANGED <<catalogVars, objects, instanceVars, localVars, boundVars, historyVars>>

\* the read fails with Stale, and a refresh or a reopen is the remedy
AnswerStale(p) ==
    /\ Goto(p, "idle")
    /\ status' = [status EXCEPT ![p] = "Stale"]
    /\ UNCHANGED <<instanceVars, load, target, asOf>>

\* manifest_advanced reads the pointer; fail_terminal takes the instance out of service
AdvancedPointer(p) ==
    /\ pc[p] = "advanced"
    /\ \/ /\ pointer.gen # entry[p].gen
          /\ AnswerStale(p) /\ NoFault
       \/ /\ pointer.gen = entry[p].gen
          /\ Goto(p, "advancedList") /\ NoFault
          /\ UNCHANGED <<instanceVars, localVars, asOf>>
       \/ Fault /\ Forget(p, "Corrupt")
    /\ UNCHANGED <<catalogVars, objects, log, at, acked>>

\* and then lists the generation's edits
AdvancedList(p) ==
    /\ pc[p] = "advancedList"
    /\ LET newer == {k \in ListEdits(entry[p].gen) : k >= seq[p]} IN
       \/ newer # {} /\ AnswerStale(p) /\ NoFault
       \/ newer = {} /\ Forget(p, "Corrupt") /\ NoFault
       \/ Fault /\ Forget(p, "Corrupt")
    /\ UNCHANGED <<catalogVars, objects, log, at, acked>>

-----------------------------------------------------------------------------
Tick ==
    /\ now < MaxTime /\ now' = now + 1
    /\ UNCHANGED <<catalogVars, objects, pc, instanceVars, localVars, faults, crashes,
                   historyVars>>

Init ==
    /\ pointer = Nowhere /\ snapshots = EmptyFunction /\ edits = EmptyFunction
    /\ objects = Residue
    /\ pc = [p \in Procs |-> "down"]
    /\ entry = [p \in Procs |-> Nowhere]
    /\ seq = [p \in Procs |-> 1]
    /\ version = [p \in Procs |-> {}]
    /\ nextFile = [p \in Procs |-> 1]
    /\ fenced = [p \in Procs |-> FALSE]
    /\ pending = [p \in Procs |-> {}]
    /\ written = [p \in Procs |-> {}]
    /\ pinned = [p \in Procs |-> {}]
    /\ reseal = [p \in Procs |-> FALSE]
    /\ load = [p \in Procs |-> NoLoad]
    /\ target = [p \in Procs |-> NoTarget]
    /\ status = [p \in Procs |-> "Ok"]
    /\ faults = 0 /\ crashes = 0 /\ now = 0
    /\ log = <<>> /\ at = EmptyFunction /\ acked = 0
    /\ asOf = [p \in Procs |-> 0]

Recover(p) == \/ Open(p) \/ Refresh(p) \/ ReadPointer(p) \/ GetSnapshot(p) \/ ListEditsOf(p)
              \/ GetEdit(p) \/ Reread(p) \/ Confirm(p) \/ RecoverIo(p) \/ VerifyStores(p)
              \/ ObserveAfterCreate(p)

Roll(p) == \/ PutSnapshot(p) \/ Collided(p) \/ Relist(p) \/ CompareAndSet(p)
           \/ SettleCas(p) \/ Installed(p)

Read(p) == Pin(p) \/ Unpin(p) \/ ReadMissing(p) \/ AdvancedPointer(p) \/ AdvancedList(p)

Next ==
    \/ \E p \in Procs : \/ Recover(p) \/ PutObject(p) \/ Apply(p) \/ RollNow(p) \/ Roll(p)
                         \/ CollectObsolete(p) \/ Read(p) \/ Crash(p) \/ CrashMidWrite(p)
    \/ Tick

Spec == Init /\ [][Next]_vars

\* Threads holding mutex_ run on, the clock runs, and the maintenance coordinator
\* dispatches the compaction loop, which begins with collect_obsolete.
FairSpec ==
    /\ Spec
    /\ WF_vars(Tick)
    /\ \A p \in Procs : WF_vars(Roll(p)) /\ WF_vars(CollectObsolete(p))

-----------------------------------------------------------------------------
(* Properties.                                                             *)

WellFormed(g, k) == <<g, k>> \in DOMAIN edits /\ ~edits[<<g, k>>].torn

\* replay of generation g stops after edit k, 0 for the snapshot alone
IsTip(g, k) ==
    /\ \A j \in 1..k : WellFormed(g, j)
    /\ ~WellFormed(g, k + 1)

Stages == {"down", "read", "snapshot", "list", "replay", "missing", "confirm", "verify",
           "observe", "idle", "collect", "putSnapshot", "collided", "relist", "cas",
           "ambiguous", "installed", "advanced", "advancedList"}
Statuses == {"Ok", "NotFound", "Io", "Corrupt", "Stale"}
Attempt == [entry : Entry, files : SUBSET Nat, next : Nat \ {0}, seq : Nat \ {0},
            listed : SUBSET Nat, tries : Nat, since : Nat, verdict : Statuses]
Target == [gen : Nat, then : {"down", "idle", "collect", "observe"}, next : Nat \ {0},
           tries : Nat]

\* Every variable of the manifest, the instances and the history has its type.
TypeOK ==
    /\ pointer \in Entry
    /\ DOMAIN snapshots \subseteq Nat /\ snapshots \in [DOMAIN snapshots -> Snapshot]
    /\ DOMAIN edits \subseteq Nat \X Nat /\ edits \in [DOMAIN edits -> Edit]
    /\ objects \subseteq 1..MaxFile
    /\ pc \in [Procs -> Stages]
    /\ entry \in [Procs -> Entry]
    /\ seq \in [Procs -> Nat \ {0}]
    /\ version \in [Procs -> SUBSET Nat]
    /\ nextFile \in [Procs -> Nat \ {0}]
    /\ fenced \in [Procs -> BOOLEAN]
    /\ pending \in [Procs -> SUBSET (Nat \X Nat)]
    /\ written \in [Procs -> SUBSET Nat]
    /\ pinned \in [Procs -> SUBSET SUBSET Nat]
    /\ reseal \in [Procs -> BOOLEAN]
    /\ load \in [Procs -> Attempt]
    /\ target \in [Procs -> Target]
    /\ status \in [Procs -> Statuses]
    /\ faults \in Nat /\ crashes \in Nat /\ now \in Nat
    /\ log \in Seq(SUBSET Nat)
    /\ DOMAIN at \subseteq Nat \X Nat /\ at \in [DOMAIN at -> Nat]
    /\ acked \in Nat
    /\ asOf \in [Procs -> Nat]

\* The live generation replays, step by step, to the versions writers made
\* durable: its snapshot is the version it was rolled from and every edit takes
\* the version before it to the one logged at its address.
ReplayIsHistory ==
    pointer # Nowhere =>
       LET g == pointer.gen IN
       /\ <<g, 0>> \in DOMAIN at
       /\ g \in DOMAIN snapshots /\ ~snapshots[g].torn
       /\ snapshots[g].files = log[at[<<g, 0>>]]
       /\ \A k \in 1..MaxCommits : WellFormed(g, k) =>
             /\ {<<g, k>>, <<g, k - 1>>} \subseteq DOMAIN at
             /\ log[at[<<g, k>>]] = ApplyEdit(log[at[<<g, k - 1>>]], edits[<<g, k>>])

\* Object before edit, edit before delete: every file that replaying the live
\* generation references is in the store.
NoDangling ==
    \A k \in 0..MaxCommits : pointer # Nowhere /\ IsTip(pointer.gen, k)
                                => log[at[<<pointer.gen, k>>]] \subseteq objects

\* A version whose apply returned Ok is never lost: what the live generation
\* replays to is that version or a later one.
AckedSurvives ==
    \A k \in 0..MaxCommits : pointer # Nowhere /\ IsTip(pointer.gen, k)
                                => at[<<pointer.gen, k>>] >= acked

\* Inside a writer's process every version an iterator holds, and the current
\* one, can be read to the end.
LiveVersionsReadable ==
    \A w \in Writers : \A v \in pinned[w] \cup {version[w]} : pc[w] # "verify" => v \subseteq objects

\* Every instance serves a version a writer published, at the place in the
\* manifest it claims: never a mixture of two generations, or of a snapshot and
\* some of its edits.
ServesPublished ==
    \A p \in Procs : entry[p] # Nowhere =>
       /\ <<entry[p].gen, seq[p] - 1>> \in DOMAIN at
       /\ version[p] = log[Standing(p)]

\* obsolete_retention: a version whose edits were listed less than the retention
\* ago has every object, even one the reader in question never pinned.
RetentionWindow ==
    \A r \in Readers : entry[r] # Nowhere /\ now - asOf[r] < Retention => version[r] \subseteq objects

\* A writer's own recover never reports damage: no crash, failed call or torn
\* write of the only writer leaves a manifest its next open refuses.
WriterReopens == \A w \in Writers : status[w] # "Corrupt"

\* "That costs a reopen, which re-reads the true state": a fenced writer finds
\* something newer to replay when it reopens.
ReopenClearsFence ==
    \A w \in Writers : fenced[w] => pointer # entry[w] \/ WellFormed(entry[w].gen, seq[w])

\* "gets Status::Stale, never Corrupt": on an undamaged store no reader reports damage.
ReaderNeverCorrupt == \A r \in Readers : status[r] # "Corrupt"

\* What an edit drops is deleted in the end, failed deletes and all, unless
\* the process dies first or iterators on it keep coming back.  (A file whose
\* window ends after the bound on the clock is left out.)
DeadFilesReclaimed ==
    \A w \in Writers, f \in 1..MaxFile :
       \/ []<>(f \in UNION pinned[w])
       \/ (\E d \in pending[w] : d[1] = f /\ d[2] + Retention <= MaxTime)
              ~> (f \notin objects \/ pc[w] = "down")

\* CURRENT only ever advances: no writer, however late, moves it back.
PointerAdvances == [][pointer' # pointer => pointer'.gen > pointer.gen]_vars

\* A file number that any durable version referenced is never put again.
NumbersNotReused ==
    [][\A i \in DOMAIN log : log[i] \cap (objects' \ objects) = {}]_vars

\* The writers' promise, stated over the sequence of versions alone.
Abstract == INSTANCE VersionHistory WITH
    Versions <- SUBSET (1..MaxFile),
    history <- log,
    view <- [p \in Procs |-> IF entry[p] = Nowhere THEN 0 ELSE Standing(p)],
    acked <- acked

\* Opening, refreshing, applying, rolling and crashing one writer, with readers
\* beside it, is what VersionHistory allows and no more.
RefinesVersionHistory == Abstract!Spec

=============================================================================
