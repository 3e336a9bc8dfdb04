------------------------------- MODULE LsmTree -------------------------------
(***************************************************************************)
(* What the files of the version say and how it is read: point writes,     *)
(* range deletes and truncation into a memtable, flushes, and every task   *)
(* that rewrites or drops files (compaction, the L0 escape, compact_level, *)
(* migration and re-encryption, reclamation), against get and the          *)
(* iterators.                                                              *)
(*                                                                         *)
(* Keys are 1 .. KeyCount, and 0 stands for the empty key, which sorts     *)
(* first.  A write is its position in the history of writes; an entry is   *)
(* the write that put it, or Deleted.  Range tombstones are kept as the    *)
(* set of keys they cover: merge_ranges joins what touches, so the ranges  *)
(* of a file are the runs of that set.  A range's upper bound is one past  *)
(* its last key.                                                           *)
(*                                                                         *)
(* Flushing is one step here; the hand-off from imm_ to the version is in  *)
(* WritePath, the install of the edit in VersionSet.                       *)
(***************************************************************************)
EXTENDS Integers, FiniteSets, FiniteSetsExt, TLC

CONSTANTS KeyCount,      \* keys
          Truncators,    \* threads that call truncate_below
          Last,          \* config_.last()
          TargetEntries, \* target_file_bytes, in entries
          Setups         \* what a behaviour may do; each keeps to one of these

Keys == 1 .. KeyCount

\* A setup has the calls that are made (the keys put and removed, the ranges
\* deleted, the keys truncated below), the levels with a max_files, L0 among
\* them, and two bounds: on the writes, and on the events, which are the
\* truncations, passes of compact_level, file rewrites and expiries together.
ASSUME LsmTreeAssumption ==
    /\ KeyCount \in Nat /\ Last \in Nat /\ TargetEntries \in Nat \ {0} /\ Setups # {}
    /\ \A s \in Setups :
           /\ s.puts \subseteq Keys /\ s.removes \subseteq Keys
           /\ s.ranges \subseteq {r \in Keys \X (2 .. KeyCount + 1) : r[1] < r[2]}
           /\ s.floors \subseteq 2 .. KeyCount + 1 /\ 0 \in s.overlapping
           /\ s.writes \in Nat /\ s.events \in Nat

VARIABLES
    mem,         \* the memtable: its entries and the keys its ranges cover
    files,       \* the files of the version
    floor,       \* Version::truncation_point
    writeFloor,  \* write_floor_
    truncator,   \* truncate_below in progress, per thread
    pass,        \* compact_level in progress: the level and the files left
    writes,      \* length of the history
    latest,      \* the history: the write that gave each key its value, or Deleted
    expired,     \* writes up to this one have outlived the ttl
    events,      \* events so far
    setup        \* the member of Setups the behaviour keeps to

floors == <<floor, writeFloor, truncator>>
history == <<writes, latest, expired>>
bounds == <<events, setup>>
vars == <<mem, files, floors, pass, history, bounds>>

Deleted == 0
NoKey == 0
NoPass == [level |-> 0, left |-> {}, active |-> FALSE]
Quiescent == [key |-> NoKey, previous |-> NoKey]
Counted == events < setup.events /\ events' = events + 1
EmptyTable == [data |-> <<>>, covered |-> {}]

TypeOK ==
    /\ \A f \in files : /\ f.level \in 0 .. Last
                        /\ DOMAIN f.data \subseteq Keys /\ f.covered \subseteq Keys
                        /\ f.data # <<>> \/ f.covered # {}
    /\ \A f, g \in files : f.num = g.num => f = g
    /\ {floor, writeFloor} \subseteq setup.floors \cup {NoKey}
    /\ latest \in [Keys -> 0 .. writes] /\ expired \in 0 .. writes

-----------------------------------------------------------------------------
(* FileMetadata, and the questions Version answers from it.                *)

smallest_key(f) == IF f.data = <<>> THEN NoKey ELSE Min(DOMAIN f.data)
largest_key(f) == IF f.data = <<>> THEN NoKey ELSE Max(DOMAIN f.data)
smallest_range_key(f) == Min(f.covered)
largest_range_key(f) == Max(f.covered) + 1
num_tombstones(f) == Cardinality({k \in DOMAIN f.data : f.data[k] = Deleted})

effective_smallest(f) == Min(DOMAIN f.data \cup f.covered)
effective_largest(f) ==
    Max(DOMAIN f.data \cup (IF f.covered = {} THEN {} ELSE {largest_range_key(f)}))

files_at(level) == {f \in files : f.level = level}
Lowest(fs) == CHOOSE f \in fs : \A g \in fs : f.num <= g.num

\* sort_level: L0 by descending number, deeper levels by smallest key.
SortsBefore(f, g) ==
    IF f.level = 0 THEN f.num > g.num
    ELSE smallest_key(f) < smallest_key(g) \/ (smallest_key(f) = smallest_key(g) /\ f.num < g.num)

\* Positional recency, the order of a merge's children.
Precedes(f, g) == f.level < g.level \/ (f.level = g.level /\ SortsBefore(f, g))
First(fs) == CHOOSE f \in fs : \A g \in fs \ {f} : Precedes(f, g)

\* Closed at both ends, on effective spans.
overlapping_inclusive(level, low, high) ==
    {f \in files_at(level) : effective_largest(f) >= low /\ effective_smallest(f) <= high}

HullLow(fs) == Min({effective_smallest(f) : f \in fs})
HullHigh(fs) == Max({effective_largest(f) : f \in fs})
OverlappingFiles(level, fs) == overlapping_inclusive(level, HullLow(fs), HullHigh(fs))

carries_ranges(level) == \E f \in files_at(level) : f.covered # {}

is_bottommost_for_range(level, fs) ==
    \A deeper \in level + 1 .. Last : OverlappingFiles(deeper, fs) = {}

-----------------------------------------------------------------------------
(* Reading.                                                                *)

Holds(f, k) == k \in DOMAIN f.data

\* The files of a level get looks into for k.  Below L0, and without range
\* tombstones, lower_bound on the largest key leaves one.
Probed(level, k) ==
    LET reaching == {f \in files_at(level) : largest_key(f) >= k}
    IN  IF level = 0 \/ carries_ranges(level) THEN files_at(level)
        ELSE IF reaching = {} THEN {} ELSE {First(reaching)}

Answering(k) ==
    {f \in UNION {Probed(level, k) : level \in 0 .. Last} : Holds(f, k) \/ k \in f.covered}

\* At one source the point entry is asked about before the ranges.
Answer(f, k) == IF Holds(f, k) THEN f.data[k] ELSE Deleted

get(k) ==
    IF k < floor THEN Deleted
    ELSE IF Holds(mem, k) \/ k \in mem.covered THEN Answer(mem, k)
    ELSE IF Answering(k) = {} THEN Deleted
    ELSE Answer(First(Answering(k)), k)

ScannedByData(low, high) ==
    {f \in files : f.data # <<>> /\ largest_key(f) >= low /\ smallest_key(f) < high}

\* overlapping_half_open, on either span.
Scanned(low, high) ==
    {f \in files : \/ f.data # <<>> /\ largest_key(f) >= low /\ smallest_key(f) < high
                   \/ f.covered # {} /\ largest_range_key(f) > low /\ smallest_range_key(f) < high}

\* What an iterator over [low, high) yields at k: the first child that holds
\* it, unless a child before that one covers it.
ScanYields(low, high, k) ==
    LET children == Scanned(IF low < floor THEN floor ELSE low, high)
        holders == {f \in children : Holds(f, k)}
    IN  IF k < floor THEN Deleted
        ELSE IF Holds(mem, k) THEN mem.data[k]
        ELSE IF k \in mem.covered \/ holders = {} THEN Deleted
        ELSE IF \E f \in children : Precedes(f, First(holders)) /\ k \in f.covered THEN Deleted
        ELSE First(holders).data[k]

-----------------------------------------------------------------------------
(* Writes.                                                                 *)

\* check_below_truncation, for put and remove.
Accepted(k) == k >= writeFloor

Write(k, entry) ==
    /\ writes < setup.writes
    /\ Accepted(k)
    /\ mem' = [mem EXCEPT !.data = (k :> entry) @@ mem.data]
    /\ writes' = writes + 1
    /\ latest' = [latest EXCEPT ![k] = entry]
    /\ UNCHANGED <<files, floors, pass, expired, bounds>>

put(k) == Write(k, writes + 1)
remove(k) == Write(k, Deleted)

\* SkiplistMemtable::delete_range turns the entries already there into point
\* deletes: the range shadows only older sources.
DeleteCovered(covered) ==
    [k \in DOMAIN mem.data |-> IF k \in covered THEN Deleted ELSE mem.data[k]]

\* The range is clamped to the truncation point rather than refused.
delete_range(low, high) ==
    /\ writes < setup.writes
    /\ LET covered == (IF low < floor THEN floor ELSE low) .. high - 1
       IN  /\ covered # {}
           /\ mem' = [data |-> DeleteCovered(covered),
                      covered |-> mem.covered \cup covered]
           /\ latest' = [k \in Keys |-> IF k \in covered THEN Deleted ELSE latest[k]]
    /\ writes' = writes + 1
    /\ UNCHANGED <<files, floors, pass, expired, bounds>>

NextNumber == 1 + Max({0} \cup {f.num : f \in files})

flush_memtable ==
    /\ mem # EmptyTable
    /\ files' = files \cup {[num |-> NextNumber, level |-> 0, data |-> mem.data,
                             covered |-> mem.covered, newest |-> writes]}
    /\ mem' = EmptyTable
    /\ UNCHANGED <<floors, pass, history, bounds>>

-----------------------------------------------------------------------------
(* Compaction.                                                             *)

\* The keys a merge of fs keeps.
Survivors(fs, bottom) ==
    {k \in UNION {DOMAIN f.data : f \in fs} :
        LET winner == First({f \in fs : Holds(f, k)})
        IN  /\ ~ \E f \in fs : Precedes(f, winner) /\ k \in f.covered
            /\ ~(bottom /\ winner.data[k] = Deleted)
            /\ k >= floor}

\* clip_ranges at the cut points of an output.
clip_ranges(covered, low, high) == {k \in covered : low <= k /\ k < high}

\* finish_output keeps no file that says nothing.
SaysSomething(f) == f.data # <<>> \/ f.covered # {}

\* write_compaction_outputs: cut after every TargetEntries keys, the range
\* tombstones tiled over the outputs, dropped at the bottommost level.
Outputs(fs, level, bottom) ==
    LET kept == Survivors(fs, bottom)
        carried == IF bottom THEN {} ELSE UNION {f.covered : f \in fs}
        rank(k) == Cardinality({j \in kept : j < k})
        opens == {k \in kept : rank(k) % TargetEntries = 0}
        first(n) == CHOOSE k \in opens : rank(k) = n * TargetEntries
        count == IF opens = {} THEN 1 ELSE Cardinality(opens)
        low(n) == IF n = 0 THEN NoKey ELSE first(n)
        high(n) == IF n = count - 1 THEN KeyCount + 1 ELSE first(n + 1)
        output(n) == [num |-> NextNumber + n, level |-> level,
                      data |-> [k \in clip_ranges(kept, low(n), high(n)) |->
                                    First({f \in fs : Holds(f, k)}).data[k]],
                      covered |-> clip_ranges(carried, low(n), high(n)),
                      newest |-> Max({f.newest : f \in fs})]
    IN  {f \in {output(n) : n \in 0 .. count - 1} : SaysSomething(f)}

\* run_compaction over inputs and the overlaps of the output level.
run_compaction(inputs, overlaps, level, bottom) ==
    files' = (files \ (inputs \cup overlaps)) \cup Outputs(inputs \cup overlaps, level, bottom)

\* transitive_overlap: the least set around seed that overlaps nothing more.
TransitiveOverlap(level, seed) ==
    LET closed == {fs \in SUBSET files_at(level) :
                       seed \in fs /\ OverlappingFiles(level, fs) = fs}
    IN  CHOOSE fs \in closed : \A gs \in closed : fs \subseteq gs

TrimKeepsAny(fs) == SUBSET fs \ {{}}

\* trim_to_budget: any part that is downward closed in age.
trim_to_budget(fs) ==
    {gs \in SUBSET fs : gs # {} /\ \A f \in gs, g \in fs : g.num < f.num => g \in gs}

\* The expansion back into a sorted source level, when the overlaps stay the
\* same; the byte budget may forbid it.
Expansions(level, inputs, overlaps) ==
    LET expanded == OverlappingFiles(level, inputs \cup overlaps)
        steady == overlaps # {} /\ OverlappingFiles(level + 1, expanded \cup overlaps) = overlaps
    IN  {inputs} \cup IF steady THEN {expanded} ELSE {}

\* pick_compaction and its run.  Which level is due is a matter of sizes and
\* tombstone densities, so any level may be; the seed of a sorted level is past
\* its compaction pointer, so any file may be; and a lone file moves, unless
\* the move would keep tombstones or the grandparents are too heavy.
run_one_compaction(level) ==
    LET overlapping == level \in setup.overlapping
        seeds == IF overlapping
                 THEN trim_to_budget(TransitiveOverlap(level, Lowest(files_at(level))))
                 ELSE {{f} : f \in files_at(level)}
    IN  /\ files_at(level) # {}
        /\ \E picked \in seeds :
           LET overlaps == OverlappingFiles(level + 1, picked)
           IN  \E inputs \in IF overlapping THEN {picked} ELSE Expansions(level, picked, overlaps) :
                   LET bottom == is_bottommost_for_range(level + 1, inputs \cup overlaps)
                       f == Lowest(inputs)
                       drops == bottom /\ (num_tombstones(f) > 0 \/ f.covered # {})
                   IN  \/ /\ inputs = {f} /\ overlaps = {} /\ ~drops
                          /\ files' = (files \ {f}) \cup {[f EXCEPT !.level = level + 1]}
                       \/ run_compaction(inputs, overlaps, level + 1, bottom)
        /\ UNCHANGED <<mem, floors, pass, history, bounds>>

\* The oldest L0 file leaves its tier, or its key, by a compaction of its own.
compact_l0_file_off_its_tier ==
    /\ Last > 0 /\ files_at(0) # {}
    /\ LET seed == Lowest(files_at(0))
           overlaps == OverlappingFiles(1, {seed})
       IN  run_compaction({seed}, overlaps, 1, is_bottommost_for_range(1, {seed} \cup overlaps))
    /\ UNCHANGED <<mem, floors, pass, history, bounds>>

\* compact_level: the pass is over a snapshot of the level.
CompactLevelBegins(level) ==
    /\ Counted
    /\ ~pass.active /\ files_at(level) # {}
    /\ pass' = [level |-> level, left |-> {f.num : f \in files_at(level)}, active |-> TRUE]
    /\ UNCHANGED <<mem, files, floors, history, setup>>

\* One file of the pass: oldest first at L0, in key order elsewhere; gone if
\* a compaction took it meanwhile, skipped at the last level when nothing is
\* to be done about it: no tombstone, and, as may be, its compression and tier.
compact_level ==
    /\ pass.active /\ pass.left # {}
    /\ LET level == pass.level
           there == {f \in files_at(level) : f.num \in pass.left}
           n == IF level = 0 \/ there = {} THEN Min(pass.left) ELSE First(there).num
           bottom == level = Last
           target == IF bottom THEN level ELSE level + 1
       IN  /\ pass' = [pass EXCEPT !.left = @ \ {n}]
           /\ \/ /\ \A f \in there : f.num = n => bottom /\ num_tombstones(f) = 0
                 /\ UNCHANGED files
              \/ \E f \in there :
                     LET overlaps == IF bottom THEN {} ELSE OverlappingFiles(target, {f})
                     IN  /\ f.num = n
                         /\ run_compaction({f}, overlaps, target,
                                           is_bottommost_for_range(target, {f} \cup overlaps))
    /\ UNCHANGED <<mem, floors, history, bounds>>

CompactLevelEnds ==
    /\ pass.active /\ pass.left = {}
    /\ pass' = NoPass
    /\ UNCHANGED <<mem, files, floors, history, bounds>>

\* run_migration and run_reencryption: a byte copy under a fresh number,
\* never at L0.
Renumber ==
    /\ Counted
    /\ \E f \in files \ files_at(0) :
           files' = (files \ {f}) \cup {[f EXCEPT !.num = NextNumber]}
    /\ UNCHANGED <<mem, floors, pass, history, setup>>

-----------------------------------------------------------------------------
(* reclaim_dead_files: files unlinked whole, by one edit.                  *)

files_entirely_truncated == {f \in files : effective_largest(f) < floor}

OlderByPosition(f, g) == g.level > f.level \/ (g.level = f.level /\ g.num < f.num)

\* OlderByPosition(f, g): g is the older one.
older_file_overlaps(f) ==
    \E g \in files : OlderByPosition(f, g) /\ g.data # <<>> /\ largest_key(g) >= smallest_key(f)
                                           /\ smallest_key(g) <= largest_key(f)

files_expired_before ==
    {f \in files : f.newest <= expired /\ f.covered = {} /\ ~older_file_overlaps(f)}

\* range_drop_candidates: the newer files whose hull of ranges takes in all of f.
Covers(f) ==
    {c \in files : /\ OlderByPosition(c, f) /\ c.covered # {}
                   /\ smallest_range_key(c) <= smallest_key(f)
                   /\ largest_key(f) < largest_range_key(c)}

\* Only the first cover is asked, and one of its ranges must hold f's whole span.
CoveredByNewer ==
    {f \in files : /\ f.covered = {} /\ Covers(f) # {}
                   /\ smallest_key(f) .. largest_key(f) \subseteq First(Covers(f)).covered}

reclaim_dead_files ==
    LET dead == files_entirely_truncated \cup files_expired_before \cup CoveredByNewer
    IN  /\ dead # {}
        /\ files' = files \ dead
        /\ UNCHANGED <<mem, floors, pass, history, bounds>>

\* The clock passes the ttl of every write made so far.
TtlPasses ==
    /\ Counted
    /\ expired < writes
    /\ expired' = writes
    /\ UNCHANGED <<mem, files, floors, pass, writes, latest, setup>>

-----------------------------------------------------------------------------
(* truncate_below: the write floor is published under the memtable lock,   *)
(* the edit follows, and a failed edit takes the floor back.               *)

PublishNothing(t, k) ==
    /\ Counted
    /\ truncator[t] = Quiescent /\ writeFloor < k
    /\ truncator' = [truncator EXCEPT ![t] = [key |-> k, previous |-> writeFloor]]
    /\ UNCHANGED <<mem, files, floor, writeFloor, pass, history, setup>>

TruncatePublishes(t, k) ==
    /\ Counted
    /\ truncator[t] = Quiescent /\ writeFloor < k
    /\ truncator' = [truncator EXCEPT ![t] = [key |-> k, previous |-> writeFloor]]
    /\ writeFloor' = k
    /\ UNCHANGED <<mem, files, floor, pass, history, setup>>

\* Version::apply only ever moves the point forward.
TruncateApplies(t) ==
    /\ truncator[t] # Quiescent
    /\ floor' = Max({floor, truncator[t].key})
    /\ truncator' = [truncator EXCEPT ![t] = Quiescent]
    /\ UNCHANGED <<mem, files, writeFloor, pass, history, bounds>>

TruncateFails(t) ==
    /\ truncator[t] # Quiescent
    /\ writeFloor' = IF writeFloor = truncator[t].key THEN truncator[t].previous ELSE writeFloor
    /\ truncator' = [truncator EXCEPT ![t] = Quiescent]
    /\ UNCHANGED <<mem, files, floor, pass, history, bounds>>

-----------------------------------------------------------------------------
Init ==
    /\ mem = EmptyTable /\ files = {} /\ floor = NoKey /\ writeFloor = NoKey
    /\ truncator = [t \in Truncators |-> Quiescent]
    /\ pass = NoPass
    /\ writes = 0 /\ latest = [k \in Keys |-> Deleted] /\ expired = 0 /\ events = 0
    /\ setup \in Setups

Next ==
    \/ \E k \in setup.puts : put(k)
    \/ \E k \in setup.removes : remove(k)
    \/ \E r \in setup.ranges : delete_range(r[1], r[2])
    \/ flush_memtable
    \/ \E level \in 0 .. Last - 1 : run_one_compaction(level)
    \/ compact_l0_file_off_its_tier
    \/ \E level \in 0 .. Last : CompactLevelBegins(level)
    \/ compact_level \/ CompactLevelEnds
    \/ Renumber \/ reclaim_dead_files \/ TtlPasses
    \/ \E t \in Truncators : \/ \E k \in setup.floors : TruncatePublishes(t, k)
                            \/ TruncateApplies(t)
                            \/ TruncateFails(t)

Spec == Init /\ [][Next]_vars

-----------------------------------------------------------------------------
\* get returns the newest acknowledged write of every key above the
\* truncation point, whatever has been flushed, merged, moved, renumbered or
\* dropped since; a write past its ttl may be absent, never replaced by an
\* older one.
GetReturnsNewest ==
    \A k \in Keys : LET expected == IF k < floor THEN Deleted ELSE latest[k]
                    IN  get(k) = expected \/ (get(k) = Deleted /\ expected <= expired)

\* An iterator over any bounds yields what get returns: pruning by span and
\* the merge's shadowing agree with the point lookup.
ScanAgreesWithGet ==
    \A low \in Keys : \A high \in low + 1 .. KeyCount + 1 : \A k \in low .. high - 1 :
        ScanYields(low, high, k) = get(k)

\* The write floor never lags the truncation point, so a put that is accepted
\* is never below it: what it stores can be read back.
AcceptedIsReadable == floor <= writeFloor
=============================================================================
