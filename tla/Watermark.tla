------------------------------ MODULE Watermark ------------------------------
(***************************************************************************)
(* The recovery position of an ElysiumKV store.                            *)
(*                                                                         *)
(* There is no write-ahead log: the embedder owns a durable log, applies   *)
(* it to the store entry by entry, and tells the store how far it got with *)
(* set_watermark.  Every file carries an interval of log positions.  After *)
(* a crash, or after the loss of a transient store, open derives from the  *)
(* intervals the position to resume after, and the embedder replays the    *)
(* rest of its log.                                                        *)
(*                                                                         *)
(* A stored entry is the log position it was written at; the log says      *)
(* which key it is for and whether it deletes it.  An optional position is *)
(* a set with at most one element, so {} is std::nullopt, and the floor,   *)
(* an optional of an optional, is {}, {{}} or {{p}}.                       *)
(***************************************************************************)
EXTENDS Naturals, Sequences, FiniteSets, FiniteSetsExt, Functions

CONSTANTS
  Key,             \* the user keys
  Tiers,           \* how many tiers, youngest data first, each on a store of its own
  TransientTiers,  \* how many of them, a prefix, may lose their contents
  FlushBeforeMark, \* TRUE: the embedder flushes before it declares the replay done
  MaxLog,          \* bound: entries of the embedder's log
  MaxFiles,        \* bound: files in the version
  MaxCrashes       \* bound: crashes of the process

\* The last tier is durable (resolve_tiers).
ASSUME TiersAssumption ==
  /\ Tiers \in Nat /\ TransientTiers \in Nat /\ TransientTiers < Tiers
  /\ MaxLog \in Nat

Store == 1 .. Tiers
Transient == 1 .. TransientTiers
Durable == Store \ Transient

VARIABLES
  log,         \* the embedder's log, durable, outside the store
  cursor,      \* the position the embedder has applied up to
  mem,         \* mem_, the live memtable
  imm,         \* imm_: no memtable, or the sealed one waiting for its flush
  files,       \* the version's files, newest data first
  floor,       \* the version's watermark_floor
  established, \* established_watermark_
  behind,      \* requires_recovery_
  discarded,   \* recovery_watermark_: the lower bounds of the files dropped at this open
  phase,       \* "down", "opening" or "open"
  lost,        \* transient stores whose objects are gone and not yet noticed
  crashes      \* crashes so far

embedder == <<log, cursor>>
memory == <<mem, imm, established, behind, discarded>>
manifest == <<files, floor>>
vars == <<log, cursor, mem, imm, files, floor, established, behind,
          discarded, phase, lost, crashes>>

-----------------------------------------------------------------------------
(* Optional positions and intervals. *)

Position == 0 .. MaxLog
Optional(S) == {{}} \cup {{x} : x \in S}

Least(S) == IF S = {} THEN {} ELSE {Min(S)}
Greatest(S) == IF S = {} THEN {} ELSE {Max(S)}

\* accumulate_min and accumulate_max over the present values of a family of optionals.
LeastPresent(F) == Least(UNION F)
GreatestPresent(F) == Greatest(UNION F)

\* The minimum of the lower bounds; an absent one absorbs.
LeastOrAbsent(F) == IF {} \in F THEN {} ELSE LeastPresent(F)

-----------------------------------------------------------------------------
(* What the store answers, and what the log says. *)

Memtable(writes, bounds) == [writes |-> writes, low |-> bounds, high |-> bounds]

\* One entry per key: the new write replaces an older one in the same memtable.
Put(table, position) ==
  {p \in table : log'[p].key # log'[position].key} \cup {position}

\* What is searched, newest data first; at most one sealed memtable waits for its flush.
Waiting(sealed) == IF sealed = {} THEN << >> ELSE <<CHOOSE table \in sealed : TRUE>>
Sources == <<mem>> \o Waiting(imm) \o files

\* The entry of the newest source of the sequence that has one for k, 0 for none.
NewestIn(sources, k) ==
  LET hits == {i \in DOMAIN sources : \E p \in sources[i].writes : log[p].key = k}
  IN IF hits = {} THEN 0
     ELSE CHOOSE p \in sources[Min(hits)].writes : log[p].key = k

Answer(position) == IF position = 0 THEN 0
                    ELSE IF log[position].del THEN 0 ELSE position

Get(k) == Answer(NewestIn(Sources, k))

Written(k) == {p \in DOMAIN log : log[p].key = k}
Applied(k) == Answer(IF Written(k) = {} THEN 0 ELSE Max(Written(k)))

-----------------------------------------------------------------------------
Init ==
  /\ log = << >> /\ cursor = 0
  /\ mem = Memtable({}, {}) /\ imm = {}
  /\ files = << >> /\ floor = {}
  /\ established = {}
  /\ behind = FALSE /\ discarded = {}
  /\ phase = "open" /\ lost = {} /\ crashes = 0

-----------------------------------------------------------------------------
(* The embedder and the memtables. *)

WriteAt(position) ==
  /\ cursor' = position
  /\ mem' = [mem EXCEPT !.writes = Put(@, position)]
  /\ UNCHANGED <<imm, files, floor, established, behind, discarded, phase, lost, crashes>>

\* A new entry at the end of the log, then the write.
ApplyNew(k, del) ==
  /\ phase = "open"
  /\ cursor = Len(log) /\ Len(log) < MaxLog
  /\ log' = Append(log, [key |-> k, del |-> del])
  /\ WriteAt(Len(log) + 1)

\* The embedder re-applies the entry after its cursor.
Replay ==
  /\ phase = "open"
  /\ cursor < Len(log)
  /\ log' = log
  /\ WriteAt(cursor + 1)

\* set_watermark(cursor): an empty memtable takes both bounds, any other only the upper one.
\* A position below the established one is refused.
SetWatermark ==
  /\ phase = "open"
  /\ \A e \in established : cursor >= e
  /\ established' = {cursor}
  /\ mem' = IF mem.writes = {} THEN Memtable({}, {cursor})
            ELSE [mem EXCEPT !.high = {cursor}]
  /\ UNCHANGED <<embedder, imm, manifest, behind, discarded, phase, lost, crashes>>

\* seal_memtable, once the slot for a sealed memtable is free.
Seal ==
  /\ phase = "open" /\ mem.writes # {} /\ imm = {}
  /\ imm' = {mem}
  /\ mem' = Memtable({}, established)
  /\ UNCHANGED <<embedder, manifest, established, behind, discarded, phase, lost, crashes>>

-----------------------------------------------------------------------------
(* Files: flush, compaction, migration.  Each is one manifest edit. *)

File(writes, low, high, store) == [writes |-> writes, low |-> low, high |-> high, store |-> store]

\* flush_memtable: the sealed memtable with its interval becomes the newest file, on the
\* store its age selects.
Flush(store) ==
  /\ phase = "open" /\ imm # {} /\ Len(files) < MaxFiles
  /\ \E sealed \in imm :
       files' = <<File(sealed.writes, sealed.low, sealed.high, store)>> \o files
  /\ imm' = {}
  /\ UNCHANGED <<embedder, mem, floor, established, behind, discarded, phase, lost, crashes>>

\* Mutant form: an input without a lower bound is skipped instead of absorbing.
MergedLowOfPresent(inputs) == LeastPresent({f.low : f \in Range(inputs)})

\* Compaction::watermark, the interval every output of a compaction gets.
MergedLow(inputs) == LeastOrAbsent({f.low : f \in Range(inputs)})
MergedHigh(inputs) == GreatestPresent({f.high : f \in Range(inputs)})

\* What the merge keeps: the newest entry of each key, and no tombstone at the bottom.
Merged(inputs, bottommost) ==
  {p \in {NewestIn(inputs, k) : k \in Key} \ {0} : ~(bottommost /\ log[p].del)}

\* write_compaction_outputs and the edit that installs them: the files i..j, adjacent in
\* recency, are replaced by their merge, cut at most once, at a key: `left` goes to the first
\* output and the rest to the second.  The second is placed later, so on no younger tier.
\* An output without entries is not written.
Compact(i, j) ==
  LET inputs == SubSeq(files, i, j)
      kept == Merged(inputs, j = Len(files))
      low == MergedLow(inputs)
      high == MergedHigh(inputs)
      Outputs(slice, store) == IF slice = {} THEN << >> ELSE <<File(slice, low, high, store)>>
      newer == SubSeq(files, 1, i - 1)
      older == SubSeq(files, j + 1, Len(files))
  IN /\ phase = "open"
     /\ \E left \in SUBSET kept, first \in Store :
          /\ left = kept => kept = {}
          /\ \E second \in IF left = {} THEN {first} ELSE first .. Tiers :
               files' = newer \o Outputs(left, first) \o Outputs(kept \ left, second) \o older
     /\ Len(files') <= MaxFiles
     /\ UNCHANGED <<embedder, memory, floor, phase, lost, crashes>>

\* run_migration: the file's bytes move to an older tier, its interval with them.
Migrate(i, store) ==
  /\ phase = "open" /\ store > files[i].store
  /\ files' = [files EXCEPT ![i].store = store]
  /\ UNCHANGED <<embedder, memory, floor, phase, lost, crashes>>

-----------------------------------------------------------------------------
(* Crash, loss and open. *)

\* The process dies: everything in memory is gone, opening or open.
Crash ==
  /\ phase # "down" /\ crashes < MaxCrashes
  /\ crashes' = crashes + 1
  /\ phase' = "down"
  /\ mem' = Memtable({}, {}) /\ imm' = {} /\ established' = {}
  /\ behind' = FALSE /\ discarded' = {}
  /\ cursor' = 0
  /\ UNCHANGED <<log, manifest, lost>>

\* While the process is down a transient store loses objects of the version.
Lose(store) ==
  /\ phase = "down" /\ store \notin lost
  /\ \E f \in Range(files) : f.store = store
  /\ lost' = lost \cup {store}
  /\ UNCHANGED <<embedder, memory, manifest, phase, crashes>>

\* DB::open has replayed the manifest and listed the stores.
BeginOpen ==
  /\ phase = "down"
  /\ phase' = "opening"
  /\ UNCHANGED <<embedder, memory, manifest, lost, crashes>>

\* The ascending enumeration of a set of indices.
Ascending(S) ==
  {order \in [1 .. Cardinality(S) -> S] :
     /\ Range(order) = S
     /\ \A m, n \in DOMAIN order : m < n => order[m] < order[n]}

\* WatermarkFloor::lower_to on the floor in force, or on the bound itself.
LoweredFloor(bound) ==
  IF floor = {} THEN {bound} ELSE {LeastOrAbsent({bound} \cup floor)}

\* One round of verify_stores_and_discard: a store with a missing file loses all its files, in
\* the edit that records what the loss left certifiable.
Discard(store) ==
  LET dropped == {f \in Range(files) : f.store = store}
  IN /\ phase = "opening" /\ store \in lost
     /\ discarded' = discarded \cup {f.low : f \in dropped}
     /\ \E order \in Ascending({i \in DOMAIN files : files[i].store # store}) :
          files' = [n \in DOMAIN order |-> files[order[n]]]
     /\ floor' = LoweredFloor(LeastOrAbsent(discarded'))
     /\ behind' = TRUE
     /\ lost' = lost \ {store}
     /\ UNCHANGED <<embedder, mem, imm, established, phase, crashes>>

\* RecoveryWatermark::resume_after: what was lost decides, max(high) only when nothing was.
ResumeAfter == IF discarded # {} THEN LeastOrAbsent(discarded)
               ELSE GreatestPresent({f.high : f \in Range(files)})

\* Mutant form: a loss recorded by an earlier open is not consulted.
BoundByNothing(position) == position

\* The floor an earlier open recorded still binds this one.
BoundByFloor(position) ==
  IF floor = {} THEN position
  ELSE IF {} \in floor THEN {} ELSE LeastPresent({position} \cup floor)

\* adopt_recovered_watermark, after which the embedder resumes strictly after the recovered
\* position: its cursor.  The bounds of the dropped files are not read again.
Adopt ==
  LET position == BoundByFloor(ResumeAfter)
  IN /\ phase = "opening" /\ lost = {}
     /\ established' = position
     /\ mem' = Memtable({}, position)
     /\ cursor' = IF position = {} THEN 0 ELSE Max(position)
     /\ discarded' = {}
     /\ phase' = "open"
     /\ UNCHANGED <<log, imm, manifest, behind, lost, crashes>>

\* mark_recovery_complete, called by an embedder that has replayed its whole log.
MarkRecoveryComplete ==
  /\ phase = "open" /\ (behind \/ floor # {})
  /\ cursor = Len(log)
  /\ FlushBeforeMark => mem.writes = {} /\ imm = {}
  /\ behind' = FALSE
  /\ floor' = {}
  /\ UNCHANGED <<embedder, mem, imm, files, established, discarded, phase, lost, crashes>>

\* The gauge Stats::durable_watermark as stats() computes it.
DurableWatermark ==
  LET exposed == {f \in Range(files) : f.store \in Transient}
  IN IF exposed = {} THEN GreatestPresent({f.high : f \in Range(files)})
     ELSE LeastOrAbsent({f.low : f \in exposed})

-----------------------------------------------------------------------------
Next ==
  \/ \E k \in Key, del \in BOOLEAN : ApplyNew(k, del)
  \/ Replay
  \/ SetWatermark
  \/ Seal
  \/ \E store \in Store : Flush(store)
  \/ \E i \in DOMAIN files : \E j \in i .. Len(files) : Compact(i, j)
  \/ \E i \in DOMAIN files, store \in Store : Migrate(i, store)
  \/ Crash
  \/ \E store \in Transient : Lose(store)
  \/ BeginOpen
  \/ \E store \in Transient : Discard(store)
  \/ Adopt
  \/ MarkRecoveryComplete

Spec == Init /\ [][Next]_vars

-----------------------------------------------------------------------------
(* Properties. *)

MemtableType == [writes : SUBSET (1 .. MaxLog), low : Optional(Position), high : Optional(Position)]
FileType == [writes : SUBSET (1 .. MaxLog), low : Optional(Position),
             high : Optional(Position), store : Store]

\* Type invariant of the embedder's state, the memtables, the version and the open.
TypeOK ==
  /\ log \in Seq([key : Key, del : BOOLEAN]) /\ Len(log) <= MaxLog
  /\ cursor \in 0 .. Len(log)
  /\ mem \in MemtableType /\ imm \subseteq MemtableType /\ Cardinality(imm) <= 1
  /\ files \in Seq(FileType) /\ Len(files) <= MaxFiles
  /\ floor \in Optional(Optional(Position))
  /\ established \in Optional(Position)
  /\ behind \in BOOLEAN /\ discarded \subseteq Optional(Position)
  /\ phase \in {"down", "opening", "open"} /\ lost \subseteq Transient
  /\ crashes \in 0 .. MaxCrashes

\* The premise under which the next two hold at every size.  A compaction that keeps nothing
\* writes no file, so the intervals of its inputs are gone; with a loss recorded and no high left,
\* open falls back on the floor, but an interrupted replay that had resumed below it may have
\* undone what the floor stands for.  IntervalKept says of a step that it is not such a
\* compaction.
Highs == UNION {f.high : f \in Range(files)}
IntervalKept == phase = "open" /\ floor # {} /\ Highs # {} => Highs' # {}

\* State equivalence (ARCHITECTURE.md, "The watermark is an interval"): replaying only what
\* follows the recovered position restores the whole state.  Whenever the store is open, a key
\* that has no log entry beyond the embedder's cursor reads as the whole log says, through any
\* sequence of crashes, losses, compactions and migrations.
ReplayRestores ==
  phase = "open" =>
    \A k \in Key : (\A p \in Written(k) : p <= cursor) => Get(k) = Applied(k)

\* What survives the loss of every transient store: of the other files, nothing.
Kept == [i \in DOMAIN files |-> IF files[i].store \in Durable THEN files[i]
                                ELSE [files[i] EXCEPT !.writes = {}]]

\* While no loss is recorded, the gauge is a position whose state survives losing every
\* transient tier (stats.hpp, durable_watermark): a key with no entry beyond it reads from the
\* durable files alone as the whole log says.
GaugeSurvives ==
  floor = {} /\ lost = {} =>
    \A m \in DurableWatermark, k \in Key :
      (\A p \in Written(k) : p <= m) => Answer(NewestIn(Kept, k)) = Applied(k)

\* A recorded loss is never raised: the floor only ever goes down, and is removed only by
\* mark_recovery_complete, once the whole log has been applied (FORMAT.md, watermark floor).
FloorNeverRaised ==
  [][floor # {} =>
       \/ floor' = {} /\ cursor = Len(log) /\ ~behind'
       \/ \E old \in floor, new \in floor' :
            new = {} \/ \E n \in new : \E o \in old : n <= o]_vars

\* Status::RecoveryRequired (status.hpp): reads are refused until the embedder replays the gap
\* and calls mark_recovery_complete, so an open store with a recorded loss refuses them.
ReadsRefusedInGap == phase = "open" /\ floor # {} => behind
=============================================================================
