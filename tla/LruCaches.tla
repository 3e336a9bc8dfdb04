----------------------------- MODULE LruCaches ------------------------------
(***************************************************************************)
(* The caches a database keeps by file number: ShardedLruBlockCache, whose *)
(* inserts settle with the budget after the shard is unlocked, and         *)
(* SstReaderCache, which asks the budget first.  Workers are the threads   *)
(* of the instance: reads, the shedding writer, and delete_obsolete.       *)
(*                                                                         *)
(* A block and a reader cost one byte each.                                *)
(***************************************************************************)
EXTENDS MemoryBudget, FiniteSets, FiniteSetsExt, Sequences, SequencesExt

CONSTANTS Blocks,         \* <<file, offset>> of the blocks that are read
          ShardOf,        \* the shard of each
          ShardCapacity,  \* shard_capacity_
          MaxReaders,     \* max_bytes_ of the reader cache; 0 is unbounded
          Workers

ASSUME LruCachesAssumption ==
    /\ DOMAIN ShardOf = Blocks /\ ShardCapacity \in Nat \ {0} /\ MaxReaders \in Nat

VARIABLES shards,   \* the lru list of each shard, newest first
          readers,  \* recency_ of the reader cache, newest first
          worker    \* where each worker is, and its locals

lruVars == <<shards, readers, worker>>

Files == {b[1] : b \in Blocks}
Shards == {ShardOf[b] : b \in Blocks}
Resting == [at |-> "idle"]

Rests(w) == worker[w].at = "idle"
Goes(w, locals) == worker' = [worker EXCEPT ![w] = locals]

Refreshed(list, x) == <<x>> \o Remove(list, x)

-----------------------------------------------------------------------------
(* ShardedLruBlockCache.                                                   *)

\* get on a resident block.
BlockGet(w, b) ==
    LET s == ShardOf[b]
    IN  /\ Rests(w) /\ Contains(shards[s], b) /\ Counted
        /\ shards' = [shards EXCEPT ![s] = Refreshed(@, b)]
        /\ UNCHANGED <<used, readers, worker>>

\* insert: the new block goes in and the cold end goes out under the lock;
\* the budget hears of both afterwards.
BlockInsert(w, b) ==
    LET s == ShardOf[b]
        list == Refreshed(shards[s], b)
        kept == SubSeq(list, 1, Min({Len(list), ShardCapacity}))
    IN  /\ Rests(w) /\ Counted
        /\ shards' = [shards EXCEPT ![s] = kept]
        /\ IF Contains(shards[s], b) THEN UNCHANGED worker
           ELSE Goes(w, [at |-> "acquire", released |-> Len(list) - Len(kept)])
        /\ UNCHANGED <<used, readers>>

Acquire(w) ==
    /\ worker[w].at = "acquire"
    /\ used' = Charged(used, 1)
    /\ Goes(w, [worker[w] EXCEPT !.at = "release"])
    /\ UNCHANGED <<shards, readers, quota>>

Release(w) ==
    /\ worker[w].at = "release"
    /\ used' = Released(used, worker[w].released)
    /\ Goes(w, Resting)
    /\ UNCHANGED <<shards, readers, quota>>

\* evict_file, one shard at a time; the shards that are left to visit.
EvictFile(w) ==
    LET e == worker[w]
    IN  /\ e.at = "evictFile"
        /\ IF e.left = {} THEN Goes(w, [at |-> "release", released |-> e.released]) /\ UNCHANGED shards
           ELSE LET s == Min(e.left)
                    kept == SelectSeq(shards[s], LAMBDA b : b[1] # e.file)
                IN  /\ shards' = [shards EXCEPT ![s] = kept]
                    /\ Goes(w, [e EXCEPT !.left = @ \ {s},
                                         !.released = @ + Len(shards[s]) - Len(kept)])
        /\ UNCHANGED <<used, readers, quota>>

\* evict_at_least: round robin, one block of each shard, until enough or
\* until a whole round finds nothing.
ShedBegins(w) ==
    /\ Rests(w) /\ used > Total /\ Counted
    /\ Goes(w, [at |-> "shed", wanted |-> used - Total, left |-> Shards, progress |-> FALSE,
                released |-> 0])
    /\ UNCHANGED <<used, shards, readers>>

EvictAtLeast(w) ==
    LET e == worker[w]
    IN  /\ e.at = "shed"
        /\ IF e.released >= e.wanted \/ (e.left = {} /\ ~e.progress)
           THEN Goes(w, [at |-> "release", released |-> e.released]) /\ UNCHANGED shards
           ELSE IF e.left = {}
           THEN Goes(w, [e EXCEPT !.left = Shards, !.progress = FALSE]) /\ UNCHANGED shards
           ELSE LET s == Min(e.left)
                IN  IF shards[s] = <<>>
                    THEN Goes(w, [e EXCEPT !.left = @ \ {s}]) /\ UNCHANGED shards
                    ELSE /\ shards' = [shards EXCEPT ![s] = Front(@)]
                         /\ Goes(w, [e EXCEPT !.left = @ \ {s}, !.progress = TRUE,
                                              !.released = @ + 1])
        /\ UNCHANGED <<used, readers, quota>>

-----------------------------------------------------------------------------
(* SstReaderCache.                                                         *)

\* reader_for: a resident reader, or an object to open.
ReaderGet(w, file) ==
    /\ Rests(w) /\ Counted
    /\ IF Contains(readers, file) THEN readers' = Refreshed(readers, file) /\ UNCHANGED worker
       ELSE Goes(w, [at |-> "opening", file |-> file]) /\ UNCHANGED readers
    /\ UNCHANGED <<used, shards>>

\* insert, all of it under the cache's lock: room first, then the budget,
\* which may decline; the reader is used either way.
ReaderInsert(w) ==
    LET file == worker[w].file
        kept == IF MaxReaders = 0 THEN readers
                ELSE SubSeq(readers, 1, Min({Len(readers), MaxReaders - 1}))
        freed == Released(used, Len(readers) - Len(kept))
    IN  /\ worker[w].at = "opening"
        /\ IF Contains(readers, file) THEN UNCHANGED <<readers, used>>
           ELSE IF Fits(freed, 1) THEN readers' = <<file>> \o kept /\ used' = Charged(freed, 1)
           ELSE readers' = kept /\ used' = freed
        /\ Goes(w, Resting)
        /\ UNCHANGED <<shards, quota>>

\* delete_obsolete: the reader is forgotten, then the blocks are evicted.
delete_obsolete(w, file) ==
    /\ Rests(w) /\ Counted
    /\ readers' = Remove(readers, file)
    /\ used' = IF Contains(readers, file) THEN Released(used, 1) ELSE used
    /\ Goes(w, [at |-> "evictFile", file |-> file, left |-> Shards, released |-> 0])
    /\ UNCHANGED shards

\* The instance closes; the budget outlives it.
CachesClose ==
    /\ \A w \in Workers : Rests(w)
    /\ Counted
    /\ used' = Released(used, Len(readers) + MapThenSumSet(LAMBDA s : Len(shards[s]), Shards))
    /\ readers' = <<>> /\ shards' = [s \in Shards |-> <<>>]
    /\ UNCHANGED worker

-----------------------------------------------------------------------------

LruInit ==
    /\ shards = [s \in Shards |-> <<>>]
    /\ readers = <<>>
    /\ worker = [w \in Workers |-> Resting]

LruNext ==
    /\ \/ \E w \in Workers :
             \/ \E b \in Blocks : BlockGet(w, b) \/ BlockInsert(w, b)
             \/ \E file \in Files : ReaderGet(w, file) \/ delete_obsolete(w, file)
             \/ ShedBegins(w) \/ EvictAtLeast(w) \/ EvictFile(w)
             \/ Acquire(w) \/ Release(w) \/ ReaderInsert(w)
       \/ CachesClose
    /\ UNCHANGED arenas

=============================================================================
