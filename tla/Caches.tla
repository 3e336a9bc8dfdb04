------------------------------- MODULE Caches -------------------------------
(***************************************************************************)
(* The caches of a process over one memory budget: the caching blob        *)
(* stores, the block and reader caches of a database, the windows of its   *)
(* compactions and the arenas of its memtables.                            *)
(***************************************************************************)
EXTENDS WindowedRead, LruCaches

vars == <<rangeVars, served, lruVars, window, used, arenas, quota>>

Init ==
    /\ RangeInit /\ LruInit /\ WindowInit
    /\ used = 0 /\ arenas = 0 /\ quota = options.calls

Next ==
    \/ "range" \in options.parts /\ RangeNext /\ UNCHANGED <<lruVars, window>>
    \/ "lru" \in options.parts /\ LruNext /\ Silent /\ UNCHANGED <<rangeVars, window>>
    \/ "window" \in options.parts /\ WindowNext /\ UNCHANGED lruVars
    \/ (ArenaGrows \/ ArenaFreed) /\ Silent /\ UNCHANGED <<rangeVars, lruVars, window>>

Spec == Init /\ [][Next]_vars

\* Releases a worker owes the budget, less the acquisition it owes.
Unreported(w) ==
    CASE worker[w].at = "acquire" -> worker[w].released - 1
      [] worker[w].at \in {"release", "evictFile", "shed"} -> worker[w].released
      [] OTHER -> 0

-----------------------------------------------------------------------------
(* Properties.                                                             *)

\* Whatever a cache or a window answers is what the store below holds for
\* that range, clipped at the object's end; not finding the object is an
\* answer only once it is being removed.  What verify_cache_hit compares.
ServedIsExact ==
    served # NoAnswer =>
        CASE served.got.status = "Ok" -> served.got = Content(served.name, served.offset, served.len)
          [] served.got.status = "NotFound" -> below[served.name] = "removed"
          [] OTHER -> served.got.status = "Io"

\* The budget's count is what is held: the arenas, the ranges in memory, the
\* resident blocks and readers and the open window, apart from what a block
\* cache that has unlocked its shard still has to report.  And the range
\* cache's own counters are the sizes of the ranges it records, within
\* max_cache_bytes.  Nothing leaks on replacement, eviction, decline or close.
BudgetBalances ==
    LET ranges == IF options.disk THEN 0 ELSE MapThenSumSet(LAMBDA n : SumSizes(payload[n]), Names)
        blocks == MapThenSumSet(LAMBDA s : Len(shards[s]), Shards)
        unreported == MapThenSumSet(Unreported, Workers)
        windows == IF window.open THEN 2 * WindowBytes ELSE 0
    IN  /\ used = (arenas + ranges + blocks + Len(readers) + windows + unreported) % Width
        /\ cached = MapThenSumSet(LAMBDA n : index[n].bytes, Names) /\ cached <= MaxBytes
        /\ \A n \in Names : index[n].bytes = SumSizes(index[n].ranges)

\* A thread that waits for another's fetch waits for one that is still to
\* complete: its key is led, by a thread that has yet to wake it.  So no get
\* waits for ever, whichever way the fetch it joined went.
WaitersAreLed ==
    \A t \in Threads :
        At(t, "waiting") =>
            /\ Key(caller[t]) \in DOMAIN calls
            /\ LET leader == caller[calls[Key(caller[t])]]
               IN  leader.at \in {"fetch", "insert", "complete"} /\ Key(leader) = Key(caller[t])

=============================================================================
