----------------------------- MODULE RangeCache -----------------------------
(***************************************************************************)
(* MemoryCacheBlobStore and DiskCacheBlobStore: RangeCacheCore, the index  *)
(* of cached ranges both keep, over a payload in memory or in files;       *)
(* SingleFlight, which lets one thread fetch what several miss; and the    *)
(* put, get and remove that keep the index true of the store below.        *)
(*                                                                         *)
(* An object of the store below is its size: it is written once and never  *)
(* changes.  Bytes are named by where they start and how many they are, so *)
(* a wrong skip or length shows.  One shard is modelled; objects meet only *)
(* inside theirs.                                                          *)
(***************************************************************************)
EXTENDS MemoryBudget, FiniteSets, FiniteSetsExt, Sequences, SequencesExt

CONSTANTS Names,          \* objects, numbered
          Size,           \* bytes of each
          Written,        \* the objects the store below holds at first
          Threads,        \* threads that call the store
          Reads,          \* <<name, offset, len>> of the gets
          MaxBytes,       \* max_cache_bytes
          Options         \* setups: disk or memory, fetch_granularity, cache_on_write,
                          \* the parts that are called and the number of calls

NoName == 0

ASSUME RangeCacheAssumption ==
    /\ Names \subseteq Nat \ {NoName} /\ Size \in [Names -> Nat] /\ Written \subseteq Names
    /\ Reads \subseteq Names \X Nat \X Nat
    /\ \A o \in Options : o.disk \in BOOLEAN /\ o.granularity \in Nat /\ o.onWrite \in BOOLEAN
                         /\ o.parts \subseteq {"range", "lru", "window"} /\ o.calls \in Nat
    /\ MaxBytes \in Nat

VARIABLES
    options,   \* the member of Options the store was built with
    below,     \* the delegate's object: "absent", "present" or "removed"
    index,     \* objects_: per name the ranges recorded and their bytes
    recency,   \* recency_, newest first
    cached,    \* cached_bytes_
    payload,   \* per name the stored ranges: entries, or the files
    caller,    \* where each thread is, and its locals
    calls,     \* calls_: key -> the thread that leads
    served     \* the answer the last step returned, or NoAnswer

cacheVars == <<index, recency, cached, payload, used>>
rangeVars == <<options, below, index, recency, cached, payload, caller, calls>>

kReadToEnd == 1000
NoAnswer == [name |-> NoName]
Idle == [at |-> "idle"]
NotCached == [ranges |-> {}, bytes |-> 0]

-----------------------------------------------------------------------------
(* Bytes of an object.                                                     *)

Bytes(start, size) == [status |-> "Ok", start |-> IF size = 0 THEN 0 ELSE start, size |-> size]
Failure(status) == [status |-> status]

Least(a, b) == IF a < b THEN a ELSE b
Minus(a, b) == IF a < b THEN 0 ELSE a - b

\* What the store below returns: clipped at the end of the object.
Content(name, offset, len) == Bytes(offset, Least(len, Minus(Size[name], offset)))

plan_fetch(offset, len, granularity) ==
    IF granularity = 0 THEN [offset |-> offset, len |-> len]
    ELSE LET aligned == offset - (offset % granularity)
             end == offset + len
             rounded == IF end % granularity = 0 THEN end ELSE end + granularity - (end % granularity)
         IN  [offset |-> aligned, len |-> IF len = kReadToEnd THEN len ELSE rounded - aligned]

\* The window of what was fetched that the caller asked for.
Cut(fetched, plan, offset, len) ==
    LET skip == offset - plan.offset
    IN  Bytes(fetched.start + skip, Least(len, Minus(fetched.size, skip)))

-----------------------------------------------------------------------------
(* RangeCacheCore, as functions of its state.                              *)

core == [index |-> index, recency |-> recency, cached |-> cached, payload |-> payload, used |-> used]

Becomes(c) ==
    /\ index' = c.index /\ recency' = c.recency /\ cached' = c.cached
    /\ payload' = c.payload /\ used' = c.used

SumSizes(ranges) == MapThenSumSet(LAMBDA r : r.size, ranges)

\* A payload's drop; only memory is charged to the budget.
DropPayload(c, name) ==
    [c EXCEPT !.payload[name] = {},
              !.used = IF options.disk THEN @ ELSE Released(@, SumSizes(c.payload[name]))]

drop_object(c, name) ==
    IF ~Contains(c.recency, name) THEN c
    ELSE DropPayload([c EXCEPT !.cached = @ - c.index[name].bytes,
                               !.recency = Remove(@, name),
                               !.index[name] = NotCached], name)

touch(c, name) == [c EXCEPT !.recency = <<name>> \o Remove(@, name)]

AnswersClipped(range, offset, len) ==
    range.offset <= offset /\ (range.toEnd \/ offset - range.offset < range.size)

\* Whether a recorded range answers a read: wholly inside it, or past an end
\* that is the object's.
Answers(range, offset, len) ==
    LET skip == offset - range.offset
    IN  /\ range.offset <= offset
        /\ range.toEnd \/ (len # kReadToEnd /\ skip + len <= range.size)

\* Payload::load: the bytes stored at the range's offset, from skip on.
Loaded(name, range, offset, len) ==
    LET stored == CHOOSE r \in payload[name] : r.offset = range.offset
        skip == offset - range.offset
        wanted == Least(len, Minus(range.size, skip))
    IN  Bytes(stored.offset + skip, Least(wanted, Minus(stored.size, skip)))

\* Evicts from the cold end, never the object being added to, until there is
\* room or nothing is left to evict.
make_room(c, wanted, keep) ==
    LET victims == Reverse(SelectSeq(c.recency, LAMBDA n : n # keep))
        After[k \in 0 .. Len(victims)] == IF k = 0 THEN c ELSE drop_object(After[k - 1], victims[k])
        enough == {k \in DOMAIN After : After[k].cached + wanted <= MaxBytes}
    IN  After[IF enough = {} THEN Len(victims) ELSE Min(enough)]

StoreForgetsReplaced(c, name, range) ==
    [c EXCEPT !.payload[name] = {r \in @ : r.offset # range.offset} \cup {range},
              !.used = IF options.disk THEN @ ELSE Charged(@, range.size)]

\* Payload::store: memory is charged before what it replaces is released.
store(c, name, range) ==
    LET replaced == {r \in c.payload[name] : r.offset = range.offset}
    IN  [c EXCEPT !.payload[name] = (@ \ replaced) \cup {range},
                  !.used = IF options.disk THEN @
                           ELSE Released(Charged(@, range.size), SumSizes(replaced))]

\* insert; stored is whether a file could be written.
insert(c, name, range, stored) ==
    LET roomy == make_room(c, range.size, name)
        kept == store(roomy, name, [offset |-> range.offset, size |-> range.size])
        same == {r \in kept.index[name].ranges : r.offset = range.offset}
        grown == range.size - SumSizes(same)
    IN  IF range.size > MaxBytes THEN c
        ELSE IF \/ roomy.cached + range.size > MaxBytes
                \/ IF options.disk THEN ~stored ELSE ~Fits(roomy.used, range.size)
        THEN roomy
        ELSE touch([kept EXCEPT !.index[name].ranges = (@ \ same) \cup {range},
                                !.index[name].bytes = @ + grown,
                                !.cached = @ + grown], name)

\* Payload::drop is called even for a name that is not recorded.
invalidate(c, name) == DropPayload(drop_object(c, name), name)

-----------------------------------------------------------------------------
(* get.                                                                    *)

At(t, where) == caller[t].at = where
Move(t, locals) == caller' = [caller EXCEPT ![t] = locals]

\* A call returns.  An answer is what was asked for and what was got.
Answered(t, got) ==
    /\ Move(t, Idle)
    /\ served' = [name |-> caller[t].name, offset |-> caller[t].offset, len |-> caller[t].len,
                  got |-> got]

Silent == served' = NoAnswer

\* Objects are read once a version names them, which is after their put.
GetBegins(t) ==
    /\ At(t, "idle") /\ Counted
    /\ \E r \in Reads :
           /\ below[r[1]] # "absent"
           /\ Move(t, [at |-> "lookup", name |-> r[1], offset |-> r[2], len |-> r[3]])
    /\ Silent /\ UNCHANGED <<options, below, cacheVars, calls>>

\* serve_get up to the miss.  A payload that is gone takes its object's
\* record with it.
lookup(t) ==
    LET g == caller[t]
        answering == {r \in index[g.name].ranges : Answers(r, g.offset, g.len)}
        lost == {r \in answering : \A s \in payload[g.name] : s.offset # r.offset}
    IN  /\ At(t, "lookup")
        /\ \/ \E r \in answering \ lost :
                 /\ Becomes(touch(core, g.name))
                 /\ Answered(t, Loaded(g.name, r, g.offset, g.len))
           \/ /\ IF lost = {} THEN answering = {} /\ UNCHANGED cacheVars
                 ELSE Becomes(drop_object(core, g.name))
              /\ Move(t, [g EXCEPT !.at = "missed"]) /\ Silent
        /\ UNCHANGED <<options, below, calls, quota>>

Plan(g) == plan_fetch(g.offset, g.len, options.granularity)
Key(g) == <<g.name, Plan(g)>>

\* SingleFlight::run: the first thread leads; the others wait for its result,
\* or take it when it is there already.
Join(t) ==
    LET g == caller[t]
    IN  /\ At(t, "missed")
        /\ IF Key(g) \notin DOMAIN calls
           THEN /\ calls' = [k \in DOMAIN calls \cup {Key(g)} |-> IF k = Key(g) THEN t ELSE calls[k]]
                /\ Move(t, [g EXCEPT !.at = "fetch"])
           ELSE LET leader == caller[calls[Key(g)]]
                IN  /\ Move(t, IF leader.at = "erase"
                               THEN [at |-> "woken", name |-> g.name, offset |-> g.offset,
                                     len |-> g.len, result |-> leader.result]
                               ELSE [g EXCEPT !.at = "waiting"])
                    /\ UNCHANGED calls
        /\ Silent /\ UNCHANGED <<options, below, cacheVars, quota>>

\* The leader's read of the store below, which may also fail or throw.
Fetch(t) ==
    LET g == caller[t]
        Fetched(at, result) == [at |-> at, name |-> g.name, offset |-> g.offset, len |-> g.len,
                                result |-> result]
    IN  /\ At(t, "fetch")
        /\ Move(t, IF below[g.name] = "present"
                   THEN Fetched("insert", Content(g.name, Plan(g).offset, Plan(g).len))
                   ELSE Fetched("complete", Failure("NotFound")))
        /\ Silent /\ UNCHANGED <<options, below, cacheVars, calls, quota>>

FetchFails(t) ==
    /\ At(t, "fetch") /\ Counted
    /\ Move(t, [at |-> "complete", name |-> caller[t].name, offset |-> caller[t].offset,
                len |-> caller[t].len, result |-> Failure("Io")])
    /\ Silent /\ UNCHANGED <<options, below, cacheVars, calls>>

\* Where the leader records what it read; short of the plan is to the end.
ToEnd(plan, result) == plan.len = kReadToEnd \/ result.size < plan.len

InsertFetched(t) ==
    LET g == caller[t]
        range == [offset |-> Plan(g).offset, size |-> g.result.size, toEnd |-> ToEnd(Plan(g), g.result)]
    IN  /\ At(t, "insert")
        /\ \E stored \in BOOLEAN : Becomes(insert(core, g.name, range, stored))
        /\ Move(t, [g EXCEPT !.at = "complete"])
        /\ Silent /\ UNCHANGED <<options, below, calls, quota>>

Follows(u, t) == At(u, "waiting") /\ calls[Key(caller[u])] = t

CompleteOnSuccessOnly(t) ==
    /\ At(t, "complete")
    /\ caller' = [u \in Threads |->
                     IF u = t THEN [caller[t] EXCEPT !.at = "erase"]
                     ELSE IF Follows(u, t) /\ caller[t].result.status # "Io"
                     THEN [at |-> "woken", name |-> caller[u].name, offset |-> caller[u].offset,
                           len |-> caller[u].len, result |-> caller[t].result]
                     ELSE caller[u]]
    /\ Silent /\ UNCHANGED <<options, below, cacheVars, calls, quota>>

\* The destructor of Completion, on every way out of the fetch: the result is
\* published and the followers woken, then the key erased.
Complete(t) ==
    /\ At(t, "complete")
    /\ caller' = [u \in Threads |->
                     IF u = t THEN [caller[t] EXCEPT !.at = "erase"]
                     ELSE IF Follows(u, t)
                     THEN [at |-> "woken", name |-> caller[u].name, offset |-> caller[u].offset,
                           len |-> caller[u].len, result |-> caller[t].result]
                     ELSE caller[u]]
    /\ Silent /\ UNCHANGED <<options, below, cacheVars, calls, quota>>

Returns(t) ==
    LET g == caller[t]
    IN  /\ g.at \in {"erase", "woken"}
        /\ Answered(t, IF g.result.status # "Ok" THEN g.result
                       ELSE Cut(g.result, Plan(g), g.offset, g.len))
        /\ calls' = IF At(t, "erase") THEN [k \in DOMAIN calls \ {Key(g)} |-> calls[k]] ELSE calls
        /\ UNCHANGED <<options, below, cacheVars, quota>>

-----------------------------------------------------------------------------
(* put and remove.                                                         *)

\* The store below first: a failed put caches nothing.
PutBelow(t) ==
    /\ At(t, "idle") /\ Counted
    /\ \E name \in Names :
           /\ below[name] = "absent"
           /\ below' = [below EXCEPT ![name] = "present"]
           /\ Move(t, IF options.onWrite THEN [at |-> "cacheWritten", name |-> name] ELSE Idle)
    /\ Silent /\ UNCHANGED <<options, cacheVars, calls>>

CacheWritten(t) ==
    LET name == caller[t].name
    IN  /\ At(t, "cacheWritten")
        /\ \E stored \in BOOLEAN :
               Becomes(insert(core, name, [offset |-> 0, size |-> Size[name], toEnd |-> TRUE], stored))
        /\ Move(t, Idle)
        /\ Silent /\ UNCHANGED <<options, below, calls, quota>>

\* remove and remove_many: the record goes before the object does.
remove(t) ==
    /\ At(t, "idle") /\ Counted
    /\ \E name \in Names :
           /\ below[name] = "present"
           /\ Becomes(invalidate(core, name))
           /\ Move(t, [at |-> "removing", name |-> name])
    /\ Silent /\ UNCHANGED <<options, below, calls>>

RemoveBelow(t) ==
    /\ At(t, "removing")
    /\ below' = [below EXCEPT ![caller[t].name] = "removed"]
    /\ Move(t, Idle)
    /\ Silent /\ UNCHANGED <<options, cacheVars, calls, quota>>

\* The cache directory is cleared while the store is open.
FilesVanish(name) ==
    /\ options.disk /\ payload[name] # {} /\ Counted
    /\ payload' = [payload EXCEPT ![name] = {}]
    /\ Silent /\ UNCHANGED <<options, below, index, recency, cached, used, caller, calls>>

\* The store is closed and built again, by a process that outlives it: memory
\* is given back to the budget, and the directory is emptied.
StoreReopens ==
    /\ \A t \in Threads : At(t, "idle")
    /\ recency # <<>> /\ Counted
    /\ Becomes([index |-> [name \in Names |-> NotCached], recency |-> <<>>, cached |-> 0,
                payload |-> [name \in Names |-> {}],
                used |-> IF options.disk THEN used
                         ELSE Released(used, MapThenSumSet(LAMBDA n : SumSizes(payload[n]), Names))])
    /\ Silent /\ UNCHANGED <<options, below, caller, calls>>

-----------------------------------------------------------------------------

RangeInit ==
    /\ options \in Options
    /\ below = [name \in Names |-> IF name \in Written THEN "present" ELSE "absent"]
    /\ index = [name \in Names |-> NotCached]
    /\ recency = <<>> /\ cached = 0
    /\ payload = [name \in Names |-> {}]
    /\ caller = [t \in Threads |-> Idle]
    /\ calls = <<>> /\ served = NoAnswer

RangeNext ==
    /\ \/ \E t \in Threads :
             \/ GetBegins(t) \/ lookup(t) \/ Join(t) \/ Fetch(t) \/ FetchFails(t)
             \/ InsertFetched(t) \/ Complete(t) \/ Returns(t)
             \/ PutBelow(t) \/ CacheWritten(t) \/ remove(t) \/ RemoveBelow(t)
       \/ \E name \in Names : FilesVanish(name)
       \/ StoreReopens
    /\ UNCHANGED arenas

=============================================================================
