------------------------- MODULE SingleFlightProofs -------------------------
(***************************************************************************)
(* SingleFlight::run, for any number of threads, objects and reads: a      *)
(* thread that waits is always led.                                        *)
(***************************************************************************)
EXTENDS Caches, TLAPS

Asking == {"lookup", "missed", "fetch", "waiting"}
Holding == {"insert", "complete", "erase", "woken"}
Leading == {"fetch", "insert", "complete", "erase"}

\* A get keeps what it asked for until it returns.
Asked ==
    /\ DOMAIN caller = Threads
    /\ \A t \in Threads :
           /\ caller[t].at \in Asking => DOMAIN caller[t] = {"at", "name", "offset", "len"}
           /\ caller[t].at \in Holding => DOMAIN caller[t] = {"at", "name", "offset", "len", "result"}

\* A key in calls_ is led by a thread that fetches it, from the insert of the
\* key to its erasure, and a thread that fetches has its key there.
Led ==
    /\ \A k \in DOMAIN calls : /\ calls[k] \in Threads
                               /\ caller[calls[k]].at \in Leading
                               /\ Key(caller[calls[k]]) = k
    /\ \A t \in Threads : caller[t].at \in Leading =>
           Key(caller[t]) \in DOMAIN calls /\ calls[Key(caller[t])] = t

\* The leader of a key whose result is published has woken all who wait.
Awaited ==
    \A t \in Threads : caller[t].at = "waiting" =>
        /\ Key(caller[t]) \in DOMAIN calls
        /\ caller[calls[Key(caller[t])]].at # "erase"

Inv == Asked /\ Led /\ Awaited

-----------------------------------------------------------------------------
\* Only what a get asked for, and the granularity, make its key.
LEMMA KeyKept ==
    ASSUME UNCHANGED options, NEW t \in Threads, caller'[t].name = caller[t].name,
           caller'[t].offset = caller[t].offset, caller'[t].len = caller[t].len
    PROVE  Key(caller[t])' = Key(caller[t])
  BY DEF Key, Plan

LEMMA KeyAlike ==
    ASSUME UNCHANGED options, NEW t \in Threads, caller'[t] = caller[t]
    PROVE  Key(caller[t])' = Key(caller[t])
  BY KeyKept

\* A step that touches neither calls_ nor any caller.
LEMMA Still == ASSUME Inv, UNCHANGED <<options, caller, calls>> PROVE Inv'
<1>1. \A t \in Threads : Key(caller[t])' = Key(caller[t])
  BY KeyAlike
<1>2. Asked' /\ Awaited'
  BY <1>1 DEF Inv, Asked, Awaited
<1>3. Led'
  BY <1>1 DEF Inv, Led
<1> QED BY <1>2, <1>3 DEF Inv

\* What Move does to the callers.
LEMMA MoveEffect ==
    ASSUME Asked, NEW t \in Threads, NEW locals, Move(t, locals)
    PROVE  /\ DOMAIN caller' = Threads /\ caller'[t] = locals
           /\ \A u \in Threads \ {t} : caller'[u] = caller[u]
  BY DEF Asked, Move

\* A thread that neither leads nor waits moves to where it does neither.
LEMMA AsideStep ==
    ASSUME Inv, UNCHANGED <<options, calls>>, Asked', NEW t \in Threads,
           \A u \in Threads \ {t} : caller'[u] = caller[u],
           caller[t].at \notin Leading, caller'[t].at \notin Leading \cup {"waiting"}
    PROVE  Inv'
<1>1. \A u \in Threads \ {t} : Key(caller[u])' = Key(caller[u])
  BY KeyAlike
<1>2. \A k \in DOMAIN calls : calls[k] \in Threads \ {t}
  BY DEF Inv, Led
<1>3. Led'
  BY <1>1, <1>2 DEF Inv, Led
<1>4. Awaited'
  <2> SUFFICES ASSUME NEW u \in Threads, caller'[u].at = "waiting"
               PROVE  Key(caller[u])' \in DOMAIN calls' /\ caller'[calls'[Key(caller[u])']].at # "erase"
    BY DEF Awaited
  <2>1. u # t
    OBVIOUS
  <2>2. Key(caller[u])' = Key(caller[u]) /\ caller[u].at = "waiting"
    BY <1>1, <2>1
  <2> QED BY <1>2, <2>2 DEF Inv, Awaited
<1> QED BY <1>3, <1>4 DEF Inv

\* A leader goes on to a place where it still leads and has yet to wake the
\* others.
LEMMA LeaderStep ==
    ASSUME Inv, UNCHANGED <<options, calls>>, Asked', NEW t \in Threads,
           \A u \in Threads \ {t} : caller'[u] = caller[u],
           caller[t].at \in Leading, caller'[t].at \in Leading \ {"erase"},
           Key(caller[t])' = Key(caller[t])
    PROVE  Inv'
<1>1. \A u \in Threads : Key(caller[u])' = Key(caller[u])
  BY KeyAlike
<1>2. Led'
  BY <1>1 DEF Inv, Led
<1>3. Awaited'
  <2> SUFFICES ASSUME NEW u \in Threads, caller'[u].at = "waiting"
               PROVE  Key(caller[u])' \in DOMAIN calls' /\ caller'[calls'[Key(caller[u])']].at # "erase"
    BY DEF Awaited
  <2>1. u # t
    BY DEF Leading
  <2>2. Key(caller[u])' = Key(caller[u]) /\ caller[u].at = "waiting"
    BY <1>1, <2>1
  <2>3. Key(caller[u]) \in DOMAIN calls /\ calls[Key(caller[u])] \in Threads
    BY <2>2 DEF Inv, Awaited, Led
  <2> QED BY <2>2, <2>3 DEF Inv, Awaited
<1> QED BY <1>2, <1>3 DEF Inv

-----------------------------------------------------------------------------
(* The steps of a get.                                                     *)

LEMMA GetBeginsInv == ASSUME Inv, NEW t \in Threads, GetBegins(t) PROVE Inv'
<1>1. PICK r \in Reads : Move(t, [at |-> "lookup", name |-> r[1], offset |-> r[2], len |-> r[3]])
  BY DEF GetBegins
<1>2. /\ DOMAIN caller' = Threads
      /\ caller'[t] = [at |-> "lookup", name |-> r[1], offset |-> r[2], len |-> r[3]]
      /\ \A u \in Threads \ {t} : caller'[u] = caller[u]
  BY <1>1, MoveEffect DEF Inv
<1>3. Asked'
  BY <1>2 DEF Inv, Asked, Asking, Holding
<1>4. caller[t].at = "idle" /\ UNCHANGED <<options, calls>>
  BY DEF GetBegins, At
<1> QED BY <1>2, <1>3, <1>4, AsideStep DEF Leading

LEMMA LookupInv == ASSUME Inv, NEW t \in Threads, lookup(t) PROVE Inv'
<1>1. caller[t].at = "lookup" /\ UNCHANGED <<options, calls>> /\ Asked
  BY DEF lookup, At, Inv
<1>2. CASE Move(t, Idle)
  <2>1. DOMAIN caller' = Threads /\ caller'[t] = Idle /\ \A u \in Threads \ {t} : caller'[u] = caller[u]
    BY <1>1, <1>2, MoveEffect
  <2>2. Asked'
    BY <1>1, <2>1 DEF Asked, Asking, Holding, Idle
  <2> QED BY <1>1, <2>1, <2>2, AsideStep DEF Leading, Idle
<1>3. CASE Move(t, [caller[t] EXCEPT !.at = "missed"])
  <2>1. /\ DOMAIN caller' = Threads /\ caller'[t] = [caller[t] EXCEPT !.at = "missed"]
        /\ \A u \in Threads \ {t} : caller'[u] = caller[u]
    BY <1>1, <1>3, MoveEffect
  <2>2. DOMAIN caller'[t] = {"at", "name", "offset", "len"} /\ caller'[t].at = "missed"
    BY <1>1, <2>1 DEF Asked, Asking
  <2>3. Asked'
    BY <1>1, <2>1, <2>2 DEF Asked, Asking, Holding
  <2> QED BY <1>1, <2>1, <2>2, <2>3, AsideStep DEF Leading
<1> QED BY <1>2, <1>3 DEF lookup, Answered

\* The first to miss a key leads it; one that finds it led waits, unless the
\* result is out already.
LEMMA JoinInv == ASSUME Inv, NEW t \in Threads, Join(t) PROVE Inv'
<1> DEFINE g == caller[t]
<1>1. /\ g.at = "missed" /\ UNCHANGED options /\ Asked
      /\ DOMAIN g = {"at", "name", "offset", "len"}
  BY DEF Join, At, Inv, Asked, Asking
<1>2. CASE /\ Key(g) \notin DOMAIN calls
           /\ calls' = [k \in DOMAIN calls \cup {Key(g)} |-> IF k = Key(g) THEN t ELSE calls[k]]
           /\ Move(t, [g EXCEPT !.at = "fetch"])
  <2>1. /\ DOMAIN caller' = Threads /\ caller'[t] = [g EXCEPT !.at = "fetch"]
        /\ \A u \in Threads \ {t} : caller'[u] = caller[u]
    BY <1>1, <1>2, MoveEffect
  <2>2. /\ DOMAIN caller'[t] = {"at", "name", "offset", "len"} /\ caller'[t].at = "fetch"
        /\ caller'[t].name = g.name /\ caller'[t].offset = g.offset /\ caller'[t].len = g.len
    BY <1>1, <2>1
  <2>3. \A u \in Threads : Key(caller[u])' = Key(caller[u])
    BY <1>1, <2>1, <2>2, KeyKept, KeyAlike
  <2>4. Asked'
    BY <1>1, <2>1, <2>2 DEF Asked, Asking, Holding
  <2>5. \A k \in DOMAIN calls : k # Key(g) /\ calls[k] \in Threads \ {t}
    BY <1>1, <1>2 DEF Inv, Led, Leading
  <2>6. \A k \in DOMAIN calls' : /\ calls'[k] \in Threads
                                 /\ caller'[calls'[k]].at \in Leading
                                 /\ Key(caller[calls[k]])' = k
    <3> SUFFICES ASSUME NEW k \in DOMAIN calls'
                 PROVE  /\ calls'[k] \in Threads
                        /\ caller'[calls'[k]].at \in Leading
                        /\ Key(caller[calls[k]])' = k
      OBVIOUS
    <3>1. CASE k = Key(g)
      BY <1>2, <2>2, <2>3, <3>1 DEF Leading
    <3>2. CASE k # Key(g)
      BY <1>2, <2>1, <2>3, <2>5, <3>2 DEF Inv, Led
    <3> QED BY <3>1, <3>2
  <2>7. \A u \in Threads : caller'[u].at \in Leading =>
            Key(caller[u])' \in DOMAIN calls' /\ calls'[Key(caller[u])'] = u
    <3> SUFFICES ASSUME NEW u \in Threads, caller'[u].at \in Leading
                 PROVE  Key(caller[u])' \in DOMAIN calls' /\ calls'[Key(caller[u])'] = u
      OBVIOUS
    <3>1. CASE u = t
      BY <1>2, <2>3, <3>1
    <3>2. CASE u # t
      <4>1. Key(caller[u]) \in DOMAIN calls /\ calls[Key(caller[u])] = u
        BY <2>1, <3>2 DEF Inv, Led
      <4>2. Key(caller[u])' = Key(caller[u])
        BY <2>3
      <4> QED BY <1>2, <2>5, <4>1, <4>2
    <3> QED BY <3>1, <3>2
  <2>8. Awaited'
    <3> SUFFICES ASSUME NEW u \in Threads, caller'[u].at = "waiting"
                 PROVE  Key(caller[u])' \in DOMAIN calls' /\ caller'[calls'[Key(caller[u])']].at # "erase"
      BY DEF Awaited
    <3>1. u # t
      BY <2>2
    <3>2. Key(caller[u]) \in DOMAIN calls /\ caller[calls[Key(caller[u])]].at # "erase"
      BY <2>1, <3>1 DEF Inv, Awaited
    <3>3. Key(caller[u])' = Key(caller[u])
      BY <2>3
    <3>4. Key(caller[u])' \in DOMAIN calls' /\ calls'[Key(caller[u])'] = calls[Key(caller[u])]
      BY <1>2, <2>5, <3>2, <3>3
    <3> QED BY <2>1, <2>5, <3>2, <3>4
  <2> QED BY <2>4, <2>6, <2>7, <2>8 DEF Inv, Led
<1>3. CASE UNCHANGED calls /\ \E result : Move(t, [at |-> "woken", name |-> g.name,
                                   offset |-> g.offset, len |-> g.len, result |-> result])
  <2>1. PICK result : Move(t, [at |-> "woken", name |-> g.name,
                               offset |-> g.offset, len |-> g.len, result |-> result])
    BY <1>3, Zenon
  <2>2. /\ DOMAIN caller' = Threads
        /\ caller'[t] = [at |-> "woken", name |-> g.name, offset |-> g.offset, len |-> g.len,
                         result |-> result]
        /\ \A u \in Threads \ {t} : caller'[u] = caller[u]
    BY <1>1, <2>1, MoveEffect
  <2>3. Asked'
    BY <1>1, <2>2 DEF Asked, Asking, Holding
  <2> QED BY <1>1, <1>3, <2>2, <2>3, AsideStep DEF Leading
<1>4. CASE /\ UNCHANGED calls /\ Key(g) \in DOMAIN calls /\ caller[calls[Key(g)]].at # "erase"
           /\ Move(t, [g EXCEPT !.at = "waiting"])
  <2>1. /\ DOMAIN caller' = Threads /\ caller'[t] = [g EXCEPT !.at = "waiting"]
        /\ \A u \in Threads \ {t} : caller'[u] = caller[u]
    BY <1>1, <1>4, MoveEffect
  <2>2. /\ DOMAIN caller'[t] = {"at", "name", "offset", "len"} /\ caller'[t].at = "waiting"
        /\ caller'[t].name = g.name /\ caller'[t].offset = g.offset /\ caller'[t].len = g.len
    BY <1>1, <2>1
  <2>3. \A u \in Threads : Key(caller[u])' = Key(caller[u])
    BY <1>1, <2>1, <2>2, KeyKept, KeyAlike
  <2>4. Asked'
    BY <1>1, <2>1, <2>2 DEF Asked, Asking, Holding
  <2>5. \A k \in DOMAIN calls : calls[k] \in Threads \ {t}
    BY <1>1 DEF Inv, Led, Leading
  <2>6. Led'
    BY <1>4, <2>1, <2>2, <2>3, <2>5 DEF Inv, Led, Leading
  <2>7. Awaited'
    BY <1>4, <2>1, <2>3, <2>5 DEF Inv, Awaited
  <2> QED BY <2>4, <2>6, <2>7 DEF Inv
<1> QED BY <1>2, <1>3, <1>4 DEF Join

LEMMA FetchInv == ASSUME Inv, NEW t \in Threads, Fetch(t) \/ FetchFails(t) PROVE Inv'
<1> DEFINE g == caller[t]
<1>1. /\ g.at = "fetch" /\ UNCHANGED <<options, calls>> /\ Asked
  BY DEF Fetch, FetchFails, At, Inv
<1>0. PICK at \in {"insert", "complete"} : \E result :
          Move(t, [at |-> at, name |-> g.name, offset |-> g.offset, len |-> g.len, result |-> result])
  <2>1. CASE Fetch(t)
    <3>1. CASE below[g.name] = "present"
      BY <2>1, <3>1 DEF Fetch
    <3>2. CASE below[g.name] # "present"
      BY <2>1, <3>2 DEF Fetch
    <3> QED BY <3>1, <3>2
  <2>2. CASE FetchFails(t)
    BY <2>2 DEF FetchFails
  <2> QED BY <2>1, <2>2
<1>2. PICK result :
          Move(t, [at |-> at, name |-> g.name, offset |-> g.offset, len |-> g.len, result |-> result])
  BY <1>0
<1>3. /\ DOMAIN caller' = Threads
      /\ caller'[t] = [at |-> at, name |-> g.name, offset |-> g.offset, len |-> g.len,
                       result |-> result]
      /\ \A u \in Threads \ {t} : caller'[u] = caller[u]
  BY <1>1, <1>2, MoveEffect
<1>4. Asked'
  BY <1>1, <1>3 DEF Asked, Asking, Holding
<1>5. Key(caller[t])' = Key(caller[t])
  BY <1>1, <1>3, KeyKept
<1> QED BY <1>1, <1>3, <1>4, <1>5, LeaderStep DEF Leading

LEMMA InsertFetchedInv == ASSUME Inv, NEW t \in Threads, InsertFetched(t) PROVE Inv'
<1> DEFINE g == caller[t]
<1>1. /\ g.at = "insert" /\ UNCHANGED <<options, calls>> /\ Asked
      /\ DOMAIN g = {"at", "name", "offset", "len", "result"}
  BY DEF InsertFetched, At, Inv, Asked, Holding
<1>2. /\ DOMAIN caller' = Threads /\ caller'[t] = [g EXCEPT !.at = "complete"]
      /\ \A u \in Threads \ {t} : caller'[u] = caller[u]
  BY <1>1, MoveEffect DEF InsertFetched
<1>3. /\ DOMAIN caller'[t] = {"at", "name", "offset", "len", "result"} /\ caller'[t].at = "complete"
      /\ caller'[t].name = g.name /\ caller'[t].offset = g.offset /\ caller'[t].len = g.len
  BY <1>1, <1>2
<1>4. Asked'
  BY <1>1, <1>2, <1>3 DEF Asked, Asking, Holding
<1>5. Key(caller[t])' = Key(caller[t])
  BY <1>1, <1>3, KeyKept
<1> QED BY <1>1, <1>2, <1>3, <1>4, <1>5, LeaderStep DEF Leading

\* The destructor of Completion wakes every follower before the key is erased,
\* whatever the fetch came to.
LEMMA CompleteInv == ASSUME Inv, NEW t \in Threads, Complete(t) PROVE Inv'
<1>1. /\ caller[t].at = "complete" /\ UNCHANGED <<options, calls>>
      /\ DOMAIN caller[t] = {"at", "name", "offset", "len", "result"}
  BY DEF Complete, At, Inv, Asked, Holding
<1>2. /\ DOMAIN caller' = Threads
      /\ caller'[t] = [caller[t] EXCEPT !.at = "erase"]
      /\ \A u \in Threads \ {t} : ~Follows(u, t) => caller'[u] = caller[u]
      /\ \A u \in Threads \ {t} : Follows(u, t) => caller'[u] =
             [at |-> "woken", name |-> caller[u].name, offset |-> caller[u].offset,
              len |-> caller[u].len, result |-> caller[t].result]
  BY DEF Complete
<1>3. /\ caller'[t].at = "erase" /\ DOMAIN caller'[t] = {"at", "name", "offset", "len", "result"}
      /\ caller'[t].name = caller[t].name /\ caller'[t].offset = caller[t].offset
      /\ caller'[t].len = caller[t].len
  BY <1>1, <1>2
<1>4. \A u \in Threads : caller'[u].name = caller[u].name /\ caller'[u].offset = caller[u].offset
                         /\ caller'[u].len = caller[u].len
  BY <1>2, <1>3
<1>5. \A u \in Threads : Key(caller[u])' = Key(caller[u])
  BY <1>1, <1>4, KeyKept
<1>6. Asked'
  BY <1>2, <1>3 DEF Inv, Asked, Asking, Holding
<1>7. \A u \in Threads : (caller'[u].at \in Leading) = (caller[u].at \in Leading)
  BY <1>1, <1>2, <1>3 DEF Follows, At, Leading
<1>8. Led'
  BY <1>1, <1>5, <1>7 DEF Inv, Led
<1>9. Awaited'
  <2> SUFFICES ASSUME NEW u \in Threads, caller'[u].at = "waiting"
               PROVE  Key(caller[u])' \in DOMAIN calls' /\ caller'[calls'[Key(caller[u])']].at # "erase"
    BY DEF Awaited
  <2>1. u # t /\ ~Follows(u, t) /\ caller[u].at = "waiting"
    BY <1>2, <1>3
  <2>2. /\ Key(caller[u]) \in DOMAIN calls /\ calls[Key(caller[u])] \in Threads \ {t}
        /\ caller[calls[Key(caller[u])]].at # "erase"
    BY <2>1 DEF Inv, Led, Awaited, Follows, At
  <2>3. caller'[calls[Key(caller[u])]].at # "erase"
    BY <1>2, <2>2
  <2> QED BY <1>1, <1>5, <2>2, <2>3
<1> QED BY <1>6, <1>8, <1>9 DEF Inv

\* The key goes when nobody waits for it any more.
LEMMA ReturnsInv == ASSUME Inv, NEW t \in Threads, Returns(t) PROVE Inv'
<1>1. caller[t].at \in {"erase", "woken"} /\ UNCHANGED options /\ Asked /\ Move(t, Idle)
  BY DEF Returns, Answered, Inv
<1>2. DOMAIN caller' = Threads /\ caller'[t] = Idle /\ \A u \in Threads \ {t} : caller'[u] = caller[u]
  BY <1>1, MoveEffect
<1>3. Asked' /\ caller'[t].at = "idle"
  BY <1>1, <1>2 DEF Asked, Asking, Holding, Idle
<1>4. CASE caller[t].at = "woken"
  <2>1. UNCHANGED calls
    BY <1>4 DEF Returns, At
  <2> QED BY <1>1, <1>2, <1>3, <1>4, <2>1, AsideStep DEF Leading
<1>5. CASE caller[t].at = "erase"
  <2>1. calls' = [k \in DOMAIN calls \ {Key(caller[t])} |-> calls[k]]
    BY <1>5 DEF Returns, At
  <2>2. \A u \in Threads \ {t} : Key(caller[u])' = Key(caller[u])
    BY <1>1, <1>2, KeyAlike
  <2>3. Key(caller[t]) \in DOMAIN calls /\ calls[Key(caller[t])] = t
    BY <1>5 DEF Inv, Led, Leading
  <2>4. \A k \in DOMAIN calls : k # Key(caller[t]) => calls[k] \in Threads \ {t}
    BY DEF Inv, Led
  <2>5. \A k \in DOMAIN calls' : /\ calls'[k] \in Threads
                                 /\ caller'[calls'[k]].at \in Leading
                                 /\ Key(caller[calls[k]])' = k
    BY <1>2, <2>1, <2>2, <2>4 DEF Inv, Led
  <2>6. \A u \in Threads : caller'[u].at \in Leading =>
            Key(caller[u])' \in DOMAIN calls' /\ calls'[Key(caller[u])'] = u
    <3> SUFFICES ASSUME NEW u \in Threads, caller'[u].at \in Leading
                 PROVE  Key(caller[u])' \in DOMAIN calls' /\ calls'[Key(caller[u])'] = u
      OBVIOUS
    <3>1. u # t
      BY <1>3 DEF Leading
    <3>2. Key(caller[u]) \in DOMAIN calls /\ calls[Key(caller[u])] = u
      BY <1>2, <3>1 DEF Inv, Led
    <3> QED BY <2>1, <2>2, <2>3, <3>1, <3>2
  <2>7. Awaited'
    <3> SUFFICES ASSUME NEW u \in Threads, caller'[u].at = "waiting"
                 PROVE  Key(caller[u])' \in DOMAIN calls' /\ caller'[calls'[Key(caller[u])']].at # "erase"
      BY DEF Awaited
    <3>1. u # t /\ caller[u].at = "waiting" /\ Key(caller[u])' = Key(caller[u])
      BY <1>2, <1>3, <2>2
    <3>2. Key(caller[u]) \in DOMAIN calls /\ caller[calls[Key(caller[u])]].at # "erase"
      BY <3>1 DEF Inv, Awaited
    <3>3. Key(caller[u]) # Key(caller[t])
      BY <1>5, <2>3, <3>2
    <3>4. calls[Key(caller[u])] \in Threads \ {t}
      BY <2>4, <3>2, <3>3
    <3> QED BY <1>2, <2>1, <3>1, <3>2, <3>3, <3>4
  <2> QED BY <1>3, <2>5, <2>6, <2>7 DEF Inv, Led
<1> QED BY <1>1, <1>4, <1>5

-----------------------------------------------------------------------------
(* put, remove and all that is not a call of the store.                    *)

LEMMA PutAndRemoveInv ==
    ASSUME Inv, NEW t \in Threads, PutBelow(t) \/ CacheWritten(t) \/ remove(t) \/ RemoveBelow(t)
    PROVE  Inv'
<1>1. /\ caller[t].at \in {"idle", "cacheWritten", "removing"} /\ UNCHANGED <<options, calls>> /\ Asked
  BY DEF PutBelow, CacheWritten, remove, RemoveBelow, At, Inv
<1>2. PICK locals : Move(t, locals) /\ locals.at \in {"idle", "cacheWritten", "removing"}
  <2>1. CASE PutBelow(t)
    BY <2>1 DEF PutBelow, Idle
  <2>2. CASE CacheWritten(t) \/ RemoveBelow(t)
    BY <2>2 DEF CacheWritten, RemoveBelow, Idle
  <2>3. CASE remove(t)
    BY <2>3 DEF remove
  <2> QED BY <2>1, <2>2, <2>3
<1>3. /\ DOMAIN caller' = Threads /\ caller'[t] = locals
      /\ \A u \in Threads \ {t} : caller'[u] = caller[u]
  BY <1>1, <1>2, MoveEffect
<1>4. Asked'
  BY <1>1, <1>2, <1>3 DEF Asked, Asking, Holding
<1> QED BY <1>1, <1>2, <1>3, <1>4, AsideStep DEF Leading

LEMMA RangeNextInv == ASSUME Inv, RangeNext PROVE Inv'
<1>1. ASSUME NEW t \in Threads, GetBegins(t) \/ lookup(t) \/ Join(t) \/ Fetch(t) \/ FetchFails(t)
      PROVE  Inv'
  BY <1>1, GetBeginsInv, LookupInv, JoinInv, FetchInv
<1>2. ASSUME NEW t \in Threads, InsertFetched(t) \/ Complete(t) \/ Returns(t) PROVE Inv'
  BY <1>2, InsertFetchedInv, CompleteInv, ReturnsInv
<1>3. ASSUME NEW t \in Threads, PutBelow(t) \/ CacheWritten(t) \/ remove(t) \/ RemoveBelow(t)
      PROVE  Inv'
  BY <1>3, PutAndRemoveInv
<1>4. ASSUME NEW name \in Names, FilesVanish(name) PROVE Inv'
  BY <1>4, Still DEF FilesVanish
<1>5. CASE StoreReopens
  BY <1>5, Still DEF StoreReopens
<1> QED BY <1>1, <1>2, <1>3, <1>4, <1>5 DEF RangeNext

LEMMA NextInv == Inv /\ [Next]_vars => Inv'
<1> SUFFICES ASSUME Inv, [Next]_vars PROVE Inv'
  OBVIOUS
<1>1. CASE RangeNext
  BY <1>1, RangeNextInv
<1>2. CASE WindowNext
  BY <1>2, Still DEF WindowNext
<1>3. CASE UNCHANGED rangeVars
  BY <1>3, Still DEF rangeVars
<1> QED BY <1>1, <1>2, <1>3 DEF Next, vars

LEMMA InitInv == Init => Inv
  BY DEF Init, RangeInit, Inv, Asked, Led, Awaited, Asking, Holding, Leading, Idle

\* Whichever way a fetch goes, and whoever joins when, a get that waits for
\* another thread's fetch has a leader that has still to wake it: the key is
\* erased only after the result is published (SingleFlight::run, Completion).
THEOREM NobodyWaitsUnled == Spec => []WaitersAreLed
<1>1. Inv => WaitersAreLed
  BY DEF Inv, Led, Awaited, WaitersAreLed, At, Leading
<1> QED BY <1>1, InitInv, NextInv, PTL DEF Spec
=============================================================================
