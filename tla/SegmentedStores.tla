--------------------------- MODULE SegmentedStores ---------------------------
(***************************************************************************)
(* ElysiumKVWindowStore and ElysiumKVSessionStore: entries under a segment  *)
(* prefix, retention measured from stream time and enforced by truncating   *)
(* whole segments, scans clamped to the band of live segments.              *)
(*                                                                          *)
(* An entry is [key, time, sub]: a window's start and sequence number, or a *)
(* session's end and start.  A window store that keeps duplicates is not    *)
(* modelled, so a window's sub is 0.  Value 0 is null.                      *)
(***************************************************************************)
EXTENDS StoreEngine

Entries == {e \in [key: UserKeys, time: Stamps, sub: Starts \cup {0}] :
                IF kind = "session" THEN e.sub \in Starts /\ e.sub <= e.time ELSE e.sub = 0}

-----------------------------------------------------------------------------
(* WindowKeys, SessionKeys *)

Suffix(time, sub) == IF kind = "session" THEN Stamp(time) \o Stamp(sub)
                                         ELSE Stamp(time) \o <<sub>>

storeKey(e) == <<segmentId(e.time)>> \o e.key \o Suffix(e.time, e.sub)

segmentPrefix(segment) == <<segment>>

\* The time lies a fixed distance from the end of a key.
timestampOf(k) == LET at == Len(k) - (IF kind = "session" THEN 4 ELSE 3)
                  IN  k[at + 1] * Base + k[at + 2]

startOf(k) == k[Len(k) - 1] * Base + k[Len(k)]

lowerRange(segment, key, from) ==
    <<segment>> \o key \o (IF kind = "session" THEN Stamp(0) \o Stamp(0) ELSE Stamp(from) \o <<0>>)

upperRange(segment, key, to) ==
    <<segment>> \o key \o (IF kind = "session" THEN MaxStamp \o MaxStamp ELSE Stamp(to) \o <<Base>>)

\* The bound just past an inclusive one.
exclusive(bound) == bound \o <<0>>

-----------------------------------------------------------------------------
(* Writing *)

Mutation(e, value) == IF value = 0 THEN Batch(NoRows, {storeKey(e)})
                                   ELSE Batch(Row(storeKey(e), value), {})

Logged(e, value) == Append(changelog, [key |-> e.key, time |-> e.time, sub |-> e.sub, val |-> value])

\* A retention truncation that keeps no segment for the cutoff itself.
ExpiresPastTheCutoff(st) ==
    IF Expires(st)
    THEN /\ floor' = RaisedTo(segmentPrefix(minLiveSegment(st) + 1))
         /\ truncated' = minLiveSegment(st) + 1
    ELSE UNCHANGED <<floor, truncated>>

expireSegmentsBelowRetention(st) ==
    IF Expires(st)
    THEN /\ floor' = RaisedTo(segmentPrefix(minLiveSegment(st)))
         /\ truncated' = minLiveSegment(st)
    ELSE UNCHANGED <<floor, truncated>>

\* put of an entry that retention has left behind: dropped, and logged by the
\* change logger like any other.
PutDropped(e, value) ==
    LET st == MaxOf(streamTime, e.time)
    IN  /\ e.time <= st - Retention
        /\ Call
        /\ streamTime' = st
        /\ changelog' = Logged(e, value)
        /\ UNCHANGED <<kind, phase, db, synced, floor, checkpoint, replayed, truncated, puts,
                       syncedPuts, doubt, mishaps>>

put(e, value) ==
    LET st == MaxOf(streamTime, e.time)
    IN  /\ e.time > st - Retention
        /\ Call
        /\ Accepts(Mutation(e, value))
        /\ streamTime' = st
        /\ db' = Applied(db, Mutation(e, value))
        /\ expireSegmentsBelowRetention(st)
        /\ changelog' = Logged(e, value)
        /\ doubt' = doubt \ {storeKey(e)}
        /\ UNCHANGED <<kind, phase, synced, checkpoint, replayed, puts, syncedPuts, mishaps>>

\* The engine refuses a key below its floor, the write fails, or it lands and
\* the truncation behind it fails.
PutThrows(e, value) ==
    LET st == MaxOf(streamTime, e.time)
        taken == Accepts(Mutation(e, value))
    IN  /\ e.time > st - Retention
        /\ Call
        /\ \/ /\ ~taken
              /\ ThrownWith(db, puts)
              /\ UNCHANGED <<doubt, mishaps>>
           \/ /\ taken
              /\ Mishap
              /\ ThrownWith(db, puts)
              /\ UNCHANGED doubt
           \/ /\ taken
              /\ Expires(st)
              /\ Mishap
              /\ ThrownWith(Applied(db, Mutation(e, value)), puts)
              /\ doubt' = doubt \cup {storeKey(e)}
        /\ UNCHANGED <<floor, streamTime, truncated>>

\* ElysiumKVSessionStore.remove: no retention check and no expiry.
remove(e) ==
    /\ Call
    /\ \/ /\ Accepts(Mutation(e, 0))
          /\ db' = Applied(db, Mutation(e, 0))
          /\ changelog' = Logged(e, 0)
          /\ doubt' = doubt \ {storeKey(e)}
          /\ UNCHANGED <<kind, phase, synced, checkpoint, replayed, puts, syncedPuts>>
       \/ /\ ~Accepts(Mutation(e, 0))
          /\ ThrownWith(db, puts)
          /\ UNCHANGED doubt
    /\ UNCHANGED <<floor, streamTime, truncated, mishaps>>

-----------------------------------------------------------------------------
(* Opening and restoring *)

seedLiveBandFromDisk ==
    LET rows == Visible(db)
    IN  IF rows = {} THEN OpensWith(-1, -1)
        ELSE OpensWith(timestampOf(Newest(rows)), segmentId(timestampOf(Oldest(rows))) - 1)

\* The restore callback's batch: the changelog's records from a to b, the last
\* of a key winning.
RestoreBatch(a, b) ==
    LET entry(i) == [key |-> changelog[i].key, time |-> changelog[i].time, sub |-> changelog[i].sub]
        last == {i \in a..b : \A j \in (i + 1)..b : entry(j) # entry(i)}
        at(k) == CHOOSE i \in last : storeKey(entry(i)) = k
        rows == {storeKey(entry(i)) : i \in {i \in last : changelog[i].val # 0}}
    IN  Batch([k \in rows |-> changelog[at(k)].val],
              {storeKey(entry(i)) : i \in {i \in last : changelog[i].val = 0}})

\* One batch of the restore, or the engine's refusal of it.
RestoreRecords ==
    /\ phase = "restoring"
    /\ \E n \in (replayed + 1)..Len(changelog) :
        LET batch == RestoreBatch(replayed + 1, n)
            seen == {changelog[i].time : i \in (replayed + 1)..n}
        IN  \/ /\ Accepts(batch)
               /\ db' = Applied(db, batch)
               /\ replayed' = n
               /\ streamTime' = CHOOSE t \in seen \cup {streamTime} :
                                    \A s \in seen \cup {streamTime} : s <= t
               /\ doubt' = doubt \ (DOMAIN batch.rows \cup batch.deletes)
               /\ UNCHANGED <<kind, phase, synced, changelog, checkpoint, puts, syncedPuts>>
            \/ /\ ~Accepts(batch)
               /\ ThrownWith(db, puts)
               /\ UNCHANGED <<streamTime, doubt>>
    /\ UNCHANGED <<floor, truncated, calls, mishaps>>

-----------------------------------------------------------------------------
(* Reading *)

firstLiveSegment(from) == MaxOf(segmentId(from), MaxOf(truncated, 0))

\* A session query has no upper time; a window query does.
lastLiveSegment(to) ==
    LET newest == segmentId(MaxOf(streamTime, 0))
    IN  IF kind = "session" THEN newest ELSE MinOf(segmentId(to), newest)

\* One range per live segment the query touches, bounded by key within it.
keyRanges(key, from, to) ==
    {<<lowerRange(s, key, from), exclusive(upperRange(s, key, to))>> :
        s \in firstLiveSegment(from)..lastLiveSegment(to)}

\* The time filter of the cursor that walks the ranges.
Wanted(k, from, to) ==
    /\ timestampOf(k) >= from
    /\ IF kind = "session" THEN startOf(k) <= to ELSE timestampOf(k) <= to

\* fetch(key, from, to) of a window store; findSessions(key, from, to) of a
\* session store, where from bounds the end and to the start.
fetch(key, from, to) ==
    {k \in UNION {Scanned(range[1], range[2]) : range \in keyRanges(key, from, to)} :
        Wanted(k, from, to)}

SegmentedNext ==
    \/ \E e \in Entries, value \in {0, calls + 1} :
           PutDropped(e, value) \/ put(e, value) \/ PutThrows(e, value)
    \/ kind = "session" /\ \E e \in Entries : remove(e)
    \/ seedLiveBandFromDisk
    \/ RestoreRecords

-----------------------------------------------------------------------------
(* Properties *)

\* The largest time the store was given and took.
LastTime == LET times == {changelog[i].time : i \in 1..Len(changelog)}
                             \cup {timestampOf(k) : k \in doubt}
            IN  CHOOSE t \in times : \A s \in times : s <= t

\* Whatever was lost in a crash, restored, reopened or dropped as late, a store
\* that is running holds, for every entry inside the retention, exactly what the
\* last record of it in the changelog says, and hides none of it below the
\* truncation floor (an entry whose last write threw after landing excepted).
RetainedIsReadable ==
    (kind # "versioned" /\ phase = "running") =>
        \A i \in 1..Len(changelog) :
            LET r == changelog[i]
                k == storeKey([key |-> r.key, time |-> r.time, sub |-> r.sub])
                isLast == \A j \in (i + 1)..Len(changelog) :
                              <<changelog[j].key, changelog[j].time, changelog[j].sub>>
                                  # <<r.key, r.time, r.sub>>
            IN  (isLast /\ r.time > LastTime - Retention /\ k \notin doubt) =>
                    IF r.val = 0 THEN k \notin Visible(db)
                                 ELSE k \in Visible(db) /\ db[k] = r.val

\* The clamps on a scan cost no result: fetch and findSessions return every
\* entry of the key that the engine holds at or above its floor and the query
\* asks for.
ScansMissNothing ==
    (kind # "versioned" /\ phase = "running") =>
        \A e \in Entries :
            storeKey(e) \in Visible(db) =>
                \A from, to \in Stamps :
                    /\ from <= e.time
                    /\ IF kind = "session" THEN e.sub <= to ELSE e.time <= to
                    => storeKey(e) \in fetch(e.key, from, to)

=============================================================================
