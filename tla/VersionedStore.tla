---------------------------- MODULE VersionedStore ----------------------------
(***************************************************************************)
(* ElysiumKVVersionedStore: a key's current value in one keyspace, the      *)
(* values it superseded in another one below it, segmented by timestamp and *)
(* truncated behind the history retention.                                  *)
(*                                                                          *)
(* A stored value is [ts, val], with val 0 for a deletion.  Absence is Null.*)
(***************************************************************************)
EXTENDS StoreEngine

Null == [ts |-> -1, val |-> 0]

-----------------------------------------------------------------------------
(* VersionedKeys *)

historyKey(key, t) == <<0, segmentId(t)>> \o key \o Stamp(t)
latestKey(key) == <<1>> \o key
streamTimeKey == <<2>>

historyLowerBound(key, segment, from) == <<0, segment>> \o key \o Stamp(from)
historyUpperBound(key, segment, to) == <<0, segment>> \o key \o to
historySegmentFloor(segment) == <<0, segment>>

timestampOfHistoryKey(k) == k[Len(k) - 1] * Base + k[Len(k)]

\* A bounded scan also meets entries of keys that merely start with this one.
isHistoryEntryFor(k, key) ==
    /\ Len(k) = 2 + Len(key) + 2
    /\ SubSeq(k, 3, 2 + Len(key)) = key

\* toTimestampedFormat: a deletion reads as absence.
Shown(stored) == IF stored.val = 0 THEN Null ELSE stored

Latest(key) == IF latestKey(key) \in Visible(db) THEN db[latestKey(key)] ELSE Null

-----------------------------------------------------------------------------
(* Reading *)

segmentOf(t) == segmentId(MaxOf(t, 0))

lastLiveHistory == segmentOf(streamTime)
firstLiveHistory == MaxOf(truncated, segmentOf(streamTime - Retention))

\* The key's entries in the segments given, from one bound to the other.
History(key, segments, from, to) ==
    {k \in UNION {Scanned(historyLowerBound(key, s, from), historyUpperBound(key, s, to) \o <<0>>) :
                      s \in segments} : isHistoryEntryFor(k, key)}

\* get(key, asOf): the current value if it had begun by then, else the first
\* entry met walking the live segments down from the one asked for.
getAsOf(key, asOf) ==
    LET latest == Latest(key)
        found == History(key, firstLiveHistory..MinOf(segmentOf(asOf), lastLiveHistory), 0,
                         Stamp(asOf))
    IN  IF latest # Null /\ latest.ts <= asOf THEN Shown(latest)
        ELSE IF found = {} THEN Null ELSE Shown(db[Newest(found)])

\* Every version in force at some time from one bound to the other.
versionsBetween(key, from, to) ==
    LET stored == {db[k] : k \in History(key, firstLiveHistory..lastLiveHistory, 0, MaxStamp)}
                      \cup ({Latest(key)} \ {Null})
    IN  {v \in stored : /\ v.ts <= to
                        /\ \A next \in stored : next.ts > v.ts => next.ts > from
                                                   \/ \E w \in stored : w.ts > v.ts /\ w.ts < next.ts
                        /\ v.val # 0}

\* When a version that landed in history at t stops applying.
validToAfter(key, t, latestTs) ==
    LET found == History(key, MaxOf(segmentOf(t + 1), firstLiveHistory)
                                  ..MinOf(segmentOf(latestTs), lastLiveHistory), t + 1,
                         Stamp(latestTs))
    IN  IF found = {} THEN latestTs ELSE timestampOfHistoryKey(Oldest(found))

-----------------------------------------------------------------------------
(* Writing *)

\* What put(key, value, t) writes: the new current value, with a history copy of
\* the one it supersedes and the stream time if it moved; or a history entry.
PutBatch(key, val, t) ==
    LET latest == Latest(key)
        supersedes == latest # Null /\ latest.ts # t
        rows == {latestKey(key)} \cup (IF supersedes THEN {historyKey(key, latest.ts)} ELSE {})
                                 \cup (IF t > streamTime THEN {streamTimeKey} ELSE {})
    IN  IF latest = Null \/ t >= latest.ts
        THEN Batch([k \in rows |-> IF k[1] = 0 THEN latest ELSE [ts |-> t, val |-> val]], {})
        ELSE Batch(Row(historyKey(key, t), [ts |-> t, val |-> val]), {})

TooOld(t) == t < streamTime - Retention

\* put, up to its return: stream time, the write, then the expiry.
PutTakes(key, val, t) ==
    LET st == MaxOf(streamTime, t)
    IN  /\ ~TooOld(t)
        /\ Accepts(PutBatch(key, val, t))
        /\ streamTime' = st
        /\ db' = Applied(db, PutBatch(key, val, t))
        /\ puts' = Applied(puts, Batch(Row(<<key, t>>, val), {}))
        /\ IF Expires(st)
           THEN /\ floor' = RaisedTo(historySegmentFloor(minLiveSegment(st)))
                /\ truncated' = minLiveSegment(st)
           ELSE UNCHANGED <<floor, truncated>>
        /\ UNCHANGED <<kind, phase, synced, checkpoint, syncedPuts, doubt, mishaps>>

\* The engine refuses the batch for a key below its floor, the write fails, or
\* it lands and the truncation behind it fails.
PutFails(key, val, t) ==
    LET batch == PutBatch(key, val, t)
    IN  /\ ~TooOld(t)
        /\ \/ /\ ~Accepts(batch)
              /\ ThrownWith(db, puts)
              /\ UNCHANGED mishaps
           \/ /\ Accepts(batch)
              /\ Mishap
              /\ ThrownWith(db, puts)
           \/ /\ Accepts(batch)
              /\ Expires(MaxOf(streamTime, t))
              /\ Mishap
              /\ ThrownWith(Applied(db, batch), Applied(puts, Batch(Row(<<key, t>>, val), {})))
        /\ UNCHANGED <<floor, streamTime, truncated, doubt>>

LoggedVersion(key, val, t) ==
    Append(changelog, [key |-> key, time |-> t, sub |-> 0, val |-> val])

\* PUT_RETURN_CODE_NOT_PUT: nothing is written; the change logger still logs.
PutVersionTooOld(key, val, t) ==
    /\ Call
    /\ TooOld(t)
    /\ changelog' = LoggedVersion(key, val, t)
    /\ UNCHANGED <<kind, phase, db, synced, floor, checkpoint, replayed, streamTime, truncated, puts,
                   syncedPuts, doubt, mishaps>>

\* put, and delete, which answers what it replaced.
PutVersion(key, val, t) ==
    /\ Call
    /\ PutTakes(key, val, t)
    /\ changelog' = LoggedVersion(key, val, t)
    /\ UNCHANGED replayed

\* The plain surface is the versioned one at the current time.
Now == MaxOf(streamTime, 0)
PutNow(key, val) == PutVersion(key, val, Now)

PutVersionThrows(key, val, t) ==
    /\ Call
    /\ PutFails(key, val, t)

-----------------------------------------------------------------------------
(* Opening and restoring *)

\* A reopened store that starts from an empty stream time.
SeedNothing == OpensWith(-1, -1)

seedStreamTimeFromDisk ==
    OpensWith(IF streamTimeKey \in Visible(db) THEN db[streamTimeKey].ts ELSE -1, -1)

\* A record is restored by put; a tombstone carries no timestamp of its own.
RestoreVersion ==
    /\ phase = "restoring"
    /\ replayed < Len(changelog)
    /\ LET r == changelog[replayed + 1]
           t == IF r.val = 0 THEN Now ELSE r.time
       IN  \/ /\ PutTakes(r.key, r.val, t)
              /\ replayed' = replayed + 1
              /\ UNCHANGED <<changelog, calls>>
           \/ /\ PutFails(r.key, r.val, t)
              /\ UNCHANGED calls
           \/ /\ TooOld(t)
              /\ replayed' = replayed + 1
              /\ UNCHANGED <<kind, phase, db, synced, floor, changelog, checkpoint, streamTime,
                             truncated, puts, syncedPuts, doubt, calls, mishaps>>

VersionedNext ==
    \/ \E key \in UserKeys, val \in {0, calls + 1}, t \in Stamps :
           PutVersionTooOld(key, val, t) \/ PutVersion(key, val, t) \/ PutVersionThrows(key, val, t)
    \/ \E key \in UserKeys, val \in {0, calls + 1} : PutNow(key, val)
    \/ seedStreamTimeFromDisk
    \/ RestoreVersion

-----------------------------------------------------------------------------
(* Properties *)

\* The version of key in force at a time, by the puts the store took.
Told(key) == {[ts |-> p[2], val |-> puts[p]] : p \in {p \in DOMAIN puts : p[1] = key}}

InForce(key, asOf) ==
    LET began == {p \in Told(key) : p.ts <= asOf}
    IN  IF began = {} THEN Null
        ELSE CHOOSE p \in began : \A q \in began : q.ts <= p.ts

\* The oldest segment the history retention reaches into.
RetainedFrom == LET times == {changelog[i].time : i \in 1..Len(changelog)}
                                 \cup {p[2] : p \in DOMAIN puts}
                IN  IF times = {} THEN 0
                    ELSE segmentOf((CHOOSE t \in times : \A s \in times : s <= t) - Retention)

\* get(key, asOf) and a multi-version query of the same instant agree, and answer
\* with the version in force then by the puts the store took: always when it is
\* the key's current value, however old; always when it began in a segment the
\* retention reaches; and with that version or nothing otherwise, never with an
\* older one.  The validTo of a version in history is the next version's start.
HistoryIsExact ==
    (kind = "versioned" /\ phase = "running") =>
        \A key \in UserKeys :
            LET told == Told(key)
            IN  \A asOf \in Stamps :
                    LET force == InForce(key, asOf)
                        answer == getAsOf(key, asOf)
                        newest == \A p \in told : p.ts <= asOf
                    IN  /\ answer \in {Shown(force), Null}
                        /\ newest => answer = Shown(force)
                        /\ segmentOf(force.ts) >= RetainedFrom => answer = Shown(force)
                        /\ versionsBetween(key, asOf, asOf) = {answer} \ {Null}
                        /\ (~newest /\ force.ts = asOf /\ segmentOf(asOf) >= RetainedFrom) =>
                               validToAfter(key, asOf, Latest(key).ts) =
                                   (CHOOSE p \in told : /\ p.ts > asOf
                                                        /\ \A q \in told : q.ts > asOf => q.ts >= p.ts).ts

=============================================================================
