----------------------------- MODULE StoreEngine -----------------------------
(***************************************************************************)
(* The engine as the Kafka Streams stores of bindings/kafka-streams-v3 use  *)
(* it: an ordered map of byte strings with a durable truncation floor, and  *)
(* the changelog and checkpoint Streams keeps beside a store.               *)
(*                                                                          *)
(* A byte string is a sequence of small numbers, and a timestamp is written *)
(* as two digits, because a user key that extends another one shares its    *)
(* positions with the other's timestamp.  A segment id is one digit.        *)
(***************************************************************************)
EXTENDS Integers, Sequences, FiniteSets

CONSTANTS UserKeys,        \* user keys, sequences of digits
          Stamps,          \* timestamps a record may carry
          Starts,          \* times a session may begin at
          Base,            \* digits run from 0 to Base - 1
          Interval,        \* segmentIntervalMs
          Retention,       \* retentionPeriodMs, historyRetentionMs
          MaxPuts,         \* bound: calls that write
          MaxMishaps       \* bound: crashes, reopens and failed engine calls

VARIABLES kind,       \* which store: "window", "session", "versioned"
          phase,      \* "running", "down" or "restoring"
          db,         \* [store key -> value]: what the open engine answers
          synced,     \* [store key -> value]: what its files hold
          floor,      \* the truncation point, a byte string
          changelog,  \* the records the change logger wrote, in order
          checkpoint, \* the offset Streams recorded at the last commit
          replayed,   \* the offset the running restore has reached
          streamTime, \* observedStreamTime
          truncated,  \* truncatedThrough
          puts,       \* ghost: [<<key, time>> -> value], the versioned puts db reflects
          syncedPuts, \* ghost: those synced reflects
          doubt,      \* ghost: store keys whose last write landed and threw
          calls,
          mishaps

engineVars == <<kind, phase, db, synced, floor, changelog, checkpoint, replayed, streamTime,
                truncated, puts, syncedPuts, doubt, calls, mishaps>>

ASSUME LayoutAssumption ==
    /\ Base \in Nat \ {0}
    /\ Interval \in Nat \ {0}
    /\ Retention \in Nat
    /\ \A t \in Stamps \cup Starts : t \in 0..(Base * Base - 1)

-----------------------------------------------------------------------------
(* Byte strings *)

\* Bytewise order, a proper prefix first.
Precedes(s, t) ==
    \E i \in 1..Len(t) :
        /\ \A j \in 1..(i - 1) : j <= Len(s) /\ s[j] = t[j]
        /\ i > Len(s) \/ s[i] < t[i]

Stamp(t) == <<t \div Base, t % Base>>

\* Long.MAX_VALUE, and Integer.MAX_VALUE in a sequence number's place.
MaxStamp == <<Base, Base>>

segmentId(t) == t \div Interval

MaxOf(a, b) == IF a >= b THEN a ELSE b
MinOf(a, b) == IF a <= b THEN a ELSE b

\* expireSegmentsBelowRetention, expireHistoryBelowRetention: the segment to
\* truncate to once stream time is st, and whether there is anything to do.
minLiveSegment(st) == segmentId(MaxOf(st - Retention, 0))
Expires(st) == st >= Retention /\ minLiveSegment(st) > truncated

-----------------------------------------------------------------------------
(* The engine *)

NoRows == [k \in {} |-> 0]

\* A batch: rows to put, keys to delete.
Batch(rows, deletes) == [rows |-> rows, deletes |-> deletes]
Row(k, v) == [x \in {k} |-> v]

check_below_truncation(k) == ~Precedes(k, floor)

Accepts(batch) == \A k \in DOMAIN batch.rows \cup batch.deletes : check_below_truncation(k)

Applied(d, batch) ==
    LET left == (DOMAIN d \ batch.deletes) \cup DOMAIN batch.rows
    IN  [k \in left |-> IF k \in DOMAIN batch.rows THEN batch.rows[k] ELSE d[k]]

\* Reads hide what lies below the truncation point, wherever it is kept.
Visible(d) == {k \in DOMAIN d : check_below_truncation(k)}

\* An iterator over [lower, upper).
Scanned(lower, upper) == {k \in Visible(db) : ~Precedes(k, lower) /\ Precedes(k, upper)}

Newest(keys) == CHOOSE k \in keys : \A other \in keys \ {k} : Precedes(other, k)
Oldest(keys) == CHOOSE k \in keys : \A other \in keys \ {k} : Precedes(k, other)

\* The floor only rises, and a call at or below it is a no-op.
RaisedTo(prefix) == IF Precedes(floor, prefix) THEN prefix ELSE floor

-----------------------------------------------------------------------------
(* What Streams does around a store *)

Call == /\ phase = "running"
        /\ calls < MaxPuts
        /\ calls' = calls + 1

Mishap == /\ mishaps < MaxMishaps
          /\ mishaps' = mishaps + 1

\* A call that threw, having left the engine at d: Streams closes the task
\* dirty.  close() flushes first, which may fail too; no checkpoint is written.
ThrownWith(d, p) ==
    /\ phase' = "down"
    /\ \E flushed \in BOOLEAN :
        /\ synced' = IF flushed THEN d ELSE synced
        /\ syncedPuts' = IF flushed THEN p ELSE syncedPuts
    /\ db' = synced'
    /\ puts' = syncedPuts'
    /\ UNCHANGED <<kind, changelog, checkpoint, replayed>>

Synced == /\ synced' = db
          /\ syncedPuts' = puts

\* A commit: the store's flush(), then the checkpoint.
Commit ==
    /\ phase = "running"
    /\ synced # db \/ checkpoint # Len(changelog)
    /\ Synced
    /\ checkpoint' = Len(changelog)
    /\ UNCHANGED <<kind, phase, db, floor, changelog, replayed, streamTime, truncated, puts, doubt,
                   calls, mishaps>>

\* A flush the engine ran on its own: durable, with no checkpoint.
OwnFlush ==
    /\ phase # "down"
    /\ synced # db
    /\ Synced
    /\ UNCHANGED <<kind, phase, db, floor, changelog, checkpoint, replayed, streamTime, truncated,
                   puts, doubt, calls, mishaps>>

\* The process dies: what was only in memory is gone, the floor is not.
Die ==
    /\ phase # "down"
    /\ Mishap
    /\ phase' = "down"
    /\ db' = synced
    /\ puts' = syncedPuts
    /\ UNCHANGED <<kind, synced, floor, changelog, checkpoint, replayed, streamTime, truncated,
                   syncedPuts, doubt, calls>>

\* close(): flush, then close the engine; Streams checkpoints a clean close.
close ==
    /\ phase = "running"
    /\ Mishap
    /\ phase' = "down"
    /\ Synced
    /\ checkpoint' = Len(changelog)
    /\ UNCHANGED <<kind, db, floor, changelog, replayed, streamTime, truncated, puts, doubt, calls>>

\* open() up to the restore: a new store object, whose fields start empty.
OpensWith(observed, band) ==
    /\ phase = "down"
    /\ phase' = "restoring"
    /\ replayed' = checkpoint
    /\ streamTime' = observed
    /\ truncated' = band
    /\ UNCHANGED <<kind, db, synced, floor, changelog, checkpoint, puts, syncedPuts, doubt, calls,
                   mishaps>>

\* Restore has replayed the changelog to its end.
RestoreEnds ==
    /\ phase = "restoring"
    /\ replayed = Len(changelog)
    /\ phase' = "running"
    /\ UNCHANGED <<kind, db, synced, floor, changelog, checkpoint, replayed, streamTime, truncated,
                   puts, syncedPuts, doubt, calls, mishaps>>

EngineInit ==
    /\ phase = "running"
    /\ db = NoRows /\ synced = NoRows
    /\ floor = <<>>
    /\ changelog = <<>>
    /\ checkpoint = 0 /\ replayed = 0
    /\ streamTime = -1 /\ truncated = -1
    /\ puts = NoRows /\ syncedPuts = NoRows
    /\ doubt = {}
    /\ calls = 0 /\ mishaps = 0

Around == Commit \/ OwnFlush \/ Die \/ close \/ RestoreEnds

=============================================================================
