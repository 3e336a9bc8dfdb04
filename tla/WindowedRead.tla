---------------------------- MODULE WindowedRead ----------------------------
(***************************************************************************)
(* WindowedBlobStore: what a compaction reads its inputs through.  It      *)
(* keeps one window of one object and, while the reads run forward, asks   *)
(* for the next one ahead of time.                                         *)
(*                                                                         *)
(* An object and its bytes are as in RangeCache.                           *)
(***************************************************************************)
EXTENDS RangeCache

CONSTANTS WindowBytes,   \* window_bytes_
          WindowReads    \* <<name, offset, len>> of the reads through it

ASSUME WindowAssumption == WindowBytes \in Nat \ {0} /\ WindowReads \subseteq Names \X Nat \X (Nat \ {0})

VARIABLE window

windowVars == <<window>>

NoPrefetch == -1
Unopened == [open |-> FALSE]

\* window_ is bytes of the object name_, believed to start at offset.
Opened == [open |-> TRUE, name |-> NoName, offset |-> 0, bytes |-> Bytes(0, 0),
           prefetch |-> NoPrefetch]

\* The window and the prefetch it joins, which have to be adjacent.
Joined(tail, next) ==
    IF tail.size = 0 THEN next
    ELSE IF next.size = 0 \/ next.start = tail.start + tail.size
    THEN Bytes(tail.start, tail.size + next.size)
    ELSE Failure("Scrambled")

WindowOpens ==
    /\ ~window.open /\ Counted
    /\ window' = Opened
    /\ used' = Charged(used, 2 * WindowBytes)

WindowCloses ==
    /\ window.open
    /\ window' = Unopened
    /\ used' = Released(used, 2 * WindowBytes)
    /\ UNCHANGED quota

\* take_prefetch, whose read of the store below may have failed.
take_prefetch(name, end) ==
    window.prefetch # NoPrefetch /\ name = window.name /\ window.prefetch = end

start_prefetch(name, forward, offset, bytes) ==
    LET next == offset + bytes.size
    IN  IF ~forward \/ bytes.size < WindowBytes \/ next >= Size[name] THEN NoPrefetch ELSE next

\* refill: the tail of the window and what was read ahead, if that covers the
\* read, or a read of its own.
refill(name, offset, len, prefetched) ==
    LET end == window.offset + window.bytes.size
        forward == name = window.name /\ offset >= window.offset /\ offset <= end
        keep == end - offset
        next == Content(name, window.prefetch, WindowBytes)
        tail == Bytes(window.bytes.start + window.bytes.size - keep, keep)
        joins == prefetched /\ take_prefetch(name, end) /\ forward /\ keep + next.size >= len
        filled == IF joins THEN Joined(tail, next) ELSE Content(name, offset, Max({WindowBytes, len}))
    IN  [open |-> TRUE, name |-> name, offset |-> offset, bytes |-> filled,
         prefetch |-> start_prefetch(name, forward, offset, filled)]

Inside(name, offset, len) ==
    /\ name = window.name /\ offset >= window.offset
    /\ offset + len <= window.offset + window.bytes.size

From(w, offset, len) ==
    LET start == offset - w.offset
    IN  Bytes(w.bytes.start + start, Least(len, Minus(w.bytes.size, start)))

WindowGet(name, offset, len) ==
    /\ window.open /\ below[name] = "present" /\ Counted
    /\ \E prefetched \in BOOLEAN :
          /\ window' = IF Inside(name, offset, len) THEN window
                       ELSE refill(name, offset, len, prefetched)
          /\ served' = [name |-> name, offset |-> offset, len |-> len, got |-> From(window', offset, len)]
    /\ UNCHANGED used

\* The read below fails: the window stays and the prefetch is spent.
WindowGetFails(name, offset, len) ==
    /\ window.open /\ ~Inside(name, offset, len) /\ Counted
    /\ window' = [window EXCEPT !.prefetch = NoPrefetch]
    /\ Silent /\ UNCHANGED used

WindowInit == window = Unopened

WindowNext ==
    /\ \/ (WindowOpens \/ WindowCloses) /\ Silent
       \/ \E r \in WindowReads : WindowGet(r[1], r[2], r[3]) \/ WindowGetFails(r[1], r[2], r[3])
    /\ UNCHANGED <<options, below, index, recency, cached, payload, caller, calls, arenas>>

=============================================================================
