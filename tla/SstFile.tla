------------------------------ MODULE SstFile -------------------------------
(***************************************************************************)
(* An SST: how SstWriter and BlockBuilder lay entries out in blocks, and   *)
(* how BlockIterator finds its way about a block.                          *)
(*                                                                         *)
(* Keys are sequences of bytes, because a block stores a key as what it    *)
(* adds to the one before.  An offset in a block counts entries; a file is *)
(* a sequence of blocks, and a handle is a place in it.                    *)
(***************************************************************************)
EXTENDS Integers, Sequences, FiniteSets, SequencesExt

CONSTANT MaxByte  \* 0xFF

\* Bytes that two keys have in common at the front.
Agree(a, b) == Cardinality({n \in DOMAIN a \cap DOMAIN b : \A i \in 1..n : a[i] = b[i]})

\* Slice::operator<, bytewise.
Before(a, b) ==
    \E n \in DOMAIN b :
        /\ n <= Len(a) => a[n] < b[n]
        /\ n <= Len(a) + 1
        /\ \A i \in 1..(n - 1) : a[i] = b[i]
AtMost(a, b) == a = b \/ Before(a, b)

\* Whether the prefix has an upper bound, and the bound: the last byte that
\* can grow grows, and what follows it goes.
CanGrow(prefix) == {i \in DOMAIN prefix : prefix[i] < MaxByte}
prefix_upper_bound(prefix) ==
    LET i == Max(CanGrow(prefix)) IN Append(SubSeq(prefix, 1, i - 1), prefix[i] + 1)

NoValue == 0
Entry(key, type, value) == [key |-> key, type |-> type, value |-> value]

-----------------------------------------------------------------------------
(* BlockBuilder.                                                           *)

NewBuilder == [entries |-> <<>>, restarts |-> <<0>>, last_key |-> <<>>, since_restart |-> 0]

\* A key goes in whole at a restart point and without what it shares with the
\* last key elsewhere; a Delete has no value.
BlockAdd(builder, key, type, value, interval) ==
    LET restart == builder.since_restart >= interval
        shared == IF restart THEN 0 ELSE Agree(builder.last_key, key)
    IN  [entries |-> Append(builder.entries,
                            [shared |-> shared, rest |-> SubSeq(key, shared + 1, Len(key)), type |-> type,
                             value |-> IF type = "Delete" THEN NoValue ELSE value]),
         restarts |-> IF restart THEN Append(builder.restarts, Len(builder.entries)) ELSE builder.restarts,
         last_key |-> key,
         since_restart |-> IF restart THEN 1 ELSE builder.since_restart + 1]

Finished(builder) == [entries |-> builder.entries, restarts |-> builder.restarts]

-----------------------------------------------------------------------------
(* SstWriter.  layout has block_bytes, in entries, and restart_interval.   *)

NewWriter == [blocks |-> <<>>, data |-> NewBuilder, index |-> NewBuilder, keys |-> {}]

\* One index entry per data block: its last key, and its handle.
flush_data_block(w, layout) ==
    IF w.data.entries = <<>> THEN w
    ELSE [w EXCEPT !.blocks = Append(@, Finished(w.data)),
                   !.index = BlockAdd(@, w.data.last_key, "Put", Len(w.blocks) + 1, layout.interval),
                   !.data = NewBuilder]

WriterAdd(w, e, layout) ==
    LET added == [w EXCEPT !.data = BlockAdd(@, e.key, e.type, e.value, layout.interval),
                           !.keys = @ \cup {e.key}]
    IN  IF Len(added.data.entries) >= layout.block THEN flush_data_block(added, layout) ELSE added

add_range_tombstone(builder, range, layout) ==
    BlockAdd(builder, range[1], "Put", range[2], layout.interval)

\* Handles of the structures that are not data blocks.
kIndex == 0
kFilter == -1
kRangeDel == -2
kFooter == -3

\* The bloom filter: it holds every key, and lets some others through.
BloomFinish(keys, collisions) == keys \cup collisions
bloom_may_contain(filter, key) == key \in filter

\* build_sst: the range tombstones, the entries, and finish.
build_sst(source, drop_tombstones, ranges, collisions, layout) ==
    LET add(w, e) == WriterAdd(w, e, layout)
        cover(b, r) == add_range_tombstone(b, r, layout)
        entries == SelectSeq(source, LAMBDA e : ~(drop_tombstones /\ e.type = "Delete"))
        written == flush_data_block(FoldLeft(add, NewWriter, entries), layout)
    IN  [blocks |-> written.blocks,
         index |-> Finished(written.index),
         filter |-> BloomFinish(written.keys, collisions),
         rangeDel |-> Finished(FoldLeft(cover, NewBuilder, ranges)),
         hasRanges |-> ranges # <<>>,
         smallest_key |-> IF entries = <<>> THEN <<>> ELSE Head(entries).key,
         largest_key |-> IF entries = <<>> THEN <<>> ELSE Last(entries).key,
         smallest_range_key |-> IF ranges = <<>> THEN <<>> ELSE Head(ranges)[1],
         largest_range_key |-> IF ranges = <<>> THEN <<>> ELSE Last(ranges)[2]]

-----------------------------------------------------------------------------
(* BlockIterator: the block, the entry it stands on and the one after.     *)

NoBlock == [entries |-> <<>>, restarts |-> <<>>]
Unset == [block |-> NoBlock, key |-> <<>>, at |-> 0, next |-> 0, valid |-> FALSE, type |-> "Put",
          value |-> NoValue, status |-> "Ok"]
NewBlockIterator(block) ==
    [Unset EXCEPT !.block = block,
                  !.status = IF block.restarts = <<>> \/ Head(block.restarts) # 0 THEN "Corrupt" ELSE "Ok"]

invalidate_position(it) == [it EXCEPT !.valid = FALSE, !.key = <<>>, !.value = NoValue]

\* The key is rebuilt on the one the iterator holds.
parse_entry(it, offset) ==
    IF offset >= Len(it.block.entries) THEN invalidate_position(it)
    ELSE LET e == it.block.entries[offset + 1]
         IN  IF e.shared > Len(it.key) THEN [invalidate_position(it) EXCEPT !.status = "Corrupt"]
             ELSE [it EXCEPT !.key = SubSeq(@, 1, e.shared) \o e.rest, !.type = e.type,
                             !.value = e.value, !.at = offset, !.next = offset + 1, !.valid = TRUE]

Usable(it) == it.status = "Ok" /\ it.block # NoBlock

BlockSeekToFirst(it) == IF Usable(it) THEN parse_entry([it EXCEPT !.key = <<>>], 0) ELSE it
BlockNext(it) == IF it.valid THEN parse_entry(it, it.next) ELSE it

seek_to_restart(it, r) == parse_entry([it EXCEPT !.key = <<>>], it.block.restarts[r])

\* next, for as long as the entry that follows is below an offset, or the key is
\* before a target.
Onward(it, offset, target) ==
    LET RECURSIVE go(_)
        go(i) == IF i.valid /\ (i.next < offset \/ Before(i.key, target)) THEN go(BlockNext(i)) ELSE i
    IN  go(it)

\* By bisection the last of 1..n among the ones below, which are the first few of
\* them; or 1.
Bisect(n, below) ==
    LET RECURSIVE search(_, _)
        search(low, high) ==
            LET mid == low + (high - low + 1) \div 2
            IN  IF low >= high THEN low
                ELSE IF mid \in below THEN search(mid, high) ELSE search(low, mid - 1)
    IN  search(1, n)

Restarts(it) == DOMAIN it.block.restarts
restart_before(it, offset) ==
    Bisect(Len(it.block.restarts), {r \in Restarts(it) : it.block.restarts[r] < offset})

BlockSeekToLast(it) ==
    IF Usable(it)
    THEN Onward(seek_to_restart(it, Len(it.block.restarts)), Len(it.block.entries), <<>>)
    ELSE it

\* Up to the entry before the one it stands on, from a restart.
BlockPrev(it) ==
    LET Arrived(near) == IF near.valid /\ near.next = it.at THEN near
                         ELSE [invalidate_position(near) EXCEPT !.status = "Corrupt"]
    IN  IF ~it.valid THEN it
        ELSE IF it.at = 0 THEN invalidate_position(it)
        ELSE Arrived(Onward(seek_to_restart(it, restart_before(it, it.at)), it.at, <<>>))

\* From the last restart at or below the target.
BlockSeek(it, target) ==
    LET low == Bisect(Len(it.block.restarts), {r \in Restarts(it) : AtMost(seek_to_restart(it, r).key, target)})
    IN  IF Usable(it) THEN Onward(seek_to_restart(it, low), 0, target) ELSE it

BlockSeekForPrev(it, target) ==
    LET Back(there) == IF there.status # "Ok" THEN there
                       ELSE IF ~there.valid THEN BlockSeekToLast(there)
                       ELSE IF there.key = target THEN there ELSE BlockPrev(there)
    IN  IF Usable(it) THEN Back(BlockSeek(it, target)) ELSE it
=============================================================================
