----------------------------- MODULE MCReadPath -----------------------------
(***************************************************************************)
(* The caches, the read windows and the scans.  The behaviours divide by   *)
(* setup: the stores, the caches, the windows and the scans each on their  *)
(* own for longer, and the first three together for a few calls.           *)
(***************************************************************************)
EXTENDS Caches, Scans

\* Objects of three, two and six bytes, the last larger than a cache.
MCNames == {1, 2, 3}
MCSize == <<3, 2, 6>>
MCReads == {<<1, 0, 2>>, <<1, 1, 2>>, <<1, 2, kReadToEnd>>, <<2, 1, 2>>, <<3, 1, kReadToEnd>>}
MCWindowReads == ({1, 3} \X {0, 1} \X {1, 2}) \cup {<<3, 2, 3>>, <<3, 4, 1>>, <<3, 5, 2>>}
Setup(disk, granularity, onWrite, parts, n) ==
    [disk |-> disk, granularity |-> granularity, onWrite |-> onWrite, parts |-> parts, calls |-> n]
MCOptions == {Setup(FALSE, 0, TRUE, {"range"}, 5), Setup(FALSE, 2, FALSE, {"range"}, 5),
              Setup(TRUE, 2, TRUE, {"range"}, 5), Setup(FALSE, 0, TRUE, {"range", "lru", "window"}, 3),
              Setup(FALSE, 0, FALSE, {"lru"}, 7), Setup(FALSE, 0, FALSE, {"window"}, 6),
              Setup(FALSE, 0, FALSE, {}, 0)}
MCBlocks == {<<1, 0>>, <<1, 1>>, <<2, 0>>}
MCShardOf == (<<1, 0>> :> 1) @@ (<<1, 1>> :> 2) @@ (<<2, 0>> :> 1)
Symmetry == Permutations(Threads) \cup Permutations(Workers)

-----------------------------------------------------------------------------
(* Files for the scans: keys that share prefixes, blocks of three entries  *)
(* that restart after two, and one key the filters let through.            *)

KA == <<0>>
KB == <<0, 1>>
KC == <<1>>
KD == <<1, 0>>
KE == <<1, 1>>
MCScanKeys == {KA, KB, KC, KD, KE}

Sets(key, value) == Entry(key, "Put", value)
Removes(key) == Entry(key, "Delete", NoValue)
Layout == [block |-> 3, interval |-> 2]
SstEntries == <<<<Sets(KA, 11), Sets(KB, 12), Sets(KC, 13), Sets(KD, 14), Sets(KE, 15)>>,
                <<Removes(KB), Sets(KD, 22)>>,
                <<Sets(KA, 31)>>,
                <<Sets(KA, 41), Sets(KB, 42)>>,
                <<Sets(KD, 44), Removes(KE)>>,
                <<Sets(KA, 61)>>,
                <<Sets(KD, 74), Sets(KE, 75)>>>>
SstRanges == [f \in 1..7 |-> CASE f = 3 -> <<<<KA, KC>>>> [] f = 6 -> <<<<KB, KC>>, <<KC, KD>>>> [] OTHER -> <<>>]
\* The fifth file is a bottommost output, without its deletes.
MCImage == [f \in 1..7 |-> build_sst(SstEntries[f], f = 5, SstRanges[f], {KC}, Layout)]

\* What a scene's sources say of a key: the newest that decides it.
NewTable(entries, ranges) ==
    [entries |-> [k \in {e.key : e \in entries} |->
                     LET e == CHOOSE e \in entries : e.key = k IN [type |-> e.type, value |-> e.value]],
     ranges |-> ranges]
Sources(levels, tbls) ==
    Reverse(tbls) \o [i \in DOMAIN FlattenSeq(levels) |->
                         LET f == FlattenSeq(levels)[i] IN NewTable(Range(SstEntries[f]), Range(SstRanges[f]))]
Decided(sources, key) ==
    {i \in DOMAIN sources : \/ key \in DOMAIN sources[i].entries
                            \/ \E r \in sources[i].ranges : AtMost(r[1], key) /\ Before(key, r[2])}
Logical(sources, key) ==
    LET newest == sources[Min(Decided(sources, key))]
    IN  IF Decided(sources, key) # {} /\ key \in DOMAIN newest.entries THEN newest.entries[key].value ELSE NoValue

Scene(levels, tbls, first, writable, faults, bounds, n) ==
    [levels |-> levels, tables |-> tbls, floor |-> first, read_only |-> FALSE, discardable |-> FALSE,
     blocked |-> FALSE, writes |-> writable, faults |-> faults, bounds |-> bounds, turns |-> n,
     deletes |-> IF writable = {} THEN {} ELSE {<<KA, KD>>, <<KB, KC>>},
     content |-> [k \in ScanKeys |-> IF Before(k, first) THEN NoValue ELSE Logical(Sources(levels, tbls), k)]]

Empty == NewTable({}, {})
Disjoint == <<<<2>>, <<4, 5>>>>      \* a level that is one sorted run
Newest == NewTable({Sets(KC, 1)}, {})
Whole == {KeysFrom(<<>>)}
Bounded == {KeysFrom(KC), KeysBetween(KA, KD), KeysBetween(KB, KE)}
ByPrefix == {KeysWith(<<0>>), KeysWith(<<1>>), KeysWith(<<1, 0>>)}
AllFaults == {"down", "damaged", "gone"}
MCScenes == {Scene(Disjoint, <<Newest>>, <<>>, {KB, KC, KE}, {}, Whole \cup Bounded, 2),
             Scene(<<<<3, 2>>, <<1>>>>, <<NewTable({Removes(KE)}, {}), Empty>>, <<>>, {KB, KD}, {}, Whole \cup ByPrefix, 2),
             Scene(<<<<2>>, <<6, 7>>, <<1>>>>, <<Empty>>, KB, {KA, KC}, {}, Whole \cup Bounded \cup ByPrefix, 1),
             Scene(Disjoint, <<Newest>>, <<>>, {}, AllFaults, Whole, 2),
             Scene(<<<<3>>, <<1>>>>, <<Empty>>, <<>>, {}, AllFaults, Whole \cup ByPrefix, 2),
             [Scene(<<<<3>>, <<4, 5>>>>, <<Empty>>, <<>>, {}, {"gone"}, Whole, 2) EXCEPT !.read_only = TRUE],
             [Scene(Disjoint, <<Empty>>, <<>>, {}, {"gone"}, Whole, 1) EXCEPT !.discardable = TRUE],
             [Scene(Disjoint, <<Empty>>, <<>>, {}, {}, Whole, 1) EXCEPT !.blocked = TRUE]}

-----------------------------------------------------------------------------
\* The setup that calls none of the other parts.
Scanning == options.parts = {}
AtRest == Scene(<<>>, <<>>, <<>>, {}, {}, {}, 0)
ReadInit ==
    Init /\ ScanInit(IF Scanning THEN Scenes ELSE {AtRest})
ReadNext ==
    \/ Next /\ UNCHANGED scanVars
    \/ Scanning /\ ScanSteps /\ UNCHANGED vars
ReadSpec == ReadInit /\ [][ReadNext]_<<vars, scanVars>>
=============================================================================
