------------------------------- MODULE Scans --------------------------------
(***************************************************************************)
(* Reading the engine: DbImpl::get and the iterators, from the merge down  *)
(* to the blocks of the SSTs.  Memtables are written while a scan stands   *)
(* on them, and objects fail underneath: unreachable for a while, damaged  *)
(* in one block, or gone.                                                  *)
(*                                                                         *)
(* The engine runs here without a block cache, and the version does not    *)
(* change: a scan pins the one it was opened on.                           *)
(***************************************************************************)
EXTENDS SstFile

CONSTANTS
    Image,   \* file |-> the file, as build_sst wrote it
    Scenes,  \* the instances to start from
    ScanKeys

VARIABLES
    scene,    \* the version and the instance's options
    object,   \* file |-> the state of its object in the store
    opened,   \* file |-> what its reader in the reader cache holds, if any
    instance, \* [unusable, advanced]: fail_terminal ran; the manifest moved on
    tables,   \* the memtables, the mutable one last
    scan,     \* an open iterator
    got,      \* what get last answered, until a write
    content,  \* key |-> value, as the accepted writes have it
    past,     \* key |-> its values since the scan was opened
    turns     \* calls and faults still to come: a bound

scanVars == <<scene, object, opened, instance, tables, scan, got, content, past, turns>>

InVersion == UNION {Range(scene.levels[l]) : l \in DOMAIN scene.levels}
Low(S) == CHOOSE k \in S : \A j \in S : AtMost(k, j)
High(S) == CHOOSE k \in S : \A j \in S : AtMost(j, k)
truncated(key) == Before(key, scene.floor)

-----------------------------------------------------------------------------
(* Files and readers.                                                      *)

\* EncryptedObject::read: the decrypting view of an object.
ObjectRead(f) ==
    CASE object[f].is = "gone" -> "NotFound"
      [] object[f].is = "down" -> "Io"
      [] OTHER -> "Ok"

\* The checksums: unframe_block of a block, Footer::decode of the footer.
Damaged(f, handle) == object[f].is = "damaged" /\ object[f].at = handle
unframe_block(f, handle) == IF Damaged(f, handle) THEN "Corrupt" ELSE "Ok"
FooterDecode(f) == IF Damaged(f, kFooter) THEN "Corrupt" ELSE "Ok"

\* A framed block.  The view is not a cache, so there is nothing to
\* invalidate and read again.
fetch_content(f, handle) == IF ObjectRead(f) = "Ok" THEN unframe_block(f, handle) ELSE ObjectRead(f)

\* SstReader::open: one read of the tail, with the footer and the index.
SstOpen(f) ==
    IF ObjectRead(f) # "Ok" THEN ObjectRead(f)
    ELSE IF FooterDecode(f) # "Ok" THEN FooterDecode(f)
    ELSE unframe_block(f, kIndex)

NotOpen == [open |-> FALSE, filter |-> FALSE, ranges |-> FALSE]

\* What the status of reader_for is; an object that is not there is stale
\* metadata on a reader that is behind, and the end of the instance elsewhere.
reader_for(f) ==
    IF opened[f].open THEN "Ok"
    ELSE IF SstOpen(f) # "NotFound" THEN SstOpen(f)
    ELSE IF scene.read_only /\ instance.advanced THEN "Stale"
    ELSE IF scene.discardable THEN "Unusable" ELSE "Corrupt"

fail_terminal(f) == ~opened[f].open /\ SstOpen(f) = "NotFound" /\ ~(scene.read_only /\ instance.advanced)

classify_read_failure(status) ==
    IF scene.read_only /\ status \in {"NotFound", "Corrupt"} /\ instance.advanced THEN "Stale" ELSE status

ensure_filter(f) == IF opened[f].filter THEN "Ok" ELSE fetch_content(f, kFilter)

Nothing == [status |-> "Nothing", type |-> "Put", value |-> NoValue]
Failed(status) == [Nothing EXCEPT !.status = status]

\* SstReader::get.
SstGet(f, key) ==
    LET index == BlockSeek(NewBlockIterator(Image[f].index), key)
        block == fetch_content(f, index.value)
        entries == BlockSeek(NewBlockIterator(Image[f].blocks[index.value]), key)
    IN  IF ensure_filter(f) # "Ok" THEN Failed(ensure_filter(f))
        ELSE IF ~bloom_may_contain(Image[f].filter, key) \/ ~index.valid THEN Nothing
        ELSE IF block # "Ok" THEN Failed(IF block = "NotFound" THEN "Corrupt" ELSE block)
        ELSE IF ~entries.valid \/ entries.key # key THEN Nothing
        ELSE [status |-> "Ok", type |-> entries.type, value |-> entries.value]

\* SstReader::range_deletes, of a file with range tombstones.
range_deletes(f, key) ==
    LET it == BlockSeekForPrev(NewBlockIterator(Image[f].rangeDel), key)
    IN  it.valid /\ Before(key, it.value)

\* The status of SstReader::range_tombstones, and the tombstones.
RangesStatus(f) == IF opened[f].ranges \/ ~Image[f].hasRanges THEN "Ok" ELSE fetch_content(f, kRangeDel)
range_tombstones(f) ==
    LET RECURSIVE from(_)
        from(it) == IF it.valid THEN <<<<it.key, it.value>>>> \o from(BlockNext(it)) ELSE <<>>
    IN  IF Image[f].hasRanges THEN from(BlockSeekToFirst(NewBlockIterator(Image[f].rangeDel))) ELSE <<>>

-----------------------------------------------------------------------------
(* The iterators under a merge.  A memtable's, a file's, a level's and one  *)
(* that only carries a status have a record in common.                     *)

Child == [kind |-> "error", table |-> 0, file |-> 0, span |-> <<>>, at |-> 0, index |-> Unset, data |-> Unset,
          status |-> "Ok", failed |-> "Ok", searching |-> FALSE, tried |-> {}]

StatusOf(c) ==
    LET bad == SelectSeq(<<c.failed, c.status, c.index.status, c.data.status>>, LAMBDA s : s # "Ok")
    IN  IF bad = <<>> THEN "Ok" ELSE Head(bad)

\* SkiplistIterator: stands on a node, and has loaded its value.
MemMoved(c, op, target) ==
    LET entries == tables[c.table].entries
        on == CASE op \in {"seek_to_first", "seek_to_last"} -> DOMAIN entries
                [] op = "seek" -> {k \in DOMAIN entries : AtMost(target, k)}
                [] op = "seek_for_prev" -> {k \in DOMAIN entries : AtMost(k, target)}
                [] op = "next" -> {k \in DOMAIN entries : Before(c.data.key, k)}
                [] op = "prev" -> {k \in DOMAIN entries : Before(k, c.data.key)}
        key == IF op \in {"seek_to_first", "seek", "next"} THEN Low(on) ELSE High(on)
    IN  IF op \in {"next", "prev"} /\ ~c.data.valid THEN c
        ELSE IF on = {} THEN [c EXCEPT !.data = Unset]
        ELSE [c EXCEPT !.data = [Unset EXCEPT !.key = key, !.valid = TRUE, !.type = entries[key].type,
                                              !.value = entries[key].value]]

\* The data block the index stands on, from the end that is travelled from.
load_current_block(c, ahead) ==
    LET status == fetch_content(c.file, c.index.value)
        block == NewBlockIterator(Image[c.file].blocks[c.index.value])
    IN  IF ~c.index.valid THEN [c EXCEPT !.data = Unset]
        ELSE IF status # "Ok" THEN [c EXCEPT !.data = Unset, !.status = status]
        ELSE [c EXCEPT !.data = IF ahead THEN BlockSeekToFirst(block) ELSE BlockSeekToLast(block)]

\* advance_block and retreat_block: on to a block with an entry, and no
\* further than a failure.
turn_block(c, ahead) ==
    LET RECURSIVE go(_)
        go(i) == IF i.data.valid \/ ~i.index.valid \/ StatusOf(i) # "Ok" THEN i
                 ELSE go(load_current_block([i EXCEPT !.index = IF ahead THEN BlockNext(@) ELSE BlockPrev(@)], ahead))
    IN  go(c)

Ahead(op) == op \in {"seek_to_first", "seek", "next"}
Seeks(op) == op \notin {"next", "prev"}

\* SstIterator.  The index has the last key of each block, so the first at or
\* past the target is of the only block that can hold it; when there is none,
\* the entry before the target is the last of the file.
IndexSought(index, op, target) ==
    LET OrLast(it) == IF op = "seek" \/ it.valid THEN it ELSE BlockSeekToLast(it)
    IN  CASE op = "seek_to_first" -> BlockSeekToFirst(index)
          [] op = "seek_to_last" -> BlockSeekToLast(index)
          [] OTHER -> OrLast(BlockSeek(index, target))

DataSought(data, op, target) ==
    CASE data.valid /\ op = "seek" -> BlockSeek(data, target)
      [] data.valid /\ op = "seek_for_prev" -> BlockSeekForPrev(data, target)
      [] OTHER -> data

SstMoved(c, op, target) ==
    LET sought == load_current_block([c EXCEPT !.index = IndexSought(@, op, target)], Ahead(op))
    IN  IF Seeks(op) THEN turn_block([sought EXCEPT !.data = DataSought(@, op, target)], Ahead(op))
        ELSE IF ~c.data.valid THEN c
        ELSE turn_block([c EXCEPT !.data = IF op = "next" THEN BlockNext(@) ELSE BlockPrev(@)], Ahead(op))

\* ConcatIterator.  One step of it is one file of the level: it goes on
\* searching past a file without an entry, and not past one that failed.
leave(c) == [c EXCEPT !.file = 0, !.index = Unset, !.data = Unset, !.status = "Ok", !.searching = FALSE]
enter(c, at) ==
    LET f == c.span[at]
        left == [leave(c) EXCEPT !.at = at, !.tried = @ \cup {f}]
    IN  IF at \notin DOMAIN c.span THEN leave(c)
        ELSE IF reader_for(f) # "Ok" THEN [left EXCEPT !.failed = reader_for(f)]
        ELSE [left EXCEPT !.file = f, !.index = NewBlockIterator(Image[f].index)]

ConcatMoved(c, op, target) ==
    LET ending == Cardinality({i \in DOMAIN c.span : Before(Image[c.span[i]].largest_key, target)})
        starting == Cardinality({i \in DOMAIN c.span : AtMost(Image[c.span[i]].smallest_key, target)})
        at == CASE c.searching -> IF Ahead(op) THEN c.at + 1 ELSE c.at - 1
                [] op = "seek_to_first" -> 1
                [] op = "seek_to_last" -> Len(c.span)
                [] op = "seek" -> ending + 1
                [] op = "seek_for_prev" -> starting
        within == IF Seeks(op) \/ ~c.searching THEN op
                  ELSE IF Ahead(op) THEN "seek_to_first" ELSE "seek_to_last"
        Moved(i) == IF i.file = 0 THEN i ELSE SstMoved(i, within, target)
        Settled(i) == [i EXCEPT !.searching = i.file # 0 /\ ~i.data.valid /\ StatusOf(i) = "Ok"]
    IN  Settled(Moved(IF Seeks(op) \/ c.searching THEN enter(c, at) ELSE c))

ChildMoved(c, op, target) ==
    CASE c.kind = "memtable" -> MemMoved(c, op, target)
      [] c.kind = "sst" -> SstMoved(c, op, target)
      [] c.kind = "concat" -> ConcatMoved(c, op, target)
      [] c.kind = "error" -> c

-----------------------------------------------------------------------------
(* MergingIterator and DbIterator: the fields of an open scan.             *)

Valid(s) == s.current # 0
KeyOf(s) == s.children[s.current].data.key

\* The smallest key ahead, the largest behind, and the earlier child on a tie.
pick_raw(s) ==
    LET on == {i \in DOMAIN s.children : s.children[i].data.valid}
        On(i) == s.children[i].data.key
        Wins(i, j) == IF On(i) = On(j) THEN i <= j
                      ELSE IF s.reverse THEN Before(On(j), On(i)) ELSE Before(On(i), On(j))
    IN  [s EXCEPT !.current = IF on = {} THEN 0 ELSE CHOOSE i \in on : \A j \in on : Wins(i, j)]

\* Whether a tombstone of a newer child covers the key.
ShadowedBy(s, i) ==
    LET n == Cardinality({r \in DOMAIN s.ranges[i] : AtMost(s.ranges[i][r][1], KeyOf(s))})
    IN  n > 0 /\ Before(KeyOf(s), s.ranges[i][n][2])
\* Mutant: its own tombstones hide the current child's entries.
ShadowedByItself(s) == \E i \in 1..s.current : ShadowedBy(s, i)
shadowed(s) == \E i \in 1..(s.current - 1) : ShadowedBy(s, i)

MergeStatus(s) ==
    LET bad == {i \in DOMAIN s.children : StatusOf(s.children[i]) # "Ok"}
    IN  IF bad = {} THEN "Ok" ELSE StatusOf(s.children[Min(bad)])

out_of_range(s) ==
    IF s.reverse THEN Before(KeyOf(s), s.lower) ELSE s.has_upper /\ ~Before(KeyOf(s), s.upper)

\* DbIterator::start, and the step of the merge: what the children do, and
\* which.  Every child that stands on the current key moves off it.
start(s) ==
    [s EXCEPT !.started = TRUE, !.left = DOMAIN s.children,
              !.target = IF s.reverse THEN s.upper ELSE s.lower,
              !.op = CASE ~s.reverse -> IF s.lower = <<>> THEN "seek_to_first" ELSE "seek"
                       [] OTHER -> IF s.has_upper THEN "seek_for_prev" ELSE "seek_to_last"]
MergeStep(s) ==
    [s EXCEPT !.op = IF s.reverse THEN "prev" ELSE "next",
              !.left = {i \in DOMAIN s.children : s.children[i].data.valid /\ s.children[i].data.key = KeyOf(s)}]

\* The children have moved: pick, on past a key a tombstone covers, past the
\* upper bound a reverse scan starts from, past a point delete.
Settle(s) ==
    IF ~Valid(s) THEN [s EXCEPT !.returned = "end"]
    ELSE IF shadowed(s) THEN MergeStep(s)
    ELSE IF s.reverse /\ s.has_upper /\ ~Before(KeyOf(s), s.upper) THEN MergeStep(s)
    ELSE IF out_of_range(s) THEN [s EXCEPT !.returned = "end"]
    ELSE IF s.children[s.current].data.type = "Put" THEN [s EXCEPT !.returned = "row"]
    ELSE MergeStep(s)

NoScan == [open |-> FALSE, children |-> <<>>, ranges |-> <<>>, current |-> 0, lower |-> <<>>, upper |-> <<>>,
           has_upper |-> FALSE, reverse |-> FALSE, started |-> FALSE, returned |-> "nothing",
           op |-> "next", target |-> <<>>, left |-> {},  \* the children still to move, and how
           behind |-> <<>>,   \* the key returned before
           wanted |-> {}]     \* the keys the caller asked for

-----------------------------------------------------------------------------
(* DbImpl::make_iterator.                                                  *)

carries_ranges(level) == \E f \in Range(level) : Image[f].hasRanges

\* Below, as a range: the files of a sorted level.  Otherwise the files of
\* which either span overlaps.  No upper bound is the empty one.
overlapping_index_range(level, lower, upper) ==
    LET ending == Cardinality({i \in DOMAIN level : Before(Image[level[i]].largest_key, lower)})
        starting == Cardinality({i \in DOMAIN level : Before(Image[level[i]].smallest_key, upper)})
    IN  SubSeq(level, ending + 1, IF upper = <<>> THEN Len(level) ELSE starting)
overlapping_half_open(level, lower, upper) ==
    SelectSeq(level, LAMBDA f :
        \/ /\ AtMost(lower, Image[f].largest_key)
           /\ upper # <<>> => Before(Image[f].smallest_key, upper)
        \/ /\ Image[f].hasRanges
           /\ Before(lower, Image[f].largest_range_key)
           /\ upper # <<>> => Before(Image[f].smallest_range_key, upper))

\* merge_ranges: sorted by their lower bound, disjoint.
merge_ranges(ranges) ==
    LET Earlier(a, b) == IF a[1] = b[1] THEN Before(a[2], b[2]) ELSE Before(a[1], b[1])
        Joined(m, r) ==
            IF m # <<>> /\ AtMost(r[1], Last(m)[2])
            THEN [m EXCEPT ![Len(m)] = <<@[1], IF Before(@[2], r[2]) THEN r[2] ELSE @[2]>>]
            ELSE Append(m, r)
    IN  FoldLeft(Joined, <<>>, SetToSortSeq(ranges, Earlier))

FileChild(f) ==
    LET failure == IF reader_for(f) # "Ok" THEN reader_for(f) ELSE classify_read_failure(RangesStatus(f))
    IN  IF failure # "Ok" THEN [Child EXCEPT !.failed = failure, !.tried = {f}]
        ELSE [Child EXCEPT !.kind = "sst", !.file = f, !.index = NewBlockIterator(Image[f].index), !.tried = {f}]

ChildrenOf(l, lower, upper) ==
    LET level == scene.levels[l]
        span == overlapping_index_range(level, lower, upper)
        files == overlapping_half_open(level, lower, upper)
    IN  IF l > 1 /\ ~carries_ranges(level)
        THEN IF span = <<>> THEN <<>> ELSE <<[Child EXCEPT !.kind = "concat", !.span = span]>>
        ELSE [i \in DOMAIN files |-> FileChild(files[i])]

make_iterator(bounds, reverse) ==
    LET lower == IF Before(bounds.lower, scene.floor) THEN scene.floor ELSE bounds.lower
        mems == [i \in DOMAIN tables |-> [Child EXCEPT !.kind = "memtable", !.table = Len(tables) + 1 - i]]
        files == FlattenSeq([l \in DOMAIN scene.levels |-> ChildrenOf(l, lower, bounds.upper)])
        RangesOf(c) == CASE c.kind = "memtable" -> merge_ranges(tables[c.table].ranges)
                         [] c.kind = "sst" -> range_tombstones(c.file)
                         [] OTHER -> <<>>
        children == mems \o files
    IN  IF scene.blocked
        THEN [NoScan EXCEPT !.open = TRUE, !.children = <<[Child EXCEPT !.failed = "RecoveryRequired"]>>,
                            !.ranges = <<<<>>>>, !.reverse = reverse]
        ELSE [NoScan EXCEPT !.open = TRUE, !.children = children,
                            !.ranges = [i \in DOMAIN children |-> RangesOf(children[i])],
                            !.lower = lower, !.upper = bounds.upper, !.has_upper = bounds.has_upper,
                            !.reverse = reverse, !.wanted = bounds.wanted]

\* iterator with one or two bounds (none is the empty one) and prefix_iterator.
KeysFrom(lower) ==
    [lower |-> lower, upper |-> <<>>, has_upper |-> FALSE, wanted |-> {k \in ScanKeys : AtMost(lower, k)}]
KeysBetween(lower, upper) ==
    [lower |-> lower, upper |-> upper, has_upper |-> TRUE,
     wanted |-> {k \in ScanKeys : AtMost(lower, k) /\ Before(k, upper)}]
KeysWith(prefix) ==
    [(IF CanGrow(prefix) = {} THEN KeysFrom(prefix) ELSE KeysBetween(prefix, prefix_upper_bound(prefix)))
     EXCEPT !.wanted = {k \in ScanKeys : IsPrefix(prefix, k)}]

-----------------------------------------------------------------------------
(* DbImpl::get.                                                            *)

file_may_contain(f, key) == AtMost(Image[f].smallest_key, key) /\ AtMost(key, Image[f].largest_key)
range_may_cover(f, key) ==
    Image[f].hasRanges /\ AtMost(Image[f].smallest_range_key, key) /\ Before(key, Image[f].largest_range_key)

\* The files of a level that get may open, in order: below L0 the one that
\* can hold the key, unless the level carries ranges.
Searched(l, key) ==
    LET level == scene.levels[l]
        ending == Cardinality({i \in DOMAIN level : Before(Image[level[i]].largest_key, key)})
    IN  IF l > 1 /\ ~carries_ranges(level) THEN SubSeq(level, ending + 1, Min({ending + 1, Len(level)})) ELSE level
\* Mutant: a file whose ranges reach beyond its data is passed over.
CandidatesByData(l, key) == SelectSeq(Searched(l, key), LAMBDA f : file_may_contain(f, key))
Candidates(l, key) ==
    SelectSeq(Searched(l, key), LAMBDA f : file_may_contain(f, key) \/ range_may_cover(f, key))

Answer(key, status, value, tried) == [key |-> key, status |-> status, value |-> value, tried |-> tried]

\* From files on, when the tables and the files tried do not decide.
FromFiles(key, candidates) ==
    LET RECURSIVE go(_, _)
        go(files, before) ==
            LET f == Head(files)
                tried == before \cup {f}
                found == IF file_may_contain(f, key) THEN SstGet(f, key) ELSE Nothing
                status == IF range_may_cover(f, key) THEN fetch_content(f, kRangeDel) ELSE "Ok"
            IN  IF files = <<>> THEN Answer(key, "NotFound", NoValue, before)
                ELSE IF reader_for(f) # "Ok" THEN Answer(key, reader_for(f), NoValue, tried)
                ELSE IF found.status = "Ok"
                     THEN IF found.type = "Delete" THEN Answer(key, "NotFound", NoValue, tried)
                          ELSE Answer(key, "Ok", found.value, tried)
                ELSE IF found.status # "Nothing"
                     THEN Answer(key, classify_read_failure(found.status), NoValue, tried)
                ELSE IF status # "Ok" THEN Answer(key, classify_read_failure(status), NoValue, tried)
                ELSE IF range_may_cover(f, key) /\ range_deletes(f, key)
                     THEN Answer(key, "NotFound", NoValue, tried)
                ELSE go(Tail(files), tried)
    IN  go(candidates, {})

CoveredIn(t, key) == \E r \in tables[t].ranges : AtMost(r[1], key) /\ Before(key, r[2])

DbGet(key) ==
    LET deciding == {t \in DOMAIN tables : key \in DOMAIN tables[t].entries \/ CoveredIn(t, key)}
        table == tables[Max(deciding)]
        live == key \in DOMAIN table.entries /\ table.entries[key].type = "Put"
    IN  IF scene.blocked THEN Answer(key, "RecoveryRequired", NoValue, {})
        ELSE IF truncated(key) THEN Answer(key, "NotFound", NoValue, {})
        ELSE IF deciding # {}
        THEN IF live THEN Answer(key, "Ok", table.entries[key].value, {}) ELSE Answer(key, "NotFound", NoValue, {})
        ELSE FromFiles(key, FlattenSeq([l \in DOMAIN scene.levels |-> Candidates(l, key)]))

-----------------------------------------------------------------------------
(* Steps.                                                                  *)

NoAnswerYet == Answer(<<>>, "Nothing", NoValue, {})
Spends == turns > 0 /\ turns' = turns - 1

\* The readers that were asked for are resident, some with their filter, some
\* with their ranges loaded; one that could not be opened for want of its object
\* ends the instance.
Asks(tried, filters, ranges) ==
    /\ opened' = [f \in DOMAIN opened |->
           IF f \notin tried \/ reader_for(f) # "Ok" THEN opened[f]
           ELSE [open |-> TRUE, filter |-> opened[f].filter \/ (f \in filters /\ ensure_filter(f) = "Ok"),
                 ranges |-> opened[f].ranges \/ (f \in ranges /\ RangesStatus(f) = "Ok")]]
    /\ instance' = [instance EXCEPT !.unusable = @ \/ \E f \in tried : fail_terminal(f)]

TriedBy(s) == UNION {s.children[i].tried : i \in DOMAIN s.children}

OpenScan ==
    \E bounds \in scene.bounds, reverse \in BOOLEAN :
        /\ ~scan.open
        /\ scan' = make_iterator(bounds, reverse)
        /\ Asks(TriedBy(scan'), {}, TriedBy(scan'))
        /\ past' = [k \in ScanKeys |-> {content[k]}]
        /\ UNCHANGED <<scene, object, tables, got, content, turns>>

\* next() begins, moves its children one after the other (the current one
\* last), and returns or moves on.
Busy == scan.started /\ scan.returned = "nothing"
BeginNext ==
    /\ scan.open /\ ~Busy /\ scan.returned # "end"
    /\ scan' = IF ~scan.started THEN start(scan)
               ELSE [MergeStep(scan) EXCEPT !.returned = "nothing", !.behind = <<KeyOf(scan)>>]
    /\ UNCHANGED <<scene, object, opened, instance, tables, got, content, past, turns>>

MoveChild ==
    /\ Busy /\ scan.left # {}
    /\ LET i == IF scan.left = {scan.current} THEN scan.current ELSE Min(scan.left \ {scan.current})
           c == [scan.children[i] EXCEPT !.tried = {}]
       IN  \E moved \in {ChildMoved(c, scan.op, scan.target)} :
               /\ scan' = [scan EXCEPT !.children[i] = moved, !.left = IF moved.searching THEN @ ELSE @ \ {i}]
               /\ Asks(moved.tried, {}, {})
    /\ UNCHANGED <<scene, object, tables, got, content, past, turns>>

ScanNext ==
    /\ Busy /\ scan.left = {}
    /\ \E s \in {pick_raw(scan)} : scan' = Settle(s)
    /\ UNCHANGED <<scene, object, opened, instance, tables, got, content, past, turns>>

CloseScan ==
    /\ scan.open /\ ~Busy
    /\ Spends
    /\ scan' = NoScan /\ past' = [k \in ScanKeys |-> {}]
    /\ UNCHANGED <<scene, object, opened, instance, tables, got, content>>

GetKey ==
    \E key \in ScanKeys :
        /\ Spends
        /\ got' = DbGet(key)
        /\ Asks(got'.tried, {f \in got'.tried : file_may_contain(f, key)}, {})
        /\ UNCHANGED <<scene, object, tables, scan, content, past>>

\* What every write does, besides the memtable: throttle_writes refuses one
\* on an unusable instance.
Writes(values) ==
    /\ ~scene.read_only /\ ~instance.unusable
    /\ Spends
    /\ content' = values
    /\ past' = [k \in ScanKeys |-> IF scan.open THEN past[k] \cup {values[k]} ELSE {}]
    /\ got' = NoAnswerYet
    /\ UNCHANGED <<scene, object, opened, instance, scan>>

Insert(key, type, value) ==
    tables' = [tables EXCEPT ![Len(tables)].entries =
                   [k \in DOMAIN @ \cup {key} |-> IF k = key THEN [type |-> type, value |-> value] ELSE @[k]]]

PutKey ==
    \E key \in scene.writes :
        /\ ~truncated(key)
        /\ Insert(key, "Put", 100 + turns)
        /\ Writes([content EXCEPT ![key] = 100 + turns])

RemoveKey ==
    \E key \in scene.writes :
        /\ ~truncated(key)
        /\ Insert(key, "Delete", NoValue)
        /\ Writes([content EXCEPT ![key] = NoValue])

\* Clamped to the floor; the keys in the memtable become point deletes.
DeleteRange ==
    \E bounds \in scene.deletes :
        LET lower == IF truncated(bounds[1]) THEN scene.floor ELSE bounds[1]
            Covers(k) == AtMost(lower, k) /\ Before(k, bounds[2])
        IN  /\ Before(lower, bounds[2])
            /\ tables' = [tables EXCEPT ![Len(tables)] =
                   [entries |-> [k \in DOMAIN @.entries |->
                                    IF Covers(k) THEN [type |-> "Delete", value |-> NoValue] ELSE @.entries[k]],
                    ranges |-> @.ranges \cup {<<lower, bounds[2]>>}]]
            /\ Writes([k \in ScanKeys |-> IF Covers(k) THEN NoValue ELSE content[k]])

\* seal_memtable: the mutable table is full, and there is no other to flush.
SealMemtable ==
    /\ Len(tables) = 1 /\ ~scene.read_only
    /\ Spends
    /\ tables' = Append(tables, [entries |-> <<>>, ranges |-> {}])
    /\ UNCHANGED <<scene, object, opened, instance, scan, got, content, past>>

\* The store under the engine, and the writer ahead of a reader.
ObjectFails ==
    \E f \in InVersion, fault \in scene.faults :
        /\ Spends
        /\ object[f].is = "there"
        /\ \E at \in IF fault = "damaged" THEN (kFooter..kIndex) \cup DOMAIN Image[f].blocks ELSE {0} :
               object' = [object EXCEPT ![f] = [is |-> fault, at |-> at]]
        /\ UNCHANGED <<scene, opened, instance, tables, scan, got, content, past>>

ObjectReturns ==
    \E f \in InVersion :
        /\ object[f].is = "down"
        /\ object' = [object EXCEPT ![f].is = "there"]
        /\ UNCHANGED <<scene, opened, instance, tables, scan, got, content, past, turns>>

\* The reader cache sheds a reader; a scan keeps the ones it has.
ReaderShed ==
    \E f \in InVersion :
        /\ opened[f].open
        /\ Spends
        /\ opened' = [opened EXCEPT ![f] = NotOpen]
        /\ UNCHANGED <<scene, object, instance, tables, scan, got, content, past>>

ManifestAdvances ==
    /\ scene.read_only /\ ~instance.advanced
    /\ instance' = [instance EXCEPT !.advanced = TRUE]
    /\ UNCHANGED <<scene, object, opened, tables, scan, got, content, past, turns>>

ScanInit(scenes) ==
    /\ scene \in scenes
    /\ object = [f \in InVersion |-> [is |-> "there", at |-> 0]]
    /\ opened = [f \in InVersion |-> NotOpen]
    /\ instance = [unusable |-> FALSE, advanced |-> FALSE]
    /\ tables = scene.tables
    /\ scan = NoScan /\ got = NoAnswerYet
    /\ content = scene.content
    /\ past = [k \in ScanKeys |-> {}]
    /\ turns = scene.turns

ScanSteps ==
    \/ OpenScan \/ BeginNext \/ MoveChild \/ ScanNext \/ CloseScan \/ GetKey
    \/ PutKey \/ RemoveKey \/ DeleteRange \/ SealMemtable
    \/ ObjectFails \/ ObjectReturns \/ ReaderShed \/ ManifestAdvances

-----------------------------------------------------------------------------
(* Properties.                                                             *)

\* A scan that reports no failure is exact, however its sources are laid out
\* and whatever is written under it.  A row is a key asked for, past the one
\* before, with a value the key has had since the scan was opened.  A key
\* that was there all the time is not passed over, by a row or by the end.
ScanIsExact ==
    scan.returned # "nothing" /\ MergeStatus(scan) = "Ok" =>
        LET Precedes(a, b) == IF scan.reverse THEN Before(b, a) ELSE Before(a, b)
            row == scan.returned = "row"
            Reached(k) == \A j \in Range(scan.behind) : Precedes(j, k)
        IN  /\ row => /\ KeyOf(scan) \in scan.wanted /\ Reached(KeyOf(scan))
                      /\ scan.children[scan.current].data.value \in past[KeyOf(scan)] \ {NoValue}
            /\ \A k \in scan.wanted :
                   Reached(k) /\ (row => Precedes(k, KeyOf(scan))) => NoValue \in past[k]

\* get answers a key's newest value; it answers that the key is not there
\* only when it is not, or when the object of a file has vanished.
GetIsExact ==
    /\ got.status = "Ok" => got.value = content[got.key] /\ got.value # NoValue
    /\ got.status = "NotFound" =>
           content[got.key] = NoValue \/ \E f \in InVersion : object[f].is = "gone"

\* "Absence is an answer, not an error": a failure is never answered as the
\* absence of a key that is there.
AbsenceIsAnAnswer == got.status = "NotFound" => content[got.key] = NoValue
=============================================================================
