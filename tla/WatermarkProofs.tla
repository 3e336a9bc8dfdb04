--------------------------- MODULE WatermarkProofs ---------------------------
(***************************************************************************)
(* Recovery restores the state the log says, whatever was lost.            *)
(*                                                                         *)
(* The state reads as the log says up to the cursor only while the store   *)
(* is open, so the invariant says what the files alone guarantee in every  *)
(* phase.  Certified is the set of positions an open may report without    *)
(* losing anything: those up to some file's high, none above the floor.    *)
(* For each of them (Recoverable) a key with no entry beyond it already    *)
(* reads from the files as the whole log says.  Sound relates a file's or  *)
(* memtable's entries to its interval: all lie above low, so dropping the  *)
(* file touches no key that ends by low; this is why Discard may lower the *)
(* floor to the least low and why the gauge survives.  Serving adds, of an *)
(* open store, that the memtables hold only entries beyond every certified *)
(* position, so that a flush adds none that a lower position would hide,   *)
(* and Discarding that during an open the floor already is such a position *)
(* for the files that are left.                                            *)
(*                                                                         *)
(* The proof has one lemma per action.  Most need that a source's answers  *)
(* do not change when the log grows, and that a merge of adjacent files    *)
(* answers as they did.                                                    *)
(***************************************************************************)
EXTENDS Watermark, FiniteSetTheorems, WellFoundedInduction, TLAPS

-----------------------------------------------------------------------------
(* The operators of Watermark that read the log, of any log L: the proofs  *)
(* use them of the log before and after a step.                            *)

Holds(L, source, k) == \E p \in source.writes : L[p].key = k
Entry(L, source, k) == CHOOSE p \in source.writes : L[p].key = k
Has(L, s, k) == \E i \in DOMAIN s : Holds(L, s[i], k)
Newest(L, s, k) ==
  LET hits == {i \in DOMAIN s : Holds(L, s[i], k)}
  IN IF hits = {} THEN 0 ELSE Entry(L, s[Min(hits)], k)
Reads(L, p) == IF p = 0 THEN 0 ELSE IF L[p].del THEN 0 ELSE p

Entries(L, k) == {p \in DOMAIN L : L[p].key = k}
Expected(L, k) == Reads(L, IF Entries(L, k) = {} THEN 0 ELSE Max(Entries(L, k)))

\* k has no entry beyond m
Settled(L, k, m) == \A p \in Entries(L, k) : p <= m

\* what a sequence of files answers, and what it answers under one memtable
Stored(L, s, k) == Reads(L, Newest(L, s, k))
Under(L, table, s, k) ==
  IF Holds(L, table, k) THEN Reads(L, Entry(L, table, k)) ELSE Stored(L, s, k)

\* what get answers
Look(L, live, sealed, s, k) == Reads(L, Newest(L, <<live>> \o Waiting(sealed) \o s, k))

\* replaying what follows m onto the files gives the state of the whole log
Restored(L, s, m) == \A k \in Key : Settled(L, k, m) => Stored(L, s, k) = Expected(L, k)

HighsOf(s) == UNION {s[i].high : i \in DOMAIN s}
LogType == Seq([key : Key, del : BOOLEAN])

-----------------------------------------------------------------------------
(* The inductive invariant.                                                *)

\* the positions an open that loses nothing may report
Allowed(bounds, m) == \A bound \in bounds : \E p \in bound : m <= p
CertifiedBy(bounds, highs) ==
  {m \in Position : /\ Allowed(bounds, m)
                    /\ (\E h \in highs : m <= h) \/ (highs = {} /\ bounds # {})}
Certified == CertifiedBy(floor, HighsOf(files))

\* a source and its interval
Sound(L, source) ==
  /\ source.writes \subseteq DOMAIN L
  /\ \A p, q \in source.writes : L[p].key = L[q].key => p = q
  /\ \A l \in source.low, p \in source.writes : l < p
  /\ \A l \in source.low : \E h \in source.high : l <= h
  /\ \A h \in source.high : h <= Len(L)
AllSound(L, s) == \A i \in DOMAIN s : Sound(L, s[i])

\* what survives a crash
Recoverable ==
  /\ log \in LogType /\ Len(log) <= MaxLog
  /\ files \in Seq(FileType) /\ AllSound(log, files)
  /\ floor \in Optional(Optional(Position)) /\ \A bound \in floor : \A p \in bound : p <= Len(log)
  /\ \A m \in Certified : Restored(log, files, m)

\* what does not
Tables ==
  /\ cursor \in 0 .. Len(log)
  /\ mem \in MemtableType /\ Sound(log, mem)
  /\ imm \subseteq MemtableType /\ (\A s, t \in imm : s = t) /\ \A s \in imm : Sound(log, s)
  /\ established \in Optional(Position)
  /\ discarded \subseteq Optional(Position)

\* an open store reads as the log says up to the cursor, and the memtables hold only what no
\* certified position covers
Serving ==
  /\ discarded = {}
  /\ \A x \in established \cup mem.low \cup mem.high : x <= cursor
  /\ \A k \in Key : Settled(log, k, cursor) => Look(log, mem, imm, files, k) = Expected(log, k)
  /\ \A m \in Certified : m <= cursor /\ \A p \in mem.writes : m < p
  /\ \A s \in imm :
       /\ \A m \in Certified, p \in s.writes : m < p
       /\ \A h \in s.high :
            /\ h <= cursor /\ \A p \in mem.writes : h < p
            /\ \A k \in Key : Settled(log, k, h) => Under(log, s, files, k) = Expected(log, k)

\* between a discard and the end of the open, the floor is the position to resume after
Discarding ==
  discarded # {} =>
    /\ floor # {}
    /\ \A bound \in floor : \A p \in bound :
         Restored(log, files, p) /\ \A d \in discarded : \A l \in d : p <= l

Inv ==
  /\ Recoverable /\ Tables
  /\ phase \in {"down", "opening", "open"}
  /\ phase # "open" => imm = {} /\ Discarding
  /\ phase = "down" => discarded = {}
  /\ phase = "open" => Serving

-----------------------------------------------------------------------------
(* Least and greatest positions.                                           *)

Lower == {d \in Nat \X Nat : d[1] < d[2]}

LEMMA HasMin ==
  ASSUME NEW S \in SUBSET Nat, S # {}
  PROVE  Min(S) \in S /\ \A y \in S : Min(S) <= y
<1>1. IsWellFoundedOn(Lower, Nat)
  <2>1. OpToRel(<, Nat) = Lower
    BY Zenon DEF OpToRel, Lower
  <2> QED BY <2>1, NatLessThanWellFounded, Zenon
<1>2. PICK x \in S : \A y \in S : ~(<<y, x>> \in Lower)
  BY <1>1, WFMin, Zenon
<1>3. ASSUME NEW y \in S PROVE x <= y
  <2>1. x \in Nat /\ y \in Nat
    OBVIOUS
  <2>2. y < x => <<y, x>> \in Lower
    BY <2>1, Zenon DEF Lower
  <2> QED BY <1>2, <2>1, <2>2
<1> QED BY <1>3, Zenon DEF Min

LEMMA HasMax ==
  ASSUME NEW n \in Nat, NEW S \in SUBSET (0 .. n), S # {}
  PROVE  Max(S) \in S /\ \A y \in S : y <= Max(S)
<1> DEFINE T == {n - y : y \in S}
<1>1. T \in SUBSET Nat /\ T # {}
  <2>1. T \in SUBSET Nat
    BY DEF T
  <2>2. PICK y \in S : TRUE
    BY Zenon
  <2>3. n - y \in T
    BY <2>2, Zenon
  <2> QED BY <2>1, <2>3, Zenon
<1>2. Min(T) \in T /\ \A z \in T : Min(T) <= z
  BY <1>1, HasMin, Zenon
<1>3. PICK x \in S : Min(T) = n - x
  BY <1>2, Zenon
<1>4. \A y \in S : n - y \in T
  OBVIOUS
<1>5. \A y \in S : n - x <= n - y
  BY <1>2, <1>3, <1>4, Zenon
<1>6. \A y \in S : x >= y
  BY <1>5
<1>7. Max(S) \in S /\ \A y \in S : Max(S) >= y
  BY <1>6, Zenon DEF Max
<1> QED BY <1>7, Zenon

LEMMA PositionMin ==
  ASSUME NEW S \in SUBSET Position, S # {}
  PROVE  Min(S) \in S /\ \A y \in S : Min(S) <= y
BY HasMin, TiersAssumption DEF Position

LEMMA PositionMax ==
  ASSUME NEW S \in SUBSET Position, S # {}
  PROVE  Max(S) \in S /\ \A y \in S : y <= Max(S)
BY HasMax, TiersAssumption, Zenon DEF Position

\* An optional that is one of the elements and least, or greatest, among them.
LEMMA LeastIs ==
  ASSUME NEW S \in SUBSET Position
  PROVE  /\ Least(S) \in Optional(Position)
         /\ Least(S) = {} => S = {}
         /\ \A l \in Least(S) : l \in S /\ \A y \in S : l <= y
<1>1. CASE S = {}
  BY <1>1, Zenon DEF Least, Optional
<1>2. CASE S # {}
  <2>1. Least(S) = {Min(S)} /\ Min(S) \in Position
    BY <1>2, PositionMin, Zenon DEF Least
  <2>2. Least(S) \in Optional(Position) /\ Least(S) # {}
    BY <2>1, Zenon DEF Optional
  <2>3. \A y \in S : Min(S) <= y
    BY <1>2, PositionMin, Zenon
  <2>4. Min(S) \in S
    BY <1>2, PositionMin, Zenon
  <2> QED BY <2>1, <2>2, <2>3, <2>4, Zenon
<1> QED BY <1>1, <1>2, Zenon

LEMMA GreatestIs ==
  ASSUME NEW S \in SUBSET Position
  PROVE  /\ Greatest(S) \in Optional(Position)
         /\ Greatest(S) = {} => S = {}
         /\ \A h \in Greatest(S) : h \in S /\ \A y \in S : y <= h
<1>1. CASE S = {}
  BY <1>1, Zenon DEF Greatest, Optional
<1>2. CASE S # {}
  <2>1. Greatest(S) = {Max(S)} /\ Max(S) \in Position
    BY <1>2, PositionMax, Zenon DEF Greatest
  <2>2. Greatest(S) \in Optional(Position) /\ Greatest(S) # {}
    BY <2>1, Zenon DEF Optional
  <2>3. \A y \in S : y <= Max(S)
    BY <1>2, PositionMax, Zenon
  <2>4. Max(S) \in S
    BY <1>2, PositionMax, Zenon
  <2> QED BY <2>1, <2>2, <2>3, <2>4, Zenon
<1> QED BY <1>1, <1>2, Zenon

LEMMA OptionalUnion ==
  ASSUME NEW F \in SUBSET Optional(Position)
  PROVE  UNION F \in SUBSET Position
BY Zenon DEF Optional

\* What the lower bounds of a family of sources leave certifiable.
LEMMA LeastOrAbsentIs ==
  ASSUME NEW F \in SUBSET Optional(Position)
  PROVE  /\ LeastOrAbsent(F) \in Optional(Position)
         /\ \A l \in LeastOrAbsent(F) :
              /\ F # {}
              /\ \A d \in F : d # {} /\ \A x \in d : l <= x
<1>1. CASE {} \in F
  BY <1>1, Zenon DEF LeastOrAbsent, Optional
<1>2. CASE {} \notin F
  <2>1. UNION F \in SUBSET Position
    BY OptionalUnion, Zenon
  <2>2. LeastOrAbsent(F) = Least(UNION F)
    BY <1>2, Zenon DEF LeastOrAbsent, LeastPresent
  <2>3. LeastOrAbsent(F) \in Optional(Position)
    BY <2>1, <2>2, LeastIs, Zenon
  <2>4. ASSUME NEW l \in LeastOrAbsent(F)
        PROVE  F # {} /\ \A d \in F : d # {} /\ \A x \in d : l <= x
    <3>1. l \in UNION F /\ \A y \in UNION F : l <= y
      BY <2>1, <2>2, <2>4, LeastIs, Zenon
    <3> QED BY <1>2, <3>1, Zenon
  <2> QED BY <2>3, <2>4, Zenon
<1> QED BY <1>1, <1>2, Zenon

-----------------------------------------------------------------------------
(* The newest entry of a sequence of sources.                              *)

Indexed(s) == DOMAIN s \subseteq Nat

\* the first of the sources with an entry for k
First(L, s, k, i) ==
  i \in DOMAIN s /\ Holds(L, s[i], k) /\ \A j \in DOMAIN s : j < i => ~Holds(L, s[j], k)

\* p is the entry of a source for k
Only(L, source, k, p) ==
  p \in source.writes /\ L[p].key = k /\ \A q \in source.writes : L[q].key = k => q = p

LEMMA NewestAt ==
  ASSUME NEW L, NEW k, NEW s, Indexed(s), NEW i, First(L, s, k, i)
  PROVE  Newest(L, s, k) = Entry(L, s[i], k)
<1> DEFINE hits == {j \in DOMAIN s : Holds(L, s[j], k)}
<1>1. hits \in SUBSET Nat /\ i \in hits
  BY Zenon DEF First, Indexed
<1>2. Min(hits) \in hits /\ Min(hits) <= i
  BY <1>1, HasMin, Zenon
<1>3. Min(hits) \in Nat /\ i \in Nat /\ ~(Min(hits) < i)
  BY <1>1, <1>2, Zenon DEF First
<1>4. Min(hits) = i
  <2> HIDE DEF hits
  <2> QED BY <1>2, <1>3
<1> QED BY <1>1, <1>4, Zenon DEF Newest

LEMMA NewestNone ==
  ASSUME NEW L, NEW k, NEW s, ~Has(L, s, k) PROVE Newest(L, s, k) = 0
BY Zenon DEF Newest, Has

LEMMA FirstHit ==
  ASSUME NEW L, NEW k, NEW s, Indexed(s), Has(L, s, k)
  PROVE  \E i : First(L, s, k, i)
<1> DEFINE hits == {j \in DOMAIN s : Holds(L, s[j], k)}
<1>1. hits \in SUBSET Nat /\ hits # {}
  BY Zenon DEF Has, Indexed
<1>2. Min(hits) \in hits /\ \A y \in hits : Min(hits) <= y
  BY <1>1, HasMin, Zenon
<1>3. \A j \in DOMAIN s : j < Min(hits) => ~Holds(L, s[j], k)
  <2> SUFFICES ASSUME NEW j \in hits, j < Min(hits) PROVE FALSE
    BY Zenon
  <2>1. Min(hits) <= j /\ j \in Nat /\ Min(hits) \in Nat
    BY <1>1, <1>2, Zenon
  <2> HIDE DEF hits
  <2> QED BY <2>1
<1> QED BY <1>2, <1>3, Zenon DEF First

LEMMA EntryIs ==
  ASSUME NEW L, NEW k, NEW source, NEW p, Only(L, source, k, p)
  PROVE  Holds(L, source, k) /\ Entry(L, source, k) = p
BY Zenon DEF Holds, Entry, Only

LEMMA EntryOf ==
  ASSUME NEW L, NEW k, NEW source, Holds(L, source, k)
  PROVE  Entry(L, source, k) \in source.writes /\ L[Entry(L, source, k)].key = k
BY Zenon DEF Holds, Entry

LEMMA NewestOf ==
  ASSUME NEW L, NEW k, NEW s, Indexed(s), Has(L, s, k)
  PROVE  \E i \in DOMAIN s : Newest(L, s, k) \in s[i].writes /\ L[Newest(L, s, k)].key = k
<1>1. PICK i : First(L, s, k, i)
  BY FirstHit, Zenon
<1>2. Newest(L, s, k) = Entry(L, s[i], k)
  BY <1>1, NewestAt, Zenon
<1>3. i \in DOMAIN s /\ Holds(L, s[i], k)
  BY <1>1, Zenon DEF First
<1>4. Entry(L, s[i], k) \in s[i].writes /\ L[Entry(L, s[i], k)].key = k
  BY <1>3, EntryOf, Zenon
<1> QED BY <1>2, <1>3, <1>4, Zenon

LEMMA SeqDomain ==
  ASSUME NEW X, NEW s \in Seq(X)
  PROVE  DOMAIN s = 1 .. Len(s) /\ Len(s) \in Nat /\ Indexed(s)
BY DEF Indexed

AnySource == MemtableType \cup FileType

LEMMA ConcatSeq ==
  ASSUME NEW s \in Seq(AnySource), NEW t \in Seq(AnySource)
  PROVE  s \o t \in Seq(AnySource)
OBVIOUS

LEMMA Concat ==
  ASSUME NEW L, NEW k, NEW s \in Seq(AnySource), NEW t \in Seq(AnySource)
  PROVE  /\ s \o t \in Seq(AnySource)
         /\ Has(L, s \o t, k) <=> Has(L, s, k) \/ Has(L, t, k)
         /\ Has(L, s, k) => Newest(L, s \o t, k) = Newest(L, s, k)
         /\ ~Has(L, s, k) => Newest(L, s \o t, k) = Newest(L, t, k)
<1>1. /\ s \o t \in Seq(AnySource) /\ Indexed(s \o t)
      /\ Indexed(s) /\ Indexed(t)
      /\ DOMAIN s = 1 .. Len(s) /\ DOMAIN t = 1 .. Len(t) /\ Len(s) \in Nat /\ Len(t) \in Nat
      /\ DOMAIN (s \o t) = 1 .. Len(s) + Len(t)
  BY DEF Indexed
<1>2. \A i \in DOMAIN s : i \in DOMAIN (s \o t) /\ (s \o t)[i] = s[i]
  OBVIOUS
<1>3. \A i \in DOMAIN t : Len(s) + i \in DOMAIN (s \o t) /\ (s \o t)[Len(s) + i] = t[i]
  OBVIOUS
<1>4. ASSUME NEW i \in DOMAIN (s \o t)
      PROVE  \/ i \in DOMAIN s /\ (s \o t)[i] = s[i]
             \/ \E j \in DOMAIN t : i = Len(s) + j /\ (s \o t)[i] = t[j]
  <2>1. CASE i <= Len(s)
    BY <1>1, <1>2, <2>1
  <2>2. CASE Len(s) < i
    <3>1. i - Len(s) \in DOMAIN t /\ i = Len(s) + (i - Len(s))
      BY <1>1, <2>2
    <3> QED BY <1>3, <3>1, Zenon
  <2> QED BY <1>1, <2>1, <2>2
<1>5. Has(L, s \o t, k) <=> Has(L, s, k) \/ Has(L, t, k)
  BY <1>2, <1>3, <1>4, Zenon DEF Has
<1>6. ASSUME Has(L, s, k) PROVE Newest(L, s \o t, k) = Newest(L, s, k)
  <2>1. PICK i : First(L, s, k, i)
    BY <1>1, <1>6, FirstHit, Zenon
  <2>2. i \in DOMAIN s /\ \A j \in DOMAIN (s \o t) : j < i => j \in DOMAIN s
    BY <1>1, <2>1 DEF First
  <2>3. Newest(L, s, k) = Entry(L, s[i], k)
    BY <1>1, <2>1, NewestAt, Zenon
  <2>4. First(L, s \o t, k, i)
    BY <1>2, <2>1, <2>2, Zenon DEF First
  <2>5. Newest(L, s \o t, k) = Entry(L, (s \o t)[i], k)
    BY <1>1, <2>4, NewestAt, Zenon
  <2> QED BY <1>2, <2>2, <2>3, <2>5, Zenon
<1>7. ASSUME ~Has(L, s, k) PROVE Newest(L, s \o t, k) = Newest(L, t, k)
  <2>1. CASE ~Has(L, t, k)
    BY <1>5, <1>7, <2>1, NewestNone, Zenon
  <2>2. CASE Has(L, t, k)
    <3>1. PICK i : First(L, t, k, i)
      BY <1>1, <2>2, FirstHit, Zenon
    <3>2. Newest(L, t, k) = Entry(L, t[i], k)
      BY <1>1, <3>1, NewestAt, Zenon
    <3>3. ASSUME NEW j \in DOMAIN (s \o t), j < Len(s) + i PROVE ~Holds(L, (s \o t)[j], k)
      <4>1. CASE j \in DOMAIN s /\ (s \o t)[j] = s[j]
        BY <1>7, <4>1, Zenon DEF Has
      <4>2. ASSUME NEW n \in DOMAIN t, j = Len(s) + n, (s \o t)[j] = t[n]
            PROVE  ~Holds(L, (s \o t)[j], k)
        <5>1. i \in DOMAIN t
          BY <3>1, Zenon DEF First
        <5>2. n < i
          BY <1>1, <3>3, <4>2, <5>1
        <5> QED BY <3>1, <4>2, <5>2, Zenon DEF First
      <4> QED BY <1>4, <4>1, <4>2, Zenon
    <3>4. First(L, s \o t, k, Len(s) + i)
      BY <1>3, <3>1, <3>3, Zenon DEF First
    <3>5. Newest(L, s \o t, k) = Entry(L, (s \o t)[Len(s) + i], k)
      BY <1>1, <3>4, NewestAt, Zenon
    <3> QED BY <1>3, <3>1, <3>2, <3>5, Zenon DEF First
  <2> QED BY <2>1, <2>2, Zenon
<1> QED BY <1>1, <1>5, <1>6, <1>7, Zenon

LEMMA ConcatHas ==
  ASSUME NEW L, NEW k, NEW s \in Seq(AnySource), NEW t \in Seq(AnySource)
  PROVE  Has(L, s \o t, k) <=> Has(L, s, k) \/ Has(L, t, k)
BY Concat, Zenon

LEMMA ConcatFirst ==
  ASSUME NEW L, NEW k, NEW s \in Seq(AnySource), NEW t \in Seq(AnySource), Has(L, s, k)
  PROVE  Newest(L, s \o t, k) = Newest(L, s, k)
<1>1. Has(L, s, k) => Newest(L, s \o t, k) = Newest(L, s, k)
  BY Concat
<1> QED BY <1>1, Zenon

LEMMA ConcatSecond ==
  ASSUME NEW L, NEW k, NEW s \in Seq(AnySource), NEW t \in Seq(AnySource), ~Has(L, s, k)
  PROVE  Newest(L, s \o t, k) = Newest(L, t, k)
<1>1. ~Has(L, s, k) => Newest(L, s \o t, k) = Newest(L, t, k)
  BY Concat
<1> QED BY <1>1, Zenon

LEMMA One ==
  ASSUME NEW L, NEW k, NEW x \in AnySource
  PROVE  /\ <<x>> \in Seq(AnySource)
         /\ Has(L, <<x>>, k) <=> Holds(L, x, k)
         /\ Holds(L, x, k) => Newest(L, <<x>>, k) = Entry(L, x, k)
<1>1. <<x>> \in Seq(AnySource) /\ DOMAIN <<x>> = {1} /\ <<x>>[1] = x /\ Indexed(<<x>>)
  BY DEF Indexed
<1>2. \A j \in DOMAIN <<x>> : ~(j < 1)
  BY <1>1
<1>3. Has(L, <<x>>, k) <=> Holds(L, x, k)
  BY <1>1, Zenon DEF Has
<1>4. ASSUME Holds(L, x, k) PROVE Newest(L, <<x>>, k) = Entry(L, x, k)
  <2>1. First(L, <<x>>, k, 1)
    BY <1>1, <1>2, <1>4, Zenon DEF First
  <2> QED BY <1>1, <2>1, NewestAt, Zenon
<1> QED BY <1>1, <1>3, <1>4, Zenon

LEMMA None ==
  ASSUME NEW L, NEW k
  PROVE  <<>> \in Seq(AnySource) /\ ~Has(L, <<>>, k)
<1>1. <<>> \in Seq(AnySource) /\ DOMAIN <<>> = {}
  OBVIOUS
<1> QED BY <1>1, Zenon DEF Has

LEMMA LogOperators ==
  /\ \A s, k : NewestIn(s, k) = Newest(log, s, k)
  /\ \A p : Answer(p) = Reads(log, p)
  /\ \A k : Applied(k) = Expected(log, k)
  /\ \A k : Get(k) = Look(log, mem, imm, files, k)
  /\ \A k, m : Settled(log, k, m) <=> \A p \in Written(k) : p <= m
<1>1. \A s, k : NewestIn(s, k) = Newest(log, s, k)
  BY Zenon DEF NewestIn, Newest, Holds, Entry
<1>2. \A p : Answer(p) = Reads(log, p)
  BY Zenon DEF Answer, Reads
<1>3. \A k : Written(k) = Entries(log, k)
  BY Zenon DEF Written, Entries
<1>4. \A k : Applied(k) = Expected(log, k)
  BY <1>2, <1>3, Zenon DEF Applied, Expected
<1>5. \A k : Get(k) = Look(log, mem, imm, files, k)
  BY <1>1, <1>2, Zenon DEF Get, Look, Sources
<1>6. \A k, m : Settled(log, k, m) <=> \A p \in Written(k) : p <= m
  BY <1>3, Zenon DEF Settled
<1> QED BY <1>1, <1>2, <1>4, <1>5, <1>6, Zenon

LEMMA SealedSeq ==
  ASSUME NEW sealed, \A s, t \in sealed : s = t
  PROVE  /\ sealed = {} => Waiting(sealed) = <<>>
         /\ \A s \in sealed : Waiting(sealed) = <<s>>
<1>1. ASSUME NEW s \in sealed PROVE Waiting(sealed) = <<s>>
  <2>1. (CHOOSE table \in sealed : TRUE) = s
    BY Zenon
  <2> QED BY <2>1, Zenon DEF Waiting
<1> QED BY <1>1, Zenon DEF Waiting

LEMMA LookIs ==
  ASSUME NEW L, NEW k, NEW live \in MemtableType, NEW sealed \in SUBSET MemtableType,
         \A s, t \in sealed : s = t, NEW f \in Seq(FileType)
  PROVE  /\ Holds(L, live, k) => Look(L, live, sealed, f, k) = Reads(L, Entry(L, live, k))
         /\ ~Holds(L, live, k) /\ sealed = {} => Look(L, live, sealed, f, k) = Stored(L, f, k)
         /\ ~Holds(L, live, k) => \A s \in sealed : Look(L, live, sealed, f, k) = Under(L, s, f, k)
<1> DEFINE i == Waiting(sealed)
<1>1. live \in AnySource /\ f \in Seq(AnySource) /\ \A s \in sealed : s \in AnySource
  BY DEF AnySource
<1>2. i \in Seq(AnySource)
  <2>1. CASE sealed = {}
    BY <2>1, SealedSeq, None, Zenon
  <2>2. ASSUME NEW s \in sealed PROVE i \in Seq(AnySource)
    <3>1. <<s>> \in Seq(AnySource)
      BY <1>1, One, Zenon
    <3> QED BY <3>1, SealedSeq, Zenon
  <2> QED BY <2>1, <2>2, Zenon
<1> HIDE DEF i
<1>3. <<live>> \in Seq(AnySource) /\ <<live>> \o i \in Seq(AnySource)
  BY <1>1, <1>2, One, ConcatSeq, Zenon
<1>4. Look(L, live, sealed, f, k) = Reads(L, Newest(L, (<<live>> \o i) \o f, k))
  BY Zenon DEF Look, i
<1>5. ASSUME Holds(L, live, k)
      PROVE  Look(L, live, sealed, f, k) = Reads(L, Entry(L, live, k))
  <2>1. Has(L, <<live>>, k) /\ Newest(L, <<live>>, k) = Entry(L, live, k)
    BY <1>1, <1>5, One, Zenon
  <2>2. Has(L, <<live>> \o i, k) /\ Newest(L, <<live>> \o i, k) = Newest(L, <<live>>, k)
    BY <1>2, <1>3, <2>1, ConcatHas, ConcatFirst, Zenon
  <2>3. Newest(L, (<<live>> \o i) \o f, k) = Newest(L, <<live>> \o i, k)
    BY <1>1, <1>3, <2>2, ConcatFirst, Zenon
  <2> QED BY <1>4, <2>1, <2>2, <2>3, Zenon
<1>6. ASSUME ~Holds(L, live, k), sealed = {}
      PROVE  Look(L, live, sealed, f, k) = Stored(L, f, k)
  <2>1. ~Has(L, <<live>>, k) /\ ~Has(L, i, k)
    <3>1. i = <<>>
      BY <1>6, SealedSeq, Zenon DEF i
    <3>2. ~Has(L, <<live>>, k)
      BY <1>1, <1>6, One, Zenon
    <3> QED BY <3>1, <3>2, None, Zenon
  <2>2. ~Has(L, <<live>> \o i, k)
    BY <1>2, <1>3, <2>1, ConcatHas, Zenon
  <2>3. Newest(L, (<<live>> \o i) \o f, k) = Newest(L, f, k)
    BY <1>1, <1>3, <2>2, ConcatSecond, Zenon
  <2> QED BY <1>4, <2>3, Zenon DEF Stored
<1>7. ASSUME ~Holds(L, live, k), NEW s \in sealed
      PROVE  Look(L, live, sealed, f, k) = Under(L, s, f, k)
  <2>1. ~Has(L, <<live>>, k) /\ i = <<s>> /\ (Has(L, i, k) <=> Holds(L, s, k))
    <3>1. i = <<s>>
      BY <1>7, SealedSeq, Zenon DEF i
    <3>2. ~Has(L, <<live>>, k)
      BY <1>1, <1>7, One, Zenon
    <3>3. Has(L, <<s>>, k) <=> Holds(L, s, k)
      BY <1>1, One, Zenon
    <3> QED BY <3>1, <3>2, <3>3, Zenon
  <2>2. /\ Has(L, <<live>> \o i, k) <=> Holds(L, s, k)
        /\ Newest(L, <<live>> \o i, k) = Newest(L, i, k)
    BY <1>2, <1>3, <2>1, ConcatHas, ConcatSecond, Zenon
  <2>3. CASE Holds(L, s, k)
    <3>1. Newest(L, i, k) = Entry(L, s, k)
      BY <1>1, <2>1, <2>3, One, Zenon
    <3>2. Newest(L, (<<live>> \o i) \o f, k) = Newest(L, <<live>> \o i, k)
      BY <1>1, <1>3, <2>2, <2>3, ConcatFirst, Zenon
    <3> QED BY <1>4, <2>2, <2>3, <3>1, <3>2, Zenon DEF Under
  <2>4. CASE ~Holds(L, s, k)
    <3>1. Newest(L, (<<live>> \o i) \o f, k) = Newest(L, f, k)
      BY <1>1, <1>3, <2>2, <2>4, ConcatSecond, Zenon
    <3> QED BY <1>4, <2>4, <3>1, Zenon DEF Under, Stored
  <2> QED BY <2>3, <2>4, Zenon
<1> QED BY <1>5, <1>6, <1>7, Zenon

LEMMA LookBare ==
  ASSUME NEW L, NEW k, NEW live \in MemtableType, NEW f \in Seq(FileType), ~Holds(L, live, k)
  PROVE  Look(L, live, {}, f, k) = Stored(L, f, k)
<1>1. PICK sealed \in SUBSET MemtableType : sealed = {}
  OBVIOUS
<1>2. \A s, t \in sealed : s = t
  BY <1>1, Zenon
<1>3. Look(L, live, sealed, f, k) = Stored(L, f, k)
  BY <1>1, <1>2, LookIs, Zenon
<1> QED BY <1>1, <1>3, Zenon

\* The same hits give the same newest entry, in two sequences and even of two logs.
SameHits(L, s, M, t, k) ==
  /\ DOMAIN t = DOMAIN s
  /\ \A i \in DOMAIN s : /\ Holds(M, t[i], k) <=> Holds(L, s[i], k)
                         /\ Holds(L, s[i], k) => Entry(M, t[i], k) = Entry(L, s[i], k)

LEMMA Alike ==
  ASSUME NEW L, NEW M, NEW k, NEW s, NEW t, Indexed(s), SameHits(L, s, M, t, k)
  PROVE  Newest(M, t, k) = Newest(L, s, k)
<1>1. CASE ~Has(L, s, k)
  <2>1. ~Has(M, t, k)
    BY <1>1, Zenon DEF Has, SameHits
  <2> QED BY <1>1, <2>1, NewestNone, Zenon
<1>2. CASE Has(L, s, k)
  <2>1. PICK i : First(L, s, k, i)
    BY <1>2, FirstHit, Zenon
  <2>2. Newest(L, s, k) = Entry(L, s[i], k)
    BY <2>1, NewestAt, Zenon
  <2>3. First(M, t, k, i) /\ Indexed(t)
    BY <2>1, Zenon DEF First, SameHits, Indexed
  <2>4. Newest(M, t, k) = Entry(M, t[i], k)
    BY <2>3, NewestAt, Zenon
  <2> QED BY <2>1, <2>2, <2>4, Zenon DEF First, SameHits
<1> QED BY <1>1, <1>2, Zenon

\* A subsequence that keeps every hit has the same newest entry.
Subsequence(s, t, order) ==
  /\ DOMAIN t = DOMAIN order
  /\ \A n \in DOMAIN order : order[n] \in DOMAIN s /\ t[n] = s[order[n]]
  /\ \A m, n \in DOMAIN order : m < n => order[m] < order[n]

LEMMA SubsequenceNewest ==
  ASSUME NEW L, NEW k, NEW s, Indexed(s), NEW t, Indexed(t), NEW order, Subsequence(s, t, order),
         \A i \in DOMAIN s : Holds(L, s[i], k) => i \in Range(order)
  PROVE  Newest(L, t, k) = Newest(L, s, k)
<1>1. CASE ~Has(L, s, k)
  <2>1. ~Has(L, t, k)
    BY <1>1, Zenon DEF Has, Subsequence
  <2> QED BY <1>1, <2>1, NewestNone, Zenon
<1>2. CASE Has(L, s, k)
  <2>1. PICK i : First(L, s, k, i)
    BY <1>2, FirstHit, Zenon
  <2>2. Newest(L, s, k) = Entry(L, s[i], k)
    BY <2>1, NewestAt, Zenon
  <2>3. PICK n \in DOMAIN order : order[n] = i
    BY <2>1, Zenon DEF Range, First
  <2>4. n \in DOMAIN t /\ t[n] = s[i]
    BY <2>3, Zenon DEF Subsequence
  <2>5. \A m \in DOMAIN t : m < n => ~Holds(L, t[m], k)
    BY <2>1, <2>3, Zenon DEF Subsequence, First
  <2>6. First(L, t, k, n)
    BY <2>1, <2>4, <2>5, Zenon DEF First
  <2>7. Newest(L, t, k) = Entry(L, t[n], k)
    BY <2>6, NewestAt, Zenon
  <2> QED BY <2>2, <2>4, <2>7, Zenon
<1> QED BY <1>1, <1>2, Zenon

-----------------------------------------------------------------------------
(* A log and the log it grows into.                                        *)

LEMMA EntriesIn ==
  ASSUME NEW L \in LogType, NEW k
  PROVE  /\ Entries(L, k) \in SUBSET (0 .. Len(L)) /\ Len(L) \in Nat
         /\ Entries(L, k) \subseteq DOMAIN L /\ Entries(L, k) \subseteq Nat /\ 0 \notin Entries(L, k)
<1>1. DOMAIN L \subseteq 0 .. Len(L) /\ Len(L) \in Nat /\ DOMAIN L \subseteq Nat /\ 0 \notin DOMAIN L
  BY DEF LogType
<1>2. Entries(L, k) \subseteq DOMAIN L
  BY Zenon DEF Entries
<1> QED BY <1>1, <1>2, Zenon

LEMMA SettledBelow ==
  ASSUME NEW L \in LogType, NEW k, NEW m \in Nat, NEW n \in Nat, m <= n, Settled(L, k, m)
  PROVE  Settled(L, k, n)
<1>1. Entries(L, k) \subseteq Nat
  BY EntriesIn, Zenon
<1> QED BY <1>1 DEF Settled

LEMMA RestoredBelow ==
  ASSUME NEW L \in LogType, NEW s, NEW m \in Nat, NEW n \in Nat, m <= n, Restored(L, s, n)
  PROVE  Restored(L, s, m)
BY SettledBelow, Zenon DEF Restored

\* The last entry of a key is what it reads.
LEMMA ExpectedIs ==
  ASSUME NEW L \in LogType, NEW k, NEW p \in Entries(L, k), Settled(L, k, p)
  PROVE  Expected(L, k) = Reads(L, p)
<1>1. /\ Entries(L, k) \in SUBSET (0 .. Len(L)) /\ Len(L) \in Nat /\ Entries(L, k) # {}
      /\ Entries(L, k) \subseteq Nat
  BY EntriesIn, Zenon
<1>2. Max(Entries(L, k)) \in Entries(L, k) /\ \A y \in Entries(L, k) : y <= Max(Entries(L, k))
  BY <1>1, HasMax, Zenon
<1>3. Max(Entries(L, k)) <= p /\ p <= Max(Entries(L, k)) /\ p \in Nat /\ Max(Entries(L, k)) \in Nat
  BY <1>1, <1>2, Zenon DEF Settled
<1>4. Max(Entries(L, k)) = p
  BY <1>3
<1> QED BY <1>1, <1>4, Zenon DEF Expected

LEMMA ExpectedNone ==
  ASSUME NEW L, NEW k, Entries(L, k) = {} PROVE Expected(L, k) = 0
BY Zenon DEF Expected, Reads

LEMMA ExpectedMax ==
  ASSUME NEW L \in LogType, NEW k, Entries(L, k) # {}
  PROVE  \E p \in Entries(L, k) : Settled(L, k, p)
<1>1. Entries(L, k) \in SUBSET (0 .. Len(L)) /\ Len(L) \in Nat
  BY EntriesIn, Zenon
<1>2. Max(Entries(L, k)) \in Entries(L, k) /\ \A y \in Entries(L, k) : y <= Max(Entries(L, k))
  BY <1>1, HasMax, Zenon
<1> QED BY <1>2, Zenon DEF Settled

Grows(L, M) == Len(L) <= Len(M) /\ \A i \in DOMAIN L : M[i] = L[i]

LEMMA ExpectedGrows ==
  ASSUME NEW L \in LogType, NEW M \in LogType, Grows(L, M), NEW k, NEW h \in Nat, h <= Len(L),
         Settled(M, k, h)
  PROVE  Settled(L, k, h) /\ Expected(M, k) = Expected(L, k)
<1>1. Entries(M, k) = Entries(L, k)
  <2>1. DOMAIN L = 1 .. Len(L) /\ DOMAIN M = 1 .. Len(M) /\ Len(L) \in Nat /\ Len(M) \in Nat
    BY DEF LogType
  <2>2. DOMAIN L \subseteq DOMAIN M /\ \A p \in DOMAIN M : p <= h => p \in DOMAIN L
    BY <2>1 DEF Grows
  <2>3. \A p \in DOMAIN L : M[p].key = L[p].key
    BY Zenon DEF Grows
  <2>4. \A p \in Entries(M, k) : p \in DOMAIN L
    BY <2>2, Zenon DEF Settled, Entries
  <2> QED BY <2>2, <2>3, <2>4, Zenon DEF Entries
<1>2. Settled(L, k, h)
  BY <1>1, Zenon DEF Settled
<1>3. CASE Entries(L, k) = {}
  BY <1>1, <1>2, <1>3, ExpectedNone, Zenon
<1>4. CASE Entries(L, k) # {}
  <2>1. PICK p \in Entries(L, k) : Settled(L, k, p)
    BY <1>4, ExpectedMax, Zenon
  <2>2. p \in Entries(M, k) /\ Settled(M, k, p)
    BY <1>1, <2>1, Zenon DEF Settled
  <2>3. M[p] = L[p] /\ p # 0
    BY <2>1, EntriesIn, Zenon DEF Grows, Entries
  <2>4. Expected(L, k) = Reads(L, p)
    BY <2>1, ExpectedIs, Zenon
  <2>5. Expected(M, k) = Reads(M, p)
    BY <2>2, ExpectedIs, Zenon
  <2> QED BY <1>2, <2>3, <2>4, <2>5, Zenon DEF Reads
<1> QED BY <1>3, <1>4, Zenon

LEMMA HoldsGrows ==
  ASSUME NEW L, NEW M, Grows(L, M), NEW source, Sound(L, source), NEW k
  PROVE  /\ Holds(M, source, k) <=> Holds(L, source, k)
         /\ Holds(L, source, k) => Entry(M, source, k) = Entry(L, source, k)
<1>1. \A p \in source.writes : M[p] = L[p]
  BY Zenon DEF Sound, Grows
<1>2. Holds(M, source, k) <=> Holds(L, source, k)
  BY <1>1, Zenon DEF Holds
<1>3. ASSUME Holds(L, source, k) PROVE Entry(M, source, k) = Entry(L, source, k)
  <2>1. PICK p : Only(L, source, k, p)
    BY <1>3, Zenon DEF Holds, Only, Sound
  <2>2. Only(M, source, k, p)
    BY <1>1, <2>1, Zenon DEF Only
  <2> QED BY <2>1, <2>2, EntryIs, Zenon
<1> QED BY <1>2, <1>3, Zenon

LEMMA SoundGrows ==
  ASSUME NEW L \in LogType, NEW M \in LogType, Grows(L, M), NEW source, Sound(L, source),
         source.high \in SUBSET Nat
  PROVE  Sound(M, source)
<1>1. DOMAIN L \subseteq DOMAIN M /\ Len(L) \in Nat /\ Len(M) \in Nat /\ Len(L) <= Len(M)
  BY DEF LogType, Grows
<1>2. \A h \in source.high : h <= Len(M)
  BY <1>1 DEF Sound
<1> QED BY <1>1, <1>2, Zenon DEF Sound, Grows

LEMMA ReadsGrows ==
  ASSUME NEW L, NEW M, Grows(L, M), NEW p \in DOMAIN L \cup {0} PROVE Reads(M, p) = Reads(L, p)
BY Zenon DEF Reads, Grows

LEMMA StoredGrows ==
  ASSUME NEW L, NEW M, Grows(L, M), NEW k, NEW s, Indexed(s), AllSound(L, s)
  PROVE  Stored(M, s, k) = Stored(L, s, k)
<1>1. SameHits(L, s, M, s, k)
  <2> SUFFICES ASSUME NEW i \in DOMAIN s
               PROVE  /\ Holds(M, s[i], k) <=> Holds(L, s[i], k)
                      /\ Holds(L, s[i], k) => Entry(M, s[i], k) = Entry(L, s[i], k)
    BY Zenon DEF SameHits
  <2>1. Sound(L, s[i])
    BY Zenon DEF AllSound
  <2> QED BY <2>1, HoldsGrows
<1>2. Newest(M, s, k) = Newest(L, s, k)
  BY <1>1, Alike
<1>3. Newest(L, s, k) \in DOMAIN L \cup {0}
  <2>1. CASE Has(L, s, k)
    <3>1. PICK i \in DOMAIN s : Newest(L, s, k) \in s[i].writes
      BY <2>1, NewestOf, Zenon
    <3> QED BY <3>1, Zenon DEF Sound, AllSound
  <2>2. CASE ~Has(L, s, k)
    BY <2>2, NewestNone, Zenon
  <2> QED BY <2>1, <2>2, Zenon
<1> QED BY <1>2, <1>3, ReadsGrows, Zenon DEF Stored

LEMMA EntryGrows ==
  ASSUME NEW L, NEW M, Grows(L, M), NEW k, NEW table, Sound(L, table), Holds(L, table, k)
  PROVE  Reads(M, Entry(M, table, k)) = Reads(L, Entry(L, table, k))
<1>1. Entry(M, table, k) = Entry(L, table, k)
  BY HoldsGrows
<1>2. Entry(L, table, k) \in table.writes
  BY EntryOf, Zenon
<1>3. Entry(L, table, k) \in DOMAIN L \cup {0}
  BY <1>2, Zenon DEF Sound
<1> QED BY <1>1, <1>3, ReadsGrows, Zenon

LEMMA UnderGrows ==
  ASSUME NEW L, NEW M, Grows(L, M), NEW k, NEW s, Indexed(s), AllSound(L, s), NEW table, Sound(L, table)
  PROVE  Under(M, table, s, k) = Under(L, table, s, k)
<1>1. CASE Holds(L, table, k)
  <2>1. Reads(M, Entry(M, table, k)) = Reads(L, Entry(L, table, k))
    BY <1>1, EntryGrows
  <2>2. Holds(M, table, k)
    BY <1>1, HoldsGrows, Zenon
  <2> QED BY <1>1, <2>1, <2>2, Zenon DEF Under
<1>2. CASE ~Holds(L, table, k)
  <2>1. ~Holds(M, table, k)
    BY <1>2, HoldsGrows, Zenon
  <2>2. Stored(M, s, k) = Stored(L, s, k)
    BY StoredGrows
  <2> QED BY <1>2, <2>1, <2>2, Zenon DEF Under
<1> QED BY <1>1, <1>2, Zenon

\* A source whose entries all follow m holds no key that ends by m.
LEMMA NoHit ==
  ASSUME NEW L \in LogType, NEW k, NEW m \in Nat, Settled(L, k, m), NEW source, Sound(L, source),
         \A p \in source.writes : m < p
  PROVE  ~Holds(L, source, k)
<1> SUFFICES ASSUME NEW p \in source.writes, L[p].key = k PROVE FALSE
  BY Zenon DEF Holds
<1>1. p \in Entries(L, k)
  BY Zenon DEF Sound, Entries
<1>2. p <= m /\ m < p /\ p \in Nat
  BY <1>1, EntriesIn, Zenon DEF Settled
<1> QED BY <1>2

LEMMA NothingStored ==
  ASSUME NEW L, NEW k, Entries(L, k) = {}, NEW s, AllSound(L, s)
  PROVE  Stored(L, s, k) = Expected(L, k)
<1>1. ~Has(L, s, k)
  BY Zenon DEF Has, Holds, Sound, Entries, AllSound
<1>2. Stored(L, s, k) = 0
  BY <1>1, NewestNone, Zenon DEF Stored, Reads
<1> QED BY <1>2, ExpectedNone, Zenon

-----------------------------------------------------------------------------
(* What the invariant gives.                                               *)

LEMMA PositionNat == Position \subseteq Nat /\ 0 \in Position
BY TiersAssumption DEF Position

LEMMA OptionalIs ==
  ASSUME NEW o \in Optional(Position) PROVE o \subseteq Position /\ o \subseteq Nat
<1>1. o \subseteq Position
  BY DEF Optional
<1> QED BY <1>1, PositionNat, Zenon

LEMMA FilesFacts ==
  ASSUME Recoverable
  PROVE  /\ log \in LogType /\ Len(log) \in Nat /\ DOMAIN log = 1 .. Len(log)
         /\ files \in Seq(FileType) /\ Indexed(files) /\ AllSound(log, files)
         /\ HighsOf(files) \subseteq Position
<1>1. log \in LogType /\ files \in Seq(FileType) /\ AllSound(log, files)
  BY Zenon DEF Recoverable
<1>2. Len(log) \in Nat /\ DOMAIN log = 1 .. Len(log)
  BY <1>1 DEF LogType
<1>3. Indexed(files) /\ \A i \in DOMAIN files : files[i] \in FileType
  BY <1>1 DEF Indexed
<1>4. \A f \in FileType : f.high \in Optional(Position)
  BY DEF FileType
<1>5. HighsOf(files) \subseteq Position
  BY <1>3, <1>4, OptionalIs, Zenon DEF HighsOf
<1> QED BY <1>1, <1>2, <1>3, <1>5, Zenon

LEMMA TableFacts ==
  ASSUME NEW table \in MemtableType
  PROVE  /\ table.writes \in SUBSET (1 .. MaxLog)
         /\ table.low \in Optional(Position) /\ table.high \in Optional(Position)
         /\ table.low \subseteq Nat /\ table.high \in SUBSET Nat
<1>1. table.writes \in SUBSET (1 .. MaxLog) /\ table.low \in Optional(Position) /\ table.high \in Optional(Position)
  BY DEF MemtableType
<1> QED BY <1>1, OptionalIs, Zenon

LEMMA FileFacts ==
  ASSUME NEW file \in FileType
  PROVE  /\ file.writes \in SUBSET (1 .. MaxLog)
         /\ file.low \in Optional(Position) /\ file.high \in Optional(Position)
         /\ file.low \subseteq Nat /\ file.high \in SUBSET Nat /\ file.store \in Store
<1>1. /\ file.writes \in SUBSET (1 .. MaxLog) /\ file.low \in Optional(Position)
      /\ file.high \in Optional(Position) /\ file.store \in Store
  BY DEF FileType
<1> QED BY <1>1, OptionalIs, Zenon

LEMMA CertifiedNat ==
  ASSUME NEW bounds, NEW highs, NEW m \in CertifiedBy(bounds, highs) PROVE m \in Nat
BY PositionNat, Zenon DEF CertifiedBy

LEMMA CertifiedInLog ==
  ASSUME Recoverable, NEW m \in Certified PROVE m <= Len(log)
<1>1. /\ m \in Position /\ Allowed(floor, m)
      /\ (\E h \in HighsOf(files) : m <= h) \/ (HighsOf(files) = {} /\ floor # {})
  BY Zenon DEF Certified, CertifiedBy
<1>2. Position \subseteq Nat /\ Len(log) \in Nat /\ HighsOf(files) \subseteq Position
  BY PositionNat, FilesFacts, Zenon
<1>3. ASSUME NEW h \in HighsOf(files), m <= h PROVE m <= Len(log)
  <2>1. h <= Len(log)
    BY <1>3, Zenon DEF HighsOf, Recoverable, AllSound, Sound
  <2>2. m \in Nat /\ h \in Nat /\ Len(log) \in Nat
    BY <1>1, <1>2, Zenon
  <2> QED BY <1>3, <2>1, <2>2
<1>4. CASE floor # {}
  <2>1. PICK bound \in floor : TRUE
    BY <1>4, Zenon
  <2>2. PICK p \in bound : m <= p
    BY <1>1, Zenon DEF Allowed
  <2>3. p <= Len(log) /\ p \in Position
    BY Zenon DEF Recoverable, Optional
  <2>4. m \in Nat /\ p \in Nat /\ Len(log) \in Nat
    BY <1>1, <1>2, <2>3, Zenon
  <2> QED BY <2>2, <2>3, <2>4
<1> QED BY <1>1, <1>3, <1>4, Zenon

\* A step that leaves the log and the version alone.
LEMMA SameFiles ==
  ASSUME Recoverable, UNCHANGED <<log, files, floor>>
  PROVE  Recoverable' /\ Certified' = Certified
<1>1. Certified' = Certified
  BY Zenon DEF Certified
<1> QED BY <1>1, Zenon DEF Recoverable

-----------------------------------------------------------------------------
(* The embedder's steps.                                                   *)

Written1(M, table, position) ==
  [table EXCEPT !.writes = {p \in @ : M[p].key # M[position].key} \cup {position}]

\* What the live memtable holds after a write.
LEMMA WrittenTable ==
  ASSUME NEW M \in LogType, Len(M) <= MaxLog, NEW table \in MemtableType, Sound(M, table),
         NEW position \in DOMAIN M, \A l \in table.low : l < position
  PROVE  /\ Written1(M, table, position) \in MemtableType
         /\ Written1(M, table, position).low = table.low /\ Written1(M, table, position).high = table.high
         /\ Written1(M, table, position).writes \subseteq table.writes \cup {position}
         /\ Sound(M, Written1(M, table, position))
         /\ \A k : k # M[position].key =>
              /\ Holds(M, Written1(M, table, position), k) <=> Holds(M, table, k)
              /\ Holds(M, table, k) => Entry(M, Written1(M, table, position), k) = Entry(M, table, k)
         /\ Holds(M, Written1(M, table, position), M[position].key)
         /\ Entry(M, Written1(M, table, position), M[position].key) = position
<1> DEFINE new == Written1(M, table, position)
           kept == {p \in table.writes : M[p].key # M[position].key}
<1>1. position \in 1 .. MaxLog
  BY TiersAssumption DEF LogType
<1>2. table.writes \in SUBSET (1 .. MaxLog) /\ kept \cup {position} \in SUBSET (1 .. MaxLog)
  BY <1>1, TableFacts, Zenon
<1>3. /\ new \in MemtableType /\ new.low = table.low /\ new.high = table.high
      /\ new.writes = kept \cup {position}
  BY <1>2 DEF MemtableType, Written1
<1> HIDE DEF new
<1>4. \A p, q \in new.writes : M[p].key = M[q].key => p = q
  BY <1>3, Zenon DEF Sound
<1>5. Sound(M, new)
  <2>1. new.writes \subseteq DOMAIN M
    BY <1>3, Zenon DEF Sound
  <2>2. \A l \in new.low, p \in new.writes : l < p
    BY <1>3, Zenon DEF Sound
  <2>3. \A l \in new.low : \E h \in new.high : l <= h
    BY <1>3, Zenon DEF Sound
  <2>4. \A h \in new.high : h <= Len(M)
    BY <1>3, Zenon DEF Sound
  <2> QED BY <1>4, <2>1, <2>2, <2>3, <2>4, Zenon DEF Sound
<1>6. ASSUME NEW k, k # M[position].key
      PROVE  /\ Holds(M, new, k) <=> Holds(M, table, k)
             /\ Holds(M, table, k) => Entry(M, new, k) = Entry(M, table, k)
  <2>1. Holds(M, new, k) <=> Holds(M, table, k)
    BY <1>3, <1>6, Zenon DEF Holds
  <2>2. ASSUME Holds(M, table, k) PROVE Entry(M, new, k) = Entry(M, table, k)
    <3>1. PICK p : Only(M, table, k, p)
      BY <2>2, Zenon DEF Holds, Only, Sound
    <3>2. Only(M, new, k, p)
      BY <1>3, <1>6, <3>1, Zenon DEF Only
    <3> QED BY <3>1, <3>2, EntryIs
  <2> QED BY <2>1, <2>2, Zenon
<1>7. Only(M, new, M[position].key, position)
  BY <1>3, Zenon DEF Only
<1>8. Holds(M, new, M[position].key) /\ Entry(M, new, M[position].key) = position
  BY <1>7, EntryIs
<1> QED BY <1>3, <1>5, <1>6, <1>8, Zenon DEF new

LEMMA LookGrows ==
  ASSUME NEW L \in LogType, NEW M \in LogType, Grows(L, M), NEW k,
         NEW live \in MemtableType, Sound(L, live),
         NEW sealed \in SUBSET MemtableType, \A s, t \in sealed : s = t, \A s \in sealed : Sound(L, s),
         NEW f \in Seq(FileType), AllSound(L, f)
  PROVE  Look(M, live, sealed, f, k) = Look(L, live, sealed, f, k)
<1>1. Indexed(f)
  BY DEF Indexed
<1>2. CASE Holds(L, live, k)
  <2>1. Look(L, live, sealed, f, k) = Reads(L, Entry(L, live, k))
    BY <1>2, LookIs, Zenon
  <2>2. Holds(M, live, k)
    BY <1>2, HoldsGrows, Zenon
  <2>3. Look(M, live, sealed, f, k) = Reads(M, Entry(M, live, k))
    BY <2>2, LookIs, Zenon
  <2>4. Reads(M, Entry(M, live, k)) = Reads(L, Entry(L, live, k))
    BY <1>2, EntryGrows
  <2> QED BY <2>1, <2>3, <2>4, Zenon
<1>3. CASE ~Holds(L, live, k)
  <2>1. ~Holds(M, live, k)
    BY <1>3, HoldsGrows
  <2>2. CASE sealed = {}
    <3>1. Look(L, live, sealed, f, k) = Stored(L, f, k)
      BY <1>3, <2>2, LookIs, Zenon
    <3>2. Look(M, live, sealed, f, k) = Stored(M, f, k)
      BY <2>1, <2>2, LookIs, Zenon
    <3>3. Stored(M, f, k) = Stored(L, f, k)
      BY <1>1, StoredGrows
    <3> QED BY <3>1, <3>2, <3>3, Zenon
  <2>3. ASSUME NEW s \in sealed PROVE Look(M, live, sealed, f, k) = Look(L, live, sealed, f, k)
    <3>1. Look(L, live, sealed, f, k) = Under(L, s, f, k)
      BY <1>3, LookIs, Zenon
    <3>2. Look(M, live, sealed, f, k) = Under(M, s, f, k)
      BY <2>1, LookIs, Zenon
    <3>3. Sound(L, s)
      BY Zenon
    <3>4. Under(M, s, f, k) = Under(L, s, f, k)
      BY <1>1, <3>3, UnderGrows
    <3> QED BY <3>1, <3>2, <3>4, Zenon
  <2> QED BY <2>2, <2>3, Zenon
<1> QED BY <1>2, <1>3, Zenon

\* What an open store answers for k from another live memtable.
LEMMA LookSwap ==
  ASSUME NEW L, NEW k, NEW live \in MemtableType, NEW other \in MemtableType,
         NEW sealed \in SUBSET MemtableType, \A s, t \in sealed : s = t, NEW f \in Seq(FileType),
         Holds(L, other, k) <=> Holds(L, live, k),
         Holds(L, live, k) => Entry(L, other, k) = Entry(L, live, k)
  PROVE  Look(L, other, sealed, f, k) = Look(L, live, sealed, f, k)
<1>1. CASE Holds(L, live, k)
  <2>1. Look(L, live, sealed, f, k) = Reads(L, Entry(L, live, k))
    BY <1>1, LookIs, Zenon
  <2>2. Look(L, other, sealed, f, k) = Reads(L, Entry(L, other, k))
    BY <1>1, LookIs, Zenon
  <2> QED BY <1>1, <2>1, <2>2, Zenon
<1>2. CASE ~Holds(L, live, k)
  <2>1. CASE sealed = {}
    <3>1. Look(L, live, sealed, f, k) = Stored(L, f, k)
      BY <1>2, <2>1, LookIs, Zenon
    <3>2. Look(L, other, sealed, f, k) = Stored(L, f, k)
      BY <1>2, <2>1, LookIs, Zenon
    <3> QED BY <3>1, <3>2, Zenon
  <2>2. ASSUME NEW s \in sealed PROVE Look(L, other, sealed, f, k) = Look(L, live, sealed, f, k)
    <3>1. Look(L, live, sealed, f, k) = Under(L, s, f, k)
      BY <1>2, LookIs, Zenon
    <3>2. Look(L, other, sealed, f, k) = Under(L, s, f, k)
      BY <1>2, LookIs, Zenon
    <3> QED BY <3>1, <3>2, Zenon
  <2> QED BY <2>1, <2>2, Zenon
<1> QED BY <1>1, <1>2, Zenon

\* What the version certifies stays certified as the log grows.
LEMMA GrowsRecoverable ==
  ASSUME Recoverable, log' \in LogType, Len(log') <= MaxLog, Grows(log, log'), UNCHANGED <<files, floor>>
  PROVE  Recoverable' /\ Certified' = Certified
<1>1. /\ log \in LogType /\ Len(log) \in Nat /\ files \in Seq(FileType) /\ Indexed(files)
      /\ AllSound(log, files)
  BY FilesFacts, Zenon
<1>2. Certified' = Certified
  BY Zenon DEF Certified
<1>3. AllSound(log', files)
  <2> SUFFICES ASSUME NEW i \in DOMAIN files PROVE Sound(log', files[i])
    BY Zenon DEF AllSound
  <2>1. Sound(log, files[i]) /\ files[i] \in FileType
    BY <1>1 DEF AllSound
  <2>2. files[i].high \in SUBSET Nat
    BY <2>1, FileFacts, Zenon
  <2> QED BY <1>1, <2>1, <2>2, SoundGrows
<1>4. \A bound \in floor : \A p \in bound : p <= Len(log')
  <2> SUFFICES ASSUME NEW bound \in floor, NEW p \in bound PROVE p <= Len(log')
    BY Zenon
  <2>1. bound \in Optional(Position) /\ p <= Len(log)
    BY DEF Recoverable, Optional
  <2>2. p \in Nat
    BY <2>1, OptionalIs, Zenon
  <2>3. Len(log') \in Nat /\ Len(log) <= Len(log')
    BY DEF LogType, Grows
  <2> QED BY <1>1, <2>1, <2>2, <2>3
<1>5. ASSUME NEW m \in Certified PROVE Restored(log', files, m)
  <2> SUFFICES ASSUME NEW k \in Key, Settled(log', k, m) PROVE Stored(log', files, k) = Expected(log', k)
    BY Zenon DEF Restored
  <2>1. m \in Nat /\ m <= Len(log)
    BY CertifiedInLog, CertifiedNat, Zenon DEF Certified
  <2>2. Settled(log, k, m) /\ Expected(log', k) = Expected(log, k)
    BY <1>1, <2>1, ExpectedGrows
  <2>3. Stored(log', files, k) = Stored(log, files, k)
    BY <1>1, StoredGrows
  <2>4. Restored(log, files, m)
    BY Zenon DEF Recoverable
  <2> QED BY <2>2, <2>3, <2>4, Zenon DEF Restored
<1> QED BY <1>2, <1>3, <1>4, <1>5, Zenon DEF Recoverable

LEMMA WriteStep ==
  ASSUME Inv, phase = "open", log' \in LogType, Len(log') <= MaxLog, Grows(log, log'),
         cursor + 1 \in DOMAIN log', WriteAt(cursor + 1)
  PROVE  Inv'
<1>1. Recoverable /\ Tables /\ Serving
  BY Zenon DEF Inv
<1>2. UNCHANGED <<imm, files, floor, established, discarded, phase>> /\ cursor' = cursor + 1
  BY Zenon DEF WriteAt
<1>3. mem' = Written1(log', mem, cursor + 1)
  BY Zenon DEF WriteAt, Put, Written1
<1>4. Recoverable' /\ Certified' = Certified
  BY <1>1, <1>2, GrowsRecoverable, Zenon
<1>5. /\ log \in LogType /\ Len(log) \in Nat /\ Len(log') \in Nat /\ Len(log) <= Len(log')
      /\ files \in Seq(FileType) /\ Indexed(files) /\ AllSound(log, files)
  <2>1. Len(log') \in Nat /\ Len(log) <= Len(log')
    BY DEF LogType, Grows
  <2> QED BY <1>1, <2>1, FilesFacts, Zenon
<1>6. /\ cursor \in Nat /\ cursor <= Len(log) /\ cursor' \in 0 .. Len(log') /\ cursor' \in Nat /\ cursor < cursor'
      /\ cursor' \in DOMAIN log'
  BY <1>1, <1>2, <1>5 DEF Tables, LogType
<1>7. /\ mem \in MemtableType /\ imm \in SUBSET MemtableType /\ \A s, t \in imm : s = t
      /\ Sound(log, mem) /\ \A s \in imm : Sound(log, s)
  BY <1>1, Zenon DEF Tables
<1>8. Sound(log', mem) /\ \A s \in imm : Sound(log', s)
  BY <1>5, <1>7, TableFacts, SoundGrows
<1>9. \A l \in mem.low : l < cursor'
  <2> SUFFICES ASSUME NEW l \in mem.low PROVE l < cursor'
    OBVIOUS
  <2>1. l <= cursor /\ l \in Nat
    BY <1>1, <1>7, TableFacts, Zenon DEF Serving
  <2> QED BY <1>6, <2>1
<1> DEFINE position == cursor'
<1>10. /\ mem' \in MemtableType /\ mem'.low = mem.low /\ mem'.high = mem.high
       /\ mem'.writes \subseteq mem.writes \cup {position} /\ Sound(log', mem')
       /\ \A k : k # log'[position].key =>
            /\ Holds(log', mem', k) <=> Holds(log', mem, k)
            /\ Holds(log', mem, k) => Entry(log', mem', k) = Entry(log', mem, k)
       /\ Holds(log', mem', log'[position].key)
       /\ Entry(log', mem', log'[position].key) = position
  <2>1. mem' = Written1(log', mem, position)
    BY <1>2, <1>3, Zenon
  <2> HIDE DEF position
  <2>2. position \in DOMAIN log' /\ \A l \in mem.low : l < position
    BY <1>6, <1>9, Zenon DEF position
  <2> QED BY <1>7, <1>8, <2>1, <2>2, WrittenTable
<1>11. Tables'
  BY <1>1, <1>2, <1>6, <1>7, <1>8, <1>10, Zenon DEF Tables
<1>12. Serving'
  <2>1. \A x \in established' \cup mem'.low \cup mem'.high : x <= cursor'
    <3> SUFFICES ASSUME NEW x \in established \cup mem.low \cup mem.high PROVE x <= cursor'
      BY <1>2, <1>10, Zenon
    <3>1. x <= cursor /\ x \in Nat
      BY <1>1, <1>7, TableFacts, OptionalIs, Zenon DEF Serving, Tables
    <3> QED BY <1>6, <3>1
  <2>2. ASSUME NEW k \in Key, Settled(log', k, cursor')
        PROVE  Look(log', mem', imm, files, k) = Expected(log', k)
    <3>1. CASE k = log'[position].key
      <4>1. Look(log', mem', imm, files, k) = Reads(log', position)
        <5>1. Holds(log', mem', k) /\ Entry(log', mem', k) = position /\ mem' \in MemtableType
          BY <1>10, <3>1, Zenon
        <5>2. Look(log', mem', imm, files, k) = Reads(log', Entry(log', mem', k))
          BY <1>5, <1>7, <5>1, LookIs, Zenon
        <5> QED BY <5>1, <5>2, Zenon
      <4>2. position \in Entries(log', k)
        BY <1>6, <3>1, Zenon DEF Entries
      <4> QED BY <2>2, <4>1, <4>2, ExpectedIs
    <3>2. CASE k # log'[position].key
      <4>1. Look(log', mem', imm, files, k) = Look(log', mem, imm, files, k)
        <5>1. /\ mem' \in MemtableType
              /\ Holds(log', mem', k) <=> Holds(log', mem, k)
              /\ Holds(log', mem, k) => Entry(log', mem', k) = Entry(log', mem, k)
          BY <1>10, <3>2, Zenon
        <5> QED BY <1>5, <1>7, <5>1, LookSwap
      <4>2. Look(log', mem, imm, files, k) = Look(log, mem, imm, files, k)
        BY <1>5, <1>7, LookGrows
      <4>3. Settled(log', k, cursor)
        <5> SUFFICES ASSUME NEW p \in Entries(log', k) PROVE p <= cursor
          BY Zenon DEF Settled
        <5>1. p # position /\ p <= cursor' /\ p \in Nat
          BY <2>2, <3>2, EntriesIn, Zenon DEF Settled, Entries
        <5> QED BY <1>2, <1>6, <5>1
      <4>4. Settled(log, k, cursor) /\ Expected(log', k) = Expected(log, k)
        BY <1>5, <1>6, <4>3, ExpectedGrows
      <4> QED BY <1>1, <4>1, <4>2, <4>4, Zenon DEF Serving
    <3> QED BY <3>1, <3>2, Zenon
  <2>3. ASSUME NEW m \in Certified PROVE m <= cursor' /\ \A p \in mem'.writes : m < p
    <3>1. m \in Nat /\ m <= cursor
      BY <1>1, CertifiedNat, Zenon DEF Serving, Certified
    <3>2. m <= cursor' /\ m < position
      BY <1>6, <3>1
    <3> QED BY <1>1, <1>10, <3>2, Zenon DEF Serving
  <2>4. ASSUME NEW s \in imm, NEW h \in s.high
        PROVE  /\ h <= cursor' /\ \A p \in mem'.writes : h < p
               /\ \A k \in Key : Settled(log', k, h) => Under(log', s, files, k) = Expected(log', k)
    <3>1. h \in Nat /\ h <= cursor
      BY <1>1, <1>7, TableFacts, Zenon DEF Serving
    <3>2. h <= cursor' /\ h < position /\ h <= Len(log)
      BY <1>6, <3>1
    <3>3. \A p \in mem'.writes : h < p
      BY <1>1, <1>10, <3>2, Zenon DEF Serving
    <3>4. ASSUME NEW k \in Key, Settled(log', k, h) PROVE Under(log', s, files, k) = Expected(log', k)
      <4>1. Settled(log, k, h) /\ Expected(log', k) = Expected(log, k)
        BY <1>5, <3>1, <3>2, <3>4, ExpectedGrows
      <4>2. Under(log', s, files, k) = Under(log, s, files, k)
        BY <1>5, <1>7, UnderGrows
      <4> QED BY <1>1, <4>1, <4>2, Zenon DEF Serving
    <3> QED BY <3>2, <3>3, <3>4, Zenon
  <2> QED BY <1>1, <1>2, <1>4, <2>1, <2>2, <2>3, <2>4, Zenon DEF Serving
<1> QED BY <1>2, <1>4, <1>11, <1>12, Zenon DEF Inv

LEMMA ApplyNewStep ==
  ASSUME Inv, NEW k \in Key, NEW del \in BOOLEAN, ApplyNew(k, del) PROVE Inv'
<1>1. Recoverable /\ phase = "open" /\ cursor = Len(log) /\ Len(log) < MaxLog
      /\ log' = Append(log, [key |-> k, del |-> del]) /\ WriteAt(cursor + 1)
  BY Zenon DEF ApplyNew, Inv
<1>2. log \in LogType /\ Len(log) \in Nat
  BY <1>1, FilesFacts, Zenon
<1>3. /\ log' \in LogType /\ Len(log') = Len(log) + 1 /\ DOMAIN log' = 1 .. Len(log) + 1
      /\ \A i \in DOMAIN log : log'[i] = log[i]
  BY <1>1, <1>2 DEF LogType
<1>4. Len(log') <= MaxLog /\ Len(log) <= Len(log') /\ cursor + 1 \in DOMAIN log'
  BY <1>1, <1>2, <1>3, TiersAssumption
<1>5. Grows(log, log')
  BY <1>3, <1>4, Zenon DEF Grows
<1> QED BY <1>1, <1>3, <1>4, <1>5, WriteStep, Zenon

LEMMA ReplayStep ==
  ASSUME Inv, Replay PROVE Inv'
<1>1. Recoverable /\ Tables /\ phase = "open" /\ cursor < Len(log) /\ log' = log /\ WriteAt(cursor + 1)
  BY Zenon DEF Replay, Inv
<1>2. log \in LogType /\ Len(log) \in Nat /\ DOMAIN log = 1 .. Len(log) /\ Len(log) <= MaxLog
  BY <1>1, FilesFacts, Zenon DEF Recoverable
<1>3. cursor + 1 \in DOMAIN log' /\ Len(log) <= Len(log')
  BY <1>1, <1>2 DEF Tables
<1>4. Grows(log, log')
  BY <1>1, <1>3, Zenon DEF Grows
<1>5. log' \in LogType /\ Len(log') <= MaxLog
  BY <1>1, <1>2, Zenon
<1> QED BY <1>1, <1>3, <1>4, <1>5, WriteStep, Zenon

LEMMA SameWrites ==
  ASSUME NEW L, NEW k, NEW a, NEW b, a.writes = b.writes
  PROVE  /\ Holds(L, a, k) <=> Holds(L, b, k)
         /\ Entry(L, a, k) = Entry(L, b, k)
BY Zenon DEF Holds, Entry

LEMMA MemtableIs ==
  ASSUME NEW writes \in SUBSET (1 .. MaxLog), NEW bounds \in Optional(Position)
  PROVE  /\ Memtable(writes, bounds) \in MemtableType /\ Memtable(writes, bounds).writes = writes
         /\ Memtable(writes, bounds).low = bounds /\ Memtable(writes, bounds).high = bounds
BY DEF Memtable, MemtableType

\* An empty memtable at one position.
LEMMA EmptyMemtable ==
  ASSUME NEW L, NEW bounds \in Optional(Position), \A x \in bounds : x <= Len(L)
  PROVE  /\ Memtable({}, bounds) \in MemtableType /\ Memtable({}, bounds).writes = {}
         /\ Memtable({}, bounds).low = bounds /\ Memtable({}, bounds).high = bounds
         /\ Sound(L, Memtable({}, bounds))
<1>1. /\ Memtable({}, bounds) \in MemtableType /\ Memtable({}, bounds).writes = {}
      /\ Memtable({}, bounds).low = bounds /\ Memtable({}, bounds).high = bounds
  BY MemtableIs, Zenon
<1>2. \A x \in bounds : x <= x
  <2>1. bounds \subseteq Nat
    BY OptionalIs, Zenon
  <2> QED BY <2>1
<1> QED BY <1>1, <1>2, Zenon DEF Sound

LEMMA SetWatermarkStep ==
  ASSUME Inv, SetWatermark PROVE Inv'
<1>1. Recoverable /\ Tables /\ Serving /\ phase = "open"
  BY Zenon DEF Inv, SetWatermark
<1>2. /\ UNCHANGED <<log, cursor, imm, files, floor, discarded, phase>> /\ established' = {cursor}
      /\ mem' = IF mem.writes = {} THEN Memtable({}, {cursor}) ELSE [mem EXCEPT !.high = {cursor}]
  BY Zenon DEF SetWatermark, embedder, manifest
<1>3. Recoverable' /\ Certified' = Certified
  BY <1>1, <1>2, SameFiles, Zenon
<1>4. /\ log \in LogType /\ Len(log) \in Nat /\ files \in Seq(FileType) /\ cursor \in Nat /\ cursor <= Len(log)
      /\ cursor \in Position
  <2>1. log \in LogType /\ Len(log) \in Nat /\ files \in Seq(FileType) /\ Len(log) <= MaxLog
    BY <1>1, FilesFacts, Zenon DEF Recoverable
  <2> QED BY <1>1, <2>1, TiersAssumption DEF Tables, Position
<1>5. {cursor} \in Optional(Position) /\ cursor <= cursor
  <2>1. {cursor} \in Optional(Position)
    BY <1>4, Zenon DEF Optional
  <2> QED BY <1>4, <2>1
<1>6. mem \in MemtableType /\ Sound(log, mem) /\ imm \in SUBSET MemtableType /\ \A s, t \in imm : s = t
  BY <1>1, Zenon DEF Tables
<1>7. /\ mem' \in MemtableType /\ mem'.writes = mem.writes /\ Sound(log, mem')
      /\ mem'.low \subseteq mem.low \cup {cursor} /\ mem'.high = {cursor}
  <2>1. CASE mem.writes = {}
    <3>1. PICK bounds : bounds = {cursor}
      OBVIOUS
    <3>2. mem' = Memtable({}, bounds) /\ bounds \in Optional(Position) /\ \A x \in bounds : x <= Len(log)
      BY <1>2, <1>4, <1>5, <2>1, <3>1, Zenon
    <3>3. /\ mem' \in MemtableType /\ mem'.writes = {} /\ mem'.low = bounds /\ mem'.high = bounds
          /\ Sound(log, mem')
      BY <3>2, EmptyMemtable
    <3> QED BY <2>1, <3>1, <3>3, Zenon
  <2>2. CASE mem.writes # {}
    <3>1. mem' = [mem EXCEPT !.high = {cursor}]
      BY <1>2, <2>2, Zenon
    <3>2. mem' \in MemtableType /\ mem'.writes = mem.writes /\ mem'.low = mem.low /\ mem'.high = {cursor}
      BY <1>5, <1>6, <3>1 DEF MemtableType
    <3>3. \A l \in mem'.low : l <= cursor
      BY <1>1, <3>2, Zenon DEF Serving
    <3>4. Sound(log, mem')
      BY <1>4, <1>6, <3>2, <3>3, Zenon DEF Sound
    <3> QED BY <3>2, <3>4, Zenon
  <2> QED BY <2>1, <2>2, Zenon
<1>8. Tables'
  BY <1>1, <1>2, <1>5, <1>7, Zenon DEF Tables
<1>9. \A k : Look(log, mem', imm, files, k) = Look(log, mem, imm, files, k)
  BY <1>4, <1>6, <1>7, SameWrites, LookSwap
<1>10. Serving'
  <2>1. \A x \in established' \cup mem'.low \cup mem'.high : x <= cursor
    BY <1>1, <1>2, <1>5, <1>7, Zenon DEF Serving
  <2> QED BY <1>1, <1>2, <1>3, <1>7, <1>9, <2>1, Zenon DEF Serving
<1> QED BY <1>1, <1>2, <1>3, <1>8, <1>10, Zenon DEF Inv

LEMMA SealStep ==
  ASSUME Inv, Seal PROVE Inv'
<1>1. Recoverable /\ Tables /\ Serving /\ phase = "open"
  BY Zenon DEF Inv, Seal
<1>2. /\ UNCHANGED <<log, cursor, files, floor, established, discarded, phase>>
      /\ imm = {} /\ imm' = {mem} /\ mem' = Memtable({}, established)
  BY Zenon DEF Seal, embedder, manifest
<1>3. Recoverable' /\ Certified' = Certified
  BY <1>1, <1>2, SameFiles, Zenon
<1>4. /\ log \in LogType /\ Len(log) \in Nat /\ files \in Seq(FileType) /\ cursor \in Nat /\ cursor <= Len(log)
      /\ mem \in MemtableType /\ Sound(log, mem) /\ established \in Optional(Position)
  <2>1. log \in LogType /\ Len(log) \in Nat /\ files \in Seq(FileType)
    BY <1>1, FilesFacts, Zenon
  <2> QED BY <1>1, <2>1 DEF Tables
<1>5. \A x \in established : x <= Len(log)
  <2> SUFFICES ASSUME NEW x \in established PROVE x <= Len(log)
    OBVIOUS
  <2>1. x <= cursor /\ x \in Nat
    BY <1>1, <1>4, OptionalIs, Zenon DEF Serving
  <2> QED BY <1>4, <2>1
<1>6. /\ mem' \in MemtableType /\ mem'.writes = {} /\ mem'.low = established /\ mem'.high = established
      /\ Sound(log, mem')
  BY <1>2, <1>4, <1>5, EmptyMemtable
<1>7. imm' \in SUBSET MemtableType /\ (\A s, t \in imm' : s = t) /\ \A s \in imm' : Sound(log, s)
  BY <1>2, <1>4, Zenon
<1>8. Tables'
  BY <1>1, <1>2, <1>6, <1>7, Zenon DEF Tables
<1>9. ASSUME NEW k
      PROVE  /\ Under(log, mem, files, k) = Look(log, mem, imm, files, k)
             /\ Look(log, mem', imm', files, k) = Look(log, mem, imm, files, k)
  <2>1. Under(log, mem, files, k) = Look(log, mem, imm, files, k)
    <3>1. Holds(log, mem, k) => Look(log, mem, {}, files, k) = Reads(log, Entry(log, mem, k))
      BY <1>4, LookIs
    <3>2. ~Holds(log, mem, k) => Look(log, mem, {}, files, k) = Stored(log, files, k)
      BY <1>4, LookIs
    <3> QED BY <1>2, <3>1, <3>2, Zenon DEF Under
  <2>2. ~Holds(log, mem', k) /\ mem \in imm'
    BY <1>2, <1>6, Zenon DEF Holds
  <2>3. Look(log, mem', imm', files, k) = Under(log, mem, files, k)
    BY <1>4, <1>6, <1>7, <2>2, LookIs
  <2> QED BY <2>1, <2>3, Zenon
<1>10. Serving'
  <2>1. \A x \in established' \cup mem'.low \cup mem'.high : x <= cursor'
    BY <1>1, <1>2, <1>6, Zenon DEF Serving
  <2>2. \A k \in Key : Settled(log', k, cursor') => Look(log', mem', imm', files', k) = Expected(log', k)
    BY <1>1, <1>2, <1>9, Zenon DEF Serving
  <2>3. \A m \in Certified : m <= cursor' /\ (\A p \in mem'.writes : m < p) /\ \A p \in mem.writes : m < p
    BY <1>1, <1>2, <1>6, Zenon DEF Serving
  <2>4. ASSUME NEW h \in mem.high
        PROVE  /\ h <= cursor /\ \A p \in mem'.writes : h < p
               /\ \A k \in Key : Settled(log, k, h) => Under(log, mem, files, k) = Expected(log, k)
    <3>1. h <= cursor /\ h \in Nat
      BY <1>1, <1>4, TableFacts, Zenon DEF Serving
    <3>2. ASSUME NEW k \in Key, Settled(log, k, h) PROVE Under(log, mem, files, k) = Expected(log, k)
      <4>1. Settled(log, k, cursor)
        BY <1>4, <3>1, <3>2, SettledBelow
      <4> QED BY <1>1, <1>9, <4>1, Zenon DEF Serving
    <3> QED BY <1>6, <3>1, <3>2, Zenon
  <2> QED BY <1>1, <1>2, <1>3, <2>1, <2>2, <2>3, <2>4, Zenon DEF Serving
<1> QED BY <1>1, <1>2, <1>3, <1>8, <1>10, Zenon DEF Inv

-----------------------------------------------------------------------------
(* Flush.                                                                  *)

\* The files of a version by their elements.
LEMMA ByElement ==
  ASSUME NEW L, NEW s
  PROVE  /\ AllSound(L, s) <=> \A x \in Range(s) : Sound(L, x)
         /\ HighsOf(s) = UNION {x.high : x \in Range(s)}
<1>1. AllSound(L, s) <=> \A x \in Range(s) : Sound(L, x)
  BY Zenon DEF AllSound, Range
<1>2. \A h : h \in HighsOf(s) <=> \E i \in DOMAIN s : h \in s[i].high
  BY Zenon DEF HighsOf
<1>3. \A h : h \in UNION {x.high : x \in Range(s)} <=> \E i \in DOMAIN s : h \in s[i].high
  BY Zenon DEF Range
<1> QED BY <1>1, <1>2, <1>3, Zenon

LEMMA HighIn ==
  ASSUME NEW s, NEW h PROVE h \in HighsOf(s) <=> \E x \in Range(s) : h \in x.high
<1>1. HighsOf(s) = UNION {x.high : x \in Range(s)}
  BY ByElement
<1> QED BY <1>1, Zenon

LEMMA ConcatFiles ==
  ASSUME NEW s \in Seq(FileType), NEW t \in Seq(FileType)
  PROVE  s \o t \in Seq(FileType) /\ Range(s \o t) = Range(s) \cup Range(t)
<1>1. s \o t \in Seq(FileType)
  OBVIOUS
<1>2. \A i \in DOMAIN s : i \in DOMAIN (s \o t) /\ (s \o t)[i] = s[i]
  OBVIOUS
<1>3. \A i \in DOMAIN t : Len(s) + i \in DOMAIN (s \o t) /\ (s \o t)[Len(s) + i] = t[i]
  OBVIOUS
<1>4. \A i \in DOMAIN (s \o t) : \/ i \in DOMAIN s /\ (s \o t)[i] = s[i]
                                 \/ i - Len(s) \in DOMAIN t /\ (s \o t)[i] = t[i - Len(s)]
  OBVIOUS
<1>5. Range(s) \subseteq Range(s \o t) /\ Range(t) \subseteq Range(s \o t)
  BY <1>2, <1>3, Zenon DEF Range
<1>6. Range(s \o t) \subseteq Range(s) \cup Range(t)
  BY <1>4, Zenon DEF Range
<1> QED BY <1>1, <1>5, <1>6, Zenon

LEMMA OneFile ==
  ASSUME NEW file \in FileType PROVE <<file>> \in Seq(FileType) /\ Range(<<file>>) = {file}
<1>1. <<file>> \in Seq(FileType) /\ DOMAIN <<file>> = {1} /\ <<file>>[1] = file
  OBVIOUS
<1> QED BY <1>1, Zenon DEF Range

LEMMA FilesAreSources ==
  ASSUME NEW s \in Seq(FileType) PROVE s \in Seq(AnySource) /\ Indexed(s)
BY DEF AnySource, Indexed

\* A flushed memtable answers from the newest file as it did from memory.
LEMMA StoredOver ==
  ASSUME NEW L, NEW k, NEW file \in FileType, NEW s \in Seq(FileType), NEW table, file.writes = table.writes
  PROVE  Stored(L, <<file>> \o s, k) = Under(L, table, s, k)
<1>1. file \in AnySource /\ s \in Seq(AnySource)
  BY FilesAreSources, Zenon DEF AnySource
<1>2. <<file>> \in Seq(AnySource)
  BY <1>1, One, Zenon
<1>3. Has(L, <<file>>, k) <=> Holds(L, table, k)
  BY <1>1, One, SameWrites, Zenon
<1>4. CASE Holds(L, table, k)
  <2>1. Newest(L, <<file>> \o s, k) = Newest(L, <<file>>, k)
    BY <1>1, <1>2, <1>3, <1>4, ConcatFirst
  <2>2. Holds(L, file, k) /\ Entry(L, file, k) = Entry(L, table, k)
    BY <1>4, SameWrites, Zenon
  <2>3. Newest(L, <<file>>, k) = Entry(L, file, k)
    BY <1>1, <2>2, One, Zenon
  <2> QED BY <1>4, <2>1, <2>2, <2>3, Zenon DEF Stored, Under
<1>5. CASE ~Holds(L, table, k)
  <2>1. Newest(L, <<file>> \o s, k) = Newest(L, s, k)
    BY <1>1, <1>2, <1>3, <1>5, ConcatSecond
  <2> QED BY <1>5, <2>1, Zenon DEF Stored, Under
<1> QED BY <1>4, <1>5, Zenon

LEMMA FlushStep ==
  ASSUME Inv, NEW store \in Store, Flush(store) PROVE Inv'
<1>1. Recoverable /\ Tables /\ Serving /\ phase = "open"
  BY Zenon DEF Inv, Flush
<1>2. PICK sealed \in imm : files' = <<File(sealed.writes, sealed.low, sealed.high, store)>> \o files
  BY Zenon DEF Flush
<1>3. UNCHANGED <<log, cursor, mem, floor, established, discarded, phase>> /\ imm' = {}
  BY Zenon DEF Flush, embedder
<1>4. /\ log \in LogType /\ Len(log) \in Nat /\ files \in Seq(FileType) /\ Indexed(files) /\ AllSound(log, files)
      /\ HighsOf(files) \subseteq Position
  BY <1>1, FilesFacts, Zenon
<1>5. /\ mem \in MemtableType /\ imm \in SUBSET MemtableType /\ (\A s, t \in imm : s = t)
      /\ sealed \in MemtableType /\ Sound(log, sealed)
  BY <1>1, Zenon DEF Tables
<1> DEFINE file == File(sealed.writes, sealed.low, sealed.high, store)
<1>6. file \in FileType /\ file.writes = sealed.writes /\ file.low = sealed.low /\ file.high = sealed.high
  BY <1>5 DEF File, FileType, MemtableType
<1>7. files' = <<file>> \o files
  BY <1>2, Zenon
<1> HIDE DEF file
<1>8. files' \in Seq(FileType) /\ Range(files') = {file} \cup Range(files)
  BY <1>4, <1>6, <1>7, OneFile, ConcatFiles
<1>9. Sound(log, file)
  BY <1>5, <1>6, Zenon DEF Sound
<1>10. AllSound(log, files')
  BY <1>4, <1>8, <1>9, ByElement, Zenon
<1>11. HighsOf(files') = sealed.high \cup HighsOf(files)
  <2>1. HighsOf(files) = UNION {x.high : x \in Range(files)} /\ HighsOf(files') = UNION {x.high : x \in Range(files')}
    BY ByElement, Zenon
  <2> QED BY <1>6, <1>8, <2>1, Zenon
<1>12. \A k : Stored(log, files', k) = Under(log, sealed, files, k)
  BY <1>4, <1>6, <1>7, StoredOver
\* a certified position was certified, or the sealed memtable brings it
<1>13. ASSUME NEW m \in Certified' PROVE m \in Nat /\ (m \in Certified \/ \E h \in sealed.high : m <= h)
  <2>1. m \in CertifiedBy(floor, sealed.high \cup HighsOf(files))
    BY <1>3, <1>11, <1>13, Zenon DEF Certified
  <2> QED BY <2>1, PositionNat, Zenon DEF Certified, CertifiedBy
<1>14. ASSUME NEW m \in Certified'
       PROVE  Restored(log, files', m) /\ m <= cursor /\ \A p \in mem.writes : m < p
  <2>1. CASE m \in Certified
    <3>1. m \in Nat /\ m <= cursor /\ (\A p \in mem.writes : m < p) /\ (\A p \in sealed.writes : m < p)
      BY <1>1, <1>13, <1>14, <2>1, Zenon DEF Serving
    <3>2. ASSUME NEW k \in Key, Settled(log, k, m) PROVE Stored(log, files', k) = Expected(log, k)
      <4>1. ~Holds(log, sealed, k)
        BY <1>4, <1>5, <3>1, <3>2, NoHit
      <4>2. Stored(log, files', k) = Stored(log, files, k)
        BY <1>12, <4>1, Zenon DEF Under
      <4> QED BY <1>1, <2>1, <3>2, <4>2, Zenon DEF Recoverable, Restored
    <3> QED BY <3>1, <3>2, Zenon DEF Restored
  <2>2. ASSUME NEW h \in sealed.high, m <= h
        PROVE  Restored(log, files', m) /\ m <= cursor /\ \A p \in mem.writes : m < p
    <3>1. m \in Nat /\ h \in Nat /\ cursor \in Nat /\ mem.writes \subseteq Nat
      <4>1. h \in Nat
        BY <1>5, TableFacts, Zenon
      <4>2. mem.writes \in SUBSET (1 .. MaxLog)
        BY <1>5, TableFacts, Zenon
      <4>3. cursor \in Nat
        BY <1>1, <1>4 DEF Tables
      <4>4. mem.writes \subseteq Nat
        BY <4>2
      <4> QED BY <1>13, <1>14, <4>1, <4>3, <4>4, Zenon
    <3>2. h <= cursor /\ \A p \in mem.writes : h < p
      BY <1>1, Zenon DEF Serving
    <3>3. m <= cursor /\ \A p \in mem.writes : m < p
      BY <2>2, <3>1, <3>2
    <3>4. ASSUME NEW k \in Key, Settled(log, k, m) PROVE Stored(log, files', k) = Expected(log, k)
      <4>1. Settled(log, k, h)
        BY <1>4, <2>2, <3>1, <3>4, SettledBelow
      <4> QED BY <1>1, <1>12, <4>1, Zenon DEF Serving
    <3> QED BY <3>3, <3>4, Zenon DEF Restored
  <2> QED BY <1>13, <1>14, <2>1, <2>2, Zenon
<1>15. Recoverable'
  BY <1>1, <1>3, <1>8, <1>10, <1>14, Zenon DEF Recoverable
<1>16. Tables'
  BY <1>1, <1>3, Zenon DEF Tables
<1>17. ASSUME NEW k PROVE Look(log, mem, {}, files', k) = Look(log, mem, imm, files, k)
  <2>1. CASE Holds(log, mem, k)
    <3>1. Look(log, mem, imm, files, k) = Reads(log, Entry(log, mem, k))
      BY <1>4, <1>5, <2>1, LookIs, Zenon
    <3>2. Look(log, mem, {}, files', k) = Reads(log, Entry(log, mem, k))
      BY <1>5, <1>8, <2>1, LookIs
    <3> QED BY <3>1, <3>2, Zenon
  <2>2. CASE ~Holds(log, mem, k)
    <3>1. Look(log, mem, imm, files, k) = Under(log, sealed, files, k)
      BY <1>4, <1>5, <2>2, LookIs, Zenon
    <3>2. Look(log, mem, {}, files', k) = Stored(log, files', k)
      BY <1>5, <1>8, <2>2, LookBare
    <3> QED BY <1>12, <3>1, <3>2, Zenon
  <2> QED BY <2>1, <2>2, Zenon
<1>18. Serving'
  BY <1>1, <1>3, <1>14, <1>17, Zenon DEF Serving
<1> QED BY <1>1, <1>3, <1>15, <1>16, <1>18, Zenon DEF Inv

-----------------------------------------------------------------------------
(* Crash, loss, the start of an open, and the end of a recovery.           *)

LEMMA CrashStep ==
  ASSUME Inv, Crash PROVE Inv'
<1>1. Recoverable
  BY Zenon DEF Inv
<1>2. /\ UNCHANGED <<log, files, floor>> /\ phase' = "down" /\ mem' = Memtable({}, {}) /\ imm' = {}
      /\ established' = {} /\ discarded' = {} /\ cursor' = 0
  BY Zenon DEF Crash, manifest
<1>3. Recoverable'
  BY <1>1, <1>2, SameFiles, Zenon
<1>4. {} \in Optional(Position)
  BY Zenon DEF Optional
<1>5. mem' \in MemtableType /\ Sound(log, mem')
  BY <1>2, <1>4, EmptyMemtable
<1>6. 0 \in 0 .. Len(log)
  BY <1>1, FilesFacts
<1>7. Tables'
  BY <1>2, <1>4, <1>5, <1>6, Zenon DEF Tables
<1> QED BY <1>2, <1>3, <1>7 DEF Inv, Discarding

LEMMA LoseStep ==
  ASSUME Inv, NEW store \in Transient, Lose(store) PROVE Inv'
<1>1. UNCHANGED <<log, cursor, mem, imm, established, discarded, files, floor, phase>>
  BY Zenon DEF Lose, embedder, memory, manifest
<1>2. Recoverable' /\ Certified' = Certified
  BY <1>1, SameFiles, Zenon DEF Inv
<1>3. phase # "open"
  BY DEF Lose
<1> QED BY <1>1, <1>2, <1>3, Zenon DEF Inv, Tables, Discarding

LEMMA BeginOpenStep ==
  ASSUME Inv, BeginOpen PROVE Inv'
<1>1. UNCHANGED <<log, cursor, mem, imm, established, discarded, files, floor>>
  BY Zenon DEF BeginOpen, embedder, memory, manifest
<1>2. Recoverable' /\ Certified' = Certified
  BY <1>1, SameFiles, Zenon DEF Inv
<1>3. phase = "down" /\ phase' = "opening"
  BY Zenon DEF BeginOpen
<1>4. Tables' /\ discarded' = {} /\ imm' = {}
  BY <1>1, <1>3 DEF Inv, Tables
<1> QED BY <1>2, <1>3, <1>4 DEF Inv, Discarding

LEMMA MarkRecoveryCompleteStep ==
  ASSUME Inv, FlushBeforeMark, MarkRecoveryComplete PROVE Inv'
<1>1. Recoverable /\ Tables /\ Serving /\ phase = "open"
  BY Zenon DEF Inv, MarkRecoveryComplete
<1>2. /\ UNCHANGED <<log, cursor, mem, imm, files, established, discarded, phase>> /\ floor' = {}
      /\ cursor = Len(log) /\ mem.writes = {} /\ imm = {}
  BY Zenon DEF MarkRecoveryComplete, embedder
<1>3. log \in LogType /\ Len(log) \in Nat /\ files \in Seq(FileType) /\ mem \in MemtableType
  BY <1>1, FilesFacts, Zenon DEF Tables
\* the files alone read as the whole log says
<1>4. ASSUME NEW k \in Key PROVE Stored(log, files, k) = Expected(log, k)
  <2>1. ~Holds(log, mem, k)
    BY <1>2, Zenon DEF Holds
  <2>2. Look(log, mem, {}, files, k) = Stored(log, files, k)
    BY <1>3, <2>1, LookBare
  <2>3. Settled(log, k, cursor)
    BY <1>2, <1>3, EntriesIn DEF Settled
  <2> QED BY <1>1, <1>2, <2>2, <2>3, Zenon DEF Serving
<1>5. ASSUME NEW m \in Certified' PROVE m <= cursor /\ Restored(log, files, m)
  <2>1. m \in CertifiedBy({}, HighsOf(files))
    BY <1>2, <1>5, Zenon DEF Certified
  <2>2. PICK h \in HighsOf(files) : m <= h
    BY <2>1, Zenon DEF CertifiedBy
  <2>3. h <= Len(log)
    BY <1>1, <2>2, Zenon DEF HighsOf, Recoverable, AllSound, Sound
  <2>4. m \in Nat /\ h \in Nat
    BY <1>1, <2>1, <2>2, CertifiedNat, FilesFacts, PositionNat, Zenon
  <2> QED BY <1>2, <1>3, <1>4, <2>2, <2>3, <2>4 DEF Restored
<1>6. Recoverable'
  BY <1>1, <1>2, <1>5, Zenon DEF Recoverable, Optional
<1>7. Serving'
  BY <1>1, <1>2, <1>5, Zenon DEF Serving
<1> QED BY <1>1, <1>2, <1>6, <1>7, Zenon DEF Inv, Tables

-----------------------------------------------------------------------------
(* Compaction and migration: the files are rewritten and answer as before. *)

LEMMA LookFiles ==
  ASSUME NEW L, NEW k, NEW live \in MemtableType, NEW sealed \in SUBSET MemtableType,
         \A s, t \in sealed : s = t, NEW f \in Seq(FileType), NEW g \in Seq(FileType),
         Stored(L, g, k) = Stored(L, f, k)
  PROVE  Look(L, live, sealed, g, k) = Look(L, live, sealed, f, k)
<1>1. CASE Holds(L, live, k)
  <2>1. Look(L, live, sealed, f, k) = Reads(L, Entry(L, live, k))
    BY <1>1, LookIs, Zenon
  <2>2. Look(L, live, sealed, g, k) = Reads(L, Entry(L, live, k))
    BY <1>1, LookIs, Zenon
  <2> QED BY <2>1, <2>2, Zenon
<1>2. CASE ~Holds(L, live, k)
  <2>1. CASE sealed = {}
    <3>1. Look(L, live, sealed, f, k) = Stored(L, f, k)
      BY <1>2, <2>1, LookIs, Zenon
    <3>2. Look(L, live, sealed, g, k) = Stored(L, g, k)
      BY <1>2, <2>1, LookIs, Zenon
    <3> QED BY <3>1, <3>2, Zenon
  <2>2. ASSUME NEW s \in sealed PROVE Look(L, live, sealed, g, k) = Look(L, live, sealed, f, k)
    <3>1. Look(L, live, sealed, f, k) = Under(L, s, f, k)
      BY <1>2, LookIs, Zenon
    <3>2. Look(L, live, sealed, g, k) = Under(L, s, g, k)
      BY <1>2, LookIs, Zenon
    <3> QED BY <3>1, <3>2, Zenon DEF Under
  <2> QED BY <2>1, <2>2, Zenon
<1> QED BY <1>1, <1>2, Zenon

LEMMA RewriteStep ==
  ASSUME Inv, phase = "open", UNCHANGED <<log, cursor, mem, imm, established, discarded, floor, phase>>,
         files' \in Seq(FileType), AllSound(log, files'),
         \A k \in Key : Stored(log, files', k) = Stored(log, files, k),
         HighsOf(files') \subseteq HighsOf(files),
         HighsOf(files') = {} /\ floor # {} => HighsOf(files) = {}
  PROVE  Inv'
<1>1. Recoverable /\ Tables /\ Serving
  BY Zenon DEF Inv
<1>2. Certified' \subseteq Certified
  BY Zenon DEF Certified, CertifiedBy
<1>3. \A m \in Certified' : Restored(log, files', m)
  BY <1>1, <1>2, Zenon DEF Recoverable, Restored
<1>4. Recoverable'
  BY <1>1, <1>3, Zenon DEF Recoverable
<1>5. Tables'
  BY <1>1, Zenon DEF Tables
<1>6. \A k \in Key : Look(log, mem, imm, files', k) = Look(log, mem, imm, files, k)
  <2>1. /\ mem \in MemtableType /\ imm \in SUBSET MemtableType /\ (\A s, t \in imm : s = t)
        /\ files \in Seq(FileType)
    BY <1>1, Zenon DEF Tables, Recoverable
  <2> QED BY <2>1, LookFiles
<1>7. \A k \in Key, s \in imm : Under(log, s, files', k) = Under(log, s, files, k)
  BY Zenon DEF Under
<1>8. Serving'
  BY <1>1, <1>2, <1>6, <1>7, Zenon DEF Serving
<1> QED BY <1>4, <1>5, <1>8, Zenon DEF Inv

LEMMA MigrateStep ==
  ASSUME Inv, NEW i \in DOMAIN files, NEW store \in Store, Migrate(i, store) PROVE Inv'
<1>1. Recoverable /\ phase = "open"
  BY Zenon DEF Inv, Migrate
<1>2. /\ UNCHANGED <<log, cursor, mem, imm, established, discarded, floor, phase>>
      /\ files' = [files EXCEPT ![i].store = store]
  BY Zenon DEF Migrate, embedder, memory
<1>3. files \in Seq(FileType) /\ Indexed(files) /\ AllSound(log, files)
  BY <1>1, FilesFacts, Zenon
<1>4. /\ files' \in Seq(FileType) /\ DOMAIN files' = DOMAIN files
      /\ \A j \in DOMAIN files : /\ files'[j].writes = files[j].writes /\ files'[j].low = files[j].low
                                 /\ files'[j].high = files[j].high
  <2>1. files[i] \in FileType
    BY <1>3
  <2>2. PICK moved : moved = [files[i] EXCEPT !.store = store]
    OBVIOUS
  <2>3. /\ moved \in FileType /\ moved.writes = files[i].writes /\ moved.low = files[i].low
        /\ moved.high = files[i].high
    BY <2>1, <2>2 DEF FileType
  <2>4. files' = [files EXCEPT ![i] = moved]
    BY <1>2, <2>2
  <2>5. /\ files' \in Seq(FileType) /\ DOMAIN files' = DOMAIN files
        /\ \A j \in DOMAIN files : files'[j] = IF j = i THEN moved ELSE files[j]
    BY <1>3, <2>3, <2>4
  <2> QED BY <2>3, <2>5, Zenon
<1>5. AllSound(log, files')
  BY <1>3, <1>4, Zenon DEF AllSound, Sound
<1>6. HighsOf(files') = HighsOf(files)
  BY <1>4, Zenon DEF HighsOf
<1>7. ASSUME NEW k PROVE Stored(log, files', k) = Stored(log, files, k)
  <2>1. SameHits(log, files, log, files', k)
    BY <1>4, SameWrites DEF SameHits
  <2> QED BY <1>3, <2>1, Alike DEF Stored
<1> QED BY <1>1, <1>2, <1>4, <1>5, <1>6, <1>7, RewriteStep, Zenon

\* The version around the inputs of a compaction.
LEMMA Slice ==
  ASSUME NEW s \in Seq(FileType), NEW a \in Nat, NEW b \in Nat, 1 <= a, a <= b + 1, b <= Len(s)
  PROVE  /\ SubSeq(s, a, b) \in Seq(FileType) /\ Len(SubSeq(s, a, b)) = (b + 1) - a
         /\ \A x \in 1 .. (b + 1) - a : SubSeq(s, a, b)[x] = s[(a + x) - 1]
OBVIOUS

LEMMA Joined ==
  ASSUME NEW s \in Seq(FileType), NEW t \in Seq(FileType)
  PROVE  /\ s \o t \in Seq(FileType) /\ Len(s \o t) = Len(s) + Len(t)
         /\ \A x \in 1 .. Len(s) : (s \o t)[x] = s[x]
         /\ \A x \in Nat : Len(s) < x /\ x <= Len(s) + Len(t) => (s \o t)[x] = t[x - Len(s)]
OBVIOUS

LEMMA SameFile ==
  ASSUME NEW s \in Seq(FileType), NEW t \in Seq(FileType), Len(s) = Len(t),
         \A x \in 1 .. Len(s) : s[x] = t[x]
  PROVE  s = t
OBVIOUS

LEMMA SplitFiles ==
  ASSUME NEW s \in Seq(FileType), NEW i \in DOMAIN s, NEW j \in i .. Len(s)
  PROVE  /\ SubSeq(s, 1, i - 1) \in Seq(FileType) /\ SubSeq(s, i, j) \in Seq(FileType)
         /\ SubSeq(s, j + 1, Len(s)) \in Seq(FileType)
         /\ s = (SubSeq(s, 1, i - 1) \o SubSeq(s, i, j)) \o SubSeq(s, j + 1, Len(s))
         /\ j = Len(s) => SubSeq(s, j + 1, Len(s)) = <<>>
<1>1. /\ i \in Nat /\ j \in Nat /\ Len(s) \in Nat /\ 1 <= i /\ i <= j /\ j <= Len(s) /\ DOMAIN s = 1 .. Len(s)
      /\ i - 1 \in Nat
  OBVIOUS
<1>2. PICK a : a = SubSeq(s, 1, i - 1)
  OBVIOUS
<1>3. PICK b : b = SubSeq(s, i, j)
  OBVIOUS
<1>4. PICK c : c = SubSeq(s, j + 1, Len(s))
  OBVIOUS
<1>5. a \in Seq(FileType) /\ Len(a) = i - 1 /\ \A x \in 1 .. i - 1 : a[x] = s[x]
  BY <1>1, <1>2, Slice
<1>6. b \in Seq(FileType) /\ Len(b) = (j + 1) - i /\ \A x \in 1 .. (j + 1) - i : b[x] = s[(i + x) - 1]
  BY <1>1, <1>3, Slice
<1>7. c \in Seq(FileType) /\ Len(c) = Len(s) - j /\ \A x \in 1 .. Len(s) - j : c[x] = s[j + x]
  <2>1. j + 1 \in Nat /\ (Len(s) + 1) - (j + 1) = Len(s) - j /\ \A x \in Nat : ((j + 1) + x) - 1 = j + x
    BY <1>1
  <2>2. /\ c \in Seq(FileType) /\ Len(c) = (Len(s) + 1) - (j + 1)
        /\ \A x \in 1 .. (Len(s) + 1) - (j + 1) : c[x] = s[((j + 1) + x) - 1]
    <3>1. PICK n \in Nat : n = j + 1
      BY <2>1
    <3>2. 1 <= n /\ n <= Len(s) + 1 /\ Len(s) <= Len(s)
      BY <1>1, <3>1
    <3>3. c = SubSeq(s, n, Len(s))
      BY <1>4, <3>1, Zenon
    <3>4. /\ c \in Seq(FileType) /\ Len(c) = (Len(s) + 1) - n
          /\ \A x \in 1 .. (Len(s) + 1) - n : c[x] = s[(n + x) - 1]
      BY <1>1, <3>2, <3>3, Slice
    <3> QED BY <3>1, <3>4, Zenon
  <2> QED BY <1>1, <2>1, <2>2
<1>8. PICK ab : ab = a \o b
  OBVIOUS
<1>9. ab \in Seq(FileType) /\ Len(ab) = j /\ \A x \in 1 .. j : ab[x] = s[x]
  <2>1. /\ ab \in Seq(FileType) /\ Len(ab) = Len(a) + Len(b) /\ \A x \in 1 .. Len(a) : ab[x] = a[x]
        /\ \A x \in Nat : Len(a) < x /\ x <= Len(a) + Len(b) => ab[x] = b[x - Len(a)]
    BY <1>5, <1>6, <1>8, Joined
  <2>2. ASSUME NEW x \in 1 .. j PROVE ab[x] = s[x]
    <3>1. CASE x <= i - 1
      BY <1>1, <1>5, <2>1, <3>1
    <3>2. CASE i - 1 < x
      <4>1. x \in Nat /\ x - (i - 1) \in 1 .. (j + 1) - i /\ (i + (x - (i - 1))) - 1 = x
        BY <1>1, <3>2
      <4>2. Len(a) = i - 1 /\ Len(b) = (j + 1) - i
        BY <1>5, <1>6, Zenon
      <4>3. Len(a) < x /\ x <= Len(a) + Len(b)
        BY <1>1, <3>2, <4>2
      <4>4. ab[x] = b[x - Len(a)]
        BY <2>1, <4>1, <4>3, Zenon
      <4>5. b[x - (i - 1)] = s[(i + (x - (i - 1))) - 1]
        BY <1>6, <4>1, Zenon
      <4> QED BY <4>1, <4>2, <4>4, <4>5, Zenon
    <3> QED BY <1>1, <3>1, <3>2
  <2> QED BY <1>1, <1>5, <1>6, <2>1, <2>2
<1>10. ab \o c \in Seq(FileType) /\ Len(ab \o c) = Len(s) /\ \A x \in 1 .. Len(s) : (ab \o c)[x] = s[x]
  <2>1. PICK abc : abc = ab \o c
    OBVIOUS
  <2>2. /\ abc \in Seq(FileType) /\ Len(abc) = Len(ab) + Len(c) /\ \A x \in 1 .. Len(ab) : abc[x] = ab[x]
        /\ \A x \in Nat : Len(ab) < x /\ x <= Len(ab) + Len(c) => abc[x] = c[x - Len(ab)]
    BY <1>7, <1>9, <2>1, Joined
  <2>3. ASSUME NEW x \in 1 .. Len(s) PROVE abc[x] = s[x]
    <3>1. CASE x <= j
      BY <1>1, <1>9, <2>2, <3>1
    <3>2. CASE j < x
      <4>1. x \in Nat /\ x - j \in 1 .. Len(s) - j /\ j + (x - j) = x
        BY <1>1, <3>2
      <4>2. abc[x] = c[x - j]
        BY <1>1, <1>7, <1>9, <2>2, <3>2, <4>1
      <4> QED BY <1>7, <4>1, <4>2
    <3> QED BY <1>1, <3>1, <3>2
  <2> QED BY <1>1, <1>7, <1>9, <2>1, <2>2, <2>3
<1>11. ab \o c = s
  BY <1>10, SameFile
<1>12. j = Len(s) => c = <<>>
  BY <1>7
<1> QED BY <1>2, <1>3, <1>4, <1>5, <1>6, <1>7, <1>8, <1>11, <1>12, Zenon

\* The merge of adjacent sources, cut in two, in their place.
LEMMA MergeInPlace ==
  ASSUME NEW L, NEW k, NEW N \in Seq(AnySource), NEW I \in Seq(AnySource), NEW A \in Seq(AnySource),
         NEW B \in Seq(AnySource), NEW O \in Seq(AnySource),
         Has(L, A, k) => Has(L, I, k) /\ Newest(L, A, k) = Newest(L, I, k),
         ~Has(L, A, k) /\ Has(L, B, k) => Has(L, I, k) /\ Newest(L, B, k) = Newest(L, I, k),
         ~Has(L, A, k) /\ ~Has(L, B, k) /\ Has(L, I, k) => ~Has(L, O, k) /\ Reads(L, Newest(L, I, k)) = 0
  PROVE  Stored(L, ((N \o A) \o B) \o O, k) = Stored(L, (N \o I) \o O, k)
<1>1. /\ N \o I \in Seq(AnySource) /\ N \o A \in Seq(AnySource) /\ (N \o A) \o B \in Seq(AnySource)
  BY ConcatSeq
<1>2. /\ Has(L, N \o I, k) <=> Has(L, N, k) \/ Has(L, I, k)
      /\ Has(L, N \o A, k) <=> Has(L, N, k) \/ Has(L, A, k)
      /\ Has(L, (N \o A) \o B, k) <=> Has(L, N \o A, k) \/ Has(L, B, k)
      /\ Has(L, ((N \o A) \o B) \o O, k) <=> Has(L, (N \o A) \o B, k) \/ Has(L, O, k)
  BY <1>1, ConcatHas
<1>3. CASE Has(L, N, k)
  <2>1. Newest(L, N \o I, k) = Newest(L, N, k) /\ Newest(L, N \o A, k) = Newest(L, N, k)
    BY <1>3, ConcatFirst
  <2>2. Newest(L, (N \o A) \o B, k) = Newest(L, N \o A, k)
    BY <1>1, <1>2, <1>3, ConcatFirst
  <2>3. /\ Newest(L, (N \o I) \o O, k) = Newest(L, N \o I, k)
        /\ Newest(L, ((N \o A) \o B) \o O, k) = Newest(L, (N \o A) \o B, k)
    BY <1>1, <1>2, <1>3, ConcatFirst
  <2> QED BY <2>1, <2>2, <2>3, Zenon DEF Stored
<1>4. CASE ~Has(L, N, k)
  <2>1. Newest(L, N \o I, k) = Newest(L, I, k) /\ Newest(L, N \o A, k) = Newest(L, A, k)
    BY <1>4, ConcatSecond
  <2>2. CASE Has(L, A, k)
    <3>1. Newest(L, (N \o A) \o B, k) = Newest(L, N \o A, k)
      BY <1>1, <1>2, <2>2, ConcatFirst
    <3>2. /\ Newest(L, (N \o I) \o O, k) = Newest(L, N \o I, k)
          /\ Newest(L, ((N \o A) \o B) \o O, k) = Newest(L, (N \o A) \o B, k)
      BY <1>1, <1>2, <2>2, ConcatFirst
    <3> QED BY <2>1, <2>2, <3>1, <3>2, Zenon DEF Stored
  <2>3. CASE ~Has(L, A, k) /\ Has(L, B, k)
    <3>1. Newest(L, (N \o A) \o B, k) = Newest(L, B, k)
      BY <1>1, <1>2, <1>4, <2>3, ConcatSecond
    <3>2. /\ Newest(L, (N \o I) \o O, k) = Newest(L, N \o I, k)
          /\ Newest(L, ((N \o A) \o B) \o O, k) = Newest(L, (N \o A) \o B, k)
      BY <1>1, <1>2, <2>3, ConcatFirst
    <3> QED BY <2>1, <2>3, <3>1, <3>2, Zenon DEF Stored
  <2>4. CASE ~Has(L, A, k) /\ ~Has(L, B, k)
    <3>1. Newest(L, ((N \o A) \o B) \o O, k) = Newest(L, O, k)
      BY <1>1, <1>2, <1>4, <2>4, ConcatSecond
    <3>2. CASE Has(L, I, k)
      <4>1. Newest(L, O, k) = 0 /\ Reads(L, Newest(L, I, k)) = 0
        BY <2>4, <3>2, NewestNone, Zenon
      <4>2. Newest(L, (N \o I) \o O, k) = Newest(L, N \o I, k)
        BY <1>1, <1>2, <3>2, ConcatFirst
      <4> QED BY <2>1, <3>1, <4>1, <4>2, Zenon DEF Stored, Reads
    <3>3. CASE ~Has(L, I, k)
      <4>1. Newest(L, (N \o I) \o O, k) = Newest(L, O, k)
        BY <1>1, <1>2, <1>4, <3>3, ConcatSecond
      <4> QED BY <3>1, <4>1, Zenon DEF Stored
    <3> QED BY <3>2, <3>3, Zenon
  <2> QED BY <2>2, <2>3, <2>4, Zenon
<1> QED BY <1>3, <1>4, Zenon

\* What the merge keeps, of files whose entries are in the log.
LEMMA MergedIs ==
  ASSUME log \in LogType, NEW inputs \in Seq(FileType), AllSound(log, inputs), NEW bottommost \in BOOLEAN
  PROVE  /\ Merged(inputs, bottommost) \in SUBSET (1 .. MaxLog)
         /\ \A p \in Merged(inputs, bottommost) :
              /\ \E i \in DOMAIN inputs : p \in inputs[i].writes
              /\ log[p].key \in Key /\ Has(log, inputs, log[p].key) /\ p = Newest(log, inputs, log[p].key)
         /\ \A k \in Key : Has(log, inputs, k) =>
              \/ Newest(log, inputs, k) \in Merged(inputs, bottommost)
              \/ bottommost /\ log[Newest(log, inputs, k)].del
<1>1. Indexed(inputs) /\ \A i \in DOMAIN inputs : inputs[i].writes \in SUBSET (1 .. MaxLog)
  <2>1. Indexed(inputs) /\ \A i \in DOMAIN inputs : inputs[i] \in FileType
    BY FilesAreSources
  <2> QED BY <2>1, FileFacts, Zenon
<1>2. Merged(inputs, bottommost)
        = {p \in {Newest(log, inputs, k) : k \in Key} \ {0} : ~(bottommost /\ log[p].del)}
  BY LogOperators, Zenon DEF Merged
<1>3. ASSUME NEW p \in Merged(inputs, bottommost)
      PROVE  /\ p \in 1 .. MaxLog /\ \E i \in DOMAIN inputs : p \in inputs[i].writes
             /\ log[p].key \in Key /\ Has(log, inputs, log[p].key) /\ p = Newest(log, inputs, log[p].key)
  <2>1. PICK k \in Key : p = Newest(log, inputs, k) /\ p # 0
    BY <1>2, <1>3, Zenon
  <2>2. Has(log, inputs, k)
    BY <2>1, NewestNone, Zenon
  <2>3. PICK i \in DOMAIN inputs : p \in inputs[i].writes /\ log[p].key = k
    BY <1>1, <2>1, <2>2, NewestOf, Zenon
  <2>4. p \in 1 .. MaxLog
    BY <1>1, <2>3, Zenon
  <2> QED BY <2>1, <2>2, <2>3, <2>4, Zenon
<1>4. ASSUME NEW k \in Key, Has(log, inputs, k)
      PROVE  \/ Newest(log, inputs, k) \in Merged(inputs, bottommost)
             \/ bottommost /\ log[Newest(log, inputs, k)].del
  <2>1. PICK i \in DOMAIN inputs : Newest(log, inputs, k) \in inputs[i].writes
    BY <1>1, <1>4, NewestOf, Zenon
  <2>2. Newest(log, inputs, k) # 0
    <3>1. Newest(log, inputs, k) \in 1 .. MaxLog
      BY <1>1, <2>1, Zenon
    <3> QED BY <3>1
  <2> QED BY <1>2, <2>2, Zenon
<1> QED BY <1>3, <1>4, Zenon

LEMMA MergedBounds ==
  ASSUME NEW L \in LogType, NEW inputs \in Seq(FileType), AllSound(L, inputs)
  PROVE  /\ MergedLow(inputs) \in Optional(Position) /\ MergedHigh(inputs) \in Optional(Position)
         /\ MergedHigh(inputs) \subseteq HighsOf(inputs)
         /\ \A l \in MergedLow(inputs) : \A i \in DOMAIN inputs : \E x \in inputs[i].low : l <= x
         /\ \A l \in MergedLow(inputs) : \E h \in MergedHigh(inputs) : l <= h
         /\ \A h \in MergedHigh(inputs) : h <= Len(L)
<1>1. \A i \in DOMAIN inputs : /\ inputs[i] \in FileType /\ inputs[i].low \in Optional(Position)
                               /\ inputs[i].high \in Optional(Position)
  <2>1. \A i \in DOMAIN inputs : inputs[i] \in FileType
    OBVIOUS
  <2> QED BY <2>1, FileFacts, Zenon
<1> DEFINE lows == {f.low : f \in Range(inputs)}
           highs == {f.high : f \in Range(inputs)}
<1>2. lows \in SUBSET Optional(Position) /\ highs \in SUBSET Optional(Position)
  BY <1>1, Zenon DEF Range
<1>3. /\ MergedLow(inputs) \in Optional(Position)
      /\ \A l \in MergedLow(inputs) : lows # {} /\ \A d \in lows : d # {} /\ \A x \in d : l <= x
  BY <1>2, LeastOrAbsentIs, Zenon DEF MergedLow
<1>4. UNION highs = HighsOf(inputs) /\ HighsOf(inputs) \in SUBSET Position
  <2>1. UNION highs \in SUBSET Position
    BY <1>2, OptionalUnion, Zenon
  <2>2. UNION highs = HighsOf(inputs)
    BY ByElement, Zenon
  <2> QED BY <2>1, <2>2, Zenon
<1>5. MergedHigh(inputs) = Greatest(HighsOf(inputs))
  BY <1>4, Zenon DEF MergedHigh, GreatestPresent
<1>6. /\ MergedHigh(inputs) \in Optional(Position) /\ (MergedHigh(inputs) = {} => HighsOf(inputs) = {})
      /\ \A h \in MergedHigh(inputs) : h \in HighsOf(inputs) /\ \A y \in HighsOf(inputs) : y <= h
  BY <1>4, <1>5, GreatestIs, Zenon
<1>7. ASSUME NEW l \in MergedLow(inputs), NEW i \in DOMAIN inputs PROVE \E x \in inputs[i].low : l <= x
  <2>1. inputs[i].low \in lows
    BY Zenon DEF Range
  <2>2. inputs[i].low # {} /\ \A x \in inputs[i].low : l <= x
    BY <1>3, <2>1, Zenon
  <2> QED BY <2>2, Zenon
<1>8. ASSUME NEW l \in MergedLow(inputs) PROVE \E h \in MergedHigh(inputs) : l <= h
  <2>1. PICK i \in DOMAIN inputs : TRUE
    BY <1>3, Zenon DEF Range
  <2>2. PICK x \in inputs[i].low : l <= x
    BY <1>7, <1>8, Zenon
  <2>3. PICK y \in inputs[i].high : x <= y
    BY Zenon DEF AllSound, Sound
  <2>4. y \in HighsOf(inputs)
    BY Zenon DEF HighsOf
  <2>5. PICK h \in MergedHigh(inputs) : y <= h
    BY <1>6, <2>4, Zenon
  <2>6. l \in Nat /\ x \in Nat /\ y \in Nat /\ h \in Nat
    BY <1>1, <1>3, <1>6, OptionalIs, Zenon
  <2>7. l <= h
    BY <2>2, <2>3, <2>5, <2>6
  <2> QED BY <2>7, Zenon
<1>9. ASSUME NEW h \in MergedHigh(inputs) PROVE h <= Len(L)
  <2>1. PICK i \in DOMAIN inputs : h \in inputs[i].high
    BY <1>6, <1>9, Zenon DEF HighsOf
  <2> QED BY <2>1, Zenon DEF AllSound, Sound
<1> QED BY <1>3, <1>6, <1>7, <1>8, <1>9, Zenon

Output(inputs, slice, store) ==
  IF slice = {} THEN << >> ELSE <<File(slice, MergedLow(inputs), MergedHigh(inputs), store)>>

LEMMA NoFiles ==
  ASSUME NEW L
  PROVE  <<>> \in Seq(FileType) /\ AllSound(L, <<>>) /\ HighsOf(<<>>) = {} /\ \A k : ~Has(L, <<>>, k)
<1>1. <<>> \in Seq(FileType) /\ DOMAIN <<>> = {}
  OBVIOUS
<1> QED BY <1>1, Zenon DEF AllSound, HighsOf, Has

\* One output of a compaction.
LEMMA OutputIs ==
  ASSUME log \in LogType, NEW inputs \in Seq(FileType), AllSound(log, inputs), NEW bottommost \in BOOLEAN,
         NEW slice \in SUBSET Merged(inputs, bottommost), NEW store \in Store
  PROVE  /\ Output(inputs, slice, store) \in Seq(FileType) /\ AllSound(log, Output(inputs, slice, store))
         /\ HighsOf(Output(inputs, slice, store)) \subseteq HighsOf(inputs)
         /\ \A k : Has(log, Output(inputs, slice, store), k) <=> \E p \in slice : log[p].key = k
         /\ \A p \in slice : Newest(log, Output(inputs, slice, store), log[p].key) = p
<1>1. CASE slice = {}
  <2>1. Output(inputs, slice, store) = <<>>
    BY <1>1, Zenon DEF Output
  <2> QED BY <1>1, <2>1, NoFiles, Zenon
<1>2. CASE slice # {}
  <2> DEFINE low == MergedLow(inputs)
             high == MergedHigh(inputs)
             file == File(slice, low, high, store)
  <2>1. /\ low \in Optional(Position) /\ high \in Optional(Position) /\ high \subseteq HighsOf(inputs)
        /\ \A l \in low : \A i \in DOMAIN inputs : \E x \in inputs[i].low : l <= x
        /\ \A l \in low : \E h \in high : l <= h
        /\ \A h \in high : h <= Len(log)
    BY MergedBounds
  <2>2. /\ slice \in SUBSET (1 .. MaxLog)
        /\ \A p \in slice : /\ \E i \in DOMAIN inputs : p \in inputs[i].writes
                            /\ p = Newest(log, inputs, log[p].key)
    BY MergedIs, Zenon
  <2>3. Output(inputs, slice, store) = <<file>>
    BY <1>2, Zenon DEF Output
  <2> HIDE DEF low, high
  <2>4. file \in FileType /\ file.writes = slice /\ file.low = low /\ file.high = high
    BY <2>1, <2>2 DEF File, FileType
  <2> HIDE DEF file
  <2>5. Sound(log, file)
    <3>1. slice \subseteq DOMAIN log
      BY <2>2, Zenon DEF AllSound, Sound
    <3>2. \A p, q \in slice : log[p].key = log[q].key => p = q
      BY <2>2, Zenon
    <3>3. ASSUME NEW l \in low, NEW p \in slice PROVE l < p
      <4>1. PICK i \in DOMAIN inputs : p \in inputs[i].writes
        BY <2>2, Zenon
      <4>2. PICK x \in inputs[i].low : l <= x
        BY <2>1, Zenon
      <4>3. x < p
        BY <4>1, Zenon DEF AllSound, Sound
      <4>4. inputs[i] \in FileType
        OBVIOUS
      <4>5. l \in Nat /\ x \in Nat
        BY <2>1, <4>4, OptionalIs, FileFacts, Zenon
      <4>6. p \in Nat
        BY <2>2
      <4> QED BY <4>2, <4>3, <4>5, <4>6
    <3> QED BY <2>1, <2>4, <3>1, <3>2, <3>3, Zenon DEF Sound
  <2>6. <<file>> \in Seq(FileType) /\ Range(<<file>>) = {file}
    BY <2>4, OneFile
  <2>7. AllSound(log, <<file>>) /\ HighsOf(<<file>>) = high
    <3>1. AllSound(log, <<file>>)
      BY <2>5, <2>6, ByElement, Zenon
    <3>2. HighsOf(<<file>>) = UNION {x.high : x \in {file}}
      BY <2>6, ByElement, Zenon
    <3> QED BY <2>4, <3>1, <3>2, Zenon
  <2>8. file \in AnySource
    BY <2>4, Zenon DEF AnySource
  <2>9. \A k : Has(log, <<file>>, k) <=> \E p \in slice : log[p].key = k
    BY <2>4, <2>8, One, Zenon DEF Holds
  <2>10. ASSUME NEW p \in slice PROVE Newest(log, <<file>>, log[p].key) = p
    <3>1. Only(log, file, log[p].key, p)
      BY <2>4, <2>5, Zenon DEF Only, Sound
    <3>2. Holds(log, file, log[p].key) /\ Entry(log, file, log[p].key) = p
      BY <3>1, EntryIs
    <3>3. Newest(log, <<file>>, log[p].key) = Entry(log, file, log[p].key)
      BY <2>8, <3>2, One, Zenon
    <3> QED BY <3>2, <3>3, Zenon
  <2> QED BY <2>1, <2>3, <2>6, <2>7, <2>9, <2>10, Zenon
<1> QED BY <1>1, <1>2, Zenon

LEMMA CompactStep ==
  ASSUME Inv, NEW i \in DOMAIN files, NEW j \in i .. Len(files), Compact(i, j), IntervalKept PROVE Inv'
<1>1. Recoverable /\ phase = "open"
  BY Zenon DEF Inv, Compact
<1>2. /\ UNCHANGED <<log, cursor, mem, imm, established, discarded, floor, phase>>
  BY Zenon DEF Compact, embedder, memory
<1>3. log \in LogType /\ files \in Seq(FileType) /\ AllSound(log, files)
  BY <1>1, FilesFacts, Zenon
<1> DEFINE inputs == SubSeq(files, i, j)
           newer == SubSeq(files, 1, i - 1)
           older == SubSeq(files, j + 1, Len(files))
           bottommost == j = Len(files)
           kept == Merged(inputs, bottommost)
<1>4. /\ newer \in Seq(FileType) /\ inputs \in Seq(FileType) /\ older \in Seq(FileType)
      /\ files = (newer \o inputs) \o older /\ (bottommost => older = <<>>)
  BY <1>3, SplitFiles
<1>5. PICK left \in SUBSET kept, first \in Store : \E second \in IF left = {} THEN {first} ELSE first .. Tiers :
        files' = ((newer \o Output(inputs, left, first)) \o Output(inputs, kept \ left, second)) \o older
  BY Zenon DEF Compact, Output
<1>6. PICK second \in Store :
        files' = ((newer \o Output(inputs, left, first)) \o Output(inputs, kept \ left, second)) \o older
  <2>1. \A second \in IF left = {} THEN {first} ELSE first .. Tiers : second \in Store
    BY TiersAssumption DEF Store
  <2> QED BY <1>5, <2>1, Zenon
<1> DEFINE A == Output(inputs, left, first)
           B == Output(inputs, kept \ left, second)
<1> HIDE DEF inputs, newer, older
<1>7. /\ Range(files) = (Range(newer) \cup Range(inputs)) \cup Range(older)
  <2>1. newer \o inputs \in Seq(FileType) /\ Range(newer \o inputs) = Range(newer) \cup Range(inputs)
    BY <1>4, ConcatFiles, Zenon
  <2>2. Range((newer \o inputs) \o older) = Range(newer \o inputs) \cup Range(older)
    BY <1>4, <2>1, ConcatFiles, Zenon
  <2> QED BY <1>4, <2>1, <2>2, Zenon
<1>8. AllSound(log, inputs)
  BY <1>3, <1>7, ByElement, Zenon
<1>9. bottommost \in BOOLEAN
  OBVIOUS
<1>10. /\ kept \in SUBSET (1 .. MaxLog)
       /\ \A p \in kept : Has(log, inputs, log[p].key) /\ p = Newest(log, inputs, log[p].key)
       /\ \A k \in Key : Has(log, inputs, k) =>
            Newest(log, inputs, k) \in kept \/ (bottommost /\ log[Newest(log, inputs, k)].del)
  BY <1>3, <1>4, <1>8, <1>9, MergedIs, Zenon
<1>11. /\ A \in Seq(FileType) /\ AllSound(log, A) /\ HighsOf(A) \subseteq HighsOf(inputs)
       /\ \A k : Has(log, A, k) <=> \E p \in left : log[p].key = k
       /\ \A p \in left : Newest(log, A, log[p].key) = p
  BY <1>3, <1>4, <1>8, <1>9, OutputIs, Zenon
<1>12. /\ B \in Seq(FileType) /\ AllSound(log, B) /\ HighsOf(B) \subseteq HighsOf(inputs)
       /\ \A k : Has(log, B, k) <=> \E p \in kept \ left : log[p].key = k
       /\ \A p \in kept \ left : Newest(log, B, log[p].key) = p
  <2>1. PICK rest \in SUBSET kept : rest = kept \ left
    OBVIOUS
  <2>2. /\ Output(inputs, rest, second) \in Seq(FileType) /\ AllSound(log, Output(inputs, rest, second))
        /\ HighsOf(Output(inputs, rest, second)) \subseteq HighsOf(inputs)
        /\ \A k : Has(log, Output(inputs, rest, second), k) <=> \E p \in rest : log[p].key = k
        /\ \A p \in rest : Newest(log, Output(inputs, rest, second), log[p].key) = p
    BY <1>3, <1>4, <1>8, <1>9, OutputIs, Zenon
  <2> QED BY <2>1, <2>2, Zenon
<1>13. files' = ((newer \o A) \o B) \o older
  BY <1>6, Zenon
<1> HIDE DEF A, B
<1>14. /\ files' \in Seq(FileType)
       /\ Range(files') = ((Range(newer) \cup Range(A)) \cup Range(B)) \cup Range(older)
  <2>1. newer \o A \in Seq(FileType) /\ Range(newer \o A) = Range(newer) \cup Range(A)
    BY <1>4, <1>11, ConcatFiles, Zenon
  <2>2. (newer \o A) \o B \in Seq(FileType) /\ Range((newer \o A) \o B) = Range(newer \o A) \cup Range(B)
    BY <1>12, <2>1, ConcatFiles, Zenon
  <2>3. /\ ((newer \o A) \o B) \o older \in Seq(FileType)
        /\ Range(((newer \o A) \o B) \o older) = Range((newer \o A) \o B) \cup Range(older)
    BY <1>4, <2>2, ConcatFiles, Zenon
  <2> QED BY <1>13, <2>1, <2>2, <2>3, Zenon
<1>15. AllSound(log, files')
  BY <1>3, <1>7, <1>11, <1>12, <1>14, ByElement, Zenon
<1>16. HighsOf(files') \subseteq HighsOf(files)
  <2> SUFFICES ASSUME NEW x \in Range(files'), NEW h \in x.high PROVE h \in HighsOf(files)
    BY HighIn, Zenon
  <2>1. CASE x \in Range(newer) \cup Range(older)
    BY <1>7, <2>1, HighIn, Zenon
  <2>2. CASE x \in Range(A) \cup Range(B)
    <3>1. h \in HighsOf(A) \cup HighsOf(B)
      BY <2>2, HighIn, Zenon
    <3>2. h \in HighsOf(inputs)
      BY <1>11, <1>12, <3>1, Zenon
    <3> QED BY <1>7, <3>2, HighIn, Zenon
  <2> QED BY <1>14, <2>1, <2>2, Zenon
<1>17. HighsOf(files') = {} /\ floor # {} => HighsOf(files) = {}
  <2>1. Highs = HighsOf(files) /\ Highs' = HighsOf(files')
    BY ByElement, Zenon DEF Highs
  <2> QED BY <1>1, <2>1, Zenon DEF IntervalKept
<1>18. ASSUME NEW k \in Key PROVE Stored(log, files', k) = Stored(log, files, k)
  <2>1. ASSUME Has(log, A, k) PROVE Has(log, inputs, k) /\ Newest(log, A, k) = Newest(log, inputs, k)
    <3>1. PICK p \in left : log[p].key = k
      BY <1>11, <2>1, Zenon
    <3>2. Newest(log, A, k) = p /\ p \in kept
      BY <1>11, <3>1, Zenon
    <3> QED BY <1>10, <3>1, <3>2, Zenon
  <2>2. ASSUME Has(log, B, k) PROVE Has(log, inputs, k) /\ Newest(log, B, k) = Newest(log, inputs, k)
    <3>1. PICK p \in kept \ left : log[p].key = k
      BY <1>12, <2>2, Zenon
    <3>2. Newest(log, B, k) = p /\ p \in kept
      BY <1>12, <3>1, Zenon
    <3> QED BY <1>10, <3>1, <3>2, Zenon
  <2>3. ASSUME ~Has(log, A, k), ~Has(log, B, k), Has(log, inputs, k)
        PROVE  ~Has(log, older, k) /\ Reads(log, Newest(log, inputs, k)) = 0
    <3>1. Indexed(inputs)
      BY <1>4, FilesAreSources
    <3>2. log[Newest(log, inputs, k)].key = k
      BY <2>3, <3>1, NewestOf, Zenon
    <3>3. Newest(log, inputs, k) \notin kept
      BY <1>11, <1>12, <2>3, <3>2, Zenon
    <3>4. bottommost /\ log[Newest(log, inputs, k)].del
      BY <1>10, <2>3, <3>3, Zenon
    <3> QED BY <1>4, <3>4, NoFiles, Zenon DEF Reads
  <2>4. /\ newer \in Seq(AnySource) /\ inputs \in Seq(AnySource) /\ A \in Seq(AnySource)
        /\ B \in Seq(AnySource) /\ older \in Seq(AnySource)
    BY <1>4, <1>11, <1>12, FilesAreSources, Zenon
  <2>5. Stored(log, ((newer \o A) \o B) \o older, k) = Stored(log, (newer \o inputs) \o older, k)
    BY <2>1, <2>2, <2>3, <2>4, MergeInPlace
  <2> QED BY <1>4, <1>13, <2>5, Zenon
<1> QED BY <1>1, <1>2, <1>14, <1>15, <1>16, <1>17, <1>18, RewriteStep, Zenon

-----------------------------------------------------------------------------
(* Open: what the discard of a store leaves, and the position adopted.     *)

\* The files of the other stores, in their order.
Others(s, gone) == {i \in DOMAIN s : s[i].store # gone}
Remaining(s, order) == [n \in DOMAIN order |-> s[order[n]]]

Remains(s, t, gone, order) ==
  /\ t \in Seq(FileType) /\ Indexed(t) /\ Subsequence(s, t, order)
  /\ \A i \in DOMAIN s : s[i].store # gone => i \in Range(order)
  /\ \A n \in DOMAIN t : \E i \in DOMAIN s : t[n] = s[i]

LEMMA RemainingFiles ==
  ASSUME NEW s \in Seq(FileType), NEW gone, NEW order \in Ascending(Others(s, gone))
  PROVE  Remains(s, Remaining(s, order), gone, order)
<1> DEFINE S == Others(s, gone)
           t == Remaining(s, order)
<1>1. /\ order \in [1 .. Cardinality(S) -> S] /\ Range(order) = S
      /\ \A m, n \in DOMAIN order : m < n => order[m] < order[n]
  BY Zenon DEF Ascending
<1>2. Cardinality(S) \in Nat
  <2>1. IsFiniteSet(1 .. Len(s)) /\ S \subseteq 1 .. Len(s)
    BY FS_Interval DEF Others
  <2> QED BY <2>1, FS_Subset, FS_CardinalityType
<1>3. DOMAIN order = 1 .. Cardinality(S) /\ DOMAIN order \subseteq Nat /\ \A n \in DOMAIN order : order[n] \in DOMAIN s
  BY <1>1 DEF Others
<1>4. DOMAIN t = 1 .. Cardinality(S) /\ \A n \in DOMAIN order : t[n] = s[order[n]] /\ t[n] \in FileType
  BY <1>3 DEF Remaining
<1>5. t = [n \in 1 .. Cardinality(S) |-> s[order[n]]]
  BY <1>3, Zenon DEF Remaining
<1> HIDE DEF S, t
<1>6. t \in Seq(FileType)
  BY <1>2, <1>3, <1>4, <1>5
<1>7. Subsequence(s, t, order) /\ Indexed(t)
  BY <1>1, <1>3, <1>4, Zenon DEF Subsequence, Indexed
<1> QED BY <1>1, <1>3, <1>4, <1>6, <1>7, Zenon DEF S, t, Others, Remains

\* Dropping sources whose entries all follow m loses no key that ends by m.
LEMMA DropsNothing ==
  ASSUME NEW L \in LogType, NEW m \in Nat, NEW k, Settled(L, k, m), NEW source, Sound(L, source),
         NEW l \in source.low, m <= l, source.low \subseteq Nat
  PROVE  ~Holds(L, source, k)
<1>1. \A p \in source.writes : m < p
  <2> SUFFICES ASSUME NEW p \in source.writes PROVE m < p
    OBVIOUS
  <2>1. l < p /\ p \in DOMAIN L
    BY Zenon DEF Sound
  <2>2. l \in Nat /\ p \in Nat
    BY <2>1 DEF LogType
  <2> QED BY <2>1, <2>2
<1> QED BY <1>1, NoHit

LEMMA LoweredFloorIs ==
  ASSUME Recoverable, NEW F \in SUBSET Optional(Position),
         NEW b \in LoweredFloor(LeastOrAbsent(F)), NEW p \in b
  PROVE  /\ p \in Nat /\ F # {}
         /\ \A d \in F : d # {} /\ \A x \in d : p <= x
         /\ \A bound \in floor : bound # {} /\ \A x \in bound : p <= x
<1>1. /\ LeastOrAbsent(F) \in Optional(Position)
      /\ \A l \in LeastOrAbsent(F) : F # {} /\ \A d \in F : d # {} /\ \A x \in d : l <= x
  BY LeastOrAbsentIs, Zenon
<1>2. CASE floor = {}
  <2>1. p \in LeastOrAbsent(F)
    BY <1>2, Zenon DEF LoweredFloor
  <2>2. p \in Nat
    BY <1>1, <2>1, OptionalIs, Zenon
  <2> QED BY <1>1, <1>2, <2>1, <2>2, Zenon
<1>3. CASE floor # {}
  <2> DEFINE G == {LeastOrAbsent(F)} \cup floor
  <2>1. p \in LeastOrAbsent(G)
    BY <1>3, Zenon DEF LoweredFloor
  <2>2. G \in SUBSET Optional(Position)
    <3>1. floor \subseteq Optional(Position)
      BY DEF Recoverable, Optional
    <3> QED BY <1>1, <3>1, Zenon
  <2>3. /\ LeastOrAbsent(G) \in Optional(Position)
        /\ \A l \in LeastOrAbsent(G) : \A d \in G : d # {} /\ \A x \in d : l <= x
    <3> HIDE DEF G
    <3> QED BY <2>2, LeastOrAbsentIs, Zenon
  <2>4. p \in Nat
    BY <2>1, <2>3, OptionalIs, Zenon
  <2>5. \A bound \in floor : bound # {} /\ \A x \in bound : p <= x
    BY <2>1, <2>3, Zenon
  <2>6. PICK l \in LeastOrAbsent(F) : p <= l
    BY <2>1, <2>3, Zenon
  <2>7. F # {} /\ \A d \in F : d # {} /\ \A x \in d : l <= x
    BY <1>1, <2>6, Zenon
  <2>8. ASSUME NEW d \in F, NEW x \in d PROVE p <= x
    <3>1. l <= x
      BY <2>7, <2>8, Zenon
    <3>2. l \in Nat /\ x \in Nat
      BY <1>1, <2>8, OptionalIs, Zenon
    <3> QED BY <2>4, <2>6, <3>1, <3>2
  <2> QED BY <2>4, <2>5, <2>7, <2>8, Zenon
<1> QED BY <1>2, <1>3, Zenon

LEMMA LoweredFloorType ==
  ASSUME Recoverable, NEW F \in SUBSET Optional(Position)
  PROVE  LoweredFloor(LeastOrAbsent(F)) \in Optional(Optional(Position)) /\ LoweredFloor(LeastOrAbsent(F)) # {}
<1>1. floor \subseteq Optional(Position)
  BY DEF Recoverable, Optional
<1>2. LeastOrAbsent(F) \in Optional(Position)
  BY LeastOrAbsentIs, Zenon
<1> DEFINE G == {LeastOrAbsent(F)} \cup floor
<1>3. G \in SUBSET Optional(Position)
  BY <1>1, <1>2, Zenon
<1> HIDE DEF G
<1>4. LeastOrAbsent(G) \in Optional(Position)
  BY <1>3, LeastOrAbsentIs, Zenon
<1>5. \A o \in Optional(Position) : {o} \in Optional(Optional(Position))
  <2>1. \A S, o : o \in S => {o} \in Optional(S)
    BY Zenon DEF Optional
  <2> QED BY <2>1, Zenon
<1> QED BY <1>2, <1>4, <1>5, Zenon DEF LoweredFloor, G

LEMMA DiscardStep ==
  ASSUME Inv, NEW store \in Transient, Discard(store) PROVE Inv'
<1> DEFINE dropped == {f \in Range(files) : f.store = store}
<1>1. Recoverable /\ Tables /\ Discarding /\ phase = "opening" /\ imm = {}
  BY DEF Inv, Discard
<1>2. /\ UNCHANGED <<log, cursor, mem, imm, established, phase>>
      /\ discarded' = discarded \cup {f.low : f \in dropped}
      /\ floor' = LoweredFloor(LeastOrAbsent(discarded'))
  BY Zenon DEF Discard, embedder
<1>3. PICK order \in Ascending({i \in DOMAIN files : files[i].store # store}) :
        files' = [n \in DOMAIN order |-> files[order[n]]]
  BY Zenon DEF Discard
<1>4. /\ log \in LogType /\ Len(log) \in Nat /\ files \in Seq(FileType) /\ Indexed(files) /\ AllSound(log, files)
  BY <1>1, FilesFacts, Zenon
<1>5. /\ files' \in Seq(FileType) /\ Indexed(files') /\ Subsequence(files, files', order)
      /\ \A i \in DOMAIN files : files[i].store # store => i \in Range(order)
      /\ \A n \in DOMAIN files' : \E i \in DOMAIN files : files'[n] = files[i]
  <2>1. files' = Remaining(files, order)
    BY <1>3, Zenon DEF Remaining
  <2>2. order \in Ascending(Others(files, store))
    BY <1>3, Zenon DEF Others
  <2>3. Remains(files, Remaining(files, order), store, order)
    BY <1>4, <2>2, RemainingFiles
  <2> QED BY <2>1, <2>3, Zenon DEF Remains
<1>6. \A i \in DOMAIN files : files[i] \in FileType
  BY <1>4
<1>7. discarded' \in SUBSET Optional(Position)
  <2>1. \A f \in dropped : f.low \in Optional(Position)
    BY <1>6, FileFacts, Zenon DEF Range
  <2> QED BY <1>1, <1>2, <2>1, Zenon DEF Tables
<1>8. \A i \in DOMAIN files : files[i].store = store => files[i].low \in discarded'
  BY <1>2, Zenon DEF Range
<1>9. floor' \in Optional(Optional(Position)) /\ floor' # {}
  BY <1>1, <1>2, <1>7, LoweredFloorType, Zenon
<1>10. AllSound(log, files')
  BY <1>4, <1>5, Zenon DEF AllSound
\* the new floor is restored by the files that are left
<1>11. ASSUME NEW b \in floor', NEW p \in b
       PROVE  /\ p \in Nat /\ p <= Len(log) /\ Restored(log, files', p)
              /\ \A d \in discarded' : \A x \in d : p <= x
  <2>1. /\ p \in Nat /\ discarded' # {}
        /\ \A d \in discarded' : d # {} /\ \A x \in d : p <= x
        /\ \A bound \in floor : bound # {} /\ \A x \in bound : p <= x
    BY <1>1, <1>2, <1>7, <1>11, LoweredFloorIs, Zenon
  <2>2. p <= Len(log) /\ Restored(log, files, p)
    <3>1. CASE discarded # {}
      <4>1. PICK bound \in floor : TRUE
        BY <1>1, <3>1, Zenon DEF Discarding
      <4>2. PICK x \in bound : p <= x
        BY <2>1, Zenon
      <4>3. Restored(log, files, x) /\ x <= Len(log)
        BY <1>1, <3>1, Zenon DEF Discarding, Recoverable
      <4>4. bound \in Optional(Position)
        BY <1>1 DEF Recoverable, Optional
      <4>5. x \in Nat
        BY <4>4, OptionalIs, Zenon
      <4>6. p <= Len(log)
        BY <1>4, <2>1, <4>2, <4>3, <4>5
      <4> QED BY <1>4, <2>1, <4>2, <4>3, <4>5, <4>6, RestoredBelow, Zenon
    <3>2. CASE discarded = {}
      <4>1. PICK i \in DOMAIN files : files[i].low \in discarded'
        <5>1. PICK f \in dropped : f.low \in discarded'
          BY <1>2, <2>1, <3>2, Zenon
        <5> QED BY <5>1, Zenon DEF Range
      <4>2. PICK l \in files[i].low : p <= l
        BY <2>1, <4>1, Zenon
      <4>3. PICK h \in files[i].high : l <= h
        BY <1>4, Zenon DEF AllSound, Sound
      <4>4. l \in Nat /\ h \in Nat /\ files[i].high \in Optional(Position)
        BY <1>6, FileFacts, Zenon
      <4>5. p <= h
        BY <2>1, <4>2, <4>3, <4>4
      <4>6. h \in HighsOf(files)
        BY Zenon DEF HighsOf
      <4>7. Allowed(floor, p)
        BY <2>1, Zenon DEF Allowed
      <4>8. p \in Position
        <5>1. h \in Position
          BY <4>4, OptionalIs, Zenon
        <5> QED BY <2>1, <4>5, <5>1, TiersAssumption DEF Position
      <4>9. p \in Certified
        BY <4>5, <4>6, <4>7, <4>8, Zenon DEF Certified, CertifiedBy
      <4>10. p <= Len(log)
        BY <1>1, <4>9, CertifiedInLog, Zenon
      <4> QED BY <1>1, <4>9, <4>10, Zenon DEF Recoverable
    <3> QED BY <3>1, <3>2, Zenon
  <2>3. ASSUME NEW k \in Key, Settled(log, k, p) PROVE Stored(log, files', k) = Expected(log, k)
    <3>1. ASSUME NEW i \in DOMAIN files, Holds(log, files[i], k) PROVE i \in Range(order)
      <4> SUFFICES ASSUME files[i].store = store PROVE FALSE
        BY <1>5, Zenon
      <4>1. PICK l \in files[i].low : p <= l
        BY <1>8, <2>1, Zenon
      <4>2. Sound(log, files[i]) /\ files[i].low \subseteq Nat
        BY <1>4, <1>6, FileFacts, Zenon DEF AllSound
      <4>3. ~Holds(log, files[i], k)
        BY <1>4, <2>1, <2>3, <4>1, <4>2, DropsNothing
      <4> QED BY <3>1, <4>3, Zenon
    <3>2. Newest(log, files', k) = Newest(log, files, k)
      BY <1>4, <1>5, <3>1, SubsequenceNewest
    <3> QED BY <2>2, <2>3, <3>2, Zenon DEF Restored, Stored
  <2> QED BY <2>1, <2>2, <2>3, Zenon DEF Restored
<1>12. ASSUME NEW m \in Certified' PROVE Restored(log, files', m)
  <2>1. m \in Nat /\ Allowed(floor', m)
    BY <1>12, PositionNat, Zenon DEF Certified, CertifiedBy
  <2>2. PICK b \in floor' : TRUE
    BY <1>9, Zenon
  <2>3. PICK p \in b : m <= p
    BY <2>1, Zenon DEF Allowed
  <2> QED BY <1>4, <1>11, <2>1, <2>3, RestoredBelow
<1>13. Recoverable'
  BY <1>1, <1>2, <1>5, <1>9, <1>10, <1>11, <1>12, Zenon DEF Recoverable
<1>14. Tables'
  BY <1>1, <1>2, <1>7, Zenon DEF Tables
<1>15. Discarding'
  BY <1>2, <1>9, <1>11, Zenon DEF Discarding
<1> QED BY <1>1, <1>2, <1>13, <1>14, <1>15 DEF Inv

\* The position adopted is the one every certified position reaches, and the files restore it.
LEMMA AdoptedIs ==
  ASSUME Recoverable, Tables, Discarding, NEW position, position = BoundByFloor(ResumeAfter)
  PROVE  /\ position \in Optional(Position)
         /\ \A q \in position : q <= Len(log) /\ Restored(log, files, q)
         /\ \A m \in Certified : \E q \in position : m <= q
<1> DEFINE highs == HighsOf(files)
           top == Greatest(highs)
<1>1. Position \subseteq Nat /\ highs \in SUBSET Position /\ log \in LogType /\ Len(log) \in Nat
  BY PositionNat, FilesFacts, Zenon
<1>2. GreatestPresent({f.high : f \in Range(files)}) = top
  BY ByElement, Zenon DEF GreatestPresent
<1>3. /\ top \in Optional(Position) /\ (top = {} => highs = {})
      /\ \A h \in top : h \in highs /\ \A y \in highs : y <= h
  BY <1>1, GreatestIs, Zenon
<1>4. \A m \in Certified : /\ m \in Position /\ Allowed(floor, m)
                           /\ (\E h \in highs : m <= h) \/ (highs = {} /\ floor # {})
  BY Zenon DEF Certified, CertifiedBy
<1>5. \A m \in Certified : m <= Len(log) /\ Restored(log, files, m)
  BY CertifiedInLog, Zenon DEF Recoverable
<1> HIDE DEF highs, top
<1>6. CASE floor = {}
  <2>1. discarded = {}
    BY <1>6, Zenon DEF Discarding
  <2>2. position = top
    BY <1>2, <1>6, <2>1, Zenon DEF BoundByFloor, ResumeAfter
  <2>3. ASSUME NEW q \in top PROVE q \in Certified
    <3>1. q \in Position /\ q \in highs /\ q \in Nat
      BY <1>1, <1>3, <2>3, Zenon
    <3>2. q <= q
      BY <3>1
    <3> QED BY <1>6, <3>1, <3>2, Zenon DEF Certified, CertifiedBy, Allowed, highs
  <2>4. ASSUME NEW m \in Certified PROVE \E q \in top : m <= q
    <3>1. PICK h \in highs : m <= h
      BY <1>4, <1>6, <2>4, Zenon
    <3>2. PICK q \in top : h <= q
      BY <1>3, <3>1, Zenon
    <3>3. m \in Nat /\ h \in Nat /\ q \in Nat
      BY <1>1, <1>3, <1>4, Zenon
    <3>4. m <= q
      BY <3>1, <3>2, <3>3
    <3> QED BY <3>4, Zenon
  <2> QED BY <1>3, <1>5, <2>2, <2>3, <2>4, Zenon
<1>7. CASE floor = {{}}
  <2>1. position = {}
    BY <1>7, Zenon DEF BoundByFloor
  <2>2. \A m \in Certified : FALSE
    BY <1>4, <1>7, Zenon DEF Allowed
  <2>3. {} \in Optional(Position)
    BY Zenon DEF Optional
  <2> QED BY <2>1, <2>2, <2>3, Zenon
<1>8. ASSUME NEW p \in Position, floor = {{p}}
      PROVE  /\ position \in Optional(Position)
             /\ \A q \in position : q <= Len(log) /\ Restored(log, files, q)
             /\ \A m \in Certified : \E q \in position : m <= q
  <2>1. position = Least(ResumeAfter \cup {p})
    <3>1. {} \notin floor /\ floor # {} /\ UNION ({ResumeAfter} \cup floor) = ResumeAfter \cup {p}
      BY <1>8, Zenon
    <3> QED BY <3>1, Zenon DEF BoundByFloor, LeastPresent
  <2>2. ResumeAfter \in Optional(Position)
    BY <1>2, <1>3, LeastOrAbsentIs, Zenon DEF ResumeAfter, Tables
  <2>3. ResumeAfter \cup {p} \in SUBSET Position
    BY <1>8, <2>2, OptionalIs, Zenon
  <2>4. /\ position \in Optional(Position) /\ position # {}
        /\ \A q \in position : q \in ResumeAfter \cup {p} /\ \A y \in ResumeAfter \cup {p} : q <= y
    BY <2>1, <2>3, LeastIs, Zenon
  <2>5. \A m \in Certified : m \in Nat /\ m <= p
    BY <1>1, <1>4, <1>8, Zenon DEF Allowed
  <2>6. p \in Nat /\ p <= Len(log)
    BY <1>1, <1>8, Zenon DEF Recoverable
  <2>7. ASSUME NEW q \in position PROVE q \in Nat /\ q <= p /\ q <= Len(log)
    <3>1. q \in Nat /\ q <= p
      BY <1>1, <2>3, <2>4, <2>7, Zenon
    <3> QED BY <1>1, <2>6, <3>1
  <2>8. CASE discarded # {}
    <3>1. Restored(log, files, p) /\ \A d \in discarded : \A l \in d : p <= l
      BY <1>8, <2>8, Zenon DEF Discarding
    <3>2. \A q \in position : Restored(log, files, q)
      BY <1>1, <2>6, <2>7, <3>1, RestoredBelow
    <3>3. \A l \in ResumeAfter : p <= l
      <4> SUFFICES ASSUME NEW l \in LeastOrAbsent(discarded) PROVE p <= l
        BY <2>8, Zenon DEF ResumeAfter
      <4>1. discarded \in SUBSET Optional(Position)
        BY Zenon DEF Tables
      <4>2. {} \notin discarded /\ UNION discarded \in SUBSET Position
        BY <4>1, OptionalUnion, Zenon DEF LeastOrAbsent
      <4>3. l \in Least(UNION discarded)
        BY <4>2, Zenon DEF LeastOrAbsent, LeastPresent
      <4>4. l \in UNION discarded
        BY <4>2, <4>3, LeastIs, Zenon
      <4> QED BY <3>1, <4>4, Zenon
    <3>4. \A q \in position : p <= q
      <4>1. p <= p
        BY <2>6
      <4> QED BY <2>4, <3>3, <4>1, Zenon
    <3>5. ASSUME NEW m \in Certified PROVE \E q \in position : m <= q
      <4>1. PICK q \in position : TRUE
        BY <2>4, Zenon
      <4>2. m \in Nat /\ m <= p /\ p <= q /\ q \in Nat
        BY <2>5, <2>7, <3>4, Zenon
      <4>3. m <= q
        BY <2>6, <4>2
      <4> QED BY <4>3, Zenon
    <3> QED BY <2>4, <2>7, <3>2, <3>5, Zenon
  <2>9. CASE discarded = {}
    <3>1. ResumeAfter = top
      BY <1>2, <2>9, Zenon DEF ResumeAfter
    <3>2. ASSUME NEW q \in position PROVE Restored(log, files, q)
      <4>1. q \in Position /\ q <= p /\ q \in Nat
        BY <2>3, <2>4, <2>7, <3>2, Zenon
      <4>2. Allowed(floor, q)
        BY <1>8, <4>1, Zenon DEF Allowed
      <4>3. (\E h \in highs : q <= h) \/ highs = {}
        BY <1>3, <2>4, <3>1, <3>2, Zenon
      <4>4. q \in Certified
        BY <1>8, <4>1, <4>2, <4>3, Zenon DEF Certified, CertifiedBy, highs
      <4> QED BY <1>5, <4>4, Zenon
    <3>3. ASSUME NEW m \in Certified PROVE \E q \in position : m <= q
      <4>1. PICK q \in position : TRUE
        BY <2>4, Zenon
      <4>2. CASE q = p
        BY <2>5, <3>3, <4>2, Zenon
      <4>3. CASE q \in top
        <5>1. q \in highs /\ \A y \in highs : y <= q
          BY <1>3, <4>3, Zenon
        <5>2. PICK h \in highs : m <= h
          BY <1>4, <3>3, <5>1, Zenon
        <5>3. m \in Nat /\ h \in Nat /\ q \in Nat /\ h <= q
          BY <1>1, <2>5, <3>3, <5>1, <5>2, Zenon
        <5>4. m <= q
          BY <5>2, <5>3
        <5> QED BY <5>4, Zenon
      <4> QED BY <2>4, <3>1, <4>2, <4>3, Zenon
    <3> QED BY <2>4, <2>7, <3>2, <3>3, Zenon
  <2> QED BY <2>8, <2>9, Zenon
<1>9. floor = {} \/ floor = {{}} \/ \E p \in Position : floor = {{p}}
  BY DEF Recoverable, Optional
<1> QED BY <1>6, <1>7, <1>8, <1>9, Zenon

LEMMA AdoptStep ==
  ASSUME Inv, Adopt PROVE Inv'
<1>1. Recoverable /\ Tables /\ Discarding /\ imm = {}
  BY DEF Inv, Adopt
<1>2. PICK position : position = BoundByFloor(ResumeAfter)
  OBVIOUS
<1>3. /\ UNCHANGED <<log, imm, files, floor>> /\ established' = position /\ mem' = Memtable({}, position)
      /\ cursor' = (IF position = {} THEN 0 ELSE Max(position)) /\ discarded' = {} /\ phase' = "open"
  BY <1>2, Zenon DEF Adopt, manifest
<1>4. Recoverable' /\ Certified' = Certified
  BY <1>1, <1>3, SameFiles, Zenon
<1>5. /\ position \in Optional(Position)
      /\ \A q \in position : q <= Len(log) /\ Restored(log, files, q)
      /\ \A m \in Certified : \E q \in position : m <= q
  BY <1>1, <1>2, AdoptedIs, Zenon
<1>6. /\ log \in LogType /\ Len(log) \in Nat /\ files \in Seq(FileType) /\ AllSound(log, files)
  BY <1>1, FilesFacts, Zenon
<1>7. /\ mem' \in MemtableType /\ mem'.writes = {} /\ mem'.low = position /\ mem'.high = position
      /\ Sound(log, mem')
  BY <1>3, <1>5, EmptyMemtable
<1>8. \A q \in position : cursor' = q /\ q \in Nat
  <2> SUFFICES ASSUME NEW q \in position PROVE cursor' = q /\ q \in Nat
    OBVIOUS
  <2>1. position = {q} /\ q \in Position
    BY <1>5, Zenon DEF Optional
  <2>2. Max({q}) = q
    <3>1. {q} \in SUBSET Position /\ {q} # {}
      BY <2>1, Zenon
    <3> QED BY <3>1, PositionMax, Zenon
  <2> QED BY <1>3, <2>1, <2>2, PositionNat, Zenon
<1>9. cursor' \in 0 .. Len(log) /\ Restored(log, files, cursor')
  <2>1. CASE position = {}
    <3>1. cursor' = 0
      BY <1>3, <2>1, Zenon
    <3>2. ASSUME NEW k \in Key, Settled(log, k, 0) PROVE Stored(log, files, k) = Expected(log, k)
      <4>1. Entries(log, k) \subseteq Nat /\ 0 \notin Entries(log, k)
        BY <1>6, EntriesIn, Zenon
      <4>2. Entries(log, k) = {}
        BY <3>2, <4>1 DEF Settled
      <4> QED BY <1>6, <4>2, NothingStored
    <3>3. 0 \in 0 .. Len(log)
      BY <1>6
    <3> QED BY <3>1, <3>2, <3>3, Zenon DEF Restored
  <2>2. ASSUME NEW q \in position PROVE cursor' \in 0 .. Len(log) /\ Restored(log, files, cursor')
    <3>1. cursor' = q /\ q \in Nat /\ q <= Len(log) /\ Restored(log, files, q)
      BY <1>5, <1>8, <2>2, Zenon
    <3>2. q \in 0 .. Len(log)
      BY <1>6, <3>1
    <3> QED BY <3>1, <3>2, Zenon
  <2> QED BY <2>1, <2>2, Zenon
<1>10. {} \subseteq Optional(Position)
  OBVIOUS
<1>11. Tables'
  BY <1>1, <1>3, <1>5, <1>7, <1>9, <1>10, Zenon DEF Tables
<1>12. Serving'
  <2>1. \A x \in established' \cup mem'.low \cup mem'.high : x <= cursor'
    BY <1>3, <1>7, <1>8
  <2>2. ASSUME NEW k \in Key, Settled(log, k, cursor') PROVE Look(log, mem', {}, files, k) = Expected(log, k)
    <3>1. ~Holds(log, mem', k)
      BY <1>7, Zenon DEF Holds
    <3>2. Look(log, mem', {}, files, k) = Stored(log, files, k)
      BY <1>6, <1>7, <3>1, LookBare
    <3> QED BY <1>9, <2>2, <3>2, Zenon DEF Restored
  <2>3. \A m \in Certified : m <= cursor'
    BY <1>5, <1>8, Zenon
  <2> QED BY <1>1, <1>3, <1>4, <1>7, <2>1, <2>2, <2>3, Zenon DEF Serving
<1> QED BY <1>3, <1>4, <1>11, <1>12 DEF Inv

-----------------------------------------------------------------------------
(* The theorems.                                                           *)

LEMMA InvInit == ASSUME Init PROVE Inv
<1>1. /\ log = << >> /\ cursor = 0 /\ mem = Memtable({}, {}) /\ imm = {} /\ files = << >> /\ floor = {}
      /\ established = {} /\ discarded = {} /\ phase = "open"
  BY Zenon DEF Init
<1>2. log \in LogType /\ Len(log) = 0 /\ DOMAIN log = {}
  BY <1>1 DEF LogType
<1>3. files \in Seq(FileType) /\ AllSound(log, files) /\ HighsOf(files) = {}
  BY <1>1, NoFiles, Zenon
<1>4. {} \in Optional(Position) /\ {} \in Optional(Optional(Position))
  BY Zenon DEF Optional
<1>5. Certified = {}
  BY <1>1, <1>3, Zenon DEF Certified, CertifiedBy
<1>6. /\ mem \in MemtableType /\ mem.writes = {} /\ mem.low = {} /\ mem.high = {} /\ Sound(log, mem)
  BY <1>1, <1>4, EmptyMemtable
<1>7. Recoverable
  BY <1>1, <1>2, <1>3, <1>4, <1>5, TiersAssumption DEF Recoverable
<1>8. Tables
  BY <1>1, <1>2, <1>4, <1>6 DEF Tables
<1>9. ASSUME NEW k \in Key PROVE Look(log, mem, imm, files, k) = Expected(log, k)
  <2>1. ~Holds(log, mem, k)
    BY <1>6, Zenon DEF Holds
  <2>2. Look(log, mem, imm, files, k) = Stored(log, files, k)
    BY <1>1, <1>3, <1>6, <2>1, LookBare
  <2>3. Entries(log, k) = {}
    BY <1>2, Zenon DEF Entries
  <2> QED BY <1>3, <2>2, <2>3, NothingStored
<1>10. Serving
  BY <1>1, <1>5, <1>6, <1>9, Zenon DEF Serving
<1> QED BY <1>1, <1>7, <1>8, <1>10 DEF Inv

LEMMA InvNext == ASSUME FlushBeforeMark, Inv, [Next]_vars, [IntervalKept]_vars PROVE Inv'
<1>1. CASE UNCHANGED vars
  <2>1. UNCHANGED <<log, cursor, mem, imm, established, discarded, files, floor, phase>>
    BY <1>1, Zenon DEF vars
  <2>2. Recoverable' /\ Certified' = Certified
    BY <2>1, SameFiles, Zenon DEF Inv
  <2> QED BY <2>1, <2>2, Zenon DEF Inv, Tables, Discarding, Serving
<1>2. ASSUME NEW k \in Key, NEW del \in BOOLEAN, ApplyNew(k, del) PROVE Inv'
  BY <1>2, ApplyNewStep, Zenon
<1>3. ASSUME NEW store \in Store, Flush(store) PROVE Inv'
  BY <1>3, FlushStep, Zenon
<1>4. ASSUME NEW i \in DOMAIN files, NEW j \in i .. Len(files), Compact(i, j), IntervalKept PROVE Inv'
  BY <1>4, CompactStep, Zenon
<1>5. ASSUME NEW i \in DOMAIN files, NEW store \in Store, Migrate(i, store) PROVE Inv'
  BY <1>5, MigrateStep, Zenon
<1>6. ASSUME NEW store \in Transient, Lose(store) \/ Discard(store) PROVE Inv'
  BY <1>6, LoseStep, DiscardStep, Zenon
<1>7. CASE Replay \/ SetWatermark \/ Seal \/ Crash \/ BeginOpen \/ Adopt \/ MarkRecoveryComplete
  BY <1>7, ReplayStep, SetWatermarkStep, SealStep, CrashStep, BeginOpenStep, AdoptStep,
     MarkRecoveryCompleteStep, Zenon
<1>8. CASE Next /\ IntervalKept
  BY <1>2, <1>3, <1>4, <1>5, <1>6, <1>7, <1>8, Zenon DEF Next
<1> QED BY <1>1, <1>8, Zenon

LEMMA InvReplay == ASSUME Inv PROVE ReplayRestores
BY LogOperators DEF Inv, Serving, ReplayRestores

\* State equivalence (Watermark!ReplayRestores), for every set of keys, every number of tiers and
\* every history of writes, crashes, losses, compactions and migrations: replaying only what follows
\* the recovered position restores the state of the whole log, when the embedder flushes before it
\* calls mark_recovery_complete and no compaction erases the last interval while a loss is recorded.
THEOREM ReplayingTheRestRestores ==
  ASSUME FlushBeforeMark
  PROVE  Spec /\ [][IntervalKept]_vars => []ReplayRestores
<1>1. Init => Inv
  BY InvInit
<1>2. Inv /\ [Next]_vars /\ [IntervalKept]_vars => Inv'
  BY InvNext
<1>3. Inv => ReplayRestores
  BY InvReplay
<1> QED BY <1>1, <1>2, <1>3, PTL DEF Spec

\* The gauge is certified, and the files that may be lost hold no key that ends by it.
LEMMA GaugeIs ==
  ASSUME Inv, floor = {}, NEW m \in DurableWatermark
  PROVE  /\ m \in Nat /\ Restored(log, files, m)
         /\ \A i \in DOMAIN files : files[i].store \notin Durable => \E l \in files[i].low : m <= l
<1> DEFINE exposed == {f \in Range(files) : f.store \in Transient}
           lows == {f.low : f \in exposed}
<1>1. /\ Recoverable /\ files \in Seq(FileType) /\ HighsOf(files) \in SUBSET Position /\ AllSound(log, files)
      /\ Position \subseteq Nat
  BY FilesFacts, PositionNat, Zenon DEF Inv
<1>2. \A i \in DOMAIN files : files[i] \in FileType
  BY <1>1
<1>3. \A i \in DOMAIN files : files[i].store \notin Durable => files[i].store \in Transient
  BY <1>2, FileFacts, Zenon DEF Durable
<1>4. \A h \in HighsOf(files), n \in Nat : n <= h => n \in Certified
  <2> SUFFICES ASSUME NEW h \in HighsOf(files), NEW n \in Nat, n <= h PROVE n \in Certified
    OBVIOUS
  <2>1. h \in Position
    BY <1>1, Zenon
  <2>2. n \in Position
    BY <2>1, TiersAssumption DEF Position
  <2> QED BY <2>2, Zenon DEF Certified, CertifiedBy, Allowed
<1>5. CASE exposed = {}
  <2>1. m \in GreatestPresent({f.high : f \in Range(files)})
    BY <1>5, Zenon DEF DurableWatermark
  <2>2. m \in Greatest(HighsOf(files))
    BY <2>1, ByElement, Zenon DEF GreatestPresent
  <2>3. m \in HighsOf(files) /\ m \in Nat
    BY <1>1, <2>2, GreatestIs, Zenon
  <2>4. m <= m
    BY <2>3
  <2>5. m \in Certified
    BY <1>4, <2>3, <2>4, Zenon
  <2>6. \A i \in DOMAIN files : files[i].store \in Durable
    BY <1>3, <1>5, Zenon DEF Range
  <2> QED BY <1>1, <2>3, <2>5, <2>6, Zenon DEF Recoverable
<1>6. CASE exposed # {}
  <2>1. m \in LeastOrAbsent(lows)
    BY <1>6, Zenon DEF DurableWatermark
  <2>2. lows \in SUBSET Optional(Position)
    BY <1>2, FileFacts, Zenon DEF Range
  <2>3. LeastOrAbsent(lows) \in Optional(Position) /\ \A d \in lows : d # {} /\ \A x \in d : m <= x
    BY <2>1, <2>2, LeastOrAbsentIs, Zenon
  <2>4. m \in Nat
    BY <2>1, <2>3, OptionalIs, Zenon
  <2>5. ASSUME NEW i \in DOMAIN files, files[i].store \in Transient PROVE \E l \in files[i].low : m <= l
    <3>1. files[i].low \in lows
      BY <2>5, Zenon DEF Range
    <3>2. files[i].low # {} /\ \A x \in files[i].low : m <= x
      BY <2>3, <3>1, Zenon
    <3> QED BY <3>2, Zenon
  <2>6. PICK i \in DOMAIN files : files[i].store \in Transient
    BY <1>6, Zenon DEF Range
  <2>7. PICK l \in files[i].low : m <= l
    BY <2>5, <2>6, Zenon
  <2>8. PICK h \in files[i].high : l <= h
    BY <1>1, Zenon DEF AllSound, Sound
  <2>9. l \in Nat /\ h \in Nat
    BY <1>2, FileFacts, Zenon
  <2>10. m <= h
    BY <2>4, <2>7, <2>8, <2>9
  <2>11. h \in HighsOf(files)
    BY Zenon DEF HighsOf
  <2>12. m \in Certified
    BY <1>4, <2>4, <2>10, <2>11, Zenon
  <2> QED BY <1>1, <1>3, <2>4, <2>5, <2>12, Zenon DEF Recoverable
<1> QED BY <1>5, <1>6, Zenon

LEMMA InvGauge == ASSUME Inv PROVE GaugeSurvives
<1> SUFFICES ASSUME floor = {}, NEW m \in DurableWatermark, NEW k \in Key, Settled(log, k, m)
             PROVE  Stored(log, Kept, k) = Expected(log, k)
  BY LogOperators, Zenon DEF GaugeSurvives, Stored
<1>1. /\ m \in Nat /\ Restored(log, files, m)
      /\ \A i \in DOMAIN files : files[i].store \notin Durable => \E l \in files[i].low : m <= l
  BY GaugeIs, Zenon
<1>2. log \in LogType /\ files \in Seq(FileType) /\ Indexed(files) /\ AllSound(log, files)
  BY FilesFacts, Zenon DEF Inv
<1>3. \A i \in DOMAIN files : files[i] \in FileType
  BY <1>2
<1>4. SameHits(log, files, log, Kept, k)
  <2>1. DOMAIN Kept = DOMAIN files
    BY Zenon DEF Kept
  <2>2. ASSUME NEW i \in DOMAIN files
        PROVE  /\ Holds(log, Kept[i], k) <=> Holds(log, files[i], k)
               /\ Holds(log, files[i], k) => Entry(log, Kept[i], k) = Entry(log, files[i], k)
    <3>1. CASE files[i].store \in Durable
      <4>1. Kept[i] = files[i]
        BY <3>1, Zenon DEF Kept
      <4> QED BY <4>1, Zenon
    <3>2. CASE files[i].store \notin Durable
      <4>1. Kept[i] = [files[i] EXCEPT !.writes = {}]
        BY <3>2, Zenon DEF Kept
      <4>2. Kept[i].writes = {}
        BY <1>3, <4>1 DEF FileType
      <4>3. PICK l \in files[i].low : m <= l
        BY <1>1, <3>2, Zenon
      <4>4. Sound(log, files[i]) /\ files[i].low \subseteq Nat
        BY <1>2, <1>3, FileFacts, Zenon DEF AllSound
      <4>5. ~Holds(log, files[i], k)
        BY <1>1, <1>2, <4>3, <4>4, DropsNothing
      <4> QED BY <4>2, <4>5, Zenon DEF Holds
    <3> QED BY <3>1, <3>2, Zenon
  <2> QED BY <2>1, <2>2, Zenon DEF SameHits
<1>5. Newest(log, Kept, k) = Newest(log, files, k)
  BY <1>2, <1>4, Alike
<1> QED BY <1>1, <1>5, Zenon DEF Restored, Stored

\* The gauge Stats::durable_watermark (Watermark!GaugeSurvives): while no loss is recorded, a key with
\* no entry beyond it reads as the whole log says from the durable files alone.
THEOREM GaugeSurvivesEveryLoss ==
  ASSUME FlushBeforeMark
  PROVE  Spec /\ [][IntervalKept]_vars => []GaugeSurvives
<1>1. Init => Inv
  BY InvInit
<1>2. Inv /\ [Next]_vars /\ [IntervalKept]_vars => Inv'
  BY InvNext
<1>3. Inv => GaugeSurvives
  BY InvGauge
<1> QED BY <1>1, <1>2, <1>3, PTL DEF Spec

=============================================================================
