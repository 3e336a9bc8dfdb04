----------------------- MODULE PartitionedStoreProofs -----------------------
(***************************************************************************)
(* Three facts about the Java PartitionedStore, for any sets of            *)
(* partitions, fold threads and keys: what a store holds and its watermark *)
(* never disagree with the log by more than the records past the           *)
(* watermark, a served partition holds the committed log, and a fold reads *)
(* the log with the records of its own transaction.                        *)
(*                                                                         *)
(* A store that only lags is kept so by the order of the steps: apply      *)
(* writes the batch before it stamps it, so between the two the records of *)
(* the batch are past the watermark and say again what is written          *)
(* (AtApply); a restore replays the first record past the watermark before *)
(* it stamps that record (AtRestore).  What the batch writes is what the   *)
(* log says because the overlay keeps the log's order (Overlay), which it  *)
(* does because the stageLock is held from the send to the staging         *)
(* (Locks); and the staged positions are the end of the log, so stamping   *)
(* the last of them skips no record (Overlay, Transaction).  A partition   *)
(* whose store misses a committed record is refused because whoever drops  *)
(* an overlay without applying it marks the partition behind, unless its   *)
(* records are known to be aborted (Reads).  The third fact also needs     *)
(* that an overlay has one point per key and only ranges beside them       *)
(* (Kinds), so that a get, which looks a key up, and the batch, which      *)
(* writes all of the overlay, agree.                                       *)
(***************************************************************************)
EXTENDS PartitionedStore, WellFoundedInduction, TLAPS

-----------------------------------------------------------------------------
(* The inductive invariant.                                                *)

Records == [kind : {"put", "delete", "deleteRange"}, keys : SUBSET Keys,
            fate : {"open", "committed", "aborted"}]
Engines == [val : [Keys -> Nat], wm : Nat]
Applies == [at : {"apply"}, todo : SUBSET Partitions, failed : SUBSET Partitions, wrote : BOOLEAN]
Restores == [at : {"restore"}, partition : Partitions, wrote : BOOLEAN]
Holding == [at : {"sent"}, partition : Partitions, position : Nat]

Typed ==
    /\ log \in [Partitions -> Seq(Records)]
    /\ live \in [Partitions -> Engines] /\ disk \in [Partitions -> Engines]
    /\ assigned \subseteq Partitions /\ behind \in [Partitions -> BOOLEAN]
    /\ materialized \in [Partitions -> Nat]
    /\ DOMAIN staged \subseteq Partitions
    /\ thread \in [Threads -> {Idle} \cup Holding]
    /\ main \in {Idle, Open, Unresolved} \cup Applies \cup Restores

\* Record i of the log l is committed and says something of k, and what it says.
Touches(l, k, i) == l[i].fate = "committed" /\ k \in l[i].keys
Past(l, k, w) == \E i \in DOMAIN l : i > w /\ Touches(l, k, i)
Says(l, i) == IF l[i].kind = "put" THEN i ELSE 0

\* The committed value of k, as a function of the log.
HitsIn(l, k) == {i \in 1 .. Len(l) : Touches(l, k, i)}
ValueIn(l, k) == IF HitsIn(l, k) = {} THEN 0 ELSE Says(l, Max(HitsIn(l, k)))

Lags(s, l) == \A k \in Keys : Past(l, k, s.wm) \/ s.val[k] = ValueIn(l, k)
Exact(p) == \A k \in Keys : live[p].val[k] = ValueIn(log[p], k)

\* The watermarks are behind every record whose fate is open, and what a
\* restore reads its start from is the engine's watermark.
Stamps == \A p \in Partitions :
    /\ live[p].wm <= Len(log[p]) /\ disk[p].wm <= Len(log[p])
    /\ \A i \in DOMAIN log[p] : log[p][i].fate = "open" =>
           main.at = "open" /\ live[p].wm < i /\ disk[p].wm < i
    /\ p \in assigned \/ (main.at = "restore" /\ main.partition = p) => materialized[p] = live[p].wm

Held(p, i) == \E t \in Threads : thread[t] # Idle /\ thread[t].partition = p /\ thread[t].position = i

\* A stageLock has one holder, whose record is the last of the log.
Locks ==
    /\ \A t \in Threads : thread[t] # Idle =>
           LET p == thread[t].partition IN
           /\ main.at = "open" /\ p \in DOMAIN staged
           /\ thread[t].position = Len(log[p]) /\ Len(log[p]) > 0
           /\ thread[t].position \notin staged[p].positions
           /\ log[p][Len(log[p])].fate = "open"
    /\ \A t, u \in Threads : t # u /\ thread[t] # Idle /\ thread[u] # Idle =>
           thread[t].partition # thread[u].partition

Ops(p) == staged[p].points \cup staged[p].ranges

\* The overlay keeps, of the records it was told of, the last on every key, in
\* the order of the log; and they are the last of the log.
Overlay(p) ==
    /\ staged[p].positions \subseteq DOMAIN log[p]
    /\ staged[p].sequence \in Nat
    /\ \A op \in Ops(p) :
           /\ op.value \in staged[p].positions
           /\ op.keys = log[p][op.value].keys /\ op.kind = log[p][op.value].kind
           /\ op.sequence \in Nat /\ op.sequence < staged[p].sequence
    /\ \A op, other \in Ops(p) : op.sequence < other.sequence <=> op.value < other.value
    /\ \A i \in staged[p].positions : \A k \in log[p][i].keys :
           \E op \in Ops(p) : k \in op.keys /\ op.value >= i
    /\ \A i \in DOMAIN log[p] \ staged[p].positions :
           Held(p, i) \/ \A j \in staged[p].positions : i < j

Overlays == \A p \in DOMAIN staged : Overlay(p)

\* Which records a partition's overlay stands for.
Transaction ==
    /\ main.at \in {"idle", "restore"} => DOMAIN staged = {}
    /\ main.at \in {"open", "apply"} => \A p \in DOMAIN staged :
           /\ Served(p)
           /\ \A i \in staged[p].positions :
                  log[p][i].fate = IF main.at = "open" THEN "open" ELSE "committed"
    /\ main.at = "open" => \A p \in assigned : \A i \in DOMAIN log[p] : log[p][i].fate = "open" =>
           p \in DOMAIN staged /\ (i \in staged[p].positions \/ Held(p, i))

\* The partition being applied, once its batch is written.
Writing(p) == main.wrote /\ p = Min(main.todo)

AtApply == main.at = "apply" =>
    /\ main.todo \subseteq DOMAIN staged /\ main.failed \subseteq DOMAIN staged \ main.todo
    /\ main.wrote => main.todo # {} /\ staged[Min(main.todo)].positions # {}
    /\ \A p \in main.todo : \A i \in staged[p].positions : live[p].wm < i
    /\ \A p \in DOMAIN staged \ main.failed :
           IF p \in main.todo /\ ~Writing(p)
           THEN \A k \in Keys : \/ \E i \in staged[p].positions : k \in log[p][i].keys
                                \/ live[p].val[k] = ValueIn(log[p], k)
           ELSE Exact(p)

AtRestore == main.at = "restore" =>
    LET p == main.partition
        n == Min(Remaining(p))
    IN  /\ ~Served(p)
        /\ main.wrote => /\ Remaining(p) # {}
                         /\ \A k \in log[p][n].keys : live[p].val[k] = Says(log[p], n)

Reads ==
    /\ \A p \in Partitions : Served(p) /\ p \notin DOMAIN staged => Exact(p)
    /\ main.at = "open" => \A p \in DOMAIN staged : Exact(p)

Lagging == \A p \in Partitions : Lags(live[p], log[p]) /\ Lags(disk[p], log[p])

Inv == /\ Typed /\ Stamps /\ Locks /\ Overlays /\ Transaction
       /\ AtApply /\ AtRestore /\ Reads /\ Lagging

-----------------------------------------------------------------------------
(* Least and greatest elements.                                            *)

Below == {d \in Nat \X Nat : d[1] < d[2]}

LEMMA HasMin ==
    ASSUME NEW S \in SUBSET Nat, S # {}
    PROVE  Min(S) \in S /\ \A y \in S : Min(S) <= y
<1>1. IsWellFoundedOn(Below, Nat)
  <2>1. OpToRel(<, Nat) = Below
    BY Zenon DEF OpToRel, Below
  <2> QED
    BY <2>1, NatLessThanWellFounded, Zenon
<1>2. PICK x \in S : \A y \in S : ~(<<y, x>> \in Below)
  BY <1>1, WFMin, Zenon
<1>3. ASSUME NEW y \in S PROVE x <= y
  <2>1. x \in Nat /\ y \in Nat
    OBVIOUS
  <2>2. y < x => <<y, x>> \in Below
    BY <2>1, Zenon DEF Below
  <2> QED
    BY <1>2, <2>1, <2>2
<1> QED
  BY <1>3, Zenon DEF Min

LEMMA HasMax ==
    ASSUME NEW n \in Nat, NEW S \in SUBSET (0 .. n), S # {}
    PROVE  Max(S) \in S /\ \A y \in S : y <= Max(S)
<1> DEFINE T == {n - y : y \in S}
<1>1. T \in SUBSET Nat
  BY DEF T
<1>2. T # {}
  <2>1. PICK y \in S : TRUE
    BY Zenon
  <2>2. n - y \in T
    BY <2>1, Zenon
  <2> QED
    BY <2>2, Zenon
<1>3. PICK x \in S : \A y \in S : n - x <= n - y
  <2>1. Min(T) \in T /\ \A z \in T : Min(T) <= z
    BY <1>1, <1>2, HasMin, Zenon
  <2>2. PICK x \in S : Min(T) = n - x
    BY <2>1, Zenon
  <2>3. \A y \in S : n - y \in T
    OBVIOUS
  <2> QED
    BY <2>1, <2>2, <2>3, Zenon
<1>4. x \in S /\ \A y \in S : x >= y
  BY <1>3
<1>5. Max(S) \in S /\ \A y \in S : Max(S) >= y
  BY <1>4, Zenon DEF Max
<1> QED
  BY <1>5, Zenon

-----------------------------------------------------------------------------
(* What a log says of a key.                                               *)

LEMMA HitsHaveMax ==
    ASSUME NEW l \in Seq(Records), NEW k, HitsIn(l, k) # {}
    PROVE  /\ Max(HitsIn(l, k)) \in HitsIn(l, k)
           /\ \A i \in HitsIn(l, k) : i <= Max(HitsIn(l, k))
<1>1. Len(l) \in Nat /\ HitsIn(l, k) \in SUBSET (0 .. Len(l))
  BY DEF HitsIn
<1> QED
  BY <1>1, HasMax, Zenon

LEMMA LastSays ==
    ASSUME NEW l \in Seq(Records), NEW k, NEW i \in DOMAIN l, Touches(l, k, i),
           \A j \in DOMAIN l : Touches(l, k, j) => j <= i
    PROVE  ValueIn(l, k) = Says(l, i)
<1>1. i \in HitsIn(l, k) /\ \A j \in HitsIn(l, k) : j <= i /\ j \in Nat
  BY DEF HitsIn
<1>2. Max(HitsIn(l, k)) = i
  BY <1>1, HitsHaveMax
<1> QED
  BY <1>1, <1>2, Zenon DEF ValueIn

LEMMA SameHits ==
    ASSUME NEW l \in Seq(Records), NEW m \in Seq(Records), NEW k,
           \A i \in Nat : i \in DOMAIN l /\ Touches(l, k, i) <=> i \in DOMAIN m /\ Touches(m, k, i),
           \A i \in DOMAIN l \cap DOMAIN m : l[i].kind = m[i].kind
    PROVE  ValueIn(l, k) = ValueIn(m, k)
<1>1. HitsIn(l, k) = HitsIn(m, k)
  BY DEF HitsIn
<1>2. CASE HitsIn(l, k) = {}
  BY <1>1, <1>2, Zenon DEF ValueIn
<1>3. CASE HitsIn(l, k) # {}
  <2>1. Max(HitsIn(l, k)) \in HitsIn(l, k)
    BY <1>3, HitsHaveMax, Zenon
  <2>2. HitsIn(l, k) \subseteq DOMAIN l /\ HitsIn(m, k) \subseteq DOMAIN m
    BY DEF HitsIn
  <2>3. Max(HitsIn(l, k)) \in DOMAIN l \cap DOMAIN m
    BY <1>1, <2>1, <2>2, Zenon
  <2> QED
    BY <1>1, <1>3, <2>3, Zenon DEF ValueIn, Says
<1> QED
  BY <1>2, <1>3, Zenon

\* A lagging engine that no committed record is ahead of has the committed values.
LEMMA LevelIsExact ==
    ASSUME NEW s, NEW l, Lags(s, l), NEW k \in Keys, ~Past(l, k, s.wm)
    PROVE  s.val[k] = ValueIn(l, k)
BY Zenon DEF Lags

LEMMA CommittedIsValueIn ==
    ASSUME NEW p, NEW k \in Keys
    PROVE  Committed(p, k) = ValueIn(log[p], k)
<1>1. {i \in 1 .. Len(log[p]) : log[p][i].fate \in {"committed"} /\ k \in log[p][i].keys}
        = HitsIn(log[p], k)
  BY Zenon DEF HitsIn, Touches
<1>2. Empty.val[k] = 0
  BY Zenon DEF Empty
<1> QED
  BY <1>1, <1>2, Zenon DEF Committed, ValueAfter, ValueIn, Says

\* A record of open fate says nothing yet.
LEMMA AppendOpen ==
    ASSUME NEW l \in Seq(Records), NEW r \in Records, r.fate = "open"
    PROVE  /\ Append(l, r) \in Seq(Records) /\ Len(Append(l, r)) = Len(l) + 1
           /\ DOMAIN Append(l, r) = DOMAIN l \cup {Len(l) + 1}
           /\ \A i \in DOMAIN l : Append(l, r)[i] = l[i]
           /\ Append(l, r)[Len(l) + 1] = r
           /\ \A k : ValueIn(Append(l, r), k) = ValueIn(l, k)
           /\ \A k, w : Past(Append(l, r), k, w) <=> Past(l, k, w)
<1> DEFINE m == Append(l, r)
<1>1. /\ m \in Seq(Records) /\ Len(m) = Len(l) + 1 /\ DOMAIN m = DOMAIN l \cup {Len(l) + 1}
      /\ \A i \in DOMAIN l : m[i] = l[i]
      /\ m[Len(l) + 1] = r /\ Len(l) + 1 \notin DOMAIN l
  OBVIOUS
<1>2. \A k : \A i \in Nat : i \in DOMAIN l /\ Touches(l, k, i) <=> i \in DOMAIN m /\ Touches(m, k, i)
  BY <1>1, Zenon DEF Touches
<1>3. \A k : ValueIn(m, k) = ValueIn(l, k)
  BY <1>1, <1>2, SameHits, Zenon
<1>4. \A k, w : Past(m, k, w) <=> Past(l, k, w)
  BY <1>1, <1>2 DEF Past
<1> QED
  BY <1>1, <1>3, <1>4, Zenon

Settled(l, fate) ==
    [i \in 1 .. Len(l) |-> IF l[i].fate = "open" THEN [l[i] EXCEPT !.fate = fate] ELSE l[i]]

LEMMA SettledLog ==
    ASSUME NEW l \in Seq(Records), NEW fate \in {"committed", "aborted"}
    PROVE  /\ Settled(l, fate) \in Seq(Records) /\ Len(Settled(l, fate)) = Len(l)
           /\ DOMAIN Settled(l, fate) = DOMAIN l
           /\ \A i \in DOMAIN l : /\ Settled(l, fate)[i].keys = l[i].keys
                                  /\ Settled(l, fate)[i].kind = l[i].kind
                                  /\ Settled(l, fate)[i].fate =
                                       IF l[i].fate = "open" THEN fate ELSE l[i].fate
<1> DEFINE m == Settled(l, fate)
<1>1. Len(l) \in Nat /\ DOMAIN l = 1 .. Len(l) /\ \A i \in DOMAIN l : l[i] \in Records
  OBVIOUS
<1>2. ASSUME NEW i \in 1 .. Len(l)
      PROVE  /\ m[i] \in Records /\ m[i].keys = l[i].keys /\ m[i].kind = l[i].kind
             /\ m[i].fate = IF l[i].fate = "open" THEN fate ELSE l[i].fate
  BY <1>1, Zenon DEF Settled, Records
<1>3. m \in [1 .. Len(l) -> Records]
  BY <1>2, Zenon DEF Settled
<1>4. m \in Seq(Records) /\ Len(m) = Len(l) /\ DOMAIN m = DOMAIN l
  BY <1>1, <1>3
<1> QED
  BY <1>1, <1>2, <1>4, Zenon

\* An abort changes no committed value, a commit only those of open records.
LEMMA SettledValues ==
    ASSUME NEW l \in Seq(Records), NEW fate \in {"committed", "aborted"}, NEW k,
           \/ fate = "aborted"
           \/ \A i \in DOMAIN l : l[i].fate = "open" => k \notin l[i].keys
    PROVE  ValueIn(Settled(l, fate), k) = ValueIn(l, k)
<1>1. \A i \in Nat : i \in DOMAIN l /\ Touches(l, k, i)
                       <=> i \in DOMAIN Settled(l, fate) /\ Touches(Settled(l, fate), k, i)
  BY SettledLog DEF Touches
<1> QED
  BY <1>1, SettledLog, SameHits

LEMMA SettledLags ==
    ASSUME NEW l \in Seq(Records), NEW fate \in {"committed", "aborted"}, NEW s \in Engines,
           Lags(s, l), \A i \in DOMAIN l : l[i].fate = "open" => s.wm < i
    PROVE  Lags(s, Settled(l, fate))
<1> DEFINE m == Settled(l, fate)
<1> SUFFICES ASSUME NEW k \in Keys PROVE Past(m, k, s.wm) \/ s.val[k] = ValueIn(m, k)
  BY Zenon DEF Lags
<1>1. CASE Past(l, k, s.wm)
  BY <1>1, SettledLog, Zenon DEF Past, Touches
<1>2. CASE fate = "committed" /\ \E i \in DOMAIN l : l[i].fate = "open" /\ k \in l[i].keys
  <2>1. PICK i \in DOMAIN l : l[i].fate = "open" /\ k \in l[i].keys
    BY <1>2, Zenon
  <2>2. i \in DOMAIN m /\ i > s.wm /\ Touches(m, k, i)
    BY <1>2, <2>1, SettledLog, Zenon DEF Touches, Engines
  <2> QED
    BY <2>2, Zenon DEF Past
<1>3. CASE ~Past(l, k, s.wm)
           /\ (fate = "aborted" \/ \A i \in DOMAIN l : l[i].fate = "open" => k \notin l[i].keys)
  <2>1. ValueIn(m, k) = ValueIn(l, k)
    BY <1>3, SettledValues, Zenon
  <2> QED
    BY <1>3, <2>1, LevelIsExact, Zenon
<1> QED
  BY <1>1, <1>2, <1>3, Zenon

-----------------------------------------------------------------------------
(* Shapes.                                                                 *)

LEMMA LogShape ==
    ASSUME Typed, NEW p \in Partitions
    PROVE  /\ log[p] \in Seq(Records) /\ Len(log[p]) \in Nat /\ DOMAIN log[p] = 1 .. Len(log[p])
           /\ \A i \in DOMAIN log[p] : log[p][i] \in Records
BY DEF Typed

LEMMA EngineShape ==
    ASSUME Typed, NEW p \in Partitions
    PROVE  /\ live[p] \in Engines /\ live[p].wm \in Nat /\ live[p].val \in [Keys -> Nat]
           /\ disk[p] \in Engines /\ disk[p].wm \in Nat /\ disk[p].val \in [Keys -> Nat]
BY Zenon DEF Typed, Engines

LEMMA MainShape ==
    ASSUME Typed
    PROVE  /\ main = Idle <=> main.at = "idle"
           /\ main = Open <=> main.at = "open"
           /\ main = Unresolved <=> main.at = "unresolved"
           /\ main.at = "apply" => main \in Applies
           /\ main.at = "restore" => main \in Restores
           /\ main.at \in {"idle", "open", "unresolved", "apply", "restore"}
BY DEF Typed, Idle, Open, Unresolved, Applies, Restores

LEMMA ThreadShape ==
    ASSUME Typed, NEW t \in Threads, thread[t] # Idle
    PROVE  thread[t] \in Holding
BY Zenon DEF Typed

LEMMA NobodyHolds ==
    ASSUME Locks, main.at # "open"
    PROVE  \A t \in Threads : thread[t] = Idle
BY Zenon DEF Locks

-----------------------------------------------------------------------------
(* Steps that leave a part of the state alone.                             *)

LEMMA SameOverlays ==
    ASSUME Overlays, UNCHANGED <<log, staged, thread>>
    PROVE  Overlays'
BY DEF Overlays, Overlay, Ops, Held

LEMMA SameLocks ==
    ASSUME Locks, UNCHANGED <<log, staged, thread>>, main.at = "open" => main'.at = "open"
    PROVE  Locks'
BY Zenon DEF Locks, Idle

LEMMA QuietLocks ==
    ASSUME \A t \in Threads : thread'[t] = Idle
    PROVE  Locks'
BY Zenon DEF Locks, Idle

LEMMA SameReads ==
    ASSUME Reads, UNCHANGED <<log, live, staged, assigned, behind>>,
           main'.at = "open" => main.at = "open"
    PROVE  Reads'
BY Zenon DEF Reads, Exact, Served

LEMMA SameLagging ==
    ASSUME Lagging, UNCHANGED <<log, live, disk>>
    PROVE  Lagging'
BY Zenon DEF Lagging

LEMMA NoOverlays ==
    ASSUME DOMAIN staged' = {}
    PROVE  Overlays'
BY Zenon DEF Overlays

-----------------------------------------------------------------------------
(* Applying an overlay.                                                    *)

\* The batch an overlay becomes leaves the keys its records say nothing of and
\* writes what the last of them says to the others.
LEMMA IntoWritesLast ==
    ASSUME Typed, NEW p \in DOMAIN staged, Overlay(p), NEW val, NEW k \in Keys
    PROVE  \/ /\ into(staged[p], val)[k] = val[k]
              /\ \A i \in staged[p].positions : k \notin log[p][i].keys
           \/ \E i \in staged[p].positions :
                 /\ k \in log[p][i].keys /\ into(staged[p], val)[k] = Says(log[p], i)
                 /\ \A j \in staged[p].positions : k \in log[p][j].keys => j <= i
<1> DEFINE touching == {i \in staged[p].positions : k \in log[p][i].keys}
           ops == {op \in Ops(p) : k \in op.keys}
           last == CHOOSE op \in ops : \A other \in ops : other.sequence <= op.sequence
<1>1. into(staged[p], val)[k]
        = IF ops = {} THEN val[k] ELSE IF last.kind = "put" THEN last.value ELSE 0
  BY Zenon DEF into, Ops
<1>2. p \in Partitions /\ Len(log[p]) \in Nat /\ DOMAIN log[p] = 1 .. Len(log[p])
  BY LogShape, Zenon DEF Typed
<1>3. \A op \in ops : /\ op.value \in touching /\ op.kind = log[p][op.value].kind
                      /\ op.sequence \in Nat /\ op.value \in Nat
  BY <1>2 DEF Overlay
<1>4. ASSUME touching = {} PROVE into(staged[p], val)[k] = val[k]
  BY <1>1, <1>3, <1>4, Zenon
<1>5. ASSUME touching # {}
      PROVE  \E i \in touching :
                 (\A j \in touching : j <= i) /\ into(staged[p], val)[k] = Says(log[p], i)
  <2>1. touching \in SUBSET (0 .. Len(log[p]))
    BY <1>2 DEF Overlay
  <2> HIDE DEF touching, ops, last
  <2>11. Max(touching) \in touching /\ \A j \in touching : j <= Max(touching)
    BY <1>2, <1>5, <2>1, HasMax, Zenon
  <2>12. Max(touching) \in 0 .. Len(log[p])
    BY <2>1, <2>11, Zenon
  <2>13. Max(touching) \in Nat
    BY <2>12
  <2>2. PICK i \in touching : i \in Nat /\ \A j \in touching : j <= i
    BY <2>11, <2>13, Zenon
  <2>3. PICK op \in ops : op.value >= i
    BY <2>2, Zenon DEF Overlay, touching, ops
  <2>4. op.value = i
    BY <1>3, <2>2, <2>3
  <2>5. \A other \in ops : other.sequence <= op.sequence
    <3> SUFFICES ASSUME NEW other \in ops PROVE ~(op.sequence < other.sequence)
      BY <1>3
    <3>1. op.sequence < other.sequence <=> op.value < other.value
      BY Zenon DEF Overlay, ops
    <3> QED
      BY <1>3, <2>2, <2>4, <3>1
  <2>6. last \in ops /\ \A other \in ops : other.sequence <= last.sequence
    BY <2>5, Zenon DEF last
  <2>7. ~(last.sequence < op.sequence)
    BY <1>3, <2>6
  <2>8. last.sequence < op.sequence <=> last.value < op.value
    BY <2>6, Zenon DEF Overlay, ops
  <2>9. last.value = i
    BY <1>3, <2>2, <2>4, <2>6, <2>7, <2>8
  <2>10. into(staged[p], val)[k] = Says(log[p], i)
    BY <1>1, <1>3, <2>3, <2>6, <2>9, Zenon DEF Says
  <2> QED
    BY <2>2, <2>10, Zenon
<1>6. CASE touching = {}
  BY <1>4, <1>6, Zenon
<1>7. CASE touching # {}
  <2>1. PICK i \in touching :
            (\A j \in touching : j <= i) /\ into(staged[p], val)[k] = Says(log[p], i)
    BY <1>5, <1>7, Zenon
  <2> QED
    BY <2>1, Zenon
<1> QED
  BY <1>6, <1>7, Zenon

\* The partition whose turn it is.
LEMMA TurnOf ==
    ASSUME Inv, NEW p \in Partitions, Applying(p)
    PROVE  /\ main \in Applies /\ main.at = "apply"
           /\ p \in main.todo /\ p \in DOMAIN staged /\ p \notin main.failed /\ Served(p)
           /\ \A t \in Threads : thread[t] = Idle
<1>1. main.at = "apply" /\ main.todo # {} /\ p = Min(main.todo)
  BY Zenon DEF Applying
<1>2. main \in Applies
  BY <1>1, MainShape, Zenon DEF Inv
<1>3. main.todo \in SUBSET Nat
  BY <1>2, PartitionsAssumption, Zenon DEF Applies
<1>4. p \in main.todo
  BY <1>1, <1>3, HasMin, Zenon
<1> QED
  BY <1>1, <1>2, <1>4, NobodyHolds, Zenon DEF Inv, AtApply, Transaction

LEMMA ApplyWriteKeeps ==
    ASSUME Inv, NEW p \in Partitions, ApplyWrite(p)
    PROVE  Inv'
<1> DEFINE o == staged[p]
           written == into(staged[p], live[p].val)
<1>1. /\ main \in Applies /\ main.at = "apply" /\ ~main.wrote
      /\ p \in main.todo /\ p \in DOMAIN staged /\ p \notin main.failed /\ Served(p)
      /\ \A t \in Threads : thread[t] = Idle
  BY TurnOf, Zenon DEF ApplyWrite
<1>2. /\ o.positions # {} /\ main.todo # {} /\ p = Min(main.todo)
      /\ live' = [live EXCEPT ![p].val = written]
      /\ main' = [main EXCEPT !.wrote = TRUE]
      /\ UNCHANGED <<log, disk, assigned, behind, materialized, staged, thread>>
  BY Zenon DEF ApplyWrite, Applying
<1>3. /\ main' \in Applies /\ main'.at = "apply" /\ main'.wrote
      /\ main'.todo = main.todo /\ main'.failed = main.failed
  BY <1>1, <1>2, Zenon DEF Applies
<1>4. /\ log[p] \in Seq(Records) /\ Len(log[p]) \in Nat /\ DOMAIN log[p] = 1 .. Len(log[p])
      /\ live[p] \in Engines /\ live[p].wm \in Nat /\ live[p].val \in [Keys -> Nat]
  BY LogShape, EngineShape, Zenon DEF Inv
<1>5. /\ Overlay(p) /\ o.positions \subseteq DOMAIN log[p]
      /\ \A i \in o.positions : log[p][i].fate = "committed" /\ live[p].wm < i
  BY <1>1, Zenon DEF Inv, Overlays, Overlay, Transaction, AtApply
<1>6. ASSUME NEW k \in Keys
      PROVE  \/ /\ written[k] = live[p].val[k]
                /\ \A i \in o.positions : k \notin log[p][i].keys
             \/ \E i \in o.positions :
                   /\ k \in log[p][i].keys /\ written[k] = Says(log[p], i)
                   /\ \A j \in o.positions : k \in log[p][j].keys => j <= i
  <2>1. Typed
    BY Zenon DEF Inv
  <2> QED
    BY <1>1, <1>5, <2>1, IntoWritesLast, Zenon
<1>7. written \in [Keys -> Nat]
  <2>1. written = [k \in Keys |-> written[k]]
    BY DEF into
  <2>2. \A k \in Keys : written[k] \in Nat
    BY <1>4, <1>5, <1>6 DEF Says
  <2> QED
    BY <2>1, <2>2, Zenon
<1> HIDE DEF written
<1>8. /\ live' \in [Partitions -> Engines]
      /\ live'[p].val = written /\ live'[p].wm = live[p].wm
      /\ \A q \in Partitions \ {p} : live'[q] = live[q]
      /\ \A q \in Partitions : live'[q].wm = live[q].wm
  BY <1>2, <1>4, <1>7, Zenon DEF Inv, Typed, Engines
<1>9. Typed'
  BY <1>2, <1>3, <1>8, Zenon DEF Inv, Typed
<1>10. Stamps'
  BY <1>1, <1>2, <1>3, <1>8 DEF Inv, Stamps
<1>11. Locks' /\ Overlays'
  BY <1>1, <1>2, <1>3, SameLocks, SameOverlays, Zenon DEF Inv
<1>12. Transaction'
  BY <1>1, <1>2, <1>3, Zenon DEF Inv, Transaction, Served
<1>13. Exact(p)'
  <2> SUFFICES ASSUME NEW k \in Keys PROVE written[k] = ValueIn(log[p], k)
    BY <1>2, <1>8, Zenon DEF Exact
  <2>1. CASE \A i \in o.positions : k \notin log[p][i].keys
    <3>1. live[p].val[k] = ValueIn(log[p], k)
      BY <1>1, <2>1, Zenon DEF Inv, AtApply, Writing
    <3> QED
      BY <1>6, <2>1, <3>1, Zenon
  <2>2. CASE \E i \in o.positions : k \in log[p][i].keys
    <3>1. PICK i \in o.positions :
              /\ k \in log[p][i].keys /\ written[k] = Says(log[p], i)
              /\ \A j \in o.positions : k \in log[p][j].keys => j <= i
      BY <1>6, <2>2, Zenon
    <3>2. i \in DOMAIN log[p] /\ Touches(log[p], k, i)
      BY <1>5, <3>1, Zenon DEF Touches
    <3>3. \A j \in DOMAIN log[p] \ o.positions : j < i
      BY <1>1, <1>5, <3>1, Zenon DEF Overlay, Held
    <3>4. \A j \in DOMAIN log[p] : Touches(log[p], k, j) => j <= i
      BY <1>4, <1>5, <3>1, <3>3 DEF Touches
    <3> QED
      BY <1>4, <3>1, <3>2, <3>4, LastSays, Zenon
  <2> QED
    BY <2>1, <2>2, Zenon
<1>14. \A q \in DOMAIN staged \ {p} : Exact(q)' <=> Exact(q)
  BY <1>2, <1>8, Zenon DEF Exact, Inv, Typed
<1>15. AtApply'
  <2>1. \A q \in Partitions : Writing(q)' <=> q = p
    BY <1>2, <1>3, Zenon DEF Writing
  <2>2. \A q \in Partitions : ~Writing(q)
    BY <1>1, Zenon DEF Writing
  <2>3. DOMAIN staged \subseteq Partitions /\ main.todo \subseteq Partitions
    BY <1>1, Zenon DEF Inv, Typed, Applies
  <2> QED
    BY <1>1, <1>2, <1>3, <1>8, <1>13, <1>14, <2>1, <2>2, <2>3 DEF Inv, AtApply
<1>16. AtRestore' /\ Reads'
  BY <1>1, <1>2, <1>3, <1>8 DEF Inv, AtRestore, Reads, Exact, Served
<1>17. Lagging'
  <2>1. ASSUME NEW k \in Keys PROVE Past(log[p], k, live[p].wm) \/ written[k] = ValueIn(log[p], k)
    BY <1>2, <1>8, <1>13, <2>1, Zenon DEF Exact
  <2> QED
    BY <1>2, <1>8, <2>1, Zenon DEF Inv, Lagging, Lags
<1> QED
  BY <1>9, <1>10, <1>11, <1>12, <1>15, <1>16, <1>17, Zenon DEF Inv

LEMMA ApplyStampKeeps ==
    ASSUME Inv, NEW p \in Partitions, ApplyStamp(p)
    PROVE  Inv'
<1> DEFINE top == Max(staged[p].positions)
<1>1. /\ main \in Applies /\ main.at = "apply" /\ main.wrote
      /\ p \in main.todo /\ p \in DOMAIN staged /\ p \notin main.failed /\ Served(p)
      /\ \A t \in Threads : thread[t] = Idle
  BY TurnOf, Zenon DEF ApplyStamp
<1>2. /\ main.todo # {} /\ p = Min(main.todo)
      /\ live' = [live EXCEPT ![p].wm = top]
      /\ materialized' = [materialized EXCEPT ![p] = top]
      /\ main' = [main EXCEPT !.todo = @ \ {p}, !.wrote = FALSE]
      /\ UNCHANGED <<log, disk, assigned, behind, staged, thread>>
  BY Zenon DEF ApplyStamp, Applying
<1>3. /\ main' \in Applies /\ main'.at = "apply" /\ ~main'.wrote
      /\ main'.todo = main.todo \ {p} /\ main'.failed = main.failed
  BY <1>1, <1>2, Zenon DEF Applies
<1>4. /\ Len(log[p]) \in Nat /\ DOMAIN log[p] = 1 .. Len(log[p]) /\ live[p] \in Engines
  BY LogShape, EngineShape, Zenon DEF Inv
<1>5. top \in DOMAIN log[p]
  <2>1. staged[p].positions \in SUBSET (0 .. Len(log[p])) /\ staged[p].positions # {}
    BY <1>1, <1>2, <1>4 DEF Inv, Overlays, Overlay, AtApply
  <2>2. top \in staged[p].positions
    BY <1>4, <2>1, HasMax, Zenon
  <2> QED
    BY <1>1, <2>2, Zenon DEF Inv, Overlays, Overlay
<1> HIDE DEF top
<1>6. /\ live' \in [Partitions -> Engines] /\ materialized' \in [Partitions -> Nat]
      /\ live'[p].val = live[p].val /\ live'[p].wm = top /\ materialized'[p] = top
      /\ \A q \in Partitions \ {p} : live'[q] = live[q] /\ materialized'[q] = materialized[q]
      /\ \A q \in Partitions : live'[q].val = live[q].val
  <2>1. top \in Nat
    BY <1>4, <1>5
  <2>2. live \in [Partitions -> Engines] /\ materialized \in [Partitions -> Nat]
    BY Zenon DEF Inv, Typed
  <2>3. [live[p] EXCEPT !.wm = top] \in Engines
    BY <1>4, <2>1, Zenon DEF Engines
  <2>4. live' \in [Partitions -> Engines] /\ materialized' \in [Partitions -> Nat]
    BY <1>2, <2>1, <2>2, <2>3, Zenon
  <2>5. /\ live'[p].val = live[p].val /\ live'[p].wm = top /\ materialized'[p] = top
        /\ \A q \in Partitions \ {p} : live'[q] = live[q] /\ materialized'[q] = materialized[q]
    BY <1>2, <1>4, <2>2, Zenon DEF Engines
  <2> QED
    BY <2>4, <2>5, Zenon
<1>7. Typed'
  BY <1>2, <1>3, <1>6, Zenon DEF Inv, Typed
<1>8. Stamps'
  <2> SUFFICES ASSUME NEW q \in Partitions
               PROVE  /\ live'[q].wm <= Len(log[q]) /\ disk[q].wm <= Len(log[q])
                      /\ \A i \in DOMAIN log[q] : log[q][i].fate # "open"
                      /\ q \in assigned => materialized'[q] = live'[q].wm
    BY <1>2, <1>3, Zenon DEF Stamps
  <2> QED
    BY <1>1, <1>4, <1>5, <1>6 DEF Inv, Stamps
<1>9. Locks' /\ Overlays'
  BY <1>1, <1>2, <1>3, SameLocks, SameOverlays, Zenon DEF Inv
<1>10. Transaction'
  BY <1>1, <1>2, <1>3, Zenon DEF Inv, Transaction, Served
<1>11. \A q \in Partitions : Exact(q)' <=> Exact(q)
  BY <1>2, <1>6, Zenon DEF Exact
<1>12. Exact(p)
  BY <1>1, <1>2, Zenon DEF Inv, AtApply, Writing
<1>13. AtApply'
  <2>1. \A q \in Partitions : ~Writing(q)' /\ (Writing(q) <=> q = p)
    BY <1>1, <1>2, <1>3, Zenon DEF Writing
  <2>2. DOMAIN staged \subseteq Partitions /\ main.todo \subseteq Partitions
    BY <1>1, Zenon DEF Inv, Typed, Applies
  <2> QED
    BY <1>1, <1>2, <1>3, <1>6, <1>11, <1>12, <2>1, <2>2 DEF Inv, AtApply
<1>14. AtRestore' /\ Reads'
  BY <1>1, <1>2, <1>3, <1>11, Zenon DEF Inv, AtRestore, Reads, Served
<1>15. Lagging'
  BY <1>2, <1>6, <1>12 DEF Inv, Lagging, Lags, Exact
<1> QED
  BY <1>7, <1>8, <1>9, <1>10, <1>13, <1>14, <1>15, Zenon DEF Inv

LEMMA ApplyFailsKeeps ==
    ASSUME Inv, NEW p \in Partitions, ApplyFails(p)
    PROVE  Inv'
<1>1. /\ main \in Applies /\ main.at = "apply"
      /\ p \in main.todo /\ p \in DOMAIN staged /\ p \notin main.failed
  BY TurnOf, Zenon DEF ApplyFails
<1>2. /\ p = Min(main.todo)
      /\ main' = [main EXCEPT !.todo = @ \ {p}, !.failed = @ \cup {p}, !.wrote = FALSE]
      /\ UNCHANGED <<log, live, disk, materialized, assigned, behind, staged, thread>>
  BY Zenon DEF ApplyFails, Applying, GaveUp, store
<1>3. /\ main' \in Applies /\ main'.at = "apply" /\ ~main'.wrote
      /\ main'.todo = main.todo \ {p} /\ main'.failed = main.failed \cup {p}
  BY <1>1, <1>2, Zenon DEF Applies
<1>4. Typed'
  BY <1>2, <1>3, Zenon DEF Inv, Typed
<1>5. Stamps'
  BY <1>1, <1>2, <1>3, Zenon DEF Inv, Stamps
<1>6. Locks' /\ Overlays'
  BY <1>1, <1>2, <1>3, SameLocks, SameOverlays, Zenon DEF Inv
<1>7. Transaction'
  BY <1>1, <1>2, <1>3, Zenon DEF Inv, Transaction, Served
<1>8. AtApply'
  <2>1. \A q \in Partitions \ {p} : ~Writing(q)' /\ ~Writing(q)
    BY <1>2, <1>3, Zenon DEF Writing
  <2>2. DOMAIN staged \subseteq Partitions /\ main.todo \subseteq Partitions
    BY <1>1, Zenon DEF Inv, Typed, Applies
  <2> QED
    BY <1>1, <1>2, <1>3, <2>1, <2>2, Zenon DEF Inv, AtApply, Exact
<1>9. AtRestore' /\ Reads' /\ Lagging'
  BY <1>1, <1>2, <1>3, SameReads, SameLagging, Zenon DEF Inv, AtRestore
<1> QED
  BY <1>4, <1>5, <1>6, <1>7, <1>8, <1>9, Zenon DEF Inv

LEMMA ApplyCommittedKeeps ==
    ASSUME Inv, applyCommitted
    PROVE  Inv'
<1>1. /\ main.at = "apply" /\ main.todo = {} /\ main \in Applies
      /\ main' = Idle /\ staged' = <<>>
      /\ behind' = [p \in Partitions |-> behind[p] \/ p \in main.failed \cap assigned]
      /\ UNCHANGED <<log, live, disk, materialized, assigned, thread>>
  BY MainShape, Zenon DEF Inv, applyCommitted, dropStaged, markBehind, store
<1>2. main'.at = "idle" /\ DOMAIN staged' = {} /\ \A t \in Threads : thread'[t] = Idle
  BY <1>1, NobodyHolds DEF Inv, Idle
<1>3. behind' \in [Partitions -> BOOLEAN]
  BY <1>1, Zenon DEF Inv, Typed
<1>4. Typed'
  BY <1>1, <1>2, <1>3, Zenon DEF Inv, Typed
<1>5. Stamps'
  BY <1>1, <1>2, Zenon DEF Inv, Stamps
<1>6. Locks' /\ Overlays'
  BY <1>2, QuietLocks, NoOverlays, Zenon
<1>7. Transaction' /\ AtApply' /\ AtRestore'
  BY <1>2, Zenon DEF Transaction, AtApply, AtRestore
<1>8. Reads'
  <2> SUFFICES ASSUME NEW p \in Partitions, Served(p)' PROVE Exact(p)'
    BY <1>2, Zenon DEF Reads
  <2>1. Served(p) /\ p \notin main.failed
    BY <1>1, Zenon DEF Served, Inv, Typed
  <2>2. Exact(p)
    BY <1>1, <2>1, Zenon DEF Inv, Reads, AtApply
  <2> QED
    BY <1>1, <2>2, Zenon DEF Exact
<1>9. Lagging'
  BY <1>1, SameLagging, Zenon DEF Inv
<1> QED
  BY <1>4, <1>5, <1>6, <1>7, <1>8, <1>9, Zenon DEF Inv

\* Outside a transaction nothing is staged and nobody holds a stageLock.
LEMMA Between ==
    ASSUME main'.at \in {"idle", "restore"}, DOMAIN staged' = {},
           \A t \in Threads : thread'[t] = Idle
    PROVE  Locks' /\ Overlays' /\ Transaction' /\ AtApply'
BY QuietLocks, NoOverlays, Zenon DEF Transaction, AtApply

LEMMA AtRest ==
    ASSUME Inv, main.at \in {"idle", "restore"}
    PROVE  /\ DOMAIN staged = {} /\ \A t \in Threads : thread[t] = Idle
           /\ \A p \in Partitions : \A i \in DOMAIN log[p] : log[p][i].fate # "open"
BY NobodyHolds, Zenon DEF Inv, Transaction, Stamps

LEMMA AssignKeeps ==
    ASSUME Inv, NEW p \in Partitions, assign(p)
    PROVE  Inv'
<1>1. /\ main.at = "idle" /\ p \notin assigned
      /\ live' = [live EXCEPT ![p] = disk[p]]
      /\ materialized' = [materialized EXCEPT ![p] = disk[p].wm]
      /\ main' = [at |-> "restore", partition |-> p, wrote |-> FALSE]
      /\ UNCHANGED <<log, disk, assigned, behind, staged, thread>>
  BY Zenon DEF assign, Idle
<1>2. main' \in Restores /\ main'.at = "restore" /\ main'.partition = p /\ ~main'.wrote
  BY <1>1, Zenon DEF Restores
<1>3. disk[p] \in Engines /\ disk[p].wm \in Nat
  BY Zenon DEF Inv, Typed, Engines
<1>4. /\ live' \in [Partitions -> Engines] /\ materialized' \in [Partitions -> Nat]
      /\ live'[p] = disk[p] /\ materialized'[p] = disk[p].wm
      /\ \A q \in Partitions \ {p} : live'[q] = live[q] /\ materialized'[q] = materialized[q]
  BY <1>1, <1>3, Zenon DEF Inv, Typed
<1>5. Typed'
  BY <1>1, <1>2, <1>4, Zenon DEF Inv, Typed
<1>6. Locks' /\ Overlays' /\ Transaction' /\ AtApply'
  BY <1>1, <1>2, AtRest, Between, Zenon
<1>7. Stamps'
  BY <1>1, <1>2, <1>4, AtRest, Zenon DEF Inv, Stamps
<1>8. AtRestore'
  BY <1>1, <1>2, Zenon DEF AtRestore, Served
<1>9. Reads'
  BY <1>1, <1>2, <1>4, Zenon DEF Inv, Reads, Exact, Served
<1>10. Lagging'
  BY <1>1, <1>4, Zenon DEF Inv, Lagging
<1> QED
  BY <1>5, <1>6, <1>7, <1>8, <1>9, <1>10, Zenon DEF Inv

LEMMA RepairKeeps ==
    ASSUME Inv, NEW p \in Partitions, repair(p)
    PROVE  Inv'
<1>1. /\ main.at = "idle" /\ p \in assigned /\ behind[p]
      /\ main' = [at |-> "restore", partition |-> p, wrote |-> FALSE]
      /\ UNCHANGED <<log, live, disk, materialized, assigned, behind, staged, thread>>
  BY Zenon DEF repair, Idle, store
<1>2. main' \in Restores /\ main'.at = "restore" /\ main'.partition = p /\ ~main'.wrote
  BY <1>1, Zenon DEF Restores
<1>3. Typed'
  BY <1>1, <1>2, Zenon DEF Inv, Typed
<1>4. Locks' /\ Overlays' /\ Transaction' /\ AtApply'
  BY <1>1, <1>2, AtRest, Between, Zenon
<1>5. Stamps'
  BY <1>1, <1>2, AtRest, Zenon DEF Inv, Stamps
<1>6. AtRestore'
  BY <1>1, <1>2, Zenon DEF AtRestore, Served
<1>7. Reads' /\ Lagging'
  BY <1>1, <1>2, SameReads, SameLagging, Zenon DEF Inv
<1> QED
  BY <1>3, <1>4, <1>5, <1>6, <1>7, Zenon DEF Inv

\* The next record of a restore is the first committed one past the watermark.
LEMMA NextRecord ==
    ASSUME Inv, main.at = "restore", Remaining(main.partition) # {}
    PROVE  LET p == main.partition
               n == Min(Remaining(p))
           IN  /\ main \in Restores /\ p \in Partitions /\ n \in DOMAIN log[p] /\ n \in Nat
               /\ log[p][n].fate = "committed" /\ live[p].wm < n /\ materialized[p] = live[p].wm
               /\ \A i \in DOMAIN log[p] : log[p][i].fate = "committed" /\ live[p].wm < i => n <= i
<1> DEFINE p == main.partition
           n == Min(Remaining(p))
<1>1. main \in Restores /\ p \in Partitions
  BY MainShape, Zenon DEF Inv, Restores
<1>2. /\ Len(log[p]) \in Nat /\ DOMAIN log[p] = 1 .. Len(log[p])
      /\ live[p].wm \in Nat /\ materialized[p] = live[p].wm
  BY <1>1, LogShape, EngineShape, Zenon DEF Inv, Stamps
<1>3. Remaining(p) \in SUBSET Nat
  BY <1>2 DEF Remaining
<1>4. n \in Remaining(p) /\ \A i \in Remaining(p) : n <= i
  BY <1>3, HasMin, Zenon
<1> HIDE DEF n
<1>5. n \in DOMAIN log[p] /\ n \in Nat /\ log[p][n].fate = "committed" /\ live[p].wm < n
  BY <1>2, <1>4 DEF Remaining
<1>6. ASSUME NEW i \in DOMAIN log[p], log[p][i].fate = "committed", live[p].wm < i
      PROVE  n <= i
  <2>1. i \in Remaining(p)
    BY <1>2, <1>6 DEF Remaining
  <2> QED
    BY <1>4, <2>1, Zenon
<1> QED
  BY <1>1, <1>2, <1>5, <1>6, Zenon DEF n

LEMMA RestoreWriteKeeps ==
    ASSUME Inv, RestoreWrite
    PROVE  Inv'
<1> DEFINE p == main.partition
           n == Min(Remaining(p))
           written == Written(live[p].val, log[p][n], n)
<1>1. main.at = "restore" /\ ~main.wrote /\ Remaining(p) # {}
  BY Zenon DEF RestoreWrite
<1>2. /\ main \in Restores /\ p \in Partitions /\ n \in DOMAIN log[p] /\ n \in Nat
      /\ log[p][n].fate = "committed" /\ live[p].wm < n /\ materialized[p] = live[p].wm
      /\ \A i \in DOMAIN log[p] : log[p][i].fate = "committed" /\ live[p].wm < i => n <= i
  BY <1>1, NextRecord, Zenon
<1>3. /\ live' = [live EXCEPT ![p].val = written]
      /\ main' = [main EXCEPT !.wrote = TRUE]
      /\ UNCHANGED <<log, disk, assigned, behind, materialized, staged, thread>>
  BY Zenon DEF RestoreWrite
<1>4. main' \in Restores /\ main'.at = "restore" /\ main'.partition = p /\ main'.wrote
  BY <1>2, <1>3, Zenon DEF Restores
<1> HIDE DEF n
<1>5. /\ log[p] \in Seq(Records) /\ Len(log[p]) \in Nat /\ DOMAIN log[p] = 1 .. Len(log[p])
      /\ live[p] \in Engines /\ live[p].wm \in Nat /\ live[p].val \in [Keys -> Nat]
  BY <1>2, LogShape, EngineShape, Zenon DEF Inv
<1>6. \A k \in Keys : written[k] = IF k \in log[p][n].keys THEN Says(log[p], n) ELSE live[p].val[k]
  BY Zenon DEF Written, Says
<1>7. written \in [Keys -> Nat]
  BY <1>2, <1>5, Zenon DEF Written
<1> HIDE DEF written
<1>8. /\ live' \in [Partitions -> Engines]
      /\ live'[p].val = written /\ live'[p].wm = live[p].wm
      /\ \A q \in Partitions \ {p} : live'[q] = live[q]
      /\ \A q \in Partitions : live'[q].wm = live[q].wm
  BY <1>2, <1>3, <1>5, <1>7, Zenon DEF Inv, Typed, Engines
<1>9. Typed'
  BY <1>3, <1>4, <1>8, Zenon DEF Inv, Typed
<1>10. Locks' /\ Overlays' /\ Transaction' /\ AtApply'
  BY <1>1, <1>3, <1>4, AtRest, Between, Zenon
<1>11. Stamps'
  BY <1>1, <1>3, <1>4, <1>8, AtRest, Zenon DEF Inv, Stamps
<1>12. AtRestore'
  <2>1. ~Served(p)
    BY <1>1, Zenon DEF Inv, AtRestore
  <2>2. Remaining(p)' = Remaining(p)
    BY <1>3 DEF Remaining
  <2>3. \A k \in log[p][n].keys : k \in Keys
    <3>1. log[p][n] \in Records
      BY <1>2, <1>5
    <3> QED
      BY <3>1, Zenon DEF Records
  <2>4. \A k \in log[p][n].keys : live'[p].val[k] = Says(log[p], n)
    BY <1>6, <1>8, <2>3, Zenon
  <2> QED
    BY <1>1, <1>3, <1>4, <2>1, <2>2, <2>4 DEF AtRestore, Served, n
<1>13. Reads'
  <2>1. ~Served(p)
    BY <1>1, Zenon DEF Inv, AtRestore
  <2> QED
    BY <1>1, <1>3, <1>4, <1>8, <2>1, Zenon DEF Inv, Reads, Exact, Served
<1>14. Lags(live'[p], log[p])
  <2> SUFFICES ASSUME NEW k \in Keys
               PROVE  Past(log[p], k, live[p].wm) \/ written[k] = ValueIn(log[p], k)
    BY <1>8, Zenon DEF Lags
  <2>1. CASE k \in log[p][n].keys
    BY <1>2, <2>1, Zenon DEF Past, Touches
  <2>2. CASE k \notin log[p][n].keys
    BY <1>2, <1>6, <2>2, Zenon DEF Inv, Lagging, Lags
  <2> QED
    BY <2>1, <2>2, Zenon
<1>15. Lagging'
  BY <1>3, <1>8, <1>14, Zenon DEF Inv, Lagging
<1> QED
  BY <1>9, <1>10, <1>11, <1>12, <1>13, <1>15, Zenon DEF Inv

LEMMA RestoreStampKeeps ==
    ASSUME Inv, RestoreStamp
    PROVE  Inv'
<1> DEFINE p == main.partition
           n == Min(Remaining(p))
<1>1. main.at = "restore" /\ main.wrote
  BY Zenon DEF RestoreStamp
<1>2. /\ Remaining(p) # {} /\ ~Served(p)
      /\ \A k \in log[p][n].keys : live[p].val[k] = Says(log[p], n)
  BY <1>1, Zenon DEF Inv, AtRestore
<1>3. /\ main \in Restores /\ p \in Partitions /\ n \in DOMAIN log[p] /\ n \in Nat
      /\ log[p][n].fate = "committed" /\ live[p].wm < n
      /\ \A i \in DOMAIN log[p] : log[p][i].fate = "committed" /\ live[p].wm < i => n <= i
  BY <1>1, <1>2, NextRecord, Zenon
<1>4. /\ live' = [live EXCEPT ![p].wm = n]
      /\ materialized' = [materialized EXCEPT ![p] = n]
      /\ main' = [main EXCEPT !.wrote = FALSE]
      /\ UNCHANGED <<log, disk, assigned, behind, staged, thread>>
  BY Zenon DEF RestoreStamp
<1> HIDE DEF n
<1>5. main' \in Restores /\ main'.at = "restore" /\ main'.partition = p /\ ~main'.wrote
  BY <1>3, <1>4, Zenon DEF Restores
<1>6. /\ log[p] \in Seq(Records) /\ Len(log[p]) \in Nat /\ DOMAIN log[p] = 1 .. Len(log[p])
      /\ live[p] \in Engines /\ live[p].wm \in Nat /\ live[p].val \in [Keys -> Nat]
  BY <1>3, LogShape, EngineShape, Zenon DEF Inv
<1>7. [live[p] EXCEPT !.wm = n] \in Engines
  BY <1>3, <1>6, Zenon DEF Engines
<1>8. /\ live' \in [Partitions -> Engines] /\ materialized' \in [Partitions -> Nat]
  BY <1>3, <1>4, <1>7, Zenon DEF Inv, Typed
<1>9. /\ live'[p].val = live[p].val /\ live'[p].wm = n /\ materialized'[p] = n
      /\ \A q \in Partitions \ {p} : live'[q] = live[q] /\ materialized'[q] = materialized[q]
  BY <1>3, <1>4, <1>6, Zenon DEF Inv, Typed, Engines
<1>10. Typed'
  BY <1>4, <1>5, <1>8, Zenon DEF Inv, Typed
<1>11. Locks' /\ Overlays' /\ Transaction' /\ AtApply'
  BY <1>1, <1>4, <1>5, AtRest, Between, Zenon
<1>12. Stamps'
  <2> SUFFICES ASSUME NEW q \in Partitions
               PROVE  /\ live'[q].wm <= Len(log[q]) /\ disk[q].wm <= Len(log[q])
                      /\ \A i \in DOMAIN log[q] : log[q][i].fate # "open"
                      /\ q \in assigned \/ p = q => materialized'[q] = live'[q].wm
    BY <1>4, <1>5, Zenon DEF Stamps
  <2>1. disk[q].wm <= Len(log[q]) /\ \A i \in DOMAIN log[q] : log[q][i].fate # "open"
    BY <1>1, AtRest, Zenon DEF Inv, Stamps
  <2>2. live'[q].wm <= Len(log[q])
    BY <1>3, <1>6, <1>9 DEF Inv, Stamps
  <2>3. q \in assigned \/ p = q => materialized'[q] = live'[q].wm
    BY <1>9, Zenon DEF Inv, Stamps
  <2> QED
    BY <2>1, <2>2, <2>3, Zenon
<1>13. AtRestore'
  BY <1>2, <1>4, <1>5 DEF AtRestore, Served
<1>14. Reads'
  BY <1>1, <1>2, <1>4, <1>5, <1>9 DEF Inv, Reads, Exact, Served
<1>15. Lags(live'[p], log[p])
  <2> SUFFICES ASSUME NEW k \in Keys, ~Past(log[p], k, n)
               PROVE  live[p].val[k] = ValueIn(log[p], k)
    BY <1>9, Zenon DEF Lags
  <2>1. CASE k \in log[p][n].keys
    <3>1. Touches(log[p], k, n)
      BY <1>3, <2>1, Zenon DEF Touches
    <3>2. \A j \in DOMAIN log[p] : Touches(log[p], k, j) => j <= n
      BY <1>3, <1>6 DEF Past
    <3>3. ValueIn(log[p], k) = Says(log[p], n)
      BY <1>3, <1>6, <3>1, <3>2, LastSays, Zenon
    <3> QED
      BY <1>2, <2>1, <3>3, Zenon
  <2>2. CASE k \notin log[p][n].keys
    <3>1. ~Past(log[p], k, live[p].wm)
      <4> SUFFICES ASSUME NEW i \in DOMAIN log[p], i > live[p].wm, Touches(log[p], k, i) PROVE FALSE
        BY Zenon DEF Past
      <4>1. n <= i /\ i # n
        BY <1>3, <1>6, <2>2, Zenon DEF Touches
      <4>2. i > n
        BY <1>3, <1>6, <4>1
      <4> QED
        BY <4>2, Zenon DEF Past
    <3> QED
      BY <1>3, <3>1, Zenon DEF Inv, Lagging, Lags
  <2> QED
    BY <2>1, <2>2, Zenon
<1>16. Lagging'
  BY <1>4, <1>9, <1>15, Zenon DEF Inv, Lagging
<1> QED
  BY <1>10, <1>11, <1>12, <1>13, <1>14, <1>16, Zenon DEF Inv

LEMMA ReplayKeeps ==
    ASSUME Inv, replay
    PROVE  Inv'
<1> DEFINE p == main.partition
<1>1. /\ main.at = "restore" /\ Remaining(p) = {}
      /\ assigned' = assigned \cup {p} /\ behind' = [behind EXCEPT ![p] = FALSE]
      /\ main' = Idle
      /\ UNCHANGED <<log, live, disk, materialized, staged, thread>>
  BY Zenon DEF replay, store
<1>2. main \in Restores /\ p \in Partitions /\ main'.at = "idle"
  BY <1>1, MainShape, Zenon DEF Inv, Restores, Idle
<1>3. /\ log[p] \in Seq(Records) /\ Len(log[p]) \in Nat /\ DOMAIN log[p] = 1 .. Len(log[p])
      /\ live[p].wm \in Nat /\ materialized[p] = live[p].wm
  BY <1>1, <1>2, LogShape, EngineShape, Zenon DEF Inv, Stamps
<1>4. behind' \in [Partitions -> BOOLEAN] /\ \A q \in Partitions \ {p} : behind'[q] = behind[q]
  BY <1>1, Zenon DEF Inv, Typed
<1>5. Typed'
  BY <1>1, <1>2, <1>4, Zenon DEF Inv, Typed
<1>6. Locks' /\ Overlays' /\ Transaction' /\ AtApply'
  BY <1>1, <1>2, AtRest, Between, Zenon
<1>7. Stamps'
  BY <1>1, <1>2, AtRest, Zenon DEF Inv, Stamps
<1>8. AtRestore'
  BY <1>2, Zenon DEF AtRestore
<1>9. Exact(p)
  <2> SUFFICES ASSUME NEW k \in Keys PROVE live[p].val[k] = ValueIn(log[p], k)
    BY Zenon DEF Exact
  <2>1. ~Past(log[p], k, live[p].wm)
    BY <1>1, <1>3 DEF Past, Touches, Remaining
  <2> QED
    BY <1>2, <2>1, Zenon DEF Inv, Lagging, Lags
<1>10. Reads'
  <2> SUFFICES ASSUME NEW q \in Partitions, Served(q)' PROVE Exact(q)
    BY <1>1, <1>2, Zenon DEF Reads, Exact
  <2>1. CASE q = p
    BY <1>9, <2>1, Zenon
  <2>2. CASE q # p
    <3>1. Served(q) /\ q \notin DOMAIN staged
      BY <1>1, <1>4, <2>2, AtRest, Zenon DEF Served
    <3> QED
      BY <3>1, Zenon DEF Inv, Reads
  <2> QED
    BY <2>1, <2>2, Zenon
<1>11. Lagging'
  BY <1>1, SameLagging, Zenon DEF Inv
<1> QED
  BY <1>5, <1>6, <1>7, <1>8, <1>10, <1>11, Zenon DEF Inv

\* What closing an engine does to the state of its partition.
LEMMA Closing ==
    ASSUME Inv, NEW p \in Partitions, NEW left \in {live[p], disk[p]}, Closed(p, left)
    PROVE  /\ live' \in [Partitions -> Engines] /\ disk' \in [Partitions -> Engines]
           /\ materialized' \in [Partitions -> Nat]
           /\ live'[p] = left /\ disk'[p] = left
           /\ \A q \in Partitions \ {p} : live'[q] = live[q] /\ disk'[q] = disk[q]
                                          /\ materialized'[q] = materialized[q]
<1>1. /\ live \in [Partitions -> Engines] /\ disk \in [Partitions -> Engines]
      /\ materialized \in [Partitions -> Nat]
  BY Zenon DEF Inv, Typed
<1>2. left \in Engines
  BY <1>1, Zenon
<1> QED
  BY <1>1, <1>2, Zenon DEF Closed

LEMMA RestoreFailsKeeps ==
    ASSUME Inv, RestoreFails
    PROVE  Inv'
<1> DEFINE p == main.partition
<1>1. /\ main.at = "restore" /\ main' = Idle
      /\ UNCHANGED <<log, assigned, behind, staged, thread>>
  BY Zenon DEF RestoreFails
<1>2. main \in Restores /\ p \in Partitions /\ main'.at = "idle" /\ ~Served(p)
  BY <1>1, MainShape, Zenon DEF Inv, Restores, Idle, AtRestore
<1>3. Locks' /\ Overlays' /\ Transaction' /\ AtApply' /\ AtRestore'
  BY <1>1, <1>2, AtRest, Between, Zenon DEF AtRestore
<1>4. CASE p \in assigned
  <2>1. UNCHANGED <<live, disk, materialized>>
    BY <1>4, Zenon DEF RestoreFails, store
  <2>2. Typed'
    BY <1>1, <1>2, <2>1, Zenon DEF Inv, Typed
  <2>3. Stamps'
    BY <1>1, <1>2, <2>1, AtRest, Zenon DEF Inv, Stamps
  <2>4. Reads' /\ Lagging'
    BY <1>1, <1>2, <2>1, SameReads, SameLagging, Zenon DEF Inv
  <2> QED
    BY <1>3, <2>2, <2>3, <2>4, Zenon DEF Inv
<1>5. CASE p \notin assigned
  <2>1. PICK left \in {live[p], disk[p]} : Closed(p, left)
    BY <1>5, Zenon DEF RestoreFails
  <2>2. /\ live' \in [Partitions -> Engines] /\ disk' \in [Partitions -> Engines]
        /\ materialized' \in [Partitions -> Nat]
        /\ live'[p] = left /\ disk'[p] = left
        /\ \A q \in Partitions \ {p} : live'[q] = live[q] /\ disk'[q] = disk[q]
                                       /\ materialized'[q] = materialized[q]
    BY <1>2, <2>1, Closing, Zenon
  <2>3. Typed'
    BY <1>1, <1>2, <2>2, Zenon DEF Inv, Typed
  <2>4. Stamps'
    BY <1>1, <1>2, <1>5, <2>1, <2>2, AtRest, Zenon DEF Inv, Stamps
  <2>5. Reads'
    BY <1>1, <1>2, <2>2 DEF Inv, Reads, Exact, Served
  <2>6. Lagging'
    BY <1>1, <1>2, <2>1, <2>2, Zenon DEF Inv, Lagging
  <2> QED
    BY <1>3, <2>3, <2>4, <2>5, <2>6, Zenon DEF Inv
<1> QED
  BY <1>4, <1>5, Zenon

LEMMA LeavesKeeps ==
    ASSUME Inv, NEW p \in Partitions, Leaves(p),
           NEW left \in {live[p], disk[p]}, Closed(p, left)
    PROVE  Inv'
<1>1. /\ main \in {Idle, Open, Unresolved} /\ \A t \in Threads : thread[t] = Idle
      /\ p \in assigned /\ assigned' = assigned \ {p}
      /\ behind' = [behind EXCEPT ![p] = FALSE]
      /\ staged' = [q \in DOMAIN staged \ {p} |-> staged[q]]
      /\ UNCHANGED <<log, thread, main>>
  BY Zenon DEF Leaves, Quiet
<1>2. main.at \in {"idle", "open", "unresolved"}
  BY <1>1 DEF Idle, Open, Unresolved
<1>3. /\ live' \in [Partitions -> Engines] /\ disk' \in [Partitions -> Engines]
      /\ materialized' \in [Partitions -> Nat]
      /\ live'[p] = left /\ disk'[p] = left
      /\ \A q \in Partitions \ {p} : live'[q] = live[q] /\ disk'[q] = disk[q]
                                     /\ materialized'[q] = materialized[q]
  BY Closing, Zenon
<1>4. /\ DOMAIN staged' = DOMAIN staged \ {p}
      /\ \A q \in DOMAIN staged' : staged'[q] = staged[q] /\ q # p /\ q \in Partitions
      /\ behind' \in [Partitions -> BOOLEAN]
      /\ \A q \in Partitions \ {p} : behind'[q] = behind[q]
  BY <1>1, Zenon DEF Inv, Typed
<1>5. Typed'
  BY <1>1, <1>3, <1>4, Zenon DEF Inv, Typed
<1>6. Stamps'
  <2> SUFFICES ASSUME NEW q \in Partitions
               PROVE  /\ live'[q].wm <= Len(log[q]) /\ disk'[q].wm <= Len(log[q])
                      /\ \A i \in DOMAIN log[q] : log[q][i].fate = "open" =>
                             main.at = "open" /\ live'[q].wm < i /\ disk'[q].wm < i
                      /\ q \in assigned' => materialized'[q] = live'[q].wm
    BY <1>1, <1>2, Zenon DEF Stamps
  <2> QED
    BY <1>1, <1>3, Zenon DEF Inv, Stamps
<1>7. Locks'
  BY <1>1, QuietLocks, Zenon
<1>8. Overlays'
  <2> SUFFICES ASSUME NEW q \in DOMAIN staged' PROVE Overlay(q)'
    BY Zenon DEF Overlays
  <2>1. Overlay(q) /\ staged'[q] = staged[q]
    BY <1>4, Zenon DEF Inv, Overlays
  <2>2. \A i : Held(q, i)' <=> Held(q, i)
    BY <1>1, Zenon DEF Held
  <2>3. Ops(q)' = Ops(q)
    BY <2>1, Zenon DEF Ops
  <2> QED
    BY <1>1, <2>1, <2>2, <2>3, Zenon DEF Overlay
<1>9. Transaction'
  <2>1. \A q \in DOMAIN staged' : Served(q) => Served(q)'
    BY <1>1, <1>4, Zenon DEF Served
  <2>2. \A q, i : Held(q, i)' <=> Held(q, i)
    BY <1>1, Zenon DEF Held
  <2>3. \A q \in assigned' : q \in DOMAIN staged => q \in DOMAIN staged'
    BY <1>1, <1>4, Zenon
  <2>4. main.at = "idle" => DOMAIN staged' = {}
    BY <1>4, Zenon DEF Inv, Transaction
  <2>5. main.at = "open" => \A q \in DOMAIN staged' :
            Served(q)' /\ \A i \in staged'[q].positions : log[q][i].fate = "open"
    <3>1. main.at = "open" => \A q \in DOMAIN staged :
              Served(q) /\ \A i \in staged[q].positions : log[q][i].fate = "open"
      BY Zenon DEF Inv, Transaction
    <3> QED
      BY <1>4, <2>1, <3>1, Zenon
  <2>6. main.at = "open" => \A q \in assigned' : \A i \in DOMAIN log[q] : log[q][i].fate = "open" =>
            q \in DOMAIN staged' /\ (i \in staged'[q].positions \/ Held(q, i)')
    <3>1. main.at = "open" => \A q \in assigned : \A i \in DOMAIN log[q] : log[q][i].fate = "open" =>
              q \in DOMAIN staged /\ (i \in staged[q].positions \/ Held(q, i))
      BY Zenon DEF Inv, Transaction
    <3>2. assigned' \subseteq assigned
      BY <1>1, Zenon
    <3> QED
      BY <1>4, <2>2, <2>3, <3>1, <3>2, Zenon
  <2> QED
    BY <1>1, <1>2, <2>4, <2>5, <2>6, Zenon DEF Transaction
<1>10. AtApply' /\ AtRestore'
  BY <1>1, <1>2, Zenon DEF AtApply, AtRestore
<1>11. \A q \in Partitions \ {p} : (Exact(q)' <=> Exact(q)) /\ (Served(q)' <=> Served(q))
  BY <1>1, <1>3, <1>4, Zenon DEF Exact, Served
<1>12. ~Served(p)'
  BY <1>1, Zenon DEF Served
<1>13. Reads'
  BY <1>1, <1>4, <1>11, <1>12, Zenon DEF Inv, Reads
<1>14. Lagging'
  BY <1>1, <1>3, Zenon DEF Inv, Lagging
<1> QED
  BY <1>5, <1>6, <1>7, <1>8, <1>9, <1>10, <1>13, <1>14, Zenon DEF Inv

LEMMA EngineFlushKeeps ==
    ASSUME Inv, NEW p \in Partitions, EngineFlush(p)
    PROVE  Inv'
<1>1. /\ disk' = [disk EXCEPT ![p] = live[p]]
      /\ UNCHANGED <<log, live, materialized, assigned, behind, staged, thread, main>>
  BY Zenon DEF EngineFlush
<1>2. /\ disk' \in [Partitions -> Engines] /\ disk'[p] = live[p]
      /\ \A q \in Partitions \ {p} : disk'[q] = disk[q]
  BY <1>1, Zenon DEF Inv, Typed
<1>3. Typed'
  BY <1>1, <1>2, Zenon DEF Inv, Typed
<1>4. Stamps' /\ Lagging'
  BY <1>1, <1>2, Zenon DEF Inv, Stamps, Lagging
<1>5. Locks' /\ Overlays' /\ Reads'
  BY <1>1, SameLocks, SameOverlays, SameReads, Zenon DEF Inv
<1>6. Transaction'
  BY <1>1 DEF Inv, Transaction, Served, Held
<1>7. AtApply'
  BY <1>1, Zenon DEF Inv, AtApply, Writing, Exact
<1>8. AtRestore'
  <2>1. \A q : Remaining(q)' = Remaining(q)
    BY <1>1, Zenon DEF Remaining
  <2> QED
    BY <1>1, <2>1, Zenon DEF Inv, AtRestore, Served
<1> QED
  BY <1>3, <1>4, <1>5, <1>6, <1>7, <1>8, Zenon DEF Inv

\* What creating the partition's overlay does to the staged set.
LEMMA Overlaid ==
    ASSUME Inv, NEW p \in Partitions, staged' = WithOverlay(p)
    PROVE  /\ DOMAIN staged' = DOMAIN staged \cup {p} /\ DOMAIN staged' \subseteq Partitions
           /\ \A q \in DOMAIN staged : staged'[q] = staged[q]
           /\ p \notin DOMAIN staged => staged'[p] = NewOverlay
BY Zenon DEF Inv, Typed, WithOverlay, Staged

LEMMA EmptyOverlay ==
    ASSUME NEW p, staged'[p] = NewOverlay
    PROVE  Overlay(p)'
BY DEF Overlay, NewOverlay, Ops

LEMMA SendFailsKeeps ==
    ASSUME Inv, NEW t \in Threads, NEW p \in Partitions, SendFails(t, p)
    PROVE  Inv'
<1>1. /\ main = Open /\ main.at = "open" /\ Served(p) /\ staged' = WithOverlay(p)
      /\ UNCHANGED <<log, live, disk, materialized, assigned, behind, thread, main>>
  BY Zenon DEF SendFails, store, Open
<1>2. /\ DOMAIN staged' = DOMAIN staged \cup {p} /\ DOMAIN staged' \subseteq Partitions
      /\ \A q \in DOMAIN staged : staged'[q] = staged[q]
      /\ p \notin DOMAIN staged => staged'[p] = NewOverlay
  BY <1>1, Overlaid, Zenon
<1>3. Typed'
  BY <1>1, <1>2, Zenon DEF Inv, Typed
<1>4. Stamps' /\ Lagging'
  BY <1>1, SameLagging, Zenon DEF Inv, Stamps
<1>5. Locks'
  BY <1>1, <1>2, Zenon DEF Inv, Locks
<1>6. Overlays'
  <2> SUFFICES ASSUME NEW q \in DOMAIN staged' PROVE Overlay(q)'
    BY Zenon DEF Overlays
  <2>1. CASE q \notin DOMAIN staged
    BY <1>2, <2>1, EmptyOverlay, Zenon
  <2>2. CASE q \in DOMAIN staged
    <3>1. Overlay(q) /\ staged'[q] = staged[q]
      BY <1>2, <2>2, Zenon DEF Inv, Overlays
    <3>2. \A i : Held(q, i)' <=> Held(q, i)
      BY <1>1, Zenon DEF Held
    <3>3. Ops(q)' = Ops(q)
      BY <3>1, Zenon DEF Ops
    <3> QED
      BY <1>1, <3>1, <3>2, <3>3, Zenon DEF Overlay
  <2> QED
    BY <2>1, <2>2, Zenon
<1>7. Transaction'
  <2>1. \A q, i : Held(q, i)' <=> Held(q, i)
    BY <1>1, Zenon DEF Held
  <2>2. \A q \in DOMAIN staged' \ DOMAIN staged : Served(q) /\ staged'[q].positions = {}
    BY <1>1, <1>2 DEF NewOverlay
  <2>3. \A q : Served(q)' <=> Served(q)
    BY <1>1, Zenon DEF Served
  <2>4. \A q \in DOMAIN staged' : Served(q)
    BY <1>1, <1>2, <2>2, Zenon DEF Inv, Transaction
  <2>5. \A q \in DOMAIN staged' : \A i \in staged'[q].positions : log[q][i].fate = "open"
    BY <1>1, <1>2, <2>2 DEF Inv, Transaction
  <2> QED
    BY <1>1, <1>2, <2>1, <2>3, <2>4, <2>5, Zenon DEF Inv, Transaction
<1>8. AtApply' /\ AtRestore'
  BY <1>1, Zenon DEF AtApply, AtRestore
<1>9. Reads'
  <2>1. \A q : (Exact(q)' <=> Exact(q)) /\ (Served(q)' <=> Served(q))
    BY <1>1, Zenon DEF Exact, Served
  <2> QED
    BY <1>1, <1>2, <2>1, Zenon DEF Inv, Reads
<1> QED
  BY <1>3, <1>4, <1>5, <1>6, <1>7, <1>8, <1>9, Zenon DEF Inv

LEMMA SendKeeps ==
    ASSUME Inv, NEW t \in Threads, NEW p \in Partitions, NEW mutation \in Mutations,
           Send(t, p, mutation)
    PROVE  Inv'
<1> DEFINE r == [kind |-> mutation.kind, keys |-> mutation.keys, fate |-> "open"]
           n == Len(log[p]) + 1
           h == [at |-> "sent", partition |-> p, position |-> n]
<1>1. /\ main = Open /\ main.at = "open" /\ thread[t] = Idle /\ Served(p) /\ Unlocked(p)
      /\ log' = [log EXCEPT ![p] = Append(@, r)]
      /\ staged' = WithOverlay(p)
      /\ thread' = [thread EXCEPT ![t] = h]
      /\ UNCHANGED <<live, disk, materialized, assigned, behind, main>>
  BY Zenon DEF Send, store, Open
<1>2. r \in Records /\ r.fate = "open"
  BY Zenon DEF Mutations, Records
<1> HIDE DEF r
<1>3. /\ log[p] \in Seq(Records) /\ Len(log[p]) \in Nat /\ DOMAIN log[p] = 1 .. Len(log[p])
      /\ n \in Nat /\ live[p].wm \in Nat /\ disk[p] \in Engines /\ disk[p].wm \in Nat
  BY LogShape, EngineShape DEF Inv, Typed, Engines
<1>4. /\ log' \in [Partitions -> Seq(Records)] /\ log'[p] = Append(log[p], r)
      /\ \A q \in Partitions \ {p} : log'[q] = log[q]
  BY <1>1, <1>2, <1>3 DEF Inv, Typed
<1>0. /\ Len(Append(log[p], r)) = Len(log[p]) + 1
      /\ DOMAIN Append(log[p], r) = DOMAIN log[p] \cup {Len(log[p]) + 1}
      /\ \A i \in DOMAIN log[p] : Append(log[p], r)[i] = log[p][i]
      /\ Append(log[p], r)[Len(log[p]) + 1] = r
      /\ \A k : ValueIn(Append(log[p], r), k) = ValueIn(log[p], k)
      /\ \A k, w : Past(Append(log[p], r), k, w) <=> Past(log[p], k, w)
  BY <1>2, <1>3, AppendOpen, Zenon
<1>5. /\ Len(log'[p]) = n /\ DOMAIN log'[p] = 1 .. n /\ log'[p][n] = r
      /\ \A i \in DOMAIN log[p] : i \in DOMAIN log'[p] /\ log'[p][i] = log[p][i] /\ i # n
  <2>1. /\ Len(log'[p]) = n /\ DOMAIN log'[p] = DOMAIN log[p] \cup {n} /\ log'[p][n] = r
        /\ \A i \in DOMAIN log[p] : log'[p][i] = log[p][i]
    BY <1>4, <1>0, Zenon
  <2>2. DOMAIN log[p] \cup {n} = 1 .. n /\ \A i \in DOMAIN log[p] : i # n
    BY <1>3
  <2> QED
    BY <2>1, <2>2, Zenon
<1>6. \A k : /\ ValueIn(log'[p], k) = ValueIn(log[p], k)
             /\ \A w \in Nat : Past(log'[p], k, w) <=> Past(log[p], k, w)
  BY <1>4, <1>0, Zenon
<1>7. /\ h \in Holding /\ h # Idle /\ h.partition = p /\ h.position = n
  BY <1>3, Zenon DEF Holding, Idle
<1> HIDE DEF h, n
<1>8. /\ thread' \in [Threads -> {Idle} \cup Holding] /\ thread'[t] = h
      /\ \A u \in Threads \ {t} : thread'[u] = thread[u]
  BY <1>1, <1>7, Zenon DEF Inv, Typed
<1>9. /\ DOMAIN staged' = DOMAIN staged \cup {p} /\ DOMAIN staged' \subseteq Partitions
      /\ \A q \in DOMAIN staged : staged'[q] = staged[q]
      /\ p \notin DOMAIN staged => staged'[p] = NewOverlay
  BY <1>1, Overlaid, Zenon
<1>10. staged'[p].positions \subseteq DOMAIN log[p]
  <2>1. CASE p \in DOMAIN staged
    <3>1. Overlay(p)
      BY <2>1, Zenon DEF Inv, Overlays
    <3>2. staged[p].positions \subseteq DOMAIN log[p]
      BY <3>1, Zenon DEF Overlay
    <3> QED
      BY <1>9, <2>1, <3>2, Zenon
  <2>2. CASE p \notin DOMAIN staged
    <3>1. NewOverlay.positions = {}
      BY Zenon DEF NewOverlay
    <3> QED
      BY <1>9, <2>2, <3>1, Zenon
  <2> QED
    BY <2>1, <2>2, Zenon
<1>11. \A u \in Threads \ {t} : thread[u] # Idle =>
          thread[u].partition \in Partitions \ {p} /\ thread[u].partition \in DOMAIN staged
  <2>1. \A u \in Threads : thread[u] # Idle => thread[u].partition \in DOMAIN staged
    BY Zenon DEF Inv, Locks
  <2> QED
    BY <1>1, <2>1, Zenon DEF Inv, Typed, Unlocked
<1>12. \A q \in Partitions : \A i : Held(q, i)' <=> Held(q, i) \/ (q = p /\ i = n)
  BY <1>1, <1>7, <1>8, Zenon DEF Held
<1>13. Typed'
  BY <1>1, <1>4, <1>8, <1>9, Zenon DEF Inv, Typed
<1>14. Stamps'
  <2> SUFFICES ASSUME NEW q \in Partitions
               PROVE  /\ live[q].wm <= Len(log'[q]) /\ disk[q].wm <= Len(log'[q])
                      /\ \A i \in DOMAIN log'[q] : log'[q][i].fate = "open" =>
                             live[q].wm < i /\ disk[q].wm < i
                      /\ q \in assigned => materialized[q] = live[q].wm
    BY <1>1, Zenon DEF Stamps
  <2>1. CASE q # p
    BY <1>1, <1>4, <2>1, Zenon DEF Inv, Stamps
  <2>2. CASE q = p
    <3>1. live[p].wm <= Len(log[p]) /\ disk[p].wm <= Len(log[p])
      BY Zenon DEF Inv, Stamps
    <3>2. live[p].wm < n /\ disk[p].wm < n
      BY <1>3, <3>1 DEF n
    <3>3. \A i \in DOMAIN log'[p] : i = n \/ i \in DOMAIN log[p]
      BY <1>3, <1>5 DEF n
    <3>4. live[p].wm <= n /\ disk[p].wm <= n
      BY <1>3, <3>2
    <3>5. \A i \in DOMAIN log'[p] : log'[p][i].fate = "open" => live[p].wm < i /\ disk[p].wm < i
      <4>1. \A i \in DOMAIN log[p] : log[p][i].fate = "open" => live[p].wm < i /\ disk[p].wm < i
        BY Zenon DEF Inv, Stamps
      <4> QED
        BY <1>5, <3>2, <3>3, <4>1, Zenon
    <3>6. p \in assigned => materialized[p] = live[p].wm
      BY Zenon DEF Inv, Stamps
    <3> QED
      BY <1>5, <2>2, <3>4, <3>5, <3>6, Zenon
  <2> QED
    BY <2>1, <2>2, Zenon
<1>15. Locks'
  <2>1. ASSUME NEW u \in Threads, thread'[u] # Idle
        PROVE  LET q == thread'[u].partition IN
               /\ q \in DOMAIN staged' /\ thread'[u].position = Len(log'[q]) /\ Len(log'[q]) > 0
               /\ thread'[u].position \notin staged'[q].positions
               /\ log'[q][Len(log'[q])].fate = "open"
    <3>1. CASE u = t
      <4>1. thread'[u] = h /\ h.partition = p /\ h.position = n
        BY <1>7, <1>8, <3>1, Zenon
      <4>2. n > 0 /\ n \notin DOMAIN log[p]
        BY <1>3 DEF n
      <4>3. p \in DOMAIN staged' /\ n \notin staged'[p].positions
        BY <1>9, <1>10, <4>2, Zenon
      <4>4. log'[p][Len(log'[p])].fate = "open"
        BY <1>2, <1>5, Zenon
      <4> QED
        BY <1>5, <4>1, <4>2, <4>3, <4>4, Zenon
    <3>2. CASE u # t
      <4>1. thread'[u] = thread[u] /\ thread[u] # Idle
        BY <1>8, <2>1, <3>2, Zenon
      <4>2. thread[u].partition \in Partitions \ {p} /\ thread[u].partition \in DOMAIN staged
        BY <1>11, <3>2, <4>1, Zenon
      <4>3. LET q == thread[u].partition IN
            /\ thread[u].position = Len(log[q]) /\ Len(log[q]) > 0
            /\ thread[u].position \notin staged[q].positions
            /\ log[q][Len(log[q])].fate = "open"
        BY <4>1, Zenon DEF Inv, Locks
      <4> QED
        BY <1>4, <1>9, <4>1, <4>2, <4>3, Zenon
    <3> QED
      BY <3>1, <3>2, Zenon
  <2>2. ASSUME NEW u \in Threads, NEW v \in Threads, u # v, thread'[u] # Idle, thread'[v] # Idle
        PROVE  thread'[u].partition # thread'[v].partition
    BY <1>7, <1>8, <1>11, <2>2, Zenon DEF Inv, Locks
  <2> QED
    BY <1>1, <2>1, <2>2, Zenon DEF Locks
<1>16. Overlays'
  <2> SUFFICES ASSUME NEW q \in DOMAIN staged' PROVE Overlay(q)'
    BY Zenon DEF Overlays
  <2>0. q \in Partitions
    BY <1>9, Zenon
  <2>1. CASE q \notin DOMAIN staged
    BY <1>9, <2>1, EmptyOverlay, Zenon
  <2>2. CASE q \in DOMAIN staged
    <3>1. Overlay(q) /\ staged'[q] = staged[q]
      BY <1>9, <2>2, Zenon DEF Inv, Overlays
    <3>2. Ops(q)' = Ops(q)
      BY <3>1, Zenon DEF Ops
    <3>3. \A i \in DOMAIN log[q] : i \in DOMAIN log'[q] /\ log'[q][i] = log[q][i]
      BY <1>4, <1>5, <2>0, Zenon
    <3>4. \A i \in DOMAIN log'[q] : i \in DOMAIN log[q] \/ (q = p /\ i = n)
      BY <1>3, <1>4, <1>5, <2>0 DEF n
    <3>5. \A i \in DOMAIN log'[q] \ staged'[q].positions :
             Held(q, i)' \/ \A j \in staged'[q].positions : i < j
      BY <1>12, <2>0, <3>1, <3>4, Zenon DEF Overlay
    <3>6. staged'[q].positions \subseteq DOMAIN log[q]
      BY <3>1, Zenon DEF Overlay
    <3> QED
      BY <3>1, <3>2, <3>3, <3>5, <3>6, Zenon DEF Overlay
  <2> QED
    BY <2>1, <2>2, Zenon
<1>17. Transaction'
  <2>1. \A q : Served(q)' <=> Served(q)
    BY <1>1, Zenon DEF Served
  <2>2. \A q \in DOMAIN staged' : Served(q)
    BY <1>1, <1>9, Zenon DEF Inv, Transaction
  <2>3. ASSUME NEW q \in DOMAIN staged', NEW i \in staged'[q].positions
        PROVE  log'[q][i].fate = "open"
    <3>1. q \in DOMAIN staged /\ i \in staged[q].positions
      BY <1>9 DEF NewOverlay
    <3>2. log[q][i].fate = "open" /\ i \in DOMAIN log[q] /\ q \in Partitions
      BY <1>1, <1>9, <3>1, Zenon DEF Inv, Transaction, Overlays, Overlay
    <3> QED
      BY <1>4, <1>5, <3>2, Zenon
  <2>4. ASSUME NEW q \in assigned, NEW i \in DOMAIN log'[q], log'[q][i].fate = "open"
        PROVE  q \in DOMAIN staged' /\ (i \in staged'[q].positions \/ Held(q, i)')
    <3>0. q \in Partitions
      BY Zenon DEF Inv, Typed
    <3>1. CASE q = p /\ i = n
      BY <1>9, <1>12, <3>1, Zenon
    <3>2. CASE ~(q = p /\ i = n)
      <4>1. i \in DOMAIN log[q] /\ log[q][i].fate = "open"
        <5>1. CASE q # p
          BY <1>4, <2>4, <3>0, <5>1, Zenon
        <5>2. CASE q = p
          <6>1. i \in 1 .. n /\ i # n
            BY <1>5, <2>4, <3>2, <5>2, Zenon
          <6>2. i \in DOMAIN log[p]
            BY <1>3, <6>1 DEF n
          <6> QED
            BY <1>5, <2>4, <5>2, <6>2, Zenon
        <5> QED
          BY <5>1, <5>2, Zenon
      <4>2. q \in DOMAIN staged /\ (i \in staged[q].positions \/ Held(q, i))
        BY <1>1, <4>1, Zenon DEF Inv, Transaction
      <4> QED
        BY <1>9, <1>12, <3>0, <4>2, Zenon
    <3> QED
      BY <3>1, <3>2, Zenon
  <2> QED
    BY <1>1, <2>1, <2>2, <2>3, <2>4, Zenon DEF Transaction
<1>18. AtApply' /\ AtRestore'
  BY <1>1, Zenon DEF AtApply, AtRestore
<1>19. \A q \in Partitions : (Exact(q)' <=> Exact(q)) /\ (Served(q)' <=> Served(q))
  BY <1>1, <1>4, <1>6, Zenon DEF Exact, Served
<1>20. Reads'
  BY <1>1, <1>9, <1>19, Zenon DEF Inv, Reads
<1>21. Lagging'
  <2> SUFFICES ASSUME NEW q \in Partitions
               PROVE  Lags(live[q], log'[q]) /\ Lags(disk[q], log'[q])
    BY <1>1, Zenon DEF Lagging
  <2>1. Lags(live[q], log[q]) /\ Lags(disk[q], log[q])
    BY Zenon DEF Inv, Lagging
  <2>2. CASE q # p
    BY <1>4, <2>1, <2>2, Zenon
  <2>3. CASE q = p
    BY <1>3, <1>6, <2>1, <2>3, Zenon DEF Lags
  <2> QED
    BY <2>2, <2>3, Zenon
<1> QED
  BY <1>13, <1>14, <1>15, <1>16, <1>17, <1>18, <1>20, <1>21, Zenon DEF Inv

-----------------------------------------------------------------------------
(* The other steps, and the theorems. *)

LEMMA RecordKeeps ==
    ASSUME Inv, NEW t \in Threads, Record(t)
    PROVE  Inv'
<1>0. PICK p \in Partitions, n \in Nat : thread[t].partition = p /\ thread[t].position = n
  BY ThreadShape, Zenon DEF Inv, Record, Holding
<1> DEFINE o == staged[p]
<1>1. /\ thread[t] # Idle
      /\ staged' = [staged EXCEPT ![p] = Stage(o, log[p][n], n)]
      /\ thread' = [thread EXCEPT ![t] = Idle]
      /\ UNCHANGED <<log, live, disk, materialized, assigned, behind, main>>
  BY <1>0, Zenon DEF Record, store
<1>2. /\ main.at = "open" /\ p \in DOMAIN staged /\ n = Len(log[p]) /\ Len(log[p]) > 0
      /\ n \notin o.positions /\ log[p][n].fate = "open"
  BY <1>0, <1>1, Zenon DEF Inv, Locks
<1>3. /\ log[p] \in Seq(Records) /\ Len(log[p]) \in Nat /\ DOMAIN log[p] = 1 .. Len(log[p])
      /\ n \in DOMAIN log[p]
  BY <1>2, LogShape DEF Inv
<1>4. /\ DOMAIN staged' = DOMAIN staged /\ staged'[p] = Stage(o, log[p][n], n)
      /\ \A q \in DOMAIN staged \ {p} : staged'[q] = staged[q]
  BY <1>1, <1>2, Zenon
<1>5. PICK op : /\ op.keys = log[p][n].keys /\ op.kind = log[p][n].kind
                /\ op.sequence = o.sequence /\ op.value = n
                /\ op \in Ops(p)' /\ \A x \in Ops(p)' : x = op \/ x \in Ops(p)
                /\ \A x \in Ops(p) : x.keys # log[p][n].keys => x \in Ops(p)'
  <2> DEFINE new == [keys |-> log[p][n].keys, kind |-> log[p][n].kind, sequence |-> o.sequence,
                     value |-> n]
             kept == {q \in o.points : q.keys # log[p][n].keys}
  <2>1. /\ new.keys = log[p][n].keys /\ new.kind = log[p][n].kind
        /\ new.sequence = o.sequence /\ new.value = n
    OBVIOUS
  <2>2. CASE log[p][n].kind = "deleteRange"
    <3>1. Ops(p)' = o.points \cup (o.ranges \cup {new})
      BY <1>4, <2>2 DEF Stage, Ops
    <3> QED
      BY <2>1, <3>1, Zenon DEF Ops
  <2>3. CASE log[p][n].kind # "deleteRange"
    <3>1. Ops(p)' = (kept \cup {new}) \cup o.ranges
      BY <1>4, <2>3 DEF Stage, Ops
    <3> QED
      BY <2>1, <3>1, Zenon DEF Ops
  <2> QED
    BY <2>2, <2>3, Zenon
<1>6. staged'[p].positions = o.positions \cup {n} /\ staged'[p].sequence = o.sequence + 1
  BY <1>4 DEF Stage
<1> HIDE DEF o
<1>7. /\ thread' \in [Threads -> {Idle} \cup Holding] /\ thread'[t] = Idle
      /\ \A u \in Threads \ {t} : thread'[u] = thread[u]
  BY <1>1, Zenon DEF Inv, Typed
<1>8. \A u \in Threads \ {t} : thread[u] # Idle => thread[u].partition # p
  BY <1>0, <1>1, Zenon DEF Inv, Locks
<1>9. \A q \in Partitions : \A i : Held(q, i)' <=> Held(q, i) /\ ~(q = p /\ i = n)
  BY <1>0, <1>1, <1>7, <1>8, Zenon DEF Held
<1>10. /\ Overlay(p) /\ o.positions \subseteq DOMAIN log[p] /\ o.sequence \in Nat
       /\ \A i \in o.positions : i < n
  <2>1. Overlay(p) /\ o.positions \subseteq DOMAIN log[p] /\ o.sequence \in Nat
    BY <1>2, Zenon DEF Inv, Overlays, Overlay, o
  <2> QED
    BY <1>2, <1>3, <2>1
<1>11. Typed'
  BY <1>1, <1>4, <1>7, Zenon DEF Inv, Typed
<1>12. Stamps' /\ Lagging'
  BY <1>1, SameLagging, Zenon DEF Inv, Stamps
<1>13. Locks'
  <2>1. ASSUME NEW u \in Threads, thread'[u] # Idle
        PROVE  LET q == thread'[u].partition IN
               /\ q \in DOMAIN staged' /\ thread'[u].position = Len(log[q]) /\ Len(log[q]) > 0
               /\ thread'[u].position \notin staged'[q].positions
               /\ log[q][Len(log[q])].fate = "open"
    <3>1. u # t /\ thread'[u] = thread[u] /\ thread[u].partition # p
      BY <1>7, <1>8, <2>1, Zenon
    <3> QED
      BY <1>4, <2>1, <3>1, Zenon DEF Inv, Locks
  <2>2. ASSUME NEW u \in Threads, NEW v \in Threads, u # v, thread'[u] # Idle, thread'[v] # Idle
        PROVE  thread'[u].partition # thread'[v].partition
    BY <1>7, <2>2, Zenon DEF Inv, Locks
  <2> QED
    BY <1>1, <1>2, <2>1, <2>2, Zenon DEF Locks
<1>14. Overlay(p)'
  <2>1. staged'[p].positions \subseteq DOMAIN log[p] /\ staged'[p].sequence \in Nat
    BY <1>3, <1>5, <1>6, <1>10
  <2>2. ASSUME NEW x \in Ops(p)'
        PROVE  /\ x.value \in staged'[p].positions
               /\ x.keys = log[p][x.value].keys /\ x.kind = log[p][x.value].kind
               /\ x.sequence \in Nat /\ x.sequence < staged'[p].sequence
    <3>1. CASE x = op
      BY <1>5, <1>6, <1>10, <3>1
    <3>2. CASE x \in Ops(p)
      <4>1. /\ x.value \in o.positions
            /\ x.keys = log[p][x.value].keys /\ x.kind = log[p][x.value].kind
            /\ x.sequence \in Nat /\ x.sequence < o.sequence
        BY <1>10, <3>2, Zenon DEF Overlay, o
      <4> QED
        BY <1>5, <1>6, <1>10, <4>1
    <3> QED
      BY <1>5, <1>6, <3>1, <3>2, Zenon
  <2>3. ASSUME NEW x \in Ops(p)
        PROVE  x.value \in Nat /\ x.value < n /\ x.sequence \in Nat /\ x.sequence < o.sequence
    BY <1>3, <1>10 DEF Overlay, o
  <2>4. ASSUME NEW x \in Ops(p)', NEW y \in Ops(p)'
        PROVE  x.sequence < y.sequence <=> x.value < y.value
    <3>1. CASE x = op /\ y = op
      BY <1>3, <1>5, <1>6, <1>10, <3>1
    <3>2. CASE x \in Ops(p) /\ y = op
      BY <1>5, <1>6, <2>3, <3>2, Zenon
    <3>3. CASE x = op /\ y \in Ops(p)
      BY <1>3, <1>5, <1>6, <1>10, <2>3, <3>3
    <3>4. CASE x \in Ops(p) /\ y \in Ops(p)
      BY <1>10, <3>4, Zenon DEF Overlay
    <3> QED
      BY <1>5, <1>6, <3>1, <3>2, <3>3, <3>4, Zenon
  <2>5. ASSUME NEW i \in staged'[p].positions, NEW k \in log[p][i].keys
        PROVE  \E x \in Ops(p)' : k \in x.keys /\ x.value >= i
    <3>1. CASE k \in log[p][n].keys
      <4>1. n >= i
        BY <1>3, <1>5, <1>6, <1>10
      <4> QED
        BY <1>5, <1>6, <3>1, <4>1, Zenon
    <3>2. CASE k \notin log[p][n].keys
      <4>1. i \in o.positions
        BY <1>5, <1>6, <3>2, Zenon
      <4>2. PICK x \in Ops(p) : k \in x.keys /\ x.value >= i
        BY <1>10, <4>1, Zenon DEF Overlay, o
      <4> QED
        BY <1>5, <1>6, <3>2, <4>2, Zenon
    <3> QED
      BY <3>1, <3>2, Zenon
  <2>6. ASSUME NEW i \in DOMAIN log[p] \ staged'[p].positions
        PROVE  \A j \in staged'[p].positions : i < j
    <3>1. i # n /\ i \notin o.positions
      BY <1>5, <1>6, Zenon
    <3>2. ~Held(p, i)
      BY <1>0, <1>1, <1>8, <3>1, Zenon DEF Held
    <3>3. \A j \in o.positions : i < j
      BY <1>10, <3>1, <3>2, Zenon DEF Overlay, o
    <3>4. i < n
      BY <1>2, <1>3, <3>1
    <3> QED
      BY <1>5, <1>6, <3>3, <3>4, Zenon
  <2> QED
    BY <1>1, <2>1, <2>2, <2>4, <2>5, <2>6, Zenon DEF Overlay
<1>15. Overlays'
  <2> SUFFICES ASSUME NEW q \in DOMAIN staged, q # p PROVE Overlay(q)'
    BY <1>4, <1>14, Zenon DEF Overlays
  <2>1. Overlay(q) /\ staged'[q] = staged[q] /\ q \in Partitions
    BY <1>4, Zenon DEF Inv, Overlays, Typed
  <2>2. Ops(q)' = Ops(q)
    BY <2>1, Zenon DEF Ops
  <2>3. \A i : Held(q, i)' <=> Held(q, i)
    BY <1>9, <2>1, Zenon
  <2> QED
    BY <1>1, <2>1, <2>2, <2>3, Zenon DEF Overlay
<1>16. Transaction'
  <2>1. \A q : Served(q)' <=> Served(q)
    BY <1>1, Zenon DEF Served
  <2>2. ASSUME NEW q \in DOMAIN staged, NEW i \in staged'[q].positions
        PROVE  log[q][i].fate = "open"
    <3>1. (q = p /\ i = n) \/ i \in staged[q].positions
      BY <1>4, <1>5, <1>6, Zenon DEF o
    <3> QED
      BY <1>2, <3>1, Zenon DEF Inv, Transaction
  <2>3. ASSUME NEW q \in assigned, NEW i \in DOMAIN log[q], log[q][i].fate = "open"
        PROVE  q \in DOMAIN staged /\ (i \in staged'[q].positions \/ Held(q, i)')
    <3>1. q \in DOMAIN staged /\ (i \in staged[q].positions \/ Held(q, i)) /\ q \in Partitions
      BY <1>2, <2>3, Zenon DEF Inv, Transaction, Typed
    <3> QED
      BY <1>4, <1>5, <1>6, <1>9, <3>1, Zenon DEF o
  <2> QED
    BY <1>1, <1>2, <1>4, <2>1, <2>2, <2>3, Zenon DEF Inv, Transaction
<1>17. AtApply' /\ AtRestore'
  BY <1>1, <1>2, Zenon DEF AtApply, AtRestore
<1>18. Reads'
  BY <1>1, <1>2, <1>4, Zenon DEF Inv, Reads, Exact, Served
<1> QED
  BY <1>11, <1>12, <1>13, <1>15, <1>16, <1>17, <1>18, Zenon DEF Inv

LEMMA BeginKeeps ==
    ASSUME Inv, begin
    PROVE  Inv'
<1>1. /\ main \in {Idle, Unresolved} /\ main.at \in {"idle", "unresolved"}
      /\ main' = Open /\ main'.at = "open"
      /\ UNCHANGED <<log, live, disk, materialized, assigned, thread>>
  BY DEF begin, store, Idle, Open, Unresolved
<1>2. /\ DOMAIN staged' = {} /\ behind' \in [Partitions -> BOOLEAN]
      /\ \A p \in Partitions : Served(p)' => Served(p) /\ p \notin DOMAIN staged
  <2>1. CASE DOMAIN staged = {}
    BY <1>1, <2>1, Zenon DEF begin, Inv, Typed, Served
  <2>2. CASE DOMAIN staged # {}
    <3>1. /\ staged' = <<>>
          /\ behind' = [p \in Partitions |-> behind[p] \/ p \in (DOMAIN staged) \cap assigned]
      BY <2>2, Zenon DEF begin, discardUnknown, dropStaged, markBehind
    <3>2. behind' \in [Partitions -> BOOLEAN]
      BY <3>1, Zenon DEF Inv, Typed
    <3>3. DOMAIN staged' = {}
      BY <3>1
    <3>4. \A p \in Partitions : Served(p)' => Served(p) /\ p \notin DOMAIN staged
      BY <1>1, <3>1, Zenon DEF Served
    <3> QED
      BY <3>2, <3>3, <3>4, Zenon
  <2> QED
    BY <2>1, <2>2, Zenon
<1>3. /\ \A t \in Threads : thread[t] = Idle
      /\ \A p \in Partitions : \A i \in DOMAIN log[p] : log[p][i].fate # "open"
  BY <1>1, NobodyHolds, Zenon DEF Inv, Stamps
<1>4. Typed'
  BY <1>1, <1>2, Zenon DEF Inv, Typed
<1>5. Stamps' /\ Lagging'
  BY <1>1, <1>3, SameLagging, Zenon DEF Inv, Stamps
<1>6. Locks' /\ Overlays'
  BY <1>1, <1>2, <1>3, QuietLocks, NoOverlays, Zenon
<1>7. Transaction'
  BY <1>1, <1>2, <1>3 DEF Transaction, Inv, Typed
<1>8. AtApply' /\ AtRestore'
  BY <1>1, Zenon DEF AtApply, AtRestore
<1>9. Reads'
  BY <1>1, <1>2, Zenon DEF Inv, Reads, Exact
<1> QED
  BY <1>4, <1>5, <1>6, <1>7, <1>8, <1>9, Zenon DEF Inv

\* A commit or an abort settles the fate of every open record.
LEMMA Settling ==
    ASSUME Inv, NEW fate \in {"committed", "aborted"}, Settle(fate), NEW p \in Partitions
    PROVE  /\ log' \in [Partitions -> Seq(Records)] /\ log'[p] = Settled(log[p], fate)
           /\ Len(log'[p]) = Len(log[p]) /\ DOMAIN log'[p] = DOMAIN log[p]
           /\ \A i \in DOMAIN log[p] :
                 /\ log'[p][i].keys = log[p][i].keys /\ log'[p][i].kind = log[p][i].kind
                 /\ log'[p][i].fate = IF log[p][i].fate = "open" THEN fate ELSE log[p][i].fate
                 /\ log'[p][i].fate # "open"
           /\ Lags(live[p], log'[p]) /\ Lags(disk[p], log'[p])
<1>1. \A q \in Partitions : log[q] \in Seq(Records)
  BY LogShape, Zenon DEF Inv
<1>2. log' = [q \in Partitions |-> Settled(log[q], fate)]
  BY Zenon DEF Settle, Settled
<1>3. log' \in [Partitions -> Seq(Records)] /\ log'[p] = Settled(log[p], fate)
  BY <1>1, <1>2, SettledLog, Zenon
<1>4. /\ Len(log'[p]) = Len(log[p]) /\ DOMAIN log'[p] = DOMAIN log[p]
      /\ \A i \in DOMAIN log[p] :
            /\ log'[p][i].keys = log[p][i].keys /\ log'[p][i].kind = log[p][i].kind
            /\ log'[p][i].fate = IF log[p][i].fate = "open" THEN fate ELSE log[p][i].fate
  BY <1>1, <1>3, SettledLog
<1>5. \A s \in {live[p], disk[p]} : Lags(s, log'[p])
  <2> SUFFICES ASSUME NEW s \in {live[p], disk[p]} PROVE Lags(s, log'[p])
    OBVIOUS
  <2>1. s \in Engines
    BY Zenon DEF Inv, Typed
  <2>2. Lags(s, log[p]) /\ \A i \in DOMAIN log[p] : log[p][i].fate = "open" => s.wm < i
    BY Zenon DEF Inv, Lagging, Stamps
  <2> QED
    BY <1>1, <1>3, <2>1, <2>2, SettledLags, Zenon
<1> QED
  BY <1>3, <1>4, <1>5, Zenon

\* What an outcome leaves alone: every conjunct but those about what is staged.
LEMMA Outcome ==
    ASSUME Inv, main = Open, Quiet, NEW fate \in {"committed", "aborted"}, Settle(fate),
           UNCHANGED <<live, disk, materialized, assigned, thread>>,
           main'.at \in {"idle", "unresolved", "apply"}
    PROVE  /\ log' \in [Partitions -> Seq(Records)] /\ Stamps' /\ Locks' /\ AtRestore' /\ Lagging'
           /\ \A p \in Partitions : \A k \in Keys :
                 \/ fate = "aborted"
                 \/ \A i \in DOMAIN log[p] : log[p][i].fate = "open" => k \notin log[p][i].keys
                 => ValueIn(log'[p], k) = ValueIn(log[p], k)
           /\ \A p \in assigned \ DOMAIN staged : \A i \in DOMAIN log[p] : log[p][i].fate # "open"
           /\ \A p \in assigned : Served(p) => Exact(p)
           /\ \A p, i : ~Held(p, i) /\ ~Held(p, i)'
<1>1. main.at = "open" /\ \A t \in Threads : thread[t] = Idle
  BY Zenon DEF Open, Quiet
<1>2. log' \in [Partitions -> Seq(Records)]
  BY Settling, Zenon DEF Settle, Inv, Typed
<1>3. Stamps'
  <2>1. \A p \in Partitions : /\ Len(log'[p]) = Len(log[p])
                              /\ \A i \in DOMAIN log'[p] : log'[p][i].fate # "open"
    BY Settling, Zenon
  <2> QED
    BY <2>1, Zenon DEF Inv, Stamps
<1>4. Locks' /\ AtRestore'
  BY <1>1, QuietLocks, Zenon DEF AtRestore
<1>5. Lagging'
  BY Settling, Zenon DEF Lagging
<1>6. ASSUME NEW p \in Partitions, NEW k \in Keys,
             \/ fate = "aborted"
             \/ \A i \in DOMAIN log[p] : log[p][i].fate = "open" => k \notin log[p][i].keys
      PROVE  ValueIn(log'[p], k) = ValueIn(log[p], k)
  <2>1. log[p] \in Seq(Records) /\ log'[p] = Settled(log[p], fate)
    BY LogShape, Settling, Zenon DEF Inv
  <2> QED
    BY <1>6, <2>1, SettledValues, Zenon
<1>7. \A p \in assigned \ DOMAIN staged : \A i \in DOMAIN log[p] : log[p][i].fate # "open"
  BY <1>1, Zenon DEF Inv, Transaction
<1>8. \A p \in assigned : Served(p) => Exact(p)
  BY <1>1, Zenon DEF Inv, Typed, Reads
<1>9. \A p, i : ~Held(p, i) /\ ~Held(p, i)'
  BY <1>1, Zenon DEF Held
<1> QED
  BY <1>2, <1>3, <1>4, <1>5, <1>6, <1>7, <1>8, <1>9, Zenon

\* The overlays outlive a commit whose outcome nobody has reported yet.
LEMMA SettledOverlays ==
    ASSUME Inv, NEW fate \in {"committed", "aborted"}, Settle(fate), UNCHANGED <<staged, thread>>
    PROVE  Overlays'
<1> SUFFICES ASSUME NEW p \in DOMAIN staged PROVE Overlay(p)'
  BY Zenon DEF Overlays
<1>1. Overlay(p) /\ p \in Partitions
  BY Zenon DEF Inv, Overlays, Typed
<1>2. /\ DOMAIN log'[p] = DOMAIN log[p]
      /\ \A i \in DOMAIN log[p] : log'[p][i].keys = log[p][i].keys /\ log'[p][i].kind = log[p][i].kind
  BY <1>1, Settling, Zenon
<1>3. Ops(p)' = Ops(p) /\ \A i : Held(p, i)' <=> Held(p, i)
  BY Zenon DEF Ops, Held
<1>4. /\ staged[p].positions \subseteq DOMAIN log[p]
      /\ \A op \in Ops(p) : op.value \in staged[p].positions
  BY <1>1, Zenon DEF Overlay
<1> QED
  BY <1>1, <1>2, <1>3, <1>4, Zenon DEF Overlay

LEMMA CommitSucceedsKeeps ==
    ASSUME Inv, CommitSucceeds
    PROVE  Inv'
<1>1. /\ main = Open /\ Quiet /\ Settle("committed") /\ main.at = "open"
      /\ main' = [at |-> "apply", todo |-> DOMAIN staged, failed |-> {}, wrote |-> FALSE]
      /\ UNCHANGED <<live, disk, materialized, assigned, behind, staged, thread>>
  BY Zenon DEF CommitSucceeds, store, Open
<1>2. /\ main'.at = "apply" /\ main'.todo = DOMAIN staged /\ main'.failed = {} /\ ~main'.wrote
      /\ main' \in Applies
  BY <1>1, Zenon DEF Applies, Inv, Typed
<1>3. /\ log' \in [Partitions -> Seq(Records)] /\ Stamps' /\ Locks' /\ AtRestore' /\ Lagging'
      /\ \A p \in Partitions : \A k \in Keys :
            (\A i \in DOMAIN log[p] : log[p][i].fate = "open" => k \notin log[p][i].keys)
            => ValueIn(log'[p], k) = ValueIn(log[p], k)
      /\ \A p \in assigned \ DOMAIN staged : \A i \in DOMAIN log[p] : log[p][i].fate # "open"
      /\ \A p \in assigned : Served(p) => Exact(p)
      /\ \A p, i : ~Held(p, i) /\ ~Held(p, i)'
  BY <1>1, <1>2, Outcome, Zenon
<1>4. Typed'
  BY <1>1, <1>2, <1>3, Zenon DEF Inv, Typed
<1>5. Overlays'
  BY <1>1, SettledOverlays, Zenon
<1>6. \A p \in DOMAIN staged : p \in Partitions /\ Served(p) /\ Exact(p) /\ p \in assigned
  BY <1>1, <1>3, Zenon DEF Inv, Typed, Transaction, Served
<1>7. \A p \in DOMAIN staged : /\ staged[p].positions \subseteq DOMAIN log[p]
                               /\ \A i \in staged[p].positions : log[p][i].fate = "open"
  BY <1>1, Zenon DEF Inv, Transaction, Overlays, Overlay
<1>8. Transaction'
  <2>1. \A p \in DOMAIN staged : \A i \in staged[p].positions : log'[p][i].fate = "committed"
    BY <1>1, <1>6, <1>7, Settling, Zenon
  <2> QED
    BY <1>1, <1>2, <1>6, <2>1, Zenon DEF Transaction, Served
<1>9. AtApply'
  <2>1. \A p \in DOMAIN staged : \A i \in staged[p].positions : live[p].wm < i
    BY <1>6, <1>7, Zenon DEF Inv, Stamps
  <2>2. ASSUME NEW p \in DOMAIN staged, NEW k \in Keys
        PROVE  \/ \E i \in staged[p].positions : k \in log'[p][i].keys
               \/ live[p].val[k] = ValueIn(log'[p], k)
    <3>1. CASE \E i \in staged[p].positions : k \in log[p][i].keys
      BY <1>1, <1>6, <1>7, <3>1, Settling, Zenon
    <3>2. CASE \A i \in staged[p].positions : k \notin log[p][i].keys
      <4>1. \A i \in DOMAIN log[p] : log[p][i].fate = "open" => i \in staged[p].positions
        BY <1>1, <1>3, <1>6, Zenon DEF Inv, Transaction
      <4>2. ValueIn(log'[p], k) = ValueIn(log[p], k)
        BY <1>3, <1>6, <3>2, <4>1, Zenon
      <4> QED
        BY <1>6, <4>2, Zenon DEF Exact
    <3> QED
      BY <3>1, <3>2, Zenon
  <2>3. \A p : ~Writing(p)'
    BY <1>2, Zenon DEF Writing
  <2> QED
    BY <1>1, <1>2, <2>1, <2>2, <2>3, Zenon DEF AtApply
<1>10. Reads'
  <2> SUFFICES ASSUME NEW p \in Partitions, Served(p), p \notin DOMAIN staged PROVE Exact(p)'
    BY <1>1, <1>2, Zenon DEF Reads, Served
  <2>1. Exact(p) /\ \A k \in Keys : ValueIn(log'[p], k) = ValueIn(log[p], k)
    BY <1>3, Zenon DEF Served
  <2> QED
    BY <1>1, <2>1, Zenon DEF Exact
<1> QED
  BY <1>3, <1>4, <1>5, <1>8, <1>9, <1>10, Zenon DEF Inv

LEMMA CommitDefinitelyFailsKeeps ==
    ASSUME Inv, CommitDefinitelyFails
    PROVE  Inv'
<1>1. /\ main = Open /\ Quiet /\ Settle("aborted") /\ main' = Idle /\ staged' = <<>>
      /\ UNCHANGED <<live, disk, materialized, assigned, behind, thread>>
  BY Zenon DEF CommitDefinitelyFails, discard, dropStaged, store
<1>2. main'.at = "idle" /\ DOMAIN staged' = {} /\ \A t \in Threads : thread'[t] = Idle
  BY <1>1 DEF Idle, Quiet
<1>3. /\ log' \in [Partitions -> Seq(Records)] /\ Stamps' /\ AtRestore' /\ Lagging'
      /\ \A p \in Partitions : \A k \in Keys : ValueIn(log'[p], k) = ValueIn(log[p], k)
      /\ \A p \in assigned : Served(p) => Exact(p)
  BY <1>1, <1>2, Outcome, Zenon
<1>4. Typed'
  BY <1>1, <1>2, <1>3, Zenon DEF Inv, Typed
<1>5. Locks' /\ Overlays' /\ Transaction' /\ AtApply'
  BY <1>2, Between, Zenon
<1>6. Reads'
  BY <1>1, <1>2, <1>3, Zenon DEF Reads, Exact, Served
<1> QED
  BY <1>3, <1>4, <1>5, <1>6, Zenon DEF Inv

LEMMA CommitOutcomeUnknownKeeps ==
    ASSUME Inv, CommitOutcomeUnknown
    PROVE  Inv'
<1>1. PICK fate \in {"committed", "aborted"} : Settle(fate)
  BY Zenon DEF CommitOutcomeUnknown
<1>2. /\ main = Open /\ Quiet /\ main' = Idle /\ staged' = <<>>
      /\ behind' = [p \in Partitions |-> behind[p] \/ p \in (DOMAIN staged) \cap assigned]
      /\ UNCHANGED <<live, disk, materialized, assigned, thread>>
  BY Zenon DEF CommitOutcomeUnknown, discardUnknown, dropStaged, markBehind, store
<1>3. main'.at = "idle" /\ DOMAIN staged' = {} /\ \A t \in Threads : thread'[t] = Idle
  BY <1>2 DEF Idle, Quiet
<1>4. /\ log' \in [Partitions -> Seq(Records)] /\ Stamps' /\ AtRestore' /\ Lagging'
      /\ \A p \in Partitions : \A k \in Keys :
            (\A i \in DOMAIN log[p] : log[p][i].fate = "open" => k \notin log[p][i].keys)
            => ValueIn(log'[p], k) = ValueIn(log[p], k)
      /\ \A p \in assigned \ DOMAIN staged : \A i \in DOMAIN log[p] : log[p][i].fate # "open"
      /\ \A p \in assigned : Served(p) => Exact(p)
  BY <1>1, <1>2, <1>3, Outcome, Zenon
<1>5. behind' \in [Partitions -> BOOLEAN]
  BY <1>2, Zenon DEF Inv, Typed
<1>6. Typed'
  BY <1>2, <1>3, <1>4, <1>5, Zenon DEF Inv, Typed
<1>7. Locks' /\ Overlays' /\ Transaction' /\ AtApply'
  BY <1>3, Between, Zenon
<1>8. Reads'
  <2> SUFFICES ASSUME NEW p \in Partitions, Served(p)' PROVE Exact(p)'
    BY <1>3, Zenon DEF Reads
  <2>1. Served(p) /\ p \notin DOMAIN staged /\ p \in assigned
    BY <1>2, Zenon DEF Served
  <2>2. Exact(p) /\ \A k \in Keys : ValueIn(log'[p], k) = ValueIn(log[p], k)
    BY <1>4, <2>1, Zenon
  <2> QED
    BY <1>2, <2>2, Zenon DEF Exact
<1> QED
  BY <1>4, <1>6, <1>7, <1>8, Zenon DEF Inv

LEMMA HooksStaySilentKeeps ==
    ASSUME Inv, HooksStaySilent
    PROVE  Inv'
<1>1. PICK fate \in {"committed", "aborted"} : Settle(fate)
  BY Zenon DEF HooksStaySilent
<1>2. /\ main = Open /\ Quiet /\ main' = Unresolved /\ main'.at = "unresolved"
      /\ UNCHANGED <<live, disk, materialized, assigned, behind, staged, thread>>
  BY Zenon DEF HooksStaySilent, store, Unresolved
<1>3. /\ log' \in [Partitions -> Seq(Records)] /\ Stamps' /\ Locks' /\ AtRestore' /\ Lagging'
      /\ \A p \in Partitions : \A k \in Keys :
            (\A i \in DOMAIN log[p] : log[p][i].fate = "open" => k \notin log[p][i].keys)
            => ValueIn(log'[p], k) = ValueIn(log[p], k)
      /\ \A p \in assigned \ DOMAIN staged : \A i \in DOMAIN log[p] : log[p][i].fate # "open"
      /\ \A p \in assigned : Served(p) => Exact(p)
  BY <1>1, <1>2, Outcome, Zenon
<1>4. Typed'
  BY <1>2, <1>3, Zenon DEF Inv, Typed
<1>5. Overlays'
  BY <1>1, <1>2, SettledOverlays, Zenon
<1>6. Transaction' /\ AtApply'
  BY <1>2, Zenon DEF Transaction, AtApply
<1>7. Reads'
  <2> SUFFICES ASSUME NEW p \in Partitions, Served(p), p \notin DOMAIN staged PROVE Exact(p)'
    BY <1>2, Zenon DEF Reads, Served
  <2>1. Exact(p) /\ \A k \in Keys : ValueIn(log'[p], k) = ValueIn(log[p], k)
    BY <1>3, Zenon DEF Served
  <2> QED
    BY <1>2, <2>1, Zenon DEF Exact
<1> QED
  BY <1>3, <1>4, <1>5, <1>6, <1>7, Zenon DEF Inv

LEMMA CrashKeeps ==
    ASSUME Inv, Crash
    PROVE  Inv'
<1>1. PICK fate \in {"committed", "aborted"} : Settle(fate)
  BY Zenon DEF Crash
<1>2. /\ assigned' = {} /\ behind' = [p \in Partitions |-> FALSE] /\ staged' = <<>>
      /\ thread' = [t \in Threads |-> Idle] /\ main' = Idle /\ main'.at = "idle"
      /\ live' = disk /\ materialized' = [p \in Partitions |-> 0] /\ disk' = disk
  BY Zenon DEF Crash, Idle
<1>3. \A p \in Partitions :
         /\ log' \in [Partitions -> Seq(Records)] /\ Len(log'[p]) = Len(log[p])
         /\ \A i \in DOMAIN log'[p] : log'[p][i].fate # "open"
         /\ Lags(disk[p], log'[p])
  BY <1>1, Settling, Zenon
<1>4. log' \in [Partitions -> Seq(Records)]
  <2>1. log' = [p \in Partitions |-> log'[p]]
    BY <1>1, Zenon DEF Settle
  <2> QED
    BY <1>3, <2>1, Zenon
<1>5. Typed'
  BY <1>2, <1>4 DEF Inv, Typed
<1>6. Locks' /\ Overlays' /\ Transaction' /\ AtApply'
  BY <1>2, Between
<1>7. Stamps' /\ Lagging'
  BY <1>2, <1>3, Zenon DEF Inv, Stamps, Lagging
<1>8. AtRestore' /\ Reads'
  BY <1>2, Zenon DEF AtRestore, Reads, Served
<1> QED
  BY <1>5, <1>6, <1>7, <1>8, Zenon DEF Inv

-----------------------------------------------------------------------------
(* The invariant holds of every reachable state.                           *)

LEMMA InitInv == Init => Inv
<1> SUFFICES ASSUME Init PROVE Inv
  OBVIOUS
<1>1. Empty \in Engines /\ Empty.wm = 0 /\ \A k \in Keys : Empty.val[k] = 0
  BY Zenon DEF Empty, Engines
<1>2. /\ \A p \in Partitions : log[p] = <<>> /\ live[p] = Empty /\ disk[p] = Empty
      /\ \A p \in Partitions : materialized[p] = 0
      /\ DOMAIN staged = {} /\ main.at = "idle" /\ \A t \in Threads : thread[t] = Idle
  BY DEF Init, Idle
<1>3. Typed
  <2>1. <<>> \in Seq(Records)
    OBVIOUS
  <2> QED
    BY <1>1, <1>2, <2>1, Zenon DEF Init, Typed
<1>4. \A p \in Partitions : Len(log[p]) = 0 /\ DOMAIN log[p] = {}
  BY <1>2
<1>5. \A p \in Partitions : \A k : ValueIn(log[p], k) = 0
  <2>1. \A p \in Partitions : \A k : HitsIn(log[p], k) = {}
    BY <1>4 DEF HitsIn
  <2> QED
    BY <2>1, Zenon DEF ValueIn
<1>6. Stamps
  BY <1>1, <1>2, <1>4 DEF Stamps
<1>7. Locks /\ Overlays /\ Transaction /\ AtApply /\ AtRestore
  BY <1>2, Zenon DEF Locks, Overlays, Transaction, AtApply, AtRestore
<1>8. Reads /\ Lagging
  BY <1>1, <1>2, <1>5, Zenon DEF Reads, Exact, Lagging, Lags
<1> QED
  BY <1>3, <1>6, <1>7, <1>8, Zenon DEF Inv

LEMMA StutterInv == Inv /\ UNCHANGED vars => Inv'
<1> SUFFICES ASSUME Inv, UNCHANGED vars PROVE Inv'
  OBVIOUS
<1>1. UNCHANGED <<log, live, disk, materialized, assigned, behind, staged, thread, main>>
  BY Zenon DEF vars
<1>2. Typed' /\ Stamps'
  BY <1>1, Zenon DEF Inv, Typed, Stamps
<1>3. Locks' /\ Overlays' /\ Reads' /\ Lagging'
  BY <1>1, SameLocks, SameOverlays, SameReads, SameLagging, Zenon DEF Inv
<1>4. Transaction'
  BY <1>1 DEF Inv, Transaction, Served, Held
<1>5. AtApply'
  BY <1>1, Zenon DEF Inv, AtApply, Writing, Exact
<1>6. AtRestore'
  <2>1. \A q : Remaining(q)' = Remaining(q)
    BY <1>1, Zenon DEF Remaining
  <2> QED
    BY <1>1, <2>1, Zenon DEF Inv, AtRestore, Served
<1> QED
  BY <1>2, <1>3, <1>4, <1>5, <1>6, Zenon DEF Inv

LEMMA NextInv == Inv /\ [Next]_vars => Inv'
<1> SUFFICES ASSUME Inv, [Next]_vars PROVE Inv'
  OBVIOUS
<1>1. CASE UNCHANGED vars
  BY <1>1, StutterInv, Zenon
<1>2. ASSUME NEW t \in Threads, NEW p \in Partitions, SendFails(t, p) PROVE Inv'
  BY <1>2, SendFailsKeeps, Zenon
<1>3. ASSUME NEW t \in Threads, NEW p \in Partitions, NEW mutation \in Mutations, Send(t, p, mutation)
      PROVE  Inv'
  BY <1>3, SendKeeps, Zenon
<1>4. ASSUME NEW t \in Threads, Record(t) PROVE Inv'
  BY <1>4, RecordKeeps, Zenon
<1>5. CASE begin \/ CommitSucceeds \/ CommitDefinitelyFails \/ CommitOutcomeUnknown
           \/ HooksStaySilent \/ applyCommitted
  BY <1>5, BeginKeeps, CommitSucceedsKeeps, CommitDefinitelyFailsKeeps,
     CommitOutcomeUnknownKeeps, HooksStaySilentKeeps, ApplyCommittedKeeps, Zenon
<1>6. ASSUME NEW p \in Partitions, ApplyWrite(p) \/ ApplyStamp(p) \/ ApplyFails(p) PROVE Inv'
  BY <1>6, ApplyWriteKeeps, ApplyStampKeeps, ApplyFailsKeeps, Zenon
<1>7. ASSUME NEW p \in Partitions, assign(p) \/ repair(p) \/ EngineFlush(p) PROVE Inv'
  BY <1>7, AssignKeeps, RepairKeeps, EngineFlushKeeps, Zenon
<1>8. ASSUME NEW p \in Partitions, revoke(p) \/ lost(p) PROVE Inv'
  <2>1. PICK left \in {live[p], disk[p]} : Leaves(p) /\ Closed(p, left)
    BY <1>8, Zenon DEF revoke, lost
  <2> QED
    BY <2>1, LeavesKeeps, Zenon
<1>9. CASE RestoreWrite \/ RestoreStamp \/ replay \/ RestoreFails \/ Crash
  BY <1>9, RestoreWriteKeeps, RestoreStampKeeps, ReplayKeeps, RestoreFailsKeeps, CrashKeeps, Zenon
<1> QED
  BY <1>1, <1>2, <1>3, <1>4, <1>5, <1>6, <1>7, <1>8, <1>9, Zenon DEF Next

LEMMA Invariant == Spec => []Inv
BY InitInv, NextInv, PTL DEF Spec

-----------------------------------------------------------------------------
(* What follows.                                                           *)

\* "The store may only ever lag": at any moment, for any partition, the
\* committed records past the watermark of the open engine, or of what a
\* crash would leave of it, replayed over what it holds, give the committed
\* state.
THEOREM StoreLagsNeverLies == Spec => []StoreOnlyLags
<1>1. ASSUME Inv PROVE StoreOnlyLags
  <2> SUFFICES ASSUME NEW p \in Partitions, NEW s \in {live[p], disk[p]}, NEW k \in Keys
               PROVE  ValueAfter(s.val, p, k, s.wm + 1, {"committed"}) = ValueIn(log[p], k)
    BY CommittedIsValueIn, Zenon DEF StoreOnlyLags
  <2> DEFINE l == log[p]
             hits == {i \in s.wm + 1 .. Len(l) : l[i].fate \in {"committed"} /\ k \in l[i].keys}
  <2>1. l \in Seq(Records) /\ Len(l) \in Nat /\ DOMAIN l = 1 .. Len(l)
    BY <1>1, LogShape, Zenon DEF Inv
  <2>2. s \in Engines /\ s.wm \in Nat /\ Lags(s, l)
    BY <1>1 DEF Inv, Typed, Engines, Lagging
  <2>3. ValueAfter(s.val, p, k, s.wm + 1, {"committed"}) =
          IF hits = {} THEN s.val[k] ELSE Says(l, Max(hits))
    BY Zenon DEF ValueAfter, Says
  <2>4. CASE hits = {}
    <3>1. ~Past(l, k, s.wm)
      BY <2>1, <2>2, <2>4 DEF Past, Touches
    <3> QED
      BY <2>2, <2>3, <2>4, <3>1, Zenon DEF Lags
  <2>5. CASE hits # {}
    <3>1. hits \in SUBSET (0 .. Len(l))
      BY <2>1, <2>2
    <3>2. PICK i : i = Max(hits) /\ i \in hits /\ \A j \in hits : j <= i
      BY <2>1, <2>5, <3>1, HasMax, Zenon
    <3>3. i \in DOMAIN l /\ Touches(l, k, i) /\ s.wm < i
      <4>1. i \in hits
        BY <3>2, Zenon
      <4>2. hits \subseteq DOMAIN l /\ \A j \in hits : s.wm < j /\ Touches(l, k, j)
        BY <2>1, <2>2 DEF Touches
      <4> QED
        BY <4>1, <4>2, Zenon
    <3>4. \A j \in DOMAIN l : Touches(l, k, j) => j <= i
      <4> SUFFICES ASSUME NEW j \in DOMAIN l, Touches(l, k, j) PROVE j <= i
        OBVIOUS
      <4>1. CASE s.wm < j
        <5>1. j \in hits
          BY <2>1, <2>2, <4>1 DEF Touches
        <5> QED
          BY <3>2, <5>1, Zenon
      <4>2. CASE ~(s.wm < j)
        BY <2>1, <2>2, <3>3, <4>2
      <4> QED
        BY <4>1, <4>2, Zenon
    <3>5. ValueIn(l, k) = Says(l, i)
      BY <2>1, <3>3, <3>4, LastSays, Zenon
    <3> QED
      BY <2>3, <2>5, <3>2, <3>5, Zenon
  <2> QED
    BY <2>4, <2>5, Zenon
<1> QED
  BY <1>1, Invariant, PTL

\* "A lagging partition may not be served": between the outcome calls, what
\* getCommitted reads from a served partition is the committed log, for any
\* number of partitions, fold threads and keys, whatever applies, flushes and
\* restores failed and wherever the process died.
THEOREM ServedNeverLags == Spec => []ServedIsCommitted
<1>1. ASSUME Inv PROVE ServedIsCommitted
  <2> SUFFICES ASSUME main.at \in {"idle", "open"}, NEW p \in Partitions, Served(p), NEW k \in Keys
               PROVE  live[p].val[k] = ValueIn(log[p], k)
    BY CommittedIsValueIn, Zenon DEF ServedIsCommitted, getCommitted
  <2>1. Exact(p)
    BY <1>1, Zenon DEF Inv, Transaction, Reads
  <2> QED
    BY <2>1, Zenon DEF Exact
<1> QED
  BY <1>1, Invariant, PTL


-----------------------------------------------------------------------------
(* What a fold reads.                                                      *)

LogKinds == \A p \in Partitions : \A i \in DOMAIN log[p] :
    log[p][i].kind # "deleteRange" => \E k \in Keys : log[p][i].keys = {k}

\* At most one point per key, and only deleteRange makes a range.
StagedKinds == \A p \in DOMAIN staged :
    /\ \A x \in staged[p].points : x.kind # "deleteRange" /\ \E k \in Keys : x.keys = {k}
    /\ \A x \in staged[p].ranges : x.kind = "deleteRange"
    /\ \A x, y \in staged[p].points : x.keys = y.keys => x = y

Kinds == LogKinds /\ StagedKinds

LEMMA SettledKinds ==
    ASSUME Inv, LogKinds, NEW fate \in {"committed", "aborted"}, Settle(fate)
    PROVE  LogKinds'
BY Settling DEF LogKinds

LEMMA RecordedKinds ==
    ASSUME Inv, Kinds, NEW t \in Threads, Record(t)
    PROVE  Kinds'
<1>0. PICK p \in Partitions, n \in Nat : thread[t].partition = p /\ thread[t].position = n
  BY ThreadShape, Zenon DEF Inv, Record, Holding
<1> DEFINE o == staged[p]
           r == log[p][n]
           op == [keys |-> r.keys, kind |-> r.kind, sequence |-> o.sequence, value |-> n]
           kept == {q \in o.points : q.keys # r.keys}
<1>1. /\ thread[t] # Idle /\ staged' = [staged EXCEPT ![p] = Stage(o, r, n)] /\ log' = log
  BY <1>0, Zenon DEF Record
<1>2. p \in DOMAIN staged /\ n \in DOMAIN log[p]
  <2>1. p \in DOMAIN staged /\ n = Len(log[p]) /\ Len(log[p]) > 0
    BY <1>0, <1>1, Zenon DEF Inv, Locks
  <2> QED
    BY <2>1, LogShape DEF Inv
<1>3. /\ DOMAIN staged' = DOMAIN staged /\ staged'[p] = Stage(o, r, n)
      /\ \A q \in DOMAIN staged \ {p} : staged'[q] = staged[q]
  BY <1>1, <1>2, Zenon
<1>4. LogKinds'
  BY <1>1, Zenon DEF Kinds, LogKinds
<1>5. op.keys = r.keys /\ op.kind = r.kind
  OBVIOUS
<1>6. r.kind # "deleteRange" => \E k \in Keys : r.keys = {k}
  BY <1>2, Zenon DEF Kinds, LogKinds
<1>7. /\ staged'[p].points = IF r.kind = "deleteRange" THEN o.points ELSE kept \cup {op}
      /\ staged'[p].ranges = IF r.kind = "deleteRange" THEN o.ranges \cup {op} ELSE o.ranges
  <2>1. Stage(o, r, n).points = IF r.kind = "deleteRange" THEN o.points ELSE kept \cup {op}
    BY Zenon DEF Stage
  <2>2. Stage(o, r, n).ranges = IF r.kind = "deleteRange" THEN o.ranges \cup {op} ELSE o.ranges
    BY Zenon DEF Stage
  <2> QED
    BY <1>3, <2>1, <2>2, Zenon
<1> HIDE DEF op, r
<1>8. /\ \A x \in o.points : x.kind # "deleteRange" /\ \E k \in Keys : x.keys = {k}
      /\ \A x \in o.ranges : x.kind = "deleteRange"
      /\ \A x, y \in o.points : x.keys = y.keys => x = y
  BY <1>2, Zenon DEF Kinds, StagedKinds
<1> HIDE DEF o
<1>9. /\ \A x \in staged'[p].points : x.kind # "deleteRange" /\ \E k \in Keys : x.keys = {k}
      /\ \A x \in staged'[p].ranges : x.kind = "deleteRange"
      /\ \A x, y \in staged'[p].points : x.keys = y.keys => x = y
  <2>1. CASE r.kind = "deleteRange"
    BY <1>5, <1>7, <1>8, <2>1, Zenon
  <2>2. CASE r.kind # "deleteRange"
    BY <1>5, <1>6, <1>7, <1>8, <2>2
  <2> QED
    BY <2>1, <2>2, Zenon
<1> QED
  BY <1>3, <1>4, <1>9, Zenon DEF Kinds, StagedKinds

LEMMA KindsKept == Inv /\ Kinds /\ [Next]_vars => Kinds'
<1> SUFFICES ASSUME Inv, Kinds, [Next]_vars PROVE Kinds'
  OBVIOUS
<1>1. CASE UNCHANGED <<log, staged>>
  BY <1>1, Zenon DEF Kinds, LogKinds, StagedKinds
<1>2. CASE DOMAIN staged' = {} /\ (log' = log \/ \E fate \in {"committed", "aborted"} : Settle(fate))
  <2>1. LogKinds'
    BY <1>2, SettledKinds, Zenon DEF Kinds, LogKinds
  <2> QED
    BY <1>2, <2>1, Zenon DEF Kinds, StagedKinds
<1>3. CASE staged' = staged /\ \E fate \in {"committed", "aborted"} : Settle(fate)
  <2>1. LogKinds'
    BY <1>3, SettledKinds, Zenon DEF Kinds
  <2> QED
    BY <1>3, <2>1, Zenon DEF Kinds, StagedKinds
<1>4. ASSUME NEW p \in Partitions, staged' = WithOverlay(p) PROVE StagedKinds'
  <2>1. /\ DOMAIN staged' = DOMAIN staged \cup {p}
        /\ \A q \in DOMAIN staged : staged'[q] = staged[q]
        /\ p \notin DOMAIN staged => staged'[p] = NewOverlay
    BY <1>4, Overlaid, Zenon
  <2> QED
    BY <2>1 DEF Kinds, StagedKinds, NewOverlay
<1>5. ASSUME NEW t \in Threads, NEW p \in Partitions, SendFails(t, p) PROVE Kinds'
  BY <1>4, <1>5, Zenon DEF SendFails, Kinds, LogKinds
<1>6. ASSUME NEW t \in Threads, NEW p \in Partitions, NEW mutation \in Mutations, Send(t, p, mutation)
      PROVE  Kinds'
  <2> DEFINE r == [kind |-> mutation.kind, keys |-> mutation.keys, fate |-> "open"]
  <2>1. /\ staged' = WithOverlay(p) /\ log' = [log EXCEPT ![p] = Append(@, r)]
    BY <1>6, Zenon DEF Send
  <2>2. r \in Records /\ r.fate = "open" /\ (r.kind # "deleteRange" => \E k \in Keys : r.keys = {k})
    BY Zenon DEF Mutations, Records
  <2> HIDE DEF r
  <2>3. /\ log[p] \in Seq(Records) /\ log'[p] = Append(log[p], r)
        /\ \A q \in Partitions \ {p} : log'[q] = log[q]
    BY <2>1, LogShape, Zenon DEF Inv, Typed
  <2>4. /\ DOMAIN log'[p] = DOMAIN log[p] \cup {Len(log[p]) + 1}
        /\ \A i \in DOMAIN log[p] : log'[p][i] = log[p][i]
        /\ log'[p][Len(log[p]) + 1] = r
    BY <2>2, <2>3, AppendOpen
  <2>5. LogKinds'
    <3>1. SUFFICES ASSUME NEW q \in Partitions, NEW i \in DOMAIN log'[q], log'[q][i].kind # "deleteRange"
                   PROVE  \E k \in Keys : log'[q][i].keys = {k}
      BY Zenon DEF LogKinds
    <3>2. CASE q \in Partitions \ {p}
      <4>1. log'[q] = log[q]
        BY <2>3, <3>2, Zenon
      <4>2. i \in DOMAIN log[q] /\ log[q][i].kind # "deleteRange"
        BY <3>1, <4>1, Zenon
      <4>3. \E k \in Keys : log[q][i].keys = {k}
        BY <4>2, Zenon DEF Kinds, LogKinds
      <4> QED BY <4>1, <4>3, Zenon
    <3>3. CASE q = p /\ i \in DOMAIN log[p]
      <4>1. log'[q][i] = log[p][i]
        BY <2>4, <3>3, Zenon
      <4>2. \E k \in Keys : log[p][i].keys = {k}
        BY <3>1, <3>3, <4>1, Zenon DEF Kinds, LogKinds
      <4> QED BY <4>1, <4>2, Zenon
    <3>4. CASE q = p /\ i = Len(log[p]) + 1
      BY <2>2, <2>4, <3>1, <3>4, Zenon
    <3>5. q \in Partitions \ {p} \/ q = p
      BY Zenon
    <3> QED BY <2>4, <3>1, <3>2, <3>3, <3>4, <3>5, Zenon
  <2> QED
    BY <1>4, <2>1, <2>5, Zenon DEF Kinds
<1>7. ASSUME NEW t \in Threads, Record(t) PROVE Kinds'
  BY <1>7, RecordedKinds, Zenon
<1>8. ASSUME begin PROVE Kinds'
  <2>1. log' = log /\ (DOMAIN staged' = {} \/ staged' = staged)
    BY <1>8 DEF begin, discardUnknown, dropStaged
  <2> QED
    BY <1>1, <1>2, <2>1, Zenon
<1>9. ASSUME NEW p \in Partitions, Leaves(p) PROVE Kinds'
  <2>1. log' = log /\ staged' = [q \in DOMAIN staged \ {p} |-> staged[q]]
    BY <1>9, Zenon DEF Leaves
  <2> QED
    BY <2>1 DEF Kinds, LogKinds, StagedKinds
<1>10. ASSUME CommitSucceeds \/ HooksStaySilent PROVE Kinds'
  BY <1>3, <1>10, Zenon DEF CommitSucceeds, HooksStaySilent
<1>11. ASSUME CommitDefinitelyFails \/ CommitOutcomeUnknown \/ applyCommitted \/ Crash PROVE Kinds'
  <2>1. staged' = <<>> /\ (log' = log \/ \E fate \in {"committed", "aborted"} : Settle(fate))
    BY <1>11, Zenon DEF CommitDefinitelyFails, CommitOutcomeUnknown, applyCommitted, Crash,
                 discard, discardUnknown, dropStaged
  <2>2. DOMAIN staged' = {}
    BY <2>1
  <2> QED
    BY <1>2, <2>1, <2>2, Zenon
<1>12. ASSUME NEW p \in Partitions, ApplyWrite(p) \/ ApplyStamp(p) \/ ApplyFails(p) \/ assign(p)
                                    \/ repair(p) \/ EngineFlush(p)
       PROVE  Kinds'
  BY <1>1, <1>12, Zenon DEF ApplyWrite, ApplyStamp, ApplyFails, assign, repair, EngineFlush
<1>13. ASSUME RestoreWrite \/ RestoreStamp \/ replay \/ RestoreFails \/ UNCHANGED vars PROVE Kinds'
  BY <1>1, <1>13, Zenon DEF RestoreWrite, RestoreStamp, replay, RestoreFails, vars
<1> QED
  BY <1>5, <1>6, <1>7, <1>8, <1>9, <1>10, <1>11, <1>12, <1>13, Zenon DEF Next, revoke, lost

LEMMA KindsInvariant == Spec => [](Inv /\ Kinds)
<1>1. Init => Kinds
  BY DEF Init, Kinds, LogKinds, StagedKinds
<1> QED
  BY <1>1, InitInv, NextInv, KindsKept, PTL DEF Spec

LEMMA CoveringIsLast ==
    ASSUME NEW p \in DOMAIN staged, Overlay(p), NEW k
    PROVE  LET c == covering(staged[p], k)
               ranges == {r \in staged[p].ranges : k \in r.keys}
           IN  /\ ranges = {} => c = -1
               /\ ranges # {} => \E r \in ranges : c = r.sequence
               /\ \A r \in ranges : r.sequence <= c
<1> DEFINE ranges == {r \in staged[p].ranges : k \in r.keys}
           seqs == {r.sequence : r \in ranges}
           S == {-1} \cup seqs
<1>1. covering(staged[p], k) = Max(S)
  BY Zenon DEF covering
<1>2. staged[p].sequence \in Nat /\ \A r \in ranges : r.sequence \in Nat /\ r.sequence < staged[p].sequence
  BY Zenon DEF Overlay, Ops
<1>3. CASE ranges = {}
  <2>1. S = {-1}
    BY <1>3, Zenon
  <2>2. -1 \in S /\ \A y \in S : -1 >= y
    BY <2>1
  <2>3. Max(S) \in S
    BY <2>2, Zenon DEF Max
  <2> QED
    BY <1>1, <1>3, <2>1, <2>3, Zenon
<1>4. CASE ranges # {}
  <2>1. seqs \in SUBSET (0 .. staged[p].sequence)
    BY <1>2
  <2>2. seqs # {}
    BY <1>4, Zenon
  <2> HIDE DEF seqs
  <2>3. Max(seqs) \in seqs /\ \A y \in seqs : y <= Max(seqs)
    BY <1>2, <2>1, <2>2, HasMax, Zenon
  <2>4. \A y \in seqs : y \in Nat
    BY <1>2, <2>1
  <2>5. PICK m \in seqs : \A y \in seqs : y <= m
    BY <2>3, Zenon
  <2>6. m \in S /\ m \in Int /\ \A y \in S : m >= y
    BY <2>5, <2>4
  <2>7. \A y \in S : y \in Int
    BY <2>4
  <2> HIDE DEF S
  <2>8. PICK x : x = Max(S) /\ x \in S /\ \A y \in S : x >= y
    BY <2>6, Zenon DEF Max
  <2>9. x \in Int /\ x >= m /\ m >= x
    BY <2>6, <2>8, <2>7, Zenon
  <2>10. Max(S) = m
    BY <2>6, <2>8, <2>9
  <2> QED
    BY <1>1, <1>4, <2>5, <2>10, Zenon DEF seqs
<1> QED
  BY <1>3, <1>4, Zenon

\* resolve answers what into would write.
LEMMA ResolveIsInto ==
    ASSUME Typed, Kinds, NEW p \in DOMAIN staged, Overlay(p), NEW val, NEW k \in Keys
    PROVE  IF Decides(staged[p], k) THEN resolve(staged[p], k) = {into(staged[p], val)[k]}
                                    ELSE /\ resolve(staged[p], k) = {}
                                         /\ into(staged[p], val)[k] = val[k]
<1> DEFINE o == staged[p]
           c == covering(o, k)
           point == {q \in o.points : k \in q.keys}
           ranges == {r \in o.ranges : k \in r.keys}
           ops == {op \in o.points \cup o.ranges : k \in op.keys}
           last == CHOOSE op \in ops : \A other \in ops : other.sequence <= op.sequence
<1>1. into(o, val)[k] = IF ops = {} THEN val[k] ELSE IF last.kind = "put" THEN last.value ELSE 0
  BY Zenon DEF into
<1>2. resolve(o, k) = IF point = {} THEN IF c >= 0 THEN {0} ELSE {}
        ELSE {IF q.sequence < c \/ q.kind = "delete" THEN 0 ELSE q.value : q \in point}
  BY Zenon DEF resolve
<1>3. /\ ranges = {} => c = -1
      /\ ranges # {} => \E r \in ranges : c = r.sequence
      /\ \A r \in ranges : r.sequence <= c
  BY CoveringIsLast, Zenon
<1>4. ops = point \cup ranges /\ (Decides(o, k) <=> ops # {})
  BY Zenon DEF Decides
<1>5. /\ \A q, s \in point : q = s
      /\ \A q \in point : q.kind # "deleteRange"
      /\ \A r \in ranges : r.kind = "deleteRange"
  <2>1. \A q \in point : q.keys = {k}
    BY Zenon DEF Kinds, StagedKinds
  <2> QED
    BY <2>1, Zenon DEF Kinds, StagedKinds
<1>6. /\ p \in Partitions /\ o.sequence \in Nat
      /\ \A op \in ops : /\ op.sequence \in Nat /\ op.value \in Nat
                         /\ op.kind = log[p][op.value].kind /\ op.kind \in {"put", "delete", "deleteRange"}
  <2>1. p \in Partitions /\ o.sequence \in Nat /\ o.positions \subseteq DOMAIN log[p]
    BY Zenon DEF Typed, Overlay
  <2>2. log[p] \in Seq(Records) /\ DOMAIN log[p] = 1 .. Len(log[p]) /\ Len(log[p]) \in Nat
    BY <2>1, LogShape, Zenon
  <2>3. \A i \in DOMAIN log[p] : log[p][i] \in Records /\ i \in Nat
    BY <2>2
  <2>4. \A op \in ops : op.value \in DOMAIN log[p] /\ op.kind = log[p][op.value].kind /\ op.sequence \in Nat
    BY <2>1, Zenon DEF Overlay, Ops
  <2> QED
    BY <2>1, <2>3, <2>4, Zenon DEF Records
<1>7. \A op, other \in ops : op.sequence < other.sequence <=> op.value < other.value
  BY Zenon DEF Overlay, Ops
<1> HIDE DEF c, point, ranges, ops, last
<1>8. CASE ops = {}
  BY <1>1, <1>2, <1>3, <1>4, <1>8
<1>9. CASE point = {} /\ ranges # {}
  <2>1. c >= 0
    BY <1>3, <1>4, <1>6, <1>9
  <2>2. PICK top \in ranges : c = top.sequence
    BY <1>3, <1>9, Zenon
  <2>3. top \in ops /\ \A other \in ops : other.sequence <= top.sequence
    BY <1>3, <1>4, <1>9, <2>2, Zenon
  <2>4. last \in ops
    BY <2>3, Zenon DEF last
  <2>5. last.kind # "put"
    BY <1>4, <1>5, <1>9, <2>4, Zenon
  <2> QED
    BY <1>1, <1>2, <1>4, <1>9, <2>1, <2>4, <2>5, Zenon
<1>10. CASE point # {}
  <2>1. PICK q \in point : point = {q}
    BY <1>5, <1>10, Zenon
  <2>2. q \in ops /\ q.sequence \in Nat /\ q.kind \in {"put", "delete"} /\ c \in Int
    <3>1. q \in ops
      BY <1>4, <2>1, Zenon
    <3>2. c \in Int
      BY <1>3, <1>4, <1>6
    <3> QED
      BY <1>5, <1>6, <2>1, <3>1, <3>2, Zenon
  <2>3. resolve(o, k) = {IF q.sequence < c \/ q.kind = "delete" THEN 0 ELSE q.value}
    BY <1>2, <2>1, Zenon
  <2>4. \E top \in ops : \A other \in ops : other.sequence <= top.sequence
    <3>1. CASE q.sequence < c
      <4>1. ranges # {}
        BY <1>3, <2>2, <3>1
      <4>2. PICK top \in ranges : c = top.sequence
        BY <1>3, <4>1, Zenon
      <4>3. \A other \in ops : other.sequence <= top.sequence
        BY <1>3, <1>4, <2>1, <2>2, <3>1, <4>2
      <4> QED
        BY <1>4, <4>2, <4>3, Zenon
    <3>2. CASE ~(q.sequence < c)
      <4>1. \A other \in ops : other.sequence <= q.sequence
        BY <1>3, <1>4, <1>6, <2>1, <2>2, <3>2
      <4> QED
        BY <2>2, <4>1, Zenon
    <3> QED
      BY <3>1, <3>2, Zenon
  <2>5. last \in ops /\ \A other \in ops : other.sequence <= last.sequence
    BY <2>4, Zenon DEF last
  <2>6. CASE q.sequence < c
    <3>1. PICK top \in ranges : c = top.sequence
      BY <1>3, <2>2, <2>6
    <3>2. top \in ops /\ c <= last.sequence
      BY <1>4, <2>5, <3>1, Zenon
    <3>3. last # q
      BY <1>6, <2>2, <2>5, <2>6, <3>2
    <3>4. last.kind # "put"
      BY <1>4, <1>5, <2>1, <2>5, <3>3, Zenon
    <3> QED
      BY <1>1, <1>4, <2>2, <2>3, <2>6, <3>4, Zenon
  <2>7. CASE ~(q.sequence < c)
    <3>1. last.sequence = q.sequence
      BY <1>3, <1>4, <1>6, <2>1, <2>2, <2>5, <2>7
    <3>2. last.value = q.value
      BY <1>6, <1>7, <2>2, <2>5, <3>1
    <3>3. last.kind = q.kind
      BY <1>6, <2>2, <2>5, <3>2, Zenon
    <3> QED
      BY <1>1, <1>4, <2>2, <2>3, <2>7, <3>2, <3>3, Zenon
  <2> QED
    BY <2>6, <2>7, Zenon
<1> QED
  BY <1>4, <1>8, <1>9, <1>10, Zenon

\* Committed or not, an aborted record excepted: what the log holds of k.
LEMMA FoldValue ==
    ASSUME Typed, NEW p \in Partitions, NEW k \in Keys
    PROVE  LET fates == {"committed", "open"}
               now == ValueAfter(Empty.val, p, k, 1, fates)
           IN  /\ (\A i \in DOMAIN log[p] : log[p][i].fate = "open" => k \notin log[p][i].keys)
                     => now = ValueIn(log[p], k)
               /\ \A i \in DOMAIN log[p] :
                     /\ log[p][i].fate \in fates /\ k \in log[p][i].keys
                     /\ \A j \in DOMAIN log[p] :
                            log[p][j].fate \in fates /\ k \in log[p][j].keys => j <= i
                     => now = Says(log[p], i)
<1> DEFINE l == log[p]
           fates == {"committed", "open"}
           hits == {i \in 1 .. Len(l) : l[i].fate \in fates /\ k \in l[i].keys}
           now == ValueAfter(Empty.val, p, k, 1, fates)
<1>1. l \in Seq(Records) /\ Len(l) \in Nat /\ DOMAIN l = 1 .. Len(l)
  BY LogShape, Zenon
<1>2. Empty.val[k] = 0
  BY Zenon DEF Empty
<1>3. now = IF hits = {} THEN 0 ELSE Says(l, Max(hits))
  BY <1>2, Zenon DEF ValueAfter, Says
<1>4. ASSUME \A i \in DOMAIN l : l[i].fate = "open" => k \notin l[i].keys
      PROVE  now = ValueIn(l, k)
  <2>1. hits = HitsIn(l, k)
    BY <1>1, <1>4, Zenon DEF HitsIn, Touches
  <2> QED
    BY <1>3, <2>1, Zenon DEF ValueIn
<1>5. ASSUME NEW i \in DOMAIN l, l[i].fate \in fates, k \in l[i].keys,
             \A j \in DOMAIN l : l[j].fate \in fates /\ k \in l[j].keys => j <= i
      PROVE  now = Says(l, i)
  <2>1. i \in hits /\ hits \in SUBSET (0 .. Len(l)) /\ \A j \in hits : j <= i
    BY <1>1, <1>5
  <2> HIDE DEF hits
  <2>2. Max(hits) \in hits /\ \A j \in hits : j <= Max(hits)
    BY <1>1, <2>1, HasMax, Zenon
  <2>3. Max(hits) = i
    BY <1>1, <2>1, <2>2
  <2> QED
    BY <1>3, <2>1, <2>3, Zenon
<1> QED
  BY <1>4, <1>5, Zenon

\* A fold reads, in a served partition nobody is staging into, what the log
\* holds, the records of its own transaction included.
LEMMA FoldGets ==
    ASSUME Inv, Kinds, main = Open, NEW p \in Partitions, Served(p), Unlocked(p), NEW k \in Keys
    PROVE  get(p, k) = ValueAfter(Empty.val, p, k, 1, {"committed", "open"})
<1> DEFINE now == ValueAfter(Empty.val, p, k, 1, {"committed", "open"})
           o == staged[p]
<1>1. /\ main.at = "open" /\ p \in assigned /\ Exact(p)
      /\ log[p] \in Seq(Records) /\ Len(log[p]) \in Nat /\ DOMAIN log[p] = 1 .. Len(log[p])
  BY LogShape, Zenon DEF Inv, Open, Served, Reads
<1>2. \A i \in DOMAIN log[p] : log[p][i].fate = "open" => p \in DOMAIN staged /\ i \in o.positions
  BY <1>1, Zenon DEF Inv, Transaction, Held, Unlocked
<1>3. CASE p \notin DOMAIN staged
  <2>1. now = ValueIn(log[p], k)
    BY <1>2, <1>3, FoldValue, Zenon DEF Inv
  <2> QED
    BY <1>1, <1>3, <2>1, Zenon DEF get, Staged, Exact
<1>4. CASE p \in DOMAIN staged
  <2>1. Overlay(p) /\ o.positions \subseteq DOMAIN log[p]
    BY <1>4, Zenon DEF Inv, Overlays, Overlay
  <2>2. get(p, k) = into(o, live[p].val)[k]
    <3>1. IF Decides(o, k) THEN resolve(o, k) = {into(o, live[p].val)[k]}
                           ELSE resolve(o, k) = {} /\ into(o, live[p].val)[k] = live[p].val[k]
      BY <1>4, <2>1, ResolveIsInto DEF Inv
    <3> QED
      BY <1>4, <3>1, Zenon DEF get, Staged
  <2>5. \/ /\ into(o, live[p].val)[k] = live[p].val[k]
           /\ \A i \in o.positions : k \notin log[p][i].keys
        \/ \E i \in o.positions :
              /\ k \in log[p][i].keys /\ into(o, live[p].val)[k] = Says(log[p], i)
              /\ \A j \in o.positions : k \in log[p][j].keys => j <= i
    <3>1. Typed
      BY Zenon DEF Inv
    <3> QED
      BY <1>4, <2>1, <3>1, IntoWritesLast, Zenon
  <2>3. CASE \A i \in o.positions : k \notin log[p][i].keys
    <3>1. into(o, live[p].val)[k] = live[p].val[k]
      BY <2>3, <2>5, Zenon
    <3>2. now = ValueIn(log[p], k)
      BY <1>2, <2>3, FoldValue, Zenon DEF Inv
    <3> QED
      BY <1>1, <2>2, <3>1, <3>2, Zenon DEF Exact
  <2>4. CASE \E i \in o.positions : k \in log[p][i].keys
    <3>1. PICK i \in o.positions :
              /\ k \in log[p][i].keys /\ into(o, live[p].val)[k] = Says(log[p], i)
              /\ \A j \in o.positions : k \in log[p][j].keys => j <= i
      BY <2>4, <2>5, Zenon
    <3>2. i \in DOMAIN log[p] /\ log[p][i].fate = "open"
      BY <1>1, <1>4, <2>1, Zenon DEF Inv, Transaction
    <3>3. \A j \in DOMAIN log[p] \ o.positions : j < i
      BY <2>1, Zenon DEF Overlay, Held, Unlocked
    <3>4. \A j \in DOMAIN log[p] : k \in log[p][j].keys => j <= i
      BY <1>1, <3>1, <3>2, <3>3
    <3>5. now = Says(log[p], i)
      BY <3>1, <3>2, <3>4, FoldValue, Zenon DEF Inv
    <3> QED
      BY <2>2, <3>1, <3>5, Zenon
  <2> QED
    BY <2>3, <2>4, Zenon
<1> QED
  BY <1>3, <1>4, Zenon

\* A scan returns the keys a get finds, with what it finds.
LEMMA ScanIsGet ==
    ASSUME Inv, Kinds, NEW p \in Partitions
    PROVE  iterator(p) = {<<k, get(p, k)>> : k \in {k \in Keys : get(p, k) # 0}}
<1> DEFINE o == IF Staged(p) THEN staged[p] ELSE NewOverlay
           kept == {k \in Keys : live[p].val[k] # 0 /\ ~Decides(o, k)}
<1>1. iterator(p) = {<<k, live[p].val[k]>> : k \in kept}
                      \cup UNION {{<<k, v>> : v \in resolve(o, k)} : k \in Injections(o)}
  BY Zenon DEF iterator
<1>2. \A k \in Keys : IF Decides(o, k) THEN resolve(o, k) = {get(p, k)}
                                       ELSE resolve(o, k) = {} /\ get(p, k) = live[p].val[k]
  <2> SUFFICES ASSUME NEW k \in Keys
               PROVE  IF Decides(o, k) THEN resolve(o, k) = {get(p, k)}
                                       ELSE resolve(o, k) = {} /\ get(p, k) = live[p].val[k]
    OBVIOUS
  <2>1. CASE ~Staged(p)
    <3>1. o = NewOverlay /\ ~Decides(o, k)
      BY <2>1, Zenon DEF Decides, NewOverlay
    <3>2. resolve(o, k) = {}
      <4>1. covering(NewOverlay, k) = -1
        <5>1. {-1} \cup {r.sequence : r \in {r \in NewOverlay.ranges : k \in r.keys}} = {-1}
          BY Zenon DEF NewOverlay
        <5>2. Max({-1}) = -1
          <6>1. -1 \in {-1} /\ \A y \in {-1} : -1 >= y
            OBVIOUS
          <6>2. Max({-1}) \in {-1}
            BY <6>1, Zenon DEF Max
          <6> QED
            BY <6>2, Zenon
        <5> QED
          BY <5>1, <5>2, Zenon DEF covering
      <4>2. NewOverlay.points = {} /\ ~(-1 >= 0)
        BY DEF NewOverlay
      <4>3. {q \in NewOverlay.points : k \in q.keys} = {}
        BY <4>2, Zenon
      <4>4. resolve(NewOverlay, k) = {}
        BY <4>1, <4>2, <4>3, Zenon DEF resolve
      <4> QED
        BY <3>1, <4>4, Zenon
    <3> QED
      BY <2>1, <3>1, <3>2, Zenon DEF get
  <2>2. CASE Staged(p)
    <3>1. IF Decides(o, k) THEN resolve(o, k) = {into(o, live[p].val)[k]}
                           ELSE resolve(o, k) = {} /\ into(o, live[p].val)[k] = live[p].val[k]
      BY <2>2, ResolveIsInto, Zenon DEF Inv, Overlays, Staged
    <3> QED
      BY <2>2, <3>1, Zenon DEF get
  <2> QED
    BY <2>1, <2>2, Zenon
<1>3. \A k \in Keys : k \in Injections(o) <=> Decides(o, k) /\ get(p, k) # 0
  <2> SUFFICES ASSUME NEW k \in Keys
               PROVE  k \in Injections(o) <=> Decides(o, k) /\ get(p, k) # 0
    OBVIOUS
  <2>1. k \in Injections(o) <=> (\E q \in o.points : k \in q.keys) /\ resolve(o, k) # {0}
    BY Zenon DEF Injections
  <2>2. (\E q \in o.points : k \in q.keys) => Decides(o, k)
    BY Zenon DEF Decides
  <2>3. Decides(o, k) /\ ~(\E q \in o.points : k \in q.keys) => resolve(o, k) \in {{0}, {}}
    BY Zenon DEF resolve
  <2> QED
    BY <1>2, <2>1, <2>2, <2>3, Zenon
<1>4. Injections(o) \subseteq Keys
  BY Zenon DEF Injections
<1> HIDE DEF o
<1>5. ASSUME NEW x \in iterator(p) PROVE \E k \in Keys : get(p, k) # 0 /\ x = <<k, get(p, k)>>
  <2>1. CASE x \in {<<k, live[p].val[k]>> : k \in kept}
    BY <1>2, <2>1, Zenon
  <2>2. CASE x \in UNION {{<<k, v>> : v \in resolve(o, k)} : k \in Injections(o)}
    <3>1. PICK k \in Injections(o) : x \in {<<k, v>> : v \in resolve(o, k)}
      BY <2>2, Zenon
    <3>2. k \in Keys /\ resolve(o, k) = {get(p, k)} /\ get(p, k) # 0
      BY <1>2, <1>3, <1>4, Zenon
    <3> QED
      BY <3>1, <3>2, Zenon
  <2> QED
    BY <1>1, <1>5, <2>1, <2>2, Zenon
<1>6. ASSUME NEW k \in Keys, get(p, k) # 0 PROVE <<k, get(p, k)>> \in iterator(p)
  <2>1. CASE Decides(o, k)
    <3>1. k \in Injections(o) /\ get(p, k) \in resolve(o, k)
      BY <1>2, <1>3, <1>6, <2>1, Zenon
    <3>2. <<k, get(p, k)>> \in {<<k, v>> : v \in resolve(o, k)}
      BY <3>1, Zenon
    <3> QED
      BY <1>1, <3>1, <3>2
  <2>2. CASE ~Decides(o, k)
    BY <1>1, <1>2, <1>6, <2>2, Zenon
  <2> QED
    BY <2>1, <2>2, Zenon
<1> QED
  BY <1>5, <1>6, Zenon

\* Inside a transaction, a get or a scan of a served partition nobody is
\* staging into answers what the log holds, this transaction's own records
\* included, for any number of fold threads staging into it before.
THEOREM FoldReadsItsWrites == Spec => []FoldSeesLog
<1>1. ASSUME Inv, Kinds PROVE FoldSeesLog
  BY <1>1, FoldGets, ScanIsGet, Zenon DEF FoldSeesLog
<1> QED
  BY <1>1, KindsInvariant, PTL

=============================================================================
