--------------------------- MODULE TruncationProofs ---------------------------
(***************************************************************************)
(* The write floor never lags the truncation point, for any number of      *)
(* threads in truncate_below and any keys they truncate below.             *)
(*                                                                         *)
(* That is not inductive: a failed edit puts the write floor back to what  *)
(* it was before that call, and the edits of calls begun earlier or later  *)
(* may have moved the truncation point meanwhile.  What saves it is that   *)
(* the calls in progress nest: of any two, one published a key no higher   *)
(* than the floor the other one found.                                     *)
(***************************************************************************)
EXTENDS LsmTree, TLAPS

Truncating(t) == truncator[t] # Quiescent

\* The state truncate_below touches.
FloorsTyped ==
    /\ setup \in Setups
    /\ floor \in Nat /\ writeFloor \in Nat
    /\ truncator \in [Truncators -> [key : Nat, previous : Nat]]

\* A call in progress raised the write floor to its key, and the truncation
\* point is not strictly inside the step it made.
Raised(t) ==
    /\ truncator[t].previous < truncator[t].key
    /\ truncator[t].key <= writeFloor
    /\ floor <= truncator[t].previous \/ truncator[t].key < floor

Nested(t, u) ==
    \/ truncator[t].key <= truncator[u].previous
    \/ truncator[u].key <= truncator[t].previous

Inv ==
    /\ FloorsTyped
    /\ AcceptedIsReadable
    /\ \A t \in Truncators : Truncating(t) => Raised(t)
    /\ \A t, u \in Truncators : t # u /\ Truncating(t) /\ Truncating(u) => Nested(t, u)

-----------------------------------------------------------------------------
LEMMA InitInv == Init => Inv
BY LsmTreeAssumption
   DEF Init, Inv, FloorsTyped, AcceptedIsReadable, Truncating, Quiescent, NoKey

LEMMA MaxOfTwo ==
    ASSUME NEW m \in Nat, NEW n \in Nat
    PROVE  Max({m, n}) = IF m < n THEN n ELSE m
<1> DEFINE top == IF m < n THEN n ELSE m
<1>1. top \in {m, n} /\ \A y \in {m, n} : top >= y
  OBVIOUS
<1>2. \A x \in {m, n} : (\A y \in {m, n} : x >= y) => x = top
  OBVIOUS
<1> QED
  BY <1>1, <1>2, Zenon DEF Max

LEMMA FloorsToTruncate ==
    ASSUME setup \in Setups, NEW k \in setup.floors
    PROVE  k \in Nat
BY LsmTreeAssumption

-----------------------------------------------------------------------------
\* The floor found becomes the new call's previous, which is at or above every
\* key published and not yet settled.
LEMMA PublishKeepsInv ==
    ASSUME Inv, NEW t \in Truncators, NEW k \in setup.floors, TruncatePublishes(t, k)
    PROVE  Inv'
<1>1. k \in Nat
  BY FloorsToTruncate DEF Inv, FloorsTyped
<1>2. /\ writeFloor < k /\ writeFloor' = k
      /\ truncator' = [truncator EXCEPT ![t] = [key |-> k, previous |-> writeFloor]]
      /\ UNCHANGED <<floor, setup>>
  BY DEF TruncatePublishes
<1>3. FloorsTyped' /\ AcceptedIsReadable'
  BY <1>1, <1>2 DEF Inv, FloorsTyped, AcceptedIsReadable
<1>4. /\ truncator'[t].key = k /\ truncator'[t].previous = writeFloor
      /\ \A u \in Truncators \ {t} : truncator'[u] = truncator[u]
  BY <1>2 DEF Inv, FloorsTyped
<1>5. \A u \in Truncators : truncator[u].key \in Nat /\ truncator[u].previous \in Nat
  BY DEF Inv, FloorsTyped
<1>6. ASSUME NEW u \in Truncators, Truncating(u)' PROVE Raised(u)'
  BY <1>1, <1>2, <1>4, <1>5, <1>6 DEF Inv, FloorsTyped, AcceptedIsReadable, Truncating, Raised
<1>7. ASSUME NEW u \in Truncators, NEW v \in Truncators, u # v, Truncating(u)', Truncating(v)'
      PROVE  Nested(u, v)'
  BY <1>1, <1>2, <1>4, <1>5, <1>7 DEF Inv, FloorsTyped, Truncating, Raised, Nested
<1> QED
  BY <1>3, <1>6, <1>7 DEF Inv

\* The truncation point moves to a key which, of every other call in progress,
\* lies at or below the floor that call found or above the key it published.
LEMMA ApplyKeepsInv ==
    ASSUME Inv, NEW t \in Truncators, TruncateApplies(t)
    PROVE  Inv'
<1> DEFINE key == truncator[t].key
<1>1. \A u \in Truncators : truncator[u].key \in Nat /\ truncator[u].previous \in Nat
  BY DEF Inv, FloorsTyped
<1>2. /\ Truncating(t)
      /\ floor' = IF floor < key THEN key ELSE floor
      /\ truncator' = [truncator EXCEPT ![t] = Quiescent]
      /\ UNCHANGED <<writeFloor, setup>>
  BY <1>1, MaxOfTwo DEF Inv, FloorsTyped, TruncateApplies, Truncating, bounds
<1>3. Raised(t)
  BY <1>2 DEF Inv
<1>4. FloorsTyped' /\ AcceptedIsReadable'
  BY <1>1, <1>2, <1>3 DEF Inv, FloorsTyped, AcceptedIsReadable, Raised, Quiescent, NoKey
<1>5. ~Truncating(t)' /\ \A u \in Truncators \ {t} : truncator'[u] = truncator[u]
  BY <1>2 DEF Inv, FloorsTyped, Truncating, Quiescent
<1>6. ASSUME NEW u \in Truncators, Truncating(u)' PROVE Raised(u)'
  <2>1. u # t /\ Truncating(u) /\ Raised(u) /\ Nested(u, t)
    BY <1>2, <1>5, <1>6 DEF Inv, Truncating, Quiescent
  <2> QED
    BY <1>1, <1>2, <1>3, <1>5, <2>1 DEF Inv, FloorsTyped, Raised, Nested
<1>7. ASSUME NEW u \in Truncators, NEW v \in Truncators, u # v, Truncating(u)', Truncating(v)'
      PROVE  Nested(u, v)'
  BY <1>5, <1>7 DEF Inv, Truncating, Nested, Quiescent
<1> QED
  BY <1>4, <1>6, <1>7 DEF Inv

\* The write floor goes back only while it is still this call's key; then no
\* other call published above it, and the truncation point is at or below the
\* floor this call found.
LEMMA FailKeepsInv ==
    ASSUME Inv, NEW t \in Truncators, TruncateFails(t)
    PROVE  Inv'
<1>1. \A u \in Truncators : truncator[u].key \in Nat /\ truncator[u].previous \in Nat
  BY DEF Inv, FloorsTyped
<1>2. /\ Truncating(t)
      /\ writeFloor' = IF writeFloor = truncator[t].key THEN truncator[t].previous ELSE writeFloor
      /\ truncator' = [truncator EXCEPT ![t] = Quiescent]
      /\ UNCHANGED <<floor, setup>>
  BY DEF TruncateFails, Truncating, bounds
<1>3. Raised(t)
  BY <1>2 DEF Inv
<1>4. FloorsTyped' /\ AcceptedIsReadable'
  BY <1>1, <1>2, <1>3 DEF Inv, FloorsTyped, AcceptedIsReadable, Raised, Quiescent, NoKey
<1>5. ~Truncating(t)' /\ \A u \in Truncators \ {t} : truncator'[u] = truncator[u]
  BY <1>2 DEF Inv, FloorsTyped, Truncating, Quiescent
<1>6. ASSUME NEW u \in Truncators, Truncating(u)' PROVE Raised(u)'
  <2>1. u # t /\ Truncating(u) /\ Raised(u) /\ Nested(u, t)
    BY <1>2, <1>5, <1>6 DEF Inv, Truncating, Quiescent
  <2> QED
    BY <1>1, <1>2, <1>3, <1>5, <2>1 DEF Inv, FloorsTyped, Raised, Nested
<1>7. ASSUME NEW u \in Truncators, NEW v \in Truncators, u # v, Truncating(u)', Truncating(v)'
      PROVE  Nested(u, v)'
  BY <1>5, <1>7 DEF Inv, Truncating, Nested, Quiescent
<1> QED
  BY <1>4, <1>6, <1>7 DEF Inv

-----------------------------------------------------------------------------
LEMMA SameFloorsKeepInv ==
    ASSUME Inv, UNCHANGED <<floors, setup>>
    PROVE  Inv'
BY DEF Inv, FloorsTyped, AcceptedIsReadable, Truncating, Raised, Nested, Quiescent, floors

LEMMA WritesLeaveFloors ==
    ASSUME NEW k, NEW e, Write(k, e)
    PROVE  UNCHANGED <<floors, setup>>
BY DEF Write, bounds

LEMMA NextInv == Inv /\ [Next]_vars => Inv'
<1> SUFFICES ASSUME Inv, [Next]_vars PROVE Inv'
  OBVIOUS
<1>1. ASSUME NEW k \in setup.puts, put(k) PROVE Inv'
  BY <1>1, WritesLeaveFloors, SameFloorsKeepInv DEF put
<1>2. ASSUME NEW k \in setup.removes, remove(k) PROVE Inv'
  BY <1>2, WritesLeaveFloors, SameFloorsKeepInv DEF remove
<1>3. ASSUME NEW r \in setup.ranges, delete_range(r[1], r[2]) PROVE Inv'
  BY <1>3, SameFloorsKeepInv, Zenon DEF delete_range, bounds
<1>4. CASE flush_memtable
  BY <1>4, SameFloorsKeepInv DEF flush_memtable, bounds
<1>5. ASSUME NEW level \in 0 .. Last - 1, run_one_compaction(level) PROVE Inv'
  BY <1>5, SameFloorsKeepInv, Zenon DEF run_one_compaction, bounds
<1>6. CASE compact_l0_file_off_its_tier
  BY <1>6, SameFloorsKeepInv, Zenon DEF compact_l0_file_off_its_tier, bounds
<1>7. ASSUME NEW level \in 0 .. Last, CompactLevelBegins(level) PROVE Inv'
  BY <1>7, SameFloorsKeepInv DEF CompactLevelBegins
<1>8. CASE compact_level
  BY <1>8, SameFloorsKeepInv, Zenon DEF compact_level, bounds
<1>9. CASE CompactLevelEnds
  BY <1>9, SameFloorsKeepInv DEF CompactLevelEnds, bounds
<1>10. CASE Renumber
  BY <1>10, SameFloorsKeepInv DEF Renumber
<1>11. CASE reclaim_dead_files
  BY <1>11, SameFloorsKeepInv, Zenon DEF reclaim_dead_files, bounds
<1>12. CASE TtlPasses
  BY <1>12, SameFloorsKeepInv DEF TtlPasses
<1>13. ASSUME NEW t \in Truncators, NEW k \in setup.floors, TruncatePublishes(t, k) PROVE Inv'
  BY <1>13, PublishKeepsInv
<1>14. ASSUME NEW t \in Truncators, TruncateApplies(t) PROVE Inv'
  BY <1>14, ApplyKeepsInv
<1>15. ASSUME NEW t \in Truncators, TruncateFails(t) PROVE Inv'
  BY <1>15, FailKeepsInv
<1>16. CASE UNCHANGED vars
  BY <1>16, SameFloorsKeepInv DEF vars, bounds
<1> QED
  BY <1>1, <1>2, <1>3, <1>4, <1>5, <1>6, <1>7, <1>8, <1>9, <1>10, <1>11, <1>12, <1>13, <1>14,
     <1>15, <1>16, Zenon DEF Next

\* A put that check_below_truncation accepts is never below the version's
\* truncation point, whichever truncate_below calls overlap and whichever of
\* their edits fail: what is accepted can be read back.
THEOREM AcceptedAboveTruncation == Spec => []AcceptedIsReadable
<1>1. Inv => AcceptedIsReadable
  BY DEF Inv
<1> QED
  BY <1>1, InitInv, NextInv, PTL DEF Spec
=============================================================================
