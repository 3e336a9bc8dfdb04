----------------------- MODULE SingleWriterInvariant ------------------------
(***************************************************************************)
(* One writer: the deployment the engine is documented for, one process    *)
(* that opens the store read-write and any number of readers beside it,    *)
(* with crashes, torn writes and failed calls.                             *)
(*                                                                         *)
(* The invariant of VersionSetInvariant says nothing of generations        *)
(* CURRENT has left, because an overtaken writer may still put edits       *)
(* there.  A single writer is never overtaken: Control says that its       *)
(* entry_ is CURRENT except between a compare-and-set that moved it and    *)
(* the end of that roll.  So addresses of the history are written once,    *)
(* and Chain says that the live generation has no gap below its newest     *)
(* durable edit.  From these follow the kinds of step the writer takes     *)
(* (StepKinds), which the proofs below go through, and that what it        *)
(* acknowledged stays below the end of the live generation (Acked).        *)
(*                                                                         *)
(* The other parts of the invariant speak of data.  Files: the objects of  *)
(* every version that can still be read are in the store.  Undamaged: the  *)
(* writer's own open meets no gap.  Window: what a reader serves was not   *)
(* deleted within the retention.  Numbers: the counter the next open will  *)
(* start from is above every file number in the history.                   *)
(***************************************************************************)
EXTENDS VersionSetInvariant, TLAPS

\* the entry a compare-and-set of this roll leaves in CURRENT
NextEntry(w) == [gen |-> target[w].gen, token |-> entry[w].token + 1]

\* where the writer is, and what CURRENT is to it
Control(w) ==
    /\ \A r \in Readers : pc[r] \notin Rolling
    /\ pc[w] \notin {"advanced", "advancedList"}
    /\ pc[w] \in {"down", "read"} \cup Replaying => entry[w] = Nowhere
    /\ pc[w] \in Rolling => /\ target[w].then # "down"
                            /\ target[w].then = "observe" => entry[w] = Nowhere
    /\ pc[w] \in (Opened \cup Rolling) \ {"ambiguous", "installed"} => pointer = entry[w]
    /\ pc[w] = "ambiguous" => pointer \in {entry[w], NextEntry(w)}
    /\ pc[w] = "installed" => pointer = NextEntry(w)
    /\ pc[w] \in Replaying => load[w].entry = pointer
    /\ pc[w] \in {"replay", "confirm"} => load[w].listed = ListEdits(pointer.gen)

\* a process that replays the live generation reads it to the end of what it listed
Listing(p) ==
    pc[p] \in {"replay", "confirm"} /\ load[p].entry.gen = pointer.gen =>
       /\ \A k \in load[p].listed : <<pointer.gen, k>> \in DOMAIN edits
       /\ load[p].seq = 1 \/ load[p].seq - 1 \in load[p].listed
       /\ pc[p] = "confirm" => \/ load[p].seq \notin load[p].listed
                               \/ <<pointer.gen, load[p].seq>> \notin DOMAIN at

\* the live generation has no gap below its newest durable edit
Chain ==
    LET g == pointer.gen IN
    /\ \A a \in DOMAIN at : a[1] = g =>
          \A j \in 0..a[2] : <<g, j>> \in DOMAIN at /\ at[<<g, j>>] <= at[a]
    /\ \A a \in DOMAIN at : a[1] = g /\ a[2] # 0 => ~edits[a].torn
    /\ \A a \in DOMAIN edits : a[1] = g => a[2] # 0 /\ <<g, a[2] - 1>> \in DOMAIN at
    /\ pointer = Nowhere => DOMAIN at = {} /\ DOMAIN edits = {} /\ log = <<>>

-----------------------------------------------------------------------------
(* Steps of the readers. *)

\* a step that neither the manifest nor the stores nor the writer takes part in
Elsewhere(w) ==
    /\ UNCHANGED <<pointer, snapshots, edits, objects, log, at, acked>>
    /\ Same(w) /\ nextFile'[w] = nextFile[w] /\ pending'[w] = pending[w]
    /\ written'[w] = written[w] /\ pinned'[w] = pinned[w] /\ reseal'[w] = reseal[w]
    /\ status'[w] = status[w]

\* What the steps below need of the order on numbers.
LEMMA LessThrough == ASSUME NEW f \in Nat, NEW m \in Nat, NEW n \in Nat, f < m, m <= n PROVE f < n
  OBVIOUS

LEMMA LessUpTo == ASSUME NEW f \in Nat, NEW m \in Nat, NEW n \in Nat, f < m, n >= m PROVE f < n
  OBVIOUS


LEMMA Reflexive == ASSUME NEW n \in Nat PROVE n <= n
  OBVIOUS

LEMMA ZeroFirst == ASSUME NEW n \in Nat PROVE 0 <= n
  OBVIOUS

LEMMA Aged ==
  ASSUME NEW m \in Nat, NEW n \in Nat, n >= m, NEW t \in Nat, NEW r \in Nat, m - t >= r
  PROVE  n - t >= r
  OBVIOUS

LEMMA Predecessor == ASSUME NEW n \in Nat \ {0} PROVE (n - 1) + 1 = n /\ (n = 1 => n - 1 = 0)
  OBVIOUS

\* What an appended history holds.
LEMMA Appended ==
  ASSUME NEW l \in Seq(SUBSET Nat), NEW v \in SUBSET Nat, NEW m, m = Append(l, v), NEW i \in DOMAIN m
  PROVE  (i \in DOMAIN l /\ m[i] = l[i]) \/ m[i] = v
  OBVIOUS

LEMMA LogFiles == ASSUME Inv PROVE \A i \in DOMAIN log : \A f \in log[i] : f \in Nat
<1>1. log \in Seq(SUBSET Nat)
  BY Zenon DEF Inv, TypeOK
<1> QED BY <1>1

LEMMA NoEntryYet == Nowhere \in Entry /\ Nowhere.gen = 0
  BY Zenon DEF Nowhere, Entry

\* The edits of flushes, compactions, migrations and reclaims are written whole.
LEMMA EditsAreWhole == ASSUME NEW p, NEW e \in EditsOf(p) PROVE ~e.torn
<1>1. PICK add, del : e = Change(p, add, del)
  <2>1. CASE e \in CompactionEdits(p)
    BY <2>1 DEF CompactionEdits
  <2>2. CASE e \in MigrationEdits(p)
    <3>1. PICK n \in written[p], f \in version[p] : e = Change(p, {n}, {f})
      BY <2>2 DEF MigrationEdits, Change
    <3> QED BY <3>1, Zenon
  <2>3. CASE e \in FlushEdits(p) \cup ReclaimEdits(p) \cup TrivialMoves(p)
    BY <2>3, Zenon DEF FlushEdits, ReclaimEdits, TrivialMoves
  <2> QED BY <2>1, <2>2, <2>3, Zenon DEF EditsOf
<1> QED BY <1>1, Zenon DEF Change

LEMMA OneWriter ==
  ASSUME NEW w, Writers = {w}
  PROVE  w \in Procs /\ w \notin Readers /\ \A p \in Procs : p = w \/ p \in Readers
  BY ConstantsAssumption, Zenon DEF Procs

\* the variables a process has one of
ProcTypes ==
    /\ pc \in [Procs -> Stages] /\ entry \in [Procs -> Entry] /\ seq \in [Procs -> Nat \ {0}]
    /\ version \in [Procs -> SUBSET Nat] /\ nextFile \in [Procs -> Nat \ {0}]
    /\ pending \in [Procs -> SUBSET (Nat \X Nat)] /\ written \in [Procs -> SUBSET Nat]
    /\ pinned \in [Procs -> SUBSET SUBSET Nat] /\ reseal \in [Procs -> BOOLEAN]
    /\ load \in [Procs -> Attempt] /\ target \in [Procs -> Target] /\ status \in [Procs -> Statuses]
    /\ asOf \in [Procs -> Nat]

LEMMA InvTypes == ASSUME Inv PROVE ProcTypes
  BY Zenon DEF Inv, TypeOK, ProcTypes

\* A reader's step leaves the manifest, the stores and the writer alone.
LEMMA ReaderElsewhere ==
  ASSUME NEW w, Writers = {w}, NEW r \in Readers, Inv, Control(w), Recover(r) \/ Read(r) \/ Crash(r)
  PROVE  Elsewhere(w) /\ pc'[r] \notin Rolling /\ \A q \in Procs \ {r} : pc'[q] = pc[q]
<1>1. w \in Procs /\ r \in Procs /\ w # r /\ r \notin Writers
  BY OneWriter, Zenon DEF Procs
<1>2. ProcTypes
  BY InvTypes, Zenon
<1> USE DEF ProcTypes
<1>3. CASE Open(r) \/ Refresh(r)
  BY <1>1, <1>2, <1>3, Zenon DEF Open, Refresh, Goto, Elsewhere, Same, catalogVars, instanceVars, historyVars, Rolling
<1>4. CASE ReadPointer(r)
  BY <1>1, <1>2, <1>4, Zenon DEF ReadPointer, Fail, Goto, Elsewhere, Same, catalogVars, instanceVars, historyVars, Rolling
<1>5. CASE GetSnapshot(r)
  BY <1>1, <1>2, <1>5 DEF GetSnapshot, RecoverFrame, Fail, Goto, Elsewhere, Same, catalogVars, instanceVars, historyVars, Rolling
<1>6. CASE ListEditsOf(r)
  BY <1>1, <1>2, <1>6, Zenon DEF ListEditsOf, RecoverFrame, Fail, Goto, Elsewhere, Same, catalogVars, instanceVars, historyVars, Rolling
<1>7. CASE GetEdit(r)
  BY <1>1, <1>2, <1>7 DEF GetEdit, RecoverFrame, Fail, Goto, Elsewhere, Same, catalogVars, instanceVars, historyVars, Rolling
<1>8. CASE Reread(r) \/ RecoverIo(r)
  BY <1>1, <1>2, <1>8 DEF Reread, RecoverIo, Retry, RecoverFrame, Fail, Goto, Elsewhere, Same, catalogVars, instanceVars, historyVars, Rolling
<1>9. CASE Confirm(r)
  <2>1. UNCHANGED <<catalogVars, objects, fenced, pending, written, pinned, target, log, at, acked>>
    BY <1>9, Zenon DEF Confirm
  <2>2. CASE /\ Retry(r) \/ Fail(r, "Corrupt")
             /\ UNCHANGED <<entry, seq, version, nextFile, reseal, asOf>>
    BY <1>1, <1>2, <2>1, <2>2, Zenon DEF Retry, Fail, Goto, Elsewhere, Same, catalogVars, Rolling
  <2>3. CASE /\ entry' = [entry EXCEPT ![r] = load[r].entry]
             /\ seq' = [seq EXCEPT ![r] = load[r].seq]
             /\ version' = [version EXCEPT ![r] = load[r].files]
             /\ nextFile' = [nextFile EXCEPT ![r] = load[r].next]
             /\ \E b \in {TRUE, FALSE} : reseal' = [reseal EXCEPT ![r] = b]
             /\ load' = [load EXCEPT ![r] = NoLoad]
             /\ Goto(r, IF entry[r] = Nowhere THEN "verify" ELSE "idle")
             /\ UNCHANGED status
    BY <1>1, <1>2, <2>1, <2>3, Zenon DEF Goto, Elsewhere, Same, catalogVars, Rolling
  <2> QED BY <1>9, <2>2, <2>3, Zenon DEF Confirm
<1>10. CASE Crash(r)
  BY <1>1, <1>2, <1>10 DEF Crash, Forget, Goto, Elsewhere, Same, catalogVars, Rolling
<1>11. CASE VerifyStores(r)
  BY <1>1, <1>2, <1>11 DEF VerifyStores, ObserveListing, Forget, Goto, Elsewhere, Same, catalogVars, localVars, Rolling
<1>12. CASE ObserveAfterCreate(r)
  BY <1>1, <1>2, <1>12, Zenon DEF ObserveAfterCreate, ObserveListing, Goto, Elsewhere, Same, catalogVars, localVars, historyVars, Rolling
<1>13. CASE Pin(r) \/ Unpin(r)
  BY <1>1, <1>2, <1>13, Zenon DEF Pin, Unpin, Elsewhere, Same, catalogVars, localVars, historyVars, Control
<1>14. CASE ReadMissing(r)
  BY <1>1, <1>2, <1>14, Zenon DEF ReadMissing, Goto, Elsewhere, Same, catalogVars, instanceVars, localVars, historyVars, Rolling
<1>15. CASE AdvancedPointer(r)
  BY <1>1, <1>2, <1>15 DEF AdvancedPointer, AnswerStale, Forget, Goto, Elsewhere, Same, catalogVars, instanceVars, localVars, historyVars, Rolling
<1>16. CASE AdvancedList(r)
  BY <1>1, <1>2, <1>16 DEF AdvancedList, AnswerStale, Forget, Goto, Elsewhere, Same, catalogVars, instanceVars, localVars, historyVars, Rolling
<1> QED BY <1>3, <1>4, <1>5, <1>6, <1>7, <1>8, <1>9, <1>10, <1>11, <1>12, <1>13, <1>14, <1>15, <1>16, Zenon DEF Recover, Read

-----------------------------------------------------------------------------
(* Steps of the writer: what CURRENT is to it. *)

\* A step of recover that installs nothing.
LEMMA RecoverControl ==
  ASSUME NEW w, Writers = {w}, ~UnreadableIsEmpty, Inv, Control(w),
         Open(w) \/ ReadPointer(w) \/ GetSnapshot(w) \/ ListEditsOf(w) \/ GetEdit(w) \/ Reread(w) \/ RecoverIo(w)
  PROVE  Control(w)'
<1>1. w \in Procs /\ w \notin Readers /\ \A r \in Readers : r \in Procs /\ r # w
  BY OneWriter, Zenon DEF Procs
<1>2. ProcTypes
  BY InvTypes, Zenon
<1>3. entry[w] = Nowhere
  BY Zenon DEF Control, Replaying, Open, ReadPointer, GetSnapshot, ListEditsOf, GetEdit, Reread, RecoverIo
<1>4. UNCHANGED <<pointer, edits, entry>>
  BY Zenon DEF Open, ReadPointer, GetSnapshot, ListEditsOf, GetEdit, Reread, RecoverIo, RecoverFrame, catalogVars, instanceVars
<1>5. ListEdits(pointer.gen)' = ListEdits(pointer.gen) /\ entry'[w] = Nowhere
  BY <1>3, <1>4, Zenon DEF ListEdits
<1>6. \A r \in Readers : pc'[r] = pc[r]
  <2>1. pc' = pc \/ \E c : pc' = [pc EXCEPT ![w] = c]
    BY Zenon DEF Open, ReadPointer, GetSnapshot, ListEditsOf, GetEdit, Reread, RecoverIo, Retry, Goto, Fail
  <2> QED BY <1>1, <1>2, <2>1, Zenon DEF ProcTypes
<1> DEFINE Onward == \/ pc'[w] \in {"down", "read"}
                     \/ pc'[w] = "putSnapshot" /\ pointer = Nowhere /\ target'[w].then = "observe"
                     \/ /\ pc'[w] \in Replaying /\ load'[w].entry = pointer
                        /\ pc'[w] \in {"replay", "confirm"} => load'[w].listed = ListEdits(pointer.gen)
<1>7. Onward
  <2> USE DEF ProcTypes
  <2>1. CASE Open(w)
    BY <1>1, <1>2, <2>1, Zenon DEF Open, Goto
  <2>2. CASE ReadPointer(w)
    BY <1>1, <1>2, <1>3, <2>2 DEF ReadPointer, RollTo, Goto, Fail, Replaying, Attempt
  <2>3. CASE GetSnapshot(w)
    BY <1>1, <1>2, <1>3, <2>3 DEF GetSnapshot, Goto, Fail, Replaying, Attempt, Control
  <2>4. CASE ListEditsOf(w)
    BY <1>1, <1>2, <1>3, <2>4 DEF ListEditsOf, Goto, Fail, Replaying, Attempt, Control
  <2>5. CASE GetEdit(w)
    <3>1. pc[w] = "replay" /\ load[w].entry = pointer /\ load[w].listed = ListEdits(pointer.gen)
      BY <2>5, Zenon DEF GetEdit, Control, Replaying
    <3>2. ASSUME pc' = [pc EXCEPT ![w] = "confirm"], load' = load PROVE Onward
      BY <1>1, <1>2, <3>1, <3>2, Zenon DEF Replaying
    <3>3. ASSUME NEW F, NEW N, NEW S, pc' = pc,
                 load' = [load EXCEPT ![w].files = F, ![w].next = N, ![w].seq = S]
          PROVE  Onward
      BY <1>1, <1>2, <3>1, <3>3 DEF Replaying, Attempt
    <3>4. ASSUME Fail(w, "Corrupt") PROVE Onward
      BY <1>1, <1>2, <1>3, <3>4, Zenon DEF Fail, Goto
    <3>5. ASSUME NEW v, pc' = [pc EXCEPT ![w] = "missing"], load' = [load EXCEPT ![w].verdict = v]
          PROVE  Onward
      BY <1>1, <1>2, <3>1, <3>5 DEF Replaying, Attempt
    <3> HIDE DEF Onward
    <3> QED BY <2>5, <3>2, <3>3, <3>4, <3>5, ZenonT(40) DEF GetEdit, Goto
  <2>6. CASE Reread(w) \/ RecoverIo(w)
    BY <1>1, <1>2, <1>3, <2>6, Zenon DEF Reread, RecoverIo, Retry, Goto, Fail, Replaying, Attempt, Control
  <2> QED BY <2>1, <2>2, <2>3, <2>4, <2>5, <2>6, Zenon
<1> QED BY <1>3, <1>4, <1>5, <1>6, <1>7, Zenon DEF Control, Replaying, Rolling, Opened

LEMMA OpenControl ==
  ASSUME NEW w, Writers = {w}, Inv, Control(w), Confirm(w) \/ VerifyStores(w) \/ ObserveAfterCreate(w)
  PROVE  Control(w)'
<1>1. w \in Procs /\ w \notin Readers /\ \A r \in Readers : r \in Procs /\ r # w
  BY OneWriter, Zenon DEF Procs
<1>2. ProcTypes
  BY InvTypes, Zenon
<1> USE DEF ProcTypes
<1>3. UNCHANGED pointer
  BY Zenon DEF Confirm, VerifyStores, ObserveAfterCreate, catalogVars
<1>4. \A r \in Readers : pc'[r] = pc[r]
  <2>1. \E c : pc' = [pc EXCEPT ![w] = c]
    BY Zenon DEF Confirm, VerifyStores, ObserveAfterCreate, Retry, Goto, Fail, Forget
  <2> QED BY <1>1, <1>2, <2>1, Zenon
<1>5. \/ pc'[w] \in {"down", "read"} /\ entry'[w] = Nowhere
      \/ pc'[w] \in {"verify", "idle"} /\ entry'[w] = pointer
  <2>1. CASE Confirm(w)
    <3>1. pc[w] = "confirm" /\ entry[w] = Nowhere /\ load[w].entry = pointer
      BY <2>1, Zenon DEF Confirm, Control, Replaying
    <3>2. CASE (Retry(w) \/ Fail(w, "Corrupt")) /\ UNCHANGED entry
      BY <1>1, <1>2, <3>1, <3>2, Zenon DEF Retry, Fail, Goto
    <3>3. CASE /\ entry' = [entry EXCEPT ![w] = load[w].entry]
               /\ Goto(w, IF entry[w] = Nowhere THEN "verify" ELSE "idle")
      BY <1>1, <1>2, <3>1, <3>3, Zenon DEF Goto
    <3> QED BY <2>1, <3>2, <3>3, Zenon DEF Confirm
  <2>2. CASE VerifyStores(w)
    BY <1>1, <1>2, <2>2, Zenon DEF VerifyStores, Control, Opened, Forget, Goto
  <2>3. CASE ObserveAfterCreate(w)
    BY <1>1, <1>2, <2>3, Zenon DEF ObserveAfterCreate, Control, Opened, Goto
  <2> QED BY <2>1, <2>2, <2>3, Zenon
<1> QED BY <1>3, <1>4, <1>5, Zenon DEF Control, Replaying, Rolling, Opened

\* Steps of a serving writer that leave CURRENT alone.
LEMMA ServeControl ==
  ASSUME NEW w, Writers = {w}, Inv, Control(w),
         PutObject(w) \/ Apply(w) \/ RollNow(w) \/ CollectObsolete(w) \/ Pin(w) \/ Unpin(w)
  PROVE  Control(w)' /\ UNCHANGED <<pointer, entry>>
<1>1. w \in Procs /\ w \notin Readers /\ \A r \in Readers : r \in Procs /\ r # w
  BY OneWriter, Zenon DEF Procs
<1>2. ProcTypes
  BY InvTypes, Zenon
<1> USE DEF ProcTypes
<1>3. UNCHANGED <<pointer, entry>>
  BY Zenon DEF PutObject, Apply, RollNow, CollectObsolete, Pin, Unpin, Land, PutEdit, catalogVars, instanceVars
<1>4. CASE UNCHANGED <<pc, load, target, edits>>
  <2>1. ListEdits(pointer.gen)' = ListEdits(pointer.gen) /\ NextEntry(w)' = NextEntry(w)
    BY <1>3, <1>4, Zenon DEF ListEdits, NextEntry
  <2> QED BY <1>3, <1>4, <2>1, Zenon DEF Control
<1>5. ASSUME NEW c, c \in {"idle", "collect", "putSnapshot"}, pc' = [pc EXCEPT ![w] = c], pc[w] \in {"idle", "collect"},
             c = "putSnapshot" => target'[w].then \in {"collect", "idle"}
      PROVE  Control(w)'
  <2>1. pc'[w] = c /\ \A r \in Readers : pc'[r] = pc[r]
    BY <1>1, <1>2, <1>5, Zenon
  <2> QED BY <1>3, <1>5, <2>1, Zenon DEF Control, Replaying, Rolling, Opened
<1>6. CASE PutObject(w) \/ Pin(w) \/ Unpin(w)
  <2>1. UNCHANGED <<pc, load, target, edits>>
    BY <1>6, Zenon DEF PutObject, Pin, Unpin, catalogVars, localVars
  <2> QED BY <1>3, <1>4, <2>1, Zenon
<1>7. CASE Apply(w)
  <2>1. pc[w] = "idle"
    BY <1>7, Zenon DEF Apply
  <2>2. CASE pc' = pc
    <3>1. pc' = [pc EXCEPT ![w] = "idle"]
      BY <1>2, <2>1, <2>2, Zenon
    <3> QED BY <1>3, <1>5, <2>1, <3>1, Zenon
  <2>3. CASE pc' = [pc EXCEPT ![w] = "collect"]
    BY <1>3, <1>5, <2>1, <2>3, Zenon
  <2>4. CASE pc' = [pc EXCEPT ![w] = "putSnapshot"] /\ target' = RollTo(w, entry[w].gen + 1, "collect")
    <3>1. target'[w].then = "collect"
      BY <1>1, <1>2, <2>4, Zenon DEF RollTo
    <3> QED BY <1>3, <1>5, <2>1, <2>4, <3>1, Zenon
  <2> QED BY <1>7, <2>2, <2>3, <2>4, Zenon DEF Apply, Goto
<1>8. CASE RollNow(w)
  <2>1. target'[w].then = "idle"
    BY <1>1, <1>2, <1>8, Zenon DEF RollNow, RollTo
  <2> QED BY <1>3, <1>5, <1>8, <2>1, Zenon DEF RollNow, Goto
<1>9. CASE CollectObsolete(w)
  BY <1>3, <1>5, <1>9, Zenon DEF CollectObsolete, Goto
<1> QED BY <1>3, <1>6, <1>7, <1>8, <1>9, Zenon

LEMMA CrashControl ==
  ASSUME NEW w, Writers = {w}, Inv, Control(w), Crash(w) \/ CrashMidWrite(w)
  PROVE  Control(w)'
<1>1. w \in Procs /\ w \notin Readers /\ \A r \in Readers : r \in Procs /\ r # w
  BY OneWriter, Zenon DEF Procs
<1>2. ProcTypes
  BY InvTypes, Zenon
<1>3. Forget(w, "Ok")
  BY Zenon DEF Crash, CrashMidWrite
<1>4. pc'[w] = "down" /\ entry'[w] = Nowhere /\ \A r \in Readers : pc'[r] = pc[r]
  BY <1>1, <1>2, <1>3, Zenon DEF Forget, Goto, ProcTypes
<1> QED BY <1>4, Zenon DEF Control, Replaying, Rolling, Opened

LEMMA RollControl ==
  ASSUME NEW w, Writers = {w}, ~RereadFails, Inv, Control(w), Roll(w)
  PROVE  Control(w)'
<1>1. w \in Procs /\ w \notin Readers /\ \A r \in Readers : r \in Procs /\ r # w
  BY OneWriter, Zenon DEF Procs
<1>2. ProcTypes
  BY InvTypes, Zenon
<1> USE DEF ProcTypes
<1>3. /\ entry[w] \in Entry /\ pointer \in Entry /\ target[w] \in Target
      /\ pc[w] \in Rolling /\ entry[w].gen < target[w].gen
      /\ target[w].then # "observe" => entry[w] # Nowhere
  <2>1. pc[w] \in Rolling
    BY Zenon DEF Roll, PutSnapshot, Collided, Relist, CompareAndSet, SettleCas, Installed, Rolling
  <2> QED BY <1>1, <1>2, <2>1, Zenon DEF Inv, TypeOK, ProcInv, RollInv
<1>4. \A r \in Readers : pc'[r] = pc[r]
  <2>1. \E c : pc' = [pc EXCEPT ![w] = c]
    BY Zenon DEF Roll, PutSnapshot, Collided, Relist, CompareAndSet, SettleCas, Installed, RollFailed, Goto
  <2> QED BY <1>1, <1>2, <2>1, Zenon
\* a roll that ends, CURRENT where the writer knows it
<1>5. ASSUME RollFailed(w), UNCHANGED <<pointer, entry>>, pointer = entry[w]
      PROVE  Control(w)'
  <2>1. pc'[w] = IF target[w].then = "observe" THEN "down" ELSE target[w].then
    BY <1>1, <1>2, <1>5, Zenon DEF RollFailed, Goto
  <2>2. target[w].then \in {"down", "idle", "collect", "observe"}
    BY <1>3, Zenon DEF Target
  <2>3. target[w].then = "observe" => entry[w] = Nowhere
    BY <1>3, Zenon DEF Control
  <2>4. target[w].then # "down"
    BY <1>3, Zenon DEF Control
  <2> QED BY <1>3, <1>4, <1>5, <2>1, <2>2, <2>3, <2>4, Zenon DEF Control, Replaying, Rolling, Opened
\* a roll that goes on
<1>6. ASSUME NEW c, c \in Rolling, pc' = [pc EXCEPT ![w] = c], target'[w].then = target[w].then,
             UNCHANGED entry,
             \/ pointer' = entry[w] /\ c # "installed"
             \/ pointer' = NextEntry(w) /\ target'[w].gen = target[w].gen /\ c \in {"ambiguous", "installed"}
      PROVE  Control(w)'
  <2>1. pc'[w] = c
    BY <1>1, <1>2, <1>6, Zenon
  <2>2. target[w].then # "down" /\ (target[w].then = "observe" => entry[w] = Nowhere)
    BY <1>3, Zenon DEF Control
  <2>3. target'[w].gen = target[w].gen => NextEntry(w)' = NextEntry(w)
    BY <1>6, Zenon DEF NextEntry
  <2> QED BY <1>4, <1>6, <2>1, <2>2, <2>3, Zenon DEF Control, Replaying, Rolling, Opened
<1>7. CASE PutSnapshot(w)
  <2>1. pointer = entry[w] /\ UNCHANGED <<pointer, entry>>
    BY <1>3, <1>7, Zenon DEF Control, PutSnapshot, PutSnapshotAt, Rolling, catalogVars
  <2>2. CASE RollFailed(w)
    BY <1>5, <2>1, <2>2, Zenon
  <2>3. CASE Goto(w, "collided") /\ UNCHANGED target
    BY <1>6, <2>1, <2>3, Zenon DEF Goto, Rolling
  <2>4. CASE Goto(w, "cas") /\ UNCHANGED target
    BY <1>6, <2>1, <2>4, Zenon DEF Goto, Rolling
  <2> QED BY <1>7, <2>2, <2>3, <2>4, Zenon DEF PutSnapshot
<1>8. CASE Collided(w)
  <2>1. pointer = entry[w] /\ UNCHANGED <<pointer, entry>>
    BY <1>3, <1>8, Zenon DEF Control, Collided, Rolling, catalogVars
  <2>2. CASE RollFailed(w)
    BY <1>5, <2>1, <2>2, Zenon
  <2>3. CASE Goto(w, "relist") /\ UNCHANGED target
    BY <1>6, <2>1, <2>3, Zenon DEF Goto, Rolling
  <2> QED BY <1>8, <2>2, <2>3, Zenon DEF Collided
<1>9. CASE Relist(w)
  <2>1. pointer = entry[w] /\ UNCHANGED <<pointer, entry>>
    BY <1>3, <1>9, Zenon DEF Control, Relist, Rolling, catalogVars
  <2>2. CASE RollFailed(w)
    BY <1>5, <2>1, <2>2, Zenon
  <2>3. ASSUME NEW g, target' = [target EXCEPT ![w].gen = g + 1, ![w].tries = @ + 1], Goto(w, "putSnapshot")
        PROVE  Control(w)'
    <3>1. target'[w].then = target[w].then
      BY <1>1, <1>2, <2>3 DEF Target
    <3> QED BY <1>6, <2>1, <2>3, <3>1, Zenon DEF Goto, Rolling
  <2> QED BY <1>9, <2>2, <2>3, Zenon DEF Relist
<1>10. CASE CompareAndSet(w)
  <2>1. pc[w] = "cas" /\ pointer = entry[w] /\ UNCHANGED entry
    BY <1>3, <1>10, Zenon DEF Control, CompareAndSet, Rolling
  <2>2. MovePointer(w) => pointer' = NextEntry(w)
    BY <2>1, Zenon DEF MovePointer, SetPointer, NextEntry
  <2>3. CASE Goto(w, "installed") /\ MovePointer(w) /\ UNCHANGED target
    BY <1>6, <2>1, <2>2, <2>3, Zenon DEF Goto, Rolling
  <2>4. CASE Goto(w, "ambiguous") /\ UNCHANGED target /\ (MovePointer(w) \/ UNCHANGED catalogVars)
    BY <1>6, <2>1, <2>2, <2>4, Zenon DEF Goto, Rolling, catalogVars
  <2> QED BY <1>10, <2>1, <2>3, <2>4, Zenon DEF CompareAndSet, Expected
<1>11. CASE SettleCas(w)
  <2>1. pc[w] = "ambiguous" /\ pointer \in {entry[w], NextEntry(w)} /\ UNCHANGED <<pointer, entry>>
    BY <1>3, <1>11, Zenon DEF Control, SettleCas, Rolling, catalogVars
  <2>2. NextEntry(w).gen = target[w].gen /\ entry[w].gen \in Nat /\ target[w].gen \in Nat
    BY <1>3, Zenon DEF NextEntry, Entry, Target
  <2>3. CASE pointer.gen = target[w].gen /\ Goto(w, "installed") /\ UNCHANGED target
    <3>1. pointer = NextEntry(w)
      BY <1>3, <2>1, <2>2, <2>3
    <3> QED BY <1>6, <2>1, <2>3, <3>1, Zenon DEF Goto, Rolling
  <2>4. CASE pointer.gen # target[w].gen /\ RollFailed(w)
    <3>1. pointer = entry[w]
      BY <2>1, <2>2, <2>4, Zenon
    <3> QED BY <1>5, <2>1, <2>4, <3>1, Zenon
  <2> QED BY <1>11, <2>3, <2>4, Zenon DEF SettleCas
<1>12. CASE Installed(w)
  <2>1. pc[w] = "installed" /\ pointer = NextEntry(w) /\ UNCHANGED pointer
    BY <1>3, <1>12, Zenon DEF Control, Installed, DeleteGeneration, DeletePartOf, Rolling, catalogVars
  <2>2. entry'[w] = NextEntry(w) /\ pc'[w] = target[w].then
    BY <1>1, <1>2, <1>12, Zenon DEF Installed, Goto, NextEntry
  <2>3. target[w].then \in {"idle", "collect", "observe"}
    <3>1. target[w].then # "down"
      BY <1>3, Zenon DEF Control
    <3> QED BY <1>3, <3>1, Zenon DEF Target
  <2> QED BY <1>4, <2>1, <2>2, <2>3, Zenon DEF Control, Replaying, Rolling, Opened
<1> QED BY <1>7, <1>8, <1>9, <1>10, <1>11, <1>12, Zenon DEF Roll

\* what the writer can do
WriterSteps(w) ==
    \/ Open(w) \/ ReadPointer(w) \/ GetSnapshot(w) \/ ListEditsOf(w) \/ GetEdit(w) \/ Reread(w)
    \/ RecoverIo(w) \/ Confirm(w) \/ VerifyStores(w) \/ ObserveAfterCreate(w)
    \/ PutObject(w) \/ Apply(w) \/ RollNow(w) \/ Roll(w) \/ CollectObsolete(w) \/ Pin(w) \/ Unpin(w)
    \/ Crash(w) \/ CrashMidWrite(w)

LEMMA WhoSteps ==
  ASSUME NEW w, Writers = {w}, Inv, Control(w), [Next]_vars
  PROVE  \/ Tick \/ UNCHANGED vars
         \/ \E r \in Readers : Recover(r) \/ Read(r) \/ Crash(r)
         \/ WriterSteps(w)
<1>1. w \in Procs /\ w \notin Readers /\ \A p \in Procs : p = w \/ p \in Readers
  BY OneWriter, Zenon
<1>2. ASSUME NEW r \in Readers PROVE ~Roll(r)
  <2>1. pc[r] \notin Rolling
    BY <1>2, Zenon DEF Control
  <2> QED BY <2>1, Zenon DEF Roll, PutSnapshot, Collided, Relist, CompareAndSet, SettleCas, Installed, Rolling
<1>3. ASSUME NEW r \in Readers
      PROVE  ~(PutObject(r) \/ Apply(r) \/ RollNow(r) \/ CollectObsolete(r) \/ CrashMidWrite(r))
  <2>1. r \notin Writers
    BY <1>1, <1>3, Zenon
  <2> QED BY <2>1, Zenon DEF PutObject, Apply, RollNow, CollectObsolete, CrashMidWrite
<1>4. ~Refresh(w) /\ ~ReadMissing(w) /\ ~AdvancedPointer(w) /\ ~AdvancedList(w)
  BY <1>1, Zenon DEF Control, Refresh, ReadMissing, AdvancedPointer, AdvancedList
<1>5. Recover(w) \/ Read(w) => WriterSteps(w)
  BY <1>4, Zenon DEF Recover, Read, WriterSteps
<1> QED BY <1>1, <1>2, <1>3, <1>5, Zenon DEF Next, WriterSteps

\* CURRENT is the writer's entry_ except between a compare-and-set that moved it
\* and the end of that roll.
LEMMA ControlNext ==
  ASSUME NEW w, Writers = {w}, ~UnreadableIsEmpty, ~RereadFails, Inv, Control(w), [Next]_vars
  PROVE  Control(w)'
<1>1. w \in Procs /\ w \notin Readers /\ Readers \subseteq Procs
  BY OneWriter, Zenon DEF Procs
<1>2. ASSUME Elsewhere(w), \A r \in Readers : pc'[r] \notin Rolling PROVE Control(w)'
  <2>1. ListEdits(pointer.gen)' = ListEdits(pointer.gen) /\ NextEntry(w)' = NextEntry(w)
    BY <1>2, Zenon DEF ListEdits, NextEntry, Elsewhere, Same
  <2> QED BY <1>2, <2>1, Zenon DEF Control, Elsewhere, Same
<1>3. CASE Tick \/ UNCHANGED vars
  <2>1. Elsewhere(w)
    BY <1>3, Zenon DEF Tick, vars, Elsewhere, Same, catalogVars, instanceVars, localVars, historyVars
  <2>2. pc' = pc
    BY <1>3, Zenon DEF Tick, vars
  <2> QED BY <1>2, <2>1, <2>2, Zenon DEF Control
<1>4. ASSUME NEW r \in Readers, Recover(r) \/ Read(r) \/ Crash(r) PROVE Control(w)'
  <2>1. Elsewhere(w) /\ pc'[r] \notin Rolling /\ \A q \in Procs \ {r} : pc'[q] = pc[q]
    BY <1>4, ReaderElsewhere, Zenon
  <2> QED BY <1>1, <1>2, <2>1, Zenon DEF Control
<1>5. CASE WriterSteps(w)
  BY <1>5, RecoverControl, OpenControl, ServeControl, CrashControl, RollControl, Zenon DEF WriterSteps
<1> QED BY <1>3, <1>4, <1>5, WhoSteps, Zenon

-----------------------------------------------------------------------------
(* What a step does to the manifest. *)

\* the history and the addresses it is kept at only grow; the live generation
\* keeps its edits, and gets a new one only at an address that was free
Grows ==
    /\ DOMAIN at \subseteq DOMAIN at' /\ \A a \in DOMAIN at : at'[a] = at[a]
    /\ Len(log) <= Len(log') /\ \A i \in 1..Len(log) : log'[i] = log[i]
    /\ pointer' = pointer => \A a \in DOMAIN edits : a[1] = pointer.gen => a \in DOMAIN edits'
    /\ pointer' = pointer => \A a \in DOMAIN at' \ DOMAIN at : a \notin DOMAIN edits
    /\ pointer' # pointer => pointer'.gen > pointer.gen

LEMMA StillGrows ==
  ASSUME Inv, Chain, UNCHANGED <<pointer, edits, log, at>> PROVE Grows /\ Chain'
<1>1. Len(log) \in Nat
  BY DEF Inv, TypeOK
<1> QED BY <1>1 DEF Grows, Chain

\* the addresses of the live generation
LEMMA LiveAddress ==
  ASSUME Inv, NEW a \in DOMAIN at
  PROVE  /\ a = <<a[1], a[2]>> /\ a[1] \in Nat /\ a[2] \in Nat /\ at[a] \in 1..Len(log)
         /\ a[1] <= pointer.gen
  BY DEF Inv, TypeOK, CatalogInv

LEMMA LiveEdit ==
  ASSUME Inv, NEW a \in DOMAIN at, a[1] = pointer.gen, a[2] # 0 PROVE a \in DOMAIN edits
<1>1. a = <<pointer.gen, a[2]>> /\ a[2] \in Nat \ {0}
  BY LiveAddress, Zenon
<1>2. \A k \in Nat \ {0} : <<pointer.gen, k>> \in DOMAIN at => <<pointer.gen, k>> \in DOMAIN edits
  BY Zenon DEF Inv, CatalogInv
<1> QED BY <1>1, <1>2, Zenon

LEMMA Numeric ==
  ASSUME NEW p \in Procs, Inv
  PROVE  /\ entry[p] \in Entry /\ entry[p].gen \in Nat /\ entry[p].token \in Nat /\ seq[p] \in Nat \ {0}
         /\ pointer \in Entry /\ pointer.gen \in Nat /\ pointer.token \in Nat
         /\ target[p] \in Target /\ target[p].gen \in Nat /\ target[p].next \in Nat \ {0}
         /\ log \in Seq(SUBSET Nat) /\ Len(log) \in Nat /\ version[p] \in SUBSET Nat
<1>1. /\ entry[p] \in Entry /\ pointer \in Entry /\ target[p] \in Target /\ log \in Seq(SUBSET Nat)
      /\ seq[p] \in Nat \ {0} /\ version[p] \in SUBSET Nat
  BY Zenon DEF Inv, TypeOK
<1> QED BY <1>1 DEF Entry, Target

\* a writer that is open and not in a roll
LEMMA WriterAtHome ==
  ASSUME NEW w, Writers = {w}, Inv, Control(w), pc[w] \in {"verify", "observe", "idle", "collect"}
  PROVE  /\ pointer = entry[w] /\ entry[w] # Nowhere /\ pointer.gen # 0
         /\ <<pointer.gen, seq[w] - 1>> \in DOMAIN at /\ version[w] = log[at[<<pointer.gen, seq[w] - 1>>]]
<1>1. w \in Procs /\ pc[w] \in Opened
  BY OneWriter, Zenon DEF Opened
<1>2. pointer = entry[w]
  BY <1>1, Zenon DEF Control
<1>3. ServingInv(w)
  BY <1>1, Zenon DEF Inv, ProcInv
<1> QED BY <1>1, <1>2, <1>3, Zenon DEF ServingInv, Standing

\* a writer in a roll that has not moved CURRENT
LEMMA WriterInRoll ==
  ASSUME NEW w, Writers = {w}, Inv, Control(w), pc[w] \in {"putSnapshot", "collided", "relist", "cas"}
  PROVE  pointer = entry[w] /\ pointer.gen < target[w].gen
<1>1. w \in Procs /\ pc[w] \in Rolling /\ pc[w] \notin {"ambiguous", "installed"}
  BY OneWriter, Zenon DEF Rolling
<1>2. pointer = entry[w]
  BY <1>1, Zenon DEF Control
<1>3. RollInv(w)
  BY <1>1, Zenon DEF Inv, ProcInv
<1> QED BY <1>1, <1>2, <1>3, Zenon DEF RollInv

LEMMA LandGrows ==
  ASSUME NEW w, Writers = {w}, Inv, Control(w), Chain, pc[w] = "idle", NEW e, ~e.torn,
         <<entry[w].gen, seq[w]>> \notin DOMAIN edits, Land(w, e)
  PROVE  Grows /\ Chain'
<1>1. w \in Procs
  BY OneWriter, Zenon
<1>2. /\ pointer = entry[w] /\ entry[w] # Nowhere /\ entry[w].gen \in Nat /\ seq[w] \in Nat \ {0}
      /\ Len(log) \in Nat
  BY <1>1, Numeric, WriterAtHome, Zenon
<1>3. PICK g \in Nat, s \in Nat \ {0}, n \in Nat :
        g = pointer.gen /\ g = entry[w].gen /\ s = seq[w] /\ n = Len(log)
  BY <1>2, Zenon
<1>4. PICK v : /\ edits' = With(edits, <<g, s>>, e) /\ log' = Append(log, v)
               /\ at' = With(at, <<g, s>>, n + 1) /\ pointer' = pointer
  BY <1>3, Zenon DEF Land, PutEdit
<1>5. <<g, s>> \notin DOMAIN edits /\ <<g, s>> \notin DOMAIN at /\ <<g, s - 1>> \in DOMAIN at
  <2>1. <<g, s>> \notin DOMAIN edits /\ <<g, s - 1>> \in DOMAIN at
    BY <1>1, <1>2, <1>3, Zenon DEF Inv, ProcInv, ServingInv
  <2>2. \A k \in Nat \ {0} : <<g, k>> \in DOMAIN at => <<g, k>> \in DOMAIN edits
    BY <1>3, Zenon DEF Inv, CatalogInv
  <2> QED BY <2>1, <2>2, Zenon
<1>6. /\ DOMAIN edits' = DOMAIN edits \cup {<<g, s>>} /\ edits'[<<g, s>>] = e
      /\ \A a \in DOMAIN edits : edits'[a] = edits[a]
  BY <1>4, <1>5, Zenon DEF With
<1>7. /\ DOMAIN at' = DOMAIN at \cup {<<g, s>>} /\ at'[<<g, s>>] = n + 1
      /\ \A a \in DOMAIN at : at'[a] = at[a]
  BY <1>4, <1>5, Zenon DEF With
<1>8. Len(log') = n + 1 /\ \A i \in 1..n : log'[i] = log[i]
  BY <1>3, <1>4 DEF Inv, TypeOK
<1>9. Grows
  <2>1. \A a \in DOMAIN at' \ DOMAIN at : a \notin DOMAIN edits
    BY <1>5, <1>7, Zenon
  <2>2. Len(log) <= Len(log') /\ \A i \in 1..Len(log) : log'[i] = log[i]
    BY <1>3, <1>8
  <2>3. DOMAIN at \subseteq DOMAIN at' /\ DOMAIN edits \subseteq DOMAIN edits'
    BY <1>6, <1>7, Zenon
  <2> QED BY <1>4, <1>7, <2>1, <2>2, <2>3, Zenon DEF Grows
<1>10. Chain'
  <2>1. \A a \in DOMAIN at : a[1] = g => \A j \in 0..a[2] : <<g, j>> \in DOMAIN at /\ at[<<g, j>>] <= at[a]
    BY <1>3, Zenon DEF Chain
  <2>2. ASSUME NEW a \in DOMAIN at', a[1] = g, NEW j \in 0..a[2]
        PROVE  <<g, j>> \in DOMAIN at' /\ at'[<<g, j>>] <= at'[a]
    <3>1. CASE a \in DOMAIN at
      BY <1>7, <2>1, <2>2, <3>1, Zenon
    <3>2. CASE a = <<g, s>>
      <4>1. CASE j = s
        BY <1>7, <3>2, <4>1
      <4>2. CASE j # s
        <5>1. j \in 0..(s - 1) /\ <<g, s - 1>>[1] = g /\ <<g, s - 1>>[2] = s - 1
          BY <2>2, <3>2, <4>2
        <5>2. <<g, j>> \in DOMAIN at
          BY <1>5, <2>1, <5>1, Zenon
        <5>3. at[<<g, j>>] \in 1..n
          BY <1>3, <5>2, LiveAddress, Zenon
        <5> QED BY <1>7, <3>2, <5>2, <5>3
      <4> QED BY <4>1, <4>2, Zenon
    <3> QED BY <1>7, <3>1, <3>2, Zenon
  <2>3. ASSUME NEW a \in DOMAIN at', a[1] = g, a[2] # 0 PROVE ~edits'[a].torn
    <3>1. CASE a \in DOMAIN at
      <4>1. a \in DOMAIN edits
        BY <1>3, <2>3, <3>1, LiveEdit, Zenon
      <4> QED BY <1>3, <1>6, <2>3, <3>1, <4>1, Zenon DEF Chain
    <3>2. CASE a = <<g, s>>
      BY <1>6, <3>2, Zenon
    <3> QED BY <1>7, <3>1, <3>2, Zenon
  <2>4. ASSUME NEW a \in DOMAIN edits', a[1] = g PROVE a[2] # 0 /\ <<g, a[2] - 1>> \in DOMAIN at'
    <3>1. CASE a \in DOMAIN edits
      BY <1>3, <1>7, <2>4, <3>1, Zenon DEF Chain
    <3>2. CASE a = <<g, s>>
      BY <1>5, <1>7, <3>2, Zenon
    <3> QED BY <1>6, <3>1, <3>2, Zenon
  <2>5. pointer'.gen = g /\ pointer' # Nowhere
    BY <1>2, <1>3, <1>4, Zenon
  <2> QED BY <2>2, <2>3, <2>4, <2>5, Zenon DEF Chain
<1> QED BY <1>9, <1>10, Zenon

LEMMA TornGrows ==
  ASSUME NEW w, Writers = {w}, Inv, Control(w), Chain, pc[w] = "idle",
         <<entry[w].gen, seq[w]>> \notin DOMAIN edits,
         PutEdit(entry[w].gen, seq[w], TornEdit), UNCHANGED <<log, at>>
  PROVE  Grows /\ Chain'
<1>1. w \in Procs
  BY OneWriter, Zenon
<1>2. /\ pointer = entry[w] /\ entry[w] # Nowhere /\ entry[w].gen \in Nat /\ seq[w] \in Nat \ {0}
      /\ Len(log) \in Nat
  BY <1>1, Numeric, WriterAtHome, Zenon
<1>3. PICK g \in Nat, s \in Nat \ {0} : g = pointer.gen /\ g = entry[w].gen /\ s = seq[w]
  BY <1>2, Zenon
<1>4. edits' = With(edits, <<g, s>>, TornEdit) /\ pointer' = pointer
  BY <1>3, Zenon DEF PutEdit
<1>5. <<g, s>> \notin DOMAIN edits /\ <<g, s - 1>> \in DOMAIN at
  BY <1>1, <1>2, <1>3, Zenon DEF Inv, ProcInv, ServingInv
<1>6. DOMAIN edits' = DOMAIN edits \cup {<<g, s>>} /\ \A a \in DOMAIN edits : edits'[a] = edits[a]
  BY <1>4, <1>5, Zenon DEF With
<1>7. Grows
  BY <1>2, <1>4, <1>6 DEF Grows
<1>8. Chain'
  <2>1. ASSUME NEW a \in DOMAIN at, a[1] = g, a[2] # 0 PROVE ~edits'[a].torn
    <3>1. a \in DOMAIN edits
      BY <1>3, <2>1, LiveEdit, Zenon
    <3> QED BY <1>3, <1>6, <2>1, <3>1, Zenon DEF Chain
  <2>2. ASSUME NEW a \in DOMAIN edits', a[1] = g PROVE a[2] # 0 /\ <<g, a[2] - 1>> \in DOMAIN at
    <3>1. CASE a \in DOMAIN edits
      BY <1>3, <2>2, <3>1, Zenon DEF Chain
    <3>2. CASE a = <<g, s>>
      BY <1>5, <3>2, Zenon
    <3> QED BY <1>6, <3>1, <3>2, Zenon
  <2> QED BY <1>2, <1>3, <1>4, <2>1, <2>2, Zenon DEF Chain
<1> QED BY <1>7, <1>8, Zenon

LEMMA MoveGrows ==
  ASSUME NEW w, Writers = {w}, Inv, Control(w), Chain, pc[w] = "cas", MovePointer(w)
  PROVE  Grows /\ Chain'
<1>1. w \in Procs
  BY OneWriter, Zenon
<1>2. /\ pointer = entry[w] /\ pointer.gen \in Nat /\ target[w].gen \in Nat /\ pointer.gen < target[w].gen
      /\ log \in Seq(SUBSET Nat) /\ Len(log) \in Nat
  BY <1>1, Numeric, WriterInRoll, Zenon
<1>3. PICK g \in Nat, h \in Nat : g = pointer.gen /\ h = target[w].gen /\ g < h
  BY <1>2, Zenon
<1>4. /\ pointer' # pointer /\ pointer'.gen = h /\ edits' = edits
      /\ pointer' # Nowhere
  BY <1>2, <1>3, NoEntryYet DEF MovePointer, SetPointer
<1>5. PICK n : at' = With(at, <<h, 0>>, n) /\ n \in Nat
  <2>1. CASE entry[w] = Nowhere
    <3>1. at' = With(at, <<h, 0>>, Len(log) + 1) /\ Len(log) + 1 \in Nat
      BY <1>2, <1>3, <2>1 DEF MovePointer
    <3> QED BY <3>1, Zenon
  <2>2. CASE entry[w] # Nowhere
    <3>1. Standing(w) \in Nat
      BY <1>1, <2>2, Zenon DEF Standing, Inv, TypeOK, ProcInv, ServingInv
    <3>2. at' = With(at, <<h, 0>>, Standing(w))
      BY <1>3, <2>2, Zenon DEF MovePointer
    <3> QED BY <3>1, <3>2, Zenon
  <2> QED BY <2>1, <2>2, Zenon
<1>6. \A a \in DOMAIN at : a[1] # h
  BY <1>3, LiveAddress
<1>7. /\ DOMAIN at' = DOMAIN at \cup {<<h, 0>>} /\ at'[<<h, 0>>] = n
      /\ \A a \in DOMAIN at : at'[a] = at[a]
  BY <1>5, <1>6 DEF With
<1>8. Len(log) <= Len(log') /\ \A i \in 1..Len(log) : log'[i] = log[i]
  BY <1>2 DEF MovePointer
<1>9. \A a \in DOMAIN edits : a[1] # h
  BY <1>3 DEF Inv, TypeOK, CatalogInv
<1>10. Grows
  BY <1>3, <1>4, <1>7, <1>8, Zenon DEF Grows
<1>11. Chain'
  <2>1. ASSUME NEW a \in DOMAIN at', a[1] = h PROVE a = <<h, 0>>
    BY <1>6, <1>7, <2>1, Zenon
  <2>2. ASSUME NEW a \in DOMAIN at', a[1] = h, NEW j \in 0..a[2]
        PROVE  <<h, j>> \in DOMAIN at' /\ at'[<<h, j>>] <= at'[a]
    <3>1. a = <<h, 0>> /\ j = 0
      BY <2>1, <2>2
    <3> QED BY <1>5, <1>7, <3>1
  <2> QED BY <1>4, <1>9, <2>1, <2>2 DEF Chain
<1> QED BY <1>10, <1>11, Zenon

\* an older generation is deleted, or part of it
LEMMA DeleteGrows ==
  ASSUME Inv, Chain, NEW h, h # pointer.gen, DeleteGeneration(h) \/ DeletePartOf(h), UNCHANGED <<log, at>>
  PROVE  Grows /\ Chain'
<1>1. PICK A : A \subseteq {a \in DOMAIN edits : a[1] = h} /\ edits' = Without(edits, A) /\ pointer' = pointer
  BY Zenon DEF DeleteGeneration, DeletePartOf
<1>2. /\ DOMAIN edits' \subseteq DOMAIN edits
      /\ \A a \in DOMAIN edits : a[1] = pointer.gen => a \in DOMAIN edits' /\ edits'[a] = edits[a]
  BY <1>1, Zenon DEF Without
<1>3. Len(log) \in Nat
  BY DEF Inv, TypeOK
<1>4. Grows
  BY <1>1, <1>2, <1>3 DEF Grows
<1>5. Chain'
  <2>1. ASSUME NEW a \in DOMAIN at, a[1] = pointer.gen, a[2] # 0 PROVE ~edits'[a].torn
    <3>1. a \in DOMAIN edits
      BY <2>1, LiveEdit, Zenon
    <3> QED BY <1>2, <2>1, <3>1, Zenon DEF Chain
  <2> QED BY <1>1, <1>2, <2>1, Zenon DEF Chain
<1> QED BY <1>4, <1>5, Zenon

\* Every step of the system, for the history and the live generation.
LEMMA ManifestGrows ==
  ASSUME NEW w, Writers = {w}, Inv, Control(w), Chain, [Next]_vars
  PROVE  Grows /\ Chain'
<1>1. w \in Procs /\ w \notin Readers /\ \A p \in Procs : p = w \/ p \in Readers
  BY OneWriter, Zenon
<1>2. CASE Tick \/ UNCHANGED vars
  BY <1>2, StillGrows, Zenon DEF Tick, vars, catalogVars, historyVars
<1>3. ASSUME NEW r \in Readers, Recover(r) \/ Read(r) \/ Crash(r)
      PROVE  Grows /\ Chain'
  BY <1>3, ReaderElsewhere, StillGrows, Zenon DEF Elsewhere
<1>4. CASE \/ Open(w) \/ ReadPointer(w) \/ GetSnapshot(w) \/ ListEditsOf(w) \/ GetEdit(w) \/ Reread(w)
           \/ RecoverIo(w) \/ Confirm(w) \/ VerifyStores(w) \/ ObserveAfterCreate(w)
           \/ Pin(w) \/ Unpin(w) \/ Crash(w) \/ PutObject(w) \/ RollNow(w) \/ CollectObsolete(w)
  <2>1. UNCHANGED <<pointer, edits, log, at>>
    BY <1>4, Zenon DEF Open, ReadPointer, GetSnapshot, ListEditsOf, GetEdit, Reread, RecoverIo,
       Confirm, VerifyStores, ObserveAfterCreate, Pin, Unpin, Crash, PutObject, RollNow, CollectObsolete,
       RecoverFrame, catalogVars, historyVars
  <2> QED BY <2>1, StillGrows, Zenon
<1>5. CASE Apply(w)
  <2>1. PICK e \in EditsOf(w) :
          \/ UNCHANGED <<catalogVars, log, at>>
          \/ ~Occupied(edits, <<entry[w].gen, seq[w]>>) /\ Land(w, e)
    BY <1>5, Zenon DEF Apply
  <2>2. ~e.torn /\ pc[w] = "idle"
    BY <1>1, <1>5, EditsAreWhole, Zenon DEF Inv, Apply
  <2> QED BY <2>1, <2>2, StillGrows, LandGrows, Zenon DEF Occupied, catalogVars
<1>6. CASE CrashMidWrite(w)
  <2>1. UNCHANGED <<log, at>>
    BY <1>6, Zenon DEF CrashMidWrite
  <2>2. CASE /\ pc[w] = "idle" /\ ~Occupied(edits, <<entry[w].gen, seq[w]>>)
             /\ PutEdit(entry[w].gen, seq[w], TornEdit)
    BY <2>1, <2>2, TornGrows, Zenon DEF Occupied
  <2>3. CASE PutSnapshotAt(target[w].gen, TornSnapshot)
    BY <2>1, <2>3, StillGrows, Zenon DEF PutSnapshotAt
  <2> QED BY <1>6, <2>2, <2>3, Zenon DEF CrashMidWrite
<1>7. CASE PutSnapshot(w) \/ Collided(w) \/ Relist(w) \/ SettleCas(w)
  <2>1. UNCHANGED <<pointer, edits, log, at>>
    BY <1>7, Zenon DEF PutSnapshot, PutSnapshotAt, Collided, Relist, SettleCas, catalogVars
  <2> QED BY <2>1, StillGrows, Zenon
<1>8. CASE CompareAndSet(w)
  <2>1. CASE MovePointer(w)
    BY <1>8, <2>1, MoveGrows, Zenon DEF CompareAndSet
  <2>2. CASE UNCHANGED <<catalogVars, log, at>>
    BY <2>2, StillGrows, Zenon DEF catalogVars
  <2> QED BY <1>8, <2>1, <2>2, Zenon DEF CompareAndSet
<1>9. CASE Installed(w)
  <2>1. UNCHANGED <<log, at>> /\ pc[w] = "installed"
    BY <1>9, Zenon DEF Installed
  <2>2. entry[w].gen # pointer.gen
    <3>1. pointer.gen = target[w].gen
      BY <2>1 DEF Control, NextEntry
    <3>2. entry[w].gen < target[w].gen
      BY <1>1, <2>1, Zenon DEF Inv, ProcInv, RollInv, Rolling
    <3> QED BY <1>1, <3>1, <3>2, Numeric
  <2>3. CASE DeleteGeneration(Previous(w)) \/ DeletePartOf(Previous(w))
    BY <2>1, <2>2, <2>3, DeleteGrows, Zenon DEF Previous
  <2>4. CASE UNCHANGED catalogVars
    BY <2>1, <2>4, StillGrows, Zenon DEF catalogVars
  <2> QED BY <1>9, <2>3, <2>4, Zenon DEF Installed
<1> QED BY <1>2, <1>3, <1>4, <1>5, <1>6, <1>7, <1>8, <1>9, WhoSteps, Zenon DEF WriterSteps, Roll

-----------------------------------------------------------------------------
(* What a process replays, and what it serves. *)

\* process p's variables are the only ones to change
Moves(p) ==
    /\ pc' = pc \/ \E x : pc' = [pc EXCEPT ![p] = x]
    /\ entry' = entry \/ \E x : entry' = [entry EXCEPT ![p] = x]
    /\ seq' = seq \/ \E x : seq' = [seq EXCEPT ![p] = x]
    /\ version' = version \/ \E x : version' = [version EXCEPT ![p] = x]
    /\ load' = load \/ \E x : load' = [load EXCEPT ![p] = x]
    /\ target' = target \/ \E x : target' = [target EXCEPT ![p] = x]
    /\ asOf' = asOf \/ \E x : asOf' = [asOf EXCEPT ![p] = x]

LEMMA OthersStay ==
  ASSUME NEW p \in Procs, Inv, Moves(p), NEW q \in Procs \ {p}
  PROVE  Same(q) /\ asOf'[q] = asOf[q]
<1>1. ProcTypes
  BY InvTypes, Zenon
<1> QED BY <1>1 DEF Moves, Same, ProcTypes

LEMMA RecoverMoves ==
  ASSUME NEW p \in Procs, Recover(p) \/ Read(p) \/ Crash(p) PROVE Moves(p)
<1>1. CASE Open(p) \/ Refresh(p) \/ ReadPointer(p)
  BY <1>1, Zenon DEF Open, Refresh, ReadPointer, RollTo, Fail, Goto, Moves, instanceVars, historyVars
<1>2. CASE GetSnapshot(p) \/ ListEditsOf(p) \/ GetEdit(p)
  BY <1>2, Zenon DEF GetSnapshot, ListEditsOf, GetEdit, RecoverFrame, Fail, Goto, Moves, instanceVars, historyVars
<1>3. CASE Reread(p) \/ RecoverIo(p) \/ Confirm(p)
  BY <1>3, Zenon DEF Reread, RecoverIo, Confirm, RecoverFrame, Retry, Fail, Goto, Moves, instanceVars, historyVars
<1>4. CASE VerifyStores(p) \/ ObserveAfterCreate(p) \/ Crash(p)
  BY <1>4, Zenon DEF VerifyStores, ObserveAfterCreate, Crash, Forget, Goto, Moves, localVars, historyVars
<1>5. CASE Read(p)
  BY <1>5, Zenon DEF Read, Pin, Unpin, ReadMissing, AdvancedPointer, AdvancedList, AnswerStale, Forget, Goto, Moves,
     instanceVars, localVars, historyVars
<1> QED BY <1>1, <1>2, <1>3, <1>4, <1>5, Zenon DEF Recover

LEMMA CommitMoves ==
  ASSUME NEW p \in Procs, PutObject(p) \/ Apply(p) \/ RollNow(p) \/ Roll(p) \/ CollectObsolete(p) \/ CrashMidWrite(p)
  PROVE  Moves(p)
<1>1. CASE PutObject(p) \/ RollNow(p) \/ CollectObsolete(p) \/ CrashMidWrite(p)
  BY <1>1, Zenon DEF PutObject, RollNow, RollTo, CollectObsolete, CrashMidWrite, Forget, Goto, Moves, instanceVars,
     localVars, historyVars
<1>2. CASE Apply(p)
  BY <1>2, Zenon DEF Apply, RollTo, Goto, Moves
<1>3. CASE PutSnapshot(p) \/ Collided(p) \/ Relist(p)
  BY <1>3, Zenon DEF PutSnapshot, Collided, Relist, RollFailed, RollFrame, Goto, Moves
<1>4. CASE CompareAndSet(p) \/ SettleCas(p) \/ Installed(p)
  BY <1>4, Zenon DEF CompareAndSet, SettleCas, Installed, RollFailed, RollFrame, Goto, Moves
<1> QED BY <1>1, <1>2, <1>3, <1>4, Zenon DEF Roll

LEMMA WriterMoves ==
  ASSUME NEW w, Writers = {w}, WriterSteps(w) PROVE w \in Procs /\ Moves(w)
<1>1. w \in Procs
  BY OneWriter, Zenon
<1>2. CASE Recover(w) \/ Read(w) \/ Crash(w)
  BY <1>1, <1>2, RecoverMoves, Zenon
<1> QED BY <1>1, <1>2, CommitMoves, Zenon DEF WriterSteps, Recover, Read

\* A process that is left alone keeps its place in the live generation.
LEMMA ListingStays ==
  ASSUME NEW q \in Procs, Inv, Grows, Listing(q), Same(q) PROVE Listing(q)'
<1>1. SUFFICES ASSUME pc[q] \in {"replay", "confirm"}, load[q].entry.gen = pointer'.gen PROVE Listing(q)'
  BY Zenon DEF Listing, Same
<1>2. load[q] \in Attempt /\ load[q].entry.gen \in Nat /\ pointer.gen \in Nat
  BY Zenon DEF Inv, TypeOK, Attempt, Entry
<1>3. pointer' = pointer
  <2>1. <<load[q].entry.gen, load[q].seq - 1>> \in DOMAIN at
    BY <1>1, Zenon DEF Inv, ProcInv, ReplayInv, Replaying
  <2>2. <<load[q].entry.gen, load[q].seq - 1>>[1] <= pointer.gen
    BY <2>1, LiveAddress, Zenon
  <2>3. load[q].entry.gen <= pointer.gen
    BY <2>2, Zenon
  <2> QED BY <1>1, <1>2, <2>3 DEF Grows
<1>4. /\ \A k \in load[q].listed : <<pointer.gen, k>> \in DOMAIN edits
      /\ load[q].seq = 1 \/ load[q].seq - 1 \in load[q].listed
      /\ pc[q] = "confirm" => \/ load[q].seq \notin load[q].listed
                              \/ <<pointer.gen, load[q].seq>> \notin DOMAIN at
  BY <1>1, <1>3, Zenon DEF Listing
<1>5. \A k \in load[q].listed : <<pointer.gen, k>> \in DOMAIN edits'
  BY <1>3, <1>4, Zenon DEF Grows
<1>6. ASSUME load[q].seq \in load[q].listed, <<pointer.gen, load[q].seq>> \notin DOMAIN at
      PROVE  <<pointer.gen, load[q].seq>> \notin DOMAIN at'
  BY <1>3, <1>4, <1>6, Zenon DEF Grows
<1> QED BY <1>3, <1>4, <1>5, <1>6, Zenon DEF Listing, Same

LEMMA ListEditsListing ==
  ASSUME NEW p \in Procs, Inv, ~UnreadableIsEmpty, ListEditsOf(p) PROVE Listing(p)'
<1>1. load \in [Procs -> Attempt] /\ pc \in [Procs -> Stages] /\ load[p].seq = 1
  BY Zenon DEF ListEditsOf, Inv, TypeOK, ProcInv, ReplayInv
<1>2. /\ load' = [load EXCEPT ![p].listed = ListEdits(load[p].entry.gen), ![p].since = now]
      /\ pc' = [pc EXCEPT ![p] = "replay"] /\ UNCHANGED <<pointer, edits>>
  BY Zenon DEF ListEditsOf, Goto, RecoverFrame, catalogVars
<1>3. /\ load'[p].listed = ListEdits(load[p].entry.gen) /\ load'[p].entry = load[p].entry
      /\ load'[p].seq = 1 /\ pc'[p] = "replay"
  BY <1>1, <1>2, Zenon DEF Attempt
<1>4. \A k \in ListEdits(load[p].entry.gen) : <<load[p].entry.gen, k>> \in DOMAIN edits
  <2>1. SUFFICES ASSUME NEW k \in ListEdits(load[p].entry.gen) PROVE <<load[p].entry.gen, k>> \in DOMAIN edits
    BY Zenon
  <2>2. PICK a \in DOMAIN edits : a[1] = load[p].entry.gen /\ k = a[2]
    BY Zenon DEF ListEdits
  <2>3. a = <<a[1], a[2]>>
    BY DEF Inv, TypeOK
  <2> QED BY <2>2, <2>3, Zenon
<1> QED BY <1>2, <1>3, <1>4, Zenon DEF Listing

LEMMA GetEditListing ==
  ASSUME NEW p \in Procs, Inv, Chain, Listing(p), GetEdit(p) PROVE Listing(p)'
<1> DEFINE s == load[p].seq
           g == load[p].entry.gen
<1>1. /\ load \in [Procs -> Attempt] /\ pc \in [Procs -> Stages] /\ pc[p] = "replay"
      /\ s \in Nat \ {0} /\ UNCHANGED <<pointer, edits, at>>
  BY Zenon DEF GetEdit, RecoverFrame, catalogVars, historyVars, Inv, TypeOK, Attempt
<1>2. ASSUME pc'[p] \notin {"replay", "confirm"} PROVE Listing(p)'
  BY <1>2, Zenon DEF Listing
<1>4. CASE Goto(p, "confirm") /\ load' = load /\ (~Listed(p, s) \/ (<<g, s>> \in DOMAIN edits => edits[<<g, s>>].torn))
  <2>1. pc'[p] = "confirm" /\ load'[p] = load[p]
    BY <1>1, <1>4, Zenon DEF Goto
  <2>2. ASSUME g = pointer.gen, <<g, s>> \in DOMAIN at PROVE <<g, s>> \in DOMAIN edits /\ ~edits[<<g, s>>].torn
    <3>1. <<g, s>>[1] = pointer.gen /\ <<g, s>>[2] # 0
      BY <1>1, <2>2, Zenon
    <3> QED BY <2>2, <3>1, LiveEdit, Zenon DEF Chain
  <2> QED BY <1>1, <1>4, <2>1, <2>2, Zenon DEF Listing, Listed
<1>5. ASSUME NEW F, NEW N, Listed(p, s), pc' = pc,
             load' = [load EXCEPT ![p].files = F, ![p].next = N, ![p].seq = s + 1]
      PROVE  Listing(p)'
  <2>1. load'[p].entry = load[p].entry /\ load'[p].listed = load[p].listed /\ load'[p].seq = s + 1 /\ pc'[p] = "replay"
    BY <1>1, <1>5, Zenon DEF Attempt
  <2> QED BY <1>1, <1>5, <2>1 DEF Listing, Listed
<1>6. CASE Fail(p, "Corrupt")
  <2>1. pc'[p] \in {"down", "idle"}
    BY <1>1, <1>6, Zenon DEF Fail, Goto
  <2> QED BY <1>2, <2>1, Zenon
<1>7. CASE Goto(p, "missing")
  <2>1. pc'[p] = "missing"
    BY <1>1, <1>7, Zenon DEF Goto
  <2> QED BY <1>2, <2>1, Zenon
<1> QED BY <1>4, <1>5, <1>6, <1>7, Zenon DEF GetEdit

\* Every other step of a process leaves it outside the replay loop.
LEMMA NotReplaying ==
  ASSUME NEW w, Writers = {w}, NEW p \in Procs, Inv, Control(w),
         \/ p \in Readers /\ (Recover(p) \/ Read(p) \/ Crash(p))
         \/ p = w /\ WriterSteps(w),
         ~ListEditsOf(p), ~GetEdit(p)
  PROVE  pc'[p] \notin {"replay", "confirm"} \/ Same(p)
<1>1. ProcTypes
  BY InvTypes, Zenon
<1> USE DEF ProcTypes
<1>2. CASE Open(p) \/ Refresh(p) \/ ReadPointer(p) \/ GetSnapshot(p)
  BY <1>1, <1>2, Zenon DEF Open, Refresh, ReadPointer, GetSnapshot, Fail, Goto
<1>3. CASE Reread(p) \/ RecoverIo(p)
  BY <1>1, <1>3, Zenon DEF Reread, RecoverIo, Retry, Fail, Goto
<1>4. CASE Confirm(p)
  <2>1. Retry(p) \/ Fail(p, "Corrupt") \/ Goto(p, IF entry[p] = Nowhere THEN "verify" ELSE "idle")
    BY <1>4, Zenon DEF Confirm
  <2> QED BY <1>1, <2>1, Zenon DEF Retry, Fail, Goto
<1>5. CASE VerifyStores(p) \/ ObserveAfterCreate(p) \/ Crash(p) \/ CrashMidWrite(p)
  <2>1. \E c \in {"idle", "down"} : pc' = [pc EXCEPT ![p] = c]
    BY <1>5, Zenon DEF VerifyStores, ObserveAfterCreate, Crash, CrashMidWrite, Forget, Goto
  <2> QED BY <1>1, <2>1, Zenon
<1>6. CASE Read(p)
  BY <1>1, <1>6, Zenon DEF Read, Pin, Unpin, ReadMissing, AdvancedPointer, AdvancedList, AnswerStale, Forget, Goto, Same,
     instanceVars, localVars
<1>7. CASE PutObject(p)
  BY <1>7, Zenon DEF PutObject, Same, localVars
<1>8. CASE Apply(p) \/ RollNow(p) \/ CollectObsolete(p)
  <2>1. \/ pc' = pc /\ pc[p] = "idle"
        \/ \E c \in {"idle", "collect", "putSnapshot"} : pc' = [pc EXCEPT ![p] = c]
    BY <1>8, Zenon DEF Apply, RollNow, CollectObsolete, Goto
  <2> QED BY <1>1, <2>1, Zenon
<1>9. CASE Roll(p)
  <2>1. target[p].then \in {"down", "idle", "collect", "observe"}
    BY <1>1, Zenon DEF Target
  <2>2. \/ \E c \in Rolling : pc' = [pc EXCEPT ![p] = c]
        \/ pc' = [pc EXCEPT ![p] = target[p].then]
        \/ RollFailed(p)
    BY <1>9, Zenon DEF Roll, PutSnapshot, Collided, Relist, CompareAndSet, SettleCas, Installed, Goto, Rolling
  <2> QED BY <1>1, <2>1, <2>2, Zenon DEF RollFailed, Goto, Rolling
<1> QED BY <1>2, <1>3, <1>4, <1>5, <1>6, <1>7, <1>8, <1>9, Zenon DEF WriterSteps, Recover, Read

\* Whoever replays the live generation has read it up to the end of its listing.
LEMMA ListingNext ==
  ASSUME NEW w, Writers = {w}, ~UnreadableIsEmpty, Inv, Control(w), Chain, Grows, [Next]_vars,
         \A p \in Procs : Listing(p)
  PROVE  \A p \in Procs : Listing(p)'
<1>1. w \in Procs /\ Readers \subseteq Procs
  BY OneWriter, Zenon DEF Procs
<1>2. ASSUME NEW p \in Procs,
             \/ p \in Readers /\ (Recover(p) \/ Read(p) \/ Crash(p))
             \/ p = w /\ WriterSteps(w)
      PROVE  \A q \in Procs : Listing(q)'
  <2>1. \A q \in Procs \ {p} : Same(q)
    BY <1>2, OthersStay, RecoverMoves, WriterMoves, Zenon
  <2>2. Listing(p)'
    BY <1>2, ListEditsListing, GetEditListing, NotReplaying, ListingStays, Zenon DEF Listing
  <2> QED BY <2>1, <2>2, ListingStays, Zenon
<1>3. CASE Tick \/ UNCHANGED vars
  <2>1. \A q \in Procs : Same(q)
    BY <1>3, Zenon DEF Tick, vars, Same, instanceVars, localVars
  <2> QED BY <2>1, ListingStays, Zenon
<1> QED BY <1>1, <1>2, <1>3, WhoSteps, Zenon

\* A step towards the end of a roll leaves what the writer serves alone.
LEMMA InstallingKeeps ==
  ASSUME NEW w, Writers = {w}, Inv, WriterSteps(w), pc'[w] \in {"ambiguous", "installed"}
  PROVE  UNCHANGED <<entry, seq, version>>
<1>1. w \in Procs
  BY OneWriter, Zenon
<1>2. ProcTypes
  BY InvTypes, Zenon
<1> USE DEF ProcTypes
<1>3. ASSUME NEW c, c \notin {"ambiguous", "installed"}, pc' = [pc EXCEPT ![w] = c] PROVE FALSE
  BY <1>1, <1>2, <1>3, Zenon
<1>4. ~Confirm(w)
  <2>1. Confirm(w) => \E c : c \notin {"ambiguous", "installed"} /\ pc' = [pc EXCEPT ![w] = c]
    BY Zenon DEF Confirm, Retry, Fail, Goto
  <2> QED BY <1>3, <2>1, Zenon
<1>5. ~Crash(w) /\ ~CrashMidWrite(w)
  BY <1>3, Zenon DEF Crash, CrashMidWrite, Forget, Goto
<1>6. ~VerifyStores(w)
  BY <1>3, Zenon DEF VerifyStores, Forget, Goto
<1>7. ~Apply(w)
  <2>1. Apply(w) => pc[w] = "idle" /\ (pc' = pc \/ Goto(w, "collect") \/ Goto(w, "putSnapshot"))
    BY Zenon DEF Apply
  <2> QED BY <1>3, <2>1, Zenon DEF Goto
<1>8. ~Installed(w)
  <2>1. target[w].then \notin {"ambiguous", "installed"}
    BY <1>1, <1>2, Zenon DEF Target
  <2> QED BY <1>3, <2>1, Zenon DEF Installed, Goto
<1> QED BY <1>4, <1>5, <1>6, <1>7, <1>8, Zenon DEF WriterSteps, Roll, Open, ReadPointer, GetSnapshot, ListEditsOf,
        GetEdit, Reread, RecoverIo, ObserveAfterCreate, PutObject, RollNow, CollectObsolete, Pin, Unpin, PutSnapshot,
        Collided, Relist, CompareAndSet, SettleCas, RecoverFrame, RollFrame, instanceVars

\* Every process serves a version of the history at the place it claims.
LEMMA ServesNext ==
  ASSUME NEW w, Writers = {w}, ~UnreadableIsEmpty, ~RereadFails, Inv, Inv', Control(w), Grows, [Next]_vars,
         ServesPublished
  PROVE  ServesPublished'
<1>1. w \in Procs /\ Readers \subseteq Procs /\ \A p \in Procs : p = w \/ p \in Readers
  BY OneWriter, Zenon DEF Procs
<1>2. Inv' /\ Control(w)'
  BY ControlNext, Zenon
<1>3. ProcTypes
  BY InvTypes, Zenon
<1> DEFINE Good(p) == entry'[p] # Nowhere =>
                         <<entry'[p].gen, seq'[p] - 1>> \in DOMAIN at' /\ version'[p] = log'[Standing(p)']
\* what a process keeps, or adopts from the live generation, is good
<1>4. ASSUME NEW p \in Procs, entry'[p] = entry[p], seq'[p] = seq[p], version'[p] = version[p] PROVE Good(p)
  <2>1. SUFFICES ASSUME entry[p] # Nowhere PROVE Good(p)
    BY <1>4, Zenon
  <2>2. <<entry[p].gen, seq[p] - 1>> \in DOMAIN at /\ version[p] = log[at[<<entry[p].gen, seq[p] - 1>>]]
    BY <2>1, Zenon DEF ServesPublished, Standing
  <2>3. at[<<entry[p].gen, seq[p] - 1>>] \in 1..Len(log)
    BY <2>2, LiveAddress, Zenon
  <2> QED BY <1>4, <2>2, <2>3, Zenon DEF Grows, Standing
<1>5. ASSUME NEW p \in Procs, entry'[p] = Nowhere \/ entry'[p].gen = pointer'.gen PROVE Good(p)
  BY <1>2, <1>5, Zenon DEF Inv, ProcInv, ServingInv
<1>6. ASSUME NEW r \in Readers, Recover(r) \/ Read(r) \/ Crash(r) PROVE Good(r)
  <2> HIDE DEF Good
  <2>1. CASE Confirm(r)
    <3>1. CASE UNCHANGED <<entry, seq, version>>
      BY <1>1, <1>4, <3>1, Zenon
    <3>2. CASE ~Moved(r) /\ entry' = [entry EXCEPT ![r] = load[r].entry]
      <4>1. entry'[r] = load[r].entry /\ pointer' = pointer /\ pointer.gen = load[r].entry.gen
        BY <1>1, <1>3, <2>1, <3>2, Zenon DEF Confirm, Moved, catalogVars, ProcTypes
      <4> QED BY <1>1, <1>5, <4>1, Zenon
    <3> QED BY <2>1, <3>1, <3>2, Zenon DEF Confirm
  <2>2. CASE UNCHANGED <<entry, seq, version>>
    BY <1>1, <1>4, <2>2, Zenon
  <2>3. CASE entry' = [entry EXCEPT ![r] = Nowhere]
    <3>1. entry'[r] = Nowhere
      BY <1>1, <1>3, <2>3, Zenon DEF ProcTypes
    <3> QED BY <1>1, <1>5, <3>1, Zenon
  <2>4. Confirm(r) \/ UNCHANGED <<entry, seq, version>> \/ entry' = [entry EXCEPT ![r] = Nowhere]
    <3>1. CASE Recover(r)
      BY <3>1, Zenon DEF Recover, Open, Refresh, ReadPointer, GetSnapshot, ListEditsOf, GetEdit, Reread,
         RecoverIo, VerifyStores, ObserveAfterCreate, RecoverFrame, Forget, instanceVars
    <3>2. CASE Read(r) \/ Crash(r)
      BY <3>2, Zenon DEF Read, Pin, Unpin, ReadMissing, AdvancedPointer, AdvancedList, AnswerStale, Crash, Forget,
         instanceVars
    <3> QED BY <1>6, <3>1, <3>2, Zenon
  <2> QED BY <2>1, <2>2, <2>3, <2>4, Zenon
<1> HIDE DEF Good
<1>7. ASSUME WriterSteps(w) PROVE Good(w)
  <2>1. CASE pc'[w] \notin {"ambiguous", "installed"}
    <3>1. pc'[w] \in Stages
      BY <1>1, <1>2, Zenon DEF Inv, TypeOK
    <3>2. entry'[w] = Nowhere \/ entry'[w] = pointer'
      BY <1>2, <2>1, <3>1, Zenon DEF Control, Stages, Replaying, Opened, Rolling
    <3> QED BY <1>1, <1>5, <3>2, Zenon
  <2>2. CASE pc'[w] \in {"ambiguous", "installed"}
    BY <1>1, <1>4, <1>7, <2>2, InstallingKeeps, Zenon
  <2> QED BY <2>1, <2>2, Zenon
<1>8. ASSUME NEW p \in Procs, Same(p) PROVE Good(p)
  BY <1>4, <1>8, Zenon DEF Same
<1>9. \A p \in Procs : Good(p)
  <2>1. CASE Tick \/ UNCHANGED vars
    <3>1. \A p \in Procs : Same(p)
      BY <2>1, Zenon DEF Tick, vars, Same, instanceVars, localVars
    <3> QED BY <1>8, <3>1, Zenon
  <2>2. ASSUME NEW r \in Readers, Recover(r) \/ Read(r) \/ Crash(r) PROVE \A p \in Procs : Good(p)
    <3>1. \A q \in Procs \ {r} : Same(q)
      BY <1>1, <2>2, OthersStay, RecoverMoves, Zenon
    <3> QED BY <1>1, <1>6, <1>8, <2>2, <3>1, Zenon
  <2>3. CASE WriterSteps(w)
    <3>1. \A q \in Procs \ {w} : Same(q)
      BY <1>1, <2>3, OthersStay, WriterMoves, Zenon
    <3> QED BY <1>1, <1>7, <1>8, <2>3, <3>1, Zenon
  <2> QED BY <2>1, <2>2, <2>3, WhoSteps, Zenon
<1> QED BY <1>9, Zenon DEF Good, ServesPublished

-----------------------------------------------------------------------------
(* The kinds of step a writer takes. *)

\* it reads, puts objects, stages a generation or pins a version: what is durable
\* and what it serves stay as they are
Quietly(w) ==
    /\ UNCHANGED <<pointer, log, at, acked, edits>>
    /\ entry'[w] = entry[w] /\ seq'[w] = seq[w] /\ version'[w] = version[w] /\ pending'[w] = pending[w]
    /\ objects \subseteq objects' /\ objects' \ objects \subseteq {nextFile[w]}
    /\ objects' # objects => Serving(w) /\ nextFile'[w] = nextFile[w] + 1
    /\ nextFile[w] <= nextFile'[w]
    /\ written'[w] \ written[w] \subseteq objects' \ objects
    /\ pinned'[w] \subseteq pinned[w] \cup {version[w]}
    /\ pc'[w] = "verify" <=> pc[w] = "verify"
    /\ pc'[w] \in {"ambiguous", "installed"} => pc[w] \in {"cas", "ambiguous", "installed"}
    /\ pc'[w] \in Rolling \cup {"collect"} => pc[w] \in Rolling \cup {"collect"} \/ entry[w] = Nowhere \/ reseal[w]

\* verify_stores_and_discard accepts the version
Verifies(w) ==
    /\ pc[w] = "verify" /\ pc'[w] = "idle"
    /\ UNCHANGED <<catalogVars, objects, log, at, acked>>
    /\ entry'[w] = entry[w] /\ seq'[w] = seq[w] /\ version'[w] = version[w] /\ pending'[w] = pending[w]
    /\ written'[w] = written[w] /\ pinned'[w] = pinned[w]
    /\ nextFile[w] <= nextFile'[w] /\ \A f \in objects : f < nextFile'[w]

\* the process is gone
Stops(w) ==
    /\ pc'[w] = "down" /\ entry'[w] = Nowhere /\ version'[w] = {} /\ pending'[w] = {} /\ written'[w] = {}
    /\ pinned'[w] = {}
    /\ UNCHANGED <<pointer, objects, log, at, acked>>

\* recover installs what it replayed
Adopts(w) ==
    /\ pc[w] = "confirm" /\ pc'[w] = "verify" /\ entry[w] = Nowhere /\ entry'[w] = pointer /\ load[w].entry = pointer
    /\ seq'[w] = load[w].seq /\ version'[w] = load[w].files /\ nextFile'[w] = load[w].next
    /\ UNCHANGED <<catalogVars, objects, log, at, acked>>
    /\ pending'[w] = pending[w] /\ written'[w] = written[w] /\ pinned'[w] = pinned[w]

\* an edit becomes durable; the writer learns of it, or is left in doubt
Commits(w, e) ==
    /\ pc[w] = "idle" /\ <<entry[w].gen, seq[w]>> \notin DOMAIN edits /\ Land(w, e)
    /\ UNCHANGED <<objects, acked>> /\ entry'[w] = entry[w] /\ nextFile'[w] = nextFile[w] /\ pinned'[w] = pinned[w]
    /\ written'[w] = written[w] \ e.added
    /\ \/ /\ seq'[w] = seq[w] /\ version'[w] = version[w] /\ pending'[w] = pending[w] /\ pc'[w] = "idle"
       \/ /\ seq'[w] = seq[w] + 1 /\ version'[w] = ApplyEdit(version[w], e)
          /\ pending'[w] = pending[w] \cup ((e.deleted \ e.added) \X {now})
          /\ pc'[w] \in {"collect", "putSnapshot"}
          /\ pc'[w] = "putSnapshot" => target'[w].next = nextFile[w]

\* a compare-and-set moves CURRENT, whatever it answers
Switches(w) ==
    /\ pc[w] = "cas" /\ pc'[w] \in {"ambiguous", "installed"} /\ MovePointer(w)
    /\ entry'[w] = entry[w] /\ seq'[w] = seq[w] /\ version'[w] = version[w] /\ target'[w] = target[w]
    /\ UNCHANGED <<objects, nextFile, pending, written, pinned, acked>>

\* a roll ends with the new entry
Installs(w) ==
    /\ pc[w] = "installed" /\ pc'[w] \in {"idle", "collect", "observe"}
    /\ entry'[w] = NextEntry(w) /\ seq'[w] = 1 /\ version'[w] = version[w]
    /\ UNCHANGED <<pointer, log, at, objects, nextFile, pending, written, pinned, acked>>

\* files that no version needs and whose window is over are deleted, all or some
Collects(w) ==
    /\ pc[w] \in {"collect", "idle"} /\ pc'[w] = "idle"
    /\ UNCHANGED <<catalogVars, log, at>>
    /\ entry'[w] = entry[w] /\ seq'[w] = seq[w] /\ version'[w] = version[w] /\ written'[w] = written[w]
    /\ pinned'[w] = pinned[w] /\ nextFile'[w] = nextFile[w]
    /\ acked' \in {acked, Standing(w)}
    /\ objects' \subseteq objects /\ objects \ objects' \subseteq {d[1] : d \in Collectable(w)}
    /\ \A d \in pending'[w] : d \in pending[w] \/ \E c \in Collectable(w) : c[1] = d[1]

LEMMA RecoverQuietly ==
  ASSUME NEW w, Writers = {w}, Inv, Control(w),
         Open(w) \/ ReadPointer(w) \/ GetSnapshot(w) \/ ListEditsOf(w) \/ GetEdit(w) \/ Reread(w) \/ RecoverIo(w)
  PROVE  Quietly(w)
<1>1. w \in Procs
  BY OneWriter, Zenon
<1>2. ProcTypes
  BY InvTypes, Zenon
<1>3. entry[w] = Nowhere /\ pc[w] \in {"down", "read"} \cup Replaying
  BY Zenon DEF Control, Replaying, Open, ReadPointer, GetSnapshot, ListEditsOf, GetEdit, Reread, RecoverIo
<1>4. UNCHANGED <<catalogVars, objects, log, at, acked, instanceVars>>
  BY Zenon DEF Open, ReadPointer, GetSnapshot, ListEditsOf, GetEdit, Reread, RecoverIo, RecoverFrame, historyVars
<1>5. pc'[w] \in {"down", "read", "putSnapshot"} \cup Replaying
  <2> USE DEF Goto, Fail, Retry, Replaying
  <2>1. ASSUME NEW c \in {"down", "read", "putSnapshot"} \cup Replaying, pc' = [pc EXCEPT ![w] = c]
        PROVE  pc'[w] \in {"down", "read", "putSnapshot"} \cup Replaying
    BY <1>1, <1>2, <2>1, Zenon DEF ProcTypes
  <2>2. CASE Open(w) \/ ReadPointer(w) \/ GetSnapshot(w) \/ ListEditsOf(w)
    BY <1>3, <2>1, <2>2, Zenon DEF Open, ReadPointer, GetSnapshot, ListEditsOf
  <2>3. CASE GetEdit(w)
    <3>1. pc' = pc \/ pc' = [pc EXCEPT ![w] = "confirm"] \/ pc' = [pc EXCEPT ![w] = "missing"] \/ Fail(w, "Corrupt")
      BY <2>3, Zenon DEF GetEdit
    <3> QED BY <1>3, <2>1, <3>1, Zenon
  <2>4. CASE Reread(w) \/ RecoverIo(w)
    BY <1>3, <2>1, <2>4, Zenon DEF Reread, RecoverIo
  <2> QED BY <2>2, <2>3, <2>4, Zenon
<1>6. nextFile[w] \in Nat
  BY <1>1, <1>2, Zenon DEF ProcTypes
<1> QED BY <1>3, <1>4, <1>5, <1>6 DEF Quietly, catalogVars, instanceVars, Replaying, Rolling

\* a listing leaves the counter above everything it saw
LEMMA ListingObserved ==
  ASSUME NEW p \in Procs, Inv, ObserveListing(p)
  PROVE  /\ nextFile[p] <= nextFile'[p] /\ \A f \in objects : f < nextFile'[p]
         /\ \A q \in Procs \ {p} : nextFile'[q] = nextFile[q]
<1>1. ProcTypes
  BY InvTypes, Zenon
<1>2. PICK m \in 1..(MaxFile + 1) :
        m >= nextFile[p] /\ (\A f \in objects : f < m) /\ nextFile' = [nextFile EXCEPT ![p] = m]
  BY Zenon DEF ObserveListing, Observed
<1> QED BY <1>1, <1>2, Zenon DEF ProcTypes

LEMMA PutQuietly ==
  ASSUME NEW w, Writers = {w}, Inv, Control(w), PutObject(w) \/ ObserveAfterCreate(w) \/ Pin(w) \/ Unpin(w)
  PROVE  Quietly(w)
<1>1. w \in Procs
  BY OneWriter, Zenon
<1>2. ProcTypes /\ nextFile[w] \in Nat
  BY <1>1, InvTypes, Zenon DEF ProcTypes
<1> USE DEF ProcTypes
<1>3. CASE PutObject(w)
  <2>1. /\ UNCHANGED <<catalogVars, pc, entry, seq, version, pending, pinned, log, at, acked>> /\ Serving(w)
    BY <1>3, Zenon DEF PutObject, historyVars
  <2>2. CASE ObserveListing(w) /\ UNCHANGED <<objects, written>>
    BY <1>1, <1>2, <2>1, <2>2, ListingObserved, Zenon DEF Quietly, catalogVars
  <2>3. CASE /\ nextFile' = [nextFile EXCEPT ![w] = nextFile[w] + 1]
             /\ \/ UNCHANGED <<objects, written>>
                \/ objects' = objects \cup {nextFile[w]} /\ UNCHANGED written
                \/ /\ nextFile[w] \notin objects /\ objects' = objects \cup {nextFile[w]}
                   /\ written' = [written EXCEPT ![w] = @ \cup {nextFile[w]}]
    <3>1. nextFile'[w] = nextFile[w] + 1
      BY <1>1, <1>2, <2>3, Zenon
    <3>2. /\ objects \subseteq objects' /\ objects' \ objects \subseteq {nextFile[w]}
          /\ written'[w] \ written[w] \subseteq objects' \ objects
      BY <1>1, <1>2, <2>3
    <3> QED BY <1>2, <2>1, <3>1, <3>2 DEF Quietly, catalogVars
  <2> QED BY <1>3, <2>2, <2>3, Zenon DEF PutObject, AbandonedPut
<1>4. CASE ObserveAfterCreate(w)
  <2>1. pc[w] = "observe" /\ pc'[w] = "idle" /\ nextFile[w] <= nextFile'[w]
    BY <1>1, <1>2, <1>4, ListingObserved DEF ObserveAfterCreate, Goto
  <2> QED BY <1>2, <1>4, <2>1, Zenon DEF ObserveAfterCreate, Quietly, catalogVars, historyVars, Rolling
<1>5. CASE Pin(w) \/ Unpin(w)
  <2>1. UNCHANGED <<catalogVars, objects, pc, entry, seq, version, nextFile, pending, written, log, at, acked>>
    BY <1>5, Zenon DEF Pin, Unpin, historyVars
  <2>2. pinned'[w] \subseteq pinned[w] \cup {version[w]}
    BY <1>1, <1>2, <1>5, Zenon DEF Pin, Unpin
  <2> QED BY <1>2, <2>1, <2>2 DEF Quietly, catalogVars
<1> QED BY <1>3, <1>4, <1>5, Zenon

LEMMA RollQuietly ==
  ASSUME NEW w, Writers = {w}, Inv, Control(w),
         \/ RollNow(w) \/ PutSnapshot(w) \/ Collided(w) \/ Relist(w) \/ SettleCas(w)
         \/ CompareAndSet(w) /\ ~MovePointer(w)
  PROVE  Quietly(w)
<1>1. w \in Procs
  BY OneWriter, Zenon
<1>2. ProcTypes /\ nextFile[w] \in Nat
  BY <1>1, InvTypes, Zenon DEF ProcTypes
<1>3. UNCHANGED <<pointer, log, at, acked, edits, objects, entry, seq, version, pending, nextFile, written, pinned>>
  BY Zenon DEF RollNow, PutSnapshot, Collided, Relist, SettleCas, CompareAndSet, PutSnapshotAt, RollFrame, catalogVars,
     historyVars, instanceVars
<1>4. /\ pc[w] = "idle" => reseal[w] /\ pc'[w] = "putSnapshot"
      /\ pc[w] # "idle" => pc[w] \in Rolling
      /\ pc'[w] # "verify"
      /\ pc'[w] \in {"ambiguous", "installed"} => pc[w] \in {"cas", "ambiguous"}
  <2>1. target[w].then \in {"down", "idle", "collect", "observe"}
    BY <1>1, <1>2, Zenon DEF ProcTypes, Target
  <2>2. RollFailed(w) => pc'[w] \in {"down", "idle", "collect"}
    BY <1>1, <1>2, <2>1, Zenon DEF ProcTypes, RollFailed, Goto
  <2>3. ASSUME NEW c, Goto(w, c) PROVE pc'[w] = c
    BY <1>1, <1>2, <2>3, Zenon DEF ProcTypes, Goto
  <2>4. CASE RollNow(w)
    BY <2>3, <2>4, Zenon DEF RollNow
  <2>5. CASE PutSnapshot(w) \/ Collided(w) \/ Relist(w)
    BY <2>2, <2>3, <2>5, Zenon DEF PutSnapshot, Collided, Relist, Rolling
  <2>6. CASE SettleCas(w) \/ CompareAndSet(w)
    BY <2>2, <2>3, <2>6, Zenon DEF SettleCas, CompareAndSet, Rolling
  <2> QED BY <2>4, <2>5, <2>6, Zenon
<1>5. pc[w] # "verify"
  BY <1>4, Zenon DEF Rolling
<1>6. nextFile[w] <= nextFile[w]
  BY <1>2, Reflexive, Zenon
<1> QED BY <1>3, <1>4, <1>5, <1>6, Zenon DEF Quietly

LEMMA ConfirmAdopts ==
  ASSUME NEW w, Writers = {w}, Inv, Control(w), Confirm(w) PROVE Adopts(w)
<1>1. w \in Procs
  BY OneWriter, Zenon
<1>2. ProcTypes
  BY InvTypes, Zenon
<1>3. pc[w] = "confirm" /\ entry[w] = Nowhere /\ load[w].entry = pointer
  BY Zenon DEF Confirm, Control, Replaying
<1>4. /\ entry' = [entry EXCEPT ![w] = load[w].entry] /\ seq' = [seq EXCEPT ![w] = load[w].seq]
      /\ version' = [version EXCEPT ![w] = load[w].files] /\ nextFile' = [nextFile EXCEPT ![w] = load[w].next]
      /\ Goto(w, IF entry[w] = Nowhere THEN "verify" ELSE "idle")
  BY <1>3, Zenon DEF Confirm, Moved
<1>5. UNCHANGED <<catalogVars, objects, pending, written, pinned, log, at, acked>>
  BY Zenon DEF Confirm
<1> QED BY <1>1, <1>2, <1>3, <1>4, <1>5, Zenon DEF Adopts, Goto, ProcTypes

LEMMA ForgetStops ==
  ASSUME NEW w, Writers = {w}, Inv, NEW s, Forget(w, s), UNCHANGED <<pointer, objects, log, at, acked>> PROVE Stops(w)
<1>1. w \in Procs
  BY OneWriter, Zenon
<1>2. ProcTypes
  BY InvTypes, Zenon
<1> QED BY <1>1, <1>2, Zenon DEF Forget, Goto, Stops, ProcTypes

LEMMA CrashStops ==
  ASSUME NEW w, Writers = {w}, Inv, Crash(w) \/ CrashMidWrite(w) PROVE Stops(w)
<1>1. Forget(w, "Ok") /\ UNCHANGED <<pointer, objects, log, at, acked>>
  BY Zenon DEF Crash, CrashMidWrite, PutEdit, PutSnapshotAt, catalogVars
<1> QED BY <1>1, ForgetStops, Zenon

LEMMA VerifyKinds ==
  ASSUME NEW w, Writers = {w}, Inv, VerifyStores(w) PROVE Verifies(w) \/ Stops(w)
<1>1. w \in Procs
  BY OneWriter, Zenon
<1>2. ProcTypes
  BY InvTypes, Zenon
<1>3. ASSUME NEW s, Forget(w, s) PROVE Stops(w)
  <2>1. UNCHANGED <<pointer, objects, log, at, acked>>
    BY Zenon DEF VerifyStores, catalogVars
  <2> QED BY <1>3, <2>1, ForgetStops, Zenon
<1>4. CASE /\ version[w] \subseteq objects /\ ObserveListing(w) /\ Goto(w, "idle")
           /\ UNCHANGED <<entry, seq, version, pending, written, pinned>>
  <2>1. pc'[w] = "idle"
    BY <1>1, <1>2, <1>4, Zenon DEF Goto, ProcTypes
  <2> QED BY <1>1, <1>4, <2>1, ListingObserved, Zenon DEF Verifies, VerifyStores
<1> QED BY <1>3, <1>4, Zenon DEF VerifyStores

LEMMA ApplyKinds ==
  ASSUME NEW w, Writers = {w}, Inv, Control(w), Apply(w) PROVE Quietly(w) \/ \E e \in EditsOf(w) : Commits(w, e)
<1>1. w \in Procs
  BY OneWriter, Zenon
<1>2. ProcTypes /\ nextFile[w] \in Nat /\ pc[w] = "idle"
  BY <1>1, InvTypes, Zenon DEF ProcTypes, Apply
<1>3. UNCHANGED <<objects, entry, nextFile, pinned, acked>>
  BY Zenon DEF Apply
<1>4. PICK e \in EditsOf(w) :
        /\ \/ UNCHANGED <<catalogVars, pc, seq, version, pending, log, at>>
           \/ /\ ~Occupied(edits, <<entry[w].gen, seq[w]>>) /\ Land(w, e)
              /\ UNCHANGED <<pc, seq, version, pending>>
           \/ /\ ~Occupied(edits, <<entry[w].gen, seq[w]>>) /\ Land(w, e)
              /\ seq' = [seq EXCEPT ![w] = @ + 1]
              /\ version' = [version EXCEPT ![w] = ApplyEdit(@, e)]
              /\ pending' = [pending EXCEPT ![w] = @ \cup ((e.deleted \ e.added) \X {now})]
              /\ \/ Goto(w, "collect")
                 \/ Goto(w, "putSnapshot") /\ target' = RollTo(w, entry[w].gen + 1, "collect")
        /\ written' = [written EXCEPT ![w] = @ \ e.added]
  BY Zenon DEF Apply
<1>5. written'[w] = written[w] \ e.added
  BY <1>1, <1>2, <1>4, Zenon DEF ProcTypes
<1>6. CASE UNCHANGED <<catalogVars, pc, seq, version, pending, log, at>>
  <2>1. nextFile[w] <= nextFile[w]
    BY <1>2, Reflexive, Zenon
  <2> QED BY <1>3, <1>5, <1>6, <2>1, Zenon DEF Quietly, catalogVars
<1>7. CASE /\ ~Occupied(edits, <<entry[w].gen, seq[w]>>) /\ Land(w, e)
           /\ UNCHANGED <<pc, seq, version, pending>>
  BY <1>2, <1>3, <1>5, <1>7, Zenon DEF Commits, Occupied
<1>8. CASE /\ ~Occupied(edits, <<entry[w].gen, seq[w]>>) /\ Land(w, e)
           /\ seq' = [seq EXCEPT ![w] = @ + 1]
           /\ version' = [version EXCEPT ![w] = ApplyEdit(@, e)]
           /\ pending' = [pending EXCEPT ![w] = @ \cup ((e.deleted \ e.added) \X {now})]
           /\ \/ Goto(w, "collect")
              \/ Goto(w, "putSnapshot") /\ target' = RollTo(w, entry[w].gen + 1, "collect")
  <2>1. /\ seq'[w] = seq[w] + 1 /\ version'[w] = ApplyEdit(version[w], e)
        /\ pending'[w] = pending[w] \cup ((e.deleted \ e.added) \X {now})
    BY <1>1, <1>2, <1>8, Zenon DEF ProcTypes
  <2>2. /\ pc'[w] \in {"collect", "putSnapshot"}
        /\ pc'[w] = "putSnapshot" => target'[w].next = nextFile[w]
    <3>1. CASE Goto(w, "collect")
      BY <1>1, <1>2, <3>1, Zenon DEF ProcTypes, Goto
    <3>2. CASE Goto(w, "putSnapshot") /\ target' = RollTo(w, entry[w].gen + 1, "collect")
      BY <1>1, <1>2, <3>2, Zenon DEF ProcTypes, Goto, RollTo
    <3> QED BY <1>8, <3>1, <3>2, Zenon
  <2> QED BY <1>2, <1>3, <1>5, <1>8, <2>1, <2>2, Zenon DEF Commits, Occupied
<1> QED BY <1>4, <1>6, <1>7, <1>8, Zenon

LEMMA CasKinds ==
  ASSUME NEW w, Writers = {w}, Inv, CompareAndSet(w), MovePointer(w) PROVE Switches(w)
<1>1. w \in Procs
  BY OneWriter, Zenon
<1>2. ProcTypes
  BY InvTypes, Zenon
<1>3. entry[w].token \in Nat /\ pointer.token \in Nat
  BY <1>1, Numeric, Zenon
<1>4. pointer' # pointer
  BY <1>3 DEF MovePointer, SetPointer
<1>5. pc[w] = "cas" /\ (Goto(w, "installed") \/ Goto(w, "ambiguous")) /\ UNCHANGED target
  BY <1>4, Zenon DEF CompareAndSet, catalogVars
<1>6. UNCHANGED <<entry, seq, version, objects, nextFile, pending, written, pinned, acked>>
  BY Zenon DEF CompareAndSet, RollFrame
<1> QED BY <1>1, <1>2, <1>5, <1>6, Zenon DEF Switches, Goto, ProcTypes

LEMMA InstalledInstalls ==
  ASSUME NEW w, Writers = {w}, Inv, Control(w), Installed(w) PROVE Installs(w)
<1>1. w \in Procs
  BY OneWriter, Zenon
<1>2. ProcTypes
  BY InvTypes, Zenon
<1>3. pc[w] = "installed" /\ entry'[w] = NextEntry(w) /\ seq'[w] = 1 /\ pc'[w] = target[w].then
  BY <1>1, <1>2, Zenon DEF Installed, NextEntry, FirstSeq, Goto, ProcTypes
<1>4. target[w].then \in {"idle", "collect", "observe"}
  BY <1>1, <1>2, <1>3, Zenon DEF ProcTypes, Target, Control, Rolling
<1>5. UNCHANGED <<version, pointer, log, at, objects, nextFile, pending, written, pinned, acked>>
  BY Zenon DEF Installed, RollFrame, DeleteGeneration, DeletePartOf, catalogVars
<1> QED BY <1>3, <1>4, <1>5, Zenon DEF Installs

LEMMA CollectCollects ==
  ASSUME NEW w, Writers = {w}, Inv, CollectObsolete(w) PROVE Collects(w)
<1>1. w \in Procs
  BY OneWriter, Zenon
<1>2. ProcTypes
  BY InvTypes, Zenon
<1> DEFINE due == Collectable(w)
           files == {d[1] : d \in due}
<1>3. UNCHANGED <<catalogVars, log, at, entry, seq, version, written, pinned, nextFile>> /\ Goto(w, "idle")
  BY Zenon DEF CollectObsolete
<1>4. pc[w] \in {"collect", "idle"} /\ acked' \in {acked, Standing(w)} /\ pc'[w] = "idle"
  BY <1>1, <1>2, <1>3, Zenon DEF CollectObsolete, Goto, ProcTypes
<1>5. /\ objects' \subseteq objects /\ objects \ objects' \subseteq files
      /\ \A d \in pending'[w] : d \in pending[w] \/ \E c \in due : c[1] = d[1]
  <2> HIDE DEF due
  <2>1. CASE objects' = objects \ files /\ pending' = [pending EXCEPT ![w] = @ \ due]
    BY <1>1, <1>2, <2>1, Zenon DEF ProcTypes
  <2>2. CASE /\ \E gone \in SUBSET files : objects' = objects \ gone
             /\ pending' = [pending EXCEPT ![w] = (@ \ due) \cup Repend(due)]
    <3>1. pending'[w] = (pending[w] \ due) \cup Repend(due)
      BY <1>1, <1>2, <2>2, Zenon DEF ProcTypes
    <3>2. \A d \in Repend(due) : \E c \in due : c[1] = d[1]
      BY DEF Repend
    <3> QED BY <2>2, <3>1, <3>2, Zenon
  <2> QED BY <2>1, <2>2, Zenon DEF CollectObsolete, due
<1> QED BY <1>3, <1>4, <1>5, Zenon DEF Collects

\* Every step of the system is a step elsewhere, or one of these.
LEMMA StepKinds ==
  ASSUME NEW w, Writers = {w}, Inv, Control(w), [Next]_vars
  PROVE  \/ Elsewhere(w) \/ Quietly(w) \/ Verifies(w) \/ Stops(w) \/ Adopts(w) \/ \E e \in EditsOf(w) : Commits(w, e)
         \/ Switches(w) \/ Installs(w) \/ Collects(w)
<1>1. CASE Tick \/ UNCHANGED vars
  BY <1>1, Zenon DEF Tick, vars, Elsewhere, Same, catalogVars, instanceVars, localVars, historyVars
<1>2. ASSUME NEW r \in Readers, Recover(r) \/ Read(r) \/ Crash(r) PROVE Elsewhere(w)
  BY <1>2, ReaderElsewhere, Zenon
<1>3. CASE WriterSteps(w)
  <2>1. CASE CompareAndSet(w)
    BY <2>1, CasKinds, RollQuietly, Zenon
  <2> QED BY <1>3, <2>1, RecoverQuietly, PutQuietly, RollQuietly, ConfirmAdopts, CrashStops, VerifyKinds, ApplyKinds,
          InstalledInstalls, CollectCollects, Zenon DEF WriterSteps, Roll
<1> QED BY <1>1, <1>2, <1>3, WhoSteps, Zenon

-----------------------------------------------------------------------------
(* Nothing acknowledged is lost. *)

\* the live generation keeps a version at or after the newest acknowledged one,
\* and so does every place the writer may install from
Acked(w) ==
    /\ pointer = Nowhere => acked = 0
    /\ pointer # Nowhere => \E a \in DOMAIN at : a[1] = pointer.gen /\ acked <= at[a]
    /\ entry[w] # Nowhere /\ pointer = entry[w] => acked <= Standing(w)
    /\ pc[w] \in {"ambiguous", "installed"} /\ pointer # entry[w] => acked <= at[<<pointer.gen, 0>>]

\* What recover has replayed when it confirms is the newest the generation holds.
LEMMA ReplayedToTop ==
  ASSUME NEW w, Writers = {w}, Inv, Control(w), Chain, Listing(w), pc[w] = "confirm"
  PROVE  /\ <<pointer.gen, load[w].seq - 1>> \in DOMAIN at /\ <<pointer.gen, load[w].seq>> \notin DOMAIN at
         /\ load[w].files = log[at[<<pointer.gen, load[w].seq - 1>>]] /\ load[w].seq \in Nat \ {0}
<1>1. w \in Procs /\ load[w] \in Attempt /\ load[w].seq \in Nat \ {0} /\ pc[w] \in Replaying
  BY OneWriter, Zenon DEF Inv, TypeOK, Attempt, Replaying
<1>2. load[w].entry = pointer /\ load[w].listed = ListEdits(pointer.gen)
  BY <1>1, Zenon DEF Control
<1>3. <<pointer.gen, load[w].seq - 1>> \in DOMAIN at /\ load[w].files = log[at[<<pointer.gen, load[w].seq - 1>>]]
  BY <1>1, <1>2, Zenon DEF Inv, ProcInv, ReplayInv
<1>4. ASSUME <<pointer.gen, load[w].seq>> \in DOMAIN at PROVE FALSE
  <2>1. <<pointer.gen, load[w].seq>> \in DOMAIN edits
    BY <1>1, <1>4, Zenon DEF Inv, CatalogInv
  <2>2. load[w].seq \in ListEdits(pointer.gen)
    BY <2>1 DEF ListEdits
  <2> QED BY <1>2, <1>4, <2>2, Zenon DEF Listing
<1> QED BY <1>1, <1>3, <1>4, Zenon

\* Places of the live generation are ordered as they were written.
LEMMA Below ==
  ASSUME Inv, Chain, NEW a \in DOMAIN at, a[1] = pointer.gen, NEW k \in Nat, <<pointer.gen, k>> \in DOMAIN at,
         <<pointer.gen, k + 1>> \notin DOMAIN at
  PROVE  a[2] \in 0..k /\ at[a] <= at[<<pointer.gen, k>>]
<1>1. a = <<pointer.gen, a[2]>> /\ a[2] \in Nat
  BY LiveAddress, Zenon
<1>2. a[2] \in 0..k
  <2>1. SUFFICES ASSUME a[2] > k PROVE FALSE
    BY <1>1
  <2>2. k + 1 \in 0..a[2]
    BY <1>1, <2>1
  <2> QED BY <2>2, Zenon DEF Chain
<1>3. <<pointer.gen, k>>[1] = pointer.gen /\ <<pointer.gen, k>>[2] = k
  BY Zenon
<1> QED BY <1>1, <1>2, <1>3, Zenon DEF Chain

LEMMA AckedNext ==
  ASSUME NEW w, Writers = {w}, ~UnreadableIsEmpty, ~RereadFails, Inv, Control(w), Chain, \A p \in Procs : Listing(p), Acked(w),
         [Next]_vars
  PROVE  Acked(w)'
<1>1. w \in Procs /\ acked \in Nat
  BY OneWriter, Zenon DEF Inv, TypeOK
<1>2. Grows
  BY ManifestGrows, Zenon
<1>3. /\ entry[w] \in Entry /\ seq[w] \in Nat \ {0} /\ pointer \in Entry /\ Len(log) \in Nat
      /\ entry[w].gen \in Nat /\ pointer.gen \in Nat /\ target[w].gen \in Nat
  BY <1>1, Numeric, Zenon
\* the manifest is left alone, or only grows where it is
<1>4. ASSUME pointer' = pointer, acked' = acked, entry'[w] = entry[w], seq'[w] = seq[w],
             pc'[w] \in {"ambiguous", "installed"} /\ pointer # entry[w] => pc[w] \in {"ambiguous", "installed"}
      PROVE  Acked(w)'
  <2>1. pointer # Nowhere => <<pointer.gen, 0>> \in DOMAIN at
    BY Zenon DEF Inv, CatalogInv
  <2>2. entry[w] # Nowhere => <<entry[w].gen, seq[w] - 1>> \in DOMAIN at
    BY <1>1, Zenon DEF Inv, ProcInv, ServingInv
  <2>3. pointer = Nowhere => entry[w] = Nowhere
    BY <2>2, Zenon DEF Chain
  <2>4. pc[w] \in {"ambiguous", "installed"} /\ pointer # entry[w] => pointer # Nowhere
    BY <1>1, <1>3, <2>3, Zenon
  <2> QED BY <1>2, <1>4, <2>1, <2>2, <2>4, Zenon DEF Acked, Grows, Standing
<1>5. CASE Elsewhere(w)
  BY <1>4, <1>5, Zenon DEF Elsewhere, Same
<1>6. CASE Quietly(w)
  <2>1. pc[w] = "cas" => pointer = entry[w]
    BY WriterInRoll, Zenon
  <2> QED BY <1>4, <1>6, <2>1, Zenon DEF Quietly
<1>7. CASE Verifies(w)
  BY <1>4, <1>7, Zenon DEF Verifies, catalogVars
<1>8. CASE Stops(w)
  BY <1>8, Zenon DEF Stops, Acked
<1>9. CASE Adopts(w)
  <2>1. PICK k \in Nat : k = load[w].seq - 1 /\ <<pointer.gen, k>> \in DOMAIN at /\ <<pointer.gen, k + 1>> \notin DOMAIN at
    <3>1. pc[w] = "confirm" /\ Listing(w)
      BY <1>1, <1>9, Zenon DEF Adopts
    <3>2. /\ <<pointer.gen, load[w].seq - 1>> \in DOMAIN at /\ <<pointer.gen, load[w].seq>> \notin DOMAIN at
          /\ load[w].seq \in Nat \ {0}
      BY <3>1, ReplayedToTop, Zenon
    <3>3. load[w].seq - 1 \in Nat /\ (load[w].seq - 1) + 1 = load[w].seq
      BY <3>2
    <3> QED BY <3>2, <3>3, Zenon
  <2>2. pointer # Nowhere
    BY <2>1, Zenon DEF Chain
  <2>3. PICK a \in DOMAIN at : a[1] = pointer.gen /\ acked <= at[a]
    BY <2>2, Zenon DEF Acked
  <2>4. at[a] \in Nat /\ at[<<pointer.gen, k>>] \in Nat
    BY <2>1, Zenon DEF Inv, TypeOK
  <2>5. acked <= at[<<pointer.gen, k>>]
    BY <1>1, <2>1, <2>3, <2>4, Below
  <2>6. Standing(w)' = at[<<pointer.gen, k>>]
    BY <1>9, <2>1, Zenon DEF Adopts, Standing, catalogVars
  <2> QED BY <1>9, <2>2, <2>3, <2>5, <2>6, Zenon DEF Adopts, Acked, catalogVars
<1>10. ASSUME NEW e \in EditsOf(w), Commits(w, e) PROVE Acked(w)'
  <2>1. /\ pointer = entry[w] /\ pointer # Nowhere /\ pointer' = pointer /\ acked' = acked /\ entry'[w] = entry[w]
        /\ pc'[w] \notin {"ambiguous", "installed"}
    BY <1>10, WriterAtHome, Zenon DEF Commits, Land, PutEdit
  <2>2. CASE seq'[w] = seq[w]
    BY <1>4, <2>1, <2>2, Zenon
  <2>3. CASE seq'[w] = seq[w] + 1
    <3>1. PICK a \in DOMAIN at : a[1] = pointer.gen /\ acked <= at[a]
      BY <2>1, Zenon DEF Acked
    <3>2. at[a] \in 1..Len(log)
      BY LiveAddress, Zenon
    <3>3. at'[<<entry[w].gen, seq[w]>>] = Len(log) + 1
      BY <1>10, Zenon DEF Commits, Land, With
    <3>4. Standing(w)' = Len(log) + 1
      BY <1>3, <2>1, <2>3, <3>3 DEF Standing
    <3> QED BY <1>1, <1>2, <1>3, <2>1, <3>1, <3>2, <3>4 DEF Acked, Grows
  <2> QED BY <1>10, <2>2, <2>3, Zenon DEF Commits
<1>11. CASE Switches(w)
  <2>1. pointer = entry[w] /\ pointer.gen < target[w].gen /\ acked' = acked /\ entry'[w] = entry[w]
    BY <1>11, WriterInRoll, Zenon DEF Switches
  <2>2. pointer'.gen = target[w].gen /\ pointer' # entry[w] /\ pointer' # Nowhere
    <3>1. pointer'.gen = target[w].gen
      BY <1>11, Zenon DEF Switches, MovePointer, SetPointer
    <3>2. target[w].gen # entry[w].gen /\ target[w].gen # 0
      BY <1>3, <2>1
    <3> QED BY <2>1, <3>1, <3>2, NoEntryYet, Zenon
  <2>3. acked <= at'[<<pointer'.gen, 0>>] /\ <<pointer'.gen, 0>> \in DOMAIN at'
    <3>1. CASE entry[w] = Nowhere
      <4>1. at' = With(at, <<target[w].gen, 0>>, Len(log) + 1) /\ acked = 0
        BY <1>11, <2>1, <3>1, Zenon DEF Switches, MovePointer, Acked
      <4> QED BY <1>3, <2>2, <4>1 DEF With
    <3>2. CASE entry[w] # Nowhere
      <4>1. at' = With(at, <<target[w].gen, 0>>, Standing(w)) /\ acked <= Standing(w)
        BY <1>11, <2>1, <3>2, Zenon DEF Switches, MovePointer, Acked
      <4> QED BY <1>3, <2>2, <4>1, Zenon DEF With
    <3> QED BY <3>1, <3>2, Zenon
  <2>4. <<pointer'.gen, 0>>[1] = pointer'.gen
    BY Zenon
  <2> QED BY <2>1, <2>2, <2>3, <2>4, Zenon DEF Acked
<1>12. CASE Installs(w)
  <2>1. pointer = NextEntry(w) /\ pointer.gen = target[w].gen /\ pc[w] = "installed"
    <3>1. pc[w] = "installed" /\ pointer = NextEntry(w)
      BY <1>12, Zenon DEF Installs, Control
    <3> QED BY <3>1, Zenon DEF NextEntry
  <2>2. entry[w].gen < target[w].gen
    BY <1>1, <2>1, Zenon DEF Inv, ProcInv, RollInv, Rolling
  <2>5. entry[w].gen # target[w].gen /\ target[w].gen # 0
    BY <1>3, <2>2
  <2>3. pointer # entry[w] /\ pointer # Nowhere
    BY <2>1, <2>5, NoEntryYet, Zenon
  <2>6. entry'[w].gen = pointer.gen /\ seq'[w] = 1 /\ at' = at
    BY <1>12, <2>1, Zenon DEF Installs
  <2>7. 1 - 1 = 0
    BY SMT
  <2>4. Standing(w)' = at[<<pointer.gen, 0>>]
    BY <2>6, <2>7, Zenon DEF Standing
  <2> QED BY <1>12, <2>1, <2>3, <2>4, Zenon DEF Installs, Acked
<1>13. CASE Collects(w)
  <2>1. /\ pointer = entry[w] /\ entry[w] # Nowhere /\ <<pointer.gen, seq[w] - 1>> \in DOMAIN at
    BY <1>13, WriterAtHome, Zenon DEF Collects
  <2>2. CASE acked' = acked
    BY <1>4, <1>13, <2>1, <2>2, Zenon DEF Collects, catalogVars
  <2>3. CASE acked' = Standing(w)
    <3>1. Standing(w)' = Standing(w) /\ Standing(w) \in Nat /\ Standing(w) = at[<<pointer.gen, seq[w] - 1>>]
      BY <1>13, <2>1, Zenon DEF Collects, Standing, catalogVars, Inv, TypeOK
    <3>2. <<pointer.gen, seq[w] - 1>>[1] = pointer.gen
      BY Zenon
    <3>4. UNCHANGED <<pointer, at>> /\ pc'[w] = "idle" /\ entry'[w] = entry[w]
      BY <1>13, Zenon DEF Collects, catalogVars
    <3>5. Standing(w) <= Standing(w)
      BY <3>1
    <3>3. acked' <= at'[<<pointer.gen, seq[w] - 1>>] /\ UNCHANGED <<pointer, at>> /\ pc'[w] = "idle" /\ entry'[w] = entry[w]
      BY <2>3, <3>1, <3>4, <3>5, Zenon
    <3> QED BY <2>1, <2>3, <3>1, <3>2, <3>3, Zenon DEF Acked
  <2> QED BY <1>13, <2>2, <2>3, Zenon DEF Collects
<1> QED BY <1>5, <1>6, <1>7, <1>8, <1>9, <1>10, <1>11, <1>12, <1>13, StepKinds, Zenon

-----------------------------------------------------------------------------
(* No version that can still be read loses an object. *)

\* the newest place of the live generation
IsTop(a) == a[1] = pointer.gen /\ <<a[1], a[2] + 1>> \notin DOMAIN at

Dead(w) == {d[1] : d \in pending[w]}

\* what the manifest replays to, what the writer serves and what it has put are in
\* the store and not queued for deletion; numbers in use are below the counter
Files(w) ==
    /\ \A a \in DOMAIN at : IsTop(a) => log[at[a]] \subseteq objects \ Dead(w)
    /\ version[w] \subseteq objects \ Dead(w)
    /\ written[w] \subseteq objects /\ written[w] \cap (Dead(w) \cup version[w]) = {}
    /\ \A v \in pinned[w] : v \subseteq objects
    /\ pc[w] = "verify" \/ entry[w] = Nowhere => pending[w] = {} /\ written[w] = {}
    /\ pc[w] # "verify" /\ entry[w] # Nowhere =>
          \A f \in version[w] \cup written[w] \cup Dead(w) : f < nextFile[w]

LEMMA EditFiles ==
  ASSUME NEW w \in Procs, Inv, NEW e \in EditsOf(w)
  PROVE  e.added \subseteq written[w] \cup version[w] /\ e.deleted \subseteq version[w] /\ e.next = nextFile[w]
<1> USE DEF Change
<1>1. CASE e \in FlushEdits(w)
  BY <1>1 DEF FlushEdits
<1>2. CASE e \in CompactionEdits(w)
  BY <1>2 DEF CompactionEdits
<1>3. CASE e \in MigrationEdits(w)
  BY <1>3 DEF MigrationEdits
<1>4. CASE e \in ReclaimEdits(w) \/ e \in TrivialMoves(w)
  BY <1>4 DEF ReclaimEdits, TrivialMoves
<1> QED BY <1>1, <1>2, <1>3, <1>4, Zenon DEF EditsOf

\* A durable edit is the newest place of its generation.
LEMMA CommitTop ==
  ASSUME NEW w, Writers = {w}, Inv, Control(w), Chain, NEW e, Commits(w, e), NEW a \in DOMAIN at', IsTop(a)'
  PROVE  a = <<entry[w].gen, seq[w]>>
<1>1. w \in Procs
  BY OneWriter, Zenon
<1>2. /\ pointer = entry[w] /\ entry[w] # Nowhere /\ entry[w].gen \in Nat /\ seq[w] \in Nat \ {0}
      /\ <<pointer.gen, seq[w] - 1>> \in DOMAIN at /\ <<pointer.gen, seq[w]>> \notin DOMAIN edits
  BY <1>1, Numeric, WriterAtHome, Zenon DEF Commits
<1>3. PICK g \in Nat, s \in Nat \ {0} : g = pointer.gen /\ s = seq[w] /\ <<entry[w].gen, seq[w]>> = <<g, s>>
  BY <1>2, Zenon
<1>4. DOMAIN at' = DOMAIN at \cup {<<g, s>>} /\ pointer' = pointer
  BY <1>3, Zenon DEF Commits, Land, PutEdit, With
<1>5. SUFFICES ASSUME a \in DOMAIN at PROVE FALSE
  BY <1>3, <1>4, Zenon
<1>6. a = <<g, a[2]>> /\ a[2] \in Nat /\ <<g, a[2] + 1>> \notin DOMAIN at' /\ a[1] = g
  BY <1>3, <1>4, <1>5, LiveAddress, Zenon DEF IsTop
<1>7. <<g, s>> \notin DOMAIN at
  BY <1>2, <1>3, Zenon DEF Inv, CatalogInv
<1>8. a[2] < s
  <2>1. SUFFICES ASSUME a[2] >= s PROVE FALSE
    BY <1>3, <1>6
  <2>2. s \in 0..a[2]
    BY <1>3, <1>6, <2>1
  <2> QED BY <1>3, <1>5, <1>6, <1>7, <2>2, Zenon DEF Chain
<1>9. a[2] + 1 # s
  BY <1>4, <1>6, Zenon
<1>10. a[2] + 1 \in 0..(s - 1) /\ <<g, s - 1>>[1] = g /\ <<g, s - 1>>[2] = s - 1
  BY <1>3, <1>6, <1>8, <1>9
<1>11. <<g, s - 1>> \in DOMAIN at
  BY <1>2, <1>3, Zenon
<1>12. <<g, a[2] + 1>> \in DOMAIN at
  BY <1>3, <1>10, <1>11, Zenon DEF Chain
<1> QED BY <1>4, <1>6, <1>12, Zenon

LEMMA FilesNext ==
  ASSUME NEW w, Writers = {w}, ~UnreadableIsEmpty, ~RereadFails, Inv, Inv', Control(w), Chain, \A p \in Procs : Listing(p),
         Files(w), [Next]_vars
  PROVE  Files(w)'
<1>1. w \in Procs /\ nextFile[w] \in Nat
  BY OneWriter, InvTypes, Zenon DEF ProcTypes
<1>2. /\ entry[w] \in Entry /\ seq[w] \in Nat \ {0} /\ pointer \in Entry /\ Len(log) \in Nat
      /\ entry[w].gen \in Nat /\ pointer.gen \in Nat /\ target[w].gen \in Nat
  BY <1>1, Numeric, Zenon
\* the manifest, the version and what waits for deletion stay
<1>3. ASSUME UNCHANGED <<pointer, log, at>>, entry'[w] = entry[w], version'[w] = version[w], pending'[w] = pending[w],
             objects \subseteq objects', objects' \ objects \subseteq {nextFile[w]},
             objects' # objects => pc[w] # "verify" /\ entry[w] # Nowhere /\ nextFile'[w] = nextFile[w] + 1,
             nextFile[w] <= nextFile'[w], nextFile'[w] \in Nat,
             written'[w] \ written[w] \subseteq objects' \ objects,
             pinned'[w] \subseteq pinned[w] \cup {version[w]},
             pc'[w] = "verify" <=> pc[w] = "verify"
      PROVE  Files(w)'
  <2>1. \A a : IsTop(a)' <=> IsTop(a)
    BY <1>3, Zenon DEF IsTop
  <2>2. Dead(w)' = Dead(w)
    BY <1>3, Zenon DEF Dead
  <2>3. \A f \in version[w] \cup written[w] \cup Dead(w) : f \in Nat
    BY <1>1, InvTypes DEF ProcTypes, Dead
  <2>4. \A a \in DOMAIN at' : IsTop(a)' => log'[at'[a]] \subseteq objects' \ Dead(w)'
    BY <1>3, <2>1, <2>2 DEF Files
  <2>5. version'[w] \subseteq objects' \ Dead(w)'
    BY <1>3, <2>2 DEF Files
  <2>6. written'[w] \subseteq objects' /\ written'[w] \cap (Dead(w)' \cup version'[w]) = {}
    <3>1. ASSUME NEW n \in written'[w], n \notin written[w] PROVE n \in objects' /\ n \notin Dead(w) \cup version[w]
      <4>1. n = nextFile[w] /\ pc[w] # "verify" /\ entry[w] # Nowhere /\ n \in objects'
        BY <1>3, <3>1, Zenon
      <4> QED BY <1>1, <4>1 DEF Files
    <3> QED BY <1>3, <2>2, <3>1, Zenon DEF Files
  <2>7. \A v \in pinned'[w] : v \subseteq objects'
    BY <1>3, Zenon DEF Files
  <2>8. pc'[w] = "verify" \/ entry'[w] = Nowhere => pending'[w] = {} /\ written'[w] = {}
    BY <1>3, Zenon DEF Files
  <2>9. pc'[w] # "verify" /\ entry'[w] # Nowhere => \A f \in version'[w] \cup written'[w] \cup Dead(w)' : f < nextFile'[w]
    <3>1. SUFFICES ASSUME pc'[w] # "verify", entry'[w] # Nowhere, NEW f \in version'[w] \cup written'[w] \cup Dead(w)'
                   PROVE  f < nextFile'[w]
      BY Zenon
    <3>2. CASE f \in version[w] \cup written[w] \cup Dead(w)
      BY <1>1, <1>3, <2>3, <3>1, <3>2, SMTT(30) DEF Files
    <3>3. CASE f \notin version[w] \cup written[w] \cup Dead(w)
      BY <1>1, <1>3, <2>2, <3>1, <3>3
    <3> QED BY <3>2, <3>3, Zenon
  <2> QED BY <2>4, <2>5, <2>6, <2>7, <2>8, <2>9, Zenon DEF Files
<1>4. nextFile'[w] \in Nat
  BY <1>1, Zenon DEF Inv, TypeOK
<1>5. CASE Elsewhere(w)
  BY <1>1, <1>3, <1>4, <1>5 DEF Elsewhere, Same
<1>6. CASE Quietly(w)
  BY <1>3, <1>4, <1>6, Zenon DEF Quietly, Serving
<1>7. CASE Verifies(w)
  <2>1. pending[w] = {} /\ written[w] = {} /\ version[w] \subseteq objects
    BY <1>7, Zenon DEF Files, Verifies
  <2>2. Dead(w)' = {} /\ Dead(w) = {}
    BY <1>7, <2>1, Zenon DEF Dead, Verifies
  <2>3. \A a : IsTop(a)' <=> IsTop(a)
    BY <1>7, Zenon DEF IsTop, Verifies, catalogVars
  <2> QED BY <1>7, <2>1, <2>2, <2>3, Zenon DEF Files, Verifies, catalogVars
<1>8. CASE Stops(w)
  <2>1. Dead(w)' = {}
    BY <1>8, Zenon DEF Dead, Stops
  <2>2. \A a : IsTop(a)' <=> IsTop(a)
    BY <1>8, Zenon DEF IsTop, Stops
  <2> QED BY <1>8, <2>1, <2>2, Zenon DEF Files, Stops
<1>9. CASE Adopts(w)
  <2>1. pending[w] = {} /\ written[w] = {}
    BY <1>9, Zenon DEF Files, Adopts
  <2>2. Dead(w)' = {} /\ Dead(w) = {}
    BY <1>9, <2>1, Zenon DEF Dead, Adopts
  <2>3. \A a : IsTop(a)' <=> IsTop(a)
    BY <1>9, Zenon DEF IsTop, Adopts, catalogVars
  <2>4. /\ <<pointer.gen, load[w].seq - 1>> \in DOMAIN at /\ <<pointer.gen, load[w].seq>> \notin DOMAIN at
        /\ load[w].files = log[at[<<pointer.gen, load[w].seq - 1>>]] /\ load[w].seq \in Nat \ {0}
    BY <1>1, <1>9, ReplayedToTop, Zenon DEF Adopts
  <2>5. IsTop(<<pointer.gen, load[w].seq - 1>>)
    BY <2>4 DEF IsTop
  <2>6. load[w].files \subseteq objects
    BY <2>4, <2>5, Zenon DEF Files
  <2> QED BY <1>9, <2>1, <2>2, <2>3, <2>6, Zenon DEF Files, Adopts, catalogVars
<1>10. ASSUME NEW e \in EditsOf(w), Commits(w, e) PROVE Files(w)'
  <2>1. e.added \subseteq written[w] \cup version[w] /\ e.deleted \subseteq version[w]
    BY <1>1, EditFiles, Zenon
  <2>2. /\ pointer = entry[w] /\ entry[w] # Nowhere /\ pc[w] = "idle" /\ entry'[w] = entry[w] /\ objects' = objects
        /\ nextFile'[w] = nextFile[w] /\ pinned'[w] = pinned[w] /\ written'[w] = written[w] \ e.added
        /\ pc'[w] # "verify"
    BY <1>10, WriterAtHome, Zenon DEF Commits
  <2>3. /\ log' = Append(log, ApplyEdit(version[w], e)) /\ at'[<<entry[w].gen, seq[w]>>] = Len(log) + 1
    BY <1>10, Zenon DEF Commits, Land, With
  <2>4. log'[Len(log) + 1] = ApplyEdit(version[w], e)
    BY <2>3 DEF Inv, TypeOK
  <2>5. ApplyEdit(version[w], e) \subseteq objects \ Dead(w)
    BY <2>1, Zenon DEF ApplyEdit, Files
  <2>6. \/ /\ version'[w] = version[w] /\ Dead(w)' = Dead(w)
        \/ /\ version'[w] = ApplyEdit(version[w], e)
           /\ Dead(w)' = Dead(w) \cup (e.deleted \ e.added)
    <3>1. CASE version'[w] = version[w] /\ pending'[w] = pending[w]
      BY <3>1, Zenon DEF Dead
    <3>2. CASE /\ version'[w] = ApplyEdit(version[w], e)
               /\ pending'[w] = pending[w] \cup ((e.deleted \ e.added) \X {now})
      <4>1. \A f \in e.deleted \ e.added : <<f, now>> \in pending'[w] /\ <<f, now>>[1] = f
        BY <3>2, Zenon
      <4>2. \A f \in e.deleted \ e.added : f \in Dead(w)'
        BY <4>1, Zenon DEF Dead
      <4>3. Dead(w) \subseteq Dead(w)' /\ \A f \in Dead(w)' : f \in Dead(w) \/ f \in e.deleted \ e.added
        BY <3>2, Zenon DEF Dead
      <4> QED BY <3>2, <4>2, <4>3, Zenon
    <3> QED BY <1>10, <3>1, <3>2, Zenon DEF Commits
  <2>7. /\ version'[w] \subseteq objects \ Dead(w)' /\ ApplyEdit(version[w], e) \subseteq objects \ Dead(w)'
        /\ written'[w] \cap (Dead(w)' \cup version'[w]) = {}
        /\ version'[w] \cup written'[w] \cup Dead(w)' \subseteq version[w] \cup written[w] \cup Dead(w)
    BY <2>1, <2>2, <2>5, <2>6, Zenon DEF Files, ApplyEdit
  <2>8. ASSUME NEW a \in DOMAIN at', IsTop(a)' PROVE log'[at'[a]] \subseteq objects' \ Dead(w)'
    BY <1>10, <2>2, <2>3, <2>4, <2>7, <2>8, CommitTop, Zenon
  <2> QED BY <2>2, <2>7, <2>8, Zenon DEF Files
<1>11. CASE Switches(w)
  <2>1. pointer = entry[w] /\ pointer.gen < target[w].gen
    BY <1>11, WriterInRoll, Zenon DEF Switches
  <2>2. pointer'.gen = target[w].gen
    BY <1>11, Zenon DEF Switches, MovePointer, SetPointer
  <2>3. ASSUME NEW a \in DOMAIN at', IsTop(a)' PROVE log'[at'[a]] = version[w]
    <3>1. a[1] = target[w].gen
      BY <2>2, <2>3, ZenonT(40) DEF IsTop
    <3>2. a \notin DOMAIN at
      BY <1>2, <2>1, <3>1, LiveAddress
    <3>3. CASE entry[w] = Nowhere
      <4>1. /\ log' = Append(log, {}) /\ at' = With(at, <<target[w].gen, 0>>, Len(log) + 1) /\ version[w] = {}
        BY <1>1, <1>11, <3>3, Zenon DEF Switches, MovePointer, Inv, ProcInv, ServingInv
      <4>2. at'[a] = Len(log) + 1
        BY <2>3, <3>2, <4>1, Zenon DEF With
      <4> QED BY <4>1, <4>2 DEF Inv, TypeOK
    <3>4. CASE entry[w] # Nowhere
      <4>1. /\ log' = log /\ at' = With(at, <<target[w].gen, 0>>, Standing(w)) /\ version[w] = log[Standing(w)]
        BY <1>1, <1>11, <2>1, <3>4, Zenon DEF Switches, MovePointer, Inv, ProcInv, ServingInv
      <4>2. at'[a] = Standing(w)
        BY <2>3, <3>2, <4>1, Zenon DEF With
      <4> QED BY <4>1, <4>2, Zenon
    <3> QED BY <3>3, <3>4, Zenon
  <2>4. Dead(w)' = Dead(w) /\ pc[w] = "cas" /\ pc'[w] # "verify"
    BY <1>11, Zenon DEF Switches, Dead
  <2>5. \A a \in DOMAIN at' : IsTop(a)' => log'[at'[a]] \subseteq objects' \ Dead(w)'
    BY <1>11, <2>3, <2>4, Zenon DEF Files, Switches
  <2> QED BY <1>11, <2>4, <2>5, Zenon DEF Files, Switches
<1>12. CASE Installs(w)
  <2>1. Dead(w)' = Dead(w) /\ pc[w] = "installed" /\ pc'[w] # "verify" /\ pointer = NextEntry(w)
    BY <1>12, Zenon DEF Installs, Dead, Control
  <2>2. \A a : IsTop(a)' <=> IsTop(a)
    BY <1>12, Zenon DEF IsTop, Installs
  <2>3. entry'[w] # Nowhere
    <3>1. entry[w].gen < target[w].gen
      BY <1>1, <2>1, Zenon DEF Inv, ProcInv, RollInv, Rolling
    <3> QED BY <1>2, <1>12, <3>1, NoEntryYet DEF Installs, NextEntry
  <2>4. \A f \in version[w] \cup written[w] \cup Dead(w) : f < nextFile[w]
    <3>1. CASE entry[w] = Nowhere
      BY <1>1, <3>1, Zenon DEF Files, Inv, ProcInv, ServingInv, Dead
    <3>2. CASE entry[w] # Nowhere
      BY <2>1, <3>2, Zenon DEF Files
    <3> QED BY <3>1, <3>2, Zenon
  <2> QED BY <1>12, <2>1, <2>2, <2>3, <2>4, Zenon DEF Files, Installs
<1>13. CASE Collects(w)
  <2>1. pointer = entry[w] /\ entry[w] # Nowhere /\ entry'[w] = entry[w] /\ pc[w] # "verify" /\ pc'[w] # "verify"
    BY <1>13, WriterAtHome, Zenon DEF Collects
  <2>2. \A a : IsTop(a)' <=> IsTop(a)
    BY <1>13, Zenon DEF IsTop, Collects, catalogVars
  <2>3. Dead(w)' \subseteq Dead(w)
    BY <1>13 DEF Dead, Collects, Collectable
  <2>4. objects \ objects' \subseteq Dead(w) /\ \A v \in pinned[w] : v \cap (objects \ objects') = {}
    BY <1>13 DEF Dead, Collects, Collectable
  <2>5. \A v \in pinned[w] : v \subseteq objects'
    BY <2>4, Zenon DEF Files
  <2>6. \A a \in DOMAIN at' : IsTop(a)' => log'[at'[a]] \subseteq objects' \ Dead(w)'
    BY <1>13, <2>2, <2>3, <2>4, Zenon DEF Files, Collects
  <2>7. version[w] \subseteq objects' \ Dead(w)' /\ written[w] \subseteq objects' /\ written[w] \cap (Dead(w)' \cup version[w]) = {}
    BY <2>3, <2>4, Zenon DEF Files
  <2>8. \A f \in version[w] \cup written[w] \cup Dead(w)' : f < nextFile[w]
    BY <2>1, <2>3, Zenon DEF Files
  <2> QED BY <1>13, <2>1, <2>5, <2>6, <2>7, <2>8, Zenon DEF Files, Collects
<1> QED BY <1>5, <1>6, <1>7, <1>8, <1>9, <1>10, <1>11, <1>12, <1>13, StepKinds, Zenon

-----------------------------------------------------------------------------
(* The writer's own open never reports damage. *)

\* what recover cannot find, it could not read
Undamaged(w) == status[w] # "Corrupt" /\ (pc[w] = "missing" => load[w].verdict = "Io")

\* Below the tail of its listing the live generation has every edit, whole.
LEMMA NoGapBelowTail ==
  ASSUME NEW w, Writers = {w}, Inv, Control(w), Chain, pc[w] = "replay", NEW k \in load[w].listed, k > load[w].seq
  PROVE  <<load[w].entry.gen, load[w].seq>> \in DOMAIN edits /\ ~edits[<<load[w].entry.gen, load[w].seq>>].torn
<1>1. w \in Procs /\ load[w] \in Attempt /\ load[w].seq \in Nat \ {0} /\ pc[w] \in Replaying
  BY OneWriter, Zenon DEF Inv, TypeOK, Attempt, Replaying
<1>2. load[w].entry = pointer /\ load[w].listed = ListEdits(pointer.gen)
  BY <1>1, Zenon DEF Control
<1>3. PICK g \in Nat, s \in Nat \ {0} : g = pointer.gen /\ s = load[w].seq
  BY <1>1, Numeric, Zenon
<1>4. PICK b \in DOMAIN edits : b[1] = g /\ b[2] = k
  BY <1>2, <1>3, Zenon DEF ListEdits
<1>5. k \in Nat
  BY <1>4, Zenon DEF Inv, TypeOK
<1>6. <<g, k - 1>> \in DOMAIN at
  BY <1>3, <1>4, Zenon DEF Chain
<1>7. s \in 0..(k - 1) /\ <<g, k - 1>>[1] = g /\ <<g, k - 1>>[2] = k - 1 /\ <<g, s>>[1] = g /\ <<g, s>>[2] # 0
  BY <1>3, <1>5
<1>8. <<g, s>> \in DOMAIN at
  BY <1>3, <1>6, <1>7, Zenon DEF Chain
<1>9. <<g, s>> \in DOMAIN edits /\ ~edits[<<g, s>>].torn
  BY <1>3, <1>7, <1>8, LiveEdit, Zenon DEF Chain
<1> QED BY <1>2, <1>3, <1>9, Zenon

LEMMA UndamagedNext ==
  ASSUME NEW w, Writers = {w}, ~UnreadableIsEmpty, ~RereadFails, Inv, Control(w), Chain, Files(w), Undamaged(w), [Next]_vars
  PROVE  Undamaged(w)'
<1>1. w \in Procs
  BY OneWriter, Zenon
<1>2. ProcTypes
  BY InvTypes, Zenon
<1> USE DEF ProcTypes
<1>3. CASE Tick \/ UNCHANGED vars
  BY <1>3, Zenon DEF Tick, vars, Undamaged, localVars
<1>4. ASSUME NEW r \in Readers, Recover(r) \/ Read(r) \/ Crash(r) PROVE Undamaged(w)'
  BY <1>4, ReaderElsewhere, Zenon DEF Undamaged, Elsewhere, Same
\* what ends recover, or starts another attempt
<1>5. ASSUME NEW s, s # "Corrupt", Fail(w, s) PROVE Undamaged(w)'
  BY <1>1, <1>2, <1>5, Zenon DEF Undamaged, Fail, Goto
<1>6. ASSUME Retry(w) PROVE Undamaged(w)'
  <2>1. CASE Goto(w, "read") /\ UNCHANGED status
    BY <1>1, <1>2, <2>1, Zenon DEF Undamaged, Goto
  <2> QED BY <1>5, <1>6, <2>1, Zenon DEF Retry
<1>7. ASSUME UNCHANGED status, NEW c, c # "missing", pc' = [pc EXCEPT ![w] = c] PROVE Undamaged(w)'
  BY <1>1, <1>2, <1>7, Zenon DEF Undamaged
<1>8. ASSUME UNCHANGED status, pc' = [pc EXCEPT ![w] = "missing"], load' = [load EXCEPT ![w].verdict = "Io"]
      PROVE  Undamaged(w)'
  BY <1>1, <1>2, <1>8, Zenon DEF Undamaged, Attempt
<1>9. ASSUME NEW s, s # "Corrupt", Forget(w, s) PROVE Undamaged(w)'
  BY <1>1, <1>2, <1>9, Zenon DEF Undamaged, Forget, Goto
<1>10. ASSUME pc[w] \in Replaying
       PROVE  load[w].entry = pointer /\ pointer # Nowhere /\ ~Moved(w) /\ entry[w] = Nowhere
  BY <1>1, <1>10, NoEntryYet, Zenon DEF Control, Moved, Inv, ProcInv, ReplayInv
<1>11. CASE Open(w)
  BY <1>1, <1>2, <1>11, Zenon DEF Open, Goto, Undamaged
<1>12. CASE ReadPointer(w)
  BY <1>5, <1>7, <1>12, Zenon DEF ReadPointer, Goto
<1>13. CASE GetSnapshot(w)
  <2>1. load[w].entry.gen \in DOMAIN snapshots /\ ~snapshots[load[w].entry.gen].torn
    BY <1>10, <1>13, Zenon DEF GetSnapshot, Replaying, Inv, CatalogInv
  <2> QED BY <1>7, <1>13, <2>1, Zenon DEF GetSnapshot, Goto
<1>14. CASE ListEditsOf(w)
  BY <1>7, <1>14, Zenon DEF ListEditsOf, Goto
<1>15. CASE GetEdit(w)
  <2> DEFINE a == <<load[w].entry.gen, load[w].seq>>
  <2>1. pc[w] = "replay"
    BY <1>15, Zenon DEF GetEdit
  <2>2. ASSUME ~(\A k \in load[w].listed : k <= load[w].seq), a \in DOMAIN edits => edits[a].torn PROVE FALSE
    <3>1. PICK k \in load[w].listed : ~(k <= load[w].seq)
      BY <2>2, Zenon
    <3>2. k \in Nat /\ load[w].seq \in Nat
      BY <1>1, <1>2, Zenon DEF Attempt
    <3> QED BY <2>1, <2>2, <3>1, <3>2, NoGapBelowTail
  <2>3. CASE pc' = pc /\ UNCHANGED status
    BY <2>1, <2>3, Zenon DEF Undamaged
  <2>4. CASE Goto(w, "confirm") /\ UNCHANGED status
    BY <1>7, <2>4, Zenon DEF Goto
  <2>5. CASE Goto(w, "missing") /\ load' = [load EXCEPT ![w].verdict = "Io"] /\ UNCHANGED status
    BY <1>8, <2>5, Zenon DEF Goto
  <2> HIDE DEF a
  <2> QED BY <1>15, <2>2, <2>3, <2>4, <2>5, Zenon DEF GetEdit, a
<1>16. CASE Reread(w)
  <2>1. pc[w] = "missing" /\ load[w].verdict = "Io"
    BY <1>16, Zenon DEF Reread, Undamaged
  <2> QED BY <1>5, <1>6, <1>16, <2>1, Zenon DEF Reread
<1>17. CASE RecoverIo(w)
  BY <1>5, <1>17, Zenon DEF RecoverIo
<1>18. CASE Confirm(w)
  <2>1. ~Moved(w) /\ entry[w] = Nowhere
    BY <1>10, <1>18, Zenon DEF Confirm, Replaying
  <2>2. Goto(w, "verify") /\ UNCHANGED status
    BY <1>18, <2>1, Zenon DEF Confirm
  <2> QED BY <1>7, <2>2, Zenon DEF Goto
<1>19. CASE VerifyStores(w)
  <2>1. version[w] \subseteq objects
    BY Zenon DEF Files
  <2>2. CASE Goto(w, "idle") /\ UNCHANGED status
    BY <1>7, <2>2, Zenon DEF Goto
  <2> QED BY <1>9, <1>19, <2>1, <2>2, Zenon DEF VerifyStores, localVars
<1>20. CASE ObserveAfterCreate(w) \/ CollectObsolete(w) \/ RollNow(w)
  BY <1>7, <1>20, Zenon DEF ObserveAfterCreate, CollectObsolete, RollNow, Goto, localVars
<1>21. CASE Crash(w) \/ CrashMidWrite(w)
  BY <1>9, <1>21, Zenon DEF Crash, CrashMidWrite
<1>22. CASE PutObject(w) \/ Pin(w) \/ Unpin(w)
  BY <1>22, Zenon DEF PutObject, Pin, Unpin, Undamaged, localVars
<1>23. CASE Apply(w)
  <2>1. /\ pc[w] = "idle" /\ UNCHANGED status
        /\ pc' = pc \/ Goto(w, "collect") \/ Goto(w, "putSnapshot")
    BY <1>23, Zenon DEF Apply
  <2>2. CASE pc' = pc
    BY <2>1, <2>2, Zenon DEF Undamaged
  <2> QED BY <1>7, <2>1, <2>2, Zenon DEF Goto
<1>24. CASE Roll(w)
  <2>1. UNCHANGED status /\ \E c : pc' = [pc EXCEPT ![w] = c]
    BY <1>24, Zenon DEF Roll, PutSnapshot, Collided, Relist, CompareAndSet, SettleCas, Installed, RollFailed, Goto
  <2>2. target[w].then # "missing"
    BY <1>1, <1>2, Zenon DEF Target
  <2>3. RollFailed(w) => Undamaged(w)'
    BY <1>7, <2>1, <2>2, Zenon DEF RollFailed, Goto
  <2> QED BY <1>7, <1>24, <2>1, <2>2, <2>3, Zenon DEF Roll, PutSnapshot, Collided, Relist, CompareAndSet, SettleCas, Installed,
          Goto
<1> QED BY <1>3, <1>4, <1>11, <1>12, <1>13, <1>14, <1>15, <1>16, <1>17, <1>18, <1>19, <1>20, <1>21, <1>22, <1>23, <1>24,
        WhoSteps, Zenon DEF WriterSteps

-----------------------------------------------------------------------------
(* The retention window. *)

\* V was readable at time t: it still is, or the window that began then is over
Fresh(w, V, t) ==
    \/ now - t >= Retention
    \/ \A f \in V : f \in objects /\ \A d \in pending[w] : d[1] = f => d[2] >= t

\* replay of the live generation may stop at a: no edit after it is listed and durable
LastListed(r, a) ==
    /\ a[1] = pointer.gen
    /\ a[2] = 0 \/ a[2] \in load[r].listed
    /\ a[2] + 1 \notin load[r].listed \/ <<a[1], a[2] + 1>> \notin DOMAIN at

\* what a reader serves was readable when it listed the edits, and so is every
\* version it may still replay to
Window(w, r) ==
    /\ entry[r] # Nowhere => asOf[r] <= now /\ Fresh(w, version[r], asOf[r])
    /\ load[r].since <= now
    /\ pc[r] \in {"replay", "confirm"} /\ load[r].entry.gen = pointer.gen =>
          \A a \in DOMAIN at : LastListed(r, a) => Fresh(w, log[at[a]], load[r].since)

\* an object goes only when its window is over, and waits from now or from then
Retires(w) ==
    /\ now' >= now /\ now' \in Nat
    /\ \A f \in objects \ objects' : \E d \in pending[w] : d[1] = f /\ now - d[2] >= Retention
    /\ \A c \in pending'[w] : \/ c \in pending[w] \/ c[2] = now
                              \/ \E d \in pending[w] : d[1] = c[1] /\ now - d[2] >= Retention

LEMMA RetiresNext ==
  ASSUME NEW w, Writers = {w}, Inv, Inv', Control(w), [Next]_vars PROVE Retires(w)
<1>1. now \in Nat /\ now' \in Nat
  BY Zenon DEF Inv, TypeOK
<1>2. now' >= now
  <2>1. now' = now \/ now' = now + 1
    <3>1. CASE Tick \/ UNCHANGED vars
      BY <3>1, Zenon DEF Tick, vars, boundVars
    <3>2. ASSUME NEW p \in Procs, Recover(p) \/ Read(p) \/ Crash(p) \/ CrashMidWrite(p) PROVE now' = now
      BY <3>2, Zenon DEF Recover, Open, Refresh, ReadPointer, GetSnapshot, ListEditsOf, GetEdit, Reread, Confirm,
         RecoverIo, VerifyStores, ObserveAfterCreate, Read, Pin, Unpin, ReadMissing, AdvancedPointer, AdvancedList,
         Crash, CrashMidWrite, Fault, NoFault, boundVars
    <3>3. ASSUME NEW p \in Procs, PutObject(p) \/ Apply(p) \/ RollNow(p) \/ Roll(p) \/ CollectObsolete(p)
          PROVE  now' = now
      BY <3>3, Zenon DEF PutObject, Apply, RollNow, Roll, PutSnapshot, Collided, Relist, CompareAndSet, SettleCas,
         Installed, CollectObsolete, Fault, NoFault, boundVars
    <3> QED BY <3>1, <3>2, <3>3, Zenon DEF Next
  <2> QED BY <1>1, <2>1
<1>3. ASSUME objects \subseteq objects', pending'[w] \subseteq pending[w] PROVE Retires(w)
  BY <1>1, <1>2, <1>3, Zenon DEF Retires
<1>4. CASE Elsewhere(w) \/ Quietly(w) \/ Verifies(w) \/ Stops(w) \/ Adopts(w) \/ Switches(w) \/ Installs(w)
  BY <1>3, <1>4, Zenon DEF Elsewhere, Quietly, Verifies, Stops, Adopts, Switches, Installs
<1>5. ASSUME NEW e \in EditsOf(w), Commits(w, e) PROVE Retires(w)
  <2>1. objects' = objects /\ \A c \in pending'[w] : c \in pending[w] \/ c[2] = now
    BY <1>5, Zenon DEF Commits
  <2> QED BY <1>1, <1>2, <2>1, Zenon DEF Retires
<1>6. CASE Collects(w)
  <2>1. \A d \in Collectable(w) : d \in pending[w] /\ now - d[2] >= Retention
    BY Zenon DEF Collectable
  <2> QED BY <1>1, <1>2, <1>6, <2>1, Zenon DEF Retires, Collects
<1> QED BY <1>4, <1>5, <1>6, StepKinds, Zenon

\* Fresh after a step, of a version and a time before it
StillFresh(w, V, t) ==
    \/ now' - t >= Retention
    \/ \A f \in V : f \in objects' /\ \A d \in pending'[w] : d[1] = f => d[2] >= t

LEMMA FreshStays ==
  ASSUME NEW w, Writers = {w}, Inv, Retires(w), NEW V, NEW t \in Nat, t <= now, Fresh(w, V, t)
  PROVE  StillFresh(w, V, t)
<1>1. /\ now \in Nat /\ now' \in Nat /\ now' >= now /\ Retention \in Nat
      /\ \A d \in pending[w] : d[2] \in Nat
  <2>1. now \in Nat /\ now' \in Nat /\ now' >= now /\ Retention \in Nat /\ pending[w] \in SUBSET (Nat \X Nat)
    BY OneWriter, InvTypes, ConstantsAssumption, Zenon DEF Inv, TypeOK, Retires, ProcTypes
  <2> QED BY <2>1
<1>2. CASE now - t >= Retention
  BY <1>1, <1>2, Aged, Zenon DEF StillFresh
<1>3. CASE now - t < Retention
  <2>1. \A f \in V : f \in objects /\ \A d \in pending[w] : d[1] = f => d[2] >= t
    BY <1>1, <1>3 DEF Fresh
  <2>2. \A f \in V, d \in pending[w] : d[1] = f => ~(now - d[2] >= Retention)
    BY <1>1, <1>3, <2>1
  <2>3. \A f \in V : f \in objects'
    BY <2>1, <2>2, Zenon DEF Retires
  <2>4. ASSUME NEW f \in V, NEW c \in pending'[w], c[1] = f PROVE c[2] >= t
    BY <1>1, <2>1, <2>2, <2>4, Zenon DEF Retires
  <2> QED BY <2>3, <2>4, Zenon DEF StillFresh
<1> QED BY <1>1, <1>2, <1>3

\* A reader that is left alone keeps its window.
LEMMA WindowStays ==
  ASSUME NEW w, Writers = {w}, Inv, Inv', [Next]_vars, Retires(w), Grows,
         NEW r \in Procs, Window(w, r), Listing(r), Same(r), asOf'[r] = asOf[r]
  PROVE  Window(w, r)'
<1>1. /\ load[r].since \in Nat /\ asOf[r] \in Nat /\ now \in Nat /\ now' \in Nat /\ now' >= now
      /\ load[r].entry.gen \in Nat /\ pointer.gen \in Nat
  BY Zenon DEF Inv, TypeOK, Attempt, Entry, Retires
<1>2. \A V, t : t \in Nat /\ t <= now /\ Fresh(w, V, t) => StillFresh(w, V, t)
  BY FreshStays, Zenon
<1>3. entry[r] # Nowhere => asOf[r] <= now' /\ StillFresh(w, version[r], asOf[r])
  BY <1>1, <1>2 DEF Window
<1>4. load[r].since <= now'
  BY <1>1 DEF Window
<1>5. ASSUME pc[r] \in {"replay", "confirm"}, load[r].entry.gen = pointer'.gen, NEW a \in DOMAIN at',
             a[1] = pointer'.gen, a[2] = 0 \/ a[2] \in load[r].listed,
             a[2] + 1 \notin load[r].listed \/ <<a[1], a[2] + 1>> \notin DOMAIN at'
      PROVE  StillFresh(w, log'[at'[a]], load[r].since)
  <2>1. pointer' = pointer /\ pointer # Nowhere
    <3>1. <<load[r].entry.gen, load[r].seq - 1>> \in DOMAIN at /\ load[r].entry.gen # 0
      BY <1>5, Zenon DEF Inv, ProcInv, ReplayInv, Replaying
    <3>2. <<load[r].entry.gen, load[r].seq - 1>>[1] <= pointer.gen
      BY <3>1, LiveAddress, Zenon
    <3> QED BY <1>1, <1>5, <3>1, <3>2, NoEntryYet DEF Grows
  <2>2. a \in DOMAIN at
    <3>1. SUFFICES ASSUME a \notin DOMAIN at PROVE FALSE
      BY Zenon
    <3>2. a \notin DOMAIN edits /\ a = <<pointer.gen, a[2]>>
      <4>1. DOMAIN at' \subseteq Nat \X Nat
        BY Zenon DEF Inv, TypeOK
      <4> QED BY <1>5, <2>1, <3>1, <4>1 DEF Grows
    <3>3. a[2] # 0
      BY <2>1, <3>1, <3>2, Zenon DEF Inv, CatalogInv
    <3> QED BY <1>5, <2>1, <3>2, <3>3, Zenon DEF Listing
  <2>3. a[2] + 1 \notin load[r].listed \/ <<a[1], a[2] + 1>> \notin DOMAIN at
    BY <1>5, Zenon DEF Grows
  <2>4. Fresh(w, log[at[a]], load[r].since)
    BY <1>5, <2>1, <2>2, <2>3, Zenon DEF Window, LastListed
  <2>5. at[a] \in 1..Len(log)
    BY <2>2, LiveAddress, Zenon
  <2>6. log'[at'[a]] = log[at[a]]
    BY <2>2, <2>5, Zenon DEF Grows
  <2>7. StillFresh(w, log[at[a]], load[r].since)
    BY <1>1, <1>2, <2>4, Zenon DEF Window
  <2> QED BY <2>6, <2>7, ZenonT(40)
<1> QED BY <1>3, <1>4, <1>5, Zenon DEF Window, LastListed, Fresh, StillFresh, Same

\* A reader that lists the edits lists every durable one: what it may replay to is
\* the newest version, and nothing of that waits for deletion.
LEMMA WindowOpens ==
  ASSUME NEW w, Writers = {w}, ~UnreadableIsEmpty, Inv, Files(w), Retires(w), NEW r \in Readers, Window(w, r), ListEditsOf(r),
         Elsewhere(w)
  PROVE  Window(w, r)'
<1>1. r \in Procs /\ load \in [Procs -> Attempt] /\ now \in Nat
  BY Zenon DEF Procs, Inv, TypeOK
<1>2. /\ load' = [load EXCEPT ![r].listed = ListEdits(load[r].entry.gen), ![r].since = now]
      /\ UNCHANGED <<pointer, edits, entry, version, asOf, at, log, now, objects>>
  BY Zenon DEF ListEditsOf, RecoverFrame, catalogVars, instanceVars, historyVars, NoFault, boundVars
<1>3. load'[r].listed = ListEdits(load[r].entry.gen) /\ load'[r].entry = load[r].entry /\ load'[r].since = now
  BY <1>1, <1>2, Zenon DEF Attempt
<1>4. pending'[w] = pending[w]
  BY Zenon DEF Elsewhere
<1>5. ASSUME load[r].entry.gen = pointer.gen, NEW a \in DOMAIN at, a[1] = pointer.gen,
             a[2] + 1 \notin ListEdits(pointer.gen) \/ <<a[1], a[2] + 1>> \notin DOMAIN at
      PROVE  Fresh(w, log[at[a]], now)
  <2>1. a[2] + 1 \in Nat \ {0}
    BY LiveAddress
  <2>2. <<a[1], a[2] + 1>> \notin DOMAIN at
    <3>1. SUFFICES ASSUME <<pointer.gen, a[2] + 1>> \in DOMAIN at PROVE a[2] + 1 \in ListEdits(pointer.gen)
      BY <1>5, Zenon
    <3>2. <<pointer.gen, a[2] + 1>> \in DOMAIN edits
      BY <2>1, <3>1, Zenon DEF Inv, CatalogInv
    <3> QED BY <3>2 DEF ListEdits
  <2>3. log[at[a]] \subseteq objects \ Dead(w)
    BY <1>5, <2>2, Zenon DEF Files, IsTop
  <2> QED BY <2>3, Zenon DEF Fresh, Dead
<1>6. entry[r] # Nowhere => asOf[r] <= now /\ Fresh(w, version[r], asOf[r])
  BY Zenon DEF Window
<1> QED BY <1>1, <1>2, <1>3, <1>4, <1>5, <1>6 DEF Window, LastListed, Fresh

\* A step of recover that neither lists nor installs.
LEMMA WindowReads ==
  ASSUME NEW w, Writers = {w}, Inv, NEW r \in Readers, Window(w, r), Elsewhere(w), now' = now,
         entry'[r] = Nowhere \/ (entry'[r] = entry[r] /\ version'[r] = version[r] /\ asOf'[r] = asOf[r]),
         \/ load'[r].since = 0 /\ pc'[r] \notin {"replay", "confirm"}
         \/ load'[r].since = load[r].since /\ pc'[r] \notin {"replay", "confirm"}
         \/ /\ load'[r].since = load[r].since /\ load'[r].entry = load[r].entry /\ load'[r].listed = load[r].listed
            /\ pc[r] \in {"replay", "confirm"}
  PROVE  Window(w, r)'
<1>1. now \in Nat /\ load[r].since <= now
  BY Zenon DEF Inv, TypeOK, Window
<1>2. UNCHANGED <<pointer, at, log, objects>> /\ pending'[w] = pending[w]
  BY Zenon DEF Elsewhere
<1> QED BY <1>1, <1>2 DEF Window, LastListed, Fresh

LEMMA WindowMoves ==
  ASSUME NEW w, Writers = {w}, ~UnreadableIsEmpty, Inv, Control(w), Chain, Files(w), Retires(w), NEW r \in Readers,
         Window(w, r), Listing(r), Recover(r) \/ Read(r) \/ Crash(r)
  PROVE  Window(w, r)'
<1>1. r \in Procs /\ r \notin Writers /\ Elsewhere(w)
  BY ReaderElsewhere, OneWriter, Zenon DEF Procs
<1>2. ProcTypes /\ now \in Nat
  BY InvTypes, Zenon DEF Inv, TypeOK
<1> USE DEF ProcTypes
<1>3. now' = now
  BY Zenon DEF Recover, Open, Refresh, ReadPointer, GetSnapshot, ListEditsOf, GetEdit, Reread, Confirm, RecoverIo,
     VerifyStores, ObserveAfterCreate, Read, Pin, Unpin, ReadMissing, AdvancedPointer, AdvancedList, Crash, Fault,
     NoFault, boundVars
\* what ends recover, or starts another attempt
<1>4. ASSUME UNCHANGED <<entry, version, asOf>>, Retry(r) \/ (\E s : Fail(r, s)) PROVE Window(w, r)'
  <2>1. load'[r].since = 0 /\ pc'[r] \notin {"replay", "confirm"}
    BY <1>1, <1>2, <1>4 DEF Retry, Fail, Goto, FreshAttempt, NoLoad
  <2> QED BY <1>1, <1>3, <1>4, <2>1, WindowReads, Zenon
<1>5. ASSUME UNCHANGED <<entry, version, asOf, load>>, pc' = pc \/ \E c : pc' = [pc EXCEPT ![r] = c] /\ c \notin {"replay", "confirm"}
      PROVE  Window(w, r)'
  <2>1. pc'[r] = pc[r] \/ pc'[r] \notin {"replay", "confirm"}
    BY <1>1, <1>2, <1>5, Zenon
  <2> QED BY <1>1, <1>3, <1>5, <2>1, WindowReads, Zenon
<1>6. ASSUME NEW s, Forget(r, s) PROVE Window(w, r)'
  <2>1. load'[r].since = 0 /\ pc'[r] = "down" /\ entry'[r] = Nowhere
    BY <1>1, <1>2, <1>6, Zenon DEF Forget, Goto, NoLoad
  <2> QED BY <1>1, <1>3, <2>1, WindowReads, Zenon
<1>7. CASE Open(r)
  <2>1. UNCHANGED <<entry, version, asOf, load>> /\ pc' = [pc EXCEPT ![r] = "read"]
    BY <1>7, Zenon DEF Open, Goto, instanceVars, historyVars
  <2>2. pc'[r] = "read"
    BY <1>1, <1>2, <2>1, Zenon
  <2> QED BY <1>1, <1>3, <2>1, <2>2, WindowReads, Zenon
<1>8. CASE Refresh(r)
  <2>1. /\ load'[r].since = 0 /\ pc'[r] = "read" /\ UNCHANGED <<entry, version, asOf>>
    BY <1>1, <1>2, <1>8, Zenon DEF Refresh, Goto, NoLoad, instanceVars, historyVars
  <2> QED BY <1>1, <1>3, <2>1, WindowReads, Zenon
<1>9. CASE ReadPointer(r)
  <2>1. UNCHANGED <<entry, version, asOf>>
    BY <1>9, Zenon DEF ReadPointer, instanceVars, historyVars
  <2>2. CASE Fail(r, "NotFound")
    BY <1>4, <2>1, <2>2, Zenon
  <2>3. CASE Goto(r, "snapshot") /\ load' = [load EXCEPT ![r].entry = pointer, ![r].tries = @ + 1]
    <3>1. load'[r].since = load[r].since /\ pc'[r] = "snapshot"
      BY <1>1, <1>2, <2>3 DEF Goto, Attempt
    <3> QED BY <1>1, <1>3, <2>1, <3>1, WindowReads, Zenon
  <2> QED BY <1>1, <1>9, <2>2, <2>3, Zenon DEF ReadPointer
<1>10. CASE GetSnapshot(r)
  <2>1. UNCHANGED <<entry, version, asOf>>
    BY <1>10, Zenon DEF GetSnapshot, RecoverFrame, instanceVars, historyVars
  <2>2. CASE Fail(r, "Corrupt")
    BY <1>4, <2>1, <2>2, Zenon
  <2>3. ASSUME NEW F, NEW N, Goto(r, "list"), load' = [load EXCEPT ![r].files = F, ![r].next = N] PROVE Window(w, r)'
    <3>1. load'[r].since = load[r].since /\ pc'[r] = "list"
      BY <1>1, <1>2, <2>3 DEF Goto, Attempt
    <3> QED BY <1>1, <1>3, <2>1, <3>1, WindowReads, Zenon
  <2>4. CASE Goto(r, "missing") /\ load' = [load EXCEPT ![r].verdict = "Corrupt"]
    <3>1. load'[r].since = load[r].since /\ pc'[r] = "missing"
      BY <1>1, <1>2, <2>4 DEF Goto, Attempt
    <3> QED BY <1>1, <1>3, <2>1, <3>1, WindowReads, Zenon
  <2> QED BY <1>10, <2>2, <2>3, <2>4, Zenon DEF GetSnapshot
<1>11. CASE GetEdit(r)
  <2>1. pc[r] = "replay" /\ UNCHANGED <<entry, version, asOf>>
    BY <1>11, Zenon DEF GetEdit, RecoverFrame, instanceVars, historyVars
  <2>2. CASE Fail(r, "Corrupt")
    BY <1>4, <2>1, <2>2, Zenon
  <2>3. ASSUME NEW F, NEW N, NEW S, load' = [load EXCEPT ![r].files = F, ![r].next = N, ![r].seq = S] PROVE Window(w, r)'
    <3>1. load'[r].since = load[r].since /\ load'[r].entry = load[r].entry /\ load'[r].listed = load[r].listed
      BY <1>1, <1>2, <2>3 DEF Attempt
    <3> QED BY <1>1, <1>3, <2>1, <3>1, WindowReads, Zenon
  <2>4. CASE load' = load
    BY <1>1, <1>3, <2>1, <2>4, WindowReads, Zenon
  <2>5. ASSUME NEW v, load' = [load EXCEPT ![r].verdict = v] PROVE Window(w, r)'
    <3>1. load'[r].since = load[r].since /\ load'[r].entry = load[r].entry /\ load'[r].listed = load[r].listed
      BY <1>1, <1>2, <2>5 DEF Attempt
    <3> QED BY <1>1, <1>3, <2>1, <3>1, WindowReads, Zenon
  <2>6. \/ load' = load \/ Fail(r, "Corrupt") \/ load' = [load EXCEPT ![r].verdict = "Corrupt"]
        \/ load' = [load EXCEPT ![r].verdict = "Io"]
        \/ load' = [load EXCEPT ![r].files = ApplyEdit(@, edits[<<load[r].entry.gen, load[r].seq>>]),
                                ![r].next = ReplayedNext(@, edits[<<load[r].entry.gen, load[r].seq>>]),
                                ![r].seq = load[r].seq + 1]
    BY <1>11, Zenon DEF GetEdit
  <2> QED BY <2>2, <2>3, <2>4, <2>5, <2>6, Zenon
<1>12. CASE Reread(r) \/ RecoverIo(r)
  <2>1. UNCHANGED <<entry, version, asOf>>
    BY <1>12, Zenon DEF Reread, RecoverIo, RecoverFrame, instanceVars, historyVars
  <2> QED BY <1>4, <1>12, <2>1, Zenon DEF Reread, RecoverIo
<1>13. CASE VerifyStores(r) \/ Crash(r)
  BY <1>5, <1>6, <1>13, Zenon DEF VerifyStores, Crash, Goto, localVars
<1>14. CASE ObserveAfterCreate(r) \/ Pin(r) \/ Unpin(r) \/ ReadMissing(r)
  BY <1>5, <1>14, Zenon DEF ObserveAfterCreate, Pin, Unpin, ReadMissing, Goto, localVars, instanceVars, historyVars
<1>15. CASE AdvancedPointer(r) \/ AdvancedList(r)
  BY <1>5, <1>6, <1>15, Zenon DEF AdvancedPointer, AdvancedList, AnswerStale, Goto, localVars, instanceVars
<1>16. CASE Confirm(r)
  <2>1. CASE UNCHANGED <<entry, version, asOf>> /\ (Retry(r) \/ Fail(r, "Corrupt"))
    BY <1>4, <2>1, Zenon
  <2>2. CASE /\ ~Moved(r)
             /\ entry' = [entry EXCEPT ![r] = load[r].entry] /\ version' = [version EXCEPT ![r] = load[r].files]
             /\ asOf' = [asOf EXCEPT ![r] = load[r].since] /\ load' = [load EXCEPT ![r] = NoLoad]
             /\ Goto(r, IF entry[r] = Nowhere THEN "verify" ELSE "idle")
    <3>1. /\ pc[r] = "confirm" /\ load[r].entry.gen = pointer.gen /\ load[r].seq \in Nat \ {0}
          /\ load[r].since \in Nat
      BY <1>1, <1>2, <1>16, <2>2, Zenon DEF Confirm, Moved, Attempt
    <3>2. /\ <<pointer.gen, load[r].seq - 1>> \in DOMAIN at
          /\ load[r].files = log[at[<<pointer.gen, load[r].seq - 1>>]]
      BY <1>1, <3>1, Zenon DEF Inv, ProcInv, ReplayInv, Replaying
    <3>3. PICK a \in DOMAIN at : a = <<pointer.gen, load[r].seq - 1>> /\ a[1] = pointer.gen /\ a[2] = load[r].seq - 1
      BY <3>2, Zenon
    <3>4. a[2] + 1 = load[r].seq /\ (a[2] = 0 \/ a[2] \in load[r].listed)
      <4>1. (load[r].seq - 1) + 1 = load[r].seq /\ (load[r].seq = 1 => load[r].seq - 1 = 0)
        BY <3>1, Predecessor, Zenon
      <4> QED BY <3>1, <3>3, <4>1, Zenon DEF Listing
    <3>5. LastListed(r, a)
      BY <3>1, <3>3, <3>4, Zenon DEF LastListed, Listing
    <3>6. Fresh(w, load[r].files, load[r].since) /\ load[r].since <= now
      BY <3>1, <3>2, <3>3, <3>5, Zenon DEF Window
    <3>7. /\ version'[r] = load[r].files /\ asOf'[r] = load[r].since /\ load'[r].since = 0
          /\ pc'[r] \notin {"replay", "confirm"}
      BY <1>1, <1>2, <2>2, Zenon DEF Goto, NoLoad
    <3>8. UNCHANGED objects /\ pending'[w] = pending[w]
      BY <1>1, Zenon DEF Elsewhere
    <3>9. /\ asOf'[r] <= now'
          /\ \/ now' - asOf'[r] >= Retention
             \/ \A f \in version'[r] : f \in objects' /\ \A d \in pending'[w] : d[1] = f => d[2] >= asOf'[r]
      BY <1>3, <3>6, <3>7, <3>8, Zenon DEF Fresh
    <3>10. load'[r].since <= now'
      BY <1>2, <1>3, <3>7, ZeroFirst, Zenon
    <3> QED BY <3>7, <3>9, <3>10, Zenon DEF Window, Fresh
  <2> QED BY <1>16, <2>1, <2>2, Zenon DEF Confirm
<1> QED BY <1>1, <1>7, <1>8, <1>9, <1>10, <1>11, <1>12, <1>13, <1>14, <1>15, <1>16, WindowOpens, Zenon DEF Recover, Read

LEMMA WindowNext ==
  ASSUME NEW w, Writers = {w}, ~UnreadableIsEmpty, ~RereadFails, Inv, Inv', Control(w), Chain, \A p \in Procs : Listing(p),
         Files(w), \A r \in Readers : Window(w, r), [Next]_vars
  PROVE  \A r \in Readers : Window(w, r)'
<1>1. w \in Procs /\ w \notin Readers /\ Readers \subseteq Procs
  BY OneWriter, Zenon DEF Procs
<1>2. Grows /\ Retires(w)
  BY ManifestGrows, RetiresNext, Zenon
<1>3. CASE Tick \/ UNCHANGED vars
  <2>1. \A q \in Procs : Same(q) /\ asOf'[q] = asOf[q]
    BY <1>3, Zenon DEF Tick, vars, Same, instanceVars, localVars, historyVars
  <2> QED BY <1>1, <1>2, <2>1, WindowStays, Zenon
<1>4. ASSUME NEW q \in Readers, Recover(q) \/ Read(q) \/ Crash(q) PROVE \A r \in Readers : Window(w, r)'
  <2>1. \A r \in Procs \ {q} : Same(r) /\ asOf'[r] = asOf[r]
    BY <1>1, <1>4, OthersStay, RecoverMoves, Zenon
  <2>2. Window(w, q)'
    BY <1>1, <1>2, <1>4, WindowMoves, Zenon
  <2> QED BY <1>1, <1>2, <2>1, <2>2, WindowStays, Zenon
<1>5. CASE WriterSteps(w)
  <2>1. \A r \in Procs \ {w} : Same(r) /\ asOf'[r] = asOf[r]
    BY <1>1, <1>5, OthersStay, WriterMoves, Zenon
  <2> QED BY <1>1, <1>2, <2>1, WindowStays, Zenon
<1> QED BY <1>3, <1>4, <1>5, WhoSteps, Zenon

-----------------------------------------------------------------------------
(* File numbers are not used twice. *)

\* every number a durable version references is below n
Bounded(n) == \A i \in DOMAIN log : \A f \in log[i] : f < n

\* the counter recorded at an address of the live generation
Counter(a) == IF a[2] = 0 THEN snapshots[a[1]].next ELSE edits[a].next

\* the counter that the manifest would restore, the one a replay has restored so
\* far, the writer's own and the one its roll staged are above every number in use
Numbers(w) ==
    /\ \A a \in DOMAIN at : IsTop(a) => Bounded(Counter(a))
    /\ pc[w] \in {"list", "replay", "confirm"} => load[w].next >= Counter(<<pointer.gen, load[w].seq - 1>>)
    /\ entry[w] # Nowhere \/ pc[w] \in Rolling => Bounded(nextFile[w])
    /\ pc[w] \in Rolling /\ pointer = entry[w] => Bounded(target[w].next)
    /\ pc[w] \in Staged /\ pointer = entry[w] => snapshots[target[w].gen].next = target[w].next

\* The objects of the live generation stay as they were written.
LEMMA CountersStay ==
  ASSUME NEW w, Writers = {w}, Inv, Control(w), [Next]_vars, pointer' = pointer, pointer # Nowhere,
         NEW a \in DOMAIN at, a[1] = pointer.gen
  PROVE  Counter(a)' = Counter(a) /\ Counter(a) \in Nat
<1>1. w \in Procs
  BY OneWriter, Zenon
<1>2. PICK g \in Nat, k \in Nat : a = <<g, k>> /\ g = pointer.gen /\ a[2] = k
  BY <1>1, LiveAddress, Numeric, Zenon
<1>3. g \in DOMAIN snapshots /\ (k # 0 => a \in DOMAIN edits)
  BY <1>2, LiveEdit, Zenon DEF Inv, CatalogInv
<1>4. Counter(a) \in Nat
  <2>1. snapshots[g] \in Snapshot /\ (k # 0 => edits[a] \in Edit)
    BY <1>3, Zenon DEF Inv, TypeOK
  <2> QED BY <1>2, <2>1, Zenon DEF Counter, Snapshot, Edit
<1> SUFFICES Counter(a)' = Counter(a)
  BY <1>4, Zenon
<1>5. ASSUME g \in DOMAIN snapshots', snapshots'[g] = snapshots[g],
             \A b \in DOMAIN edits : b[1] = g => edits'[b] = edits[b]
      PROVE  Counter(a)' = Counter(a)
  BY <1>2, <1>3, <1>5, Zenon DEF Counter
<1>6. ASSUME UNCHANGED <<snapshots, edits>> PROVE Counter(a)' = Counter(a)
  BY <1>6, Zenon DEF Counter
<1>7. ASSUME NEW h, h \notin DOMAIN snapshots, NEW s, PutSnapshotAt(h, s) PROVE Counter(a)' = Counter(a)
  BY <1>3, <1>5, <1>7, Zenon DEF PutSnapshotAt, With
<1>8. ASSUME NEW b, b \notin DOMAIN edits, NEW e, edits' = With(edits, b, e), UNCHANGED snapshots
      PROVE  Counter(a)' = Counter(a)
  BY <1>3, <1>5, <1>8, Zenon DEF With
<1>9. ASSUME NEW h, h # g, DeleteGeneration(h) \/ DeletePartOf(h) PROVE Counter(a)' = Counter(a)
  <2>1. PICK A : A \subseteq {b \in DOMAIN edits : b[1] = h} /\ edits' = Without(edits, A)
    BY <1>9, Zenon DEF DeleteGeneration, DeletePartOf
  <2>2. snapshots' = snapshots \/ snapshots' = Without(snapshots, {h})
    BY <1>9, Zenon DEF DeleteGeneration, DeletePartOf
  <2>3. g \in DOMAIN snapshots' /\ snapshots'[g] = snapshots[g]
    BY <1>3, <1>9, <2>2, Zenon DEF Without
  <2>4. \A b \in DOMAIN edits : b[1] = g => edits'[b] = edits[b]
    BY <1>9, <2>1, Zenon DEF Without
  <2> QED BY <1>5, <2>3, <2>4, Zenon
<1>10. CASE Tick \/ UNCHANGED vars
  BY <1>6, <1>10, Zenon DEF Tick, vars, catalogVars
<1>11. ASSUME NEW r \in Readers, Recover(r) \/ Read(r) \/ Crash(r) PROVE Counter(a)' = Counter(a)
  BY <1>6, <1>11, ReaderElsewhere, Zenon DEF Elsewhere
<1>12. CASE \/ Open(w) \/ ReadPointer(w) \/ GetSnapshot(w) \/ ListEditsOf(w) \/ GetEdit(w) \/ Reread(w)
            \/ RecoverIo(w) \/ Confirm(w) \/ VerifyStores(w) \/ ObserveAfterCreate(w)
            \/ Pin(w) \/ Unpin(w) \/ Crash(w) \/ PutObject(w) \/ RollNow(w) \/ CollectObsolete(w)
            \/ Collided(w) \/ Relist(w) \/ SettleCas(w)
  <2>1. UNCHANGED <<snapshots, edits>>
    BY <1>12, Zenon DEF Open, ReadPointer, GetSnapshot, ListEditsOf, GetEdit, Reread, RecoverIo,
       Confirm, VerifyStores, ObserveAfterCreate, Pin, Unpin, Crash, PutObject, RollNow, CollectObsolete,
       Collided, Relist, SettleCas, RecoverFrame, catalogVars
  <2> QED BY <1>6, <2>1, Zenon
<1>13. CASE Apply(w)
  <2>1. PICK e : \/ UNCHANGED catalogVars
                 \/ ~Occupied(edits, <<entry[w].gen, seq[w]>>) /\ Land(w, e)
    BY <1>13, Zenon DEF Apply
  <2> QED BY <1>6, <1>8, <2>1, Zenon DEF Occupied, catalogVars, Land, PutEdit
<1>14. CASE CrashMidWrite(w)
  <2>1. CASE ~Occupied(edits, <<entry[w].gen, seq[w]>>) /\ PutEdit(entry[w].gen, seq[w], TornEdit)
    BY <1>8, <2>1, Zenon DEF Occupied, PutEdit
  <2>2. CASE ~Occupied(snapshots, target[w].gen) /\ PutSnapshotAt(target[w].gen, TornSnapshot)
    BY <1>7, <2>2, Zenon DEF Occupied
  <2> QED BY <1>14, <2>1, <2>2, Zenon DEF CrashMidWrite
<1>15. CASE PutSnapshot(w)
  <2>1. CASE UNCHANGED catalogVars
    BY <1>6, <2>1, Zenon DEF catalogVars
  <2>2. ASSUME NEW s, ~Occupied(snapshots, target[w].gen), PutSnapshotAt(target[w].gen, s) PROVE Counter(a)' = Counter(a)
    BY <1>7, <2>2, Zenon DEF Occupied
  <2> QED BY <1>15, <2>1, <2>2, Zenon DEF PutSnapshot
<1>16. CASE CompareAndSet(w)
  <2>1. UNCHANGED <<snapshots, edits>>
    BY <1>16, Zenon DEF CompareAndSet, MovePointer, SetPointer, catalogVars
  <2> QED BY <1>6, <2>1, Zenon
<1>17. CASE Installed(w)
  <2>1. pc[w] = "installed" /\ pointer.gen = target[w].gen
    <3>1. pc[w] = "installed"
      BY <1>17, Zenon DEF Installed
    <3>2. pointer = NextEntry(w)
      BY <3>1, Zenon DEF Control
    <3> QED BY <3>1, <3>2, Zenon DEF NextEntry
  <2>2. entry[w].gen < target[w].gen
    BY <1>1, <2>1, Zenon DEF Inv, ProcInv, RollInv, Rolling
  <2>3. Previous(w) # g
    BY <1>1, <1>2, <2>1, <2>2, Numeric DEF Previous
  <2>4. CASE UNCHANGED catalogVars
    BY <1>6, <2>4, Zenon DEF catalogVars
  <2> QED BY <1>9, <1>17, <2>3, <2>4, Zenon DEF Installed
<1> QED BY <1>4, <1>10, <1>11, <1>12, <1>13, <1>14, <1>15, <1>16, <1>17, WhoSteps, Zenon DEF WriterSteps, Roll

\* A roll starts with the writer's counter and keeps it; what it stages carries it.
LEMMA RollCounter ==
  ASSUME NEW w, Writers = {w}, Inv, Control(w), WriterSteps(w), pc'[w] \in Rolling
  PROVE  \/ pc'[w] = "putSnapshot" /\ target'[w].next = nextFile[w] /\ nextFile'[w] = nextFile[w]
         \/ /\ pc[w] \in Rolling /\ target'[w].next = target[w].next
            /\ pc'[w] \in Staged => /\ target'[w] = target[w]
                                    /\ \/ pc[w] \in Staged /\ UNCHANGED snapshots
                                       \/ snapshots'[target[w].gen].next = target[w].next
<1>1. w \in Procs
  BY OneWriter, Zenon
<1>2. ProcTypes
  BY InvTypes, Zenon
<1> USE DEF ProcTypes
<1>3. ASSUME NEW c, Goto(w, c) PROVE pc'[w] = c
  BY <1>1, <1>2, <1>3, Zenon DEF Goto
<1>4. target[w].then \in {"down", "idle", "collect", "observe"}
  BY <1>1, <1>2, Zenon DEF Target
<1>5. ~RollFailed(w) /\ ~Installed(w)
  BY <1>3, <1>4, Zenon DEF RollFailed, Installed, Rolling
<1>6. \A s : ~Fail(w, s) /\ ~Forget(w, s)
  BY <1>3, Zenon DEF Fail, Forget, Rolling
<1>7. ~Retry(w)
  BY <1>3, <1>6, Zenon DEF Retry, Rolling
<1>8. CASE ReadPointer(w)
  <2>1. Goto(w, "putSnapshot") /\ target' = RollTo(w, 1, "observe") /\ UNCHANGED nextFile
    BY <1>3, <1>6, <1>8, Zenon DEF ReadPointer, Rolling, instanceVars
  <2> QED BY <1>1, <1>2, <1>3, <2>1, Zenon DEF RollTo
<1>9. CASE RollNow(w)
  <2>1. Goto(w, "putSnapshot") /\ target' = RollTo(w, entry[w].gen + 1, "idle") /\ UNCHANGED nextFile
    BY <1>9, Zenon DEF RollNow, instanceVars
  <2> QED BY <1>1, <1>2, <1>3, <2>1, Zenon DEF RollTo
<1>10. CASE Apply(w)
  <2>1. /\ pc[w] = "idle" /\ UNCHANGED nextFile
        /\ pc' = pc \/ Goto(w, "collect") \/ (Goto(w, "putSnapshot") /\ target' = RollTo(w, entry[w].gen + 1, "collect"))
    BY <1>10, Zenon DEF Apply
  <2>2. Goto(w, "putSnapshot") /\ target' = RollTo(w, entry[w].gen + 1, "collect")
    BY <1>3, <2>1, Zenon DEF Rolling
  <2> QED BY <1>1, <1>2, <1>3, <2>1, <2>2, Zenon DEF RollTo
<1>11. CASE PutObject(w) \/ Pin(w) \/ Unpin(w)
  <2>1. UNCHANGED <<pc, target, snapshots>>
    BY <1>11, Zenon DEF PutObject, Pin, Unpin, localVars, catalogVars
  <2> QED BY <2>1, Zenon
<1>12. CASE PutSnapshot(w)
  <2>1. pc[w] = "putSnapshot" /\ UNCHANGED target
    BY <1>5, <1>12, Zenon DEF PutSnapshot
  <2>2. CASE Goto(w, "collided")
    <3>1. pc'[w] = "collided"
      BY <1>3, <2>2, Zenon
    <3> QED BY <2>1, <3>1, Zenon DEF Rolling, Staged
  <2>3. CASE PutSnapshotAt(target[w].gen, [files |-> version[w], next |-> target[w].next, torn |-> FALSE])
    <3>1. snapshots'[target[w].gen].next = target[w].next
      BY <2>3, Zenon DEF PutSnapshotAt, With
    <3> QED BY <2>1, <3>1, Zenon DEF Rolling
  <2> QED BY <1>5, <1>12, <2>2, <2>3, Zenon DEF PutSnapshot
<1>13. CASE Collided(w)
  <2>1. pc[w] = "collided" /\ UNCHANGED target /\ Goto(w, "relist")
    BY <1>5, <1>13, Zenon DEF Collided
  <2>2. pc'[w] = "relist"
    BY <1>3, <2>1, Zenon
  <2> QED BY <2>1, <2>2, Zenon DEF Rolling, Staged
<1>14. CASE Relist(w)
  <2>1. PICK g : /\ pc[w] = "relist" /\ Goto(w, "putSnapshot")
                 /\ target' = [target EXCEPT ![w].gen = g + 1, ![w].tries = @ + 1]
    BY <1>5, <1>14, Zenon DEF Relist
  <2>2. pc'[w] = "putSnapshot"
    BY <1>3, <2>1, Zenon
  <2>3. target'[w].next = target[w].next
    BY <1>1, <1>2, <2>1, Zenon DEF Target
  <2> QED BY <2>1, <2>2, <2>3, Zenon DEF Rolling, Staged
<1>15. CASE CompareAndSet(w) \/ SettleCas(w)
  <2>1. pc[w] \in Staged /\ UNCHANGED <<target, snapshots>>
    BY <1>5, <1>15, Zenon DEF CompareAndSet, SettleCas, MovePointer, SetPointer, catalogVars, Staged
  <2> QED BY <2>1, Zenon DEF Rolling, Staged
<1>16. CASE Confirm(w)
  BY <1>3, <1>6, <1>7, <1>16, Zenon DEF Confirm, Rolling
<1>17. CASE GetEdit(w)
  <2>1. pc[w] = "replay" /\ (pc' = pc \/ Goto(w, "confirm") \/ Goto(w, "missing") \/ Fail(w, "Corrupt"))
    BY <1>17, Zenon DEF GetEdit
  <2> QED BY <1>3, <1>6, <2>1, Zenon DEF Rolling
<1>18. CASE Open(w) \/ GetSnapshot(w) \/ ListEditsOf(w) \/ Reread(w) \/ RecoverIo(w)
  BY <1>3, <1>6, <1>7, <1>18, Zenon DEF Open, GetSnapshot, ListEditsOf, Reread, RecoverIo, Rolling
<1>19. CASE VerifyStores(w) \/ ObserveAfterCreate(w) \/ CollectObsolete(w) \/ Crash(w) \/ CrashMidWrite(w)
  BY <1>3, <1>6, <1>19, Zenon DEF VerifyStores, ObserveAfterCreate, CollectObsolete, Crash, CrashMidWrite, Rolling
<1> QED BY <1>5, <1>8, <1>9, <1>10, <1>11, <1>12, <1>13, <1>14, <1>15, <1>16, <1>17, <1>18, <1>19, Zenon
        DEF WriterSteps, Roll

\* The counter a replay restores is at least the one recorded where it has got to.
LEMMA LoadCounter ==
  ASSUME NEW w, Writers = {w}, Inv, Control(w), WriterSteps(w), Numbers(w),
         pc'[w] \in {"list", "replay", "confirm"}
  PROVE  \/ Same(w)
         \/ UNCHANGED <<pointer, snapshots, edits>> /\ load'[w].next >= Counter(<<pointer.gen, load'[w].seq - 1>>)
<1>1. w \in Procs
  BY OneWriter, Zenon
<1>2. ProcTypes
  BY InvTypes, Zenon
<1> USE DEF ProcTypes
<1>3. ASSUME NEW c, Goto(w, c) PROVE pc'[w] = c
  BY <1>1, <1>2, <1>3, Zenon DEF Goto
<1>4. load[w] \in Attempt /\ load[w].seq \in Nat \ {0} /\ load[w].next \in Nat
  BY <1>1, <1>2, Zenon DEF Attempt
<1>5. CASE GetSnapshot(w)
  <2>1. load[w].seq = 1 /\ load[w].entry = pointer /\ pc[w] = "snapshot"
    BY <1>1, <1>5, Zenon DEF GetSnapshot, Control, Inv, ProcInv, ReplayInv, Replaying
  <2>2. /\ UNCHANGED <<pointer, snapshots, edits>> /\ load[w].entry.gen \in DOMAIN snapshots
        /\ load' = [load EXCEPT ![w].files = snapshots[load[w].entry.gen].files,
                                ![w].next = snapshots[load[w].entry.gen].next]
    BY <1>3, <1>5, Zenon DEF GetSnapshot, Fail, RecoverFrame, catalogVars
  <2>3. load'[w].next = snapshots[pointer.gen].next /\ load'[w].seq = 1
    BY <1>1, <1>2, <2>1, <2>2, ZenonT(40) DEF Attempt
  <2>4. snapshots[pointer.gen].next \in Nat
    <3>1. snapshots[pointer.gen] \in Snapshot
      BY <2>1, <2>2, Zenon DEF Inv, TypeOK
    <3> QED BY <3>1, Zenon DEF Snapshot
  <2> QED BY <2>2, <2>3, <2>4 DEF Counter
<1>6. CASE ListEditsOf(w)
  <2>1. UNCHANGED <<pointer, snapshots, edits>> /\ pc[w] = "list"
    BY <1>6, Zenon DEF ListEditsOf, RecoverFrame, catalogVars
  <2>2. load'[w].next = load[w].next /\ load'[w].seq = load[w].seq
    BY <1>1, <1>2, <1>6 DEF ListEditsOf, Attempt
  <2> QED BY <2>1, <2>2, Zenon DEF Numbers
<1>7. CASE GetEdit(w)
  <2>1. UNCHANGED <<pointer, snapshots, edits>> /\ pc[w] = "replay" /\ load[w].entry = pointer
    BY <1>7, Zenon DEF GetEdit, RecoverFrame, catalogVars, Control, Replaying
  <2>2. CASE load' = load
    BY <2>1, <2>2, Zenon DEF Numbers
  <2>3. CASE LET a == <<load[w].entry.gen, load[w].seq>> IN
             /\ a \in DOMAIN edits
             /\ load' = [load EXCEPT ![w].files = ApplyEdit(@, edits[a]),
                                     ![w].next = ReplayedNext(@, edits[a]),
                                     ![w].seq = load[w].seq + 1]
    <3>1. PICK a : a = <<pointer.gen, load[w].seq>> /\ a \in DOMAIN edits
      BY <2>1, <2>3, Zenon
    <3>2. edits[a] \in Edit
      BY <3>1, Zenon DEF Inv, TypeOK
    <3>3. edits[a].next \in Nat
      BY <3>2, Zenon DEF Edit
    <3>4. load'[w].next = ReplayedNext(load[w].next, edits[a]) /\ load'[w].seq = load[w].seq + 1
      BY <1>1, <1>2, <2>1, <2>3, <3>1, ZenonT(40) DEF Attempt
    <3>5. load'[w].next >= edits[a].next
      BY <1>4, <3>3, <3>4 DEF ReplayedNext, Larger
    <3>6. <<pointer.gen, load'[w].seq - 1>> = a /\ a[2] # 0
      BY <1>4, <3>1, <3>4
    <3> QED BY <2>1, <3>5, <3>6, Zenon DEF Counter
  <2>4. ~Fail(w, "Corrupt") /\ ~Goto(w, "missing")
    BY <1>1, <1>3, Zenon DEF Fail
  <2> QED BY <1>7, <2>2, <2>3, <2>4, Zenon DEF GetEdit
<1>8. ASSUME ~GetSnapshot(w), pc'[w] = "list" PROVE Same(w)
  <2>1. CASE Open(w) \/ ReadPointer(w) \/ Reread(w) \/ RecoverIo(w)
    BY <1>3, <1>8, <2>1, Zenon DEF Open, ReadPointer, Reread, RecoverIo, Retry, Fail
  <2>2. CASE ListEditsOf(w) \/ GetEdit(w)
    <3>1. (pc[w] = "replay" /\ pc' = pc) \/ Goto(w, "replay") \/ Goto(w, "confirm") \/ Goto(w, "missing") \/ Fail(w, "Corrupt")
      BY <2>2, Zenon DEF ListEditsOf, GetEdit
    <3> QED BY <1>3, <1>8, <3>1, Zenon DEF Fail
  <2>3. CASE Confirm(w)
    <3>1. Retry(w) \/ Fail(w, "Corrupt") \/ Goto(w, IF entry[w] = Nowhere THEN "verify" ELSE "idle")
      BY <2>3, Zenon DEF Confirm
    <3> QED BY <1>3, <1>8, <3>1, Zenon DEF Retry, Fail
  <2>4. CASE VerifyStores(w) \/ ObserveAfterCreate(w) \/ Crash(w) \/ CrashMidWrite(w)
    BY <1>3, <1>8, <2>4, Zenon DEF VerifyStores, ObserveAfterCreate, Crash, CrashMidWrite, Forget
  <2>5. CASE Pin(w) \/ Unpin(w) \/ PutObject(w)
    BY <2>5, Zenon DEF Pin, Unpin, PutObject, Same, localVars
  <2>6. CASE Apply(w) \/ RollNow(w) \/ CollectObsolete(w)
    <3>1. (pc[w] = "idle" /\ pc' = pc) \/ Goto(w, "collect") \/ Goto(w, "putSnapshot") \/ Goto(w, "idle")
      BY <2>6, Zenon DEF Apply, RollNow, CollectObsolete
    <3> QED BY <1>3, <1>8, <3>1, Zenon
  <2>7. CASE Roll(w)
    <3>1. target[w].then \in {"down", "idle", "collect", "observe"}
      BY <1>1, <1>2, Zenon DEF Target
    <3>2. (\E c \in Rolling : Goto(w, c)) \/ Goto(w, target[w].then) \/ RollFailed(w)
      BY <2>7, Zenon DEF Roll, PutSnapshot, Collided, Relist, CompareAndSet, SettleCas, Installed, Rolling
    <3>3. (\E c \in Rolling : pc'[w] = c) \/ pc'[w] = target[w].then \/ pc'[w] = "down"
      BY <1>3, <3>2, Zenon DEF RollFailed
    <3> QED BY <1>8, <3>1, <3>3, Zenon DEF Rolling
  <2> QED BY <1>8, <2>1, <2>2, <2>3, <2>4, <2>5, <2>6, <2>7, Zenon DEF WriterSteps
<1> QED BY <1>1, <1>5, <1>6, <1>7, <1>8, NotReplaying, Zenon

LEMMA WhoMoves ==
  ASSUME NEW w, Writers = {w}, Inv, Control(w), [Next]_vars PROVE Elsewhere(w) \/ WriterSteps(w)
<1>1. CASE Tick \/ UNCHANGED vars
  BY <1>1, Zenon DEF Tick, vars, Elsewhere, Same, catalogVars, instanceVars, localVars, historyVars
<1>2. ASSUME NEW r \in Readers, Recover(r) \/ Read(r) \/ Crash(r) PROVE Elsewhere(w)
  BY <1>2, ReaderElsewhere, Zenon
<1> QED BY <1>1, <1>2, WhoSteps, Zenon

\* What a replay restores and what a roll stages, while CURRENT and the history stay.
LEMMA NumbersHeld ==
  ASSUME NEW w, Writers = {w}, ~UnreadableIsEmpty, ~RereadFails, Inv, Control(w), Chain, Numbers(w), [Next]_vars,
         UNCHANGED <<pointer, log, at>>
  PROVE  /\ \A a \in DOMAIN at' : IsTop(a)' => Bounded(Counter(a))'
         /\ pc'[w] \in {"list", "replay", "confirm"} =>
               load'[w].next >= Counter(<<pointer.gen, load[w].seq - 1>>)'
<1>1. w \in Procs /\ pointer \in Entry /\ pointer.gen \in Nat
  BY OneWriter, Numeric, Zenon
<1>2. ASSUME NEW a \in DOMAIN at', IsTop(a)' PROVE Bounded(Counter(a))'
  <2>1. a \in DOMAIN at /\ IsTop(a) /\ pointer # Nowhere /\ a[1] = pointer.gen
    BY <1>2, Zenon DEF IsTop, Chain
  <2>2. Counter(a)' = Counter(a) /\ Bounded(Counter(a))
    BY <2>1, CountersStay, Zenon DEF Numbers
  <2> QED BY <2>2, Zenon DEF Bounded
<1>3. ASSUME pc'[w] \in {"list", "replay", "confirm"}
      PROVE  load'[w].next >= Counter(<<pointer.gen, load[w].seq - 1>>)'
  <2>1. CASE Same(w)
    <3>1. /\ pc[w] \in {"list", "replay", "confirm"} /\ load[w].entry = pointer /\ load'[w] = load[w]
          /\ <<pointer.gen, load[w].seq - 1>> \in DOMAIN at /\ pointer.gen # 0
      BY <1>1, <1>3, <2>1, ZenonT(40) DEF Same, Control, Replaying, Inv, ProcInv, ReplayInv
    <3>2. PICK a : a = <<pointer.gen, load[w].seq - 1>> /\ a \in DOMAIN at /\ a[1] = pointer.gen
      BY <3>1
    <3>3. Counter(a)' = Counter(a) /\ pointer # Nowhere
      BY <3>1, <3>2, CountersStay, NoEntryYet, Zenon
    <3>4. load[w].next >= Counter(a)
      BY <3>1, <3>2, Zenon DEF Numbers
    <3>5. Counter(<<pointer.gen, load[w].seq - 1>>)' = Counter(a)'
      BY <3>1, <3>2, Zenon DEF Counter
    <3> QED BY <3>1, <3>3, <3>4, <3>5, Zenon
  <2>2. CASE UNCHANGED <<pointer, snapshots, edits>> /\ load'[w].next >= Counter(<<pointer.gen, load'[w].seq - 1>>)
    <3>1. Counter(<<pointer.gen, load[w].seq - 1>>)' = Counter(<<pointer.gen, load'[w].seq - 1>>)
      BY <2>2, Zenon DEF Counter
    <3> QED BY <2>2, <3>1, Zenon
  <2> QED BY <1>3, <2>1, <2>2, WhoMoves, LoadCounter, Zenon DEF Elsewhere
<1> QED BY <1>2, <1>3, Zenon

\* What a roll carries, while CURRENT and the history stay.
LEMMA RollHeld ==
  ASSUME NEW w, Writers = {w}, ~UnreadableIsEmpty, ~RereadFails, Inv, Inv', Control(w), Chain, Numbers(w), [Next]_vars,
         UNCHANGED <<pointer, log, at>>, entry'[w] = entry[w], nextFile[w] <= nextFile'[w], pc'[w] \in Rolling
  PROVE  /\ Bounded(nextFile[w])'
         /\ pointer' = entry'[w] => Bounded(target[w].next)'
         /\ pc'[w] \in Staged /\ pointer' = entry'[w] => (snapshots[target[w].gen].next = target[w].next)'
<1>1. w \in Procs /\ pointer \in Entry /\ target[w].next \in Nat /\ nextFile[w] \in Nat /\ log \in Seq(SUBSET Nat)
  BY OneWriter, Numeric, InvTypes, Zenon DEF ProcTypes
<1>2. nextFile'[w] \in Nat
  BY <1>1, Zenon DEF Inv, TypeOK
<1>3. Bounded(nextFile[w]) => Bounded(nextFile[w])'
  BY <1>1, <1>2 DEF Bounded
<1>4. CASE Elsewhere(w)
  BY <1>3, <1>4, Zenon DEF Numbers, Bounded, Elsewhere, Same
<1>5. CASE WriterSteps(w) /\ pc'[w] = "putSnapshot" /\ target'[w].next = nextFile[w] /\ nextFile'[w] = nextFile[w]
  <2>1. Bounded(nextFile[w])
    <3>1. CASE entry[w] # Nowhere
      BY <3>1, Zenon DEF Numbers
    <3>2. CASE entry[w] = Nowhere
      <4>1. pointer' = entry'[w]
        BY <1>5, ControlNext, Zenon DEF Control, Rolling
      <4>2. log = <<>>
        BY <3>2, <4>1, Zenon DEF Chain
      <4> QED BY <4>2 DEF Bounded
    <3> QED BY <3>1, <3>2, Zenon
  <2> QED BY <1>5, <2>1, Zenon DEF Bounded, Staged
<1>6. CASE /\ pc[w] \in Rolling /\ target'[w].next = target[w].next
           /\ pc'[w] \in Staged => /\ target'[w] = target[w]
                                   /\ \/ pc[w] \in Staged /\ UNCHANGED snapshots
                                      \/ snapshots'[target[w].gen].next = target[w].next
  <2>1. Bounded(nextFile[w])'
    BY <1>3, <1>6, Zenon DEF Numbers
  <2>2. pointer' = entry'[w] => Bounded(target[w].next)'
    BY <1>6, Zenon DEF Numbers, Bounded
  <2>3. pc'[w] \in Staged /\ pointer' = entry'[w] => (snapshots[target[w].gen].next = target[w].next)'
    BY <1>6, Zenon DEF Numbers
  <2> QED BY <2>1, <2>2, <2>3, Zenon
<1> QED BY <1>4, <1>5, <1>6, WhoMoves, RollCounter, Zenon

LEMMA NumbersNext ==
  ASSUME NEW w, Writers = {w}, ~UnreadableIsEmpty, ~RereadFails, Inv, Inv', Control(w), Chain, \A p \in Procs : Listing(p),
         Files(w), Numbers(w), [Next]_vars
  PROVE  Numbers(w)'
<1>1. /\ w \in Procs /\ pointer \in Entry /\ target[w].next \in Nat /\ nextFile[w] \in Nat /\ log \in Seq(SUBSET Nat)
      /\ entry[w].gen \in Nat /\ pointer.gen \in Nat /\ target[w].gen \in Nat /\ seq[w] \in Nat \ {0}
  BY OneWriter, Numeric, InvTypes, Zenon DEF ProcTypes
<1>2. nextFile'[w] \in Nat
  BY <1>1, Zenon DEF Inv, TypeOK
<1>3. ASSUME UNCHANGED <<pointer, log, at>>,
             pc'[w] \in Rolling => entry'[w] = entry[w] /\ nextFile[w] <= nextFile'[w],
             entry'[w] # Nowhere => Bounded(nextFile[w])'
      PROVE  Numbers(w)'
  <2>1. /\ \A a \in DOMAIN at' : IsTop(a)' => Bounded(Counter(a))'
        /\ pc'[w] \in {"list", "replay", "confirm"} => load'[w].next >= Counter(<<pointer.gen, load[w].seq - 1>>)'
    BY <1>3, NumbersHeld, Zenon
  <2>2. pc'[w] \in Rolling =>
          /\ Bounded(nextFile[w])'
          /\ pointer' = entry'[w] => Bounded(target[w].next)'
          /\ pc'[w] \in Staged /\ pointer' = entry'[w] => (snapshots[target[w].gen].next = target[w].next)'
    BY <1>3, RollHeld, Zenon
  <2>3. pc'[w] \in Staged => pc'[w] \in Rolling
    BY Zenon DEF Staged, Rolling
  <2> QED BY <1>3, <2>1, <2>2, <2>3, Zenon DEF Numbers
<1>4. ASSUME UNCHANGED <<pointer, log, at>>, entry'[w] = entry[w], nextFile[w] <= nextFile'[w] PROVE Numbers(w)'
  <2>1. entry'[w] # Nowhere => Bounded(nextFile[w])'
    BY <1>1, <1>2, <1>4, LogFiles, LessThrough, Zenon DEF Numbers, Bounded
  <2> QED BY <1>3, <1>4, <2>1, Zenon
<1>5. CASE Elsewhere(w) \/ Quietly(w) \/ Verifies(w) \/ Collects(w)
  <2>1. UNCHANGED <<pointer, log, at>> /\ entry'[w] = entry[w]
    BY <1>5, Zenon DEF Elsewhere, Same, Quietly, Verifies, Collects, catalogVars
  <2>2. nextFile[w] <= nextFile[w]
    BY <1>1, Reflexive, Zenon
  <2>3. nextFile[w] <= nextFile'[w]
    BY <1>5, <2>2, Zenon DEF Elsewhere, Quietly, Verifies, Collects
  <2> QED BY <1>4, <2>1, <2>3, Zenon
<1>6. CASE Stops(w)
  BY <1>3, <1>6, Zenon DEF Stops, Rolling
<1>7. CASE Installs(w)
  <2>1. Bounded(nextFile[w])'
    BY <1>7, Zenon DEF Installs, Numbers, Bounded, Rolling
  <2> QED BY <1>3, <1>7, <2>1, Zenon DEF Installs, Rolling
<1>8. CASE Adopts(w)
  <2>1. /\ <<pointer.gen, load[w].seq - 1>> \in DOMAIN at /\ <<pointer.gen, load[w].seq>> \notin DOMAIN at
        /\ load[w].seq \in Nat \ {0}
    BY <1>1, <1>8, ReplayedToTop, Zenon DEF Adopts
  <2>2. PICK a : a = <<pointer.gen, load[w].seq - 1>> /\ a \in DOMAIN at /\ a[1] = pointer.gen /\ IsTop(a)
    <3>1. (load[w].seq - 1) + 1 = load[w].seq
      BY <2>1
    <3>2. PICK a : a = <<pointer.gen, load[w].seq - 1>>
      BY Zenon
    <3>3. a[1] = pointer.gen /\ <<a[1], a[2] + 1>> = <<pointer.gen, load[w].seq>>
      BY <3>1, <3>2, Zenon
    <3> QED BY <2>1, <3>2, <3>3, ZenonT(40) DEF IsTop
  <2>3. pointer # Nowhere
    BY <2>2, Zenon DEF Chain
  <2>4. pointer' = pointer /\ nextFile'[w] = load[w].next /\ log' = log
    BY <1>8, Zenon DEF Adopts, catalogVars
  <2>5. Counter(a) \in Nat /\ Bounded(Counter(a)) /\ load[w].next >= Counter(a)
    BY <1>8, <2>2, <2>3, <2>4, CountersStay, Zenon DEF Numbers, Adopts
  <2>6. Bounded(nextFile[w])'
    BY <1>1, <1>2, <2>4, <2>5, LogFiles, LessUpTo, Zenon DEF Bounded
  <2> QED BY <1>3, <1>8, <2>6, Zenon DEF Adopts, catalogVars, Rolling
<1>9. ASSUME NEW e \in EditsOf(w), Commits(w, e) PROVE Numbers(w)'
  <2>1. e.added \subseteq written[w] \cup version[w] /\ e.next = nextFile[w]
    BY <1>1, EditFiles, Zenon
  <2>2. /\ entry[w] # Nowhere /\ pc[w] = "idle" /\ pc'[w] \in {"idle", "collect", "putSnapshot"}
        /\ nextFile'[w] = nextFile[w] /\ log' = Append(log, ApplyEdit(version[w], e))
        /\ pc'[w] = "putSnapshot" => target'[w].next = nextFile[w]
    BY <1>9, WriterAtHome, Zenon DEF Commits, Land
  <2>3. \A f \in ApplyEdit(version[w], e) : f < nextFile[w]
    BY <2>1, <2>2, Zenon DEF ApplyEdit, Files
  <2>4. Bounded(nextFile[w])
    BY <2>2, Zenon DEF Numbers
  <2>5. \A i \in DOMAIN log' : \A f \in log'[i] : f < nextFile[w]
    <3>1. SUFFICES ASSUME NEW i \in DOMAIN log', NEW f \in log'[i] PROVE f < nextFile[w]
      BY Zenon
    <3>2. \/ i \in DOMAIN log /\ log'[i] = log[i]
          \/ log'[i] = ApplyEdit(version[w], e)
      <4>1. ApplyEdit(version[w], e) \in SUBSET Nat
        <5>1. version[w] \in SUBSET Nat /\ written[w] \in SUBSET Nat
          BY <1>1, InvTypes, Zenon DEF ProcTypes
        <5> QED BY <2>1, <5>1, Zenon DEF ApplyEdit
      <4>2. log \in Seq(SUBSET Nat) /\ log' = Append(log, ApplyEdit(version[w], e)) /\ i \in DOMAIN log'
        BY <1>1, <2>2, <3>1, Zenon
      <4>3. PICK v : v = ApplyEdit(version[w], e)
        BY Zenon
      <4>4. v \in SUBSET Nat /\ log' = Append(log, v)
        BY <4>1, <4>2, <4>3, Zenon
      <4> HIDE <1>1, <2>2
      <4>5. \/ i \in DOMAIN log /\ log'[i] = log[i]
            \/ log'[i] = v
        BY <4>2, <4>4, Appended, ZenonT(40)
      <4> QED BY <4>3, <4>5, Zenon
    <3> QED BY <2>3, <2>4, <3>1, <3>2, Zenon DEF Bounded
  <2>6. ASSUME NEW a \in DOMAIN at', IsTop(a)' PROVE Bounded(Counter(a))'
    <3>1. a = <<entry[w].gen, seq[w]>> /\ a[2] # 0
      <4>1. a = <<entry[w].gen, seq[w]>>
        BY <1>9, <2>6, CommitTop, Zenon
      <4> QED BY <1>1, <4>1
    <3>2. edits'[a] = e
      BY <1>9, <3>1, Zenon DEF Commits, Land, PutEdit, With
    <3>3. Counter(a)' = nextFile[w]
      BY <2>1, <3>1, <3>2, Zenon DEF Counter
    <3> QED BY <2>5, <3>3, Zenon DEF Bounded
  <2> QED BY <2>2, <2>5, <2>6, Zenon DEF Numbers, Bounded, Rolling, Staged
<1>10. CASE Switches(w)
  <2>1. pointer = entry[w] /\ pointer.gen < target[w].gen /\ pc[w] = "cas"
    BY <1>10, WriterInRoll, Zenon DEF Switches
  <2>2. pointer'.gen = target[w].gen /\ entry'[w] = entry[w] /\ nextFile' = nextFile /\ snapshots' = snapshots
    BY <1>10, Zenon DEF Switches, MovePointer, SetPointer
  <2>3. pointer' # entry'[w] /\ pc'[w] \in {"ambiguous", "installed"}
    <3>1. pointer'.gen # entry[w].gen
      BY <1>1, <2>1, <2>2
    <3> QED BY <1>10, <2>2, <3>1, ZenonT(40) DEF Switches
  <2>4. /\ Bounded(nextFile[w]) /\ Bounded(target[w].next) /\ snapshots[target[w].gen].next = target[w].next
    BY <2>1, Zenon DEF Numbers, Rolling, Staged
  <2>5. ASSUME NEW n \in Nat, Bounded(n) PROVE \A i \in DOMAIN log' : \A f \in log'[i] : f < n
    <3>1. log' = log \/ log' = Append(log, {})
      BY <1>10, Zenon DEF Switches, MovePointer
    <3>2. ASSUME log' = Append(log, {}), NEW i \in DOMAIN log', NEW f \in log'[i] PROVE f < n
      <4>1. i \in DOMAIN log /\ log'[i] = log[i]
        <5>1. log \in Seq(SUBSET Nat) /\ {} \in SUBSET Nat
          BY <1>1, Zenon
        <5> HIDE <1>1
        <5>2. (i \in DOMAIN log /\ log'[i] = log[i]) \/ log'[i] = {}
          BY <3>2, <5>1, Appended, Zenon
        <5> QED BY <3>2, <5>2, Zenon
      <4> QED BY <2>5, <3>2, <4>1, Zenon DEF Bounded
    <3> QED BY <2>5, <3>1, <3>2, Zenon DEF Bounded
  <2>6. ASSUME NEW a \in DOMAIN at', IsTop(a)' PROVE Bounded(Counter(a))'
    <3>1. a[1] = target[w].gen
      BY <2>2, <2>6, ZenonT(40) DEF IsTop
    <3>2. a \notin DOMAIN at
      BY <1>1, <2>1, <3>1, LiveAddress
    <3>3. a = <<target[w].gen, 0>>
      BY <1>10, <2>6, <3>2, Zenon DEF Switches, MovePointer, With
    <3>4. Counter(a)' = target[w].next
      BY <2>2, <2>4, <3>3, Zenon DEF Counter
    <3> QED BY <1>1, <2>4, <2>5, <3>4, Zenon DEF Bounded
  <2>7. Bounded(nextFile[w])'
    BY <1>1, <2>2, <2>4, <2>5, Zenon DEF Bounded
  <2> QED BY <2>3, <2>6, <2>7, Zenon DEF Numbers, Staged
<1> QED BY <1>5, <1>6, <1>7, <1>8, <1>9, <1>10, StepKinds, Zenon

=============================================================================
