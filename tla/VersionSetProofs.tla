-------------------------- MODULE VersionSetProofs --------------------------
(***************************************************************************)
(* What the version set guarantees for every value of its constants: any   *)
(* number of writers and readers, crashes, failed calls and torn writes.   *)
(* Every step keeps the invariant, and the theorems follow.                *)
(***************************************************************************)
EXTENDS VersionSetInvariant, TLAPS

LEMMA NowhereType == Nowhere \in Entry /\ Nowhere.gen = 0
  BY Zenon DEF Nowhere, Entry

LEMMA NoLoadType == NoLoad \in Attempt /\ NoLoad.seq = 1
  BY DEF NoLoad, Nowhere, Attempt, Entry, Statuses

LEMMA NoTargetType == NoTarget \in Target
  BY DEF NoTarget, Target

\* An edit of a migration replaces one file of the version by one written file.
LEMMA Migrations ==
  ASSUME NEW p, NEW e \in MigrationEdits(p)
  PROVE  \E n \in written[p], f \in version[p] : e = Change(p, {n}, {f})
  BY DEF MigrationEdits, Change

\* A process that is left alone by a step that leaves the manifest alone keeps
\* its part of the invariant.
LEMMA QuietProc ==
  ASSUME NEW q \in Procs, ProcInv(q), Same(q), UNCHANGED manifestVars
  PROVE  ProcInv(q)'
<1>1. Standing(q)' = Standing(q)
  BY Zenon DEF Same, manifestVars, Standing
<1>2. ServingInv(q)'
  BY <1>1, Zenon DEF ProcInv, ServingInv, Same, manifestVars
<1>3. ReplayInv(q)'
  BY Zenon DEF ProcInv, ReplayInv, Same, manifestVars
<1>4. RollInv(q)'
  BY Zenon DEF ProcInv, RollInv, Same, manifestVars
<1> QED BY <1>2, <1>3, <1>4, Zenon DEF ProcInv

\* A step of one process that leaves the manifest alone and stages nothing has
\* only its types and its own part of the invariant to answer for.
LEMMA LocalStep ==
  ASSUME NEW p \in Procs, Inv, UNCHANGED manifestVars,
         \A q \in Procs \ {p} : Same(q),
         TypeOK', ProcInv(p)',
         pc'[p] \in Staged => pc[p] \in Staged /\ target'[p] = target[p]
  PROVE  Inv'
<1>1. CatalogInv'
  BY Zenon DEF Inv, CatalogInv, manifestVars, WellFormed
<1>2. \A q \in Procs : ProcInv(q)'
  BY QuietProc, Zenon DEF Inv
<1>3. ASSUME NEW q \in Procs, NEW r \in Procs PROVE Unique(q, r)'
  BY DEF Inv, Unique, Same, manifestVars
<1> QED BY <1>1, <1>2, <1>3, Zenon DEF Inv

-----------------------------------------------------------------------------
(* recover *)

LEMMA Bounds ==
  ASSUME TypeOK, Fault \/ NoFault
  PROVE  faults' \in Nat /\ crashes' \in Nat /\ now' \in Nat
  BY DEF TypeOK, Fault, NoFault, boundVars

LEMMA RecoverFails ==
  ASSUME NEW p \in Procs, Inv, NEW s \in Statuses, Fail(p, s), RecoverFrame, Fault \/ NoFault
  PROVE  Inv'
<1>1. /\ pc' \in [Procs -> Stages] /\ load' \in [Procs -> Attempt]
      /\ status' \in [Procs -> Statuses]
  BY NoLoadType, Zenon DEF Inv, TypeOK, Fail, Goto, Stages
<1>2. TypeOK'
  BY <1>1, Bounds, Zenon DEF Inv, TypeOK, RecoverFrame, catalogVars, instanceVars, historyVars
<1>3. /\ pc'[p] = (IF entry[p] = Nowhere THEN "down" ELSE "idle")
      /\ load'[p].seq = 1
      /\ \A q \in Procs \ {p} : Same(q)
  BY NoLoadType, Zenon DEF Inv, TypeOK, Fail, Goto, Same, RecoverFrame, instanceVars
<1>4. UNCHANGED manifestVars
  BY Zenon DEF RecoverFrame, manifestVars, catalogVars, historyVars
<1>5. UNCHANGED <<entry, seq, version, target>>
  BY Zenon DEF RecoverFrame, instanceVars
<1>6. ProcInv(p)'
  <2>1. ServingInv(p)'
    BY <1>3, <1>4, <1>5, Zenon DEF Inv, ProcInv, ServingInv, Opened, manifestVars, Standing
  <2>2. ReplayInv(p)'
    BY <1>3, Zenon DEF ReplayInv, Replaying
  <2>3. RollInv(p)'
    BY <1>3, Zenon DEF RollInv, Rolling, Staged
  <2> QED BY <2>1, <2>2, <2>3, Zenon DEF ProcInv
<1> QED BY <1>2, <1>3, <1>4, <1>6, LocalStep, Zenon DEF Staged

\* A round trip of recover that goes on: only what has been replayed so far is
\* in question.
LEMMA RecoverGoesOn ==
  ASSUME NEW p \in Procs, Inv, NEW c \in Replaying \cup {"read"},
         pc' = [pc EXCEPT ![p] = c],
         load' \in [Procs -> Attempt], \A q \in Procs \ {p} : load'[q] = load[q],
         status' \in [Procs -> Statuses],
         RecoverFrame, Fault \/ NoFault, ReplayInv(p)'
  PROVE  Inv'
<1>1. pc' \in [Procs -> Stages]
  BY Zenon DEF Inv, TypeOK, Stages, Replaying
<1>2. TypeOK'
  BY <1>1, Bounds, Zenon DEF Inv, TypeOK, RecoverFrame, catalogVars, instanceVars, historyVars
<1>3. pc'[p] = c /\ \A q \in Procs \ {p} : Same(q)
  BY Zenon DEF Inv, TypeOK, Same, RecoverFrame, instanceVars
<1>4. UNCHANGED manifestVars
  BY Zenon DEF RecoverFrame, manifestVars, catalogVars, historyVars
<1>5. ServingInv(p)'
  BY <1>3, <1>4, SMTT(30) DEF Inv, ProcInv, ServingInv, Opened, Replaying, manifestVars, Standing,
     RecoverFrame, instanceVars
<1>6. RollInv(p)'
  BY <1>3, Zenon DEF RollInv, Rolling, Staged, Replaying
<1> QED BY <1>2, <1>3, <1>4, <1>5, <1>6, LocalStep, Zenon DEF ProcInv, Staged, Replaying

LEMMA RecoverRetries ==
  ASSUME NEW p \in Procs, Inv, Retry(p), RecoverFrame, Fault \/ NoFault
  PROVE  Inv'
<1>1. CASE load[p].tries < RecoverAttempts
  <2>1. FreshAttempt(p) \in Attempt /\ FreshAttempt(p).seq = 1
    BY NoLoadType, Zenon DEF FreshAttempt, Inv, TypeOK, Attempt, NoLoad
  <2>2. /\ pc' = [pc EXCEPT ![p] = "read"] /\ load' = [load EXCEPT ![p] = FreshAttempt(p)]
        /\ status' \in [Procs -> Statuses]
    BY <1>1, Zenon DEF Retry, Goto, Inv, TypeOK
  <2>3. load' \in [Procs -> Attempt] /\ \A q \in Procs \ {p} : load'[q] = load[q]
    BY <2>1, <2>2, Zenon DEF Inv, TypeOK
  <2>4. ReplayInv(p)'
    BY <2>1, <2>2, Zenon DEF Inv, TypeOK, ReplayInv, Replaying
  <2> QED BY <2>2, <2>3, <2>4, RecoverGoesOn, Zenon
<1>2. CASE ~(load[p].tries < RecoverAttempts)
  BY <1>2, RecoverFails, Zenon DEF Retry, Statuses
<1> QED BY <1>1, <1>2, Zenon

LEMMA OpenInv ==
  ASSUME NEW p \in Procs, Inv, Open(p) \/ Refresh(p) PROVE Inv'
<1>1. load' \in [Procs -> Attempt] /\ load'[p].seq = 1 /\ \A q \in Procs \ {p} : load'[q] = load[q]
  <2>1. CASE Open(p)
    BY <2>1, Zenon DEF Open, Inv, TypeOK, ProcInv, ReplayInv, Replaying
  <2>2. CASE Refresh(p)
    BY <2>2, NoLoadType, Zenon DEF Refresh, Inv, TypeOK
  <2> QED BY <2>1, <2>2, Zenon
<1>2. /\ pc' = [pc EXCEPT ![p] = "read"]
      /\ status' \in [Procs -> Statuses] /\ RecoverFrame /\ NoFault
  BY Zenon DEF Open, Refresh, Goto, Inv, TypeOK, Statuses, RecoverFrame, NoFault
<1>3. ReplayInv(p)'
  BY <1>1, <1>2, Zenon DEF Inv, TypeOK, ReplayInv, Replaying
<1> QED BY <1>1, <1>2, <1>3, RecoverGoesOn, Zenon

\* A step of a process that neither replays nor, afterwards, does, that leaves
\* its version and the manifest alone, and stages nothing.
LEMMA RollStep ==
  ASSUME NEW p \in Procs, Inv, TypeOK',
         UNCHANGED <<manifestVars, entry, seq, version, load>>,
         \A q \in Procs \ {p} : pc'[q] = pc[q] /\ target'[q] = target[q],
         pc[p] \notin Replaying, pc'[p] \notin Replaying,
         pc'[p] \in Opened => entry[p] # Nowhere,
         pc'[p] \in Staged => pc[p] \in Staged /\ target'[p] = target[p],
         RollInv(p)'
  PROVE  Inv'
<1>1. UNCHANGED manifestVars /\ \A q \in Procs \ {p} : Same(q)
  BY Zenon DEF Same
<1>2. ServingInv(p)'
  BY SMTT(30) DEF Inv, ProcInv, ServingInv, manifestVars, Standing
<1>3. ReplayInv(p)'
  BY Zenon DEF Inv, ProcInv, ReplayInv, Replaying
<1> QED BY <1>1, <1>2, <1>3, LocalStep, Zenon DEF ProcInv

\* No process is ahead of CURRENT.
LEMMA EntryBelow ==
  ASSUME Inv, NEW p \in Procs PROVE entry[p].gen <= pointer.gen
<1>1. entry[p] \in Entry /\ pointer \in Entry
  BY Zenon DEF Inv, TypeOK
<1>2. CASE entry[p] = Nowhere
  BY <1>1, <1>2, NowhereType DEF Entry
<1>3. CASE entry[p] # Nowhere
  <2>1. <<entry[p].gen, seq[p] - 1>> \in DOMAIN at
    BY <1>3, Zenon DEF Inv, ProcInv, ServingInv
  <2>2. <<entry[p].gen, seq[p] - 1>>[1] <= pointer.gen
    BY <2>1, Zenon DEF Inv, CatalogInv
  <2> QED BY <2>2, Zenon
<1> QED BY <1>2, <1>3, Zenon

LEMMA ReadPointerInv ==
  ASSUME NEW p \in Procs, Inv, ReadPointer(p) PROVE Inv'
<1>1. pc[p] = "read" /\ load[p].seq = 1 /\ NoFault
  BY Zenon DEF ReadPointer, Inv, ProcInv, ReplayInv, Replaying
<1>2. CASE /\ pointer # Nowhere
           /\ Goto(p, "snapshot")
           /\ load' = [load EXCEPT ![p].entry = pointer, ![p].tries = @ + 1]
           /\ UNCHANGED <<target, status>>
  <2>0. load \in [Procs -> Attempt] /\ pointer \in Entry
    BY Zenon DEF Inv, TypeOK
  <2>1. load' \in [Procs -> Attempt] /\ \A q \in Procs \ {p} : load'[q] = load[q]
    BY <1>2, <2>0 DEF Attempt
  <2>2. load'[p].entry = pointer /\ load'[p].seq = 1
    BY <1>1, <1>2 DEF Inv, TypeOK, Attempt
  <2>3. /\ pc' = [pc EXCEPT ![p] = "snapshot"]
        /\ status' \in [Procs -> Statuses] /\ RecoverFrame
    BY <1>2, Zenon DEF ReadPointer, Goto, Inv, TypeOK, RecoverFrame
  <2>4. pointer.gen # 0 /\ <<pointer.gen, 0>> \in DOMAIN at /\ at' = at
    BY <1>2, <2>3, Zenon DEF Inv, CatalogInv, RecoverFrame, historyVars
  <2>5. pc'[p] = "snapshot"
    BY <2>3, Zenon DEF Inv, TypeOK
  <2>6. <<load'[p].entry.gen, load'[p].seq - 1>> = <<pointer.gen, 0>>
    BY <2>2
  <2>7. ReplayInv(p)'
    BY <2>2, <2>4, <2>5, <2>6, Zenon DEF ReplayInv, Replaying
  <2> QED BY <1>1, <2>1, <2>3, <2>7, RecoverGoesOn, Zenon DEF Replaying
<1>3. CASE pointer = Nowhere /\ p \in Readers /\ Fail(p, "NotFound") /\ UNCHANGED target
  BY <1>1, <1>3, RecoverFails, Zenon DEF ReadPointer, RecoverFrame, Statuses
<1>4. CASE /\ pointer = Nowhere /\ p \in Writers
           /\ Goto(p, "putSnapshot") /\ target' = RollTo(p, 1, "observe")
           /\ UNCHANGED <<load, status>>
  <2>1. entry[p] = Nowhere
    <3>1. entry[p] \in Entry /\ entry[p].gen <= 0
      BY <1>4, NowhereType, EntryBelow, Zenon DEF Inv, TypeOK
    <3>2. entry[p].gen = 0
      BY <3>1 DEF Entry
    <3> QED BY <3>2, Zenon DEF Inv, ProcInv, ServingInv
  <2>2. pc' \in [Procs -> Stages] /\ target' \in [Procs -> Target]
    BY <1>4, Zenon DEF Goto, RollTo, Inv, TypeOK, Stages, Target
  <2>3. TypeOK'
    BY <1>1, <1>4, <2>2, Zenon DEF ReadPointer, Inv, TypeOK, NoFault, boundVars, catalogVars,
       instanceVars, historyVars
  <2>4. /\ pc'[p] = "putSnapshot" /\ target'[p].gen = 1 /\ target'[p].then = "observe"
        /\ \A q \in Procs \ {p} : pc'[q] = pc[q] /\ target'[q] = target[q]
    BY <1>4, Zenon DEF Goto, RollTo, Inv, TypeOK
  <2>5. UNCHANGED <<manifestVars, entry, seq, version, load>>
    BY <1>4, Zenon DEF ReadPointer, manifestVars, catalogVars, instanceVars, historyVars
  <2>6. RollInv(p)'
    BY <2>1, <2>4, <2>5, NowhereType DEF RollInv, Staged
  <2> QED BY <1>1, <2>3, <2>4, <2>5, <2>6, RollStep, Zenon DEF Staged, Replaying, Opened
<1> QED BY <1>2, <1>3, <1>4, Zenon DEF ReadPointer

LEMMA GetSnapshotInv ==
  ASSUME NEW p \in Procs, Inv, GetSnapshot(p) PROVE Inv'
<1> DEFINE g == load[p].entry.gen
<1>1. /\ pc[p] = "snapshot" /\ NoFault /\ RecoverFrame
      /\ load[p].seq = 1 /\ g # 0 /\ <<g, load[p].seq - 1>> \in DOMAIN at
  BY Zenon DEF GetSnapshot, Inv, ProcInv, ReplayInv, Replaying
<1>2. /\ load \in [Procs -> Attempt] /\ snapshots \in [DOMAIN snapshots -> Snapshot]
      /\ status \in [Procs -> Statuses] /\ pc \in [Procs -> Stages]
  BY Zenon DEF Inv, TypeOK
<1>3. UNCHANGED <<at, log, pointer>>
  BY <1>1, Zenon DEF RecoverFrame, historyVars, catalogVars
<1>4. CASE g \in DOMAIN snapshots /\ snapshots[g].torn
  BY <1>1, <1>4, RecoverFails, SMTT(30) DEF GetSnapshot, Statuses
<1>5. CASE g \in DOMAIN snapshots /\ ~snapshots[g].torn
  <2>1. /\ pc' = [pc EXCEPT ![p] = "list"] /\ status' = status
        /\ load' = [load EXCEPT ![p].files = snapshots[g].files,
                                ![p].next = snapshots[g].next]
    BY <1>5, Zenon DEF GetSnapshot, Goto
  <2>2. snapshots[g].files \in SUBSET Nat /\ snapshots[g].next \in Nat \ {0}
    BY <1>2, <1>5, SMTT(30) DEF Snapshot
  <2>3. load' \in [Procs -> Attempt] /\ \A q \in Procs \ {p} : load'[q] = load[q]
    BY <1>2, <2>1, <2>2, ZenonT(60) DEF Attempt
  <2>4. /\ load'[p].entry = load[p].entry /\ load'[p].seq = load[p].seq
        /\ load'[p].files = snapshots[g].files /\ pc'[p] = "list"
    BY <1>2, <2>1, Zenon DEF Attempt
  <2>5. <<load'[p].entry.gen, load'[p].seq - 1>> = <<g, 0>>
    BY <1>1, <2>4
  <2>6. g = pointer.gen => snapshots[g].files = log[at[<<g, 0>>]]
    BY <1>1, NowhereType, Zenon DEF Inv, CatalogInv
  <2>7. ReplayInv(p)'
    BY <1>1, <1>3, <2>4, <2>5, <2>6, Zenon DEF ReplayInv, Replaying
  <2> QED BY <1>1, <1>2, <2>1, <2>3, <2>7, RecoverGoesOn, Zenon DEF Replaying
<1>6. CASE g \notin DOMAIN snapshots
  <2>1. /\ pc' = [pc EXCEPT ![p] = "missing"] /\ status' = status
        /\ load' = [load EXCEPT ![p].verdict = "Corrupt"]
    BY <1>6, Zenon DEF GetSnapshot, Goto
  <2>2. load' \in [Procs -> Attempt] /\ \A q \in Procs \ {p} : load'[q] = load[q]
    BY <1>2, <2>1, ZenonT(60) DEF Attempt, Statuses
  <2>3. load'[p].entry = load[p].entry /\ load'[p].seq = load[p].seq /\ pc'[p] = "missing"
    BY <1>2, <2>1, Zenon DEF Attempt
  <2>4. ReplayInv(p)'
    BY <1>1, <1>3, <2>3, Zenon DEF ReplayInv, Replaying
  <2> QED BY <1>1, <1>2, <2>1, <2>2, <2>4, RecoverGoesOn, Zenon DEF Replaying
<1> QED BY <1>4, <1>5, <1>6, Zenon

LEMMA ListEditsInv ==
  ASSUME NEW p \in Procs, Inv, ListEditsOf(p) PROVE Inv'
<1>1. /\ pc[p] = "list" /\ RecoverFrame /\ (Fault \/ NoFault)
      /\ pc' = [pc EXCEPT ![p] = "replay"] /\ status' = status
  BY Zenon DEF ListEditsOf, Goto
<1>2. /\ load \in [Procs -> Attempt] /\ status \in [Procs -> Statuses]
      /\ pc \in [Procs -> Stages] /\ now \in Nat /\ DOMAIN edits \subseteq Nat \X Nat
  BY Zenon DEF Inv, TypeOK
<1>3. PICK S \in SUBSET Nat : load' = [load EXCEPT ![p].listed = S, ![p].since = now]
  <2>1. ListEdits(load[p].entry.gen) \in SUBSET Nat
    BY <1>2, Zenon DEF ListEdits
  <2> QED BY <2>1, Zenon DEF ListEditsOf
<1>4. load' \in [Procs -> Attempt] /\ \A q \in Procs \ {p} : load'[q] = load[q]
  BY <1>2, <1>3, ZenonT(60) DEF Attempt
<1>5. /\ load'[p].entry = load[p].entry /\ load'[p].seq = load[p].seq
      /\ load'[p].files = load[p].files /\ pc'[p] = "replay"
  BY <1>1, <1>2, <1>3, Zenon DEF Attempt
<1>6. UNCHANGED <<at, log, pointer>>
  BY <1>1, Zenon DEF RecoverFrame, historyVars, catalogVars
<1>7. ReplayInv(p)'
  BY <1>1, <1>5, <1>6, Zenon DEF Inv, ProcInv, ReplayInv, Replaying
<1> QED BY <1>1, <1>2, <1>4, <1>7, RecoverGoesOn, Zenon DEF Replaying


LEMMA GetEditInv ==
  ASSUME NEW p \in Procs, Inv, GetEdit(p) PROVE Inv'
<1> DEFINE g == load[p].entry.gen
           s == load[p].seq
           a == <<g, s>>
<1>1. /\ pc[p] = "replay" /\ RecoverFrame
      /\ g # 0 /\ <<g, s - 1>> \in DOMAIN at
      /\ g = pointer.gen => load[p].files = log[at[<<g, s - 1>>]]
  <2>1. pc[p] = "replay" /\ RecoverFrame
    BY Zenon DEF GetEdit
  <2>2. ReplayInv(p)
    BY Zenon DEF Inv, ProcInv
  <2> QED BY <2>1, <2>2, Zenon DEF ReplayInv, Replaying
<1>2. /\ load \in [Procs -> Attempt] /\ edits \in [DOMAIN edits -> Edit]
      /\ status \in [Procs -> Statuses] /\ pc \in [Procs -> Stages]
  BY Zenon DEF Inv, TypeOK
<1>3. UNCHANGED <<at, log, pointer>>
  BY <1>1, Zenon DEF RecoverFrame, historyVars, catalogVars
<1>4. load[p] \in Attempt /\ s \in Nat \ {0} /\ load[p].next \in Nat \ {0} /\ load[p].files \in SUBSET Nat
  BY <1>2, Zenon DEF Attempt
<1>5. CASE pc' = [pc EXCEPT ![p] = "confirm"] /\ UNCHANGED <<load, status>> /\ NoFault
  <2>1. ReplayInv(p)'
    BY <1>1, <1>2, <1>3, <1>5, Zenon DEF ReplayInv, Replaying
  <2> QED BY <1>1, <1>2, <1>5, <2>1, RecoverGoesOn, Zenon DEF Replaying
<1>6. CASE /\ Listed(p, s) /\ a \in DOMAIN edits /\ ~edits[a].torn
           /\ load' = [load EXCEPT ![p].files = ApplyEdit(@, edits[a]),
                                   ![p].next = ReplayedNext(@, edits[a]),
                                   ![p].seq = s + 1]
           /\ UNCHANGED <<pc, status>> /\ NoFault
  <2>1. /\ edits[a].added \in SUBSET Nat /\ edits[a].deleted \in SUBSET Nat
        /\ edits[a].next \in Nat \ {0}
    BY <1>2, <1>6, Zenon DEF Edit
  <2> DEFINE F == ApplyEdit(load[p].files, edits[a])
             N == ReplayedNext(load[p].next, edits[a])
  <2>2. F \in SUBSET Nat /\ N \in Nat \ {0} /\ s + 1 \in Nat \ {0}
    BY <1>4, <2>1 DEF ApplyEdit, ReplayedNext, Larger
  <2>3. load' = [load EXCEPT ![p].files = F, ![p].next = N, ![p].seq = s + 1]
    BY <1>2, <1>6, Zenon
  <2> HIDE DEF F, N
  <2>4. load' \in [Procs -> Attempt] /\ \A q \in Procs \ {p} : load'[q] = load[q]
    BY <1>2, <2>2, <2>3 DEF Attempt
  <2>5. /\ load'[p].entry = load[p].entry /\ load'[p].seq = s + 1
        /\ load'[p].files = F
    BY <1>2, <2>3, Zenon DEF Attempt
  <2>6. a \in DOMAIN at /\ <<load'[p].entry.gen, load'[p].seq - 1>> = a
    <3>1. a \in DOMAIN at
      BY <1>6, Zenon DEF Inv, CatalogInv
    <3> QED BY <1>4, <1>6, <2>5, <3>1
  <2>7. g = pointer.gen => F = log[at[a]]
    BY <1>1, <1>4, <1>6, Zenon DEF Inv, CatalogInv, WellFormed, F
  <2>8. pc' = [pc EXCEPT ![p] = "replay"]
    BY <1>1, <1>2, <1>6, Zenon
  <2>9. ReplayInv(p)'
    BY <1>1, <1>3, <1>6, <2>5, <2>6, <2>7, Zenon DEF ReplayInv, Replaying
  <2> QED BY <1>1, <1>2, <1>6, <2>4, <2>8, <2>9, RecoverGoesOn, Zenon DEF Replaying
<1>7. CASE Fail(p, "Corrupt") /\ NoFault
  BY <1>1, <1>7, RecoverFails, Zenon DEF Statuses
<1>8. ASSUME NEW v \in Statuses, Goto(p, "missing"),
             load' = [load EXCEPT ![p].verdict = v], UNCHANGED status, Fault \/ NoFault
      PROVE  Inv'
  <2>1. pc' = [pc EXCEPT ![p] = "missing"]
    BY <1>8, Zenon DEF Goto
  <2>2. load' \in [Procs -> Attempt] /\ \A q \in Procs \ {p} : load'[q] = load[q]
    BY <1>2, <1>8, Zenon DEF Attempt
  <2>3. load'[p].entry = load[p].entry /\ load'[p].seq = load[p].seq /\ pc'[p] = "missing"
    BY <1>2, <1>8, <2>1, Zenon DEF Attempt
  <2>4. ReplayInv(p)'
    BY <1>1, <1>3, <2>3, Zenon DEF ReplayInv, Replaying
  <2> QED BY <1>1, <1>2, <1>8, <2>1, <2>2, <2>4, RecoverGoesOn, Zenon DEF Replaying
<1>9. "Corrupt" \in Statuses /\ "Io" \in Statuses
  BY Zenon DEF Statuses
<1> QED BY <1>5, <1>6, <1>7, <1>8, <1>9, Zenon DEF GetEdit, Goto

LEMMA RecoverIoInv ==
  ASSUME NEW p \in Procs, Inv, RecoverIo(p) PROVE Inv'
  BY RecoverFails, Zenon DEF RecoverIo, Statuses

LEMMA RereadInv ==
  ASSUME NEW p \in Procs, Inv, Reread(p) PROVE Inv'
<1>1. load[p].verdict \in Statuses
  BY Zenon DEF Inv, TypeOK, Attempt
<1> QED BY <1>1, RecoverFails, RecoverRetries, Zenon DEF Reread, Statuses


LEMMA ConfirmInv ==
  ASSUME NEW p \in Procs, Inv, Confirm(p) PROVE Inv'
<1>1. /\ pc[p] = "confirm" /\ NoFault
      /\ UNCHANGED <<catalogVars, objects, fenced, pending, written, pinned, target,
                     log, at, acked>>
  BY Zenon DEF Confirm
<1>2. CASE /\ Retry(p) \/ Fail(p, "Corrupt")
           /\ UNCHANGED <<entry, seq, version, nextFile, reseal, asOf>>
  <2>1. RecoverFrame
    BY <1>1, <1>2, Zenon DEF RecoverFrame, instanceVars, historyVars
  <2> QED BY <1>1, <1>2, <2>1, RecoverRetries, RecoverFails, Zenon DEF Statuses
<1>3. CASE /\ ~Moved(p)
           /\ entry' = [entry EXCEPT ![p] = load[p].entry]
           /\ seq' = [seq EXCEPT ![p] = load[p].seq]
           /\ version' = [version EXCEPT ![p] = load[p].files]
           /\ nextFile' = [nextFile EXCEPT ![p] = load[p].next]
           /\ asOf' = [asOf EXCEPT ![p] = load[p].since]
           /\ \E b \in BOOLEAN : reseal' = [reseal EXCEPT ![p] = b]
           /\ load' = [load EXCEPT ![p] = NoLoad]
           /\ Goto(p, IF entry[p] = Nowhere THEN "verify" ELSE "idle")
           /\ UNCHANGED status
  <2>1. /\ load[p].entry \in Entry /\ load[p].seq \in Nat \ {0} /\ load[p].files \in SUBSET Nat
        /\ load[p].next \in Nat \ {0} /\ load[p].since \in Nat
    BY Zenon DEF Inv, TypeOK, Attempt
  <2>2. /\ entry' \in [Procs -> Entry] /\ seq' \in [Procs -> Nat \ {0}]
        /\ version' \in [Procs -> SUBSET Nat] /\ nextFile' \in [Procs -> Nat \ {0}]
        /\ asOf' \in [Procs -> Nat] /\ reseal' \in [Procs -> BOOLEAN]
        /\ load' \in [Procs -> Attempt]
    BY <1>3, <2>1, NoLoadType, Zenon DEF Inv, TypeOK
  <2>3. pc' \in [Procs -> Stages]
    BY <1>3, Zenon DEF Goto, Inv, TypeOK, Stages
  <2>4. TypeOK'
    BY <1>1, <1>3, <2>2, <2>3, Zenon DEF Inv, TypeOK, NoFault, boundVars, catalogVars
  <2>5. /\ entry'[p] = load[p].entry /\ seq'[p] = load[p].seq /\ version'[p] = load[p].files
        /\ load'[p].seq = 1 /\ pc'[p] \in {"verify", "idle"}
    BY <1>3, NoLoadType, Zenon DEF Goto, Inv, TypeOK
  <2>6. \A q \in Procs \ {p} : Same(q)
    BY <1>1, <1>3, Zenon DEF Goto, Inv, TypeOK, Same
  <2>7. UNCHANGED manifestVars
    BY <1>1, Zenon DEF manifestVars, catalogVars
  <2>8. /\ load[p].entry.gen # 0 /\ load[p].entry.gen = pointer.gen
        /\ <<load[p].entry.gen, load[p].seq - 1>> \in DOMAIN at
        /\ load[p].files = log[at[<<load[p].entry.gen, load[p].seq - 1>>]]
    BY <1>1, <1>3, Zenon DEF Inv, ProcInv, ReplayInv, Replaying, Moved
  <2>9. ServingInv(p)'
    BY <2>5, <2>7, <2>8, NowhereType, Zenon DEF ServingInv, Standing, manifestVars
  <2>10. ReplayInv(p)' /\ RollInv(p)'
    BY <2>5, Zenon DEF ReplayInv, Replaying, RollInv, Rolling, Staged
  <2> QED BY <2>4, <2>5, <2>6, <2>7, <2>9, <2>10, LocalStep, Zenon DEF ProcInv, Staged
<1> QED BY <1>2, <1>3, Zenon DEF Confirm

\* The instance is gone, and the manifest as it was.
LEMMA ForgetInv ==
  ASSUME NEW p \in Procs, Inv, NEW s \in Statuses, Forget(p, s),
         UNCHANGED <<catalogVars, objects, log, at, acked>>,
         faults' \in Nat, crashes' \in Nat, now' \in Nat
  PROVE  Inv'
<1>1. /\ pc' \in [Procs -> Stages] /\ entry' \in [Procs -> Entry] /\ seq' \in [Procs -> Nat \ {0}]
      /\ version' \in [Procs -> SUBSET Nat] /\ nextFile' \in [Procs -> Nat \ {0}]
      /\ fenced' \in [Procs -> BOOLEAN] /\ pending' \in [Procs -> SUBSET (Nat \X Nat)]
      /\ written' \in [Procs -> SUBSET Nat]
  BY NowhereType DEF Forget, Goto, Inv, TypeOK, Stages
<1>2. /\ pinned' \in [Procs -> SUBSET SUBSET Nat] /\ reseal' \in [Procs -> BOOLEAN]
      /\ load' \in [Procs -> Attempt] /\ target' \in [Procs -> Target]
      /\ status' \in [Procs -> Statuses] /\ asOf' \in [Procs -> Nat]
  BY NoLoadType, NoTargetType, Zenon DEF Forget, Inv, TypeOK
<1>3. TypeOK'
  BY <1>1, <1>2, Zenon DEF Inv, TypeOK, catalogVars
<1>4. /\ pc'[p] = "down" /\ entry'[p] = Nowhere /\ version'[p] = {} /\ load'[p].seq = 1
      /\ \A q \in Procs \ {p} : Same(q)
  BY NoLoadType, Zenon DEF Forget, Goto, Inv, TypeOK, Same
<1>5. ProcInv(p)'
  BY <1>4, Zenon DEF ProcInv, ServingInv, Opened, ReplayInv, Replaying, RollInv, Rolling, Staged
<1>6. UNCHANGED manifestVars
  BY Zenon DEF manifestVars, catalogVars
<1> QED BY <1>3, <1>4, <1>5, <1>6, LocalStep, Zenon DEF Staged

LEMMA CrashInv ==
  ASSUME NEW p \in Procs, Inv, Crash(p) PROVE Inv'
<1>1. faults' \in Nat /\ crashes' \in Nat /\ now' \in Nat
  BY SMTT(30) DEF Crash, Inv, TypeOK
<1> QED BY <1>1, ForgetInv, Zenon DEF Crash, Statuses


-----------------------------------------------------------------------------
(* Steps between opening and rolling. *)

\* A step that moves a process between stages in which it neither replays nor rolls.
LEMMA OpenedStep ==
  ASSUME NEW p \in Procs, Inv, TypeOK', UNCHANGED <<manifestVars, entry, seq, version, load, target>>,
         NEW c \in Opened, pc' = [pc EXCEPT ![p] = c], pc[p] \in Opened
  PROVE  Inv'
<1>1. pc'[p] = c /\ \A q \in Procs \ {p} : pc'[q] = pc[q] /\ target'[q] = target[q]
  BY SMTT(30) DEF Inv, TypeOK
<1>2. RollInv(p)'
  BY <1>1, Zenon DEF RollInv, Rolling, Staged, Opened
<1> QED BY <1>1, <1>2, RollStep, Zenon DEF Inv, ProcInv, ServingInv, Opened, Replaying, Staged

\* A step after which every process is where it was.
LEMMA StillStep ==
  ASSUME Inv, TypeOK', UNCHANGED <<manifestVars, pc, entry, seq, version, load, target>>
  PROVE  Inv'
<1>1. \A q \in Procs : ProcInv(q)'
  BY QuietProc, Zenon DEF Inv, Same
<1>2. CatalogInv'
  BY ZenonT(60) DEF Inv, CatalogInv, manifestVars, WellFormed
<1>3. \A q, r \in Procs : Unique(q, r)'
  BY Zenon DEF Inv, Unique, manifestVars
<1> QED BY <1>1, <1>2, <1>3, Zenon DEF Inv

LEMMA ListingType ==
  ASSUME NEW p \in Procs, TypeOK, ObserveListing(p)
  PROVE  nextFile' \in [Procs -> Nat \ {0}]
<1>1. nextFile \in [Procs -> Nat \ {0}] /\ MaxFile \in Nat
  BY ConstantsAssumption, Zenon DEF TypeOK
<1>2. PICK m \in 1..(MaxFile + 1) : nextFile' = [nextFile EXCEPT ![p] = m]
  BY Zenon DEF ObserveListing
<1> QED BY <1>1, <1>2

LEMMA VerifyStoresInv ==
  ASSUME NEW p \in Procs, Inv, VerifyStores(p) PROVE Inv'
<1>1. CASE /\ ObserveListing(p) /\ Goto(p, "idle") /\ NoFault
           /\ UNCHANGED <<entry, seq, version, fenced, pending, written, pinned,
                          reseal, localVars, asOf>>
  <2>1. pc' \in [Procs -> Stages] /\ nextFile' \in [Procs -> Nat \ {0}]
    BY <1>1, ListingType, Zenon DEF Inv, TypeOK, Goto, Stages
  <2>2. TypeOK'
    BY <1>1, <2>1, Zenon DEF VerifyStores, Inv, TypeOK, NoFault, boundVars, catalogVars, localVars
  <2>3. UNCHANGED <<manifestVars, entry, seq, version, load, target>>
    BY <1>1, ZenonT(60) DEF VerifyStores, manifestVars, catalogVars, localVars
  <2> QED BY <1>1, <2>2, <2>3, OpenedStep, Zenon DEF VerifyStores, Goto, Opened
<1>2. CASE Forget(p, "Corrupt") /\ NoFault
  BY <1>2, ForgetInv, Bounds, Zenon DEF VerifyStores, Inv, Statuses
<1>3. CASE Fault /\ Forget(p, "Io")
  BY <1>3, ForgetInv, Bounds, Zenon DEF VerifyStores, Inv, Statuses
<1> QED BY <1>1, <1>2, <1>3, Zenon DEF VerifyStores

LEMMA ObserveAfterCreateInv ==
  ASSUME NEW p \in Procs, Inv, ObserveAfterCreate(p) PROVE Inv'
<1>1. pc' \in [Procs -> Stages] /\ nextFile' \in [Procs -> Nat \ {0}]
  BY ListingType, Zenon DEF ObserveAfterCreate, Inv, TypeOK, Goto, Stages
<1>2. Fault \/ NoFault
  BY Zenon DEF ObserveAfterCreate
<1>3. TypeOK'
  BY <1>1, <1>2, Bounds, Zenon DEF ObserveAfterCreate, Inv, TypeOK, catalogVars, localVars, historyVars
<1>4. UNCHANGED <<manifestVars, entry, seq, version, load, target>>
  BY Zenon DEF ObserveAfterCreate, manifestVars, catalogVars, localVars, historyVars
<1> QED BY <1>3, <1>4, OpenedStep, Zenon DEF ObserveAfterCreate, Goto, Opened

LEMMA PutObjectInv ==
  ASSUME NEW p \in Procs, Inv, PutObject(p) PROVE Inv'
<1>1. nextFile[p] \in 1..MaxFile
  <2>1. nextFile \in [Procs -> Nat \ {0}] /\ MaxFile \in Nat
    BY ConstantsAssumption, Zenon DEF Inv, TypeOK
  <2>2. nextFile[p] <= MaxFile
    BY Zenon DEF PutObject
  <2> QED BY <2>1, <2>2
<1>2. Fault \/ NoFault
  BY Zenon DEF PutObject
<1>3. nextFile' \in [Procs -> Nat \ {0}]
  <2>1. CASE nextFile' = [nextFile EXCEPT ![p] = nextFile[p] + 1]
    BY <2>1 DEF Inv, TypeOK
  <2> QED BY <2>1, ListingType, Zenon DEF PutObject, Inv
<1>4. objects' \subseteq 1..MaxFile /\ written' \in [Procs -> SUBSET Nat]
  <2>1. objects' \subseteq objects \cup {nextFile[p]}
    BY Zenon DEF PutObject, AbandonedPut
  <2>2. written' = written \/ written' = [written EXCEPT ![p] = @ \cup {nextFile[p]}]
    BY Zenon DEF PutObject, AbandonedPut
  <2>3. objects' \subseteq 1..MaxFile
    BY <1>1, <2>1, Zenon DEF Inv, TypeOK
  <2>4. written \in [Procs -> SUBSET Nat] /\ written[p] \cup {nextFile[p]} \in SUBSET Nat
    BY DEF Inv, TypeOK
  <2>5. written' \in [Procs -> SUBSET Nat]
    BY <2>2, <2>4, SMTT(30)
  <2> QED BY <2>3, <2>5, Zenon
<1>5. TypeOK'
  BY <1>2, <1>3, <1>4, Bounds, Zenon DEF PutObject, Inv, TypeOK, catalogVars, localVars, historyVars
<1> QED BY <1>5, StillStep, Zenon DEF PutObject, manifestVars, catalogVars, localVars, historyVars


LEMMA CollectObsoleteInv ==
  ASSUME NEW p \in Procs, Inv, CollectObsolete(p) PROVE Inv'
<1>1. /\ pc[p] \in {"collect", "idle"} /\ entry[p] # Nowhere /\ (Fault \/ NoFault)
      /\ pc' = [pc EXCEPT ![p] = "idle"]
  BY Zenon DEF CollectObsolete, Goto
<1>2. objects' \subseteq 1..MaxFile
  BY SMTT(30) DEF CollectObsolete, Inv, TypeOK
<1>3. pending' \in [Procs -> SUBSET (Nat \X Nat)]
  <2>1. pending \in [Procs -> SUBSET (Nat \X Nat)] /\ pending[p] \in SUBSET (Nat \X Nat)
    BY Zenon DEF Inv, TypeOK
  <2>2. Collectable(p) \in SUBSET (Nat \X Nat)
    BY <2>1, Zenon DEF Collectable
  <2>3. Repend(Collectable(p)) \in SUBSET (Nat \X Nat)
    BY <2>2 DEF Repend
  <2>4. /\ pending[p] \ Collectable(p) \in SUBSET (Nat \X Nat)
        /\ (pending[p] \ Collectable(p)) \cup Repend(Collectable(p)) \in SUBSET (Nat \X Nat)
    BY <2>1, <2>3, Zenon
  <2> HIDE DEF Collectable, Repend
  <2> QED BY <2>1, <2>4, Zenon DEF CollectObsolete
<1>4. acked' \in Nat
  BY <1>1, Zenon DEF CollectObsolete, Standing, Inv, TypeOK, ProcInv, ServingInv
<1>5. pc' \in [Procs -> Stages]
  BY <1>1, Zenon DEF Inv, TypeOK, Stages
<1>6. TypeOK'
  BY <1>1, <1>2, <1>3, <1>4, <1>5, Bounds, Zenon DEF CollectObsolete, Inv, TypeOK, catalogVars, localVars
<1>7. UNCHANGED <<manifestVars, entry, seq, version, load, target>>
  BY Zenon DEF CollectObsolete, manifestVars, catalogVars, localVars
<1> QED BY <1>1, <1>6, <1>7, OpenedStep, Zenon DEF Opened

LEMMA PinInv ==
  ASSUME NEW p \in Procs, Inv, Pin(p) \/ Unpin(p) PROVE Inv'
<1>1. pinned' \in [Procs -> SUBSET SUBSET Nat]
  <2>1. pinned \in [Procs -> SUBSET SUBSET Nat] /\ pinned[p] \cup {version[p]} \in SUBSET SUBSET Nat
    <3>1. pinned \in [Procs -> SUBSET SUBSET Nat] /\ version \in [Procs -> SUBSET Nat]
      BY Zenon DEF Inv, TypeOK
    <3> QED BY <3>1
  <2>2. CASE Pin(p)
    BY <2>1, <2>2, Zenon DEF Pin
  <2>3. CASE Unpin(p)
    <3>1. PICK v \in pinned[p] : pinned' = [pinned EXCEPT ![p] = @ \ {v}]
      BY <2>3, Zenon DEF Unpin
    <3>2. pinned[p] \ {v} \in SUBSET SUBSET Nat
      BY <2>1, Zenon
    <3> QED BY <2>1, <3>1, <3>2, Zenon
  <2> QED BY <2>2, <2>3, Zenon
<1>2. TypeOK'
  BY <1>1, Zenon DEF Pin, Unpin, Inv, TypeOK, catalogVars, localVars, boundVars, historyVars
<1> QED BY <1>2, StillStep, Zenon DEF Pin, Unpin, manifestVars, catalogVars, localVars, historyVars

LEMMA TickInv == ASSUME Inv, Tick PROVE Inv'
<1>1. TypeOK'
  <2>1. now' \in Nat /\ faults' = faults /\ crashes' = crashes
    BY DEF Tick, Inv, TypeOK
  <2> QED BY <2>1, Zenon DEF Tick, Inv, TypeOK, catalogVars, instanceVars, localVars, historyVars
<1> QED BY <1>1, StillStep, Zenon DEF Tick, manifestVars, catalogVars, instanceVars, localVars, historyVars

LEMMA ReadMissingInv ==
  ASSUME NEW p \in Procs, Inv, ReadMissing(p) PROVE Inv'
<1>1. pc' \in [Procs -> Stages]
  BY Zenon DEF ReadMissing, Goto, Inv, TypeOK, Stages
<1>2. TypeOK'
  BY <1>1, ZenonT(60) DEF ReadMissing, Inv, TypeOK, catalogVars, instanceVars, localVars, boundVars, historyVars
<1> QED BY <1>2, OpenedStep, Zenon DEF ReadMissing, Goto, Opened, manifestVars, catalogVars, instanceVars,
          localVars, historyVars

LEMMA AdvancedInv ==
  ASSUME NEW p \in Procs, Inv, AdvancedPointer(p) \/ AdvancedList(p) PROVE Inv'
<1>1. /\ pc[p] \in {"advanced", "advancedList"} /\ (Fault \/ NoFault)
      /\ UNCHANGED <<catalogVars, objects, log, at, acked>>
  BY Zenon DEF AdvancedPointer, AdvancedList
<1>2. CASE Forget(p, "Corrupt")
  BY <1>1, <1>2, ForgetInv, Bounds, Zenon DEF Inv, Statuses
<1>3. ASSUME NEW c \in {"idle", "advancedList"}, pc' = [pc EXCEPT ![p] = c],
             UNCHANGED <<instanceVars, load, target, asOf>>,
             status' = status \/ status' = [status EXCEPT ![p] = "Stale"]
      PROVE  Inv'
  <2>1. pc' \in [Procs -> Stages] /\ status' \in [Procs -> Statuses]
    BY <1>3, Zenon DEF Inv, TypeOK, Stages, Statuses
  <2>2. TypeOK'
    BY <1>1, <1>3, <2>1, Bounds, Zenon DEF Inv, TypeOK, catalogVars, instanceVars
  <2> QED BY <1>1, <1>3, <2>2, OpenedStep, Zenon DEF Opened, manifestVars, catalogVars, instanceVars
<1> QED BY <1>2, <1>3, Zenon DEF AdvancedPointer, AdvancedList, AnswerStale, Goto, localVars

-----------------------------------------------------------------------------
(* write_snapshot_and_install: the steps that leave the manifest alone. *)

\* A roll that ends without an installed generation.
LEMMA RollFails ==
  ASSUME NEW p \in Procs, Inv, pc[p] \in Rolling, RollFailed(p),
         fenced' \in [Procs -> BOOLEAN],
         UNCHANGED <<catalogVars, entry, seq, reseal, status, log, at>>, RollFrame, Fault \/ NoFault
  PROVE  Inv'
<1>1. target[p].then \in {"down", "idle", "collect", "observe"}
  BY Zenon DEF Inv, TypeOK, Target
<1>2. pc' \in [Procs -> Stages] /\ target' \in [Procs -> Target]
  BY <1>1, NoTargetType, Zenon DEF RollFailed, Goto, Inv, TypeOK, Stages
<1>3. TypeOK'
  BY <1>2, Bounds, Zenon DEF Inv, TypeOK, RollFrame, catalogVars
<1>4. /\ pc'[p] \in {"down", "idle", "collect"}
      /\ pc'[p] # "down" => target[p].then # "observe"
      /\ \A q \in Procs \ {p} : pc'[q] = pc[q] /\ target'[q] = target[q]
  BY <1>1, Zenon DEF RollFailed, Goto, Inv, TypeOK
<1>5. pc'[p] \in Opened => entry[p] # Nowhere
  BY <1>4, Zenon DEF Inv, ProcInv, RollInv, Opened
<1>6. RollInv(p)'
  BY <1>4, Zenon DEF RollInv, Rolling, Staged
<1>7. UNCHANGED <<manifestVars, entry, seq, version, load>>
  BY Zenon DEF RollFrame, manifestVars, catalogVars
<1> QED BY <1>3, <1>4, <1>5, <1>6, <1>7, RollStep, Zenon DEF Rolling, Replaying, Staged

\* A roll that goes on without touching the manifest.
LEMMA RollGoesOn ==
  ASSUME NEW p \in Procs, Inv, pc[p] \in Rolling, NEW c \in Rolling, pc' = [pc EXCEPT ![p] = c],
         target' \in [Procs -> Target], \A q \in Procs \ {p} : target'[q] = target[q],
         UNCHANGED <<catalogVars, entry, seq, fenced, reseal, status, log, at>>, RollFrame,
         Fault \/ NoFault,
         c \in Staged => pc[p] \in Staged /\ target'[p] = target[p],
         RollInv(p)'
  PROVE  Inv'
<1>1. pc' \in [Procs -> Stages]
  BY Zenon DEF Inv, TypeOK, Stages, Rolling
<1>2. TypeOK'
  BY <1>1, Bounds, Zenon DEF Inv, TypeOK, RollFrame, catalogVars
<1>3. pc'[p] = c /\ \A q \in Procs \ {p} : pc'[q] = pc[q] /\ target'[q] = target[q]
  BY Zenon DEF Inv, TypeOK
<1>4. UNCHANGED <<manifestVars, entry, seq, version, load>>
  BY Zenon DEF RollFrame, manifestVars, catalogVars
<1> QED BY <1>2, <1>3, <1>4, RollStep, Zenon DEF Rolling, Replaying, Opened

LEMMA FenceType ==
  ASSUME NEW p \in Procs, Inv, Fence(p) PROVE fenced' \in [Procs -> BOOLEAN]
  BY Zenon DEF Fence, Inv, TypeOK

LEMMA CollidedInv ==
  ASSUME NEW p \in Procs, Inv, Collided(p) PROVE Inv'
<1>1. /\ pc[p] = "collided" /\ RollFrame
      /\ UNCHANGED <<catalogVars, entry, seq, reseal, status, log, at>>
  BY Zenon DEF Collided
<1>2. CASE Goto(p, "relist") /\ NoFault /\ UNCHANGED <<fenced, target>>
  <2>1. pc' = [pc EXCEPT ![p] = "relist"] /\ pc'[p] = "relist" /\ target \in [Procs -> Target]
    BY <1>2, Zenon DEF Goto, Inv, TypeOK
  <2>2. RollInv(p)'
    BY <1>1, <1>2, <2>1, Zenon DEF Inv, ProcInv, RollInv, Rolling, Staged
  <2> QED BY <1>1, <1>2, <2>1, <2>2, RollGoesOn, Zenon DEF Rolling, Staged
<1>3. CASE Fence(p) /\ RollFailed(p) /\ NoFault
  BY <1>1, <1>3, FenceType, RollFails, Zenon DEF Rolling
<1>4. CASE Fault /\ RollFailed(p) /\ UNCHANGED fenced
  BY <1>1, <1>4, RollFails, Zenon DEF Rolling, Inv, TypeOK
<1> QED BY <1>2, <1>3, <1>4, Zenon DEF Collided

LEMMA RelistInv ==
  ASSUME NEW p \in Procs, Inv, Relist(p) PROVE Inv'
<1>1. /\ pc[p] = "relist" /\ RollFrame
      /\ UNCHANGED <<catalogVars, entry, seq, fenced, reseal, status, log, at>>
  BY Zenon DEF Relist
<1>2. CASE RollFailed(p) /\ (Fault \/ NoFault)
  BY <1>1, <1>2, RollFails, Zenon DEF Rolling, Inv, TypeOK
<1> DEFINE known == ListGenerations \cup {target[p].gen}
<1>3. ASSUME NEW g \in known, \A h \in known : h <= g,
             target' = [target EXCEPT ![p].gen = g + 1, ![p].tries = @ + 1],
             Goto(p, "putSnapshot"), NoFault
      PROVE  Inv'
  <2>1. /\ target \in [Procs -> Target] /\ DOMAIN snapshots \subseteq Nat
        /\ DOMAIN edits \subseteq Nat \X Nat /\ entry[p] \in Entry
    BY Zenon DEF Inv, TypeOK
  <2>2. target[p].gen \in Nat /\ target[p].tries \in Nat /\ entry[p].gen \in Nat
    BY <2>1, Zenon DEF Target, Entry
  <2>3. g \in Nat /\ target[p].gen <= g
    BY <1>3, <2>1, <2>2, Zenon DEF ListGenerations
  <2>4. target' \in [Procs -> Target] /\ \A q \in Procs \ {p} : target'[q] = target[q]
    BY <1>3, <2>1, <2>2, <2>3 DEF Target
  <2>5. target'[p].gen = g + 1 /\ target'[p].then = target[p].then
    BY <1>3, <2>1, Zenon DEF Target
  <2>6. pc' = [pc EXCEPT ![p] = "putSnapshot"] /\ pc'[p] = "putSnapshot"
    BY <1>3, Zenon DEF Goto, Inv, TypeOK
  <2>7. entry[p].gen < target[p].gen /\ (target[p].then # "observe" => entry[p] # Nowhere)
    BY <1>1, Zenon DEF Inv, ProcInv, RollInv, Rolling
  <2> HIDE DEF known
  <2>9. entry[p].gen < g + 1
    BY <2>2, <2>3, <2>7
  <2>8. RollInv(p)'
    BY <1>1, <2>9, <2>5, <2>6, <2>7, Zenon DEF RollInv, Rolling, Staged
  <2> QED BY <1>1, <1>3, <2>4, <2>6, <2>8, RollGoesOn, Zenon DEF Rolling, Staged
<1> QED BY <1>2, <1>3, Zenon DEF Relist

LEMMA SettleCasInv ==
  ASSUME NEW p \in Procs, Inv, SettleCas(p) PROVE Inv'
<1>1. /\ pc[p] = "ambiguous" /\ RollFrame
      /\ UNCHANGED <<catalogVars, entry, seq, reseal, status, log, at>>
  BY Zenon DEF SettleCas
<1>2. CASE pointer.gen = target[p].gen /\ Goto(p, "installed") /\ NoFault /\ UNCHANGED <<fenced, target>>
  <2>1. pc' = [pc EXCEPT ![p] = "installed"] /\ pc'[p] = "installed" /\ target \in [Procs -> Target]
    BY <1>2, Zenon DEF Goto, Inv, TypeOK
  <2>2. /\ entry[p].gen < target[p].gen /\ (target[p].then # "observe" => entry[p] # Nowhere)
        /\ version[p] = log[at[<<target[p].gen, 0>>]]
    BY <1>1, <1>2, Zenon DEF Inv, ProcInv, RollInv, Rolling
  <2>3. entry[p].gen \in Nat /\ pointer.gen \in Nat
    BY Zenon DEF Inv, TypeOK, Entry
  <2>4. pointer # Nowhere
    BY <1>2, <2>2, <2>3, NowhereType
  <2>5. <<target[p].gen, 0>> \in DOMAIN at
    BY <1>2, <2>4, Zenon DEF Inv, CatalogInv
  <2>6. RollInv(p)'
    BY <1>1, <1>2, <2>1, <2>2, <2>3, <2>5 DEF RollInv, Rolling, Staged, RollFrame, catalogVars
  <2> QED BY <1>1, <1>2, <2>1, <2>6, RollGoesOn, Zenon DEF Rolling, Staged
<1>3. CASE RollFailed(p) /\ UNCHANGED fenced /\ (Fault \/ NoFault)
  BY <1>1, <1>3, RollFails, Zenon DEF Rolling, Inv, TypeOK
<1>4. CASE Fence(p) /\ RollFailed(p) /\ NoFault
  BY <1>1, <1>4, FenceType, RollFails, Zenon DEF Rolling
<1> QED BY <1>2, <1>3, <1>4, Zenon DEF SettleCas

LEMMA RollNowInv ==
  ASSUME NEW p \in Procs, Inv, RollNow(p) PROVE Inv'
<1>1. /\ pc[p] = "idle" /\ entry[p] # Nowhere
      /\ UNCHANGED <<catalogVars, objects, instanceVars, load, status, boundVars, historyVars>>
  BY Zenon DEF RollNow, Inv, ProcInv, ServingInv, Opened
<1>2. entry[p].gen \in Nat /\ nextFile[p] \in Nat \ {0}
  BY Zenon DEF Inv, TypeOK, Entry
<1>3. pc' \in [Procs -> Stages] /\ target' \in [Procs -> Target]
  <2>1. /\ pc \in [Procs -> Stages] /\ pc' = [pc EXCEPT ![p] = "putSnapshot"]
        /\ target \in [Procs -> Target] /\ target' = RollTo(p, entry[p].gen + 1, "idle")
    BY Zenon DEF RollNow, Goto, Inv, TypeOK
  <2>2. pc' \in [Procs -> Stages]
    BY <2>1, Zenon DEF Stages
  <2>3. [gen |-> entry[p].gen + 1, then |-> "idle", next |-> nextFile[p], tries |-> 1] \in Target
    BY <1>2 DEF Target
  <2> QED BY <2>1, <2>2, <2>3, Zenon DEF RollTo
<1>4. TypeOK'
  BY <1>1, <1>3, Zenon DEF Inv, TypeOK, catalogVars, instanceVars, boundVars, historyVars
<1>5. /\ pc'[p] = "putSnapshot" /\ target'[p].gen = entry[p].gen + 1
      /\ \A q \in Procs \ {p} : pc'[q] = pc[q] /\ target'[q] = target[q]
  BY Zenon DEF RollNow, RollTo, Goto, Inv, TypeOK
<1>6. UNCHANGED <<manifestVars, entry, seq, version, load>>
  BY <1>1, Zenon DEF manifestVars, catalogVars, instanceVars, historyVars
<1>7. RollInv(p)'
  BY <1>1, <1>2, <1>5, <1>6 DEF RollInv, Rolling, Staged
<1> QED BY <1>1, <1>4, <1>5, <1>6, <1>7, RollStep, Zenon DEF Rolling, Replaying, Opened, Staged


-----------------------------------------------------------------------------
(* The steps that write the manifest. *)

\* CURRENT stays, and so does everything the live generation and the staged
\* snapshots above it say.
Kept ==
    /\ pointer' = pointer
    /\ DOMAIN at \subseteq DOMAIN at'
    /\ \A a \in DOMAIN at : a[1] = pointer.gen => log'[at'[a]] = log[at[a]]
    /\ \A g \in DOMAIN snapshots : g > pointer.gen =>
          g \in DOMAIN snapshots' /\ snapshots'[g] = snapshots[g]

\* A step that keeps the manifest in that sense keeps what a process serves in
\* the history.
LEMMA KeptServing ==
  ASSUME NEW q \in Procs, Inv, Kept,
         entry'[q] = entry[q], seq'[q] = seq[q], version'[q] = version[q],
         pc'[q] \in Opened => entry[q] # Nowhere
  PROVE  ServingInv(q)'
<1>1. ServingInv(q)
  BY Zenon DEF Inv, ProcInv
<1>2. CASE entry[q] # Nowhere /\ entry[q].gen = pointer.gen
  <2>1. <<entry[q].gen, seq[q] - 1>> \in DOMAIN at
    BY <1>1, <1>2, Zenon DEF ServingInv
  <2>2. <<entry[q].gen, seq[q] - 1>>[1] = pointer.gen
    BY <1>2, Zenon
  <2>3. log'[at'[<<entry[q].gen, seq[q] - 1>>]] = log[at[<<entry[q].gen, seq[q] - 1>>]]
    BY <2>1, <2>2, Zenon DEF Kept
  <2> QED BY <1>1, <1>2, <2>1, <2>3, Zenon DEF ServingInv, Kept, Standing
<1>3. CASE ~(entry[q] # Nowhere /\ entry[q].gen = pointer.gen)
  BY <1>1, <1>3, Zenon DEF ServingInv, Kept
<1> QED BY <1>2, <1>3, Zenon

\* And it does not disturb a process that takes no part in it.
LEMMA KeptProc ==
  ASSUME NEW q \in Procs, Inv, Same(q), Kept PROVE ProcInv(q)'
<1>1. entry[q] \in Entry /\ pointer \in Entry /\ load \in [Procs -> Attempt] /\ target \in [Procs -> Target]
      /\ seq[q] \in Nat \ {0}
  BY Zenon DEF Inv, TypeOK
<1>2. ServingInv(q)'
  BY KeptServing, Zenon DEF Inv, ProcInv, ServingInv, Same
<1>3. ReplayInv(q)'
  <2>1. ReplayInv(q)
    BY Zenon DEF Inv, ProcInv
  <2>2. CASE pc[q] \in Replaying /\ load[q].entry.gen = pointer.gen
    <3>1. <<load[q].entry.gen, load[q].seq - 1>> \in DOMAIN at
      BY <2>1, <2>2, Zenon DEF ReplayInv
    <3>2. <<load[q].entry.gen, load[q].seq - 1>>[1] = pointer.gen
      BY <2>2, Zenon
    <3>3. log'[at'[<<load[q].entry.gen, load[q].seq - 1>>]] = log[at[<<load[q].entry.gen, load[q].seq - 1>>]]
      BY <3>1, <3>2, Zenon DEF Kept
    <3> QED BY <2>1, <2>2, <3>1, <3>3, Zenon DEF ReplayInv, Same, Kept
  <2>3. CASE ~(pc[q] \in Replaying /\ load[q].entry.gen = pointer.gen)
    BY <2>1, <2>3, SMTT(30) DEF ReplayInv, Same, Kept, Replaying
  <2> QED BY <2>2, <2>3, Zenon
<1>4. RollInv(q)'
  <2>1. RollInv(q)
    BY Zenon DEF Inv, ProcInv
  <2>2. pc[q] \in Rolling /\ target[q].gen = pointer.gen => pointer # Nowhere
    BY <1>1, <2>1, NowhereType DEF RollInv, Entry
  <2>3. pc[q] \in Rolling /\ target[q].gen = pointer.gen => <<target[q].gen, 0>> \in DOMAIN at
    BY <2>2, Zenon DEF Inv, CatalogInv
  <2>4. <<target[q].gen, 0>>[1] = target[q].gen
    OBVIOUS
  <2>5. pc[q] \in Rolling /\ target[q].gen = pointer.gen =>
          log'[at'[<<target[q].gen, 0>>]] = log[at[<<target[q].gen, 0>>]]
    BY <2>3, <2>4, Zenon DEF Kept
  <2> QED BY <2>1, <2>5, Zenon DEF RollInv, Same, Kept, Rolling, Staged
<1> QED BY <1>2, <1>3, <1>4, Zenon DEF ProcInv

\* Such a step of p therefore has only the manifest, its types and p to answer for.
LEMMA KeptStep ==
  ASSUME NEW p \in Procs, Inv, Kept, TypeOK', CatalogInv', ProcInv(p)',
         \A q \in Procs \ {p} : Same(q),
         pc'[p] \in Staged => target'[p].gen \notin DOMAIN snapshots
  PROVE  Inv'
<1>1. \A q \in Procs : ProcInv(q)'
  BY KeptProc, Zenon
<1>2. ASSUME NEW q \in Procs \ {p}, NEW r \in Procs \ {p} PROVE Unique(q, r)'
  BY DEF Inv, Unique, Same, Kept
<1>3. ASSUME NEW q \in Procs \ {p}, pc'[p] \in Staged, pc'[q] \in Staged, target'[p].gen = target'[q].gen
      PROVE  target'[p].gen <= pointer'.gen
  <2>1. pc[q] \in Staged /\ target[q].gen \notin DOMAIN snapshots /\ target[q] = target'[q]
    BY <1>3, SMTT(30) DEF Same
  <2>2. ~(target[q].gen > pointer.gen)
    BY <2>1, Zenon DEF Inv, ProcInv, RollInv
  <2>3. target[q].gen \in Nat /\ pointer.gen \in Nat
    BY Zenon DEF Inv, TypeOK, Target, Entry
  <2> QED BY <1>3, <2>1, <2>2, <2>3 DEF Kept
<1>4. \A q \in Procs \ {p} : Unique(p, q)' /\ Unique(q, p)'
  BY <1>3, Zenon DEF Unique
<1>5. Unique(p, p)'
  BY Zenon DEF Unique
<1> QED BY <1>1, <1>2, <1>4, <1>5, Zenon DEF Inv

\* put_snapshot is write-once, so it leaves every snapshot there was.
LEMMA SnapshotPut ==
  ASSUME Inv, NEW g \in Nat, g \notin DOMAIN snapshots, NEW s \in Snapshot, PutSnapshotAt(g, s),
         UNCHANGED <<log, at>>
  PROVE  /\ Kept /\ CatalogInv'
         /\ DOMAIN snapshots' \subseteq Nat /\ snapshots' \in [DOMAIN snapshots' -> Snapshot]
         /\ g \in DOMAIN snapshots' /\ snapshots'[g] = s
<1>1. /\ DOMAIN snapshots' = DOMAIN snapshots \cup {g} /\ snapshots'[g] = s
      /\ \A x \in DOMAIN snapshots : snapshots'[x] = snapshots[x]
      /\ snapshots' = [x \in DOMAIN snapshots \cup {g} |-> IF x = g THEN s ELSE snapshots[x]]
  BY Zenon DEF PutSnapshotAt, With
<1>2. DOMAIN snapshots \subseteq Nat /\ snapshots \in [DOMAIN snapshots -> Snapshot]
  BY Zenon DEF Inv, TypeOK
<1>3. UNCHANGED <<pointer, edits, log, at>>
  BY SMTT(30) DEF PutSnapshotAt
<1>4. CatalogInv'
  BY <1>1, <1>3, Zenon DEF Inv, CatalogInv, WellFormed
<1>5. Kept
  BY <1>1, <1>3, Zenon DEF Kept
<1> QED BY <1>1, <1>2, <1>4, <1>5, Zenon


LEMMA PutSnapshotInv ==
  ASSUME NEW p \in Procs, Inv, PutSnapshot(p) PROVE Inv'
<1> DEFINE g == target[p].gen
           s == [files |-> version[p], next |-> target[p].next, torn |-> FALSE]
<1>1. /\ pc[p] = "putSnapshot" /\ RollFrame
      /\ UNCHANGED <<entry, seq, fenced, reseal, status, log, at>>
  BY Zenon DEF PutSnapshot
<1>2. /\ target \in [Procs -> Target] /\ version[p] \in SUBSET Nat /\ pc \in [Procs -> Stages]
      /\ fenced \in [Procs -> BOOLEAN]
  BY Zenon DEF Inv, TypeOK
<1>3. g \in Nat /\ s \in Snapshot
  BY <1>2, SMTT(30) DEF Target, Snapshot
<1>4. entry[p].gen < g /\ (target[p].then # "observe" => entry[p] # Nowhere)
  BY <1>1, Zenon DEF Inv, ProcInv, RollInv, Rolling
<1>5. CASE Goto(p, "collided") /\ NoFault /\ UNCHANGED <<catalogVars, target>>
  <2>1. pc' = [pc EXCEPT ![p] = "collided"] /\ pc'[p] = "collided"
    BY <1>2, <1>5, Zenon DEF Goto
  <2>2. RollInv(p)'
    BY <1>1, <1>4, <1>5, <2>1, Zenon DEF RollInv, Rolling, Staged
  <2> QED BY <1>1, <1>2, <1>5, <2>1, <2>2, RollGoesOn, ZenonT(60) DEF Rolling, Staged
<1>6. CASE UNCHANGED catalogVars /\ RollFailed(p) /\ Fault
  BY <1>1, <1>2, <1>6, RollFails, Zenon DEF Rolling
<1>7. ASSUME g \notin DOMAIN snapshots, PutSnapshotAt(g, s), Fault \/ NoFault,
             \/ Goto(p, "cas") /\ UNCHANGED target
             \/ RollFailed(p)
      PROVE  Inv'
  <2>1. /\ Kept /\ CatalogInv'
        /\ DOMAIN snapshots' \subseteq Nat /\ snapshots' \in [DOMAIN snapshots' -> Snapshot]
        /\ g \in DOMAIN snapshots' /\ snapshots'[g] = s
    BY <1>1, <1>3, <1>7, SnapshotPut, Zenon
  <2>2. target[p].then \in {"down", "idle", "collect", "observe"}
    BY <1>2, Zenon DEF Target
  <2>3. pc' \in [Procs -> Stages] /\ target' \in [Procs -> Target]
    BY <1>2, <1>7, <2>2, NoTargetType, ZenonT(60) DEF RollFailed, Goto, Stages
  <2>4. UNCHANGED <<pointer, edits>>
    BY <1>7, SMTT(30) DEF PutSnapshotAt
  <2>5. TypeOK'
    BY <1>1, <1>7, <2>1, <2>3, <2>4, Bounds, Zenon DEF Inv, TypeOK, RollFrame
  <2>6. \A q \in Procs \ {p} : Same(q)
    BY <1>1, <1>2, <1>7, Zenon DEF Same, RollFailed, Goto, RollFrame
  <2>7. \/ pc'[p] = "cas" /\ target'[p] = target[p]
        \/ /\ pc'[p] \in {"down", "idle", "collect"}
           /\ pc'[p] # "down" => entry[p] # Nowhere
    BY <1>2, <1>4, <1>7, <2>2, Zenon DEF RollFailed, Goto
  <2>8. ServingInv(p)'
    BY <1>1, <2>1, <2>7, KeptServing, Zenon DEF RollFrame, Opened
  <2>9. ReplayInv(p)'
    BY <1>1, <2>7, ZenonT(60) DEF Inv, ProcInv, ReplayInv, Replaying, RollFrame
  <2>10. version'[p] = version[p] /\ entry' = entry /\ s.files = version[p] /\ ~s.torn
    BY <1>1, Zenon DEF RollFrame
  <2>11. RollInv(p)'
    BY <1>4, <2>1, <2>7, <2>10, Zenon DEF RollInv, Rolling, Staged
  <2> QED BY <1>7, <2>1, <2>5, <2>6, <2>7, <2>8, <2>9, <2>11, KeptStep, Zenon DEF ProcInv, Staged
<1> QED BY <1>5, <1>6, <1>7, Zenon DEF PutSnapshot, Occupied

\* Deleting a generation below CURRENT touches nothing the live one says.
LEMMA GenerationDeleted ==
  ASSUME Inv, NEW g \in Nat, g < pointer.gen, DeleteGeneration(g) \/ DeletePartOf(g),
         UNCHANGED <<log, at>>
  PROVE  /\ Kept /\ CatalogInv'
         /\ DOMAIN snapshots' \subseteq Nat /\ snapshots' \in [DOMAIN snapshots' -> Snapshot]
         /\ DOMAIN edits' \subseteq Nat \X Nat /\ edits' \in [DOMAIN edits' -> Edit]
<1>0. pointer.gen \in Nat /\ UNCHANGED pointer
  BY Zenon DEF Inv, TypeOK, Entry, DeleteGeneration, DeletePartOf
<1>1. PICK G \in SUBSET {g} : snapshots' = Without(snapshots, G)
  <2>1. snapshots \in [DOMAIN snapshots -> Snapshot]
    BY Zenon DEF Inv, TypeOK
  <2>2. snapshots = Without(snapshots, {})
    BY <2>1, Zenon DEF Without
  <2> QED BY <2>2, Zenon DEF DeleteGeneration, DeletePartOf
<1>2. PICK A \in SUBSET {a \in DOMAIN edits : a[1] = g} : edits' = Without(edits, A)
  BY Zenon DEF DeleteGeneration, DeletePartOf
<1>3. /\ DOMAIN snapshots' = DOMAIN snapshots \ G
      /\ \A x \in DOMAIN snapshots' : snapshots'[x] = snapshots[x]
      /\ DOMAIN edits' = DOMAIN edits \ A
      /\ \A a \in DOMAIN edits' : edits'[a] = edits[a]
  BY <1>1, <1>2, Zenon DEF Without
<1>4. /\ DOMAIN snapshots' \subseteq Nat /\ snapshots' \in [DOMAIN snapshots' -> Snapshot]
      /\ DOMAIN edits' \subseteq Nat \X Nat /\ edits' \in [DOMAIN edits' -> Edit]
  BY <1>1, <1>2, Zenon DEF Inv, TypeOK, Without
<1>5. \A x \in DOMAIN snapshots : x >= pointer.gen => x \in DOMAIN snapshots' /\ snapshots'[x] = snapshots[x]
  BY <1>0, <1>3 DEF Inv, TypeOK
<1>6. Kept
  BY <1>0, <1>5 DEF Kept, Inv, TypeOK
<1>7. \A k : <<pointer.gen, k>> \in DOMAIN edits => <<pointer.gen, k>> \in DOMAIN edits'
  <2>1. ASSUME NEW k, <<pointer.gen, k>> \in A PROVE FALSE
    <3>1. <<pointer.gen, k>>[1] = g
      BY <2>1, ZenonT(60)
    <3> QED BY <3>1, <1>0
  <2> QED BY <2>1, <1>3, Zenon
<1>8. CatalogInv'
  <2>1. CatalogInv
    BY Zenon DEF Inv
  <2>2. \A k : WellFormed(pointer.gen, k)' => WellFormed(pointer.gen, k) /\ edits'[<<pointer.gen, k>>] = edits[<<pointer.gen, k>>]
    BY <1>0, <1>3, Zenon DEF WellFormed
  <2>3. pointer # Nowhere => pointer.gen \in DOMAIN snapshots' /\ snapshots'[pointer.gen] = snapshots[pointer.gen]
    BY <1>0, <1>5, <2>1, Zenon DEF CatalogInv
  <2> QED BY <1>0, <1>3, <1>7, <2>1, <2>2, <2>3, Zenon DEF CatalogInv
<1> QED BY <1>4, <1>6, <1>8, Zenon

LEMMA InstalledInv ==
  ASSUME NEW p \in Procs, Inv, Installed(p) PROVE Inv'
<1>1. /\ pc[p] = "installed" /\ RollFrame /\ UNCHANGED <<fenced, status, log, at>>
      /\ Fault \/ NoFault
  BY Zenon DEF Installed
<1>2. /\ target \in [Procs -> Target] /\ pc \in [Procs -> Stages] /\ pointer \in Entry
      /\ entry \in [Procs -> Entry] /\ seq \in [Procs -> Nat \ {0}] /\ reseal \in [Procs -> BOOLEAN]
  BY Zenon DEF Inv, TypeOK
<1>3. /\ target[p].gen \in Nat /\ target[p].then \in {"down", "idle", "collect", "observe"}
      /\ entry[p].gen \in Nat /\ entry[p].token \in Nat /\ pointer.gen \in Nat
  BY <1>2, SMTT(30) DEF Target, Entry
<1>4. /\ entry[p].gen < target[p].gen /\ target[p].gen <= pointer.gen
      /\ <<target[p].gen, 0>> \in DOMAIN at
      /\ target[p].gen = pointer.gen => version[p] = log[at[<<target[p].gen, 0>>]]
  BY <1>1, Zenon DEF Inv, ProcInv, RollInv, Rolling
<1>5. entry[p].gen < pointer.gen
  BY <1>3, <1>4
<1>6. /\ Kept /\ CatalogInv' /\ pointer' = pointer
      /\ DOMAIN snapshots' \subseteq Nat /\ snapshots' \in [DOMAIN snapshots' -> Snapshot]
      /\ DOMAIN edits' \subseteq Nat \X Nat /\ edits' \in [DOMAIN edits' -> Edit]
  <2>1. CASE DeleteGeneration(Previous(p)) \/ DeletePartOf(Previous(p))
    BY <1>1, <1>3, <1>5, <2>1, GenerationDeleted, ZenonT(60) DEF Previous, DeleteGeneration, DeletePartOf
  <2>2. CASE UNCHANGED catalogVars
    BY <1>1, <2>2, Zenon DEF Kept, Inv, TypeOK, CatalogInv, WellFormed, catalogVars
  <2> QED BY <2>1, <2>2, Zenon DEF Installed
<1>7. /\ entry' = [entry EXCEPT ![p] = [gen |-> target[p].gen, token |-> entry[p].token + 1]]
      /\ seq' = [seq EXCEPT ![p] = 1] /\ reseal' = [reseal EXCEPT ![p] = FALSE]
      /\ pc' = [pc EXCEPT ![p] = target[p].then] /\ target' = [target EXCEPT ![p] = NoTarget]
  BY <1>2, Zenon DEF Installed, Goto, FirstSeq
<1>8. /\ pc' \in [Procs -> Stages] /\ target' \in [Procs -> Target] /\ entry' \in [Procs -> Entry]
      /\ seq' \in [Procs -> Nat \ {0}] /\ reseal' \in [Procs -> BOOLEAN]
  BY <1>2, <1>3, <1>7, NoTargetType, SMTT(30) DEF Entry, Stages
<1>9. TypeOK'
  BY <1>1, <1>6, <1>8, Bounds, ZenonT(60) DEF Inv, TypeOK, RollFrame
<1>10. /\ \A q \in Procs \ {p} : Same(q)
       /\ pc'[p] = target[p].then /\ seq'[p] = 1 /\ entry'[p].gen = target[p].gen /\ load' = load
       /\ version' = version
  BY <1>1, <1>2, <1>7, Zenon DEF Same, RollFrame
<1>11. ServingInv(p)'
  <2>1. target[p].gen # 0 /\ entry'[p] # Nowhere
    BY <1>3, <1>4, <1>10, NowhereType
  <2>2. <<entry'[p].gen, seq'[p] - 1>> = <<target[p].gen, 0>>
    BY <1>10
  <2>3. Standing(p)' = at[<<target[p].gen, 0>>]
    BY <1>1, <2>2, Zenon DEF Standing
  <2> QED BY <1>1, <1>4, <1>6, <1>10, <2>1, <2>2, <2>3, Zenon DEF ServingInv
<1>12. ReplayInv(p)'
  <2>1. pc'[p] \notin Replaying /\ load'[p] = load[p]
    BY <1>3, <1>10, Zenon DEF Replaying
  <2>2. load[p].seq = 1
    BY <1>1, Zenon DEF Inv, ProcInv, ReplayInv, Replaying
  <2> QED BY <2>1, <2>2, Zenon DEF ReplayInv, Replaying
<1>13. RollInv(p)' /\ pc'[p] \notin Staged
  BY <1>3, <1>10, Zenon DEF RollInv, Rolling, Staged
<1> QED BY <1>6, <1>9, <1>10, <1>11, <1>12, <1>13, KeptStep, ZenonT(60) DEF ProcInv


\* What MovePointer does to the history: the generation CURRENT now names is
\* anchored at the version of the process that rolled.
LEMMA PointerMoved ==
  ASSUME NEW p \in Procs, Inv, pc[p] = "cas", pointer = entry[p], MovePointer(p)
  PROVE  LET g == target[p].gen IN
         /\ g \in Nat /\ pointer.gen \in Nat /\ pointer.gen < g
         /\ pointer' \in Entry /\ pointer'.gen = g /\ UNCHANGED <<snapshots, edits>>
         /\ g \in DOMAIN snapshots /\ ~snapshots[g].torn /\ snapshots[g].files = version[p]
         /\ DOMAIN at' = DOMAIN at \cup {<<g, 0>>} /\ \A a \in DOMAIN at : at'[a] = at[a]
         /\ at'[<<g, 0>>] \in 1..Len(log') /\ log'[at'[<<g, 0>>]] = version[p]
         /\ log' \in Seq(SUBSET Nat) /\ Len(log) <= Len(log')
         /\ \A i \in 1..Len(log) : log'[i] = log[i]
         /\ at' \in [DOMAIN at' -> Nat]
<1> DEFINE g == target[p].gen
<1>1. /\ target \in [Procs -> Target] /\ pointer \in Entry /\ log \in Seq(SUBSET Nat)
      /\ at \in [DOMAIN at -> Nat] /\ seq[p] \in Nat \ {0} /\ DOMAIN at \subseteq Nat \X Nat
  BY Zenon DEF Inv, TypeOK
<1>2. g \in Nat /\ pointer.gen \in Nat /\ pointer.token \in Nat
  BY <1>1, SMTT(30) DEF Target, Entry
<1>3. pointer.gen < g
  BY ZenonT(60) DEF Inv, ProcInv, RollInv, Rolling
<1>4. g \in DOMAIN snapshots /\ ~snapshots[g].torn /\ snapshots[g].files = version[p]
  BY <1>2, <1>3, Zenon DEF Inv, ProcInv, RollInv, Staged
<1>5. pointer' \in Entry /\ pointer'.gen = g /\ UNCHANGED <<snapshots, edits>>
  <2>1. pointer' = [gen |-> g, token |-> pointer.token + 1] /\ UNCHANGED <<snapshots, edits>>
    BY Zenon DEF MovePointer, SetPointer
  <2>2. pointer.token + 1 \in Nat
    BY <1>2
  <2>3. pointer'.gen = g /\ pointer'.token = pointer.token + 1
    BY <2>1, Zenon
  <2> QED BY <1>2, <2>1, <2>2, <2>3, Zenon DEF Entry
<1>6. <<g, 0>> \notin DOMAIN at
  <2>1. ASSUME <<g, 0>> \in DOMAIN at PROVE FALSE
    <3>1. <<g, 0>>[1] <= pointer.gen
      BY <2>1, Zenon DEF Inv, CatalogInv
    <3> QED BY <3>1, <1>2, <1>3
  <2> QED BY <2>1, Zenon
<1>7. PICK x \in 1..Len(log') : /\ at' = With(at, <<g, 0>>, x) /\ log'[x] = version[p]
                                /\ log' \in Seq(SUBSET Nat) /\ Len(log) <= Len(log')
                                /\ \A i \in 1..Len(log) : log'[i] = log[i]
  <2>1. CASE entry[p] = Nowhere
    <3>1. version[p] = {}
      BY <2>1, Zenon DEF Inv, ProcInv, ServingInv
    <3>2. log' = Append(log, {}) /\ at' = With(at, <<g, 0>>, Len(log) + 1)
      BY <2>1, Zenon DEF MovePointer
    <3>3. /\ log' \in Seq(SUBSET Nat) /\ Len(log') = Len(log) + 1 /\ Len(log) \in Nat
          /\ log'[Len(log) + 1] = {} /\ \A i \in 1..Len(log) : log'[i] = log[i]
      BY <1>1, <3>2
    <3> QED BY <3>1, <3>2, <3>3
  <2>2. CASE entry[p] # Nowhere
    <3>1. version[p] = log[Standing(p)] /\ <<entry[p].gen, seq[p] - 1>> \in DOMAIN at
      BY <2>2, ZenonT(60) DEF Inv, ProcInv, ServingInv
    <3>2. Standing(p) \in 1..Len(log)
      BY <3>1, Zenon DEF Inv, CatalogInv, Standing
    <3>3. log' = log /\ at' = With(at, <<g, 0>>, Standing(p))
      BY <2>2, Zenon DEF MovePointer
    <3>4. Len(log) <= Len(log')
      BY <1>1, <3>3
    <3> QED BY <1>1, <3>1, <3>2, <3>3, <3>4, Zenon
  <2> QED BY <2>1, <2>2, Zenon
<1>8. /\ DOMAIN at' = DOMAIN at \cup {<<g, 0>>} /\ \A a \in DOMAIN at : at'[a] = at[a]
      /\ at'[<<g, 0>>] = x
  BY <1>6, <1>7, ZenonT(60) DEF With
<1>9. x \in Nat
  BY <1>7
<1>10. at' \in [DOMAIN at' -> Nat]
  BY <1>1, <1>7, <1>9, ZenonT(60) DEF With
<1> QED BY <1>2, <1>3, <1>4, <1>5, <1>7, <1>8, <1>10, Zenon

LEMMA MoveInv ==
  ASSUME NEW p \in Procs, Inv, pc[p] = "cas", pointer = entry[p], MovePointer(p),
         NEW c \in {"installed", "ambiguous"}, Goto(p, c), Fault \/ NoFault,
         UNCHANGED <<fenced, target, entry, seq, reseal, status>>, RollFrame
  PROVE  Inv'
<1>0. SUFFICES ASSUME NEW g \in Nat, g = target[p].gen PROVE Inv'
  BY Zenon DEF Inv, TypeOK, Target
<1>1. /\ g \in Nat /\ pointer.gen \in Nat /\ pointer.gen < g
      /\ pointer' \in Entry /\ pointer'.gen = g /\ UNCHANGED <<snapshots, edits>>
      /\ g \in DOMAIN snapshots /\ ~snapshots[g].torn /\ snapshots[g].files = version[p]
      /\ DOMAIN at' = DOMAIN at \cup {<<g, 0>>} /\ \A a \in DOMAIN at : at'[a] = at[a]
      /\ at'[<<g, 0>>] \in 1..Len(log') /\ log'[at'[<<g, 0>>]] = version[p]
      /\ log' \in Seq(SUBSET Nat) /\ Len(log) <= Len(log')
      /\ \A i \in 1..Len(log) : log'[i] = log[i]
      /\ at' \in [DOMAIN at' -> Nat]
  BY <1>0, PointerMoved, Zenon
<1>2. pc' \in [Procs -> Stages] /\ pc'[p] = c /\ \A q \in Procs \ {p} : pc'[q] = pc[q]
  BY Zenon DEF Goto, Inv, TypeOK, Stages
<1>3. DOMAIN at' \subseteq Nat \X Nat
  BY <1>1, SMTT(30) DEF Inv, TypeOK
<1>4. TypeOK'
  BY <1>1, <1>2, <1>3, Bounds, ZenonT(60) DEF Inv, TypeOK, RollFrame
<1>5. \A a \in DOMAIN at : a[1] <= pointer.gen /\ at[a] \in 1..Len(log)
  BY Zenon DEF Inv, CatalogInv
<1>6. \A k : <<g, k>> \notin DOMAIN at /\ <<g, k>> \notin DOMAIN edits
  <2>1. ASSUME NEW k, <<g, k>> \in DOMAIN at \/ <<g, k>> \in DOMAIN edits PROVE FALSE
    <3>1. <<g, k>>[1] <= pointer.gen
      BY <2>1, Zenon DEF Inv, CatalogInv
    <3> QED BY <3>1, <1>1, SMTT(30)
  <2> QED BY <2>1, Zenon
<1>7. CatalogInv'
  <2>1. ASSUME NEW a \in DOMAIN at' PROVE a[1] <= g /\ at'[a] \in 1..Len(log')
    <3>1. CASE a \in DOMAIN at
      <4>1. a[1] <= pointer.gen /\ at[a] \in 1..Len(log) /\ a[1] \in Nat
        BY <1>5, <3>1, Zenon DEF Inv, TypeOK
      <4>2. Len(log) \in Nat /\ Len(log') \in Nat
        BY <1>1, SMTT(30) DEF Inv, TypeOK
      <4> QED BY <1>1, <3>1, <4>1, <4>2
    <3>2. CASE a = <<g, 0>>
      BY <1>1, <3>2
    <3> QED BY <1>1, <3>1, <3>2, Zenon
  <2>2. ASSUME NEW a \in DOMAIN edits' PROVE a[1] <= g /\ (~edits'[a].torn => a \in DOMAIN at')
    <3>1. a \in DOMAIN edits /\ a[1] <= pointer.gen /\ (~edits[a].torn => a \in DOMAIN at) /\ a[1] \in Nat
      BY <1>1, ZenonT(60) DEF Inv, CatalogInv, TypeOK
    <3>2. a[1] <= g
      <4>1. g \in Nat /\ pointer.gen \in Nat /\ pointer.gen < g
        BY <1>1, Zenon
      <4> QED BY <3>1, <4>1
    <3> QED BY <1>1, <3>1, <3>2, Zenon
  <2>3. \A k \in Nat \ {0} : <<g, k>> \notin DOMAIN at' /\ ~WellFormed(g, k)'
    BY <1>1, <1>6, Zenon DEF WellFormed
  <2>4. g # 0
    BY <1>1
  <2> QED BY <1>1, <2>1, <2>2, <2>3, <2>4, Zenon DEF CatalogInv
<1>8. ASSUME NEW q \in Procs PROVE ServingInv(q)'
  <2>1. entry[q].gen <= pointer.gen /\ entry[q].gen \in Nat
    BY EntryBelow, Zenon DEF Inv, TypeOK, Entry
  <2>2. entry[q].gen # pointer'.gen
    BY <1>1, <2>1
  <2>3. pc'[q] \in Opened => pc[q] \in Opened
    BY <1>2, Zenon DEF Opened
  <2> QED BY <1>1, <2>2, <2>3, Zenon DEF Inv, ProcInv, ServingInv, RollFrame
<1>9. ASSUME NEW q \in Procs PROVE ReplayInv(q)'
  <2>1. ReplayInv(q)
    BY Zenon DEF Inv, ProcInv
  <2>2. /\ pc'[q] \in Replaying <=> pc[q] \in Replaying
        /\ \A X \in SUBSET Replaying : pc'[q] \in X => pc[q] \in X
    BY <1>2, Zenon DEF Replaying
  <2>3. pc[q] \in Replaying => load[q].entry.gen # pointer'.gen
    <3>1. SUFFICES ASSUME pc[q] \in Replaying PROVE load[q].entry.gen # g
      BY <1>1, Zenon
    <3>2. <<load[q].entry.gen, load[q].seq - 1>> \in DOMAIN at
      BY <2>1, <3>1, Zenon DEF ReplayInv
    <3> QED BY <1>6, <3>2, Zenon
  <2>4. {"snapshot", "list"} \in SUBSET Replaying /\ {"list", "replay", "confirm"} \in SUBSET Replaying
    BY Zenon DEF Replaying
  <2> QED BY <1>1, <2>1, <2>2, <2>3, <2>4, ZenonT(60) DEF ReplayInv, RollFrame
<1>10. ASSUME NEW q \in Procs \ {p} PROVE RollInv(q)'
  <2>1. RollInv(q) /\ Unique(p, q)
    BY Zenon DEF Inv, ProcInv
  <2>2. target[q].gen \in Nat /\ target'[q] = target[q] /\ pc'[q] = pc[q]
    BY <1>2, SMTT(30) DEF Inv, TypeOK, Target
  <2>6. pc[q] = "installed" => target[q].gen <= pointer.gen
    BY <2>1, ZenonT(60) DEF RollInv
  <2>7. pc[q] = "ambiguous" /\ target[q].gen = g => target[q].gen <= pointer.gen
    BY <1>0, <2>1, Zenon DEF Unique, Staged
  <2>3. pc[q] \in {"ambiguous", "installed"} => target[q].gen # g
    BY <1>1, <2>2, <2>6, <2>7
  <2>4. target[q].gen > g => target[q].gen > pointer.gen
    BY <1>1, <2>2
  <2>5. target[q].gen <= pointer.gen => target[q].gen <= g
    BY <1>1, <2>2
  <2> QED BY <1>1, <2>1, <2>2, <2>3, <2>4, <2>5, Zenon DEF RollInv, RollFrame
<1>11. RollInv(p)'
  <2>1. entry[p].gen < target[p].gen /\ (target[p].then # "observe" => entry[p] # Nowhere)
    BY Zenon DEF Inv, ProcInv, RollInv, Rolling
  <2>2. target'[p].gen = g /\ ~(g > g) /\ g <= g
    BY <1>0, <1>1, SMTT(30)
  <2> QED BY <1>1, <1>2, <2>1, <2>2, SMTT(30) DEF RollInv, Rolling, Staged, RollFrame
<1>12. ASSUME NEW q \in Procs, NEW r \in Procs PROVE Unique(q, r)'
  <2>1. Unique(q, r) /\ target[q].gen \in Nat
    BY SMTT(30) DEF Inv, TypeOK, Target
  <2>2. {pc'[q], pc'[r]} \subseteq Staged => {pc[q], pc[r]} \subseteq Staged
    BY <1>2, Zenon DEF Staged
  <2>3. target[q].gen <= pointer.gen => target[q].gen <= pointer'.gen
    BY <1>1, <2>1, SMTT(30)
  <2> QED BY <2>1, <2>2, <2>3, Zenon DEF Unique
<1> QED BY <1>4, <1>7, <1>8, <1>9, <1>10, <1>11, <1>12, SMTT(30) DEF Inv, ProcInv

LEMMA CompareAndSetInv ==
  ASSUME NEW p \in Procs, Inv, CompareAndSet(p) PROVE Inv'
<1>1. pc[p] = "cas" /\ RollFrame /\ UNCHANGED <<entry, seq, reseal, status>>
  BY Zenon DEF CompareAndSet
<1>2. CASE Expected(entry[p]) /\ MovePointer(p) /\ Goto(p, "installed") /\ NoFault /\ UNCHANGED <<fenced, target>>
  BY <1>1, <1>2, MoveInv, ZenonT(60) DEF Expected
<1>3. CASE Expected(entry[p]) /\ MovePointer(p) /\ Goto(p, "ambiguous") /\ Fault /\ UNCHANGED <<fenced, target>>
  BY <1>1, <1>3, MoveInv, ZenonT(60) DEF Expected
<1>4. CASE UNCHANGED <<catalogVars, log, at>> /\ Goto(p, "ambiguous") /\ Fault /\ UNCHANGED <<fenced, target>>
           /\ Expected(entry[p])
  <2>1. /\ target \in [Procs -> Target] /\ pc' = [pc EXCEPT ![p] = "ambiguous"] /\ pc'[p] = "ambiguous"
        /\ target[p].gen \in Nat /\ pointer.gen \in Nat
    BY <1>4, Zenon DEF Inv, TypeOK, Goto, Target, Entry
  <2>2. RollInv(p) /\ pointer.gen < target[p].gen
    BY <1>1, <1>4, Zenon DEF Inv, ProcInv, RollInv, Rolling, Expected
  <2>3. pointer.gen # target[p].gen
    BY <2>1, <2>2, SMTT(30)
  <2>4. RollInv(p)'
    BY <1>1, <1>4, <2>1, <2>2, <2>3, Zenon DEF RollInv, Rolling, Staged, RollFrame, catalogVars
  <2> QED BY <1>1, <1>4, <2>1, <2>4, RollGoesOn, Zenon DEF Rolling, Staged
<1>5. CASE Fence(p) /\ RollFailed(p) /\ NoFault /\ UNCHANGED <<catalogVars, log, at>>
  BY <1>1, <1>5, FenceType, RollFails, Zenon DEF Rolling
<1> QED BY <1>2, <1>3, <1>4, <1>5, Zenon DEF CompareAndSet

-----------------------------------------------------------------------------
(* The steps of apply. *)

\* put_edit is write-once.  An edit that lands takes the version of the process
\* that wrote it to the next one, and what is anchored already stays.
LEMMA EditLands ==
  ASSUME NEW p \in Procs, Inv, entry[p] # Nowhere, NEW e \in Edit, ~e.torn,
         <<entry[p].gen, seq[p]>> \notin DOMAIN edits, Land(p, e)
  PROVE  /\ Kept /\ CatalogInv' /\ UNCHANGED <<pointer, snapshots>>
         /\ DOMAIN edits' \subseteq Nat \X Nat /\ edits' \in [DOMAIN edits' -> Edit]
         /\ log' \in Seq(SUBSET Nat)
         /\ DOMAIN at' \subseteq Nat \X Nat /\ at' \in [DOMAIN at' -> Nat]
         /\ <<entry[p].gen, seq[p]>> \in DOMAIN at'
         /\ log'[at'[<<entry[p].gen, seq[p]>>]] = ApplyEdit(version[p], e)
<1>0. /\ entry[p] \in Entry /\ seq[p] \in Nat \ {0} /\ pointer \in Entry /\ version[p] \in SUBSET Nat
      /\ log \in Seq(SUBSET Nat) /\ at \in [DOMAIN at -> Nat] /\ DOMAIN at \subseteq Nat \X Nat
      /\ DOMAIN edits \subseteq Nat \X Nat /\ edits \in [DOMAIN edits -> Edit]
  BY Zenon DEF Inv, TypeOK
<1>1. SUFFICES ASSUME NEW g \in Nat, NEW s \in Nat \ {0}, NEW P \in Nat, NEW n \in Nat, NEW v \in SUBSET Nat,
                      g = entry[p].gen, s = seq[p], P = pointer.gen, n = Len(log),
                      v = ApplyEdit(version[p], e)
      PROVE  /\ Kept /\ CatalogInv' /\ UNCHANGED <<pointer, snapshots>>
             /\ DOMAIN edits' \subseteq Nat \X Nat /\ edits' \in [DOMAIN edits' -> Edit]
             /\ log' \in Seq(SUBSET Nat)
             /\ DOMAIN at' \subseteq Nat \X Nat /\ at' \in [DOMAIN at' -> Nat]
             /\ <<g, s>> \in DOMAIN at' /\ log'[at'[<<g, s>>]] = v
  <2>1. ApplyEdit(version[p], e) \in SUBSET Nat
    BY <1>0, Zenon DEF ApplyEdit, Edit
  <2>2. entry[p].gen \in Nat /\ pointer.gen \in Nat /\ Len(log) \in Nat
    BY <1>0 DEF Entry
  <2> QED BY <1>0, <2>1, <2>2, Zenon
<1>2. UNCHANGED <<pointer, snapshots>> /\ edits' = With(edits, <<g, s>>, e) /\ log' = Append(log, v)
      /\ at' = With(at, <<g, s>>, n + 1)
  BY <1>1, Zenon DEF Land, PutEdit
<1>3. g <= P
  BY <1>1, EntryBelow, Zenon
<1>4. /\ DOMAIN edits' = DOMAIN edits \cup {<<g, s>>} /\ edits'[<<g, s>>] = e
      /\ \A a \in DOMAIN edits : a # <<g, s>> /\ edits'[a] = edits[a]
  BY <1>1, <1>2, Zenon DEF With
<1>5. /\ DOMAIN at' = DOMAIN at \cup {<<g, s>>} /\ at'[<<g, s>>] = n + 1
      /\ \A a \in DOMAIN at : a # <<g, s>> => at'[a] = at[a]
  BY <1>2, Zenon DEF With
<1>6. /\ log' \in Seq(SUBSET Nat) /\ Len(log') = n + 1 /\ log'[n + 1] = v
      /\ \A i \in 1..n : log'[i] = log[i]
  BY <1>0, <1>1, <1>2
<1>7. \A a \in DOMAIN at : a[1] = P => a # <<g, s>>
  <2>1. SUFFICES ASSUME <<g, s>> \in DOMAIN at, <<g, s>>[1] = P PROVE FALSE
    OBVIOUS
  <2>2. g = P
    BY <2>1, Zenon
  <2>3. <<g, s>> \in DOMAIN edits
    BY <1>1, <2>1, <2>2, Zenon DEF Inv, CatalogInv
  <2> QED BY <1>4, <2>3, Zenon
<1>8. \A a \in DOMAIN at : a[1] <= P /\ at[a] \in 1..n
  BY <1>1, Zenon DEF Inv, CatalogInv
<1>9. \A a \in DOMAIN at : a[1] = P => at'[a] = at[a] /\ log'[at'[a]] = log[at[a]]
  BY <1>5, <1>6, <1>7, <1>8, Zenon
<1>10. Kept
  BY <1>1, <1>2, <1>5, <1>9, Zenon DEF Kept
<1>11. CatalogInv'
  <2>0. CatalogInv
    BY Zenon DEF Inv
  <2>1. \A a \in DOMAIN at' : a[1] <= P /\ at'[a] \in 1..Len(log')
    <3>1. <<g, s>>[1] = g
      OBVIOUS
    <3>2. n + 1 \in 1..Len(log') /\ \A i \in 1..n : i \in 1..Len(log')
      BY <1>6
    <3> QED BY <1>3, <1>5, <1>8, <3>1, <3>2, Zenon
  <2>2. \A a \in DOMAIN edits' : a[1] <= P /\ (~edits'[a].torn => a \in DOMAIN at')
    <3>1. \A a \in DOMAIN edits : a[1] <= P /\ (~edits[a].torn => a \in DOMAIN at)
      BY <1>1, <2>0, Zenon DEF CatalogInv
    <3>2. <<g, s>>[1] = g
      OBVIOUS
    <3> QED BY <1>3, <1>4, <1>5, <3>1, <3>2, Zenon
  <2>3. pointer # Nowhere =>
          /\ P # 0 /\ <<P, 0>> \in DOMAIN at'
          /\ P \in DOMAIN snapshots /\ ~snapshots[P].torn
          /\ snapshots[P].files = log'[at'[<<P, 0>>]]
    <3>1. <<P, 0>>[1] = P
      OBVIOUS
    <3> QED BY <1>1, <1>5, <1>9, <2>0, <3>1, Zenon DEF CatalogInv
  <2>4. \A k \in Nat \ {0} : <<P, k>> \in DOMAIN at' => <<P, k>> \in DOMAIN edits'
    BY <1>1, <1>4, <1>5, <2>0, Zenon DEF CatalogInv
  <2>5. ASSUME NEW k \in Nat \ {0}, WellFormed(P, k)'
        PROVE  /\ <<P, k - 1>> \in DOMAIN at'
               /\ log'[at'[<<P, k>>]] = ApplyEdit(log'[at'[<<P, k - 1>>]], edits'[<<P, k>>])
    <3>1. CASE <<P, k>> = <<g, s>>
      <4>1. g = P /\ s = k
        BY <3>1, Zenon
      <4>2. <<g, s - 1>> \in DOMAIN at /\ version[p] = log[at[<<g, s - 1>>]]
        BY <1>1, <4>1, Zenon DEF Inv, ProcInv, ServingInv, Standing
      <4>3. <<g, s - 1>>[1] = P
        BY <4>1, Zenon
      <4>4. log'[at'[<<g, s - 1>>]] = version[p]
        BY <1>9, <4>2, <4>3, Zenon
      <4> QED BY <1>1, <1>4, <1>5, <1>6, <4>1, <4>2, <4>4, Zenon
    <3>2. CASE <<P, k>> # <<g, s>>
      <4>1. WellFormed(P, k) /\ edits'[<<P, k>>] = edits[<<P, k>>]
        BY <1>4, <2>5, <3>2, Zenon DEF WellFormed
      <4>2. /\ <<P, k - 1>> \in DOMAIN at /\ <<P, k>> \in DOMAIN at
            /\ log[at[<<P, k>>]] = ApplyEdit(log[at[<<P, k - 1>>]], edits[<<P, k>>])
        BY <1>1, <2>0, <4>1, Zenon DEF CatalogInv, WellFormed
      <4>3. <<P, k>>[1] = P /\ <<P, k - 1>>[1] = P
        OBVIOUS
      <4>4. log'[at'[<<P, k>>]] = log[at[<<P, k>>]] /\ log'[at'[<<P, k - 1>>]] = log[at[<<P, k - 1>>]]
        BY <1>9, <4>2, <4>3, Zenon
      <4> QED BY <1>5, <4>1, <4>2, <4>4, Zenon
    <3> QED BY <3>1, <3>2, Zenon
  <2>6. pointer'.gen = P
    BY <1>1, <1>2, Zenon
  <2> QED BY <1>2, <2>1, <2>2, <2>3, <2>4, <2>5, <2>6, Zenon DEF CatalogInv
<1>12. DOMAIN edits' \subseteq Nat \X Nat /\ edits' \in [DOMAIN edits' -> Edit]
  BY <1>0, <1>2 DEF With
<1>13. DOMAIN at' \subseteq Nat \X Nat /\ at' \in [DOMAIN at' -> Nat]
  BY <1>0, <1>2 DEF With
<1> QED BY <1>2, <1>5, <1>6, <1>10, <1>11, <1>12, <1>13, Zenon

\* A torn edit takes an address and adds nothing to the history.
LEMMA TornEditPut ==
  ASSUME NEW p \in Procs, Inv, entry[p] # Nowhere, <<entry[p].gen, seq[p]>> \notin DOMAIN edits,
         PutEdit(entry[p].gen, seq[p], TornEdit), UNCHANGED <<log, at>>
  PROVE  /\ Kept /\ CatalogInv' /\ UNCHANGED <<pointer, snapshots>>
         /\ DOMAIN edits' \subseteq Nat \X Nat /\ edits' \in [DOMAIN edits' -> Edit]
<1>0. /\ entry[p] \in Entry /\ seq[p] \in Nat \ {0}
      /\ DOMAIN edits \subseteq Nat \X Nat /\ edits \in [DOMAIN edits -> Edit]
      /\ TornEdit \in Edit /\ TornEdit.torn
  BY DEF Inv, TypeOK, TornEdit, Edit
<1>1. entry[p].gen \in Nat /\ entry[p].gen <= pointer.gen
  BY <1>0, EntryBelow, Zenon DEF Entry
<1>2. UNCHANGED <<pointer, snapshots>> /\ edits' = With(edits, <<entry[p].gen, seq[p]>>, TornEdit)
  BY Zenon DEF PutEdit
<1>3. /\ DOMAIN edits' = DOMAIN edits \cup {<<entry[p].gen, seq[p]>>}
      /\ edits'[<<entry[p].gen, seq[p]>>].torn
      /\ \A a \in DOMAIN edits : edits'[a] = edits[a]
  BY <1>0, <1>2, Zenon DEF With
<1>4. Kept
  BY <1>2, Zenon DEF Kept
<1>5. CatalogInv'
  <2>1. CatalogInv
    BY Zenon DEF Inv
  <2>2. <<entry[p].gen, seq[p]>>[1] = entry[p].gen
    OBVIOUS
  <2>3. \A a \in DOMAIN edits' : a[1] <= pointer.gen /\ (~edits'[a].torn => a \in DOMAIN at)
    <3>1. \A a \in DOMAIN edits : a[1] <= pointer.gen /\ (~edits[a].torn => a \in DOMAIN at)
      BY <2>1, Zenon DEF CatalogInv
    <3> QED BY <1>1, <1>3, <2>2, <3>1, Zenon
  <2>4. \A k : WellFormed(pointer.gen, k)' => WellFormed(pointer.gen, k) /\ edits'[<<pointer.gen, k>>] = edits[<<pointer.gen, k>>]
    BY <1>2, <1>3, Zenon DEF WellFormed
  <2> QED BY <1>2, <1>3, <2>1, <2>3, <2>4, Zenon DEF CatalogInv
<1>6. DOMAIN edits' \subseteq Nat \X Nat /\ edits' \in [DOMAIN edits' -> Edit]
  BY <1>0, <1>1, <1>2 DEF With
<1> QED BY <1>2, <1>4, <1>5, <1>6, Zenon


\* An instance that is gone keeps no claim on the manifest it leaves.
LEMMA ForgetKept ==
  ASSUME NEW p \in Procs, Inv, Forget(p, "Ok"), Kept, CatalogInv',
         pointer' \in Entry,
         DOMAIN snapshots' \subseteq Nat, snapshots' \in [DOMAIN snapshots' -> Snapshot],
         DOMAIN edits' \subseteq Nat \X Nat, edits' \in [DOMAIN edits' -> Edit],
         crashes' = crashes + 1, UNCHANGED <<objects, faults, now, log, at, acked>>
  PROVE  Inv'
<1>1. /\ pc' \in [Procs -> Stages] /\ entry' \in [Procs -> Entry] /\ seq' \in [Procs -> Nat \ {0}]
      /\ version' \in [Procs -> SUBSET Nat] /\ nextFile' \in [Procs -> Nat \ {0}]
      /\ fenced' \in [Procs -> BOOLEAN] /\ pending' \in [Procs -> SUBSET (Nat \X Nat)]
      /\ written' \in [Procs -> SUBSET Nat]
  BY NowhereType DEF Forget, Goto, Inv, TypeOK, Stages
<1>2. /\ pinned' \in [Procs -> SUBSET SUBSET Nat] /\ reseal' \in [Procs -> BOOLEAN]
      /\ load' \in [Procs -> Attempt] /\ target' \in [Procs -> Target]
      /\ status' \in [Procs -> Statuses] /\ asOf' \in [Procs -> Nat]
  BY NoLoadType, NoTargetType, Zenon DEF Forget, Inv, TypeOK, Statuses
<1>3. crashes' \in Nat
  BY DEF Inv, TypeOK
<1>4. TypeOK'
  BY <1>1, <1>2, <1>3, Zenon DEF Inv, TypeOK
<1>5. /\ pc'[p] = "down" /\ entry'[p] = Nowhere /\ version'[p] = {} /\ load'[p].seq = 1
      /\ \A q \in Procs \ {p} : Same(q)
  BY NoLoadType, Zenon DEF Forget, Goto, Inv, TypeOK, Same
<1>6. ProcInv(p)'
  BY <1>5, Zenon DEF ProcInv, ServingInv, Opened, ReplayInv, Replaying, RollInv, Rolling, Staged
<1> QED BY <1>4, <1>5, <1>6, KeptStep, Zenon DEF Staged

LEMMA EditsOfType ==
  ASSUME NEW p \in Procs, TypeOK, NEW e \in EditsOf(p) PROVE e \in Edit /\ ~e.torn
<1>0. version[p] \in SUBSET Nat /\ written[p] \in SUBSET Nat
  BY Zenon DEF TypeOK
<1>1. PICK add \in SUBSET Nat, del \in SUBSET Nat : e = Change(p, add, del)
  <2>1. CASE e \in FlushEdits(p)
    BY <1>0, <2>1, Zenon DEF FlushEdits
  <2>2. CASE e \in CompactionEdits(p)
    <3>1. PICK add \in SUBSET written[p], del \in (SUBSET version[p]) \ {{}} : e = Change(p, add, del)
      BY <2>2 DEF CompactionEdits
    <3> QED BY <1>0, <3>1, Zenon
  <2>3. CASE e \in MigrationEdits(p)
    <3>1. PICK n \in written[p], f \in version[p] : e = Change(p, {n}, {f})
      BY <2>3, Migrations, Zenon
    <3>2. {n} \in SUBSET Nat /\ {f} \in SUBSET Nat
      BY <1>0, Zenon
    <3> QED BY <3>1, <3>2, Zenon
  <2>4. CASE e \in ReclaimEdits(p)
    <3>1. PICK del \in (SUBSET version[p]) \ {{}} : e = Change(p, {}, del)
      BY <2>4, Zenon DEF ReclaimEdits
    <3> QED BY <1>0, <3>1, Zenon
  <2>5. CASE e \in TrivialMoves(p)
    BY <1>0, <2>5, Zenon DEF TrivialMoves
  <2> QED BY <2>1, <2>2, <2>3, <2>4, <2>5, Zenon DEF EditsOf
<1> QED BY <1>1, Zenon DEF Change, Edit, TypeOK

LEMMA ApplyInv ==
  ASSUME NEW p \in Procs, Inv, Apply(p) PROVE Inv'
<1>1. PICK e \in EditsOf(p) :
        LET occupied == Occupied(edits, <<entry[p].gen, seq[p]>>)
            dead == e.deleted \ e.added
        IN
        /\ \/ /\ occupied
              /\ fenced' = [fenced EXCEPT ![p] = TRUE]
              /\ NoFault
              /\ UNCHANGED <<catalogVars, pc, seq, version, pending, target, log, at>>
           \/ /\ ~occupied /\ Fault
              /\ Land(p, e) \/ UNCHANGED <<catalogVars, log, at>>
              /\ UNCHANGED <<pc, seq, version, fenced, pending, target>>
           \/ /\ ~occupied
              /\ Land(p, e)
              /\ seq' = [seq EXCEPT ![p] = @ + 1]
              /\ version' = [version EXCEPT ![p] = ApplyEdit(@, e)]
              /\ pending' = [pending EXCEPT ![p] = @ \cup (dead \X {now})]
              /\ IF seq[p] + 1 <= EditsPerGeneration
                 THEN Goto(p, "collect") /\ UNCHANGED target
                 ELSE /\ Goto(p, "putSnapshot")
                      /\ target' = RollTo(p, entry[p].gen + 1, "collect")
              /\ NoFault
              /\ UNCHANGED fenced
        /\ written' = [written EXCEPT ![p] = @ \ e.added]
  BY Zenon DEF Apply
<1>2. /\ pc[p] = "idle" /\ entry[p] # Nowhere
      /\ UNCHANGED <<objects, entry, nextFile, pinned, reseal, load, status, acked, asOf>>
  BY Zenon DEF Apply, Inv, ProcInv, ServingInv, Opened
<1>3. e \in Edit /\ ~e.torn
  BY EditsOfType, Zenon DEF Inv
<1>4. /\ written \in [Procs -> SUBSET Nat] /\ fenced \in [Procs -> BOOLEAN]
      /\ version \in [Procs -> SUBSET Nat] /\ seq \in [Procs -> Nat \ {0}]
      /\ pending \in [Procs -> SUBSET (Nat \X Nat)] /\ now \in Nat /\ entry[p] \in Entry
      /\ target \in [Procs -> Target] /\ pc \in [Procs -> Stages] /\ nextFile[p] \in Nat \ {0}
  BY Zenon DEF Inv, TypeOK
<1>5. written' \in [Procs -> SUBSET Nat]
  BY <1>1, <1>4, Zenon
<1>6. CASE /\ UNCHANGED <<catalogVars, pc, seq, version, pending, target, log, at>>
           /\ Fault \/ NoFault
           /\ fenced' \in [Procs -> BOOLEAN]
  <2>1. TypeOK'
    BY <1>2, <1>5, <1>6, Bounds, Zenon DEF Inv, TypeOK, catalogVars
  <2> QED BY <1>2, <1>6, <2>1, StillStep, Zenon DEF manifestVars, catalogVars
<1>7. ASSUME ~Occupied(edits, <<entry[p].gen, seq[p]>>), Land(p, e)
      PROVE  /\ Kept /\ CatalogInv' /\ UNCHANGED <<pointer, snapshots>>
             /\ DOMAIN edits' \subseteq Nat \X Nat /\ edits' \in [DOMAIN edits' -> Edit]
             /\ log' \in Seq(SUBSET Nat)
             /\ DOMAIN at' \subseteq Nat \X Nat /\ at' \in [DOMAIN at' -> Nat]
             /\ <<entry[p].gen, seq[p]>> \in DOMAIN at'
             /\ log'[at'[<<entry[p].gen, seq[p]>>]] = ApplyEdit(version[p], e)
  BY <1>2, <1>3, <1>7, EditLands, Zenon DEF Occupied
<1>8. CASE /\ ~Occupied(edits, <<entry[p].gen, seq[p]>>) /\ Land(p, e) /\ Fault
           /\ UNCHANGED <<pc, seq, version, fenced, pending, target>>
  <2>1. TypeOK'
    BY <1>2, <1>5, <1>7, <1>8, Bounds, Zenon DEF Inv, TypeOK
  <2>2. \A q \in Procs : Same(q)
    BY <1>2, <1>8, Zenon DEF Same
  <2>3. ProcInv(p)' /\ pc'[p] \notin Staged
    BY <1>2, <1>7, <1>8, <2>2, KeptProc, Zenon DEF Staged
  <2> QED BY <1>7, <1>8, <2>1, <2>2, <2>3, KeptStep, Zenon
<1>9. CASE /\ ~Occupied(edits, <<entry[p].gen, seq[p]>>) /\ Land(p, e)
           /\ seq' = [seq EXCEPT ![p] = @ + 1]
           /\ version' = [version EXCEPT ![p] = ApplyEdit(@, e)]
           /\ pending' = [pending EXCEPT ![p] = @ \cup ((e.deleted \ e.added) \X {now})]
           /\ \/ Goto(p, "collect") /\ UNCHANGED target
              \/ /\ Goto(p, "putSnapshot")
                 /\ target' = RollTo(p, entry[p].gen + 1, "collect")
           /\ NoFault /\ UNCHANGED fenced
  <2>1. ApplyEdit(version[p], e) \in SUBSET Nat /\ (e.deleted \ e.added) \X {now} \in SUBSET (Nat \X Nat)
    <3>1. e.added \in SUBSET Nat /\ e.deleted \in SUBSET Nat /\ version[p] \in SUBSET Nat /\ now \in Nat
      BY <1>3, <1>4, Zenon DEF Edit
    <3>2. ApplyEdit(version[p], e) \in SUBSET Nat
      BY <3>1, Zenon DEF ApplyEdit
    <3> QED BY <3>1, <3>2, Zenon
  <2>2. version' \in [Procs -> SUBSET Nat] /\ seq' \in [Procs -> Nat \ {0}]
    BY <1>4, <1>9, <2>1
  <2>3. pending[p] \cup ((e.deleted \ e.added) \X {now}) \in SUBSET (Nat \X Nat)
    BY <1>4, <2>1, Zenon
  <2>4. pending' \in [Procs -> SUBSET (Nat \X Nat)]
    BY <1>4, <1>9, <2>3, Zenon
  <2>5. entry[p].gen \in Nat
    BY <1>4, Zenon DEF Entry
  <2>13. pc' \in [Procs -> Stages]
    BY <1>4, <1>9, Zenon DEF Goto, Stages
  <2>14. RollTo(p, entry[p].gen + 1, "collect") \in [Procs -> Target]
    BY <1>4, <2>5, SMTT(30) DEF RollTo, Target
  <2>6. pc' \in [Procs -> Stages] /\ target' \in [Procs -> Target]
    BY <1>4, <1>9, <2>13, <2>14, Zenon
  <2>7. TypeOK'
    BY <1>2, <1>5, <1>7, <1>9, <2>2, <2>4, <2>6, Bounds, ZenonT(60) DEF Inv, TypeOK
  <2>8. \A q \in Procs \ {p} : Same(q)
    BY <1>2, <1>4, <1>9, Zenon DEF Same, Goto, RollTo
  <2>9. /\ seq'[p] = seq[p] + 1 /\ version'[p] = ApplyEdit(version[p], e)
        /\ \/ pc'[p] = "collect"
           \/ pc'[p] = "putSnapshot" /\ target'[p].gen = entry[p].gen + 1
    BY <1>4, <1>9 DEF Goto, RollTo
  <2>10. ServingInv(p)'
    <3>1. <<entry'[p].gen, seq'[p] - 1>> = <<entry[p].gen, seq[p]>>
      BY <1>2, <1>4, <2>9
    <3>2. log'[Standing(p)'] = ApplyEdit(version[p], e)
      BY <1>7, <1>9, <3>1, Zenon DEF Standing
    <3>3. entry[p].gen # 0
      BY <1>2, ZenonT(60) DEF Inv, ProcInv, ServingInv
    <3> QED BY <1>2, <1>7, <1>9, <2>9, <3>1, <3>2, <3>3, Zenon DEF ServingInv
  <2>11. ReplayInv(p)'
    BY <1>2, <2>9, Zenon DEF Inv, ProcInv, ReplayInv, Replaying
  <2>12. RollInv(p)' /\ pc'[p] \notin Staged
    BY <1>2, <2>5, <2>9, SMTT(30) DEF RollInv, Rolling, Staged
  <2> QED BY <1>7, <1>9, <2>7, <2>8, <2>10, <2>11, <2>12, KeptStep, Zenon DEF ProcInv
<1>10. [fenced EXCEPT ![p] = TRUE] \in [Procs -> BOOLEAN]
  BY <1>4, SMTT(30)
<1> QED BY <1>1, <1>4, <1>6, <1>8, <1>9, <1>10, Zenon

LEMMA CrashMidWriteInv ==
  ASSUME NEW p \in Procs, Inv, CrashMidWrite(p) PROVE Inv'
<1>1. /\ Forget(p, "Ok") /\ crashes' = crashes + 1
      /\ UNCHANGED <<objects, faults, now, log, at, acked>>
  BY Zenon DEF CrashMidWrite
<1>2. CASE /\ pc[p] = "idle" /\ <<entry[p].gen, seq[p]>> \notin DOMAIN edits
           /\ PutEdit(entry[p].gen, seq[p], TornEdit)
  <2>1. entry[p] # Nowhere
    BY <1>2, Zenon DEF Inv, ProcInv, ServingInv, Opened
  <2>2. /\ Kept /\ CatalogInv' /\ UNCHANGED <<pointer, snapshots>>
        /\ DOMAIN edits' \subseteq Nat \X Nat /\ edits' \in [DOMAIN edits' -> Edit]
    BY <1>1, <1>2, <2>1, TornEditPut, Zenon
  <2>3. pointer' \in Entry /\ DOMAIN snapshots' \subseteq Nat /\ snapshots' \in [DOMAIN snapshots' -> Snapshot]
    BY <2>2, Zenon DEF Inv, TypeOK
  <2> QED BY <1>1, <2>2, <2>3, ForgetKept, Zenon
<1>3. CASE /\ pc[p] = "putSnapshot" /\ target[p].gen \notin DOMAIN snapshots
           /\ PutSnapshotAt(target[p].gen, TornSnapshot)
  <2>1. target[p].gen \in Nat /\ TornSnapshot \in Snapshot
    BY DEF Inv, TypeOK, Target, TornSnapshot, Snapshot
  <2>2. /\ Kept /\ CatalogInv'
        /\ DOMAIN snapshots' \subseteq Nat /\ snapshots' \in [DOMAIN snapshots' -> Snapshot]
    BY <1>1, <1>3, <2>1, SnapshotPut, Zenon
  <2>3. pointer' \in Entry /\ DOMAIN edits' \subseteq Nat \X Nat /\ edits' \in [DOMAIN edits' -> Edit]
    BY <1>3, Zenon DEF Inv, TypeOK, PutSnapshotAt
  <2> QED BY <1>1, <2>2, <2>3, ForgetKept, Zenon
<1> QED BY <1>2, <1>3, ZenonT(60) DEF CrashMidWrite, Occupied


-----------------------------------------------------------------------------
(* The theorems. *)

LEMMA InitInv == ASSUME Init PROVE Inv
<1>1. DOMAIN EmptyFunction = {}
  BY Zenon DEF EmptyFunction
<1>2. TypeOK
  BY <1>1, ConstantsAssumption, NowhereType, NoLoadType, NoTargetType, SMTT(30) DEF Init, TypeOK, Stages, Statuses
<1>3. CatalogInv
  BY <1>1, Zenon DEF Init, CatalogInv, WellFormed
<1>4. \A p \in Procs : ProcInv(p)
  BY NoLoadType, Zenon DEF Init, ProcInv, ServingInv, Opened, ReplayInv, Replaying, RollInv, Rolling, Staged
<1>5. \A p, q \in Procs : Unique(p, q)
  BY Zenon DEF Init, Unique, Staged
<1> QED BY <1>2, <1>3, <1>4, <1>5, Zenon DEF Inv

LEMMA NextInv == ASSUME Inv, [Next]_vars PROVE Inv'
<1>1. CASE UNCHANGED vars
  <2>1. TypeOK'
    BY <1>1, Zenon DEF vars, Inv, TypeOK, catalogVars, instanceVars, localVars, boundVars, historyVars
  <2> QED BY <1>1, <2>1, StillStep, Zenon DEF vars, manifestVars, catalogVars, instanceVars, localVars, boundVars, historyVars
<1>2. ASSUME NEW p \in Procs, Recover(p) PROVE Inv'
  BY <1>2, OpenInv, ReadPointerInv, GetSnapshotInv, ListEditsInv, GetEditInv, RereadInv, ConfirmInv,
     RecoverIoInv, VerifyStoresInv, ObserveAfterCreateInv, Zenon DEF Recover
<1>3. ASSUME NEW p \in Procs, Roll(p) PROVE Inv'
  BY <1>3, PutSnapshotInv, CollidedInv, RelistInv, CompareAndSetInv, SettleCasInv, InstalledInv, Zenon DEF Roll
<1>4. ASSUME NEW p \in Procs, Read(p) PROVE Inv'
  BY <1>4, PinInv, ReadMissingInv, AdvancedInv, Zenon DEF Read
<1>5. ASSUME NEW p \in Procs, PutObject(p) \/ Apply(p) \/ RollNow(p) \/ CollectObsolete(p)
                               \/ Crash(p) \/ CrashMidWrite(p)
      PROVE  Inv'
  BY <1>5, PutObjectInv, ApplyInv, RollNowInv, CollectObsoleteInv, CrashInv, CrashMidWriteInv, Zenon
<1>6. CASE Tick
  BY <1>6, TickInv, Zenon
<1> QED BY <1>1, <1>2, <1>3, <1>4, <1>5, <1>6, Zenon DEF Next

\* Whatever writers, readers, crashes and failed calls do, every variable of
\* recover, apply and write_snapshot_and_install keeps its type.
THEOREM TypeCorrect == Spec => []TypeOK
<1>1. Init => Inv
  BY InitInv, Zenon
<1>2. Inv /\ [Next]_vars => Inv'
  BY NextInv, Zenon
<1>3. Inv => TypeOK
  BY Zenon DEF Inv
<1> QED BY <1>1, <1>2, <1>3, PTL DEF Spec

\* The generation CURRENT names always replays, edit by edit, to the versions
\* that apply made durable: recover can never adopt a version nobody published,
\* however many writers compete for the manifest.
THEOREM HistoryReplays == Spec => []ReplayIsHistory
<1>1. Init => Inv
  BY InitInv, Zenon
<1>2. Inv /\ [Next]_vars => Inv'
  BY NextInv, Zenon
<1>3. Inv => ReplayIsHistory
  <2>1. SUFFICES ASSUME Inv, pointer # Nowhere PROVE ReplayIsHistory
    BY Zenon DEF ReplayIsHistory
  <2>2. \A k \in 1..MaxCommits : k \in Nat \ {0}
    BY ConstantsAssumption
  <2>3. ASSUME NEW k \in 1..MaxCommits, WellFormed(pointer.gen, k)
        PROVE  /\ <<pointer.gen, k>> \in DOMAIN at /\ <<pointer.gen, k - 1>> \in DOMAIN at
               /\ log[at[<<pointer.gen, k>>]] = ApplyEdit(log[at[<<pointer.gen, k - 1>>]], edits[<<pointer.gen, k>>])
    <3>1. /\ ~edits[<<pointer.gen, k>>].torn /\ <<pointer.gen, k>> \in DOMAIN edits
      BY <2>3, Zenon DEF WellFormed
    <3> QED BY <2>1, <2>2, <2>3, <3>1, Zenon DEF Inv, CatalogInv
  <2> QED BY <2>1, <2>3, Zenon DEF Inv, CatalogInv, ReplayIsHistory
<1> QED BY <1>1, <1>2, <1>3, PTL DEF Spec

\* compare_and_set moves CURRENT only forward, to a generation above the one it
\* named; write_snapshot_and_install relies on it to tell, from CURRENT alone,
\* whether its own call happened and which generation may be deleted.
THEOREM PointerOnlyAdvances == Spec => PointerAdvances
<1>1. Init => Inv
  BY InitInv, Zenon
<1>2. Inv /\ [Next]_vars => Inv'
  BY NextInv, Zenon
<1>3. Inv /\ [Next]_vars => [pointer' # pointer => pointer'.gen > pointer.gen]_vars
  <2>1. SUFFICES ASSUME Inv, Next, pointer' # pointer PROVE pointer'.gen > pointer.gen
    BY Zenon DEF vars, catalogVars
  <2>2. PICK p \in Procs : pointer = entry[p] /\ pc[p] = "cas" /\ MovePointer(p)
    <3>1. ASSUME NEW p \in Procs, Recover(p) PROVE FALSE
      BY <2>1, <3>1, Zenon DEF Recover, Open, Refresh, ReadPointer, GetSnapshot, ListEditsOf, GetEdit, Reread,
         Confirm, RecoverIo, VerifyStores, ObserveAfterCreate, RecoverFrame, catalogVars
    <3>2. ASSUME NEW p \in Procs, Read(p) \/ PutObject(p) \/ Apply(p) \/ RollNow(p)
                                  \/ CollectObsolete(p) \/ Crash(p) \/ CrashMidWrite(p)
          PROVE  FALSE
      BY <2>1, <3>2, Zenon DEF Read, Pin, Unpin, ReadMissing, AdvancedPointer, AdvancedList, PutObject, Apply, Land,
         RollNow, CollectObsolete, Crash, CrashMidWrite, PutEdit, PutSnapshotAt, catalogVars
    <3>3. ASSUME NEW p \in Procs, Roll(p)
          PROVE  pointer = entry[p] /\ pc[p] = "cas" /\ MovePointer(p)
      BY <2>1, <3>3, Zenon DEF Roll, PutSnapshot, Collided, Relist, CompareAndSet, SettleCas, Installed,
         PutSnapshotAt, DeleteGeneration, DeletePartOf, Expected, catalogVars
    <3>4. CASE Tick
      BY <2>1, <3>4, Zenon DEF Tick, catalogVars
    <3> QED BY <2>1, <3>1, <3>2, <3>3, <3>4, Zenon DEF Next
  <2> QED BY <2>1, <2>2, PointerMoved, ZenonT(60)
<1> QED BY <1>1, <1>2, <1>3, PTL DEF Spec, PointerAdvances

=============================================================================
