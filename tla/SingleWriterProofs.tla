------------------------- MODULE SingleWriterProofs -------------------------
(***************************************************************************)
(* What a single writer's manifest promises: SoleWriterInv is inductive,   *)
(* the theorems follow from it, and the store implements VersionHistory.   *)
(***************************************************************************)
EXTENDS SingleWriterInvariant, VersionSetProofs

-----------------------------------------------------------------------------
(* The inductive invariant of a store with one writer, and the theorems. *)

SoleWriterInv(w) ==
    /\ Inv /\ Control(w) /\ Chain /\ ServesPublished
    /\ \A p \in Procs : Listing(p)
    /\ Acked(w) /\ Files(w) /\ Undamaged(w) /\ Numbers(w)
    /\ \A r \in Readers : Window(w, r)

LEMMA SoleWriterInit ==
  ASSUME NEW w, Writers = {w}, Init PROVE SoleWriterInv(w)
<1>1. w \in Procs /\ Readers \subseteq Procs /\ DOMAIN EmptyFunction = {}
  BY OneWriter, Zenon DEF Procs, EmptyFunction
<1>2. /\ \A p \in Procs : pc[p] = "down" /\ entry[p] = Nowhere /\ version[p] = {} /\ load[p] = NoLoad
      /\ pending[w] = {} /\ written[w] = {} /\ pinned[w] = {} /\ status[w] = "Ok"
      /\ pointer = Nowhere /\ DOMAIN at = {} /\ DOMAIN edits = {} /\ log = <<>> /\ acked = 0 /\ now = 0
  BY <1>1, Zenon DEF Init
<1>3. Inv
  BY InitInv, Zenon
<1>4. Control(w) /\ Chain /\ ServesPublished /\ \A p \in Procs : Listing(p)
  BY <1>1, <1>2, Zenon DEF Control, Chain, ServesPublished, Listing, Rolling, Opened, Replaying
<1>5. Acked(w) /\ Undamaged(w) /\ Numbers(w)
  BY <1>1, <1>2, Zenon DEF Acked, Undamaged, Numbers, Rolling, Staged
<1>6. Files(w)
  BY <1>1, <1>2, Zenon DEF Files, Dead
<1>7. \A r \in Readers : Window(w, r)
  BY <1>1, <1>2 DEF Window, NoLoad
<1> QED BY <1>3, <1>4, <1>5, <1>6, <1>7, Zenon DEF SoleWriterInv

LEMMA SoleWriterNext ==
  ASSUME NEW w, Writers = {w}, ~UnreadableIsEmpty, ~RereadFails, SoleWriterInv(w), [Next]_vars
  PROVE  SoleWriterInv(w)'
<1>1. /\ Inv /\ Control(w) /\ Chain /\ ServesPublished /\ \A p \in Procs : Listing(p)
      /\ Acked(w) /\ Files(w) /\ Undamaged(w) /\ Numbers(w) /\ \A r \in Readers : Window(w, r)
  BY Zenon DEF SoleWriterInv
<1>2. Inv' /\ Control(w)' /\ Chain' /\ Grows
  BY <1>1, NextInv, ControlNext, ManifestGrows, Zenon
<1>3. ServesPublished' /\ \A p \in Procs : Listing(p)'
  BY <1>1, <1>2, ServesNext, ListingNext, Zenon
<1>4. Acked(w)' /\ Files(w)' /\ Undamaged(w)' /\ Numbers(w)'
  BY <1>1, <1>2, AckedNext, FilesNext, UndamagedNext, NumbersNext, Zenon
<1>5. \A r \in Readers : Window(w, r)'
  BY <1>1, <1>2, WindowNext, Zenon
<1> QED BY <1>2, <1>3, <1>4, <1>5, Zenon DEF SoleWriterInv

\* Where replay of the live generation stops is its newest durable place.
LEMMA TipIsTop ==
  ASSUME Inv, Chain, pointer # Nowhere, NEW k \in Nat, IsTip(pointer.gen, k)
  PROVE  <<pointer.gen, k>> \in DOMAIN at /\ <<pointer.gen, k + 1>> \notin DOMAIN at
<1>1. <<pointer.gen, k>> \in DOMAIN at
  <2>1. CASE k = 0
    BY <2>1, Zenon DEF Inv, CatalogInv
  <2>2. CASE k # 0
    <3>1. WellFormed(pointer.gen, k)
      BY <2>2 DEF IsTip
    <3> QED BY <3>1, Zenon DEF WellFormed, Inv, CatalogInv
  <2> QED BY <2>1, <2>2, Zenon
<1>2. ASSUME <<pointer.gen, k + 1>> \in DOMAIN at PROVE FALSE
  <2>1. <<pointer.gen, k + 1>>[1] = pointer.gen /\ <<pointer.gen, k + 1>>[2] # 0
    <3>1. k + 1 # 0
      OBVIOUS
    <3> QED BY <3>1, Zenon
  <2>2. <<pointer.gen, k + 1>> \in DOMAIN edits /\ ~edits[<<pointer.gen, k + 1>>].torn
    BY <1>2, <2>1, LiveEdit, Zenon DEF Chain
  <2> QED BY <2>2, Zenon DEF IsTip, WellFormed
<1> QED BY <1>1, <1>2, Zenon

\* With one writer, whatever crashes, torn writes and failed calls there are, what
\* CURRENT's generation replays to references only objects that are in the store:
\* write_new_sst puts before apply, and collect_obsolete deletes after it.
THEOREM NothingDangles ==
  ASSUME NEW w, Writers = {w}, ~UnreadableIsEmpty, ~RereadFails
  PROVE  Spec => []NoDangling
<1>1. Init => SoleWriterInv(w)
  BY SoleWriterInit, Zenon
<1>2. SoleWriterInv(w) /\ [Next]_vars => SoleWriterInv(w)'
  BY SoleWriterNext, Zenon
<1>3. SoleWriterInv(w) => NoDangling
  <2>1. SUFFICES ASSUME SoleWriterInv(w), NEW k \in 0..MaxCommits, pointer # Nowhere, IsTip(pointer.gen, k)
                 PROVE  log[at[<<pointer.gen, k>>]] \subseteq objects
    BY Zenon DEF NoDangling
  <2>2. k \in Nat /\ Inv /\ Chain /\ Files(w)
    BY <2>1, ConstantsAssumption DEF SoleWriterInv
  <2>3. <<pointer.gen, k>> \in DOMAIN at /\ <<pointer.gen, k + 1>> \notin DOMAIN at
    BY <2>1, <2>2, TipIsTop, Zenon
  <2>4. IsTop(<<pointer.gen, k>>)
    BY <2>3, Zenon DEF IsTop
  <2> QED BY <2>2, <2>3, <2>4, Zenon DEF Files
<1> QED BY <1>1, <1>2, <1>3, PTL DEF Spec

\* With one writer, what CURRENT's generation replays to is the newest version whose
\* apply returned Ok, or a later one: a torn tail, a roll cut short at any round
\* trip and an ambiguous compare_and_set lose no acknowledged commit.
THEOREM AckedNeverLost ==
  ASSUME NEW w, Writers = {w}, ~UnreadableIsEmpty, ~RereadFails
  PROVE  Spec => []AckedSurvives
<1>1. Init => SoleWriterInv(w)
  BY SoleWriterInit, Zenon
<1>2. SoleWriterInv(w) /\ [Next]_vars => SoleWriterInv(w)'
  BY SoleWriterNext, Zenon
<1>3. SoleWriterInv(w) => AckedSurvives
  <2>1. SUFFICES ASSUME SoleWriterInv(w), NEW k \in 0..MaxCommits, pointer # Nowhere, IsTip(pointer.gen, k)
                 PROVE  at[<<pointer.gen, k>>] >= acked
    BY Zenon DEF AckedSurvives
  <2>2. k \in Nat /\ Inv /\ Chain /\ Acked(w)
    BY <2>1, ConstantsAssumption DEF SoleWriterInv
  <2>3. <<pointer.gen, k>> \in DOMAIN at /\ <<pointer.gen, k + 1>> \notin DOMAIN at
    BY <2>1, <2>2, TipIsTop, Zenon
  <2>4. PICK a \in DOMAIN at : a[1] = pointer.gen /\ acked <= at[a]
    BY <2>1, <2>2, Zenon DEF Acked
  <2>5. at[a] <= at[<<pointer.gen, k>>]
    BY <2>2, <2>3, <2>4, Below, Zenon
  <2>6. acked \in Nat /\ at[a] \in Nat /\ at[<<pointer.gen, k>>] \in Nat
    BY <2>2, <2>3, <2>4, Zenon DEF Inv, TypeOK
  <2> QED BY <2>2, <2>4, <2>5, <2>6
<1> QED BY <1>1, <1>2, <1>3, PTL DEF Spec

\* With one writer, recover and verify_stores_and_discard never refuse the writer's
\* own store as damaged, whatever it was doing when it stopped.
THEOREM WriterAlwaysReopens ==
  ASSUME NEW w, Writers = {w}, ~UnreadableIsEmpty, ~RereadFails
  PROVE  Spec => []WriterReopens
<1>1. Init => SoleWriterInv(w)
  BY SoleWriterInit, Zenon
<1>2. SoleWriterInv(w) /\ [Next]_vars => SoleWriterInv(w)'
  BY SoleWriterNext, Zenon
<1>3. SoleWriterInv(w) => WriterReopens
  BY Zenon DEF SoleWriterInv, Undamaged, WriterReopens
<1> QED BY <1>1, <1>2, <1>3, PTL DEF Spec

\* With one writer, the version it serves and every version an iterator holds keep
\* all their objects, through commits, rolls and collections that may fail halfway.
THEOREM LiveVersionsStay ==
  ASSUME NEW w, Writers = {w}, ~UnreadableIsEmpty, ~RereadFails
  PROVE  Spec => []LiveVersionsReadable
<1>1. Init => SoleWriterInv(w)
  BY SoleWriterInit, Zenon
<1>2. SoleWriterInv(w) /\ [Next]_vars => SoleWriterInv(w)'
  BY SoleWriterNext, Zenon
<1>3. SoleWriterInv(w) => LiveVersionsReadable
  BY Zenon DEF SoleWriterInv, Files, LiveVersionsReadable
<1> QED BY <1>1, <1>2, <1>3, PTL DEF Spec

\* With one writer, every process, readers that refresh against a manifest that is
\* being rolled included, serves a version apply published, at the place it claims.
THEOREM EveryoneServesPublished ==
  ASSUME NEW w, Writers = {w}, ~UnreadableIsEmpty, ~RereadFails
  PROVE  Spec => []ServesPublished
<1>1. Init => SoleWriterInv(w)
  BY SoleWriterInit, Zenon
<1>2. SoleWriterInv(w) /\ [Next]_vars => SoleWriterInv(w)'
  BY SoleWriterNext, Zenon
<1>3. SoleWriterInv(w) => ServesPublished
  BY Zenon DEF SoleWriterInv
<1> QED BY <1>1, <1>2, <1>3, PTL DEF Spec

\* With one writer, what a reader replayed stays readable for the retention that
\* collect_obsolete_locked waits, counted from the listing the reader took.
THEOREM WindowKept ==
  ASSUME NEW w, Writers = {w}, ~UnreadableIsEmpty, ~RereadFails
  PROVE  Spec => []RetentionWindow
<1>1. Init => SoleWriterInv(w)
  BY SoleWriterInit, Zenon
<1>2. SoleWriterInv(w) /\ [Next]_vars => SoleWriterInv(w)'
  BY SoleWriterNext, Zenon
<1>3. SoleWriterInv(w) => RetentionWindow
  <2>1. SUFFICES ASSUME SoleWriterInv(w), NEW r \in Readers, entry[r] # Nowhere, now - asOf[r] < Retention
                 PROVE  version[r] \subseteq objects
    BY Zenon DEF RetentionWindow
  <2>2. Fresh(w, version[r], asOf[r]) /\ now \in Nat /\ asOf[r] \in Nat /\ Retention \in Nat
    BY <2>1, ConstantsAssumption, Zenon DEF SoleWriterInv, Window, Inv, TypeOK, Procs
  <2> QED BY <2>1, <2>2 DEF Fresh
<1> QED BY <1>1, <1>2, <1>3, PTL DEF Spec

\* With one writer, a number that a durable version ever referenced is never put
\* again: a new object cannot be mistaken for one a reader or a cache still knows.
THEOREM NumbersAreFresh ==
  ASSUME NEW w, Writers = {w}, ~UnreadableIsEmpty, ~RereadFails
  PROVE  Spec => NumbersNotReused
<1>1. Init => SoleWriterInv(w)
  BY SoleWriterInit, Zenon
<1>2. SoleWriterInv(w) /\ [Next]_vars => SoleWriterInv(w)'
  BY SoleWriterNext, Zenon
<1>3. SoleWriterInv(w) /\ [Next]_vars => [\A i \in DOMAIN log : log[i] \cap (objects' \ objects) = {}]_vars
  <2>1. SUFFICES ASSUME SoleWriterInv(w), [Next]_vars, NEW i \in DOMAIN log, NEW f \in log[i],
                        f \in objects', f \notin objects
                 PROVE  FALSE
    BY Zenon DEF vars
  <2>2. Inv /\ Control(w) /\ Numbers(w)
    BY <2>1, Zenon DEF SoleWriterInv
  <2>3. w \in Procs /\ nextFile[w] \in Nat
    BY <2>2, OneWriter, InvTypes, Zenon DEF ProcTypes
  <2>4. Quietly(w)
    BY <2>1, <2>2, StepKinds, Zenon DEF Elsewhere, Verifies, Stops, Adopts, Commits, Switches, Installs, Collects
  <2>5. f = nextFile[w] /\ entry[w] # Nowhere
    BY <2>1, <2>4, Zenon DEF Quietly, Serving
  <2>6. f < nextFile[w]
    BY <2>1, <2>2, <2>5, Zenon DEF Numbers, Bounded
  <2> QED BY <2>3, <2>5, <2>6
<1> QED BY <1>1, <1>2, <1>3, PTL DEF Spec, NumbersNotReused

-----------------------------------------------------------------------------
(***************************************************************************)
(* A store with one writer implements VersionHistory: what its manifest,   *)
(* its rolls and its recoveries do is extend one sequence of versions.     *)
(*                                                                         *)
(* SoleWriterInv says what the live generation holds; the abstract         *)
(* specification speaks of every version ever made durable.  Linear        *)
(* relates the two: addresses of the manifest, generation by generation,   *)
(* are in the order of the history, and the newest address is its last     *)
(* version.  It needs a writer that rolls only after a commit: after a     *)
(* commit in doubt a roll would stage the version before it, so            *)
(* roll_generation_now, which a key rotation asks for, is assumed not to   *)
(* run (~Rotating).                                                        *)
(***************************************************************************)

Before(a, b) == a[1] < b[1] \/ (a[1] = b[1] /\ a[2] <= b[2])

\* the manifest is in the order of the history, and the writer that commits,
\* rolls or acknowledges stands at its end
Linear(w) ==
    /\ \A a, b \in DOMAIN at : Before(a, b) => at[a] <= at[b]
    /\ \A a \in DOMAIN at : IsTop(a) => at[a] = Len(log)
    /\ pc[w] \in Rolling \cup {"collect"} /\ entry[w] # Nowhere => Standing(w) = Len(log)
    /\ pc[w] \in {"ambiguous", "installed"} /\ pointer # entry[w] => at[<<pointer.gen, 0>>] = Len(log)
    /\ ~reseal[w]

\* Only a key rotation makes a writer reseal.
LEMMA ResealNever ==
  ASSUME NEW w, Writers = {w}, Inv, Control(w), ~Rotating, ~reseal[w], [Next]_vars PROVE ~reseal'[w]
<1>1. w \in Procs /\ reseal \in [Procs -> BOOLEAN]
  BY OneWriter, Zenon DEF Inv, TypeOK
<1>2. CASE Elsewhere(w)
  BY <1>2, Zenon DEF Elsewhere
<1>3. ASSUME reseal' = reseal \/ reseal' = [reseal EXCEPT ![w] = FALSE] PROVE ~reseal'[w]
  BY <1>1, <1>3, Zenon
<1>4. CASE WriterSteps(w)
  <2>1. CASE Confirm(w)
    <3>1. UNCHANGED reseal \/ \E b \in {FALSE} : reseal' = [reseal EXCEPT ![w] = b]
      BY <2>1, Zenon DEF Confirm
    <3> QED BY <1>3, <3>1, Zenon
  <2>2. CASE Open(w) \/ ReadPointer(w) \/ GetSnapshot(w) \/ ListEditsOf(w) \/ GetEdit(w) \/ Reread(w) \/ RecoverIo(w)
    <3>1. UNCHANGED reseal
      BY <2>2, Zenon DEF Open, ReadPointer, GetSnapshot, ListEditsOf, GetEdit, Reread, RecoverIo, RecoverFrame, instanceVars
    <3> QED BY <1>3, <3>1, Zenon
  <2>3. CASE VerifyStores(w) \/ Crash(w) \/ CrashMidWrite(w)
    <3>1. reseal' = reseal \/ reseal' = [reseal EXCEPT ![w] = FALSE]
      BY <2>3, Zenon DEF VerifyStores, Crash, CrashMidWrite, Forget
    <3> QED BY <1>3, <3>1, Zenon
  <2>4. CASE ObserveAfterCreate(w) \/ PutObject(w) \/ Apply(w) \/ RollNow(w) \/ CollectObsolete(w) \/ Pin(w) \/ Unpin(w)
    <3>1. UNCHANGED reseal
      BY <2>4, Zenon DEF ObserveAfterCreate, PutObject, Apply, RollNow, CollectObsolete, Pin, Unpin, instanceVars
    <3> QED BY <1>3, <3>1, Zenon
  <2>5. CASE Roll(w)
    <3>1. reseal' = reseal \/ reseal' = [reseal EXCEPT ![w] = FALSE]
      BY <2>5, Zenon DEF Roll, PutSnapshot, Collided, Relist, CompareAndSet, SettleCas, Installed
    <3> QED BY <1>3, <3>1, Zenon
  <2> QED BY <1>4, <2>1, <2>2, <2>3, <2>4, <2>5, Zenon DEF WriterSteps
<1> QED BY <1>2, <1>4, WhoMoves, Zenon

LEMMA LinearNext ==
  ASSUME NEW w, Writers = {w}, ~UnreadableIsEmpty, ~RereadFails, ~Rotating, SoleWriterInv(w), Linear(w), [Next]_vars
  PROVE  Linear(w)'
<1>1. Inv /\ Control(w) /\ Chain /\ w \in Procs
  BY OneWriter, Zenon DEF SoleWriterInv
<1>2. /\ pointer \in Entry /\ entry[w].gen \in Nat /\ pointer.gen \in Nat /\ target[w].gen \in Nat
      /\ seq[w] \in Nat \ {0} /\ log \in Seq(SUBSET Nat) /\ Len(log) \in Nat
  BY <1>1, Numeric, Zenon
<1>3. ~reseal'[w]
  BY <1>1, ResealNever, Zenon DEF Linear
<1>4. \A a \in DOMAIN at : a = <<a[1], a[2]>> /\ a[1] \in Nat /\ a[2] \in Nat /\ at[a] \in 1..Len(log) /\ a[1] <= pointer.gen
  BY <1>1, LiveAddress, Zenon
\* the manifest stays, and so does where the writer stands
<1>5. ASSUME UNCHANGED <<pointer, log, at>>,
             pc'[w] \in Rolling \cup {"collect"} /\ entry'[w] # Nowhere => Standing(w)' = Len(log),
             pc'[w] \in {"ambiguous", "installed"} =>
                pc[w] \in {"cas", "ambiguous", "installed"} /\ entry'[w] = entry[w]
      PROVE  Linear(w)'
  <2>1. \A a : IsTop(a)' <=> IsTop(a)
    BY <1>5, Zenon DEF IsTop
  <2>2. /\ \A a, b \in DOMAIN at' : Before(a, b) => at'[a] <= at'[b]
        /\ \A a \in DOMAIN at' : IsTop(a)' => at'[a] = Len(log')
    BY <1>5, <2>1, Zenon DEF Linear
  <2>3. pc'[w] \in {"ambiguous", "installed"} /\ pointer' # entry'[w] => at'[<<pointer'.gen, 0>>] = Len(log')
    <3>1. pc[w] = "cas" => pointer = entry[w]
      BY <1>1, WriterInRoll, Zenon
    <3> QED BY <1>5, <3>1, Zenon DEF Linear
  <2> QED BY <1>3, <1>5, <2>2, <2>3, Zenon DEF Linear, Before
<1>6. CASE Elsewhere(w)
  <2>1. Standing(w)' = Standing(w) /\ pc'[w] = pc[w] /\ entry'[w] = entry[w] /\ UNCHANGED <<pointer, log, at>>
    BY <1>6, Zenon DEF Elsewhere, Same, Standing
  <2> QED BY <1>5, <2>1, Zenon DEF Linear
<1>7. CASE Quietly(w)
  <2>1. Standing(w)' = Standing(w) /\ entry'[w] = entry[w] /\ UNCHANGED <<pointer, log, at>>
    BY <1>7, Zenon DEF Quietly, Standing
  <2>2. pc'[w] \in Rolling \cup {"collect"} => pc[w] \in Rolling \cup {"collect"} \/ entry[w] = Nowhere
    BY <1>7, Zenon DEF Quietly, Linear
  <2>3. pc'[w] \in {"ambiguous", "installed"} => pc[w] \in {"cas", "ambiguous", "installed"}
    BY <1>7, Zenon DEF Quietly
  <2> QED BY <1>5, <2>1, <2>2, <2>3, Zenon DEF Linear
<1>8. CASE Verifies(w) \/ Stops(w) \/ Adopts(w) \/ Collects(w)
  BY <1>5, <1>8, Zenon DEF Verifies, Stops, Adopts, Collects, catalogVars, Rolling
<1>9. CASE Installs(w)
  <2>1. pc[w] = "installed" /\ pointer = NextEntry(w) /\ UNCHANGED <<pointer, log, at>>
    BY <1>1, <1>9, Zenon DEF Installs, Control
  <2>2. pointer.gen = target[w].gen /\ entry[w].gen < target[w].gen
    BY <1>1, <2>1, Zenon DEF NextEntry, Inv, ProcInv, RollInv, Rolling
  <2>3. pointer # entry[w]
    BY <1>2, <2>2
  <2>4. at[<<pointer.gen, 0>>] = Len(log)
    BY <2>1, <2>3, Zenon DEF Linear
  <2>5. entry'[w].gen = pointer.gen /\ seq'[w] - 1 = 0
    BY <1>9, <2>2 DEF Installs, NextEntry
  <2>6. Standing(w)' = Len(log)
    BY <2>1, <2>4, <2>5, Zenon DEF Standing
  <2> QED BY <1>5, <1>9, <2>1, <2>6, Zenon DEF Installs
<1>10. ASSUME NEW e \in EditsOf(w), Commits(w, e) PROVE Linear(w)'
  <2>1. /\ pointer = entry[w] /\ entry[w] # Nowhere /\ <<pointer.gen, seq[w]>> \notin DOMAIN edits
        /\ entry'[w] = entry[w]
    BY <1>1, <1>10, WriterAtHome, Zenon DEF Commits
  <2>2. PICK g \in Nat, s \in Nat \ {0} : g = pointer.gen /\ s = seq[w] /\ <<entry[w].gen, seq[w]>> = <<g, s>>
    BY <1>2, <2>1, Zenon
  <2>3. at' = With(at, <<g, s>>, Len(log) + 1) /\ Len(log') = Len(log) + 1 /\ pointer' = pointer
    BY <1>2, <1>10, <2>2 DEF Commits, Land, PutEdit
  <2>4. <<g, s>> \notin DOMAIN at
    BY <1>1, <2>1, <2>2, Zenon DEF Inv, CatalogInv
  <2>5. /\ DOMAIN at' = DOMAIN at \cup {<<g, s>>} /\ at'[<<g, s>>] = Len(log) + 1
        /\ \A a \in DOMAIN at : at'[a] = at[a]
    BY <2>3, <2>4, Zenon DEF With
  <2>6. ASSUME NEW b \in DOMAIN at PROVE ~Before(<<g, s>>, b)
    <3>1. SUFFICES ASSUME b[1] = g, s <= b[2] PROVE FALSE
      BY <1>4, <2>2 DEF Before
    <3>2. s \in 0..b[2]
      BY <1>4, <2>2, <3>1
    <3> QED BY <1>1, <2>2, <2>4, <3>1, <3>2, Zenon DEF Chain
  <2>7. \A a, b \in DOMAIN at' : Before(a, b) => at'[a] <= at'[b]
    <3>1. SUFFICES ASSUME NEW a \in DOMAIN at', NEW b \in DOMAIN at', Before(a, b) PROVE at'[a] <= at'[b]
      BY Zenon
    <3>2. CASE a \in DOMAIN at /\ b \in DOMAIN at
      BY <2>5, <3>1, <3>2, Zenon DEF Linear
    <3>3. CASE a = <<g, s>> /\ b \in DOMAIN at
      BY <2>6, <3>1, <3>3, Zenon
    <3>4. CASE b = <<g, s>> /\ a \in DOMAIN at
      BY <1>2, <1>4, <2>5, <3>4
    <3>5. CASE a = <<g, s>> /\ b = <<g, s>>
      BY <1>2, <2>5, <3>5
    <3> QED BY <2>5, <3>2, <3>3, <3>4, <3>5, Zenon
  <2>8. \A a \in DOMAIN at' : IsTop(a)' => at'[a] = Len(log')
    BY <1>1, <1>10, <2>2, <2>3, <2>5, CommitTop, Zenon
  <2>9. pc'[w] \in Rolling \cup {"collect"} => Standing(w)' = Len(log')
    <3>1. SUFFICES ASSUME pc'[w] # "idle" PROVE Standing(w)' = Len(log')
      BY Zenon DEF Rolling
    <3>2. seq'[w] = s + 1
      BY <1>10, <2>2, <3>1, Zenon DEF Commits
    <3>3. seq'[w] - 1 = s /\ entry'[w].gen = g
      BY <2>1, <2>2, <3>2
    <3> QED BY <2>3, <2>5, <3>3, Zenon DEF Standing
  <2>10. pc'[w] \notin {"ambiguous", "installed"}
    BY <1>10, Zenon DEF Commits
  <2> QED BY <1>3, <2>7, <2>8, <2>9, <2>10, Zenon DEF Linear, Before
<1>11. CASE Switches(w)
  <2>1. pointer = entry[w] /\ pointer.gen < target[w].gen /\ pc[w] = "cas"
    BY <1>1, <1>11, WriterInRoll, Zenon DEF Switches
  <2>2. PICK t \in Nat : t = target[w].gen /\ pointer.gen < t
    BY <1>2, <2>1, Zenon
  <2>3. pointer'.gen = t /\ entry'[w] = entry[w] /\ seq'[w] = seq[w]
    BY <1>11, <2>2, Zenon DEF Switches, MovePointer, SetPointer
  <2>4. <<t, 0>> \notin DOMAIN at
    <3>1. <<t, 0>>[1] = t
      BY Zenon
    <3> QED BY <1>2, <1>4, <2>2, <3>1
  <2>5. /\ at' = With(at, <<t, 0>>, Len(log')) /\ Len(log') \in Nat /\ Len(log') >= Len(log)
        /\ entry[w] # Nowhere => Len(log') = Len(log)
    <3>1. CASE entry[w] = Nowhere
      BY <1>2, <1>11, <2>2, <3>1 DEF Switches, MovePointer
    <3>2. CASE entry[w] # Nowhere
      BY <1>2, <1>11, <2>1, <2>2, <3>2 DEF Switches, MovePointer, Linear, Rolling
    <3> QED BY <3>1, <3>2, Zenon
  <2>6. /\ DOMAIN at' = DOMAIN at \cup {<<t, 0>>} /\ at'[<<t, 0>>] = Len(log')
        /\ \A a \in DOMAIN at : at'[a] = at[a]
    BY <2>4, <2>5, Zenon DEF With
  <2>7. \A a, b \in DOMAIN at' : Before(a, b) => at'[a] <= at'[b]
    <3>1. SUFFICES ASSUME NEW a \in DOMAIN at', NEW b \in DOMAIN at', Before(a, b) PROVE at'[a] <= at'[b]
      BY Zenon
    <3>2. CASE a \in DOMAIN at /\ b \in DOMAIN at
      BY <2>6, <3>1, <3>2, Zenon DEF Linear
    <3>3. CASE a = <<t, 0>> /\ b \in DOMAIN at
      <4>1. b[1] < t /\ b[1] \in Nat /\ a[1] = t
        BY <1>2, <1>4, <2>2, <3>3
      <4> QED BY <3>1, <4>1 DEF Before
    <3>4. CASE b = <<t, 0>> /\ a \in DOMAIN at
      <4>1. at[a] \in Nat /\ at[a] <= Len(log)
        BY <1>2, <1>4, <3>4
      <4>2. at'[a] = at[a] /\ at'[b] = Len(log')
        BY <2>6, <3>4, Zenon
      <4> QED BY <1>2, <2>5, <4>1, <4>2
    <3>5. CASE a = <<t, 0>> /\ b = <<t, 0>>
      BY <2>5, <2>6, <3>5
    <3> QED BY <2>6, <3>2, <3>3, <3>4, <3>5, Zenon
  <2>8. \A a \in DOMAIN at' : IsTop(a)' => at'[a] = Len(log')
    <3>1. ASSUME NEW a \in DOMAIN at PROVE a[1] # t
      BY <1>2, <1>4, <2>2
    <3> QED BY <2>3, <2>6, <3>1, Zenon DEF IsTop
  <2>9. entry'[w] # Nowhere => Standing(w)' = Len(log')
    <3>1. SUFFICES ASSUME entry[w] # Nowhere PROVE Standing(w)' = Len(log')
      BY <2>3, Zenon
    <3>2. <<entry[w].gen, seq[w] - 1>> \in DOMAIN at
      BY <1>1, <3>1, Zenon DEF Inv, ProcInv, ServingInv
    <3>3. Standing(w)' = Standing(w)
      BY <2>3, <2>6, <3>2 DEF Standing
    <3> QED BY <2>1, <2>5, <3>1, <3>3, Zenon DEF Linear, Rolling
  <2>10. at'[<<pointer'.gen, 0>>] = Len(log')
    BY <2>3, <2>6, Zenon
  <2> QED BY <1>3, <2>7, <2>8, <2>9, <2>10, Zenon DEF Linear, Before
<1> QED BY <1>1, <1>6, <1>7, <1>8, <1>9, <1>10, <1>11, StepKinds, Zenon

-----------------------------------------------------------------------------
(* Every step is a step of VersionHistory, or none. *)

\* what a process shows of the history
ViewOf(p) == IF entry[p] = Nowhere THEN 0 ELSE Standing(p)
Views == [p \in Procs |-> ViewOf(p)]

\* A process that keeps its entry and its sequence number keeps its view.
LEMMA ViewStays ==
  ASSUME NEW p \in Procs, Inv, Grows, entry'[p] = entry[p], seq'[p] = seq[p] PROVE ViewOf(p)' = ViewOf(p)
<1>1. entry[p] # Nowhere => <<entry[p].gen, seq[p] - 1>> \in DOMAIN at
  BY Zenon DEF Inv, ProcInv, ServingInv
<1> QED BY <1>1, Zenon DEF ViewOf, Standing, Grows

\* One process moves, the views of the others stay.
LEMMA OneViewMoves ==
  ASSUME NEW p \in Procs, Inv, Grows, \A q \in Procs \ {p} : Same(q)
  PROVE  Views' = [Views EXCEPT ![p] = ViewOf(p)']
<1>1. \A q \in Procs \ {p} : ViewOf(q)' = ViewOf(q)
  BY ViewStays, Zenon DEF Same
<1> QED BY <1>1, Zenon DEF Views

\* A reader that moves goes to a version at or after the one it served, or stops.
LEMMA ReaderViews ==
  ASSUME NEW w, Writers = {w}, NEW r \in Readers, Inv, Linear(w), Grows, Recover(r) \/ Read(r) \/ Crash(r)
  PROVE  \/ ViewOf(r)' = ViewOf(r)
         \/ ViewOf(r)' = 0
         \/ ViewOf(r)' \in 1..Len(log) /\ ViewOf(r)' >= ViewOf(r)
<1>1. r \in Procs /\ Len(log) \in Nat
  BY DEF Procs, Inv, TypeOK
<1>2. ProcTypes
  BY InvTypes, Zenon
<1>3. CASE UNCHANGED <<entry, seq>>
  BY <1>1, <1>3, ViewStays, Zenon
<1>4. CASE entry' = [entry EXCEPT ![r] = Nowhere]
  BY <1>1, <1>2, <1>4, Zenon DEF ViewOf, ProcTypes
<1>5. CASE Confirm(r) /\ ~UNCHANGED <<entry, seq>>
  <2>1. /\ entry'[r] = load[r].entry /\ seq'[r] = load[r].seq /\ pc[r] = "confirm"
        /\ ~(/\ entry[r] # Nowhere
             /\ \/ load[r].entry.gen < entry[r].gen
                \/ load[r].entry.gen = entry[r].gen /\ load[r].seq < seq[r])
    <3>1. /\ entry' = [entry EXCEPT ![r] = load[r].entry] /\ seq' = [seq EXCEPT ![r] = load[r].seq] /\ pc[r] = "confirm"
          /\ ~(/\ entry[r] # Nowhere
               /\ \/ load[r].entry.gen < entry[r].gen
                  \/ load[r].entry.gen = entry[r].gen /\ load[r].seq < seq[r])
      BY <1>5, Zenon DEF Confirm
    <3> QED BY <1>1, <1>2, <3>1, Zenon DEF ProcTypes
  <2>2. /\ load[r].entry.gen \in Nat /\ load[r].seq \in Nat \ {0} /\ entry[r].gen \in Nat /\ seq[r] \in Nat \ {0}
    BY <1>1, <1>2, Zenon DEF ProcTypes, Attempt, Entry
  <2>3. PICK b : b = <<load[r].entry.gen, load[r].seq - 1>> /\ b \in DOMAIN at /\ load[r].entry.gen # 0
    BY <1>1, <2>1, Zenon DEF Inv, ProcInv, ReplayInv, Replaying
  <2>4. at[b] \in 1..Len(log) /\ at'[b] = at[b]
    BY <2>3, LiveAddress, Zenon DEF Grows
  <2>5. ViewOf(r)' = at[b]
    BY <2>1, <2>3, <2>4, NoEntryYet, Zenon DEF ViewOf, Standing
  <2>6. CASE entry[r] = Nowhere
    BY <2>4, <2>5, <2>6 DEF ViewOf
  <2>7. CASE entry[r] # Nowhere
    <3>1. PICK a : a = <<entry[r].gen, seq[r] - 1>> /\ a \in DOMAIN at
      BY <1>1, <2>7, Zenon DEF Inv, ProcInv, ServingInv
    <3>2. Before(a, b)
      BY <2>1, <2>2, <2>3, <2>7, <3>1 DEF Before
    <3>3. at[a] <= at[b] /\ at[a] \in Nat
      BY <2>3, <3>1, <3>2, LiveAddress DEF Linear
    <3>4. ViewOf(r) = at[a]
      BY <2>7, <3>1, Zenon DEF ViewOf, Standing
    <3> QED BY <1>1, <2>4, <2>5, <3>3, <3>4, Zenon
  <2> QED BY <2>6, <2>7, Zenon
<1>6. Confirm(r) \/ UNCHANGED <<entry, seq>> \/ entry' = [entry EXCEPT ![r] = Nowhere]
  <2>1. CASE Recover(r)
    BY <2>1, Zenon DEF Recover, Open, Refresh, ReadPointer, GetSnapshot, ListEditsOf, GetEdit, Reread,
       RecoverIo, VerifyStores, ObserveAfterCreate, RecoverFrame, Forget, instanceVars
  <2>2. CASE Read(r) \/ Crash(r)
    BY <2>2, Zenon DEF Read, Pin, Unpin, ReadMissing, AdvancedPointer, AdvancedList, AnswerStale, Crash, Forget,
       instanceVars
  <2> QED BY <2>1, <2>2, Zenon
<1> QED BY <1>3, <1>4, <1>5, <1>6, Zenon

\* A step of the writer as a step of the history.
WriterShows(w) ==
    \/ UNCHANGED <<log, acked>> /\ ViewOf(w)' \in {ViewOf(w), 0}
    \/ /\ ViewOf(w) = Len(log) /\ ViewOf(w)' \in {ViewOf(w), Len(log) + 1} /\ UNCHANGED acked
       /\ \E v \in SUBSET (1..MaxFile) : log' = Append(log, v)
    \/ ViewOf(w) = 0 /\ log # <<>> /\ ViewOf(w)' = Len(log) /\ UNCHANGED <<log, acked>>
    \/ ViewOf(w) # 0 /\ acked' = ViewOf(w) /\ ViewOf(w)' = ViewOf(w) /\ UNCHANGED log

LEMMA WriterViews ==
  ASSUME NEW w, Writers = {w}, ~UnreadableIsEmpty, ~RereadFails, SoleWriterInv(w), Linear(w), Grows, [Next]_vars
  PROVE  WriterShows(w)
<1>1. Inv /\ Control(w) /\ Chain /\ w \in Procs /\ Files(w) /\ Listing(w)
  BY OneWriter, Zenon DEF SoleWriterInv
<1>2. /\ pointer \in Entry /\ entry[w].gen \in Nat /\ pointer.gen \in Nat /\ target[w].gen \in Nat
      /\ seq[w] \in Nat \ {0} /\ log \in Seq(SUBSET Nat) /\ Len(log) \in Nat
  BY <1>1, Numeric, Zenon
<1>3. ASSUME UNCHANGED <<log, acked>>, entry'[w] = entry[w], seq'[w] = seq[w] PROVE WriterShows(w)
  BY <1>1, <1>3, ViewStays, Zenon DEF WriterShows
<1>4. CASE Elsewhere(w) \/ Quietly(w) \/ Verifies(w)
  BY <1>3, <1>4, Zenon DEF Elsewhere, Same, Quietly, Verifies
<1>5. CASE Stops(w)
  BY <1>5, Zenon DEF Stops, WriterShows, ViewOf
<1>6. CASE Adopts(w)
  <2>1. /\ <<pointer.gen, load[w].seq - 1>> \in DOMAIN at /\ <<pointer.gen, load[w].seq>> \notin DOMAIN at
        /\ load[w].seq \in Nat \ {0}
    BY <1>1, <1>6, ReplayedToTop, Zenon DEF Adopts
  <2>2. PICK a : a = <<pointer.gen, load[w].seq - 1>> /\ a \in DOMAIN at
    BY <2>1, Zenon
  <2>3. a[1] = pointer.gen /\ <<a[1], a[2] + 1>> = <<pointer.gen, load[w].seq>>
    BY <2>1, <2>2
  <2>4. at[a] = Len(log) /\ at[a] \in 1..Len(log)
    BY <1>1, <2>1, <2>2, <2>3, LiveAddress, Zenon DEF Linear, IsTop
  <2>5. pointer # Nowhere /\ log # <<>>
    BY <1>1, <2>2, <2>4 DEF Chain
  <2>6. entry[w] = Nowhere /\ entry'[w] = pointer /\ seq'[w] = load[w].seq /\ UNCHANGED <<at, log, acked>>
    BY <1>6, Zenon DEF Adopts
  <2> QED BY <2>2, <2>4, <2>5, <2>6, Zenon DEF WriterShows, ViewOf, Standing
<1>7. ASSUME NEW e \in EditsOf(w), Commits(w, e) PROVE WriterShows(w)
  <2>1. /\ pointer = entry[w] /\ entry[w] # Nowhere /\ <<pointer.gen, seq[w]>> \notin DOMAIN edits
        /\ <<pointer.gen, seq[w] - 1>> \in DOMAIN at /\ entry'[w] = entry[w]
    BY <1>1, <1>7, WriterAtHome, Zenon DEF Commits
  <2>2. <<pointer.gen, seq[w]>> \notin DOMAIN at
    BY <1>1, <1>2, <2>1, Zenon DEF Inv, CatalogInv
  <2>3. PICK a : a = <<pointer.gen, seq[w] - 1>> /\ a \in DOMAIN at
    BY <2>1, Zenon
  <2>4. a[1] = pointer.gen /\ <<a[1], a[2] + 1>> = <<pointer.gen, seq[w]>>
    BY <1>2, <2>3
  <2>5. ViewOf(w) = Len(log)
    BY <2>1, <2>2, <2>3, <2>4, Zenon DEF Linear, IsTop, ViewOf, Standing
  <2>6. log' = Append(log, ApplyEdit(version[w], e)) /\ at'[<<entry[w].gen, seq[w]>>] = Len(log) + 1 /\ acked' = acked
    BY <1>7, Zenon DEF Commits, Land, With
  <2>7. ApplyEdit(version[w], e) \in SUBSET (1..MaxFile)
    <3>1. e.added \subseteq written[w] \cup version[w]
      BY <1>1, EditFiles, Zenon
    <3>2. objects \subseteq 1..MaxFile
      BY <1>1, Zenon DEF Inv, TypeOK
    <3>3. version[w] \subseteq objects /\ written[w] \subseteq objects
      BY <1>1, Zenon DEF Files
    <3> QED BY <3>1, <3>2, <3>3, Zenon DEF ApplyEdit
  <2>8. CASE seq'[w] = seq[w]
    BY <1>1, <2>1, <2>5, <2>6, <2>7, <2>8, ViewStays, Zenon DEF WriterShows
  <2>9. CASE seq'[w] = seq[w] + 1
    <3>1. seq'[w] - 1 = seq[w]
      BY <1>2, <2>9
    <3>2. ViewOf(w)' = Len(log) + 1
      BY <2>1, <2>6, <3>1, Zenon DEF ViewOf, Standing
    <3> QED BY <2>5, <2>6, <2>7, <3>2, Zenon DEF WriterShows
  <2> QED BY <1>7, <2>8, <2>9, Zenon DEF Commits
<1>8. CASE Switches(w)
  <2>1. /\ pointer = entry[w] /\ entry'[w] = entry[w] /\ seq'[w] = seq[w] /\ acked' = acked
        /\ IF entry[w] = Nowhere THEN log' = Append(log, {}) ELSE log' = log
    BY <1>1, <1>8, WriterInRoll, Zenon DEF Switches, MovePointer
  <2>2. CASE entry[w] # Nowhere
    BY <1>3, <2>1, <2>2, Zenon
  <2>3. CASE entry[w] = Nowhere
    <3>1. log = <<>>
      BY <1>1, <2>1, <2>3, Zenon DEF Chain
    <3>2. ViewOf(w) = Len(log) /\ ViewOf(w)' = ViewOf(w)
      BY <2>1, <2>3, <3>1, Zenon DEF ViewOf
    <3>3. {} \in SUBSET (1..MaxFile) /\ log' = Append(log, {})
      BY <2>1, <2>3, Zenon
    <3> QED BY <2>1, <3>2, <3>3, Zenon DEF WriterShows
  <2> QED BY <2>2, <2>3, Zenon
<1>9. CASE Installs(w)
  <2>1. pc[w] = "installed" /\ pointer = NextEntry(w) /\ UNCHANGED <<pointer, log, at, acked>>
    BY <1>1, <1>9, Zenon DEF Installs, Control
  <2>2. pointer.gen = target[w].gen /\ entry[w].gen < target[w].gen /\ <<target[w].gen, 0>> \in DOMAIN at
    BY <1>1, <2>1, Zenon DEF NextEntry, Inv, ProcInv, RollInv, Rolling
  <2>3. pointer # entry[w]
    BY <1>2, <2>2
  <2>4. at[<<pointer.gen, 0>>] = Len(log) /\ Len(log) \in 1..Len(log)
    BY <1>1, <2>1, <2>2, <2>3, LiveAddress, Zenon DEF Linear
  <2>5. entry'[w].gen = pointer.gen /\ seq'[w] - 1 = 0 /\ entry'[w].gen # 0
    BY <1>2, <1>9, <2>2 DEF Installs, NextEntry
  <2>6. ViewOf(w)' = Len(log)
    BY <2>1, <2>4, <2>5, NoEntryYet, Zenon DEF ViewOf, Standing
  <2>7. CASE entry[w] = Nowhere
    <3>1. log # <<>>
      BY <2>4
    <3> QED BY <2>1, <2>6, <2>7, <3>1, Zenon DEF WriterShows, ViewOf
  <2>8. CASE entry[w] # Nowhere
    BY <2>1, <2>6, <2>8, Zenon DEF WriterShows, ViewOf, Linear, Rolling
  <2> QED BY <2>7, <2>8, Zenon
<1>10. CASE Collects(w)
  <2>1. /\ entry[w] # Nowhere /\ entry'[w] = entry[w] /\ seq'[w] = seq[w] /\ UNCHANGED log
        /\ acked' \in {acked, Standing(w)} /\ <<entry[w].gen, seq[w] - 1>> \in DOMAIN at
    BY <1>1, <1>10, WriterAtHome, Zenon DEF Collects
  <2>2. ViewOf(w) = Standing(w) /\ Standing(w) # 0 /\ ViewOf(w)' = ViewOf(w)
    <3>1. at[<<entry[w].gen, seq[w] - 1>>] \in 1..Len(log)
      BY <1>1, <2>1, LiveAddress, Zenon
    <3> QED BY <1>1, <2>1, <3>1, ViewStays DEF ViewOf, Standing
  <2> QED BY <2>1, <2>2, Zenon DEF WriterShows
<1> QED BY <1>1, <1>4, <1>5, <1>6, <1>7, <1>8, <1>9, <1>10, StepKinds, Zenon

LEMMA AbstractStep ==
  ASSUME NEW w, Writers = {w}, ~UnreadableIsEmpty, ~RereadFails, SoleWriterInv(w), Linear(w), [Next]_vars
  PROVE  [Abstract!Next]_(Abstract!vars)
<1>1. Inv /\ Control(w) /\ Chain /\ Readers \subseteq Procs /\ Writers \subseteq Procs /\ w \in Procs
  BY OneWriter, Zenon DEF SoleWriterInv, Procs
<1>2. Grows
  BY <1>1, ManifestGrows, Zenon
<1>3. Views = [p \in Procs |-> IF entry[p] = Nowhere THEN 0 ELSE Standing(p)]
  BY Zenon DEF Views, ViewOf
<1>4. ASSUME UNCHANGED <<log, acked>>, Views' = Views PROVE UNCHANGED Abstract!vars
  BY <1>3, <1>4, Zenon DEF Abstract!vars, Views, ViewOf
<1>5. ASSUME NEW p \in Procs, UNCHANGED <<log, acked>>, Views' = [Views EXCEPT ![p] = 0] PROVE Abstract!Next
  <2>1. Abstract!Close(p)
    BY <1>5, Zenon DEF Abstract!Close, Views, ViewOf
  <2> QED BY <1>5, <2>1, Zenon DEF Abstract!Next, Abstract!Procs, Procs
<1>6. CASE Tick \/ UNCHANGED vars
  <2>1. UNCHANGED <<log, acked, entry, seq>>
    BY <1>6, Zenon DEF Tick, vars, instanceVars, historyVars
  <2>2. Views' = Views
    BY <1>1, <1>2, <2>1, ViewStays, Zenon DEF Views
  <2> QED BY <1>4, <2>1, <2>2, Zenon
<1>7. ASSUME NEW r \in Readers, Recover(r) \/ Read(r) \/ Crash(r) PROVE [Abstract!Next]_(Abstract!vars)
  <2>1. UNCHANGED <<log, acked>>
    BY <1>1, <1>7, ReaderElsewhere, Zenon DEF Elsewhere
  <2>2. Views' = [Views EXCEPT ![r] = ViewOf(r)']
    BY <1>1, <1>2, <1>7, OthersStay, RecoverMoves, OneViewMoves, Zenon
  <2>3. CASE ViewOf(r)' = ViewOf(r)
    BY <1>1, <1>4, <2>1, <2>2, <2>3, Zenon DEF Views
  <2>4. CASE ViewOf(r)' = 0
    BY <1>1, <1>5, <2>1, <2>2, <2>4, Zenon
  <2>5. CASE ViewOf(r)' \in 1..Len(log) /\ ViewOf(r)' >= ViewOf(r)
    <3>1. PICK n \in 1..Len(log) : n >= ViewOf(r) /\ Views' = [Views EXCEPT ![r] = n]
      BY <2>2, <2>5, Zenon
    <3>2. Abstract!Observe(r)
      BY <1>1, <2>1, <3>1, Zenon DEF Abstract!Observe, Views, ViewOf
    <3> QED BY <3>2, Zenon DEF Abstract!Next
  <2> QED BY <1>1, <1>2, <1>7, <2>3, <2>4, <2>5, ReaderViews, Zenon
<1>8. CASE WriterSteps(w)
  <2>1. Views' = [Views EXCEPT ![w] = ViewOf(w)']
    BY <1>1, <1>2, <1>8, OthersStay, WriterMoves, OneViewMoves, Zenon
  <2>2. Views[w] = ViewOf(w)
    BY <1>1, Zenon DEF Views
  <2>3. CASE UNCHANGED <<log, acked>> /\ ViewOf(w)' \in {ViewOf(w), 0}
    BY <1>1, <1>4, <1>5, <2>1, <2>3, Zenon DEF Views
  <2>4. CASE /\ ViewOf(w) = Len(log) /\ ViewOf(w)' \in {ViewOf(w), Len(log) + 1} /\ UNCHANGED acked
             /\ \E v \in SUBSET (1..MaxFile) : log' = Append(log, v)
    <3>1. Views' \in {Views, [Views EXCEPT ![w] = Len(log) + 1]}
      BY <1>1, <2>1, <2>4, Zenon DEF Views
    <3>2. Abstract!Commit(w)
      BY <1>1, <2>2, <2>4, <3>1, Zenon DEF Abstract!Commit, Views, ViewOf
    <3> QED BY <3>2, Zenon DEF Abstract!Next
  <2>5. CASE ViewOf(w) = 0 /\ log # <<>> /\ ViewOf(w)' = Len(log) /\ UNCHANGED <<log, acked>>
    <3>1. Abstract!OpenNewest(w)
      BY <1>1, <2>1, <2>2, <2>5, Zenon DEF Abstract!OpenNewest, Views, ViewOf
    <3> QED BY <3>1, Zenon DEF Abstract!Next
  <2>6. CASE ViewOf(w) # 0 /\ acked' = ViewOf(w) /\ ViewOf(w)' = ViewOf(w) /\ UNCHANGED log
    <3>1. Views' = Views
      BY <1>1, <2>1, <2>6, Zenon DEF Views
    <3>2. Abstract!Acknowledge(w)
      BY <1>1, <2>2, <2>6, <3>1, Zenon DEF Abstract!Acknowledge, Views, ViewOf
    <3> QED BY <3>2, Zenon DEF Abstract!Next
  <2> QED BY <1>2, <2>3, <2>4, <2>5, <2>6, WriterViews, Zenon DEF WriterShows
<1> QED BY <1>1, <1>6, <1>7, <1>8, WhoSteps, Zenon

\* With one writer that is not rotating keys, everything recover, apply, refresh,
\* write_snapshot_and_install and a crash between any two of their round trips do
\* is a step of VersionHistory: commits extend the newest version, an open finds
\* it, readers only move forward, and an acknowledgement names what is durable.
THEOREM ManifestIsAHistory ==
  ASSUME NEW w, Writers = {w}, ~UnreadableIsEmpty, ~RereadFails, ~Rotating
  PROVE  Spec => RefinesVersionHistory
<1>1. Init => SoleWriterInv(w) /\ Linear(w)
  <2>1. SUFFICES ASSUME Init PROVE Linear(w)
    BY SoleWriterInit, Zenon
  <2>2. w \in Procs /\ DOMAIN at = {} /\ pc[w] = "down" /\ ~reseal[w]
    BY <2>1, OneWriter, Zenon DEF Init, EmptyFunction
  <2> QED BY <2>2, Zenon DEF Linear, Rolling
<1>2. SoleWriterInv(w) /\ Linear(w) /\ [Next]_vars => SoleWriterInv(w)' /\ Linear(w)'
  BY SoleWriterNext, LinearNext, Zenon
<1>3. Init => Abstract!Init
  BY Zenon DEF Init, Abstract!Init, Abstract!Procs, Procs
<1>4. SoleWriterInv(w) /\ Linear(w) /\ [Next]_vars => [Abstract!Next]_(Abstract!vars)
  BY AbstractStep, Zenon
<1> QED BY <1>1, <1>2, <1>3, <1>4, PTL DEF Spec, RefinesVersionHistory, Abstract!Spec

=============================================================================
