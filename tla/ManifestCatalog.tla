--------------------------- MODULE ManifestCatalog ---------------------------
(***************************************************************************)
(* The ManifestCatalog seam as DiskManifestCatalog implements it: snapshot *)
(* and edit objects that are written once, listings, deletion of a whole   *)
(* generation, and one pointer (CURRENT) that moves by compare-and-set.    *)
(* A payload is abstracted to the file numbers it adds, removes or lists   *)
(* and the file-number counter it carries; a torn one does not decode.     *)
(***************************************************************************)
EXTENDS Integers, Sequences, FiniteSets

VARIABLES
    pointer,     \* CURRENT: live generation and token; Nowhere before the first
    snapshots,   \* generation -> the snapshot object at that address
    edits        \* <<generation, seq>> -> the edit object at that address

catalogVars == <<pointer, snapshots, edits>>

Nowhere == [gen |-> 0, token |-> 0]
EmptyFunction == [x \in {} |-> 0]

Entry == [gen : Nat, token : Nat]
Edit == [added : SUBSET Nat, deleted : SUBSET Nat, next : Nat \ {0}, torn : BOOLEAN]
Snapshot == [files : SUBSET Nat, next : Nat \ {0}, torn : BOOLEAN]

\* f with v at a, and f without the addresses in A
With(f, a, v) == [x \in DOMAIN f \cup {a} |-> IF x = a THEN v ELSE f[x]]
Without(f, A) == [x \in DOMAIN f \ A |-> f[x]]

\* the write-once check of write_object: EEXIST comes back as Config
OccupiedNever(f, a) == FALSE
Occupied(f, a) == a \in DOMAIN f

PutEdit(g, s, e) == edits' = With(edits, <<g, s>>, e) /\ UNCHANGED <<pointer, snapshots>>
PutSnapshotAt(g, s) == snapshots' = With(snapshots, g, s) /\ UNCHANGED <<pointer, edits>>

\* a crash between the exclusive create and the last byte of write_object
TornEdit == [added |-> {}, deleted |-> {}, next |-> 1, torn |-> TRUE]
TornSnapshot == [files |-> {}, next |-> 1, torn |-> TRUE]

\* list_edits: a generation that has no directory has no edits
ListEdits(g) == {a[2] : a \in {x \in DOMAIN edits : x[1] = g}}

\* list_generations: every generation with a directory
ListGenerations == DOMAIN snapshots \cup {a[1] : a \in DOMAIN edits}

\* compare_and_set moves the pointer only from the entry the caller last saw
ExpectedAnything(e) == TRUE
Expected(e) == pointer = e
SetPointer(g) ==
    /\ pointer' = [gen |-> g, token |-> pointer.token + 1]
    /\ UNCHANGED <<snapshots, edits>>

DeleteGeneration(g) ==
    /\ snapshots' = Without(snapshots, {g})
    /\ edits' = Without(edits, {a \in DOMAIN edits : a[1] = g})
    /\ UNCHANGED pointer

\* delete_generation failed part of the way through the directory
DeletePartOf(g) ==
    /\ snapshots' \in {snapshots, Without(snapshots, {g})}
    /\ \E A \in SUBSET {a \in DOMAIN edits : a[1] = g} : edits' = Without(edits, A)
    /\ UNCHANGED pointer

\* Version::apply on file numbers: removals first, additions second
ApplyEdit(v, e) == (v \ e.deleted) \cup e.added

=============================================================================
