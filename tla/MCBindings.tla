------------------------------ MODULE MCBindings ------------------------------
(***************************************************************************)
(* The stores of the Java bindings, one of them at a time: the partitioned  *)
(* store of bindings/java, or a window, session or versioned store of the   *)
(* Kafka Streams adapter.  They share nothing but the engine under them.    *)
(***************************************************************************)
EXTENDS PartitionedStore, SegmentedStores, VersionedStore, TLC

CONSTANT Kinds

\* Fold threads and store keys differ in nothing but their name.
Symmetry == Permutations(Threads) \cup Permutations(Keys)

\* A key, and one that extends it by a low byte.
Nested == {<<1>>, <<1, 0>>}

BindingsInit ==
    /\ kind \in Kinds
    /\ Init
    /\ EngineInit

BindingsNext ==
    \/ /\ kind = "partitioned"
       /\ Next
       /\ UNCHANGED engineVars
    \/ /\ kind \in {"window", "session", "versioned"}
       /\ Around
       /\ UNCHANGED vars
    \/ /\ kind \in {"window", "session"}
       /\ SegmentedNext
       /\ UNCHANGED vars
    \/ /\ kind = "versioned"
       /\ VersionedNext
       /\ UNCHANGED vars

BindingsSpec == BindingsInit /\ [][BindingsNext]_<<vars, engineVars>>

=============================================================================
