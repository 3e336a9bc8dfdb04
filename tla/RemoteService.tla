---------------------------- MODULE RemoteService ----------------------------
(***************************************************************************)
(* DynamoDB or S3 as the catalogs and the blob store over them use it:     *)
(* items at addresses, a write that is refused when its address is taken,  *)
(* and one pointer that moves by compare-and-set.  Every call may fail     *)
(* after its effect, without it, or (a write that timed out) with an       *)
(* effect that is still to come.  Reads are consistent.                    *)
(***************************************************************************)
EXTENDS Integers, FiniteSets

CONSTANTS
    Instances,   \* processes, each with one catalog or store object
    Options,     \* the setups a behaviour may have
    MaxFaults    \* bound: calls that fail

ASSUME RemoteAssumption == Instances \subseteq Nat \ {0} /\ MaxFaults \in Nat

VARIABLES
    options,     \* this behaviour's setup
    table,       \* address -> [id, round, total]: who wrote it and in how many chunks
    pointer,     \* the POINTER item, or the CURRENT object
    late,        \* conditional writes that timed out and may still be carried out
    faults

serviceVars == <<options, table, pointer, late, faults>>

\* fresh_id, fresh_write_id: the nth of an instance; no two ids are equal
NoId == <<0, 0>>
Address(kind, g, s, attempt, chunk) ==
    [kind |-> kind, gen |-> g, seq |-> s, attempt |-> attempt, chunk |-> chunk]

With(f, a, v) == [x \in DOMAIN f \cup {a} |-> IF x = a THEN v ELSE f[x]]
Without(f, A) == [x \in DOMAIN f \ A |-> f[x]]

Fault == faults < MaxFaults /\ faults' = faults + 1
NoFault == UNCHANGED faults

\* the table and the pointer after a conditional write w has been carried out
Put(w) == IF w.at \in DOMAIN table THEN table ELSE With(table, w.at, w.item)
Swap(w) == IF pointer.token = w.expected THEN w.entry ELSE pointer

\* a conditional write: an answer, or a failure that says nothing of its effect
ConditionalPut(w, answer) ==
    /\ \/ /\ answer = IF w.at \in DOMAIN table THEN "Taken" ELSE "Ok"
          /\ table' = Put(w) /\ NoFault /\ UNCHANGED late
       \/ /\ answer = "Io" /\ Fault
          /\ \/ /\ table' \in {table, Put(w)} /\ UNCHANGED late
             \/ /\ options.late /\ late' = late \cup {[swap |-> FALSE, write |-> w]}
                /\ UNCHANGED table
    /\ UNCHANGED <<options, pointer>>

ConditionalSwap(w, answer) ==
    /\ \/ /\ answer = IF pointer.token = w.expected THEN "Ok" ELSE "Taken"
          /\ pointer' = Swap(w) /\ NoFault /\ UNCHANGED late
       \/ /\ answer = "Io" /\ Fault
          /\ \/ /\ pointer' \in {pointer, Swap(w)} /\ UNCHANGED late
             \/ /\ options.late /\ late' = late \cup {[swap |-> TRUE, write |-> w]}
                /\ UNCHANGED pointer
    /\ UNCHANGED <<options, table>>

\* a read: what it looked at, or a failure
Looked(answer) ==
    /\ \/ answer = "Ok" /\ NoFault
       \/ answer = "Io" /\ Fault
    /\ UNCHANGED <<options, table, pointer, late>>

\* the deletion of A item by item: all of it, or a failure part of the way
Deleted(A, answer) ==
    /\ \/ answer = "Ok" /\ table' = Without(table, A) /\ NoFault
       \/ /\ answer = "Io" /\ Fault
          /\ \E B \in SUBSET A : table' = Without(table, B)
    /\ UNCHANGED <<options, pointer, late>>

\* a write that timed out reaches the service after all
LateArrives ==
    \E r \in late :
       /\ late' = late \ {r}
       /\ IF r.swap THEN pointer' = Swap(r.write) /\ UNCHANGED table
          ELSE table' = Put(r.write) /\ UNCHANGED pointer
       /\ UNCHANGED <<options, faults>>

=============================================================================
