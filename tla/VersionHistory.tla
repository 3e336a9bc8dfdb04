--------------------------- MODULE VersionHistory ---------------------------
(***************************************************************************)
(* What the manifest promises: one growing history of versions.  A writer  *)
(* extends the newest version only; opening it shows the newest version,   *)
(* so nothing acknowledged is lost and nothing in doubt is dropped         *)
(* silently; a reader sees some version of the history and only moves      *)
(* forward.                                                                *)
(***************************************************************************)
EXTENDS Naturals, Sequences

CONSTANTS Writers, Readers, Versions

VARIABLES
    history,    \* every version made durable, oldest first
    view,       \* the version each process serves, 0 while it serves none
    acked       \* the newest version whose commit was acknowledged

Procs == Writers \cup Readers
vars == <<history, view, acked>>

Init ==
    /\ history = <<>>
    /\ view = [p \in Procs |-> 0]
    /\ acked = 0

\* the committer either learns that its version is durable or is left in doubt
Commit(w) ==
    /\ view[w] = Len(history)
    /\ \E v \in Versions : history' = Append(history, v)
    /\ view' \in {view, [view EXCEPT ![w] = Len(history) + 1]}
    /\ UNCHANGED acked

Acknowledge(w) ==
    /\ view[w] # 0
    /\ acked' = view[w]
    /\ UNCHANGED <<history, view>>

OpenNewest(w) ==
    /\ view[w] = 0 /\ history # <<>>
    /\ view' = [view EXCEPT ![w] = Len(history)]
    /\ UNCHANGED <<history, acked>>

Observe(r) ==
    /\ \E n \in 1..Len(history) : n >= view[r] /\ view' = [view EXCEPT ![r] = n]
    /\ UNCHANGED <<history, acked>>

Close(p) ==
    /\ view' = [view EXCEPT ![p] = 0]
    /\ UNCHANGED <<history, acked>>

Next ==
    \/ \E w \in Writers : Commit(w) \/ Acknowledge(w) \/ OpenNewest(w)
    \/ \E r \in Readers : Observe(r)
    \/ \E p \in Procs : Close(p)

Spec == Init /\ [][Next]_vars

=============================================================================
