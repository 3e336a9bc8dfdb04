------------------------ MODULE VersionSetInvariant -------------------------
(***************************************************************************)
(* The inductive invariant of the version set, for any number of writers   *)
(* and readers.                                                            *)
(*                                                                         *)
(* CURRENT only moves to a generation above the one it names, and only     *)
(* generations below it are deleted; so the objects of the live generation *)
(* are written once and stay, and a claim about them made when one is      *)
(* written holds for as long as the generation is live.  The invariant     *)
(* says of the catalog that the live generation replays to the history,    *)
(* and of each process what it has read of, or staged for, the live        *)
(* generation. Of generations CURRENT has left it says nothing: an         *)
(* overtaken writer may still put edits there.                             *)
(***************************************************************************)
EXTENDS VersionSet

Replaying == {"snapshot", "list", "replay", "missing", "confirm"}
Rolling == {"putSnapshot", "collided", "relist", "cas", "ambiguous", "installed"}
Staged == {"cas", "ambiguous"}
Opened == {"verify", "observe", "idle", "collect", "advanced", "advancedList"}

\* The live generation is anchored in the history and linked to it edit by edit.
CatalogInv ==
    LET g == pointer.gen IN
    /\ \A a \in DOMAIN at : a[1] <= g /\ at[a] \in 1..Len(log)
    /\ \A a \in DOMAIN edits : a[1] <= g /\ (~edits[a].torn => a \in DOMAIN at)
    /\ pointer # Nowhere =>
          /\ g # 0 /\ <<g, 0>> \in DOMAIN at
          /\ g \in DOMAIN snapshots /\ ~snapshots[g].torn
          /\ snapshots[g].files = log[at[<<g, 0>>]]
    /\ \A k \in Nat \ {0} : <<g, k>> \in DOMAIN at => <<g, k>> \in DOMAIN edits
    /\ \A k \in Nat \ {0} : WellFormed(g, k) =>
          /\ <<g, k - 1>> \in DOMAIN at
          /\ log[at[<<g, k>>]] = ApplyEdit(log[at[<<g, k - 1>>]], edits[<<g, k>>])

\* what a process serves stands in the history, and is what stands there while
\* its generation is live
ServingInv(p) ==
    /\ entry[p] # Nowhere => entry[p].gen # 0 /\ <<entry[p].gen, seq[p] - 1>> \in DOMAIN at
    /\ entry[p] = Nowhere => version[p] = {}
    /\ entry[p] # Nowhere /\ entry[p].gen = pointer.gen => version[p] = log[Standing(p)]
    /\ pc[p] \in Opened => entry[p] # Nowhere

\* so does what recover has replayed so far
ReplayInv(p) ==
    /\ pc[p] \notin Replaying => load[p].seq = 1
    /\ pc[p] \in Replaying => /\ load[p].entry.gen # 0
                              /\ <<load[p].entry.gen, load[p].seq - 1>> \in DOMAIN at
    /\ pc[p] \in {"snapshot", "list"} => load[p].seq = 1
    /\ pc[p] \in {"list", "replay", "confirm"} /\ load[p].entry.gen = pointer.gen =>
          load[p].files = log[at[<<load[p].entry.gen, load[p].seq - 1>>]]

\* the snapshot a roll has put is the version it rolls, and the pointer has
\* moved to it only if it did so for this roll
RollInv(p) ==
    /\ pc[p] \in Rolling => /\ entry[p].gen < target[p].gen
                            /\ target[p].then # "observe" => entry[p] # Nowhere
    /\ pc[p] \in Staged /\ target[p].gen > pointer.gen =>
          /\ target[p].gen \in DOMAIN snapshots /\ ~snapshots[target[p].gen].torn
          /\ snapshots[target[p].gen].files = version[p]
    /\ pc[p] \in {"ambiguous", "installed"} /\ target[p].gen = pointer.gen =>
          version[p] = log[at[<<target[p].gen, 0>>]]
    /\ pc[p] = "installed" => target[p].gen <= pointer.gen /\ <<target[p].gen, 0>> \in DOMAIN at

\* no two processes have staged the same generation above CURRENT
Unique(p, q) == p # q /\ {pc[p], pc[q]} \subseteq Staged /\ target[p].gen = target[q].gen =>
                   target[p].gen <= pointer.gen

ProcInv(p) == ServingInv(p) /\ ReplayInv(p) /\ RollInv(p)

Inv ==
    /\ TypeOK
    /\ CatalogInv
    /\ \A p \in Procs : ProcInv(p)
    /\ \A p, q \in Procs : Unique(p, q)

-----------------------------------------------------------------------------
\* process q keeps everything the invariant says something about
Same(q) == /\ pc'[q] = pc[q] /\ entry'[q] = entry[q] /\ seq'[q] = seq[q]
           /\ version'[q] = version[q] /\ load'[q] = load[q] /\ target'[q] = target[q]

manifestVars == <<pointer, snapshots, edits, log, at>>

=============================================================================
