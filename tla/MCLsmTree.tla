------------------------------ MODULE MCLsmTree ------------------------------
(***************************************************************************)
(* Small instances of LsmTree.                                             *)
(***************************************************************************)
EXTENDS LsmTree

\* Two range deletes that overlap, around one write more.
Deletes == [puts |-> {2, 3}, removes |-> {2}, ranges |-> {<<1, 3>>, <<2, 4>>}, floors |-> {},
            overlapping |-> {0}, writes |-> 3, events |-> 2]

\* Two truncations, or one and another event.
Truncations == [puts |-> Keys, removes |-> {2}, ranges |-> {<<1, 3>>}, floors |-> {2, 3},
                overlapping |-> {0, 1}, writes |-> 2, events |-> 2]

\* Four writes, so that files of one level age apart.
Overwrites == [puts |-> {1, 3}, removes |-> {}, ranges |-> {}, floors |-> {},
               overlapping |-> {0}, writes |-> 4, events |-> 1]

SmallSetups == {Deletes, Truncations, Overwrites}

\* States that differ only in the gaps between file numbers behave alike.
Rank(n) == Cardinality({f \in files : f.num <= n})
Canonical == <<mem, {[f EXCEPT !.num = Rank(f.num)] : f \in files}, floors,
               [pass EXCEPT !.left = {Rank(f.num) : f \in {g \in files : g.num \in pass.left}}],
               pass.left = {}, history, bounds>>

Symmetry == Permutations(Truncators)
=============================================================================
