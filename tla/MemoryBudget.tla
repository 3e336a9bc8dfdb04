---------------------------- MODULE MemoryBudget ----------------------------
(***************************************************************************)
(* The process-wide budget that the memtable arenas, the caches and the    *)
(* windows of a compaction charge.  used_ is unsigned: it wraps at Width.  *)
(***************************************************************************)
EXTENDS Integers

CONSTANTS Total,   \* total_
          Width    \* one more than the largest value of used_

ASSUME BudgetAssumption == Total \in Nat /\ Width \in Nat /\ Total < Width

VARIABLES used,    \* used_
          arenas,  \* bytes of the memtables' arenas
          quota    \* bound: the calls still to come of all that charges the budget

Counted == quota > 0 /\ quota' = quota - 1

Charged(amount, bytes) == (amount + bytes) % Width
Released(amount, bytes) == (amount - bytes) % Width

\* try_acquire: the charge fits, or is declined.
Fits(amount, bytes) == Charged(amount, bytes) <= Total

\* A memtable cannot decline a write that was accepted: try_acquire_over.
ArenaGrows ==
    /\ Counted
    /\ arenas' = arenas + 1
    /\ used' = Charged(used, 1)

ArenaFreed ==
    /\ arenas > 0
    /\ arenas' = 0
    /\ used' = Released(used, arenas)
    /\ UNCHANGED quota

=============================================================================
