---------------------------- MODULE MCWatermark ----------------------------
(* Small instances of Watermark for TLC. *)
EXTENDS Watermark, TLC

\* keys differ in nothing but their name
Symmetry == Permutations(Key)
=============================================================================
