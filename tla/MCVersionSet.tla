---------------------------- MODULE MCVersionSet ----------------------------
(***************************************************************************)
(* Small instances of VersionSet for TLC.                                  *)
(***************************************************************************)
EXTENDS VersionSet, TLC

\* writers differ in nothing but their name
WriterSymmetry == Permutations(Writers)

=============================================================================
