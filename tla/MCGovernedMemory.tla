-------------------------- MODULE MCGovernedMemory --------------------------
(***************************************************************************)
(* Instances of GovernedMemory for TLC.                                    *)
(***************************************************************************)
EXTENDS GovernedMemory, TLC

\* No source is special: links are compared and included, never ordered.
SourceSymmetry == Permutations(Sources)
=============================================================================
