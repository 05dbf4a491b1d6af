------------------------- MODULE MCSecurityAuthority -------------------------
(***************************************************************************)
(* Instances of SecurityAuthority for TLC.                                 *)
(***************************************************************************)
EXTENDS SecurityAuthority, TLC

\* Contexts, grants and executions are interchangeable names.
Interchangeable ==
    Permutations(ContextIds) \cup Permutations(GrantIds) \cup Permutations(ExecutionIds)
=============================================================================
