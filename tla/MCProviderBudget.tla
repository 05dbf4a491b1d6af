-------------------------- MODULE MCProviderBudget --------------------------
(***************************************************************************)
(* Instances of ProviderBudget for TLC.                                    *)
(***************************************************************************)
EXTENDS ProviderBudget, TLC

CONSTANTS r1, r2, r3, key1, key2, task1, task2

\* One key is sent twice, as a client does that lost its answer.
RetriedKey == (r1 :> key1) @@ (r2 :> key1) @@ (r3 :> key2)

\* The repeated key comes back on another investigation.
TwoTasks == [r \in Requests |-> IF r = r2 THEN task2 ELSE task1]
=============================================================================
