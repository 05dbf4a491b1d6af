-------------------------- MODULE MCReconstruction --------------------------
(***************************************************************************)
(* Instances of Reconstruction for TLC.                                    *)
(***************************************************************************)
EXTENDS Reconstruction, TLC

CONSTANTS b1, p1, p2, fresh, locked, e1, e2

\* A backup of a database that was never used, at the smallest version, and
\* one of a database under lockdown.
TwoBackups ==
    (fresh :> [state |-> "normal", version |-> 1, epoch |-> e1])
    @@ (locked :> [state |-> "lockdown", version |-> 3, epoch |-> e2])
=============================================================================
