------------------------- MODULE SecurityCapability -------------------------
(***************************************************************************)
(* The capability policy every governed operation consults: what a         *)
(* persisted security state and the recovery-bootstrap fence permit, and   *)
(* which changes of the security state are structurally legal.             *)
(*                                                                         *)
(* Pure operators, translated from application/security_capability.py,     *)
(* application/security_transition_policy.py and domain/security.py.  The  *)
(* state machines of this project pass them their own state.               *)
(***************************************************************************)

SecurityState == {"normal", "degraded", "compromised_suspected",
                  "lockdown", "recovery_required"}

AlwaysSafe == {"read_state", "read_audit", "local_report", "diagnostics"}

Restricted == {"memory_mutation", "start_cycle", "source_retrieval",
               "provider_dispatch", "agent_dispatch"}

Directional == {"security_containment", "recovery_action",
                "authority_administration"}

\* "none" stands for a call that names no direction.
Direction == {"reduce", "preserve", "broaden", "none"}

\* The policy table, by capability and by the direction of its effect.
Allows(state, capability, direction) ==
    \/ capability \in AlwaysSafe
    \/ /\ capability = "security_containment"
       /\ direction \in {"reduce", "preserve"}
    \/ /\ capability = "recovery_action"
       /\ direction = "preserve"
       /\ state # "normal"
    \/ /\ capability = "authority_administration"
       /\ \/ direction \in {"reduce", "preserve"}
          \/ /\ direction = "broaden"
             /\ state \in {"normal", "degraded", "recovery_required"}
    \/ /\ capability \in Restricted
       /\ state = "normal"

\* What the store loads: the fence hides the stored state.
Effective(state, fenced) == IF fenced THEN "recovery_required" ELSE state

\* A capability check, the same decision whether the row is locked or not.
Granted(state, fenced, capability, direction) ==
    /\ fenced => capability \in AlwaysSafe
    /\ Allows(Effective(state, fenced), capability, direction)

\* The structural graph of the security state.
ValidTransitions ==
    { <<"normal", "degraded">>, <<"normal", "compromised_suspected">>,
      <<"normal", "lockdown">>,
      <<"degraded", "normal">>, <<"degraded", "compromised_suspected">>,
      <<"degraded", "lockdown">>, <<"degraded", "recovery_required">>,
      <<"compromised_suspected", "lockdown">>,
      <<"compromised_suspected", "recovery_required">>,
      <<"lockdown", "recovery_required">>,
      <<"recovery_required", "normal">>, <<"recovery_required", "degraded">>,
      <<"recovery_required", "compromised_suspected">>,
      <<"recovery_required", "lockdown">> }
=============================================================================
