------------------------- MODULE AuthorityEnvironment -------------------------
(***************************************************************************)
(* What governed work may count on of the security authority, without      *)
(* versions, epochs, evidence or operators: the state moves along the      *)
(* structural graph and only in front of the fence, the fence may be       *)
(* raised at any moment, and it falls onto normal authority once no        *)
(* durable attempt is open.  Attempts come and go by themselves, behind    *)
(* the fence too.                                                          *)
(***************************************************************************)
EXTENDS SecurityCapability

VARIABLES
    security,   \* the stored state
    fenced,     \* recovery bootstrap is pending
    open        \* durable attempts without a known outcome

Init == security = "normal" /\ fenced \in BOOLEAN /\ open = {}

Transition ==
    /\ ~fenced
    /\ <<security, security'>> \in ValidTransitions
    /\ UNCHANGED <<fenced, open>>

Fence ==
    /\ fenced' = TRUE
    /\ UNCHANGED <<security, open>>

Restore ==
    /\ fenced /\ open = {}
    /\ security' = "normal" /\ fenced' = FALSE
    /\ UNCHANGED open

Activity == UNCHANGED <<security, fenced>>

Next == Transition \/ Fence \/ Restore \/ Activity

Spec == Init /\ [][Next]_<<security, fenced, open>>
=============================================================================
