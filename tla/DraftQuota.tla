----------------------------- MODULE DraftQuota -----------------------------
(***************************************************************************)
(* What the report budget promises an investigation, without requests,     *)
(* locks or clocks: a fixed number of places, each of which an operation   *)
(* takes once, and then spends or gives back once.                         *)
(***************************************************************************)
EXTENDS Integers, FiniteSets

CONSTANTS Operations, Tasks, Limit

VARIABLE place      \* the place of each operation, and the task it belongs to

Taken(p, t) == {op \in Operations : p[op].state \in {"held", "spent"} /\ p[op].task = t}

Init == place = [op \in Operations |-> [state |-> "none", task |-> "none"]]

\* Taking a place may first return places whose holders never came back.
Take(op, t, R) ==
    /\ place[op].state = "none"
    /\ \A lost \in R : place[lost].state = "held" /\ place[lost].task = t
    /\ place' = [o \in Operations |->
                    IF o = op THEN [state |-> "held", task |-> t]
                    ELSE IF o \in R THEN [place[o] EXCEPT !.state = "returned"]
                    ELSE place[o]]
    /\ Cardinality(Taken(place', t)) <= Limit

Settle(op, state) ==
    /\ place[op].state = "held"
    /\ state \in {"spent", "returned"}
    /\ place' = [place EXCEPT ![op].state = state]

Next ==
    \E op \in Operations :
        \/ \E t \in Tasks, R \in SUBSET Operations : Take(op, t, R)
        \/ \E state \in {"spent", "returned"} : Settle(op, state)

Spec == Init /\ [][Next]_place
=============================================================================
