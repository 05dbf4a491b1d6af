--------------------------- MODULE ProviderBudget ---------------------------
(***************************************************************************)
(* Report drafts: the budget of provider calls of each investigation and   *)
(* the route that reserves, dispatches, calls the provider and records the *)
(* outcome, with operators recovering overdue attempts.                    *)
(*                                                                         *)
(* reserve, dispatch, finish and recover are one transaction each under    *)
(* the lock of the investigation's row, so they are one step here.  The    *)
(* capability checks before them read the security row without a lock and  *)
(* are steps of their own, as is the external call.  A commit whose answer *)
(* is lost is a committed step followed by Abort.                          *)
(*                                                                         *)
(* Abstractions.  Time is one bit per attempt: whether its expiry has      *)
(* passed.  The report, the draft and the audit rows are left out.         *)
(***************************************************************************)
EXTENDS Integers, FiniteSets, SecurityCapability

CONSTANTS
    Requests,       \* invocations of the draft route
    Operations,     \* operation ids: idempotency keys
    Tasks,          \* investigations
    OperationOf,    \* the operation id a request carries
    TaskOf,         \* the investigation a request names
    Limit,          \* llm_max_drafts_per_task
    StateChanges,   \* bound: security states a transition asks for
    Faults          \* bound: the kinds of failure that may happen

ASSUME BudgetAssumption ==
    /\ IsFiniteSet(Operations)
    /\ OperationOf \in [Requests -> Operations]
    /\ TaskOf \in [Requests -> Tasks]
    /\ Limit \in Nat
    /\ StateChanges \subseteq SecurityState
    /\ Faults \subseteq {"abort", "restart", "recovery"}

VARIABLES
    attempt,        \* the durable attempt of each operation
    overdue,        \* its expiry has passed
    security,       \* stored security state
    fenced,         \* recovery bootstrap pending
    pc,             \* next step of each request
    result,         \* the outcome a request is about to record
    called          \* requests that reached the provider

authority == <<security, fenced>>
vars      == <<attempt, overdue, authority, pc, result, called>>

Status  == {"NONE", "PENDING", "DISPATCHED", "UNKNOWN", "SUCCEEDED", "FAILED", "EXPIRED"}
Outcome == {"SUCCEEDED", "FAILED", "UNKNOWN"}

\* A request holds an attempt of its own from its reservation to its outcome.
Holding == {"preparing", "checking", "dispatching", "rechecking", "calling", "finishing"}
Ended   == {"refused", "conflict", "exceeded", "delivered", "failed", "aborted"}
PC      == {"idle", "reserving"} \cup Holding \cup Ended

NoAttempt == [status |-> "NONE", task |-> "none"]

Init ==
    /\ attempt = [op \in Operations |-> NoAttempt]
    /\ overdue = [op \in Operations |-> FALSE]
    /\ security = "normal"
    /\ fenced = FALSE
    /\ pc = [r \in Requests |-> "idle"]
    /\ result = [r \in Requests |-> "FAILED"]
    /\ called = {}

Permitted == Granted(security, fenced, "provider_dispatch", "none")

Go(r, point) == pc' = [pc EXCEPT ![r] = point]

Become(op, status) == attempt' = [attempt EXCEPT ![op].status = status]

-----------------------------------------------------------------------------
(* The route, step by step.                                                *)

\* The admission check, before anything is locked.
Admit(r) ==
    /\ pc[r] = "idle"
    /\ Go(r, IF Permitted THEN "reserving" ELSE "refused")
    /\ UNCHANGED <<attempt, overdue, authority, result, called>>

\* Reservations of the investigation whose time is over.
Expirable(t) ==
    {op \in Operations : attempt[op].status = "PENDING"
                         /\ attempt[op].task = t /\ overdue[op]}

\* What occupies a place of the investigation's budget.
CountedWithoutUnknown == {"PENDING", "DISPATCHED", "SUCCEEDED"}   \* mutant of Counted
Counted == {"PENDING", "DISPATCHED", "UNKNOWN", "SUCCEEDED"}

Used(t) == {op \in Operations : attempt[op].status \in Counted /\ attempt[op].task = t}

Unused(op) == attempt[op].status = "NONE"

\* An operation id is used once, on whatever investigation; a refused
\* reservation also takes back the expiry it found.
Reserve(r) ==
    LET op == OperationOf[r]
        t  == TaskOf[r]
        E  == Expirable(t)
        free == Cardinality(Used(t) \ E) < Limit
    IN
    /\ pc[r] = "reserving"
    /\ \/ /\ Unused(op) /\ free
          /\ attempt' = [o \in Operations |->
                            IF o = op THEN [status |-> "PENDING", task |-> t]
                            ELSE IF o \in E THEN [attempt[o] EXCEPT !.status = "EXPIRED"]
                            ELSE attempt[o]]
          /\ overdue' = [overdue EXCEPT ![op] = FALSE]
          /\ Go(r, "preparing")
       \/ /\ ~(Unused(op) /\ free)
          /\ Go(r, IF Unused(op) THEN "exceeded" ELSE "conflict")
          /\ UNCHANGED <<attempt, overdue>>
    /\ UNCHANGED <<authority, result, called>>

\* The report is built from a snapshot and may turn out too large.
Prepare(r) ==
    /\ pc[r] = "preparing"
    /\ \/ /\ Go(r, "checking")
          /\ UNCHANGED result
       \/ /\ Go(r, "finishing")
          /\ result' = [result EXCEPT ![r] = "FAILED"]
    /\ UNCHANGED <<attempt, overdue, authority, called>>

\* dispatch asks again before it locks; a denial leaves the reservation to
\* its expiry.
CheckDispatch(r) ==
    /\ pc[r] = "checking"
    /\ Go(r, IF Permitted THEN "dispatching" ELSE "refused")
    /\ UNCHANGED <<attempt, overdue, authority, result, called>>

\* What dispatch requires of the attempt it has locked.
Dispatchable(op) == attempt[op].status = "PENDING" /\ ~overdue[op]

\* An overdue reservation expires here too.
Dispatch(r) ==
    LET op == OperationOf[r] IN
    /\ pc[r] = "dispatching"
    /\ \/ /\ Dispatchable(op)
          /\ Become(op, "DISPATCHED")
          /\ Go(r, "rechecking")
       \/ /\ ~Dispatchable(op)
          /\ IF attempt[op].status = "PENDING" THEN Become(op, "EXPIRED") ELSE UNCHANGED attempt
          /\ Go(r, "conflict")
    /\ UNCHANGED <<overdue, authority, result, called>>

\* Authority is asked for once more after the dispatch is durable; revoked
\* authority becomes a failed attempt.  The read's transaction is rolled back
\* before the call.
ForgetDispatched(r) ==                                \* mutant of Recheck
    /\ pc[r] = "rechecking"
    /\ Go(r, IF Permitted THEN "calling" ELSE "refused")
    /\ UNCHANGED <<attempt, overdue, authority, result, called>>
Recheck(r) ==
    /\ pc[r] = "rechecking"
    /\ \/ /\ Permitted
          /\ Go(r, "calling")
          /\ called' = called \cup {r}
          /\ UNCHANGED result
       \/ /\ ~Permitted
          /\ Go(r, "finishing")
          /\ result' = [result EXCEPT ![r] = "FAILED"]
          /\ UNCHANGED called
    /\ UNCHANGED <<attempt, overdue, authority>>

\* The provider answers with a draft, refuses, or leaves its outcome open.
Return(r) ==
    /\ pc[r] = "calling"
    /\ \E outcome \in Outcome : result' = [result EXCEPT ![r] = outcome]
    /\ Go(r, "finishing")
    /\ UNCHANGED <<attempt, overdue, authority, called>>

\* finish: an equal repeat changes nothing, a conflicting one is refused.
FinishableUnlessDone(op, outcome) ==                  \* mutant of Finishable
    attempt[op].status # "SUCCEEDED"
Finishable(op, outcome) ==
    \/ attempt[op].status \in {outcome, "DISPATCHED", "UNKNOWN"}
    \/ attempt[op].status = "PENDING" /\ outcome = "FAILED"

Finish(r) ==
    LET op == OperationOf[r] IN
    /\ pc[r] = "finishing"
    /\ \/ /\ Finishable(op, result[r])
          /\ Become(op, result[r])
          /\ Go(r, IF result[r] = "SUCCEEDED" THEN "delivered" ELSE "failed")
       \/ /\ ~Finishable(op, result[r])
          /\ Go(r, "conflict")
          /\ UNCHANGED attempt
    /\ UNCHANGED <<overdue, authority, result, called>>

\* An unexpected exception, a lost database answer or a dead client.
Abort(r) ==
    /\ "abort" \in Faults
    /\ pc[r] \notin Ended
    /\ Go(r, "aborted")
    /\ UNCHANGED <<attempt, overdue, authority, result, called>>

-----------------------------------------------------------------------------
(* Operators, time and the security state.                                 *)

RefundedOutcome(op)  == "FAILED"                      \* mutant of RecoveredOutcome
RecoveredOutcome(op) == "UNKNOWN"

\* recover acknowledges an overdue dispatch, whoever may still be waiting for
\* its answer.
RecoverAttempt(op) ==
    /\ attempt[op].status = "DISPATCHED"
    /\ overdue[op]
    /\ Become(op, RecoveredOutcome(op))
    /\ UNCHANGED <<overdue, authority, pc, result, called>>

TimePasses(op) ==
    /\ attempt[op].status \in {"PENDING", "DISPATCHED"}
    /\ ~overdue[op]
    /\ overdue' = [overdue EXCEPT ![op] = TRUE]
    /\ UNCHANGED <<attempt, authority, pc, result, called>>

SecurityTransition ==
    /\ ~fenced
    /\ \E s \in StateChanges :
        /\ <<security, s>> \in ValidTransitions
        /\ security' = s
    /\ UNCHANGED <<attempt, overdue, fenced, pc, result, called>>

\* A restart ends every request, in recovery mode behind the fence.
Restart ==
    /\ \/ "restart" \in Faults /\ UNCHANGED fenced
       \/ "recovery" \in Faults /\ fenced' = TRUE
    /\ pc' = [r \in Requests |-> IF pc[r] \in Ended \cup {"idle"} THEN pc[r] ELSE "aborted"]
    /\ UNCHANGED <<attempt, overdue, security, result, called>>

\* Restoration waits until every attempt has an outcome that is known.
Restore ==
    /\ fenced
    /\ \A op \in Operations : attempt[op].status \in {"NONE", "SUCCEEDED", "FAILED"}
    /\ security' = "normal"
    /\ fenced' = FALSE
    /\ UNCHANGED <<attempt, overdue, pc, result, called>>

-----------------------------------------------------------------------------
Step(r) ==
    \/ Admit(r) \/ Reserve(r) \/ Prepare(r) \/ CheckDispatch(r) \/ Dispatch(r)
    \/ Recheck(r) \/ Return(r) \/ Finish(r)

Next ==
    \/ \E r \in Requests : Step(r) \/ Abort(r)
    \/ \E op \in Operations : RecoverAttempt(op) \/ TimePasses(op)
    \/ SecurityTransition \/ Restart \/ Restore

Spec == Init /\ [][Next]_vars

\* Providers answer or time out; operators and transitions are nobody's duty.
FairSpec == Spec /\ \A r \in Requests : WF_vars(Step(r))

-----------------------------------------------------------------------------
(* Safety.                                                                 *)

TypeOK ==
    /\ attempt \in [Operations -> [status : Status, task : Tasks \cup {"none"}]]
    /\ overdue \in [Operations -> BOOLEAN]
    /\ security \in SecurityState
    /\ fenced \in BOOLEAN
    /\ pc \in [Requests -> PC]
    /\ result \in [Requests -> Outcome]
    /\ called \in SUBSET Requests

\* Drafts that exist, may exist or may still be made never exceed the limit of
\* their investigation, whatever expires, fails or is recovered meanwhile.
QuotaHeld ==
    \A t \in Tasks :
        Cardinality({op \in Operations :
                        /\ attempt[op].status \in {"PENDING", "DISPATCHED", "UNKNOWN", "SUCCEEDED"}
                        /\ attempt[op].task = t}) <= Limit

\* A call in flight always occupies its place: no expiry and no recovery gives
\* the place away while the provider may still answer.
CallHoldsPlace ==
    \A r \in Requests : pc[r] = "calling" =>
        attempt[OperationOf[r]] \in [status : {"DISPATCHED", "UNKNOWN"}, task : {TaskOf[r]}]

\* However often a client repeats a key, concurrently, after a failure or on
\* another investigation, the provider is called once for it.
OneCallPerOperation ==
    \A q, r \in called : OperationOf[q] = OperationOf[r] => q = r

\* A request that called the provider can always record what it got: an
\* operator's recovery in between never turns a draft into a conflict.
NoDraftRefused ==
    /\ \A r \in called : pc[r] # "conflict"
    /\ \A r \in Requests : pc[r] = "delivered" => attempt[OperationOf[r]].status = "SUCCEEDED"

-----------------------------------------------------------------------------
(* What makes the invariants inductive.                                    *)

Involved(r) == pc[r] \in Holding \/ r \in called

OneHolder ==
    \A q, r \in Requests :
        Involved(q) /\ Involved(r) /\ OperationOf[q] = OperationOf[r] => q = r

HolderFits(r) ==
    LET a == attempt[OperationOf[r]] IN
    /\ Involved(r) => a.status # "NONE" /\ a.task = TaskOf[r]
    /\ pc[r] \in {"idle", "reserving", "rechecking"} => r \notin called
    /\ pc[r] \in {"preparing", "checking", "dispatching"} =>
          a.status \in {"PENDING", "EXPIRED"} /\ r \notin called
    /\ pc[r] \in {"rechecking", "calling"} => a.status \in {"DISPATCHED", "UNKNOWN"}
    /\ pc[r] = "calling" => r \in called
    /\ pc[r] = "finishing" /\ r \notin called => result[r] = "FAILED"
    /\ pc[r] = "finishing" /\ r \in called => a.status \in {"DISPATCHED", "UNKNOWN"}

StatusOfHolder == \A r \in Requests : HolderFits(r)

IInv ==
    /\ TypeOK
    /\ QuotaHeld
    /\ NoDraftRefused
    /\ OneHolder
    /\ StatusOfHolder

-----------------------------------------------------------------------------
(* Action properties.                                                      *)

\* A recorded outcome is final: no late dispatch or finish revives an expired
\* reservation or rewrites a success or a failure.
KeepsOutcome ==
    \A op \in Operations :
        attempt[op].status \in {"SUCCEEDED", "FAILED", "EXPIRED"} => attempt'[op] = attempt[op]

OutcomeFinal == [][KeepsOutcome]_vars

\* A place is given back only for a reservation that was never dispatched or by
\* the request that knows its call failed or was never made; an operator never
\* refunds an unknown outcome.
RefundsOnlyKnown ==
    \A op \in Operations :
        attempt[op].status \in {"DISPATCHED", "UNKNOWN"} /\ attempt'[op].status \in {"FAILED", "EXPIRED"}
            => \E r \in Requests : /\ OperationOf[r] = op
                                   /\ pc[r] = "finishing" /\ result[r] = "FAILED"
                                   /\ pc'[r] = "failed"

RefundIsWitnessed == [][RefundsOnlyKnown]_vars

-----------------------------------------------------------------------------
(* The promise it implements.                                              *)

PlaceState == [NONE |-> "none", PENDING |-> "held", DISPATCHED |-> "held", UNKNOWN |-> "held",
               SUCCEEDED |-> "spent", FAILED |-> "returned", EXPIRED |-> "returned"]

Place == [op \in Operations |-> [state |-> PlaceState[attempt[op].status],
                                 task  |-> attempt[op].task]]

Quota == INSTANCE DraftQuota WITH place <- Place

\* The route with all its races implements a quota of places.
ImplementsQuota == Quota!Spec

-----------------------------------------------------------------------------
\* A request that dispatched its attempt gives it an outcome unless its process
\* is cut off, also when authority is revoked right after the dispatch, when
\* the budget's time runs out and when an operator steps in.
DispatchSettles ==
    \A r \in Requests :
        pc[r] \in {"rechecking", "calling"}
            ~> \/ attempt[OperationOf[r]].status \in Outcome
               \/ pc[r] = "aborted"

-----------------------------------------------------------------------------
(* The authority it runs under.                                            *)

Unsettled == {op \in Operations : attempt[op].status \notin {"NONE", "SUCCEEDED", "FAILED"}}

Governing == INSTANCE AuthorityEnvironment WITH open <- Unsettled

\* Nothing else is assumed of the authority than SecurityAuthority implements.
GovernedAsPromised == Governing!Spec
=============================================================================
