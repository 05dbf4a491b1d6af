------------------------ MODULE ProviderBudgetProofs ------------------------
(***************************************************************************)
(* Theorems about ProviderBudget, for any number of requests, operation    *)
(* ids and investigations and any limit.                                   *)
(***************************************************************************)
EXTENDS ProviderBudget, FiniteSetTheorems, TLAPS

\* The places of an investigation, as QuotaHeld counts them.
Places(t) ==
    {op \in Operations :
        /\ attempt[op].status \in {"PENDING", "DISPATCHED", "UNKNOWN", "SUCCEEDED"}
        /\ attempt[op].task = t}

LEMMA PlacesAreUsed == \A t : Places(t) = Used(t) /\ IsFiniteSet(Places(t))
  <1>1. \A t : Places(t) = Used(t) /\ Places(t) \subseteq Operations
    BY DEF Places, Used, Counted
  <1> QED
    BY <1>1, BudgetAssumption, FS_Subset

LEMMA IInvInit == Init => IInv
  <1> SUFFICES ASSUME Init PROVE IInv
    OBVIOUS
  <1>1. TypeOK
    BY DEF Init, TypeOK, NoAttempt, Status, Outcome, PC, SecurityState
  <1>2. QuotaHeld
    <2> SUFFICES ASSUME NEW t \in Tasks PROVE Cardinality(Places(t)) <= Limit
      BY DEF QuotaHeld, Places
    <2>1. Places(t) = {}
      BY DEF Places, Init, NoAttempt
    <2> QED
      BY <2>1, FS_EmptySet, BudgetAssumption
  <1>3. \A r \in Requests : pc[r] = "idle" /\ r \notin called
    BY DEF Init
  <1>4. NoDraftRefused
    BY <1>3 DEF NoDraftRefused, Init
  <1>5. OneHolder /\ StatusOfHolder
    BY <1>3 DEF OneHolder, StatusOfHolder, HolderFits, Involved, Holding
  <1> QED
    BY <1>1, <1>2, <1>4, <1>5 DEF IInv

-----------------------------------------------------------------------------
(* The budget.                                                             *)

\* A step that starts no attempt takes no place.
LEMMA NoPlaceTaken ==
  ASSUME QuotaHeld,
         \A op \in Operations :
            \/ attempt'[op].status \in {"NONE", "FAILED", "EXPIRED"}
            \/ /\ attempt[op].status \in {"PENDING", "DISPATCHED", "UNKNOWN", "SUCCEEDED"}
               /\ attempt'[op].task = attempt[op].task
  PROVE  QuotaHeld'
  <1> SUFFICES ASSUME NEW t \in Tasks PROVE Cardinality(Places(t)') <= Limit
    BY DEF QuotaHeld, Places
  <1>1. Places(t)' \subseteq Places(t)
    BY DEF Places
  <1>2. IsFiniteSet(Places(t)) /\ Cardinality(Places(t)) <= Limit
    BY PlacesAreUsed DEF QuotaHeld, Places
  <1>3. /\ Cardinality(Places(t)') <= Cardinality(Places(t))
        /\ Cardinality(Places(t)) \in Nat /\ Cardinality(Places(t)') \in Nat
    BY <1>1, <1>2, FS_Subset, FS_CardinalityType
  <1> QED
    BY <1>2, <1>3, BudgetAssumption

\* A reservation takes one place of its investigation, after the expiry of
\* what is overdue.
LEMMA OnePlaceTaken ==
  ASSUME TypeOK, QuotaHeld, NEW op \in Operations, NEW t \in Tasks,
         Cardinality(Used(t) \ Expirable(t)) < Limit,
         attempt' = [o \in Operations |->
                        IF o = op THEN [status |-> "PENDING", task |-> t]
                        ELSE IF o \in Expirable(t) THEN [attempt[o] EXCEPT !.status = "EXPIRED"]
                        ELSE attempt[o]]
  PROVE  /\ QuotaHeld'
         /\ Cardinality(Places(t)') <= Limit
  <1>1. \A o \in Operations :
          /\ o = op => attempt'[o].status = "PENDING" /\ attempt'[o].task = t
          /\ o # op /\ o \in Expirable(t) => attempt'[o].status = "EXPIRED"
          /\ o # op /\ o \notin Expirable(t) => attempt'[o] = attempt[o]
    BY DEF TypeOK
  <1>2. Cardinality(Places(t)') <= Limit
    <2> DEFINE S == Used(t) \ Expirable(t)
    <2>1. Places(t)' \subseteq S \cup {op}
      BY <1>1 DEF Places, Used, Counted
    <2>2. IsFiniteSet(S) /\ Cardinality(S) \in Nat
      <3>1. IsFiniteSet(Used(t)) /\ S \subseteq Used(t)
        BY PlacesAreUsed
      <3> QED
        BY <3>1, FS_Subset, FS_CardinalityType
    <2>3. IsFiniteSet(S \cup {op}) /\ Cardinality(S \cup {op}) <= Cardinality(S) + 1
      BY <2>2, FS_AddElement
    <2>4. Cardinality(Places(t)') <= Cardinality(S \cup {op})
      BY <2>1, <2>3, FS_Subset
    <2>5. Cardinality(S) < Limit
      OBVIOUS
    <2>6. Cardinality(Places(t)') \in Nat /\ Cardinality(S \cup {op}) \in Nat
      BY <2>1, <2>3, FS_Subset, FS_CardinalityType
    <2> HIDE DEF S
    <2> QED
      BY <2>2, <2>3, <2>4, <2>5, <2>6, BudgetAssumption
  <1>3. ASSUME NEW u \in Tasks, u # t PROVE Cardinality(Places(u)') <= Limit
    <2>1. Places(u)' \subseteq Places(u)
      BY <1>1, <1>3 DEF Places, Expirable
    <2>2. IsFiniteSet(Places(u)) /\ Cardinality(Places(u)) <= Limit
      BY PlacesAreUsed DEF QuotaHeld, Places
    <2>3. /\ Cardinality(Places(u)') <= Cardinality(Places(u))
          /\ Cardinality(Places(u)) \in Nat /\ Cardinality(Places(u)') \in Nat
      BY <2>1, <2>2, FS_Subset, FS_CardinalityType
    <2> QED
      BY <2>2, <2>3, BudgetAssumption
  <1> QED
    BY <1>2, <1>3 DEF QuotaHeld, Places

-----------------------------------------------------------------------------
(* The steps of a request.  The attempt of every other request that holds  *)
(* one is another attempt.                                                 *)

LEMMA OthersHoldOthers ==
  ASSUME IInv, NEW r \in Requests, Involved(r), NEW q \in Requests \ {r}, Involved(q)
  PROVE  OperationOf[q] # OperationOf[r]
  BY DEF IInv, OneHolder

\* A request that moves without touching its attempt.
LEMMA MoveKeeps ==
  ASSUME IInv, NEW r \in Requests, NEW p \in PC, Go(r, p),
         UNCHANGED <<attempt, overdue, authority, result, called>>,
         p \in Holding => pc[r] \in Holding,
         p \in {"conflict", "reserving"} => r \notin called, p \notin {"delivered", "idle"},
         p \in {"checking", "dispatching"} => pc[r] \in {"preparing", "checking", "dispatching"},
         p \notin {"preparing", "rechecking", "calling", "finishing"}
  PROVE  IInv'
  <1>1. /\ pc' \in [Requests -> PC] /\ pc'[r] = p
        /\ \A q \in Requests \ {r} : pc'[q] = pc[q]
    BY DEF Go, IInv, TypeOK
  <1>2. TypeOK'
    BY <1>1 DEF IInv, TypeOK, authority
  <1>3. QuotaHeld'
    BY DEF IInv, QuotaHeld
  <1>4. NoDraftRefused'
    BY <1>1 DEF IInv, TypeOK, NoDraftRefused
  <1>5. OneHolder'
    BY <1>1 DEF IInv, OneHolder, Involved
  <1>6. StatusOfHolder'
    BY <1>1 DEF IInv, StatusOfHolder, HolderFits, Involved, Holding
  <1> QED
    BY <1>2, <1>3, <1>4, <1>5, <1>6 DEF IInv

LEMMA AdmitKeeps == ASSUME IInv, NEW r \in Requests, Admit(r) PROVE IInv'
  <1>1. r \notin called
    BY DEF Admit, IInv, StatusOfHolder, HolderFits
  <1> QED
    BY <1>1, MoveKeeps DEF Admit, PC, Holding, Ended

LEMMA CheckDispatchKeeps == ASSUME IInv, NEW r \in Requests, CheckDispatch(r) PROVE IInv'
  BY MoveKeeps DEF CheckDispatch, PC, Holding, Ended

LEMMA AbortKeeps == ASSUME IInv, NEW r \in Requests, Abort(r) PROVE IInv'
  BY MoveKeeps DEF Abort, PC, Holding, Ended

LEMMA PrepareKeeps == ASSUME IInv, NEW r \in Requests, Prepare(r) PROVE IInv'
  <1>1. CASE Go(r, "checking") /\ UNCHANGED result
    BY <1>1, MoveKeeps DEF Prepare, PC, Holding, Ended
  <1>2. CASE Go(r, "finishing") /\ result' = [result EXCEPT ![r] = "FAILED"]
    <2>1. /\ pc[r] = "preparing"
          /\ UNCHANGED <<attempt, overdue, authority, called>>
      BY DEF Prepare
    <2>2. /\ pc' \in [Requests -> PC] /\ pc'[r] = "finishing"
          /\ \A q \in Requests \ {r} : pc'[q] = pc[q]
          /\ result' \in [Requests -> Outcome] /\ result'[r] = "FAILED"
          /\ \A q \in Requests \ {r} : result'[q] = result[q]
      BY <1>2 DEF Go, IInv, TypeOK, PC, Holding, Outcome
    <2>3. TypeOK' /\ QuotaHeld'
      BY <2>1, <2>2 DEF IInv, TypeOK, authority, QuotaHeld
    <2>4. NoDraftRefused'
      BY <2>1, <2>2 DEF IInv, TypeOK, NoDraftRefused
    <2>5. OneHolder'
      BY <2>1, <2>2 DEF IInv, OneHolder, Involved, Holding
    <2>6. StatusOfHolder'
      BY <2>1, <2>2 DEF IInv, StatusOfHolder, HolderFits, Involved, Holding
    <2> QED
      BY <2>3, <2>4, <2>5, <2>6 DEF IInv
  <1> QED
    BY <1>1, <1>2 DEF Prepare

LEMMA ReserveKeeps == ASSUME IInv, NEW r \in Requests, Reserve(r) PROVE IInv'
  <1> DEFINE op == OperationOf[r]
             t  == TaskOf[r]
             E  == Expirable(t)
             free == Cardinality(Used(t) \ E) < Limit
  <1>1. op \in Operations /\ t \in Tasks /\ pc[r] = "reserving"
    BY BudgetAssumption DEF Reserve
  <1>2. CASE ~(Unused(op) /\ free)
    <2>1. /\ Go(r, "exceeded") \/ (Go(r, "conflict") /\ ~Unused(op))
          /\ UNCHANGED <<attempt, overdue, authority, result, called>>
      BY <1>2 DEF Reserve
    <2>2. r \notin called
      BY <1>1 DEF IInv, StatusOfHolder, HolderFits
    <2> QED
      BY <2>1, <2>2, MoveKeeps DEF PC, Holding, Ended
  <1>3. CASE Unused(op) /\ free
    <2>1. /\ attempt' = [o \in Operations |->
                            IF o = op THEN [status |-> "PENDING", task |-> t]
                            ELSE IF o \in E THEN [attempt[o] EXCEPT !.status = "EXPIRED"]
                            ELSE attempt[o]]
          /\ overdue' = [overdue EXCEPT ![op] = FALSE]
          /\ Go(r, "preparing")
          /\ UNCHANGED <<authority, result, called>>
      BY <1>3 DEF Reserve
    <2>2. /\ pc' \in [Requests -> PC] /\ pc'[r] = "preparing"
          /\ \A q \in Requests \ {r} : pc'[q] = pc[q]
      BY <2>1 DEF Go, IInv, TypeOK, PC, Holding
    <2>3. /\ attempt' \in [Operations -> [status : Status, task : Tasks \cup {"none"}]]
          /\ attempt'[op] = [status |-> "PENDING", task |-> t]
          /\ \A o \in Operations \ {op} :
                \/ attempt'[o] = attempt[o]
                \/ /\ attempt[o].status = "PENDING" /\ attempt'[o].status = "EXPIRED"
                   /\ attempt'[o].task = attempt[o].task
      <3>1. \A o \in E : attempt[o].status = "PENDING"
        BY DEF Expirable
      <3>2. attempt \in [Operations -> [status : Status, task : Tasks \cup {"none"}]]
        BY DEF IInv, TypeOK
      <3>3. \A a \in [status : Status, task : Tasks \cup {"none"}] :
               /\ [a EXCEPT !.status = "EXPIRED"] \in [status : Status, task : Tasks \cup {"none"}]
               /\ [a EXCEPT !.status = "EXPIRED"].status = "EXPIRED"
               /\ [a EXCEPT !.status = "EXPIRED"].task = a.task
        BY DEF Status
      <3> HIDE DEF E
      <3> QED
        BY <1>1, <2>1, <3>1, <3>2, <3>3 DEF Status
    <2>4. TypeOK'
      BY <1>1, <2>1, <2>2, <2>3 DEF IInv, TypeOK, authority
    <2>5. QuotaHeld'
      BY <1>1, <1>3, <2>1, OnePlaceTaken DEF IInv
    <2>6. r \notin called /\ attempt[op].status = "NONE"
      BY <1>1, <1>3 DEF IInv, StatusOfHolder, HolderFits, Unused
    <2>7. \A q \in Requests \ {r} : Involved(q) => OperationOf[q] # op
      BY <2>6 DEF IInv, StatusOfHolder, HolderFits
    <2>8. NoDraftRefused'
      <3>1. \A q \in Requests \ {r} : pc[q] = "delivered" => attempt'[OperationOf[q]].status = "SUCCEEDED"
        BY <1>1, <2>3, <2>6, BudgetAssumption DEF IInv, NoDraftRefused
      <3> QED
        BY <2>1, <2>2, <3>1 DEF IInv, TypeOK, NoDraftRefused
    <2>9. OneHolder'
      BY <2>1, <2>2, <2>7 DEF IInv, OneHolder, Involved
    <2>10. StatusOfHolder'
      <3>1. ASSUME NEW q \in Requests \ {r}
            PROVE  Involved(q) => \/ attempt'[OperationOf[q]] = attempt[OperationOf[q]]
                                 \/ /\ attempt[OperationOf[q]].status = "PENDING"
                                    /\ attempt'[OperationOf[q]].status = "EXPIRED"
                                    /\ attempt'[OperationOf[q]].task = attempt[OperationOf[q]].task
        BY <2>3, <2>7, BudgetAssumption
      <3>2. ASSUME NEW q \in Requests \ {r} PROVE HolderFits(q)'
        <4>1. HolderFits(q) /\ pc'[q] = pc[q] /\ UNCHANGED <<called, result>>
          BY <2>1, <2>2 DEF IInv, StatusOfHolder
        <4>2. CASE ~Involved(q)
          BY <4>1, <4>2 DEF HolderFits, Involved, Holding
        <4>3. CASE Involved(q) /\ attempt'[OperationOf[q]] = attempt[OperationOf[q]]
          BY <4>1, <4>3 DEF HolderFits, Involved
        <4>4. CASE /\ Involved(q)
                   /\ attempt[OperationOf[q]].status = "PENDING"
                   /\ attempt'[OperationOf[q]].status = "EXPIRED"
                   /\ attempt'[OperationOf[q]].task = attempt[OperationOf[q]].task
          BY <4>1, <4>4 DEF HolderFits, Involved
        <4> QED
          BY <3>1, <4>2, <4>3, <4>4
      <3>3. HolderFits(r)'
        BY <2>1, <2>2, <2>3, <2>6 DEF HolderFits
      <3> QED
        BY <3>2, <3>3 DEF StatusOfHolder
    <2> QED
      BY <2>4, <2>5, <2>8, <2>9, <2>10 DEF IInv
  <1> QED
    BY <1>2, <1>3


\* A request that moves on with its own attempt in status s.
LEMMA HolderMoves ==
  ASSUME IInv, NEW r \in Requests, Involved(r), NEW p \in PC, Go(r, p),
         NEW s \in Status, Become(OperationOf[r], s), UNCHANGED <<overdue, authority>>,
         s \in {"FAILED", "EXPIRED"} \/ attempt[OperationOf[r]].status \notin {"NONE", "FAILED", "EXPIRED"},
         attempt[OperationOf[r]].status = "SUCCEEDED" => s = "SUCCEEDED",
         called' \in {called, called \cup {r}},
         result' \in [Requests -> Outcome],
         \A q \in Requests \ {r} : result'[q] = result[q],
         HolderFits(r)',
         p = "conflict" => r \notin called', p = "delivered" => s = "SUCCEEDED"
  PROVE  IInv'
  <1> DEFINE op == OperationOf[r]
  <1>1. op \in Operations /\ \A q \in Requests : OperationOf[q] \in Operations
    BY BudgetAssumption
  <1>2. /\ pc' \in [Requests -> PC] /\ pc'[r] = p
        /\ \A q \in Requests \ {r} : pc'[q] = pc[q]
    BY DEF Go, IInv, TypeOK
  <1>3. /\ attempt' \in [Operations -> [status : Status, task : Tasks \cup {"none"}]]
        /\ attempt'[op].status = s /\ attempt'[op].task = attempt[op].task
        /\ \A o \in Operations \ {op} : attempt'[o] = attempt[o]
    BY <1>1 DEF Become, IInv, TypeOK
  <1>4. TypeOK'
    BY <1>2, <1>3 DEF IInv, TypeOK, authority
  <1>5. QuotaHeld'
    <2>1. attempt[op].status \in Status /\ \A o \in Operations : attempt[o].status \in Status
      BY <1>1 DEF IInv, TypeOK
    <2>2. ASSUME NEW o \in Operations
          PROVE  \/ attempt'[o].status \in {"NONE", "FAILED", "EXPIRED"}
                 \/ /\ attempt[o].status \in {"PENDING", "DISPATCHED", "UNKNOWN", "SUCCEEDED"}
                    /\ attempt'[o].task = attempt[o].task
      BY <1>3, <2>1 DEF Status
    <2> QED
      BY <2>2, NoPlaceTaken DEF IInv
  <1>6. NoDraftRefused'
    <2>1. \A q \in called' : pc'[q] # "conflict"
      BY <1>2 DEF IInv, TypeOK, NoDraftRefused
    <2>2. \A q \in Requests : pc'[q] = "delivered" => attempt'[OperationOf[q]].status = "SUCCEEDED"
      BY <1>1, <1>2, <1>3 DEF IInv, NoDraftRefused
    <2> QED
      BY <2>1, <2>2 DEF NoDraftRefused
  <1>7. OneHolder'
    <2>1. ASSUME NEW q \in Requests, Involved(q)' PROVE Involved(q)
      BY <1>2, <2>1 DEF Involved
    <2> QED
      BY <2>1 DEF IInv, OneHolder
  <1>8. StatusOfHolder'
    <2>1. ASSUME NEW q \in Requests \ {r} PROVE HolderFits(q)'
      <3>1. /\ HolderFits(q) /\ pc'[q] = pc[q] /\ result'[q] = result[q]
            /\ q \in called' <=> q \in called
        BY <1>2 DEF IInv, StatusOfHolder
      <3>2. CASE ~Involved(q)
        BY <3>1, <3>2 DEF HolderFits, Involved, Holding
      <3>3. CASE Involved(q)
        <4>1. attempt'[OperationOf[q]] = attempt[OperationOf[q]]
          BY <1>1, <1>3, <3>3, OthersHoldOthers
        <4> QED
          BY <3>1, <4>1 DEF HolderFits, Involved
      <3> QED
        BY <3>2, <3>3
    <2> QED
      BY <2>1 DEF StatusOfHolder
  <1> QED
    BY <1>4, <1>5, <1>6, <1>7, <1>8 DEF IInv

\* An attempt left in the status it has.
LEMMA StatusKept ==
  ASSUME IInv, NEW op \in Operations, UNCHANGED attempt
  PROVE  Become(op, attempt[op].status)
  <1>1. attempt[op] \in [status : Status, task : Tasks \cup {"none"}]
    BY DEF IInv, TypeOK
  <1>2. [attempt[op] EXCEPT !.status = attempt[op].status] = attempt[op]
    BY <1>1
  <1>3. attempt = [attempt EXCEPT ![op] = attempt[op]]
    BY DEF IInv, TypeOK
  <1> QED
    BY <1>2, <1>3 DEF Become

LEMMA DispatchKeeps == ASSUME IInv, NEW r \in Requests, Dispatch(r) PROVE IInv'
  <1> DEFINE op == OperationOf[r]
  <1>1. /\ pc[r] = "dispatching" /\ Involved(r) /\ op \in Operations
        /\ UNCHANGED <<overdue, authority, result, called>>
    BY BudgetAssumption DEF Dispatch, Involved, Holding
  <1>2. /\ HolderFits(r) /\ result \in [Requests -> Outcome]
        /\ attempt[op].status \in {"PENDING", "EXPIRED"} /\ r \notin called
    BY <1>1 DEF IInv, TypeOK, StatusOfHolder, HolderFits
  <1>3. PICK p \in {"rechecking", "conflict"}, s \in Status :
            /\ Go(r, p) /\ Become(op, s)
            /\ p = "rechecking" => s = "DISPATCHED" /\ attempt[op].status = "PENDING"
            /\ p = "conflict" => s = "EXPIRED"
    <2>1. CASE Dispatchable(op)
      BY <2>1 DEF Dispatch, Dispatchable, Status
    <2>2. CASE ~Dispatchable(op)
      BY <1>1, <1>2, <2>2, StatusKept DEF Dispatch, Status
    <2> QED
      BY <2>1, <2>2
  <1>4. pc'[r] = p /\ attempt'[op].status = s /\ attempt'[op].task = attempt[op].task
    BY <1>1, <1>3 DEF Go, Become, IInv, TypeOK
  <1>5. HolderFits(r)'
    BY <1>1, <1>2, <1>3, <1>4 DEF HolderFits, Involved, Holding
  <1>6. p \in PC
    BY DEF PC, Holding, Ended
  <1> QED
    BY <1>1, <1>2, <1>3, <1>5, <1>6, HolderMoves

LEMMA RecheckKeeps == ASSUME IInv, NEW r \in Requests, Recheck(r) PROVE IInv'
  <1> DEFINE op == OperationOf[r]
  <1>1. /\ pc[r] = "rechecking" /\ Involved(r) /\ op \in Operations
        /\ UNCHANGED <<attempt, overdue, authority>>
    BY BudgetAssumption DEF Recheck, Involved, Holding
  <1>2. /\ HolderFits(r)
        /\ attempt[op].status \in {"DISPATCHED", "UNKNOWN"}
        /\ r \notin called
    BY <1>1 DEF IInv, StatusOfHolder, HolderFits
  <1>3. Become(op, attempt[op].status)
    BY <1>1, StatusKept
  <1>4. PICK p \in {"calling", "finishing"} :
            /\ Go(r, p)
            /\ p = "calling" => called' = called \cup {r} /\ UNCHANGED result
            /\ p = "finishing" => UNCHANGED called /\ result' = [result EXCEPT ![r] = "FAILED"]
    BY DEF Recheck
  <1>5. /\ pc'[r] = p
        /\ result' \in [Requests -> Outcome]
        /\ \A q \in Requests \ {r} : result'[q] = result[q]
        /\ p = "finishing" => result'[r] = "FAILED"
    BY <1>4 DEF Go, IInv, TypeOK, Outcome
  <1>6. HolderFits(r)'
    BY <1>1, <1>2, <1>4, <1>5 DEF HolderFits, Involved, Holding
  <1>7. p \in PC /\ attempt[op].status \in Status /\ called' \in {called, called \cup {r}}
    BY <1>2, <1>4 DEF PC, Holding, Status
  <1> QED
    BY <1>1, <1>2, <1>3, <1>4, <1>5, <1>6, <1>7, HolderMoves

LEMMA ReturnKeeps == ASSUME IInv, NEW r \in Requests, Return(r) PROVE IInv'
  <1> DEFINE op == OperationOf[r]
  <1>1. /\ pc[r] = "calling" /\ Involved(r) /\ op \in Operations
        /\ UNCHANGED <<attempt, overdue, authority, called>> /\ Go(r, "finishing")
    BY BudgetAssumption DEF Return, Involved, Holding
  <1>2. /\ HolderFits(r)
        /\ attempt[op].status \in {"DISPATCHED", "UNKNOWN"}
        /\ r \in called
    BY <1>1 DEF IInv, StatusOfHolder, HolderFits
  <1>3. Become(op, attempt[op].status)
    BY <1>1, StatusKept
  <1>4. /\ pc'[r] = "finishing"
        /\ result' \in [Requests -> Outcome]
        /\ \A q \in Requests \ {r} : result'[q] = result[q]
    BY <1>1 DEF Return, Go, IInv, TypeOK
  <1>5. HolderFits(r)'
    BY <1>1, <1>2, <1>4 DEF HolderFits, Involved, Holding
  <1>6. "finishing" \in PC /\ attempt[op].status \in Status
    BY <1>2 DEF PC, Holding, Status
  <1> QED
    BY <1>1, <1>2, <1>3, <1>4, <1>5, <1>6, HolderMoves

LEMMA FinishKeeps == ASSUME IInv, NEW r \in Requests, Finish(r) PROVE IInv'
  <1> DEFINE op == OperationOf[r]
  <1>1. /\ pc[r] = "finishing" /\ Involved(r) /\ op \in Operations
        /\ UNCHANGED <<overdue, authority, result, called>>
    BY BudgetAssumption DEF Finish, Involved, Holding
  <1>2. /\ HolderFits(r)
        /\ result \in [Requests -> Outcome] /\ result[r] \in Outcome
        /\ attempt[op].status \in Status \ {"NONE"}
    BY <1>1 DEF IInv, TypeOK, StatusOfHolder, HolderFits
  <1>3. CASE Finishable(op, result[r])
    <2>1. PICK p \in {"delivered", "failed"} :
              Go(r, p) /\ Become(op, result[r]) /\ (p = "delivered" => result[r] = "SUCCEEDED")
      BY <1>3 DEF Finish
    <2>2. pc'[r] = p /\ attempt'[op].status = result[r] /\ attempt'[op].task = attempt[op].task
      BY <1>1, <2>1 DEF Go, Become, IInv, TypeOK
    <2>3. HolderFits(r)'
      BY <1>1, <1>2, <2>2 DEF HolderFits, Involved, Holding, Outcome
    <2>4. p \in PC /\ result[r] \in Status
      BY <1>2 DEF PC, Ended, Outcome, Status
    <2>5. /\ result[r] \in {"FAILED", "EXPIRED"} \/ attempt[op].status \notin {"NONE", "FAILED", "EXPIRED"}
          /\ attempt[op].status = "SUCCEEDED" => result[r] = "SUCCEEDED"
      BY <1>2, <1>3 DEF Finishable, Outcome
    <2> QED
      BY <1>1, <1>2, <2>1, <2>3, <2>4, <2>5, HolderMoves
  <1>4. CASE ~Finishable(op, result[r])
    <2>1. Go(r, "conflict") /\ UNCHANGED attempt
      BY <1>4 DEF Finish
    <2>2. r \notin called
      BY <1>1, <1>2, <1>4 DEF HolderFits, Finishable
    <2> QED
      BY <1>1, <2>1, <2>2, MoveKeeps DEF PC, Holding, Ended
  <1> QED
    BY <1>3, <1>4


LEMMA StepKeeps == ASSUME IInv, NEW r \in Requests, Step(r) \/ Abort(r) PROVE IInv'
  BY AdmitKeeps, ReserveKeeps, PrepareKeeps, CheckDispatchKeeps, DispatchKeeps, RecheckKeeps,
     ReturnKeeps, FinishKeeps, AbortKeeps DEF Step

-----------------------------------------------------------------------------
(* Operators, time and the security state.                                 *)

LEMMA RecoverAttemptKeeps == ASSUME IInv, NEW op \in Operations, RecoverAttempt(op) PROVE IInv'
  <1>1. /\ attempt[op].status = "DISPATCHED"
        /\ attempt' \in [Operations -> [status : Status, task : Tasks \cup {"none"}]]
        /\ attempt'[op].status = "UNKNOWN" /\ attempt'[op].task = attempt[op].task
        /\ \A o \in Operations \ {op} : attempt'[o] = attempt[o]
        /\ UNCHANGED <<overdue, authority, pc, result, called>>
    BY DEF RecoverAttempt, RecoveredOutcome, Become, IInv, TypeOK, Status
  <1>2. \A q \in Requests : OperationOf[q] \in Operations
    BY BudgetAssumption
  <1>3. TypeOK'
    BY <1>1 DEF IInv, TypeOK, authority
  <1>4. QuotaHeld'
    <2>1. ASSUME NEW o \in Operations
          PROVE  \/ attempt'[o].status \in {"NONE", "FAILED", "EXPIRED"}
                 \/ /\ attempt[o].status \in {"PENDING", "DISPATCHED", "UNKNOWN", "SUCCEEDED"}
                    /\ attempt'[o].task = attempt[o].task
      BY <1>1 DEF IInv, TypeOK, Status
    <2> QED
      BY <2>1, NoPlaceTaken DEF IInv
  <1>5. NoDraftRefused'
    BY <1>1, <1>2 DEF IInv, NoDraftRefused
  <1>6. OneHolder'
    BY <1>1 DEF IInv, OneHolder, Involved
  <1>7. StatusOfHolder'
    BY <1>1, <1>2 DEF IInv, StatusOfHolder, HolderFits, Involved
  <1> QED
    BY <1>3, <1>4, <1>5, <1>6, <1>7 DEF IInv

\* Neither time nor authority is part of a request's claim on its attempt.
LEMMA SurroundingsKeep ==
  ASSUME IInv, UNCHANGED <<attempt, pc, result, called>>,
         overdue' \in [Operations -> BOOLEAN], security' \in SecurityState, fenced' \in BOOLEAN
  PROVE  IInv'
  <1>1. TypeOK' /\ QuotaHeld' /\ NoDraftRefused'
    BY DEF IInv, TypeOK, QuotaHeld, NoDraftRefused
  <1>2. OneHolder' /\ StatusOfHolder'
    BY DEF IInv, OneHolder, StatusOfHolder, HolderFits, Involved
  <1> QED
    BY <1>1, <1>2 DEF IInv

LEMMA RestartKeeps == ASSUME IInv, Restart PROVE IInv'
  <1>1. /\ UNCHANGED <<attempt, overdue, security, result, called>>
        /\ fenced' \in BOOLEAN
        /\ pc' \in [Requests -> PC]
        /\ \A r \in Requests : pc'[r] = IF pc[r] \in Ended \cup {"idle"} THEN pc[r] ELSE "aborted"
    BY DEF Restart, IInv, TypeOK, PC, Ended
  <1>2. TypeOK' /\ QuotaHeld'
    BY <1>1 DEF IInv, TypeOK, QuotaHeld
  <1>3. NoDraftRefused'
    BY <1>1 DEF IInv, TypeOK, NoDraftRefused
  <1>4. \A r \in Requests : Involved(r)' => Involved(r)
    BY <1>1 DEF Involved, Holding, Ended
  <1>5. OneHolder'
    BY <1>4 DEF IInv, OneHolder
  <1>6. ASSUME NEW r \in Requests PROVE HolderFits(r)'
    <2>1. HolderFits(r) /\ pc'[r] \in Ended \cup {"idle"} /\ (pc'[r] = "idle" => pc[r] = "idle")
      BY <1>1 DEF IInv, StatusOfHolder, Ended
    <2> QED
      BY <1>1, <1>4, <2>1 DEF HolderFits, Ended
  <1> QED
    BY <1>2, <1>3, <1>5, <1>6 DEF IInv, StatusOfHolder

LEMMA IInvStep == IInv /\ [Next]_vars => IInv'
  <1> SUFFICES ASSUME IInv, [Next]_vars PROVE IInv'
    OBVIOUS
  <1>1. CASE UNCHANGED vars
    BY <1>1, SurroundingsKeep DEF vars, authority, IInv, TypeOK
  <1>2. ASSUME NEW op \in Operations, TimePasses(op) PROVE IInv'
    BY <1>2, SurroundingsKeep DEF TimePasses, authority, IInv, TypeOK
  <1>3. CASE SecurityTransition
    BY <1>3, SurroundingsKeep, BudgetAssumption DEF SecurityTransition, IInv, TypeOK
  <1>4. CASE Restore
    BY <1>4, SurroundingsKeep DEF Restore, IInv, TypeOK, SecurityState
  <1> QED
    BY <1>1, <1>2, <1>3, <1>4, StepKeeps, RecoverAttemptKeeps, RestartKeeps DEF Next

-----------------------------------------------------------------------------
(* Theorems.                                                               *)

\* A request, its attempt and the budget agree in every reachable state,
\* whatever retries, expiries, recoveries, crashes and restarts interleave.
THEOREM InductiveInvariant == Spec => []IInv
  <1> QED
    BY IInvInit, IInvStep, PTL DEF Spec

\* The attempts, their expiry and the requests keep their types.
THEOREM TypeCorrect == Spec => []TypeOK
  <1>1. IInv => TypeOK
    BY DEF IInv
  <1> QED
    BY <1>1, InductiveInvariant, PTL

\* reserve, dispatch, finish and recover together never let an investigation
\* have more drafts made, in the making or of unknown outcome than its limit.
THEOREM BudgetHolds == Spec => []QuotaHeld
  <1>1. IInv => QuotaHeld
    BY DEF IInv
  <1> QED
    BY <1>1, InductiveInvariant, PTL

\* The route never waits for a provider without an attempt that occupies a
\* place, although an operator may recover the attempt during the call.
THEOREM CallsHoldTheirPlace == Spec => []CallHoldsPlace
  <1>1. ASSUME IInv PROVE CallHoldsPlace
    <2> SUFFICES ASSUME NEW r \in Requests, pc[r] = "calling"
                 PROVE  attempt[OperationOf[r]] \in [status : {"DISPATCHED", "UNKNOWN"}, task : {TaskOf[r]}]
      BY DEF CallHoldsPlace
    <2>1. attempt[OperationOf[r]] \in [status : Status, task : Tasks \cup {"none"}]
      BY <1>1, BudgetAssumption DEF IInv, TypeOK
    <2>2. HolderFits(r) /\ Involved(r)
      BY <1>1 DEF IInv, StatusOfHolder, Involved, Holding
    <2>3. /\ attempt[OperationOf[r]].status \in {"DISPATCHED", "UNKNOWN"}
          /\ attempt[OperationOf[r]].task = TaskOf[r]
      BY <2>2 DEF HolderFits
    <2> QED
      BY <2>1, <2>3
  <1> QED
    BY <1>1, InductiveInvariant, PTL

\* An operation id reaches the provider once: reserve refuses every later use
\* of it, concurrent ones, repeats after a failure and uses on another
\* investigation included.
THEOREM OneCallEach == Spec => []OneCallPerOperation
  <1>1. IInv => OneCallPerOperation
    BY DEF IInv, TypeOK, OneHolder, Involved, OneCallPerOperation
  <1> QED
    BY <1>1, InductiveInvariant, PTL

\* finish accepts what a request brings back from the provider, also after an
\* operator has marked the attempt unknown.
THEOREM DraftsAreRecorded == Spec => []NoDraftRefused
  <1>1. IInv => NoDraftRefused
    BY DEF IInv
  <1> QED
    BY <1>1, InductiveInvariant, PTL

-----------------------------------------------------------------------------
(* What a step does to the attempts, and the action properties.            *)

\* One attempt moves on: an open one, or one that is given its own status.
Moves(op, s) ==
    /\ Become(op, s)
    /\ attempt[op].status \in {"PENDING", "DISPATCHED", "UNKNOWN", s}
    /\ s \in Status \ {"NONE", "PENDING"}

\* A reservation, with the expiry of lost ones.
Reserves(r) ==
    LET op == OperationOf[r]
        t  == TaskOf[r]
    IN
    /\ attempt[op].status = "NONE"
    /\ Cardinality(Used(t) \ Expirable(t)) < Limit
    /\ attempt' = [o \in Operations |->
                      IF o = op THEN [status |-> "PENDING", task |-> t]
                      ELSE IF o \in Expirable(t) THEN [attempt[o] EXCEPT !.status = "EXPIRED"]
                      ELSE attempt[o]]

\* Every step leaves the attempts alone, reserves one or moves one.
LEMMA Effects ==
  ASSUME TypeOK, [Next]_vars
  PROVE  \/ UNCHANGED attempt
         \/ \E r \in Requests : Reserves(r)
         \/ \E op \in Operations, s \in Status : Moves(op, s)
  <1>1. CASE UNCHANGED vars
    BY <1>1 DEF vars
  <1>2. ASSUME NEW r \in Requests, Step(r) \/ Abort(r)
        PROVE  \/ UNCHANGED attempt \/ Reserves(r)
               \/ \E s \in Status : Moves(OperationOf[r], s)
    <2>1. CASE Reserve(r)
      BY <2>1 DEF Reserve, Reserves, Unused
    <2>2. CASE Dispatch(r)
      BY <2>2 DEF Dispatch, Dispatchable, Moves, Status
    <2>3. CASE Finish(r)
      BY <2>3 DEF Finish, Finishable, Moves, Status, TypeOK, Outcome
    <2>4. CASE Admit(r) \/ Prepare(r) \/ CheckDispatch(r) \/ Recheck(r) \/ Return(r) \/ Abort(r)
      BY <2>4 DEF Admit, Prepare, CheckDispatch, Recheck, Return, Abort
    <2> QED
      BY <1>2, <2>1, <2>2, <2>3, <2>4 DEF Step
  <1>3. ASSUME NEW op \in Operations, RecoverAttempt(op)
        PROVE  Moves(op, "UNKNOWN")
    BY <1>3 DEF RecoverAttempt, RecoveredOutcome, Moves, Status
  <1>4. ASSUME (\E op \in Operations : TimePasses(op)) \/ SecurityTransition \/ Restart \/ Restore
        PROVE  UNCHANGED attempt
    BY <1>4 DEF TimePasses, SecurityTransition, Restart, Restore
  <1>5. \A r \in Requests : OperationOf[r] \in Operations
    BY BudgetAssumption
  <1> QED
    BY <1>1, <1>2, <1>3, <1>4, <1>5 DEF Next, Status

LEMMA NewStatus ==
  \A a, b, s : [[status |-> a, task |-> b] EXCEPT !.status = s] = [status |-> s, task |-> b]
  OBVIOUS

\* What a move leaves in the attempts.
LEMMA MoveChanges ==
  ASSUME TypeOK, NEW op \in Operations, NEW s \in Status, Moves(op, s)
  PROVE  /\ attempt' = [attempt EXCEPT ![op] = [status |-> s, task |-> attempt[op].task]]
         /\ attempt[op] = [status |-> attempt[op].status, task |-> attempt[op].task]
  <1>1. attempt[op] = [status |-> attempt[op].status, task |-> attempt[op].task]
    BY DEF TypeOK
  <1>2. [attempt[op] EXCEPT !.status = s] = [status |-> s, task |-> attempt[op].task]
    BY <1>1, NewStatus
  <1> QED
    BY <1>1, <1>2 DEF Moves, Become

\* The outcome a draft request recorded is final: expiry, late dispatches and
\* late or repeated finishes leave it alone.
THEOREM OutcomesAreFinal == Spec => OutcomeFinal
  <1>1. ASSUME TypeOK, [Next]_vars PROVE KeepsOutcome
    <2> SUFFICES ASSUME NEW o \in Operations,
                        attempt[o].status \in {"SUCCEEDED", "FAILED", "EXPIRED"}
                 PROVE  attempt'[o] = attempt[o]
      BY DEF KeepsOutcome
    <2>1. ASSUME NEW r \in Requests, Reserves(r) PROVE attempt'[o] = attempt[o]
      BY <2>1 DEF Reserves, Expirable
    <2>2. ASSUME NEW op \in Operations, NEW s \in Status, Moves(op, s) PROVE attempt'[o] = attempt[o]
      <3>1. CASE o = op
        BY <1>1, <2>2, <3>1, MoveChanges DEF Moves, TypeOK
      <3>2. CASE o # op
        BY <1>1, <2>2, <3>2, MoveChanges DEF TypeOK
      <3> QED
        BY <3>1, <3>2
    <2> QED
      BY <1>1, <2>1, <2>2, Effects
  <1>2. TypeOK /\ [Next]_vars => [KeepsOutcome]_vars
    BY <1>1
  <1> QED
    BY <1>2, TypeCorrect, PTL DEF Spec, OutcomeFinal

\* Only the request that saw its call fail gives a dispatched place back.
THEOREM RefundsAreWitnessed == Spec => RefundIsWitnessed
  <1>1. ASSUME TypeOK, [Next]_vars PROVE RefundsOnlyKnown
    <2> SUFFICES ASSUME NEW o \in Operations,
                        attempt[o].status \in {"DISPATCHED", "UNKNOWN"},
                        attempt'[o].status \in {"FAILED", "EXPIRED"}
                 PROVE  \E r \in Requests : /\ OperationOf[r] = o
                                           /\ pc[r] = "finishing" /\ result[r] = "FAILED"
                                           /\ pc'[r] = "failed"
      BY DEF RefundsOnlyKnown
    <2>1. ASSUME NEW r \in Requests, Step(r) \/ Abort(r)
          PROVE  OperationOf[r] = o /\ pc[r] = "finishing" /\ result[r] = "FAILED" /\ pc'[r] = "failed"
      <3>1. ASSUME Reserve(r) PROVE FALSE
        BY <3>1 DEF Reserve, Expirable, Unused
      <3>2. ASSUME Dispatch(r) PROVE FALSE
        BY <1>1, <3>2 DEF Dispatch, Dispatchable, Become, TypeOK
      <3>3. CASE Finish(r)
        BY <1>1, <3>3 DEF Finish, Become, Go, TypeOK, Outcome
      <3>4. ASSUME Admit(r) \/ Prepare(r) \/ CheckDispatch(r) \/ Recheck(r) \/ Return(r) \/ Abort(r)
            PROVE  FALSE
        BY <3>4 DEF Admit, Prepare, CheckDispatch, Recheck, Return, Abort
      <3> QED
        BY <2>1, <3>1, <3>2, <3>3, <3>4 DEF Step
    <2>2. ASSUME \/ UNCHANGED vars \/ SecurityTransition \/ Restart \/ Restore
                 \/ \E op \in Operations : RecoverAttempt(op) \/ TimePasses(op)
          PROVE  FALSE
      BY <1>1, <2>2 DEF vars, SecurityTransition, Restart, Restore, RecoverAttempt, RecoveredOutcome,
                        Become, TimePasses, TypeOK
    <2> QED
      BY <1>1, <2>1, <2>2 DEF Next
  <1>2. TypeOK /\ [Next]_vars => [RefundsOnlyKnown]_vars
    BY <1>1
  <1> QED
    BY <1>2, TypeCorrect, PTL DEF Spec, RefundIsWitnessed

-----------------------------------------------------------------------------
(* The refinement.                                                         *)

LEMMA QuotaInit == Init => Quota!Init
  BY DEF Init, NoAttempt, Quota!Init, Place, PlaceState

LEMMA NewState ==
  \A a, b, s : [[state |-> a, task |-> b] EXCEPT !.state = s] = [state |-> s, task |-> b]
  OBVIOUS

LEMMA MoveSettles ==
  ASSUME TypeOK, NEW op \in Operations, NEW s \in Status, Moves(op, s)
  PROVE  Place' = Place \/ \E state \in {"spent", "returned"} : Quota!Settle(op, state)
  <1>1. /\ attempt' = [attempt EXCEPT ![op] = [status |-> s, task |-> attempt[op].task]]
        /\ attempt \in [Operations -> [status : Status, task : Tasks \cup {"none"}]]
    BY MoveChanges DEF TypeOK
  <1>2. Place' = [Place EXCEPT ![op] = [state |-> PlaceState[s], task |-> attempt[op].task]]
    BY <1>1 DEF Place
  <1>3. Place[op] = [state |-> PlaceState[attempt[op].status], task |-> attempt[op].task]
    BY DEF Place
  <1>4. CASE PlaceState[s] = PlaceState[attempt[op].status]
    BY <1>2, <1>3, <1>4 DEF Place
  <1>5. CASE PlaceState[s] # PlaceState[attempt[op].status]
    <2>1. PlaceState[attempt[op].status] = "held" /\ PlaceState[s] \in {"spent", "returned"}
      BY <1>5 DEF Moves, PlaceState, Status
    <2>2. [Place[op] EXCEPT !.state = PlaceState[s]] = [state |-> PlaceState[s], task |-> attempt[op].task]
      BY <1>3, NewState
    <2>3. Place' = [Place EXCEPT ![op] = [Place[op] EXCEPT !.state = PlaceState[s]]]
      BY <1>2, <2>2
    <2>4. Place' = [Place EXCEPT ![op].state = PlaceState[s]]
      BY <2>3
    <2>5. Place[op].state = "held"
      BY <1>3, <2>1
    <2>6. Quota!Settle(op, PlaceState[s])
      BY <2>1, <2>4, <2>5 DEF Quota!Settle
    <2> QED
      BY <2>1, <2>6
  <1> QED
    BY <1>4, <1>5

LEMMA ReserveTakes ==
  ASSUME TypeOK, QuotaHeld, NEW r \in Requests, Reserves(r)
  PROVE  \E op \in Operations, t \in Tasks, R \in SUBSET Operations : Quota!Take(op, t, R)
  <1> DEFINE op == OperationOf[r]
             t  == TaskOf[r]
             R  == Expirable(t)
  <1>1. op \in Operations /\ t \in Tasks /\ R \in SUBSET Operations
    BY BudgetAssumption DEF Expirable
  <1>2. Place[op].state = "none"
    BY <1>1 DEF Reserves, Place, PlaceState
  <1>3. \A lost \in R : Place[lost].state = "held" /\ Place[lost].task = t
    BY DEF Expirable, Place, PlaceState
  <1>4. Place' = [o \in Operations |->
                     IF o = op THEN [state |-> "held", task |-> t]
                     ELSE IF o \in R THEN [Place[o] EXCEPT !.state = "returned"]
                     ELSE Place[o]]
    <2>1. ASSUME NEW o \in Operations
          PROVE  Place'[o] = IF o = op THEN [state |-> "held", task |-> t]
                             ELSE IF o \in R THEN [Place[o] EXCEPT !.state = "returned"]
                             ELSE Place[o]
      <3>1. Place'[o] = [state |-> PlaceState[attempt'[o].status], task |-> attempt'[o].task]
        BY DEF Place
      <3>2. Place[o] = [state |-> PlaceState[attempt[o].status], task |-> attempt[o].task]
        BY DEF Place
      <3>3. CASE o = op
        BY <3>1, <3>3 DEF Reserves, PlaceState
      <3>4. CASE o # op /\ o \in R
        <4>1. attempt'[o].status = "EXPIRED" /\ attempt'[o].task = attempt[o].task
          BY <3>4 DEF Reserves, TypeOK
        <4> QED
          BY <3>1, <3>2, <3>4, <4>1 DEF PlaceState
      <3>5. CASE o # op /\ o \notin R
        BY <3>1, <3>2, <3>5 DEF Reserves
      <3> QED
        BY <3>3, <3>4, <3>5
    <2> HIDE DEF op, t, R
    <2> QED
      BY <2>1 DEF Place
  <1>5. Cardinality(Quota!Taken(Place', t)) <= Limit
    <2>1. Cardinality(Places(t)') <= Limit
      BY <1>1, OnePlaceTaken DEF Reserves
    <2>2. ASSUME NEW o \in Operations
          PROVE  Place'[o].state \in {"held", "spent"} /\ Place'[o].task = t
                     <=> attempt'[o].status \in {"PENDING", "DISPATCHED", "UNKNOWN", "SUCCEEDED"}
                         /\ attempt'[o].task = t
      <3>1. /\ Place'[o] = [state |-> PlaceState[attempt'[o].status], task |-> attempt'[o].task]
            /\ attempt'[o].status \in Status
        BY DEF Place, Reserves, TypeOK, Status
      <3> QED
        BY <3>1 DEF PlaceState, Status
    <2>3. Quota!Taken(Place', t) = Places(t)'
      BY <2>2 DEF Quota!Taken, Places
    <2> QED
      BY <2>1, <2>3
  <1>6. Quota!Take(op, t, R)
    <2> HIDE DEF op, t, R
    <2> QED
      BY <1>2, <1>3, <1>4, <1>5 DEF Quota!Take, Quota!Cardinality, Cardinality
  <1> QED
    BY <1>1, <1>6

\* The route, with all its races, implements a quota of places: it takes each
\* place once, within the limit, and spends it or gives it back once.
THEOREM QuotaImplemented == Spec => ImplementsQuota
  <1>1. ASSUME IInv, [Next]_vars PROVE [Quota!Next]_Place
    <2>1. CASE UNCHANGED attempt
      BY <2>1 DEF Place
    <2>2. ASSUME NEW r \in Requests, Reserves(r) PROVE Quota!Next
      BY <1>1, <2>2, ReserveTakes DEF IInv, Quota!Next
    <2>3. ASSUME NEW op \in Operations, NEW s \in Status, Moves(op, s) PROVE Place' = Place \/ Quota!Next
      BY <1>1, <2>3, MoveSettles DEF IInv, Quota!Next
    <2> QED
      BY <1>1, <2>1, <2>2, <2>3, Effects DEF IInv
  <1>2. IInv /\ [Next]_vars => [Quota!Next]_Place
    BY <1>1
  <1> QED
    BY <1>2, QuotaInit, InductiveInvariant, PTL DEF Spec, ImplementsQuota, Quota!Spec

-----------------------------------------------------------------------------
(* The authority the rest of the system counts on.                         *)

\* The report route runs under such an authority too, and the restoration it meets
\* leaves no draft unsettled.
THEOREM BudgetGoverned == Spec => GovernedAsPromised
  <1>1. Init => Governing!Init
    <2> SUFFICES ASSUME Init PROVE Governing!Init
      OBVIOUS
    <2>1. security = "normal" /\ fenced \in BOOLEAN
      BY DEF Init
    <2>2. Unsettled = {}
      BY DEF Init, Unsettled, NoAttempt
    <2> QED
      BY <2>1, <2>2 DEF Governing!Init
  <1>2. ASSUME [Next]_vars PROVE [Governing!Next]_<<security, fenced, Unsettled>>
    <2>1. CASE UNCHANGED vars
      BY <2>1 DEF vars, authority, Unsettled
    <2>2. CASE SecurityTransition
      <3>1. Governing!Transition
        BY <2>2 DEF SecurityTransition, Unsettled, Governing!Transition,
                    ValidTransitions, Governing!ValidTransitions
      <3> QED
        BY <3>1 DEF Governing!Next
    <2>3. CASE Restart
      <3>1. Governing!Fence \/ UNCHANGED <<security, fenced>>
        BY <2>3 DEF Restart, Unsettled, Governing!Fence
      <3> QED
        BY <3>1 DEF Governing!Next, Governing!Activity
    <2>4. CASE Restore
      <3>1. Governing!Restore
        BY <2>4 DEF Restore, Unsettled, Governing!Restore
      <3> QED
        BY <3>1 DEF Governing!Next
    <2>5. CASE UNCHANGED authority
      BY <2>5 DEF authority, Governing!Next, Governing!Activity
    <2>6. ASSUME NEW r \in Requests, Step(r) \/ Abort(r) PROVE UNCHANGED authority
      BY <2>6 DEF Step, Abort, Admit, Reserve, Prepare, CheckDispatch, Dispatch, Recheck, Return, Finish
    <2>7. ASSUME NEW op \in Operations, RecoverAttempt(op) \/ TimePasses(op) PROVE UNCHANGED authority
      BY <2>7 DEF RecoverAttempt, TimePasses
    <2> QED
      BY <1>2, <2>1, <2>2, <2>3, <2>4, <2>5, <2>6, <2>7 DEF Next
  <1>3. [Next]_vars => [Governing!Next]_<<security, fenced, Unsettled>>
    BY <1>2
  <1> QED
    BY <1>1, <1>3, PTL DEF Spec, GovernedAsPromised, Governing!Spec
=============================================================================
