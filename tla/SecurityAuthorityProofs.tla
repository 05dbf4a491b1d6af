----------------------- MODULE SecurityAuthorityProofs -----------------------
(***************************************************************************)
(* Theorems about SecurityAuthority, for any number of operators, epochs,  *)
(* records and versions.                                                   *)
(***************************************************************************)
EXTENDS SecurityAuthority, TLAPS

LEMMA BasisTyped == TypeOK => Basis \in BasisType
  BY DEF TypeOK, Basis, BasisType, Effective, SecurityState

-----------------------------------------------------------------------------
(* The audit.                                                              *)

\* AuditExplainsAuthority, for any audit and any authority.
Explains(T, v, s, e) ==
    /\ \A t \in T : t.version <= v
    /\ \A t, u \in T : t.version = u.version => t = u
    /\ \A t \in T : (\A u \in T : u.version <= t.version) => s = t.to /\ e = t.epoch
    /\ T = {} => s = "normal" /\ e = FirstEpoch

LEMMA AuditIsExplained == AuditExplainsAuthority <=> Explains(transitions, version, state, epoch)
  BY DEF AuditExplainsAuthority, Explains, Latest

LEMMA AuditGrows ==
  ASSUME NEW T \in SUBSET TransitionType, NEW v \in Nat, NEW s, NEW e,
         NEW t \in TransitionType, t.version = v + 1,
         Explains(T, v, s, e)
  PROVE  Explains(T \cup {t}, v + 1, t.to, t.epoch)
  <1>1. \A u \in T : u.version \in Nat /\ u.version <= v
    BY DEF Explains, TransitionType, Versions
  <1>2. \A u \in T \cup {t} : u.version <= v + 1
    BY <1>1
  <1>3. \A u, w \in T \cup {t} : u.version = w.version => u = w
    BY <1>1 DEF Explains
  <1>4. ASSUME NEW u \in T \cup {t}, \A w \in T \cup {t} : w.version <= u.version
        PROVE  u = t
    BY <1>1, <1>4
  <1> QED
    BY <1>2, <1>3, <1>4 DEF Explains

-----------------------------------------------------------------------------
(* What a step does to the authority.                                      *)

\* Nothing, beyond the gate of reconstruction.
Keeps == UNCHANGED authority /\ validating' \in {validating, FALSE}

\* It raises the fence.
Raises ==
    /\ ~pending /\ pending'
    /\ origin' = [state |-> state, version |-> version]
    /\ version' = version + 1
    /\ UNCHANGED <<state, epoch, transitions, validating, artifacts, seen>>

\* It adds the entry t to the audit, in a row without fence.
Moves(t) ==
    /\ t \in TransitionType /\ t.version = version + 1
    /\ version' = version + 1
    /\ state' = t.to /\ epoch' = t.epoch
    /\ pending' = FALSE /\ origin' = NoOrigin
    /\ transitions' = transitions \cup {t}
    /\ ~validating
    /\ UNCHANGED <<validating, artifacts, seen>>

\* A restoration by x, with the context that earned it.
Restores(c, x) ==
    /\ c \in ContextIds /\ x \in ExecutionIds
    /\ pending /\ ~validating
    /\ contexts[c] # None /\ contexts[c].basis = Basis /\ contexts[c].events = events
    /\ Unresolved = {} /\ ~Partial
    /\ executions[x] # None /\ executions[x].context = c

\* Restoration and replacement together.
Rotates(c, x, e) ==
    /\ Restores(c, x)
    /\ e \in Epochs /\ NewEpoch(e)
    /\ version' = version + 2
    /\ state' = "normal" /\ epoch' = e
    /\ pending' = FALSE /\ origin' = NoOrigin
    /\ transitions' = transitions \cup {Restoration(x), Replacement(e, version + 2, x)}
    /\ UNCHANGED <<validating, artifacts, seen>>

\* What a single entry may be: an ordinary transition, a restoration or a
\* replacement.
Ordinary(t) ==
    ~pending /\ t.epoch = epoch /\ t.cites = None /\ <<t.from, t.to>> \in ValidTransitions
Replacing(t) == ~pending /\ t.from = "normal" /\ NewEpoch(t.epoch)

LEMMA RestorableMeans ==
  ASSUME TypeOK, NEW a \in Operators, NEW c \in ContextIds, NEW x \in ExecutionIds,
         Restorable(a, c, x)
  PROVE  Restores(c, x)
  <1>1. contexts[c] # None /\ contexts[c].basis = Basis /\ contexts[c].events = events /\ ~Partial
    BY DEF Restorable, Reconciled, Lineage, EvidenceUnchanged
  <1>2. Unresolved = {}
    BY DEF Restorable, Reconciled, OutcomesKnown
  <1> QED
    BY <1>1, <1>2 DEF Restorable, Restores, Authorizes

LEMMA Effects ==
  ASSUME TypeOK, RowLoads, Next
  PROVE  \/ Keeps
         \/ Raises
         \/ \E t \in TransitionType : Moves(t) /\ ( \/ Ordinary(t)
                                                    \/ Replacing(t)
                                                    \/ \E c \in ContextIds, x \in ExecutionIds :
                                                          Restores(c, x) /\ t = Restoration(x))
         \/ \E c \in ContextIds, x \in ExecutionIds, e \in Epochs : Rotates(c, x, e)
  <1> USE DEF Keeps
  <1>1. ASSUME NEW a \in Operators, Observe(a) PROVE Keeps
    BY <1>1 DEF Observe
  <1>2. ASSUME NEW a \in Operators, NEW s \in StateChanges, Transition(a, s)
        PROVE  \E t \in TransitionType : Moves(t) /\ Ordinary(t)
    <2> DEFINE t == Moved(state, s, version + 1, epoch, None)
    <2>1. t \in TransitionType
      BY AuthorityAssumption DEF TypeOK, TransitionType, Moved, Versions
    <2>2. ~pending /\ pending = FALSE /\ pending' = FALSE /\ origin' = NoOrigin /\ ~validating
      BY <1>2 DEF Transition, RowLoads, TypeOK
    <2> QED
      BY <1>2, <2>1, <2>2 DEF Transition, Moves, Ordinary, Moved, Authorized
  <1>3. ASSUME NEW a \in Operators, NEW c \in ContextIds, Capture(a, c) PROVE Keeps
    BY <1>3 DEF Capture
  <1>4. ASSUME NEW a \in Operators, NEW g \in GrantIds, NEW c \in ContextIds \cup {None},
               NEW k \in Capabilities, IssueGrant(a, g, c, k)
        PROVE  Keeps
    BY <1>4 DEF IssueGrant
  <1>5. ASSUME NEW a \in Operators, NEW x \in ExecutionIds, NEW g \in GrantIds,
               NEW c \in ContextIds \cup {None}, IssueExecution(a, x, g, c)
        PROVE  Keeps
    BY <1>5 DEF IssueExecution
  <1>6. ASSUME NEW a \in Operators, NEW c \in ContextIds, NEW x \in ExecutionIds, Complete(a, c, x)
        PROVE  \E t \in TransitionType : Moves(t) /\ Restores(c, x) /\ t = Restoration(x)
    <2>1. Restores(c, x)
      BY <1>6, RestorableMeans DEF Complete
    <2>2. Restoration(x) \in TransitionType
      BY DEF TypeOK, TransitionType, Restoration, Moved, Versions, SecurityState
    <2> QED
      BY <1>6, <2>1, <2>2 DEF Complete, ClearFence, Moves, Restoration, Moved, Restores
  <1>7. ASSUME NEW a \in Operators, NEW c \in ContextIds, NEW x \in ExecutionIds, NEW e \in Epochs,
               CompleteReconstruction(a, c, x, e)
        PROVE  Rotates(c, x, e)
    BY <1>7, RestorableMeans DEF CompleteReconstruction, ClearFence, Rotates
  <1>8. ASSUME NEW a \in Operators, NEW t \in transitions, NEW e \in Epochs, Replace(a, t, e)
        PROVE  \E u \in TransitionType : Moves(u) /\ Replacing(u)
    <2> DEFINE u == Replacement(e, version + 1, t.cites)
    <2>1. u \in TransitionType
      BY DEF TypeOK, TransitionType, Replacement, Attributed, Moved, Versions, SecurityState
    <2>2. pending' = FALSE /\ origin' = NoOrigin /\ ~validating /\ state' = "normal"
      BY <1>8 DEF Replace, Replaceable, RowLoads, TypeOK
    <2> QED
      BY <1>8, <2>1, <2>2 DEF Replace, Replaceable, Moves, Replacing, Replacement, Attributed, Moved
  <1>9. CASE BootRecovery
    BY <1>9 DEF BootRecovery, BootVersion, Raises, TypeOK
  <1>10. CASE PublishReadiness
    BY <1>10 DEF PublishReadiness
  <1>11. ASSUME NEW id \in ContextIds \cup GrantIds \cup ExecutionIds, Expire(id) PROVE Keeps
    BY <1>11 DEF Expire
  <1>12. ASSUME NEW e \in Events, Record(e) PROVE Keeps
    BY <1>12 DEF Record
  <1>13. ASSUME NEW o \in Operations, Open(o) \/ Settle(o) PROVE Keeps
    BY <1>13 DEF Open, Settle
  <1> QED
    BY <1>1, <1>2, <1>3, <1>4, <1>5, <1>6, <1>7, <1>8, <1>9, <1>10, <1>11, <1>12, <1>13 DEF Next

\* Steps that leave the records alone, and all but one what operators know.
LeavesRecords ==
    \/ \E a \in Operators :
        \/ \E s \in StateChanges : Transition(a, s)
        \/ \E c \in ContextIds : \E x \in ExecutionIds : Complete(a, c, x)
        \/ \E c \in ContextIds : \E x \in ExecutionIds : \E e \in Epochs :
              CompleteReconstruction(a, c, x, e)
        \/ \E t \in transitions : \E e \in Epochs : Replace(a, t, e)
    \/ BootRecovery \/ PublishReadiness
    \/ \E e \in Events : Record(e)
    \/ \E o \in Operations : Open(o) \/ Settle(o)
    \/ UNCHANGED vars

LEMMA RecordsLeft == LeavesRecords => UNCHANGED <<contexts, grants, executions, seen>>
  <1>1. LeavesRecords => UNCHANGED <<artifacts, seen>>
    BY DEF LeavesRecords, Transition, Complete, CompleteReconstruction, Replace, BootRecovery,
           PublishReadiness, Record, Open, Settle, vars
  <1> QED
    BY <1>1 DEF artifacts

\* Records are never rewritten, new grants carry the epoch and version in
\* force, and operators know what they knew or what is so.
RecordsGrow ==
    /\ \A c \in ContextIds : contexts[c] # None => contexts'[c] = contexts[c]
    /\ \A x \in ExecutionIds : executions[x] # None => executions'[x] = executions[x]
    /\ \A g \in GrantIds :
         \/ grants'[g] = grants[g]
         \/ Keeps /\ grants'[g].epoch = epoch /\ grants'[g].version = version
    /\ \A a \in Operators : seen'[a] = seen[a] \/ (Keeps /\ seen'[a] = Basis)

LEMMA RecordEffects ==
  ASSUME TypeOK, [Next]_vars
  PROVE  RecordsGrow
  <1>1. CASE LeavesRecords
    BY <1>1, RecordsLeft DEF RecordsGrow
  <1>2. ASSUME NEW a \in Operators, Observe(a) PROVE RecordsGrow
    BY <1>2 DEF Observe, Keeps, TypeOK, artifacts, RecordsGrow
  <1>3. ASSUME NEW a \in Operators, NEW c \in ContextIds, Capture(a, c) PROVE RecordsGrow
    BY <1>3 DEF Capture, TypeOK, RecordsGrow
  <1>4. ASSUME NEW a \in Operators, NEW g \in GrantIds, NEW c \in ContextIds \cup {None},
               NEW k \in Capabilities, IssueGrant(a, g, c, k)
        PROVE  RecordsGrow
    BY <1>4 DEF IssueGrant, Keeps, TypeOK, RecordsGrow
  <1>5. ASSUME NEW a \in Operators, NEW x \in ExecutionIds, NEW g \in GrantIds,
               NEW c \in ContextIds \cup {None}, IssueExecution(a, x, g, c)
        PROVE  RecordsGrow
    BY <1>5 DEF IssueExecution, TypeOK, RecordsGrow
  <1>6. ASSUME NEW id \in ContextIds \cup GrantIds \cup ExecutionIds, Expire(id)
        PROVE  RecordsGrow
    BY <1>6 DEF Expire, RecordsGrow
  <1> QED
    BY <1>1, <1>2, <1>3, <1>4, <1>5, <1>6 DEF Next, LeavesRecords

-----------------------------------------------------------------------------
(* Types.                                                                  *)

AuthorityTyped ==
    /\ state \in SecurityState /\ version \in Versions /\ epoch \in Epochs /\ pending \in BOOLEAN
    /\ origin \in [state : SecurityState, version : Versions] \cup {NoOrigin}
    /\ validating \in BOOLEAN
    /\ transitions \in SUBSET TransitionType

LEMMA AuthorityStaysTyped ==
  ASSUME TypeOK, RowLoads, [Next]_vars
  PROVE  AuthorityTyped'
  <1>1. CASE UNCHANGED vars
    BY <1>1 DEF vars, authority, TypeOK, AuthorityTyped
  <1>2. CASE Keeps
    BY <1>2 DEF Keeps, authority, TypeOK, AuthorityTyped
  <1>3. CASE Raises
    BY <1>3 DEF Raises, TypeOK, AuthorityTyped, Versions
  <1>4. ASSUME NEW t \in TransitionType, Moves(t) PROVE AuthorityTyped'
    <2>1. t.to \in SecurityState /\ t.epoch \in Epochs
      BY DEF TransitionType
    <2>2. version' \in Versions
      BY <1>4 DEF Moves, TypeOK, Versions
    <2>3. validating' \in BOOLEAN /\ FALSE \in BOOLEAN
      BY <1>4 DEF Moves, TypeOK
    <2>4. transitions' \in SUBSET TransitionType
      BY <1>4 DEF Moves, TypeOK
    <2> QED
      BY <1>4, <2>1, <2>2, <2>3, <2>4 DEF Moves, AuthorityTyped
  <1>5. ASSUME NEW c \in ContextIds, NEW x \in ExecutionIds, NEW e \in Epochs, Rotates(c, x, e)
        PROVE  AuthorityTyped'
    <2>1. Restoration(x) \in TransitionType /\ Replacement(e, version + 2, x) \in TransitionType
      BY DEF TypeOK, TransitionType, Restoration, Replacement, Attributed, Moved, Versions, SecurityState
    <2>2. version' \in Versions
      BY <1>5 DEF Rotates, TypeOK, Versions
    <2>3. validating' \in BOOLEAN /\ FALSE \in BOOLEAN
      BY <1>5 DEF Rotates, TypeOK
    <2>4. transitions' \in SUBSET TransitionType
      BY <1>5, <2>1 DEF Rotates, TypeOK
    <2>5. "normal" \in SecurityState
      BY DEF SecurityState
    <2> QED
      BY <1>5, <2>2, <2>3, <2>4, <2>5 DEF Rotates, AuthorityTyped
  <1> QED
    BY <1>1, <1>2, <1>3, <1>4, <1>5, Effects

RecordsTyped ==
    /\ events \in SUBSET Events
    /\ operation \in [Operations -> {"absent", "open", "settled"}]
    /\ contexts \in [ContextIds -> ContextType \cup {None}]
    /\ grants \in [GrantIds -> GrantType \cup {None}]
    /\ executions \in [ExecutionIds -> ExecutionType \cup {None}]
    /\ expired \in SUBSET (ContextIds \cup GrantIds \cup ExecutionIds)
    /\ seen \in [Operators -> BasisType]

LEMMA TypeStep ==
  ASSUME TypeOK, RowLoads, [Next]_vars
  PROVE  TypeOK'
  <1>0. AuthorityTyped'
    BY AuthorityStaysTyped
  <1>1. ASSUME UNCHANGED <<artifacts, world, seen>> PROVE RecordsTyped'
    BY <1>1 DEF artifacts, world, TypeOK, RecordsTyped
  <1>2. ASSUME NEW a \in Operators, Observe(a) PROVE RecordsTyped'
    BY <1>2, BasisTyped DEF Observe, artifacts, world, TypeOK, RecordsTyped
  <1>3. ASSUME NEW a \in Operators, NEW c \in ContextIds, Capture(a, c) PROVE RecordsTyped'
    <2>1. Partial \in BOOLEAN /\ Unresolved \in SUBSET Operations
      BY DEF Partial, Unresolved
    <2>2. [basis |-> Basis, transitions |-> transitions, events |-> events,
           unresolved |-> Unresolved, partial |-> Partial] \in ContextType
      BY <2>1, BasisTyped DEF ContextType, TypeOK
    <2> QED
      BY <1>3, <2>2 DEF Capture, world, TypeOK, RecordsTyped
  <1>4. ASSUME NEW a \in Operators, NEW g \in GrantIds, NEW c \in ContextIds \cup {None},
               NEW k \in Capabilities, IssueGrant(a, g, c, k)
        PROVE  RecordsTyped'
    BY <1>4 DEF IssueGrant, world, TypeOK, RecordsTyped, GrantType
  <1>5. ASSUME NEW a \in Operators, NEW x \in ExecutionIds, NEW g \in GrantIds,
               NEW c \in ContextIds \cup {None}, IssueExecution(a, x, g, c)
        PROVE  RecordsTyped'
    BY <1>5 DEF IssueExecution, world, TypeOK, RecordsTyped, ExecutionType
  <1>6. ASSUME NEW id \in ContextIds \cup GrantIds \cup ExecutionIds, Expire(id) PROVE RecordsTyped'
    BY <1>6 DEF Expire, world, TypeOK, RecordsTyped
  <1>7. ASSUME NEW e \in Events, Record(e) PROVE RecordsTyped'
    BY <1>7 DEF Record, artifacts, TypeOK, RecordsTyped
  <1>8. ASSUME NEW o \in Operations, Open(o) \/ Settle(o) PROVE RecordsTyped'
    BY <1>8 DEF Open, Settle, artifacts, TypeOK, RecordsTyped
  <1>9. ASSUME LeavesRecords PROVE RecordsTyped'
    <2>1. \/ UNCHANGED <<artifacts, world, seen>>
          \/ \E e \in Events : Record(e)
          \/ \E o \in Operations : Open(o) \/ Settle(o)
      BY <1>9 DEF LeavesRecords, Transition, Complete, CompleteReconstruction, Replace,
                  BootRecovery, PublishReadiness, vars
    <2> QED
      BY <1>1, <1>7, <1>8, <2>1
  <1>10. RecordsTyped'
    BY <1>2, <1>3, <1>4, <1>5, <1>6, <1>9 DEF Next, LeavesRecords
  <1> QED
    BY <1>0, <1>10 DEF AuthorityTyped, RecordsTyped, TypeOK

-----------------------------------------------------------------------------
(* The inductive invariant.                                                *)

LEMMA InvInit == Init => IInv
  <1> SUFFICES ASSUME Init PROVE IInv
    OBVIOUS
  <1> USE AuthorityAssumption DEF Init
  <1>1. TypeOK
    <2>1. AuthorityTyped
      <3>1. "normal" \in SecurityState /\ {1, 2} \subseteq Versions
        BY DEF SecurityState, Versions
      <3>2. pending \in BOOLEAN /\ version \in Versions
        BY <3>1
      <3>3. origin \in [state : SecurityState, version : Versions] \cup {NoOrigin}
        BY <3>1
      <3> QED
        BY <3>1, <3>2, <3>3 DEF AuthorityTyped
    <2>2. Basis \in BasisType
      BY <2>1 DEF AuthorityTyped, Basis, BasisType, Effective, SecurityState
    <2> QED
      BY <2>1, <2>2 DEF AuthorityTyped, TypeOK
  <1>2. RowLoads
    BY DEF RowLoads, NoOrigin
  <1>3. VersionIdentifiesAuthority /\ SeenIsPast
    BY <1>1 DEF VersionIdentifiesAuthority, SeenIsPast, Basis, TypeOK, Versions
  <1>4. AuditExplainsAuthority
    BY DEF AuditExplainsAuthority
  <1>5. CitedInContext /\ EpochIsRecorded /\ GrantsArePast
    BY DEF CitedInContext, Restorations, EpochIsRecorded, GrantsArePast
  <1> QED
    BY <1>1, <1>2, <1>3, <1>4, <1>5 DEF IInv

LEMMA RowStep ==
  ASSUME TypeOK, RowLoads, [Next]_vars
  PROVE  RowLoads'
  <1>1. CASE UNCHANGED vars
    BY <1>1 DEF vars, authority, RowLoads
  <1>2. CASE Keeps
    <2>1. pending' = pending /\ origin' = origin /\ version' = version
      BY <1>2 DEF Keeps, authority
    <2>2. validating' => validating
      BY <1>2 DEF Keeps
    <2> QED
      BY <2>1, <2>2 DEF RowLoads
  <1>3. CASE Raises
    <2>1. [state |-> state, version |-> version] # NoOrigin
      BY DEF NoOrigin, TypeOK, SecurityState
    <2> QED
      BY <1>3, <2>1 DEF Raises, RowLoads, TypeOK, Versions
  <1>4. ASSUME NEW t \in TransitionType, Moves(t) PROVE RowLoads'
    BY <1>4 DEF Moves, RowLoads
  <1>5. ASSUME NEW c \in ContextIds, NEW x \in ExecutionIds, NEW e \in Epochs, Rotates(c, x, e)
        PROVE  RowLoads'
    BY <1>5 DEF Rotates, Restores, RowLoads
  <1> QED
    BY <1>1, <1>2, <1>3, <1>4, <1>5, Effects

\* Whatever moves the row raises its version.
LEMMA VersionMoves ==
  ASSUME TypeOK, RowLoads, [Next]_vars
  PROVE  \/ version' = version /\ Basis' = Basis
         \/ ~Keeps /\ version' \in Nat /\ version' > version
  <1>1. CASE UNCHANGED vars
    BY <1>1 DEF vars, authority, Basis
  <1>2. CASE Keeps
    BY <1>2 DEF Keeps, authority, Basis
  <1>3. CASE Raises
    <2>1. version' = version + 1 /\ version \in Nat
      BY <1>3 DEF Raises, TypeOK, Versions
    <2>2. Keeps => version' = version
      BY DEF Keeps, authority
    <2> QED
      BY <2>1, <2>2
  <1>4. ASSUME NEW t \in TransitionType, Moves(t)
        PROVE  ~Keeps /\ version' \in Nat /\ version' > version
    BY <1>4 DEF Moves, Keeps, authority, TypeOK, Versions
  <1>5. ASSUME NEW c \in ContextIds, NEW x \in ExecutionIds, NEW e \in Epochs, Rotates(c, x, e)
        PROVE  ~Keeps /\ version' \in Nat /\ version' > version
    BY <1>5 DEF Rotates, Keeps, authority, TypeOK, Versions
  <1> QED
    BY <1>1, <1>2, <1>3, <1>4, <1>5, Effects

LEMMA SeenStep ==
  ASSUME TypeOK, RowLoads, VersionIdentifiesAuthority, SeenIsPast, [Next]_vars
  PROVE  VersionIdentifiesAuthority' /\ SeenIsPast'
  <1> SUFFICES ASSUME NEW a \in Operators
               PROVE  /\ seen'[a].version = version' => seen'[a] = Basis'
                      /\ seen'[a].version <= version'
    BY DEF VersionIdentifiesAuthority, SeenIsPast
  <1>1. version \in Nat /\ seen[a].version \in Nat /\ seen[a].version <= version
    BY DEF TypeOK, Versions, BasisType, SeenIsPast
  <1>2. seen'[a] = seen[a] \/ (Keeps /\ seen'[a] = Basis)
    BY RecordEffects DEF RecordsGrow
  <1>3. Basis.version = version
    BY DEF Basis
  <1>4. seen[a].version = version => seen[a] = Basis
    BY DEF VersionIdentifiesAuthority
  <1>5. CASE version' = version /\ Basis' = Basis
    BY <1>1, <1>2, <1>3, <1>4, <1>5
  <1>6. CASE ~Keeps /\ version' \in Nat /\ version' > version
    BY <1>1, <1>2, <1>6
  <1> QED
    BY <1>5, <1>6, VersionMoves

LEMMA AuditStep ==
  ASSUME TypeOK, RowLoads, AuditExplainsAuthority, [Next]_vars
  PROVE  AuditExplainsAuthority'
  <1>0. Explains(transitions, version, state, epoch)
    BY AuditIsExplained
  <1>a. version \in Nat /\ transitions \in SUBSET TransitionType
    BY DEF TypeOK, Versions
  <1>b. SUFFICES Explains(transitions', version', state', epoch')
    BY DEF AuditExplainsAuthority, Explains, Latest
  <1>1. CASE UNCHANGED vars
    BY <1>0, <1>1 DEF vars, authority
  <1>2. CASE Keeps
    BY <1>0, <1>2 DEF Keeps, authority
  <1>3. CASE Raises
    <2>1. \A t \in transitions : t.version \in Nat
      BY <1>a DEF TransitionType, Versions
    <2> QED
      BY <1>0, <1>3, <1>a, <2>1 DEF Raises, Explains
  <1>4. ASSUME NEW t \in TransitionType, Moves(t)
        PROVE  Explains(transitions', version', state', epoch')
    BY <1>0, <1>4, <1>a, AuditGrows DEF Moves
  <1>5. ASSUME NEW c \in ContextIds, NEW x \in ExecutionIds, NEW e \in Epochs, Rotates(c, x, e)
        PROVE  Explains(transitions', version', state', epoch')
    <2> DEFINE r == Restoration(x)
               p == Replacement(e, version + 2, x)
    <2>1. /\ r \in TransitionType /\ r.version = version + 1 /\ r.to = "normal" /\ r.epoch = epoch
          /\ p \in TransitionType /\ p.version = version + 2 /\ p.to = "normal" /\ p.epoch = e
      BY DEF TypeOK, TransitionType, Restoration, Replacement, Attributed, Moved, Versions, SecurityState
    <2> HIDE DEF r, p
    <2>2. Explains(transitions \cup {r}, version + 1, "normal", epoch)
      BY <1>0, <1>a, <2>1, AuditGrows
    <2>3. /\ transitions \cup {r} \in SUBSET TransitionType
          /\ version + 1 \in Nat /\ p.version = (version + 1) + 1
      BY <1>a, <2>1
    <2>4. Explains((transitions \cup {r}) \cup {p}, (version + 1) + 1, "normal", e)
      BY <2>1, <2>2, <2>3, AuditGrows
    <2>5. /\ transitions' = (transitions \cup {r}) \cup {p} /\ version' = (version + 1) + 1
          /\ state' = "normal" /\ epoch' = e
      BY <1>5, <1>a DEF Rotates, r, p
    <2> QED
      BY <2>4, <2>5
  <1> QED
    BY <1>1, <1>2, <1>3, <1>4, <1>5, Effects

\* Every restoration in the audit was earned, now or before.
LEMMA CitedStep ==
  ASSUME TypeOK, RowLoads, CitedInContext, [Next]_vars
  PROVE  CitedInContext'
  <1> DEFINE Earned(t) == /\ executions[t.cites] # None
                          /\ executions[t.cites].context \in ContextIds
                          /\ contexts[executions[t.cites].context] # None
                          /\ contexts[executions[t.cites].context].basis.version = t.version - 1
             Kept(T) == \A t \in T : t.from = "recovery_required" /\ t.cites # None => Earned(t)
  <1>0. Kept(transitions)
    BY DEF CitedInContext, Restorations
  <1>1. transitions \in SUBSET TransitionType
    BY DEF TypeOK
  <1>2. \A t \in TransitionType : t.cites # None => t.cites \in ExecutionIds
    BY DEF TransitionType
  <1>3. ASSUME NEW t \in TransitionType, t.cites # None, Earned(t) PROVE Earned(t)'
    <2>1. t.cites \in ExecutionIds
      BY <1>2, <1>3
    <2>2. executions'[t.cites] = executions[t.cites]
      BY <1>3, <2>1, RecordEffects DEF RecordsGrow
    <2>3. contexts'[executions[t.cites].context] = contexts[executions[t.cites].context]
      BY <1>3, RecordEffects DEF RecordsGrow
    <2> QED
      BY <1>3, <2>2, <2>3
  <1>4. ASSUME NEW c \in ContextIds, NEW x \in ExecutionIds, Restores(c, x)
        PROVE  Restoration(x) \in TransitionType /\ Earned(Restoration(x))
    <2>1. Restoration(x) \in TransitionType
      BY DEF TypeOK, TransitionType, Restoration, Moved, Versions, SecurityState
    <2>2. Basis.version = version /\ version \in Nat
      BY DEF Basis, TypeOK, Versions
    <2> QED
      BY <1>4, <2>1, <2>2 DEF Restores, Restoration, Moved
  <1>5. \/ transitions' = transitions
        \/ \E t \in TransitionType : /\ transitions' = transitions \cup {t}
                                     /\ t.cites = None \/ t.from = "normal" \/ Earned(t)
        \/ \E t, u \in TransitionType : /\ transitions' = transitions \cup {t, u}
                                        /\ Earned(t) /\ u.from = "normal"
    <2>1. CASE UNCHANGED vars
      BY <2>1 DEF vars, authority
    <2>2. CASE Keeps
      BY <2>2 DEF Keeps, authority
    <2>3. CASE Raises
      BY <2>3 DEF Raises
    <2>4. ASSUME NEW t \in TransitionType, Moves(t), Ordinary(t) \/ Replacing(t)
          PROVE  /\ transitions' = transitions \cup {t}
                 /\ t.cites = None \/ t.from = "normal"
      BY <2>4 DEF Moves, Ordinary, Replacing
    <2>5. ASSUME NEW t \in TransitionType, Moves(t), NEW c \in ContextIds, NEW x \in ExecutionIds,
                 Restores(c, x), t = Restoration(x)
          PROVE  transitions' = transitions \cup {t} /\ Earned(t)
      BY <2>5, <1>4 DEF Moves
    <2>6. ASSUME NEW c \in ContextIds, NEW x \in ExecutionIds, NEW e \in Epochs, Rotates(c, x, e)
          PROVE  \E t, u \in TransitionType : /\ transitions' = transitions \cup {t, u}
                                              /\ Earned(t) /\ u.from = "normal"
      <3>1. /\ Replacement(e, version + 2, x) \in TransitionType
            /\ Replacement(e, version + 2, x).from = "normal"
        BY DEF TypeOK, TransitionType, Replacement, Attributed, Moved, Versions, SecurityState
      <3>2. Restoration(x) \in TransitionType /\ Earned(Restoration(x))
        BY <1>4, <2>6 DEF Rotates
      <3>3. transitions' = transitions \cup {Restoration(x), Replacement(e, version + 2, x)}
        BY <2>6 DEF Rotates
      <3> HIDE DEF Earned
      <3> QED
        BY <3>1, <3>2, <3>3
    <2> HIDE DEF Earned
    <2> QED
      BY <2>1, <2>2, <2>3, <2>4, <2>5, <2>6, Effects
  <1>6. \A t \in transitions' : t.from = "recovery_required" /\ t.cites # None => Earned(t)'
    <2> SUFFICES ASSUME NEW t \in transitions', t.from = "recovery_required", t.cites # None
                 PROVE  Earned(t)'
      OBVIOUS
    <2> HIDE DEF Earned
    <2>1. t \in TransitionType /\ Earned(t)
      BY <1>0, <1>1, <1>5
    <2> QED
      BY <1>3, <2>1
  <1> QED
    BY <1>6 DEF CitedInContext, Restorations

\* The epoch and the audit's replacements change only together, and then to an
\* epoch the audit has not named.
EpochEffect ==
    /\ transitions \subseteq transitions' /\ EpochIsRecorded'
    /\ \/ epoch' = epoch /\ Replacements' = Replacements
       \/ NewEpoch(epoch') /\ ~Keeps

LEMMA EpochEffects ==
  ASSUME TypeOK, RowLoads, EpochIsRecorded, [Next]_vars
  PROVE  EpochEffect
  <1> USE DEF EpochEffect
  <1>1. CASE UNCHANGED vars
    BY <1>1 DEF vars, authority, EpochIsRecorded, Replacements
  <1>2. CASE Keeps
    BY <1>2 DEF Keeps, authority, EpochIsRecorded, Replacements
  <1>3. CASE Raises
    BY <1>3 DEF Raises, EpochIsRecorded, Replacements
  <1>4. ASSUME NEW t \in TransitionType, Moves(t), Ordinary(t)
        PROVE  EpochEffect
    <2>1. ~(t.from = "normal" /\ t.to = "normal")
      BY <1>4 DEF Ordinary, ValidTransitions
    <2>2. epoch' = epoch /\ transitions' = transitions \cup {t} /\ t.epoch = epoch
      BY <1>4 DEF Moves, Ordinary
    <2> QED
      BY <2>1, <2>2 DEF EpochIsRecorded, Replacements
  <1>5. ASSUME NEW t \in TransitionType, Moves(t), Replacing(t)
        PROVE  EpochEffect
    <2>1. ~Keeps
      BY <1>5 DEF Moves, Keeps, authority, TypeOK, Versions
    <2> QED
      BY <1>5, <2>1 DEF Moves, Replacing, EpochIsRecorded
  <1>6. ASSUME NEW t \in TransitionType, Moves(t), NEW x \in ExecutionIds, t = Restoration(x)
        PROVE  EpochEffect
    <2>1. t.from # "normal" /\ t.epoch = epoch
      BY <1>6 DEF Restoration, Moved
    <2> QED
      BY <1>6, <2>1 DEF Moves, EpochIsRecorded, Replacements
  <1>7. ASSUME NEW c \in ContextIds, NEW x \in ExecutionIds, NEW e \in Epochs, Rotates(c, x, e)
        PROVE  EpochEffect
    <2>1. Replacement(e, version + 2, x).epoch = e
      BY DEF Replacement, Attributed, Moved
    <2>2. ~Keeps
      BY <1>7 DEF Rotates, Keeps, authority, TypeOK, Versions
    <2> QED
      BY <1>7, <2>1, <2>2 DEF Rotates, EpochIsRecorded
  <1> HIDE DEF EpochEffect
  <1> QED
    BY <1>1, <1>2, <1>3, <1>4, <1>5, <1>6, <1>7, Effects

LEMMA GrantsStep ==
  ASSUME TypeOK, RowLoads, EpochIsRecorded, GrantsArePast, [Next]_vars
  PROVE  GrantsArePast'
  <1> SUFFICES ASSUME NEW g \in GrantIds, grants'[g] # None
               PROVE  grants'[g].epoch \in EpochsUsed' /\ grants'[g].version <= version'
    BY DEF GrantsArePast
  <1>1. EpochsUsed \subseteq EpochsUsed'
    BY EpochEffects DEF EpochEffect, EpochsUsed, EpochIsRecorded
  <1>2. version \in Nat /\ version' \in Nat /\ version <= version'
    BY VersionMoves DEF TypeOK, Versions
  <1>3. CASE grants'[g] = grants[g]
    <2>1. grants[g].epoch \in EpochsUsed /\ grants[g].version <= version
      BY <1>3 DEF GrantsArePast
    <2>2. grants[g].version \in Nat
      BY <1>3 DEF TypeOK, GrantType, Versions
    <2> QED
      BY <1>1, <1>2, <1>3, <2>1, <2>2
  <1>4. CASE grants'[g].epoch = epoch /\ grants'[g].version = version
    BY <1>1, <1>2, <1>4 DEF EpochsUsed
  <1> QED
    BY <1>3, <1>4, RecordEffects DEF RecordsGrow

LEMMA InvStep == IInv /\ [Next]_vars => IInv'
  BY TypeStep, RowStep, SeenStep, AuditStep, CitedStep, EpochEffects, GrantsStep
     DEF IInv, EpochEffect

-----------------------------------------------------------------------------
(* Theorems.                                                               *)

\* The inductive invariant: row, audit and records agree in every reachable
\* state of the authority, whatever is requested of it and in whatever order.
THEOREM InductiveInvariant == Spec => []IInv
  BY InvInit, InvStep, PTL DEF Spec

\* Every variable keeps its type.
THEOREM TypeCorrect == Spec => []TypeOK
  BY InductiveInvariant, PTL DEF IInv

\* No sequence of boots, transitions, restorations and reconstructions leaves a
\* security row that the store's own validation refuses to load.
THEOREM RowAlwaysLoads == Spec => []RowLoads
  BY InductiveInvariant, PTL DEF IInv

\* The compare-and-set of transition and restoration, which compares a version,
\* compares the whole authority: state, epoch, fence and origin.
THEOREM VersionIdentifies == Spec => []VersionIdentifiesAuthority
  BY InductiveInvariant, PTL DEF IInv

\* The security_transitions table explains the stored state and epoch, with at
\* most one entry per version.
THEOREM AuditExplains == Spec => []AuditExplainsAuthority
  BY InductiveInvariant, PTL DEF IInv

\* An execution authorization completes at most one restoration: its context is
\* bound to the version that the restoration replaced.
THEOREM UsedOnce == Spec => []AuthorizationUsedOnce
  <1>1. IInv => AuthorizationUsedOnce
    <2> SUFFICES ASSUME IInv, NEW t \in Restorations, NEW u \in Restorations, t.cites = u.cites
                 PROVE  t = u
      BY DEF AuthorizationUsedOnce
    <2>1. t \in transitions /\ u \in transitions /\ t.version \in Nat /\ u.version \in Nat
      BY DEF IInv, TypeOK, Restorations, TransitionType, Versions
    <2>2. t.version - 1 = u.version - 1
      BY DEF IInv, CitedInContext
    <2> QED
      BY <2>1, <2>2 DEF IInv, AuditExplainsAuthority
  <1> QED
    BY <1>1, InductiveInvariant, PTL

\* Where callers name replacement epochs that were never used, authorizations
\* of a replaced epoch never become current again.
THEOREM RetiredStay ==
  ASSUME FreshEpochs
  PROVE  Spec => []RetiredStayRetired
  <1>1. Init => RetiredStayRetired
    BY DEF Init, RetiredStayRetired
  <1>2. IInv /\ RetiredStayRetired /\ [Next]_vars => RetiredStayRetired'
    <2> SUFFICES ASSUME IInv, RetiredStayRetired, [Next]_vars,
                        NEW g \in GrantIds, NEW t \in Replacements',
                        grants'[g] # None, grants'[g].epoch = epoch'
                 PROVE  grants'[g].version >= t.version
      BY DEF RetiredStayRetired
    <2>1. /\ TypeOK /\ RowLoads /\ EpochIsRecorded /\ GrantsArePast
          /\ \A u \in transitions : u.version <= version
      BY DEF IInv, AuditExplainsAuthority
    <2>2. EpochEffect
      BY <2>1, EpochEffects
    <2>3. \/ grants'[g] = grants[g]
          \/ Keeps /\ grants'[g].epoch = epoch /\ grants'[g].version = version
      BY <2>1, RecordEffects DEF RecordsGrow
    <2>4. CASE epoch' = epoch /\ Replacements' = Replacements
      <3>1. t \in transitions /\ t \in Replacements
        BY <2>4 DEF Replacements
      <3>2. CASE grants'[g] = grants[g]
        BY <2>4, <3>1, <3>2 DEF RetiredStayRetired
      <3>3. CASE grants'[g].version = version
        <4>1. t.version \in Nat /\ version \in Nat
          BY <2>1, <3>1 DEF TypeOK, TransitionType, Versions
        <4> QED
          BY <2>1, <3>1, <3>3, <4>1
      <3> QED
        BY <2>3, <3>2, <3>3
    <2>5. CASE NewEpoch(epoch') /\ ~Keeps
      <3>1. grants[g] # None /\ grants[g].epoch \in EpochsUsed /\ grants[g].epoch = epoch'
        BY <2>1, <2>3, <2>5 DEF GrantsArePast
      <3> QED
        BY <2>5, <3>1 DEF NewEpoch
    <2> QED
      BY <2>2, <2>4, <2>5 DEF EpochEffect
  <1> QED
    BY <1>1, <1>2, InductiveInvariant, PTL DEF Spec

\* complete and complete_reconstruction drop the fence only where no attempt is
\* open and a context captured behind this fence holds the whole evidence.
THEOREM FenceClears == Spec => FenceClearsEarned
  <1>1. IInv /\ [Next]_vars => ClearsEarned
    <2> SUFFICES ASSUME IInv, [Next]_vars, pending, ~pending' PROVE ClearsEarned
      BY DEF ClearsEarned
    <2>1. ~Keeps /\ ~Raises
      BY DEF Keeps, Raises, authority
    <2>2. \E c \in ContextIds, x \in ExecutionIds : Restores(c, x)
      BY <2>1, Effects DEF IInv, Ordinary, Replacing, Rotates, vars, authority
    <2>3. PICK c \in ContextIds, x \in ExecutionIds : Restores(c, x)
      BY <2>2
    <2> QED
      BY <2>3 DEF Restores, ClearsEarned, Basis
  <1> QED
    BY <1>1, InductiveInvariant, PTL DEF Spec, FenceClearsEarned

\* While the recovery fence stands, no service moves the authority.
THEOREM FenceStands == Spec => FenceStandsStill
  <1>1. IInv /\ [Next]_vars => StandsStill
    <2> SUFFICES ASSUME IInv, [Next]_vars, pending, pending' PROVE UNCHANGED authority
      BY DEF StandsStill
    <2>1. CASE UNCHANGED vars
      BY <2>1 DEF vars
    <2>2. CASE Keeps
      BY <2>2 DEF Keeps
    <2>3. ~Raises
      BY DEF Raises
    <2>4. \A t \in TransitionType : ~Moves(t)
      BY DEF Moves
    <2>5. \A c \in ContextIds, x \in ExecutionIds, e \in Epochs : ~Rotates(c, x, e)
      BY DEF Rotates
    <2> QED
      BY <2>1, <2>2, <2>3, <2>4, <2>5, Effects DEF IInv
  <1> QED
    BY <1>1, InductiveInvariant, PTL DEF Spec, FenceStandsStill

-----------------------------------------------------------------------------
(* The authority the rest of the system counts on.                         *)

\* The whole machinery of recovery is, to the rest of the system, a state that
\* moves along the graph, a fence, and a restoration with nothing open.
THEOREM AuthorityGoverns == Spec => GovernsAsPromised
  <1>1. Init => Governing!Init
    BY DEF Init, Governing!Init, Unresolved
  <1>2. ASSUME IInv, [Next]_vars PROVE [Governing!Next]_<<state, pending, Unresolved>>
    <2>1. CASE UNCHANGED vars
      BY <2>1 DEF vars, authority, world, Unresolved
    <2>2. ASSUME NEW a \in Operators, NEW s \in StateChanges, Transition(a, s)
          PROVE  Governing!Transition
      BY <2>2 DEF Transition, Authorized, world, Unresolved, Governing!Transition,
                  ValidTransitions, Governing!ValidTransitions
    <2>3. CASE BootRecovery
      <3>1. Governing!Fence
        BY <2>3 DEF BootRecovery, world, Unresolved, Governing!Fence
      <3> QED
        BY <3>1 DEF Governing!Next
    <2>4. ASSUME NEW a \in Operators, NEW c \in ContextIds, NEW x \in ExecutionIds,
                 Restorable(a, c, x), ClearFence, UNCHANGED world
          PROVE  Governing!Restore
      <3>1. pending /\ Unresolved = {}
        BY <1>2, <2>4, RestorableMeans DEF IInv, Restores
      <3> QED
        BY <2>4, <3>1 DEF ClearFence, world, Unresolved, Governing!Restore
    <2>5. CASE UNCHANGED <<state, pending>>
      BY <2>5 DEF Governing!Next, Governing!Activity
    <2>6. Next \/ UNCHANGED vars
      BY <1>2
    <2>7. \/ UNCHANGED vars
          \/ UNCHANGED <<state, pending>>
          \/ \E a \in Operators, s \in StateChanges : Transition(a, s)
          \/ BootRecovery
          \/ \E a \in Operators, c \in ContextIds, x \in ExecutionIds :
                Restorable(a, c, x) /\ ClearFence /\ UNCHANGED world
      BY <2>6 DEF Next, Observe, Capture, IssueGrant, IssueExecution, Expire, Record, Open, Settle,
                  PublishReadiness, Replace, Complete, CompleteReconstruction, authority
    <2> QED
      BY <2>1, <2>2, <2>3, <2>4, <2>5, <2>7 DEF Governing!Next
  <1>3. IInv /\ [Next]_vars => [Governing!Next]_<<state, pending, Unresolved>>
    BY <1>2
  <1> QED
    BY <1>1, <1>3, InductiveInvariant, PTL DEF Spec, GovernsAsPromised, Governing!Spec
=============================================================================
