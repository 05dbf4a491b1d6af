-------------------------- MODULE SecurityAuthority --------------------------
(***************************************************************************)
(* The persisted security authority of one database: its state, version    *)
(* and epoch, the recovery fence, and everything that may move them:       *)
(* ordinary transitions, recovery boots, protected restoration and the     *)
(* replacement of the epoch, with the contexts and authorizations that     *)
(* restoration demands.                                                    *)
(*                                                                         *)
(* Every service here is one transaction that locks the singleton row      *)
(* first (REPEATABLE READ, FOR UPDATE or FOR SHARE), so each is one step.  *)
(* What a caller expects, it read in an earlier transaction: seen[a] is    *)
(* the basis operator a last read, however old.                            *)
(*                                                                         *)
(* Abstractions.  Clocks are the set of expired records.  Evidence is the  *)
(* identity of transitions and of events (research events, memory, source  *)
(* and stopping changes alike).  An exact repeat of a command that was     *)
(* carried out returns history and is a stutter.                           *)
(***************************************************************************)
EXTENDS Integers, FiniteSets, SecurityCapability

CONSTANTS
    Operators,      \* callers: local operators, detectors, recovery services
    Epochs,         \* authority epoch ids
    FirstEpoch,     \* the epoch of the newly migrated database
    ContextIds, GrantIds, ExecutionIds,
    Operations,     \* durable cycle and provider attempts
    Events,         \* durable evidence other than transitions
    EvidenceLimit,  \* records an inventory may hold (100 in the code)
    None,
    FreshEpochs,    \* callers name a new epoch by a UUID never used before
    StateChanges,   \* bound: states an ordinary transition asks for
    MaxVersion      \* bound: the version

ASSUME AuthorityAssumption ==
    /\ FirstEpoch \in Epochs
    /\ EvidenceLimit \in Nat
    /\ FreshEpochs \in BOOLEAN
    /\ StateChanges \subseteq SecurityState
    /\ MaxVersion \in Nat

VARIABLES
    state,          \* stored security state
    version,        \* its version
    epoch,          \* authority epoch
    pending,        \* recovery bootstrap pending: the fence
    origin,         \* what the fence was raised over
    validating,     \* a reconstructed database that is not yet validated
    transitions,    \* append-only audit of the authority
    events,         \* durable evidence
    operation,      \* outcome of each durable attempt
    contexts,       \* captured recovery contexts
    grants,         \* operator authorizations
    executions,     \* execution authorizations
    expired,        \* records past their expiry
    seen            \* the basis each operator last read

authority == <<state, version, epoch, pending, origin, transitions>>
artifacts == <<contexts, grants, executions, expired>>
world     == <<events, operation>>
vars      == <<authority, validating, artifacts, world, seen>>

NoOrigin == [state |-> "none", version |-> 0]

Capabilities == {"recovery_action", "authority_administration"}

\* What a caller can read and later be held to.
Basis == [state   |-> Effective(state, pending), version |-> version,
          epoch   |-> epoch, pending |-> pending, origin |-> origin]

\* A migrated database, or one that reconstruction has just filled from the
\* first backup of such a database.
Init ==
    /\ state = "normal"
    /\ epoch = FirstEpoch
    /\ \/ version = 1 /\ pending = FALSE /\ origin = NoOrigin
       \/ version = 2 /\ pending = TRUE /\ origin = [state |-> "normal", version |-> 1]
    /\ validating = pending
    /\ transitions = {}
    /\ events = {}
    /\ operation = [o \in Operations |-> "absent"]
    /\ contexts = [c \in ContextIds |-> None]
    /\ grants = [g \in GrantIds |-> None]
    /\ executions = [x \in ExecutionIds |-> None]
    /\ expired = {}
    /\ seen = [a \in Operators |-> Basis]

Moved(from, to, v, e, cited) ==
    [from |-> from, to |-> to, version |-> v, epoch |-> e, cites |-> cited]

Unresolved == {o \in Operations : operation[o] = "open"}

\* An inventory that does not fit is partial and reconciles nothing.
Partial ==
    \/ Cardinality(transitions) + Cardinality(events) > EvidenceLimit
    \/ Cardinality(Unresolved) > EvidenceLimit

EpochsUsed == {FirstEpoch, epoch} \cup {t.epoch : t \in transitions}

-----------------------------------------------------------------------------
(* Reading, and ordinary transitions.                                      *)

Observe(a) ==
    /\ seen' = [seen EXCEPT ![a] = Basis]
    /\ UNCHANGED <<authority, validating, artifacts, world>>

Actors == {"local_operator", "security_detector", "security_recovery_service"}

Findings == {"SECURITY_INVARIANT_VIOLATION", "INTEGRITY_CHECK_FAILED",
             "CREDENTIAL_COMPROMISE_SUSPECTED", "AUTHORITY_BOUNDARY_VIOLATION"}

\* Who may ask for a state, and for which reason; the edge must be structural.
Authorized(from, to, actor, reason) ==
    /\ <<from, to>> \in ValidTransitions
    /\ \/ /\ to = "degraded"
          /\ \/ actor \in {"local_operator", "security_detector"}
                /\ reason = "SECURITY_DEPENDENCY_DEGRADED"
             \/ actor = "local_operator" /\ reason = "OPERATOR_DEGRADED_MODE"
       \/ /\ to \in {"compromised_suspected", "lockdown"}
          /\ actor \in {"local_operator", "security_detector"}
          /\ reason \in Findings
       \/ to = "lockdown" /\ actor = "local_operator" /\ reason = "OPERATOR_LOCKDOWN"
       \/ /\ to = "recovery_required"
          /\ actor \in {"local_operator", "security_recovery_service"}
          /\ reason = "RECOVERY_STARTED"
       \/ /\ to = "normal"
          /\ actor \in {"local_operator", "security_recovery_service"}
          /\ reason = "RECOVERY_VERIFIED"

Reasons == Findings \cup {"SECURITY_DEPENDENCY_DEGRADED", "OPERATOR_DEGRADED_MODE",
                          "OPERATOR_LOCKDOWN", "RECOVERY_STARTED", "RECOVERY_VERIFIED"}

DirectionOf(from, to) ==
    IF from = "normal" THEN "reduce" ELSE IF to = "normal" THEN "broaden" ELSE "preserve"

Capable(from, to) ==
    LET direction == DirectionOf(from, to) IN
    /\ Allows(from, "authority_administration", direction)
    /\ IF direction = "broaden" \/ to = "recovery_required"
       THEN Allows(from, "recovery_action", "preserve")
       ELSE Allows(from, "security_containment", direction)

\* Compare-and-set: the version is all that the caller is held to.
Transition(a, s) ==
    /\ ~pending /\ seen[a].version = version
    /\ version < MaxVersion
    /\ \E actor \in Actors : \E reason \in Reasons : Authorized(state, s, actor, reason)
    /\ Capable(state, s)
    /\ state' = s
    /\ version' = version + 1
    /\ transitions' = transitions \cup {Moved(state, s, version + 1, epoch, None)}
    /\ UNCHANGED <<epoch, pending, origin, validating, artifacts, world, seen>>

-----------------------------------------------------------------------------
(* Recovery: the fence, the evidence and the authorizations.               *)

SilentBoot == version                                 \* mutant of BootVersion
BootVersion == version + 1

\* A process that starts in recovery mode; behind a fence it changes nothing.
BootRecovery ==
    /\ ~pending
    /\ version < MaxVersion
    /\ pending' = TRUE
    /\ origin' = [state |-> state, version |-> version]
    /\ version' = BootVersion
    /\ UNCHANGED <<state, epoch, transitions, validating, artifacts, world, seen>>

\* The reconstruction that filled the database publishes its readiness.
PublishReadiness ==
    /\ validating
    /\ validating' = FALSE
    /\ UNCHANGED <<authority, artifacts, world, seen>>

\* capture: the caller must know the whole basis as it is now.
Capture(a, c) ==
    /\ ~validating
    /\ contexts[c] = None
    /\ pending /\ seen[a] = Basis
    /\ contexts' = [contexts EXCEPT ![c] =
                      [basis |-> Basis, transitions |-> transitions, events |-> events,
                       unresolved |-> Unresolved, partial |-> Partial]]
    /\ UNCHANGED <<authority, validating, grants, executions, expired, world, seen>>

\* issue_operator: the context it names need not have been captured yet.
IssueGrant(a, g, c, capability) ==
    /\ grants[g] = None
    /\ validating => c = None /\ capability # "recovery_action"
    /\ seen[a].epoch = epoch
    /\ grants' = [grants EXCEPT ![g] = [epoch |-> epoch, version |-> version,
                                        capability |-> capability, context |-> c]]
    /\ UNCHANGED <<authority, validating, contexts, executions, expired, world, seen>>

Live(g) == grants[g] # None /\ grants[g].epoch = epoch /\ g \notin expired

\* issue_execution: never wider than its grant, whose capability it takes.
IssueExecution(a, x, g, c) ==
    /\ executions[x] = None
    /\ Live(g)
    /\ c \in {None, grants[g].context}
    /\ validating => /\ c = None /\ grants[g].context = None
                     /\ grants[g].capability # "recovery_action"
    /\ seen[a].epoch = epoch
    /\ executions' = [executions EXCEPT ![x] = [grant |-> g, epoch |-> epoch, context |-> c]]
    /\ UNCHANGED <<authority, validating, contexts, grants, expired, world, seen>>

\* An execution authorization never outlives its grant.
Expire(id) ==
    /\ \/ id \in ContextIds /\ contexts[id] # None
       \/ id \in GrantIds /\ grants[id] # None
       \/ id \in ExecutionIds /\ executions[id] # None
    /\ id \notin expired
    /\ expired' = expired \cup {id} \cup
                  {x \in ExecutionIds : executions[x] # None /\ executions[x].grant = id}
    /\ UNCHANGED <<authority, validating, contexts, grants, executions, world, seen>>

-----------------------------------------------------------------------------
(* Protected restoration and the replacement of the epoch.                 *)

\* authority lineage
Lineage(c) == contexts[c].basis = Basis /\ c \notin expired

\* history, evidence and configuration integrity
EvidenceUnchanged(c) ==
    /\ ~contexts[c].partial /\ ~Partial
    /\ contexts[c].transitions = transitions
    /\ contexts[c].events = events

\* operation outcomes: nothing new is open and nothing captured is unknown
CapturedSettled(c) == contexts[c].unresolved \cap Unresolved = {}   \* mutant of OutcomesKnown
OutcomesKnown(c) ==
    /\ Unresolved \subseteq contexts[c].unresolved
    /\ contexts[c].unresolved \cap Unresolved = {}

OperationsOnly(c) == contexts[c] # None /\ OutcomesKnown(c)         \* mutant of Reconciled
Reconciled(c) ==
    /\ contexts[c] # None
    /\ Lineage(c) /\ EvidenceUnchanged(c) /\ OutcomesKnown(c)

\* validate_execution_authorization and the binding to the context
Authorizes(x, c) ==
    /\ executions[x] # None
    /\ x \notin expired
    /\ executions[x].epoch = epoch
    /\ executions[x].context = c
    /\ Live(executions[x].grant)
    /\ grants[executions[x].grant].context = c
    /\ grants[executions[x].grant].capability = "recovery_action"

\* What complete and complete_reconstruction require of the locked row.
Restorable(a, c, x) ==
    /\ ~validating /\ pending
    /\ seen[a].epoch = epoch /\ seen[a].version = version
    /\ Reconciled(c)
    /\ Authorizes(x, c)

Restoration(x) == Moved("recovery_required", "normal", version + 1, epoch, x)

ClearFence == pending' = FALSE /\ origin' = NoOrigin /\ state' = "normal"

Complete(a, c, x) ==
    /\ Restorable(a, c, x)
    /\ version < MaxVersion
    /\ ClearFence
    /\ version' = version + 1
    /\ transitions' = transitions \cup {Restoration(x)}
    /\ UNCHANGED <<epoch, validating, artifacts, world, seen>>

\* The code asks only that the new epoch differs from the current one.
NewEpoch(e) == e # epoch /\ (FreshEpochs => e \notin EpochsUsed)

OldAttribution(e) == epoch                            \* mutant of Attributed
Attributed(e) == e

\* A replacement cites the restoration it follows.
Replacement(e, v, x) == Moved("normal", "normal", v, Attributed(e), x)

\* Restoration and replacement in one transaction, or neither.
CompleteReconstruction(a, c, x, e) ==
    /\ Restorable(a, c, x)
    /\ version + 1 < MaxVersion
    /\ NewEpoch(e)
    /\ ClearFence
    /\ epoch' = e
    /\ version' = version + 2
    /\ transitions' = transitions \cup {Restoration(x), Replacement(e, version + 2, x)}
    /\ UNCHANGED <<validating, artifacts, world, seen>>

\* replace: normal authority whose audit holds a restoration in this epoch.
Replaceable == state = "normal" /\ ~pending

Replace(a, t, e) ==
    /\ Replaceable
    /\ seen[a].epoch = epoch /\ seen[a].version = version
    /\ t.from = "recovery_required" /\ t.to = "normal"
    /\ t.epoch = epoch /\ t.cites # None
    /\ NewEpoch(e)
    /\ version < MaxVersion
    /\ epoch' = e
    /\ version' = version + 1
    /\ transitions' = transitions \cup {Replacement(e, version + 1, t.cites)}
    /\ UNCHANGED <<state, pending, origin, validating, artifacts, world, seen>>

-----------------------------------------------------------------------------
(* The rest of the system: services whose own check of the fence is not    *)
(* under its lock go on writing for a while.                               *)

Record(e) ==
    /\ e \notin events
    /\ events' = events \cup {e}
    /\ UNCHANGED <<authority, validating, artifacts, operation, seen>>

Open(o) ==
    /\ operation[o] = "absent"
    /\ operation' = [operation EXCEPT ![o] = "open"]
    /\ UNCHANGED <<authority, validating, artifacts, events, seen>>

Settle(o) ==
    /\ operation[o] = "open"
    /\ operation' = [operation EXCEPT ![o] = "settled"]
    /\ UNCHANGED <<authority, validating, artifacts, events, seen>>

-----------------------------------------------------------------------------
Next ==
    \/ \E a \in Operators :
        \/ Observe(a)
        \/ \E s \in StateChanges : Transition(a, s)
        \/ \E c \in ContextIds : Capture(a, c)
        \/ \E g \in GrantIds : \E c \in ContextIds \cup {None} : \E k \in Capabilities :
                IssueGrant(a, g, c, k)
        \/ \E x \in ExecutionIds : \E g \in GrantIds : \E c \in ContextIds \cup {None} :
                IssueExecution(a, x, g, c)
        \/ \E c \in ContextIds : \E x \in ExecutionIds : Complete(a, c, x)
        \/ \E c \in ContextIds : \E x \in ExecutionIds : \E e \in Epochs :
                CompleteReconstruction(a, c, x, e)
        \/ \E t \in transitions : \E e \in Epochs : Replace(a, t, e)
    \/ BootRecovery \/ PublishReadiness
    \/ \E id \in ContextIds \cup GrantIds \cup ExecutionIds : Expire(id)
    \/ \E e \in Events : Record(e)
    \/ \E o \in Operations : Open(o) \/ Settle(o)

Spec == Init /\ [][Next]_vars

-----------------------------------------------------------------------------
(* Safety.                                                                 *)

Versions == Nat \ {0}

BasisType == [state : SecurityState, version : Versions, epoch : Epochs, pending : BOOLEAN,
              origin : [state : SecurityState, version : Versions] \cup {NoOrigin}]

TransitionType == [from : SecurityState, to : SecurityState, version : Versions,
                   epoch : Epochs, cites : ExecutionIds \cup {None}]

ContextType == [basis : BasisType, transitions : SUBSET TransitionType,
                events : SUBSET Events, unresolved : SUBSET Operations, partial : BOOLEAN]

GrantType == [epoch : Epochs, version : Versions, capability : Capabilities,
              context : ContextIds \cup {None}]

ExecutionType == [grant : GrantIds, epoch : Epochs, context : ContextIds \cup {None}]

TypeOK ==
    /\ state \in SecurityState
    /\ version \in Versions
    /\ epoch \in Epochs
    /\ pending \in BOOLEAN
    /\ origin \in [state : SecurityState, version : Versions] \cup {NoOrigin}
    /\ validating \in BOOLEAN
    /\ transitions \in SUBSET TransitionType
    /\ events \in SUBSET Events
    /\ operation \in [Operations -> {"absent", "open", "settled"}]
    /\ contexts \in [ContextIds -> ContextType \cup {None}]
    /\ grants \in [GrantIds -> GrantType \cup {None}]
    /\ executions \in [ExecutionIds -> ExecutionType \cup {None}]
    /\ expired \in SUBSET (ContextIds \cup GrantIds \cup ExecutionIds)
    /\ seen \in [Operators -> BasisType]

\* The row always passes the store's own validation: fence, origin and the gate
\* of reconstruction are set and cleared together, so no committed step leaves
\* an authority that nobody can load.
RowLoads ==
    /\ pending <=> origin # NoOrigin
    /\ validating => pending /\ version > origin.version

\* Within one database a version identifies the whole authority: whoever holds
\* the current version, however long ago it was read, knows state, epoch and
\* fence as they are.  This is what the compare-and-set of transition rests on.
VersionIdentifiesAuthority ==
    \A a \in Operators : seen[a].version = version => seen[a] = Basis

Latest(t) == \A u \in transitions : u.version <= t.version

\* The append-only audit explains the stored authority: one entry per version,
\* and the last of them names the state and the epoch now in force.
AuditExplainsAuthority ==
    /\ \A t \in transitions : t.version <= version
    /\ \A t, u \in transitions : t.version = u.version => t = u
    /\ \A t \in transitions : Latest(t) => state = t.to /\ epoch = t.epoch
    /\ transitions = {} => state = "normal" /\ epoch = FirstEpoch

Restorations == {t \in transitions : t.from = "recovery_required" /\ t.cites # None}
Replacements == {t \in transitions : t.from = "normal" /\ t.to = "normal"}

\* An execution authorization restores authority at most once, although nothing
\* in its record says that it was used.
AuthorizationUsedOnce ==
    \A t, u \in Restorations : t.cites = u.cites => t = u

\* Authorizations issued before an epoch was replaced stay history: none of
\* them is ever of the current epoch again.
RetiredStayRetired ==
    \A g \in GrantIds : \A t \in Replacements :
        grants[g] # None /\ grants[g].epoch = epoch => grants[g].version >= t.version

-----------------------------------------------------------------------------
(* What makes the invariants inductive.                                    *)

SeenIsPast == \A a \in Operators : seen[a].version <= version

\* A restoration's context was captured at the version it replaced.
CitedInContext ==
    \A t \in Restorations :
        /\ executions[t.cites] # None
        /\ executions[t.cites].context \in ContextIds
        /\ contexts[executions[t.cites].context] # None
        /\ contexts[executions[t.cites].context].basis.version = t.version - 1

\* The epoch in force is the first one or the audit names it.
EpochIsRecorded == epoch \in {FirstEpoch} \cup {t.epoch : t \in transitions}

GrantsArePast ==
    \A g \in GrantIds :
        grants[g] # None => grants[g].epoch \in EpochsUsed /\ grants[g].version <= version

IInv ==
    /\ TypeOK
    /\ RowLoads
    /\ VersionIdentifiesAuthority /\ SeenIsPast
    /\ AuditExplainsAuthority
    /\ CitedInContext
    /\ EpochIsRecorded /\ GrantsArePast

-----------------------------------------------------------------------------
(* Action properties.                                                      *)

\* The fence falls only onto a system without open attempts whose whole
\* evidence was inventoried under this very fence.
ClearsEarned ==
    pending /\ ~pending' =>
        /\ Unresolved = {} /\ ~Partial /\ ~validating
        /\ \E c \in ContextIds : /\ contexts[c] # None
                                 /\ contexts[c].basis.origin = origin
                                 /\ contexts[c].events = events

FenceClearsEarned == [][ClearsEarned]_vars

\* Behind the fence the authority stands still: neither a transition nor an
\* epoch replacement moves what restoration will find.
StandsStill == pending /\ pending' => UNCHANGED authority

FenceStandsStill == [][StandsStill]_vars

-----------------------------------------------------------------------------
(* What it is to the rest of the system.                                   *)

Governing == INSTANCE AuthorityEnvironment
                 WITH security <- state, fenced <- pending, open <- Unresolved

\* However transitions, boots, restorations and replacements race, the authority
\* moves only as governed work may count on.
GovernsAsPromised == Governing!Spec
=============================================================================
