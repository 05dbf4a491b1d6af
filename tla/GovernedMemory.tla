--------------------------- MODULE GovernedMemory ---------------------------
(***************************************************************************)
(* The governed memory of one investigation: claims and the assessments    *)
(* that cite them, changed by proposals with an expected version, by the   *)
(* ingestion of claims, by the submission of assessments and by reversals  *)
(* within 48 hours, with an append-only journal of every change.           *)
(*                                                                         *)
(* Every operation is one transaction under the lock of the investigation  *)
(* and of the security row, so it is one step.  What makes it hard is the  *)
(* order of legal operations and the age of what their authors have seen.  *)
(*                                                                         *)
(* Abstractions.  A source stands for a link, with its kind of support; a  *)
(* statement stands for the text and confidence of a claim or an           *)
(* assessment; a change id is its place in the journal.  A repeated        *)
(* request with a known change id, a repeated reversal and every refusal   *)
(* change nothing and are stutters.  Audit events are left out.            *)
(***************************************************************************)
EXTENDS Integers, Sequences, SecurityCapability

CONSTANTS
    Claims, Assessments,    \* ids
    Hypotheses, Sources,
    Statements, Statuses,
    Unverified,             \* the only status an extractor may give
    Operators,              \* callers of the API, each with its own knowledge
    Legacy,                 \* claims older than the journal
    None,
    Window,                 \* 48 hours
    MaxTime, MaxChanges,    \* bounds
    StateChanges            \* bound: security states a transition asks for

ASSUME MemoryAssumption ==
    /\ Claims \cap Assessments = {}
    /\ Legacy \subseteq Claims
    /\ Unverified \in Statuses
    /\ Window \in Nat /\ MaxTime \in Nat /\ MaxChanges \in Nat
    /\ StateChanges \subseteq SecurityState
    /\ None \notin Hypotheses

VARIABLES
    memory,         \* the current version and state of each target
    journal,        \* memory_changes, in order
    cycleClaims,    \* claims that a cycle of the investigation lists
    seen,           \* the memory each operator last read
    active,         \* the investigation's status is active
    security,       \* the security state the store loads, the fence included
    now

vars == <<memory, journal, cycleClaims, seen, active, security, now>>

Targets   == Claims \cup Assessments
Lifecycle == {"active", "archived", "logically_deleted"}
Operation == {"CREATE", "UPDATE", "ARCHIVE", "LOGICAL_DELETE", "RESTORE", "REVERSE"}
Extractor == "claim_extractor"

ClaimState == [lifecycle: Lifecycle, statement: Statements, status: Statuses,
               links: SUBSET Sources \ {{}}, about: {None}]
AssessmentState == [lifecycle: Lifecycle, statement: Statements, status: Statuses,
                    links: SUBSET Claims \ {{}}, about: Hypotheses]
StateOf(t) == IF t \in Claims THEN ClaimState ELSE AssessmentState

ASSUME NoneAssumption == None \notin ClaimState \cup AssessmentState

Absent == [version |-> 0, state |-> None]

Init ==
    /\ \E old \in [Legacy -> {s \in ClaimState : s.lifecycle = "active"}] :
          memory = [t \in Targets |->
              IF t \in Legacy THEN [version |-> 1, state |-> old[t]] ELSE Absent]
    /\ journal = <<>>
    /\ cycleClaims = {}
    /\ seen = [o \in Operators |-> memory]
    /\ active = TRUE
    /\ security = "normal"
    /\ now = 0

----------------------------------------------------------------------------
(* Validation, under the locks.                                            *)

Governed == Allows(security, "memory_mutation", "none")

Exists(t) == memory[t].version > 0
State(t)  == memory[t].state
Usable(t) == Exists(t) /\ State(t).lifecycle = "active"

\* Assessments that cite a claim, in whatever lifecycle they are.
Citing(c) == {a \in Assessments : Exists(a) /\ c \in State(a).links}

\* Dependent research requires explicit reassessment.
FrozenByActive(c) ==                                  \* mutant of Frozen
    c \in cycleClaims \/ \E a \in Citing(c) : Usable(a)
FrozenByAssessment(c) == Citing(c) # {}               \* mutant of Frozen
Frozen(c) == c \in cycleClaims \/ Citing(c) # {}

\* An ordinary update keeps the sources a claim already has.
KeepsSources(before, after) == before.links \subseteq after.links

\* One assessment per hypothesis, on active claims.
Assessable(t, after) ==
    /\ \A a \in Assessments \ {t} : Exists(a) => State(a).about # after.about
    /\ \A c \in after.links : Usable(c)

\* _validate_state
Valid(t, after, detach) ==
    IF t \in Claims
    THEN Exists(t) => /\ detach \/ KeepsSources(State(t), after)
                      /\ State(t) # after => ~Frozen(t)
    ELSE Assessable(t, after)

\* What each lifecycle operation starts from and leads to.
From == [ARCHIVE |-> {"active"}, LOGICAL_DELETE |-> {"active", "archived"},
         RESTORE |-> {"archived", "logically_deleted"}]
To   == [ARCHIVE |-> "archived", LOGICAL_DELETE |-> "logically_deleted",
         RESTORE |-> "active"]

\* The version of the record at which a proposal is aimed.
Current(t, expected) == memory[t].version = expected

----------------------------------------------------------------------------
(* Changes.                                                                *)

OldVersion(t, reverses) ==                            \* mutant of NewVersion
    IF reverses = 0 THEN memory[t].version + 1 ELSE memory[t].version - 1
NewVersion(t, reverses) == memory[t].version + 1

\* _write: the record, its links and the journal's entry.
Write(by, t, operation, after, reverses) ==
    /\ Len(journal) < MaxChanges
    /\ memory' = [memory EXCEPT ![t] =
           [version |-> NewVersion(t, reverses), state |-> after]]
    /\ journal' = Append(journal,
           [by |-> by, target |-> t, operation |-> operation,
            version |-> NewVersion(t, reverses), before |-> State(t),
            after |-> after, at |-> now, reverses |-> reverses])
    /\ UNCHANGED <<cycleClaims, seen, active, security, now>>

\* stage: CREATE a target that is new or UPDATE one that is active.
Put(by, t, expected, after) ==
    /\ Governed
    /\ Current(t, expected)
    /\ Exists(t) => Usable(t)
    /\ Exists(t) => after.about = State(t).about
    /\ Valid(t, after, FALSE)
    /\ Write(by, t, IF Exists(t) THEN "UPDATE" ELSE "CREATE", after, 0)

ActiveState(t) == {s \in StateOf(t) : s.lifecycle = "active"}

\* An operator proposes new data for what it has read.
Submit(o, t) ==
    \E after \in ActiveState(t) : Put(o, t, seen[o][t].version, after)

\* An operator archives, deletes or restores what it has read.
ChangeLifecycle(o, t, operation) ==
    /\ Governed
    /\ Exists(t)
    /\ Current(t, seen[o][t].version)
    /\ State(t).lifecycle \in From[operation]
    /\ LET after == [State(t) EXCEPT !.lifecycle = To[operation]] IN
          /\ Valid(t, after, FALSE)
          /\ Write(o, t, operation, after, 0)

\* A claim that says the same on the same sources, whatever its lifecycle.
Same(c, proposed) ==
    Exists(c) /\ State(c).statement = proposed.statement
              /\ State(c).links = proposed.links

\* stage_claim: a claim is created unless it exists; an active one is reused
\* and an inactive one is a conflict.  An extractor's claims are unverified
\* and need an active investigation.
Ingest(by, c) ==
    /\ ~Exists(c)
    /\ \E proposed \in ActiveState(c) :
          /\ by = Extractor => active /\ proposed.status = Unverified
          /\ \A other \in Claims : ~Same(other, proposed)
          /\ Put(by, c, 0, proposed)

\* AssessmentService.save: CREATE, or UPDATE at whatever version it finds.
Save(o, a) ==
    \E after \in ActiveState(a) :
        /\ ~Exists(a) => \A b \in Assessments : Exists(b) => State(b).about # after.about
        /\ Put(o, a, memory[a].version, after)

\* What a reversal finds must be what the change left, at its version.
SameState(k) == State(journal[k].target) = journal[k].after    \* mutant of Latest
Latest(k) == /\ memory[journal[k].target].version = journal[k].version
             /\ State(journal[k].target) = journal[k].after

Reversible(k) ==
    /\ journal[k].reverses = 0
    /\ \A j \in DOMAIN journal : journal[j].reverses # k
    /\ now < journal[k].at + Window
    /\ Latest(k)

\* The previous state, or deletion where there was none.
Inverse(k) == IF journal[k].before # None THEN journal[k].before
              ELSE [journal[k].after EXCEPT !.lifecycle = "logically_deleted"]

Reverse(o, k) ==
    /\ Governed
    /\ Reversible(k)
    /\ Valid(journal[k].target, Inverse(k), TRUE)
    /\ Write(o, journal[k].target, "REVERSE", Inverse(k), k)

----------------------------------------------------------------------------
(* The rest of the investigation.                                          *)

\* Progress or an outcome adds an active claim to a cycle.
CycleCites(c) ==
    /\ Governed
    /\ Usable(c)
    /\ c \notin cycleClaims
    /\ cycleClaims' = cycleClaims \cup {c}
    /\ UNCHANGED <<memory, journal, seen, active, security, now>>

\* An operator reads the memory.
Look(o) ==
    /\ seen' = [seen EXCEPT ![o] = memory]
    /\ UNCHANGED <<memory, journal, cycleClaims, active, security, now>>

SetStatus ==
    /\ active' = ~active
    /\ UNCHANGED <<memory, journal, cycleClaims, seen, security, now>>

Tick ==
    /\ now < MaxTime
    /\ now' = now + 1
    /\ UNCHANGED <<memory, journal, cycleClaims, seen, active, security>>

\* A fence that is raised over any state looks like recovery_required.
Transition ==
    /\ security' \in StateChanges
    /\ <<security, security'>> \in
           ValidTransitions \cup SecurityState \X {"recovery_required"}
    /\ UNCHANGED <<memory, journal, cycleClaims, seen, active, now>>

Next ==
    \/ \E o \in Operators, t \in Targets :
          \/ Submit(o, t)
          \/ \E operation \in DOMAIN From : ChangeLifecycle(o, t, operation)
    \/ \E by \in Operators \cup {Extractor}, c \in Claims : Ingest(by, c)
    \/ \E o \in Operators, a \in Assessments : Save(o, a)
    \/ \E o \in Operators : \E k \in DOMAIN journal : Reverse(o, k)
    \/ \E c \in Claims : CycleCites(c)
    \/ \E o \in Operators : Look(o)
    \/ SetStatus \/ Tick \/ Transition

Spec == Init /\ [][Next]_vars

----------------------------------------------------------------------------
(* Properties.                                                             *)

AnyState == ClaimState \cup AssessmentState
Record == [version: Nat, state: AnyState \cup {None}]
Change == [by: Operators \cup {Extractor}, target: Targets, operation: Operation,
           version: Nat \ {0}, before: AnyState \cup {None}, after: AnyState,
           at: Nat, reverses: Nat]

\* Records, links and journal entries have the types the code gives them, by
\* the kind of their target; a record is absent exactly when it has no version.
TypeOK ==
    /\ memory \in [Targets -> Record]
    /\ \A t \in Targets :
          IF Exists(t) THEN State(t) \in StateOf(t) ELSE State(t) = None
    /\ journal \in Seq(Change)
    /\ \A k \in DOMAIN journal :
          /\ journal[k].before \in StateOf(journal[k].target) \cup {None}
          /\ journal[k].after \in StateOf(journal[k].target)
          /\ journal[k].at <= now
          /\ journal[k].reverses < Len(journal)
    /\ cycleClaims \subseteq Claims
    /\ seen \in [Operators -> [Targets -> Record]]
    /\ active \in BOOLEAN /\ security \in SecurityState
    /\ now \in 0..MaxTime

Entries(t) == {k \in DOMAIN journal : journal[k].target = t}

\* The change that made version v of a target.
Made(t, v, state) == \E k \in Entries(t) :
                        journal[k].version = v /\ journal[k].after = state

\* MemoryService.history never finds a broken chain: the journal of every
\* target has each version once, each entry starts where the one before ended,
\* and the last one ends in the current record.
HistoryReconstructs ==
    \A t \in Targets :
        /\ \A k \in Entries(t) :
              /\ \A l \in Entries(t) : journal[l].version = journal[k].version => l = k
              /\ \/ journal[k].version = 1 /\ journal[k].before = None /\ t \notin Legacy
                 \/ journal[k].version = 2 /\ journal[k].before # None /\ t \in Legacy
                 \/ Made(t, journal[k].version - 1, journal[k].before)
        /\ \/ memory[t].version = (IF t \in Legacy THEN 1 ELSE 0) /\ Entries(t) = {}
           \/ Made(t, memory[t].version, State(t))

\* What an assessment cites or a cycle lists is active, in whatever lifecycle
\* the assessment itself is: restoring one never revives a claim that is gone,
\* and an outcome never has to name a claim the planner cannot see.
CitedClaimsActive ==
    \A c \in Claims : c \in cycleClaims \/ Citing(c) # {} => Usable(c)

\* While an assessment cites a claim or a cycle lists it, no update, deletion,
\* restoration or reversal changes what it says.
CitedClaimsStand ==
    [][\A c \in Claims : (c \in cycleClaims \/ Citing(c) # {}) =>
          memory'[c].state = memory[c].state]_vars

\* A reversal undoes the change directly before it, within the window, and
\* never one that was followed by another, even if the text is the same again.
ReversalsAreImmediate ==
    \A k \in DOMAIN journal : journal[k].reverses # 0 =>
        LET original == journal[journal[k].reverses] IN
          /\ original.reverses = 0
          /\ original.target = journal[k].target
          /\ original.version + 1 = journal[k].version
          /\ original.after = journal[k].before
          /\ journal[k].at < original.at + Window
          /\ journal[k].after.lifecycle = "logically_deleted"
             \/ journal[k].after = original.before

=============================================================================
