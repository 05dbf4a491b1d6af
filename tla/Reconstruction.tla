--------------------------- MODULE Reconstruction ---------------------------
(***************************************************************************)
(* The reconstruction of a database from a backup: preflight, the fence    *)
(* that installs the manifest's authority, the import, the publication of  *)
(* readiness and the entry into recovery, by operators' commands that may  *)
(* run twice and may die anywhere, next to an application and a backup     *)
(* that are already connected to the target.                               *)
(*                                                                         *)
(* Every transaction on the target is one step: those of the fence and of  *)
(* readiness hold the security row FOR UPDATE, pg_restore runs as a single *)
(* transaction of its own, and preflight reads two snapshots.              *)
(*                                                                         *)
(* Abstractions.  An archive is its manifest's authority; that its dump,   *)
(* schema or versions do not fit is a denial that may happen.  Of the      *)
(* target's rows the model keeps which archives were imported, whether     *)
(* anything was written there otherwise, and the recovery contexts.        *)
(* SecurityAuthority models what a restoration requires beyond a context   *)
(* of the current authority.                                               *)
(***************************************************************************)
EXTENDS Integers, FiniteSets, SecurityCapability

CONSTANTS
    Commands,       \* runs of the restore command
    Backups,        \* runs of the backup command on the target
    Archives,
    Manifest,       \* the authority each archive's manifest records
    Epochs,
    FirstEpoch,     \* epoch of a newly migrated database
    None,
    StateChanges,   \* bound: security states a transition asks for
    MaxVersion      \* bound: versions that transitions, boots and restorations reach

Authority == [state: SecurityState, version: Nat \ {0}, epoch: Epochs]

ASSUME ReconstructionAssumption ==
    /\ Manifest \in [Archives -> Authority]
    /\ FirstEpoch \in Epochs
    /\ None \notin Archives
    /\ StateChanges \subseteq SecurityState
    /\ MaxVersion \in Nat

VARIABLES
    state, version, epoch,  \* the security row
    pending, origin,        \* its recovery fence, with the authority before it
    validating,             \* reconstruction_validation_pending
    imported,               \* archives whose rows the target holds
    written,                \* the application has written rows of its own
    contexts,               \* recovery contexts: the authority each was captured of
    pc, archive, seen,      \* each command, its archive and the basis it read
    backup,                 \* each backup: its step, manifest and dumped rows
    basis                   \* history: the archive whose manifest set the fence

row     == <<state, version, epoch, pending, origin, validating>>
content == <<imported, written, contexts>>
command == <<pc, archive, seen>>
vars    == <<row, content, command, basis, backup>>

Origin   == [state: SecurityState, version: Nat \ {0}]
NoOrigin == [state |-> "none", version |-> 0]
Basis    == [epoch |-> epoch, version |-> version]

Running == {"idle", "inspected", "pristine", "planned", "importing", "migrating",
            "ready", "recovering", "capturing"}
Ended   == {"denied", "failed", "died", "done"}

\* A backup's manifest is the authority inspected; "of" is history, the archive
\* the target had been fenced for by then.
BackupType == [step: {"idle", "inspected", "dumped", "published", "failed"},
               authority: Authority, of: Archives \cup {None}, rows: SUBSET Archives]
Unstarted  == [step |-> "idle", of |-> None, rows |-> {},
               authority |-> [state |-> "normal", version |-> 1, epoch |-> FirstEpoch]]

\* A migrated database before its first use.
Init ==
    /\ state = "normal" /\ version = 1 /\ epoch = FirstEpoch
    /\ pending = FALSE /\ origin = NoOrigin /\ validating = FALSE
    /\ imported = {} /\ written = FALSE /\ contexts = {}
    /\ pc = [p \in Commands |-> "idle"]
    /\ archive \in [Commands -> Archives]
    /\ seen = [p \in Commands |-> [epoch |-> FirstEpoch, version |-> 1]]
    /\ basis = None
    /\ backup = [b \in Backups |-> Unstarted]

Goto(p, step) == pc' = [pc EXCEPT ![p] = step]

----------------------------------------------------------------------------
(* Preflight.                                                              *)

\* validate: the material and the target's state, which is not yet readable
\* while another reconstruction is being validated.
Inspect(p) ==
    /\ pc[p] = "idle"
    /\ \/ ~validating /\ Goto(p, "inspected")
       \/ Goto(p, "denied")
    /\ UNCHANGED <<row, content, archive, seen, basis>>

PristineContent == imported = {} /\ ~written /\ contexts = {}

\* _check_target_is_pristine
CheckPristine(p) ==
    /\ pc[p] = "inspected"
    /\ Goto(p, IF PristineContent THEN "pristine" ELSE "denied")
    /\ UNCHANGED <<row, content, archive, seen, basis>>

\* _write_restore_list and the command line, either of which may be refused.
PlanRestore(p) ==
    /\ pc[p] = "pristine"
    /\ Goto(p, "planned") \/ Goto(p, "failed")
    /\ UNCHANGED <<row, content, archive, seen, basis>>

----------------------------------------------------------------------------
(* The guarded import.                                                     *)

\* What the fence requires of the locked row.
NormalAuthority   ==                                  \* mutant of PristineAuthority
    state = "normal" /\ ~pending /\ origin = NoOrigin /\ ~validating
PristineAuthority ==
    /\ state = "normal" /\ version = 1
    /\ ~pending /\ origin = NoOrigin /\ ~validating

\* The fence is a version of its own, above the one it fences.
FenceVersion(authority)  == authority.version + 1

\* _establish_reconstruction_fence
EstablishFence(p) ==
    LET authority == Manifest[archive[p]] IN
    /\ pc[p] = "planned"
    /\ \/ /\ PristineAuthority
          /\ state' = authority.state
          /\ version' = FenceVersion(authority)
          /\ epoch' = authority.epoch
          /\ pending' = TRUE
          /\ origin' = [state |-> authority.state, version |-> authority.version]
          /\ validating' = TRUE
          /\ basis' = archive[p]
          /\ Goto(p, "importing")
       \/ ~PristineAuthority /\ Goto(p, "failed") /\ UNCHANGED <<row, basis>>
    /\ UNCHANGED <<content, archive, seen>>

\* pg_restore --single-transaction: all rows or, if it fails, none; rows that
\* are there already collide.
Import(p) ==
    /\ pc[p] = "importing"
    /\ \/ /\ archive[p] \notin imported
          /\ imported' = imported \cup {archive[p]}
          /\ Goto(p, "migrating")
       \/ Goto(p, "failed") /\ UNCHANGED imported
    /\ UNCHANGED <<row, written, contexts, archive, seen, basis>>

\* The row that _publish_reconstruction_readiness expects to find.
FencedBy(authority) ==
    /\ state = authority.state
    /\ version = FenceVersion(authority)
    /\ epoch = authority.epoch
    /\ pending /\ validating
    /\ origin = [state |-> authority.state, version |-> authority.version]

\* run_migrations, then the publication of readiness; either may fail.
PublishReadiness(p) ==
    /\ pc[p] = "migrating"
    /\ \/ /\ FencedBy(Manifest[archive[p]])
          /\ validating' = FALSE
          /\ Goto(p, "ready")
       \/ Goto(p, "failed") /\ UNCHANGED validating
    /\ UNCHANGED <<state, version, epoch, pending, origin, content, archive, seen, basis>>

----------------------------------------------------------------------------
(* Recovery.                                                               *)

\* AuthorityBootstrapService.initialize(RECOVERY): a fence that stands is kept.
RaiseFence ==
    IF pending
    THEN UNCHANGED row
    ELSE /\ version < MaxVersion
         /\ pending' = TRUE
         /\ origin' = [state |-> state, version |-> version]
         /\ version' = version + 1
         /\ UNCHANGED <<state, epoch, validating>>

EnterRecovery(p) ==
    /\ pc[p] = "ready"
    /\ RaiseFence
    /\ Goto(p, "recovering")
    /\ UNCHANGED <<content, archive, seen, basis>>

\* current_basis
ReadBasis(p) ==
    /\ pc[p] = "recovering"
    /\ seen' = [seen EXCEPT ![p] = Basis]
    /\ Goto(p, IF pending THEN "capturing" ELSE "failed")
    /\ UNCHANGED <<row, content, archive, basis>>

\* capture: for whoever knows the basis, once readiness is published.
CapturableEarly == pending                            \* mutant of Capturable
Capturable      == pending /\ ~validating

CaptureContext(p) ==
    /\ pc[p] = "capturing"
    /\ \/ /\ Capturable /\ seen[p] = Basis
          /\ contexts' = contexts \cup {Basis}
          /\ Goto(p, "done")
       \/ /\ Goto(p, "failed")
          /\ UNCHANGED contexts
    /\ UNCHANGED <<row, imported, written, archive, seen, basis>>

\* The command's process dies; what it committed stays.
Die(p) ==
    /\ pc[p] \in Running \ {"idle"}
    /\ Goto(p, "died")
    /\ UNCHANGED <<row, content, archive, seen, basis>>

----------------------------------------------------------------------------
(* The application on the target.                                          *)

\* create_task asks for no capability; it stands for every row written there.
CreateTask ==
    /\ ~written
    /\ written' = TRUE
    /\ UNCHANGED <<row, imported, contexts, command, basis>>

\* An ordinary transition, which also writes its audit.
Transition ==
    /\ ~pending
    /\ version < MaxVersion
    /\ state' \in StateChanges
    /\ <<state, state'>> \in ValidTransitions
    /\ version' = version + 1
    /\ written' = TRUE
    /\ UNCHANGED <<epoch, pending, origin, validating, imported, contexts, command, basis>>

BootRecovery ==
    /\ RaiseFence
    /\ UNCHANGED <<content, command, basis>>

\* An operator captures a context of the basis it has read.
OperatorCapture ==
    /\ Capturable
    /\ contexts' = contexts \cup {Basis}
    /\ UNCHANGED <<row, imported, written, command, basis>>

\* complete, or complete_reconstruction with a replacement of the epoch.
Restore ==
    /\ pending /\ ~validating
    /\ Basis \in contexts
    /\ state' = "normal" /\ pending' = FALSE /\ origin' = NoOrigin
    /\ \/ epoch' = epoch /\ version' = version + 1
       \/ epoch' \in Epochs \ {epoch} /\ version' = version + 2
    /\ version' <= MaxVersion
    /\ written' = TRUE
    /\ UNCHANGED <<validating, imported, contexts, command, basis>>

----------------------------------------------------------------------------
(* A backup of the target: BackupCreationService.create.                    *)

\* Whatever fails or dies on the way removes or leaves a temporary directory.
Abandon(b) == backup' = [backup EXCEPT ![b].step = "failed"]

\* Inspection refuses a target whose reconstruction is being validated.
InspectSource(b) ==
    /\ backup[b].step = "idle"
    /\ ~validating
    /\ backup' = [backup EXCEPT ![b] =
          [step |-> "inspected", of |-> basis, rows |-> {},
           authority |-> [state |-> state, version |-> version, epoch |-> epoch]]]

\* pg_dump takes a snapshot of its own.
Dump(b) ==
    /\ backup[b].step = "inspected"
    /\ backup' = [backup EXCEPT ![b].step = "dumped", ![b].rows = imported]

\* The directory is renamed under a shared lock on the security row.
Publish(b) ==
    /\ backup[b].step = "dumped"
    /\ ~validating
    /\ backup' = [backup EXCEPT ![b].step = "published"]

CreateBackup(b) ==
    /\ \/ InspectSource(b) \/ Dump(b) \/ Publish(b)
       \/ backup[b].step \in {"idle", "inspected", "dumped"} /\ Abandon(b)
    /\ UNCHANGED <<row, content, command, basis>>

----------------------------------------------------------------------------
Command(p) ==
    \/ Inspect(p) \/ CheckPristine(p) \/ PlanRestore(p) \/ EstablishFence(p) \/ Import(p)
    \/ PublishReadiness(p) \/ EnterRecovery(p) \/ ReadBasis(p) \/ CaptureContext(p)

Target ==
    \/ \E p \in Commands : Command(p) \/ Die(p)
    \/ CreateTask \/ Transition \/ BootRecovery \/ OperatorCapture \/ Restore

Next ==
    \/ Target /\ UNCHANGED backup
    \/ \E b \in Backups : CreateBackup(b)

Spec == Init /\ [][Next]_vars
----------------------------------------------------------------------------
(* Properties.                                                             *)

\* The row has the shape the store loads: an origin exactly under a fence, and
\* validation pending only under a fence above its origin.
TypeOK ==
    /\ state \in SecurityState /\ version \in Nat \ {0} /\ epoch \in Epochs
    /\ pending \in BOOLEAN /\ validating \in BOOLEAN
    /\ origin \in IF pending THEN Origin ELSE {NoOrigin}
    /\ validating => pending /\ origin.version < version
    /\ imported \subseteq Archives /\ written \in BOOLEAN
    /\ contexts \subseteq [epoch: Epochs, version: Nat \ {0}]
    /\ pc \in [Commands -> Running \cup Ended]
    /\ archive \in [Commands -> Archives]
    /\ seen \in [Commands -> [epoch: Epochs, version: Nat \ {0}]]
    /\ basis \in Archives \cup {None}
    /\ backup \in [Backups -> BackupType]

\* A target holds rows of at most one archive, and of that only whose manifest
\* set the fence: neither a second command that passed its preflight in time
\* nor one that comes back after a restoration mixes another archive into it.
OneArchive == imported \subseteq {basis}

\* From the fence on, readiness, every recovery context and every published
\* backup stand on the whole import: no failure, death, reboot or early
\* inspection lets an empty target through.
WholeImportFirst ==
    /\ basis # None /\ (~validating \/ contexts # {}) => imported = {basis}
    /\ \A b \in Backups :
          backup[b].step = "published" /\ backup[b].of # None
             => backup[b].rows = {backup[b].of}
=============================================================================
