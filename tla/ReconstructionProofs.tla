------------------------ MODULE ReconstructionProofs ------------------------
(***************************************************************************)
(* Theorems of Reconstruction for any number of commands and archives.     *)
(*                                                                         *)
(* The argument: a pristine row has version 1, every writer of the row     *)
(* raises the version, and whatever a reconstruction leaves behind - its   *)
(* fence, a context, its basis - needs a version above 1.  So a target is  *)
(* fenced for one archive at most, and whoever imports or migrates does it *)
(* for that archive.                                                       *)
(***************************************************************************)
EXTENDS Reconstruction, TLAPS

\* What has been reconstructed is not pristine again.
Ahead == (basis # None \/ pending \/ contexts # {}) => version > 1

\* A command past the fence works on the archive the fence was set for, and
\* migrates only after its import.
Importers ==
    \A p \in Commands :
        /\ pc[p] = "importing" => archive[p] = basis
        /\ pc[p] = "migrating" => archive[p] = basis /\ imported = {basis}

\* A backup that was inspected after a fence was inspected after its import,
\* and dumps what was imported.
BackupsInformed ==
    \A b \in Backups : backup[b].of # None =>
        /\ backup[b].of = basis /\ imported = {basis}
        /\ backup[b].step \in {"dumped", "published"} => backup[b].rows = {basis}

IInv == TypeOK /\ OneArchive /\ WholeImportFirst /\ Ahead /\ Importers /\ BackupsInformed

USE ReconstructionAssumption

LEMMA InitIInv == Init => IInv
<1> SUFFICES ASSUME Init PROVE IInv
  OBVIOUS
<1>1. TypeOK
  <2>1. "normal" \in SecurityState
    BY DEF SecurityState
  <2> QED
    <3>1. FALSE \in BOOLEAN
      OBVIOUS
    <3>2. pc \in [Commands -> Running \cup Ended]
      BY DEF Init, Running
    <3>3. seen \in [Commands -> [epoch: Epochs, version: Nat \ {0}]]
      BY DEF Init
    <3>4. pending \in BOOLEAN /\ validating \in BOOLEAN /\ written \in BOOLEAN
      BY <3>1 DEF Init
    <3>5. ~validating /\ origin \in IF pending THEN Origin ELSE {NoOrigin}
      BY DEF Init
    <3>6. /\ state \in SecurityState /\ version \in Nat \ {0} /\ epoch \in Epochs
          /\ imported \subseteq Archives /\ archive \in [Commands -> Archives]
          /\ contexts \subseteq [epoch: Epochs, version: Nat \ {0}]
          /\ basis \in Archives \cup {None}
      BY <2>1 DEF Init
    <3>7. backup \in [Backups -> BackupType]
      BY <2>1 DEF Init, BackupType, Unstarted, Authority
    <3> QED
      BY <3>2, <3>3, <3>4, <3>5, <3>6, <3>7 DEF TypeOK
<1>2. OneArchive /\ WholeImportFirst /\ Ahead /\ Importers /\ BackupsInformed
  BY DEF Init, OneArchive, WholeImportFirst, Ahead, Importers, BackupsInformed, Unstarted
<1> QED
  BY <1>1, <1>2 DEF IInv

LEMMA TargetKeeps == IInv /\ Target /\ UNCHANGED backup => IInv'
<1> SUFFICES ASSUME IInv, Target, UNCHANGED backup PROVE IInv'
  OBVIOUS
<1> USE DEF IInv
<1>1. ASSUME NEW p \in Commands, Inspect(p) \/ CheckPristine(p) \/ PlanRestore(p) PROVE IInv'
  <2>1. UNCHANGED <<row, content, archive, seen, basis>>
    BY <1>1 DEF Inspect, CheckPristine, PlanRestore
  <2>2. \E step \in {"inspected", "denied", "pristine", "planned", "failed"} :
           Goto(p, step)
    BY <1>1 DEF Inspect, CheckPristine, PlanRestore
  <2>3. PICK step \in {"inspected", "denied", "pristine", "planned", "failed"} :
           pc' = [pc EXCEPT ![p] = step]
    BY <2>2 DEF Goto
  <2>4. TypeOK'
    BY <2>1, <2>3 DEF TypeOK, row, content, Running, Ended, Origin, NoOrigin
  <2>5. (OneArchive /\ WholeImportFirst /\ Ahead)'
    BY <2>1 DEF OneArchive, WholeImportFirst, Ahead, row, content
  <2>6. Importers' /\ BackupsInformed'
    BY <2>1, <2>3 DEF Importers, TypeOK, content, BackupsInformed
  <2> QED
    BY <2>4, <2>5, <2>6
<1>2. ASSUME NEW p \in Commands, EstablishFence(p) PROVE IInv'
  <2> DEFINE authority == Manifest[archive[p]]
  <2>0. authority \in Authority /\ archive[p] \in Archives
    BY DEF TypeOK
  <2> HIDE DEF authority
  <2>1. CASE PristineAuthority
    <3>0. /\ state' = authority.state /\ version' = authority.version + 1
          /\ epoch' = authority.epoch /\ pending' = TRUE /\ validating' = TRUE
          /\ origin' = [state |-> authority.state, version |-> authority.version]
          /\ basis' = archive[p] /\ pc' = [pc EXCEPT ![p] = "importing"]
          /\ UNCHANGED <<content, archive, seen>>
      BY <1>2, <2>1 DEF EstablishFence, FenceVersion, Goto, authority
    <3>1. version = 1 /\ basis = None /\ contexts = {}
      BY <2>1 DEF PristineAuthority, Ahead
    <3>2. imported = {}
      BY <3>1 DEF OneArchive, TypeOK
    <3>3. /\ authority.state \in SecurityState /\ authority.version \in Nat \ {0}
          /\ authority.epoch \in Epochs
      BY <2>0 DEF Authority
    <3>4. TypeOK'
      BY <3>0, <3>3, <2>0 DEF TypeOK, content, Running, Ended, Origin
    <3>5. OneArchive' /\ WholeImportFirst' /\ Ahead'
      BY <3>0, <3>1, <3>2, <3>3 DEF OneArchive, WholeImportFirst, Ahead, content
    <3>6. \A q \in Commands : pc[q] \notin {"importing", "migrating"}
      BY <3>1 DEF Importers, TypeOK
    <3>7. Importers'
      BY <3>0, <3>6 DEF Importers, TypeOK
    <3>8. BackupsInformed'
      BY <3>1 DEF BackupsInformed
    <3> QED
      BY <3>4, <3>5, <3>7, <3>8
  <2>2. CASE ~PristineAuthority
    <3>0. pc' = [pc EXCEPT ![p] = "failed"] /\ UNCHANGED <<row, content, archive, seen, basis>>
      BY <1>2, <2>2 DEF EstablishFence, Goto
    <3>1. TypeOK'
      BY <3>0 DEF TypeOK, row, content, Running, Ended
    <3>2. (OneArchive /\ WholeImportFirst /\ Ahead)'
      BY <3>0 DEF OneArchive, WholeImportFirst, Ahead, row, content
    <3>3. Importers' /\ BackupsInformed'
      BY <3>0 DEF Importers, TypeOK, content, BackupsInformed
    <3> QED
      BY <3>1, <3>2, <3>3
  <2> QED
    BY <2>1, <2>2
<1>3. ASSUME NEW p \in Commands, Import(p) PROVE IInv'
  <2>1. \/ /\ imported' = imported \cup {archive[p]} /\ pc' = [pc EXCEPT ![p] = "migrating"]
        \/ /\ imported' = imported /\ pc' = [pc EXCEPT ![p] = "failed"]
    BY <1>3 DEF Import, Goto
  <2>2. UNCHANGED <<row, written, contexts, archive, seen, basis>> /\ archive[p] = basis
    BY <1>3 DEF Import, Importers
  <2>3. TypeOK'
    BY <2>1, <2>2 DEF TypeOK, row, Running, Ended
  <2>4. OneArchive' /\ WholeImportFirst' /\ Ahead'
    BY <2>1, <2>2 DEF OneArchive, WholeImportFirst, Ahead, row
  <2>5. Importers' /\ BackupsInformed'
    BY <2>1, <2>2 DEF Importers, OneArchive, TypeOK, BackupsInformed
  <2> QED
    BY <2>3, <2>4, <2>5
<1>4. ASSUME NEW p \in Commands, PublishReadiness(p) PROVE IInv'
  <2>1. \/ /\ validating' = FALSE /\ pc' = [pc EXCEPT ![p] = "ready"]
        \/ /\ validating' = validating /\ pc' = [pc EXCEPT ![p] = "failed"]
    BY <1>4 DEF PublishReadiness, Goto
  <2>2. /\ UNCHANGED <<state, version, epoch, pending, origin, content, archive, seen, basis>>
        /\ imported = {basis}
    BY <1>4 DEF PublishReadiness, Importers
  <2>3. TypeOK'
    <3>1. pc' \in [Commands -> Running \cup Ended]
      BY <2>1 DEF TypeOK, Running, Ended
    <3>2. validating' \in BOOLEAN /\ (validating' => validating)
      <4>1. CASE validating' = FALSE
        BY <4>1
      <4>2. CASE validating' = validating
        BY <4>2 DEF TypeOK
      <4> QED
        BY <2>1, <4>1, <4>2
    <3> QED
      BY <2>2, <3>1, <3>2 DEF TypeOK, content
  <2>4. OneArchive' /\ WholeImportFirst' /\ Ahead'
    BY <2>1, <2>2 DEF OneArchive, WholeImportFirst, Ahead, content
  <2>5. Importers' /\ BackupsInformed'
    BY <2>1, <2>2 DEF Importers, TypeOK, content, BackupsInformed
  <2> QED
    BY <2>3, <2>4, <2>5
<1>5. ASSUME RaiseFence, UNCHANGED <<content, archive, seen, basis>>,
             UNCHANGED pc \/ \E p \in Commands : pc' = [pc EXCEPT ![p] = "recovering"]
      PROVE  IInv'
  <2>1. TypeOK'
    <3>1. pc' \in [Commands -> Running \cup Ended]
      BY <1>5 DEF TypeOK, Running
    <3>2. CASE pending
      BY <1>5, <3>1, <3>2 DEF RaiseFence, TypeOK, row, content
    <3>3. CASE ~pending
      <4>1. /\ pending' = TRUE /\ origin' = [state |-> state, version |-> version]
            /\ version' = version + 1 /\ UNCHANGED <<state, epoch, validating>>
        BY <1>5, <3>3 DEF RaiseFence
      <4>2. ~validating /\ origin' \in Origin
        BY <3>3, <4>1 DEF TypeOK, Origin
      <4> QED
        BY <1>5, <3>1, <4>1, <4>2 DEF TypeOK, content
    <3> QED
      BY <3>2, <3>3
  <2>2. version' >= version /\ validating' = validating /\ (pending' => pending \/ version' > version)
    BY <1>5 DEF RaiseFence, row, TypeOK
  <2>3. OneArchive' /\ WholeImportFirst' /\ Ahead'
    <3>1. UNCHANGED <<imported, contexts, basis, validating>>
      BY <1>5, <2>2 DEF content
    <3>2. OneArchive' /\ WholeImportFirst'
      BY <3>1 DEF OneArchive, WholeImportFirst
    <3>3. version \in Nat \ {0} /\ version' \in Nat
      BY <2>1 DEF TypeOK
    <3>4. Ahead'
      BY <2>2, <3>1, <3>3 DEF Ahead
    <3> QED
      BY <3>2, <3>4
  <2>4. Importers' /\ BackupsInformed'
    BY <1>5 DEF Importers, TypeOK, content, BackupsInformed
  <2> QED
    BY <2>1, <2>3, <2>4
<1>6. ASSUME NEW p \in Commands, ReadBasis(p) PROVE IInv'
  <2>1. /\ seen' = [seen EXCEPT ![p] = Basis] /\ UNCHANGED <<row, content, archive, basis>>
        /\ \E step \in {"capturing", "failed"} : pc' = [pc EXCEPT ![p] = step]
    BY <1>6 DEF ReadBasis, Goto
  <2>2. TypeOK'
    BY <2>1 DEF TypeOK, row, content, Basis, Running, Ended
  <2>3. OneArchive' /\ WholeImportFirst' /\ Ahead'
    BY <2>1 DEF OneArchive, WholeImportFirst, Ahead, row, content
  <2>4. Importers' /\ BackupsInformed'
    BY <2>1 DEF Importers, TypeOK, content, BackupsInformed
  <2> QED
    BY <2>2, <2>3, <2>4
<1>7. ASSUME Capturable, contexts' = contexts \cup {Basis},
             UNCHANGED <<row, imported, written, archive, seen, basis>>,
             UNCHANGED pc \/ \E p \in Commands : pc' = [pc EXCEPT ![p] = "done"]
      PROVE  IInv'
  <2>1. TypeOK'
    BY <1>7 DEF TypeOK, row, Basis, Running, Ended
  <2>2. OneArchive' /\ WholeImportFirst' /\ Ahead'
    BY <1>7 DEF OneArchive, WholeImportFirst, Ahead, row, Capturable, TypeOK
  <2>3. Importers' /\ BackupsInformed'
    BY <1>7 DEF Importers, TypeOK, BackupsInformed
  <2> QED
    BY <2>1, <2>2, <2>3
<1>8. ASSUME NEW p \in Commands, NEW step \in {"failed", "died"},
             pc' = [pc EXCEPT ![p] = step], UNCHANGED <<row, content, archive, seen, basis>>
      PROVE  IInv'
  <2>1. TypeOK'
    BY <1>8 DEF TypeOK, row, content, Running, Ended
  <2>2. OneArchive' /\ WholeImportFirst' /\ Ahead' /\ Importers' /\ BackupsInformed'
    BY <1>8 DEF OneArchive, WholeImportFirst, Ahead, Importers, row, content, TypeOK, BackupsInformed
  <2> QED
    BY <2>1, <2>2
<1>9. ASSUME CreateTask PROVE IInv'
  BY <1>9 DEF CreateTask, TypeOK, OneArchive, WholeImportFirst, Ahead, Importers, BackupsInformed, row, command
<1>10. ASSUME Transition PROVE IInv'
  <2>1. /\ ~pending /\ state' \in StateChanges /\ version' = version + 1 /\ written' = TRUE
        /\ UNCHANGED <<epoch, pending, origin, validating, imported, contexts, command, basis>>
    BY <1>10 DEF Transition
  <2>2. TypeOK'
    BY <2>1 DEF TypeOK, command
  <2>3. OneArchive' /\ WholeImportFirst' /\ Ahead' /\ Importers' /\ BackupsInformed'
    BY <2>1 DEF OneArchive, WholeImportFirst, Ahead, Importers, TypeOK, command, BackupsInformed
  <2> QED
    BY <2>2, <2>3
<1>11. ASSUME Restore PROVE IInv'
  <2>1. /\ ~validating /\ state' = "normal" /\ pending' = FALSE /\ origin' = NoOrigin
        /\ written' = TRUE
        /\ UNCHANGED <<validating, imported, contexts, command, basis>>
    BY <1>11 DEF Restore
  <2>2. epoch' \in Epochs /\ version' \in Nat \ {0} /\ version' > version
    BY <1>11 DEF Restore, TypeOK
  <2>3. TypeOK'
    BY <2>1, <2>2 DEF TypeOK, command, SecurityState
  <2>4. OneArchive' /\ WholeImportFirst' /\ Ahead' /\ Importers' /\ BackupsInformed'
    BY <2>1, <2>2 DEF OneArchive, WholeImportFirst, Ahead, Importers, TypeOK, command, BackupsInformed
  <2> QED
    BY <2>3, <2>4
<1>12. ASSUME NEW p \in Commands, Command(p) \/ Die(p) PROVE IInv'
  <2>1. CASE EnterRecovery(p)
    BY <1>5, <2>1 DEF EnterRecovery, Goto
  <2>2. CASE CaptureContext(p)
    BY <1>7, <1>8, <2>2 DEF CaptureContext, Goto, content
  <2>3. CASE Die(p)
    BY <1>8, <2>3 DEF Die, Goto
  <2> QED
    BY <1>1, <1>2, <1>3, <1>4, <1>6, <1>12, <2>1, <2>2, <2>3 DEF Command
<1>13. ASSUME BootRecovery \/ OperatorCapture PROVE IInv'
  BY <1>5, <1>7, <1>13 DEF BootRecovery, OperatorCapture, command
<1> QED
  BY <1>9, <1>10, <1>11, <1>12, <1>13 DEF Target

\* Row, contents and commands agree in every reachable state of a target.

LEMMA BackupKeeps == ASSUME IInv, NEW b \in Backups, CreateBackup(b) PROVE IInv'
<1> USE DEF IInv
<1>1. UNCHANGED <<row, content, command, basis>>
  BY DEF CreateBackup
<1>2. (OneArchive /\ Ahead /\ Importers)'
  BY <1>1 DEF OneArchive, Ahead, Importers, row, content, command
<1>3. backup' \in [Backups -> BackupType] /\ BackupsInformed'
  <2>1. CASE InspectSource(b)
    <3>1. backup' = [backup EXCEPT ![b] =
             [step |-> "inspected", of |-> basis, rows |-> {},
              authority |-> [state |-> state, version |-> version, epoch |-> epoch]]]
      BY <2>1 DEF InspectSource
    <3>2. [state |-> state, version |-> version, epoch |-> epoch] \in Authority
      BY DEF TypeOK, Authority
    <3>3. basis # None => imported = {basis}
      BY <2>1 DEF InspectSource, WholeImportFirst
    <3>4. backup' \in [Backups -> BackupType]
      BY <3>1, <3>2 DEF TypeOK, BackupType
    <3>5. BackupsInformed'
      BY <1>1, <3>1, <3>3 DEF BackupsInformed, TypeOK, content
    <3> QED
      BY <3>4, <3>5
  <2>2. CASE Dump(b)
    <3>1. backup' = [backup EXCEPT ![b] = [backup[b] EXCEPT !.step = "dumped", !.rows = imported]]
      BY <2>2 DEF Dump, TypeOK, BackupType
    <3>2. backup' \in [Backups -> BackupType]
      BY <3>1 DEF TypeOK, BackupType
    <3>3. BackupsInformed'
      BY <1>1, <3>1 DEF BackupsInformed, TypeOK, BackupType, content
    <3> QED
      BY <3>2, <3>3
  <2>3. ASSUME NEW step \in {"published", "failed"},
               step = "published" => backup[b].step = "dumped",
               backup' = [backup EXCEPT ![b].step = step]
        PROVE  backup' \in [Backups -> BackupType] /\ BackupsInformed'
    <3>1. backup' \in [Backups -> BackupType]
      BY <2>3 DEF TypeOK, BackupType
    <3>2. BackupsInformed'
      BY <1>1, <2>3 DEF BackupsInformed, TypeOK, BackupType, content
    <3> QED
      BY <3>1, <3>2
  <2> QED
    BY <2>1, <2>2, <2>3 DEF CreateBackup, Publish, Abandon
<1>4. TypeOK'
  BY <1>1, <1>3 DEF TypeOK, row, content, command
<1>5. WholeImportFirst'
  <2>1. basis' # None /\ (~validating' \/ contexts' # {}) => imported' = {basis'}
    BY <1>1 DEF WholeImportFirst, row, content
  <2>2. \A c \in Backups : backup'[c].step = "published" /\ backup'[c].of # None
           => backup'[c].rows = {backup'[c].of}
    BY <1>3 DEF BackupsInformed
  <2> QED
    BY <2>1, <2>2 DEF WholeImportFirst
<1> QED
  BY <1>2, <1>3, <1>4, <1>5

LEMMA NextIInv == IInv /\ [Next]_vars => IInv'
<1>1. IInv /\ UNCHANGED vars => IInv'
  BY DEF vars, row, content, command, IInv, TypeOK, OneArchive, WholeImportFirst,
         Ahead, Importers, BackupsInformed
<1> QED
  BY <1>1, TargetKeeps, BackupKeeps DEF Next

THEOREM InductiveInvariant == Spec => []IInv
  BY InitIInv, NextIInv, PTL DEF Spec

\* Every variable keeps its type, and validation is pending only under a fence
\* with a version of its own (_establish_reconstruction_fence).
THEOREM TypeCorrect == Spec => []TypeOK
<1>1. IInv => TypeOK
  BY DEF IInv
<1> QED
  BY <1>1, InductiveInvariant, PTL

\* A target never mixes the rows of two archives, however many restore
\* commands pass their preflight together (reconstruct).
THEOREM NeverMixed == Spec => []OneArchive
<1>1. IInv => OneArchive
  BY DEF IInv
<1> QED
  BY <1>1, InductiveInvariant, PTL

\* No reboot, capture, restoration or backup accepts a target whose import
\* failed or was cut short (_publish_reconstruction_readiness, _basis, inspect).
THEOREM ImportedBeforeAccepted == Spec => []WholeImportFirst
<1>1. IInv => WholeImportFirst
  BY DEF IInv
<1> QED
  BY <1>1, InductiveInvariant, PTL
=============================================================================
