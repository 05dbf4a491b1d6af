------------------------ MODULE GovernedMemoryProofs ------------------------
(***************************************************************************)
(* Theorems of GovernedMemory for any number of claims, assessments,       *)
(* operators and changes.                                                  *)
(*                                                                         *)
(* The argument: every change goes through one write, which gives the      *)
(* target a version above all its entries and journals what it replaced;   *)
(* and validation refuses both to move what is cited and to cite what is   *)
(* not active.                                                             *)
(***************************************************************************)
EXTENDS GovernedMemory, TLAPS

\* No entry is ahead of the record it describes.
EntriesPast ==
    \A k \in DOMAIN journal : journal[k].version <= memory[journal[k].target].version

\* The parts of HistoryReconstructs.
Once(t) == \A k, l \in Entries(t) : journal[l].version = journal[k].version => l = k
Follows(t, k) == \/ journal[k].version = 1 /\ journal[k].before = None /\ t \notin Legacy
                 \/ journal[k].version = 2 /\ journal[k].before # None /\ t \in Legacy
                 \/ Made(t, journal[k].version - 1, journal[k].before)
Untouched(t) == memory[t].version = (IF t \in Legacy THEN 1 ELSE 0) /\ Entries(t) = {}
Ends(t) == Made(t, memory[t].version, State(t))

IInv == /\ TypeOK /\ EntriesPast /\ HistoryReconstructs
        /\ ReversalsAreImmediate /\ CitedClaimsActive

USE MemoryAssumption, NoneAssumption

\* What a write is allowed to do, whoever asks for it.
Allowed(t, after, detach, reverses) ==
    /\ Valid(t, after, detach)
    /\ Exists(t) \/ reverses = 0
    /\ reverses # 0 => /\ Reversible(reverses)
                       /\ journal[reverses].target = t
                       /\ after = Inverse(reverses)

LEMMA StateOfType ==
  ASSUME NEW t \in Targets
  PROVE  StateOf(t) \subseteq AnyState /\ None \notin StateOf(t)
BY DEF StateOf, AnyState

LEMMA InitIInv == Init => IInv
<1> SUFFICES ASSUME Init PROVE IInv
  OBVIOUS
<1>1. PICK old \in [Legacy -> {s \in ClaimState : s.lifecycle = "active"}] :
         memory = [t \in Targets |->
             IF t \in Legacy THEN [version |-> 1, state |-> old[t]] ELSE Absent]
  BY DEF Init
<1>2. memory \in [Targets -> Record]
  BY <1>1 DEF Record, AnyState, Absent
<1>3. TypeOK
  <2>1. \A t \in Targets : IF Exists(t) THEN State(t) \in StateOf(t) ELSE State(t) = None
    BY <1>1 DEF Exists, State, StateOf, Absent
  <2>2. journal \in Seq(Change) /\ DOMAIN journal = {}
    BY DEF Init
  <2>3. active \in BOOLEAN /\ security \in SecurityState
    BY DEF Init, SecurityState
  <2>4. seen \in [Operators -> [Targets -> Record]]
    BY <1>2 DEF Init
  <2> QED
    BY <1>2, <2>1, <2>2, <2>3, <2>4 DEF Init, TypeOK
<1>4. EntriesPast /\ HistoryReconstructs /\ ReversalsAreImmediate
  BY <1>1 DEF Init, EntriesPast, HistoryReconstructs, ReversalsAreImmediate, Entries, Absent
<1>5. CitedClaimsActive
  <2>1. ASSUME NEW a \in Assessments PROVE ~Exists(a)
    BY <1>1 DEF MemoryAssumption, Exists, Absent, Targets
  <2> QED
    BY <2>1 DEF Init, CitedClaimsActive, Citing
<1> QED
  BY <1>3, <1>4, <1>5 DEF IInv

\* Every change of the memory, and what it leaves.
LEMMA WriteKeeps ==
  ASSUME IInv, NEW by \in Operators \cup {Extractor}, NEW t \in Targets,
         NEW operation \in Operation, NEW after \in StateOf(t),
         NEW reverses \in {0} \cup DOMAIN journal, NEW detach \in BOOLEAN,
         Allowed(t, after, detach, reverses),
         Write(by, t, operation, after, reverses)
  PROVE  IInv'
<1> DEFINE n == Len(journal) + 1
           record == [version |-> memory[t].version + 1, state |-> after]
           entry == [by |-> by, target |-> t, operation |-> operation,
                     version |-> memory[t].version + 1, before |-> State(t),
                     after |-> after, at |-> now, reverses |-> reverses]
<1>1. /\ memory \in [Targets -> Record] /\ journal \in Seq(Change)
      /\ memory' = [memory EXCEPT ![t] = record] /\ journal' = Append(journal, entry)
      /\ UNCHANGED <<cycleClaims, seen, active, security, now>>
  BY DEF IInv, TypeOK, Write, NewVersion
<1>2. /\ record \in Record /\ State(t) \in StateOf(t) \cup {None}
      /\ memory[t].version \in Nat
      /\ reverses \in Nat /\ reverses < n /\ now \in Nat
  BY StateOfType, <1>1 DEF IInv, TypeOK, Record, Exists, State
<1>3. entry \in Change
  BY <1>2, StateOfType DEF Change
<1>4. /\ n \in DOMAIN journal' /\ journal'[n] = entry /\ Len(journal') = n
      /\ DOMAIN journal' = DOMAIN journal \cup {n} /\ n \notin DOMAIN journal
      /\ \A k \in DOMAIN journal : journal'[k] = journal[k] /\ journal[k] \in Change
  BY <1>1, <1>3
<1>5. /\ memory'[t] = record
      /\ \A u \in Targets \ {t} : memory'[u] = memory[u]
  BY <1>1
<1> HIDE DEF n, record, entry
<1>6. TypeOK'
  <2>1. memory' \in [Targets -> Record] /\ journal' \in Seq(Change)
    BY <1>1, <1>2, <1>3
  <2>2. ASSUME NEW u \in Targets
        PROVE  (IF Exists(u) THEN State(u) \in StateOf(u) ELSE State(u) = None)'
    BY <1>2, <1>5 DEF IInv, TypeOK, Exists, State, record, StateOf
  <2>3. ASSUME NEW k \in DOMAIN journal'
        PROVE  /\ journal'[k].before \in StateOf(journal'[k].target) \cup {None}
               /\ journal'[k].after \in StateOf(journal'[k].target)
               /\ journal'[k].at <= now'
               /\ journal'[k].reverses < Len(journal')
    <3>1. CASE k = n
      BY <3>1, <1>1, <1>2, <1>4 DEF entry
    <3>2. CASE k \in DOMAIN journal
      <4>1. journal[k].reverses < Len(journal) /\ journal[k].reverses \in Nat
        BY <3>2, <1>4 DEF IInv, TypeOK, Change
      <4> QED
        BY <4>1, <3>2, <1>1, <1>4 DEF IInv, TypeOK, n
    <3> QED
      BY <3>1, <3>2, <1>4
  <2> QED
    BY <2>1, <2>2, <2>3, <1>1 DEF IInv, TypeOK, StateOf
<1>7. EntriesPast'
  <2> SUFFICES ASSUME NEW k \in DOMAIN journal'
      PROVE  journal'[k].version <= memory'[journal'[k].target].version
    BY DEF EntriesPast
  <2>1. CASE k = n
    BY <2>1, <1>2, <1>4, <1>5 DEF entry, record
  <2>2. CASE k \in DOMAIN journal
    <3>1. /\ journal'[k] = journal[k] /\ journal[k].target \in Targets
          /\ journal[k].version \in Nat /\ memory[journal[k].target].version \in Nat
          /\ journal[k].version <= memory[journal[k].target].version
      BY <2>2, <1>1, <1>4 DEF IInv, EntriesPast, Change, Record
    <3> QED
      BY <3>1, <1>2, <1>5 DEF record
  <2> QED
    BY <2>1, <2>2, <1>4
<1>8. HistoryReconstructs'
  <2> SUFFICES ASSUME NEW u \in Targets
      PROVE  Once(u)' /\ (\A k \in Entries(u)' : Follows(u, k)') /\ (Untouched(u)' \/ Ends(u)')
    BY DEF HistoryReconstructs, Once, Follows, Untouched, Ends
  <2>1. /\ Once(u) /\ \A k \in Entries(u) : Follows(u, k)
        /\ Untouched(u) \/ Ends(u)
    BY DEF IInv, HistoryReconstructs, Once, Follows, Untouched, Ends
  <2>2. /\ \A k \in Entries(u) : k \in Entries(u)' /\ journal'[k] = journal[k]
        /\ Entries(u)' = Entries(u) \cup {k \in {n} : u = t}
    BY <1>4 DEF Entries, entry
  <2>3. \A k \in Entries(u) : Follows(u, k)'
    BY <2>1, <2>2 DEF Follows, Made
  <2>4. CASE u # t
    <3>1. Entries(u)' = Entries(u) /\ memory'[u] = memory[u]
      BY <2>2, <2>4, <1>5
    <3>2. Untouched(u)' \/ Ends(u)'
      BY <2>1, <2>2, <3>1 DEF Untouched, Ends, Made, State
    <3> QED
      BY <2>1, <2>2, <2>3, <3>1, <3>2 DEF Once
  <2>5. CASE u = t
    <3>1. \A k \in Entries(u) : /\ journal[k].version \in Nat
                               /\ journal[k].version < journal'[n].version
      BY <2>5, <1>2, <1>4 DEF IInv, EntriesPast, Entries, entry, Change
    <3>2. /\ journal'[n].version = memory[t].version + 1
          /\ journal'[n].before = State(t) /\ journal'[n].after = after
      BY <1>4 DEF entry
    <3>3. Ends(u)'
      BY <2>2, <2>5, <3>2, <1>5 DEF Ends, Made, State, record
    <3>4. ASSUME NEW k \in {n} PROVE Follows(u, k)'
      <4>1. CASE Ends(u)
        <5>1. PICK j \in Entries(u) : /\ journal[j].version = memory[u].version
                                     /\ journal[j].after = State(u)
          BY <4>1 DEF Ends, Made
        <5>2. journal'[n].version - 1 = memory[u].version
          BY <2>5, <3>2, <1>2
        <5> QED
          BY <2>2, <2>5, <3>2, <5>1, <5>2 DEF Follows, Made
      <4>2. CASE Untouched(u)
        <5>1. memory[u].version > 0 => State(u) # None
          BY StateOfType DEF IInv, TypeOK, Exists
        <5>2. memory[u].version = 0 => State(u) = None
          BY DEF IInv, TypeOK, Exists
        <5> QED
          BY <2>5, <3>2, <4>2, <5>1, <5>2 DEF Follows, Untouched
      <4> QED
        BY <2>1, <4>1, <4>2
    <3>5. Once(u)'
      <4>1. journal'[n].version \in Nat
        BY <1>2, <3>2
      <4> QED
        BY <2>1, <2>2, <2>5, <3>1, <4>1 DEF Once
    <3> QED
      BY <2>2, <2>3, <3>3, <3>4, <3>5
  <2> QED
    BY <2>4, <2>5
<1>9. ReversalsAreImmediate'
  <2> SUFFICES ASSUME NEW k \in DOMAIN journal', journal'[k].reverses # 0
      PROVE  LET original == journal'[journal'[k].reverses] IN
               /\ original.reverses = 0
               /\ original.target = journal'[k].target
               /\ original.version + 1 = journal'[k].version
               /\ original.after = journal'[k].before
               /\ journal'[k].at < original.at + Window
               /\ \/ journal'[k].after.lifecycle = "logically_deleted"
                  \/ journal'[k].after = original.before
    BY DEF ReversalsAreImmediate
  <2>1. CASE k \in DOMAIN journal
    <3>1. journal'[k] = journal[k] /\ journal[k].reverses \in Nat \ {0}
          /\ journal[k].reverses < Len(journal)
      BY <2>1, <1>4 DEF Change, IInv, TypeOK
    <3>2. journal[k].reverses \in DOMAIN journal
      BY <3>1, <1>1
    <3>3. journal'[journal[k].reverses] = journal[journal[k].reverses]
      BY <3>2, <1>4
    <3> QED
      BY <2>1, <3>1, <3>3 DEF IInv, ReversalsAreImmediate
  <2>2. CASE k = n
    <3>1. journal'[k] = entry /\ reverses # 0
      BY <2>2, <1>4 DEF entry
    <3>2. Reversible(reverses) /\ journal[reverses].target = t /\ after = Inverse(reverses)
      BY <3>1 DEF Allowed
    <3>3. reverses \in DOMAIN journal /\ journal'[reverses] = journal[reverses]
          /\ journal[reverses] \in Change
      BY <3>1, <1>4
    <3>4. \/ after.lifecycle = "logically_deleted" \/ after = journal[reverses].before
      <4>1. CASE journal[reverses].before # None
        BY <4>1, <3>2 DEF Inverse
      <4>2. CASE journal[reverses].before = None
        <5>1. after = [journal[reverses].after EXCEPT !.lifecycle = "logically_deleted"]
          BY <4>2, <3>2 DEF Inverse
        <5>2. journal[reverses].after \in AnyState
          BY <3>3 DEF Change
        <5> QED
          BY <5>1, <5>2 DEF AnyState, ClaimState, AssessmentState
      <4> QED
        BY <4>1, <4>2
    <3> QED
      BY <3>1, <3>2, <3>3, <3>4 DEF Reversible, Latest, entry, State
  <2> QED
    BY <2>1, <2>2, <1>4
<1>10. CitedClaimsActive'
  <2> SUFFICES ASSUME NEW c \in Claims, (c \in cycleClaims \/ Citing(c) # {})' PROVE Usable(c)'
    BY DEF CitedClaimsActive
  <2>1. CASE c # t
    <3>1. Usable(c)' = Usable(c)
      BY <2>1, <1>5 DEF Usable, Exists, State, Targets
    <3>2. CASE c \in cycleClaims \/ Citing(c) # {}
      BY <3>1, <3>2 DEF IInv, CitedClaimsActive
    <3>3. CASE ~(c \in cycleClaims \/ Citing(c) # {})
      <4>1. PICK a \in Assessments : Exists(a)' /\ c \in State(a).links'
        BY <3>3, <1>1 DEF Citing
      <4>2. a = t
        BY <4>1, <3>3, <1>5 DEF Citing, Exists, State, Targets
      <4>3. c \in after.links /\ t \notin Claims
        BY <4>1, <4>2, <1>5 DEF State, record
      <4> QED
        BY <3>1, <4>3 DEF Allowed, Valid, Assessable
    <3> QED
      BY <3>2, <3>3
  <2>2. CASE c = t
    <3>1. Citing(c)' = Citing(c) /\ cycleClaims' = cycleClaims
      BY <2>2, <1>1, <1>5 DEF Citing, Exists, State, Targets
    <3>2. Usable(c) /\ Frozen(c)
      BY <3>1 DEF IInv, CitedClaimsActive, Frozen
    <3>3. after = State(t)
      BY <2>2, <3>2 DEF Allowed, Valid, Usable
    <3> QED
      BY <2>2, <3>2, <3>3, <1>2, <1>5 DEF Usable, Exists, State, record
  <2> QED
    BY <2>1, <2>2
<1> QED
  BY <1>6, <1>7, <1>8, <1>9, <1>10 DEF IInv

\* A step that changes the memory.
Wrote ==
    \E by \in Operators \cup {Extractor}, t \in Targets, operation \in Operation :
        \E after \in StateOf(t), reverses \in {0} \cup DOMAIN journal, detach \in BOOLEAN :
            /\ Allowed(t, after, detach, reverses)
            /\ Write(by, t, operation, after, reverses)

LEMMA PutWrites ==
  ASSUME NEW by \in Operators \cup {Extractor}, NEW t \in Targets, NEW expected,
         NEW after \in ActiveState(t), Put(by, t, expected, after)
  PROVE  Wrote
<1> DEFINE operation == IF Exists(t) THEN "UPDATE" ELSE "CREATE"
<1>1. operation \in Operation /\ after \in StateOf(t) /\ FALSE \in BOOLEAN
  BY DEF Operation, ActiveState
<1>2. Allowed(t, after, FALSE, 0) /\ Write(by, t, operation, after, 0)
  BY DEF Put, Allowed
<1> HIDE DEF operation
<1> QED
  BY <1>1, <1>2 DEF Wrote

LEMMA LifecycleWrites ==
  ASSUME IInv, NEW o \in Operators, NEW t \in Targets, NEW operation \in DOMAIN From,
         ChangeLifecycle(o, t, operation)
  PROVE  Wrote
<1> DEFINE after == [State(t) EXCEPT !.lifecycle = To[operation]]
<1>1. operation \in Operation /\ To[operation] \in Lifecycle /\ FALSE \in BOOLEAN
  BY DEF Operation, From, To, Lifecycle
<1>2. State(t) \in StateOf(t)
  BY DEF IInv, TypeOK, ChangeLifecycle
<1>3. after \in StateOf(t)
  BY <1>1, <1>2 DEF StateOf, ClaimState, AssessmentState
<1>4. Allowed(t, after, FALSE, 0) /\ Write(o, t, operation, after, 0)
  BY DEF ChangeLifecycle, Allowed
<1> HIDE DEF after
<1> QED
  BY <1>1, <1>3, <1>4 DEF Wrote

LEMMA ReverseWrites ==
  ASSUME IInv, NEW o \in Operators, NEW k \in DOMAIN journal, Reverse(o, k)
  PROVE  Wrote
<1> DEFINE t == journal[k].target
           after == Inverse(k)
<1>1. journal[k] \in Change
  BY DEF IInv, TypeOK
<1>2. t \in Targets /\ Exists(t)
  <2>1. t \in Targets /\ journal[k].version \in Nat \ {0}
    BY <1>1 DEF Change
  <2>2. journal[k].version <= memory[t].version /\ memory[t].version \in Nat
    BY <2>1 DEF IInv, TypeOK, EntriesPast, Record
  <2> QED
    BY <2>1, <2>2 DEF Exists
<1>3. after \in StateOf(t)
  <2>1. /\ journal[k].before \in StateOf(t) \cup {None}
        /\ journal[k].after \in StateOf(t)
    BY DEF IInv, TypeOK
  <2>2. CASE journal[k].before # None
    BY <2>1, <2>2 DEF Inverse
  <2>3. CASE journal[k].before = None
    BY <2>1, <2>3 DEF Inverse, StateOf, ClaimState, AssessmentState, Lifecycle
  <2> QED
    BY <2>2, <2>3
<1>4. Allowed(t, after, TRUE, k) /\ Write(o, t, "REVERSE", after, k)
  BY <1>2 DEF Reverse, Allowed
<1>5. "REVERSE" \in Operation /\ TRUE \in BOOLEAN
  BY DEF Operation
<1> HIDE DEF t, after
<1> QED
  BY <1>2, <1>3, <1>4, <1>5 DEF Wrote

\* What else happens in the investigation leaves the memory and its journal.
Around == /\ UNCHANGED <<memory, journal>>
          /\ now' \in now..MaxTime
          /\ \/ cycleClaims' = cycleClaims
             \/ \E c \in Claims : Usable(c) /\ cycleClaims' = cycleClaims \cup {c}
          /\ \/ seen' = seen
             \/ \E o \in Operators : seen' = [seen EXCEPT ![o] = memory]
          /\ active' \in BOOLEAN /\ security' \in SecurityState

LEMMA StepKinds == IInv /\ [Next]_vars => Wrote \/ Around
<1> SUFFICES ASSUME IInv, [Next]_vars PROVE Wrote \/ Around
  OBVIOUS
<1>1. now \in now..MaxTime /\ active \in BOOLEAN /\ security \in SecurityState /\ now \in Nat
  BY DEF IInv, TypeOK
<1>2. ASSUME NEW o \in Operators, NEW t \in Targets, Submit(o, t) PROVE Wrote
  BY <1>2, PutWrites DEF Submit
<1>3. ASSUME NEW o \in Operators, NEW t \in Targets, NEW operation \in DOMAIN From,
             ChangeLifecycle(o, t, operation) PROVE Wrote
  BY <1>3, LifecycleWrites
<1>4. ASSUME NEW by \in Operators \cup {Extractor}, NEW c \in Claims, Ingest(by, c) PROVE Wrote
  BY <1>4, PutWrites DEF Ingest, Targets
<1>5. ASSUME NEW o \in Operators, NEW a \in Assessments, Save(o, a) PROVE Wrote
  BY <1>5, PutWrites DEF Save, Targets
<1>6. ASSUME NEW o \in Operators, NEW k \in DOMAIN journal, Reverse(o, k) PROVE Wrote
  BY <1>6, ReverseWrites
<1>7. ASSUME NEW c \in Claims, CycleCites(c) PROVE Around
  BY <1>1, <1>7 DEF CycleCites, Around
<1>8. ASSUME NEW o \in Operators, Look(o) PROVE Around
  BY <1>1, <1>8 DEF Look, Around
<1>9. CASE SetStatus
  BY <1>1, <1>9 DEF SetStatus, Around
<1>10. CASE Tick
  BY <1>1, <1>10, MemoryAssumption DEF Tick, Around
<1>11. CASE Transition
  BY <1>1, <1>11, MemoryAssumption DEF Transition, Around
<1>12. CASE UNCHANGED vars
  BY <1>1, <1>12 DEF vars, Around
<1> QED
  BY <1>2, <1>3, <1>4, <1>5, <1>6, <1>7, <1>8, <1>9, <1>10, <1>11, <1>12 DEF Next

LEMMA AroundKeeps ==
  ASSUME IInv, Around
  PROVE  IInv'
<1>1. /\ memory' = memory /\ journal' = journal
      /\ \A t \in Targets : StateOf(t)' = StateOf(t) /\ Entries(t)' = Entries(t)
      /\ now \in Nat /\ now' \in 0..MaxTime /\ now <= now'
  BY MemoryAssumption DEF Around, IInv, TypeOK, StateOf, Entries
<1>2. TypeOK'
  <2>1. seen' \in [Operators -> [Targets -> Record]]
    <3>1. memory \in [Targets -> Record] /\ seen \in [Operators -> [Targets -> Record]]
      BY DEF IInv, TypeOK
    <3> QED
      BY <3>1 DEF Around
  <2>2. \A t \in Targets :
            (IF Exists(t) THEN State(t) \in StateOf(t) ELSE State(t) = None)'
    BY <1>1 DEF IInv, TypeOK, Exists, State, StateOf
  <2>3. \A k \in DOMAIN journal : journal[k].at \in Nat /\ journal[k].at <= now'
    <3> SUFFICES ASSUME NEW k \in DOMAIN journal
                 PROVE  journal[k].at \in Nat /\ journal[k].at <= now'
      OBVIOUS
    <3>1. journal[k] \in Change /\ journal[k].at <= now
      BY DEF IInv, TypeOK
    <3>2. journal[k].at \in Nat
      BY <3>1 DEF Change
    <3> QED
      BY <1>1, <3>1, <3>2
  <2>4. cycleClaims' \subseteq Claims
    BY DEF Around, IInv, TypeOK
  <2> QED
    BY <1>1, <2>1, <2>2, <2>3, <2>4 DEF Around, IInv, TypeOK, StateOf
<1>3. EntriesPast' /\ HistoryReconstructs' /\ ReversalsAreImmediate'
  BY <1>1 DEF IInv, EntriesPast, HistoryReconstructs, ReversalsAreImmediate, Made,
     Entries, State
<1>4. CitedClaimsActive'
  <2> SUFFICES ASSUME NEW c \in Claims, (c \in cycleClaims \/ Citing(c) # {})' PROVE Usable(c)'
    BY DEF CitedClaimsActive
  <2>1. Citing(c)' = Citing(c) /\ Usable(c)' = Usable(c)
    BY <1>1 DEF Citing, Usable, Exists, State
  <2> QED
    BY <2>1 DEF Around, IInv, CitedClaimsActive
<1> QED
  BY <1>2, <1>3, <1>4 DEF IInv

THEOREM InductiveInvariant == Spec => []IInv
<1>1. IInv /\ Wrote => IInv'
  BY WriteKeeps DEF Wrote
<1>2. IInv /\ [Next]_vars => IInv'
  BY <1>1, StepKinds, AroundKeeps
<1> QED
  BY InitIInv, <1>2, PTL DEF Spec

\* Every record, every state in the journal and every link has the type of
\* the kind of its target, whatever is proposed, restored or reversed.
THEOREM TypeCorrect == Spec => []TypeOK
<1>1. IInv => TypeOK
  BY DEF IInv
<1> QED
  BY <1>1, InductiveInvariant, PTL

\* The history of every target is one unbroken chain of versions that ends in
\* the current record.
THEOREM HistoryKept == Spec => []HistoryReconstructs
<1>1. IInv => HistoryReconstructs
  BY DEF IInv
<1> QED
  BY <1>1, InductiveInvariant, PTL

\* Only the change directly before a reversal is undone by it.
THEOREM ReversalsImmediate == Spec => []ReversalsAreImmediate
<1>1. IInv => ReversalsAreImmediate
  BY DEF IInv
<1> QED
  BY <1>1, InductiveInvariant, PTL

\* What an assessment cites or a cycle lists is active, through any sequence
\* of proposals, restorations and reversals.
THEOREM CitedActive == Spec => []CitedClaimsActive
<1>1. IInv => CitedClaimsActive
  BY DEF IInv
<1> QED
  BY <1>1, InductiveInvariant, PTL

\* What a cited claim says stands until the citation is gone.
THEOREM CitedStand == Spec => CitedClaimsStand
<1> DEFINE Stand == \A c \in Claims : (c \in cycleClaims \/ Citing(c) # {}) =>
                        memory'[c].state = memory[c].state
<1>1. IInv /\ Wrote => Stand
  <2> SUFFICES ASSUME IInv, Wrote, NEW c \in Claims, c \in cycleClaims \/ Citing(c) # {}
              PROVE  memory'[c].state = memory[c].state
    OBVIOUS
  <2>1. PICK by \in Operators \cup {Extractor}, t \in Targets, operation \in Operation :
           \E after \in StateOf(t), reverses \in {0} \cup DOMAIN journal, detach \in BOOLEAN :
               Allowed(t, after, detach, reverses) /\ Write(by, t, operation, after, reverses)
    BY DEF Wrote
  <2>2. PICK after \in StateOf(t), reverses \in {0} \cup DOMAIN journal, detach \in BOOLEAN :
           Allowed(t, after, detach, reverses) /\ Write(by, t, operation, after, reverses)
    BY <2>1
  <2>3. /\ memory \in [Targets -> Record] /\ c \in Targets
        /\ memory' = [memory EXCEPT ![t] = [version |-> NewVersion(t, reverses), state |-> after]]
    BY <2>2 DEF IInv, TypeOK, Write, Targets
  <2>4. CASE c = t
    <3>1. Exists(c) /\ Frozen(c)
      BY DEF IInv, CitedClaimsActive, Usable, Frozen
    <3>2. after = State(c)
      BY <2>2, <2>4, <3>1 DEF Allowed, Valid
    <3> QED
      BY <2>3, <2>4, <3>2 DEF State
  <2>5. CASE c # t
    BY <2>3, <2>5
  <2> QED
    BY <2>4, <2>5
<1>2. IInv /\ [Next]_vars => Stand \/ UNCHANGED vars
  BY <1>1, StepKinds DEF Around
<1> QED
  BY <1>2, InductiveInvariant, PTL DEF Spec, CitedClaimsStand
=============================================================================
