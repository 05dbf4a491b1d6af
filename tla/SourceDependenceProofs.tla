------------------------ MODULE SourceDependenceProofs ------------------------
(***************************************************************************)
(* Proofs about SourceDependence, for any number of sources, relationships *)
(* and changes.  Steps summarises a command; every invariant follows from  *)
(* it.  Acyclicity is proved for sources with no more relationships than a *)
(* query returns; the run DependenceLimit shows that it needs this.        *)
(***************************************************************************)
EXTENDS SourceDependence, FiniteSetTheorems, WellFoundedInduction, TLAPS

\* What a journal holds of the row and of the commands: the induction
\* hypothesis of every theorem below.
Chain ==
    \A r \in Rel :
        /\ current[r] = Absent => journal[r] = <<>>
        /\ current[r] # Absent => ValidHistory(r)
        /\ \A i \in DOMAIN journal[r] : journal[r][i].result.direction \in Directions(r)

\* A corrected or retracted relationship keeps the command that did it.
CommandRecorded ==
    \A r \in Rel : \A i \in DOMAIN journal[r] :
        LET change == journal[r][i]
        IN  change.operation \in {"SET", "RETRACT"} =>
                change.command = Canonical(change.operation, change.result.direction,
                    change.result.lifecycle, change.previous.revision, 0)

\* Only captured sources are related.
EndsKnown == \A r \in Rel : current[r] # Absent => Ends(r) \subseteq known

\* The change undoes the last one of r.
Undoes(r, change) ==
    /\ change.command.target \in DOMAIN journal[r]
    /\ change.command.target = current[r].revision
    /\ journal[r][change.command.target].operation # "REVERSE"
    /\ LET back == Restored(journal[r][change.command.target], current[r])
       IN  /\ change.result.direction = back.direction
           /\ change.result.lifecycle = back.lifecycle

\* The change is what a command on r may add.
Sound(r, change) ==
    /\ change \in Recorded
    /\ current[r] = Absent => Ends(r) \subseteq known
    /\ change.result.direction \in Directions(r)
    /\ change.previous = current[r]
    /\ change.result.revision = current[r].revision + 1
    /\ (change.operation = "CREATE") = (current[r] = Absent)
    /\ MayHold(r, change.result.direction, change.result.lifecycle,
               IF current[r] = Absent THEN {} ELSE {r})
    /\ change.operation = "REVERSE" => Undoes(r, change)
    /\ change.operation \in {"SET", "RETRACT"} =>
           change.command = Canonical(change.operation, change.result.direction,
               change.result.lifecycle, change.previous.revision, 0)

\* The change is added to r's journal and its result becomes the row.
Adds(r, change) ==
    /\ current' = [current EXCEPT ![r] = change.result]
    /\ journal' = [journal EXCEPT ![r] = Append(@, change)]
    /\ UNCHANGED <<known, lapsed, allowed>>

\* The same of the change that Commit writes.
Writes(r, operation, direction, lifecycle, command, change) ==
    /\ Adds(r, change)
    /\ change.operation = operation
    /\ change.command = command
    /\ change.previous = current[r]
    /\ change.result = [direction |-> direction, lifecycle |-> lifecycle,
                        revision |-> current[r].revision + 1]

----------------------------------------------------------------------------
(* Lemmas about one command.                                               *)

\* The pair and the change that Commit writes.
LEMMA CommitAdds ==
    ASSUME TypeOK, NEW r \in Rel,
           NEW operation \in {"CREATE", "SET", "RETRACT", "REVERSE"},
           NEW direction \in Directions(r),
           NEW lifecycle \in {"active", "retracted"}, NEW command \in Command,
           Commit(r, operation, direction, lifecycle, command)
    PROVE  \E change \in Recorded :
               Writes(r, operation, direction, lifecycle, command, change)
<1> DEFINE state == [direction |-> direction, lifecycle |-> lifecycle,
                     revision |-> current[r].revision + 1]
           change == Change(operation, command, current[r], state)
<1>1. current[r] \in State \cup {Absent}
  BY DEF TypeOK
<1>2. current[r].revision \in Nat
  BY <1>1 DEF State, Absent
<1>3. direction \in {"none", "low_to_high", "high_to_low"}
  BY DEF Directions
<1>4. state \in State
  BY <1>2, <1>3 DEF State
<1>5. change \in Recorded
  BY <1>1, <1>4 DEF Change, Recorded
<1>6. Adds(r, change)
  BY DEF Commit, Adds, Change
<1> QED
  BY <1>5, <1>6 DEF Change, Writes

\* What a reversal puts back is a state of r.
LEMMA RestoredState ==
    ASSUME TypeOK, Chain, NEW r \in Rel, current[r] # Absent,
           NEW target \in DOMAIN journal[r], target = current[r].revision
    PROVE  LET back == Restored(journal[r][target], current[r])
           IN  /\ back.direction \in Directions(r)
               /\ back.lifecycle \in {"active", "retracted"}
<1> DEFINE change == journal[r][target]
<1>1. /\ journal[r] \in Seq(Recorded)
      /\ current[r] \in State \cup {Absent}
      /\ current[r].direction \in Directions(r)
      /\ ValidHistory(r)
  BY DEF TypeOK, Chain
<1>2. target \in 1..Len(journal[r])
  BY <1>1
<1>3. CASE change.previous = Absent
  BY <1>1, <1>3 DEF Restored, State
<1>4. CASE change.previous # Absent
  <2>1. target # 1 /\ change.previous = journal[r][target - 1].result
    BY <1>1, <1>2, <1>4 DEF ValidHistory
  <2>2. target - 1 \in DOMAIN journal[r] /\ journal[r][target - 1] \in Recorded
    BY <1>1, <1>2, <2>1
  <2>3. journal[r][target - 1].result \in State
    BY <2>2 DEF Recorded
  <2>4. journal[r][target - 1].result.direction \in Directions(r)
    BY <2>2 DEF Chain
  <2> QED
    BY <1>4, <2>1, <2>3, <2>4 DEF Restored, State
<1> QED
  BY <1>3, <1>4

\* Every step adds one sound change or leaves rows and journals alone.
LEMMA Steps ==
    ASSUME TypeOK, Chain, Next
    PROVE  \/ /\ UNCHANGED <<current, journal>>
              /\ known \subseteq known'
              /\ known' \subseteq Source
              /\ allowed' \in BOOLEAN
              /\ \A r \in Rel : lapsed[r] \in Nat /\ lapsed[r] <= Len(journal[r])
              /\ \/ lapsed' = lapsed
                 \/ \E r \in Rel : lapsed' = [lapsed EXCEPT ![r] = Len(journal[r])]
           \/ \E r \in Rel : \E change \in Recorded : Sound(r, change) /\ Adds(r, change)
<1>1. ASSUME NEW r \in Rel, NEW direction \in Directions(r), Create(r, direction)
      PROVE  \E change \in Recorded : Sound(r, change) /\ Adds(r, change)
  <2> DEFINE command == Canonical("CREATE", direction, "active", 0, 0)
  <2>1. command \in Command
    BY DEF Command, Canonical, Directions
  <2>2. Commit(r, "CREATE", direction, "active", command)
    BY <1>1 DEF Create
  <2>3. PICK change \in Recorded :
            Writes(r, "CREATE", direction, "active", command, change)
    BY <2>1, <2>2, CommitAdds
  <2>4. /\ current[r] = Absent /\ Ends(r) \subseteq known
        /\ MayHold(r, direction, "active", {})
    BY <1>1 DEF Create
  <2>5. Sound(r, change)
    BY <2>3, <2>4 DEF Sound, Writes
  <2> QED
    BY <2>3, <2>5 DEF Writes
<1>2. ASSUME NEW r \in Rel, NEW request \in Mutation, Mutate(r, request)
      PROVE  \E change \in Recorded : Sound(r, change) /\ Adds(r, change)
  <2> DEFINE lifecycle == Lifecycle(request)
             direction == Direction(request, current[r])
             command == Canonical(request.operation, direction, lifecycle,
                                  request.expected, 0)
  <2>1. /\ current[r] # Absent
        /\ current[r].revision = request.expected
        /\ direction \in Directions(r)
        /\ MayHold(r, direction, lifecycle, {r})
        /\ Commit(r, request.operation, direction, lifecycle, command)
    BY <1>2 DEF Mutate
  <2>2. /\ lifecycle \in {"active", "retracted"}
        /\ request.operation \in {"SET", "RETRACT"}
        /\ request.expected \in Nat
    BY DEF Mutation, Lifecycle
  <2>3. command \in Command
    BY <2>1, <2>2 DEF Command, Canonical, Directions
  <2> HIDE DEF command, direction, lifecycle
  <2>4. PICK change \in Recorded :
            Writes(r, request.operation, direction, lifecycle, command, change)
    BY <2>1, <2>2, <2>3, CommitAdds
  <2>5. change.command = Canonical(change.operation, change.result.direction,
            change.result.lifecycle, change.previous.revision, 0)
    BY <2>1, <2>4 DEF command, Writes
  <2>6. Sound(r, change)
    BY <2>1, <2>2, <2>4, <2>5 DEF Sound, Writes
  <2> QED
    BY <2>4, <2>6 DEF Writes
<1>3. ASSUME NEW r \in Rel, NEW target \in 1..MaxChanges, NEW expected \in 1..MaxChanges,
             Reverse(r, target, expected)
      PROVE  \E change \in Recorded : Sound(r, change) /\ Adds(r, change)
  <2> DEFINE back == Restored(journal[r][target], current[r])
             command == Canonical("REVERSE", "none", "none", expected, target)
  <2>1. /\ target \in DOMAIN journal[r]
        /\ journal[r][target].operation # "REVERSE"
        /\ target = current[r].revision
        /\ MayHold(r, back.direction, back.lifecycle, {r})
        /\ Commit(r, "REVERSE", back.direction, back.lifecycle, command)
    BY <1>3 DEF Reverse, Reversible
  <2>2. current[r] # Absent
    BY <2>1 DEF Absent
  <2>3. back.direction \in Directions(r) /\ back.lifecycle \in {"active", "retracted"}
    BY <2>1, <2>2, RestoredState
  <2>4. command \in Command /\ command.target = target
    BY DEF Command, Canonical
  <2> HIDE DEF command, back
  <2>5. PICK change \in Recorded :
            Writes(r, "REVERSE", back.direction, back.lifecycle, command, change)
    BY <2>1, <2>3, <2>4, CommitAdds
  <2>6. Undoes(r, change)
    BY <2>1, <2>4, <2>5 DEF Undoes, back, Writes
  <2>7. Sound(r, change)
    BY <2>1, <2>2, <2>3, <2>5, <2>6 DEF Sound, Writes
  <2> QED
    BY <2>5, <2>7 DEF Writes
<1>4. \A r \in Rel : lapsed[r] \in Nat /\ lapsed[r] <= Len(journal[r])
  BY DEF TypeOK
<1>5. CASE \E s \in Source : Capture(s)
  BY <1>4, <1>5 DEF Capture, TypeOK
<1>6. CASE \E r \in Rel : Lapse(r)
  BY <1>4, <1>6 DEF Lapse, TypeOK
<1>7. CASE Transition
  BY <1>4, <1>7 DEF Transition, TypeOK
<1> QED
  BY <1>1, <1>2, <1>3, <1>5, <1>6, <1>7 DEF Next

\* What Adds leaves in a journal.
LEMMA Appended ==
    ASSUME TypeOK, NEW r \in Rel, NEW change \in Recorded, Adds(r, change)
    PROVE  /\ current'[r] = change.result
           /\ journal'[r] = Append(journal[r], change)
           /\ DOMAIN journal'[r] = 1..(Len(journal[r]) + 1)
           /\ Len(journal'[r]) = Len(journal[r]) + 1
           /\ DOMAIN journal[r] = 1..Len(journal[r])
           /\ Len(journal[r]) \in Nat
           /\ journal'[r][Len(journal[r]) + 1] = change
           /\ \A i \in DOMAIN journal[r] : journal'[r][i] = journal[r][i]
           /\ \A q \in Rel \ {r} : current'[q] = current[q] /\ journal'[q] = journal[q]
<1>1. journal[r] \in Seq(Recorded) /\ journal \in [Rel -> Seq(Recorded)]
  BY DEF TypeOK
<1>2. current \in [Rel -> State \cup {Absent}]
  BY DEF TypeOK
<1> QED
  BY <1>1, <1>2 DEF Adds

----------------------------------------------------------------------------
(* The invariants and the theorems.                                        *)

\* What every command keeps, whatever the order.
Inv == TypeOK /\ Chain /\ CommandRecorded /\ ReversalRestores /\ EndsKnown

LEMMA TypeStep ==
    ASSUME TypeOK, Chain, [Next]_vars
    PROVE  TypeOK'
<1>1. CASE UNCHANGED vars
  BY <1>1 DEF vars, TypeOK
<1>2. ASSUME NEW r \in Rel, NEW change \in Recorded, Sound(r, change), Adds(r, change)
      PROVE  TypeOK'
  <2>1. change.result \in State
    BY DEF Recorded
  <2>2. current' \in [Rel -> State \cup {Absent}]
    BY <1>2, <2>1 DEF Adds, TypeOK
  <2>3. journal' \in [Rel -> Seq(Recorded)]
    BY <1>2 DEF Adds, TypeOK
  <2>4. UNCHANGED <<known, lapsed, allowed>>
    BY <1>2 DEF Adds
  <2>5. ASSUME NEW q \in Rel
        PROVE  /\ current'[q] # Absent => current'[q].direction \in Directions(q)
               /\ lapsed'[q] <= Len(journal'[q])
    <3>1. CASE q = r
      <4>1. current'[q].direction \in Directions(q)
        BY <1>2, <3>1, Appended DEF Sound
      <4>2. Len(journal'[q]) = Len(journal[q]) + 1 /\ Len(journal[q]) \in Nat
        BY <1>2, <3>1, Appended
      <4>3. lapsed'[q] = lapsed[q] /\ lapsed[q] \in Nat /\ lapsed[q] <= Len(journal[q])
        BY <2>4 DEF TypeOK
      <4> QED
        BY <4>1, <4>2, <4>3
    <3>2. CASE q # r
      BY <1>2, <2>4, <3>2, Appended DEF TypeOK
    <3> QED
      BY <3>1, <3>2
  <2> QED
    BY <2>2, <2>3, <2>4, <2>5 DEF TypeOK
<1>3. ASSUME UNCHANGED <<current, journal>>,
             known' \subseteq Source,
             allowed' \in BOOLEAN,
             \/ lapsed' = lapsed
             \/ \E r \in Rel : lapsed' = [lapsed EXCEPT ![r] = Len(journal[r])]
      PROVE  TypeOK'
  <2>1. \A r \in Rel : Len(journal[r]) \in Nat
    BY DEF TypeOK
  <2>2. /\ lapsed' \in [Rel -> Nat]
        /\ \A r \in Rel : lapsed'[r] <= Len(journal[r])
    <3>1. lapsed \in [Rel -> Nat] /\ \A r \in Rel : lapsed[r] <= Len(journal[r])
      BY DEF TypeOK
    <3>2. CASE lapsed' = lapsed
      BY <3>1, <3>2
    <3>3. ASSUME NEW r \in Rel, lapsed' = [lapsed EXCEPT ![r] = Len(journal[r])]
          PROVE  /\ lapsed' \in [Rel -> Nat]
                 /\ \A q \in Rel : lapsed'[q] <= Len(journal[q])
      BY <2>1, <3>1, <3>3
    <3> QED
      BY <1>3, <3>2, <3>3
  <2> QED
    BY <1>3, <2>2 DEF TypeOK
<1> QED
  BY <1>1, <1>2, <1>3, Steps

LEMMA ChainStep ==
    ASSUME TypeOK, Chain, [Next]_vars
    PROVE  Chain'
<1>1. CASE UNCHANGED vars
  BY <1>1 DEF vars, Chain, ValidHistory
<1>2. ASSUME UNCHANGED <<current, journal>>
      PROVE  Chain'
  BY <1>2 DEF Chain, ValidHistory
<1>3. ASSUME NEW r \in Rel, NEW change \in Recorded, Sound(r, change), Adds(r, change)
      PROVE  Chain'
  <2> SUFFICES ASSUME NEW q \in Rel
               PROVE  /\ current'[q] = Absent => journal'[q] = <<>>
                      /\ current'[q] # Absent => ValidHistory(q)'
                      /\ \A i \in DOMAIN journal'[q] :
                             journal'[q][i].result.direction \in Directions(q)
    BY DEF Chain
  <2>1. CASE q # r
    BY <1>3, <2>1, Appended DEF Chain, ValidHistory
  <2>2. CASE q = r
    <3> DEFINE n == Len(journal[r])
    <3>1. /\ current'[r] = change.result
          /\ DOMAIN journal'[r] = 1..(n + 1)
          /\ Len(journal'[r]) = n + 1
          /\ DOMAIN journal[r] = 1..n
          /\ n \in Nat
          /\ journal'[r][n + 1] = change
          /\ \A i \in 1..n : journal'[r][i] = journal[r][i]
      BY <1>3, Appended
    <3>2. change.result # Absent
      BY DEF Recorded, State, Absent
    <3>3. \A i \in 1..(n + 1) : journal'[r][i].result.direction \in Directions(r)
      BY <1>3, <3>1 DEF Chain, Sound
    <3>4. change.result.revision = n + 1
      <4>1. CASE current[r] = Absent
        BY <1>3, <4>1 DEF Chain, Sound, Absent
      <4>2. CASE current[r] # Absent
        <5>1. n # 0 /\ current[r] = journal[r][n].result /\ journal[r][n].result.revision = n
          BY <3>1, <4>2 DEF Chain, ValidHistory
        <5> QED
          BY <1>3, <5>1 DEF Sound
      <4> QED
        BY <4>1, <4>2
    <3>5. (change.operation = "CREATE") = (n + 1 = 1)
      <4>1. CASE current[r] = Absent
        BY <1>3, <3>1, <4>1 DEF Chain, Sound
      <4>2. CASE current[r] # Absent
        <5>1. n # 0
          BY <3>1, <4>2 DEF Chain, ValidHistory
        <5> QED
          BY <1>3, <3>1, <4>2, <5>1 DEF Sound
      <4> QED
        BY <4>1, <4>2
    <3>6. change.previous = IF n + 1 = 1 THEN Absent ELSE journal'[r][n].result
      <4>1. CASE current[r] = Absent
        BY <1>3, <3>1, <4>1 DEF Chain, Sound
      <4>2. CASE current[r] # Absent
        <5>1. n # 0 /\ current[r] = journal[r][n].result
          BY <3>1, <4>2 DEF Chain, ValidHistory
        <5> QED
          BY <1>3, <3>1, <5>1 DEF Sound
      <4> QED
        BY <4>1, <4>2
    <3> HIDE DEF n
    <3>7. ASSUME NEW i \in 1..(n + 1)
          PROVE  /\ journal'[r][i].result.revision = i
                 /\ (journal'[r][i].operation = "CREATE") = (i = 1)
                 /\ journal'[r][i].previous =
                        IF i = 1 THEN Absent ELSE journal'[r][i - 1].result
      <4>1. CASE i = n + 1
        BY <3>1, <3>4, <3>5, <3>6, <4>1
      <4>2. CASE i \in 1..n
        <5>1. current[r] # Absent
          BY <3>1, <4>2 DEF Chain
        <5>2. ValidHistory(r)
          BY <5>1 DEF Chain
        <5>3. i = 1 \/ i - 1 \in 1..n
          BY <3>1, <4>2
        <5>4. /\ journal[r][i].result.revision = i
              /\ (journal[r][i].operation = "CREATE") = (i = 1)
              /\ journal[r][i].previous =
                     IF i = 1 THEN Absent ELSE journal[r][i - 1].result
          BY <3>1, <4>2, <5>2 DEF ValidHistory
        <5>5. i # 1 => journal'[r][i - 1] = journal[r][i - 1]
          BY <3>1, <5>3
        <5>6. journal'[r][i] = journal[r][i]
          BY <3>1, <4>2
        <5> QED
          BY <5>4, <5>5, <5>6
      <4> QED
        BY <3>1, <4>1, <4>2
    <3>8. journal'[r] # <<>> /\ current'[r] = journal'[r][Len(journal'[r])].result
      BY <3>1
    <3>9. ValidHistory(r)'
      BY <3>1, <3>7, <3>8 DEF ValidHistory
    <3> QED
      BY <2>2, <3>1, <3>2, <3>3, <3>9
  <2> QED
    BY <2>1, <2>2
<1> QED
  BY <1>1, <1>2, <1>3, Steps

LEMMA CommandStep ==
    ASSUME TypeOK, Chain, CommandRecorded, [Next]_vars
    PROVE  CommandRecorded'
<1>1. CASE UNCHANGED vars
  BY <1>1 DEF vars, CommandRecorded
<1>2. ASSUME UNCHANGED <<current, journal>>
      PROVE  CommandRecorded'
  BY <1>2 DEF CommandRecorded
<1>3. ASSUME NEW r \in Rel, NEW change \in Recorded, Sound(r, change), Adds(r, change)
      PROVE  CommandRecorded'
  <2> SUFFICES ASSUME NEW q \in Rel, NEW i \in DOMAIN journal'[q],
                      journal'[q][i].operation \in {"SET", "RETRACT"}
               PROVE  journal'[q][i].command =
                          Canonical(journal'[q][i].operation,
                              journal'[q][i].result.direction,
                              journal'[q][i].result.lifecycle,
                              journal'[q][i].previous.revision, 0)
    BY DEF CommandRecorded
  <2>1. CASE q # r
    BY <1>3, <2>1, Appended DEF CommandRecorded
  <2>2. CASE q = r /\ i \in DOMAIN journal[r]
    BY <1>3, <2>2, Appended DEF CommandRecorded
  <2>3. CASE q = r /\ i \notin DOMAIN journal[r]
    <3>1. journal'[q][i] = change
      BY <1>3, <2>3, Appended
    <3> QED
      BY <1>3, <3>1 DEF Sound
  <2> QED
    BY <2>1, <2>2, <2>3
<1> QED
  BY <1>1, <1>2, <1>3, Steps

LEMMA ReversalStep ==
    ASSUME TypeOK, Chain, ReversalRestores, [Next]_vars
    PROVE  ReversalRestores'
<1>1. CASE UNCHANGED vars
  BY <1>1 DEF vars, ReversalRestores
<1>2. ASSUME UNCHANGED <<current, journal>>
      PROVE  ReversalRestores'
  BY <1>2 DEF ReversalRestores
<1>3. ASSUME NEW r \in Rel, NEW change \in Recorded, Sound(r, change), Adds(r, change)
      PROVE  ReversalRestores'
  <2> DEFINE Fine(j, i) ==
                 j[i].operation = "REVERSE" =>
                     /\ i > 1
                     /\ j[i - 1].operation # "REVERSE"
                     /\ j[i].command.target = i - 1
                     /\ IF j[i - 1].operation = "CREATE"
                        THEN /\ j[i].result.lifecycle = "retracted"
                             /\ j[i].result.direction = j[i - 1].result.direction
                        ELSE /\ j[i].result.lifecycle = j[i - 1].previous.lifecycle
                             /\ j[i].result.direction = j[i - 1].previous.direction
         n == Len(journal[r])
  <2>1. \A q \in Rel : \A i \in DOMAIN journal[q] : Fine(journal[q], i)
    BY DEF ReversalRestores
  <2>2. /\ DOMAIN journal'[r] = 1..(n + 1)
        /\ DOMAIN journal[r] = 1..n
        /\ n \in Nat
        /\ journal'[r][n + 1] = change
        /\ \A i \in 1..n : journal'[r][i] = journal[r][i]
        /\ \A q \in Rel \ {r} : journal'[q] = journal[q]
    BY <1>3, Appended
  <2> HIDE DEF n
  <2>3. ASSUME NEW i \in 1..n
        PROVE  Fine(journal'[r], i)
    <3>1. Fine(journal[r], i)
      BY <2>1, <2>2
    <3>2. CASE journal[r][i].operation = "REVERSE"
      <4>1. i - 1 \in 1..n
        BY <2>2, <3>1, <3>2
      <4> QED
        BY <2>2, <3>1, <3>2, <4>1
    <3>3. CASE journal[r][i].operation # "REVERSE"
      BY <2>2, <3>3
    <3> QED
      BY <3>2, <3>3
  <2>4. Fine(journal'[r], n + 1)
    <3> SUFFICES ASSUME change.operation = "REVERSE"
                 PROVE  Fine(journal'[r], n + 1)
      BY <2>2
    <3>1. Undoes(r, change)
      BY <1>3 DEF Sound
    <3>2. current[r] # Absent
      BY <1>3 DEF Sound
    <3>3. ValidHistory(r)
      BY <3>2 DEF Chain
    <3>4. current[r] = journal[r][n].result /\ n # 0 /\ journal[r][n].result.revision = n
      BY <2>2, <3>3 DEF ValidHistory, n
    <3>5. change.command.target = n
      BY <3>1, <3>4 DEF Undoes
    <3>6. /\ journal[r][n].operation # "REVERSE"
          /\ change.result.direction = Restored(journal[r][n], current[r]).direction
          /\ change.result.lifecycle = Restored(journal[r][n], current[r]).lifecycle
      BY <3>1, <3>5 DEF Undoes
    <3>7. n \in 1..n /\ n + 1 - 1 = n /\ n + 1 > 1
      BY <2>2, <3>4
    <3>8. journal'[r][n] = journal[r][n]
      BY <2>2, <3>7
    <3>9. (journal[r][n].operation = "CREATE") = (n = 1)
      BY <2>2, <3>3, <3>7 DEF ValidHistory
    <3>10. CASE journal[r][n].operation = "CREATE"
      <4>1. journal[r][n].previous = Absent
        BY <2>2, <3>3, <3>7, <3>9, <3>10 DEF ValidHistory
      <4>2. current[r] \in State
        BY <3>2 DEF TypeOK
      <4>3. /\ change.result.lifecycle = "retracted"
            /\ change.result.direction = current[r].direction
        BY <3>6, <4>1, <4>2 DEF Restored, State
      <4> QED
        BY <2>2, <3>4, <3>5, <3>7, <3>8, <3>10, <4>3
    <3>11. CASE journal[r][n].operation # "CREATE"
      <4>1. n # 1 /\ n - 1 \in 1..n
        BY <2>2, <3>7, <3>9, <3>11
      <4>2. journal[r][n].previous = journal[r][n - 1].result
        BY <2>2, <3>3, <3>7, <4>1 DEF ValidHistory
      <4>3. journal[r] \in Seq(Recorded)
        BY DEF TypeOK
      <4>4. journal[r][n - 1] \in Recorded
        BY <2>2, <4>1, <4>3
      <4>5. journal[r][n].previous # Absent
        BY <4>2, <4>4 DEF Recorded, State, Absent
      <4>6. Restored(journal[r][n], current[r]) = journal[r][n].previous
        BY <4>5 DEF Restored
      <4> QED
        BY <2>2, <3>5, <3>6, <3>7, <3>8, <3>11, <4>6
    <3> QED
      BY <3>10, <3>11
  <2>5. \A q \in Rel : \A i \in DOMAIN journal'[q] : Fine(journal'[q], i)
    <3> TAKE q \in Rel
    <3> TAKE i \in DOMAIN journal'[q]
    <3>1. CASE q = r
      <4>1. i \in 1..n \/ i = n + 1
        BY <2>2, <3>1
      <4> QED
        BY <2>3, <2>4, <3>1, <4>1
    <3>2. CASE q # r
      <4>1. journal'[q] = journal[q]
        BY <2>2, <3>2
      <4> QED
        BY <2>1, <4>1
    <3> QED
      BY <3>1, <3>2
  <2> QED
    BY <2>5 DEF ReversalRestores
<1> QED
  BY <1>1, <1>2, <1>3, Steps

LEMMA KnownStep ==
    ASSUME TypeOK, Chain, EndsKnown, [Next]_vars
    PROVE  EndsKnown'
<1>1. CASE UNCHANGED vars
  BY <1>1 DEF vars, EndsKnown
<1>2. ASSUME UNCHANGED current, known \subseteq known'
      PROVE  EndsKnown'
  BY <1>2 DEF EndsKnown
<1>3. ASSUME NEW r \in Rel, NEW change \in Recorded, Sound(r, change), Adds(r, change)
      PROVE  EndsKnown'
  <2>1. known' = known /\ \A q \in Rel \ {r} : current'[q] = current[q]
    BY <1>3, Appended DEF Adds
  <2>2. Ends(r) \subseteq known
    BY <1>3 DEF Sound, EndsKnown
  <2> QED
    BY <2>1, <2>2 DEF EndsKnown
<1> QED
  BY <1>1, <1>2, <1>3, Steps

LEMMA Initially == Init => Inv
<1> SUFFICES ASSUME Init
             PROVE  Inv
  OBVIOUS
<1>1. \A r \in Rel : current[r] = Absent /\ journal[r] = <<>> /\ lapsed[r] = 0
  BY DEF Init
<1>2. TypeOK
  BY <1>1 DEF Init, TypeOK
<1>3. Chain /\ CommandRecorded /\ ReversalRestores /\ EndsKnown
  BY <1>1 DEF Chain, CommandRecorded, ReversalRestores, EndsKnown
<1> QED
  BY <1>2, <1>3 DEF Inv

LEMMA Inductive == Inv /\ [Next]_vars => Inv'
  BY TypeStep, ChainStep, CommandStep, ReversalStep, KnownStep DEF Inv

\* Inv is an invariant of every session of the service.
THEOREM Invariance == Spec => []Inv
<1>1. Init => Inv
  BY Initially
<1>2. Inv /\ [Next]_vars => Inv'
  BY Inductive
<1> QED
  BY <1>1, <1>2, PTL DEF Spec

\* Rows, journals and windows keep their shape, for any number of sources and
\* relationships and any sequence of commands.
THEOREM TypeCorrect == Spec => []TypeOK
<1>1. Inv => TypeOK
  BY DEF Inv
<1> QED
  BY <1>1, Invariance, PTL

\* A read of a journal never finds a gap, a change that does not start from the
\* state before it, or a row apart from its last change.
THEOREM HistoryKept == Spec => []HistoryReplays
<1>1. Inv => HistoryReplays
  BY DEF Inv, Chain, HistoryReplays
<1> QED
  BY <1>1, Invariance, PTL

\* A reversal always restores exactly what the change before it found.
THEOREM ReversalKept == Spec => []ReversalRestores
<1>1. Inv => ReversalRestores
  BY DEF Inv
<1> QED
  BY <1>1, Invariance, PTL

\* A mutation that is delivered again is recognised for ever.
THEOREM RetryKept == Spec => []RetryRecognised
<1>1. ASSUME Inv
      PROVE  RetryRecognised
  <2> SUFFICES ASSUME NEW r \in Rel, NEW i \in DOMAIN journal[r],
                      NEW request \in Mutation, Asks(request, journal[r][i])
               PROVE  Replays(request, journal[r][i], current[r])
    BY DEF RetryRecognised
  <2> DEFINE change == journal[r][i]
  <2>1. change.operation \in {"SET", "RETRACT"}
    BY DEF Asks, Mutation
  <2>2. change.command = Canonical(change.operation, change.result.direction,
            change.result.lifecycle, change.previous.revision, 0)
    BY <1>1, <2>1 DEF Inv, CommandRecorded
  <2>3. request.operation = change.operation /\ request.expected = change.previous.revision
    BY DEF Asks
  <2> QED
    BY <2>2, <2>3 DEF Replays
<1> QED
  BY <1>1, Invariance, PTL

----------------------------------------------------------------------------
(* Acyclicity.                                                             *)

\* No source has more derived-from relationships than a query returns.
DegreeBound ==
    \A s \in Source :
        Cardinality({r \in Rel : r[3] = "derived_from" /\ s \in Ends(r)})
            <= MaxExamined + 1

\* A query then returns every relationship of its source.
LEMMA QueryComplete ==
    ASSUME DegreeBound, NEW s \in Source
    PROVE  Query(Derives, s) = {r \in Derives : s \in Ends(r)}
<1> DEFINE all  == {r \in Rel : r[3] = "derived_from" /\ s \in Ends(r)}
           rels == {r \in Derives : s \in Ends(r)}
           below(r) == {q \in rels : Rank[q] < Rank[r]}
<1>1. IsFiniteSet(all) /\ Cardinality(all) <= MaxExamined + 1
  BY DependenceAssumption, FS_Subset DEF DegreeBound
<1>2. Cardinality(all) \in Nat /\ MaxExamined \in Nat
  BY <1>1, FS_CardinalityType, DependenceAssumption
<1>3. ASSUME NEW r \in rels
      PROVE  Cardinality(below(r)) <= MaxExamined
  <2>1. r \in all /\ r \in Rel
    BY DEF Derives, Active
  <2>2. Rank[r] \in Int
    BY <2>1, DependenceAssumption
  <2>3. below(r) \subseteq all \ {r}
    BY <2>2 DEF Derives, Active
  <2>4. IsFiniteSet(all \ {r}) /\ Cardinality(all \ {r}) = Cardinality(all) - 1
    BY <1>1, <2>1, FS_RemoveElement
  <2>5. Cardinality(below(r)) <= Cardinality(all \ {r}) /\ Cardinality(below(r)) \in Nat
    BY <2>3, <2>4, FS_Subset, FS_CardinalityType
  <2> QED
    BY <1>1, <1>2, <2>4, <2>5
<1> QED
  BY <1>3 DEF Query, Limited

\* A search that ends within its bounds has found a closed set of sources.
LEMMA SearchCloses ==
    ASSUME DegreeBound, TypeOK, NEW derived, NEW upstream, NEW excluded,
           NoCycle(derived, upstream, excluded)
    PROVE  \E W : /\ upstream \in W
                  /\ derived \notin W
                  /\ \A r \in Derives \ excluded :
                         Derived(r, current[r].direction) \in W =>
                             Upstream(r, current[r].direction) \in W
<1> DEFINE W == {upstream} \cup Climb(upstream, excluded)
<1>1. UpstreamOf(W, excluded) \subseteq W /\ derived \notin W
  BY DEF NoCycle
<1> HIDE DEF W
<1>2. ASSUME NEW r \in Derives \ excluded, Derived(r, current[r].direction) \in W
      PROVE  Upstream(r, current[r].direction) \in W
  <2> DEFINE s == Derived(r, current[r].direction)
  <2>1. r \in Rel
    BY DEF Derives, Active
  <2>2. s \in Ends(r) /\ s \in Source
    BY <2>1, DependenceAssumption DEF Derived, Ends
  <2>3. r \in Seen(s, excluded)
    BY <2>2, QueryComplete DEF Seen
  <2> HIDE DEF s
  <2>4. r \in UNION {Seen(t, excluded) : t \in W}
    BY <1>2, <2>3 DEF s
  <2>5. Upstream(r, current[r].direction) \in UpstreamOf(W, excluded)
    BY <1>2, <2>4 DEF UpstreamOf
  <2> QED
    BY <1>1, <2>5
<1> QED
  BY <1>1, <1>2 DEF W

\* An edge whose upstream end cannot reach its derived end closes no cycle.
LEMMA EdgeAdded ==
    ASSUME NEW old, NEW new, NEW W, NEW derived, NEW upstream,
           Acyclic(old),
           upstream \in W, derived \notin W,
           \A e \in new : e \in old \/ e = <<derived, upstream>>,
           \A s, t : s \in W /\ <<s, t>> \in new /\ <<s, t>> # <<derived, upstream>> => t \in W
    PROVE  Acyclic(new)
<1> SUFFICES ASSUME NEW S \in SUBSET Source, S # {}
             PROVE  \E s \in S : \A t \in S : <<s, t>> \notin new
  BY DEF Acyclic
<1>1. CASE S \cap W # {}
  <2>1. PICK s \in S \cap W : \A t \in S \cap W : <<s, t>> \notin old
    BY <1>1 DEF Acyclic
  <2>2. ASSUME NEW t \in S, <<s, t>> \in new
        PROVE  FALSE
    <3>1. s # derived
      BY <2>1
    <3>2. t \in W
      BY <2>1, <2>2, <3>1
    <3> QED
      BY <2>1, <2>2, <3>1, <3>2
  <2> QED
    BY <2>1, <2>2
<1>2. CASE S \cap W = {}
  <2>1. PICK s \in S : \A t \in S : <<s, t>> \notin old
    BY DEF Acyclic
  <2>2. \A t \in S : t # upstream
    BY <1>2
  <2> QED
    BY <2>1, <2>2
<1> QED
  BY <1>1, <1>2

LEMMA AcyclicStep ==
    ASSUME DegreeBound, TypeOK, Chain, DerivationAcyclic, [Next]_vars
    PROVE  DerivationAcyclic'
<1> USE DEF DerivationAcyclic
<1> DEFINE edge(r) == <<Derived(r, current[r].direction), Upstream(r, current[r].direction)>>
           old == EdgesOf(Active)
<1>1. CASE UNCHANGED current
  BY <1>1 DEF EdgesOf, Active
<1>2. ASSUME NEW r \in Rel, NEW change \in Recorded, Sound(r, change), Adds(r, change)
      PROVE  DerivationAcyclic'
  <2> DEFINE derived  == Derived(r, change.result.direction)
             upstream == Upstream(r, change.result.direction)
             excluded == IF current[r] = Absent THEN {} ELSE {r}
             new == EdgesOf(Active)'
  <2>1. /\ current'[r] = change.result
        /\ \A q \in Rel \ {r} : current'[q] = current[q]
    BY <1>2, Appended
  <2>2. Derives \ {r} = Derives \ excluded
    BY DEF Derives, Active, Absent
  <2>3. ASSUME NEW e \in new
        PROVE  \/ \E q \in Derives \ {r} : e = edge(q)
               \/ /\ r[3] = "derived_from" /\ change.result.lifecycle = "active"
                  /\ e = <<derived, upstream>>
    <3>1. PICK q \in Rel :
              /\ q[3] = "derived_from" /\ current'[q].lifecycle = "active"
              /\ e = <<Derived(q, current'[q].direction), Upstream(q, current'[q].direction)>>
      BY DEF EdgesOf, Active
    <3> QED
      BY <2>1, <3>1 DEF Derives, Active
  <2>4. \A q \in Derives : edge(q) \in old
    BY DEF EdgesOf, Derives
  <2> HIDE DEF new, old, derived, upstream, excluded
  <2>5. CASE r[3] = "derived_from" /\ change.result.lifecycle = "active"
    <3>1. NoCycle(derived, upstream, excluded)
      BY <1>2, <2>5 DEF Sound, MayHold, derived, upstream, excluded
    <3>2. PICK W : /\ upstream \in W
                   /\ derived \notin W
                   /\ \A q \in Derives \ excluded :
                          Derived(q, current[q].direction) \in W =>
                              Upstream(q, current[q].direction) \in W
      BY <3>1, SearchCloses
    <3>3. \A e \in new : e \in old \/ e = <<derived, upstream>>
      BY <2>3, <2>4
    <3>4. ASSUME NEW s, NEW t, s \in W, <<s, t>> \in new, <<s, t>> # <<derived, upstream>>
          PROVE  t \in W
      <4>1. PICK q \in Derives \ {r} : <<s, t>> = edge(q)
        BY <2>3, <3>4
      <4> QED
        BY <2>2, <3>2, <3>4, <4>1
    <3>5. Acyclic(new)
      BY <3>2, <3>3, <3>4, EdgeAdded DEF old
    <3> QED
      BY <3>5 DEF new, Acyclic
  <2>6. CASE ~(r[3] = "derived_from" /\ change.result.lifecycle = "active")
    <3>1. new \subseteq old
      BY <2>3, <2>4, <2>6
    <3>2. Acyclic(new)
      BY <3>1 DEF Acyclic, old
    <3> QED
      BY <3>2 DEF new, Acyclic
  <2> QED
    BY <2>5, <2>6
<1> QED
  BY <1>1, <1>2, Steps DEF vars

\* However commands interleave, no source comes to derive from itself, as long
\* as no source has more relationships than a query returns.
THEOREM DerivationKept ==
    ASSUME DegreeBound
    PROVE  Spec => []DerivationAcyclic
<1>1. Init => DerivationAcyclic
  <2>1. Init => EdgesOf(Active) = {}
    BY DEF Init, EdgesOf, Active, Absent
  <2> QED
    BY <2>1 DEF DerivationAcyclic, Acyclic
<1>2. Inv /\ DerivationAcyclic /\ [Next]_vars => DerivationAcyclic'
  BY AcyclicStep DEF Inv
<1> QED
  BY <1>1, <1>2, Invariance, PTL DEF Spec

----------------------------------------------------------------------------
(* The projection.                                                         *)

\* A query that returns no more than may be examined has left nothing out.
LEMMA NothingBeyond ==
    ASSUME NEW rels \in SUBSET Rel, Cardinality(Limited(rels)) <= MaxExamined
    PROVE  Limited(rels) = rels
<1> DEFINE below(r) == {q \in rels : Rank[q] < Rank[r]}
           rest == {below(r) : r \in rels \ Limited(rels)}
<1>1. SUFFICES ASSUME rels \ Limited(rels) # {}
               PROVE  FALSE
  BY DEF Limited
<1>2. IsFiniteSet(rels)
  BY FS_Subset, DependenceAssumption
<1>3. \A r \in rels : below(r) \in FiniteSubsetsOf(rels)
  BY <1>2, FS_Subset DEF FiniteSubsetsOf
<1>4. rest \subseteq FiniteSubsetsOf(rels) /\ rest # {}
  BY <1>1, <1>3 DEF Limited
<1>5. PICK least \in rest : \A b \in rest : <<b, least>> \notin StrictSubsetOrdering(rels)
  <2> HIDE DEF rest
  <2> QED
    BY <1>4, FS_StrictSubsetOrderingWellFounded, WFMin
<1>6. PICK r \in rels \ Limited(rels) : least = below(r)
  BY <1>5
<1>7. least \subseteq Limited(rels)
  <2> SUFFICES ASSUME NEW q \in least, q \notin Limited(rels)
               PROVE  FALSE
    OBVIOUS
  <2>1. q \in rels /\ Rank[q] \in Int /\ Rank[r] \in Int /\ Rank[q] < Rank[r]
    BY <1>6, DependenceAssumption
  <2>2. below(q) \subseteq below(r)
    <3> SUFFICES ASSUME NEW p \in rels, Rank[p] < Rank[q]
                 PROVE  Rank[p] < Rank[r]
      OBVIOUS
    <3>1. Rank[p] \in Int
      BY DependenceAssumption
    <3> QED
      BY <2>1, <3>1
  <2>3. q \in below(r) /\ q \notin below(q)
    BY <2>1
  <2>4. below(q) \in rest
    BY <2>1
  <2>5. <<below(q), least>> \in StrictSubsetOrdering(rels)
    BY <1>6, <2>2, <2>3 DEF StrictSubsetOrdering
  <2> QED
    BY <1>5, <2>4, <2>5
<1>8. IsFiniteSet(Limited(rels))
  BY <1>2, FS_Subset DEF Limited
<1>9. /\ Cardinality(least) <= Cardinality(Limited(rels))
      /\ Cardinality(least) \in Nat /\ Cardinality(Limited(rels)) \in Nat
  BY <1>7, <1>8, FS_Subset, FS_CardinalityType
<1>10. ~(Cardinality(least) <= MaxExamined)
  BY <1>6 DEF Limited
<1> QED
  BY <1>9, <1>10, DependenceAssumption

\* A complete projection leaves out nothing it should show.
LEMMA HonestProjection == ProjectionHonest
<1> SUFFICES ASSUME NEW roots \in SUBSET known, Projection(roots).complete
             PROVE  LET seen == Projection(roots)
                    IN  /\ roots \subseteq seen.visited
                        /\ \A r \in Active : Ends(r) \cap seen.visited # {} =>
                               r \in seen.examined /\ Ends(r) \subseteq seen.visited
  BY DEF ProjectionHonest
<1> DEFINE visited  == roots \cup Spread(roots)
           examined == UNION {Query(Active, s) : s \in visited}
<1>1. /\ Projection(roots).visited = visited
      /\ Projection(roots).examined = examined
      /\ Neighbours(visited) \subseteq visited
      /\ Cardinality(examined) <= MaxExamined
  BY DEF Projection
<1>2. roots \subseteq visited
  OBVIOUS
<1> HIDE DEF visited
<1>3. ASSUME NEW r \in Active, NEW s \in Ends(r) \cap visited
      PROVE  r \in examined /\ Ends(r) \subseteq visited
  <2> DEFINE all == {q \in Active : s \in Ends(q)}
  <2>1. all \in SUBSET Rel /\ IsFiniteSet(Active)
    BY FS_Subset, DependenceAssumption DEF Active
  <2>2. Limited(all) \subseteq examined /\ examined \subseteq Active
    BY DEF Query, Limited
  <2>3. IsFiniteSet(examined)
    BY <2>1, <2>2, FS_Subset
  <2>4. /\ Cardinality(Limited(all)) <= Cardinality(examined)
        /\ Cardinality(examined) \in Nat
        /\ Cardinality(Limited(all)) \in Nat
    BY <2>2, <2>3, FS_Subset, FS_CardinalityType
  <2>5. Cardinality(Limited(all)) <= MaxExamined
    BY <1>1, <2>4, DependenceAssumption
  <2>6. r \in Query(Active, s)
    BY <2>1, <2>5, NothingBeyond DEF Query
  <2>7. Ends(r) \subseteq Neighbours(visited)
    BY <2>6 DEF Neighbours
  <2> QED
    BY <1>1, <2>6, <2>7
<1> QED
  BY <1>1, <1>2, <1>3

\* A projection that calls itself complete has left no active relationship of
\* a source it reaches out, whatever the limits and the order of the rows.
THEOREM ProjectionKept == Spec => []ProjectionHonest
BY HonestProjection, PTL

\* A snapshot that calls its dependence complete shows all of it.
THEOREM SnapshotKept == Spec => []SnapshotHonest
<1>1. ASSUME TypeOK, EndsKnown
      PROVE  SnapshotHonest
  <2> SUFFICES ASSUME Snapshot.complete
               PROVE  Active \subseteq Snapshot.examined
    BY DEF SnapshotHonest
  <2> DEFINE seen == Projection(FirstSources)
  <2>1. /\ seen.complete
        /\ Cardinality(known) <= MaxRoots
        /\ Snapshot.examined = seen.examined
    BY DEF Snapshot, Projection
  <2>2. IsFiniteSet(known) /\ Cardinality(known) \in Nat /\ MaxRoots \in Nat
    BY <1>1, FS_Subset, FS_CardinalityType, DependenceAssumption DEF TypeOK
  <2>3. ASSUME NEW s \in known
        PROVE  s \in FirstSources
    <3> DEFINE before == {t \in known : t < s}
    <3>1. s \in Int
      BY <1>1, DependenceAssumption DEF TypeOK
    <3>2. before \subseteq known \ {s}
      BY <3>1
    <3>3. IsFiniteSet(known \ {s}) /\ Cardinality(known \ {s}) = Cardinality(known) - 1
      BY <2>2, FS_RemoveElement
    <3>4. Cardinality(before) <= Cardinality(known \ {s}) /\ Cardinality(before) \in Nat
      BY <3>2, <3>3, FS_Subset, FS_CardinalityType
    <3>5. Cardinality(before) < MaxRoots
      BY <2>1, <2>2, <3>3, <3>4
    <3> QED
      BY <3>5 DEF FirstSources
  <2>4. FirstSources = known
    BY <2>3 DEF FirstSources
  <2>5. /\ known \subseteq seen.visited
        /\ \A r \in Active : Ends(r) \cap seen.visited # {} => r \in seen.examined
    BY <2>1, <2>4, HonestProjection DEF ProjectionHonest
  <2>6. \A r \in Active : Ends(r) \subseteq known /\ Ends(r) # {}
    BY <1>1 DEF Active, Absent, EndsKnown, Ends
  <2> HIDE DEF seen
  <2> QED
    BY <2>1, <2>5, <2>6
<1> QED
  BY <1>1, Invariance, PTL DEF Inv
=============================================================================
