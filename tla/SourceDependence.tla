-------------------------- MODULE SourceDependence --------------------------
(***************************************************************************)
(* Declared dependence between the sources of one investigation: who may   *)
(* declare, correct, retract and reverse a relationship, the proof of      *)
(* acyclicity a derived-from relationship needs first, the journal of      *)
(* every change, the answer to a command that is delivered again, and the  *)
(* bounded projection that snapshots read.                                 *)
(*                                                                         *)
(* Every command locks the task row first and holds it to its commit, so a *)
(* command is one action; operators interleave between commands, and what  *)
(* is stale is the revision a command carries.                             *)
(*                                                                         *)
(* Abstractions.  A relationship is its identity <<low, high, kind>>: the  *)
(* pair and kind are unique, whatever the lifecycle.  A change is found    *)
(* under the operation id that made it, so a delivery under a recorded id  *)
(* changes nothing and is no action: Replays says what it is answered.     *)
(* Reasons and actors are the same everywhere and left out.                *)
(***************************************************************************)
EXTENDS Integers, Sequences, FiniteSets

CONSTANTS
    Source,         \* source ids, ordered as integers are
    Rel,            \* relationships that may be declared
    Rank,           \* order of the relationship ids, which are drawn at random
    MaxRoots, MaxVisited, MaxExamined, MaxHops,     \* SourceDependenceLimits
    MaxChanges      \* bound: changes of the whole task

Kind == {"derived_from", "common_origin"}

ASSUME DependenceAssumption ==
    /\ Source \subseteq Int /\ IsFiniteSet(Source)
    /\ Rel \subseteq {r \in Source \X Source \X Kind : r[1] < r[2]}
    /\ IsFiniteSet(Rel)
    /\ Rank \in [Rel -> Int]
    /\ \A r, q \in Rel : Rank[r] = Rank[q] => r = q
    /\ MaxRoots \in Nat /\ MaxVisited \in Nat
    /\ MaxExamined \in Nat /\ MaxHops \in Nat
    /\ MaxChanges \in Nat

VARIABLES
    known,          \* sources captured so far
    current,        \* the relationship rows
    journal,        \* the changes of each relationship, oldest first
    lapsed,         \* the last change whose reversal window has expired
    allowed         \* the security state grants MEMORY_MUTATION

vars == <<known, current, journal, lapsed, allowed>>

Absent == [direction |-> "none", lifecycle |-> "absent", revision |-> 0]

Directions(r) == IF r[3] = "common_origin" THEN {"none"}
                 ELSE {"low_to_high", "high_to_low"}

State == [direction : {"none", "low_to_high", "high_to_low"},
          lifecycle : {"active", "retracted"}, revision : Nat \ {0}]

\* What is compared when an operation id comes back.
Canonical(command, direction, lifecycle, expected, target) ==
    [command |-> command, direction |-> direction, lifecycle |-> lifecycle,
     expected |-> expected, target |-> target]

Command == [command : {"CREATE", "SET", "RETRACT", "REVERSE"},
            direction : {"none", "low_to_high", "high_to_low"},
            lifecycle : {"none", "active", "retracted"},
            expected : Nat, target : Nat]

Recorded == [operation : {"CREATE", "SET", "RETRACT", "REVERSE"},
             command : Command, previous : State \cup {Absent}, result : State]

Init ==
    /\ known = {}
    /\ current = [r \in Rel |-> Absent]
    /\ journal = [r \in Rel |-> <<>>]
    /\ lapsed = [r \in Rel |-> 0]
    /\ allowed = TRUE

----------------------------------------------------------------------------
(* The graph, as a query returns it.                                       *)

Derived(r, direction)  == IF direction = "low_to_high" THEN r[1] ELSE r[2]
Upstream(r, direction) == IF direction = "low_to_high" THEN r[2] ELSE r[1]

Active  == {r \in Rel : current[r].lifecycle = "active"}
Derives == {r \in Active : r[3] = "derived_from"}

Ends(r) == {r[1], r[2]}

\* ORDER BY relationship_id LIMIT max_examined_relationships + 1
Limited(rels) == {r \in rels :
    Cardinality({q \in rels : Rank[q] < Rank[r]}) <= MaxExamined}

LowEndpoint(rels, s) ==                                \* mutant of Query
    Limited({r \in rels : s = r[1]})
Query(rels, s) == Limited({r \in rels : s \in Ends(r)})

----------------------------------------------------------------------------
(* The proof of acyclicity.                                                *)

\* The relationships the search sees at s; the one being changed is skipped
\* after the query has counted it.
Seen(s, excluded) == Query(Derives, s) \ excluded

UpstreamOf(S, excluded) ==
    {Upstream(r, current[r].direction) : r \in
        {q \in UNION {Seen(s, excluded) : s \in S} :
            Derived(q, current[q].direction) \in S}}

\* Sources at most n steps upstream of s.
Climb(s, excluded) ==
    LET up[n \in 0..MaxHops] ==
            IF n = 0 THEN {s}
            ELSE up[n - 1] \cup UpstreamOf(up[n - 1], excluded)
    IN  up[MaxHops]

\* The search from upstream ends inside every bound and has not met derived.
NoCycle(derived, upstream, excluded) ==
    LET visited == {upstream} \cup Climb(upstream, excluded)
    IN  /\ UpstreamOf(visited, excluded) \subseteq visited
        /\ derived \notin visited
        /\ Cardinality(visited) <= MaxVisited
        /\ Cardinality(UNION {Seen(s, excluded) : s \in visited}) <= MaxExamined

CheckedOnce(r, direction, lifecycle, excluded) ==      \* mutant of MayHold
    excluded = {} /\ r[3] = "derived_from" =>
        NoCycle(Derived(r, direction), Upstream(r, direction), excluded)
MayHold(r, direction, lifecycle, excluded) ==
    lifecycle = "active" /\ r[3] = "derived_from" =>
        NoCycle(Derived(r, direction), Upstream(r, direction), excluded)

----------------------------------------------------------------------------
(* Commands.                                                               *)

ReadAfterWrite(operation, command, previous, result) == \* mutant of Change
    [operation |-> operation, command |-> command,
     previous |-> IF operation = "REVERSE" THEN result ELSE previous,
     result |-> result]
Change(operation, command, previous, result) ==
    [operation |-> operation, command |-> command,
     previous |-> previous, result |-> result]

\* The bound of the model.
Room == LET changes[S \in SUBSET Rel] ==
                IF S = {} THEN 0
                ELSE LET r == CHOOSE r \in S : TRUE
                     IN  Len(journal[r]) + changes[S \ {r}]
        IN  changes[Rel] < MaxChanges

\* The row and its change share one commit.
Commit(r, operation, direction, lifecycle, command) ==
    LET state == [direction |-> direction, lifecycle |-> lifecycle,
                  revision |-> current[r].revision + 1]
    IN  /\ Room
        /\ current' = [current EXCEPT ![r] = state]
        /\ journal' = [journal EXCEPT ![r] =
                           Append(@, Change(operation, command, current[r], state))]
        /\ UNCHANGED <<known, lapsed, allowed>>

Create(r, direction) ==
    /\ allowed
    /\ Ends(r) \subseteq known
    /\ MayHold(r, direction, "active", {})
    /\ current[r] = Absent
    /\ Commit(r, "CREATE", direction, "active",
              Canonical("CREATE", direction, "active", 0, 0))

\* SET fills in what the request omits; RETRACT ignores it.
Lifecycle(request) ==
    IF request.operation = "RETRACT" THEN "retracted"
    ELSE IF request.lifecycle = "omitted" THEN "active" ELSE request.lifecycle
Direction(request, state) ==
    IF request.operation = "RETRACT" \/ request.direction = "omitted"
    THEN state.direction ELSE request.direction

Mutation == [operation : {"SET", "RETRACT"}, expected : 1..MaxChanges,
             lifecycle : {"omitted", "active", "retracted"},
             direction : {"omitted", "none", "low_to_high", "high_to_low"}]

Mutate(r, request) ==
    LET lifecycle == Lifecycle(request)
        direction == Direction(request, current[r])
    IN  /\ allowed
        /\ current[r] # Absent
        /\ current[r].revision = request.expected
        /\ direction \in Directions(r)
        /\ MayHold(r, direction, lifecycle, {r})
        /\ <<direction, lifecycle>>
               # <<current[r].direction, current[r].lifecycle>>
        /\ Commit(r, request.operation, direction, lifecycle,
                  Canonical(request.operation, direction, lifecycle,
                            request.expected, 0))

\* What a reversal puts back.
Restored(change, state) ==
    IF change.previous = Absent
    THEN [state EXCEPT !.lifecycle = "retracted"] ELSE change.previous

AnyChange(r, target, expected) ==                      \* mutant of Reversible
    journal[r][target].operation # "REVERSE"
Reversible(r, target, expected) ==
    /\ journal[r][target].operation # "REVERSE"
    /\ target > lapsed[r]
    /\ expected = current[r].revision
    /\ target = current[r].revision

Reverse(r, target, expected) ==
    LET back == Restored(journal[r][target], current[r])
    IN  /\ allowed
        /\ target \in DOMAIN journal[r]
        /\ Reversible(r, target, expected)
        /\ MayHold(r, back.direction, back.lifecycle, {r})
        /\ Commit(r, "REVERSE", back.direction, back.lifecycle,
                  Canonical("REVERSE", "none", "none", expected, target))

----------------------------------------------------------------------------
(* The bounded projection.                                                 *)

EdgesOf(rels) ==
    {<<Derived(r, current[r].direction), Upstream(r, current[r].direction)>> :
        r \in {q \in rels : q[3] = "derived_from"}}

\* Every nonempty set of sources has one that derives from none of the set.
Acyclic(edges) ==
    \A S \in SUBSET Source : S # {} =>
        \E s \in S : \A t \in S : <<s, t>> \notin edges

Neighbours(S) == UNION {Ends(r) : r \in UNION {Query(Active, s) : s \in S}}

Spread(roots) ==
    LET wide[n \in 0..MaxHops] ==
            IF n = 0 THEN roots ELSE wide[n - 1] \cup Neighbours(wide[n - 1])
    IN  wide[MaxHops]

\* What a traversal that meets no limit returns; complete says that none was.
Projection(roots) ==
    LET visited  == roots \cup Spread(roots)
        examined == UNION {Query(Active, s) : s \in visited}
    IN  [visited  |-> visited,
         examined |-> examined,
         complete |-> /\ Cardinality(roots) <= MaxRoots
                      /\ Neighbours(visited) \subseteq visited
                      /\ Cardinality(visited) <= MaxVisited
                      /\ Cardinality(examined) <= MaxExamined
                      /\ Acyclic(EdgesOf(examined))]

\* What a snapshot of the investigation says of dependence: the projection of
\* its first sources, incomplete when there are more.
FirstSources == {s \in known :
    Cardinality({t \in known : t < s}) < MaxRoots}

Snapshot ==
    LET seen == Projection(FirstSources)
    IN  [seen EXCEPT !.complete = @ /\ Cardinality(known) <= MaxRoots]

----------------------------------------------------------------------------
(* Journals and repeated deliveries.                                       *)

\* history: what a read of r's journal accepts.
ValidHistory(r) ==
    /\ journal[r] # <<>>
    /\ \A i \in DOMAIN journal[r] :
           LET change == journal[r][i]
           IN  /\ change.result.revision = i
               /\ (change.operation = "CREATE") = (i = 1)
               /\ change.previous = IF i = 1 THEN Absent
                                    ELSE journal[r][i - 1].result
    /\ current[r] = journal[r][Len(journal[r])].result

\* A mutation delivered under the operation id of a recorded change is answered
\* with that change's result when these agree; the change supplies what the
\* request may have omitted.
AgainstTheRow(request, change, now) ==                 \* mutant of Replays
    Canonical(request.operation, Direction(request, now), Lifecycle(request),
              request.expected, 0) = change.command
Replays(request, change, now) ==
    Canonical(request.operation, change.result.direction,
              change.result.lifecycle, request.expected, 0) = change.command

\* What the mutation would have done where the change was made.
Asks(request, change) ==
    /\ request.operation = change.operation
    /\ request.expected = change.previous.revision
    /\ Lifecycle(request) = change.result.lifecycle
    /\ Direction(request, change.previous) = change.result.direction

----------------------------------------------------------------------------
(* The environment.                                                        *)

\* A source is captured.
Capture(s) == /\ s \notin known
              /\ known' = known \cup {s}
              /\ UNCHANGED <<current, journal, lapsed, allowed>>

\* 48 hours pass since the last change of r.
Lapse(r) == /\ lapsed[r] < Len(journal[r])
            /\ lapsed' = [lapsed EXCEPT ![r] = Len(journal[r])]
            /\ UNCHANGED <<known, current, journal, allowed>>

\* A transition of the security state.
Transition == /\ allowed' = ~allowed
              /\ UNCHANGED <<known, current, journal, lapsed>>

Next ==
    \/ \E r \in Rel : \E direction \in Directions(r) : Create(r, direction)
    \/ \E r \in Rel, request \in Mutation : Mutate(r, request)
    \/ \E r \in Rel, target, expected \in 1..MaxChanges :
           Reverse(r, target, expected)
    \/ \E s \in Source : Capture(s)
    \/ \E r \in Rel : Lapse(r)
    \/ Transition

Spec == Init /\ [][Next]_vars

----------------------------------------------------------------------------
(* Properties.                                                             *)

\* Rows, journals and windows have their shape.
TypeOK ==
    /\ known \subseteq Source
    /\ current \in [Rel -> State \cup {Absent}]
    /\ journal \in [Rel -> Seq(Recorded)]
    /\ lapsed \in [Rel -> Nat]
    /\ allowed \in BOOLEAN
    /\ \A r \in Rel : /\ current[r] # Absent => current[r].direction \in Directions(r)
                      /\ lapsed[r] <= Len(journal[r])

\* No source derives from itself, directly or through others, whatever was
\* created, corrected, retracted, put back by SET or by a reversal, in any
\* order: each of them is checked against the graph of its own moment.
DerivationAcyclic == Acyclic(EdgesOf(Active))

\* history never refuses a journal that the service wrote itself: revisions
\* without a gap, each change from the state the one before it left, the row
\* equal to the last.
HistoryReplays == \A r \in Rel : current[r] # Absent => ValidHistory(r)

\* A reversal undoes the change right before it and nothing else: the state it
\* leaves is the one that change found, a created relationship is left
\* retracted, and no reversal is itself reversed.
ReversalRestores ==
    \A r \in Rel : \A i \in DOMAIN journal[r] :
        journal[r][i].operation = "REVERSE" =>
            /\ i > 1
            /\ journal[r][i - 1].operation # "REVERSE"
            /\ journal[r][i].command.target = i - 1
            /\ LET undone == journal[r][i - 1]
                   left   == journal[r][i].result
               IN  IF undone.operation = "CREATE"
                   THEN /\ left.lifecycle = "retracted"
                        /\ left.direction = undone.result.direction
                   ELSE /\ left.lifecycle = undone.previous.lifecycle
                        /\ left.direction = undone.previous.direction

\* A client that lost the answer and sends the same mutation again is answered
\* with what the mutation did, also when it had omitted fields and the row has
\* moved on since.
RetryRecognised ==
    \A r \in Rel : \A i \in DOMAIN journal[r] : \A request \in Mutation :
        Asks(request, journal[r][i]) =>
            Replays(request, journal[r][i], current[r])

\* The converse: an answer under a recorded operation id reports what the
\* request asked for; any other request is a conflict.
ReplyAnswersRequest ==
    \A r \in Rel : \A i \in DOMAIN journal[r] : \A request \in Mutation :
        Replays(request, journal[r][i], current[r]) =>
            Asks(request, journal[r][i])

\* A projection that calls itself complete holds every active relationship of
\* every source it reaches, through any number of relationships: a limit that
\* was met is never silent.
ProjectionHonest ==
    \A roots \in SUBSET known :
        LET seen == Projection(roots)
        IN  seen.complete =>
                /\ roots \subseteq seen.visited
                /\ \A r \in Active : Ends(r) \cap seen.visited # {} =>
                       r \in seen.examined /\ Ends(r) \subseteq seen.visited

\* A snapshot that calls its dependence complete shows every relationship of
\* the investigation that is active, also of the sources it starts from last.
SnapshotHonest == Snapshot.complete => Active \subseteq Snapshot.examined
=============================================================================
