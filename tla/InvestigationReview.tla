------------------------- MODULE InvestigationReview -------------------------
(***************************************************************************)
(* One investigation between its cycles: the planner that chooses the next *)
(* objectives, the operator's reviews of finished objectives, which hold   *)
(* as long as the evidence they rest on, the readiness report, and the     *)
(* decision to stop, while evidence, relationships and cycles change.      *)
(*                                                                         *)
(* Every writer of an investigation locks its task row first and holds it  *)
(* to the commit, and so does a snapshot, so each of them is one action.   *)
(* A request with an old revision or fingerprint changes nothing: those    *)
(* modelled carry the ones in force, and a denied capability is no step.   *)
(*                                                                         *)
(* Abstractions.  A digest is what it digests, so two are equal exactly    *)
(* when their contents are.  Texts are names; there is one hypothesis.     *)
(* The standing of a claim stands for its status and the kind of its       *)
(* links.  Projections of the declared relationships are complete (their   *)
(* limits are in SourceDependence).                                        *)
(***************************************************************************)
EXTENDS Integers, Sequences, FiniteSets, FiniteSetsExt, SequencesExt

CONSTANTS
    Source, Claim,      \* ids, ordered as integers are
    Saved,              \* sources saved before the model begins
    Cites,              \* the sources a claim was extracted from
    Relation,           \* pairs of sources that may be declared dependent
    Question,           \* open questions of the brief, in its order
    Observation,        \* sources that are agent observations
    Agent,              \* who made an observation
    Contradict,         \* pairs of observations that contradict each other
    MaxCompared,        \* observations that are compared
    MaxObjectives,      \* objectives of a cycle
    \* Bounds: what reviews refer to, as <<claims, sources>>, outcomes recorded, as
    \* <<status, number left open>>, states asked for, cycles, reviews of a cycle,
    \* changes of evidence.
    References, Outcomes, StatusChanges, MaxCycles, MaxReviews, MaxChanges

Finished == {"completed", "blocked", "failed"}

ASSUME ReviewAssumption ==
    /\ Source \subseteq Nat /\ Claim \subseteq Nat /\ IsFiniteSet(Source \cup Claim)
    /\ Relation \subseteq SUBSET Source
    /\ Saved \subseteq Source
    /\ Cites \in [Claim -> (SUBSET Source) \ {{}}]
    /\ Observation \subseteq Source /\ Contradict \subseteq SUBSET Observation
    /\ Question \in Seq(ToSet(Question))
    /\ References \subseteq (SUBSET Claim) \X (SUBSET Source)
    /\ Outcomes \subseteq Finished \X Nat
    /\ {MaxCompared, MaxObjectives, MaxCycles, MaxReviews, MaxChanges} \subseteq Nat
    /\ MaxObjectives > 0

VARIABLES
    status,         \* of the investigation
    cycle,          \* its cycles, by number
    attempt,        \* a runner's attempt is RUNNING
    sources,        \* saved sources
    claim,          \* claims: version, standing, and whether they are active
    assessment,     \* of the hypothesis
    relation,       \* declared relationships: revision and whether active
    decision        \* the stopping decision, as a set of at most one

vars == <<status, cycle, attempt, sources, claim, assessment, relation, decision>>
evidence == <<sources, claim, assessment, relation>>

Standing == {"unverified", "supported", "contested"}

Unassessed == [version |-> 0, standing |-> "none", claims |-> {}]

Init ==
    /\ status = "active"
    /\ cycle = <<[objectives |-> IF Question = <<>> THEN <<<<"define">>>>
                                 ELSE <<<<"question", Question[1]>>>>,
                  bases |-> <<>>, status |-> "planned",
                  unresolved |-> {}, reviews |-> <<>>]>>
    /\ attempt = FALSE
    /\ sources = Saved
    /\ claim = [c \in Claim |-> [version |-> 0, standing |-> "unverified", active |-> FALSE]]
    /\ assessment = Unassessed
    /\ relation = [r \in Relation |-> [revision |-> 0, active |-> FALSE]]
    /\ decision = {}

----------------------------------------------------------------------------
(* Evidence and its digests.                                               *)

Claims    == {c \in Claim : claim[c].active}
Relations == {r \in Relation : relation[r].active}

Broad == {"missing_assessment", "missing_evidence", "open_question",
          "incomplete_cycle", "review_stopping_criteria", "agent_comparison_limit"}

\* What an objective is about; whether it is about the assessment, whose id is
\* part of its evidence.
Basis(reason, assessed, claims, srcs) ==
    [reason |-> reason, assessed |-> assessed, claims |-> claims, sources |-> srcs]

RelatedOnce(S) == S                                    \* mutant of Related
\* The sources connected with S by active relationships, S included.
Related(S) ==
    LET reach[n \in 0..Cardinality(Source)] ==
            IF n = 0 THEN S
            ELSE reach[n - 1] \cup
                 UNION {r \in Relations : r \cap reach[n - 1] # {}}
    IN  reach[Cardinality(Source)]

Of(r) == <<r, relation[r]>>

Evidence(basis) ==
    LET broad  == basis.reason \in Broad
        chosen == {c \in Claims : broad \/ c \in basis.claims}
        cited  == basis.sources \cup UNION {Cites[c] : c \in chosen}
        whole  == broad \/ basis.reason = "source_dependence_unknown"
    IN  [claims     |-> {<<c, claim[c]>> : c \in chosen},
         sources    |-> {s \in sources : broad \/ s \in cited},
         assessment |-> IF broad \/ basis.assessed THEN {assessment} ELSE {},
         visited    |-> IF whole THEN sources ELSE {},
         relations  |-> {Of(r) : r \in {q \in Relations :
                                     whole \/ q \cap Related(cited) # {}}}]

\* A basis with the evidence it was planned or reviewed on.
WithEvidence(basis) == [basis |-> basis, evidence |-> {Evidence(basis)}]
Bare(basis)         == [basis |-> basis, evidence |-> {}]

----------------------------------------------------------------------------
(* Reviews.                                                                *)

ObjectiveBasis(n, i) ==
    IF i \in DOMAIN cycle[n].bases THEN cycle[n].bases[i].basis
    ELSE Basis(IF \E q \in DOMAIN Question :
                      cycle[n].objectives[i] = <<"question", Question[q]>>
               THEN "open_question" ELSE "incomplete_cycle", FALSE, {}, {})

Reference(claims, srcs) ==
    Evidence(Basis("unverified_claim", FALSE, claims, srcs))

IsCurrent(review) ==
    /\ WithEvidence(review.on.basis) = review.on
    /\ Reference(review.claims, review.sources) = review.reference

\* The last review of each objective of a cycle.
Latest(n) ==
    LET reviews == cycle[n].reviews
    IN  {reviews[j] : j \in {i \in DOMAIN reviews :
            \A k \in DOMAIN reviews : reviews[k].index = reviews[i].index => k <= i}}

IndicesOf(n, objective) ==
    {i \in DOMAIN cycle[n].objectives : cycle[n].objectives[i] = objective}

\* The latest cycle with a review of the objective governs, and there every
\* occurrence needs a current review as completed, for one of these bases.
ReviewedComplete(objective, bases) ==
    LET reviewing == {n \in DOMAIN cycle : \E review \in Latest(n) :
                          review.index \in IndicesOf(n, objective)}
        n == Max(reviewing)
    IN  /\ reviewing # {}
        /\ \A i \in IndicesOf(n, objective) : \E review \in Latest(n) :
               /\ review.index = i /\ review.completed
               /\ IsCurrent(review)
               /\ review.on.basis \in bases

Resolved(objective) ==
    ReviewedComplete(objective, {review.on.basis :
        review \in UNION {Latest(n) : n \in DOMAIN cycle}})

----------------------------------------------------------------------------
(* The planner.                                                            *)

\* What a finished cycle leaves open.
Unresolved(n) ==
    IF cycle[n].status # "completed" /\ cycle[n].unresolved = {}
    THEN ToSet(cycle[n].objectives) ELSE cycle[n].unresolved

\* Objectives of finished cycles that were left open, or closed, in order.
Entries == {e \in (1..MaxCycles) \X (1..MaxObjectives) :
    /\ e[1] \in DOMAIN cycle /\ e[2] \in DOMAIN cycle[e[1]].objectives
    /\ cycle[e[1]].status \in Finished}
Later(e, f) == e[1] > f[1] \/ (e[1] = f[1] /\ e[2] > f[2])

TextOf(e) == cycle[e[1]].objectives[e[2]]
PlannedOn(e) ==
    IF e[2] \in DOMAIN cycle[e[1]].bases THEN cycle[e[1]].bases[e[2]]
    ELSE Bare(Basis("incomplete_cycle", FALSE, {}, {}))

Reopened == {e \in Entries :
    TextOf(e) \in Unresolved(e[1]) \/ \E review \in Latest(e[1]) : review.index = e[2]}
Closed == {e \in Entries \ Reopened : cycle[e[1]].status = "completed"}

\* Objectives completed on evidence, unless the same was opened again later.
Completed ==
    LET reopened == Reopened
    IN  {<<TextOf(e), PlannedOn(e)>> : e \in {f \in Closed :
            ~\E g \in reopened : Later(g, f) /\ TextOf(g) = TextOf(f)
                                            /\ PlannedOn(g) = PlannedOn(f)}}

\* The entries that keep an objective outstanding.
Outstanding ==
    LET closed == Closed
    IN  {e \in Reopened : ~\E g \in closed : Later(g, e) /\ TextOf(g) = TextOf(e)}

Linked == assessment.claims \cap Claims
Contested == {c \in Claims : claim[c].standing = "contested"}

\* A position is the group of the candidate and its place in that group.
Candidate(priority, position, objective, basis) ==
    [priority |-> priority, position |-> position,
     objective |-> objective, basis |-> basis]

AboutHypothesis ==
    CASE assessment = Unassessed ->
           {Candidate(1, <<0, 0, 0>>, <<"assess">>, Basis("missing_assessment", TRUE, {}, {}))}
      [] assessment.standing = "mixed" \/ Linked \cap Contested # {} ->
           {Candidate(0, <<0, 0, 0>>, <<"reassess">>,
                Basis("contradictory_evidence", TRUE, Linked, {}))}
      [] assessment.standing = "unresolved" /\ Linked \cap Contested = {} ->
           {Candidate(2, <<0, 0, 0>>, <<"resolve">>,
                Basis("unresolved_assessment", TRUE, Linked, {}))}
      [] OTHER -> {}

AllLinked == Linked                                    \* mutant of Addressed
Addressed == IF \E k \in AboutHypothesis : k.basis.claims # {} THEN Linked ELSE {}

AboutClaims ==
    {Candidate(0, <<1, c, 0>>, <<"provenance", c>>,
               Basis("contradictory_evidence", FALSE, {c}, {})) :
        c \in Contested \ Addressed}
    \cup
    {Candidate(3, <<1, c, 0>>, <<"check", c>>, Basis("unverified_claim", FALSE, {c}, {})) :
        c \in {d \in Claims \ Addressed : claim[d].standing = "unverified"}}

AboutSources ==
    {Candidate(4, <<2, s, 0>>, <<"analyze", s>>, Basis("unanalysed_source", FALSE, {}, {s})) :
        s \in sources \ UNION {Cites[c] : c \in Claims}}

\* A question asked twice is planned once.
AboutQuestions ==
    {Candidate(5, <<3, q, 0>>, <<"question", Question[q]>>,
               Basis("open_question", FALSE, {}, {})) :
        q \in {p \in DOMAIN Question : \A o \in 1..(p - 1) : Question[o] # Question[p]}}

\* The most recent observations are compared in pairs.
Observations == sources \cap Observation
Compared == {o \in Observations :
    Cardinality({p \in Observations : p > o}) < MaxCompared}
Contradicting == {pair \in Contradict : pair \subseteq Compared}

AboutAgents ==
    (IF Contradicting # {}
     THEN {Candidate(0, <<4, 0, 0>>, <<"compare">>,
               Basis("agent_contradiction", FALSE, {}, UNION Contradicting))}
     ELSE IF Compared # {} /\ Cardinality({Agent[o] : o \in Compared}) < 2
     THEN {Candidate(2, <<4, 0, 0>>, <<"corroborate">>,
               Basis("agent_corroboration", FALSE, {}, Compared))}
     ELSE {})
    \cup
    {Candidate(1, <<4, 1, 0>>, <<"older">>, Basis("agent_comparison_limit", FALSE, {}, {})) :
        o \in Observations \ Compared}

AboutDependence ==
    {Candidate(2, <<5, 0, 0>>, <<"dependence">>,
               Basis("source_dependence_unknown", FALSE, {}, sources)) :
        r \in Relations}

Gaps == AboutHypothesis \cup AboutClaims \cup AboutSources \cup AboutQuestions
        \cup AboutAgents \cup AboutDependence

Stopping == Candidate(6, <<0, 0, 0>>, <<"stopping">>,
                      Basis("review_stopping_criteria", FALSE, {}, {}))

Current ==
    IF Gaps # {} THEN Gaps
    ELSE IF sources = {} THEN {Candidate(4, <<0, 0, 0>>, <<"gather">>,
                                   Basis("missing_evidence", FALSE, {}, {}))}
    ELSE {Stopping}

NothingReplaced == {}                                  \* mutant of Replaced
Replaced == {k.objective : k \in Current}

\* Outstanding objectives nothing current replaces; the last entry names the
\* basis, the first one the place.
Carried ==
    LET open    == Outstanding
        same(e) == {g \in open : TextOf(g) = TextOf(e)}
        current == Replaced
    IN  {Candidate(1, <<6, e[1], e[2]>>, TextOf(e),
                   PlannedOn(CHOOSE g \in same(e) :
                                 ~\E h \in same(e) : Later(h, g)).basis) :
            e \in {f \in open : TextOf(f) \notin current
                               /\ ~\E g \in same(f) : Later(f, g)}}

\* What an outstanding objective would repeat is as urgent as carried work.
Candidates ==
    LET open == {TextOf(e) : e \in Outstanding}
    IN  {[k EXCEPT !.priority = IF k.objective \in open THEN Min({@, 1}) ELSE @] :
            k \in Current \cup Carried}

Precedes(p, q) ==
    \E i \in 1..3 : p[i] < q[i] /\ \A h \in 1..(i - 1) : p[h] = q[h]
Before(j, k) == \/ j.priority < k.priority
                \/ j.priority = k.priority /\ Precedes(j.position, k.position)
Ahead(S, k) == {j \in S : Before(j, k)}

\* The candidates by urgency.
Ordered(S) == [i \in 1..Cardinality(S) |->
                   CHOOSE k \in S : Cardinality(Ahead(S, k)) = i - 1]

\* Nothing is left to do for the candidate on the present evidence.
Settled(k, completed) ==
    \/ ReviewedComplete(k.objective, {k.basis})
    \/ <<k.objective, WithEvidence(k.basis)>> \in completed

Pending == LET completed == Completed
           IN  {k \in Candidates : ~Settled(k, completed)}

\* The most urgent ones that fit into a cycle.
Chosen == LET pending == Pending
          IN  {k \in pending : Cardinality(Ahead(pending, k)) < MaxObjectives}

\* The objectives of the next cycle; without any, a review of the stopping
\* criteria unless that has been done.
Plan ==
    LET chosen == Chosen
    IN  IF chosen # {} THEN Ordered(chosen)
        ELSE IF ReviewedComplete(Stopping.objective, {Stopping.basis}) THEN <<>>
        ELSE <<Stopping>>

----------------------------------------------------------------------------
(* Readiness and the fingerprint of a decision.                            *)

OnlyUnresolved(n) ==                                   \* mutant of OpenIn
    cycle[n].unresolved \cup {review.objective : review \in Latest(n)}
OpenIn(n) ==
    cycle[n].unresolved \cup
        IF cycle[n].status # "completed" THEN ToSet(cycle[n].objectives)
        ELSE {review.objective : review \in ToSet(cycle[n].reviews)}

OpenObjectives ==
    {o \in UNION {OpenIn(n) : n \in DOMAIN cycle} : ~Resolved(o)}

StaleReviews ==
    {<<n, review.index>> : n \in DOMAIN cycle, review \in
        {v \in UNION {Latest(m) : m \in DOMAIN cycle} : ~IsCurrent(v)}}

Attention ==
    {code \in {"unresolved_objectives", "missing_assessment", "mixed_assessment",
               "unresolved_assessment", "contradictory_claims", "stale_reviews",
               "dependence_unknown", "no_evidence", "active_attempt"} :
        CASE code = "unresolved_objectives" -> OpenObjectives # {}
          [] code = "missing_assessment"    -> assessment = Unassessed
          [] code = "mixed_assessment"      -> assessment.standing = "mixed"
          [] code = "unresolved_assessment" -> assessment.standing = "unresolved"
          [] code = "contradictory_claims"  -> Contested # {}
          [] code = "stale_reviews"         -> StaleReviews # {}
          [] code = "dependence_unknown"    -> sources # {}
          [] code = "no_evidence"           -> sources = {} /\ Claims = {}
          [] code = "active_attempt"        -> attempt}

\* What a decision is bound to.
WithoutDependence ==                                   \* mutant of Fingerprint
    [cycles |-> cycle, assessment |-> assessment, sources |-> sources,
     claims |-> {<<c, claim[c]>> : c \in Claims}, items |-> Attention]
Fingerprint ==
    [cycles |-> cycle, assessment |-> assessment, sources |-> sources,
     claims |-> {<<c, claim[c]>> : c \in Claims}, items |-> Attention,
     relations |-> {Of(r) : r \in Relations}]

----------------------------------------------------------------------------
(* Cycles and reviews.                                                     *)

PlanNext ==
    LET plan == Plan
    IN  /\ status = "active"
        /\ \A n \in DOMAIN cycle : cycle[n].status # "active"
        /\ Len(cycle) < MaxCycles
        /\ plan # <<>>
        /\ cycle' = Append(cycle,
               [objectives |-> [i \in DOMAIN plan |-> plan[i].objective],
                bases |-> [i \in DOMAIN plan |-> WithEvidence(plan[i].basis)],
                status |-> "planned", unresolved |-> {}, reviews |-> <<>>])
        /\ UNCHANGED <<status, attempt, decision, evidence>>

\* A manual start, or one with a runner's attempt.
Start(n, tracked) ==
    /\ status = "active"
    /\ \A m \in DOMAIN cycle : cycle[m].status # "active"
    /\ cycle[n].status = "planned"
    /\ cycle' = [cycle EXCEPT ![n].status = "active"]
    /\ attempt' = tracked
    /\ UNCHANGED <<status, decision, evidence>>

RecordOutcome(n, outcome, unresolved) ==
    /\ cycle[n].status = "active"
    /\ cycle' = [cycle EXCEPT ![n].status = outcome, ![n].unresolved = unresolved]
    /\ attempt' = FALSE
    /\ UNCHANGED <<status, decision, evidence>>

RecoverCycle(n) ==
    /\ cycle[n].status = "active"
    /\ cycle' = [cycle EXCEPT ![n].status = "failed",
                              ![n].unresolved = ToSet(cycle[n].objectives)]
    /\ attempt' = FALSE
    /\ status' = IF status = "active" THEN "paused" ELSE status
    /\ UNCHANGED <<decision, evidence>>

ReviewObjective(i, completed, claims, srcs) ==
    LET n == Len(cycle)
        basis == ObjectiveBasis(n, i)
    IN  /\ status \in {"active", "paused"}
        /\ cycle[n].status \in Finished
        /\ i \in DOMAIN cycle[n].objectives
        /\ Len(cycle[n].reviews) < MaxReviews
        /\ claims \subseteq Claims /\ srcs \subseteq sources
        /\ completed => claims # {} \/ srcs # {}
        /\ cycle' = [cycle EXCEPT ![n].reviews = Append(@,
               [index |-> i, objective |-> cycle[n].objectives[i],
                completed |-> completed, claims |-> claims, sources |-> srcs,
                on |-> WithEvidence(basis), reference |-> Reference(claims, srcs)])]
        /\ UNCHANGED <<status, attempt, decision, evidence>>

Transitions == [
    active    |-> {"paused", "blocked", "concluded", "abandoned"},
    paused    |-> {"active", "blocked", "concluded", "abandoned"},
    blocked   |-> {"active", "paused", "concluded", "abandoned"},
    concluded |-> {"archived"}, abandoned |-> {"archived"}, archived |-> {}]

ChangeStatus(new) ==
    /\ new \in Transitions[status]
    /\ status' = new
    /\ UNCHANGED <<cycle, attempt, decision, evidence>>

WithoutAttemptCheck == status \in {"active", "paused", "blocked"}  \* mutant of Concludable
Concludable == status \in {"active", "paused", "blocked"} /\ ~attempt

Decide ==
    /\ Concludable
    /\ decision = {}
    /\ decision' = {[fingerprint |-> Fingerprint, limitations |-> Attention]}
    /\ status' = "concluded"
    /\ UNCHANGED <<cycle, attempt, evidence>>

----------------------------------------------------------------------------
(* Evidence is written by anybody, in every status.                        *)

Changes == Cardinality(sources \ Saved) + assessment.version
           + FoldFunction(LAMBDA c, n : c.version + n, 0, claim)
           + FoldFunction(LAMBDA r, n : r.revision + n, 0, relation)
More == Changes < MaxChanges /\ UNCHANGED <<status, cycle, attempt, decision>>

Save(s) ==
    /\ More
    /\ s \notin sources
    /\ sources' = sources \cup {s}
    /\ UNCHANGED <<claim, assessment, relation>>

Extract(c) ==
    /\ More
    /\ claim[c].version = 0 /\ Cites[c] \subseteq sources
    /\ claim' = [claim EXCEPT ![c] =
                    [version |-> 1, standing |-> "unverified", active |-> TRUE]]
    /\ UNCHANGED <<sources, assessment, relation>>

UpdateClaim(c, standing) ==
    /\ More
    /\ claim[c].active
    /\ claim' = [claim EXCEPT ![c] =
                    [version |-> @.version + 1, standing |-> standing, active |-> TRUE]]
    /\ UNCHANGED <<sources, assessment, relation>>

\* A claim that no assessment cites leaves the snapshot.
Retire(c) ==
    /\ More
    /\ claim[c].active /\ c \notin assessment.claims
    /\ claim' = [claim EXCEPT ![c].version = @ + 1, ![c].active = FALSE]
    /\ UNCHANGED <<sources, assessment, relation>>

Assess(standing, claims) ==
    /\ More
    /\ claims # {} /\ claims \subseteq Claims
    /\ assessment' = [version |-> assessment.version + 1,
                      standing |-> standing, claims |-> claims]
    /\ UNCHANGED <<sources, claim, relation>>

\* Declare, correct or retract a relationship.
Relate(r, active) ==
    /\ More
    /\ r \subseteq sources
    /\ active \/ relation[r].active
    /\ relation' = [relation EXCEPT ![r] =
                       [revision |-> @.revision + 1, active |-> active]]
    /\ UNCHANGED <<sources, claim, assessment>>

Next ==
    \/ PlanNext
    \/ \E n \in DOMAIN cycle, tracked \in BOOLEAN : Start(n, tracked)
    \/ \E n \in DOMAIN cycle, outcome \in Outcomes :
           \E unresolved \in kSubset(outcome[2], ToSet(cycle[n].objectives)) :
               RecordOutcome(n, outcome[1], unresolved)
    \/ \E n \in DOMAIN cycle : RecoverCycle(n)
    \/ \E i \in 1..MaxObjectives, completed \in BOOLEAN, ref \in References :
           ReviewObjective(i, completed, ref[1], ref[2])
    \/ \E new \in StatusChanges : ChangeStatus(new)
    \/ Decide
    \/ \E s \in Source : Save(s)
    \/ \E c \in Claim : Extract(c) \/ Retire(c)
    \/ \E c \in Claim, standing \in Standing : UpdateClaim(c, standing)
    \/ \E standing \in {"mixed", "unresolved", "supported"}, claims \in SUBSET Claim :
           Assess(standing, claims)
    \/ \E r \in Relation, active \in BOOLEAN : Relate(r, active)

Spec == Init /\ [][Next]_vars

----------------------------------------------------------------------------
(* Properties.                                                             *)

\* Cycles, reviews, evidence and the decision have their shape.
TypeOK ==
    /\ status \in DOMAIN Transitions
    /\ cycle # <<>> /\ \A n \in DOMAIN cycle :
           /\ cycle[n].status \in Finished \cup {"planned", "active"}
           /\ Len(cycle[n].objectives) \in 1..MaxObjectives
           /\ IsInjective(cycle[n].objectives)
           /\ cycle[n].bases # <<>> => DOMAIN cycle[n].bases = DOMAIN cycle[n].objectives
           /\ cycle[n].unresolved \subseteq ToSet(cycle[n].objectives)
           /\ \A review \in ToSet(cycle[n].reviews) :
                  review.objective = cycle[n].objectives[review.index]
    /\ attempt \in BOOLEAN
    /\ sources \subseteq Source
    /\ claim \in [Claim -> [version : Nat, standing : Standing, active : BOOLEAN]]
    /\ assessment.claims \subseteq Claims
    /\ relation \in [Relation -> [revision : Nat, active : BOOLEAN]]
    /\ Cardinality(decision) <= 1

\* Behind a decision nothing runs and nothing is started again: the decision,
\* the runners and the operators all go through the task row.
NoAttemptBehindDecision ==
    decision # {} => ~attempt /\ status \in {"concluded", "archived"}

Shown == <<cycle, sources, {<<c, claim[c]>> : c \in Claims}, assessment,
           {Of(r) : r \in Relations}>>
Stale(d) == d.fingerprint # Fingerprint

\* The report calls a decision stale exactly when what it was based on has
\* changed: not when it is recorded, not by anything else, and never silently.
DecisionGoesStale ==
    [][\A d \in decision' :
           /\ decision = {} => ~Stale(d)'
           /\ decision # {} =>
                  IF Shown' = Shown THEN Stale(d)' = Stale(d)
                  ELSE Stale(d) \/ Stale(d)']_vars

Joined(S, relations) ==
    {s \in Source : \A T \in SUBSET Source :
        S \subseteq T /\ (\A r \in relations : r \cap T # {} => r \subseteq T) => s \in T}

\* A current review ceases to be current with any change of a claim it rests on
\* or of a relationship connected with a source it rests on, through others
\* too; where its basis names what it needs, no other relationship disturbs it.
ReviewsTrackEvidence ==
    [][evidence' # evidence =>
        \A n \in DOMAIN cycle : \A review \in ToSet(cycle[n].reviews) :
            LET basis  == review.on.basis
                rests  == review.claims \cup basis.claims
                cited  == review.sources \cup basis.sources
                          \cup UNION {Cites[c] : c \in rests \cap Claims}
                moved  == {r \in Relation : relation[r] # relation[r]'}
                joined == \E r \in moved :
                              r \cap Joined(cited, Relations \cup Relations') # {}
                narrow == basis.reason \notin Broad \cup {"source_dependence_unknown"}
            IN  IsCurrent(review) =>
                    /\ joined \/ (\E c \in rests : claim[c] # claim[c]')
                           => ~IsCurrent(review)'
                    /\ narrow /\ ~joined /\ moved # {} => IsCurrent(review)']_vars

\* While cycles may be planned, each need of the evidence is in the plan, has
\* been dealt with on this evidence, or gives way to a full plan of needs that
\* are no less urgent: no remedy for one need silently drops another.
GapsCovered ==
    LET contested  == {c \in Claims : claim[c].standing = "contested"}
        unverified == {c \in Claims : claim[c].standing = "unverified"}
        needs == {{<<"assess">>} : c \in {d \in {assessment} : d = Unassessed}}
            \cup {{<<"provenance", c>>} \cup
                      (IF c \in assessment.claims THEN {<<"reassess">>} ELSE {}) :
                      c \in contested}
            \cup {{<<"check", c>>} \cup
                      (IF c \in assessment.claims
                       THEN {<<"reassess">>, <<"resolve">>} ELSE {}) : c \in unverified}
            \cup {{<<"analyze", s>>} :
                      s \in {t \in sources : \A c \in Claims : t \notin Cites[c]}}
            \cup {{<<"question", Question[q]>>} : q \in DOMAIN Question}
        candidates == Candidates
        completed  == Completed
        chosen     == Chosen
    IN  status = "active" => \A need \in needs : \E k \in candidates :
            /\ k.objective \in need
            /\ \/ Settled(k, completed)
               \/ k \in chosen
               \/ /\ Cardinality(chosen) = MaxObjectives
                  /\ \A j \in chosen : j.priority <= k.priority

\* The readiness report shows as unresolved whatever the planner would carry
\* over from finished cycles: one decides from the report, the other plans.
NothingHidden ==
    LET open == OpenObjectives
    IN  \A e \in Outstanding : TextOf(e) \in open \/ Resolved(TextOf(e))

----------------------------------------------------------------------------
(* What makes the invariants inductive.                                    *)

IsSeq(s) == s \in Seq(ToSet(s))
Known(basis) == basis.claims \subseteq Claim /\ basis.sources \subseteq Source

\* Cycles are records of sequences, and what they rest on exists.
Shaped ==
    /\ IsSeq(cycle)
    /\ \A n \in DOMAIN cycle :
        LET x == cycle[n] IN
        /\ x = [objectives |-> x.objectives, bases |-> x.bases, status |-> x.status,
                unresolved |-> x.unresolved, reviews |-> x.reviews]
        /\ IsSeq(x.objectives) /\ IsSeq(x.bases) /\ IsSeq(x.reviews)
        /\ \A i \in DOMAIN x.bases : Known(x.bases[i].basis)
        /\ \A review \in ToSet(x.reviews) :
               /\ review.index \in DOMAIN x.objectives
               /\ Known(review) /\ Known(review.on.basis)

Sound == TypeOK /\ Shaped
=============================================================================
