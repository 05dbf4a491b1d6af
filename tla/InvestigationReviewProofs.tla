--------------------- MODULE InvestigationReviewProofs ---------------------
(***************************************************************************)
(* Theorems of InvestigationReview for any evidence, any number of cycles, *)
(* reviews and changes.                                                    *)
(*                                                                         *)
(* Decisions: the fingerprint is a function of the cycles, the attempt and *)
(* the evidence; behind a decision there is no attempt; and no step        *)
(* changes a claim or a relationship without raising its version, or       *)
(* showing or hiding it, so what leaves the shown evidence alone leaves    *)
(* the fingerprint alone.                                                  *)
(*                                                                         *)
(* Plans: the candidates of each group have positions and objectives of    *)
(* their own, so that all of them are finitely many and ordered; then the  *)
(* number of those ahead of a candidate is its rank, the ranks fill an     *)
(* interval, and the plan is the candidates of the first ranks.  That a    *)
(* plan repeats no objective is what makes the invariant Sound inductive.  *)
(*                                                                         *)
(* Reviews: the sources that relationships connect with a set are the      *)
(* least set around it that no relationship leaves, because the rounds     *)
(* that reach them grow or have ended; a relationship that does not touch  *)
(* that set can come and go without changing it.                           *)
(***************************************************************************)
EXTENDS InvestigationReview, FiniteSetTheorems, TLAPS

-----------------------------------------------------------------------------
(* Decisions.                                                              *)

\* A decision concludes an investigation without an attempt, and from there
\* nothing starts one: the statuses that follow do not allow a start.
THEOREM NothingBehindDecision == Spec => []NoAttemptBehindDecision
<1>1. Init => NoAttemptBehindDecision
  BY DEF Init, NoAttemptBehindDecision
<1>2. ASSUME NoAttemptBehindDecision, [Next]_vars PROVE NoAttemptBehindDecision'
  <2>1. CASE PlanNext
    BY <1>2, <2>1 DEF NoAttemptBehindDecision, PlanNext
  <2>2. ASSUME NEW n \in DOMAIN cycle, NEW tracked \in BOOLEAN, Start(n, tracked)
        PROVE  NoAttemptBehindDecision'
    BY <1>2, <2>2 DEF NoAttemptBehindDecision, Start
  <2>3. ASSUME NEW n, NEW outcome, NEW unresolved, RecordOutcome(n, outcome, unresolved)
        PROVE  NoAttemptBehindDecision'
    BY <1>2, <2>3 DEF NoAttemptBehindDecision, RecordOutcome
  <2>4. ASSUME NEW n, RecoverCycle(n) PROVE NoAttemptBehindDecision'
    BY <1>2, <2>4 DEF NoAttemptBehindDecision, RecoverCycle
  <2>5. ASSUME NEW i, NEW completed, NEW claims, NEW srcs,
               ReviewObjective(i, completed, claims, srcs)
        PROVE  NoAttemptBehindDecision'
    BY <1>2, <2>5 DEF NoAttemptBehindDecision, ReviewObjective
  <2>6. ASSUME NEW new, ChangeStatus(new) PROVE NoAttemptBehindDecision'
    BY <1>2, <2>6 DEF NoAttemptBehindDecision, ChangeStatus, Transitions
  <2>7. CASE Decide
    BY <1>2, <2>7 DEF NoAttemptBehindDecision, Decide, Concludable
  <2>8. CASE UNCHANGED <<status, cycle, attempt, decision>>
    BY <1>2, <2>8 DEF NoAttemptBehindDecision
  <2>9. CASE UNCHANGED vars
    BY <2>8, <2>9 DEF vars
  <2> QED
    BY <1>2, <2>1, <2>2, <2>3, <2>4, <2>5, <2>6, <2>7, <2>8, <2>9
       DEF Next, Save, Extract, Retire, UpdateClaim, Assess, Relate, More
<1> QED
  BY <1>1, <1>2, PTL DEF Spec

\* What the digests and the readiness report are computed from.
Same == UNCHANGED <<cycle, attempt, sources, claim, assessment, relation>>

LEMMA EvidenceSame ==
  ASSUME Same, NEW CONSTANT basis
  PROVE  Evidence(basis)' = Evidence(basis)
BY DEF Same, Evidence, Claims, Relations, Related, Of

LEMMA ReviewsSame ==
  ASSUME Same, NEW n
  PROVE  Latest(n)' = Latest(n)
BY DEF Same, Latest

LEMMA CurrentSame ==
  ASSUME Same, NEW CONSTANT review
  PROVE  IsCurrent(review)' = IsCurrent(review)
BY EvidenceSame DEF IsCurrent, WithEvidence, Reference, Basis

LEMMA CompleteSame ==
  ASSUME Same, NEW CONSTANT objective, NEW CONSTANT bases
  PROVE  ReviewedComplete(objective, bases)' = ReviewedComplete(objective, bases)
<1>1. /\ cycle' = cycle
      /\ \A n : Latest(n)' = Latest(n) /\ IndicesOf(n, objective)' = IndicesOf(n, objective)
      /\ \A review : IsCurrent(review)' = IsCurrent(review)
  BY ReviewsSame, CurrentSame DEF Same, IndicesOf
<1> QED
  BY <1>1 DEF ReviewedComplete

LEMMA ResolvedSame ==
  ASSUME Same, NEW CONSTANT objective
  PROVE  Resolved(objective)' = Resolved(objective)
<1> DEFINE Bases == {review.on.basis : review \in UNION {Latest(n) : n \in DOMAIN cycle}}
<1>1. Bases' = Bases
  BY ReviewsSame DEF Same
<1>2. ReviewedComplete(objective, Bases)' = ReviewedComplete(objective, Bases)
  <2>1. \A bases : ReviewedComplete(objective, bases)' = ReviewedComplete(objective, bases)
    BY CompleteSame
  <2> HIDE DEF Bases
  <2> QED
    BY <1>1, <2>1
<1> QED
  BY <1>2 DEF Resolved

LEMMA AttentionSame == Same => Attention' = Attention
<1> SUFFICES ASSUME Same PROVE Attention' = Attention
  OBVIOUS
<1>1. /\ cycle' = cycle /\ attempt' = attempt /\ assessment' = assessment
      /\ sources' = sources /\ Claims' = Claims /\ Contested' = Contested
  BY DEF Same, Claims, Contested
<1>2. OpenObjectives' = OpenObjectives
  <2>1. \A n : OpenIn(n)' = OpenIn(n)
    BY <1>1 DEF OpenIn
  <2> QED
    BY <1>1, <2>1, ResolvedSame DEF OpenObjectives
<1>3. StaleReviews' = StaleReviews
  BY <1>1, ReviewsSame, CurrentSame DEF StaleReviews
<1> QED
  BY <1>1, <1>2, <1>3 DEF Attention

LEMMA FingerprintSame == Same => Fingerprint' = Fingerprint
BY AttentionSame DEF Same, Fingerprint, Claims, Relations, Of

\* What every step keeps: an attempt is there or not, and claims and relationships
\* carry the number of their changes.
Versioned ==
    /\ attempt \in BOOLEAN
    /\ claim \in [Claim -> [version : Nat, standing : Standing, active : BOOLEAN]]
    /\ relation \in [Relation -> [revision : Nat, active : BOOLEAN]]

IInv == Versioned /\ NoAttemptBehindDecision

ClaimChange(c) == \/ Extract(c) \/ Retire(c)
                  \/ \E standing \in Standing : UpdateClaim(c, standing)
Revised(c, standing, on) ==
    /\ claim' = [claim EXCEPT ![c] = [version |-> claim[c].version + 1,
                                     standing |-> standing, active |-> on]]
    /\ claim[c].active \/ on

LEMMA ClaimSteps ==
  ASSUME Versioned, NEW c \in Claim, ClaimChange(c)
  PROVE  \E standing \in Standing, on \in BOOLEAN : Revised(c, standing, on)
<1>1. claim \in [Claim -> [version : Nat, standing : Standing, active : BOOLEAN]]
  BY DEF Versioned
<1>2. CASE Extract(c)
  <2>1. Revised(c, "unverified", TRUE)
    BY <1>1, <1>2 DEF Extract, Revised
  <2> QED
    BY <2>1 DEF Standing
<1>3. CASE Retire(c)
  <2>1. Revised(c, claim[c].standing, FALSE)
    BY <1>1, <1>3 DEF Retire, Revised
  <2>2. claim[c].standing \in Standing /\ FALSE \in BOOLEAN
    BY <1>1
  <2> QED
    BY <2>1, <2>2
<1>4. ASSUME NEW standing \in Standing, UpdateClaim(c, standing)
      PROVE  Revised(c, standing, TRUE)
  BY <1>1, <1>4 DEF UpdateClaim, Revised
<1>5. TRUE \in BOOLEAN
  OBVIOUS
<1> QED
  BY <1>2, <1>3, <1>4, <1>5 DEF ClaimChange

LEMMA VersionedKept == Versioned /\ [Next]_vars => Versioned'
<1> SUFFICES ASSUME Versioned, [Next]_vars PROVE Versioned'
  OBVIOUS
<1>1. CASE UNCHANGED <<claim, relation>> /\ attempt' \in BOOLEAN
  BY <1>1 DEF Versioned
<1>2. ASSUME NEW c \in Claim, ClaimChange(c) PROVE Versioned'
  <2>1. PICK standing \in Standing, on \in BOOLEAN : Revised(c, standing, on)
    BY <1>2, ClaimSteps
  <2>2. relation' = relation /\ attempt' = attempt
    BY <1>2 DEF ClaimChange, Extract, Retire, UpdateClaim, More
  <2>3. [version |-> claim[c].version + 1, standing |-> standing, active |-> on]
            \in [version : Nat, standing : Standing, active : BOOLEAN]
    BY DEF Versioned
  <2> QED
    BY <2>1, <2>2, <2>3 DEF Versioned, Revised
<1>3. ASSUME NEW r \in Relation, NEW on \in BOOLEAN, Relate(r, on) PROVE Versioned'
  BY <1>3 DEF Versioned, Relate, More
<1>4. attempt \in BOOLEAN
  BY DEF Versioned
<1> QED
  BY <1>1, <1>2, <1>3, <1>4
     DEF Next, ClaimChange, More, vars, evidence, PlanNext, Start, RecordOutcome, RecoverCycle,
         ReviewObjective, ChangeStatus, Decide, Save, Assess

THEOREM InductiveInvariant == Spec => []IInv
<1>1. ASSUME Init PROVE Versioned
  <2>1. "unverified" \in Standing /\ FALSE \in BOOLEAN /\ 0 \in Nat
    BY DEF Standing
  <2> QED
    BY <1>1, <2>1 DEF Init, Versioned
<1> QED
  BY <1>1, VersionedKept, NothingBehindDecision, PTL DEF Spec, IInv

\* No step changes a claim or a relationship without changing what is shown.
LEMMA NothingUnseen ==
  ASSUME IInv, [Next]_vars, Shown' = Shown
  PROVE  UNCHANGED <<cycle, sources, claim, assessment, relation>>
<1>1. /\ cycle' = cycle /\ sources' = sources /\ assessment' = assessment
      /\ {<<c, claim[c]>> : c \in Claims}' = {<<c, claim[c]>> : c \in Claims}
      /\ {Of(r) : r \in Relations}' = {Of(r) : r \in Relations}
  BY DEF Shown
<1>2. ASSUME NEW c \in Claim, claim[c].active \/ claim'[c].active
      PROVE  claim'[c] = claim[c]
  <2>1. CASE claim[c].active
    <3>1. <<c, claim[c]>> \in {<<d, claim[d]>> : d \in Claims}
      BY <2>1 DEF Claims
    <3>2. <<c, claim[c]>> \in {<<d, claim'[d]>> : d \in Claims'}
      BY <1>1, <3>1
    <3> QED
      BY <3>2
  <2>2. CASE claim'[c].active
    <3>1. <<c, claim'[c]>> \in {<<d, claim'[d]>> : d \in Claims'}
      BY <2>2 DEF Claims
    <3>2. <<c, claim'[c]>> \in {<<d, claim[d]>> : d \in Claims}
      BY <1>1, <3>1
    <3> QED
      BY <3>2
  <2> QED
    BY <1>2, <2>1, <2>2
<1>3. ASSUME NEW r \in Relation, relation[r].active \/ relation'[r].active
      PROVE  relation'[r] = relation[r]
  <2>1. CASE relation[r].active
    <3>1. <<r, relation[r]>> \in {<<q, relation[q]>> : q \in Relations}
      BY <2>1 DEF Relations
    <3>2. <<r, relation[r]>> \in {<<q, relation'[q]>> : q \in Relations'}
      BY <1>1, <3>1 DEF Of
    <3> QED
      BY <3>2
  <2>2. CASE relation'[r].active
    <3>1. <<r, relation'[r]>> \in {<<q, relation'[q]>> : q \in Relations'}
      BY <2>2 DEF Relations
    <3>2. <<r, relation'[r]>> \in {<<q, relation[q]>> : q \in Relations}
      BY <1>1, <3>1 DEF Of
    <3> QED
      BY <3>2
  <2> QED
    BY <1>3, <2>1, <2>2
<1>4. CASE UNCHANGED <<claim, relation>>
  BY <1>1, <1>4
<1>5. ASSUME NEW c \in Claim, ClaimChange(c) PROVE FALSE
  <2>1. PICK standing \in Standing, on \in BOOLEAN : Revised(c, standing, on)
    BY <1>5, ClaimSteps DEF IInv
  <2>2. claim'[c] = [version |-> claim[c].version + 1, standing |-> standing, active |-> on]
        /\ claim[c].version \in Nat /\ (claim[c].active \/ on)
    BY <2>1 DEF IInv, Versioned, Revised
  <2> QED
    BY <1>2, <2>2
<1>6. ASSUME NEW r \in Relation, NEW on \in BOOLEAN, Relate(r, on) PROVE FALSE
  <2>1. /\ relation'[r] = [revision |-> relation[r].revision + 1, active |-> on]
        /\ relation[r].revision \in Nat /\ (relation[r].active \/ on)
    BY <1>6 DEF IInv, Versioned, Relate
  <2> QED
    BY <1>3, <2>1
<1> QED
  BY <1>4, <1>5, <1>6
     DEF Next, ClaimChange, vars, evidence, PlanNext, Start, RecordOutcome, RecoverCycle,
         ReviewObjective, ChangeStatus, Decide, Save, Assess

LEMMA DecisionOnce ==
  ASSUME [Next]_vars, decision' # decision
  PROVE  /\ decision = {} /\ decision' = {[fingerprint |-> Fingerprint, limitations |-> Attention]}
         /\ Same
BY DEF Next, vars, evidence, PlanNext, Start, RecordOutcome, RecoverCycle, Same,
       ReviewObjective, ChangeStatus, Decide, Save, Extract, Retire, UpdateClaim, Assess,
       Relate, More

\* A decision is current when it is recorded and stale from the first change of
\* what it was based on, and nothing else makes it stale, for any evidence.
THEOREM DecisionStale == Spec => DecisionGoesStale
<1> DEFINE Step == \A d \in decision' :
           /\ decision = {} => ~Stale(d)'
           /\ decision # {} => IF Shown' = Shown THEN Stale(d)' = Stale(d)
                               ELSE Stale(d) \/ Stale(d)'
<1>1. ASSUME IInv, IInv', [Next]_vars, NEW d \in decision'
      PROVE  /\ decision = {} => ~Stale(d)'
             /\ decision # {} => IF Shown' = Shown THEN Stale(d)' = Stale(d)
                                 ELSE Stale(d) \/ Stale(d)'
  <2>1. CASE decision = {}
    BY <1>1, <2>1, DecisionOnce, FingerprintSame DEF Stale
  <2>2. CASE decision # {} /\ Shown' = Shown
    <3>1. ~attempt /\ ~attempt' /\ attempt \in BOOLEAN /\ attempt' \in BOOLEAN
      BY <1>1, <2>2, DecisionOnce DEF IInv, Versioned, NoAttemptBehindDecision
    <3> QED
      BY <1>1, <2>2, <3>1, NothingUnseen, FingerprintSame DEF Same, Stale
  <2>3. CASE decision # {} /\ Shown' # Shown
    BY <2>3 DEF Stale, Fingerprint, Shown
  <2> QED
    BY <2>1, <2>2, <2>3
<1>2. IInv /\ IInv' /\ [Next]_vars => Step \/ UNCHANGED vars
  BY <1>1
<1> QED
  BY <1>2, InductiveInvariant, PTL DEF Spec, DecisionGoesStale

-----------------------------------------------------------------------------
(* Induction over the numbers.                                             *)

\* Every set of numbers that is not empty has a least element.
LEMMA NatMin ==
  ASSUME NEW T \in SUBSET Nat, T # {}
  PROVE  \E m \in T : \A n \in T : m <= n
<1> DEFINE U == {1..n : n \in T}
<1>1. IsWellFoundedOn(StrictSubsetOrdering(Nat), FiniteSubsetsOf(Nat))
  BY FS_StrictSubsetOrderingWellFounded
<1>2. U \subseteq FiniteSubsetsOf(Nat) /\ U # {}
  <2>1. ASSUME NEW n \in T PROVE 1..n \in FiniteSubsetsOf(Nat)
    <3>1. IsFiniteSet(1..n) /\ 1..n \subseteq Nat
      BY FS_Interval
    <3> QED
      BY <3>1 DEF FiniteSubsetsOf
  <2> QED
    BY <2>1
<1>3. PICK x \in U : \A y \in U : ~(<<y, x>> \in StrictSubsetOrdering(Nat))
  <2> HIDE DEF U
  <2> QED
    BY <1>1, <1>2, WFMin
<1>4. PICK m \in T : x = 1..m
  BY <1>3
<1>5. ASSUME NEW n \in T, n < m PROVE FALSE
  <2>1. <<1..n, x>> \in StrictSubsetOrdering(Nat)
    <3>1. 1..n \in SUBSET Nat /\ x \in SUBSET Nat
      BY <1>4
    <3>2. 1..n \subseteq x /\ m \in x /\ m \notin 1..n
      BY <1>4, <1>5
    <3> QED
      BY <3>1, <3>2 DEF StrictSubsetOrdering
  <2> QED
    BY <2>1, <1>3
<1> QED
  BY <1>5

\* Induction: what holds of 0 and with every number of the next one holds of
\* all of them.
LEMMA Induction ==
  ASSUME NEW T \in SUBSET Nat, 0 \in T, \A n \in T : n + 1 \in T
  PROVE  T = Nat
<1> SUFFICES ASSUME Nat \ T # {} PROVE FALSE
  OBVIOUS
<1>1. PICK m \in Nat \ T : \A n \in Nat \ T : m <= n
  BY NatMin
<1>2. m # 0 /\ m - 1 \in Nat /\ m - 1 \notin Nat \ T
  BY <1>1
<1> QED
  BY <1>1, <1>2

-----------------------------------------------------------------------------
(* The order of candidates.                                                *)

\* Candidates that a position tells apart.
Placed(S) ==
    /\ \A k \in S : k.priority \in Nat /\ k.position \in Nat \X Nat \X Nat
    /\ \A j, k \in S : j.position = k.position => j = k

\* A position comes before another, place by place.
Ranked(p, q) == \/ p[1] < q[1]
                \/ p[1] = q[1] /\ p[2] < q[2]
                \/ p[1] = q[1] /\ p[2] = q[2] /\ p[3] < q[3]

\* The order of positions, place by place, is what Precedes says.
LEMMA PrecedesMeans ==
  ASSUME NEW p \in Nat \X Nat \X Nat, NEW q \in Nat \X Nat \X Nat
  PROVE  Precedes(p, q) <=> Ranked(p, q)
<1>1. \A i \in 1..3 : i = 1 \/ i = 2 \/ i = 3
  OBVIOUS
<1>2. 1..(1 - 1) = {} /\ 1..(2 - 1) = {1} /\ 1..(3 - 1) = {1, 2} /\ {1, 2, 3} \subseteq 1..3
  OBVIOUS
<1> QED
  BY <1>1, <1>2 DEF Precedes, Ranked

\* It is a strict total order.
LEMMA RankedOrder ==
  ASSUME NEW p \in Nat \X Nat \X Nat, NEW q \in Nat \X Nat \X Nat
  PROVE  /\ ~Ranked(p, p)
         /\ p = q \/ Ranked(p, q) \/ Ranked(q, p)
         /\ \A o \in Nat \X Nat \X Nat : Ranked(o, p) /\ Ranked(p, q) => Ranked(o, q)
<1>1. \A o \in Nat \X Nat \X Nat :
          o[1] \in Nat /\ o[2] \in Nat /\ o[3] \in Nat /\ o = <<o[1], o[2], o[3]>>
  OBVIOUS
<1>2. p = q \/ p[1] # q[1] \/ p[2] # q[2] \/ p[3] # q[3]
  BY <1>1
<1>3. p[1] \in Nat /\ p[2] \in Nat /\ p[3] \in Nat /\ q[1] \in Nat /\ q[2] \in Nat /\ q[3] \in Nat
  BY <1>1
<1>4. p = q \/ Ranked(p, q) \/ Ranked(q, p)
  BY <1>2, <1>3 DEF Ranked
<1>5. ASSUME NEW o \in Nat \X Nat \X Nat, Ranked(o, p), Ranked(p, q) PROVE Ranked(o, q)
  <2>1. o[1] \in Nat /\ o[2] \in Nat /\ o[3] \in Nat
    BY <1>1
  <2> QED
    BY <1>3, <1>5, <2>1 DEF Ranked
<1> QED
  BY <1>3, <1>4, <1>5 DEF Ranked

\* So is the order of placed candidates, and it follows their priority.
LEMMA Ordering ==
  ASSUME NEW S, Placed(S), NEW j \in S, NEW k \in S
  PROVE  /\ ~Before(j, j)
         /\ j = k \/ Before(j, k) \/ Before(k, j)
         /\ \A i \in S : Before(i, j) /\ Before(j, k) => Before(i, k)
         /\ Before(j, k) => j.priority <= k.priority
<1>1. \A a \in S : a.priority \in Nat /\ a.position \in Nat \X Nat \X Nat
  BY DEF Placed
<1>2. j.position = k.position => j = k
  BY DEF Placed
<1>3. ASSUME NEW a \in S, NEW b \in S
      PROVE  Before(a, b) <=> \/ a.priority < b.priority
                              \/ a.priority = b.priority /\ Ranked(a.position, b.position)
  <2>1. Precedes(a.position, b.position) <=> Ranked(a.position, b.position)
    BY <1>1, PrecedesMeans
  <2> QED
    BY <2>1 DEF Before
<1>4. /\ ~Ranked(j.position, j.position)
      /\ \/ j.position = k.position \/ Ranked(j.position, k.position)
         \/ Ranked(k.position, j.position)
      /\ \A i \in S : Ranked(i.position, j.position) /\ Ranked(j.position, k.position)
                       => Ranked(i.position, k.position)
  BY <1>1, RankedOrder
<1>5. j.priority \in Nat /\ k.priority \in Nat
  BY <1>1
<1>6. ~Before(j, j) /\ (Before(j, k) => j.priority <= k.priority)
  BY <1>3, <1>4, <1>5
<1>7. j = k \/ Before(j, k) \/ Before(k, j)
  BY <1>2, <1>3, <1>4, <1>5
<1>8. ASSUME NEW i \in S, Before(i, j), Before(j, k) PROVE Before(i, k)
  <2>1. i.priority \in Nat
    BY <1>1
  <2> QED
    BY <1>3, <1>4, <1>5, <1>8, <2>1
<1> QED
  BY <1>6, <1>7, <1>8

\* Each of finitely many placed candidates has a rank of its own, from none ahead
\* of it to all others ahead of it.
LEMMA Ranks ==
  ASSUME NEW S, IsFiniteSet(S), Placed(S)
  PROVE  /\ \A k \in S : Cardinality(Ahead(S, k)) \in 0..(Cardinality(S) - 1)
         /\ \A j, k \in S : Before(j, k) => Cardinality(Ahead(S, j)) < Cardinality(Ahead(S, k))
         /\ \A r \in 0..(Cardinality(S) - 1) : \E k \in S : Cardinality(Ahead(S, k)) = r
<1>1. Cardinality(S) \in Nat
  BY FS_CardinalityType
<1>2. ASSUME NEW k \in S
      PROVE  IsFiniteSet(Ahead(S, k)) /\ Cardinality(Ahead(S, k)) \in 0..(Cardinality(S) - 1)
  <2>1. Ahead(S, k) \in SUBSET S /\ k \notin Ahead(S, k)
    BY Ordering DEF Ahead
  <2>2. Ahead(S, k) \in SUBSET (S \ {k}) /\ IsFiniteSet(S \ {k})
        /\ Cardinality(S \ {k}) = Cardinality(S) - 1
    BY <2>1, FS_RemoveElement
  <2>3. IsFiniteSet(Ahead(S, k)) /\ Cardinality(Ahead(S, k)) <= Cardinality(S \ {k})
    BY <2>2, FS_Subset
  <2>4. Cardinality(Ahead(S, k)) \in Nat
    BY <2>3, FS_CardinalityType
  <2> QED
    BY <1>1, <2>2, <2>3, <2>4
<1>3. ASSUME NEW j \in S, NEW k \in S, Before(j, k)
      PROVE  Cardinality(Ahead(S, j)) < Cardinality(Ahead(S, k))
  <2>1. Ahead(S, j) \in SUBSET Ahead(S, k) /\ j \in Ahead(S, k) /\ j \notin Ahead(S, j)
    BY <1>3, Ordering DEF Ahead
  <2>2. /\ Cardinality(Ahead(S, j)) <= Cardinality(Ahead(S, k))
        /\ Cardinality(Ahead(S, j)) # Cardinality(Ahead(S, k))
    BY <1>2, <2>1, FS_Subset
  <2> QED
    BY <1>2, <2>2
<1>4. ASSUME NEW r \in 0..(Cardinality(S) - 1)
      PROVE  \E k \in S : Cardinality(Ahead(S, k)) = r
  <2> DEFINE f == [k \in S |-> Cardinality(Ahead(S, k))]
             R == 0..(Cardinality(S) - 1)
  <2>1. f \in [S -> R]
    BY <1>2
  <2>2. \A j, k \in S : f[j] = f[k] => j = k
    BY <1>1, <1>2, <1>3, Ordering
  <2>3. f \in Injection(S, R)
    BY <2>1, <2>2 DEF Injection, IsInjective
  <2>4. IsFiniteSet(R) /\ Cardinality(R) = Cardinality(S)
    BY <1>1, FS_Interval
  <2>5. f \in Surjection(S, R)
    <3> HIDE DEF f, R
    <3> QED
      BY <2>3, <2>4, FS_Injection
  <2>6. PICK k \in S : f[k] = r
    BY <2>5 DEF Surjection
  <2> QED
    BY <2>6
<1> QED
  BY <1>2, <1>3, <1>4

\* Ordering candidates loses none and repeats none.
LEMMA OrderedOnce ==
  ASSUME NEW S, IsFiniteSet(S), Placed(S)
  PROVE  /\ Cardinality(S) \in Nat
         /\ Ordered(S) \in [1..Cardinality(S) -> S]
         /\ IsInjective(Ordered(S))
<1>1. Cardinality(S) \in Nat
  BY FS_CardinalityType
<1>2. ASSUME NEW i \in 1..Cardinality(S)
      PROVE  Ordered(S)[i] \in S /\ Cardinality(Ahead(S, Ordered(S)[i])) = i - 1
  <2>1. \E k \in S : Cardinality(Ahead(S, k)) = i - 1
    BY <1>1, Ranks
  <2> QED
    BY <2>1 DEF Ordered
<1> QED
  BY <1>1, <1>2 DEF Ordered, IsInjective

\* The first of them are as many as fit, and none is less urgent than one left out.
LEMMA FirstOnes ==
  ASSUME NEW S, IsFiniteSet(S), Placed(S), NEW m \in Nat \ {0}
  PROVE  LET first == {k \in S : Cardinality(Ahead(S, k)) < m}
         IN  /\ IsFiniteSet(first)
             /\ Cardinality(first) <= m
             /\ S # {} => first # {}
             /\ \A k \in S \ first : /\ Cardinality(first) = m
                                     /\ \A j \in first : j.priority <= k.priority
<1> DEFINE first == {k \in S : Cardinality(Ahead(S, k)) < m}
           n == Cardinality(S)
<1>1. n \in Nat
  BY FS_CardinalityType
<1>2. first \in SUBSET S /\ IsFiniteSet(first) /\ Cardinality(first) \in Nat
  BY FS_Subset, FS_CardinalityType
<1> DEFINE rank == [k \in first |-> Cardinality(Ahead(S, k))]
           R == 0..(m - 1)
<1>3. IsFiniteSet(R) /\ Cardinality(R) = m
  BY FS_Interval
<1>4. rank \in [first -> R]
  BY <1>1, Ranks
<1>5. \A j, k \in first : rank[j] = rank[k] => j = k
  BY Ranks, Ordering
<1>6. rank \in Injection(first, R)
  BY <1>4, <1>5 DEF Injection, IsInjective
<1>7. /\ Cardinality(first) <= m
      /\ Cardinality(first) = m <=> rank \in Surjection(first, R)
  <2> HIDE DEF rank, R, first
  <2> QED
    BY <1>3, <1>6, FS_Injection
<1>8. S # {} => first # {}
  <2>1. S # {} => n > 0
    BY <1>1, FS_EmptySet
  <2>2. S # {} => \E k \in S : Cardinality(Ahead(S, k)) = 0
    BY <1>1, <2>1, Ranks
  <2> QED
    BY <2>2
<1>9. ASSUME NEW k \in S \ first
      PROVE  /\ Cardinality(first) = m
             /\ \A j \in first : j.priority <= k.priority
  <2>1. Cardinality(Ahead(S, k)) \in 0..(n - 1) /\ Cardinality(Ahead(S, k)) >= m
    BY <1>1, Ranks
  <2>2. ASSUME NEW r \in R PROVE \E j \in first : rank[j] = r
    <3>1. r \in 0..(n - 1)
      BY <1>1, <2>1
    <3>2. PICK j \in S : Cardinality(Ahead(S, j)) = r
      BY <3>1, Ranks
    <3> QED
      BY <3>2
  <2>3. rank \in Surjection(first, R)
    <3> HIDE DEF rank, R, first
    <3> QED
      BY <1>4, <2>2 DEF Surjection
  <2>4. ASSUME NEW j \in first PROVE j.priority <= k.priority
    <3>1. j \in S /\ Cardinality(Ahead(S, j)) < m /\ Cardinality(Ahead(S, j)) \in Nat
      BY <1>1, Ranks
    <3>2. ~Before(k, j) /\ j # k
      BY <1>1, <2>1, <3>1, Ranks
    <3> QED
      BY <3>1, <3>2, Ordering
  <2> QED
    BY <1>7, <2>3, <2>4
<1> QED
  BY <1>2, <1>7, <1>8, <1>9

-----------------------------------------------------------------------------
(* Candidates have positions and objectives of their own.                  *)

\* The positions the planner gives to candidates.
Places == (0..6) \X (Claim \cup Source \cup DOMAIN Question \cup (0..(MaxCycles + 1)))
          \X (0..MaxObjectives)

\* A candidate as the planner makes them.
Proper(k) ==
    /\ k = Candidate(k.priority, k.position, k.objective, k.basis)
    /\ k.priority \in Nat /\ k.position \in Places /\ Known(k.basis)

\* The group that asks for an objective, by its verb.
Group == [assess |-> 0, reassess |-> 0, resolve |-> 0, provenance |-> 1, check |-> 1,
          analyze |-> 2, question |-> 3, compare |-> 4, corroborate |-> 4, older |-> 4,
          dependence |-> 5]
Grouped(k) == k.objective[1] \in DOMAIN Group /\ k.position[1] = Group[k.objective[1]]

\* Neither a position nor an objective is given twice.
Apart(S) == \A j, k \in S :
    j.position = k.position \/ j.objective = k.objective => j = k

Arranged(S) == Apart(S) /\ \A k \in S : Proper(k)

\* What the assumptions say of the questions, of the bounds and of the ids.
LEMMA Lengths == Question \in Seq(ToSet(Question)) /\ Len(Question) \in Nat
                 /\ DOMAIN Question = 1..Len(Question)
BY ReviewAssumption

LEMMA Bounds == {MaxCompared, MaxObjectives, MaxCycles, MaxReviews} \subseteq Nat /\ MaxObjectives > 0
<1>1. {MaxCompared, MaxObjectives, MaxCycles, MaxReviews, MaxChanges} \subseteq Nat
      /\ MaxObjectives > 0
  BY ReviewAssumption
<1> QED
  BY <1>1

LEMMA Ids == /\ Source \subseteq Nat /\ Claim \subseteq Nat /\ IsFiniteSet(Source \cup Claim)
             /\ Relation \subseteq SUBSET Source /\ Observation \subseteq Source
             /\ Cites \in [Claim -> (SUBSET Source) \ {{}}] /\ Saved \subseteq Source
             /\ Contradict \subseteq SUBSET Observation
BY ReviewAssumption

\* Positions are compared as numbers, and there are finitely many.
LEMMA PlacesFinite == Places \subseteq Nat \X Nat \X Nat /\ IsFiniteSet(Places)
<1> DEFINE M == Claim \cup Source \cup DOMAIN Question \cup (0..(MaxCycles + 1))
<1>1. MaxCycles \in Nat /\ MaxObjectives \in Nat /\ MaxCycles + 1 \in Nat
  BY Bounds
<1>2. IsFiniteSet(0..6) /\ IsFiniteSet(0..MaxObjectives) /\ IsFiniteSet(0..(MaxCycles + 1))
  <2>1. \A n \in Nat : IsFiniteSet(0..n)
    BY FS_Interval
  <2> QED
    BY <1>1, <2>1
<1>3. IsFiniteSet(DOMAIN Question)
  BY Lengths, FS_Interval
<1>4. IsFiniteSet(M)
  <2>1. IsFiniteSet((Claim \cup Source) \cup DOMAIN Question)
    <3>1. Claim \cup Source = Source \cup Claim
      OBVIOUS
    <3> QED
      BY <1>3, <3>1, Ids, FS_Union
  <2> QED
    BY <1>2, <2>1, FS_Union
<1>5. IsFiniteSet(((0..6) \X M) \X (0..MaxObjectives))
  <2>1. IsFiniteSet((0..6) \X M)
    BY <1>2, <1>4, FS_Product
  <2> QED
    BY <1>2, <2>1, FS_Product
<1>6. M \subseteq Nat
  <2>1. DOMAIN Question \subseteq Nat /\ 0..(MaxCycles + 1) \subseteq Nat
    BY <1>1, Lengths
  <2> QED
    BY <2>1, Ids
<1>7. Places \subseteq Nat \X Nat \X Nat
  <2> HIDE DEF M
  <2> QED
    BY <1>1, <1>6 DEF Places, M
<1>8. IsFiniteSet(Places)
  <2> DEFINE f == [p \in ((0..6) \X M) \X (0..MaxObjectives) |-> <<p[1][1], p[1][2], p[2]>>]
  <2>1. Places = (0..6) \X M \X (0..MaxObjectives)
    BY DEF Places
  <2>2. f \in Surjection(((0..6) \X M) \X (0..MaxObjectives), Places)
    <3> HIDE DEF M
    <3>1. \A p \in ((0..6) \X M) \X (0..MaxObjectives) : f[p] \in Places
      BY <2>1
    <3>2. ASSUME NEW q \in Places PROVE \E p \in ((0..6) \X M) \X (0..MaxObjectives) : f[p] = q
      <4>1. q = <<q[1], q[2], q[3]>> /\ q[1] \in 0..6 /\ q[2] \in M /\ q[3] \in 0..MaxObjectives
        BY <2>1
      <4>2. <<<<q[1], q[2]>>, q[3]>> \in ((0..6) \X M) \X (0..MaxObjectives)
        BY <4>1
      <4>3. f[<<<<q[1], q[2]>>, q[3]>>] = q
        BY <4>1, <4>2
      <4> QED
        BY <4>2, <4>3
    <3> QED
      BY <3>1, <3>2 DEF Surjection
  <2> HIDE DEF f, M
  <2> QED
    BY <1>5, <2>2, FS_Surjection
<1> QED
  BY <1>7, <1>8

\* Candidates that are arranged are finitely many, and their places order them.
LEMMA ArrangedPlaced ==
  ASSUME NEW S, Arranged(S)
  PROVE  IsFiniteSet(S) /\ Placed(S)
<1> DEFINE f == [k \in S |-> k.position]
<1>1. f \in Injection(S, Places)
  BY DEF Injection, IsInjective, Arranged, Apart, Proper
<1>2. IsFiniteSet(S)
  <2> HIDE DEF f
  <2> QED
    BY <1>1, PlacesFinite, FS_Injection
<1>3. Placed(S)
  BY PlacesFinite DEF Placed, Arranged, Apart, Proper
<1> QED
  BY <1>2, <1>3

\* What a group proposes are proper candidates.
LEMMA PositionIn ==
  ASSUME NEW g \in 0..6, NEW m \in Claim \cup Source \cup DOMAIN Question \cup {0, 1}
  PROVE  <<g, m, 0>> \in Places
<1>1. MaxObjectives \in Nat /\ MaxCycles \in Nat
  BY Bounds
<1>2. 0 \in 0..MaxObjectives /\ 0 \in 0..(MaxCycles + 1) /\ 1 \in 0..(MaxCycles + 1)
  BY <1>1
<1> QED
  BY <1>2 DEF Places

LEMMA ProperCandidate ==
  ASSUME NEW p \in Nat, NEW position \in Places, NEW objective, NEW reason, NEW assessed,
         NEW claims \in SUBSET Claim, NEW srcs \in SUBSET Source
  PROVE  Proper(Candidate(p, position, objective, Basis(reason, assessed, claims, srcs)))
BY DEF Proper, Candidate, Basis, Known

\* The candidates of one group: arranged, and of that group alone.
Filed(S, g) ==
    /\ Arranged(S)
    /\ \A k \in S : Grouped(k) /\ k.position[1] = g

\* Each group proposes candidates of its own, none of them twice.
LEMMA HypothesisFiled == Filed(AboutHypothesis, 0)
<1> DEFINE A == Candidate(1, <<0, 0, 0>>, <<"assess">>, Basis("missing_assessment", TRUE, {}, {}))
           B == Candidate(0, <<0, 0, 0>>, <<"reassess">>,
                          Basis("contradictory_evidence", TRUE, Linked, {}))
           C == Candidate(2, <<0, 0, 0>>, <<"resolve">>,
                          Basis("unresolved_assessment", TRUE, Linked, {}))
<1>1. <<0, 0, 0>> \in Places
  BY PositionIn
<1>2. Linked \subseteq Claim
  BY DEF Linked, Claims
<1>3. Proper(A) /\ Grouped(A) /\ A.position[1] = 0
  <2>1. Proper(A)
    BY <1>1, ProperCandidate
  <2> QED
    BY <2>1 DEF Grouped, Group, Candidate
<1>4. Proper(B) /\ Grouped(B) /\ B.position[1] = 0
  <2>1. Proper(B)
    BY <1>1, <1>2, ProperCandidate
  <2> QED
    BY <2>1 DEF Grouped, Group, Candidate
<1>5. Proper(C) /\ Grouped(C) /\ C.position[1] = 0
  <2>1. Proper(C)
    BY <1>1, <1>2, ProperCandidate
  <2> QED
    BY <2>1 DEF Grouped, Group, Candidate
<1>6. AboutHypothesis \in {{A}, {B}, {C}, {}}
  <2> HIDE DEF A, B, C
  <2> QED
    BY DEF AboutHypothesis, A, B, C
<1> HIDE DEF A, B, C
<1> QED
  BY <1>3, <1>4, <1>5, <1>6 DEF Filed, Arranged, Apart

LEMMA ClaimsFiled == Filed(AboutClaims, 1)
<1> DEFINE A(c) == Candidate(0, <<1, c, 0>>, <<"provenance", c>>,
                             Basis("contradictory_evidence", FALSE, {c}, {}))
           B(c) == Candidate(3, <<1, c, 0>>, <<"check", c>>,
                             Basis("unverified_claim", FALSE, {c}, {}))
           IsA(k, c) == k = A(c) /\ claim[c].standing = "contested"
           IsB(k, c) == k = B(c) /\ claim[c].standing = "unverified"
<1>1. ASSUME NEW c \in Claim
      PROVE  /\ Proper(A(c)) /\ Grouped(A(c)) /\ A(c).position = <<1, c, 0>>
             /\ Proper(B(c)) /\ Grouped(B(c)) /\ B(c).position = <<1, c, 0>>
             /\ A(c).objective = <<"provenance", c>> /\ B(c).objective = <<"check", c>>
  <2>1. <<1, c, 0>> \in Places
    BY PositionIn
  <2>2. Proper(A(c))
    BY <2>1, ProperCandidate
  <2>3. Proper(B(c))
    BY <2>1, ProperCandidate
  <2> QED
    BY <2>2, <2>3 DEF Grouped, Group, Candidate
<1>2. ASSUME NEW k \in AboutClaims
      PROVE  \E c \in Claim : IsA(k, c) \/ IsB(k, c)
  BY DEF AboutClaims, Contested, Claims
<1> HIDE DEF A, B
<1>3. ASSUME NEW k \in AboutClaims PROVE Proper(k) /\ Grouped(k) /\ k.position[1] = 1
  BY <1>1, <1>2
<1>4. ASSUME NEW j \in AboutClaims, NEW k \in AboutClaims,
             j.position = k.position \/ j.objective = k.objective
      PROVE  j = k
  <2>1. PICK c \in Claim : IsA(j, c) \/ IsB(j, c)
    BY <1>2
  <2>2. PICK d \in Claim : IsA(k, d) \/ IsB(k, d)
    BY <1>2
  <2>3. c = d
    BY <1>1, <1>4, <2>1, <2>2
  <2> QED
    BY <2>1, <2>2, <2>3
<1> QED
  BY <1>3, <1>4 DEF Filed, Arranged, Apart

LEMMA SourcesFiled == ASSUME sources \subseteq Source PROVE Filed(AboutSources, 2)
<1> DEFINE A(s) == Candidate(4, <<2, s, 0>>, <<"analyze", s>>,
                             Basis("unanalysed_source", FALSE, {}, {s}))
<1>1. ASSUME NEW s \in Source
      PROVE  /\ Proper(A(s)) /\ Grouped(A(s)) /\ A(s).position = <<2, s, 0>>
             /\ A(s).objective = <<"analyze", s>>
  <2>1. <<2, s, 0>> \in Places
    BY PositionIn
  <2>2. Proper(A(s))
    BY <2>1, ProperCandidate
  <2> QED
    BY <2>2 DEF Grouped, Group, Candidate
<1>2. ASSUME NEW k \in AboutSources PROVE \E s \in Source : k = A(s)
  BY DEF AboutSources
<1> HIDE DEF A
<1>3. ASSUME NEW k \in AboutSources PROVE Proper(k) /\ Grouped(k) /\ k.position[1] = 2
  BY <1>1, <1>2
<1>4. ASSUME NEW j \in AboutSources, NEW k \in AboutSources,
             j.position = k.position \/ j.objective = k.objective
      PROVE  j = k
  <2>1. PICK s \in Source : j = A(s)
    BY <1>2
  <2>2. PICK t \in Source : k = A(t)
    BY <1>2
  <2>3. s = t
    BY <1>1, <1>4, <2>1, <2>2
  <2> QED
    BY <2>1, <2>2, <2>3
<1> QED
  BY <1>3, <1>4 DEF Filed, Arranged, Apart

LEMMA QuestionsFiled == Filed(AboutQuestions, 3)
<1> DEFINE A(q) == Candidate(5, <<3, q, 0>>, <<"question", Question[q]>>,
                             Basis("open_question", FALSE, {}, {}))
           First == {p \in DOMAIN Question : \A o \in 1..(p - 1) : Question[o] # Question[p]}
<1>1. ASSUME NEW q \in DOMAIN Question
      PROVE  /\ Proper(A(q)) /\ Grouped(A(q)) /\ A(q).position = <<3, q, 0>>
             /\ A(q).objective = <<"question", Question[q]>>
  <2>1. <<3, q, 0>> \in Places
    BY PositionIn
  <2>2. Proper(A(q))
    BY <2>1, ProperCandidate
  <2> QED
    BY <2>2 DEF Grouped, Group, Candidate
<1>2. ASSUME NEW k \in AboutQuestions PROVE \E q \in First : k = A(q)
  BY DEF AboutQuestions
<1>3. ASSUME NEW p \in First, NEW q \in First, Question[p] = Question[q] PROVE p = q
  <2>1. p \in Nat \ {0} /\ q \in Nat \ {0}
    BY Lengths
  <2>2. ~(p < q) /\ ~(q < p)
    BY <1>3, <2>1
  <2> QED
    BY <2>1, <2>2
<1> HIDE DEF A
<1>4. ASSUME NEW k \in AboutQuestions PROVE Proper(k) /\ Grouped(k) /\ k.position[1] = 3
  BY <1>1, <1>2
<1>5. ASSUME NEW j \in AboutQuestions, NEW k \in AboutQuestions,
             j.position = k.position \/ j.objective = k.objective
      PROVE  j = k
  <2>1. PICK p \in First : j = A(p)
    BY <1>2
  <2>2. PICK q \in First : k = A(q)
    BY <1>2
  <2>3. p = q
    BY <1>1, <1>3, <1>5, <2>1, <2>2
  <2> QED
    BY <2>1, <2>2, <2>3
<1> QED
  BY <1>4, <1>5 DEF Filed, Arranged, Apart

LEMMA AgentsFiled == ASSUME sources \subseteq Source PROVE Filed(AboutAgents, 4)
<1> DEFINE A == Candidate(0, <<4, 0, 0>>, <<"compare">>,
                          Basis("agent_contradiction", FALSE, {}, UNION Contradicting))
           B == Candidate(2, <<4, 0, 0>>, <<"corroborate">>,
                          Basis("agent_corroboration", FALSE, {}, Compared))
           C == Candidate(1, <<4, 1, 0>>, <<"older">>,
                          Basis("agent_comparison_limit", FALSE, {}, {}))
<1>1. <<4, 0, 0>> \in Places /\ <<4, 1, 0>> \in Places
  BY PositionIn
<1>2. UNION Contradicting \subseteq Source /\ Compared \subseteq Source
  BY Ids DEF Contradicting, Compared, Observations
<1>3. Proper(A) /\ Grouped(A) /\ A.position = <<4, 0, 0>> /\ A.objective = <<"compare">>
  <2>1. Proper(A)
    BY <1>1, <1>2, ProperCandidate
  <2> QED
    BY <2>1 DEF Grouped, Group, Candidate
<1>4. Proper(B) /\ Grouped(B) /\ B.position = <<4, 0, 0>> /\ B.objective = <<"corroborate">>
  <2>1. Proper(B)
    BY <1>1, <1>2, ProperCandidate
  <2> QED
    BY <2>1 DEF Grouped, Group, Candidate
<1>5. Proper(C) /\ Grouped(C) /\ C.position = <<4, 1, 0>> /\ C.objective = <<"older">>
  <2>1. Proper(C)
    BY <1>1, ProperCandidate
  <2> QED
    BY <2>1 DEF Grouped, Group, Candidate
<1>6. AboutAgents \subseteq {A, C} \/ AboutAgents \subseteq {B, C}
  BY DEF AboutAgents
<1> HIDE DEF A, B, C
<1>7. Apart({A, C}) /\ Apart({B, C})
  BY <1>3, <1>4, <1>5 DEF Apart
<1> QED
  BY <1>3, <1>4, <1>5, <1>6, <1>7 DEF Filed, Arranged, Apart

LEMMA DependenceFiled == ASSUME sources \subseteq Source PROVE Filed(AboutDependence, 5)
<1> DEFINE A == Candidate(2, <<5, 0, 0>>, <<"dependence">>,
                          Basis("source_dependence_unknown", FALSE, {}, sources))
<1>1. <<5, 0, 0>> \in Places
  BY PositionIn
<1>2. Proper(A)
  BY <1>1, ProperCandidate
<1>3. Grouped(A) /\ A.position = <<5, 0, 0>>
  BY DEF Grouped, Group, Candidate
<1>4. AboutDependence \subseteq {A}
  BY DEF AboutDependence
<1> HIDE DEF A
<1> QED
  BY <1>2, <1>3, <1>4 DEF Filed, Arranged, Apart

\* No two groups propose the same objective at the same place.
LEMMA GapsArranged ==
  ASSUME sources \subseteq Source
  PROVE  Arranged(Gaps) /\ \A k \in Gaps : k.position[1] \in 0..5
<1> DEFINE G == <<AboutHypothesis, AboutClaims, AboutSources, AboutQuestions,
                  AboutAgents, AboutDependence>>
<1>1. \A g \in 0..5 : Filed(G[g + 1], g)
  <2>1. \A g \in 0..5 : g = 0 \/ g = 1 \/ g = 2 \/ g = 3 \/ g = 4 \/ g = 5
    OBVIOUS
  <2> QED
    BY <2>1, HypothesisFiled, ClaimsFiled, SourcesFiled, QuestionsFiled, AgentsFiled,
       DependenceFiled
<1>2. ASSUME NEW k \in Gaps PROVE \E g \in 0..5 : k \in G[g + 1]
  <2>1. {0, 1, 2, 3, 4, 5} \subseteq 0..5
    OBVIOUS
  <2> QED
    BY <2>1 DEF Gaps
<1> HIDE DEF G
<1>3. ASSUME NEW k \in Gaps
      PROVE  Proper(k) /\ Grouped(k) /\ k.position[1] \in 0..5 /\ k \in G[k.position[1] + 1]
  BY <1>1, <1>2 DEF Filed, Arranged
<1>4. ASSUME NEW j \in Gaps, NEW k \in Gaps,
             j.position = k.position \/ j.objective = k.objective
      PROVE  j = k
  <2>1. j.position[1] = k.position[1]
    BY <1>3, <1>4 DEF Grouped
  <2> QED
    BY <1>1, <1>3, <1>4, <2>1 DEF Filed, Arranged, Apart
<1> QED
  BY <1>3, <1>4 DEF Arranged, Apart

\* Neither does what is current, which adds the objectives of an idle plan.
LEMMA CurrentArranged ==
  ASSUME sources \subseteq Source
  PROVE  Arranged(Current) /\ \A k \in Current : k.position[1] \in 0..5
<1> DEFINE A == Candidate(4, <<0, 0, 0>>, <<"gather">>, Basis("missing_evidence", FALSE, {}, {}))
<1>1. <<0, 0, 0>> \in Places
  BY PositionIn
<1>2. Proper(A) /\ A.position[1] \in 0..5
  <2>1. Proper(A)
    BY <1>1, ProperCandidate
  <2> QED
    BY <2>1 DEF Candidate
<1>3. Proper(Stopping) /\ Stopping.position[1] \in 0..5
  <2>1. Proper(Stopping)
    BY <1>1, ProperCandidate DEF Stopping
  <2> QED
    BY <2>1 DEF Stopping, Candidate
<1>4. Current \in {Gaps, {A}, {Stopping}}
  BY DEF Current
<1> HIDE DEF A
<1>5. Arranged({A}) /\ Arranged({Stopping})
  BY <1>2, <1>3 DEF Arranged, Apart
<1> QED
  BY <1>2, <1>3, <1>4, <1>5, GapsArranged

\* Of some entries one is the last and one the first.
LEMMA LastEntry ==
  ASSUME NEW E \in SUBSET ((1..MaxCycles) \X (1..MaxObjectives)), E # {}
  PROVE  \E e \in E : ~\E f \in E : Later(f, e)
<1>1. MaxCycles \in Nat /\ MaxObjectives \in Nat
  BY Bounds
<1>2. \A e \in E : e[1] \in 1..MaxCycles /\ e[2] \in 1..MaxObjectives
  OBVIOUS
<1> DEFINE X == {MaxCycles - e[1] : e \in E}
<1>3. X \subseteq Nat /\ X # {}
  BY <1>1, <1>2
<1>4. PICK x \in X : \A y \in X : x <= y
  BY <1>3, NatMin
<1>5. PICK n \in 1..MaxCycles : x = MaxCycles - n
  BY <1>2
<1> DEFINE Y == {MaxObjectives - e[2] : e \in {f \in E : f[1] = n}}
<1>6. Y \subseteq Nat
  BY <1>1, <1>2
<1>7. Y # {}
  <2>1. PICK e \in E : x = MaxCycles - e[1]
    BY <1>4
  <2>2. e[1] = n
    BY <1>1, <1>2, <1>5, <2>1
  <2> QED
    BY <2>2
<1>8. PICK y \in Y : \A z \in Y : y <= z
  BY <1>6, <1>7, NatMin
<1>9. PICK e \in E : e[1] = n /\ y = MaxObjectives - e[2]
  BY <1>8
<1>10. ASSUME NEW f \in E, Later(f, e) PROVE FALSE
  <2>1. MaxCycles - f[1] >= MaxCycles - n
    BY <1>4, <1>5
  <2>2. f[1] <= n
    BY <1>1, <1>2, <1>5, <2>1
  <2>3. f[1] = n /\ f[2] > e[2]
    BY <1>2, <1>9, <1>10, <2>2 DEF Later
  <2>4. MaxObjectives - f[2] >= y
    BY <1>8, <2>3
  <2> QED
    BY <1>1, <1>2, <1>9, <2>3, <2>4
<1> QED
  BY <1>10

\* Entries none of which is later are the same.
LEMMA EntriesOrdered ==
  ASSUME NEW e \in (1..MaxCycles) \X (1..MaxObjectives),
         NEW f \in (1..MaxCycles) \X (1..MaxObjectives), ~Later(e, f), ~Later(f, e)
  PROVE  e = f
<1>1. MaxCycles \in Nat /\ MaxObjectives \in Nat
  BY Bounds
<1>2. e = <<e[1], e[2]>> /\ f = <<f[1], f[2]>> /\ e[1] \in Int /\ f[1] \in Int /\ e[2] \in Int /\ f[2] \in Int
  BY <1>1
<1>3. e[1] = f[1] /\ e[2] = f[2]
  BY <1>2 DEF Later
<1> QED
  BY <1>2, <1>3

\* Carried objectives have places of their own, one for each text, and repeat
\* nothing current.
LEMMA CarriedArranged ==
  ASSUME Shaped
  PROVE  /\ Arranged(Carried)
         /\ \A k \in Carried : k.position[1] = 6 /\ k.objective \notin Replaced
<1> DEFINE SameText(e) == {g \in Outstanding : TextOf(g) = TextOf(e)}
           Newest(e) == CHOOSE g \in SameText(e) : ~\E h \in SameText(e) : Later(h, g)
           C(e) == Candidate(1, <<6, e[1], e[2]>>, TextOf(e), PlannedOn(Newest(e)).basis)
           First(e) == ~\E g \in SameText(e) : Later(e, g)
           D == {f \in Outstanding : TextOf(f) \notin Replaced /\ First(f)}
<1>1. Carried = {C(e) : e \in D}
  BY DEF Carried
<1>2. Outstanding \subseteq Entries /\ Entries \subseteq (1..MaxCycles) \X (1..MaxObjectives)
  BY DEF Outstanding, Reopened, Entries
<1>3. ASSUME NEW e \in Outstanding PROVE Known(PlannedOn(Newest(e)).basis)
  <2>1. e \in SameText(e)
    OBVIOUS
  <2>2. SameText(e) \in SUBSET ((1..MaxCycles) \X (1..MaxObjectives)) /\ SameText(e) # {}
    BY <1>2, <2>1
  <2>3. \E g \in SameText(e) : ~\E h \in SameText(e) : Later(h, g)
    <3> HIDE DEF SameText
    <3> QED
      BY <2>2, LastEntry
  <2>4. Newest(e) \in Entries
    <3>1. Newest(e) \in SameText(e)
      BY <2>3
    <3> QED
      BY <1>2, <3>1
  <2> HIDE DEF Newest
  <2> QED
    BY <2>4 DEF PlannedOn, Entries, Shaped, Known, Bare, Basis
<1>4. ASSUME NEW e \in D PROVE Proper(C(e)) /\ C(e).position = <<6, e[1], e[2]>>
                               /\ C(e).objective = TextOf(e)
  <2>1. <<6, e[1], e[2]>> \in Places
    <3>1. MaxCycles \in Nat /\ MaxObjectives \in Nat
      BY Bounds
    <3>2. e[1] \in 1..MaxCycles /\ e[2] \in 1..MaxObjectives
      BY <1>2
    <3>3. e[1] \in 0..(MaxCycles + 1) /\ e[2] \in 0..MaxObjectives /\ 6 \in 0..6
      BY <3>1, <3>2
    <3> QED
      BY <3>3 DEF Places
  <2>2. Known(PlannedOn(Newest(e)).basis)
    BY <1>3
  <2> HIDE DEF Newest
  <2> QED
    BY <2>1, <2>2 DEF Proper, Candidate
<1>5. ASSUME NEW e \in D, NEW f \in D, TextOf(e) = TextOf(f) \/ <<6, e[1], e[2]>> = <<6, f[1], f[2]>>
      PROVE  e = f
  <2>1. e \in (1..MaxCycles) \X (1..MaxObjectives) /\ f \in (1..MaxCycles) \X (1..MaxObjectives)
    BY <1>2
  <2>2. CASE TextOf(e) = TextOf(f)
    BY <2>1, <2>2, EntriesOrdered
  <2>3. CASE <<6, e[1], e[2]>> = <<6, f[1], f[2]>>
    BY <2>1, <2>3
  <2> QED
    BY <1>5, <2>2, <2>3
<1> HIDE DEF C, D
<1>6. \A e \in D : TextOf(e) \notin Replaced
  BY DEF D
<1> QED
  BY <1>1, <1>4, <1>5, <1>6 DEF Arranged, Apart

-----------------------------------------------------------------------------
(* The plan.                                                               *)

\* What the urgency of outstanding work makes of a candidate.
Urgent(k, open) ==
    Candidate(IF k.objective \in open THEN Min({k.priority, 1}) ELSE k.priority,
              k.position, k.objective, k.basis)

\* The smaller of a priority and 1 is a priority, and no less urgent.
LEMMA MinOne == ASSUME NEW p \in Nat PROVE Min({p, 1}) \in Nat /\ Min({p, 1}) <= p
<1>1. \E x \in {p, 1} : \A y \in {p, 1} : x =< y
  OBVIOUS
<1> QED
  BY <1>1 DEF Min

\* The candidates are the current and the carried ones, at their urgency.
LEMMA CandidatesAre ==
  ASSUME Shaped, sources \subseteq Source
  PROVE  Candidates = {Urgent(k, {TextOf(e) : e \in Outstanding}) : k \in Current \cup Carried}
<1> DEFINE open == {TextOf(e) : e \in Outstanding}
           up(k) == [k EXCEPT !.priority = IF k.objective \in open THEN Min({@, 1}) ELSE @]
<1>1. Candidates = {up(k) : k \in Current \cup Carried}
  BY DEF Candidates
<1>2. ASSUME NEW k \in Current \cup Carried PROVE up(k) = Urgent(k, open)
  <2>1. k = [priority |-> k.priority, position |-> k.position,
             objective |-> k.objective, basis |-> k.basis]
    BY CurrentArranged, CarriedArranged DEF Arranged, Proper, Candidate
  <2> DEFINE p == k.priority
             x == [priority |-> k.priority, position |-> k.position,
                   objective |-> k.objective, basis |-> k.basis]
             y == IF k.objective \in open THEN Min({p, 1}) ELSE p
  <2>2. up(k) = [k EXCEPT !.priority = y]
    OBVIOUS
  <2> HIDE DEF y
  <2>3. [x EXCEPT !.priority = y] = [priority |-> y, position |-> k.position,
             objective |-> k.objective, basis |-> k.basis]
    OBVIOUS
  <2>4. up(k) = [priority |-> y, position |-> k.position,
             objective |-> k.objective, basis |-> k.basis]
    BY <2>1, <2>2, <2>3
  <2> QED
    BY <2>4 DEF y, Urgent, Candidate
<1> HIDE DEF open, up
<1>3. Candidates = {Urgent(k, open) : k \in Current \cup Carried}
  BY <1>1, <1>2
<1> QED
  BY <1>3 DEF open

\* All candidates together are arranged, as the planner needs to order them.
LEMMA CandidatesArranged ==
  ASSUME Shaped, sources \subseteq Source
  PROVE  Arranged(Candidates)
<1> DEFINE open == {TextOf(e) : e \in Outstanding}
           All == Current \cup Carried
<1>1. ASSUME NEW k \in All PROVE Proper(k)
  BY CurrentArranged, CarriedArranged DEF Arranged
<1>2. ASSUME NEW j \in All, NEW k \in All, j.position = k.position \/ j.objective = k.objective
      PROVE  j = k
  <2>1. CASE j \in Current /\ k \in Current
    BY <1>2, <2>1, CurrentArranged DEF Arranged, Apart
  <2>2. CASE j \in Carried /\ k \in Carried
    BY <1>2, <2>2, CarriedArranged DEF Arranged, Apart
  <2>3. ASSUME NEW x \in Current, NEW y \in Carried
        PROVE  x.position # y.position /\ x.objective # y.objective
    <3>1. x.position[1] \in 0..5 /\ y.position[1] = 6 /\ y.objective \notin Replaced
      BY CurrentArranged, CarriedArranged
    <3> QED
      BY <3>1 DEF Replaced
  <2> QED
    BY <1>2, <2>1, <2>2, <2>3
<1>3. ASSUME NEW k \in All
      PROVE  /\ Proper(Urgent(k, open))
             /\ Urgent(k, open).position = k.position /\ Urgent(k, open).objective = k.objective
  <2>1. Proper(k)
    BY <1>1
  <2>2. Min({k.priority, 1}) \in Nat
    BY <2>1, MinOne DEF Proper
  <2> QED
    BY <2>1, <2>2 DEF Proper, Urgent, Candidate
<1> HIDE DEF open, All
<1>4. Candidates = {Urgent(k, open) : k \in All}
  BY CandidatesAre DEF open, All
<1> QED
  BY <1>2, <1>3, <1>4 DEF Arranged, Apart

\* What is left of arranged candidates is arranged.
LEMMA ArrangedSubset ==
  ASSUME NEW S, Arranged(S), NEW T \in SUBSET S
  PROVE  Arranged(T)
BY DEF Arranged, Apart

\* What is chosen fits into a cycle, and what is pending and not chosen gives way
\* to a full plan that is no less urgent.
LEMMA ChosenFacts ==
  ASSUME Shaped, sources \subseteq Source
  PROVE  /\ Arranged(Chosen) /\ IsFiniteSet(Chosen) /\ Placed(Chosen)
         /\ Cardinality(Chosen) \in 0..MaxObjectives
         /\ \A k \in Pending \ Chosen : /\ Cardinality(Chosen) = MaxObjectives
                                        /\ \A j \in Chosen : j.priority <= k.priority
<1>1. Arranged(Pending)
  <2>1. Pending \in SUBSET Candidates
    BY DEF Pending
  <2> QED
    BY <2>1, CandidatesArranged, ArrangedSubset
<1>2. IsFiniteSet(Pending) /\ Placed(Pending)
  BY <1>1, ArrangedPlaced
<1>3. Chosen = {k \in Pending : Cardinality(Ahead(Pending, k)) < MaxObjectives}
  BY DEF Chosen
<1>4. MaxObjectives \in Nat \ {0}
  BY Bounds
<1>5. /\ IsFiniteSet(Chosen) /\ Cardinality(Chosen) <= MaxObjectives
      /\ \A k \in Pending \ Chosen : /\ Cardinality(Chosen) = MaxObjectives
                                     /\ \A j \in Chosen : j.priority <= k.priority
  BY <1>2, <1>3, <1>4, FirstOnes
<1>6. Arranged(Chosen)
  BY <1>1, <1>3, ArrangedSubset
<1> QED
  BY <1>4, <1>5, <1>6, ArrangedPlaced, FS_CardinalityType

\* A plan holds as many objectives as fit into a cycle, each of them once, on
\* evidence that exists.
LEMMA PlanFacts ==
  ASSUME Shaped, sources \subseteq Source, Plan # <<>>
  PROVE  /\ \E n \in 1..MaxObjectives : DOMAIN Plan = 1..n
         /\ \A i \in DOMAIN Plan : Known(Plan[i].basis)
         /\ \A i, j \in DOMAIN Plan : Plan[i].objective = Plan[j].objective => i = j
<1>1. CASE Chosen # {}
  <2>1. Plan = Ordered(Chosen)
    BY <1>1 DEF Plan
  <2>2. /\ Cardinality(Chosen) \in Nat /\ Ordered(Chosen) \in [1..Cardinality(Chosen) -> Chosen]
        /\ IsInjective(Ordered(Chosen))
    BY ChosenFacts, OrderedOnce
  <2>3. Cardinality(Chosen) \in 1..MaxObjectives
    BY <1>1, <2>2, ChosenFacts, FS_EmptySet
  <2>4. \A k \in Chosen : Known(k.basis)
    BY ChosenFacts DEF Arranged, Proper
  <2>5. \A j, k \in Chosen : j.objective = k.objective => j = k
    BY ChosenFacts DEF Arranged, Apart
  <2> QED
    BY <2>1, <2>2, <2>3, <2>4, <2>5 DEF IsInjective
<1>2. CASE Chosen = {}
  <2>1. Plan = <<Stopping>>
    BY <1>2 DEF Plan
  <2>2. Known(Stopping.basis)
    BY DEF Stopping, Candidate, Known, Basis
  <2>3. 1 \in 1..MaxObjectives /\ DOMAIN <<Stopping>> = 1..1
    BY Bounds
  <2> QED
    BY <2>1, <2>2, <2>3
<1> QED
  BY <1>1, <1>2

-----------------------------------------------------------------------------
(* Every need is met.                                                      *)

\* A need is met: dealt with, planned, or behind a full plan of more urgent ones.
Met(k) == \/ Settled(k, Completed)
          \/ k \in Chosen
          \/ /\ Cardinality(Chosen) = MaxObjectives
             /\ \A j \in Chosen : j.priority <= k.priority

\* Whatever the evidence asks for stays among the candidates, and is met.
LEMMA CandidatesMet ==
  ASSUME Shaped, sources \subseteq Source, NEW g \in Gaps
  PROVE  \E k \in Candidates : k.objective = g.objective /\ Met(k)
<1> DEFINE open == {TextOf(e) : e \in Outstanding}
<1>1. g \in Current
  BY DEF Current
<1>2. Urgent(g, open) \in Candidates
  BY <1>1, CandidatesAre
<1>3. Urgent(g, open).objective = g.objective
  BY DEF Urgent, Candidate
<1>4. ASSUME NEW k \in Candidates PROVE Met(k)
  BY <1>4, ChosenFacts DEF Met, Pending
<1> QED
  BY <1>2, <1>3, <1>4

\* An assessment that is missing, mixed or unresolved is asked for; claims are left
\* to it only while it is asked for.
LEMMA HypothesisGap ==
  /\ assessment = Unassessed => \E g \in Gaps : g.objective = <<"assess">>
  /\ \A c \in Addressed : \E g \in Gaps :
         /\ c \in assessment.claims
         /\ \/ g.objective = <<"reassess">>
            \/ g.objective = <<"resolve">> /\ c \notin Contested
<1> DEFINE A == Candidate(1, <<0, 0, 0>>, <<"assess">>, Basis("missing_assessment", TRUE, {}, {}))
           B == Candidate(0, <<0, 0, 0>>, <<"reassess">>,
                          Basis("contradictory_evidence", TRUE, Linked, {}))
           C == Candidate(2, <<0, 0, 0>>, <<"resolve">>,
                          Basis("unresolved_assessment", TRUE, Linked, {}))
<1>1. /\ A.objective = <<"assess">> /\ A.basis.claims = {}
      /\ B.objective = <<"reassess">> /\ C.objective = <<"resolve">>
  BY DEF Candidate, Basis
<1>2. assessment = Unassessed => Linked = {} /\ assessment.standing = "none"
  BY DEF Linked, Unassessed
<1>3. assessment = Unassessed => AboutHypothesis = {A}
  <2> HIDE DEF A, B, C
  <2> QED
    BY <1>2 DEF AboutHypothesis, A, B, C
<1>4. \/ AboutHypothesis \in {{A}, {B}, {}}
      \/ AboutHypothesis = {C} /\ Linked \cap Contested = {}
  <2> HIDE DEF A, B, C
  <2>1. AboutHypothesis \in {{A}, {B}, {C}, {}}
    BY DEF AboutHypothesis, A, B, C
  <2>2. CASE Linked \cap Contested # {} /\ assessment # Unassessed
    <3>1. AboutHypothesis = {B}
      BY <2>2 DEF AboutHypothesis, B
    <3> QED
      BY <3>1
  <2>3. CASE assessment = Unassessed
    BY <1>3, <2>3
  <2> QED
    BY <2>1, <2>2, <2>3
<1> HIDE DEF A, B, C
<1>5. ASSUME NEW c \in Addressed PROVE c \in Linked
  BY DEF Addressed
<1>6. ASSUME NEW c \in Addressed
      PROVE  \/ B \in AboutHypothesis
             \/ C \in AboutHypothesis /\ c \notin Contested
  BY <1>1, <1>4, <1>5 DEF Addressed
<1>7. AboutHypothesis \subseteq Gaps
  BY DEF Gaps
<1>8. Linked \subseteq assessment.claims
  BY DEF Linked
<1> QED
  BY <1>1, <1>3, <1>5, <1>6, <1>7, <1>8

\* So are the claims that are not left to it, the sources nobody analysed and the
\* open questions.
LEMMA ClaimGap ==
  /\ \A c \in Contested \ Addressed : \E g \in Gaps : g.objective = <<"provenance", c>>
  /\ \A c \in Claims \ Addressed : claim[c].standing = "unverified" =>
         \E g \in Gaps : g.objective = <<"check", c>>
<1>1. AboutClaims \subseteq Gaps
  BY DEF Gaps
<1>2. ASSUME NEW c \in Contested \ Addressed
      PROVE  \E g \in Gaps : g.objective = <<"provenance", c>>
  <2> DEFINE g == Candidate(0, <<1, c, 0>>, <<"provenance", c>>,
                            Basis("contradictory_evidence", FALSE, {c}, {}))
  <2>1. g \in AboutClaims
    BY DEF AboutClaims
  <2>2. g.objective = <<"provenance", c>>
    BY DEF Candidate
  <2> QED
    BY <1>1, <2>1, <2>2
<1>3. ASSUME NEW c \in Claims \ Addressed, claim[c].standing = "unverified"
      PROVE  \E g \in Gaps : g.objective = <<"check", c>>
  <2> DEFINE g == Candidate(3, <<1, c, 0>>, <<"check", c>>,
                            Basis("unverified_claim", FALSE, {c}, {}))
  <2>1. g \in AboutClaims
    BY <1>3 DEF AboutClaims
  <2>2. g.objective = <<"check", c>>
    BY DEF Candidate
  <2> QED
    BY <1>1, <2>1, <2>2
<1> QED
  BY <1>2, <1>3

LEMMA SourceGap ==
  ASSUME NEW s \in sources, \A c \in Claims : s \notin Cites[c]
  PROVE  \E g \in Gaps : g.objective = <<"analyze", s>>
<1> DEFINE g == Candidate(4, <<2, s, 0>>, <<"analyze", s>>,
                          Basis("unanalysed_source", FALSE, {}, {s}))
<1>1. g \in AboutSources
  BY DEF AboutSources
<1>2. g.objective = <<"analyze", s>>
  BY DEF Candidate
<1> QED
  BY <1>1, <1>2 DEF Gaps

LEMMA QuestionGap ==
  ASSUME NEW q \in DOMAIN Question
  PROVE  \E g \in Gaps : g.objective = <<"question", Question[q]>>
<1> DEFINE T == {p \in DOMAIN Question : Question[p] = Question[q]}
<1>1. T \in SUBSET Nat /\ T # {}
  BY Lengths
<1>2. PICK p \in T : \A o \in T : p <= o
  BY <1>1, NatMin
<1>3. \A o \in 1..(p - 1) : Question[o] # Question[p]
  <2> SUFFICES ASSUME NEW o \in 1..(p - 1), Question[o] = Question[p] PROVE FALSE
    OBVIOUS
  <2>1. p \in Nat \ {0} /\ p <= Len(Question) /\ Len(Question) \in Nat
    BY Lengths
  <2>2. o \in T
    BY <2>1, Lengths
  <2> QED
    BY <1>2, <2>1, <2>2
<1> DEFINE g == Candidate(5, <<3, p, 0>>, <<"question", Question[p]>>,
                          Basis("open_question", FALSE, {}, {}))
<1>4. g \in AboutQuestions
  BY <1>3 DEF AboutQuestions
<1>5. g.objective = <<"question", Question[q]>>
  BY DEF Candidate
<1> QED
  BY <1>4, <1>5 DEF Gaps

\* Every need is among the candidates, and every candidate is met.
LEMMA Covering == ASSUME Shaped, sources \subseteq Source PROVE GapsCovered
<1>1. ASSUME NEW need, NEW g \in Gaps, g.objective \in need
      PROVE  \E k \in Candidates : k.objective \in need /\ Met(k)
  BY <1>1, CandidatesMet
<1> DEFINE contested  == {c \in Claims : claim[c].standing = "contested"}
           unverified == {c \in Claims : claim[c].standing = "unverified"}
           Provenance(c) == {<<"provenance", c>>} \cup
                            (IF c \in assessment.claims THEN {<<"reassess">>} ELSE {})
           Check(c) == {<<"check", c>>} \cup
                       (IF c \in assessment.claims THEN {<<"reassess">>, <<"resolve">>} ELSE {})
<1>2. assessment = Unassessed => \E g \in Gaps : g.objective \in {<<"assess">>}
  BY HypothesisGap
<1>3. ASSUME NEW c \in contested PROVE \E g \in Gaps : g.objective \in Provenance(c)
  <2>1. c \in Contested
    BY DEF Contested
  <2>2. CASE c \in Addressed
    BY <2>1, <2>2, HypothesisGap
  <2>3. CASE c \notin Addressed
    BY <2>1, <2>3, ClaimGap
  <2> QED
    BY <2>2, <2>3
<1>4. ASSUME NEW c \in unverified PROVE \E g \in Gaps : g.objective \in Check(c)
  <2>2. CASE c \in Addressed
    BY <2>2, HypothesisGap
  <2>3. CASE c \notin Addressed
    BY <2>3, ClaimGap
  <2> QED
    BY <2>2, <2>3
<1>5. ASSUME NEW s \in sources, \A c \in Claims : s \notin Cites[c]
      PROVE  \E g \in Gaps : g.objective \in {<<"analyze", s>>}
  BY <1>5, SourceGap
<1>6. ASSUME NEW q \in DOMAIN Question
      PROVE  \E g \in Gaps : g.objective \in {<<"question", Question[q]>>}
  BY QuestionGap
<1> DEFINE needs == {{<<"assess">>} : c \in {d \in {assessment} : d = Unassessed}}
            \cup {Provenance(c) : c \in contested}
            \cup {Check(c) : c \in unverified}
            \cup {{<<"analyze", s>>} :
                      s \in {t \in sources : \A c \in Claims : t \notin Cites[c]}}
            \cup {{<<"question", Question[q]>>} : q \in DOMAIN Question}
<1>7. ASSUME NEW need \in needs PROVE \E g \in Gaps : g.objective \in need
  <2> HIDE DEF Provenance, Check, contested, unverified
  <2> QED
    BY <1>2, <1>3, <1>4, <1>5, <1>6
<1>8. ASSUME NEW need \in needs PROVE \E k \in Candidates : k.objective \in need /\ Met(k)
  <2> HIDE DEF needs
  <2> QED
    BY <1>1, <1>7
<1> HIDE DEF Provenance, Check, contested, unverified, needs
<1> QED
  BY <1>8 DEF GapsCovered, Met, Provenance, Check, contested, unverified, needs

-----------------------------------------------------------------------------
(* The invariant.                                                          *)

\* The invariant cycle by cycle, and without the cycles.
CycleOK(x) ==
    /\ x = [objectives |-> x.objectives, bases |-> x.bases, status |-> x.status,
            unresolved |-> x.unresolved, reviews |-> x.reviews]
    /\ IsSeq(x.objectives) /\ IsSeq(x.bases) /\ IsSeq(x.reviews)
    /\ x.status \in Finished \cup {"planned", "active"}
    /\ Len(x.objectives) \in 1..MaxObjectives
    /\ IsInjective(x.objectives)
    /\ x.bases # <<>> => DOMAIN x.bases = DOMAIN x.objectives
    /\ x.unresolved \subseteq ToSet(x.objectives)
    /\ \A i \in DOMAIN x.bases : Known(x.bases[i].basis)
    /\ \A review \in ToSet(x.reviews) :
           /\ review.objective = x.objectives[review.index]
           /\ review.index \in DOMAIN x.objectives
           /\ Known(review) /\ Known(review.on.basis)

CyclesOK == IsSeq(cycle) /\ cycle # <<>> /\ \A n \in DOMAIN cycle : CycleOK(cycle[n])

RestOK ==
    /\ status \in DOMAIN Transitions
    /\ attempt \in BOOLEAN
    /\ sources \subseteq Source
    /\ claim \in [Claim -> [version : Nat, standing : Standing, active : BOOLEAN]]
    /\ assessment.claims \subseteq Claims
    /\ relation \in [Relation -> [revision : Nat, active : BOOLEAN]]
    /\ Cardinality(decision) <= 1

LEMMA SoundMeans == Sound <=> CyclesOK /\ RestOK
BY DEF Sound, TypeOK, Shaped, CyclesOK, RestOK, CycleOK

\* Sequences, as tuples, as functions that are made and with one more entry.
LEMMA SeqFacts ==
  ASSUME NEW s, IsSeq(s)
  PROVE  Len(s) \in Nat /\ DOMAIN s = 1..Len(s)
BY DEF IsSeq

LEMMA SeqMade ==
  ASSUME NEW n \in Nat, NEW s, s = [i \in 1..n |-> s[i]]
  PROVE  IsSeq(s) /\ Len(s) = n
<1>1. s \in [1..n -> ToSet(s)]
  BY DEF ToSet
<1> QED
  BY <1>1 DEF IsSeq

LEMMA AppendFacts ==
  ASSUME NEW s, IsSeq(s), NEW e
  PROVE  /\ IsSeq(Append(s, e))
         /\ DOMAIN Append(s, e) = 1..(Len(s) + 1)
         /\ \A i \in DOMAIN s : Append(s, e)[i] = s[i]
         /\ Append(s, e)[Len(s) + 1] = e
         /\ ToSet(Append(s, e)) = ToSet(s) \cup {e}
<1> DEFINE S == ToSet(s) \cup {e}
           t == Append(s, e)
<1>1. s \in Seq(S) /\ e \in S
  BY DEF IsSeq, ToSet
<1>2. t \in Seq(S) /\ Len(t) = Len(s) + 1 /\ t[Len(s) + 1] = e /\ \A i \in 1..Len(s) : t[i] = s[i]
  BY <1>1
<1>3. DOMAIN t = 1..(Len(s) + 1) /\ DOMAIN s = 1..Len(s) /\ Len(s) \in Nat
  BY <1>1, <1>2
<1> HIDE DEF t
<1>4. ToSet(t) = S
  BY <1>2, <1>3 DEF ToSet
<1>5. IsSeq(t)
  <2> HIDE DEF S
  <2> QED
    BY <1>2, <1>4 DEF IsSeq
<1> QED
  BY <1>2, <1>3, <1>4, <1>5 DEF t

\* One cycle becomes another that is sound.
LEMMA CycleReplaced ==
  ASSUME CyclesOK, NEW n \in DOMAIN cycle, NEW x, CycleOK(x), cycle' = [cycle EXCEPT ![n] = x]
  PROVE  CyclesOK'
<1>1. Len(cycle) \in Nat /\ DOMAIN cycle = 1..Len(cycle) /\ cycle = [i \in 1..Len(cycle) |-> cycle[i]]
  BY DEF CyclesOK, IsSeq
<1>2. DOMAIN cycle' = DOMAIN cycle /\ cycle' = [i \in 1..Len(cycle) |-> cycle'[i]]
  BY <1>1
<1>3. IsSeq(cycle') /\ cycle' # <<>>
  <2>1. IsSeq(cycle')
    BY <1>1, <1>2, SeqMade
  <2> QED
    BY <1>2, <2>1 DEF CyclesOK
<1>4. \A i \in DOMAIN cycle' : cycle'[i] = IF i = n THEN x ELSE cycle[i]
  BY <1>1
<1>5. \A i \in DOMAIN cycle' : CycleOK(cycle'[i])
  BY <1>2, <1>4 DEF CyclesOK
<1>6. ASSUME NEW i \in DOMAIN cycle' PROVE CycleOK(cycle[i])'
  BY <1>5 DEF CycleOK, Finished, Known
<1>7. IsSeq(cycle)'
  BY <1>3 DEF IsSeq, ToSet
<1> QED
  BY <1>3, <1>6, <1>7 DEF CyclesOK

\* Closing a cycle, recovering one and starting one keep its objectives, bases and
\* reviews.
LEMMA OutcomeStep ==
  ASSUME CyclesOK, NEW n \in DOMAIN cycle, NEW outcome \in Finished \cup {"active"},
         NEW unresolved \in SUBSET ToSet(cycle[n].objectives),
         cycle' = [cycle EXCEPT ![n].status = outcome, ![n].unresolved = unresolved]
  PROVE  CyclesOK'
<1> DEFINE c == cycle[n]
           x == [objectives |-> c.objectives, bases |-> c.bases, status |-> outcome,
                 unresolved |-> unresolved, reviews |-> c.reviews]
<1>1. CycleOK(c)
  BY DEF CyclesOK
<1>2. CycleOK(x)
  <2>1. /\ x.objectives = c.objectives /\ x.bases = c.bases /\ x.status = outcome
        /\ x.unresolved = unresolved /\ x.reviews = c.reviews
        /\ x = [objectives |-> x.objectives, bases |-> x.bases, status |-> x.status,
                unresolved |-> x.unresolved, reviews |-> x.reviews]
    OBVIOUS
  <2> HIDE DEF x
  <2> QED
    BY <1>1, <2>1 DEF CycleOK
<1>3. [[c EXCEPT !.status = outcome] EXCEPT !.unresolved = unresolved] = x
  <2> DEFINE y == [objectives |-> c.objectives, bases |-> c.bases, status |-> c.status,
                   unresolved |-> c.unresolved, reviews |-> c.reviews]
  <2>1. c = y
    BY <1>1 DEF CycleOK
  <2> DEFINE z == [objectives |-> c.objectives, bases |-> c.bases, status |-> outcome,
                   unresolved |-> c.unresolved, reviews |-> c.reviews]
  <2>2. [y EXCEPT !.status = outcome] = z
    OBVIOUS
  <2>3. [z EXCEPT !.unresolved = unresolved] = x
    OBVIOUS
  <2> HIDE DEF x, y, z
  <2> QED
    BY <2>1, <2>2, <2>3
<1>4. cycle' = [cycle EXCEPT ![n] = [[c EXCEPT !.status = outcome] EXCEPT !.unresolved = unresolved]]
  <2>1. DOMAIN cycle' = DOMAIN cycle /\ \A i \in DOMAIN cycle : cycle'[i] =
            IF i = n THEN [[c EXCEPT !.status = outcome] EXCEPT !.unresolved = unresolved]
            ELSE cycle[i]
    OBVIOUS
  <2>2. cycle' = [i \in DOMAIN cycle |-> cycle'[i]]
    BY <2>1
  <2> QED
    BY <2>1, <2>2
<1>5. cycle' = [cycle EXCEPT ![n] = x]
  BY <1>3, <1>4
<1> HIDE DEF x
<1> QED
  BY <1>2, <1>5, CycleReplaced

LEMMA StatusStep ==
  ASSUME CyclesOK, NEW n \in DOMAIN cycle, cycle' = [cycle EXCEPT ![n].status = "active"]
  PROVE  CyclesOK'
<1> DEFINE c == cycle[n]
           x == [objectives |-> c.objectives, bases |-> c.bases, status |-> "active",
                 unresolved |-> c.unresolved, reviews |-> c.reviews]
<1>1. CycleOK(c)
  BY DEF CyclesOK
<1>2. CycleOK(x)
  <2>1. /\ x.objectives = c.objectives /\ x.bases = c.bases /\ x.status = "active"
        /\ x.unresolved = c.unresolved /\ x.reviews = c.reviews
        /\ x = [objectives |-> x.objectives, bases |-> x.bases, status |-> x.status,
                unresolved |-> x.unresolved, reviews |-> x.reviews]
    OBVIOUS
  <2> HIDE DEF x
  <2> QED
    BY <1>1, <2>1 DEF CycleOK
<1>3. [c EXCEPT !.status = "active"] = x
  <2> DEFINE y == [objectives |-> c.objectives, bases |-> c.bases, status |-> c.status,
                   unresolved |-> c.unresolved, reviews |-> c.reviews]
  <2>1. c = y
    BY <1>1 DEF CycleOK
  <2>2. [y EXCEPT !.status = "active"] = x
    OBVIOUS
  <2> HIDE DEF y, x
  <2> QED
    BY <2>1, <2>2
<1>4. cycle' = [cycle EXCEPT ![n] = x]
  BY <1>3
<1> HIDE DEF x
<1> QED
  BY <1>2, <1>4, CycleReplaced

\* A review is about evidence that exists: the basis of its objective, and what the
\* operator refers to.
LEMMA BasisKnown ==
  ASSUME CyclesOK, NEW n \in DOMAIN cycle, NEW i
  PROVE  Known(ObjectiveBasis(n, i))
BY DEF ObjectiveBasis, CyclesOK, CycleOK, Known, Basis

LEMMA ReviewStep ==
  ASSUME CyclesOK, RestOK, NEW i, NEW completed, NEW claims, NEW srcs,
         ReviewObjective(i, completed, claims, srcs)
  PROVE  CyclesOK'
<1> DEFINE n == Len(cycle)
           c == cycle[n]
           review == [index |-> i, objective |-> c.objectives[i],
                completed |-> completed, claims |-> claims, sources |-> srcs,
                on |-> WithEvidence(ObjectiveBasis(n, i)), reference |-> Reference(claims, srcs)]
           x == [objectives |-> c.objectives, bases |-> c.bases, status |-> c.status,
                 unresolved |-> c.unresolved, reviews |-> Append(c.reviews, review)]
<1>0. n \in DOMAIN cycle
  BY SeqFacts DEF CyclesOK
<1>1. CycleOK(c)
  BY <1>0 DEF CyclesOK
<1>2. /\ review.objective = c.objectives[review.index]
      /\ review.index \in DOMAIN c.objectives
      /\ Known(review) /\ Known(review.on.basis)
  <2>1. Known(ObjectiveBasis(n, i))
    BY <1>0, BasisKnown
  <2>2. claims \subseteq Claim /\ srcs \subseteq Source /\ i \in DOMAIN c.objectives
    BY DEF ReviewObjective, RestOK, Claims
  <2>3. review.on.basis = ObjectiveBasis(n, i) /\ review.claims = claims /\ review.sources = srcs
        /\ review.index = i /\ review.objective = c.objectives[i]
    BY DEF WithEvidence
  <2> QED
    BY <2>1, <2>2, <2>3 DEF Known
<1>3. cycle' = [cycle EXCEPT ![n].reviews = Append(@, review)]
  BY DEF ReviewObjective
<1> HIDE DEF review
<1>4. IsSeq(Append(c.reviews, review)) /\ ToSet(Append(c.reviews, review)) = ToSet(c.reviews) \cup {review}
  BY <1>1, AppendFacts DEF CycleOK
<1>5. CycleOK(x)
  <2>1. /\ x.objectives = c.objectives /\ x.bases = c.bases /\ x.status = c.status
        /\ x.unresolved = c.unresolved /\ x.reviews = Append(c.reviews, review)
        /\ x = [objectives |-> x.objectives, bases |-> x.bases, status |-> x.status,
                unresolved |-> x.unresolved, reviews |-> x.reviews]
    OBVIOUS
  <2> HIDE DEF x
  <2> QED
    BY <1>1, <1>2, <1>4, <2>1 DEF CycleOK
<1>6. [c EXCEPT !.reviews = Append(@, review)] = x
  <2> DEFINE y == [objectives |-> c.objectives, bases |-> c.bases, status |-> c.status,
                   unresolved |-> c.unresolved, reviews |-> c.reviews]
             a == Append(c.reviews, review)
  <2>1. c = y
    BY <1>1 DEF CycleOK
  <2>2. [y EXCEPT !.reviews = a] = x
    OBVIOUS
  <2>3. [c EXCEPT !.reviews = Append(@, review)] = [c EXCEPT !.reviews = a]
    OBVIOUS
  <2> HIDE DEF y, x, a
  <2> QED
    BY <2>1, <2>2, <2>3
<1>7. cycle' = [cycle EXCEPT ![n] = x]
  BY <1>3, <1>6
<1> HIDE DEF x, n
<1> QED
  BY <1>0, <1>5, <1>7, CycleReplaced

\* A new cycle has the objectives of the plan, each of them once.
LEMMA PlanStep ==
  ASSUME CyclesOK, RestOK, PlanNext
  PROVE  CyclesOK'
<1> DEFINE plan == Plan
           x == [objectives |-> [i \in DOMAIN plan |-> plan[i].objective],
                bases |-> [i \in DOMAIN plan |-> WithEvidence(plan[i].basis)],
                status |-> "planned", unresolved |-> {}, reviews |-> <<>>]
<1>1. plan # <<>> /\ cycle' = Append(cycle, x)
  BY DEF PlanNext
<1>2. Shaped /\ sources \subseteq Source
  BY SoundMeans DEF Sound, RestOK
<1>3. PICK n \in 1..MaxObjectives : DOMAIN plan = 1..n
  BY <1>1, <1>2, PlanFacts
<1>4. /\ \A i \in DOMAIN plan : Known(plan[i].basis)
      /\ \A i, j \in DOMAIN plan : plan[i].objective = plan[j].objective => i = j
  BY <1>1, <1>2, PlanFacts
<1> HIDE DEF plan
<1>5. n \in Nat \ {0}
  BY Bounds
<1>6. CycleOK(x)
  <2>1. x.objectives = [i \in 1..n |-> plan[i].objective] /\ IsSeq(x.objectives) /\ Len(x.objectives) = n
    BY <1>3, <1>5, SeqMade
  <2>2. x.bases = [i \in 1..n |-> WithEvidence(plan[i].basis)] /\ IsSeq(x.bases)
    BY <1>3, <1>5, SeqMade
  <2>3. /\ x.status = "planned" /\ x.unresolved = {} /\ x.reviews = <<>>
        /\ x = [objectives |-> x.objectives, bases |-> x.bases, status |-> x.status,
                unresolved |-> x.unresolved, reviews |-> x.reviews]
    OBVIOUS
  <2>4. IsSeq(x.reviews) /\ ToSet(x.reviews) = {}
    BY <2>3 DEF IsSeq, ToSet
  <2>5. \A i \in 1..n : x.bases[i].basis = plan[i].basis
    BY <2>2 DEF WithEvidence
  <2> HIDE DEF x
  <2>6. IsInjective(x.objectives) /\ DOMAIN x.bases = DOMAIN x.objectives
    BY <1>3, <1>4, <2>1, <2>2 DEF IsInjective
  <2>7. \A i \in DOMAIN x.bases : Known(x.bases[i].basis)
    BY <1>3, <1>4, <2>2, <2>5
  <2> QED
    BY <1>3, <2>1, <2>2, <2>3, <2>4, <2>6, <2>7 DEF CycleOK
<1> HIDE DEF x
<1>7. /\ IsSeq(Append(cycle, x)) /\ DOMAIN Append(cycle, x) = 1..(Len(cycle) + 1)
      /\ \A i \in DOMAIN cycle : Append(cycle, x)[i] = cycle[i]
      /\ Append(cycle, x)[Len(cycle) + 1] = x
  BY AppendFacts DEF CyclesOK
<1>8. Len(cycle) \in Nat /\ DOMAIN cycle = 1..Len(cycle)
  BY SeqFacts DEF CyclesOK
<1>9. \A i \in DOMAIN cycle' : CycleOK(cycle'[i])
  <2>1. \A i \in 1..(Len(cycle) + 1) : i \in 1..Len(cycle) \/ i = Len(cycle) + 1
    BY <1>8
  <2> QED
    BY <1>1, <1>6, <1>7, <1>8, <2>1 DEF CyclesOK
<1>10. ASSUME NEW i \in DOMAIN cycle' PROVE CycleOK(cycle[i])'
  BY <1>9 DEF CycleOK, Finished, Known
<1>11. IsSeq(cycle)'
  BY <1>1, <1>7 DEF IsSeq, ToSet
<1>12. cycle' # <<>>
  BY <1>1, <1>7, <1>8
<1> QED
  BY <1>10, <1>11, <1>12 DEF CyclesOK

\* What leaves the cycles alone keeps their invariant.
LEMMA CyclesKept ==
  ASSUME CyclesOK, UNCHANGED cycle
  PROVE  CyclesOK'
<1>1. cycle' = cycle
  OBVIOUS
<1>2. ASSUME NEW i \in DOMAIN cycle' PROVE CycleOK(cycle[i])'
  <2>1. CycleOK(cycle[i])
    BY <1>1 DEF CyclesOK
  <2> QED
    BY <1>1, <2>1 DEF CycleOK, Finished, Known
<1>3. IsSeq(cycle)' /\ cycle' # <<>>
  BY <1>1 DEF CyclesOK, IsSeq, ToSet
<1> QED
  BY <1>2, <1>3 DEF CyclesOK

\* The evidence keeps its shape.
LEMMA ClaimsKept ==
  ASSUME RestOK, [Next]_vars
  PROVE  /\ claim' \in [Claim -> [version : Nat, standing : Standing, active : BOOLEAN]]
         /\ relation' \in [Relation -> [revision : Nat, active : BOOLEAN]]
         /\ attempt' \in BOOLEAN
BY VersionedKept DEF Versioned, RestOK

\* A claim the assessment cites is not retired, so it goes on citing active ones.
LEMMA AssessmentKept ==
  ASSUME RestOK, [Next]_vars
  PROVE  assessment'.claims \subseteq Claims'
<1>1. claim \in [Claim -> [version : Nat, standing : Standing, active : BOOLEAN]]
      /\ assessment.claims \subseteq Claims
  BY DEF RestOK
<1>2. ASSUME NEW c \in Claim, NEW standing, NEW v,
             claim' = [claim EXCEPT ![c] = [version |-> v, standing |-> standing, active |-> TRUE]],
             assessment' = assessment
      PROVE  assessment'.claims \subseteq Claims'
  BY <1>1, <1>2 DEF Claims
<1>3. ASSUME NEW c \in Claim, Extract(c) PROVE assessment'.claims \subseteq Claims'
  BY <1>2, <1>3 DEF Extract
<1>4. ASSUME NEW c \in Claim, NEW standing, UpdateClaim(c, standing)
      PROVE  assessment'.claims \subseteq Claims'
  BY <1>2, <1>4 DEF UpdateClaim
<1>5. ASSUME NEW c \in Claim, Retire(c) PROVE assessment'.claims \subseteq Claims'
  BY <1>1, <1>5 DEF Retire, Claims
<1>6. ASSUME NEW standing, NEW claims, Assess(standing, claims)
      PROVE  assessment'.claims \subseteq Claims'
  BY <1>6 DEF Assess, Claims
<1>7. CASE UNCHANGED <<assessment, claim>>
  BY <1>1, <1>7 DEF Claims
<1> QED
  BY <1>3, <1>4, <1>5, <1>6, <1>7
     DEF Next, vars, evidence, PlanNext, Start, RecordOutcome, RecoverCycle,
         ReviewObjective, ChangeStatus, Decide, Save, Relate

\* Statuses follow one another, one decision is made, and known sources are saved.
LEMMA StatusKept ==
  ASSUME RestOK, [Next]_vars
  PROVE  status' \in DOMAIN Transitions /\ Cardinality(decision') <= 1 /\ sources' \subseteq Source
<1>1. \A x : Cardinality({x}) = 1
  BY FS_Singleton
<1>2. Cardinality(decision') <= 1
  <2>1. CASE decision' = decision
    BY <2>1 DEF RestOK
  <2>2. CASE decision' # decision
    <3>1. \E x : decision' = {x}
      BY <2>2, DecisionOnce
    <3> QED
      BY <1>1, <3>1
  <2> QED
    BY <2>1, <2>2
<1>3. sources' \subseteq Source
  BY DEF RestOK, Next, vars, evidence, PlanNext, Start, RecordOutcome, RecoverCycle,
     ReviewObjective, ChangeStatus, Decide, Save, Extract, Retire, UpdateClaim, Assess, Relate
<1>4. status' \in DOMAIN Transitions
  <2>1. ASSUME NEW new, ChangeStatus(new) PROVE status' \in DOMAIN Transitions
    BY <2>1 DEF ChangeStatus, Transitions, RestOK
  <2>2. "paused" \in DOMAIN Transitions /\ "concluded" \in DOMAIN Transitions
    BY DEF Transitions
  <2>3. CASE status' \in {status, "paused", "concluded"}
    BY <2>2, <2>3 DEF RestOK
  <2> QED
    BY <2>1, <2>3 DEF Next, vars, evidence, PlanNext, Start, RecordOutcome, RecoverCycle,
       ReviewObjective, Decide, Save, Extract, Retire, UpdateClaim, Assess, Relate, More
<1> QED
  BY <1>2, <1>3, <1>4

\* The invariant is inductive.
LEMMA CyclesStep == CyclesOK /\ RestOK /\ [Next]_vars => CyclesOK'
<1> SUFFICES ASSUME CyclesOK, RestOK, [Next]_vars PROVE CyclesOK'
  OBVIOUS
<1>1. CASE PlanNext
  BY <1>1, PlanStep
<1>2. ASSUME NEW n \in DOMAIN cycle, NEW tracked, Start(n, tracked) PROVE CyclesOK'
  BY <1>2, StatusStep DEF Start
<1>3. ASSUME NEW n \in DOMAIN cycle, NEW outcome \in Outcomes,
             NEW unresolved \in kSubset(outcome[2], ToSet(cycle[n].objectives)),
             RecordOutcome(n, outcome[1], unresolved)
      PROVE  CyclesOK'
  <2>1. outcome[1] \in Finished
    BY ReviewAssumption
  <2>2. unresolved \in SUBSET ToSet(cycle[n].objectives)
    BY DEF kSubset
  <2> QED
    BY <1>3, <2>1, <2>2, OutcomeStep DEF RecordOutcome
<1>4. ASSUME NEW n \in DOMAIN cycle, RecoverCycle(n) PROVE CyclesOK'
  <2>1. "failed" \in Finished
    BY DEF Finished
  <2> QED
    BY <1>4, <2>1, OutcomeStep DEF RecoverCycle
<1>5. ASSUME NEW i, NEW completed, NEW claims, NEW srcs,
             ReviewObjective(i, completed, claims, srcs)
      PROVE  CyclesOK'
  BY <1>5, ReviewStep
<1>6. CASE UNCHANGED cycle
  BY <1>6, CyclesKept
<1> QED
  BY <1>1, <1>2, <1>3, <1>4, <1>5, <1>6
     DEF Next, vars, ChangeStatus, Decide, Save, Extract, Retire, UpdateClaim, Assess, Relate, More

LEMMA SoundStep == Sound /\ [Next]_vars => Sound'
<1> SUFFICES ASSUME Sound, [Next]_vars PROVE Sound'
  OBVIOUS
<1>1. CyclesOK /\ RestOK
  BY SoundMeans
<1>2. CyclesOK'
  BY <1>1, CyclesStep
<1>3. RestOK'
  BY <1>1, ClaimsKept, AssessmentKept, StatusKept DEF RestOK, Standing, Transitions
<1>4. (CyclesOK /\ RestOK)' => Sound'
  BY SoundMeans, PTL
<1> QED
  BY <1>2, <1>3, <1>4

LEMMA SoundInit == Init => Sound
<1> SUFFICES ASSUME Init PROVE Sound
  OBVIOUS
<1> DEFINE o == IF Question = <<>> THEN <<"define">> ELSE <<"question", Question[1]>>
           x == [objectives |-> <<o>>, bases |-> <<>>, status |-> "planned",
                 unresolved |-> {}, reviews |-> <<>>]
<1>1. cycle = <<x>>
  BY DEF Init
<1>2. CycleOK(x)
  <2>1. /\ x.objectives = <<o>> /\ x.bases = <<>> /\ x.status = "planned"
        /\ x.unresolved = {} /\ x.reviews = <<>>
        /\ x = [objectives |-> x.objectives, bases |-> x.bases, status |-> x.status,
                unresolved |-> x.unresolved, reviews |-> x.reviews]
    OBVIOUS
  <2> HIDE DEF x, o
  <2>2. IsSeq(<<o>>) /\ Len(<<o>>) = 1 /\ IsInjective(<<o>>)
    <3>1. <<o>> \in Seq({o}) /\ DOMAIN <<o>> = 1..1 /\ <<o>>[1] = o
      OBVIOUS
    <3>2. ToSet(<<o>>) = {o}
      BY <3>1 DEF ToSet
    <3> QED
      BY <3>1, <3>2 DEF IsSeq, IsInjective
  <2>3. IsSeq(<<>>) /\ DOMAIN <<>> = {} /\ ToSet(<<>>) = {}
    BY DEF IsSeq, ToSet
  <2>4. 1 \in 1..MaxObjectives
    BY Bounds
  <2> QED
    BY <2>1, <2>2, <2>3, <2>4 DEF CycleOK
<1> HIDE DEF x
<1>3. CyclesOK
  <2>1. IsSeq(<<x>>) /\ <<x>> # <<>> /\ \A n \in DOMAIN <<x>> : <<x>>[n] = x
    BY DEF IsSeq, ToSet
  <2> QED
    BY <1>1, <1>2, <2>1 DEF CyclesOK
<1>4. RestOK
  <2>1. "unverified" \in Standing /\ FALSE \in BOOLEAN /\ 0 \in Nat /\ "active" \in DOMAIN Transitions
    BY DEF Standing, Transitions
  <2>2. Cardinality({}) = 0 /\ Saved \subseteq Source
    BY FS_EmptySet, Ids
  <2>3. /\ claim \in [Claim -> [version : Nat, standing : Standing, active : BOOLEAN]]
        /\ relation \in [Relation -> [revision : Nat, active : BOOLEAN]]
    BY <2>1 DEF Init
  <2>4. assessment.claims = {}
    BY DEF Init, Unassessed
  <2>5. attempt \in BOOLEAN /\ status \in DOMAIN Transitions /\ decision = {} /\ sources = Saved
    BY <2>1 DEF Init
  <2> QED
    BY <2>2, <2>3, <2>4, <2>5 DEF RestOK
<1> QED
  BY <1>3, <1>4, SoundMeans

LEMMA AlwaysSound == Spec => []Sound
BY SoundInit, SoundStep, PTL DEF Spec

\* What the planner carries over from a finished cycle is open in the report: in a
\* cycle that was not completed every objective is, and in a completed one those
\* left open and those reviewed.
LEMMA OutstandingShown == ASSUME Sound PROVE NothingHidden
<1> SUFFICES ASSUME NEW e \in Outstanding, ~Resolved(TextOf(e)) PROVE TextOf(e) \in OpenObjectives
  BY DEF NothingHidden
<1> DEFINE n == e[1]
<1>1. e \in Reopened
  BY DEF Outstanding
<1>2. n \in DOMAIN cycle /\ e[2] \in DOMAIN cycle[n].objectives
  BY <1>1 DEF Reopened, Entries
<1>3. CycleOK(cycle[n])
  BY <1>2, SoundMeans DEF CyclesOK
<1>4. TextOf(e) \in OpenIn(n)
  <2>1. TextOf(e) \in ToSet(cycle[n].objectives)
    BY <1>2 DEF TextOf, ToSet
  <2>2. CASE cycle[n].status # "completed"
    BY <2>1, <2>2 DEF OpenIn
  <2>3. CASE cycle[n].status = "completed" /\ TextOf(e) \in Unresolved(n)
    BY <2>3 DEF OpenIn, Unresolved
  <2>4. ASSUME cycle[n].status = "completed", NEW review \in Latest(n), review.index = e[2]
        PROVE  TextOf(e) \in OpenIn(n)
    <3>1. review \in ToSet(cycle[n].reviews)
      BY <2>4 DEF Latest, ToSet
    <3>2. review.objective = TextOf(e)
      BY <1>3, <2>4, <3>1 DEF CycleOK, TextOf
    <3> QED
      BY <2>4, <3>1, <3>2 DEF OpenIn
  <2> QED
    BY <1>1, <2>2, <2>3, <2>4 DEF Reopened
<1> QED
  BY <1>2, <1>4 DEF OpenObjectives

\* Cycles and what reviews refer to keep their shape: a plan holds as many
\* objectives as fit, none of them twice, and a review is about its objective.
THEOREM ReviewTypeOK == Spec => []TypeOK
BY AlwaysSound, PTL DEF Sound

\* While cycles may be planned, no need of the evidence is dropped: whatever the
\* planner orders, replaces, carries over or leaves to the assessment.
THEOREM GapsStayCovered == Spec => []GapsCovered
<1>1. Sound => GapsCovered
  BY Covering DEF Sound, TypeOK
<1> QED
  BY <1>1, AlwaysSound, PTL

\* The readiness report hides nothing that the planner would carry over.
THEOREM NothingIsHidden == Spec => []NothingHidden
BY OutstandingShown, AlwaysSound, PTL

-----------------------------------------------------------------------------
(* What relationships connect.                                             *)

\* One round of following relationships.
Grow(X, R) == X \cup UNION {r \in R : r \cap X # {}}
\* The sources that relationships connect with S.
Reach(S, R) ==
    LET reach[n \in 0..Cardinality(Source)] ==
            IF n = 0 THEN S
            ELSE reach[n - 1] \cup
                 UNION {r \in R : r \cap reach[n - 1] # {}}
    IN  reach[Cardinality(Source)]
\* The sources reached in each of m rounds.
Rounds(f, S, R, m) == f = [n \in 0..m |-> IF n = 0 THEN S ELSE Grow(f[n - 1], R)]

\* Rounds can be counted up to any number, by induction.
LEMMA RoundsExist ==
  ASSUME NEW S, NEW R, NEW m \in Nat
  PROVE  \E f : Rounds(f, S, R, m)
<1> DEFINE T == {k \in Nat : \E f : Rounds(f, S, R, k)}
<1>1. 0 \in T
  <2> DEFINE f == [n \in 0..0 |-> S]
  <2>1. Rounds(f, S, R, 0)
    BY DEF Rounds
  <2> QED
    BY <2>1
<1>2. ASSUME NEW k \in T PROVE k + 1 \in T
  <2>1. PICK f : Rounds(f, S, R, k)
    OBVIOUS
  <2> DEFINE g == [n \in 0..(k + 1) |-> IF n = k + 1 THEN Grow(f[k], R) ELSE f[n]]
             h == [n \in 0..(k + 1) |-> IF n = 0 THEN S ELSE Grow(g[n - 1], R)]
  <2>2. ASSUME NEW n \in 0..(k + 1) PROVE g[n] = h[n]
    <3>1. CASE n = k + 1
      <4>1. g[n - 1] = f[k] /\ n # 0
        BY <3>1
      <4> QED
        BY <3>1, <4>1
    <3>2. CASE n = 0
      BY <2>1, <3>2 DEF Rounds
    <3>3. CASE n \in 1..k
      <4>1. g[n - 1] = f[n - 1] /\ g[n] = f[n]
        BY <3>3
      <4>2. f[n] = Grow(f[n - 1], R)
        BY <2>1, <3>3 DEF Rounds
      <4> QED
        BY <3>3, <4>1, <4>2
    <3> QED
      BY <3>1, <3>2, <3>3
  <2>3. g = h
    BY <2>2
  <2>4. Rounds(g, S, R, k + 1)
    BY <2>3 DEF Rounds
  <2> QED
    BY <2>4
<1> HIDE DEF T
<1>3. T = Nat
  <2>1. T \in SUBSET Nat
    BY DEF T
  <2> QED
    BY <1>1, <1>2, <2>1, Induction
<1> QED
  BY <1>3 DEF T

\* Those reached are those of the last round.
LEMMA ReachIs ==
  ASSUME NEW S, NEW R
  PROVE  \E f : Rounds(f, S, R, Cardinality(Source)) /\ Reach(S, R) = f[Cardinality(Source)]
<1> DEFINE N == Cardinality(Source)
           f == CHOOSE f : f = [n \in 0..N |-> IF n = 0 THEN S
                      ELSE f[n - 1] \cup UNION {r \in R : r \cap f[n - 1] # {}}]
<1>1. N \in Nat
  <2>1. IsFiniteSet(Source)
    BY Ids, FS_Subset
  <2> QED
    BY <2>1, FS_CardinalityType
<1>2. \E g : Rounds(g, S, R, N)
  BY <1>1, RoundsExist
<1>3. Rounds(f, S, R, N)
  BY <1>2 DEF Rounds, Grow
<1>4. Reach(S, R) = f[N]
  BY DEF Reach
<1> QED
  BY <1>3, <1>4

\* No relationship leaves T.
ClosedUnder(T, R) == \A r \in R : r \cap T # {} => r \subseteq T

\* Following relationships as often as there are sources reaches the least set
\* that no relationship leaves.
LEMMA ReachLeast ==
  ASSUME NEW S \in SUBSET Source, NEW R \in SUBSET (SUBSET Source)
  PROVE  /\ S \subseteq Reach(S, R) /\ Reach(S, R) \subseteq Source
         /\ ClosedUnder(Reach(S, R), R)
         /\ \A T : S \subseteq T /\ ClosedUnder(T, R) => Reach(S, R) \subseteq T
<1> DEFINE N == Cardinality(Source)
<1>1. IsFiniteSet(Source) /\ N \in Nat
  <2>1. IsFiniteSet(Source)
    BY Ids, FS_Subset
  <2> QED
    BY <2>1, FS_CardinalityType
<1>2. PICK f : Rounds(f, S, R, N) /\ Reach(S, R) = f[N]
  BY ReachIs
<1>3. f[0] = S /\ \A n \in 0..N : n + 1 <= N => f[n + 1] = Grow(f[n], R)
  <2>1. 0 \in 0..N
    BY <1>1
  <2>2. ASSUME NEW n \in 0..N, n + 1 <= N PROVE f[n + 1] = Grow(f[n], R)
    <3>1. n + 1 \in 0..N /\ n + 1 # 0 /\ (n + 1) - 1 = n
      BY <1>1, <2>2
    <3> QED
      BY <1>2, <3>1 DEF Rounds
  <2> QED
    BY <1>2, <2>1, <2>2 DEF Rounds
<1> DEFINE P(n) == /\ S \subseteq f[n] /\ f[n] \subseteq Source
                   /\ ClosedUnder(f[n], R) \/ Cardinality(f[n]) >= n
           A == {n \in Nat : n <= N => P(n)}
<1>4. 0 \in A
  <2>1. IsFiniteSet(f[0])
    BY <1>1, <1>3, FS_Subset
  <2>2. Cardinality(f[0]) \in Nat
    BY <2>1, FS_CardinalityType
  <2> QED
    BY <1>3, <2>2
<1>5. ASSUME NEW n \in A, n + 1 <= N PROVE P(n + 1)
  <2>1. n \in Nat /\ n \in 0..N /\ P(n)
    BY <1>1, <1>5
  <2>2. f[n + 1] = Grow(f[n], R)
    BY <1>3, <1>5, <2>1
  <2>3. f[n] \subseteq f[n + 1] /\ f[n + 1] \subseteq Source
    BY <2>1, <2>2 DEF Grow
  <2>4. CASE ClosedUnder(f[n], R)
    <3>1. f[n + 1] = f[n]
      BY <2>2, <2>4 DEF Grow, ClosedUnder
    <3> QED
      BY <2>1, <2>4, <3>1
  <2>5. CASE ~ClosedUnder(f[n], R)
    <3>1. f[n + 1] # f[n]
      BY <2>2, <2>5 DEF Grow, ClosedUnder
    <3>2. IsFiniteSet(f[n + 1]) /\ IsFiniteSet(f[n])
      BY <1>1, <2>1, <2>3, FS_Subset
    <3>3. Cardinality(f[n]) <= Cardinality(f[n + 1]) /\ Cardinality(f[n]) # Cardinality(f[n + 1])
      BY <2>3, <3>1, <3>2, FS_Subset
    <3>4. Cardinality(f[n]) \in Nat /\ Cardinality(f[n + 1]) \in Nat
      BY <3>2, FS_CardinalityType
    <3> QED
      BY <2>1, <2>3, <2>5, <3>3, <3>4
  <2> QED
    BY <2>4, <2>5
<1>6. A = Nat
  <2>1. \A n \in A : n + 1 \in A
    <3> SUFFICES ASSUME NEW n \in A PROVE n + 1 \in A
      OBVIOUS
    <3>1. n \in Nat
      OBVIOUS
    <3>2. n + 1 <= N => P(n + 1)
      BY <1>5
    <3> QED
      BY <3>1, <3>2
  <2>2. A \in SUBSET Nat
    OBVIOUS
  <2> HIDE DEF A
  <2> QED
    BY <1>4, <2>1, <2>2, Induction
<1>7. P(N)
  BY <1>1, <1>6
<1>8. ClosedUnder(f[N], R)
  <2>1. CASE Cardinality(f[N]) >= N
    <3>1. IsFiniteSet(f[N]) /\ Cardinality(f[N]) <= N
      BY <1>1, <1>7, FS_Subset
    <3>2. Cardinality(f[N]) \in Nat
      BY <3>1, FS_CardinalityType
    <3>3. Cardinality(f[N]) = N
      BY <1>1, <2>1, <3>1, <3>2
    <3>4. f[N] = Source
      BY <1>1, <1>7, <3>3, FS_Subset
    <3> QED
      BY <3>4 DEF ClosedUnder
  <2> QED
    BY <1>7, <2>1
<1>9. ASSUME NEW T, S \subseteq T, ClosedUnder(T, R) PROVE f[N] \subseteq T
  <2> DEFINE B == {n \in Nat : n <= N => f[n] \subseteq T}
  <2>1. 0 \in B
    BY <1>3, <1>9
  <2>2. ASSUME NEW n \in B PROVE n + 1 \in B
    <3>1. n \in Nat /\ n + 1 \in Nat
      OBVIOUS
    <3>2. ASSUME n + 1 <= N PROVE f[n + 1] \subseteq T
      <4>1. n \in 0..N /\ n <= N
        BY <1>1, <3>1, <3>2
      <4>2. f[n + 1] = Grow(f[n], R) /\ f[n] \subseteq T
        BY <1>3, <3>2, <4>1
      <4> QED
        BY <1>9, <4>2 DEF Grow, ClosedUnder
    <3> QED
      BY <3>1, <3>2
  <2>3. B = Nat
    <3>1. B \in SUBSET Nat
      OBVIOUS
    <3> HIDE DEF B
    <3> QED
      BY <2>1, <2>2, <3>1, Induction
  <2> QED
    BY <1>1, <2>3
<1> QED
  BY <1>2, <1>7, <1>8, <1>9

\* A relationship that does not touch what is reached adds nothing to it.
LEMMA ReachWithout ==
  ASSUME NEW S \in SUBSET Source, NEW R \in SUBSET (SUBSET Source), NEW r
  PROVE  /\ r \cap Reach(S, R) = {} <=> r \cap Reach(S, R \ {r}) = {}
         /\ r \cap Reach(S, R) = {} => Reach(S, R) = Reach(S, R \ {r})
<1> DEFINE B == R \ {r}
<1>1. B \in SUBSET (SUBSET Source)
  OBVIOUS
<1> HIDE DEF B
<1>2. ClosedUnder(Reach(S, R), B)
  BY ReachLeast DEF B, ClosedUnder
<1>3. Reach(S, B) \subseteq Reach(S, R)
  BY <1>1, <1>2, ReachLeast
<1>4. ASSUME r \cap Reach(S, B) = {} PROVE Reach(S, R) \subseteq Reach(S, B)
  <2>1. S \subseteq Reach(S, B) /\ ClosedUnder(Reach(S, B), B)
    BY <1>1, ReachLeast
  <2>2. ClosedUnder(Reach(S, B), R)
    BY <1>4, <2>1 DEF ClosedUnder, B
  <2> QED
    BY <2>1, <2>2, ReachLeast
<1>5. Reach(S, B) = Reach(S, R) \/ r \cap Reach(S, B) # {}
  BY <1>3, <1>4
<1> QED
  BY <1>3, <1>5 DEF B

\* Sources joined with either of two sets are those reached from one of them.
LEMMA JoinedIs ==
  ASSUME NEW A \in SUBSET Source, NEW B \in SUBSET Source, NEW R \in SUBSET (SUBSET Source)
  PROVE  Joined(A \cup B, R) = Reach(A, R) \cup Reach(B, R)
<1> DEFINE U == Reach(A, R) \cup Reach(B, R)
<1>1. /\ A \subseteq Reach(A, R) /\ B \subseteq Reach(B, R)
      /\ Reach(A, R) \subseteq Source /\ Reach(B, R) \subseteq Source
      /\ ClosedUnder(Reach(A, R), R) /\ ClosedUnder(Reach(B, R), R)
  BY ReachLeast
<1>2. U \in SUBSET Source /\ A \cup B \subseteq U /\ \A r \in R : r \cap U # {} => r \subseteq U
  BY <1>1 DEF ClosedUnder
<1>3. ASSUME NEW T \in SUBSET Source, A \cup B \subseteq T,
             \A r \in R : r \cap T # {} => r \subseteq T
      PROVE  U \subseteq T
  <2>1. ClosedUnder(T, R) /\ A \subseteq T /\ B \subseteq T
    BY <1>3 DEF ClosedUnder
  <2> QED
    BY <2>1, ReachLeast
<1> HIDE DEF U
<1>4. Joined(A \cup B, R) \subseteq U
  BY <1>2 DEF Joined
<1>5. U \subseteq Joined(A \cup B, R)
  BY <1>2, <1>3 DEF Joined
<1> QED
  BY <1>4, <1>5 DEF U

-----------------------------------------------------------------------------
(* Reviews and their evidence.                                             *)

\* A basis that rests on all relationships; the sources a basis names, with those of
\* its claims.
Whole(basis) == basis.reason \in Broad \cup {"source_dependence_unknown"}
CitedBy(basis) == basis.sources \cup UNION {Cites[c] : c \in {d \in Claims : d \in basis.claims}}

\* What the evidence of a basis is, of claims and of relationships.
LEMMA RelatedIs == ASSUME NEW S PROVE Related(S) = Reach(S, Relations)
BY DEF Related, Reach

LEMMA CitedIn == ASSUME NEW basis, Known(basis) PROVE CitedBy(basis) \in SUBSET Source
<1>1. \A c \in Claim : Cites[c] \subseteq Source
  BY Ids
<1> QED
  BY <1>1 DEF CitedBy, Known, Claims

LEMMA EvidenceIs ==
  ASSUME NEW CONSTANT basis
  PROVE  /\ Evidence(basis).claims =
                {<<c, claim[c]>> : c \in {d \in Claims : basis.reason \in Broad \/ d \in basis.claims}}
         /\ Evidence(basis).relations =
                {Of(q) : q \in {p \in Relations :
                     Whole(basis) \/ p \cap Reach(CitedBy(basis), Relations) # {}}}
<1> DEFINE broad  == basis.reason \in Broad
           chosen == {c \in Claims : broad \/ c \in basis.claims}
           cited  == basis.sources \cup UNION {Cites[c] : c \in chosen}
           whole  == broad \/ basis.reason = "source_dependence_unknown"
<1>1. Evidence(basis).claims = {<<c, claim[c]>> : c \in chosen}
  BY DEF Evidence
<1>2. Evidence(basis).relations = {Of(r) : r \in {q \in Relations :
                                     whole \/ q \cap Related(cited) # {}}}
  BY DEF Evidence
<1>3. whole <=> Whole(basis)
  BY DEF Whole
<1>4. ~whole => cited = CitedBy(basis)
  BY DEF CitedBy
<1>5. Related(cited) = Reach(cited, Relations)
  BY RelatedIs
<1> HIDE DEF whole, cited
<1>6. {q \in Relations : whole \/ q \cap Related(cited) # {}}
      = {p \in Relations : Whole(basis) \/ p \cap Reach(CitedBy(basis), Relations) # {}}
  BY <1>3, <1>4, <1>5
<1> QED
  BY <1>1, <1>2, <1>6

LEMMA EvidenceNext ==
  ASSUME NEW CONSTANT basis
  PROVE  /\ Evidence(basis)'.claims =
                {<<c, claim'[c]>> : c \in {d \in Claims' : basis.reason \in Broad \/ d \in basis.claims}}
         /\ Evidence(basis)'.relations =
                {<<q, relation'[q]>> : q \in {p \in Relations' :
                     Whole(basis) \/ p \cap Reach(CitedBy(basis)', Relations') # {}}}
<1>1. /\ Evidence(basis).claims =
                {<<c, claim[c]>> : c \in {d \in Claims : basis.reason \in Broad \/ d \in basis.claims}}
      /\ Evidence(basis).relations =
                {Of(q) : q \in {p \in Relations :
                     Whole(basis) \/ p \cap Reach(CitedBy(basis), Relations) # {}}}
  BY EvidenceIs
<1>2. /\ (Evidence(basis).claims =
                {<<c, claim[c]>> : c \in {d \in Claims : basis.reason \in Broad \/ d \in basis.claims}})'
      /\ (Evidence(basis).relations =
                {Of(q) : q \in {p \in Relations :
                     Whole(basis) \/ p \cap Reach(CitedBy(basis), Relations) # {}}})'
  BY <1>1, PTL
<1> QED
  BY <1>2 DEF Of

\* A claim that changes changes the evidence of every basis that names it.
LEMMA ClaimSeen ==
  ASSUME NEW basis, NEW c \in basis.claims \cap Claim, claim'[c] # claim[c],
         claim[c].active \/ claim'[c].active
  PROVE  Evidence(basis)' # Evidence(basis)
<1> DEFINE E == Evidence(basis).claims
           F == {<<d, claim'[d]>> : d \in {e \in Claims' : basis.reason \in Broad \/ e \in basis.claims}}
<1>1. E = {<<d, claim[d]>> : d \in {e \in Claims : basis.reason \in Broad \/ e \in basis.claims}}
  BY EvidenceIs
<1>2. Evidence(basis)'.claims = F
  BY EvidenceNext
<1>3. CASE claim[c].active
  <2>1. <<c, claim[c]>> \in E
    BY <1>1, <1>3 DEF Claims
  <2>2. <<c, claim[c]>> \notin F
    OBVIOUS
  <2> QED
    BY <1>2, <2>1, <2>2
<1>4. CASE claim'[c].active
  <2>1. <<c, claim'[c]>> \in F
    BY <1>4 DEF Claims
  <2>2. <<c, claim'[c]>> \notin E
    BY <1>1
  <2> QED
    BY <1>2, <2>1, <2>2
<1> QED
  BY <1>3, <1>4

\* One relationship is declared, corrected or retracted; it is connected, before or
\* after, with what a basis names.
Moves(r) == /\ UNCHANGED <<sources, claim, assessment>>
            /\ relation' = [relation EXCEPT ![r] = relation'[r]]
            /\ relation'[r] # relation[r]
            /\ relation[r].active \/ relation'[r].active

Touches(r, basis) == r \cap Reach(CitedBy(basis), Relations \cup Relations') # {}

\* The evidence of a basis changes with a relationship that is connected with it, or
\* with any where it rests on all of them, and with no other.
LEMMA RelationSeen ==
  ASSUME RestOK, NEW CONSTANT r \in Relation, Moves(r), NEW CONSTANT basis, Known(basis)
  PROVE  /\ Whole(basis) \/ Touches(r, basis) => Evidence(basis)' # Evidence(basis)
         /\ ~Whole(basis) /\ ~Touches(r, basis) => Evidence(basis)' = Evidence(basis)
<1> DEFINE A == CitedBy(basis)
           R == Relations
           Q == Relations'
<1>1. /\ DOMAIN relation = Relation /\ DOMAIN relation' = Relation
      /\ \A q \in Relation \ {r} : relation'[q] = relation[q]
  BY DEF RestOK, Moves
<1>2. /\ R \in SUBSET (SUBSET Source) /\ Q \in SUBSET (SUBSET Source)
      /\ R \cup Q \in SUBSET (SUBSET Source)
  BY Ids DEF Relations
<1>3. R \ {r} = Q \ {r} /\ R \ {r} = (R \cup Q) \ {r}
  BY <1>1 DEF Relations
<1>4. CitedBy(basis)' = A
  BY DEF Moves, CitedBy, Claims
<1>5. A \in SUBSET Source
  BY CitedIn
<1> DEFINE E == {Of(q) : q \in {p \in R : Whole(basis) \/ p \cap Reach(A, R) # {}}}
           F == {<<q, relation'[q]>> : q \in {p \in Q : Whole(basis) \/ p \cap Reach(A, Q) # {}}}
<1>6. Evidence(basis).relations = E /\ Evidence(basis)'.relations = F
  BY <1>4, EvidenceIs, EvidenceNext
<1> HIDE DEF A, R, Q
<1> DEFINE B == R \ {r}
           U == R \cup Q
<1>11. /\ r \cap Reach(A, R) = {} <=> r \cap Reach(A, B) = {}
       /\ r \cap Reach(A, R) = {} => Reach(A, R) = Reach(A, B)
  BY <1>2, <1>5, ReachWithout
<1>12. /\ r \cap Reach(A, Q) = {} <=> r \cap Reach(A, B) = {}
       /\ r \cap Reach(A, Q) = {} => Reach(A, Q) = Reach(A, B)
  BY <1>2, <1>3, <1>5, ReachWithout
<1>13. r \cap Reach(A, U) = {} <=> r \cap Reach(A, B) = {}
  BY <1>2, <1>3, <1>5, ReachWithout
<1> HIDE DEF B
<1>7. ASSUME Whole(basis) \/ r \cap Reach(A, R \cup Q) # {} PROVE E # F
  <2>1. Whole(basis) \/ (r \cap Reach(A, R) # {} /\ r \cap Reach(A, Q) # {})
    BY <1>7, <1>11, <1>12, <1>13
  <2>2. CASE relation[r].active
    <3>1. r \in R
      BY <2>2 DEF R, Relations
    <3>2. <<r, relation[r]>> \in E
      BY <2>1, <3>1 DEF Of
    <3>3. <<r, relation[r]>> \notin F
      BY DEF Moves
    <3> QED
      BY <3>2, <3>3
  <2>3. CASE relation'[r].active
    <3>1. r \in Q
      BY <2>3 DEF Q, Relations
    <3>2. <<r, relation'[r]>> \in F
      BY <2>1, <3>1
    <3>3. <<r, relation'[r]>> \notin E
      BY DEF Moves, Of
    <3> QED
      BY <3>2, <3>3
  <2> QED
    BY <2>2, <2>3 DEF Moves
<1>8. ASSUME ~Whole(basis), r \cap Reach(A, R \cup Q) = {} PROVE E = F
  <2>1. Reach(A, R) = Reach(A, Q) /\ r \cap Reach(A, R) = {}
    BY <1>8, <1>11, <1>12, <1>13
  <2> DEFINE X == {p \in R : Whole(basis) \/ p \cap Reach(A, R) # {}}
             Y == {p \in Q : Whole(basis) \/ p \cap Reach(A, Q) # {}}
  <2>2. X = Y /\ r \notin X /\ X \subseteq Relation
    <3>1. X \subseteq R \ {r} /\ Y \subseteq Q \ {r}
      BY <1>8, <2>1
    <3>2. X = Y
      BY <1>3, <2>1, <3>1
    <3>3. R \subseteq Relation
      BY DEF R, Relations
    <3> QED
      BY <3>1, <3>2, <3>3
  <2>3. \A q \in X : <<q, relation'[q]>> = Of(q)
    BY <1>1, <2>2 DEF Of
  <2> HIDE DEF X, Y
  <2>4. {Of(q) : q \in X} = {<<q, relation'[q]>> : q \in Y}
    BY <2>2, <2>3
  <2> QED
    BY <2>4 DEF X, Y
<1>9. Evidence(basis)' = Evidence(basis) \/ Evidence(basis)'.relations # Evidence(basis).relations
  <2> DEFINE broad  == basis.reason \in Broad
             chosen == {c \in Claims : broad \/ c \in basis.claims}
             cited  == basis.sources \cup UNION {Cites[c] : c \in chosen}
             whole  == broad \/ basis.reason = "source_dependence_unknown"
             cl == {<<c, claim[c]>> : c \in chosen}
             so == {s \in sources : broad \/ s \in cited}
             as == IF broad \/ basis.assessed THEN {assessment} ELSE {}
             vi == IF whole THEN sources ELSE {}
             re == {Of(q) : q \in {p \in Relations : whole \/ p \cap Related(cited) # {}}}
             e == [claims |-> cl, sources |-> so, assessment |-> as, visited |-> vi,
                   relations |-> re]
  <2>1. Evidence(basis) = e
    BY DEF Evidence
  <2>2. Evidence(basis)' = e'
    BY DEF Evidence
  <2>3. cl' = cl /\ so' = so /\ as' = as /\ vi' = vi
    BY DEF Moves, Claims
  <2>4. Evidence(basis).relations = re /\ Evidence(basis)'.relations = re'
    BY <2>1, <2>2
  <2>5. re' = re => e' = e
    BY <2>3
  <2> HIDE DEF e, re
  <2> QED
    BY <2>1, <2>2, <2>4, <2>5
<1>10. Touches(r, basis) <=> r \cap Reach(A, R \cup Q) # {}
  BY DEF Touches, A, R, Q
<1> QED
  BY <1>6, <1>7, <1>8, <1>9, <1>10

\* What a review itself refers to, as a basis.
Referred(review) == Basis("unverified_claim", FALSE, review.claims, review.sources)

\* A current review stays current exactly as long as its evidence is the same.
LEMMA CurrentOn ==
  ASSUME NEW CONSTANT review, IsCurrent(review)
  PROVE  IsCurrent(review)' <=>
            /\ Evidence(review.on.basis)' = Evidence(review.on.basis)
            /\ Evidence(Referred(review))' = Evidence(Referred(review))
<1> DEFINE b == review.on.basis
           d == Referred(review)
<1>1. WithEvidence(b) = review.on /\ Evidence(d) = review.reference
  BY DEF IsCurrent, Reference, Referred
<1>2. WithEvidence(b)' = [basis |-> b, evidence |-> {Evidence(b)'}]
  BY DEF WithEvidence
<1>3. IsCurrent(review)' <=> WithEvidence(b)' = review.on /\ Evidence(d)' = review.reference
  BY DEF IsCurrent, Reference, Referred
<1>4. WithEvidence(b) = [basis |-> b, evidence |-> {Evidence(b)}]
  BY DEF WithEvidence
<1> HIDE DEF b, d
<1>5. WithEvidence(b)' = WithEvidence(b) <=> Evidence(b)' = Evidence(b)
  <2>1. WithEvidence(b)'.evidence = {Evidence(b)'} /\ WithEvidence(b).evidence = {Evidence(b)}
    BY <1>2, <1>4
  <2> QED
    BY <1>2, <1>4, <2>1
<1> QED
  BY <1>1, <1>3, <1>5 DEF b, d

\* A step that changes the evidence changes no cycle, and a claim or a relationship
\* only where it is active before or after.
LEMMA EvidenceSteps ==
  ASSUME RestOK, [Next]_vars, evidence' # evidence
  PROVE  /\ UNCHANGED cycle
         /\ \/ UNCHANGED <<claim, relation>>
            \/ /\ UNCHANGED relation
               /\ \A c \in Claim : claim'[c] # claim[c] => claim[c].active \/ claim'[c].active
            \/ \E r \in Relation : Moves(r)
<1>1. claim \in [Claim -> [version : Nat, standing : Standing, active : BOOLEAN]]
      /\ relation \in [Relation -> [revision : Nat, active : BOOLEAN]] /\ Versioned
  BY DEF RestOK, Versioned
<1>2. ASSUME NEW c \in Claim, ClaimChange(c)
      PROVE  /\ UNCHANGED <<cycle, relation>>
             /\ \A d \in Claim : claim'[d] # claim[d] => claim[d].active \/ claim'[d].active
  <2>1. PICK standing \in Standing, on \in BOOLEAN : Revised(c, standing, on)
    BY <1>1, <1>2, ClaimSteps
  <2>2. UNCHANGED <<cycle, relation>>
    BY <1>2 DEF ClaimChange, Extract, Retire, UpdateClaim, More
  <2>3. /\ \A d \in Claim \ {c} : claim'[d] = claim[d]
        /\ claim'[c].active = on /\ (claim[c].active \/ on)
    BY <1>1, <2>1 DEF Revised
  <2> QED
    BY <2>2, <2>3
<1>3. ASSUME NEW r \in Relation, NEW on \in BOOLEAN, Relate(r, on)
      PROVE  UNCHANGED cycle /\ Moves(r)
  <2>1. /\ relation'[r] = [revision |-> relation[r].revision + 1, active |-> on]
        /\ relation[r].revision \in Nat
        /\ relation' = [relation EXCEPT ![r] = relation'[r]]
    BY <1>1, <1>3 DEF Relate
  <2>2. relation'[r] # relation[r] /\ relation'[r].active = on
    BY <2>1
  <2> QED
    BY <1>3, <2>1, <2>2 DEF Relate, More, Moves
<1>4. ASSUME NEW s \in Source, Save(s) PROVE UNCHANGED <<cycle, claim, relation>>
  BY <1>4 DEF Save, More
<1>5. ASSUME NEW standing, NEW claims, Assess(standing, claims)
      PROVE  UNCHANGED <<cycle, claim, relation>>
  BY <1>5 DEF Assess, More
<1>6. Next => \/ UNCHANGED evidence
              \/ \E c \in Claim : ClaimChange(c)
              \/ \E r \in Relation, on \in BOOLEAN : Relate(r, on)
              \/ \E s \in Source : Save(s)
              \/ \E standing, claims : Assess(standing, claims)
  BY DEF Next, ClaimChange, evidence, PlanNext, Start, RecordOutcome, RecoverCycle,
         ReviewObjective, ChangeStatus, Decide
<1>7. Next
  BY DEF vars, evidence
<1> QED
  BY <1>2, <1>3, <1>4, <1>5, <1>6, <1>7

\* A moved relationship disturbs a current review exactly where it belongs.
LEMMA MovedSeen ==
  ASSUME RestOK, NEW CONSTANT r \in Relation, Moves(r), NEW CONSTANT review,
         Known(review), Known(review.on.basis), IsCurrent(review),
         NEW A, NEW B, A = CitedBy(review.on.basis), B = CitedBy(Referred(review))
  PROVE  LET joined == r \cap Joined(A \cup B, Relations \cup Relations') # {}
         IN  /\ joined => ~IsCurrent(review)'
             /\ ~Whole(review.on.basis) /\ ~joined => IsCurrent(review)'
<1> DEFINE b == review.on.basis
           d == Referred(review)
           R == Relations \cup Relations'
<1>1. Known(d) /\ ~Whole(d)
  BY DEF Referred, Basis, Known, Whole, Broad
<1>2. /\ Whole(b) \/ Touches(r, b) => Evidence(b)' # Evidence(b)
      /\ ~Whole(b) /\ ~Touches(r, b) => Evidence(b)' = Evidence(b)
  BY RelationSeen
<1>3. /\ Touches(r, d) => Evidence(d)' # Evidence(d)
      /\ ~Touches(r, d) => Evidence(d)' = Evidence(d)
  BY <1>1, RelationSeen
<1>4. Joined(A \cup B, R) = Reach(A, R) \cup Reach(B, R)
  <2>1. A \in SUBSET Source /\ B \in SUBSET Source
    BY <1>1, CitedIn
  <2>2. R \in SUBSET (SUBSET Source)
    BY Ids DEF Relations
  <2>3. \A X, Y \in SUBSET Source, Q \in SUBSET (SUBSET Source) :
            Joined(X \cup Y, Q) = Reach(X, Q) \cup Reach(Y, Q)
    BY JoinedIs
  <2>4. \A Q \in SUBSET (SUBSET Source) : Joined(A \cup B, Q) = Reach(A, Q) \cup Reach(B, Q)
    BY <2>1, <2>3
  <2>5. Joined(A \cup B, R) = Reach(A, R) \cup Reach(B, R)
    BY <2>2, <2>4
  <2> QED
    BY <2>5
<1>5. r \cap Joined(A \cup B, R) # {} <=> Touches(r, b) \/ Touches(r, d)
  BY <1>4 DEF Touches
<1>6. IsCurrent(review)' <=> Evidence(b)' = Evidence(b) /\ Evidence(d)' = Evidence(d)
  BY CurrentOn
<1> QED
  BY <1>2, <1>3, <1>5, <1>6

\* What a step that changes the evidence does to a current review.
LEMMA ReviewTracked ==
  ASSUME Sound, [Next]_vars, evidence' # evidence,
         NEW CONSTANT n \in DOMAIN cycle, NEW CONSTANT review \in ToSet(cycle[n].reviews),
         IsCurrent(review)
  PROVE  LET basis  == review.on.basis
             rests  == review.claims \cup basis.claims
             cited  == review.sources \cup basis.sources
                       \cup UNION {Cites[c] : c \in rests \cap Claims}
             moved  == {r \in Relation : relation[r] # relation[r]'}
             joined == \E r \in moved :
                           r \cap Joined(cited, Relations \cup Relations') # {}
             narrow == basis.reason \notin Broad \cup {"source_dependence_unknown"}
         IN  /\ joined \/ (\E c \in rests : claim[c] # claim[c]') => ~IsCurrent(review)'
             /\ narrow /\ ~joined /\ moved # {} => IsCurrent(review)'
<1> DEFINE basis  == review.on.basis
           rests  == review.claims \cup basis.claims
           cited  == review.sources \cup basis.sources
                     \cup UNION {Cites[c] : c \in rests \cap Claims}
           moved  == {r \in Relation : relation[r] # relation[r]'}
           U == Relations \cup Relations'
           joined == \E r \in moved : r \cap Joined(cited, U) # {}
<1>1. CyclesOK /\ RestOK
  BY SoundMeans
<1>2. Known(review) /\ Known(basis)
  BY <1>1 DEF CyclesOK, CycleOK
<1>3. \A c \in rests : c \in Claim
  BY <1>2 DEF Known
<1>4. CASE UNCHANGED <<claim, relation>>
  <2>1. moved = {} /\ \A c \in rests : claim[c] = claim[c]'
    BY <1>4
  <2> QED
    BY <2>1
<1>5. CASE /\ UNCHANGED relation
           /\ \A c \in Claim : claim'[c] # claim[c] => claim[c].active \/ claim'[c].active
  <2>1. moved = {}
    BY <1>5
  <2>2. ASSUME NEW c \in rests, claim[c] # claim[c]' PROVE ~IsCurrent(review)'
    <3>1. c \in Claim /\ claim'[c] # claim[c] /\ (claim[c].active \/ claim'[c].active)
      BY <1>3, <1>5, <2>2
    <3>2. CASE c \in basis.claims
      <4>1. Evidence(basis)' # Evidence(basis)
        BY <3>1, <3>2, ClaimSeen
      <4> QED
        BY <4>1, CurrentOn
    <3>3. CASE c \in review.claims
      <4>1. c \in Referred(review).claims
        BY <3>3 DEF Referred, Basis
      <4>2. Evidence(Referred(review))' # Evidence(Referred(review))
        BY <3>1, <4>1, ClaimSeen
      <4> QED
        BY <4>2, CurrentOn
    <3> QED
      BY <3>2, <3>3
  <2> QED
    BY <2>1, <2>2
<1>6. ASSUME NEW r \in Relation, Moves(r)
      PROVE  /\ joined \/ (\E c \in rests : claim[c] # claim[c]') => ~IsCurrent(review)'
             /\ ~Whole(basis) /\ ~joined /\ moved # {} => IsCurrent(review)'
  <2>1. moved = {r}
    BY <1>1, <1>6 DEF Moves, RestOK
  <2>2. \A c \in rests : claim[c] = claim[c]'
    BY <1>6 DEF Moves
  <2> DEFINE A == CitedBy(basis)
             B == CitedBy(Referred(review))
  <2>3. cited = A \cup B
    BY <1>2 DEF CitedBy, Referred, Basis
  <2>4. LET j == r \cap Joined(A \cup B, U) # {}
        IN  /\ j => ~IsCurrent(review)'
            /\ ~Whole(basis) /\ ~j => IsCurrent(review)'
    BY <1>1, <1>2, <1>6, MovedSeen
  <2>5. joined <=> r \cap Joined(A \cup B, U) # {}
    BY <2>1, <2>3
  <2> QED
    BY <2>2, <2>4, <2>5
<1>7. Whole(basis) <=> basis.reason \in Broad \cup {"source_dependence_unknown"}
  BY DEF Whole
<1>8. \/ UNCHANGED <<claim, relation>>
      \/ /\ UNCHANGED relation
         /\ \A c \in Claim : claim'[c] # claim[c] => claim[c].active \/ claim'[c].active
      \/ \E r \in Relation : Moves(r)
  BY <1>1, EvidenceSteps
<1> QED
  BY <1>4, <1>5, <1>6, <1>7, <1>8

\* A review ceases to be current with every change of a claim it rests on and of a
\* relationship connected with its sources, however many lie between, and where it
\* names what it needs no other relationship disturbs it.
THEOREM ReviewsTrack == Spec => ReviewsTrackEvidence
<1> DEFINE Step ==
      \A n \in DOMAIN cycle : \A review \in ToSet(cycle[n].reviews) :
          LET basis  == review.on.basis
              rests  == review.claims \cup basis.claims
              cited  == review.sources \cup basis.sources
                        \cup UNION {Cites[c] : c \in rests \cap Claims}
              moved  == {r \in Relation : relation[r] # relation[r]'}
              joined == \E r \in moved :
                            r \cap Joined(cited, Relations \cup Relations') # {}
              narrow == basis.reason \notin Broad \cup {"source_dependence_unknown"}
          IN  IsCurrent(review) =>
                  /\ joined \/ (\E c \in rests : claim[c] # claim[c]')
                         => ~IsCurrent(review)'
                  /\ narrow /\ ~joined /\ moved # {} => IsCurrent(review)'
<1>1. ASSUME Sound, [Next]_vars, evidence' # evidence PROVE Step
  BY <1>1, ReviewTracked
<1>2. Sound /\ [Next]_vars => [evidence' # evidence => Step]_vars
  BY <1>1
<1> QED
  BY <1>2, AlwaysSound, PTL DEF Spec, ReviewsTrackEvidence
=============================================================================
