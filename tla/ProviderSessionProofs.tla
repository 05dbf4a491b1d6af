----------------------- MODULE ProviderSessionProofs -----------------------
(***************************************************************************)
(* Theorems of ProviderSession for any number of requests, connections and *)
(* places in the store.                                                    *)
(*                                                                         *)
(* The argument: whoever is between the local change of the store and the  *)
(* commit holds the store's lock, so what it found usable stays without a  *)
(* deletion of its own; whoever shares the security row was granted what   *)
(* it is about to record, and nobody changes the authority meanwhile; and  *)
(* a session that is not published yet is in nobody's cookie.              *)
(***************************************************************************)
EXTENDS ProviderSession, FiniteSetTheorems, TLAPS

\* The store's lock is held exactly by the request inside it.
LockHeld ==
    \A r \in Requests :
        holder = r <=> pc[r] \in {"storing", "committing", "publishing", "revoking"}

\* Where a request is tells what it asked for.
Asked ==
    \A r \in Requests :
        /\ pc[r] = "idle" => kind[r] = "none"
        /\ pc[r] \in {"locking", "storing", "publishing"} => kind[r] = "create"
        /\ pc[r] = "revoking" => kind[r] = "delete"
        /\ pc[r] = "committing" => kind[r] \in {"create", "delete"}
        /\ pc[r] = "looking" => kind[r] = "lookup"

\* A request is published when it is done; cookies and deletions name what
\* was published.
Names ==
    /\ \A r \in Requests : /\ issued[r] # 0 => pc[r] = "done"
                           /\ cookie[r] \in Published \cup {None}
    /\ \A row \in audit : row.reason = "deleted" => row.session \in Published \cup {None}

\* The security row is shared from the check to the end of the transaction,
\* and what was granted stays granted.
Shared ==
    \A r \in Requests :
        /\ r \in sharing <=> pc[r] \in {"locking", "storing", "committing"}
        /\ r \in sharing /\ kind[r] = "create" => May("authority_administration", "broaden")
        /\ r \in sharing /\ kind[r] = "delete" => May("authority_administration", "reduce")

\* What a request inside the lock found usable was not deleted by another, and
\* what it commits was done to the store before.
Undeleted(s) == \A row \in audit : row.reason = "deleted" => row.session # s
Claim(r) ==
    /\ active[r] /\ pc[r] \in {"storing", "committing", "revoking"} => Undeleted(cookie[r])
    /\ pc[r] = "committing" => cookie[r] \notin store
    /\ pc[r] = "publishing" =>
          [by |-> r, reason |-> "created", session |-> r] \in audit
Claimed == \A r \in Requests : Claim(r)

IInv == /\ TypeOK /\ LockHeld /\ Asked /\ Names /\ Shared /\ Claimed
        /\ UsableIsAudited /\ RevokedLocally /\ DeletedOnce

USE SessionAssumption

\* Whoever may broaden may reduce.
LEMMA BroadenReduces ==
  May("authority_administration", "broaden") => May("authority_administration", "reduce")
BY DEF May, Granted, Allows, AlwaysSafe, Restricted

LEMMA NextIssueType ==
  ASSUME TypeOK
  PROVE  NextIssue \in Nat \ {0}
<1>1. IsFiniteSet(Published)
  BY FS_Subset DEF Published
<1>2. Cardinality(Published) \in Nat
  BY <1>1, FS_CardinalityType
<1> QED
  BY <1>2 DEF NextIssue

LEMMA InitIInv == Init => IInv
<1> SUFFICES ASSUME Init PROVE IInv
  OBVIOUS
<1>1. TypeOK
  <2>1. "normal" \in SecurityState
    BY DEF SecurityState
  <2>2. FALSE \in BOOLEAN /\ fenced \in BOOLEAN
    BY DEF Init
  <2> QED
    BY <2>1, <2>2 DEF Init, TypeOK, Published
<1>2. LockHeld /\ Asked /\ Names /\ Shared /\ Claimed
  BY DEF Init, LockHeld, Asked, Names, Shared, Claimed, Claim
<1>3. UsableIsAudited /\ RevokedLocally /\ DeletedOnce
  BY DEF Init, UsableIsAudited, RevokedLocally, DeletedOnce
<1> QED
  BY <1>1, <1>2, <1>3 DEF IInv

LEMMA AuthorizeCreateKeeps ==
  ASSUME IInv, NEW r \in Requests, AuthorizeCreate(r)
  PROVE  IInv'
<1> USE DEF IInv, AuthorizeCreate, Connect, Share, Goto, FreeConnection, May, memory, locks, authority, request
<1>1. TypeOK'
  BY DEF TypeOK, Row, Published, Waiting, Ended, SecurityState
<1>2. LockHeld'
  BY DEF LockHeld, TypeOK, Waiting, Ended
<1>3. Asked'
  BY DEF Asked, TypeOK
<1>4. Names'
  BY DEF Names, TypeOK, Published, LockHeld
<1>5. Shared'
  BY DEF Shared, TypeOK, May, Asked
<1>6. Claimed'
  <2> SUFFICES ASSUME NEW q \in Requests PROVE Claim(q)'
    BY DEF Claimed
  <2>1. CASE q = r
    BY <2>1 DEF Claimed, Claim, Undeleted, TypeOK, Asked, Published, Names, RevokedLocally, DeletedOnce
  <2>2. CASE q # r
    BY <2>2 DEF Claimed, Claim, Undeleted, TypeOK, LockHeld, Names, Published
  <2> QED
    BY <2>1, <2>2
<1>7. UsableIsAudited'
  BY DEF UsableIsAudited, TypeOK, Claimed, Claim
<1>8. RevokedLocally'
  BY DEF RevokedLocally, TypeOK, Names, Published, Claimed, Claim
<1>9. DeletedOnce'
  BY DEF DeletedOnce, TypeOK, Names, Published, Claimed, Claim, Undeleted, LockHeld, RevokedLocally, Asked
<1> QED
  BY <1>1, <1>2, <1>3, <1>4, <1>5, <1>6, <1>7, <1>8, <1>9

LEMMA EnterCreateKeeps ==
  ASSUME IInv, NEW r \in Requests, EnterCreate(r)
  PROVE  IInv'
<1> USE DEF IInv, EnterCreate, AfterGet, Goto, Usable, memory, locks, authority, request
<1>1. TypeOK'
  BY DEF TypeOK, Row, Published, Waiting, Ended, SecurityState
<1>2. LockHeld'
  BY DEF LockHeld, TypeOK, Waiting, Ended
<1>3. Asked'
  BY DEF Asked, TypeOK
<1>4. Names'
  BY DEF Names, TypeOK, Published, LockHeld
<1>5. Shared'
  BY DEF Shared, TypeOK, May, Asked
<1>6. Claimed'
  <2> SUFFICES ASSUME NEW q \in Requests PROVE Claim(q)'
    BY DEF Claimed
  <2>1. CASE q = r
    BY <2>1 DEF Claimed, Claim, Undeleted, TypeOK, Asked, Published, Names, RevokedLocally, DeletedOnce
  <2>2. CASE q # r
    BY <2>2 DEF Claimed, Claim, Undeleted, TypeOK, LockHeld, Names, Published
  <2> QED
    BY <2>1, <2>2
<1>7. UsableIsAudited'
  BY DEF UsableIsAudited, TypeOK, Claimed, Claim
<1>8. RevokedLocally'
  BY DEF RevokedLocally, TypeOK, Names, Published, Claimed, Claim
<1>9. DeletedOnce'
  BY DEF DeletedOnce, TypeOK, Names, Published, Claimed, Claim, Undeleted, LockHeld, RevokedLocally, Asked
<1> QED
  BY <1>1, <1>2, <1>3, <1>4, <1>5, <1>6, <1>7, <1>8, <1>9

LEMMA FlushCreateKeeps ==
  ASSUME IInv, NEW r \in Requests, FlushCreate(r)
  PROVE  IInv'
<1> USE DEF IInv, FlushCreate, Forgotten, Goto, Disconnect, memory, locks, authority, request
<1>1. TypeOK'
  BY DEF TypeOK, Row, Published, Waiting, Ended, SecurityState
<1>2. LockHeld'
  BY DEF LockHeld, TypeOK, Waiting, Ended
<1>3. Asked'
  BY DEF Asked, TypeOK
<1>4. Names'
  BY DEF Names, TypeOK, Published, LockHeld
<1>5. Shared'
  BY DEF Shared, TypeOK, May, Asked
<1>6. Claimed'
  <2> SUFFICES ASSUME NEW q \in Requests PROVE Claim(q)'
    BY DEF Claimed
  <2>1. CASE q = r
    BY <2>1 DEF Claimed, Claim, Undeleted, TypeOK, Asked, Published, Names, RevokedLocally, DeletedOnce
  <2>2. CASE q # r
    BY <2>2 DEF Claimed, Claim, Undeleted, TypeOK, LockHeld, Names, Published
  <2> QED
    BY <2>1, <2>2
<1>7. UsableIsAudited'
  BY DEF UsableIsAudited, TypeOK, Claimed, Claim
<1>8. RevokedLocally'
  BY DEF RevokedLocally, TypeOK, Names, Published, Claimed, Claim
<1>9. DeletedOnce'
  BY DEF DeletedOnce, TypeOK, Names, Published, Claimed, Claim, Undeleted, LockHeld, RevokedLocally, Asked
<1> QED
  BY <1>1, <1>2, <1>3, <1>4, <1>5, <1>6, <1>7, <1>8, <1>9

LEMMA CommitCreateKeeps ==
  ASSUME IInv, NEW r \in Requests, CommitCreate(r)
  PROVE  IInv'
<1> USE DEF IInv, CommitCreate, CreateRows, CommitFails, Disconnect, Goto, memory, locks, authority, request
<1>1. TypeOK'
  BY DEF TypeOK, Row, Published, Waiting, Ended, SecurityState
<1>2. LockHeld'
  BY DEF LockHeld, TypeOK, Waiting, Ended
<1>3. Asked'
  BY DEF Asked, TypeOK
<1>4. Names'
  BY DEF Names, TypeOK, Published, LockHeld
<1>5. Shared'
  BY DEF Shared, TypeOK, May, Asked
<1>6. Claimed'
  <2> SUFFICES ASSUME NEW q \in Requests PROVE Claim(q)'
    BY DEF Claimed
  <2>1. CASE q = r
    BY <2>1 DEF Claimed, Claim, Undeleted, TypeOK, Asked, Published, Names, RevokedLocally, DeletedOnce
  <2>2. CASE q # r
    BY <2>2 DEF Claimed, Claim, Undeleted, TypeOK, LockHeld, Names, Published
  <2> QED
    BY <2>1, <2>2
<1>7. UsableIsAudited'
  BY DEF UsableIsAudited, TypeOK, Claimed, Claim
<1>8. RevokedLocally'
  BY DEF RevokedLocally, TypeOK, Names, Published, Claimed, Claim
<1>9. DeletedOnce'
  <2> DEFINE deletion == [by |-> r, reason |-> "deleted", session |-> cookie[r]]
  <2>1. cookie[r] \notin store /\ (active[r] => Undeleted(cookie[r]))
    BY DEF Claimed, Claim
  <2>2. \A row \in audit' : row.reason = "deleted" =>
           row \in audit \/ (row = deletion /\ active[r])
    OBVIOUS
  <2>3. store' = store
    OBVIOUS
  <2> HIDE DEF CommitCreate
  <2> QED
    BY <2>1, <2>2, <2>3 DEF DeletedOnce, Undeleted
<1> QED
  BY <1>1, <1>2, <1>3, <1>4, <1>5, <1>6, <1>7, <1>8, <1>9

LEMMA PublishKeeps ==
  ASSUME IInv, NEW r \in Requests, Publish(r)
  PROVE  IInv'
<1> USE DEF IInv, Publish, Joined, Kept, Goto, memory, locks, authority, request
<1>1. TypeOK'
  BY NextIssueType DEF TypeOK, Row, Published, Waiting, Ended, SecurityState
<1>2. LockHeld'
  BY DEF LockHeld, TypeOK, Waiting, Ended
<1>3. Asked'
  BY DEF Asked, TypeOK
<1>4. Names'
  BY NextIssueType DEF Names, TypeOK, Published, LockHeld
<1>5. Shared'
  BY DEF Shared, TypeOK, May, Asked
<1>6. Claimed'
  <2> SUFFICES ASSUME NEW q \in Requests PROVE Claim(q)'
    BY DEF Claimed
  <2>1. CASE q = r
    BY <2>1 DEF Claimed, Claim, Undeleted, TypeOK, Asked, Published, Names, RevokedLocally, DeletedOnce
  <2>2. CASE q # r
    BY <2>2 DEF Claimed, Claim, Undeleted, TypeOK, LockHeld, Names, Published
  <2> QED
    BY <2>1, <2>2
<1>7. UsableIsAudited'
  BY DEF UsableIsAudited, TypeOK, Claimed, Claim
<1>8. RevokedLocally'
  BY DEF RevokedLocally, TypeOK, Names, Published, Claimed, Claim
<1>9. DeletedOnce'
  BY DEF DeletedOnce, TypeOK, Names, Published, Claimed, Claim, Undeleted, LockHeld, RevokedLocally, Asked
<1> QED
  BY <1>1, <1>2, <1>3, <1>4, <1>5, <1>6, <1>7, <1>8, <1>9

LEMMA RevokeKeeps ==
  ASSUME IInv, NEW r \in Requests, Revoke(r)
  PROVE  IInv'
<1> USE DEF IInv, Revoke, Usable, Forgotten, Goto, memory, locks, authority, request
<1>1. TypeOK'
  BY DEF TypeOK, Row, Published, Waiting, Ended, SecurityState
<1>2. LockHeld'
  BY DEF LockHeld, TypeOK, Waiting, Ended
<1>3. Asked'
  BY DEF Asked, TypeOK
<1>4. Names'
  BY DEF Names, TypeOK, Published, LockHeld
<1>5. Shared'
  BY DEF Shared, TypeOK, May, Asked
<1>6. Claimed'
  <2> SUFFICES ASSUME NEW q \in Requests PROVE Claim(q)'
    BY DEF Claimed
  <2>1. CASE q = r
    <3>1. PICK s \in Published \cup {None} :
             cookie' = [cookie EXCEPT ![r] = s] /\ active' = [active EXCEPT ![r] = Usable(s)]
      OBVIOUS
    <3>2. cookie'[r] = s /\ active'[r] = Usable(s) /\ pc'[r] = "revoking" /\ audit' = audit
      BY <3>1 DEF TypeOK
    <3>3. Usable(s) => Undeleted(s)
      BY DEF Undeleted, DeletedOnce
    <3> QED
      BY <2>1, <3>2, <3>3 DEF Claim, Undeleted
  <2>2. CASE q # r
    BY <2>2 DEF Claimed, Claim, Undeleted, TypeOK, LockHeld, Names, Published
  <2> QED
    BY <2>1, <2>2
<1>7. UsableIsAudited'
  BY DEF UsableIsAudited, TypeOK, Claimed, Claim
<1>8. RevokedLocally'
  BY DEF RevokedLocally, TypeOK, Names, Published, Claimed, Claim
<1>9. DeletedOnce'
  BY DEF DeletedOnce, TypeOK, Names, Published, Claimed, Claim, Undeleted, LockHeld, RevokedLocally, Asked
<1> QED
  BY <1>1, <1>2, <1>3, <1>4, <1>5, <1>6, <1>7, <1>8, <1>9

LEMMA AuthorizeDeleteKeeps ==
  ASSUME IInv, NEW r \in Requests, AuthorizeDelete(r)
  PROVE  IInv'
<1> USE DEF IInv, AuthorizeDelete, Connect, Share, Goto, May, memory, locks, authority, request
<1>1. TypeOK'
  BY DEF TypeOK, Row, Published, Waiting, Ended, SecurityState
<1>2. LockHeld'
  BY DEF LockHeld, TypeOK, Waiting, Ended
<1>3. Asked'
  BY DEF Asked, TypeOK
<1>4. Names'
  BY DEF Names, TypeOK, Published, LockHeld
<1>5. Shared'
  BY DEF Shared, TypeOK, May, Asked
<1>6. Claimed'
  <2> SUFFICES ASSUME NEW q \in Requests PROVE Claim(q)'
    BY DEF Claimed
  <2>1. CASE q = r
    BY <2>1 DEF Claimed, Claim, Undeleted, TypeOK, Asked, Published, Names, RevokedLocally, DeletedOnce
  <2>2. CASE q # r
    BY <2>2 DEF Claimed, Claim, Undeleted, TypeOK, LockHeld, Names, Published
  <2> QED
    BY <2>1, <2>2
<1>7. UsableIsAudited'
  BY DEF UsableIsAudited, TypeOK, Claimed, Claim
<1>8. RevokedLocally'
  BY DEF RevokedLocally, TypeOK, Names, Published, Claimed, Claim
<1>9. DeletedOnce'
  BY DEF DeletedOnce, TypeOK, Names, Published, Claimed, Claim, Undeleted, LockHeld, RevokedLocally, Asked
<1> QED
  BY <1>1, <1>2, <1>3, <1>4, <1>5, <1>6, <1>7, <1>8, <1>9

LEMMA PoolTimeoutKeeps ==
  ASSUME IInv, NEW r \in Requests, PoolTimeout(r)
  PROVE  IInv'
<1> USE DEF IInv, PoolTimeout, Goto, memory, locks, authority, request
<1>1. TypeOK'
  BY DEF TypeOK, Row, Published, Waiting, Ended, SecurityState
<1>2. LockHeld'
  BY DEF LockHeld, TypeOK, Waiting, Ended
<1>3. Asked'
  BY DEF Asked, TypeOK
<1>4. Names'
  BY DEF Names, TypeOK, Published, LockHeld
<1>5. Shared'
  BY DEF Shared, TypeOK, May, Asked
<1>6. Claimed'
  <2> SUFFICES ASSUME NEW q \in Requests PROVE Claim(q)'
    BY DEF Claimed
  <2>1. CASE q = r
    BY <2>1 DEF Claimed, Claim, Undeleted, TypeOK, Asked, Published, Names, RevokedLocally, DeletedOnce
  <2>2. CASE q # r
    BY <2>2 DEF Claimed, Claim, Undeleted, TypeOK, LockHeld, Names, Published
  <2> QED
    BY <2>1, <2>2
<1>7. UsableIsAudited'
  BY DEF UsableIsAudited, TypeOK, Claimed, Claim
<1>8. RevokedLocally'
  BY DEF RevokedLocally, TypeOK, Names, Published, Claimed, Claim
<1>9. DeletedOnce'
  BY DEF DeletedOnce, TypeOK, Names, Published, Claimed, Claim, Undeleted, LockHeld, RevokedLocally, Asked
<1> QED
  BY <1>1, <1>2, <1>3, <1>4, <1>5, <1>6, <1>7, <1>8, <1>9

LEMMA CommitDeleteKeeps ==
  ASSUME IInv, NEW r \in Requests, CommitDelete(r)
  PROVE  IInv'
<1> USE DEF IInv, CommitDelete, DeleteRow, Goto, Disconnect, memory, locks, authority, request
<1>1. TypeOK'
  BY DEF TypeOK, Row, Published, Waiting, Ended, SecurityState
<1>2. LockHeld'
  BY DEF LockHeld, TypeOK, Waiting, Ended
<1>3. Asked'
  BY DEF Asked, TypeOK
<1>4. Names'
  BY DEF Names, TypeOK, Published, LockHeld
<1>5. Shared'
  BY DEF Shared, TypeOK, May, Asked
<1>6. Claimed'
  <2> SUFFICES ASSUME NEW q \in Requests PROVE Claim(q)'
    BY DEF Claimed
  <2>1. CASE q = r
    BY <2>1 DEF Claimed, Claim, Undeleted, TypeOK, Asked, Published, Names, RevokedLocally, DeletedOnce
  <2>2. CASE q # r
    BY <2>2 DEF Claimed, Claim, Undeleted, TypeOK, LockHeld, Names, Published
  <2> QED
    BY <2>1, <2>2
<1>7. UsableIsAudited'
  BY DEF UsableIsAudited, TypeOK, Claimed, Claim
<1>8. RevokedLocally'
  BY DEF RevokedLocally, TypeOK, Names, Published, Claimed, Claim
<1>9. DeletedOnce'
  <2> DEFINE deletion == [by |-> r, reason |-> "deleted", session |-> cookie[r]]
  <2>1. cookie[r] \notin store /\ (active[r] => Undeleted(cookie[r]))
    BY DEF Claimed, Claim
  <2>2. \A row \in audit' : row.reason = "deleted" =>
           row \in audit \/ (row = deletion /\ active[r])
    OBVIOUS
  <2>3. store' = store
    OBVIOUS
  <2> HIDE DEF CommitDelete
  <2> QED
    BY <2>1, <2>2, <2>3 DEF DeletedOnce, Undeleted
<1> QED
  BY <1>1, <1>2, <1>3, <1>4, <1>5, <1>6, <1>7, <1>8, <1>9

LEMMA AuthorizeLookupKeeps ==
  ASSUME IInv, NEW r \in Requests, AuthorizeLookup(r)
  PROVE  IInv'
<1> USE DEF IInv, AuthorizeLookup, Connect, Goto, memory, locks, authority, request
<1>1. TypeOK'
  BY DEF TypeOK, Row, Published, Waiting, Ended, SecurityState
<1>2. LockHeld'
  BY DEF LockHeld, TypeOK, Waiting, Ended
<1>3. Asked'
  BY DEF Asked, TypeOK
<1>4. Names'
  BY DEF Names, TypeOK, Published, LockHeld
<1>5. Shared'
  BY DEF Shared, TypeOK, May, Asked
<1>6. Claimed'
  <2> SUFFICES ASSUME NEW q \in Requests PROVE Claim(q)'
    BY DEF Claimed
  <2>1. CASE q = r
    BY <2>1 DEF Claimed, Claim, Undeleted, TypeOK, Asked, Published, Names, RevokedLocally, DeletedOnce
  <2>2. CASE q # r
    BY <2>2 DEF Claimed, Claim, Undeleted, TypeOK, LockHeld, Names, Published
  <2> QED
    BY <2>1, <2>2
<1>7. UsableIsAudited'
  BY DEF UsableIsAudited, TypeOK, Claimed, Claim
<1>8. RevokedLocally'
  BY DEF RevokedLocally, TypeOK, Names, Published, Claimed, Claim
<1>9. DeletedOnce'
  BY DEF DeletedOnce, TypeOK, Names, Published, Claimed, Claim, Undeleted, LockHeld, RevokedLocally, Asked
<1> QED
  BY <1>1, <1>2, <1>3, <1>4, <1>5, <1>6, <1>7, <1>8, <1>9

LEMMA LookupKeeps ==
  ASSUME IInv, NEW r \in Requests, Lookup(r)
  PROVE  IInv'
<1> USE DEF IInv, Lookup, AfterGet, Disconnect, Goto, Usable, memory, locks, authority, request
<1>1. TypeOK'
  BY DEF TypeOK, Row, Published, Waiting, Ended, SecurityState
<1>2. LockHeld'
  BY DEF LockHeld, TypeOK, Waiting, Ended
<1>3. Asked'
  BY DEF Asked, TypeOK
<1>4. Names'
  BY DEF Names, TypeOK, Published, LockHeld
<1>5. Shared'
  BY DEF Shared, TypeOK, May, Asked
<1>6. Claimed'
  <2> SUFFICES ASSUME NEW q \in Requests PROVE Claim(q)'
    BY DEF Claimed
  <2>1. CASE q = r
    BY <2>1 DEF Claimed, Claim, Undeleted, TypeOK, Asked, Published, Names, RevokedLocally, DeletedOnce
  <2>2. CASE q # r
    BY <2>2 DEF Claimed, Claim, Undeleted, TypeOK, LockHeld, Names, Published
  <2> QED
    BY <2>1, <2>2
<1>7. UsableIsAudited'
  BY DEF UsableIsAudited, TypeOK, Claimed, Claim
<1>8. RevokedLocally'
  BY DEF RevokedLocally, TypeOK, Names, Published, Claimed, Claim
<1>9. DeletedOnce'
  BY DEF DeletedOnce, TypeOK, Names, Published, Claimed, Claim, Undeleted, LockHeld, RevokedLocally, Asked
<1> QED
  BY <1>1, <1>2, <1>3, <1>4, <1>5, <1>6, <1>7, <1>8, <1>9

LEMMA ExpireKeeps ==
  ASSUME IInv, NEW s \in Requests, Expire(s)
  PROVE  IInv'
<1> USE DEF IInv, Expire, memory, locks, authority, request
<1>1. TypeOK'
  BY DEF TypeOK, Row, Published, Waiting, Ended, SecurityState
<1>2. LockHeld'
  BY DEF LockHeld, TypeOK
<1>3. Asked'
  BY DEF Asked, TypeOK
<1>4. Names'
  BY DEF Names, TypeOK, Published
<1>5. Shared'
  BY DEF Shared, TypeOK, May
<1>6. Claimed'
  BY DEF Claimed, TypeOK, Claim, Undeleted
<1>7. UsableIsAudited'
  BY DEF UsableIsAudited
<1>8. RevokedLocally'
  BY DEF RevokedLocally
<1>9. DeletedOnce'
  BY DEF DeletedOnce
<1> QED
  BY <1>1, <1>2, <1>3, <1>4, <1>5, <1>6, <1>7, <1>8, <1>9

LEMMA TransitionKeeps ==
  ASSUME IInv, Transition
  PROVE  IInv'
<1> USE DEF IInv, Transition, memory, locks, authority, request
<1>1. TypeOK'
  BY DEF TypeOK, Row, Published, Waiting, Ended, SecurityState
<1>2. LockHeld'
  BY DEF LockHeld, TypeOK
<1>3. Asked'
  BY DEF Asked, TypeOK
<1>4. Names'
  BY DEF Names, TypeOK, Published
<1>5. Shared'
  BY DEF Shared, TypeOK, May
<1>6. Claimed'
  BY DEF Claimed, TypeOK, Claim, Undeleted
<1>7. UsableIsAudited'
  BY DEF UsableIsAudited
<1>8. RevokedLocally'
  BY DEF RevokedLocally
<1>9. DeletedOnce'
  BY DEF DeletedOnce
<1> QED
  BY <1>1, <1>2, <1>3, <1>4, <1>5, <1>6, <1>7, <1>8, <1>9

LEMMA RestoreKeeps ==
  ASSUME IInv, Restore
  PROVE  IInv'
<1> USE DEF IInv, Restore, memory, locks, authority, request
<1>1. TypeOK'
  BY DEF TypeOK, Row, Published, Waiting, Ended, SecurityState
<1>2. LockHeld'
  BY DEF LockHeld, TypeOK
<1>3. Asked'
  BY DEF Asked, TypeOK
<1>4. Names'
  BY DEF Names, TypeOK, Published
<1>5. Shared'
  BY DEF Shared, TypeOK, May
<1>6. Claimed'
  BY DEF Claimed, TypeOK, Claim, Undeleted
<1>7. UsableIsAudited'
  BY DEF UsableIsAudited
<1>8. RevokedLocally'
  BY DEF RevokedLocally
<1>9. DeletedOnce'
  BY DEF DeletedOnce
<1> QED
  BY <1>1, <1>2, <1>3, <1>4, <1>5, <1>6, <1>7, <1>8, <1>9

LEMMA RestartKeeps ==
  ASSUME IInv, Restart
  PROVE  IInv'
<1> USE DEF IInv, Restart, memory, locks, authority, request
<1>1. TypeOK'
  <2>1. fenced' \in BOOLEAN
    BY DEF TypeOK
  <2>2. boots' \in 0..Boots
    BY DEF TypeOK
  <2>3. pc' \in [Requests -> {"idle"} \cup Waiting \cup Ended]
    BY DEF TypeOK, Ended
  <2> QED
    BY <2>1, <2>2, <2>3 DEF TypeOK, Published
<1>2. LockHeld'
  BY DEF LockHeld, TypeOK, Waiting
<1>3. Asked'
  BY DEF Asked, TypeOK, Waiting
<1>4. Names'
  BY DEF Names, TypeOK, Published, Waiting
<1>5. Shared'
  BY DEF Shared, TypeOK, Waiting
<1>6. Claimed'
  BY DEF Claimed, TypeOK, Claim, Undeleted, Waiting
<1>7. UsableIsAudited'
  BY DEF UsableIsAudited
<1>8. RevokedLocally'
  BY DEF RevokedLocally
<1>9. DeletedOnce'
  BY DEF DeletedOnce
<1> QED
  BY <1>1, <1>2, <1>3, <1>4, <1>5, <1>6, <1>7, <1>8, <1>9

LEMMA StutterKeeps ==
  ASSUME IInv, UNCHANGED vars
  PROVE  IInv'
<1> USE DEF IInv, vars, memory, locks, authority, request
<1>1. TypeOK'
  BY DEF TypeOK, Published
<1>2. LockHeld'
  BY DEF LockHeld
<1>3. Asked'
  BY DEF Asked
<1>4. Names'
  BY DEF Names, Published
<1>5. Shared'
  BY DEF Shared, May
<1>6. Claimed'
  BY DEF Claimed, Claim, Undeleted
<1>7. UsableIsAudited'
  BY DEF UsableIsAudited
<1>8. RevokedLocally'
  BY DEF RevokedLocally
<1>9. DeletedOnce'
  BY DEF DeletedOnce
<1> QED
  BY <1>1, <1>2, <1>3, <1>4, <1>5, <1>6, <1>7, <1>8, <1>9

LEMMA NextIInv == IInv /\ [Next]_vars => IInv'
<1> SUFFICES ASSUME IInv, [Next]_vars PROVE IInv'
  OBVIOUS
<1>1. ASSUME NEW r \in Requests, Create(r) PROVE IInv'
  BY <1>1, AuthorizeCreateKeeps, EnterCreateKeeps, FlushCreateKeeps, CommitCreateKeeps,
     PublishKeeps DEF Create
<1>2. ASSUME NEW r \in Requests, Delete(r) PROVE IInv'
  BY <1>2, RevokeKeeps, AuthorizeDeleteKeeps, PoolTimeoutKeeps, CommitDeleteKeeps DEF Delete
<1>3. ASSUME NEW r \in Requests, Get(r) PROVE IInv'
  BY <1>3, AuthorizeLookupKeeps, LookupKeeps DEF Get
<1>4. ASSUME NEW s \in Requests, Expire(s) PROVE IInv'
  BY <1>4, ExpireKeeps
<1> QED
  BY <1>1, <1>2, <1>3, <1>4, TransitionKeeps, RestoreKeeps, RestartKeeps, StutterKeeps DEF Next

----------------------------------------------------------------------------
(* The theorems.                                                           *)

\* The locks, the names and the claims of the requests agree with the store
\* and the audit in every reachable state.
THEOREM InductiveInvariant == Spec => []IInv
BY InitIInv, NextIInv, PTL DEF Spec

\* Store, locks, pool, audit and requests keep their types, and a lock on the
\* security row is held over a connection.
THEOREM TypeCorrect == Spec => []TypeOK
<1>1. IInv => TypeOK
  BY DEF IInv
<1> QED
  BY <1>1, InductiveInvariant, PTL

\* No session is usable before the row of its creation is durable, for any
\* number of requests and any failure of commits, locks and processes.
THEOREM UsableAreAudited == Spec => []UsableIsAudited
<1>1. IInv => UsableIsAudited
  BY DEF IInv
<1> QED
  BY <1>1, InductiveInvariant, PTL

\* A session that a DELETE named never returns to the store, whatever becomes
\* of the transaction.
THEOREM RevokedStayAway == Spec => []RevokedLocally
<1>1. IInv => RevokedLocally
  BY DEF IInv
<1> QED
  BY <1>1, InductiveInvariant, PTL

\* However many requests race, a session is recorded as deleted once.
THEOREM DeletedOnceOnly == Spec => []DeletedOnce
<1>1. IInv => DeletedOnce
  BY DEF IInv
<1> QED
  BY <1>1, InductiveInvariant, PTL

\* A row becomes durable only while the authority in force grants it: the row
\* FOR SHARE keeps every transition out between the check and the commit.
THEOREM RowsGranted == Spec => RowsAreGranted
<1> DEFINE New == \A row \in audit' \ audit :
         Granted(security, fenced, "authority_administration", DirectionOf(row))
<1>1. IInv /\ [Next]_vars => New \/ UNCHANGED vars
  <2> SUFFICES ASSUME IInv, [Next]_vars, NEW row \in audit' \ audit
              PROVE  Granted(security, fenced, "authority_administration", DirectionOf(row))
    OBVIOUS
  <2>1. PICK r \in Requests : CommitCreate(r) \/ CommitDelete(r)
    BY DEF Next, vars, memory, locks, authority, request, Create, Delete, Get,
       AuthorizeCreate, EnterCreate, FlushCreate, Publish, Revoke, AuthorizeDelete,
       PoolTimeout, AuthorizeLookup, Lookup, Expire, Transition, Restore, Restart
  <2>2. r \in sharing
    BY <2>1 DEF IInv, Shared, CommitCreate, CommitDelete
  <2>3. CASE CommitCreate(r)
    <3>1. May("authority_administration", "broaden")
      BY <2>2, <2>3 DEF IInv, Shared, CommitCreate
    <3> QED
      BY <3>1, BroadenReduces DEF May, DirectionOf
  <2>4. CASE CommitDelete(r)
    <3>1. May("authority_administration", "reduce")
      BY <2>2, <2>4 DEF IInv, Shared, CommitDelete
    <3>2. row = DeleteRow(r)
      BY <2>4 DEF CommitDelete
    <3> QED
      BY <3>1, <3>2 DEF May, DirectionOf, DeleteRow
  <2> QED
    BY <2>1, <2>3, <2>4
<1> QED
  BY <1>1, InductiveInvariant, PTL DEF Spec, RowsAreGranted
=============================================================================
