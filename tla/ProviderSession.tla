-------------------------- MODULE ProviderSession --------------------------
(***************************************************************************)
(* Provider credentials: the store in process memory, the routes that      *)
(* publish and revoke a session, the report route that looks one up, and   *)
(* the durable audit of what was done.                                     *)
(*                                                                         *)
(* Two locks meet here: the store's lock, in the process, and the security *)
(* row, FOR SHARE, in the database.  create takes the row and then the     *)
(* store; delete takes the store and then the row.  Both also need one of  *)
(* the connections of a bounded pool, and so does a lookup, which reads    *)
(* the security row before it waits for the store.                         *)
(*                                                                         *)
(* Abstractions.  A session is named after the request that created it;    *)
(* the audit rows of the code carry no such name, here they do, so that    *)
(* the properties can relate the two.  Only the governed backend is        *)
(* modelled: the memory backend has neither audit nor authority.           *)
(***************************************************************************)
EXTENDS Integers, FiniteSets, SecurityCapability

CONSTANTS
    Requests,       \* invocations of the routes, one session each at most
    None,
    MaxSessions,    \* capacity of the store
    PoolSize,       \* database connections of the process
    Boots           \* bound: restarts of the process

ASSUME SessionAssumption ==
    /\ IsFiniteSet(Requests)
    /\ None \notin Requests
    /\ MaxSessions \in Nat \ {0}
    /\ PoolSize \in Nat \ {0}
    /\ Boots \in Nat

VARIABLES
    store,          \* sessions in memory
    expired,        \* sessions whose time to live is over
    issued,         \* order of publication of each session, 0 before it
    holder,         \* the request inside the store's lock
    connected,      \* requests that hold a database connection
    sharing,        \* requests that hold the security row FOR SHARE
    security,       \* stored security state
    fenced,         \* recovery bootstrap pending
    audit,          \* durable rows
    kind,           \* what each request asks for
    cookie,         \* the session each request names
    active,         \* the request found that session usable
    pc,             \* next step of each request
    boots           \* restarts so far

memory    == <<store, expired, issued, holder>>
locks     == <<connected, sharing>>
authority == <<security, fenced>>
request   == <<kind, cookie, active, pc>>
vars      == <<memory, locks, authority, audit, request, boots>>

Waiting == {"locking", "storing", "committing", "publishing", "revoking",
            "deleting", "looking"}
Ended   == {"refused", "failed", "done", "lost"}

Row == [by: Requests, reason: {"created", "deleted", "already_absent"},
        session: Requests \cup {None}]

Init ==
    /\ store = {} /\ expired = {}
    /\ issued = [r \in Requests |-> 0]
    /\ holder = None
    /\ connected = {} /\ sharing = {}
    /\ security = "normal" /\ fenced = FALSE
    /\ audit = {}
    /\ kind = [r \in Requests |-> "none"]
    /\ cookie = [r \in Requests |-> None]
    /\ active = [r \in Requests |-> FALSE]
    /\ pc = [r \in Requests |-> "idle"]
    /\ boots = 0

----------------------------------------------------------------------------
(* The store.                                                              *)

Published == {s \in Requests : issued[s] # 0}

\* get: a session that is held and has time left.
CookieUsable(s) == s \in Published \ expired           \* mutant of Usable
Usable(s) == s \in store \ expired

\* get forgets the expired session it was asked for.
AfterGet(s) == IF s \in expired THEN store \ {s} ELSE store

\* What create keeps: it purges, then pops the oldest until one place is free.
Kept(live) == {s \in live :
    Cardinality({t \in live : issued[t] > issued[s]}) < MaxSessions - 1}

\* delete: the session is forgotten.
Retained(s)  == store                                 \* mutant of Forgotten
Forgotten(s) == store \ {s}

\* The session a request publishes joins those that are kept.
Joined(s) == Kept(store \ expired) \cup {s}

NextIssue == Cardinality(Published) + 1

----------------------------------------------------------------------------
(* The database.                                                           *)

FreeConnection == Cardinality(connected) < PoolSize

May(capability, direction) == Granted(security, fenced, capability, direction)

\* A transaction begins: the connection, and the row FOR SHARE if it locks.
Connect(r) == /\ FreeConnection
              /\ connected' = connected \cup {r}

NoShare(r) == UNCHANGED sharing                       \* mutant of Share
Share(r) == sharing' = sharing \cup {r}

\* A transaction ends.
Disconnect(r) == /\ connected' = connected \ {r}
                 /\ sharing' = sharing \ {r}

Goto(r, step) == pc' = [pc EXCEPT ![r] = step]

----------------------------------------------------------------------------
(* POST /provider/session                                                  *)

\* authorize_create, before the store's lock.
AuthorizeCreate(r) ==
    /\ pc[r] = "idle"
    /\ FreeConnection
    /\ \E s \in Published \cup {None} : cookie' = [cookie EXCEPT ![r] = s]
    /\ kind' = [kind EXCEPT ![r] = "create"]
    /\ IF May("authority_administration", "broaden")
       THEN /\ Connect(r) /\ Share(r) /\ Goto(r, "locking")
       ELSE /\ Goto(r, "refused") /\ UNCHANGED locks
    /\ UNCHANGED <<memory, authority, audit, active, boots>>

\* locked(), and the question whether a usable session is being replaced.
EnterCreate(r) ==
    /\ pc[r] = "locking"
    /\ holder = None
    /\ holder' = r
    /\ active' = [active EXCEPT ![r] = Usable(cookie[r])]
    /\ store' = AfterGet(cookie[r])
    /\ Goto(r, "storing")
    /\ UNCHANGED <<expired, issued, locks, authority, audit, kind, cookie, boots>>

\* stage and flush: a failure precedes COMMIT and leaves the old session.
FlushCreate(r) ==
    /\ pc[r] = "storing"
    /\ \/ /\ store' = Forgotten(cookie[r])
          /\ Goto(r, "committing")
          /\ UNCHANGED <<holder, locks>>
       \/ /\ holder' = None
          /\ Disconnect(r)
          /\ Goto(r, "failed")
          /\ UNCHANGED store
    /\ UNCHANGED <<expired, issued, authority, audit, kind, cookie, active, boots>>

CreateRows(r) ==
    {[by |-> r, reason |-> "created", session |-> r]}
    \cup IF active[r]
         THEN {[by |-> r, reason |-> "deleted", session |-> cookie[r]]}
         ELSE {}

\* The exception leaves the store's lock before anything is published.
CommitIgnored(r) == Goto(r, "publishing") /\ UNCHANGED holder   \* mutant of CommitFails
CommitFails(r) == Goto(r, "failed") /\ holder' = None

\* commit: acknowledged, or failed with the rows durable or not.
CommitCreate(r) ==
    /\ pc[r] = "committing"
    /\ kind[r] = "create"
    /\ \/ /\ audit' = audit \cup CreateRows(r)
          /\ Goto(r, "publishing")
          /\ UNCHANGED holder
       \/ /\ audit' \in {audit, audit \cup CreateRows(r)}
          /\ CommitFails(r)
    /\ Disconnect(r)
    /\ UNCHANGED <<store, expired, issued, authority, kind, cookie, active, boots>>

\* create in the store, then leave the lock.
Publish(r) ==
    /\ pc[r] = "publishing"
    /\ store' = Joined(r)
    /\ issued' = [issued EXCEPT ![r] = NextIssue]
    /\ holder' = None
    /\ Goto(r, "done")
    /\ UNCHANGED <<expired, locks, authority, audit, kind, cookie, active, boots>>

----------------------------------------------------------------------------
(* DELETE /provider/session                                                *)

\* locked(), then the local revocation, before any database access.
Revoke(r) ==
    /\ pc[r] = "idle"
    /\ holder = None
    /\ \E s \in Published \cup {None} :
          /\ cookie' = [cookie EXCEPT ![r] = s]
          /\ active' = [active EXCEPT ![r] = Usable(s)]
          /\ store' = Forgotten(s)
    /\ kind' = [kind EXCEPT ![r] = "delete"]
    /\ holder' = r
    /\ Goto(r, "revoking")
    /\ UNCHANGED <<expired, issued, locks, authority, audit, boots>>

\* authorize_delete, inside the store's lock: granted, or denied or without a
\* database.
AuthorizeDelete(r) ==
    /\ pc[r] = "revoking"
    /\ FreeConnection
    /\ \/ /\ May("authority_administration", "reduce")
          /\ Connect(r) /\ Share(r)
          /\ Goto(r, "committing")
          /\ UNCHANGED holder
       \/ /\ holder' = None
          /\ Goto(r, "failed")
          /\ UNCHANGED locks
    /\ UNCHANGED <<store, expired, issued, authority, audit, kind, cookie, active, boots>>

\* The pool gives up waiting for a connection.
WaitForever(r) == FALSE /\ UNCHANGED vars             \* mutant of PoolTimeout
PoolTimeout(r) ==
    /\ pc[r] = "revoking"
    /\ ~FreeConnection
    /\ holder' = None
    /\ Goto(r, "failed")
    /\ UNCHANGED <<store, expired, issued, locks, authority, audit, kind, cookie, active, boots>>

DeleteRow(r) ==
    [by |-> r, reason |-> IF active[r] THEN "deleted" ELSE "already_absent",
     session |-> cookie[r]]

\* stage, flush and commit.
CommitDelete(r) ==
    /\ pc[r] = "committing"
    /\ kind[r] = "delete"
    /\ \/ /\ audit' = audit \cup {DeleteRow(r)}
          /\ Goto(r, "done")
       \/ /\ audit' \in {audit, audit \cup {DeleteRow(r)}}
          /\ Goto(r, "failed")
    /\ holder' = None
    /\ Disconnect(r)
    /\ UNCHANGED <<store, expired, issued, authority, kind, cookie, active, boots>>

----------------------------------------------------------------------------
(* The report route: get_report_generator.                                 *)

AuthorizeLookup(r) ==
    /\ pc[r] = "idle"
    /\ FreeConnection
    /\ \E s \in Published : cookie' = [cookie EXCEPT ![r] = s]
    /\ kind' = [kind EXCEPT ![r] = "lookup"]
    /\ IF May("provider_dispatch", "none")
       THEN /\ Connect(r) /\ Goto(r, "looking")
       ELSE /\ Goto(r, "refused") /\ UNCHANGED connected
    /\ UNCHANGED <<memory, sharing, authority, audit, active, boots>>

\* get.  The route's transaction ends later, waiting for nothing else here.
Lookup(r) ==
    /\ pc[r] = "looking"
    /\ holder = None
    /\ active' = [active EXCEPT ![r] = Usable(cookie[r])]
    /\ store' = AfterGet(cookie[r])
    /\ Disconnect(r)
    /\ Goto(r, "done")
    /\ UNCHANGED <<expired, issued, holder, authority, audit, kind, cookie, boots>>

----------------------------------------------------------------------------
(* The environment.                                                        *)

\* A session's time to live ends.
Expire(s) ==
    /\ s \in store \ expired
    /\ expired' = expired \cup {s}
    /\ UNCHANGED <<store, issued, holder, locks, authority, audit, request, boots>>

\* A transition of the security state needs the row for itself.
Transition ==
    /\ sharing = {}
    /\ ~fenced
    /\ \E state \in SecurityState :
          /\ <<security, state>> \in ValidTransitions
          /\ security' = state
    /\ UNCHANGED <<memory, locks, fenced, audit, request, boots>>

\* The process restarts, perhaps into recovery: memory and open transactions
\* are gone.
Restart ==
    /\ boots < Boots
    /\ boots' = boots + 1
    /\ store' = {}
    /\ holder' = None
    /\ connected' = {} /\ sharing' = {}
    /\ pc' = [r \in Requests |-> IF pc[r] \in Waiting THEN "lost" ELSE pc[r]]
    /\ fenced' \in {fenced, TRUE}
    /\ UNCHANGED <<expired, issued, security, audit, kind, cookie, active>>

\* Restoration, whose own conditions SecurityAuthority models.
Restore ==
    /\ fenced
    /\ sharing = {}
    /\ fenced' = FALSE
    /\ security' = "normal"
    /\ UNCHANGED <<memory, locks, audit, request, boots>>

Create(r) == AuthorizeCreate(r) \/ EnterCreate(r) \/ FlushCreate(r)
             \/ CommitCreate(r) \/ Publish(r)
Delete(r) == Revoke(r) \/ AuthorizeDelete(r) \/ PoolTimeout(r) \/ CommitDelete(r)
Get(r)    == AuthorizeLookup(r) \/ Lookup(r)

Next ==
    \/ \E r \in Requests : Create(r) \/ Delete(r) \/ Get(r)
    \/ \E s \in Requests : Expire(s)
    \/ Transition
    \/ Restore
    \/ Restart

Spec == Init /\ [][Next]_vars

\* A request that has begun is a running thread.
Proceed(r) == pc[r] # "idle" /\ (Create(r) \/ Delete(r) \/ Get(r))

FairSpec == Spec /\ \A r \in Requests : WF_vars(Proceed(r))
----------------------------------------------------------------------------
(* Properties.                                                             *)

\* Every variable has the type the code gives it, and the two locks and the
\* pool are held by requests that are waiting inside them.
TypeOK ==
    /\ store \subseteq Published
    /\ expired \subseteq Published
    /\ issued \in [Requests -> Nat]
    /\ holder \in Requests \cup {None}
    /\ connected \subseteq Requests
    /\ sharing \subseteq connected
    /\ security \in SecurityState /\ fenced \in BOOLEAN
    /\ audit \subseteq Row
    /\ kind \in [Requests -> {"none", "create", "delete", "lookup"}]
    /\ cookie \in [Requests -> Requests \cup {None}]
    /\ active \in [Requests -> BOOLEAN]
    /\ pc \in [Requests -> {"idle"} \cup Waiting \cup Ended]
    /\ boots \in 0..Boots

\* No session can be found in the store before the row of its creation is
\* durable, whatever happened to commits, locks and restarts on the way.
UsableIsAudited ==
    \A s \in store : [by |-> s, reason |-> "created", session |-> s] \in audit

\* Whatever becomes of its transaction, a DELETE that began has removed the
\* session its cookie names: denial, a full pool, a failed commit and a
\* concurrent creation do not bring it back.
RevokedLocally ==
    \A r \in Requests : kind[r] = "delete" => cookie[r] \notin store

\* Two requests racing to revoke or replace a session do not both record that
\* they deleted it, and what is recorded as deleted is not usable.
DeletedOnce ==
    \A row \in audit : row.reason = "deleted" =>
        /\ row.session \notin store
        /\ \A other \in audit :
              (other.reason = "deleted" /\ other.session = row.session)
                  => other = row

\* The direction of the capability that a row's operation asks for.
DirectionOf(row) == IF row.reason = "created" THEN "broaden" ELSE "reduce"

\* A row becomes durable only while the authority in force grants what it
\* records: transitions cannot slip between the check and the commit.
RowsAreGranted ==
    [][\A row \in audit' \ audit :
          Granted(security, fenced, "authority_administration", DirectionOf(row))]_vars

\* Every request that began gets an answer: a delete that holds the store's
\* lock may wait for a connection that only requests waiting for that lock
\* hold, and the pool's timeout has to resolve it.
RequestSettles ==
    \A r \in Requests : (pc[r] # "idle") ~> (pc[r] \in Ended)
=============================================================================
