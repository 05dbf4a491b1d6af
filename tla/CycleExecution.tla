--------------------------- MODULE CycleExecution ---------------------------
(***************************************************************************)
(* Bounded research cycles of one investigation: the source and agent      *)
(* runners that execute a cycle, the operators who start, close, recover,  *)
(* pause or conclude it from other requests, and the security state that   *)
(* changes under all of them.                                              *)
(*                                                                         *)
(* Every database transaction of the code that locks the task row is one   *)
(* step here: the row is held FOR UPDATE from the transaction's first read *)
(* to its commit, and the security row FOR SHARE where the code takes it.  *)
(* A capability check made before the lock is a step of its own, and so is *)
(* every external call, so that anything may happen in between.            *)
(*                                                                         *)
(* Abstractions.  One investigation; a runner invocation is its attempt    *)
(* id; an artifact is a source, and the claims extracted from a source are *)
(* one artifact named by that source; every cycle has the same objective   *)
(* indexes, and the results kept per objective are folded into the cycle's *)
(* evidence, claims and attempted objectives.  Text, time and audit rows   *)
(* other than the interruption audit are left out.                         *)
(***************************************************************************)
EXTENDS Integers, Sequences, FiniteSets, SecurityCapability

CONSTANTS
    Runners,        \* runner invocations, each with a fresh attempt id
    SourceRunners,  \* the runners that fetch web sources; the others ask agents
    Operators,      \* requests that check authority first and commit later
    MaxCycles,      \* bound: planned cycles of the investigation
    Objectives,     \* objective indexes of a cycle
    Sources,        \* distinct sources an adapter can return
    MaxArtifacts,   \* bound of the code on evidence or claims of a cycle
    Work,           \* Work[r]: the objectives of each target or question of r
    TaskChanges,    \* bound: task statuses an operator asks for
    StateChanges,   \* bound: security states a transition asks for
    Faults          \* bound: the kinds of failure that may happen

FaultKinds == {"error", "crash", "restart", "recovery"}

ASSUME CycleAssumption ==
    /\ SourceRunners \subseteq Runners
    /\ MaxCycles \in Nat \ {0}
    /\ MaxArtifacts \in Nat
    /\ Work \in [Runners -> Seq(SUBSET Objectives) \ {<<>>}]
    /\ TaskChanges \subseteq {"planned", "active", "paused", "blocked",
                              "concluded", "abandoned", "archived"}
    /\ StateChanges \subseteq SecurityState
    /\ Faults \subseteq FaultKinds

VARIABLES
    task,           \* status of the investigation
    cycle,          \* the saved cycles
    attempt,        \* the durable attempt of each runner
    sources,        \* saved sources
    claims,         \* saved claims
    interrupted,    \* CYCLE_SECURITY_INTERRUPTED events of each attempt
    security,       \* stored security state
    fenced,         \* recovery bootstrap pending
    pc,             \* next step of each runner
    txn,            \* the runner's session is inside a transaction
    local,          \* the runner's in-memory progress
    request         \* an operator request that passed its unlocked check

research  == <<task, cycle, attempt, sources, claims, interrupted>>
authority == <<security, fenced>>
runner    == <<pc, txn, local>>
vars      == <<research, authority, runner, request>>

Cycles == 1..MaxCycles

TaskStatus == {"planned", "active", "paused", "blocked",
               "concluded", "abandoned", "archived"}

\* A cycle the planner has not appended yet is "absent".
CycleStatus    == {"absent", "planned", "active", "completed", "blocked", "failed"}
TerminalCycle  == {"completed", "blocked", "failed"}
CycleReason    == {"none", "operator", "security_policy_interrupted"}

Cycle == [status : CycleStatus, reason : CycleReason, attempted : SUBSET Objectives,
          evidence : SUBSET Sources, claims : SUBSET Sources]

AttemptStatus == {"NONE", "RUNNING", "COMPLETED", "BLOCKED", "FAILED", "INTERRUPTED"}

Attempt == [status : AttemptStatus, cycle : Cycles,
            evidence : SUBSET Sources, claims : SUBSET Sources]

\* The points between two steps of a runner.  Inside the body of its try
\* statement an exception leads to "blocking", "failing" or "interrupting".
TryBody  == {"checkpoint", "attempting", "dispatching", "fetching", "recording",
             "storing", "rechecking", "extracting", "completing"}
Handlers == {"blocking", "failing", "interrupting"}
Ended    == {"refused", "completed", "stopped", "crashed"}
PC       == {"idle", "admitted", "starting", "attaching"} \cup TryBody \cup Handlers \cup Ended

Local == [cycle : Cycles, step : Nat, held : SUBSET Sources,
          attempted : SUBSET Objectives,
          evidence : SUBSET Sources, claims : SUBSET Sources]

\* What an operator has seen when it asks to recover a cycle.
Fingerprint == [task : TaskStatus, cycle : Cycle]

Requests == [kind : {"none", "plan"}]
       \cup [kind : {"start"}, cycle : Cycles]
       \cup [kind : {"recover"}, cycle : Cycles, seen : Fingerprint]
       \cup [kind : {"status"}, expected : TaskStatus, to : TaskStatus]

NoRequest == [kind |-> "none"]

NewCycle(status) == [status |-> status, reason |-> "none", attempted |-> {},
                     evidence |-> {}, claims |-> {}]

NewLocal == [cycle |-> 1, step |-> 1, held |-> {},
             attempted |-> {}, evidence |-> {}, claims |-> {}]

\* create_task leaves an active investigation with a first planned cycle.
Init ==
    /\ task = "active"
    /\ cycle = [c \in Cycles |-> NewCycle(IF c = 1 THEN "planned" ELSE "absent")]
    /\ attempt = [r \in Runners |-> [status |-> "NONE", cycle |-> 1,
                                     evidence |-> {}, claims |-> {}]]
    /\ sources = {}
    /\ claims = {}
    /\ interrupted = [r \in Runners |-> 0]
    /\ security = "normal"
    /\ fenced = FALSE
    /\ pc = [r \in Runners |-> "idle"]
    /\ txn = [r \in Runners |-> FALSE]
    /\ local = [r \in Runners |-> NewLocal]
    /\ request = [o \in Operators |-> NoRequest]

-----------------------------------------------------------------------------
(* Conditions the transactions evaluate under the task lock.               *)

Permitted(capability) == Granted(security, fenced, capability, "none")

Running(r) == attempt[r].status = "RUNNING"
Closed(r)  == attempt[r].status \notin {"NONE", "RUNNING"}

\* The check repeated under the SHARE lock on the security row, whose answer
\* therefore still holds at the commit.
UncheckedWrite == TRUE                                \* mutant of Writable
Writable == Permitted("memory_mutation")

\* The runners' guard: the investigation and the cycle are still active.
StillActive(c) == task = "active" /\ cycle[c].status = "active"

\* An attempt may add to its cycle.
ResumedMayProgress(r) == task = "active"              \* mutant of MayProgress
MayProgress(r) == StillActive(local[r].cycle) /\ Running(r)

\* The collection bound after merging new artifacts into a cycle.
FitsBeforeMerge(c, E, C) ==                           \* mutant of Fits
    Cardinality(cycle[c].evidence) <= MaxArtifacts /\ Cardinality(cycle[c].claims) <= MaxArtifacts
Fits(c, E, C) ==
    /\ Cardinality(cycle[c].evidence \cup E) <= MaxArtifacts
    /\ Cardinality(cycle[c].claims \cup C) <= MaxArtifacts

\* A planned cycle may become active only while no other cycle is.
StartableBesideOthers(c) ==                           \* mutant of Startable
    task = "active" /\ cycle[c].status = "planned"
Startable(c) ==
    /\ task = "active"
    /\ cycle[c].status = "planned"
    /\ \A d \in Cycles : cycle[d].status # "active"

\* An outcome is accepted for an active cycle, within bounds, and only when it
\* cites artifacts of this investigation.
LateOutcomeAccepted(c, A, E, C) ==                    \* mutant of OutcomeAccepted
    /\ cycle[c].status \notin {"absent", "planned"}
    /\ Fits(c, E, C)
    /\ E \subseteq sources /\ C \subseteq claims
OutcomeAccepted(c, A, E, C) ==
    /\ cycle[c].status = "active"
    /\ Fits(c, E, C)
    /\ A \subseteq Objectives
    /\ cycle[c].evidence \cup E \subseteq sources
    /\ cycle[c].claims \cup C \subseteq claims

-----------------------------------------------------------------------------
(* Effects shared by several transactions.                                 *)

Go(r, point, open) ==
    /\ pc' = [pc EXCEPT ![r] = point]
    /\ txn' = [txn EXCEPT ![r] = open]

\* A request that ends takes its session and its variables with it.
Leave(r, point) ==
    /\ Go(r, point, FALSE)
    /\ local' = [local EXCEPT ![r] = NewLocal]

Continue(r, point, open) == Go(r, point, open) /\ UNCHANGED local

\* Committed progress is merged into the cycle, never replaced.
Replaced(c, A, E, C) ==                               \* mutant of Merged
    [cycle[c] EXCEPT !.attempted = A, !.evidence = E, !.claims = C]
Merged(c, A, E, C) ==
    [cycle[c] EXCEPT !.attempted = @ \cup A,
                     !.evidence = @ \cup E,
                     !.claims = @ \cup C]

\* A cycle ended for a reason of its own keeps its progress as it is.
EndedFor(c, status, reason) == [cycle[c] EXCEPT !.status = status, !.reason = reason]

Progress(r, A, E, C) ==
    /\ cycle' = [cycle EXCEPT ![local[r].cycle] = Merged(local[r].cycle, A, E, C)]
    /\ attempt' = [attempt EXCEPT ![r].evidence = @ \cup E, ![r].claims = @ \cup C]

AttemptStatusOf == [completed |-> "COMPLETED", blocked |-> "BLOCKED", failed |-> "FAILED"]

\* Every running attempt of the cycle is closed with the outcome.
AttemptsLeftOpen(c, status) == attempt                \* mutant of ClosedAttempts
ClosedAttempts(c, status) ==
    [r \in Runners |->
        IF Running(r) /\ attempt[r].cycle = c
        THEN [attempt[r] EXCEPT !.status = AttemptStatusOf[status]]
        ELSE attempt[r]]

RecordOutcome(c, status, A, E, C) ==
    /\ cycle' = [cycle EXCEPT ![c] = [Merged(c, A, E, C) EXCEPT !.status = status]]
    /\ attempt' = ClosedAttempts(c, status)
    /\ UNCHANGED <<task, sources, claims, interrupted>>

-----------------------------------------------------------------------------
(* A runner: admission, activation and attachment.                         *)

DispatchCapability(r) == IF r \in SourceRunners THEN "source_retrieval" ELSE "agent_dispatch"

\* run() first asks, without a lock, whether its adapter may be used.
Admit(r) ==
    /\ pc[r] = "idle"
    /\ \/ /\ Permitted(DispatchCapability(r))
          /\ \E c \in Cycles : local' = [local EXCEPT ![r].cycle = c]
          /\ Go(r, "admitted", TRUE)
       \/ /\ ~Permitted(DispatchCapability(r))
          /\ Leave(r, "refused")
    /\ UNCHANGED <<research, authority, request>>

\* start_cycle checks START_CYCLE before it locks the task.
CheckStart(r) ==
    /\ pc[r] = "admitted"
    /\ IF Permitted("start_cycle") THEN Continue(r, "starting", TRUE) ELSE Leave(r, "refused")
    /\ UNCHANGED <<research, authority, request>>

\* The cycle and its running attempt become durable in one transaction.
Start(r) ==
    LET c == local[r].cycle IN
    /\ pc[r] = "starting"
    /\ \/ /\ Startable(c)
          /\ cycle' = [cycle EXCEPT ![c].status = "active"]
          /\ attempt' = [attempt EXCEPT ![r].status = "RUNNING", ![r].cycle = c]
          /\ Continue(r, "attaching", FALSE)
       \/ /\ ~Startable(c)
          /\ Leave(r, "refused")
          /\ UNCHANGED <<cycle, attempt>>
    /\ UNCHANGED <<task, sources, claims, interrupted, authority, request>>

\* Attaching happens before the try statement: its conflict ends the request.
Attach(r) ==
    /\ pc[r] = "attaching"
    /\ IF Running(r) THEN Continue(r, "checkpoint", TRUE) ELSE Leave(r, "stopped")
    /\ UNCHANGED <<research, authority, request>>

-----------------------------------------------------------------------------
(* A runner: one target or question.                                       *)

FirstObjective(r) == Work[r][1]                       \* mutant of Objective
Objective(r) == Work[r][local[r].step]

\* A source runner marks the attempt before its dispatch check, an agent
\* runner between that check and the question.
AfterCheckpoint(r) == IF r \in SourceRunners THEN "attempting" ELSE "dispatching"
AfterAttempt(r)    == IF r \in SourceRunners THEN "dispatching" ELSE "fetching"
AfterDispatch(r)   == IF r \in SourceRunners THEN "fetching" ELSE "attempting"

\* The guard under the task lock, released at once by a rollback.
Checkpoint(r) ==
    /\ \/ /\ pc[r] = "checkpoint"
          /\ IF StillActive(local[r].cycle) THEN Go(r, AfterCheckpoint(r), FALSE)
                                            ELSE Go(r, "blocking", FALSE)
       \/ /\ pc[r] = "rechecking"
          /\ IF StillActive(local[r].cycle) THEN Go(r, "extracting", FALSE)
                                            ELSE Go(r, "blocking", FALSE)
    /\ UNCHANGED <<research, authority, local, request>>

\* progress.attempt: the attempted objectives are committed before dispatch.
MarkAttempted(r) ==
    /\ pc[r] = "attempting"
    /\ \/ /\ MayProgress(r)
          /\ Progress(r, Objective(r), {}, {})
          /\ local' = [local EXCEPT ![r].attempted = @ \cup Objective(r)]
          /\ Go(r, AfterAttempt(r), FALSE)
       \/ /\ ~MayProgress(r)
          /\ Go(r, "blocking", FALSE)
          /\ UNCHANGED <<cycle, attempt, local>>
    /\ UNCHANGED <<task, sources, claims, interrupted, authority, request>>

\* The unlocked check before dispatch opens a transaction that only the next
\* commit or rollback ends.
Dispatch(r) ==
    /\ pc[r] = "dispatching"
    /\ IF Permitted(DispatchCapability(r)) THEN Go(r, AfterDispatch(r), TRUE)
                                           ELSE Go(r, "interrupting", FALSE)
    /\ UNCHANGED <<research, authority, local, request>>

\* The external call answers with a source or fails; record_failure then rolls
\* back and the handler blocks the cycle.
Fetch(r) ==
    /\ pc[r] = "fetching"
    /\ \/ /\ \E s \in Sources : local' = [local EXCEPT ![r].held = {s}]
          /\ Go(r, "recording", txn[r])
       \/ /\ Go(r, "blocking", FALSE)
          /\ UNCHANGED local
    /\ UNCHANGED <<research, authority, request>>

\* create_source begins with a check made before the task lock.
CheckRecord(r) ==
    /\ pc[r] = "recording"
    /\ IF Permitted("memory_mutation") THEN Go(r, "storing", TRUE)
                                       ELSE Go(r, "interrupting", FALSE)
    /\ UNCHANGED <<research, authority, local, request>>

\* The locked part of create_source: authority, then the guard, then the source
\* (reused when it is already saved) and the cycle's progress, in one commit.
Store(r) ==
    LET S == local[r].held
        accepted == MayProgress(r) /\ Fits(local[r].cycle, S, {})
    IN
    /\ pc[r] = "storing"
    /\ \/ /\ Writable
          /\ accepted
          /\ sources' = sources \cup S
          /\ Progress(r, Objective(r), S, {})
          /\ local' = [local EXCEPT ![r].evidence = @ \cup S]
          /\ Go(r, "rechecking", FALSE)
       \/ /\ ~(Writable /\ accepted)
          /\ Go(r, IF Writable THEN "blocking" ELSE "interrupting", FALSE)
          /\ UNCHANGED <<sources, cycle, attempt, local>>
    /\ UNCHANGED <<task, claims, interrupted, authority, request>>

\* extract_for_source proposes no claims or those of the source, then saves
\* them under the lock.  Only a claim that is not saved yet needs authority.
Extract(r) ==
    /\ pc[r] = "extracting"
    /\ \E C \in {{}, local[r].held} :
        LET denied   == C \ claims # {} /\ ~Writable
            accepted == MayProgress(r) /\ Fits(local[r].cycle, {}, C)
        IN
        \/ /\ accepted
           /\ ~denied
           /\ claims' = claims \cup C
           /\ Progress(r, Objective(r), {}, C)
           /\ local' = [local EXCEPT ![r].claims = @ \cup C,
                                     ![r].step = @ + 1,
                                     ![r].held = {}]
           /\ Go(r, IF local[r].step < Len(Work[r]) THEN "checkpoint" ELSE "completing", FALSE)
        \/ /\ ~accepted \/ denied
           /\ Go(r, IF StillActive(local[r].cycle) /\ denied THEN "interrupting"
                                                             ELSE "blocking", FALSE)
           /\ UNCHANGED <<claims, cycle, attempt, local>>
    /\ UNCHANGED <<task, sources, interrupted, authority, request>>

-----------------------------------------------------------------------------
(* A runner: how it ends.                                                  *)

\* The completed outcome needs an active investigation, any other does not.
Complete(r) ==
    LET m == local[r]
        accepted == task = "active" /\ OutcomeAccepted(m.cycle, m.attempted, m.evidence, m.claims)
    IN
    /\ pc[r] = "completing"
    /\ \/ /\ Writable
          /\ accepted
          /\ RecordOutcome(m.cycle, "completed", m.attempted, m.evidence, m.claims)
          /\ Leave(r, "completed")
       \/ /\ ~(Writable /\ accepted)
          /\ Continue(r, IF Writable THEN "blocking" ELSE "interrupting", FALSE)
          /\ UNCHANGED research
    /\ UNCHANGED <<authority, request>>

\* recover("blocked") and recover("failed").  A rejected outcome ends the
\* request whether or not somebody else closed the cycle.
Recover(r) ==
    LET m == local[r]
        accepted == OutcomeAccepted(m.cycle, m.attempted, m.evidence, m.claims)
    IN
    /\ pc[r] \in {"blocking", "failing"}
    /\ \/ /\ Writable
          /\ accepted
          /\ RecordOutcome(m.cycle, IF pc[r] = "blocking" THEN "blocked" ELSE "failed",
                           m.attempted, m.evidence, m.claims)
          /\ Leave(r, "stopped")
       \/ /\ ~Writable
          /\ Continue(r, "interrupting", FALSE)
          /\ UNCHANGED research
       \/ /\ Writable /\ ~accepted
          /\ Leave(r, "stopped")
          /\ UNCHANGED research
    /\ UNCHANGED <<authority, request>>

\* Containment may close exactly the caller's running attempt.
ClosableAsOutcome(r) ==                               \* mutant of Closable
    Writable /\ Running(r) /\ cycle[local[r].cycle].status = "active"
Closable(r) ==
    LET c == local[r].cycle IN
    /\ Granted(security, fenced, "security_containment", "reduce")
    /\ attempt[r].cycle = c
    /\ cycle[c].status = "active"
    /\ {q \in Runners : Running(q) /\ attempt[q].cycle = c} = {r}

\* CycleInterruptionService.close.  Its branch for an exact repeat needs a
\* second call for one attempt, which no runner makes.
AuditBeforeValidation(r) ==                           \* mutant of Close
    LET c == local[r].cycle IN
    /\ pc[r] = "interrupting"
    /\ interrupted' = [interrupted EXCEPT ![r] = @ + 1]
    /\ \/ /\ Closable(r)
          /\ cycle' = [cycle EXCEPT ![c] = EndedFor(c, "blocked", "security_policy_interrupted")]
          /\ attempt' = [attempt EXCEPT ![r].status = "INTERRUPTED"]
       \/ ~Closable(r) /\ UNCHANGED <<cycle, attempt>>
    /\ Leave(r, "stopped")
    /\ UNCHANGED <<task, sources, claims, authority, request>>

Close(r) ==
    LET c == local[r].cycle IN
    /\ pc[r] = "interrupting"
    /\ \/ /\ Closable(r)
          /\ cycle' = [cycle EXCEPT ![c] = EndedFor(c, "blocked", "security_policy_interrupted")]
          /\ attempt' = [attempt EXCEPT ![r].status = "INTERRUPTED"]
          /\ interrupted' = [interrupted EXCEPT ![r] = @ + 1]
       \/ /\ ~Closable(r)
          /\ UNCHANGED <<cycle, attempt, interrupted>>
    /\ Leave(r, "stopped")
    /\ UNCHANGED <<task, sources, claims, authority, request>>

\* An unexpected exception inside the try statement.
Fail(r) ==
    /\ "error" \in Faults
    /\ pc[r] \in TryBody
    /\ Continue(r, "failing", FALSE)
    /\ UNCHANGED <<research, authority, request>>

\* The request dies, or its handler does: nothing closes the attempt.
Crash(r) ==
    /\ "crash" \in Faults
    /\ pc[r] \notin Ended \cup {"idle"}
    /\ Leave(r, "crashed")
    /\ UNCHANGED <<research, authority, request>>

-----------------------------------------------------------------------------
(* Operators.  Planning, starting, recovering and changing status check    *)
(* authority without a lock and commit in a later step.                    *)

Needs(kind) == IF kind \in {"plan", "start"} THEN "start_cycle" ELSE "memory_mutation"

Seen(c) == [task |-> task, cycle |-> cycle[c]]

Asked ==
    {[kind |-> "plan"]}
    \cup {[kind |-> "start", cycle |-> c] : c \in Cycles}
    \cup {[kind |-> "recover", cycle |-> c, seen |-> Seen(c)] : c \in Cycles}
    \cup {[kind |-> "status", expected |-> task, to |-> t] : t \in TaskChanges}

Ask(o) ==
    /\ request[o] = NoRequest
    /\ \E q \in Asked :
        /\ Permitted(Needs(q.kind))
        /\ request' = [request EXCEPT ![o] = q]
    /\ UNCHANGED <<research, authority, runner>>

Pending(o, kind) == request[o] # NoRequest /\ request[o].kind = kind

Answered(o) == request' = [request EXCEPT ![o] = NoRequest]

\* The next cycle is appended while none is active, if the planner has
\* objectives left.
PlanNext(o) ==
    /\ Pending(o, "plan")
    /\ \/ /\ task = "active"
          /\ \A c \in Cycles : cycle[c].status # "active"
          /\ \E c \in Cycles :
               /\ cycle[c].status = "absent"
               /\ \A d \in 1..(c - 1) : cycle[d].status # "absent"
               /\ cycle' = [cycle EXCEPT ![c] = NewCycle("planned")]
       \/ UNCHANGED cycle
    /\ Answered(o)
    /\ UNCHANGED <<task, attempt, sources, claims, interrupted, authority, runner>>

\* A manual start creates no attempt; an active cycle is left as it is.
ManualStart(o) ==
    LET c == request[o].cycle IN
    /\ Pending(o, "start")
    /\ \/ /\ Startable(c)
          /\ cycle' = [cycle EXCEPT ![c].status = "active"]
       \/ /\ ~Startable(c)
          /\ UNCHANGED cycle
    /\ Answered(o)
    /\ UNCHANGED <<task, attempt, sources, claims, interrupted, authority, runner>>

\* Recovery is for an active cycle whose fingerprint is the observed one.
Recoverable(c, seen) == cycle[c].status = "active" /\ seen = Seen(c)

\* Operator recovery is bound to what the operator saw; it interrupts the
\* running attempt, fails the cycle and pauses the investigation.
RecoverCycle(o) ==
    LET c == request[o].cycle
        running == {r \in Runners : Running(r) /\ attempt[r].cycle = c}
        accepted == Recoverable(c, request[o].seen)
    IN
    /\ Pending(o, "recover")
    /\ \/ /\ accepted
          /\ \/ /\ running = {}
                /\ UNCHANGED attempt
             \/ \E r \in running : attempt' = [attempt EXCEPT ![r].status = "INTERRUPTED"]
          /\ cycle' = [cycle EXCEPT ![c] = EndedFor(c, "failed", "operator")]
          /\ task' = IF task = "active" THEN "paused" ELSE task
       \/ /\ ~accepted
          /\ UNCHANGED <<task, cycle, attempt>>
    /\ Answered(o)
    /\ UNCHANGED <<sources, claims, interrupted, authority, runner>>

TaskTransitions ==
    [planned   |-> {"active", "blocked", "abandoned"},
     active    |-> {"paused", "blocked", "concluded", "abandoned"},
     paused    |-> {"active", "blocked", "concluded", "abandoned"},
     blocked   |-> {"active", "paused", "concluded", "abandoned"},
     concluded |-> {"archived"},
     abandoned |-> {"archived"},
     archived  |-> {}]

\* A status change names the status it was asked for in.
ChangeStatus(o) ==
    LET accepted == task = request[o].expected /\ request[o].to \in TaskTransitions[task] IN
    /\ Pending(o, "status")
    /\ task' = IF accepted THEN request[o].to ELSE task
    /\ Answered(o)
    /\ UNCHANGED <<cycle, attempt, sources, claims, interrupted, authority, runner>>

\* The public outcome route: one transaction under task and authority locks.
ManualOutcome ==
    /\ Writable
    /\ \E c \in Cycles, status \in TerminalCycle, A \in SUBSET Objectives,
          E \in SUBSET sources, C \in SUBSET claims :
            /\ OutcomeAccepted(c, A, E, C)
            /\ RecordOutcome(c, status, A, E, C)
    /\ UNCHANGED <<authority, runner, request>>

-----------------------------------------------------------------------------
(* The security state, as the cycles see it.                               *)

\* A transition is refused while the recovery fence is pending.
SecurityTransition ==
    /\ ~fenced
    /\ \E s \in StateChanges :
        /\ <<security, s>> \in ValidTransitions
        /\ security' = s
    /\ UNCHANGED <<research, fenced, runner, request>>

\* A restart ends every request of the process.  Started in recovery mode it
\* sets the fence; started in continuing mode it keeps what it finds.
Restart ==
    /\ \/ /\ "restart" \in Faults
          /\ UNCHANGED fenced
       \/ /\ "recovery" \in Faults
          /\ fenced' = TRUE
    /\ pc' = [r \in Runners |-> IF pc[r] \in Ended \cup {"idle"} THEN pc[r] ELSE "crashed"]
    /\ txn' = [r \in Runners |-> FALSE]
    /\ local' = [r \in Runners |-> NewLocal]
    /\ request' = [o \in Operators |-> NoRequest]
    /\ UNCHANGED <<research, security>>

\* Restoration reconciles every durable attempt before it clears the fence.
Restore ==
    /\ fenced
    /\ \A r \in Runners : ~Running(r)
    /\ security' = "normal"
    /\ fenced' = FALSE
    /\ UNCHANGED <<research, runner, request>>

-----------------------------------------------------------------------------
\* The steps of a runner that its scheduler takes without anybody's decision.
Step(r) ==
    \/ CheckStart(r) \/ Start(r) \/ Attach(r)
    \/ Checkpoint(r) \/ MarkAttempted(r) \/ Dispatch(r) \/ Fetch(r)
    \/ CheckRecord(r) \/ Store(r) \/ Extract(r)
    \/ Complete(r) \/ Recover(r) \/ Close(r)

RunnerStep(r) == Admit(r) \/ Step(r) \/ Fail(r) \/ Crash(r)

OperatorStep(o) ==
    Ask(o) \/ PlanNext(o) \/ ManualStart(o) \/ RecoverCycle(o) \/ ChangeStatus(o)

Environment == ManualOutcome \/ SecurityTransition \/ Restart \/ Restore

Next ==
    \/ \E r \in Runners : RunnerStep(r)
    \/ \E o \in Operators : OperatorStep(o)
    \/ Environment

Spec == Init /\ [][Next]_vars

\* A request handler keeps running: adapters answer or time out, locks are
\* released by every commit or rollback.  Operators and security changes are
\* nobody's duty.
FairSpec == Spec /\ \A r \in Runners : WF_vars(Step(r))

-----------------------------------------------------------------------------
(* Safety.                                                                 *)

\* Every variable keeps its type.
TypeOK ==
    /\ task \in TaskStatus
    /\ cycle \in [Cycles -> Cycle]
    /\ attempt \in [Runners -> Attempt]
    /\ sources \in SUBSET Sources
    /\ claims \in SUBSET Sources
    /\ interrupted \in [Runners -> Nat]
    /\ security \in SecurityState
    /\ fenced \in BOOLEAN
    /\ pc \in [Runners -> PC]
    /\ txn \in [Runners -> BOOLEAN]
    /\ local \in [Runners -> Local]
    /\ request \in [Operators -> Requests]

\* start_cycle and plan_next_cycle never leave two cycles active, whatever
\* manual and exclusive starts race.
SingleActiveCycle ==
    \A c, d \in Cycles : cycle[c].status = "active" /\ cycle[d].status = "active" => c = d

\* No writer of a cycle's end forgets its attempt: a RUNNING attempt belongs to
\* an active cycle and is that cycle's only running attempt.
RunningAttemptOwnsCycle ==
    \A r \in Runners : Running(r) =>
        /\ cycle[attempt[r].cycle].status = "active"
        /\ \A q \in Runners : Running(q) /\ attempt[q].cycle = attempt[r].cycle => q = r

\* Everything a cycle or an attempt cites was saved in the investigation, and
\* what an attempt recorded is kept by its cycle within the collection bound.
ArtifactsTraceable ==
    /\ \A c \in Cycles : /\ cycle[c].evidence \subseteq sources
                         /\ cycle[c].claims \subseteq claims
                         /\ Cardinality(cycle[c].evidence) <= MaxArtifacts
                         /\ Cardinality(cycle[c].claims) <= MaxArtifacts
    /\ \A r \in Runners : /\ attempt[r].evidence \subseteq cycle[attempt[r].cycle].evidence
                          /\ attempt[r].claims \subseteq cycle[attempt[r].cycle].claims

\* Containment is recorded exactly once for each attempt it closed, and for no
\* attempt that an operator or an outcome closed (cycle closure, INV-04).
InterruptionAudited ==
    \A r \in Runners :
        interrupted[r] = IF /\ attempt[r].status = "INTERRUPTED"
                            /\ cycle[attempt[r].cycle].reason = "security_policy_interrupted"
                         THEN 1 ELSE 0

\* A runner reports completion only for a cycle that is completed, in which it
\* attempted all its objectives and saved evidence.
CompletionIsEarned ==
    \A r \in Runners : pc[r] = "completed" =>
        LET c == cycle[attempt[r].cycle] IN
        /\ attempt[r].status = "COMPLETED"
        /\ c.status = "completed"
        /\ UNION {Work[r][i] : i \in DOMAIN Work[r]} \subseteq c.attempted
        /\ attempt[r].evidence # {}

-----------------------------------------------------------------------------
(* What makes the invariants above inductive.                              *)

BeforeStart == {"idle", "admitted", "starting"}
Attached    == {"attaching"} \cup TryBody \cup Handlers

\* A runner has targets left until it completes or handles an error.
StepInRange ==
    \A r \in Runners :
        /\ local[r].step \in Nat \ {0}
        /\ pc[r] \notin Handlers \cup {"completing"} => local[r].step <= Len(Work[r])

\* A runner that has started works on the cycle of its own attempt; one that
\* has not has none.
RunnerOwnsAttempt ==
    \A r \in Runners :
        /\ pc[r] \in BeforeStart => attempt[r].status = "NONE"
        /\ pc[r] \in Attached => /\ attempt[r].status # "NONE"
                                /\ attempt[r].cycle = local[r].cycle

\* No cycle outlives the end of its attempt.
ClosedAttemptClosedCycle ==
    \A r \in Runners :
        Closed(r) => cycle[attempt[r].cycle].status \in TerminalCycle

\* The inductive invariant: together these say that a runner, its attempt and
\* its cycle end together, which single transactions must establish.
IInv ==
    /\ TypeOK
    /\ StepInRange
    /\ SingleActiveCycle
    /\ RunningAttemptOwnsCycle
    /\ RunnerOwnsAttempt
    /\ ClosedAttemptClosedCycle
    /\ InterruptionAudited

\* Nothing is recorded for a cycle before it is planned or for an attempt
\* before it runs.
UntouchedEmpty ==
    /\ \A c \in Cycles : cycle[c].status = "absent" => cycle[c] = NewCycle("absent")
    /\ \A r \in Runners :
           attempt[r].status = "NONE" => attempt[r].evidence = {} /\ attempt[r].claims = {}

\* Inductive beside IInv: no artifact of a cycle or an attempt is untraceable.
Traceable == ArtifactsTraceable /\ UntouchedEmpty

\* The points at which the objectives of the current target have been
\* committed as attempted.
MarkedAt(r) == {"fetching", "recording", "storing", "rechecking", "extracting"}
               \cup (IF r \in SourceRunners THEN {"dispatching"} ELSE {})

\* What a runner that has neither ended nor failed has done: the targets
\* before the current one are attempted, and each of them left evidence.
Worked(r) ==
    pc[r] \in BeforeStart \cup {"attaching"} \cup TryBody =>
        /\ \A i \in 1..(local[r].step - 1) : Work[r][i] \subseteq local[r].attempted
        /\ local[r].step > 1 => local[r].evidence # {}
        /\ local[r].evidence \subseteq attempt[r].evidence
        /\ pc[r] \in MarkedAt(r) => Work[r][local[r].step] \subseteq local[r].attempted
        /\ pc[r] \in {"recording", "storing"} => local[r].held # {}
        /\ pc[r] \in {"rechecking", "extracting"} => local[r].evidence # {}
        /\ pc[r] = "completing" => local[r].step > Len(Work[r])

\* Inductive beside IInv and Traceable: completion is earned step by step.
EarnedInv == (\A r \in Runners : Worked(r)) /\ CompletionIsEarned

-----------------------------------------------------------------------------
(* Action properties.                                                      *)

\* A finished cycle and a closed attempt are never written again: no late
\* runner outcome overwrites an operator's, no recovery reopens one.
KeepsTerminal ==
    /\ \A c \in Cycles : cycle[c].status \in TerminalCycle => cycle'[c] = cycle[c]
    /\ \A r \in Runners : Closed(r) => attempt'[r] = attempt[r]

TerminalFrozen == [][KeepsTerminal]_vars

\* Whoever closes a cycle keeps its committed progress.
ProgressRetained ==
    [][/\ \A c \in Cycles : /\ cycle[c].attempted \subseteq cycle'[c].attempted
                            /\ cycle[c].evidence \subseteq cycle'[c].evidence
                            /\ cycle[c].claims \subseteq cycle'[c].claims
       /\ sources \subseteq sources'
       /\ claims \subseteq claims']_vars

\* New sources and claims are saved only under normal, unfenced authority and
\* in an active investigation, although every check before the lock may be
\* stale by then.
SavesUnderAuthority ==
    sources' # sources \/ claims' # claims
        => security = "normal" /\ ~fenced /\ task = "active"

EvidenceNeedsAuthority == [][SavesUnderAuthority]_vars

\* A closed attempt is powerless (INV-05): its runner changes nothing any more,
\* even when the investigation is active again or another cycle is.
ClosedRunnersAreIdle ==
    \A r \in Runners : Closed(r) /\ pc'[r] # pc[r] => UNCHANGED research

ClosedAttemptIsPowerless == [][ClosedRunnersAreIdle]_vars

-----------------------------------------------------------------------------
(* Liveness.                                                               *)

\* A running attempt is always closed, under pause, conclusion and lockdown
\* alike and whatever its work raises, unless its process dies or a recovery
\* fence is set.
AttemptSettles ==
    \A r \in Runners : Running(r) ~> ~Running(r) \/ pc[r] = "crashed" \/ fenced

-----------------------------------------------------------------------------
(* Statements of the documents that the code does not keep.                *)

\* INV-03: no transaction stays open across external work.
NoTransactionAcrossFetch ==
    \A r \in Runners : pc[r] = "fetching" => ~txn[r]

\* INV-01: stale authority never silently grants permission.
StartNeedsAuthority ==
    [][\A c \in Cycles : cycle[c].status = "planned" /\ cycle'[c].status = "active"
        => Permitted("start_cycle")]_vars

-----------------------------------------------------------------------------
(* The authority it runs under.                                            *)

Governing == INSTANCE AuthorityEnvironment WITH open <- {r \in Runners : Running(r)}

\* Nothing else is assumed of the authority than SecurityAuthority implements.
GovernedAsPromised == Governing!Spec
=============================================================================
