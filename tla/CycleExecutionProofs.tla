------------------------ MODULE CycleExecutionProofs ------------------------
(***************************************************************************)
(* Theorems about CycleExecution, for any number of runners, operators,    *)
(* cycles, objectives and sources and any workload.                        *)
(*                                                                         *)
(* IInv is inductive: IInvInit covers the initial states, one lemma per    *)
(* group of actions covers the steps, IInvStep collects them.  The action  *)
(* theorems then read off what a step does under IInv.                     *)
(*                                                                         *)
(* Two more invariants are inductive beside IInv.  Traceable rests on      *)
(* Grows, what any step may add to a cycle and to an attempt; EarnedInv    *)
(* rests on Worked, what a runner has done at each of its control points.  *)
(***************************************************************************)
EXTENDS CycleExecution, FiniteSetTheorems, TLAPS

\* The assumptions on the constants, in the form the proofs use.
LEMMA CyclesNonempty == 1 \in Cycles
  BY CycleAssumption DEF Cycles

\* What the current target of a runner that has targets left is made of.
LEMMA ObjectiveType ==
  ASSUME TypeOK, StepInRange, NEW r \in Runners,
         pc[r] \notin Handlers \cup {"completing"}
  PROVE  Objective(r) \in SUBSET Objectives
  <1>1. Work[r] \in Seq(SUBSET Objectives)
    BY CycleAssumption
  <1>2. local[r].step \in 1..Len(Work[r])
    BY <1>1 DEF StepInRange
  <1> QED
    BY <1>1, <1>2 DEF Objective

LEMMA WorkNonempty ==
  ASSUME NEW r \in Runners
  PROVE  1 <= Len(Work[r])
  <1>1. Work[r] \in Seq(SUBSET Objectives) /\ Work[r] # <<>>
    BY CycleAssumption
  <1> QED
    BY <1>1

LEMMA IInvInit == Init => IInv
  <1> SUFFICES ASSUME Init PROVE IInv
    OBVIOUS
  <1>1. TypeOK
    BY CyclesNonempty
    DEF Init, TypeOK, TaskStatus, Cycle, CycleStatus, CycleReason, Attempt, AttemptStatus,
        NewCycle, NewLocal, Local, PC, Requests, NoRequest, SecurityState
  <1>2. StepInRange
    BY WorkNonempty DEF Init, StepInRange, NewLocal, Handlers
  <1>3. \A c \in Cycles : cycle[c].status # "active"
    BY DEF Init, NewCycle
  <1>4. \A r \in Runners : attempt[r].status = "NONE" /\ pc[r] = "idle" /\ interrupted[r] = 0
    BY DEF Init
  <1> QED
    BY <1>1, <1>2, <1>3, <1>4
    DEF IInv, SingleActiveCycle, RunningAttemptOwnsCycle, Running, RunnerOwnsAttempt,
        ClosedAttemptClosedCycle, Closed, InterruptionAudited, BeforeStart, Attached, TryBody, Handlers

-----------------------------------------------------------------------------
(* IInv, split by what disturbs it: the saved research state, the runners, *)
(* and the rest of the types.                                              *)

ResearchInv ==
    /\ task \in TaskStatus
    /\ cycle \in [Cycles -> Cycle]
    /\ attempt \in [Runners -> Attempt]
    /\ sources \in SUBSET Sources
    /\ claims \in SUBSET Sources
    /\ interrupted \in [Runners -> Nat]
    /\ SingleActiveCycle
    /\ RunningAttemptOwnsCycle
    /\ ClosedAttemptClosedCycle
    /\ InterruptionAudited

RunnerInv ==
    /\ pc \in [Runners -> PC]
    /\ txn \in [Runners -> BOOLEAN]
    /\ local \in [Runners -> Local]
    /\ StepInRange
    /\ RunnerOwnsAttempt

OtherTypes ==
    /\ security \in SecurityState
    /\ fenced \in BOOLEAN
    /\ request \in [Operators -> Requests]

LEMMA IInvSplit == IInv <=> ResearchInv /\ RunnerInv /\ OtherTypes
  BY DEF IInv, TypeOK, ResearchInv, RunnerInv, OtherTypes

LEMMA IInvSplitPrime == IInv' <=> ResearchInv' /\ RunnerInv' /\ OtherTypes'
  BY DEF IInv, TypeOK, ResearchInv, RunnerInv, OtherTypes

\* The research part only depends on the research variables.
LEMMA ResearchKept ==
  ASSUME ResearchInv, UNCHANGED research
  PROVE  ResearchInv'
  BY DEF ResearchInv, research, SingleActiveCycle, RunningAttemptOwnsCycle, Running,
         ClosedAttemptClosedCycle, Closed, InterruptionAudited

\* How one runner may move while the attempts of the others keep their
\* identity.
AttemptsKeepIdentity ==
    \A q \in Runners :
        /\ attempt[q].status = "NONE" => attempt'[q].status = "NONE"
        /\ attempt[q].status # "NONE" => /\ attempt'[q].status # "NONE"
                                         /\ attempt'[q].cycle = attempt[q].cycle

LEMMA RunnerMoves ==
  ASSUME RunnerInv, NEW r \in Runners, NEW p \in PC, NEW b \in BOOLEAN, Go(r, p, b),
         local' \in [Runners -> Local],
         \A q \in Runners \ {r} : local'[q] = local[q],
         \A q \in Runners \ {r} :
            /\ attempt[q].status = "NONE" => attempt'[q].status = "NONE"
            /\ attempt[q].status # "NONE" => /\ attempt'[q].status # "NONE"
                                             /\ attempt'[q].cycle = attempt[q].cycle,
         local'[r].step \in Nat \ {0},
         p \notin Handlers \cup {"completing"} => local'[r].step <= Len(Work[r]),
         p \in BeforeStart => attempt'[r].status = "NONE",
         p \in Attached => /\ attempt'[r].status # "NONE"
                           /\ attempt'[r].cycle = local'[r].cycle
  PROVE  RunnerInv'
  <1>1. pc' \in [Runners -> PC] /\ txn' \in [Runners -> BOOLEAN]
    BY DEF Go, RunnerInv
  <1>2. pc'[r] = p /\ \A q \in Runners \ {r} : pc'[q] = pc[q]
    BY DEF Go, RunnerInv
  <1>3. StepInRange'
    BY <1>2 DEF RunnerInv, StepInRange
  <1>4. RunnerOwnsAttempt'
    BY <1>2 DEF RunnerInv, RunnerOwnsAttempt
  <1> QED
    BY <1>1, <1>3, <1>4 DEF RunnerInv

\* A runner whose request ends leaves a fresh record behind.
LEMMA RunnerLeaves ==
  ASSUME RunnerInv, NEW r \in Runners, NEW p \in Ended, Leave(r, p),
         AttemptsKeepIdentity
  PROVE  RunnerInv'
  <1>1. p \in PC /\ p \notin BeforeStart /\ p \notin Attached /\ p \notin Handlers \cup {"completing"}
    BY DEF Ended, PC, BeforeStart, Attached, TryBody, Handlers
  <1>2. NewLocal \in Local /\ NewLocal.step = 1
    BY CyclesNonempty DEF NewLocal, Local
  <1>3. /\ local' \in [Runners -> Local]
        /\ local'[r] = NewLocal
        /\ \A q \in Runners \ {r} : local'[q] = local[q]
    BY <1>2 DEF Leave, RunnerInv
  <1>4. 1 <= Len(Work[r])
    BY WorkNonempty
  <1>5. Go(r, p, FALSE) /\ FALSE \in BOOLEAN
    BY DEF Leave
  <1>6. local'[r].step \in Nat \ {0} /\ local'[r].step <= Len(Work[r])
    BY <1>2, <1>3, <1>4
  <1> QED
    BY <1>1, <1>3, <1>5, <1>6, RunnerMoves DEF AttemptsKeepIdentity

LEMMA RunnerContinues ==
  ASSUME RunnerInv, NEW r \in Runners, NEW p \in Attached, NEW b \in BOOLEAN,
         Go(r, p, b), UNCHANGED local, pc[r] \in Attached, AttemptsKeepIdentity,
         p \notin Handlers \cup {"completing"} => pc[r] \notin Handlers \cup {"completing"}
  PROVE  RunnerInv'
  <1>1. p \in PC /\ p \notin BeforeStart
    BY DEF PC, Attached, TryBody, Handlers, BeforeStart
  <1>2. /\ attempt'[r].status # "NONE"
        /\ attempt'[r].cycle = local[r].cycle
    BY DEF AttemptsKeepIdentity, RunnerInv, RunnerOwnsAttempt
  <1>3. local'[r].step \in Nat \ {0}
    BY DEF RunnerInv, StepInRange
  <1>4. p \notin Handlers \cup {"completing"} => local'[r].step <= Len(Work[r])
    BY DEF RunnerInv, StepInRange
  <1> QED
    BY <1>1, <1>2, <1>3, <1>4, RunnerMoves DEF AttemptsKeepIdentity, RunnerInv

-----------------------------------------------------------------------------
(* The effects on the research state.                                      *)

LEMMA MergedType ==
  ASSUME ResearchInv, NEW c \in Cycles, NEW A \in SUBSET Objectives,
         NEW E \in SUBSET Sources, NEW C \in SUBSET Sources
  PROVE  /\ Merged(c, A, E, C) \in Cycle
         /\ Merged(c, A, E, C).status = cycle[c].status
         /\ Merged(c, A, E, C).reason = cycle[c].reason
  BY DEF Merged, ResearchInv, Cycle

\* Progress changes no status: it may be added only by a running attempt.
LEMMA ProgressKept ==
  ASSUME ResearchInv, RunnerInv, NEW r \in Runners, MayProgress(r),
         NEW A \in SUBSET Objectives, NEW E \in SUBSET Sources, NEW C \in SUBSET Sources,
         Progress(r, A, E, C), UNCHANGED <<task, interrupted>>,
         sources' \in SUBSET Sources, claims' \in SUBSET Sources
  PROVE  ResearchInv' /\ AttemptsKeepIdentity
  <1>1. local[r].cycle \in Cycles
    BY DEF RunnerInv, Local
  <1>2. /\ cycle' \in [Cycles -> Cycle]
        /\ \A c \in Cycles : /\ cycle'[c].status = cycle[c].status
                             /\ cycle'[c].reason = cycle[c].reason
    BY <1>1, MergedType DEF Progress, ResearchInv
  <1>3. /\ attempt' \in [Runners -> Attempt]
        /\ \A q \in Runners : /\ attempt'[q].status = attempt[q].status
                              /\ attempt'[q].cycle = attempt[q].cycle
    BY DEF Progress, ResearchInv, Attempt
  <1>4. \A q \in Runners : attempt[q].cycle \in Cycles
    BY DEF ResearchInv, Attempt
  <1>5. SingleActiveCycle' /\ RunningAttemptOwnsCycle'
    BY <1>2, <1>3, <1>4 DEF ResearchInv, SingleActiveCycle, RunningAttemptOwnsCycle, Running
  <1>6. ClosedAttemptClosedCycle' /\ InterruptionAudited'
    BY <1>2, <1>3, <1>4 DEF ResearchInv, ClosedAttemptClosedCycle, Closed, InterruptionAudited
  <1>7. AttemptsKeepIdentity
    BY <1>3 DEF AttemptsKeepIdentity
  <1> QED
    BY <1>2, <1>3, <1>5, <1>6, <1>7 DEF ResearchInv

\* An outcome ends an active cycle together with its running attempt.
LEMMA OutcomeKept ==
  ASSUME ResearchInv, NEW c \in Cycles, cycle[c].status = "active",
         NEW status \in TerminalCycle, NEW A \in SUBSET Objectives,
         NEW E \in SUBSET Sources, NEW C \in SUBSET Sources,
         RecordOutcome(c, status, A, E, C)
  PROVE  ResearchInv' /\ AttemptsKeepIdentity
  <1>1. /\ cycle' \in [Cycles -> Cycle]
        /\ cycle'[c].status = status
        /\ \A d \in Cycles : cycle'[d].reason = cycle[d].reason
        /\ \A d \in Cycles \ {c} : cycle'[d].status = cycle[d].status
    <2> DEFINE m == Merged(c, A, E, C)
               n == [m EXCEPT !.status = status]
    <2>1. m \in Cycle /\ m.reason = cycle[c].reason
      BY MergedType
    <2>2. status \in CycleStatus
      BY DEF TerminalCycle, CycleStatus
    <2>3. n \in Cycle /\ n.status = status /\ n.reason = cycle[c].reason
      BY <2>1, <2>2 DEF Cycle
    <2>4. cycle' = [cycle EXCEPT ![c] = n] /\ cycle \in [Cycles -> Cycle]
      BY DEF RecordOutcome, ResearchInv
    <2> HIDE DEF n
    <2> QED
      BY <2>3, <2>4
  <1>2. AttemptStatusOf[status] \in {"COMPLETED", "BLOCKED", "FAILED"}
    BY DEF AttemptStatusOf, TerminalCycle
  <1>3. /\ attempt' \in [Runners -> Attempt]
        /\ \A q \in Runners :
              /\ attempt'[q].cycle = attempt[q].cycle
              /\ Running(q) /\ attempt[q].cycle = c
                   => attempt'[q].status \in {"COMPLETED", "BLOCKED", "FAILED"}
              /\ ~(Running(q) /\ attempt[q].cycle = c)
                   => attempt'[q].status = attempt[q].status
    BY <1>2 DEF RecordOutcome, ClosedAttempts, ResearchInv, Attempt, AttemptStatus
  <1>4. \A q \in Runners : attempt[q].cycle \in Cycles
    BY DEF ResearchInv, Attempt
  <1>5. SingleActiveCycle'
    BY <1>1 DEF ResearchInv, SingleActiveCycle, TerminalCycle
  <1>6. RunningAttemptOwnsCycle'
    BY <1>1, <1>3, <1>4 DEF ResearchInv, RunningAttemptOwnsCycle, Running
  <1>7. ClosedAttemptClosedCycle'
    BY <1>1, <1>3, <1>4 DEF ResearchInv, ClosedAttemptClosedCycle, Closed, Running, TerminalCycle
  <1>8. InterruptionAudited'
    BY <1>1, <1>3, <1>4 DEF RecordOutcome, ResearchInv, InterruptionAudited, Running
  <1>9. AttemptsKeepIdentity
    BY <1>3 DEF AttemptsKeepIdentity, Running
  <1> QED
    BY <1>1, <1>3, <1>5, <1>6, <1>7, <1>8, <1>9 DEF RecordOutcome, ResearchInv

\* Starting a cycle, which is possible only while none is active: then no
\* attempt is running either.
LEMMA NothingRunning ==
  ASSUME ResearchInv, NEW c \in Cycles, Startable(c)
  PROVE  \A q \in Runners : ~Running(q) /\ attempt[q].cycle \in Cycles
  BY DEF ResearchInv, RunningAttemptOwnsCycle, Startable, Attempt

\* A manual start touches one planned cycle; the planner appends a planned one.
LEMMA CycleOpenedKept ==
  ASSUME ResearchInv, NEW c \in Cycles, NEW x \in Cycle,
         cycle' = [cycle EXCEPT ![c] = x],
         \/ Startable(c) /\ x.status = "active"
         \/ cycle[c].status = "absent" /\ x.status = "planned",
         UNCHANGED <<task, attempt, sources, claims, interrupted>>
  PROVE  ResearchInv'
  <1>1. /\ cycle' \in [Cycles -> Cycle]
        /\ cycle'[c] = x
        /\ \A d \in Cycles \ {c} : cycle'[d] = cycle[d]
    BY DEF ResearchInv
  <1>2. \A q \in Runners : attempt[q].cycle \in Cycles
    BY DEF ResearchInv, Attempt
  <1>3. cycle[c].status \in {"planned", "absent"}
    BY DEF Startable
  <1>4. SingleActiveCycle'
    BY <1>1 DEF ResearchInv, SingleActiveCycle, Startable
  <1>5. RunningAttemptOwnsCycle'
    BY <1>1, <1>2, <1>3 DEF ResearchInv, RunningAttemptOwnsCycle, Running
  <1>6. ClosedAttemptClosedCycle'
    BY <1>1, <1>2, <1>3 DEF ResearchInv, ClosedAttemptClosedCycle, Closed, TerminalCycle
  <1>7. \A q \in Runners : attempt[q].status = "INTERRUPTED" => attempt[q].cycle # c
    BY <1>3 DEF ResearchInv, ClosedAttemptClosedCycle, Closed, TerminalCycle
  <1>8. InterruptionAudited'
    BY <1>1, <1>2, <1>7 DEF ResearchInv, InterruptionAudited
  <1> QED
    BY <1>1, <1>4, <1>5, <1>6, <1>8 DEF ResearchInv

\* A cycle and its one running attempt are closed by somebody who names the
\* reason: containment with its audit event, or an operator without one.
LEMMA InterruptionKept ==
  ASSUME ResearchInv, NEW r \in Runners, NEW c \in Cycles,
         Running(r), attempt[r].cycle = c,
         NEW status \in TerminalCycle, NEW reason \in CycleReason \ {"none"},
         cycle' = [cycle EXCEPT ![c] = EndedFor(c, status, reason)],
         attempt' = [attempt EXCEPT ![r].status = "INTERRUPTED"],
         interrupted' = IF reason = "security_policy_interrupted"
                        THEN [interrupted EXCEPT ![r] = @ + 1] ELSE interrupted,
         task' \in TaskStatus, UNCHANGED <<sources, claims>>
  PROVE  ResearchInv' /\ AttemptsKeepIdentity
  <1>1. /\ cycle' \in [Cycles -> Cycle]
        /\ cycle'[c].status = status /\ cycle'[c].reason = reason
        /\ \A d \in Cycles \ {c} : cycle'[d] = cycle[d]
    <2>1. /\ EndedFor(c, status, reason) \in Cycle
          /\ EndedFor(c, status, reason).status = status
          /\ EndedFor(c, status, reason).reason = reason
      BY DEF EndedFor, ResearchInv, Cycle, TerminalCycle, CycleStatus
    <2> QED
      BY <2>1 DEF ResearchInv
  <1>2. /\ attempt' \in [Runners -> Attempt]
        /\ attempt'[r].status = "INTERRUPTED" /\ attempt'[r].cycle = c
        /\ \A q \in Runners \ {r} : attempt'[q] = attempt[q]
    BY DEF ResearchInv, Attempt, AttemptStatus
  <1>3. \A q \in Runners : attempt[q].cycle \in Cycles
    BY DEF ResearchInv, Attempt
  <1>4. cycle[c].status = "active"
    BY DEF ResearchInv, RunningAttemptOwnsCycle
  <1>5. \A q \in Runners \ {r} : attempt[q].cycle = c => attempt[q].status = "NONE"
    BY <1>4 DEF ResearchInv, RunningAttemptOwnsCycle, ClosedAttemptClosedCycle, Closed, Running, TerminalCycle
  <1>6. SingleActiveCycle'
    BY <1>1 DEF ResearchInv, SingleActiveCycle, TerminalCycle
  <1>7. RunningAttemptOwnsCycle'
    BY <1>1, <1>2, <1>3, <1>5 DEF ResearchInv, RunningAttemptOwnsCycle, Running
  <1>8. ClosedAttemptClosedCycle'
    BY <1>1, <1>2, <1>3 DEF ResearchInv, ClosedAttemptClosedCycle, Closed
  <1>9. interrupted' \in [Runners -> Nat] /\ InterruptionAudited'
    <2>1. interrupted[r] = 0 /\ interrupted \in [Runners -> Nat]
      BY DEF ResearchInv, InterruptionAudited, Running
    <2>2. /\ interrupted' \in [Runners -> Nat]
          /\ interrupted'[r] = IF reason = "security_policy_interrupted" THEN 1 ELSE 0
          /\ \A q \in Runners \ {r} : interrupted'[q] = interrupted[q]
      BY <2>1
    <2>3. \A q \in Runners \ {r} :
            interrupted'[q] = IF /\ attempt'[q].status = "INTERRUPTED"
                                 /\ cycle'[attempt'[q].cycle].reason = "security_policy_interrupted"
                              THEN 1 ELSE 0
      BY <1>1, <1>2, <1>3, <1>5, <2>2 DEF ResearchInv, InterruptionAudited
    <2> QED
      BY <1>1, <1>2, <2>2, <2>3 DEF InterruptionAudited
  <1>10. AttemptsKeepIdentity
    BY <1>2 DEF AttemptsKeepIdentity, Running
  <1> QED
    BY <1>1, <1>2, <1>6, <1>7, <1>8, <1>9, <1>10 DEF ResearchInv

-----------------------------------------------------------------------------
(* The actions of a runner.                                                *)

LEMMA IdentityKept ==
  ASSUME UNCHANGED research
  PROVE  AttemptsKeepIdentity
  BY DEF research, AttemptsKeepIdentity

LEMMA OthersKept ==
  ASSUME OtherTypes, UNCHANGED <<authority, request>>
  PROVE  OtherTypes'
  BY DEF OtherTypes, authority

LEMMA AdmitKeeps == ASSUME IInv, NEW r \in Runners, Admit(r) PROVE IInv'
  <1> USE IInvSplit
  <1>1. ResearchInv' /\ OtherTypes' /\ AttemptsKeepIdentity
    BY ResearchKept, OthersKept, IdentityKept DEF Admit
  <1>2. RunnerInv'
    <2>1. CASE Leave(r, "refused")
      BY <2>1, <1>1, RunnerLeaves DEF Ended
    <2>2. CASE /\ \E c \in Cycles : local' = [local EXCEPT ![r].cycle = c]
               /\ Go(r, "admitted", TRUE)
      <3>1. PICK c \in Cycles : local' = [local EXCEPT ![r].cycle = c]
        BY <2>2
      <3>2. /\ local' \in [Runners -> Local]
            /\ local'[r].step = local[r].step
            /\ \A q \in Runners \ {r} : local'[q] = local[q]
        BY <3>1 DEF RunnerInv, Local
      <3>3. pc[r] = "idle" /\ UNCHANGED attempt
        BY DEF Admit, research
      <3>4. attempt[r].status = "NONE" /\ local[r].step \in Nat \ {0} /\ local[r].step <= Len(Work[r])
        BY <3>3 DEF RunnerInv, RunnerOwnsAttempt, StepInRange, BeforeStart, Handlers
      <3>5. "admitted" \in PC /\ "admitted" \notin Attached
        BY DEF PC, Attached, TryBody, Handlers
      <3> QED
        BY <2>2, <3>2, <3>3, <3>4, <3>5, RunnerMoves
    <2> QED
      BY <2>1, <2>2 DEF Admit
  <1> QED
    BY <1>1, <1>2, IInvSplitPrime

LEMMA CheckStartKeeps == ASSUME IInv, NEW r \in Runners, CheckStart(r) PROVE IInv'
  <1> USE IInvSplit
  <1>1. ResearchInv' /\ OtherTypes' /\ AttemptsKeepIdentity
    BY ResearchKept, OthersKept, IdentityKept DEF CheckStart
  <1>2. RunnerInv'
    <2>1. CASE Leave(r, "refused")
      BY <2>1, <1>1, RunnerLeaves DEF Ended
    <2>2. CASE Continue(r, "starting", TRUE)
      <3>1. pc[r] = "admitted" /\ UNCHANGED <<attempt, local>> /\ Go(r, "starting", TRUE)
        BY <2>2 DEF CheckStart, Continue, research
      <3>2. attempt[r].status = "NONE" /\ local[r].step \in Nat \ {0} /\ local[r].step <= Len(Work[r])
        BY <3>1 DEF RunnerInv, RunnerOwnsAttempt, StepInRange, BeforeStart, Handlers
      <3>3. "starting" \in PC /\ "starting" \notin Attached
        BY DEF PC, Attached, TryBody, Handlers
      <3>4. local \in [Runners -> Local]
        BY DEF RunnerInv
      <3> QED
        BY <3>1, <3>2, <3>3, <3>4, RunnerMoves
    <2> QED
      BY <2>1, <2>2 DEF CheckStart
  <1> QED
    BY <1>1, <1>2, IInvSplitPrime

\* Start makes the attempt of r the only running one.
LEMMA StartKeeps == ASSUME IInv, NEW r \in Runners, Start(r) PROVE IInv'
  <1> DEFINE c == local[r].cycle
  <1> USE IInvSplit
  <1>1. pc[r] = "starting" /\ c \in Cycles
    BY DEF Start, RunnerInv, Local
  <1>2. attempt[r].status = "NONE" /\ local[r].step \in Nat \ {0} /\ local[r].step <= Len(Work[r])
    BY <1>1 DEF RunnerInv, RunnerOwnsAttempt, StepInRange, BeforeStart, Handlers
  <1>3. OtherTypes'
    BY OthersKept DEF Start
  <1>4. CASE ~Startable(c)
    <2>1. UNCHANGED research /\ Leave(r, "refused")
      BY <1>4 DEF Start, research
    <2> QED
      BY <2>1, <1>3, ResearchKept, IdentityKept, RunnerLeaves, IInvSplitPrime DEF Ended
  <1>5. CASE Startable(c)
    <2>1. /\ cycle' = [cycle EXCEPT ![c].status = "active"]
          /\ attempt' = [attempt EXCEPT ![r].status = "RUNNING", ![r].cycle = c]
          /\ Continue(r, "attaching", FALSE)
          /\ UNCHANGED <<task, sources, claims, interrupted>>
      BY <1>5 DEF Start
    <2>2. /\ cycle' \in [Cycles -> Cycle]
          /\ cycle'[c].status = "active"
          /\ \A d \in Cycles \ {c} : cycle'[d] = cycle[d]
          /\ \A d \in Cycles : cycle'[d].reason = cycle[d].reason
      BY <2>1, <1>1 DEF ResearchInv, Cycle, CycleStatus
    <2>3. /\ attempt' \in [Runners -> Attempt]
          /\ attempt'[r].status = "RUNNING" /\ attempt'[r].cycle = c
          /\ \A q \in Runners \ {r} : attempt'[q] = attempt[q]
      <3>1. \A x \in Attempt : /\ [x EXCEPT !.status = "RUNNING", !.cycle = c] \in Attempt
                               /\ [x EXCEPT !.status = "RUNNING", !.cycle = c].status = "RUNNING"
                               /\ [x EXCEPT !.status = "RUNNING", !.cycle = c].cycle = c
        BY <1>1 DEF Attempt, AttemptStatus
      <3> QED
        BY <2>1, <3>1 DEF ResearchInv
    <2>4. \A q \in Runners : ~Running(q) /\ attempt[q].cycle \in Cycles
      BY <1>1, <1>5, NothingRunning
    <2>5. cycle[c].status = "planned" /\ \A d \in Cycles : cycle[d].status # "active"
      BY <1>5 DEF Startable
    <2>6. SingleActiveCycle' /\ RunningAttemptOwnsCycle'
      BY <2>2, <2>3, <2>4, <2>5, <1>1 DEF SingleActiveCycle, RunningAttemptOwnsCycle, Running
    <2>7. ClosedAttemptClosedCycle'
      BY <2>2, <2>3, <2>4, <2>5 DEF ResearchInv, ClosedAttemptClosedCycle, Closed, TerminalCycle
    <2>8. InterruptionAudited'
      BY <2>1, <2>2, <2>3, <2>4, <1>2 DEF ResearchInv, InterruptionAudited
    <2>9. ResearchInv'
      BY <2>1, <2>2, <2>3, <2>6, <2>7, <2>8 DEF ResearchInv
    <2>10. RunnerInv'
      <3>1. "attaching" \in PC /\ "attaching" \notin BeforeStart \cup Handlers \cup {"completing"}
        BY DEF PC, BeforeStart, Handlers
      <3>2. local' = local /\ local \in [Runners -> Local] /\ Go(r, "attaching", FALSE)
        BY <2>1 DEF Continue, RunnerInv
      <3> QED
        BY <1>2, <2>3, <3>1, <3>2, RunnerMoves
    <2> QED
      BY <1>3, <2>9, <2>10, IInvSplitPrime
  <1> QED
    BY <1>4, <1>5

\* The steps that only move an attached runner from one point to another.
LEMMA ControlKeeps ==
  ASSUME IInv, NEW r \in Runners, UNCHANGED <<research, authority, request>>,
         pc[r] \in Attached,
         \/ \E p \in Ended : Leave(r, p)
         \/ \E p \in Attached, b \in BOOLEAN :
              /\ Continue(r, p, b)
              /\ p \notin Handlers \cup {"completing"}
                   => pc[r] \notin Handlers \cup {"completing"}
  PROVE  IInv'
  <1> USE IInvSplit
  <1>1. ResearchInv' /\ OtherTypes' /\ AttemptsKeepIdentity
    BY ResearchKept, OthersKept, IdentityKept
  <1>2. RunnerInv'
    BY <1>1, RunnerLeaves, RunnerContinues DEF Continue
  <1> QED
    BY <1>1, <1>2, IInvSplitPrime

LEMMA AttachKeeps == ASSUME IInv, NEW r \in Runners, Attach(r) PROVE IInv'
  <1>1. \/ Leave(r, "stopped")
        \/ Continue(r, "checkpoint", TRUE)
    BY DEF Attach
  <1>2. pc[r] = "attaching" /\ UNCHANGED <<research, authority, request>>
    BY DEF Attach
  <1> QED
    BY <1>1, <1>2, ControlKeeps DEF Ended, Attached, TryBody, Handlers

LEMMA CheckpointKeeps == ASSUME IInv, NEW r \in Runners, Checkpoint(r) PROVE IInv'
  <1>1. /\ pc[r] \in {"checkpoint", "rechecking"}
        /\ UNCHANGED <<research, authority, request>>
        /\ \/ Continue(r, AfterCheckpoint(r), FALSE)
           \/ Continue(r, "extracting", FALSE)
           \/ Continue(r, "blocking", FALSE)
    BY DEF Checkpoint, Continue
  <1>2. AfterCheckpoint(r) \in {"attempting", "dispatching"}
    BY DEF AfterCheckpoint
  <1> QED
    BY <1>1, <1>2, ControlKeeps DEF Attached, TryBody, Handlers

LEMMA DispatchKeeps == ASSUME IInv, NEW r \in Runners, Dispatch(r) PROVE IInv'
  <1>1. /\ pc[r] = "dispatching"
        /\ UNCHANGED <<research, authority, request>>
        /\ \/ Continue(r, AfterDispatch(r), TRUE)
           \/ Continue(r, "interrupting", FALSE)
    BY DEF Dispatch, Continue
  <1>2. AfterDispatch(r) \in {"fetching", "attempting"}
    BY DEF AfterDispatch
  <1> QED
    BY <1>1, <1>2, ControlKeeps DEF Attached, TryBody, Handlers

LEMMA CheckRecordKeeps == ASSUME IInv, NEW r \in Runners, CheckRecord(r) PROVE IInv'
  <1>1. /\ pc[r] = "recording"
        /\ UNCHANGED <<research, authority, request>>
        /\ \/ Continue(r, "storing", TRUE)
           \/ Continue(r, "interrupting", FALSE)
    BY DEF CheckRecord, Continue
  <1> QED
    BY <1>1, ControlKeeps DEF Attached, TryBody, Handlers

LEMMA FailKeeps == ASSUME IInv, NEW r \in Runners, Fail(r) PROVE IInv'
  <1>1. /\ pc[r] \in TryBody
        /\ UNCHANGED <<research, authority, request>>
        /\ Continue(r, "failing", FALSE)
    BY DEF Fail
  <1> QED
    BY <1>1, ControlKeeps DEF Attached, Handlers

LEMMA CrashKeeps == ASSUME IInv, NEW r \in Runners, Crash(r) PROVE IInv'
  <1> USE IInvSplit
  <1>1. ResearchInv' /\ OtherTypes' /\ AttemptsKeepIdentity
    BY ResearchKept, OthersKept, IdentityKept DEF Crash
  <1>2. RunnerInv'
    BY <1>1, RunnerLeaves DEF Crash, Ended
  <1> QED
    BY <1>1, <1>2, IInvSplitPrime

LEMMA FetchKeeps == ASSUME IInv, NEW r \in Runners, Fetch(r) PROVE IInv'
  <1>1. pc[r] = "fetching" /\ UNCHANGED <<research, authority, request>>
    BY DEF Fetch
  <1>2. CASE Go(r, "blocking", FALSE) /\ UNCHANGED local
    BY <1>1, <1>2, ControlKeeps DEF Continue, Attached, TryBody, Handlers
  <1>3. CASE /\ \E s \in Sources : local' = [local EXCEPT ![r].held = {s}]
             /\ Go(r, "recording", txn[r])
    <2> USE IInvSplit
    <2>1. ResearchInv' /\ OtherTypes'
      BY <1>1, ResearchKept, OthersKept
    <2>2. PICK s \in Sources : local' = [local EXCEPT ![r].held = {s}]
      BY <1>3
    <2>3. /\ local' \in [Runners -> Local]
          /\ local'[r].step = local[r].step
          /\ local'[r].cycle = local[r].cycle
          /\ \A q \in Runners \ {r} : local'[q] = local[q]
      BY <2>2 DEF RunnerInv, Local
    <2>4. /\ local[r].step \in Nat \ {0} /\ local[r].step <= Len(Work[r])
          /\ attempt[r].status # "NONE" /\ attempt[r].cycle = local[r].cycle
          /\ txn[r] \in BOOLEAN /\ UNCHANGED attempt
      BY <1>1 DEF RunnerInv, RunnerOwnsAttempt, StepInRange, Attached, TryBody, Handlers, research
    <2>5. "recording" \in PC /\ "recording" \notin BeforeStart
      BY DEF PC, TryBody, BeforeStart
    <2>6. RunnerInv'
      BY <1>3, <2>3, <2>4, <2>5, RunnerMoves
    <2> QED
      BY <2>1, <2>6, IInvSplitPrime
  <1> QED
    BY <1>2, <1>3 DEF Fetch

\* The steps of an attached runner that end its request or commit something.
LEMMA MarkAttemptedKeeps == ASSUME IInv, NEW r \in Runners, MarkAttempted(r) PROVE IInv'
  <1> USE IInvSplit
  <1>1. pc[r] = "attempting" /\ UNCHANGED <<task, sources, claims, interrupted, authority, request>>
    BY DEF MarkAttempted
  <1>2. CASE ~MayProgress(r)
    <2>1. Continue(r, "blocking", FALSE) /\ UNCHANGED research
      BY <1>2 DEF MarkAttempted, Continue, research
    <2> QED
      BY <1>1, <2>1, ControlKeeps DEF Attached, TryBody, Handlers
  <1>3. CASE MayProgress(r)
    <2>1. /\ Progress(r, Objective(r), {}, {})
          /\ local' = [local EXCEPT ![r].attempted = @ \cup Objective(r)]
          /\ Go(r, AfterAttempt(r), FALSE)
      BY <1>3 DEF MarkAttempted
    <2>2. Objective(r) \in SUBSET Objectives
      BY <1>1, ObjectiveType DEF Handlers, IInv
    <2>3. ResearchInv' /\ AttemptsKeepIdentity
      <3>1. {} \in SUBSET Sources /\ sources' \in SUBSET Sources /\ claims' \in SUBSET Sources
        BY <1>1, <2>1 DEF ResearchInv
      <3> QED
        BY <1>1, <1>3, <2>1, <2>2, <3>1, ProgressKept
    <2>4. OtherTypes'
      BY <1>1, OthersKept
    <2>5. /\ local' \in [Runners -> Local]
          /\ local'[r].step = local[r].step
          /\ local'[r].cycle = local[r].cycle
          /\ \A q \in Runners \ {r} : local'[q] = local[q]
      BY <2>1, <2>2 DEF RunnerInv, Local
    <2>6. /\ local[r].step \in Nat \ {0} /\ local[r].step <= Len(Work[r])
          /\ attempt'[r].status # "NONE" /\ attempt'[r].cycle = local[r].cycle
      BY <1>1, <2>3 DEF RunnerInv, RunnerOwnsAttempt, StepInRange, Attached, TryBody, Handlers,
                        AttemptsKeepIdentity
    <2>7. AfterAttempt(r) \in PC \ BeforeStart
      BY DEF AfterAttempt, PC, TryBody, BeforeStart
    <2>8. RunnerInv'
      BY <2>1, <2>3, <2>5, <2>6, <2>7, RunnerMoves DEF AttemptsKeepIdentity
    <2> QED
      BY <2>3, <2>4, <2>8, IInvSplitPrime
  <1> QED
    BY <1>2, <1>3

LEMMA StoreKeeps == ASSUME IInv, NEW r \in Runners, Store(r) PROVE IInv'
  <1> DEFINE S == local[r].held
             accepted == MayProgress(r) /\ Fits(local[r].cycle, S, {})
  <1> USE IInvSplit
  <1>1. pc[r] = "storing" /\ UNCHANGED <<task, claims, interrupted, authority, request>>
    BY DEF Store
  <1>2. CASE ~(Writable /\ accepted)
    <2>1. /\ Continue(r, IF Writable THEN "blocking" ELSE "interrupting", FALSE)
          /\ UNCHANGED research
      BY <1>2 DEF Store, Continue, research
    <2> QED
      BY <1>1, <2>1, ControlKeeps DEF Attached, TryBody, Handlers
  <1>3. CASE Writable /\ accepted
    <2>1. /\ sources' = sources \cup S
          /\ Progress(r, Objective(r), S, {})
          /\ local' = [local EXCEPT ![r].evidence = @ \cup S]
          /\ Go(r, "rechecking", FALSE)
      BY <1>3 DEF Store
    <2>2. Objective(r) \in SUBSET Objectives /\ S \in SUBSET Sources
      BY <1>1, ObjectiveType DEF Handlers, IInv, RunnerInv, Local
    <2>3. ResearchInv' /\ AttemptsKeepIdentity
      <3>1. {} \in SUBSET Sources /\ sources' \in SUBSET Sources /\ claims' \in SUBSET Sources
        BY <1>1, <2>1, <2>2 DEF ResearchInv
      <3> QED
        BY <1>1, <1>3, <2>1, <2>2, <3>1, ProgressKept
    <2>4. OtherTypes'
      BY <1>1, OthersKept
    <2>5. /\ local' \in [Runners -> Local]
          /\ local'[r].step = local[r].step
          /\ local'[r].cycle = local[r].cycle
          /\ \A q \in Runners \ {r} : local'[q] = local[q]
      BY <2>1, <2>2 DEF RunnerInv, Local
    <2>6. /\ local[r].step \in Nat \ {0} /\ local[r].step <= Len(Work[r])
          /\ attempt'[r].status # "NONE" /\ attempt'[r].cycle = local[r].cycle
      BY <1>1, <2>3 DEF RunnerInv, RunnerOwnsAttempt, StepInRange, Attached, TryBody, Handlers,
                        AttemptsKeepIdentity
    <2>7. "rechecking" \in PC \ BeforeStart
      BY DEF PC, TryBody, BeforeStart
    <2>8. RunnerInv'
      BY <2>1, <2>3, <2>5, <2>6, <2>7, RunnerMoves DEF AttemptsKeepIdentity
    <2> QED
      BY <2>3, <2>4, <2>8, IInvSplitPrime
  <1> QED
    BY <1>2, <1>3

LEMMA ExtractKeeps == ASSUME IInv, NEW r \in Runners, Extract(r) PROVE IInv'
  <1> USE IInvSplit
  <1>1. pc[r] = "extracting" /\ UNCHANGED <<task, sources, interrupted, authority, request>>
    BY DEF Extract
  <1>2. CASE UNCHANGED <<claims, cycle, attempt, local>> /\ \E p \in Handlers : Go(r, p, FALSE)
    <2>1. UNCHANGED research
      BY <1>1, <1>2 DEF research
    <2>2. \E p \in Handlers : Continue(r, p, FALSE)
      BY <1>2 DEF Continue
    <2> QED
      BY <1>1, <2>1, <2>2, ControlKeeps DEF Attached, TryBody, Handlers
  <1>3. ASSUME NEW C \in {{}, local[r].held}, MayProgress(r),
               claims' = claims \cup C,
               Progress(r, Objective(r), {}, C),
               local' = [local EXCEPT ![r].claims = @ \cup C,
                                      ![r].step = @ + 1,
                                      ![r].held = {}],
               Go(r, IF local[r].step < Len(Work[r]) THEN "checkpoint" ELSE "completing", FALSE)
        PROVE  IInv'
    <2>1. C \in SUBSET Sources
      BY DEF RunnerInv, Local
    <2>2. Objective(r) \in SUBSET Objectives
      BY <1>1, ObjectiveType DEF Handlers, IInv
    <2>3. ResearchInv' /\ AttemptsKeepIdentity
      <3>1. {} \in SUBSET Sources /\ sources' \in SUBSET Sources /\ claims' \in SUBSET Sources
        BY <1>1, <1>3, <2>1 DEF ResearchInv
      <3> QED
        BY <1>1, <1>3, <2>1, <2>2, <3>1, ProgressKept
    <2>4. OtherTypes'
      BY <1>1, OthersKept
    <2>5. /\ local' \in [Runners -> Local]
          /\ local'[r].step = local[r].step + 1
          /\ local'[r].cycle = local[r].cycle
          /\ \A q \in Runners \ {r} : local'[q] = local[q]
      <3>1. local[r] \in Local /\ local \in [Runners -> Local]
        BY DEF RunnerInv
      <3> DEFINE k == local[r].claims \cup C
                 n == local[r].step + 1
                 y == [local[r] EXCEPT !.claims = k, !.step = n, !.held = {}]
      <3>2. k \in SUBSET Sources /\ n \in Nat /\ n = local[r].step + 1
        BY <2>1, <3>1 DEF Local
      <3>3. local' = [local EXCEPT ![r] = y]
        BY <1>3, <3>1
      <3> HIDE DEF k, n
      <3>4. y \in Local /\ y.step = n /\ y.cycle = local[r].cycle
        BY <3>1, <3>2 DEF Local
      <3> HIDE DEF y
      <3> QED
        BY <3>1, <3>2, <3>3, <3>4
    <2>6. /\ local[r].step \in Nat \ {0} /\ local[r].step <= Len(Work[r])
          /\ attempt'[r].status # "NONE" /\ attempt'[r].cycle = local[r].cycle
      BY <1>1, <2>3 DEF RunnerInv, RunnerOwnsAttempt, StepInRange, Attached, TryBody, Handlers,
                        AttemptsKeepIdentity
    <2>7. {"checkpoint", "completing"} \subseteq PC \ BeforeStart
      BY DEF PC, TryBody, BeforeStart
    <2>8. Len(Work[r]) \in Nat
      BY CycleAssumption
    <2>9. CASE local[r].step < Len(Work[r])
      <3>1. Go(r, "checkpoint", FALSE) /\ local'[r].step \in Nat \ {0} /\ local'[r].step <= Len(Work[r])
        BY <1>3, <2>5, <2>6, <2>8, <2>9 DEF Go
      <3>2. RunnerInv'
        BY <2>3, <2>5, <2>6, <2>7, <3>1, RunnerMoves DEF AttemptsKeepIdentity
      <3> QED
        BY <2>3, <2>4, <3>2, IInvSplitPrime
    <2>10. CASE ~(local[r].step < Len(Work[r]))
      <3>1. Go(r, "completing", FALSE) /\ local'[r].step \in Nat \ {0}
        BY <1>3, <2>5, <2>6, <2>10 DEF Go
      <3>2. RunnerInv'
        BY <2>3, <2>5, <2>6, <2>7, <3>1, RunnerMoves DEF AttemptsKeepIdentity
      <3> QED
        BY <2>3, <2>4, <3>2, IInvSplitPrime
    <2> QED
      BY <2>9, <2>10
  <1> QED
    BY <1>2, <1>3 DEF Extract, Handlers


\* What an accepted outcome may cite.
LEMMA AcceptedTypes ==
  ASSUME ResearchInv, NEW c \in Cycles, NEW A, NEW E, NEW C, OutcomeAccepted(c, A, E, C)
  PROVE  /\ cycle[c].status = "active"
         /\ A \in SUBSET Objectives
         /\ E \in SUBSET Sources
         /\ C \in SUBSET Sources
  BY DEF OutcomeAccepted, ResearchInv

LEMMA CompleteKeeps == ASSUME IInv, NEW r \in Runners, Complete(r) PROVE IInv'
  <1> DEFINE m == local[r]
             accepted == task = "active" /\ OutcomeAccepted(m.cycle, m.attempted, m.evidence, m.claims)
  <1> USE IInvSplit
  <1>1. pc[r] = "completing" /\ UNCHANGED <<authority, request>> /\ m.cycle \in Cycles
    BY DEF Complete, RunnerInv, Local
  <1>2. CASE ~(Writable /\ accepted)
    <2>1. /\ Continue(r, IF Writable THEN "blocking" ELSE "interrupting", FALSE)
          /\ UNCHANGED research
      BY <1>2 DEF Complete
    <2> QED
      BY <1>1, <2>1, ControlKeeps DEF Attached, TryBody, Handlers
  <1>3. CASE Writable /\ accepted
    <2>1. /\ RecordOutcome(m.cycle, "completed", m.attempted, m.evidence, m.claims)
          /\ Leave(r, "completed")
      BY <1>3 DEF Complete
    <2>2. ResearchInv' /\ AttemptsKeepIdentity
      BY <1>1, <1>3, <2>1, AcceptedTypes, OutcomeKept DEF TerminalCycle
    <2> QED
      BY <1>1, <2>1, <2>2, OthersKept, RunnerLeaves, IInvSplitPrime DEF Ended
  <1> QED
    BY <1>2, <1>3

LEMMA RecoverKeeps == ASSUME IInv, NEW r \in Runners, Recover(r) PROVE IInv'
  <1> DEFINE m == local[r]
             accepted == OutcomeAccepted(m.cycle, m.attempted, m.evidence, m.claims)
             status == IF pc[r] = "blocking" THEN "blocked" ELSE "failed"
  <1> USE IInvSplit
  <1>1. /\ pc[r] \in {"blocking", "failing"}
        /\ UNCHANGED <<authority, request>>
        /\ m.cycle \in Cycles
    BY DEF Recover, RunnerInv, Local
  <1>2. CASE ~(Writable /\ accepted)
    <2>1. /\ UNCHANGED research
          /\ Continue(r, "interrupting", FALSE) \/ Leave(r, "stopped")
      BY <1>2 DEF Recover
    <2> QED
      BY <1>1, <2>1, ControlKeeps DEF Attached, TryBody, Handlers, Ended
  <1>3. CASE Writable /\ accepted
    <2>1. /\ RecordOutcome(m.cycle, status, m.attempted, m.evidence, m.claims)
          /\ Leave(r, "stopped")
      BY <1>3 DEF Recover
    <2>2. status \in TerminalCycle
      BY DEF TerminalCycle
    <2>3. ResearchInv' /\ AttemptsKeepIdentity
      BY <1>1, <1>3, <2>1, <2>2, AcceptedTypes, OutcomeKept
    <2> QED
      BY <1>1, <2>1, <2>3, OthersKept, RunnerLeaves, IInvSplitPrime DEF Ended
  <1> QED
    BY <1>2, <1>3

LEMMA CloseKeeps == ASSUME IInv, NEW r \in Runners, Close(r) PROVE IInv'
  <1> DEFINE c == local[r].cycle
  <1> USE IInvSplit
  <1>1. pc[r] = "interrupting" /\ UNCHANGED <<authority, request>> /\ c \in Cycles /\ Leave(r, "stopped")
    BY DEF Close, RunnerInv, Local
  <1>2. CASE ~Closable(r)
    <2>1. UNCHANGED research
      BY <1>2 DEF Close, research
    <2> QED
      BY <1>1, <2>1, ControlKeeps DEF Attached, TryBody, Handlers, Ended
  <1>3. CASE Closable(r)
    <2>1. /\ cycle' = [cycle EXCEPT ![c] = EndedFor(c, "blocked", "security_policy_interrupted")]
          /\ attempt' = [attempt EXCEPT ![r].status = "INTERRUPTED"]
          /\ interrupted' = [interrupted EXCEPT ![r] = @ + 1]
          /\ UNCHANGED <<task, sources, claims>>
      BY <1>3 DEF Close
    <2>2. Running(r) /\ attempt[r].cycle = c
      BY <1>3 DEF Closable
    <2>3. task' \in TaskStatus
      BY <2>1 DEF ResearchInv
    <2>4. ResearchInv' /\ AttemptsKeepIdentity
      <3> DEFINE reason == "security_policy_interrupted"
      <3>1. /\ "blocked" \in TerminalCycle
            /\ reason \in CycleReason \ {"none"}
            /\ interrupted' = IF reason = "security_policy_interrupted"
                              THEN [interrupted EXCEPT ![r] = @ + 1] ELSE interrupted
        BY <2>1 DEF TerminalCycle, CycleReason
      <3>2. cycle' = [cycle EXCEPT ![c] = EndedFor(c, "blocked", reason)]
        BY <2>1
      <3> HIDE DEF reason
      <3> QED
        BY <1>1, <2>1, <2>2, <2>3, <3>1, <3>2, InterruptionKept
    <2> QED
      BY <1>1, <2>4, OthersKept, RunnerLeaves, IInvSplitPrime DEF Ended
  <1> QED
    BY <1>2, <1>3

LEMMA RunnerStepKeeps == ASSUME IInv, NEW r \in Runners, RunnerStep(r) PROVE IInv'
  BY AdmitKeeps, CheckStartKeeps, StartKeeps, AttachKeeps, CheckpointKeeps, MarkAttemptedKeeps,
     DispatchKeeps, FetchKeeps, CheckRecordKeeps, StoreKeeps, ExtractKeeps, CompleteKeeps,
     RecoverKeeps, CloseKeeps, FailKeeps, CrashKeeps
  DEF RunnerStep, Step

-----------------------------------------------------------------------------
(* The actions of the operators and of the environment.                    *)

\* No action of an operator moves a runner.
LEMMA RunnersKept ==
  ASSUME RunnerInv, UNCHANGED runner, AttemptsKeepIdentity
  PROVE  RunnerInv'
  BY DEF RunnerInv, runner, StepInRange, RunnerOwnsAttempt, AttemptsKeepIdentity, BeforeStart, Attached

LEMMA NoRequestType == NoRequest \in Requests
  BY DEF NoRequest, Requests

LEMMA AnsweredType ==
  ASSUME OtherTypes, NEW o \in Operators, Answered(o), UNCHANGED authority
  PROVE  OtherTypes'
  BY NoRequestType DEF OtherTypes, Answered, authority

\* What a pending request is about.
LEMMA PendingType ==
  ASSUME OtherTypes, NEW o \in Operators
  PROVE  /\ Pending(o, "start") => request[o].cycle \in Cycles
         /\ Pending(o, "recover") => request[o].cycle \in Cycles
         /\ Pending(o, "status") => request[o].to \in TaskStatus
  BY DEF OtherTypes, Requests, Pending, Fingerprint

LEMMA AskKeeps == ASSUME IInv, NEW o \in Operators, Ask(o) PROVE IInv'
  <1> USE IInvSplit
  <1>1. ResearchInv' /\ RunnerInv'
    BY ResearchKept, RunnersKept, IdentityKept DEF Ask
  <1>2. Asked \subseteq Requests
    <2>1. task \in TaskStatus /\ TaskChanges \subseteq TaskStatus
      BY CycleAssumption DEF ResearchInv, TaskStatus
    <2>2. \A c \in Cycles : Seen(c) \in Fingerprint
      BY <2>1 DEF Seen, Fingerprint, ResearchInv
    <2> QED
      BY <2>1, <2>2 DEF Asked, Requests
  <1>3. OtherTypes'
    BY <1>2 DEF Ask, OtherTypes, authority
  <1> QED
    BY <1>1, <1>3, IInvSplitPrime

LEMMA PlanNextKeeps == ASSUME IInv, NEW o \in Operators, PlanNext(o) PROVE IInv'
  <1> USE IInvSplit
  <1>1. OtherTypes' /\ UNCHANGED <<task, attempt, sources, claims, interrupted, authority, runner>>
    BY AnsweredType DEF PlanNext
  <1>2. CASE UNCHANGED cycle
    BY <1>1, <1>2, ResearchKept, RunnersKept, IdentityKept, IInvSplitPrime DEF research
  <1>3. ASSUME NEW c \in Cycles, cycle[c].status = "absent",
               cycle' = [cycle EXCEPT ![c] = NewCycle("planned")]
        PROVE  IInv'
    <2>1. NewCycle("planned") \in Cycle /\ NewCycle("planned").status = "planned"
      BY DEF NewCycle, Cycle, CycleStatus, CycleReason
    <2>2. ResearchInv'
      BY <1>1, <1>3, <2>1, CycleOpenedKept
    <2> QED
      BY <1>1, <2>2, RunnersKept, IInvSplitPrime DEF AttemptsKeepIdentity
  <1> QED
    BY <1>2, <1>3 DEF PlanNext


LEMMA ManualStartKeeps == ASSUME IInv, NEW o \in Operators, ManualStart(o) PROVE IInv'
  <1> DEFINE c == request[o].cycle
  <1> USE IInvSplit
  <1>1. OtherTypes' /\ UNCHANGED <<task, attempt, sources, claims, interrupted, authority, runner>>
    BY AnsweredType DEF ManualStart
  <1>2. CASE UNCHANGED cycle
    BY <1>1, <1>2, ResearchKept, RunnersKept, IdentityKept, IInvSplitPrime DEF research
  <1>3. CASE Startable(c) /\ cycle' = [cycle EXCEPT ![c].status = "active"]
    <2>1. c \in Cycles
      BY PendingType DEF ManualStart
    <2> DEFINE x == [cycle[c] EXCEPT !.status = "active"]
    <2>2. x \in Cycle /\ x.status = "active"
      BY <2>1 DEF ResearchInv, Cycle, CycleStatus
    <2>3. cycle' = [cycle EXCEPT ![c] = x]
      BY <1>3
    <2> HIDE DEF x
    <2>4. ResearchInv'
      BY <1>1, <1>3, <2>1, <2>2, <2>3, CycleOpenedKept
    <2> QED
      BY <1>1, <2>4, RunnersKept, IInvSplitPrime DEF AttemptsKeepIdentity
  <1> QED
    BY <1>2, <1>3 DEF ManualStart

\* A cycle without a running attempt is failed by its operator.
LEMMA UnattendedKept ==
  ASSUME ResearchInv, NEW c \in Cycles, cycle[c].status = "active",
         \A q \in Runners : ~(Running(q) /\ attempt[q].cycle = c),
         cycle' = [cycle EXCEPT ![c] = EndedFor(c, "failed", "operator")],
         task' \in TaskStatus, UNCHANGED <<attempt, sources, claims, interrupted>>
  PROVE  ResearchInv'
  <1>1. /\ cycle' \in [Cycles -> Cycle]
        /\ cycle'[c].status = "failed"
        /\ \A d \in Cycles \ {c} : cycle'[d] = cycle[d]
    <2>1. /\ EndedFor(c, "failed", "operator") \in Cycle
          /\ EndedFor(c, "failed", "operator").status = "failed"
      BY DEF EndedFor, ResearchInv, Cycle, CycleStatus, CycleReason
    <2> QED
      BY <2>1 DEF ResearchInv
  <1>2. \A q \in Runners : attempt[q].cycle \in Cycles
    BY DEF ResearchInv, Attempt
  <1>3. \A q \in Runners : attempt[q].cycle = c => attempt[q].status = "NONE"
    BY DEF ResearchInv, ClosedAttemptClosedCycle, Closed, Running, TerminalCycle
  <1>4. SingleActiveCycle'
    BY <1>1 DEF ResearchInv, SingleActiveCycle
  <1>5. RunningAttemptOwnsCycle'
    BY <1>1, <1>2 DEF ResearchInv, RunningAttemptOwnsCycle, Running
  <1>6. ClosedAttemptClosedCycle'
    BY <1>1, <1>2, <1>3 DEF ResearchInv, ClosedAttemptClosedCycle, Closed
  <1>7. InterruptionAudited'
    BY <1>1, <1>2, <1>3 DEF ResearchInv, InterruptionAudited
  <1> QED
    BY <1>1, <1>4, <1>5, <1>6, <1>7 DEF ResearchInv

LEMMA RecoverCycleKeeps == ASSUME IInv, NEW o \in Operators, RecoverCycle(o) PROVE IInv'
  <1> DEFINE c == request[o].cycle
             running == {r \in Runners : Running(r) /\ attempt[r].cycle = c}
             accepted == Recoverable(c, request[o].seen)
  <1> USE IInvSplit
  <1>1. /\ OtherTypes'
        /\ UNCHANGED <<sources, claims, interrupted, authority, runner>>
        /\ c \in Cycles
    BY AnsweredType, PendingType DEF RecoverCycle
  <1>2. CASE ~accepted
    <2>1. UNCHANGED research
      BY <1>1, <1>2 DEF RecoverCycle, research
    <2> QED
      BY <1>1, <2>1, ResearchKept, RunnersKept, IdentityKept, IInvSplitPrime
  <1>3. CASE accepted
    <2>1. /\ cycle' = [cycle EXCEPT ![c] = EndedFor(c, "failed", "operator")]
          /\ task' = IF task = "active" THEN "paused" ELSE task
          /\ \/ running = {} /\ UNCHANGED attempt
             \/ \E r \in running : attempt' = [attempt EXCEPT ![r].status = "INTERRUPTED"]
      BY <1>3 DEF RecoverCycle
    <2>2. task' \in TaskStatus /\ cycle[c].status = "active"
      BY <1>3, <2>1 DEF ResearchInv, TaskStatus, Recoverable
    <2>3. CASE running = {} /\ UNCHANGED attempt
      <3>1. ResearchInv'
        BY <1>1, <2>1, <2>2, <2>3, UnattendedKept
      <3> QED
        BY <1>1, <2>3, <3>1, RunnersKept, IInvSplitPrime DEF AttemptsKeepIdentity
    <2>4. ASSUME NEW r \in running, attempt' = [attempt EXCEPT ![r].status = "INTERRUPTED"]
          PROVE  IInv'
      <3> DEFINE reason == "operator"
      <3>1. /\ "failed" \in TerminalCycle
            /\ reason \in CycleReason \ {"none"}
            /\ interrupted' = IF reason = "security_policy_interrupted"
                              THEN [interrupted EXCEPT ![r] = @ + 1] ELSE interrupted
        BY <1>1 DEF TerminalCycle, CycleReason
      <3>2. cycle' = [cycle EXCEPT ![c] = EndedFor(c, "failed", reason)]
        BY <2>1
      <3> HIDE DEF reason
      <3>3. ResearchInv' /\ AttemptsKeepIdentity
        BY <1>1, <2>2, <2>4, <3>1, <3>2, InterruptionKept
      <3> QED
        BY <1>1, <3>3, RunnersKept, IInvSplitPrime
    <2> QED
      BY <2>1, <2>3, <2>4
  <1> QED
    BY <1>2, <1>3

LEMMA ChangeStatusKeeps == ASSUME IInv, NEW o \in Operators, ChangeStatus(o) PROVE IInv'
  <1> USE IInvSplit
  <1>1. /\ OtherTypes'
        /\ UNCHANGED <<cycle, attempt, sources, claims, interrupted, authority, runner>>
    BY AnsweredType DEF ChangeStatus
  <1>2. task' \in TaskStatus
    BY PendingType DEF ChangeStatus, ResearchInv
  <1>3. ResearchInv'
    BY <1>1, <1>2 DEF ResearchInv, SingleActiveCycle, RunningAttemptOwnsCycle, Running,
                      ClosedAttemptClosedCycle, Closed, InterruptionAudited
  <1> QED
    BY <1>1, <1>3, RunnersKept, IInvSplitPrime DEF AttemptsKeepIdentity

LEMMA ManualOutcomeKeeps == ASSUME IInv, ManualOutcome PROVE IInv'
  <1> USE IInvSplit
  <1>1. UNCHANGED <<authority, runner, request>>
    BY DEF ManualOutcome
  <1>2. PICK c \in Cycles, status \in TerminalCycle, A \in SUBSET Objectives,
             E \in SUBSET sources, C \in SUBSET claims :
                OutcomeAccepted(c, A, E, C) /\ RecordOutcome(c, status, A, E, C)
    BY DEF ManualOutcome
  <1>3. ResearchInv' /\ AttemptsKeepIdentity
    BY <1>2, AcceptedTypes, OutcomeKept
  <1> QED
    BY <1>1, <1>3, RunnersKept, OthersKept, IInvSplitPrime

LEMMA EnvironmentKeeps == ASSUME IInv, Environment PROVE IInv'
  <1> USE IInvSplit
  <1>1. CASE SecurityTransition
    <2>1. OtherTypes'
      BY <1>1, CycleAssumption DEF SecurityTransition, OtherTypes
    <2> QED
      BY <1>1, <2>1, ResearchKept, RunnersKept, IdentityKept, IInvSplitPrime DEF SecurityTransition
  <1>2. CASE Restore
    <2>1. OtherTypes'
      BY <1>2 DEF Restore, OtherTypes, SecurityState
    <2> QED
      BY <1>2, <2>1, ResearchKept, RunnersKept, IdentityKept, IInvSplitPrime DEF Restore
  <1>3. CASE Restart
    <2>1. UNCHANGED research
      BY <1>3 DEF Restart
    <2>2. OtherTypes'
      BY <1>3, NoRequestType DEF Restart, OtherTypes
    <2>3. RunnerInv'
      <3>1. NewLocal \in Local /\ NewLocal.step = 1
        BY CyclesNonempty DEF NewLocal, Local
      <3>2. /\ pc' \in [Runners -> PC]
            /\ txn' \in [Runners -> BOOLEAN]
            /\ local' \in [Runners -> Local]
        BY <1>3, <3>1 DEF Restart, RunnerInv, PC, Ended
      <3>3. StepInRange'
        BY <1>3, <3>1, WorkNonempty DEF Restart, StepInRange
      <3>4. RunnerOwnsAttempt'
        BY <1>3, <2>1 DEF Restart, RunnerInv, RunnerOwnsAttempt, Ended, BeforeStart, Attached, TryBody,
                          Handlers, research
      <3> QED
        BY <3>2, <3>3, <3>4 DEF RunnerInv
    <2> QED
      BY <2>1, <2>2, <2>3, ResearchKept, IInvSplitPrime
  <1> QED
    BY <1>1, <1>2, <1>3, ManualOutcomeKeeps DEF Environment

LEMMA IInvStep == IInv /\ [Next]_vars => IInv'
  <1> SUFFICES ASSUME IInv, [Next]_vars PROVE IInv'
    OBVIOUS
  <1>1. CASE UNCHANGED vars
    <2>1. UNCHANGED <<research, authority, runner, request>>
      BY <1>1 DEF vars
    <2> QED
      BY <2>1, IInvSplit, IInvSplitPrime, ResearchKept, RunnersKept, OthersKept, IdentityKept
  <1>2. ASSUME NEW r \in Runners, RunnerStep(r) PROVE IInv'
    BY <1>2, RunnerStepKeeps
  <1>3. ASSUME NEW o \in Operators, OperatorStep(o) PROVE IInv'
    BY <1>3, AskKeeps, PlanNextKeeps, ManualStartKeeps, RecoverCycleKeeps, ChangeStatusKeeps
    DEF OperatorStep
  <1>4. CASE Environment
    BY <1>4, EnvironmentKeeps
  <1> QED
    BY <1>1, <1>2, <1>3, <1>4 DEF Next

-----------------------------------------------------------------------------
(* Invariants.                                                             *)

\* In every reachable state a runner, its attempt and its cycle end together,
\* whatever requests, closures, recoveries, crashes and restarts interleave.
THEOREM InductiveInvariant == Spec => []IInv
  <1> QED
    BY IInvInit, IInvStep, PTL DEF Spec

\* The investigation, its cycles and attempts, the runners' variables and the
\* pending requests keep their types in every reachable state.
THEOREM TypeCorrect == Spec => []TypeOK
  <1>1. IInv => TypeOK
    BY DEF IInv
  <1> QED
    BY <1>1, InductiveInvariant, PTL

\* start_cycle and plan_next_cycle never leave two cycles of an investigation
\* active, however many manual and exclusive starts race.
THEOREM OneActiveCycle == Spec => []SingleActiveCycle
  <1>1. IInv => SingleActiveCycle
    BY DEF IInv
  <1> QED
    BY <1>1, InductiveInvariant, PTL

\* record_cycle_outcome, recover_cycle and the interruption service never end
\* a cycle without its running attempt: a RUNNING attempt is the only one of an
\* active cycle.
THEOREM AttemptOwnsCycle == Spec => []RunningAttemptOwnsCycle
  <1>1. IInv => RunningAttemptOwnsCycle
    BY DEF IInv
  <1> QED
    BY <1>1, InductiveInvariant, PTL

\* The interruption service writes its audit event exactly once for an attempt
\* it closes and never for an attempt closed by an outcome or an operator.
THEOREM InterruptionsAudited == Spec => []InterruptionAudited
  <1>1. IInv => InterruptionAudited
    BY DEF IInv
  <1> QED
    BY <1>1, InductiveInvariant, PTL


-----------------------------------------------------------------------------
(* What a step never does.                                                 *)

\* A runner writes with an attempt that is still running, and on its cycle.
LEMMA ProgressFreezes ==
  ASSUME IInv, NEW r \in Runners, MayProgress(r), NEW A, NEW E, NEW C, Progress(r, A, E, C)
  PROVE  KeepsTerminal
  <1>1. /\ cycle \in [Cycles -> Cycle]
        /\ attempt \in [Runners -> Attempt]
        /\ local[r].cycle \in Cycles
    BY DEF IInv, TypeOK, Local
  <1>2. cycle[local[r].cycle].status = "active" /\ Running(r)
    BY DEF MayProgress, StillActive
  <1>3. /\ \A c \in Cycles \ {local[r].cycle} : cycle'[c] = cycle[c]
        /\ \A q \in Runners \ {r} : attempt'[q] = attempt[q]
    BY <1>1 DEF Progress
  <1> QED
    BY <1>2, <1>3 DEF KeepsTerminal, TerminalCycle, Running, Closed

LEMMA OutcomeFreezes ==
  ASSUME IInv, NEW c \in Cycles, cycle[c].status = "active",
         NEW status, NEW A, NEW E, NEW C, RecordOutcome(c, status, A, E, C)
  PROVE  KeepsTerminal
  <1>1. cycle \in [Cycles -> Cycle] /\ attempt \in [Runners -> Attempt]
    BY DEF IInv, TypeOK
  <1>2. \A d \in Cycles \ {c} : cycle'[d] = cycle[d]
    BY <1>1 DEF RecordOutcome
  <1>3. \A r \in Runners : ~Running(r) => attempt'[r] = attempt[r]
    BY DEF RecordOutcome, ClosedAttempts
  <1> QED
    BY <1>2, <1>3 DEF KeepsTerminal, TerminalCycle, Running, Closed

\* Any other write replaces one cycle that has not ended, and at most one
\* attempt that is not closed.
LEMMA OneCycleFreezes ==
  ASSUME IInv, NEW c \in Cycles, cycle[c].status \notin TerminalCycle, NEW x,
         cycle' = [cycle EXCEPT ![c] = x],
         \/ UNCHANGED attempt
         \/ \E r \in Runners : \E y : ~Closed(r) /\ attempt' = [attempt EXCEPT ![r] = y]
  PROVE  KeepsTerminal
  <1>1. cycle \in [Cycles -> Cycle] /\ attempt \in [Runners -> Attempt]
    BY DEF IInv, TypeOK
  <1>2. \A d \in Cycles \ {c} : cycle'[d] = cycle[d]
    BY <1>1
  <1>3. \A r \in Runners : Closed(r) => attempt'[r] = attempt[r]
    BY <1>1
  <1> QED
    BY <1>2, <1>3 DEF KeepsTerminal

LEMMA NothingFreezes == ASSUME UNCHANGED <<cycle, attempt>> PROVE KeepsTerminal
  BY DEF KeepsTerminal

LEMMA StartFreezes == ASSUME IInv, NEW r \in Runners, Start(r) PROVE KeepsTerminal
  <1> DEFINE c == local[r].cycle
  <1>1. CASE ~Startable(c)
    BY <1>1, NothingFreezes DEF Start
  <1>2. CASE Startable(c)
    <2>1. c \in Cycles /\ cycle \in [Cycles -> Cycle] /\ attempt \in [Runners -> Attempt]
      BY DEF IInv, TypeOK, Local
    <2>2. attempt[r].status = "NONE"
      BY DEF Start, IInv, RunnerOwnsAttempt, BeforeStart
    <2>3. /\ \A d \in Cycles \ {c} : cycle'[d] = cycle[d]
          /\ \A q \in Runners \ {r} : attempt'[q] = attempt[q]
      BY <1>2, <2>1 DEF Start
    <2> QED
      BY <1>2, <2>2, <2>3 DEF KeepsTerminal, Startable, TerminalCycle, Closed
  <1> QED
    BY <1>1, <1>2

LEMMA CloseFreezes == ASSUME IInv, NEW r \in Runners, Close(r) PROVE KeepsTerminal
  <1> DEFINE c == local[r].cycle
  <1>1. CASE ~Closable(r)
    BY <1>1, NothingFreezes DEF Close
  <1>2. CASE Closable(r)
    <2>1. c \in Cycles
      BY DEF IInv, TypeOK, Local
    <2>2. cycle[c].status \notin TerminalCycle /\ ~Closed(r)
      BY <1>2 DEF Closable, TerminalCycle, Running, Closed
    <2>3. \E x, y : /\ cycle' = [cycle EXCEPT ![c] = x]
                    /\ attempt' = [attempt EXCEPT ![r] = y]
      BY <1>2 DEF Close
    <2> QED
      BY <2>1, <2>2, <2>3, OneCycleFreezes
  <1> QED
    BY <1>1, <1>2

LEMMA RunnerFreezes == ASSUME IInv, NEW r \in Runners, RunnerStep(r) PROVE KeepsTerminal
  <1>1. CASE MarkAttempted(r)
    BY <1>1, ProgressFreezes, NothingFreezes DEF MarkAttempted
  <1>2. CASE Store(r)
    BY <1>2, ProgressFreezes, NothingFreezes DEF Store
  <1>3. CASE Extract(r)
    BY <1>3, ProgressFreezes, NothingFreezes DEF Extract
  <1>4. CASE Complete(r) \/ Recover(r)
    <2>1. local[r].cycle \in Cycles
      BY DEF IInv, TypeOK, Local
    <2> QED
      BY <1>4, <2>1, OutcomeFreezes, NothingFreezes DEF Complete, Recover, OutcomeAccepted, research
  <1>5. CASE \/ Admit(r) \/ CheckStart(r) \/ Attach(r) \/ Checkpoint(r) \/ Dispatch(r)
             \/ Fetch(r) \/ CheckRecord(r) \/ Fail(r) \/ Crash(r)
    BY <1>5, NothingFreezes
    DEF Admit, CheckStart, Attach, Checkpoint, Dispatch, Fetch, CheckRecord, Fail, Crash, research
  <1> QED
    BY <1>1, <1>2, <1>3, <1>4, <1>5, StartFreezes, CloseFreezes DEF RunnerStep, Step

LEMMA OperatorFreezes == ASSUME IInv, NEW o \in Operators, OperatorStep(o) PROVE KeepsTerminal
  <1>1. CASE Ask(o) \/ ChangeStatus(o)
    BY <1>1, NothingFreezes DEF Ask, ChangeStatus, research
  <1>2. CASE PlanNext(o)
    BY <1>2, OneCycleFreezes, NothingFreezes DEF PlanNext, TerminalCycle
  <1>3. CASE ManualStart(o)
    <2>1. request[o].cycle \in Cycles
      BY <1>3, IInvSplit, PendingType DEF ManualStart
    <2>2. \/ UNCHANGED <<cycle, attempt>>
          \/ /\ cycle[request[o].cycle].status = "planned"
             /\ \E x : cycle' = [cycle EXCEPT ![request[o].cycle] = x]
             /\ UNCHANGED attempt
      BY <1>3 DEF ManualStart, Startable
    <2> QED
      BY <2>1, <2>2, OneCycleFreezes, NothingFreezes DEF TerminalCycle
  <1>4. CASE RecoverCycle(o)
    <2>1. request[o].cycle \in Cycles
      BY <1>4, IInvSplit, PendingType DEF RecoverCycle
    <2>2. \/ UNCHANGED <<cycle, attempt>>
          \/ /\ cycle[request[o].cycle].status = "active"
             /\ \E x : cycle' = [cycle EXCEPT ![request[o].cycle] = x]
             /\ \/ UNCHANGED attempt
                \/ \E r \in Runners : \E y : Running(r) /\ attempt' = [attempt EXCEPT ![r] = y]
      BY <1>4 DEF RecoverCycle, Recoverable
    <2> QED
      BY <2>1, <2>2, OneCycleFreezes, NothingFreezes DEF TerminalCycle, Running, Closed
  <1> QED
    BY <1>1, <1>2, <1>3, <1>4 DEF OperatorStep

LEMMA EnvironmentFreezes == ASSUME IInv, Environment PROVE KeepsTerminal
  <1>1. CASE ManualOutcome
    BY <1>1, OutcomeFreezes DEF ManualOutcome, OutcomeAccepted
  <1>2. CASE SecurityTransition \/ Restart \/ Restore
    BY <1>2, NothingFreezes DEF SecurityTransition, Restart, Restore, research
  <1> QED
    BY <1>1, <1>2 DEF Environment

\* A cycle that completed, was blocked or failed, and an attempt that was
\* closed, are never written again: whichever of a runner, its interruption, a
\* manual outcome and an operator's recovery commits first wins.
THEOREM TerminalStaysFrozen == Spec => TerminalFrozen
  <1>1. IInv /\ [Next]_vars => [KeepsTerminal]_vars
    <2> SUFFICES ASSUME IInv, Next PROVE KeepsTerminal
      OBVIOUS
    <2> QED
      BY RunnerFreezes, OperatorFreezes, EnvironmentFreezes DEF Next
  <1> QED
    BY <1>1, InductiveInvariant, PTL DEF Spec, TerminalFrozen


\* What a closed attempt means to its runner: its cycle has ended, so every
\* write it still tries is refused.
LEMMA ClosedIsRefused ==
  ASSUME IInv, NEW r \in Runners, Closed(r)
  PROVE  /\ pc[r] \notin BeforeStart
         /\ ~MayProgress(r) /\ ~Closable(r)
         /\ pc[r] \in Attached => cycle[local[r].cycle].status # "active"
  <1>1. pc[r] \notin BeforeStart
    BY DEF IInv, RunnerOwnsAttempt, Closed
  <1>2. ~Running(r)
    BY DEF Running, Closed
  <1>3. ~MayProgress(r) /\ ~Closable(r)
    BY <1>2 DEF MayProgress, Closable
  <1>4. pc[r] \in Attached => cycle[local[r].cycle].status # "active"
    BY DEF IInv, RunnerOwnsAttempt, ClosedAttemptClosedCycle, TerminalCycle
  <1> QED
    BY <1>1, <1>3, <1>4

LEMMA ClosedRunnerIsIdle ==
  ASSUME IInv, NEW r \in Runners, Closed(r), RunnerStep(r)
  PROVE  UNCHANGED research
  <1>1. CASE Start(r)
    BY <1>1, ClosedIsRefused DEF Start, BeforeStart
  <1>2. CASE MarkAttempted(r) \/ Store(r) \/ Extract(r)
    BY <1>2, ClosedIsRefused DEF MarkAttempted, Store, Extract, research
  <1>3. CASE Complete(r) \/ Recover(r)
    <2>1. pc[r] \in Attached
      BY <1>3 DEF Complete, Recover, Attached, TryBody, Handlers
    <2> QED
      BY <1>3, <2>1, ClosedIsRefused DEF Complete, Recover, OutcomeAccepted
  <1>4. CASE Close(r)
    BY <1>4, ClosedIsRefused DEF Close, research
  <1>5. CASE \/ Admit(r) \/ CheckStart(r) \/ Attach(r) \/ Checkpoint(r) \/ Dispatch(r)
             \/ Fetch(r) \/ CheckRecord(r) \/ Fail(r) \/ Crash(r)
    BY <1>5
    DEF Admit, CheckStart, Attach, Checkpoint, Dispatch, Fetch, CheckRecord, Fail, Crash
  <1> QED
    BY <1>1, <1>2, <1>3, <1>4, <1>5 DEF RunnerStep, Step

\* A step of one runner moves no other.
LEMMA OthersStay ==
  ASSUME IInv, NEW q \in Runners, RunnerStep(q), NEW r \in Runners \ {q}
  PROVE  pc'[r] = pc[r]
  <1>1. \E p, b : Go(q, p, b)
    BY DEF RunnerStep, Step, Admit, CheckStart, Start, Attach, Checkpoint, MarkAttempted, Dispatch,
           Fetch, CheckRecord, Store, Extract, Complete, Recover, Close, Fail, Crash, Leave, Continue
  <1>2. pc \in [Runners -> PC]
    BY DEF IInv, TypeOK
  <1> QED
    BY <1>1, <1>2 DEF Go

\* INV-05: once an outcome, an interruption or an operator has closed an
\* attempt, no step of its runner changes saved research any more, although the
\* runner may be in the middle of a fetch and the investigation active again.
THEOREM ClosedAttemptStaysPowerless == Spec => ClosedAttemptIsPowerless
  <1>1. IInv /\ [Next]_vars => [ClosedRunnersAreIdle]_vars
    <2> SUFFICES ASSUME IInv, Next, NEW r \in Runners, Closed(r), pc'[r] # pc[r]
                 PROVE  UNCHANGED research
      BY DEF ClosedRunnersAreIdle
    <2>1. ASSUME NEW q \in Runners, RunnerStep(q) PROVE UNCHANGED research
      <3>1. q = r
        BY <2>1, OthersStay
      <3> QED
        BY <2>1, <3>1, ClosedRunnerIsIdle
    <2>2. ASSUME NEW o \in Operators, OperatorStep(o) PROVE UNCHANGED research
      BY <2>2 DEF OperatorStep, Ask, PlanNext, ManualStart, RecoverCycle, ChangeStatus, runner
    <2>3. CASE Environment
      BY <2>3 DEF Environment, ManualOutcome, SecurityTransition, Restart, Restore, runner
    <2> QED
      BY <2>1, <2>2, <2>3 DEF Next
  <1> QED
    BY <1>1, InductiveInvariant, PTL DEF Spec, ClosedAttemptIsPowerless

\* Sources and claims are saved only by create_source and extract_for_source,
\* and there only under the authority they read with the security row locked:
\* a check made before the lock may be stale, the commit is not.
THEOREM EvidenceIsAuthorized == Spec => EvidenceNeedsAuthority
  <1>1. Writable => security = "normal" /\ ~fenced
    BY DEF Writable, Permitted, Granted, Allows, Effective, AlwaysSafe, Restricted
  <1>2. [Next]_vars => [SavesUnderAuthority]_vars
    <2> SUFFICES ASSUME Next, ~UNCHANGED <<sources, claims>>
                 PROVE  security = "normal" /\ ~fenced /\ task = "active"
      BY DEF SavesUnderAuthority
    <2>1. ASSUME NEW r \in Runners, RunnerStep(r)
          PROVE  security = "normal" /\ ~fenced /\ task = "active"
      <3>1. CASE Store(r)
        BY <1>1, <3>1 DEF Store, MayProgress, StillActive
      <3>2. CASE Extract(r)
        BY <1>1, <3>2 DEF Extract, MayProgress, StillActive
      <3>3. CASE Complete(r) \/ Recover(r)
        BY <3>3 DEF Complete, Recover, RecordOutcome, research
      <3>4. CASE \/ Admit(r) \/ CheckStart(r) \/ Start(r) \/ Attach(r) \/ Checkpoint(r)
                 \/ MarkAttempted(r) \/ Dispatch(r) \/ Fetch(r) \/ CheckRecord(r)
                 \/ Close(r) \/ Fail(r) \/ Crash(r)
        BY <3>4 DEF Admit, CheckStart, Start, Attach, Checkpoint, MarkAttempted, Dispatch, Fetch,
                    CheckRecord, Close, Fail, Crash, research
      <3> QED
        BY <2>1, <3>1, <3>2, <3>3, <3>4 DEF RunnerStep, Step
    <2>2. ASSUME NEW o \in Operators, OperatorStep(o) PROVE UNCHANGED <<sources, claims>>
      BY <2>2 DEF OperatorStep, Ask, PlanNext, ManualStart, RecoverCycle, ChangeStatus, research
    <2>3. CASE Environment
      BY <2>3 DEF Environment, ManualOutcome, RecordOutcome, SecurityTransition, Restart, Restore,
                  research
    <2> QED
      BY <2>1, <2>2, <2>3 DEF Next
  <1> QED
    BY <1>2, PTL DEF Spec, EvidenceNeedsAuthority

-----------------------------------------------------------------------------
(* Progress: what a cycle has saved only grows, and stays traceable.       *)

\* What any step does to a cycle: its artifacts stay or the larger collection
\* was checked as a whole.
CycleGrows(c) ==
    /\ cycle[c].attempted \subseteq cycle'[c].attempted
    /\ cycle[c].evidence \subseteq cycle'[c].evidence
    /\ cycle[c].claims \subseteq cycle'[c].claims
    /\ \/ cycle'[c].evidence = cycle[c].evidence /\ cycle'[c].claims = cycle[c].claims
       \/ /\ cycle'[c].evidence \subseteq sources'
          /\ cycle'[c].claims \subseteq claims'
          /\ Cardinality(cycle'[c].evidence) <= MaxArtifacts
          /\ Cardinality(cycle'[c].claims) <= MaxArtifacts
    /\ cycle'[c].status = "absent" => cycle'[c] = cycle[c]

\* What any step does to an attempt: it records only what its cycle records.
AttemptGrows(r) ==
    /\ attempt[r].evidence \subseteq attempt'[r].evidence
    /\ attempt'[r].evidence \subseteq
           attempt[r].evidence \cup cycle'[attempt'[r].cycle].evidence
    /\ attempt'[r].claims \subseteq
           attempt[r].claims \cup cycle'[attempt'[r].cycle].claims
    /\ \/ attempt'[r].cycle = attempt[r].cycle
       \/ attempt[r].status = "NONE"
    /\ attempt'[r].status = "NONE" => attempt'[r] = attempt[r]

Grows ==
    /\ sources \subseteq sources'
    /\ claims \subseteq claims'
    /\ \A c \in Cycles : CycleGrows(c)
    /\ \A r \in Runners : AttemptGrows(r)

LEMMA NothingGrows ==
  ASSUME UNCHANGED <<cycle, attempt>>, sources \subseteq sources', claims \subseteq claims'
  PROVE  Grows
  BY DEF Grows, CycleGrows, AttemptGrows

\* A runner's progress is merged into the cycle of its own attempt.
LEMMA ProgressGrows ==
  ASSUME IInv, NEW r \in Runners, pc[r] \in Attached, MayProgress(r),
         NEW A, NEW E, NEW C, Progress(r, A, E, C),
         sources \subseteq sources', claims \subseteq claims',
         \/ E = {} /\ C = {}
         \/ /\ Fits(local[r].cycle, E, C)
            /\ cycle[local[r].cycle].evidence \cup E \subseteq sources'
            /\ cycle[local[r].cycle].claims \cup C \subseteq claims'
  PROVE  Grows
  <1> DEFINE c == local[r].cycle
             m == Merged(c, A, E, C)
  <1>1. /\ cycle \in [Cycles -> Cycle] /\ attempt \in [Runners -> Attempt]
        /\ c \in Cycles /\ attempt[r].cycle = c
    BY DEF IInv, TypeOK, Local, RunnerOwnsAttempt
  <1>2. /\ m.attempted = cycle[c].attempted \cup A
        /\ m.evidence = cycle[c].evidence \cup E
        /\ m.claims = cycle[c].claims \cup C
        /\ m.status = cycle[c].status
    BY <1>1 DEF Merged, Cycle
  <1>3. cycle'[c] = m /\ \A d \in Cycles \ {c} : cycle'[d] = cycle[d]
    BY <1>1 DEF Progress
  <1>4. /\ attempt'[r].evidence = attempt[r].evidence \cup E
        /\ attempt'[r].claims = attempt[r].claims \cup C
        /\ attempt'[r].cycle = c /\ attempt'[r].status = attempt[r].status
        /\ \A q \in Runners \ {r} : attempt'[q] = attempt[q]
    BY <1>1 DEF Progress, Attempt
  <1>5. attempt[r].status # "NONE" /\ cycle[c].status # "absent"
    BY DEF MayProgress, StillActive, Running
  <1> HIDE DEF m
  <1>6. ASSUME NEW d \in Cycles PROVE CycleGrows(d)
    BY <1>2, <1>3, <1>5 DEF CycleGrows, Fits
  <1>7. ASSUME NEW q \in Runners PROVE AttemptGrows(q)
    <2>1. CASE q = r
      <3>1. E \subseteq cycle'[c].evidence /\ C \subseteq cycle'[c].claims
        BY <1>2, <1>3
      <3> HIDE DEF c
      <3> QED
        BY <2>1, <1>1, <1>4, <1>5, <3>1 DEF AttemptGrows
    <2>2. CASE q # r
      BY <2>2, <1>4 DEF AttemptGrows
    <2> QED
      BY <2>1, <2>2
  <1> QED
    BY <1>6, <1>7 DEF Grows

\* An outcome merges what it cites and closes the attempts of its cycle.
LEMMA OutcomeGrows ==
  ASSUME IInv, NEW c \in Cycles, NEW status \in TerminalCycle, NEW A, NEW E, NEW C,
         OutcomeAccepted(c, A, E, C), RecordOutcome(c, status, A, E, C)
  PROVE  Grows
  <1> DEFINE m == Merged(c, A, E, C)
             n == [m EXCEPT !.status = status]
  <1>1. cycle \in [Cycles -> Cycle] /\ attempt \in [Runners -> Attempt]
    BY DEF IInv, TypeOK
  <1>2. /\ n.attempted = cycle[c].attempted \cup A
        /\ n.evidence = cycle[c].evidence \cup E
        /\ n.claims = cycle[c].claims \cup C
        /\ n.status = status
    BY <1>1 DEF Merged, Cycle
  <1>3. cycle'[c] = n /\ \A d \in Cycles \ {c} : cycle'[d] = cycle[d]
    BY <1>1 DEF RecordOutcome
  <1>4. AttemptStatusOf[status] # "NONE"
    BY DEF AttemptStatusOf, TerminalCycle
  <1>5. \A q \in Runners : /\ attempt'[q].evidence = attempt[q].evidence
                           /\ attempt'[q].claims = attempt[q].claims
                           /\ attempt'[q].cycle = attempt[q].cycle
                           /\ attempt'[q] = attempt[q] \/ attempt'[q].status # "NONE"
    BY <1>1, <1>4 DEF RecordOutcome, ClosedAttempts, Attempt
  <1> HIDE DEF n
  <1>6. ASSUME NEW d \in Cycles PROVE CycleGrows(d)
    BY <1>2, <1>3 DEF CycleGrows, Fits, OutcomeAccepted, RecordOutcome, TerminalCycle
  <1>7. ASSUME NEW q \in Runners PROVE AttemptGrows(q)
    BY <1>5 DEF AttemptGrows
  <1> QED
    BY <1>6, <1>7 DEF Grows, RecordOutcome

\* Any other write changes what a cycle or an attempt is, not what it has
\* recorded.
SameProgress(x, c) == /\ x.status # "absent"
                      /\ x.attempted = cycle[c].attempted
                      /\ x.evidence = cycle[c].evidence
                      /\ x.claims = cycle[c].claims

LEMMA OtherGrows ==
  ASSUME IInv, NEW c \in Cycles, NEW x, SameProgress(x, c),
         cycle' = [cycle EXCEPT ![c] = x],
         \/ UNCHANGED attempt
         \/ \E r \in Runners : \E y :
               /\ attempt' = [attempt EXCEPT ![r] = y]
               /\ y.evidence = attempt[r].evidence /\ y.claims = attempt[r].claims
               /\ y.status # "NONE"
               /\ y.cycle = attempt[r].cycle \/ attempt[r].status = "NONE",
         UNCHANGED <<sources, claims>>
  PROVE  Grows
  <1>1. cycle \in [Cycles -> Cycle] /\ attempt \in [Runners -> Attempt]
    BY DEF IInv, TypeOK
  <1>2. cycle'[c] = x /\ \A d \in Cycles \ {c} : cycle'[d] = cycle[d]
    BY <1>1
  <1>3. \A q \in Runners : /\ attempt'[q].evidence = attempt[q].evidence
                           /\ attempt'[q].claims = attempt[q].claims
                           /\ \/ attempt'[q].cycle = attempt[q].cycle
                              \/ attempt[q].status = "NONE"
                           /\ attempt'[q] = attempt[q] \/ attempt'[q].status # "NONE"
    BY <1>1
  <1>4. ASSUME NEW d \in Cycles PROVE CycleGrows(d)
    BY <1>2 DEF CycleGrows, SameProgress
  <1>5. ASSUME NEW q \in Runners PROVE AttemptGrows(q)
    BY <1>3 DEF AttemptGrows
  <1> QED
    BY <1>4, <1>5 DEF Grows

LEMMA WriterGrows ==
  ASSUME IInv, ArtifactsTraceable, NEW r \in Runners,
         MarkAttempted(r) \/ Store(r) \/ Extract(r)
  PROVE  Grows
  <1> DEFINE c == local[r].cycle
  <1>1. pc[r] \in Attached /\ pc[r] \notin Handlers \cup {"completing"}
    BY DEF MarkAttempted, Store, Extract, Attached, TryBody, Handlers
  <1>5. c \in Cycles
    BY DEF IInv, TypeOK, Local
  <1>2. CASE MarkAttempted(r)
    BY <1>1, <1>2, ProgressGrows, NothingGrows DEF MarkAttempted
  <1>3. CASE Store(r)
    <2>1. CASE UNCHANGED <<sources, cycle, attempt>>
      BY <1>3, <2>1, NothingGrows DEF Store
    <2>2. CASE ~UNCHANGED <<sources, cycle, attempt>>
      <3>1. /\ MayProgress(r) /\ Fits(c, local[r].held, {})
            /\ sources' = sources \cup local[r].held
            /\ UNCHANGED claims
            /\ Progress(r, Objective(r), local[r].held, {})
        BY <1>3, <2>2 DEF Store
      <3>2. cycle[c].evidence \subseteq sources /\ cycle[c].claims \subseteq claims
        BY <1>5 DEF ArtifactsTraceable
      <3> QED
        BY <1>1, <3>1, <3>2, ProgressGrows
    <2> QED
      BY <2>1, <2>2
  <1>4. CASE Extract(r)
    <2>1. CASE UNCHANGED <<claims, cycle, attempt>>
      BY <1>4, <2>1, NothingGrows DEF Extract
    <2>2. CASE ~UNCHANGED <<claims, cycle, attempt>>
      <3>1. PICK C \in {{}, local[r].held} :
              /\ MayProgress(r) /\ Fits(c, {}, C)
              /\ claims' = claims \cup C
              /\ UNCHANGED sources
              /\ Progress(r, Objective(r), {}, C)
        BY <1>4, <2>2 DEF Extract
      <3>2. cycle[c].evidence \subseteq sources /\ cycle[c].claims \subseteq claims
        BY <1>5 DEF ArtifactsTraceable
      <3> QED
        BY <1>1, <3>1, <3>2, ProgressGrows
    <2> QED
      BY <2>1, <2>2
  <1> QED
    BY <1>2, <1>3, <1>4

LEMMA RunnerGrows ==
  ASSUME IInv, ArtifactsTraceable, NEW r \in Runners, RunnerStep(r)
  PROVE  Grows
  <1> DEFINE c == local[r].cycle
  <1>1. /\ c \in Cycles /\ cycle \in [Cycles -> Cycle]
        /\ attempt \in [Runners -> Attempt]
    BY DEF IInv, TypeOK, Local
  <1>2. CASE Start(r)
    <2>1. CASE ~Startable(c)
      BY <1>2, <2>1, NothingGrows DEF Start
    <2>2. CASE Startable(c)
      <3> DEFINE x == [cycle[c] EXCEPT !.status = "active"]
                 y == [attempt[r] EXCEPT !.status = "RUNNING", !.cycle = c]
      <3>1. /\ cycle' = [cycle EXCEPT ![c] = x]
            /\ attempt' = [attempt EXCEPT ![r] = y]
            /\ UNCHANGED <<sources, claims>>
        BY <1>1, <1>2, <2>2 DEF Start
      <3>2. SameProgress(x, c)
        BY <1>1 DEF SameProgress, Cycle
      <3>3. /\ y.evidence = attempt[r].evidence /\ y.claims = attempt[r].claims
            /\ y.status = "RUNNING" /\ attempt[r].status = "NONE"
        BY <1>1, <1>2 DEF Start, Attempt, IInv, RunnerOwnsAttempt, BeforeStart
      <3> HIDE DEF c, x, y
      <3> QED
        BY <1>1, <3>1, <3>2, <3>3, OtherGrows
    <2> QED
      BY <2>1, <2>2
  <1>3. CASE Complete(r) \/ Recover(r)
    <2>1. \/ UNCHANGED research
          \/ \E status \in TerminalCycle :
                /\ OutcomeAccepted(c, local[r].attempted, local[r].evidence, local[r].claims)
                /\ RecordOutcome(c, status, local[r].attempted, local[r].evidence, local[r].claims)
      BY <1>3 DEF Complete, Recover, TerminalCycle
    <2> QED
      BY <1>1, <2>1, OutcomeGrows, NothingGrows DEF research
  <1>4. CASE Close(r)
    <2>1. CASE ~Closable(r)
      BY <1>4, <2>1, NothingGrows DEF Close
    <2>2. CASE Closable(r)
      <3> DEFINE x == EndedFor(c, "blocked", "security_policy_interrupted")
                 y == [attempt[r] EXCEPT !.status = "INTERRUPTED"]
      <3>1. /\ cycle' = [cycle EXCEPT ![c] = x]
            /\ attempt' = [attempt EXCEPT ![r] = y]
            /\ UNCHANGED <<sources, claims>>
        BY <1>1, <1>4, <2>2 DEF Close
      <3>2. SameProgress(x, c)
        BY <1>1 DEF SameProgress, EndedFor, Cycle
      <3>3. /\ y.evidence = attempt[r].evidence /\ y.claims = attempt[r].claims
            /\ y.status = "INTERRUPTED" /\ y.cycle = attempt[r].cycle
        BY <1>1 DEF Attempt
      <3> HIDE DEF c, x, y
      <3> QED
        BY <1>1, <3>1, <3>2, <3>3, OtherGrows
    <2> QED
      BY <2>1, <2>2
  <1>5. CASE \/ Admit(r) \/ CheckStart(r) \/ Attach(r) \/ Checkpoint(r) \/ Dispatch(r)
             \/ Fetch(r) \/ CheckRecord(r) \/ Fail(r) \/ Crash(r)
    BY <1>5, NothingGrows
    DEF Admit, CheckStart, Attach, Checkpoint, Dispatch, Fetch, CheckRecord, Fail, Crash, research
  <1> QED
    BY <1>2, <1>3, <1>4, <1>5, WriterGrows DEF RunnerStep, Step

LEMMA OperatorGrows ==
  ASSUME IInv, UntouchedEmpty, NEW o \in Operators, OperatorStep(o)
  PROVE  Grows
  <1>1. cycle \in [Cycles -> Cycle] /\ attempt \in [Runners -> Attempt]
    BY DEF IInv, TypeOK
  <1>2. CASE Ask(o) \/ ChangeStatus(o)
    BY <1>2, NothingGrows DEF Ask, ChangeStatus, research
  <1>3. CASE PlanNext(o)
    <2>1. CASE UNCHANGED cycle
      BY <1>3, <2>1, NothingGrows DEF PlanNext
    <2>2. ASSUME NEW c \in Cycles, cycle[c].status = "absent",
                 cycle' = [cycle EXCEPT ![c] = NewCycle("planned")]
          PROVE  Grows
      <3>1. SameProgress(NewCycle("planned"), c)
        BY <2>2 DEF UntouchedEmpty, SameProgress, NewCycle
      <3> QED
        BY <1>3, <2>2, <3>1, OtherGrows DEF PlanNext
    <2> QED
      BY <1>3, <2>1, <2>2 DEF PlanNext
  <1>4. CASE ManualStart(o)
    <2> DEFINE c == request[o].cycle
               x == [cycle[c] EXCEPT !.status = "active"]
    <2>1. c \in Cycles
      BY <1>4, IInvSplit, PendingType DEF ManualStart
    <2>2. UNCHANGED cycle \/ cycle' = [cycle EXCEPT ![c] = x]
      BY <1>1, <1>4, <2>1 DEF ManualStart
    <2>3. SameProgress(x, c)
      BY <1>1, <2>1 DEF SameProgress, Cycle
    <2>4. UNCHANGED <<attempt, sources, claims>>
      BY <1>4 DEF ManualStart
    <2> HIDE DEF c, x
    <2> QED
      BY <2>1, <2>2, <2>3, <2>4, OtherGrows, NothingGrows
  <1>5. CASE RecoverCycle(o)
    <2> DEFINE c == request[o].cycle
               x == EndedFor(c, "failed", "operator")
    <2>1. c \in Cycles
      BY <1>5, IInvSplit, PendingType DEF RecoverCycle
    <2>2. CASE UNCHANGED <<cycle, attempt>>
      BY <1>5, <2>2, NothingGrows DEF RecoverCycle
    <2>3. CASE ~UNCHANGED <<cycle, attempt>>
      <3>1. /\ cycle' = [cycle EXCEPT ![c] = x]
            /\ UNCHANGED <<sources, claims>>
            /\ \/ UNCHANGED attempt
               \/ \E r \in Runners : attempt' = [attempt EXCEPT ![r].status = "INTERRUPTED"]
        BY <1>5, <2>3 DEF RecoverCycle
      <3>2. SameProgress(x, c)
        BY <1>1, <2>1 DEF SameProgress, EndedFor, Cycle
      <3>3. ASSUME NEW r \in Runners, attempt' = [attempt EXCEPT ![r].status = "INTERRUPTED"]
            PROVE  \E y : /\ attempt' = [attempt EXCEPT ![r] = y]
                          /\ y.evidence = attempt[r].evidence /\ y.claims = attempt[r].claims
                          /\ y.status # "NONE" /\ y.cycle = attempt[r].cycle
        <4> DEFINE y == [attempt[r] EXCEPT !.status = "INTERRUPTED"]
        <4>1. /\ attempt' = [attempt EXCEPT ![r] = y]
              /\ y.evidence = attempt[r].evidence /\ y.claims = attempt[r].claims
              /\ y.status # "NONE" /\ y.cycle = attempt[r].cycle
          BY <1>1, <3>3 DEF Attempt
        <4> QED
          BY <4>1
      <3> HIDE DEF c, x
      <3> QED
        BY <2>1, <3>1, <3>2, <3>3, OtherGrows
    <2> QED
      BY <2>2, <2>3
  <1> QED
    BY <1>2, <1>3, <1>4, <1>5 DEF OperatorStep

LEMMA StepGrows ==
  ASSUME IInv, Traceable, [Next]_vars
  PROVE  Grows
  <1>1. CASE UNCHANGED vars
    BY <1>1, NothingGrows DEF vars, research
  <1>2. CASE ManualOutcome
    BY <1>2, OutcomeGrows DEF ManualOutcome
  <1>3. CASE SecurityTransition \/ Restart \/ Restore
    BY <1>3, NothingGrows DEF SecurityTransition, Restart, Restore, research
  <1> QED
    BY <1>1, <1>2, <1>3, RunnerGrows, OperatorGrows DEF Traceable, Next, Environment

LEMMA TraceableInit == Init => Traceable
  <1> SUFFICES ASSUME Init PROVE Traceable
    OBVIOUS
  <1>1. Cardinality({}) = 0 /\ 0 <= MaxArtifacts
    BY FS_EmptySet, CycleAssumption
  <1>2. \A c \in Cycles : /\ cycle[c].evidence = {} /\ cycle[c].claims = {}
                          /\ cycle[c].status = "absent" => cycle[c] = NewCycle("absent")
    BY DEF Init, NewCycle
  <1>3. \A r \in Runners : attempt[r].evidence = {} /\ attempt[r].claims = {}
    BY DEF Init
  <1> QED
    BY <1>1, <1>2, <1>3 DEF Traceable, ArtifactsTraceable, UntouchedEmpty

LEMMA TraceableStep == IInv /\ Traceable /\ [Next]_vars => Traceable'
  <1> SUFFICES ASSUME IInv, Traceable, [Next]_vars PROVE Traceable'
    OBVIOUS
  <1>1. Grows
    BY StepGrows
  <1>2. \A r \in Runners : attempt[r].cycle \in Cycles
    BY DEF IInv, TypeOK, Attempt
  <1>3. ASSUME NEW c \in Cycles
        PROVE  /\ cycle'[c].evidence \subseteq sources'
               /\ cycle'[c].claims \subseteq claims'
               /\ Cardinality(cycle'[c].evidence) <= MaxArtifacts
               /\ Cardinality(cycle'[c].claims) <= MaxArtifacts
    BY <1>1 DEF Grows, CycleGrows, Traceable, ArtifactsTraceable
  <1>4. ASSUME NEW r \in Runners
        PROVE  /\ attempt'[r].evidence \subseteq cycle'[attempt'[r].cycle].evidence
               /\ attempt'[r].claims \subseteq cycle'[attempt'[r].cycle].claims
    <2>1. AttemptGrows(r) /\ CycleGrows(attempt[r].cycle)
      BY <1>1, <1>2 DEF Grows
    <2>2. CASE attempt[r].status = "NONE"
      BY <2>1, <2>2 DEF AttemptGrows, Traceable, UntouchedEmpty
    <2>3. CASE attempt[r].status # "NONE"
      BY <2>1, <2>3 DEF AttemptGrows, CycleGrows, Traceable, ArtifactsTraceable
    <2> QED
      BY <2>2, <2>3
  <1>5. UntouchedEmpty'
    BY <1>1 DEF Grows, CycleGrows, AttemptGrows, Traceable, UntouchedEmpty, NewCycle
  <1> QED
    BY <1>3, <1>4, <1>5 DEF Traceable, ArtifactsTraceable

LEMMA AlwaysTraceable == Spec => []Traceable
  <1> QED
    BY TraceableInit, TraceableStep, InductiveInvariant, PTL DEF Spec

\* The evidence and claims of a cycle are always stored ones, within the bound
\* on artifacts: whatever order the runners, the operator and the failures
\* come in, validate_progress saw the whole merged collection before the save.
THEOREM ArtifactsStayTraceable == Spec => []ArtifactsTraceable
  <1>1. Traceable => ArtifactsTraceable
    BY DEF Traceable
  <1> QED
    BY <1>1, AlwaysTraceable, PTL

\* What a cycle has recorded as attempted, as evidence and as claims is never
\* taken back: recording progress, failing, blocking, cancelling and recovering
\* all merge with what the store holds, never with the caller's copy.
THEOREM ProgressIsRetained == Spec => ProgressRetained
  <1>1. IInv /\ Traceable /\ [Next]_vars =>
          [/\ \A c \in Cycles : /\ cycle[c].attempted \subseteq cycle'[c].attempted
                                /\ cycle[c].evidence \subseteq cycle'[c].evidence
                                /\ cycle[c].claims \subseteq cycle'[c].claims
           /\ sources \subseteq sources'
           /\ claims \subseteq claims']_vars
    BY StepGrows DEF Grows, CycleGrows
  <1> QED
    BY <1>1, AlwaysTraceable, InductiveInvariant, PTL DEF Spec, ProgressRetained

-----------------------------------------------------------------------------
(* Completion: a runner that completes has done its work.                  *)

LEMMA WorkedStays ==
  ASSUME NEW r \in Runners, Worked(r), pc'[r] = pc[r], local'[r] = local[r], AttemptGrows(r)
  PROVE  Worked(r)'
  BY DEF Worked, AttemptGrows, MarkedAt

LEMMA WorkedOver ==
  ASSUME NEW r \in Runners, pc'[r] \in Handlers \cup Ended
  PROVE  Worked(r)'
  BY DEF Worked, Handlers, Ended, BeforeStart, TryBody

\* The steps that only move a runner.
LEMMA ControlWorks ==
  ASSUME IInv, NEW r \in Runners, Worked(r), AttemptGrows(r),
         \/ CheckStart(r) \/ Start(r) \/ Attach(r) \/ Checkpoint(r) \/ Dispatch(r)
         \/ CheckRecord(r)
  PROVE  Worked(r)'
  <1>1. pc \in [Runners -> PC]
    BY DEF IInv, TypeOK
  <1>2. CASE pc'[r] \in Handlers \cup Ended
    BY <1>2, WorkedOver
  <1>3. CASE pc'[r] \notin Handlers \cup Ended
    <2>1. local' = local
      BY <1>1, <1>3 DEF CheckStart, Start, Attach, Checkpoint, Dispatch, CheckRecord, Continue, Leave,
                        Go, Ended
    <2>2. /\ pc[r] \in BeforeStart \cup {"attaching"} \cup TryBody
          /\ pc'[r] \in MarkedAt(r) => pc[r] \in MarkedAt(r)
          /\ pc'[r] \in {"recording", "storing"} => pc[r] \in {"recording", "storing"}
          /\ pc'[r] \in {"rechecking", "extracting"} => pc[r] \in {"rechecking", "extracting"}
          /\ pc'[r] # "completing"
      BY <1>1, <1>3
      DEF CheckStart, Start, Attach, Checkpoint, Dispatch, CheckRecord, Continue, Leave, Go, Ended,
          Handlers, MarkedAt, AfterCheckpoint, AfterDispatch, BeforeStart, TryBody
    <2> QED
      BY <2>1, <2>2 DEF Worked, AttemptGrows
  <1> QED
    BY <1>2, <1>3

LEMMA AdmitWorks ==
  ASSUME IInv, NEW r \in Runners, Worked(r), AttemptGrows(r), Admit(r)
  PROVE  Worked(r)'
  <1>1. pc \in [Runners -> PC] /\ local \in [Runners -> Local]
    BY DEF IInv, TypeOK
  <1>2. CASE Leave(r, "refused")
    BY <1>1, <1>2, WorkedOver DEF Leave, Go, Ended
  <1>3. CASE /\ \E c \in Cycles : local' = [local EXCEPT ![r].cycle = c]
             /\ Go(r, "admitted", TRUE)
    <2>1. /\ local'[r].step = local[r].step
          /\ local'[r].attempted = local[r].attempted
          /\ local'[r].evidence = local[r].evidence
      BY <1>1, <1>3 DEF Local
    <2>2. pc[r] = "idle" /\ pc'[r] = "admitted"
      BY <1>1, <1>3 DEF Admit, Go
    <2> QED
      BY <2>1, <2>2 DEF Worked, AttemptGrows, MarkedAt, BeforeStart
  <1> QED
    BY <1>2, <1>3 DEF Admit

LEMMA MarkWorks ==
  ASSUME IInv, NEW r \in Runners, Worked(r), AttemptGrows(r), MarkAttempted(r)
  PROVE  Worked(r)'
  <1>1. pc \in [Runners -> PC] /\ local \in [Runners -> Local] /\ local[r] \in Local
    BY DEF IInv, TypeOK
  <1>2. CASE pc'[r] \in Handlers \cup Ended
    BY <1>2, WorkedOver
  <1>3. CASE pc'[r] \notin Handlers \cup Ended
    <2>1. /\ pc[r] = "attempting" /\ pc'[r] \in {"dispatching", "fetching"}
          /\ local' = [local EXCEPT ![r].attempted = @ \cup Objective(r)]
      BY <1>1, <1>3 DEF MarkAttempted, Go, AfterAttempt, Handlers
    <2>2. /\ local'[r].step = local[r].step
          /\ local'[r].attempted = local[r].attempted \cup Work[r][local[r].step]
          /\ local'[r].evidence = local[r].evidence
      BY <1>1, <2>1 DEF Local, Objective
    <2> QED
      BY <2>1, <2>2 DEF Worked, AttemptGrows, TryBody
  <1> QED
    BY <1>2, <1>3

LEMMA FetchWorks ==
  ASSUME IInv, NEW r \in Runners, Worked(r), AttemptGrows(r), Fetch(r)
  PROVE  Worked(r)'
  <1>1. pc \in [Runners -> PC] /\ local \in [Runners -> Local] /\ local[r] \in Local
    BY DEF IInv, TypeOK
  <1>2. CASE pc'[r] \in Handlers \cup Ended
    BY <1>2, WorkedOver
  <1>3. CASE pc'[r] \notin Handlers \cup Ended
    <2>1. /\ pc[r] = "fetching" /\ pc'[r] = "recording"
          /\ \E s \in Sources : local' = [local EXCEPT ![r].held = {s}]
      BY <1>1, <1>3 DEF Fetch, Go, Handlers
    <2>2. /\ local'[r].step = local[r].step
          /\ local'[r].attempted = local[r].attempted
          /\ local'[r].evidence = local[r].evidence
          /\ local'[r].held # {}
      BY <1>1, <2>1 DEF Local
    <2> QED
      BY <2>1, <2>2 DEF Worked, AttemptGrows, MarkedAt, TryBody
  <1> QED
    BY <1>2, <1>3

\* What is stored becomes evidence of the runner and of its attempt alike.
LEMMA StoreWorks ==
  ASSUME IInv, NEW r \in Runners, Worked(r), Store(r)
  PROVE  Worked(r)'
  <1>1. /\ pc \in [Runners -> PC] /\ local \in [Runners -> Local] /\ local[r] \in Local
        /\ attempt \in [Runners -> Attempt]
    BY DEF IInv, TypeOK
  <1>2. CASE pc'[r] \in Handlers \cup Ended
    BY <1>2, WorkedOver
  <1>3. CASE pc'[r] \notin Handlers \cup Ended
    <2>1. /\ pc[r] = "storing" /\ pc'[r] = "rechecking"
          /\ local' = [local EXCEPT ![r].evidence = @ \cup local[r].held]
          /\ Progress(r, Objective(r), local[r].held, {})
      BY <1>1, <1>3 DEF Store, Go, Handlers
    <2>2. /\ local'[r].step = local[r].step
          /\ local'[r].attempted = local[r].attempted
          /\ local'[r].evidence = local[r].evidence \cup local[r].held
      BY <1>1, <2>1 DEF Local
    <2>3. attempt'[r].evidence = attempt[r].evidence \cup local[r].held
      BY <1>1, <2>1 DEF Progress, Attempt
    <2> QED
      BY <2>1, <2>2, <2>3 DEF Worked, MarkedAt, TryBody
  <1> QED
    BY <1>2, <1>3

\* The runner goes on to its next target, or to the outcome after the last.
LEMMA ExtractWorks ==
  ASSUME IInv, NEW r \in Runners, Worked(r), AttemptGrows(r), Extract(r)
  PROVE  Worked(r)'
  <1>1. /\ pc \in [Runners -> PC] /\ local \in [Runners -> Local] /\ local[r] \in Local
        /\ local[r].step \in Nat \ {0} /\ Len(Work[r]) \in Nat
    BY CycleAssumption DEF IInv, TypeOK, StepInRange
  <1>2. CASE pc'[r] \in Handlers \cup Ended
    BY <1>2, WorkedOver
  <1>3. CASE pc'[r] \notin Handlers \cup Ended
    <2>1. PICK C : /\ pc[r] = "extracting"
                   /\ pc'[r] = IF local[r].step < Len(Work[r]) THEN "checkpoint" ELSE "completing"
                   /\ local' = [local EXCEPT ![r].claims = @ \cup C,
                                             ![r].step = @ + 1,
                                             ![r].held = {}]
      BY <1>1, <1>3 DEF Extract, Go, Handlers
    <2>2. /\ local'[r].step = local[r].step + 1
          /\ local'[r].attempted = local[r].attempted
          /\ local'[r].evidence = local[r].evidence
      BY <1>1, <2>1 DEF Local
    <2>3. \A i \in 1..(local'[r].step - 1) : i \in 1..(local[r].step - 1) \/ i = local[r].step
      BY <1>1, <2>2
    <2>4. /\ \A i \in 1..(local[r].step - 1) : Work[r][i] \subseteq local[r].attempted
          /\ Work[r][local[r].step] \subseteq local[r].attempted
          /\ local[r].evidence # {} /\ local[r].evidence \subseteq attempt[r].evidence
      BY <2>1 DEF Worked, MarkedAt, TryBody
    <2>5. pc'[r] = "completing" => local'[r].step > Len(Work[r])
      BY <1>1, <2>1, <2>2
    <2>6. pc'[r] \in {"checkpoint", "completing"}
      BY <2>1
    <2> QED
      BY <2>2, <2>3, <2>4, <2>5, <2>6 DEF Worked, AttemptGrows, MarkedAt
  <1> QED
    BY <1>2, <1>3

LEMMA RunnerWorks ==
  ASSUME IInv, NEW r \in Runners, Worked(r), AttemptGrows(r), RunnerStep(r)
  PROVE  Worked(r)'
  <1>1. pc \in [Runners -> PC] /\ pc[r] \in PC
    BY DEF IInv, TypeOK
  <1>2. CASE Complete(r) \/ Recover(r) \/ Close(r) \/ Fail(r) \/ Crash(r)
    <2>1. pc'[r] \in Handlers \cup Ended
      BY <1>1, <1>2
      DEF Complete, Recover, Close, Fail, Crash, Leave, Continue, Go, Handlers, Ended
    <2> QED
      BY <2>1, WorkedOver
  <1> QED
    BY <1>2, ControlWorks, AdmitWorks, MarkWorks, FetchWorks, StoreWorks, ExtractWorks
    DEF RunnerStep, Step

\* A step of one runner leaves the point and the variables of the others.
LEMMA OthersUntouched ==
  ASSUME IInv, NEW q \in Runners, RunnerStep(q), NEW r \in Runners \ {q}
  PROVE  pc'[r] = pc[r] /\ local'[r] = local[r]
  <1>1. pc'[r] = pc[r]
    BY OthersStay
  <1>2. \/ UNCHANGED local
        \/ \E x : local' = [local EXCEPT ![q] = x]
    BY DEF RunnerStep, Step, Admit, CheckStart, Start, Attach, Checkpoint, MarkAttempted, Dispatch,
           Fetch, CheckRecord, Store, Extract, Complete, Recover, Close, Fail, Crash, Leave, Continue
  <1>3. local \in [Runners -> Local]
    BY DEF IInv, TypeOK
  <1> QED
    BY <1>1, <1>2, <1>3

LEMMA AllWork ==
  ASSUME IInv, Traceable, \A r \in Runners : Worked(r), [Next]_vars, NEW r \in Runners
  PROVE  Worked(r)'
  <1>1. AttemptGrows(r) /\ Worked(r)
    BY StepGrows DEF Grows
  <1>2. ASSUME NEW q \in Runners, RunnerStep(q) PROVE Worked(r)'
    BY <1>1, <1>2, RunnerWorks, OthersUntouched, WorkedStays
  <1>3. CASE UNCHANGED runner
    BY <1>1, <1>3, WorkedStays DEF runner
  <1>4. CASE Restart
    <2>1. CASE pc[r] = "idle"
      <3>1. pc'[r] = "idle" /\ local'[r] = NewLocal
        BY <1>4, <2>1 DEF Restart, Ended
      <3> QED
        BY <3>1 DEF Worked, NewLocal, MarkedAt, BeforeStart
    <2>2. CASE pc[r] # "idle"
      <3>1. pc'[r] \in Ended
        BY <1>4, <2>2 DEF Restart, Ended
      <3> QED
        BY <3>1, WorkedOver
    <2> QED
      BY <2>1, <2>2
  <1> QED
    BY <1>2, <1>3, <1>4
    DEF Next, OperatorStep, Ask, PlanNext, ManualStart, RecoverCycle, ChangeStatus, Environment,
        ManualOutcome, SecurityTransition, Restore, vars

\* The completed outcome is accepted while the cycle is active, hence while the
\* attempt is running, and only after the last target.
LEMMA CompleteEarns ==
  ASSUME IInv, NEW r \in Runners, Worked(r), Complete(r), pc'[r] = "completed"
  PROVE  /\ attempt'[r].status = "COMPLETED"
         /\ cycle'[attempt'[r].cycle].status = "completed"
         /\ UNION {Work[r][i] : i \in DOMAIN Work[r]} \subseteq cycle'[attempt'[r].cycle].attempted
         /\ attempt'[r].evidence # {}
  <1> DEFINE m == local[r]
             c == m.cycle
             n == [Merged(c, m.attempted, m.evidence, m.claims) EXCEPT !.status = "completed"]
  <1>1. /\ pc \in [Runners -> PC] /\ local \in [Runners -> Local] /\ m \in Local
        /\ cycle \in [Cycles -> Cycle] /\ attempt \in [Runners -> Attempt] /\ c \in Cycles
        /\ m.step \in Nat \ {0}
    BY DEF IInv, TypeOK, StepInRange, Local
  <1>2. /\ pc[r] = "completing"
        /\ cycle[c].status = "active"
        /\ RecordOutcome(c, "completed", m.attempted, m.evidence, m.claims)
    BY <1>1 DEF Complete, Continue, Go, OutcomeAccepted
  <1>3. Running(r) /\ attempt[r].cycle = c
    BY <1>2 DEF IInv, RunnerOwnsAttempt, ClosedAttemptClosedCycle, Closed, Running, TerminalCycle,
                Attached, TryBody
  <1>4. /\ attempt'[r].status = "COMPLETED" /\ attempt'[r].cycle = c
        /\ attempt'[r].evidence = attempt[r].evidence
    BY <1>1, <1>2, <1>3 DEF RecordOutcome, ClosedAttempts, AttemptStatusOf, Attempt
  <1>5. n.status = "completed" /\ n.attempted = cycle[c].attempted \cup m.attempted
    BY <1>1 DEF Merged, Cycle
  <1>6. cycle'[c] = n
    BY <1>1, <1>2 DEF RecordOutcome
  <1>7. DOMAIN Work[r] = 1..Len(Work[r]) /\ Len(Work[r]) \in Nat /\ Len(Work[r]) >= 1
    <2>1. Work[r] \in Seq(SUBSET Objectives)
      BY CycleAssumption
    <2> QED
      BY <2>1, WorkNonempty
  <1>8. /\ \A i \in 1..(m.step - 1) : Work[r][i] \subseteq m.attempted
        /\ m.evidence # {} /\ m.evidence \subseteq attempt[r].evidence
        /\ m.step > Len(Work[r])
    BY <1>1, <1>2, <1>7 DEF Worked, TryBody
  <1>9. \A i \in DOMAIN Work[r] : Work[r][i] \subseteq m.attempted
    BY <1>1, <1>7, <1>8
  <1> HIDE DEF n
  <1> QED
    BY <1>4, <1>5, <1>6, <1>8, <1>9

LEMMA StepFreezes == IInv /\ [Next]_vars => KeepsTerminal
  BY RunnerFreezes, OperatorFreezes, EnvironmentFreezes, NothingFreezes DEF Next, vars, research

\* Only the runner's own last step makes it complete.
LEMMA WhoCompletes ==
  ASSUME IInv, [Next]_vars, NEW r \in Runners, pc'[r] = "completed", pc[r] # "completed"
  PROVE  Complete(r)
  <1>1. pc \in [Runners -> PC]
    BY DEF IInv, TypeOK
  <1>2. ASSUME NEW q \in Runners, RunnerStep(q) PROVE Complete(r)
    <2>1. q = r
      BY <1>2, OthersStay
    <2>2. \/ Complete(r)
          \/ Admit(r) \/ CheckStart(r) \/ Start(r) \/ Attach(r) \/ Checkpoint(r) \/ Dispatch(r)
          \/ Fetch(r) \/ CheckRecord(r) \/ MarkAttempted(r) \/ Store(r) \/ Extract(r) \/ Recover(r)
          \/ Close(r) \/ Fail(r) \/ Crash(r)
      BY <1>2, <2>1 DEF RunnerStep, Step
    <2> QED
      BY <1>1, <2>2
      DEF Admit, CheckStart, Start, Attach, Checkpoint, Dispatch, Fetch, CheckRecord, MarkAttempted,
          Store, Extract, Recover, Close, Fail, Crash, Leave, Continue, Go, AfterCheckpoint,
          AfterDispatch, AfterAttempt
  <1>3. CASE Restart
    BY <1>3 DEF Restart
  <1> QED
    BY <1>2, <1>3
    DEF Next, OperatorStep, Ask, PlanNext, ManualStart, RecoverCycle, ChangeStatus, Environment,
        ManualOutcome, SecurityTransition, Restore, vars, runner

LEMMA EarnedStep == IInv /\ Traceable /\ EarnedInv /\ [Next]_vars => EarnedInv'
  <1> SUFFICES ASSUME IInv, Traceable, EarnedInv, [Next]_vars PROVE EarnedInv'
    OBVIOUS
  <1>1. \A r \in Runners : Worked(r)'
    BY AllWork DEF EarnedInv
  <1>2. ASSUME NEW r \in Runners, pc'[r] = "completed"
        PROVE  /\ attempt'[r].status = "COMPLETED"
               /\ cycle'[attempt'[r].cycle].status = "completed"
               /\ UNION {Work[r][i] : i \in DOMAIN Work[r]}
                      \subseteq cycle'[attempt'[r].cycle].attempted
               /\ attempt'[r].evidence # {}
    <2>1. CASE pc[r] = "completed"
      <3>1. Closed(r) /\ cycle[attempt[r].cycle].status \in TerminalCycle
        BY <2>1 DEF EarnedInv, CompletionIsEarned, Closed, TerminalCycle
      <3>2. attempt[r].cycle \in Cycles
        BY DEF IInv, TypeOK, Attempt
      <3>3. attempt'[r] = attempt[r] /\ cycle'[attempt[r].cycle] = cycle[attempt[r].cycle]
        BY <3>1, <3>2, StepFreezes DEF KeepsTerminal
      <3> QED
        BY <2>1, <3>3 DEF EarnedInv, CompletionIsEarned
    <2>2. CASE pc[r] # "completed"
      BY <1>2, <2>2, WhoCompletes, CompleteEarns DEF EarnedInv
    <2> QED
      BY <2>1, <2>2
  <1> QED
    BY <1>1, <1>2 DEF EarnedInv, CompletionIsEarned

LEMMA EarnedInit == Init => EarnedInv
  BY DEF Init, EarnedInv, Worked, CompletionIsEarned, NewLocal, MarkedAt

\* A runner that reaches COMPLETED has attempted every objective of its work
\* and its cycle says so: no path through the fetch loop, its skipped targets
\* and its refused saves ends in completion with a target left out.
THEOREM CompletionStaysEarned == Spec => []CompletionIsEarned
  <1>1. EarnedInv => CompletionIsEarned
    BY DEF EarnedInv
  <1> QED
    BY <1>1, EarnedInit, EarnedStep, AlwaysTraceable, InductiveInvariant, PTL DEF Spec

-----------------------------------------------------------------------------
(* The authority the rest of the system counts on.                         *)

\* The cycles run under an authority that moves only as governed work may count
\* on; the restoration they meet is one that left no attempt running.
THEOREM CyclesGoverned == Spec => GovernedAsPromised
  <1> DEFINE Open == {r \in Runners : Running(r)}
  <1>1. Init => Governing!Init
    <2> SUFFICES ASSUME Init PROVE Governing!Init
      OBVIOUS
    <2>1. security = "normal" /\ fenced \in BOOLEAN
      BY DEF Init
    <2>2. \A r \in Runners : ~Running(r)
      BY DEF Init, Running
    <2> QED
      BY <2>1, <2>2 DEF Governing!Init
  <1>2. ASSUME [Next]_vars PROVE [Governing!Next]_<<security, fenced, Open>>
    <2>1. CASE UNCHANGED vars
      BY <2>1 DEF vars, authority, research, Running
    <2>2. CASE SecurityTransition
      <3>1. Governing!Transition
        BY <2>2 DEF SecurityTransition, research, Running, Governing!Transition,
                    ValidTransitions, Governing!ValidTransitions
      <3> QED
        BY <3>1 DEF Governing!Next
    <2>3. CASE Restart
      <3>1. Governing!Fence \/ UNCHANGED <<security, fenced>>
        BY <2>3 DEF Restart, research, Running, Governing!Fence
      <3> QED
        BY <3>1 DEF Governing!Next, Governing!Activity
    <2>4. CASE Restore
      <3>1. Governing!Restore
        BY <2>4 DEF Restore, research, Running, Governing!Restore
      <3> QED
        BY <3>1 DEF Governing!Next
    <2>5. CASE UNCHANGED authority
      BY <2>5 DEF authority, Governing!Next, Governing!Activity
    <2>6. ASSUME NEW r \in Runners, RunnerStep(r) PROVE UNCHANGED authority
      BY <2>6 DEF RunnerStep, Step, Admit, CheckStart, Start, Attach, Checkpoint, MarkAttempted,
                  Dispatch, Fetch, CheckRecord, Store, Extract, Complete, Recover, Close, Fail, Crash
    <2>7. ASSUME NEW o \in Operators, OperatorStep(o) PROVE UNCHANGED authority
      BY <2>7 DEF OperatorStep, Ask, PlanNext, ManualStart, RecoverCycle, ChangeStatus
    <2>8. CASE ManualOutcome
      BY <2>5, <2>8 DEF ManualOutcome
    <2> QED
      BY <1>2, <2>1, <2>2, <2>3, <2>4, <2>5, <2>6, <2>7, <2>8 DEF Next, Environment
  <1>3. [Next]_vars => [Governing!Next]_<<security, fenced, Open>>
    BY <1>2
  <1> QED
    BY <1>1, <1>3, PTL DEF Spec, GovernedAsPromised, Governing!Spec
=============================================================================
