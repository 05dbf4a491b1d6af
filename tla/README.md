# Gnomon: a verification project

TLA+ modules, TLC configurations and TLAPS proofs for Gnomon, a research agent
that runs bounded investigations under a persisted security authority. The
reference is the code under `src/src/research_agent`; paths below are relative
to it.

## 1. The system

Gnomon is a FastAPI application over PostgreSQL. Requests run concurrently and
share nothing but the database; every governed write is a transaction that locks
the investigation's row (`SELECT ... FOR UPDATE`) and, where the code asks for
it, the security row (`FOR SHARE`). External work (web fetches, agent questions,
report providers) happens between transactions, so each handler is a process
whose knowledge grows stale while it waits.

| Component | State | Operations | Interacts with |
|---|---|---|---|
| Investigation lifecycle (`application/research_service.py`, `api/routes/investigations.py`) | task status, cycles | create, plan next, start, record outcome, recover, change status, review objective | runners, planner, capability policy |
| Cycle execution (`source_cycle_runner.py`, `agent_cycle_runner.py`, `cycle_progress.py`, `cycle_interruption.py`) | durable attempts, runner variables, interruption audit | admit, start, attach, mark attempted, dispatch, fetch or ask, store, extract, complete, recover, close | lifecycle, evidence, adapters, capability policy |
| Evidence and claims (`evidence_service.py`, `claim_extraction_service.py`, `agent_evidence_service.py`) | sources, claims, their links | create source, create claim, extract, merge progress | memory service, cycle execution |
| Security capability policy (`security_capability.py`, `security_state_store.py`, `domain/security.py`) | none (reads the security row) | require capability | every governed operation |
| Security authority (`security_state_service.py`, `security_transition_policy.py`, `authority_bootstrap.py`, `recovery_restoration_service.py`, `authority_epoch_replacement_service.py`, `recovery_inventory.py`) | state, version, epoch, fence, restorations, transitions | bootstrap, transition, restore, replace epoch | reconciliation, authorizations, all attempts |
| Report provider budget (`provider_budget_service.py`, `api/routes/reports.py`) | durable provider attempts per investigation | reserve, dispatch, generate, finish, recover, expire | capability policy, restoration |
| Recovery evidence (`recovery_context_service.py`, `recovery_reconciliation_service.py`, `authorization_service.py`) | contexts, reconciliations, authorizations | capture, reconcile, authorize, consume | authority |
| Reconstruction and backup (`database_reconstruction_service.py`, `backup_*.py`, `restore_preflight_service.py`, `migrations.py`) | reconstruction fence, archives | back up, inspect, reconstruct | authority bootstrap |
| Governed memory (`memory_service.py`) | claims, assessments, change log | write, reverse within 48 hours | evidence, assessments |
| Source dependence (`source_dependence_service.py`) | declared relationships between sources, journal of their changes | create, mutate (set, retract, put back), reverse within the window, project, history | evidence, planner, snapshots |
| Stopping decisions (`stopping_decision_service.py`) | at most one decision per investigation | report readiness, decide | lifecycle, planner, evidence |
| Source registry (`source_registry.py`) | trusted domains, policy history | register, enable, disable | retrieval |
| Planner (`cycle_planner.py`, `agent_comparison_service.py`) | none | choose the next cycle's objectives, say which reviews still hold | lifecycle, source dependence |
| Provider session (`provider_session.py`, `provider_session_audit.py`) | in-memory credential, audit | create, delete | reports |
| Adapters (`adapters/`) | none | fetch, ask, generate | runners, reports |
| Read models (`snapshot_service.py`, `report_service.py`, `cycle_progress_query.py`, ...) | none | project saved state | |

### What is hard

- A runner works for minutes between transactions. Meanwhile an operator may
  recover its cycle, a manual outcome may end it, the investigation may be
  paused and resumed, another cycle may start, and containment may change the
  security state. Every late write must be refused, also after a resume.
- Capability checks exist twice, once before a lock (where the answer may be
  stale) and once under it; which of them decides differs from service to
  service.
- A cycle, its durable attempt and the runner must end together although three
  services, each in a transaction of its own, can end them.
- Containment must always be able to close an attempt, although containment is
  what forbids every ordinary write.
- A request or the process may die between any two transactions. Nothing in
  memory survives; the durable attempt stays RUNNING until an operator acts.
- A review of an objective and a decision to stop are judgements on evidence that
  goes on changing; each must notice every change that matters to it.
- Graph questions (does a new relationship close a cycle, is a projection complete)
  are answered by searches with limits, which must not pass for exhaustive ones.
- Capacity of the report provider must hold across lost answers, expiry, retries
  and recovery by an operator.

The properties that make each part correct follow from this list; PROJECT.json
names them line by line under "hazards".

## 2. The modules

| Module | Models | Used by |
|---|---|---|
| `SecurityCapability` | `domain/security.py`, `application/security_capability.py`: the states, the valid transitions and what a state and a fence grant | every module below |
| `CycleExecution` | research cycles: lifecycle service, both runners, evidence writes, durable attempts, interruption | `MCCycleExecution`, `CycleExecutionProofs` |
| `DraftQuota` | abstract: an investigation's report budget as one step per reservation and one per outcome | `ProviderBudget` |
| `ProviderBudget` | the report route and `provider_budget_service.py`; implements `DraftQuota` | `MCProviderBudget`, `ProviderBudgetProofs` |
| `SecurityAuthority` | the security row and the services that move it, with the recovery evidence they ask for | `MCSecurityAuthority`, `SecurityAuthorityProofs` |
| `AuthorityEnvironment` | abstract: the state and the fence as governed work may count on them | `SecurityAuthority`, `CycleExecution`, `ProviderBudget` |
| `Reconstruction` | preflight, fence, import, readiness and entry into recovery of a restored database, and backups of it | `MCReconstruction`, `ReconstructionProofs` |
| `GovernedMemory` | `memory_service.py` and its callers: claims, assessments, the journal, reversal | `MCGovernedMemory`, `GovernedMemoryProofs` |
| `ProviderSession` | the in-memory session store with its lock, the connection pool and the session audit | run directly; `ProviderSessionProofs` |
| `SourceDependence` | `source_dependence_service.py`: declared relationships, the proof that derivation has no cycle, the journal, repeated commands, bounded projections | `MCSourceDependence`, `SourceDependenceProofs` |
| `InvestigationReview` | an investigation between its cycles: planner, reviews of objectives, readiness, the decision to stop | `MCInvestigationReview`, `InvestigationReviewProofs` |

The `map` of PROJECT.json gives the source lines of every definition.
`\* mutant of X` marks an operator that exists only to show that a property
would notice a plausible bug in `X`.

### How code becomes actions

A transaction that locks is one action. `ResearchTaskRecord` is read
`FOR UPDATE` and the security row `FOR SHARE`, both until the commit, so nothing
that asks for the same rows can come between the first locked read and the
commit. The recovery services run at REPEATABLE READ and lock the security row
first, which makes each of them equivalent to a step at its snapshot.

What the code does *outside* such a transaction is a step of its own: the check
of a capability before the lock (`CheckStart`, `CheckRecord`, `CheckDispatch`),
the read of a page (`Ask`, `Look`, `Observe`, `ReadBasis`), and every external
call (`Fetch`, `Return`, `Import`). Between any two steps of one handler any
other process may act, the handler may fail or its process die.

What a caller read earlier is a variable (`seen`, the pending request of an
operator in CycleExecution), so a stale form can be submitted much later. A
handler's local variables are reset when its request ends.

#### CycleExecution

`cycle` and `task` are the stored aggregate, `attempt` the durable attempt rows,
`pc[r]` and the locals of `r` a runner's request, `interruptions` the audit.
`Admit`, `CheckStart`, `Start`, `Attach`, `Checkpoint`, `MarkAttempted`,
`Dispatch`, `Fetch`, `Store`, `Extract`, `Complete` are the runner's lines in
order; `Fail`, `CheckRecord`, `Recover` and `Close` its exception paths. The
source runner and the agent runner differ in what they check, whether the
transaction of the check is still open at the call, and what they store; they
share one definition where their code is the same. An agent runner's initial
checkpoint is merged with its first one. The idempotent branch of the closing
service cannot be reached from the runners.

#### ProviderBudget and DraftQuota

`pc[r]` walks the report route: `Admit`, `Prepare`, `Reserve`, `CheckDispatch`,
`Dispatch`, `Recheck`, `Return`, `Finish`. `attempt[op]` is the durable row per
idempotency key. `RecoverAttempt` is the operator's statement that a call was
lost. The refinement maps a row to a place that is taken, or to an outcome;
an expired reservation is a place given back. The report route rolls its session
back before it calls the provider, where the source runner does not (finding 1).

#### SecurityAuthority

The row (`state`, `version`, `epoch`, fence, origin, reconstruction gate), the
append-only `transitions`, `contexts`, `grants` (operator authorizations),
`executions` (execution authorizations), and the evidence and attempts that the
recovery inventory counts. Initial states include a reconstructed database whose
gate is still closed. A FRESH or CONTINUING boot changes nothing; neither does
a transition to the present state; `prepare`, `reconcile`, `read` and
`require_current_execution` only read. `Record` and `Open` may act behind the
fence because some writers check before their lock (`start_cycle`) and
`create_task` does not check at all. The API passes no related events, so an
ordinary transition cites none.

#### Reconstruction

`row` as above; `imported`, `written` and `contexts` are what the target holds;
`pc[p]` walks `reconstruct`. The fence, the import, the migrations with
readiness, and the entry into recovery are separate commits, and a command may
die after each. The application is represented by what can reach an empty
target: a task, a transition, a recovery boot, a capture, a restoration. A
backup of the target (`InspectSource`, `Dump`, `Publish`) reads the authority,
the rows and the gate in three snapshots. Its history field `of` says for which
archive the target was fenced when it was inspected.

#### GovernedMemory

`memory` is the current record of a claim or assessment, `journal` the change
log, `now` the clock that closes the window for reversals. Repeated change ids,
repeated reversals and refusals change nothing. `security` is the effective
state, so a fence raised over any state is a move to `recovery_required`. A batch of extracted claims is one claim per
transaction. Links between what is cited and what cites it are enforced by
`_validate_state`; the effect of a rollback on further dependents is described
as partly implemented (docs/conformance/authority-matrix.md, V06) and not modelled beyond that.

#### ProviderSession

A session is named after the request that created it. The route takes the
store's lock and database locks in both orders: create takes the security row
and then the store, delete the store and then the row. That is safe only because
both lock the row `FOR SHARE`, and PostgreSQL lets a share lock pass a queued
exclusive one. What remains is the pool: requests holding its connections may
wait for the store's lock, whose holder waits for a connection, until the pool's
timeout (`PoolTimeout`) ends the wait. Only the SQL variant of the
route's transaction is modelled, not the in-memory backend.

#### SourceDependence

A relationship is its identity (the ordered pair and the kind), `current` its row,
`journal` its changes. Every command locks the task row first, so `Create`, `Mutate`
and `Reverse` are one action each, with the search for a cycle inside. The queries keep
their limit and the order of the random ids (`Rank`), because a relationship that the
search skips is still counted by the query. A journal entry is found under the id of the
operation that made it; a delivery under a recorded id writes nothing, and `Replays`
says when it is answered as a repetition. `Projection` is the traversal that meets no
limit; where the code stops at a limit, `complete` is false here as there.

#### InvestigationReview

All writers of an investigation and its snapshot lock the task row, so planning, starting,
recording, recovering, reviewing, deciding and each change of evidence are one action.
A digest is represented by what is digested, so equality of digests is equality of
contents. Requests with an old revision or fingerprint change nothing; the ones
modelled carry those in force. `Candidates` is the planner's list with its priorities,
`Pending` what is not settled by a review or an earlier completion on the same evidence,
`Plan` the cut to the size of a cycle. The planner sorts stably by priority a list that it
fills group by group, so a candidate carries its place in that list (`position`), and
`Ordered` puts each candidate at the index that is the number of those before it. There is one hypothesis, a claim's `standing`
stands for its status together with the kind of its links, and projections are complete
(their limits are in SourceDependence). Runners appear as the attempt their start takes and
their outcome releases; their steps in between are CycleExecution.

## 3. The runs

| Run | Shows |
|---|---|
| `CycleRaces` | One active cycle at a time (`SingleActiveCycle`); an open attempt belongs to an active cycle (`RunningAttemptOwnsCycle`); every contained attempt has one interruption event and no other attempt has any (`InterruptionAudited`); a finished cycle or attempt never changes (`TerminalFrozen`); a runner whose attempt is closed writes nothing, also after a resume (`ClosedAttemptIsPowerless`) |
| `CycleFaults` | With errors, crashes, restarts and recovery boots: evidence and claims stay within bounds and traceable to what the runner collected, completion is earned, progress is never lost, evidence is only written under authority, and an attempt settles (`AttemptSettles`) |
| `BudgetRaces` | Outcomes are final (`OutcomeFinal`), a refund needs a witness (`RefundIsWitnessed`), the route implements `DraftQuota` (`ImplementsQuota`), a dispatched attempt gets an outcome (`DispatchSettles`) |
| `AuthorityRaces` | The version identifies the whole authority, which is what compare-and-set relies on (`VersionIdentifiesAuthority`); the audit explains the row; the fence falls only over a settled, fully inventoried system (`FenceClearsEarned`); an execution authorization restores once |
| `ReconstructionRaces` | No target mixes two archives; no readiness, recovery context or backup inspected after the fence stands on an import that failed |
| `MemoryHistory` | The journal reconstructs every record; reversals undo only the last change in time; what is cited stays active and unchanged |
| `SessionRaces` | A usable session has a durable creation row; a revoked one never comes back; deletions are recorded once; rows are written under authority; every request ends |
| `DependenceRaces` | No source derives from itself through any sequence of commands (`DerivationAcyclic`); every journal replays (`HistoryReplays`); a reversal undoes the change right before it and nothing else (`ReversalRestores`); a lost answer can be asked for again (`RetryRecognised`); a projection that calls itself complete is (`ProjectionHonest`) |
| `ReviewRaces` | Nothing runs behind a decision (`NoAttemptBehindDecision`), which turns stale exactly when its basis changes (`DecisionGoesStale`); a review holds until something it rests on changes, across chains of relationships (`ReviewsTrackEvidence`); no need of the evidence is dropped for another (`GapsCovered`); the readiness report shows whatever the planner would carry over (`NothingHidden`) |
| `CycleOpenTransaction`, `CycleStaleStart`, `DependenceReplay` | Counterexamples; section 6 |

The type invariant of a module with a proof is a theorem (`TypeCorrect`) and not
listed in a run, except in `ReviewRaces`: `TypeOK` of InvestigationReview also says that
a plan has no objective twice, which depends on the planner.

### Bounds

- `CycleRaces`: one source and one agent runner, two cycles, one operator with a
  pending form, and ShortWork (one target). Two cycles are what a late runner
  needs to meet another cycle active after a resume; a second runner is what an
  exclusive start needs to lose. `CycleFaults` has one cycle but two targets per
  runner (LongWork), two objectives, two sources and a collection bound of one, so
  that the merge meets its bound and objectives fail separately.
- `StateChanges = {degraded, normal}` in the cycle, budget and memory runs: the
  capabilities these modules ask for are refused in every other state alike, so
  one restricted state stands for all.
  `AuthorityRaces` has `lockdown` and `recovery_required` too, for which the
  transition policy differs.
- `BudgetRaces`: a budget of one place, three requests, two of which share a key
  and name different investigations, which is the least for a race for the last
  place next to a retry.
- `AuthorityRaces`: versions to 5, two contexts, one grant and one execution:
  a boot, a restoration, a second boot and a transition. Context, grant and execution
  ids are interchangeable (symmetry); no liveness is checked there.
- `ReconstructionRaces`: two archives, one of them of a never used database, whose
  manifest is the smallest authority there is; one backup; versions to 6 leave
  room for two recoveries after the fence.
- `MemoryHistory`: a claim older than the journal and a new one, one assessment,
  two sources (interchangeable: symmetry), three changes: create, update and
  reverse. One tick of the clock closes the window.
- `SessionRaces`: a store of two, three requests, a pool of two, one restart: a
  third creation evicts, and two waiting requests exhaust the pool.
- `DependenceRaces`: three sources with every pair derivable and one pair that may
  share an origin, four changes: a triangle that closes only over two hops, and a
  relationship created, corrected and reversed next to another one. Two examined
  relationships, two hops and one root let each limit be met; three visited sources
  are all there are, so that limit is not (`ProjectionKept` has it for any limit).
- `ReviewRaces`: three saved sources in a chain of two possible relationships, a fourth
  that is an agent's observation, one claim, one question, cycles of two objectives, two
  cycles with one review each, two changes of evidence. A chain is what a review
  needs to be disturbed by a relationship its own source is not in; two cycles are what
  carrying over needs; two objectives are fewer than the needs there can be, so plans
  are full. Pairs of observations that contradict each other need a fifth source and are
  not in the instance.

`CHECK_DEADLOCK FALSE` is said where the model really ends: in the runs on
authority, reconstruction, memory, sessions and reviews because ids, versions, changes
or requests are bounded, and in `BudgetRaces` because a recovery fence over an
unresolved attempt stops the system for good (its way out is denied by the
fence, see the deadlock hazard).

### Fairness

`FairSpec` of CycleExecution and ProviderBudget is weak fairness of each
runner's or request's next step: FastAPI's thread goes on executing, and the
adapters have timeouts, so a call returns or raises. ProviderSession adds the
pool's timeout. Nothing is assumed of operators, crashes or
authority. So `AttemptSettles` excludes a runner whose process crashed and a standing
fence, and `DispatchSettles` a request that was cut off: the code has no sweeper for
either, an operator has to act.

## 4. The proofs

Each proof module states theorems for any number of runners, requests, keys,
epochs, commands and so on. They rest on the named assumptions of the modules
(`CycleAssumption`, `BudgetAssumption`, `AuthorityAssumption`,
`ReconstructionAssumption`, ...), which say no more than that the constants have
their types. Every inductive invariant was first checked with TLC.

- **CycleExecutionProofs.** The invariants are not inductive: that a runner's
  late write is refused depends on the state of its attempt, its cycle and
  whether the investigation was interrupted in between. `IInv` adds what each
  control point of a runner knows (the cycle it owns, the step in range, its
  results so far) and that attempts and cycles open and close together. Its parts
  are grouped in stored research, runners and other types, so one lemma per
  action proves only the parts that action touches. The action theorems
  (`TerminalStaysFrozen`, `ClosedAttemptStaysPowerless`, `EvidenceIsAuthorized`)
  read off what a step does under `IInv`. Lemma group `Grows` says what any step may
  add to a cycle and to an attempt; from it follow `ProgressIsRetained` and, once it is
  known that nothing is recorded before a cycle is planned (`UntouchedEmpty`),
  `ArtifactsStayTraceable`. `CompletionStaysEarned` needs the history of a runner:
  `Worked` says at each control point which targets it has attempted and that each of them
  left evidence, and `EarnedInv` is inductive beside `IInv` and `Traceable`.
- **ProviderBudgetProofs.** `IInv` says which attempt each request holds, that no
  two hold one, and that the places used never exceed the limit. `OnePlaceTaken` and `NoPlaceTaken` carry the
  cardinality argument. `QuotaImplemented` proves the refinement: initial states
  map to initial states, and every step to a reservation, an outcome or a stutter.
- **SecurityAuthorityProofs.** Lemma `Effects` reduces every step to four shapes:
  the row stays, the fence is raised, the state moves by one audited transition,
  or the epoch rotates. `IInv` conjoins the shape of the row, "a version determines
  the authority" (for all recorded views of it), the audit, and that every citation
  points into a recorded context. `RetiredStay` holds under `FreshEpochs`, that is
  for callers that draw a new UUID4 as the tests do; section 6 says what happens
  without it.
  `AuthorityGoverns` proves that SecurityAuthority implements `AuthorityEnvironment`: the state
  moves along the structural graph and only in front of the fence, and the fence falls onto
  normal authority only when no attempt is open. `CyclesGoverned` and `BudgetGoverned` prove
  the same of the authority that CycleExecution and ProviderBudget have as their
  environment, with their attempts as what is open, so the detailed authority and the
  simplified ones are held to one specification. TLC agreed on the instances of
  `AuthorityRaces`, `CycleFaults` and `BudgetRaces`. The converse is not claimed: a
  simplified authority need not show every move, see the bounds on `StateChanges`.
- **ReconstructionProofs.** A pristine row has version 1, and everything a
  reconstruction leaves behind needs a version above 1 (`Ahead`); whoever imports or migrates
  works on the archive the fence was set for (`Importers`). So at most one archive is
  imported, and readiness implies the import. `BackupsInformed` carries that over to
  backups: what was inspected after the fence was inspected after the import.
- **GovernedMemoryProofs.** Every write of a record is one shape, `Wrote` (the record and
  its journal entry together), and every other step leaves both alone (`Around`), so the
  invariant is proved once per shape and each action only has to show which one it is. `IInv` adds to the
  journal's chain that no entry is ahead of its record (`EntriesPast`), so that the version a
  write gives is new to the journal; validation keeps what is cited active and unmoved.
- **ProviderSessionProofs.** `IInv` says at which control points a request holds the
  store's lock (`LockHeld`) or shares the security row (`Shared`, with what was granted there),
  and that what a request found usable inside the lock was deleted by nobody else
  (`Claimed`). `DeletedOnce` and `RevokedLocally` follow: a second deletion would
  have had to find the session in the store after the first took it out.
- **SourceDependenceProofs.** `DerivationKept` argues on sets: the sources that `Climb`
  visits are closed under derivation, so a path back would have led to the derived
  source. It assumes that no source has more derivations, in either direction, than the query
  returns (`DegreeBound`), see section 6. `HistoryKept`, `ReversalKept` and `RetryKept` rest on one
  invariant of the journal; `ProjectionKept` and `SnapshotKept` are about the traversal alone and
  hold for all limits and graphs.
- **InvestigationReviewProofs.** `NoAttemptBehindDecision` is inductive by itself: the statuses
  behind a decision do not lead back to one that allows a start. For `DecisionStale`, what is shown
  determines the fingerprint (`FingerprintSame`), and no step changes a claim or a
  relationship without changing what is shown (`NothingUnseen`), because each change raises
  a version or revision (`Versioned`). The other theorems rest on `Sound`, which adds to
  `TypeOK` that cycles are records of sequences and rest on evidence that exists (`Shaped`).
  It is inductive because a plan repeats no objective (`PlanFacts`), and that is the
  planner's order at work: each group of candidates has positions and objectives of its own
  (`Filed`, `Arranged`), positions order all of them, and the number of candidates ahead of
  one is its rank (`Ranks`), so the chosen ones are those of the first ranks (`FirstOnes`).
  `GapsStayCovered` then follows need by need. For `ReviewsTrack`, what relationships connect
  with a set is the least set around it that none leaves (`ReachLeast`): the rounds that
  reach it either grow or have ended, and there are as many rounds as sources.
  A relationship that does not touch that set can come and go without changing it
  (`ReachWithout`), and one that does changes the evidence of the review (`RelationSeen`).
  The arguments by induction over numbers use a lemma of the module (`Induction`), which
  follows from the well-foundedness of strict inclusion on finite sets.

Theorems about properties no run lists: `BudgetHolds`, `OneCallEach`,
`CallsHoldTheirPlace`, `DraftsAreRecorded`, `RowAlwaysLoads`, `FenceStands`, `RetiredStay`,
`SnapshotKept`, `AuthorityGoverns`, `CyclesGoverned`, `BudgetGoverned`, and `TypeCorrect` and `InductiveInvariant` of the modules that have them.

**Only model-checked:** the liveness properties (`AttemptSettles`, `DispatchSettles`,
`RequestSettles`), which are out of the prover's reach. Every invariant and every action
property of the passing runs is a theorem as well.

## 5. What is not modelled

Text, URLs, prompts and reports; wall-clock times other than the reversal window
and expiry (which may happen at any moment); HTTP routing and errors; the
adapters, which are their outcomes; read models; row mapping; migrations; the
timestamps of the audit. Planned and missing: the source registry. PROJECT.json gives
the reason for each component.

The scope is one investigation in CycleExecution, since cycles of different
investigations share nothing but the security row.

## 6. Findings

1. `NoTransactionAcrossFetch`: the source runner calls its adapter within the
   transaction opened by its capability check (INV-03 of the architecture
   overview says locks and transactions are released first).
2. `StartNeedsAuthority`: a cycle may become active after the security state was
   restricted, because `start_cycle` checks before it locks (INV-01).
3. `ReplyAnswersRequest`: a mutation of a relationship that reuses an operation id with another
   direction or lifecycle is answered as a repetition of the recorded one, since `mutate`
   compares with the recorded values and not with the requested ones
   (source_dependence_service.py:156). docs/development/m3c-pass1-ambiguous-commit-characterization.md:33
   says that the id and the command together tell success from conflicting reuse.

Noted while modelling, without a run:

- A replacement may name an earlier epoch (domain/recovery.py:272), which makes unexpired
  authorizations of that epoch current again; docs/development/authority-epoch-replacement.md:33-37
  says that validation fails because the epoch no longer matches. `RetiredStay` is proved for fresh ids.
- The assessment form carries no version (assessment_service.py:50), so the later of
  two operators replaces an assessment not seen; docs/architecture/persistence.md:78 says
  that concurrency controls prevent silent overwrite.
- Preflight counts rows before the fence, and the fence looks only at the security row
  (database_reconstruction_service.py:264), so an archive may be imported next to a task
  written since, although the target is said to be empty (docs/development/database-reconstruction.md:16).
- The search for a cycle lets its query count the relationship being changed and then
  skips it (source_dependence_service.py:517), so the query's limit may hide another
  relationship of a source without the search noticing. `DerivationKept`
  assumes that no source has more relationships of derivation than the query returns.

The repository's README.md:92-94 says
recovery mode has no operation that clears the fence, which
`recovery_restoration_service.py` is; and
docs/development/database-reconstruction.md:22-23 says the manifest's authority
is written only after `pg_restore` succeeds, while the code writes it, behind
the fence, before the import (which is what `WholeImportFirst` is about).
The comment at backup_creation_service.py:137 speaks of a lock held so that no
reconstruction begins during a completed dump; the lock is taken after the dump,
so a whole reconstruction may still fit between inspection and publication.
`WholeImportFirst` therefore speaks of backups inspected after the fence only.

## 7. Plan

Done, in this order: CycleExecution with its proofs, ProviderBudget with its
refinement and proofs, SecurityAuthority with its proofs, ProviderSession,
GovernedMemory, Reconstruction with its proofs, SourceDependence with its proofs,
InvestigationReview with its first proofs, the proofs of GovernedMemory and ProviderSession,
the remaining proofs of CycleExecution and of InvestigationReview, and
AuthorityEnvironment.

Next:

1. SourceRegistry: policy history, a source disabled during retrieval.
2. InvestigationReview composed with the runners of CycleExecution, so that a runner's stale
   reads meet a decision to stop; `Save`, `Extract` and the attempt would be their steps.
3. Backups across databases: `Manifest` is a constant of Reconstruction. A composed
   module would take the archive from a backup of a moving source database, where
   the manifest may name an older authority than the dump's audit does.

To keep the suite quick, new questions should join the run whose instance already
exercises them.

## 8. Running

In this directory: `tlc -workers 2 -config CycleRaces.cfg MCCycleExecution.tla`
(runs and modules are listed in PROJECT.json), `tlapm CycleExecutionProofs.tla`.

