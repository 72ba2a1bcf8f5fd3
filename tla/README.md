# A TLA+ model of the proof platform

The platform executes governed operations for humans and agents and keeps signed
evidence of each one. These modules model the parts whose correctness depends on
order: what happens when calls overlap, a process dies between two writes, a
message is delivered twice, or a row is written from an old copy. Definitions
are taken from the Rust source; `PROJECT.json` gives, for each one, the lines it
stands for.

## The system and its modules

| part | source | modules |
|---|---|---|
| execution engine, replay table | `proof-kernel/src/executor`, `proof-storage/src/sqlite/replay.rs` | `ExecutionEngine`, `ReplayLedger` |
| operator store | `proof-storage/src/sqlite/operator_store.rs`, records in `proof-kernel/src/operator` | `OperatorStore`, `OperatorCommands`, `OperatorPages` |
| operator runtime (workers) | `proof-agent-runtime/src/operator.rs`, custody in `prepared.rs` | `OperatorRuntime` |
| operator authentication, control service | `proof-operator-auth`, `proof-operator-control` | `OperatorControl`, `RateBuckets` |
| approval console | `commands/approval_ui.rs` of the CLI | `ApprovalConsole` |
| agent run storage | `sqlite/agent_run.rs`, `agent.rs`, `approval.rs` | `AgentRunStore`, `AgentRunClients` |
| generic agent runtime | `proof-agent-runtime/src/runtime.rs` | `AgentRuntime` |
| live release-manager runtime | the same file | `LiveRuntime` |
| live preparation | `commands/live_prepare.rs`, `live.rs`, `secure_fs.rs` | `LivePreparation` |
| trace evaluation | `trace_eval.rs` | `TraceEvaluation` |
| content workspace, preview publication | `proof-content` | `ContentWorkspace`, `PreviewPublication` |
| workflow, commerce, analytics over files | handler crates | `WorkflowRuns`, `DomainFiles` |
| the same domains over HTTP and SQLite | `proof-transport-http/src/state.rs`, storage tables | `DomainRequests` |
| blobs, identity, transfer | `cas.rs`, `workspace.rs`, `transfer.rs` | `BlobStore`, `WorkspaceIdentity`, `WorkspaceTransfer` |
| guarded open, operator lifecycle | `trusted_open.rs`, `operator_lifecycle.rs` | `TrustedOpen`, `WorkspaceLifecycle` |

How they meet:

- The engine and the operator store share the replay table. A governed dispatch
  claims its key in the transaction that issues the permit. `OperatorStore` has
  the row as `replays`, with ungoverned callers (the engine) as actions of it.
- `OperatorRuntime` EXTENDS `OperatorStore`: a worker's action contains the store
  transaction it calls. `RuntimeImplementsStore` proves that nothing else happens
  to the tables.
- `AgentRuntime` and `LiveRuntime` EXTEND `AgentRunStore` in the same way, and
  `AgentRunClients` puts arbitrary clients with old rows over it.
- `LivePreparation` has the deterministic run as far as it can see it, and the
  live claims that `LiveRuntime` starts from.
- `ExecutionEngine` is shown to implement `ReplayLedger`, the abstract promise of
  exact replay: a slot is taken by one input, its effect starts at most once, it
  settles at most once, and each answer is the settled output.

### How state and actions correspond to the code

A module's header says what is one action. The rule is the same everywhere: one
SQLite `IMMEDIATE` transaction is one action with everything it writes, one file
operation is one action, and code between two of them belongs to the action that
follows. A call's position in straight-line code is a field `stage` or `pc`. A
call that a guard refuses and that writes nothing is no action, unless its caller
changes by it. A crash resets what was in memory and keeps the tables and files.

- **`ExecutionEngine`** is `execute_inner` for concurrent callers. The gate
  (`Admitted`) takes the answers of approval and delegation checks from the
  request. `StorageFailsOrCrash` ends a call anywhere.
- **`OperatorStore`**: leases are indexed by fence, reservations by order of
  creation. `Record` is the run row, control row and projection that end nearly
  every transaction; `Settle` is the only way a reservation leaves the open
  states. `LookupReplay` is `load_verified_replay` with each of the cross-checks
  by which it may declare the store corrupt. Only `Started` runs were registered
  with their first event; registration allows a checkpoint without one.
- **`OperatorRuntime`**: `stage` says where a worker is in `execute`, `revision`
  is the control revision it believes in, `effects` is a history of handler
  entries. `MayCall` is what the store demands of its authority.
- **`OperatorCommands`** is `execute_operator_command` with idempotency keys,
  receipts and the audit chain; the worker beside it is reduced to what a command
  can see. **`OperatorPages`** is the paged reads with high water and cursor.
- **`OperatorControl`** is the ceremony at the terminal, sessions, admission,
  routing, fatal stop and drain; **`RateBuckets`** the token buckets in front of
  it; **`ApprovalConsole`** the one-shot console of the CLI with its mutex.
- **`AgentRunStore`** is the writing transactions of the trace tables.
  **`AgentRuntime`** is `start`, `resume`, reconciliation and the drive loop;
  **`LiveRuntime`** the live variant with lease epochs, durable model calls,
  doubt, the publication and the sealed evaluation (`Passes` and what it names
  are the checks of `live_evaluation`).
- **`LivePreparation`**: `records` are the write-once files, `phaseLock` the lock
  of the directory, `shell` the commands, `trials` the deterministic run. A finish
  lists the evaluations and appends its own in two steps (`ListsEvaluations`,
  `Evaluates`), with anything in between.
- **`TraceEvaluation`** builds a trace as the runtime writes it, damages one
  record and evaluates it. The evaluator sorts the steps first (`Observed`).
- **`ContentWorkspace`**, **`PreviewPublication`**, **`WorkflowRuns`**,
  **`DomainFiles`**, **`DomainRequests`**: one file operation, or one load or
  save of a row, is an action; handlers overlap where nothing excludes it. The
  content handlers have no lock: `crossed` has the commits during which somebody
  else changed an object file.
- **`BlobStore`**, **`WorkspaceIdentity`**, **`WorkspaceTransfer`**,
  **`TrustedOpen`**, **`WorkspaceLifecycle`**: statement by statement and file by
  file, with threads, processes, deaths, and files and directories that move.

The `MC` modules give the constants their values. Seven of them hold several small
instances that share no state; the variable `part` (`instance` in
`MCOperatorRuntime` and `MCAgentRunClients`) is chosen at first and says which one a behaviour exercises.
Operators whose comment says "Mutant of" are plausible mistakes in the definition
that follows them; no specification uses them.

### Abstractions

- Digests, signatures, tokens and UUIDs are identities: collisions and forgeries
  are excluded, a mismatch is an inequality. A file that does not decode is
  `Torn`; a row is the one that was written.
- Five budget dimensions are one number, and so are tokens and cost; they are
  checked and moved together.
- Registration of a governed run is the initial state. It has one step and keeps
  its first checkpoint: the engine's prepared execution carries no other.
- Model answers, tool outputs, schema validation and the validity of a delegation
  chain are inputs.
- Time is an integer. Where the code reads two clocks (`OperatorControl`) both are
  modelled; elsewhere monotonic and UTC time agree.
- A directory listing is atomic. A panic is a fault that may occur where
  the module says so.

## Runs

| run | instance | what it shows |
|---|---|---|
| `engine` | 2 callers, 3 calls, 2 faults, one key, four kinds of operation | exact replay runs a handler once per key and answers with one output; no error path leaves a claim open behind a caller that lives; `ReplayLedger` is implemented |
| `store` | one session run, leases of 1 tick, 4 ticks, 8 revisions, ceilings 2 and 3 under a limit of 4 | the account holds and balances, one fence owns the run, a reservation settles once |
| `store_wedged` | one run, 2 ticks, `RunLease::validate` as it is | reclaim resolves nothing (finding below) |
| `runtime` | "shared": 2 workers, 2 runs (one a session) with one key; "reclaim": 2 workers, 1 run, 3 ticks, 6 revisions | every handler entry is paid for once; one key enters its handler once; a completed replay can be read back, except by a run registered without an event |
| `clients` | 2 clients over one run, rows of any age: "steps" with an approval, "trace" with 2 checkpoints and 2 events | the terminal event ends the trace, a sealed trace stands, writes start at the stored row, an append that was reported stands |
| `agent` | 1 process, 2 tool calls, 3 model calls, 1 crash, a deadline | no tool call runs twice, a completed trace is whole, a decision is taken up |
| `live` | 1 process, 2 crashes, lost and malformed answers, two signers, expiry | nothing is sent after a doubt, success is backed by publication and approval, one whole resume ends a run that is overdue or decided |
| `operator_requests` | "commands" (as written) and "decisions" (repaired): 2 keys, 2 deliveries each; "pages" over 2 runs; "restarts" | a receipt names its event and stands, a cancel is final, the pages of one reading are one snapshot |
| `operator_access` | console with 2 posts, with 2 exchanges and faults; control plane with 2 requests, with faults; buckets with 2 requests | decisions and handlers run only under a session that holds; the audit tells the session; rates hold |
| `workspace` | 2 threads on one blob; 3 commands on the identity (init or rotate, rotate, open); 2 commands with three archives; open with 3 moves; 2 servers and a provisioner, with moves, with two documents and faults, with 2 starts and faults; a preparation with 2 commands, 2 approvers, a death and a drift | see the properties below |
| `domains` | 2 callers over files; workflow files with 2 crashes; four instances of SQLite requests by 2 workers | work goes forward in its order, no row loses its parents |
| `content` | 2 objects: "in_turn" with six edit lists, "at_once" with 2 callers and two lists; 2 publishers, 2 keys, with two editions or two times; traces of two calls with one damaged record | a commit that nobody crossed is whole, an answer is on disk, damage is caught |

Properties whose name does not say it:

- `ImplementsLedger`, `ClaimSettles` (liveness) of the engine; `DecisionIsTakenUp`
  (liveness) of the generic runtime; `ReclaimResolves` (liveness) of `store_wedged`.
- `ReplayIsReadable`: `load_verified_replay` reports a corrupt store exactly for a
  completed replay of the run's own that was registered without an event.
- `MovesFromStoredRow`: an accepted save follows from the row that is stored, not
  only from the one the client had loaded. `AcknowledgedAppendStands`: of two clients
  that write at one tail, also when one repeats a call whose answer was lost, only
  the one whose checkpoint is there was told so.
- `ResumeSettles`: one resume that is not cut off ends a run that is overdue or whose
  approval is decided, unless the model's output was durable before or the deadline
  passes while the resume is under way.
- `OpenedWasInForce`: no command opens under an identity that config and key never
  named together, unless changes of the identity overlapped and it comes of them:
  `open` reads the two files one after the other. `StoredProofsVerify`: a stored proof verifies under the key
  enrolled for its actor. `OpenedOnce`: SQLite has the file the descriptor guards,
  and one server has the workspace.
- `PreparationIsBacked`: one deterministic run, one effect and only with its
  approval; `ready.json` has every record, the evaluation, the approver and the
  edition it names behind it; no live claim without a passed evaluation and the
  edition.
- `FiledWorkInOrder` and `StoredWorkInOrder`: orders, steps and insights follow the
  order of their states, over files and over tables.
- `CommitIsWhole`: when a changeset is recorded as committed, the object files are its
  base with its edits, wherever an earlier process died and whatever others wrote,
  except object files written between this commit's listing and its last write.
- `DamageIsCaught`: a trace that passed fails once a record is lost, repeated,
  renumbered or exchanged, or one compared value, status or signature is another, or
  an instant lies outside the run. What still passes is another order of the steps,
  which are sorted; an instant that moves within the window it has to lie in; the
  few changes `Harmless` names; and any change of a field that no check reads (the
  run's mode, retry count and revision, a step's error and revision, an event's
  identifier, the reason of a decision), which the model leaves out.
- `CollectorSparesReferenced`: a collection removes no file of a referenced blob.

### Bounds

`MaxClock`, `MaxRevision`, `MaxCalls`, `MaxFaults`, `MaxCrashes`, `MaxNow` and
their like bound the state and are named where they are declared. They are chosen
so that the case in question fits:

- In `store`, eight revisions cover claim, reserve, reclaim, resume, a second
  reserve with the directive, dispatch and forfeit; two ceilings that add up to
  more than the limit make the budget contended. Shared keys are in `runtime`.
- In `runtime`, "shared" has two runs contend for one key without an expiry, and
  "reclaim" has the expiry.
- In `clients`, "steps" has the states of a step, their revisions and an approval;
  "trace" has three revisions of a run, so that a client may hold a row two revisions
  old, and two places in the trace, so that two clients can write at one tail.
- In `agent` and `live`, the deadline, the approval's expiry and the crash fall
  before or after any write.
- In `workspace` one delegation is enough for the preparation; with two the run
  takes longer than is useful and the properties hold. One evaluation by somebody else
  can fall before, between or after the two steps of a finish. Two servers may both be
  open after two starts. Three moves allow the path
  to be led away, back, and away again during an open. Three identities let an init
  and two rotations overlap with an open.
- In `content`, callers that take turns try every edit list and fitting and unfitting
  contents; callers that do not have two lists, each of two edits, which is what it
  takes to cross a commit. One damaged record is the claim itself.

Workers, clients, publishers and command keys are symmetric where the cfg says so;
no constant names one of them. Deadlock is not checked: in every run the bounds,
or the end of all work, stop the system.

### Fairness

- `engine`: a call that was admitted goes on; `execute_inner` is straight-line
  code. A call that crashed is not expected to.
- `store_wedged`: time passes and somebody keeps trying to reclaim. The
  repository has no scheduler that does; the operator contract asks for one, so
  this is the contract's assumption and no guarantee of the code.
- `agent`: a call that was started runs on, and a run is resumed as long as it can
  be. The second is the duty of whoever uses `proof run resume`.
- All other specifications state no fairness and check safety only.

### Reclaim and `ReleasePrecedesExpiry`

`reclaim` requires `now >= expires_at`, sets `released_at = now` and writes the
lease through `update_lease`, which validates it; `RunLease::validate` refuses
`released_at >= expires_at`. So the SQLite store never reclaims. The constant is
`TRUE` for the code as it is. `store`, the instance "reclaim" of `runtime` and the
instance "decisions" of `operator_requests` set it to `FALSE`: they check the code
behind that comparison as it would behave with it repaired. The behaviours with
`TRUE` are a subset, so their safety results carry over. `ReclaimResolves` is
checked of the code as it is, in `store_wedged`, and fails. `CopiesDecision` in `OperatorCommands` is
a second such switch: as written, no approval decision is ever applied.

## Finding

Reclaim never succeeds. The contract (`operator-control-plane.md` 1292-1295) says
what a reclaim does to an expired lease; `durable.rs:597` makes the write
impossible. Run `store_wedged`.

## Proofs

All theorems hold for every value of the constants that satisfies the module's
assumption (`EngineAssumption`, `StoreAssumption`, `BlobAssumption` and their
like, which TLC evaluates in the runs). Eight modules hold them. Each allows the
provers 30 seconds for a leaf (`USE SMTT(30), ZenonT(30)`); a leaf that needs no
arithmetic names `Zenon`, which needs a fraction of that.

### The engine: `ExecutionEngineProofs`

Type correctness, `EffectStartsAtMostOnce`, `OneAnswerPerKey`, that a settlement is
never refused, that rows settle once, and `EngineImplementsLedger`, step by step.
None is inductive alone. `IInv` adds that a call in flight holds an admitted
request, that a call with a token finds its own claimed row and has started the
handler exactly if it is past it, that no two calls hold one token, and that a
row's state agrees with its starts and answers. Without the third, two callers
could each believe in one claim.

### The store: `OperatorStoreTables`, `OperatorStoreProofs`, `OperatorStoreHistory`

For any number of runs and keys and either value of `ReleasePrecedesExpiry`:

- `SInv` is the types, the limit, and for each run `RunInv`, whose parts hold each
  other up. A caller with authority names the newest fence because only the newest
  lease is active (`LeaseInv`). Claim and release leave nothing behind because an
  open reservation belongs to that lease (`OpenInv`). A forfeit fails the step
  because a dispatching row has a running step (`DispatchInv`), and is final
  because a running run has no pending directive (`DirectiveInv`, `ForfeitInv`).
  It gives `StoreTypeOK`, `WithinLimit`, `OneOwner`, `DispatchIsExclusive`,
  `ProjectionIsCurrent` and `ForfeitIsFinal`.
- A transaction writes the rows of one run, so each is proved for its run and
  `OneRun` gives the rest. `SettlementInv` is the common argument of the seven
  transactions that settle a reservation.
- Action properties: `ReservationsSettleOnce`, `EndedRunsStay`, `FencesStand`.
- `KeyInv` adds that a keyed run is dispatched at most once and that the replay row
  says what became of it. It gives `ReplayFollowsDispatch` and `OnePermitPerKey`,
  over all runs that share a key and with ungoverned callers beside them.
- `ReplayReadable` (`ReplayIsReadable`): `load_verified_replay` finds a corrupt store
  exactly if the replay is completed and the run's own and the run is not in
  `Started`. `CommittedInv` and `CompletedInv` say that the reservation, step and
  control row agree with a completed replay at the commit. They still do later,
  because settled rows, succeeded steps and control revisions are never taken back and
  the projection is always current. So the missing event is the only reason left.

### The workers: `OperatorCustody`, `OperatorRuntimeProofs`

`RInv` is `SInv`, `KeyInv` and what ties workers to rows: a worker owns a lease that
exists and nobody else owns it (`OwnerInv`, `SoleInv`); the row behind a permit was
dispatched under its fence, is in flight while the lease is active, and then nothing
has moved the control row (`PermitInv`); an unused permit has no handler entry and
an executed one has (`StageInv`); entries are of dispatched rows, one each, and a
committed row has one (`EffectInv`). The hard part is what a transaction of one
worker, or a human command, does to a permit of another: nothing, or a reclaim has
forfeited it (`Undisturbed`). From `RInv`:

- `RuntimeImplementsStore`: `RuntimeSpec => StoreSpec`, so every theorem about the
  store holds with workers;
- `EffectsAccounted` (`EffectIsAccounted`), `KeyRunsOnce` (`EffectOncePerKey`),
  `PermitSettles` (`PermitCanBeSettled`).

### The trace tables: `AgentRunProofs`

For any clients with rows of any age: `TerminalEventIsLast`, `ApprovalBindsOneStep`,
`SealedTraceStands`, `GovernedRunStands`, `MovesFromStoredRow`. The invariant adds
what a client knows: a loaded row is the stored one or an older revision of it, and
one with the stored revision is the stored one (`Older`). So a save that names the
next revision was made from the stored row.

### Blobs and live preparation: `WorkspaceProofs`

`CollectorSpares`: what a collection read at its first statement is still true at
its last, because nobody else writes a row or a reference while it keeps the mutex
(`Exclusive`, `Doomed`).

`PreparationBacked`, for any commands, approvers, delegations, deaths and drifts.
The argument is `phase.lock` and files that are written once. `PreparationInv` says
what each record has behind it (`FilesInv`), that the run is one and sound
(`TrialInv`), and what each command knows where it stands (`ShellInv`). Everything
it knows is of a kind that is never taken back (`Grows`): records, the edition, a
decision, an evaluation that was appended (`EvaluationStands`: the one that the record `evaluated` names, found in
the list or appended after it, passes whatever is appended later). So it stays true while others move, and
only the command with the lock adds a run or a record. A live start has no lock and
needs `Grows` alone.

### Only model-checked

- Liveness: `ClaimSettles`, `DecisionIsTakenUp`. The prover has
  neither fairness nor ENABLED.
- `LedgerBalances`: a sum over a set. Its facts need induction over the set, and the
  library's induction theorems take an operator that the provers cannot instantiate.
- `AgentRuntime`, `LiveRuntime`, `OperatorCommands`, `OperatorPages`,
  `OperatorControl`, `TraceEvaluation` and the domain and content modules. Their
  invariants speak of folds and filters over event sequences or of long programs;
  the first needs induction over sequences, the second was not attempted.
- `OpenedWasInForce`, `StoredProofsVerify`, `OpenedOnce`, `RateHolds`.

## Statements the code does not meet

Each of these properties is kept in its module, next to the comment, document or
test it was taken from, and fails under a suitable instance. None is a property of
a run.

| property | module | where |
|---|---|---|
| `ReplayIsAlwaysReadable` | `OperatorStore` | `operator_store.rs:1998`: a run registered without an event has none to verify |
| `EffectWithinLease` | `OperatorRuntime` | `prepared.rs:936` looks at liveness and the budget deadline, not at the lease |
| `OneRuntimeEvaluation` | `AgentRuntime` | `runtime.rs:3966` |
| `OverdueRunEnds`, `ApprovalConverges`, `SecondCallStops` | `LiveRuntime` | `runtime.rs:5130`, `4811`, `2441` |
| `ActionableDecisionApplies`, `RejectionsAreAudited` | `OperatorCommands` | `operator_store.rs:4103`, `4660` |
| `AttentionSurvivesUpdates` | `OperatorPages` | `operator_store.rs:2531` |
| `EarlyPollWaits`, `AttestationConsumesItsOwn` | `OperatorControl` | `authority.rs:306`, `245` |
| `NoFaultNoStop` | `RateBuckets` | `routing.rs:1186` |
| `SnapshotIsCurrent`, `CommitIsReflected`, `CommitIsAlwaysWhole` | `ContentWorkspace` | content `handlers.rs:564`, `376`, `486` |
| `NewKeyVerifies` | `PreviewPublication` | `preview.rs:449` |
| `OrderUnderOverlap`, `AllApprovedIsCompleted` | `WorkflowRuns` | workflow `handlers.rs:340`, `382` |
| `OrderReplacedOnlyByNewer`, `ApprovalTakesEffect`, `ApprovedRunIsComplete` | `DomainRequests` | `sqlite/commerce.rs:339`, `state.rs:167`, `268` |
| `IdentityIsKept`, `OpenedIsNeverMixed` | `WorkspaceIdentity` | `workspace.rs:246`, `97` |
| `ReferencesGoOnRequest`, `PutIsStored` | `BlobStore` | `cas.rs:216`, `97`: a collection removes the file of a put that has no row yet |
| `LoneExportFinishes` | `WorkspaceTransfer` | `transfer.rs:457` |
| `FulfilledStands`, `OneInsight`, `GrantTakesEffect` | `DomainFiles` | commerce `handlers.rs:270` (an older copy is saved over a fulfilled order), analytics `handlers.rs:306`, `323` |

## Observations

Behaviour met while modelling that a maintainer may want to know. The models have
it; no property calls it wrong.

- **Workers.** `bind_reclaim_result` wants the directive to come from the lease just
  expired, so the lease of an already recoverable run is bound by nobody. An error of
  `bind_permit` after the deadline leaves the dispatch open until reclaim. After a
  deadline error of `begin_dispatch` the worker's revision is stale although the
  transaction was committed. Only the mutable borrow of the lease keeps a renewal
  from making a commit impossible.
- **Generic and live runtime.** Two concurrent resumes may send one model call twice.
  A cancel between `ToolRequested` and the handler leaves an effect without a result.
  A crash between the save of a terminal error and its event loses the kind
  `BudgetExceeded`. A publication that is done when its approval expires before the
  execution record is saved ends in a failed run. The live dispatch limit never binds
  before others do, so the run uses a smaller one. A governed run that waits undecided
  past its expiry can only be cancelled.
- **Live preparation.** If a human approves after the run waits and before
  `awaiting.json` is written, and the command dies there, the next start resumes to
  completion and refuses ever after. A second evaluation under the evaluator's name, or
  a decision signed before the run waits, stops `finish` for good. A live start with
  another delegation or approver is a claim of its own; the idempotency key of the
  publication guards the effect.
- **Evaluator.** A decision signed before the `ApprovalRequired` event is written makes
  a completed run fail `lifecycle_integrity` (`DecidedEarly` excludes it).
- **Console and control plane.** A dropped exchange keeps its claim. The CLI's decide
  skips the checks of registry and session. Rate-limited, forbidden and unknown requests
  refresh the idle deadline too. A drain waits for request bodies without a timeout. A
  bucket of the active session may be evicted once as many requests as there are
  buckets are in flight.
- **Lifecycle.** An init that fails with `MovementDetected` after its insert leaves a
  policy row bound to a lock file that is gone; opens then refuse.
- **Blobs.** Two processes on one store would race: the mutex is of a process.
  Temporary files of a crash are never collected. A damaged file of an existing row is
  not repaired by a put.
- **Transfer.** Export takes no snapshot and import is not one transaction. A grant
  enrols an unknown agent with a placeholder key. `load_proof` hides expired proofs. The
  HTTP server puts its database where export reads JSON.
- **Identity.** The refusal of an incomplete identity recommends `rotate`, which refuses
  it too. Overlapping fills of one file may leave a torn tail.
- **Content.** The CLI saves `schemas/<id>.json`, `object.edit` reads
  `schemas/<id>-<version>.json`. A torn object file makes later commits fail. An
  interrupted commit leaves its changeset approved and refused by its base digest.
- **Domains.** A one-step workflow without approval saves its step and then fails.
  `step.complete` never sets `completed_at`. Two approvals of an insight overwrite each
  other's name. `catalog.update` can lose a field another request saved. Upserts bring
  deleted rows back. A crash between query and insight leaves an executed query with no
  insight and no retry.

## Not modelled

- The run-invocation and approval protocol of the MCP server. Read, not modelled: a
  crash between the saves of run and step in a resume, or after the handler, leaves a
  pair that every retry refuses.
- The comparison of patterns, times and limits along one delegation chain: a pure
  predicate, an input of the engine.
- The release pipeline of `proof-content`: sequential and in memory.
- Argument and frame parsing of the transports, page-query parsing, HTML, headers,
  sockets, canonical JSON, cryptography, the SQL text of migrations, logging: I/O or pure
  data whose answers are inputs here.
- The operations that submit an object or approve a changeset, the launcher and the
  scheduler of reclaims: not in the repository. They are external where a model needs
  them.
