# Workboard: models, checks and proofs

Workboard keeps a board of Epics, Features and Work items, launches native agent sessions (Codex,
Claude) for them, and records what they report. Its state lives in four places that no single
transaction spans: a SQLite database, Markdown documents in a planning store, the Git repositories
behind both, and the native sessions themselves. Every CLI command, every provider hook and every
managed session's MCP server is an operating-system process of its own, and they meet only in those
four places. This directory models that program in TLA+, checks the models with TLC and proves
theorems about them with TLAPS. Paths below are relative to `src/crates/`; `application/` stands for
`application/src/`.

- [1. The system](#1-the-system)
- [2. Modules](#2-modules)
- [3. Runs](#3-runs)
- [4. Proofs](#4-proofs)
- [5. What the models found](#5-what-the-models-found)
- [6. Limits](#6-limits)
- [7. Plan](#7-plan)

Run `tlc -config X.cfg MCModule.tla` for a run and `tlapm M.tla` for the proofs, which are in
`WorkItemStateProofs`, `FeatureIntegrationProofs`, `CheckoutAllocationProofs`, `SessionLaunchProofs`,
`FollowUpsProofs`, `PlanningProofs`, `ProvidersProofs` and `StorageProofs`.
`PROJECT.json` lists runs, mutants, the source lines of every definition, hazards and theorems.

## 1. The system

| component | state | operations | hard behaviour | what makes it correct |
|---|---|---|---|---|
| work-item state (`application/work_item_state.rs`, `planning_store.rs`) | `work_item_states`, `work_item_state_updates`, `documents`, `document_revisions`, the document file, the planning store's index and HEAD | update, replay under an idempotency key, reconcile, complete_integration, record a publication error | six steps with no lock between them; rival processes; crash or a failing Git command at each step; a person's editor on the same file; a shared Git index | the projections of an item agree; no update lost or applied twice; legal moves only; an open update can be finished; the caller is told the truth |
| feature integration (`application/feature_integration.rs`) | `feature_integration_runs`, `..._steps`, `work_item_integrations`, the Feature checkouts | preview, confirm, execute, resume, reconcile heads | two executors of one run; a crash between merge and record; foreign commits; items that are reviewed again meanwhile; conflicts | merged what is recorded; dependency order; done only when merged; runs end; no item forgotten |
| session launch (`application/session_launch.rs`, `native_launch.rs`, `hooks.rs`) | `launch_intents`, `managed_sessions`, `native_session_associations`, `restore_memberships`, `restore_entries`, live observations, capability bundles, checkout reservations | begin, execute, fail, await_binding, ingest_hook, adopt, close, remove from restore | hooks race the driver that waits for them; tokens are inherited; observations and intents expire; the provider may never start | one launch, one binding; authority as confirmed; one writer; managed, associated and restorable together |
| checkouts (`application/checkout.rs`, `git.rs`) | `checkouts`, `checkout_readiness`, `checkout_reconciliation_events`, `operation_intents`, worktrees and branches on disk | prepare an item's checkout or an additional writer's, prepare or adopt a Feature's, reconcile, mark missing | Git succeeds and the database fails, or the reverse; what was seen is recorded later, without a lock; people move and fill directories | one generation after another; what is recorded was true and is never undone by an older look; nobody's files are taken; a retry succeeds |
| batch launch (`application/batch_launch.rs`, `cli/lib.rs`) | `managed_launch_batches`, `..._children` | preview, start, resume, status; preflight, reserve, begin, mark, spawn, execute, reconcile | several commands on one batch; a crash between begin and mark_launched; late answers | a child is spawned once; the batch sums up its children; a bound child is never out of reach of reconciliation |
| follow-ups (`application/follow_up.rs`, `adapter-claude/follow_up.rs`, `adapter-codex/app_server.rs`) | `session_follow_ups` with leases, the transcripts | queue, lease_next, reconcile, deliver, finish_delivery | the lease is shorter than a delivery may take; the binding changes; a process outlives the call that started it | a message arrives once; never at another binding; a late answer changes nothing |
| recovery (`application/recovery.rs`, `cli/recovery.rs`) | `recovery_attempts`, their plans and outcomes, `restore_entries` | preview, begin or repeat an attempt, resume, replace, record, finish | a crash between launch and outcome; two commands on one attempt; sessions that are live already | no session revived twice; outcomes tell what happened |
| planning workflow (`application/planning_workflow.rs`, `workspace_planning.rs`) | Feature and proposal rows, planning sessions, documents, index and HEAD of the planning store | prepare, propose, revise, approve, reject, publish, reconcile | documents are committed before the rows; publishers share index and working tree | what is committed was approved; the documents of a published plan are first in one commit, whole; rows and state agree; publications stay |
| feature work-item planning (`application/feature_work_item_planning.rs`) | proposals, items, dependencies, documents | propose, approve, reject | approval against rejection; publication beside that of other Features | as above, for the items added |
| provider integration (`application/integration.rs`, `integration_service.rs`, `capability_bundle.rs`) | provider configuration, two workflow contracts, backups, displaced files, confirmation tokens | preview, status, remove, undo; nothing installs them any more | the owner edits the files meanwhile; a crash while a file is displaced; a token used twice | no saved text is lost; only what was confirmed is removed; a failure is undone |
| workspace, projections, actions, contract (`workspace.rs`, `work_projection.rs`, `actions.rs`) | registered rows, Epics and their documents, the checkout of a Feature | register, create an Epic, create a Feature with its checkout and planner, adopt a checkout; read-only views | documents are written before rows; a creation crashes between any two of its steps; people move worktrees | rows name what is committed; a creation is whole however far it came, and its repetition succeeds |
| workflow operations (`workflow_operations.rs`, `cli/lib.rs`) | `managed_session_requests`, workflow tokens | authenticate, request a session, record its launch and its binding | a request is executed in separate steps, by calls that crash and are repeated | a request is spawned once; what it says of its launch is so |
| storage (`storage.rs`) | tables, `schema_migrations`, owners and attestations of import batches, memberships and evidence of imported documents | open and migrate | several processes and releases open one database; look-ups outside the transactions; crashes; repairs by hand | what is settled or finalized is true and final; a retried upgrade ends |
| imports (`legacy_import.rs`, `concertable_import.rs`, `workspace_planning.rs`) | import batches, sessions and their candidates, Epics, Features and their documents, proposals | preview, apply, repeat, reconcile, adopt, ignore; propose, approve, reject | rows are decided by look-ups before their transaction; hooks and people decide meanwhile; documents are committed first | rows are right in their transaction; no decision of a person is changed; a repeated import ends |
| daemon (`daemon/`) | lock file, marker and descriptor; listener, writer and watcher threads with their queues; stop flag | claim, serve, watch, refresh, shut down | two daemons and one lock file; joins at shutdown; debounce; lost events | the descriptor names the daemon that runs; a loser exits; each change is read |
| native adapters (`native/`, `native_sources.rs`, `adapter-*`) | `native_session_sources`, cursors with fingerprints; connections to app-servers | scan, refresh, validate; send, reconcile, discover | transcripts change while they are read; servers that say anything or nothing | what is recorded of a transcript is in it; a call returns, and a receipt is for what was accepted |
| command line, MCP, board (`cli/`) | none of their own | parse, dispatch, render | - | - |

How they interact:

- An **update** of a Work item to review queues the heads of its checkouts in
  `work_item_integrations`; a **feature integration** run merges those heads and calls
  `complete_integration`, which is an update to done.
- A **launch** gives a session a launch token, for its first hook, and a workflow token, which is what
  lets it **update** the item it is associated with. Its binding reserves the **checkout** for it.
- Hooks move **live observations**, which decide whether a session may be resumed, closed, recovered
  or sent a **follow-up**.
- A launch of a Work item **prepares its checkout** first, from the Feature checkout that
  **integration** merges into; a bound writer keeps others from preparing it.
- A **batch**, a **recovery**, a **requested session** and the **creation of a Feature** are drivers of
  the same launches.
- A resumption validates the **transcript** that a refresh recorded.
- **Imports** discover and associate sessions, as hooks do, and commit Epics and Features to the store
  that **planning** publishes into; **migrations** settle what earlier imports left.
- **Planning** publishes into the planning store that **updates** write to; both record its whole index.
- The **daemon** and every command **open** the database and migrate it.

`PROJECT.json` names, under `hazards`, each place where an order of these steps could go wrong that no
test tries, and the property that covers it or why none does.

## 2. Modules

### WorkItemRules

What several components share: statuses, successors (`core/src/work_item_state.rs`), who may move an
item where, the rows of `work_item_integrations`, the queueing of a review. Operators only.

### WorkItemLedger (abstract)

What the checkpoint service promises: an item has one authoritative state, replaced atomically by
legal moves, one revision at a time; a review queues heads; done requires that every head it asks for
has the result of its merge. It does not promise that the rows of a done item stay integrated: `Settle`
writes the row whatever it says, as `complete_step` and `fail_step` do, so that a second executor can turn
an integrated row back to conflict, while the result that was recorded stays (`results`). The ledger knows
no files, commits, staged rows or processes.

### WorkItemState (detailed)

The service as the code runs it. One action is one transaction, one read of the disk or one Git
command.

| action | code |
|---|---|
| `Submit`, `StartIntegration` | a caller starts `update`, a run starts `complete_integration` |
| `Lookup` | the idempotency lookup: an update, an answer, a replay or a conflict |
| `Context`, `Verify`, `RenderStep`, `Stage` | the reads and validations of `update`, the rendered candidate, the transaction that validates again and inserts the row |
| `Resume`, `Reread`, `Reconcile` | `resume_staged` and the caller that reconciles |
| `Publish` ... `Head` | `publish_update`: expected hash, recheck, copy, `git status`, `add`, `commit`, `rev-parse` |
| `Finalize`, `FinalizeAgain`, `ReconciliationError` | the last transaction, its replay, the row that names the failure |
| `Fault`, `Crash` | a command fails, or the process dies, at any step; during the copy the file may be torn |
| `ExternalEdit`, `RestoreCommitted` | a person edits a document or discards what is not committed |
| `Settle` | `complete_step` and `fail_step` of any executor: a row becomes integrated or in conflict, whatever it was |
| `AdvanceSource` | new commits of the item's checkout |

A content hash is modelled by the content it identifies (hashes do not collide), a document by its
text, whether it has the layout Workboard renders, its status and its managed section.

### FeatureIntegration

Runs over several items and repositories, each executed by any number of processes: preview and
confirmation, the merge lease, loading, the drift check, completion of what a crash left, preflight,
one pass of candidate, source, resolve, contains, merge and complete per step, the failure of a step
or of a run, sealing. A branch is a number of commits, a Feature checkout the sequence of what was
merged or committed into it, so that "is merged" is a question to Git and not to the database. The
protocol of WorkItemState is one action here; an update that was staged and not finished appears as
`interrupted`.

### SessionLaunch

Drivers that begin, spawn, mark and await; processes of the provider that run, inherit tokens, end or
die; their hooks, each a process of its own, in the two steps of `bind_hook` (the reads that check the
token, the transaction that binds); adoption, close and removal from the restore set; time as two
actions by which an intent or an observation expires.

### CheckoutAllocation

The checkouts of Work items, primary and additional, against the Git worktrees they stand for.

| action | code |
|---|---|
| `BeginPrepare`, `ResolveParent` | `prepare_work_item_allocation`: the context, the Feature checkout compared with its row |
| `ReadReadiness`, `RejectActiveWriter`, `EnsureIntent` | the recorded readiness, the managed session that works there, the intent and its key |
| `LookAtTarget` | what Git and the directory say of the path; accept, refuse or go on |
| `Materialize` | `GitService::materialize_checkout` and its restoring and recreating forms, with the second look at an empty directory |
| `Persist`, `RecordUnavailable`, `Record` | the transactions that write what was seen under the next generation |
| `BeginReconcile`, `Resolve` | `reconcile_registered_checkout`, of an item's checkout or the Feature's |
| `CommitWork`, `BindWriter`, `ReleaseWriter`, `Tamper`, `FailGit`, `Crash` | commits, sessions, people and failures |

A worktree is where its path says it is, or in one of six other conditions that the code tells apart; a
branch is its number of commits and the Feature head it began at. `alone` is a history variable: the
process that found everything in order when it began and has been the only one to act since. Nothing
in the model reads it; it turns "a retry succeeds" into a property of one step, without fairness.

### FollowUps

The mailbox of a session: a call queues a message under its key and delivers the first message of
that session that it may lease.

| action | code |
|---|---|
| `Send`, `Insert` | `queue`: the binding that was read, the sequence, the transaction that answers a repeated key |
| `Lease` | `lease_next`: the first deliverable message, refused evidence, attempts |
| `Reconcile`, `ReconcileFails`, `AfterMiss` | the search for the message in the transcript, by identity (Codex) or text (Claude) |
| `Deliver`, `Accept`, `Acknowledge`, `DeliverFails` | the provider is handed the message, takes it, answers |
| `Orphan`, `AcceptLate` | a Claude process that outlives its call and takes the message later |
| `Finish` | `finish_delivery`, by a call that may have lost its lease |
| `Lapse`, `Crash`, `Rebind`, `End`, `Refresh`, `Observe` | time, failures, sessions and their hooks |

### BatchLaunch

`execute_batch_launches` by several commands, each with the list of children it has read. `Confirm`,
`Preflight`, `PreflightFails` (`GiveUp`), `Reserve`; for each child `ReadReservation`, `Begin`,
`MarkLaunched`, `Spawn`, `SpawnFails`, `Execute`, `GiveUpChild`; `Await` and `MarkAwaited`; `Resume`,
`Status` and the two steps of their reconciliation. `Put` is the transaction that changes one child and
sums up the batch (`Summary`). Launch intents are those of SessionLaunch seen from outside: absent,
pending, launched, bound or failed.

### Recovery

`execute_recover` by several commands: `Preview` (`Disposition` classifies each session as `classify`
does), `BeginAttempt`, `Recreate`, `Begin`, `Spawn`, `MarkLaunched`, `RecordLaunched`, `Await`,
`Record`, `Finish`. Times are past, present or future together with the form in which they are
written, because the code compares their texts (`LaterText`).

### SessionRequests

`session_request` by several calls under any key: `Existing`, `Prepare`, `Authorize`, `Store`, then the
launch as a driver makes it (`Check`, `Insert`, `Spawn`, `SpawnFails`, `Execute`), `RecordLaunch`,
`Await`, `RecordBinding`; `Bind` is the hook, `Close` and `Lose` what happens to sessions and checkouts.

### Planning

Feature plans and added Work items, their approval and their publication in one Git repository.

| action | code |
|---|---|
| `ReadSources`, `CreateFeature`, `MarkLaunchPending`, `BindPlanner`, `EndPlanner` | preparation of a planner, its session |
| `SubmitProposal`, `RequestProposalRevision`, `RejectProposal`, `ApproveProposal` | proposals and decisions, each one transaction |
| `PublishApproved`, `CheckSources`, `MarkReconciliation` | `publish_approved` and the row that asks for reconciliation |
| `CompareDocuments` ... `ReadHead` | `publish_batch_new`: compare, create, fill, `git status`, `add`, `commit`, `rev-parse`, document by document |
| `MaterialiseFeature`, `MaterialiseAddition` | the rows of the hierarchy, inserted last |
| `Propose`, `Reject`, `Approve` | `feature_work_item_planning.rs` |
| `Fail`, `MoveSources` | a call is killed or a command fails, also within a write; a planner's sources change |

### FeatureCheckouts

`feature create` and `feature use-checkout`: `Create`, `Current`, `RecordReuse`, `EnsureIntent`, `Look`,
`Add`, `Resolve`, `Persist`, `MarkLaunchPending`, `Begin`, `Insert`, `Fail`; `ReadAdoption`, `Adopt`;
`EnsureRepositoryCheckout` and `Reconcile`. `Disturb` is what people do with worktrees. `alone` is a
history variable as in CheckoutAllocation.

### EpicImport

Epics that are proposed and approved (`Approve`, `LookUpEpic`, `InspectDocument`, `CreateNewFile`,
`WriteNewBytes`, `AddPaths`, `CommitPaths`, `InsertEpic`, `Decide`, `Reject`) or imported with a Feature
(`ApplyImport`, `PreflightCollisions`, `CompareDocuments`, `CreateDocument`, `FillDocument`,
`ExamineDocuments`, `InsertImport`); `Fail` and `MoveSource` disturb both. A file is what it holds, what is
staged and what is committed; it is torn from its creation until it is written, and for good if the call
is killed in between.

### SessionCatalogue

The import of a catalogue of sessions: `Apply` reads a reviewed preview, `Replay` and `Reconcile` answer
one that was applied, `Import`, `Resolve` (one look-up a session), `ValidateCandidateAdoptions`, `Write`
and `WriteFails`, `Enrich`. Beside it, `AdoptImported`, `IgnoreImported`, `EnsureNativeSession`, `Refresh`,
`Bind`, `CloseSession` and `ReplaceBackup`.

### ProviderIntegration

A removal as `integration.rs` makes it, file by file: `CreateBackup`, `CheckActual`, `Displace`,
`CompareDisplaced`, `RemoveContract` or `PersistConfiguration`, or else `LookAtPlace` and
`RestoreDisplaced`; `Fail` starts `UndoFile` for what was removed already. `BeginPreview`, `Load`,
`StoreConfirmation`, `ValidateConfirmation`, `Expire` and `CompleteMutation` are the service around it.
`Save` is the owner of the files, at any time.

### AppServer

Calls of the app-server of Codex. The program is the client (`StartServer`, `WriteRequest`, `Receive`,
`TimeOut`, `DropChannel`, `StopServer`, `Join`, `Return`) and a thread that reads the server's output
(`ReadOutput`, `PutOutput`) into a channel of one message. The server (`Serve`, `Babble`, `Exit`,
`NextTurn`) may do anything.

### NativeSources

Transcripts as their lines, which a provider appends and people edit, cut and remove. `ScanOn` goes on
where the last scan ended, `Refresh`, `Discover`, `ScanNext` and `Commit` record what the roots hold,
`ReadContext` and `Validate` decide whether a session can be resumed.

### Daemon

The threads of each daemon as automata: main (`OpenLock` ... `RenameDescriptor`, `EnableWatcher`,
`Stopping`, `Join`, `Exit`), listener (`Accept`, `ReadRequest`, `AcceptFails`, `ListenerEnds`), writer
(`TakeRequest`, `HandleRequest`, `WriterEnds`) and watcher (`WatchLoop`, `ReceiveEvent`,
`RefreshWhenQuiet`, `Reconcile`). A lock file is an inode with or without the marker; the path may name
a newer one.

### StorageUpgrade

`migrate` for the migrations 14 to 22 that settle which repository owns an import batch; 23 stands for
all later ones. `Open`, `Look` and `Apply` are the look-up and the transaction of one migration,
`ReadOwners`, `ChoosePath`, `ApplyWhole`, `LookForAudit` and `PrepareAudit` the steps between. The
first states are those that earlier releases left (`Left`), with wrong owners where the earlier
migration 15 set them. `Import`, `RecordPath` and `Attest` are an earlier release that still runs and
a person who repairs.

### ImportEvidence

The migrations 23 to 30, which rebuild what proves that an import made a document, the views and
triggers they leave behind (`Finalizable`, `Attestable`, `ParentFixed`), and the imports of this and of
earlier releases (`Apply`). `Attest`, `Revise` and `Reparent` are a person, an update and a row that is
moved by hand.

### MC modules

`MCWorkItemState`, `MCSessionLaunch`, `MCCheckoutAllocation` and `MCFollowUps` hold the definitions of
their instances. The others put several instances into one run: the first state chooses one, each has
bounds of its own, and a property is the conjunction of those of the instances.

| module | its first state chooses |
|---|---|
| `MCIntegrationScenarios` | FeatureIntegration with dependent items, or with an item of two repositories |
| `MCLaunchDrivers` | BatchLaunch, Recovery, SessionRequests, or NativeSources |
| `MCPlanning` | Planning, or FeatureCheckouts |
| `MCProviders` | ProviderIntegration, or AppServer |
| `MCImports` | SessionCatalogue, or EpicImport |
| `MCStorageUpgrade` | StorageUpgrade, or ImportEvidence |

## 3. Runs

All runs pass.

| run | question | bounds |
|---|---|---|
| `state_rivals` | Do two processes that submit, replay and reconcile lose or repeat an update, or lie to a caller, and do they implement the ledger? `ProjectionParity`, `DoneIntegrated`, `StagedStillValid`, `NoFalseSuccess`, `ImplementsLedger` | 1 item, 2 processes, 3 requests: 2 reviews, and one for the revision of the first under the key of the second; a run whose rows are settled in any order; 1 new head or a second review, or else 1 edit by hand (the constraint `EditOrReview`); no faults |
| `state_faults` | From any two failures, does everything come together again? `SettledParity`, `Converges` | 2 items that share an index, 1 process, 4 requests, 2 faults |
| `integration_scenarios` | Do two executors of one run agree, and is an item of two repositories done when, and only when, both are merged? `DependencyOrder`, `AloneForgetsNone`, `DoneIsMerged`, `UndisturbedRunsEnd` | either 2 dependent items listed in the other order, 2 processes, 1 run, a conflict, 1 fault; or 1 item, 2 repositories, 1 process, 2 runs, moves out of review, 2 faults, 1 foreign commit |
| `session_bindings` | Does each launch bind one session with its authority and its checkout? `BindingParity`, `AuthorityMatches`, `WriterCheckoutExclusive`, `SpawnedOnce` | 2 drivers, a launch and a resumption, 2 sessions, an adoptable item, 2 acts by hand, 1 fault |
| `checkout_races` | Do preparations and reconciliations that race each other leave a true record, and can they always be sent again? `EveryGenerationRecorded`, `HeadsNeverRegress`, `RetrySucceeds` | 1 item, 2 processes, fresh keys and one that is sent again, 2 commits per branch, 2 generations when a call begins, 1 act by hand, 1 fault |
| `followups_delivery` | Does a message arrive once, at the binding it was for? `NoDuplicateDelivery`, `NotRedirected` | 1 session of either provider, 2 messages, 3 calls of which 2 at a time, 1 change of a binding, 1 fault |
| `launch_drivers` | Is a child of a batch, a recovered session and a requested one spawned once, and are the records of their drivers, and of transcripts, true? `SpawnedOnce`, `RecordsAreTrue` | 3 children and 3 commands of which 2 at a time; or 2 sessions, one with a checkout of its own, and 2 commands on one attempt; or 2 keys, 2 repositories, 3 calls; or 2 roots with a transcript each, 3 lines, 3 writes, 2 reads; 2 faults (1 in a recovery), 1 act by hand |
| `planning_publish` | Do documents, commits and rows agree, although publishers share an index and fail; and is a creation of a Feature whole, and can it be repeated? `PublicationsAreTrue`, `RowsFollow`, `AloneSucceeds` | 2 Features, an addition to one, 2 processes, 5 calls, 2 proposals per Feature, 1 change of the sources; or 2 Epics with one slug, 3 creations, 1 adoption, 2 disturbances; 1 fault |
| `providers` | Does a removal lose nothing its owner saved, take only what was confirmed and undo what it cannot finish; and does a call of the app-server return, with a receipt that is true? `EverySaveIsKept`, `RemovedAsConfirmed`, `FailureIsUndone`, `ReceiptsAreTrue`, `CallsReturn` | 3 files, 2 processes, 1 preview, 3 removals, 1 save, 1 fault; or 2 calls, 4 messages of the server, 2 threads on 2 pages, 1 restart |
| `daemon_runs` | Does one daemon own the endpoint, does the other exit, and is each change read? `EndpointNamesOwner`, `LosersExit`, `ChangesAreRefreshed` | 2 daemons, 2 starts, 1 connection, 1 change, 1 failure or kill |
| `storage_upgrade` | Is what the upgrade settles true and final, and does it end? `SettledIsTrue`, `FinalizedStays`, `UpgradesEnd` | 2 processes, 1 batch, 2 repositories and the planning store, the databases of 5 schemas, 1 useless attestation, 1 fault; or 2 batches of plans, imported by releases of 4 schemas, 1 moved row |
| `imports` | Are rows that were decided before their transaction right in it, do decisions stay, and does an import end? `CandidatesAreTheirs`, `EpicsAreTrue`, `DecisionsStay`, `ImportsEnd` | 2 processes; 2 catalogues with 3 conversations of 2 sessions, 3 selections, 2 imports, 2 acts; or 2 proposals and 2 plans for 1 Epic, 2 approvals; 1 fault |

Further questions are asked by hand, as `tlc -config X.cfg MCX.tla`. Where a configuration names several
properties, leave one, or add `-continue`:

| configuration | what TLC says |
|---|---|
| `WorkItemState_stale_resume`, `FeatureIntegration_promises`, `FollowUps_promises`, `Recovery_promises`, `SessionRequests_promises`, `ProviderIntegration_promises`, `Daemon_promises` | violated, each for a disagreement of section 5 |

There is no `MCX` for Recovery, SessionRequests, ProviderIntegration and Daemon, whose configurations are
of the modules themselves. Other properties are added to the configuration of a run for the occasion:

| property, and the run it is added to | what TLC says |
|---|---|
| `AcceptedTextKept`, `HistoryOfUpdates`, `CompletedInCommit`, `ReconciliationActionable`: `state_faults` | hold |
| `StepsAreMerged`, `CompletedRunsIntegrated`: `integration_scenarios` | hold |
| `EndedIsRetired`: `session_bindings` | violated |
| `AdditionalWriterServed`, with `Allocations <- WithWriter`: `checkout_races` | violated |
| `RejectedCreatesNothing`, `NotShared`, `PendingIsUnfinished`, `PublishedAreWhole`: `planning_publish` | violated |
| `PromisedRepairEnds`, `ImportsAreAnswered`: `storage_upgrade` | violated |
| `AdoptedIsConfirmed`, `CheckoutIsTheirs`, `AllRowsAreCommitted`, `TitlesAgree`, `RejectedHasNone`, `KilledImportsEnd`, and with `Reviewed <- Dismissable` `DismissedIsFinal`: `imports` | violated |
| `EveryRootIsPresent`, and with `MaxWrites = 4` `EditsAreSeen`: `launch_drivers` | violated |
| `RejectedIsNotAccepted`, `AcceptedIsFound`: `providers` | violated |

Modules define `TypeOK`; those of WorkItemState, FeatureIntegration, CheckoutAllocation, SessionLaunch
and Planning are proved, the others have been checked by adding the name to the configuration of a run.

Why the bounds are enough. Two processes are enough for a race between two steps of one item, since
what they share is one row, one file and one HEAD; a third can only repeat what one of them did. Two
faults let the recovery from one failure fail itself; where there is one, the steps it leaves are
repeated by a process that shares them with another. Two items show what the index and the runs share
between items, two repositories what an item needs from several, three children what a batch does with
one that failed, one that is launched and one that is not yet. Two heads tell what is merged from
what was asked for. A larger number of commits, edits, acts or faults adds repetitions of the same
steps. All of it is inductive evidence only; section 4 says what holds without bounds.

Some bounds and exceptions matter to what a property says:

- `DoneIsMerged` holds in `integration_scenarios`, where a branch has one head, and is violated in
  `FeatureIntegration_promises`, where it has two. The run shows that crashes, conflicts, several
  repositories and moves out of review do not break it.
- `AloneForgetsNone` is about one process per run: with two, one can record a conflict and end the
  run that the other has still to complete.
- `SettledParity` holds with one process and two faults, and is violated with two and none.
- `RetrySucceeds` holds in `checkout_races`, where an item has its primary checkout only. With an
  additional one it is `AdditionalWriterServed`, which is violated.
- `WriterCheckoutExclusive` is about checkouts that are reserved for one session.
- `Converges`, `UndisturbedRunsEnd`, `UpgradesEnd` and `ImportsEnd` name the cases in which the code
  gives up: an update that another has overtaken, a document that a person changed or a torn copy; a
  step whose item has left review or its queue, an update that another run or a checkpoint left open; a
  batch that the repairs the upgrade asks for cannot settle, or one whose rows were moved by hand; an
  import whose sources moved, whose path or slug something else has taken, or one of whose files a call
  created and was killed before it wrote.
- `PublicationsAreTrue` excepts documents that a publisher passed over while another had created and not
  yet filled them; that they can be published torn is `PublishedAreWhole`.
- `DecisionsStay` excepts a dismissed candidate that reconciliation deletes, because a batch imported for
  its repository places it in another; `DismissedIsFinal` is without the exception.
- `DoneIntegrated` is about the results of merges, which nobody takes back, and not about the status of
  the rows, which a second executor can.
- `NoDuplicateDelivery` excepts Claude messages whose lease lapsed: nothing bounds a Claude delivery.
- Of `RecordsAreTrue`, `AttemptsTellOutcomes` is about attempts of which no command crashed,
  `ScanningOnIsScanning` about transcripts that were not changed between the windows of the fingerprint,
  and `FreshIsResumable` about refreshes and validations that acted alone.
- `AloneSucceeds` is about a creation that begins in order and has been the only one to act since.
- `RowsAreCommitted`, of `EpicsAreTrue`, excepts imports that another call overtook.
- `CallsReturn` excepts the writing of a request that does not fit in the pipe, which has no time limit.
- `EndpointNamesOwner` holds as long as nobody has removed the lock file.
- `FailureIsUndone` excepts a person's own file in the place of the second contract.
- The owners of `storage_upgrade` are those of one batch. Batches are settled one by one, and what they share is that one that
  cannot be settled holds up all.

**Fairness.** A process that runs takes its next step (`WF_vars(Step(p))`): the operating system
schedules it. A caller that was told to reconcile, or to resume a run, does so if it can again and
again (`SF_vars(Reconcile(p, k))`, `SF_vars(Resume(p, k))`): strong, because the same process may be
busy with something else each time. In the daemon each thread goes on; a read of a connection times
out and so do the waits of the watcher (`WF_vars` of `ReadRequest`, `RefreshWhenQuiet` and
`Reconcile`), and accepting has no fairness, since nobody need connect. A database is opened again
after a failure, and repaired as the failure asks (`WF_vars(Open(p))`, `SF_vars(Repair(b))`), which is
what the message tells a person to do; in ImportEvidence that is `WF_vars(Migrate)` and
`WF_vars(AttestMissing(b))`. Both threads of a call of the app-server go on (`WF_vars(Client)`,
`WF_vars(Output)`), while nothing is asked of the server. An import that failed is repeated
(`SF_vars` of `ApplyImport(p, v)`). Nothing else is assumed of people, faults, commits or edits.
The session, checkout, follow-up, batch, recovery, request, planning and removal models state no liveness:
their calls are sequences of steps without loops or with bounded waits, nothing retries them, and what
matters is that the next call finds what it needs, which their safety properties say.

**Deadlock** is checked for WorkItemState, where a command can always be submitted again, and for
CheckoutAllocation, where a Feature checkout can always be reconciled. It is off for the others: every
run, launch key, call or start of an instance is used up at some point and nothing is left to do.

**Symmetry** is used between identical processes and drivers, and only in runs without liveness.

## 4. Proofs

`WorkItemStateProofs` proves, for every set of items, repositories, processes, requests, runs and
payloads and for every bound:

| theorem | statement |
|---|---|
| `TypeCorrect` | `Spec => []TypeOK` |
| `ProjectionsAgree` | `Spec => []ProjectionParity` |
| `StagedUpdatesStayValid` | `Spec => []StagedStillValid` |
| `DoneOnlyIntegrated` | `Spec => []DoneIntegrated`: of a done item each head that its rows ask for has a recorded result |
| `DoneIsReady` | `Spec /\ NoneTakenBack =>` always `IntegrationReady` of a done item: its rows stay integrated, if no executor takes one back |
| `MovesAreLegal` | `Spec => LegalMoves` |
| `HistoryIsAppendOnly` | `Spec => HistoryAppendOnly` |
| `Refinement` | `Spec => ImplementsLedger`: the staged, published and finalized update implements the atomic acceptance of `WorkItemLedger` |
| `SuccessIsTrue` | `Spec => NoFalseSuccess` |
| `UpdatesAreRevisions` | `Spec => []HistoryOfUpdates` |
| `ReconciliationStaysPossible` | `Spec => []ReconciliationActionable` |
| `SettledAlone` | `OneProcess /\ Spec => []SettledParity` |

Assumptions: `RequestsAssumption` (requests have their type) and `BoundsAssumption` (the bounds are
natural numbers). The rest is the specification.

The argument is about the gap between staging and finalizing, over which the code holds no lock. An
open update was staged for a revision that the item has or had. If the item still has it, nothing the
update was validated against has changed, because whatever changes it takes that revision. If it has
not, the revision the update would write exists and the uniqueness of `document_revisions` refuses it.
None of the properties is inductive alone. The invariant is `IInv`:

- `Typed`: `TypeOK`, and that a running process and a row that exists have a real request with its own
  key, without which a `NoRequest` could be finalized;
- `StagedRows`: a process past the staging transaction has its row, which no later step removes;
- `LedgerInv`: `Parity` (revisions are numbered without gaps and the newest is the state), `Rendered`
  (what a process publishes carries the state of its request), `RowsHaveResults` (an
  integrated row has a result, and one that has a result is integrated or in conflict),
  `StagedStillValid`, `DoneIntegrated`.

What a done update was validated against is that all rows of its item were integrated. Two executors of one
run can make that false before the update is finalized, because `fail_step` does not look at the status of
the row. The result of the merge stays until a review queues another head, and a review takes the revision.
`StagedStillValid` and `DoneIntegrated` are therefore about results (`ItemMerged`), and `DoneIsReady` says
what is left for the rows with one executor.

`Init => IInv` is `InitTyped`, `InitStaged`, `InitLedger`; `IInv /\ [Next]_vars => IInv'` is
`NextTyped`, `NextStaged`, `NextLedgerInv`, with one lemma per group of actions; the action properties
and the refinement follow from `IInv` step by step, most steps being stutters of the ledger.

Two invariants stand on `IInv`. `Unanswered`: a process that runs has not answered, so that an answer is
that of the step (`StepAnswers`), and the three steps that answer "completed" read or write the row of
their own request. `HistoryInv`: each completed update left the revision after its own (`Recorded`), each
revision but the first was left by one (`Made`), and there are as many (`Counted`), because the revision
that finalizing adds was not in the history; no row is for a revision before the first, because staging
compares it with the current one.

`SettledAlone` is about the disk, of which `IInv` says nothing. `SettledInv` adds that an item whose
document is not the same on disk, in the index, in HEAD and in the database has an open update, and that
the process which publishes one knows how far its document has come (`Published`): on disk once copied,
staged once added, in HEAD once committed. A crash keeps the row open, and `publish_and_finalize` starts
again from the copy. No step looks at the files when it finalizes, so that with two processes `Published`
is false, and so is `SettledParity` (section 5, item 1).

`FeatureIntegrationProofs` proves, for every set of items, repositories, runs and processes and every bound:

| theorem | statement |
|---|---|
| `Types` | `Spec => []TypeOK` |
| `Merged` | `Spec => []StepsAreMerged` |
| `Completed` | `Spec => []CompletedRunsIntegrated` |
| `DependenciesFirst` | `Spec => []DependencyOrder` |
| `IntegratedKept` | `OneExecutor /\ Spec => IntegratedStays` |
| `DoneInEveryRepository` | in every state of `Spec`, of an item that is done each repository has merged a commit |
| `DoneMerged` | `MaxHead = 1 /\ Spec => []DoneIsMerged` |
| `NoneIsLost` | `OneExecutor /\ Spec => []NoneLost`: when nothing runs, an integrated item is done, has an open update, or is a step of a run that can be resumed or has failed |
| `LoneForgetsNone` | `Conflicting \cap Items \subseteq Twins /\ ScenarioSpec => []AloneForgetsNone` |

Assumptions: `OrderAssumption` and `BoundsAssumption` (the bounds are natural numbers, and a branch has
a commit); `KeysAssumption`, that no run has the name of what `interrupted` holds of an item without
one; `LayersAssumption`, that an item is in a later layer than those it depends on, which
`DependencyLayer` computes for plans without cycles, and the code refuses the others
(`application/feature_integration.rs:831`, `application/planning_workflow.rs:1371`); and
`SortAssumption`, that any of the items can be listed in the order `Before`. Both are inductions over
the plan, which TLC does for each instance.

Nothing keeps two processes from executing one run, each with the steps as it read them before. The
invariant `IntegrationInv` says why the record stays true all the same. A step leaves "pending" once and
for good (`SameSteps` relates what a process read to what is there). A process goes past a step only when it
has left "pending" (`ProcessOK`), so that when it records a step, those before it are integrated or the run
has failed; and a failure ends all steps that are left in one transaction, so that nothing is pending after
it (`RunOK`). The commit that a process is about to record is in the checkout (`Has`), and is never taken
from there. `RowsExist` is that the queued row of a step stays. `OneRecords`, `OneProcess` and
`OneProcessMerges` say what a step of one process leaves the others, with one lemma per action above them.
`IntegratedKept` adds that a process which has not yet the outcome of its step finds the item's row not
integrated (`Unsettled`); a second executor makes that false.

That what is done is merged needs no such restriction: a row is settled only of a step that is merged
(`RowsMerged`), an item is completed only when its rows are (`ItemsMerged`), and commits stay. What
the invariant does not say is *which* head: `complete_step` settles the row of an item without comparing
heads, hence `MaxHead = 1` for `DoneIsMerged` (section 5, item 2).

That no item is forgotten is about the order between settling the rows and completing the item, two
transactions of which a crash may fall in between. `Works` is what a process that is alone knows: its run is
running, the steps it has still to come to are as it read them, and it works on a pending one. `Cover` then
says that an item which could be completed is a step that its process has still to come to, or that a run
has which nobody executes and which can be resumed or has failed (`OwedBy`); each step either keeps that
step ahead, or completes the item, or leaves an open update. This is `NoneIsLost`, with any conflicts,
crashes, moves out of review and foreign commits. `NoneForgotten` says more: that the run has not failed unless
somebody else has committed. A run fails as drifted when it cannot explain the head of the checkout, so
`Undisturbed` says that it can: the head is the last result it recorded, or the unrecorded merge of its
next step (`Explained`). A person who concludes a conflicted merge would make that false, since the run then
finds a commit that it did not make and that is not counted as drift. `LoneForgetsNone` therefore assumes
that what conflicts is not in the instance with one process (`Clean`), as it is in the run. It is a theorem of
the instances of `MCIntegrationScenarios`, which the module extends.

`CheckoutAllocationProofs` proves, for every set of allocations, processes and keys and every bound:

| theorem | statement |
|---|---|
| `TypeCorrect` | `Spec => []TypeOK` |
| `EveryGenerationIsRecorded` | `Spec => []EveryGenerationRecorded` |
| `HeadsDoNotRegress` | `Spec => HeadsNeverRegress` |
| `BranchesStartFromIntents` | `Spec => []BranchesFromIntents` |
| `OccupiedStaysUntouched` | `Spec => OccupiedIsUntouched` |
| `RetriesSucceed` | `OneKind /\ Spec => RetrySucceeds` |

Assumption: `AllocationAssumption` (the Feature checkout is no allocation; the bounds are natural
numbers, with room for one commit). `OneKind` says that no item has both a primary and an additional
allocation; without it `RetrySucceeds` is false (section 5). The argument is about the gap between a
look at a worktree and the transaction that records it. The invariant, each part on the ones before it:

- `Typed`: `TypeOK`, and that a preparation is of an allocation and from a commit (`Roles`);
- `Generations`: what a process read is the recorded row or has a smaller generation (`Behind`), and the
  events are exactly the generations so far. A process that is behind finds its generation taken; one
  that is not replaces the very row it read (`WriteNext`);
- `Heads`: no row and no process is ahead of the branch, which only grows, and what a process saw is not
  behind what it had read;
- `Traced`: a process that may create a worktree has its intent;
- `Alone`: at each step of a process that is alone, what the step checks will be found in order.

Each has its lemma for `Init` and for `[Next]_vars`, with one step per action.

`SessionLaunchProofs` proves, for every set of sessions, launches, drivers and checkouts and every bound:

| theorem | statement |
|---|---|
| `Types` | `Spec => []TypeOK` |
| `Parity` | `Spec => []BindingParity` |
| `Authority` | `Spec => []AuthorityMatches` |
| `Exact` | `Spec => []ExactBinding` |
| `Exclusive` | `Spec => []WriterCheckoutExclusive` |
| `Once` | `Spec => []SpawnedOnce` |
| `TakeoverSeen` | `Spec => TakeoverIsSeen` |

Assumptions: `RequestsAssumption` (requests have their type), `NamesAssumption` ("none" and "new" are no
names of anything) and `BoundsAssumption`. `bind_hook` checks a token outside the transaction that binds,
and `begin` and the spawn are two steps of a driver. The invariant `LaunchInv` says why neither matters:
an intent that exists keeps its request for ever (`Intended`), so that what the check found is still
true when the session is bound (`TokenChecked`); a driver that is about to spawn is the one whose
transaction inserted the intent (`SpawnsOnce`); a row refers to an intent that exists (`RowsIntended`);
and the reservation of a writer checkout is of the session that has a row there (`WritersReserved`).
`RowsMove` sums up what any step does to the rows: it binds one session, retires one, or takes sessions
from those to restore. The properties of rows are proved from it and not action by action.

`FollowUpsProofs` proves, for every set of sessions, messages, targets, texts and calls and every bound:

| theorem | statement |
|---|---|
| `DeliveredOnce` | `Spec => []NoDuplicateDelivery` |
| `StaysAddressed` | `Spec => NotRedirected` |

Assumptions: `ToolsAssumption` (the providers are Claude and Codex) and `TargetAssumption` (a message is
for a session). A lease is a number: each `Lease` takes the next one, so that of the calls that work on a message one at
most holds the lease of its row. `DeliveryInv` has the types (`Typed`); that the attempts are counted,
and that a message never leased was never handed over (`Counted`); that a call has an attempt of its own,
not above that of its row (`Numbered`); that a call which works under a lease that cannot have lapsed
holds it (`Held`); that a message which is about to be handed over never was (`Fresh`); and that a
message is in the transcript once or may yet come there, and not both (`Single`). `Held` is where the exception of `NoDuplicateDelivery` comes from: a Claude delivery may
outlive its lease. `TypeOK` as a whole is not proved here, since the number a message has in its session
is counted over the messages so far.

`PlanningProofs` proves, for every set of Features, additions and processes and every bound:

| theorem | statement |
|---|---|
| `Types` | `Spec => []TypeOK` |
| `PublicationsTrue` | `Spec => []PublicationsAreTrue` |
| `Rows` | `Spec => []RowsFollowState` |
| `PublishedPlansStay` | `Spec => PublishedStays` |
| `RowsAllFollow` | `Scenarios => []RowsFollow` |
| `CreationsAloneSucceed` | `Scenarios => []AloneSucceeds` |

Assumptions: `AdditionsAssumption` (an addition is to a Feature), `NamesAssumption` (no addition is a
Feature) and `BoundsAssumption`. Publishers share the working tree, the index and HEAD of a repository and
take no lock, and anybody's commit records whatever is staged. The invariant `PublicationInv` says why a
plan is first in one commit all the same: the documents of a plan are staged in one step, once all are
written, so that whoever commits first commits all of them (`Together`); a plan that was approved is
changed no more while it is published (`Called`, with what a call knows in each of its states, `CallOK`); a
document that is there, staged or committed stays so (`FilesGrow`); and an addition never has the path of a
document of the plan (`Proposed`). The commit a call has read is not older than the one its documents were
first committed in (`Commits`). Rows and states, and what is said of the documents, then hold together.

That the documents are whole in that commit is a second invariant, `Accounted`, on top of it (`Documented`):
a document that is staged or committed, or that a call has gone past, is whole or was passed over while it
was torn (`Sound`). A call goes past a document by filling it, by finding it identical or by passing over
what exists; only the last can leave it torn, and then its creator may be yet to fill it. Without that
exception the statement is false (`PublishedAreWhole`, section 5).

The last two are about the publications and the creations of Features, which `Scenarios` puts side by side,
for every set of slugs, places and commands; `SlugsAssumption` is that no slug is "main" or "none". A creation is
a sequence of transactions with Git between them. `CreationInv` says what a command knows in each of its
states (`Knows`): that the Feature has a row and an intent, that the checkout it has found is registered, and
at the end that a planner may be launched. None of it is ever taken back (`Grows`), so that it stays true
while others act, and the rows go together (`CreationsAreWhole`). Worktrees are taken back, by people. Of a
creation that began with nothing in its way and is still the only one to have acted, `InOrderStill` says
what its next check will find: a worktree that is its own or can be added, and later the checkout it has
recorded, available. `Moves` is what a step of one command keeps of all this, adoptions included, and
`AroundKeeps` what people and crashes do.

`ProvidersProofs` proves, for every set of processes or threads and every bound, from no assumption:

| theorem | statement |
|---|---|
| `SavesAreKept` | `Spec => []EverySaveIsKept` |
| `AsConfirmed` | `Spec => RemovedAsConfirmed` |
| `Undoes` | `Spec => FailureIsUndone` |
| `Receipts` | `Server!Spec => []ReceiptsAreTrue` |

A removal is a long sequence of steps with no lock, beside the owner's saves and other removals.
`RemovalInv` gives the shape of a call in each of its states (`CallOK`): what it has read is what was
confirmed, what it is about to drop has a backup, and what it has removed are the owned contracts it has
passed, none of them malformed. `Numbered` says that no text is newer than the last save, and `Unique`
that no content of a contract is in two places (at its path, displaced by a call, or removed by one to be
put back), so that two removals never undo the same thing. One lemma per action keeps the shape of the
call that acts (`Acting`); the other calls are untouched.

`Receipts` is about AppServer, whose instance in `MCProviders` is `Server`. A call takes for its answer
the first message with the number of its request, while the server says what it likes before it and may
have older answers on its way. `ServerInv` therefore speaks of every place in which an answer can be (the
channel, what the reading thread holds, the output) and of every request that is not read yet: none has a
number above that of the call's request, none has that number before the request is written (`Written`),
and an answer with that number is to that very step and true (`Tells`, `Truth`). A result that is a receipt
was read from such an answer (`Receipt`).

`ProvidersProofs` also proves of the drivers of launches, for every number of commands, children, sessions,
attempts, keys and repositories and every bound:

| theorem | statement |
|---|---|
| `OnceSpawned` | `DriversSpec => []SpawnedOnce` |
| `TrueRecords` | `DriversSpec => [](driver # "transcripts" => RecordsAreTrue)` |

Assumption: `DriversAssumption` (a batch has children, sessions are numbered). `DriversInv` is the invariant
of whichever driver runs, and the three have one shape. Between the transaction that begins a launch and
the one that marks it, nothing in the store tells who is about to spawn; only the command knows. So the
invariant says what a command knows in each of its states (`Founded` and `BatchOpened` of a batch,
`RecoverKnows`, `AskKnows`) and that no two commands are about to spawn the terminal of one launch (the
last part of `BatchOpened`, `RecoverAlone`, `AskAlone`). A command that only reads, goes on or ends keeps
all of it (`RowStep`, `RecoverReads`, `AskReads`), and one that changes a launch keeps it if the launch goes
forward and nobody else is about to spawn it (`LaunchStep`, `RecoverLaunches`, `AskLaunches`). The
actions are then applications of one of these. A record is true because it is written from what was read
of a launch, and what was read is never taken back (`TrueStays`).

That an attempt tells how its sessions ended is a second invariant, `TellInv`, on top of `RecoverInv`:
outcomes are those of sessions of the plan (`AttemptKnown`), and as long as nothing has failed or crashed,
a session of the plan without an outcome is still on the list of a command at work on the attempt, one
that is recorded as launched is awaited by such a command, and where nobody is at work the status is the
summary of the outcomes (`AttemptTold`). Several commands may work on one attempt and finish in any
order; `TellBegins` is the case of one that joins.

`StorageProofs` proves of the daemon, for every set of daemons and every bound:

| theorem | statement |
|---|---|
| `EndpointNames` | `Spec => []EndpointNamesOwner` |
| `OneOwnerByLock` | `Spec => [](path = 1 => OneOwner)` |

Assumption: `DaemonsAssumption` ("none" is no daemon). The invariant `EndpointInv` says that a daemon
has the lock of the file it opened from taking it until it stops (`Opened`, `Held`), that the file at
the path is the newest one (`Typed`), and that a daemon which has published finds its own descriptor
while the first file is still at the path (`Named`). With that file there is no other to lock, so that
one daemon at most is past the lock (`OneHolder`), and nobody writes the descriptor of another.
`OneOwner` alone is false: a daemon that fails while it initialises removes the path (section 5).

The same module proves of the upgrade of a database, for every number of processes, batches, repositories
and imports, for every subset of the releases that is given and for every bound:

| theorem | statement |
|---|---|
| `SettledTrue` | `UpgradeSpec => []SettledIsTrue` |
| `FinalizationsStay` | `UpgradeSpec => FinalizedStays` |
| `OwnersAreTrue` | `OwnersSpec => []AuditedAreTrue` |
| `AuditsStay` | `OwnersSpec => AuditStays` |

Assumptions: `UpgradeAssumption` (the releases are of the schemas 13, 14, 15, 17 and 20; the planning store
and "no repository" are no repositories) and `ReleasesAssumption` (a release that imports plans has a
number). A process follows the list of migrations it made when it opened the database, while others apply
theirs. `OwnersInv` says what is left of the order between lists: what a process still has to do comes
after what it needs, an audit after the repair of the attestations (`InOrder`), and until the repair no
owner is anything but what was imported or nothing (`OwnersUntouched`), so that what a process has captured
then is what was imported, however late it uses it (`CapturedIsTrue`). What the audit leaves is true by
what it checks, and nothing that comes after the audit changes owners (`AuditKept`). `EvidenceInv` is about
each import by itself: `RowTrue` says what a finalized row has at each schema, and `RowKept` what a later
migration leaves of it. `RowOK` adds what makes that inductive, of finalized and other rows alike: an
Epic whose evidence is synthetic is attested, since a migration that finalizes the row later could not tell.

And of the imports, for every set of catalogues, sessions, plans and proposals, every number of processes
and every bound:

| theorem | statement |
|---|---|
| `SessionsFoundTheirs` | `ImportsSpec => []CandidatesAreTheirs` |
| `DecisionsAreKept` | `ImportsSpec => DecisionsStay` |
| `EpicsFoundTrue` | `ImportsSpec => []EpicsAreTrue` |

Assumptions: `CatalogueAssumption` (ids of native sessions are no ids of conversations, "nothing" is none of
these and no repository, no two catalogues
list different sessions under one id, items belong to repositories, previews are of catalogues there are)
and `EpicsAssumption` (a proposal is no plan, and each has a slug). Between the look-ups of an import and
its transaction, hooks, scans and other imports write sessions. `CatalogueInv` says why what was looked up
may be used: an id that names a session names it for good, and no two ids name one (`SessionsOK`), so that
what a call has found either leads to the listed session or is the id it was listed under (`FoundOK`). A
conversation that another import has bound meanwhile is refused by the unique indexes, and the
transaction with it. `LeadsOK` carries this over to what is recorded, and `ConfirmedIsAdopted` is inductive
with the rest. Each lemma for a step shows `DecisionKept` of it as well, and for the reconciliation that
takes `DoomedInv`: what a call goes to delete are candidates that the catalogue of its batch places in
another repository than the one the batch was applied for. `EpicsInv` says of documents that
what is staged is what was written, or torn, and what is committed is what was staged (`StagedAsWritten`),
and of a call how far its own documents have come (`Progress`): a file that was written stays as it is,
since `write_new_bytes` and `publish_batch_new` refuse to overwrite, and a file is written by the one call
that created it (`FillsApart`). A row is true because its call had seen all of its documents
committed, unless another call was there first (`overtaken`).

What stays with TLC, and why:

- All liveness (`Converges`, `UndisturbedRunsEnd`, `CallsReturn`, `LosersExit`, `ChangesAreRefreshed`,
  `UpgradesEnd`, `ImportsEnd`): fairness and ENABLED are out of the reach of the prover.
- That `LayersAssumption` and `SortAssumption` follow from a plan without cycles: the layers are a recursion
  over the dependencies and a sorted sequence is there by induction over its length, and induction over
  data cannot be instantiated.
- `SettledParity` with two processes, `DoneIsMerged` with a second head and `AloneForgetsNone` with a person
  who concludes conflicts: there they are false of the code, so that the theorems have one process, one head
  and no conflict in the instance with one process as hypotheses. `NoneIsLost` and `DoneInEveryRepository` are
  what holds without the last two.
- The part of `RecordsAreTrue` that is about transcripts: what a scan keeps is a fold over the lines of a
  file, and that a scan which goes on equals one from the start is an induction over that fold.

**What composes with what.** `WorkItemState` assumes nothing of the outcomes that `FeatureIntegration`
tells it: `Settle` writes any row. Only `DoneIsReady` has a premise, that no integrated row is taken back
(`NoneTakenBack`), and that is what `IntegratedKept` gives for one process that executes the runs: a row
leaves "integrated" there only for a newer head that is queued. `BatchLaunch`, `Recovery` and
`SessionRequests` assume of `SessionLaunch` that a key is begun once (`Once` there, a theorem) and that a bound intent stays bound; `Planning` and
`WorkItemState` model the same planning store each for its own documents.

## 5. What the models found

Disagreements between the code and its documents, comments or messages, each with the configuration
or the property (section 3) in which TLC refutes what they say:

1. `WorkItemState_stale_resume`. Two processes resume one staged update. The slow one compares the
   hash, is overtaken by the fast one and by a whole newer update, and then copies its old candidate
   over the newer document and commits it. Its row is completed, so it reports success. The database
   holds the newer revision, disk and HEAD the older one, and nothing is left to reconcile.
2. `DoneIsMerged` (`FeatureIntegration_promises`). A second review queues a newer head between the candidate check of
   a run and its recording transaction. The transaction marks the row of the item integrated whatever
   head it names, and the item is done with a head that was never merged.
3. `RunsEnd` (`FeatureIntegration_promises`). A queue is previewed twice. Once the first run has integrated
   an item, the second, confirmed later, finds it in no queue (`candidate`). The run stays running and
   holds the lease of the checkout; every later run of that Feature and repository is refused with
   `feature_integration_lease_held`, and no command cancels a run.
4. `EndedIsRetired`. The hook command finds the launch token in the environment of the session,
   so that every hook of a launched session carries it, and `ingest_hook`
   (`application/session_launch.rs:545`) sends each of them to `bind_hook`, which accepts the start
   only. The end is rejected, although `MANAGED_WORK_ITEM_LAUNCH.md:110` says that a clean end retires
   ownership and restore membership.
5. `AdditionalWriterServed`. The branch of an additional writer is `work-item/<item>/writer/<suffix>`,
   below the branch `work-item/<item>` of the primary checkout. A Git ref is a file or a directory, so
   that the second of the two can never be created.
6. `AcceptedInOrder` (`FollowUps_promises`). A message that is leased does not hold back the next one of its session: another
   call leases that and may deliver it first. `ChangedForCause`: hooks carry no identity
   of a process, so that any hook leaves an observation without one, and a message then fails for changed
   evidence although neither binding nor checkout has changed.
7. `LiveAreSkipped` (`Recovery_promises`). Whether a session is live is decided by comparing texts: the expiry of an
   observation in nanoseconds since 1970 ("17...") with the present as RFC 3339 ("20..."), so that no
   observation is ever unexpired (`application/recovery.rs:584`). `README.md:54` says that live sessions
   are skipped. The same comparison makes no pending launch count as in flight.
8. `ReplacementsBegin` (`Recovery_promises`). `--replace-unresumable` of a session that needs a checkout of its own: the
   session to be replaced is still managed in that checkout when its replacement is begun, and the check
   for another writer refuses it.
9. `RejectedCreatesNothing`. An addition that is rejected while it is being published creates its items all
   the same: the last update of the proposal changes no row, and nobody looks at the number.
10. `FailureIsAlwaysUndone` (`ProviderIntegration_promises`). A malformed configuration stops a removal after the two contracts are
    gone; where the second contract's place holds a person's own file, undoing stops there and the first
    contract stays removed. `NeverOverwritten`: a file that is put back is renamed over
    whatever its owner has saved in its place meanwhile.
11. `UnmarkedIsBeingMade` (`Daemon_promises`). A daemon killed between creating the lock file and writing its marker leaves a file
    that every later start takes for that of an older release. `OneOwner`: a daemon that fails while
    it initialises removes the path after it has released the lock, and two others can then hold two lock
    files of one name. `RunningListens`: after an accept error that is not transient, the main thread
    joins a watcher that nobody stops, and the daemon runs without listening.
12. `PromisedRepairEnds`. A process of schema 13 that imports right after migration 14 leaves a direct
    batch without an owner. The upgrade then fails and advises an `explicit_repair` row in
    `import_batch_repository_attestations` (`application/storage.rs:3479`), a table that is made by the
    very transaction that fails.
13. `ImportsAreAnswered`. An older release that still has the database open after migration 24 imports a
    batch that nobody finalizes. Repeating that import is refused, where a repeated import is to be
    answered. Where a source is ambiguous, the messages of the migrations 28 and 29 ask to remove it,
    which their triggers forbid.
14. `EveryRootIsPresent`. A refresh marks all sources of the provider missing in the transaction of each
    root (`application/native_sources.rs:48`), so that with several roots (`daemon/src/main.rs:85`,
    `cli/src/lib.rs:1728`) those of the last root alone are present afterwards.
15. `BoundIsTold`, `OneWriter` (`SessionRequests_promises`). A hook that is faster than `execute`, the end
    of the wait of 15 seconds and a crash each leave a request pending or launched for ever, although its
    session is bound. Two requests pass the check for another writer of the checkout.
16. `NotShared`. Features of one slug in two Epics have one worktree path and one branch: the second
    takes the worktree of the first for what it left itself. `PendingIsUnfinished`: a preparation that is
    repeated and finds a checkout leaves its intent pending.
17. `RejectedIsNotAccepted`, `AcceptedIsFound`. A call of the app-server that fails on something said after
    the message was accepted reports it rejected, and a message is looked for in the latest turns alone.
18. `PublishedAreWhole`. `publish_batch_new` passes over a path that exists (`application/planning_store.rs:294`),
    also when another publisher of the plan has created the file and not written it yet. It then stages
    and commits the torn document and the plan is published with that commit, although
    `plans/V0_PLAN.md:663` promises a commit with "one complete Feature document".

Observed while modelling; no document says otherwise:

- An update that another has overtaken keeps its open row for ever. Resuming it is refused and nothing
  drops it. An open update that a failed run left to a person blocks the item's completion by every
  later run.
- `git commit` records the whole index. A process can commit another's staged document; the other then
  finds nothing to commit and records HEAD, which does hold its document, as far as it was written (`CompletedInCommit`,
  `PublishedAreCommitted`).
- An edit that lands between the last hash comparison and the copy is overwritten.
- Two executors of one run: one completes an item while the other fails the same step, and the row of a
  done item, or of one whose update to done is staged and not finalized, goes back to conflict
  (`application/feature_integration.rs:525`), while its `result_head` stays; or one records the conflict, ends the run, and the items the other has
  merged are in no queue. If a user concludes a conflicted merge between `resolve` and `contains` and the
  process then dies, the resumed run fails as drifted.
- A crash followed by a foreign commit fails the run; the items it had merged stay in review, integrated
  and in no queue. `NoneForgotten` allows exactly what the code leaves behind.
- An item that leaves review while its run completes it makes every later resumption fail at the same
  place, and the run keeps the lease.
- A failed merge is left in the checkout for a person to conclude.
- Two launches into a checkout that is not reserved can both pass `reject_checkout_launch_conflict`.
  Resumptions and adoptions do not look at conflicts.
- The row of a Feature checkout has no generations: a reconciliation that looked earlier and writes later
  records an older head, and preparations fail until the next one. The rows of item checkouts are
  guarded (`HeadsNeverRegress`).
- `recreate_checkout` of a recovery updates `checkouts` and leaves `checkout_readiness` as it was.
  `source_revision` in a readiness names the newest Feature head, also where the branch began at an
  older one.
- Since hooks carry no process evidence, `session close` closes only what is stopped already. An intent
  whose process never started blocks its checkout; nothing calls `cancel` or `reconcile_expired`.
- Two commands on one recovery attempt overwrite each other's outcomes. `--since` compares texts as well,
  and passes every session whose managed interval has not ended.
- A crash after the documents of a plan are committed and before its rows are written, followed by a
  change of the sources, leaves documents that no row names. A Feature that wants reconciliation while
  its proposal is `publishing` has no command that leads out of it. A crash within a write leaves a torn
  document, which another publisher's commit may record before the retry finds it. Two additions that
  are published at once may take one `proposal_order`.
- An import that adopts a session does not confirm the candidate an earlier import left
  (`AdoptedIsConfirmed`); enriching a candidate can give it a checkout of another repository
  (`CheckoutIsTheirs`).
- `create_epic` takes a document that it finds at its path whatever its title (`TitlesAgree`), and
  `publish_batch_new` passes over files that were created since it compared them (`AllRowsAreCommitted`).
  A proposal that is rejected between `create_epic` and `decide` leaves its Epic (`RejectedHasNone`).
- An import, or a `create_epic`, that is killed between creating a document and writing it leaves an empty
  file. Every repetition of the import refuses it as a document of somebody else
  (`application/planning_store.rs:287`), and `create_epic` cannot parse it
  (`application/workspace.rs:1012`), until a person removes it (`KilledImportsEnd`).
- Reconciliation deletes a candidate that a person has dismissed, when a batch imported for its repository
  places it in another (`application/legacy_import.rs:921`). The decision goes with it, and a later
  import offers the session again (`DismissedIsFinal`).
- The branch of a Feature outlives its worktree, and a Feature whose worktree was removed cannot be
  created again, since the branch is always added anew. An adopted checkout that goes missing is silently
  replaced by the default worktree; a repeated creation takes any worktree at the path.
- A session of a Work item with a single repository can never request another one. `authorize_session_target`
  allows sessions of Epics and Features, but only sessions of Work items are given one.
- An edit of a transcript between the windows of its fingerprint passes the next scan (`EditsAreSeen`).
- Nothing limits the time of writing a large request to an app-server that does not read.
- A crash while a provider's file is displaced leaves its place empty; the text is in the backup.
- Two processes that open an older database at once: the one that finds a migration missing and is
  overtaken fails with an error of SQLite (`table ... already exists`); opening it again succeeds.
  `user_version` goes back from 21 to 18 on the way of migrations 19, 21, 18. Migration 14 is dated to
  the millisecond and imports to the nanosecond, so that a batch imported just before it, within that
  millisecond, counts as imported after it.

## 6. Limits

- Text, size limits, rendering, timestamps and the cryptography of tokens are data; a token is the
  identity of its intent. Hashes do not collide.
- A person edits the text or the layout of a document, never the status in its front matter.
- Several reads that the code makes in one go outside a transaction are one action where nothing
  between them can tell.
- The hooks of one process are handled in order, because the provider waits for them. Hooks of two
  processes of one session do not overtake each other.
- Owners of sessions are Work items and Features; Epics and workspaces have no restore membership.
- `adopt_hook`, `cancel`, `reconcile_expired`, launch leases and `WorkflowOperations::checkpoint` are left
  out, as nothing but tests calls them, and so is the activation of planning sessions by a binding.
- Branches are not deleted and commits are not taken back. The status of an intent and the source of a
  readiness are not kept. The path and branch of an allocation are derived from it and meet no other's,
  so that `reject_allocation_collision` has nothing to refuse.
- In CheckoutAllocation a Feature checkout exists from the start; its preparation and adoption are those
  of FeatureCheckouts, and a recovery's `recreate_checkout` is in Recovery.
- FollowUps has the messages of one call at a time per sender; the thirty minutes of a Claude delivery
  and the two of a lease are the action `Lapse`. A Codex delivery ends within its lease, as its timeouts
  are shorter.
- Recovery takes the executables of all providers to be there.
- Removal is the only change that ProviderIntegration makes: there is no operation that installs.
- AppServer has one call at a time, as each starts a server of its own.
- The windows of a fingerprint hold one line each, and a scan reads whole lines.
- A conversation id is of one native session in all catalogues (`CatalogueAssumption`); catalogues that
  disagree about one are not modelled.
- A catalogue lists at most three conversations in the run, and a preview of plans has one Epic and one Feature.
- In StorageUpgrade the evidence of a batch is the set of repositories it names, and what a person does
  is limited to recording a path and inserting an attestation.
- SQLite is taken at its word: a write transaction is atomic, durable and excludes other writers.

Hazards that no property of a run covers:

- The text compared in `application/planning_store.rs:203` is read before the copy: an edit in between is
  overwritten (section 5).
- Hooks after the start go to `bind_hook` as well (`application/session_launch.rs:545`), and an intent that
  nobody withdraws blocks its checkout (`:1226`): `EndedIsRetired` is violated, and nothing calls `cancel`.
- A leased message does not hold back the next (`application/follow_up.rs:314`), texts of times are compared
  (`application/recovery.rs:584`), and the last update of an approval is not looked at
  (`application/feature_work_item_planning.rs:297`): items 6, 7 and 9 of section 5.

Not modelled, and why:

- Of `legacy_import.rs`, the rows of histories, remotes, live observations, contexts and summaries, which
  nothing reads back; of `concertable_import.rs`, the parsing of plans; of `workspace_planning.rs`, the
  validation of what is proposed. They are data.
- `initialise_workspace`, `register_repository`, `work_projection.rs`, `actions.rs`,
  `workflow_contract.rs`: one transaction or one read per call.
- Migrations other than 14 to 30, which only add tables.
- `capability_bundle.rs`, the board, the MCP server, parsers of provider files, identities and errors:
  rendering, dispatch and parsing.

## 7. Plan

Every component of section 1 that keeps state is modelled or, where the table of modules says so, partly
modelled, and every safety property and action property that a run checks is stated by a theorem, except
the parts named at the end of section 4. What could be added:

1. The part of `RecordsAreTrue` that is about transcripts, once induction over a fold can be instantiated.
2. `TypeOK` of FollowUps as a whole, for which the numbers of the messages of a session have to be counted.
3. `RetrySucceeds` and `SettledParity` for several kinds of allocations and several processes, if the code
   is changed so that they hold (section 5, items 1 and 5).
