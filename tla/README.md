# A TLA+ model of DataSentry's publication, recovery and incident control

DataSentry watches a synthetic orders warehouse: Airflow loads and transforms one
partition per business date, deterministic checks raise incidents, people approve
repairs, and a recovery run replaces the partition. The difficult part of the code
is not any single function. It is that PostgreSQL (control state), ClickHouse (data),
Airflow (scheduling) and several processes are involved in every repair, that no
transaction spans two of them, and that each can fail while another goes on. This
project models that part, checks it with TLC on small instances and proves its safety
properties, those of every component that is modelled, with TLAPS.

## Inventory of the system

| Component | State | Operations | Hard behaviour | What makes it correct |
| --- | --- | --- | --- | --- |
| Partition publication (`pipelines/common/publication.py`, `10_partition_publication.sql`) | revision row, journal rows, session advisory lock; live, stage and backup partitions in ClickHouse | lock, prepare, publish, compensate, publish_group, finish, abort | lost sessions, commands that land late, lost acknowledgements, crashes, retries with the same execution id | live data matches the journal; one mutator; every mutation journaled first; layers agree |
| Writers (`load_clickhouse.py`, `run_dbt.py`) | stages, intents | daily load, dbt build, three recovery runbooks | run concurrently for one date, fail half way | derived layers come from the published raw input |
| Recovery service (`agent/recovery/service.py`) | plans, executions, approval claim | preview, create_plan, create_execution, dispatch | facts and revision read in different transactions, uncertain POST | only the approved state is replaced |
| Recovery runtime (`runtime.py`, DAG 90_05) | execution record, journal | run_execution, _finish | cleared runs, processes that outlive their task | single use; success needs evidence |
| Reconciler (`reconciliation.py`, DAG 90_06) | - | inspect, reconcile | acts on a run state read earlier | never infers success; uncertain stays uncertain |
| Incident resolution (`incident_resolution.py`, DAG 90_03) | incident revision and episode, revalidation requests, decisions, outbox | publish_candidates, create/dispatch/get revalidation, confirm_resolution | evidence expires, late results, reopening, lost deliveries | closed only on fresh evidence of the current data with no open work |
| Approval control (`approval_control_store.py`, `approval_queue.py`) | requests with version, decision, execution status; projection outbox | create, decide, cancel, claim, record outcome, flush | compare-and-set races, projections out of order | one claim per approval; cancelled work never runs |
| Approved actions, backfill dispatcher | approval, child runs | execute, trigger children, wait | crash between claim and call, partial backfills | at most one external effect per approval |
| Recovery outbox (`outbox.py`) | audit and delivery flags | flush | unknown delivery | no duplicate post, no lost event |
| Supervisor (`agent/supervisor/`) | budget ledger, plan waves, circuit state | reserve, reconcile, run wave, retry | concurrent reservations, hard deadlines | never above the budget, every worker reported |
| Triage graph, checkpoints | LangGraph checkpoints | run, resume, replay branch | crash between nodes | resume does not repeat finished work |
| Discord bot | workspaces, investigation claims, messages | ensure workspace, investigate, deliver | Discord calls with unknown outcome | one workspace per incident |
| Data plane (seeding, snapshots, checks, profiling, schema drift) | appended rows, immutable objects | daily runs | re-runs | idempotent |
| Front ends (FastAPI, Streamlit, Next.js, MCP) | none | requests | - | pass requests on |

Interaction: front ends call the services; every control change is one PostgreSQL
`control_transaction` under a single platform-wide advisory lock; the API starts
Airflow runs by POST; Airflow starts processes in a runner container with `docker
exec`; those processes call the publication protocol, which has its own advisory lock
per date; the reconciler compares Airflow, control records and journal afterwards.

## Modules

| Module | Role |
| --- | --- |
| `PartitionPublication` | the publication protocol with all its writers, for one date |
| `PartitionPublicationProofs` | the theorems about that module: safety, the journal, the contents of a group |
| `MCPartitionPublication` | instances: a recovery and a rival writer, a retry with an external writer, solo |
| `SingleUseApproval` | abstract: what an approval promises, whoever stores and executes it |
| `RecoveryControl` | plans, approval, dispatch, Airflow run, recovery process, reconciler; implements `SingleUseApproval` |
| `RecoveryControlProofs` | the theorems about that module and its refinement of `SingleUseApproval` |
| `MCRecoveryControl` | instances, symmetry and the bound `Explored` |
| `ApprovalControl` | the approval store, its two executors, the approval half of the reconciler, the projection; implements `SingleUseApproval` |
| `SingleUseRequests` | both users of the approval store side by side, `ApprovalControl` and `RecoveryControl` |
| `ApprovalControlProofs` | the theorems about `ApprovalControl`, its refinement, and those about `SingleUseRequests` |
| `MCApprovalControl` | instance of `SingleUseRequests` |
| `IncidentClosure` | revalidation requests, their dispatch and run, the evidence, the closure gate |
| `IncidentClosureProofs` | the theorems about that module |
| `MCIncidentClosure` | instances and symmetry |
| `IncidentOutbox` | the incident's outbox, its ClickHouse and Discord sinks, the alert producer |
| `IncidentOutboxProofs` | the theorems about that module |
| `MCIncidentOutbox` | instances |
| `SupervisorFanout` | a fan-out request: plan, waves, budget, workers, checkpoints, aggregation |
| `SupervisorFanoutProofs` | the theorems about that module, from the recursion of its waves on |
| `MCSupervisorFanout` | three workers in three plans |
| `SupervisorHandoff` | single handoffs: gates, attempts, deadline, circuit, acceptance, failure handler |
| `SupervisorHandoffProofs` | the theorems about that module |
| `MCSupervisorHandoff` | two concurrent requests |
| `DiscordWorkspace` | the incident's Discord thread and its investigations |
| `RecoveryOutbox` | the recovery events on their way to the audit log and to Discord |
| `DiscordProofs` | the theorems about both |
| `MCDiscord` | instance of both |

Definitions named after a mutation (`AcquireOverPending`, `MarkAborted`, ...) and
introduced by a comment "Mutant:" are not part of any specification: each is a plausible
bug that the property named in `PROJECT.json` must notice.

### PartitionPublication

A worker is one process. `ExecOf` gives its execution identity, so that an Airflow retry
(`execution_identity` reuses the task identity) is a second worker of the same execution;
`Kind` says which writer it is. `live`, `stage`, `backup` are ClickHouse partitions, keyed
by table, and by execution where the scratch database is (`scratch_database`). A
fingerprint is the content itself; a derived table is named by the raw content it was
computed from, which is what makes `LayersAgree` expressible. `part` is the
`partition_revisions` row, `journal` the `partition_publications` rows, `lock` the holder
of the session advisory lock. Because the lock belongs to the session, `lock = w` is also
"w can still talk to PostgreSQL"; `SessionLost` takes it away without telling the worker.

The program counter follows the code: `Acquire` (`lock` up to its `yield` and the caller's
first reads), `Stage`, `Backup` and `Journal` (`prepare_partition`; the second look at the
live table is the guard of `Journal`), `Validate`, `Preflight` (first loop of
`publish_group`), then per member `Check`, `Begin` (the committed in-flight record),
`Command`, `Verify`, `Finish`. Compensation runs the same steps in mode `compensate`,
backwards. `Recover` is the exception handler of `publish_group`, `Abort` that of `lock`,
`Mark` is `_mark_unknown`. Each committed statement has a variant whose acknowledgement
is lost (`JournalUnacked`, `BeginUnacked`, `FinishUnacked`), each command one whose client
gave up (`CommandUncertain`), which leaves the command in `late`, to be applied by
`LateCommand` at any time or never.

The two derived stages are filled in one step: both are clones in the private scratch
database, read by nobody else, and both come from the one captured raw input. Row-level
structure checks, dbt compilation and model hashes are failures that may happen (`Fail`).

### RecoveryControl

One incident with its plans. Each `control_transaction` is one action; what the code does
between two of them (collecting facts, reading the revision, the POST, the inspection of
the run, the pipeline itself) is a separate action, so everything may happen in between.
`Contents` are partition contents: facts are equal exactly when contents are, so a writer
may bring the old content back (the ABA case) and only the revision tells the difference.
A process (`job`) follows `run_execution`: `ClaimRun` or `RefuseRun`, `EnterLock`, `Build`,
`BeginPublication`, `Mutate`, an outcome, `Revalidate`, `Finish` (`_finish`).

Publication appears as the summary that `PartitionPublication` justifies: the lock scope
is exclusive, nobody enters it over an unresolved row, an execution can stage only once,
and what a group leaves behind is one of published, restored, partial, prepared,
uncertain, unacknowledged, aborted. `unacknowledged` is an in-flight record that was committed
although its acknowledgement was lost (`LoseAcknowledgement`): `transition` is called outside the `try` of
`publish_partition`, so the row stays in flight, no command follows, and the execution ends as `failed`.
Three constants switch parts of the environment: `Detached` (a process
survives the failure of its run, because `docker exec` does not stop what it started),
`MayClear` (an administrator clears or marks runs), `ApiMayCrash`. The history variable `apart` holds the
plans to which one of the first two happened: a run that ended without its process, or that was started
again. What is promised to everybody else is stated of the plans outside it, and what is promised even to
those inside it is stated of all.

`Resolve` keeps of `confirm_resolution` what concerns recovery, the remediation blockers.
That a revalidation passes is assumed possible in any state; `IncidentClosure` models when
it does.

### IncidentClosure

One incident with its revalidation requests. Control transactions share the lifecycle
lock and are single actions, with one exception: `confirm_resolution` reads ClickHouse
inside its transaction, and pipelines write there without that lock, so it is split into
`ConfirmGate` and `CommitClosure`, between which only control transactions are excluded.
`call` holds the callers of `create_revalidation`, `get_revalidation` and
`dispatch_revalidation`: API calls, and the process of a DagRun, because every stage starts
with `get_revalidation` and may therefore dispatch. `Post` is the first dispatcher's call of
`AirflowRevalidationClient.trigger`, `Reconcile` that of every later one (`reconcile_only`).
`run` is where a DagRun is, `worker` the process of its checks stage, which outlives its
task like the recovery process does. Contract hash, data watermark and rule are abstracted
together: a version of the data is the set of contract versions it meets, and the
watermark is the number of the version, which assumes what `_data_watermark` itself
documents (no unlogged direct changes; part merges only invalidate proof). The schema hash
is part of the version. `max_active_runs=1` is not assumed. The `get_revalidation` that ends
a stage is folded into the stage: at that point it can only expire the request. Remediation
is one linked approval whose moves take the lifecycle lock (`ApprovalControlStore._transaction`). It is
linked by the incident's key or only by its date: `remediation_blockers` counts both, but `_incident_open`
finds the incident only in a scope that carries `alert_key`, so a request that has only dates can be proposed
for a closed incident and move on (`MayPropose`, `ClosedIsQuiet`).

### IncidentOutbox

The same incident, seen from its events. A lifecycle change and its event commit
together; `synchronize_incident` is one action whose outcome says at which event and phase
it stopped, and whether its PostgreSQL transaction committed, since the sinks keep what they
got either way. The call that `confirm_resolution` and the notify stage make with `deliver=True`
is not told apart from the replay by the reconciliation DAG, which may happen at any time
(`Flush`); the producer's and the triage's call with `deliver=False` is `SyncDue`, which never
comes when the caller dies. Every projection inserts the current snapshot, not that of the event.

An alert may be older than its control row, because `INCIDENT_CONTROL_ENABLED` is off by default
(`pipelines/common/alerts.py:122`): `Legacy` gives its state in `dq.alerts`, and the first transaction that
needs a control row takes it over as revision 1, without an event (`initialize`, `Current`). `HasNews` is the
incident of which there has been an event since.

`warehouse` is what `dq.alerts FINAL` shows, `card` what the Discord message shows that the delivery
state names, `recorded` what that state says it shows. The card is written by the outbox and by others: the
notification tasks of DAG 30 and 40, the command line, and whoever calls `synchronize_incident_message` outside
`synchronize_incident`. They read rows of `dq.alerts` first and deliver them later, holding no lifecycle lock.
A `notice` is such a delivery (`NoticeReads`, `NoticePatches`, `NoticeRecords`; each may be its last step), and it
may come between the patch of the outbox and its record (`Overtaken`). `stale` is the history of it: the card was last
written with a row that `dq.alerts` had replaced by then. Two first deliveries at once may each create
a message; only the one that the delivery state names in the end is the card.

The producer is two actions, `SelectCandidate` (reads the projection) and
`PublishCandidate` (decides from the control row). Events are ordered by commit, which
differs from `created_at` only for transactions that began while waiting for the lifecycle
lock. Closure keeps only what concerns events; its gate is `IncidentClosure`.

### SingleUseApproval and ApprovalControl

`SingleUseApproval` is the promise: a request is decided once, a claim excludes
cancellation, each part of the work happens at most once and only between the claim and a
final outcome, and an outcome is final unless it is `unknown`. Both users of
`dq_control.approval_requests` are checked against it. `RecoveryControl` maps each plan's
approval, with the mutation of live data as its one part. `ApprovalControl` maps its rows, with
one part per business date of a backfill and one for everything else. A request in `escaped` has an
executor that the scheduler no longer controls: it may be reported as failed while the executor still works, but
nothing happens twice, and nothing after a success. `RecoveryControl` maps `apart` to
it; for `ApprovalControl` it is empty, because there each report comes from the owner of the claim or after its end.

`ApprovalControl` is the store outside recovery. Each store method is one transaction under
the lifecycle lock, hence one action; its callers read first (`ReadForChange`, `Validate`) and
write later with the version they saw (`CompareAndSet`, `TakeClaim`). `op` is an API call between
the two. `disp` is a DagRun of DAG 90 (backfill) or 90_02 (`execute_approved_action`) with the task
process in it; a run keeps its id, and with it its claim, when it is cleared or retried (`Clear`). The
actions `create_ticket` and `post_notification` are both one POST and appear as `provider`; its answer may be a
success, a refusal, unknown, or one that could not be read (`broken_answer`: a broken body or another 2xx), which
is recorded as `failed` with an error of its own, whether or not the effect happened. `child`
are runs created in Airflow, `effects` counts how often each external effect really happened,
which is what the properties compare the records with. `Inspect` and `Reconcile` are the approval
half of `reconcile`, the first outside a transaction. `Deliver` is one delivery of
`flush_approval_projections`, which may land without being marked;
ClickHouse keeps the row with the newest `updated_at`, which is taken to follow the version although it is the start of the
transaction. The identity hash and the
generation of a request are its name. The ClickHouse-only branches of `approval_queue.py` are
reached only by injected test clients and are left out.

### SupervisorFanout

One request of `run_control_plane_fanout`. `deps` is the plan, chosen from `Plans` (one of the
instance's plans is cyclic); `Complete` are the waves of `build_execution_waves`, written as a
recursive function. `alloc` is the allocator in the parent, `worker` the isolated processes, each
with its own ledger, `child` the completed child graphs. `durable` is the checkpoint mode, both values of
which are initial states: with `AGENT_CHECKPOINT_MODE=off`, the default, `invoke_checkpointed_worker` runs
without a checkpointer and a `Rerun` with the same external run id finds nothing of earlier runs; with
checkpoints child graphs are all that survives a `Crash`, and a re-run finds them (`ReuseCheckpoint`). A refused reservation and
usage over the budget are exceptions in the code that `run_llm_task` turns into the heuristic
route, so in the model they do not end the worker either: what keeps the request within its
budget is that ceilings are reserved per wave and that results are compared again on return
(`Accepted`, `Aggregate`). `LoseWorker` is the case that the failure handler of a worker fails as
well. Estimated cost behaves like tokens; worker retries happen inside the worker process and
appear as its length.

### SupervisorHandoff

Single handoffs of `run_control_plane_supervisor` to one specialist. The circuit has no state in
the code: it is what a query finds in the audit history, so `circuit` is the number of consecutive
failures the query would count and whether the last one is old enough. Every write between two
stages may fail, before or after it was stored (`WriteFails`, `OutcomeFails`, `PersistFails`), and the
failure handler (`Contain`, `Report`) decides from what it finds in its local variables. `expired` is
the deadline all attempts share. After it elapsed time still counts: `Overrun` is that the run passes its
latency budget between the result and the check of it (`Reconcile`), the only place that looks at the time of
the run; the validation of the state in the handler (`Contain`) knows usage and the ids it lists, but adds up
only the durations of results. `calm` is the environment from some point on: the specialist and the
stores work and no deadline passes; only `CircuitRecovers` uses it.

### DiscordWorkspace

`IncidentWorkspaceRuntime.ensure` and `investigate`. A task works on the row it leased (`task[t].row`);
`session` says whether its PostgreSQL session, and with it the advisory lock, still exists. A
generation has at most one starter message and Discord gives the thread of a message the id of
that message, so generations stand for both ids. `flight` are requests whose caller gave up and
which Discord may still execute, `orphaned` the generations whose thread Discord made for a caller that no
longer held the lease. The two reads of a row with a starter and no thread are two actions (`CheckStarter`,
`FetchStarter`), and between them a late creation and a deletion leave two live threads; `OneThread` says
that this is the only way. `attempt` are the rows of investigations, `inquiry` the calls,
`triage` the runs, which go on when their caller is gone. A failed read of Discord ends the call
(`Abandon`). Archived and locked threads are not modelled.

### RecoveryOutbox

`flush` of `agent/recovery/outbox.py`, several at once. `seen` is the snapshot a flush read at its
start; only the compare-and-set of the claim looks at the row again. `visible` are the messages among
the last hundred of the channel, `late` the POSTs Discord may still execute, `posts` and `log` the
history of what was really created.

`SingleUseRequests` and `MCDiscord` each hold two modules that share no state. Their variable
`part` says whose behaviour it is; the other one stays in its initial state, where none of its fair
actions is enabled, so that a behaviour of the run is exactly a behaviour of one of the two.

## Runs

| Run | Checks | Bounds |
| --- | --- | --- |
| `publication` | `TypeOK`, `SettledLive`, `SafetyInv`, `LayersAgree`, `CompensationRestores`, `JournalBeforeMutation`, `LockReleased` | a full recovery against the loader or against dbt (`OneRival`), contents {d1, d2, Empty}: two raw inputs are needed to tell which one a layer was built from; weak fairness |
| `external` | `JournalInv`, `RecoveryOnPlan` | two attempts of one load, a raw recovery, and an uncooperative writer |
| `all_or_nothing` | `RecoveryAllOrNothing` is violated | one full recovery |
| `single_use` | `RecoveryInv`, `ApprovedState` | two plans (`Explored`), two processes, two contents, one foreign write, everything switched on |
| `approvals` | `ApprovalInv`, `OutcomesAreTrue`, `ProjectionCurrent`, `ImplementsSingleUse`, `RecoveryImplementsSingleUse`, `ClosureIsSafe`, `ApprovalsSettle` | one request of every kind, one operator, two DagRuns, two dates; one plan with two processes that may outlive their run, no clearing, API survives; fairness |
| `detached_process` | `NoMutationAfterClosure` is violated | one plan, one process, detached |
| `closure_gate` | `ClosureInv`, `ClosedOnProof` | one caller, two keys, one request, two data versions, two contracts, three revisions, a remediation linked either way, scheduled checks; no faults |
| `requests` | `PostedOnce`, `LateIsIgnored`, `RequestSettles` | one caller, one key, one request, uncertain Airflow, dying callers, failing tasks, clearing; fairness |
| `outbox` | `SyncInv`, `NoStepBack`, `FailureReopens`, `Converges` | one request, one report, three revisions, one run of the check, one delivery of the card outside the outbox, an alert that may be older than its control row; fairness |
| `fanout` | `WithinBudget`, `EvidenceInv`, `RerunContinues`, `RequestEnds` | three workers, one required, three plans, two at a time, two calls of 1 or 3 tokens each, one re-run, with and without checkpoints; fairness |
| `handoff` | `BudgetInv`, `OutcomeOnce`, `DeadlineIsHard`, `CircuitRecovers` | two concurrent supervisors, again and again, one retry, threshold two; fairness; deadlock checked |
| `discord` | `OneWorkspace`, `OneInvestigation`, `OutboxInv`, `FoundAgain` | two tasks, two interactions, two generations, two faults; two flushers, two events, one row per flush, two faults; fairness |

Several of these are conjunctions of named parts, each stated and explained where it is defined; the
text below speaks of the parts.

| Checked property | Parts |
| --- | --- |
| `SafetyInv` | the seven parts of the inductive invariant, `OneMutator` and `SettledLive` among them |
| `JournalInv` | `SingleUnresolved`, `OwnRowExpected`; *`AttemptsAreSound`, `HolderIsSound`* |
| `RecoveryInv` | `RecoveryControl`'s `TypeOK`, `SingleUse`, `RefusedNeverRuns`, `SuccessIsProven`, `OutcomesAgree`, `UncertainBlocksClosure`; *`OneProcess`, `PlansAreSound`, `JobsAreSound`* |
| `ApprovalInv` | `ApprovalControl`'s `TypeOK`, `NeverTwice`, `OnlyEligibleActs`; *`ClaimsAreOwned`, `EffectsAreCounted`, `InspectedIsOver`* |
| `OutcomesAreTrue` | `SucceededIsProven`, `FailedDidNothing`, *`ReportsAreTrue`* of `ApprovalControl`; `OutcomesAgree`, `UncertainBlocksClosure`, *`OneProcess`* of `RecoveryControl` |
| `ClosureIsSafe` | `ClosedOrApart` of `RecoveryControl`, what is left of `NoMutationAfterClosure` with detached processes |
| `ApprovalsSettle` | `RunsSettle` of `ApprovalControl`, `ApprovalSettles` of `RecoveryControl` |
| `ClosureInv`, `PostedOnce`, `LateIsIgnored` | `IncidentClosure`'s `TypeOK`, `ClosedIsQuiet`, *`NamesExist`, `RequestsAreSound`, `CapturesAreSound`, `GateIsProved`*; one POST per request, *`IntentIsClaimed`*; `NoRevival`, `CheckedOnce` |
| `SyncInv`, `NoStepBack` | `IncidentOutbox`'s `TypeOK`, `SyncedIsCurrent`, *`NewsIsRecorded`, `FlagsAreTrue`*; `NoRegression`, `ReopenIsNew` |
| `WithinBudget`, `EvidenceInv`, `RerunContinues` | `SpendBounded`, `AcceptedWithinBudget`, *`LedgersAreReserved`*; `SupervisorFanout`'s `TypeOK`, `DependencyRespected`, `RequiredEvidence`, `OncePerRun`, *`WavesAreOrdered`, `ProcessesAreCurrent`, `ResultsAreKept`, `VerdictIsKept`*; `ResumeSkipsDone`, `VerdictStable` |
| `BudgetInv` | `SupervisorHandoff`'s `TypeOK`, `AttemptsBounded`, `AcceptedInBudget`, `MemoryInBudget`; *`AttemptsCounted`, `ResultsKept`, `RowsCounted`* |
| `OneWorkspace`, `OneInvestigation` | `DiscordWorkspace`'s `TypeOK`, `OneStarter`, `OneThread`, *`MissedIsOrphaned`, `LeaseIsCurrent`, `RowsAreHonest`, `IntentIsFirst`, `LeftForGood`*; `OneTriage`, `CancelledNeverRan`, *`AttemptCovers`, `OneBlocks`* |
| `OutboxInv` | `OutboxTypeOK`, `AnnouncedOnce`, `AuditedFirst`, `DeliveredIsTrue`; *`SnapshotIsPast`, `AuditIsTrue`, `ClaimIsExclusive`, `FoundIsPosted`* |

The parts in italics are the strengthenings that the proofs below need; they are checked with the rest, so
that TLC sees on every instance what is proved for all. Each of the other parts, those of `SafetyInv` and the
type invariants apart, has a mutant aimed at it; `SafetyInv` has two.

Why the bounds suffice. In `PartitionPublication` every worker runs once and every journal
row is written by one execution, so the state space is finite without a bound on
revisions. `OneRival` leaves out the states in which all three writers are under way: in
`publication` the recovery meets one rival at a time, in `external` three workers meet, two of them
under one identity; more workers are covered by the theorems. The empty partition is one of the contents, with its
extra intent rule. In `RecoveryControl` two processes are the smallest number with a cleared run
beside a living one; one foreign write suffices for each of the gaps it can fall into, and with two
contents it can also restore the old one. Two plans can be open at once, approved at once and
run at once; `Explored` limits that part to behaviours without a foreign write, without closure, without the reconciler (which looks
at one execution at a time) and with answered POSTs; these are explored beside one open plan. `MaxWrites` and `MaxIncident` name
the remaining bounds. `approvals` asks of recoveries what is
eventually true, which an administrator who clears for ever would refute, so `MayClear` is off there and on in
`single_use`, which checks the same safety of outcomes. In `ApprovalControl` requests do not interact, so one suffices; two DagRuns
are a second executor beside the owner of the claim, and two dates the smallest partial backfill.
Versions are bounded by the life of a request. In `IncidentClosure` the constant `Events` says which parts of the
environment an instance includes, so that each run spends its states on the question it
asks; the clock has one value before, at and after a deadline, and two data versions are
enough for one write at any point of the capture or the confirmation. Three revisions in
`closure_gate` and `outbox` allow detection, closure and reopening. `MaxChecks` is one in `outbox`: an incident that began with an alert older
than its control row is reopened by a failure after its closure, and must not be by one selected before it. `MaxRequests`, `MaxTime`,
`MaxData`, `MaxContract`, `MaxRevision` and `MaxChecks` name these bounds; `RequestSettles`
speaks of requests whose deadline lies before the end of the clock. In `SupervisorFanout` the second call
of a worker can exceed its tokens only because the first one over-reported, which two calls of up to three
tokens allow; `MaxReruns` bounds re-runs. In `SupervisorHandoff` requests repeat without bound and the
failure count is capped above the threshold. In the two Discord modules `MaxFaults` and `MaxErrors` bound
lost answers, lost sessions and deaths: two allow a fault during the handling of another.
`MaxGeneration` bounds replacements, `Limit` is one so that a stuck row fills a flush.

What the instances do not reach is said here: a second revalidation request of one incident, and
the publication kinds `rebuild_derived_partition` and `inspect`, whose groups are
a suffix of the full recovery's and empty; the theorems cover every kind. Symmetry is used only where
no liveness is checked. Deadlock checking is off, except in `handoff`, because these systems
legitimately come to rest: workers end, plans are finished, incidents are closed.

Fairness. `PartitionPublication` assumes weak fairness of each worker's own steps: a
process that is not killed runs on, and every call it makes has a client timeout. Failures
are never fair. `RecoveryControl` assumes that the API process and the recovery processes
run on, that Airflow starts queued runs and notices finished ones, and, strongly, that the
reconciler gets to each execution it can inspect: it walks over all unfinished executions
on every tick. `ApprovalControl` assumes the same of the reconciler, weakly, and that child
runs end (they have timeouts); executors may die or stop anywhere. `docs/recovery-workflow.md` says DAG 90_06
is paused by default, so `ApprovalSettles`, `RunsSettle` and `FoundAgain` are statements about an
installation that enabled it. The same holds of
`Converges` and `FailureReopens`: the replay of the incident outbox is part of that DAG, and
`FairSpec` of `IncidentOutbox` assumes that some replay finds PostgreSQL, ClickHouse and
Discord working, so `Converges` says nothing of an event that Discord always refuses, which blocks the later
ones for ever. DAG 30 has no schedule: each run of the checks triggers one run of the producer, so `FairSpec`
assumes one look per run (`FirstLook`) and `FailureReopens` speaks only of a failure that is looked at when
`dq.alerts` shows the closure. `RequestSettles` assumes that somebody keeps asking for the request (there
is no timer in the code: expiry happens in `get_revalidation` and `_latest_request`), that
Airflow answers some of the calls and that some dispatches survive to their last
transaction; nothing is assumed about the DagRun. `SupervisorFanout` assumes that a live parent goes on and
that a worker ends, because `subprocess.run` kills it at its timeout. `SupervisorHandoff` assumes that a live
process goes on and that time passes; a specialist may hang for ever until its SIGALRM. `CircuitRecovers` also
assumes that requests keep coming, since only a new request probes a half-open circuit. `RecoveryOutbox`
assumes that a flush that is up goes on by a step that is not a fault, and that flushes are repeated.
`DiscordWorkspace` is checked for safety only.

### What the violated properties show

* `RecoveryAllOrNothing`: `publish_group` compensates a completed prefix, but the checks at
  the start of `compensate_partition` read ClickHouse; when the outage that failed the
  later member also fails these reads, the exception is an ordinary one, `lock` aborts the
  remaining rows, and raw stays replaced alone with nothing unresolved.
* `NoMutationAfterClosure` with detached processes: the reconciler believes the failed run.
  The publication still happens at most once and only on the approved state.

### Disagreements stated only here

Met while modelling; the models contain this behaviour, and the properties say what still holds.

* `service.py:233`: the last transaction of `dispatch_execution` skips only running, succeeded and
  failed executions, so a slow dispatcher may overwrite a recorded `unknown` with `queued` and a cleared
  run then starts the pipeline again, although `runtime.py:89` says such an execution "cannot be
  replayed". `SingleUse` still holds: stages, journal and pinned revision refuse the second pipeline.
* `incident_resolution.py:196`: `synchronize_incident` handles the three sinks of each event in one
  loop that ends at the first failure. Without Discord configuration the oldest event that needs
  Discord keeps all later ones out of `dq.alerts`, although `docs/local-operations.md:663` says the
  two "synchronize separately". `Converges` therefore assumes a working Discord.
* `runtime.py:1956` (supervisor) says over-budget output is not accepted "into parent state or durable
  incident memory", and `runtime.py:1677` that latency budgets "cannot be bypassed". When a write fails between
  the result and its budget check, the handler stores the result in memory and puts it into the parent state.
  The state rejects it when its usage is over budget, but not when the run took too long, because
  `SupervisorState` sums the durations of results only. `MemoryInBudget` and `AcceptedInBudget` state exactly
  these exceptions.
* `fanout.py:470`: a child graph is resumed "without repeating completed work"; that holds with checkpoints,
  which are off by default. `RerunContinues` says for both modes what is repeated, `OncePerRun` what is not.
* `workspace.py:202`: `ensure` promises "one durable public thread" per alert and guild. A late `create_thread` may
  land after the thread was looked up in vain (237) and its starter be deleted before it is looked up (240); a
  new generation (242) then stands beside a live thread. `OneThread` and `MissedIsOrphaned` say that nothing
  else leads there.
* `resilience.py:181` speaks of "one half-open probe"; concurrent requests all pass a half-open
  circuit, since the decision is a query. `CircuitRecovers` does not depend on it.
* `docs/local-operations.md:412`: approvals are changed with a version comparison; the reconciler's
  UPDATE compares only the execution status. `ImplementsSingleUse` holds because that status alone
  decides which outcomes are still possible.
* `approved_actions.py`: a non-zero exit of `airflow dags trigger` is recorded as `failed` although the
  run may exist; `FailedDidNothing` is therefore stated for provider calls only. A provider's answer that cannot be
  read, or another 2xx than the expected one, reaches the general `except` (451) and is recorded as `failed` too,
  although 438 to 450 keep every outcome that "could not be confirmed" as `unknown`. `FailedDidNothing` names this exception.
* `publication.py:457`: the in-flight record is written outside the `try`. When it is committed and its
  acknowledgement lost, and the abort that follows fails on the same connection (246), the error is an ordinary one,
  `runtime.py:128` records `failed`, and the incident can be closed although a row in flight remains, for which
  `docs/local-operations.md:653` says that "uncertain remediation also blocks closure". Live data is untouched, and
  the row keeps every later writer of the date out until somebody repairs it, for which there is no operation.
* `approval_control_store.py:226`: "Creation shares the closure lock", and a proposal for a closed incident is refused
  with "new remediation proposals are blocked", but only if its scope carries `alert_key`. A backfill request that
  has only dates, which `remediation_blockers` would count, is accepted and runs after the closure (`ClosedIsQuiet`).
* `incident_resolution.py:251`: `synchronization_pending` is false as soon as no event is pending. A delivery
  outside the outbox may patch the card afterwards with a row it read before, and the card then shows an older
  lifecycle until the next event (`SyncedIsCurrent`).
* `generate_alerts.py:245`: a failure that the producer looks at while `dq.alerts` still shows the incident as
  active is dropped; after the closure is projected nothing selects it again, unless the check fails once more
  (`FailureReopens`).
* `incident_resolution.py:51`: `initialize` stores revision 1 of an incident without an event, so it has a revision of
  which the outbox and the audit log never hear (`NewsIsRecorded`).
* `recovery/outbox.py:15`: rows whose message cannot be found stay open, and thirty of them fill
  every flush; `FoundAgain` holds only while fewer are stuck.

## Proofs

Every safety property and every refinement that a run checks is stated by a theorem, for every value of the
constants: any number of workers, plans, requests, processes, runs, dates, events, generations, any bound,
any plan of a fan-out. No theorem assumes anything but the named assumptions of its module and the one
hypothesis listed here.

| Module | Theorem | Property | Hypothesis |
| --- | --- | --- | --- |
| `PartitionPublicationProofs` | `TypeCorrect` | `TypeOK` | - |
| | `SafetyInvariant`, `LiveMatchesJournal`, `MutualExclusion`, `MutationIsJournaled` | `SafetyInv`, `SettledLive`, `OneMutator`, `JournalBeforeMutation` | `~ExternalWriters` |
| | `JournalIsSound`, `RecoveryPublishesOnPlan` | `JournalInv`, `RecoveryOnPlan` | - |
| | `LayersStayTogether`, `CompensationIsSound` | `LayersAgree`, `CompensationRestores` | `~ExternalWriters` |
| `RecoveryControlProofs` | `RecoveryIsSound`, `ReplacesWhatWasApproved` | `RecoveryInv`, `ApprovedState` | - |
| | `ClosureEndsRecovery`, `RecoveryIsSingleUse` | `MutatesAfterClosureOnlyApart`, `ImplementsSingleUse` | - |
| `ApprovalControlProofs` | `ApprovalIsSound`, `OutcomesAreProven`, `ProjectionConverges`, `SingleUse` | `ApprovalInv`, `OutcomeIsTrue`, `ProjectionCurrent`, `ImplementsSingleUse` | - |
| | `AllOutcomesAreTrue`, `NothingAfterClosure`, `RecoveriesAreSingleUse` | `OutcomesAreTrue`, `ClosureIsSafe`, `RecoveryImplementsSingleUse` | - |
| `IncidentClosureProofs` | `ClosureIsSound`, `OnePost`, `LateHasNoEffect`, `ClosureNeedsProof` | `ClosureInv`, `PostedOnce`, `LateIsIgnored`, `ClosedOnProof` | - |
| `IncidentOutboxProofs` | `SyncedIsTrue`, `OldNewsStaysOld` | `SyncInv`, `NoStepBack` | - |
| `SupervisorFanoutProofs` | `EvidenceIsSound`, `RerunIsContinuation`, `BudgetIsKept` | `EvidenceInv`, `RerunContinues`, `WithinBudget` | - |
| `SupervisorHandoffProofs` | `BudgetHolds`, `CircuitToldOnce`, `NothingAfterDeadline` | `BudgetInv`, `OutcomeOnce`, `DeadlineIsHard` | - |
| `DiscordProofs` | `OutboxIsTruthful`, `WorkspaceIsUnique`, `InvestigationIsUnique` | `OutboxInv`, `OneWorkspace`, `OneInvestigation` | - |

The hypothesis is a switch of the environment, and both values are modelled. `~ExternalWriters`: nobody
writes a live partition behind the protocol's back; with such a writer `SettledLive` is plainly false, and
run `external` checks what still holds. Nothing is assumed of processes and runs: they may outlive each other and be
cleared. A recovery can then touch a closed incident, as run `detached_process` shows, and
`ClosureEndsRecovery` says which one can.

Assumptions on constants (evaluated by TLC in every run): names that stand for "nobody", "no row", "no plan",
"no key", "absent" are not among the values they must differ from; functions and switches are well typed;
bounds are natural numbers, and positive where the code starts counting at one; a fan-out has a finite,
non-empty set of workers (`FanoutAssumption`).

### The arguments

**Publication, safety.** `SettledLive` is not inductive: nothing in it says why a second writer cannot
publish between a first writer's command and its `finish`. The lock does not say it
either, because a session can be lost. `SafetyInv` states the real reason: a mutating
worker's in-flight row stays in the journal (`MutatorRow`), and since `Acquire` refuses
unresolved rows no other session can take the lock meanwhile (`MutatorLock`), so there is
one mutator (`OneMutator`). A command that may still land keeps its row uncertain
(`LateUncertain`) and leaves nobody else mutating or holding the lock beyond `Mark`
(`LateAlone`), so it cannot land under a later publication; therefore what was verified is
still live when the revision is committed (`VerifiedLive`). Steps that leave journal, live tables and late
commands alone are covered by one lemma (`QuietStep`), steps of a worker that is alone in
the protocol by another (`AloneStep`).

**Publication, journal** (`JournalInd`). This part does not speak of live tables, so it needs no assumption
about other writers. Every journal write needs the session lock, hence what its holder found out about the
rows of its execution stays true until it loses the session (`HoldsLock`): while it publishes, the members
of its group before the current one are published and those after it are prepared (`InGroup`), and its
revision counts up from its plan (`OnPlan`). `RecoveryOnPlan` counts members with `Cardinality`; the lemmas
from `RankIsOrder` to `NextMember` show that the next member has the next position.

**Publication, contents** (`ContentInd`, on top of the two others). What an attempt put into its stages is
never overwritten (`StagesKept`), and while it holds the lock nobody else settles a table, so the mart it
publishes last was built from the raw input that is settled by then (`MartHolder`, `MartAgrees`). Nothing is
uncertain while an attempt builds (`BuildsOnSettled`), which is why its row remembers what was settled.
`ContentInd` is not part of a checked property; before it was proved, TLC found it true in all states of
the instance of `publication` and of one with two attempts of one dbt execution beside a loader.

**Recovery control.** The invariant is by records: for each plan one predicate over its draft, approval,
execution, dispatch, run and publication (`PlanGood`), for each process one over the process and its plan
(`JobGood`), and that at most one process is in the lock scope. A step moves one plan or one process, so one
frame lemma for each (`PlanStep`, `ProcessStep`) leaves a single record to look at. What makes it
inductive is that `revision` stays the pinned one as long as a process is in the lock scope, and that a
process between `BeginPublication` and its outcome holds an uncertain publication. Both predicates say more of a
plan that did not come apart from its run: there the scheduler, the process and the reconciler know of each other
in time, so nobody reports an outcome under a working process. Of a plan in `apart` the weaker `Allows` remains, that its
approval is in flight or was reported failed: success needs the stored evidence of the process. That is
all that is needed for `ClosureEndsRecovery`, because an approval in flight keeps the incident open. The refinement maps
every step to at most one abstract one (`StepKinds`); a report is final by `OutcomeKinds`, and a plan that joins
`apart` does nothing else in that step but, as the case may be, end its run (`ApartKinds`).

**Approval control.** Also by records: a row with its children and effects (`RowGood`), a DagRun with the
row it works for, and what the reconciler has read. A run that acts owns the claim of its row
(`ClaimsAreOwned`), so a row has one acting run, and a run the reconciler inspected acts no more
(`InspectedIsOver`), so its report cannot be overtaken. `SingleUseRequests` is
proved by the theorems of the two modules: a behaviour of it is a behaviour of both (`BothSpecs`).

**Incident closure.** Key-linked remediation and closure exclude each other under the lifecycle lock, which gives
`ClosedIsQuiet` together with the fact that whatever is proposed for a closed incident was `late`. A proof must survive what happens after it: `RequestsAreSound` says of which data and
episode a stored verdict speaks, `CapturesAreSound` what the running check has seen, and `GateIsProved`
carries both into the confirmation while it holds the lifecycle lock. One lemma per group of actions and part
of the state; `Evolves` names what no step undoes in a row.

**Incident outbox.** A sink is written before the flag that says so, and with the incident as it is. So a
flag of an event about the current revision is true of its sink (`FlagsAreTrue`), and since that revision
always has its event (`NewsIsRecorded`), nothing pending means current. The other writers of the card add that
everything they hold, and everything the delivery state says, is a row `dq.alerts` once showed (`RowsInOrder`,
`CardsInOrder`), and that, unless the card is stale, a delivery state or a writer that has the row `dq.alerts` has
now is right about the card (`CardIsTracked`), so that skipping a card whose recorded content is the same is right. An incident without news
is the adopted row (`TakeOverStep`).

**Fan-out.** The waves of a plan are a recursive function; its recursion equation is proved first
(`CompleteRec`), from the well-foundedness of the natural numbers, because the library's theorem about
recursive functions cannot be instantiated. Then a process belongs to the wave its parent is in
(`ProcessesAreCurrent`), waves start when their upstream waves ended (`WavesAreOrdered`), and results are
those of the child graphs (`ResultsAreKept`), which makes a re-run that still knows them repeat its verdict
(`VerdictAgain`). The
budget is proved without a sum over workers: provider calls are a set of (worker, number) pairs inside
the product of the reserved workers and the calls each was given (`SpendCounted`, `ChargesFit`).

**Handoff.** Nothing is shared between requests but the circuit, so the invariant is one predicate per run
(`RunOK`): where it is, how often it started, whether its outcome row was written. `CircuitToldOnce` needs all
three: the handler writes the outcome only if the normal path did not, and whether it did must be
visible in its local variables at every step that can fail.

**Discord.** For `RecoveryOutbox`: a snapshot is stale in one direction only (`SnapshotIsPast`), and
the right to post is the step of the row out of `pending`, which happens once (`ClaimIsExclusive`). For `DiscordWorkspace`: a session
implies the lock and the row as it is in the registry (`LeaseIsCurrent`); a starter is sent only under an intent that is already
stored, by the one task that stored it (`IntentIsFirst`); and a generation is left only when nothing but a
creation already under way can still give it a thread (`LeftForGood`, `MissedIsOrphaned`). A running triage is covered by its attempt (`AttemptCovers`), and at
most one attempt blocks others (`OneBlocks`).

Only model-checked: the liveness properties `LockReleased`, `ApprovalsSettle`, `FailureReopens`, `Converges`,
`RequestSettles`, `RequestEnds`, `CircuitRecovers` and `FoundAgain`, because fairness and ENABLED are
outside the proof system's reach. What the violated properties show is TLC's as well.

## Plan

1. An abstract specification of publication (a partition and its revision change together,
   once, or become uncertain) that `PartitionPublication` implements, with the step simulation on top of
   `SafetyInv` and `JournalInd`.
2. The summary of publication that `RecoveryControl` uses (what a group leaves behind is published, restored,
   partial, prepared, uncertain or aborted, and nobody enters over an unresolved row) as theorems about
   `PartitionPublication`.

Done so far: publication, recovery control, approvals, incident closure, the incident and recovery
outboxes, the supervisor and the Discord workspace are modelled and checked, and every safety property
and refinement that is checked is proved.

## Not modelled

Several dates at once (lock, revision and journal are per date and do not interact);
manual resolution of unknown journal rows (the code has no operation for it); the content
of checks, reports, prompts and messages; time outside deadlines.

The larger part of the repository by lines has no control state that could go wrong in the ways
a model checker finds: the front ends (`apps/streamlit`, `apps/api`, the web application, the MCP
server) and `apps/discord_bot/formatters.py` render and pass requests on; `apps/common/control_plane.py`
collects read models; `agent/graph.py` is a fixed sequence of prompts and queries whose checkpoints LangGraph
owns; `scripts/verify_*` are acceptance scripts; checks, profiling, schema drift, seeding and
snapshots are deterministic SQL or serialisation that append rows. The components marked
`not_modelled` in `PROJECT.json` say why each is left out.
