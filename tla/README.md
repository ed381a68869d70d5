# ForgeAPI: a TLA+ verification project

ForgeAPI accepts *intents* (deploy, destroy, drift check) for cloud resources
described by Terraform patterns, keeps them in a transactional ledger, runs plan
and apply as Temporal workflows on worker processes, and groups resources into
apps with rollout, failover and teardown. Business units (teams) say who may
deploy what, where and for how much; patterns come from git; an older deployments
API shares the Terraform runner. This directory holds the TLA+ modules that model
it, the TLC configurations that check them, and TLAPS proofs.

Every definition names, in `PROJECT.json` under `map`, the source lines it
translates. Paths below are relative to `src/`.

## 1. Inventory

| Component | State it keeps | Operations | Module |
|---|---|---|---|
| Operation ledger (`app/ledger.py`) | tables `operations`, `resources` of `operations.sqlite`; in-memory rows that outlive a transaction | accept, execute, discard, claim, finish, interrupted, reconcile, expiry | `OperationLedger`, `OperationLifecycle` |
| Intent validation and policy (`app/policy.py`, `app/schema.py`, `app/placement.py`) | none; reads the ledger, the team record and the catalog, and hands a resolved intent to the ledger | validate, resolve_refs, budget inputs | the `Validate*` actions of `OperationLedger` |
| Drift checks and sweep (`app/drift.py`, `DriftSweepWorkflow`) | buckets of the sweep, outstanding count, refusal stamps | one check; a sweep of a batch per interval | single checks in `OperationLedger`; `DriftSweep` |
| Operation workflow, activities, dispatch (`app/operation_workflow.py`, `app/operation_activities.py`, `app/dispatch.py`, `app/worker.py`) | Temporal workflow per (operation, phase), saved plan files, Terraform workdir | dispatch, run_operation_phase, mark_operation_uncertain | `PhaseExecution` |
| Cost history (`app/cost_history.py`) | none: replays operations | replay, build | `CostHistory` |
| Apps (`app/apps.py`, `app/app_activities.py`, app part of the ledger, rollout and teardown workflows) | table `apps`, member and router operations | accept_app, accept_router, fail_app, failover, teardown, execute_many | `AppRollout` |
| Teams (`app/team_admin.py`, `app/team_store.py`, `app/team_check.py`, `app/tenants.py`, `app/cloud_targets.py`) | tables `teams`, `team_revisions` | create, replace, revert, archive, unarchive, import; placement of requests | `Teams` |
| Deployments API, legacy (`app/legacy.py`, `app/db*.py`, `app/activities.py`, `app/workflows.py`, `app/recovery.py`, `app/budgets.py`) | deployment records with heartbeats | create, retry, update, destroy, stale sweep | `Deployments` |
| Terraform runner (`app/terraform.py`) | workdir, saved plan, state lock | init, plan, apply, destroy, forced unlock | inside `Deployments` and `PhaseExecution` |
| Catalog and promotion (`app/catalog.py`, `app/promotion.py`, parts of `app/policy.py`) | checkouts on disk, cached findings | resolve, checkout, check, promote, upgrade | `PatternCatalog` |
| Python client (`app/client.py`) | retained unconfirmed requests | submit, execute, discard | `ClientSession` |
| Static pattern checks, contracts, schemas | none: pure functions | check, validate | not modelled |
| Audit, logs, identity, settings | append-only or none | I/O | not modelled |
| Console, engine supervisor, emulator, examples | none shared | UI, process start | not modelled |

**Interactions.** An API handler validates an intent (reading the resource row
through the ledger, the catalog and the team), then calls `ledger.accept` in one
`BEGIN IMMEDIATE` transaction, and only then dispatches the plan phase to
Temporal. The workflow runs one activity per phase on a worker; the activity
*claims* the operation in the ledger, runs Terraform with no transaction open,
and *finishes* it in another transaction. If the activity fails or times out,
the workflow runs a second activity that records the operation as interrupted.
The caller then executes or discards the reviewed plan, and an operator
reconciles operations left `uncertain`. SQLite serialises the transactions;
nothing else orders API processes, workers and Temporal.

**What is hard.** (1) a request is validated against one state and accepted in
another; (2) activities outlive their timeout and report late, after the
operation was marked uncertain, reconciled, or its resource given to another
operation; (3) plans expire, and an expiry happens inside somebody else's
transaction; (4) reservations are taken at acceptance and must be given back by
every path that can fail; (5) references between resources are checked at three
different moments; (6) side effects on files follow the commit that justifies
them; (7) dispatch may be lost or duplicated; (8) a git checkout is shared by
threads that may die half way, and tags move under the requests that read them;
(9) the older deployments API writes its records unconditionally, so its runs are
ordered by nothing but timeouts; (10) an answer that is lost, or given by a
gateway, leaves the caller to decide whether to repeat the request.

**What makes the parts correct.**

- *Ledger*: one unfinished operation per resource; the reservation of a
  resource is exactly what its deployed and requested definitions justify; the
  budget is never exceeded by concurrent acceptances; the row shows the last
  change that succeeded; changes of a resource form one chain; drift checks
  change nothing but the verdict; a finished operation never changes.
- *Phases*: an apply runs at most once and only on the plan the caller reviewed;
  a saved plan survives while its operation is `planned`; a dispatched phase
  ends.
- *Apps*: a router that is deployed, or on its way, finds every replica it reads
  from; the primary and the `destroyed` an app reports are true of what is
  deployed; nothing fails a ready app; a teardown begins when nothing can still
  change, and is driven to its end.
- *Drift sweep*: at most a batch of checks outstanding; a refusal is recorded once
  per interval; every ready resource is checked in its turn, unless its users'
  operations keep holding it.
- *Teams*: no lost update; a living resource stays placed where its team's
  document says; budgets are overrun and groups shared only when acknowledged;
  plans older than an archive stay executable.
- *Deployments*: a record is worked on by one run and tells the truth, and the
  budget holds, as long as nobody ended the record under a run that was still
  open; nothing stays in flight.
- *Catalog*: a promotion carries a commit its source was deployed from; nothing
  reads an unfinished checkout.
- *Client*: a refusal did nothing of what was asked, a confirmation took effect, and what is
  retried is started in the end.

The hazards of `PROJECT.json` list these at their lines, with the properties
that cover them, or the reason why none does.

## 2. Modules and how they correspond to the code

### OperationLedger

The two tables are functions: `ops` from request keys to operation rows,
`resources` from identities to resource rows. An operation is named by the
(actor, idempotency key) that created it, because the table is UNIQUE on that
pair; a replayed request finds its operation and changes nothing (it is the same
step as a refusal, `DropRequest`). The rows keep the columns and body fields
that some guard reads or some property tells apart; names, timestamps, inputs
and audit events are dropped. `digest` says whether a plan digest is recorded
and `aged` whether the plan is older than `FORGEAPI_PLAN_MAX_AGE_HOURS`.

Each ledger function runs in one transaction and is one action. Two things the
transactions do not cover are variables of their own:

- `drafts`, the resolved intents: what validation read, to be accepted later
  (or never). They carry the operation the row named at that time.
- `claims`, what the worker activities hold: the operation and the state they
  claimed it in. A claim survives the interruption of its operation, so a late
  result is a step of the model (`LateResult`) and so is a lost worker.

| Action | Code |
|---|---|
| `ValidateCreate`, `ValidateUpdate`, `ValidateDestroy` | `policy.validate` |
| `ValidateDriftCheck` | `drift.accept`, `drift.intent` |
| `Accept`, `AcceptOverExpired` | `ledger._accept`; the second is the path that expires the plan blocking the resource first, in the same transaction |
| `Execute`, `ExecuteExpired`, `Discard`, `PlanAges` | `ledger.execute`, `ledger.discard`, the clock |
| `ClaimPlan`, `ClaimApply` | `ledger.claim` |
| `FinishPlanned`, `FinishFailed`, `FinishSucceeded`, `FinishUncertain`, `FinishDriftCheck`, `LateResult` | `ledger.finish`, by outcome; `Holds` is its fence |
| `Interrupted` | `ledger.interrupted` |
| `ReconcileSucceeded`, `ReconcileFailed` | `ledger.reconcile` |

All resources share one business unit and environment, so the budget is one
number. `Referenceable` and `Copyable` are `reference_error` and the stricter
check of `resolve_refs` (outputs must exist to be copied).

### OperationLifecycle

The abstract promise: the state diagram of the documentation, and one holder
per resource. Moving along the diagram is possible only while holding. The
refinement mapping of `OperationLedger` keeps the states and maps the holder to
the unfinished operation of the resource. `Replace` is the one step that is not
obvious from the documentation: an expired plan gives way to its successor in
one transaction.

### PhaseExecution

Extends the ledger: each of its actions is one ledger transaction with what
happens around it, or a step between two transactions. New state:

| Variable | Stands for |
|---|---|
| `phase` | the workflow of each (operation, phase): not started, waiting for its activity, about to record an interruption, done |
| `step` | where the activity of an operation is between its transactions |
| `orphans` | Terraform commands that outlived their worker process |
| `workspace`, `file` | the directory of a resource: the definition it was prepared for, and the saved plan `tfplan` |
| `infra` | the operation whose plan last changed the real infrastructure |
| `digest`, `consumed` | the plan whose digest was recorded and shown to the caller; the plan Terraform actually began to apply (history) |
| `unlinks` | expired blockers whose plan file the API process is still to remove, after its commit |

| Action | Code |
|---|---|
| `Dispatch`, `PhaseFails`, `PhaseTimesOut`, `Mark` | `dispatch.py`, `OperationPhaseWorkflow`, `mark_operation_uncertain` |
| `StartPlan`, `StartApply` | the activity's `ledger.claim` |
| `Prepare`, `WritePlan`, `ReportPlanned`, `PlanFails`, `ReportDriftCheck` | `terraform.prepare`, `terraform plan`, and the ways planning ends |
| `CheckPlan`, `ApplyBegins`, `ApplyRefused`, `ApplyCompletes`, `ApplyBreaks`, `RemoveApplied`, `RemoveFailed` | the digest check, `terraform apply`, the unlink after it, and the unlink of `fail` |
| `Report` | the activity's last transaction, or a result that is fenced |
| `WorkerDies`, `OrphanEnds` | loss of a worker with and without a command that survives |
| `AcceptRequest`, `RemoveExpired`, `ReleasePlanFile`, `ReleaseLost` | the API's ledger calls with the removal of plan files, before or after the commit as in the code |

The saved plan is a record of who planned, the definition found in the
workspace, and the infrastructure it was computed against: that is what its
digest tells apart and what Terraform compares before it applies. Terraform's
state lock (`Locked`) and its refusal of stale plans are external. Initialising
a workspace is one step with preparing it; a surviving `terraform init` changes
nothing that the properties tell apart. Temporal never reuses a workflow id, so
dispatching again changes nothing; the retry that the API tells callers to make
is what makes `Dispatch` possible before the request that accepted the operation
has returned.

Two constants describe the environment and are not facts about the code.
`CarefulOperator` says that an operator reconciles only when nothing of the
operation is running and reports what happened: `reconcile_operation` in
`main.py` expects the verdict of a human who has inspected "Terraform state and
provider evidence themselves", and the code cannot check it. `ApiCrashes` lets an API process die between removing a plan
file and committing.

### AppRollout

One app over its member operations. The ledger of members is abstract: an
operation has a state and moves along the edges of `OperationLifecycle`
(`Works`), its resource is the third part of its name, and the names are the
system keys under which the code accepts it. The row of a replica is read off
its operations (`Deployed`, `Referenceable`, `LastDestroy`); the router's row is
the variable `deployed`, the primary it was given when it was last applied.

| Variable | Stands for |
|---|---|
| `app`, `target` | the app's row: `error`, the number of teardowns, whether the current one has its replica destroys (`linked`) and an error (`stopped`); the primary of each failover |
| `held` | members that a drift check keeps busy |
| `requests` | failovers and destroys that were validated and not yet accepted |
| `outstanding` | attempts of workflow activities that may still write, with the replica rows they were validated against |
| `workflow` | where the rollout and the teardown workflow are |
| `dispatched` | operations whose plan was started |

| Action | Code |
|---|---|
| `Submit`, `DispatchApp`, `DispatchTeardown`, `DispatchFailover` | `submit_app`, `destroy_app`, `failover_app` and their retries: dispatches may stop half way |
| `ValidateFailover`, `AcceptFailover`, `ValidateDestroy`, `AcceptTeardown` | `apps.failover`, `apps.destroy` and the ledger transactions they end in |
| `Approve`, `ExecuteMember`, `Release` | `apps.approve` with `execute_many`; `POST /operations/{id}/execute` of a member; discards and expiry |
| `Looks`, `TimesOut`, `Tries`, `GivesUp`, `WorkflowEnds` | the polling loops of `AppRolloutWorkflow` and `AppTeardownWorkflow` |
| `AcceptRouter`, `AcceptReplicaDestroys`, `Fails`, `RefusedForNow` | what one activity attempt does: accept, find it done, record a refusal or a failure, answer `retry` |

`derive_state`, `derive_teardown_state`, `current_router`, `primary_of`, `gate`
and the checks are the functions of the same names. Three representations need a
word. Saving the app row changes `updated_at`, so every request validated
before can only be refused: `Saved` drops them. An element of `outstanding`
stands for one or more attempts of the same call, so a write may leave it there
(a retry, or an older attempt that timed out), and an answer may be lost. A
workflow that died takes no more steps, which needs no state of its own; that it
died shows when a dispatch starts a new run.

### CostHistory

Extends the ledger with no state of its own. `replay` rebuilds what a resource
reserved from its operations alone, as `cost_history.replay` does: `initial`,
`accepted` and `moves` are its three rules, `Held` follows the chain of changes.
The code ends a history that disagrees with the row by a made-up step;
`ReplayExplainsRow` says that the step is never needed.

### Teams

Every administration endpoint and every acceptance is one transaction and one
action. What is not atomic is a variable: `forms` holds the revisions an
operator has read and sends back as `If-Match`, `drafts` the requests validated
against the mapping and not yet accepted, `rows` the resources with their
unfinished operation, whose plan is executed later still.

| Action | Code |
|---|---|
| `Read`, `create`, `replace`, `revert`, `archive`, `unarchive`, `import_teams` | the endpoints under `/admin/teams` and `team_admin` |
| `_gate`, `MovesResources`, `Warnings`, `_final`, `_stored` | the review of a write: errors that refuse it, warnings that must be acknowledged, the mapping as it will be, the `If-Match` test |
| `ValidateCreate`, `ValidateUpdate`, `ValidateDestroy`, `accept`, `Refuse` | `policy.validate` with `tenants.place` and `cloud_targets.select`; `ledger._accept` with `_check_placement` |
| `execute`, `Succeed`, `Fail` | the approval with its archive check, and the end of an operation |

A document has groups, patterns and environments; an environment has a legacy
subscription, targets per cloud, groups and a budget. Rules that refuse a
document by itself are left out: the documents of an instance satisfy them. The
field `revived` marks a resource brought back by a request validated before its
destroy finished (see the disagreements below); placement then is not judged.

### Deployments

| Variable | Stands for |
|---|---|
| `record` | the deployment records: state and what was asked for |
| `agreed` | what each record was last accepted with (history) |
| `request` | what each request in service is at: what it has read, or has stored, or that it awaits its dispatch |
| `job` | the runs: workflow step, activity, what it read, and the worker it is on |
| `saved` | on each worker's disk, the saved plan and the stamp beside it |
| `lock`, `infra` | Terraform's state lock, what exists |
| `listed` | records the sweep has read as stale and not yet written |
| `abandoned` | records that somebody ended while a run of them was open (history) |
| `mislabelled` | deployments of which a disk may hold a plan under an older plan's stamp (history) |

| Action | Code |
|---|---|
| `create_deployment`, `retry_deployment`, `update_deployment`, `destroy_deployment` | the handlers of `legacy.py` up to their first write: what they read and check |
| `Create`; `Revalidate`, `Respec`; `Audited`, `Accept`, `AuditUnavailable` | their writes, each a transaction of its own: `db.create`; `_respec`, its second validation and `db.respec`; the audit event, and the `db.update` that puts the record in flight |
| `Dispatch`, `DispatchFails`, `ApiStops` | `_start`: the workflow starts, or raises (started or not); a request is lost, or its process stops, between any two steps |
| `Load`, `Plan`, `Planned`, `Stamp`, `Apply`, `Destroy`, `Applied`, `Report`, `Fail`, `WorkerStops` | the activities over `terraform.py`, each attempted once; writing `tfplan`, writing `tfplan.fingerprint`, applying, and removing the two are separate steps |
| `Ack`, `Timeout`, `mark_failed` | the workflows; an activity that timed out goes on |
| `List`, `sweep` | `recovery.sweep`: reading and writing are two steps |

A handler has no await between its reads and its dispatch, so requests of one
process do not interleave there, while workers and the sweep do. A retry or an
update stores the new spec before it sets the state. Whatever fails in between
leaves a settled record that shows a spec nobody applied (a `succeeded` one,
after an update), and that is why `RecordIsTrue` compares what exists with
`agreed` and not with the record's spec. `mislabelled` is the other exception that
the code makes: the plan and its stamp are two writes (section 3 says what can
follow).

`Locks` is the forced unlock: a command that finds the lock held takes it over.
A deployment's workspace is on the worker that ran it, so `apply` plans again
where no matching plan is (`is_saved`). `Prepares` may empty it: what tells one
source from another is not modelled. Business units are taken to be configured;
without them a retry keeps its spec, which is one of the specs it may be placed
with.

### DriftSweep

The activity `sweep_drift` with each ledger call as a step of its own (`Count`,
`List`, `accept_system`, `refused`, `Stamp`, `Return`), up to three attempts of
it of which one may have outlived its timeout, the workflow around it
(`Dispatch`, `Wake`, `Exhausted`), the worker's start of it, and the checks and
users' operations that hold resources meanwhile. Time advances in ticks of the
backlog sleep; ages stop at the tick where a resource is due and buckets are
counted back from the current one, which keeps the state finite and lets the
liveness property be about endless runs. `Held` says that a user's operation
holds the resource; nothing makes it end.

### PatternCatalog

Versions are tags whose commit their authors may move. A request reads a row
(`ReadSource` of a promotion, `ReadRow` of a change), resolves its version,
compares the commit it expects, takes the lock of the checkout (`Lock`, `Write`,
`Touch`, `GitFails`), checks the pattern or finds it in the cache, and is
accepted. `Restart` is the loss of the API process with its threads and caches;
the files stay. A git command that outlives a killed API process is not modelled:
`Restart` ends it too. A git that is killed may leave `index.lock` or `shallow.lock`
behind, which makes later fetches of that checkout fail until somebody removes
it: that is another `GitFails` for the properties here, none of which promises
that a checkout succeeds in the end. An upgrade validates against the row again
after it read the source, so a row that changed in between is refused by the
ledger (`accept_change`).

### ClientSession

One operation, its phases in Temporal, and the requests of a caller under way at
once. The server's side of a request is `at` (sent, committed and dispatching,
or its answer), the client's side is `told`; both advance on their own, so the
client may give up while the server goes on. `_request` sorts the answers as the
client does: done, refused (`ClientError`), unconfirmed (`AmbiguousMutation`).
`did` says whether a request did what it asked for. An execution that is refused
because its plan has expired did not, although it leaves the operation `failed`.

## 3. Runs

| Run | Question | Bounds |
|---|---|---|
| `one_resource` | Do reservation, row and history stay exact under every interleaving of three requests, are drift checks harmless, is `finished` final? | one resource, 3 requests, 2 definitions (cost 1 and 2), all three actions |
| `two_resources` | Do concurrent acceptances stay within the budget, and does the ledger implement the lifecycle, does the replayed cost history end at the row's amount? | 2 resources, 3 requests, limit 3: one large and one small definition fill it, two large ones do not fit |
| `phases` | Does one operation work in a workspace at a time, is only the reviewed plan applied, is the infrastructure what the ledger says? | one resource, 3 operations, careful operators, API crashes |
| `phase_liveness` | Does every dispatched phase leave its queued and running states? | one resource, 2 operations, no operator assumption |
| `app_rollout` | Does a router always find its replicas, are the reported primary and `destroyed` true, does nothing fail a ready app, does a rollout end for a reason? | 2 replicas (the fewest an app has), 1 failover, 1 teardown, 2 racing requests, 1 drift check at a time, 2 attempts at a time |
| `deployments` | Is a record that nobody abandoned run by one, true and within the budget, and does every record leave its states in flight? | 2 deployments, 2 specs of cost 1 and 2 under a limit of 2, 2 workers' disks, 2 runs open at once, 2 requests, 1 fault |
| `teams` | Is no edit lost, no living resource moved, no approved plan blocked by a later archive, and is nothing overrun or shared without an acknowledgement? | 2 teams, 2 operators of whom one acknowledges warnings, 1 resource, 2 patterns (with and without a cloud), 4 revisions of one team |
| `drift_sweep` | Does the batch hold, is a refusal recorded once per interval, does every resource's turn come unless its users hold it? | 2 resources, batch and interval of 1, 1 change, team edit or restart |
| `catalog` | Did what is promoted run, is what is read whole, are the default's findings its own? | 2 threads, 2 versions, 3 commits, a cache of 1, 2 moved tags, 3 requests |
| `client` | Did a refusal do nothing of what was asked, did a confirmation take effect, is retried work started? | 2 requests under way at once; any number of retries |
| `stuck_uncertain`, `stolen_lock` | a statement of the documentation or of the code's own comments that the code does not keep | as small as the counterexample allows |

**Why the bounds are enough.** Three requests on one resource are one more than
any single interference needs: a change that is deployed, a change that races
it, and a third that meets what the race left (an expired blocker, a late
result, an inherited reconciliation, an orphaned command). Two definitions of
different cost show which of two amounts a reservation kept. `MaxInFlight`
bounds the requests that are validated and not yet accepted; two make a race
(`phases` uses one, since what races there is the work). Workspaces of different
resources share nothing, so one is enough for `phases`. Keys are interchangeable
and so are resources where no reference names one; symmetry is used there, never
with a liveness property. Request keys are never reused, so a behaviour ends when
all of them are finished: deadlock is not checked; nor is it in `app_rollout`,
where an app may be destroyed for good. An app needs two attempts at once (one
that was given up and may still accept, one that records the failure); one
failover gives two candidates for the router and the primary; a second request
is what a first one makes stale.

In `deployments` one fault is enough to separate a record from its run, and the
second request and run are what then meets it. Two requests also leave a spec
stored and never accepted, and a plan under an older stamp. What a third one does
with such a plan the run does not reach; the theorem `RecordsTrue` covers any
number of them. In `teams` the documents are
chosen for what they differ in: a halved budget with a shared group, a moved
target, an environment from before it had targets; the second team is what the
first one shares a group with, and four revisions hold an archive, a
reactivation, an edit and a second archive. A batch of one is full with the
first check, so two resources compete for it; an interval of one tick lets
every attempt straddle the boundary of a bucket. A third commit in `catalog` is
one that a tag held between two readings. Two requests of one caller are a retry
that overtakes the request it repeats, or an execution that meets a discard.

**What they show.** The first ten find no violation. The other two are
disagreements, listed with their source lines under `findings`:

- `stuck_uncertain`: a deploy that was reconciled leaves its `reconciliation` in
  the resource row; a destroy resolves to a copy of the row and inherits it. If
  that destroy becomes uncertain it can never be reconciled, and its resource
  stays busy.
- `stolen_lock`: a dispatch whose answer was lost is retried while its run is at
  work; the second run takes the state lock for a dead one's and releases it.

More disagreements were met while modelling. No run is spent on them; the models
keep the behaviour as the code has it, and where a property would be broken by
one of them its comment says how it is set aside.

- A destroy planned before its consumer became ready is applied under it
  (`_execute` re-checks references for every action but destroy).
- An operation approved but never claimed can be reconciled as `succeeded`.
- An update validated while a destroy is applying is accepted on the destroyed
  resource: the row has named the destroy all along. `BudgetHeld` and
  `ResourcesStayPlaced` set that case aside.
- The acceptance that expires a blocker removes the plan file after its commit,
  by a path that only names the resource: a retry of the same request may have
  planned the new operation by then, and loses its plan.
- A drift check that timed out is failed and gives up its resource while its
  activity may still be about to prepare the workspace; a newer operation then
  plans the check's definition. `SoleWorker` sets such checks aside.
- A teardown requested again while the workflow of the failed one is about to
  close is answered 202, but the closing run is reused and nobody drives the new
  teardown until a caller repeats the request.
- The plan and its stamp are two writes. A plan of an update that stops between
  them lies under the stamp of an older request, if the disk still has one; when
  the deployment is put back to that request's spec, its `apply` may take the plan
  for its own ("Apply the saved plan for exactly this request",
  `app/terraform.py`), apply the update and record `succeeded`. `RecordIsTrue`
  sets such deployments aside (`mislabelled`).
- An update stores its spec before its state. If it stops in between, the record
  stays `succeeded` and shows a spec that nobody applied; so does a retry whose
  audit event fails, on a `failed` record. `RecordIsTrue` speaks of what was last
  accepted.
- Targets added to an environment leave its resources of patterns without a cloud
  where they are, but unplaceable: every later change of them answers 503.

**Fairness.** `FairPSpec` assumes that workers keep polling for started
workflows (`StartPlan` or `StartApply`: the activity of a dispatched phase is
picked up or its loss noticed, `PhaseFails`), that a started activity has a
start-to-close timeout (`PhaseTimesOut`; Temporal enforces it without the
worker), and that the interruption is recorded eventually (`Mark`:
`mark_operation_uncertain` has an unlimited retry policy). All three are weak
fairness of single operations. Nothing is assumed of callers, operators,
dispatches or of the activity itself.

`InFlightLeaves` (`DeploymentsSpec`) assumes that an API process goes on with
the dispatch it awaits, that activities and workflows make steps, and that the
sweep, which runs for ever in every process, reads and writes stale records. It
assumes nothing of callers: a record that is left in flight by a process that
died is ended by the sweep alone.

`EveryResourceChecked` (`SweepSpec`) assumes that time passes, that an attempt
makes steps until it dies or times out, that the workflow takes its own, that
queued checks are planned once dispatched, and that a check of the sweep ends. It
assumes nothing of users' operations: a change that is `planned` waits for its
caller and one that is `uncertain` for an operator, and no timer of the code ends
either. The property says what that leaves: a resource whose turn never comes is
one that its users' operations hold, for ever or again and again
(`[]<>Held(r)`); as `tests/test_drift_check.py` has it, a busy resource is never
checked. Such a resource does not keep the others from their turns. Refusals age
like checks, so a resource that is always refused does not keep its place at the
head of the queue. A resource stamped a few seconds after a sweep listed its
candidates is due just after the next one and is effectively checked every second
interval; the property only says that its turn comes.

`RetriedIsStarted` (`SessionSpec`) assumes that the caller repeats what is
unconfirmed, that no request is under way for ever (a timeout ends it on either
side), and, with strong fairness, that the network, the API and Temporal do not
fail every single time. The first is what `client.py` asks of its callers.
Without a client retry, work accepted before a dispatch failure remains queued.

Every other property is a safety property and needs no fairness.

## 4. Proofs

Every theorem below is proved for every value of the constants that its module's
named assumptions allow. Each of the eight proof modules follows the same plan:
an inductive invariant stated as a conjunction of named parts, lemmas about the
operators the module is built from, one lemma per kind of step, one case per
action, and a temporal theorem whose last step combines them. Every invariant was
first checked by TLC on the instance of the corresponding run.

### NumberLemmas

Facts that several proofs need. The natural numbers are well founded
(`LeastNumber`, `GreatestNumber`), hence induction over a *set* of numbers
(`AllNumbers`). From it follow the existence of functions defined by recursion
along a chain (`ChainRecursion`) and what `SumFunctionOnSet` returns: the sum
exists and is unique (`SumExists`, `SumUnique`), is a natural number (`SumNat`),
and any element can be taken out of it (`SumSplit`). A recursive function of a model is a `CHOOSE` to the prover; nothing
can be said about it until some function is shown to satisfy its equation.

### OperationProofs: the ledger

For every finite set of resources, every set of requests and definitions, every
cost function and budget, every set of intents and references and every
`MaxInFlight`:

- `TypeCorrect`, `OneActive`, `ReservationsAreExact`, `HistoryIsLinear`,
  `DriftChecksAreHarmless`: the invariants the runs check;
- `BudgetIsHeld` (`BudgetHeld`): as long as nothing was accepted on a destroyed
  resource, what is deployed and reserved stays within the budget;
- `HistorySound`: the changes of a resource form one chain, ordered by
  acceptance, and the row names its end;
- `RowShowsLatestSuccess` (`RowIsLatestSuccess`): the row shows the definition
  of the latest successful change on that chain;
- `ReplayIsRight` (`ReplayExplainsRow` of `CostHistory`): replaying the
  operations ends at the amount the row counts for;
- `FinishedStaysFinished`: the action property;
- `LedgerImplementsLifecycle`: the refinement.

**Assumptions.** Costs and the limit are natural numbers, intents and reference
sets are of the right type, resources are finite and `None` is none of the
names. Operations need not be finite.

**Argument.** None of the invariants is inductive alone. `LedgerInv` is: it adds
that accepted operations are well formed, that a row names an accepted change,
that it names the *unfinished* change if there is one, and that no change was
accepted against the operation the row names (`RowIsHead`). That last part makes
`LinearHistory` inductive: acceptance requires the draft's predecessor to be
what the row names, so nobody can have used it yet. The reservation is split
into `IdleExact` and `DeployExact`, which every way of ending a deploy takes
into each other. The conjuncts speak of a pair of tables rather than of the
variables, because `AcceptOverExpired` passes through tables that no state
shows: the blocker's failure is proved to preserve them as any release is, and
the acceptance is proved over whatever tables result. The proof has one lemma for
each kind of step (an operation that moves and keeps its resource, one that ends,
an acceptance) and one step per action that cites it. The refinement proof reuses
these lemmas to identify the holder.

The budget needs one more fact: every other step moves at most one row, to an
amount that does not exceed what the row counted for, while an acceptance adds
the difference that `Fits` has tested against the sum over the tables it finds.
A request accepted on a destroyed row is the exception the code makes, so the
invariant is conditional on `AcceptedOnDestroyed = {}`.

The history needs that `LastSuccess` and `Held` are functions at all. They
recurse along `previous`, over operations whose number nothing bounds, so each
operation gets a rank that grows along the chain of its resource; `ChainRecursion`
then yields the function and its equation. With that, a failure changes neither
side, a success makes the head its own last success, and an acceptance inherits
what the head it replaces had.

### OperationProofs: phases

For the same constants, any number of workers and crashes:

- `PhasesImplementLedger`: `PSpec => Spec`. Every step of PhaseExecution is one
  ledger transaction or leaves the tables alone, so the theorems above hold
  while operations are carried out. `PhaseTypeCorrect` adds the types.
- Under `CarefulOperator`: `WorkspaceHasOneWorker` (`SoleWorker`),
  `OnlyReviewedPlansApplied` (`AppliedIsReviewed`), `FailedMeansUnchanged`
  (`FailedChangedNothing`) and `InfrastructureMatches` (`InfraMatchesRow`).

**Argument.** `CarefulInv` is `PhaseInv` operation by operation. What is worked
on is `planning`, `applying` or `uncertain`, hence keeps its resource; by
`OneActivePerResource` no other change can be worked on in the same workspace
(`Alone`). So whoever writes into a workspace is not interfering with an
operation that relies on the plan there (`OthersKept`): between writing a plan
and recording its digest, and between the digest check and the apply, the file
can only disappear. An operation that began to apply can only become `uncertain`
or `succeeded`: every activity step that leads to `failed` precedes the apply,
and a careful operator does not report `failed` afterwards. Steps of the API and
of workflows move no activity and are dealt with together (`Undisturbed`).

`InfrastructureMatches` adds `Began` (whatever is being applied, or succeeded, has
consumed its plan) and `Applied`: the infrastructure is what the unfinished change
of the row applied once it began, and otherwise what the row's last success did.
`RowShowsLatestSuccess` supplies what the row shows, and `SoleWorker` that nobody
else changes the infrastructure meanwhile.

**Hypothesis.** Without `CarefulOperator` these four are false: an operator who
reconciles while a late activity still runs lets a second operation into the
workspace. The code asks for that care and cannot enforce it (section 2).

### AppRolloutProofs

For any replicas, failovers, teardowns, requests, drift checks and activity
attempts:

- `RouterHasReplicas` (`LiveRouterHasReplicas`), `ReportedPrimary`
  (`PrimaryIsDeployed`), `NothingLeftBehind` (`DestroyedIsGone`),
  `RolloutNotAbandoned` (`RolloutEndsForReason`);
- `ReadyNeverFails` (`HealthyAppStays`) and `QuietTeardown`
  (`TeardownStartsQuiet`), the action properties.

**Assumptions.** The first replica and the router are what they are called
(`ReplicaAssumption`), and the bounds are natural numbers (`BoundAssumption`).

**Argument.** `RolloutInv` says which operations can exist together: the router
comes after its replicas and each failover after the one before it
(`RouterFollows`, `OneRouter`), nothing is deployed during a teardown
(`DeploysOver`), only the present teardown destroys (`DestroysOfTeardown`), and
once it has recorded its replica destroys every replica left has one
(`LinkedAll`). What is not in the tables needs two parts of its own: an
attempt that timed out may still write, and has seen every replica that is
still deployed (`AttemptSound`); a validated request may still be accepted, and
was validated against this version of the app row (`RequestSound`), because any
write to the row makes it refusable. The steps are of three kinds: those that
move one member operation, those that accept one, and those that change neither.

### DeploymentsProofs

For any deployments, specifications, costs, budget, workers, requests, runs and
faults:

- `OneRun` (`OneRunAtWork`), `RecordsTrue` (`RecordIsTrue`),
  `CommittedIsKept` (`BudgetKept`).

**Hypothesis.** `OneProcess`: one process serves all requests, any number of them
at a time. This is how the code is deployed (`compose.yaml` starts one uvicorn
process; `docs/agent-architecture.md` says that "independent stateless replicas
are unsupported"), and the statements are false without it: a handler reads and
checks the record and the budget and then writes, and only the event loop of its
process keeps other requests out, so two processes can both start a run of the
same deployment. `DeploymentAssumption` makes the deployments finite, for the sum.

**Argument.** All three speak of deployments that nobody abandoned: one whose run
was declared dead while it was not. One request at a time is before its dispatch
(`OneAsked`). The invariant has two layers. The first (`Kept`) says who
may touch an unabandoned record: what is worked on or being dispatched is
recorded as in flight (`LiveInFlight`), by one run or one pending dispatch at most
(`OneLive`); what a request has checked still holds when it writes
(`PendingAtRest`); what the stale sweep has listed really is dead
(`ListedIsDead`), and what a workflow is about to mark as failed may be marked
(`MarkedMayFail`).

The second (`ToldInv`) says what it then tells, step by step through the writes
that the code makes one after the other. A record in flight has the spec it was
agreed with (`AgreedInFlight`), because the state is written after the spec; a
request that has stored its spec and not yet the state finds that spec in the
record (`SpecStored`); what an activity works on was agreed (`WorksToAgreed`);
unless a deployment is mislabelled, a plan that lies under a stamp was made for
that stamp, except by an activity that has not yet written its own
(`StampsTrue`). From these follows `Truth`, which is `RecordIsTrue` of one
deployment; without `mislabelled` it would be false (section 3). The budget (`BudgetInv`)
also carries what a validated request is `Allowed` to add, and keeps it through
the stored spec of a request that is never accepted, since what was checked was
that spec's cost.

### PatternCatalogProofs

For every set of versions, commits and threads and every cache size:

- `CheckoutsReadWhole` (`ReadsWhole`): no request reads an unfinished checkout,
  wherever git fails or the process dies;
- `PromotionsOfWhatRan` (`PromotesWhatRan`): every promotion carries a commit
  that its source was deployed from;
- `FindingsOfDefault` (`DefaultFindingsOfDefault`): the findings shown for the
  default version are those of a commit that was the newest when checked.

**Argument.** The invariant (`CheckoutsSound`) ties each lock to the one request
that is inside its critical section and each marker to complete files: only the
holder writes, the marker is written last, and a restart takes the lock but
not the marker. For promotions, a row that is ready names a commit that ran, and
so does what a promotion has read from it: the commit is carried along as
`expected_commit`, and a version that resolves to another commit is refused
before acceptance. For the findings, versions are only ever added: a version that
is the newest now was the newest whenever it was resolved before.

### ClientSessionProofs

For any number of requests under way at once:

- `RefusalsAreDefinite` (`DefiniteRefusal`): nothing of what a request asked for
  was done, or ever will be, once the client reports it as refused;
- `ConfirmationsTookEffect` (`ConfirmedTookEffect`): what it reports as done is
  done, whatever answers and requests are lost.

**Argument.** `SessionInv` says of each request that a refusal, sent or
received, belongs to one that did not commit (`Clean`), and that a positive
answer, sent or received, stands for an effect that lasts (`Truthful`). An
effect lasts because a started phase stays started and a discard is final
(`EffectStays`). For a discard, the confirmation also needs that nothing was or
will be applied after it (`NotApplied`), and a dispatch that it finds the phase
it starts (`PhasesStarted`). Steps of one request leave the others as they are
(`OneRequest`).

### TeamsProofs

For any teams, operators, documents and bounds and any finite set of resources:

- `LivingResourcesStayPlaced` (`ResourcesStayPlaced`);
- `ArchivesSparePlans` (`PlansOutliveArchives`);
- `EditsAreNotLost` (`NoLostUpdate`);
- `SharingIsAcknowledged` (`OverlapAcknowledged`): teams come to share a group
  only in a write that acknowledged it, or created a team;
- `OverrunIsAcknowledged` (`OverrunAcknowledged`): only an acknowledged write
  leaves a budget overrun, never an acceptance.

**Assumptions.** Budgets are natural numbers or absent (`BudgetAssumption`;
`team_check` refuses a document with another one), prices are natural numbers,
and `None` is neither a resource nor an action.

**Argument.** `TeamsInv` adds to the placement of living resources that a row
keeps its team from its first acceptance on, that a request for a known resource
names that team, that only what was accepted executes, and that whatever is
accepted on a destroyed row marks it as revived. A write either repeats the
stored document or passed `HasErrors`, and a document that passed places every
living resource where the stored one did (`CheckedPlaces`). For archives, a
deploy remembers a revision that was not archived, the history only grows, and
`archived_since` is one more than the largest such revision (`MaxOfBounded`).

For the budgets, `CostInv` says that no row counts for less than it falls back to
(`Balanced`), so only acceptances and writes can raise a sum, and that a draft
carries the limit of the revision it was validated under (`Limited`). An
acceptance checks that revision against the current one and the sum against the
draft's limit. A write that lowers a budget below the sum has the warning that
somebody had to acknowledge. Sharing a group is similar, one team at a time; an
import writes several, and of two teams that share a group the one written last
was warned of the other.

### DriftSweepProofs

For any finite set of resources, any batch and interval and any number of
requests, team edits and restarts:

- `SweepWithinBatch` (`BatchHeld`): the awaited attempts never have more than a
  batch of checks outstanding;
- `RefusalsOncePerInterval` (`RefusedOncePerInterval`), the action property.

**Argument.** `SweepInv` has three parts. `Typed` says which states an attempt can
be in (only one with candidates left is overtaken) and that the order lists no
resource twice. `Room`: what is outstanding and what the awaited attempt may still
list or accept stays within the batch. Other actors only finish checks, so a
count read earlier is never too small, and a check that an overtaken attempt
accepts is `late` and not counted. `Refusals`: a resource refused since it became
due has been stamped, or is the one the awaited attempt is about to stamp, and no
other candidate of that attempt has been refused. An overtaken attempt only
leaves doubtful refusals, which `RefusedOncePerInterval` excepts. The proof needs
that a query lists each resource once (`Selected`, `Found`), which is why the
model filters with a function (`Select`) and not with `SelectSeq`, whose recursion
the prover cannot unfold. `OnlyRefused` and `RefusalIsFirst` then turn the
invariant into the statement about steps.

### Only model-checked

- Liveness (`DispatchedPhaseLeaves`, `InFlightLeaves`, `EveryResourceChecked`,
  `RetriedIsStarted`), which needs fairness and ENABLED.
- The two findings: a counterexample needs no proof.

## 5. Plan

Done: `OperationLedger` and its abstraction, `PhaseExecution`, `AppRollout`,
`CostHistory`, `Teams`, `Deployments`, `DriftSweep`, `PatternCatalog`,
`ClientSession`, with their runs; the proofs of section 4, which cover every
safety property of the passing runs.

Left, in this order:

1. The liveness of rollouts and teardowns under fair polling.
2. The walk of a listing by pages (`list_operations`, `list_resources`) while
   rows change between two pages.
3. The composition of the ledger's budget with that of the deployments API.

## 6. Not modelled

- **Pure functions of one request or one checkout**: contracts and schemas,
  `pattern_check.py`, guardrails, HCL parsing, the rules of `team_check.py` that
  look at a single document. They keep no state and nothing interleaves with
  them; unit tests reach them.
- **I/O and append-only records**: audit events, logs, identity and tokens, cloud
  adapters, Terraform's environment, redaction and plan summaries. A failed
  audit write is modelled where it stops an action (`AuditUnavailable`).
- **Processes**: the engine container's supervisor, the emulator and the
  deployment files; losses of processes are steps of the modules instead.
- **Readers**: the console, listings, pagination, `discover` and the events
  endpoints read one snapshot and change nothing.
- **Inside modelled parts**: the history clone behind `/patterns/{name}/changes`,
  a pinned `default_version` and the cached upgrade hint (`PatternCatalog`); the
  client's `reconcile`, which has the protocol of `discard` (`ClientSession`);
  grouping by day in the cost history; access checks and labels of app members
  (`AppRollout`); the Table storage variant of the record store, whose writes are
  as unconditional as the database's (`Deployments`).
