# Verification of shein-full-managed-bi

TLA+ models of the parts of this repository in which processes, files and
database rows meet: the webhook queue and its read-back, the business
coordinator, the publication of the dashboard, the store authorization, the
supply synchronisation, the historical backfill, the V4 collection, the
resolution of product identity and the cutover of the webhook tables.
TLC checks them on small instances; TLAPS proves their safety and action
properties for every instance. `PROJECT.json` lists the runs, the source
lines behind each definition, the hazards of the code with the properties that
cover them, one mutation of the code per property that the property catches,
the findings and the theorems.

## 1. The system

A Node.js service on one host, with PostgreSQL, systemd units and shell
scripts. Facts about stores come in by signed pushes of the platform and by
scheduled collection; they go out as files that a portal serves.

```
 platform --push--> receiver --> receipt + job --> workers --> event, directive
                                                      |              |
                                                      v              v
                                             request marker    hydration runner
                                                      |              |
 timers --> coordinator --> children (sync) --facts---+--> warehouse <+
                |                                     v
                +--OnSuccess--> materializer units <-kick- enqueue unit
                                      |
                                      v
                       home, shipping, order, core files --> portal, SSE
 operator --> authorization batch --> callback --> receipt --> finalizer / rejecter
                                                                   |
                                                                   v
                                                         OpenAPI configuration
 operator --> backfill, V4 collection, supply sync -------facts--> warehouse
 operator --> evidence load --> sealed sets --> plan --approved hash--> apply
 operator --> cutover tool: cloud webhook tables <--> fnOS webhook tables
```

| component | state | operations | what is hard | what makes it correct |
|---|---|---|---|---|
| Webhook receiver (`src/webhook/receiver.mjs`) | requests in flight | accept, store, answer | the ingress deadline answers 503 while the transaction may commit; the platform repeats | a 200 means the push is stored |
| Webhook queue and worker (`src/warehouse/webhook-repository.mjs`, `src/webhook/worker.mjs`) | receipts, jobs, leases, events, directives, gate | claim, complete, fail, dead-letter, replay, probe, reopen | stale workers, lost COMMIT answers, crashes on the last attempt, replay beside old claims | one effect per push, nothing forgotten, fencing, gate opened only by a newer probe |
| Read-back, "hydration" (`src/webhook/hydration-repository.mjs`, `scripts/run_full_managed_webhook_hydration.mjs`) | directives and leases, the runner's batch and groups | claim a batch, look up, complete, fail | batches settled per store; part of a group lost to another runner | success means the facts are there; leases fence; everything is settled |
| Business coordinator (`scripts/run_full_managed_business_coordinator.mjs`) | the state file of a run | activate, stages, children, classification, retry, budget, finish | kills between a child's work and its record, restarts, parallel stages, unreadable summaries | a ready run covered every store; nothing completed is redone; an interrupted run can always be resumed to its end |
| Dashboard publication (`scripts/*dashboard_materializ*.sh`, `scripts/materialize_and_promote_full_managed_dashboard.sh`, `scripts/mark_full_managed_coordinators_published.mjs`) | markers, unit states, staged and published files, the runs' publication | request, debounce, pend, kick, materialize, promote, mark | promotions cut short, events between snapshot and promotion, deferrals, two units on one lock | readers never see a newer core; published runs are shown; every fact is shown |
| Store authorization (`src/authorization/*.mjs`) | batches, rows, one-time states, receipts | create, begin, claim, exchange, complete, fail | superseded and late callbacks, expiry during an exchange, two batches | one working link, unique bindings, received credentials are kept |
| Authorization review (`scripts/finalize_...receipt.mjs`, `scripts/reject_...receipt.mjs`) | lock directory, isolated receipts, OpenAPI configuration | lock, reap, isolate, write, approve, roll back; reject | a rejecter without a lock, a failure in any step or in the rollback, dead lock owners | approved means configured; a rollback is complete; no credentials are lost |
| Supply synchronisation (`scripts/sync_full_managed_supply.mjs`, `src/warehouse/supply-repository.mjs`) | attempt ledger, raw batches, orders, deliveries, lines, relations, SKU attributes, advice and inventory projections, reconciliations | open attempts, fetch, load primary, load inventory, close; the dashboard's read | runs of one store overlap; fetched and loaded at different times; one transaction for five domains; closing stops half-way | nothing stored goes back; the ledger never claims more than is stored; health is that of the newest live run; a total shown is whole, a domain shown as complete is current |
| Historical backfill (`src/backfill/*`) | run, windows, checkpoints, attempt ordinals | read the state, take a grain, call, judge, commit, close | executions of one plan overlap and hold stale reads; drift of the schema; limits of the ordinals | a checkpoint is proven and moves forward; SUCCEEDED means every window |
| V4 collection (`scripts/run_full_managed_v4_collection.mjs`, `src/warehouse/full-webapi-fact-repository.mjs`, migration 0028) | run, attempts, pages, observations, coverage, candidate file | create, preflight, begin, record, close, fail, cover, publish | two executions; a failure in any call or in the clean-up; death | the candidate rests on a complete ledger; one execution collects; evidence is final |
| Product identity (`src/warehouse/product-identity-*-repository.mjs`, `src/domain/*product-identity*.mjs`, two scripts) | fetch batches, sealed sets, plans, products, candidates, assignments | load evidence, dry run, apply, verify | the catalog moves between snapshot and lock; repeated loads and later plans meet what is stored | only confirmed cliques are mapped, from one plan and one answer per SPU; a report stays true |
| Webhook cutover (`scripts/fnos_webhook_cutover.mjs`) | two databases, a manifest, an approval, a readiness flag | prepare, forward, reverse, dry run, commit, judge | open writers, lost COMMIT answers, stale approvals, repeated cutovers | acknowledged receipts are where the webhook goes; readiness means equality |
| Host lanes and pressure gate (`scripts/run_shein_host_lane.sh`) | flock slots per lane | take, probe, defer | a probe holds a slot for a moment | deferral is the only visible failure |
| Dashboard update stream (`src/server/dashboard-update-stream.mjs`) | version, subscribers, timer | subscribe, poll, announce | promotion between a read and the first poll | subscribers hear of every promotion after their first poll |

The other components (portal, queries, OpenAPI client, sessions, store login,
backups, health) are listed in `PROJECT.json` with the reason they are left
out; see section 8.

How the components touch: the worker writes the directives the hydration
runner claims (`Emit` of `WebhookHydration` is the directive of
`CompleteTransaction` in `WebhookQueue`) and the request marker of `Dashboard`
(`WebhookFact`, `Notify`). A coordinator's run becomes `READY_TO_PUBLISH`
(`Finish` in `Coordinator`, `RunReady` in `Dashboard`) and the promotion script
marks it (`ReadReady`/`WritePublished` in `Coordinator`, which keeps the gap
between reading and writing the state file; `MarkPublished` in `Dashboard`,
which keeps the relation to what was read). Authorization events close the gate
in `WebhookQueue`; `Authorization` is otherwise separate. The supply run is a
child of the coordinator (its store status is the outcome `Coordinator` reads),
the read-back's lookup (`Sync` in `WebhookHydration` is a run of `Supply` for
orders and deliveries) and the backfill's adapter (`FetchWindow` in `Backfill`
opens the attempts whose ledger `Supply` models; a reused run id is refused
there). Sales loads appear as `SalesLoad` in `Supply` and `CatalogLoad` in
`ProductIdentity`, and a supply load as `EnrichCatalog` in the latter. `Cutover`
moves the tables of `WebhookQueue`.

## 2. Modules

| module | models | run by |
|---|---|---|
| `WebhookInbox` | abstract: what the queue promises for a push | refined by `WebhookQueue` |
| `WebhookQueue` | receiver, queue, worker, replay, gate | `MCWebhookQueue` |
| `WebhookQueueProofs` | theorems | |
| `WebhookHydration` | directives and runners | `MCWebhookHydration` |
| `Coordinator` | one business run | `MCCoordinator` |
| `CoordinatorProofs` | theorems | |
| `Dashboard` | markers, units, promotion | itself |
| `Authorization` | state file, callbacks, finalizers, rejecters | `MCAuthorization` |
| `AuthorizationProofs` | theorems | |
| `Supply` | supply runs of one store | `MCSupply` |
| `SupplyProofs` | theorems | |
| `Backfill` | executions of one backfill plan | `MCBackfill` |
| `BackfillProofs` | theorems | |
| `V4Collection` | executions of one collection plan | `MCV4Collection` |
| `V4CollectionProofs` | theorems | |
| `ProductIdentity` | evidence loads, planner, applies, catalog | `MCProductIdentity` |
| `Cutover` | two databases, the tool, the operator | `MCCutover` |
| `WebhookTablesProofs` | theorems of `WebhookHydration` and `Cutover` | |
| `WarehouseProofs` | theorems of `Dashboard` and `ProductIdentity` | |

Definitions named `X_Suffix` beside a definition `X` (for example
`Claimable_LiveLease`) are plausible mistakes in `X`. No specification uses
them: they are there so that each property can be seen to fail when the code
is wrong in that way. A property named `...Safety` is the conjunction of the
named invariants of a module; each of them has such a mistake beside the code
it depends on, and `PROJECT.json` lists one for the conjunction.

### WebhookQueue

A database transaction is one step. A push is a pair of payload identity and
ten-minute window, which is what the idempotency key contains; its family says
whether it asks for a read-back, may be replayed or closes the gate. Time is
two facts per job, `live` (lease not expired) and `ready` (retry due); only the
gate compares instants, so it has a clock.

| code | actions |
|---|---|
| receiver: store within the deadline | `ReceivePush`, `StoreCommits`, `StoreAborts`, `IngressDeadline` |
| `claimJob`: dead-letter exhausted leases, lease one | `Claim` (`ClaimStatement`) |
| `completeJob`: one transaction under the lease | `CompleteJob`, `CompleteJobAnswerLost`, `CompleteJobFails` |
| `failJob` | `ProcessingFails`, `FailJob`, `FailJobLost` |
| replay script, probe, reopen function | `ReplayDeadLetters`, `RecordGrantedProbe`, `ReopenGate` |
| environment | `LeaseExpires`, `RetryDue`, `Tick`, `WorkerCrash` |

`done` and `acks` are ghosts: they count committed completions and 200 answers.

### WebhookHydration

A runner has the control of `runWebhookHydration` between two awaits: claim a
batch of at most `BatchLimit`, take one store's group, look it up, complete or
fail it. `complete` and `fail` update the rows still owned and throw if some
were lost; `Complete` and `Release` do that in that order. `storeOf` is the
store column of a row, written once. The lookup of the platform answers any of
the documents asked for and, if there are any, of `Strays`; `loaded` is a ghost
of what arrived. The script never looks at which documents came back: it
compares, domain by domain, how many did with how many it asked for
(`ReadsAll`), so a success means what it says only as long as lookups are exact
(`LookupsAreExact`).

### Coordinator

Each segment of `executeStage` between two awaits changes the state and takes a
snapshot of it, and snapshots are written in order, so `run` is both file and
memory. Children report what they found per store (loaded, gap, denied, error)
or something unreadable; what a child did is not undone by a crash. Plans are
sets of stages with an order (`Earlier`) and the condition `onlyAfterPartial`
(`After`). The budget belongs to an activation and may expire at any point.

Two quirks of the code are in the model and shape the properties: a store for
which sales is *denied* gives exit 0 and is never recorded as a gap; a store
that supply *skips* gives exit 2 and completes unrecorded. `ReadyMeansCovered`
therefore says that each store was seen to an end, not that it was loaded.

### Dashboard

A file's content is the number of facts it shows. File times are the answers
of the two `-nt` tests that the scripts make (`newer`, `newerStaged`); `mv`
keeps the time of the staged file. The two materializer units share one lock;
`step` is the position of the one in the script, `moved` how many of the four
files are in place. A path event is kept until its unit can start (the generous
reading of systemd's path units). The order index may stay behind: it is
promoted only if its coverage gate passes.

### Authorization

A mutation of the state file under its lock is one step, and so is a rename, an
unlink and an atomic write. A credential is a member of `Keys`: the pair that
one authorization returned, and its fingerprint. Each is of a supplier account
(`SupplierOf`), and an account may return several, so two receipts of one
supplier differ wherever the code compares fingerprints and agree where it
compares suppliers. A receipt is identified with the state whose callback wrote
it, the review time of a row with the finalizer that approved it. The server
handles a callback in three steps (`ClaimState`, `Exchange`, `CompleteState` or
`FailState`) between which anything may happen. The finalizer's steps are
`FinLocks`, `FinReaps`, `FinReads`, `FinIsolates`, `FinWrites`, `FinApproves`,
`FinDisposes` and the rollback `FinUndoesApproval`, `FinUndoesConfig`,
`FinUndoesReceipt`, then `FinReleases`; each may fail, and the process may die
between any two. The configuration is read in `FinReads` and written whole in
`FinWrites`.

Assumed: every batch lists every store and every application is ready; a
mutation that fails has written nothing; a living owner of the lock ends before
it is five minutes old; an invocation of a script runs once. The backup of the
configuration is taken in `FinWrites`.

### Supply

One store, one purchase order (the mother of at most one JIT child), one
delivery, one kind of inventory. A run is `Begin`, `StartAttempt` per selected
domain, `ReadUniverse`, `Fetch` per primary domain, `LoadPrimary`,
`FetchInventory`, `LoadInventory`, `FinishAttempt` per domain; the loader's
advisory lock makes a load one step. Everything a run writes carries the time
it was planned at, orders alone the platform's update time: that is what the
model keeps of data. The environment updates the order, changes it without a
new time (`SilentUpdate`, which the loader refuses) and runs sales loads, which
decide which SKUs are active. Retries of one fetch, pages and windows are
inside `Fetch`.

`readOperationsDashboard` reads everything in one repeatable-read snapshot, so
what it shows is a function of the state: `Latest` projection batch,
`InventorySummary`, `StockAdviceSummary`, `LineTotals`, and the `Standing` of
each domain, which comes from the attempt ledger and not from the figures.
`DashboardSafety` says that the two agree. It does not say that a total covers
what is active now: the fingerprint of the active SKUs that a batch was judged
by is stored and never compared, so a SKU activated after the load is missing
from a total that is still shown.

### Backfill

An execution reads completed windows, attempt counts and checkpoints in three
transactions, then lanes take grains; a grain's windows are taken newest first.
`FetchWindow` and `Answered` are the call and its judgement by the quality gate
and the fingerprint, `CommitWindowOutcome` the transaction with the guard on the
checkpoint, `CloseRun` the end. `Prints` are the schema fingerprints of
releases. `Days` and `Order` are the plan: its grains in the order of their
first window, and the windows of each, which the planner refuses to list twice.
Whether executions overlap is remembered (`overlapped`), because what the code
promises differs: checkpoints hold always, fingerprints and ordinals only for
executions one after the other.

### V4Collection

The triggers and constraints of migration 0028 are operators (`RunMayBecome`,
`AttemptMayBecome`, `MayCover`) and every repository call goes through them
(`Call`: it is refused, succeeds, fails, or succeeds and its answer is lost).
`beginAttempt` is two steps, because its check of the run is not serialised
with another execution's transition. Grains are opened in the order of `Plan`
and closed in that of `CloseOrder`, which has every statistic after the pages.
The frozen plan has 325 grains; the model's has two at least. With a single
grain, a second execution that ends the run between the first one's check and
its insert is noticed only when the observation is refused; a fault in the
clean-up that follows then leaves the attempt open, and `OwnAttemptsClosed`
fails with that one fault. With two grains the second `beginAttempt` notices.

### ProductIdentity

The planner (`Profile` to `Candidates`) is a set of operators over nodes, the
actions are the evidence load (`StartLoad`, `FetchSpuInfo`, `RecordObservation`,
`SpuFails`), the dry run (`Prepare`), the apply (`BeginApply`, `LockSkus`,
`PersistPlan`, `Verify`, `ApplyDies`) and the catalog's (`CatalogLoad`,
`EnrichCatalog`). A fingerprint is the value it is taken of, a plan hash the
plan's index. The snapshot of the serializable transaction is fixed by the
statement that waits for the advisory lock, so `BeginApply` compares the plan
and `touched` collects the SKU rows updated since, for which `FOR UPDATE`
fails; `late` says that another apply committed rows since, which is a
serialization failure. The first foreign key of a new set waits for a locked
SKU. SKC and SPU are one level; matcher and policy versions are fixed; a
refused apply leaves nothing behind and is not a step; plans without components
are left out. `MappedMeansMatched` is written from the attributes and barcodes
themselves, not with the matcher's operators.

Consequences of the code that the model shows and no document denies: a
canonical product that was resolved is never extended (a later run's members
differ from the stored ones, and the whole plan is refused); a set sealed for a
SKU that is retired later makes its run unplannable; evidence sealed by the same
run after the snapshot of an apply is not part of it; a retry of a committed
apply succeeds only with the same `--now` and `--run-id`.

### Cutover

A row is a receipt with what hangs off it. The services of each side accept
notifications and work; the operator stops, starts and switches (`Stop`,
`Resume`, `Switch`) as section 7 of the runbook says; the tool takes its
snapshot at the advisory lock (`BeginFrozen`) and its table locks after it
(`LockTables`), then decides (`RunForward`, `DryRun`, `AlreadyApplied`,
`Apply`), commits (`CommitTarget`, whose answer may be lost) and judges by
fresh snapshots (`Judge`). Identity values are handed out outside transactions.

## 3. Runs

All bounds are constants of the configurations. State counts are distinct
states.

| run | instance | states | shows |
|---|---|---|---|
| `webhook_queue` | two pushes (a purchase order delivered twice at once, an unregistered event), two workers, two requests, two attempts, one replay | 316,786 | `AcksAreDurable`, `AtMostOneEffect`, `SettledAtomically`, `Fencing`, refinement of `WebhookInbox` |
| `webhook_gate` | two authorization changes of one store, one worker, three instants | 116,904 | `GateNeedsNewerProbe`; liveness `EventuallyResolved` |
| `hydration` | two directives, of one store or of two, naming two purchase orders and a delivery; two runners, two attempts | 295,646 | `HydrationSafety`, `LeasesFence`; liveness `EventuallySettled` |
| `coordinator` | realtime (parallel), supply, session (ordered) plans, two stores, two faults | 92,853 | `CoordinatorSafety`, `CompleteIsFinal`; liveness `ResumableToTheEnd` |
| `dashboard` | two facts, of webhook jobs or one of a run that becomes ready, one fault (deferral, death, failure or lost notice), with the schedule | 310,507 | `CoreNeverAhead`, `PublishedMeansShown`; liveness `EventuallyShown` |
| `authorization` | two stores, two batches, two callbacks, two finalizers, one rejecter, three keys of which two are of one account, one fault | 1,395,176 | `OneActiveBatch`, `UniqueBinding`, `ReviewSafety`, `ReceivedIsKept`, `RollbackIsComplete` |
| `supply` | two runs, each of details, advice, inventory, orders with deliveries, or a backfill of orders; four instants, the SKU active at first or not, one upset, one fault | 1,216,450 | `DocumentSafety`, `LedgerSafety`, `DashboardSafety`, `NothingGoesBack` |
| `backfill` | two executions that may overlap, a grain of two days and a blocked one, two lanes, two releases, one fault | 364,565 | `BackfillSafety`, `OrdinalsAreFresh`, `SuccessIsKept` |
| `v4_collection` | two executions, a page grain of two pages and a statistic, two faults | 125,992 | `CollectionSafety`, `CandidateIsProven`, `EndedIsFinal` |
| `product_identity` | four SPUs of three stores, two observation runs, two loads, two applies, two plans, a change at the platform, one upset | 114,302 | `IdentitySafety`, `MapsListedSkus`, `ReportHolds` |
| `cutover` | a stored notification and two to come, three identity values, both directions | 223,956 | `CutoverSafety`, `ReceiptsAreKept`, `OnlyTheApprovedPlan` |
| `authorization_lock` | three finalizers | | the finding of section 6 |

What the conjunctions contain: `HydrationSafety` = types,
`SucceededMeansLoaded`, `FailsWithAnExhaustedOne`; `CoordinatorSafety` = types,
`ReadyMeansCovered`, `RecoveryNotSkipped`; `DocumentSafety` = types,
`OneVersionIsCurrent`, `JitFollowsTheOrder`; `LedgerSafety` =
`SucceededMeansStored`, `SucceededInventoryIsComplete`,
`LoadedMeansAllSucceeded`, `HealthIsOfTheNewest`; `DashboardSafety` =
`TotalsAreWhole`, `QuietMeansCurrent`; `ReviewSafety` = `ReviewKeepsReceipt`,
`ApprovedMeansConfigured`; `BackfillSafety` = types,
`CheckpointIsProven`, `OneSchemaPerGrain`, `SucceededMeansEveryWindow`;
`CollectionSafety` = types, `OneCollector`, `OwnAttemptsClosed`;
`IdentitySafety` = types, `MappedMeansMatched`, `ProductIsOnePlan`,
`OneAnswerPerSpu`; `CutoverSafety` = types, `AckedIsServed`, `SequenceIsAhead`,
`ReadyMeansEqual`.

Why the bounds are enough for what they are asked. A race over a lease needs two
holders, one of which outlives its lease, and a second attempt; a third worker
repeats the second's role. A lost update of the configuration needs two stores,
a lock reaped twice needs two living finalizers and a dead one (the run
`authorization_lock` has three). Every passing run with a fault bound spends it
on any kind of fault at any point; two faults in `coordinator` allow a kill
after a deferral or a retry. `dashboard` has two facts: the second one's
request, or its run, arrives at any point of the materialization of the first,
so a file may show the one and lack the other; two runs and two faults without
liveness (856,774 states) satisfy the same invariants. Stale reads and
overlapping loads need two runs or executions, one of which commits between the
other's read and write: that is what `supply`, `backfill`, `v4_collection` and
`product_identity` have, and a third would repeat the role of either. `supply`
needs two versions of the order and an instant before and after them; one run of
all domains with two upsets and two faults (2,727,392 states) satisfies the same
properties. The SPUs of `product_identity` are the smallest set in which a chain
of confirmed pairs is no clique and a SKU can move to a sibling SPU; its loads
fetch one SPU at a time (`MaxConcurrency`), as two loads already interleave
fetches and records. `cutover` can go forward, back and forward again with a new
notification on each side; its operator waits for open writers (`Drained`),
without which `SequenceIsAhead` fails (section 6). The second directive of
`hydration` may be of the first one's store, and then shares its groups and
their failures, or of another one, and then must not; three attempts and two
batches of directives of two stores (1,224,765 states), and two directives of
one store that name {o1} and {o1, o2} (83,952 states), satisfy
`HydrationSafety`. In the latter instance with `Strays = {o2}`,
`SucceededMeansLoaded` fails: a stray row makes up in the count for a missing
one. `authorization` has two keys of one account, without which the row of one
receipt cannot be taken for that of another.

Symmetry is used only in runs without liveness, over workers and requests, and
over callback states, batches, finalizers, runs, executions, fingerprints,
observation runs, loads, applies and notifications, which no definition tells
apart.
Deadlock is not checked where the system may really come to rest (all pushes
settled, all scripts ended, the run published).

## 4. Fairness

Only `webhook_gate`, `hydration`, `coordinator` and `dashboard` assume any. The
other modules are of scripts an operator starts, or of runs that nothing
restarts by itself: no progress is claimed for them.

- Worker: the loop polls for ever and systemd restarts it, so a worker with
  something to do does it; leases expire and retries come due because time
  passes. A crash is always possible; `max_attempts` bounds how often one
  matters. Nothing is assumed of the platform, the operator or the probes.
- Hydration: the timer starts a run every ten minutes, and a run goes on. Runs
  may die anywhere, but not every one before its first statement (strong
  fairness of `ClaimBatch`), or nothing could be promised.
- Coordinator: a live process goes on, and the materializer that `OnSuccess=`
  starts marks what is ready. Nothing is assumed of `Activate`: the units are
  oneshot without `Restart=`, run ids contain the date or the hour, so the next
  scheduled start is another run, and only an operator starts an interrupted one
  again. `ResumableToTheEnd` therefore speaks of a run that somebody has started:
  from whatever state file earlier kills, fatal exits and expired budgets left,
  it is published unless something goes wrong once more.
- Dashboard: path events start their units; a unit waiting for the lane gets
  it if it is free again and again (it is started again by each event). The
  schedule (`LaterRun`: some later coordinator run starts the materializer) is
  assumed in `ScheduleSpec`, which the run uses, and not in `EventSpec`, under
  which `DeferralsRecover` fails (section 6).

## 5. Proofs

Each theorem holds for every value of the constants that satisfies the named
assumption of its module: any sets of pushes, workers, stores, batches, states,
directives, stages, grains, scripts, requests, runs and executions, and any
bounds on attempts and faults. The bounds of section 3 play no part. Every
obligation is checked by SMT or Zenon, and by LS4 where it is temporal; nothing
is assumed beside the constants' assumptions and, where a theorem says so, a
hypothesis.

| module | obligations | inductive invariant |
|---|---|---|
| `WebhookQueueProofs` | 1,133 | `QueueInv`, `LeasesInv`, `GateInv` |
| `WebhookTablesProofs` | 1,600 | `HydrationInv`; `CutoverInv` |
| `CoordinatorProofs` | 992 | `CoordinatorInv` |
| `WarehouseProofs` | 2,141 | `DashboardInv`; `IdentityInv` |
| `AuthorizationProofs` | 2,838 | `TypeOK`, `OpenRows`, `ReceiptsInv`, `ReviewInv`, `LockInv` |
| `V4CollectionProofs` | 2,602 | `CollectionInv`, `FetchedInv` |
| `BackfillProofs` | 2,505 | `BackfillInv` |
| `SupplyProofs` | 2,666 | `SupplyInv` |

**WebhookQueueProofs.** `QueueInv` is `TypeOK` and, for each push, `RowInv`,
which ties together the five pieces of state that concern it. None of the
properties is inductive alone: that a completion commits once needs to know
that a job with an event is settled, that no claim statement or replay reopens a
settled job, and that the directive and the event are written by the same
transaction. The proof treats a push at a time. Steps fall into those that only
churn a row (leasing, expiring, releasing, dead-lettering, replaying), the
receiver's and the one that settles; a lemma says what each kind does to a row.
Theorems `TypeCorrect`, `SettlingIsAtomic`, `EffectHappensOnce`,
`AcksAreBacked`.

`OnlyTheLatestClaimMoves` (`Fencing`) says of the very worker whose step ends a
job's run that it has the latest claim on it, and that it steps alone. It needs
`LeasesInv`: only a running job has a live lease, and a busy worker that the job
names as its owner remembers the job's attempt number. Every step hands a lease
to an idle worker, stops one or keeps it (`LeaseStep`), and keeps a busy
worker's memory (`MemoryStep`). `GateReopensOnNewerProbe` needs `GateInv`: the
instant a gate was blocked at is no earlier than any authorization change
processed for its store, and the clock is no earlier than either.
`QueueImplementsInbox` is the refinement of `WebhookInbox`: each step moves the
pushes of one set from one phase to another (`PhasesMove`) or moves none; that a
dead letter is left only through the replay script is `DeadStaysDead`.

**WebhookTablesProofs, the read-back.** A runner settles the rows it remembers,
while other runners may have taken them over. `RunnerInv` says what of its
memory stays true: what it is about to settle as a success was loaded (if
lookups are exact), it has counted no more attempts than the row has, exactly as
many while it owns it, and a group is of one store. A row fails only as
exhausted, or together with one of its group that is; hence
`FailsWithAnExhaustedOne`. `CountingSuffices` turns the script's count into
having read every document: a finite set that is no smaller than the one it is
contained in is that one. The containment is the hypothesis `LookupsAreExact` of
`TableIsTrue` (`HydrationSafety`): the platform's identifier filter answers
nothing it was not asked for, which no code checks. `LeasesAreRespected`
(`LeasesFence`) names the runner that steps (`SettlingSteps`: whoever settles
rows changes its own memory and no other).

**CoordinatorProofs.** Stages run in parallel, so the invariant is one per stage
(`StageInv`) that the steps of other stages leave alone: every attempt but one
was paid for by a fault (`CountInv`), the stores no longer pending were seen to
an end (`PendingInv`), a child works only for an incomplete stage (`PlaceInv`),
what its exit says of its stores (`ResultInv`), and what completion means for
each kind of stage (`CompleteInv`). `ReadyInv` says that a run is not marked
ready before its plan is complete. That a recovery is skipped only for good
reason crosses stages: it needs the renewal complete first, which is
`CoordinatorAssumption` (a recovery stage names a renewal stage that is earlier
in its plan, `scripts/run_full_managed_business_coordinator.mjs:271` and
`:293`). Theorems `StateFileIsTrue` (`CoordinatorSafety`), `CompletionIsFinal`
(`CompleteIsFinal`).

**WarehouseProofs, the publication.** `CoreNeverAhead` says nothing of the
script's position, yet it is kept only because of what the script has done when
it gets there: `SnapshotIsNew` (the snapshot is no older than the published core
or than the runs to be marked), `StagedFiles` (home and core come from the
snapshot, the shipping index from that one or a later one), `Promoted` (which
files are in place after so many moves). `InTimeReady` is needed because a run
that becomes ready gets its facts then: no run to be marked can be such a run.
`StepKinds` reduces every step to an arrival of facts, a marker, a move of a
unit or a step of the script. Theorems `DashboardTypes`, `CoreIsLast`,
`PublishedIsShown`.

**AuthorizationProofs.** `OneActiveBatch` and `UniqueBinding` follow from
`TypeOK` with a case per action: creating a batch revokes the others in the same
mutation, a rejection reopens a batch only if none is active, and a callback
that completes has looked at every row of every batch for the supplier,
whichever key it has. `ReceivedIsKept` needs `OpenRows`: a row with an open
callback state is not received, and has one such state at most; hence a callback
that completes finds a row it may overwrite. Theorems `AuthorizationTypes`,
`OneLinkWorks`, `BindingsAreUnique`, `ReceivedRowsAreKept`.

Receipts need no lock. `ReceiptsInv`: a row under review has the receipt of the
callback that completed it; a reviewer that has moved a receipt away holds it
alone, since a rename has one winner; a reviewer deletes a receipt only when no
row refers to it any more. It is inductive for any number of finalizers,
rejecters and faults, hence `ReceiptsAreKept`, even where the lock is lost.

The configuration does need it: it is read in one step and written whole in
another. `ReviewInv` adds that what a finalizer in its critical steps has read
is the configuration, but for its own store (`ConfigInv`), and that an approved
row's supplier is configured or a failed rollback of its store was reported
(`ApprovedInv`). That the *fingerprint* of the row is the one configured is not
true (section 6), so the proof has to follow which receipt a finalizer holds and
which one its row names when it approves and when it takes the approval back. It
is inductive as long as one finalizer at a time is in its
critical steps, so `ReviewIsSafe`, `OtherStoresAreKept` and
`RollbacksAreComplete` have the hypothesis `[]LockIsExclusive`. The lock
directory does not provide it in general: that is the finding of section 6. What
it needs is that no two invocations are at once between finding a dead owner and
renaming its directory away (`OneReaper`, a condition on each state, for any
number of invocations). `LockInv` says that whoever is about to reap still has a
dead owner before it: `OneReaperIsSafe` proves `LockIsExclusive` from
`[]OneReaper` and concludes all three of the specification itself.

**V4CollectionProofs.** One execution, the collector, ever passes `RUNNING`
(`OneInv`); it alone touches attempts, pages and observations, and walks the
plan in order. `OpeningInv` and `ClosingInv` say for its place in either order
what the ledger holds for the grains before, at and after it; `OutcomeInv` that
its memory of outcomes is the ledger's; `ConcludedInv` that what it is about to
publish is proven. The other executions can only end the run early, and only
before a second grain is open (`LateInv`). `FailingInv` counts faults: the
clean-up is entered with one, so without another it closes everything.
`EndedIsFinal` is about every ended run, FAILED ones included, and every ended
attempt; the one thing that still happens under a FAILED run, an attempt opened
late, has no evidence and ends FAILED. It needs `FetchedInv`: there is evidence
only once every grain has been started, so that whoever could still open an
attempt comes before it all. Theorems `CollectionIsSafe` (`CollectionSafety`),
`CandidatesAreProven` (`CandidateIsProven`), `EvidenceIsFinal` (`EndedIsFinal`).

**BackfillProofs.** The invariant has three layers, as what the code promises
has. However executions overlap, `TablesInv` holds: a checkpoint cites a
success with its fingerprint, which the foreign key and the commit's guard pin.
One after another, `SequentialInv` holds: one execution at most is alive, and
what it read is what the tables say, up to its own commits; hence one schema per
grain, and a run closed as SUCCEEDED has every window (`LanesAreOver`: when the
lanes end, every window has a result). Without faults and within the ordinals,
`QuietInv` holds: every attempt in the supply ledger is counted in its window's
row, or is the live execution's own; hence the next ordinal is new.
`MemoryInv` says where the lanes are. Theorems `RowsAreTrue` (`BackfillSafety`),
`AttemptsAreNew` (`OrdinalsAreFresh`), `SuccessesAreKept` (`SuccessIsKept`).

**SupplyProofs.** A run works for a long time on what it read, and writes it
under the time of its plan. Two facts carry the proof: no two runs are planned
at one instant, so the rows of a time are the rows of one run; and a run adds
rows of its own only (`Grows`). `PhaseInv` says what the memory of a run
contains at each place (attempts opened in the order of the request, no result
left open when inventory begins, what is closed was opened), `TracesInv` what
the tables hold of it: its events have its scope and time (`EventsInv`), what it
takes for loaded is stored and shown (`ResultsInv`), its projections are there
only once it loaded them (`BatchesInv`), and the SKUs it asked for are the
active ones until a sales load moves them (`AuthorityInv`). `LedgerInv`,
`DocumentsInv`, `RelationsInv` and `ProjectionsInv` say what then holds of the
rows alone. That one version of a document is current, for example, needs that
no stored line is newer than the row, or a load could revive one. Theorems
`DocumentsAreTrue` (`DocumentSafety`), `LedgerIsTrue` (`LedgerSafety`),
`StoredNeverGoesBack` (`NothingGoesBack`), `TotalsAreTrue` (`TotalsAreWhole`)
and `DashboardIsTrue` (`DashboardSafety`).

`DashboardIsTrue` has the hypothesis `BackfillsOfDocuments`. The dashboard takes
the standing of a domain from live attempts and its figures from the latest
projection batch, of whatever scope; a backfill of inventory or advice that is
planned after the last live run would put its own figures under the live run's
standing. The backfill of this repository asks for purchase orders only
(`src/backfill/purchase-order-adapter.mjs`), and the requests of `MCSupply`
satisfy the hypothesis; the command line of the script would accept any domain.

**WebhookTablesProofs, the cutover.** `AckedIsServed` holds through a cutover
because of what the tool knows of both sides when it sends COMMIT: `CommitInv`
(the snapshots are of the present, the approved plan was computed from exactly
these, and the source has every receipt of the target, none set back).
`SnapInv` says how it gets there: a side that is locked is as its snapshot shows
it. Sequences are no part of a snapshot and are read live, so `RowsInv` keeps,
for each side and each open transaction, that the sequence has passed every key
and that every duplicate took a value of its own. `QuietInv` says that nobody
writes while the tool runs or while its readiness may be believed, `ServeInv`
that only the side the webhook goes to is written to. The services may be
stopped, started and switched, and the tool may die at any place and be started
again with an old approval. Theorems `CutoverIsSafe` (`CutoverSafety`),
`CutoverKeepsReceipts` (`ReceiptsAreKept`), `CutoverFollowsThePlan`
(`OnlyTheApprovedPlan`).

They have the hypothesis `Drained`: the operator starts the tool when no
transaction of a stopped service is open any more, which section 7.4 of
`docs/runbooks/fnos-cutover.md` has him check. Without it `SnapInv` is not kept
by `LockTables`, and TLC refutes all five properties (section 6 tells of one):
the tool's own locks come after its snapshots and do not replace the check.

**WarehouseProofs, product identity.** `IdentityInv` follows a plan from what it
was made of to what it left behind. `BatchInv`: a sealed set repeats the fetch
batch of its SPU, hence one answer per SPU. `PlansInv`: the nodes of a plan hold
sealed sets, one node per SPU, and sets are never changed once sealed, so a plan
stays true however long it waits for approval. `ApplyInv`: between snapshot and
lock the SKUs that nobody has touched, and from the lock to the commit all of
them, are where the evidence saw them. `MappingInv`: a candidate is stored with
all others of its plan and audit, each of them is the assignment of its SKU, and
the products of its components are exactly their members; so a product belongs
to one plan. `MappedFacts` draws from it that the SKUs of a product are the SKUs
of one component of one plan, and `ComponentFacts` that such a component is a
confirmed clique of two stores at least (the cardinalities of `Components` make
the store of a node injective). `PairEvidence` translates the matcher's verdict
into what `MappedMeansMatched` says of attributes and barcodes. `SecondLook` is
the argument for the verification after the commit. Theorems `IdentityIsSafe`
(`IdentitySafety`), `IdentityMapsListedSkus` (`MapsListedSkus`),
`IdentityReportHolds` (`ReportHolds`). The assumptions are that SKUs and SPUs
are numbers in the order they are sorted in, that there are finitely many SKUs
and curated attributes, and that catalog and answers are of the stores they
claim to be of.

Model-checked only: liveness (`EventuallyResolved`, `EventuallySettled`,
`ResumableToTheEnd`, `EventuallyShown`: fairness and ENABLED are out of the
prover's reach), and `FinalizersKeepOtherStores`, which is refuted.

## 6. Findings

`authorization_lock`, which TLC refutes and `PROJECT.json` describes with its
lines: two finalizers that both find a dead owner's lock can both move a lock
directory away, the second one a living owner's; the later write of the whole
configuration drops the other store.

Other disagreements between the code and what it or its documents say. Their
formulas are in the modules; TLC refutes each in seconds on the instance named,
which differs from the configuration of the module's run as stated.

| formula | instance | what happens |
|---|---|---|
| `GapsAreRecorded` (`Coordinator`) | `Plans <- RealtimePlan`, `Spec` | a sales summary with a store to retry and a store with a terminal gap loses the gap: the retry of the other store completes the stage without it (coordinator, line 417; the test at `tests/infra/full-managed-business-coordinator.test.mjs:281` speaks of no silent completion) |
| `UnreadableNeverCompletes` (`Coordinator`) | `Plans <- SupplyPlan`, `Spec` | exit 2 without a readable summary is fatal for sales only; other stages complete (line 479; `docs/runbooks/fnos-candidate-patch-20260906.md:21` says it must not complete silently) |
| `DeferralsRecover` (`Dashboard`) | `EventSpec`, one run, one fact, one fault | after a deferral nothing but a later request or a scheduled run starts the retry unit (enqueue script, line 31, against its comment at lines 29 to 30) |
| `DroppedMeansShown` (`Dashboard`) | `EventSpec`, no run, two facts, no fault | a request written between the database snapshot and the staged file is dropped although the published file lacks its fact (enqueue script, line 22, against lines 20 to 21); the schedule repairs it |
| `ApprovesWhatItWrote` (`Authorization`) | one batch, one finalizer, one rejecter, no fault | the operator starts a rejected store over before the rejecter reads the row back, and the rejecter puts its receipt back (reject script, line 321); a later callback of the same supplier gives the row a second receipt; a finalizer that holds the first one writes its keys, and `approveStore` (`src/authorization/file-store.mjs:607`) compares status and supplier only: the row is approved with the fingerprint of keys not in use, and the second receipt stays (`docs/remote-authorization.md:54` says the receipt is deleted exactly and only the audit fingerprint kept) |
| `RunIsNotLeftOpen` (`V4Collection`) | one page, one fault | a call that fails between preflight and RUNNING leaves a run that can neither go on nor fail: migration 0028, line 116, demands `started_at` beside `completed_at`, against "must not leave the run open forever" (`scripts/run_full_managed_v4_collection.mjs:504`) |
| `NeverCollides` (`Backfill`) | three executions one after another, one window, `MaxOrdinal = 3`, no fault | the attempt refused at the last ordinal is counted, the next execution reads that count as none and starts at ordinal 1 again (`src/backfill/runner.mjs:113`, `:226`; `docs/backfill-and-webapi-experiment.md:102` says ordinals are not reused) |
| `SequenceIsAhead` (`Cutover`) | `Drained = FALSE` | a writer that commits while the tool waits for its table locks is not in the snapshot, and the sequence is restarted below its key (`scripts/fnos_webhook_cutover.mjs:640`; `docs/runbooks/fnos-cutover.md:486` says the lock closes this race); the read-back reports it, the sequence stays |
| `FailedDomainStaysAlone` (`Supply`) | no fault | an order changed under its update time rolls back the one transaction of the primary domains, and the delivery fetched with it ends as FAILED (`scripts/sync_full_managed_supply.mjs:1035`; `docs/architecture.md:57` says a failed domain does not affect others) |

`JitFollowsTheOrder` is stated for runs that do not overlap because it fails
otherwise: relations are retired up to the time a run was planned at, orders by
their update time, so a relation stored by the later plan with the older order
outlives the newer order.

## 7. Plan

Done, in this order: queue with its abstract inbox and proofs, hydration,
coordinator, dashboard with proofs, authorization with proofs, V4 collection,
backfill, cutover, supply, product identity; then the proofs of each of them.
Every invariant and action property that a passing run checks is a theorem, some
under a hypothesis that section 5 names.

Next modules, in the order of what they would add: `Sales` (the quality gate of
a batch, the retry on mixed statistics dates, watermark and marts; it would
give `SalesLoad` and `CatalogLoad` their own source), `FileLock` (the state
file's lock, stale after 30 s, and the finalization lock, with a failing release
after a committed write; it would replace the assumption that a failed mutation
has written nothing), `HostLanes`, `UpdateStream`.

## 8. Not modelled

The map covers the state-changing core: about an eighth of the implementation's
lines. Most of the rest is not a state machine, and modelling it would restate
it:

- The web interface (`src/web/app.js`, 14,903 lines) renders in the browser.
- Portal queries, `src/server/dashboard-data.mjs`, the contracts under
  `src/webapi-history` and the row builders of the collection scripts are pure
  normalisation, filtering and totals over data whose shape the models
  abstract; the portal server and its access control read immutable
  configuration.
- The projections (`src/warehouse/dashboard-materializer.mjs`, operations,
  order management, shipping) are SQL and aggregation; when their files are
  staged and promoted is in `Dashboard`, the supply summaries are in `Supply`.
- In the large repositories that are modelled (supply, product identity, V4,
  cutover) what remains is argument checking, SQL text, the comparison of each
  column and the read-only queries of the portal.
- OpenAPI client, sessions, store login, browser experiment: I/O with the
  platform, whose failures are outcomes of the modelled callers.
- Sales synchronisation is modelled by its effects only (section 7).
- Backups, disk guard, releases, health report: sequential shell over external
  tools, or read-only reports.
- Inside the modelled components: heartbeat and subscription rows, the lease
  renewal that nothing calls, the hydration marker (a timer starts that runner
  anyway), date arithmetic of the plans, routing of stores to applications and
  cookies, file permission checks, the stale lock of the authorization state
  file and a lock taken from a living owner, pages and retries of one supply
  fetch, the relation evidence of a product match, the wording of every message.
