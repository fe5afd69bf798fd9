# Sentinel TR-069: formal models

TLA+ specifications of Sentinel, a Go control plane in front of GenieACS (the
TR-069 ACS): an HTTP server (`cmd/server`) and any number of worker processes
(`cmd/worker`) that share PostgreSQL, a Redis stream and the GenieACS NBI. Almost
every hard behaviour of the program comes from that shape: an operation is a
sequence of database statements and HTTP calls with no transaction around it, so
what it read may be stale when it writes, and it can stop after any of them.

Paths below are relative to `src/`.

## 1. Inventory

| Component | State | Operations | Hard behaviour | What makes it correct | Here |
|---|---|---|---|---|---|
| **Provisioning queue** `application/provisioning`, `postgres/provisioning_repo.go`, `infrastructure/redis/streams.go` | rows of `provisioning_jobs` and `provisioning_batches`, Redis stream, in-memory executors | ApplyToDevice, EnqueueFields, ApplyBulk, Approve; RunOnce (poll), RunByID (stream), MarkDone/MarkFailed, RecountFromJobs | two executors of one job, announcements lost, crash after a claim, a 90 s context shared by a whole claim, writes that are not conditional on the status | a job runs in one place, is retried a bounded number of times, settles once, and its batch counts it | `Provisioning` |
| **Homologation** `application/homologation`, `postgres/homologation_repo.go` | sessions, mappings, generated profiles, records of homologation, probe goroutines | StartSession, probe, ResetProbe, Abandon, AddMapping, RemoveMapping, tests, Complete, Deprecate, boot recovery, purge | a probe of up to five minutes against operators, other probes, restarts; Complete is six statements | no session stranded in `probing`, one active session per device, only tested mappings are homologated | `Homologation` |
| **Templates** `application/templates`, **device profile view** `application/devices` | profiles, parameters, versions, history; nothing of its own | Create, Update, rendering, ApplyBulk's gate; UpdateFields | Update reads, checks `homologated`, writes later; a reader takes two statements | a homologated profile does not change; jobs carry what was homologated; a version names one content | `Templates` |
| **Diagnostics** `application/diagnostics` | `diagnostics`; one `DiagnosticsState` for each kind of test of a device | EnqueuePing/Traceroute, PollAll, PollOne, refresh | two tests on one object, GenieACS's copy older than the device, poller against request, a page of 50 rows | a test reports its own result, ends, and ends once | `Diagnostics` |
| **Telemetry** `application/telemetry` | five tables of samples | Tick: list, parallel reads, one COPY for each kind | samples are minutes old when they are written, one value spoils a COPY for all devices, several sources for one radio | no host or client counted twice; samples of online devices arrive | `Telemetry` |
| **Alerting** `application/alerting`, **notifiers** | rules, alerts, log of notifications | Tick, Acknowledge, Resolve, edits of rules, notify | operators between the steps of a tick, windows shorter than a collection, dropped errors, a tick that dies between an alert and its channels | one open alert per rule and device, resolved when the cause is gone, every channel told | `Alerting` |
| **Inventory synchronisation** `application/inventory` | devices, vendors, models | Tick, DeleteDevice, SetModel, vendors and models by hand | a snapshot of GenieACS older than an edit or a deletion; two ticks at once; unique keys that two creators race for; a key that refuses a deletion | rows come to say what the devices report, deletions end | `Inventory` |
| **ERP integration** `application/integration`, `infrastructure/erp` | customers, watermark, OAuth token | Tick (the loop's, and one at boot beside it), token refresh | two ticks share a watermark and write pages of different age, an error in the middle of a page, a revoked token, logins that move between customers | no change of a customer is skipped | `ErpSync` |
| **GenieACS client and cache** `infrastructure/genieacs` | 30 s cache of device reads (server only) | reads, tasks, Invalidate | a read that started before an invalidation fills the cache after it; the workers' pushes do not invalidate | a stale read lasts at most the TTL | environment |
| **Identity and access** `application/identity` | users, sessions, pre-authentications | login, second factor, disable | a user disabled between the two steps of a login | a disabled user gets no session | no |
| **ACL synchronisation** `application/acl` | one file | Tick | rename, external reload | the last table wins | no |
| **Rate limiter** `platform/ratelimit` | a window in Redis | Allow | one pipeline | at most n per window | no |
| HTTP transport and views, platform, migrations | none of their own | I/O, rendering, parsing, configuration | | | no |

Interactions: the server calls the services in process; the services and the
workers communicate only through rows and the stream. A worker process has one loop that
runs the periodic ticks (inventory, ERP, collector, alert engine, diagnostics, clean-up), one
after the other, and goroutines beside it: those of the queue, and at boot a full tick of the
ERP 15 s after the start (`cmd/worker/main.go:226`), which may overlap the loop's ticks of the ERP. The
server's "Sincronizar agora" runs a tick of the inventory beside the worker's. `Complete` creates a profile of Templates and its
record of homologation; `ApplyBulk` and `UpdateFields` read both and make jobs of the
queue; the collector's samples are what the alert engine evaluates; the ERP's customers
are what the inventory links devices to. `PROJECT.json` lists the hazards of each component
with their lines and the properties about them; a hazard without a property has a note that
says why.

## 2. Modules

| Module | What it is |
|---|---|
| `JobPromise` | what the queue promises about one job; no storage, no workers |
| `Provisioning` | the queue: server, stream, polling and stream executors, faults |
| `MCProvisioning`, `Prov*.cfg` | its instances for TLC |
| `ProvisioningProofs` | its theorems |
| `Homologation` | the wizard: sessions, probes, mappings, tests, completion, faults |
| `MCHomologation`, `Hom*.cfg` | its instances for TLC |
| `HomologationProofs` | its theorems |
| `Templates` | profiles: edits, the wizard's Create, and the loads, the gate and the rendering of provisioning, UpdateFields |
| `MCTemplates`, `Templates.cfg` | its instance |
| `TemplatesProofs` | its theorems |
| `HistoryProofs` | its theorems about the history of profiles and what payloads name |
| `Diagnostics`, `DiagPoll.cfg` | remote tests: requests, GenieACS, devices, the poller |
| `DiagnosticsProofs` | its theorems |
| `Telemetry` | the collector and its parser |
| `Alerting` | EXTENDS Telemetry: rules, the engine, operators, notifications; the composition of the two |
| `MCAlerting`, `Monitoring.cfg` | its instance |
| `AlertingProofs` | theorems about both |
| `CustomerRows` | the table of customers: its unique key and one upsert; what the next two share |
| `ErpSync` | EXTENDS CustomerRows: the two ERP ticks, their watermark and token |
| `MCErpSync`, `ErpSync.cfg` | its instance |
| `Inventory` | EXTENDS CustomerRows: the inventory's ticks, deletions, vendors, models and sessions; customers are written by upserts that the key accepts |
| `MCInventory`, `Inventory.cfg` | its instance |
| `InventoryProofs` | theorems about both, and that the ERP's ticks do to the customers what `Inventory` takes them for |
| `Induction` | induction over the natural numbers, and functions computed step by step, for the proofs about lists |

Operators whose comment starts with "Faulty variant" are no part of a
specification. Each is a definition with a plausible bug, and TLC finds the
property named with it in `PROJECT.json` violated when it replaces the sound
definition.

### 2.1 Provisioning

**State.** `status`, `retries` and `due` are the columns `status`, `retry_count` and
`scheduled_at <= NOW()` of a job; `batch` the row of a batch; `todo` the devices a
running ApplyBulk call has not reached. `stream` holds what was announced and not
delivered to the group, `inbox` what a stream goroutine has read. An executor is a
worker process with one of its two goroutines; `claimed`, `seen`, `pc`, `cur`,
`outcome` and `expired` are the rows it holds in memory, the `retry_count` it read,
its place in the loop, the job it runs, what `execute` returned, and whether its
90 s context is over; `count` is what its recount has counted and not written yet. `sends`,
`overlapped` and `faults` are history.

**Actions.** One for each statement or HTTP call that changes state:

| Action | Code |
|---|---|
| `ApplyToDevice` | ApplyToDevice and EnqueueFields: insert, then notify |
| `StartBulk`, `BulkQueue`, `BulkReject`, `BulkAbort` | ApplyBulk: batch row, one job for each device, a device that is refused, an insert that fails |
| `Approve` | Approve |
| `ClaimBatch` | RunOnce's claim, `FOR UPDATE SKIP LOCKED` |
| `ConsumeProvisioning`, `Fetch` | XREADGROUP, then RunByID's read of the row |
| `Send` | execute: look the device up and post the task |
| `MarkDone`, `MarkDoneFails` | MarkDone, or its error, which execute returns as retryable |
| `MarkFailed`, `MarkFailedLost` | back to the queue or failed for good, or the dropped error |
| `TakeSnapshot`, `Recount` | RecountFromJobs: the snapshot its statement counts in, and the write of the batch row, or its dropped error |
| `SkipRecount` | a job without a batch |
| `BackoffElapses`, `ContextExpires`, `Crash` | time and failures |

**Decisions.** A database statement is atomic, but for RecountFromJobs: under READ COMMITTED its
`SELECT COUNT` sees the snapshot of its start, waits for the lock of the batch row if another recount
has it, and then writes what it had counted, so an older count may be written last. Count and write
are two actions, and `overlapped` is the batches whose last recount began while another one of that batch
was between the two: the only ones of which `DoneCounterExact` and `BatchReportsOutcome` say nothing. The insert of a job and its
announcement are one action: between the two, a poller can only do what it can do when
the announcement is lost, and `Notify` may be lost. Every job is announced once,
so the stream is a set. The pending list of the consumer group is never read again
(each process has a consumer name of its own), so XACK changes nothing and is left out.
A fault is a crash, an expired context, or a statement that fails without effect;
a statement that commits and whose answer is lost is not modelled. The answers of the
NBI are free and are no faults: refused, retryable, or retryable *after* the task was
stored, which is the case that makes a retry a second push.

**Left out.** Cancel (the service has no such operation), the deletion of a device with
jobs, the homologation gate of ApplyBulk and rendering (a device "renders" or not), the
values sent.

### 2.2 Homologation

**State.** `status`, `finished`, `probed`, `generated` are the session's columns
(`finished_at`, `tree_snapshot IS NOT NULL`, `generated_profile_id`); `row` the mappings
with their two test results; `profile` and `record` what Complete makes. `call[c]` is a
request or a probe's goroutine in flight: its next statement (`at`), its session and
mapping, the status it means to restore (`back`), the mappings and the name of the
profile it makes. `tested` and `faults` are history.

**Actions.** `Request*` is the part of a handler that reads and decides; each later
statement is an action of its own:

| Action | Code |
|---|---|
| `StartSession`, `Abandon`, `SkipWriteTest`, `Deprecate` | requests of one statement |
| `RequestProbe`, `MarkProbing` | the handler, before it starts the goroutine |
| `ProbeRead`, `ProbeMark`, `SaveSnapshot`, `ProbeSettle`, `SecondPass`, `Rollback` | Probe and its deferred recovery |
| `RequestReset`, `ResetProbe` | ResetProbe |
| `RequestMapping`, `AddMapping`, `RemoveMapping`, `RunReadTest`, `RunWriteTest` | mappings and their tests |
| `RequestComplete`, `ListMappings`, `CreateProfile`, `ReplaceParameters`, `RecordHomologation`, `SetGeneratedProfile`, `FinishSession` | Complete |
| `StatementFails`, `Restart`, `Ages`, `PurgeOldSnapshots` | failures, boot recovery, 30 days, the purge |

**Decisions.** `UpdateStatus` is unconditional but for the partial unique index
(`Blocked`), as in the SQL; the check of `ActiveByDevice` is subsumed by it. A tree is
there or not; a test passes or not. `TestAllPending` and `ApplyAutoMap` repeat the single
requests and add no state. `Ages(s)` is 30 days in which no call of `s` is in flight: every
call ends within minutes. `Restart` kills every call and runs `ResetStuckProbing`, which
the boot does before it serves.

**Left out.** UpdateMappingTemplate and values, the lab flag and the model of the device
(inputs of StartSession), failures of the boot recovery's own statement, and several
server processes (the deployment runs one).

### 2.3 Templates

**State.** `row`, `params`, `history` are `config_profiles`, `profile_parameters` and
`config_profiles_history`; `record` the profile's row of `model_homologations`. `call[c]` is a
request in flight: its kind, its next statement, the form or the row it has read, the
parameters it has read, what it changes. `jobs` is the last job made since the last
request; `disturbed` and `faults` are history.

**Actions.** `RequestCreate`, `RequestUpdate`, `RequestApply` and `RequestFields` are the forms.
Create is `InsertProfile`, `FillProfile`, `ReadSnapshot`, `AppendHistory` (and `RecordHomologation` for the
wizard's); Update is `GetProfile`, `CompareParameters`, `UpdateProfile`, `ReplaceParameters`,
`IncrementVersion`, `ReadSnapshot`, `AppendHistory`. ApplyToDevice and ApplyBulk are `LoadProfile`,
`LoadParameters`, `HomologationGate` (bulk) and `RenderJob` for each device; UpdateFields is
`FindActiveByModel`, the two loads and `EnqueueFields`. `Deprecate` and `StatementFails` come in
between.

**Decisions.** A template is its root variable, its last filter and its type: that decides
between a value and an error, which is all that `RenderProfile` tells apart. A header is
one value (name, description, vendor and model), `Generic` those without a model. `is_homologated`
is written by the wizard only. Homologation's own steps before and after Create are in
`Homologation`, which has the profile as one row.

**Left out.** The text functions of the filters, values, labels and categories of the profile
view, SetActive (no caller), the suggestion of names.

### 2.4 Diagnostics

**State.** `row` and `since` are `diagnostics` and its order by `requested_at`; `request[t]` the
stage of the HTTP request of a test; `worker` the poller: the rows it has listed, the one in its hands and what
it has read. `tasks` and `refreshes` are what GenieACS has stored for a device, `cpe` the object
in the device, `doc` GenieACS's copy of it: its `DiagnosticsState` and, of its result parameters,
the test they belong to. `crowded` is history: tests that shared their object with a test that
could still be written.

**Actions.** `Enqueue`, `SetParameterValues`, `RequestRejected`, `Acknowledge`, `RequestDies`
(EnqueuePing/Traceroute); `RefreshTelemetry`, `CooldownEnds` (the button and its gate);
`StartTick`, `PollOne`, `GetDevice`, `GetDeviceFails`, `Complete`, `TickFails` (PollAll, PollOne); `DeadlinePasses`;
`ExecuteTask`, `ExecuteRefresh`, `TestEnds` (GenieACS and the device).

**Decisions.** GenieACS keeps tasks of an object in order; a task that sets parameters also tells
GenieACS what it has set. The two writes of the repository look at no status, as in the SQL. What
was refused may still be stored (the answer was lost). Values of the results, defaults of
the forms and the choice of the data model are left out.

### 2.5 Telemetry and Alerting

**State.** `tree` and `online` are what GenieACS and the inventory know of the devices; `rows` four of the five
tables, with the minutes since the time stamp of a sample; `collector` the tick in progress and the minutes it
has run (`age`); `rule`, `alert` and `since` are `alert_rules`, the open rows of `alerts` with their notifications, and
the minutes since a rule fired; `engine` the tick in progress, and whether a minute has passed during it (`late`). `due`,
`clock` and `busy` are the worker's loop: the ticks that are due, the minutes to the collector's next one, and how long
what is due has waited. Of an alert, `cut` and `unread` are history: its delivery was cut off; it was opened by
a tick that could not read the open ones.

**Actions.** The collector: `StartCollect`, `CollectDevice`, `DeviceReadFails`, `InsertKind` (one COPY),
`CollectFails`, `CollectDies`. The engine: `StartTick`, `EvaluateRule`, `AutoResolve`, `Check`, `CreateAlert`, `Deliver` (one
channel and its record), and `RuleFails`, `ListFails`, `TickDies`. Operators: `SetRule`, `Acknowledge`,
`Resolve`. `Minute`, `Inform` and `SetStatus` are time, devices and the inventory's tick. The parser (`ParseSystem`,
`ParseWan`, `ParseWifi`, `ParseHosts`) and the condition language (`Valid`, `Window`,
`Aggregate`, `DeviceStatus`, `Triggers`) are operators.

**Decisions.** The loop runs one tick at a time, so a tick of the collector and one of the engine do
not overlap. Time passes during both: a tick of the collector takes up to `CollectTimeout` minutes (4 in the
code), one of the engine ends within 45 s, so that one minute at most ticks meanwhile, and the loop's other ticks may keep what is
due waiting for `MaxBusy` minutes. A sample carries the start of its tick, however late it is written
(`collector.go:108`), and the engine's windows and cooldowns end at the start of its own. Operators come at any
moment, but an edit of a rule waits for the tick, which keeps its own copy of the rules: an edit during
it shows from the next tick on. Alerts that are closed free their number. Averages are
fractions. A tree has the parameters the parser chooses between; a number is an integer,
other text is `Text`. A page of List has `PageSize` devices (50 in the code, whatever more is asked).

**Left out.** The ports and their COPY, where a host is attached, counters of bytes and transmit powers (no decision
reads them), retention and hourly aggregates, pages that show the series, SetActive and Delete
of rules (no handler calls them), the text of the messages, two filters of `device_status` besides the
status.

### 2.6 Inventory and the ERP

**State.** `customers` are the rows of the customers (`CustomerRows`). `ErpSync`: `erp` is the login of each customer in
the ERP; `modified` stands for the watermark: what the ERP lists for a tick that starts now; `erpTick[t]` is the boot's tick or
the loop's: the page it asks for, whether anything failed, what was modified before (`asked`) and since it began (`fresh`), and
what is left of the page's answer; `token` the token both use. `raced` is history: customers edited between
the starts of two ticks that overlap. `Inventory`: `acs` is what GenieACS knows, `row`,
`vendor` and `models` are the tables, `tick[t]` a tick in progress (the worker's or an operator's) with its snapshot,
its cache of vendors and what it has resolved, `deletion` the request that deletes a device, `tested` the devices a
homologation session refers to.

**Actions.** `StartErpTick`, `AskPage` (one HTTP call), `UpsertNext`, `UpsertFails` (one statement), `PageDone`,
`ErpTickFails`, `ErpRestart`; `EditCustomers` and `Revoke` are the ERP. `StartTick`, `BeginDevice`, `CreateVendor`,
`ReadVendorAgain`, `ResolveModel`, `FindCustomer`, `FindExisting`, `UpsertDevice`, `DeviceFails`, `TickDies`, `Restart`;
`BeginDeletion`, `DeleteFromACS`, `DeleteRow`, `DeletionFails`; `SetModel`, `CreateModel`, `NewVendor`,
`RenameVendor`, `StartSession`; `CustomerWritten` is one upsert of the ERP's ticks, `Report` is GenieACS.

**Decisions.** A page of customers is read in one step and upserted one customer after the other, each of
which the unique key may refuse; the other tick, the ERP and failures come in between. The ERP
lists by id, in pages by position (`Rank`, `Page`). The watermark is the start of the last tick without errors, whichever of the two
ended last: `SinceAfter` puts the customers modified since that start in `modified`, so an older tick
that ends last puts the watermark back, which is harmless, and a newer one that ends first leaves the older one's
late upserts behind it, which is the race `raced` names. `Inventory` does not repeat the ERP's ticks: it takes them for upserts the
key accepts, at any moment (`CustomerWritten`), and `ErpWritesRows` proves that they are nothing else. A
delete of a row that a homologation session refers to is refused (`ON DELETE RESTRICT`), after GenieACS was told. What a tick reads in a
report is an operator for each fact (`Manufacturer`, `ModelName`,
`Serial`, `Login`, `Facts`, `Status`), with its paths in the order of the code; an id is its three parts. The
OUI registry, the chipset names and the slugs are constants.

**Left out.** MarkLab, POPs, LinkCustomer and MarkInform (no caller), `tr_data_model`, tags and last
boot (copied as they are), ResetSince and GetCustomerByID (no caller), the JSON of the ERP
besides id and login.

## 3. What the runs show

| Run | Instance | Result |
|---|---|---|
| `prov_poll` | 2 workers, no Redis, a single job and a batch of one that awaits approval, claims of two, MaxRetry 1, 2 faults | types; `ExclusiveExecution`; the queue refines `JobPromise` |
| `prov_stream` | 1 worker with poller and stream goroutine, a batch of two, claims of one job, 1 fault | `RetryBound`, `DoneCounterExact`, `JobsSettle`, `BatchReportsOutcome`, `QueuedIsTaken` |
| `prov_terminal` | one job, Redis | **violated**: `TerminalIsFinal` |
| `prov_approval` | a batch of two, threshold 1 | **violated**: `ApprovalBlocksQueue` |
| `hom_probing` | 2 sessions on one device, 2 calls, 1 failed statement, restarts | `ProbingHasProbe`, `TestingHasTree`, `OneSessionPerDevice`, `ProbingEnds` |
| `hom_complete` | 1 session, 2 mappings of one key (one secret), 2 profile names, 2 calls, restarts | types, `HomologatedIsTested`, `CompletedHasProfile` |
| `hom_abandon` | 1 session, 1 call, no faults | **violated**: `AbandonCancelsProbe` |
| `templates` | 1 profile, a header with and one without a model, 2 contents, 2 requests in flight, up to version 2 (and what edits in flight add), 1 failed statement | types, `HomologatedImmutable`, `SnapshotsExact`, `BulkIsHomologated`, `FieldsAreHomologated`, `PayloadOfVersion` |
| `diag_poll` | 2 tests, 1 object, a tick of one row, 1 failure | types, `AloneReportsItself`, `ResultStays`, `TestsEnd` |
| `monitoring` | 1 device with three trees, 1 rule edited between a window of two minutes and two channels and a window of one and one channel, 2 alerts, a collector every 4 minutes that takes up to 1 and may wait for 1, 1 failure | types, `RowsCountOnce`, `OneOpenAlert`, `ChannelsRecorded`, `HotFires`, `CalmResolves` |
| `erp` | 2 customers on pages of one and a login between them, the boot's tick beside the loop's, 2 edits, 1 failure, revoked token or restart | types, `NonePassed`, `RowsFollowErp` |
| `inventory` | 1 device with two reports, a worker's and an operator's tick, 2 customers and a login between them, 2 vendors, one edit or tick of an operator, a homologation session, 1 failure | types, `DeviceSynced`, `LinkFollowsLogin`, `DeletionsEnd` |

The properties, in words:

- *Without Redis* the queue is as good as it can be: a job is in one pair of hands,
  `running` while it is, pushed at most `MaxRetry + 1` times, done only after a push, and
  settled for good, with crashes and lost writes anywhere. What a crash does cost is
  progress: a row left `running` is never claimed again (no property says otherwise).
- *With Redis* the poller and the stream goroutine of one process can run the same job.
  Retries can then exceed the limit, by less than the number of executors. Without
  failures everything still settles, and the counter of a batch is exact unless its last two
  recounts ran at once: then the older of the two may be written last, and stays, since nothing recounts again.
  Every job whose announcement is lost is taken by polling, even after a crash.
- *Three statements of the repository are not true of the program* (`findings`): a worker
  does take up a terminal job again; a batch that awaits approval does not hold its jobs
  back; and abandoning a session does not cancel its probe.
- *A session* is `probing` only with a probe in flight (while the database answers), is
  `testing` only with its tree, and shares its device with no other active session, however
  late a probe or its recovery writes. A session that was finished for more than 30 days, lost its
  tree to the purge and came back to life is the exception `TestingHasTree` names.
- *A homologation* holds only parameters whose mapping passed both tests at some time,
  and a completed session has its profile, although Complete may stop anywhere and
  two of them may run at once. What was homologated never changes afterwards, although
  Update checks the flag four statements before it writes: the wizard's profiles have the
  flag from the start. Bulk jobs and inline edits carry it as it was homologated; a profile
  loaded between the wizard's insert and its parameters makes an empty job.
- *The history of a profile* has each version once and ends with what the profile is, but for
  profiles two of whose edits overlapped or one stopped half-way: Update writes back the version it has
  read, so both edits may become version 2, and the history keeps the first.
- *A remote test* that shares its object with no other reports its own result, is not written
  over once it is complete and its request over, and ends, whatever GenieACS answers. Of tests that share an object nothing is
  said: nothing in the code tells their results apart.
- *Telemetry* counts each host and client once. A device that goes on reporting a hot value has its alert
  open again and again; one that reports a calm value has it resolved for good. Both hold
  for a rule whose window reaches as far as a slow collection and the engine's wait together (`Wide`, `SlowestAge`). A
  window may be as short as 30s (`dsl.go:41`); where collection is slow it then never holds a sample, `engine.go:121` skips the rule in every
  tick, and it neither fires nor resolves although nothing fails. For such rules the properties ask
  that the engine's ticks find samples again and again (`Heard`). There is one open alert of
  a rule for a device, and its channels are all recorded, but for alerts opened by a tick that could not read the open ones
  and for ticks that died during a delivery: the engine ignores both errors.
- *The customers* come to say what the ERP says, after any failure and any order of the two ticks, and the watermark
  never leaves one behind whose row does not, although pages shift under edits and upserts are apart from their
  page: but for a customer edited between the starts of two ticks that overlap (`raced`). The boot's tick may have that
  customer's older login in its answer, write it last, and nobody asks for the customer again until the ERP edits it or the
  worker restarts. Excepted too are customers who exchange logins in a circle (`Crossed`), which the code never resolves.
- *The inventory* comes to say what a device reports, and the customer whose row has its login becomes its customer, after
  any failure, with two ticks at once. A device that GenieACS has forgotten is not deleted for ever, but for one with a
  homologation session: its row is never deleted. Excepted are vendors whose name is there under another slug.

**Met on the way, and no run.** These are behaviours of the models that contradict a comment or surprise a
reader, and that the properties name as exceptions or do not ask about:

- The migration seeds the vendor TP-Link with the slug `tplink`, the inventory looks for `tp-link`: the insert hits
  the unique name, the second lookup finds nothing, and every device of that vendor fails in every tick (`NameTaken`).
- `sync.go:328` says that the next tick does not create a deleted device again; a tick whose snapshot is older does, and
  GenieACS no longer mentions the device, so the row stays until it is deleted again.
- `sync.go:331` says that the user may then delete the device again and sees no error. For a device with a homologation session every retry
  ends with an error (`00010_init_homologation.sql:41`, `ON DELETE RESTRICT`), and GenieACS has already forgotten the device.
- `main.go:226` lets the boot's tick of the ERP run beside the loop's on the same watermark: see `raced` above. It takes a sync
  interval of seconds or a first tick that lasts until the loop's.
- `service.go:220` says that any error of a probe gives the session its status back; the handler has written `probing` before, and when the
  probe's first statement fails (225), the recovery at 265 is not yet arranged. The session stays `probing` until it is
  reset or the server restarts (`ProbingHasProbe` excepts failed statements, `ProbingEnds` includes them).
- `provisioning_repo.go:292` counts in a snapshot that may be older than the recount it waits for: see `overlapped` above.
- `inventory_repo.go:571` says that a sync keeps the model set by hand; the upsert prefers the reported one.
- `settings_models.go:138` says that the probe or the inventory sync corrects the data model of a model registered by
  hand; the sync finds the row and leaves it as it is (only a model it creates gets the observed one), the probe corrects it.
- `collector.go:182` asks List for 5000 devices; `inventory_repo.go:460` takes more than 500 for 50. Only 50 devices are
  collected in a tick, and `device_status` conditions count at most 50.
- One value out of `NUMERIC(5,2)` loses the system samples of all the devices of a tick.
- `oauth.go:105` retries a token request with a body that has been read; a login swap between two customers never
  converges; a customer whose status has no mapping fails every page and keeps the watermark where it is.
- `UpdateField` sends a secret that is left blank, `UpdateFields` skips it.

**Bounds.** `MaxFaults` (crashes, expired contexts, failed statements), `MaxRetry`,
`BatchSize`, `ApprovalThreshold`, `MaxVersion`, `Limit`, `PageSize`, `PerPage`, `MaxAge`, `MaxHosts`, `CollectEvery`,
`CollectTimeout`, `MaxBusy`, `MaxCooldown`, `MaxEdits`, and the sets. Two executors (two
processes, or one process with both goroutines) suffice for every race in the queue,
which are all between a read and a write of the same job; MaxRetry 1 gives a job that is
sent back and one that fails for good; a batch of two has an unfinished sibling; thresholds
that ask for an approval and that do not both appear. Two sessions on
one device are what the unique index is about, and two calls are a probe against
another probe, a reset, or a Complete. Two mappings of one key, one secret, exercise the
unique constraint, the removal and re-creation of a tested mapping and the skipped
write test. In Templates every race is between two requests on one profile: two edits, an
edit and the wizard, or either and a load; with one profile the unique name refuses nothing
(`Taken` needs two), which the theorems include. Two tests on one object, or one after the other,
are all that can go wrong on an object; a tick of one row puts the second test behind the
first. One device and one rule suffice for what relates a rule and a device; the three trees
disagree between their sources, have a hot value, and one that no column takes. Two
alerts are as many as are ever open in the run: the second is that of the tick that could not read the first. `CollectTimeout` and
`MaxBusy` are one minute each and the one window is two, just `SlowestAge`, the other shorter: with `SlowestAge` one minute
less, or without the premise about the window, TLC refutes `HotFires` and `CalmResolves`. `MaxBusy` is an assumption on the other
ticks of the loop (of several that are due `select` picks one at random, and each has a timeout): without such a bound no window would be
wide enough. Conditions on `device_status` and edits from one subject to another are in the theorems, not in the run.
Two customers pass a login in the order the unique
key refuses, pages of one customer make two pages, and two edits put one between the starts of two ticks and one after
both. One tick of an operator beside the worker's is every overlap of two ticks on one device; it is counted as an edit. The theorems of section 4 remove the bounds
for the safety properties listed there.
`prov_stream` checks liveness under a VIEW that hides `sends`, which
no guard or property of it reads. Symmetry is used in runs without liveness only.
The queue may stop when all jobs are settled, so its runs allow deadlock; all others check
for it.

**Fairness.** Provisioning: `WF` of each executor's next step (its goroutine loops until
shutdown, and every call in it has a timeout), of the loop of an ApplyBulk call that
began, and of time passing for a job that waits. Operators and faults get none. The steps
of an executor are weakly fair together, since a goroutine has one next step at a time.
Homologation: `WF` of each call's next step, by the 30 s timeout of the NBI client, the
timeout of waitForTasks and the five-minute context of a probe; requests, restarts,
ageing and the purge get none. Diagnostics: `WF` of the poller's next step (the worker's ticker)
and of each deadline; no request need finish, no device need answer. Monitoring: `WF` of the
collector's and the engine's next steps and of the minute, and `SF` of the start of a tick that is due: another
tick may get the loop's next turn, but Go's `select` chooses at random among the tickers that are ready, so none is passed
over for ever. ERP: `WF` of each tick's next step and its start. Inventory: `WF` of the worker's tick, of the
next step of a tick that was begun, and of a deletion that was accepted (its calls have timeouts); an operator need not start a tick. Operators, devices, the ERP and faults get none
anywhere, and faults are finitely many.

## 4. What is proved

TLAPS proves these for every value of the constants allowed by `ConstantsAssumption`, with no
bound on faults, requests, rows or workers.

**`ProvisioningProofs`.** The assumption is what the schema says (a job has a batch or
none) and that jobs and workers are finitely many. `TypeCorrect` is inductive on its own. The
others need more:

- `RetryBounded`. `RetryBound` is not inductive: an executor decides on the count it
  *read*. `RetryBudget` counts, for a job, its retries plus the executors that hold it with a
  count below the limit (`Deciders`), each of which may still add one. A retry moves one
  from the second to the first; a claim or fetch adds a decider only when the count it
  reads is below the limit. `Bookkeeping` says that an executor about to write holds the row.
- `DoneCounted`. As long as nothing fails, every job an executor holds exists (`HeldExist`), no context is over
  (`Punctual`), and ApplyBulk makes each job once (`BulkFresh`); then each change of a job's status is
  followed by a recount of its batch. What a recount has counted is exact or followed by another recount (`CountsCurrent`), and
  of a batch that is not `overlapped` only one is between its count and its write.
- `ExecutionExclusive` and `PromiseKept` assume `~RedisUp`, as the properties do.
  `PollInvariant` joins `ExclusiveExecution` with: what an executor read is current
  (`ReadIsCurrent`, from exclusiveness), a queued job has been pushed at most once for each
  retry (`QueuedBudget`), and a job in an executor's hands at most once more after its push
  (`RunBudget`). `BulkFresh` says that ApplyBulk creates each of its jobs once, so an
  insert never meets an existing row. With these every step maps to one of JobPromise
  or leaves its variables alone.

**`HomologationProofs`.**

- `TypeCorrect`: `TypeOK` with `CallSound` (a call holds the session, mapping and profile its
  stage uses).
- `OneSessionEach`: `OneSessionPerDevice` is inductive given the types.
- `TestingTree`: `TreeSound` adds that a call which will restore or set `testing` has
  found or saved the tree. A purge can take the tree away only from an `old` session.
- `ProbingProbe`: `ProbeSound` says the probe in flight is before its second pass and that
  no call means to restore `probing`. It needs `OneSessionPerDevice`: a recovery the
  index refuses belongs to a session that is not active, hence not `probing`.
- `HomologatedTested`, `CompletionHasProfile`: `ResultSound` follows Complete statement by statement; it
  implies `HomologatedIsTested` and `CompletedHasProfile`.

**`TemplatesProofs`.** The assumption is that a form has parameters (the handler refuses one
without) and that generic headers are headers.

- `TypeCorrect`: `TypeOK` with `RowSound` and `CallSound` (what a call past its first statements holds exists).
- `BulkHomologated`, `FieldsHomologated`, `HomologatedUnchanged`: none is inductive, since what a call has read may be old.
  `Sound` is: a profile with a record has the flag (`ProfileSound`); a call that will still write a
  profile either created it or has seen it without the flag, and one that has loaded a homologated
  profile has its parameters, or none if it was loaded before they were written (`CallsFit`); the wizard that fills a profile
  is its only creator (`CreatorsAlone`); and the jobs made so far carry what their properties say (`JobsSound`). That a
  profile never gains the flag after its insert is what makes Update's early check enough.

**`HistoryProofs`.** The same assumption.

- `SnapshotsExactly`: `HistorySound`. An edit of a profile that is not disturbed is alone in it (`Undisturbed`), and what holds of
  the history depends on its stage (`EditFollows`): every version until the increment, all but the last one until the snapshot, whose
  header and parameters are by then those of the profile. Both what Update read and what the database counted
  agree on the version because nobody else counts. That n versions without repetition are n snapshots is a bijection (`VersionsCounted`).
- `PayloadNamesVersion`: `PayloadSound`, with `Sound`. All snapshots of a homologated profile carry the same parameters; a version
  that was once read stays one of those there have been, since no undisturbed edit lowers it (`ProfileGrows`), so the job's is one of them.

**`AlertingProofs`.** The conditions are not opened in the proofs: they hold whatever the samples evaluate to.

- `OneAlertOpen`: `EngineSound` (types; a tick past its list has a rule, one that delivers has an alert) and `OpenSound`: two open
  alerts of a rule, both opened by ticks that had read the open ones, differ in their device, and between `Check` and `CreateAlert` there is none for the rule and the
  device in hand. Operators only close alerts, and the loop runs one tick at a time, so what the check has seen still holds.
- `ChannelsAllRecorded`: `ToldSound`. An alert's channels are those recorded and those still in the engine's hands, in any
  sequence of channels, with repetitions.
- `TypeCorrect`: these two with `RowsSound`, which gives the samples and the collector their shape.
- `HostsKeptOnce`: by induction over a device's tables, what `KeepHost` has kept so far is a list of at most `MaxHosts` rows without a
  MAC twice (`KeptHosts`). The assumption is that a tree has finitely many hosts: no table is read beyond its 64th instance.
- `CountedOnce`: `CollectedOnce`. `RowsCountOnce` is not inductive: an insert could meet rows of the same time stamp. It does not, because
  a tick starts a minute or more after the last one did, and minutes that pass during it age its own rows and itself alike: while it
  reads, all rows are older than it; while it writes, those of its age are of the kinds it has written. A tick reads a device once and
  writes a kind once; so what the tables, or the batch in hand, have of a kind, a device and a time stamp is all that the parser makes of one
  tree, or nothing (a COPY that fails). Of one tree, the Wi-Fi samples are of one source by definition of `ParseWifi`, and the
  hosts are those of `HostsKeptOnce`.

**`InventoryProofs`.** The assumptions (`RowsAssumption`, `ErpAssumption`, `InventoryAssumption`) are that customers are numbers (the ERP
lists by id), that a page has a customer or more, that the seed has no slug or name twice, that the names devices report have slugs,
and that the values that stand for "no row" are no values of the tables.

- `ErpTypeCorrect`: `ErpTypeOK` with the shape of the two ticks (`TicksTyped`): whatever order upserts of two answers come in, the
  key keeps a login in one row.
- `WatermarkPassesNone`: `NonePassed` is not inductive. `ErpSound` joins it with `TicksAgree`, which says of each running tick, and of customers that
  are not raced: until something fails, what it has gone through is written (`WrittenAgree`); whoever it does not list agrees
  (`OthersAgree`); what is left of its answer is what the ERP says, but for customers edited since (`AnswerIsCurrent`); and those
  are listed again, whichever of the two ticks ends first (`FreshIsKept`). Edits make the list longer while it is paged, and what is
  listed moves to later pages, never to earlier ones: a customer may be written twice, and none is skipped. A page that is not
  full was the last one, and then all that is listed is written or was edited meanwhile, and stays listed.
- `ErpWritesRows`: every step of `ErpSpec` leaves the customers alone or is one upsert that the key accepts, which is what
  `CustomerWritten` lets happen at any moment of `Inventory`: its theorem and its runs hold beside the ERP's ticks.
- `TypeCorrect`: `Sound`. A tick that resolves a vendor, a model and a customer in separate statements holds ids of rows that were there when
  it read them; they still are when it writes the device, because vendors, models and customers are only ever added to
  and no reader gets the id of an insert that was refused. A vendor that is written, by a tick or a form, meets no slug
  or name of another, and a device a session refers to keeps its row (`TestedOK`).

**`DiagnosticsProofs`.** The assumption is that the tests are finitely many.

- `TypeCorrect`: `Shape` is `TypeOK` with `RowSound` (a row has an object from its request on) and `PollShape` (what the poller
  holds is a row it has listed).
- `OwnResult`: `Sound` adds that whatever a task, the device or GenieACS says of an object is about a test of that object
  (`Origin`), that the poller's read is about the object of the row in its hands (`PollSound`), and that a test not known to share its
  object is the only one of it while anything may still write its row (`Apart`). A test that is closed stays closed
  (`OpenStable`): this is why a later test of the object cannot reach its result.
- `ResultKept`: no row still to poll is completed (`PollSound`), since only the poller completes rows, and puts them down when it does.

**What is only model-checked.** Everything that is eventually true (`QueuedIsTaken`, `JobsSettle`,
`BatchReportsOutcome`, `ProbingEnds`, `TestsEnd`, `HotFires`, `CalmResolves`, `DeviceSynced`, `RowsFollowErp`,
`LinkFollowsLogin`, `DeletionsEnd`): fairness is out of the prover's reach. Every invariant and action property that a run checks is proved.
The induction theorems of the library take an operator, which the provers cannot instantiate; `Induction` gets the same
from the least element of a set (`LeastNumber`, from the library's well-founded induction), so a definition that is a recursive function
(`ParseHosts`) can be proved about. Those that rest on the community modules' folds and selections (`MapThenSumSet` in
`Aggregate`, `SelectSeq` in the parser) are not opened by any proof: no theorem depends on what they return.

## 5. Not modelled

- **Identity and access.** Users, sessions, pre-authentications and the second factor share no state with the
  rest. A user who is disabled between the two steps of a login is the one order worth a module.
- **Device cache.** A read of the server that started before an invalidation fills the cache after it; pushes of the workers
  do not invalidate at all. Pages may be 30 s old; no step modelled here decides on them but a probe's tree, which
  the wizard shows before anything is mapped.
- **ACL synchronisation, rate limiter.** One rename, one Redis pipeline: nothing interleaves.
- **HTTP transport, views, platform, migrations.** Parsing, rendering, configuration; constraints of the schema are in the
  modules that rely on them.
- **Statements that commit and lose their answer** (Provisioning), deletion of a device that has jobs, the order in which two
  jobs of one device arrive, values of parameters and of tests: see the notes of the hazards in `PROJECT.json`.
