# DuckView in TLA+

DuckView serves DuckDB workspaces to people and agents: an HTTP and MCP server
(`packages/server`), a React client (`packages/web`), a small Python SDK, and a
metadata store (SQLite or PostgreSQL) that several nodes may share. This
directory holds TLA+ models of the parts of the server where the order of steps
decides whether it is correct, the TLC configurations that check them on small
instances, and proofs for every size of instance.

Paths below are relative to `src/packages/server/src/`.

## Inventory

A node runs one JavaScript thread. Code between two `await`s is atomic on its
node; at every `await` any other request, timer, callback or node may run.
Every statement on the metadata store is atomic; few operations use a
transaction. Nearly all hard behaviour comes from these two facts: a value read
before an `await` and used after it, a row written back from an old copy, two
statements with a crash or failure between them.

### The core: a workspace's file, its results, the agent working on it

| Component | State | Operations | Talks to | What is hard | What makes it correct |
|---|---|---|---|---|---|
| Engines (`engine/duckdb.ts`: `EngineManager`, `WorkspaceEngine`) | `engines`, `pending`, `closing` maps; each engine's connections, pending connects, `closed` | get (share, hot-apply, reopen), open, connect, run, close, evict, make room, idle sweep, release | services through `WorkspaceService.engine`; cluster through `onEvicted` | eviction while a connect or query is in flight; a file reopened while its old instance drains; failing set-up; the 15 s wait | no instance is closed under a connection; at most one instance per file; an evicted engine lets go of it; waiting requests are answered |
| Cluster leases (`services/cluster.ts`) | tables `cluster_nodes`, `cluster_leases`; per node the set `held` | start, stop, heartbeat, acquire, handover, release | the shared database; engines, streams and exports | takeover of silent nodes, paused nodes, rows that change between two statements, statements nobody awaits | two nodes never both count on a lease; only a silent node's lease is taken; a loss is noticed |
| Engines in a cluster (`services/workspaces.ts`, `context.ts`, `engine/remote.ts`) | the lease together with each node's engine | open here or forward, evict and release, lost lease, shutdown | both of the above | lease and engine change in different steps | the file is open on one node only; a node that lost the lease closes its engine |
| Result cache (`services/cache.ts`, `services/query.ts`) | entries, byte count, `workspaces.data_version` | plan, look up, compute, plan again, store, expire, invalidate, bump | every read of data; ETags of HTTP clients | a mutation during a computation; a failing bump; eviction by size | no answer is older than a mutation already answered; the byte count is that of the entries |
| Cloud sync (`services/workspace-cloud.ts`, `services/cloud.ts`) | working copy, object, `workspaces.cloud_sync`, debounce timer, push in flight | pull before open, mark dirty, push (timer, by hand, shutdown) | engines (evict, snapshot), object storage, other instances | pushes that overlap marks, pulls on stale rows, crashes, another writer | what was written is kept and pushed; nothing is silently overwritten |
| Agent tasks (`agent/runtime/runtime.ts`) | task row, task objects, live state, abort signal | start, loop of model and tool calls, pause for approval, decide, resume, cancel, restart | the model, tools (and through them queries), the browser | two decisions, cancel against everything, restart while waiting | only approved changes are made; one loop per task; what has ended stays ended; tasks end |

### Services around it

The last column names the module, or says that there is none yet.

| Component | State and operations | Hard behaviour | Correct when | Module |
|---|---|---|---|---|
| Scheduled services: data syncs, alerts, insights, quality, snapshots, dbt, reverse ETL, hosted agents (`syncs.ts`, `alerts.ts`, ...) | a row with `enabled`, a schedule and `next_run_at`; per node a `running` set and a ticker | ticks of several nodes, the guard and the database, edits during runs, failing statements | a slot is run once, a disabled job does not run, an enabled one goes on | `ScheduledJob` (the schedule; not what the runs do) |
| Streams (`streams.ts`, `routes/cluster.ts`) | consumers, offsets and checkpoints, locks, leases, hand-over calls | offsets after rows, edits and takeovers on two nodes, lost leases, late calls | at least once, one consumer, every event arrives | `Streams` |
| Audit and its export (`audit.ts`, `audit-export.ts`) | log, cursor per sink, backoff, lease | delivery and cursor in two steps, late rows, two nodes | at least once and in order, nothing twice without a failure | `AuditExport` |
| Data apps (`apps.ts`) | processes, tokens, restarts with backoff | crash, start, stop, restart timer and removal overlap | nothing runs unattended, a stop is final, always-on apps come back | `DataApp` |
| App runtimes and generator (`app-runtimes.ts`, `app-generator.ts`) | subprocesses, containers, pods | external programs | launch, exit and stop as `DataApp` takes them | none |
| Workspaces (`services/workspaces.ts`, `workspace-admin.ts`) | one row per workspace: create, update, folders, members, archive, persist, remove | row read, changed and written back; persist copies, then evicts | concurrent edits are not lost; nothing written during persist is lost | planned |
| Lifecycle (`workspace-lifecycle.ts`) | backups, restore, export, import, quota | restore replaces a file that an engine may have | a restore is all or nothing | planned |
| Watches, notifications, orchestration | rows with what was seen last | compare, deliver, then save | changes are notified once, none is missed | planned |
| Sessions and missions (`agent/runtime/missions.ts`, memory, context) | sessions with several tasks, plans | busy check before an insert | one active task per session | planned |
| Registered agents (`agents.ts`, `a2a.ts`) | tokens, 30 s cache, counters | rotation in several statements | a revoked token is never used | planned |
| Policies, semantic layer, lineage, SQL guard | pure rewriting and analysis | none (sequential) | results agree with a reference | none |
| BI objects, notebooks, revisions, comments, templates, embeds, endpoints | metadata rows | lost updates | last writer known | none |
| Git sync, exports, usage, pgwire | external programs, files, sockets | busy flags, order of answers | one run at a time, answers in order | none |
| Auth, SSO, SCIM, groups, connections, lakehouse | rows and external services | little | — | none |
| Routes, MCP, config, observability, web UI, SDK | no state of their own beyond the above | — | — | none |

`PROJECT.json` lists every component with its status, and every hazard with the
line where it bites.

## Modules

| Module | Models |
|---|---|
| `EnginePool` | `EngineManager` and the life of `WorkspaceEngine`s of one node |
| `EnginePool_proofs` | its theorems |
| `ClusterLease` | the lease of one key, all nodes |
| `ClusterEngine` | extends `ClusterLease` with each node's engine on the file |
| `ClusterEngine_proofs` | the theorems of both |
| `ResultCache` | results of one workspace, its epoch, readers and writers |
| `ResultCache_proofs` | its theorems, and those of `CloudSync` |
| `AgentTask` | one task of the agent, from its insert to its end |
| `AgentTask_proofs` | its theorems |
| `CloudSync` | one cloud-backed workspace of one instance, and another instance's pushes |
| `ScheduledJob` | one job of any of the eight services with a schedule, on all nodes |
| `ScheduledJob_proofs` | its theorems |
| `Delivery` | the abstract promise of the two below: a source, what has arrived, a mark; at least once |
| `AuditExport` | the audit log and one sink of it, on all nodes; refines `Delivery` |
| `AuditExport_proofs` | its theorems, the refinement among them |
| `Streams` | one stream: events, consumers, and the nodes that start, stop and move them; refines `Delivery` |
| `Streams_proofs` | its theorems, the refinement among them |
| `DataApp` | one data app: its starts and processes, stops, restarts, removal |
| `DataApp_proofs` | its theorems |
| `MC_*` | the worlds, budgets and symmetry sets of each module's runs |

In all of them a step is the code from one `await` to the next, with the call or
statement that ends it. Two awaits are merged only where nothing the properties
see can come between them; the modules say where. One workspace, key, task,
job, sink, stream or app stands for all, except in `EnginePool`, where workspaces
compete for slots.

Several modules have a constant `Worlds` (or `Budgets`): the circumstances of an
instance, one of which the initial state picks and no step changes. A world says
what may go wrong or who is there. A property that needs a circumstance names the
field of `world` as its hypothesis, so that one run checks each property in the
worlds it speaks of, and the others beside it.

Where a property breaks by certain steps of the code, the runs do not leave them
out: a history variable records that one was taken, the property holds until then,
and its theorem needs no hypothesis about it. `slipped` and `early` (cluster), `raced` (agent), `slips` (cloud sync),
`dropped` and `stolen` (streams), `twin` and `resting` (apps) are such. What the
code then does is under "Other disagreements".

**EnginePool.** `engines`, `pending`, `closing` are the maps of
`EngineManager`; `opening`, `phase`, `home`, `config` describe engine objects;
`pc`, `ref`, `want`, `target` are what each request is doing. `GetHit`,
`GetHotApply`, `GetMiss`, `GetRetry` are the branches of `get()`, `StartOpen`
and `StartOpenLate` its open after the wait for a draining engine ended or ran
out (15 s), `OpenDone` and `OpenFail` the end of `init()`; `Connect`,
`Connected`, `Finish`, `Fail`, `ConnectReject` are `withConnection()`; `Evict`
and `Sweep` are the same. `Finalise` (external) is the binding's finalizer of
an instance no one refers to.

**ClusterLease.** `lease`, `beat` are the rows; `held`, `hb`, `call` what each
node and each `acquire()` knows. `Acquire` to `Take` are the statements of
`acquire()`, `Beat` to `Forget` those of the heartbeat. `writes` holds the
statements nobody awaits (`void cluster.release(...)`), which may run late or
fail. All nodes read one clock, `now`. A heartbeat does not overlap itself.
`world` says which nodes and calls there are, whether heartbeats are prompt, how
each node parts with a lease, and what may fail. `slipped` records that a node's
`held` and the row came apart: a SELECT that found no row, a release that ran
when the node had acquired again, a loss or a foreign holder acted on when the row
was the node's again.

**ClusterEngine** adds `engine` and `draining` and replaces the return of
`acquire()` by what `engineFor()` does with it. `LostKey` is `onLost`, the
release after an eviction is `onEvicted`. `CloseAll` and `Shutdown` are the two
ends of `shutdown()`: what opens in between, or still drains when `released()`
gives up, is left as it is (`ending`). `early` records a lease given up while a
request was between `acquire()` and the open it was for.

**ResultCache.** `data` counts the mutations that took effect, `epoch` is
`data_version`, `acked` the last mutation whose request was answered after its bump. A reader
goes through `plan`, `NotModified` or `Hit` or `Compute`, `Recheck` and
`Replan`, `Store` or `TooBig`, `Answered`; a writer through `Write`, `Bump`,
`Bumped` (the two halves around the `UPDATE` of `bumpVersion`).

**AgentTask.** `row` is the database, `objs` the task objects in memory (a
decision after a restart makes a second one), `flow` where the loop, each
decision and each cancel is. `ran` and `granted` record which changes were made
and approved. What the model answers, whether a call mutates, and whether the model
passes `dry_run: false` with it, is a choice: `held()` is what a tool holds for an
approval, and `CallConfirmed` a change that the model's own argument let through
(`confirmed`). `raced` records that a decision read the row while another had yet
to act on it.

**CloudSync.** Contents are sets of writes. `opener` is a request in
`openLocal()` (`ReadRow`, `Peek`, `Head`, `Pull`, `Download`, `Downloaded`,
`Open`); `note` is a mutating statement and its `onVersion` listener (`Mutate`,
`ReadForMark`, `MarkDirty`); `push` is `doPush()` (`PushReads`, `Snapshot`,
`Upload`, `Uploaded`, or `UploadFails`). `slips` records what the code does
nothing against: two requests that pull at once (`crowded`), an eviction or the
shutdown that meets a request or a statement (`hurried`), a push that clears the
mark of a write it did not have (`cleared`), a pull that replaces the file a push
is uploading (`overlapped`).

**ScheduledJob.** `row` is the job, `running` the nodes whose `running` set has
it, `slot` what each node's `tick()` has selected, `run` each call of the
service's `run()`. Time is abstract: `next_run_at` is ahead or due, and what a
tick remembers is whether the value it read is still in the row, was overwritten,
or was claimed, which is all the claim's compare-and-set can tell. The eight
services differ in four places, and `Service` lists them: whether an await
separates the look at `running` from the add (`guard`), whether a tick passes over
running jobs (`skips`), which runs write `next_run_at` back from the row they read
(`reschedules`), and what a statement that fails between the guard and the try
block leaves (`records`).

**AuditExport.** A row of the log is its place in the order of (timestamp, id);
`settled` is the last one stamped `SETTLE_MS` ago. `drain` is each node's
`tick()`: it reads the sink, asks for the lease, selects a batch behind the
cursor, sends it, saves the cursor, up to `Rounds` times. `Exports` maps the table
to `Delivery`'s source, what the sink got to `arrived`, the cursor to `mark`.

**Streams.** `consumer` are the loops of the three kinds (fetch, write, commit or
save), `runner` the one each node has, `op` each node's `locked()` change (update,
removal, shutdown, takeover, or a stop another node asked for), `asked` the calls
to `/internal/cluster/streams/stop` on their way. Leases are those of
`ClusterLease` with time left out: `holder`, `held`, a heartbeat that renews or
notices, a lapse after a crash, a pause that lets a lease lapse under a node that
runs. `dropped` records the batches that a Kinesis or Postgres loop went past when
their write failed. `Delivers` maps events to `Delivery`'s source, the table with
`dropped` to `arrived`, the offset, checkpoint or LSN to `mark`;
`WrittenBeforeMark`, which the code breaks, maps the table alone.

**DataApp.** A `start()` and the process it makes are one record of `call`: its
place, whether `startAsOwner()` called it, the instance, the token, and `Proc`'s
`stopping` and `alwaysOn`. `Get` to `Register` are `start()` up to `procs.set`,
`Launch`, `Healthy`, `StartFails`, `FailThrows` the rest, `Exit` is `onExit()`,
`Stop`, `StopForNow` and `Stopped` are `stop()` for its reasons, and `restarts`
is the entry of the map of that name. `twin` and `resting` are history.

## What the runs show

Passing runs:

| Run | Properties | Instance |
|---|---|---|
| `pool` | `TypeOK`, `NoCloseUnderConnection`, `SingleInstance`, `DrainingIsTracked`, `CacheIsLive`, `NoWorkAfterClose` | two workspaces and one slot, four engine objects, two requests, all faults |
| `pool_live` | `CacheIsLive`, `WaitingEnds`, `ClosingEnds` | one workspace, two engine objects, two requests, two hot settings, failing opens and hot applies, connects that succeed |
| `engine` | `OneBeliever`, `OneNodeOpens`, `NotStolen` | prompt nodes: three that crash and fail to open, over six ticks with two calls; two of which one evicts, with two calls, or with one call and failing statements, or shuts down |
| `engine_serve` | `RequestsEnd`, `LossIsNoticed` | two prompt nodes: one dies before it has renewed, and two calls race to take over; one evicts and its release runs late |
| `cache` | `CurrentWithinEpoch`, `BytesAreExact` | two readers, a writer of two mutations, results of three sizes, failing bumps |
| `agent` | `ApprovedOnly`, `OneLoop`, `WaitingIsPending`, `TaskEnds` | two people who decide, one who cancels, two calls or a third that was approved, failures, a restart |
| `cloud` | `InSyncHoldsAll`, `MarkedIsKept`, `NoClobber`, `Pushed` | two writes and a sync by hand: alone with slow pushes, failing uploads and crashes, alone in peace, with another instance that pushes at any time; one write: everything at once around one request, or two requests that pull |
| `jobs` | `TypeOK`, `OneRunPerNode`, `Armed`, `OnePerSlot`, `DisabledStays`, `KeepsRunning` | a job of six services (quality and insights differ from alerts in nothing modelled), two nodes, two runs, a crash or failing statement |
| `audit` | `TypeOK`, `Exports` (refines `Delivery`), `OnceUnlessTroubled`, `Exported` | two nodes, three rows in batches of one, two rounds, a crash, lost lease or failing save, any number of failing sends |
| `streams` | `OneConsumer`, `Delivers` (refines `Delivery`), `Consumed` | three kinds, all of which may fail to write, two nodes, two consumers at a time; two events with a trouble or an edit, one with both or with two edits |
| `app` | `Attended`, `StopSticks`, `ComesBack` | two starts or processes at a time, two restarts; visited and switched at any time, or left to itself |

The other modules' `TypeOK` (`CloudTypeOK` in `CloudSync`) is not in a run; TLC
finds it true with the constants of `engine`, `cache`, `agent`, `cloud`, `streams`
and `app` in its place.

One run shows the code doing what its own comment rules out (`findings` in
`PROJECT.json` quotes the lines):

| Run | Shows |
|---|---|
| `streams_lost` | `WrittenBeforeMark`: a Kinesis or Postgres stream whose write fails goes on with the next batch and then saves a position past the lost one |

### Other disagreements

Each row below is a property stated in its module that the code breaks, and the
change to a run under which TLC shows it: the property takes the place of the
run's own. "Without its hypothesis" means the property without the part that
names a circumstance (`calm`, `service.guard = "atomic"` and so on) or the
history up to which it holds.

*Late*, in terms of `MC_ClusterEngine`'s `Tended`, is the world with `prompt`
false, `leaves` always `{}` and no faults.

| Property | What the code does | Run to start from | Change |
|---|---|---|---|
| `PoolWithinCapacity` | overlapping opens leave more than `max_cached_engines` engines (`duckdb.ts:1240`) | `pool` | none |
| `OneInstancePerWorkspace` | a set-up that throws leaves its instance open, the next open makes a second one (`duckdb.ts:312`) | `pool` | none |
| `ClosingEnds` | a connect rejected after the eviction leaves the engine unreleased for good (`duckdb.ts:489`) | `pool_live` | `ConnectFaults = TRUE` |
| `HeldByOne` | a release runs after the node has acquired the key again, or the row is gone at the SELECT: the node takes itself for the holder (`cluster.ts:124`), and the next node's upsert succeeds | `engine` | none |
| `OneNodeHasFile` | an eviction gives the lease up at once (`context.ts:170`), and the next holder opens the file while the engine drains; "two nodes never both open a DuckDB file" (`cluster.ts:7-8`) | `engine` | none |
| `DrainedBeforeOpened` | the same, of an engine that drains and one that opens | `engine` | none |
| `OpenUnderLease` | an engine opened under a lease released since `acquire()` (`workspaces.ts:616`) | `engine` | none |
| `TakenFromSilent` | a takeover acts on a heartbeat renewed since (`cluster.ts:132`) | `engine` | two nodes, `MaxTime = 3`, world *Late* |
| `MemberWhileUp` | a node paused until its row was deleted never registers again (`cluster.ts:93`) | `engine_serve` | one call, `MaxTime = 3`, world *Late* |
| `LossCloses` | a loss noticed by `acquire()` is not passed on: the engine stays (`cluster.ts:128`) | `engine_serve` | one call, `ForgetTime = 4`, `MaxTime = 3`, world *Late* |
| `NeverStale` | a value computed before a mutation is stored under the epoch after it (`cache.ts:262`) | `cache` | none |
| `EveryChangeApproved` | `callTool()` passes the model's own arguments on (`runtime.ts:480`), and tools hold a change only while `dry_run` is not false (`tools.ts:86`, `query.ts:88`): a model that writes `dry_run: false` changes data with nobody's approval, which `runtime.ts:12-13` ("only then is the call repeated with dry_run=false") denies | `agent` | none |
| `HeldUntilApproved` | two decisions read the row of one pause (`runtime.ts:290`); the second acts on what is pending by then, a change it never saw | `agent` | none |
| `FinalIsFinal` | a cancel before the task is registered, which then runs to its end (`runtime.ts:277`) | `agent` | none |
| `CancelEnds` | a cancel during a tool call that is then held leaves the task waiting (`runtime.ts:487`) | `agent` with `AwaySpec` | `Restarts = FALSE` |
| `Pushed` | a push longer than the quiet period swallows the next one (`workspace-cloud.ts:125`) | `cloud` | world `Calm` with `slow`; without its hypothesis |
| `ShutdownPushes` | a push clears the mark of a later write, the shutdown has nothing to push (`workspace-cloud.ts:152`) | `cloud` | none |
| `MarkedIsKept` | a request that read the row before a push finished takes that push for another instance's (`workspace-cloud.ts:94`) | `cloud` | world `Alone` with `hasty`; without its hypothesis on `slips` |
| `NeverClobbered` | a push saves `dirty = false` over the mark of a write made since its snapshot (`workspace-cloud.ts:152`), and a pull then replaces the only file that has it (`:95`); "never overwritten silently by a pull" (`:13-14`) | `cloud` | none |
| `InSyncHoldsAll` | a pull replaces the file while a push uploads its snapshot, and the row takes the push's ETag (`workspace-cloud.ts:152`): what counts as in sync lacks what was uploaded | `cloud` | without its hypothesis |
| `ReplacedWhenClosed` | the file is replaced under the engine a second request just opened (`workspace-cloud.ts:100`) | `cloud` | none |
| `OneRunPerNode` | `run()` of syncs and hosted agents awaits between its look at `running` and the add (`syncs.ts:273`): two runs of a sync share its staging table | `jobs` | without its hypothesis |
| `Armed` | `finish()` of syncs and dbt projects writes `next_run_at` from the row read before the run (`syncs.ts:329`, `dbt.ts:546`): an edit meanwhile is undone, an enabled job is left without a next run | `jobs` | without its hypothesis |
| `KeepsRunning` | a statement that fails between the guard and the try block leaves a reverse sync in `running` for good (`reverse-etl.ts:422`) | `jobs` | `Kinds = {"reverse"}`; without its hypothesis |
| `Consumed` | the failing write of `streams_lost` never makes up for the batch | `streams` | with `table` for `accounted` |
| `NoTwin` | two starts await the creator and both register: the first process is no longer in the map, and nothing stops it or revokes its token (`apps.ts:669`) | `app` | none |
| `DeletedIsGone` | a start that has passed the check of `removing` registers after the delete (`apps.ts:660`) | `app` | none |

A mutation whose bump fails is answered as done while results from before it
stay valid (`query.ts:75`). `acked` counts only mutations whose bump went
through, so `CurrentWithinEpoch` and `NeverStale` do not speak of it.

Seen while modelling, in code the models leave out or see too coarsely to check:

- Data syncs: replace drops the target and renames the new table over it in two
  statements; a failure between them leaves no table (`syncs.ts:306`).
- Alerts and insights: an update that resets an alert is overwritten by a check
  in flight; an insight inserted before a crash is never delivered.
- Streams: `create()` starts the consumer outside the lock (`streams.ts:302`); a
  Kafka consumer whose first connect fails stays registered and is not tried
  again; a call that stops a consumer and fails is only logged, and the consumer
  goes on until its node notices the lease.
- Data apps: a stop by hand during a start on the owner's behalf makes that start
  throw, which schedules another one; a restart timer that fires while a visitor's
  start is under way gives up, and if that start fails nobody retries; an
  `always_on` switched during a start is overwritten by what the start has read.
  `StopSticks` and `ComesBack` speak of the cases apart from these (`resting`
  needs that nothing is on its way, `ComesBack` that nobody visits).

### Bounds

A constant of each module names every bound.

- *EnginePool*: one engine may be open, one opening and one draining, so three
  objects of a workspace reach every combination; `pool` has four for two
  workspaces that share a slot, `pool_live` two, since liveness is checked
  without symmetry. Two fingerprints and two hot settings are the least that let
  a request find the engine different in either way.
- *ClusterLease, ClusterEngine*: a lease changes hands twice within `MaxTime`.
  Three nodes let one be silent while two compete. `prompt` says heartbeats are
  on time and no method lasts a tick; without it a pause may break everything but
  the protocol itself (world *Late*). The worlds where a node evicts or shuts down
  stay within one lease, which is enough for every way the two machines meet but a
  takeover after silence; `Tended` has that one. Evictions over several leases are
  left to the proofs.
- *ResultCache*: two readers, so that one may serve what the other stored, and a
  writer with two mutations, one answered and one in flight; `MaxData` counts the mutations. A size is
  small, makes room necessary, or is too large to keep. One writer makes the
  mutations one after another: the property speaks of each by itself.
- *AgentTask*: two tool calls allow an approved and a denied change, and a third
  is made when an approved one was the last; two people decide, so that their
  decisions may race; `MaxTurns` stands for `max_steps * 2 + 4`.
- *CloudSync*: two writes, so that one can be in a snapshot and the other not,
  and a sync by hand. Two openers, evictions that meet a request (`hasty`) and
  everything at once are checked with one write. The proofs bound nothing.
- *ScheduledJob*: two nodes compete for a slot, two runs for a guard; `MaxMishaps`
  counts crashes and failing statements.
- *AuditExport*: three rows in batches of one over two rounds make a drain stop
  with rows left over and another node go on. `MaxTrouble` counts crashes, lost
  leases and failing saves; failing sends and edits have no bound. The proofs have
  no bound on anything but the rows.
- *Streams*: `Budgets` shares out events, edits (updates, removals, shutdowns)
  and troubles (crashes, pauses, calls given up), as all at once is out of TLC's
  reach: `Share` has each pair of them. `MaxConsumers` is two, the one that ends
  and the one that begins.
- *DataApp*: two starts or processes at a time, which overlap in every way two
  can, twins among them; two restarts in a row. `Attended` and `StopSticks` are
  proved without these bounds.

Deadlock is checked wherever the system cannot stop. It is not where a clock or
a count reaches its bound, a task ends, or an instance is down.

### Fairness

- *EnginePool* (`FairSpec`): an open, a connect and a query come back, a timer
  fires. Nothing makes anybody send a request or evict. `RecyclingSpec` also
  lets engine identities be used again, so that the bound on them does not
  stop a request; the code has no such bound.
- *ClusterEngine*: statements that a request awaits come back (`ServingSpec`), and
  the heartbeat timer of a running node fires and goes on (`LivingSpec`). Nothing
  is asked of opens, drains, or statements that nobody awaits.
- *AgentTask*: awaits come back (model and tool calls have timeouts), and in
  `FairSpec` the person decides. `TaskEnds` asks nothing of a task whose server
  restarted: its row waits for a decision or a cancel. `AwaySpec`, for cancels,
  drops the person.
- *CloudSync* (`CloudFairSpec`): timers fire and requests to the store return. Nobody
  has to shut the instance down.
- *ScheduledJob* (`FairSpec`): the clock reaches `next_run_at`, tickers fire and
  runs come back. Nobody has to start a run by hand.
- *AuditExport* (`FairSpec`): time passes, inserts and backoffs end, drains go on.
  Strong fairness of a tick's read and of the send: the ticker fires again and
  again while edits and failures come between, and a sink that is asked again and
  again answers in the end.
- *Streams* (`FairSpec`): consumers go on, heartbeats and takeover timers fire, a
  dead node's lease lapses. Strong fairness where steps wait for the stream's lock,
  which other changes take in between (it is a queue), and of writes, which may
  fail but not for good.
- *DataApp* (`FairSpec`): awaits come back (launches and health checks have
  timeouts) and timers fire; strong fairness of the timer only because it waits
  for one of the bounded records of `Call`.

## What is proved

The theorems hold for every value of the constants: any number of nodes,
requests, engines, readers and so on, any times and any bounds. They assume what
the modules assume of their constants, and some of them a hypothesis that the
text below names. The invariants of each proof were model-checked on the
instances above before they were proved.

| Module | Theorems (and the property each states) | Hypotheses |
|---|---|---|
| `EnginePool` | `TypeCorrect`, `NeverClosedUnderConnection` (`NoCloseUnderConnection`), `OneInstanceAtATime` (`SingleInstance`), `DrainsAreTracked` (`DrainingIsTracked`), `CacheHoldsTheLiveEngines` (`CacheIsLive`), `ClosedEnginesStartNothing` (`NoWorkAfterClose`) | none |
| `ClusterLease` | `TypeCorrect` | none |
| | `LeasesAreNotStolen` (`NotStolen`) | `Configured` |
| | `OneNodeCountsOnTheLease` (`OneBeliever`) | `Configured` |
| `ClusterEngine` | `OneNodeOpensTheFile` (`OneNodeOpens`) | `Configured` |
| `ResultCache` | `TypeCorrect`, `NeverOlderWithinEpoch` (`CurrentWithinEpoch`), `BytesStayExact` (`BytesAreExact`) | none |
| `AgentTask` | `OnlyApprovedChanges` (`ApprovedOnly`), `LoopsAreApart` (`OneLoop`), `WaitingCanBeDecided` (`WaitingIsPending`) | none |
| `ScheduledJob` | `TypeCorrect`, `OneAtATime` (`OneRunPerNode`), `StaysArmed` (`Armed`), `SlotsAreClaimedOnce` (`OnePerSlot`), `DisabledJobsStay` (`DisabledStays`) | none |
| `AuditExport` | `TypeCorrect`, `ImplementsDelivery` (`Exports`), `SentOnce` (`OnceUnlessTroubled`) | none |
| `Streams` | `TypeCorrect`, `OneAtATime` (`OneConsumer`), `ImplementsDelivery` (`Delivers`) | none |
| `DataApp` | `TypeCorrect`, `AllAttended` (`Attended`), `StopsStick` (`StopSticks`) | none |
| `CloudSync` | `SyncTypeCorrect`, `MarkedWritesAreKept` (`MarkedIsKept`), `PullsClobberNothing` (`NoClobber`), `InSyncIsComplete` (`InSyncHoldsAll`) | none |

The one hypothesis, `Configured`, is about the configuration: a heartbeat
fits into a lease, and a process has its node id for itself. The configuration
allows `heartbeat_seconds` from 1 to 300 and `lease_seconds` from 3 to 3600, each
by itself; the defaults are 10 and 30. A node that is not given a `node_id` makes
up a random one. In `engine` TLC shows `NotStolen` broken with `BeatTime = 3`, and
`OneBeliever` with `SameId = TRUE`.
Hardly any of these properties is inductive; this is what the invariants add.

**EnginePool.** That a second open cannot meet a draining engine depends on the
manager's maps agreeing with what the engines do, so `IInv` adds: the maps never
overlap (`MapsAgree`), an engine is opening exactly when its workspace's open has
it (`OpeningIsLive`), engine objects outside the maps are dead or leaked
(`EnginesHaveHomes`, with `CacheIsLive` and `DrainingIsTracked`), and requests on
a connection are on an engine that is open or closing (`CallersOnEngines`). Two
lemmas say what an eviction does (`EvictFacts`, `EvictKeepsMaps`), since six
actions evict; then there is one lemma per action or per group with the same
effect, and `NextIInv` collects them.

**ClusterLease and ClusterEngine.** Three invariants, each on top of the one
before. `IInv` is about the lease alone: a prompt node's heartbeat is recent,
what anybody has read from the clock is the time, and so the row of a node that
counts on it lasts until its next heartbeat (`RowLasts`) and a takeover's target
is a dead node (`TakesFromTheDead`). `HInv` adds that until a node has slipped
whoever counts on the lease has the row (`HoldersHave`). `EInv` adds the engines:
until a lease was given up too early, a node with an engine, or with a request
that was told it may open one, counts on the lease (`OpenersHold`).

**ResultCache.** `Fresh` says of every value in the cache, under an ETag or in a
request what it must show: if it was planned in the current epoch, all that has
been answered and all that is about to be, and in any case what was answered
before each plan that it can still meet. `EpochsPaid` bounds the epoch by the
mutations. The byte count is a sum over a finite set; that adding or removing an
entry adds or removes its bytes is induction over finite sets, done by way of a
smallest set for which it fails, since the library's induction theorems are out
of the provers' reach.

**AgentTask.** Until two decisions race, one decision at a time is under way
(`OneDecides`), and the change that is pending is the one the row shows, the one a
decision has read, and the one an approval was given for (`PendingIsShown`). That
rests on there being one loop: while anybody works on the task, neither its row
nor its object waits (`BusyIsNotWaiting`). `raced` never becomes false again, so
that the invariant is needed only while it is.

**ScheduledJob.** A tick decides on a slot it selected earlier, so the invariant
adds `CurrentIsDue`: a tick whose slot is still the row's holds one that is due in
an enabled row; and `GuardsAreKept`: only a service with a late guard has runs
past the look and before the add.

**AuditExport.** The initial states are `Delivery`'s, and every step is one of its
steps or none. What a drain sends and saves comes from a cursor read one or
several awaits before, so the invariant relates each drain to the table, the
cursor and what the sink got, and says that without trouble one drain at most is
past the lease.

**Streams.** While no paused node has lost its lease, whoever counts on it has it
(`HeldIsHad`), a node with a consumer, or about to begin one, counts on it
(`RunnersHold`), and a Kafka consumer that was told to stop has its node wait for
it, on the lease (`StoppedWaits`). For `Delivers`, lease or not: all behind the
saved position is in the table or dropped, and all behind a consumer's position but
its batch (`Known`, `Written`).

**DataApp.** `Fits` says what holds of a record at each place of `start()`: one
that is launching is registered, a twin, or has been told to stop; the registered
one is launching, or its instance runs. `RestsAlone` says that nothing is on its
way to an app that rests.

**CloudSync.** A pull decides on a row and an ETag read awaits before, and a push
overwrites the row with what was true at its snapshot, so `SyncInv` says of each
step in flight what it may still rely on, in three layers. Always (`Known`): an
ETag that anybody has read is one the object had. Until a pull replaces the file
of an upload (`AllFull`): whoever has the object's ETag, in the row or in a copy
of it read before, has a file with all the object holds. And as long as nothing
else has slipped (`Orderly`): one request pulls at a time and alone with the file
(`OnePull`, `PullsWhenClosed`); a write that ran is in the file (`WritesLast`); one
that is marked is in the object, or makes the row dirty, unless the row has the
ETag of an object that nobody else writes (`MarksAreSeen`), so that a pull that
looks at the row takes it for a conflict or for in sync; the same holds of the row
a pull has read while pushes went on (`PullsSeeMarks`), and a pull past that
decision replaces nothing that is not in the object (`Replaceable`), which needs
that a mark a snapshot has missed is in either row (`MarkedSinceSnapshot`). Each
action has a lemma that says it keeps all three.

What is model-checked only is liveness, since the prover does not handle `ENABLED`
or fairness: `WaitingEnds` and `ClosingEnds` of `EnginePool`, and the leads-to
properties of the other runs.

## What is not modelled

Taken for granted in the models:

- a statement on the metadata store is atomic;
- kafkajs waits for the running `eachBatch` when it disconnects;
- a row of the audit log lands within `SETTLE_MS` of its stamp, or never;
- edits of one job come one at a time; a stream's node shuts down when none of its
  locked changes is under way;
- one server process runs the data apps, and an app's creator stays active.

Left out:

- In the modelled components: `/internal` RPCs and event relay of the cluster
  (but for the stop of a stream); file fingerprints, TTLs and policy scopes in
  cache keys; the version bump when an engine starts; sessions with several tasks; the choice of a cloud connection;
  persisting into the cloud; requests to the store that fail other than uploads;
  what a scheduled run does; rows pushed to a stream over HTTP, its snapshot, and
  `create()`; the status column of data apps, in-browser apps, publishing.
- Sequential code (SQL guard, path sandbox, policies, semantic layer, lineage):
  unit tests reach it; policies are a candidate for operators checked against a
  reference.
- CRUD over the metadata store, external services and programs, the web UI and
  the SDK: no order of steps of their own. They are most of the repository's
  lines, so the share of lines the map covers stays small.

## The plan

Done, in this order: `EnginePool` (most of the server goes through it),
`ClusterLease`, `ClusterEngine` (composes the two), `ResultCache`, `AgentTask`,
`CloudSync`, `ScheduledJob`, `Delivery` with `AuditExport` and `Streams`,
`DataApp`, and the proofs above.

Next, by importance:

1. What the runs of scheduled jobs do: `DataSync` (replace and append step by
   step), `AlertRun` (evaluate, deliver, save; shared by watches and insights),
   `ReverseEtl` (sent and recorded).
2. `Workspace` (update, folders, persist, restore).
3. `AgentSession`, `AgentTokens`.

Proofs: every safety property of the passing runs has its theorem. The next ones
belong to the modules above, each with its own; those of `CloudSync` would move
to a module of theirs.
