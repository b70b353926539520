# A verification project for onestep

onestep runs Python tasks on deliveries taken from queues, tables, schedules and
webhooks, reports on them to a control plane, and is deployed by worker agents.
This directory holds TLA+ models of the parts that decide whether a delivery is
lost, handled twice or stuck, and whether the control plane and its agents do
what they say; the TLC runs that check them on small instances; and proofs,
checked by TLAPS, for every instance. Paths below are relative to the repository.
Each definition that models code is tied to its lines in `PROJECT.json` ("map"); a
helper whose lines lie inside the entry of the definition that uses it has no entry
of its own.

1. [Inventory](#inventory)
2. [Modules](#modules)
3. [Runs](#runs)
4. [Proofs](#proofs)
5. [Not modelled](#not-modelled)
6. [Plan](#plan)
7. [Departures](#departures)
8. [Further hazards](#further-hazards)

## Inventory

### The components and how they interact

| Component | State | Operations | Talks to |
| --- | --- | --- | --- |
| Task runner, `src/onestep/runtime/runner.py` | handler tasks in flight, fetch in progress, the two "parked" flags | loop, fetch, release of unstarted deliveries, pause, drain, final drain | the source, the app (stop controls), the executor |
| Application, `src/onestep/app.py` | stop, drain and pause requests, runners, registry of runner tasks, open resources | startup, serve, shutdown, drain, pause, resume, restart of one task, dead-letter replay and discard | runners, resources, the reporter |
| Delivery executor, `src/onestep/runtime/executor.py`, and policies, `src/onestep/retry.py` | the delivery and its attempts counter | start, hooks, handler, routes, sinks, ack; retry, dead letter, fail; cancellation | delivery, sinks, event handlers |
| Execution backend, `plugins/onestep-sql/.../postgres/execution_backend.py` | executions table, attempts table, database clock | submit, request_cancel, claim (with three reclaiming phases), heartbeat, complete, release | PostgreSQL, READ COMMITTED |
| Execution source, `.../postgres/execution_source.py` | lease, heartbeat task, cancel flag of each delivery | fetch, heartbeat loop, complete with retries | the backend, the executor |
| SQL connectors, `plugins/onestep-sql` | cursors and positions, queue rows, commit task | fetch, claim, ack, retry, save of the cursor, upsert | the database, the runner |
| Brokers: Kafka, RabbitMQ, Redis, SQS, Cloudflare | offsets, buffers, leases, staged batches, shared connection | fetch, ack, retry, fail, flush, heartbeat, reset | the broker, the runner |
| Schedules, webhooks, `src/onestep/connectors` | next fire time, queued runs, retry heap; shared HTTP server, queue | fetch, finish, retry, open, close, request | the runner, HTTP clients |
| Other connectors: MongoDB, Elasticsearch, ClickHouse, Feishu Bitable | cursor generations, chunks, key index, pending and uncertain keys | fetch, settle, bulk write, flush, search, recovery | external services |
| Resilience, the `resilience.py` files | none | classify an error, redact it, choose a delay | runner, executor |
| Control-plane plugin, `plugins/onestep-control-plane` | pending events and metrics, telemetry queues, session, receipts, identity file | report, flush, send, execute command, reconnect | the app, the control plane |
| Control-plane backend, `apps/control-plane/backend` | sessions, commands, instances, outbox, leader lease, notification states, connectors, workers | dispatch, acknowledge, expire, redeliver; outbox; scans; edits; deployments | agents over WebSocket, PostgreSQL, webhooks |
| Worker agent, `apps/work-agent` | slots, child processes, deployments.json, identity, workspaces | connect, start, stop, restart, install, recover | the control plane, subprocesses |
| Configuration, `src/onestep/config.py`, `resource_registry.py` | os.environ, registry of resource types | load, expand, validate, build | plugins |
| Build, CLI, capture, diagnostics | files | package, run | |

The runtime is one asyncio event loop: a step of the models is the code between
two awaits. The control plane has several replicas, threads for its synchronous
endpoints and a PostgreSQL database: a step there is a transaction, or the part of
a handler between a read and the commit that uses it. Processes of the two sides
share nothing but messages, which connections lose from the end when they break.

### What is hard

* **Claims without locks.** The backend's `claim` reads candidates and updates them
  later; a heartbeat does not change the version the update compares.
* **Races of one fetch with three stop controls**, sources that must not be cancelled
  in a fetch, runners cancelled from outside at any await.
* **One registry of runner tasks** edited by `serve()`, restarts and `shutdown()`.
* **Settling takes several calls** (sinks, ack, dead letters, fail), each of which may
  fail with or without effect, or be cancelled.
* **Prefix commits.** Deliveries settle in any order; offsets, cursors, positions and
  resume tokens may only follow the settled prefix, across retries, saves in flight,
  rebalances and generations that were given up.
* **Leases that run out** while a handler, a staged delete or a heartbeat still counts
  on them.
* **Lost answers.** A write whose answer is lost may have been applied: repeating it
  duplicates, not repeating it loses.
* **Reconnections.** Commands and telemetry under way when a connection breaks;
  handlers of an old connection that end after the new one has registered.
* **State read before an await and used after it**: flushes by position, searches,
  scans, expiries, edits of connectors and workers.
* **Crashes between two stores**: sequence and use, event and notification, child and
  record of its pid, registration and identity, install and marker.

The forty hazards the properties were chosen for are in `PROJECT.json` ("hazards");
the rest of the list is at the end of this file.

### What makes each component correct

* Backend: one lease holder at a time, the two tables agree, answers stay true, a
  cancellation wins, finished executions are final, deadlines bound starts and do
  not discard interrupted work, one idempotency key names one execution.
* Runner and application: nothing fetched is lost, concurrency is respected,
  "drained" and "paused" mean quiet, every runner is supervised, resources are open
  while used and closed in the end, drain, restart and shutdown complete.
* Executor: output before acknowledgement, dead letter before failure, failure
  only when the policy is exhausted, every delivery settled or given back.
* Sources: nothing is committed, deleted or acknowledged before it was handled,
  nothing is with two handlers, everything is handled in the end.
* Sinks: what is reported written is written, what is doubtful is reported so, and
  what may not be repeated is written once.
* Reporting: what is reported as sent was sent, in order; counters and sequences
  are exact across flushes and restarts; commands run once per process and their
  outcomes are the ones reported.
* Notifications: no false alarm, none twice, none taken back, none left pending.
* Deployment: the processes that run are the ones recorded and counted, a workspace
  that was checked is whole, connectors and workers agree with what is shown.
* Configuration: a load succeeds exactly for sound configurations.

## Modules

Definitions keep the names of the source where they translate one function. A
constant that begins with `Max` bounds how often something may happen in a
behaviour; the other constants are settings of the code or choices of the
environment. Definitions whose comment starts with "Mutant:" are faulty variants of
the definition that follows them. No specification uses them; replacing the real
definition by the variant makes TLC report the property it is listed with in
`PROJECT.json` ("mutants"), which shows that the property depends on that code.

### The runtime

**`AppRuntime`**: one task, its runners and deliveries, `serve`, `shutdown`, stop
controls and restart commands. `runner[r]` holds the await a runner is in, the state
of its fetch task and of the watcher of the stop controls, its parked flags, whether
it was cancelled (`exiting`) and whether it failed. `place[d]` is where a delivery
is. `listed`, `tracked` and `live` are `_runners`, `_runner_tasks` and the set
`serve()` waits for. `Cancelled` and `Orphans` are what a `CancelledError` does at
each await. A source is described by `CancelSafe` (`fetch_is_cancel_safe`) and
`GivesBack` (`release_unstarted()` returns the delivery). A handler is one step; its
inside is `DeliveryExecutor`.

**`AppLifecycle`**: several tasks that share resources: `startup()` with its rollback,
hooks, signals, restarts that close what no other task refers to, `shutdown()`. `startup()`
opens the resources in one of the orders in which each is listed once (`AllResources`);
a restart walks the list of its task and skips what another task or the application
refers to (`Private`).

**`DeadLetters`**: the dead-letter queue of a task with `replay_dead_letters` and
`discard_dead_letters` running beside each other, over a queue with and without
leases. `Held` is what a cancelled command still has leased; it comes back in any order
(`Orders`) when the leases end.

**`DeliveryExecutor`**: `execute()` for one delivery through all its redeliveries.
`stage` is the await it is in, `sent` and `dead` the sinks that have the output and
the dead letter, `source` what the source was told. Calls that raise or are
cancelled may have taken effect (`MaySend`, `MayPublish`, `Effect`). `attempts`
saturates at `MaxLimit`, beyond which no policy looks. The policies differ only in
their limit per failure kind; delays are left out.

**`ManagedDelivery`**: one delivery of the execution source with the managed branch of
the executor: the task that runs `execute()`, the heartbeat task, the row of the
execution, and the two who cancel the owner (the heartbeat that read a requested
cancellation, the runner that shuts down). `pend` is a cancellation not yet met; the
shield of `_await_critical` is `inner`.

### The execution backend

**`ExecutionBackend`**: `exec[i]` is the row of execution `i`, `att[i]` its attempts in
insertion order, `claim[c]` a claim transaction between its SELECTs and its UPDATEs.
`accepted` and `acked` record the answers callers got and guard no action. A token is
the index of its attempt, which is fresh per execution as a UUID is. `TxnNow` lets a
transaction act with a timestamp up to `MaxLag` old, as `current_timestamp` does
after waiting for a row lock. Heartbeat, complete and release may be called with any
token ever issued, at any time. Errors (`ExecutionLeaseLost`, `ExecutionConflict`,
`ExecutionEncodingError`) change nothing, so they are disabled actions. A namespace
is left out: every query is restricted to one.

**`ExecutionLifecycle`** is the abstract specification: what the people who submit,
watch and cancel executions are promised. `ImplementsLifecycle` maps each row to a job
(phase, number of runs, result); one transaction may move several jobs, each by a
legal step.

### SQL sources and sinks

**`IncrementalSource`** reads rows in the order of (updated_at, id) and saves the cursor
of the acknowledged prefix; `task` and `prefix` are the commit task between its two
awaits. An `ack` at the head of the queue awaits that task (`waiting`); when the save fails
it raises (`unsaved`), and the executor retries or fails a row that stays acknowledged.
**`BinlogSource`** does the same for events with several rows. A row is its number
in the log and a position the number of its event; `Ends[e]` counts the rows of the first
`e` events, so an event the source filters has none. `hand[t]` counts the deliveries of
row `t` that have handlers: a source that is opened again reads from the committed
position and may deliver a row that is still queued. A fetch that a pause or stop overtakes
leaves its rows in the queue with nobody to handle them (`FetchDropped`, `dropped`); the
thread of a cancelled fetch goes on and swallows rows (`FetchCancelled`, `missed`).
**`TableQueue`** is a table used as a queue: rows selected and claimed in one transaction
(MySQL, PostgreSQL) or in one statement (SQLite), and settled by key. Every update may fail,
or be committed and answered by an error (`doubted`); the executor then retries or fails a
delivery whose ack raised (`refused`) and retries one whose fail raised, as in
`executor.py`. Rows that stay claimed are `lost`. **`TableSink`** has the column policies and
the row that replays reach again. **`SqlPipeline`** composes a table queue, a sink and
an incremental source over one result table: `IncrementalSource` and `TableQueue` are
instantiated in it, and a result written by one task is the row the next one reads.

### Brokers

**`KafkaTopic`**: the offset tracker of a partition (`fetched`, `started`, `completed`,
`next`), the consumer's position, which every retry and release seeks, commits in
flight, rebalances and gaps in the log. `Smallest` and `Largest` are `min` and `max`
over offsets. **`RabbitQueue`**: a connector whose connection
several queue objects share by reference count, a prefetch buffer filled by callbacks,
resets by whoever fails. **`RedisStream`**: consumer groups, pending entries, trimming.
**`SqsQueue`**: visibility timeouts, heartbeats, deletes staged for a batch and flushed
under a lock, receipts that have expired (`Nth` keeps the order of the entries of a
batch that failed). **`CfQueue`**: leases without renewal, staged
acknowledgements and retries. The broker is the external half of each module.

### Other connectors

**`MongoSource`**: the contiguous-commit tracker with its generations, for polling and
change streams. Deliveries settle, fail to be saved and are retried at any time of a fetch;
a delivery is `unsaved` when its ack has raised, `refused` when its fail has, `lost` when
its retry has. `raced` records that the current generation was given up while a fetch was
awaited. **`FeishuIndexedSink`**: the index of keys, pending keys shared by
several sends, the single flush lane, recovery rounds and uncertain keys.
**`BulkSink`** (Elasticsearch, ClickHouse, MongoDB): a batch in chunks under the
executor's repeated sends. **`Resilience`**: the classification of driver errors by all
plugins, redaction, and the retry loops of runner and executor. `BulkSink` takes the
classification of its three drivers as parameters, which `MCConnectors` gives it from
`Resilience`.
**`ScheduleSource`**: interval and cron sources with their overlap policies, retries,
pauses; `leaked` counts the deliveries that the runner dropped on a stop or pause and
that `_inflight` keeps. **`WebhookSource`**: sources that share a listener, requests routed
before their body is read, the bounded queue, and the events a stop or pause drops
(`dropped`).

### The control plane

**`AgentCommands`**: commands from an operator to an instance and back, over connections
that break, on both sides: rows, sessions, registry, handler and send queue of each
connection, the agent's receipts and its command tasks. A handler selects a command,
tests it and commits later: `pending` is what it has read and will write, `Committed`
writes the columns that differ from what was read, and in between (`Busy`) the threads of
the list endpoints may commit their expiries. **`WsSender`**: the telemetry
queues, the worker that drains them, callers that wait. **`Reporter`**: event buffers,
metric windows, the gauge, three loops and the commands that flush. `Follows` is the order
in which the executor emits the events of an execution; `EndsSilently` is an execution
whose retry or fail raises. **`AgentIdentity`**:
the state file with its lock, sequences, and the plane's freshness checks.
**`NotificationOutbox`**: leader lease, events committed before their notifications
are queued, claims, attempts, channels edited meanwhile. **`MissedStart`** and
**`ConnectivityScan`**: the two scanners against an instance whose heartbeats and starts
are reported late or not at all. **`CronMatch`**: the two cron parsers, that of the
source and that of the scanner.

### Deployment and configuration

**`WorkerDeployment`**: the plane's commands, sessions and rows, the agent's control loop
and supervisor, child processes that outlive it. The handler of a connection keeps the row
of the agent that it loaded at authentication (`known`) and writes the values that differ
from it (`Assign`); `cold` are the connections authenticated while the row said offline,
`late` says that the slots were last written for a connection the agent had left.
**`AgentWorkspace`**: what an agent
keeps on disk, with writes torn by crashes. **`ConnectorStore`** and **`WorkerBuilder`**:
connectors and workers edited in the console and compiled into deployments.
**`AppConfig`**: the load of an application from its file, with the resource types of
the core and of the plugins as data.

### How the modules are run

`MCExecutionBackend` and `MCDeliveryExecutor` extend their component with the values of
its constants and a variable that selects a scenario. The six others
(`MCRuntime`, `MCSql`, `MCBrokers`, `MCConnectors`, `MCControlPlane`, `MCDeployment`)
hold a family of components that are not connected: each component is instantiated
once per question with its constants, `part` says which instance a behaviour is
about and never changes, and the variables of the other components have the value
`Off`. A behaviour of such a module is a behaviour of one instance; the state spaces
add up and do not multiply. A property of the module names, for each part, the
properties of its component that the part's constants are chosen for; properties
with the same meaning for different components form one.

In `MCBrokers`, `MCRuntime`, `MCSql` and for the sources of `MCConnectors`, which have
proofs, the instances take their constants from a configuration record: `Kafka(c)` is the
topic with `c.LastOffset`, `c.Batch` and so on, and `Runtime(c)`, `Lifecycle(c)`,
`Managed(c)`, `Dead(c)`, `Queue(c)`, `Sink(c)`, `Binlog(c)`, `Mongo(c)`, `Hooks(c)` and
`Schedule(c)` likewise. What TLC checks is such an instance at a configuration that has a
name (`Topic` and `Partition` of Kafka; `Claimed`, `Restart` and `Timeouts` of the
runtime, `Startup` and `Restarts` of several tasks, `Lease` of a managed delivery,
`Letters` and `Memory` of dead letters; `Mysql`
and `Sqlite` of the table queue, `Table` of the sink, `Partial`, `Reopened` and `Followed`
of the binlog source; `Poll`, `Changes` and `Polled` of MongoDB, `Webhook` and
`Events` of the webhook server, `Cron`, `Every`, `Paused` and `Beside` of the schedules), and what is proved is the same instance for every configuration
that satisfies a stated hypothesis. The theorems about the family then only check that
its configurations do. `IncrementalSource` and `SqlPipeline` hold their own theorems, about
their constants; `MCSql` cites the lemmas behind them through its instances.

## Runs

| Run | States | Properties and what they show |
| --- | --- | --- |
| `runtime` | 166,000 | Nothing fetched, dead-lettered or replayed is lost (`NothingLost`, `ReplaysCounted`); concurrency holds across restarts (`WithinConcurrency`); "drained" and "paused" mean quiet (`QuietWhenReported`); resources are open while used and closed in the end (`OpenWhileUsed`); no runner or heartbeat runs on unwatched (`Supervised`); a restart never ends the process and a reported completion is stored (`PromisesKept`); controls complete (`ControlsComplete`) and leases end (`LeasesEnd`) |
| `execution_backend` | 430,000 | The inductive invariant of the proofs, answers that stay true, keys, final states, exclusive leases, deadlines, and the refinement of the lifecycle |
| `delivery_executor` | 7,240 | The executor's inductive invariant, its three ordering properties, and that every delivery settles |
| `sql` | 1,275,000 | Cursors never pass unhandled rows (`CursorSafe`), workers, rows and results agree for the rows no answer was lost about (`RowsAgree`), positions move forward only, over rows that are handled or that a cancelled fetch swallowed (`ForwardOnly`), every other row is handled (`EveryRowHandled`) |
| `brokers` | 258,000 | No message leaves its broker unhandled (`HandledBeforeGone`), every message is in one place (`MessagesHeld`), all are settled (`EveryMessageHandled`) |
| `connectors` | 641,000 | Sinks tell the truth about what is written (`SinksTellTheTruth`), sources lose and double nothing but what a stop, a pause or a retry under an awaited fetch takes, which is counted (`SourcesLoseNothing`), cursors and overlap are in order (`OrderedSteps`), nothing else waits for ever (`EverythingEnds`) |
| `control_plane` | 705,000 | Agents and plane report what happened, and a command whose outcome was overwritten is past its deadline (`ReportsAreTrue`, `NoticesAreTrue`); an outcome is overwritten only by a commit that had selected the row before, nothing else final is taken back (`NothingTakenBack`); what is asked for is answered (`EverythingAnswered`) |
| `deployment` | 341,000 | What runs is what was deployed: a deployment that is over has no process, across breaks, exits and crashes, and no slot, unless a connection broke or a child exited before the slot was given back; the registry and the session rows agree (`DeployedAsTold`). Loads are exact (`LoadsExactly`); answers, secrets and shell variables stay (`NothingOverwritten`); commands are answered while the connection holds, and the slots shown are those in use unless a late heartbeat of an old connection changed them last (`ComesToRest`) |

Each finishes within three minutes. Three more runs show the code departing from
what a document says (quotations in `PROJECT.json`, "findings"):

* `runner_memory`: a fetch from an in-memory queue that finishes as a shutdown is
  requested loses its deliveries, since `release_unstarted()` does nothing there.
* `kafka_two_retries`: two records retried in turn; the seek of the later hides the
  earlier.
* `outbox_crash`: an event is committed and its notification is not queued when the
  replica dies between the two transactions.

The other departures that were met are listed in [Departures](#departures).

### Bounds, and why they are enough

* `execution_backend`: scenario "race" has one execution with a deadline and two
  claimers (races are between at most two claims, a lease holder and a stale holder of
  the same row), lease 2 on a clock to 4 with a deadline at 2, so that the deadline
  passes before, in and after a lease and a second lease runs out, and three
  attempts. Scenario "batch" has two executions, one claimer and batches of 1, with
  submissions that share a key.
* `delivery_executor`: two sinks give a partial fan-out, a limit of 3 a first, a middle
  and a last attempt, and a limit of 1 mixes policies. The source is leased, in-memory,
  or one that hands out the same envelope again.
* `runtime`: three deliveries at concurrency 2 fill the runner and leave one in the
  queue; a restart needs two runners; two tasks that share a resource and have private
  ones; two commands on one dead-letter queue; a lease of two ticks, so that a heartbeat
  is missed before the lease ends.
* `sql`: two keys at two times give a row rewritten while its older version is in
  hand; three rows and two consumers with batches of two compete; three binlog events of
  two and three rows with a filtered one between them, of two, one and three rows, and,
  for a source that is opened again, two events of one and two rows; fetches of two rows
  split an event; one crash and one failed save, dropped or cancelled fetch at any step
  (two faults for the source that is opened again); two failed or unanswered updates of
  the queue, so that the second consumer meets a row that is settled twice.
* `brokers`: three to five records with batches of one or two, two retries, and one
  each of rebalance, failed commit and crash; two or three messages, one or two failed
  requests, batches smaller than the work; two senders beside a fetch on one
  connection.
* `connectors`: three documents in chunks of two, seven in chunks of six; two or three
  keys with batches of one or two and one recovery round, so that recovery also gives
  up; four documents at concurrency 3 with one retry, one failed save, one failed fetch and
  one crash, so that a fetch is awaited beside two handlers; three sources on one address of
  which two claim one route, one pause that meets a fetch; five to six ticks with
  overlapping runs and one delivery dropped by a stop.
* `control_plane`: one command over two connections and one restart of the agent, its
  select and commit apart, beside the expiry of a thread;
  three payloads on two channels with a queue of one; two executions and a buffer of
  two; two processes, three starts and a crash; two replicas, two attempts, one
  crash and one broken lease; twelve ticks with runs every four; every chunk of the cron
  grammar on a small calendar.
* `deployment`: two deployments for one slot, and one deployment with a break, a crash
  or an exit at any step; one interrupted installation; every request for a connector
  twice or three times; every graph of references of three resources; every resource
  type with and without each required field.

Deadlock is not checked: a bounded clock runs out, an application is down, a delivery
is settled, a load is over. That nobody is stuck before is what the liveness
properties say.

### Fairness

* asyncio's event loop is fair: a coroutine that can go on does. Every fetch returns
  (sources poll with a timeout or block for a bounded time), handlers end, calls end
  with a result or an exception. Fairness is on the disjunction of the ways a call may
  end, so any call may fail as often as its bound allows.
* Timers fire (schedules, flush timers, delays of retries, polls), leases and
  visibility timeouts run out when nobody extends them.
* Brokers and databases serve what they hold and redeliver what is due. A source
  that is asked again and again while it has work does not return nothing for ever
  (strong fairness of `FetchTakes`, for one conjunct of `ControlsComplete`).
* Strong fairness also for `Claim` of the outbox (a pending row that is due again and
  again is claimed by some drainer, the SELECT orders by due time).
* Requests, edits, faults, crashes, breaks and timeouts are never forced. Faults,
  crashes and retries are bounded, so liveness says what happens once they stop.
* A handler that never ends makes drain and shutdown without `shutdown_timeout_s`
  wait for ever; that is the code's choice. `Settles` excepts a dead-letter sink that
  fails again and again, because then the code retries beyond the policy on purpose.

`ExecutionBackend` has no liveness properties: whether an execution is claimed depends
on its clients. Where a lease comes back is in `ManagedDelivery`.

## Proofs

`ExecutionBackendProofs` holds for any sets of executions, claimers, requests and
completions and any bounds, from the assumptions on the constants in
`ExecutionBackend` only (durations and batch sizes are natural numbers, `NULL` is
neither a number nor an id, delays are natural).

* The invariant `Inductive` is `TypeOK` and, for each execution, `RowInv`: the row
  and its attempts agree (`Agree`), an absent row has no attempts, a row that
  exists has a request, only a success has a result, and a row asked to cancel is
  cancelling or cancelled. `LeaseMatchesAttempt` and `CancelWins` alone are not
  inductive: without "only a success has a result" a reclaimed cancellation could
  carry one.
* The central relation `RowStep(row, h, new, g)` lists what one transaction can do
  to one row and its attempts. One lemma per action shows that it does only that to
  each row; for `FinishClaim` this is where the predicate re-evaluated by the
  UPDATE, and not the candidates read earlier, carries the argument.
* Everything else follows from `RowStep`: it keeps `RowInv`, it leaves terminal
  rows alone (`FinishedForGood`), it starts an attempt only on a row without a live
  lease (`LeasesAreExclusive`), and through the mapping of rows to jobs it is a move
  of `ExecutionLifecycle` (`BackendImplementsLifecycle`). `AnswersStayTrue` adds
  that answers are given only for rows that say what was answered.

`OneKeyOneExecution` (`KeysAgree`) needs an invariant of its own, `KeyInv`: an accepted
submission under a key is the one its row keeps, and no two rows have one task and key.
`DeadlinesBoundStarts` (`DeadlineRule`) needs `Inductive` only: attempts are numbered by
their place, so the predicate that looks for the lost attempt by its number finds the last
one (`LostRetry`), and nobody but a claim that finishes starts an execution or lets it
expire.

The end of `DeliveryExecutor` proves `AckedWasEmitted`, `FailedWasDeadLettered` and
`PolicyExhausted` for every task and source. `Inductive` adds, per stage, which
sinks are still waiting (`Emitting`) and that giving up was the policy's decision
(`GivingUp`); it is needed because acknowledgement and failure look at nothing but
the executor's position.

### Brokers

`BrokersProofs` proves one safety theorem per broker, for every configuration: any set of
messages or length of log, any batch size and prefetch, any number of retries, faults,
stops and crashes.

| Theorem | Hypothesis on the configuration | What makes the property inductive |
| --- | --- | --- |
| `KafkaSafe` | `LastOffset` is a natural number | `KafkaInv`: every offset that may still be committed (the tracker's next one, the one of the commit under way, the broker's) has only handled records below it, and so has the position a tracker without a state starts from |
| `RedisSafe` | the bounds are natural numbers | `RedisInv`: the lists and the settled entries hold delivered entries only, each on one list |
| `SqsSafe` | `BatchLimit` is a natural number | `SqsInv`: a message whose delete is staged was handled (`StagedHandled`); while no lease runs out, or the heartbeat never fails, every receipt in hand is the current one (`AllCurrent`, `AllBeating`) |
| `CfSafe` | `BatchLimit` is a natural number | `CfInv`: a staged acknowledgement is of a handled message (`AcksHandled`); while no lease can be lost, a leased message is with its pull, its handler or on a list (`AllHeld`) |
| `RabbitSafe` | finitely many messages; for the connection, `OneUser` | `RabbitInv`: the four places of a message are apart and the buffer holds none twice (`MailInv`); the reference count is the number of queues that hold a reference and the connection is open exactly while it is positive (`LinkInv`) |

`OneUser` says that each queue object has one user: the reset of one user gives back the
reference another one counts on (see Departures), so the claim is false without it. That
two senders beside a fetch keep their messages in place is covered without it.
`HandledBeforeGoneHolds` and `MessagesHeldHolds` are the two invariants of the run
`brokers`, from these five.

### The runtime

`RuntimeProofs` is about `AppRuntime`, `AppLifecycle`, `ManagedDelivery` and `DeadLetters`.

* `RuntimeInv` is what every configuration has, whatever the source, the commands and
  the timeouts (`RuntimeTyped`, which includes that no fetch asks for more than the
  concurrency leaves). `Consistent` relates the fields of one runner, `Placed` a
  delivery to the await of the runner that has it, `Bounded` the room of a fetch to the
  handlers in flight. None is inductive without the others: that a parked runner is
  idle rests on where it may park, that a fetch fits on what it had when it began.
* `SupervisorInv` gives `RestartSupervised`: the first runner is alone until a command
  starts another, which it does when none is alive (`FirstAlone`); a restart empties the
  registry and fills it again (`Registered`); resources are closed when the runners
  waited for have ended, and each live runner is waited for by `serve()`, `shutdown()`
  or its command (`Awaited`). Hypothesis `OneCommand`: two `restart_task` commands on one
  task at the same time would start two runners, since `restart_task_runner` has no lock
  and the channel runs each command in a task of its own.
* `ServingInv`, for tasks that nobody restarts, gives `FetchedNeverLost` (for a source whose
  fetch is not cancelled and that takes deliveries back, `FetchesKept`; `runner_memory`
  shows that the claim is false otherwise) and `ReportedIsQuiet` (while no drain times
  out).
* `ReplacedInv` gives `RestartKeepsConcurrency`: serve() and a registered runner leave
  their loops on request only (`EndsOnRequest`), and a runner leaves deliveries behind
  only when the application stops, when its successor fetches nothing (`HandsOver`).
  Hypothesis `OrderlyRestart`: one command, no failing fetch, no timeout. With a timeout
  the old runner is cancelled with its handlers in flight, which is the code's choice.
  `ServeLeavesForAReason`, that no restart takes the process down, needs `RuntimeInv`
  only.
* `ManagedInv`, for every lease duration, gives `HeartbeatEndsWithItsDelivery` and
  `CompletionsKept`: the heartbeat lives until the completion (`BeatsUntilCompleted`), a
  cancellation that was read is remembered until it is met (`CancelRemembered`), and a
  completion that answered is in the row (`StoredAsSaid`).
* `DeadInv` gives `DeadLettersKept`: every message is `Backed` by a queue, by the hand of a
  command, by a lease that will end, or by its success or discard. The hand of a
  command that is about to acknowledge does not count: by then the replayed copy must
  be in the queue, and this is where the order "publish, then acknowledge" is used.
  Hypothesis `DeadConfig`: finitely many messages, natural bounds, and commands on a queue
  without leases are not cancelled (what such a command holds is in its memory only).
* `TallyInv` and `LivesInv` give `ReplaysAddUp`, with one more hypothesis: finitely many
  commands (`TallyConfig`). The reports add up (`Reported`) because each step moves a
  letter between the queues, the leases, a hand and a report; the numbers are cardinalities
  of the positions of a sequence that count (`Count`) and of disjoint unions (`Total`), so
  that no induction is needed. That replays are bounded is not inductive: `Owed` adds to
  the replays of a message whatever can still be replayed, in a queue, leased or in a hand
  and not sent yet, and a fault, an expired lease or a cancelled command pays for each
  letter that is there once more. `FirstLife` says of a message with attempts left that
  the source has it once, that it never died and was never replayed; with `SpentLetters`
  (what died has no attempts left) a replayed message dies at once if it fails.
* `LifecycleInv` gives `RestartsShareNothing`: what is open is what the loop of `startup()`
  has opened so far (`StartsAlone`); while the application serves, every resource is open
  but those that a restart of their only task has closed and not opened again
  (`ServesOpen`, `ReopensClosed`). Hypothesis `LifecycleConfig`: finitely many resources,
  and no task lists one twice among its source, sinks and dead-letter sinks. The last is
  needed: `start_task_runner` walks the list without removing duplicates, so a task that
  names one resource twice has it opened twice by a restart. `NothingLeftOpen` (a failed
  or finished application leaves nothing open) is claimed for applications without
  restarts: `serve()` does not cancel a restart that is under way when it ends, and
  such a restart opens its private resources after `shutdown()` has closed everything.

`NothingLostHolds`, `ReplaysCountedHolds`, `WithinConcurrencyHolds`,
`QuietWhenReportedHolds`, `OpenWhileUsedHolds`, `SupervisedHolds` and `PromisesKeptHolds`
are the safety properties of the run `runtime`, from these: all of them.

### SQL sources and sinks

The theorems about one component, each for all of its configurations; `IncrementalSource`
and `SqlPipeline` end with theirs, the others are in `MCSql`.

| Theorem | Hypothesis on the configuration | What makes the property inductive |
| --- | --- | --- |
| `CursorNeverSkips`, `CursorGoesForward` | `SourceConfig`: keys and times are positive, the batch is a natural number, no row becomes visible behind a greater cursor (`~LateCommits`, which the source asks of its table) | `SourceInv`: what a query has read is still next after what was fetched, whatever is written meanwhile (`Queried`); a row below what was fetched is pending or handled (`Covered`); a pending row is in one place: acknowledged, with a handler, refused by a failed save, waiting for a retry or read by the fetch (`Apart`), so that the executor's retry of an acknowledged row hands out none that is still acknowledged; the commit task saves acknowledged tokens from the head of the queue, and a save that failed and was stored is not gone back on (`Saving`) |
| `ResultsReachTheReader` | the same | `PipelineInv`: `SourceInv`, and a worker that has sent a result finds its row in the table (`Written`) |
| `RowsHaveOneWorker` | `QueueConfig`: the name of a free row is nobody's, and `nack` sets another value than `ack`, or nothing | `QueueInv`: the rows of a claiming transaction are locked and ready (`Locked`); whoever has a row finds it "claimed", which is all that keeps consumers apart because rows are settled by key, and is false for the rows with a lost answer, which `doubted` takes out (`ClaimedApart`) |
| `SinkKeepsItsPolicies` | `SinkConfig`: there is a column besides the key, and rows written by others hold plain values | `SinkInv`: sending the last payload again would find the row as it would leave it (`Settled`) |
| `BinlogSkipsNothing` | `BinlogConfig`: `Ends` counts rows, so it does not fall | `BinlogInv`: from the position where the source first started, what is saved or committed is handled or was swallowed by a cancelled fetch of this process (`Gone`), and a row before a queued one is gone or queued before it (`NoGap`); while the source stays open the queues follow the log (`InLogOrder`) |

`NoGap` is stated with "gone or queued", not with an order of the queue, since a source
that is closed and opened again queues rows a second time and may commit an earlier
position than before; `HeldOnce` and `SavedFollows` are claimed without reopening only.
`RowsHaveOneWorker` needs no lease: a row of a consumer that died stays claimed (see
Departures). `CursorSafeHolds`, `RowsAgreeHolds` and `ForwardOnlyHolds` are the safety
properties of the run `sql`, from these.

### MongoDB, webhook and schedule sources

At the end of `MCConnectors`, each theorem for all configurations of its component.

| Theorem | Hypothesis on the configuration | What makes the property inductive |
| --- | --- | --- |
| `StaleMovesNothing` | `MongoConfig`: natural numbers, and the saved cursor is not beyond the documents | `MongoInv`: no position is beyond what the server holds (`Cursors`); a delivery that advances the cursor is of the current generation, and an earlier generation with work left has been given up (`Generations`), so a late acknowledgement finds its generation among those given up |
| `CursorPassesNothing`, `CursorNeverMovesBack` | `OrderedConfig`: natural numbers, and a change stream has a token to resume from | `OrderInv`, which is `raced` or: a generation begins when the earlier ones are done and its documents are consecutive (`InOrder`); what left `_pending` is done and what is left follows the cursor (`Follows`); a fetch that is awaited, however deliveries settle meanwhile, began where the last one ended (`Position`). Each step of a save then extends the run of settled documents below the cursor |
| `RequestsInOnePlace` | `HooksConfig`: finitely many requests, natural bounds; any sources and routes | `ServerInv`: whoever starts or closes the listener holds the lock, and the routes are exactly those of the open sources; `QueueInv`: queue, handlers and waiting retries of a source are apart (`Apart`), no two sources have one request (`Alone`), and a request is accepted exactly when one of them has it, it is done or it was dropped |
| `RunsInHandCounted`, `RunsNeverOverlap` | `ScheduleConfig`: natural bounds (`MaxDue` positive), any set of cron slots, any policy | `CountInv`: the deliveries in hand and the retries are finite, of different runs, and `_inflight` counts the former and those that were dropped (`leaked`); `ClockInv`: an immediate run is pending only while nothing else is |
| `BacklogMissesNothing`, `OldestDroppedFirst` | the same, without pauses, or (for the second) with one delivery at a time (`Steady`) and nothing dropped on a stop (`Whole`) | `BacklogInv`: the backlog is rising, of slots before the next one, and newer than all that was dropped (`Backlog`); a slot before the next one was started, waits or was dropped (`Accounted`) |

The hypotheses are those the code needs. Deliveries settle while a fetch is awaited, as in
the code, and the theorems hold through that; but a retry that gives up the current
generation meanwhile lets the documents of the fetch join the generation it has just begun,
and the cursor passes the retried one or moves back (Departures, `MongoSource`). From then on
(`raced`) what is left is `StaleMovesNothing`. A schedule that is resumed with a run in hand may drop a slot and queue it again, since
`_initial_fire_at` may be the current minute. Sorting by the policy of `_collect_due_runs`
and taking from the retry heap are stated by counting what comes before (`Rank`), so that no
induction is needed.

`SourcesLoseNothingHolds` and `OrderedStepsHolds` are the properties of the sources in the run
`connectors`, from these.

### Only model-checked, and why

* Every liveness property: fairness and ENABLED are beyond the prover.
* The results of recursive definitions (`AppConfig`, `CronMatch`): what they compute for
  every input is an induction over data.
* The sinks (`SinksTellTheTruth`) and the families `control_plane` and `deployment`: nothing
  in the prover stands in the way, but their invariants are not proved yet.

## Not modelled

* Payloads, encodings, logging, SQL text, wording of notifications, layout of pages.
* The failure capture and the diagnostics of a single delivery: files written beside
  the delivery path, whose errors are swallowed. The CLI and the build of packages:
  argument parsing and file copying.
* The console's read-only queries and rendering (`query_support.py`, `schemas.py`), its
  user sessions, the event stream to browsers and the UI: nothing else depends on
  their state. The retention worker: a DELETE by age in batches.
* Feishu's unindexed buffered sink, linked records and incremental source; the HTTP
  sink (one request); options of clients.
* `MemoryQueue`'s bounded queue and its change of event loop; `run_task_once`, which
  hands a synthetic delivery to the executor.
* Real calendars: months of unequal length and time zones (`CronMatch` has months of
  equal length).

## Plan

What is left, in order:

1. Proofs: the safety of `WsSender` and of `AgentCommands`, with configuration records as in
   the other families.
2. A composition of `ManagedDelivery` with `ExecutionBackend` in which the row of the
   one is the table of the other.
3. Feishu's incremental source.

## Departures

Places where the code does not keep what a document, comment or test of the repository
says. Each was seen with TLC as a violation of the property under the constants given,
checked against the module itself (with its fair specification for a temporal
property). Some properties name the departure as an exception, so that the rest can be
checked and proved; these entries say "without" and the exception, and what was seen is a
violation of the property without it. Together with the three runs above these are all that were met. They are not among the runs of `PROJECT.json`: to see one again, give TLC the module, its
`Spec` or `FairSpec`, the property and the constants listed. Where the property also
holds under other constants, a family's run checks it there; the rest (among them
`AcceptedIsAnswered` and `RunOnce` of AgentCommands, `StartsInTheEnd`,
`OneSubprocess`, `EveryEntryHandled`, `CancellationRetries`) are stated in their
module for this purpose only, and no passing run shows them, or shows them only as
part of a differently named property of the family.

### AgentCommands

* `RunOnce`, plugins/onestep-control-plane/src/onestep_control_plane/ws.py:451. A
  command is recognised by _command_receipts, a dictionary of the agent's process. A
  command that was started but whose acknowledgement did not reach the server before
  the process died is redelivered to the next process of the same instance_id and
  executed again; apps/control-plane/docs/protocols/agent-ws-protocol.md:347 says
  "duplicate commands must not be executed twice" and line 341 "business idempotency
  must not rely on connection continuity".
  Constants: `Commands = {c1}, MaxConnections = 2, MaxRestarts = 1, Deadlines = FALSE`
* `AcceptedIsAnswered`,
  plugins/onestep-control-plane/src/onestep_control_plane/ws.py:536. _execute_command
  sends its result once: when there is no connection at that moment, or the send
  fails, the result stays in the receipts, which are only consulted when the server
  redelivers the command, and the server never redelivers an accepted one. The same
  holds for a command whose acknowledgement could not be sent, which is then not even
  started (line 476). apps/control-plane/docs/protocols/agent-ws-protocol.md:357 says
  "`command_result`: at least once, deduped by `command_id`".
  Constants:   `Commands = {c1}, MaxConnections = 2, MaxRestarts = 0, Deadlines = FALSE`
* `OutcomeStays` without the commit that had selected the row before,
  apps/control-plane/backend/src/onestep_control_plane_api/api/agent_command_service.py:499.
  The redelivery on reconnect lists the commands and commits each as dispatched, and the
  handlers of acknowledgements and results (api/routers/agent_ws.py:287 and 320) test
  finished_at in Python and commit, none with a lock or a condition: an expiry committed by
  a list endpoint in between is overwritten, and the other way round. A command that was
  expired is then shown as dispatched or accepted with finished_at set, and every result
  of it is refused as a duplicate, until the next list expires it again
  (`ReopenedIsLate`); apps/control-plane/docs/protocols/agent-ws-protocol.md:252 says "on
  reconnect, unsatisfied commands may be redelivered if not expired".
  Constants: `Commands = {c1}, MaxConnections = 2, MaxRestarts = 0, Deadlines = TRUE`

### AgentIdentity

* `OneOwner`, src/onestep/identity_store.py:218. _reclaim_stale_lock reads the owner
  and then unlinks whatever lock file is there, so of two processes starting after a
  crash one can remove the lock the other has just created;
  apps/control-plane/docs/plans/2026-03-19-onestep-stable-instance-identity.md:40 says
  "One live process must own one state file at a time."
  Constants: `Procs = {p1, p2}, Pids = {1, 2, 3}, Tasks = {t1}, StateDir = TRUE,
  MaxStarts = 3, MaxCrashes = 1, MaxSent = 0`
* `LockErrorMeansContention`, src/onestep/identity_store.py:215. A lock left by a
  killed process is refused when its process id runs again, the starting process
  itself included (process 1 of a container), because only the pid is compared and the
  recorded hostname and time are not; docs/stable-instance-identity.md:244 gives as
  the cause of a lock error "两个活着的进程在抢同一个状态目录" (two live processes compete for one
  state directory).
  Constants: `Procs = {p1}, Pids = {1}, Tasks = {t1}, StateDir = TRUE, MaxStarts = 2,
  MaxCrashes = 1, MaxSent = 0`
* `SequencesIncrease`,
  plugins/onestep-control-plane/src/onestep_control_plane/reporter.py:664.
  _resolve_state_dir returns no state directory when an instance id is configured
  without a replica key, so the sequences restart at 1 under the same instance id and
  the control plane ignores them as stale;
  apps/control-plane/docs/plans/2026-03-19-onestep-stable-instance-identity.md:7 says
  the design is to "continue `sync` / `heartbeat` sequences instead of resetting them
  so the current control-plane freshness checks still accept the data stream".
  Constants: `Procs = {p1}, Pids = {1}, Tasks = {t1}, StateDir = FALSE, MaxStarts = 2,
  MaxCrashes = 0, MaxSent = 2`

### AgentWorkspace

* `CheckedIsWhole`, apps/work-agent/src/onestep_worker_agent/supervisor.py:168. The
  marker of the older version survives an interrupted installation of the newer one,
  so the older agent reuses the mixed environment; supervisor.py:15 says: an
  interrupted install leaves no marker, so the next attempt rebuilds the venv from
  scratch.
  Constants: `Dirs = {d1}, Default = d1, Packages = {p1}, MaxVersion = 2, Downgrades =
  TRUE, MaxCrashes = 2, MaxSetups = 0`
* `RegistersOnce`, apps/work-agent/src/onestep_worker_agent/cli.py:30. Registration
  and save_identity are separate steps: a crash in between registers a second agent
  and orphans the first; apps/work-agent/README.md:57 says: The agent registers once,
  stores its identity under the worker-agent directory.
  Constants: `Dirs = {d1}, Default = d1, Packages = {p1}, MaxVersion = 1, Downgrades =
  FALSE, MaxCrashes = 1, MaxSetups = 0`
* `StartsInTheEnd`, apps/work-agent/src/onestep_worker_agent/identity.py:27.
  save_identity truncates and writes in place; a torn identity.json makes every later
  start fail in json.loads;
  apps/control-plane/docs/superpowers/specs/2026-06-15-onestep-worker-agent-design.md:158
  says: Later restarts reuse the persisted identity and do not reuse the registration
  token.
  Constants: `Dirs = {d1}, Default = d1, Packages = {p1}, MaxVersion = 1, Downgrades =
  FALSE, MaxCrashes = 1, MaxSetups = 0`

### AppConfig

* `StrictEnvCatches`, src/onestep/config.py:298. _collect_env_refs strips the name of
  a reference before it looks it up, the expansion does not: with VAR set, ${ VAR }
  passes strict_env and becomes an empty string;
  skills/onestep/references/core-reliability.md:87 says "`app.strict_env` catches
  missing env variables without defaults."
  Constants: `Vars = {"v1", "v2"}, MaxLoads = 1, MaxFaults = 0`
* `ConnectorKind`, plugins/onestep-sql/src/onestep_sql/mysql/resources.py:336. The SQL
  builders only ask whether the connector has the method they call, and the connectors
  of the three dialects all have it: a mysql_table_sink is built on a sqlite or
  postgres connector; docs/yaml-task-definition.md:258 says "Reference to a `mysql`
  connector."
  Constants: `Vars = {}, EnvFiles = <<>>, MaxLoads = 1, MaxFaults = 0`

### AppLifecycle

* `OpenedOnce`, src/onestep/app.py:480. _task_resources lists a resource that is
  source and sink of one task twice, so a restart closes it twice and then calls
  open() twice, the second time on an open resource; src/onestep/app.py:425 says of
  the choice of resources "(mirrors startup()'s dedupe-by-id policy)", and startup()
  opens each once.
  Constants: `Tasks = {t1, t2}, Uses = t1 :> <<queue, queue>> @@ t2 :> <<src, shared,
  dead>>, Named = <<src>>, MaxRestarts = 1, MaxFaults = 0`
* `NothingLeaks`, src/onestep/app.py:482. A restart command is a task of its own that
  nothing cancels: stop_task_runner has removed the only runner handle, a shutdown
  request lets serve() leave its loop, shutdown() closes every resource and empties
  the registry, and start_task_runner then opens the private resources and spawns a
  runner nobody cancels; src/onestep/app.py:746 says shutdown() takes care of it:
  "Cancel any runner task handles that somehow outlived serve()'s own gather/wait
  (e.g. a per-task restart spawned a new runner right as shutdown began)".
  Constants: `Tasks = {t1, t2}, Uses = t1 :> <<queue, shared>> @@ t2 :> <<src, shared,
  dead>>, Named = <<src>>, MaxRestarts = 1, MaxFaults = 0`

### AppRuntime

* `WithinConcurrency`, src/onestep/app.py:446. stop_task_runner pops the handle before
  it awaits the cancelled runner, so a second restart_task (every command runs in a
  task of its own) finds no handle, does not wait and starts another runner while the
  first still drains: together they handle more deliveries than task.concurrency.
  docs/yaml-task-definition.md:979 says "`tasks[].concurrency` is the maximum number
  of in-flight deliveries."
  Constants: `Deliveries = {d1, d2}, Runners = {r1, r2, r3}, First = r1, Commands =
  {k1, k2}, Concurrency = 1, CancelSafe = FALSE, GivesBack = TRUE, FetchFails = FALSE,
  DrainTimesOut = FALSE, CommandTimesOut = FALSE`
* `DrainBeforeClose`, src/onestep/app.py:448. A runner whose fetch raised a
  non-retryable error is already in its finally block, draining its handlers; cancel()
  then hits the drain itself, the runner ends with handlers running, and
  stop_task_runner closes the task's resources. Its docstring, src/onestep/app.py:440,
  says "cancel its coroutine (letting the runner's finally block drain inflight work
  and release fetch state), ... and close the task's *private* resources".
  Constants: `Deliveries = {d1, d2}, Runners = {r1, r2}, First = r1, Commands = {k1},
  Concurrency = 2, CancelSafe = FALSE, GivesBack = TRUE, FetchFails = TRUE,
  DrainTimesOut = FALSE, CommandTimesOut = FALSE`
* `NothingLost`, src/onestep/runtime/runner.py:99. A restart cancels the runner
  between its fetch and the start of the handlers: the batch is claimed, no handler
  settles it and nothing releases it; src/onestep/app.py:440 says of the cancellation
  "letting the runner's finally block drain inflight work and release fetch state".
  Constants: `Deliveries = {d1, d2}, Runners = {r1, r2}, First = r1, Commands = {k1},
  Concurrency = 1, CancelSafe = FALSE, GivesBack = TRUE, FetchFails = FALSE,
  DrainTimesOut = FALSE, CommandTimesOut = FALSE`
* `DrainCompletes`, src/onestep/app.py:450. A restart_task command that times out is
  cancelled while it awaits the runner, before the runner leaves _runners:
  drain_status counts the dead runner as running forever; docs/core-reliability.md:98
  says "`drain` stops new fetches and waits for inflight deliveries to finish."
  Constants: `Deliveries = {d1}, Runners = {r1, r2}, First = r1, Commands = {k1},
  Concurrency = 1, CancelSafe = FALSE, GivesBack = TRUE, FetchFails = FALSE,
  DrainTimesOut = FALSE, CommandTimesOut = TRUE`

### BinlogSource

* `EveryRowHandled` without `dropped`,
  plugins/onestep-sql/src/onestep_sql/mysql/connector.py:393. BinlogDelivery.retry sleeps and returns: the row is neither delivered again nor
  released, and its token blocks the position for the life of the process;
  docs/core-reliability.md:59 says: onestep is at-least-once.
    Constants: `Ends = <<1, 3>>, Limit = 2, Retries = TRUE, Reopens =
  FALSE, MaxFaults = 0, MaxCrashes = 0`
* `EveryRowHandled` without `missed`, and `NothingSkipped` without `missed`,
  plugins/onestep-sql/src/onestep_sql/mysql/connector.py:458. The source keeps
  fetch_is_cancel_safe of src/onestep/connectors/base.py:41, so a stop or pause cancels its
  fetch; the thread of asyncio.to_thread goes on and takes rows from the stream for
  nobody, and the acknowledgement of a later row saves a position behind them: they are
  not read again after a restart. docs/core-reliability.md:103 says "Sources that cannot
  safely cancel a fetch should set `fetch_is_cancel_safe = False`".
  Constants: `Ends = <<1, 3>>, Limit = 2, Retries = FALSE, Reopens =
  FALSE, MaxFaults = 1, MaxCrashes = 0`
* `EveryRowHandled` without `dropped`, src/onestep/runtime/runner.py:132. Rows fetched when
  a stop or pause arrives are released by a release_unstarted that does nothing
  (base.py:20): they stay at the head of the queue and hold the position for the life of
  the process; docs/connector-conformance.md:13 says "Intake stop controls release work
  fetched but not started."
  Constants: `Ends = <<1, 3>>, Limit = 2, Retries = FALSE, Reopens =
  FALSE, MaxFaults = 1, MaxCrashes = 0`

### BulkSink

* `WrittenOnce`,
  plugins/onestep-elasticsearch/src/onestep_elasticsearch/connector.py:567. An
  exception of the transport leaves _send_chunk without its partial_success: with no
  whole chunk committed the kind stays DISCONNECTED, and the executor sends the
  acknowledged documents again; skills/onestep/references/connectors.md:395 says "When
  part of a logical batch committed before a later failure, the connectors report
  `UNCERTAIN` unless replay of the entire payload is demonstrably idempotent. onestep
  does not automatically retry uncertain writes."
  Constants: `Backend = "elasticsearch", Operation = "index", HasIds = FALSE, Ordered
  = FALSE, Sizes = <<1, 1, 1>>, ChunkSize = 3, MaxBytes = 9, MaxRetries = 2,
  SendAttempts = 2, Faults = {"items", "connect"}`
* `PartialIsUncertain`,
  plugins/onestep-elasticsearch/src/onestep_elasticsearch/connector.py:559. The chunks
  are encoded lazily, so the ValueError of an oversized action is raised after earlier
  chunks were committed, and is reported as PERMANENT;
  skills/onestep/references/connectors.md:395 says "When part of a logical batch
  committed before a later failure, the connectors report `UNCERTAIN` unless replay of
  the entire payload is demonstrably idempotent. onestep does not automatically retry
  uncertain writes."
  Constants: `Backend = "elasticsearch", Operation = "index", HasIds = FALSE, Ordered
  = FALSE, Sizes = <<1, 1, 9>>, ChunkSize = 1, MaxBytes = 5, MaxRetries = 0,
  SendAttempts = 2, Faults = {}`
* `WrittenOnce`, plugins/onestep-clickhouse/src/onestep_clickhouse/resilience.py:93. A
  ConnectionError while the answer to an insert is awaited is DISCONNECTED, which the
  executor retries; README.md:231 says "A partial commit whose final write set is
  unknown is reported as `UNCERTAIN` and is not automatically replayed."
  Constants: `Backend = "clickhouse", Operation = "insert", HasIds = FALSE, Ordered =
  FALSE, Sizes = <<1, 1, 1>>, ChunkSize = 3, MaxBytes = 9, MaxRetries = 0,
  SendAttempts = 2, Faults = {"lost"}`

### CfQueue

* `LeasedIsHeld`, plugins/onestep-cf-queues/src/onestep_cf_queues/connector.py:182.
  The server leases the messages when it answers the pull, before the client reads the
  answer: a fetch cancelled meanwhile leaves them leased until visibility_timeout_ms;
  the comment at connector.py:180 says "safe to cancel: no message is claimed until
  the response is parsed."
  Constants: `Msgs = {m1}, BatchLimit = 1, MaxStaged = 2, OnFail = "retry", Expiry =
  "never", MaxFaults = 0, MaxRetries = 0, MaxStops = 1, MaxCrashes = 0`

### ConnectorStore

* `RuntimeMatchesDisplay`,
  apps/control-plane/backend/src/onestep_control_plane_api/api/connector_service.py:136.
  Without a database no DSN is built and the stored one is kept: an edit of the host
  that leaves the database out is shown with the new host while workers are given the
  DSN of the old one; apps/control-plane/backend/tests/test_connectors_api.py:112
  "test_update_mysql_connector_keeps_blank_password_and_rebuilds_dsn".
  Constants: `Kind = "sql", Hosts = {"h1", "h2"}, Users = {"u"}, Paths = {"d"},
  Passwords = {"p1", "p2"}, Schemes = {"default"}, Partial = TRUE, NoDatabase = TRUE,
  Clients = {c1}, MaxRequests = 2`
* `SubmittedUrlStored`,
  apps/control-plane/backend/src/onestep_control_plane_api/api/connector_service.py:220.
  The parts of a submitted URL are laid over the stored ones and the URL is built
  again: a URL without a user, password or path keeps those of the URL it replaces;
  apps/control-plane/backend/tests/test_connectors_api.py:217 "assert
  summary["secret"] == {"url": "redis://new@host"}" in
  test_update_connector_secret_overwrites_value.
  Constants: `Kind = "server", Hosts = {"h1", "h2"}, Users = {"u"}, Paths = {"d"},
  Passwords = {"p1", "p2"}, Schemes = {"default"}, Partial = TRUE, NoDatabase = TRUE,
  Clients = {c1}, MaxRequests = 2`
* `RuntimeMatchesDisplay`,
  apps/control-plane/backend/src/onestep_control_plane_api/api/connector_service.py:380.
  update_connector reads the row, computes both columns and writes those that changed,
  without a lock: an edit of the password that read the row before an edit of the host
  commits brings the old host back into the URL and not into the fields;
  apps/control-plane/backend/tests/test_connectors_api.py:112
  "test_update_mysql_connector_keeps_blank_password_and_rebuilds_dsn".
  Constants: `Kind = "server", Hosts = {"h1", "h2"}, Users = {"u"}, Paths = {"d"},
  Passwords = {"p"}, Schemes = {"default"}, Partial = TRUE, NoDatabase = TRUE, Clients
  = {c1, c2}, MaxRequests = 3`

### CronMatch

* `ExpectsEveryRun`,
  apps/control-plane/backend/src/onestep_control_plane_api/api/notification_service.py:756.
  _cron_field_matches returns from the whole function at the first plain number of a
  list, so of "0,30 * * * *" only minute 0 is ever expected, and a missed start at
  minute 30 is never reported;
  apps/control-plane/docs/plans/2026-04-30-notification-webhook-design.md:314 says the
  scanner shall "calculate expected `scheduled_at` timestamps within a recent lookback
  window" and report each one that has no matching start.
  Constants: `Size = <<4, 1, 1, 1, 1>>, MaxChunks = 2, Starts = {0}`

### DeliveryExecutor

* `CancellationRetries`, src/onestep/runtime/executor.py:182. CancelledError raised
  inside _handle_failure (a failure hook, the sleep of MemoryDelivery.retry, a
  dead-letter send) is not caught by the sibling except clause of execute(): the
  delivery is neither retried nor failed, and an in-memory source never hands it out
  again. docs/core-reliability.md:94 says "Cancellation retries the delivery."
  Constants: `Sinks = {s1}, DeadLetterSinks = {q1}, Kinds = {"error", "timeout"},
  Limit = [error |-> 3, timeout |-> 1], MaxLimit = 3, SendAttempts = 2, Leased =
  FALSE, Counts = TRUE, Cancels = TRUE, SettleFails = FALSE`
* `FinallySettled`, plugins/onestep-rabbitmq/src/onestep_rabbitmq/connector.py:35.
  retry() nacks with requeue, so the broker delivers the same encoded envelope and
  decode_envelope reads the same attempts: MaxAttempts compares 0 + 1 with its limit
  every time and never gives up. docs/broker/rabbitmq.md:154 says of
  retry=MaxAttempts(max_attempts=3): "失败 3 次后，消息会被 nack" (after failing 3 times the
  message is nacked). The Redis, Kafka and SQS deliveries behave alike.
  Constants: `Sinks = {s1}, DeadLetterSinks = {q1}, Kinds = {"error", "timeout"},
  Limit = [error |-> 3, timeout |-> 1], MaxLimit = 3, SendAttempts = 2, Leased = TRUE,
  Counts = FALSE, Cancels = FALSE, SettleFails = FALSE`

### FeishuIndexedSink

* `SendsEnd`,
  plugins/onestep-feishu-bitable/src/onestep_feishu_bitable/connector.py:1104. A send
  that finds _flush_task set starts no timer, but the timer task stays set while it
  writes the batch it has sealed: a key buffered meanwhile, in a batch that never
  fills, is flushed by nobody until another send or close comes;
  docs/superpowers/specs/2026-08-14-feishu-insert-incremental-sync-design.md:189 to
  190 say "the independent flush timer commits the partial batch."
  Constants: `Keys = {k1, k2}, Copies = 1, BatchSize = 2, MaxRounds = 1, Capacity = 2,
  Responses = {"rejected", "lost"}, EarlyClose = FALSE, MaxFaults = 0, MaxRetries = 0,
  MaxCancels = 0, MaxCrashes = 0`
* `CloseClean`,
  plugins/onestep-feishu-bitable/src/onestep_feishu_bitable/connector.py:1108. A
  CancelledError in the send that is writing the batch leaves through
  _flush_indexed_insert: the batch stays in _pending_by_key in state WRITING, is in no
  order queue and is settled by nobody, other senders of its keys wait for ever and
  close() fails "assert not self._pending_by_key";
  docs/superpowers/specs/2026-08-14-feishu-insert-incremental-sync-design.md:370 to
  371 say "all unresolved waiters receive the final connector error before close
  raises. No Future is left pending."
  Constants: `Keys = {k1}, Copies = 1, BatchSize = 1, MaxRounds = 1, Capacity = 1,
  Responses = {"rejected", "lost"}, EarlyClose = FALSE, MaxFaults = 0, MaxRetries = 0,
  MaxCancels = 1, MaxCrashes = 0`
* `CloseClean`,
  plugins/onestep-feishu-bitable/src/onestep_feishu_bitable/connector.py:1801. close()
  cancels _flush_task even when that task has sealed a batch and is writing it: the
  batch stays in _pending_by_key and close() fails its assertion;
  docs/superpowers/specs/2026-08-14-feishu-insert-incremental-sync-design.md:364 says
  that it "cancels only a separate scheduled timer" and step 4 that it "completes
  every remaining waiter successfully or exceptionally".
  Constants: `Keys = {k1}, Copies = 1, BatchSize = 2, MaxRounds = 1, Capacity = 1,
  Responses = {"rejected", "lost"}, EarlyClose = FALSE, MaxFaults = 0, MaxRetries = 0,
  MaxCancels = 1, MaxCrashes = 0`
* `OneRecord`,
  plugins/onestep-feishu-bitable/src/onestep_feishu_bitable/connector.py:1461.
  _reconcile_uncertain_key discards the uncertain mark on an answer read before a
  second send of the key wrote it, lost the answer and marked it uncertain again; the
  key is then created a second time, where
  docs/superpowers/specs/2026-08-14-feishu-insert-incremental-sync-design.md:324 to
  327 say "A runtime retry of such a key must exact-search first and may create only
  after a confirmed miss. Thus [retries] cannot blindly duplicate an uncertain write."
  Constants: `Keys = {k1}, Copies = 2, BatchSize = 1, MaxRounds = 1, Capacity = 1,
  Responses = {"rejected", "lost"}, EarlyClose = FALSE, MaxFaults = 2, MaxRetries = 0,
  MaxCancels = 0, MaxCrashes = 0`
* `OneRecord`,
  plugins/onestep-feishu-bitable/src/onestep_feishu_bitable/connector.py:441. A 2xx
  answer to batch_create whose body is not JSON is classified by _classify_status as
  PERMANENT, which _is_definite_write_error takes for a rejected write: the keys are
  failed without being marked uncertain and the retry creates them again;
  docs/superpowers/specs/2026-08-14-feishu-insert-incremental-sync-design.md:298 to
  300 say "A malformed or short success response enters reconciliation because the
  actual write outcome cannot be assigned safely."
  Constants: `Keys = {k1}, Copies = 1, BatchSize = 1, MaxRounds = 1, Capacity = 1,
  Responses = {"malformed"}, EarlyClose = FALSE, MaxFaults = 1, MaxRetries = 1,
  MaxCancels = 0, MaxCrashes = 0`

### IncrementalSource

* `EveryRowHandled` without `Blocked`,
  plugins/onestep-sql/src/onestep_sql/mysql/connector.py:720. A save fails, so the ack
  raises and the executor retries the row, which stays acknowledged; when the ack of
  another row saves it first, the entry of the retry is no longer among the pending ones,
  is never taken and keeps fetch from querying for ever; docs/broker/mysql.md:410 says only
  of the time of the retry:
  缺口重试期间不会继续发出后续 SQL 查询 (no further SQL query is issued while the gap is being
  retried).
  Constants: `Keys = {1, 2}, Times = {1, 2}, Batch = 2, LateCommits = FALSE,
    ReleasesUnstarted = TRUE, StopRace = FALSE, Fatal = FALSE, MaxFaults = 1, MaxCrashes
  = 0, MaxRetries = 0, MaxStops = 0`
* `EveryRowHandled`, plugins/onestep-sql/src/onestep_sql/postgres/connector.py:349.
  The PostgreSQL IncrementalDelivery has no release_unstarted although its source has
  release_token: rows fetched when a pause arrives stay pending and undelivered;
  docs/connector-conformance.md:42 says: intake stops before handler:
  release_unstarted.
  Constants: `Keys = {1, 2}, Times = {1, 2}, Batch = 2, LateCommits = FALSE,
  ReleasesUnstarted = FALSE, StopRace = FALSE, Fatal = FALSE, MaxFaults = 0,
  MaxCrashes = 0, MaxRetries = 0, MaxStops = 1`
* `EveryRowHandled`, src/onestep/runtime/runner.py:133. When the stop signal and the
  fetch complete in the same turn of the loop, the finished fetch is cancelled and its
  deliveries are dropped although the source already holds them as pending;
  docs/connector-conformance.md:42 says: intake stops before handler:
  release_unstarted.
  Constants: `Keys = {1, 2}, Times = {1, 2}, Batch = 2, LateCommits = FALSE,
  ReleasesUnstarted = TRUE, StopRace = TRUE, Fatal = FALSE, MaxFaults = 0, MaxCrashes
  = 0, MaxRetries = 0, MaxStops = 1`

### KafkaTopic

* `EveryRecordHandled`, plugins/onestep-kafka/src/onestep_kafka/connector.py:300.
  release_unstarted_record seeks to its own offset; the records of a batch are
  released in order, so the last seek wins and the earlier ones are not read again
  before a restart; docs/connector-conformance.md:13 says "Intake stop controls
  release work fetched but not started."
  Constants: `LastOffset = 3, Gaps = {}, Batch = 2, OneByOne = FALSE, Rebalances =
  FALSE, MaxRetries = 0, MaxStops = 1, MaxFaults = 0, MaxCrashes = 0`
* `EveryRecordHandled`, plugins/onestep-kafka/src/onestep_kafka/connector.py:65.
  seek_record leaves the record among the started offsets, so a release of its second
  fetch is taken for a started record and no seek is made;
  docs/connector-conformance.md:13 says "Intake stop controls release work fetched but
  not started."
  Constants: `LastOffset = 4, Gaps = {}, Batch = 1, OneByOne = TRUE, Rebalances =
  FALSE, MaxRetries = 1, MaxStops = 1, MaxFaults = 0, MaxCrashes = 0`
* `OffsetCatchesUp`, plugins/onestep-kafka/src/onestep_kafka/connector.py:84.
  _next_committable_offset counts up by one: an offset that holds no record
  (compaction, transaction markers) stops every later commit;
  docs/connector-conformance.md:12 says "Progress advances from delivery completion,
  never merely from fetch."
  Constants: `LastOffset = 4, Gaps = {2}, Batch = 1, OneByOne = TRUE, Rebalances =
  FALSE, MaxRetries = 0, MaxStops = 0, MaxFaults = 0, MaxCrashes = 0`
* `OffsetCatchesUp`, plugins/onestep-kafka/src/onestep_kafka/connector.py:74. The
  tracker keeps its next offset over a rebalance, and waits for offsets that another
  consumer has handled; docs/connector-conformance.md:12 says "Progress advances from
  delivery completion, never merely from fetch."
  Constants: `LastOffset = 4, Gaps = {}, Batch = 1, OneByOne = TRUE, Rebalances =
  TRUE, MaxRetries = 0, MaxStops = 1, MaxFaults = 0, MaxCrashes = 0`

### MissedStart

* `NoFalseAlarm`,
  apps/control-plane/backend/src/onestep_control_plane_api/api/notification_service.py:638.
  The expected slots of an interval task are counted from service.latest_sync_at,
  which every sync of a reconnecting agent moves, while the task keeps the slots of
  its own start; with an interval above two minutes the 60-second tolerance does not
  bridge the two and runs that started on time are reported as missed.
  apps/control-plane/docs/plans/2026-04-30-notification-webhook-design.md:108 says
  "`task_missed_start` means execution did not start on time".
  Constants: `Interval = 4, Grace = 2, SyncDelay = 1, Lag = 1, ToleranceCap = 1,
  Lookback = 2, Window = 9, OfflineAfter = 2, MaxNow = 12, MaxSyncs = 1, MaxRestarts =
  0`
* `EveryMissReported`,
  apps/control-plane/backend/src/onestep_control_plane_api/api/notification_service.py:1299.
  The loop over the expected slots stops at the newest slot without a start, reported
  before or not, so of two starts missed between scans only the newest is ever
  reported.
  apps/control-plane/docs/plans/2026-04-30-notification-webhook-design.md:315-318 says
  "for each expected timestamp: ... if no match exists, emit one derived
  `task_missed_start`".
  Constants: `Interval = 4, Grace = 2, SyncDelay = 1, Lag = 1, ToleranceCap = 1,
  Lookback = 2, Window = 9, OfflineAfter = 2, MaxNow = 14, MaxSyncs = 0, MaxRestarts =
  0`

### MongoSource

* `NothingSkipped` without `raced`,
  plugins/onestep-mongodb/src/onestep_mongodb/connector.py:310. fetch awaits its query without the tracker's lock: a retry in between resets _scan
  and starts a new generation, then fetch moves _scan past the retried document and
  adds its documents to the new generation, whose acknowledgement saves a cursor
  beyond it; plugins/onestep-mongodb/README.md:141 says "`retry()` and
  `release_unstarted()` invalidate the generation and replay from the last committed
  cursor only after all stale deliveries finish".
    Constants: `Stream = FALSE, N = 3, Saved = 0, BatchSize = 2, Concurrency = 2,
  MaxRetries = 1, MaxSaveFaults = 0, MaxFetchFaults = 0, MaxCrashes = 0`
* `CursorMonotone` without `raced`,
  plugins/onestep-mongodb/src/onestep_mongodb/connector.py:323. The same race with a second
  retry, of a delivery of the generation that was given up: it resets _scan again, the
  retried documents are read into the new generation behind the later one, and their
  acknowledgement saves an earlier cursor over a later one;
  plugins/onestep-mongodb/README.md:141 as above.
  Constants: `Stream = FALSE, N = 3, Saved = 0, BatchSize = 2, Concurrency = 3,
  MaxRetries = 2, MaxSaveFaults = 0, MaxFetchFaults = 0, MaxCrashes = 0`
* `NothingSkipped` without `raced`,
  plugins/onestep-mongodb/src/onestep_mongodb/connector.py:474. The
  events of a fetch that was awaited during a retry are added to the new generation
  and their tokens saved; plugins/onestep-mongodb/README.md:173 says "The resume token
  advances only after contiguous delivery acknowledgement."
    Constants: `Stream = TRUE, N = 3, Saved = 1, BatchSize = 2, Concurrency = 2,
  MaxRetries = 1, MaxSaveFaults = 0, MaxFetchFaults = 0,
  MaxCrashes = 0`
* `NothingSkipped`, plugins/onestep-mongodb/src/onestep_mongodb/connector.py:402. With
  no resume token saved yet, the stream that a retry closed is opened again without
  resume_after, at the server's current position, and the retried event is never
  delivered; plugins/onestep-mongodb/README.md:175 says "it never silently falls back
  to the current server position".
  Constants: `Stream = TRUE, N = 3, Saved = 0, BatchSize = 2, Concurrency = 1,
  MaxRetries = 1, MaxSaveFaults = 0, MaxFetchFaults = 0,
  MaxCrashes = 0`

### NotificationOutbox

* `NeverClaimedTwice`,
  apps/control-plane/backend/src/onestep_control_plane_api/api/notification_service.py:505.
  claim_next_pending_outbox_row commits its claim, which releases the row lock while
  the row is still pending and due, so a second drainer claims it during the first
  one's request; its docstring
  (apps/control-plane/backend/src/onestep_control_plane_api/api/notification_service.py:475)
  says the row is selected so that "multiple replicas (or a future parallel drainer)
  never claim the same row".
  Constants: `Events = {e1}, Replicas = {r1, r2}, MaxAttempts = 2, BatchSize = 1,
  MaxCrashes = 0, MaxBreaks = 1, Edits = FALSE`

### RabbitQueue

* `EveryMessageHandled`,
  plugins/onestep-rabbitmq/src/onestep_rabbitmq/connector.py:399. Every send that
  fails resets the queue and releases a reference, whoever acquired it: two concurrent
  sends to one queue that fail together close the connection that another queue of the
  connector is reading from, and its fetch waits on an empty buffer for ever;
  docs/core-reliability.md:59 says "`onestep` is at-least-once."
  Constants: `Msgs = {m1}, SourceSenders = {}, SinkSenders = {"w1", "w2"}, Prefetch =
  1, CancelEarly = FALSE, MaxFaults = 1, MaxStops = 0, MaxRetries = 0`
* `EveryMessageHandled`,
  plugins/onestep-rabbitmq/src/onestep_rabbitmq/connector.py:412. A failed send to a
  queue that is also a source clears _consumer_messages while fetch waits on the old
  buffer object, which nothing fills any more; docs/core-reliability.md:59 says
  "`onestep` is at-least-once."
  Constants: `Msgs = {m1}, SourceSenders = {"w1"}, SinkSenders = {}, Prefetch = 1,
  CancelEarly = FALSE, MaxFaults = 1, MaxStops = 0, MaxRetries = 0`
* `LinkedWhileOpen`, plugins/onestep-rabbitmq/src/onestep_rabbitmq/connector.py:264. A
  fetch cancelled inside connector.acquire() releases a reference it never got, which
  closes the connection under another open queue, although the queue keeps the default
  fetch_is_cancel_safe; docs/core-reliability.md:103 says "Sources that cannot safely
  cancel a fetch should set `fetch_is_cancel_safe = False`".
  Constants: `Msgs = {m1, m2}, SourceSenders = {}, SinkSenders = {"w1"}, Prefetch = 1,
  CancelEarly = TRUE, MaxFaults = 0, MaxStops = 1, MaxRetries = 0`

### RedisStream

* `OneHandler`, plugins/onestep-redis/src/onestep_redis/connector.py:271. fetch reads
  every pending entry of its consumer, and an entry is pending while its handler runs:
  with concurrency above 1 the same entry is handed to a second handler at once;
  plugins/onestep-redis/src/onestep_redis/connector.py:45 says of retry, the intended
  case, "leave in PEL for redelivery via next fetch()".
  Constants: `MaxAdded = 2, Bad = {}, Batch = 1, MaxLen = 0, Named = TRUE, Concurrency
  = 2, MaxRetries = 0, MaxCrashes = 0, MaxFaults = 0`
* `EveryEntryHandled`, plugins/onestep-redis/src/onestep_redis/connector.py:211. The
  default consumer name contains id(self): the entries pending at a crash belong to a
  name that no later process uses, and nothing claims them;
  docs/core-reliability.md:59 says "`onestep` is at-least-once."
  Constants: `MaxAdded = 2, Bad = {}, Batch = 1, MaxLen = 0, Named = FALSE,
  Concurrency = 1, MaxRetries = 0, MaxCrashes = 1, MaxFaults = 0`
* `EveryEntryHandled`, plugins/onestep-redis/src/onestep_redis/connector.py:330. A
  malformed entry is skipped but stays pending; when the window of the pending read
  holds only such entries, retried ones behind it are never read; the docstring of
  fetch (connector.py:278) says "This ensures retried/failed messages get
  reprocessed."
  Constants: `MaxAdded = 2, Bad = {1}, Batch = 1, MaxLen = 0, Named = TRUE,
  Concurrency = 1, MaxRetries = 1, MaxCrashes = 0, MaxFaults = 0`

### Reporter

* `EventsKept`,
  plugins/onestep-control-plane/src/onestep_control_plane/reporter.py:1109.
  _flush_event_batches deletes len(batch) records from the front after it waited for
  the delivery, although the events loop may have flushed and deleted that batch
  meanwhile: records that were never handed to the sender are deleted;
  apps/control-plane/docs/protocols/agent-ws-protocol.md:355 expects `events` "at
  least once preferred, deduped by `event_id`" and line 368 allows a drop only "if
  local buffers overflow".
  Constants: `Execs = {e1, e2, e3}, BatchSize = 2, MaxEvents = 3,
  MaxBatches = 1, Commands = {"flush_events"}, MaxWindows = 0, MaxFails = 0`

### ScheduleSource

* `NeverTwo`, src/onestep/connectors/schedule.py:202. _drain_retry_locked hands out a
  ready retry whatever is in flight, so a retried run and the next scheduled run of an
  overlap=skip source execute at the same time;
  skills/onestep/references/connectors.md:57 says "Use `overlap: skip` for scheduled
  jobs that should not run concurrently."
  Constants: `Kind = "interval", Interval = 1, CronSlots = {1, 2, 4, 5}, Immediate =
  TRUE, Overlap = "skip", MaxQueued = 1, Concurrency = 2, MaxNow = 4, MaxDue = 1000,
  MaxAttempts = 1, MaxLeaks = 0, MaxPauses = 0`
* `AllowStartsEach`, src/onestep/connectors/schedule.py:231. Under overlap=allow all
  due runs are collected and only the first `limit` of them are delivered; the others
  are lost. docs/broker/cron.md:69 says of a task slower than its interval
  "结果：每次都会启动新实例，可能并发多个" (a new instance is started every time).
  Constants: `Kind = "interval", Interval = 1, CronSlots = {1, 2, 4, 5}, Immediate =
  FALSE, Overlap = "allow", MaxQueued = 1, Concurrency = 2, MaxNow = 4, MaxDue = 1000,
  MaxAttempts = 0, MaxLeaks = 0, MaxPauses = 0`
* `NobodyWaits` without `leaked`, src/onestep/connectors/schedule.py:210. A delivery that the
  runner fetched as its task stopped, drained or was paused is released by a
  release_unstarted that does nothing, and _inflight, incremented here and at line 265, is
  decremented (lines 157, 161 and 171) by ack, fail and retry only: under skip and queue the schedule starts no run again in that event loop,
  also after a resume; docs/core-reliability.md:101 says "`resume_task` lets a paused task
  fetch again."
  Constants: `Kind = "interval", Interval = 1, CronSlots = {1, 2, 4, 5}, Immediate =
  FALSE, Overlap = "queue", MaxQueued = 1, Concurrency = 2, MaxNow = 4, MaxDue = 1000,
  MaxAttempts = 0, MaxLeaks = 1, MaxPauses = 0`

### SqsQueue

* `EveryMessageDeleted`, plugins/onestep-sqs/src/onestep_sqs/connector.py:326. Entries
  that fail go back to the head of _pending_delete and the flush raises before the
  rest: once delete_batch_size entries fail for good (an expired receipt of a FIFO
  queue), no later message is deleted and each is received again for ever;
  docs/core-reliability.md:63 to 69 say a successful delivery "calls `delivery.ack()`"
  and "emits a success event" after it.
  Constants: `Msgs = {m1, m2}, BatchLimit = 1, MaxPending = 3, Fifo = TRUE, OnFail =
  "leave", Heartbeat = FALSE, MayExpire = TRUE, MaxFaults = 0, MaxRetries = 0,
  MaxCrashes = 0`
* `OneHandler`, plugins/onestep-sqs/src/onestep_sqs/connector.py:66. One failed
  change_message_visibility ends the heartbeat task while the handler goes on, the
  lease runs out and the message is received beside it; docs/broker/sqs.md:156 says of
  a long handler "长任务，自动续期可见性" (a long task, its visibility is extended
  automatically).
  Constants: `Msgs = {m1}, BatchLimit = 1, MaxPending = 2, Fifo = FALSE, OnFail =
  "leave", Heartbeat = TRUE, MayExpire = TRUE, MaxFaults = 1, MaxRetries = 0,
  MaxCrashes = 0`

### TableQueue

* `EveryRowDone` without `lost`,
  plugins/onestep-sql/src/onestep_sql/mysql/connector.py:342. A table queue row claimed by a process that dies is never delivered again: the claim has
  neither owner nor expiry and the where clause no longer matches;
  docs/core-reliability.md:59 says: onestep is at-least-once.
  Constants: `Rows = {1, 2}, Consumers = {a, b}, Batch = 2, OneStatement = FALSE, Nack
  = "ready", MaxNacks = 0, MaxCrashes = 1`
* `OneWorker` and `DoneIsDone` without `doubted`,
  plugins/onestep-sql/src/onestep_sql/mysql/connector.py:369. An ack whose answer is lost
  raises, the executor (src/onestep/runtime/executor.py:190, 368 and 397) retries or fails
  the delivery, and the nack updates by key whatever the row holds: it gives back a row that
  is done; and a fail that was committed and raised is followed by a retry, whose nack gives
  back a row that another consumer has claimed meanwhile. docs/broker/mysql.md:73 says of
  the claim "批量更新 `status = 9`（领取）" (updated in a batch, taken): the nack does not look
  whether the row is still taken by its own consumer.
  Constants: `Rows = {1, 2}, Consumers = {a, b}, Batch = 2, OneStatement = FALSE, Nack
  = "ready", MaxNacks = 1, MaxCrashes = 0`

### WebhookSource

* `AcceptedHandled`, src/onestep/connectors/webhook.py:118. retry() awaits a put into
  the bounded queue while it holds its handler slot; with the queue full of new
  requests and every slot in such a retry, the runner has no capacity to fetch,
  nothing leaves the queue, and requests answered 202 are never handled;
  docs/core-reliability.md:59 says "`onestep` is at-least-once."
  Constants: `Sources = {a}, Twins = {}, Requests = {r1, r2}, QueueMax = 1,
    Concurrency = 1, BatchSize = 1, MayClose = FALSE, MaxRetries = 1, MaxFaults = 0,
  MaxPauses = 0`
* `AcceptedHandled` without `dropped`, src/onestep/runtime/runner.py:132. Events fetched as the
  task stops, drains or is paused are released by a release_unstarted that does nothing:
  they were answered 202 and are nowhere; docs/core-reliability.md:59 says "`onestep` is
  at-least-once."
  Constants: `Sources = {a}, Twins = {}, Requests = {r1, r2}, QueueMax = 1,
  Concurrency = 1, BatchSize = 1, MayClose = FALSE, MaxRetries = 0, MaxFaults = 0,
  MaxPauses = 1`

### WorkerBuilder

* `CustomReportingComplete`,
  apps/control-plane/backend/src/onestep_control_plane_api/api/worker_service.py:239.
  update_worker validates the row it read and writes the columns that changed, without
  a lock: one edit switches reporting on while another, valid while it is off, removes
  the endpoint; apps/control-plane/backend/tests/test_workers_api.py:166
  "test_custom_reporting_requires_token_when_enabled".
  Constants: `Connectors = {}, Tokens = {"t1"}, MaxSinks = 0, Clients = {c1, c2},
  MaxEdits = 4, MaxDeploys = 0, MaxCmds = 0`
* `TokenReachesAgent`,
  apps/control-plane/backend/src/onestep_control_plane_api/api/routers/worker_agents.py:185.
  The restart command takes the environment of the deployment row, which does not hold
  the token, so the compiled reference ${ONESTEP_WORKER_REPORTING_TOKEN} has no value;
  apps/control-plane/backend/tests/test_workers_api.py:358
  "test_deploy_worker_custom_reporting_injects_token_only_into_command_env" asserts
  that the command has it.
  Constants: `Connectors = {}, Tokens = {"t1"}, MaxSinks = 0, Clients = {c1}, MaxEdits
  = 2, MaxDeploys = 1, MaxCmds = 2`

### WorkerDeployment

* `OneSubprocess`,
  apps/control-plane/backend/src/onestep_control_plane_api/api/routers/worker_agent_ws.py:155.
  A start_deployment delivered twice runs the whole start again and leaves two live
  processes, one of them untracked;
  apps/control-plane/docs/superpowers/specs/2026-06-15-onestep-worker-agent-design.md:286
  says: Repeated `start_deployment` is idempotent when the same deployment is already
  running with the same package checksum and runtime parameters.
  Constants: `Deployments = {1}, Slots = 1, Caps = {"start", "stop", "restart"},
  MaxCmds = 1, MaxBreaks = 0, MaxCrashes = 0, MaxExits = 0, MaxInFlight = 1`
* `CommandsFinish`,
  apps/control-plane/backend/src/onestep_control_plane_api/api/worker_agent_service.py:66.
  Only pending and dispatched commands are redelivered: one accepted before its
  connection broke is never answered;
  apps/work-agent/src/onestep_worker_agent/client.py:123 says: Control-plane
  reliability depends on the agent reconnecting so the plane can re-dispatch pending
  commands on each new `hello`.
  Constants: `Deployments = {1}, Slots = 1, Caps = {"start", "stop", "restart"},
  MaxCmds = 1, MaxBreaks = 1, MaxCrashes = 0, MaxExits = 0, MaxInFlight = 1`
* `StopReleases`, apps/work-agent/src/onestep_worker_agent/supervisor.py:292. Stopping
  a deployment whose child has exited raises ProcessLookupError before the try, so the
  command fails and the slot is kept;
  apps/control-plane/docs/superpowers/specs/2026-06-15-onestep-worker-agent-design.md:334
  lists among the steps of stop_deployment: 6. Release the slot.
  Constants: `Deployments = {1}, Slots = 1, Caps = {"start", "stop", "restart"},
  MaxCmds = 2, MaxBreaks = 0, MaxCrashes = 0, MaxExits = 1, MaxInFlight = 1`
* `RestartsAnswered`, apps/work-agent/src/onestep_worker_agent/client.py:339.
  Restarting a deployment whose child has exited raises out of the handler before the
  acknowledgement; the session ends, the command is redelivered and raises again;
  apps/control-plane/docs/superpowers/specs/2026-06-15-onestep-worker-agent-design.md:337
  says: `restart_deployment` creates a new runtime attempt for the same deployment.
  Constants: `Deployments = {1}, Slots = 1, Caps = {"start", "stop", "restart"},
  MaxCmds = 2, MaxBreaks = 0, MaxCrashes = 0, MaxExits = 1, MaxInFlight = 1`
* `Reconciled`,
  apps/control-plane/backend/src/onestep_control_plane_api/api/worker_agent_service.py:152.
  handle_worker_agent_hello stores the slot counts and compares nothing;
  apps/control-plane/docs/superpowers/specs/2026-06-15-onestep-worker-agent-design.md:357
  says: If desired is `running` and no process exists, mark the deployment `failed`.
  Constants: `Deployments = {1}, Slots = 1, Caps = {"start", "stop", "restart"},
    MaxCmds = 1, MaxBreaks = 0, MaxCrashes = 1, MaxExits = 1, MaxInFlight = 1`
* `Reachable` without `cold` (an active session means an agent shown online, also in the
  end), apps/control-plane/backend/src/onestep_control_plane_api/api/worker_agent_service.py:182.
  The handler of a connection keeps the row it loaded at authentication
  (db/session.py:36, expire_on_commit=False), so assigning "online" to a row that said
  online then writes nothing; when the handler of the connection before closes in between
  (line 745), the agent stays offline however often it sends heartbeats (line 243);
  apps/control-plane/docs/superpowers/specs/2026-06-15-onestep-worker-agent-design.md:373
  says "MVP scheduling only considers slot counts and online status."
  Constants: `Deployments = {1}, Slots = 1, Caps = {"start", "stop", "restart"},
  MaxCmds = 1, MaxBreaks = 1, MaxCrashes = 0, MaxExits = 0, MaxInFlight = 1`
* `ComesToRest` without `late` (`<>[](agent.used = Cardinality(slots))`),
  apps/control-plane/backend/src/onestep_control_plane_api/api/worker_agent_service.py:244.
  A late heartbeat of the old connection writes its count of used slots, and the equal
  count that the new connection repeats is never written over it, for the same reason;
  the same document, line 370, says "The control plane uses agent heartbeat data to select
  agents with free slots."
  Constants: `Deployments = {1}, Slots = 1, Caps = {"start", "stop", "restart"},
  MaxCmds = 2, MaxBreaks = 1, MaxCrashes = 0, MaxExits = 0, MaxInFlight = 1`

### WsSender

* `FreshSync`, plugins/onestep-control-plane/src/onestep_control_plane/ws.py:1109. The
  sender reconnects to send whatever payload is pending and does not queue a sync for
  the new connection; apps/control-plane/docs/protocols/agent-ws-protocol.md:180 says
  of a sync "resend after reconnect even if topology is unchanged" and line 378 "send
  fresh `sync` after `hello_ack`".
  Constants: `Channels = {"sync", "heartbeat"}, Limit = 1, MaxPayloads = 3, MaxFaults
  = 1, MaxCloses = 0`

Two senders on one RabbitMQ connection also break `ClosedAtStop`: the second reset
releases a reference it does not hold.

## Further hazards

Beside the forty of `PROJECT.json`, with the properties that cover them.

| Where | What can go wrong | Properties |
| --- | --- | --- |
| `onestep-sql/postgres/execution_backend.py:707` | A cancel_requested lease is reclaimed while its worker completes the execution. | `Inductive`, `TerminalIsFinal` |
| `onestep-sql/postgres/execution_backend.py:238` | Lease checks use the transaction's timestamp, which may be older than the row version they act on. | `NoTakeover`, `DeadlineRule` |
| `onestep-sql/postgres/execution_backend.py:993` | The execution and its attempt are separate updates with separate predicates in five operations. | `Inductive` |
| `onestep-sql/postgres/execution_backend.py:765` | Reclaim and claim batches smaller than the work there is must not tear a row from its attempt. | `Inductive`, `ImplementsLifecycle` |
| `runner.py:80` | A resume and a second pause overtake the runner while it parks, resumes its source or sleeps: it must neither report paused while active nor sleep for ever. | `QuietWhenReported`, `ControlsComplete` |
| `app.py:449` | A restart awaits a cancelled runner that awaits its fetch, its releases and its handlers. | `ControlsComplete`; Under constants that allow it, the code departs from DrainBeforeClose of AppRuntime, DrainCompletes of AppRuntime, WithinConcurrency of AppRuntime (Departures). |
| `app.py:446` | Two restart commands for one task run concurrently; the second finds no handle to wait for. | `WithinConcurrency`; Under constants that allow it, the code departs from DrainBeforeClose of AppRuntime, DrainCompletes of AppRuntime, WithinConcurrency of AppRuntime (Departures). |
| `app.py:448` | A runner that failed is restarted while its own finally block is draining. | `OpenWhileUsed`; Under constants that allow it, the code departs from DrainBeforeClose of AppRuntime, DrainCompletes of AppRuntime, WithinConcurrency of AppRuntime (Departures). |
| `runner.py:85` | Free capacity is computed before the fetch and the handlers are counted after it; a restart replaces the runner that does the counting. | `WithinConcurrency`, `NothingLost` |
| `app.py:744` | shutdown() closes the resources before it cancels the runners that are still registered. | `OpenWhileUsed` |
| `app.py:381` | wait_for_drain() polls flags that a restart, a failing fetch or a paused runner may keep from being set. | `ControlsComplete` |
| `runner.py:257` | After the shutdown timeout the cancelled handlers are not awaited: they settle their deliveries on closed resources. | The "timeouts" part of MCRuntime reaches these states; what a connector does when used after close is not modelled. |
| `executor.py:603` | A sink takes the message and its reply is lost; the send is repeated or the whole delivery retried. | `AckedWasEmitted`, `Settles` |
| `executor.py:531` | fail() raises after the dead letter was published, and the retry that replaces it may raise as well. | `Settles`, `FailedWasDeadLettered` |
| `onestep-sql/mysql/connector.py:393` | The retry of a binlog delivery only sleeps: the row is never delivered again and every later position is held back. | `EveryRowHandled`; Under constants that allow it, the code departs from EveryRowHandled of BinlogSource (Departures). |
| `onestep-elasticsearch/connector.py:435` | A gateway answers 503 after the bulk request may have been applied. | `SinksTellTheTruth` |
| `onestep-elasticsearch/connector.py:272` | Chunks end at a number of documents or of bytes, and one document can exceed the limit alone. | `SinksTellTheTruth` |
| `onestep-mongodb/connector.py:616` | A bulk write is refused after some of its documents, or after whole chunks, were committed. | `SinksTellTheTruth` |
| `onestep-cf-queues/connector.py:182` | A pull leases messages at the server while its answer can still be dropped by a cancellation. | `MessagesHeld`; Under constants that allow it, the code departs from LeasedIsHeld of CfQueue (Departures). |
| `onestep-cf-queues/connector.py:351` | A request that failed may have been applied; its entries stay staged and are sent again, beside the executor's retry of the same lease. | `HandledBeforeGone`, `MessagesHeld` |
| `onestep-cf-queues/connector.py:303` | An acknowledgement is staged and reported as done while its lease can still run out. | `EveryMessageHandled`, `HandledBeforeGone` |
| `agent_command_service.py:482` | A command is redelivered to a reconnecting agent that has already executed it, or twice on one session when it is created between the hello and the redelivery. | `ReportsAreTrue`, `EverythingAnswered`; The code departs from RunOnce of AgentCommands (Departures). |
| `onestep-control-plane/ws.py:476` | The receipt is kept before the acknowledgement is sent: if that send raises, the command is remembered as accepted and never started. | The code departs from AcceptedIsAnswered of AgentCommands (Departures). |
| `agent_ws.py:541` | The handler of a superseded connection cleans up after its successor has registered. | `ReportsAreTrue` |
| `resource_registry.py:279` | A plugin fails after it registered some of its types, and the process loads again. | `LoadsExactly` |
| `config.py:269` | The .env file of one application is put into os.environ and stays for the next application loaded in the process. | `NothingOverwritten` |
| `config.py:295` | The strict check and the expansion each parse ${...}: they must agree on names, defaults and blanks. | `LoadsExactly`; Under constants that allow it, the code departs from StrictEnvCatches of AppConfig (Departures). |
| `notification_service.py:1101` | A heartbeat arrives between a scan's read of the instances and its commit. | `NoticesAreTrue` |
| `notification_service.py:931` | A partial update of a channel combines with the fields it leaves in place. | `NoticesAreTrue`, `EverythingAnswered` |
| `notification_service.py:756` | Two parsers of the same cron syntax: lists, steps after a plain value, Sunday written as 7. | `NoticesAreTrue`; The code departs from ExpectsEveryRun of CronMatch (Departures). |
| `schedule.py:441` | A bounded minute-by-minute search for the next run. | `NoticesAreTrue`, `EverythingAnswered` |
| `schedule.py:441` | An expression whose next run is more than two years away, such as 29 February, makes the search raise in open() and fetch(). | The calendar is external to the model and its months have equal lengths. |
| `app.py:227` | Some dead letters of a command fail and others do not, while another command works on the same queue. | `ReplaysCounted`, `NothingLost` |
| `onestep-feishu-bitable/connector.py:1461` | The answer of an exact search is applied after another send of the key wrote it and lost the answer. | `SinksTellTheTruth`; Under constants that allow it, the code departs from OneRecord of FeishuIndexedSink (Departures). |
| `onestep-feishu-bitable/connector.py:1104` | The timer task that is writing still counts as a running timer for the next partial batch. | `EverythingEnds`; Under constants that allow it, the code departs from CloseClean of FeishuIndexedSink, SendsEnd of FeishuIndexedSink (Departures). |
| `onestep-feishu-bitable/connector.py:1113` | The flusher is one of the senders: its cancellation in mid-write leaves the others' keys half settled. | `SinksTellTheTruth`; Under constants that allow it, the code departs from CloseClean of FeishuIndexedSink (Departures). |
| `onestep-feishu-bitable/connector.py:1090` | Two deliveries of one key are in flight at once and must share one record and one outcome. | `SinksTellTheTruth` |
| `onestep-feishu-bitable/connector.py:1276` | Recovery gives up after its rounds with keys whose outcome is unknown: waiters must fail and the doubt must stay. | `SinksTellTheTruth` |
| `identity_store.py:218` | Two processes reclaim the same stale lock. | `ReportsAreTrue`; Under constants that allow it, the code departs from LockErrorMeansContention of AgentIdentity, OneOwner of AgentIdentity (Departures). |
| `identity_store.py:215` | A lock left by a crash names a process id that runs again. | The code departs from LockErrorMeansContention of AgentIdentity (Departures). |
| `common.py:219` | Heartbeats and syncs of an old and a new connection arrive out of order or twice. | `ReportsAreTrue` |
| `onestep-sql/mysql/connector.py:884` | A crash between the handler's success, the cursor save and the queue update, or a save that fails after committing. | `CursorSafe`, `ForwardOnly` |
| `onestep-sql/mysql/connector.py:720` | A retried row stays in _retry_rows until its cursor is saved, and fetch returns nothing meanwhile; the retry of a row whose save failed is never taken once another ack has saved it. | `EveryRowHandled`; Under constants that allow it, the code departs from EveryRowHandled of IncrementalSource (Departures). |
| `runner.py:133` | A stop that completes together with the fetch drops rows that the source already holds as pending. | `EveryRowHandled`; Under constants that allow it, the code departs from EveryRowHandled of IncrementalSource (Departures). |
| `onestep-sql/mysql/connector.py:781` | A row committed late with a cursor below what was fetched is never read. | The source requires cursor values that become visible in order; IncrementalSource!NothingSkipped, a part of CursorSafe, is checked under that condition (LateCommits = FALSE). |
| `onestep-kafka/connector.py:300` | The records of a batch are released one after the other, and each release moves the partition's position. | `EveryMessageHandled`; Under constants that allow it, the code departs from EveryRecordHandled of KafkaTopic (Departures). |
| `onestep-kafka/connector.py:65` | A retried record stays among the started offsets and is treated as started when it is fetched again. | `EveryMessageHandled`; Under constants that allow it, the code departs from EveryRecordHandled of KafkaTopic (Departures). |
| `onestep-kafka/connector.py:84` | The committable prefix is a run of consecutive integers, which the offsets of a partition need not be. | `EveryMessageHandled`; Under constants that allow it, the code departs from OffsetCatchesUp of KafkaTopic (Departures). |
| `onestep-kafka/connector.py:74` | The tracker outlives the assignment of the partition that it describes. | `EveryMessageHandled`, `HandledBeforeGone`; Under constants that allow it, the code departs from OffsetCatchesUp of KafkaTopic (Departures). |
| `app.py:482` | shutdown() overtakes a restart between its two halves and the restart opens resources after everything was closed. | `OpenWhileUsed`; Under constants that allow it, the code departs from NothingLeaks of AppLifecycle, OpenedOnce of AppLifecycle (Departures). |
| `app.py:724` | The third of several resources does not open, or a startup hook fails: the earlier ones must be closed, and one failing close must not spare the others. | `OpenWhileUsed` |
| `app.py:693` | startup() clears the shutdown request: a signal that arrives before it is forgotten, one that arrives while resources open must be honoured. | `ControlsComplete` |
| `executor.py:333` | A cancellation that arrives while _handle_failure runs leaves execute() without stopping the heartbeat, which renews the lease for nobody as long as the process lives. | `Supervised` |
| `notification_service.py:638` | The anchor of the expected slots moves whenever the agent syncs. | `NoticesAreTrue`; Under constants that allow it, the code departs from NoFalseAlarm of MissedStart (Departures). |
| `notification_service.py:592` | The control plane restarts and must not alert on heartbeats it has not seen. | `NothingTakenBack`, `NoticesAreTrue` |
| `notification_service.py:1299` | Several slots are missed between two scans. | The code departs from EveryMissReported of MissedStart (Departures). |
| `onestep-mongodb/connector.py:293` | The scan position and the generation are read before the query is awaited and used after it. | `SourcesLoseNothing`, `OrderedSteps`; when the generation is given up meanwhile the code departs from NothingSkipped and CursorMonotone of MongoSource (Departures). |
| `onestep-mongodb/connector.py:153` | The cursor store fails in the middle of complete. | `SourcesLoseNothing` |
| `onestep-mongodb/connector.py:103` | No fetch runs until every delivery of an invalidated generation has settled. | `EverythingEnds` |
| `leader.py:49` | A worker keeps draining as leader after its lease connection broke and another replica took over. | `NoticesAreTrue`; The code departs from NeverClaimedTwice of NotificationOutbox (Departures). |
| `notification_service.py:1006` | A channel is deleted while its notifications are pending or being posted. | `NothingTakenBack` |
| `onestep-rabbitmq/connector.py:399` | Concurrent users of a queue object each reset it and release its connection after the same failure. | `MessagesHeld`, `EveryMessageHandled`; Under constants that allow it, the code departs from EveryMessageHandled of RabbitQueue (Departures). |
| `onestep-rabbitmq/connector.py:412` | A reset by a sender takes the buffer away from a fetch that is waiting on it. | `EveryMessageHandled`; Under constants that allow it, the code departs from EveryMessageHandled of RabbitQueue (Departures). |
| `onestep-rabbitmq/connector.py:121` | The reference count of the shared connection must come out even over failed opens, cancelled fetches, resets and closes. | `MessagesHeld` |
| `onestep-rabbitmq/connector.py:336` | Buffered messages of a channel that has gone are queued again by the broker: keeping them would settle them twice. | `MessagesHeld`, `EveryMessageHandled` |
| `onestep-redis/connector.py:271` | A fetch while handlers run reads the pending list that holds their entries. | The code departs from OneHandler of RedisStream (Departures). |
| `onestep-redis/connector.py:330` | Skipped entries fill the window of the pending read. | `EveryMessageHandled`; Under constants that allow it, the code departs from EveryEntryHandled of RedisStream (Departures). |
| `onestep-control-plane/reporter.py:1109` | A flush waits for its delivery and deletes by position from a buffer that was flushed or cut meanwhile. | `ReportsAreTrue`; Under constants that allow it, the code departs from EventsKept of Reporter (Departures). |
| `onestep-control-plane/reporter.py:927` | A full buffer drops its oldest records while a flush is under way. | `ReportsAreTrue` |
| `onestep-control-plane/reporter.py:992` | send_heartbeat_now resets the degraded flag after its delivery: a failure between the health it read and the delivery is never reported. | `ReportsAreTrue`; Reporter!FailureKept, a part of ReportsAreTrue, is checked for the loops; with the waiting heartbeat the code loses such a failure, which no document rules out. |
| `onestep-control-plane/reporter.py:549` | An execution whose retry or fail raises, or that is managed and ends cancelled, emits no event that ends it, and the in-flight gauge is never decremented for it. | `ReportsAreTrue`; Reporter!GaugeExact, a part of ReportsAreTrue, says that the gauge is exactly the starts without an end, these included: the code leaves them in it for good, which no document rules out. |
| `onestep-clickhouse/resilience.py:93` | A timeout is also an OSError: the order of the tests decides whether a write that may have been applied is sent again. | `SinksTellTheTruth`; Under constants that allow it, the code departs from WrittenOnce of BulkSink (Departures). |
| `onestep-sql/postgres/resilience.py:53` | The text of a lost connection matches the phrases of a permanent error, and a permanent error ends the runner. | `SinksTellTheTruth` |
| `onestep-sql/_shared/resilience.py:99` | Tokens contain one another and the message is cut: the order of the replacements and of the cut decides what is left of a secret. | `SinksTellTheTruth` |
| `app.py:450` | A restart that timed out leaves its dead runner on the list that drain_status reads, so a later drain never completes. | `ControlsComplete`; Under constants that allow it, the code departs from DrainBeforeClose of AppRuntime, DrainCompletes of AppRuntime, WithinConcurrency of AppRuntime (Departures). |
| `schedule.py:231` | More runs come due between two fetches than the runner asks for. | `SourcesLoseNothing`; The code departs from AllowStartsEach of ScheduleSource (Departures). |
| `schedule.py:202` | A retry of one run becomes ready while a later run is in flight. | `OrderedSteps`, `SourcesLoseNothing`; The code departs from NeverTwo of ScheduleSource (Departures). |
| `schedule.py:250` | The backlog of a queueing source overflows while a run is in flight. | `SourcesLoseNothing` |
| `schedule.py:136` | Ready retries are served before queued runs and due runs. | `EverythingEnds` |
| `onestep-control-plane/ws.py:970` | A sync is replaced while its predecessor is being sent, with callers waiting for either. | `ReportsAreTrue`, `EverythingAnswered` |
| `onestep-control-plane/ws.py:1055` | A wake-up between the worker's look at the queues and its wait for the event leaves telemetry and its waiters pending. | `EverythingAnswered` |
| `onestep-control-plane/ws.py:1021` | A send fails after a reconnection or during a close and its payload is sent again, out of order with its channel. | `ReportsAreTrue` |
| `onestep-sqs/connector.py:326` | Deletes that can never succeed collect at the head of the batch that every later flush starts with. | `EveryMessageHandled`; Under constants that allow it, the code departs from EveryMessageDeleted of SqsQueue (Departures). |
| `onestep-sqs/connector.py:66` | The heartbeat that keeps a message invisible fails, or stops when the acknowledgement is staged, before the delete is sent. | `MessagesHeld`, `HandledBeforeGone`; Under constants that allow it, the code departs from OneHandler of SqsQueue (Departures). |
| `onestep-sqs/connector.py:79` | Awaiting a heartbeat task that has failed raises its error out of ack, retry and fail. | `EveryMessageHandled`, `HandledBeforeGone` |
| `onestep-sql/mysql/connector.py:369` | A retry or acknowledgement updates the row by key only, after its delay, whoever has the row by then. | `RowsAgree`; once an answer is lost the code departs from OneWorker and DoneIsDone of TableQueue (Departures). |
| `onestep-sql/mysql/connector.py:342` | A claim has no lease: the rows of a dead consumer stay claimed. | `EveryRowHandled`; Under constants that allow it, the code departs from EveryRowDone of TableQueue (Departures). |
| `onestep-sql/mysql/connector.py:1041` | A replayed delivery is written again under a mix of column policies. | `ForwardOnly` |
| `webhook.py:323` | One source closes while another on the same address opens or serves: the listener is shared. | `SourcesLoseNothing` |
| `webhook.py:342` | The source is resolved before the body is read: it may be closed, or its queue full, when the event is enqueued. | `SourcesLoseNothing` |
| `worker_agent_ws.py:155` | A command created while hello_ack is being sent is dispatched through the registry and again by the redelivery. | `DeployedAsTold`; The code departs from OneSubprocess of WorkerDeployment (Departures). |
| `supervisor.py:292` | terminate() of a child that has exited raises outside the try that releases the slot. | The code departs from StopReleases of WorkerDeployment, RestartsAnswered of WorkerDeployment (Departures). |
| `worker_agent_service.py:152` | The deployments an agent lists in its hello are not compared with those the plane believes running. | The code departs from Reconciled of WorkerDeployment (Departures). |
| `client.py:353` | A send that fails inside the start handler releases the slot; one that fails before or after it does not. | `DeployedAsTold` |
| `supervisor.py:71` | Deployments compete for the last slot while earlier ones stop or fail. | `DeployedAsTold` |
| `supervisor.py:92` | The pid recorded for a deployment may by the time of recovery belong to another process. | Pids are not reused in the model: the operating system's allocation is outside the code. |
| `supervisor.py:216` | An installation interrupted by a crash or a failure leaves an environment that a later start may take for complete. | `DeployedAsTold` |
| `cli.py:30` | A crash between the registration and the stored identity. | `NothingOverwritten`; The code departs from RegistersOnce of AgentWorkspace, StartsInTheEnd of AgentWorkspace (Departures). |
| `config.py:72` | A configuration file cut short makes setup itself fail, with --force too. | `DeployedAsTold` |
| `connector_service.py:136` | The URL workers are given is derived from fields that can be edited separately. | `DeployedAsTold`; Under constants that allow it, the code departs from RuntimeMatchesDisplay of ConnectorStore (Departures). |
| `connector_service.py:380` | Two edits of one connector read the same row and each writes the columns it changed. | `DeployedAsTold`; Under constants that allow it, the code departs from RuntimeMatchesDisplay of ConnectorStore (Departures). |
| `worker_service.py:339` | The package, the deployment and its start command are three commits: a refusal after the second leaves a deployment nobody starts. | `DeployedAsTold` |
| `worker_service.py:307` | The worker and its connectors are edited or deleted while a deployment is compiled from them. | `DeployedAsTold` |
| `worker_service.py:239` | Two edits are validated against the same row and each writes its own columns. | `DeployedAsTold`; Under constants that allow it, the code departs from CustomReportingComplete of WorkerBuilder (Departures). |
