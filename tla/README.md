# A TLA+ model of XIOSYNC

XIOSYNC runs browser workflows for many organizations: an API server and a
worker process share a PostgreSQL database, remote Colab workers claim and
execute work over HTTP, and all of them meet in a handful of tables and locks.
This directory holds TLA+ modules that model that shared state and everyone
who writes it, the TLC configurations that check them, and proofs checked by
TLAPS. Paths below are relative to the repository root.

## 1. Inventory

| Component | State | Operations | What is hard | Correctness |
|---|---|---|---|---|
| Run lifecycle (`xiosync/worker/run_dispatcher.py`, `reaper.py`, `subsystems/xioflow/api/runs.py`, `api/events.py`, migration `p2_001`) | `xioflow_runs`, `xioflow_tasks`, `xioflow_dead_letters` | dispatch, claim, execute, finish, Colab claim and completion, reap, cancel, pause, resume, dead-letter retry | five kinds of writers; a transaction that spans a whole execution; scripts that outlive it; reads that are stale when used; lost reports; crashes | a run is handed out once for good, ends once, with one outcome |
| Cron ticker (`worker/ticker.py`, `services/triggers.py`) | `xioflow_triggers` | tick, fire_now, enable, disable | concurrent tickers; two clocks; transaction time | one run per slot; due triggers fire |
| Event router (`worker/event_router.py`) | `events`, `xioflow_runs.started_at` | tick | no "processed" mark; late visibility | one run per event |
| Webhook delivery (`worker/webhook_dispatcher.py`, `api/routers/dlq.py`) | `events` | select, POST, record, resolve | effects outside the transaction; answers that are lost or late; one failing member of a batch | at most N attempts; no repetition without a cause; every row settles |
| Advisory locks (`subsystems/xiorun/pg_advisory_lock.py`, `api/routers/worker_locks.py`) | server lock, per-process maps | acquire, release | several processes; check and act apart; restarts | mutual exclusion; no stranded lock |
| Redis and Drive locks (`worker_locks.py`, `colab/xio_drive_fs.py`) | Redis key, lock file, staging file | acquire, release, put | expiry; requests that outlive their client's patience; fallback; non-atomic file creation | mutual exclusion; uploads do not mix |
| DAG engine: breaker (`engine/circuit_breaker.py`) | state, count, time | allow, record | results of nodes admitted in an earlier state | count and state agree; refusal is temporary |
| DAG engine: branches (`dag_executor.py`, `branch_vars.py`) | `workflow_vars` | fork, swap, write, restore, join | coroutines around one attribute | isolation, join and restored parent, as far as branches that overlap leave them |
| PPPoE exit slots (`subsystems/xiogrid/services/pppoe_nodes.py`, `browser_sessions.py`, `worker/pppoe_health.py`, `pppoe_warmpool.py`, `tools/vm_scripts/`) | `xiogrid_pppoe_exit_nodes`, `account_ip_bindings`, `browser_pools.max_instances`; links and ip rules on the VM | create and terminate a session, health tick, warm pool, provision, destroy, check | two copies of one truth, the VM changed before the commit; ORM objects that are stale; best-effort calls, and calls that time out after they took effect | one worker per residential address; the route is the one recorded |
| Colab agent sessions (`colab/agent/browser/patchright_launcher.py`, `network/proxy_guard.py`, `browser/uc_routes.py`, `server/lifespan.py`) | dictionary `_sessions`, Chrome processes, callbacks, probe loops | launch, terminate, disconnect, probe, UC login, shutdown | coroutines that act on an id long after their launch; await points between check and use | capacity; one Chrome per profile; a session without proxy ends |
| Grants and shares (`services/authorization.py`, `services/sharing.py`, `worker/grant_reaper.py`) | `grants`, `resource_shares` | create, revoke with cascade, expire, reap | overlapping recursive updates at READ COMMITTED; lock waits, deadlocks | no descendant of a revoked row survives |
| Worker loops (`worker/main.py`) | none | start a thread per loop, retry after errors | gives the fairness | loops go on |
| DAG walk, workflow task leases, lifecycle registry, worker enrolment, compute runtimes, identities, quotas, operations, plugins | own tables | | | not modelled, see section 8 |
| Vault, SSE bus, XIOVIEW, XIOAI, page automation, one-off scripts | | I/O | | not modelled |

Components interact through the database (all worker loops and API requests), through
SSH scripts on the PPPoE host's VM, through HTTP calls of Colab workers to the API
(claims, reports, locks) and, inside the DAG engine, through attributes shared by
coroutines. The ticker, the event router, `fire_now` and `dispatch_run` all create
PENDING runs; the dispatcher and the Colab claim consume them.

## 2. Modules

| Module | Models | Composes |
|---|---|---|
| `RunLifecycle` | abstract specification: what a run promises to a watcher | |
| `XioflowRuns` | the run lifecycle, all writers | implements `RunLifecycle` |
| `MCXioflowRuns` | TLC instance of `XioflowRuns` | extends it |
| `XioflowRunsProofs` | theorems about `XioflowRuns` | extends it |
| `LockService` | abstract specification: what a lock promises to its clients | |
| `CronTicker` | ticker, fire_now, enable/disable | |
| `EventRouter` | event triggers | |
| `WebhookDelivery` | outbound webhooks | |
| `PgAdvisoryLocks` | advisory locks and their endpoints | implements `LockService` |
| `DriveLocks` | Redis lock, server threads, lock file, `put` | its server lock implements `LockService` |
| `MCDriveLocks` | TLC instance of `DriveLocks`, with symmetry | extends it |
| `CircuitBreaker` | breaker shared by concurrent nodes | |
| `DagBranches` | parallel branches and `BranchVars` | |
| `PppoeSlots` | exit slots: session requests, health tick, warm pool, operators, links | |
| `MCPppoeSlots` | TLC instance of `PppoeSlots`, with symmetry | extends it |
| `AgentSessions` | browser sessions of one Colab agent | |
| `Delegation` | grants, shares, cascading revocation, the reaper | |
| `CronTickerProofs`, `PppoeSlotsProofs`, `AgentSessionsProofs`, `DelegationProofs` | theorems about the module they are named after | extend it |
| `WorkerLocksProofs` | theorems about both kinds of lock | extends `PgAdvisoryLocks`, `DriveLocks` |
| `EventsProofs` | theorems about the two readers of the events table | extends `WebhookDelivery`, `EventRouter` |
| `DagEngineProofs` | theorems about breaker and branches | extends `CircuitBreaker`, `DagBranches` |

Conventions. `PROJECT.json` maps every definition to its source lines. A definition
whose comment starts with "Fault:" is not part of a model: it is a plausible mistake
that replaces the definition after it, to show that a property notices. Data that no
property distinguishes (payloads, results, templates, signatures, names) is left out.
Where the code keeps a promise only until some event happens (a lock expires under its
holder, an operator fires a trigger by hand), that event is always possible in the
model and a history variable records it, so that a property can say "until then":
`undisturbed` in `PgAdvisoryLocks`, `byHand` in `CronTicker`, `rollbacks` and
`unheard` in `WebhookDelivery`, `mishaps` in `DriveLocks`, `probe` in
`CircuitBreaker`, `quiet` in `XioflowRuns`, `shared`, `crossed` and `stack` in
`DagBranches`, `strayed` and `parted` in `PppoeSlots`, `removed`, `intruders` and
`streak` in `AgentSessions`, `known` and `times` in `Delegation`. No action depends on
these variables, except that `MaxRollbacks` bounds `rollbacks`. Every component's
module has a type invariant; it is listed in the run `runs` only, the others are
proved. Two modules that one proof module extends cannot both define `Spec`, so in
`DriveLocks`, `EventRouter` and `DagBranches` the specification's parts carry a prefix
(`DriveSpec`, `RouterInit`, `BranchesTypeOK`).

### XioflowRuns

`rstate`, `rfin`, `tstate`, `trun`, `tretry` and `dlq` are the COMMITTED rows.
PostgreSQL runs at READ COMMITTED. A dispatcher claims a run, creates the task,
executes and finishes in one transaction, so its writes are private (`dpc`,
`drun`, `dtask`) until `Finalise`, and the claim holds the run's row lock
(`Locked`). A crash is a rollback. There is one exception: with tracing,
`ScheduleTraceDeploy` commits the session in the middle. The script is a process of
its own (`start_new_session`), so it may be severed from its transaction: when the
connection drops while it runs (`LoseConnection`), the claim is rolled back and the
dispatcher goes on waiting (`cut`) until the script ends or is killed after 180 seconds;
when the dispatcher dies, the script may run on with nobody to stop it (`orphans`). In
both cases another dispatcher may claim and execute the run meanwhile. `Finalise`
inserts a dead letter unless the result is `deferred`, and `CompleteRun` inserts none:
the runs that fail so without the trigger's letter are in `quiet`.
`ClaimPendingDagRun` and `CompleteRun` are each one committed transaction, with
the worker's execution and the report in flight between them (`job`); a report
is sent once, so it may be lost. The reaper and the operators' requests read
first and write later by primary key (`rsel`, `areq`): the two steps are
separate actions. `Accepts` is the CHECK constraint and the guard trigger,
`TriggerLetters` the dead-letter trigger. The age of a claim is abstracted: any
CLAIMED task may be stale.

`SchemaGaps` names the columns on which SQL text and schema disagree: the claim
statements use `xioflow_runs.priority`, which no migration creates, and two
INSERTs omit `organization_id`, NOT NULL since `f1a2b3c4d5e6`. With gaps, the
claiming actions are disabled, because their transaction raises. The runs use
`SchemaGaps = {}`, a schema on which the statements work (a deployment that added
the columns by hand); the proofs hold for every value. `MaxRetries` is the
column `max_retries` of each task row.

### CronTicker

A tick reads the worker's clock (`ReadClock`), starts its transaction with the
SELECT (`SelectTriggers`), claims each due trigger with the conditional UPDATE
(`Claim`, which waits for the row lock and sees the committed row) and commits.
`last` is `last_fired_at`; SQL `now()` is the start of the transaction (`wtx`).
`fires` counts scheduled runs per slot. Time is an integer, slots are the
multiples of `Period`. Invalid schedules, which are never due, and row
creation and deletion are left out.

### EventRouter

One trigger and its events. An event carries the time at which its transaction
began and becomes visible at `CommitEvent`. A run is only its `started_at`.
`Rejected` are the events that the filter expression refuses.

### WebhookDelivery

`delivered` and `failed` are outcome rows, `posts` and `acked` what the subscriber has
seen. They differ: a subscriber may accept an event and answer too late or in vain,
which the dispatcher records as a failure (`unheard`). A batch is POSTed in order, and
outcomes are committed at its end. `PostRaises` is an exception other than URLError
and OSError: a malformed URL, which `create_subscription` accepts, or a malformed
status line, perhaps from a subscriber that accepted. The dead-letter requests `retry`
and `purge` DELETE from the events table, which `trg_events_append_only` forbids: they
change nothing and are not actions.

### PgAdvisoryLocks, DriveLocks

One key; keys do not interact. In `PgAdvisoryLocks` the lock is held by a
connection of an API process; every statement and every mutex section of a
request is a step. `Faults` names the disturbances an instance includes. A
connection that drops between `pg_try_advisory_lock` and the registration is not
modelled. In `DriveLocks` a worker executes `put`; `get` and `delete` take the
same lock in the same way. A request that has reached the server is served by a thread
of its own (`stage`, `asker`), while the client waits five seconds at most and then goes
on: a late SET takes the lock for nobody, and GET and DEL of a release are two steps
that may come after the client has left. An acquire that is answered in time is one
step. Requests and answers may be lost, threads may fail, locks may expire at any time
and workers may die at any step.

Both server locks implement `LockService`: one lock that is granted while it is free,
answered to at most one client, and free again only when nobody relies on it. In
`PgAdvisoryLocks` the lock is granted while a request is between
`pg_try_advisory_lock` and the map, and answered from then on; those who rely on
it are the nodes that were told so. In `DriveLocks` the Redis key is set and
answered in one step. The promise ends (`sound`) with the first disturbance under a
holder; in `DriveLocks` a release on its way still counts as a holder, because its DEL
hits whatever key there is by then.

### CircuitBreaker, DagBranches

Methods of the breaker run under its lock and are steps; an execution is
admitted and ends later in one of three ways. `Silent` are the nodes whose
execution may end without a record, which many node types of `dag_executor.py`
do; `probe` is the last node that was admitted out of OPEN. In `DagBranches` a
value is the number of the branch that wrote it, so isolation and the result of
the join can be stated. Branches interleave at every `await`, up to `MaxConcurrent` of
them, and what a branch writes goes where the one shared attribute points by then.
`shared` are the branches that ever ran beside another one, `crossed` says that a branch
ended before one that started after it, `stack` are the running ones until then.

### PppoeSlots

A slot is a row (`row`, committed; `draft` and `lock` inside a transaction) and a
link with ip rules on the VM (`vm`, `rules`). The VM has no transactions: what a
script did stays when the request rolls back. `acquire_any` is followed from its
first query to the commit of the request (`pc`), and `seen` is the state in which
the ORM loaded the node: `SELECT ... FOR UPDATE` waits for the lock but does not
refresh an object that the session already has, so `seen` decides and not the
row. The health tick works on its own loaded objects (`hseen`, `hnew`), writes at
`FlushHealth` and commits only in `ReconcilePoolCapacity`, when the number of
usable slots changed. A call to the VM may fail, or time out after it took effect: a
script whose client gave up has run by then, or never does. An error of
`assign-route.sh` or `release-route.sh` is swallowed by the session's request, which goes
on; the row stays as it was. `terminate_session` may be repeated on an ended session.
An operator's health or provision request is as many steps as it has calls and
statements (`opc`, `oslot`, `oup`, `oseen`), with a node that was read without a lock and
is flushed at the end; `destroy_slot` is one step on the VM and one in the database.

`strayed` are the slots whose row and VM were made to differ, by one of: a transaction
that fails after its script, a script that fails or takes effect unnoticed, a health tick
that is rolled back, a write through a stale object, a slot destroyed while it routes
someone. The properties are about the other slots, and so say that there is no further
cause. `parted` are the workers whose slot was committed without them, by a health
check, an operator or a termination, their own included.

Left out: the routing tables and the IPv6 rule, which follow the IPv4 rule; a
second host; the lock on the binding row (its absence only adds interleavings);
the age of a RECONNECTING slot (it may be late at any check); ticks that change
nothing; the assign, release and batch endpoints, which make the same calls. One operator's
health or provision request is under way at a time. The health tick checks up to 50
nodes, more than an instance has.

### AgentSessions

A step runs from one `await` to the next. `reg` is `_sessions`; launches are
numbered and keep their own Chrome, connection, crash callback and probe loop,
because callbacks and loops refer to a session by id and outlive their entry.
`Put` overwrites whatever the id holds, as the assignments do. A launch may be
with or without SOCKS proxy, with or without the CDP overlay. `removed` and
`intruders` are the ids that lost their entry once, and those that came in without a
reservation. The model is the modular agent under `colab/agent/`; the single-file
`xiorun_agent.py` is an older copy of it. Strategy B (the managed browser) differs
in what `Close` does to Chrome and is covered by the choice there.

### Delegation

`grants` and `resource_shares` have the same shape, so one model serves both
(`table`); only grants have a reaper. The recursive CTE takes its rows from the
snapshot of the statement (`Subtree`, the least set that `Closed` finds complete;
`snapshot`), then the UPDATE comes to them
one by one, waits for row locks and re-evaluates `state = 'active'` on the row it
got. A cycle of waits costs one transaction of the cycle. `known` is what the
statement that revoked a row could see, `times` how often a row was revoked. A
request or tick that finds no row is no step. Parents of the same organization
only; a share's `expires_at` is looked at by readers and changes nothing.

## 3. Runs that pass

| Run | What it shows | Bounds |
|---|---|---|
| `runs` | a run is handed out once for good; of those that execute it at the same time all but one are scripts without a transaction; no update is lost under an open transaction; task, run and dead letter agree; terminal states are final; `XioflowRuns` implements `RunLifecycle`; an untraced run ends | 2 runs (one of any kind, one a script or a DAG), 2 tasks (one with 3 retries, one with none), 2 dispatchers, 1 client, 1 reaper, 1 severed script at a time |
| `breaker` | count and state agree; a refusal is temporary unless the probe may be silent | 5 nodes, 2 of them silent, threshold 3 |
| `branches` | a branch that ran alone is isolated; the join follows the branch order for variables of such branches, and loses no variable while branches end in the reverse order of their starts; then the parent's variables are restored, too | 3 branches, 2 permits, 2 keys |
| `pg_locks` | no stranded lock under any fault; until the first lost connection or repeated release, mutual exclusion and all of `LockService` | 2 nodes, 2 processes, 3 threads, 3 connections |
| `cron` | one run per slot for a trigger that nobody fires by hand; due triggers fire | 1 trigger, 2 tickers, 1 client, 4 time units, slots every 2, equal clocks |
| `router` | no new run for an answered event once the ticks that selected it are over; every event is answered or grows too old | 2 events (one rejected by the filter), 2 evaluators, manual fires, 2 time units |
| `webhooks` | attempts at most `MaxAttempts`, plus one per further dispatcher and per lost batch; acceptances at most one per dispatcher, per lost batch and per unheard answer; given up is final; every row with a URL settles | 3 rows (one without URL, one that may raise), 2 dispatchers, `LIMIT` 2, 2 attempts, 1 lost batch |
| `drive` | the Redis lock excludes, and is a `LockService`, until a key expires under a worker that relies on it or under a release on its way; uploads do not mix before the first fallback or such an expiry | 3 workers, 2 server threads, all faults |
| `pppoe` | no address is shared and every route is the recorded one, until the slot strays; a termination, repeated or not, frees another's slot only once its own session has parted with it | 2 workers of one account, 2 slots, warm pool target 1, 1 fault (lost link, lost or unheard VM call, failed transaction), 1 operator's request |
| `agent` | capacity; one Chrome per profile unless an entry was removed; a session is watched by its own launch's loop; entries go for a cause; a session without proxy ends | 2 ids, 2 launches, capacity 1, threshold 2, 2 disturbances |
| `delegation` | no active row under a revoked one that the cascade could see; a row is revoked once; an expired grant is revoked | 3 rows in any tree, 2 requests and the reaper, row 2 expiring, 1 lost transaction; both tables |

Why the bounds are enough to be interesting: every race in these models is
between two actors over one row or key; the instances have two of each kind of
actor that races, another row or key to show that others are not affected where
the state space permits, and time for two slots or windows. A second task lets a
wrongly requeued run be handed out again; without retries left its row takes the
reaper's dead-letter path, which is the same at every limit (the code writes 3).
`pppoe` has workers of one account, because only they compete for a particular
slot; a fault and an operator's request may fall into any step of sessions and health
tick, and stale objects and rolled-back ticks need no fault at all. In `drive` two workers hold
and ask for the lock while a third one's request is still in a thread; in `branches` two
of three branches overlap and the third runs before, after or across them. In `pppoe` and
`drive` the workers (and threads) are interchangeable, and the runs check no liveness,
so symmetry is sound. In `agent` two launches are an old and a new one of an id, or two that
race for the last place. In `delegation` three rows make a chain of two
generations and let cascades from root and middle overlap, in both lock orders.

`cron` and `router` have `Limit` at least the number of candidate rows. With
`Skew > 0`, `OncePerSlot` fails: see section 4.

Deadlock checking is off: an instance with finitely many runs, events or time
units ends in a state where nothing is left to do.

## 4. Disagreements between the code and what is said about it

One run states one sentence of a docstring, and TLC finds a behaviour of the code
that contradicts it. `PROJECT.json` quotes the sentence.

- `runs_reaped_forever`: nothing claims a requeued task; its run stays RUNNING.

The models show further ones, for which no run is kept:

- `run_dispatcher.py:18` "no partial commits": `ScheduleTraceDeploy` commits the
  claim; a crash after it leaves the run RUNNING with a CLAIMED task.
- `run_dispatcher.py:10` "Any FAILED → run → FAILED + DLQ entry": a script that prints
  the status "deferred" and exits non-zero ends its run FAILED without a dead letter
  (`:794`); nor does the failure report of a Colab worker write one while the task has
  retries left.
- `run_dispatcher.py:14` "SKIP LOCKED prevents double-claim": a run is executed twice
  at the same time when its script outlives the transaction (a dropped connection, a
  killed dispatcher); only one of the two records an outcome.
- `reaper.py:29` "Find CLAIMED tasks": a task that ended after the SELECT is set
  back to PENDING, or to FAILED, by primary key.
- `api/runs.py:267` "Transition a RUNNING run to PAUSED" and `api/events.py:156`
  "Reset the associated run to PENDING": CHECK or guard always rejects both.
- `api/runs.py:86` "worker will pick it up within one tick": on the schema that
  the migrations build the claim statements raise (`SchemaGaps`).
- `dag_executor.py:960` "deterministic last-writer-wins by branch order": not for
  branches that overlap, and overlapping branches that end out of order may lose what was
  assigned, and the parent's variables.
- `xiosync-documentation.md:165` "60s open window": a silent probe leaves the
  breaker HALF_OPEN, where it refuses for ever.
- `pg_advisory_lock.py:11` "Automatic Dead Worker Protection": the connection is
  the API process's; `worker_locks.py:20` "auto-release if connection drops": the
  process's map still refuses the key.
- `dag_executor.py:941` "isolated snapshot": of the branches that overlap (the default
  is five permits) one writes into the other's variables.
- `worker_locks.py:375` "only if the requesting node is the current holder": a late
  release frees the lock of the next holder.
- `ticker.py:9` "Concurrent workers won't double-fire": a slot fires twice when a
  slow fire_now sets `last_fired_at` back, or when the worker's clock is ahead of
  the database's.
- `event_router.py:31` "simple idempotency guard": two ticks that overlap both
  create a run; `:17` "For each matching (event, trigger) pair": an event that
  becomes visible late counts as handled by another event's run.
- `webhook_dispatcher.py:34` "at most MAX_DELIVERY_ATTEMPTS times" and `:32` on
  idempotency: not with two dispatchers, lost batches, or answers that are lost or come
  after the timeout; a row whose POST always raises rolls back every batch it is in.
- `worker_locks.py:236` on evicting a legitimate holder: GET and DEL are two commands,
  and the DEL may come after the client gave up and another worker has the key;
  `xio_drive_fs.py:13`: the lock file is empty before it is filled, a reader in
  between removes it, and it does not exclude holders of the Redis lock.
- `pppoe_warmpool.py:4` "provisions new ones until warm_pool_target is reached":
  the loop never commits, so the links exist on the VM and the rows do not; inside
  the health tick the rows survive only if `max_instances` changes.
- `pppoe_health.py:5` "Moves DOWN nodes to RECONNECTING": DOWN and CONNECTING nodes
  are not selected; only operators' requests and sticky accounts bring them back.
- `pppoe_nodes.py:293` "If the bound slot is healthy (idle/assigned): reassign it":
  for an ASSIGNED slot `assign_to_worker` raises and the session has no slot. Two
  requests of an account that both loaded it IDLE do both get it.
- `pppoe_nodes.py:258` "Remove routing rule and return slot to idle pool": called by
  `terminate_session` for the slot its row names, it also frees a slot that belongs to
  another session by now, and makes a DOWN or DESTROYED row IDLE. It looks at no
  state: repeated on an ended session it does so although that session gave its slot
  back before.
- `destroy-slot.sh` leaves the ip rules of workers behind.
- `patchright_launcher.py:220` "wait briefly": a failed launch never gives its
  reservation back, so the id answers 409 and the place is lost until the agent
  restarts; `:553` "Kill the Chromium process": `chrome_proc` is not killed; a
  session terminated during its launch is registered again; callbacks and probe
  loops of an old launch remove the entry of a new one; a Chrome without overlay
  that dies goes unnoticed. `xiorun_agent.py` uses `profile_dir` before assigning it.
- `authorization.py:126` and `sharing.py:136` "and all its delegation descendants": a
  row created while the cascade runs, or afterwards, stays active under a revoked
  parent, because creation does not look at the parent's state. `create_grant` and
  `revoke_grant` have no caller; shares are reached through the API. The table
  `grants` has FORCE ROW LEVEL SECURITY, so the reaper sees no rows unless its role
  bypasses it, which the model assumes.

## 5. Fairness

`worker/main.py` runs every loop in a thread that logs an exception, waits and
ticks again, so a loop's steps are weakly fair. Crashes are possible at any
step, but nothing makes them hit every single attempt: `XioflowRuns` and
`EventRouter` use strong fairness for the steps that a crash or a lost connection
interrupts. The run `runs` assumes fairness of the dispatchers only
(`DispatcherFairness`), among it that a script its dispatcher waits for ends: it is
killed after 180 seconds. Nothing is assumed of scripts whose dispatcher has died.
`CronTicker` assumes that from some time on no tick aborts. There, and in
`WebhookDelivery`, a crashed process has a state of its own ("down"), so that an
empty commit is not mistaken for a crash. `WebhookDelivery` has finitely many
lost batches (`MaxRollbacks`). The server answers requests that it received
(weak fairness of request handlers); time passes. In `AgentSessions` only the probe
loops are fair: the event loop resumes a coroutine whose sleep or probe is over.
In `Delegation` statements go on and the reaper's loop returns (weak fairness);
PostgreSQL grants a row lock to those who wait for it in turn, which is strong
fairness of a request's `UpdateRow`, because the reaper may take the row again and
again. `PppoeSlots` states weak fairness of ticks and requests but no liveness
property: the code owes none while a health tick may be rolled back. `DriveLocks` states
no fairness: that keys expire is Redis's promise, not this code's. Nothing is assumed of
operators, of Colab workers, or of the delivery of their reports.

## 6. Proofs

For each component but the event router the inductive invariant at the end of its
module (`IInv`, `DriveIInv`, `BreakerIInv`, `BranchesIInv`) is proved to hold in every
reachable state, from one lemma per action; the other theorems are derived from it.
The event router needs no more than its type invariant. TLC checked every invariant on
the instance of the component's run before it was proved. For every component a
theorem also states type correctness. The theorems hold for every value of the
constants that the assumptions in the component's module admit, restricted further
only where the table says so (equal clocks for `OncePerSlot`); the specification's
fairness is not used.

| Module | Theorem | States | For every |
|---|---|---|---|
| `XioflowRuns` | `RunIsHandedOutOnce` | `AtMostOneTask` | set of runs, tasks, dispatchers, clients and reapers, retry limit of each task, kinds of each run, number of severed scripts, set of schema gaps |
| | `OpenTransactionIsIsolated` | `NoLostUpdate` | |
| | `DuplicatesAreSevered` | `OnlySeveredDuplicates` | |
| | `TaskAndRunAgree` | `OutcomeAgrees` | |
| | `FailuresAreDeadLettered` | `FailureIsDeadLettered` | |
| | `DeadLettersNameEndedRuns` | `DeadLetterIsFinal` | |
| | `TerminalStatesAreFinal` | `TerminalImmutable`, an action property | |
| | `Refinement` | `ImplementsLifecycle`, the safety specification of `RunLifecycle` | |
| `PgAdvisoryLocks` | `LockIsNeverOrphaned` | `NoOrphanLock` | set of nodes, API processes, request threads, connections and faults |
| | `LockIsExclusive` | `MutualExclusion` | |
| | `PgRefinement` | `ImplementsLockService`, the specification of `LockService` | |
| `DriveLocks` | `ServerLockIsExclusive` | `ServerLockExclusion` | set of workers and of server threads |
| | `UploadsNeverMix` | `RenamesOwnData`, an action property | |
| | `DriveRefinement` | `DriveImplementsLockService`, the specification of `LockService` | |
| `CronTicker` | `SlotFiresOnce` | `OncePerSlot` | set of triggers, tickers and clients, period and horizon; equal clocks |
| | `TickersMoveForward` | `LastMovesForward`, an action property | the same, and any skew of the clocks |
| `WebhookDelivery` | `AttemptsAreBounded` | `AttemptsBounded` | set of events, finite set of dispatchers, batch size, number of attempts and of lost batches |
| | `DeliveryIsRare` | `RepeatsHaveACause` | |
| | `GivingUpIsFinal` | `GivenUpIsFinal`, an action property | |
| `EventRouter` | `AnsweredForGood` | `NoRunAfterAnswer`, an action property | set of events, rejected events and evaluators, window, LIMIT and horizon |
| `PppoeSlots` | `ExitIsOneWorkers` | `OneWorkerPerExit` | set of workers and of pinned ones, number of slots, disturbances and operators' requests, warm-pool settings |
| | `RoutesAreRecorded` | `RouteAsRecorded` | |
| | `EvictorsHadParted` | `EvictorHadParted`, an action property | |
| `AgentSessions` | `CapacityHolds` | `CapacityIsKept` | number of ids, launches and disturbances, capacity, threshold |
| | `SessionIsGuarded` | `OwnGuardRuns` | |
| | `ProfileIsNotShared` | `OneChromePerSession` | |
| | `RemovalsHaveACause` | `RemovedForACause`, an action property | |
| `Delegation` | `CascadeIsComplete` | `NoSurvivingDescendant` | tree of rows, set of requests, number of failures |
| | `RevocationIsUnique` | `RevokedByOne` | |
| `CircuitBreaker` | `ClosedBelowThreshold` | `CountTellsState` | set of nodes and of silent ones, threshold |
| | `RefusalHasACause` | `ProbeIsAccountable` | |
| `DagBranches` | `BranchesTypeCorrectness` | `BranchesTypeOK`, `ValuesAreAssigned` | number of branches and of permits, set of variables |
| | `LoneBranchesSeeTheirOwn` | `LoneBranchesAreIsolated` | |
| | `JoinLosesNoVariable` | `JoinKeepsAssignments` | |
| | `ParentComesBack` | `ParentIsRestored` | |

### Why the invariants are as they are

`XioflowRuns`. `AtMostOneTask` is not
inductive: that a second claim of a run is impossible needs to know that a run
with a visible task has left the queue (`TaskHasRun`), that an open transaction
has no visible task yet (`DispatcherTask`), that two open transactions never
share a run (`DispatchersDisjoint`, which needs the row lock), and that the
committed row under an open transaction is still PENDING (`NoLostUpdate`, which
needs every other writer to wait for the lock). Severed scripts take no part in it: they
hold nothing and record nothing, so `DuplicatesAreSevered` follows from the same facts
about those who do. `JobHasTask` keeps dispatcher
and worker executions apart by the kind of run. The rest of `IInv` says that
what actors hold names existing rows. One fact serves all actions: a write that
`Accepts` admits never takes a run back
to PENDING. `TerminalStatesAreFinal` is the guard's first conjunct, carried
through all writers; the dispatcher's blind write is safe because of `IInv`.
`Refinement` maps the initial state, then each action to a step of
`RunLifecycle` or a stutter; a dispatcher's whole transaction is one
abstract step at its commit.

`PgAdvisoryLocks`. A lock is not orphaned because a connection is in exactly one
place (`ConnsAreApart`) and a request between `pg_try_advisory_lock` and the map
holds the lock (`RegisterHasLock`). Exclusion needs what is true until the first
disturbance: the map's session is the lock's (`TrackedIsHeld`), and a release
under way is alone and nobody relies on the lock by then (`ReleaseIsAlone`).
`PgRefinement` adds that at most one request is between `pg_try_advisory_lock` and the
map, because each would hold the lock: so its answer is the abstract `Answer`, and the
`pg_advisory_unlock` of a release is the abstract `Free`. The steps that disturb somebody
are `Break`, all others stutter.

`DriveLocks`. Until a key lapses, `HolderIsRecorded` ties the name in the server's key
to the worker inside its critical section, and equally to a worker that has left it
and whose release is still with a server thread: it does one or the other, and has one
release there (`AskerIsKnown` says that a thread knows whose). So a late DEL removes
its own asker's key. `StagedIsOwn` ties the staging file to the worker about to rename
it, which needs that only a fallback leads to the lock file (`ModeFits`).
`DriveRefinement` takes all this from there: SET NX is `GrantAndAnswer`, to the
worker, or to nobody when its answer is lost or the SET comes late; leaving or dying
in the critical section is `Quit`; DEL and an expiry without a holder are `Free`; an
expiry under a holder or a release on its way is `Break`.

`CronTicker`. A ticker that has claimed a trigger holds its row lock, and the
committed time is before the slot (`ClaimedIsDue`); a slot that was fired lies
before `last_fired_at`, up to the skew (`FiredIsPast`). The invariant is proved
for every skew. Only the last step, that the two contradict each other for a slot
fired twice, needs `Skew = 0`, and with `Skew = 1` TLC finds the slot fired twice.
What holds with any skew is `LastMovesForward`: all times come from one clock, the database's,
and the time that a claim replaces is before the start of its transaction (`TimesArePast`).

`EventRouter`. `NoRunAfterAnswer` is a property of single steps: runs are only added and
`created_at` never changes, so an answered event stays so, and the SELECT of a
tick takes no answered event. Nothing is needed beyond types.

`WebhookDelivery`. The bounds are an account: an attempt made, or still ahead in
a batch, is paid by a committed failure, a batch that holds the row, or a lost batch
(`AttemptsPaid`), and one that the subscriber accepted also by its answer not being heard
(`AcksPaid`). Dispatchers are counted, so the set
is finite (`DispatchersAssumption`). The step lemmas change one dispatcher's share
of three cardinalities at a time (`Counting`, `LosingOne`).

`PppoeSlots`. On a slot that never strayed the VM routes whom the LATEST write of its
row names, committed or not (`RouteFollowsWrite`), less the worker whose route a
health tick (`Gone`) or an operator's health check (`Lost`) removed and has not
flushed yet. For that to survive commits, roll-backs and flushes one has to know what
each owner of a row lock has written (`LockShape`), what the tick makes of the rows it
loaded (`HealthShape`), where an operator's request stands (`OperatorShape`), that a
row names a worker just when it is assigned (`RowsAreSound`) and that nobody but a
request that is about to commit writes the name of a worker that has no session yet
(`NamedIsServed`). `SessionHasSlot` carries the evictor's property: a session that was
served and has not parted with its slot is the one that the slot's row names.

`AgentSessions`. An id that was never taken out has an entry, and it is that of the one
launch that got beyond the reservation (`ReservationStays`): so there is one
Chrome. A loop's count is the streak of failed probes (`FailuresCount`) and entries
name launches of their own id (`EntriesFit`): so removals have a cause. For the capacity
only cardinalities of finite sets of ids are added.

`Delegation`. A row in a cascade's snapshot whose parent the cascade revoked, or
has still ahead, is ahead or done itself, unless somebody else revoked it
(`CascadeIsClosed`). It starts from `SubtreeIsClosed`, a
lemma about the recursive query, and is kept because row locks keep two
cascades off one row (`LocksAreApart`). Rows are revoked once because an active row
has never been revoked (`RevocationsCount`).

`CircuitBreaker`. One more failure is counted only while the breaker is CLOSED, so
`CountTellsState` is inductive once types are known. `ProbeIsAccountable` says
why a refusal lasts: the probe of a HALF_OPEN breaker is running or may be silent. It is the
safety half of `RefusalIsTemporary`.

`DagBranches`. Branches that overlap write wherever the shared attribute points, so the
invariant says what they cannot reach. A branch that never overlapped has its own context in
place while it runs, and nobody has saved that context (`LoneContext`); so its assignments
are in its own context and among its own tracked writes (`LoneWrites`), where the join's
maximum finds them. Until branches cross they are a stack: the last one to start has its
context in place and each has saved the one below (`StackIsKept`), so nothing is assigned to
the parent behind the join's back (`WritesAreTracked`) and the last one to end restores the
parent. `ValuesAreAssigned` (a value was assigned to that variable by the branch it
names) and `MergeIsLast` (the join comes after all branches) complete it. Nothing of this
depends on the number of permits; what the code's comments promise beyond it fails
with two (section 4).

### Only model-checked

Every safety invariant and every action property of a passing run is a theorem. What
is left to TLC is liveness, out of the prover's reach because it needs ENABLED and
fairness: `UntracedRunEnds`, `DueTriggerFires`, `EventIsAnswered`,
`EveryDispatchSettles`, `RefusalIsTemporary`, `ProxyLossEndsSession`,
`ExpiredIsRevoked`. So is what the run `runs_reaped_forever` refutes.

## 7. Abstractions a reader should know

- Row level security: the worker's role is assumed to see all organizations'
  rows; organizations are not modelled.
- The dispatcher processes up to three runs per tick; each has its own commit, so
  an iteration of the loop is the unit.
- Both copies of the Colab endpoints (user and internal) execute the same
  statements and are one action each.
- Counters that only matter up to a bound stop there (`Bump`, `fires`, `made`);
  clocks stop at `MaxTime`.

## 8. Plan

Done: run lifecycle, breaker and branches, locks, triggers, webhooks, PPPoE slots,
agent sessions, delegation; the proofs of section 6.

Next models: the XIORUN session state and the quota counters, once their writers are
read closely; then an abstract specification of a PPPoE exit slot, which `PppoeSlots`
should implement on slots that never strayed.

## 9. Not modelled

The map covers a small share of the repository, because most of it has no
protocol of its own: page automation, generated scripts, CRUD endpoints,
serialization and installation code. What is left out, and why:

- Workflow service (task leases, dead-letter proposals): its tables are in no
  migration and only tests call it, so there is no program state to model.
- XIORUN launcher on the server: unreachable, because the claim it is called from
  excludes `xioflow_dag` runs and no other kind is created.
- DAG walk and node handlers: one coroutine that follows edges; what its nodes do is
  page automation. Its shared parts, breaker and branches, are modelled.
- Operations and idempotency keys, quotas, worker enrolment, compute runtimes,
  identities, plugins, lifecycle registry: requests that read and write rows of
  their own in one transaction, as far as they were read (quotas and metering were
  not read closely). They meet the modelled parts only in the rows named there.
- Cookie and profile merge of the Colab agent, login automation, boot and install
  scripts, the single-file `xiorun_agent.py`: I/O against pages and shells; the
  single file repeats the modular agent.
- XIOVIEW streams, SSE bus, XIOAI, vault: transport of data, or calls of services
  outside the repository.
