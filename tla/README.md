# PilotSuite Styx Core: formal models, checks and proofs

This directory keeps TLA+ models of the concurrent and crash-prone parts of the
PilotSuite Core (`addons/pilotsuite/app/copilot_core`), the TLC configurations
that check them, and proofs about them for TLAPS. Paths below are relative to
`copilot_core` unless they begin with `src/`.

    tlc -workers 2 -config MCLogFixerTxSerial.cfg MCLogFixerTx     # one run
    tlapm LogFixerTxProofs.tla                                     # the proofs

`PROJECT.json` lists every run, the source lines of every definition, the
hazards the properties are aimed at, and for every property a mutated form of
the code that it rejects.

## 1. The system and its parts

The Core is one Python process: a Flask application on the threads of a Waitress
pool, with daemon threads for background work and JSON, JSONL and SQLite files
under `/data`. Home Assistant's integration posts events and commands to it; the
Core writes back through the Supervisor's API.

    HA forwarder --POST /events--> EventStore --callback--> EventProcessor --> BrainGraph
                                      |ring, JSONL               |--> mining thread
    HA forwarder --POST /mood-->  NeuronManager --> bus --> autonomy executor
                                      |--> module registry (gate), zone mode
                                      |--> HABridge --(circuit breaker)--> Supervisor API
    conversation tools ---------------------------(same breaker)---------> Supervisor API
    candidates, mood, alarms --> webhook pusher --> delivery queue --> destinations
    operator --POST /log_fixer_tx--> transaction log + files

| Component | State | Operations | What is hard | What makes it correct |
|---|---|---|---|---|
| `log_fixer_tx` transaction log | JSONL log, the files themselves | begin, append_intent, apply_tx, rollback, recover | the process dies between two steps; torn lines; failing appends; threads on the same files | write-ahead order, apply is a prefix, recovery undoes what is unfinished, a rollback undoes from the end and restores, nothing is overwritten silently |
| `webhook_delivery` queue | bounded queue, task count, workers, slots, stop event | enqueue (3 policies), worker loop, retries, start, stop | old workers beside new ones, stop against enqueue, slot and count accounting on all paths | it is a bounded queue with one outcome per envelope; exact count; slots conserved; bounded sends; accepted envelopes settle |
| `circuit_breaker` | state, failure count, last failure | call, read state, success, failure | results of calls admitted in an earlier state; clients that report some failures only | state and count agree; an open circuit is probed; the reported load on a failing service is bounded |
| `ingest` event store and processor | known keys with TTL, ring, JSONL, processed ids, mining buffer | ingest_batch, process_events, trigger and run mining, restart | two locks taken one after the other, eviction at the limit, retried batches | no key accepted twice in its window, events pass the processors once, each goes to one mining |
| `brain_graph` | SQLite nodes and edges, cache, batch flag, counters | touch_node, touch_edge, batch, the three prunes, GET /state | one batch flag for all threads; a prune of four statements over rows read earlier; a cache filled from an old read; a restart over the rows | the API is stale, and an edge dangling, only for the causes the code has; the tables stay near their limits |
| `alarm` engine | alarms, runtimes, execution and snooze threads, stop events, files | create, update, delete, trigger, snooze, cancel, run, load | triggers take no lock; the end of a snooze; the stop event of an older run; saves that fail or overlap | what is shown as running runs, a snoozed alarm wakes, a lone run can be stopped, the file is what memory is |
| `autonomy` executor, `module_registry`, bus, `neurons` manager | last mood, zone mode, module and zone rows, cooldowns, counters | evaluate, publish, execute_if_allowed, toggles | up to eight transactions read for one decision; handlers that raise; evaluations that overlap | nothing acts for a module that was not active, every call is counted, the mood shown is the mood announced |
| candidate store | memory, `.json`, `.bak`, `.tmp` | add, transition, clean up, save, load | a save of four steps, each of which may fail or be the last | what was confirmed is on the disk |
| delivery intents | memory, JSONL | acknowledge, cancel, status, reload | one torn line fails the reload; appends that fail half way | an answer once given is not taken back |
| notifications, proactive engine | cooldown tables | notify, suggest | per-call time windows | no duplicate within the cooldown |
| security (rate limiter, brute force) | buckets and failure counters | allow, record_failure | floating-point refill under one lock | limits hold |
| caches, connection pool | TTL maps, sessions | get, set, evict | expiry on read | bounded size |
| mood engines, habitus miner, ML, energy, hub | numeric state | evaluate, mine | numeric, without a concurrent protocol | domain logic |
| conversation, LLM, RAG, vector store | histories, indices | chat, search | I/O | the tools go through the breaker |
| adapters (Sonos, Telegram, MQTT, calendar, voice) | connections | send, receive | I/O | - |
| start-up, configuration, API blueprints | wiring | create services | order of construction | - |

Repository tooling and tests carry no run-time logic of their own. The top-level
directory `src/copilot_core` is an archive (`src/README.md` line 20: "legacy archive
surface only, not release truth"): nothing in the add-on imports it, and it is
out of scope.

### Observations made on the way

What reading and modelling showed, beside the findings of the violation runs. The
properties name these ways of going wrong as their exceptions where they meet them.
Four of them contradict a sentence of the code, and have no run of their own because
the contradiction is plain from reading:

- `autonomy/executor.py:18` says "max 1 action per module per zone per N seconds";
  the limit is tested before and recorded after the actions, and two evaluations at
  once both act within one cooldown.
- `module_registry.py:8-10` applies suggestions "when BOTH involved modules (source +
  target) are in active mode"; the executor reads the two in separate transactions and
  acts if each was active at some moment of the call, together or not.
- `webhook_delivery.py:479-480` says the slot is taken per attempt so that back-offs
  do not block it; the back-off is slept inside the `try` whose `finally` gives the
  slot back, so it does.
- `ingest/event_processor.py:31` and `:80` promise that only successfully processed
  events are committed to the brain graph; each processor writes to SQLite at once,
  `rollback_batch` takes nothing back, and the whole batch, failed events and
  duplicates included, goes on to mining.

The others meet no sentence of the code that we know of:

- *Transaction log.* An operation that finds its work already done counts as
  applied, and a rollback then undoes what the transaction never did: it moves a
  file that was in place before. After the first ROLLED_BACK a half-undone
  transaction counts as rolled back, and asking again answers "Already rolled
  back". `set_enabled` takes the marker off without looking whether the unmarked
  name exists, and replaces that file.
- *Circuit breaker.* A conversation tool whose name does not start with `ha.` fails
  without the breaker hearing of it, and so does every HTTP error: through the bridge
  it even counts as a success and resets the count. What the tools do report is added
  up without limit of time, since they report no success.
- *Brain graph.* `begin_batch` resets the pending invalidations of whichever
  thread is in a batch, and any commit ends the batch of all; the feedback loop and
  the event processor use both. `touch_node` reads, computes and writes back
  without a lock, so one of two concurrent scores is lost. The count of touches
  since the last prune starts at 0 with every restart and is reset before a prune
  that may raise, so a process that restarts often never prunes by count; what then
  keeps the table small is the daemon's prune.
- *Event mining.* The batch leaves the buffer before the miner runs: a miner that
  raises has lost it.
- *Autonomy.* A mood change that falls into the cooldown is skipped and nothing
  retries it. Nothing in the repository publishes `presence.changed`, so the
  executor's second handler never runs. The registry publishes while it holds its
  lock; no subscriber calls back today.
- *Alarms.* `core_setup.py` constructs the `AlarmEngine` and starts it nowhere: no
  alarm goes off by the clock. A trigger takes no lock and can revive an alarm that
  was just cancelled, or make the run of a cancelled one set lights once more. A
  one-shot run that ends saves the configuration it began with: it can bring back
  the file of an alarm deleted meanwhile, or overwrite a newer one. `delete_alarm`
  changes memory first, so an `os.remove` that raises brings the alarm back at the
  next start. `_config_path` drops characters, so two alarm names may share a file.
  A snooze that raises between its mark and its timer leaves an alarm snoozed for
  good. The engine calls `set_sleep`, which `sonos/client.py` has and
  `hub/sonos_client.py` (it has `sleep`) has not: with the latter a run with a sleep
  timer ends in its `except` branch, and a one-shot alarm stays enabled.
- *Candidates.* `.bak` is written with every save and read by nothing: after a
  crash between the two renames the next start begins empty. A second store,
  `storage/candidates.py`, shares `/data/candidates.json`; its persistence is off
  by default.
- *Delivery intents.* One torn line makes all handlers answer 503 until somebody
  repairs the file.
- The mood processor that `core_setup.py` registers reads `attributes`, a field
  that normalised events do not have.

## 2. Plan

Done, in this order:

1. **LogFixerTx**: the transaction log, the one component whose purpose is to
   survive crashes.
2. **WebhookDelivery**, which implements **DeliveryQueueSpec**: the queue with the
   richest interleavings.
3. **CircuitBreaker**: small, shared by all clients of Home Assistant, about time.
4. **EventIngest**: store and processor composed, the way of every event.
5. **BrainGraph**: what the events end up in.
6. **AutonomyExecutor** over **ModuleRegistry**: from a mood to a lamp.
7. **AlarmEngine**, **CandidateStore**, **DeliveryIntents**, which **MCRestart**
   runs together: what survives the end of the process.

All of them have proofs. Left, by importance:

8. **LogFileLock**: the steps inside `_append_record`, with the lock descriptor
   that all threads share through `_lock_fd`. A thread that has released the file
   lock can close the descriptor another has just stored there. `LogFixerTx`
   takes one append as atomic; this module has to say when that is justified.
9. The cooldown tables of notifications, and the security limiters.

## 3. Modules and their correspondence to the code

Every module keeps its properties at the end and its mutants beside what they
mutate (`\* Mutant of X: ...`). The mutants take no part in `Next`. Variables
marked *history* are in no program field; they record the past for properties.
Small instances are in `MC*.tla` and the `.cfg` files, proofs in `*Proofs.tla`.

### LogFixerTx

Code: `log_fixer_tx/transaction_log.py`, `operations.py`, `recovery.py`,
`api/v1/log_fixer_tx.py`.

The state is the file system `fs`, the `log` of records, `tail` (how the file
ends), and for each thread of the server where it is in its request. The tail is
"whole", or after a crash "torn" (part of a line, which no reader can parse) or
"open": the line lacks only its newline. An open line is parsed until the next
append is glued to it; then both records are gone. The log keeps such a record
with a type of `Lost`, which nothing that reads the log looks for. An operation is
a move from `src` to `dst`; `enable` and `disable` move the `.disabled` marker,
and `Enable` may also create a blank file.

| Action | Code |
|---|---|
| `Begin`, `AppendIntent` | `create_transaction` up to the last INTENT |
| `ReadIntents` | `apply_tx` reads its INTENT records back |
| `Check` | the existence tests of `apply()` |
| `Move`, `MoveMissing`, `Touch` | `shutil.move` and `touch`, or the exception of a source that is gone |
| `MoveFails` | `mkdir`, `shutil.move` or `touch` raises with the files unchanged |
| `LogOutcome`, `LogFailure` | `append_outcome` of APPLIED / ROLLED_BACK, or of FAILED |
| `AppendError` | an append raises, with its record written or not |
| `StartRollback` | `rollback_transaction` |
| `StartRecover`, `RecoverNext` | `recover_transactions` and the loop of `recover` |
| `Crash`, with `Cut` | the process dies and restarts, maybe within a line or before its newline |

Nothing but the append of one record is locked, so everything between two of
these is an interleaving point. `TxState` is `get_tx_state`, `InFlight` is
`list_in_flight_tx`, `Decide` is the case distinction of the `apply` methods.

Abstractions: the two `exists()` calls of one operation are one step; so is the
state test of a rollback with the re-reading of its records. The lock and write
inside `_append_record` are one step (see LogFileLock in the plan). Directories,
`set_enabled` with `before = after`, a partial line left by a failing append (as
opposed to a crash: an append that raises leaves the whole line or nothing), a move
that fails half way across file systems, and the `rollback()` methods that nothing
calls are left out.

### WebhookDelivery and DeliveryQueueSpec

Code: `webhook_delivery.py`.

`queue`, `unfinished`, `started`, `stopEvent` and `slots` are the fields of the
class, `maxSize` and `policy` its settings; `wpc`, `cpc` and `spc` say where each
worker, each caller in `enqueue()` and `stop()` are. `WorkerIds` holds more threads
than one pool has: `stop()` joins a worker for 0.2 s at most and forgets it, and a
later `start()` puts a new pool beside it.

| Action | Code |
|---|---|
| `Enqueue`, `Start`, `Put`, `Refuse` | `enqueue`, with its unlocked test of `_started` |
| `FullDropOldest`, `Evict`, `EvictDone` | the branch of `drop_oldest`, call by call |
| `TestStop`, `TestEmpty`, `Get`, `GetTimeout` | `_worker_loop` |
| `AcquireSlot`, `SlotDeadline` | `_acquire_destination_slot`: a slot, or the deadline |
| `RateAllowed`, `RateDenied` | `_wait_for_rate_limit` with the slot held: the send, or the deadline, and the slot is given back |
| `SendOk`, `SendFails`, `SendTransient`, `BackoffOver` | `send_func` and what follows it; the slot is held through the back-off |
| `TaskDone` | `task_done` |
| `StopBegin`, `StopDrained`, `StopClear` | `stop` |

Abstractions: no clock. A wait that a deadline bounds may end either way: for a
slot, and, with the slot held, for the rate limit. Statistics are left out. A send
is one step that may succeed, fail for good or fail for now.

`DeliveryQueueSpec` is what a caller of `enqueue` is promised: a first-in first-out
queue of bounded size, which refuses only when full, drops only the oldest and only
under that policy, and gives every envelope one final outcome. The refinement
mapping takes `working` to the envelopes that workers hold until they have decided
them and `outcome` to the final fates. Workers, slots, retries, pools and stops map
to stutters.

### CircuitBreaker

Code: `circuit_breaker.py`, its use by `autonomy/ha_bridge.py` and by
`_execute_ha_tool` in `api/v1/conversation.py`.

`Call` is `call()` up to the function, or the gate of a conversation tool;
`OnSuccess` and `OnFailure` are the second half. For the bridge an HTTP error is a
response like any other, so `OnSuccess` may be a failure of the service: it resets
the count, and `Reset` makes it the first of the `failed` calls to come, and of
those `unheard`. `Gated` callers are the tools, which report exceptions only, and
these only if their name starts with `ha.`: a return of theirs is `SilentSuccess`,
an HTTP error or an exception of another tool `SilentFailure`. `MaxUnheard` bounds
these. `Refresh` is the side effect of reading the property `state`. The clock
`now` is an integer that only goes forward (`time.time()` may step back: not
modelled, and then the circuit may stay open for longer), and a call ends within
`CallTimeout`, for which the HTTP timeouts of the clients stand; a server that
sends a response in small pieces could stretch a call beyond them.

### EventIngest

Code: `ingest/event_store.py`, `ingest/event_processor.py`,
`api/v1/events_ingest.py`.

An event is its dedup key. `seen` is the OrderedDict as a sequence, `ring` and
`file` the two copies of the events, `processed` the ids the processor
remembers, and `buffer`, `since`, `lastMine`, `mining` and `mineBatch` the mining
trigger. A handler takes the store's lock for its batch (`Post`, then `Skip` or
`Accept` per item), then the processor's (`Process`), then twice the mining lock
(`BufferForMining`, `MaybeTriggerMining`); other handlers run in between.
`RunMining` is the end of the mining thread, with its batch `mined`, or `unmined`
because the miner raised: the exception is logged and the batch is gone. `Restart` is
a restart of the Core.

Abstractions: envelopes are valid and normalised; the query filters read only;
the graph updates of the processors are in BrainGraph, here only whether a
processor raises. A restart falls between two writes of the file: a line torn by a
kill, which the next start would skip, is not modelled.

### BrainGraph

Code: `brain_graph/service.py`, `store.py`, `api.py`, and the callers of its
batches in `ingest/event_processor.py` and `integration/feedback.py`.

`nodes` and `edges` are the two tables, `batchMode`, `pending` and `opCount` the
fields of the service, `cache` the entry of `brain_graph_cache`. Each thread has
its place in a touch and, in `ahead`, the two flags `should_invalidate` and
`should_prune` it has taken along from the section under the lock.

| Action | Code |
|---|---|
| `Touch`, `Upsert` | the read and the write of `touch_node`, `touch_edge` |
| `UpsertFails` | the store raises, and the touch with it |
| `Account` | their section under the lock: count, batch, decide |
| `TouchClear`, `TouchPrune` | what they decided: first invalidate, then prune |
| `TouchPruneFails` | the prune raises after the counter was reset |
| `PruneNow` | `prune_now`, from `POST /prune` |
| `PruneScheduled`, `ScheduledClear` | the daemon thread |
| `BeginBatch`, `CommitBatch`, `CommitClear`, `RollbackBatch` | the batch calls |
| `Read`, `Fill`, `Expire` | `GET /state` past the cache, and the cache's TTL |
| `Restart` | the process ends and starts again: the rows stay, all else is new |

Abstractions: a score or weight is whether its row exists. It decays with time, so
a prune may find any row too weak and rank the rows in any order; `PrunedTo` says
what the four statements of `prune_graph` can leave. The cache is one entry,
"empty", "current" or "outdated" once the store was written after its reading
began. *History*: `excused` holds once an invalidation was lost in one of the ways
`StaleHasCause` lists, `loose` the edges written while an end of theirs was missing,
and `forgotten` counts the touches since the last prune that neither the counter nor a
prune that is due stands for any more: a restart adds the counter and what was under
way, a prune that raises one interval.

### AutonomyExecutor and ModuleRegistry

Code: `neurons/manager.py`, `integration/bus.py`, `autonomy/executor.py`,
`module_registry.py`, and the zone's mode of `hub/zone_automation.py`.

`ModuleRegistry` has the two tables and the two writes; AutonomyExecutor extends
it. A thread evaluates (`Evaluate`), runs the handler on its own stack, since the
bus is synchronous, and stores the result (`StoreResult`).

| Action | Code |
|---|---|
| `Evaluate`, `StoreResult` | the comparison with `_last_result`, the publishing, and the late store |
| `CheckMode` | the mode at the head of `execute_if_allowed` |
| `ReadZoneRow`, `ReadModuleRow` | `get_zone_state`, in up to two transactions, four times |
| `ReadFails` | the database raises; the bus keeps a dead letter and drops the rest |
| `CheckCooldown`, `Act`, `Record`, `CountOutcome` | the rest of `execute_if_allowed` |
| `SetModule`, `SetAutomationMode` | the configuration through the API |
| `CoolDown` | 30 s have passed |

Abstractions: a mood stands for its action table; of the actions of a call only
whether one was executed is kept. *History*: `was` collects which of the two
modules of a decision were in force as active at some moment of it, `known` is the
mood last announced, `crossed` holds from when evaluations overlapped until shown
and announced mood agree again.

### AlarmEngine

Code: `alarm/engine.py`.

The engine keeps everything by alarm, so one alarm is modelled, with editors,
callers, snooze timers and execution threads around it. `config` is `_alarms`,
`rt` `_runtimes`, `stops` `_exec_stops`, `lock` the engine's lock where a section
has more than one step, because a trigger, which takes no lock, can come in
between; `fresh` says whether the runtime read there is still the one stored.

| Action | Code |
|---|---|
| `Create`, `Update`, `UpdateArm`, `Delete`, `Remove` | `create_alarm`, `update_alarm`, `delete_alarm`; `os.remove` may raise |
| `Open`, `Write` | `_save_config`: the file is truncated, then written; errors are logged |
| `Trigger`, `NewRuntime`, `Start` | `trigger_alarm` and `_trigger_alarm` |
| `SharedPath` | another alarm, whose name leads to the same path, is saved or deleted |
| `Snooze`, `SnoozeMark`, `SnoozeTimer`, `Cancel`, `CancelMark` | `snooze_alarm`, up to the start of its timer, and `cancel_alarm` |
| `Raise` | lights, music or a configuration of wrong types raise in a snooze, its timer or a trigger |
| `Wake`, `Resume` | `_snooze_resume`: check under the lock, trigger after it |
| `RunStep` ... `RunFinally` | `_execute_alarm`; the music's sleep timer may raise after the state is set |
| `Restart` | the end of the process, and `_load_configs` |

Abstractions: a configuration is a version number with `one_shot` and with the
`enabled` it was posted with (`Off`); lights, music and progress are left out, and a
thread that is created starts. *History*: `dirty` (saves overlapped or failed, the file
could not be removed, another alarm wrote it, or a one-shot run saved what was
replaced; it ends with the next save that is alone and writes what is in memory),
`lost` (the state last written went to a runtime no longer stored, or its snooze
raised), `overlapped` (runs that overlapped another, or began after a delete).

### CandidateStore

Code: `candidates/store.py`. Every call holds one lock, so `saving` is the next step
of the one save under way: `Backup` (rename to `.bak`), `OpenTemp`, `Dump`,
`Replace`, each of which may fail (`SaveFails`) or be the last before a `Restart`. A
candidate is its state, a file what it holds. *History*: `acknowledged`, the content
of the last call that succeeded.

### DeliveryIntents

Code: `api/v1/delivery_interactive.py`, `api/v1/delivery_intent_store.py`. Each
handler is a step (`Acknowledge`, `Cancel`, `Status`), for it runs under one lock;
`Persist` is the append it makes and all the ways in which the append may fail.
The file is the last record of each token and whether its lines are whole: "open"
when the last one lacks its newline, so that the next record is glued to it, "torn"
once any line cannot be read. `Restart` is `reload()`, which one bad line stops.
*History*: `answered`, what was last answered for each token.

### MCRestart

Composes the last three: they are stores of one process that share no state, so
`subject` picks the one whose clients are active in a behaviour, and each has its
own restart in it.

## 4. Runs

All instances are small sets of model values. `CHECK_DEADLOCK FALSE` stands
wherever the clients stop at their bounds; the breaker and the graph have no such
bound and are checked for deadlock.

| Run | Instance | Shows |
|---|---|---|
| `tx_serial` | 1 thread, 2 transactions of up to 2 operations, a module with one of its names or both, 2 crashes, 1 failing append, move or touch, 2 rollback or recover requests; 1,313,954 states | with requests one at a time: success means applied, content is replaced by enabling only, rollback from the end, once, and to the initial files, recovery leaves nothing in flight |
| `tx_race` | 2 threads, 2 transactions on shared files, 1 crash that may cut a line anywhere, 1 rollback or recover request; 896,878 states | write-ahead order, prefix, and "in flight" touches one operation, whatever interleaves |
| `webhook` | 3 envelopes, 2 callers, 2 worker threads in pools of 1, queues of 1 and of 2, 1 slot, 1 retry, 1 stop, `drop_newest` and `drop_oldest`; 375,551 states | the queue implements DeliveryQueueSpec; count, holder, slots, sends; accepted envelopes settle |
| `breaker` | 2 callers through `call()`, 1 gated, threshold 2, recovery 3, calls of up to 2, clock to 9, 2 unreported failures; 209,850 states | state against count, probing in time, the failing calls between reported successes |
| `ingest` | 2 handlers, 5 keys, window of 4, ring of 2, 3 posts, 1 failing write, 1 restart; 2,068,338 states | ring and file, window, idempotence, each event to one mining |
| `graph` | 2 threads, 3 nodes and an edge between two of them, `MaxNodes = MaxEdges = 1`, pruning every 2 touches, 1 pending invalidation, 2 forgotten touches; 971,532 states | stale answers, dangling edges and the size of the node table have no cause but the named ones |
| `autonomy` | 2 threads, 1 zone with lights and music, modules mood, licht and musik, the mood module absent or off at the start, 2 moods, 3 evaluations, 2 configuration changes; 2,319,882 states | nothing acts for a module that was not active, every call is counted, the mood shown is the mood announced |
| `restart` | 1 editor, 1 caller, 1 timer, 2 runs, 2 versions, one of them one-shot and one posted disabled; 2 candidates; 2 tokens; a restart at any moment; 1,836,953 states | alarms that ring can be stopped and wake again; files agree with what was confirmed; no answer is taken back |
| `tx_incomplete` (violation) | 1 thread, 1 crash | `list_in_flight_tx` leaves out a transaction cut between two operations |
| `tx_overwrite` (violation) | 2 threads | a rename replaces a file that appeared after the tests |
| `webhook_stop` (violation) | 1 caller, `drain_timeout=None` | `stop()` waits for ever on an envelope put while the workers leave |
| `ingest_evict` (violation) | 1 handler, single events | a key registered anew keeps its old place and is evicted before older ones |

Each violation run refutes one sentence of the code's own documentation; the
sentences are quoted under `findings` in `PROJECT.json`.

**Why the bounds are enough.** Two transactions of two operations are the least
that has a "between two operations" and a second transaction to be disturbed by;
the second crash can hit the rollback or the recovery that follows the first. The
requests chain (`a` to `b` to `c`), reverse or block one another, so that
"already done", conflict, missing source and overwriting all occur. One crash and
one call suffice in the race, where the second thread is the disturbance. A module
starts with one of its names or with both, so that enabling it moves, finds nothing to
do, creates a blank file, or replaces one.

A queue of one is full after one envelope, one of two has an order; three envelopes
give an evicted one, a refused one and one in delivery, two worker threads let an
old pool of one overlap a new one. `block_timeout` waits before it refuses, which
without a clock is `drop_newest`. The breaker's clock covers two recovery timeouts
and a late failure, and two unreported failures meet each other and a reported one;
two ordinary callers are needed for a result that arrives in
another state. Five keys overflow the window of four once, so an eviction takes
place, and `Ttl = 1` lets keys expire while others live.

Two nodes are one more than the graph may keep and enough for an edge to lose
either end; the third is there for the table to reach what a restart lets it grow
to, with two forgotten touches: a whole interval. One edge is touched, dangles and
is pruned by its strength or with its nodes; the limit on edges, which no property
is about, is not reached. Two threads are a batch and somebody in its way, and a
third can only add another of the same kind. One pending invalidation is what a
rollback can lose or a `begin_batch` reset. One zone suffices since the registry's
rows are independent; two targets give a handler that goes on after a call. Two
changes are what it takes to show an override that comes between two reads and
goes again; three evaluations give a first one, which announces nothing, and two
that overlap. Two versions give a replaced configuration, two runs an overlap; a
third run would need a third trigger before the first ended, and all that runs
share, the stop event and the state, is already overwritten by the second.

**Fairness.** `FairSpec` of WebhookDelivery has weak fairness for each
worker, each caller and the two waiting steps of `stop()`: they are threads of
one process, whose waits are bounded by timeouts (`get` by 0.1 s, `put` by
`block_timeout`, the send by the HTTP timeout of `send_func`). Nothing is assumed
of the environment: no client needs to call, no crash to stop, no send to succeed.
Waits for a slot and for the rate limit end, since deliveries have a deadline in the
run (`HasDeadline`). A stop
is never forced, so `AcceptedSettles` says what it says of queues nobody stops;
`~started` is the exit it leaves for the others. The other runs check safety only
and assume no fairness.

## 5. Proofs

The theorems hold for every set of threads, transactions, paths, callers, nodes,
zones and so on, every bound and every number of crashes, under the named
assumptions of the modules (`TxAssumption`, `OpsAssumption`, `FsAssumption`,
`BreakerAssumption`, `SizesAssumption`, `SetsAssumption`, `LimitsAssumption`,
`GraphAssumption`, `RowsAssumption`, `TargetsAssumption` and the like), which TLC
evaluates in the runs, and the ones stated in a theorem itself. Each is proved from
an inductive invariant, `IInv`: it holds at the start, every action keeps it, and it
implies the property.

**LogFixerTxProofs.** `IntentBeforeOutcome` is not inductive: nothing in it says
that a thread about to log an outcome has an INTENT in the log. `IInv` adds

- `RequestInv`: the INTENT records of a transaction, the lost ones too, and the
  numbers a thread has yet to visit number operations that were posted;
- `TailInv`: an open line holds a record, and whoever creates a transaction has by the
  time it reads the log back ended the line a crash had left;
- `LoopInv`: in the loop of `apply_tx` the numbers to visit are those of INTENTs that
  can be read, since the loop reads the log back. In that of `_rollback_tx` they are
  of INTENTs that are or were readable (`KnownOf`), for an append of another thread
  may spoil one behind the reader's back.

`AppendKeeps` and `LogFrame` carry the argument: the log only grows, but for its last
record, which an append to an open line loses. From `IInv`: `TypeCorrect` and
`WriteAhead`.

`AppliedIsPrefix`, `InFlightTouchedOne` and `SuccessMeansApplied` need to know that
a transaction has one creator and how far it is. `ApplyInv` says of each thread
that creates one: no other thread does (`CreatorInv`); before its loop nothing is
applied (`BeforeLoop`); in the loop what it has visited is APPLIED and it visits
the numbers in order, behind a line that is whole (`InLoop`); without torn writes no
INTENT is missing (`Whole`). `OpenInv` adds that the record on an open line can be lost
without harm to what is claimed. Of each transaction
it says what then outlives the thread: `PrefixOf`, `OneOpOf` and `OkOf`. Other
threads may roll the transaction back meanwhile, but append ROLLED_BACK and FAILED
only. `SuccessMeansApplied` assumes `TornWrites = FALSE`: a client is told of success
for what the log gave back, and a torn line may have taken an INTENT away.

`SerialLoss` proves `OnlyEnableReplaces` for requests served one at a time
(`OneAtATime`; `tx_overwrite` shows what two threads do), for all files and requests.
`MoveInv` says that a thread between check and move finds the source present and,
unless it takes a marker off, the target absent (`ReadyTo`): the existence tests decide
so (`DecideReady`), and nobody changes files in between. Only a move over a file loses
content (`MoveLoses`), so only enabling does, or the rollback of a disabling.

`UndoneOnce` proves `RollbackOnce` and `RecoveryComplete` proves `RecoverClears`,
both under `OneAtATime`: two threads may each find an operation not yet rolled back,
and a thread may create a transaction while another recovers. `UndoInv` says that a
rollback has still to visit only what is not logged ROLLED_BACK (but for an operation
whose record was written by an append that raised and is in `log_err`), and a
recovery only transactions without such a record: a new record is never a second
one. `ClearInv` says that a recovery reaches all that is in flight: it is still
pending, or the one being rolled back; every outcome that is appended takes its
transaction away (`OutcomeClears`). `RecoveryComplete` assumes `~TornWrites` too,
because behind a torn line the outcome of a rollback is lost and the transaction
stays in flight; failing appends are excluded by the property itself.

`UndoneIsEnd` proves `UndoneFromEnd`, under `OneAtATime` and `~TornWrites`. Without cut
lines no record is lost (`WholeLog`), and a rollback has still to visit whatever is not
logged as rolled back (`DownInv`), from the highest number down; so what it logs next
has only rolled back operations above it.

`RollbackGivesBack` proves `RollbackRestores`, under `OneAtATime` and `~TornWrites`.
Why the files are as they were is a matter of all the moves in between, which the
property does not mention. `RestoreInv` says of each transaction that is not in
`impure` where it stands on its way: it made `m` moves, and the files are those
after the first `k` of them (`Stands`). `Chain` says what that is: there is a
function from step numbers to file systems that leads from `base` by one move to the
next, each to a free path (`MovedBy`). So there is no recursion over the operations,
and a move forward extends the function by one (`ChainGrows`), a move back goes one
step down on it (`ChainBack`), since the reverse of such a move finds its paths as
the move left them (`InverseDecides`, `MoveBack`). What `k` is, the log and the
threads tell: `Applying` in the loop of `apply_tx`, `Undoing` in the loop of
`_rollback_tx`, and `AtRest` for a transaction that nobody works on, the case a crash
or a failing append leaves behind. There an operation may be undone without a record
of it, but only one, the last. A rollback which starts there finds this operation
undone already, goes on, and logs the first operation as rolled back when `k` is 0:
the files are those of `base`. `NumberedOf` adds that the INTENTs have no gap, which
a torn line would make; hence `~TornWrites`.

**CircuitBreakerProofs.** `TimeInv` relates the age of the calls in progress to
the opening of the circuit (they were admitted before it) and each probe to
`RecoveryTimeout`; `LoadInv` says that the failures counted before a probe leave
room for every caller to fail once; `HeardInv`, that the failed calls are those the
breaker counted and those it never heard of. From them: `TypeCorrect`,
`StateMatchesCount`, `OpenCircuitEnds`, and `OutageLoad`, the bound on the
failing calls for any number of callers.

**WebhookDeliveryProofs.** `PlaceInv` says where an envelope is: no envelope is in
the queue twice (`NoRepeats`), one that a worker holds is in no other hands
(`WorkersHold`), callers bring envelopes nobody else brings and evict only under
`drop_oldest` (`CallersHold`), and what is accepted is somewhere (`NoneLost`).
`SendInv` equates the sends of an envelope with the attempts of the worker that has
it. From them, for any number of overlapping pools: `TypeCorrect`,
`DrainCountExact`, `NoSlotLost`, `AttemptsBounded`, `OneHolder`; and `Refinement`,
that the implementation implements DeliveryQueueSpec. There `CallersHold` shows
that an eviction is allowed, and `WorkersHold` that ending a delivery takes just
that envelope from `working`.

**BrainGraphProofs.** `PlanInv` ties what a thread has decided to its place in a
touch; with the types it makes `StaleHasCause`, `DanglingHasCause` and
`NodesBounded` inductive. The last rests on `PruneBound`: a prune of any order of
rows leaves `MaxNodes` at most; and what a restart takes from the other terms of the
bound it adds to `forgotten`. Theorems: `TypeCorrect`, `StaleOnlyWithCause`,
`PruneLeavesNoDangling`, `TableBounded`.

**AutonomyExecutorProofs.** `ActsOnlyIfActive` is the interesting one, for the code
reads a zone's row and a module's row in separate transactions, so that a single
pair of reads can see an "active" that never applied. `ReadsExplained` says why two
pairs suffice: no call of the registry deletes a row, so if an override came
between the two transactions of a first read, the second read of the same module
finds the override's row and takes it. An "active" of the first pair was therefore
in force, or the row exists by now; one of the second pair was in force for certain.
`OneEvaluation` (without overlap one evaluation runs, with the mood announced
last) gives `ShownMoodAnnounced`; the counters give `EveryCallCounted`.

**AlarmEngineProofs.** `ThreadsOK` and `StatesOK` complete the types: what each
place says about the version a thread works with, that a file says of a version
what was posted or what a one-shot run made of it, that a locked or snoozed alarm
exists. `ActiveHasActor` is inductive with them (`NoAbandonedAlarm`). `RunsApart`
(a run that overlapped no other is alone) gives `RunsCanBeStopped`: only then is
the stop event that a run's end removes its own. `SaveInv` (unless they parted,
one thread at most is about to save, and what it saves is in memory) gives
`FileUpToDate`.

**RestartProofs.** The specification is `StoresSpec` of MCRestart, the one the run
`restart` checks, with the two stores as instances. What each store keeps on its own
is a lemma:

- of CandidateStore (`CandidatesKept`): `OnDisk` is stronger than
  `AcknowledgedOnDisk`, for the backup is what counts only while there is no file,
  since the next save moves a file over the backup, and nothing when there is none;
  `TempIsMemory` says that what is about to replace the file is what is confirmed;
- of DeliveryIntents (`AnswersKept`): `FileUpholds` and `MemoryUpholds`, file and
  memory are no step behind what was answered, as long as they are used, which
  `last_error` ends; `MemoryIsFile` links them across a restart.

`Components` shows that a behaviour of the process is one of each store, so these
and the theorems about AlarmEngine hold of it: `StoresTypeCorrect`,
`ConfirmedSurvives`, `NoAnswerTakenBack`, `AlarmsSurvive`. `StoresAssumption`, which
the run evaluates, says that new candidates are in a state there is, and that the
mark for an unknown token is none of the states.

**EventIngestProofs.** `_prune_seen` keeps the entries at some positions of the
window. The model numbers them by their rank (`EntriesAt`) instead of walking over
the window, so that `RankOnto` (ranks are 1, 2, ... without gap or repetition) gives
all there is to know of a pruned window: it has every live entry, once, and no
others. The invariant has three parts, each proved on its own:

- `StoreInv`: one handler holds the store's lock, the window obeys `SeenBounded`,
  and `WindowInv`, that every key accepted less than a TTL ago is in the window with
  the expiry it got then, unless it is in `dropped`. With it, `NoDoubleAccept`
  (`DedupWindow`) is a statement about one step of `Accept`.
- `RingIsTail` and `MiningExact`, which are inductive with the types: the last
  `MaxEvents` of a longer file, and the sums over buffer and mining batch.

`OncePerMemory` (`AppliedOnce`) is about what several handlers do to
`_processed_ids`. `Passed` bounds the passes of a key by the times the processor lost
its memory, and by one less while it remembers the key; `KeysOnce` says that a
handler's batch repeats no key. The latter needs the assumption `DistinctBatches`
that no client posts a key twice in one batch: within a batch the processor does not
look for duplicates, and the store, which does, may have evicted the first of the two
by the time it meets the second.

**Only model-checked.** Liveness (`AcceptedSettles`): fairness and ENABLED are out
of TLAPS' reach. Every other property of the passing runs is proved, under the
assumptions its theorem states. No module declares a RECURSIVE operator: what a
loop over data computes is either a step of the model per item or an operator on
sets, so no proof by induction over data is needed.

## 6. Reading the properties

- `OkMeansApplied`, `RollbackOnce`, `UndoneFromEnd`, `RollbackRestores`,
  `OnlyEnableReplaces` and `RecoverClears` are run for requests served one at a
  time without torn lines: of two threads on one transaction, the code makes no
  such promise, and `tx_race` checks what remains. (`OkMeansApplied` is proved for
  any threads.)
- `RollbackRestores` leaves out the transactions in `impure`: those that found an
  operation already done, created a blank file, or ran while somebody else
  changed files.
- `UndoneFromEnd` says what a half-undone transaction looks like, not that anybody
  finishes it: after its first ROLLED_BACK it counts as rolled back, and neither
  recovery nor a repeated rollback comes for it.
- `OnlyEnableReplaces` does not say that the replacement is wanted. It says that no
  other operation, no conflict and no rollback of a rename loses content.
- `SlotsExact` counts a delivery in back-off among those that hold a slot, as the code
  has it, against its comment.
- `MiningExact` accounts for the events of a miner that raised as lost (`unmined`); it
  excludes that an event is mined twice, or falls between buffer and batch.
- `SendsBounded` counts attempts of all pools together; that no envelope is
  delivered twice *by the queue* is `HeldOnce` with `ImplementsAbstract`. A
  destination that answers late and is tried again may of course see it twice.
- `FailuresBounded` is what the breaker achieves: a half-open circuit admits every
  caller, so the bound grows by the number of callers with each probe, not by one. It is
  about what is reported: failures nobody reports (`unheard`) come on top, and an HTTP
  error through the bridge ends the outage as far as the breaker is concerned.
- `NodesBounded` is a bound per touch, for the code prunes by a counter of touches.
  `forgotten` grows with restarts and raising prunes; what the property says is that
  nothing else adds to the table and that the next prune, whoever makes it, ends it.
- `AppliedOnce` allows one more pass for every time the set of processed ids was
  emptied, and for every restart. It holds for batches that are too small to push
  their own keys out of the window: `process_events` looks up a whole batch
  before it records any of it.
- `SeenBounded` needs a maximum of at least 2: with 1 the quarter to evict is
  empty.
- `StaleHasCause`, `DanglingHasCause`, `ActiveHasActor`, `RunReachable`,
  `FileIsMemory` and `MoodAnnounced` have exceptions, each a history variable that
  an action sets exactly where the code loses something. They claim that no other step
  of the model loses it, and the list in each comment is what is still to be repaired.
  That the list is complete for the code holds as far as the model's steps are all
  there are: a thread that cannot be started, a database file that cannot be opened or
  a partial loss of the disk is not among them. The mutants show that the exceptions
  do not swallow the property.
- `ActedOnlyIfWasActive` is about some moment of the call, not its end: a module
  switched off while the calls to Home Assistant are made does not stop them. Nor does
  it say that both modules were active at the same moment: the code does not see to it.

## 7. Not modelled

- *Scores, decay, moods, neurons, mining, ML, energy and regional models*: floating
  point over data. Of a score only its row is kept, so the lost update of two
  touches is outside BrainGraph.
- *The descriptor inside `_append_record`*: module LogFileLock of the plan.
- *The alarm scheduler, the presence handler of the executor, `rollback()` of the
  operations*: nothing in the repository runs them.
- *Rule engine, notifications, proactive suggestions, limiter, brute-force
  protection, caches*: state behind one lock with windows by wall clock; what a
  model adds to reading them is little, and it is last in the plan.
- *The second candidate store and the older event storage*: the schemes of the
  stores that are modelled, the former off by default.
- *Statistics, logging, listing calls, payload building, signing*: they change
  nothing that another part reads.
- *Conversation, LLM, RAG, hub, device and channel integrations, start-up*: I/O and
  domain logic without a protocol between threads; of the conversation tools the
  breaker's gate is in CircuitBreaker. This is most of the code by lines: the
  models cover the parts where order and failure decide, not the bulk.
- *Clocks that step back*: the breaker's clock only goes forward.
