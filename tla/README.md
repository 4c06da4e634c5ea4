# Specifications of straja-agent

straja-agent is a personal-assistant gateway in TypeScript: messages come in from
chat channels, cron jobs, heartbeats and other agents; each becomes a run of an agent
in a session; the replies go out through the channels. One Node.js process does all of
this, so nothing runs in parallel, but every `await` lets everything else run. The
specifications here are about what can happen between two awaits, at a crash, and over
an in-process restart. Paths below are relative to `src/`.

## Inventory

| Component | State | Operations | What is hard | Module |
|---|---|---|---|---|
| Command lanes, `src/process/command-queue.ts` | lanes: queue, active ids, concurrency, generation | enqueue, complete, set concurrency, clear, reset all, wait for active tasks | late completions after a reset, changed limits, who pumps | `CommandQueue` |
| Agent runs, `src/agents/pi-embedded-runner/` | the registered run of each session | run in session lane inside global lane, register, abort | nested lanes, restarts under running work | `SessionRuns` |
| Restart loop, `src/cli/gateway-cli/run-loop.ts` | shutting down, pending promise | signals, drain, close, start again | work that outlasts the drain; signals at any time | `SessionRuns`, `GatewayRestart` |
| Followup queue, `src/auto-reply/reply/queue/`, `src/utils/queue-helpers.ts` | a queue object for each session, with a drain loop | enqueue with drop policy, drain, clear, change settings | the loop holds the queue across awaits | `FollowupQueue` |
| Outbound delivery, `src/infra/outbound/` and the vault patch | pending and failed entries on disk or in the vault | enqueue, ack, fail, move, recover | crashes, lost updates, retries | `DeliveryQueue` |
| Cron, `src/cron/service/` | job store in the vault and a copy of it, timer, running markers | tick, add, edit, remove, run now, start, reload | jobs run outside the lock; stale copies | `Cron` |
| Heartbeat wake, `src/infra/heartbeat-wake.ts` | pending wakes, handler, one timer, running flag | request, run, retry, replace and dispose of a handler | handler replaced during a run, cooldown against new requests | `HeartbeatWake` |
| Subagent registry, `src/agents/subagent-registry.ts`, `subagent-announce.ts` | run records, persisted; retry timers; resumed runs | register, end, announce, defer, steer, kill, sweep, restore | two reports of one end, deferral without a timer, crashes | `SubagentRegistry` |
| Channel manager, `src/gateway/server-channels.ts`, `channel-health-monitor.ts` | tasks, abort controllers, manual stops, attempts | start, stop, restart, reload, logout, health check | awaits between check and registration | `ChannelManager` |
| Announce queue, `src/agents/subagent-announce-queue.ts` | items for a busy requester | enqueue, drain | the helpers of the followup queue, another loop | |
| Restart authorization, `src/infra/restart.ts`, `src/gateway/server-reload-handlers.ts` | timer, cooldown, deferrals, tokens | schedule, defer, emit, authorize, consume | lost and doubled restarts | `GatewayRestart` |
| Reply dispatcher, `src/auto-reply/reply/reply-dispatcher.ts`, `dispatcher-registry.ts` | send chain, pending count, registry | enqueue, deliver, complete | who releases the reservation | `GatewayRestart` |
| Inbound debounce, `src/auto-reply/inbound-debounce.ts` | buffers and timers | enqueue, flush | flushes are not serialized | |
| Exec approvals, node registry, `src/gateway/` | pending requests, connections | request, decide, expire; register, unregister, invoke | timeout against answer, reconnect | |
| Process supervisor, `src/process/supervisor/` | active runs | spawn, cancel, cancel scope | cancel while spawning | |
| Session store, `src/config/sessions/store.ts` and its vault patch | sessions, cache, lock queue | load, update, save | cache against a failed save | |
| File locks, `src/infra/gateway-lock.ts`, `src/agents/session-write-lock.ts`, `src/plugin-sdk/file-lock.ts` | lock files | acquire, release, remove stale | several processes | |

How they interact: an inbound message reads whether its session has a registered run
(agent runs) and either asks for a run or joins the followup queue. A run is a task of
the session's lane that waits for a task of a global lane. When it has ended, its
caller drains the followup queue, which asks for runs itself. Cron jobs and heartbeats
ask for runs too; a heartbeat is answered "requests in flight" while the main lane is
busy and is woken again later. A run may spawn subagents, whose ends the registry
announces to the session that asked for them. Replies pass the dispatcher and
`deliverOutboundPayloads`, which writes the delivery queue. A restart waits for the
lanes, resets them, and starts anew: recovery of the delivery queue, cron, heartbeat
handler, channels.

What makes the modelled components correct:

* lanes: slots and queues are exact, work is never idle beside a free slot, order is
  kept, limits hold at every start, a waiter is told the truth;
* agent runs: one run for each session and generation, in order, no stale handle;
* followup queue: every message queued is answered once, in order and at its own
  place, or is refused, dropped or cleared by a rule the user has chosen;
* delivery queue: what was persisted is sent or kept, given up only after its retries,
  and leaves the queue in the end;
* cron: a due job is executed, once for each time it is due, and is not moved on
  without being executed;
* heartbeat wake: no request and no priority is lost, a cooldown is a minimum delay,
  what is pending reaches the handler;
* subagent registry: a result is reported as announced at most once, not after a kill
  or a steer, and a deferred announcement is taken up again;
* channel manager: one run for each account, none after a stop, and a channel that
  exited comes back;
* restarts: a restart that waits for idleness begins over no message, and every request
  brings a restart or meets one.

## Modules

| Module | Models |
|---|---|
| `LaneState` | one lane and the pure part of its operations; the proofs and two components use it |
| `LaneContract` | what callers of a lane may rely on: the life of a call, and slots within a limit |
| `CommandQueue` | all lanes, the calls with their promises, the waiter; implements `LaneContract` |
| `SessionRuns` | runs in nested lanes (composed from `LaneState`) with the restart loop |
| `FollowupQueue` | the queue of one session, its drain loops and the runs that feed them |
| `DeliveryQueue` | sends, store operations and recoveries over disk or vault |
| `Cron` | services in turn over one store: ticks, requests, starts, reload, crash |
| `HeartbeatWake` | the pending wakes, the timer, and calls of handlers of several lifecycles |
| `SubagentRegistry` | records in memory and on disk, announce flows, timers, steers, kills, sweeps |
| `ChannelManager` | one account of one of three kinds of plugin, with the health monitor |
| `GatewayRestart` | requests for a restart, the reply dispatchers they wait for, the run loop and its signals |
| `*_MC` and `.cfg` | instances for TLC |
| `*Proofs` | theorems, see below |

Atomicity follows the language: code between two awaits is one action. The definitions
of `GatewayRestart` and `Cron` that another component has too carry the name of theirs
(`RestartInit`, `CronSpec`, ...), because the proofs about both components extend both
modules.

### CommandQueue

`lanes` is the map of lanes. An entry of a queue, the id it gets when it starts and the
promise of its caller are one member of `Tasks`; `status` is where it is and `born` the
generation captured at its start. Every exported function is one action with the pump
at its end. `draining` is not a variable: it is true only inside one call of `pump`. A
lane not yet created is a lane in its initial state. `waiter` is the one caller of
`waitForActiveTasks`; a poll that finds nothing new changes nothing.

### SessionRuns

A run is pushed on its session lane, its session task on its global lane; attempts
register over each other. The synchronous chain from the start of a session task to the
start of its global task is one step: the session lanes are pumped, the runs they start
(`joins`, for each global lane) are pushed there, and those lanes are pumped
(`Proceed`). `gateway` is the restart loop: `RequestRestart` takes the snapshot,
`Drained` is the poll or the deadline (`Outlasts`), `ResetAllLanes` the next iteration,
which starts the waiting sessions in any order, because the order of the map of lanes
is that of their creation. This is the in-process restart, taken when a new process
cannot be spawned or is not wanted (`OPENCLAW_NO_RESPAWN`); a new process has no lanes
to reset.

### FollowupQueue

`queues` holds every queue object that was created and `current` says which one the map
has: `clearFollowupQueue` removes an object from the map while its loop may hold it.
`force` is `forceIndividualCollect`; `batch`, `summary` and `take` are the locals of the
loop across its await. The loop has one action for each await: debounce, run, return or
throw. `dropped` keeps the messages behind `droppedCount`. `ran` and `fate` are
history. `inbound` follows a message from the read of `isActive` (`get-reply-run.ts`)
over the await to its run or to the queue. `RunActive` is `ACTIVE_EMBEDDED_RUNS`; the
session lane is modelled by its effect, that runs of a session exclude each other.
`Foreign` runs are those of the agent command: they register but schedule no drain. A
debounce may elapse at any time. The text of prompts and deduplication are left out,
and so is the steer path.

### DeliveryQueue

Actors are sends and recoveries. `pending` maps an entry to its retry count. A store
operation is a load and a save, each a request or a file operation of its own. A vault
operation works on the document it loaded (`view`); a file operation on its own file. A
vault request may throw and have been carried out. `Outcomes` is what
`deliverOutboundPayloadsCore` can do: send everything or not, resolve or reject.
Recovery keeps the snapshot it loaded (`todo`) and the seconds it has used (`spent`).
Deliveries are numbered by `enqueuedAt`. The listing of the directory is one step, and
the one-time migration from disk to vault is left out.

### Cron

`disk` is the document in the vault, `mem` the copy of each service, `dirty` its
`storeDirty`: set when a save fails, and then the copy wins over the document at the
next load. What `locked()` encloses up to the execution of a job is one action; the
`lock` variable holds the executions that happen inside it (a run on request, the jobs
missed while the gateway was down), `tick` those outside. A tick is `TickFinds` (load,
find the due jobs, mark them, save), `TickExecutes` and `TickExecuted` or `TickTimesOut`
for each job in turn (the service hears no more of an execution that timed out, and so
does the model), `TickApplies` (load, apply the results, recompute, save). `Reload`
replaces the service while a tick of the old one goes on, or a start of it that waits
for the lock; `started` are the services whose start has returned or will not come any
more. `Crash` loses everything but the document. Requests are served once the start has
returned. A document that holds a one-shot job is normalized and saved at each load
(`store.ts:418`), so that a load can fail in the save too. A recurring job is due at
every instant, a one-shot job from its own on; the outcome of the last execution is kept
for one-shot jobs, the only ones for which the modelled code reads it. `claims` counts
for each instant how often a tick took the job for it.

### HeartbeatWake

`timer` is the time left with the kind and delay it was set with, so that no clock is
needed; `batches` are the callbacks of the timer that are calling a handler, one for
each registration that may hang. `covers` of a batch and `unserved` are history:
requests no answered call was made after. `cool` is the time left of the cooldown for
which the timer was set. A call of the handler ends answered, with "requests in
flight", or by a throw; the order of the wakes in a batch is left open.

### SubagentRegistry

Every function up to its first await is one action; `disk` is what `persistSubagentRuns`
wrote last. `flow` is the announce flow of a run: waiting ("busy"), past its await with
the descendants read ("clear"), or back with a result. `resumedRuns`, `timers` (one for
each attempt, as a later one does not cancel an earlier one) and `waits` are those of
the code. Time is two sets: `cooling` and `expired`. The end of a run is reported by
`LifecycleEnd` and `WaitReturns` or `WaitThrows`, in either order. A steer is a mark, an
interruption, and a replacement or its failure (`MarkForSteerRestart`,
`ReplaceAfterSteer`, `ClearSteerRestart`). A run is steered once at a time. `attempts`,
`told` and `strays` are history: flows begun, announcements reported as delivered, and
requests reported as failed that reached the requester all the same, because they were
carried out after their 15 s had passed or before a crash. "Delivered" is what
`deliverSubagentAnnouncement` reports, so it counts what was steered into a run or put
on the announce queue. Every run that is spawned has a session of its own
(`subagent-spawn.ts:148`), in which only the runs that replace it follow; the lane of
the session runs them one after the other, so an end is reported for the last of them
only when the others are over.

### ChannelManager

A run of the channel is a member of `Runs`, with its task and its controller; `store`
holds the two that the maps have. A run passes through "live", "sleeping" (the pause
before an automatic restart), "starting" (the restart is past the pause and waits for
`isConfigured`), "over" and back to unused. Every start is suspended between its check
for a task and its effects, as it awaits `isConfigured`: `starts` and the runs that are
"starting" have made the check and not yet the launch. `kind` is how the plugin behaves:
for a "slow" one `isConfigured` does I/O, and anything comes between; for a "plain" one
it does not, and only reactions to the same event come between (`Reacting` in `Next`); a
"hooked" one is plain but for its `stopAccount`, for which a stop waits first. The
monitor and the reload of a changed configuration stop an account and start it again;
`stops` says for each stop who called it, and a task that settles lets every caller that
waited for it go on (`StopsReturn`): all of them check before the first launches. A
`startAccount` that throws leaves a controller without a task (`Orphan`). `contended`
and `threw` are history.

### GatewayRestart

`handling` is what has become of a message: the phase of its run, its task in the lanes,
and the counter of its reply dispatcher with the replies not delivered (`chain`). `late`
are callbacks of a run that outlast it: a block reply that has timed out sends when its
audio is made. `timer` is `pendingRestartTimer`, `deferrals` the intervals of
`deferGatewayRestartUntilIdle`, of which the one of the configuration watcher is marked,
because `restartPending` belongs to a server and the intervals to the process. `Emit` is
the emission with the handler of the signal, which runs inside it: the authorization and
the token are set and consumed in one step, so neither is a variable. `closing` is how
far a shutdown is; `loop` is "starting" until `params.start()` returns, since a signal in
that time resolves the promise of the last iteration. `Closed` goes on in this process,
`Respawned` in another, `Exits` is a stop or the forced exit. The drain, which
`SessionRuns` has in detail, may end at any time here.

## Runs

Passing runs:

| Run | Shows | Bounds |
|---|---|---|
| `lanes` | `TypeOK`, `LanesAreExact`, `WorkConserving`, `DrainedMeansOver`, refinement of `LaneContract` (`ContractSpec`); `EventuallyServed` even if tasks interrupted by a reset never settle | 2 lanes, 2 + 1 calls, 2 resets, limits 0 and 2 (123,264 states) |
| `runs` | `TypeOK`, `OneRunPerGeneration`, `BeginInOrder`, `EveryRunEnds` | 4 runs, 2 sessions, 2 global lanes, 1 restart (50,513) |
| `restart` | `RestartTypeOK`, `IdleMeansIdle`, `RestartComes` | 1 message at a time, 2 replies and 2 late callbacks, 2 deferrals, delays 0 and 1, cooldown and maximum wait 1 (210,366) |
| `followup_refuse` | `TypeOK`, `NothingLost`, `RoutesNotMixed`, `DrainServes`, with `new` as drop policy, the mode toggled and runs that throw | 4 messages from 2 places, cap 3, 2 failing runs (60,159) |
| `followup_settings` | `RunOnce`, `ServedInTurn`, with three settings that differ in mode, cap and policy | 4 messages, one unroutable, 1 failing run, 1 clear (278,361) |
| `delivery_disk` | `TypeOK`, `NothingLost`, over files | 2 deliveries, 1 recovery at a time, 1 crash, 1 failing operation (1,244,003 states) |
| `delivery_vault` | `GivesUpAfterRetries`, `EntriesLeave`, over the document | 1 bestEffort delivery, 2 recoveries, 1 crash, 1 failing request, limit of 3 retries (213,248) |
| `subagents` | `TypeOK`, `AnnouncedOnce`, `SilencedIsSilent`, `ClaimHasFlow`, `DeferredAreServed` | a run, one it asks for, the successor of that one; 1 crash, limit of 2 retries (577,230) |
| `cron` | `CronTypeOK`, `DueOnce`, `TicksSkipNothing`, `DueIsServed` | a recurring and a one-shot job, 3 instants, 3 services, 2 of edits, reloads, crashes and faults together (216,510) |
| `heartbeat` | `TypeOK`, `NothingLost`, `CooldownKept`, `WakeHandedOver` | 2 targets, 2 priorities, 2 requests, 2 registrations (424,353) |
| `channels` | `TypeOK`, `OneRunPerAccount`, `StoppedStaysStopped`, `Recovers` | 1 account of each kind, 2 automatic restarts, 4 requests and checks (267,851) |

Bounds that matter. Lanes: two generations after the first one give a stale task of each
kind, because the code compares generations only for equality; two lanes are enough for
a reset that restarts both. Runs: a session has two runs in one global lane, to be kept
in order, and one in another, to be kept apart by the session lane alone; one restart
gives runs of two generations, and two restarts were run by hand for the safety
properties (276,923 states). Restart: the dispatchers of messages do not meet, a message
is handled again and again, and two deferrals are one of the watcher and one of a timer,
or of two servers. Followup: four
messages are enough for one run, a batch of two and an arrival during it. Delivery:
backoffs and budget are those of the code. Before its third retry an entry would wait
120 s, which never fits the budget of 60 s. `MaxRetries` is 3 in `delivery_vault`, the
least limit at which that happens below it, and at which counts still reach the limit,
by failures that coincide. With the 5 of the code the run was done by hand (315,273
states), and with 2 deliveries and one recovery (2,050,000); both pass. Subagents: a
parent, a child and a successor are the
shortest chain in which an announcement is deferred, retried by another run, and cut by
a steer. Cron: with three instants a job becomes due while a tick or a start executes
others, and untaken when that ends and recomputes, and a job is due again while its own
execution goes on; two events let an edit meet a reload or a fault a crash;
`STUCK_RUN_TIME` is 0, so that a marker older than it is cleared at time 2 under a
running execution (`DueOnce` allows a second taking after that only by its antecedent,
where two services are left). With errors besides retries the safety properties were run
by hand (229,319 states). Heartbeat: the delays are 1 and 2,
which is all `Schedule` compares; two registrations give a handler that is replaced
during a call and disposed of late. Channels: four requests are a start, a stop or
a reload, another start and a check of the monitor, or an edit of the configuration,
with exits and lost connections free.

One run fails, on a statement in a comment of the code:

| Run | Property | What happens |
|---|---|---|
| `cron_skipped` | `NothingSkipped` | `timer.ts:347` says that the full `recomputeNextRuns` would skip due jobs and is therefore not called by the tick; `start` (`ops.ts:50`), `add` (`ops.ts:97`) and a run on request (`ops.ts:210`) call it, and skip what has become due and is not taken yet. The trace is a start during which a job becomes due |

`TicksSkipNothing` is what remains true: a tick, a read, a removal or an edit of another
job skips nothing. Its mutant is the full recompute at the end of a tick.

Deadlock checking is off for `DeliveryQueue`, `SessionRuns`, `SubagentRegistry`,
`HeartbeatWake`, `ChannelManager` and `GatewayRestart`: when every send or run has
ended, or the bounded requests are used up, or the process has exited, nothing is left
to do. It is on for `CommandQueue`, `FollowupQueue` and `Cron`, where something can
always go on: a lane is resized, a run of the agent command starts or ends, the store
is read.

### What the models show besides

The passing runs avoid some situations by their constants or by an antecedent of the
property, never by a guard, because the code behaves there as follows.

* Followup queue: the head of the queue is shifted after the await of another item's or
  of a summary's run, so that an overflow meanwhile loses a message
  (`queue-helpers.ts:141`, `drain.ts:114`); drops during the run of a summary are wiped
  with it (`drain.ts:103`); a drain loop that ends after a clear deletes the queue
  object that replaced its own (`drain.ts:139`); a message that saw an active run is
  queued behind it after it has ended and scheduled its drain (`get-reply-run.ts:391`).
* Delivery queue: a send that fails while a recovery fails on the same entry raises its
  count past the limit, once on disk (`TypeOK` allows for `MaxRetries + 1`) and as often
  as recoveries overlap otherwise; the backoff of 120 s before a third retry never fits a
  recovery budget of 60 s, so an entry that has failed twice and is not at the limit is
  neither retried nor given up (`delivery-queue.ts:382`), and as the loop ends there,
  the younger entries behind it wait too (`OutOfBudget` in `EntriesLeave`); two
  read-modify-write cycles of the vault document lose an entry
  (`delivery-queue.ts:129`), as does a crash between the two saves of a move; a recovery
  acknowledges a bestEffort delivery that failed, as it passes no `onError`; a recovery
  sends what a live send is sending.
* Agent runs: after a reset the next run of a session starts beside the last one
  (`command-queue.ts:211`; `docs/concepts/queue.md:83` says one at a time).
* Cron: a start moves on what became due while it executed missed jobs, as do adding a
  job and a run on request (`cron_skipped`); `stop()` during a tick or a start, or while
  a start waits for the lock, leaves a scheduler that arms its timer again; after a
  reload, an edit on the stale copy of one service overwrites the marks of the other,
  and an instant is taken twice (the antecedent of `DueOnce`), as it also is when after
  a reload a read clears a marker of more than two hours in the copy of the present
  service while the tick of the old one goes on; a reload during a one-shot job clears
  its marker, and it runs again; a marker that is cleared after two hours, a timeout, or
  disabling and enabling let executions overlap; a job that waits its turn in a tick
  runs although it was removed or disabled meanwhile; runs on request and missed runs
  execute without a marker in the document; a job that is skipped, or whose marker was
  left, meets `DueIsServed` without having run. A start that fails on a locked vault is
  tried again by `server-cron.ts`, which is a stutter of the model, unless the service
  was stopped meanwhile (`Reload`).
* Heartbeat: if a timer of another kind was set before the busy answer came, the
  cooldown is that timer's (`schedule` keeps the earlier one); the `finally` of an
  interrupted run resets `running`, so that the new handler may be called concurrently;
  a throw queues the answered wakes of its batch again; a target that always throws
  starves the others of its batch.
* Subagents: a request that is not answered within 15 s is taken as failed but may be
  carried out later (`subagent-announce.ts:697`, `:785`). A completion message is then
  steered or queued again at once (`:849`), and else the registry retries, so that the
  requester may get a result more than once; `AnnouncedOnce` bounds this by the attempts
  and one. Some of the copies are suppressed by the gateway, which remembers the
  idempotency keys of requests for 5 minutes and until a crash; this is not modelled, so
  the bound is not claimed to be tight. A second steer of a run may begin on a record
  that is marked by a first (`subagent-registry.ts:413`), and its failure clears the
  mark under the first; `/steer` has no limit, the tool one of 2 s, and the model has
  one steer of a run at a time. A run that expects a completion message has a cooldown
  during which another run's `retryDeferredCompletedAnnounces` resumes it in vain and
  cancels the retry; a descendant that is killed or swept never takes its deferred
  parent up again (`Lost`); the label of a deferred run is patched before its cleanup is
  finished (`subagent-announce.ts:1241`), and if the last run it waits for settles
  during that await, `retryDeferredCompletedAnnounces` skips it as claimed and nothing
  takes it up later; a run without `expectsCompletionMessage` whose delivery fails has
  no timer and waits for another run to settle, which there may be none of (these two
  are the antecedent of `DeferredAreServed` on `Labelled` and `DeliveryFails`; `spawn`
  asks for a completion message of every run today, so both take a record without that
  flag); a failed delivery with `cleanup: "delete"` still deletes the child session; a
  crash leaves a run marked for a steer that is no longer under way; the sweeper removes
  runs that have not ended.
* Channels: a monitor and a reload that stop the same account wait for the same task,
  and when it settles both pass the check for a task (`server-channels.ts:139`) before
  either has launched (`:178`), as `isConfigured` is awaited between (`:159`): two runs
  come up, also of a plain account, of which the first is no longer in the store and
  survives a stop (the antecedent `contended` of `OneRunPerAccount` and
  `StoppedStaysStopped`). If `startAccount` throws in an automatic restart, the account
  is reported as running without a task, and no crash comes that would start it again
  (`:250` says "next crash will retry"; the antecedent `threw` of `Recovers`).
  Accounts of the "slow" kind can start twice, or start after a stop; a stop
  of the "hooked" kind removes the task of a newer run; a stop after the restarts were
  used up returns without a mark, so that the monitor starts the account again; the
  monitor's own stop and start lift a stop of the operator that comes between; a start
  during the pause is a no-op, while the monitor resets the attempts.
* Restarts: of two replies under way after `markComplete` the first to be delivered
  gives back a reservation that is gone already, so that the counter is one too low for
  the other (`RestartTypeOK` bounds this); requests are not all coalesced. A timer that
  fires into pending work starts a deferral, and the next request another one; each
  emits, and so does a configuration change, with no regard to the cooldown, so that one
  restart may follow another at once (`docs/gateway/configuration.md:393` says that
  requests are coalesced and a cooldown applies). A signal during a shutdown is ignored,
  SIGTERM during a restart too; one during a start stops nothing and restarts nothing,
  as it resolves the promise of the last iteration. A reply that is sent after
  `markComplete` finds the counter without its reservation, so that idle is reported
  before it is delivered and again later, and no restart waits for it.

## Fairness

* `CommandQueue`: timers fire. `EventuallyServed` needs also that each task of the
  present generation settles, as agent runs have a timeout, and nothing of tasks
  interrupted by a reset, of which `command-queue.ts` says that they may never settle.
* `SessionRuns`: attempts end; a run does not start attempts for ever (strong fairness
  of its end, written out because `ENABLED` of that action is slow to evaluate).
* `GatewayRestart`: timers fire, a start returns, the drain has a deadline, and a close
  that hangs is cut by the forced exit. Runs and deliveries may hang for ever.
* `FollowupQueue`: timers fire and runs end (weak); the begin of a followup run is
  strongly fair because the session lane, which is first in first out, gives it a turn
  although other runs come and go.
* `DeliveryQueue`: operations and sends end, as each has a timeout; the gateway is
  started again while entries remain, as recovery runs at a start only. `EntriesLeave`
  therefore reads "after enough starts".
* `Cron`: timers fire, a service that was created starts, executions end or time out,
  and who waits for the lock gets it (`locked` is a promise chain). Nothing is assumed
  of requests, nor of executions that go on after their timeout.
* `HeartbeatWake`: timers fire and the calls of the present handler end. Calls of an
  earlier handler may hang for ever: `WakeHandedOver` says they block nobody.
* `ChannelManager`: pauses end, `isConfigured` and `stopAccount` answer, a run that was
  aborted exits, the monitor goes on with what it began. A run need not exit by itself.
* `SubagentRegistry` has no fairness: that a deferred run is served is stated as an
  invariant of the states in which nothing is under way any more (`Quiet`).

## What is proved

By TLAPS, for every value of the constants that satisfies the named assumptions:

* `LaneStateProofs`: lemmas on the operators of a lane. `Pump` starts exactly
  `StartCount` entries, keeps the rest, keeps queues free of duplicates, never
  leaves a free slot beside a queue, and the cardinality of the active set grows by what
  was started.
* `CommandQueueProofs`: `TypeCorrect`, `LanesExact`, `LanesConserveWork`,
  `StartsAreBounded`. The invariant `IInv` is `TypeOK`, and for
  each lane that its record agrees with the statuses of the calls (`LaneAgrees`) and
  that its slots are taken while it has a queue (`Busy`). None of the parts is inductive
  alone: that a push keeps the queue free of duplicates needs that a new call is not in
  a queue; that a pump counts slots rightly needs that the entries it starts are not
  active; both come from `LaneAgrees`. `Busy` is kept because every action that frees a
  slot or pushes ends with a pump. The last part of the module has `WaiterTellsTruth`,
  `LanesImplementContract` and `QueuesAreFifo`. `DrainedMeansOver` is strengthened by
  what a waiter that is not answered yet has seen (`WaitInv`). For the refinement each
  action is shown to move the calls along the life the contract gives them (`Life`) and
  the generations only forward (`Ages`); then a step of the lanes is a step of the
  contract or leaves it unchanged. For the order, every action is shown to drop entries
  of a queue at its front and add them at its end (`Later`).
* `FollowupQueueProofs`: `TypeCorrect`, `OnlyOnce`, `OneRoute`, `AnsweredInTurn`, and
  `RefusedOrAnswered` under an assumption. The invariant has two layers. Each queue
  object is whole on its own (`QueueOk`): what its loop has in hand is still at the front
  of the queue, although enqueueing may drop from that front while a run is awaited.
  And the objects hold different messages (`Objected`), none of which has run (`Fresh`):
  a clear leaves its object to a loop that goes on, so two loops may be at work. That
  nothing is lost (`NotLost`) is proved where the policy refuses new messages and no
  queue is cleared; the other policies drop messages on purpose, and there it is not
  claimed.
* `SessionRunsProofs`: `TypeCorrect`, `OneRunEachGeneration`, `BeginsInOrder`, for any
  number of runs and restarts, where the run has one restart. The invariant gives for
  each lane which runs it holds, as a function of their phases and generations: a
  session lane is occupied by exactly the runs past it that are of its generation, and
  no two runs past it are of one generation; the slots of a global lane are runs under
  way of its generation. It is stated for any record of a lane and any phases, as
  `Proceed` pumps two lanes in one step: `Ready` is what holds between the pumps. A
  reset keeps it because no run is of the new generation yet. For the order,
  `OrderAgrees`: the queues hold the runs of a session in the order they were asked for;
  while a run waits in its session lane so do those after it, and while it waits in its
  global lane none after it has begun there. `StartsInOrder` and `ProceedInOrder` carry
  it over the pump of a session lane and of a global lane: one run of a session joins a
  global lane at a time, even when a reset starts all session lanes in any order.
* `DeliveryQueueProofs`: `NoDeliveryLostOnDisk`, assuming the disk and no bestEffort.
  The invariant adds to `NothingLost` that an actor about to acknowledge or to move an
  entry has a reason that `NothingLost` accepts (`Acknowledged`), and the shape of the
  actors. `GivenUpAfterRetries` holds on disk and in the vault, where saves overwrite
  each other: a count is raised only by an actor whose send has ended, from what that
  actor has read, so the sends there were cover, for each copy of the queue that
  somebody still holds, its counts and in addition the actors that may yet raise one
  (`CountInv`). Both hold for any number of deliveries, recoveries, crashes and faults.
  `DeliveryTypes` has the bound on the counts, on disk and while recoveries do not
  overlap: of the send and the recovery that may both raise the count of an entry, at
  most one has read it at the limit (`BoundInv`).
* `TimerProofs`, heartbeat: `TypeCorrect`, `NoRequestLost`, `CooldownHeld`. Beside
  `NothingLost` the invariant says that the requests a call covers are those of the
  target it is at (`CoversAt`), else an answer could take a request of another
  target with it. For the cooldown, `CoolHeld`: while a target cools down, the timer is
  a retry with at least that time left, which no other request replaces.
* `TimerProofs`, cron: `CronTypes`, `TakenOnce`, `SkipsNothing`, for any jobs, instants
  and number of events. `Order` says that a service that has not started does nothing
  and that no instant is taken before it comes. That a recurring job is taken once for
  each instant rests on one of two invariants, by the antecedent of `DueOnce`. Without a
  reload, `OneService`: the services before the present one are over, only the present
  one acts, its copy agrees with the document unless a save has failed, and outside its
  tick it never holds a job at an instant already taken. With reloads but no edit, fault
  or old marker, `OneDocument`: no copy is dirty, what maintenance does to a record is
  the identity, and a job that was taken has its marker in the document, where every
  other service finds it, except the one whose start holds the lock (`Beginning`) and has
  cleared the markers in its copy. `SkipsNothing` rests on the same two: a tick or a read
  finds the next run of a job as the document has it, and neither maintenance nor marks
  nor the results of others change that of a job that is due (`NextKept`).
* `SubagentRegistryProofs`: `TypeCorrect`, `AnnouncedAtMostOnce`, `SilencedStaySilent`,
  `ClaimsHaveFlows`, `DeferredServed`. The invariant of the first four is stated for each
  run on the record on disk, which every action writes last, and on the copy in memory:
  attempts made fit the retry count, a flow is claimed, a run silenced has had none, a
  successor is blank before its steer, and a request that strayed belongs to an attempt
  whose flow is over, unless the announcement was then steered or queued, which happens
  once. `SuccessorAssumption` says what a steer does: it
  gives its run an id of its own. That deferred runs are served is about several runs at
  once and needs three more parts. `Story` is the history of a run. `Whole`, while the
  gateway has not crashed, says where each record is: held back exactly while it is
  steered, absent only if it was replaced, swept or announced, and one for each session
  (`OneHead`). `Waited` says that if some run is stalled, which ended and waits without a
  flow or a timer, then some run is open: it will settle (`Active`), or was lost without
  settling (`Missing`). A deferral keeps it because what defers a run, its own session or
  a descendant that has not ended, is open; a settlement keeps it because it takes up
  every stalled run (`SettleServed`). When nothing is under way an open run is a lost one.
* `GatewayProofs`, channels: `OneRun`, `StopsLast`, for plain accounts whose task has not
  been waited for by monitor and reload together: the run that is alive or pausing is the
  one in the store (`InStore`); a start between its check and its launch is the only one,
  and the store is empty (`StartsAlone`), because until it launches only reactions to the
  same event come; every stop under way waits for the run in the store, which has been
  aborted (`StopsWait`); and the last stop is under way or nothing is left to stop
  (`StopHolds`). Nothing of this holds for the other kinds, nor after a double start.
  `ChannelTypes` is about accounts of every kind, double starts included: the runs,
  starts and stops under way, and the starts that the monitor and the reload still owe
  (`Promised`), are paid for by the requests made (`RunBudget`, `StopBudget`), so that a
  free one is always left, and past the limit of restarts every further attempt takes a
  run away (`AttemptBudget`).
* `GatewayProofs`, restarts: `RestartTypes`, `IdleIsIdle`. A dispatcher holds its
  reservation and one count for each reply not delivered as long as it is registered, as
  it is while its message runs; so the gateway is not idle over one. After that a count
  too many is taken off only by two callbacks that came late, or by one and the pending
  microtask (`LateCounts`).

Assumptions: those of the `ASSUME`s in the modules, which TLC evaluates on its
instances. `Tasks` need not be finite: that the sets whose cardinality is taken are
finite is part of the invariant. `Msgs` of the followup queue is assumed finite.
`StartsAreBounded` and `QueuesAreFifo` state properties that no run checks any more, as
the contract and the theorems cover them; TLC agreed with both on instances with three
calls in one lane.

Only model-checked: the liveness properties `EventuallyServed`, `EveryRunEnds`,
`RestartComes`, `DrainServes`, `EntriesLeave`, `DueIsServed`, `WakeHandedOver` and
`Recovers`, which need fairness and `ENABLED` and are out of the prover's reach. Every
other property of a passing run has a theorem.

## Not modelled

The repository has close to half a million lines of implementation; the components with
a module are the part of it in which steps of several actors meet on shared state. Most
of the rest, channel adapters, model providers, tools, prompts, memory search, browser,
media, apps, the command line and the wizard, is I/O or presentation around these
components: its behaviour is that of external services, and a model of it would be a
list of nondeterministic answers, which the modules have already where such an answer
matters. So the modules cover a small share of the lines.

The stateful components of the inventory without a module are planned below; the
hazards they have are listed with them. Of the modelled components, these parts are left
out: deduplication and steering of followup messages, interrupt mode across the followup
queue and the lanes, nested runs that wait for other runs, schedule expressions and
error counts of cron, the fallback to a grandparent session when a subagent is
announced, and the cooldown and hourly limit of the health monitor, which only make it
act less often.

## Plan

1. `AnnounceQueue` on the helpers of the followup queue, with the spinning of an empty
   queue that has counted drops.
2. `GatewayRestart` composed with `SessionRuns`.
3. `InboundDebounce`.
4. `NodeRegistry`, `Supervisor`.
5. `SessionStore` with the vault, `FileLock` with several processes.
6. Nested runs that send to sessions, as an extension of `SessionRuns`.
7. Proofs: an abstract specification of the delivery queue and of the registry, and that
   they implement it.
