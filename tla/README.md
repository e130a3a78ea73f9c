# StreamForge: verification

StreamForge accepts events over HTTP, stores them in PostgreSQL, queues them in
Redis Streams, runs them in a pool of workers with retries, recovers stranded
events with a scheduler, and shows progress on a dashboard over websockets.
This directory holds TLA+ models of the backend and of the dashboard's
connection, the TLC configurations that check them, and TLAPS proofs about them. Paths below are relative
to `backend/internal/` unless they start with a directory of the repository.

## 1. Inventory

| Part | State it keeps | Operations | Talks to |
|---|---|---|---|
| Event model (`event/`) | none | transition table, validation | used by API, repository |
| Event repository (`store/postgres/event_repo.go`) | rows of `events` (status, attempt, worker_id) and `idempotency` | Create, UpdateStatus, AssignEvent, FinalizeEvent, RecordFailure, GetStaleEvents | PostgreSQL; one transaction per call, row lock |
| Queue (`queue/redis/queue.go`) | three streams, consumer group position, pending entries | InitConsumerGroups, Publish, Consume, Ack, Retry | Redis |
| API (`api/handler.go`) | nothing between requests | create, get, list, websocket upgrade | repository, queue, hub |
| Worker (`worker/worker.go`) | status, context, goroutines, job in hand, pending retries | Start, Stop, heartbeat, job loop, handleFailure | queue, repository, Redis key |
| Pool (`worker/pool.go`) | started/stopped flags, workers | Start, Stop | workers |
| Scheduler (`scheduler/scheduler.go`) | one sweep: rows read, liveness cache | runSweep, recoverEvents, updateMetrics | repository, queue, heartbeat keys |
| Hub and clients (`websocket/`) | client map, per-client channel | register, unregister, broadcast; read and write pump | Redis pub/sub, browsers |
| Notifications (`worker/broadcaster.go`) | none | fire-and-forget publish | Redis pub/sub |
| Back-off (`worker/backoff.go`), processors, config, metrics | none or constant | pure functions, gauges | |
| Unused repositories (`execution_repo.go`, `worker_repo.go`, `idempotency_repo.go`) | tables nobody writes | not called | |
| Dashboard (`frontend/src/hooks/useWebSocket.ts`) | socket, reconnection timer, workers shown; counters, recent events | connect, cleanup, socket events, message reducer | hub |

All processes share one database and one Redis. Every API process runs a
scheduler; every worker process runs a pool. Nothing else is shared, so the
hard behaviour lies between calls: publish and status change are never one
transaction, any call may take effect although its caller is told it failed,
and every actor may stop or die between two calls.

What makes each part correct:

- *pipeline*: a result is recorded once; attempts are counted once and bounded;
  an event is run by one worker at a time; a delivery is acknowledged only by
  its holder; nothing is queued that is not stored; answers to clients are
  true; no event is stuck; every step is a documented lifecycle transition;
- *queue*: a waiting high-priority entry goes first; the low stream is reached;
- *timing*: a live worker is never taken for dead, a dead one's event is
  requeued by the next sweep, a sweep never doubles a waiting retry;
- *worker*: one generation of goroutines at a time; STOPPED means nothing runs;
  the WaitGroup is never reused while waited on; Stop returns;
- *pool*: a stopped pool stays stopped; Stop returns;
- *hub*: gapless, ordered delivery to whoever stays; a channel is closed once
  and never sent to afterwards; slow or broken clients leave;
- *dashboard*: one connection or one reconnection to come, never two and never
  none; a name disappears only when a worker of that name is done.

`PROJECT.json` lists the hazards at their lines, with the properties that cover
each.

## 2. Modules

| Module | Models | Notes |
|---|---|---|
| `EventState` | `event/` | pure: statuses, `validTransitions`, `Validate` |
| `Infra` | answers of a call to PostgreSQL or Redis | external behaviour |
| `EventStore` | repository | one operator per call, one transaction = one step |
| `EventQueue` | queue | append-only streams, group position, pending entries |
| `StreamForge` | API handler, job loop, retries, scheduler, over the two above | the composition |
| `EventLifecycle` | what the platform promises of an event | abstract specification of `StreamForge` |
| `PriorityScan` | `Consume`, one command at a time, inside `StreamForge` | implements `StreamForge` |
| `Backoff` | `CalculateBackoff` | pure; the set of possible delays |
| `RecoveryTiming` | `StreamForge` with its clocks: heartbeats, TTLs, sweeps, ages of rows, delays | implements `StreamForge` |
| `WorkerLifecycle` | Start/Stop of one worker, status field, goroutines | |
| `WorkerPool` | Start/Stop of the pool | workers from outside |
| `Hub` | hub loop, Redis listener, both pumps, ServeWs | |
| `BroadcastFeed` | what the hub promises to each connection | abstract specification of `Hub` |
| `Dashboard` | the page's connection and the workers it shows | |
| `Presence` | `WorkerPool`, the goroutines that publish its notices, the other worker processes, and `Dashboard` | composition |
| `CallLemmas`, `*Proofs` | proofs | `CallLemmas`: what each call of the two stores may do |
| `MC*` | model values and small instances for TLC | |

### How the pipeline corresponds to the code

*One call, one step.* An operator of `EventStore` or `EventQueue` is a
repository or queue call; `res` is what the caller sees. `Infra!Outcomes` gives
the possible answers: the verdict of the transaction, or, when connections may
fail (`MayFault`) or the context is cancelled, an infrastructure error with or
without the effect. Each repository method locks its row, so its body is
atomic; `Retry` is two commands and hence two actions.

*Actors.* `api[e]` is where `HandleCreateEvent` is for the request that creates
`e`; `pc[w]`, `job[w]` are the job loop of worker `w`; `retries` are the retry
goroutines of `handleFailure`; `sweep`, `pending`, `recovering`, `deadWorkers`
are the local variables of `recoverEvents`. In `StreamForge` `Consume` leaves
open which non-empty stream it finds. `Crash` and `CrashScheduler` drop
everything the process held; `Stop` cancels the context, which the loop notices
at its next Consume and AssignEvent fails on, while processing and finalization
go on (`context.Background()`). The time-outs of a row (30 s, 5 min) are a free
choice of the rows a sweep finds; the heartbeat TTL is `Expire`, allowed for a
running worker only with `MayLapse`.

*Worker names.* `NewPool` names workers `worker-1`, `worker-2`, ...;
`AssignEvent` stores only what `uuid.Parse` accepts. `UUIDWorkers` is the set of
names it does accept: `{}` for the program as wired, all workers for the one
the documents have in mind.

*The scan.* `PriorityScan` adds `scan[w]`, the stream worker `w` asks next. A
step of `Consume` is one `XREADGROUP`: an empty stream moves the scan on
(`ReadEmpty`; after the last one the call sleeps and starts over), an entry ends
the call (`ReadJob`), an error does too (`LoseRead` when the entry was handed
out, `ReadFails` when not). `backlog[w]` is a history variable: what was there
when the scan read its first stream and has not been handed out since.

*The clocks.* `RecoveryTiming` adds the age of each row (`updated_at`), what is
left of each key's TTL, of each ticker and of each retry's delay. `Tick` lets
time pass when nobody has anything to do at once (`Busy`): a call is answered
within the tick it is made in, and what takes time is the processor, which may
take any. The delay comes from `Backoff`, in milliseconds, rounded to ticks both
ways.

*Left out of the pipeline*: notices about events, metrics, read-only handlers,
the payload.

### Worker, pool, hub, dashboard

`WorkerLifecycle` numbers the launches (generations), each with its own context,
loop, heartbeat and retries; callers hold `startMu` between explicit
actions, and the loop's writes of the status are actions of their own, because
they take only `statusMu`. A Go mutex is a guard `startMu = NULL`.
The process's own context may end at any time (`ParentCancelled`), as on
SIGTERM before `pool.Stop`. `WorkerPool` gives `Stop` one goroutine per worker.
In `Hub` an iteration of the loop is one action (it never blocks, and only the
loop touches the map, sends and closes); `WritePump` shares its channel with it,
so each receive and the `len(c.send)` are actions. A message is the number of
its broadcast. `BroadcastFeed` knows per client only whether it subscribed, is
subscribed and can be written to, what is on its way and what it has seen; under
`Hub!Feed` the frame under construction and the channel's buffer are one queue,
lost when WritePump has returned. A full buffer, an unregister and the end of the
loop are then all the same to the client: it is dropped with what it had.

`Dashboard` has one action per task of the browser: the effect and its cleanup
(`Mount`, `Remount`, `Unmount`), the timer (`Reconnect`), and each socket's
`onopen`, `onmessage`, `onclose`. The events of an old socket may arrive after
the component has a new one; `handled` is the set of sockets whose `onclose` is
still set. `Presence` puts the pool beside it: `Worker.Start` and `Worker.Stop`
launch a goroutine each (`notices`), which publishes in any order, reaches the
page or not, and dies with the process (`ProcessEnds`). A notice carries a name
and nothing of its process, and every process uses the same names
(`worker-1`, `worker-2`, ..., `pool.go:32`); `Peers` are the other worker
processes, replicas or earlier and later lives of the same one, each with `PeerCount`
workers (names this process does not have play no part). They are seen
from outside: a process starts a worker of each name once, stops it or not, and
ends (`PeerStep`), which is what `WorkerPool` allows of the process `This`. `from`
in a notice is the goroutine's process, needed only to end it with that process.
Redis and the hub between them only forward or lose a notice here; `Hub` shows
what the hub keeps of the order.

*Coarser than the code.* `WorkerLifecycle!BeginStop` reads the status once where
`worker.go:144` reads it twice: the loop may write READY or BUSY in between,
which passes both tests, and STOPPING or STOPPED are written by a Stop, of which
there is one at a time. `EventQueue!InitConsumerGroups` is one step where
`queue.go:36-46` creates three groups: a first start that dies between two of
them is left out, and so are messages published in between, which are skipped or
not depending on their stream.

## 3. Runs

| Run | Module, bounds | Checks | Shows |
|---|---|---|---|
| `Faults` | `StreamForge`; 1 valid event + 1 refused, 2 workers, 1 scheduler, 2 attempts, 3 messages; infrastructure faults, crashes, stops | `TypeOK`, `FinalizedOnce`, `AttemptBound`, `ExclusiveProcessing`, `ReceiptExclusive`, `NoDangling`, `PayloadNeverAhead`, `ResponseHonest`, `ImplementsLifecycle` | safety with everything that can go wrong |
| `Recovery` | `StreamForge`; 1 event, 2 workers, 1 scheduler, 4 messages; crashes and stops | `RetryRequeued`, `DuplicatesBounded` | retries survive their worker; sweeps do not multiply messages |
| `Timing` | `RecoveryTiming`; 1 event, 2 workers with UUID names of which one may die, 1 scheduler, 3 messages, one ping in a row may fail | `ClockTypeOK`, `ExclusiveProcessing`, `OwnerVisible`, `RecoveredInTime`, `SweepSparesRetries`, `ImplementsPipeline` | recovery takes from the dead only, and in time |
| `Priority` | `PriorityScan`; a high and a low event, 2 workers, faults | `ScanTypeOK`, `PriorityRespected`, `ImplementsPipeline` | the order of the scan |
| `Healthy` | `PriorityScan`; the same, no fault | `QueuedServed`, `ProcessingEnds` | progress, of the low event too |
| `Lifecycle` | 2 starters, 1 stopper, 3 launches, 1 retry | `TypeOK`, `OneGeneration`, `StoppedMeansDone`, `WaitGroupNotReused`, `StopReturns` | start/stop of a worker |
| `Presence` | 2 starters, 1 stopper, 2 workers, a second process with 1 worker, 2 sockets | `PresenceTypeOK`, `StaysStopped`, `OneConnection`, `NeverStranded`, `ShownUntilStopped`, `StopReturns` | start/stop of the pool, and what the page shows of two processes |
| `Hub` | 2 clients, capacity 1, 2 broadcasts, cancellable | `TypeOK`, `InOrderNoGaps`, `ClosedOnce`, `BatchNeverBlocks`, `DroppedClientLeaves`, `ShutdownEndsWriters`, `ImplementsFeed` | delivery and channel discipline, nothing after a drop; clients leave, shutdown releases writers |
| `LostEvent` | `StreamForge`; 1 event, no fault | `DiscardsOnlyDuplicates` violated | see below |
| `OrphanedEvent` | `StreamForge`; 1 event, crash | `OrphanRecovered` violated | see below |
| `SkippedMessages` | `StreamForge`; 1 event, no fault | `NothingSkipped` violated | see below |
| `GhostWorker` | `Presence`; 1 starter, 1 stopper, 2 workers, no second process | `DeadShownOffline` violated | see below |

*Why the bounds are enough to meet the hard cases.* Two workers are needed for
duplicates to be worked on at the same time; `MaxAttempts = 2`, where the program
has 3, gives one retry and one permanent failure, but no event that is RETRYING
twice, which the theorems have; three messages allow the first one, the
retry's, and one of a sweep's or an ambiguous repetition of either, and `Recovery` has room
for a fourth. `Priority` leaves the middle stream empty, so that a scan passes
it. One buffered message and two broadcasts overflow a lagging client; a second
client shows that the first one's loss is not its own. Two sockets are the one
an earlier mount left closing and the present one; a remount waits for a free
socket object. One worker of a second process is enough for a name to be used
twice, and it may start, stop or end before, during and after its namesake; a
second caller of Stop, which would only be refused, is left to the theorem. Each
stream is bounded by `MaxMessages`: a publication beyond it is not taken, which bounds the ambiguous retries only. `MaxStarts`,
`MaxRetries`, `MaxMissed` and the hub's `MaxMessages` cap counters in guards in
the same way.

*The periods in `Timing`.* A tick is 5 s. Interval 1, TTL 3, the retry's base
delay 1000 ms are the program's (5 s, 15 s, 1 s). The scheduler's period and the
age of PROCESSING rows (both 30 s) are 4 ticks and the age of RETRYING rows (5
min) is 5 ticks: what matters is kept, that the TTL is shorter than the age of a
PROCESSING row, that this age is the period, and that the retry's delay is
shorter than the age of a RETRYING row; `RetryBeforeSweep` is the proof of the
last for the real numbers. Only one worker may die, so that the other is there
to be handed the event; no worker stops, because a stopping worker's heartbeat
ends before its job (see below).

Symmetry (workers, schedulers) is used in runs without liveness whose constants
treat them alike. `CHECK_DEADLOCK FALSE` appears where the callers or
connections are finite in number and all may be finished.

*Fairness.* A handler, a loop and a retry goroutine that have begun go on
(`WF`), because a goroutine that can run is scheduled, calls are answered in
these runs, and delays end; in `Healthy` a turn of the loop may be one read of a
scan, and nothing is assumed of which stream has something. The scheduler ticks
for ever and finishes its sweeps (`WF`); a row that becomes stale again and
again is read again and again (`SF` on `Sweeps`), because the query returns
every old row of a status. No fairness is assumed of requests, starts, stops,
crashes, expiries or the choice of stream. In `Hub`, `WF` on the loop's cases:
its select picks at random among the ready ones and no case blocks; a write ends
within `writeWait`; reads and pings fail once the connection is closed. In
`Presence` the pool's goroutines go on while the process runs (`FairPresence`);
`FairPage` adds that a goroutine publishes and that the browser opens, closes
and reconnects. It never promises that a notice arrives. The bounds in time
of `Timing` are invariants over its clocks and need no fairness.

### What the code does against what it says

- `LostEvent`: the handler publishes before it marks the event QUEUED
  (`api/handler.go:82-89`); a worker that consumes in between gets a state
  conflict and acknowledges the event's only message "to discard duplicate"
  (`worker/worker.go:220`). The event then stays QUEUED for ever, against
  `handler.go:91`. The same window exists in Retry and in the sweep.
- `OrphanedEvent`: with the pool's names no row has an owner and the sweep
  passes it over (`scheduler.go:73`), so an event whose worker crashed is never
  requeued, against `FAILURE_HANDLING.md:14-15`.
- `SkippedMessages`: the group is created at `$` (`queue.go:38`): messages
  published before the first worker started are never delivered, against
  at-least-once delivery (`IDEMPOTENCY.md:8`).
- `GhostWorker`: `WORKER_OFFLINE` is sent by `Worker.Stop` only
  (`worker.go:159`). A crashed worker never sends it, the scheduler that sees its
  key expire does not either, `MarkOffline` is called by nothing, and even after
  a clean stop `main` may return before the notice is published
  (`cmd/worker/main.go:144`). The page shows the worker for ever, against
  `FAILURE_HANDLING.md:11-13` and `EVENT_LIFECYCLE.md:61`.

Differences noticed and not made into runs:

- `EVENT_LIFECYCLE.md:14` says the answer's status is QUEUED, the code answers
  RECEIVED (`handler.go:114`); it does so also when the row was never marked
  QUEUED (`handler.go:89-92`), against `FAILURE_HANDLING.md:22`.
- `STATE_MACHINE.md` lacks PROCESSING to QUEUED, which the table and
  `EVENT_LIFECYCLE.md:63` have; `EVENT_LIFECYCLE.md:28` has an `executions` row
  per attempt, which nothing writes.
- `STOPPING` is overwritten although `worker.go:280` says otherwise. Two
  overlapping calls of `Worker.Stop` and a `Start` can then lead to two job
  loops; `Pool` makes one call of each per worker, so the program cannot.
- A second `Pool.Stop` returns before the first is done, against
  `pool.go:60-61`; `NewPool` turns a count of 0 or less into 4.
- At a graceful stop the heartbeat ends with the context (`worker.go:177`) and
  the job goes on (`worker.go:234`), where `WORKER_POOL.md` lists the heartbeats'
  end after the jobs'. A job longer than the TTL and 30 s would be swept.
- Priority is not strict: a message published after the scan passed its stream
  is overtaken, a retry goes to the back of its stream, and a steady flow of
  high-priority events starves the others.
- For an attempt of 0 or less `CalculateBackoff` returns the base delay without
  the cap. `updated_at` is the database's clock and the cutoff the scheduler's.
- Every process names its workers `worker-1`, `worker-2`, ... (`pool.go:32`) and
  the page keeps a set of names (`useWebSocket.ts:122-136`). With several worker
  processes (`DEPLOYMENT.md:31`), or one that is replaced while its successor
  runs, the page counts two workers of a name as one, and when one stops the
  other disappears although it runs, where `IMPLEMENTATION.md:286` promises the
  "active workers". What does hold is `ShownUntilStopped`: a name goes only after
  a worker of that name has stopped.
- The page keeps its workers when the connection is lost, and learns nothing of
  those that came or went meanwhile.
- The job's attempt number comes from the message and may be behind the row's
  (`worker.go:295`).

## 4. Proofs

For every set of events, workers, worker processes, schedulers, clients, callers
and sockets, every bound, every buffer size, every period, every choice of
faults, and executions of any length:

| Module | Theorem | States |
|---|---|---|
| `StreamForgeProofs` | `TypeCorrect` | `Spec => []TypeOK` |
| | `FinalizedAtMostOnce` | `Spec => []FinalizedOnce` |
| | `AttemptsBounded` | `Spec => []AttemptBound` |
| | `Refinement` | `Spec => ImplementsLifecycle` |
| | `ProcessingExclusive` | `UUIDWorkers = {}` implies `Spec => []ExclusiveProcessing` |
| `DeliveryProofs` | `PersistedFirst` | `Spec => []NoDangling` |
| | `AttemptsCountedFirst` | `Spec => []PayloadNeverAhead` |
| | `DeliveryExclusive` | `Spec => []ReceiptExclusive` |
| | `AnswersHonest` | `Spec => []ResponseHonest` |
| | `MessagesBounded` | `Faultless` implies `Spec => []DuplicatesBounded` |
| `PriorityScanProofs` | `ScanTyped` | `ScanSpec => []ScanTypeOK` |
| | `ScanImplements` | `ScanSpec => ImplementsPipeline` |
| | `ScanRespectsPriority` | `ScanSpec => PriorityRespected` |
| `RecoveryTimingProofs` | `TimedImplements` | `TimedSpec => ImplementsPipeline` |
| | `ClocksTyped` | `TimedSpec => []ClockTypeOK` |
| | `OwnersVisible` | `PeriodsFit` implies `TimedSpec => []OwnerVisible` |
| | `TimedExclusive` | `PeriodsFit` and one scheduler imply `TimedSpec => []ExclusiveProcessing` |
| | `SweepsSpareRetries` | `DelaysFit` and one scheduler imply `TimedSpec => []SweepSparesRetries` |
| | `RecoveryInTime` | `MayFault = FALSE` and a scheduler imply `TimedSpec => []RecoveredInTime` |
| | `DelayCapped`, `DelayGrows`, `RetryBeforeSweep` | bounds on `CalculateBackoff` for every attempt and delay |
| `WorkerLifecycleProofs` | `WorkerTypeCorrect`, `SingleGeneration`, `StoppedIsDone`, `WaitGroupSafe` | with one caller of Stop, `Spec => []TypeOK`, `[]OneGeneration`, `[]StoppedMeansDone`, `[]WaitGroupNotReused` |
| `PresenceProofs` | `PresenceTyped` | `PresenceSpec => []PresenceTypeOK` |
| | `PoolStaysStopped` | `PresenceSpec => []StaysStopped` |
| | `PageHidesAfterStop` | `PresenceSpec => ShownUntilStopped`, for any number of processes |
| | `PageConnection` | `PresenceSpec => []OneConnection` |
| | `PageReconnects` | `PresenceSpec => []NeverStranded` |
| `HubProofs` | `HubTyped`, `ChannelsClosedOnce`, `ClientsSeeOrder`, `BatchesNeverBlock` | `Spec => []TypeOK`, `[]ClosedOnce`, `[]InOrderNoGaps`, `[]BatchNeverBlocks` |
| | `HubImplementsFeed` | `Spec => ImplementsFeed` |

Assumptions: the named `ASSUME`s of the modules (types of the constants,
`NULL` is no worker, row, job, caller or socket, `MaxAttempts` is positive), and
what the last column says, which is explained with each argument below.

*The pipeline.* `CallLemmas` states what each call may do to the tables and
streams, whatever its caller is told. `TypeCorrect` is
inductive as it stands because `TypeOK` ties a loop's job to its location and a
sweep's rows to its status. `FinalizedOnce` and `AttemptBound` are not
inductive alone: creating an event must meet a row that does not exist, which
needs `Fresh` (a request not begun or rejected has no row). `LifecycleInv` is `TypeOK`, `Fresh`
and the two; under it every step maps to a step of `EventLifecycle` or a stutter
(`RequestRefines`, `WorkerRefines`, `RetryRefines`, `SchedulerRefines`), and the
two invariants are then preserved by the abstract steps alone
(`LifecyclePreserves`). `ExclusiveProcessing` needs in addition that no sweep
resets a PROCESSING event: `NoOwner` says that no row, snapshot or reset has an
owner, which holds when no name is a UUID. With UUID names and lapsing
heartbeats the property is false, as the documents accept ("both workers may
have executed the operation", `IDEMPOTENCY.md:45`).

*Deliveries.* `KnownInv` says of every copy of an event (in a stream, with a
worker, with a retry, in a sweep) that the event has a row and that the row has
counted the copy's attempts; it is kept because rows are never deleted and
attempts never taken back (`Grows`), and because a copy is made from another
copy, from a row, or from a request whose row was created before (`Stored`).
`HeldInv` says that the group has passed every pending entry (`PelPassed`), so
that a delivery is a new one, and that the slot (queue and receipt) of every
holder is pending and apart from every other's; an Ack removes the slot of the
one that gives it up.

*How often an event is published.* The bound is not inductive: nothing in it
tells that a publication to come was paid for. `BudgetInv` puts into one account
the messages there are and those still to come (`Spent`): the request's, one for
each goroutine in its back-off, and one for each scheduler that has the RETRYING
event in its sweep or could still find it, unless it has published it and only
the reset is missing. Against it stands `Budget`: one, and for each failed
attempt one and one for each scheduler. A failed attempt adds as much to the
budget as it can cost (a goroutine and a sweep by each), a publication moves a
unit from what is to come to what there is, and everything else only lets
publications lapse. A sweep must hold no event twice (`OneRowEach`), and
requeue RETRYING events only (`NoOwner`, in `ExclusiveInv`). The
conditions, `Faultless`, are those under which the bound is true: a publication
whose reply was lost is repeated without a failed attempt, a scheduler that dies
between publishing and resetting leaves the event to be swept again, and a row
with an owner can be swept while PROCESSING. `UUIDWorkers = {}` and the absence
of owners are the program's; the other two are its good days.

*Its refinements.* A read of the scan or a step of the timed pipeline is a step
of `StreamForge` or leaves its variables alone, so `TypeCorrect`,
`FinalizedAtMostOnce`, `AttemptsBounded` and `Refinement` hold of both. For that
the clocks only need that a sweep under way takes one of the two statuses
(`DueOK`). Priority rests on what a scan knows: every stream of higher
priority than the one it asks next was seen empty of its backlog
(`PriorityScanProofs`), which other workers can only shorten.

*Heartbeats and sweeps.* `PeriodsFit`: no worker is told to stop, the TTL is
longer than the pings that may fail and one more, and a row is stale only after
those pings. `Silent(w)` is how long ago the worker last pinged, or one interval
before it was started. A worker that is up is `Informed` (its key has as much of
its TTL left as it was silent) or `Young` (it has not pinged yet, and what it
runs is no older than it is); as it is never silent for longer than
`(MaxMissed + 1) * Interval`, a row old enough to be swept has an informed owner
(`OwnerHasKey`). A sweep takes no time, so what `SweepPart` says of its rows when
they were read (nobody runs the event, or its owner has a key) lasts to the end
of the sweep: an owner found without a key runs nothing. A second scheduler
could reset the event after a worker has taken it up again, which is why there
is one. The program's periods (5 s, 15 s, 30 s) fit as long as one ping in a row
fails, not two.

*Retries and sweeps.* `AlarmOK` says of a RETRYING event that the age of its row
and what its goroutine still sleeps add up to less than the age of a stale row:
a failure stamps the row and sets the timer in one instant, `DelaysFit` says that
every timer is short enough, and from then on the one grows as the other
shrinks. A sweep of RETRYING events therefore finds no goroutine left for its
rows (`Stranded`), and none starts for them, since nobody runs an event before
it is requeued. A second scheduler could requeue one in between, and its next
failure would start a goroutine. `RetryBeforeSweep` gives at most 281.6 s for
the program's base delay and its first eight attempts, below the sweep's 300 s.

*How soon a sweep comes.* `RecoveredInTime` bounds `overdue[e]`, the time for
which `e` has been `Recoverable`: old enough for its status, and, if PROCESSING,
with an owner that is down and has no key. `RecoveryInv` says of every scheduler
and event (`InTime`) that the time waited and the time to the scheduler's next
tick add up to no more than its period, or that a sweep is under way that still
comes to the event (`Comes`): its status is the one being swept or to be swept
next, and, if the rows were read, it is among them with the owner it has and that
owner was not found alive. The sum is kept because the wait begins at zero and one clock falls as the
other rises; at the tick the sum is handed to the sweep, and a sweep takes no
time. A step of the sweep that passes the event over is refuted: its owner's key
was gone before the sweep and a dead worker sets none, and the cache of dead
workers is emptied with each status (`Forgets`). What other schedulers, workers
and requests do leaves the event Recoverable and its row as it is, or ends the
wait (`RecoverableStays`). Two schedulers need not be told apart, since each
keeps the bound alone. It needs that the calls of the sweep are answered
(`MayFault = FALSE`): a sweep whose query fails leaves its rows to the next one.

*Types of the scan and the clocks.* `ScanTyped` is what `WorkStep` and
`LifeStep` rely on: only the worker's own steps move it out of Consume, and each
of them starts the scan over (`StartsOver`). `ClocksTyped` goes through each
clock; the timers are those of the goroutines that wait, neither more nor fewer,
because a goroutine leaves its back-off by the timer, with its process or by
cancellation, and each of the three takes the timer with it.

*The worker.* `LifeInv`: one caller is in `startMu` (`Mutex`), the goroutines
belong to the launch the status was set by (`Numbered`), and between a Stop that
has waited and the next launch there are none (`Quiet`). It needs one caller of
Stop at a time, as `Pool.Stop`'s `stopped` flag gives (`pool.go:64`): a second
one, let in because the loop has overwritten STOPPING, may still be waiting, and
write STOPPED, when the next launch runs.

*The pool and the page.* `PoolInv`: a Stop that is let in finds `Start` out of
the mutex and hence all workers launched (`next = Count + 1`), so nothing starts
one afterwards. `HonestLeave`: a notice that a worker is OFFLINE exists only when
some process has stopped its worker of that name (`HasStopped`), which stays so
(`StoppedForGood`): neither a pool nor another process starts a worker again that
it has stopped. With a single process that worker is the one the page showed;
with several it may be its namesake. `PageInv`: the page has one connection or
one timer, and every other socket is closed, or closing without its `onclose`.

*The hub.* The loop alone sends and closes, which needs that a client in the map
has an open channel, that one outside was closed once, and that an `unregister`
waiting in a ReadPump is answered by a lookup. For the order, the messages a
client has written, has in hand and has buffered form one run of consecutive
broadcasts that ends with the last one while it is in the map (`Ordered`). The refinement (`StepFeeds`) has one lemma
for each kind of step the feed sees: `RegisterSubscribes`, `LeavingDrops`,
`BroadcastPublishes`, `FlushDelivers`, `EndDisconnects`; the others move a message
from the buffer to the frame (`MoveFirst`), which the feed does not see. It says
more than the order: a client that was dropped gets what was queued before and
nothing after, is never let in again, and no frame is written twice.

*Only model-checked*: the liveness properties `RetryRequeued`, `QueuedServed`,
`ProcessingEnds`, both `StopReturns`, `DroppedClientLeaves` and
`ShutdownEndsWriters`. They rest on fairness, and liveness under fairness and
ENABLED are beyond the proof system. Every other property of the passing runs is
the subject of a theorem above.

## 5. Not modelled

Read-only handlers, `updateMetrics`, configuration and wiring (gauges, parsing);
processors (dummies: any outcome is allowed); the three repositories no code
calls; the notices about events and what the page makes of them (counters, a
list, a throughput: each only accumulates messages); the load simulator. Clock
skew between database and scheduler, and calls that take longer than a tick of
`Timing`, are left out of the timed model; the untimed one has them.

## 6. Plan

Done: pipeline and lifecycle, worker, pool, hub; the scan, the clocks and the
back-off, the dashboard's connection and the notices about workers, with their
proofs. Left, in this order:

1. The notices about events: how often COMPLETED reaches a page, and in which
   order with PROCESSING.
2. Two schedulers and two events in one instance of the pipeline; events stuck
   in RECEIVED; workers that stop in `Timing`.
3. Theorems: what `MessagesBounded` becomes when rows have owners, and
   `SingleGeneration` with several callers of Stop that `Pool` cannot make.
