----------------------------- MODULE StreamForge -----------------------------
(***************************************************************************)
(* The event pipeline: the API handler that ingests an event, the workers  *)
(* that consume, process, finalize or retry it, and the scheduler that     *)
(* requeues stranded events, over the shared event table and the shared    *)
(* queue.  Every call to PostgreSQL or Redis is one step; between two      *)
(* steps of one actor any other actor may move, crash or be stopped.       *)
(*                                                                         *)
(* Left out: the websocket notifications and the metrics (written, never   *)
(* read by the pipeline) and the worker's Status field.                    *)
(***************************************************************************)
EXTENDS EventStore, EventQueue, FiniteSets

CONSTANTS
  Schedulers,   \* one scheduler runs in every API process
  CrashProne,   \* workers, schedulers and requests whose process may die
  Stoppable,    \* workers that may receive a shutdown signal
  MayLapse      \* a running worker's heartbeat key may expire

ASSUME PipelineAssumption ==
  /\ Stoppable \subseteq Workers
  /\ MayLapse \in BOOLEAN
  /\ NULL \notin Rows
  /\ NULL \notin Jobs

VARIABLES
  api,          \* progress of HandleCreateEvent for each event
  pc,           \* where each worker's job loop is
  job,          \* the job the loop holds, NULL between jobs
  cancelled,    \* workers whose context is cancelled
  retries,      \* retry goroutines: [worker, job, step]
  heartbeat,    \* workers whose heartbeat key exists in Redis
  sweep,        \* the status each scheduler is recovering, or "IDLE"
  pending,      \* stale rows the running sweep has not dealt with yet
  recovering,   \* row republished, its status not reset yet; NULL otherwise
  deadWorkers   \* liveness answers cached during one sweep

apiVars       == api
workerVars    == <<pc, job, cancelled, retries>>
schedulerVars == <<sweep, pending, recovering, deadWorkers>>
vars == <<storeVars, queueVars, apiVars, workerVars, heartbeat, schedulerVars>>

Progress  == {"idle", "created", "published", "202", "400", "500", "aborted"}
Locations == {"down", "exited", "consume", "assign", "discard", "process", "finalize",
              "fail", "ack"}
Retries   == [worker : Workers, job : Jobs, step : {"backoff", "ack", "update"}]
Liveness  == {"unchecked", "alive", "dead"}
Unchecked == [w \in Workers |-> "unchecked"]

ActorTypeOK ==
  /\ api \in [EventIds -> Progress]
  /\ pc \in [Workers -> Locations]
  /\ job \in [Workers -> Jobs \cup {NULL}]
  /\ \A w \in Workers : job[w] = NULL <=> pc[w] \in {"down", "exited", "consume"}
  /\ cancelled \subseteq Workers
  /\ retries \subseteq Retries
  /\ heartbeat \subseteq Workers

SweepTypeOK ==
  /\ sweep \in [Schedulers -> {"IDLE", "PROCESSING", "RETRYING"}]
  /\ pending \in [Schedulers -> SUBSET Rows]
  /\ recovering \in [Schedulers -> Rows \cup {NULL}]
  /\ deadWorkers \in [Schedulers -> [Workers -> Liveness]]
  /\ \A s \in Schedulers :
       /\ sweep[s] = "IDLE" <=> pending[s] = {}
       /\ recovering[s] # NULL => recovering[s] \in pending[s]

\* Every variable holds values of its kind; a job loop has a job exactly
\* between Consume and the end of its iteration; a sweep runs exactly as long
\* as it has rows left, and resets the owner of one of them.
TypeOK == StoreTypeOK /\ QueueTypeOK /\ ActorTypeOK /\ SweepTypeOK

Init ==
  /\ StoreInit
  /\ QueueInit
  /\ api = [e \in EventIds |-> "idle"]
  /\ pc = [w \in Workers |-> "down"]
  /\ job = [w \in Workers |-> NULL]
  /\ cancelled = {}
  /\ retries = {}
  /\ heartbeat = {}
  /\ sweep = [s \in Schedulers |-> "IDLE"]
  /\ pending = [s \in Schedulers |-> {}]
  /\ recovering = [s \in Schedulers |-> NULL]
  /\ deadWorkers = [s \in Schedulers |-> Unchecked]

-----------------------------------------------------------------------------
(* HandleCreateEvent: decode, validate, create, publish, mark queued.      *)

\* Malformed or invalid request: 400, nothing stored.
RejectRequest(e) ==
  /\ api[e] = "idle"
  /\ ~(Request[e].decodes /\ Validate(Request[e]))
  /\ api' = [api EXCEPT ![e] = "400"]
  /\ UNCHANGED <<storeVars, queueVars, workerVars, heartbeat, schedulerVars>>

\* Mutation: no return after a failed Create.
CreateEvent_IgnoresError(e) ==
  /\ api[e] = "idle"
  /\ Request[e].decodes /\ Validate(Request[e])
  /\ \E res \in Results : Create(e, res)
  /\ api' = [api EXCEPT ![e] = "created"]
  /\ UNCHANGED <<queueVars, workerVars, heartbeat, schedulerVars>>

\* The event is persisted before it is published.
CreateEvent(e) ==
  /\ api[e] = "idle"
  /\ Request[e].decodes /\ Validate(Request[e])
  /\ \E res \in Results :
       /\ Create(e, res)
       /\ api' = [api EXCEPT ![e] = IF res = "ok" THEN "created" ELSE "500"]
  /\ UNCHANGED <<queueVars, workerVars, heartbeat, schedulerVars>>

\* Mutation: no return after a failed Publish.
PublishEvent_IgnoresError(e) ==
  /\ api[e] = "created"
  /\ \E res \in Results : Publish(e, 0, res)
  /\ api' = [api EXCEPT ![e] = "published"]
  /\ UNCHANGED <<storeVars, workerVars, heartbeat, schedulerVars>>

PublishEvent(e) ==
  /\ api[e] = "created"
  /\ \E res \in Results :
       /\ Publish(e, 0, res)
       /\ api' = [api EXCEPT ![e] = IF res = "ok" THEN "published" ELSE "500"]
  /\ UNCHANGED <<storeVars, workerVars, heartbeat, schedulerVars>>

\* RECEIVED -> QUEUED; a failure is logged and the client still gets 202.
MarkQueued(e) ==
  /\ api[e] = "published"
  /\ \E res \in Results : UpdateStatus(e, "RECEIVED", "QUEUED", res)
  /\ api' = [api EXCEPT ![e] = "202"]
  /\ UNCHANGED <<queueVars, workerVars, heartbeat, schedulerVars>>

\* The API process dies while it handles the request.
AbortRequest(e) ==
  /\ e \in CrashProne
  /\ api[e] \in {"created", "published"}
  /\ api' = [api EXCEPT ![e] = "aborted"]
  /\ UNCHANGED <<storeVars, queueVars, workerVars, heartbeat, schedulerVars>>

-----------------------------------------------------------------------------
(* Worker life: process start, shutdown signal, crash, heartbeat.          *)

ContextOf(w) == IF w \in cancelled THEN "done" ELSE "live"

\* A worker process starts once the previous one under that name is gone.
Start(w) ==
  /\ pc[w] = "down"
  /\ InitConsumerGroups
  /\ pc' = [pc EXCEPT ![w] = "consume"]
  /\ cancelled' = cancelled \ {w}
  /\ UNCHANGED <<storeVars, api, job, retries, heartbeat, schedulerVars>>

\* SIGTERM or Stop cancels the worker's context; the job loop notices later.
Stop(w) ==
  /\ w \in Stoppable
  /\ pc[w] # "down"
  /\ w \notin cancelled
  /\ cancelled' = cancelled \cup {w}
  /\ UNCHANGED <<storeVars, queueVars, api, pc, job, retries, heartbeat, schedulerVars>>

\* The process dies: its job and its retry goroutines are gone, what it had
\* been delivered stays in the pending list.
Crash(w) ==
  /\ w \in CrashProne
  /\ pc[w] # "down"
  /\ pc' = [pc EXCEPT ![w] = "down"]
  /\ job' = [job EXCEPT ![w] = NULL]
  /\ retries' = {t \in retries : t.worker # w}
  /\ UNCHANGED <<storeVars, queueVars, api, cancelled, heartbeat, schedulerVars>>

\* runHeartbeat sets the key until the context is cancelled.
Ping(w) ==
  /\ pc[w] # "down"
  /\ w \notin cancelled
  /\ heartbeat' = heartbeat \cup {w}
  /\ UNCHANGED <<storeVars, queueVars, api, workerVars, schedulerVars>>

\* The TTL runs out: no ping for that long, because the worker stopped, or
\* because its pings fail or come late.
Expire(w) ==
  /\ w \in heartbeat
  /\ MayLapse \/ pc[w] = "down" \/ w \in cancelled
  /\ heartbeat' = heartbeat \ {w}
  /\ UNCHANGED <<storeVars, queueVars, api, workerVars, schedulerVars>>

-----------------------------------------------------------------------------
(* runJobLoop, one call at a time.                                         *)

\* The loop returns when Consume fails with a context error: its context is
\* cancelled, or a connection attempt timed out (Go's net timeout satisfies
\* errors.Is(err, context.DeadlineExceeded)).
ExitLoop(w) ==
  /\ pc[w] = "consume"
  /\ w \in cancelled \/ MayFault
  /\ pc' = [pc EXCEPT ![w] = "exited"]
  /\ UNCHANGED <<storeVars, queueVars, api, job, cancelled, retries, heartbeat,
                 schedulerVars>>

\* Stop returns: the loop and every retry goroutine are done.
Stopped(w) ==
  /\ pc[w] = "exited"
  /\ w \in cancelled
  /\ \A t \in retries : t.worker # w
  /\ pc' = [pc EXCEPT ![w] = "down"]
  /\ UNCHANGED <<storeVars, queueVars, api, job, cancelled, retries, heartbeat,
                 schedulerVars>>

\* Consume hands out the next entry of some stream.  The scan from high to
\* low priority is not atomic, so any non-empty stream may be the one it finds.
Consume(w) ==
  /\ pc[w] = "consume"
  /\ w \notin cancelled
  /\ \E s \in Streams :
       /\ Deliver(s)
       /\ job' = [job EXCEPT ![w] = NextJob(s)]
  /\ pc' = [pc EXCEPT ![w] = "assign"]
  /\ UNCHANGED <<storeVars, api, cancelled, retries, heartbeat, schedulerVars>>

\* The server delivers the entry but the reply is lost, because the
\* connection fails or the context is cancelled meanwhile: Consume returns an
\* error, the entry stays pending.
LoseDelivery(w) ==
  /\ pc[w] = "consume"
  /\ MayFault \/ w \in cancelled
  /\ \E s \in Streams : Deliver(s)
  /\ UNCHANGED <<storeVars, api, workerVars, heartbeat, schedulerVars>>

\* Mutation: the loop keeps the job when AssignEvent fails.
AssignJob_KeepsJob(w) ==
  /\ pc[w] = "assign"
  /\ \E res \in Results :
       /\ AssignEvent(job[w].event, w, "QUEUED", "PROCESSING", ContextOf(w), res)
       /\ pc' = [pc EXCEPT ![w] = IF res = "ok" THEN "process" ELSE "consume"]
  /\ UNCHANGED <<queueVars, api, job, cancelled, retries, heartbeat, schedulerVars>>

\* QUEUED -> PROCESSING.  A state conflict leads to an Ack that discards the
\* entry, any other error leaves the entry pending.
AssignJob(w) ==
  /\ pc[w] = "assign"
  /\ \E res \in Results :
       /\ AssignEvent(job[w].event, w, "QUEUED", "PROCESSING", ContextOf(w), res)
       /\ pc' = [pc EXCEPT ![w] =
                   CASE res = "ok"                        -> "process"
                     [] res = "ErrInvalidStateTransition" -> "discard"
                     [] OTHER                             -> "consume"]
       /\ job' = IF res \in {"ok", "ErrInvalidStateTransition"} THEN job
                 ELSE [job EXCEPT ![w] = NULL]
  /\ UNCHANGED <<queueVars, api, cancelled, retries, heartbeat, schedulerVars>>

\* Mutation: no continue after the Ack of a conflicting entry.
DiscardJob_FallsThrough(w) ==
  /\ pc[w] = "discard"
  /\ \E res \in Results : Ack(job[w], ContextOf(w), res)
  /\ pc' = [pc EXCEPT ![w] = "process"]
  /\ UNCHANGED <<storeVars, api, job, cancelled, retries, heartbeat, schedulerVars>>

\* The Ack of a conflicting entry, its error ignored.
DiscardJob(w) ==
  /\ pc[w] = "discard"
  /\ \E res \in Results : Ack(job[w], ContextOf(w), res)
  /\ pc' = [pc EXCEPT ![w] = "consume"]
  /\ job' = [job EXCEPT ![w] = NULL]
  /\ UNCHANGED <<storeVars, api, cancelled, retries, heartbeat, schedulerVars>>

\* Mutation: the processor's error is only logged.
Process_DropsFailure(w) ==
  /\ pc[w] = "process"
  /\ \/ pc' = [pc EXCEPT ![w] = "finalize"] /\ UNCHANGED job
     \/ pc' = [pc EXCEPT ![w] = "consume"] /\ job' = [job EXCEPT ![w] = NULL]
  /\ UNCHANGED <<storeVars, queueVars, api, cancelled, retries, heartbeat,
                 schedulerVars>>

\* The registered processor returns nil or an error.
Process(w) ==
  /\ pc[w] = "process"
  /\ \E next \in {"finalize", "fail"} : pc' = [pc EXCEPT ![w] = next]
  /\ UNCHANGED <<storeVars, queueVars, api, job, cancelled, retries, heartbeat,
                 schedulerVars>>

\* Success: acknowledge if the event is finalized, by this call or before it.
FinalizeJob(w) ==
  /\ pc[w] = "finalize"
  /\ \E res \in Results :
       LET settled == res \in {"ok", "ErrAlreadyFinalized"}
       IN  /\ FinalizeEvent(job[w].event, res)
           /\ pc' = [pc EXCEPT ![w] = IF settled THEN "ack" ELSE "consume"]
           /\ job' = IF settled THEN job ELSE [job EXCEPT ![w] = NULL]
  /\ UNCHANGED <<queueVars, api, cancelled, retries, heartbeat, schedulerVars>>

\* The Ack of a completed or permanently failed job, its error only logged.
AckJob(w) ==
  /\ pc[w] = "ack"
  /\ \E res \in Results : Ack(job[w], "live", res)
  /\ pc' = [pc EXCEPT ![w] = "consume"]
  /\ job' = [job EXCEPT ![w] = NULL]
  /\ UNCHANGED <<storeVars, api, cancelled, retries, heartbeat, schedulerVars>>

\* Mutation: no return after the Ack, and the Ack whatever the next status.
HandleFailure_AcksRetry(w) ==
  /\ pc[w] = "fail"
  /\ \E res \in Results :
       LET next == [job[w] EXCEPT !.attempt = @ + 1]
       IN  /\ RecordFailure(job[w].event, res)
           /\ pc' = [pc EXCEPT ![w] = IF res = "ok" THEN "ack" ELSE "consume"]
           /\ job' = [job EXCEPT ![w] = IF res = "ok" THEN next ELSE NULL]
           /\ retries' = IF res = "ok"
                THEN retries \cup {[worker |-> w, job |-> next, step |-> "backoff"]}
                ELSE retries
  /\ UNCHANGED <<queueVars, api, cancelled, heartbeat, schedulerVars>>

\* handleFailure: count the failure; then either acknowledge a permanently
\* failed job or leave the job to a goroutine that requeues it after a delay.
HandleFailure(w) ==
  /\ pc[w] = "fail"
  /\ \E res \in Results :
       LET e     == job[w].event
           next  == [job[w] EXCEPT !.attempt = @ + 1]
           final == res = "ok" /\ FailureStatus(e) = "FAILED"
           again == res = "ok" /\ FailureStatus(e) = "RETRYING"
       IN  /\ RecordFailure(e, res)
           /\ pc' = [pc EXCEPT ![w] = IF final THEN "ack" ELSE "consume"]
           /\ job' = [job EXCEPT ![w] = IF final THEN next ELSE NULL]
           /\ retries' = IF again
                THEN retries \cup {[worker |-> w, job |-> next, step |-> "backoff"]}
                ELSE retries
  /\ UNCHANGED <<queueVars, api, cancelled, heartbeat, schedulerVars>>

-----------------------------------------------------------------------------
(* The retry goroutine: Retry (publish, then acknowledge the old entry),   *)
(* then RETRYING -> QUEUED.  Any error ends it.                            *)

Advance(t, to) == (retries \ {t}) \cup {[t EXCEPT !.step = to]}

\* Mutation: the requeued payload counts the attempt about to start.
RetryPublish_CountsAhead(t) ==
  /\ t.step = "backoff"
  /\ \E res \in Results :
       /\ Publish(t.job.event, t.job.attempt + 1, res)
       /\ retries' = IF res = "ok" THEN Advance(t, "ack") ELSE retries \ {t}
  /\ UNCHANGED <<storeVars, api, pc, job, cancelled, heartbeat, schedulerVars>>

\* The delay is over: publish the event again.
RetryPublish(t) ==
  /\ t.step = "backoff"
  /\ \E res \in Results :
       /\ Publish(t.job.event, t.job.attempt, res)
       /\ retries' = IF res = "ok" THEN Advance(t, "ack") ELSE retries \ {t}
  /\ UNCHANGED <<storeVars, api, pc, job, cancelled, heartbeat, schedulerVars>>

RetryAck(t) ==
  /\ t.step = "ack"
  /\ \E res \in Results :
       /\ Ack(t.job, "live", res)
       /\ retries' = IF res = "ok" THEN Advance(t, "update") ELSE retries \ {t}
  /\ UNCHANGED <<storeVars, api, pc, job, cancelled, heartbeat, schedulerVars>>

RetryUpdate(t) ==
  /\ t.step = "update"
  /\ \E res \in Results : UpdateStatus(t.job.event, "RETRYING", "QUEUED", res)
  /\ retries' = retries \ {t}
  /\ UNCHANGED <<queueVars, api, pc, job, cancelled, heartbeat, schedulerVars>>

\* Shutdown during the delay: give up.
RetryAbort(t) ==
  /\ t.step = "backoff"
  /\ t.worker \in cancelled
  /\ retries' = retries \ {t}
  /\ UNCHANGED <<storeVars, queueVars, api, pc, job, cancelled, heartbeat,
                 schedulerVars>>

-----------------------------------------------------------------------------
(* recoverEvents, one stale row at a time.  A sweep that finds nothing to  *)
(* do changes nothing, so a sweep here starts with a non-empty snapshot.   *)

\* GetStaleEvents: the rows in status st that were old enough.
BeginSweep(s, st, rows) ==
  /\ sweep[s] = "IDLE"
  /\ rows # {} /\ rows \subseteq RowsIn(st)
  /\ sweep' = [sweep EXCEPT ![s] = st]
  /\ pending' = [pending EXCEPT ![s] = rows]
  /\ UNCHANGED <<storeVars, queueVars, api, workerVars, heartbeat, recovering,
                 deadWorkers>>

\* The loop goes on to the next row, or recoverEvents returns.
DoneWith(s, x) ==
  LET rest == pending[s] \ {x}
  IN  /\ pending' = [pending EXCEPT ![s] = rest]
      /\ sweep' = IF rest = {} THEN [sweep EXCEPT ![s] = "IDLE"] ELSE sweep
      /\ deadWorkers' = IF rest = {} THEN [deadWorkers EXCEPT ![s] = Unchecked]
                                     ELSE deadWorkers

\* A PROCESSING row is passed over when it has no worker, when its worker is
\* alive, or when Redis cannot tell.
PassOver(s, x) ==
  /\ sweep[s] = "PROCESSING" /\ recovering[s] = NULL
  /\ \/ x.worker = NULL
     \/ x.worker # NULL /\ deadWorkers[s][x.worker] = "alive"
     \/ x.worker # NULL /\ deadWorkers[s][x.worker] = "unchecked" /\ MayFault
  /\ DoneWith(s, x)
  /\ UNCHANGED <<storeVars, queueVars, api, workerVars, heartbeat, recovering>>

\* Mutation: EXISTS is read the wrong way round.
CheckHeartbeat_Inverted(s, x) ==
  /\ sweep[s] = "PROCESSING" /\ recovering[s] = NULL
  /\ x.worker # NULL /\ deadWorkers[s][x.worker] = "unchecked"
  /\ deadWorkers' = [deadWorkers EXCEPT ![s][x.worker] =
                       IF x.worker \in heartbeat THEN "dead" ELSE "alive"]
  /\ UNCHANGED <<storeVars, queueVars, api, workerVars, heartbeat, sweep, pending,
                 recovering>>

\* EXISTS on the heartbeat key, cached for the rest of the sweep.
CheckHeartbeat(s, x) ==
  /\ sweep[s] = "PROCESSING" /\ recovering[s] = NULL
  /\ x.worker # NULL /\ deadWorkers[s][x.worker] = "unchecked"
  /\ deadWorkers' = [deadWorkers EXCEPT ![s][x.worker] =
                       IF x.worker \in heartbeat THEN "alive" ELSE "dead"]
  /\ UNCHANGED <<storeVars, queueVars, api, workerVars, heartbeat, sweep, pending,
                 recovering>>

\* Publish a recoverable row as it was read; on an error try in a later sweep.
Republish(s, x) ==
  /\ recovering[s] = NULL
  /\ \/ sweep[s] = "RETRYING"
     \/ sweep[s] = "PROCESSING" /\ x.worker # NULL /\ deadWorkers[s][x.worker] = "dead"
  /\ \E res \in Results :
       /\ Publish(x.event, x.attempt, res)
       /\ IF res = "ok"
          THEN /\ recovering' = [recovering EXCEPT ![s] = x]
               /\ UNCHANGED <<sweep, pending, deadWorkers>>
          ELSE /\ DoneWith(s, x)
               /\ UNCHANGED recovering
  /\ UNCHANGED <<storeVars, api, workerVars, heartbeat>>

\* Mutation: the old status of the compare-and-set is always PROCESSING.
ResetOwner_FromProcessing(s) ==
  /\ recovering[s] # NULL
  /\ \E res \in Results :
       AssignEvent(recovering[s].event, NULL, "PROCESSING", "QUEUED", "live", res)
  /\ DoneWith(s, recovering[s])
  /\ recovering' = [recovering EXCEPT ![s] = NULL]
  /\ UNCHANGED <<queueVars, api, workerVars, heartbeat>>

\* Compare-and-set of the status back to QUEUED, clearing the owner.
ResetOwner(s) ==
  /\ recovering[s] # NULL
  /\ \E res \in Results :
       AssignEvent(recovering[s].event, NULL, sweep[s], "QUEUED", "live", res)
  /\ DoneWith(s, recovering[s])
  /\ recovering' = [recovering EXCEPT ![s] = NULL]
  /\ UNCHANGED <<queueVars, api, workerVars, heartbeat>>

\* The API process dies with its scheduler; the next one starts afresh.
CrashScheduler(s) ==
  /\ s \in CrashProne
  /\ sweep[s] # "IDLE"
  /\ sweep' = [sweep EXCEPT ![s] = "IDLE"]
  /\ pending' = [pending EXCEPT ![s] = {}]
  /\ recovering' = [recovering EXCEPT ![s] = NULL]
  /\ deadWorkers' = [deadWorkers EXCEPT ![s] = Unchecked]
  /\ UNCHANGED <<storeVars, queueVars, api, workerVars, heartbeat>>

-----------------------------------------------------------------------------
RequestStep(e) ==
  \/ RejectRequest(e) \/ CreateEvent(e) \/ PublishEvent(e) \/ MarkQueued(e)
  \/ AbortRequest(e)

LoopStep(w) ==
  \/ ExitLoop(w) \/ Stopped(w) \/ Consume(w) \/ LoseDelivery(w) \/ AssignJob(w)
  \/ DiscardJob(w) \/ Process(w) \/ FinalizeJob(w) \/ AckJob(w) \/ HandleFailure(w)

WorkerStep(w) == Start(w) \/ Stop(w) \/ Crash(w) \/ Ping(w) \/ Expire(w) \/ LoopStep(w)

RetryStep(t) == RetryPublish(t) \/ RetryAck(t) \/ RetryUpdate(t) \/ RetryAbort(t)

RecoverStep(s) ==
  \/ \E x \in pending[s] : PassOver(s, x) \/ CheckHeartbeat(s, x) \/ Republish(s, x)
  \/ ResetOwner(s)

SchedulerStep(s) ==
  \/ \E st \in {"PROCESSING", "RETRYING"} :
       \E rows \in SUBSET RowsIn(st) : BeginSweep(s, st, rows)
  \/ RecoverStep(s)
  \/ CrashScheduler(s)

Next ==
  \/ \E e \in EventIds : RequestStep(e)
  \/ \E w \in Workers : WorkerStep(w)
  \/ \E t \in retries : RetryStep(t)
  \/ \E s \in Schedulers : SchedulerStep(s)

Spec == Init /\ [][Next]_vars

-----------------------------------------------------------------------------
(* Fairness.  A handler, a job loop and a retry goroutine that run go on.  *)
(* The scheduler ticks for ever, takes every row that stays stale into one *)
(* of its sweeps and finishes the sweeps it begins.  Nothing is promised   *)
(* about requests arriving, workers starting, crashes, stops or expiries.  *)

RetryOf(w, e) == \E t \in retries : t.worker = w /\ t.job.event = e /\ RetryStep(t)

Sweeps(s, st, e) ==
  \E rows \in SUBSET RowsIn(st) :
    (\E x \in rows : x.event = e) /\ BeginSweep(s, st, rows)

RequestFairness   == \A e \in EventIds : WF_vars(PublishEvent(e) \/ MarkQueued(e))
WorkerFairness    == \A w \in Workers : WF_vars(LoopStep(w))
RetryFairness     == \A w \in Workers, e \in EventIds : WF_vars(RetryOf(w, e))
SchedulerFairness ==
  \A s \in Schedulers :
    /\ WF_vars(RecoverStep(s))
    /\ \A e \in EventIds, st \in {"PROCESSING", "RETRYING"} : SF_vars(Sweeps(s, st, e))

FairSpec ==
  Spec /\ RequestFairness /\ WorkerFairness /\ RetryFairness /\ SchedulerFairness

-----------------------------------------------------------------------------
(* Safety.                                                                 *)

Executing(w) == pc[w] \in {"process", "finalize", "fail"}

Messages(e) ==
  {i \in DOMAIN stream[StreamOf(e)] : stream[StreamOf(e)][i].event = e}

\* "The database finalization must never occur twice": an event has a row in
\* the idempotency table exactly when it is COMPLETED, so the branch of
\* FinalizeEvent for a PROCESSING event that already has one is dead code.
FinalizedOnce == \A e \in EventIds : e \in idempotency <=> status[e] = "COMPLETED"

\* However often an event is delivered twice, recovered or finalized late, it
\* fails for good exactly when MaxAttempts failures have been counted.
AttemptBound ==
  \A e \in EventIds :
    /\ attempt[e] <= MaxAttempts
    /\ status[e] = "FAILED" <=> attempt[e] = MaxAttempts

\* With the worker names of NewPool: while a worker runs an event, between
\* its AssignEvent and its FinalizeEvent or RecordFailure, the event stays
\* PROCESSING and no other worker runs it, duplicate messages and sweeps
\* notwithstanding.
ExclusiveProcessing ==
  \A w \in Workers : Executing(w) =>
    /\ status[job[w].event] = "PROCESSING"
    /\ \A v \in Workers : Executing(v) /\ job[v].event = job[w].event => v = w

\* The deliveries still to be acknowledged by somebody: a job loop, or a
\* retry goroutine that has not acknowledged yet.
Holders ==
  {<<"loop", w>> : w \in {v \in Workers : job[v] # NULL}}
    \cup {<<"retry", t>> : t \in {u \in retries : u.step # "update"}}

JobOf(h) == IF h[1] = "loop" THEN job[h[2]] ELSE h[2].job

\* Every delivery has one holder until its acknowledgement, and stays in the
\* pending list as long: nobody acknowledges what another one still works on.
ReceiptExclusive ==
  \A h \in Holders :
    /\ <<JobOf(h).queue, JobOf(h).receipt>> \in pel
    /\ \A g \in Holders :
         JobOf(g).queue = JobOf(h).queue /\ JobOf(g).receipt = JobOf(h).receipt => g = h

\* The event is persisted before it is published: whatever is in a stream,
\* with a worker, with a retry or in a sweep has a row.
NoDangling ==
  /\ \A s \in Streams : \A i \in DOMAIN stream[s] : status[stream[s][i].event] # Absent
  /\ \A w \in Workers : job[w] # NULL => status[job[w].event] # Absent
  /\ \A t \in retries : status[t.job.event] # Absent
  /\ \A s \in Schedulers : \A x \in pending[s] : status[x.event] # Absent

\* A message, a job or a snapshot may carry an old attempt number, never one
\* the database has not counted yet.
PayloadNeverAhead ==
  /\ \A s \in Streams : \A i \in DOMAIN stream[s] :
       stream[s][i].attempt <= attempt[stream[s][i].event]
  /\ \A w \in Workers : job[w] # NULL => job[w].attempt <= attempt[job[w].event]
  /\ \A t \in retries : t.job.attempt <= attempt[t.job.event]
  /\ \A s \in Schedulers : \A x \in pending[s] : x.attempt <= attempt[x.event]

\* 202 is answered only for an event that is persisted and was published; a
\* request answered with 400 left nothing behind.
ResponseHonest ==
  \A e \in EventIds :
    /\ api[e] = "202" => status[e] # Absent /\ Messages(e) # {}
    /\ api[e] = "400" => status[e] = Absent /\ Messages(e) = {}

\* Without infrastructure errors and scheduler crashes, at most one message
\* per ingestion, one per failed attempt and one per failed attempt and
\* scheduler is ever published: requeueing and sweeping do not feed each
\* other.
DuplicatesBounded ==
  \A e \in EventIds :
    Cardinality(Messages(e)) <= 1 + attempt[e] * (1 + Cardinality(Schedulers))

\* Every step of the pipeline is a step of the lifecycle, or leaves it alone.
Lifecycle == INSTANCE EventLifecycle WITH finalized <- idempotency

ImplementsLifecycle == Lifecycle!Spec

-----------------------------------------------------------------------------
(* Liveness.                                                               *)

\* An event in RETRYING is requeued in the end although the worker that was
\* to requeue it crashes or is shut down: the scheduler sweeps it.
RetryRequeued ==
  \A e \in EventIds : status[e] = "RETRYING" ~> status[e] # "RETRYING"

\* An event that is PROCESSING leaves that status in the end, as long as no
\* worker crashes, every call is answered and no worker is told to shut down
\* (its AssignEvent could take effect although the worker sees an error).
ProcessingEnds ==
  \A e \in EventIds : status[e] = "PROCESSING" ~> status[e] # "PROCESSING"

\* Under the same conditions a QUEUED event with an entry the group has not
\* delivered yet is picked up: neither entries of another priority nor
\* duplicates the workers discard keep it waiting for ever.
Waiting(e) ==
  /\ group
  /\ status[e] = "QUEUED"
  /\ \E i \in Messages(e) : i > lastDelivered[StreamOf(e)]

QueuedServed == \A e \in EventIds : Waiting(e) ~> status[e] # "QUEUED"

-----------------------------------------------------------------------------
(* Claims of the documentation and of comments in the code.                *)

\* worker.go, runJobLoop: an entry whose event is "no longer QUEUED" is
\* acknowledged "to discard duplicate".  Whoever acknowledges an entry, the
\* event is then settled, running, or in another entry still to be delivered.
DiscardsOnlyDuplicates ==
  [][\A x \in pel \ pel' :
       LET e == stream[x[1]][x[2]].event
       IN  \/ status[e] \in Terminal \cup {"PROCESSING"}
           \/ \E i \in Messages(e) : i > lastDelivered[x[1]]]_vars

\* FAILURE_HANDLING.md, worker crash during processing: an event left
\* PROCESSING with no worker running it is requeued.
Orphan(e) ==
  status[e] = "PROCESSING" /\ \A w \in Workers : ~(Executing(w) /\ job[w].event = e)

OrphanRecovered ==
  \A e \in EventIds : Orphan(e) ~> status[e] # "PROCESSING"

\* IDEMPOTENCY.md, at-least-once delivery: the group's position moves past an
\* entry only by handing it to a worker.
NothingSkipped ==
  [][\A s \in Streams : \A i \in DOMAIN stream[s] :
       lastDelivered[s] < i /\ i <= lastDelivered'[s] => <<s, i>> \in pel']_vars

=============================================================================
