-------------------------- MODULE StreamForgeProofs --------------------------
(***************************************************************************)
(* Proofs about the pipeline, for every set of events, workers and         *)
(* schedulers, every attempt limit, every pattern of infrastructure        *)
(* errors, crashes, shutdowns and expiries, and any number of messages.    *)
(***************************************************************************)
EXTENDS StreamForge, CallLemmas

-----------------------------------------------------------------------------
(* Type correctness.                                                       *)

\* A step that leaves the tables alone keeps them well typed.
LEMMA StoreUnchanged ==
  ASSUME StoreTypeOK, UNCHANGED storeVars PROVE StoreTypeOK'
BY DEF StoreTypeOK, storeVars

\* A step that leaves the queue alone keeps it well typed.
LEMMA QueueUnchanged ==
  ASSUME QueueTypeOK, UNCHANGED queueVars PROVE QueueTypeOK'
BY DEF QueueTypeOK, queueVars

\* A step that leaves the scheduler alone keeps it well typed.
LEMMA SweepUnchanged ==
  ASSUME SweepTypeOK, UNCHANGED schedulerVars PROVE SweepTypeOK'
BY DEF SweepTypeOK, schedulerVars

\* A job loop past Consume has a job.
LEMMA HasJob ==
  ASSUME ActorTypeOK, NEW w \in Workers, pc[w] \notin {"down", "exited", "consume"}
  PROVE  job[w] \in Jobs /\ job[w].event \in EventIds /\ job[w].attempt \in Nat
BY DEF ActorTypeOK, Jobs

\* The steps of HandleCreateEvent keep every variable well typed.
LEMMA RequestType ==
  ASSUME TypeOK, NEW e \in EventIds, RequestStep(e)
  PROVE  TypeOK'
<1> USE DEF TypeOK
<1>1. StoreTypeOK'
  <2>1. CASE UNCHANGED storeVars
    BY <2>1, StoreUnchanged
  <2>2. CASE CreateEvent(e)
    BY <2>2, CreateEffect DEF CreateEvent
  <2>3. CASE MarkQueued(e)
    BY <2>3, UpdateStatusEffect DEF MarkQueued, Statuses
  <2> QED BY <2>1, <2>2, <2>3 DEF RequestStep, RejectRequest, PublishEvent, AbortRequest
<1>2. QueueTypeOK'
  <2>1. CASE UNCHANGED queueVars
    BY <2>1, QueueUnchanged
  <2>2. CASE PublishEvent(e)
    BY <2>2, PublishEffect DEF PublishEvent
  <2> QED BY <2>1, <2>2
          DEF RequestStep, RejectRequest, CreateEvent, MarkQueued, AbortRequest
<1>3. api' \in [EventIds -> Progress] /\ UNCHANGED <<workerVars, heartbeat, schedulerVars>>
  BY DEF RequestStep, RejectRequest, CreateEvent, PublishEvent, MarkQueued, AbortRequest,
         ActorTypeOK, Progress
<1>4. ActorTypeOK'
  BY <1>3 DEF ActorTypeOK, workerVars
<1> QED BY <1>1, <1>2, <1>3, <1>4, SweepUnchanged

\* Start, shutdown, crash and heartbeat of a worker.
LEMMA LifeType ==
  ASSUME TypeOK, NEW w \in Workers,
         Start(w) \/ Stop(w) \/ Crash(w) \/ Ping(w) \/ Expire(w)
  PROVE  TypeOK'
<1> USE DEF TypeOK
<1>1. StoreTypeOK' /\ SweepTypeOK'
  BY StoreUnchanged, SweepUnchanged DEF Start, Stop, Crash, Ping, Expire
<1>2. QueueTypeOK'
  <2>1. CASE Start(w)
    BY <2>1, GroupEffect DEF Start
  <2>2. CASE UNCHANGED queueVars
    BY <2>2, QueueUnchanged
  <2> QED BY <2>1, <2>2 DEF Stop, Crash, Ping, Expire
<1>3. ActorTypeOK'
  <2>1. CASE Start(w)
    BY <2>1 DEF Start, ActorTypeOK, Locations
  <2>2. CASE Stop(w)
    BY <2>2 DEF Stop, ActorTypeOK
  <2>3. CASE Crash(w)
    BY <2>3 DEF Crash, ActorTypeOK, Locations
  <2>4. CASE Ping(w) \/ Expire(w)
    BY <2>4 DEF Ping, Expire, ActorTypeOK, workerVars
  <2> QED BY <2>1, <2>2, <2>3, <2>4
<1> QED BY <1>1, <1>2, <1>3

\* The job loop, up to the start of the processor.
LEMMA PickupType ==
  ASSUME TypeOK, NEW w \in Workers,
         ExitLoop(w) \/ Stopped(w) \/ Consume(w) \/ LoseDelivery(w) \/ AssignJob(w)
           \/ DiscardJob(w)
  PROVE  TypeOK'
<1> USE DEF TypeOK
<1>1. CASE ExitLoop(w) \/ Stopped(w)
  <2>1. StoreTypeOK' /\ QueueTypeOK' /\ SweepTypeOK'
    BY <1>1, StoreUnchanged, QueueUnchanged, SweepUnchanged DEF ExitLoop, Stopped
  <2>2. ActorTypeOK'
    BY <1>1 DEF ExitLoop, Stopped, ActorTypeOK, Locations
  <2> QED BY <2>1, <2>2
<1>2. CASE Consume(w)
  <2>1. PICK s \in Streams : Deliver(s) /\ job' = [job EXCEPT ![w] = NextJob(s)]
    BY <1>2 DEF Consume
  <2>2. QueueTypeOK' /\ NextJob(s) \in Jobs
    BY <2>1, DeliverEffect
  <2>3. StoreTypeOK' /\ SweepTypeOK'
    BY <1>2, StoreUnchanged, SweepUnchanged DEF Consume
  <2>4. ActorTypeOK'
    BY <1>2, <2>1, <2>2, PipelineAssumption DEF Consume, ActorTypeOK, Locations
  <2> QED BY <2>2, <2>3, <2>4
<1>3. CASE LoseDelivery(w)
  <2>1. QueueTypeOK'
    BY <1>3, DeliverEffect DEF LoseDelivery
  <2>2. StoreTypeOK' /\ SweepTypeOK'
    BY <1>3, StoreUnchanged, SweepUnchanged DEF LoseDelivery
  <2>3. ActorTypeOK'
    BY <1>3 DEF LoseDelivery, ActorTypeOK, workerVars
  <2> QED BY <2>1, <2>2, <2>3
<1>4. CASE AssignJob(w)
  <2>1. PICK res \in Results :
          /\ AssignEvent(job[w].event, w, "QUEUED", "PROCESSING", ContextOf(w), res)
          /\ pc' = [pc EXCEPT ![w] =
                      CASE res = "ok"                        -> "process"
                        [] res = "ErrInvalidStateTransition" -> "discard"
                        [] OTHER                             -> "consume"]
          /\ job' = IF res \in {"ok", "ErrInvalidStateTransition"} THEN job
                    ELSE [job EXCEPT ![w] = NULL]
    BY <1>4 DEF AssignJob
  <2>2. job[w] \in Jobs /\ job[w].event \in EventIds /\ job[w] # NULL
    BY <1>4, HasJob, PipelineAssumption DEF AssignJob
  <2>3. StoreTypeOK'
    BY <2>1, <2>2, AssignEffect DEF Statuses
  <2>4. QueueTypeOK' /\ SweepTypeOK'
    BY <1>4, QueueUnchanged, SweepUnchanged DEF AssignJob
  <2>5. ActorTypeOK'
    <3>1. CASE res \in {"ok", "ErrInvalidStateTransition"}
      BY <1>4, <2>1, <2>2, <3>1 DEF AssignJob, ActorTypeOK, Locations
    <3>2. CASE res \notin {"ok", "ErrInvalidStateTransition"}
      BY <1>4, <2>1, <2>2, <3>2 DEF AssignJob, ActorTypeOK, Locations
    <3> QED BY <3>1, <3>2
  <2> QED BY <2>3, <2>4, <2>5
<1>5. CASE DiscardJob(w)
  <2>1. QueueTypeOK'
    BY <1>5, HasJob, AckEffect DEF DiscardJob
  <2>2. StoreTypeOK' /\ SweepTypeOK'
    BY <1>5, StoreUnchanged, SweepUnchanged DEF DiscardJob
  <2>3. ActorTypeOK'
    BY <1>5 DEF DiscardJob, ActorTypeOK, Locations
  <2> QED BY <2>1, <2>2, <2>3
<1> QED BY <1>1, <1>2, <1>3, <1>4, <1>5

\* The job loop, from the processor to the end of the iteration.
LEMMA OutcomeType ==
  ASSUME TypeOK, NEW w \in Workers,
         Process(w) \/ FinalizeJob(w) \/ AckJob(w) \/ HandleFailure(w)
  PROVE  TypeOK'
<1> USE DEF TypeOK
<1>0. job[w] \in Jobs /\ job[w].event \in EventIds /\ job[w].attempt \in Nat /\ job[w] # NULL
  BY HasJob, PipelineAssumption DEF Process, FinalizeJob, AckJob, HandleFailure
<1>1. SweepTypeOK'
  BY SweepUnchanged DEF Process, FinalizeJob, AckJob, HandleFailure
<1>2. StoreTypeOK'
  <2>1. CASE UNCHANGED storeVars
    BY <2>1, StoreUnchanged
  <2>2. CASE FinalizeJob(w)
    BY <2>2, <1>0, FinalizeEffect DEF FinalizeJob
  <2>3. CASE HandleFailure(w)
    BY <2>3, <1>0, FailureEffect DEF HandleFailure
  <2> QED BY <2>1, <2>2, <2>3 DEF Process, AckJob
<1>3. QueueTypeOK'
  <2>1. CASE AckJob(w)
    BY <2>1, <1>0, AckEffect DEF AckJob
  <2>2. CASE UNCHANGED queueVars
    BY <2>2, QueueUnchanged
  <2> QED BY <2>1, <2>2 DEF Process, FinalizeJob, HandleFailure
<1>4. ActorTypeOK'
  <2>1. CASE Process(w)
    BY <2>1 DEF Process, ActorTypeOK, Locations
  <2>2. CASE FinalizeJob(w)
    BY <2>2, <1>0 DEF FinalizeJob, ActorTypeOK, Locations
  <2>3. CASE AckJob(w)
    BY <2>3 DEF AckJob, ActorTypeOK, Locations
  <2>4. CASE HandleFailure(w)
    <3> DEFINE next == [job[w] EXCEPT !.attempt = @ + 1]
    <3>1. next \in Jobs /\ next # NULL
      BY <1>0, PipelineAssumption DEF Jobs
    <3>2. [worker |-> w, job |-> next, step |-> "backoff"] \in Retries
      BY <3>1 DEF Retries
    <3> HIDE DEF next
    <3>3. /\ pc' \in [Workers -> Locations]
          /\ job' = [job EXCEPT ![w] = job'[w]]
          /\ \/ pc' = [pc EXCEPT ![w] = "ack"] /\ job'[w] = next
             \/ pc' = [pc EXCEPT ![w] = "consume"] /\ job'[w] = NULL
          /\ retries' \subseteq retries \cup {[worker |-> w, job |-> next, step |-> "backoff"]}
          /\ UNCHANGED <<api, cancelled, heartbeat>>
      BY <2>4 DEF HandleFailure, ActorTypeOK, Locations, next
    <3> QED BY <3>1, <3>2, <3>3 DEF ActorTypeOK
  <2> QED BY <2>1, <2>2, <2>3, <2>4
<1> QED BY <1>1, <1>2, <1>3, <1>4

\* The retry goroutine keeps every variable well typed.
LEMMA RetryType ==
  ASSUME TypeOK, NEW t \in retries, RetryStep(t)
  PROVE  TypeOK'
<1> USE DEF TypeOK
<1>1. /\ t \in Retries /\ t.job \in Jobs
      /\ t.job.event \in EventIds /\ t.job.attempt \in Nat
  BY DEF ActorTypeOK, Retries, Jobs
<1>2. SweepTypeOK'
  BY SweepUnchanged DEF RetryStep, RetryPublish, RetryAck, RetryUpdate, RetryAbort
<1>3. StoreTypeOK'
  <2>1. CASE UNCHANGED storeVars
    BY <2>1, StoreUnchanged
  <2>2. CASE RetryUpdate(t)
    BY <2>2, <1>1, UpdateStatusEffect DEF RetryUpdate, Statuses
  <2> QED BY <2>1, <2>2 DEF RetryStep, RetryPublish, RetryAck, RetryAbort
<1>4. QueueTypeOK'
  <2>1. CASE RetryPublish(t)
    BY <2>1, <1>1, PublishEffect DEF RetryPublish
  <2>2. CASE RetryAck(t)
    BY <2>2, <1>1, AckEffect DEF RetryAck
  <2>3. CASE UNCHANGED queueVars
    BY <2>3, QueueUnchanged
  <2> QED BY <2>1, <2>2, <2>3 DEF RetryStep, RetryUpdate, RetryAbort
<1>5. ActorTypeOK'
  <2>1. \A to \in {"ack", "update"} : Advance(t, to) \subseteq Retries
    BY <1>1 DEF Advance, ActorTypeOK, Retries
  <2>2. /\ retries' \subseteq Retries
        /\ UNCHANGED <<api, pc, job, cancelled, heartbeat>>
    BY <2>1 DEF RetryStep, RetryPublish, RetryAck, RetryUpdate, RetryAbort, ActorTypeOK
  <2> QED BY <2>2 DEF ActorTypeOK
<1> QED BY <1>2, <1>3, <1>4, <1>5

\* Going on to the next row keeps the scheduler's variables well typed.
LEMMA DoneWithType ==
  ASSUME SweepTypeOK, NEW s \in Schedulers, NEW x \in pending[s], DoneWith(s, x),
         UNCHANGED recovering \/ recovering' = [recovering EXCEPT ![s] = NULL],
         recovering'[s] = NULL
  PROVE  SweepTypeOK'
<1>1. Unchecked \in [Workers -> Liveness]
  BY DEF Unchecked, Liveness
<1>2. /\ pending' \in [Schedulers -> SUBSET Rows]
      /\ sweep' \in [Schedulers -> {"IDLE", "PROCESSING", "RETRYING"}]
      /\ recovering' \in [Schedulers -> Rows \cup {NULL}]
  BY DEF DoneWith, SweepTypeOK
<1>3. deadWorkers' \in [Schedulers -> [Workers -> Liveness]]
  BY <1>1 DEF DoneWith, SweepTypeOK
<1>4. ASSUME NEW r \in Schedulers
      PROVE  /\ sweep'[r] = "IDLE" <=> pending'[r] = {}
             /\ recovering'[r] # NULL => recovering'[r] \in pending'[r]
  <2>1. CASE r = s
    BY <2>1 DEF DoneWith, SweepTypeOK
  <2>2. CASE r # s
    BY <2>2 DEF DoneWith, SweepTypeOK
  <2> QED BY <2>1, <2>2
<1> QED BY <1>2, <1>3, <1>4 DEF SweepTypeOK

\* The scheduler keeps every variable well typed.
LEMMA SchedulerType ==
  ASSUME TypeOK, NEW s \in Schedulers, SchedulerStep(s)
  PROVE  TypeOK'
<1> USE DEF TypeOK
<1>0. ActorTypeOK'
  BY DEF SchedulerStep, RecoverStep, BeginSweep, PassOver, CheckHeartbeat, Republish,
         ResetOwner, CrashScheduler, ActorTypeOK, workerVars
<1>1. ASSUME NEW st \in {"PROCESSING", "RETRYING"}, NEW rows \in SUBSET RowsIn(st),
             BeginSweep(s, st, rows)
      PROVE  TypeOK'
  <2>1. RowsIn(st) \subseteq Rows
    BY DEF RowsIn, Rows, StoreTypeOK
  <2>2. SweepTypeOK'
    BY <1>1, <2>1 DEF BeginSweep, SweepTypeOK
  <2> QED BY <1>0, <1>1, <2>2, StoreUnchanged, QueueUnchanged DEF BeginSweep
<1>2. ASSUME NEW x \in pending[s], PassOver(s, x)
      PROVE  TypeOK'
  BY <1>0, <1>2, DoneWithType, StoreUnchanged, QueueUnchanged DEF PassOver
<1>3. ASSUME NEW x \in pending[s], CheckHeartbeat(s, x)
      PROVE  TypeOK'
  <2>1. x \in Rows
    BY DEF SweepTypeOK
  <2>2. x.worker \in Workers
    BY <1>3, <2>1 DEF CheckHeartbeat, Rows
  <2>3. SweepTypeOK'
    BY <1>3, <2>2 DEF CheckHeartbeat, SweepTypeOK, Liveness
  <2> QED BY <1>0, <1>3, <2>3, StoreUnchanged, QueueUnchanged DEF CheckHeartbeat
<1>4. ASSUME NEW x \in pending[s], Republish(s, x)
      PROVE  TypeOK'
  <2>1. x \in Rows /\ x.event \in EventIds /\ x.attempt \in Nat
    BY DEF SweepTypeOK, Rows
  <2>2. PICK res \in Results :
          /\ Publish(x.event, x.attempt, res)
          /\ IF res = "ok"
             THEN /\ recovering' = [recovering EXCEPT ![s] = x]
                  /\ UNCHANGED <<sweep, pending, deadWorkers>>
             ELSE DoneWith(s, x) /\ UNCHANGED recovering
    BY <1>4 DEF Republish
  <2>3. QueueTypeOK'
    BY <2>1, <2>2, PublishEffect
  <2>4. SweepTypeOK'
    <3>1. CASE res = "ok"
      BY <2>1, <2>2, <3>1 DEF SweepTypeOK
    <3>2. CASE res # "ok"
      BY <1>4, <2>2, <3>2, DoneWithType DEF Republish
    <3> QED BY <3>1, <3>2
  <2>5. StoreTypeOK'
    BY <1>4, StoreUnchanged DEF Republish
  <2> QED BY <1>0, <2>3, <2>4, <2>5
<1>5. CASE ResetOwner(s)
  <2>1. recovering[s] \in pending[s] /\ recovering[s] \in Rows
    BY <1>5 DEF ResetOwner, SweepTypeOK
  <2>2. recovering[s].event \in EventIds
    BY <2>1 DEF Rows
  <2>3. sweep[s] \in Statuses
    BY <2>1 DEF SweepTypeOK, Statuses
  <2>4. StoreTypeOK'
    BY <1>5, <2>2, <2>3, AssignEffect DEF ResetOwner, Statuses
  <2>5. SweepTypeOK'
    <3>1. recovering'[s] = NULL
      BY <1>5 DEF ResetOwner, SweepTypeOK
    <3> QED BY <1>5, <2>1, <3>1, DoneWithType DEF ResetOwner
  <2> QED BY <1>0, <1>5, <2>4, <2>5, QueueUnchanged DEF ResetOwner
<1>6. CASE CrashScheduler(s)
  <2>1. Unchecked \in [Workers -> Liveness]
    BY DEF Unchecked, Liveness
  <2>2. SweepTypeOK'
    BY <1>6, <2>1 DEF CrashScheduler, SweepTypeOK
  <2> QED BY <1>0, <1>6, <2>2, StoreUnchanged, QueueUnchanged DEF CrashScheduler
<1> QED BY <1>1, <1>2, <1>3, <1>4, <1>5, <1>6 DEF SchedulerStep, RecoverStep

\* The initial state is well typed.
LEMMA InitType == Init => TypeOK
<1> SUFFICES ASSUME Init PROVE TypeOK
  OBVIOUS
<1>1. StoreTypeOK
  BY DEF Init, StoreInit, StoreTypeOK
<1>2. QueueTypeOK
  <2>1. <<>> \in Seq(Entries)
    OBVIOUS
  <2> QED BY <2>1 DEF Init, QueueInit, QueueTypeOK
<1>3. ActorTypeOK
  BY DEF Init, ActorTypeOK, Progress, Locations
<1>4. SweepTypeOK
  BY DEF Init, SweepTypeOK, Unchecked, Liveness
<1> QED BY <1>1, <1>2, <1>3, <1>4 DEF TypeOK

\* Every step keeps every variable well typed.
LEMMA StepType == TypeOK /\ [Next]_vars => TypeOK'
<1> SUFFICES ASSUME TypeOK, [Next]_vars PROVE TypeOK'
  OBVIOUS
<1>1. CASE UNCHANGED vars
  BY <1>1, StoreUnchanged, QueueUnchanged, SweepUnchanged
     DEF vars, apiVars, workerVars, TypeOK, ActorTypeOK
<1>2. ASSUME NEW e \in EventIds, RequestStep(e) PROVE TypeOK'
  BY <1>2, RequestType
<1>3. ASSUME NEW w \in Workers, WorkerStep(w) PROVE TypeOK'
  BY <1>3, LifeType, PickupType, OutcomeType DEF WorkerStep, LoopStep
<1>4. ASSUME NEW t \in retries, RetryStep(t) PROVE TypeOK'
  BY <1>4, RetryType
<1>5. ASSUME NEW s \in Schedulers, SchedulerStep(s) PROVE TypeOK'
  BY <1>5, SchedulerType
<1> QED BY <1>1, <1>2, <1>3, <1>4, <1>5 DEF Next

\* Every reachable state is well typed: a job loop has a job exactly between
\* Consume and the end of its iteration, a sweep runs exactly as long as it
\* has rows left, and the row being reset is one of them.
THEOREM TypeCorrect == Spec => []TypeOK
<1>1. Init => TypeOK
  BY InitType
<1>2. TypeOK /\ [Next]_vars => TypeOK'
  BY StepType
<1> QED BY <1>1, <1>2, PTL DEF Spec

-----------------------------------------------------------------------------
(* The pipeline implements the lifecycle.                                  *)

\* Before its request is handled, and after it is rejected, an event has no
\* row: the one fact about the API that the lifecycle of an event rests on.
Fresh == \A e \in EventIds : api[e] \in {"idle", "400"} => status[e] = Absent

LifecycleInv == TypeOK /\ Fresh /\ FinalizedOnce /\ AttemptBound

\* HandleCreateEvent moves an event along the lifecycle, or not at all.
LEMMA RequestRefines ==
  ASSUME LifecycleInv, NEW e \in EventIds, RequestStep(e)
  PROVE  Fresh' /\ [Lifecycle!Next]_(Lifecycle!vars)
<1> USE DEF LifecycleInv, TypeOK
<1>1. /\ status \in [EventIds -> Statuses \cup {Absent}]
      /\ api \in [EventIds -> Progress]
  BY DEF StoreTypeOK, ActorTypeOK
<1>2. CASE CreateEvent(e)
  <2>1. status[e] = Absent
    BY <1>2 DEF CreateEvent, Fresh
  <2>2. /\ UNCHANGED <<attempt, idempotency>>
        /\ UNCHANGED status \/ status' = [status EXCEPT ![e] = "RECEIVED"]
        /\ \E p \in {"created", "500"} : api' = [api EXCEPT ![e] = p]
    BY <1>2, CreateEffect DEF CreateEvent
  <2>3. Fresh'
    BY <1>1, <2>2 DEF Fresh
  <2> QED BY <2>1, <2>2, <2>3
          DEF Lifecycle!Next, Lifecycle!Receive, Lifecycle!Move, Lifecycle!vars, Absent
<1>3. CASE MarkQueued(e)
  <2>1. /\ UNCHANGED <<attempt, idempotency>>
        /\ \/ UNCHANGED status
           \/ status[e] = "RECEIVED" /\ status' = [status EXCEPT ![e] = "QUEUED"]
        /\ api' = [api EXCEPT ![e] = "202"]
    BY <1>3, UpdateStatusEffect DEF MarkQueued, Statuses
  <2>2. Fresh'
    BY <1>1, <1>3, <2>1 DEF Fresh, MarkQueued
  <2> QED BY <2>1, <2>2
          DEF Lifecycle!Next, Lifecycle!Enqueue, Lifecycle!Move, Lifecycle!vars
<1>4. CASE RejectRequest(e) \/ PublishEvent(e) \/ AbortRequest(e)
  <2>1. UNCHANGED storeVars
        /\ \E p \in Progress \ {"idle"} :
             api' = [api EXCEPT ![e] = p] /\ (p = "400" => api[e] = "idle")
    BY <1>4 DEF RejectRequest, PublishEvent, AbortRequest, Progress
  <2>2. Fresh'
    BY <1>1, <2>1 DEF Fresh, storeVars
  <2> QED BY <2>1, <2>2 DEF Lifecycle!vars, storeVars
<1> QED BY <1>2, <1>3, <1>4 DEF RequestStep

\* A worker moves an event along the lifecycle, or not at all.
LEMMA WorkerRefines ==
  ASSUME LifecycleInv, NEW w \in Workers, WorkerStep(w)
  PROVE  Fresh' /\ [Lifecycle!Next]_(Lifecycle!vars)
<1> USE DEF LifecycleInv, TypeOK
<1>1. CASE AssignJob(w)
  <2>1. job[w].event \in EventIds
    BY <1>1, HasJob DEF AssignJob
  <2>2. /\ UNCHANGED <<attempt, idempotency>>
        /\ \/ UNCHANGED status
           \/ /\ status[job[w].event] = "QUEUED"
              /\ status' = [status EXCEPT ![job[w].event] = "PROCESSING"]
    BY <1>1, <2>1, AssignEffect DEF AssignJob, Statuses
  <2> QED BY <1>1, <2>1, <2>2
          DEF AssignJob, Fresh, Absent, StoreTypeOK, Lifecycle!Next,
              Lifecycle!Assign, Lifecycle!Move, Lifecycle!vars
<1>2. CASE FinalizeJob(w)
  <2>1. job[w].event \in EventIds
    BY <1>2, HasJob DEF FinalizeJob
  <2>2. /\ UNCHANGED attempt
        /\ \/ UNCHANGED <<status, idempotency>>
           \/ /\ status[job[w].event] = "PROCESSING" /\ job[w].event \notin idempotency
              /\ status' = [status EXCEPT ![job[w].event] = "COMPLETED"]
              /\ idempotency' = idempotency \cup {job[w].event}
    BY <1>2, <2>1, FinalizeEffect DEF FinalizeJob
  <2> QED BY <1>2, <2>1, <2>2
          DEF FinalizeJob, Fresh, Absent, StoreTypeOK, Lifecycle!Next, Lifecycle!Complete,
              Lifecycle!Move, Lifecycle!vars
<1>3. CASE HandleFailure(w)
  <2> DEFINE e == job[w].event
  <2>1. e \in EventIds
    BY <1>3, HasJob DEF HandleFailure
  <2>2. /\ UNCHANGED idempotency
        /\ \/ UNCHANGED <<status, attempt>>
           \/ /\ status[e] = "PROCESSING"
              /\ status' = [status EXCEPT ![e] = FailureStatus(e)]
              /\ attempt' = [attempt EXCEPT ![e] = attempt[e] + 1]
    BY <1>3, <2>1, FailureEffect DEF HandleFailure
  <2>3. status[e] = "PROCESSING" => attempt[e] < MaxAttempts
    BY <2>1, StoreAssumption DEF AttemptBound, StoreTypeOK
  <2>4. \/ FailureStatus(e) = "RETRYING" /\ attempt[e] + 1 < MaxAttempts
        \/ FailureStatus(e) = "FAILED" /\ ~(attempt[e] + 1 < MaxAttempts)
    BY DEF FailureStatus
  <2>5. attempt[e] \in Nat /\ MaxAttempts \in Nat
    BY <2>1, StoreAssumption DEF StoreTypeOK
  <2> HIDE DEF e
  <2>6. UNCHANGED api
    BY <1>3 DEF HandleFailure
  <2> QED BY <2>1, <2>2, <2>3, <2>4, <2>5, <2>6
          DEF Fresh, Absent, StoreTypeOK, Lifecycle!Next, Lifecycle!Retry, Lifecycle!Fail,
              Lifecycle!Move, Lifecycle!vars
<1>4. CASE UNCHANGED <<storeVars, api>>
  BY <1>4 DEF Fresh, Lifecycle!vars, storeVars
<1> QED BY <1>1, <1>2, <1>3, <1>4
        DEF WorkerStep, LoopStep, Start, Stop, Crash, Ping, Expire, ExitLoop, Stopped,
            Consume, LoseDelivery, DiscardJob, Process, AckJob

\* A retry goroutine moves an event along the lifecycle, or not at all.
LEMMA RetryRefines ==
  ASSUME LifecycleInv, NEW t \in retries, RetryStep(t)
  PROVE  Fresh' /\ [Lifecycle!Next]_(Lifecycle!vars)
<1> USE DEF LifecycleInv, TypeOK
<1>1. CASE RetryUpdate(t)
  <2>1. t.job.event \in EventIds
    BY DEF ActorTypeOK, Retries, Jobs
  <2>2. /\ UNCHANGED <<attempt, idempotency>>
        /\ \/ UNCHANGED status
           \/ /\ status[t.job.event] = "RETRYING"
              /\ status' = [status EXCEPT ![t.job.event] = "QUEUED"]
    BY <1>1, <2>1, UpdateStatusEffect DEF RetryUpdate, Statuses
  <2> QED BY <1>1, <2>1, <2>2
          DEF RetryUpdate, Fresh, Absent, StoreTypeOK, Lifecycle!Next, Lifecycle!Requeue,
              Lifecycle!Move, Lifecycle!vars
<1>2. CASE UNCHANGED <<storeVars, api>>
  BY <1>2 DEF Fresh, Lifecycle!vars, storeVars
<1> QED BY <1>1, <1>2 DEF RetryStep, RetryPublish, RetryAck, RetryAbort

\* A sweep moves an event along the lifecycle, or not at all.
LEMMA SchedulerRefines ==
  ASSUME LifecycleInv, NEW s \in Schedulers, SchedulerStep(s)
  PROVE  Fresh' /\ [Lifecycle!Next]_(Lifecycle!vars)
<1> USE DEF LifecycleInv, TypeOK
<1>1. CASE ResetOwner(s)
  <2> DEFINE e == recovering[s].event
  <2>1. e \in EventIds /\ recovering[s] \in pending[s]
    BY <1>1 DEF ResetOwner, SweepTypeOK, Rows
  <2>2. sweep[s] \in {"PROCESSING", "RETRYING"}
    BY <2>1 DEF SweepTypeOK
  <2>3. /\ UNCHANGED <<attempt, idempotency>>
        /\ \/ UNCHANGED status
           \/ status[e] = sweep[s] /\ status' = [status EXCEPT ![e] = "QUEUED"]
    <3>1. sweep[s] \in Statuses /\ "QUEUED" \in Statuses
      BY <2>2 DEF Statuses
    <3>2. PICK res \in Results : AssignEvent(e, NULL, sweep[s], "QUEUED", "live", res)
      BY <1>1 DEF ResetOwner
    <3> HIDE DEF e
    <3>3. /\ UNCHANGED <<attempt, idempotency>>
          /\ \/ UNCHANGED <<status, workerId>>
             \/ /\ IsValidTransition(sweep[s], "QUEUED") /\ status[e] = sweep[s]
                /\ status' = [status EXCEPT ![e] = "QUEUED"]
                /\ workerId' = [workerId EXCEPT ![e] = ParsedWorkerID(NULL)]
      BY <2>1, <3>1, <3>2, AssignEffect
    <3> QED BY <3>3
  <2>4. UNCHANGED api
    BY <1>1 DEF ResetOwner
  <2> HIDE DEF e
  <2> QED BY <2>1, <2>2, <2>3, <2>4
          DEF Fresh, Absent, StoreTypeOK, Lifecycle!Next, Lifecycle!Requeue, Lifecycle!Move,
              Lifecycle!vars
<1>2. CASE UNCHANGED <<storeVars, api>>
  BY <1>2 DEF Fresh, Lifecycle!vars, storeVars
<1> QED BY <1>1, <1>2
        DEF SchedulerStep, RecoverStep, BeginSweep, PassOver, CheckHeartbeat, Republish,
            CrashScheduler

\* A step of the lifecycle keeps its two invariants.
LEMMA LifecyclePreserves ==
  ASSUME StoreTypeOK, FinalizedOnce, AttemptBound, [Lifecycle!Next]_(Lifecycle!vars)
  PROVE  FinalizedOnce' /\ AttemptBound'
<1> USE DEF FinalizedOnce, AttemptBound, StoreTypeOK
<1>1. CASE UNCHANGED Lifecycle!vars
  BY <1>1 DEF Lifecycle!vars
<1>2. ASSUME NEW e \in EventIds,
             Lifecycle!Receive(e) \/ Lifecycle!Enqueue(e) \/ Lifecycle!Assign(e)
               \/ Lifecycle!Requeue(e)
      PROVE  FinalizedOnce' /\ AttemptBound'
  BY <1>2 DEF Lifecycle!Receive, Lifecycle!Enqueue, Lifecycle!Assign, Lifecycle!Requeue,
              Lifecycle!Move
<1>3. ASSUME NEW e \in EventIds, Lifecycle!Complete(e)
      PROVE  FinalizedOnce' /\ AttemptBound'
  BY <1>3 DEF Lifecycle!Complete, Lifecycle!Move
<1>4. ASSUME NEW e \in EventIds, Lifecycle!Retry(e) \/ Lifecycle!Fail(e)
      PROVE  FinalizedOnce' /\ AttemptBound'
  BY <1>4, StoreAssumption DEF Lifecycle!Retry, Lifecycle!Fail, Lifecycle!Move
<1> QED BY <1>1, <1>2, <1>3, <1>4 DEF Lifecycle!Next

\* The initial state is one of the lifecycle, with its invariants.
LEMMA InitLifecycle == Init => LifecycleInv /\ Lifecycle!Init
<1> SUFFICES ASSUME Init PROVE LifecycleInv /\ Lifecycle!Init
  OBVIOUS
<1>1. Fresh /\ Lifecycle!Init
  BY DEF Init, StoreInit, Fresh, Lifecycle!Init, Absent
<1>2. FinalizedOnce /\ AttemptBound
  BY StoreAssumption DEF Init, StoreInit, FinalizedOnce, AttemptBound, Absent
<1> QED BY <1>1, <1>2, InitType DEF LifecycleInv

\* Every step is a step of the lifecycle or a stutter, and keeps the
\* two invariants.
LEMMA StepLifecycle ==
  LifecycleInv /\ [Next]_vars => LifecycleInv' /\ [Lifecycle!Next]_(Lifecycle!vars)
<1> SUFFICES ASSUME LifecycleInv, [Next]_vars
             PROVE  LifecycleInv' /\ [Lifecycle!Next]_(Lifecycle!vars)
  OBVIOUS
<1>1. Fresh' /\ [Lifecycle!Next]_(Lifecycle!vars)
  <2>1. CASE UNCHANGED vars
    BY <2>1 DEF vars, storeVars, apiVars, Lifecycle!vars, LifecycleInv, Fresh
  <2>2. ASSUME NEW e \in EventIds, RequestStep(e)
        PROVE  Fresh' /\ [Lifecycle!Next]_(Lifecycle!vars)
    BY <2>2, RequestRefines
  <2> QED BY <2>1, <2>2, WorkerRefines, RetryRefines, SchedulerRefines DEF Next
<1>2. TypeOK'
  BY StepType DEF LifecycleInv
<1>3. FinalizedOnce' /\ AttemptBound'
  BY <1>1, LifecyclePreserves DEF LifecycleInv, TypeOK
<1> QED BY <1>1, <1>2, <1>3 DEF LifecycleInv

\* An event has a row in the idempotency table exactly when it is COMPLETED,
\* whatever is delivered twice, recovered or finalized late.
THEOREM FinalizedAtMostOnce == Spec => []FinalizedOnce
<1>1. LifecycleInv => FinalizedOnce
  BY DEF LifecycleInv
<1> QED BY <1>1, InitLifecycle, StepLifecycle, PTL DEF Spec

\* No event has more than MaxAttempts counted failures, and it is FAILED
\* exactly when it has that many.
THEOREM AttemptsBounded == Spec => []AttemptBound
<1>1. LifecycleInv => AttemptBound
  BY DEF LifecycleInv
<1> QED BY <1>1, InitLifecycle, StepLifecycle, PTL DEF Spec

\* Every step of the API, of a worker, of a retry or of a scheduler moves at
\* most one event, along the lifecycle.
THEOREM Refinement == Spec => ImplementsLifecycle
<1> QED BY InitLifecycle, StepLifecycle, PTL DEF Spec, ImplementsLifecycle, Lifecycle!Spec

-----------------------------------------------------------------------------
(* Exclusive processing.  The compare-and-set of AssignEvent keeps workers *)
(* apart as long as no sweep resets an event that a worker runs.           *)

Exclusive ==
  /\ ExclusiveProcessing
  /\ \A w \in Workers : Executing(w) => workerId[job[w].event] = ParsedWorkerID(w)

\* Whoever is still running an event was running it before, and its row is as it
\* was: then nothing was disturbed.
LEMMA ExclusiveKept ==
  ASSUME Exclusive,
         \A v \in Workers : Executing(v)' => Executing(v) /\ job'[v] = job[v],
         \A v \in Workers : Executing(v)' /\ status[job[v].event] = "PROCESSING" =>
           /\ status'[job[v].event] = "PROCESSING"
           /\ workerId'[job[v].event] = workerId[job[v].event]
  PROVE  Exclusive'
<1>1. ExclusiveProcessing'
  BY DEF Exclusive, ExclusiveProcessing
<1>2. ASSUME NEW w \in Workers, Executing(w)'
      PROVE  workerId'[job'[w].event] = ParsedWorkerID(w)
  BY <1>2 DEF Exclusive, ExclusiveProcessing
<1> QED BY <1>1, <1>2 DEF Exclusive, ParsedWorkerID

\* A step that leaves the job loops and the PROCESSING events alone.
LEMMA ExclusiveElsewhere ==
  ASSUME TypeOK, Exclusive, UNCHANGED <<pc, job>>,
         \A e \in EventIds : status[e] = "PROCESSING" =>
           status'[e] = "PROCESSING" /\ workerId'[e] = workerId[e]
  PROVE  Exclusive'
<1>1. \A v \in Workers : Executing(v) => job[v].event \in EventIds
  BY HasJob DEF TypeOK, Executing
<1> QED BY <1>1, ExclusiveKept DEF Executing

\* HandleCreateEvent disturbs no worker that runs an event.
LEMMA RequestExclusive ==
  ASSUME LifecycleInv, Exclusive, NEW e \in EventIds, RequestStep(e)
  PROVE  Exclusive' /\ UNCHANGED <<workerId, pending, recovering, sweep, deadWorkers>>
<1> USE DEF LifecycleInv
<1>1. UNCHANGED <<workerId, pc, job, pending, recovering, sweep, deadWorkers>>
  BY CreateEffect, UpdateStatusEffect
     DEF RequestStep, RejectRequest, CreateEvent, PublishEvent, MarkQueued, AbortRequest,
         storeVars, workerVars, schedulerVars, TypeOK, Create, UpdateStatus
<1>2. \A x \in EventIds : status[x] = "PROCESSING" => status'[x] = "PROCESSING"
  <2>1. CASE CreateEvent(e)
    BY <2>1, CreateEffect DEF CreateEvent, Fresh, Absent, TypeOK, StoreTypeOK
  <2>2. CASE MarkQueued(e)
    BY <2>2, UpdateStatusEffect DEF MarkQueued, Statuses, TypeOK, StoreTypeOK
  <2>3. CASE UNCHANGED storeVars
    BY <2>3 DEF storeVars
  <2> QED BY <2>1, <2>2, <2>3 DEF RequestStep, RejectRequest, PublishEvent, AbortRequest
<1> QED BY <1>1, <1>2, ExclusiveElsewhere

\* What taking an event up does to its row.
LEMMA TakeUpEffect ==
  ASSUME StoreTypeOK, NEW e \in EventIds, NEW w, NEW ctx, NEW res,
         AssignEvent(e, w, "QUEUED", "PROCESSING", ctx, res)
  PROVE  /\ \/ UNCHANGED <<status, workerId>>
            \/ /\ status[e] = "QUEUED"
               /\ status' = [status EXCEPT ![e] = "PROCESSING"]
               /\ workerId' = [workerId EXCEPT ![e] = ParsedWorkerID(w)]
         /\ res = "ok" => /\ status[e] = "QUEUED"
                          /\ status' = [status EXCEPT ![e] = "PROCESSING"]
<1>1. "QUEUED" \in Statuses /\ "PROCESSING" \in Statuses
  BY DEF Statuses
<1> QED BY <1>1, AssignEffect

\* A worker that takes an event up finds it QUEUED, so nobody runs it.
LEMMA WorkerExclusive ==
  ASSUME LifecycleInv, Exclusive, NEW w \in Workers, WorkerStep(w)
  PROVE  /\ Exclusive'
         /\ UNCHANGED <<pending, recovering, sweep, deadWorkers>>
         /\ \/ UNCHANGED workerId
            \/ \E e \in EventIds : workerId' = [workerId EXCEPT ![e] = ParsedWorkerID(w)]
<1> USE DEF LifecycleInv, TypeOK
<1>0. UNCHANGED <<pending, recovering, sweep, deadWorkers>>
  BY DEF WorkerStep, LoopStep, Start, Stop, Crash, Ping, Expire, ExitLoop, Stopped, Consume,
         LoseDelivery, AssignJob, DiscardJob, Process, FinalizeJob, AckJob, HandleFailure,
         schedulerVars
<1>1. CASE AssignJob(w)
  <2> DEFINE e == job[w].event
  <2>1. e \in EventIds
    BY <1>1, HasJob DEF AssignJob
  <2>2. PICK res \in Results :
          /\ AssignEvent(e, w, "QUEUED", "PROCESSING", ContextOf(w), res)
          /\ pc' = [pc EXCEPT ![w] =
                      CASE res = "ok"                        -> "process"
                        [] res = "ErrInvalidStateTransition" -> "discard"
                        [] OTHER                             -> "consume"]
          /\ job' = IF res \in {"ok", "ErrInvalidStateTransition"} THEN job
                    ELSE [job EXCEPT ![w] = NULL]
    BY <1>1 DEF AssignJob
  <2>3. /\ \/ UNCHANGED <<status, workerId>>
           \/ /\ status[e] = "QUEUED"
              /\ status' = [status EXCEPT ![e] = "PROCESSING"]
              /\ workerId' = [workerId EXCEPT ![e] = ParsedWorkerID(w)]
        /\ res = "ok" => /\ status[e] = "QUEUED"
                         /\ status' = [status EXCEPT ![e] = "PROCESSING"]
    <3> HIDE DEF e
    <3> QED BY <2>1, <2>2, TakeUpEffect
  <2>4. \A v \in Workers \ {w} : Executing(v)' =>
          /\ Executing(v) /\ job'[v] = job[v] /\ job[v].event \in EventIds
          /\ status[job[v].event] = "PROCESSING"
          /\ workerId[job[v].event] = ParsedWorkerID(v)
    <3>1. \A v \in Workers \ {w} : pc'[v] = pc[v] /\ job'[v] = job[v]
      BY <2>2 DEF ActorTypeOK
    <3> QED BY <3>1, HasJob DEF Executing, Exclusive, ExclusiveProcessing
  <2>5. \A v \in Workers \ {w} : Executing(v)' =>
          /\ status'[job[v].event] = "PROCESSING"
          /\ workerId'[job[v].event] = ParsedWorkerID(v)
    BY <2>1, <2>3, <2>4 DEF StoreTypeOK
  <2>6. Executing(w)' => res = "ok" /\ job'[w] = job[w]
    BY <2>2 DEF Executing, ActorTypeOK
  <2>7. Executing(w)' => /\ status[e] = "QUEUED"
                         /\ status'[e] = "PROCESSING"
                         /\ workerId'[e] = ParsedWorkerID(w)
    BY <2>1, <2>3, <2>6 DEF StoreTypeOK
  <2>8. ASSUME NEW v \in Workers, Executing(v)'
        PROVE  /\ status'[job'[v].event] = "PROCESSING"
               /\ workerId'[job'[v].event] = ParsedWorkerID(v)
               /\ \A u \in Workers :
                    Executing(u)' /\ job'[u].event = job'[v].event => u = v
    <3>1. CASE v = w
      BY <2>4, <2>6, <2>7, <2>8, <3>1
    <3>2. CASE v # w
      BY <2>4, <2>5, <2>6, <2>7, <2>8, <3>2 DEF Exclusive, ExclusiveProcessing
    <3> QED BY <3>1, <3>2
  <2>9. Exclusive'
    BY <2>8 DEF Exclusive, ExclusiveProcessing, ParsedWorkerID
  <2> QED BY <1>0, <2>1, <2>3, <2>9
<1>2. CASE FinalizeJob(w) \/ HandleFailure(w)
  <2>1. job[w].event \in EventIds /\ Executing(w)
    BY <1>2, HasJob DEF FinalizeJob, HandleFailure, Executing
  <2>2. /\ UNCHANGED workerId
        /\ \A x \in EventIds : x # job[w].event => status'[x] = status[x]
    BY <1>2, <2>1, FinalizeEffect, FailureEffect DEF FinalizeJob, HandleFailure, StoreTypeOK
  <2>3. /\ \A v \in Workers \ {w} : pc'[v] = pc[v] /\ job'[v] = job[v]
        /\ ~Executing(w)'
    BY <1>2 DEF FinalizeJob, HandleFailure, Executing, ActorTypeOK
  <2>4. \A v \in Workers \ {w} : Executing(v) =>
          job[v].event \in EventIds /\ job[v].event # job[w].event
    BY <2>1, HasJob DEF Exclusive, ExclusiveProcessing, Executing
  <2>5. Exclusive'
    BY <2>2, <2>3, <2>4, ExclusiveKept DEF Executing
  <2> QED BY <1>0, <2>2, <2>5
<1>3. ASSUME UNCHANGED storeVars,
             \A v \in Workers : Executing(v)' => Executing(v) /\ job'[v] = job[v]
      PROVE  Exclusive' /\ UNCHANGED workerId
  BY <1>3, ExclusiveKept DEF storeVars
<1>4. ASSUME \/ Start(w) \/ Stop(w) \/ Crash(w) \/ Ping(w) \/ Expire(w) \/ ExitLoop(w)
             \/ Stopped(w) \/ Consume(w) \/ LoseDelivery(w) \/ DiscardJob(w) \/ Process(w)
             \/ AckJob(w)
      PROVE  /\ UNCHANGED storeVars
             /\ \A v \in Workers : Executing(v)' => Executing(v) /\ job'[v] = job[v]
  <2>1. UNCHANGED storeVars
    BY <1>4 DEF Start, Stop, Crash, Ping, Expire, ExitLoop, Stopped, Consume, LoseDelivery,
                DiscardJob, Process, AckJob
  <2>2. /\ \A v \in Workers \ {w} : pc'[v] = pc[v] /\ job'[v] = job[v]
        /\ \/ UNCHANGED <<pc, job>>
           \/ pc'[w] \notin {"process", "finalize", "fail"}
           \/ pc[w] = "process" /\ UNCHANGED job
    BY <1>4 DEF Start, Stop, Crash, Ping, Expire, ExitLoop, Stopped, Consume, LoseDelivery,
                DiscardJob, Process, AckJob, ActorTypeOK, workerVars
  <2> QED BY <2>1, <2>2 DEF Executing
<1> QED BY <1>0, <1>1, <1>2, <1>3, <1>4 DEF WorkerStep, LoopStep

\* A retry goroutine disturbs no worker that runs an event.
LEMMA RetryExclusive ==
  ASSUME LifecycleInv, Exclusive, NEW t \in retries, RetryStep(t)
  PROVE  Exclusive' /\ UNCHANGED <<workerId, pending, recovering, sweep, deadWorkers>>
<1> USE DEF LifecycleInv, TypeOK
<1>1. UNCHANGED <<workerId, pc, job, pending, recovering, sweep, deadWorkers>>
  BY DEF RetryStep, RetryPublish, RetryAck, RetryUpdate, RetryAbort, UpdateStatus,
         storeVars, schedulerVars
<1>2. \A x \in EventIds : status[x] = "PROCESSING" => status'[x] = "PROCESSING"
  <2>1. CASE RetryUpdate(t)
    <3>1. t.job.event \in EventIds
      BY DEF ActorTypeOK, Retries, Jobs
    <3> QED BY <2>1, <3>1, UpdateStatusEffect DEF RetryUpdate, Statuses, StoreTypeOK
  <2>2. CASE UNCHANGED storeVars
    BY <2>2 DEF storeVars
  <2> QED BY <2>1, <2>2 DEF RetryStep, RetryPublish, RetryAck, RetryAbort
<1> QED BY <1>1, <1>2, ExclusiveElsewhere

\* What ResetOwner does to the row it resets.
LEMMA ResetEffect ==
  ASSUME TypeOK, NEW s \in Schedulers, ResetOwner(s)
  PROVE  /\ recovering[s].event \in EventIds
         /\ sweep[s] \in {"PROCESSING", "RETRYING"}
         /\ \/ UNCHANGED <<status, workerId>>
            \/ /\ status[recovering[s].event] = sweep[s]
               /\ status' = [status EXCEPT ![recovering[s].event] = "QUEUED"]
               /\ workerId' = [workerId EXCEPT ![recovering[s].event] = NULL]
<1> USE DEF TypeOK
<1> DEFINE e == recovering[s].event
           st == sweep[s]
<1>1. e \in EventIds /\ st \in {"PROCESSING", "RETRYING"}
  BY DEF ResetOwner, SweepTypeOK, Rows
<1>2. st \in Statuses /\ "QUEUED" \in Statuses
  BY <1>1 DEF Statuses
<1>3. PICK res \in Results : AssignEvent(e, NULL, st, "QUEUED", "live", res)
  BY DEF ResetOwner
<1> HIDE DEF e, st
<1>4. \/ UNCHANGED <<status, workerId>>
      \/ /\ IsValidTransition(st, "QUEUED") /\ status[e] = st
         /\ status' = [status EXCEPT ![e] = "QUEUED"]
         /\ workerId' = [workerId EXCEPT ![e] = ParsedWorkerID(NULL)]
  BY <1>1, <1>2, <1>3, AssignEffect
<1>5. ParsedWorkerID(NULL) = NULL
  BY DEF ParsedWorkerID
<1> QED BY <1>1, <1>4, <1>5 DEF e, st

\* Nobody runs event e.
Idle(e) == \A w \in Workers : Executing(w) => job[w].event # e

\* A sweep that resets no event a worker runs disturbs nobody.
LEMMA SchedulerExclusive ==
  ASSUME LifecycleInv, Exclusive, NEW s \in Schedulers, SchedulerStep(s),
         recovering[s] # NULL /\ sweep[s] = "PROCESSING" => Idle(recovering[s].event)
  PROVE  Exclusive'
<1> USE DEF LifecycleInv, TypeOK
<1>1. UNCHANGED <<pc, job>>
  BY DEF SchedulerStep, RecoverStep, BeginSweep, PassOver, CheckHeartbeat, Republish,
         ResetOwner, CrashScheduler, workerVars
<1>2. CASE ResetOwner(s)
  <2>1. ASSUME NEW v \in Workers, Executing(v)'
        PROVE  /\ Executing(v) /\ job'[v] = job[v]
               /\ status[job[v].event] = "PROCESSING" =>
                    /\ status'[job[v].event] = "PROCESSING"
                    /\ workerId'[job[v].event] = workerId[job[v].event]
    <3>1. Executing(v) /\ job'[v] = job[v] /\ job[v].event \in EventIds
      BY <1>1, <2>1, HasJob DEF Executing
    <3>2. CASE UNCHANGED <<status, workerId>>
      BY <3>1, <3>2
    <3>3. CASE job[v].event # recovering[s].event
      BY <1>2, <3>1, <3>3, ResetEffect DEF StoreTypeOK
    <3>4. CASE job[v].event = recovering[s].event
      <4>1. sweep[s] = "RETRYING"
        BY <1>2, <3>1, <3>4, ResetEffect DEF Idle, ResetOwner
      <4> QED BY <1>2, <3>1, <3>4, <4>1, ResetEffect
    <3> QED BY <3>3, <3>4
  <2> QED BY <2>1, ExclusiveKept
<1>3. CASE UNCHANGED storeVars
  BY <1>1, <1>3, ExclusiveElsewhere DEF storeVars
<1> QED BY <1>2, <1>3 DEF SchedulerStep, RecoverStep, BeginSweep, PassOver, CheckHeartbeat,
                          Republish, CrashScheduler

(* With worker names that are not UUIDs no row ever has an owner, so no    *)
(* sweep takes a PROCESSING event from its worker.                         *)

NoOwner ==
  /\ \A e \in EventIds : workerId[e] = NULL
  /\ \A s \in Schedulers : \A x \in pending[s] : x.worker = NULL
  /\ \A s \in Schedulers : recovering[s] # NULL => sweep[s] = "RETRYING"

ExclusiveInv == LifecycleInv /\ NoOwner /\ Exclusive

\* A sweep gives no event an owner.
LEMMA SchedulerNoOwner ==
  ASSUME TypeOK, NoOwner, NEW s \in Schedulers, SchedulerStep(s)
  PROVE  NoOwner'
<1> USE DEF TypeOK
<1>1. CASE ResetOwner(s)
  <2>1. /\ \A r \in Schedulers : pending'[r] \subseteq pending[r]
        /\ recovering'[s] = NULL
        /\ \A r \in Schedulers \ {s} : recovering'[r] = recovering[r] /\ sweep'[r] = sweep[r]
    BY <1>1 DEF ResetOwner, DoneWith, SweepTypeOK
  <2>2. \A x \in EventIds : workerId'[x] = NULL
    BY <1>1, ResetEffect DEF NoOwner, StoreTypeOK
  <2> QED BY <2>1, <2>2 DEF NoOwner
<1>2. ASSUME UNCHANGED storeVars,
             \A r \in Schedulers : \A x \in pending'[r] : x.worker = NULL,
             \A r \in Schedulers : recovering'[r] # NULL => sweep'[r] = "RETRYING"
      PROVE  NoOwner'
  BY <1>2 DEF NoOwner, storeVars
<1>3. ASSUME NEW st \in {"PROCESSING", "RETRYING"}, NEW rows \in SUBSET RowsIn(st),
             BeginSweep(s, st, rows)
      PROVE  NoOwner'
  <2>1. \A x \in rows : x.worker = NULL
    BY DEF RowsIn, NoOwner
  <2>2. recovering[s] = NULL
    BY <1>3 DEF BeginSweep, SweepTypeOK
  <2> QED BY <1>2, <1>3, <2>1, <2>2 DEF BeginSweep, NoOwner, SweepTypeOK
<1>4. ASSUME NEW x \in pending[s], PassOver(s, x) \/ CheckHeartbeat(s, x)
      PROVE  NoOwner'
  BY <1>2, <1>4 DEF PassOver, CheckHeartbeat, DoneWith, NoOwner, SweepTypeOK
<1>5. ASSUME NEW x \in pending[s], Republish(s, x)
      PROVE  NoOwner'
  <2>1. sweep[s] = "RETRYING" /\ recovering[s] = NULL
    BY <1>5 DEF Republish, NoOwner
  <2>2. \/ recovering' = [recovering EXCEPT ![s] = x] /\ UNCHANGED <<sweep, pending>>
        \/ DoneWith(s, x) /\ UNCHANGED recovering
    BY <1>5 DEF Republish
  <2>3. UNCHANGED storeVars
    BY <1>5 DEF Republish
  <2> QED BY <1>2, <2>1, <2>2, <2>3 DEF DoneWith, NoOwner, SweepTypeOK
<1>6. CASE CrashScheduler(s)
  BY <1>2, <1>6 DEF CrashScheduler, NoOwner, SweepTypeOK
<1> QED BY <1>1, <1>3, <1>4, <1>5, <1>6 DEF SchedulerStep, RecoverStep

\* Every step keeps the events that run exclusive.
LEMMA StepExclusive ==
  ASSUME UUIDWorkers = {}
  PROVE  ExclusiveInv /\ [Next]_vars => ExclusiveInv'
<1> SUFFICES ASSUME ExclusiveInv, [Next]_vars PROVE ExclusiveInv'
  OBVIOUS
<1> USE DEF ExclusiveInv
<1>1. LifecycleInv'
  BY StepLifecycle
<1>2. CASE UNCHANGED vars
  <2>1. UNCHANGED <<status, workerId, pc, job, pending, recovering, sweep>>
    BY <1>2 DEF vars, storeVars, workerVars, schedulerVars
  <2> QED BY <1>1, <2>1, ExclusiveElsewhere DEF LifecycleInv, NoOwner
<1>3. ASSUME NEW e \in EventIds, RequestStep(e) PROVE NoOwner' /\ Exclusive'
  BY <1>3, RequestExclusive DEF NoOwner
<1>4. ASSUME NEW w \in Workers, WorkerStep(w) PROVE NoOwner' /\ Exclusive'
  <2>1. /\ Exclusive' /\ UNCHANGED <<pending, recovering, sweep>>
        /\ \/ UNCHANGED workerId
           \/ \E e \in EventIds : workerId' = [workerId EXCEPT ![e] = NULL]
    BY <1>4, WorkerExclusive DEF ParsedWorkerID
  <2> QED BY <2>1 DEF NoOwner, LifecycleInv, TypeOK, StoreTypeOK
<1>5. ASSUME NEW t \in retries, RetryStep(t) PROVE NoOwner' /\ Exclusive'
  BY <1>5, RetryExclusive DEF NoOwner
<1>6. ASSUME NEW s \in Schedulers, SchedulerStep(s) PROVE NoOwner' /\ Exclusive'
  BY <1>6, SchedulerExclusive, SchedulerNoOwner DEF NoOwner, LifecycleInv
<1> QED BY <1>1, <1>2, <1>3, <1>4, <1>5, <1>6 DEF Next

\* With names that are not UUIDs (the only ones NewPool gives), an event is
\* run by at most one worker at a time and stays PROCESSING meanwhile.
THEOREM ProcessingExclusive ==
  ASSUME UUIDWorkers = {}
  PROVE  Spec => []ExclusiveProcessing
<1>1. Init => ExclusiveInv
  BY InitLifecycle
     DEF LifecycleInv, ExclusiveInv, NoOwner, Exclusive, ExclusiveProcessing, Executing, Init,
         StoreInit
<1>2. ExclusiveInv /\ [Next]_vars => ExclusiveInv'
  BY StepExclusive
<1>3. ExclusiveInv => ExclusiveProcessing
  BY DEF ExclusiveInv, Exclusive
<1> QED BY <1>1, <1>2, <1>3, PTL DEF Spec

=============================================================================
