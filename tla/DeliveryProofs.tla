--------------------------- MODULE DeliveryProofs ---------------------------
(***************************************************************************)
(* Proofs about what travels through the pipeline: messages, jobs, retries *)
(* and the scheduler's snapshots, the deliveries their holders owe an      *)
(* acknowledgement for, the answers of the API, and the number of messages *)
(* an event may have.                                                      *)
(***************************************************************************)
EXTENDS StreamForgeProofs, FiniteSetTheorems

-----------------------------------------------------------------------------
(* What is known of an event.                                              *)

\* The event of x has a row, and its row has counted the attempts x has.
Known(x) == status[x.event] # Absent /\ x.attempt <= attempt[x.event]

Stored      == \A e \in EventIds :
                 api[e] \in {"created", "published", "202"} => status[e] # Absent
StreamKnown == \A s \in Streams : \A i \in DOMAIN stream[s] : Known(stream[s][i])
JobKnown    == \A w \in Workers : job[w] # NULL => Known(job[w])
RetryKnown  == \A t \in retries : Known(t.job)
SweepKnown  == \A s \in Schedulers : \A x \in pending[s] : Known(x)

KnownInv ==
  LifecycleInv /\ Stored /\ StreamKnown /\ JobKnown /\ RetryKnown /\ SweepKnown

\* Rows are never deleted and attempts never taken back.
Grows ==
  \A e \in EventIds :
    /\ status[e] # Absent => status'[e] # Absent
    /\ attempt[e] \in Nat /\ attempt'[e] \in Nat /\ attempt[e] <= attempt'[e]

\* Every step is one of the lifecycle, and the lifecycle only goes forward.
LEMMA StoreGrows == ASSUME LifecycleInv, [Next]_vars PROVE Grows
<1> USE DEF Grows
<1>1. [Lifecycle!Next]_(Lifecycle!vars)
  BY StepLifecycle
<1>2. /\ status \in [EventIds -> Statuses \cup {Absent}]
      /\ attempt \in [EventIds -> Nat]
  BY DEF LifecycleInv, TypeOK, StoreTypeOK
<1>3. CASE UNCHANGED Lifecycle!vars
  BY <1>2, <1>3 DEF Lifecycle!vars
<1>4. ASSUME NEW e \in EventIds,
             Lifecycle!Receive(e) \/ Lifecycle!Enqueue(e) \/ Lifecycle!Assign(e)
               \/ Lifecycle!Requeue(e) \/ Lifecycle!Complete(e)
      PROVE  Grows
  BY <1>2, <1>4 DEF Lifecycle!Receive, Lifecycle!Enqueue, Lifecycle!Assign,
       Lifecycle!Requeue, Lifecycle!Complete, Lifecycle!Move, Absent
<1>5. ASSUME NEW e \in EventIds, Lifecycle!Retry(e) \/ Lifecycle!Fail(e)
      PROVE  Grows
  BY <1>2, <1>5 DEF Lifecycle!Retry, Lifecycle!Fail, Lifecycle!Move, Absent
<1> QED BY <1>1, <1>3, <1>4, <1>5 DEF Lifecycle!Next

\* What is known stays known.
LEMMA KnownStays ==
  ASSUME Grows, NEW x, x.event \in EventIds, x.attempt \in Nat, Known(x)
  PROVE  status'[x.event] # Absent /\ x.attempt <= attempt'[x.event]
<1> DEFINE a == attempt[x.event]
           b == attempt'[x.event]
<1>1. a \in Nat /\ b \in Nat /\ a <= b /\ x.attempt <= a /\ status'[x.event] # Absent
  BY DEF Grows, Known
<1> QED BY <1>1

\* One entry was added to the stream of e, with attempt a.
Appended(e, a) ==
  stream' = [stream EXCEPT ![StreamOf(e)] =
               Append(stream[StreamOf(e)], [event |-> e, attempt |-> a])]

\* A step leaves the streams alone, or publishes what the publisher knows.
LEMMA StreamStep ==
  ASSUME KnownInv, [Next]_vars
  PROVE  \/ UNCHANGED stream
         \/ \E e \in EventIds, a \in Nat :
              status[e] # Absent /\ a <= attempt[e] /\ Appended(e, a)
<1> USE DEF KnownInv, LifecycleInv, TypeOK, Appended
<1>1. ASSUME NEW e \in EventIds, PublishEvent(e)
      PROVE  status[e] # Absent /\ 0 <= attempt[e] /\ (UNCHANGED stream \/ Appended(e, 0))
  <2>1. status[e] # Absent /\ 0 <= attempt[e]
    BY <1>1 DEF PublishEvent, Stored, StoreTypeOK
  <2> QED BY <1>1, <2>1, PublishEffect DEF PublishEvent
<1>2. ASSUME NEW t \in retries, RetryPublish(t)
      PROVE  /\ t.job.event \in EventIds /\ t.job.attempt \in Nat /\ Known(t.job)
             /\ UNCHANGED stream \/ Appended(t.job.event, t.job.attempt)
  <2>1. t.job.event \in EventIds /\ t.job.attempt \in Nat /\ Known(t.job)
    BY DEF ActorTypeOK, Retries, Jobs, RetryKnown
  <2> QED BY <1>2, <2>1, PublishEffect DEF RetryPublish
<1>3. ASSUME NEW s \in Schedulers, NEW x \in pending[s], Republish(s, x)
      PROVE  /\ x.event \in EventIds /\ x.attempt \in Nat /\ Known(x)
             /\ UNCHANGED stream \/ Appended(x.event, x.attempt)
  <2>1. x.event \in EventIds /\ x.attempt \in Nat /\ Known(x)
    BY DEF SweepTypeOK, Rows, SweepKnown
  <2> QED BY <1>3, <2>1, PublishEffect DEF Republish
<1>4. ASSUME NEW w \in Workers, WorkerStep(w) PROVE UNCHANGED stream
  BY <1>4 DEF WorkerStep, LoopStep, Start, Stop, Crash, Ping, Expire, ExitLoop, Stopped,
              Consume, LoseDelivery, AssignJob, DiscardJob, Process, FinalizeJob, AckJob,
              HandleFailure, InitConsumerGroups, Deliver, Ack, queueVars
<1>5. ASSUME NEW e \in EventIds,
             RejectRequest(e) \/ CreateEvent(e) \/ MarkQueued(e) \/ AbortRequest(e)
      PROVE  UNCHANGED stream
  BY <1>5 DEF RejectRequest, CreateEvent, MarkQueued, AbortRequest, queueVars
<1>6. ASSUME NEW t \in retries, RetryAck(t) \/ RetryUpdate(t) \/ RetryAbort(t)
      PROVE  UNCHANGED stream
  BY <1>6 DEF RetryAck, RetryUpdate, RetryAbort, Ack, queueVars
<1>7. ASSUME NEW s \in Schedulers, SchedulerStep(s),
             ~\E x \in pending[s] : Republish(s, x)
      PROVE  UNCHANGED stream
  BY <1>7 DEF SchedulerStep, RecoverStep, BeginSweep, PassOver, CheckHeartbeat, ResetOwner,
              CrashScheduler, queueVars
<1>8. CASE UNCHANGED vars
  BY <1>8 DEF vars, queueVars
<1>9. CASE \E e \in EventIds : RequestStep(e)
  BY <1>1, <1>5, <1>9 DEF RequestStep
<1>10. CASE \E t \in retries : RetryStep(t)
  BY <1>2, <1>6, <1>10 DEF RetryStep, Known
<1>11. CASE \E s \in Schedulers : SchedulerStep(s)
  BY <1>3, <1>7, <1>11 DEF Known
<1> HIDE DEF KnownInv, LifecycleInv, TypeOK, Appended
<1> QED BY <1>4, <1>8, <1>9, <1>10, <1>11 DEF Next

\* The entries there were stay where they are; one that was added is known.
LEMMA EntriesStay ==
  ASSUME KnownInv, [Next]_vars, NEW s \in Streams
  PROVE  /\ \A i \in DOMAIN stream[s] : i \in DOMAIN stream'[s] /\ stream'[s][i] = stream[s][i]
         /\ \A i \in DOMAIN stream'[s] :
              \/ i \in DOMAIN stream[s] /\ stream'[s][i] = stream[s][i]
              \/ stream'[s][i] \in Entries /\ Known(stream'[s][i])
<1>1. stream[s] \in Seq(Entries) /\ stream \in [Streams -> Seq(Entries)]
  BY DEF KnownInv, LifecycleInv, TypeOK, QueueTypeOK
<1>2. CASE UNCHANGED stream
  BY <1>2
<1>3. ASSUME NEW e \in EventIds, NEW a \in Nat, status[e] # Absent, a <= attempt[e],
             Appended(e, a)
      PROVE  \/ stream'[s] = stream[s]
             \/ \E x \in Entries : Known(x) /\ stream'[s] = Append(stream[s], x)
  <2>1. [event |-> e, attempt |-> a] \in Entries /\ Known([event |-> e, attempt |-> a])
    BY <1>3 DEF Entries, Known
  <2> QED BY <1>1, <1>3, <2>1 DEF Appended
<1>4. CASE \E x \in Entries : Known(x) /\ stream'[s] = Append(stream[s], x)
  BY <1>1, <1>4, AppendFacts
<1> QED BY <1>2, <1>3, <1>4, StreamStep

-----------------------------------------------------------------------------
(* Whatever travels is known.                                              *)

\* Every entry is known, published now or before.
LEMMA StreamKnownStep == ASSUME KnownInv, [Next]_vars PROVE StreamKnown'
<1>1. SUFFICES ASSUME NEW s \in Streams, NEW i \in DOMAIN stream'[s]
      PROVE  /\ status'[stream'[s][i].event] # Absent
             /\ stream'[s][i].attempt <= attempt'[stream'[s][i].event]
  BY DEF StreamKnown, Known
<1> DEFINE x == stream'[s][i]
<1>2. x \in Entries /\ Known(x)
  BY EntriesStay DEF KnownInv, StreamKnown, LifecycleInv, TypeOK, QueueTypeOK
<1>3. x.event \in EventIds /\ x.attempt \in Nat
  BY <1>2 DEF Entries
<1> HIDE DEF x
<1>4. status'[x.event] # Absent /\ x.attempt <= attempt'[x.event]
  BY <1>2, <1>3, KnownStays, StoreGrows DEF KnownInv
<1> QED BY <1>4 DEF x

\* Only HandleCreateEvent moves a request on.
LEMMA ApiUnchanged ==
  ASSUME [Next]_vars PROVE UNCHANGED api \/ \E e \in EventIds : RequestStep(e)
<1>1. ASSUME NEW w \in Workers, WorkerStep(w) PROVE UNCHANGED api
  BY <1>1 DEF WorkerStep, LoopStep, Start, Stop, Crash, Ping, Expire, ExitLoop, Stopped,
              Consume, LoseDelivery, AssignJob, DiscardJob, Process, FinalizeJob, AckJob,
              HandleFailure
<1>2. ASSUME NEW t \in retries, RetryStep(t) PROVE UNCHANGED api
  BY <1>2 DEF RetryStep, RetryPublish, RetryAck, RetryUpdate, RetryAbort
<1>3. ASSUME NEW s \in Schedulers, SchedulerStep(s) PROVE UNCHANGED api
  BY <1>3 DEF SchedulerStep, RecoverStep, BeginSweep, PassOver, CheckHeartbeat, Republish,
              ResetOwner, CrashScheduler
<1> QED BY <1>1, <1>2, <1>3 DEF Next, vars, apiVars

\* An event is created before its request goes on.
LEMMA StoredStep == ASSUME KnownInv, [Next]_vars PROVE Stored'
<1> USE DEF KnownInv, LifecycleInv, TypeOK
<1>1. Grows
  BY StoreGrows
<1>2. CASE UNCHANGED api
  BY <1>1, <1>2 DEF Stored, Grows
<1>3. ASSUME NEW e \in EventIds, RequestStep(e) PROVE Stored'
  <2>1. CASE CreateEvent(e)
    <3>1. \/ api' = [api EXCEPT ![e] = "created"]
             /\ status' = [status EXCEPT ![e] = "RECEIVED"]
          \/ api' = [api EXCEPT ![e] = "500"]
      BY <2>1, CreateEffect DEF CreateEvent
    <3> QED BY <1>1, <3>1 DEF Stored, Grows, Absent, StoreTypeOK, ActorTypeOK
  <2>2. CASE RejectRequest(e) \/ PublishEvent(e) \/ MarkQueued(e) \/ AbortRequest(e)
    <3>1. \E p \in Progress :
            /\ api' = [api EXCEPT ![e] = p]
            /\ p \in {"published", "202"} => api[e] \in {"created", "published"}
            /\ p # "created"
      BY <2>2 DEF RejectRequest, PublishEvent, MarkQueued, AbortRequest, Progress
    <3> QED BY <1>1, <3>1 DEF Stored, Grows, ActorTypeOK
  <2> QED BY <1>3, <2>1, <2>2 DEF RequestStep
<1> QED BY <1>2, <1>3, ApiUnchanged

\* The steps that hand nothing over: jobs and retries are kept or dropped, and
\* nothing is delivered or acknowledged.
Drops ==
  /\ \A w \in Workers : job'[w] \in {job[w], NULL}
  /\ retries' \subseteq retries
  /\ UNCHANGED pel
  /\ group => group' /\ UNCHANGED lastDelivered

HandOver(w) ==
  Consume(w) \/ LoseDelivery(w) \/ DiscardJob(w) \/ AckJob(w) \/ HandleFailure(w)

\* Every other step hands something over.
LEMMA StepKinds ==
  ASSUME TypeOK, [Next]_vars
  PROVE  \/ Drops
         \/ \E w \in Workers : HandOver(w)
         \/ \E t \in retries : RetryPublish(t) \/ RetryAck(t)
<1> USE DEF TypeOK, ActorTypeOK
<1>1. ASSUME UNCHANGED <<job, retries, queueVars>> PROVE Drops
  BY <1>1 DEF Drops, queueVars
<1>2. ASSUME NEW e \in EventIds, RequestStep(e) PROVE Drops
  <2>1. CASE PublishEvent(e)
    BY <2>1, PublishEffect DEF PublishEvent, workerVars, Drops
  <2>2. CASE UNCHANGED <<job, retries, queueVars>>
    BY <1>1, <2>2
  <2> QED BY <1>2, <2>1, <2>2
          DEF RequestStep, RejectRequest, CreateEvent, MarkQueued, AbortRequest, workerVars
<1>3. ASSUME NEW w \in Workers, WorkerStep(w) PROVE Drops \/ HandOver(w)
  <2>1. CASE Start(w)
    BY <2>1 DEF Start, InitConsumerGroups, Drops
  <2>2. CASE Crash(w) \/ AssignJob(w) \/ FinalizeJob(w)
    BY <2>2 DEF Crash, AssignJob, FinalizeJob, Drops, queueVars
  <2>3. CASE UNCHANGED <<job, retries, queueVars>>
    BY <1>1, <2>3
  <2> QED BY <1>3, <2>1, <2>2, <2>3
          DEF WorkerStep, LoopStep, HandOver, Stop, Ping, Expire, ExitLoop, Stopped, Process,
              workerVars
<1>4. ASSUME NEW t \in retries, RetryUpdate(t) \/ RetryAbort(t) PROVE Drops
  BY <1>4 DEF RetryUpdate, RetryAbort, Drops, queueVars
<1>5. ASSUME NEW s \in Schedulers, SchedulerStep(s) PROVE Drops
  <2>1. ASSUME NEW x \in pending[s], Republish(s, x) PROVE Drops
    <3>1. x.event \in EventIds /\ x.attempt \in Nat
      BY DEF SweepTypeOK, Rows
    <3> QED BY <2>1, <3>1, PublishEffect DEF Republish, workerVars, Drops
  <2>2. CASE UNCHANGED <<job, retries, queueVars>>
    BY <1>1, <2>2
  <2> QED BY <1>5, <2>1, <2>2
          DEF SchedulerStep, RecoverStep, BeginSweep, PassOver, CheckHeartbeat, ResetOwner,
              CrashScheduler, workerVars
<1>6. CASE UNCHANGED vars
  BY <1>1, <1>6 DEF vars, workerVars
<1> QED BY <1>2, <1>3, <1>4, <1>5, <1>6 DEF Next, RetryStep

\* A job loop holds what it was delivered, or what it had with one failure
\* counted; a retry goroutine takes that job over and keeps it.
LEMMA JobStep == ASSUME KnownInv, [Next]_vars PROVE JobKnown' /\ RetryKnown'
<1> USE DEF KnownInv, LifecycleInv, TypeOK
<1>1. Grows
  BY StoreGrows
<1>2. \A w \in Workers : job[w] # NULL =>
        /\ job[w] \in Jobs /\ job[w].event \in EventIds /\ job[w].attempt \in Nat
        /\ status'[job[w].event] # Absent /\ job[w].attempt <= attempt'[job[w].event]
  <2> SUFFICES ASSUME NEW w \in Workers, job[w] # NULL
      PROVE  /\ job[w] \in Jobs /\ job[w].event \in EventIds /\ job[w].attempt \in Nat
             /\ status'[job[w].event] # Absent /\ job[w].attempt <= attempt'[job[w].event]
    OBVIOUS
  <2>1. job[w] \in Jobs /\ job[w].event \in EventIds /\ job[w].attempt \in Nat
    BY DEF ActorTypeOK, Jobs
  <2> QED BY <1>1, <2>1, KnownStays DEF JobKnown
<1>3. \A t \in retries :
        status'[t.job.event] # Absent /\ t.job.attempt <= attempt'[t.job.event]
  <2> SUFFICES ASSUME NEW t \in retries
      PROVE  status'[t.job.event] # Absent /\ t.job.attempt <= attempt'[t.job.event]
    OBVIOUS
  <2>1. t.job.event \in EventIds /\ t.job.attempt \in Nat
    BY DEF ActorTypeOK, Retries, Jobs
  <2> QED BY <1>1, <2>1, KnownStays DEF RetryKnown
<1>4. ASSUME \A w \in Workers : job'[w] \in {job[w], NULL} PROVE JobKnown'
  BY <1>2, <1>4 DEF JobKnown, Known
<1>5. ASSUME retries' \subseteq retries PROVE RetryKnown'
  BY <1>3, <1>5 DEF RetryKnown, Known
<1>6. CASE Drops
  BY <1>4, <1>5, <1>6 DEF Drops
<1>7. ASSUME NEW w \in Workers, Consume(w) PROVE JobKnown' /\ RetryKnown'
  <2>1. PICK s \in Streams : Deliver(s) /\ job' = [job EXCEPT ![w] = NextJob(s)]
    BY <1>7 DEF Consume
  <2> DEFINE i == NextJob(s).receipt
  <2>2. /\ i \in DOMAIN stream[s]
        /\ NextJob(s).event = stream[s][i].event
        /\ NextJob(s).attempt = stream[s][i].attempt
        /\ NextJob(s).event \in EventIds /\ NextJob(s).attempt \in Nat
    BY <2>1, DeliverEffect DEF Jobs
  <2>3. Known(NextJob(s))
    BY <2>2 DEF StreamKnown, Known
  <2>4. status'[NextJob(s).event] # Absent /\ NextJob(s).attempt <= attempt'[NextJob(s).event]
    BY <1>1, <2>2, <2>3, KnownStays
  <2>5. \A v \in Workers : job'[v] = NextJob(s) \/ job'[v] = job[v]
    BY <2>1 DEF ActorTypeOK
  <2>6. JobKnown'
    BY <1>2, <2>4, <2>5 DEF JobKnown, Known
  <2> QED BY <1>5, <1>7, <2>6 DEF Consume
<1>8. ASSUME NEW w \in Workers, LoseDelivery(w) \/ DiscardJob(w) \/ AckJob(w)
      PROVE  JobKnown' /\ RetryKnown'
  BY <1>4, <1>5, <1>8 DEF LoseDelivery, DiscardJob, AckJob, workerVars, ActorTypeOK
<1>9. ASSUME NEW w \in Workers, HandleFailure(w) PROVE JobKnown' /\ RetryKnown'
  <2> DEFINE next == [job[w] EXCEPT !.attempt = @ + 1]
  <2>1. job[w] # NULL /\ job[w] \in Jobs /\ job[w].event \in EventIds /\ job[w].attempt \in Nat
    BY <1>9, HasJob, PipelineAssumption DEF HandleFailure
  <2>2. next.event = job[w].event /\ next.attempt = job[w].attempt + 1
    BY <2>1 DEF Jobs
  <2> HIDE DEF next
  <2>3. PICK res \in Results :
          /\ RecordFailure(job[w].event, res)
          /\ res # "ok" => job' = [job EXCEPT ![w] = NULL] /\ UNCHANGED retries
          /\ job' = [job EXCEPT ![w] = NULL] \/ job' = [job EXCEPT ![w] = next]
          /\ retries' \subseteq retries \cup {[worker |-> w, job |-> next, step |-> "backoff"]}
    BY <1>9 DEF HandleFailure, next
  <2>4. CASE res # "ok"
    BY <1>4, <1>5, <2>3, <2>4 DEF ActorTypeOK
  <2>5. CASE res = "ok"
    <3>1. attempt' = [attempt EXCEPT ![job[w].event] = attempt[job[w].event] + 1]
      BY <2>1, <2>3, <2>5, FailureEffect
    <3>2. job[w].attempt <= attempt[job[w].event] /\ attempt[job[w].event] \in Nat
      BY <2>1 DEF JobKnown, Known, StoreTypeOK
    <3>3. next.attempt <= attempt'[next.event] /\ status'[next.event] # Absent
      <4>1. attempt'[job[w].event] = attempt[job[w].event] + 1
        BY <2>1, <3>1 DEF StoreTypeOK
      <4> QED BY <1>2, <2>1, <2>2, <3>2, <4>1
    <3>4. JobKnown'
      BY <1>2, <2>3, <3>3 DEF JobKnown, Known, ActorTypeOK
    <3>5. \A t \in retries' : t \in retries \/ t.job = next
      BY <2>3
    <3>6. RetryKnown'
      BY <1>3, <3>3, <3>5 DEF RetryKnown, Known
    <3> QED BY <3>4, <3>6
  <2> QED BY <2>4, <2>5
<1>10. ASSUME NEW t \in retries, RetryPublish(t) \/ RetryAck(t) PROVE JobKnown' /\ RetryKnown'
  <2>1. UNCHANGED job
    BY <1>10 DEF RetryPublish, RetryAck
  <2>2. \A u \in retries' : \E v \in retries : u.job = v.job
    BY <1>10 DEF RetryPublish, RetryAck, Advance, ActorTypeOK, Retries
  <2> QED BY <1>2, <1>3, <2>1, <2>2 DEF JobKnown, RetryKnown, Known
<1> QED BY <1>6, <1>7, <1>8, <1>9, <1>10, StepKinds DEF HandOver

\* A sweep reads rows of the table, and forgets them one by one.
LEMMA SweepStep == ASSUME KnownInv, [Next]_vars PROVE SweepKnown'
<1> USE DEF KnownInv, LifecycleInv, TypeOK
<1>1. Grows
  BY StoreGrows
<1>2. ASSUME \A s \in Schedulers : \A x \in pending'[s] :
               x \in pending[s] \/ \E st \in {"PROCESSING", "RETRYING"} : x \in RowsIn(st)
      PROVE  SweepKnown'
  <2> SUFFICES ASSUME NEW s \in Schedulers, NEW x \in pending'[s]
      PROVE  status'[x.event] # Absent /\ x.attempt <= attempt'[x.event]
    BY DEF SweepKnown, Known
  <2>1. CASE x \in pending[s]
    <3>1. x.event \in EventIds /\ x.attempt \in Nat /\ Known(x)
      BY <2>1 DEF SweepTypeOK, Rows, SweepKnown
    <3> QED BY <1>1, <3>1, KnownStays
  <2>2. ASSUME NEW st \in {"PROCESSING", "RETRYING"}, x \in RowsIn(st)
        PROVE  status'[x.event] # Absent /\ x.attempt <= attempt'[x.event]
    <3>1. PICK e \in EventIds : /\ status[e] = st
                                /\ x.event = e /\ x.attempt = attempt[e]
      BY <2>2 DEF RowsIn
    <3>2. attempt[e] \in Nat
      BY DEF StoreTypeOK
    <3>3. Known(x)
      BY <3>1, <3>2 DEF Known, Absent
    <3> QED BY <1>1, <3>1, <3>2, <3>3, KnownStays
  <2> QED BY <1>2, <2>1, <2>2
<1>3. CASE UNCHANGED pending
  BY <1>2, <1>3
<1>4. ASSUME NEW s \in Schedulers, SchedulerStep(s) PROVE SweepKnown'
  <2>1. ASSUME NEW st \in {"PROCESSING", "RETRYING"}, NEW rows \in SUBSET RowsIn(st),
               BeginSweep(s, st, rows)
        PROVE  SweepKnown'
    BY <1>2, <2>1 DEF BeginSweep, SweepTypeOK
  <2>2. CASE \A r \in Schedulers : pending'[r] \subseteq pending[r]
    BY <1>2, <2>2
  <2>3. ASSUME NEW x \in pending[s],
               PassOver(s, x) \/ CheckHeartbeat(s, x) \/ Republish(s, x)
        PROVE  \A r \in Schedulers : pending'[r] \subseteq pending[r]
    BY <2>3 DEF PassOver, CheckHeartbeat, Republish, DoneWith, SweepTypeOK
  <2>4. ASSUME ResetOwner(s) \/ CrashScheduler(s)
        PROVE  \A r \in Schedulers : pending'[r] \subseteq pending[r]
    BY <2>4 DEF ResetOwner, CrashScheduler, DoneWith, SweepTypeOK
  <2> QED BY <1>4, <2>1, <2>2, <2>3, <2>4 DEF SchedulerStep, RecoverStep
<1>5. ASSUME NEW e \in EventIds, RequestStep(e) PROVE UNCHANGED pending
  BY <1>5 DEF RequestStep, RejectRequest, CreateEvent, PublishEvent, MarkQueued,
              AbortRequest, schedulerVars
<1>6. ASSUME NEW w \in Workers, WorkerStep(w) PROVE UNCHANGED pending
  BY <1>6 DEF WorkerStep, LoopStep, Start, Stop, Crash, Ping, Expire, ExitLoop, Stopped,
              Consume, LoseDelivery, AssignJob, DiscardJob, Process, FinalizeJob, AckJob,
              HandleFailure, schedulerVars
<1>7. ASSUME NEW t \in retries, RetryStep(t) PROVE UNCHANGED pending
  BY <1>7 DEF RetryStep, RetryPublish, RetryAck, RetryUpdate, RetryAbort, schedulerVars
<1> QED BY <1>3, <1>4, <1>5, <1>6, <1>7 DEF Next, vars, schedulerVars

\* Nothing travels before the first request.
LEMMA InitKnown == Init => KnownInv
<1> SUFFICES ASSUME Init PROVE KnownInv
  OBVIOUS
<1>1. Stored /\ JobKnown /\ RetryKnown /\ SweepKnown
  BY DEF Init, Stored, JobKnown, RetryKnown, SweepKnown
<1>2. StreamKnown
  BY DEF Init, QueueInit, StreamKnown
<1> QED BY <1>1, <1>2, InitLifecycle DEF KnownInv

\* No step sends anything unknown on its way.
LEMMA StepKnown == KnownInv /\ [Next]_vars => KnownInv'
<1> SUFFICES ASSUME KnownInv, [Next]_vars PROVE KnownInv'
  OBVIOUS
<1>1. LifecycleInv'
  BY StepLifecycle DEF KnownInv
<1> QED BY <1>1, StoredStep, StreamKnownStep, JobStep, SweepStep DEF KnownInv

\* The event is persisted before it is published: whatever is in a stream, with
\* a worker, with a retry goroutine or in a sweep has a row in the event table.
THEOREM PersistedFirst == Spec => []NoDangling
<1>1. KnownInv => NoDangling
  BY DEF KnownInv, StreamKnown, JobKnown, RetryKnown, SweepKnown, Known, NoDangling
<1> QED BY <1>1, InitKnown, StepKnown, PTL DEF Spec

\* No message, job or snapshot carries an attempt number that the database has
\* not counted yet, whatever is lost, delivered twice or recovered.
THEOREM AttemptsCountedFirst == Spec => []PayloadNeverAhead
<1>1. KnownInv => PayloadNeverAhead
  BY DEF KnownInv, StreamKnown, JobKnown, RetryKnown, SweepKnown, Known, PayloadNeverAhead
<1> QED BY <1>1, InitKnown, StepKnown, PTL DEF Spec

-----------------------------------------------------------------------------
(* One holder per delivery.                                                *)

Slot(j)  == <<j.queue, j.receipt>>
Unacked  == {t \in retries : t.step # "update"}

\* The pending list holds positions the group has passed.
PelPassed == \A x \in pel : group /\ x[2] <= lastDelivered[x[1]]

LoopsHold   == \A w \in Workers : job[w] # NULL => Slot(job[w]) \in pel
RetriesHold == \A t \in Unacked : Slot(t.job) \in pel

\* ReceiptExclusive, by kind of holder.
LoopsApart   == \A v, w \in Workers :
                  job[v] # NULL /\ job[w] # NULL /\ Slot(job[v]) = Slot(job[w]) => v = w
RetriesApart == \A t, u \in Unacked : Slot(t.job) = Slot(u.job) => t = u
KindsApart   == \A w \in Workers, t \in Unacked : job[w] # NULL => Slot(job[w]) # Slot(t.job)

HeldInv ==
  TypeOK /\ PelPassed /\ LoopsHold /\ RetriesHold /\ LoopsApart /\ RetriesApart /\ KindsApart

\* The kinds of holder together are all of them.
LEMMA HeldExclusive == HeldInv => ReceiptExclusive
<1> SUFFICES ASSUME HeldInv, NEW h \in Holders
    PROVE  /\ <<JobOf(h).queue, JobOf(h).receipt>> \in pel
           /\ \A g \in Holders :
                JobOf(g).queue = JobOf(h).queue /\ JobOf(g).receipt = JobOf(h).receipt => g = h
  BY DEF ReceiptExclusive
<1>1. \A g \in Holders :
        \/ \E w \in Workers : g = <<"loop", w>> /\ job[w] # NULL /\ JobOf(g) = job[w]
        \/ \E t \in Unacked : g = <<"retry", t>> /\ JobOf(g) = t.job
  BY DEF Holders, Unacked, JobOf
<1>2. \A g \in Holders : Slot(JobOf(g)) \in pel
  BY <1>1 DEF HeldInv, LoopsHold, RetriesHold
<1>3. \A g \in Holders : Slot(JobOf(g)) = Slot(JobOf(h)) => g = h
  BY <1>1 DEF HeldInv, LoopsApart, RetriesApart, KindsApart
<1> QED BY <1>2, <1>3 DEF Slot

\* Holders that keep what they held, or let go of it, are still apart.
LEMMA HeldKept ==
  ASSUME HeldInv, TypeOK', PelPassed',
         \A w \in Workers : job'[w] # NULL =>
           /\ job[w] # NULL /\ Slot(job'[w]) = Slot(job[w])
           /\ Slot(job[w]) \in pel',
         \A t \in Unacked' : t \in Unacked /\ Slot(t.job) \in pel'
  PROVE  HeldInv'
<1>1. LoopsHold' /\ RetriesHold'
  BY DEF LoopsHold, RetriesHold, Slot
<1>2. LoopsApart'
  <2> SUFFICES ASSUME NEW v \in Workers, NEW w \in Workers, job'[v] # NULL, job'[w] # NULL,
                      Slot(job'[v]) = Slot(job'[w])
               PROVE  v = w
    BY DEF LoopsApart, Slot
  <2>1. job[v] # NULL /\ job[w] # NULL /\ Slot(job[v]) = Slot(job[w])
    OBVIOUS
  <2> QED BY <2>1 DEF HeldInv, LoopsApart
<1>3. RetriesApart'
  BY DEF HeldInv, RetriesApart, Slot
<1>4. KindsApart'
  <2> SUFFICES ASSUME NEW w \in Workers, NEW t \in Unacked', job'[w] # NULL
               PROVE  Slot(job'[w]) # Slot(t.job)
    BY DEF KindsApart, Slot
  <2>1. job[w] # NULL /\ Slot(job'[w]) = Slot(job[w]) /\ t \in Unacked
    OBVIOUS
  <2> QED BY <2>1 DEF HeldInv, KindsApart
<1> QED BY <1>1, <1>2, <1>3, <1>4 DEF HeldInv

\* Consume hands out an entry nobody holds, because the group had not passed it.
LEMMA ConsumeHolds ==
  ASSUME HeldInv, NEW w \in Workers, Consume(w) PROVE HeldInv'
<1> USE DEF HeldInv, TypeOK
<1>1. PICK s \in Streams : Deliver(s) /\ job' = [job EXCEPT ![w] = NextJob(s)]
  BY DEF Consume
<1> DEFINE slot == <<s, lastDelivered[s] + 1>>
<1>2. /\ TypeOK' /\ UNCHANGED retries
      /\ job[w] = NULL
  BY PickupType DEF Consume, ActorTypeOK
<1>3. /\ NextJob(s).queue = s /\ NextJob(s).receipt = lastDelivered[s] + 1
      /\ lastDelivered' = [lastDelivered EXCEPT ![s] = lastDelivered[s] + 1]
      /\ pel' = pel \cup {slot} /\ group' /\ group
  BY <1>1, DeliverEffect DEF Deliver
<1>4. lastDelivered \in [Streams -> Nat] /\ pel \subseteq Streams \X Nat
  BY DEF QueueTypeOK
<1>5. slot \notin pel
  BY <1>4 DEF PelPassed
<1>6. PelPassed'
  BY <1>3, <1>4 DEF PelPassed
<1>7. \A v \in Workers : v # w => job'[v] = job[v]
  BY <1>1 DEF ActorTypeOK
<1>8. Slot(job'[w]) = slot
  BY <1>1, <1>3 DEF Slot, ActorTypeOK
<1> HIDE DEF slot
<1>9. \A v \in Workers : v # w /\ job'[v] # NULL => Slot(job'[v]) \in pel /\ Slot(job'[v]) # slot
  BY <1>5, <1>7 DEF LoopsHold
<1>10. Unacked' = Unacked /\ \A t \in Unacked : Slot(t.job) \in pel /\ Slot(t.job) # slot
  BY <1>2, <1>5 DEF Unacked, RetriesHold
<1>11. LoopsHold' /\ RetriesHold'
  BY <1>3, <1>8, <1>9, <1>10 DEF LoopsHold, RetriesHold, Slot
<1>12. LoopsApart'
  BY <1>7, <1>8, <1>9 DEF LoopsApart, Slot
<1>13. RetriesApart' /\ KindsApart'
  BY <1>7, <1>8, <1>10 DEF RetriesApart, KindsApart, Slot
<1> QED BY <1>2, <1>6, <1>11, <1>12, <1>13

\* An acknowledgement takes away only what its caller held.
LEMMA AckHolds ==
  ASSUME HeldInv, NEW w \in Workers, DiscardJob(w) \/ AckJob(w) PROVE HeldInv'
<1> USE DEF HeldInv, TypeOK
<1>1. job[w] \in Jobs /\ job[w] # NULL
  BY HasJob, PipelineAssumption DEF DiscardJob, AckJob
<1>2. /\ pel' = pel \/ pel' = pel \ {Slot(job[w])}
      /\ UNCHANGED <<group, lastDelivered>>
      /\ job' = [job EXCEPT ![w] = NULL] /\ UNCHANGED retries
  BY <1>1, AckEffect DEF DiscardJob, AckJob, Slot
<1>3. TypeOK'
  BY PickupType, OutcomeType
<1>4. PelPassed'
  BY <1>2 DEF PelPassed
<1>5. \A v \in Workers : job'[v] # NULL => v # w /\ job'[v] = job[v]
  BY <1>2 DEF ActorTypeOK
<1>6. \A v \in Workers : job'[v] # NULL => Slot(job[v]) \in pel'
  BY <1>1, <1>2, <1>5 DEF LoopsHold, LoopsApart
<1>7. Unacked' = Unacked /\ \A t \in Unacked' : Slot(t.job) \in pel'
  BY <1>1, <1>2 DEF RetriesHold, KindsApart, Unacked
<1> QED BY <1>3, <1>4, <1>5, <1>6, <1>7, HeldKept

\* handleFailure keeps the entry, or leaves it to one goroutine.
LEMMA FailureHolds ==
  ASSUME HeldInv, NEW w \in Workers, HandleFailure(w) PROVE HeldInv'
<1> USE DEF HeldInv, TypeOK
<1> DEFINE next == [job[w] EXCEPT !.attempt = @ + 1]
           t == [worker |-> w, job |-> next, step |-> "backoff"]
<1>1. job[w] \in Jobs /\ job[w] # NULL
  BY HasJob, PipelineAssumption DEF HandleFailure
<1>2. Slot(next) = Slot(job[w]) /\ t.job = next /\ t.step # "update"
  BY <1>1 DEF Slot, Jobs
<1>3. /\ \/ retries' = retries
         \/ retries' = retries \cup {t} /\ job' = [job EXCEPT ![w] = NULL]
      /\ job' = [job EXCEPT ![w] = NULL] \/ job' = [job EXCEPT ![w] = next]
      /\ UNCHANGED queueVars
  BY DEF HandleFailure
<1> HIDE DEF next, t
<1>4. TypeOK'
  BY OutcomeType
<1>5. UNCHANGED <<pel, group, lastDelivered>> /\ PelPassed'
  BY <1>3 DEF PelPassed, queueVars
<1>6. \A v \in Workers : job'[v] # NULL => job[v] # NULL /\ Slot(job'[v]) = Slot(job[v])
  BY <1>1, <1>2, <1>3 DEF ActorTypeOK
<1>7. CASE retries' = retries
  <2>1. Unacked' = Unacked
    BY <1>7 DEF Unacked
  <2> QED BY <1>4, <1>5, <1>6, <2>1, HeldKept DEF LoopsHold, RetriesHold
<1>8. CASE retries' = retries \cup {t} /\ job' = [job EXCEPT ![w] = NULL]
  <2>1. Unacked' = Unacked \cup {t}
    BY <1>2, <1>8 DEF Unacked
  <2>2. \A v \in Workers : job'[v] # NULL => v # w /\ job'[v] = job[v]
    BY <1>8 DEF ActorTypeOK
  <2>3. LoopsHold' /\ RetriesHold'
    BY <1>1, <1>2, <1>5, <2>1, <2>2 DEF LoopsHold, RetriesHold
  <2>4. LoopsApart'
    BY <2>2 DEF LoopsApart
  <2>5. RetriesApart' /\ KindsApart'
    BY <1>1, <1>2, <2>1, <2>2 DEF RetriesApart, KindsApart, LoopsApart
  <2> QED BY <1>4, <1>5, <2>3, <2>4, <2>5
<1> QED BY <1>3, <1>7, <1>8

\* The goroutine keeps the entry until it has acknowledged it.
LEMMA RetryHolds ==
  ASSUME HeldInv, NEW t \in retries, RetryPublish(t) \/ RetryAck(t) PROVE HeldInv'
<1> USE DEF HeldInv, TypeOK
<1>1. /\ t \in Unacked /\ t.job \in Jobs /\ t \in Retries
      /\ t.job.event \in EventIds /\ t.job.attempt \in Nat
  BY DEF RetryPublish, RetryAck, Unacked, ActorTypeOK, Retries, Jobs
<1>2. TypeOK' /\ UNCHANGED job
  BY RetryType DEF RetryStep, RetryPublish, RetryAck
<1>3. CASE RetryPublish(t)
  <2> DEFINE u == [t EXCEPT !.step = "ack"]
  <2>1. UNCHANGED <<pel, group, lastDelivered>>
        /\ (retries' = (retries \ {t}) \cup {u} \/ retries' = retries \ {t})
    BY <1>1, <1>3, PublishEffect DEF RetryPublish, Advance
  <2>2. u.job = t.job /\ u.step # "update"
    BY <1>1 DEF Retries
  <2> HIDE DEF u
  <2>3. Unacked' = (Unacked \ {t}) \cup {u} \/ Unacked' = Unacked \ {t}
    BY <2>1, <2>2 DEF Unacked
  <2>4. PelPassed'
    BY <2>1 DEF PelPassed
  <2>5. LoopsHold' /\ RetriesHold'
    BY <1>1, <1>2, <2>1, <2>2, <2>3 DEF LoopsHold, RetriesHold
  <2>6. LoopsApart'
    BY <1>2 DEF LoopsApart
  <2>7. RetriesApart' /\ KindsApart'
    BY <1>1, <1>2, <2>2, <2>3 DEF RetriesApart, KindsApart
  <2> QED BY <1>2, <2>4, <2>5, <2>6, <2>7
<1>4. CASE RetryAck(t)
  <2> DEFINE u == [t EXCEPT !.step = "update"]
  <2>1. /\ pel' = pel \/ pel' = pel \ {Slot(t.job)}
        /\ UNCHANGED <<group, lastDelivered>>
        /\ retries' = (retries \ {t}) \cup {u} \/ retries' = retries \ {t}
    BY <1>1, <1>4, AckEffect DEF RetryAck, Advance, Slot
  <2>2. u.step = "update"
    BY <1>1 DEF Retries
  <2> HIDE DEF u
  <2>3. Unacked' = Unacked \ {t}
    BY <2>1, <2>2 DEF Unacked
  <2>4. PelPassed'
    BY <2>1 DEF PelPassed
  <2>5. \A v \in Workers : job[v] # NULL => Slot(job[v]) \in pel'
    BY <1>1, <2>1 DEF LoopsHold, KindsApart
  <2>6. \A x \in Unacked' : x \in Unacked /\ Slot(x.job) \in pel'
    BY <1>1, <2>1, <2>3 DEF RetriesHold, RetriesApart
  <2> QED BY <1>2, <2>4, <2>5, <2>6, HeldKept
<1> QED BY <1>3, <1>4

\* Every step leaves each delivery with one holder at most.
LEMMA StepHeld == HeldInv /\ [Next]_vars => HeldInv'
<1> SUFFICES ASSUME HeldInv, [Next]_vars PROVE HeldInv'
  OBVIOUS
<1>1. TypeOK'
  BY StepType DEF HeldInv
<1>2. CASE Drops
  <2>1. PelPassed'
    BY <1>2 DEF HeldInv, Drops, PelPassed
  <2>2. Unacked' \subseteq Unacked
    BY <1>2 DEF Drops, Unacked
  <2>3. \A w \in Workers : job'[w] # NULL => job[w] # NULL /\ job'[w] = job[w]
    BY <1>2 DEF Drops
  <2>4. \A w \in Workers : job'[w] # NULL => Slot(job[w]) \in pel'
    BY <1>2, <2>3 DEF HeldInv, Drops, LoopsHold
  <2>5. \A t \in Unacked' : t \in Unacked /\ Slot(t.job) \in pel'
    BY <1>2, <2>2 DEF HeldInv, Drops, RetriesHold
  <2> QED BY <1>1, <2>1, <2>3, <2>4, <2>5, HeldKept
<1>3. ASSUME NEW w \in Workers, LoseDelivery(w) PROVE HeldInv'
  <2>1. PICK s \in Streams : Deliver(s) /\ UNCHANGED <<job, retries>>
    BY <1>3 DEF LoseDelivery, workerVars
  <2>2. /\ lastDelivered' = [lastDelivered EXCEPT ![s] = lastDelivered[s] + 1]
        /\ pel' = pel \cup {<<s, lastDelivered[s] + 1>>} /\ group' /\ group
    BY <2>1, DeliverEffect DEF Deliver, HeldInv, TypeOK
  <2>3. PelPassed'
    BY <2>2 DEF HeldInv, TypeOK, QueueTypeOK, PelPassed
  <2>4. Unacked' = Unacked
    BY <2>1 DEF Unacked
  <2> QED BY <1>1, <2>1, <2>2, <2>3, <2>4, HeldKept DEF HeldInv, LoopsHold, RetriesHold
<1> QED
  BY <1>2, <1>3, StepKinds, ConsumeHolds, AckHolds, FailureHolds, RetryHolds
     DEF HeldInv, HandOver

\* A delivered entry is in the hands of one job loop or one retry goroutine
\* until that one acknowledges it: nobody acknowledges what another still needs.
THEOREM DeliveryExclusive == Spec => []ReceiptExclusive
<1>1. Init => HeldInv
  BY InitType DEF Init, QueueInit, HeldInv, PelPassed, LoopsHold, RetriesHold, LoopsApart,
                  RetriesApart, KindsApart, Unacked
<1> QED BY <1>1, StepHeld, HeldExclusive, PTL DEF Spec

-----------------------------------------------------------------------------
(* The answers of the API.                                                 *)

Answered == \A e \in EventIds : api[e] \in {"published", "202"} => Messages(e) # {}

\* A message stays, and a request goes on only after its publication.
LEMMA AnsweredStep == ASSUME KnownInv, Answered, [Next]_vars PROVE Answered'
<1> USE DEF KnownInv, LifecycleInv, TypeOK
<1>1. \A e \in EventIds : Messages(e) # {} => Messages(e)' # {}
  <2> SUFFICES ASSUME NEW e \in EventIds, NEW i \in Messages(e) PROVE i \in Messages(e)'
    OBVIOUS
  <2> QED BY EntriesStay, StreamOfType DEF Messages
<1>2. CASE UNCHANGED api
  BY <1>1, <1>2 DEF Answered
<1>3. ASSUME NEW e \in EventIds, RequestStep(e) PROVE Answered'
  <2>1. \A x \in EventIds : x # e => api'[x] = api[x]
    BY <1>3 DEF RequestStep, RejectRequest, CreateEvent, PublishEvent, MarkQueued,
                AbortRequest, ActorTypeOK
  <2>2. CASE PublishEvent(e)
    <3>1. api'[e] = "published" => Appended(e, 0)
      BY <2>2, PublishEffect DEF PublishEvent, ActorTypeOK, Appended
    <3>2. Appended(e, 0) => Messages(e)' # {}
      <4> DEFINE q == stream[StreamOf(e)]
                 x == [event |-> e, attempt |-> 0]
      <4>1. q \in Seq(Entries) /\ x \in Entries
        BY StreamOfType DEF QueueTypeOK, Entries
      <4>2. Len(q) + 1 \in DOMAIN Append(q, x) /\ Append(q, x)[Len(q) + 1].event = e
        BY <4>1
      <4>3. Appended(e, 0) => stream'[StreamOf(e)] = Append(q, x)
        BY StreamOfType DEF Appended, QueueTypeOK
      <4> HIDE DEF q, x
      <4> QED BY <4>2, <4>3 DEF Messages
    <3>3. api'[e] \in {"published", "500"}
      BY <2>2 DEF PublishEvent, ActorTypeOK
    <3> QED BY <1>1, <2>1, <3>1, <3>2, <3>3 DEF Answered
  <2>3. CASE RejectRequest(e) \/ CreateEvent(e) \/ MarkQueued(e) \/ AbortRequest(e)
    <3>1. api'[e] \in {"published", "202"} => api[e] = "published"
      BY <2>3 DEF RejectRequest, CreateEvent, MarkQueued, AbortRequest, ActorTypeOK
    <3> QED BY <1>1, <2>1, <3>1 DEF Answered
  <2> QED BY <1>3, <2>2, <2>3 DEF RequestStep
<1> QED BY <1>2, <1>3, ApiUnchanged

\* The client that is answered 202 may rely on it: the event has a row and is in
\* its stream; after a 400 neither is there.
THEOREM AnswersHonest == Spec => []ResponseHonest
<1>1. Init => Answered
  BY DEF Init, Answered
<1>2. KnownInv /\ Answered /\ [Next]_vars => Answered'
  BY AnsweredStep
<1>3. KnownInv /\ Answered => ResponseHonest
  <2> SUFFICES ASSUME KnownInv, Answered, NEW e \in EventIds
      PROVE  /\ api[e] = "202" => status[e] # Absent /\ Messages(e) # {}
             /\ api[e] = "400" => status[e] = Absent /\ Messages(e) = {}
    BY DEF ResponseHonest
  <2>1. status[e] = Absent => Messages(e) = {}
    BY StreamOfType DEF KnownInv, StreamKnown, Known, Messages
  <2> QED BY <2>1 DEF KnownInv, LifecycleInv, Fresh, Stored, Answered
<1> QED BY <1>1, <1>2, <1>3, InitKnown, StepKnown, PTL DEF Spec

-----------------------------------------------------------------------------
(* How often an event is published.  Each publication is paid for: by the  *)
(* request, by the goroutine of a failed attempt, or by a scheduler, which *)
(* may sweep the event once for every failed attempt.                      *)

\* No call fails, no scheduler dies, and the names of the workers are those of
\* NewPool: the conditions under which the number of messages is bounded.
Faultless ==
  /\ MayFault = FALSE
  /\ Schedulers \cap CrashProne = {}
  /\ UUIDWorkers = {}
  /\ IsFiniteSet(Schedulers)

\* The publications still to come: the request's, those of the goroutines that
\* wait, and those of the schedulers that hold the event or will find it.
Unsent(e)   == IF api[e] \in {"idle", "created"} THEN 1 ELSE 0
Backoffs(e) == {t \in retries : t.step = "backoff" /\ t.job.event = e}
Holds(s, e) == sweep[s] = "RETRYING" /\ \E x \in pending[s] : x.event = e
Requeues(s, e) == recovering[s] # NULL /\ recovering[s].event = e
Sweepers(e) ==
  {s \in Schedulers : (status[e] = "RETRYING" \/ Holds(s, e)) /\ ~Requeues(s, e)}

Spent(e) ==
  Cardinality(Messages(e)) + Unsent(e) + Cardinality(Backoffs(e)) + Cardinality(Sweepers(e))

Budget(e) == 1 + attempt[e] * (1 + Cardinality(Schedulers))

\* No sweep has two rows of one event.
OneRowEach == \A s \in Schedulers : \A x, y \in pending[s] : x.event = y.event => x = y

BudgetInv ==
  /\ ExclusiveInv /\ OneRowEach /\ IsFiniteSet(retries)
  /\ \A e \in EventIds : Spent(e) <= Budget(e)

\* What a step may do to the account of an event: let publications lapse,
\* make one that was to come, or count a failed attempt.
Lapses(e) ==
  /\ Unsent(e)' <= Unsent(e)
  /\ Backoffs(e)' \subseteq Backoffs(e)
  /\ Sweepers(e)' \subseteq Sweepers(e)

Keeps(e) == UNCHANGED Messages(e) /\ attempt'[e] = attempt[e] /\ Lapses(e)

Sends(e) ==
  /\ \E i : Messages(e)' = Messages(e) \cup {i}
  /\ attempt'[e] = attempt[e]
  /\ Lapses(e)
  /\ \/ Unsent(e) = 1 /\ Unsent(e)' = 0
     \/ \E t \in Backoffs(e) : t \notin Backoffs(e)'
     \/ \E s \in Sweepers(e) : s \notin Sweepers(e)'

Fails(e) ==
  /\ UNCHANGED Messages(e)
  /\ attempt'[e] = attempt[e] + 1
  /\ Unsent(e)' <= Unsent(e)
  /\ \E t : Backoffs(e)' \subseteq Backoffs(e) \cup {t}

\* The sets that are counted are finite.
Countable(e) ==
  /\ IsFiniteSet(Messages(e)) /\ Cardinality(Messages(e)) \in Nat
  /\ IsFiniteSet(Backoffs(e)) /\ Cardinality(Backoffs(e)) \in Nat
  /\ IsFiniteSet(Sweepers(e)) /\ Cardinality(Sweepers(e)) \in Nat
  /\ Cardinality(Sweepers(e)) <= Cardinality(Schedulers)
  /\ Unsent(e) \in {0, 1}
  /\ attempt[e] \in Nat

LEMMA AccountFinite ==
  IsFiniteSet(Schedulers) /\ TypeOK /\ IsFiniteSet(retries) =>
    \A e \in EventIds : Countable(e)
<1> SUFFICES ASSUME TypeOK, IsFiniteSet(retries), IsFiniteSet(Schedulers), NEW e \in EventIds
    PROVE  Countable(e)
  OBVIOUS
<1>1. Len(stream[StreamOf(e)]) \in Nat
      /\ DOMAIN stream[StreamOf(e)] = 1..Len(stream[StreamOf(e)])
  BY StreamOfType DEF TypeOK, QueueTypeOK
<1>2. IsFiniteSet(1..Len(stream[StreamOf(e)]))
  BY <1>1, FS_Interval
<1>3. Messages(e) \subseteq 1..Len(stream[StreamOf(e)])
  BY <1>1 DEF Messages
<1>4. Backoffs(e) \subseteq retries /\ Sweepers(e) \subseteq Schedulers
  BY DEF Backoffs, Sweepers
<1>5. IsFiniteSet(Messages(e)) /\ IsFiniteSet(Backoffs(e)) /\ IsFiniteSet(Sweepers(e))
  BY <1>2, <1>3, <1>4, FS_Subset
<1>6. Cardinality(Sweepers(e)) <= Cardinality(Schedulers)
  BY <1>4, FS_Subset
<1>7. attempt[e] \in Nat
  BY DEF TypeOK, StoreTypeOK
<1> QED BY <1>5, <1>6, <1>7, FS_CardinalityType DEF Unsent, Countable

\* A smaller set, and a set one element larger or smaller.
LEMMA Counts ==
  ASSUME NEW S, IsFiniteSet(S), NEW T
  PROVE  /\ T \subseteq S => IsFiniteSet(T) /\ Cardinality(T) <= Cardinality(S)
         /\ \A x : T \subseteq S \cup {x} =>
              IsFiniteSet(T) /\ Cardinality(T) <= Cardinality(S) + 1
         /\ \A x \in S : T \subseteq S /\ x \notin T => Cardinality(T) <= Cardinality(S) - 1
<1>1. T \subseteq S => IsFiniteSet(T) /\ Cardinality(T) <= Cardinality(S)
  BY FS_Subset
<1>2. ASSUME NEW x, T \subseteq S \cup {x}
      PROVE  IsFiniteSet(T) /\ Cardinality(T) <= Cardinality(S) + 1
  <2>1. IsFiniteSet(S \cup {x}) /\ Cardinality(S) \in Nat
        /\ Cardinality(S \cup {x}) \in {Cardinality(S), Cardinality(S) + 1}
    BY FS_AddElement, FS_CardinalityType
  <2>2. IsFiniteSet(T) /\ Cardinality(T) <= Cardinality(S \cup {x})
    BY <1>2, <2>1, FS_Subset
  <2>3. Cardinality(T) \in Nat
    BY <2>2, FS_CardinalityType
  <2> QED BY <2>1, <2>2, <2>3
<1>3. ASSUME NEW x \in S, T \subseteq S, x \notin T
      PROVE  Cardinality(T) <= Cardinality(S) - 1
  <2>1. IsFiniteSet(S \ {x}) /\ Cardinality(S \ {x}) = Cardinality(S) - 1
    BY FS_RemoveElement
  <2>2. T \subseteq S \ {x}
    BY <1>3
  <2>3. Cardinality(T) <= Cardinality(S \ {x})
    BY <2>1, <2>2, FS_Subset
  <2> QED BY <2>1, <2>3
<1> QED BY <1>1, <1>2, <1>3

\* One more attempt adds a retry and a sweep by each scheduler to the budget.
LEMMA BudgetGrows ==
  ASSUME NEW a \in Nat, NEW n \in Nat
  PROVE  a * (1 + n) \in Nat /\ (a + 1) * (1 + n) = a * (1 + n) + 1 + n
OBVIOUS

\* Whatever the step does to the account, the budget covers it.
LEMMA AccountKept ==
  ASSUME IsFiniteSet(Schedulers), NEW e \in EventIds, Countable(e), Countable(e)',
         Spent(e) <= Budget(e), Keeps(e) \/ Sends(e) \/ Fails(e)
  PROVE  Spent(e)' <= Budget(e)'
<1>1. Cardinality(Schedulers) \in Nat /\ Cardinality(Schedulers)' = Cardinality(Schedulers)
  BY FS_CardinalityType
<1>2. ASSUME Lapses(e)
      PROVE  /\ Unsent(e)' <= Unsent(e)
             /\ Cardinality(Backoffs(e))' <= Cardinality(Backoffs(e))
             /\ Cardinality(Sweepers(e))' <= Cardinality(Sweepers(e))
  BY <1>2, Counts DEF Lapses, Countable
<1>3. ASSUME attempt'[e] = attempt[e], Spent(e)' <= Spent(e)
      PROVE  Spent(e)' <= Budget(e)'
  <2>1. Budget(e)' = Budget(e) /\ Budget(e) \in Nat
    BY <1>1, <1>3, BudgetGrows DEF Budget, Countable
  <2>2. Spent(e) \in Nat /\ Spent(e)' \in Nat
    BY DEF Spent, Countable
  <2> QED BY <1>3, <2>1, <2>2
<1>4. CASE Keeps(e)
  <2>1. Cardinality(Messages(e))' = Cardinality(Messages(e)) /\ attempt'[e] = attempt[e]
    BY <1>4 DEF Keeps
  <2>2. Spent(e)' <= Spent(e)
    BY <1>2, <1>4, <2>1 DEF Keeps, Spent, Countable
  <2> QED BY <1>3, <2>1, <2>2
<1>5. CASE Sends(e)
  <2>1. Cardinality(Messages(e))' <= Cardinality(Messages(e)) + 1 /\ attempt'[e] = attempt[e]
    BY <1>5, Counts DEF Sends, Countable
  <2>2. \/ Unsent(e)' <= Unsent(e) - 1
        \/ Cardinality(Backoffs(e))' <= Cardinality(Backoffs(e)) - 1
        \/ Cardinality(Sweepers(e))' <= Cardinality(Sweepers(e)) - 1
    BY <1>5, Counts DEF Sends, Lapses, Countable
  <2>3. Spent(e)' <= Spent(e)
    BY <1>2, <1>5, <2>1, <2>2 DEF Sends, Spent, Countable
  <2> QED BY <1>3, <2>1, <2>3
<1>6. CASE Fails(e)
  <2>1. /\ Cardinality(Messages(e))' = Cardinality(Messages(e))
        /\ attempt'[e] = attempt[e] + 1
        /\ Unsent(e)' <= Unsent(e)
        /\ Cardinality(Backoffs(e))' <= Cardinality(Backoffs(e)) + 1
    BY <1>6, Counts DEF Fails, Countable
  <2>2. Budget(e)' = Budget(e) + 1 + Cardinality(Schedulers) /\ Budget(e) \in Nat
    BY <1>1, <2>1, BudgetGrows DEF Budget, Countable
  <2>3. Spent(e)' <= Spent(e) + 1 + Cardinality(Schedulers)
    BY <1>1, <2>1 DEF Spent, Countable
  <2>4. Spent(e) \in Nat /\ Spent(e)' \in Nat
    BY DEF Spent, Countable
  <2> QED BY <1>1, <2>2, <2>3, <2>4
<1> QED BY <1>4, <1>5, <1>6

\* A publication adds one message of its event.
LEMMA MessageAdded ==
  ASSUME QueueTypeOK, NEW e \in EventIds, NEW a \in Nat, Appended(e, a)
  PROVE  /\ Messages(e)' = Messages(e) \cup {Len(stream[StreamOf(e)]) + 1}
         /\ \A x \in EventIds : x # e => UNCHANGED Messages(x)
<1> DEFINE q == stream[StreamOf(e)]
           m == [event |-> e, attempt |-> a]
<1>1. q \in Seq(Entries) /\ m \in Entries /\ m.event = e
  BY StreamOfType DEF QueueTypeOK, Entries
<1>2. /\ stream'[StreamOf(e)] = Append(q, m)
      /\ \A s \in Streams : s # StreamOf(e) => stream'[s] = stream[s]
  BY StreamOfType DEF Appended, QueueTypeOK
<1>3. /\ DOMAIN Append(q, m) = DOMAIN q \cup {Len(q) + 1}
      /\ Len(q) + 1 \notin DOMAIN q
      /\ Append(q, m)[Len(q) + 1] = m
      /\ \A i \in DOMAIN q : Append(q, m)[i] = q[i]
  BY <1>1
<1> HIDE DEF m
<1>4. Messages(e)' = Messages(e) \cup {Len(q) + 1}
  BY <1>1, <1>2, <1>3 DEF Messages
<1>5. ASSUME NEW x \in EventIds, x # e PROVE UNCHANGED Messages(x)
  <2>1. CASE StreamOf(x) = StreamOf(e)
    BY <1>1, <1>2, <1>3, <1>5, <2>1 DEF Messages
  <2>2. CASE StreamOf(x) # StreamOf(e)
    BY <1>2, <2>2, StreamOfType DEF Messages
  <2> QED BY <2>1, <2>2
<1> QED BY <1>4, <1>5

\* The messages stay the same as long as the streams do.
LEMMA MessagesSame == UNCHANGED stream => \A x \in EventIds : UNCHANGED Messages(x)
BY DEF Messages

\* Without a new failure a step that leaves the scheduler alone gives no
\* scheduler anything to sweep.
LEMMA SweepersLapse ==
  ASSUME UNCHANGED schedulerVars, NEW x, status'[x] = "RETRYING" => status[x] = "RETRYING"
  PROVE  Sweepers(x)' \subseteq Sweepers(x)
BY DEF Sweepers, Holds, Requeues, schedulerVars

\* A request publishes its event once.
LEMMA RequestAccount ==
  ASSUME TypeOK, NEW e \in EventIds, RequestStep(e), NEW x \in EventIds
  PROVE  (Keeps(x) \/ Sends(x)) /\ UNCHANGED <<retries, pending>>
<1> USE DEF TypeOK
<1>1. /\ UNCHANGED <<retries, schedulerVars, attempt>>
      /\ \A y \in EventIds : y # e => api'[y] = api[y]
  BY CreateEffect, UpdateStatusEffect
     DEF RequestStep, RejectRequest, CreateEvent, PublishEvent, MarkQueued, AbortRequest,
         workerVars, storeVars, ActorTypeOK, Create, UpdateStatus
<1>2. status'[x] = "RETRYING" => status[x] = "RETRYING"
  <2>1. CASE CreateEvent(e)
    BY <2>1, CreateEffect DEF CreateEvent, StoreTypeOK
  <2>2. CASE MarkQueued(e)
    BY <2>2, UpdateStatusEffect DEF MarkQueued, Statuses, StoreTypeOK
  <2>3. CASE UNCHANGED storeVars
    BY <2>3 DEF storeVars
  <2> QED BY <2>1, <2>2, <2>3 DEF RequestStep, RejectRequest, PublishEvent, AbortRequest
<1>3. Sweepers(x)' \subseteq Sweepers(x) /\ Backoffs(x)' = Backoffs(x) /\ attempt'[x] = attempt[x]
  BY <1>1, <1>2, SweepersLapse DEF Backoffs
<1>4. ASSUME PublishEvent(e) PROVE Keeps(x) \/ Sends(x)
  <2>1. Unsent(e) = 1 /\ Unsent(e)' = 0
    BY <1>4 DEF PublishEvent, Unsent, ActorTypeOK
  <2>2. x # e => Unsent(x)' = Unsent(x)
    BY <1>1 DEF Unsent
  <2>3. UNCHANGED stream \/ Appended(e, 0)
    BY <1>4, PublishEffect DEF PublishEvent, Appended
  <2>4. CASE UNCHANGED stream
    BY <1>3, <2>1, <2>2, <2>4, MessagesSame DEF Keeps, Lapses, Unsent
  <2>5. CASE Appended(e, 0)
    <3>1. /\ \E i : Messages(e)' = Messages(e) \cup {i}
          /\ x # e => UNCHANGED Messages(x)
      BY <2>5, MessageAdded
    <3>2. CASE x = e
      <4>1. Unsent(x) = 1 /\ Unsent(x)' = 0 /\ \E i : Messages(x)' = Messages(x) \cup {i}
        BY <2>1, <3>1, <3>2
      <4>2. Lapses(x)
        BY <1>3, <4>1 DEF Lapses
      <4> QED BY <1>3, <4>1, <4>2 DEF Sends
    <3>3. CASE x # e
      BY <1>3, <2>2, <3>1, <3>3 DEF Keeps, Lapses, Unsent
    <3> QED BY <3>2, <3>3
  <2> QED BY <2>3, <2>4, <2>5
<1>5. ASSUME RejectRequest(e) \/ CreateEvent(e) \/ MarkQueued(e) \/ AbortRequest(e)
      PROVE  Keeps(x)
  <2>1. UNCHANGED stream /\ Unsent(e)' <= Unsent(e)
    BY <1>5 DEF RejectRequest, CreateEvent, MarkQueued, AbortRequest, Unsent, ActorTypeOK,
                queueVars
  <2>2. Unsent(x)' <= Unsent(x)
    BY <1>1, <2>1 DEF Unsent
  <2> QED BY <1>3, <2>1, <2>2, MessagesSame DEF Keeps, Lapses
<1> QED BY <1>1, <1>4, <1>5 DEF RequestStep, schedulerVars

\* A retry goroutine publishes its event once.
LEMMA RetryAccount ==
  ASSUME TypeOK, NEW t \in retries, RetryStep(t), NEW x \in EventIds
  PROVE  /\ Keeps(x) \/ Sends(x)
         /\ UNCHANGED pending
         /\ \E u : retries' \subseteq retries \cup {u}
<1> USE DEF TypeOK
<1>1. t.job.event \in EventIds /\ t.job.attempt \in Nat /\ t \in Retries
  BY DEF ActorTypeOK, Retries, Jobs
<1>2. UNCHANGED <<schedulerVars, attempt, api>>
  BY DEF RetryStep, RetryPublish, RetryAck, RetryUpdate, RetryAbort, UpdateStatus, storeVars
<1>3. status'[x] = "RETRYING" => status[x] = "RETRYING"
  <2>1. CASE RetryUpdate(t)
    BY <1>1, <2>1, UpdateStatusEffect DEF RetryUpdate, Statuses, StoreTypeOK
  <2>2. CASE UNCHANGED storeVars
    BY <2>2 DEF storeVars
  <2> QED BY <2>1, <2>2 DEF RetryStep, RetryPublish, RetryAck, RetryAbort
<1>4. /\ Sweepers(x)' \subseteq Sweepers(x) /\ attempt'[x] = attempt[x]
      /\ Unsent(x)' <= Unsent(x)
  BY <1>2, <1>3, SweepersLapse DEF Unsent
<1>5. /\ \E u : retries' \subseteq (retries \ {t}) \cup {u} /\ u.step # "backoff"
      /\ RetryPublish(t) => t.step = "backoff" /\ t \notin retries'
  <2>1. \A to \in {"ack", "update"} : [t EXCEPT !.step = to].step = to
    BY <1>1 DEF Retries
  <2> QED BY <1>1, <2>1 DEF RetryStep, RetryPublish, RetryAck, RetryUpdate, RetryAbort, Advance, Retries
<1>6. Backoffs(x)' \subseteq Backoffs(x)
  BY <1>5 DEF Backoffs
<1>7. ASSUME RetryPublish(t) PROVE Keeps(x) \/ Sends(x)
  <2>1. UNCHANGED stream \/ Appended(t.job.event, t.job.attempt)
    BY <1>1, <1>7, PublishEffect DEF RetryPublish, Appended
  <2>2. CASE UNCHANGED stream
    BY <1>4, <1>6, <2>2, MessagesSame DEF Keeps, Lapses
  <2>3. CASE Appended(t.job.event, t.job.attempt)
    <3>1. /\ \E i : Messages(t.job.event)' = Messages(t.job.event) \cup {i}
          /\ x # t.job.event => UNCHANGED Messages(x)
      BY <1>1, <2>3, MessageAdded
    <3>2. x = t.job.event => t \in Backoffs(x) /\ t \notin Backoffs(x)'
      BY <1>5, <1>7 DEF Backoffs
    <3> QED BY <1>4, <1>6, <3>1, <3>2 DEF Keeps, Sends, Lapses
  <2> QED BY <2>1, <2>2, <2>3
<1>8. ASSUME RetryAck(t) \/ RetryUpdate(t) \/ RetryAbort(t) PROVE Keeps(x)
  <2>1. UNCHANGED stream
    BY <1>8 DEF RetryAck, RetryUpdate, RetryAbort, Ack, queueVars
  <2> QED BY <1>4, <1>6, <2>1, MessagesSame DEF Keeps, Lapses
<1>9. UNCHANGED pending /\ \E u : retries' \subseteq retries \cup {u}
  BY <1>2, <1>5 DEF schedulerVars
<1> QED BY <1>7, <1>8, <1>9 DEF RetryStep

\* Where no call fails, a call with a live context does what it says.
LEMMA SureOutcome ==
  ASSUME MayFault = FALSE, NEW verdict \in Verdicts, NEW o \in Outcomes(verdict, "live")
  PROVE  o.res = verdict /\ (o.applied <=> verdict = "ok")
<1>1. o = [res |-> verdict, applied |-> verdict = "ok"]
  BY DEF Outcomes
<1> QED BY <1>1

\* An event becomes RETRYING only with a counted failure.
LEMMA TakenUp ==
  ASSUME TypeOK, NEW w \in Workers, AssignJob(w) \/ FinalizeJob(w), NEW x \in EventIds
  PROVE  UNCHANGED attempt /\ (status'[x] = "RETRYING" => status[x] = "RETRYING")
<1> USE DEF TypeOK
<1> DEFINE e == job[w].event
<1>1. e \in EventIds
  BY HasJob DEF AssignJob, FinalizeJob
<1>2. CASE AssignJob(w)
  <2>1. PICK res \in Results :
          AssignEvent(e, w, "QUEUED", "PROCESSING", ContextOf(w), res)
    BY <1>2 DEF AssignJob
  <2> HIDE DEF e
  <2> QED BY <1>1, <2>1, TakeUpEffect DEF StoreTypeOK, AssignEvent
<1>3. CASE FinalizeJob(w)
  <2>1. PICK res \in Results : FinalizeEvent(e, res)
    BY <1>3 DEF FinalizeJob
  <2> HIDE DEF e
  <2> QED BY <1>1, <2>1, FinalizeEffect DEF StoreTypeOK
<1> QED BY <1>2, <1>3

\* A worker step adds at most one goroutine, and leaves the sweeps alone.
LEMMA WorkerRetries ==
  ASSUME NEW w \in Workers, WorkerStep(w)
  PROVE  UNCHANGED pending /\ \E u : retries' \subseteq retries \cup {u}
<1>1. UNCHANGED pending
  BY DEF WorkerStep, LoopStep, Start, Stop, Crash, Ping, Expire, ExitLoop, Stopped,
         Consume, LoseDelivery, AssignJob, DiscardJob, Process, FinalizeJob, AckJob,
         HandleFailure, schedulerVars
<1>2. CASE HandleFailure(w)
  <2> DEFINE next == [job[w] EXCEPT !.attempt = @ + 1]
             u    == [worker |-> w, job |-> next, step |-> "backoff"]
  <2>1. retries' = retries \cup {u} \/ retries' = retries
    BY <1>2 DEF HandleFailure
  <2> HIDE DEF u
  <2> QED BY <1>1, <2>1
<1>3. ASSUME ~HandleFailure(w) PROVE retries' \subseteq retries
  BY <1>3
     DEF WorkerStep, LoopStep, Start, Stop, Crash, Ping, Expire, ExitLoop, Stopped,
         Consume, LoseDelivery, AssignJob, DiscardJob, Process, FinalizeJob, AckJob,
         workerVars
<1> QED BY <1>1, <1>2, <1>3

\* A worker publishes nothing; a failure it records pays for one goroutine.
LEMMA WorkerAccount ==
  ASSUME TypeOK, NEW w \in Workers, WorkerStep(w), NEW x \in EventIds
  PROVE  Keeps(x) \/ Fails(x)
<1> USE DEF TypeOK
<1>1. UNCHANGED <<stream, schedulerVars, api>>
  BY DEF WorkerStep, LoopStep, Start, Stop, Crash, Ping, Expire, ExitLoop, Stopped,
         Consume, LoseDelivery, AssignJob, DiscardJob, Process, FinalizeJob, AckJob,
         HandleFailure, InitConsumerGroups, Deliver, Ack, queueVars
<1>2. UNCHANGED <<Messages(x), Unsent(x)>>
  BY <1>1, MessagesSame DEF Unsent
<1>3. ASSUME attempt'[x] = attempt[x], retries' \subseteq retries,
             status'[x] = "RETRYING" => status[x] = "RETRYING"
      PROVE  Keeps(x)
  <2>1. Sweepers(x)' \subseteq Sweepers(x)
    BY <1>1, <1>3, SweepersLapse
  <2> QED BY <1>2, <1>3, <2>1 DEF Keeps, Lapses, Backoffs, Unsent
<1>4. ASSUME HandleFailure(w) PROVE Keeps(x) \/ Fails(x)
  <2> DEFINE e    == job[w].event
             next == [job[w] EXCEPT !.attempt = @ + 1]
             u    == [worker |-> w, job |-> next, step |-> "backoff"]
  <2>1. job[w] \in Jobs /\ e \in EventIds /\ next.event = e /\ u.job = next
    BY <1>4, HasJob DEF HandleFailure, Jobs
  <2>2. PICK res \in Results :
          /\ RecordFailure(e, res)
          /\ retries' = IF res = "ok" /\ FailureStatus(e) = "RETRYING"
                        THEN retries \cup {u} ELSE retries
    BY <1>4 DEF HandleFailure
  <2> HIDE DEF e, next, u
  <2>3. /\ \/ UNCHANGED <<status, attempt>>
           \/ attempt' = [attempt EXCEPT ![e] = attempt[e] + 1]
              /\ status' = [status EXCEPT ![e] = FailureStatus(e)]
        /\ res = "ok" => attempt' = [attempt EXCEPT ![e] = attempt[e] + 1]
    BY <2>1, <2>2, FailureEffect
  <2>4. retries' \subseteq retries \cup {u}
    BY <2>2
  <2>5. CASE x = e /\ attempt' = [attempt EXCEPT ![e] = attempt[e] + 1]
    <3>1. attempt'[x] = attempt[x] + 1
      BY <2>1, <2>5 DEF StoreTypeOK
    <3>2. Backoffs(x)' \subseteq Backoffs(x) \cup {u}
      BY <2>4 DEF Backoffs
    <3> QED BY <1>2, <2>4, <3>1, <3>2 DEF Fails, Unsent
  <2>6. CASE x = e /\ UNCHANGED <<status, attempt>> /\ res # "ok"
    BY <1>3, <2>2, <2>4, <2>6
  <2>7. CASE x # e
    <3>1. attempt'[x] = attempt[x] /\ status'[x] = status[x]
      BY <2>1, <2>3, <2>7 DEF StoreTypeOK
    <3>2. Backoffs(x)' \subseteq Backoffs(x)
      BY <2>1, <2>4, <2>7 DEF Backoffs
    <3>3. Sweepers(x)' \subseteq Sweepers(x)
      BY <1>1, <3>1, SweepersLapse
    <3> QED BY <1>2, <2>4, <3>1, <3>2, <3>3 DEF Keeps, Lapses, Unsent
  <2>8. attempt' = [attempt EXCEPT ![e] = attempt[e] + 1] \/
        (UNCHANGED <<status, attempt>> /\ res # "ok")
    BY <2>3
  <2> QED BY <2>5, <2>6, <2>7, <2>8
<1>5. ASSUME AssignJob(w) \/ FinalizeJob(w) PROVE Keeps(x)
  <2>1. retries' \subseteq retries
    BY <1>5 DEF AssignJob, FinalizeJob
  <2> QED BY <1>3, <1>5, <2>1, TakenUp
<1>6. ASSUME UNCHANGED storeVars, retries' \subseteq retries PROVE Keeps(x)
  BY <1>3, <1>6 DEF storeVars
<1>7. ASSUME WorkerStep(w), ~(AssignJob(w) \/ FinalizeJob(w) \/ HandleFailure(w))
      PROVE  UNCHANGED storeVars /\ retries' \subseteq retries
  BY <1>7 DEF WorkerStep, LoopStep, Start, Stop, Crash, Ping, Expire, ExitLoop, Stopped,
              Consume, LoseDelivery, DiscardJob, Process, AckJob, workerVars
<1> QED BY <1>4, <1>5, <1>6, <1>7

\* A scheduler gains nothing to publish by a step that gives it no row but one
\* it would have found, and that makes it forget no row it has republished.
LEMMA SweepersShrink ==
  ASSUME NEW x,
         status'[x] = "RETRYING" => status[x] = "RETRYING",
         \A r \in Schedulers : Holds(r, x)' => Holds(r, x) \/ status[x] = "RETRYING",
         \A r \in Schedulers : Requeues(r, x) =>
           Requeues(r, x)' \/ ~(status'[x] = "RETRYING" \/ Holds(r, x)')
  PROVE  Sweepers(x)' \subseteq Sweepers(x)
BY DEF Sweepers

\* The sweeps that begin or go on publish nothing.
LEMMA SweepCarriesOn ==
  ASSUME TypeOK, NEW s \in Schedulers, NEW x \in EventIds,
         \/ \E st \in {"PROCESSING", "RETRYING"} :
              \E rows \in SUBSET RowsIn(st) : BeginSweep(s, st, rows)
         \/ \E y \in pending[s] : PassOver(s, y) \/ CheckHeartbeat(s, y)
  PROVE  Keeps(x)
<1> USE DEF TypeOK
<1>1. UNCHANGED <<status, attempt, stream, retries, api, recovering>>
  BY DEF BeginSweep, PassOver, CheckHeartbeat, storeVars, queueVars, workerVars
<1>2. \A r \in Schedulers : Holds(r, x)' => Holds(r, x) \/ status[x] = "RETRYING"
  <2>1. ASSUME NEW st \in {"PROCESSING", "RETRYING"}, NEW rows \in SUBSET RowsIn(st),
               BeginSweep(s, st, rows), NEW r \in Schedulers, Holds(r, x)'
        PROVE  Holds(r, x) \/ status[x] = "RETRYING"
    <3>1. CASE r = s
      <4>1. st = "RETRYING" /\ \E y \in rows : y.event = x
        BY <2>1, <3>1 DEF BeginSweep, Holds, SweepTypeOK
      <4> QED BY <4>1 DEF RowsIn
    <3>2. CASE r # s
      BY <2>1, <3>2 DEF BeginSweep, Holds, SweepTypeOK
    <3> QED BY <3>1, <3>2
  <2>2. ASSUME NEW y \in pending[s], PassOver(s, y) \/ CheckHeartbeat(s, y),
               NEW r \in Schedulers, Holds(r, x)'
        PROVE  Holds(r, x)
    <3>1. pending'[r] \subseteq pending[r] /\ sweep'[r] \in {sweep[r], "IDLE"}
      BY <2>2 DEF PassOver, CheckHeartbeat, DoneWith, SweepTypeOK
    <3> QED BY <2>2, <3>1 DEF Holds
  <2> QED BY <2>1, <2>2
<1>3. Sweepers(x)' \subseteq Sweepers(x)
  BY <1>1, <1>2, SweepersShrink DEF Requeues
<1> QED BY <1>1, <1>3, MessagesSame DEF Keeps, Lapses, Unsent, Backoffs

\* A scheduler publishes a row it holds once, and remembers it until it has
\* reset the row.
LEMMA RepublishAccount ==
  ASSUME TypeOK, NoOwner, MayFault = FALSE, NEW s \in Schedulers, NEW y \in pending[s],
         Republish(s, y), NEW x \in EventIds
  PROVE  Keeps(x) \/ Sends(x)
<1> USE DEF TypeOK
<1>1. /\ sweep[s] = "RETRYING" /\ recovering[s] = NULL
      /\ y \in Rows /\ y.event \in EventIds /\ y.attempt \in Nat /\ y # NULL
  BY PipelineAssumption DEF Republish, NoOwner, SweepTypeOK, Rows
<1>2. /\ UNCHANGED <<status, attempt, retries, api, sweep, pending>>
      /\ recovering' = [recovering EXCEPT ![s] = y]
      /\ Appended(y.event, y.attempt)
  <2>1. PICK res \in Results :
          /\ Publish(y.event, y.attempt, res)
          /\ res = "ok" => /\ recovering' = [recovering EXCEPT ![s] = y]
                           /\ UNCHANGED <<sweep, pending>>
    BY DEF Republish
  <2>2. res = "ok"
    BY <2>1, SureOutcome DEF Publish, Verdicts
  <2>3. Appended(y.event, y.attempt)
    BY <1>1, <2>1, <2>2, PublishEffect DEF Appended
  <2> QED BY <2>1, <2>2, <2>3 DEF Republish, storeVars, workerVars
<1>3. recovering'[s] = y /\ \A r \in Schedulers : r # s => recovering'[r] = recovering[r]
  BY <1>2 DEF SweepTypeOK
<1>4. Sweepers(x)' \subseteq Sweepers(x)
  BY <1>1, <1>2, <1>3, SweepersShrink DEF Holds, Requeues
<1>5. Lapses(x) /\ attempt'[x] = attempt[x]
  BY <1>2, <1>4 DEF Lapses, Unsent, Backoffs
<1>6. /\ \E i : Messages(y.event)' = Messages(y.event) \cup {i}
      /\ x # y.event => UNCHANGED Messages(x)
  BY <1>1, <1>2, MessageAdded
<1>7. CASE x = y.event
  <2>1. s \in Sweepers(x) /\ s \notin Sweepers(x)'
    BY <1>1, <1>3, <1>7 DEF Sweepers, Holds, Requeues
  <2>2. \E i : Messages(x)' = Messages(x) \cup {i}
    BY <1>6, <1>7
  <2> QED BY <1>5, <2>1, <2>2 DEF Sends
<1>8. CASE x # y.event
  BY <1>5, <1>6, <1>8 DEF Keeps
<1> QED BY <1>7, <1>8

\* The row a scheduler resets is RETRYING no more, and was its only row of the
\* event.
LEMMA ResetAccount ==
  ASSUME TypeOK, NoOwner, OneRowEach, MayFault = FALSE, NEW s \in Schedulers,
         ResetOwner(s), NEW x \in EventIds
  PROVE  Keeps(x)
<1> USE DEF TypeOK
<1>1. PICK e \in EventIds :
        /\ e = recovering[s].event /\ sweep[s] = "RETRYING"
        /\ recovering[s] # NULL /\ recovering[s] \in pending[s]
  BY ResetEffect DEF ResetOwner, NoOwner, SweepTypeOK
<1>2. UNCHANGED <<attempt, stream, retries, api>>
  BY DEF ResetOwner, AssignEvent, queueVars, workerVars
<1>3. \/ UNCHANGED status
      \/ status' = [status EXCEPT ![e] = "QUEUED"]
  BY <1>1, ResetEffect
<1>4. status'[e] # "RETRYING"
  <2>1. PICK o \in Outcomes(CasVerdict(e, "RETRYING", "QUEUED"), "live") :
          status' = IF o.applied THEN [status EXCEPT ![e] = "QUEUED"] ELSE status
    BY <1>1 DEF ResetOwner, AssignEvent
  <2>2. o.applied <=> CasVerdict(e, "RETRYING", "QUEUED") = "ok"
    BY <2>1, SureOutcome, VerdictTypes, <1>1
  <2>3. IsValidTransition("RETRYING", "QUEUED")
    BY DEF IsValidTransition, validTransitions
  <2>4. status[e] = "RETRYING" => o.applied
    BY <2>2, <2>3 DEF CasVerdict, Absent
  <2> QED BY <1>1, <2>1, <2>4 DEF StoreTypeOK
<1>5. /\ pending'[s] = pending[s] \ {recovering[s]}
      /\ \A r \in Schedulers : pending'[r] \subseteq pending[r]
                               /\ sweep'[r] \in {sweep[r], "IDLE"}
      /\ \A r \in Schedulers : r # s => recovering'[r] = recovering[r]
  BY DEF ResetOwner, DoneWith, SweepTypeOK
<1>6. ~Holds(s, e)'
  BY <1>1, <1>5 DEF Holds, OneRowEach
<1>7. status'[x] = "RETRYING" => status[x] = "RETRYING"
  BY <1>1, <1>3 DEF StoreTypeOK
<1>8. Sweepers(x)' \subseteq Sweepers(x)
  <2>1. \A r \in Schedulers : Holds(r, x)' => Holds(r, x)
    BY <1>5 DEF Holds
  <2>2. \A r \in Schedulers : Requeues(r, x) =>
          Requeues(r, x)' \/ ~(status'[x] = "RETRYING" \/ Holds(r, x)')
    <3>1. Requeues(s, x) => x = e
      BY <1>1 DEF Requeues
    <3>2. \A r \in Schedulers : r # s /\ Requeues(r, x) => Requeues(r, x)'
      BY <1>5 DEF Requeues
    <3> QED BY <1>4, <1>6, <3>1, <3>2
  <2> QED BY <1>7, <2>1, <2>2, SweepersShrink
<1> QED BY <1>2, <1>8, MessagesSame DEF Keeps, Lapses, Unsent, Backoffs

\* No step of a scheduler that does not die costs more than it had to come,
\* nor gives it two rows of an event.
LEMMA SchedulerAccount ==
  ASSUME Faultless, TypeOK, NoOwner, OneRowEach, NEW s \in Schedulers, SchedulerStep(s)
  PROVE  /\ \A x \in EventIds : Keeps(x) \/ Sends(x)
         /\ OneRowEach'
         /\ UNCHANGED retries
<1> USE DEF TypeOK
<1>1. ~CrashScheduler(s)
  BY DEF Faultless, CrashScheduler
<1>2. \A x \in EventIds : Keeps(x) \/ Sends(x)
  BY <1>1, SweepCarriesOn, RepublishAccount, ResetAccount
     DEF SchedulerStep, RecoverStep, Faultless
<1>3. UNCHANGED retries
  BY DEF SchedulerStep, RecoverStep, BeginSweep, PassOver, CheckHeartbeat, Republish,
         ResetOwner, CrashScheduler, workerVars
<1>4. ASSUME NEW st \in {"PROCESSING", "RETRYING"}, NEW rows \in SUBSET RowsIn(st),
             BeginSweep(s, st, rows)
      PROVE  OneRowEach'
  <2>1. \A x, y \in rows : x.event = y.event => x = y
    BY DEF RowsIn
  <2>2. \A r \in Schedulers : pending'[r] = IF r = s THEN rows ELSE pending[r]
    BY <1>4 DEF BeginSweep, SweepTypeOK
  <2> QED BY <2>1, <2>2 DEF OneRowEach
<1>5. ASSUME \A r \in Schedulers : pending'[r] \subseteq pending[r] PROVE OneRowEach'
  BY <1>5 DEF OneRowEach
<1>6. ASSUME RecoverStep(s) PROVE \A r \in Schedulers : pending'[r] \subseteq pending[r]
  BY <1>6 DEF RecoverStep, PassOver, CheckHeartbeat, Republish, ResetOwner, DoneWith,
              SweepTypeOK
<1> QED BY <1>1, <1>2, <1>3, <1>4, <1>5, <1>6 DEF SchedulerStep

\* Every step keeps within the budget.
LEMMA StepBudget ==
  ASSUME Faultless
  PROVE  BudgetInv /\ [Next]_vars => BudgetInv'
<1> SUFFICES ASSUME BudgetInv, [Next]_vars PROVE BudgetInv'
  OBVIOUS
<1> USE DEF BudgetInv
<1>1. TypeOK /\ NoOwner
  BY DEF ExclusiveInv, LifecycleInv
<1>2. ExclusiveInv'
  BY StepExclusive DEF Faultless
<1>3. /\ \A e \in EventIds : Keeps(e) \/ Sends(e) \/ Fails(e)
      /\ OneRowEach'
      /\ \E u : retries' \subseteq retries \cup {u}
  <2>1. ASSUME UNCHANGED pending PROVE OneRowEach'
    BY <2>1 DEF OneRowEach
  <2>2. ASSUME NEW e \in EventIds, RequestStep(e)
        PROVE  /\ \A x \in EventIds : Keeps(x) \/ Sends(x)
               /\ UNCHANGED <<retries, pending>>
    BY <1>1, <2>2, RequestAccount
  <2>3. ASSUME NEW w \in Workers, WorkerStep(w)
        PROVE  /\ \A x \in EventIds : Keeps(x) \/ Fails(x)
               /\ UNCHANGED pending /\ \E u : retries' \subseteq retries \cup {u}
    BY <1>1, <2>3, WorkerAccount, WorkerRetries
  <2>4. ASSUME NEW t \in retries, RetryStep(t)
        PROVE  /\ \A x \in EventIds : Keeps(x) \/ Sends(x)
               /\ UNCHANGED pending /\ \E u : retries' \subseteq retries \cup {u}
    <3>1. t.job.event \in EventIds
      BY <1>1 DEF TypeOK, ActorTypeOK, Retries, Jobs
    <3> QED BY <1>1, <2>4, <3>1, RetryAccount
  <2>5. ASSUME NEW s \in Schedulers, SchedulerStep(s)
        PROVE  /\ \A x \in EventIds : Keeps(x) \/ Sends(x)
               /\ OneRowEach' /\ UNCHANGED retries
    BY <1>1, <2>5, SchedulerAccount
  <2>6. ASSUME UNCHANGED vars
        PROVE  (\A x \in EventIds : Keeps(x)) /\ UNCHANGED <<retries, pending>>
    BY <2>6, MessagesSame
       DEF vars, storeVars, queueVars, apiVars, workerVars, schedulerVars, Keeps, Lapses,
           Unsent, Backoffs, Sweepers, Holds, Requeues
  <2> QED BY <2>1, <2>2, <2>3, <2>4, <2>5, <2>6 DEF Next
<1>4. IsFiniteSet(retries)'
  BY <1>3, Counts
<1>5. TypeOK'
  BY <1>2 DEF ExclusiveInv, LifecycleInv
<1>6. \A e \in EventIds : Countable(e)
  BY <1>1, AccountFinite DEF Faultless
<1>7. \A e \in EventIds : Countable(e)'
  <2>1. (IsFiniteSet(Schedulers) /\ TypeOK /\ IsFiniteSet(retries) =>
          \A e \in EventIds : Countable(e))'
    BY AccountFinite, PTL
  <2> QED BY <1>4, <1>5, <2>1 DEF Faultless
<1>8. \A e \in EventIds : Spent(e)' <= Budget(e)'
  BY <1>3, <1>6, <1>7, AccountKept DEF Faultless
<1> QED BY <1>2, <1>3, <1>4, <1>8

\* Nothing is published yet, and the request of an event is still to come.
LEMMA InitBudget == ASSUME Faultless PROVE Init => BudgetInv
<1> SUFFICES ASSUME Init PROVE BudgetInv
  OBVIOUS
<1>1. ExclusiveInv
  BY InitLifecycle
     DEF LifecycleInv, ExclusiveInv, NoOwner, Exclusive, ExclusiveProcessing, Executing, Init,
         StoreInit
<1>2. OneRowEach /\ IsFiniteSet(retries)
  BY FS_EmptySet DEF Init, OneRowEach
<1>3. ASSUME NEW e \in EventIds PROVE Spent(e) <= Budget(e)
  <2>1. Messages(e) = {} /\ Backoffs(e) = {} /\ Sweepers(e) = {}
    BY StreamOfType
       DEF Init, StoreInit, QueueInit, Absent, Messages, Backoffs, Sweepers, Holds
  <2>2. Unsent(e) = 1 /\ attempt[e] = 0
    BY DEF Init, StoreInit, Unsent
  <2>3. Cardinality({}) = 0
    BY FS_EmptySet
  <2>4. Cardinality(Schedulers) \in Nat
    BY FS_CardinalityType DEF Faultless
  <2> QED BY <2>1, <2>2, <2>3, <2>4 DEF Spent, Budget
<1> QED BY <1>1, <1>2, <1>3 DEF BudgetInv

\* Where no call fails and no scheduler dies, an event has at most one message
\* for its request, one for each failed attempt, and one for each failed
\* attempt and scheduler: requeueing and sweeping do not feed each other.
THEOREM MessagesBounded ==
  ASSUME Faultless
  PROVE  Spec => []DuplicatesBounded
<1>1. BudgetInv => DuplicatesBounded
  <2> SUFFICES ASSUME BudgetInv, NEW e \in EventIds
      PROVE  Cardinality(Messages(e)) <= 1 + attempt[e] * (1 + Cardinality(Schedulers))
    BY DEF DuplicatesBounded
  <2>1. Countable(e) /\ Spent(e) <= Budget(e)
    BY AccountFinite DEF BudgetInv, ExclusiveInv, LifecycleInv, Faultless
  <2>2. attempt[e] * (1 + Cardinality(Schedulers)) \in Nat
    BY <2>1, BudgetGrows, FS_CardinalityType DEF Countable, Faultless
  <2> QED BY <2>1, <2>2 DEF Countable, Spent, Budget
<1>2. Init => BudgetInv
  BY InitBudget
<1>3. BudgetInv /\ [Next]_vars => BudgetInv'
  BY StepBudget
<1> QED BY <1>1, <1>2, <1>3, PTL DEF Spec

=============================================================================
