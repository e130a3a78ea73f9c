----------------------- MODULE RecoveryTimingProofs -----------------------
(***************************************************************************)
(* Proofs about the pipeline with its clocks, for every choice of its      *)
(* periods: it implements the pipeline without clocks, so what is proved   *)
(* of that one holds whatever the intervals, TTLs and delays are.  Then    *)
(* when a live worker keeps its key and its event, when a sweep spares a   *)
(* waiting retry, and how soon it finds an event nobody else will move.    *)
(***************************************************************************)
EXTENDS RecoveryTiming, DeliveryProofs

\* The sweep under way takes one of the two statuses runSweep recovers.
DueOK == due \in [Schedulers -> {"none", "PROCESSING", "RETRYING"}]

\* runSweep takes PROCESSING, then RETRYING.
LEMMA DueKept == ASSUME DueOK, [TimedNext]_timedVars PROVE DueOK'
<1>1. CASE UNCHANGED due
  BY <1>1 DEF DueOK
<1>2. CASE Tick
  BY <1>2 DEF Tick, DueOK
<1>3. ASSUME NEW s \in Schedulers, RunSweep(s) PROVE DueOK'
  BY <1>3 DEF RunSweep, AfterStatus, DueOK
<1>4. CASE OtherwiseStep
  BY <1>1, <1>4 DEF OtherwiseStep
<1>5. ASSUME NEW w \in Workers,
             TimedStart(w) \/ TimedCrash(w) \/ Beat(w) \/ MissBeat(w) \/ KeyExpires(w)
      PROVE  UNCHANGED due
  BY <1>5 DEF TimedStart, TimedCrash, Beat, MissBeat, KeyExpires
<1> QED
  BY <1>1, <1>2, <1>3, <1>4, <1>5 DEF TimedNext, InstantStep, timedVars, clockVars

\* Each step of the timed pipeline is a step of the pipeline, or moves clocks only.
LEMMA TimedStepRefines == ASSUME DueOK, [TimedNext]_timedVars PROVE [Next]_vars
<1>1. CASE UNCHANGED timedVars
  BY <1>1 DEF timedVars
<1>2. CASE Tick
  BY <1>2 DEF Tick
<1>3. ASSUME NEW w \in Workers,
             TimedStart(w) \/ TimedCrash(w) \/ Beat(w) \/ MissBeat(w) \/ KeyExpires(w)
      PROVE  [Next]_vars
  <2>1. CASE TimedStart(w)
    BY <2>1 DEF TimedStart, Next, WorkerStep
  <2>2. CASE TimedCrash(w)
    BY <2>2 DEF TimedCrash, Next, WorkerStep
  <2>3. CASE Beat(w)
    BY <2>3 DEF Beat, Next, WorkerStep
  <2>4. CASE MissBeat(w)
    BY <2>4 DEF MissBeat
  <2>5. CASE KeyExpires(w)
    BY <2>5 DEF KeyExpires, Next, WorkerStep
  <2> QED BY <1>3, <2>1, <2>2, <2>3, <2>4, <2>5
<1>4. ASSUME NEW s \in Schedulers, RunSweep(s) PROVE [Next]_vars
  <2>1. CASE UNCHANGED vars
    BY <2>1
  <2>2. CASE BeginSweep(s, due[s], StaleRows(due[s]))
    <3>1. due[s] \in {"PROCESSING", "RETRYING"}
      BY <1>4 DEF DueOK, RunSweep
    <3>2. StaleRows(due[s]) \in SUBSET RowsIn(due[s])
      BY DEF StaleRows
    <3> QED BY <2>2, <3>1, <3>2 DEF Next, SchedulerStep
  <2> QED BY <1>4, <2>1, <2>2 DEF RunSweep
<1>5. ASSUME OtherwiseStep PROVE [Next]_vars
  BY <1>5 DEF OtherwiseStep, TimedRetry, Next, WorkerStep, RetryStep, SchedulerStep
<1> QED BY <1>1, <1>2, <1>3, <1>4, <1>5 DEF TimedNext, InstantStep

\* The clocks only choose among the orders the untimed pipeline allows: every
\* theorem about Spec is one about the timed pipeline.
THEOREM TimedImplements == TimedSpec => ImplementsPipeline
<1>1. TimedInit => Init /\ DueOK
  BY DEF TimedInit, DueOK
<1>2. TimedSpec => []DueOK
  BY <1>1, DueKept, PTL DEF TimedSpec
<1> QED BY <1>1, <1>2, TimedStepRefines, PTL DEF TimedSpec, Spec, ImplementsPipeline

-----------------------------------------------------------------------------
(* What CalculateBackoff promises its caller, for every attempt number and *)
(* every base delay, where no bounded check could enumerate the delays.    *)

\* The exponent stays in the table.
LEMMA Exponent ==
  ASSUME NEW a \in Int, a > 0
  PROVE  (IF a > MaxShift THEN MaxShift ELSE a) \in 1..15
BY SMT DEF MaxShift

\* The delay before jitter and cap is a natural number.
LEMMA GrowthType ==
  ASSUME NEW a \in Int, a > 0, NEW base \in Nat
  PROVE  Growth(a, base) \in Nat
<1>1. \A i \in 1..15 : Power[i] \in Nat
  BY SMT DEF Power
<1> QED BY <1>1, Exponent, SMT DEF Growth

\* "Max reasonable delay (e.g., 2 hours)": whatever the attempt, the base delay
\* and the jitter, a retry waits for at most two hours.
THEOREM DelayCapped ==
  ASSUME NEW a \in Int, a > 0, NEW base \in Nat, NEW d \in CalculateBackoff(a, base)
  PROVE  d \in 0..MaxDelay
<1>1. PICK x \in Jittered(Growth(a, base)) : d = Capped(x)
  BY SMT DEF CalculateBackoff
<1>2. x \in Nat
  BY GrowthType, SMT DEF Jittered
<1>3. MaxDelay \in Nat
  BY SMT DEF MaxDelay
<1> QED BY <1>1, <1>2, <1>3, SMT DEF Capped

\* "Exponential backoff": up to the cap on the exponent a later attempt never
\* waits for less than an earlier one, however their jitters fall.
THEOREM DelayGrows ==
  ASSUME NEW a \in 1..14, NEW base \in Nat,
         NEW d \in CalculateBackoff(a, base), NEW later \in CalculateBackoff(a + 1, base)
  PROVE  d <= later
<1>1. PICK x \in Jittered(Growth(a, base)) : d = Capped(x)
  BY SMT DEF CalculateBackoff
<1>2. PICK y \in Jittered(Growth(a + 1, base)) : later = Capped(y)
  BY SMT DEF CalculateBackoff
<1>3. Growth(a + 1, base) = 2 * Growth(a, base)
  <2>1. Power[a + 1] = 2 * Power[a] /\ Power[a] \in Nat
    BY SMT DEF Power
  <2>2. Growth(a, base) = base * Power[a] /\ Growth(a + 1, base) = base * Power[a + 1]
    BY SMT DEF Growth, MaxShift
  <2> QED BY <2>1, <2>2, SMT
<1>4. Growth(a, base) \in Nat
  BY GrowthType, SMT
<1>5. x \in Nat /\ y \in Nat /\ x <= y
  <2> DEFINE g == Growth(a, base)
  <2>1. x <= g + g \div 10 /\ x \in Nat
    BY <1>1, <1>4, SMT DEF Jittered
  <2>2. y >= 2 * g - (2 * g) \div 10 /\ y \in Nat
    BY <1>2, <1>3, <1>4, SMT DEF Jittered
  <2>3. g + g \div 10 <= 2 * g - (2 * g) \div 10
    BY <1>4, SMT
  <2> QED BY <2>1, <2>2, <2>3, <1>4, SMT
<1>6. MaxDelay \in Nat
  BY SMT DEF MaxDelay
<1> QED BY <1>1, <1>2, <1>5, <1>6, SMT DEF Capped

\* With the base delay of cmd/worker (1 s) the retry of any of the first eight
\* attempts is due well before the sweep takes the event for stranded (5 min), so
\* the two cannot requeue it both.  The worker process allows three attempts.
THEOREM RetryBeforeSweep ==
  ASSUME NEW a \in 1..8, NEW d \in CalculateBackoff(a, 1000)
  PROVE  d <= 281600
<1>1. PICK x \in Jittered(Growth(a, 1000)) : d = Capped(x)
  BY SMT DEF CalculateBackoff
<1>2. Growth(a, 1000) \in Nat /\ Growth(a, 1000) <= 256000
  <2>1. Power[a] \in Nat /\ Power[a] <= 256
    BY SMT DEF Power
  <2> QED BY <2>1, SMT DEF Growth, MaxShift
<1>3. x \in Nat /\ x <= 281600
  BY <1>1, <1>2, SMT DEF Jittered
<1> QED BY <1>1, <1>3, SMT DEF Capped, MaxDelay

-----------------------------------------------------------------------------
(* Heartbeats in time.  No worker is told to stop, the key outlives the    *)
(* pings that may fail, and the sweep spares a row for as long as they     *)
(* take: then a sweep can tell a worker that runs an event from a dead one.*)

PeriodsFit ==
  /\ Stoppable = {}
  /\ TTL > MaxMissed * Interval + Interval
  /\ StaleProcessing > MaxMissed * Interval

\* At least as long ago the worker sent its last ping, or one interval before
\* it was started.
Silent(w) == missed[w] * Interval + Interval - nextPing[w]

\* Its key was written by that ping.
Informed(w) == w \in heartbeat /\ ttl[w] + Silent(w) >= TTL

\* It has not pinged yet, and what it runs it took up after it was started.
Young(w) ==
  /\ Silent(w) >= Interval
  /\ Executing(w) => age[job[w].event] + Interval <= Silent(w)

PingOK ==
  /\ ttl \in [Workers -> Nat]
  /\ nextPing \in [Workers -> 0..Interval]
  /\ missed \in [Workers -> 0..MaxMissed]
  /\ age \in [EventIds -> Nat]
  /\ cancelled = {}
  /\ \A w \in Workers : pc[w] # "down" => Informed(w) \/ Young(w)

\* The periods are numbers, and the pings that may fail take MaxMissed of them.
LEMMA Periods ==
  /\ Interval \in Nat /\ Interval > 0
  /\ TTL \in Nat /\ MaxMissed \in Nat /\ StaleProcessing \in Nat
  /\ MaxMissed * Interval \in Nat
<1>1. Interval \in Nat \ {0} /\ TTL \in Nat \ {0} /\ StaleProcessing \in Nat \ {0}
  BY TimingAssumption DEF TimingAssumption
<1>2. MaxMissed \in Nat
  BY TimingAssumption DEF TimingAssumption
<1> QED BY <1>1, <1>2, SMT

\* A product of periods grows with the number of pings missed.
LEMMA MissedBound ==
  ASSUME NEW m \in 0..MaxMissed
  PROVE  /\ m * Interval \in Nat /\ m * Interval <= MaxMissed * Interval
         /\ (m + 1) * Interval = m * Interval + Interval
<1>1. Interval \in Nat /\ MaxMissed \in Nat /\ m \in Nat /\ m <= MaxMissed
  BY Periods, SMT
<1>2. \A a, b, c \in Nat : a <= b => a * c \in Nat /\ a * c <= b * c
  BY SMT
<1>3. \A a, c \in Nat : (a + 1) * c = a * c + c
  BY SMT
<1> QED BY <1>1, <1>2, <1>3

\* How long a worker may have been silent.
LEMMA SilentType ==
  ASSUME PingOK, NEW w \in Workers
  PROVE  Silent(w) \in Nat /\ Silent(w) <= MaxMissed * Interval + Interval
<1>1. missed[w] \in 0..MaxMissed /\ nextPing[w] \in 0..Interval
  BY DEF PingOK
<1>2. missed[w] * Interval \in Nat /\ missed[w] * Interval <= MaxMissed * Interval
  BY <1>1, MissedBound
<1> QED BY <1>1, <1>2, Periods, SMT DEF Silent

\* A step that takes no time makes no row older.
LEMMA NoOlder ==
  ASSUME age \in [EventIds -> Nat], StampRows
  PROVE  /\ age' \in [EventIds -> Nat]
         /\ \A e \in EventIds : age'[e] <= age[e]
         /\ \A e \in EventIds : status'[e] # status[e] => age'[e] = 0
BY SMT DEF StampRows

\* A worker that is up and whose own clocks are not set stays informed or young
\* when what it runs afterwards it ran before or takes up in this step.
LEMMA Undisturbed ==
  ASSUME TypeOK, PingOK, StampRows, NEW w \in Workers, pc[w] # "down",
         w \in heartbeat => w \in heartbeat',
         ttl'[w] = ttl[w], nextPing'[w] = nextPing[w], missed'[w] = missed[w],
         Executing(w)' => /\ job'[w] = job[w] /\ job[w].event \in EventIds
                          /\ Executing(w) \/ status'[job[w].event] # status[job[w].event]
  PROVE  Informed(w)' \/ Young(w)'
<1>1. Silent(w)' = Silent(w) /\ Silent(w) \in Nat
  BY SilentType DEF Silent
<1>2. CASE Informed(w)
  BY <1>1, <1>2 DEF Informed
<1>3. CASE Young(w)
  <2>1. ASSUME Executing(w)' PROVE age'[job'[w].event] + Interval <= Silent(w)
    <3> DEFINE e == job[w].event
    <3>1. e \in EventIds /\ job'[w].event = e
      BY <2>1
    <3>2. CASE Executing(w)
      <4>1. age[e] \in Nat /\ age'[e] \in Nat /\ age'[e] <= age[e]
        BY <3>1, NoOlder DEF PingOK
      <4>2. age[e] + Interval <= Silent(w)
        BY <1>3, <3>2 DEF Young
      <4> HIDE DEF e
      <4> QED BY <1>1, <3>1, <4>1, <4>2, Periods, SMT
    <3>3. CASE status'[e] # status[e]
      <4>1. age'[e] = 0
        BY <3>1, <3>3, NoOlder DEF PingOK
      <4>2. Silent(w) >= Interval
        BY <1>3 DEF Young
      <4> HIDE DEF e
      <4> QED BY <1>1, <3>1, <4>1, <4>2, Periods, SMT
    <3> QED BY <2>1, <3>2, <3>3
  <2> QED BY <1>1, <1>3, <2>1 DEF Young
<1> QED BY <1>2, <1>3 DEF PingOK

\* The workers a step does not touch stay informed or young.
LEMMA OthersUndisturbed ==
  ASSUME TypeOK, PingOK, StampRows, NEW v \in Workers, pc'[v] = pc[v], pc[v] # "down",
         job'[v] = job[v], v \in heartbeat => v \in heartbeat',
         ttl'[v] = ttl[v], nextPing'[v] = nextPing[v], missed'[v] = missed[v]
  PROVE  Informed(v)' \/ Young(v)'
<1>1. Executing(v)' => Executing(v) /\ job[v].event \in EventIds
  BY HasJob DEF TypeOK, Executing
<1> QED BY <1>1, Undisturbed

\* A job loop runs only an event it ran before or has just made PROCESSING.
LEMMA LoopRuns ==
  ASSUME TypeOK, NEW w \in Workers, w \notin cancelled, LoopStep(w)
  PROVE  /\ pc[w] # "down"
         /\ \A v \in Workers \ {w} : pc'[v] = pc[v] /\ job'[v] = job[v]
         /\ UNCHANGED <<cancelled, heartbeat>>
         /\ Executing(w)' => /\ job'[w] = job[w] /\ job[w].event \in EventIds
                             /\ Executing(w) \/ status'[job[w].event] # status[job[w].event]
<1> USE DEF TypeOK
<1>1. CASE AssignJob(w)
  <2> DEFINE e == job[w].event
  <2>1. e \in EventIds
    BY <1>1, HasJob DEF AssignJob
  <2>2. PICK res \in Results :
          /\ AssignEvent(e, w, "QUEUED", "PROCESSING", ContextOf(w), res)
          /\ pc' = [pc EXCEPT ![w] =
                      CASE res = "ok"                        -> "process"
                        [] res = "ErrInvalidStateTransition" -> "discard"
                        [] OTHER                             -> "consume"]
          /\ job' = IF res \in {"ok", "ErrInvalidStateTransition"} THEN job
                    ELSE [job EXCEPT ![w] = NULL]
    BY <1>1 DEF AssignJob
  <2>3. Executing(w)' => res = "ok" /\ job'[w] = job[w]
    BY <2>2 DEF Executing, ActorTypeOK
  <2>4. res = "ok" => status[e] = "QUEUED" /\ status' = [status EXCEPT ![e] = "PROCESSING"]
    <3> HIDE DEF e
    <3> QED BY <2>1, <2>2, TakeUpEffect
  <2>5. res = "ok" => status'[e] # status[e]
    BY <2>1, <2>4 DEF StoreTypeOK
  <2>6. /\ pc[w] # "down"
        /\ \A v \in Workers \ {w} : pc'[v] = pc[v] /\ job'[v] = job[v]
        /\ UNCHANGED <<cancelled, heartbeat>>
    BY <1>1, <2>2 DEF AssignJob, ActorTypeOK
  <2> QED BY <2>1, <2>3, <2>5, <2>6
<1>2. ASSUME \/ ExitLoop(w) \/ Stopped(w) \/ Consume(w) \/ LoseDelivery(w) \/ DiscardJob(w)
             \/ Process(w) \/ FinalizeJob(w) \/ AckJob(w) \/ HandleFailure(w)
      PROVE  /\ pc[w] # "down"
             /\ \A v \in Workers \ {w} : pc'[v] = pc[v] /\ job'[v] = job[v]
             /\ UNCHANGED <<cancelled, heartbeat>>
             /\ Executing(w)' => Executing(w) /\ job'[w] = job[w]
  BY <1>2 DEF ExitLoop, Stopped, Consume, LoseDelivery, DiscardJob, Process, FinalizeJob,
              AckJob, HandleFailure, Executing, ActorTypeOK, workerVars
<1>3. Executing(w) => job[w].event \in EventIds
  BY HasJob DEF Executing
<1> QED BY <1>1, <1>2, <1>3 DEF LoopStep

\* Time passes: nobody's ping is due and no key is to expire.
LEMMA TickPings ==
  ASSUME TypeOK, PingOK, Tick
  PROVE  PingOK'
<1>0. UNCHANGED vars /\ UNCHANGED <<pc, job, heartbeat, cancelled, status, missed>>
  BY DEF Tick, vars, workerVars, storeVars
<1>1. /\ ttl' \in [Workers -> Nat]
      /\ nextPing' \in [Workers -> 0..Interval]
      /\ age' \in [EventIds -> Nat]
      /\ \A e \in EventIds : age'[e] <= age[e] + 1
  <2>1. ttl' \in [Workers -> Nat]
    BY SMT DEF Tick, PingOK, Sooner
  <2>2. nextPing' \in [Workers -> 0..Interval]
    BY Periods, SMT DEF Tick, PingOK, Sooner
  <2>3. age' = [e \in EventIds |-> Older(age[e], StaleAge(status[e]))]
    BY DEF Tick
  <2>4. \A e \in EventIds : age'[e] \in Nat /\ age'[e] <= age[e] + 1
    BY <2>3, SMT DEF PingOK, Older
  <2> QED BY <2>1, <2>2, <2>3, <2>4
<1>2. ASSUME NEW w \in Workers, pc[w] # "down"
      PROVE  Informed(w)' \/ Young(w)'
  <2>1. nextPing[w] \in Nat /\ nextPing[w] > 0 /\ nextPing'[w] = nextPing[w] - 1
    <3>1. nextPing[w] # 0
      BY <1>2 DEF Tick, Busy, Beating, PingOK
    <3>2. nextPing' = [v \in Workers |-> Sooner(nextPing[v])]
      BY DEF Tick
    <3>3. nextPing[w] \in 0..Interval
      BY DEF PingOK
    <3> QED BY <3>1, <3>2, <3>3, Periods, SMT DEF Sooner
  <2>2. Silent(w)' = Silent(w) + 1 /\ Silent(w) \in Nat
    <3>1. missed[w] * Interval \in Nat
      BY MissedBound DEF PingOK
    <3>2. Silent(w) \in Nat
      BY SilentType
    <3> QED BY <1>0, <2>1, <3>1, <3>2, Periods, SMT DEF Silent
  <2>3. CASE Informed(w)
    <3>1. ttl[w] \in Nat /\ ttl[w] # 0
      BY <2>3 DEF Tick, Busy, PingOK, Informed
    <3>2. ttl' = [v \in Workers |-> Sooner(ttl[v])]
      BY DEF Tick
    <3>3. ttl'[w] = ttl[w] - 1
      BY <3>1, <3>2, SMT DEF Sooner
    <3>4. ttl'[w] + Silent(w)' >= TTL
      BY <2>2, <2>3, <3>1, <3>3, Periods, SMT DEF Informed
    <3> QED BY <1>0, <2>3, <3>4 DEF Informed
  <2>4. CASE Young(w)
    <3>1. ASSUME Executing(w) PROVE age'[job[w].event] + Interval <= Silent(w) + 1
      <4> DEFINE e == job[w].event
      <4>1. e \in EventIds
        BY <3>1, HasJob DEF Executing, TypeOK
      <4>2. age[e] \in Nat /\ age'[e] \in Nat /\ age'[e] <= age[e] + 1
        BY <1>1, <4>1 DEF PingOK
      <4>3. age[e] + Interval <= Silent(w)
        BY <2>4, <3>1 DEF Young
      <4> HIDE DEF e
      <4> QED BY <2>2, <4>2, <4>3, Periods, SMT DEF e
    <3>2. Silent(w) >= Interval
      BY <2>4 DEF Young
    <3>3. Silent(w)' >= Interval
      BY <2>2, <3>2, Periods, SMT
    <3> QED BY <1>0, <2>2, <3>1, <3>3 DEF Young, Executing
  <2> QED BY <1>2, <2>3, <2>4 DEF PingOK
<1> QED BY <1>0, <1>1, <1>2 DEF PingOK

\* Starts, crashes, pings that work or fail, and expiries.
LEMMA HeartbeatPings ==
  ASSUME PeriodsFit, TypeOK, PingOK, StampRows, NEW w \in Workers,
         TimedStart(w) \/ TimedCrash(w) \/ Beat(w) \/ MissBeat(w) \/ KeyExpires(w)
  PROVE  PingOK'
<1> USE DEF TypeOK
<1>0. age' \in [EventIds -> Nat]
  BY NoOlder DEF PingOK
<1>1. /\ nextPing' \in [Workers -> 0..Interval] /\ missed' \in [Workers -> 0..MaxMissed]
      /\ ttl' \in [Workers -> Nat]
      /\ cancelled' = {}
      /\ \A v \in Workers \ {w} :
           /\ pc'[v] = pc[v] /\ job'[v] = job[v]
           /\ v \in heartbeat => v \in heartbeat'
           /\ ttl'[v] = ttl[v] /\ nextPing'[v] = nextPing[v] /\ missed'[v] = missed[v]
  <2>1. missed[w] < MaxMissed => missed[w] + 1 \in 0..MaxMissed
    BY Periods, SMT DEF PingOK
  <2>2. 0 \in 0..Interval /\ Interval \in 0..Interval /\ 0 \in 0..MaxMissed
    BY Periods, SMT
  <2>3. CASE TimedStart(w)
    BY <2>2, <2>3 DEF TimedStart, Start, SetTimer, PingOK, ActorTypeOK
  <2>4. CASE TimedCrash(w)
    BY <2>2, <2>4 DEF TimedCrash, Crash, SetTimer, PingOK, ActorTypeOK
  <2>5. CASE Beat(w)
    BY <2>2, <2>5, Periods DEF Beat, Ping, SetTimer, PingOK, workerVars
  <2>6. CASE MissBeat(w)
    BY <2>1, <2>2, <2>6 DEF MissBeat, SetTimer, PingOK, vars, workerVars
  <2>7. CASE KeyExpires(w)
    BY <2>7 DEF KeyExpires, Expire, PingOK, workerVars
  <2> QED BY <2>3, <2>4, <2>5, <2>6, <2>7
<1>2. \A v \in Workers \ {w} : pc'[v] # "down" => Informed(v)' \/ Young(v)'
  BY <1>1, OthersUndisturbed
<1>3. ASSUME pc'[w] # "down" PROVE Informed(w)' \/ Young(w)'
  <2>1. CASE TimedStart(w)
    <3>1. pc'[w] = "consume" /\ nextPing'[w] = 0 /\ missed'[w] = 0
      BY <2>1 DEF TimedStart, Start, SetTimer, ActorTypeOK, PingOK
    <3>2. Silent(w)' = Interval /\ ~Executing(w)'
      BY <3>1, Periods, SMT DEF Silent, Executing
    <3> QED BY <3>2, Periods, SMT DEF Young
  <2>2. CASE TimedCrash(w)
    BY <1>3, <2>2 DEF TimedCrash, Crash, ActorTypeOK
  <2>3. CASE Beat(w)
    <3>1. /\ w \in heartbeat' /\ ttl'[w] = TTL
          /\ nextPing'[w] = Interval /\ missed'[w] = 0
      BY <2>3 DEF Beat, Ping, SetTimer, PingOK
    <3>2. Silent(w)' = 0
      BY <3>1, Periods, SMT DEF Silent
    <3> QED BY <3>1, <3>2, Periods, SMT DEF Informed
  <2>4. CASE MissBeat(w)
    <3>1. /\ UNCHANGED <<pc, job, heartbeat, status, ttl>>
          /\ nextPing[w] = 0 /\ nextPing'[w] = Interval /\ missed'[w] = missed[w] + 1
          /\ missed[w] \in 0..MaxMissed
      BY <2>4 DEF MissBeat, SetTimer, PingOK, vars, workerVars, storeVars
    <3>2. Silent(w)' = Silent(w)
      BY <3>1, MissedBound, Periods, SMT DEF Silent
    <3>3. UNCHANGED age
      BY <3>1 DEF StampRows, PingOK
    <3> QED BY <1>3, <3>1, <3>2, <3>3 DEF Informed, Young, Executing, PingOK
  <2>5. CASE KeyExpires(w)
    <3>1. UNCHANGED <<pc, job, status, ttl, nextPing, missed>> /\ ttl[w] = 0
      BY <2>5 DEF KeyExpires, Expire, workerVars, storeVars
    <3>2. ~Informed(w)
      BY <3>1, SilentType, Periods, SMT DEF Informed, PeriodsFit
    <3>3. UNCHANGED age
      BY <3>1 DEF StampRows, PingOK
    <3> QED BY <1>3, <3>1, <3>2, <3>3 DEF Young, Silent, Executing, PingOK
  <2> QED BY <2>1, <2>2, <2>3, <2>4, <2>5
<1> QED BY <1>0, <1>1, <1>2, <1>3 DEF PingOK

\* Every step of the timed pipeline keeps the workers that are up informed or young.
LEMMA PingKept ==
  ASSUME PeriodsFit, TypeOK, DueOK, PingOK, [TimedNext]_timedVars
  PROVE  PingOK'
<1> USE DEF TypeOK
<1>1. CASE UNCHANGED timedVars
  BY <1>1 DEF timedVars, clockVars, vars, workerVars, storeVars, PingOK, Informed, Young,
              Silent, Executing
<1>2. CASE Tick
  BY <1>2, TickPings
<1>3. ASSUME StampRows, UNCHANGED <<ttl, nextPing, missed, heartbeat, cancelled, pc, job>>
      PROVE  PingOK'
  <2>1. \A v \in Workers : pc'[v] # "down" => Informed(v)' \/ Young(v)'
    BY <1>3, OthersUndisturbed
  <2> QED BY <1>3, <2>1, NoOlder DEF PingOK
<1>4. ASSUME StampRows, NEW s \in Schedulers, RunSweep(s) PROVE PingOK'
  BY <1>3, <1>4 DEF RunSweep, BeginSweep, vars, workerVars
<1>5. ASSUME StampRows, OtherwiseStep PROVE PingOK'
  <2>1. UNCHANGED <<ttl, nextPing, missed>>
    BY <1>5 DEF OtherwiseStep
  <2>2. ASSUME NEW e \in EventIds, RequestStep(e) PROVE PingOK'
    BY <1>3, <1>5, <2>1, <2>2
       DEF RequestStep, RejectRequest, CreateEvent, PublishEvent, MarkQueued, AbortRequest,
           workerVars
  <2>3. ASSUME NEW w \in Workers, LoopStep(w) PROVE PingOK'
    <3>1. cancelled = {}
      BY DEF PingOK
    <3>2. Informed(w)' \/ Young(w)'
      BY <1>5, <2>1, <2>3, <3>1, LoopRuns, Undisturbed
    <3>3. \A v \in Workers \ {w} : pc'[v] # "down" => Informed(v)' \/ Young(v)'
      BY <1>5, <2>1, <2>3, <3>1, LoopRuns, OthersUndisturbed
    <3>4. cancelled' = {}
      BY <2>3, <3>1, LoopRuns
    <3> QED BY <1>5, <2>1, <3>2, <3>3, <3>4, NoOlder DEF PingOK
  <2>4. ASSUME NEW w \in Workers, Stop(w) PROVE PingOK'
    BY <2>4 DEF Stop, PeriodsFit
  <2>5. ASSUME NEW t \in retries, TimedRetry(t) PROVE PingOK'
    BY <1>3, <1>5, <2>1, <2>5 DEF TimedRetry, RetryPublish, RetryAck, RetryUpdate, RetryAbort
  <2>6. ASSUME NEW s \in Schedulers, RecoverStep(s) PROVE PingOK'
    BY <1>3, <1>5, <2>1, <2>6
       DEF RecoverStep, PassOver, CheckHeartbeat, Republish, ResetOwner, workerVars
  <2> QED BY <1>5, <2>2, <2>3, <2>4, <2>5, <2>6 DEF OtherwiseStep
<1>6. CASE InstantStep /\ Instantly
  <2>1. StampRows
    BY <1>6 DEF Instantly
  <2> QED BY <1>4, <1>5, <1>6, <2>1, HeartbeatPings DEF InstantStep
<1> QED BY <1>1, <1>2, <1>6 DEF TimedNext

\* What is known of the timed pipeline at every instant.
TimedInv == LifecycleInv /\ DueOK /\ PingOK

LEMMA TimedStep ==
  ASSUME PeriodsFit
  PROVE  /\ TimedInit => TimedInv
         /\ TimedInv /\ [TimedNext]_timedVars => TimedInv'
<1>1. ASSUME TimedInit PROVE TimedInv
  <2>1. Init /\ DueOK
    BY <1>1 DEF TimedInit, DueOK
  <2>2. PingOK
    BY <1>1, Periods, SMT DEF TimedInit, Init, PingOK
  <2> QED BY <2>1, <2>2, InitLifecycle DEF TimedInv
<1>2. ASSUME TimedInv, [TimedNext]_timedVars PROVE TimedInv'
  <2>1. LifecycleInv /\ DueOK /\ PingOK /\ TypeOK
    BY <1>2 DEF TimedInv, LifecycleInv
  <2>2. [Next]_vars
    BY <1>2, <2>1, TimedStepRefines
  <2> QED BY <1>2, <2>1, <2>2, StepLifecycle, DueKept, PingKept DEF TimedInv
<1> QED BY <1>1, <1>2

\* A worker whose row is old enough to be swept has pinged since it took the
\* event up, and its key has not run out.
LEMMA OwnerHasKey ==
  ASSUME PeriodsFit, TimedInv, NEW w \in Workers, Executing(w),
         age[job[w].event] >= StaleProcessing
  PROVE  w \in heartbeat /\ ttl[w] > 0
<1>1. PingOK /\ TypeOK
  BY DEF TimedInv, LifecycleInv
<1>2. job[w].event \in EventIds /\ pc[w] # "down"
  BY <1>1, HasJob DEF TypeOK, Executing
<1>3. /\ Silent(w) \in Nat /\ Silent(w) <= MaxMissed * Interval + Interval
      /\ age[job[w].event] \in Nat /\ ttl[w] \in Nat
  BY <1>1, <1>2, SilentType DEF PingOK
<1>4. ~Young(w)
  <2> DEFINE a == age[job[w].event]
  <2>1. a \in Nat /\ a >= StaleProcessing /\ StaleProcessing > MaxMissed * Interval
    BY <1>3 DEF PeriodsFit
  <2>2. ~(a + Interval <= Silent(w))
    <3> HIDE DEF a
    <3> QED BY <1>3, <2>1, Periods, SMT
  <2> QED BY <2>2 DEF Young
<1>5. Informed(w)
  BY <1>1, <1>2, <1>4 DEF PingOK
<1> QED BY <1>3, <1>5, Periods, SMT DEF Informed, PeriodsFit

\* A sweep old enough to take a row finds its worker's key, whatever the number
\* of pings that may fail and however long the periods are, when the TTL and the
\* age of a stale row fit them.
THEOREM OwnersVisible ==
  ASSUME PeriodsFit
  PROVE  TimedSpec => []OwnerVisible
<1>1. TimedInv => OwnerVisible
  BY OwnerHasKey DEF OwnerVisible
<1> QED BY <1>1, TimedStep, PTL DEF TimedSpec

-----------------------------------------------------------------------------
(* Exclusive processing in time.  With one scheduler and periods that fit, *)
(* a sweep resets a PROCESSING event only when nobody runs it, whatever    *)
(* the workers' names are.                                                 *)

Orphaned(e) == status[e] = "PROCESSING" /\ Idle(e)
Visible(w)  == w \in heartbeat /\ ttl[w] > 0

\* The rows of a sweep of PROCESSING events belong to workers that have their
\* keys, or nobody runs them; a row found dead or republished is of the latter.
SweepPart(s) ==
  /\ \A x, y \in pending[s] : x.event = y.event => x = y
  /\ sweep[s] = "IDLE" => deadWorkers[s] = Unchecked
  /\ sweep[s] = "PROCESSING" =>
       /\ \A x \in pending[s] : x.worker # NULL =>
            /\ Orphaned(x.event) \/ Visible(x.worker)
            /\ deadWorkers[s][x.worker] = "dead" => Orphaned(x.event)
       /\ \A x \in pending[s] : recovering[s] = x => Orphaned(x.event)

SweepOK == \A s \in Schedulers : SweepPart(s)

\* A request leaves an event alone that nobody runs.
LEMMA RequestLeaves ==
  ASSUME LifecycleInv, NEW r \in EventIds, RequestStep(r), NEW e \in EventIds, Orphaned(e)
  PROVE  Orphaned(e)'
<1> USE DEF LifecycleInv, TypeOK
<1>1. UNCHANGED <<pc, job>>
  BY DEF RequestStep, RejectRequest, CreateEvent, PublishEvent, MarkQueued, AbortRequest,
         workerVars
<1>2. status'[e] = "PROCESSING"
  <2>1. CASE CreateEvent(r)
    BY <2>1, CreateEffect DEF CreateEvent, Fresh, Absent, StoreTypeOK, Orphaned
  <2>2. CASE MarkQueued(r)
    BY <2>2, UpdateStatusEffect DEF MarkQueued, Statuses, StoreTypeOK, Orphaned
  <2>3. CASE UNCHANGED storeVars
    BY <2>3 DEF storeVars, Orphaned
  <2> QED BY <2>1, <2>2, <2>3 DEF RequestStep, RejectRequest, PublishEvent, AbortRequest
<1> QED BY <1>1, <1>2 DEF Orphaned, Idle, Executing

\* A worker takes up QUEUED events only and settles only the one it runs.
LEMMA WorkerLeaves ==
  ASSUME LifecycleInv, NEW w \in Workers, WorkerStep(w), NEW e \in EventIds, Orphaned(e)
  PROVE  Orphaned(e)'
<1> USE DEF LifecycleInv, TypeOK
<1>1. CASE AssignJob(w)
  <2> DEFINE d == job[w].event
  <2>1. d \in EventIds
    BY <1>1, HasJob DEF AssignJob
  <2>2. PICK res \in Results :
          /\ AssignEvent(d, w, "QUEUED", "PROCESSING", ContextOf(w), res)
          /\ pc' = [pc EXCEPT ![w] =
                      CASE res = "ok"                        -> "process"
                        [] res = "ErrInvalidStateTransition" -> "discard"
                        [] OTHER                             -> "consume"]
          /\ job' = IF res \in {"ok", "ErrInvalidStateTransition"} THEN job
                    ELSE [job EXCEPT ![w] = NULL]
    BY <1>1 DEF AssignJob
  <2>3. /\ \/ UNCHANGED status
           \/ status[d] = "QUEUED" /\ status' = [status EXCEPT ![d] = "PROCESSING"]
        /\ res = "ok" => status[d] = "QUEUED"
    <3> HIDE DEF d
    <3> QED BY <2>1, <2>2, TakeUpEffect
  <2>4. status'[e] = "PROCESSING"
    BY <2>1, <2>3 DEF Orphaned, StoreTypeOK
  <2>5. Executing(w)' => d # e /\ job'[w] = job[w]
    BY <2>2, <2>3 DEF Executing, ActorTypeOK, Orphaned
  <2>6. \A v \in Workers \ {w} : Executing(v)' => Executing(v) /\ job'[v] = job[v]
    BY <2>2 DEF Executing, ActorTypeOK
  <2> QED BY <2>4, <2>5, <2>6 DEF Orphaned, Idle
<1>2. CASE FinalizeJob(w) \/ HandleFailure(w)
  <2>1. job[w].event \in EventIds /\ job[w].event # e
    BY <1>2, HasJob DEF FinalizeJob, HandleFailure, Executing, Orphaned, Idle
  <2>2. status'[e] = status[e]
    BY <1>2, <2>1, FinalizeEffect, FailureEffect DEF FinalizeJob, HandleFailure, StoreTypeOK
  <2>3. \A v \in Workers : Executing(v)' => Executing(v) /\ job'[v] = job[v]
    BY <1>2 DEF FinalizeJob, HandleFailure, Executing, ActorTypeOK
  <2> QED BY <2>2, <2>3 DEF Orphaned, Idle
<1>3. ASSUME \/ Start(w) \/ Stop(w) \/ Crash(w) \/ Ping(w) \/ Expire(w) \/ ExitLoop(w)
             \/ Stopped(w) \/ Consume(w) \/ LoseDelivery(w) \/ DiscardJob(w) \/ Process(w)
             \/ AckJob(w)
      PROVE  Orphaned(e)'
  <2>1. UNCHANGED status
    BY <1>3 DEF Start, Stop, Crash, Ping, Expire, ExitLoop, Stopped, Consume, LoseDelivery,
                DiscardJob, Process, AckJob, storeVars
  <2>2. \A v \in Workers : Executing(v)' => Executing(v) /\ job'[v] = job[v]
    BY <1>3 DEF Start, Stop, Crash, Ping, Expire, ExitLoop, Stopped, Consume, LoseDelivery,
                DiscardJob, Process, AckJob, ActorTypeOK, workerVars, Executing
  <2> QED BY <2>1, <2>2 DEF Orphaned, Idle
<1> QED BY <1>1, <1>2, <1>3 DEF WorkerStep, LoopStep

\* A retry goroutine moves RETRYING events only.
LEMMA RetryLeaves ==
  ASSUME LifecycleInv, NEW t \in retries, RetryStep(t), NEW e \in EventIds, Orphaned(e)
  PROVE  Orphaned(e)'
<1> USE DEF LifecycleInv, TypeOK
<1>1. UNCHANGED <<pc, job>>
  BY DEF RetryStep, RetryPublish, RetryAck, RetryUpdate, RetryAbort
<1>2. status'[e] = "PROCESSING"
  <2>1. CASE RetryUpdate(t)
    <3>1. t.job.event \in EventIds
      BY DEF ActorTypeOK, Retries, Jobs
    <3> QED BY <2>1, <3>1, UpdateStatusEffect DEF RetryUpdate, Statuses, StoreTypeOK, Orphaned
  <2>2. CASE UNCHANGED storeVars
    BY <2>2 DEF storeVars, Orphaned
  <2> QED BY <2>1, <2>2 DEF RetryStep, RetryPublish, RetryAck, RetryAbort
<1> QED BY <1>1, <1>2 DEF Orphaned, Idle, Executing

\* A step that leaves the sweeps, the orphans and the visible workers alone.
LEMMA SweepElsewhere ==
  ASSUME TypeOK, SweepOK, UNCHANGED schedulerVars,
         \A e \in EventIds : Orphaned(e) => Orphaned(e)',
         \A w \in Workers : Visible(w) => Visible(w)'
  PROVE  SweepOK'
<1>1. UNCHANGED <<sweep, pending, recovering, deadWorkers>>
  BY DEF schedulerVars
<1>2. ASSUME NEW s \in Schedulers
      PROVE  \A x \in pending[s] : x.event \in EventIds /\ x.worker \in Workers \cup {NULL}
  BY DEF TypeOK, SweepTypeOK, Rows
<1>3. ASSUME NEW s \in Schedulers
      PROVE  /\ \A x, y \in pending[s] : x.event = y.event => x = y
             /\ sweep[s] = "IDLE" => deadWorkers[s] = Unchecked
  BY <1>3 DEF SweepOK, SweepPart
<1>4. ASSUME NEW s \in Schedulers, sweep[s] = "PROCESSING"
      PROVE  /\ \A x \in pending[s] : x.worker # NULL =>
                  /\ Orphaned(x.event)' \/ Visible(x.worker)'
                  /\ deadWorkers[s][x.worker] = "dead" => Orphaned(x.event)'
             /\ \A x \in pending[s] : recovering[s] = x => Orphaned(x.event)'
  <2>1. /\ \A x \in pending[s] : x.worker # NULL =>
              /\ Orphaned(x.event) \/ Visible(x.worker)
              /\ deadWorkers[s][x.worker] = "dead" => Orphaned(x.event)
        /\ \A x \in pending[s] : recovering[s] = x => Orphaned(x.event)
    BY <1>4 DEF SweepOK, SweepPart
  <2> QED BY <1>2, <2>1
<1> QED BY <1>1, <1>3, <1>4 DEF SweepOK, SweepPart, Orphaned, Visible, Idle, Executing, Unchecked

\* No sweep runs when time passes.
LEMMA SweepTick ==
  ASSUME TypeOK, SweepOK, Tick
  PROVE  SweepOK'
<1>1. UNCHANGED <<sweep, pending, recovering, deadWorkers>>
  BY DEF Tick, vars, schedulerVars
<1>2. \A s \in Schedulers : sweep[s] = "IDLE"
  BY DEF Tick, Busy
<1>3. \A s \in Schedulers : /\ \A x, y \in pending[s] : x.event = y.event => x = y
                            /\ sweep[s] = "IDLE" => deadWorkers[s] = Unchecked
  BY DEF SweepOK, SweepPart
<1> QED BY <1>1, <1>2, <1>3 DEF SweepOK, SweepPart, Unchecked

\* A sweep that begins finds its rows orphaned or their workers visible.
LEMMA SweepBegins ==
  ASSUME PeriodsFit, TimedInv, Exclusive, SweepOK, NEW s \in Schedulers, RunSweep(s), StampRows
  PROVE  SweepOK'
<1> USE DEF TimedInv, LifecycleInv, TypeOK
<1>1. CASE UNCHANGED vars
  <2>1. UNCHANGED <<schedulerVars, status, pc, job, heartbeat>> /\ UNCHANGED ttl
    BY <1>1 DEF vars, storeVars, workerVars, RunSweep
  <2> QED BY <2>1, SweepElsewhere DEF Orphaned, Visible, Idle, Executing
<1>2. CASE BeginSweep(s, due[s], StaleRows(due[s]))
  <2> DEFINE rows == StaleRows(due[s])
  <2>1. /\ sweep[s] = "IDLE" /\ recovering[s] = NULL
        /\ sweep' = [sweep EXCEPT ![s] = due[s]]
        /\ pending' = [pending EXCEPT ![s] = rows]
        /\ UNCHANGED <<status, pc, job, heartbeat, recovering, deadWorkers, ttl>>
    BY <1>2 DEF BeginSweep, RunSweep, SweepTypeOK, storeVars, workerVars
  <2>2. due[s] # "none" /\ due[s] # "IDLE"
    BY DEF RunSweep, DueOK
  <2>3. \A x \in rows : /\ x \in RowsIn(due[s]) /\ age[x.event] >= StaleAge(due[s])
    BY DEF StaleRows
  <2>4. \A x \in rows : x.event \in EventIds /\ status[x.event] = due[s]
                        /\ x.worker = workerId[x.event] /\ x.attempt = attempt[x.event]
    BY <2>3 DEF RowsIn
  <2>5. \A x, y \in rows : x.event = y.event => x = y
    BY <2>3 DEF RowsIn
  <2>6. ASSUME due[s] = "PROCESSING", NEW x \in rows, x.worker # NULL
        PROVE  Orphaned(x.event) \/ Visible(x.worker)
    <3>1. CASE Idle(x.event)
      BY <2>4, <2>6, <3>1 DEF Orphaned
    <3>2. ASSUME NEW v \in Workers, Executing(v), job[v].event = x.event
          PROVE  Visible(x.worker)
      <4>1. x.worker = v
        BY <2>4, <2>6, <3>2 DEF Exclusive, ParsedWorkerID
      <4>2. age[job[v].event] >= StaleProcessing
        BY <2>3, <2>6, <3>2 DEF StaleAge
      <4> QED BY <3>2, <4>1, <4>2, OwnerHasKey DEF Visible
    <3> QED BY <3>1, <3>2 DEF Idle
  <2>7. deadWorkers[s] = Unchecked
    BY <2>1 DEF SweepOK, SweepPart
  <2> HIDE DEF rows
  <2>8. ASSUME NEW r \in Schedulers, r # s
        PROVE  /\ UNCHANGED <<sweep[r], pending[r], recovering[r], deadWorkers[r]>>
               /\ UNCHANGED <<status, pc, job, heartbeat, ttl>>
    BY <2>1, <2>8 DEF SweepTypeOK
  <2>9. /\ sweep'[s] = due[s] /\ pending'[s] = rows /\ deadWorkers'[s] = Unchecked
        /\ recovering'[s] = NULL
    BY <2>1, <2>7 DEF SweepTypeOK
  <2>10. \A x \in rows : /\ x # NULL
                         /\ x.worker # NULL => Unchecked[x.worker] # "dead"
    <3>1. \A x \in rows : x \in Rows
      BY <2>3 DEF RowsIn, Rows, StoreTypeOK
    <3> QED BY <3>1, PipelineAssumption DEF PipelineAssumption, Rows, Unchecked
  <2>11. SweepPart(s)'
    <3>1. Unchecked' = Unchecked
      BY DEF Unchecked
    <3>2. \A x \in rows : due[s] = "PROCESSING" /\ x.worker # NULL =>
            Orphaned(x.event)' \/ Visible(x.worker)'
      BY <2>1, <2>6 DEF Orphaned, Visible, Idle, Executing
    <3> QED BY <2>2, <2>5, <2>9, <2>10, <3>1, <3>2 DEF SweepPart
  <2>12. \A r \in Schedulers \ {s} : SweepPart(r)'
    BY <2>1, <2>8 DEF SweepOK, SweepPart, Orphaned, Visible, Idle, Executing, Unchecked
  <2> QED BY <2>11, <2>12 DEF SweepOK
<1> QED BY <1>1, <1>2 DEF RunSweep

\* The one scheduler goes on: it asks for the keys of the owners, passes over the
\* rows of live ones and requeues the others.
LEMMA SweepGoesOn ==
  ASSUME TypeOK, SweepOK, NEW s \in Schedulers, \A r \in Schedulers : r = s,
         RecoverStep(s), UNCHANGED ttl
  PROVE  SweepOK'
<1> USE DEF TypeOK
<1>0. /\ UNCHANGED <<pc, job, heartbeat>>
      /\ Unchecked' = Unchecked
      /\ \A x \in pending[s] : x \in Rows /\ x # NULL /\ x.event \in EventIds
  <2>1. UNCHANGED <<pc, job, heartbeat>>
    BY DEF RecoverStep, PassOver, CheckHeartbeat, Republish, ResetOwner, workerVars
  <2>2. \A x \in pending[s] : x \in Rows /\ x # NULL /\ x.event \in EventIds
    BY PipelineAssumption DEF PipelineAssumption, SweepTypeOK, Rows
  <2> QED BY <2>1, <2>2 DEF Unchecked
<1>1. SweepPart(s) /\ \A w : Visible(w)' <=> Visible(w)
  BY <1>0 DEF SweepOK, Visible
<1>2. SweepPart(s)' => SweepOK'
  BY DEF SweepOK
<1>3. ASSUME NEW x \in pending[s], DoneWith(s, x), recovering'[s] = NULL,
             \A y \in pending[s] \ {x} : Orphaned(y.event) => Orphaned(y.event)'
      PROVE  SweepPart(s)'
  <2>1. /\ pending'[s] = pending[s] \ {x}
        /\ \/ sweep'[s] = sweep[s] /\ deadWorkers'[s] = deadWorkers[s]
           \/ sweep'[s] = "IDLE" /\ deadWorkers'[s] = Unchecked
    BY <1>3 DEF DoneWith, SweepTypeOK
  <2> QED BY <1>0, <1>1, <1>3, <2>1 DEF SweepPart
<1>4. ASSUME NEW x \in pending[s], PassOver(s, x) PROVE SweepPart(s)'
  <2>1. DoneWith(s, x) /\ recovering'[s] = NULL /\ UNCHANGED status
    BY <1>4 DEF PassOver, storeVars
  <2>2. \A y \in pending[s] : Orphaned(y.event) => Orphaned(y.event)'
    BY <1>0, <2>1 DEF Orphaned, Idle, Executing
  <2> QED BY <1>3, <2>1, <2>2
<1>5. ASSUME NEW x \in pending[s], CheckHeartbeat(s, x) PROVE SweepPart(s)'
  <2>1. /\ UNCHANGED <<status, pending, sweep, recovering>>
        /\ sweep[s] = "PROCESSING" /\ x.worker # NULL
        /\ deadWorkers' = [deadWorkers EXCEPT ![s][x.worker] =
                             IF x.worker \in heartbeat THEN "alive" ELSE "dead"]
    BY <1>5 DEF CheckHeartbeat, storeVars
  <2>2. \A y \in pending[s] : Orphaned(y.event) => Orphaned(y.event)'
    BY <1>0, <2>1 DEF Orphaned, Idle, Executing
  <2>3. ASSUME NEW y \in pending[s], y.worker # NULL, deadWorkers'[s][y.worker] = "dead"
        PROVE  Orphaned(y.event)
    <3>1. CASE y.worker = x.worker
      <4>1. x.worker \notin heartbeat
        BY <2>1, <2>3, <3>1 DEF SweepTypeOK, Rows
      <4> QED BY <1>1, <2>1, <2>3, <3>1, <4>1 DEF SweepPart, Visible
    <3>2. CASE y.worker # x.worker
      <4>1. deadWorkers[s][y.worker] = "dead"
        BY <2>1, <2>3, <3>2 DEF SweepTypeOK, Rows
      <4> QED BY <1>1, <2>1, <2>3, <4>1 DEF SweepPart
    <3> QED BY <3>1, <3>2
  <2> QED BY <1>0, <1>1, <2>1, <2>2, <2>3 DEF SweepPart
<1>6. ASSUME NEW x \in pending[s], Republish(s, x) PROVE SweepPart(s)'
  <2>1. /\ UNCHANGED status /\ recovering[s] = NULL
        /\ sweep[s] = "PROCESSING" => x.worker # NULL /\ deadWorkers[s][x.worker] = "dead"
        /\ \/ /\ recovering' = [recovering EXCEPT ![s] = x]
              /\ UNCHANGED <<sweep, pending, deadWorkers>>
           \/ DoneWith(s, x) /\ UNCHANGED recovering
    BY <1>6 DEF Republish, storeVars
  <2>2. \A y \in pending[s] : Orphaned(y.event) => Orphaned(y.event)'
    BY <1>0, <2>1 DEF Orphaned, Idle, Executing
  <2>3. CASE DoneWith(s, x) /\ UNCHANGED recovering
    BY <1>3, <2>1, <2>2, <2>3
  <2>4. CASE /\ recovering' = [recovering EXCEPT ![s] = x]
             /\ UNCHANGED <<sweep, pending, deadWorkers>>
    <3>1. recovering'[s] = x
      BY <2>4 DEF SweepTypeOK
    <3>2. sweep[s] = "PROCESSING" => Orphaned(x.event)
      BY <1>1, <2>1 DEF SweepPart
    <3> QED BY <1>0, <1>1, <2>2, <2>4, <3>1, <3>2 DEF SweepPart
  <2> QED BY <2>1, <2>3, <2>4
<1>7. CASE ResetOwner(s)
  <2> DEFINE x == recovering[s]
  <2>1. x \in pending[s] /\ DoneWith(s, x) /\ recovering'[s] = NULL
    BY <1>7 DEF ResetOwner, SweepTypeOK
  <2>2. ASSUME NEW y \in pending[s] \ {x} PROVE status'[y.event] = status[y.event]
    <3>1. y.event # x.event /\ y.event \in EventIds
      BY <1>0, <1>1, <2>1 DEF SweepPart
    <3> QED BY <1>7, <3>1, ResetEffect DEF StoreTypeOK
  <2>3. \A y \in pending[s] \ {x} : Orphaned(y.event) => Orphaned(y.event)'
    BY <1>0, <2>2 DEF Orphaned, Idle, Executing
  <2> HIDE DEF x
  <2> QED BY <1>2, <1>3, <2>1, <2>3
<1> QED BY <1>2, <1>4, <1>5, <1>6, <1>7 DEF RecoverStep

ExclusiveTimedInv == TimedInv /\ Exclusive /\ SweepOK

\* Every step of the timed pipeline keeps workers apart and sweeps off their events.
LEMMA TimedExclusiveStep ==
  ASSUME PeriodsFit, \A s, r \in Schedulers : s = r,
         ExclusiveTimedInv, [TimedNext]_timedVars
  PROVE  ExclusiveTimedInv'
<1> USE DEF ExclusiveTimedInv
<1>0. LifecycleInv /\ DueOK /\ PingOK /\ TypeOK /\ TimedInv'
  BY TimedStep DEF TimedInv, LifecycleInv
<1>1. CASE UNCHANGED timedVars
  <2>1. UNCHANGED <<schedulerVars, pc, job, status, workerId, heartbeat, ttl>>
    BY <1>1 DEF timedVars, clockVars, vars, workerVars, storeVars
  <2>2. SweepOK'
    BY <1>0, <2>1, SweepElsewhere DEF Orphaned, Visible, Idle, Executing
  <2>3. Exclusive'
    BY <1>0, <2>1, ExclusiveElsewhere
  <2> QED BY <1>0, <2>2, <2>3
<1>2. CASE Tick
  <2>1. UNCHANGED <<pc, job, status, workerId>>
    BY <1>2 DEF Tick, vars, workerVars, storeVars
  <2> QED BY <1>0, <1>2, <2>1, SweepTick, ExclusiveElsewhere
<1>3. ASSUME NEW w \in Workers, StampRows,
             TimedStart(w) \/ TimedCrash(w) \/ Beat(w) \/ MissBeat(w) \/ KeyExpires(w)
      PROVE  Exclusive' /\ SweepOK'
  <2>1. WorkerStep(w) \/ UNCHANGED vars
    BY <1>3 DEF TimedStart, TimedCrash, Beat, MissBeat, KeyExpires, WorkerStep
  <2>2. \A v \in Workers : Visible(v) => Visible(v)'
    <3>1. TTL > 0
      BY Periods, SMT DEF PeriodsFit
    <3> QED BY <1>0, <1>3, <3>1
            DEF TimedStart, TimedCrash, Beat, MissBeat, KeyExpires, Start, Crash, Ping, Expire,
                vars, Visible, PingOK
  <2>3. UNCHANGED schedulerVars
    BY <1>3 DEF TimedStart, TimedCrash, Beat, MissBeat, KeyExpires, Start, Crash, Ping, Expire,
                vars
  <2>4. CASE WorkerStep(w)
    BY <1>0, <2>2, <2>3, <2>4, WorkerLeaves, WorkerExclusive, SweepElsewhere
  <2>5. CASE UNCHANGED vars
    <3>1. UNCHANGED <<pc, job, status, workerId>>
      BY <2>5 DEF vars, workerVars, storeVars
    <3>2. \A e \in EventIds : Orphaned(e) => Orphaned(e)'
      BY <3>1 DEF Orphaned, Idle, Executing
    <3> QED BY <1>0, <2>2, <2>3, <3>1, <3>2, SweepElsewhere, ExclusiveElsewhere
  <2> QED BY <2>1, <2>4, <2>5
<1>4. ASSUME NEW s \in Schedulers, StampRows, RunSweep(s) PROVE Exclusive' /\ SweepOK'
  <2>1. UNCHANGED <<pc, job, status, workerId>>
    BY <1>4 DEF RunSweep, BeginSweep, vars, workerVars, storeVars
  <2> QED BY <1>0, <1>4, <2>1, SweepBegins, ExclusiveElsewhere
<1>5. ASSUME OtherwiseStep PROVE Exclusive' /\ SweepOK'
  <2>1. UNCHANGED ttl
    BY <1>5 DEF OtherwiseStep
  <2>2. ASSUME UNCHANGED heartbeat PROVE \A v \in Workers : Visible(v) => Visible(v)'
    BY <2>1, <2>2 DEF Visible
  <2>3. ASSUME NEW e \in EventIds, RequestStep(e) PROVE Exclusive' /\ SweepOK'
    <3>1. UNCHANGED schedulerVars /\ UNCHANGED heartbeat
      BY <2>3 DEF RequestStep, RejectRequest, CreateEvent, PublishEvent, MarkQueued,
                  AbortRequest
    <3> QED BY <1>0, <2>2, <2>3, <3>1, RequestLeaves, RequestExclusive, SweepElsewhere
  <2>4. ASSUME NEW w \in Workers, LoopStep(w) \/ Stop(w) PROVE Exclusive' /\ SweepOK'
    <3>1. WorkerStep(w)
      BY <2>4 DEF WorkerStep
    <3>2. UNCHANGED schedulerVars /\ UNCHANGED heartbeat
      BY <2>4 DEF LoopStep, Stop, ExitLoop, Stopped, Consume, LoseDelivery, AssignJob,
                  DiscardJob, Process, FinalizeJob, AckJob, HandleFailure
    <3> QED BY <1>0, <2>2, <3>1, <3>2, WorkerLeaves, WorkerExclusive, SweepElsewhere
  <2>5. ASSUME NEW t \in retries, TimedRetry(t) PROVE Exclusive' /\ SweepOK'
    <3>1. RetryStep(t)
      BY <2>5 DEF TimedRetry, RetryStep
    <3>2. UNCHANGED schedulerVars /\ UNCHANGED heartbeat
      BY <2>5 DEF TimedRetry, RetryPublish, RetryAck, RetryUpdate, RetryAbort
    <3> QED BY <1>0, <2>2, <3>1, <3>2, RetryLeaves, RetryExclusive, SweepElsewhere
  <2>6. ASSUME NEW s \in Schedulers, RecoverStep(s) PROVE Exclusive' /\ SweepOK'
    <3>1. SchedulerStep(s)
      BY <2>6 DEF SchedulerStep
    <3>2. recovering[s] # NULL /\ sweep[s] = "PROCESSING" => Idle(recovering[s].event)
      BY <1>0 DEF TypeOK, SweepTypeOK, SweepOK, SweepPart, Orphaned
    <3> QED BY <1>0, <2>1, <2>6, <3>1, <3>2, SweepGoesOn, SchedulerExclusive
  <2> QED BY <1>5, <2>3, <2>4, <2>5, <2>6 DEF OtherwiseStep
<1>6. CASE InstantStep /\ Instantly
  <2>1. StampRows
    BY <1>6 DEF Instantly
  <2> QED BY <1>0, <1>3, <1>4, <1>5, <1>6, <2>1 DEF InstantStep
<1> QED BY <1>0, <1>1, <1>2, <1>6 DEF TimedNext

\* With one scheduler, periods that fit and no shutdown, an event is run by at
\* most one worker at a time and stays PROCESSING meanwhile, also for workers
\* whose names are UUIDs and whose events the sweeps do take.
THEOREM TimedExclusive ==
  ASSUME PeriodsFit, \A s, r \in Schedulers : s = r
  PROVE  TimedSpec => []ExclusiveProcessing
<1>1. ASSUME TimedInit PROVE ExclusiveTimedInv
  <2>1. Init /\ TimedInv
    BY <1>1, TimedStep DEF TimedInit
  <2>2. Exclusive
    BY <2>1 DEF Init, Exclusive, ExclusiveProcessing, Executing
  <2>3. SweepOK
    BY <2>1 DEF Init, SweepOK, SweepPart
  <2> QED BY <2>1, <2>2, <2>3 DEF ExclusiveTimedInv
<1>2. ExclusiveTimedInv /\ [TimedNext]_timedVars => ExclusiveTimedInv'
  BY TimedExclusiveStep
<1>3. ExclusiveTimedInv => ExclusiveProcessing
  BY DEF ExclusiveTimedInv, Exclusive
<1> QED BY <1>1, <1>2, <1>3, PTL DEF TimedSpec

-----------------------------------------------------------------------------
(* Retries and sweeps in time.  When every delay ends before its row is    *)
(* stale, a sweep of RETRYING events finds no goroutine left for any.      *)

\* Every delay, rounded to ticks, is shorter than the age of a stale row.
DelaysFit ==
  \A a \in 0..MaxAttempts : \A d \in CalculateBackoff(a, BaseDelay) :
    d \div TickMs + 1 < StaleRetrying

\* What a retry goroutine still has to sleep.
Remaining(t) == IF Waits(t) THEN alarm[t] ELSE 0

AlarmOK ==
  /\ age \in [EventIds -> Nat]
  /\ DOMAIN alarm = {t \in retries : Waits(t)}
  /\ \A t \in retries : Waits(t) => alarm[t] \in Nat /\ alarm[t] < StaleRetrying
  /\ \A t \in retries : status[t.job.event] = "RETRYING" =>
       age[t.job.event] + Remaining(t) < StaleRetrying

\* The timer of a retry is a number of ticks below the age of a stale row.
LEMMA DelayTicksFit ==
  ASSUME DelaysFit, NEW j, j.attempt \in 0..MaxAttempts, NEW n \in DelayTicks(j)
  PROVE  n \in Nat /\ n < StaleRetrying
<1>1. TickMs \in Nat \ {0} /\ StaleRetrying \in Nat /\ BaseDelay \in Nat
  BY TimingAssumption DEF TimingAssumption
<1>2. PICK d \in CalculateBackoff(j.attempt, BaseDelay) : n = d \div TickMs \/ n = d \div TickMs + 1
  BY DEF DelayTicks
<1>3. d \div TickMs + 1 < StaleRetrying
  BY <1>2 DEF DelaysFit
<1>4. d \in Nat
  <2>1. j.attempt \in Int
    BY StoreAssumption DEF StoreAssumption
  <2>2. CASE j.attempt > 0
    <3>1. d \in 0..MaxDelay
      BY <1>1, <1>2, <2>1, <2>2, DelayCapped
    <3>2. MaxDelay \in Nat
      BY DEF MaxDelay
    <3> QED BY <3>1, <3>2
  <2>3. CASE ~(j.attempt > 0)
    <3>1. j.attempt <= 0
      BY <2>1, <2>3, SMT
    <3> QED BY <1>1, <1>2, <3>1 DEF CalculateBackoff
  <2> QED BY <2>2, <2>3
<1>5. d \div TickMs \in Nat
  BY <1>1, <1>4, SMT
<1> QED BY <1>1, <1>2, <1>3, <1>5, SMT

\* Where the retry goroutines of the next state come from: they were there, they
\* take the job of one that was, or they start with a failure just recorded.
LEMMA RetryOrigin ==
  ASSUME TypeOK, [Next]_vars, NEW t \in retries'
  PROVE  \/ t \in retries
         \/ ~Waits(t) /\ \E u \in retries : u.job = t.job
         \/ /\ t.job.event \in EventIds
            /\ status[t.job.event] = "PROCESSING" /\ status'[t.job.event] # "PROCESSING"
<1> USE DEF TypeOK
<1>1. CASE Drops
  BY <1>1 DEF Drops
<1>2. ASSUME NEW u \in retries, RetryPublish(u) \/ RetryAck(u)
      PROVE  \/ t \in retries
             \/ ~Waits(t) /\ \E v \in retries : v.job = t.job
  <2>1. u \in Retries
    BY DEF ActorTypeOK
  <2>2. ASSUME NEW to \in {"ack", "update"}, t = [u EXCEPT !.step = to]
        PROVE  ~Waits(t) /\ t.job = u.job
    BY <2>1, <2>2 DEF Waits, Retries
  <2>3. \/ t \in retries
        \/ \E to \in {"ack", "update"} : t = [u EXCEPT !.step = to]
    BY <1>2 DEF RetryPublish, RetryAck, Advance
  <2> QED BY <2>2, <2>3
<1>3. ASSUME NEW w \in Workers, HandOver(w), t \notin retries
      PROVE  /\ t.job.event \in EventIds
             /\ status[t.job.event] = "PROCESSING" /\ status'[t.job.event] # "PROCESSING"
  <2>1. HandleFailure(w)
    BY <1>3 DEF HandOver, Consume, LoseDelivery, DiscardJob, AckJob, workerVars
  <2>2. job[w] \in Jobs /\ job[w].event \in EventIds
    BY <2>1, HasJob DEF HandleFailure
  <2> DEFINE e == job[w].event
             next == [job[w] EXCEPT !.attempt = @ + 1]
  <2>3. PICK res \in Results :
          /\ RecordFailure(e, res)
          /\ res = "ok"
          /\ t = [worker |-> w, job |-> next, step |-> "backoff"]
    BY <1>3, <2>1 DEF HandleFailure
  <2>4. t.job.event = e
    BY <2>2, <2>3 DEF Jobs
  <2>5. FailureStatus(e) # "PROCESSING"
    BY DEF FailureStatus
  <2> HIDE DEF e
  <2>6. status[e] = "PROCESSING" /\ status' = [status EXCEPT ![e] = FailureStatus(e)]
    BY <2>2, <2>3, FailureEffect DEF e
  <2> QED BY <2>2, <2>4, <2>5, <2>6 DEF e, StoreTypeOK
<1> QED BY <1>1, <1>2, <1>3, StepKinds

\* Time passes for the retries that sleep; the others have nothing to wait for.
LEMMA AlarmTick ==
  ASSUME TypeOK, AlarmOK, Tick
  PROVE  AlarmOK'
<1>1. UNCHANGED <<retries, status>>
  BY DEF Tick, vars, workerVars, storeVars
<1>2. /\ age' = [e \in EventIds |-> Older(age[e], StaleAge(status[e]))]
      /\ alarm' = [t \in DOMAIN alarm |-> Sooner(alarm[t])]
      /\ \A t \in retries : Waits(t) /\ alarm[t] # 0
  BY DEF Tick, Busy
<1>3. \A e \in EventIds : age'[e] \in Nat /\ age'[e] <= age[e] + 1
  BY <1>2, SMT DEF AlarmOK, Older
<1>4. ASSUME NEW t \in retries
      PROVE  /\ alarm'[t] \in Nat /\ alarm[t] \in Nat /\ alarm'[t] = alarm[t] - 1
             /\ alarm'[t] < StaleRetrying
  <2>1. /\ alarm[t] \in Nat /\ alarm[t] # 0 /\ alarm[t] < StaleRetrying
        /\ alarm'[t] = Sooner(alarm[t])
    BY <1>2 DEF AlarmOK
  <2>2. StaleRetrying \in Nat
    BY TimingAssumption DEF TimingAssumption
  <2> QED BY <2>1, <2>2, SMT DEF Sooner
<1>5. ASSUME NEW t \in retries, status[t.job.event] = "RETRYING"
      PROVE  age'[t.job.event] + alarm'[t] < StaleRetrying
  <2> DEFINE e == t.job.event
  <2>1. e \in EventIds
    BY DEF TypeOK, ActorTypeOK, Retries, Jobs
  <2>2. age[e] \in Nat /\ age[e] + alarm[t] < StaleRetrying
    BY <1>2, <1>5, <2>1 DEF AlarmOK, Remaining
  <2>3. age'[e] \in Nat /\ age'[e] <= age[e] + 1
    BY <1>3, <2>1
  <2>4. StaleRetrying \in Nat
    BY TimingAssumption DEF TimingAssumption
  <2> HIDE DEF e
  <2> QED BY <1>4, <2>2, <2>3, <2>4, SMT DEF e
<1>6. age' \in [EventIds -> Nat] /\ DOMAIN alarm' = DOMAIN alarm
  BY <1>2, <1>3
<1> QED BY <1>1, <1>2, <1>4, <1>5, <1>6 DEF AlarmOK, Remaining, Waits

\* A step that takes no time: a new timer ends before its row is stale, which
\* the failure has just updated.
LEMMA AlarmInstant ==
  ASSUME DelaysFit, KnownInv, KnownInv', AlarmOK, [Next]_vars, Instantly
  PROVE  AlarmOK'
<1> USE DEF KnownInv, LifecycleInv, TypeOK
<1>1. /\ age' \in [EventIds -> Nat]
      /\ \A e \in EventIds : age[e] \in Nat /\ age'[e] <= age[e]
      /\ \A e \in EventIds : status'[e] # status[e] => age'[e] = 0
  BY NoOlder DEF Instantly, AlarmOK
<1>2. \A t \in retries' : t.job.event \in EventIds /\ t.job.attempt \in 0..MaxAttempts
  <2> SUFFICES ASSUME NEW t \in retries'
               PROVE  t.job.event \in EventIds /\ t.job.attempt \in 0..MaxAttempts
    OBVIOUS
  <2>1. t.job.event \in EventIds /\ t.job.attempt \in Nat
    BY DEF ActorTypeOK, Retries, Jobs
  <2>2. t.job.attempt <= attempt'[t.job.event]
    BY DEF RetryKnown, Known
  <2>3. attempt'[t.job.event] \in Nat /\ attempt'[t.job.event] <= MaxAttempts
    BY <2>1 DEF StoreTypeOK, AttemptBound
  <2> QED BY <2>1, <2>2, <2>3, StoreAssumption, SMT DEF StoreAssumption
<1>3. PICK d \in UNION {DelayTicks(t.job) : t \in {t \in retries' : Waits(t)} \ DOMAIN alarm}
                   \cup {0} :
        /\ \A t \in {t \in retries' : Waits(t)} \ DOMAIN alarm : d \in DelayTicks(t.job)
        /\ alarm' = [t \in {t \in retries' : Waits(t)} |->
                       IF t \in DOMAIN alarm THEN alarm[t] ELSE d]
  BY DEF Instantly, SetAlarms
<1>4. StaleRetrying \in Nat /\ StaleRetrying > 0
  BY TimingAssumption DEF TimingAssumption
<1>5. ASSUME NEW t \in retries', Waits(t)
      PROVE  /\ alarm'[t] \in Nat /\ alarm'[t] < StaleRetrying
             /\ t \in retries => alarm'[t] = alarm[t]
  <2>1. CASE t \in retries
    BY <1>3, <1>5, <2>1 DEF AlarmOK
  <2>2. CASE t \notin retries
    <3>1. alarm'[t] = d /\ d \in DelayTicks(t.job)
      BY <1>3, <1>5, <2>2 DEF AlarmOK
    <3> QED BY <1>2, <2>2, <3>1, DelayTicksFit
  <2> QED BY <2>1, <2>2
<1>6. ASSUME NEW t \in retries', status'[t.job.event] = "RETRYING"
      PROVE  age'[t.job.event] + (IF Waits(t) THEN alarm'[t] ELSE 0) < StaleRetrying
  <2> DEFINE e == t.job.event
  <2>1. e \in EventIds
    BY <1>2
  <2>2. age[e] \in Nat /\ age'[e] \in Nat /\ age'[e] <= age[e]
    BY <1>1, <2>1
  <2>3. CASE t \in retries /\ status'[e] = status[e]
    <3>1. age[e] + (IF Waits(t) THEN alarm[t] ELSE 0) < StaleRetrying
      BY <1>6, <2>3 DEF AlarmOK, Remaining
    <3> HIDE DEF e
    <3>2. CASE Waits(t)
      BY <1>4, <1>5, <2>2, <2>3, <3>1, <3>2, SMT DEF e
    <3>3. CASE ~Waits(t)
      BY <1>4, <2>2, <3>1, <3>3, SMT DEF e
    <3> QED BY <3>2, <3>3
  <2>4. CASE t \notin retries /\ ~Waits(t) /\ status'[e] = status[e]
    <3>1. PICK u \in retries : u.job = t.job
      BY <1>6, <2>4, RetryOrigin
    <3>2. age[e] + Remaining(u) < StaleRetrying /\ Remaining(u) \in Nat
      BY <1>6, <2>4, <3>1 DEF AlarmOK, Remaining
    <3> HIDE DEF e
    <3> QED BY <1>4, <2>2, <2>4, <3>2, SMT DEF e
  <2>5. CASE status'[e] # status[e]
    <3>1. age'[e] = 0
      BY <1>1, <2>1, <2>5
    <3> HIDE DEF e
    <3>2. CASE Waits(t)
      BY <1>4, <1>5, <3>1, <3>2, SMT DEF e
    <3>3. CASE ~Waits(t)
      BY <1>4, <3>1, <3>3, SMT DEF e
    <3> QED BY <3>2, <3>3
  <2>6. CASE t \notin retries /\ Waits(t) /\ status'[e] = status[e]
    BY <1>6, <2>6, RetryOrigin
  <2> QED BY <2>3, <2>4, <2>5, <2>6
<1>7. DOMAIN alarm' = {t \in retries' : Waits(t)}
  BY <1>3
<1> QED BY <1>1, <1>5, <1>6, <1>7 DEF AlarmOK, Remaining, Waits

\* Only a sweep can requeue event e.
Stranded(e) == status[e] = "RETRYING" /\ \A t \in retries : t.job.event # e

\* A RETRYING event is requeued by its retry goroutine or by a sweep.
LEMMA RetryingLeaves ==
  ASSUME LifecycleInv, [Next]_vars, NEW e \in EventIds, status[e] = "RETRYING",
         \A t \in retries : t.job.event # e
  PROVE  \/ status'[e] = "RETRYING"
         \/ \E s \in Schedulers : ResetOwner(s) /\ recovering[s].event = e
<1> USE DEF LifecycleInv, TypeOK
<1>1. CASE UNCHANGED storeVars
  BY <1>1 DEF storeVars
<1>2. ASSUME NEW r \in EventIds, RequestStep(r) PROVE status'[e] = "RETRYING"
  <2>1. CASE CreateEvent(r)
    BY <2>1, CreateEffect DEF CreateEvent, Fresh, Absent, StoreTypeOK
  <2>2. CASE MarkQueued(r)
    BY <2>2, UpdateStatusEffect DEF MarkQueued, Statuses, StoreTypeOK
  <2>3. CASE UNCHANGED storeVars
    BY <2>3 DEF storeVars
  <2> QED BY <1>2, <2>1, <2>2, <2>3
          DEF RequestStep, RejectRequest, PublishEvent, AbortRequest
<1>3. ASSUME NEW w \in Workers, WorkerStep(w) PROVE status'[e] = "RETRYING"
  <2>1. CASE AssignJob(w)
    <3> DEFINE d == job[w].event
    <3>1. d \in EventIds
      BY <2>1, HasJob DEF AssignJob
    <3>2. PICK res \in Results : AssignEvent(d, w, "QUEUED", "PROCESSING", ContextOf(w), res)
      BY <2>1 DEF AssignJob
    <3>3. \/ UNCHANGED status
          \/ status[d] = "QUEUED" /\ status' = [status EXCEPT ![d] = "PROCESSING"]
      <4> HIDE DEF d
      <4> QED BY <3>1, <3>2, TakeUpEffect
    <3> QED BY <3>1, <3>3 DEF StoreTypeOK
  <2>2. CASE FinalizeJob(w) \/ HandleFailure(w)
    <3>1. job[w].event \in EventIds
      BY <2>2, HasJob DEF FinalizeJob, HandleFailure
    <3> QED BY <2>2, <3>1, FinalizeEffect, FailureEffect
            DEF FinalizeJob, HandleFailure, StoreTypeOK
  <2>3. CASE UNCHANGED storeVars
    BY <2>3 DEF storeVars
  <2> QED BY <1>3, <2>1, <2>2, <2>3
          DEF WorkerStep, LoopStep, Start, Stop, Crash, Ping, Expire, ExitLoop, Stopped,
              Consume, LoseDelivery, DiscardJob, Process, AckJob
<1>4. ASSUME NEW t \in retries, RetryStep(t) PROVE status'[e] = "RETRYING"
  <2>1. CASE RetryUpdate(t)
    <3>1. t.job.event \in EventIds /\ t.job.event # e
      BY DEF ActorTypeOK, Retries, Jobs
    <3> QED BY <2>1, <3>1, UpdateStatusEffect DEF RetryUpdate, Statuses, StoreTypeOK
  <2> QED BY <1>1, <1>4, <2>1 DEF RetryStep, RetryPublish, RetryAck, RetryAbort, storeVars
<1>5. ASSUME NEW s \in Schedulers, SchedulerStep(s)
      PROVE  status'[e] = "RETRYING" \/ (ResetOwner(s) /\ recovering[s].event = e)
  <2>1. CASE ResetOwner(s)
    BY <2>1, ResetEffect DEF StoreTypeOK
  <2>2. CASE UNCHANGED storeVars
    BY <2>2 DEF storeVars
  <2> QED BY <1>5, <2>1, <2>2
          DEF SchedulerStep, RecoverStep, BeginSweep, PassOver, CheckHeartbeat, Republish,
              CrashScheduler
<1>6. CASE UNCHANGED vars
  BY <1>1, <1>6 DEF vars
<1> QED BY <1>2, <1>3, <1>4, <1>5, <1>6 DEF Next

\* It is stranded until a sweep requeues it: no goroutine starts for it.
LEMMA StrandedStays ==
  ASSUME LifecycleInv, [Next]_vars, NEW e \in EventIds, Stranded(e)
  PROVE  \/ Stranded(e)'
         \/ \E s \in Schedulers : ResetOwner(s) /\ recovering[s].event = e
<1>1. \A t \in retries' : t.job.event # e
  BY RetryOrigin DEF LifecycleInv, Stranded
<1>2. \/ status'[e] = "RETRYING"
      \/ \E s \in Schedulers : ResetOwner(s) /\ recovering[s].event = e
  BY RetryingLeaves DEF Stranded
<1> QED BY <1>1, <1>2 DEF Stranded

\* The rows of a sweep of RETRYING events, one for each event, are stranded.
SparePart(s) ==
  /\ \A x, y \in pending[s] : x.event = y.event => x = y
  /\ sweep[s] = "RETRYING" => \A x \in pending[s] : Stranded(x.event)

SpareOK == \A s \in Schedulers : SparePart(s)

\* A step that adds no row to a sweep and requeues none of those it leaves.
LEMMA SpareKept ==
  ASSUME LifecycleInv, SpareOK, [Next]_vars,
         \A s \in Schedulers : pending'[s] \subseteq pending[s] /\ sweep'[s] \in {sweep[s], "IDLE"},
         \A s, r \in Schedulers : ResetOwner(r) =>
           \A x \in pending'[s] : x.event # recovering[r].event
  PROVE  SpareOK'
<1>1. ASSUME NEW s \in Schedulers
      PROVE  /\ \A x, y \in pending'[s] : x.event = y.event => x = y
             /\ sweep'[s] = "RETRYING" => \A x \in pending'[s] : Stranded(x.event)'
  <2>1. pending'[s] \subseteq pending[s] /\ SparePart(s)
    BY DEF SpareOK
  <2>2. ASSUME sweep'[s] = "RETRYING", NEW x \in pending'[s] PROVE Stranded(x.event)'
    <3>1. x.event \in EventIds /\ Stranded(x.event)
      BY <2>1, <2>2 DEF SparePart, LifecycleInv, TypeOK, SweepTypeOK, Rows
    <3> QED BY <2>2, <3>1, StrandedStays
  <2> QED BY <2>1, <2>2 DEF SparePart
<1> QED BY <1>1 DEF SpareOK, SparePart

\* A sweep that begins with RETRYING events takes old ones only, and an old one
\* has no goroutine left.
LEMMA SpareBegins ==
  ASSUME LifecycleInv, AlarmOK, SpareOK, NEW s \in Schedulers, DueOK,
         BeginSweep(s, due[s], StaleRows(due[s]))
  PROVE  SpareOK'
<1> USE DEF LifecycleInv, TypeOK
<1> DEFINE rows == StaleRows(due[s])
<1>1. /\ sweep' = [sweep EXCEPT ![s] = due[s]]
      /\ pending' = [pending EXCEPT ![s] = rows]
      /\ UNCHANGED <<status, retries>>
  BY DEF BeginSweep, storeVars, workerVars
<1>2. \A x \in rows : /\ x \in RowsIn(due[s]) /\ age[x.event] >= StaleAge(due[s])
                      /\ x.event \in EventIds /\ status[x.event] = due[s]
  BY DEF StaleRows, RowsIn
<1>3. \A x, y \in rows : x.event = y.event => x = y
  BY <1>2 DEF RowsIn
<1>4. ASSUME due[s] = "RETRYING", NEW x \in rows, NEW t \in retries, t.job.event = x.event
      PROVE  FALSE
  <2> DEFINE a == age[x.event]
             n == Remaining(t)
  <2>1. a \in Nat /\ a >= StaleRetrying
    BY <1>2, <1>4 DEF StaleAge, AlarmOK
  <2>2. n \in Nat /\ a + n < StaleRetrying
    BY <1>2, <1>4 DEF AlarmOK, Remaining
  <2>3. StaleRetrying \in Nat
    BY TimingAssumption DEF TimingAssumption
  <2> HIDE DEF a, n
  <2> QED BY <2>1, <2>2, <2>3, SMT
<1> HIDE DEF rows
<1>5. ASSUME NEW r \in Schedulers
      PROVE  /\ \A x, y \in pending'[r] : x.event = y.event => x = y
             /\ sweep'[r] = "RETRYING" => \A x \in pending'[r] : Stranded(x.event)
  <2>1. CASE r = s
    BY <1>1, <1>2, <1>3, <1>4, <2>1 DEF Stranded, SweepTypeOK
  <2>2. CASE r # s
    BY <1>1, <2>2 DEF SpareOK, SparePart, SweepTypeOK
  <2> QED BY <2>1, <2>2
<1> QED BY <1>1, <1>5 DEF SpareOK, SparePart, Stranded

\* With one scheduler, each row it is done with leaves the sweep.
LEMMA SpareGoesOn ==
  ASSUME LifecycleInv, SpareOK, NEW s \in Schedulers, \A r \in Schedulers : r = s,
         [Next]_vars, RecoverStep(s)
  PROVE  SpareOK'
<1> USE DEF LifecycleInv, TypeOK
<1>1. ASSUME NEW x \in pending[s], DoneWith(s, x)
      PROVE  /\ pending'[s] = pending[s] \ {x}
             /\ sweep'[s] \in {sweep[s], "IDLE"}
  BY <1>1 DEF DoneWith, SweepTypeOK
<1>2. recovering[s] # NULL => recovering[s] \in pending[s]
  BY DEF SweepTypeOK
<1>3. pending'[s] \subseteq pending[s] /\ sweep'[s] \in {sweep[s], "IDLE"}
  BY <1>1, <1>2 DEF RecoverStep, PassOver, CheckHeartbeat, Republish, ResetOwner
<1>4. ASSUME ResetOwner(s), NEW x \in pending'[s] PROVE x.event # recovering[s].event
  <2>1. recovering[s] \in pending[s] /\ pending'[s] = pending[s] \ {recovering[s]}
    BY <1>1, <1>2, <1>4 DEF ResetOwner
  <2> QED BY <1>4, <2>1 DEF SpareOK, SparePart
<1> QED BY <1>3, <1>4, SpareKept

SpareInv == KnownInv /\ DueOK /\ AlarmOK /\ SpareOK

\* Every step of the timed pipeline keeps the sweeps off the retries.
LEMMA SpareStep ==
  ASSUME DelaysFit, \A s, r \in Schedulers : s = r, SpareInv, [TimedNext]_timedVars
  PROVE  SpareInv'
<1> USE DEF SpareInv
<1>1. [Next]_vars /\ DueOK' /\ KnownInv' /\ LifecycleInv /\ TypeOK
  BY TimedStepRefines, DueKept, StepKnown DEF KnownInv, LifecycleInv
<1>2. AlarmOK'
  <2>1. CASE UNCHANGED timedVars
    BY <2>1 DEF timedVars, clockVars, vars, workerVars, storeVars, AlarmOK, Remaining, Waits
  <2>2. CASE Tick
    BY <1>1, <2>2, AlarmTick
  <2>3. CASE InstantStep /\ Instantly
    BY <1>1, <2>3, AlarmInstant
  <2> QED BY <2>1, <2>2, <2>3 DEF TimedNext
<1>3. ASSUME UNCHANGED schedulerVars PROVE SpareOK'
  <2>1. UNCHANGED <<pending, sweep, recovering>>
    BY <1>3 DEF schedulerVars
  <2>2. ASSUME NEW r \in Schedulers, ResetOwner(r) PROVE FALSE
    <3>1. recovering[r] # NULL /\ recovering' = [recovering EXCEPT ![r] = NULL]
      BY <2>2 DEF ResetOwner
    <3> QED BY <1>1, <2>1, <3>1 DEF TypeOK, SweepTypeOK
  <2> QED BY <1>1, <2>1, <2>2, SpareKept
<1>4. ASSUME NEW s \in Schedulers, RunSweep(s) PROVE SpareOK'
  BY <1>1, <1>3, <1>4, SpareBegins DEF RunSweep, vars
<1>5. ASSUME NEW s \in Schedulers, RecoverStep(s) PROVE SpareOK'
  BY <1>1, <1>5, SpareGoesOn
<1>6. ASSUME NEW w \in Workers,
             TimedStart(w) \/ TimedCrash(w) \/ Beat(w) \/ MissBeat(w) \/ KeyExpires(w)
      PROVE  UNCHANGED schedulerVars
  BY <1>6 DEF TimedStart, TimedCrash, Beat, MissBeat, KeyExpires, Start, Crash, Ping, Expire,
              vars
<1>7. ASSUME OtherwiseStep PROVE SpareOK'
  <2>1. ASSUME NEW e \in EventIds, RequestStep(e) PROVE UNCHANGED schedulerVars
    BY <2>1 DEF RequestStep, RejectRequest, CreateEvent, PublishEvent, MarkQueued, AbortRequest
  <2>2. ASSUME NEW w \in Workers, LoopStep(w) \/ Stop(w) PROVE UNCHANGED schedulerVars
    BY <2>2 DEF LoopStep, Stop, ExitLoop, Stopped, Consume, LoseDelivery, AssignJob,
                DiscardJob, Process, FinalizeJob, AckJob, HandleFailure
  <2>3. ASSUME NEW t \in retries, TimedRetry(t) PROVE UNCHANGED schedulerVars
    BY <2>3 DEF TimedRetry, RetryPublish, RetryAck, RetryUpdate, RetryAbort
  <2> QED BY <1>3, <1>5, <1>7, <2>1, <2>2, <2>3 DEF OtherwiseStep
<1>8. SpareOK'
  BY <1>3, <1>4, <1>6, <1>7 DEF TimedNext, InstantStep, Tick, timedVars, vars
<1> QED BY <1>1, <1>2, <1>8

\* With one scheduler and delays that end before their rows are stale, a sweep
\* never takes an event whose retry goroutine still waits, whoever crashes or
\* is stopped and however many attempts are allowed.
THEOREM SweepsSpareRetries ==
  ASSUME DelaysFit, \A s, r \in Schedulers : s = r
  PROVE  TimedSpec => []SweepSparesRetries
<1>1. ASSUME TimedInit PROVE SpareInv
  <2>1. Init /\ DueOK
    BY <1>1 DEF TimedInit, DueOK
  <2>2. AlarmOK /\ SpareOK
    BY <1>1 DEF TimedInit, Init, AlarmOK, SpareOK, SparePart
  <2> QED BY <2>1, <2>2, InitKnown DEF SpareInv
<1>2. SpareInv /\ [TimedNext]_timedVars => SpareInv'
  BY SpareStep
<1>3. SpareInv => SweepSparesRetries
  BY DEF SpareInv, SpareOK, SparePart, Stranded, SweepSparesRetries
<1> QED BY <1>1, <1>2, <1>3, PTL DEF TimedSpec

-----------------------------------------------------------------------------
(* The clocks stay within their periods.                                   *)

\* The periods and ages are numbers.
LEMMA ClockConstants ==
  /\ Interval \in Nat /\ TTL \in Nat /\ MaxMissed \in Nat
  /\ SweepEvery \in Nat /\ SweepEvery > 0
  /\ \A st : StaleAge(st) \in Nat
  /\ StaleAge("PROCESSING") > 0 /\ StaleAge("RETRYING") > 0
<1>1. /\ Interval \in Nat \ {0} /\ TTL \in Nat \ {0} /\ SweepEvery \in Nat \ {0}
      /\ StaleProcessing \in Nat \ {0} /\ StaleRetrying \in Nat \ {0}
      /\ MaxMissed \in Nat
  BY TimingAssumption DEF TimingAssumption
<1> QED BY <1>1, SMT DEF StaleAge

\* The timer of a retry is a number of ticks, whatever the attempt.
LEMMA DelayTicksType ==
  ASSUME NEW j, j.attempt \in Nat
  PROVE  DelayTicks(j) \subseteq Nat
<1>1. TickMs \in Nat \ {0} /\ BaseDelay \in Nat
  BY TimingAssumption DEF TimingAssumption
<1>2. ASSUME NEW d \in CalculateBackoff(j.attempt, BaseDelay) PROVE d \in Nat
  <2>1. CASE j.attempt > 0
    <3>1. d \in 0..MaxDelay
      BY <1>1, <1>2, <2>1, DelayCapped
    <3>2. MaxDelay \in Nat
      BY DEF MaxDelay
    <3> QED BY <3>1, <3>2
  <2>2. CASE ~(j.attempt > 0)
    <3>1. j.attempt <= 0
      BY <2>2, SMT
    <3> QED BY <1>1, <1>2, <3>1 DEF CalculateBackoff
  <2> QED BY <2>1, <2>2
<1>3. \A d \in CalculateBackoff(j.attempt, BaseDelay) : d \div TickMs \in Nat
  BY <1>1, <1>2, SMT
<1> QED BY <1>3, SMT DEF DelayTicks

\* The clocks of the heartbeats, and those of rows, alarms and sweeps.
HeartClocksOK ==
  /\ ttl \in [Workers -> 0..TTL]
  /\ nextPing \in [Workers -> 0..Interval]
  /\ missed \in [Workers -> 0..MaxMissed]

OtherClocksOK ==
  /\ \A e \in EventIds : age[e] \in 0..StaleAge(status[e])
  /\ DOMAIN alarm = {t \in retries : Waits(t)}
  /\ \A t \in DOMAIN alarm : alarm[t] \in Nat
  /\ countdown \in [Schedulers -> 1..SweepEvery]
  /\ overdue \in [EventIds -> 0..(SweepEvery + 1)]

LEMMA ClockParts == ClockTypeOK <=> HeartClocksOK /\ OtherClocksOK /\ DueOK
BY DEF ClockTypeOK, HeartClocksOK, OtherClocksOK, DueOK

\* A clock that runs up to max.
LEMMA OlderType ==
  ASSUME NEW max \in Nat, NEW n \in 0..max
  PROVE  Older(n, max) \in 0..max /\ n <= Older(n, max) /\ Older(n, max) <= n + 1
BY SMT DEF Older

\* Time moves every clock by one tick at most, and none past its bound.
LEMMA TickClocks == ASSUME ClockTypeOK, Tick PROVE ClockTypeOK'
<1> USE DEF HeartClocksOK, OtherClocksOK
<1>1. UNCHANGED <<status, retries, missed>>
  BY DEF Tick, vars, storeVars, workerVars
<1>2. DueOK'
  BY DEF Tick, DueOK
<1>3. HeartClocksOK'
  <2>1. \A w \in Workers : Sooner(ttl[w]) \in 0..TTL /\ Sooner(nextPing[w]) \in 0..Interval
    BY ClockParts, ClockConstants, SMT DEF Sooner
  <2> QED BY <1>1, <2>1, ClockParts DEF Tick
<1>4. \A e \in EventIds : age'[e] \in 0..StaleAge(status'[e])
  <2>1. \A e \in EventIds : Older(age[e], StaleAge(status[e])) \in 0..StaleAge(status[e])
    BY ClockParts, ClockConstants, OlderType
  <2> QED BY <1>1, <2>1 DEF Tick
<1>5. /\ DOMAIN alarm' = {t \in retries' : Waits(t)}
      /\ \A t \in DOMAIN alarm' : alarm'[t] \in Nat
  <2>1. \A t \in DOMAIN alarm : Sooner(alarm[t]) \in Nat
    BY ClockParts, SMT DEF Sooner
  <2> QED BY <1>1, <2>1, ClockParts DEF Tick
<1>6. countdown' \in [Schedulers -> 1..SweepEvery]
  <2>1. \A s \in Schedulers :
          (IF countdown[s] = 1 THEN SweepEvery ELSE countdown[s] - 1) \in 1..SweepEvery
    BY ClockParts, ClockConstants, SMT
  <2> QED BY <2>1 DEF Tick
<1>7. overdue' \in [EventIds -> 0..(SweepEvery + 1)]
  <2>1. \A e \in EventIds : Older(overdue[e], SweepEvery + 1) \in 0..(SweepEvery + 1)
    <3>1. SweepEvery + 1 \in Nat
      BY ClockConstants, SMT
    <3> QED BY <3>1, ClockParts, OlderType
  <2>2. 0 \in 0..(SweepEvery + 1)
    BY ClockConstants, SMT
  <2> QED BY <2>1, <2>2 DEF Tick
<1>8. OtherClocksOK'
  BY <1>4, <1>5, <1>6, <1>7
<1>9. (ClockTypeOK <=> HeartClocksOK /\ OtherClocksOK /\ DueOK)'
  BY ClockParts, PTL
<1> QED BY <1>2, <1>3, <1>8, <1>9

\* A step that takes no time starts the age of the rows it updates and the
\* alarms of the goroutines it starts.
LEMMA InstantClocks ==
  ASSUME ClockTypeOK, TypeOK', Instantly PROVE OtherClocksOK'
<1> USE DEF OtherClocksOK
<1>1. \A e \in EventIds : age'[e] \in 0..StaleAge(status'[e])
  <2>1. \A e \in EventIds : 0 \in 0..StaleAge(status'[e])
    BY ClockConstants, SMT
  <2> QED BY <2>1, ClockParts DEF Instantly, StampRows
<1>2. /\ DOMAIN alarm' = {t \in retries' : Waits(t)}
      /\ \A t \in DOMAIN alarm' : alarm'[t] \in Nat
  <2> DEFINE new == {t \in retries' : Waits(t)}
  <2>1. PICK d \in UNION {DelayTicks(t.job) : t \in new \ DOMAIN alarm} \cup {0} :
          /\ \A t \in new \ DOMAIN alarm : d \in DelayTicks(t.job)
          /\ alarm' = [t \in new |-> IF t \in DOMAIN alarm THEN alarm[t] ELSE d]
    BY DEF Instantly, SetAlarms
  <2>2. \A t \in new : t.job.attempt \in Nat
    BY DEF TypeOK, ActorTypeOK, Retries, Jobs
  <2>3. \A t \in new \ DOMAIN alarm : d \in Nat
    BY <2>1, <2>2, DelayTicksType
  <2> QED BY <2>1, <2>3, ClockParts
<1>3. countdown' \in [Schedulers -> 1..SweepEvery]
  BY ClockParts DEF Instantly
<1>4. overdue' \in [EventIds -> 0..(SweepEvery + 1)]
  <2>1. 0 \in 0..(SweepEvery + 1)
    BY ClockConstants, SMT
  <2> QED BY <2>1, ClockParts DEF Instantly
<1> QED BY <1>1, <1>2, <1>3, <1>4

\* A ping sets the clocks of its worker to their starts.
LEMMA PingClocks == ASSUME ClockTypeOK, InstantStep PROVE HeartClocksOK'
<1> USE DEF HeartClocksOK
<1>0. HeartClocksOK
  BY ClockParts
<1>1. 0 \in 0..Interval /\ Interval \in 0..Interval /\ 0 \in 0..MaxMissed /\ TTL \in 0..TTL
  BY ClockConstants, SMT
<1>2. ASSUME NEW w \in Workers, TimedStart(w) \/ TimedCrash(w) \/ Beat(w) \/ KeyExpires(w)
      PROVE  HeartClocksOK'
  BY <1>0, <1>1, <1>2 DEF TimedStart, TimedCrash, Beat, KeyExpires, SetTimer
<1>3. ASSUME NEW w \in Workers, MissBeat(w) PROVE HeartClocksOK'
  <2>1. missed[w] + 1 \in 0..MaxMissed
    BY <1>0, <1>3, ClockConstants, SMT DEF MissBeat
  <2> QED BY <1>0, <1>1, <1>3, <2>1 DEF MissBeat, SetTimer
<1>4. ASSUME UNCHANGED <<ttl, nextPing, missed>> PROVE HeartClocksOK'
  BY <1>0, <1>4
<1> QED BY <1>2, <1>3, <1>4 DEF InstantStep, RunSweep, OtherwiseStep

ClockInv == TypeOK /\ ClockTypeOK

LEMMA StepClocks == ClockInv /\ [TimedNext]_timedVars => ClockInv'
<1> SUFFICES ASSUME ClockInv, [TimedNext]_timedVars PROVE ClockInv'
  OBVIOUS
<1>1. TypeOK /\ ClockTypeOK /\ DueOK
  BY ClockParts DEF ClockInv
<1>2. TypeOK' /\ DueOK'
  BY <1>1, TimedStepRefines, StepType, DueKept
<1>3. CASE UNCHANGED timedVars
  BY <1>1, <1>2, <1>3
     DEF ClockInv, ClockTypeOK, timedVars, clockVars, vars, storeVars, workerVars, StaleAge
<1>4. CASE Tick
  BY <1>1, <1>2, <1>4, TickClocks DEF ClockInv
<1>5. CASE InstantStep /\ Instantly
  <2>1. HeartClocksOK' /\ OtherClocksOK'
    BY <1>1, <1>2, <1>5, PingClocks, InstantClocks
  <2>2. (ClockTypeOK <=> HeartClocksOK /\ OtherClocksOK /\ DueOK)'
    BY ClockParts, PTL
  <2> QED BY <1>2, <2>1, <2>2 DEF ClockInv
<1> QED BY <1>3, <1>4, <1>5 DEF TimedNext

LEMMA InitClocks == TimedInit => ClockInv
<1> SUFFICES ASSUME TimedInit PROVE ClockInv
  OBVIOUS
<1>1. Init /\ TypeOK
  BY InitType DEF TimedInit
<1>2. /\ 0 \in 0..Interval /\ 0 \in 0..TTL /\ 0 \in 0..MaxMissed
      /\ SweepEvery \in 1..SweepEvery /\ 0 \in 0..(SweepEvery + 1)
      /\ \A st : 0 \in 0..StaleAge(st)
  BY ClockConstants, SMT
<1>3. HeartClocksOK /\ DueOK
  BY <1>2 DEF TimedInit, HeartClocksOK, DueOK
<1>4. OtherClocksOK
  BY <1>1, <1>2 DEF TimedInit, Init, OtherClocksOK
<1> QED BY <1>1, <1>3, <1>4, ClockParts DEF ClockInv

\* Every clock stays within its period, and exactly the goroutines that wait
\* have an alarm, whatever the periods and the base delay are.
THEOREM ClocksTyped == TimedSpec => []ClockTypeOK
<1>1. ClockInv => ClockTypeOK
  BY DEF ClockInv
<1> QED BY <1>1, InitClocks, StepClocks, PTL DEF TimedSpec

-----------------------------------------------------------------------------
(* Recovery in time.  A row that only the scheduler can move is requeued   *)
(* by the sweep that comes next, however many schedulers sweep at once.    *)

\* The sweep of s has the row of e, as it still is, before it, and has not
\* taken its worker for alive.
InSweep(s, e) ==
  /\ sweep[s] = status[e]
  /\ \E x \in pending[s] : x.event = e /\ x.worker = workerId[e]
  /\ status[e] = "PROCESSING" => deadWorkers[s][workerId[e]] # "alive"

\* The sweep under way has the row, or is yet to look for it.
Comes(s, e) ==
  \/ due[s] = "PROCESSING"
  \/ due[s] = "RETRYING" /\ status[e] = "RETRYING"
  \/ InSweep(s, e)

\* The row has waited no longer than the period has lasted, or the sweep that
\* ends its wait is under way.
InTime(s, e) ==
  \/ overdue[e] + countdown[s] <= SweepEvery
  \/ overdue[e] <= SweepEvery /\ Comes(s, e)

\* What a sweep learns of the workers is forgotten with its last row.
Forgets == \A s \in Schedulers : sweep[s] = "IDLE" => deadWorkers[s] = Unchecked

RecoveryInv ==
  /\ ClockInv
  /\ Forgets
  /\ \A e \in EventIds : ~Recoverable(e) => overdue[e] = 0
  /\ \A s \in Schedulers, e \in EventIds : InTime(s, e)

\* What the step of another actor, or of another scheduler, leaves of a sweep.
Spares(s) == UNCHANGED <<sweep[s], pending[s], deadWorkers[s], due[s]>>

\* A row has its owner for as long as it has its status.
LEMMA OwnerStays ==
  ASSUME TypeOK, [Next]_vars, NEW e \in EventIds, status'[e] = status[e]
  PROVE  workerId'[e] = workerId[e]
<1> USE DEF TypeOK
<1>1. CASE UNCHANGED workerId
  BY <1>1
<1>2. ASSUME NEW r \in EventIds, RequestStep(r) PROVE UNCHANGED workerId
  BY <1>2 DEF RequestStep, RejectRequest, CreateEvent, PublishEvent, MarkQueued, AbortRequest,
              Create, UpdateStatus, storeVars
<1>3. ASSUME NEW w \in Workers, AssignJob(w) PROVE workerId'[e] = workerId[e]
  <2>1. PICK d \in EventIds : d = job[w].event
    BY <1>3, HasJob DEF AssignJob
  <2>2. PICK res \in Results : AssignEvent(d, w, "QUEUED", "PROCESSING", ContextOf(w), res)
    BY <1>3, <2>1 DEF AssignJob
  <2> QED BY <2>1, <2>2, TakeUpEffect DEF StoreTypeOK
<1>4. ASSUME NEW w \in Workers, WorkerStep(w), ~AssignJob(w) PROVE UNCHANGED workerId
  BY <1>4 DEF WorkerStep, LoopStep, Start, Stop, Crash, Ping, Expire, ExitLoop, Stopped,
              Consume, LoseDelivery, DiscardJob, Process, FinalizeJob, AckJob, HandleFailure,
              FinalizeEvent, RecordFailure, storeVars
<1>5. ASSUME NEW t \in retries, RetryStep(t) PROVE UNCHANGED workerId
  BY <1>5 DEF RetryStep, RetryPublish, RetryAck, RetryUpdate, RetryAbort, UpdateStatus,
              storeVars
<1>6. ASSUME NEW s \in Schedulers, ResetOwner(s) PROVE workerId'[e] = workerId[e]
  <2>1. PICK d \in EventIds : d = recovering[s].event
    BY <1>6, ResetEffect
  <2> QED BY <1>6, <2>1, ResetEffect DEF StoreTypeOK
<1>7. ASSUME NEW s \in Schedulers, SchedulerStep(s), ~ResetOwner(s) PROVE UNCHANGED workerId
  BY <1>7 DEF SchedulerStep, RecoverStep, BeginSweep, PassOver, CheckHeartbeat, Republish,
              CrashScheduler, storeVars
<1>8. CASE UNCHANGED vars
  BY <1>8 DEF vars, storeVars
<1> QED BY <1>1, <1>2, <1>3, <1>4, <1>5, <1>6, <1>7, <1>8 DEF Next

\* An event whose status has just changed is not recoverable yet.
LEMMA RecoverableStays ==
  ASSUME StampRows, NEW e \in EventIds, Recoverable(e)'
  PROVE  status'[e] = status[e]
<1>1. CASE status'[e] # status[e]
  <2>1. age'[e] = 0
    BY <1>1 DEF StampRows
  <2>2. StaleAge(status'[e]) > 0 /\ age'[e] >= StaleAge(status'[e])
    BY ClockConstants DEF Recoverable
  <2>3. StaleAge(status'[e]) \in Nat
    BY ClockConstants
  <2> QED BY <2>1, <2>2, <2>3
<1> QED BY <1>1

\* A sweep that others leave alone still comes.
LEMMA ComesElsewhere ==
  ASSUME NEW s \in Schedulers, NEW e \in EventIds, Comes(s, e), Spares(s),
         status'[e] = status[e], workerId'[e] = workerId[e]
  PROVE  Comes(s, e)'
BY DEF Comes, InSweep, Spares

\* The step of one scheduler leaves the sweeps of the others alone, and a sweep
\* that ends forgets what it learned.
LEMMA SchedulersApart ==
  ASSUME TypeOK, Forgets, NEW r \in Schedulers,
         RunSweep(r) \/ (RecoverStep(r) /\ UNCHANGED due)
  PROVE  Forgets' /\ \A s \in Schedulers \ {r} : Spares(s)
<1> USE DEF TypeOK, SweepTypeOK
<1>1. ASSUME \A s \in Schedulers \ {r} : Spares(s),
             sweep'[r] = "IDLE" =>
               deadWorkers'[r] = Unchecked
               \/ (sweep[r] = "IDLE" /\ deadWorkers'[r] = deadWorkers[r])
      PROVE  Forgets'
  BY <1>1 DEF Forgets, Spares, Unchecked
<1>2. ASSUME RunSweep(r)
      PROVE  /\ \A s \in Schedulers \ {r} : Spares(s)
             /\ sweep[r] = "IDLE" /\ deadWorkers'[r] = deadWorkers[r]
  <2>1. \A s \in Schedulers \ {r} : due'[s] = due[s]
    BY <1>2 DEF RunSweep
  <2>2. CASE UNCHANGED vars
    BY <1>2, <2>1, <2>2 DEF RunSweep, vars, schedulerVars, Spares
  <2>3. CASE BeginSweep(r, due[r], StaleRows(due[r]))
    BY <1>2, <2>1, <2>3 DEF RunSweep, BeginSweep, Spares
  <2> QED BY <1>2, <2>2, <2>3 DEF RunSweep
<1>3. ASSUME RecoverStep(r), UNCHANGED due
      PROVE  /\ \A s \in Schedulers \ {r} : Spares(s)
             /\ sweep'[r] = "IDLE" =>
                  deadWorkers'[r] = Unchecked
                  \/ (sweep[r] = "IDLE" /\ deadWorkers'[r] = deadWorkers[r])
  <2>1. ASSUME NEW x, DoneWith(r, x)
        PROVE  /\ \A s \in Schedulers \ {r} :
                    UNCHANGED <<sweep[s], pending[s], deadWorkers[s]>>
               /\ sweep'[r] = "IDLE" =>
                    deadWorkers'[r] = Unchecked
                    \/ (sweep[r] = "IDLE" /\ deadWorkers'[r] = deadWorkers[r])
    BY <2>1 DEF DoneWith
  <2>2. CASE \E x \in pending[r] : CheckHeartbeat(r, x)
    BY <1>3, <2>2 DEF CheckHeartbeat, Spares
  <2>3. CASE UNCHANGED <<sweep, pending, deadWorkers>>
    BY <1>3, <2>3 DEF Spares
  <2> QED BY <1>3, <2>1, <2>2, <2>3 DEF RecoverStep, PassOver, Republish, ResetOwner, Spares
<1> QED BY <1>1, <1>2, <1>3

\* runSweep finds the row: it is old enough.
LEMMA SweepFinds ==
  ASSUME TypeOK, DueOK, Forgets, NEW s \in Schedulers, RunSweep(s),
         NEW e \in EventIds, Recoverable(e), Comes(s, e)
  PROVE  Comes(s, e)'
<1> USE DEF TypeOK, SweepTypeOK, DueOK
<1>1. due[s] # "none" /\ sweep[s] = "IDLE" /\ due'[s] = AfterStatus(due[s])
  BY DEF RunSweep
<1>2. status[e] \in {"PROCESSING", "RETRYING"} /\ age[e] >= StaleAge(status[e])
  BY DEF Recoverable
<1>3. status' = status /\ workerId' = workerId
  BY DEF RunSweep, BeginSweep, vars, storeVars
<1>4. CASE due[s] = "PROCESSING" /\ status[e] = "RETRYING"
  BY <1>1, <1>3, <1>4 DEF AfterStatus, Comes
<1>5. CASE due[s] = status[e]
  <2> DEFINE x == [event |-> e, attempt |-> attempt[e], worker |-> workerId[e]]
  <2>1. x \in StaleRows(due[s]) /\ x.event = e /\ x.worker = workerId[e]
    BY <1>2, <1>5 DEF StaleRows, RowsIn
  <2> HIDE DEF x
  <2>2. BeginSweep(s, due[s], StaleRows(due[s]))
    BY <2>1 DEF RunSweep
  <2>3. /\ sweep'[s] = status[e] /\ x \in pending'[s]
        /\ deadWorkers'[s] = Unchecked
    BY <1>1, <1>5, <2>1, <2>2 DEF BeginSweep, Forgets
  <2>4. status[e] = "PROCESSING" => workerId[e] \in Workers
    BY DEF Recoverable, StoreTypeOK
  <2>5. InSweep(s, e)'
    BY <1>3, <2>1, <2>3, <2>4 DEF InSweep, Unchecked
  <2> QED BY <2>5 DEF Comes
<1>6. ~InSweep(s, e)
  BY <1>1, <1>2 DEF InSweep
<1> QED BY <1>1, <1>2, <1>4, <1>5, <1>6 DEF Comes

\* The sweep goes on and does not lose the row: its worker is dead, every call
\* is answered, and what would end the wait has not happened yet.
LEMMA SweepHolds ==
  ASSUME MayFault = FALSE, TypeOK, NEW s \in Schedulers, RecoverStep(s), UNCHANGED due,
         NEW e \in EventIds, Recoverable(e), Comes(s, e),
         status'[e] = status[e], workerId'[e] = workerId[e]
  PROVE  Comes(s, e)'
<1> USE DEF TypeOK, SweepTypeOK
<1>1. CASE ~InSweep(s, e)
  BY <1>1 DEF Comes
<1>2. ASSUME InSweep(s, e) PROVE InSweep(s, e)'
  <2>1. PICK x \in pending[s] : x.event = e /\ x.worker = workerId[e]
    BY <1>2 DEF InSweep
  <2>2. /\ sweep[s] = status[e]
        /\ status[e] = "PROCESSING" => /\ deadWorkers[s][x.worker] # "alive"
                                       /\ x.worker \in Workers /\ x.worker \notin heartbeat
    BY <1>2, <2>1 DEF InSweep, Recoverable, StoreTypeOK
  <2>3. ASSUME sweep'[s] = sweep[s], x \in pending'[s],
               sweep[s] = "PROCESSING" => deadWorkers'[s][x.worker] # "alive"
        PROVE  InSweep(s, e)'
    BY <2>1, <2>2, <2>3 DEF InSweep
  <2>4. ASSUME NEW y \in pending[s], DoneWith(s, y), y # x PROVE InSweep(s, e)'
    <3>1. /\ pending'[s] = pending[s] \ {y} /\ x \in pending[s] \ {y}
          /\ sweep'[s] = sweep[s] /\ deadWorkers'[s] = deadWorkers[s]
      BY <2>4 DEF DoneWith
    <3> QED BY <2>2, <2>3, <3>1
  <2>5. ASSUME NEW y \in pending[s], PassOver(s, y) PROVE InSweep(s, e)'
    <3>1. y # x
      BY <2>2, <2>5, StoreAssumption DEF PassOver, StoreAssumption
    <3> QED BY <2>4, <2>5, <3>1 DEF PassOver
  <2>6. ASSUME NEW y \in pending[s], CheckHeartbeat(s, y) PROVE InSweep(s, e)'
    <3>1. /\ sweep'[s] = sweep[s] /\ pending'[s] = pending[s] /\ sweep[s] = "PROCESSING"
          /\ deadWorkers' = [deadWorkers EXCEPT ![s][y.worker] =
                               IF y.worker \in heartbeat THEN "alive" ELSE "dead"]
      BY <2>6 DEF CheckHeartbeat
    <3>2. deadWorkers'[s][x.worker] # "alive"
      BY <2>2, <3>1
    <3> QED BY <2>3, <3>1, <3>2
  <2>7. ASSUME NEW y \in pending[s], Republish(s, y) PROVE InSweep(s, e)'
    <3>1. PICK res \in Results :
            /\ Publish(y.event, y.attempt, res)
            /\ res = "ok" => UNCHANGED <<sweep, pending, deadWorkers>>
      BY <2>7 DEF Republish
    <3>2. res = "ok"
      BY <3>1, SureOutcome DEF Publish, Verdicts
    <3> QED BY <2>2, <2>3, <3>1, <3>2
  <2>8. ASSUME ResetOwner(s) PROVE InSweep(s, e)'
    <3>1. PICK y \in pending[s] : y = recovering[s] /\ DoneWith(s, y) /\ y.event \in EventIds
      BY <2>8, ResetEffect DEF ResetOwner
    <3>2. PICK o \in Outcomes(CasVerdict(y.event, sweep[s], "QUEUED"), "live") :
            status' = IF o.applied THEN [status EXCEPT ![y.event] = "QUEUED"] ELSE status
      BY <2>8, <3>1 DEF ResetOwner, AssignEvent
    <3>3. o.applied <=> CasVerdict(y.event, sweep[s], "QUEUED") = "ok"
      BY <3>1, <3>2, SureOutcome, VerdictTypes
    <3>4. sweep[s] \in {"PROCESSING", "RETRYING"}
      BY <2>8, ResetEffect
    <3>5. IsValidTransition(sweep[s], "QUEUED")
      BY <3>4 DEF IsValidTransition, validTransitions
    <3>6. y.event # e
      <4>1. ASSUME y.event = e PROVE FALSE
        <5>1. CasVerdict(e, sweep[s], "QUEUED") = "ok"
          BY <2>2, <3>4, <3>5 DEF CasVerdict, Absent
        <5>2. status'[e] = "QUEUED"
          BY <3>2, <3>3, <4>1, <5>1 DEF StoreTypeOK
        <5> QED BY <2>2, <3>4, <5>2
      <4> QED BY <4>1
    <3> QED BY <2>1, <2>4, <3>1, <3>6
  <2> QED BY <2>5, <2>6, <2>7, <2>8 DEF RecoverStep
<1> QED BY <1>1, <1>2 DEF Comes

\* A step that takes no time is one of a scheduler, or leaves the sweeps alone.
LEMMA InstantKinds ==
  ASSUME InstantStep
  PROVE  \/ \E r \in Schedulers : RunSweep(r) \/ (RecoverStep(r) /\ UNCHANGED due)
         \/ UNCHANGED <<schedulerVars, due>>
<1>1. ASSUME NEW w \in Workers,
             TimedStart(w) \/ TimedCrash(w) \/ Beat(w) \/ MissBeat(w) \/ KeyExpires(w)
      PROVE  UNCHANGED <<schedulerVars, due>>
  BY <1>1 DEF TimedStart, TimedCrash, Beat, MissBeat, KeyExpires, Start, Crash, Ping, Expire,
              vars
<1>2. ASSUME OtherwiseStep, ~\E r \in Schedulers : RecoverStep(r)
      PROVE  UNCHANGED <<schedulerVars, due>>
  <2>1. ASSUME NEW e \in EventIds, RequestStep(e) PROVE UNCHANGED schedulerVars
    BY <2>1 DEF RequestStep, RejectRequest, CreateEvent, PublishEvent, MarkQueued, AbortRequest
  <2>2. ASSUME NEW w \in Workers, LoopStep(w) \/ Stop(w) PROVE UNCHANGED schedulerVars
    BY <2>2 DEF LoopStep, Stop, ExitLoop, Stopped, Consume, LoseDelivery, AssignJob,
                DiscardJob, Process, FinalizeJob, AckJob, HandleFailure
  <2>3. ASSUME NEW t \in retries, TimedRetry(t) PROVE UNCHANGED schedulerVars
    BY <2>3 DEF TimedRetry, RetryPublish, RetryAck, RetryUpdate, RetryAbort
  <2> QED BY <1>2, <2>1, <2>2, <2>3 DEF OtherwiseStep
<1> QED BY <1>1, <1>2 DEF InstantStep, OtherwiseStep

\* A sweep that is to come for a row that may be recovered before and after the
\* step is still to come after it.
LEMMA ComesStays ==
  ASSUME MayFault = FALSE, ClockInv, Forgets, InstantStep, [Next]_vars,
         NEW s \in Schedulers, NEW e \in EventIds, Recoverable(e), Comes(s, e),
         status'[e] = status[e]
  PROVE  Comes(s, e)'
<1>1. TypeOK /\ DueOK
  BY ClockParts DEF ClockInv
<1>2. workerId'[e] = workerId[e]
  BY <1>1, OwnerStays
<1>3. ASSUME NEW r \in Schedulers, RunSweep(r) \/ (RecoverStep(r) /\ UNCHANGED due)
      PROVE  Comes(s, e)'
  <2>1. CASE r # s
    BY <1>1, <1>2, <1>3, <2>1, SchedulersApart, ComesElsewhere
  <2>2. CASE r = s
    BY <1>1, <1>2, <1>3, <2>2, SweepFinds, SweepHolds
  <2> QED BY <2>1, <2>2
<1>4. ASSUME UNCHANGED <<schedulerVars, due>> PROVE Comes(s, e)'
  BY <1>2, <1>4, ComesElsewhere DEF schedulerVars, Spares
<1> QED BY <1>3, <1>4, InstantKinds

\* A clock that is at its bound stays there; one that runs or is reset is at most
\* one tick later.
LEMMA OlderStays ==
  ASSUME NEW max \in Nat, NEW n \in 0..max, NEW m, m = Older(n, max)
  PROVE  n >= max => m >= max
BY SMT DEF Older

LEMMA OlderOrReset ==
  ASSUME NEW max \in Nat, NEW n \in 0..max, NEW m, m = Older(n, max) \/ m = 0
  PROVE  m \in Nat /\ m <= n + 1
BY SMT DEF Older

\* The numbers of InTime.
LEMMA WaitType ==
  ASSUME ClockTypeOK, NEW s \in Schedulers, NEW e \in EventIds
  PROVE  /\ overdue[e] \in Nat /\ countdown[s] \in Nat /\ SweepEvery \in Nat
         /\ countdown[s] >= 1 /\ countdown[s] <= SweepEvery
BY ClockParts, ClockConstants DEF OtherClocksOK

\* Time passes only between sweeps, and the period that ends starts one.
LEMMA RecoveryTick ==
  ASSUME RecoveryInv, Tick, ClockInv'
  PROVE  RecoveryInv'
<1> USE DEF RecoveryInv
<1>1. UNCHANGED <<status, workerId, pc, heartbeat, sweep, deadWorkers>>
  BY DEF Tick, vars, storeVars, workerVars, schedulerVars
<1>2. Forgets'
  BY <1>1 DEF Forgets, Unchecked
<1>3. ASSUME NEW e \in EventIds PROVE ~Recoverable(e)' => overdue'[e] = 0
  <2>1. Recoverable(e) => Recoverable(e)'
    <3>1. age[e] \in 0..StaleAge(status[e]) /\ StaleAge(status[e]) \in Nat
      BY ClockParts, ClockConstants DEF ClockInv, OtherClocksOK
    <3>2. age'[e] = Older(age[e], StaleAge(status[e]))
      BY DEF Tick
    <3>3. age[e] >= StaleAge(status[e]) => age'[e] >= StaleAge(status[e])
      BY <3>1, <3>2, OlderStays
    <3> QED BY <1>1, <3>3 DEF Recoverable
  <2> QED BY <2>1 DEF Tick
<1>4. ASSUME NEW s \in Schedulers, NEW e \in EventIds PROVE InTime(s, e)'
  <2>1. ~Comes(s, e)
    <3>1. sweep[s] = "IDLE" /\ due[s] = "none"
      BY DEF Tick, Busy
    <3>2. status[e] # "IDLE"
      BY DEF ClockInv, TypeOK, StoreTypeOK, Statuses, Absent
    <3> QED BY <3>1, <3>2 DEF Comes, InSweep
  <2>2. overdue[e] + countdown[s] <= SweepEvery
    BY <2>1 DEF InTime
  <2>3. overdue'[e] \in Nat /\ overdue'[e] <= overdue[e] + 1
    <3>1. overdue[e] \in 0..(SweepEvery + 1) /\ SweepEvery + 1 \in Nat
      BY ClockParts, ClockConstants DEF ClockInv, OtherClocksOK
    <3>2. overdue'[e] = IF Recoverable(e) THEN Older(overdue[e], SweepEvery + 1) ELSE 0
      BY DEF Tick
    <3>3. overdue'[e] = Older(overdue[e], SweepEvery + 1) \/ overdue'[e] = 0
      BY <3>2
    <3> QED BY <3>1, <3>3, OlderOrReset
  <2>4. /\ countdown'[s] = IF countdown[s] = 1 THEN SweepEvery ELSE countdown[s] - 1
        /\ due'[s] = IF countdown[s] = 1 THEN "PROCESSING" ELSE "none"
    BY DEF Tick
  <2>5. /\ overdue[e] \in Nat /\ countdown[s] \in Nat /\ SweepEvery \in Nat
        /\ countdown[s] >= 1
    BY WaitType DEF ClockInv
  <2>6. CASE countdown[s] = 1
    <3>1. overdue'[e] <= SweepEvery
      BY <2>2, <2>3, <2>5, <2>6
    <3> QED BY <2>4, <2>6, <3>1 DEF InTime, Comes
  <2>7. CASE countdown[s] # 1
    <3>1. overdue'[e] + countdown'[s] <= SweepEvery
      BY <2>2, <2>3, <2>4, <2>5, <2>7
    <3> QED BY <3>1 DEF InTime
  <2> QED BY <2>6, <2>7
<1> QED BY <1>2, <1>3, <1>4

\* A step that takes no time: the wait ends, or the sweep still comes.
LEMMA RecoveryInstant ==
  ASSUME MayFault = FALSE, RecoveryInv, InstantStep, Instantly, [Next]_vars, ClockInv'
  PROVE  RecoveryInv'
<1> USE DEF RecoveryInv
<1>1. Forgets'
  <2>1. ASSUME UNCHANGED <<schedulerVars, due>> PROVE Forgets'
    BY <2>1 DEF schedulerVars, Forgets, Unchecked
  <2> QED BY <2>1, InstantKinds, SchedulersApart DEF ClockInv
<1>2. \A e \in EventIds : overdue'[e] = IF Recoverable(e)' THEN overdue[e] ELSE 0
  BY DEF Instantly
<1>3. ASSUME NEW s \in Schedulers, NEW e \in EventIds PROVE InTime(s, e)'
  <2>1. /\ overdue[e] \in Nat /\ countdown[s] \in Nat /\ SweepEvery \in Nat
        /\ countdown[s] <= SweepEvery /\ countdown'[s] = countdown[s]
    BY WaitType DEF ClockInv, Instantly
  <2>2. CASE ~Recoverable(e)' \/ overdue[e] = 0
    <3>1. overdue'[e] = 0
      BY <1>2, <2>2
    <3> QED BY <2>1, <3>1 DEF InTime
  <2>3. CASE overdue[e] + countdown[s] <= SweepEvery
    <3>1. overdue'[e] + countdown'[s] <= SweepEvery
      BY <1>2, <2>1, <2>3
    <3> QED BY <3>1 DEF InTime
  <2>4. ASSUME Recoverable(e)', overdue[e] # 0, Comes(s, e), overdue[e] <= SweepEvery
        PROVE  InTime(s, e)'
    <3>1. status'[e] = status[e]
      BY <2>4, RecoverableStays DEF Instantly
    <3>2. Comes(s, e)'
      BY <2>4, <3>1, ComesStays
    <3>3. overdue'[e] = overdue[e]
      BY <1>2, <2>4
    <3> QED BY <2>4, <3>2, <3>3 DEF InTime
  <2> QED BY <2>2, <2>3, <2>4 DEF InTime
<1> QED BY <1>1, <1>2, <1>3

LEMMA StepRecovery ==
  ASSUME MayFault = FALSE
  PROVE  RecoveryInv /\ [TimedNext]_timedVars => RecoveryInv'
<1> SUFFICES ASSUME RecoveryInv, [TimedNext]_timedVars PROVE RecoveryInv'
  OBVIOUS
<1>1. ClockInv'
  BY StepClocks DEF RecoveryInv
<1>2. [Next]_vars
  BY ClockParts, TimedStepRefines DEF RecoveryInv, ClockInv
<1>3. CASE UNCHANGED timedVars
  BY <1>1, <1>3
     DEF timedVars, clockVars, vars, storeVars, workerVars, schedulerVars, RecoveryInv,
         Forgets, Unchecked, Recoverable, StaleAge, InTime, Comes, InSweep
<1> QED BY <1>1, <1>2, <1>3, RecoveryTick, RecoveryInstant DEF TimedNext

\* Where every call is answered and at least one scheduler runs, an event that
\* only the scheduler can move, because its worker died and its key is gone or
\* because its retry was lost, waits for no longer than one of the scheduler's
\* periods, whatever else is swept and whatever the periods are.
THEOREM RecoveryInTime ==
  ASSUME MayFault = FALSE, Schedulers # {}
  PROVE  TimedSpec => []RecoveredInTime
<1>1. TimedInit => RecoveryInv
  <2> SUFFICES ASSUME TimedInit PROVE RecoveryInv
    OBVIOUS
  <2>1. ClockInv
    BY InitClocks
  <2>2. Forgets /\ \A e \in EventIds : overdue[e] = 0
    BY DEF TimedInit, Init, Forgets
  <2>3. ASSUME NEW s \in Schedulers, NEW e \in EventIds PROVE InTime(s, e)
    <3>1. /\ countdown[s] \in Nat /\ SweepEvery \in Nat /\ countdown[s] <= SweepEvery
      BY <2>1, WaitType DEF ClockInv
    <3>2. overdue[e] + countdown[s] <= SweepEvery
      BY <2>2, <3>1
    <3> QED BY <3>2 DEF InTime
  <2> QED BY <2>1, <2>2, <2>3 DEF RecoveryInv
<1>2. RecoveryInv /\ [TimedNext]_timedVars => RecoveryInv'
  BY StepRecovery
<1>3. RecoveryInv => RecoveredInTime
  <2> SUFFICES ASSUME RecoveryInv, NEW e \in EventIds PROVE overdue[e] <= SweepEvery
    BY DEF RecoveredInTime
  <2>1. PICK s \in Schedulers : TRUE
    OBVIOUS
  <2>2. InTime(s, e)
    BY DEF RecoveryInv
  <2>3. /\ overdue[e] \in Nat /\ countdown[s] \in Nat /\ SweepEvery \in Nat
    BY WaitType DEF RecoveryInv, ClockInv
  <2> QED BY <2>2, <2>3 DEF InTime
<1> QED BY <1>1, <1>2, <1>3, PTL DEF TimedSpec
=============================================================================
