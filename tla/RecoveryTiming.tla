--------------------------- MODULE RecoveryTiming ---------------------------
(***************************************************************************)
(* The pipeline with its clocks: heartbeats and the TTL of their keys, the *)
(* scheduler's ticker, the age a row must have to be swept, and the delay  *)
(* of a retry.  Time advances in ticks of TickMs milliseconds.  A call to  *)
(* PostgreSQL or Redis is answered within the tick it is made in; only the *)
(* processor, idle workers and clients take time.                          *)
(***************************************************************************)
EXTENDS StreamForge, Backoff

CONSTANTS
  TickMs,            \* length of a tick
  Interval, TTL,     \* of the heartbeat, in ticks (config.go: 5 s and 15 s)
  MaxMissed,         \* pings in a row that may fail
  SweepEvery,        \* interval of the scheduler (cmd/api: 30 s)
  StaleProcessing,   \* ages at which recoverEvents takes a row
  StaleRetrying,     \*   (runSweep: 30 s and 5 min)
  BaseDelay          \* of CalculateBackoff, in milliseconds (cmd/worker: 1 s)

ASSUME TimingAssumption ==
  /\ {TickMs, Interval, TTL, SweepEvery, StaleProcessing, StaleRetrying} \subseteq Nat \ {0}
  /\ MaxMissed \in Nat /\ BaseDelay \in Nat
  /\ Schedulers \cap CrashProne = {}   \* the API process keeps running
  /\ MayLapse

VARIABLES
  age,         \* ticks since events.updated_at, up to the age that matters
  ttl,         \* ticks the heartbeat key of each worker still has
  nextPing,    \* ticks to the next ping of each worker
  missed,      \* pings it missed since the last one that worked
  alarm,       \* ticks each waiting retry goroutine still sleeps
  countdown,   \* ticks to the next sweep of each scheduler
  due,         \* the status its running sweep takes next, or "none"
  overdue      \* history: ticks each event could have been recovered

clockVars == <<age, ttl, nextPing, missed, alarm, countdown, due, overdue>>
timedVars == <<vars, clockVars>>

Waits(t)   == t.step = "backoff"
Beating(w) == pc[w] # "down" /\ w \notin cancelled

StaleAge(st) ==
  CASE st = "PROCESSING" -> StaleProcessing
    [] st = "RETRYING"   -> StaleRetrying
    [] OTHER             -> 0

\* Rows a sweep ought to take: nobody else will move them.
Recoverable(e) ==
  /\ status[e] \in {"PROCESSING", "RETRYING"}
  /\ age[e] >= StaleAge(status[e])
  /\ status[e] = "PROCESSING" =>
       workerId[e] # NULL /\ pc[workerId[e]] = "down" /\ workerId[e] \notin heartbeat

\* The clocks stay within their periods.
ClockTypeOK ==
  /\ \A e \in EventIds : age[e] \in 0..StaleAge(status[e])
  /\ ttl \in [Workers -> 0..TTL]
  /\ nextPing \in [Workers -> 0..Interval]
  /\ missed \in [Workers -> 0..MaxMissed]
  /\ DOMAIN alarm = {t \in retries : Waits(t)}
  /\ \A t \in DOMAIN alarm : alarm[t] \in Nat
  /\ countdown \in [Schedulers -> 1..SweepEvery]
  /\ due \in [Schedulers -> {"none", "PROCESSING", "RETRYING"}]
  /\ overdue \in [EventIds -> 0..(SweepEvery + 1)]

TimedInit ==
  /\ Init
  /\ age = [e \in EventIds |-> 0]
  /\ ttl = [w \in Workers |-> 0]
  /\ nextPing = [w \in Workers |-> 0]
  /\ missed = [w \in Workers |-> 0]
  /\ alarm = <<>>
  /\ countdown = [s \in Schedulers |-> SweepEvery]
  /\ due = [s \in Schedulers |-> "none"]
  /\ overdue = [e \in EventIds |-> 0]

-----------------------------------------------------------------------------
\* Every UPDATE of events sets updated_at.
StampRows == age' = [e \in EventIds |-> IF status'[e] = status[e] THEN age[e] ELSE 0]

\* The delays, in ticks, the retry of a job may get.  A timer set between two
\* ticks may run out one tick early or late.
DelayTicks(j) ==
  {d \div TickMs : d \in CalculateBackoff(j.attempt, BaseDelay)}
    \cup {d \div TickMs + 1 : d \in CalculateBackoff(j.attempt, BaseDelay)}

\* A retry goroutine that starts sets its timer.
SetAlarms ==
  LET old == DOMAIN alarm
      new == {t \in retries' : Waits(t)}
  IN  \E d \in UNION {DelayTicks(t.job) : t \in new \ old} \cup {0} :
        /\ \A t \in new \ old : d \in DelayTicks(t.job)
        /\ alarm' = [t \in new |-> IF t \in old THEN alarm[t] ELSE d]

\* What a step that takes no time does to the clocks it does not set.
Instantly ==
  /\ StampRows
  /\ SetAlarms
  /\ UNCHANGED countdown
  /\ overdue' = [e \in EventIds |-> IF Recoverable(e)' THEN overdue[e] ELSE 0]

SetTimer(w, p, m) ==
  nextPing' = [nextPing EXCEPT ![w] = p] /\ missed' = [missed EXCEPT ![w] = m]

-----------------------------------------------------------------------------
(* Heartbeats.                                                             *)

\* The first ping is sent as soon as the goroutine runs.
TimedStart(w) ==
  /\ Start(w)
  /\ SetTimer(w, 0, 0)
  /\ UNCHANGED <<ttl, due>>

TimedCrash(w) ==
  /\ Crash(w)
  /\ SetTimer(w, 0, 0)
  /\ UNCHANGED <<ttl, due>>

\* Mutation: the TTL is no longer than the interval, which the configuration accepts.
Beat_ShortTTL(w) ==
  /\ Ping(w)
  /\ nextPing[w] = 0
  /\ ttl' = [ttl EXCEPT ![w] = Interval]
  /\ SetTimer(w, Interval, 0)
  /\ UNCHANGED due

\* Mutation: the TTL is given to Redis in another unit.
Beat_WrongUnit(w) ==
  /\ Ping(w)
  /\ nextPing[w] = 0
  /\ ttl' = [ttl EXCEPT ![w] = 5 * TTL]
  /\ SetTimer(w, Interval, 0)
  /\ UNCHANGED due

\* A ping writes the key with its full TTL.
Beat(w) ==
  /\ Ping(w)
  /\ nextPing[w] = 0
  /\ ttl' = [ttl EXCEPT ![w] = TTL]
  /\ SetTimer(w, Interval, 0)
  /\ UNCHANGED due

\* Mutation: a failed ping ends the worker.
MissBeat_EndsWorker(w) ==
  /\ Beating(w)
  /\ nextPing[w] = 0
  /\ missed[w] < MaxMissed
  /\ pc' = [pc EXCEPT ![w] = "down"]
  /\ job' = [job EXCEPT ![w] = NULL]
  /\ retries' = {t \in retries : t.worker # w}
  /\ SetTimer(w, 0, 0)
  /\ UNCHANGED <<storeVars, queueVars, api, cancelled, heartbeat, schedulerVars, ttl, due>>

\* A ping fails: "We log but do NOT crash the worker."
MissBeat(w) ==
  /\ Beating(w)
  /\ nextPing[w] = 0
  /\ missed[w] < MaxMissed
  /\ SetTimer(w, Interval, missed[w] + 1)
  /\ UNCHANGED <<vars, ttl, due>>

KeyExpires(w) ==
  /\ Expire(w)
  /\ ttl[w] = 0
  /\ UNCHANGED <<ttl, nextPing, missed, due>>

-----------------------------------------------------------------------------
(* The sweeps.                                                             *)

\* The rows not updated since the cutoff.
StaleRows(st) == {x \in RowsIn(st) : age[x.event] >= StaleAge(st)}

\* Mutation: RETRYING rows are not swept.
AfterStatus_Ends(st) == "none"

\* runSweep: PROCESSING rows, then RETRYING rows.
AfterStatus(st) == IF st = "PROCESSING" THEN "RETRYING" ELSE "none"

\* recoverEvents for one status, called when the one before has returned.
RunSweep(s) ==
  /\ due[s] # "none"
  /\ sweep[s] = "IDLE"
  /\ due' = [due EXCEPT ![s] = AfterStatus(@)]
  /\ \/ StaleRows(due[s]) = {} /\ UNCHANGED vars
     \/ BeginSweep(s, due[s], StaleRows(due[s]))
  /\ UNCHANGED <<ttl, nextPing, missed>>

-----------------------------------------------------------------------------
\* The retry goroutine wakes up when its delay is over.
TimedRetry(t) ==
  \/ Waits(t) /\ alarm[t] = 0 /\ RetryPublish(t)
  \/ RetryAck(t) \/ RetryUpdate(t) \/ RetryAbort(t)

OtherwiseStep ==
  /\ \/ \E e \in EventIds : RequestStep(e)
     \/ \E w \in Workers : LoopStep(w) \/ Stop(w)
     \/ \E t \in retries : TimedRetry(t)
     \/ \E s \in Schedulers : RecoverStep(s)
  /\ UNCHANGED <<ttl, nextPing, missed, due>>

\* Somebody has something to do before time may go on.
Busy ==
  \/ \E e \in EventIds : api[e] \in {"created", "published"}
  \/ \E w \in Workers :
       \/ pc[w] \in {"assign", "discard", "finalize", "fail", "ack"}
       \/ Beating(w) /\ nextPing[w] = 0
       \/ w \in heartbeat /\ ttl[w] = 0
  \/ \E t \in retries : ~Waits(t) \/ alarm[t] = 0
  \/ \E s \in Schedulers : sweep[s] # "IDLE" \/ due[s] # "none"

Older(n, max) == IF n < max THEN n + 1 ELSE n
Sooner(n)     == IF n > 0 THEN n - 1 ELSE 0

Tick ==
  /\ ~Busy
  /\ age' = [e \in EventIds |-> Older(age[e], StaleAge(status[e]))]
  /\ ttl' = [w \in Workers |-> Sooner(ttl[w])]
  /\ nextPing' = [w \in Workers |-> Sooner(nextPing[w])]
  /\ alarm' = [t \in DOMAIN alarm |-> Sooner(alarm[t])]
  /\ countdown' = [s \in Schedulers |->
                     IF countdown[s] = 1 THEN SweepEvery ELSE countdown[s] - 1]
  /\ due' = [s \in Schedulers |-> IF countdown[s] = 1 THEN "PROCESSING" ELSE "none"]
  /\ overdue' = [e \in EventIds |->
                   IF Recoverable(e) THEN Older(overdue[e], SweepEvery + 1) ELSE 0]
  /\ UNCHANGED <<vars, missed>>

InstantStep ==
  \/ \E w \in Workers :
       TimedStart(w) \/ TimedCrash(w) \/ Beat(w) \/ MissBeat(w) \/ KeyExpires(w)
  \/ \E s \in Schedulers : RunSweep(s)
  \/ OtherwiseStep

TimedNext == Tick \/ (InstantStep /\ Instantly)

TimedSpec == TimedInit /\ [][TimedNext]_timedVars

-----------------------------------------------------------------------------
\* An event that only the scheduler can move (its worker died and its key is
\* gone, or its retry was lost) is requeued by the next sweep: nobody waits for
\* longer than one period of the scheduler, whatever else is swept.
RecoveredInTime == \A e \in EventIds : overdue[e] <= SweepEvery

\* The sweep never takes an event whose retry goroutine still waits: the two
\* would requeue it both.
SweepSparesRetries ==
  \A s \in Schedulers : \A x \in pending[s] :
    sweep[s] = "RETRYING" => \A t \in retries : ~(Waits(t) /\ t.job.event = x.event)

\* A worker that runs an event has its key whenever the row is old enough to be
\* swept, so a sweep can tell it from a dead one.
OwnerVisible ==
  \A w \in Workers :
    Executing(w) /\ age[job[w].event] >= StaleProcessing => w \in heartbeat

\* The clocks only restrict what the pipeline may do.
ImplementsPipeline == Spec

=============================================================================
