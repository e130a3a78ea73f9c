----------------------------- MODULE WorkerPool -----------------------------
(***************************************************************************)
(* The pool of workers (worker/pool.go), as the worker process and the     *)
(* tests use it: concurrent callers of Start and Stop.  A worker is seen   *)
(* from outside only: Worker.Start makes it run, Worker.Stop returns when  *)
(* it is STOPPED (module WorkerLifecycle).                                 *)
(***************************************************************************)
EXTENDS Naturals

CONSTANTS
  Starters,   \* goroutines that call Pool.Start
  Stoppers,   \* goroutines that call Pool.Stop
  NULL,
  Count       \* number of workers

ASSUME PoolAssumption ==
  /\ Starters \cap Stoppers = {}
  /\ NULL \notin Starters \cup Stoppers
  /\ Count \in Nat \ {0}

VARIABLES
  started, stopped,   \* the two flags of the pool
  startMu,            \* the caller that holds the mutex, or NULL
  caller,             \* where each caller is
  next,               \* the worker Start is about to start
  worker,             \* each worker
  stopper             \* the goroutine of Stop that calls each Worker.Stop

vars == <<started, stopped, startMu, caller, next, worker, stopper>>

Callers == Starters \cup Stoppers

\* The values of the variables.
TypeOK ==
  /\ started \in BOOLEAN /\ stopped \in BOOLEAN
  /\ startMu \in Callers \cup {NULL}
  /\ caller \in [Callers -> {"idle", "starting", "waiting", "returned"}]
  /\ next \in 1..(Count + 1)
  /\ worker \in [1..Count -> {"STOPPED", "running", "stopping"}]
  /\ stopper \in [1..Count -> {"none", "called", "waiting", "done"}]

Init ==
  /\ started = FALSE /\ stopped = FALSE
  /\ startMu = NULL
  /\ caller = [c \in Callers |-> "idle"]
  /\ next = 1
  /\ worker = [i \in 1..Count |-> "STOPPED"]
  /\ stopper = [i \in 1..Count |-> "none"]

Return(c) == caller' = [caller EXCEPT ![c] = "returned"]

-----------------------------------------------------------------------------
\* Start, under startMu: refused once the pool was started or stopped.
RefuseStart(c) ==
  /\ caller[c] = "idle" /\ startMu = NULL
  /\ started \/ stopped
  /\ Return(c)
  /\ UNCHANGED <<started, stopped, startMu, next, worker, stopper>>

BeginStart(c) ==
  /\ caller[c] = "idle" /\ startMu = NULL
  /\ ~started /\ ~stopped
  /\ started' = TRUE
  /\ startMu' = c
  /\ caller' = [caller EXCEPT ![c] = "starting"]
  /\ UNCHANGED <<stopped, next, worker, stopper>>

\* Mutation: one iteration too many.
StartWorker_OneMore(c) ==
  /\ caller[c] = "starting" /\ next <= Count + 1
  /\ worker' = [worker EXCEPT ![next] = "running"]
  /\ next' = next + 1
  /\ UNCHANGED <<started, stopped, startMu, caller, stopper>>

StartWorker(c) ==
  /\ caller[c] = "starting" /\ next <= Count
  /\ worker' = [worker EXCEPT ![next] = "running"]
  /\ next' = next + 1
  /\ UNCHANGED <<started, stopped, startMu, caller, stopper>>

EndStart(c) ==
  /\ caller[c] = "starting" /\ next = Count + 1
  /\ startMu' = NULL
  /\ Return(c)
  /\ UNCHANGED <<started, stopped, next, worker, stopper>>

-----------------------------------------------------------------------------
\* Stop returns at once unless the pool was started and not yet stopped.
RefuseStop(c) ==
  /\ caller[c] = "idle" /\ startMu = NULL
  /\ ~started \/ stopped
  /\ Return(c)
  /\ UNCHANGED <<started, stopped, startMu, next, worker, stopper>>

\* Mutation: startMu is not taken.
BeginStop_Unlocked(c) ==
  /\ caller[c] = "idle"
  /\ started /\ ~stopped
  /\ stopped' = TRUE
  /\ caller' = [caller EXCEPT ![c] = "waiting"]
  /\ stopper' = [i \in 1..Count |-> "called"]
  /\ UNCHANGED <<started, startMu, next, worker>>

\* Mutation: one goroutine too few is launched.
BeginStop_SkipsFirst(c) ==
  /\ caller[c] = "idle" /\ startMu = NULL
  /\ started /\ ~stopped
  /\ stopped' = TRUE
  /\ caller' = [caller EXCEPT ![c] = "waiting"]
  /\ stopper' = [i \in 1..Count |-> IF i = 1 THEN "none" ELSE "called"]
  /\ UNCHANGED <<started, startMu, next, worker>>

\* The winner launches one goroutine per worker, and waits for all of them
\* outside startMu.
BeginStop(c) ==
  /\ caller[c] = "idle" /\ startMu = NULL
  /\ started /\ ~stopped
  /\ stopped' = TRUE
  /\ caller' = [caller EXCEPT ![c] = "waiting"]
  /\ stopper' = [i \in 1..Count |-> "called"]
  /\ UNCHANGED <<started, startMu, next, worker>>

\* Worker.Stop returns at once when that worker is not running, and otherwise
\* cancels it and blocks.
StopWorker(i) ==
  /\ stopper[i] = "called"
  /\ \/ /\ worker[i] = "STOPPED"
        /\ stopper' = [stopper EXCEPT ![i] = "done"]
        /\ UNCHANGED worker
     \/ /\ worker[i] = "running"
        /\ worker' = [worker EXCEPT ![i] = "stopping"]
        /\ stopper' = [stopper EXCEPT ![i] = "waiting"]
  /\ UNCHANGED <<started, stopped, startMu, caller, next>>

WorkerStopped(i) ==
  /\ stopper[i] = "waiting"
  /\ worker' = [worker EXCEPT ![i] = "STOPPED"]
  /\ stopper' = [stopper EXCEPT ![i] = "done"]
  /\ UNCHANGED <<started, stopped, startMu, caller, next>>

EndStop(c) ==
  /\ caller[c] = "waiting"
  /\ \A i \in 1..Count : stopper[i] = "done"
  /\ Return(c)
  /\ UNCHANGED <<started, stopped, startMu, next, worker, stopper>>

-----------------------------------------------------------------------------
StartStep(c) == StartWorker(c) \/ EndStart(c)
StopStep(i)  == StopWorker(i) \/ WorkerStopped(i)

Next ==
  \/ \E c \in Starters : RefuseStart(c) \/ BeginStart(c) \/ StartStep(c)
  \/ \E c \in Stoppers : RefuseStop(c) \/ BeginStop(c) \/ EndStop(c)
  \/ \E i \in 1..Count : StopStep(i)

Spec == Init /\ [][Next]_vars

-----------------------------------------------------------------------------
\* A stopped pool stays stopped: once the goroutines of Stop have all returned
\* no worker runs, and none is ever started again, whatever other callers of
\* Start and Stop do and wherever Start was when Stop was called.
StaysStopped ==
  (\A i \in 1..Count : stopper[i] = "done") =>
    \A i \in 1..Count : worker[i] = "STOPPED"

=============================================================================
