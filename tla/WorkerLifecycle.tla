--------------------------- MODULE WorkerLifecycle ---------------------------
(***************************************************************************)
(* One Worker (worker/worker.go): concurrent callers of Start and Stop,    *)
(* the goroutines Start launches, and the status field they all write.     *)
(* startMu covers Start and the first half of Stop; the job loop writes    *)
(* the status under statusMu alone.  Every launch has a context and        *)
(* goroutines of its own, numbered here by generation; one WaitGroup       *)
(* counts the goroutines of all of them.                                   *)
(***************************************************************************)
EXTENDS Integers

CONSTANTS
  Starters,    \* goroutines that call Start, again and again
  Stoppers,    \* goroutines that call Stop, again and again
  NULL,        \* nobody holds startMu
  MaxStarts,   \* bound on the launches
  MaxRetries   \* bound on the retry goroutines of one generation

ASSUME LifecycleAssumption ==
  /\ Starters \cap Stoppers = {}
  /\ NULL \notin Starters \cup Stoppers
  /\ MaxStarts \in Nat /\ MaxRetries \in Nat

VARIABLES
  status,      \* Worker.status
  startMu,     \* the caller that holds the mutex, or NULL
  caller,      \* where each caller is in Start or Stop
  gen,         \* number of contexts made; w.cancel cancels the last one
  cancelled,   \* generations whose context is cancelled
  loop,        \* where the job loop of each generation is
  beat,        \* the heartbeat goroutine of each generation
  retries      \* retry goroutines of each generation

vars == <<status, startMu, caller, gen, cancelled, loop, beat, retries>>

Callers     == Starters \cup Stoppers
Generations == 1..MaxStarts

Status == {"STARTING", "READY", "BUSY", "STOPPING", "STOPPED"}

\* The values of the variables; no goroutine is counted out of the WaitGroup
\* more often than it was counted in.
TypeOK ==
  /\ status \in Status
  /\ startMu \in Callers \cup {NULL}
  /\ caller \in [Callers -> {"idle", "claim", "announce", "launch",
                             "signal", "cancel", "wait", "finish"}]
  /\ gen \in 0..MaxStarts
  /\ cancelled \subseteq Generations
  /\ loop \in [Generations -> {"none", "check", "consume", "busy", "assign", "ready",
                               "process", "test", "idle", "done"}]
  /\ beat \in [Generations -> {"none", "running", "done"}]
  /\ retries \in [Generations -> 0..MaxRetries]

Init ==
  /\ status = "STOPPED"
  /\ startMu = NULL
  /\ caller = [c \in Callers |-> "idle"]
  /\ gen = 0
  /\ cancelled = {}
  /\ loop = [g \in Generations |-> "none"]
  /\ beat = [g \in Generations |-> "none"]
  /\ retries = [g \in Generations |-> 0]

\* What the WaitGroup counts.
Live(g) == loop[g] \notin {"none", "done"} \/ beat[g] = "running" \/ retries[g] > 0

-----------------------------------------------------------------------------
(* Start.                                                                  *)

\* Mutation: started whatever the status.
BeginStart_Always(c) ==
  /\ caller[c] = "idle" /\ startMu = NULL
  /\ gen < MaxStarts
  /\ startMu' = c
  /\ caller' = [caller EXCEPT ![c] = "claim"]
  /\ UNCHANGED <<status, gen, cancelled, loop, beat, retries>>

\* Mutation: refuse only a worker that is up.
BeginStart_UnlessUp(c) ==
  /\ caller[c] = "idle" /\ startMu = NULL
  /\ status \notin {"STARTING", "READY", "BUSY"}
  /\ gen < MaxStarts
  /\ startMu' = c
  /\ caller' = [caller EXCEPT ![c] = "claim"]
  /\ UNCHANGED <<status, gen, cancelled, loop, beat, retries>>

\* Under startMu: refuse unless STOPPED.
BeginStart(c) ==
  /\ caller[c] = "idle" /\ startMu = NULL
  /\ status = "STOPPED"
  /\ gen < MaxStarts
  /\ startMu' = c
  /\ caller' = [caller EXCEPT ![c] = "claim"]
  /\ UNCHANGED <<status, gen, cancelled, loop, beat, retries>>

\* STARTING, and a context for this generation.
ClaimStart(c) ==
  /\ caller[c] = "claim"
  /\ status' = "STARTING"
  /\ gen' = gen + 1
  /\ caller' = [caller EXCEPT ![c] = "announce"]
  /\ UNCHANGED <<startMu, cancelled, loop, beat, retries>>

AnnounceReady(c) ==
  /\ caller[c] = "announce"
  /\ status' = "READY"
  /\ caller' = [caller EXCEPT ![c] = "launch"]
  /\ UNCHANGED <<startMu, gen, cancelled, loop, beat, retries>>

\* wg.Add(2), the two goroutines, and the unlock.
Launch(c) ==
  /\ caller[c] = "launch"
  /\ loop' = [loop EXCEPT ![gen] = "check"]
  /\ beat' = [beat EXCEPT ![gen] = "running"]
  /\ startMu' = NULL
  /\ caller' = [caller EXCEPT ![c] = "idle"]
  /\ UNCHANGED <<status, gen, cancelled, retries>>

-----------------------------------------------------------------------------
(* Stop.                                                                   *)

\* Under startMu: return at once if STOPPED or STOPPING.
BeginStop(c) ==
  /\ caller[c] = "idle" /\ startMu = NULL
  /\ status \notin {"STOPPED", "STOPPING"}
  /\ startMu' = c
  /\ caller' = [caller EXCEPT ![c] = "signal"]
  /\ UNCHANGED <<status, gen, cancelled, loop, beat, retries>>

SignalStopping(c) ==
  /\ caller[c] = "signal"
  /\ status' = "STOPPING"
  /\ caller' = [caller EXCEPT ![c] = "cancel"]
  /\ UNCHANGED <<startMu, gen, cancelled, loop, beat, retries>>

\* Mutation: the context is not cancelled.
CancelContext_Forgotten(c) ==
  /\ caller[c] = "cancel"
  /\ startMu' = NULL
  /\ caller' = [caller EXCEPT ![c] = "wait"]
  /\ UNCHANGED <<status, gen, cancelled, loop, beat, retries>>

\* w.cancel() and the unlock.
CancelContext(c) ==
  /\ caller[c] = "cancel"
  /\ cancelled' = cancelled \cup {gen}
  /\ startMu' = NULL
  /\ caller' = [caller EXCEPT ![c] = "wait"]
  /\ UNCHANGED <<status, gen, loop, beat, retries>>

\* Mutation: only the two goroutines of Start are waited for.
FinishWait_NotRetries(c) ==
  /\ caller[c] = "wait"
  /\ \A g \in Generations : loop[g] \in {"none", "done"} /\ beat[g] # "running"
  /\ caller' = [caller EXCEPT ![c] = "finish"]
  /\ UNCHANGED <<status, startMu, gen, cancelled, loop, beat, retries>>

\* wg.Wait() returns once the counter is zero.
FinishWait(c) ==
  /\ caller[c] = "wait"
  /\ \A g \in Generations : ~Live(g)
  /\ caller' = [caller EXCEPT ![c] = "finish"]
  /\ UNCHANGED <<status, startMu, gen, cancelled, loop, beat, retries>>

DeclareStopped(c) ==
  /\ caller[c] = "finish"
  /\ status' = "STOPPED"
  /\ caller' = [caller EXCEPT ![c] = "idle"]
  /\ UNCHANGED <<startMu, gen, cancelled, loop, beat, retries>>

-----------------------------------------------------------------------------
(* The goroutines of generation g.                                         *)

LoopAt(g, from, to) ==
  /\ loop[g] = from
  /\ loop' = [loop EXCEPT ![g] = to]
  /\ UNCHANGED <<startMu, caller, gen, cancelled, beat>>

\* The loop returns when its context is cancelled, consumes otherwise.
CheckContext(g) ==
  /\ LoopAt(g, "check", IF g \in cancelled THEN "done" ELSE "consume")
  /\ UNCHANGED <<status, retries>>

\* A job was waiting; an answer under way beats a cancellation.
GotJob(g) == LoopAt(g, "consume", "busy") /\ UNCHANGED <<status, retries>>

\* Consume fails: the loop ends if the error is the context's (or looks like
\* it, after a connection timeout) and tries again otherwise.
ConsumeFails(g) ==
  /\ \/ LoopAt(g, "consume", "done")
     \/ g \notin cancelled /\ LoopAt(g, "consume", "check")
  /\ UNCHANGED <<status, retries>>

BecomeBusy(g) == LoopAt(g, "busy", "assign") /\ status' = "BUSY" /\ UNCHANGED retries

\* AssignEvent succeeds or fails.
Assigned(g) ==
  /\ LoopAt(g, "assign", "process") \/ LoopAt(g, "assign", "ready")
  /\ UNCHANGED <<status, retries>>

\* After a failed assignment: READY, whatever the status was.
BackToReady(g) == LoopAt(g, "ready", "check") /\ status' = "READY" /\ UNCHANGED retries

\* The processor and what follows it; a failure may leave a retry goroutine.
Processed(g) ==
  /\ LoopAt(g, "process", "test")
  /\ \/ UNCHANGED retries
     \/ retries[g] < MaxRetries /\ retries' = [retries EXCEPT ![g] = @ + 1]
  /\ UNCHANGED status

\* "Only return to READY if we aren't stopping": a test, then a write.
TestStopping(g) ==
  /\ LoopAt(g, "test", IF status = "STOPPING" THEN "check" ELSE "idle")
  /\ UNCHANGED <<status, retries>>

BecomeReady(g) == LoopAt(g, "idle", "check") /\ status' = "READY" /\ UNCHANGED retries

\* Mutation: wg.Done on the path that gives up as well as deferred.
RetryEnds_DoneTwice(g) ==
  /\ retries[g] > 0
  /\ retries' = [retries EXCEPT ![g] = @ - 2]
  /\ UNCHANGED <<status, startMu, caller, gen, cancelled, loop, beat>>

\* The retry goroutine requeues its job, or gives up when it is cancelled.
RetryEnds(g) ==
  /\ retries[g] > 0
  /\ retries' = [retries EXCEPT ![g] = @ - 1]
  /\ UNCHANGED <<status, startMu, caller, gen, cancelled, loop, beat>>

\* The context given to Start is cancelled: the process was told to end.
ParentCancelled(g) ==
  /\ g <= gen /\ g \notin cancelled
  /\ cancelled' = cancelled \cup {g}
  /\ UNCHANGED <<status, startMu, caller, gen, loop, beat, retries>>

BeatEnds(g) ==
  /\ beat[g] = "running" /\ g \in cancelled
  /\ beat' = [beat EXCEPT ![g] = "done"]
  /\ UNCHANGED <<status, startMu, caller, gen, cancelled, loop, retries>>

-----------------------------------------------------------------------------
StartStep(c) == BeginStart(c) \/ ClaimStart(c) \/ AnnounceReady(c) \/ Launch(c)

StopStep(c) ==
  SignalStopping(c) \/ CancelContext(c) \/ FinishWait(c) \/ DeclareStopped(c)

LoopStep(g) ==
  \/ CheckContext(g) \/ GotJob(g) \/ ConsumeFails(g) \/ BecomeBusy(g) \/ Assigned(g)
  \/ BackToReady(g) \/ Processed(g) \/ TestStopping(g) \/ BecomeReady(g)

Next ==
  \/ \E c \in Starters : StartStep(c)
  \/ \E c \in Stoppers : BeginStop(c) \/ StopStep(c)
  \/ \E g \in Generations :
       LoopStep(g) \/ RetryEnds(g) \/ BeatEnds(g) \/ ParentCancelled(g)

Spec == Init /\ [][Next]_vars

\* A call of Stop goes on once it began, and the goroutines are scheduled:
\* Consume returns when its context is cancelled, the processor returns, and
\* a retry's delay ends.
FairSpec ==
  /\ Spec
  /\ \A c \in Stoppers : WF_vars(StopStep(c))
  /\ \A c \in Starters : WF_vars(ClaimStart(c) \/ AnnounceReady(c) \/ Launch(c))
  /\ \A g \in Generations :
       WF_vars(LoopStep(g)) /\ WF_vars(RetryEnds(g)) /\ WF_vars(BeatEnds(g))

-----------------------------------------------------------------------------
\* "Safe for concurrent calls (ignores if already started)": goroutines of
\* two launches never run at the same time, so one worker holds one job.
OneGeneration ==
  \A g, h \in Generations : Live(g) /\ Live(h) => g = h

\* STOPPED means stopped: no job loop, heartbeat or retry goroutine is left.
StoppedMeansDone == status = "STOPPED" => \A g \in Generations : ~Live(g)

\* The WaitGroup is not reused: Start adds to it only when no Stop is still
\* waiting for the previous goroutines (Go panics otherwise).
WaitGroupNotReused ==
  \A c \in Starters, d \in Stoppers : caller[c] = "launch" => caller[d] # "wait"

\* Stop returns.
StopReturns == \A c \in Stoppers : caller[c] = "wait" ~> caller[c] = "idle"

=============================================================================
