------------------------ MODULE WorkerLifecycleProofs ------------------------
(***************************************************************************)
(* Proofs about the start and stop of a worker, for every number of        *)
(* callers of Start and launches, and one caller of Stop at a time: what   *)
(* Pool.Stop guarantees (its stopped flag lets one caller through, which   *)
(* runs one goroutine per worker).                                         *)
(***************************************************************************)
EXTENDS WorkerLifecycle, TLAPS

Starting(c) == caller[c] \in {"claim", "announce", "launch"}
Stopping(c) == caller[c] \in {"signal", "cancel"}

\* startMu is held from the claim to the launch, and from the check of Stop to
\* the cancellation.
Mutex ==
  /\ \A c \in Starters : caller[c] = "idle" \/ (Starting(c) /\ startMu = c)
  /\ \A c \in Stoppers :
       caller[c] \in {"idle", "wait", "finish"} \/ (Stopping(c) /\ startMu = c)

\* The contexts made so far; the next one is the claimer's to make.
Numbered ==
  /\ \A c \in Starters : caller[c] = "claim" => gen < MaxStarts
  /\ status # "STOPPED" => gen \in Generations

\* While the worker is STOPPED no goroutine is left and no Stop is under way;
\* who starts it finds it so and leaves it so until the launch.
Quiet ==
  /\ status = "STOPPED" => (\A g \in Generations : ~Live(g))
                           /\ \A d \in Stoppers : caller[d] = "idle"
  /\ \A c \in Starters : Starting(c) =>
       /\ \A g \in Generations : ~Live(g)
       /\ \A d \in Stoppers : caller[d] = "idle"
       /\ status = "STOPPED" <=> caller[c] = "claim"
  /\ \A d \in Stoppers : caller[d] = "finish" => \A g \in Generations : ~Live(g)

LifeInv ==
  TypeOK /\ Mutex /\ Numbered /\ Quiet /\ \A g \in Generations : Live(g) => g = gen

\* A goroutine ends or goes on, and may write any status but STOPPED, which only
\* Stop writes.
GoroutineMoves ==
  /\ UNCHANGED <<startMu, caller, gen>>
  /\ \A g \in Generations : Live(g)' => Live(g)
  /\ UNCHANGED status \/ (status' # "STOPPED" /\ \E g \in Generations : Live(g))

\* Each step of a goroutine is one of those, and keeps the types.
LEMMA GoroutineStep ==
  ASSUME TypeOK, NEW g \in Generations,
         LoopStep(g) \/ RetryEnds(g) \/ BeatEnds(g) \/ ParentCancelled(g)
  PROVE  TypeOK' /\ GoroutineMoves
<1> USE DEF TypeOK
<1>1. UNCHANGED <<startMu, caller, gen>>
  BY DEF LoopStep, CheckContext, GotJob, ConsumeFails, BecomeBusy, Assigned, BackToReady,
         Processed, TestStopping, BecomeReady, LoopAt, RetryEnds, BeatEnds, ParentCancelled
<1>2. CASE LoopStep(g)
  <2>1. PICK to \in {"check", "consume", "busy", "assign", "ready", "process", "test",
                     "idle", "done"} :
          loop[g] \notin {"none", "done"} /\ loop' = [loop EXCEPT ![g] = to]
    BY <1>2 DEF LoopStep, CheckContext, GotJob, ConsumeFails, BecomeBusy, Assigned,
                BackToReady, Processed, TestStopping, BecomeReady, LoopAt
  <2>2. /\ UNCHANGED <<cancelled, beat>>
        /\ status' \in {status, "BUSY", "READY"}
        /\ \/ UNCHANGED retries
           \/ retries[g] < MaxRetries /\ retries' = [retries EXCEPT ![g] = retries[g] + 1]
    BY <1>2 DEF LoopStep, CheckContext, GotJob, ConsumeFails, BecomeBusy, Assigned,
                BackToReady, Processed, TestStopping, BecomeReady, LoopAt
  <2>3. retries' \in [Generations -> 0..MaxRetries]
    BY <2>2, LifecycleAssumption
  <2>4. TypeOK'
    BY <1>1, <2>1, <2>2, <2>3 DEF Status
  <2>5. Live(g) /\ \A h \in Generations : Live(h)' => Live(h)
    BY <2>1, <2>2 DEF Live
  <2> QED BY <1>1, <2>2, <2>4, <2>5 DEF GoroutineMoves
<1>3. CASE RetryEnds(g)
  <2>1. retries' \in [Generations -> 0..MaxRetries]
    BY <1>3, LifecycleAssumption DEF RetryEnds
  <2>2. \A h \in Generations : Live(h)' => Live(h)
    BY <1>3 DEF RetryEnds, Live
  <2> QED BY <1>1, <1>3, <2>1, <2>2 DEF RetryEnds, GoroutineMoves
<1>4. CASE BeatEnds(g)
  BY <1>1, <1>4 DEF BeatEnds, Live, GoroutineMoves
<1>5. CASE ParentCancelled(g)
  BY <1>1, <1>5 DEF ParentCancelled, Live, GoroutineMoves
<1> QED BY <1>2, <1>3, <1>4, <1>5

\* Goroutines of the one generation there is disturb nobody.
LEMMA GoroutineKeeps == ASSUME LifeInv, TypeOK', GoroutineMoves PROVE LifeInv'
<1> USE DEF GoroutineMoves
<1>1. \A g \in Generations : Live(g)' => g = gen'
  BY DEF LifeInv
<1>2. Mutex'
  BY DEF LifeInv, Mutex, Starting, Stopping
<1>3. status' = "STOPPED" <=> status = "STOPPED"
  BY DEF LifeInv, Quiet
<1>4. Numbered'
  BY <1>3 DEF LifeInv, Numbered
<1>5. Quiet'
  BY <1>3 DEF LifeInv, Quiet, Starting
<1> QED BY <1>1, <1>2, <1>4, <1>5 DEF LifeInv

\* Nobody but the holder of startMu starts or stops; the other callers of Start
\* are idle.
LEMMA OneStarter ==
  ASSUME LifeInv, NEW c \in Starters, Starting(c)
  PROVE  /\ startMu = c
         /\ \A b \in Starters : b # c => caller[b] = "idle"
         /\ \A d \in Stoppers : caller[d] = "idle"
         /\ \A g \in Generations : ~Live(g)
         /\ c \notin Stoppers
BY LifecycleAssumption DEF LifeInv, Mutex, Quiet, Starting

\* A launch finds nothing running, and leaves one generation.
LEMMA StartKeeps ==
  ASSUME LifeInv, NEW c \in Starters, StartStep(c) PROVE LifeInv'
<1> USE DEF LifeInv, TypeOK, Callers
<1>0. c \notin Stoppers /\ c # NULL /\ NULL \notin Starters
  BY LifecycleAssumption
<1>1. CASE BeginStart(c)
  <2>1. /\ status = "STOPPED" /\ startMu = NULL /\ gen < MaxStarts
        /\ startMu' = c /\ caller' = [caller EXCEPT ![c] = "claim"]
        /\ UNCHANGED <<status, gen, cancelled, loop, beat, retries>>
    BY <1>1 DEF BeginStart
  <2>2. \A b \in Starters : b # c => caller'[b] = "idle"
    BY <1>0, <2>1 DEF Mutex
  <2>3. \A d \in Stoppers : caller'[d] = "idle"
    BY <1>0, <2>1 DEF Quiet
  <2>4. TypeOK'
    BY <2>1
  <2>5. \A g \in Generations : ~Live(g)'
    BY <2>1 DEF Quiet, Live
  <2>6. Mutex' /\ Numbered'
    BY <2>1, <2>2, <2>3 DEF Mutex, Numbered, Starting, Stopping
  <2>7. Quiet'
    BY <2>1, <2>2, <2>3, <2>5 DEF Quiet, Starting
  <2> QED BY <2>4, <2>5, <2>6, <2>7
<1>2. CASE ClaimStart(c) \/ AnnounceReady(c)
  <2>1. Starting(c)
    BY <1>2 DEF ClaimStart, AnnounceReady, Starting
  <2>2. \/ /\ caller[c] = "claim" /\ caller' = [caller EXCEPT ![c] = "announce"]
           /\ gen' = gen + 1 /\ status' = "STARTING"
        \/ /\ caller[c] = "announce" /\ caller' = [caller EXCEPT ![c] = "launch"]
           /\ gen' = gen /\ status' = "READY"
    BY <1>2 DEF ClaimStart, AnnounceReady
  <2>3. UNCHANGED <<startMu, cancelled, loop, beat, retries>>
    BY <1>2 DEF ClaimStart, AnnounceReady
  <2>4. gen' \in Generations
    BY <2>1, <2>2, LifecycleAssumption DEF Numbered, Quiet, Generations
  <2>5. TypeOK'
    BY <2>2, <2>3, <2>4 DEF Status, Generations
  <2>6. /\ \A b \in Starters : b # c => caller'[b] = "idle"
        /\ \A d \in Stoppers : caller'[d] = "idle"
        /\ caller'[c] \in {"announce", "launch"} /\ startMu' = c
    BY <1>0, <2>1, <2>2, <2>3, OneStarter
  <2>7. \A g \in Generations : ~Live(g)'
    BY <2>1, <2>3, OneStarter DEF Live
  <2>8. Mutex' /\ Numbered'
    BY <2>2, <2>4, <2>6 DEF Mutex, Numbered, Starting, Stopping
  <2>9. Quiet'
    BY <2>2, <2>6, <2>7 DEF Quiet, Starting
  <2> QED BY <2>5, <2>7, <2>8, <2>9
<1>3. CASE Launch(c)
  <2>1. Starting(c) /\ status # "STOPPED" /\ gen \in Generations
    BY <1>3 DEF Launch, Starting, Quiet, Numbered
  <2>2. /\ startMu' = NULL /\ caller' = [caller EXCEPT ![c] = "idle"]
        /\ UNCHANGED <<status, gen, cancelled, retries>>
        /\ loop' = [loop EXCEPT ![gen] = "check"] /\ beat' = [beat EXCEPT ![gen] = "running"]
    BY <1>3 DEF Launch
  <2>3. \A b \in Callers : caller'[b] = "idle"
    BY <2>1, <2>2, OneStarter
  <2>4. \A g \in Generations : Live(g)' => g = gen'
    BY <2>1, <2>2, OneStarter DEF Live
  <2>5. TypeOK'
    BY <2>2
  <2>6. Mutex' /\ Numbered' /\ Quiet'
    BY <2>1, <2>2, <2>3 DEF Mutex, Numbered, Quiet, Starting
  <2> QED BY <2>4, <2>5, <2>6
<1> QED BY <1>1, <1>2, <1>3 DEF StartStep

\* The one caller of Stop waits for every goroutine before it writes STOPPED,
\* and nobody starts the worker before that.
LEMMA StopKeeps ==
  ASSUME \A c, d \in Stoppers : c = d,
         LifeInv, NEW d \in Stoppers, BeginStop(d) \/ StopStep(d)
  PROVE  LifeInv'
<1> USE DEF LifeInv, TypeOK, Callers
<1>0. d \notin Starters /\ d # NULL /\ NULL \notin Callers
  BY LifecycleAssumption
<1>1. /\ caller' = [caller EXCEPT ![d] = caller'[d]]
      /\ UNCHANGED <<gen, loop, beat, retries>>
      /\ \A c \in Starters : caller'[c] = caller[c]
      /\ \A c \in Stoppers : c = d
      /\ \A g \in Generations : Live(g)' <=> Live(g)
  BY <1>0 DEF BeginStop, StopStep, SignalStopping, CancelContext, FinishWait, DeclareStopped,
              Live
<1>2. status # "STOPPED" /\ gen \in Generations
  BY DEF BeginStop, StopStep, SignalStopping, CancelContext, FinishWait, DeclareStopped,
         Quiet, Numbered
<1>3. \A c \in Starters : caller[c] = "idle"
  BY <1>0 DEF BeginStop, StopStep, SignalStopping, CancelContext, FinishWait, DeclareStopped,
              Quiet, Mutex
<1>4. CASE BeginStop(d)
  BY <1>0, <1>1, <1>2, <1>3, <1>4 DEF BeginStop, Mutex, Numbered, Quiet, Starting, Stopping
<1>5. CASE SignalStopping(d)
  BY <1>0, <1>1, <1>2, <1>3, <1>5
     DEF SignalStopping, Mutex, Numbered, Quiet, Starting, Stopping, Status
<1>6. CASE CancelContext(d)
  BY <1>0, <1>1, <1>2, <1>3, <1>6
     DEF CancelContext, Mutex, Numbered, Quiet, Starting, Stopping
<1>7. CASE FinishWait(d)
  BY <1>0, <1>1, <1>2, <1>3, <1>7 DEF FinishWait, Mutex, Numbered, Quiet, Starting, Stopping
<1>8. CASE DeclareStopped(d)
  BY <1>0, <1>1, <1>2, <1>3, <1>8
     DEF DeclareStopped, Mutex, Numbered, Quiet, Starting, Stopping, Status
<1> QED BY <1>4, <1>5, <1>6, <1>7, <1>8 DEF StopStep

\* A worker starts out STOPPED.
LEMMA InitLife == Init => LifeInv
BY LifecycleAssumption DEF Init, LifeInv, TypeOK, Callers, Generations, Status, Mutex, Numbered,
                           Quiet, Starting, Live

\* Every step of a caller or a goroutine keeps the invariant.
LEMMA StepLife ==
  ASSUME \A c, d \in Stoppers : c = d
  PROVE  LifeInv /\ [Next]_vars => LifeInv'
<1> SUFFICES ASSUME LifeInv, [Next]_vars PROVE LifeInv'
  OBVIOUS
<1>1. CASE UNCHANGED vars
  BY <1>1 DEF vars, LifeInv, TypeOK, Mutex, Numbered, Quiet, Starting, Stopping, Live
<1>2. ASSUME NEW g \in Generations,
             LoopStep(g) \/ RetryEnds(g) \/ BeatEnds(g) \/ ParentCancelled(g)
      PROVE  LifeInv'
  BY <1>2, GoroutineStep, GoroutineKeeps DEF LifeInv
<1> QED BY <1>1, <1>2, StartKeeps, StopKeeps DEF Next

\* The variables of a worker keep their types; no goroutine is counted out of the
\* WaitGroup more often than it was counted in.
THEOREM WorkerTypeCorrect ==
  ASSUME \A c, d \in Stoppers : c = d
  PROVE  Spec => []TypeOK
<1>1. LifeInv => TypeOK
  BY DEF LifeInv
<1> QED BY <1>1, InitLife, StepLife, PTL DEF Spec

\* However many callers race in Start, and whatever the job loop writes to the
\* status, the goroutines of two launches never run at the same time.
THEOREM SingleGeneration ==
  ASSUME \A c, d \in Stoppers : c = d
  PROVE  Spec => []OneGeneration
<1>1. LifeInv => OneGeneration
  BY DEF LifeInv, OneGeneration
<1> QED BY <1>1, InitLife, StepLife, PTL DEF Spec

\* A worker that is STOPPED has no goroutine left.
THEOREM StoppedIsDone ==
  ASSUME \A c, d \in Stoppers : c = d
  PROVE  Spec => []StoppedMeansDone
<1>1. LifeInv => StoppedMeansDone
  BY DEF LifeInv, Quiet, StoppedMeansDone
<1> QED BY <1>1, InitLife, StepLife, PTL DEF Spec

\* Start never adds to the WaitGroup while Stop waits on it.
THEOREM WaitGroupSafe ==
  ASSUME \A c, d \in Stoppers : c = d
  PROVE  Spec => []WaitGroupNotReused
<1>1. LifeInv => WaitGroupNotReused
  BY DEF LifeInv, Quiet, Starting, WaitGroupNotReused
<1> QED BY <1>1, InitLife, StepLife, PTL DEF Spec

=============================================================================
