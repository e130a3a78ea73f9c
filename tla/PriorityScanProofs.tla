------------------------- MODULE PriorityScanProofs -------------------------
(***************************************************************************)
(* Proofs about the scan of Consume, for every set of events and workers   *)
(* and every pattern of faults: it implements the pipeline, and no entry   *)
(* overtakes one of a higher priority that was there before the scan.      *)
(***************************************************************************)
EXTENDS PriorityScan, StreamForgeProofs

\* Every step of the detailed pipeline is a step of the pipeline, or leaves it
\* alone.
LEMMA ScanStepRefines == [ScanNext]_allVars => [Next]_vars
<1> SUFFICES ASSUME [ScanNext]_allVars PROVE [Next]_vars
  OBVIOUS
<1>1. CASE UNCHANGED allVars
  BY <1>1 DEF allVars
<1>2. ASSUME NEW w \in Workers, LoopTurn(w) PROVE [Next]_vars
  <2>1. CASE ReadStep(w)
    BY <2>1 DEF ReadStep, ReadEmpty, ReadJob, LoseRead, ReadFails, Next, WorkerStep,
                LoopStep
  <2>2. CASE WorkStep(w)
    BY <2>2 DEF WorkStep, Next, WorkerStep, LoopStep
  <2> QED BY <1>2, <2>1, <2>2 DEF LoopTurn
<1>3. ASSUME NEW w \in Workers, LifeStep(w) PROVE [Next]_vars
  BY <1>3 DEF LifeStep, Next, WorkerStep
<1>4. CASE OtherStep
  BY <1>4 DEF OtherStep, Next, WorkerStep
<1> QED BY <1>1, <1>2, <1>3, <1>4 DEF ScanNext

\* Reading the streams one at a time is one way to take the next entry of some
\* stream: whatever is proved of the pipeline holds of this one.
THEOREM ScanImplements == ScanSpec => ImplementsPipeline
<1>1. ScanInit => Init
  BY DEF ScanInit
<1> QED BY <1>1, ScanStepRefines, PTL DEF ScanSpec, Spec, ImplementsPipeline

-----------------------------------------------------------------------------
\* A scan has found the streams before its position empty of its backlog.
Passed ==
  \A w \in Workers : Scanning(w) =>
    \A x \in backlog[w] : \A p \in 1..(scan[w] - 1) : x[1] # AllStreams[p]

ScanInv ==
  /\ TypeOK
  /\ scan \in [Workers -> 1..3]
  /\ \A w \in Workers : ~Scanning(w) => backlog[w] = {}
  /\ Passed

\* The positions of the three streams.
LEMMA ThreeStreams ==
  /\ Positions = 1..3 /\ Len(AllStreams) = 3
  /\ AllStreams[1] = "events:high" /\ AllStreams[2] = "events:normal"
  /\ AllStreams[3] = "events:low"
BY DEF Positions, AllStreams

\* How the scan of a worker may move while it is consuming: it stays, starts
\* over, or passes a stream with nothing undelivered; so may the scan of any
\* other worker.
LEMMA ScanMoves ==
  ASSUME ScanInv, ScanNext, NEW w \in Workers
  PROVE  /\ scan' \in [Workers -> 1..3]
         /\ \/ scan'[w] = scan[w]
            \/ scan'[w] = 1
            \/ /\ scan'[w] = scan[w] + 1
               /\ lastDelivered'[Scanned(w)] = Len(stream'[Scanned(w)])
<1> USE DEF ScanInv
<1>1. ASSUME NEW v \in Workers, MoveTo(v, 1)
      PROVE  scan' \in [Workers -> 1..3] /\ scan'[w] \in {1, scan[w]}
  BY <1>1 DEF MoveTo
<1>2. ASSUME NEW v \in Workers, ReadEmpty(v)
      PROVE  /\ scan' \in [Workers -> 1..3]
             /\ \/ scan'[w] \in {1, scan[w]}
                \/ /\ scan'[w] = scan[w] + 1
                   /\ lastDelivered'[Scanned(w)] = Len(stream'[Scanned(w)])
  <2>1. scan[v] \in 1..3
    OBVIOUS
  <2>2. AfterEmpty(scan[v]) \in 1..3 /\ AfterEmpty(scan[v]) \in {1, scan[v] + 1}
    BY <2>1, ThreeStreams DEF AfterEmpty
  <2>3. scan' = [scan EXCEPT ![v] = AfterEmpty(scan[v])]
    BY <1>2 DEF ReadEmpty, MoveTo
  <2>4. CASE v # w
    BY <2>2, <2>3, <2>4
  <2>5. CASE v = w
    <3>1. UNCHANGED <<lastDelivered, stream>>
      BY <1>2 DEF ReadEmpty, vars, queueVars
    <3> QED BY <1>2, <2>2, <2>3, <2>5, <3>1 DEF ReadEmpty
  <2> QED BY <2>4, <2>5
<1>3. CASE \E v \in Workers : LoopTurn(v)
  BY <1>1, <1>2, <1>3 DEF LoopTurn, ReadStep, ReadJob, LoseRead, ReadFails, WorkStep
<1>4. CASE \E v \in Workers : LifeStep(v)
  BY <1>1, <1>4 DEF LifeStep
<1>5. CASE OtherStep
  BY <1>5 DEF OtherStep
<1> QED BY <1>3, <1>4, <1>5 DEF ScanNext

\* Nothing undelivered is in a stream whose last entry was handed out.
LEMMA NothingLeft ==
  ASSUME NEW s \in Streams, lastDelivered'[s] = Len(stream'[s]), TypeOK',
         NEW x \in Undelivered'
  PROVE  x[1] # s
<1> SUFFICES ASSUME x[1] = s PROVE FALSE
  OBVIOUS
<1>1. PICK t \in Streams : x \in {t} \X ((lastDelivered'[t] + 1)..Len(stream'[t]))
  BY DEF Undelivered
<1>2. t = s
  BY <1>1
<1>3. Len(stream'[s]) \in Nat
  BY DEF TypeOK, QueueTypeOK
<1> QED BY <1>1, <1>2, <1>3

\* A step keeps what the scans have passed.
LEMMA PassedKept == ASSUME ScanInv, ScanNext PROVE Passed'
<1> USE DEF ScanInv
<1>1. TypeOK'
  BY ScanStepRefines, StepType
<1>2. RememberBacklog
  BY DEF ScanNext, LoopTurn
<1> SUFFICES ASSUME NEW w \in Workers, Scanning(w)', NEW x \in backlog'[w],
                    NEW p \in 1..(scan'[w] - 1)
             PROVE  x[1] # AllStreams[p]
  BY DEF Passed
<1>3. scan[w] \in 1..3 /\ scan'[w] \in 1..3 /\ scan'[w] # 1 /\ p \in Nat
  BY ScanMoves
<1>4. ~AtStart(w)'
  BY <1>3 DEF AtStart
<1>5. x \in backlog[w] /\ x \in Undelivered'
  BY <1>2, <1>4 DEF RememberBacklog
<1>6. Scanning(w)
  BY <1>5
<1>7. CASE p < scan[w]
  BY <1>3, <1>5, <1>6, <1>7 DEF Passed
<1>8. CASE ~(p < scan[w])
  <2>1. p = scan[w] /\ scan'[w] = scan[w] + 1
    BY <1>3, <1>8, ScanMoves
  <2>2. lastDelivered'[Scanned(w)] = Len(stream'[Scanned(w)])
    BY <1>3, <2>1, ScanMoves
  <2>3. Scanned(w) \in Streams
    BY <1>3, ThreeStreams DEF Scanned, Streams
  <2> QED BY <1>1, <1>5, <2>1, <2>2, <2>3, NothingLeft DEF Scanned
<1> QED BY <1>7, <1>8

\* The invariant holds initially and is kept.
LEMMA ScanInvHolds == ScanSpec => []ScanInv
<1>1. ScanInit => ScanInv
  BY InitType DEF ScanInit, ScanInv, Passed
<1>2. ScanInv /\ [ScanNext]_allVars => ScanInv'
  <2> SUFFICES ASSUME ScanInv, [ScanNext]_allVars PROVE ScanInv'
    OBVIOUS
  <2>1. TypeOK'
    BY ScanStepRefines, StepType DEF ScanInv
  <2>2. CASE UNCHANGED allVars
    <3>1. UNCHANGED <<pc, scan, backlog>>
      BY <2>2 DEF allVars, vars, workerVars
    <3> QED BY <2>1, <3>1 DEF ScanInv, Passed, Scanning
  <2>3. CASE ScanNext
    <3>1. RememberBacklog
      BY <2>3 DEF ScanNext, LoopTurn
    <3>2. \A w \in Workers : ~Scanning(w)' => backlog'[w] = {}
      BY <3>1 DEF RememberBacklog
    <3>3. scan' \in [Workers -> 1..3]
      <4>1. CASE Workers = {}
        BY <2>3, <4>1 DEF ScanNext, OtherStep, ScanInv
      <4>2. CASE Workers # {}
        BY <2>3, <4>2, ScanMoves
      <4> QED BY <4>1, <4>2
    <3> QED BY <2>1, <2>3, <3>2, <3>3, PassedKept DEF ScanInv
  <2> QED BY <2>2, <2>3
<1> QED BY <1>1, <1>2, PTL DEF ScanSpec

\* Only its own loop, its start or its death moves a worker in its code.
LEMMA OthersKeepLocations == ASSUME OtherStep PROVE UNCHANGED pc
BY DEF OtherStep, RequestStep, RejectRequest, CreateEvent, PublishEvent, MarkQueued,
       AbortRequest, Stop, Ping, Expire, RetryStep, RetryPublish, RetryAck, RetryUpdate,
       RetryAbort, SchedulerStep, BeginSweep, RecoverStep, PassOver, CheckHeartbeat,
       Republish, ResetOwner, CrashScheduler, workerVars

LEMMA LocationIsOwn ==
  ASSUME TypeOK, NEW v \in Workers, NEW w \in Workers \ {v},
         ReadStep(v) \/ WorkStep(v) \/ LifeStep(v)
  PROVE  pc'[w] = pc[w]
<1>1. pc \in [Workers -> Locations]
  BY DEF TypeOK, ActorTypeOK
<1>2. CASE ReadStep(v)
  BY <1>1, <1>2 DEF ReadStep, ReadEmpty, ReadJob, LoseRead, ReadFails, Consume,
                    LoseDelivery, vars, workerVars
<1>3. CASE WorkStep(v)
  <2>1. CASE ExitLoop(v) \/ Stopped(v) \/ Process(v)
    BY <1>1, <2>1 DEF ExitLoop, Stopped, Process
  <2>2. CASE AssignJob(v)
    BY <1>1, <2>2 DEF AssignJob
  <2>3. CASE DiscardJob(v) \/ AckJob(v)
    BY <1>1, <2>3 DEF DiscardJob, AckJob
  <2>4. CASE FinalizeJob(v)
    BY <1>1, <2>4 DEF FinalizeJob
  <2>5. CASE HandleFailure(v)
    BY <1>1, <2>5 DEF HandleFailure
  <2> QED BY <1>3, <2>1, <2>2, <2>3, <2>4, <2>5 DEF WorkStep
<1>4. CASE LifeStep(v)
  BY <1>1, <1>4 DEF LifeStep, Start, Crash
<1> QED BY <1>2, <1>3, <1>4

\* A worker that leaves Consume, or is not in it, begins its next scan with the
\* first stream.
LEMMA StartsOver ==
  ASSUME ScanInv, ScanTypeOK, ScanNext, NEW w \in Workers, ~Scanning(w)'
  PROVE  scan'[w] = 1
<1> USE DEF ScanInv, Scanning
<1>1. ASSUME pc'[w] = pc[w], scan'[w] = scan[w] PROVE scan'[w] = 1
  BY <1>1 DEF ScanTypeOK
<1>2. ASSUME NEW v \in Workers, MoveTo(v, 1), ReadStep(v) \/ WorkStep(v) \/ LifeStep(v)
      PROVE  scan'[w] = 1
  <2>1. CASE v = w
    BY <1>2, <2>1 DEF MoveTo
  <2>2. CASE v # w
    BY <1>1, <1>2, <2>2, LocationIsOwn DEF MoveTo
  <2> QED BY <2>1, <2>2
<1>3. ASSUME NEW v \in Workers, ReadEmpty(v) PROVE scan'[w] = 1
  <2>1. UNCHANGED pc
    BY <1>3 DEF ReadEmpty, vars, workerVars
  <2>2. v # w
    BY <1>3, <2>1 DEF ReadEmpty
  <2> QED BY <1>1, <1>3, <2>1, <2>2 DEF ReadEmpty, MoveTo
<1>4. CASE \E v \in Workers : LoopTurn(v)
  BY <1>2, <1>3, <1>4 DEF LoopTurn, ReadStep, ReadJob, LoseRead, ReadFails, WorkStep
<1>5. CASE \E v \in Workers : LifeStep(v)
  BY <1>2, <1>5 DEF LifeStep
<1>6. CASE OtherStep
  BY <1>1, <1>6, OthersKeepLocations DEF OtherStep
<1> QED BY <1>4, <1>5, <1>6 DEF ScanNext

\* What a scan remembers are entries of the streams.
LEMMA BacklogType ==
  ASSUME ScanTypeOK, TypeOK', RememberBacklog
  PROVE  backlog' \in [Workers -> SUBSET (Streams \X Nat)]
<1>1. Undelivered' \subseteq Streams \X Nat
  <2> SUFFICES ASSUME NEW s \in Streams,
                      NEW x \in {s} \X ((lastDelivered'[s] + 1)..Len(stream'[s]))
               PROVE  x \in Streams \X Nat
    BY DEF Undelivered
  <2>1. lastDelivered'[s] \in Nat /\ Len(stream'[s]) \in Nat
    BY DEF TypeOK, QueueTypeOK
  <2> QED BY <2>1
<1>2. ASSUME NEW w \in Workers
      PROVE  (IF ~Scanning(w)' THEN {}
              ELSE IF AtStart(w)' THEN Undelivered'
              ELSE backlog[w] \cap Undelivered') \in SUBSET (Streams \X Nat)
  BY <1>1
<1> QED BY <1>2, Zenon DEF RememberBacklog

\* The types of the scans: a worker that is not in Consume will ask the streams
\* from the first on and owes nothing to an earlier scan.
THEOREM ScanTyped == ScanSpec => []ScanTypeOK
<1>1. ScanInit => ScanTypeOK
  BY ThreeStreams DEF ScanInit, ScanTypeOK
<1>2. ScanInv /\ ScanInv' /\ ScanTypeOK /\ [ScanNext]_allVars => ScanTypeOK'
  <2> SUFFICES ASSUME ScanInv, ScanInv', ScanTypeOK, [ScanNext]_allVars
               PROVE  ScanTypeOK'
    OBVIOUS
  <2>1. CASE UNCHANGED allVars
    BY <2>1 DEF allVars, vars, workerVars, ScanTypeOK
  <2>2. CASE ScanNext
    <3>1. RememberBacklog
      BY <2>2 DEF ScanNext, LoopTurn
    <3>2. backlog' \in [Workers -> SUBSET (Streams \X Nat)]
      BY <3>1, BacklogType DEF ScanInv
    <3>3. \A w \in Workers : ~Scanning(w)' => scan'[w] = 1 /\ backlog'[w] = {}
      BY <2>2, StartsOver DEF ScanInv
    <3> QED BY <3>2, <3>3, ThreeStreams DEF ScanTypeOK, ScanInv, Scanning
  <2> QED BY <2>1, <2>2
<1> QED BY <1>1, <1>2, ScanInvHolds, PTL DEF ScanSpec

\* A worker gets a job only from its own read.
LEMMA OnlyReadJob ==
  ASSUME TypeOK, ScanNext, NEW w \in Workers, pc[w] = "consume", pc'[w] = "assign"
  PROVE  ReadJob(w)
<1>1. pc \in [Workers -> Locations]
  BY DEF TypeOK, ActorTypeOK
<1>2. ASSUME ReadStep(w) PROVE ReadJob(w)
  BY <1>1, <1>2 DEF ReadStep, ReadEmpty, ReadJob, LoseRead, ReadFails, Consume,
                    LoseDelivery, vars, workerVars
<1>3. ~WorkStep(w)
  BY <1>1 DEF WorkStep, ExitLoop, Stopped, AssignJob, DiscardJob, Process, FinalizeJob,
              AckJob, HandleFailure
<1>4. ~LifeStep(w)
  BY <1>1 DEF LifeStep, Start, Crash
<1>5. ~OtherStep
  BY OthersKeepLocations
<1>6. PICK v \in Workers : ReadStep(v) \/ WorkStep(v) \/ LifeStep(v)
  BY <1>5 DEF ScanNext, LoopTurn
<1>7. v = w
  BY <1>6, LocationIsOwn
<1> QED BY <1>2, <1>3, <1>4, <1>6, <1>7

\* No entry is taken before one of a higher priority that waited when the scan
\* began (queue.go, "Check sequentially to guarantee Priority DESC").
THEOREM ScanRespectsPriority == ScanSpec => PriorityRespected
<1> DEFINE Kept ==
      \A w \in Workers :
        Scanning(w) /\ pc'[w] = "assign" =>
          \A x \in backlog[w] : <<x[1], job'[w].queue>> \notin HigherThan
<1>1. ScanInv /\ [ScanNext]_allVars => [Kept]_allVars
  <2> SUFFICES ASSUME ScanInv, ScanNext, NEW w \in Workers, Scanning(w),
                      pc'[w] = "assign", NEW x \in backlog[w]
               PROVE  <<x[1], job'[w].queue>> \notin HigherThan
    OBVIOUS
  <2>1. job'[w].queue = AllStreams[scan[w]]
    BY OnlyReadJob DEF ScanInv, Scanning, ReadJob, Scanned
  <2>2. \A p \in 1..(scan[w] - 1) : x[1] # AllStreams[p]
    BY DEF ScanInv, Passed
  <2>3. scan[w] \in 1..3
    BY DEF ScanInv
  <2>4. CASE scan[w] = 1
    BY <2>1, <2>4, ThreeStreams DEF HigherThan
  <2>5. CASE scan[w] = 2
    BY <2>1, <2>2, <2>5, ThreeStreams DEF HigherThan
  <2>6. CASE scan[w] = 3
    BY <2>1, <2>2, <2>6, ThreeStreams DEF HigherThan
  <2> QED BY <2>3, <2>4, <2>5, <2>6
<1> QED BY <1>1, ScanInvHolds, PTL DEF ScanSpec, PriorityRespected

=============================================================================
