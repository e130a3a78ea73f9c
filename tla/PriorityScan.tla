---------------------------- MODULE PriorityScan ----------------------------
(***************************************************************************)
(* The pipeline with RedisQueue.Consume one XREADGROUP at a time: the call *)
(* asks the streams in the order of their priorities, starts over when all *)
(* were empty, and returns with the first entry it gets.  Between two      *)
(* reads of one scan anything else may happen.  StreamForge, where a       *)
(* worker takes the next entry of any stream, is implemented by it.        *)
(***************************************************************************)
EXTENDS StreamForge

VARIABLES
  scan,     \* position in AllStreams of the next read of each worker's Consume
  backlog   \* history: entries there when that scan began and still undelivered

allVars == <<vars, scan, backlog>>

\* Mutation: the streams in the order of the priority numbers.
AllStreams_LowFirst == <<"events:low", "events:normal", "events:high">>

AllStreams == <<"events:high", "events:normal", "events:low">>

Positions  == DOMAIN AllStreams
Scanned(w) == AllStreams[scan[w]]

\* What each scan knows of the streams.
ScanTypeOK ==
  /\ scan \in [Workers -> Positions]
  /\ backlog \in [Workers -> SUBSET (Streams \X Nat)]
  /\ \A w \in Workers : pc[w] # "consume" => scan[w] = 1 /\ backlog[w] = {}

ScanInit ==
  /\ Init
  /\ scan = [w \in Workers |-> 1]
  /\ backlog = [w \in Workers |-> {}]

\* The entries the workers could still get.
Undelivered ==
  UNION {{s} \X ((lastDelivered[s] + 1)..Len(stream[s])) : s \in Streams}

Scanning(w)  == pc[w] = "consume"
AtStart(w)   == Scanning(w) /\ scan[w] = 1

\* A scan begins with its read of the first stream: when Consume is called, and
\* after each round of empty streams.
RememberBacklog ==
  backlog' = [w \in Workers |->
    IF ~Scanning(w)' THEN {}
    ELSE IF AtStart(w)' THEN Undelivered'
    ELSE backlog[w] \cap Undelivered']

-----------------------------------------------------------------------------
MoveTo(w, p)  == scan' = [scan EXCEPT ![w] = p]

\* Mutation: the scan runs past the last stream.
AfterEmpty_NoWrap(p) == p + 1

\* Mutation: the last stream is never asked.
AfterEmpty_SkipsLow(p) == IF p + 1 = Len(AllStreams) THEN 1 ELSE p + 1

\* The stream asked after an empty one; after the last one the call sleeps and
\* begins a new scan.
AfterEmpty(p) == IF p = Len(AllStreams) THEN 1 ELSE p + 1

\* redis.Nil: nothing new in this stream.
ReadEmpty(w) ==
  /\ Scanning(w)
  /\ group
  /\ lastDelivered[Scanned(w)] = Len(stream[Scanned(w)])
  /\ MoveTo(w, AfterEmpty(scan[w]))
  /\ UNCHANGED vars

\* Mutation: XREADGROUP with the id 0 hands out what is pending already.
ReadJob_Pending(w) ==
  LET s == Scanned(w)
  IN  /\ Scanning(w) /\ w \notin cancelled
      /\ \E x \in pel :
           /\ x[1] = s
           /\ job' = [job EXCEPT ![w] =
                [event |-> stream[s][x[2]].event, attempt |-> stream[s][x[2]].attempt,
                 queue |-> s, receipt |-> x[2]]]
      /\ pc' = [pc EXCEPT ![w] = "assign"]
      /\ UNCHANGED <<storeVars, queueVars, api, cancelled, retries, heartbeat,
                     schedulerVars>>
      /\ MoveTo(w, 1)

\* The stream has an entry: Consume returns with it.
ReadJob(w) ==
  /\ Consume(w)
  /\ job'[w].queue = Scanned(w)
  /\ MoveTo(w, 1)

\* The server hands out an entry but the reply is lost.
LoseRead(w) ==
  /\ LoseDelivery(w)
  /\ lastDelivered'[Scanned(w)] # lastDelivered[Scanned(w)]
  /\ MoveTo(w, 1)

\* The read fails with no effect: Consume returns the error, the job loop
\* calls it again.
ReadFails(w) ==
  /\ Scanning(w)
  /\ MayFault \/ w \in cancelled
  /\ MoveTo(w, 1)
  /\ UNCHANGED vars

ReadStep(w) == ReadEmpty(w) \/ ReadJob(w) \/ LoseRead(w) \/ ReadFails(w)

\* The rest of the job loop; the next Consume begins with the first stream.
WorkStep(w) ==
  /\ \/ ExitLoop(w) \/ Stopped(w) \/ AssignJob(w) \/ DiscardJob(w) \/ Process(w)
     \/ FinalizeJob(w) \/ AckJob(w) \/ HandleFailure(w)
  /\ MoveTo(w, 1)

\* A worker that starts or dies.
LifeStep(w) == (Start(w) \/ Crash(w)) /\ MoveTo(w, 1)

OtherStep ==
  /\ \/ \E e \in EventIds : RequestStep(e)
     \/ \E w \in Workers : Stop(w) \/ Ping(w) \/ Expire(w)
     \/ \E t \in retries : RetryStep(t)
     \/ \E s \in Schedulers : SchedulerStep(s)
  /\ UNCHANGED scan

LoopTurn(w) == (ReadStep(w) \/ WorkStep(w)) /\ RememberBacklog

ScanNext ==
  \/ \E w \in Workers : LoopTurn(w)
  \/ \E w \in Workers : LifeStep(w) /\ RememberBacklog
  \/ OtherStep /\ RememberBacklog

ScanSpec == ScanInit /\ [][ScanNext]_allVars

\* The fairness of the pipeline, where a turn of the job loop may be a read.
FairScanSpec ==
  /\ ScanSpec
  /\ RequestFairness /\ RetryFairness /\ SchedulerFairness
  /\ \A w \in Workers : WF_allVars(LoopTurn(w))

-----------------------------------------------------------------------------
HigherThan ==
  {<<"events:high", "events:normal">>, <<"events:high", "events:low">>,
   <<"events:normal", "events:low">>}

\* "Check sequentially to guarantee Priority DESC": a worker takes an entry only
\* if every entry of a higher priority that was there when this scan began has
\* been handed out, whatever other workers read, requeued or failed to read
\* meanwhile.  (An entry published after the scan passed its stream is
\* overtaken.)
PriorityRespected ==
  [][\A w \in Workers :
       Scanning(w) /\ pc'[w] = "assign" =>
         \A x \in backlog[w] : <<x[1], job'[w].queue>> \notin HigherThan]_allVars

\* The scan is one way to take the next entry of some stream.
ImplementsPipeline == Spec

=============================================================================
