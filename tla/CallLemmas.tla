------------------------------ MODULE CallLemmas -----------------------------
(***************************************************************************)
(* What each call of the event repository does to the columns of the event *)
(* table, and each queue operation to the streams, the group's position    *)
(* and the pending list, in the form the proofs about the pipeline use.    *)
(***************************************************************************)
EXTENDS EventStore, EventQueue, TLAPS

-----------------------------------------------------------------------------
(* The event repository.                                                   *)

\* A call that is applied concluded with verdict "ok"; and a caller that is
\* told anything but an infrastructure error is told the verdict.
LEMMA OutcomeFacts ==
  ASSUME NEW verdict \in Verdicts, NEW ctx, NEW o \in Outcomes(verdict, ctx)
  PROVE  /\ o.applied \in BOOLEAN
         /\ o.res \in Results
         /\ o.applied => verdict = "ok"
         /\ o.res # "infra" => o.res = verdict /\ (o.applied <=> verdict = "ok")
<1>1. CASE o = [res |-> verdict, applied |-> verdict = "ok"]
  <2>1. o.res = verdict /\ o.applied = (verdict = "ok")
    BY <1>1
  <2> QED BY <2>1 DEF Results, Verdicts
<1>2. CASE o = [res |-> "infra", applied |-> FALSE]
  <2>1. o.res = "infra" /\ o.applied = FALSE
    BY <1>2
  <2> QED BY <2>1 DEF Results
<1>3. CASE o = [res |-> "infra", applied |-> verdict = "ok"]
  <2>1. o.res = "infra" /\ o.applied = (verdict = "ok")
    BY <1>3
  <2> QED BY <2>1 DEF Results
<1> QED BY <1>1, <1>2, <1>3 DEF Outcomes

\* Every check of a repository call concludes with a verdict.
LEMMA VerdictTypes ==
  ASSUME NEW e \in EventIds, NEW old, NEW new
  PROVE  /\ CasVerdict(e, old, new) \in Verdicts
         /\ FinalizeVerdict(e) \in Verdicts
         /\ FailureVerdict(e) \in Verdicts
         /\ FailureStatus(e) \in {"RETRYING", "FAILED"}
  BY DEF CasVerdict, FinalizeVerdict, FailureVerdict, FailureStatus, Verdicts

\* A new row is RECEIVED; nothing else changes.
LEMMA CreateEffect ==
  ASSUME StoreTypeOK, NEW e \in EventIds, NEW res, Create(e, res)
  PROVE  /\ StoreTypeOK'
         /\ UNCHANGED <<attempt, workerId, idempotency>>
         /\ \/ UNCHANGED status
            \/ status' = [status EXCEPT ![e] = "RECEIVED"]
         /\ res = "ok" => status' = [status EXCEPT ![e] = "RECEIVED"]
<1>1. PICK o \in Outcomes("ok", "live") :
        /\ res = o.res
        /\ status' = IF o.applied THEN [status EXCEPT ![e] = "RECEIVED"] ELSE status
  BY DEF Create
<1>2. /\ o.applied \in BOOLEAN
      /\ o.res # "infra" => o.applied
  BY OutcomeFacts DEF Verdicts
<1>3. UNCHANGED <<attempt, workerId, idempotency>>
  BY DEF Create
<1> QED BY <1>1, <1>2, <1>3 DEF StoreTypeOK, Statuses

\* Where the compare-and-set succeeds, the transition is in the table and the
\* row had the old status.
LEMMA CasOk ==
  ASSUME NEW e \in EventIds, NEW old, NEW new, CasVerdict(e, old, new) = "ok"
  PROVE  IsValidTransition(old, new) /\ status[e] = old
  BY DEF CasVerdict

\* A status update; the caller is told "ok" only if it was applied.
LEMMA UpdateStatusEffect ==
  ASSUME StoreTypeOK, NEW e \in EventIds, NEW old \in Statuses, NEW new \in Statuses,
         NEW res, UpdateStatus(e, old, new, res)
  PROVE  /\ StoreTypeOK'
         /\ UNCHANGED <<attempt, workerId, idempotency>>
         /\ \/ UNCHANGED status
            \/ /\ IsValidTransition(old, new) /\ status[e] = old
               /\ status' = [status EXCEPT ![e] = new]
<1>1. PICK o \in Outcomes(CasVerdict(e, old, new), "live") :
        /\ res = o.res
        /\ status' = IF o.applied THEN [status EXCEPT ![e] = new] ELSE status
  BY DEF UpdateStatus
<1>2. o.applied \in BOOLEAN /\ (o.applied => CasVerdict(e, old, new) = "ok")
  BY <1>1, OutcomeFacts, VerdictTypes
<1>3. UNCHANGED <<attempt, workerId, idempotency>>
  BY DEF UpdateStatus
<1> QED BY <1>1, <1>2, <1>3, CasOk DEF StoreTypeOK

\* An assignment; the caller is told "ok" only if it was applied.
LEMMA AssignEffect ==
  ASSUME StoreTypeOK, NEW e \in EventIds, NEW w, NEW old \in Statuses,
         NEW new \in Statuses, NEW ctx, NEW res, AssignEvent(e, w, old, new, ctx, res)
  PROVE  /\ StoreTypeOK'
         /\ UNCHANGED <<attempt, idempotency>>
         /\ \/ UNCHANGED <<status, workerId>>
            \/ /\ IsValidTransition(old, new) /\ status[e] = old
               /\ status' = [status EXCEPT ![e] = new]
               /\ workerId' = [workerId EXCEPT ![e] = ParsedWorkerID(w)]
         /\ res = "ok" => /\ status[e] = old
                          /\ status' = [status EXCEPT ![e] = new]
<1>1. PICK o \in Outcomes(CasVerdict(e, old, new), ctx) :
        /\ res = o.res
        /\ status' = IF o.applied THEN [status EXCEPT ![e] = new] ELSE status
        /\ workerId' = IF o.applied THEN [workerId EXCEPT ![e] = ParsedWorkerID(w)]
                                    ELSE workerId
  BY DEF AssignEvent
<1>2. /\ o.applied \in BOOLEAN /\ (o.applied => CasVerdict(e, old, new) = "ok")
      /\ o.res = "ok" => o.applied
  BY <1>1, OutcomeFacts, VerdictTypes
<1>3. UNCHANGED <<attempt, idempotency>>
  BY DEF AssignEvent
<1>4. ParsedWorkerID(w) \in Workers \cup {NULL}
  BY StoreAssumption DEF ParsedWorkerID
<1> QED BY <1>1, <1>2, <1>3, <1>4, CasOk DEF StoreTypeOK

\* A finalization either changes nothing, or completes a PROCESSING event
\* without an idempotency row and gives it one.
LEMMA FinalizeEffect ==
  ASSUME StoreTypeOK, NEW e \in EventIds, NEW res, FinalizeEvent(e, res)
  PROVE  /\ StoreTypeOK'
         /\ UNCHANGED <<attempt, workerId>>
         /\ \/ UNCHANGED <<status, idempotency>>
            \/ /\ status[e] = "PROCESSING" /\ e \notin idempotency
               /\ status' = [status EXCEPT ![e] = "COMPLETED"]
               /\ idempotency' = idempotency \cup {e}
<1>1. PICK o \in Outcomes(FinalizeVerdict(e), "live") :
        /\ res = o.res
        /\ status' = IF o.applied THEN [status EXCEPT ![e] = "COMPLETED"] ELSE status
        /\ idempotency' = IF o.applied THEN idempotency \cup {e} ELSE idempotency
  BY DEF FinalizeEvent
<1>2. o.applied \in BOOLEAN /\ (o.applied => FinalizeVerdict(e) = "ok")
  BY <1>1, OutcomeFacts, VerdictTypes
<1>3. UNCHANGED <<attempt, workerId>>
  BY DEF FinalizeEvent
<1>4. FinalizeVerdict(e) = "ok" => status[e] = "PROCESSING" /\ e \notin idempotency
  BY DEF FinalizeVerdict
<1> QED BY <1>1, <1>2, <1>3, <1>4 DEF StoreTypeOK, Statuses

\* A recorded failure moves a PROCESSING event to FailureStatus and counts
\* one attempt; the caller is told "ok" only if it was applied.
LEMMA FailureEffect ==
  ASSUME StoreTypeOK, NEW e \in EventIds, NEW res, RecordFailure(e, res)
  PROVE  /\ StoreTypeOK'
         /\ UNCHANGED <<workerId, idempotency>>
         /\ \/ UNCHANGED <<status, attempt>>
            \/ /\ status[e] = "PROCESSING"
               /\ status' = [status EXCEPT ![e] = FailureStatus(e)]
               /\ attempt' = [attempt EXCEPT ![e] = attempt[e] + 1]
         /\ res = "ok" => /\ status[e] = "PROCESSING"
                          /\ status' = [status EXCEPT ![e] = FailureStatus(e)]
                          /\ attempt' = [attempt EXCEPT ![e] = attempt[e] + 1]
<1>1. PICK o \in Outcomes(FailureVerdict(e), "live") :
        /\ res = o.res
        /\ status' = IF o.applied THEN [status EXCEPT ![e] = FailureStatus(e)] ELSE status
        /\ attempt' = IF o.applied THEN [attempt EXCEPT ![e] = @ + 1] ELSE attempt
  BY DEF RecordFailure
<1>2. /\ o.applied \in BOOLEAN /\ (o.applied => FailureVerdict(e) = "ok")
      /\ o.res = "ok" => o.applied
  BY <1>1, OutcomeFacts, VerdictTypes
<1>3. UNCHANGED <<workerId, idempotency>>
  BY DEF RecordFailure
<1>4. FailureVerdict(e) = "ok" => status[e] = "PROCESSING"
  BY DEF FailureVerdict
<1>5. FailureStatus(e) \in Statuses
  BY VerdictTypes DEF Statuses
<1> QED BY <1>1, <1>2, <1>3, <1>4, <1>5 DEF StoreTypeOK

-----------------------------------------------------------------------------
(* The queue.                                                              *)

\* The stream of a priority is one of the three.
LEMMA StreamOfType == \A e \in EventIds : StreamOf(e) \in Streams
BY DEF StreamOf, Streams

\* Appending keeps the entries there were, at their positions, and adds one.
LEMMA AppendFacts ==
  ASSUME NEW S, NEW q \in Seq(S), NEW x \in S
  PROVE  /\ Append(q, x) \in Seq(S)
         /\ Len(Append(q, x)) = Len(q) + 1
         /\ \A i \in DOMAIN q : i \in DOMAIN Append(q, x) /\ Append(q, x)[i] = q[i]
         /\ \A i \in DOMAIN Append(q, x) :
              Append(q, x)[i] = x \/ (i \in DOMAIN q /\ Append(q, x)[i] = q[i])
OBVIOUS

\* A publication appends one entry to one stream or does nothing; the caller
\* is told "ok" only if the entry was appended.
LEMMA PublishEffect ==
  ASSUME QueueTypeOK, NEW e \in EventIds, NEW a \in Nat, NEW res, Publish(e, a, res)
  PROVE  /\ QueueTypeOK'
         /\ UNCHANGED <<group, lastDelivered, pel>>
         /\ \/ UNCHANGED stream
            \/ stream' = [stream EXCEPT ![StreamOf(e)] =
                            Append(stream[StreamOf(e)], [event |-> e, attempt |-> a])]
         /\ res = "ok" =>
              stream' = [stream EXCEPT ![StreamOf(e)] =
                           Append(stream[StreamOf(e)], [event |-> e, attempt |-> a])]
<1> DEFINE x == [event |-> e, attempt |-> a]
           longer == [stream EXCEPT ![StreamOf(e)] = Append(stream[StreamOf(e)], x)]
<1>1. PICK o \in Outcomes("ok", "live") :
        /\ res = o.res
        /\ stream' = IF o.applied THEN longer ELSE stream
  BY DEF Publish
<1>2. o.res = "infra" \/ o.applied
  <2>1. o = [res |-> "ok", applied |-> "ok" = "ok"] \/ o.res = "infra"
    BY DEF Outcomes
  <2>2. ASSUME o = [res |-> "ok", applied |-> "ok" = "ok"] PROVE o.applied
    BY <2>2
  <2> QED BY <2>1, <2>2
<1>3. stream' = longer \/ UNCHANGED stream
  BY <1>1
<1>4. res = "ok" => stream' = longer
  BY <1>1, <1>2
<1>5. UNCHANGED <<group, lastDelivered, pel>>
  BY DEF Publish
<1>6. longer \in [Streams -> Seq(Entries)]
  <2>1. x \in Entries /\ stream[StreamOf(e)] \in Seq(Entries)
    BY StreamOfType DEF QueueTypeOK, Entries
  <2>2. Append(stream[StreamOf(e)], x) \in Seq(Entries)
    BY <2>1, AppendFacts
  <2> QED BY <2>2, StreamOfType DEF QueueTypeOK
<1>7. QueueTypeOK'
  BY <1>3, <1>5, <1>6 DEF QueueTypeOK
<1> HIDE DEF longer
<1> QED BY <1>3, <1>4, <1>5, <1>7 DEF longer

\* The job handed out is well typed, names the entry, and its receipt is new.
LEMMA DeliverEffect ==
  ASSUME QueueTypeOK, NEW s \in Streams, Deliver(s)
  PROVE  /\ QueueTypeOK'
         /\ NextJob(s) \in Jobs
         /\ NextJob(s).queue = s
         /\ NextJob(s).receipt = lastDelivered[s] + 1
         /\ NextJob(s).receipt \in DOMAIN stream[s]
         /\ NextJob(s).event = stream[s][NextJob(s).receipt].event
         /\ NextJob(s).attempt = stream[s][NextJob(s).receipt].attempt
         /\ UNCHANGED <<stream, group>>
         /\ lastDelivered' = [lastDelivered EXCEPT ![s] = lastDelivered[s] + 1]
         /\ pel' = pel \cup {<<s, lastDelivered[s] + 1>>}
<1> DEFINE i == lastDelivered[s] + 1
<1>1. /\ lastDelivered[s] \in Nat
      /\ stream[s] \in Seq(Entries)
      /\ lastDelivered[s] < Len(stream[s])
  BY DEF Deliver, QueueTypeOK
<1>2. i \in DOMAIN stream[s] /\ i \in Nat /\ stream[s][i] \in Entries
  BY <1>1
<1>3. /\ NextJob(s) = [event |-> stream[s][i].event, attempt |-> stream[s][i].attempt,
                       queue |-> s, receipt |-> i]
      /\ NextJob(s) \in Jobs
  BY <1>2 DEF NextJob, Jobs, Entries
<1>4. QueueTypeOK'
  BY <1>2 DEF Deliver, QueueTypeOK
<1> QED BY <1>2, <1>3, <1>4 DEF Deliver

\* An acknowledgement removes at most the entry it names.
LEMMA AckEffect ==
  ASSUME QueueTypeOK, NEW j \in Jobs, NEW ctx, NEW res, Ack(j, ctx, res)
  PROVE  /\ QueueTypeOK'
         /\ UNCHANGED <<stream, group, lastDelivered>>
         /\ pel' = pel \/ pel' = pel \ {<<j.queue, j.receipt>>}
<1>1. PICK o \in Outcomes("ok", ctx) :
        pel' = IF o.applied THEN pel \ {<<j.queue, j.receipt>>} ELSE pel
  BY DEF Ack
<1> QED BY <1>1 DEF Ack, QueueTypeOK

\* Creating the group leaves the entries and the pending list alone.
LEMMA GroupEffect ==
  ASSUME QueueTypeOK, InitConsumerGroups
  PROVE  /\ QueueTypeOK'
         /\ UNCHANGED <<stream, pel>>
         /\ \A s \in Streams : lastDelivered'[s] \in {lastDelivered[s], Len(stream[s])}
BY DEF QueueTypeOK, InitConsumerGroups

=============================================================================
