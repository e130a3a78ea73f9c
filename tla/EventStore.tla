----------------------------- MODULE EventStore -----------------------------
(***************************************************************************)
(* The event repository over PostgreSQL (store/postgres/event_repo.go):    *)
(* the columns of the events table the program's decisions depend on, the  *)
(* idempotency table, and one operator per repository call.  Every call is *)
(* one SQL transaction that locks the row (SELECT ... FOR UPDATE), hence   *)
(* one atomic step; res is what the caller gets back.                      *)
(***************************************************************************)
EXTENDS EventState, Infra

CONSTANTS
  Workers,       \* worker names, as passed to NewWorker
  UUIDWorkers,   \* those names uuid.Parse accepts; {} for the names of NewPool
  MaxAttempts    \* maxAttempts of the worker pool

ASSUME StoreAssumption ==
  /\ UUIDWorkers \subseteq Workers
  /\ NULL \notin Workers
  /\ MaxAttempts \in Nat \ {0}

VARIABLES
  status,        \* events.status, Absent when there is no row
  attempt,       \* events.attempt
  workerId,      \* events.worker_id, NULL when unset
  idempotency    \* ids with a row in the idempotency table

storeVars == <<status, attempt, workerId, idempotency>>

StoreTypeOK ==
  /\ status \in [EventIds -> Statuses \cup {Absent}]
  /\ attempt \in [EventIds -> Nat]
  /\ workerId \in [EventIds -> Workers \cup {NULL}]
  /\ idempotency \subseteq EventIds

StoreInit ==
  /\ status = [e \in EventIds |-> Absent]
  /\ attempt = [e \in EventIds |-> 0]
  /\ workerId = [e \in EventIds |-> NULL]
  /\ idempotency = {}

-----------------------------------------------------------------------------
\* INSERT of a new row: status RECEIVED, attempt 0, no worker.
Create(e, res) ==
  \E o \in Outcomes("ok", "live") :
    /\ res = o.res
    /\ status' = IF o.applied THEN [status EXCEPT ![e] = "RECEIVED"] ELSE status
    /\ UNCHANGED <<attempt, workerId, idempotency>>

\* Mutation: the row's current status is not compared.
CasVerdict_NoCheck(e, old, new) ==
  IF ~IsValidTransition(old, new) THEN "ErrInvalidStateTransition"
  ELSE IF status[e] = Absent THEN "ErrEventNotFound"
  ELSE "ok"

\* What the compare-and-set of the status from old to new concludes.
CasVerdict(e, old, new) ==
  IF ~IsValidTransition(old, new) THEN "ErrInvalidStateTransition"
  ELSE IF status[e] = Absent THEN "ErrEventNotFound"
  ELSE IF status[e] # old THEN "ErrInvalidStateTransition"
  ELSE "ok"

\* Mutation: an UPDATE by id alone, without the check and its WHERE clause.
UpdateStatus_Blind(e, old, new, res) ==
  /\ res = "ok"
  /\ status' = [status EXCEPT ![e] = new]
  /\ UNCHANGED <<attempt, workerId, idempotency>>

UpdateStatus(e, old, new, res) ==
  \E o \in Outcomes(CasVerdict(e, old, new), "live") :
    /\ res = o.res
    /\ status' = IF o.applied THEN [status EXCEPT ![e] = new] ELSE status
    /\ UNCHANGED <<attempt, workerId, idempotency>>

\* The worker_id written for a worker's name: only names uuid.Parse accepts
\* are stored, any other name (and the empty one, here NULL) becomes NULL.
ParsedWorkerID(w) == IF w \in UUIDWorkers THEN w ELSE NULL

AssignEvent(e, w, old, new, ctx, res) ==
  \E o \in Outcomes(CasVerdict(e, old, new), ctx) :
    /\ res = o.res
    /\ status' = IF o.applied THEN [status EXCEPT ![e] = new] ELSE status
    /\ workerId' = IF o.applied THEN [workerId EXCEPT ![e] = ParsedWorkerID(w)]
                                ELSE workerId
    /\ UNCHANGED <<attempt, idempotency>>

\* The event must be PROCESSING, and the insert into idempotency must be the
\* first one for this id.
FinalizeVerdict(e) ==
  IF status[e] = Absent THEN "ErrEventNotFound"
  ELSE IF status[e] = "COMPLETED" THEN "ErrAlreadyFinalized"
  ELSE IF status[e] # "PROCESSING" THEN "ErrInvalidStateTransition"
  ELSE IF e \in idempotency THEN "ErrAlreadyFinalized"
  ELSE "ok"

FinalizeEvent(e, res) ==
  \E o \in Outcomes(FinalizeVerdict(e), "live") :
    /\ res = o.res
    /\ status' = IF o.applied THEN [status EXCEPT ![e] = "COMPLETED"] ELSE status
    /\ idempotency' = IF o.applied THEN idempotency \cup {e} ELSE idempotency
    /\ UNCHANGED <<attempt, workerId>>

FailureVerdict(e) ==
  IF status[e] = Absent THEN "ErrEventNotFound"
  ELSE IF status[e] # "PROCESSING" THEN "ErrInvalidStateTransition"
  ELSE "ok"

\* Mutation: newAttempt <= maxAttempts.
FailureStatus_OffByOne(e) == IF attempt[e] + 1 <= MaxAttempts THEN "RETRYING" ELSE "FAILED"

\* The status RecordFailure moves to, returned to the caller together with a
\* nil error.
FailureStatus(e) == IF attempt[e] + 1 < MaxAttempts THEN "RETRYING" ELSE "FAILED"

RecordFailure(e, res) ==
  \E o \in Outcomes(FailureVerdict(e), "live") :
    /\ res = o.res
    /\ status' = IF o.applied THEN [status EXCEPT ![e] = FailureStatus(e)] ELSE status
    /\ attempt' = IF o.applied THEN [attempt EXCEPT ![e] = @ + 1] ELSE attempt
    /\ UNCHANGED <<workerId, idempotency>>

\* A row as GetStaleEvents returns it, and the rows in status st.  Which of
\* them are older than the cutoff is left to the caller's choice.
Rows == [event : EventIds, attempt : Nat, worker : Workers \cup {NULL}]

RowsIn(st) ==
  {[event |-> e, attempt |-> attempt[e], worker |-> workerId[e]] :
      e \in {x \in EventIds : status[x] = st}}

=============================================================================
