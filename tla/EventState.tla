----------------------------- MODULE EventState -----------------------------
(***************************************************************************)
(* The event domain model of backend/internal/event: the lifecycle         *)
(* statuses, the transition table every repository call consults, and the  *)
(* validation of an incoming request.  No state: pure operators.           *)
(***************************************************************************)
EXTENDS Naturals

CONSTANT EventIds   \* ids the API may give to events (uuid.New)

Statuses == {"RECEIVED", "QUEUED", "PROCESSING", "COMPLETED", "RETRYING", "FAILED"}

\* No row with this id exists in the events table.
Absent == "ABSENT"

validTransitions ==
  [RECEIVED   |-> {"QUEUED"},
   QUEUED     |-> {"PROCESSING"},
   PROCESSING |-> {"COMPLETED", "RETRYING", "FAILED", "QUEUED"},
   RETRYING   |-> {"QUEUED"},
   COMPLETED  |-> {},
   FAILED     |-> {}]

IsValidTransition(from, to) ==
  from \in DOMAIN validTransitions /\ to \in validTransitions[from]

\* The statuses no transition leaves.
Terminal == {"COMPLETED", "FAILED"}

-----------------------------------------------------------------------------
EventTypes == {"ORDER_CREATED", "PAYMENT_SUCCESS", "PAYMENT_FAILED",
               "INVENTORY_UPDATED", "ORDER_CANCELLED", "USER_REGISTERED"}

PriorityLow    == 1
PriorityNormal == 5
PriorityHigh   == 10

\* A request as the handler sees it: whether its body decodes, and the three
\* fields Validate looks at.  A payload is "json", "empty" or "invalid".
Requests == [decodes : BOOLEAN, type : EventTypes \cup {"OTHER"},
             priority : Nat, payload : {"json", "empty", "invalid"}]

Validate(r) ==
  /\ r.type \in EventTypes
  /\ r.priority \in {PriorityLow, PriorityNormal, PriorityHigh}
  /\ r.payload = "json"

=============================================================================
