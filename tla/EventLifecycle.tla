--------------------------- MODULE EventLifecycle ---------------------------
(***************************************************************************)
(* What the platform promises about each event, with the queue, the        *)
(* workers, the scheduler and their failures left out: it moves along the  *)
(* transition table, a failed attempt is counted exactly when the event    *)
(* leaves PROCESSING for RETRYING or FAILED, it fails for good exactly     *)
(* when MaxAttempts attempts have failed, and its result is recorded       *)
(* together with its completion, once.                                     *)
(***************************************************************************)
EXTENDS Naturals

CONSTANTS EventIds, MaxAttempts

VARIABLES
  status,      \* the lifecycle status of each event, "ABSENT" before it exists
  attempt,     \* failed attempts so far
  finalized    \* events whose result is recorded

vars == <<status, attempt, finalized>>

Init ==
  /\ status = [e \in EventIds |-> "ABSENT"]
  /\ attempt = [e \in EventIds |-> 0]
  /\ finalized = {}

Move(e, from, to) ==
  /\ status[e] = from
  /\ status' = [status EXCEPT ![e] = to]

Receive(e) == Move(e, "ABSENT", "RECEIVED") /\ UNCHANGED <<attempt, finalized>>

Enqueue(e) == Move(e, "RECEIVED", "QUEUED") /\ UNCHANGED <<attempt, finalized>>

Assign(e) == Move(e, "QUEUED", "PROCESSING") /\ UNCHANGED <<attempt, finalized>>

Complete(e) ==
  /\ Move(e, "PROCESSING", "COMPLETED")
  /\ e \notin finalized
  /\ finalized' = finalized \cup {e}
  /\ UNCHANGED attempt

Retry(e) ==
  /\ attempt[e] + 1 < MaxAttempts
  /\ Move(e, "PROCESSING", "RETRYING")
  /\ attempt' = [attempt EXCEPT ![e] = @ + 1]
  /\ UNCHANGED finalized

Fail(e) ==
  /\ attempt[e] + 1 = MaxAttempts
  /\ Move(e, "PROCESSING", "FAILED")
  /\ attempt' = [attempt EXCEPT ![e] = @ + 1]
  /\ UNCHANGED finalized

Requeue(e) ==
  /\ Move(e, "PROCESSING", "QUEUED") \/ Move(e, "RETRYING", "QUEUED")
  /\ UNCHANGED <<attempt, finalized>>

Next ==
  \E e \in EventIds :
    \/ Receive(e) \/ Enqueue(e) \/ Assign(e) \/ Complete(e)
    \/ Retry(e) \/ Fail(e) \/ Requeue(e)

Spec == Init /\ [][Next]_vars

=============================================================================
