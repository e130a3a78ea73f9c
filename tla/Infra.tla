-------------------------------- MODULE Infra --------------------------------
(***************************************************************************)
(* What a call to PostgreSQL or Redis may answer, as the callers in        *)
(* backend/internal see it.  A call that reaches the server takes effect   *)
(* atomically (one SQL transaction, one Redis command) and returns the     *)
(* verdict of that transaction.  When the connection or the context fails  *)
(* the caller gets some other error, and cannot tell whether the effect    *)
(* happened: the request may have been lost, or only its reply.            *)
(***************************************************************************)
CONSTANTS
  MayFault,   \* connections to PostgreSQL and Redis may fail
  NULL        \* absence of a value: SQL NULL, Go nil

ASSUME MayFaultAssumption == MayFault \in BOOLEAN

Verdicts == {"ok", "ErrEventNotFound", "ErrInvalidStateTransition", "ErrAlreadyFinalized"}
Results  == Verdicts \cup {"infra"}

\* The context a call is made with: "live", or "done" once it was cancelled.
Contexts == {"live", "done"}

(***************************************************************************)
(* The possible outcomes of a call whose transaction would conclude with   *)
(* verdict: what the caller is told, and whether the effect was applied.   *)
(* With a cancelled context the client returns the context's error; the    *)
(* effect is then applied only if the command had already been sent.       *)
(***************************************************************************)
Outcomes(verdict, ctx) ==
  (IF ctx = "live" THEN {[res |-> verdict, applied |-> verdict = "ok"]} ELSE {})
  \cup
  (IF MayFault \/ ctx = "done"
   THEN {[res |-> "infra", applied |-> FALSE],
         [res |-> "infra", applied |-> verdict = "ok"]}
   ELSE {})

=============================================================================
