-------------------------- MODULE MCRecoveryTiming --------------------------
(***************************************************************************)
(* Small instances of RecoveryTiming for TLC.                              *)
(***************************************************************************)
EXTENDS RecoveryTiming

CONSTANTS e1, w1, w2, s1

Requested ==
  [e \in EventIds |-> [decodes |-> TRUE, type |-> "ORDER_CREATED",
                       priority |-> PriorityHigh, payload |-> "json"]]
=============================================================================
