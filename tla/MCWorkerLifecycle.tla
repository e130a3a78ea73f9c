-------------------------- MODULE MCWorkerLifecycle --------------------------
(***************************************************************************)
(* Small instances of WorkerLifecycle for TLC.                             *)
(***************************************************************************)
EXTENDS WorkerLifecycle

CONSTANTS a, b, s, t
=============================================================================
