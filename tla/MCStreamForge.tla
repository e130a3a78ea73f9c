---------------------------- MODULE MCStreamForge ----------------------------
(***************************************************************************)
(* Small instances of StreamForge for TLC.                                 *)
(***************************************************************************)
EXTENDS StreamForge, TLC

CONSTANTS e1, e2, w1, w2, s1, s2

Valid(p)  == [decodes |-> TRUE, type |-> "ORDER_CREATED", priority |-> p, payload |-> "json"]

\* One event, or several of the same priority.
OneStream == [e \in EventIds |-> Valid(PriorityHigh)]

\* e1 is valid, any other request is refused by one of the checks.
OneRefused ==
  [e \in EventIds |-> IF e = e1 THEN Valid(PriorityHigh)
                      ELSE [Valid(PriorityHigh) EXCEPT !.payload = "invalid"]]

\* Sound where every worker has the same rights, and every scheduler.
Symmetry == Permutations(Workers) \cup Permutations(Schedulers)
=============================================================================
