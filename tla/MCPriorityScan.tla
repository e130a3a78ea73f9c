--------------------------- MODULE MCPriorityScan ---------------------------
(***************************************************************************)
(* Small instances of PriorityScan for TLC.                                *)
(***************************************************************************)
EXTENDS PriorityScan, TLC

CONSTANTS e1, e2, w1, w2

Valid(p)  == [decodes |-> TRUE, type |-> "ORDER_CREATED", priority |-> p, payload |-> "json"]

\* e1 of high priority, the other of low priority, with a stream between them
\* that stays empty.
HighAndLow == [e \in EventIds |-> Valid(IF e = e1 THEN PriorityHigh ELSE PriorityLow)]

Symmetry == Permutations(Workers)
=============================================================================
