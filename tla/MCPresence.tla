----------------------------- MODULE MCPresence -----------------------------
(***************************************************************************)
(* Small instances of Presence for TLC.                                    *)
(***************************************************************************)
EXTENDS Presence

CONSTANTS a, b, s, t, k1, k2, q, this
=============================================================================
