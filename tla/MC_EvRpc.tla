----------------------------- MODULE MC_EvRpc -----------------------------
(* Small instance of EvRpc: two connections, three timer nodes of which one *)
(* is pre-allocated, a tick of two seconds, a ring of three slots.         *)
EXTENDS EvRpc

CONSTANTS e1, e2, n1, n2, n3

MCData  == {e1, e2}
MCNodes == {n1, n2, n3}

\* Seconds that may pass between two readings of the clock.
MCSteps == {1, 2}
============================================================================
