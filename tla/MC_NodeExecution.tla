--------------------------- MODULE MC_NodeExecution ---------------------------
(* Two calls that share a cache key, with one transient retry and one for    *)
(* the contract.                                                             *)
EXTENDS NodeExecution

CONSTANTS p, q, x

Pair     == {p, q}
Produced == {x}

=============================================================================
