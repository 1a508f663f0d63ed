---------------------------- MODULE MC_EventLog ----------------------------
(* Two goroutines of a run and the server's handler over one execution's    *)
(* log.                                                                     *)
EXTENDS EventLog

CONSTANTS g1, g2

Goroutines == {g1, g2}

=============================================================================
