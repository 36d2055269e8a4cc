-------------------------- MODULE MCTraceTracking --------------------------
(***************************************************************************)
(* Two wallets, the second of which is not tracked, and one contract; a    *)
(* transaction sends up to two messages.                                   *)
(***************************************************************************)
EXTENDS TraceTracking

CONSTANTS w, v, c, skipped, external

MCDests == {<< >>, <<c, c>>, <<v, external, c>>}

=============================================================================
