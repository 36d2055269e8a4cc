-------------------------- MODULE MCLiveIngestion ---------------------------
(***************************************************************************)
(* An emitter of TARGET events, a send of which may fail.  Bytes have two  *)
(* values, so that the counter takes two of them.                          *)
(***************************************************************************)
EXTENDS LiveIngestion

CONSTANTS a, b

x == <<0, 0, 1, 0>>

MCFilter == {[Name |-> "f", Address |-> a, EventTopic |-> x],
             [Name |-> "g", Address |-> b, EventTopic |-> x]}

MCOuts == {<<ExtOutLogBucket(x)>>, <<<< >>>>}

=============================================================================
