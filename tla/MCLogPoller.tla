---------------------------- MODULE MCLogPoller ----------------------------
(***************************************************************************)
(* Two accounts and two topics.  The pairs of the filters differ, and one  *)
(* name is registered for two of them in turn.  The addresses that carry   *)
(* the topics have prefixes of different lengths.                          *)
(***************************************************************************)
EXTENDS LogPoller

CONSTANTS a, b

x == <<0, 0, 0, 1>>
y == <<0, 0, 1, 0>>

Flt(name, address, topic) == [Name |-> name, Address |-> address, EventTopic |-> topic]

MCApart == {Flt("f", a, x), Flt("f", b, x), Flt("g", a, y)}

MCOuts == {<<<<1>> \o y, x>>}

=============================================================================
