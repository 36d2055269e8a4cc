------------------------------- MODULE MCTxm -------------------------------
(***************************************************************************)
(* A channel of two and two attempts a request; the requests are told      *)
(* apart by a name, and one carries a StateInit that does not load.        *)
(***************************************************************************)
EXTENDS Txm

Req(name, loads) == [name |-> name, loads |-> loads]

MCRequests == {Req("p", TRUE), Req("q", TRUE), Req("r", FALSE)}

=============================================================================
