------------------------------ MODULE CCIPBase ------------------------------
(***************************************************************************)
(* What the CCIP contracts share: dictionaries, and the messages between   *)
(* contracts.                                                              *)
(*                                                                         *)
(* A dictionary maps the keys it has no entry for to Absent.  A vector or  *)
(* dictionary of updates is a function on the keys it names.               *)
(*                                                                         *)
(* TON delivers the messages from one contract to another in the order in  *)
(* which they were sent, each in a transaction of its own.  A transaction  *)
(* that throws changes nothing, and no CCIP contract acts on the bounce    *)
(* that results: the message is gone.                                      *)
(***************************************************************************)
EXTENDS Naturals, Sequences

CONSTANTS
    Token, Dest,                \* token addresses, destination chain selectors
    Absent,
    Link                        \* the <<sender, receiver>> pairs followed

VARIABLE channel                \* [Link -> the messages in flight]

Update(dict, changes) == [k \in DOMAIN dict |-> IF k \in DOMAIN changes THEN changes[k] ELSE dict[k]]

Remove(dict, keys) == [k \in DOMAIN dict |-> IF k \in keys THEN Absent ELSE dict[k]]

NothingSent == channel = [l \in Link |-> << >>]

Pending(from, to) == channel[<<from, to>>] # << >>

NextIn(from, to) == Head(channel[<<from, to>>])

\* What is in flight once the transaction has taken its message, and once it
\* has sent one too.  What is sent along no link leaves the model.
Taken(from, to) == [channel EXCEPT ![<<from, to>>] = Tail(@)]

Sent(flying, from, to, m) ==
    [l \in Link |-> IF l = <<from, to>> THEN Append(flying[l], m) ELSE flying[l]]

=============================================================================
