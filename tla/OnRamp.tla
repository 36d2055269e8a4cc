------------------------------- MODULE OnRamp -------------------------------
(***************************************************************************)
(* The OnRamp of contracts/contracts/ccip/onramp.tolk: it has a message    *)
(* from the Router priced by the configured FeeQuoter and, when the quote  *)
(* arrives, numbers the message and emits CCIPMessageSent.                 *)
(*                                                                         *)
(* Left out of an entry of destChainConfigs is the address of the remote   *)
(* router, which is stored and never read.                                 *)
(***************************************************************************)
EXTENDS CCIPBase

CONSTANTS
    OnRampAddr, OnRampOwner,
    ForwardingRouter,           \* st.router, which no message changes
    Quoter                      \* addresses of fee quoters

VARIABLES
    feeQuoter,                  \* config.feeQuoter
    dests,                      \* destChainConfigs: [Dest -> entry or Absent]
    emitted                     \* the CCIPMessageSent events, per destination

rampVars == <<feeQuoter, dests, emitted>>

-----------------------------------------------------------------------------
(* send and onMessageValidated: m is the message, from its sender. *)

\* The allowlist is consulted for the sender of the message, the Router.
MaySend(m, from) ==
    /\ from = ForwardingRouter
    /\ dests[m.msg.dest] # Absent
    /\ dests[m.msg.dest].allowlistEnabled => from \in dests[m.msg.dest].allowedSenders

MutAsksTwice(from) ==
    LET m == NextIn(from, OnRampAddr)
    IN  /\ Pending(from, OnRampAddr)
        /\ MaySend(m, from)
        /\ channel' = Sent(Sent(Taken(from, OnRampAddr), OnRampAddr, feeQuoter, m), OnRampAddr, feeQuoter, m)
        /\ UNCHANGED rampVars

send(from) ==
    /\ Pending(from, OnRampAddr)
    /\ MaySend(NextIn(from, OnRampAddr), from)
    /\ channel' = Sent(Taken(from, OnRampAddr), OnRampAddr, feeQuoter, NextIn(from, OnRampAddr))
    /\ UNCHANGED rampVars

MayEmit(m, from) ==
    /\ from = feeQuoter
    /\ dests[m.msg.dest] # Absent

Event(m, from) ==
    [sequenceNumber |-> dests[m.msg.dest].sequenceNumber, id |-> m.id, sender |-> m.sender,
     feeTokenAmount |-> m.fee, quoter |-> from]

onMessageValidated(from) ==
    LET m == NextIn(from, OnRampAddr)
    IN  /\ Pending(from, OnRampAddr)
        /\ MayEmit(m, from)
        /\ dests' = [dests EXCEPT ![m.msg.dest].sequenceNumber = @ + 1]
        /\ emitted' = [emitted EXCEPT ![m.msg.dest] = Append(@, Event(m, from))]
        /\ channel' = Taken(from, OnRampAddr)
        /\ UNCHANGED feeQuoter

-----------------------------------------------------------------------------
(* Messages of the owner. *)

SetDynamicConfig(sender, quoter) ==
    /\ sender = OnRampOwner
    /\ feeQuoter' = quoter
    /\ UNCHANGED <<channel, dests, emitted>>

NewDest(enabled) == [sequenceNumber |-> 0, allowlistEnabled |-> enabled, allowedSenders |-> {}]

MutUpdateResets(sender, updates) ==
    /\ sender = OnRampOwner
    /\ dests' = [d \in Dest |-> IF d \in DOMAIN updates THEN NewDest(updates[d]) ELSE dests[d]]
    /\ UNCHANGED <<channel, feeQuoter, emitted>>

\* updates gives allowlistEnabled for the destinations it names.
applyDestChainConfigUpdates(sender, updates) ==
    /\ sender = OnRampOwner
    /\ dests' = [d \in Dest |->
            IF d \notin DOMAIN updates THEN dests[d]
            ELSE IF dests[d] = Absent THEN NewDest(updates[d])
            ELSE [sequenceNumber |-> dests[d].sequenceNumber, allowlistEnabled |-> updates[d],
                  allowedSenders |-> dests[d].allowedSenders]]
    /\ UNCHANGED <<channel, feeQuoter, emitted>>

\* updates gives the senders to add and then to remove, per destination; one
\* destination without an entry makes the whole message throw.
applyAllowlistUpdates(sender, updates) ==
    /\ sender = OnRampOwner
    /\ \A d \in DOMAIN updates : dests[d] # Absent
    /\ dests' = [d \in Dest |->
            IF d \notin DOMAIN updates THEN dests[d]
            ELSE [sequenceNumber |-> dests[d].sequenceNumber,
                  allowlistEnabled |-> dests[d].allowlistEnabled,
                  allowedSenders |->
                      (dests[d].allowedSenders \cup updates[d].add) \ updates[d].remove]]
    /\ UNCHANGED <<channel, feeQuoter, emitted>>

RampInit ==
    /\ feeQuoter \in Quoter
    /\ dests = [d \in Dest |-> Absent]
    /\ emitted = [d \in Dest |-> << >>]

=============================================================================
