------------------------------ MODULE CCIPSend ------------------------------
(***************************************************************************)
(* Sending a cross-chain message: the Router forwards it to the OnRamp,    *)
(* the OnRamp asks the FeeQuoter for the fee, and the answer makes the     *)
(* OnRamp number and emit the message.                                     *)
(*                                                                         *)
(* The OnRamp can be pointed at another fee quoter while messages are in   *)
(* flight; of that contract only the protocol is known, it answers or it   *)
(* throws.  The Router can be pointed at another OnRamp in the same way.   *)
(***************************************************************************)
EXTENDS Router, OnRamp, FeeQuoter

CONSTANTS
    OtherQuoter, User, Wallet,
    UserMessages                \* of Messages, the ones that are sent

VARIABLE dropped        \* history: the sends that threw, or went to another OnRamp

vars == <<channel, onRamp, sends, rampVars, now, quoterVars, dropped>>

ASSUME AddressAssumption ==
    /\ ForwardingRouter = RouterAddr
    /\ Quoter = {FeeQuoterAddr, OtherQuoter}
    /\ Link = ({<<RouterAddr, OnRampAddr>>} \cup {<<OnRampAddr, q>> : q \in Quoter})
                  \cup {<<q, OnRampAddr>> : q \in Quoter}
    /\ RouterAddr # OnRampAddr /\ RouterAddr \notin Quoter /\ OnRampAddr \notin Quoter
    /\ FeeQuoterAddr # OtherQuoter
    /\ MaxSends \in Nat
    /\ UserMessages \subseteq Messages

DestEntry == [sequenceNumber : Nat, allowlistEnabled : BOOLEAN, allowedSenders : SUBSET {RouterAddr}]

\* The mark of a missing entry is not an entry.
ASSUME AbsentAssumption == Absent \notin DestEntry

-----------------------------------------------------------------------------
UserSends ==
    /\ \/ \E msg \in UserMessages, user \in User : onSend(msg, user)
       \/ \E msg \in UserMessages \cup {Absent}, user \in User, wallet \in Wallet :
              onTransferNotification([sender |-> user, forwardPayload |-> msg], wallet)
    /\ dropped' = IF onRamp = OnRampAddr THEN dropped ELSE dropped \cup {sends + 1}
    /\ UNCHANGED <<rampVars, now, quoterVars>>

\* A transaction that throws.
Throws(from, to) ==
    /\ channel' = Taken(from, to)
    /\ dropped' = dropped \cup {NextIn(from, to).id}
    /\ UNCHANGED <<onRamp, sends, rampVars, now, quoterVars>>

DeliverSend ==
    LET from == RouterAddr IN
    \/ send(from) /\ UNCHANGED <<onRamp, sends, now, quoterVars, dropped>>
    \/ /\ Pending(from, OnRampAddr)
       /\ ~MaySend(NextIn(from, OnRampAddr), from)
       /\ Throws(from, OnRampAddr)

DeliverValidated(quoter) ==
    \/ onMessageValidated(quoter) /\ UNCHANGED <<onRamp, sends, now, quoterVars, dropped>>
    \/ /\ Pending(quoter, OnRampAddr)
       /\ ~MayEmit(NextIn(quoter, OnRampAddr), quoter)
       /\ Throws(quoter, OnRampAddr)

MutQuoterSilent ==
    /\ Pending(OnRampAddr, FeeQuoterAddr)
    /\ channel' = Taken(OnRampAddr, FeeQuoterAddr)
    /\ UNCHANGED <<onRamp, sends, rampVars, now, quoterVars, dropped>>

MutRetriesLater ==
    \/ getValidatedFee(OnRampAddr) /\ UNCHANGED <<onRamp, sends, rampVars, dropped>>
    \/ /\ Pending(OnRampAddr, FeeQuoterAddr)
       /\ ~Quotable(NextIn(OnRampAddr, FeeQuoterAddr).msg)
       /\ channel' = Sent(Taken(OnRampAddr, FeeQuoterAddr), OnRampAddr, FeeQuoterAddr,
                          NextIn(OnRampAddr, FeeQuoterAddr))
       /\ UNCHANGED <<onRamp, sends, rampVars, now, quoterVars, dropped>>

DeliverGetValidatedFee ==
    \/ getValidatedFee(OnRampAddr) /\ UNCHANGED <<onRamp, sends, rampVars, dropped>>
    \/ /\ Pending(OnRampAddr, FeeQuoterAddr)
       /\ ~Quotable(NextIn(OnRampAddr, FeeQuoterAddr).msg)
       /\ Throws(OnRampAddr, FeeQuoterAddr)

OtherQuoterAnswers ==
    /\ Pending(OnRampAddr, OtherQuoter)
    /\ \/ LET m == NextIn(OnRampAddr, OtherQuoter) IN
          /\ channel' = Sent(Taken(OnRampAddr, OtherQuoter), OtherQuoter, OnRampAddr,
                             [id |-> m.id, sender |-> m.sender, msg |-> m.msg, fee |-> 0])
          /\ UNCHANGED <<onRamp, sends, rampVars, now, quoterVars, dropped>>
       \/ Throws(OnRampAddr, OtherQuoter)

Admin ==
    \E sender \in Sender :
        \/ \E ramp \in Ramp : onSetRamp(sender, ramp) /\ UNCHANGED <<rampVars, now, quoterVars, dropped>>
        \/ /\ \/ \E quoter \in Quoter : SetDynamicConfig(sender, quoter)
              \/ \E updates \in Entries(Dest, BOOLEAN) : applyDestChainConfigUpdates(sender, updates)
              \/ \E updates \in Entries(Dest, [add : SUBSET {RouterAddr}, remove : SUBSET {RouterAddr}]) :
                     applyAllowlistUpdates(sender, updates)
           /\ UNCHANGED <<onRamp, sends, now, quoterVars, dropped>>
        \/ QuoterStep(sender) /\ UNCHANGED <<onRamp, sends, rampVars, dropped>>

Init == NothingSent /\ RouterInit /\ RampInit /\ QuoterInit /\ dropped = {}

Next ==
    \/ UserSends
    \/ DeliverSend
    \/ \E quoter \in Quoter : DeliverValidated(quoter)
    \/ DeliverGetValidatedFee
    \/ OtherQuoterAnswers
    \/ Admin
    \/ Tick /\ UNCHANGED <<onRamp, sends, rampVars, dropped>>

\* Every message in flight is delivered.
Fairness ==
    /\ WF_vars(DeliverSend)
    /\ \A quoter \in Quoter : WF_vars(DeliverValidated(quoter))
    /\ WF_vars(DeliverGetValidatedFee)
    /\ WF_vars(OtherQuoterAnswers)

Spec == Init /\ [][Next]_vars

FairSpec == Spec /\ Fairness

-----------------------------------------------------------------------------
(* Properties. *)

\* The events of a destination are numbered 0, 1, 2, ... without gap or
\* repetition, and the counter of onMessageValidated is the next number:
\* updates of configuration and allowlist, throws and changes of fee quoter in
\* between cost no number.
SequenceContiguous ==
    \A d \in Dest :
        /\ \A i \in DOMAIN emitted[d] : emitted[d][i].sequenceNumber = i - 1
        /\ dests[d] = Absent => emitted[d] = << >>
        /\ dests[d] # Absent => dests[d].sequenceNumber = Len(emitted[d])

\* No send is emitted twice, for the same or another destination, and none
\* that threw is emitted.
EmittedOnce ==
    \A d \in Dest : \A i \in DOMAIN emitted[d] :
        /\ emitted[d][i].id \notin dropped
        /\ \A e \in Dest : \A j \in DOMAIN emitted[e] :
               emitted[d][i].id = emitted[e][j].id => d = e /\ i = j

\* Sends priced by the same fee quoter are emitted in the order in which the
\* Router handled them, although each passes four transactions and the OnRamp
\* may have been pointed at another quoter, and back, in between.
EmittedInOrder ==
    \A d \in Dest : \A i, j \in DOMAIN emitted[d] :
        i < j /\ emitted[d][i].quoter = emitted[d][j].quoter => emitted[d][i].id < emitted[d][j].id

\* A fee answer never names a destination that is unknown to onMessageValidated,
\* so it throws for one reason only: the OnRamp has since changed its fee quoter.
AnswersAreKnown ==
    \A q \in Quoter : \A i \in DOMAIN channel[<<q, OnRampAddr>>] :
        dests[channel[<<q, OnRampAddr>>][i].msg.dest] # Absent

EmittedIds == UNION {{emitted[d][i].id : i \in DOMAIN emitted[d]} : d \in Dest}

\* Every send is eventually emitted, or thrown by one of the contracts it passes.
EventuallySettled ==
    \A n \in 1 .. MaxSends : sends >= n ~> n \in EmittedIds \cup dropped

=============================================================================
