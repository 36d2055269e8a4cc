------------------------------- MODULE Router -------------------------------
(***************************************************************************)
(* The Router of contracts/contracts/ccip/router.tolk, which forwards      *)
(* users' messages to the OnRamp.  Its owner never changes: the contract   *)
(* handles no ownership message.                                           *)
(*                                                                         *)
(* Sends are numbered in the order in which the Router handles them; the   *)
(* number is not part of the message and no contract reads it.             *)
(***************************************************************************)
EXTENDS CCIPBase

CONSTANTS RouterAddr, RouterOwner, Ramp, MaxSends

VARIABLES
    onRamp,             \* st.onRamp
    sends               \* history: the number of messages forwarded

onSetRamp(sender, ramp) ==
    /\ sender = RouterOwner
    /\ onRamp' = ramp
    /\ UNCHANGED <<channel, sends>>

ccipSend(msg, sender) ==
    /\ sends < MaxSends
    /\ channel' = Sent(channel, RouterAddr, onRamp, [id |-> sends + 1, sender |-> sender, msg |-> msg])
    /\ sends' = sends + 1
    /\ UNCHANGED onRamp

\* CCIPSend comes from the user.
onSend(msg, sender) == ccipSend(msg, sender)

\* A jetton wallet relays the user's CCIPSend, naming the user.  Neither the
\* wallet nor the amount is checked, and a notification without a payload throws.
onTransferNotification(notification, wallet) ==
    /\ notification.forwardPayload # Absent
    /\ ccipSend(notification.forwardPayload, notification.sender)

RouterInit ==
    /\ onRamp \in Ramp
    /\ sends = 0

=============================================================================
