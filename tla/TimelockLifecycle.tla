------------------------- MODULE TimelockLifecycle -------------------------
(***************************************************************************)
(* What the timelock promises whoever watches an operation (the doc of     *)
(* contracts/contracts/mcms/rbac_timelock.tolk): its calls are announced   *)
(* with a date before which they are not released, may be withdrawn until  *)
(* they are released, and are released once.  Roles, blocked selectors,    *)
(* the minimum delay and the encoding of the state in a timestamp are the  *)
(* business of the implementation.                                         *)
(***************************************************************************)
EXTENDS Naturals

CONSTANTS Op, FirstTime

VARIABLES
    clock,
    phase,      \* "unset", "announced" or "released"
    due         \* the date of an announced operation, 0 for any other

lifecycleVars == <<clock, phase, due>>

Init ==
    /\ clock = FirstTime
    /\ phase = [op \in Op |-> "unset"]
    /\ due = [op \in Op |-> 0]

Pass ==
    /\ clock' = clock + 1
    /\ UNCHANGED <<phase, due>>

Announce(op) ==
    /\ phase[op] = "unset"
    /\ phase' = [phase EXCEPT ![op] = "announced"]
    /\ due'[op] >= clock
    /\ due' = [due EXCEPT ![op] = due'[op]]
    /\ UNCHANGED clock

Withdraw(op) ==
    /\ phase[op] = "announced"
    /\ phase' = [phase EXCEPT ![op] = "unset"]
    /\ due' = [due EXCEPT ![op] = 0]
    /\ UNCHANGED clock

Release(op) ==
    /\ phase[op] = "announced"
    /\ due[op] <= clock
    /\ phase' = [phase EXCEPT ![op] = "released"]
    /\ due' = [due EXCEPT ![op] = 0]
    /\ UNCHANGED clock

Next ==
    \/ Pass
    \/ \E op \in Op : Announce(op) \/ Withdraw(op) \/ Release(op)

Spec == Init /\ [][Next]_lifecycleVars

=============================================================================
