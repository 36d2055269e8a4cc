---------------------------- MODULE Ownable2Step ----------------------------
(***************************************************************************)
(* The ownership trait of contracts/contracts/lib/access/                  *)
(* ownable_2step.tolk, part of MCMS and of every CCIP contract: the owner  *)
(* names a successor, who becomes owner by accepting.                      *)
(***************************************************************************)
CONSTANTS
    Address,
    NoAddress,      \* null
    Deployer        \* the owner a deployment puts in the initial storage

ASSUME OwnerAssumption == Deployer \in Address /\ NoAddress \notin Address

VARIABLES owner, pendingOwner

ownableVars == <<owner, pendingOwner>>

requireOwner(sender) == sender = owner

transferOwnership(sender, to) ==
    /\ requireOwner(sender)
    /\ to # owner
    /\ pendingOwner' = to
    /\ UNCHANGED owner

acceptOwnership(sender) ==
    /\ pendingOwner # NoAddress
    /\ sender = pendingOwner
    /\ owner' = sender
    /\ pendingOwner' = NoAddress

OwnableInit == owner = Deployer /\ pendingOwner = NoAddress

OwnableNext ==
    \E sender \in Address :
        \/ \E to \in Address : transferOwnership(sender, to)
        \/ acceptOwnership(sender)

OwnableTypeOK == owner \in Address /\ pendingOwner \in Address \cup {NoAddress}

\* Ownership is never on offer to whoever holds it, so an acceptance always
\* hands it over: transferOwnership refuses the owner, and accepting withdraws
\* the offer.
NeverOfferedToOwner == pendingOwner # owner

=============================================================================
