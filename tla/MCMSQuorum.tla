----------------------------- MODULE MCMSQuorum -----------------------------
(***************************************************************************)
(* Signatures collected under a configuration that setConfig of            *)
(* contracts/contracts/mcms/mcms.tolk accepted, and what setRoot would     *)
(* make of them.                                                           *)
(***************************************************************************)
EXTENDS MCMSGroups

CONSTANT VoteConfigs    \* the messages MCMS_SetConfig

ASSUME VoteConfigsAssumption == \A c \in VoteConfigs : ConfigTypeOK(c)

VARIABLES
    candidate,      \* the accepted configuration
    voters          \* the signers whose signatures were collected

\* One configuration per behaviour: module MCMS has the changes of it.
acceptConfig(c) ==
    /\ candidate = EmptyConfig
    /\ ValidConfig(c)
    /\ candidate' = c
    /\ UNCHANGED voters

Sign(signer) ==
    /\ signer \notin voters
    /\ voters' = voters \cup {signer}
    /\ UNCHANGED candidate

\* Every call of setRoot counts from zero.
Recount ==
    /\ voters # {}
    /\ voters' = {}
    /\ UNCHANGED candidate

VotesInit == candidate = EmptyConfig /\ voters = {}

VotesNext ==
    \/ \E c \in VoteConfigs : acceptConfig(c)
    \/ \E signer \in SignersOf(candidate) : Sign(signer)
    \/ Recount

VotesSpec == VotesInit /\ [][VotesNext]_<<candidate, voters>>

\* The root group reaches its quorum in setRoot iff it is successful in the
\* sense of the documentation of Config.
RootReachedIffSuccessful ==
    RootGroupReached(candidate, voters) <=> Successful(candidate, voters, 0)

\* A configuration setConfig accepts is usable: its root group is enabled, and
\* if everybody signs the root is reached.
AllSignersSuffice ==
    candidate # EmptyConfig /\ voters = SignersOf(candidate) => RootGroupReached(candidate, voters)

=============================================================================
