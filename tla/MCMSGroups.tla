----------------------------- MODULE MCMSGroups -----------------------------
(***************************************************************************)
(* The signer groups of contracts/contracts/mcms/mcms.tolk: which group    *)
(* trees setConfig accepts, and how setRoot counts votes up the tree.      *)
(*                                                                         *)
(* A configuration c has, like the message MCMS_SetConfig, the sequences   *)
(* signerKeys and signerGroups and the quorum and parent of each group.    *)
(* A group without an entry in a dictionary reads 0 there, so both are     *)
(* total.  Votes and children are 8-bit in the code and at most            *)
(* MAX_NUM_SIGNERS + NUM_GROUPS, which is 232.                             *)
(***************************************************************************)
EXTENDS Naturals, Sequences, FiniteSets

CONSTANTS NUM_GROUPS, MAX_NUM_SIGNERS

ASSUME GroupsAssumption == NUM_GROUPS \in Nat \ {0} /\ MAX_NUM_SIGNERS \in Nat

Group == 0 .. NUM_GROUPS - 1

EmptyConfig ==
    [signerKeys |-> << >>, signerGroups |-> << >>,
     groupQuorums |-> [g \in Group |-> 0], groupParents |-> [g \in Group |-> 0]]

\* Keys, groups, quorums and parents are unsigned in the message.
ConfigTypeOK(c) ==
    /\ c.signerKeys \in Seq(Nat) /\ c.signerGroups \in Seq(Nat)
    /\ c.groupQuorums \in [Group -> Nat] /\ c.groupParents \in [Group -> Nat]

NoVotes == [g \in Group |-> 0]

-----------------------------------------------------------------------------
(* The validation of setConfig. *)

GroupTreeWellFormed(c) ==
    \A i \in Group : IF i = 0 THEN c.groupParents[i] = 0 ELSE c.groupParents[i] < i

\* The children of each group when the backwards loop comes to it: its signers
\* and, counted on the way, the enabled groups that have it as parent.
GroupChildrenCounts(c) ==
    LET after[i \in 0 .. NUM_GROUPS] ==
            IF i = NUM_GROUPS
            THEN [g \in Group |-> Cardinality({s \in DOMAIN c.signerGroups : c.signerGroups[s] = g})]
            ELSE IF c.groupQuorums[i] = 0 THEN after[i + 1]
            ELSE [after[i + 1] EXCEPT ![c.groupParents[i]] = @ + 1]
    IN  [i \in Group |-> after[i + 1][i]]

MutQuorumsUnchecked(c) == \A i \in Group : c.groupQuorums[i] = 0 => GroupChildrenCounts(c)[i] = 0

GroupQuorumsReachable(c) ==
    \A i \in Group :
        LET count == GroupChildrenCounts(c)[i]
        IN  IF c.groupQuorums[i] = 0 THEN count = 0 ELSE count >= c.groupQuorums[i]

SignerKeysIncreasing(c) ==
    \A i \in DOMAIN c.signerKeys :
        c.signerKeys[i] > IF i = 1 THEN 0 ELSE c.signerKeys[i - 1]

ValidConfig(c) ==
    /\ Len(c.signerKeys) \in 1 .. MAX_NUM_SIGNERS
    /\ Len(c.signerGroups) = Len(c.signerKeys)
    /\ \A i \in DOMAIN c.signerGroups : c.signerGroups[i] < NUM_GROUPS
    /\ GroupTreeWellFormed(c)
    /\ GroupQuorumsReachable(c)
    /\ SignerKeysIncreasing(c)

\* The signer records setConfig stores, once by key and once by index.
SignersOf(c) ==
    {[key |-> c.signerKeys[i], index |-> i - 1, group |-> c.signerGroups[i]] :
        i \in DOMAIN c.signerKeys}

-----------------------------------------------------------------------------
(* The vote count of setRoot. *)

\* One more vote in `group`.  It climbs to the parent only from a group that
\* has just hit its quorum, and stops at the root.
AddVote(c, votes, group) ==
    LET reached[g \in Group] ==
            IF votes[g] + 1 = c.groupQuorums[g] /\ g # 0
            THEN {g} \cup reached[c.groupParents[g]]
            ELSE {g}
    IN  [g \in Group |-> IF g \in reached[group] THEN votes[g] + 1 ELSE votes[g]]

\* The votes of a set of signers, counted in the order of their keys.
GroupVoteCounts(c, voters) ==
    LET count[S \in SUBSET voters] ==
            IF S = {} THEN NoVotes
            ELSE LET last == CHOOSE s \in S : \A r \in S : r.key <= s.key
                 IN  AddVote(c, count[S \ {last}], last.group)
    IN  count[voters]

MutQuorumExceeded(c, voters) ==
    /\ c.groupQuorums[0] # 0
    /\ GroupVoteCounts(c, voters)[0] > c.groupQuorums[0]

RootGroupReached(c, voters) ==
    /\ c.groupQuorums[0] # 0
    /\ GroupVoteCounts(c, voters)[0] >= c.groupQuorums[0]

-----------------------------------------------------------------------------
(* The documented meaning of a configuration. *)

\* How many children of each group are successful, where a signer is when it
\* voted and a group is when it is enabled and at least a quorum of its
\* children are.
SuccessfulChildren(c, voters) ==
    LET children[g \in Group] ==
            Cardinality({s \in voters : s.group = g}) +
            Cardinality({h \in g + 1 .. NUM_GROUPS - 1 :
                            /\ c.groupParents[h] = g
                            /\ c.groupQuorums[h] > 0
                            /\ children[h] >= c.groupQuorums[h]})
    IN  children

Successful(c, voters, g) ==
    c.groupQuorums[g] > 0 /\ SuccessfulChildren(c, voters)[g] >= c.groupQuorums[g]

=============================================================================
