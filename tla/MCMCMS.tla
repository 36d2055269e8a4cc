------------------------------- MODULE MCMCMS -------------------------------
(***************************************************************************)
(* The contract with two roots over nonces 0 to 2, of which the second can *)
(* override the first or follow it, and configurations that share keys.    *)
(* Apart from it, the vote count for every configuration of some signers   *)
(* and groups: a behaviour is of the one or of the other.                  *)
(***************************************************************************)
EXTENDS MCMS, MCMSQuorum, TLC

CONSTANTS alice, bob, r1, r2, p, q, VOTE_QUORUM

VARIABLE subject

Quorums(top, sub) == [g \in Group |-> IF g = 0 THEN top ELSE IF g = 1 THEN sub ELSE 0]

\* Keys 1 and 2 together; key 1 with one of a group of 2 and 3; and, to be
\* refused, a signer in a disabled group.
MCConfigs ==
    {[signerKeys |-> <<1, 2>>, signerGroups |-> <<0, 0>>,
      groupQuorums |-> Quorums(2, 0), groupParents |-> [g \in Group |-> 0]],
     [signerKeys |-> <<1, 2, 3>>, signerGroups |-> <<0, 1, 1>>,
      groupQuorums |-> Quorums(2, 1), groupParents |-> [g \in Group |-> 0]],
     [signerKeys |-> <<1, 3>>, signerGroups |-> <<0, 1>>,
      groupQuorums |-> Quorums(1, 0), groupParents |-> [g \in Group |-> 0]]}

Leaf(pre, post, override) ==
    [here |-> TRUE, preOpCount |-> pre, postOpCount |-> post, overridePreviousRoot |-> override]

MCMetadataLeaves ==
    (r1 :> {Leaf(0, 2, FALSE), [Leaf(0, 1, TRUE) EXCEPT !.here = FALSE]})
        @@ (r2 :> {Leaf(1, 2, TRUE), Leaf(2, 3, FALSE)})

Ops(nonces, payload) == {[here |-> TRUE, nonce |-> n, payload |-> payload] : n \in nonces}

MCOpLeaves ==
    (r1 :> Ops({0, 1}, p) \cup {[here |-> FALSE, nonce |-> 0, payload |-> q]})
        @@ (r2 :> Ops({1, 2}, q))

-----------------------------------------------------------------------------
\* Well formed or not.
MCVoteConfigs ==
    UNION {[signerKeys : {[i \in 1 .. n |-> i]}, signerGroups : [1 .. n -> Group],
            groupQuorums : [Group -> 0 .. VOTE_QUORUM],
            groupParents : {f \in [Group -> Group] : f[0] = 0}] : n \in 1 .. MAX_NUM_SIGNERS}

MCInit == Init /\ VotesInit /\ subject \in {"contract", "votes"}

MCNext ==
    /\ UNCHANGED subject
    /\ \/ subject = "contract" /\ Next /\ UNCHANGED <<candidate, voters>>
       \/ subject = "votes" /\ VotesNext /\ UNCHANGED vars

MCSpec == MCInit /\ [][MCNext]_<<vars, subject, candidate, voters>>

=============================================================================
