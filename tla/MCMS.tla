-------------------------------- MODULE MCMS --------------------------------
(***************************************************************************)
(* The many-chain multi-sig of contracts/contracts/mcms/mcms.tolk.         *)
(*                                                                         *)
(* Hashes are taken to be free of collisions.  A signed hash is then the   *)
(* pair (root, validUntil), and a Merkle proof verifies iff the leaf is    *)
(* in the tree of the root: MetadataLeaves and OpLeaves give the leaves.   *)
(* Leaves meant for another chain or another multi-sig have here = FALSE.  *)
(* A message setRoot carries signatures in strictly increasing order of    *)
(* their keys, so they are the set of the keys.  Replies are left out.     *)
(***************************************************************************)
EXTENDS MCMSGroups, Ownable2Step

CONSTANTS
    Key,            \* public keys, naturals above 0
    Configs,        \* messages MCMS_SetConfig
    Root,           \* Merkle roots, other than the empty root
    NoRoot,         \* the empty root, 0
    MetadataLeaves, \* [Root -> SUBSET Metadata]
    OpLeaves,       \* [Root -> SUBSET OpLeaf]
    Payload,        \* targets and bodies of ops
    Expiry,         \* the values of validUntil
    StartTime,
    MaxTime         \* bound on the clock

VARIABLES
    now,
    signers,                \* data.signers: the signer record of a key
    config,                 \* data.config, as the message that set it
    seenSignedHashes,
    root, validUntil,
    opCount,                \* with root and validUntil: expiringRootAndOpCount
    rootMetadata,
    executed,               \* the ops sent to their targets, in order
    approval,               \* history: who signed the current root, under which config
    rootLog                 \* history: the roots set and cleared, in order

mcmsVars ==
    <<now, signers, config, seenSignedHashes, root, validUntil, opCount, rootMetadata,
      executed, approval, rootLog>>

vars == <<mcmsVars, ownableVars>>

Metadata == [here : BOOLEAN, preOpCount : Nat, postOpCount : Nat, overridePreviousRoot : BOOLEAN]
OpLeaf == [here : BOOLEAN, nonce : Nat, payload : Payload]

ASSUME LeavesAssumption ==
    /\ NoRoot \notin Root
    /\ MetadataLeaves \in [Root -> SUBSET Metadata]
    /\ OpLeaves \in [Root -> SUBSET OpLeaf]

ASSUME ConfigsAssumption == \A c \in Configs : ConfigTypeOK(c)

ASSUME ClockAssumption == StartTime \in Nat /\ MaxTime \in Nat /\ Expiry \subseteq Nat

Signer == [key : Nat, index : Nat, group : Nat]

NoApproval == [config |-> EmptyConfig, voters |-> {}]

RootEntry(r, expiry, metadata) == [root |-> r, validUntil |-> expiry, metadata |-> metadata]

-----------------------------------------------------------------------------
(* Message handlers. *)

MutSetTwice(r, expiry) == TRUE

NotSeen(r, expiry) == <<r, expiry>> \notin seenSignedHashes

\* The loop over the signatures and the check of the root group.
MutSignersOnly(keys) == keys # {} /\ \A key \in keys : \E s \in signers : s.key = key

QuorumSigned(keys) ==
    /\ \A key \in keys : \E s \in signers : s.key = key
    /\ RootGroupReached(config, {s \in signers : s.key \in keys})

MutPendingDropped(metadata) ==
    /\ metadata.preOpCount = opCount
    /\ metadata.preOpCount <= metadata.postOpCount

CountsFit(metadata) ==
    /\ opCount = rootMetadata.postOpCount \/ metadata.overridePreviousRoot
    /\ metadata.preOpCount = opCount
    /\ metadata.preOpCount <= metadata.postOpCount

setRoot(r, expiry, metadata, keys) ==
    /\ NotSeen(r, expiry)
    /\ expiry >= now
    /\ metadata \in MetadataLeaves[r]
    /\ metadata.here
    /\ CountsFit(metadata)
    /\ QuorumSigned(keys)
    /\ seenSignedHashes' = seenSignedHashes \cup {<<r, expiry>>}
    /\ root' = r
    /\ validUntil' = expiry
    /\ opCount' = metadata.preOpCount
    /\ rootMetadata' = metadata
    /\ rootLog' = Append(rootLog, RootEntry(r, expiry, metadata))
    /\ approval' = [config |-> config, voters |-> {s \in signers : s.key \in keys}]
    /\ UNCHANGED <<now, signers, config, executed, ownableVars>>

MutExpiredExecutes(op) ==
    /\ rootMetadata.postOpCount > opCount
    /\ op.here
    /\ op.nonce = opCount
    /\ root # NoRoot /\ op \in OpLeaves[root]

MutAnyNonce(op) ==
    /\ rootMetadata.postOpCount > opCount
    /\ op.here
    /\ now <= validUntil
    /\ root # NoRoot /\ op \in OpLeaves[root]

Executable(op) ==
    /\ rootMetadata.postOpCount > opCount
    /\ op.here
    /\ now <= validUntil
    /\ op.nonce = opCount
    /\ root # NoRoot /\ op \in OpLeaves[root]

execute(op) ==
    /\ Executable(op)
    /\ opCount' = opCount + 1
    /\ executed' = Append(executed, [op |-> op, at |-> now, under |-> Len(rootLog)])
    /\ UNCHANGED <<now, signers, config, seenSignedHashes, root, validUntil, rootMetadata,
                   approval, rootLog, ownableVars>>

ClearedMetadata ==
    [here |-> TRUE, preOpCount |-> opCount, postOpCount |-> opCount, overridePreviousRoot |-> TRUE]

ClearRoot ==
    /\ root' = NoRoot
    /\ validUntil' = 0
    /\ UNCHANGED opCount
    /\ rootMetadata' = ClearedMetadata
    /\ rootLog' = IF root = NoRoot THEN rootLog
                  ELSE Append(rootLog, RootEntry(NoRoot, 0, ClearedMetadata))
    /\ approval' = NoApproval

\* The signers after removing those of the old configuration, by key, and
\* storing the new ones.
ReplaceSigners(c) ==
    {s \in signers : \A old \in SignersOf(config) : old.key # s.key} \cup SignersOf(c)

setConfig(sender, c, clearRoot) ==
    /\ requireOwner(sender)
    /\ ValidConfig(c)
    /\ signers' = ReplaceSigners(c)
    /\ config' = c
    /\ IF clearRoot THEN ClearRoot
       ELSE UNCHANGED <<root, validUntil, opCount, rootMetadata, approval, rootLog>>
    /\ UNCHANGED <<now, seenSignedHashes, executed, ownableVars>>

\* Any other message goes to the Ownable2Step trait.
ownableMessage == OwnableNext /\ UNCHANGED mcmsVars

Tick ==
    /\ now < MaxTime
    /\ now' = now + 1
    /\ UNCHANGED <<signers, config, seenSignedHashes, root, validUntil, opCount, rootMetadata,
                   executed, approval, rootLog, ownableVars>>

-----------------------------------------------------------------------------

Init ==
    /\ OwnableInit
    /\ now = StartTime
    /\ signers = {}
    /\ config = EmptyConfig
    /\ seenSignedHashes = {}
    /\ root = NoRoot /\ validUntil = 0 /\ opCount = 0
    /\ rootMetadata = [here |-> TRUE, preOpCount |-> 0, postOpCount |-> 0,
                       overridePreviousRoot |-> FALSE]
    /\ executed = << >>
    /\ approval = NoApproval
    /\ rootLog = << >>

Next ==
    \/ Tick
    \/ \E r \in Root, expiry \in Expiry, keys \in SUBSET Key :
          \E metadata \in MetadataLeaves[r] : setRoot(r, expiry, metadata, keys)
    \/ \E op \in UNION {OpLeaves[r] : r \in Root} : execute(op)
    \/ \E sender \in Address, c \in Configs, clearRoot \in BOOLEAN : setConfig(sender, c, clearRoot)
    \/ ownableMessage

Spec == Init /\ [][Next]_vars

-----------------------------------------------------------------------------
(* Properties. *)

\* Type invariant of the storage (struct MCMS_Data) and the histories.
TypeOK ==
    /\ OwnableTypeOK
    /\ now \in Nat
    /\ signers \subseteq Signer
    /\ config \in Configs \cup {EmptyConfig}
    /\ seenSignedHashes \subseteq Root \X Expiry
    /\ root \in Root \cup {NoRoot}
    /\ validUntil \in Nat
    /\ opCount \in Nat
    /\ rootMetadata \in Metadata
    /\ executed \in Seq([op : OpLeaf, at : Nat, under : Nat])
    /\ approval \in [config : Configs \cup {EmptyConfig}, voters : SUBSET Signer]
    /\ rootLog \in Seq([root : Root \cup {NoRoot}, validUntil : Nat, metadata : Metadata])

\* The signers setRoot looks up by key are those of the current configuration:
\* replacing a configuration leaves none of the old signers behind.
SignersMatchConfig == signers = SignersOf(config)

\* Ops are executed in the order of their nonces, every nonce once and none
\* left out, across all roots, overrides, clearings and reconfigurations.
NoncesContiguous ==
    /\ opCount = Len(executed)
    /\ \A i \in DOMAIN executed : executed[i].op.nonce = i - 1

\* Every executed op is a leaf of the root in force, for this contract, within
\* the range of nonces the root announced, and executed before it expired.
ExecutedUnderRoot ==
    \A i \in DOMAIN executed :
        LET e == executed[i]
            entry == rootLog[e.under]
        IN  /\ e.under \in DOMAIN rootLog
            /\ entry.root \in Root /\ e.op \in OpLeaves[entry.root] /\ e.op.here
            /\ e.op.nonce >= entry.metadata.preOpCount
            /\ e.op.nonce < entry.metadata.postOpCount
            /\ e.at <= entry.validUntil

\* The current root was set by signers who were, at that moment, members of
\* the configuration and made its root group successful.
RootSetByQuorum ==
    root # NoRoot =>
        /\ approval.voters \subseteq SignersOf(approval.config)
        /\ Successful(approval.config, approval.voters, 0)

\* Each (root, validUntil) tuple is set once, however many valid signatures
\* circulate for it.
RootsSetOnce ==
    \A i, j \in DOMAIN rootLog :
        rootLog[i].root # NoRoot /\ rootLog[i].root = rootLog[j].root
            /\ rootLog[i].validUntil = rootLog[j].validUntil => i = j

\* The counter stays within the range of the current root, and a cleared root
\* leaves nothing to execute.
OpCountInRange ==
    /\ rootMetadata.preOpCount <= opCount /\ opCount <= rootMetadata.postOpCount
    /\ root = NoRoot => opCount = rootMetadata.postOpCount

\* A root that does not override its predecessor starts where the predecessor
\* ends: no op of a signed root is skipped unless a later root, or the owner
\* clearing the root, says so.
SkippedOnlyByOverride ==
    \A i \in DOMAIN rootLog :
        i > 1 /\ ~rootLog[i].metadata.overridePreviousRoot =>
            rootLog[i].metadata.preOpCount = rootLog[i - 1].metadata.postOpCount

=============================================================================
