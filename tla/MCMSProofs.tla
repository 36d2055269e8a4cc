----------------------------- MODULE MCMSProofs -----------------------------
(***************************************************************************)
(* Proofs about the multisig.                                              *)
(*                                                                         *)
(* Module MCMS, for all sets of roots, leaves, keys, configurations and    *)
(* addresses: the roots, the ops and the configuration in force.           *)
(*                                                                         *)
(* Modules MCMSGroups and MCMSQuorum, for every number of groups and       *)
(* signers and every configuration: setRoot counts what the documentation  *)
(* of Config means, and setConfig accepts only configurations that can be  *)
(* used.                                                                   *)
(***************************************************************************)
EXTENDS MCMS, MCMSQuorum, RecursionProofs

-----------------------------------------------------------------------------
(* The contract. *)

\* The current root is the last one logged, unless it has been cleared; the end
\* of its range is that of the last entry in any case.
CurrentIsLogged ==
    /\ root # NoRoot =>
          /\ rootLog # << >>
          /\ rootLog[Len(rootLog)] = RootEntry(root, validUntil, rootMetadata)
    /\ rootLog # << >> =>
          rootLog[Len(rootLog)].metadata.postOpCount = rootMetadata.postOpCount

\* Every root ever set is remembered in seenSignedHashes.
LoggedIsSeen ==
    \A i \in DOMAIN rootLog :
        rootLog[i].root # NoRoot => <<rootLog[i].root, rootLog[i].validUntil>> \in seenSignedHashes

\* A configuration setConfig accepts.
Accepted(c) == ConfigTypeOK(c) /\ ValidConfig(c)

\* The configuration in force passed the checks of setConfig.
ConfigAccepted == config = EmptyConfig \/ Accepted(config)

\* The root was set under a configuration of that kind, and the signatures of
\* signers it lists reached the quorum of the root group.
RootReached ==
    root # NoRoot =>
        /\ approval.config = EmptyConfig \/ Accepted(approval.config)
        /\ approval.voters \subseteq SignersOf(approval.config)
        /\ RootGroupReached(approval.config, approval.voters)

IInv ==
    /\ TypeOK
    /\ ConfigAccepted
    /\ RootReached
    /\ NeverOfferedToOwner
    /\ SignersMatchConfig
    /\ NoncesContiguous
    /\ OpCountInRange
    /\ CurrentIsLogged
    /\ LoggedIsSeen
    /\ ExecutedUnderRoot
    /\ RootsSetOnce
    /\ SkippedOnlyByOverride

\* The signers stored for a configuration are well-typed.
LEMMA SignersOfType ==
    ASSUME NEW c \in Configs, ValidConfig(c)
    PROVE  SignersOf(c) \subseteq Signer
<1>1. /\ c.signerKeys \in Seq(Nat) /\ c.signerGroups \in Seq(Nat)
      /\ Len(c.signerGroups) = Len(c.signerKeys)
  BY ConfigsAssumption DEF ValidConfig, ConfigTypeOK
<1>2. ASSUME NEW i \in DOMAIN c.signerKeys
      PROVE  [key |-> c.signerKeys[i], index |-> i - 1, group |-> c.signerGroups[i]] \in Signer
  <2>1. i \in 1 .. Len(c.signerKeys) /\ i \in 1 .. Len(c.signerGroups)
    BY <1>1
  <2>2. c.signerKeys[i] \in Nat
    BY <1>1, <2>1
  <2>3. c.signerGroups[i] \in Nat
    BY <1>1, <2>1
  <2>4. i - 1 \in Nat
    BY <2>1
  <2> QED
    BY <2>2, <2>3, <2>4 DEF Signer
<1> QED
  BY <1>2 DEF SignersOf

\* A freshly deployed contract satisfies the inductive invariant.
LEMMA InitIInv == Init => IInv
<1> SUFFICES ASSUME Init PROVE IInv
  OBVIOUS
<1> USE DEF Init, OwnableInit
<1>1. TypeOK
  BY OwnerAssumption, ClockAssumption DEF TypeOK, OwnableTypeOK, NoApproval, Metadata
<1>2. NeverOfferedToOwner
  BY OwnerAssumption DEF NeverOfferedToOwner
<1>3. SignersMatchConfig
  BY DEF SignersMatchConfig, SignersOf, EmptyConfig
<1>4. NoncesContiguous /\ OpCountInRange
  BY DEF NoncesContiguous, OpCountInRange
<1>5. CurrentIsLogged /\ LoggedIsSeen
  BY DEF CurrentIsLogged, LoggedIsSeen
<1>6. ExecutedUnderRoot /\ RootsSetOnce /\ SkippedOnlyByOverride
  BY DEF ExecutedUnderRoot, RootsSetOnce, SkippedOnlyByOverride
<1>7. ConfigAccepted /\ RootReached
  BY DEF ConfigAccepted, RootReached
<1> QED
  BY <1>1, <1>2, <1>3, <1>4, <1>5, <1>6, <1>7 DEF IInv

\* Setting a root preserves the invariant.
LEMMA SetRootIInv ==
    ASSUME IInv, NEW r \in Root, NEW expiry \in Expiry, NEW keys \in SUBSET Key,
           NEW metadata \in MetadataLeaves[r], setRoot(r, expiry, metadata, keys)
    PROVE  IInv'
<1>1. metadata \in Metadata /\ expiry \in Nat
  BY LeavesAssumption, ClockAssumption
<1>2. /\ opCount' = opCount /\ metadata.preOpCount = opCount
      /\ metadata.preOpCount <= metadata.postOpCount
      /\ opCount = rootMetadata.postOpCount \/ metadata.overridePreviousRoot
  BY DEF setRoot, CountsFit
<1>3. rootLog' = Append(rootLog, RootEntry(r, expiry, metadata))
  BY DEF setRoot
<1>4. /\ rootLog \in Seq([root : Root \cup {NoRoot}, validUntil : Nat, metadata : Metadata])
      /\ RootEntry(r, expiry, metadata) \in
            [root : Root \cup {NoRoot}, validUntil : Nat, metadata : Metadata]
  BY <1>1 DEF IInv, TypeOK, RootEntry
<1>5. /\ Len(rootLog') = Len(rootLog) + 1
      /\ \A i \in DOMAIN rootLog : i \in DOMAIN rootLog' /\ rootLog'[i] = rootLog[i]
      /\ rootLog'[Len(rootLog')] = RootEntry(r, expiry, metadata)
      /\ \A i \in DOMAIN rootLog' : i \in DOMAIN rootLog \/ i = Len(rootLog')
      /\ DOMAIN rootLog = 1 .. Len(rootLog) /\ Len(rootLog) \in Nat
  BY <1>3, <1>4
<1>6. TypeOK'
  <2>1. {s \in signers : s.key \in keys} \subseteq Signer
    BY DEF IInv, TypeOK
  <2>2. approval' \in [config : Configs \cup {EmptyConfig}, voters : SUBSET Signer]
    BY <2>1 DEF setRoot, IInv, TypeOK
  <2>3. rootLog' \in Seq([root : Root \cup {NoRoot}, validUntil : Nat, metadata : Metadata])
    BY <1>3, <1>4
  <2>4. seenSignedHashes' \subseteq Root \X Expiry
    BY DEF setRoot, IInv, TypeOK
  <2> QED
    BY <1>1, <1>2, <2>2, <2>3, <2>4
    DEF setRoot, IInv, TypeOK, OwnableTypeOK, ownableVars
<1>7. NeverOfferedToOwner' /\ SignersMatchConfig' /\ NoncesContiguous'
  BY <1>2 DEF setRoot, IInv, NeverOfferedToOwner, SignersMatchConfig, NoncesContiguous, ownableVars
<1>8. OpCountInRange'
  BY <1>1, <1>2, LeavesAssumption DEF setRoot, OpCountInRange, Metadata, IInv, TypeOK
<1>9. CurrentIsLogged'
  <2>1. root' = r /\ validUntil' = expiry /\ rootMetadata' = metadata
    BY DEF setRoot
  <2>2. rootLog'[Len(rootLog')].metadata = metadata /\ rootLog' # << >>
    BY <1>5 DEF RootEntry
  <2> QED
    BY <1>5, <2>1, <2>2 DEF CurrentIsLogged, RootEntry
<1>10. LoggedIsSeen'
  <2>1. seenSignedHashes' = seenSignedHashes \cup {<<r, expiry>>}
    BY DEF setRoot
  <2>2. RootEntry(r, expiry, metadata).root = r /\ RootEntry(r, expiry, metadata).validUntil = expiry
    BY DEF RootEntry
  <2>3. LoggedIsSeen
    BY DEF IInv
  <2> QED
    BY <1>5, <2>1, <2>2, <2>3 DEF LoggedIsSeen
<1>11. ExecutedUnderRoot'
  <2>1. executed' = executed /\ ExecutedUnderRoot
    BY DEF setRoot, IInv
  <2> QED
    BY <1>5, <2>1 DEF ExecutedUnderRoot
<1>12. RootsSetOnce'
  <2>1. <<r, expiry>> \notin seenSignedHashes /\ LoggedIsSeen /\ RootsSetOnce
    BY DEF setRoot, NotSeen, IInv
  <2>2. RootEntry(r, expiry, metadata).root = r /\ RootEntry(r, expiry, metadata).validUntil = expiry
    BY DEF RootEntry
  <2> QED
    BY <1>5, <2>1, <2>2 DEF LoggedIsSeen, RootsSetOnce
<1>13. SkippedOnlyByOverride'
  <2>1. rootLog # << >> =>
            rootLog[Len(rootLog)].metadata.postOpCount = rootMetadata.postOpCount
    BY DEF IInv, CurrentIsLogged
  <2>2. ASSUME NEW i \in DOMAIN rootLog', i > 1, ~rootLog'[i].metadata.overridePreviousRoot
        PROVE  rootLog'[i].metadata.preOpCount = rootLog'[i - 1].metadata.postOpCount
    <3>1. CASE i \in DOMAIN rootLog
      <4>1. i - 1 \in DOMAIN rootLog
        BY <1>5, <2>2, <3>1
      <4>2. rootLog'[i] = rootLog[i] /\ rootLog'[i - 1] = rootLog[i - 1]
        BY <1>5, <3>1, <4>1
      <4>3. SkippedOnlyByOverride
        BY DEF IInv
      <4> QED
        BY <2>2, <3>1, <4>2, <4>3 DEF SkippedOnlyByOverride
    <3>2. CASE i = Len(rootLog')
      <4>1. i - 1 = Len(rootLog) /\ i - 1 \in DOMAIN rootLog /\ rootLog # << >>
        BY <1>4, <1>5, <2>2, <3>2
      <4> QED
        BY <1>2, <1>5, <2>1, <2>2, <3>2, <4>1 DEF RootEntry
    <3> QED
      BY <1>5, <2>2, <3>1, <3>2
  <2> QED
    BY <2>2 DEF SkippedOnlyByOverride
<1>14. ConfigAccepted' /\ RootReached'
  <2> DEFINE voted == {s \in signers : s.key \in keys}
  <2>1. /\ config' = config /\ approval' = [config |-> config, voters |-> voted]
        /\ RootGroupReached(config, voted)
    BY DEF setRoot, QuorumSigned
  <2>2. voted \subseteq SignersOf(config)
    BY DEF IInv, SignersMatchConfig
  <2> HIDE DEF voted
  <2>3. config = EmptyConfig \/ Accepted(config)
    BY DEF IInv, ConfigAccepted
  <2> QED
    BY <2>1, <2>2, <2>3 DEF ConfigAccepted, RootReached
<1> QED
  BY <1>6, <1>7, <1>8, <1>9, <1>10, <1>11, <1>12, <1>13, <1>14 DEF IInv

\* Executing an op preserves the invariant.
LEMMA ExecuteIInv ==
    ASSUME IInv, NEW op \in UNION {OpLeaves[r] : r \in Root}, execute(op)
    PROVE  IInv'
<1> DEFINE e == [op |-> op, at |-> now, under |-> Len(rootLog)]
<1>1. op \in OpLeaf
  BY LeavesAssumption
<1>2. /\ rootMetadata.postOpCount > opCount /\ op.here /\ now <= validUntil
      /\ op.nonce = opCount /\ root # NoRoot /\ op \in OpLeaves[root]
  BY DEF execute, Executable
<1>3. /\ opCount' = opCount + 1
      /\ executed' = Append(executed, e)
      /\ UNCHANGED <<now, signers, config, seenSignedHashes, root, validUntil, rootMetadata,
                     approval, rootLog, owner, pendingOwner>>
  BY DEF execute, ownableVars
<1>4. /\ executed \in Seq([op : OpLeaf, at : Nat, under : Nat])
      /\ Len(rootLog) \in Nat
      /\ e \in [op : OpLeaf, at : Nat, under : Nat]
  BY <1>1 DEF IInv, TypeOK
<1> HIDE DEF e
<1>5. /\ Len(executed') = Len(executed) + 1
      /\ \A i \in DOMAIN executed : i \in DOMAIN executed' /\ executed'[i] = executed[i]
      /\ executed'[Len(executed')] = e
      /\ \A i \in DOMAIN executed' : i \in DOMAIN executed \/ i = Len(executed')
      /\ Len(executed) \in Nat
  BY <1>3, <1>4
<1>6. TypeOK'
  <2>1. executed' \in Seq([op : OpLeaf, at : Nat, under : Nat])
    BY <1>3, <1>4
  <2> QED
    BY <1>3, <2>1 DEF IInv, TypeOK, OwnableTypeOK
<1>7. NeverOfferedToOwner' /\ SignersMatchConfig'
  BY <1>3 DEF IInv, NeverOfferedToOwner, SignersMatchConfig
<1>8. NoncesContiguous'
  BY <1>2, <1>3, <1>5 DEF IInv, NoncesContiguous, e
<1>9. OpCountInRange'
  BY <1>2, <1>3 DEF IInv, TypeOK, Metadata, OpCountInRange
<1>10. CurrentIsLogged' /\ LoggedIsSeen'
  <2>1. CurrentIsLogged /\ LoggedIsSeen
    BY Zenon DEF IInv
  <2> QED
    BY <1>3, <2>1 DEF CurrentIsLogged, LoggedIsSeen, RootEntry
<1>11. ExecutedUnderRoot'
  <2>1. /\ rootLog # << >> /\ Len(rootLog) \in DOMAIN rootLog
        /\ rootLog[Len(rootLog)] = RootEntry(root, validUntil, rootMetadata)
    BY <1>2, <1>4 DEF IInv, CurrentIsLogged, TypeOK
  <2>2. root \in Root /\ op.nonce >= rootMetadata.preOpCount
    BY <1>2 DEF IInv, TypeOK, OpCountInRange
  <2>3. op.nonce < rootMetadata.postOpCount
    BY <1>2 DEF IInv, TypeOK, Metadata
  <2>4. e.op = op /\ e.at = now /\ e.under = Len(rootLog)
    BY Zenon DEF e
  <2>5. ASSUME NEW i \in DOMAIN executed'
        PROVE  LET f == executed'[i]
                   entry == rootLog[f.under]
               IN  /\ f.under \in DOMAIN rootLog
                   /\ entry.root \in Root /\ f.op \in OpLeaves[entry.root] /\ f.op.here
                   /\ f.op.nonce >= entry.metadata.preOpCount
                   /\ f.op.nonce < entry.metadata.postOpCount
                   /\ f.at <= entry.validUntil
    <3>1. CASE i \in DOMAIN executed
      BY <1>5, <3>1 DEF IInv, ExecutedUnderRoot
    <3>2. CASE i = Len(executed')
      BY <1>2, <1>5, <2>1, <2>2, <2>3, <2>4, <3>2 DEF RootEntry
    <3> QED
      BY <1>5, <3>1, <3>2, Zenon
  <2> QED
    BY <1>3, <2>5 DEF ExecutedUnderRoot
<1>12. RootsSetOnce' /\ SkippedOnlyByOverride'
  BY <1>3 DEF IInv, RootsSetOnce, SkippedOnlyByOverride
<1>13. ConfigAccepted' /\ RootReached'
  BY <1>3 DEF IInv, ConfigAccepted, RootReached
<1> QED
  BY <1>6, <1>7, <1>8, <1>9, <1>10, <1>11, <1>12, <1>13 DEF IInv

\* Changing the configuration preserves the invariant, whether the root is
\* cleared with it or not.
LEMMA SetConfigIInv ==
    ASSUME IInv, NEW sender \in Address, NEW c \in Configs, NEW clearRoot \in BOOLEAN,
           setConfig(sender, c, clearRoot)
    PROVE  IInv'
<1>1. /\ ValidConfig(c) /\ signers' = ReplaceSigners(c) /\ config' = c
      /\ UNCHANGED <<now, seenSignedHashes, executed, owner, pendingOwner>>
  BY DEF setConfig, ownableVars
<1>2. signers' = SignersOf(c)
  BY <1>1 DEF ReplaceSigners, IInv, SignersMatchConfig
<1>3. SignersOf(c) \subseteq Signer
  BY <1>1, SignersOfType
<1>4. NeverOfferedToOwner' /\ SignersMatchConfig' /\ ConfigAccepted'
  BY <1>1, <1>2, ConfigsAssumption
  DEF IInv, NeverOfferedToOwner, SignersMatchConfig, ConfigAccepted, Accepted
<1>5. CASE ~clearRoot
  <2>1. UNCHANGED <<root, validUntil, opCount, rootMetadata, approval, rootLog>>
    BY <1>5 DEF setConfig
  <2>2. TypeOK'
    BY <1>1, <1>2, <1>3, <2>1, Zenon DEF IInv, TypeOK, OwnableTypeOK
  <2>3. NoncesContiguous' /\ OpCountInRange'
    BY <1>1, <2>1 DEF IInv, NoncesContiguous, OpCountInRange
  <2>4. CurrentIsLogged' /\ LoggedIsSeen'
    BY <1>1, <2>1 DEF IInv, CurrentIsLogged, LoggedIsSeen, RootEntry
  <2>6. RootsSetOnce' /\ SkippedOnlyByOverride'
    BY <2>1, Zenon DEF IInv, RootsSetOnce, SkippedOnlyByOverride
  <2>5. ExecutedUnderRoot' /\ RootReached'
    BY <1>1, <2>1 DEF IInv, ExecutedUnderRoot, RootReached
  <2> QED
    BY <1>4, <2>2, <2>3, <2>4, <2>5, <2>6 DEF IInv
<1>6. CASE clearRoot
  <2>1. /\ root' = NoRoot /\ validUntil' = 0 /\ opCount' = opCount
        /\ rootMetadata' = ClearedMetadata /\ approval' = NoApproval
        /\ rootLog' = IF root = NoRoot THEN rootLog
                      ELSE Append(rootLog, RootEntry(NoRoot, 0, ClearedMetadata))
    BY <1>6 DEF setConfig, ClearRoot
  <2>2. /\ ClearedMetadata \in Metadata
        /\ ClearedMetadata.preOpCount = opCount /\ ClearedMetadata.postOpCount = opCount
        /\ ClearedMetadata.overridePreviousRoot
    BY DEF ClearedMetadata, Metadata, IInv, TypeOK
  <2>3. /\ rootLog \in Seq([root : Root \cup {NoRoot}, validUntil : Nat, metadata : Metadata])
        /\ RootEntry(NoRoot, 0, ClearedMetadata) \in
              [root : Root \cup {NoRoot}, validUntil : Nat, metadata : Metadata]
    BY <2>2 DEF IInv, TypeOK, RootEntry
  <2>4. TypeOK'
    <3>1. rootLog' \in Seq([root : Root \cup {NoRoot}, validUntil : Nat, metadata : Metadata])
      <4>1. CASE root = NoRoot
        BY <2>1, <2>3, <4>1
      <4>2. CASE root # NoRoot
        <5>1. rootLog' = Append(rootLog, RootEntry(NoRoot, 0, ClearedMetadata))
          BY <2>1, <4>2
        <5> QED
          BY <2>3, <5>1
      <4> QED
        BY <4>1, <4>2
    <3>2. approval' \in [config : Configs \cup {EmptyConfig}, voters : SUBSET Signer]
      BY <2>1, Zenon DEF NoApproval
    <3> QED
      BY <1>1, <1>2, <1>3, <2>1, <2>2, <3>1, <3>2 DEF IInv, TypeOK, OwnableTypeOK
  <2>5. NoncesContiguous' /\ OpCountInRange' /\ RootReached'
    BY <1>1, <2>1, <2>2 DEF IInv, TypeOK, NoncesContiguous, OpCountInRange, RootReached
  <2>6. CASE root = NoRoot
    <3>1. rootLog' = rootLog /\ opCount = rootMetadata.postOpCount
      BY <2>1, <2>6 DEF IInv, OpCountInRange
    <3>2. CurrentIsLogged'
      BY <2>1, <2>2, <3>1 DEF IInv, CurrentIsLogged
    <3>3. LoggedIsSeen'
      BY <1>1, <3>1 DEF IInv, LoggedIsSeen
    <3>5. RootsSetOnce' /\ SkippedOnlyByOverride'
      BY <3>1, Zenon DEF IInv, RootsSetOnce, SkippedOnlyByOverride
    <3>4. ExecutedUnderRoot'
      BY <1>1, <3>1 DEF IInv, ExecutedUnderRoot
    <3> QED
      BY <1>4, <2>4, <2>5, <3>2, <3>3, <3>4, <3>5 DEF IInv
  <2>7. CASE root # NoRoot
    <3>1. /\ Len(rootLog') = Len(rootLog) + 1
          /\ \A i \in DOMAIN rootLog : i \in DOMAIN rootLog' /\ rootLog'[i] = rootLog[i]
          /\ rootLog'[Len(rootLog')] = RootEntry(NoRoot, 0, ClearedMetadata)
          /\ \A i \in DOMAIN rootLog' : i \in DOMAIN rootLog \/ i = Len(rootLog')
          /\ DOMAIN rootLog = 1 .. Len(rootLog) /\ Len(rootLog) \in Nat
      BY <2>1, <2>3, <2>7
    <3>2. CurrentIsLogged'
      BY <2>1, <2>2, <3>1 DEF CurrentIsLogged, RootEntry
    <3>3. LoggedIsSeen'
      BY <1>1, <3>1 DEF IInv, LoggedIsSeen, RootEntry
    <3>4. RootsSetOnce'
      BY <3>1 DEF IInv, RootsSetOnce, RootEntry
    <3>5. SkippedOnlyByOverride'
      <4>1. rootLog'[Len(rootLog')].metadata.overridePreviousRoot
        BY <2>2, <3>1 DEF RootEntry
      <4>2. ASSUME NEW i \in DOMAIN rootLog', i > 1, ~rootLog'[i].metadata.overridePreviousRoot
            PROVE  rootLog'[i].metadata.preOpCount = rootLog'[i - 1].metadata.postOpCount
        <5>1. i \in DOMAIN rootLog
          BY <3>1, <4>1, <4>2
        <5>2. i - 1 \in DOMAIN rootLog
          BY <3>1, <4>2, <5>1, SMTT(30)
        <5> QED
          BY <3>1, <4>2, <5>1, <5>2 DEF IInv, SkippedOnlyByOverride
      <4> QED
        BY <4>2 DEF SkippedOnlyByOverride
    <3>6. ExecutedUnderRoot'
      BY <1>1, <3>1 DEF IInv, ExecutedUnderRoot
    <3> QED
      BY <1>4, <2>4, <2>5, <3>2, <3>3, <3>4, <3>5, <3>6 DEF IInv
  <2> QED
    BY <2>6, <2>7
<1> QED
  BY <1>5, <1>6

\* Every message the contract handles preserves the inductive invariant.
LEMMA NextIInv == IInv /\ [Next]_vars => IInv'
<1> SUFFICES ASSUME IInv, [Next]_vars PROVE IInv'
  OBVIOUS
<1> DEFINE Frame ==
      UNCHANGED <<signers, config, seenSignedHashes, root, validUntil, opCount, rootMetadata,
                  executed, approval, rootLog>>
<1>1. ASSUME Frame, TypeOK', NeverOfferedToOwner'
      PROVE  IInv'
  <2>1. SignersMatchConfig' /\ NoncesContiguous' /\ OpCountInRange'
    BY <1>1 DEF IInv, SignersMatchConfig, NoncesContiguous, OpCountInRange
  <2>2. CurrentIsLogged' /\ LoggedIsSeen'
    BY <1>1, Zenon DEF IInv, CurrentIsLogged, LoggedIsSeen, RootEntry
  <2>3. RootsSetOnce' /\ SkippedOnlyByOverride'
    BY <1>1 DEF IInv, RootsSetOnce, SkippedOnlyByOverride
  <2>4. ExecutedUnderRoot'
    BY <1>1 DEF IInv, ExecutedUnderRoot
  <2>5. ConfigAccepted' /\ RootReached'
    BY <1>1 DEF IInv, ConfigAccepted, RootReached
  <2> QED
    BY <1>1, <2>1, <2>2, <2>3, <2>4, <2>5, Zenon DEF IInv
<1>2. CASE Tick
  <2>1. TypeOK' /\ NeverOfferedToOwner'
    BY <1>2 DEF Tick, ownableVars, IInv, TypeOK, OwnableTypeOK, NeverOfferedToOwner
  <2> QED
    BY <1>1, <1>2, <2>1 DEF Tick
<1>3. CASE \E r \in Root, expiry \in Expiry, keys \in SUBSET Key :
             \E metadata \in MetadataLeaves[r] : setRoot(r, expiry, metadata, keys)
  BY <1>3, SetRootIInv
<1>4. CASE \E op \in UNION {OpLeaves[r] : r \in Root} : execute(op)
  BY <1>4, ExecuteIInv
<1>5. CASE \E sender \in Address, c \in Configs, clearRoot \in BOOLEAN :
             setConfig(sender, c, clearRoot)
  BY <1>5, SetConfigIInv
<1>6. CASE ownableMessage
  <2>1. OwnableTypeOK' /\ NeverOfferedToOwner'
    BY <1>6, OwnerAssumption
    DEF ownableMessage, OwnableNext, transferOwnership, acceptOwnership, requireOwner,
        IInv, TypeOK, OwnableTypeOK, NeverOfferedToOwner
  <2>2. TypeOK'
    BY <1>6, <2>1 DEF ownableMessage, mcmsVars, IInv, TypeOK
  <2> QED
    BY <1>1, <1>6, <2>1, <2>2 DEF ownableMessage, mcmsVars
<1>7. CASE UNCHANGED vars
  <2>1. TypeOK' /\ NeverOfferedToOwner'
    BY <1>7 DEF vars, mcmsVars, ownableVars, IInv, TypeOK, OwnableTypeOK, NeverOfferedToOwner
  <2> QED
    BY <1>1, <1>7, <2>1 DEF vars, mcmsVars
<1> QED
  BY <1>2, <1>3, <1>4, <1>5, <1>6, <1>7 DEF Next

\* The inductive invariant holds in every reachable state.
LEMMA InvariantHolds == Spec => []IInv
BY InitIInv, NextIInv, PTL DEF Spec

-----------------------------------------------------------------------------

\* execute takes ops strictly by nonce, none twice and none left out, whatever
\* roots are set, overridden or cleared and however the signers change.
THEOREM ExecutionFollowsNonces == Spec => []NoncesContiguous
<1>1. IInv => NoncesContiguous
  BY DEF IInv
<1> QED
  BY InvariantHolds, <1>1, PTL

\* Every op execute sends is a leaf of the root in force, within its range and
\* before its expiry.
THEOREM ExecutionFollowsRoots == Spec => []ExecutedUnderRoot
<1>1. IInv => ExecutedUnderRoot
  BY DEF IInv
<1> QED
  BY InvariantHolds, <1>1, PTL

\* setRoot accepts a (root, validUntil) tuple once, and keeps opCount within the
\* range of the root.
THEOREM RootsAreOrderly == Spec => [](RootsSetOnce /\ OpCountInRange)
<1>1. IInv => RootsSetOnce /\ OpCountInRange
  BY DEF IInv
<1> QED
  BY InvariantHolds, <1>1, PTL

\* setRoot leaves ops of an earlier root unexecuted only by override.
THEOREM SkippingNeedsOverride == Spec => []SkippedOnlyByOverride
<1>1. IInv => SkippedOnlyByOverride
  BY DEF IInv
<1> QED
  BY InvariantHolds, <1>1, PTL

\* The storage is well-typed, ownership is never offered to its holder, and the
\* signers looked up by key are those of the configuration.
THEOREM StorageConsistent == Spec => [](TypeOK /\ NeverOfferedToOwner /\ SignersMatchConfig)
<1>1. IInv => TypeOK /\ NeverOfferedToOwner /\ SignersMatchConfig
  BY DEF IInv
<1> QED
  BY InvariantHolds, <1>1, PTL

-----------------------------------------------------------------------------
(* The vote count of setRoot. *)

\* A configuration whose tree setConfig checked: every group but the root has a
\* parent before it.
WellTyped(c) ==
    /\ c.groupQuorums \in [Group -> Nat] /\ c.groupParents \in [Group -> Nat]
    /\ GroupTreeWellFormed(c)

\* A vote climbs from a group that it brings to its quorum.
Climbs(c, votes, g) == votes[g] + 1 = c.groupQuorums[g] /\ g # 0

\* The groups one vote reaches from a group: a way up the tree.
WayUp(c, votes, start, R) ==
    /\ start \in R /\ R \subseteq 0 .. start
    /\ \A x \in R : x # start => \E h \in R : Climbs(c, votes, h) /\ c.groupParents[h] = x
    /\ \A h \in R : Climbs(c, votes, h) => c.groupParents[h] \in R
    /\ \A x, h \in R : x < h => x <= c.groupParents[h]

\* The votes with one more in every group of R.
Raised(votes, R) == [g \in Group |-> IF g \in R THEN votes[g] + 1 ELSE votes[g]]

\* The groups are numbered from the root, 0.
LEMMA GroupType ==
    /\ 0 \in Group /\ Group \subseteq Nat
    /\ \A g \in Group : 0 .. g \subseteq Group
    /\ IsFiniteSet(Group)
BY GroupsAssumption, FS_Interval DEF Group

\* The parent of a group is a group, and the loop that climbs from group to
\* parent in setRoot comes closer to the root with every turn.
LEMMA ParentType ==
    ASSUME NEW c, WellTyped(c), NEW g \in Group
    PROVE  c.groupParents[g] \in Group /\ (g # 0 => c.groupParents[g] < g)
BY GroupsAssumption, SMTT(30) DEF WellTyped, GroupTreeWellFormed, Group

\* What the loop that climbs in setRoot visits.
LEMMA VoteClimbs ==
    ASSUME NEW c, WellTyped(c), NEW votes \in [Group -> Nat], NEW group \in Group
    PROVE  \E R \in SUBSET Group :
              WayUp(c, votes, group, R) /\ AddVote(c, votes, group) = Raised(votes, R)
<1> DEFINE body(f) == [g \in Group |-> IF votes[g] + 1 = c.groupQuorums[g] /\ g # 0
                                       THEN {g} \cup f[c.groupParents[g]]
                                       ELSE {g}]
           V == SUBSET Group
           improve == [f \in [Group -> V] |-> body(f)]
           rank == [g \in Group |-> g]
<1>1. \E f \in [Group -> V] : Solves(f, improve)
  <2>1. rank \in [Group -> Nat] /\ {} \in V
    BY GroupType
  <2>2. improve \in [[Group -> V] -> [Group -> V]]
    BY ParentType, Zenon
  <2>3. ASSUME NEW x \in Group, NEW f \in [Group -> V], NEW h \in [Group -> V],
               \A y \in Group : rank[y] < rank[x] => f[y] = h[y]
        PROVE  improve[f][x] = improve[h][x]
    <3>1. CASE votes[x] + 1 = c.groupQuorums[x] /\ x # 0
      <4>1. f[c.groupParents[x]] = h[c.groupParents[x]]
        BY <2>3, <3>1, ParentType
      <4> QED
        BY <3>1, <4>1
    <3>2. CASE ~(votes[x] + 1 = c.groupQuorums[x] /\ x # 0)
      BY <3>2
    <3> QED
      BY <3>1, <3>2
  <2> HIDE DEF improve, rank, V
  <2>4. UsesLowerRanks(Group, V, rank, improve)
    BY <2>3 DEF UsesLowerRanks
  <2> QED
    BY <2>1, <2>2, <2>4, RankedRecursion, Zenon
<1>2. PICK f \in [Group -> V] : f = body(f)
  BY <1>1 DEF Solves
<1> DEFINE reached == CHOOSE r : r = body(r)
<1>3. reached = body(reached)
  <2> HIDE DEF body
  <2> QED BY <1>2
<1>4. AddVote(c, votes, group) = Raised(votes, reached[group])
  BY DEF AddVote, Raised
<1> HIDE DEF reached
<1>5. \A g \in Group : reached[g] = IF Climbs(c, votes, g) THEN {g} \cup reached[c.groupParents[g]] ELSE {g}
  BY <1>3, Zenon DEF Climbs
<1> DEFINE T == {g \in Group : ~ WayUp(c, votes, g, reached[g])}
<1>6. T = {}
  <2> SUFFICES ASSUME T # {} PROVE FALSE
    OBVIOUS
  <2>1. T \subseteq Nat
    BY GroupType, Zenon
  <2> HIDE DEF T
  <2>2. PICK g \in T : \A h \in T : g <= h
    BY <2>1, LeastNatural, Zenon
  <2> USE DEF T
  <2>3. g \in Group /\ g \in Nat /\ ~ WayUp(c, votes, g, reached[g])
    BY GroupType
  <2>4. CASE Climbs(c, votes, g)
    <3> DEFINE p == c.groupParents[g]
    <3>1. p \in Group /\ p < g /\ p \in Nat
      BY <2>3, <2>4, ParentType, GroupType, Zenon DEF Climbs
    <3>2. p \notin T
      BY <2>2, <2>3, <3>1
    <3>3. WayUp(c, votes, p, reached[p])
      BY <3>1, <3>2
    <3>4. reached[g] = {g} \cup reached[p]
      BY <1>5, <2>3, <2>4, Zenon
    <3>5. WayUp(c, votes, g, reached[g])
      <4> DEFINE Q == reached[p]
      <4> HIDE DEF Q, T
      <4>1. p \in Q /\ Q \subseteq 0 .. p
        BY <3>3 DEF WayUp, Q
      <4>2. reached[g] = {g} \cup Q
        BY <3>4 DEF Q
      <4>3. g \in reached[g] /\ reached[g] \subseteq 0 .. g
        BY <2>3, <3>1, <4>1, <4>2, SMTT(30)
      <4>4. \A x \in reached[g] : x # g => \E h \in reached[g] : Climbs(c, votes, h) /\ c.groupParents[h] = x
        BY <2>4, <3>3, <4>2, Zenon DEF WayUp, Q
      <4>5. \A h \in reached[g] : Climbs(c, votes, h) => c.groupParents[h] \in reached[g]
        BY <3>3, <4>1, <4>2 DEF WayUp, Q
      <4>6. ASSUME NEW x \in reached[g], NEW h \in reached[g], x < h
            PROVE  x <= c.groupParents[h]
        <5>1. CASE h = g
          <6>1. x \in Q /\ c.groupParents[h] = p
            BY <2>3, <4>2, <4>6, <5>1
          <6> QED
            BY <3>1, <4>1, <6>1
        <5>2. CASE h # g
          <6>1. h \in Q /\ h \in 0 .. p
            BY <4>1, <4>2, <5>2, Zenon
          <6>2. x # g
            BY <2>3, <3>1, <4>6, <6>1
          <6>3. x \in Q
            BY <4>2, <6>2
          <6> QED
            BY <3>3, <4>6, <6>1, <6>3 DEF WayUp, Q
        <5> QED
          BY <5>1, <5>2
      <4> QED
        BY <4>3, <4>4, <4>5, <4>6, Zenon DEF WayUp
    <3> QED
      BY <2>3, <3>5
  <2>5. CASE ~ Climbs(c, votes, g)
    <3>1. reached[g] = {g}
      BY <1>5, <2>3, <2>5, Zenon
    <3>2. WayUp(c, votes, g, reached[g])
      BY <2>3, <2>5, <3>1 DEF WayUp
    <3> QED
      BY <2>3, <3>2
  <2> QED
    BY <2>4, <2>5
<1>7. WayUp(c, votes, group, reached[group])
  BY <1>6
<1>8. reached[group] \in SUBSET Group
  BY <1>7, GroupType DEF WayUp
<1> QED
  BY <1>4, <1>7, <1>8

\* The children of g that are successful under the given votes.
SuccessfulGroups(c, votes, g) ==
    {h \in g + 1 .. NUM_GROUPS - 1 :
        /\ c.groupParents[h] = g
        /\ c.groupQuorums[h] > 0
        /\ votes[h] >= c.groupQuorums[h]}

\* The signers of group g among those who voted.
VotersIn(voted, g) == {s \in voted : s.group = g}

\* Votes that say of every group how many of its children are successful.
CountsChildren(c, voted, votes) ==
    /\ votes \in [Group -> Nat]
    /\ \A g \in Group :
          votes[g] = Cardinality(VotersIn(voted, g)) + Cardinality(SuccessfulGroups(c, votes, g))

\* Signers as setConfig stores them.
GoodVoters(voted) == IsFiniteSet(voted) /\ \A s \in voted : s.key \in Nat /\ s.group \in Group

\* Only finitely many children of a group can be successful.
LEMMA ChildrenFinite ==
    ASSUME NEW c, NEW votes, NEW g \in Group, NEW voted, GoodVoters(voted)
    PROVE  /\ IsFiniteSet(SuccessfulGroups(c, votes, g)) /\ SuccessfulGroups(c, votes, g) \subseteq Group
           /\ IsFiniteSet(VotersIn(voted, g))
           /\ Cardinality(SuccessfulGroups(c, votes, g)) \in Nat
           /\ Cardinality(VotersIn(voted, g)) \in Nat
<1>1. SuccessfulGroups(c, votes, g) \in SUBSET Group
  BY GroupsAssumption DEF SuccessfulGroups, Group
<1>2. VotersIn(voted, g) \in SUBSET voted
  BY DEF VotersIn
<1> QED
  BY <1>1, <1>2, GroupType, FS_Subset, FS_CardinalityType DEF GoodVoters

\* setRoot starts from the right count.
LEMMA NoVotesCountChildren ==
    ASSUME NEW c, WellTyped(c)
    PROVE  CountsChildren(c, {}, NoVotes)
<1>1. ASSUME NEW g \in Group
      PROVE  VotersIn({}, g) = {} /\ SuccessfulGroups(c, NoVotes, g) = {}
  <2>1. VotersIn({}, g) = {}
    BY DEF VotersIn
  <2>2. ASSUME NEW h \in SuccessfulGroups(c, NoVotes, g)
        PROVE  FALSE
    <3>1. h \in Group /\ c.groupQuorums[h] > 0 /\ NoVotes[h] >= c.groupQuorums[h]
      BY GroupsAssumption DEF SuccessfulGroups, Group
    <3>2. c.groupQuorums[h] \in Nat /\ NoVotes[h] = 0
      BY <3>1 DEF WellTyped, NoVotes
    <3> QED
      BY <3>1, <3>2
  <2> QED
    BY <2>1, <2>2
<1> QED
  BY <1>1, FS_EmptySet DEF CountsChildren, NoVotes

\* One more in either part is one more.
LEMMA OneMore ==
    ASSUME NEW x \in Nat, NEW y \in Nat
    PROVE  (x + y) + 1 = (x + 1) + y /\ (x + y) + 1 = x + (y + 1)
OBVIOUS

\* Adding the vote of one more signer keeps the count right: the groups the vote
\* climbs to are those that gain a successful child, and gain it now.
LEMMA AddVoteCountsChildren ==
    ASSUME NEW c, WellTyped(c), NEW voted, GoodVoters(voted), NEW votes, CountsChildren(c, voted, votes),
           NEW s, s \notin voted, s.group \in Group
    PROVE  CountsChildren(c, voted \cup {s}, AddVote(c, votes, s.group))
<1> DEFINE group == s.group
           new == AddVote(c, votes, group)
           q == c.groupQuorums
           parent == c.groupParents
<1>0. votes \in [Group -> Nat] /\ q \in [Group -> Nat] /\ group \in Group /\ Group \subseteq Nat
  BY GroupType DEF CountsChildren, WellTyped
<1>1. PICK R \in SUBSET Group :
         WayUp(c, votes, group, R) /\ new = Raised(votes, R)
  BY <1>0, VoteClimbs, Zenon
<1>2. new \in [Group -> Nat] /\ \A g \in Group : new[g] = IF g \in R THEN votes[g] + 1 ELSE votes[g]
  BY <1>0, <1>1, SMTT(30) DEF Raised
<1> HIDE DEF new, group
<1>3. ASSUME NEW g \in Group
      PROVE  new[g] = Cardinality(VotersIn(voted \cup {s}, g)) + Cardinality(SuccessfulGroups(c, new, g))
  <2> DEFINE A == VotersIn(voted, g)
             H == SuccessfulGroups(c, votes, g)
             A1 == VotersIn(voted \cup {s}, g)
             H1 == SuccessfulGroups(c, new, g)
  <2>1. /\ IsFiniteSet(A) /\ IsFiniteSet(H) /\ Cardinality(A) \in Nat /\ Cardinality(H) \in Nat
        /\ votes[g] = Cardinality(A) + Cardinality(H)
    BY ChildrenFinite DEF CountsChildren
  <2>2. s \notin A /\ A1 = IF g = group THEN A \cup {s} ELSE A
    BY Zenon DEF VotersIn, group
  <2>3. \A h \in Group : h \in H1 <=> h \in H \/ (h \in R /\ Climbs(c, votes, h) /\ parent[h] = g)
    <3> SUFFICES ASSUME NEW h \in Group
                 PROVE  h \in H1 <=> h \in H \/ (h \in R /\ Climbs(c, votes, h) /\ parent[h] = g)
      OBVIOUS
    <3>1. h \in g + 1 .. NUM_GROUPS - 1 <=> h > g
      BY <1>0, GroupsAssumption, SMTT(30) DEF Group
    <3>2. parent[h] = g /\ h # 0 => h > g
      BY <1>0, ParentType
    <3>3. votes[h] \in Nat /\ q[h] \in Nat /\ h \in Nat /\ g \in Nat
      BY <1>0, Zenon
    <3>4. CASE h \in R
      BY <1>2, <3>1, <3>2, <3>3, <3>4, SMTT(30) DEF SuccessfulGroups, Climbs
    <3>5. CASE h \notin R
      BY <1>2, <3>5 DEF SuccessfulGroups
    <3> QED
      BY <3>4, <3>5, Zenon
  <2>4. \A h \in H : ~ Climbs(c, votes, h)
    <3> SUFFICES ASSUME NEW h \in H
                 PROVE  ~ Climbs(c, votes, h)
      OBVIOUS
    <3>1. h \in Group /\ votes[h] >= q[h]
      BY ChildrenFinite, Zenon DEF SuccessfulGroups
    <3>2. votes[h] \in Nat /\ q[h] \in Nat
      BY <1>0, <3>1
    <3>3. ~ (votes[h] + 1 = q[h])
      BY <3>1, <3>2
    <3> QED
      BY <3>3, Zenon DEF Climbs
  <2>5. H \subseteq Group /\ H1 \subseteq Group
    BY ChildrenFinite, Zenon
  <2> HIDE DEF A, H, A1, H1
  <2>6. CASE g = group
    <3>1. ASSUME NEW h \in R, Climbs(c, votes, h)
          PROVE  parent[h] # g
      BY <1>0, <1>1, <2>6, <3>1, ParentType, SMTT(30) DEF WayUp, Climbs
    <3>2. H1 = H
      BY <2>3, <2>5, <3>1
    <3>3. Cardinality(A1) = Cardinality(A) + 1
      BY <2>1, <2>2, <2>6, FS_AddElement, Zenon
    <3>4. new[g] = votes[g] + 1
      BY <1>1, <1>2, <2>6, Zenon DEF WayUp
    <3>5. (Cardinality(A) + Cardinality(H)) + 1 = (Cardinality(A) + 1) + Cardinality(H)
      BY <2>1, OneMore, Zenon
    <3>6. new[g] = Cardinality(A1) + Cardinality(H1)
      BY <2>1, <3>2, <3>3, <3>4, <3>5, Zenon
    <3> QED
      BY <3>6, Zenon DEF A1, H1
  <2>7. CASE g # group /\ g \in R
    <3>1. PICK h \in R : Climbs(c, votes, h) /\ parent[h] = g
      BY <1>1, <2>7, Zenon DEF WayUp
    <3>2. ASSUME NEW k \in R, Climbs(c, votes, k), parent[k] = g
          PROVE  k = h
      <4>1. k \in Nat /\ h \in Nat /\ g \in Nat /\ g < k /\ g < h
        BY <1>0, <3>1, <3>2, ParentType, Zenon DEF Climbs
      <4>2. (k < h => k <= g) /\ (h < k => h <= g)
        BY <1>1, <3>1, <3>2, ZenonT(30) DEF WayUp
      <4> QED
        BY <4>1, <4>2
    <3>3. H1 = H \cup {h} /\ h \notin H
      BY <2>3, <2>4, <2>5, <3>1, <3>2
    <3>4. Cardinality(H1) = Cardinality(H) + 1
      BY <2>1, <3>3, FS_AddElement, Zenon
    <3>5. new[g] = votes[g] + 1 /\ A1 = A
      BY <1>2, <2>2, <2>7, Zenon
    <3>6. (Cardinality(A) + Cardinality(H)) + 1 = Cardinality(A) + (Cardinality(H) + 1)
      BY <2>1, OneMore, Zenon
    <3>7. new[g] = Cardinality(A1) + Cardinality(H1)
      BY <2>1, <3>4, <3>5, <3>6, Zenon
    <3> QED
      BY <3>7, Zenon DEF A1, H1
  <2>8. CASE g # group /\ g \notin R
    <3>1. H1 = H
      BY <1>1, <2>3, <2>5, <2>8, Zenon DEF WayUp
    <3>2. new[g] = votes[g] /\ A1 = A
      BY <1>2, <2>2, <2>8
    <3> QED
      BY <2>1, <3>1, <3>2 DEF A1, H1
  <2> QED
    BY <2>6, <2>7, <2>8, Zenon
<1> QED
  BY <1>2, <1>3, Zenon DEF CountsChildren, new, group

\* Two counts that are right about every group are the same, because a group is
\* a child of a group before it.
LEMMA ChildrenCountedOnce ==
    ASSUME NEW c, NEW voted, NEW v, NEW w, CountsChildren(c, voted, v), CountsChildren(c, voted, w)
    PROVE  v = w
<1> DEFINE T == {n \in Nat : \E g \in Group : n = NUM_GROUPS - g /\ v[g] # w[g]}
<1>0. v \in [Group -> Nat] /\ w \in [Group -> Nat]
  BY DEF CountsChildren
<1>1. T = {}
  <2> SUFFICES ASSUME T # {} PROVE FALSE
    OBVIOUS
  <2>1. T \subseteq Nat
    OBVIOUS
  <2>2. PICK n \in T : \A m \in T : n <= m
    <3> HIDE DEF T
    <3> QED BY <2>1, LeastNatural, Zenon
  <2>3. PICK g \in Group : n = NUM_GROUPS - g /\ v[g] # w[g]
    OBVIOUS
  <2>4. ASSUME NEW h \in g + 1 .. NUM_GROUPS - 1
        PROVE  v[h] = w[h]
    <3>1. h \in Group /\ NUM_GROUPS - h \in Nat /\ NUM_GROUPS - h < n
      BY <2>3, GroupsAssumption DEF Group
    <3>2. NUM_GROUPS - h \notin T
      BY <2>2, <3>1
    <3> QED
      BY <3>1, <3>2
  <2>5. SuccessfulGroups(c, v, g) = SuccessfulGroups(c, w, g)
    BY <2>4 DEF SuccessfulGroups
  <2> QED
    BY <2>3, <2>5 DEF CountsChildren
<1>2. ASSUME NEW g \in Group
      PROVE  v[g] = w[g]
  <2>1. NUM_GROUPS - g \in Nat
    BY GroupsAssumption DEF Group
  <2> QED
    BY <1>1, <2>1
<1> QED
  BY <1>0, <1>2

\* The documented meaning counts successful children.
LEMMA MeaningCountsChildren ==
    ASSUME NEW c, NEW voted, GoodVoters(voted)
    PROVE  CountsChildren(c, voted, SuccessfulChildren(c, voted))
<1> DEFINE body(f) == [g \in Group |-> Cardinality(VotersIn(voted, g))
                                         + Cardinality(SuccessfulGroups(c, f, g))]
           improve == [f \in [Group -> Nat] |-> body(f)]
           rank == [g \in Group |-> NUM_GROUPS - g]
<1>1. \E f \in [Group -> Nat] : Solves(f, improve)
  <2>1. rank \in [Group -> Nat] /\ 0 \in Nat
    BY GroupsAssumption DEF Group
  <2>2. improve \in [[Group -> Nat] -> [Group -> Nat]]
    <3> SUFFICES ASSUME NEW f \in [Group -> Nat], NEW g \in Group
                 PROVE  Cardinality(VotersIn(voted, g)) + Cardinality(SuccessfulGroups(c, f, g)) \in Nat
      OBVIOUS
    <3> QED
      BY ChildrenFinite
  <2>3. ASSUME NEW x \in Group, NEW f \in [Group -> Nat], NEW h \in [Group -> Nat],
               \A y \in Group : rank[y] < rank[x] => f[y] = h[y]
        PROVE  improve[f][x] = improve[h][x]
    <3>1. ASSUME NEW y \in x + 1 .. NUM_GROUPS - 1
          PROVE  f[y] = h[y]
      <4>1. y \in Group /\ NUM_GROUPS - y < NUM_GROUPS - x
        BY GroupsAssumption DEF Group
      <4> QED
        BY <2>3, <4>1
    <3>2. SuccessfulGroups(c, f, x) = SuccessfulGroups(c, h, x)
      BY <3>1 DEF SuccessfulGroups
    <3> QED
      BY <3>2
  <2> HIDE DEF improve, rank
  <2>4. UsesLowerRanks(Group, Nat, rank, improve)
    BY <2>3 DEF UsesLowerRanks
  <2> QED
    BY <2>1, <2>2, <2>4, RankedRecursion, Zenon
<1>2. PICK f \in [Group -> Nat] : f = body(f)
  BY <1>1 DEF Solves
<1> DEFINE children == CHOOSE r : r = body(r)
<1>3. children = body(children)
  <2> HIDE DEF body
  <2> QED BY <1>2
<1>4. SuccessfulChildren(c, voted) = children
  BY DEF SuccessfulChildren, SuccessfulGroups, VotersIn
<1> HIDE DEF children
<1>5. ASSUME NEW g \in Group
      PROVE  /\ children[g] = Cardinality(VotersIn(voted, g)) + Cardinality(SuccessfulGroups(c, children, g))
             /\ children[g] \in Nat
  BY <1>3, ChildrenFinite
<1>6. children \in [Group -> Nat]
  BY <1>3, <1>5
<1> QED
  BY <1>4, <1>5, <1>6 DEF CountsChildren

\* Of several signers one has the greatest key.
LEMMA GreatestKey ==
    ASSUME NEW voted, GoodVoters(voted)
    PROVE  \A S \in SUBSET voted : S # {} => \E s \in S : \A r \in S : r.key <= s.key
<1> DEFINE Good == {S \in SUBSET voted : S # {} => \E s \in S : \A r \in S : r.key <= s.key}
<1>1. IsFiniteSet(voted) /\ \A s \in voted : s.key \in Nat
  BY DEF GoodVoters
<1>2. {} \in Good
  OBVIOUS
<1>3. ASSUME NEW S \in SUBSET voted, S \in Good, NEW x \in voted
      PROVE  S \cup {x} \in Good
  <2>1. CASE S = {}
    <3>1. x.key <= x.key
      BY <1>1
    <3> QED
      BY <2>1, <3>1
  <2>2. CASE S # {}
    <3>1. PICK s \in S : \A r \in S : r.key <= s.key
      BY <1>3, <2>2
    <3>2. s.key \in Nat /\ x.key \in Nat /\ \A r \in S : r.key \in Nat
      BY <1>1
    <3>3. CASE x.key <= s.key
      BY <3>1, <3>3
    <3>4. CASE s.key <= x.key
      <4>1. \A r \in S \cup {x} : r.key <= x.key
        BY <3>1, <3>2, <3>4
      <4> QED
        BY <4>1
    <3> QED
      BY <3>2, <3>3, <3>4
  <2> QED
    BY <2>1, <2>2
<1> HIDE DEF Good
<1>4. SUBSET voted \subseteq Good
  BY <1>1, <1>2, <1>3, SubsetInduction, Zenon
<1> QED
  BY <1>4 DEF Good

\* setRoot counts successful children.
LEMMA VotesCountChildren ==
    ASSUME NEW c, WellTyped(c), NEW voted, GoodVoters(voted)
    PROVE  CountsChildren(c, voted, GroupVoteCounts(c, voted))
<1> DEFINE last(S) == CHOOSE s \in S : \A r \in S : r.key <= s.key
           body(f) == [S \in SUBSET voted |-> IF S = {} THEN NoVotes
                                              ELSE AddVote(c, f[S \ {last(S)}], last(S).group)]
           D == SUBSET voted
           V == [Group -> Nat]
           improve == [f \in [D -> V] |-> body(f)]
           rank == [S \in D |-> Cardinality(S)]
<1>0. ASSUME NEW S \in D, S # {}
      PROVE  /\ last(S) \in S /\ last(S) \in voted /\ last(S).group \in Group
             /\ S \ {last(S)} \in D
  BY <1>0, GreatestKey DEF GoodVoters
<1>1. ASSUME NEW S \in D
      PROVE  IsFiniteSet(S) /\ Cardinality(S) \in Nat /\ GoodVoters(S)
  BY FS_Subset, FS_CardinalityType DEF GoodVoters
<1> HIDE DEF last
<1>2. NoVotes \in V
  BY DEF NoVotes
<1>3. ASSUME NEW votes \in V, NEW g \in Group
      PROVE  AddVote(c, votes, g) \in V
  BY VoteClimbs DEF Raised
<1>4. \E f \in [D -> V] : Solves(f, improve)
  <2>1. rank \in [D -> Nat]
    BY <1>1
  <2>2. improve \in [[D -> V] -> [D -> V]]
    <3> SUFFICES ASSUME NEW f \in [D -> V], NEW S \in D
                 PROVE  (IF S = {} THEN NoVotes ELSE AddVote(c, f[S \ {last(S)}], last(S).group)) \in V
      BY Zenon
    <3> HIDE DEF V, D
    <3> QED
      BY <1>0, <1>2, <1>3
  <2>3. ASSUME NEW S \in D, NEW f \in [D -> V], NEW h \in [D -> V],
               \A T \in D : rank[T] < rank[S] => f[T] = h[T]
        PROVE  improve[f][S] = improve[h][S]
    <3>1. CASE S = {}
      BY <3>1
    <3>2. CASE S # {}
      <4>1. Cardinality(S \ {last(S)}) = Cardinality(S) - 1
        BY <1>0, <1>1, <3>2, FS_RemoveElement
      <4>2. rank[S \ {last(S)}] < rank[S]
        BY <1>0, <1>1, <3>2, <4>1
      <4>3. f[S \ {last(S)}] = h[S \ {last(S)}]
        BY <1>0, <2>3, <3>2, <4>2, Zenon
      <4> QED
        BY <3>2, <4>3
    <3> QED
      BY <3>1, <3>2
  <2> HIDE DEF improve, rank, D, V
  <2>4. UsesLowerRanks(D, V, rank, improve)
    BY <2>3 DEF UsesLowerRanks
  <2> QED
    BY <1>2, <2>1, <2>2, <2>4, RankedRecursion, Zenon
<1>5. PICK f \in [D -> V] : f = body(f)
  BY <1>4, Zenon DEF Solves
<1> DEFINE count == CHOOSE r : r = body(r)
<1>6. count = body(count)
  <2> HIDE DEF body
  <2> QED BY <1>5
<1>7. GroupVoteCounts(c, voted) = count[voted]
  BY DEF GroupVoteCounts, last
<1>8. ASSUME NEW S \in D
      PROVE  count[S] = IF S = {} THEN NoVotes ELSE AddVote(c, count[S \ {last(S)}], last(S).group)
  BY <1>6, Zenon
<1> HIDE DEF count
<1> DEFINE T == {S \in D : ~ CountsChildren(c, S, count[S])}
<1>9. T = {}
  <2> SUFFICES ASSUME T # {} PROVE FALSE
    BY Zenon
  <2>1. \A S \in T : IsFiniteSet(S)
    BY <1>1
  <2>2. PICK S \in T : \A R \in T : R \subseteq S => R = S
    <3> HIDE DEF T
    <3> QED BY <2>1, SmallestSet, SMTT(30)
  <2>3. S \in D /\ ~ CountsChildren(c, S, count[S])
    OBVIOUS
  <2> HIDE DEF D
  <2>4. S # {}
    BY <1>8, <2>3, NoVotesCountChildren, Zenon
  <2> DEFINE x == last(S)
             R == S \ {x}
  <2>5. x \in S /\ x.group \in Group /\ R \in D /\ S = R \cup {x} /\ x \notin R /\ R # S /\ R \subseteq S
    BY <1>0, <2>3, <2>4, Zenon
  <2>6. CountsChildren(c, R, count[R])
    BY <2>2, <2>5
  <2>7. count[S] = AddVote(c, count[R], x.group)
    BY <1>8, <2>3, <2>4, ZenonT(30)
  <2> HIDE DEF x, R
  <2>8. GoodVoters(R)
    BY <1>1, <2>5
  <2>9. CountsChildren(c, R \cup {x}, AddVote(c, count[R], x.group))
    BY <2>5, <2>6, <2>8, AddVoteCountsChildren, Zenon
  <2> QED
    BY <2>3, <2>5, <2>7, <2>9, Zenon
<1>10. CountsChildren(c, voted, count[voted])
  BY <1>9
<1> QED
  BY <1>7, <1>10

\* setRoot's count is the documented one.
LEMMA VotesAreSuccessfulChildren ==
    ASSUME NEW c, WellTyped(c), NEW voted, GoodVoters(voted)
    PROVE  /\ GroupVoteCounts(c, voted) = SuccessfulChildren(c, voted)
           /\ RootGroupReached(c, voted) <=> Successful(c, voted, 0)
<1>1. GroupVoteCounts(c, voted) = SuccessfulChildren(c, voted)
  BY VotesCountChildren, MeaningCountsChildren, ChildrenCountedOnce
<1>2. c.groupQuorums[0] \in Nat
  BY GroupType DEF WellTyped
<1> QED
  BY <1>1, <1>2 DEF RootGroupReached, Successful

-----------------------------------------------------------------------------
(* The children setConfig counts, and what all signers together reach. *)

\* The children setConfig counts: signers, and enabled groups from i on.
SignersIn(c, g) == {s \in DOMAIN c.signerGroups : c.signerGroups[s] = g}

EnabledGroups(c, i, g) ==
    {h \in i .. NUM_GROUPS - 1 : c.groupParents[h] = g /\ c.groupQuorums[h] > 0}

\* What the checks of setConfig establish.
LEMMA AcceptedIsWellTyped ==
    ASSUME NEW c, Accepted(c)
    PROVE  /\ WellTyped(c) /\ GroupQuorumsReachable(c)
           /\ c.signerKeys \in Seq(Nat) /\ c.signerGroups \in Seq(Nat)
           /\ Len(c.signerGroups) = Len(c.signerKeys) /\ Len(c.signerKeys) > 0
           /\ \A i \in DOMAIN c.signerGroups : c.signerGroups[i] \in Group
<1>1. /\ c.signerKeys \in Seq(Nat) /\ c.signerGroups \in Seq(Nat)
      /\ Len(c.signerGroups) = Len(c.signerKeys) /\ Len(c.signerKeys) > 0
  BY GroupsAssumption DEF Accepted, ConfigTypeOK, ValidConfig
<1>2. ASSUME NEW i \in DOMAIN c.signerGroups
      PROVE  c.signerGroups[i] \in Group
  <2>1. c.signerGroups[i] \in Nat /\ c.signerGroups[i] < NUM_GROUPS
    BY <1>1 DEF Accepted, ValidConfig
  <2> QED
    BY <2>1, GroupsAssumption DEF Group
<1> QED
  BY <1>1, <1>2 DEF Accepted, ConfigTypeOK, ValidConfig, WellTyped

\* Taking the first element off an interval.
LEMMA IntervalFrom ==
    ASSUME NEW a \in Int, NEW b \in Int, a < b
    PROVE  a .. b - 1 = (a + 1 .. b - 1) \cup {a}
<1>1. ASSUME NEW h \in a .. b - 1 PROVE h \in (a + 1 .. b - 1) \cup {a}
  OBVIOUS
<1>2. ASSUME NEW h \in (a + 1 .. b - 1) \cup {a} PROVE h \in a .. b - 1
  OBVIOUS
<1> QED
  BY <1>1, <1>2

\* What setConfig counts is finite.
LEMMA CountedFinite ==
    ASSUME NEW c, Accepted(c), NEW g, NEW i \in Nat
    PROVE  /\ IsFiniteSet(SignersIn(c, g)) /\ Cardinality(SignersIn(c, g)) \in Nat
           /\ IsFiniteSet(EnabledGroups(c, i, g)) /\ Cardinality(EnabledGroups(c, i, g)) \in Nat
<1>1. DOMAIN c.signerGroups = 1 .. Len(c.signerGroups) /\ Len(c.signerGroups) \in Nat
  BY AcceptedIsWellTyped
<1>2. IsFiniteSet(DOMAIN c.signerGroups) /\ SignersIn(c, g) \in SUBSET DOMAIN c.signerGroups
  BY <1>1, FS_Interval DEF SignersIn
<1>3. IsFiniteSet(i .. NUM_GROUPS - 1) /\ EnabledGroups(c, i, g) \in SUBSET (i .. NUM_GROUPS - 1)
  BY GroupsAssumption, FS_Interval DEF EnabledGroups
<1>4. IsFiniteSet(SignersIn(c, g)) /\ IsFiniteSet(EnabledGroups(c, i, g))
  BY <1>2, <1>3, FS_Subset, Zenon
<1> QED
  BY <1>4, FS_CardinalityType

\* What the backwards loop of setConfig has counted when it comes to a group.
LEMMA ChildrenCounts ==
    ASSUME NEW c, Accepted(c), NEW group \in Group
    PROVE  GroupChildrenCounts(c)[group]
             = Cardinality(SignersIn(c, group)) + Cardinality(EnabledGroups(c, group + 1, group))
<1> DEFINE q == c.groupQuorums
           parent == c.groupParents
           base == [g \in Group |-> Cardinality(SignersIn(c, g))]
           D == 0 .. NUM_GROUPS
           V == [Group -> Nat]
           body(f) == [i \in D |-> IF i = NUM_GROUPS THEN base
                                   ELSE IF q[i] = 0 THEN f[i + 1]
                                   ELSE [f[i + 1] EXCEPT ![parent[i]] = @ + 1]]
           improve == [f \in [D -> V] |-> body(f)]
           rank == [i \in D |-> NUM_GROUPS - i]
<1>0. /\ WellTyped(c) /\ base \in V /\ NUM_GROUPS \in Nat
      /\ \A i \in D : i # NUM_GROUPS => i \in Group /\ i + 1 \in D /\ NUM_GROUPS - (i + 1) < NUM_GROUPS - i
  <2>1. WellTyped(c)
    BY AcceptedIsWellTyped
  <2>2. ASSUME NEW g \in Group
        PROVE  Cardinality(SignersIn(c, g)) \in Nat
    <3>1. 0 \in Nat
      OBVIOUS
    <3> QED
      BY <3>1, CountedFinite
  <2>3. NUM_GROUPS \in Nat
    BY GroupsAssumption
  <2>4. ASSUME NEW i \in D, i # NUM_GROUPS
        PROVE  i \in Group /\ i + 1 \in D /\ NUM_GROUPS - (i + 1) < NUM_GROUPS - i
    BY <2>3, <2>4 DEF Group
  <2>5. base \in V
    BY <2>2
  <2> HIDE DEF base, V, D, rank, improve, body
  <2> QED
    BY <2>1, <2>3, <2>4, <2>5
<1>1. \E f \in [D -> V] : Solves(f, improve)
  <2>1. rank \in [D -> Nat]
    BY <1>0, SMTT(30)
  <2>2. improve \in [[D -> V] -> [D -> V]]
    <3> SUFFICES ASSUME NEW f \in [D -> V], NEW i \in D
                 PROVE  (IF i = NUM_GROUPS THEN base ELSE IF q[i] = 0 THEN f[i + 1]
                         ELSE [f[i + 1] EXCEPT ![parent[i]] = @ + 1]) \in V
      OBVIOUS
    <3>1. CASE i = NUM_GROUPS
      BY <1>0, <3>1, Zenon
    <3>2. CASE i # NUM_GROUPS
      <4> DEFINE F == f[i + 1]
      <4>1. F \in V
        BY <1>0, <3>2, Zenon
      <4> HIDE DEF F
      <4>2. parent[i] \in Group
        BY <1>0, <3>2, ParentType
      <4>3. [F EXCEPT ![parent[i]] = @ + 1] \in V
        BY <4>1, <4>2, SMTT(30)
      <4> QED
        BY <3>2, <4>1, <4>3 DEF F
    <3> QED
      BY <3>1, <3>2, Zenon
  <2>3. ASSUME NEW i \in D, NEW f \in [D -> V], NEW h \in [D -> V],
               \A j \in D : rank[j] < rank[i] => f[j] = h[j]
        PROVE  improve[f][i] = improve[h][i]
    <3>1. CASE i = NUM_GROUPS
      BY <3>1, Zenon
    <3>2. CASE i # NUM_GROUPS
      <4>1. f[i + 1] = h[i + 1]
        BY <1>0, <2>3, <3>2
      <4> QED
        BY <3>2, <4>1, Zenon
    <3> QED
      BY <3>1, <3>2, Zenon
  <2> HIDE DEF improve, rank, D, V
  <2>4. UsesLowerRanks(D, V, rank, improve)
    BY <2>3 DEF UsesLowerRanks
  <2> QED
    BY <1>0, <2>1, <2>2, <2>4, RankedRecursion, Zenon
<1>2. PICK f \in [D -> V] : f = body(f)
  BY <1>1, Zenon DEF Solves
<1> DEFINE after == CHOOSE r : r = body(r)
<1>3. after = body(after)
  <2> HIDE DEF body
  <2> QED BY <1>2
<1>4. GroupChildrenCounts(c) = [i \in Group |-> after[i + 1][i]]
  BY DEF GroupChildrenCounts, SignersIn
<1>5. ASSUME NEW i \in D
      PROVE  after[i] = IF i = NUM_GROUPS THEN base ELSE IF q[i] = 0 THEN after[i + 1]
                        ELSE [after[i + 1] EXCEPT ![parent[i]] = @ + 1]
  BY <1>3, Zenon
<1>11. \A g \in Group : base[g] = Cardinality(SignersIn(c, g))
  OBVIOUS
<1> HIDE DEF after, body, improve, rank, base
<1> DEFINE Right(i) == after[i] \in V /\ \A g \in Group :
                          after[i][g] = Cardinality(SignersIn(c, g)) + Cardinality(EnabledGroups(c, i, g))
<1>6. Right(NUM_GROUPS)
  <2>1. NUM_GROUPS \in D
    BY <1>0
  <2>2. after[NUM_GROUPS] = base
    BY <1>5, <2>1, Zenon
  <2>3. ASSUME NEW g \in Group
        PROVE  base[g] = Cardinality(SignersIn(c, g)) + Cardinality(EnabledGroups(c, NUM_GROUPS, g))
    <3>1. EnabledGroups(c, NUM_GROUPS, g) = {}
      BY <1>0 DEF EnabledGroups
    <3>2. Cardinality(EnabledGroups(c, NUM_GROUPS, g)) = 0
      BY <3>1, FS_EmptySet
    <3>3. Cardinality(SignersIn(c, g)) \in Nat
      BY <1>0, CountedFinite, Zenon
    <3> QED
      BY <1>11, <3>2, <3>3
  <2> QED
    BY <1>0, <2>2, <2>3
<1>7. ASSUME NEW i \in Group, Right(i + 1)
      PROVE  Right(i)
  <2>0. i \in Nat /\ i < NUM_GROUPS /\ i # NUM_GROUPS /\ i \in D /\ i + 1 \in Nat
    BY GroupsAssumption DEF Group
  <2>1. q[i] \in Nat /\ parent[i] \in Group
    BY <1>0, ParentType, Zenon DEF WellTyped
  <2>2. ASSUME NEW g \in Group
        PROVE  EnabledGroups(c, i, g)
                 = IF parent[i] = g /\ q[i] > 0 THEN EnabledGroups(c, i + 1, g) \cup {i}
                   ELSE EnabledGroups(c, i + 1, g)
    <3>0. i \in Int /\ NUM_GROUPS \in Int /\ i < NUM_GROUPS
      BY <1>0, <2>0
    <3>1. i .. NUM_GROUPS - 1 = (i + 1 .. NUM_GROUPS - 1) \cup {i}
      BY <3>0, IntervalFrom, Zenon
    <3> QED
      BY <3>1 DEF EnabledGroups
  <2>3. ASSUME NEW g \in Group
        PROVE  /\ i \notin EnabledGroups(c, i + 1, g) /\ IsFiniteSet(EnabledGroups(c, i + 1, g))
               /\ Cardinality(EnabledGroups(c, i + 1, g)) \in Nat
               /\ Cardinality(SignersIn(c, g)) \in Nat
    <3>1. i \notin i + 1 .. NUM_GROUPS - 1
      BY <2>0
    <3>2. i \notin EnabledGroups(c, i + 1, g)
      BY <3>1, ZenonT(30) DEF EnabledGroups
    <3> QED
      BY <2>0, <3>2, CountedFinite
  <2>4. CASE q[i] = 0
    <3>1. after[i] = after[i + 1]
      BY <1>5, <2>0, <2>4, Zenon
    <3>2. \A g \in Group : EnabledGroups(c, i, g) = EnabledGroups(c, i + 1, g)
      BY <2>2, <2>4, SMTT(30)
    <3> QED
      BY <1>7, <3>1, <3>2
  <2>5. CASE q[i] # 0
    <3> DEFINE old == after[i + 1]
    <3>1. after[i] = [old EXCEPT ![parent[i]] = @ + 1]
      BY <1>5, <2>0, <2>5, Zenon
    <3>2. old \in V /\ \A g \in Group :
             old[g] = Cardinality(SignersIn(c, g)) + Cardinality(EnabledGroups(c, i + 1, g))
      BY <1>7, ZenonT(30)
    <3> HIDE DEF old
    <3>3. after[i] \in V /\ \A g \in Group : after[i][g] = IF g = parent[i] THEN old[g] + 1 ELSE old[g]
      BY <2>1, <3>1, <3>2, SMTT(30)
    <3>4. ASSUME NEW g \in Group
          PROVE  Cardinality(EnabledGroups(c, i, g))
                   = IF g = parent[i] THEN Cardinality(EnabledGroups(c, i + 1, g)) + 1
                     ELSE Cardinality(EnabledGroups(c, i + 1, g))
      <4>1. q[i] > 0
        BY <2>1, <2>5, SMTT(30)
      <4> QED
        BY <2>2, <2>3, <4>1, FS_AddElement, SMTT(30)
    <3>5. ASSUME NEW g \in Group
          PROVE  after[i][g] = Cardinality(SignersIn(c, g)) + Cardinality(EnabledGroups(c, i, g))
      BY <2>3, <3>2, <3>3, <3>4, SMTT(30)
    <3> QED
      BY <3>3, <3>5, Zenon
  <2> QED
    BY <2>4, <2>5
<1> DEFINE T == {n \in Nat : \E i \in D : n = NUM_GROUPS - i /\ ~ Right(i)}
<1>8. T = {}
  <2> SUFFICES ASSUME T # {} PROVE FALSE
    OBVIOUS
  <2> HIDE DEF Right
  <2>1. T \subseteq Nat
    OBVIOUS
  <2>2. PICK n \in T : \A m \in T : n <= m
    <3> HIDE DEF T
    <3> QED BY <2>1, LeastNatural, Zenon
  <2>3. PICK i \in D : n = NUM_GROUPS - i /\ ~ Right(i)
    OBVIOUS
  <2>4. i # NUM_GROUPS
    BY <1>6, <2>3
  <2>5. i \in Group /\ i + 1 \in D /\ NUM_GROUPS - (i + 1) < n /\ NUM_GROUPS - (i + 1) \in Nat
    BY <1>0, <2>3, <2>4
  <2>6. NUM_GROUPS - (i + 1) \notin T
    BY <2>2, <2>5
  <2>7. Right(i + 1)
    BY <2>5, <2>6
  <2> QED
    BY <1>7, <2>3, <2>5, <2>7
<1>9. group + 1 \in D /\ NUM_GROUPS - (group + 1) \in Nat
  BY <1>0 DEF Group
<1>10. Right(group + 1)
  <2> HIDE DEF Right
  <2> QED BY <1>8, <1>9
<1> QED
  BY <1>4, <1>10

\* The signer records are as many as the signers.
LEMMA SignersCounted ==
    ASSUME NEW c, Accepted(c)
    PROVE  /\ GoodVoters(SignersOf(c))
           /\ \A g \in Group : Cardinality(VotersIn(SignersOf(c), g)) = Cardinality(SignersIn(c, g))
<1> DEFINE n == Len(c.signerKeys)
           record(i) == [key |-> c.signerKeys[i], index |-> i - 1, group |-> c.signerGroups[i]]
<1>1. /\ n \in Nat /\ DOMAIN c.signerKeys = 1 .. n /\ DOMAIN c.signerGroups = 1 .. n
      /\ \A i \in 1 .. n : c.signerKeys[i] \in Nat /\ c.signerGroups[i] \in Group
  BY AcceptedIsWellTyped
<1> HIDE DEF n
<1>2. SignersOf(c) = {record(i) : i \in 1 .. n}
  BY <1>1 DEF SignersOf
<1>3. ASSUME NEW i \in 1 .. n, NEW j \in 1 .. n, record(i) = record(j)
      PROVE  i = j
  <2>1. i - 1 = j - 1
    BY <1>3, Zenon
  <2> QED
    BY <2>1
<1>4. ASSUME NEW i \in 1 .. n
      PROVE  /\ record(i).key = c.signerKeys[i] /\ record(i).group = c.signerGroups[i]
             /\ record(i) \in SignersOf(c)
  BY <1>2
<1> HIDE DEF record
<1>5. ASSUME NEW S, S \subseteq 1 .. n
      PROVE  IsFiniteSet(S) /\ ExistsBijection(S, {record(i) : i \in S})
  <2> DEFINE f == [i \in S |-> record(i)]
             T == {record(i) : i \in S}
  <2>1. IsFiniteSet(S)
    <3>1. 1 \in Int /\ n \in Int
      BY <1>1
    <3>2. IsFiniteSet(1 .. n)
      BY <3>1, FS_Interval
    <3> QED
      BY <1>5, <3>2, FS_Subset, Zenon
  <2>2. f \in [S -> T] /\ \A t \in T : \E i \in S : f[i] = t
    OBVIOUS
  <2>3. \A i, j \in S : f[i] = f[j] => i = j
    BY <1>3, <1>5
  <2>4. f \in Bijection(S, T)
    BY <2>2, <2>3 DEF Bijection, Injection, IsInjective, Surjection
  <2> QED
    BY <2>1, <2>4, Zenon DEF ExistsBijection
<1>6. GoodVoters(SignersOf(c))
  <2>1. IsFiniteSet(SignersOf(c))
    BY <1>2, <1>5, FS_Bijection, Zenon
  <2> QED
    BY <1>1, <1>2, <1>4, <2>1, Zenon DEF GoodVoters
<1>7. ASSUME NEW g \in Group
      PROVE  Cardinality(VotersIn(SignersOf(c), g)) = Cardinality(SignersIn(c, g))
  <2> DEFINE S == SignersIn(c, g)
             T == {record(i) : i \in S}
  <2>1. S \subseteq 1 .. n /\ \A i \in 1 .. n : i \in S <=> c.signerGroups[i] = g
    BY <1>1 DEF SignersIn
  <2> HIDE DEF S
  <2>2. VotersIn(SignersOf(c), g) = T
    <3>1. ASSUME NEW r \in VotersIn(SignersOf(c), g) PROVE r \in T
      <4>1. r \in SignersOf(c) /\ r.group = g
        BY <3>1 DEF VotersIn
      <4>2. PICK i \in 1 .. n : r = record(i)
        BY <1>2, <4>1
      <4> QED
        BY <1>4, <2>1, <4>1, <4>2
    <3>2. ASSUME NEW r \in T PROVE r \in VotersIn(SignersOf(c), g)
      <4>1. PICK i \in S : r = record(i)
        OBVIOUS
      <4> QED
        BY <1>4, <2>1, <4>1 DEF VotersIn
    <3> QED
      BY <3>1, <3>2
  <2>3. IsFiniteSet(S) /\ ExistsBijection(S, T)
    BY <1>5, <2>1, Zenon
  <2> HIDE DEF T
  <2>4. Cardinality(T) = Cardinality(S)
    BY <2>3, FS_Bijection
  <2> QED
    BY <2>2, <2>4 DEF S
<1> QED
  BY <1>6, <1>7

\* Whoever votes is one of the signers.
LEMMA SomeSignersAreGood ==
    ASSUME NEW c, Accepted(c), NEW voted, voted \subseteq SignersOf(c)
    PROVE  GoodVoters(voted)
<1>1. GoodVoters(SignersOf(c))
  BY SignersCounted
<1>2. IsFiniteSet(voted)
  BY <1>1, FS_Subset DEF GoodVoters
<1> QED
  BY <1>1, <1>2 DEF GoodVoters

\* If everybody signs, every enabled group is successful.
LEMMA EverybodySucceeds ==
    ASSUME NEW c, Accepted(c), NEW group \in Group, c.groupQuorums[group] > 0
    PROVE  SuccessfulChildren(c, SignersOf(c))[group] >= c.groupQuorums[group]
<1> DEFINE q == c.groupQuorums
           done == SuccessfulChildren(c, SignersOf(c))
           T == {n \in Nat : \E g \in Group : n = NUM_GROUPS - g /\ q[g] > 0 /\ ~ done[g] >= q[g]}
<1>1. CountsChildren(c, SignersOf(c), done)
  BY SignersCounted, MeaningCountsChildren, Zenon
<1>2. q \in [Group -> Nat]
  BY AcceptedIsWellTyped DEF WellTyped
<1> HIDE DEF done
<1>3. T = {}
  <2> SUFFICES ASSUME T # {} PROVE FALSE
    OBVIOUS
  <2>1. T \subseteq Nat
    OBVIOUS
  <2>2. PICK n \in T : \A m \in T : n <= m
    <3> HIDE DEF T
    <3> QED BY <2>1, LeastNatural, Zenon
  <2>3. PICK g \in Group : n = NUM_GROUPS - g /\ q[g] > 0 /\ ~ done[g] >= q[g]
    OBVIOUS
  <2>4. ASSUME NEW h \in g + 1 .. NUM_GROUPS - 1, q[h] > 0
        PROVE  done[h] >= q[h]
    <3>1. h \in Group /\ NUM_GROUPS - h \in Nat /\ NUM_GROUPS - h < n
      BY <2>3, GroupsAssumption, SMTT(30) DEF Group
    <3>2. NUM_GROUPS - h \notin T
      BY <2>2, <3>1, SMTT(30)
    <3> QED
      BY <2>4, <3>1, <3>2, ZenonT(30)
  <2>5. SuccessfulGroups(c, done, g) = EnabledGroups(c, g + 1, g)
    BY <2>4, Zenon DEF SuccessfulGroups, EnabledGroups
  <2>6. done[g] = GroupChildrenCounts(c)[g]
    BY <1>1, <2>5, ChildrenCounts, SignersCounted, ZenonT(30) DEF CountsChildren
  <2>7. GroupChildrenCounts(c)[g] >= q[g]
    <3>1. q[g] # 0
      BY <1>2, <2>3, SMTT(30)
    <3> QED
      BY <3>1, AcceptedIsWellTyped, Zenon DEF GroupQuorumsReachable
  <2> QED
    BY <2>3, <2>6, <2>7
<1>4. NUM_GROUPS - group \in Nat
  BY GroupsAssumption DEF Group
<1> QED
  BY <1>3, <1>4, Zenon DEF done

\* The root group of an accepted configuration is enabled.
LEMMA RootIsEnabled ==
    ASSUME NEW c, Accepted(c)
    PROVE  c.groupQuorums[0] > 0
<1> DEFINE q == c.groupQuorums
           T == {g \in Group : q[g] > 0}
<1>1. WellTyped(c) /\ q \in [Group -> Nat]
  BY AcceptedIsWellTyped DEF WellTyped
<1>2. ASSUME NEW g \in Group, \/ SignersIn(c, g) # {}
                              \/ EnabledGroups(c, g + 1, g) # {}
      PROVE  q[g] > 0
  <2>1. g + 1 \in Nat
    BY GroupType
  <2>2. /\ IsFiniteSet(SignersIn(c, g)) /\ Cardinality(SignersIn(c, g)) \in Nat
        /\ IsFiniteSet(EnabledGroups(c, g + 1, g)) /\ Cardinality(EnabledGroups(c, g + 1, g)) \in Nat
    BY <2>1, CountedFinite
  <2>3. Cardinality(SignersIn(c, g)) # 0 \/ Cardinality(EnabledGroups(c, g + 1, g)) # 0
    BY <1>2, <2>2, FS_EmptySet
  <2>4. GroupChildrenCounts(c)[g] # 0
    BY <2>2, <2>3, ChildrenCounts, SMTT(30)
  <2>5. q[g] # 0
    BY <2>4, AcceptedIsWellTyped DEF GroupQuorumsReachable
  <2> QED
    BY <1>1, <2>5
<1>3. T # {}
  <2> DEFINE g == c.signerGroups[1]
  <2>1. 1 \in DOMAIN c.signerGroups /\ g \in Group
    BY AcceptedIsWellTyped
  <2>2. 1 \in SignersIn(c, g)
    BY <2>1 DEF SignersIn
  <2> HIDE DEF g
  <2> QED
    BY <1>2, <2>1, <2>2
<1>4. T \subseteq Nat
  BY GroupType, Zenon
<1>5. PICK g \in T : \A h \in T : g <= h
  <2> HIDE DEF T
  <2> QED BY <1>3, <1>4, LeastNatural, Zenon
<1>6. CASE g = 0
  BY <1>6
<1>7. CASE g # 0
  <2> DEFINE p == c.groupParents[g]
  <2>1. p \in Group /\ p < g /\ g \in Group /\ q[g] > 0
    BY <1>1, <1>7, ParentType
  <2>2. g \in p + 1 .. NUM_GROUPS - 1
    BY <2>1, GroupsAssumption DEF Group
  <2>3. g \in EnabledGroups(c, p + 1, p)
    BY <2>1, <2>2 DEF EnabledGroups
  <2> HIDE DEF p
  <2>4. p \in T
    BY <1>2, <2>1, <2>3, Zenon
  <2>5. g <= p /\ g \in Nat /\ p \in Nat
    BY <1>4, <1>5, <2>4
  <2> QED
    BY <2>1, <2>5
<1> QED
  BY <1>6, <1>7, Zenon

\* A configuration is empty until one is accepted.
LEMMA EmptyConfigFacts ==
    WellTyped(EmptyConfig) /\ SignersOf(EmptyConfig) = {} /\ GoodVoters({})
<1>1. WellTyped(EmptyConfig)
  BY GroupsAssumption, SMTT(30) DEF WellTyped, EmptyConfig, GroupTreeWellFormed, Group
<1>2. SignersOf(EmptyConfig) = {}
  BY DEF SignersOf, EmptyConfig
<1>3. GoodVoters({})
  BY FS_EmptySet DEF GoodVoters
<1> QED
  BY <1>1, <1>2, <1>3

\* Whoever signs, under whichever configuration the contract can have: the root
\* is reached iff it is successful.
LEMMA ReachedIffSuccessful ==
    ASSUME NEW c, c = EmptyConfig \/ Accepted(c), NEW voted, voted \subseteq SignersOf(c)
    PROVE  RootGroupReached(c, voted) <=> Successful(c, voted, 0)
<1>1. CASE c = EmptyConfig
  BY <1>1, EmptyConfigFacts, VotesAreSuccessfulChildren
<1>2. CASE Accepted(c)
  BY <1>2, AcceptedIsWellTyped, SomeSignersAreGood, VotesAreSuccessfulChildren
<1> QED
  BY <1>1, <1>2

\* Only accepted configurations are voted under, by their signers.
VotesInv == (candidate = EmptyConfig \/ Accepted(candidate)) /\ voters \subseteq SignersOf(candidate)

\* Collecting signatures keeps to the signers of an accepted configuration.
LEMMA VotesInvariant == VotesSpec => []VotesInv
<1>1. VotesInit => VotesInv
  BY DEF VotesInit, VotesInv
<1>2. VotesInv /\ [VotesNext]_<<candidate, voters>> => VotesInv'
  <2> SUFFICES ASSUME VotesInv, [VotesNext]_<<candidate, voters>>
               PROVE  VotesInv'
    OBVIOUS
  <2>1. ASSUME NEW c \in VoteConfigs, acceptConfig(c)
        PROVE  VotesInv'
    <3>1. Accepted(c) /\ candidate' = c
      BY <2>1, VoteConfigsAssumption DEF acceptConfig, Accepted
    <3>2. voters' = {}
      BY <2>1, EmptyConfigFacts DEF acceptConfig, VotesInv
    <3> QED
      BY <3>1, <3>2 DEF VotesInv
  <2>2. ASSUME NEW signer \in SignersOf(candidate), Sign(signer)
        PROVE  VotesInv'
    BY <2>2 DEF Sign, VotesInv
  <2>3. CASE Recount
    BY <2>3 DEF Recount, VotesInv
  <2>4. CASE UNCHANGED <<candidate, voters>>
    BY <2>4 DEF VotesInv
  <2> QED
    BY <2>1, <2>2, <2>3, <2>4 DEF VotesNext
<1> QED
  BY <1>1, <1>2, PTL DEF VotesSpec

\* The vote count of setRoot, which climbs the tree vote by vote, reaches the
\* quorum of the root exactly when the documentation of Config calls the root
\* group successful, for every tree, every quorum and every set of signatures.
THEOREM VoteCountIsMeaning == VotesSpec => []RootReachedIffSuccessful
<1>1. VotesInv => RootReachedIffSuccessful
  BY ReachedIffSuccessful DEF VotesInv, RootReachedIffSuccessful
<1> QED
  BY <1>1, VotesInvariant, PTL

\* setConfig accepts no configuration that its signers together could not use.
THEOREM AcceptedConfigsAreUsable == VotesSpec => []AllSignersSuffice
<1>1. VotesInv => AllSignersSuffice
  <2> SUFFICES ASSUME VotesInv, candidate # EmptyConfig, voters = SignersOf(candidate)
               PROVE  RootGroupReached(candidate, voters)
    BY DEF AllSignersSuffice
  <2>1. Accepted(candidate)
    BY DEF VotesInv
  <2>2. candidate.groupQuorums[0] > 0 /\ 0 \in Group
    BY <2>1, RootIsEnabled, GroupType, Zenon
  <2>3. SuccessfulChildren(candidate, SignersOf(candidate))[0] >= candidate.groupQuorums[0]
    BY <2>1, <2>2, EverybodySucceeds
  <2>4. Successful(candidate, voters, 0)
    BY <2>2, <2>3 DEF Successful
  <2> QED
    BY <2>1, <2>4, ReachedIffSuccessful
<1> QED
  BY <1>1, VotesInvariant, PTL

\* The signatures setRoot accepted a root with are those of signers of the
\* configuration of that moment, and made its root group successful.
THEOREM RootsNeedAQuorum == Spec => []RootSetByQuorum
<1>1. IInv => RootReached
  BY DEF IInv
<1>2. RootReached => RootSetByQuorum
  BY ReachedIffSuccessful, Zenon DEF RootReached, RootSetByQuorum
<1> QED
  BY InvariantHolds, <1>1, <1>2, PTL

=============================================================================
