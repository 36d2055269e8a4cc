------------------------------ MODULE OffRamp -------------------------------
(***************************************************************************)
(* The OffRamp of contracts/contracts/ccip/offramp.tolk with the MerkleRoot *)
(* contracts it deploys through Deployable: oracles commit the Merkle      *)
(* roots of the messages of source chains, one contract per root.          *)
(*                                                                         *)
(* A root names its source chain, its interval of sequence numbers and its *)
(* hash; the hash is the id of its contract.  Prices of a report leave for *)
(* the FeeQuoter.  A message to a root's contract that throws bounces, and *)
(* the OffRamp ignores the bounce.                                         *)
(*                                                                         *)
(* The oracle network is external.  TrueRoots and TruePrices are what it   *)
(* observes while the configuration of a digest is in force.  An honest    *)
(* oracle signs reports of nothing else under that digest; Faulty oracles  *)
(* sign anything.                                                          *)
(***************************************************************************)
EXTENDS OCR3Base, Lists

CONSTANTS
    Owner,                      \* no message changes it
    SourceChain, Hash,
    TrueRoots, TruePrices,      \* [Digest -> what is observed]
    Faulty,
    Configs,                    \* the OCR3Base_SetOCR3Config messages considered
    CommitReports, ExecutionReports,
    Sender,
    MaxSignatures, MaxCommits   \* bounds

VARIABLES
    sourceChainConfigs,         \* [SourceChain -> isEnabled or Absent]
    initializing,               \* the roots of the Initialize messages in flight
    merkleRoots,                \* [Hash -> report of the MerkleRoot contract or Absent]
    priceUpdates,               \* history: the prices forwarded to the FeeQuoter
    accepted,                   \* the CommitReportAccepted events, in order; history: the
                                \* digest in force, and whether all signatures were read
    executed                    \* history: the execution reports transmitted

vars == <<ocr3Base, sourceChainConfigs, initializing, merkleRoots, priceUpdates, accepted, executed>>

MerkleRoot == [sourceChainSelector : SourceChain, seqNrs : Nat \X Nat, merkleRoot : Hash]

\* A report is true when all it says is.
IsTrue(report, digest) ==
    /\ report.priceUpdates \in TruePrices[digest] \cup {Absent}
    /\ \A i \in DOMAIN report.merkleRoots : report.merkleRoots[i] \in TrueRoots[digest]

\* The signatures there are, over a report and a context.
Signatures(report, context) ==
    [signer : IF IsTrue(report, context.configDigest) THEN Signer ELSE Faulty,
     signed : {hashReport(report, context)}]

ASSUME RootAssumption ==
    /\ \A report \in CommitReports : report.merkleRoots \in Seq(MerkleRoot)
    /\ Absent \notin MerkleRoot
    /\ Absent \notin Config

\* The owner configures oracles of which at most bigF are faulty.
ASSUME ConfigAssumption ==
    /\ IsFiniteSet(Signer) /\ Faulty \subseteq Signer
    /\ \A msg \in Configs :
           /\ msg.ocrPluginType \in Plugin /\ msg.bigF \in Nat /\ msg.configDigest \in Digest
           /\ msg.isSignatureVerificationEnabled \in BOOLEAN
           /\ IsVector(msg.signers, Signer) /\ IsVector(msg.transmitters, Transmitter)
           /\ msg.isSignatureVerificationEnabled =>
                  Cardinality({msg.signers.items[i] : i \in DOMAIN msg.signers.items} \cap Faulty) <= msg.bigF

ASSUME BoundAssumption == MAX_NUM_ORACLES \in Nat /\ MaxSignatures \in Nat /\ MaxCommits \in Nat

-----------------------------------------------------------------------------
IsEnabled(chain) == sourceChainConfigs[chain] = TRUE

MutFirstRootOnly(report) ==
    IF report.merkleRoots = << >> THEN initializing ELSE Append(initializing, Head(report.merkleRoots))

\* One Initialize message for each root of the report.
InitializeEach(report) == initializing \o report.merkleRoots

\* The messages are sent only if nothing throws.
commit(sender, context, report, signatures) ==
    /\ Len(accepted) < MaxCommits
    /\ \A i \in DOMAIN report.merkleRoots : IsEnabled(report.merkleRoots[i].sourceChainSelector)
    /\ Transmits(sender, "commit", context, report, signatures)
    /\ initializing' = InitializeEach(report)
    /\ priceUpdates' = priceUpdates \cup ({report.priceUpdates} \ {Absent})
    /\ accepted' = Append(accepted, [report |-> report, digest |-> ocr3Base["commit"].configDigest,
                                     allRead |-> signatures.size = Len(signatures.items)])
    /\ UNCHANGED <<ocr3Base, sourceChainConfigs, merkleRoots, executed>>

\* A report carries the selectors of its messages and the root they make with
\* its proof; the root is Absent where merkleRoot throws.
execute(sender, context, report) ==
    /\ IsEnabled(report.sourceChainSelector)
    /\ \A message \in report.messages :
           message.destIsThis /\ message.sourceChainSelector = report.sourceChainSelector
    /\ report.root # Absent
    /\ Transmits(sender, "execute", context, report, Vector(<< >>))
    /\ executed' = executed \cup {report}
    /\ UNCHANGED <<ocr3Base, sourceChainConfigs, initializing, merkleRoots, priceUpdates, accepted>>

setOCR3Config(sender, msg) ==
    /\ sender = Owner
    /\ setOcr3Config(msg)
    /\ UNCHANGED <<sourceChainConfigs, initializing, merkleRoots, priceUpdates, accepted, executed>>

updateSourceChainConfig(sender, chain, enabled) ==
    /\ sender = Owner
    /\ sourceChainConfigs' = [sourceChainConfigs EXCEPT ![chain] = enabled]
    /\ UNCHANGED <<ocr3Base, initializing, merkleRoots, priceUpdates, accepted, executed>>

MutReinitializes(hash, root) == [merkleRoots EXCEPT ![hash] = root]

\* Initialize turns the Deployable stub into the MerkleRoot contract, which
\* throws at a further one.
Initialized(hash, root) ==
    IF merkleRoots[hash] = Absent THEN [merkleRoots EXCEPT ![hash] = root] ELSE merkleRoots

\* The messages to one contract arrive in their order.
DeliverInitialize(hash) ==
    \E i \in DOMAIN initializing :
        /\ initializing[i].merkleRoot = hash
        /\ \A j \in 1 .. i - 1 : initializing[j].merkleRoot # hash
        /\ merkleRoots' = Initialized(hash, initializing[i])
        /\ initializing' = Without(initializing, i)
        /\ UNCHANGED <<ocr3Base, sourceChainConfigs, priceUpdates, accepted, executed>>

Init ==
    /\ ocr3Base = [plugin \in Plugin |-> Absent]
    /\ sourceChainConfigs = [chain \in SourceChain |-> Absent]
    /\ initializing = << >>
    /\ merkleRoots = [h \in Hash |-> Absent]
    /\ priceUpdates = {}
    /\ accepted = << >>
    /\ executed = {}

Contexts == [configDigest : Digest]

\* The vectors of at most MaxSignatures signatures, however they are laid out.
SignatureVectors(report, context) ==
    UNION {[items : [1 .. n -> Signatures(report, context)],
            size : IF n = 0 THEN {0} ELSE n .. MaxSignatures] : n \in 0 .. MaxSignatures}

Next ==
    \/ \E sender \in Sender, context \in Contexts :
           \/ \E report \in CommitReports :
                  \E signatures \in SignatureVectors(report, context) :
                      commit(sender, context, report, signatures)
           \/ \E report \in ExecutionReports : execute(sender, context, report)
    \/ \E sender \in Sender, msg \in Configs : setOCR3Config(sender, msg)
    \/ \E sender \in Sender, chain \in SourceChain, enabled \in BOOLEAN :
           updateSourceChainConfig(sender, chain, enabled)
    \/ \E h \in Hash : DeliverInitialize(h)

\* Every Initialize message is delivered.
Fairness == \A h \in Hash : WF_vars(DeliverInitialize(h))

Spec == Init /\ [][Next]_vars

FairSpec == Spec /\ Fairness

-----------------------------------------------------------------------------
(* Properties. *)

CommitVerified == ocr3Base["commit"] # Absent /\ ocr3Base["commit"].isSignatureVerificationEnabled

AcceptedRoots == Joined([i \in DOMAIN accepted |-> accepted[i].report.merkleRoots])

IsAccepted(root) == \E i \in DOMAIN accepted : root \in Range(accepted[i].report.merkleRoots)

\* While the commit plugin verifies signatures, a report commit accepted with a
\* vector whose signatures are all read says only what the oracles observed
\* under the configuration then in force, and not what they observed under an
\* earlier one: bigF + 1 distinct signatures hold an honest one, whatever oracle
\* sets were configured over time.  And nothing reaches the contract of a root
\* or the FeeQuoter that is not in an accepted report.
CommittedIsTrue ==
    /\ CommitVerified =>
           \A i \in DOMAIN accepted : accepted[i].allRead => IsTrue(accepted[i].report, accepted[i].digest)
    /\ priceUpdates \subseteq {accepted[i].report.priceUpdates : i \in DOMAIN accepted}
    /\ \A h \in Hash : merkleRoots[h] # Absent => IsAccepted(merkleRoots[h])

\* The contract of a root keeps the report it was deployed with, although any
\* report may be committed again.
RootKept ==
    [][\A h \in Hash : merkleRoots[h] # Absent => merkleRoots'[h] = merkleRoots[h]]_vars

\* Every hash in an accepted report eventually has a contract, which holds the
\* first root that was accepted with it.
AcceptedIsDeployed ==
    \A h \in Hash :
        (\E i \in DOMAIN AcceptedRoots : AcceptedRoots[i].merkleRoot = h)
            ~> \E i \in DOMAIN AcceptedRoots :
                   /\ AcceptedRoots[i] = merkleRoots[h]
                   /\ \A j \in 1 .. i - 1 : AcceptedRoots[j].merkleRoot # h

=============================================================================
