--------------------------- MODULE DeliveryProofs ---------------------------
(***************************************************************************)
(* Proofs about the two ends of the delivery of a report: the transaction  *)
(* manager of the relayer that sends it (Txm), and the OffRamp that takes  *)
(* it.                                                                     *)
(*                                                                         *)
(* OffRamp: under verification a report whose signatures are all read is   *)
(* true, only accepted roots and prices pass, and a root's contract keeps  *)
(* its report.  CommittedIsTrue is not inductive: it needs that the        *)
(* Initialize messages in flight are accepted as well, that every          *)
(* configuration has at most bigF faulty signers, and that nothing was     *)
(* accepted before the first configuration, which settles whether          *)
(* signatures are verified.                                                *)
(*                                                                         *)
(* Txm: what it records is true and in order, for any requests, any size   *)
(* of the channel and any number of attempts.  The invariant follows a     *)
(* request from the channel to the store.  The channel holds the last of   *)
(* the accepted requests (ChannelIsTail), the broadcast loop has the one   *)
(* before them in hand (InHand), and what is recorded comes from those     *)
(* before that one (RecordedBefore).                                       *)
(***************************************************************************)
EXTENDS OffRamp, Txm, FiniteSetTheorems, TLAPS

-----------------------------------------------------------------------------
(* OffRamp. *)

Accepted == [report : CommitReports, digest : Digest \cup {Absent}, allRead : BOOLEAN]

Rooted ==
    /\ initializing \in Seq(MerkleRoot)
    /\ merkleRoots \in [Hash -> MerkleRoot \cup {Absent}]
    /\ accepted \in Seq(Accepted)

ConfigsFaultBounded ==
    \A plugin \in Plugin : ocr3Base[plugin] # Absent =>
        /\ ocr3Base[plugin] \in Config
        /\ ocr3Base[plugin].bigF > 0
        /\ ocr3Base[plugin].isSignatureVerificationEnabled =>
               Cardinality(DOMAIN ocr3Base[plugin].signers \cap Faulty) <= ocr3Base[plugin].bigF

NothingBeforeConfig == ocr3Base["commit"] = Absent => accepted = << >>

InFlightIsAccepted == \A i \in DOMAIN initializing : IsAccepted(initializing[i])

IInv ==
    /\ DOMAIN ocr3Base = Plugin
    /\ Rooted
    /\ ConfigsFaultBounded
    /\ NothingBeforeConfig
    /\ InFlightIsAccepted
    /\ CommittedIsTrue

\* More signers than there are faulty ones include an honest one: a report
\* that passes verification with all its signatures read is true under the
\* digest it was signed with.
LEMMA VerifiedIsTrue ==
    ASSUME NEW signers, NEW F \in Nat, NEW report, NEW context, NEW n \in Nat, NEW signatures,
           signatures.items \in [1 .. n -> Signatures(report, context)],
           n = F + 1,
           verifySignature(signers, hashReport(report, context), signatures),
           Cardinality(DOMAIN signers \cap Faulty) <= F
    PROVE  IsTrue(report, context.configDigest)
<1> SUFFICES ASSUME ~IsTrue(report, context.configDigest) PROVE FALSE
  OBVIOUS
<1> DEFINE B == DOMAIN signers \cap Faulty
           read == signatures.items
           f == [i \in 1 .. F + 1 |-> read[i].signer]
<1>1. DOMAIN read = 1 .. F + 1
  <2>1. read \in [1 .. F + 1 -> Signatures(report, context)]
    OBVIOUS
  <2> HIDE DEF read
  <2> QED
    BY <2>1, Zenon
<1>2. \A i \in 1 .. F + 1 : read[i].signer \in B
  BY <1>1 DEF Signatures, verifySignature
<1>3. \A i, j \in 1 .. F + 1 : i < j => read[i].signer # read[j].signer
  <2> SUFFICES ASSUME NEW i \in 1 .. F + 1, NEW j \in 1 .. F + 1, i < j
               PROVE  read[i].signer # read[j].signer
    OBVIOUS
  <2>1. i \in 1 .. j - 1
    OBVIOUS
  <2>2. signers[read[j].signer] \notin {signers[read[k].signer] : k \in 1 .. j - 1}
    BY <1>1, Zenon DEF verifySignature
  <2> QED
    BY <2>1, <2>2, Zenon
<1>4. f \in Injection(1 .. F + 1, B)
  <2>1. \A i, j \in 1 .. F + 1 : f[i] = f[j] => i = j
    BY <1>3
  <2> QED
    BY <1>2, <2>1 DEF Injection, IsInjective
<1>5. IsFiniteSet(B)
  BY ConfigAssumption, FS_Subset
<1>6. Cardinality(1 .. F + 1) <= Cardinality(B)
  BY <1>4, <1>5, FS_Injection
<1>7. Cardinality(1 .. F + 1) = F + 1
  BY FS_Interval
<1>8. Cardinality(B) \in Nat
  BY <1>5, FS_CardinalityType
<1> QED
  BY <1>6, <1>7, <1>8

\* The dictionary of a vector has the members of the vector for its keys.
LEMMA IndexedFacts ==
    ASSUME NEW V, NEW vector \in Seq(V), Len(vector) \in 1 .. MAX_NUM_ORACLES
    PROVE  /\ Indexed(vector) \in Dictionary(V)
           /\ DOMAIN Indexed(vector) = {vector[i] : i \in DOMAIN vector}
<1> DEFINE keys == {vector[i] : i \in DOMAIN vector}
<1>1. keys \in SUBSET V
  OBVIOUS
<1>2. \A x \in keys : (CHOOSE i \in DOMAIN vector : vector[i] = x) \in DOMAIN vector
  OBVIOUS
<1>3. DOMAIN vector \subseteq 1 .. MAX_NUM_ORACLES
  BY BoundAssumption
<1>4. Indexed(vector) \in [keys -> 1 .. MAX_NUM_ORACLES]
  BY <1>2, <1>3 DEF Indexed
<1> QED
  BY <1>1, <1>4, Zenon DEF Dictionary, Indexed

\* The dictionary of the empty vector is empty.
LEMMA EmptyIndexed == \A V : Indexed(<< >>) \in Dictionary(V)
<1> TAKE V
<1>1. Indexed(<< >>) \in [{} -> 1 .. MAX_NUM_ORACLES]
  BY DEF Indexed
<1> QED
  BY <1>1 DEF Dictionary

\* Where the members of a concatenation come from.
LEMMA ConcatFacts ==
    ASSUME NEW S, NEW a \in Seq(S), NEW b \in Seq(S)
    PROVE  /\ a \o b \in Seq(S) /\ Len(a \o b) = Len(a) + Len(b)
           /\ \A k \in 1 .. Len(a) : (a \o b)[k] = a[k]
           /\ \A k \in Len(a) + 1 .. Len(a) + Len(b) : (a \o b)[k] = b[k - Len(a)]
OBVIOUS

\* The places of a sequence.
LEMMA Places == ASSUME NEW S, NEW s \in Seq(S) PROVE DOMAIN s = 1 .. Len(s)
OBVIOUS

\* A member of a concatenation is a member of one of the two.
LEMMA ConcatMembers ==
    ASSUME NEW S, NEW a \in Seq(S), NEW b \in Seq(S), NEW k \in DOMAIN (a \o b)
    PROVE  \/ \E j \in DOMAIN a : (a \o b)[k] = a[j]
           \/ \E j \in DOMAIN b : (a \o b)[k] = b[j]
<1>1. k \in 1 .. Len(a) + Len(b) /\ Len(a) \in Nat /\ Len(b) \in Nat
  OBVIOUS
<1>2. CASE k <= Len(a)
  BY <1>1, <1>2
<1>3. CASE k > Len(a)
  <2>1. k - Len(a) \in DOMAIN b /\ (a \o b)[k] = b[k - Len(a)]
    BY <1>1, <1>3
  <2> QED
    BY <2>1, Zenon
<1> QED
  BY <1>1, <1>2, <1>3

\* Removing a member leaves the others.
LEMMA WithoutFacts ==
    ASSUME NEW S, NEW s \in Seq(S), NEW i \in DOMAIN s
    PROVE  /\ Without(s, i) \in Seq(S)
           /\ \A k \in DOMAIN Without(s, i) : \E j \in DOMAIN s : Without(s, i)[k] = s[j]
<1> DEFINE a == SubSeq(s, 1, i - 1)
           b == SubSeq(s, i + 1, Len(s))
<1>1. /\ a \in Seq(S) /\ Len(a) = i - 1
      /\ \A k \in 1 .. i - 1 : a[k] = s[k]
  OBVIOUS
<1>2. /\ b \in Seq(S) /\ Len(b) = Len(s) - i
      /\ \A k \in 1 .. Len(s) - i : b[k] = s[i + k]
  OBVIOUS
<1> HIDE DEF a, b
<1>3. a \o b \in Seq(S) /\ Len(a \o b) = Len(a) + Len(b)
  BY <1>1, <1>2, ConcatFacts, Zenon
<1>4. \A k \in DOMAIN (a \o b) : \E j \in DOMAIN s : (a \o b)[k] = s[j]
  <2> SUFFICES ASSUME NEW k \in 1 .. Len(a) + Len(b) PROVE \E j \in DOMAIN s : (a \o b)[k] = s[j]
    BY <1>3, Places, Zenon
  <2>1. CASE k <= i - 1
    <3>1. (a \o b)[k] = s[k] /\ k \in DOMAIN s
      <4>1. k \in 1 .. Len(a) /\ k \in 1 .. i - 1 /\ k \in DOMAIN s
        BY <1>1, <1>2, <2>1
      <4>2. (a \o b)[k] = a[k]
        BY <4>1, <1>1, <1>2, ConcatFacts, ZenonT(30)
      <4> QED
        BY <4>1, <4>2, <1>1, Zenon
    <3> QED
      BY <3>1
  <2>2. CASE k > i - 1
    <3>1. k - Len(a) \in 1 .. Len(s) - i /\ k - Len(a) \in DOMAIN b
      BY <1>1, <1>2, <2>2, SMTT(30)
    <3>2. (a \o b)[k] = b[k - Len(a)]
      <4>1. k \in Len(a) + 1 .. Len(a) + Len(b)
        BY <1>1, <1>2, <2>2, SMTT(30)
      <4> QED
        BY <4>1, <1>1, <1>2, ConcatFacts, ZenonT(30)
    <3>3. b[k - Len(a)] = s[i + (k - Len(a))] /\ i + (k - Len(a)) \in DOMAIN s
      BY <1>2, <3>1
    <3> QED
      BY <3>2, <3>3
  <2> QED
    BY <1>1, <2>1, <2>2
<1> QED
  BY <1>3, <1>4, Zenon DEF Without, a, b

\* One more accepted report.
LEMMA AcceptFacts ==
    ASSUME NEW S, NEW s \in Seq(S), NEW x \in S
    PROVE  /\ Append(s, x) \in Seq(S)
           /\ DOMAIN Append(s, x) = DOMAIN s \cup {Len(s) + 1}
           /\ \A i \in DOMAIN s : Append(s, x)[i] = s[i]
           /\ Append(s, x)[Len(s) + 1] = x
OBVIOUS

\* A commit hands on what it accepts, and accepts what passed verification.
LEMMA CommitIInv ==
    ASSUME IInv, NEW sender, NEW context, NEW report \in CommitReports,
           NEW signatures \in SignatureVectors(report, context),
           commit(sender, context, report, signatures)
    PROVE  IInv'
<1> DEFINE config == ocr3Base["commit"]
           event == [report |-> report, digest |-> config.configDigest,
                     allRead |-> signatures.size = Len(signatures.items)]
           last == Len(accepted) + 1
           IsAcceptedThen(root) == \E i \in DOMAIN accepted' : root \in Range(accepted'[i].report.merkleRoots)
<1>1. /\ config # Absent /\ "commit" \in Plugin
      /\ context.configDigest = config.configDigest
      /\ config.isSignatureVerificationEnabled =>
             /\ signatures.size = config.bigF + 1
             /\ verifySignature(config.signers, hashReport(report, context), signatures)
  BY DEF commit, Transmits, Plugin
<1>2. /\ config \in Config /\ config.bigF \in Nat
      /\ config.isSignatureVerificationEnabled =>
             Cardinality(DOMAIN config.signers \cap Faulty) <= config.bigF
  BY <1>1, Zenon DEF IInv, ConfigsFaultBounded, Config
<1>3. PICK n \in 0 .. MaxSignatures :
        signatures.items \in [1 .. n -> Signatures(report, context)] /\ Len(signatures.items) = n
  BY BoundAssumption DEF SignatureVectors
<1>4. ASSUME CommitVerified, event.allRead
      PROVE  IsTrue(event.report, event.digest)
  <2>1. n = config.bigF + 1 /\ n \in Nat
    <3>1. signatures.size = Len(signatures.items)
      BY <1>4, Zenon
    <3>2. signatures.size = config.bigF + 1
      BY <1>1, <1>4, Zenon DEF CommitVerified
    <3> QED
      BY <1>3, <3>1, <3>2, BoundAssumption
  <2>2. IsTrue(report, context.configDigest)
    BY <1>1, <1>2, <1>3, <1>4, <2>1, VerifiedIsTrue, Zenon DEF CommitVerified
  <2> QED
    BY <1>1, <2>2
<1>5. /\ initializing' = initializing \o report.merkleRoots
      /\ priceUpdates' = priceUpdates \cup ({report.priceUpdates} \ {Absent})
      /\ accepted' = Append(accepted, event)
      /\ UNCHANGED <<ocr3Base, merkleRoots>>
  BY DEF commit, InitializeEach
<1>6. report.merkleRoots \in Seq(MerkleRoot) /\ initializing \in Seq(MerkleRoot)
  BY RootAssumption DEF IInv, Rooted
<1>7. accepted \in Seq(Accepted) /\ event \in Accepted
  BY <1>2 DEF IInv, Rooted, Accepted, Config
<1>8. event.report = report
  OBVIOUS
<1> HIDE DEF event, config
<1>9. /\ accepted' \in Seq(Accepted) /\ DOMAIN accepted' = DOMAIN accepted \cup {last}
      /\ \A i \in DOMAIN accepted : accepted'[i] = accepted[i]
      /\ accepted'[last] = event
  <2>1. /\ Append(accepted, event) \in Seq(Accepted)
        /\ DOMAIN Append(accepted, event) = DOMAIN accepted \cup {Len(accepted) + 1}
        /\ \A i \in DOMAIN accepted : Append(accepted, event)[i] = accepted[i]
        /\ Append(accepted, event)[Len(accepted) + 1] = event
    BY <1>7, AcceptFacts
  <2> QED
    BY <1>5, <2>1, Zenon
<1> HIDE DEF last
<1>10. Rooted'
  <2>1. initializing' \in Seq(MerkleRoot)
    BY <1>5, <1>6, ConcatFacts, Zenon
  <2> QED
    BY <1>5, <1>9, <2>1 DEF IInv, Rooted
<1>11. CommitVerified' = CommitVerified
  BY <1>5 DEF CommitVerified
<1>12. \A root : IsAccepted(root) => IsAcceptedThen(root)
  BY <1>9, Zenon DEF IsAccepted
<1>13. InFlightIsAccepted'
  <2>1. \A j \in DOMAIN report.merkleRoots : IsAcceptedThen(report.merkleRoots[j])
    BY <1>8, <1>9, Zenon DEF Range
  <2>2. \A j \in DOMAIN initializing : IsAcceptedThen(initializing[j])
    BY <1>12, Zenon DEF IInv, InFlightIsAccepted
  <2> SUFFICES ASSUME NEW k \in DOMAIN initializing' PROVE IsAcceptedThen(initializing'[k])
    BY Zenon DEF InFlightIsAccepted, IsAccepted
  <2>3. \/ \E j \in DOMAIN initializing : initializing'[k] = initializing[j]
        \/ \E j \in DOMAIN report.merkleRoots : initializing'[k] = report.merkleRoots[j]
    <3>1. k \in DOMAIN (initializing \o report.merkleRoots)
      BY <1>5, Zenon
    <3>2. \/ \E j \in DOMAIN initializing : (initializing \o report.merkleRoots)[k] = initializing[j]
          \/ \E j \in DOMAIN report.merkleRoots :
                 (initializing \o report.merkleRoots)[k] = report.merkleRoots[j]
      BY <3>1, <1>6, ConcatMembers, SMTT(30)
    <3> QED
      BY <1>5, <3>2, Zenon
  <2> QED
    BY <2>1, <2>2, <2>3, Zenon
<1>14. CommittedIsTrue'
  <2>1. ASSUME CommitVerified', NEW i \in DOMAIN accepted', accepted'[i].allRead
        PROVE  IsTrue(accepted'[i].report, accepted'[i].digest)
    <3>1. CASE i \in DOMAIN accepted
      BY <1>9, <1>11, <2>1, <3>1, Zenon DEF IInv, CommittedIsTrue
    <3>2. CASE i = last
      BY <1>4, <1>9, <1>11, <2>1, <3>2, Zenon
    <3> QED
      BY <1>9, <3>1, <3>2, Zenon
  <2>2. priceUpdates' \subseteq {accepted'[i].report.priceUpdates : i \in DOMAIN accepted'}
    <3> SUFFICES ASSUME NEW price \in priceUpdates'
                 PROVE  \E i \in DOMAIN accepted' : price = accepted'[i].report.priceUpdates
      OBVIOUS
    <3>1. CASE price \in priceUpdates
      BY <1>9, <3>1 DEF IInv, CommittedIsTrue
    <3>2. CASE price = report.priceUpdates
      BY <1>8, <1>9, <3>2
    <3> QED
      BY <1>5, <3>1, <3>2
  <2>3. \A h \in Hash : merkleRoots'[h] # Absent => IsAcceptedThen(merkleRoots'[h])
    BY <1>5, <1>12, Zenon DEF IInv, CommittedIsTrue
  <2> QED
    BY <2>1, <2>2, <2>3, Zenon DEF CommittedIsTrue, IsTrue, IsAccepted
<1>15. ConfigsFaultBounded' /\ NothingBeforeConfig' /\ DOMAIN ocr3Base' = Plugin
  BY <1>1, <1>5 DEF IInv, ConfigsFaultBounded, NothingBeforeConfig, config
<1> QED
  BY <1>10, <1>13, <1>14, <1>15 DEF IInv

\* The items of a vector of at most MAX_NUM_ORACLES.
LEMMA VectorFacts ==
    ASSUME NEW V, NEW v, IsVector(v, V), v.size \in 1 .. MAX_NUM_ORACLES
    PROVE  /\ Indexed(v.items) \in Dictionary(V)
           /\ DOMAIN Indexed(v.items) = {v.items[i] : i \in DOMAIN v.items}
           /\ v.size \in Nat
<1> DEFINE items == v.items
<1>1. items \in Seq(V) /\ Len(items) \in 1 .. MAX_NUM_ORACLES /\ v.size \in Nat
  <2>1. /\ items \in Seq(V) /\ v.size \in Nat /\ v.size >= Len(items) /\ v.size # 0
        /\ v.size <= MAX_NUM_ORACLES /\ items # << >>
    BY BoundAssumption DEF IsVector
  <2> HIDE DEF items
  <2> QED
    BY <2>1, BoundAssumption
<1> HIDE DEF items
<1>2. Indexed(items) \in Dictionary(V) /\ DOMAIN Indexed(items) = {items[i] : i \in DOMAIN items}
  BY <1>1, IndexedFacts, Zenon
<1> QED
  BY <1>1, <1>2, Zenon DEF items

\* A configuration keeps the choice made by the first.
LEMMA SetConfigIInv ==
    ASSUME IInv, NEW sender, NEW msg \in Configs, setOCR3Config(sender, msg)
    PROVE  IInv'
<1> DEFINE p == msg.ocrPluginType
           old == getConfig(p)
           verified == msg.isSignatureVerificationEnabled
           new == [configDigest |-> msg.configDigest, bigF |-> msg.bigF,
                   n |-> IF verified THEN msg.signers.size ELSE old.n,
                   isSignatureVerificationEnabled |-> verified,
                   signers |-> IF verified THEN Indexed(msg.signers.items) ELSE old.signers,
                   transmitters |-> Indexed(msg.transmitters.items)]
<1>1. /\ p \in Plugin /\ msg.bigF \in Nat /\ msg.configDigest \in Digest /\ verified \in BOOLEAN
      /\ IsVector(msg.signers, Signer) /\ IsVector(msg.transmitters, Transmitter)
      /\ verified =>
             Cardinality({msg.signers.items[i] : i \in DOMAIN msg.signers.items} \cap Faulty) <= msg.bigF
  BY ConfigAssumption, Zenon
<1>2. /\ ocr3Base' = [ocr3Base EXCEPT ![p] = new]
      /\ msg.bigF > 0 /\ StaticConfigKept(msg)
      /\ msg.transmitters.size \in 1 .. MAX_NUM_ORACLES
      /\ verified => msg.signers.size \in 1 .. MAX_NUM_ORACLES
      /\ UNCHANGED <<initializing, merkleRoots, priceUpdates, accepted>>
  BY DEF setOCR3Config, setOcr3Config, SignersValid
<1>3. new \in Config
  <2>1. old \in Config
    <3>1. CASE ocr3Base[p] = Absent
      <4>1. Indexed(<< >>) \in Dictionary(Signer) /\ Indexed(<< >>) \in Dictionary(Transmitter)
        BY EmptyIndexed
      <4> QED
        BY <3>1, <4>1 DEF getConfig, newOCRConfig, Config
    <3>2. CASE ocr3Base[p] # Absent
      BY <1>1, <3>2, Zenon DEF getConfig, IInv, ConfigsFaultBounded
    <3> QED
      BY <3>1, <3>2
  <2>2. Indexed(msg.transmitters.items) \in Dictionary(Transmitter)
    BY <1>1, <1>2, VectorFacts, Zenon
  <2>3. verified => Indexed(msg.signers.items) \in Dictionary(Signer) /\ msg.signers.size \in Nat
    BY <1>1, <1>2, VectorFacts, Zenon
  <2> HIDE DEF old
  <2> QED
    BY <1>1, <2>1, <2>2, <2>3 DEF Config
<1>4. verified => Cardinality(DOMAIN new.signers \cap Faulty) <= new.bigF
  BY <1>1, <1>2, VectorFacts, Zenon
<1>5. ConfigsFaultBounded' /\ DOMAIN ocr3Base' = Plugin
  <2>1. \A plugin \in Plugin : ocr3Base'[plugin] = IF plugin = p THEN new ELSE ocr3Base[plugin]
    BY <1>1, <1>2 DEF IInv
  <2>2. new.bigF > 0 /\ new.isSignatureVerificationEnabled = verified
    BY <1>2
  <2> HIDE DEF new
  <2> QED
    BY <1>2, <1>3, <1>4, <2>1, <2>2, ZenonT(30) DEF IInv, ConfigsFaultBounded
<1>6. ocr3Base'["commit"] = IF p = "commit" THEN new ELSE ocr3Base["commit"]
  BY <1>1, <1>2 DEF IInv, Plugin
<1>7. new # Absent
  BY <1>3, RootAssumption
<1>8. NothingBeforeConfig' /\ Rooted'
  <2> HIDE DEF new
  <2> QED
    BY <1>2, <1>6, <1>7 DEF IInv, NothingBeforeConfig, Rooted
<1>9. InFlightIsAccepted'
  BY <1>2 DEF IInv, InFlightIsAccepted, IsAccepted
<1>10. ASSUME CommitVerified', accepted # << >>
       PROVE  CommitVerified
  <2>1. ocr3Base["commit"] # Absent
    BY <1>10 DEF IInv, NothingBeforeConfig
  <2>2. CASE p = "commit"
    <3>1. getConfig(p) = ocr3Base["commit"]
      BY <2>1, <2>2 DEF getConfig
    <3>2. ocr3Base["commit"].bigF # 0
      BY <2>1 DEF IInv, ConfigsFaultBounded, Plugin, Config
    <3>3. ocr3Base["commit"].isSignatureVerificationEnabled = verified
      BY <3>1, <3>2, <1>2 DEF StaticConfigKept
    <3>4. ocr3Base'["commit"].isSignatureVerificationEnabled = verified
      BY <1>6, <2>2
    <3> QED
      BY <1>10, <2>1, <3>3, <3>4 DEF CommitVerified
  <2>3. CASE p # "commit"
    BY <1>6, <1>10, <2>3 DEF CommitVerified
  <2> QED
    BY <2>2, <2>3
<1>11. CommittedIsTrue'
  <2>1. CASE accepted = << >>
    BY <1>2, <2>1 DEF IInv, CommittedIsTrue, IsAccepted
  <2>2. CASE accepted # << >>
    BY <1>2, <1>10, <2>2 DEF IInv, CommittedIsTrue, IsAccepted, IsTrue
  <2> QED
    BY <2>1, <2>2
<1> QED
  BY <1>5, <1>8, <1>9, <1>11 DEF IInv

\* The first Initialize message to arrive decides what a contract holds.
LEMMA DeliverIInv ==
    ASSUME IInv, NEW hash \in Hash, DeliverInitialize(hash)
    PROVE  IInv'
<1>1. PICK i \in DOMAIN initializing :
        /\ merkleRoots' = Initialized(hash, initializing[i])
        /\ initializing' = Without(initializing, i)
        /\ UNCHANGED <<ocr3Base, priceUpdates, accepted>>
  BY DEF DeliverInitialize
<1>2. initializing \in Seq(MerkleRoot) /\ initializing[i] \in MerkleRoot
  BY DEF IInv, Rooted
<1>3. /\ initializing' \in Seq(MerkleRoot)
      /\ \A k \in DOMAIN initializing' : \E j \in DOMAIN initializing : initializing'[k] = initializing[j]
  BY <1>1, <1>2, WithoutFacts
<1>4. Rooted'
  BY <1>1, <1>2, <1>3 DEF IInv, Rooted, Initialized
<1>5. CommitVerified' = CommitVerified
  BY <1>1 DEF CommitVerified
<1>6. accepted' = accepted
  BY <1>1
<1>7. InFlightIsAccepted' /\ CommittedIsTrue'
  <2>1. IsAccepted(initializing[i])
    BY DEF IInv, InFlightIsAccepted
  <2>2. \A k \in DOMAIN initializing' : IsAccepted(initializing'[k])
    BY <1>3, Zenon DEF IInv, InFlightIsAccepted
  <2>3. InFlightIsAccepted'
    BY <1>6, <2>2, Zenon DEF InFlightIsAccepted, IsAccepted
  <2>4. \A h \in Hash : merkleRoots'[h] # Absent => merkleRoots'[h] \in {merkleRoots[h], initializing[i]}
    BY <1>1, <1>2 DEF IInv, Rooted, Initialized
  <2>5. \A h \in Hash : merkleRoots'[h] # Absent => IsAccepted(merkleRoots'[h])
    BY <2>1, <2>4, Zenon DEF IInv, CommittedIsTrue
  <2>6. CommittedIsTrue'
    BY <1>1, <1>5, <2>5, Zenon DEF IInv, CommittedIsTrue, IsTrue, IsAccepted
  <2> QED
    BY <2>3, <2>6
<1>8. NothingBeforeConfig' /\ ConfigsFaultBounded' /\ DOMAIN ocr3Base' = Plugin
  BY <1>1, <1>2, Zenon DEF IInv, NothingBeforeConfig, ConfigsFaultBounded
<1> QED
  BY <1>4, <1>7, <1>8 DEF IInv

\* The invariant holds initially.
LEMMA InitIInv == Init => IInv
<1> SUFFICES ASSUME Init PROVE IInv
  OBVIOUS
<1> USE DEF Init
<1>1. Rooted
  BY DEF Rooted
<1>2. ConfigsFaultBounded /\ NothingBeforeConfig /\ DOMAIN ocr3Base = Plugin
  BY DEF ConfigsFaultBounded, NothingBeforeConfig, Plugin
<1>3. ~CommitVerified
  BY DEF CommitVerified, Plugin
<1> QED
  BY <1>1, <1>2, <1>3 DEF IInv, InFlightIsAccepted, CommittedIsTrue

\* Every step preserves the invariant.
LEMMA NextIInv == IInv /\ [Next]_vars => IInv'
<1> SUFFICES ASSUME IInv, [Next]_vars PROVE IInv'
  OBVIOUS
<1>1. ASSUME UNCHANGED <<ocr3Base, initializing, merkleRoots, priceUpdates, accepted>>
      PROVE  IInv'
  BY <1>1, ZenonT(30) DEF IInv, Rooted, ConfigsFaultBounded, NothingBeforeConfig, InFlightIsAccepted,
              CommittedIsTrue, CommitVerified, IsAccepted, IsTrue
<1>2. ASSUME NEW sender \in Sender, NEW context \in Contexts, NEW report \in CommitReports,
             NEW signatures \in SignatureVectors(report, context),
             commit(sender, context, report, signatures)
      PROVE  IInv'
  BY <1>2, CommitIInv, Zenon
<1>3. ASSUME NEW sender \in Sender, NEW context \in Contexts, NEW report \in ExecutionReports,
             execute(sender, context, report)
      PROVE  IInv'
  BY <1>1, <1>3 DEF execute
<1>4. ASSUME NEW sender \in Sender, NEW msg \in Configs, setOCR3Config(sender, msg)
      PROVE  IInv'
  BY <1>4, SetConfigIInv
<1>5. ASSUME NEW sender \in Sender, NEW source \in SourceChain, NEW enabled \in BOOLEAN,
             updateSourceChainConfig(sender, source, enabled)
      PROVE  IInv'
  BY <1>1, <1>5 DEF updateSourceChainConfig
<1>6. ASSUME NEW h \in Hash, DeliverInitialize(h)
      PROVE  IInv'
  BY <1>6, DeliverIInv
<1>7. CASE UNCHANGED vars
  BY <1>1, <1>7 DEF vars
<1> QED
  BY <1>2, <1>3, <1>4, <1>5, <1>6, <1>7 DEF Next

\* The invariant holds in every reachable state.
LEMMA InvariantHolds == Spec => []IInv
BY InitIInv, NextIInv, PTL DEF Spec

\* While signatures are verified, a report accepted with all its signatures
\* read says only what was observed under the configuration in force, and only
\* accepted roots and prices go further: for any sequence of oracle sets with
\* at most bigF faulty members each.
THEOREM OnlyTrueIsCommitted == Spec => []CommittedIsTrue
<1>1. IInv => CommittedIsTrue
  BY DEF IInv
<1> QED
  BY <1>1, InvariantHolds, PTL

\* The contract of a root never changes its report, however often Initialize
\* is sent to it.
THEOREM RootsAreKept == Spec => RootKept
<1>1. IInv /\ [Next]_vars =>
          [\A h \in Hash : merkleRoots[h] # Absent => merkleRoots'[h] = merkleRoots[h]]_vars
  <2> SUFFICES ASSUME IInv, [Next]_vars, NEW h \in Hash, merkleRoots[h] # Absent
               PROVE  merkleRoots'[h] = merkleRoots[h]
    OBVIOUS
  <2>1. CASE \E g \in Hash : DeliverInitialize(g)
    BY <2>1, SMTT(30) DEF DeliverInitialize, Initialized, IInv, Rooted
  <2>2. CASE ~\E g \in Hash : DeliverInitialize(g)
    BY <2>2, Zenon DEF Next, vars, commit, execute, setOCR3Config, updateSourceChainConfig
  <2> QED
    BY <2>1, <2>2
<1> QED
  BY <1>1, InvariantHolds, PTL DEF Spec, RootKept

-----------------------------------------------------------------------------
(* Txm. *)

\* How many of the accepted requests the broadcast loop has received.
Taken == Len(enqueued) - Len(BroadcastChan)

Busy == broadcaster.at \in {"send", "delay"}

\* How many of them are behind it.
Past == IF Busy THEN Taken - 1 ELSE Taken

TypeOK ==
    /\ BroadcastChan \in Seq(Request)
    /\ enqueued \in Seq(Request)
    /\ walletTxs \in Seq(Request)
    /\ traces \in Seq({"open", "succeeded", "failed"})
    /\ broadcaster \in [at : {"select", "stopped"}]
                       \cup [at : {"send", "delay"}, tx : Request, attempt : Nat]
    /\ unconfirmedTxs \subseteq [LT : Nat, Tx : Request]
    /\ finalizedTxs \subseteq [LT : Nat, Tx : Request, TraceSucceeded : BOOLEAN]

EnqueuedOnce == \A i, j \in DOMAIN enqueued : enqueued[i] = enqueued[j] => i = j

ChannelIsTail ==
    /\ Taken \in Nat
    /\ \A i \in DOMAIN BroadcastChan : BroadcastChan[i] = enqueued[Taken + i]

InHand == Busy => Taken >= 1 /\ broadcaster.tx = enqueued[Taken]

RecordedBefore == \A r \in Recorded : \E i \in 1 .. Past : enqueued[i] = r.Tx

RecordedOnce == \A r1, r2 \in Recorded : r1.Tx = r2.Tx => r1 = r2

OnChain == \A r \in Recorded : r.LT \in DOMAIN walletTxs /\ walletTxs[r.LT] = r.Tx

TracesFollow == Len(traces) = Len(walletTxs)

OneMap == \A u \in unconfirmedTxs, f \in finalizedTxs : u.LT # f.LT

Outcome(f) == IF f.TraceSucceeded THEN "succeeded" ELSE "failed"

FinalizedTrue == \A f \in finalizedTxs : traces[f.LT] = Outcome(f)

Store == OnChain /\ OneMap /\ RecordedOnce /\ RecordedInOrder

TxmIInv ==
    /\ TypeOK
    /\ EnqueuedOnce /\ ChannelIsTail /\ InHand /\ RecordedBefore
    /\ TracesFollow /\ Store /\ FinalizedTrue

-----------------------------------------------------------------------------

\* Before anything is enqueued nothing is recorded.
LEMMA InitInv == TxmInit => TxmIInv
BY DEF TxmInit, NewTxStore, Selecting, TxmIInv, TypeOK, EnqueuedOnce, ChannelIsTail, InHand, RecordedBefore,
       TracesFollow, Store, OnChain, OneMap, RecordedOnce, RecordedInOrder, FinalizedTrue, Recorded,
       Taken, Busy, Past

\* What is in one of the maps was executed at its logical time.
LEMMA StoredIsOnChain ==
    ASSUME OnChain
    PROVE  \A x \in unconfirmedTxs \cup finalizedTxs : x.LT \in DOMAIN walletTxs /\ walletTxs[x.LT] = x.Tx
<1> TAKE x \in unconfirmedTxs \cup finalizedTxs
<1>1. [LT |-> x.LT, Tx |-> x.Tx] \in Recorded
  BY DEF Recorded
<1> QED BY <1>1 DEF OnChain

\* Close and the steps of the confirm loop that finalize nothing.
LEMMA IdleStep ==
    ASSUME TxmIInv,
           UNCHANGED <<BroadcastChan, broadcaster, store, chain, enqueued>>
    PROVE  TxmIInv'
BY DEF TxmIInv, TypeOK, EnqueuedOnce, ChannelIsTail, InHand, RecordedBefore, TracesFollow, Store, OnChain,
       OneMap, RecordedOnce, RecordedInOrder, FinalizedTrue, Outcome, Recorded, Taken, Busy, Past, store, chain

\* A new request comes last in the channel and among the accepted ones.
LEMMA EnqueueStep ==
    ASSUME TxmIInv, NEW request \in Request, Enqueue(request)
    PROVE  TxmIInv'
<1>1. /\ enqueued' = Append(enqueued, request) /\ BroadcastChan' = Append(BroadcastChan, request)
      /\ Len(enqueued') = Len(enqueued) + 1 /\ Len(BroadcastChan') = Len(BroadcastChan) + 1
      /\ enqueued' \in Seq(Request) /\ BroadcastChan' \in Seq(Request)
      /\ \A i \in DOMAIN enqueued : enqueued'[i] = enqueued[i]
      /\ \A i \in DOMAIN BroadcastChan : BroadcastChan'[i] = BroadcastChan[i]
      /\ enqueued'[Len(enqueued) + 1] = request /\ BroadcastChan'[Len(BroadcastChan) + 1] = request
      /\ DOMAIN enqueued' = 1 .. Len(enqueued) + 1 /\ DOMAIN enqueued = 1 .. Len(enqueued)
      /\ DOMAIN BroadcastChan' = 1 .. Len(BroadcastChan) + 1 /\ DOMAIN BroadcastChan = 1 .. Len(BroadcastChan)
      /\ Len(enqueued) \in Nat /\ Len(BroadcastChan) \in Nat
  BY DEF Enqueue, TxmIInv, TypeOK
<1>2. UNCHANGED <<broadcaster, unconfirmedTxs, finalizedTxs, walletTxs, traces>>
  BY DEF Enqueue, store, chain
<1>3. TypeOK' /\ TracesFollow' /\ FinalizedTrue' /\ OnChain' /\ OneMap' /\ RecordedOnce'
  BY <1>1, <1>2, SMTT(30) DEF TxmIInv, TypeOK, TracesFollow, FinalizedTrue, Outcome, Store, OnChain, OneMap, RecordedOnce, Recorded
<1>4. Taken' = Taken /\ Past' = Past /\ Busy' = Busy /\ Taken \in Nat /\ Taken <= Len(enqueued) /\ Past \in Int /\ Past <= Taken
  BY <1>1, <1>2, SMTT(30) DEF Taken, Past, Busy, TxmIInv, ChannelIsTail
<1>5. EnqueuedOnce'
  <2>1. \A i \in DOMAIN enqueued : enqueued[i] # request
    BY DEF Enqueue, Range
  <2> QED BY <1>1, <2>1 DEF EnqueuedOnce, TxmIInv
<1>6. ChannelIsTail'
  <2>1. Taken + (Len(BroadcastChan) + 1) = Len(enqueued) + 1
    BY <1>1 DEF Taken
  <2>2. \A i \in DOMAIN BroadcastChan : Taken + i \in DOMAIN enqueued
    BY <1>1, <1>4 DEF Taken
  <2> QED BY <1>1, <1>4, <2>1, <2>2, SMTT(30) DEF ChannelIsTail, TxmIInv
<1>7. InHand'
  BY <1>1, <1>2, <1>4, SMTT(30) DEF InHand, TxmIInv
<1>8. RecordedBefore'
  BY <1>1, <1>2, <1>4, SMTT(30) DEF RecordedBefore, Recorded, TxmIInv
<1>9. RecordedInOrder'
  <2> SUFFICES ASSUME NEW r1 \in Recorded, NEW r2 \in Recorded, r1.LT < r2.LT
               PROVE  \E i, j \in DOMAIN enqueued' : i < j /\ enqueued'[i] = r1.Tx /\ enqueued'[j] = r2.Tx
    BY <1>2 DEF RecordedInOrder, Recorded
  <2>1. PICK i, j \in DOMAIN enqueued : i < j /\ enqueued[i] = r1.Tx /\ enqueued[j] = r2.Tx
    BY DEF RecordedInOrder, TxmIInv, Store
  <2>2. i \in DOMAIN enqueued' /\ j \in DOMAIN enqueued'
    BY <1>1
  <2> QED BY <1>1, <2>1, <2>2, SMTT(30)
<1> QED BY <1>3, <1>5, <1>6, <1>7, <1>8, <1>9 DEF TxmIInv, Store

\* The request taken from the channel is in hand, or given up at once.
LEMMA ReceiveStep ==
    ASSUME TxmIInv, ReceiveTx
    PROVE  TxmIInv'
<1>1. /\ broadcaster = Selecting /\ ~Busy /\ Past = Taken
      /\ UNCHANGED <<unconfirmedTxs, finalizedTxs, walletTxs, traces, enqueued>>
  BY DEF ReceiveTx, store, chain, Selecting, Busy, Past
<1>2. /\ BroadcastChan' = Tail(BroadcastChan) /\ BroadcastChan' \in Seq(Request)
      /\ Len(BroadcastChan') = Len(BroadcastChan) - 1 /\ Len(BroadcastChan) \in Nat \ {0}
      /\ DOMAIN BroadcastChan = 1 .. Len(BroadcastChan)
      /\ DOMAIN BroadcastChan' = 1 .. Len(BroadcastChan) - 1
      /\ \A i \in 1 .. Len(BroadcastChan) - 1 : BroadcastChan'[i] = BroadcastChan[i + 1]
      /\ Head(BroadcastChan) = BroadcastChan[1] /\ Head(BroadcastChan) \in Request
      /\ Len(enqueued) \in Nat
  BY DEF ReceiveTx, TxmIInv, TypeOK
<1>3. Taken' = Taken + 1 /\ Taken \in Nat /\ enqueued[Taken + 1] = Head(BroadcastChan)
  BY <1>1, <1>2 DEF Taken, ChannelIsTail, TxmIInv
<1>4. \/ broadcaster' = [at |-> "send", tx |-> Head(BroadcastChan), attempt |-> 1]
      \/ broadcaster' = Selecting
  BY DEF ReceiveTx, Drop
<1>5. TypeOK'
  BY <1>1, <1>2, <1>4 DEF TxmIInv, TypeOK, Selecting
<1>6. ChannelIsTail'
  <2>1. \A i \in 1 .. Len(BroadcastChan) - 1 : i + 1 \in DOMAIN BroadcastChan
    BY <1>2
  <2>2. \A j \in DOMAIN BroadcastChan : BroadcastChan[j] = enqueued[Taken + j]
    BY DEF ChannelIsTail, TxmIInv
  <2>3. \A i \in 1 .. Len(BroadcastChan) - 1 : BroadcastChan[i + 1] = enqueued[Taken + (i + 1)]
    BY <2>1, <2>2
  <2> QED BY <1>1, <1>2, <1>3, <2>3 DEF ChannelIsTail
<1>7. InHand'
  BY <1>1, <1>3, <1>4 DEF InHand, Busy, Selecting
<1>8. Past' \in Nat /\ Past' >= Past
  BY <1>1, <1>3, <1>4 DEF Past, Busy, Selecting
<1>9. RecordedBefore'
  BY <1>1, <1>3, <1>8, SMTT(30) DEF RecordedBefore, Recorded, TxmIInv
<1>10. EnqueuedOnce' /\ TracesFollow' /\ FinalizedTrue' /\ Store'
  BY <1>1 DEF TxmIInv, EnqueuedOnce, TracesFollow, FinalizedTrue, Outcome, Store, OnChain, OneMap, RecordedOnce,
              RecordedInOrder, Recorded
<1> QED BY <1>5, <1>6, <1>7, <1>9, <1>10 DEF TxmIInv

\* What the chain executes comes last, at the next logical time, and leaves the
\* transactions before it as they were.
LEMMA ExecutedLast ==
    ASSUME TypeOK, TracesFollow, NEW tx \in Request, Executes(tx)
    PROVE  /\ walletTxs' \in Seq(Request) /\ Len(walletTxs') = Len(walletTxs) + 1
           /\ traces' \in Seq({"open", "succeeded", "failed"}) /\ Len(traces') = Len(walletTxs')
           /\ walletTxs'[Len(walletTxs) + 1] = tx
           /\ \A lt \in DOMAIN walletTxs :
                  /\ lt \in DOMAIN walletTxs' /\ lt < Len(walletTxs) + 1
                  /\ walletTxs'[lt] = walletTxs[lt] /\ traces'[lt] = traces[lt]
<1>1. walletTxs \in Seq(Request) /\ traces \in Seq({"open", "succeeded", "failed"}) /\ Len(traces) = Len(walletTxs)
  BY DEF TypeOK, TracesFollow
<1>2. walletTxs' = Append(walletTxs, tx) /\ traces' = Append(traces, "open")
  BY DEF Executes
<1>3. /\ walletTxs' \in Seq(Request) /\ Len(walletTxs') = Len(walletTxs) + 1
      /\ walletTxs'[Len(walletTxs) + 1] = tx
      /\ \A lt \in DOMAIN walletTxs :
             lt \in DOMAIN walletTxs' /\ lt < Len(walletTxs) + 1 /\ walletTxs'[lt] = walletTxs[lt]
  BY <1>1, <1>2
<1>4. /\ traces' \in Seq({"open", "succeeded", "failed"}) /\ Len(traces') = Len(traces) + 1
      /\ \A lt \in DOMAIN traces : traces'[lt] = traces[lt]
  BY <1>1, <1>2
<1>5. DOMAIN walletTxs = DOMAIN traces
  BY <1>1
<1> QED BY <1>1, <1>3, <1>4, <1>5, Zenon

\* A failed send may have been executed, at a logical time nothing is recorded
\* for; the request stays in hand.
LEMMA SendFailsStep ==
    ASSUME TxmIInv, SendFails
    PROVE  TxmIInv'
<1>1. /\ broadcaster \in [at : {"send", "delay"}, tx : Request, attempt : Nat]
      /\ broadcaster' = [broadcaster EXCEPT !.at = "delay"]
      /\ broadcaster' \in [at : {"send", "delay"}, tx : Request, attempt : Nat]
      /\ broadcaster'.tx = broadcaster.tx /\ Busy /\ Busy'
      /\ UNCHANGED <<BroadcastChan, unconfirmedTxs, finalizedTxs, enqueued>>
  <2>1. /\ broadcaster \in [at : {"send", "delay"}, tx : Request, attempt : Nat]
        /\ broadcaster.at = "send" /\ Busy
    BY DEF SendFails, TxmIInv, TypeOK, Busy
  <2>2. /\ broadcaster' = [broadcaster EXCEPT !.at = "delay"]
        /\ UNCHANGED <<BroadcastChan, unconfirmedTxs, finalizedTxs, enqueued>>
    BY DEF SendFails, store
  <2>3. /\ broadcaster' \in [at : {"send", "delay"}, tx : Request, attempt : Nat]
        /\ broadcaster'.tx = broadcaster.tx /\ broadcaster'.at = "delay"
    BY <2>1, <2>2
  <2> QED BY <2>1, <2>2, <2>3 DEF Busy
<1>2. /\ walletTxs' \in Seq(Request) /\ traces' \in Seq({"open", "succeeded", "failed"})
      /\ Len(traces') = Len(walletTxs')
      /\ \A lt \in DOMAIN walletTxs :
             lt \in DOMAIN walletTxs' /\ walletTxs'[lt] = walletTxs[lt] /\ traces'[lt] = traces[lt]
  <2>1. CASE Executes(broadcaster.tx)
    <3>1. broadcaster.tx \in Request
      BY <1>1
    <3> QED BY <2>1, <3>1, ExecutedLast, Zenon DEF TxmIInv
  <2>2. CASE UNCHANGED chain
    BY <2>2 DEF chain, TxmIInv, TypeOK, TracesFollow
  <2> QED BY <2>1, <2>2 DEF SendFails
<1>3. Taken' = Taken /\ Past' = Past
  BY <1>1 DEF Taken, Past
<1>4. TypeOK' /\ EnqueuedOnce' /\ ChannelIsTail' /\ InHand' /\ TracesFollow'
  BY <1>1, <1>2, <1>3 DEF TxmIInv, TypeOK, EnqueuedOnce, ChannelIsTail, InHand, TracesFollow
<1>5. Recorded' = Recorded
  BY <1>1 DEF Recorded
<1>6. RecordedBefore' /\ RecordedOnce' /\ RecordedInOrder' /\ OneMap'
  BY <1>1, <1>3, <1>5 DEF TxmIInv, RecordedBefore, Store, RecordedOnce, RecordedInOrder, OneMap
<1>7. OnChain'
  BY <1>2, <1>5 DEF TxmIInv, Store, OnChain
<1>8. FinalizedTrue'
  <2>1. \A f \in finalizedTxs : f.LT \in DOMAIN walletTxs
    BY StoredIsOnChain DEF TxmIInv, Store
  <2> QED BY <1>1, <1>2, <2>1 DEF TxmIInv, FinalizedTrue, Outcome
<1> QED BY <1>4, <1>6, <1>7, <1>8 DEF TxmIInv, Store

\* Between two attempts, and when a request is given up or the loop stops,
\* only the broadcast loop moves.
LEMMA LoopStep ==
    ASSUME TxmIInv, RetryDelay \/ AbortDelay \/ BroadcastStops
    PROVE  TxmIInv'
<1>1. UNCHANGED <<BroadcastChan, unconfirmedTxs, finalizedTxs, walletTxs, traces, enqueued>>
  BY DEF RetryDelay, AbortDelay, BroadcastStops, store, chain
<1>2. /\ broadcaster' \in [at : {"select", "stopped"}]
                          \cup [at : {"send", "delay"}, tx : Request, attempt : Nat]
      /\ Busy' => Busy /\ broadcaster'.tx = broadcaster.tx
  <2>1. CASE broadcaster' = Selecting \/ broadcaster' = [at |-> "stopped"]
    BY <2>1 DEF Selecting, Busy
  <2>2. CASE RetryDelay /\ broadcaster' = [broadcaster EXCEPT !.at = "send", !.attempt = @ + 1]
    <3>1. broadcaster \in [at : {"send", "delay"}, tx : Request, attempt : Nat] /\ Busy
      BY <2>2 DEF RetryDelay, TxmIInv, TypeOK, Busy
    <3>2. PICK tx \in Request, n \in Nat, at \in {"send", "delay"} :
                 broadcaster = [at |-> at, tx |-> tx, attempt |-> n]
      BY <3>1
    <3>3. broadcaster' = [at |-> "send", tx |-> tx, attempt |-> n + 1]
      BY <2>2, <3>2, Zenon
    <3>4. broadcaster'.tx = broadcaster.tx
      BY <3>2, <3>3
    <3>5. broadcaster' \in [at : {"send", "delay"}, tx : Request, attempt : Nat]
      BY <3>3
    <3> QED BY <3>1, <3>4, <3>5
  <2> QED BY <2>1, <2>2 DEF RetryDelay, AbortDelay, BroadcastStops, Drop
<1>3. Taken' = Taken /\ Taken \in Nat /\ Past \in Int /\ Past' \in Int /\ Past <= Past'
  BY <1>1, <1>2, SMTT(30) DEF Taken, Past, TxmIInv, ChannelIsTail
<1>4. TypeOK' /\ EnqueuedOnce' /\ ChannelIsTail' /\ TracesFollow' /\ FinalizedTrue' /\ Store'
  BY <1>1, <1>2, <1>3 DEF TxmIInv, TypeOK, EnqueuedOnce, ChannelIsTail, TracesFollow, FinalizedTrue, Outcome, Store,
                          OnChain, OneMap, RecordedOnce, RecordedInOrder, Recorded
<1>5. InHand'
  BY <1>1, <1>2, <1>3, SMTT(30) DEF InHand, TxmIInv
<1>6. RecordedBefore'
  BY <1>1, <1>3 DEF RecordedBefore, Recorded, TxmIInv
<1> QED BY <1>4, <1>5, <1>6 DEF TxmIInv

\* The request in hand is recorded at a logical time after all others; it comes
\* after all others in the order of acceptance too.
LEMMA SendSucceedsStep ==
    ASSUME TxmIInv, SendSucceeds
    PROVE  TxmIInv'
<1> DEFINE lt == Len(walletTxs) + 1
           tx == broadcaster.tx
           new == [LT |-> lt, Tx |-> tx]
<1>1. /\ broadcaster \in [at : {"send", "delay"}, tx : Request, attempt : Nat]
      /\ tx \in Request /\ Busy /\ broadcaster' = Selecting /\ ~Busy'
      /\ UNCHANGED <<BroadcastChan, finalizedTxs, enqueued>>
  BY DEF SendSucceeds, TxmIInv, TypeOK, Busy, Selecting
<1>2. /\ walletTxs' \in Seq(Request) /\ Len(walletTxs') = lt
      /\ traces' \in Seq({"open", "succeeded", "failed"}) /\ Len(traces') = Len(walletTxs')
      /\ walletTxs'[lt] = tx /\ lt \in DOMAIN walletTxs' /\ lt \in Nat
      /\ \A k \in DOMAIN walletTxs :
             k \in DOMAIN walletTxs' /\ k < lt /\ walletTxs'[k] = walletTxs[k] /\ traces'[k] = traces[k]
  <2>1. TypeOK /\ TracesFollow /\ Executes(tx)
    BY DEF TxmIInv, SendSucceeds
  <2>2. /\ walletTxs' \in Seq(Request) /\ Len(walletTxs') = lt
        /\ traces' \in Seq({"open", "succeeded", "failed"}) /\ Len(traces') = Len(walletTxs')
        /\ walletTxs'[lt] = tx
        /\ \A k \in DOMAIN walletTxs :
               k \in DOMAIN walletTxs' /\ k < lt /\ walletTxs'[k] = walletTxs[k] /\ traces'[k] = traces[k]
    BY <1>1, <2>1, ExecutedLast, Zenon
  <2>3. walletTxs \in Seq(Request)
    BY <2>1 DEF TypeOK
  <2>4. lt \in Nat /\ lt \in DOMAIN walletTxs'
    BY <2>2, <2>3
  <2> QED BY <2>2, <2>4, Zenon
<1>3. /\ unconfirmedTxs' = unconfirmedTxs \cup {new}
      /\ \A u \in unconfirmedTxs \cup finalizedTxs : u.LT # lt
  BY <1>2, Zenon DEF SendSucceeds, AddUnconfirmed, UnconfirmedTx
<1>4. Recorded' = Recorded \cup {new}
  BY <1>1, <1>3 DEF Recorded
<1>5. /\ Taken' = Taken /\ Taken \in Nat /\ Taken >= 1 /\ Taken <= Len(enqueued)
      /\ Past = Taken - 1 /\ Past' = Taken /\ enqueued[Taken] = tx
      /\ Taken \in DOMAIN enqueued /\ 1 .. Past \subseteq DOMAIN enqueued
  BY <1>1 DEF Taken, Past, TxmIInv, ChannelIsTail, InHand, TypeOK
<1>6. \A r \in Recorded : /\ r.LT \in DOMAIN walletTxs /\ walletTxs[r.LT] = r.Tx
                          /\ \E i \in 1 .. Past : enqueued[i] = r.Tx
                          /\ r.Tx # tx
  <2> TAKE r \in Recorded
  <2>1. r.LT \in DOMAIN walletTxs /\ walletTxs[r.LT] = r.Tx
    BY DEF TxmIInv, Store, OnChain
  <2>2. PICK i \in 1 .. Past : enqueued[i] = r.Tx
    BY DEF TxmIInv, RecordedBefore
  <2>3. i # Taken /\ i \in DOMAIN enqueued
    BY <1>5
  <2>4. r.Tx # tx
    BY <1>5, <2>2, <2>3 DEF TxmIInv, EnqueuedOnce
  <2> QED BY <2>1, <2>2, <2>4
<1>7. TypeOK' /\ EnqueuedOnce' /\ ChannelIsTail' /\ InHand' /\ TracesFollow'
  <2>1. new \in [LT : Nat, Tx : Request]
    BY <1>1, <1>2
  <2>2. TypeOK'
    BY <1>1, <1>2, <1>3, <2>1, ZenonT(30) DEF TxmIInv, TypeOK, Selecting
  <2>3. EnqueuedOnce' /\ ChannelIsTail' /\ InHand' /\ TracesFollow'
    BY <1>1, <1>2, <1>5 DEF TxmIInv, EnqueuedOnce, ChannelIsTail, InHand, TracesFollow
  <2> QED BY <2>2, <2>3
<1>8. RecordedBefore'
  BY <1>1, <1>4, <1>5, <1>6, SMTT(30) DEF RecordedBefore
<1>9. OnChain'
  BY <1>2, <1>4, <1>6 DEF OnChain
<1>10. OneMap'
  BY <1>1, <1>3 DEF OneMap, TxmIInv, Store
<1>11. RecordedOnce'
  BY <1>4, <1>6 DEF RecordedOnce, TxmIInv, Store
<1>12. RecordedInOrder'
  <2> SUFFICES ASSUME NEW r1 \in Recorded', NEW r2 \in Recorded', r1.LT < r2.LT
               PROVE  \E i, j \in DOMAIN enqueued : i < j /\ enqueued[i] = r1.Tx /\ enqueued[j] = r2.Tx
    BY <1>1 DEF RecordedInOrder
  <2>1. r1 \in Recorded
    BY <1>2, <1>4, <1>6
  <2>2. CASE r2 \in Recorded
    BY <2>1, <2>2 DEF RecordedInOrder, TxmIInv, Store
  <2>3. CASE r2 = new
    <3>1. PICK i \in 1 .. Past : enqueued[i] = r1.Tx
      BY <1>6, <2>1, ZenonT(30)
    <3>2. i < Taken /\ i \in DOMAIN enqueued /\ Taken \in DOMAIN enqueued /\ enqueued[Taken] = r2.Tx
      BY <1>5, <2>3, SMTT(30)
    <3> QED BY <3>1, <3>2
  <2> QED BY <1>4, <2>2, <2>3
<1>13. FinalizedTrue'
  <2>1. \A f \in finalizedTxs : f.LT \in DOMAIN walletTxs
    BY StoredIsOnChain DEF TxmIInv, Store
  <2> QED BY <1>1, <1>2, <2>1 DEF TxmIInv, FinalizedTrue, Outcome
<1> QED BY <1>7, <1>8, <1>9, <1>10, <1>11, <1>12, <1>13, Zenon DEF TxmIInv, Store

\* A transaction moves from one map to the other with the outcome of its trace.
LEMMA ConfirmStep ==
    ASSUME TxmIInv, Confirm
    PROVE  TxmIInv'
<1> DEFINE lt == Head(confirmer.left)
           success == traces[lt] = "succeeded"
<1>1. UNCHANGED <<BroadcastChan, broadcaster, walletTxs, traces, enqueued>>
  BY DEF Confirm, chain
<1>2. PICK u \in unconfirmedTxs :
             /\ u.LT = lt
             /\ unconfirmedTxs' = unconfirmedTxs \ {u}
             /\ finalizedTxs' = finalizedTxs \cup {FinalizedTx(u, success)}
  BY DEF Confirm, MarkFinalized
<1> DEFINE new == FinalizedTx(u, success)
<1>3. /\ u \in [LT : Nat, Tx : Request] /\ success \in BOOLEAN
      /\ new = [LT |-> u.LT, Tx |-> u.Tx, TraceSucceeded |-> success]
      /\ new \in [LT : Nat, Tx : Request, TraceSucceeded : BOOLEAN]
      /\ new.LT = u.LT /\ new.Tx = u.Tx /\ new.TraceSucceeded = success
      /\ finalizedTxs' = finalizedTxs \cup {new}
  BY <1>2, Zenon DEF TxmIInv, TypeOK, FinalizedTx
<1> HIDE DEF new
<1>4. Recorded' = Recorded
  <2>2. Recorded' \subseteq Recorded
    BY <1>2, <1>3, SMTT(30) DEF Recorded
  <2>3. Recorded \subseteq Recorded'
    BY <1>2, <1>3, SMTT(30) DEF Recorded
  <2> QED BY <2>2, <2>3, SMTT(30)
<1>5. \A v \in unconfirmedTxs : v.LT = u.LT => v = u
  <2>1. \A v \in unconfirmedTxs : v.LT = u.LT => v.Tx = u.Tx
    BY StoredIsOnChain DEF TxmIInv, Store
  <2> QED BY <1>3, <2>1 DEF TxmIInv, TypeOK
<1>6. Taken' = Taken /\ Past' = Past /\ Busy' = Busy
  BY <1>1 DEF Taken, Past, Busy
<1>7. TypeOK' /\ EnqueuedOnce' /\ ChannelIsTail' /\ InHand' /\ TracesFollow'
  BY <1>1, <1>2, <1>3, <1>6, Zenon DEF TxmIInv, TypeOK, EnqueuedOnce, ChannelIsTail, InHand, TracesFollow
<1>8. RecordedBefore' /\ OnChain' /\ RecordedOnce' /\ RecordedInOrder'
  BY <1>1, <1>4, <1>6, SMTT(30) DEF TxmIInv, Store, RecordedBefore, OnChain, RecordedOnce, RecordedInOrder
<1>9. OneMap'
  BY <1>2, <1>3, <1>5 DEF OneMap, TxmIInv, Store
<1>10. FinalizedTrue'
  <2>1. u.LT \in DOMAIN walletTxs
    BY <1>2, StoredIsOnChain DEF TxmIInv, Store
  <2>2. traces[u.LT] \in {"open", "succeeded", "failed"}
    BY <2>1 DEF TxmIInv, TypeOK, TracesFollow
  <2>3. traces[u.LT] # "open"
    BY <1>2 DEF Confirm
  <2>4. traces[new.LT] = Outcome(new)
    BY <1>2, <1>3, <2>2, <2>3, Zenon DEF Outcome
  <2> QED BY <1>1, <1>3, <2>4, Zenon DEF FinalizedTrue, TxmIInv, Outcome
<1> QED BY <1>7, <1>8, <1>9, <1>10 DEF TxmIInv, Store

\* A trace settles once, so the outcome recorded of a settled one stays true.
LEMMA SettleStep ==
    ASSUME TxmIInv, NEW lt \in DOMAIN traces, TraceSettles(lt)
    PROVE  TxmIInv'
<1>1. UNCHANGED <<BroadcastChan, broadcaster, unconfirmedTxs, finalizedTxs, walletTxs, enqueued>>
  BY DEF TraceSettles, store
<1>2. /\ traces' \in Seq({"open", "succeeded", "failed"}) /\ Len(traces') = Len(traces)
      /\ \A k \in DOMAIN traces : traces[k] # "open" => traces'[k] = traces[k]
  <2>1. PICK outcome \in {"succeeded", "failed"} : traces' = [traces EXCEPT ![lt] = outcome]
    BY Zenon DEF TraceSettles
  <2>2. traces \in Seq({"open", "succeeded", "failed"}) /\ traces[lt] = "open"
    BY DEF TraceSettles, TxmIInv, TypeOK
  <2>3. outcome \in {"open", "succeeded", "failed"}
    OBVIOUS
  <2>4. traces' \in Seq({"open", "succeeded", "failed"}) /\ Len(traces') = Len(traces)
    BY <2>1, <2>2, <2>3
  <2>5. \A k \in DOMAIN traces : traces[k] # "open" => traces'[k] = traces[k]
    BY <2>1, <2>2
  <2> QED BY <2>4, <2>5
<1>3. TypeOK' /\ EnqueuedOnce' /\ ChannelIsTail' /\ InHand' /\ RecordedBefore' /\ TracesFollow' /\ Store'
  <2>1. Recorded' = Recorded /\ Taken' = Taken /\ Past' = Past /\ Busy' = Busy
    BY <1>1, Zenon DEF Recorded, Taken, Past, Busy
  <2>2. TypeOK' /\ TracesFollow'
    BY <1>1, <1>2, Zenon DEF TxmIInv, TypeOK, TracesFollow
  <2>3. EnqueuedOnce' /\ ChannelIsTail' /\ InHand' /\ RecordedBefore'
    BY <1>1, <2>1, ZenonT(30) DEF TxmIInv, EnqueuedOnce, ChannelIsTail, InHand, RecordedBefore
  <2>4. Store'
    BY <1>1, <2>1, SMTT(30) DEF TxmIInv, Store, OnChain, OneMap, RecordedOnce, RecordedInOrder
  <2> QED BY <2>2, <2>3, <2>4, SMTT(30)
<1>4. FinalizedTrue'
  <2>1. \A f \in finalizedTxs : f.LT \in DOMAIN traces
    BY StoredIsOnChain DEF TxmIInv, Store, TracesFollow, TypeOK
  <2>2. \A f \in finalizedTxs : traces[f.LT] # "open"
    BY DEF TxmIInv, FinalizedTrue, Outcome
  <2> QED BY <1>1, <1>2, <2>1, <2>2 DEF FinalizedTrue, Outcome, TxmIInv
<1> QED BY <1>3, <1>4 DEF TxmIInv

\* Every step of the manager, of its callers and of the chain keeps it.
LEMMA NextInv == TxmIInv /\ [TxmNext]_txmVars => TxmIInv'
<1> SUFFICES ASSUME TxmIInv, [TxmNext]_txmVars PROVE TxmIInv'
  OBVIOUS
<1>1. CASE \E request \in Request : Enqueue(request)
  BY <1>1, EnqueueStep
<1>2. CASE Close \/ ConfirmTick \/ ConfirmFails \/ ConfirmDone \/ ConfirmStops \/ UNCHANGED txmVars
  <2>1. UNCHANGED <<BroadcastChan, broadcaster, store, chain, enqueued>>
    BY <1>2 DEF Close, ConfirmTick, ConfirmFails, ConfirmDone, ConfirmStops, txmVars
  <2> QED BY <2>1, IdleStep
<1>3. CASE broadcastLoop
  BY <1>3, ReceiveStep, SendSucceedsStep, SendFailsStep, LoopStep DEF broadcastLoop
<1>4. CASE Confirm
  BY <1>4, ConfirmStep
<1>5. CASE \E lt \in DOMAIN traces : TraceSettles(lt)
  BY <1>5, SettleStep
<1> QED BY <1>1, <1>2, <1>3, <1>4, <1>5 DEF TxmNext, confirmLoop

LEMMA Invariance == TxmSpec => []TxmIInv
BY InitInv, NextInv, PTL DEF TxmSpec

\* The store of the manager is true: at each recorded logical time the chain
\* executed the recorded request, and no request is recorded twice.
THEOREM RecordedIsTrue == TxmSpec => []RecordedIsExecuted
<1>1. TxmIInv => RecordedIsExecuted
  BY DEF TxmIInv, Store, OnChain, OneMap, RecordedOnce, RecordedIsExecuted
<1> QED BY <1>1, Invariance, PTL

\* Requests are executed in the order in which Enqueue accepted them.
THEOREM RecordsKeepOrder == TxmSpec => []RecordedInOrder
<1>1. TxmIInv => RecordedInOrder
  BY Zenon DEF TxmIInv, Store
<1> QED BY <1>1, Invariance, PTL

\* GetTransactionStatus never reports an outcome the trace does not have.
THEOREM StatusesAreTrue == TxmSpec => []StatusIsTrue
<1>1. TxmIInv => StatusIsTrue
  <2> SUFFICES ASSUME TxmIInv, NEW lt \in DOMAIN walletTxs
               PROVE  /\ GetTransactionStatus(lt) = "Finalized" => traces[lt] = "succeeded"
                      /\ GetTransactionStatus(lt) = "Failed" => traces[lt] = "failed"
    BY DEF StatusIsTrue
  <2>1. GetTransactionStatus(lt) = "Finalized" => \E f \in finalizedTxs : f.LT = lt /\ f.TraceSucceeded
    BY DEF GetTransactionStatus, GetTxState
  <2>2. GetTransactionStatus(lt) = "Failed" => \E f \in finalizedTxs : f.LT = lt /\ ~f.TraceSucceeded
    BY DEF GetTransactionStatus, GetTxState
  <2> QED BY <2>1, <2>2 DEF TxmIInv, FinalizedTrue, Outcome
<1> QED BY <1>1, Invariance, PTL

=============================================================================
