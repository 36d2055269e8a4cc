------------------------------ MODULE OCR3Base ------------------------------
(***************************************************************************)
(* The OCR3 library of contracts/contracts/lib/ocr: the oracle             *)
(* configurations of the commit and execute plugins, and the check of what *)
(* is transmitted under them.                                              *)
(*                                                                         *)
(* A vector is a tree of cells.  Its items are those an Iterator reads,    *)
(* which follows the first reference of each cell; its size is counted     *)
(* from the bits of the whole tree, further references included.  The two  *)
(* agree in the vectors that the encoders of this repository build.        *)
(*                                                                         *)
(* A signature is the key that signed and the hash it signed; a hash is    *)
(* what was hashed.                                                        *)
(***************************************************************************)
EXTENDS Naturals, Sequences, FiniteSets

CONSTANTS
    Signer, Transmitter,        \* public keys, addresses
    Digest,                     \* configDigests
    MAX_NUM_ORACLES,
    Absent

VARIABLE ocr3Base               \* [Plugin -> configuration or Absent]

Plugin == {"commit", "execute"}

\* No cell of the chain an Iterator follows is left out of the count, and only
\* an empty tree has no item.
IsVector(v, Item) ==
    /\ v.items \in Seq(Item) /\ v.size \in Nat
    /\ v.size >= Len(v.items) /\ (v.items = << >> => v.size = 0)

Vector(items) == [items |-> items, size |-> Len(items)]

Distinct(vector) == \A i, j \in DOMAIN vector : vector[i] = vector[j] => i = j

\* A dictionary from the items of a vector to their positions.
Indexed(vector) ==
    [x \in {vector[i] : i \in DOMAIN vector} |-> CHOOSE i \in DOMAIN vector : vector[i] = x]

Dictionary(Key) == UNION {[keys -> 1 .. MAX_NUM_ORACLES] : keys \in SUBSET Key}

Config ==
    [configDigest : Digest \cup {Absent}, bigF : Nat, n : Nat,
     isSignatureVerificationEnabled : BOOLEAN,
     signers : Dictionary(Signer), transmitters : Dictionary(Transmitter)]

newOCRConfig ==
    [configDigest |-> Absent, bigF |-> 0, n |-> 0, isSignatureVerificationEnabled |-> FALSE,
     signers |-> Indexed(<< >>), transmitters |-> Indexed(<< >>)]

getConfig(plugin) == IF ocr3Base[plugin] = Absent THEN newOCRConfig ELSE ocr3Base[plugin]

\* Whether signatures are verified is settled by the first configuration.
StaticConfigKept(msg) ==
    getConfig(msg.ocrPluginType).bigF # 0 =>
        getConfig(msg.ocrPluginType).isSignatureVerificationEnabled = msg.isSignatureVerificationEnabled

SignersValid(msg) ==
    /\ msg.signers.size \in 1 .. MAX_NUM_ORACLES
    /\ msg.signers.size > 3 * msg.bigF
    /\ msg.signers.size >= msg.transmitters.size
    /\ Distinct(msg.signers.items)

\* Without signature verification the signers are left as they were.
setOcr3Config(msg) ==
    LET old == getConfig(msg.ocrPluginType)
        verified == msg.isSignatureVerificationEnabled
    IN  /\ msg.bigF > 0
        /\ StaticConfigKept(msg)
        /\ msg.transmitters.size \in 1 .. MAX_NUM_ORACLES
        /\ verified => SignersValid(msg)
        /\ Distinct(msg.transmitters.items)
        /\ ocr3Base' = [ocr3Base EXCEPT ![msg.ocrPluginType] =
                [configDigest |-> msg.configDigest, bigF |-> msg.bigF,
                 n |-> IF verified THEN msg.signers.size ELSE old.n,
                 isSignatureVerificationEnabled |-> verified,
                 signers |-> IF verified THEN Indexed(msg.signers.items) ELSE old.signers,
                 transmitters |-> Indexed(msg.transmitters.items)]]

-----------------------------------------------------------------------------
hashReport(report, context) == <<report, context>>

\* seen holds the indices of the signers met so far.
verifySignature(signers, hashedReport, signatures) ==
    LET read == signatures.items
    IN  \A i \in DOMAIN read :
            /\ read[i].signer \in DOMAIN signers
            /\ read[i].signed = hashedReport
            /\ LET seen == {signers[read[j].signer] : j \in 1 .. i - 1}
               IN  signers[read[i].signer] \notin seen

MutAnyDigest(transmitter, plugin, context, report, signatures) ==
    LET config == ocr3Base[plugin]
    IN  /\ config # Absent
        /\ transmitter \in DOMAIN config.transmitters
        /\ config.isSignatureVerificationEnabled =>
               /\ signatures.size = config.bigF + 1
               /\ verifySignature(config.signers, hashReport(report, context), signatures)

\* The conditions of transmit; it changes nothing but emits an event.  It takes
\* the number of the signatures from the size, and verifies those that are read.
Transmits(transmitter, plugin, context, report, signatures) ==
    LET config == ocr3Base[plugin]
    IN  /\ config # Absent
        /\ context.configDigest = config.configDigest
        /\ transmitter \in DOMAIN config.transmitters
        /\ config.isSignatureVerificationEnabled =>
               /\ signatures.size = config.bigF + 1
               /\ verifySignature(config.signers, hashReport(report, context), signatures)

=============================================================================
