---------------------------- MODULE ReportCodec ----------------------------
(***************************************************************************)
(* The codecs of the CCIP plugins, pkg/ccip/codec with the report layouts  *)
(* of pkg/ccip/bindings/ocr and the extra arguments of bindings/onramp:    *)
(* one oracle encodes the report its plugin agreed on, others decode it.   *)
(*                                                                         *)
(* Reports have the fields of the plugins' types.  A user-friendly address *)
(* is its flags, workchain and data; the bytes of a bag of cells are the   *)
(* cell they hold; Empty is a missing big.Int.                             *)
(***************************************************************************)
EXTENDS CellCodec

CONSTANTS
    CommitReports,    \* the reports of the commit plugin
    ExecuteReports,   \* the reports of the execute plugin
    Empty,            \* a BigInt without a value
    BadAddress,       \* an address string ParseAddr refuses, or bytes of another length
    DefaultFlags,     \* bounceable, not for test networks
    NotACell,         \* extra arguments of at least 4 bytes that are no bag of cells
    TonSelectors,     \* the chain selectors of the TON family
    NoReport, NoBytes, Refused

VARIABLES
    report,      \* the report of the round
    wire,        \* its encoding, or Refused
    received     \* what an oracle decodes

vars == <<report, wire, received>>

-----------------------------------------------------------------------------
(* addresscodec.go *)

Workchain(n) == ((n + 128) % 256) - 128

AddressBytesToString(raw) ==
    IF raw = BadAddress THEN BadAddress
    ELSE [flags |-> DefaultFlags, workchain |-> Workchain(raw.workchain), data |-> raw.data]

ToRawAddr(addr) == [workchain |-> addr.workchain, data |-> addr.data]

AddressStringToBytes(string) == IF string = BadAddress THEN BadAddress ELSE ToRawAddr(string)

\* What a cell holds of an address has no flags.
LoadAddr(addr) == [flags |-> DefaultFlags, workchain |-> addr.workchain, data |-> addr.data]

-----------------------------------------------------------------------------
(* extradatacodec.go and bindings/onramp *)

EVMExtraArgsV2 == <<"magic", "u256", "bool">>
SVMExtraArgsV1 == <<"magic", "u32", "u64", "bool", "bits256">>
evmExtraArgsV2Tag == "181dcf10"
svmExtraArgsV1Tag == "1f3b3aba"

GenericExtraArgsV2(gasLimit, outOfOrder) ==
    [EmptyCell EXCEPT !.bits = StoreStruct(EVMExtraArgsV2, <<evmExtraArgsV2Tag, gasLimit, outOfOrder>>)]

DecodeError == [error |-> TRUE]

\* The exported fields by name.
DecodeExtraArgsToMap(extraArgs) ==
    IF extraArgs = NotACell THEN DecodeError
    ELSE CASE Head(extraArgs.bits).value = evmExtraArgsV2Tag ->
                LET args == LoadStruct(EVMExtraArgsV2, extraArgs.bits).values
                IN  [GasLimit |-> args[2], AllowOutOfOrderExecution |-> args[3]]
           [] Head(extraArgs.bits).value = svmExtraArgsV1Tag ->
                LET args == LoadStruct(SVMExtraArgsV1, extraArgs.bits).values
                IN  [ComputeUnits |-> args[2], AccountIsWritableBitmap |-> args[3],
                     AllowOutOfOrderExecution |-> args[4], TokenReceiver |-> args[5],
                     Accounts |-> unpackArrayWithRefChaining(extraArgs.refs[1])]
           [] OTHER -> DecodeError

\* 32 bits, big endian; the bytes are at least 4.
DecodeDestExecDataToMap(data) ==
    [destGasAmount |-> ((data[1] * 256 + data[2]) * 256 + data[3]) * 256 + data[4]]

PutUint32(n) == [i \in 1 .. 4 |-> (n \div 256 ^ (4 - i)) % 256]

\* The decoder of the source chain's family (chainlink-common); what the
\* decoders of other families make of their bytes is given with them.
DecodeExtraArgs(extraArgs, selector) ==
    IF selector \in TonSelectors THEN DecodeExtraArgsToMap(extraArgs) ELSE extraArgs

DecodeTokenAmountDestExecData(data, selector) ==
    IF selector \in TonSelectors THEN DecodeDestExecDataToMap(data) ELSE data

-----------------------------------------------------------------------------
(* commitcodec.go, with the layouts of bindings/ocr/commitreport.go *)

TokenPriceUpdate == <<"addr", "u256">>
GasPriceUpdate == <<"u64", "u256">>
MerkleRoot == <<"u64", "xaddr", "u64", "u64", "bits256">>

MerkleRootsCell(roots) ==
    packArrayWithStaticType([i \in DOMAIN roots |->
        StoreStruct(MerkleRoot, <<roots[i].ChainSel, roots[i].OnRampAddress, roots[i].SeqNumsRange[1],
                                  roots[i].SeqNumsRange[2], roots[i].MerkleRoot>>)])

MutMaxFromMin(cell) ==
    LET roots == unpackArrayWithStaticType(MerkleRoot, cell)
    IN  [i \in DOMAIN roots |->
            [ChainSel |-> roots[i][1], OnRampAddress |-> roots[i][2],
             SeqNumsRange |-> <<roots[i][3], roots[i][3]>>, MerkleRoot |-> roots[i][5]]]

LoadMerkleRoots(cell) ==
    LET roots == unpackArrayWithStaticType(MerkleRoot, cell)
    IN  [i \in DOMAIN roots |->
            [ChainSel |-> roots[i][1], OnRampAddress |-> roots[i][2],
             SeqNumsRange |-> <<roots[i][3], roots[i][4]>>, MerkleRoot |-> roots[i][5]]]

\* The report as a cell: prices, roots and signatures below it.
CommitCell(r) ==
    LET tokens == [i \in DOMAIN r.TokenPriceUpdates |->
                     StoreStruct(TokenPriceUpdate, <<ToRawAddr(r.TokenPriceUpdates[i].TokenID),
                                                     r.TokenPriceUpdates[i].Price>>)]
        gas == [i \in DOMAIN r.GasPriceUpdates |->
                  StoreStruct(GasPriceUpdate, <<r.GasPriceUpdates[i].ChainSel, r.GasPriceUpdates[i].GasPrice>>)]
        sigs == [i \in DOMAIN r.RMNSignatures |->
                   packByteArrayToCell(r.RMNSignatures[i].R \o r.RMNSignatures[i].S)]
        below(refs) == [EmptyCell EXCEPT !.refs = refs]
    IN  below(<<below(<<packArrayWithStaticType(tokens), packArrayWithStaticType(gas)>>),
                below(<<MerkleRootsCell(r.BlessedMerkleRoots), MerkleRootsCell(r.UnblessedMerkleRoots)>>),
                packArrayWithRefChaining(sigs)>>)

Encode_Commit(r) ==
    LET complete ==
            /\ \A i \in DOMAIN r.TokenPriceUpdates :
                  r.TokenPriceUpdates[i].TokenID # BadAddress /\ r.TokenPriceUpdates[i].Price # Empty
            /\ \A i \in DOMAIN r.GasPriceUpdates : r.GasPriceUpdates[i].GasPrice # Empty
            /\ \A root \in Range(r.BlessedMerkleRoots) \union Range(r.UnblessedMerkleRoots) :
                  ValidCrossChainAddress(root.OnRampAddress)
    IN  IF complete /\ Fits(CommitCell(r)) THEN CommitCell(r) ELSE Refused

Decode_Commit(cell) ==
    LET tokens == unpackArrayWithStaticType(TokenPriceUpdate, cell.refs[1].refs[1])
        gas == unpackArrayWithStaticType(GasPriceUpdate, cell.refs[1].refs[2])
        cells == unpackArrayWithRefChaining(cell.refs[3])
        sigs == [i \in DOMAIN cells |-> unloadCellToByteArray(cells[i])]
    IN  IF \E i \in DOMAIN sigs : Len(sigs[i]) # 64 THEN Refused
        ELSE [TokenPriceUpdates |-> [i \in DOMAIN tokens |->
                  [TokenID |-> LoadAddr(tokens[i][1]), Price |-> tokens[i][2]]],
              GasPriceUpdates |-> [i \in DOMAIN gas |-> [ChainSel |-> gas[i][1], GasPrice |-> gas[i][2]]],
              BlessedMerkleRoots |-> LoadMerkleRoots(cell.refs[2].refs[1]),
              UnblessedMerkleRoots |-> LoadMerkleRoots(cell.refs[2].refs[2]),
              RMNSignatures |-> [i \in DOMAIN sigs |->
                  [R |-> SubSeq(sigs[i], 1, 32), S |-> SubSeq(sigs[i], 33, 64)]]]

-----------------------------------------------------------------------------
(* executecodec.go, with the layouts of bindings/ocr/executereport.go *)

RampMessageHeader == <<"bits256", "u64", "u64", "u64", "u64">>
Any2TVMRampMessage == RampMessageHeader \o <<"addr", "coins">>
Any2TVMTokenTransfer == <<"xaddr", "addr", "u32", "u256">>
ExecuteReport == <<"u64", "u256">>

\* Field names are compared in lower case.
GasLimitKeys == {"gasLimit", "GasLimit"}
DestGasAmountKeys == {"destGasAmount", "destgasamount"}

\* No extra arguments: no limit, stored as 0.
parseExtraArgsMap(extraArgs, selector) ==
    IF extraArgs = << >> THEN 0
    ELSE LET args == DecodeExtraArgs(extraArgs, selector)
             found == GasLimitKeys \intersect DOMAIN args
         IN  IF found = {} THEN Refused ELSE args[CHOOSE key \in found : TRUE]

extractDestGasAmountFromMap(data, selector) ==
    LET args == DecodeTokenAmountDestExecData(data, selector)
        found == DestGasAmountKeys \intersect DOMAIN args
    IN  IF found = {} THEN Refused ELSE args[CHOOSE key \in found : TRUE]

TokenEncodable(token, selector) ==
    /\ token.Amount # Empty
    /\ token.Amount >= 0
    /\ token.DestTokenAddress # BadAddress
    /\ extractDestGasAmountFromMap(token.DestExecData, selector) # Refused
    /\ ValidCrossChainAddress(token.SourcePoolAddress)

MessageEncodable(msg, selector) ==
    /\ \A i \in DOMAIN msg.TokenAmounts : TokenEncodable(msg.TokenAmounts[i], selector)
    /\ msg.Receiver # BadAddress
    /\ parseExtraArgsMap(msg.ExtraArgs, selector) # Refused
    /\ ValidCrossChainAddress(msg.Sender)

\* The address string made of the raw bytes is parsed and stored.
AddrField(raw) == ToRawAddr(AddressBytesToString(raw))

TokenCell(token, selector) ==
    [bits |-> StoreStruct(Any2TVMTokenTransfer,
                  <<token.SourcePoolAddress, AddrField(token.DestTokenAddress),
                    extractDestGasAmountFromMap(token.DestExecData, selector), token.Amount>>),
     refs |-> <<packByteArrayToCell(token.ExtraData)>>]

MessageCell(msg, selector) ==
    [bits |-> StoreStruct(Any2TVMRampMessage,
                  msg.Header \o <<AddrField(msg.Receiver), parseExtraArgsMap(msg.ExtraArgs, selector)>>),
     refs |-> <<[EmptyCell EXCEPT !.bits = CrossChainAddress(msg.Sender)],
                packByteArrayToCell(msg.Data),
                packArrayWithRefChaining([i \in DOMAIN msg.TokenAmounts |->
                    TokenCell(msg.TokenAmounts[i], selector)])>>]

PackBytes(list) == packArrayWithRefChaining([i \in DOMAIN list |-> packByteArrayToCell(list[i])])

\* Of the off-chain token data, only the first message's is sent.
ChainReportCell(r) ==
    [bits |-> StoreStruct(ExecuteReport, <<r.SourceChainSelector, r.ProofFlagBits>>),
     refs |-> <<packArrayWithRefChaining([i \in DOMAIN r.Messages |->
                    MessageCell(r.Messages[i], r.SourceChainSelector)]),
                PackBytes(IF r.Messages # << >> /\ r.OffchainTokenData # << >>
                          THEN r.OffchainTokenData[1] ELSE << >>),
                PackBytes(r.Proofs)>>]

Encode_Execute(r) ==
    IF r.ChainReports = << >> THEN NoBytes
    ELSE IF /\ \A i \in DOMAIN r.ChainReports : LET chain == r.ChainReports[i] IN
                  \A j \in DOMAIN chain.Messages :
                      MessageEncodable(chain.Messages[j], chain.SourceChainSelector)
            /\ \A i \in DOMAIN r.ChainReports : Fits(ChainReportCell(r.ChainReports[i]))
         THEN packArrayWithRefChaining([i \in DOMAIN r.ChainReports |-> ChainReportCell(r.ChainReports[i])])
         ELSE Refused

UnpackBytes(cell) ==
    LET cells == unpackArrayWithRefChaining(cell)
    IN  [i \in DOMAIN cells |-> unloadCellToByteArray(cells[i])]

LoadToken(cell) ==
    LET fields == LoadStruct(Any2TVMTokenTransfer, cell.bits).values
    IN  [SourcePoolAddress |-> fields[1],
         DestTokenAddress |-> AddressStringToBytes(LoadAddr(fields[2])),
         ExtraData |-> unloadCellToByteArray(cell.refs[1]),
         Amount |-> fields[4],
         DestExecData |-> PutUint32(fields[3])]

LoadMessage(cell) ==
    LET fields == LoadStruct(Any2TVMRampMessage, cell.bits).values
        tokens == unpackArrayWithRefChaining(cell.refs[3])
    IN  [Header |-> SubSeq(fields, 1, 5),
         Sender |-> LoadCrossChainAddress(cell.refs[1].bits).value,
         Data |-> unloadCellToByteArray(cell.refs[2]),
         Receiver |-> AddressStringToBytes(LoadAddr(fields[6])),
         ExtraArgs |-> GenericExtraArgsV2(fields[7], TRUE),
         TokenAmounts |-> [i \in DOMAIN tokens |-> LoadToken(tokens[i])]]

LoadChainReport(cell) ==
    LET fields == LoadStruct(ExecuteReport, cell.bits).values
        messages == unpackArrayWithRefChaining(cell.refs[1])
        tokenData == UnpackBytes(cell.refs[2])
    IN  [SourceChainSelector |-> fields[1],
         Messages |-> [i \in DOMAIN messages |-> LoadMessage(messages[i])],
         OffchainTokenData |-> IF tokenData = << >> THEN << >> ELSE <<tokenData>>,
         Proofs |-> UnpackBytes(cell.refs[3]),
         ProofFlagBits |-> fields[2]]

Decode_Execute(cell) ==
    LET reports == unpackArrayWithRefChaining(cell)
    IN  [ChainReports |-> [i \in DOMAIN reports |-> LoadChainReport(reports[i])]]

-----------------------------------------------------------------------------
IsCommit(r) == "TokenPriceUpdates" \in DOMAIN r

Init == report = NoReport /\ wire = NoBytes /\ received = NoReport

\* The plugin has agreed on a report and the codec encodes it.
EncodeCommit ==
    /\ report = NoReport
    /\ report' \in CommitReports
    /\ wire' = Encode_Commit(report')
    /\ UNCHANGED received

EncodeExecute ==
    /\ report = NoReport
    /\ report' \in ExecuteReports
    /\ wire' = Encode_Execute(report')
    /\ UNCHANGED received

\* An oracle decodes what it was sent; empty reports are discarded before.
Decode ==
    /\ wire \notin {NoBytes, Refused}
    /\ received = NoReport
    /\ received' = IF IsCommit(report) THEN Decode_Commit(wire) ELSE Decode_Execute(wire)
    /\ UNCHANGED <<report, wire>>

\* OCR3 goes on to its next round.
NextRound ==
    /\ report # NoReport
    /\ wire \in {NoBytes, Refused} \/ received # NoReport
    /\ report' = NoReport /\ wire' = NoBytes /\ received' = NoReport

Next == EncodeCommit \/ EncodeExecute \/ Decode \/ NextRound

Spec == Init /\ [][Next]_vars

-----------------------------------------------------------------------------
(* What the report says, apart from how it is written. *)

Canonical(string) == [string EXCEPT !.flags = DefaultFlags]

\* The commit codec keeps every price, root, sequence number interval and
\* signature of a report, in order and whatever their number: commitcodec.go's
\* Decode of Encode is the report, its addresses in the default form.
CommitReportKept ==
    (received # NoReport /\ IsCommit(report)) =>
        received = [report EXCEPT !.TokenPriceUpdates =
                       [i \in DOMAIN @ |-> [@[i] EXCEPT !.TokenID = Canonical(@)]]]

\* The gas a message gives its receiver, 0 if it does not say.
GasOf(args, selector) ==
    IF args = << >> THEN 0 ELSE IF selector \in TonSelectors THEN args.bits[2].value ELSE args.gasLimit

\* What the destination makes of a message: its gas limit in the form TON gives
\* it, and the gas amount of its tokens as 4 bytes, most significant first.
Meaning(msg, selector) ==
    LET gasBytes(data) ==
            IF selector \in TonSelectors THEN data
            ELSE CHOOSE bytes \in [1 .. 4 -> {0, 1, 2, 3}] :
                     DecodeDestExecDataToMap(bytes).destGasAmount = data.destgasamount
    IN  [msg EXCEPT !.ExtraArgs = GenericExtraArgsV2(GasOf(@, selector), TRUE),
                    !.TokenAmounts = [i \in DOMAIN @ |-> [@[i] EXCEPT !.DestExecData = gasBytes(@)]]]

\* The execute codec keeps every message of every chain report with its tokens
\* and data of any length, in order, and the gas limit whatever the family
\* of the source chain; of the off-chain token data it keeps the first
\* message's (executecodec.go, Encode and Decode).
ExecuteReportKept ==
    (received # NoReport /\ ~IsCommit(report)) =>
        received.ChainReports = [i \in DOMAIN report.ChainReports |->
            [report.ChainReports[i] EXCEPT
                !.Messages = [j \in DOMAIN @ |-> Meaning(@[j], report.ChainReports[i].SourceChainSelector)],
                !.OffchainTokenData =
                    IF report.ChainReports[i].Messages = << >> \/ @ = << >> THEN << >>
                    ELSE IF Head(@) = << >> THEN << >> ELSE <<Head(@)>>]]

\* Decoding what was encoded gives the report back, whichever codec it is for.
ReportKept == CommitReportKept /\ ExecuteReportKept

\* An element no report can carry, on its own.
Unrepresentable(r) ==
    IF IsCommit(r)
    THEN \/ \E i \in DOMAIN r.TokenPriceUpdates :
               BadAddress = r.TokenPriceUpdates[i].TokenID \/ Empty = r.TokenPriceUpdates[i].Price
         \/ \E i \in DOMAIN r.GasPriceUpdates : Empty = r.GasPriceUpdates[i].GasPrice
         \/ \E root \in Range(r.BlessedMerkleRoots \o r.UnblessedMerkleRoots) :
               Len(root.OnRampAddress) \notin 1 .. 64
    ELSE \E i \in DOMAIN r.ChainReports : \E msg \in Range(r.ChainReports[i].Messages) :
           \/ msg.Receiver = BadAddress
           \/ Len(msg.Sender) \notin 1 .. 64
           \/ msg.ExtraArgs = NotACell
           \/ /\ r.ChainReports[i].SourceChainSelector \in TonSelectors
              /\ msg.ExtraArgs # << >>
              /\ msg.ExtraArgs.bits[1].value # evmExtraArgsV2Tag
           \/ \E token \in Range(msg.TokenAmounts) :
                 \/ token.Amount = Empty \/ token.Amount < 0 \/ token.DestTokenAddress = BadAddress
                 \/ Len(token.SourcePoolAddress) \notin 1 .. 57

\* Encode refuses a report exactly for a single element that cannot be
\* represented, never for how many updates, roots, messages, tokens, proofs or
\* bytes it has: the lists and byte arrays continue in further cells.
RefusedForAnElement ==
    report # NoReport => ((wire = Refused) <=> Unrepresentable(report))

=============================================================================
