--------------------------- MODULE MCReportCodec ---------------------------
(***************************************************************************)
(* Reports at the limits of the cells: 3 references and the chain, 127     *)
(* bytes, 3 gas prices, two roots in a cell with an address of up to 6     *)
(* bytes, addresses of 0, 57, 58, 64 and 65 bytes.                         *)
(***************************************************************************)
EXTENDS ReportCodec

Data(n) == [i \in 1 .. n |-> (7 * i + n) % 256]

Addr(n, flags) == [flags |-> flags, workchain |-> 0 - (n % 2), data |-> n]

Token(n) == [TokenID |-> Addr(n, IF n = 1 THEN "UQ" ELSE DefaultFlags), Price |-> n - 1]

Gas(n) == [ChainSel |-> n, GasPrice |-> 10 + n]

Root(n, length) == [ChainSel |-> n, OnRampAddress |-> Data(length), SeqNumsRange |-> <<n, n + 2>>, MerkleRoot |-> 100 + n]

Sig(n) == [R |-> Data(32), S |-> [Data(32) EXCEPT ![1] = n]]

CommitReport(tokens, gas, blessed, unblessed, sigs) ==
    [TokenPriceUpdates |-> tokens, GasPriceUpdates |-> gas, BlessedMerkleRoots |-> blessed,
     UnblessedMerkleRoots |-> unblessed, RMNSignatures |-> sigs]

List(n, Elem(_)) == [i \in 1 .. n |-> Elem(i)]

MCCommitReports ==
    {CommitReport(List(t, Token), List(g, Gas), [i \in 1 .. b |-> Root(i, length)],
                  [i \in 1 .. u |-> Root(10 + i, 20)], List(k, Sig)) :
        t \in {0, 1, 3}, g \in {0, 3, 4, 7}, b \in 0 .. 3, u \in {0, 2}, k \in {0, 3, 4, 7},
        length \in {0, 6, 7, 64, 65}}
    \union
    {CommitReport(<<Token(1), token>>, <<Gas(1), gas>>, << >>, << >>, << >>) :
        token \in {[Token(2) EXCEPT !.TokenID = BadAddress], [Token(2) EXCEPT !.Price = Empty], Token(2)},
        gas \in {[Gas(2) EXCEPT !.GasPrice = Empty], Gas(2)}}

-----------------------------------------------------------------------------
Ton == "ton"
Evm == "evm"

RawAddr(n) == [workchain |-> 0 - (n % 2), data |-> n]

Transfer(selector, n, pool, amount, dest, extra) ==
    [SourcePoolAddress |-> Data(pool), DestTokenAddress |-> dest, ExtraData |-> Data(extra), Amount |-> amount,
     DestExecData |-> IF selector = Ton THEN <<0, 1, 2, n % 4>> ELSE [destgasamount |-> 66048 + (n % 4)]]

Message(n, sender, data, receiver, args, tokens) ==
    [Header |-> <<1000 + n, 1, 2, n, 0>>, Sender |-> Data(sender), Data |-> Data(data), Receiver |-> receiver,
     ExtraArgs |-> args, TokenAmounts |-> tokens]

ChainReport(selector, messages, tokenData, proofs) ==
    [SourceChainSelector |-> selector, Messages |-> messages, OffchainTokenData |-> tokenData,
     Proofs |-> proofs, ProofFlagBits |-> 5]

SVMArgs == [bits |-> StoreStruct(SVMExtraArgsV1, <<svmExtraArgsV1Tag, 9, 1, TRUE, 0>>), refs |-> <<EmptyCell>>]
UnknownArgs == [EmptyCell EXCEPT !.bits = <<[value |-> "00000000", width |-> 32]>>]

\* How many chain reports, messages, tokens, pieces of token data and proofs.
Shapes ==
    {[ChainReports |-> [c \in 1 .. chains |->
        ChainReport(IF c = 2 THEN Evm ELSE Ton,
                    [m \in 1 .. messages |-> Message(m, 20, 2, RawAddr(m), << >>,
                        [n \in 1 .. tokens |-> Transfer(IF c = 2 THEN Evm ELSE Ton, n, 20, n, RawAddr(n), 1)])],
                    [m \in 1 .. messages - 1 |-> [n \in 1 .. pieces |-> Data(m + n)]],
                    [p \in 1 .. proofs |-> [Data(32) EXCEPT ![1] = p]])]] :
        chains \in {0, 1, 3, 4}, messages \in {0, 1, 3, 4}, tokens \in {0, 3, 4},
        pieces \in {0, 1, 4}, proofs \in {0, 3, 7}}

\* What one message and its token hold.
Contents(selector, Args) ==
    {[ChainReports |-> <<ChainReport(selector,
        <<Message(1, sender, data, receiver, args, <<Transfer(selector, 3, pool, amount, dest, extra)>>)>>,
        <<<<Data(data)>>>>, << >>)>>] :
        sender \in {0, 1, 64, 65}, data \in {0, 127, 128, 255}, receiver \in {BadAddress, RawAddr(1)},
        pool \in {0, 57, 58}, amount \in {Empty, -1, 0}, dest \in {BadAddress, RawAddr(3)},
        extra \in {127, 128}, args \in Args}

MCExecuteReports ==
    Shapes
        \union Contents(Ton, {NotACell, GenericExtraArgsV2(0, FALSE), GenericExtraArgsV2(300, TRUE), SVMArgs, UnknownArgs})
        \union Contents(Evm, {[gasLimit |-> 300, allowOutOfOrderExecution |-> FALSE]})

=============================================================================
