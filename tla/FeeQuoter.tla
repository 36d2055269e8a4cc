----------------------------- MODULE FeeQuoter ------------------------------
(***************************************************************************)
(* The FeeQuoter of contracts/contracts/ccip/fee_quoter.tolk: prices and   *)
(* fee parameters, and the fee of a message.                               *)
(*                                                                         *)
(* No chain ever has a tokenTransferFeeConfigs entry: a new chain starts   *)
(* with none, and updateTokenTransferFeeConfigs, the only message that     *)
(* adds one, throws.  Its first call, UMap.min, searches the dictionary    *)
(* of 64-bit selectors with keys of ADDR_KEY_LEN = 267 bits, which the     *)
(* TVM refuses for every dictionary, the empty one included.  So the       *)
(* message is no action here, and a token transfer has no fee.             *)
(*                                                                         *)
(* The power of ten is a parameter; sums that overflow 257 bits, which     *)
(* throw, are out of the range considered.                                 *)
(***************************************************************************)
EXTENDS CCIPBase

CONSTANTS
    FeeQuoterAddr,
    FeeOwner,                   \* st.ownable.owner; no message changes it
    VAL_1E14, TON_2_EVM_MESSAGE_FIXED_BYTES,
    \* The inputs of the handlers:
    Sender, ChainConfigs, Multipliers, TokenPrices, GasPrices, Messages,
    StartTime, MaxTime          \* blockchain.now() at deployment, and its bound

VARIABLES
    now,
    usdPerToken,                \* [Token -> Nat or Absent]
    premiumMultiplierWeiPerEth, \* [Token -> Nat or Absent]: the fee tokens
    chains,                     \* destChainConfigs: [Dest -> DestChainConfig or Absent]
    priced                      \* history: chains whose gas price has been pushed

quoterVars == <<usdPerToken, premiumMultiplierWeiPerEth, chains, priced>>

\* The time since the epoch exceeds every staleness threshold in use.
ASSUME TimeAssumption ==
    /\ StartTime \in Nat /\ MaxTime \in Nat
    /\ \A c \in ChainConfigs : c.gasPriceStalenessThreshold \in 0 .. StartTime

\* What the fee depends on; integers are unsigned in the storage and messages.
FeeQuoterDestChainConfig ==
    [isEnabled : BOOLEAN, gasPriceStalenessThreshold : Nat,
     destGasOverhead : Nat, destGasPerPayloadByteBase : Nat,
     destGasPerPayloadByteHigh : Nat, destGasPerPayloadByteThreshold : Nat,
     destDataAvailabilityOverheadGas : Nat, destGasPerDataAvailabilityByte : Nat,
     destDataAvailabilityMultiplierBps : Nat, gasMultiplierWeiPerEth : Nat,
     networkFeeUsdCents : Nat]

\* A message: its destination, fee token, the cells and bits of its data, and
\* the tokens it transfers.
CCIPMessage ==
    [dest : Dest, feeToken : Token, dataCells : Nat, dataBits : Nat, tokens : Seq(Token)]

ASSUME InputAssumption ==
    /\ ChainConfigs \subseteq FeeQuoterDestChainConfig
    /\ Multipliers \subseteq Nat /\ TokenPrices \subseteq Nat
    /\ GasPrices \subseteq [executionGasPrice : Nat, dataAvailabilityGasPrice : Nat]
    /\ Messages \subseteq CCIPMessage

ASSUME UnitAssumption == {VAL_1E14, TON_2_EVM_MESSAGE_FIXED_BYTES} \subseteq Nat

NoGasPrice == [executionGasPrice |-> 0, dataAvailabilityGasPrice |-> 0, timestamp |-> 0]

-----------------------------------------------------------------------------
(* The fee of a message without transfers. *)

CalldataLen(msg) == msg.dataBits \div 8

MutHighRateForAll(msg) ==
    LET c == chains[msg.dest].config
        len == CalldataLen(msg)
    IN  IF len > c.destGasPerPayloadByteThreshold
        THEN (len - c.destGasPerPayloadByteThreshold) * c.destGasPerPayloadByteHigh
        ELSE len * c.destGasPerPayloadByteBase

CalldataGas(msg) ==
    LET c == chains[msg.dest].config
        len == CalldataLen(msg)
    IN  IF len > c.destGasPerPayloadByteThreshold
        THEN c.destGasPerPayloadByteBase * c.destGasPerPayloadByteThreshold
                + (len - c.destGasPerPayloadByteThreshold) * c.destGasPerPayloadByteHigh
        ELSE len * c.destGasPerPayloadByteBase

ExecutionCost(msg) ==
    LET c == chains[msg.dest].config
    IN  chains[msg.dest].usdPerUnitGas.executionGasPrice
            * (c.destGasOverhead + CalldataGas(msg)) * c.gasMultiplierWeiPerEth

DataAvailabilityCost(msg) ==
    LET c == chains[msg.dest].config
        gas == (TON_2_EVM_MESSAGE_FIXED_BYTES + CalldataLen(msg)) * c.destGasPerDataAvailabilityByte
                  + c.destDataAvailabilityOverheadGas
    IN  chains[msg.dest].usdPerUnitGas.dataAvailabilityGasPrice * gas
            * c.destDataAvailabilityMultiplierBps * VAL_1E14

validatedFee(msg) ==
    (chains[msg.dest].config.networkFeeUsdCents * premiumMultiplierWeiPerEth[msg.feeToken]
        + ExecutionCost(msg) + DataAvailabilityCost(msg)) \div usdPerToken[msg.feeToken]

GasPriceFresh(dest) ==
    LET threshold == chains[dest].config.gasPriceStalenessThreshold
    IN  threshold # 0 => threshold > now - chains[dest].usdPerUnitGas.timestamp

\* getTokenTransferCost throws at the first transfer: its token has no entry.
TransfersSupported(msg) == msg.tokens = << >>

\* Every requirement on the way to the fee.  The data has at most 99 cells and
\* is made of bytes; a fee token priced 0 divides by zero.
Quotable(msg) ==
    /\ chains[msg.dest] # Absent
    /\ chains[msg.dest].config.isEnabled
    /\ premiumMultiplierWeiPerEth[msg.feeToken] # Absent
    /\ usdPerToken[msg.feeToken] \notin {Absent, 0}
    /\ GasPriceFresh(msg.dest)
    /\ TransfersSupported(msg)
    /\ msg.dataCells <= 99 /\ msg.dataBits % 8 = 0

-----------------------------------------------------------------------------
(* Message handlers. *)

updateFeeTokens(sender, add, remove) ==
    /\ sender = FeeOwner
    /\ premiumMultiplierWeiPerEth' = Remove(Update(premiumMultiplierWeiPerEth, add), remove)
    /\ UNCHANGED <<now, channel, usdPerToken, chains, priced>>

NewChain(config, gasPrice) == [config |-> config, usdPerUnitGas |-> gasPrice]

MutNewChainStamped(sender, dest, config) ==
    /\ sender = FeeOwner
    /\ chains' = [chains EXCEPT ![dest] =
            IF @ # Absent THEN [@ EXCEPT !.config = config]
            ELSE NewChain(config, [NoGasPrice EXCEPT !.timestamp = now])]
    /\ UNCHANGED <<now, channel, usdPerToken, premiumMultiplierWeiPerEth, priced>>

updateDestChainConfig(sender, dest, config) ==
    /\ sender = FeeOwner
    /\ chains' = [chains EXCEPT ![dest] =
            IF @ # Absent THEN [@ EXCEPT !.config = config] ELSE NewChain(config, NoGasPrice)]
    /\ UNCHANGED <<now, channel, usdPerToken, premiumMultiplierWeiPerEth, priced>>

\* Anybody's message, stamped with the current time.  Gas prices of chains
\* without a configuration are passed over.
updatePrices(tokenPrices, gasPrices) ==
    LET known == {dest \in DOMAIN gasPrices : chains[dest] # Absent}
    IN  /\ usdPerToken' = Update(usdPerToken, tokenPrices)
        /\ chains' = [dest \in Dest |->
                IF dest \in known
                THEN [chains[dest] EXCEPT !.usdPerUnitGas =
                        [executionGasPrice |-> gasPrices[dest].executionGasPrice,
                         dataAvailabilityGasPrice |-> gasPrices[dest].dataAvailabilityGasPrice,
                         timestamp |-> now]]
                ELSE chains[dest]]
        /\ priced' = priced \cup known
        /\ UNCHANGED <<now, channel, premiumMultiplierWeiPerEth>>

\* Answers whoever asked with the fee of the message asked about.
getValidatedFee(from) ==
    LET m == NextIn(from, FeeQuoterAddr)
    IN  /\ Pending(from, FeeQuoterAddr)
        /\ Quotable(m.msg)
        /\ channel' = Sent(Taken(from, FeeQuoterAddr), FeeQuoterAddr, from,
                          [id |-> m.id, sender |-> m.sender, msg |-> m.msg,
                           fee |-> validatedFee(m.msg)])
        /\ UNCHANGED <<now, quoterVars>>

Tick ==
    /\ now < MaxTime
    /\ now' = now + 1
    /\ UNCHANGED <<channel, quoterVars>>

QuoterInit ==
    /\ now = StartTime
    /\ usdPerToken = [t \in Token |-> Absent]
    /\ premiumMultiplierWeiPerEth = [t \in Token |-> Absent]
    /\ chains = [dest \in Dest |-> Absent]
    /\ priced = {}

\* A vector of at most one entry; several messages stand for a longer one.
Entries(Key, Value) == UNION {[ks -> Value] : ks \in {ks \in SUBSET Key : \A a, b \in ks : a = b}}

QuoterStep(sender) ==
    \/ \E add \in Entries(Token, Multipliers), t \in SUBSET Token : updateFeeTokens(sender, add, t)
    \/ \E dest \in Dest, config \in ChainConfigs : updateDestChainConfig(sender, dest, config)
    \/ \E prices \in Entries(Token, TokenPrices), gas \in Entries(Dest, GasPrices) :
            updatePrices(prices, gas)

-----------------------------------------------------------------------------
(* Properties. *)

\* A chain whose staleness check is on is quoted only at a gas price that was
\* pushed: the price 0 a new chain starts with (updateDestChainConfig) is
\* never taken for a real one by getValidatedGasPrice.
QuotesArePriced ==
    \A msg \in Messages :
        Quotable(msg) /\ chains[msg.dest].config.gasPriceStalenessThreshold # 0
            => msg.dest \in priced

\* validatedFee never charges less for more: whatever prices and configurations
\* are in force, the step of the calldata rate at destGasPerPayloadByteThreshold
\* does not make a message with more data cheaper than one with less.
FeeMonotone ==
    \A msg1, msg2 \in Messages :
        /\ msg1.dest = msg2.dest /\ msg1.feeToken = msg2.feeToken
        /\ msg1.dataBits <= msg2.dataBits
        /\ Quotable(msg1) /\ Quotable(msg2)
        => validatedFee(msg1) <= validatedFee(msg2)

=============================================================================
