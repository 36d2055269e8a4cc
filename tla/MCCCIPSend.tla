----------------------------- MODULE MCCCIPSend -----------------------------
(***************************************************************************)
(* MaxSends sends by one user to one destination, with two fee quoters and *)
(* two OnRamps.  The fee quoter has one token and one price.               *)
(***************************************************************************)
EXTENDS CCIPSend

CONSTANTS evm, tonToken, admin, router, ramp, otherRamp, quoter, otherQuoter, user, wallet

MCToken == {tonToken}
MCDest == {evm}
MCRamp == {ramp, otherRamp}
MCQuoter == {quoter, otherQuoter}

MCLink == {<<router, ramp>>, <<ramp, quoter>>, <<ramp, otherQuoter>>,
           <<quoter, ramp>>, <<otherQuoter, ramp>>}

\* The higher calldata rate starts above 2 bytes.
Config(enabled, threshold) ==
    [isEnabled |-> enabled, gasPriceStalenessThreshold |-> threshold,
     destGasOverhead |-> 1, destGasPerPayloadByteBase |-> 9,
     destGasPerPayloadByteHigh |-> 10, destGasPerPayloadByteThreshold |-> 2,
     destDataAvailabilityOverheadGas |-> 1, destGasPerDataAvailabilityByte |-> 2,
     destDataAvailabilityMultiplierBps |-> 1, gasMultiplierWeiPerEth |-> 2,
     networkFeeUsdCents |-> 2]

MCChainConfigs == {Config(TRUE, 1), Config(FALSE, 0)}

MCGasPrices == {[executionGasPrice |-> 1, dataAvailabilityGasPrice |-> 2]}

Message(cells, bits, tokens) ==
    [dest |-> evm, feeToken |-> tonToken, dataCells |-> cells, dataBits |-> bits, tokens |-> tokens]

MCMessages ==
    {Message(1, bits, << >>) : bits \in {0, 8, 12, 16, 24, 32}}
        \cup {Message(100, 24, << >>), Message(1, 24, <<tonToken>>)}

MCUserMessages == {Message(1, 24, << >>)}

=============================================================================
