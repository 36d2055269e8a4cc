CONSTANTS
    evm = evm
    tonToken = tonToken
    admin = admin
    router = router
    ramp = ramp
    otherRamp = otherRamp
    quoter = quoter
    otherQuoter = otherQuoter
    user = user
    wallet = wallet
    Absent = Absent
    Token <- MCToken
    Dest <- MCDest
    Link <- MCLink
    RouterAddr = router
    ForwardingRouter = router
    RouterOwner = admin
    Ramp <- MCRamp
    MaxSends = 3
    OnRampAddr = ramp
    OnRampOwner = admin
    Quoter <- MCQuoter
    OtherQuoter = otherQuoter
    User = {user}
    Wallet = {wallet}
    FeeQuoterAddr = quoter
    FeeOwner = admin
    Sender = {admin}
    VAL_1E14 = 2
    TON_2_EVM_MESSAGE_FIXED_BYTES = 2
    ChainConfigs <- MCChainConfigs
    Multipliers = {1}
    TokenPrices = {1}
    GasPrices <- MCGasPrices
    Messages <- MCMessages
    UserMessages <- MCUserMessages
    StartTime = 1
    MaxTime = 2
SPECIFICATION FairSpec
INVARIANTS SequenceContiguous EmittedOnce EmittedInOrder QuotesArePriced FeeMonotone
PROPERTY EventuallySettled
