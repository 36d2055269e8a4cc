SPECIFICATION MCSpec
CONSTANTS
    NUM_GROUPS = 3
    MAX_NUM_SIGNERS = 4
    alice = alice
    bob = bob
    Address = {alice, bob}
    NoAddress = NoAddress
    Deployer = alice
    Key = {1, 2, 3}
    Configs <- MCConfigs
    r1 = r1
    r2 = r2
    p = p
    q = q
    Root = {r1, r2}
    NoRoot = NoRoot
    MetadataLeaves <- MCMetadataLeaves
    OpLeaves <- MCOpLeaves
    Payload = {p, q}
    Expiry = {1, 2}
    StartTime = 1
    MaxTime = 3
    VOTE_QUORUM = 2
    VoteConfigs <- MCVoteConfigs
INVARIANT NoncesContiguous
INVARIANT ExecutedUnderRoot
INVARIANT RootSetByQuorum
INVARIANT RootsSetOnce
INVARIANT SkippedOnlyByOverride
INVARIANT RootReachedIffSuccessful
 
