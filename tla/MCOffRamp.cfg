CONSTANTS
    o1 = o1
    o2 = o2
    o3 = o3
    o4 = o4
    o5 = o5
    t1 = t1
    t2 = t2
    theOwner = theOwner
    evm = evm
    svm = svm
    ha = ha
    hb = hb
    fresh = fresh
    wrong = wrong
    d1 = d1
    d2 = d2
    Absent = Absent
    Signer <- MCSigner
    Transmitter = {t1, t2}
    MAX_NUM_ORACLES = 4
    Owner = theOwner
    SourceChain = {evm, svm}
    Hash = {ha, hb}
    TrueRoots <- MCTrueRoots
    TruePrices <- MCTruePrices
    Faulty <- MCFaulty
    Configs <- MCConfigs
    CommitReports <- MCCommitReports
    ExecutionReports <- MCExecutionReports
    Digest = {d1, d2}
    Sender <- MCSender
    MaxSignatures = 2
    MaxCommits = 3
SPECIFICATION FairSpec
INVARIANT CommittedIsTrue
PROPERTIES RootKept AcceptedIsDeployed
