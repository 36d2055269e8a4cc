CONSTANTS
    Request <- MCRequests
    BroadcastChanSize = 2
    MaxSendRetryAttempts = 2
SPECIFICATION TxmFairSpec
INVARIANTS RecordedIsExecuted RecordedInOrder StatusIsTrue
PROPERTIES EventuallyResolved CloseReturns
CHECK_DEADLOCK FALSE
