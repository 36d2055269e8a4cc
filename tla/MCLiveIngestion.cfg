CONSTANTS
    a = a
    b = b
    Filter <- MCFilter
    Address = {a, b}
    Byte = {0, 1}
    Outs <- MCOuts
    PageSize = 1
    Faults = {"prev"}
    MAX_SEQNO = 3
    MAX_TXS = 3
    MAX_LOGS = 2
    BASE = 2
    WORD = 2
    TARGET = 2
    MAX_FAILS = 1
    Counter = a
    CountIncreased <- x
    Limit = 1
SPECIFICATION LiveSpec
CHECK_DEADLOCK FALSE
INVARIANTS Complete PagesReadOnce QueriesExact
PROPERTY EventuallyIngested
