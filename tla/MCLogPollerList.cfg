CONSTANTS
    a = a
    b = b
    Filter <- MCApart
    Address = {a, b}
    Byte = {0, 1}
    Outs <- MCOuts
    PageSize = 1
    Faults = {"list"}
    MAX_SEQNO = 2
    MAX_TXS = 2
    MAX_LOGS = 8
SPECIFICATION Spec
INVARIANT Complete
