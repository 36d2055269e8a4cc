SPECIFICATION Spec
CONSTANTS
    CommitReports <- MCCommitReports
    ExecuteReports <- MCExecuteReports
    TonSelectors = {"ton"}
    DefaultFlags = "EQ"
    Empty = Empty
    BadAddress = BadAddress
    NotACell = NotACell
    NoReport = NoReport
    NoBytes = NoBytes
    Refused = Refused
INVARIANTS
    ReportKept
    RefusedForAnElement
