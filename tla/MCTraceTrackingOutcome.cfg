CONSTANTS
    w = w
    v = v
    c = c
    skipped = skipped
    external = external
    Account = {w, v, c}
    Root = w
    Roots = {w, v}
    Dests <- MCDests
    ExitCodes = {0, 7}
    Skipped = skipped
    External = external
    MAX_MESSAGES = 4
    MAX_READINGS = 0
SPECIFICATION Spec
INVARIANT SucceededIsExecuted
CHECK_DEADLOCK FALSE
