SPECIFICATION Spec
CONSTANTS
    Rows = {r1, r2}
    None = None
    MaxCalls = 2
INVARIANTS
    UpToDate
    NoDeadSpinner
    SentOnce
    AllowedByServer
CHECK_DEADLOCK FALSE
