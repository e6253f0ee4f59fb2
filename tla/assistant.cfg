SPECIFICATION Spec
CONSTANTS
    MaxSessions = 3
    MaxAsks = 2
    MaxCalls = 2
    None = None
INVARIANTS
    ShowsCurrent
    DeletedForGood
PROPERTIES
    AskEnds
CHECK_DEADLOCK FALSE
