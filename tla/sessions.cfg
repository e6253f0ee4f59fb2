SPECIFICATION Spec
CONSTANTS
    Tabs = {t1, t2}
    MaxPairs = 3
    MaxCalls = 2
    None = None
INVARIANTS
    ExchangedOnce
    KeepsToken
    OutIsOut
PROPERTIES
    WaitEnds
CHECK_DEADLOCK FALSE
