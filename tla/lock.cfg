SPECIFICATION FairLockSpec
CONSTANTS
    Runs = {r1, r2, r3, r4}
    MaxAge = 6
    MaxRun = 6
    Apart = TRUE
    MaxKills = 3
INVARIANTS
    OneAtATime
PROPERTIES
    RunsAgain
CHECK_DEADLOCK FALSE
