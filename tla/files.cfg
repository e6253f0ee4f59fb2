SPECIFICATION FairSpec
CONSTANTS
    Files = {f1}
    Requests = {c1, c2}
    NoFile = NoFile
    MaxFaults = 1
INVARIANTS
    CleanHasBlob
    NoMalwareServed
    PlaintextAccounted
    BrokenOnlyIfGone
    OrphansOnlyFromRaces
PROPERTIES
    ScanEnds
    ExpiredFilesGo
    OwnerDownloadDestroys
CHECK_DEADLOCK FALSE
