SPECIFICATION FairSpec
CONSTANTS
    Files = {f1}
    Requests = {c1}
    NoFile = NoFile
    MaxFaults = 0
PROPERTIES
    DownloadDestroys
CHECK_DEADLOCK FALSE
