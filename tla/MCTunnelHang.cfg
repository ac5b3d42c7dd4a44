CONSTANTS
    Downloads = {d1}
    None = None
    FileLen = 2
    Sizes = {2}
    Cap = 1
    MaxRestarts = 0
    MaxFaults = 0
    Https = FALSE
SPECIFICATION FairSpec
PROPERTY DownloadServed
CHECK_DEADLOCK FALSE
