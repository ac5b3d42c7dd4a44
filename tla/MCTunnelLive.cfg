CONSTANTS
    Downloads = {d1, d2}
    None = None
    FileLen = 3
    Sizes = {3}
    Cap = 2
    MaxRestarts = 1
    MaxFaults = 0
    Https = FALSE
SPECIFICATION FairSpec
INVARIANT TypeOK
PROPERTIES HeardIsServed OnlyUnclaimedHang ClientKeepsPolling ReannouncedAfterRestart ImplementsFileTransfer
CHECK_DEADLOCK FALSE
