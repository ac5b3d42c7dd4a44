CONSTANTS
    N = 2
    MaxReads = 3
    Cap = 2
SPECIFICATION FairSpec
INVARIANTS TypeOK ArchiveBegun
PROPERTY TaskEnds
CHECK_DEADLOCK FALSE
