CONSTANTS
    W = 8
    MaxLen = 3
    Numbers = {0, 1, 7}
    MaxVersions = 2
    MaxTries = 3
SPECIFICATION FairSpec
INVARIANTS TypeOK RangeHonoured CompleteIsExact ResumeAssembles PanicsOnlyOnEmpty
PROPERTY EveryResponseEnds
CHECK_DEADLOCK FALSE
