CONSTANTS
    top = top
    root = root
    dir = dir
    inner = inner
    other = other
    outside = outside
    Places <- MCPlaces
    Parent <- MCParent
    Root = root
    Targets <- MCTargets
    Searches <- MCSearches
    ShareDirs = FALSE
    MaxDepth = 2
    Limit = 2
    MaxChanges = 1
SPECIFICATION Spec
INVARIANTS TypeOK FindsWhatStays OfferedCanBeShared
CHECK_DEADLOCK FALSE
