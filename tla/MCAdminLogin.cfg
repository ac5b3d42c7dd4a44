CONSTANTS
    Clients = {c1, c2}
    None = None
    Burst = 2
    Period = 2
    Day = 3
    Kept = TRUE
    MaxNow = 4
    MaxRestarts = 1
SPECIFICATION Spec
SYMMETRY Symmetry
INVARIANTS TypeOK LoginWindow RetryAfterHonest OutsidersLimited
PROPERTIES ImplementsTokenBucket
CHECK_DEADLOCK FALSE
