CONSTANTS
    Downloads = {d1, d2}
    None = None
    FileLen = 2
    Sizes = {2}
    Cap = 1
    MaxRestarts = 0
    MaxFaults = 1
    Https = FALSE
SPECIFICATION Spec
INVARIANT DeliveredInOrder
CHECK_DEADLOCK FALSE
