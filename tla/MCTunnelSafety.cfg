CONSTANTS
    Downloads = {d1, d2, d3}
    None = None
    FileLen = 2
    Sizes = {1, 2, 3}
    Cap = 1
    MaxRestarts = 1
    MaxFaults = 1
    Https = TRUE
SPECIFICATION Spec
SYMMETRY Symmetry
INVARIANTS Inductive IntactUnlessOrphaned AckedMeansDelivered NoPartialBody
PROPERTIES TransferUntilHarmed
CHECK_DEADLOCK FALSE
