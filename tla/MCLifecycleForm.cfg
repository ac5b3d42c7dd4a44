CONSTANTS
    Edits = {e1, e2}
    Torn = Torn
    OneAtATime = TRUE
    Expiring = FALSE
    MaxCerts = 1
    MaxFaults = 0
SPECIFICATION Spec
INVARIANT SavedFormStays
CHECK_DEADLOCK FALSE
