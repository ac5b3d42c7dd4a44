CONSTANTS
    Edits = {e1, e2}
    Torn = Torn
    OneAtATime = TRUE
    Expiring = TRUE
    MaxCerts = 2
    MaxFaults = 0
SPECIFICATION Spec
INVARIANT SecretsStay
CHECK_DEADLOCK FALSE
