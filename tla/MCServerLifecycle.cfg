CONSTANTS
    Edits = {e1, e2}
    Torn = Torn
    OneAtATime = FALSE
    Expiring = TRUE
    MaxCerts = 2
    MaxFaults = 1
SPECIFICATION FairSpec
INVARIANTS TypeOK NothingLost AnsweredEditsServed
PROPERTIES SignalledEditsServed RestartTakesPlace
CHECK_DEADLOCK FALSE
