CONSTANTS
    Tokens = {t1}
    Requests = {r1, r2, r3}
    None = None
    Lifetimes = {1, 2}
    Limits = {0, 1, 2}
    Sec = 2
    Grace = 5
    MaxDelay = 3
    MaxNow = 9
    MaxRestarts = 1
SPECIFICATION Spec
SYMMETRY Symmetry
INVARIANTS TypeOK MaxUsesRespected RefusedOnlyWhenUsedUp Inductive
PROPERTIES ImplementsUseCounter
CHECK_DEADLOCK FALSE
