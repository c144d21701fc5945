CONSTANTS
    c1 = c1
    c2 = c2
    Co = {c1, c2}
    MaxWaits = 2
    TIMED = TRUE
SPECIFICATION Spec
INVARIANT TypeOK RefcountExact
PROPERTY WaitReturns
CHECK_DEADLOCK FALSE
