CONSTANTS
    MAX <- MCMAX
    Vals <- MCVals
SPECIFICATION Spec
INVARIANT TypeOK
INVARIANT ResultIsMax
INVARIANT NoOutOfBoundsRead
PROPERTY Terminates
CHECK_DEADLOCK FALSE
