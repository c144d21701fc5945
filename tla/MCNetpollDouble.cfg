CONSTANTS
    c1 = c1
    c2 = c2
    Co = {c1, c2}
    MaxWaits = 2
    TIMED = TRUE
SPECIFICATION Spec
SYMMETRY MCSymmetry
INVARIANT ReadyOnce
CHECK_DEADLOCK FALSE
