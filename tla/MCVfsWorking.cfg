CONSTANTS
    w1 = w1
    w2 = w2
    c1 = c1
    c2 = c2
    c3 = c3
    NONE = NONE
    Co = {c1, c2}
    MaxOps = 2
    Worker = {w1, w2}
SPECIFICATION Spec
INVARIANT VfsWorkingSound
CHECK_DEADLOCK FALSE
