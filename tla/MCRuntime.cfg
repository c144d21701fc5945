CONSTANTS
    m = m
    a = a
    b = b
    w1 = w1
    w2 = w2
    NIL = NIL
    NONE = NONE
    Co = {m, a, b}
    Main = m
    P = 2
    THRESHOLD = 1
    MAX_SPIN_LOOP_NUM = 2
    MaxOps = 2
    STEALING = TRUE
    DETECT = TRUE
    Worker = {w1}
    VfsCo = {a, b}
    MaxVfsOps = 1
SPECIFICATION Spec
INVARIANT TypeOK
INVARIANT Lifecycle
INVARIANT DeadlockSoundVfs
INVARIANT SavedBeforeVisible
PROPERTY VfsOpCompletes
CHECK_DEADLOCK FALSE
