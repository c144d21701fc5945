CONSTANTS
    m = m
    a = a
    b = b
    NIL = NIL
    Co = {m, a, b}
    Main = m
    P = 2
    THRESHOLD = 1
    MAX_SPIN_LOOP_NUM = 2
    MaxOps = 2
    STEALING = TRUE
    DETECT = FALSE
SPECIFICATION SpecNoDetect
PROPERTY ReadyEventuallyRuns
CHECK_DEADLOCK FALSE
