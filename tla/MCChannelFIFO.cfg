CONSTANTS
    t1 = t1
    t2 = t2
    t3 = t3
    a = a
    b = b
    NIL = NIL
    Co = {t1, t2, t3}
    Chan = {a, b}
    Cap <- MCCap
    Prog <- MCProgFIFO
    MaxOps <- MCMaxOps
    LockOrder <- MCLockOrder

SPECIFICATION Spec

INVARIANT ProducerFIFO



CHECK_DEADLOCK FALSE
