CONSTANTS
    t1 = t1
    t2 = t2
    t3 = t3
    a = a
    b = b
    NIL = NIL
    Co = {t1, t2, t3}
    Chan = {a, b}
    Cap <- MCCap
    Prog <- MCProg
    MaxOps <- MCMaxOps
    LockOrder <- MCLockOrder

SPECIFICATION Spec

INVARIANT TypeOK
INVARIANT ChannelInv
INVARIANT SelectClaimUnique
INVARIANT ReadyQueueSound
INVARIANT NoStaleQuantum
INVARIANT BufferConservation
INVARIANT NoLockCycle

PROPERTY ClaimedWaiterResumes

PROPERTY ImplementsAbstract

CHECK_DEADLOCK FALSE
