CONSTANTS
    t1 = t1
    t2 = t2
    n1 = n1
    Threads <- MCThreads
    Names <- MCNames
    ThreadMask = 1
    BatMask = 1
    BBPINIT = 3
    N_BBPINIT = 1
    threadmask <- MCthreadmask1
    NoThread = NoThread
    NoName = NoName
    Tmp = Tmp
SPECIFICATION Spec
INVARIANTS SlotAccounting
PROPERTIES FailOnlyWhenFull
