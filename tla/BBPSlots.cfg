CONSTANTS
    t1 = t1
    t2 = t2
    n1 = n1
    Threads <- MCThreads
    Names <- MCNames
    ThreadMask = 0
    BatMask = 1
    BBPINIT = 2
    N_BBPINIT = 2
    threadmask <- MCthreadmask0
    NoThread = NoThread
    NoName = NoName
    Tmp = Tmp
SPECIFICATION Spec
INVARIANTS TypeOK SlotAccounting NameIndexSound RenamedKept
PROPERTIES FailOnlyWhenFull
SYMMETRY MCSymmetry
