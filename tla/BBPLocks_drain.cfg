CONSTANTS
    c1 = c1
    c2 = c2
    manager = manager
    committer = committer
    exiter = exiter
    noProc = noProc
    Clients <- MC_Clients
    Manager <- manager
    Committer <- committer
    Exiters <- MC_Exiters
    NoProc <- noProc
    NBats = 2
    ViewOf <- MC_NoViews
SPECIFICATION Spec
CHECK_DEADLOCK FALSE
SYMMETRY MC_Symmetry
INVARIANT UnloadsDrained
