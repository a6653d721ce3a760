CONSTANTS
    noLine = noLine
    NoLine <- noLine
    NIds = 4
    OldKind <- MC_OldKind
    NewKind <- MC_NewKind
SPECIFICATION Spec
\* BBPsync returns after one commit, and the restart ends once: the states
\* at pc = "end" (failed commit) and "up" have no successor.
CHECK_DEADLOCK FALSE
INVARIANTS TypeOK MergeCorrect CommittedFilesKept RestartSucceeds LeftoversPruned
