\* Two bats with two versions each, up to two crashes and one failed file operation.
CONSTANTS
    NBats = 2
    MaxVer = 1
    MaxBackup = 3
    MaxIOErrors = 1
    MaxCrashes = 2
    noFile = noFile
    partial = partial
    noCatalog = noCatalog
    NoFile <- noFile
    Partial <- partial
    NoCatalog <- noCatalog
SPECIFICATION Spec
INVARIANT TypeOK
PROPERTIES AtomicDurability RecoveryCompletes
