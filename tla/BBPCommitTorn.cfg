\* Two bats with two versions each, one failed file operation, no crash:
\* a subcommit that fails after its backup, then a subcommit of another bat.
CONSTANTS
    NBats = 2
    MaxVer = 1
    MaxBackup = 4
    MaxIOErrors = 1
    MaxCrashes = 0
    noFile = noFile
    partial = partial
    noCatalog = noCatalog
    NoFile <- noFile
    Partial <- partial
    NoCatalog <- noCatalog
SPECIFICATION Spec
PROPERTIES AtomicDurability
