SPECIFICATION SessionSpec
CONSTANTS
    CVs <- mcCVs
    PVs <- mcPVs
    Configs <- mcConfigs2
    IAccs <- mcIAccs
    FlushIntervals <- mcFlushIntervals
    HasStore = TRUE
    SinkResults = {"ok", "err"}
    IterMax = 2
    FailMax = 1
    AgeCap = 2
    None = None
    NoFile = NoFile
INVARIANTS LastCvConfirmed CoreMirrored
PROPERTIES RegisterSpec FileNeverRegresses
