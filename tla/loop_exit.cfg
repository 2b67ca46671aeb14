SPECIFICATION Spec
CONSTANTS
    CVs <- mcCVs
    PVs <- mcPVs
    Configs <- mcConfigs
    IAccs <- mcIAccs
    FlushIntervals <- mcInterval1
    HasStore = TRUE
    SinkResults = {"ok", "err"}
    IterMax = 1
    FailMax = 1
    AgeCap = 4
    None = None
    NoFile = NoFile
    Intervals <- mcInterval1
    MinDt = 1
    ExplicitMaxDt = None
    MinDtDefault = 0
    MaxDtDefault = 3
    DtClamp = FALSE
    ExplicitFlush = None
    MinStateFlush = 1
    SafeCv = 2
    FailAfter = 2
    CvFailAfter = 2
    MaxIterations = None
    HasSocket = TRUE
    PvResults = {"ok", "err"}
    LateCap = 1
    CountCap = 3
INVARIANTS LeavesSafe CleanExitDurable
