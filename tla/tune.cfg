SPECIFICATION TuneSpec
CONSTANTS
    CVs <- mcCVs
    PVs <- mcPVs
    Configs <- mcConfigs
    IAccs <- mcIAccs
    FlushIntervals <- mcInterval1
    HasStore = TRUE
    SinkResults = {"ok", "err", "dry"}
    IterMax = 0
    FailMax = 1
    AgeCap = 2
    None = None
    NoFile = NoFile
    Intervals <- mcInterval1
    MinDt = 1
    ExplicitMaxDt = 1
    MinDtDefault = 0
    MaxDtDefault = 1
    DtClamp = FALSE
    ExplicitFlush = 1
    MinStateFlush = 1
    SafeCv = 2
    FailAfter = 2
    CvFailAfter = 2
    MaxIterations = None
    HasSocket = TRUE
    PvResults = {"ok", "err"}
    LateCap = 1
    CountCap = 2
    MaxRequests = 1
INVARIANTS TuneCvKnown TuneExitDurable
PROPERTIES HoldKeepsCv
