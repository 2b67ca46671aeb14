SPECIFICATION FairSpec
CONSTANTS
    CVs <- mcOneCv
    PVs <- mcPVs
    Configs <- mcConfigs
    IAccs <- mcIAccs
    FlushIntervals <- mcIntervals
    HasStore = FALSE
    SinkResults = {"ok"}
    IterMax = 0
    FailMax = 1
    AgeCap = 7
    None = None
    NoFile = NoFile
    Intervals <- mcIntervals
    MinDt = 1
    ExplicitMaxDt = None
    MinDtDefault = 0
    MaxDtDefault = 6
    DtClamp = FALSE
    ExplicitFlush = None
    MinStateFlush = 1
    SafeCv = None
    FailAfter = None
    CvFailAfter = 2
    MaxIterations = None
    HasSocket = TRUE
    PvResults = {"ok"}
    LateCap = 2
    CountCap = 1
PROPERTIES NoBurst DerivativeSpansDt ShutdownCompletes StepsKeepComing
