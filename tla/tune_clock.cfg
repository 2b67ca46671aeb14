SPECIFICATION TuneFairSpec
CONSTANTS
    CVs <- mcOneCv
    PVs <- mcPVs
    Configs <- mcConfigs
    IAccs <- mcIAccs
    FlushIntervals <- mcIntervals
    HasStore = FALSE
    SinkResults = {"ok", "err", "dry"}
    IterMax = 0
    FailMax = 1
    AgeCap = 4
    None = None
    NoFile = NoFile
    Intervals <- mcIntervals
    MinDt = 1
    ExplicitMaxDt = None
    MinDtDefault = 0
    MaxDtDefault = 3
    DtClamp = FALSE
    ExplicitFlush = None
    MinStateFlush = 1
    SafeCv = None
    FailAfter = None
    CvFailAfter = 1
    MaxIterations = None
    HasSocket = TRUE
    PvResults = {"ok", "err"}
    LateCap = 1
    CountCap = 1
    MaxRequests = 1
PROPERTIES DeadlineAhead TuneEnds TicksKeepComing
