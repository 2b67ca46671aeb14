SPECIFICATION Spec
CONSTANTS
    Procs = {p1, p2}
    Flags <- mcFlags
    Setpoints = {"sp"}
    Gains <- mcGains
    DefaultGains = "g1"
    Second = 2
    MinDt = 1
    MaxDt = 3
    SlowCap = 1
    CVs <- mcCVs
    PVs = {"pv1"}
    Configs <- mcConfigs
    IAccs = {0}
    FlushIntervals <- mcFlushIntervals
    HasStore = TRUE
    SinkResults = {"ok", "err", "dry"}
    IterMax = 1
    FailMax = 1
    AgeCap = 6
    None = None
    NoFile = NoFile
SYMMETRY mcSymmetry
INVARIANTS DtSpansPv OnceExitTells PipeLagsBySecond
PROPERTIES ParametersChangeOnRequest
