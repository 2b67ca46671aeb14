SPECIFICATION Spec
CONSTANTS
    None = None
    PVs <- mcPVs
    Bias = 5
    Amp = 2
    OutMin = 0
    OutMax = 10
    MinCycles = 3
    WarmupTicks = 1
    Interval = 1
    Duration = 7
    HasState = TRUE
    LateCap = 1
INVARIANTS ExitCodeTells
PROPERTIES HalfPeriodsMeasured TestEnds
CHECK_DEADLOCK FALSE
