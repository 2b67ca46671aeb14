SPECIFICATION ReplaySpec
CONSTANTS
    Gains <- mcGains
    Settings <- mcSettings
    Setpoints = {0, 4}
    RawPvs = {1, 5}
    Dts = {1, 2}
    Ffs = {0, 1}
    SafeCvs = {2}
    OutMin = 2
    OutMax = 4
    AlphaDen = 2
    ExplicitTt = None
    TtUpperBound = 2
    ReplayTtBound = 100
    FfGain = 1
    IntegralMax = 20
    None = None
INVARIANTS IntegralBounded ReplayFaithful
PROPERTIES LimitsKept SlewKept AntiWindupHelps
