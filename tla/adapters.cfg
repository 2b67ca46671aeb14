SPECIFICATION Spec
CONSTANTS
    LineKinds <- mcLineKinds
    PipeLines = 2
    StdinTimeout = 1
    Modes <- mcModes
    CmdTimeout = 1
    CallCap = 2
    LeftCap = 1
    FailAfter = 2
    CVs <- mcCVs
    Held <- mcHeld
    Verify = TRUE
    Setups <- mcSetups
INVARIANTS LinesOnce VerifiedIsApplied
PROPERTIES CvNeverGoesBack CallsReturn EofEnds
CHECK_DEADLOCK FALSE
