SPECIFICATION Spec
CONSTANTS
    p1 = p1
    p2 = p2
    c1 = c1
    c2 = c2
    Procs <- mcProcs
    Clients <- mcClients
    NoFile = NoFile
    NotSocket = NotSocket
    BacklogCap = 1
    Batch = 2
    Interval = 1
    IoTimeout = 2
    TickCap = 1
INVARIANTS LoopReachable AnswersTell TickDelayBounded
PROPERTIES ConnectionsTaken
