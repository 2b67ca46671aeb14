SPECIFICATION Spec
CONSTANTS
    Procs = {p1, p2}
    Kinds <- mcKinds
    IterMax = 1
    MaxSaves = 2
    Absent = Absent
    Partial = Partial
    None = None
SYMMETRY mcSymmetry
INVARIANTS FileWhole
PROPERTIES LockersExclude SessionsUseRegister
