SPECIFICATION Spec
CONSTANTS
    a = a
    b = b
    a1 = a1
    a2 = a2
    b1 = b1
    NoRow = NoRow
    Keys = {"auto_mode"}
    Values = {"shadow", "live"}
    Defaults = {"live"}
    TTL = 2
    Procs = {a, b}
    Tasks = {a1, a2, b1}
    Readers = {a1, a2}
    Writers = {b1}
    ProcOf <- TwoProcesses
    PoolSize = 1
    MaxTime = 4
CHECK_DEADLOCK FALSE
SYMMETRY Symmetry
INVARIANTS
    TypeOK
    CacheBoundedStale
    GetBoundedStale
    LiveOnlyIfStored
PROPERTIES
    ImplementsRegister
