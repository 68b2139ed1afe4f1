SPECIFICATION HistSpec
CONSTANTS
    a = a
    a1 = a1
    a2 = a2
    a3 = a3
    NoRow = NoRow
    Keys = {"auto_mode"}
    Values = {"shadow", "live"}
    Defaults = {"live"}
    TTL = 2
    Procs = {a}
    Tasks = {a1, a2}
    Readers = {a1, a2}
    Writers = {a1, a2}
    ProcOf <- OneProcess
    PoolSize = 2
    MaxTime = 4
CHECK_DEADLOCK FALSE
INVARIANTS
    SetVisibleAtOnce
