\* Two callers race for two keys and a queue of one place; two workers.
CONSTANTS
    Keys = {k1, k2}
    NoKey = NoKey
    Callers = {c1, c2}
    Workers = {w1, w2}
    QueueCap = 1
    MaxCalls = 4
SPECIFICATION CoordSpec
INVARIANTS
    OneOwner
    NoOrphanKey
    ShutdownDrains
