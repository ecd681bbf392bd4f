\* Two keys, two spawned tasks, one worker and a queue of one place.
CONSTANTS
    Keys = {k1, k2}
    NoKey = NoKey
    Callers = {c1, c2}
    Workers = {w1}
    QueueCap = 1
    MaxCalls = 3
SPECIFICATION Spec
INVARIANTS
    OneRefresh
    NeverSkipped
PROPERTIES
    KeyUnlocked
    ShutdownReturns
    ImplementsSingleFlight
