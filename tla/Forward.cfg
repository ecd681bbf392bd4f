\* Two upstreams, four tasks and three usable query ids.
CONSTANTS
    MaxTasks = 4
    QidSpace = 4
    NUpstreams = 2
    Queries = {q1, q2}
    Configs <- MCConfigs
    MaxAttempts = 2
    Latencies = {2, 5}
SPECIFICATION Spec
INVARIANTS
    NoPollution
    NoLeakedPending
    RaceTriesAll
    AverageInRange
PROPERTIES
    QueryEnds
CHECK_DEADLOCK FALSE
