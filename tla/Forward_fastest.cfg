\* One query, two upstreams, as many attempts.
CONSTANTS
    MaxTasks = 2
    QidSpace = 4
    NUpstreams = 2
    Queries = {q1}
    Configs <- FastestConfigs
    MaxAttempts = 2
    Latencies = {2}
SPECIFICATION Spec
INVARIANTS
    Failover
CHECK_DEADLOCK FALSE
