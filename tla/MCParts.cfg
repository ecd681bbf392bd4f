\* Three entries over two shards; keys 0, 2 and 4 share a shard of two.
CONSTANTS
    SHARDS = 2
    Capacity = 3
    Hashes = {0, 2, 4, 1}
    Writers = {w1, w2}
    NoKey = NoKey
    MaxWrites = 3
\* Two servers, with one permit each.
    ServerIds = {"udp", "tcp", "dot", "doh", "doq", "udp2"}
    KindOf <- RunKinds
    Lists <- RunLists
    Conns = {c1, c2}
    MaxConnections = 1
    None = None
\* Windows of two ticks, and more queries in a tick than any limit allows.
    Clients = {a, b}
    Maxima = {0, 1}
    window_secs = 2
    MaxNow = 3
    MaxPerTick = 2
\* A bus of one event, so that a busy subscriber is overtaken.
    busCapacity = 1
    Viewers = {viewer}
    Engine = engine
    Messages = {1, 2}
    OtherType = 0
    MaxEvents = 3
    max_alerts = 2
    Aggregated = 2
    retries = 2
    Windows = 2
SPECIFICATION Spec
INVARIANTS
    MapCoherent
    DrainBeforePlugins
    RateBounded
    DropsAccounted
    AlertsAggregated
PROPERTIES
    ShutdownEnds
CHECK_DEADLOCK FALSE
