\* Without and with a stale window of 3 s; negative answers live for 1 s; a
\* refresh ahead of expiry at half of the TTL.
CONSTANTS
    Keys = {k1}
    Queries = {q1, q2}
    RecordTtls = {0, 2}
    Edns = {FALSE}
    CacheTtls = {0, 3}
    NegativeCache = TRUE
    NegativeTtl = 1
    Lazy = TRUE
    LazyPercent = 50
    NoEntry = NoEntry
    MaxTime = 4
    \* The background task alone, with failures and a crash.
    Shards = 2
    Dumpers = {"background"}
    MaxWrites = 2
    MaxDumps = 3
    MaxCrashes = 1
SPECIFICATION CacheSpec
INVARIANTS
    TtlHonest
    AgeBounded
    DumpAtomic
    OnlyRacedUncounted
SYMMETRY QuerySymmetry
CHECK_DEADLOCK FALSE
