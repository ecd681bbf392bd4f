\* Upstream answers carry an EDNS OPT record.
CONSTANTS
    Keys = {k1}
    Queries = {q1}
    RecordTtls = {3}
    Edns = {TRUE}
    CacheTtls = {0}
    NegativeCache = FALSE
    NegativeTtl = 1
    Lazy = FALSE
    LazyPercent = 5
    NoEntry = NoEntry
    MaxTime = 4
SPECIFICATION Spec
INVARIANTS
    StoredTtlRespected
