CONSTANTS
    f1 = f1
    f2 = f2
    r1 = r1
    r2 = r2
    c1 = c1
    c2 = c2
    RuleFiles = {f1, f2}
    RuleBodies = {"v1", "v2"}
    Malformed = {"v2"}
    Kinds = {"domain_set", "ip_set", "hosts"}
    MaxChanges = 2
    Runs = {r1, r2}
    FileArgs <- MCFileArgs
    max_retries = 1
    Ips <- MCIps
    Domains = {"a", "b"}
    Ttls = {1, 3}
    PtrNames <- MCPtrNames
    Lookups = {r1, r2}
    ttl_arg <- MCTtlArg
    MaxTime = 3
    MaxSaves = 2
    Names <- MCNames
    Types = {"A", "HTTPS"}
    Requests = {r1, r2}
    cache_size = 2
    MaxQueries = 4
    WebServices = {"admin", "monitoring", "web"}
    Clients = {c1, c2}
    Pages = {c1}
    Topics = {"overview"}
    heartbeat_secs = 1
    timeout_secs = 2
    MaxStall = 2
    CacheSizes = {2}
    Counts = {0, 1, 2}
    Healths <- MCHealths
    Queries <- MCQueries
    Replies <- MCReplies
    ListenerLists <- MCListenerLists
    Forwarded <- MCForwarded
    CacheArgs <- MCCacheArgs
    Hosts <- MCHosts
    Tags <- MCTags
    KeyNames = {"a", "b"}
    KeyTypes = {1, 28}
SPECIFICATION Spec
INVARIANTS
    DownloadsAllOrNothing
    ReverseFresh
    VerdictSound
    ConfigSound
    MetricsExact
    ConnectionsCounted
    DomainMatchCorrect
    AddressMatchCorrect
    WireTransparent
    RewriteSound
    ExchangeSound
    ArgumentsSound
PROPERTIES
    ReloadSettles
CHECK_DEADLOCK FALSE
