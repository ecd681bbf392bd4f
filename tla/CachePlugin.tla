----------------------------- MODULE CachePlugin -----------------------------
(***************************************************************************)
(* Lifetimes in the cache plugin (src/src/plugins/cache/mod.rs, entry.rs,  *)
(* persistence.rs): what a query is answered with, from which entry and    *)
(* with which TTL, while other queries store, expire and remove entries,   *)
(* background refreshes replace them, and the process dumps the cache,     *)
(* crashes and restores it.                                                *)
(*                                                                         *)
(* Time is in whole seconds; the monotonic clock (Instant) and the wall    *)
(* clock (unix seconds) advance together.  Keys are independent of each    *)
(* other here; shards and the LRU order are in ShardedLru, the refresh     *)
(* machinery is in CacheRefresh and the bytes of a dump are in CacheDump.  *)
(***************************************************************************)
EXTENDS Integers, TLC

CONSTANTS
    Keys,           \* cache keys (make_key)
    Queries,        \* client queries under way together
    RecordTtls,     \* the least record TTL of an upstream answer
    Edns,           \* whether an upstream answer may carry an OPT record
    CacheTtls,      \* values of cache_ttl, 0 for None
    NegativeCache,  \* negative_cache
    NegativeTtl,    \* negative_ttl
    Lazy,           \* enable_lazycache
    LazyPercent,    \* lazycache_threshold in percent
    NoEntry,        \* an absent entry, reply or file record
    MaxTime         \* bound on the clock

ASSUME CacheAssumption ==
    /\ RecordTtls \subseteq Nat
    /\ Edns \subseteq BOOLEAN
    /\ CacheTtls \subseteq Nat /\ NegativeTtl \in Nat
    /\ NegativeCache \in BOOLEAN /\ Lazy \in BOOLEAN
    /\ LazyPercent \in 0 .. 100
    /\ MaxTime \in Nat

VARIABLES
    cacheTtl,     \* the configured cache_ttl, fixed from the start
    now,          \* seconds
    up,           \* the process runs
    entry,        \* the cache: key -> CacheEntry or NoEntry
    file,         \* the dump file: key -> PersistedEntry or NoEntry
    refreshing,   \* keys with a background refresh under way
    queryPc,      \* where each query is in the plugin
    queryKey,     \* its key
    queryEntry,   \* the clone that cache.get returned
    reply         \* what a query was answered with from the cache

vars == <<cacheTtl, now, up, entry, file, refreshing, queryPc, queryKey, queryEntry, reply>>
queryVars == <<queryPc, queryKey, queryEntry, reply>>

-----------------------------------------------------------------------------

\* TTL of a response served past its own TTL.
STALE_RESPONSE_TTL_SECS == 5

Saturating(a, b) == IF a > b THEN a - b ELSE 0
AtLeastOne(n) == IF n = 0 THEN 1 ELSE n

\* What upstream may send, received at a time of Times: a NoError response
\* with answers, of which `ttl` is the least record TTL and `opt` tells whether
\* it carries an EDNS OPT record; a NoError response without; an error.
ResponsesAt(Times) ==
    [kind : {"answer"}, ttl : RecordTtls, opt : Edns, at : Times]
      \cup [kind : {"nodata", "error"}, ttl : {0}, opt : {FALSE}, at : Times]

\* get_min_ttl: the least TTL over answers, authority and additional section,
\* at least 1.  wire.rs:157-171 puts the OPT record in the additional section
\* with TTL 0.  (Called only with an answer, so the default 300 is not used.)
get_min_ttl(r) == AtLeastOne(IF r.opt THEN 0 ELSE r.ttl)

\* CacheEntry::new.
NewEntry(r, ttl, cttl) ==
    [response |-> r, cachedAt |-> now, ttl |-> ttl, cacheTtl |-> cttl,
     originalTtl |-> ttl, cachedAtUnix |-> now]

Elapsed(e) == now - e.cachedAt
\* Mutant of is_cache_expired: > for >=.
ExpiredLate(e) == e.cacheTtl = 0 \/ Elapsed(e) > e.cacheTtl

is_cache_expired(e) == e.cacheTtl = 0 \/ Elapsed(e) >= e.cacheTtl
remaining_ttl(e) == Saturating(e.ttl, Elapsed(e))

\* self.cache_ttl.unwrap_or(ttl).
CacheTtlOr(ttl) == IF cacheTtl > 0 THEN cacheTtl ELSE ttl

\* try_store_response: errors only with negative_cache, NoError only with an
\* answer section.
Stored(k, r) ==
    entry' =
        IF r.kind = "error" /\ NegativeCache
          THEN [entry EXCEPT ![k] = NewEntry(r, NegativeTtl, CacheTtlOr(NegativeTtl))]
        ELSE IF r.kind = "answer"
          THEN [entry EXCEPT ![k] =
                  NewEntry(r, get_min_ttl(r), CacheTtlOr(get_min_ttl(r)))]
        ELSE entry

Init ==
    /\ cacheTtl \in CacheTtls
    /\ now = 0
    /\ up = TRUE
    /\ entry = [k \in Keys |-> NoEntry]
    /\ file = [k \in Keys |-> NoEntry]
    /\ refreshing = {}
    /\ queryPc = [q \in Queries |-> "idle"]
    /\ queryKey \in [Queries -> Keys]
    /\ queryEntry = [q \in Queries |-> NoEntry]
    /\ reply = [q \in Queries |-> NoEntry]

Tick ==
    /\ now < MaxTime
    /\ now' = now + 1
    /\ UNCHANGED <<up, entry, file, refreshing, queryVars>>

-----------------------------------------------------------------------------
(* try_serve_from_cache *)

\* cache.get(key) clones the entry.
Lookup(q, k) ==
    /\ up
    /\ queryPc[q] = "idle"
    /\ queryKey' = [queryKey EXCEPT ![q] = k]
    /\ queryEntry' = [queryEntry EXCEPT ![q] = entry[k]]
    /\ queryPc' = [queryPc EXCEPT ![q] = IF entry[k] = NoEntry THEN "miss" ELSE "got"]
    /\ UNCHANGED <<now, up, entry, file, refreshing, reply>>

\* A query with id 0xFFFF counts as a background refresh: no lookup.
LookupSkipped(q, k) ==
    /\ up
    /\ queryPc[q] = "idle"
    /\ queryKey' = [queryKey EXCEPT ![q] = k]
    /\ queryPc' = [queryPc EXCEPT ![q] = "miss"]
    /\ UNCHANGED <<now, up, entry, file, refreshing, queryEntry, reply>>

\* serve_cached_response with the given TTL; RETURN_FLAG ends the sequence.
Serve(q, ttl, stale) ==
    /\ reply' = [reply EXCEPT ![q] =
                    [at |-> now, ttl |-> ttl, stale |-> stale]]
    /\ queryPc' = [queryPc EXCEPT ![q] = "served"]

\* The clone is judged; the entry itself may have changed meanwhile.
JudgeExpired(q) ==
    LET e == queryEntry[q] IN
    /\ up
    /\ queryPc[q] = "got"
    /\ is_cache_expired(e) \/ (remaining_ttl(e) = 0 /\ cacheTtl = 0)
    /\ queryPc' = [queryPc EXCEPT ![q] = "pop"]
    /\ queryEntry' = [queryEntry EXCEPT ![q] = NoEntry]
    /\ UNCHANGED <<now, up, entry, file, refreshing, queryKey, reply>>

\* The message TTL is over, the cache TTL is not: serve stale and refresh.
JudgeStale(q) ==
    LET e == queryEntry[q] IN
    /\ up
    /\ queryPc[q] = "got"
    /\ ~is_cache_expired(e)
    /\ remaining_ttl(e) = 0 /\ cacheTtl > 0
    /\ Serve(q, STALE_RESPONSE_TTL_SECS, TRUE)
    /\ refreshing' = refreshing \cup {queryKey[q]}
    /\ UNCHANGED <<now, up, entry, file, queryKey, queryEntry>>

\* A live entry; below the threshold it is also refreshed in the background.
JudgeFresh(q) ==
    LET e == queryEntry[q]
        due == Lazy /\ remaining_ttl(e) * 100 <= e.originalTtl * LazyPercent
    IN
    /\ up
    /\ queryPc[q] = "got"
    /\ ~is_cache_expired(e)
    /\ remaining_ttl(e) > 0
    /\ Serve(q, remaining_ttl(e), FALSE)
    /\ refreshing' = IF due THEN refreshing \cup {queryKey[q]} ELSE refreshing
    /\ UNCHANGED <<now, up, entry, file, queryKey, queryEntry>>

\* cache.pop(key): by key, whatever entry is there by now.
PopExpired(q) ==
    /\ up
    /\ queryPc[q] = "pop"
    /\ entry' = [entry EXCEPT ![queryKey[q]] = NoEntry]
    /\ queryPc' = [queryPc EXCEPT ![q] = "miss"]
    /\ UNCHANGED <<now, up, file, refreshing, queryKey, queryEntry, reply>>

\* The query is over and its context is dropped.
Forget(q) ==
    /\ queryPc' = [queryPc EXCEPT ![q] = "idle"]
    /\ queryEntry' = [queryEntry EXCEPT ![q] = NoEntry]
    /\ reply' = [reply EXCEPT ![q] = NoEntry]

\* The rest of the sequence produced response r, which phase 2 stores.
Answer(q, r) ==
    /\ up
    /\ queryPc[q] = "miss"
    /\ Stored(queryKey[q], r)
    /\ Forget(q)
    /\ UNCHANGED <<now, up, file, refreshing, queryKey>>

\* A query is answered from the cache, or without a response to store.
Done(q) ==
    /\ up
    /\ queryPc[q] \in {"served", "miss"}
    /\ Forget(q)
    /\ UNCHANGED <<now, up, entry, file, refreshing, queryKey>>

-----------------------------------------------------------------------------
(* Background work *)

\* A refresh ends with response r, which the same phase 2 stores.
Refresh(k, r) ==
    /\ up
    /\ k \in refreshing
    /\ Stored(k, r)
    /\ refreshing' = refreshing \ {k}
    /\ UNCHANGED <<now, up, file, queryVars>>

\* A refresh ends without a response.
RefreshFailed(k) ==
    /\ up
    /\ k \in refreshing
    /\ refreshing' = refreshing \ {k}
    /\ UNCHANGED <<now, up, entry, file, queryVars>>

\* cleanup_expired drops k's entry when its cache TTL is over.
CleanupExpired(k) ==
    /\ up
    /\ entry[k] # NoEntry
    /\ is_cache_expired(entry[k])
    /\ entry' = [entry EXCEPT ![k] = NoEntry]
    /\ UNCHANGED <<now, up, file, refreshing, queryVars>>

\* LRU eviction, or clear().
Evict(k) ==
    /\ up
    /\ entry[k] # NoEntry
    /\ entry' = [entry EXCEPT ![k] = NoEntry]
    /\ UNCHANGED <<now, up, file, refreshing, queryVars>>

-----------------------------------------------------------------------------
(* Persistence *)

\* PersistedEntry: cache_ttl and the Instant are not part of the file.
Persisted(e) ==
    IF e = NoEntry THEN NoEntry
    ELSE [response |-> e.response, cachedAtUnix |-> e.cachedAtUnix,
          originalTtl |-> e.originalTtl]

\* dump_to_file: periodic or at shutdown.
Dump ==
    /\ up
    /\ file' = [k \in Keys |-> Persisted(entry[k])]
    /\ UNCHANGED <<now, up, entry, refreshing, queryVars>>

\* The process ends, cleanly or not; memory is lost.
Crash ==
    /\ up
    /\ up' = FALSE
    /\ entry' = [k \in Keys |-> NoEntry]
    /\ refreshing' = {}
    /\ queryPc' = [q \in Queries |-> "idle"]
    /\ queryEntry' = [q \in Queries |-> NoEntry]
    /\ reply' = [q \in Queries |-> NoEntry]
    /\ UNCHANGED <<now, file, queryKey>>

\* Mutant of Restored: the TTL starts again.
RestoredFullTtl(p) ==
    IF p = NoEntry \/ now - p.cachedAtUnix >= p.originalTtl THEN NoEntry
    ELSE [response |-> p.response, cachedAt |-> now, ttl |-> p.originalTtl,
          cacheTtl |-> p.originalTtl, originalTtl |-> p.originalTtl,
          cachedAtUnix |-> p.cachedAtUnix]

\* load_cache drops what has fully expired; restore_from_dump restarts the
\* clock of the rest with the remaining TTL.
Restored(p) ==
    IF p = NoEntry \/ now - p.cachedAtUnix >= p.originalTtl THEN NoEntry
    ELSE LET remaining == Saturating(p.originalTtl, now - p.cachedAtUnix) IN
         [response |-> p.response, cachedAt |-> now, ttl |-> remaining,
          cacheTtl |-> remaining, originalTtl |-> p.originalTtl,
          cachedAtUnix |-> p.cachedAtUnix]

Restart ==
    /\ ~up
    /\ up' = TRUE
    /\ entry' = [k \in Keys |-> Restored(file[k])]
    /\ UNCHANGED <<now, file, refreshing, queryVars>>

-----------------------------------------------------------------------------

Next ==
    /\ UNCHANGED cacheTtl
    /\ \/ Tick
       \/ \E q \in Queries, k \in Keys : Lookup(q, k) \/ LookupSkipped(q, k)
       \/ \E q \in Queries : \/ JudgeExpired(q) \/ JudgeStale(q) \/ JudgeFresh(q)
                             \/ PopExpired(q) \/ Done(q)
       \/ \E q \in Queries, r \in ResponsesAt({now}) : Answer(q, r)
       \/ \E k \in Keys, r \in ResponsesAt({now}) : Refresh(k, r)
       \/ \E k \in Keys : RefreshFailed(k) \/ CleanupExpired(k) \/ Evict(k)
       \/ Dump \/ Crash \/ Restart

\* Queries are interchangeable; safety properties only.
QuerySymmetry == Permutations(Queries)

Spec == Init /\ [][Next]_vars

-----------------------------------------------------------------------------
(* Properties *)

\* How long the source of a response lets it live.
Lifetime(r) == IF r.kind = "answer" THEN AtLeastOne(r.ttl) ELSE NegativeTtl

\* "Respects DNS record TTL values" (mod.rs:7): an answer from the cache that
\* is not marked stale never promises more than what is left of the source's
\* TTL, whatever was stored, popped, refreshed, dumped and restored between.
TtlHonest ==
    \A q \in Queries : queryPc[q] = "served" /\ ~reply[q].stale =>
        LET r == queryEntry[q].response
        IN  reply[q].at + reply[q].ttl <= r.at + Lifetime(r)

\* AgeBounded: nothing is served from the cache once it is older than both its
\* lifetime and the stale-serving window, restarts included; a stale answer is
\* only given inside a configured window, and never from an entry that a restart
\* brought back.
AgeBounded ==
    \A q \in Queries : queryPc[q] = "served" =>
        LET r == queryEntry[q].response
            age == reply[q].at - r.at
        IN  /\ age < Lifetime(r) \/ age < cacheTtl
            /\ reply[q].stale => /\ cacheTtl > 0 /\ age < cacheTtl
                                 /\ queryEntry[q].cachedAt = r.at

\* "TTL-based expiration: Respects DNS record TTL values" (mod.rs:7): a stored
\* positive answer keeps the TTL of its records.
StoredTtlRespected ==
    \A k \in Keys : entry[k] # NoEntry /\ entry[k].response.kind = "answer" =>
        entry[k].originalTtl >= entry[k].response.ttl
=============================================================================
