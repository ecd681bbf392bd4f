----------------------------- MODULE CacheProofs -----------------------------
(***************************************************************************)
(* Proofs about what the cache does with its entries, for any keys,        *)
(* queries, TTLs and configuration: an entry's lifetime survives storing,  *)
(* dumping, crashing and restoring (CachePlugin), and a dump that is under *)
(* way is never visible in the file (CacheDump).                           *)
(***************************************************************************)
EXTENDS MCCache, SequenceTheorems, FiniteSetTheorems, TLAPS

-----------------------------------------------------------------------------
(* Lifetimes *)

\* What the records of a response may look like to the arithmetic below.
Dated(r) == r.at \in Nat /\ Lifetime(r) \in Nat

\* An entry in memory, or the clone of one: it was received when its unix
\* time says, it ends within the lifetime of its response, and it outlives its
\* TTL only by the configured window, counted from the reception.
Honest(e) ==
    /\ Dated(e.response)
    /\ e.cachedAt \in Nat /\ e.ttl \in Nat /\ e.cacheTtl \in Nat
    /\ e.originalTtl \in Nat
    /\ e.cachedAtUnix = e.response.at
    /\ e.originalTtl <= Lifetime(e.response)
    /\ e.cachedAt + e.ttl <= e.response.at + Lifetime(e.response)
    /\ \/ cacheTtl > 0 /\ e.cacheTtl = cacheTtl /\ e.cachedAt = e.response.at
       \/ e.cacheTtl = e.ttl

\* A record of the dump file.
HonestRecord(p) ==
    /\ Dated(p.response)
    /\ p.originalTtl \in Nat
    /\ p.cachedAtUnix = p.response.at
    /\ p.originalTtl <= Lifetime(p.response)

\* A query that was answered from the cache.
HonestReply(q) ==
    LET r == queryEntry[q].response
        age == reply[q].at - r.at
    IN  /\ ~reply[q].stale => reply[q].at + reply[q].ttl <= r.at + Lifetime(r)
        /\ age < Lifetime(r) \/ age < cacheTtl
        /\ reply[q].stale => /\ cacheTtl > 0 /\ age < cacheTtl
                             /\ queryEntry[q].cachedAt = r.at

CacheShape ==
    /\ cacheTtl \in Nat /\ now \in Nat
    /\ DOMAIN entry = Keys /\ DOMAIN file = Keys
    /\ DOMAIN queryPc = Queries /\ DOMAIN queryEntry = Queries
    /\ DOMAIN queryKey = Queries /\ DOMAIN reply = Queries
    /\ \A q \in Queries : queryKey[q] \in Keys

\* The inductive invariant.  An entry equal to NoEntry is absent, so nothing
\* need be known of NoEntry.
CacheInv ==
    /\ CacheShape
    /\ \A k \in Keys : entry[k] # NoEntry => Honest(entry[k])
    /\ \A k \in Keys : file[k] # NoEntry => HonestRecord(file[k])
    /\ \A q \in Queries : queryPc[q] = "got" => Honest(queryEntry[q])
    /\ \A q \in Queries : queryPc[q] = "served" => HonestReply(q)

LEMMA CacheInitInv == Init => CacheInv
BY CacheAssumption DEF Init, CacheInv, CacheShape

\* What try_store_response puts in the cache is honest: get_min_ttl never
\* exceeds the records' TTL, and an error lives for negative_ttl.
LEMMA NewEntryHonest ==
    ASSUME cacheTtl \in Nat, now \in Nat, NEW r \in ResponsesAt({now})
    PROVE  /\ r.kind = "error" =>
                Honest(NewEntry(r, NegativeTtl, CacheTtlOr(NegativeTtl)))
           /\ r.kind = "answer" =>
                Honest(NewEntry(r, get_min_ttl(r), CacheTtlOr(get_min_ttl(r))))
<1>1. r.at = now /\ r.ttl \in Nat
    <2>1. CASE r \in [kind : {"answer"}, ttl : RecordTtls, opt : Edns, at : {now}]
        BY <2>1, CacheAssumption
    <2>2. CASE r \in [kind : {"nodata", "error"}, ttl : {0}, opt : {FALSE}, at : {now}]
        BY <2>2
    <2> QED BY <2>1, <2>2 DEF ResponsesAt
<1>2. Dated(r)
    BY <1>1, CacheAssumption DEF Dated, Lifetime, AtLeastOne
<1>3. ASSUME NEW ttl \in Nat, ttl <= Lifetime(r)
      PROVE  Honest(NewEntry(r, ttl, CacheTtlOr(ttl)))
    <2> DEFINE e == NewEntry(r, ttl, CacheTtlOr(ttl))
    <2>1. /\ e.response = r /\ e.cachedAt = now /\ e.ttl = ttl
          /\ e.cacheTtl = CacheTtlOr(ttl)
          /\ e.originalTtl = ttl /\ e.cachedAtUnix = now
        BY DEF NewEntry
    <2>2. /\ CacheTtlOr(ttl) \in Nat
          /\ \/ cacheTtl > 0 /\ CacheTtlOr(ttl) = cacheTtl
             \/ CacheTtlOr(ttl) = ttl
        BY <1>3 DEF CacheTtlOr
    <2> HIDE DEF e
    <2>3. Honest(e)
        BY <1>1, <1>2, <1>3, <2>1, <2>2 DEF Honest, Dated
    <2> QED BY <2>3 DEF e
<1>4. r.kind = "error" => Lifetime(r) = NegativeTtl
    BY DEF Lifetime
<1>5. r.kind = "answer" =>
        get_min_ttl(r) \in Nat /\ get_min_ttl(r) <= Lifetime(r)
    BY <1>1 DEF get_min_ttl, Lifetime, AtLeastOne
<1>6. NegativeTtl \in Nat
    BY CacheAssumption
<1> QED BY <1>3, <1>4, <1>5, <1>6

LEMMA StoredInv ==
    ASSUME CacheInv, NEW k \in Keys, NEW r \in ResponsesAt({now}), Stored(k, r)
    PROVE  /\ DOMAIN entry' = Keys
           /\ \A x \in Keys : entry'[x] # NoEntry => Honest(entry'[x])
<1> DEFINE neg == NewEntry(r, NegativeTtl, CacheTtlOr(NegativeTtl))
           pos == NewEntry(r, get_min_ttl(r), CacheTtlOr(get_min_ttl(r)))
<1>1. /\ r.kind = "error" => Honest(neg)
      /\ r.kind = "answer" => Honest(pos)
    BY NewEntryHonest DEF CacheInv, CacheShape
<1>2. \/ r.kind = "error" /\ entry' = [entry EXCEPT ![k] = neg]
      \/ r.kind = "answer" /\ entry' = [entry EXCEPT ![k] = pos]
      \/ entry' = entry
    BY DEF Stored
<1> HIDE DEF neg, pos
<1> QED BY <1>1, <1>2 DEF CacheInv, CacheShape

\* Restoring restarts the clock with what is left of the original TTL.
LEMMA RestoredHonest ==
    ASSUME now \in Nat, cacheTtl \in Nat,
           NEW p, p # NoEntry => HonestRecord(p), Restored(p) # NoEntry
    PROVE  Honest(Restored(p))
<1> DEFINE remaining == Saturating(p.originalTtl, now - p.cachedAtUnix)
           e == [response |-> p.response, cachedAt |-> now, ttl |-> remaining,
                 cacheTtl |-> remaining, originalTtl |-> p.originalTtl,
                 cachedAtUnix |-> p.cachedAtUnix]
<1>1. /\ p # NoEntry /\ ~(now - p.cachedAtUnix >= p.originalTtl)
      /\ Restored(p) = e
    BY DEF Restored
<1>2. /\ remaining \in Nat
      /\ now + remaining = p.cachedAtUnix + p.originalTtl
    BY <1>1 DEF HonestRecord, Dated, Saturating
<1> HIDE DEF remaining
<1>3. /\ e.response = p.response /\ e.cachedAt = now /\ e.ttl = remaining
      /\ e.cacheTtl = remaining
      /\ e.originalTtl = p.originalTtl /\ e.cachedAtUnix = p.cachedAtUnix
    OBVIOUS
<1> HIDE DEF e
<1>4. Honest(e)
    BY <1>1, <1>2, <1>3 DEF Honest, HonestRecord, Dated
<1> QED BY <1>1, <1>4

\* What dump_to_file writes of an honest entry is honest.
LEMMA PersistedHonest ==
    ASSUME NEW e, e # NoEntry => Honest(e), Persisted(e) # NoEntry
    PROVE  HonestRecord(Persisted(e))
BY DEF Persisted, Honest, HonestRecord

\* A live entry is served with what is left of it.
LEMMA JudgeFreshReply ==
    ASSUME CacheInv, NEW q \in Queries, JudgeFresh(q)
    PROVE  HonestReply(q)'
<1> DEFINE e == queryEntry[q]
           ttl == remaining_ttl(e)
<1>1. Honest(e) /\ now \in Nat /\ ttl > 0
    BY DEF JudgeFresh, CacheInv, CacheShape
<1>2. now + ttl = e.cachedAt + e.ttl
    BY <1>1 DEF remaining_ttl, Saturating, Elapsed, Honest
<1>3. ttl \in Nat
    BY <1>1 DEF remaining_ttl, Saturating, Elapsed, Honest
<1>4. /\ reply'[q].at = now /\ reply'[q].ttl = ttl /\ reply'[q].stale = FALSE
      /\ queryEntry' = queryEntry
    BY DEF JudgeFresh, Serve, CacheInv, CacheShape
<1> HIDE DEF ttl
<1>5. /\ now + ttl <= e.response.at + Lifetime(e.response)
      /\ now - e.response.at < Lifetime(e.response)
    BY <1>1, <1>2, <1>3 DEF Honest, Dated
<1> QED BY <1>4, <1>5 DEF HonestReply, Lifetime

\* An entry past its TTL is served stale only inside the configured window.
LEMMA JudgeStaleReply ==
    ASSUME CacheInv, cacheTtl' = cacheTtl, NEW q \in Queries, JudgeStale(q)
    PROVE  HonestReply(q)'
<1> DEFINE e == queryEntry[q]
<1>1. /\ Honest(e) /\ now \in Nat /\ cacheTtl \in Nat /\ cacheTtl > 0
      /\ ~is_cache_expired(e) /\ remaining_ttl(e) = 0
    BY DEF JudgeStale, CacheInv, CacheShape
<1>2. e.ttl <= now - e.cachedAt /\ now - e.cachedAt < e.cacheTtl
    BY <1>1 DEF remaining_ttl, Saturating, Elapsed, is_cache_expired, Honest
<1>3. e.cacheTtl = cacheTtl /\ e.cachedAt = e.response.at
    BY <1>1, <1>2 DEF Honest
<1>4. /\ reply'[q].at = now /\ reply'[q].stale = TRUE
      /\ queryEntry' = queryEntry
    BY DEF JudgeStale, Serve, CacheInv, CacheShape
<1> QED BY <1>1, <1>2, <1>3, <1>4 DEF HonestReply

\* A step that changes nothing an entry, a record or a query is judged by.
LEMMA SameHonest ==
    ASSUME cacheTtl' = cacheTtl
    PROVE  /\ \A e : Honest(e)' <=> Honest(e)
           /\ \A p : HonestRecord(p)' <=> HonestRecord(p)
BY DEF Honest, HonestRecord, Dated, Lifetime, AtLeastOne

LEMMA CacheInvStep ==
    ASSUME cacheTtl' = cacheTtl, CacheShape',
           \A k \in Keys : entry'[k] # NoEntry => Honest(entry'[k]),
           \A k \in Keys : file'[k] # NoEntry => HonestRecord(file'[k]),
           \A q \in Queries : queryPc'[q] = "got" => Honest(queryEntry'[q]),
           \A q \in Queries : queryPc'[q] = "served" => HonestReply(q)'
    PROVE  CacheInv'
<1>1. \A k \in Keys : entry'[k] # NoEntry => Honest(entry[k])'
    BY DEF Honest, Dated, Lifetime, AtLeastOne
<1>2. \A k \in Keys : file'[k] # NoEntry => HonestRecord(file[k])'
    BY DEF HonestRecord, Dated, Lifetime, AtLeastOne
<1>3. \A q \in Queries : queryPc'[q] = "got" => Honest(queryEntry[q])'
    BY DEF Honest, Dated, Lifetime, AtLeastOne
<1> QED BY <1>1, <1>2, <1>3 DEF CacheInv

\* A query whose clone and reply stay is as honest as it was.
LEMMA QueryKept ==
    ASSUME CacheInv, cacheTtl' = cacheTtl, NEW q \in Queries,
           queryEntry'[q] = queryEntry[q], reply'[q] = reply[q],
           queryPc'[q] = queryPc[q]
    PROVE  /\ queryPc'[q] = "got" => Honest(queryEntry'[q])
           /\ queryPc'[q] = "served" => HonestReply(q)'
BY DEF CacheInv, HonestReply, Lifetime, AtLeastOne

LEMMA LookupInv ==
    ASSUME CacheInv, cacheTtl' = cacheTtl, NEW q \in Queries, NEW k \in Keys,
           Lookup(q, k) \/ LookupSkipped(q, k)
    PROVE  CacheInv'
<1> USE DEF Lookup, LookupSkipped
<1>1. CacheShape'
    BY DEF CacheInv, CacheShape
<1>2. entry' = entry /\ file' = file
    OBVIOUS
<1>3. ASSUME NEW p \in Queries
      PROVE  /\ queryPc'[p] = "got" => Honest(queryEntry'[p])
             /\ queryPc'[p] = "served" => HonestReply(p)'
    <2>1. CASE p = q
        BY <2>1 DEF CacheInv, CacheShape
    <2>2. CASE p # q
        BY <2>2, QueryKept DEF CacheInv, CacheShape
    <2> QED BY <2>1, <2>2
<1> QED BY <1>1, <1>2, <1>3, CacheInvStep DEF CacheInv

LEMMA JudgeInv ==
    ASSUME CacheInv, cacheTtl' = cacheTtl, NEW q \in Queries,
           JudgeExpired(q) \/ JudgeStale(q) \/ JudgeFresh(q)
    PROVE  CacheInv'
<1>0. \/ /\ queryPc' = [queryPc EXCEPT ![q] = "pop"]
         /\ queryEntry' = [queryEntry EXCEPT ![q] = NoEntry]
         /\ reply' = reply
      \/ /\ queryPc' = [queryPc EXCEPT ![q] = "served"]
         /\ \E x : reply' = [reply EXCEPT ![q] = x]
         /\ queryEntry' = queryEntry
    BY DEF JudgeExpired, JudgeStale, JudgeFresh, Serve
<1>1. /\ now' = now /\ entry' = entry /\ file' = file
      /\ queryKey' = queryKey
    BY DEF JudgeExpired, JudgeStale, JudgeFresh
<1>2. CacheShape'
    BY <1>0, <1>1 DEF CacheInv, CacheShape
<1>3. ASSUME NEW p \in Queries
      PROVE  /\ queryPc'[p] = "got" => Honest(queryEntry'[p])
             /\ queryPc'[p] = "served" => HonestReply(p)'
    <2>1. CASE p = q
        <3>1. queryPc'[p] # "got"
            BY <1>0, <2>1 DEF CacheInv, CacheShape
        <3>2. queryPc'[p] = "served" => HonestReply(p)'
            <4>1. CASE JudgeExpired(q)
                BY <2>1, <4>1 DEF JudgeExpired, CacheInv, CacheShape
            <4> QED BY <2>1, <4>1, JudgeStaleReply, JudgeFreshReply
        <3> QED BY <3>1, <3>2
    <2>2. CASE p # q
        BY <1>0, <2>2, QueryKept DEF CacheInv, CacheShape
    <2> QED BY <2>1, <2>2
<1> QED BY <1>1, <1>2, <1>3, CacheInvStep DEF CacheInv

\* The other steps of a query: what it leaves behind is absent or honest.
LEMMA EndQueryInv ==
    ASSUME CacheInv, cacheTtl' = cacheTtl, NEW q \in Queries,
           \/ PopExpired(q) \/ Done(q)
           \/ \E r \in ResponsesAt({now}) : Answer(q, r)
    PROVE  CacheInv'
<1>0. \/ /\ queryPc' = [queryPc EXCEPT ![q] = "miss"]
         /\ queryEntry' = queryEntry /\ reply' = reply
      \/ Forget(q)
    BY DEF PopExpired, Done, Answer
<1>1. now' = now /\ file' = file /\ queryKey' = queryKey
    BY DEF PopExpired, Done, Answer
<1>2. /\ DOMAIN entry' = Keys
      /\ \A x \in Keys : entry'[x] # NoEntry => Honest(entry'[x])
    <2>1. CASE PopExpired(q) \/ Done(q)
        BY <2>1 DEF PopExpired, Done, CacheInv, CacheShape
    <2>2. ASSUME NEW r \in ResponsesAt({now}), Answer(q, r)
          PROVE  /\ DOMAIN entry' = Keys
                 /\ \A x \in Keys : entry'[x] # NoEntry => Honest(entry'[x])
        BY <2>2, StoredInv DEF Answer, CacheInv, CacheShape
    <2> QED BY <2>1, <2>2
<1>3. CacheShape'
    BY <1>0, <1>1, <1>2 DEF Forget, CacheInv, CacheShape
<1>4. ASSUME NEW p \in Queries
      PROVE  /\ queryPc'[p] = "got" => Honest(queryEntry'[p])
             /\ queryPc'[p] = "served" => HonestReply(p)'
    <2>1. CASE p = q
        BY <1>0, <2>1 DEF Forget, CacheInv, CacheShape
    <2>2. CASE p # q
        BY <1>0, <2>2, QueryKept DEF Forget, CacheInv, CacheShape
    <2> QED BY <2>1, <2>2
<1> QED BY <1>1, <1>2, <1>3, <1>4, CacheInvStep DEF CacheInv

\* The steps of the background tasks and of the clock.
LEMMA BackgroundInv ==
    ASSUME CacheInv, cacheTtl' = cacheTtl,
           \/ Tick \/ Dump
           \/ \E k \in Keys, r \in ResponsesAt({now}) : Refresh(k, r)
           \/ \E k \in Keys : RefreshFailed(k) \/ CleanupExpired(k) \/ Evict(k)
    PROVE  CacheInv'
<1> USE DEF Tick, Dump, Refresh, RefreshFailed, CleanupExpired, Evict
<1>1. queryPc' = queryPc /\ queryEntry' = queryEntry /\ queryKey' = queryKey
      /\ reply' = reply
    BY DEF queryVars
<1>2. now' \in Nat
    BY DEF CacheInv, CacheShape
<1>3. /\ DOMAIN entry' = Keys
      /\ \A x \in Keys : entry'[x] # NoEntry => Honest(entry'[x])
    <2>1. ASSUME NEW k \in Keys, NEW r \in ResponsesAt({now}), Refresh(k, r)
          PROVE  /\ DOMAIN entry' = Keys
                 /\ \A x \in Keys : entry'[x] # NoEntry => Honest(entry'[x])
        BY <2>1, StoredInv
    <2> QED BY <2>1 DEF CacheInv, CacheShape
<1>4. /\ DOMAIN file' = Keys
      /\ \A x \in Keys : file'[x] # NoEntry => HonestRecord(file'[x])
    <2>1. CASE Dump
        BY <2>1, PersistedHonest DEF CacheInv, CacheShape
    <2>2. CASE file' = file
        BY <2>2 DEF CacheInv, CacheShape
    <2> QED BY <2>1, <2>2
<1>5. CacheShape'
    BY <1>1, <1>2, <1>3, <1>4 DEF CacheInv, CacheShape
<1> QED BY <1>1, <1>3, <1>4, <1>5, QueryKept, CacheInvStep

LEMMA CrashInv ==
    ASSUME CacheInv, cacheTtl' = cacheTtl, Crash
    PROVE  CacheInv'
<1>1. CacheShape'
    BY DEF Crash, CacheInv, CacheShape
<1> QED BY <1>1, CacheInvStep DEF Crash, CacheInv

LEMMA RestartInv ==
    ASSUME CacheInv, cacheTtl' = cacheTtl, Restart
    PROVE  CacheInv'
<1>1. /\ queryPc' = queryPc /\ queryEntry' = queryEntry /\ queryKey' = queryKey
      /\ reply' = reply /\ file' = file /\ now' = now
    BY DEF Restart, queryVars
<1>2. CacheShape'
    BY <1>1 DEF Restart, CacheInv, CacheShape
<1>3. \A k \in Keys : entry'[k] # NoEntry => Honest(entry'[k])
    BY RestoredHonest DEF Restart, CacheInv, CacheShape
<1> QED BY <1>1, <1>2, <1>3, QueryKept, CacheInvStep DEF CacheInv

LEMMA CacheNextInv == CacheInv /\ [Next]_vars => CacheInv'
<1> SUFFICES ASSUME CacheInv, [Next]_vars PROVE CacheInv'
    OBVIOUS
<1>1. CASE UNCHANGED vars
    <2>1. CacheShape'
        BY <1>1 DEF vars, CacheInv, CacheShape
    <2> QED BY <1>1, <2>1, QueryKept, CacheInvStep DEF vars, CacheInv
<1>2. CASE Next
    BY <1>2, LookupInv, JudgeInv, EndQueryInv, BackgroundInv, CrashInv, RestartInv
    DEF Next
<1> QED BY <1>1, <1>2

LEMMA CacheInvHonest == CacheInv => TtlHonest /\ AgeBounded
BY DEF CacheInv, HonestReply, TtlHonest, AgeBounded

\* An answer from the cache that is not marked stale never promises more than
\* what is left of its source's TTL: for any keys, queries, TTLs, windows and
\* bound on the clock, whatever was stored, popped, refreshed, dumped, lost in
\* a crash and restored in between.
THEOREM CacheTtlHonest == Spec => []TtlHonest
<1>1. Spec => []CacheInv
    BY CacheInitInv, CacheNextInv, PTL DEF Spec
<1> QED BY <1>1, CacheInvHonest, PTL

\* Nothing is served once it is older than its lifetime and than the stale
\* window; a stale answer is inside the window, and never from an entry that a
\* restart brought back.
THEOREM CacheAgeBounded == Spec => []AgeBounded
<1>1. Spec => []CacheInv
    BY CacheInitInv, CacheNextInv, PTL DEF Spec
<1> QED BY <1>1, CacheInvHonest, PTL

-----------------------------------------------------------------------------
(* Dumps *)

\* Only one task dumps: with the shutdown dump beside the background task the
\* file can be torn (CacheDump_shutdown.cfg).
OneDumper == \A d, e \in Dumpers : d = e

Recs == [key : Dumped!Names, write : Nat]
Cells == Recs \cup [count : Nat, dump : Nat]

Phases == {"idle", "collect", "create", "write", "rename", "reset", "done"}

DumpTypes ==
    /\ dumperUp \in BOOLEAN /\ counting \in BOOLEAN
    /\ mem \in [Dumped!Names -> Nat]
    /\ changes \in Nat /\ writes \in Nat
    /\ snaps \in Seq(Seq(Recs))
    /\ pc \in [Dumpers -> Phases]
    /\ dump \in [Dumpers -> Nat] /\ next \in [Dumpers -> Nat]
    /\ DOMAIN handle = Dumpers
    /\ tmp \in Dumped!Inodes \cup {0} /\ path \in Dumped!Inodes \cup {0}
    /\ DOMAIN content = Dumped!Inodes

\* c holds the first n cells of dump s.
Prefix(c, s, n) ==
    /\ c \in Seq(Cells) /\ Len(c) = n
    /\ \A i \in 1 .. n : c[i] = Dumped!Encoded(s)[i]

\* The dump that d has under way: the newest, and the only writer of tmp.
Dumping(d) == pc[d] \in {"collect", "create", "write", "rename", "reset"}
Progress(d) ==
    /\ Dumping(d) => dumperUp /\ dump[d] = Len(snaps) /\ dump[d] # 0
    /\ pc[d] = "collect" =>
          /\ next[d] \in Dumped!Names
          /\ \A i \in 1 .. Len(snaps[dump[d]]) : snaps[dump[d]][i].key < next[d]
    /\ pc[d] \in {"write", "rename"} => handle[d] = tmp /\ tmp # 0
    /\ pc[d] = "write" => /\ next[d] <= Len(snaps[dump[d]])
                          /\ Prefix(content[tmp], dump[d], next[d])
    /\ pc[d] = "rename" => content[tmp] = Dumped!Encoded(dump[d])

\* The visible file is a dump that nobody collects for any more.
OnPath ==
    path # 0 => \E s \in 1 .. Len(snaps) :
        /\ content[path] = Dumped!Encoded(s)
        /\ \A d \in Dumpers : pc[d] = "collect" => s # dump[d]

\* The shards are collected in their order.
Sorted ==
    \A s \in 1 .. Len(snaps) : \A i, j \in 1 .. Len(snaps[s]) :
        i < j => snaps[s][i].key < snaps[s][j].key

DumpInv ==
    /\ DumpTypes
    /\ Sorted
    /\ \A d \in Dumpers : Progress(d)
    /\ tmp # 0 => tmp # path
    /\ OnPath

\* Sets that do not depend on the state.
LEMMA DumpConstants ==
    /\ Dumped!Names' = Dumped!Names /\ Dumped!Inodes' = Dumped!Inodes
    /\ Cells' = Cells /\ Recs' = Recs
BY DEF Dumped!Names, Dumped!Inodes, Cells, Recs

LEMMA RecFields ==
    ASSUME NEW r \in Recs
    PROVE  r.key \in Dumped!Names /\ r.key \in Int /\ r.write \in Nat
<1>1. r.key \in Dumped!Names /\ r.write \in Nat
    BY DEF Recs
<1> QED BY <1>1, DumpAssumption DEF Dumped!Names

\* The cells of a dump.
LEMMA EncodedCells ==
    ASSUME snaps \in Seq(Seq(Recs)), NEW s \in 1 .. Len(snaps)
    PROVE  /\ snaps[s] \in Seq(Recs)
           /\ Dumped!Encoded(s) \in Seq(Cells)
           /\ Len(Dumped!Encoded(s)) = Len(snaps[s]) + 1
           /\ Dumped!Encoded(s)[1] = [count |-> Len(snaps[s]), dump |-> s]
           /\ \A i \in 1 .. Len(snaps[s]) : Dumped!Encoded(s)[i + 1] = snaps[s][i]
<1> DEFINE h == [count |-> Len(snaps[s]), dump |-> s]
<1>1. snaps[s] \in Seq(Recs) /\ Len(snaps[s]) \in Nat
    BY ElementOfSeq, LenProperties
<1>2. snaps[s] \in Seq(Cells)
    BY <1>1, SeqMonotonic DEF Cells
<1>3. s \in Nat
    BY LenProperties
<1>4. h \in Cells
    BY <1>1, <1>3 DEF Cells
<1> HIDE DEF h
<1>5. <<h>> \in Seq(Cells) /\ Len(<<h>>) = 1 /\ <<h>>[1] = h
    BY <1>4
<1>6. Dumped!Encoded(s) = <<h>> \o snaps[s]
    BY DEF Dumped!Encoded, Dumped!Header, h
<1> QED BY <1>1, <1>2, <1>5, <1>6, ConcatProperties DEF h

LEMMA EncodedKept ==
    ASSUME NEW s, snaps'[s] = snaps[s]
    PROVE  Dumped!Encoded(s)' = Dumped!Encoded(s)
BY DEF Dumped!Encoded, Dumped!Header

\* Writing at the end of a file appends to it.
LEMMA WriteAtEnd ==
    ASSUME NEW c \in Seq(Cells), NEW cell \in Cells, NEW n \in Nat, Len(c) = n
    PROVE  /\ Dumped!WriteAt(c, n, cell) \in Seq(Cells)
           /\ Len(Dumped!WriteAt(c, n, cell)) = n + 1
           /\ \A i \in 1 .. n : Dumped!WriteAt(c, n, cell)[i] = c[i]
           /\ Dumped!WriteAt(c, n, cell)[n + 1] = cell
<1> DEFINE w == Dumped!WriteAt(c, n, cell)
<1>1. w = [i \in 1 .. n + 1 |-> IF i = n + 1 THEN cell ELSE c[i]]
    BY DEF Dumped!WriteAt
<1>2. \A i \in 1 .. n : c[i] \in Cells
    BY ElementOfSeq
<1>3. w \in [1 .. n + 1 -> Cells]
    BY <1>1, <1>2
<1>4. w \in Seq(Cells)
    BY <1>3, SeqDef
<1>5. Len(w) = n + 1
    <2>1. DOMAIN w = 1 .. n + 1 /\ DOMAIN w = 1 .. Len(w) /\ Len(w) \in Nat
        BY <1>3, <1>4, LenProperties
    <2> HIDE DEF w
    <2> QED BY <2>1
<1> QED BY <1>1, <1>4, <1>5

LEMMA InodesArePositive == 0 \notin Dumped!Inodes
<1>1. IsFiniteSet(Dumpers)
    <2>1. IsFiniteSet({"background"} \cup {"shutdown"})
        BY FS_Singleton, FS_AddElement
    <2>2. {"background"} \cup {"shutdown"} = {"background", "shutdown"}
        OBVIOUS
    <2> QED BY <2>1, <2>2, DumpAssumption, FS_Subset
<1>2. Cardinality(Dumpers) \in Nat
    BY <1>1, FS_CardinalityType
<1> QED BY <1>2 DEF Dumped!Inodes

LEMMA DumpInitInv == Dumped!Init => DumpInv
<1> SUFFICES ASSUME Dumped!Init PROVE DumpInv
    OBVIOUS
<1> USE DEF Dumped!Init
<1>1. DumpTypes
    BY EmptySeq DEF DumpTypes, Phases
<1>2. \A d \in Dumpers : Progress(d)
    BY DEF Progress, Dumping
<1> QED BY <1>1, <1>2 DEF DumpInv, OnPath, Sorted

\* The steps of a dump before it touches a file.
LEMMA CollectInv ==
    ASSUME OneDumper, DumpInv, NEW d \in Dumpers,
           Dumped!StartDump(d) \/ Dumped!Collect(d)
    PROVE  DumpInv'
<1>1. CASE Dumped!StartDump(d)
    <2> USE <1>1 DEF Dumped!StartDump
    <2>1. /\ snaps' \in Seq(Seq(Recs)) /\ Len(snaps') = Len(snaps) + 1
          /\ \A s \in 1 .. Len(snaps) : snaps'[s] = snaps[s]
          /\ Len(snaps) \in Nat
        BY EmptySeq, AppendProperties, LenProperties DEF DumpInv, DumpTypes
    <2>2. DumpTypes'
        BY <2>1 DEF DumpInv, DumpTypes, Phases, Dumped!fileVars, Dumped!cacheVars,
           Dumped!Names, Dumped!Inodes
    <2>3. Progress(d)'
        <3>1. pc'[d] = "collect" /\ next'[d] = 1 /\ dump'[d] = Len(snaps')
            BY DEF DumpInv, DumpTypes
        <3>2. 1 \in Dumped!Names
            BY DumpAssumption DEF Dumped!Names
        <3>3. Len(snaps'[dump'[d]]) = 0
            BY <2>1, <3>1, EmptySeq, AppendProperties DEF DumpInv, DumpTypes
        <3>4. dumperUp'
            BY DEF DumpInv, DumpTypes
        <3> QED BY <2>1, <3>1, <3>2, <3>3, <3>4, DumpConstants DEF Progress, Dumping
    <2>s. Sorted'
        <3>1. Len(snaps'[Len(snaps')]) = 0
            BY <2>1, EmptySeq, AppendProperties DEF DumpInv, DumpTypes
        <3>2. \A s \in 1 .. Len(snaps') : s \in 1 .. Len(snaps) \/ s = Len(snaps')
            BY <2>1
        <3> QED BY <2>1, <3>1, <3>2 DEF DumpInv, Sorted
    <2>4. OnPath'
        <3> SUFFICES ASSUME path' # 0 PROVE OnPath'
            BY DEF OnPath
        <3>1. PICK s \in 1 .. Len(snaps) : content[path] = Dumped!Encoded(s)
            BY DEF DumpInv, OnPath, Dumped!fileVars
        <3>2. Dumped!Encoded(s)' = Dumped!Encoded(s)
            BY <2>1, <3>1, EncodedKept
        <3>3. \A e \in Dumpers : s # dump'[e]
            BY <2>1 DEF OneDumper, DumpInv, DumpTypes
        <3>4. s \in 1 .. Len(snaps')
            BY <2>1
        <3> QED BY <3>1, <3>2, <3>3, <3>4 DEF OnPath, Dumped!fileVars
    <2> QED BY <2>2, <2>3, <2>s, <2>4 DEF OneDumper, DumpInv, Dumped!fileVars
<1>2. CASE Dumped!Collect(d)
    <2> USE <1>2 DEF Dumped!Collect
    <2> DEFINE t == dump[d]
               k == next[d]
               more == Append(snaps[t], Dumped!Record(k, mem[k]))
    <2>0. t \in 1 .. Len(snaps) /\ t = Len(snaps) /\ k \in Dumped!Names
        BY LenProperties DEF DumpInv, DumpTypes, Progress, Dumping
    <2>1. /\ snaps' \in Seq(Seq(Recs)) /\ Len(snaps') = Len(snaps)
          /\ \A s \in 1 .. Len(snaps) : s # t => snaps'[s] = snaps[s]
          /\ snaps'[t] = snaps[t] \/ snaps'[t] = more
        <3>1. snaps[t] \in Seq(Recs)
            BY <2>0, EncodedCells DEF DumpInv, DumpTypes
        <3>2. Dumped!Record(k, mem[k]) \in Recs
            BY <2>0 DEF DumpInv, DumpTypes, Recs, Dumped!Record
        <3>3. more \in Seq(Recs)
            BY <3>1, <3>2, AppendProperties
        <3>4. snaps' = snaps \/ snaps' = [snaps EXCEPT ![t] = more]
            OBVIOUS
        <3> HIDE DEF more
        <3> QED BY <2>0, <3>3, <3>4, ExceptSeq DEF DumpInv, DumpTypes
    <2> DEFINE to == IF k = Shards THEN "create" ELSE "collect"
    <2>a. /\ pc' = [pc EXCEPT ![d] = to] /\ next' = [next EXCEPT ![d] = k + 1]
          /\ to \in Phases /\ k \in Nat
          /\ dump' = dump /\ dumperUp' = dumperUp /\ dumperUp
        BY <2>0, DumpAssumption DEF Phases, Dumped!Names
    <2>b. /\ pc'[d] = to /\ next'[d] = k + 1
          /\ pc'[d] = "collect" => next'[d] \in Dumped!Names
          /\ pc'[d] \in {"create", "collect"}
        BY <2>0, <2>a, DumpAssumption DEF DumpInv, DumpTypes, Dumped!Names
    <2>g. /\ Len(snaps[t]) \in Nat /\ Len(snaps'[t]) \in Nat
          /\ \A i \in 1 .. Len(snaps[t]) : snaps[t][i].key \in Int /\ snaps[t][i].key < k
          /\ \/ snaps'[t] = snaps[t]
             \/ /\ Len(snaps'[t]) = Len(snaps[t]) + 1
                /\ \A i \in 1 .. Len(snaps[t]) : snaps'[t][i] = snaps[t][i]
                /\ snaps'[t][Len(snaps[t]) + 1].key = k
        <3>1. snaps[t] \in Seq(Recs) /\ Dumped!Record(k, mem[k]) \in Recs
            BY <2>0, EncodedCells DEF DumpInv, DumpTypes, Recs, Dumped!Record
        <3>2. \A i \in 1 .. Len(snaps[t]) : snaps[t][i].key \in Int
            BY <3>1, ElementOfSeq, RecFields
        <3>3. \A i \in 1 .. Len(snaps[t]) : snaps[t][i].key < k
            BY DEF DumpInv, Progress
        <3>4. CASE snaps'[t] = snaps[t]
            BY <3>1, <3>2, <3>3, <3>4, LenProperties
        <3>5. CASE snaps'[t] = more
            <4>1. Dumped!Record(k, mem[k]).key = k
                BY DEF Dumped!Record
            <4> QED BY <3>1, <3>2, <3>3, <3>5, <4>1, AppendProperties, LenProperties
        <3> QED BY <2>1, <3>4, <3>5
    <2> HIDE DEF to, k, more
    <2>2. DumpTypes'
        <3>1. pc' \in [Dumpers -> Phases] /\ next' \in [Dumpers -> Nat]
            BY <2>a DEF DumpInv, DumpTypes
        <3> HIDE <1>2
        <3>2. UNCHANGED <<dumperUp, mem, counting, changes, writes, dump, handle,
                          tmp, path, content>>
            BY <1>2 DEF Dumped!Collect, Dumped!fileVars, Dumped!cacheVars
        <3> QED BY <2>1, <3>1, <3>2, DumpConstants DEF DumpInv, DumpTypes
    <2>3. Progress(d)'
        <3>1. pc'[d] \notin {"write", "rename", "reset"}
            BY <2>b
        <3>2. dumperUp' /\ dump'[d] = Len(snaps') /\ dump'[d] # 0
            <4>1. dumperUp'
                BY <2>a DEF DumpInv, DumpTypes
            <4>2. dump[d] # 0
                BY DEF DumpInv, Progress, Dumping
            <4> QED BY <4>1, <4>2, <2>0, <2>1, <2>a
        <3>3. \A i \in 1 .. Len(snaps'[t]) : snaps'[t][i].key < next'[d]
            <4> SUFFICES ASSUME NEW i \in 1 .. Len(snaps'[t])
                         PROVE  snaps'[t][i].key < k + 1
                BY <2>b
            <4>1. CASE i \in 1 .. Len(snaps[t]) /\ snaps'[t][i] = snaps[t][i]
                BY <2>a, <2>g, <4>1
            <4>2. CASE i = Len(snaps[t]) + 1 /\ snaps'[t][i].key = k
                BY <2>a, <2>g, <4>2
            <4>3. CASE snaps'[t] = snaps[t]
                BY <4>1, <4>3
            <4>4. CASE snaps'[t] # snaps[t]
                <5>1. i \in 1 .. Len(snaps[t]) \/ i = Len(snaps[t]) + 1
                    BY <2>g, <4>4
                <5> QED BY <2>g, <4>1, <4>2, <4>4, <5>1
            <4> QED BY <4>3, <4>4
        <3> QED BY <2>a, <2>b, <3>1, <3>2, <3>3, DumpConstants DEF Progress, Dumping
    <2>s. Sorted'
        <3> SUFFICES ASSUME NEW s \in 1 .. Len(snaps), NEW i \in 1 .. Len(snaps'[s]),
                            NEW j \in 1 .. Len(snaps'[s]), i < j
                     PROVE  snaps'[s][i].key < snaps'[s][j].key
            BY <2>1 DEF Sorted
        <3>1. CASE s # t \/ snaps'[t] = snaps[t]
            BY <2>1, <3>1 DEF DumpInv, Sorted
        <3>2. CASE s = t /\ snaps'[t] # snaps[t]
            <4>1. i \in 1 .. Len(snaps[t]) /\ snaps'[t][i] = snaps[t][i]
                BY <2>g, <3>2
            <4>2. CASE j \in 1 .. Len(snaps[t])
                BY <2>g, <3>2, <4>1, <4>2 DEF DumpInv, Sorted
            <4>3. CASE j = Len(snaps[t]) + 1
                BY <2>g, <3>2, <4>1, <4>3
            <4> QED BY <2>g, <3>2, <4>2, <4>3
        <3> QED BY <3>1, <3>2
    <2>4. OnPath'
        <3> SUFFICES ASSUME path' # 0 PROVE OnPath'
            BY DEF OnPath
        <3>1. PICK s \in 1 .. Len(snaps) :
                content[path] = Dumped!Encoded(s) /\ s # t
            BY DEF DumpInv, OnPath, Dumped!fileVars
        <3>2. Dumped!Encoded(s)' = Dumped!Encoded(s)
            BY <2>1, <3>1, EncodedKept
        <3>3. \A e \in Dumpers : s # dump'[e]
            BY <3>1 DEF OneDumper
        <3> QED BY <2>1, <3>1, <3>2, <3>3 DEF OnPath, Dumped!fileVars
    <2> QED BY <2>2, <2>3, <2>s, <2>4 DEF OneDumper, DumpInv, Dumped!fileVars
<1> QED BY <1>1, <1>2

LEMMA CreateInv ==
    ASSUME OneDumper, DumpInv, NEW d \in Dumpers, Dumped!Create(d)
    PROVE  DumpInv'
<1> USE DEF Dumped!Create
<1>1. PICK i \in Dumped!Inodes :
        /\ IF tmp # 0 THEN i = tmp
           ELSE i # path /\ \A e \in Dumpers : handle[e] # i
        /\ tmp' = i
        /\ content' = [content EXCEPT ![i] = <<>>]
        /\ handle' = [handle EXCEPT ![d] = i]
    OBVIOUS
<1>2. i # path /\ i # 0
    BY <1>1, InodesArePositive DEF DumpInv
<1>3. /\ content'[i] = <<>> /\ next'[d] = 0 /\ pc'[d] = "write"
      /\ dump' = dump /\ snaps' = snaps /\ path' = path /\ handle'[d] = i
      /\ \A j \in Dumped!Inodes : j # i => content'[j] = content[j]
    BY <1>1 DEF DumpInv, DumpTypes
<1>4. DumpTypes'
    BY <1>1 DEF DumpInv, DumpTypes, Phases, Dumped!cacheVars, Dumped!Names,
       Dumped!Inodes
<1>5. Progress(d)'
    <2>1. dump[d] \in 1 .. Len(snaps) /\ dump[d] = Len(snaps)
        BY LenProperties DEF DumpInv, DumpTypes, Progress, Dumping
    <2>2. snaps[dump[d]] \in Seq(Recs)
        BY <2>1, EncodedCells DEF DumpInv, DumpTypes
    <2>3. Len(snaps[dump[d]]) \in Nat
        BY <2>2, LenProperties
    <2>4. Prefix(content[tmp], dump[d], next[d])'
        <3>1. <<>> \in Seq(Cells) /\ Len(<<>>) = 0
            BY EmptySeq
        <3>2. content'[tmp'] = <<>> /\ next'[d] = 0
            BY <1>1, <1>3
        <3>3. content'[tmp'] \in Seq(Cells') /\ Len(content'[tmp']) = next'[d]
            BY <3>1, <3>2, DumpConstants
        <3>4. \A j \in 1 .. next'[d] : FALSE
            BY <3>2
        <3> QED BY <3>3, <3>4 DEF Prefix
    <2> QED
        BY <1>1, <1>2, <1>3, <2>1, <2>3, <2>4 DEF Progress, Dumping, DumpInv
<1>6. OnPath'
    BY <1>2, <1>3, ZenonT(40) DEF DumpInv, DumpTypes, OnPath, OneDumper, Dumped!Encoded,
       Dumped!Header
<1> QED BY <1>1, <1>2, <1>3, <1>4, <1>5, <1>6 DEF OneDumper, DumpInv, Sorted

LEMMA WriteInv ==
    ASSUME OneDumper, DumpInv, NEW d \in Dumpers, Dumped!Write(d)
    PROVE  DumpInv'
<1> USE DEF Dumped!Write
<1> DEFINE t == dump[d]
           n == next[d]
           c == content[tmp]
           w == Dumped!WriteAt(c, n, Dumped!Encoded(t)[n + 1])
<1>1. /\ t \in 1 .. Len(snaps) /\ t = Len(snaps) /\ tmp # 0 /\ handle[d] = tmp
      /\ n \in Nat /\ n <= Len(snaps[t]) /\ Prefix(c, t, n)
      /\ tmp \in Dumped!Inodes
    BY LenProperties DEF DumpInv, DumpTypes, Progress, Dumping
<1>2. /\ snaps[t] \in Seq(Recs) /\ Dumped!Encoded(t) \in Seq(Cells)
      /\ Len(Dumped!Encoded(t)) = Len(snaps[t]) + 1
      /\ Len(snaps[t]) \in Nat
    BY <1>1, EncodedCells, LenProperties DEF DumpInv, DumpTypes
<1>3. Dumped!Encoded(t)[n + 1] \in Cells
    BY <1>1, <1>2, ElementOfSeq
<1>4. Prefix(w, t, n + 1)
    <2>1. c \in Seq(Cells) /\ Len(c) = n
        BY <1>1 DEF Prefix
    <2>2. /\ w \in Seq(Cells) /\ Len(w) = n + 1
          /\ \A i \in 1 .. n : w[i] = c[i]
          /\ w[n + 1] = Dumped!Encoded(t)[n + 1]
        BY <1>1, <1>3, <2>1, WriteAtEnd, ZenonT(40)
    <2>3. ASSUME NEW i \in 1 .. n + 1 PROVE w[i] = Dumped!Encoded(t)[i]
        <3>1. i \in 1 .. n \/ i = n + 1
            BY <1>1
        <3> QED BY <1>1, <2>2, <3>1 DEF Prefix
    <2> QED BY <2>2, <2>3 DEF Prefix
<1>5. /\ content' = [content EXCEPT ![tmp] = w] /\ content'[tmp] = w
      /\ \A j \in Dumped!Inodes : j # tmp => content'[j] = content[j]
      /\ next'[d] = n + 1 /\ dump' = dump /\ snaps' = snaps /\ tmp' = tmp
      /\ path' = path /\ handle' = handle /\ dumperUp' = dumperUp
      /\ pc'[d] = IF n = Len(snaps[t]) THEN "rename" ELSE "write"
    BY <1>1 DEF DumpInv, DumpTypes
<1> HIDE DEF w
<1>6. DumpTypes'
    BY <1>1, <1>5 DEF DumpInv, DumpTypes, Phases, Dumped!cacheVars, Dumped!Names,
       Dumped!Inodes
<1>7. Progress(d)'
    <2>1. Dumped!Encoded(t)' = Dumped!Encoded(t)
        BY <1>5, EncodedKept
    <2>2. CASE n = Len(snaps[t])
        <3>1. w = Dumped!Encoded(t)
            <4>1. w \in Seq(Cells) /\ Len(w) = Len(Dumped!Encoded(t))
                BY <1>2, <1>4, <2>2 DEF Prefix
            <4>2. \A i \in 1 .. Len(w) : w[i] = Dumped!Encoded(t)[i]
                BY <1>4 DEF Prefix
            <4> QED BY <1>2, <4>1, <4>2, SeqEqual
        <3> QED
            BY <1>1, <1>5, <2>1, <2>2, <3>1 DEF Progress, Dumping, DumpInv
    <2>3. CASE n # Len(snaps[t])
        <3>1. n + 1 <= Len(snaps[t])
            BY <1>1, <1>2, <2>3
        <3>2. Prefix(content[tmp], dump[d], next[d])'
            BY <1>4, <1>5, <2>1 DEF Prefix
        <3> QED
            BY <1>1, <1>5, <2>3, <3>1, <3>2 DEF Progress, Dumping, DumpInv
    <2> QED BY <2>2, <2>3
<1>8. OnPath'
    <2>1. \A e \in Dumpers : pc'[e] # "collect"
        BY <1>5 DEF OneDumper
    <2>2. path' # 0 => content'[path'] = content[path]
        BY <1>5 DEF DumpInv, DumpTypes
    <2> QED BY <1>5, <2>1, <2>2
        DEF DumpInv, OnPath, Dumped!Encoded, Dumped!Header
<1> QED BY <1>5, <1>6, <1>7, <1>8 DEF OneDumper, DumpInv, Sorted

LEMMA RenameInv ==
    ASSUME OneDumper, DumpInv, NEW d \in Dumpers, Dumped!Rename(d)
    PROVE  DumpInv'
<1> USE DEF Dumped!Rename
<1>1. /\ dump[d] \in 1 .. Len(snaps) /\ dump[d] = Len(snaps)
      /\ content[tmp] = Dumped!Encoded(dump[d])
    BY LenProperties DEF DumpInv, DumpTypes, Progress, Dumping
<1>2. DumpTypes'
    BY DEF DumpInv, DumpTypes, Phases, Dumped!cacheVars, Dumped!Names,
       Dumped!Inodes
<1>3. pc'[d] = "reset"
    BY DEF DumpInv, DumpTypes
<1>4. \A e \in Dumpers : Progress(e)'
    BY <1>1, <1>3 DEF OneDumper, DumpInv, Progress, Dumping
<1>5. OnPath'
    BY <1>1, <1>3 DEF OneDumper, OnPath, Dumped!Encoded, Dumped!Header
<1> QED BY <1>2, <1>4, <1>5 DEF DumpInv, Sorted

\* A dump ends, well or not.
LEMMA ReturnInv ==
    ASSUME OneDumper, DumpInv, NEW d \in Dumpers,
           Dumped!ResetChanges(d) \/ Dumped!DumpFails(d)
    PROVE  DumpInv'
<1> USE DEF Dumped!ResetChanges, Dumped!DumpFails, Dumped!Return
<1> DEFINE to == IF d = "background" THEN "idle" ELSE "done"
<1>0. pc' = [pc EXCEPT ![d] = to] /\ to \in Phases /\ to \in {"idle", "done"}
    BY DEF Phases
<1> HIDE DEF to
<1>1. DumpTypes'
    BY <1>0 DEF DumpInv, DumpTypes, Dumped!cacheVars, Dumped!fileVars,
       Dumped!Names, Dumped!Inodes
<1>2. pc'[d] \in {"idle", "done"}
    BY <1>0 DEF DumpInv, DumpTypes
<1>3. \A e \in Dumpers : Progress(e)'
    BY <1>2 DEF OneDumper, Progress, Dumping
<1>4. OnPath'
    BY <1>2, ZenonT(40) DEF OneDumper, DumpInv, OnPath, Dumped!Encoded, Dumped!Header,
       Dumped!fileVars
<1> QED BY <1>1, <1>3, <1>4 DEF DumpInv, Dumped!fileVars, Sorted

LEMMA DumpQuietInv ==
    ASSUME DumpInv,
           \/ \E k \in Dumped!Names : Dumped!Store(k) \/ Dumped!Drop(k)
           \/ Dumped!CountStore
    PROVE  DumpInv'
<1> USE DEF Dumped!Store, Dumped!Drop, Dumped!CountStore
<1>2. /\ dumperUp' = dumperUp /\ snaps' = snaps /\ pc' = pc /\ dump' = dump
      /\ next' = next /\ handle' = handle
      /\ tmp' = tmp /\ path' = path /\ content' = content
    BY DEF Dumped!dumpVars, Dumped!fileVars
<1>1. DumpTypes'
    <2>0. counting' \in BOOLEAN
        <3>1. counting' = TRUE \/ counting' = FALSE \/ counting' = counting
            BY Zenon
        <3> QED BY <3>1 DEF DumpInv, DumpTypes
    <2>1. changes' \in Nat /\ writes' \in Nat
        BY DEF DumpInv, DumpTypes
    <2>2. mem' \in [Dumped!Names -> Nat]
        <3>1. mem' = mem \/ \E k \in Dumped!Names, n \in Nat : mem' = [mem EXCEPT ![k] = n]
            BY <2>1
        <3> QED BY <3>1 DEF DumpInv, DumpTypes
    <2> QED BY <1>2, <2>0, <2>1, <2>2, DumpConstants DEF DumpInv, DumpTypes
<1>3. OnPath' /\ Sorted'
    BY <1>2 DEF DumpInv, OnPath, Sorted, Dumped!Encoded, Dumped!Header
<1>4. ASSUME NEW d \in Dumpers PROVE Progress(d)'
    BY <1>2, DumpConstants
    DEF DumpInv, Progress, Dumping, Prefix, Dumped!Encoded, Dumped!Header
<1> QED BY <1>1, <1>2, <1>3, <1>4 DEF DumpInv

\* What a restart reads from a complete dump.
Saved(f, k, w) == \E i \in 1 .. Len(f) : f[i] = Dumped!Record(k, w)

LEMMA LoadedDump ==
    ASSUME DumpTypes, Sorted, NEW s \in 1 .. Len(snaps), NEW k \in Dumped!Names
    PROVE  /\ Dumped!Loaded(Dumped!Encoded(s))[k] \in Nat
           /\ \A w : Saved(snaps[s], k, w) => Dumped!Loaded(Dumped!Encoded(s))[k] = w
<1> DEFINE c == Dumped!Encoded(s)
           n == Len(snaps[s])
           of == { i \in 2 .. n + 1 : c[i].key = k }
           last == CHOOSE i \in of : \A j \in of : j <= i
<1>1. /\ n \in Nat /\ c \in Seq(Cells) /\ Len(c) = n + 1
      /\ c[1] = [count |-> n, dump |-> s] /\ snaps[s] \in Seq(Recs)
      /\ \A i \in 1 .. n : c[i + 1] = snaps[s][i]
    BY EncodedCells, LenProperties DEF DumpTypes
<1>2. \A i \in 1 .. n : /\ snaps[s][i].key \in Int /\ snaps[s][i].write \in Nat
    BY <1>1, ElementOfSeq, RecFields
<1> HIDE DEF c
<1>3. c # <<>>
    BY <1>1, EmptySeq
<1>4. c[1] # Dumped!Hole
    <2>1. DOMAIN [count |-> n, dump |-> s] = {"count", "dump"}
        OBVIOUS
    <2>2. DOMAIN Dumped!Hole = {"key", "write"}
        BY DEF Dumped!Hole
    <2> QED BY <1>1, <2>1, <2>2
<1>5. c[1].count = n
    BY <1>1
<1> HIDE DEF n
<1>6. Dumped!Loaded(c)[k] = IF of = {} THEN 0 ELSE c[last].write
    BY <1>1, <1>3, <1>4, <1>5 DEF Dumped!Loaded
<1>7. \A i \in of : i - 1 \in 1 .. n /\ c[i] = snaps[s][i - 1]
    <2> SUFFICES ASSUME NEW i \in of PROVE i - 1 \in 1 .. n /\ c[i] = snaps[s][i - 1]
        OBVIOUS
    <2>1. i \in Int /\ i - 1 \in 1 .. n /\ (i - 1) + 1 = i
        BY <1>1
    <2> QED BY <1>1, <2>1
<1>8. \A i, j \in of : i = j
    <2> SUFFICES ASSUME NEW i \in of, NEW j \in of, i # j PROVE FALSE
        OBVIOUS
    <2>1. i \in Int /\ j \in Int /\ i - 1 \in 1 .. n /\ j - 1 \in 1 .. n
        BY <1>7
    <2>2. snaps[s][i - 1].key = k /\ snaps[s][j - 1].key = k
        BY <1>7
    <2>3. i - 1 < j - 1 \/ j - 1 < i - 1
        BY <2>1
    <2>4. k < k
        BY <2>1, <2>2, <2>3 DEF Sorted, n
    <2> QED BY <2>4, DumpAssumption DEF Dumped!Names
<1>9. ASSUME NEW i \in of PROVE last = i
    <2>1. \A j \in of : j <= i
        BY <1>8
    <2>2. last \in of
        BY <2>1
    <2> QED BY <1>8, <2>2
<1>10. Dumped!Loaded(c)[k] \in Nat
    <2>1. CASE of = {}
        BY <1>6, <2>1
    <2>2. CASE of # {}
        <3>1. PICK i \in of : TRUE
            BY <2>2
        <3>2. c[last].write = snaps[s][i - 1].write
            BY <1>7, <1>9
        <3> QED BY <1>2, <1>6, <1>7, <2>2, <3>2
    <2> QED BY <2>1, <2>2
<1>11. ASSUME NEW w, Saved(snaps[s], k, w) PROVE Dumped!Loaded(c)[k] = w
    <2>1. PICK i \in 1 .. n : snaps[s][i] = Dumped!Record(k, w)
        BY <1>11 DEF Saved, n
    <2>2. i + 1 \in 2 .. n + 1 /\ c[i + 1] = snaps[s][i]
        BY <1>1
    <2>3. c[i + 1].key = k /\ c[i + 1].write = w
        BY <2>1, <2>2 DEF Dumped!Record
    <2>4. i + 1 \in of
        BY <2>2, <2>3
    <2> QED BY <1>6, <1>9, <2>3, <2>4
<1> QED BY <1>10, <1>11 DEF c

LEMMA OnDiskTypes ==
    ASSUME DumpInv
    PROVE  Dumped!OnDisk \in [Dumped!Names -> Nat]
<1>1. CASE path = 0
    BY <1>1 DEF Dumped!OnDisk
<1>2. CASE path # 0
    <2>1. PICK s \in 1 .. Len(snaps) : content[path] = Dumped!Encoded(s)
        BY <1>2 DEF DumpInv, OnPath
    <2>2. \A k \in Dumped!Names : Dumped!OnDisk[k] \in Nat
        BY <1>2, <2>1, LoadedDump DEF DumpInv, Dumped!OnDisk
    <2>3. \E g : Dumped!OnDisk = [k \in Dumped!Names |-> g[k]]
        <3>1. ASSUME NEW c PROVE \E g : Dumped!Loaded(c) = [k \in Dumped!Names |-> g[k]]
            <4> DEFINE none == [k \in Dumped!Names |-> 0]
                       end == IF Len(c) <= c[1].count THEN Len(c) ELSE c[1].count + 1
                       of(k) == { i \in 2 .. end : c[i].key = k }
                       some == [k \in Dumped!Names |->
                                  IF of(k) = {} THEN 0
                                  ELSE c[CHOOSE i \in of(k) : \A j \in of(k) : j <= i].write]
            <4>1. Dumped!Loaded(c) = none \/ Dumped!Loaded(c) = some
                BY DEF Dumped!Loaded
            <4>2. none = [k \in Dumped!Names |-> none[k]]
                OBVIOUS
            <4>3. some = [k \in Dumped!Names |-> some[k]]
                <5> HIDE DEF of
                <5> QED OBVIOUS
            <4> HIDE DEF none, some
            <4> QED BY <4>1, <4>2, <4>3
        <3> QED BY <1>2, <3>1 DEF Dumped!OnDisk
    <2> QED BY <2>2, <2>3
<1> QED BY <1>1, <1>2

LEMMA ProcessInv ==
    ASSUME DumpInv, Dumped!Crash \/ Dumped!Restart \/ UNCHANGED Dumped!vars
    PROVE  DumpInv'
<1> USE DEF Dumped!Crash, Dumped!Restart
<1>1. /\ snaps' = snaps /\ dump' = dump /\ next' = next
      /\ tmp' = tmp /\ path' = path /\ content' = content /\ writes' = writes
    BY DEF Dumped!vars, Dumped!dumpVars, Dumped!fileVars, Dumped!cacheVars
<1>2. DumpTypes'
    <2>1. changes' \in Nat /\ mem' \in [Dumped!Names -> Nat]
        <3>1. \/ changes' = 0 /\ mem' = [k \in Dumped!Names |-> 0]
              \/ changes' = changes /\ mem' = Dumped!OnDisk
              \/ changes' = changes /\ mem' = mem
            BY DEF Dumped!vars, Dumped!cacheVars
        <3> QED BY <3>1, OnDiskTypes DEF DumpInv, DumpTypes
    <2>2. counting' \in BOOLEAN /\ dumperUp' \in BOOLEAN
        <3>1. /\ counting' = FALSE \/ counting' = counting
              /\ dumperUp' = FALSE \/ dumperUp' = TRUE \/ dumperUp' = dumperUp
            BY DEF Dumped!vars, Dumped!cacheVars
        <3> QED BY <3>1 DEF DumpInv, DumpTypes
    <2>3. pc' \in [Dumpers -> Phases] /\ DOMAIN handle' = Dumpers
        <3>1. \/ /\ pc' = [d \in Dumpers |-> "idle"]
                 /\ handle' = [d \in Dumpers |-> 0]
              \/ pc' = pc /\ handle' = handle
            BY DEF Dumped!vars, Dumped!dumpVars
        <3> QED BY <3>1 DEF DumpInv, DumpTypes, Phases
    <2> QED BY <1>1, <2>1, <2>2, <2>3, DumpConstants DEF DumpInv, DumpTypes
<1>3. CASE pc' = pc /\ handle' = handle /\ (dumperUp => dumperUp')
    <2>1. OnPath' /\ Sorted'
        BY <1>1, <1>3 DEF DumpInv, OnPath, Sorted, Dumped!Encoded, Dumped!Header
    <2>2. ASSUME NEW d \in Dumpers PROVE Progress(d)'
        BY <1>1, <1>3, DumpConstants
        DEF DumpInv, Progress, Dumping, Prefix, Dumped!Encoded, Dumped!Header
    <2> QED BY <1>1, <1>2, <2>1, <2>2 DEF DumpInv
<1>4. CASE \A d \in Dumpers : pc'[d] = "idle"
    <2>1. OnPath' /\ Sorted'
        BY <1>1, <1>4 DEF DumpInv, OnPath, Sorted, Dumped!Encoded, Dumped!Header
    <2>2. ASSUME NEW d \in Dumpers PROVE Progress(d)'
        BY <1>4 DEF Progress, Dumping
    <2> QED BY <1>1, <1>2, <2>1, <2>2 DEF DumpInv
<1> QED BY <1>3, <1>4 DEF Dumped!vars, Dumped!dumpVars

LEMMA DumpNextInv ==
    ASSUME OneDumper, DumpInv, [Dumped!Next]_(Dumped!vars)
    PROVE  DumpInv'
BY CollectInv, CreateInv, WriteInv, RenameInv, ReturnInv, DumpQuietInv, ProcessInv
DEF Dumped!Next

LEMMA DumpInvAtomic == DumpInv => Dumped!DumpAtomic
BY DEF DumpInv, OnPath, Dumped!DumpAtomic

\* A step of the other part leaves the dump alone.
LEMMA CacheSpecDumps ==
    [LifetimesMove \/ DumpsMove]_<<part, vars, dumpVars>>
      => [Dumped!Next]_(Dumped!vars)
BY DEF LifetimesMove, DumpsMove, dumpVars, Dumped!vars, Dumped!cacheVars,
   Dumped!dumpVars, Dumped!fileVars

\* With one task dumping, the file always holds one complete dump, for any
\* number of shards, stores, failed dumps and crashes at any point.
THEOREM DumpIsAtomic == OneDumper /\ CacheSpec => []DumpAtomic
<1> DEFINE I == OneDumper /\ DumpInv
<1>1. OneDumper /\ CacheInit => I
    BY DumpInitInv DEF CacheInit
<1>2. I /\ [LifetimesMove \/ DumpsMove]_<<part, vars, dumpVars>> => I'
    BY CacheSpecDumps, DumpNextInv DEF OneDumper
<1>3. I => DumpAtomic
    BY DumpInvAtomic DEF DumpAtomic
<1> QED BY <1>1, <1>2, <1>3, PTL DEF CacheSpec

-----------------------------------------------------------------------------
(* Which writes the counter of changes misses *)

\* The entry of k is gone, raced with a dump, or is in d's dump; or is on disk.
Kept(d, k) == mem[k] = 0 \/ mem[k] \in raced \/ Saved(snaps[dump[d]], k, mem[k])
Visible(k) == mem[k] = 0 \/ mem[k] \in raced \/ mem[k] = Dumped!OnDisk[k]

RaceInv ==
    /\ \A d \in Dumpers : pc[d] = "collect" =>
          \A k \in Dumped!Names : k < next[d] => Kept(d, k)
    /\ \A d \in Dumpers : pc[d] \in {"create", "write", "rename"} =>
          \A k \in Dumped!Names : Kept(d, k)
    /\ \A d \in Dumpers : pc[d] = "reset" => \A k \in Dumped!Names : Visible(k)
    /\ dumperUp /\ changes = 0 =>
          \A k \in Dumped!Names : Visible(k) \/ (counting /\ mem[k] = writes)

\* The visible file changes only by a rename.
LEMMA SameDisk ==
    ASSUME path' = path, path # 0 => content'[path] = content[path]
    PROVE  Dumped!OnDisk' = Dumped!OnDisk
<1>1. CASE path = 0
    BY <1>1, DumpConstants DEF Dumped!OnDisk
<1>2. CASE path # 0
    <2>1. content'[path'] = content[path]
        BY <1>2
    <2>2. Dumped!Loaded(content[path])' = Dumped!Loaded(content[path])
        BY <2>1
    <2> QED BY <1>2, <2>2 DEF Dumped!OnDisk
<1> QED BY <1>1, <1>2

LEMMA StoreRace ==
    ASSUME DumpInv, RaceInv, NEW k \in Dumped!Names, Dumped!Store(k)
    PROVE  RaceInv'
<1> USE DEF Dumped!Store, Dumped!dumpVars, Dumped!fileVars
<1>1. Dumped!OnDisk' = Dumped!OnDisk
    BY SameDisk
<1>2. /\ \A j \in Dumped!Names : j # k => mem'[j] = mem[j]
      /\ mem'[k] = writes' /\ raced \subseteq raced'
      /\ changes' = changes /\ dumperUp' = dumperUp /\ ~counting /\ counting'
      /\ pc' = pc /\ dump' = dump /\ next' = next /\ snaps' = snaps
    BY DEF DumpInv, DumpTypes
<1>3. \A d \in Dumpers : pc[d] \notin {"idle", "done"} => mem'[k] \in raced'
    BY <1>2
<1>4. \A j \in Dumped!Names : Visible(j) /\ j # k => Visible(j)'
    BY <1>1, <1>2 DEF Visible
<1>5. \A d \in Dumpers, j \in Dumped!Names : Kept(d, j) /\ j # k => Kept(d, j)'
    BY <1>2 DEF Kept, Saved, Dumped!Record
<1>6. \A d \in Dumpers : pc[d] \notin {"idle", "done"} => Kept(d, k)' /\ Visible(k)'
    BY <1>3 DEF Kept, Visible
<1> QED BY <1>2, <1>4, <1>5, <1>6, DumpConstants DEF RaceInv

\* The counting of a store, and an entry that expires.
LEMMA CountDropRace ==
    ASSUME DumpInv, RaceInv,
           Dumped!CountStore \/ \E k \in Dumped!Names : Dumped!Drop(k)
    PROVE  RaceInv'
<1> USE DEF Dumped!CountStore, Dumped!Drop, Dumped!dumpVars, Dumped!fileVars
<1>1. Dumped!OnDisk' = Dumped!OnDisk
    BY SameDisk
<1>2. /\ \A j \in Dumped!Names : mem'[j] = mem[j] \/ mem'[j] = 0
      /\ raced \subseteq raced' /\ dumperUp' = dumperUp
      /\ pc' = pc /\ dump' = dump /\ next' = next /\ snaps' = snaps
      /\ writes' = writes
    BY DEF DumpInv, DumpTypes
<1>3. changes' = 0 => changes = 0 /\ counting' = counting
    BY DEF DumpInv, DumpTypes
<1>4. \A j \in Dumped!Names : Visible(j) => Visible(j)'
    BY <1>1, <1>2 DEF Visible
<1>5. \A d \in Dumpers, j \in Dumped!Names : Kept(d, j) => Kept(d, j)'
    BY <1>2 DEF Kept, Saved, Dumped!Record
<1>6. ASSUME dumperUp', changes' = 0, NEW j \in Dumped!Names
      PROVE  Visible(j)' \/ (counting' /\ mem'[j] = writes')
    <2>1. Visible(j) \/ (counting /\ mem[j] = writes)
        BY <1>2, <1>3, <1>6 DEF RaceInv
    <2> QED BY <1>2, <1>3, <1>4, <1>6, <2>1 DEF Visible
<1> QED BY <1>2, <1>4, <1>5, <1>6, DumpConstants DEF RaceInv

\* A step of a dump that leaves the entries, the counter and the visible file.
LEMMA DumpStepRace ==
    ASSUME DumpInv, RaceInv, UNCHANGED <<mem, raced, changes, counting, writes>>,
           Dumped!OnDisk' = Dumped!OnDisk, dumperUp' => dumperUp,
           \A d \in Dumpers : pc'[d] = "collect" =>
               \A k \in Dumped!Names : k < next'[d] => Kept(d, k)',
           \A d \in Dumpers : pc'[d] \in {"create", "write", "rename"} =>
               \A k \in Dumped!Names : Kept(d, k)',
           \A d \in Dumpers : pc'[d] = "reset" => pc[d] = "reset"
    PROVE  RaceInv'
<1>1. \A k \in Dumped!Names : Visible(k)' <=> Visible(k)
    BY DEF Visible
<1> QED BY <1>1, DumpConstants DEF RaceInv

LEMMA CollectRace ==
    ASSUME OneDumper, DumpInv, RaceInv, NEW d \in Dumpers,
           Dumped!StartDump(d) \/ Dumped!Collect(d)
    PROVE  RaceInv'
<1> USE DEF Dumped!fileVars, Dumped!cacheVars
<1>1. CASE Dumped!StartDump(d)
    <2>1. Dumped!OnDisk' = Dumped!OnDisk
        BY <1>1, SameDisk DEF Dumped!StartDump
    <2>2. next'[d] = 1 /\ pc'[d] = "collect"
        BY <1>1 DEF Dumped!StartDump, DumpInv, DumpTypes
    <2>3. \A k \in Dumped!Names : ~(k < 1)
        BY DumpAssumption DEF Dumped!Names
    <2> QED BY <1>1, <2>1, <2>2, <2>3, DumpStepRace DEF OneDumper, Dumped!StartDump
<1>2. CASE Dumped!Collect(d)
    <2> USE <1>2 DEF Dumped!Collect
    <2> DEFINE t == dump[d]
               k == next[d]
               r == Dumped!Record(k, mem[k])
    <2>1. Dumped!OnDisk' = Dumped!OnDisk
        BY SameDisk
    <2>2. /\ t \in 1 .. Len(snaps) /\ k \in Dumped!Names /\ snaps \in Seq(Seq(Recs))
          /\ mem[k] \in Nat /\ dump' = dump
        BY LenProperties DEF DumpInv, DumpTypes, Progress, Dumping
    <2>3. snaps[t] \in Seq(Recs) /\ r \in Recs
        BY <2>2, EncodedCells DEF Recs, Dumped!Record
    <2>4. /\ \A w, j : Saved(snaps[t], j, w) => Saved(snaps'[t], j, w)
          /\ mem[k] # 0 => Saved(snaps'[t], k, mem[k])
        <3>1. CASE mem[k] = 0
            BY <3>1 DEF Saved
        <3>2. CASE mem[k] # 0
            <4>1. snaps'[t] = Append(snaps[t], r)
                BY <2>2, <3>2
            <4> HIDE DEF r
            <4>2. /\ Len(snaps'[t]) = Len(snaps[t]) + 1 /\ Len(snaps[t]) \in Nat
                  /\ snaps'[t][Len(snaps[t]) + 1] = r
                  /\ \A i \in 1 .. Len(snaps[t]) : snaps'[t][i] = snaps[t][i]
                BY <2>3, <4>1, AppendProperties, LenProperties
            <4>3. Saved(snaps'[t], k, mem[k])
                BY <4>2 DEF Saved, r, Dumped!Record
            <4>4. ASSUME NEW w, NEW j, Saved(snaps[t], j, w) PROVE Saved(snaps'[t], j, w)
                <5>1. PICK i \in 1 .. Len(snaps[t]) : snaps[t][i] = Dumped!Record(j, w)
                    BY <4>4 DEF Saved
                <5>2. i \in 1 .. Len(snaps'[t]) /\ snaps'[t][i] = Dumped!Record(j, w)
                    BY <4>2, <5>1
                <5> QED BY <5>2 DEF Saved, Dumped!Record
            <4> QED BY <4>3, <4>4
        <3> QED BY <3>1, <3>2
    <2>5. ASSUME NEW j \in Dumped!Names, j <= k PROVE Kept(d, j)'
        <3>1. j < k \/ j = k
            BY <2>2, <2>5, DumpAssumption DEF Dumped!Names
        <3>2. CASE j < k
            <4>1. Kept(d, j)
                BY <3>2 DEF RaceInv
            <4>2. Saved(snaps[t], j, mem[j]) => Saved(snaps'[t], j, mem[j])
                BY <2>4
            <4> QED BY <2>2, <4>1, <4>2 DEF Kept, Saved, Dumped!Record
        <3>3. CASE j = k
            BY <2>2, <2>4, <3>3 DEF Kept
        <3> QED BY <3>1, <3>2, <3>3
    <2>6. /\ next'[d] = k + 1 /\ pc'[d] \in {"create", "collect"}
          /\ pc'[d] = "create" => k = Shards
        BY DEF DumpInv, DumpTypes
    <2>7. /\ \A j \in Dumped!Names : j < k + 1 => j <= k
          /\ k = Shards => \A j \in Dumped!Names : j <= k
        BY <2>2, DumpAssumption DEF Dumped!Names
    <2> QED BY <2>1, <2>5, <2>6, <2>7, DumpStepRace DEF OneDumper
<1> QED BY <1>1, <1>2

\* A dump in progress writes to a file that is not the visible one.
LEMMA FileRace ==
    ASSUME OneDumper, DumpInv, RaceInv, NEW d \in Dumpers,
           Dumped!Create(d) \/ Dumped!Write(d)
    PROVE  RaceInv'
<1>1. /\ UNCHANGED <<mem, raced, changes, counting, writes, dumperUp, dump, snaps, path>>
      /\ pc[d] \in {"create", "write"} /\ pc'[d] \in {"write", "rename"}
    BY DEF Dumped!Create, Dumped!Write, Dumped!cacheVars, DumpInv, DumpTypes
<1>2. \E i \in Dumped!Inodes : i # path /\ \E c : content' = [content EXCEPT ![i] = c]
    <2>1. CASE Dumped!Create(d)
        BY <2>1, InodesArePositive DEF Dumped!Create, DumpInv
    <2>2. CASE Dumped!Write(d)
        <3>1. handle[d] = tmp /\ tmp # 0 /\ tmp # path /\ tmp \in Dumped!Inodes
            BY <2>2 DEF Dumped!Write, DumpInv, DumpTypes, Progress
        <3> QED BY <2>2, <3>1 DEF Dumped!Write
    <2> QED BY <2>1, <2>2
<1>3. path # 0 => content'[path] = content[path]
    BY <1>2 DEF DumpInv, DumpTypes
<1>4. Dumped!OnDisk' = Dumped!OnDisk
    BY <1>1, <1>3, SameDisk
<1>5. \A k \in Dumped!Names : Kept(d, k)'
    BY <1>1 DEF RaceInv, Kept
<1> QED BY <1>1, <1>4, <1>5, DumpStepRace DEF OneDumper

\* The rename makes visible what the dump collected.
LEMMA RenameRace ==
    ASSUME OneDumper, DumpInv, RaceInv, NEW d \in Dumpers, Dumped!Rename(d)
    PROVE  RaceInv'
<1> USE DEF Dumped!Rename
<1>1. /\ UNCHANGED <<mem, raced, changes, counting, writes, dump, snaps>>
      /\ pc[d] = "rename" /\ pc'[d] = "reset"
    BY DEF Dumped!cacheVars, DumpInv, DumpTypes
<1>2. /\ path' # 0 /\ content'[path'] = Dumped!Encoded(dump[d])
      /\ dump[d] \in 1 .. Len(snaps)
    BY LenProperties DEF DumpInv, DumpTypes, Progress, Dumping
<1>3. Dumped!OnDisk' = Dumped!Loaded(Dumped!Encoded(dump[d]))
    BY <1>2 DEF Dumped!OnDisk
<1>4. ASSUME NEW k \in Dumped!Names PROVE Visible(k)'
    <2>1. Kept(d, k)
        BY <1>1 DEF RaceInv
    <2>2. Saved(snaps[dump[d]], k, mem[k]) => mem[k] = Dumped!OnDisk'[k]
        BY <1>2, <1>3, LoadedDump DEF DumpInv
    <2> QED BY <1>1, <2>1, <2>2 DEF Kept, Visible
<1> QED BY <1>1, <1>4, DumpConstants DEF OneDumper, RaceInv

LEMMA ReturnRace ==
    ASSUME OneDumper, DumpInv, RaceInv, NEW d \in Dumpers,
           Dumped!ResetChanges(d) \/ Dumped!DumpFails(d)
    PROVE  RaceInv'
<1> USE DEF Dumped!ResetChanges, Dumped!DumpFails, Dumped!Return, Dumped!fileVars,
        Dumped!cacheVars
<1>1. pc'[d] \in {"idle", "done"}
    BY DEF DumpInv, DumpTypes
<1>2. Dumped!OnDisk' = Dumped!OnDisk
    BY SameDisk
<1>3. /\ UNCHANGED <<mem, raced, counting, writes, dumperUp>>
      /\ pc[d] = "reset" \/ changes' = changes
    OBVIOUS
<1>4. \A k \in Dumped!Names : Visible(k)' <=> Visible(k)
    BY <1>2, <1>3 DEF Visible
<1>5. dumperUp' /\ changes' = 0 =>
        \A k \in Dumped!Names : Visible(k)' \/ (counting' /\ mem'[k] = writes')
    BY <1>3, <1>4 DEF RaceInv
<1> QED BY <1>1, <1>5, DumpConstants DEF OneDumper, RaceInv

LEMMA ProcessRace ==
    ASSUME DumpInv, RaceInv,
           Dumped!Crash \/ Dumped!Restart \/ UNCHANGED Dumped!vars
    PROVE  RaceInv'
<1>1. Dumped!OnDisk' = Dumped!OnDisk
    BY SameDisk DEF Dumped!Crash, Dumped!Restart, Dumped!vars, Dumped!fileVars
<1>2. CASE Dumped!Crash
    <2>1. ~dumperUp' /\ \A d \in Dumpers : pc'[d] = "idle"
        BY <1>2 DEF Dumped!Crash
    <2> QED BY <2>1 DEF RaceInv
<1>3. CASE Dumped!Restart
    <2>1. \A d \in Dumpers : pc'[d] \notin {"collect", "create", "write", "rename", "reset"}
        BY <1>3 DEF Dumped!Restart, Dumped!dumpVars, DumpInv, Progress, Dumping
    <2>2. \A k \in Dumped!Names : Visible(k)'
        BY <1>1, <1>3 DEF Dumped!Restart, Visible
    <2> QED BY <2>1, <2>2, DumpConstants DEF RaceInv
<1>4. CASE UNCHANGED Dumped!vars
    <2>1. UNCHANGED <<dumperUp, mem, counting, changes, writes, raced, pc, dump, next, snaps>>
        BY <1>4 DEF Dumped!vars, Dumped!cacheVars, Dumped!dumpVars
    <2>2. \A k \in Dumped!Names : Visible(k)' <=> Visible(k)
        BY <1>1, <2>1 DEF Visible
    <2>3. \A k \in Dumped!Names, d \in Dumpers : Kept(d, k)' <=> Kept(d, k)
        BY <2>1 DEF Kept
    <2> QED BY <2>1, <2>2, <2>3, DumpConstants DEF RaceInv
<1> QED BY <1>2, <1>3, <1>4

LEMMA RaceNextInv ==
    ASSUME OneDumper, DumpInv, RaceInv, [Dumped!Next]_(Dumped!vars)
    PROVE  RaceInv'
BY StoreRace, CountDropRace, CollectRace, FileRace, RenameRace, ReturnRace, ProcessRace
DEF Dumped!Next

LEMMA RaceInvCounted == RaceInv => Dumped!OnlyRacedUncounted
<1> SUFFICES ASSUME RaceInv, dumperUp, changes = 0, ~counting, NEW k \in Dumped!Names
             PROVE  mem[k] \in {0, Dumped!OnDisk[k]} \cup raced
    BY DEF Dumped!OnlyRacedUncounted
<1>1. Visible(k)
    BY DEF RaceInv
<1> QED BY <1>1 DEF Visible

\* With one task dumping, a write that is neither on disk nor counted as a
\* change is one that raced with a dump: a failed, interrupted or lost dump
\* never makes the counter forget anything else.
THEOREM OnlyRacesAreUncounted == OneDumper /\ CacheSpec => []OnlyRacedUncounted
<1> DEFINE I == OneDumper /\ DumpInv /\ RaceInv
<1>1. OneDumper /\ CacheInit => I
    <2>1. Dumped!Init => RaceInv
        BY DEF Dumped!Init, RaceInv, Visible
    <2> QED BY <2>1, DumpInitInv DEF CacheInit
<1>2. I /\ [LifetimesMove \/ DumpsMove]_<<part, vars, dumpVars>> => I'
    BY CacheSpecDumps, DumpNextInv, RaceNextInv DEF OneDumper
<1>3. I => OnlyRacedUncounted
    BY RaceInvCounted DEF OnlyRacedUncounted
<1> QED BY <1>1, <1>2, <1>3, PTL DEF CacheSpec

\* The lifetimes hold in the composed specification too.
THEOREM CacheLifetimes == CacheSpec => [](TtlHonest /\ AgeBounded)
<1>1. CacheInit => CacheInv
    BY CacheInitInv DEF CacheInit
<1>2. CacheInv /\ [LifetimesMove \/ DumpsMove]_<<part, vars, dumpVars>> => CacheInv'
    <2>1. [LifetimesMove \/ DumpsMove]_<<part, vars, dumpVars>> => [Next]_vars
        BY DEF LifetimesMove, DumpsMove
    <2> QED BY <2>1, CacheNextInv
<1> QED BY <1>1, <1>2, CacheInvHonest, PTL DEF CacheSpec
=============================================================================
