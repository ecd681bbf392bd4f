----------------------------- MODULE ShardedLru -----------------------------
(***************************************************************************)
(* The sharded LRU map of the cache plugin                                 *)
(* (src/src/plugins/cache/sharded.rs) with CachePlugin::store on top of it *)
(* (mod.rs).                                                               *)
(*                                                                         *)
(* A shard is the sequence of its entries, most recently used first, which *)
(* is what the lru crate's LruCache promises.  Each shard has a lock, so   *)
(* an operation on one shard is a step; store looks a key up and pushes it *)
(* in two steps.  A key stands for its hash: keys with equal low bits      *)
(* share a shard.                                                          *)
(***************************************************************************)
EXTENDS Integers, Sequences, FiniteSets

CONSTANTS
    SHARDS,      \* the code's constant, 16 there
    Capacity,    \* the configured capacity
    Hashes,      \* hashes of the keys in use
    Writers,     \* threads that store
    NoKey,       \* a writer's key while it is not storing
    MaxWrites    \* bound on stores

VARIABLES
    shard,       \* index -> entries, most recently used first
    writerKey,   \* the key each writer stores
    keyExists,   \* what contains told it
    evictions,   \* stats.evictions
    writes,      \* number of pushes so far
    latest,      \* history: the number of the last push of each key
    newer        \* history: pairs of keys, the first used more recently

vars == <<shard, writerKey, keyExists, evictions, writes, latest, newer>>
history == <<latest, newer>>
writerVars == <<writerKey, keyExists>>

-----------------------------------------------------------------------------

\* ShardedLruCache::new.
capacity == IF Capacity = 0 THEN 1 ELSE Capacity
shard_count == IF SHARDS < capacity THEN SHARDS ELSE capacity
Indices == 0 .. shard_count - 1
Cap(i) == capacity \div shard_count + (IF i < capacity % shard_count THEN 1 ELSE 0)
mask == shard_count - 1

\* h & m, for a mask of at most four bits.
And(h, m) ==
    LET bit(n, b) == (n \div b) % 2
        both(b) == b * bit(h, b) * bit(m, b)
    IN  both(1) + both(2) + both(4) + both(8)

\* shard_for.
ShardOf(k) == And(k, mask)

Entry(k, w) == [key |-> k, write |-> w]
KeysIn(s) == { s[i].key : i \in 1 .. Len(s) }
At(s, k) == CHOOSE n \in 1 .. Len(s) : s[n].key = k

\* LruCache::pop takes the entry of k out.
Without(s, k) == SubSeq(s, 1, At(s, k) - 1) \o SubSeq(s, At(s, k) + 1, Len(s))

\* LruCache::get moves the entry of k to the front.
Touched(s, k) == <<s[At(s, k)]>> \o Without(s, k)

\* LruCache::push: a new value for a key of the map, or a new key, which
\* drives out the last entry of a full map.
Pushed(s, e, cap) ==
    <<e>> \o (IF e.key \in KeysIn(s) THEN Without(s, e.key)
              ELSE IF Len(s) >= cap THEN SubSeq(s, 1, Len(s) - 1) ELSE s)

\* push returns Some: an entry was replaced or driven out.
PushReturns(s, e, cap) == e.key \in KeysIn(s) \/ Len(s) >= cap

\* The ways to choose m places out of n, in their order.
Choices(m, n) ==
    { f \in [1 .. m -> 1 .. n] : \A i, j \in 1 .. m : i < j => f[i] < f[j] }

\* History: k is the key used last.
UsedNow(k) ==
    newer' = { p \in newer : p[1] # k /\ p[2] # k } \cup ({k} \X (Hashes \ {k}))

Init ==
    /\ shard = [i \in Indices |-> <<>>]
    /\ writerKey = [w \in Writers |-> NoKey]
    /\ keyExists = [w \in Writers |-> FALSE]
    /\ evictions = 0
    /\ writes = 0
    /\ latest = [k \in Hashes |-> 0]
    /\ newer = {}

-----------------------------------------------------------------------------

\* Mutant of Get: no recency update.
GetPeeks(k) ==
    /\ k \in KeysIn(shard[ShardOf(k)])
    /\ UsedNow(k)
    /\ UNCHANGED <<shard, writerVars, evictions, writes, latest>>

\* get: a lookup with recency update.
Get(k) ==
    /\ k \in KeysIn(shard[ShardOf(k)])
    /\ shard' = [shard EXCEPT ![ShardOf(k)] = Touched(@, k)]
    /\ UsedNow(k)
    /\ UNCHANGED <<writerVars, evictions, writes, latest>>

\* store, first step: contains, under the shared lock.
Contains(w, k) ==
    /\ writerKey[w] = NoKey
    /\ writerKey' = [writerKey EXCEPT ![w] = k]
    /\ keyExists' = [keyExists EXCEPT ![w] = k \in KeysIn(shard[ShardOf(k)])]
    /\ UNCHANGED <<shard, evictions, writes, history>>

\* store, second step: push, and record_eviction when push returned an entry
\* and contains had not seen the key.
Push(w) ==
    LET k == writerKey[w]
        i == ShardOf(k)
        e == Entry(k, writes + 1)
    IN
    /\ k # NoKey
    /\ writes < MaxWrites
    /\ writes' = writes + 1
    /\ shard' = [shard EXCEPT ![i] = Pushed(@, e, Cap(i))]
    /\ evictions' = IF PushReturns(shard[i], e, Cap(i)) /\ ~keyExists[w]
                    THEN evictions + 1 ELSE evictions
    /\ latest' = [latest EXCEPT ![k] = writes']
    /\ UsedNow(k)
    /\ writerKey' = [writerKey EXCEPT ![w] = NoKey]
    /\ UNCHANGED keyExists

\* pop, by a lookup that found the entry expired.
Pop(k) ==
    /\ k \in KeysIn(shard[ShardOf(k)])
    /\ shard' = [shard EXCEPT ![ShardOf(k)] = Without(@, k)]
    /\ UNCHANGED <<writerVars, evictions, writes, history>>

\* retain on one shard, under its lock: the expired entries go, whichever they
\* are, and m entries stay in their order.
Retain(i, m) ==
    /\ m <= Len(shard[i])
    /\ \E f \in Choices(m, Len(shard[i])) :
          shard' = [shard EXCEPT ![i] = [n \in 1 .. m |-> shard[i][f[n]]]]
    /\ UNCHANGED <<writerVars, evictions, writes, history>>

\* clear, one shard.
Clear(i) ==
    /\ shard[i] # <<>>
    /\ shard' = [shard EXCEPT ![i] = <<>>]
    /\ UNCHANGED <<writerVars, evictions, writes, history>>

Next ==
    \/ \E k \in Hashes : Get(k) \/ Pop(k) \/ \E w \in Writers : Contains(w, k)
    \/ \E w \in Writers : Push(w)
    \/ \E i \in Indices : Clear(i) \/ \E m \in 0 .. Cap(i) : Retain(i, m)

Spec == Init /\ [][Next]_vars

-----------------------------------------------------------------------------
(* Properties *)

\* len() never exceeds the configured capacity, although it adds the lengths
\* of shards that change meanwhile: no shard exceeds its part of it.
SizeBounded ==
    /\ \A i \in Indices : Len(shard[i]) <= Cap(i)
    /\ Cardinality({ p \in Indices \X (1 .. capacity) : p[2] <= Cap(p[1]) }) = capacity

\* A lookup finds what was stored last for a key, in one place.
LatestWins ==
    \A i \in Indices : \A n \in 1 .. Len(shard[i]) :
        /\ shard[i][n].write = latest[shard[i][n].key]
        /\ ShardOf(shard[i][n].key) = i
        /\ \A m \in 1 .. Len(shard[i]) : m # n => shard[i][m].key # shard[i][n].key

\* Every shard is ordered by the last use of its keys, so that a full one
\* drives out the key that was not used for the longest time.
RecencyOrdered ==
    \A i \in Indices : \A n, m \in 1 .. Len(shard[i]) : n < m =>
        <<shard[i][n].key, shard[i][m].key>> \in newer

\* MapCoherent: through every interleaving of the steps of push, get, peek and pop
\* on the shards, the three together.
MapCoherent == SizeBounded /\ LatestWins /\ RecencyOrdered
=============================================================================
