------------------------------ MODULE Metrics ------------------------------
(***************************************************************************)
(* The metrics of the web interface: MetricsCollector with its time        *)
(* series, its tables of the most frequent domains and clients, and its    *)
(* latency distribution.  One task feeds it from the bus of audit events;  *)
(* the requests of the dashboard read it.  Each table has a lock of its    *)
(* own and each counter is an atomic, so that feeding and reading take     *)
(* several steps.  Also the sampling of the process memory for the         *)
(* exporter.  Clearing the metrics is left out: nothing but a test does.   *)
(*                                                                         *)
(* Time is in seconds, latency in milliseconds.  The history of the        *)
(* entries is kept to say what the metrics should show.                    *)
(***************************************************************************)
EXTENDS Integers, Sequences, FiniteSets, SequencesExt

CONSTANTS Entries,        \* query log entries that can arrive
          Keys,           \* their domains and clients
          top_n,          \* size of the lists
          prune_factor,   \* how many times top_n a table holds: 10 in the code
          window_secs,    \* the window of the time series
          bucket_secs,    \* the length of its buckets
          max_samples,    \* latencies kept for the percentiles: 10000 in the code
          remove_count,   \* how many go when they are full: 1000 in the code
          Systems,        \* where the process may be running
          MaxNow, MaxEntries   \* bounds

VARIABLES now,
          qps,            \* the time series: a sequence of buckets
          domains,        \* top_domains: a function from the domains kept
          clients,        \* top_clients
          latency,        \* [buckets, samples]
          counters,       \* the atomic counters
          gauges,         \* the gauges of the process memory, and whose memory it is
          todo,           \* the steps the task has still to do for the last entry
          asked,          \* the total that an overview has loaded, and what came since
          history         \* the entries, with the times at which they counted

tables == <<qps, domains, clients, latency, counters>>
vars == <<now, tables, gauges, todo, asked, history>>

Nobody == "nobody"
NoLatency == -1
Unknown == "unknown"

-----------------------------------------------------------------------------
(* TimeSeries.                                                             *)

BucketStart(t) == (t \div bucket_secs) * bucket_secs

NewBucket(t, v) == [timestamp |-> t, sum |-> v, count |-> 1, min |-> v, max |-> v]
AddToBucket(b, v) == [b EXCEPT !.sum = @ + v, !.count = @ + 1,
                               !.min = IF v < @ THEN v ELSE @, !.max = IF v > @ THEN v ELSE @]

\* saturating_sub
Cutoff(t) == IF BucketStart(t) > window_secs THEN BucketStart(t) - window_secs ELSE 0

\* cleanup_locked: old buckets are taken from the front.
Cleanup(s, t) ==
  IF \A i \in 1..Len(s) : s[i].timestamp < Cutoff(t) THEN <<>>
  ELSE SubSeq(s, CHOOSE i \in 1..Len(s) : /\ s[i].timestamp >= Cutoff(t)
                                           /\ \A j \in 1..(i - 1) : s[j].timestamp < Cutoff(t), Len(s))

AddValue(s, t, v) ==
  LET c == Cleanup(s, t) IN
  IF c # <<>> /\ Last(c).timestamp = BucketStart(t)
  THEN [c EXCEPT ![Len(c)] = AddToBucket(@, v)]
  ELSE Append(c, NewBucket(BucketStart(t), v))

\* Mutant: reads rely on the clean-up of the writes.
InWindowAll(s, t) == s

\* points, averages, sum and count read the buckets inside the window.
InWindow(s, t) == SelectSeq(s, LAMBDA b : b.timestamp >= Cutoff(t))

SumOf(s) == FoldLeft(LAMBDA acc, b : acc + b.sum, 0, s)
CountOf(s) == FoldLeft(LAMBDA acc, b : acc + b.count, 0, s)

\* stats: over the window; all zero when there is nothing in it.
Stats(s, t) ==
  LET w == InWindow(s, t) IN
  IF w = <<>> THEN [min |-> 0, max |-> 0, sum |-> 0, count |-> 0]
  ELSE [min |-> (CHOOSE b \in ToSet(w) : \A c \in ToSet(w) : b.min <= c.min).min,
        max |-> (CHOOSE b \in ToSet(w) : \A c \in ToSet(w) : b.max >= c.max).max,
        sum |-> SumOf(w), count |-> CountOf(w)]

\* rate: the divisor is the age of the series, from one second to the window.
RateDivisor(t) == IF t < 1 THEN 1 ELSE IF t > window_secs THEN window_secs ELSE t

-----------------------------------------------------------------------------
(* TopN.                                                                   *)

MaxItems == top_n * prune_factor

\* The counts, in descending order, with repetitions.
Descending(counts) ==
  LET rank == SetToSortSeq(DOMAIN counts, LAMBDA a, b : counts[a] > counts[b]) IN
  [i \in 1..Len(rank) |-> counts[rank[i]]]

\* prune_locked: what is not above the count at the index 2n is forgotten.
Prune(counts) ==
  IF Cardinality(DOMAIN counts) <= top_n * 2 THEN counts
  ELSE LET threshold == Descending(counts)[top_n * 2 + 1] IN
       [k \in {j \in DOMAIN counts : counts[j] > threshold} |-> counts[k]]

\* TopN::add and, for a table of counts, merge.
AddCounts(counts, more) ==
  LET old(k) == IF k \in DOMAIN counts THEN counts[k] ELSE 0
      new == [k \in DOMAIN counts \union DOMAIN more |-> old(k) + (IF k \in DOMAIN more THEN more[k] ELSE 0)] IN
  IF Cardinality(DOMAIN new) > MaxItems THEN Prune(new) ELSE new

Increment(counts, key) == AddCounts(counts, [k \in {key} |-> 1])

\* top: the keys of a list that may be given, ties being in any order.
Top(counts) ==
  {s \in UNION {[1..n -> DOMAIN counts] : n \in {IF Cardinality(DOMAIN counts) < top_n
                                                   THEN Cardinality(DOMAIN counts) ELSE top_n}} :
     /\ \A i, j \in DOMAIN s : s[i] = s[j] => i = j
     /\ \A i, j \in DOMAIN s : i < j => counts[s[i]] >= counts[s[j]]
     /\ \A k \in DOMAIN counts : (\A i \in DOMAIN s : s[i] # k) => \A i \in DOMAIN s : counts[s[i]] >= counts[k]}

-----------------------------------------------------------------------------
(* LatencyDistribution.                                                    *)

Bounds == <<1, 10, 50, 100, 500, 1000>>
BucketIndex(ms) ==
  IF \A i \in 1..6 : ms >= Bounds[i] THEN 7
  ELSE CHOOSE i \in 1..6 : ms < Bounds[i] /\ \A j \in 1..(i - 1) : ms >= Bounds[j]

\* When the samples are full the oldest go first.
AddLatency(d, ms) ==
  [buckets |-> [d.buckets EXCEPT ![BucketIndex(ms)] = @ + 1],
   samples |-> Append(IF Len(d.samples) >= max_samples
                      THEN SubSeq(d.samples, remove_count + 1, Len(d.samples))
                      ELSE d.samples, ms)]

\* percentile: the index is rounded to the nearest.
Percentile(samples, p) ==
  IF samples = <<>> THEN 0
  ELSE LET sorted == SortSeq(samples, <)
           i == (2 * (Len(samples) - 1) * p + 100) \div 200 IN
       sorted[IF i + 1 > Len(sorted) THEN Len(sorted) ELSE i + 1]

\* distribution: the snapshot a reader gets.
Distribution(d) ==
  [total |-> FoldLeft(+, 0, d.buckets),
   p50 |-> Percentile(d.samples, 50), p95 |-> Percentile(d.samples, 95), p99 |-> Percentile(d.samples, 99),
   max |-> Percentile(d.samples, 100)]

-----------------------------------------------------------------------------
(* MetricsCollector.                                                       *)

EmptyCounts == [k \in {} |-> 0]
NoLatencies == [buckets |-> [i \in 1..7 |-> 0], samples |-> <<>>]
NoCounters == [total |-> 0, hits |-> 0, misses |-> 0, errors |-> 0, blocked |-> 0]
NoMemory == [rss |-> 0, cgroup |-> 0, limit |-> 0, of |-> "nothing"]

\* The steps of process_query, each a lock or an atomic of its own; no reader
\* compares those that the last one stands for.
ProcessSteps == <<"total", "qps", "tables">>
NotAsked == [total |-> -1, more |-> 0]

Init ==
  /\ now = 0 /\ qps = <<>> /\ domains = EmptyCounts /\ clients = EmptyCounts
  /\ latency = NoLatencies /\ counters = NoCounters /\ gauges = NoMemory
  /\ todo = <<>> /\ asked = NotAsked /\ history = <<>>

If(b) == IF b THEN 1 ELSE 0

\* process_query begins, with the tracking of domains, clients and latency enabled.
CountTotal(e) ==
  /\ todo = <<>> /\ Len(history) < MaxEntries /\ todo' = Tail(ProcessSteps)
  /\ counters' = [counters EXCEPT !.total = @ + 1]
  /\ history' = Append(history, [entry |-> e, at |-> now])
  /\ asked' = IF asked = NotAsked THEN asked ELSE [asked EXCEPT !.more = @ + 1]
  /\ UNCHANGED <<now, qps, domains, clients, latency, gauges>>

CountQps ==
  /\ todo # <<>> /\ Head(todo) = "qps" /\ todo' = Tail(todo)
  /\ qps' = AddValue(qps, now, 1) /\ history' = [history EXCEPT ![Len(history)].at = now]
  /\ UNCHANGED <<now, domains, clients, latency, counters, gauges, asked>>

IsError(e) == e.rcode \notin {Unknown, "NOERROR", "NXDOMAIN"}
CountTables ==
  LET e == Last(history).entry IN
  /\ todo # <<>> /\ Head(todo) = "tables" /\ todo' = Tail(todo)
  /\ domains' = Increment(domains, e.domain)
  /\ clients' = IF e.client = Nobody THEN clients ELSE Increment(clients, e.client)
  /\ latency' = IF e.latency = NoLatency THEN latency ELSE AddLatency(latency, e.latency)
  /\ counters' = [counters EXCEPT !.hits = @ + If(e.cached = "hit"), !.misses = @ + If(e.cached = "miss"),
                                  !.errors = @ + If(IsError(e))]
  /\ UNCHANGED <<now, qps, gauges, asked, history>>

Tick == now < MaxNow /\ now' = now + 1 /\ UNCHANGED <<tables, gauges, todo, asked, history>>

\* get_overview loads the total first; the other counters, the series and the tables
\* are read after it, each at a moment of its own.
LoadTotal ==
  /\ asked = NotAsked /\ asked' = [total |-> counters.total, more |-> 0]
  /\ UNCHANGED <<now, tables, gauges, todo, history>>
Overview ==
  [total_queries |-> asked.total, queries |-> SumOf(InWindow(qps, now)), over |-> RateDivisor(now),
   cache_hits |-> counters.hits, cache_misses |-> counters.misses, error_responses |-> counters.errors,
   unique_domains |-> Cardinality(DOMAIN domains), unique_clients |-> Cardinality(DOMAIN clients)]
Shows ==
  /\ asked # NotAsked /\ asked' = NotAsked
  /\ UNCHANGED <<now, tables, gauges, todo, history>>

-----------------------------------------------------------------------------
(* The memory of the process.  The system around it: in a container or     *)
(* not, the version of the cgroups, the path of the process's own, and     *)
(* what the files hold.                                                    *)

Unlimited == 0
Unreadable == -1
AllSystems ==
  [container : BOOLEAN, version : {"v1", "v2", "none"}, path : {"/", "/own"}, usage : {2, Unreadable},
   limit : {3, Unlimited}, rss : {1, Unreadable}]

\* detect_cgroup_version looks at the root of the mount, where a host with
\* cgroups v2 has no memory.current.
Detected(s) == s.version = "v1" \/ (s.version = "v2" /\ s.container)

\* own_cgroup_dir: the root is the container's own, on a host it is the machine's.
OwnCgroup(s) == s.version # "none" /\ (s.path = "/" => s.container)

\* read_cgroup_memory.
ReadCgroup(s) == OwnCgroup(s) /\ s.usage # Unreadable

\* collect_memory_metrics: one sample of the collector's task.
CollectMemory(s) ==
  /\ gauges' = [gauges EXCEPT
       !.cgroup = IF Detected(s) /\ ReadCgroup(s) THEN s.usage ELSE @,
       !.limit = IF Detected(s) /\ ReadCgroup(s) THEN s.limit ELSE @,
       !.of = IF ~(Detected(s) /\ ReadCgroup(s)) THEN @
              ELSE IF s.path = "/" /\ ~s.container THEN "machine" ELSE "process",
       !.rss = IF s.rss # Unreadable THEN s.rss ELSE @]
  /\ UNCHANGED <<now, tables, todo, asked, history>>

\* The system does not change while the process runs: one sample stands for all.
MemorySampled == gauges = NoMemory /\ history = <<>> /\ now = 0 /\ \E s \in Systems : CollectMemory(s)

\* run: the entries of the subscription, one after another.  Without a bus the
\* task ends at once.
Run == (\E e \in Entries : CountTotal(e)) \/ CountQps \/ CountTables

Next == Run \/ LoadTotal \/ Shows \/ Tick \/ MemorySampled

Spec == Init /\ [][Next]_vars

-----------------------------------------------------------------------------
(* Properties.                                                             *)

\* The entries that have counted in the series, and in the tables.
InSeries == IF todo = Tail(ProcessSteps) THEN Front(history) ELSE history
InTables == IF todo = <<>> THEN history ELSE Front(history)

Recent == SelectSeq(InSeries, LAMBDA h : BucketStart(h.at) >= Cutoff(now))
Timed == SelectSeq(InTables, LAMBDA h : h.entry.latency # NoLatency)
NumberOf(Is(_)) == Len(SelectSeq(InTables, LAMBDA h : Is(h.entry)))

\* A table never shows more of a key than came, and shows all of it
\* as long as no key had to be forgotten; it stays within its bound.
TopNeverOver ==
  \A t \in {[c |-> domains, seen |-> [k \in Keys |-> NumberOf(LAMBDA e : e.domain = k)]],
            [c |-> clients, seen |-> [k \in Keys |-> NumberOf(LAMBDA e : e.client = k)]]} :
    /\ Cardinality(DOMAIN t.c) <= MaxItems
    /\ \A k \in DOMAIN t.c : t.c[k] <= t.seen[k]
    /\ Cardinality({k \in Keys : t.seen[k] > 0}) <= MaxItems =>
         \A k \in Keys : t.seen[k] > 0 => k \in DOMAIN t.c /\ t.c[k] = t.seen[k]

\* MetricsExact: the rate shown is made of exactly the queries inside the window,
\* also when traffic has stopped and nothing cleans up the series; the counters, the
\* distribution and the tables count every query once; an overview, put together
\* while queries come, never shows more recent queries than the total it loaded first
\* and those that came since; the memory of a host is never shown as that of the
\* process (collector.rs, timeseries.rs, top_n.rs).
MetricsExact ==
  /\ gauges.of # "machine"
  /\ Stats(qps, now).sum = Len(Recent) /\ Stats(qps, now).count = Len(Recent)
  /\ counters.total = Len(history) /\ counters.errors = NumberOf(IsError)
  /\ counters.hits = NumberOf(LAMBDA e : e.cached = "hit")
  /\ counters.misses = NumberOf(LAMBDA e : e.cached = "miss")
  /\ asked # NotAsked => Overview.queries <= Overview.total_queries + asked.more
  /\ Distribution(latency).total = Len(Timed)
  /\ Len(latency.samples) <= max_samples
  /\ latency.samples # <<>> =>
       /\ \E i \in 1..Len(Timed) : Timed[i].entry.latency = Distribution(latency).p95
       /\ Distribution(latency).p50 <= Distribution(latency).p95
       /\ Distribution(latency).p95 <= Distribution(latency).max
  /\ TopNeverOver
=============================================================================
