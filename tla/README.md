# lazydns: a TLA+ model

lazydns is a DNS server whose behaviour is put together from plugins: servers
(UDP, TCP, DoT, DoH, DoQ) hand each query to an entry sequence, which runs
plugins (cache, forward, rate limiter, flow control, data sets, ...) over a
shared request context until there is a response. Tokio runs everything
concurrently: one task per request, worker pools, background tasks, a
multiplexed upstream socket.

The modules here model the parts in which that concurrency, the failures and
the bounds make correctness hard to test, check them with TLC on small
instances, and prove the central invariants with TLAPS for all instances. Paths
below are relative to `src/src/`.

## 1. The system

| Component | State it keeps | Operations | What makes it correct |
|---|---|---|---|
| Refresh coordinator (`utils/task_queue/`) | bounded channel, set `processing`, workers, statistics | `enqueue`, `worker_loop`, `shutdown` | one owner per key, no task lost, no key locked for ever, shutdown drains and ends |
| Cache: background refresh (`plugins/cache/mod.rs`) | `refreshing_keys`, the coordinator behind a mutex | `spawn_background_refresh`, `on_complete`, `shutdown` | at most one refresh per key, none skipped, no leaked key |
| Cache: lookup and TTL (`plugins/cache/mod.rs`, `entry.rs`) | entries with TTL, stale window and time of storing | `execute`, store phase, clean-up | no answer promises more than its TTL, none older than allowed |
| Cache: dump (`plugins/cache/persistence.rs`) | dump file, temporary file, `changes_since_dump` | dump, restore | the file is always one complete dump |
| Cache: LRU map (`plugins/cache/sharded.rs`) | shards in recency order | `get`, `push`, `pop`, `retain`, `clear` | bounded, one value per key, the newest one, LRU order |
| Forward: UDP multiplexer (`plugins/forward/engine.rs`) | query id counter, pending table, one socket per upstream | send, `read_loop`, timeout, abort | an answer reaches its own query only; ids are released |
| Forward: selection (`plugins/forward/mod.rs`, `types.rs`) | health counters, round-robin counter | race, sequential attempts, strategies | every upstream is tried, every query ends |
| Builder (`plugin/builder.rs`) | registry of plugins by name | `build`, `resolve_references` | every reference reaches the plugin that was configured |
| Flow (`plugins/executable/sequence.rs`, `fallback.rs`, `plugins/flow/`, `plugin/mod.rs`) | marks in the request context, the response | step, jump, goto, return, accept, reject, fallback, store phase | marks stay in their sequence, errors reach the client, a request ends |
| Servers, launcher, `main` (`server/`, `main.rs`) | permits, join handles, shutdown bus | accept, read, handle, write, drain, wait | requests drain before plugins stop, no permit is pinned, shutdown ends |
| Rate limiter (`plugins/executable/ratelimit.rs`) | window per client | `should_limit`, `cleanup` | a bound on what passes in any span |
| Event bus and alerts (`plugins/audit/event_bus.rs`, `web/alerts/engine.rs`) | ring of events, positions of subscribers, alerts | publish, receive, aggregate, notify | losses are counted, alerts stay bounded |
| Configuration (`config/`, `web/config.rs`) | the shared configuration | load with includes and variables, override of arguments, validate, reload | what is in use is valid; a variable changes what it names and nothing else |
| File watcher and data sets (`utils/mod.rs`, `plugins/dataset/`, `plugins/geo*.rs`) | watched paths, pending marks, rules being served | event, debounce, re-watch, reload; match | the last change of a file is served; matching respects labels and bits |
| Cron and downloader (`plugins/cron.rs`, `plugins/executable/downloader.rs`) | jobs, temporary and final files | trigger, fetch, write, rename, retry | a rule file is a whole download |
| Reverse lookup, domain validator (`plugins/executable/reverse_lookup.rs`, `plugins/domain_validator.rs`) | maps with expiry or LRU order | save, lookup, clean-up; validate | no expired answer; verdicts as the check says |
| Metrics (`web/metrics/`, `metrics/memory/`) | buckets, tables, samples | count, prune, read, overview | what is shown is what came inside the window |
| Web, admin, monitoring (`web/`, `server/admin.rs`, `server/monitoring.rs`) | services, connection counters, upstream registry | start, stream, socket, request, shutdown | counters match the connections; success is reported when it happened |
| Messages, exchanges, launch (`dns/`, `server/`) | | convert, limit, truncate, reply, bind | a message survives conversion; a reply fits, and answers the query |
| Rewriting plugins, conditions, address sets, access list, query log, arguments | the request context | `init`, `quick_setup`, `execute` | each does what its rule says at the edges: labels, masks, limits, orders |
| Command line, debugging plugins | | | not modelled; section 6 |

Interactions. A server task calls the plugin handler, which runs the entry
sequence and afterwards gives every cache it passed the final response to
store. A cache hit close to expiry, or a stale one, spawns a refresh: a detached
task that takes the coordinator's mutex and enqueues the key; a worker re-runs
the handler and reports back through a callback. Forward tasks share one socket
and one pending table per upstream, and are aborted when another wins the race.
`main` signals the servers through a watch channel, waits for their tasks, and
then shuts the plugins down, among them the cache, which joins its workers and
dumps. The cache's background task dumps as well. Cron starts the downloader,
whose renames the file watcher sees, whose callback reloads a data set. The audit
plugin turns a finished request into an entry on the event bus, which feeds the
metrics, the alerts and the dashboards' streams.

Hard behaviours: two critical sections where one is meant (check, then insert;
read, then remove; snapshot, then reset of a counter); state shared by aborted
tasks; answers that arrive late, twice or never; a query id that comes round;
crashes between the write calls of a dump; waits that have to be bounded during
shutdown; metadata that nested sequences share; an event that arrives while the
previous one is being served; streams that are dropped in the middle of an await. `PROJECT.json` lists each as a
hazard at its line, with the properties that cover it.

## 2. Modules

| Module | Models | Composition |
|---|---|---|
| `RefreshCoordinator` | worker pool, step by step between lock acquisitions and channel operations | |
| `SingleFlight` | abstract specification: at most one refresh per key is under way | |
| `CacheRefresh` | cache plugin's side of a refresh | extends `RefreshCoordinator`; refines `SingleFlight` |
| `CachePlugin` | lifetime of entries: lookups, refresh, expiry, restart | |
| `CacheDump` | dump and restore over a file system of names, inodes and offsets | |
| `ShardedLru` | the map under the cache | |
| `UdpMux` | query ids, pending table, network | |
| `Forward` | race, attempts, health | extends `UdpMux`; instance `MCForward` |
| `PluginBuilder` | building and resolving a configuration | |
| `PluginFlow` | a request running through the built plugins, as a stack of frames | extends `PluginBuilder`; instance `MCPluginFlow` |
| `Servers` | accept loops, connection tasks, launcher, `main`'s shutdown | |
| `RateLimit` | fixed windows per client | |
| `AuditEvents` | event bus and alert engine | |
| `MCCache` | the two side by side, for any constants | extends `CachePlugin`, instantiates `CacheDump` |
| `MCParts` | four components that share no state, for any constants | `ShardedLru`, `Servers`, `RateLimit`, `AuditEvents` |
| `FileWatcher` | watching, debouncing and reloading of rule files | |
| `Downloader` | cron jobs and downloads over temporary and final files | |
| `ReverseLookup` | map from addresses to names with racing lookups | |
| `DomainValidator` | check of a name, and its cache | |
| `ConfigData`, `ConfigLoad` | the configuration, its overrides and validation as operators; overlapping loads as processes | `ConfigLoad` extends `ConfigData` |
| `Metrics` | time series, most frequent keys, latencies, memory gauges | fed by `QueryLog` in `MCServices` |
| `WebServer` | web, admin and monitoring services | |
| `DomainData`, `AddressData`, `Conditions` | rules for names and addresses, access list, conditions | `Conditions` extends both |
| `AddressSets` | ipset, nftset and router address lists | |
| `Wire` | the two representations of a message | |
| `Rewriting` | redirect, ttl, ecs, black hole, dual selector, marks and the like | |
| `Endpoints` | listeners, certificates, exchanges of each server, client addresses | |
| `PluginArgs` | settings of forward, cache, fallback, rate limiter, collectors | |
| `QueryLog` | entries of the query log and of the collectors | |
| `Calls` | one call: an exchange, a launch, the reading of arguments, a cache key; for any constants | instances of `Endpoints` and `PluginArgs` |
| `Services` | the services around the requests, one at a time, for any constants | extends `Calls`; instances of `FileWatcher`, `Downloader`, `ReverseLookup`, `DomainValidator`, `WebServer` |
| `MCData` | one call of an operator over bounded inputs, against its reference definition | extends `Calls`; instances of `Conditions`, `AddressSets`, `Rewriting`, `Wire`, `QueryLog` |
| `MCServices` | instance of the services and the calls, with the configuration and the metrics | extends `Services` and `MCData`; instances of `ConfigLoad`, `Metrics` |
| `RefreshCoordinatorProofs`, `CacheRefreshProofs`, `UdpMuxProofs` | theorems | extend the module they are about |
| `CacheProofs`, `ForwardProofs`, `PartsProofs`, `FlowProofs`, `ServicesProofs` | theorems | extend `MCCache`, `Forward` with `UdpMuxProofs`, `MCParts`, `PluginFlow`, `Services` |

How state and actions correspond to the code. A variable has the name of the
field it stands for (`processing`, `refreshing_keys`, `changes`, `pending`,
`limits`, `pending_map` as `pending`, `sse_connections`, ...); local variables of a function that survive an
await or the release of a lock are kept per process next to a program counter
(`callerPc`, `workerPc`, `pc`). An action is what the code does between two such
points, so a function with one critical section is one action and `enqueue`,
with its insert, send and undo, is several. An object of `PluginBuilder` is
identified by the configuration entry, and the step of it, that it was made for; a
server of `Servers` has an identity, so that there may be several of a kind.
Variables whose comment says
"history" exist only for the properties. `map` in `PROJECT.json` names the lines
of every definition.

What is abstracted. Names, messages and addresses are model values; a condition
of a sequence holds or does not; a plugin that resolves a query succeeds with
some answer, fails, or has nothing to say. Time in `CachePlugin` and `RateLimit`
is a counter of seconds; timeouts elsewhere are actions that may happen at any
moment. A response in `CachePlugin` keeps the TTL of its records and whether it
carries an EDNS record, since both decide the stored lifetime. The network in
`UdpMux` may lose, delay, repeat and reorder answers. `CacheDump` keeps offsets
and inodes, since the hazard is two handles on one file; `Downloader` keeps where
the file a download has open is now, and whether it is all there.

Functions of their input are operators. Text is a sequence of tokens where its
structure matters: a name is made of labels one of which is the end of another, with
the case and the root dot it was written with; a variable's name is split at its
underscores; an address has a version and a few bits (`Width`), numbers wrap at
`Word`. A conversion is what the code does (`Lower`, `TrimDots`, `ParseYamlValue`,
`ConvertFromHickory`), also where it loses something.

## 3. Runs

Runs that pass:

- `coordinator`: arbitrary callers, two workers, a queue of one place. `OneOwner`
  (each key in `processing` is held by exactly one caller, queue place or
  worker), `NoOrphanKey`, `ShutdownDrains` (what was accepted has run, and the
  statistics account for every call).
- `cache_refresh`: the plugin with its coordinator. `OneRefresh`,
  `NeverSkipped` (a refresh the plugin starts is never refused as a duplicate),
  `KeyUnlocked`, `ShutdownReturns`, and the refinement `ImplementsSingleFlight`.
- `cache`: two racing queries, refreshes, failures, dumps, crashes and restarts
  over four seconds, without and with a stale-serving window: `TtlHonest`,
  `AgeBounded`. And one dumper, stores during a dump, I/O errors at
  every call, a crash anywhere: `DumpAtomic`, `OnlyRacedUncounted` (a change that is
  not counted was made while a dump was under way).
- `forward`: a race over two upstreams followed by attempts, or two queries that
  share the socket; three usable query ids, so that the counter comes round.
  `NoPollution`, `NoLeakedPending`, `RaceTriesAll`, `AverageInRange`, `QueryEnds`.
- `flow`: 1504 configurations (an entry sequence, a helper sequence, a fallback, a
  cache, a plugin, one that failed to build, in every order; none of them; and some
  in which one name occurs twice) are built and then serve a request. `ReferencesResolved`, `MarksScoped`, `OutcomeKept` (errors reach
  the client unless a fallback absorbs them, and the caches hold the final
  response), `RequestEnds`.
- `parts`: `ShardedLru`, `Servers`, `RateLimit` and `AuditEvents`, one at a time.
  `MapCoherent` (bounded, the latest value of a key, LRU order);
  `DrainBeforePlugins`, `ShutdownEnds` (with the return of every permit);
  `RateBounded` (in any span shorter than a window a client gets at most twice a
  window's allowance, where the first query of a window always passes);
  `DropsAccounted` (what a subscriber moved past without receiving it is counted
  in `events_dropped`), `AlertsAggregated`.
- `services`: the components of `Services`, the configuration and the metrics, one at
  a time, and the calls of `Calls` and `MCData`.
  `ReloadSettles`: once files stop changing the rules served are theirs, unless the
  file changed unwatched. `DownloadsAllOrNothing`: a rule file is incomplete only
  after two downloads to one path overlapped. `ReverseFresh`: no expired PTR
  answer, and an early loss only through the race of `reverse_lookup.rs:120`.
  `VerdictSound`: a query that is checked gets the verdict of its own name and type,
  one answered from the cache that of a check of its name really made, for whatever
  type. `ConfigSound` (valid, and overridden exactly where a variable
  points, in any order of the variables). `MetricsExact`: the window, the counters and
  the tables, and an overview put together while queries are counted. `ConnectionsCounted`:
  the counters, whether a client goes while its socket waits or while a send is
  awaited, and also for sockets that outlive the web service; a silent socket is
  dropped by the heartbeat after its time, however late that is.
  Over bounded inputs: `DomainMatchCorrect` (7200 cases of rule and name against
  the definition by labels), `AddressMatchCorrect` (networks as sets of addresses),
  `WireTransparent` (parse, convert back: the same message but for six listed losses),
  `RewriteSound`, `ExchangeSound` (a reply is whole if it fits the client's limit, and
  answers the query on every transport; in every order in which listeners may bind and
  for every choice of those the system refuses, one that could start serves, was
  refused, or met one that serves at its address), `ArgumentsSound` (cache
  settings in any combination, upstream forms, cache keys).

Runs in which the code departs from what a comment or document says:

- `cache_edns_ttl`: an answer with an EDNS record is cached for one second,
  because the minimum TTL is taken over the OPT pseudo-record too.
- `dump_at_shutdown`: the background dump and the one at shutdown share a
  temporary file, and a rename can publish a file that is half written.
- `forward_failover`: under `fastest` an upstream that has only failed keeps the
  average 0, which is preferred, so all attempts go to it.
- `flow_accept`: `accept` inside a jump target does not stop the caller.
- `flow_forward_reference`: a step that names a sequence declared later keeps an
  empty placeholder.

Bounds. Two of everything that races (keys, callers, writers, queries,
upstreams, connections) and one place where a limit is to be hit (queue, permit,
bus): the properties relate at most two processes and one shared place, and each
run reaches the full, the empty and the contended case. Query ids are four, of
which 0 is skipped, and more tasks than ids are sent, so that the counter wraps.
`MaxCalls`, `MaxTasks`, `MaxWrites`, `MaxDumps`, `MaxCrashes`, `MaxEvents`,
`MaxTime`, `MaxNow`, `MaxPerTick`, `MaxChanges`, `MaxSaves`, `MaxQueries`,
`MaxEdits` and `MaxEntries` cap counters only and are guards of the actions they
limit; `MaxStall` is for how long a heartbeat may be late. `MCCache.cfg` uses the symmetry of its queries; the run has no liveness
property. In `services` two files change twice, two runs download a common file
with one retry each, two lookups race two saves across an expiry, a cache of two
verdicts meets three names, four variables address one argument next to, inside
and past the other, tables of two keys see three, and samples of three see four.
Of pages with a WebSocket there is one, since they share the counter only (the theorem
is for any number), with a client that may stall for two seconds past a heartbeat of one;
question sections reach from 16 octets to more than a message can hold.
Names have up to three labels and addresses two bits, since matching
compares one label boundary and one prefix at a time. Deadlock is checked where the system has no end
state; the others stop when the bounded work is done or the process has exited.

Fairness. Tokio polls every runnable task, so the steps of callers, workers,
connection tasks, requests and query tasks are weakly fair; a timeout is a step of
the task that waits, so a task that waits with a timeout makes progress. Tokio's
mutex is first come, first served, which justifies strong fairness for taking
the coordinator's lock. The watcher's task and the debounce tasks are weakly fair
for the same reason; that a file stops changing is the bound `MaxChanges`. Nothing is assumed of clients and upstreams: an answer,
a handshake, the next query on a connection or the reading of a response may
never come. No fairness is put on new calls, publications or signals.

In `MCParts`, `MCCache`, `Services` and `MCServices` a variable fixed by the initial state names
the component that moves, and the fairness of `Servers` and of `FileWatcher` holds in
their behaviours only.

## 4. Proofs

All theorems are for every value of the constants: any keys, callers, workers,
tasks, upstreams, clients, subscribers, servers, files, queries and configurations,
and any capacity. The assumptions on the constants are the named `ASSUME`s of the modules;
TLC evaluates them in the runs. Where a theorem has a further hypothesis it is
named below, with the reason. Each proof has one lemma per action, and an
inductive invariant that is stronger than the property:

- `RefreshCoordinatorProofs`: `CoordSafety` (`CoordTypeOK` and `OneOwner`),
  `CoordDeduplicates` (`NoConcurrentRefresh`), `CoordNoLeak` (`NoOrphanKey`). The
  inductive invariant `CoordInv` is type correctness with `OneOwner`. Deduplication
  alone is not inductive: that a worker removes a key *by name* is harmless only
  because nobody else holds it, which is what `OneOwner` says of callers that have
  inserted and not yet sent, of places in the queue and of workers. The queue's
  lemmas `AppendPlaces` and `TailPlaces` say what happens to its places.
  `CoordShutdownDrains` (`ShutdownDrains`) adds `Drained` (a worker leaves only a
  closed and empty queue) and `Accounted`, which equates the counters with the
  cardinalities of the callers about to record and the workers executing.
- `CacheRefreshProofs`: `TypeCorrect`, `SingleRefresh` (`OneRefresh`),
  `RefreshNeverSkipped` (`NeverSkipped`). The composition needs in addition that
  `processing` is nested in `refreshing_keys`: the plugin's lock is taken before the
  coordinator's and given back after it. With that, an insert into `processing`
  never finds the key there. `NoKeyLeaked`: every key of `refreshing_keys` is with
  somebody who gives it back. `RefinesSingleFlight`: every step is a step of
  `SingleFlight`, or leaves its variables unchanged; this is the safety part of the
  refinement that the run checks with its fairness.
- `UdpMuxProofs`: `MuxNoPollution`, `MuxNoLeak`. A pending entry belongs to exactly
  one guarded task that has its id, and, until the counter has come round, an id
  is used by one task only, so that an answer on the network with this id can
  only be to that task's question. Leak freedom does not need the second part.
- `ForwardProofs`: `ForwardNoPollution` carries these over to the multiplexer as
  the forward plugin drives it. `RaceTriesEveryUpstream` (`RaceTriesAll`): at any
  point of a race each upstream has failed or still has a task of its own
  (`RaceCover`). `AverageStaysInRange` (`AverageInRange`): counting a success and
  writing the average are two steps, and in between the average may be outside; by
  `AverageCover` it then belongs to a task that has counted the first success and
  not yet written. Hypothesis `TriesSomething` of the first theorem: `max_attempts` is
  not 0, or there are several upstreams. `forward/builder.rs:146-151` accepts a 0, and
  a single upstream is then never asked.
- `CacheProofs`: `CacheTtlHonest`, `CacheAgeBounded` (`TtlHonest`, `AgeBounded`), and
  `CacheLifetimes` for the composition. `CacheInv` says of an entry, of the entry a
  query has read, of a record in the dump file and of an answer that it stems from a
  response of the past and ends no later than that response does.
  `DumpIsAtomic` (`DumpAtomic`): by `DumpInv` the temporary file is a prefix of the
  dump under way and never the file under the dump's name. `OnlyRacesAreUncounted`
  (`OnlyRacedUncounted`): `RaceInv` follows a change from memory through the snapshot
  to the file. Hypothesis `OneDumper` of these two: with the dump at shutdown
  there are two and the first is false, which is the run `dump_at_shutdown`.
- `PartsProofs`. `RateIsBounded` (`RateBounded`): `RateInv` divides what a client got
  into what came before its last two windows and the allowance of each; a window
  the clean-up has forgotten is over. `DropsAreAccounted` (`DropsAccounted`): `BusInv`,
  positions against what was kept. `AlertsAreAggregated` (`AlertsAggregated`).
  `ServersDrainBeforePlugins` (`DrainBeforePlugins`): `SrvInv` says that a permit
  is in the semaphore or with one connection, that a server still to be launched has
  not run, and that one which runs is in the list `main` waits for. `MapIsCoherent` (`MapCoherent`):
  `LruInv`, shard by shard: in order of use, no key twice, each with the latest value.
- `FlowProofs`. `ReferencesAreResolved` (`ReferencesResolved`): `GraphInv` says that
  everything referred to exists and that what has a name is neither a jump nor a
  goto; `RefInv` that a registered object was made for an entry of its name, that
  no fallback has children before names stop being registered, that pass 1 leaves no
  placeholder registered behind it, and what a step can have captured. Its part on
  steps supposes distinct names: `config/validation.rs:84-91` asks for them, but
  `main` only warns. `MarksAreScoped` (`MarksScoped`), `OutcomesAreKept` (`OutcomeKept`):
  `FlowInv` adds the stack of calls. `MarksScoped` alone is not inductive: a jump is
  pending only between a jump plugin and the sequence whose step it is, which needs
  that a handler and a fallback call plugins that have names; and an error counts as
  escaped exactly while it is on its way through a stack without a fallback. The
  configurations may be cyclic: neither property needs the request to end.
- `ServicesProofs`, one invariant per component, which holds in the behaviours that
  are its own.
  - `ReloadsLoseNothing`, the safety part of `ReloadSettles`: when nothing of the
    watcher and of the debounce tasks is under way, a data set serves what its files
    hold, with the exceptions `ReloadSettles` makes. `WatchInv` says that what is
    served, or about to be, was made of some contents of the files, and that a file
    which differs from them was changed unseen, or has an event in the channel, a
    removal in its pause, or a debounce task that has not begun to read
    (`Outstanding`). That an event is dropped when its file is gone is harmless since
    a deletion counts as unseen. `PauseFirst` keeps a path in its pause from being
    read before it is watched again. What is left to TLC is that all of this ends.
  - `DownloadsAreWhole` (`DownloadsAllOrNothing`): by `DownloadInv` a path that no two
    downloads shared has at most one that writes, with the temporary file open, and
    what it renames is complete (`Undisturbed`). Assumption: a run names a path once.
  - `ReverseIsFresh` (`ReverseFresh`): `ReverseInv` relates the map, the copy a lookup
    is about to act on, and the last mapping recorded.
  - `VerdictsAreSound` (`VerdictSound`): by `ValidatorInv` every cached verdict, and
    every verdict given from the cache, is that of a check that a request made of this
    name, which the history `checked` records with its type; a name is cached once,
    also when two requests store it.
  - `ConnectionsAreCounted` (`ConnectionsCounted`): `WebInv` equates the counters with
    the cardinalities of the sets of open streams and sockets, wherever the task of
    each is, and bounds the silence of a socket and the time to its next heartbeat
    together (`InTime`), which a send that is awaited does not change. No stream is
    left once the service has ended (`Quiet`); sockets may be.
  - `ExchangesAreSound` (`ExchangeSound`), `ArgumentsAreSound` (`ArgumentsSound`): by
    `CallsInv` the answer of a call is what its operator returns, and lemmas say
    what that is: a serialised message and its prefix, a launch, the settings of a cache
    read argument by argument, an address trimmed of its schemes. The listeners are
    launched by a recursive function; `LaunchAllLaunches` shows, by the least
    index at which it would fail, that it satisfies its equation at every index, and
    the rest needs only that equation. The order of the binds and the set of refused
    ones are any that `LaunchCases` has; question sections have any size. Assumptions:
    OPT sizes fit in 16 bits, an address has no `|` in it. `SameUpstream` has as a
    condition that the address has a port or a scheme, or that there is no tag.

Only model-checked:

- All liveness (`KeyUnlocked`, `ShutdownReturns`, `QueryEnds`, `RequestEnds`,
  `ShutdownEnds`, `ReloadSettles`) and the fairness of `SingleFlight`.
- `DomainMatchCorrect`, `WireTransparent`, `RewriteSound` and `ConfigSound`: what
  recursive operators over text, messages and configurations compute. The prover takes
  no module that reaches one.
- `AddressMatchCorrect`: its reference definition counts the bits of addresses of two
  bits, and the call composes modules that reach recursive ones.
- `MetricsExact`: sums, selections and sorts of sequences of any length (`FoldLeft`,
  `SelectSeq`, `SortSeq`), about which the library has no theorem that can be cited.

## 5. Observations without a run

Noted while modelling. The properties above do not claim otherwise: where one would
be false of the code, its comment names the exception, and for what documents say
differently the place is given here.

- `utils/task_queue/stats.rs:109-117`: `queue_depth` subtracts rejected and skipped
  tasks, which were never added.
- `plugins/cache/mod.rs:472`: `changes_since_dump` is set to 0 after the dump, so
  changes made since the snapshot are forgotten (`OnlyRacedUncounted` says these
  are the only ones). A slow dump may replace a newer one. A restore
  reverses the order of recency.
- `plugins/cache/mod.rs:430,435`: `contains` and `push` are two critical sections, so
  a replacement can be counted as an eviction.
- `plugins/cache/sharded.rs:36`: the mask `shard_count - 1` is right for powers of two
  only; a cache of fewer than 16 entries of another size leaves shards unused.
- `plugins/forward/engine.rs:162`: once the 16-bit id has come round within the time
  an answer may be late, a late answer can reach another query.
- `server/launcher.rs:160-179`: on timeout the handle being awaited is dropped, not
  aborted, and connection tasks are never aborted. `server/doq.rs` closes its
  endpoint without waiting for requests. Admin, monitoring and web servers are not waited for.
- `server/dot.rs:195`: the handshake has no timeout and holds a permit; no server
  bounds the writing of a response. `doq.rs` truncates a length to 16 bits where
  the other servers refuse.
- `plugins/executable/ratelimit.rs:88`: with `max_queries` 0 the first query of a window
  passes.
- `web/alerts/engine.rs:279`: with `max_alerts` 0 the loop does not end.
- `plugins/audit/event_bus.rs:144-147`: the peak is read and stored in two steps.
- `plugin/builder.rs:219-234`: `shutdown_all` returns at the first error.
- `plugins/executable/fallback.rs:170`: a fallback keeps the marks of a child it gave
  up on; a following child sequence stops after its first step.
- Jump and goto cycles recurse or loop without a limit. The configurations of
  `flow` have none.
- `config/validation.rs:84`: two plugins of one name are refused by validation, which
  `main` only logs (`main.rs:96`). The later one is registered; a step may then keep a
  sequence that was replaced.
- `plugins/forward/builder.rs:146`: `max_attempts` 0 with one upstream is accepted, and no
  query is ever sent.
- `main.rs:96,156`: errors of validation and of `resolve_references` are logged only;
  after such an error later sequences stay empty placeholders.
- `plugins/cache/mod.rs:764`: with `negative_cache` a failed refresh overwrites an
  entry that could still be served stale. `persistence.rs:49`: no fsync before the
  rename; the model covers crashes of the process, not of the machine.

File watcher, data sets, downloads:

- `utils/mod.rs`: a debounce task that is pending at shutdown reloads after the rules
  were cleared. Changes before the watcher has started, or to a file deleted and
  created again later, go unnoticed (`unseen`).
- A reload of files loses the rules given inline, where
  `docs/IP_MATCHING_RULES.md:166` describes both as used together.
- `plugins/dataset/domain_set.rs:77`: a rule written with a final dot never matches.
- `plugins/executable/downloader.rs:230`: overlapping runs share `<path>.tmp`, so
  that "atomic" (`docs/PLUGIN_DOWNLOADER.md:134`) needs runs that do not overlap.
- `plugins/executable/reverse_lookup.rs:120`: an expired entry is removed by key, so
  a fresh one saved in between is lost. An `ip6.arpa` name with 31 labels is padded.
- `plugins/domain_validator.rs:63-67`: the cache ignores the type, the check does not,
  so that a name refused for `A` stays refused for `HTTPS`, and the other way about.
  `VerdictSound` says so of verdicts from the cache.
- `plugins/dataset/domain_set.rs`: the pattern of a regexp rule keeps its case while names
  are lowered, where `docs/DOMAIN_MATCHING_RULES.md:483` has all rules case-insensitive,
  as has `docs/en/05_07_01_PLUGIN_DOMAIN_SET.md:77`. `geo_site` and `!qname` compare the
  name with its root dot, if it has one.

Configuration:

- `config/loader.rs:38`: files that include one another are never done. An override
  of arguments that are a list discards the list; arguments whose name has an
  underscore cannot be reached (`docs/ENV_OVERRIDE.md:179`); an index is used
  whatever its size. `LOG_ROTATE` is documented and not read.
- `config/reload.rs`: nothing starts `ConfigReloader`. Loads that overlap can store an
  older configuration over a newer one and mix versions of included files.
- `plugins/forward/builder.rs`: an address is completed with its port before
  `|tag` is split off, so `8.8.8.8|google` gets no port
  (`docs/en/05_02_PLUGIN_FORWARD.md:12,20`), nor does an IPv6 literal.
  `health_checks` is on by default with the web feature; the documents say off.

Servers, web and metrics:

- `server/doq.rs`: no client address (an access list sees 127.0.0.1, no rate limit),
  no read timeout; the first item of the key file must be the key.
- `server/udp.rs`: a truncated reply keeps every question, and with a large question
  section it exceeds what the client can take.
- `dns/wire.rs:208,248,462`: records without data, as an UPDATE has them, or with data
  that cannot be written again are left out of a message without a word.
- `server/launcher.rs:321`: DoH, DoT and DoQ bind in a task of their own, so that of two
  listeners with one address the one that serves may be the later one, and a DoT
  listener whose key does not fit may hold the address for a moment.
- `web/mod.rs`: the listen address is not normalised, and the startup signal precedes
  the bind. Open streams are not ended by a shutdown, and the service waits for them;
  sockets are not ended either, and the service does not wait for them.
- `web/websocket/handler.rs:174,190`: a send is awaited inside the branch of the
  `select!`, so a client that stops reading delays the heartbeat that would drop it,
  past `timeout_secs` (`web/config.rs:234`).
- `web/metrics/collector.rs:220`: a clear goes table by table while queries are counted;
  only a test calls it. An overview can show the total of one moment and the hits of a
  later one.
- `web/config.rs:184,226`: `max_connections` is read by nothing.
- `server/admin.rs`: cache requests find a plugin named exactly `cache`.
- `web/metrics/top_n.rs:22`: a key that was pruned starts again from 0.
  `record_blocked`, `query_latency_ms` and `query_error` are never fed.
- `metrics/memory/cgroup_reader.rs`: the version is detected at the mount root.

Plugins:

- `plugins/executable/ecs.rs`: the client address is asked for as a string and stored
  as a socket address, so mode `send` has no effect; bits after the mask are not
  cleared, which RFC 7871 (`ecs.rs:132`) wants. `edns0opt.rs`: its metadata is read by nothing.
- `plugins/executable/ipset.rs`: additions are repeated for every response.
  `ros_addrlist.rs`: masks are not applied, where `ros_addrlist.rs:44-47`, the test at
  `:436` and `docs/en/05_08_18_PLUGIN_ROS_ADDRLIST.md:10` have them applied when adding
  (`AddressMatchCorrect` claims nothing of shorter masks); the first address that
  fails stops the others.

## 6. Plan

Done: the inventory, the modules of section 2 (refresh, cache, forward, builder and
flow, servers and the small components, then the services around the requests and
the functions of a message, a name, an address or a setting), and the theorems of
section 4, on compositions without the recursive modules where there are some. What
could follow: the same for `AddressData` with addresses of any width, and for the
time series of `Metrics`.

### Not modelled

- The hickory, rustls, quinn, hyper, lru, regex and cron libraries: external, modelled
  by what the code asks of them; that hickory reads a name's text as it writes it is
  taken for granted. The bytes of a message, its compression and the
  bounds of the parser are hickory's, not this program's.
- The text form of record data (`dns/rdata.rs`) and of types: tables without control.
- `MetricsCollector::clear`: nothing but a test calls it.
- The text and JSON forms of a query log entry (`plugins/audit/event.rs`): wording.
- Registration and rendering of Prometheus counters (`metrics/mod.rs`), routes that
  only render state (`web/routes/config_dump.rs` and the like), static files, log
  rotation: output that no other step reads.
- The syntax of the steps of a sequence (`plugin/builder.rs` `parse_*`): `PluginFlow`
  starts from parsed steps, and lets a condition hold or not; `Conditions` has what
  each condition means.
- Jobs of cron that fetch a URL or run a command, external programs (ipset, nft) and
  the router's API: no state that the program reads again.
- Command line (`cli.rs`) and debugging plugins (`debug_print`, `sleep`): pure input
  and output.
