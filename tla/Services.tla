------------------------------ MODULE Services ------------------------------
(***************************************************************************)
(* What runs beside the requests, side by side and for any constants: the  *)
(* watching of rule files, the scheduled downloads, the reverse lookup,    *)
(* the domain validator and the web interface; and the calls of Calls and  *)
(* of the admin API.  The components share no state here: a behaviour is   *)
(* one of one of them, chosen in the initial state; the others are off.    *)
(***************************************************************************)
EXTENDS Calls

CONSTANTS RuleFiles, RuleBodies, Malformed, Kinds, MaxChanges,           \* FileWatcher
          Runs, FileArgs, max_retries,                                   \* Downloader
          Ips, Domains, Ttls, PtrNames, Lookups, ttl_arg, MaxTime, MaxSaves,   \* ReverseLookup
          Names, Types, Requests, cache_size, MaxQueries,                \* DomainValidator
          WebServices, Clients, Pages, Topics, heartbeat_secs, timeout_secs, MaxStall,   \* WebServer
          CacheSizes, Counts, Healths                                    \* requests to the admin API

VARIABLES part,
          kind, ruleFile, watcher, watched, fileEvents, handling, pending, scheduled, reading,
          loaded, stopping, changes, unseen,
          plan, concurrent, cron, run, fetch, tmp, final, overlapped,
          now, names, lookup, saves, latest, raced,
          strict_mode, verdicts, request, queries, checked,
          shutdown, life, started, bus, sse, sse_connections, ws, ws_connections

-----------------------------------------------------------------------------

Watch == INSTANCE FileWatcher WITH
  Files <- RuleFiles, Bodies <- RuleBodies, file <- ruleFile, events <- fileEvents, shutdown <- stopping

Download == INSTANCE Downloader WITH Files <- RuleFiles, Bodies <- RuleBodies, Entries <- FileArgs

Reversed == INSTANCE ReverseLookup WITH MaxNow <- MaxTime, cache <- names

Checked == INSTANCE DomainValidator WITH cache <- verdicts

Web == INSTANCE WebServer WITH Services <- WebServices

\* No contents and no path has the name of what stands for their absence, the
\* datasets are the three that have files, and the runs of the downloader name a
\* path once.
ASSUME FilesAssumption ==
  /\ Kinds \subseteq {"domain_set", "ip_set", "hosts"}
  /\ Watch!Absent \notin RuleBodies /\ Download!NoBody \notin RuleBodies
  /\ Watch!None \notin RuleFiles
  /\ \A r \in Runs : LET paths == Download!FilesOf(FileArgs[r]) IN
       \A i, j \in 1..Len(paths) : paths[i] = paths[j] => i = j
ASSUME TimesAssumption ==
  /\ Ttls \subseteq Nat
  /\ ttl_arg.number => ttl_arg.value \in Nat
  /\ heartbeat_secs \in Nat \ {0} /\ timeout_secs \in Nat /\ MaxStall \in Nat
ASSUME SizesAssumption ==
  /\ cache_size \in Nat
  /\ IsFiniteSet(Clients) /\ IsFiniteSet(Pages)
  /\ CacheSizes \subseteq Nat \ {0} /\ Counts \subseteq Nat
  /\ Healths \subseteq [queries : Nat, successes : Nat]

-----------------------------------------------------------------------------
(* Requests about the cache and the upstreams.                             *)

AdminCases ==
  {[of |-> "admin", cache |-> [name |-> n, type |-> t, entries |-> e], action |-> x, registry |-> g, hits |-> h, misses |-> m] :
     n \in {"cache", "my_cache"}, t \in {"cache", "forward"}, e \in CacheSizes, x \in {"clear", "flush"}, g \in BOOLEAN,
     h, m \in Counts}
Administered ==
  [admin |-> Web!CacheControl(case.cache, case.action), web |-> Web!WebClearCache(case.cache, case.registry),
   stats |-> Web!CacheStats(case.cache, case.hits, case.misses),
   board |-> Web!DashboardCacheStats(case.cache, case.registry, case.hits, case.misses)]

\* Two upstreams are registered, the first one again, and unregistered.
UpstreamShownCases == {[of |-> "shown", old |-> h, new |-> g] : h, g \in Healths}
Shown ==
  LET none == [k \in {} |-> case.old]
      two == Web!Register(Web!Register(Web!Register(none, 1, case.old), 2, case.old), 1, case.new)
  IN [both |-> Web!GetAll(two), one |-> Web!GetAll(Web!Unregister(two, 1))]

-----------------------------------------------------------------------------

watchVars == <<kind, ruleFile, watcher, watched, fileEvents, handling, pending, scheduled, reading,
               loaded, stopping, changes, unseen>>
downloadVars == <<plan, concurrent, cron, run, fetch, tmp, final, overlapped>>
reverseVars == <<now, names, lookup, saves, latest, raced>>
validatorVars == <<strict_mode, verdicts, request, queries, checked>>
webVars == <<shutdown, life, started, bus, sse, sse_connections, ws, ws_connections>>
servicesVars == <<part, watchVars, downloadVars, reverseVars, validatorVars, webVars, callVars>>

Off == "off"
WatchOff ==
  /\ kind = Off /\ ruleFile = Off /\ watcher = Off /\ watched = Off /\ fileEvents = Off /\ handling = Off
  /\ pending = Off /\ scheduled = Off /\ reading = Off /\ loaded = Off /\ stopping = Off /\ changes = Off /\ unseen = Off
DownloadOff ==
  /\ plan = Off /\ concurrent = Off /\ cron = Off /\ run = Off /\ fetch = Off /\ tmp = Off /\ final = Off /\ overlapped = Off
ReverseOff == now = Off /\ names = Off /\ lookup = Off /\ saves = Off /\ latest = Off /\ raced = Off
ValidatorOff == strict_mode = Off /\ verdicts = Off /\ request = Off /\ queries = Off /\ checked = Off
WebOff ==
  /\ shutdown = Off /\ life = Off /\ started = Off /\ bus = Off /\ sse = Off /\ sse_connections = Off /\ ws = Off
  /\ ws_connections = Off
CallsOff == case = [of |-> Off] /\ answer = Pending
ComponentsOff == WatchOff /\ DownloadOff /\ ReverseOff /\ ValidatorOff /\ WebOff

ServicesInit ==
  /\ part \in {"watch", "download", "reverse", "validator", "web", "calls"}
  /\ IF part = "watch" THEN Watch!Init ELSE WatchOff
  /\ IF part = "download" THEN Download!Init ELSE DownloadOff
  /\ IF part = "reverse" THEN Reversed!Init ELSE ReverseOff
  /\ IF part = "validator" THEN Checked!Init ELSE ValidatorOff
  /\ IF part = "web" THEN Web!Init ELSE WebOff
  /\ IF part = "calls"
     THEN CallsInit \/ (case \in AdminCases /\ answer = Pending) \/ (case \in UpstreamShownCases /\ answer = Pending)
     ELSE CallsOff

\* Nothing but the component that was chosen moves.
Only(p) ==
  /\ part = p /\ UNCHANGED part
  /\ p # "watch" => UNCHANGED watchVars
  /\ p # "download" => UNCHANGED downloadVars
  /\ p # "reverse" => UNCHANGED reverseVars
  /\ p # "validator" => UNCHANGED validatorVars
  /\ p # "web" => UNCHANGED webVars
  /\ p # "calls" => UNCHANGED callVars

WatchMoves == Only("watch") /\ Watch!Next
DownloadMoves == Only("download") /\ Download!Next
ReverseMoves == Only("reverse") /\ Reversed!Next
ValidatorMoves == Only("validator") /\ Checked!Next
WebMoves == Only("web") /\ Web!Next
CallsMove == Only("calls") /\ (CallsNext \/ Call("admin", Administered) \/ Call("shown", Shown))

ServicesNext == WatchMoves \/ DownloadMoves \/ ReverseMoves \/ ValidatorMoves \/ WebMoves \/ CallsMove

\* The fairness of FileWatcher, in the behaviours that are its.
ServicesFairness ==
  /\ WF_servicesVars(Only("watch") /\ Watch!WatcherStep)
  /\ WF_servicesVars(Only("watch") /\ Watch!DebounceStep)

ServicesSpec == ServicesInit /\ [][ServicesNext]_servicesVars /\ ServicesFairness

-----------------------------------------------------------------------------
(* The properties of the components, under their own names.                *)

\* Once rule files stop changing, a dataset serves their contents.
ReloadSettles == <>[](part = "watch" => Watch!UpToDate \/ unseen \/ watcher = "stopped")
\* A rule file is incomplete only after two downloads have overlapped.
DownloadsAllOrNothing == part = "download" => Download!DownloadsAllOrNothing
\* A PTR answer has not expired, and a mapping is kept for its time.
ReverseFresh == part = "reverse" => Reversed!ReverseFresh
\* Queries are refused as a check of their names says, whoever else asks.
VerdictSound == part = "validator" => Checked!VerdictSound

\* The counters of the connections are right; a request about the cache clears it
\* just when it reports success, through either interface, and the dashboard and the
\* admin API show the same; the dashboard lists every upstream once, as registered
\* last (admin.rs cache_control and cache_stats, routes/admin.rs, upstream_registry.rs).
ConnectionsCounted ==
  /\ part = "web" => Web!ConnectionsCounted
  /\ case.of = "admin" /\ answer # Pending =>
       /\ (answer.admin.status = "ok") <=> (answer.admin.cache.entries = 0)
       /\ (answer.web.status = "ok") <=> (answer.web.cache.entries = 0)
       /\ case.registry => answer.board.size = answer.stats.size /\ answer.board.hit_rate = answer.stats.hit_rate
       /\ answer.stats.hit_rate <= 100
  /\ case.of = "shown" /\ answer # Pending =>
       /\ Cardinality(answer.both) = 2 /\ Cardinality(answer.one) = 1 /\ answer.one \subseteq answer.both
       /\ \E x \in answer.both : x.key = 1 /\ (x.status = "unknown" <=> case.new.queries = 0)
=============================================================================
