---------------------------- MODULE MCServices ----------------------------
(***************************************************************************)
(* The model-checking instance of Services, and beside it the loading of   *)
(* the configuration, the metrics, and the calls of MCData.                *)
(***************************************************************************)
EXTENDS Services, MCData, TLC

CONSTANTS f1, f2,          \* rule files
          r1, r2,          \* runs of the downloader, requests and lookups
          c1, c2           \* browsers

VARIABLES configFile, load, stored, edits,
          clock, qps, domains, clients, latency, counters, gauges, todo, asked, history

-----------------------------------------------------------------------------
(* The constants of Services.                                              *)

\* Two runs of one job with a file in common; an entry without a URL is skipped.
MCFileArgs ==
  r1 :> <<[url |-> "u", path |-> f1], [url |-> "missing", path |-> f2], [url |-> "u", path |-> f2]>>
  @@ r2 :> <<[url |-> "u", path |-> f1]>>

\* Two addresses, asked for by their names in the reverse zone, one of the other
\* version that was never seen, and a name that is no address.
Localhost(last) == [version |-> 4, digits |-> <<127, 0, 0, last>>]
MCIps == {Localhost(1), Localhost(2)}
MCPtrNames ==
  {[zone |-> "in-addr.arpa", labels |-> <<1, 0, 0, 127>>], [zone |-> "in-addr.arpa", labels |-> <<2, 0, 0, 127>>],
   [zone |-> "in-addr.arpa", labels |-> <<0, 0, 127>>],
   [zone |-> "ip6.arpa", labels |-> [i \in 1..32 |-> 0]]}
MCTtlArg == [number |-> TRUE, value |-> 2]

\* One name that only some types may have, one that only strict mode refuses, and
\* one that is too long, in a cache of two.
Label(first, hyphens) ==
  [len |-> 7, first |-> first, last |-> "alphanumeric", inner |-> "-", hyphens |-> hyphens, xn |-> FALSE]
MCNames ==
  {[len |-> 15, root |-> FALSE, labels |-> <<Label("_", FALSE), Label("alphanumeric", FALSE)>>],
   [len |-> 7, root |-> FALSE, labels |-> <<Label("alphanumeric", TRUE)>>],
   [len |-> 254, root |-> FALSE, labels |-> <<Label("alphanumeric", FALSE)>>]}

MCHealths == {h \in [queries : {0, 1, 20}, successes : {0, 1, 10, 19}] : h.successes <= h.queries}

-----------------------------------------------------------------------------
(* A configuration of two files, and variables that address arguments next *)
(* to one another, on the way to one another, out of their range and behind *)
(* an empty segment.                                                       *)

TextAddr(form, port) == [form |-> form, port |-> port]
Value(text, spells, yaml) == [text |-> text, spells |-> spells, yaml |-> yaml, addr |-> TextAddr("text", 0)]
AddrValue(form, port) == [text |-> "a", spells |-> -1, yaml |-> [text |-> "a", spells |-> -1], addr |-> TextAddr(form, port)]
CacheArg(path) == <<"plugins", "_", "my", "_", "cache", "_", "args", "_">> \o path
Variables ==
  {[name |-> <<"admin", "_", "addr">>, value |-> AddrValue(":port", 80)],
   [name |-> CacheArg(<<"size">>), value |-> Value("0", 0, [number |-> 0])],
   [name |-> CacheArg(<<"jobs", "_", "1", "_", "_", "ttl">>), value |-> Value("5", 5, [number |-> 5])],
   [name |-> CacheArg(<<"jobs", "_", "0">>), value |-> Value("x", -1, [unparsable |-> TRUE])]}

Jobs == [list |-> <<[number |-> 1], [map |-> (<<"cron">> :> [number |-> 2])], [number |-> 3]>>]
PluginText(tag, type, args) == [part |-> "plugin", plugin |-> [tag |-> tag, type |-> type, args |-> args]]
CacheText(type, key) ==
  PluginText(<<"my", "-", "cache">>, type, [map |-> (key :> [number |-> 7] @@ <<"jobs">> :> Jobs)])
SequenceText == PluginText(<<"main">>, <<"sequence">>, [list |-> <<[number |-> 1]>>])
IncludeText(path) == [part |-> "include", path |-> path]
LevelText == [part |-> "setting", name |-> "log.level", value |-> Value("debug", -1, [text |-> "debug", spells |-> -1])]
ReferenceText ==
  [part |-> "reference", name |-> "admin.addr", var |-> <<"admin", "_", "addr">>, default |-> [text |-> "no default"]]
AddrText == [part |-> "setting", name |-> "admin.addr", value |-> AddrValue("text", 1)]

Config == INSTANCE ConfigLoad WITH
  Paths <- {"main", "inc"}, Main <- "main", Env <- Variables, Loads <- {r1, r2}, MaxEdits <- 1,
  Contents <-
    ("main" :> {<<ReferenceText, CacheText(<<"cache">>, <<"negative", "_", "ttl">>), IncludeText("inc")>>,
                <<CacheText(<<"other">>, <<"keep">>), LevelText, IncludeText("inc")>>,
                <<IncludeText("inc"), [part |-> "broken"]>>, <<IncludeText("main")>>}
     @@ "inc" :> {<<SequenceText>>, <<[part |-> "no such file"]>>, <<AddrText>>}),
  file <- configFile

-----------------------------------------------------------------------------
(* The metrics are fed with the entries that requests leave in the log.    *)

Context(qname, client, us, cached, rcode) ==
  [id |-> 1, question |-> Q!Set([qname |-> qname, dns_sd |-> FALSE, qtype |-> 1, qclass |-> 1]),
   meta |-> [start |-> Q!Set(0), protocol |-> Q!Unset, from_cache |-> cached,
             client_ip |-> IF client = "nobody" THEN Q!Unset ELSE Q!Set(client)],
   response |-> IF rcode = "none" THEN Q!Unset ELSE Q!Set([rcode |-> rcode, answers |-> <<>>]), us |-> us]
Contexts ==
  {Context("a", "x", 3000, Q!Set(TRUE), "NOERROR"), Context("b", "nobody", 70000, Q!Unset, "SERVFAIL"),
   Context("c", "y", 0, Q!Set(FALSE), "NXDOMAIN")}
MetricEntry(x) ==
  LET e == Q!LogQueryForContext(x, x.us).value IN
  [domain |-> e.qname, client |-> Q!Or(e.client_ip, "nobody"), rcode |-> Q!Or(e.rcode, "unknown"),
   latency |-> Q!Or(e.response_time_ms, -1),
   cached |-> IF ~e.cached.set THEN "neither" ELSE IF e.cached.value THEN "hit" ELSE "miss"]

Counted == INSTANCE Metrics WITH
  Entries <- {MetricEntry(x) : x \in Contexts}, Keys <- {"a", "b", "c", "x", "y"},
  top_n <- 1, prune_factor <- 2, window_secs <- 1, bucket_secs <- 1, max_samples <- 3, remove_count <- 1,
  Systems <- {s \in [container : BOOLEAN, version : {"v1", "v2", "none"}, path : {"/", "/own"}, usage : {2, -1},
                     limit : {3}, rss : {1}] : s.usage = 2 \/ s.path = "/"},
  MaxNow <- 2, MaxEntries <- 4, now <- clock

-----------------------------------------------------------------------------

configVars == <<configFile, load, stored, edits>>
metricsVars == <<clock, qps, domains, clients, latency, counters, gauges, todo, asked, history>>
vars == <<servicesVars, configVars, metricsVars>>

ConfigOff == configFile = Off /\ load = Off /\ stored = Off /\ edits = Off
MetricsOff ==
  /\ clock = Off /\ qps = Off /\ domains = Off /\ clients = Off /\ latency = Off /\ counters = Off /\ gauges = Off
  /\ todo = Off /\ asked = Off /\ history = Off

Init ==
  \/ ServicesInit /\ ConfigOff /\ MetricsOff
  \/ part = "config" /\ ComponentsOff /\ CallsOff /\ Config!Init /\ MetricsOff
  \/ part = "metrics" /\ ComponentsOff /\ CallsOff /\ ConfigOff /\ Counted!Init
  \/ part = "data" /\ ComponentsOff /\ DataInit /\ ConfigOff /\ MetricsOff

ServicesMove == ServicesNext /\ UNCHANGED <<configVars, metricsVars>>
ConfigMoves == Only("config") /\ Config!Next /\ UNCHANGED metricsVars
MetricsMove == Only("metrics") /\ Counted!Next /\ UNCHANGED configVars
DataMoves == part = "data" /\ DataNext /\ UNCHANGED <<part, watchVars, downloadVars, reverseVars, validatorVars, webVars,
                                                      configVars, metricsVars>>

Next == ServicesMove \/ ConfigMoves \/ MetricsMove \/ DataMoves

Spec == Init /\ [][Next]_vars /\ ServicesFairness

-----------------------------------------------------------------------------
(* The properties of the two components, under their own names.            *)

\* The configuration in use is valid, and overridden exactly as the variables say.
ConfigSound == part = "config" => Config!ConfigSound
\* The metrics show the queries inside the window and, while more come, no more of
\* them than there were; never too many of a domain or a client, and nothing of the
\* host's memory.
MetricsExact == part = "metrics" => Counted!MetricsExact
=============================================================================
