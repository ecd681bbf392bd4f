----------------------------- MODULE PluginArgs -----------------------------
(***************************************************************************)
(* How plugins read their arguments: ForwardBuilder and normalize_addr of  *)
(* the forward plugin, init of the cache, of the fallback, of the rate     *)
(* limiter and of the collectors.                                          *)
(*                                                                         *)
(* A text is a sequence of tokens (a scheme, ":", "|", and what stands     *)
(* between them); an argument is [kind, value], with a kind of "absent",   *)
(* "number", "float" (a number that is no integer), "bool", "string",      *)
(* "list", "map" or "null".                                                *)
(***************************************************************************)
EXTENDS Integers, Sequences, SequencesExt

Absent == [kind |-> "absent", value |-> 0]
Refused == [ok |-> FALSE]

-----------------------------------------------------------------------------
(* ForwardBuilder.                                                         *)

Schemes == {"udp://", "tcp://", "tls://", "quic://", "http://", "https://"}
HasColon(text) == \E i \in 1..Len(text) : text[i] \in Schemes \union {":"}

\* trim_start_matches takes every leading occurrence.
TrimScheme(text, scheme) ==
  LET n == CHOOSE k \in 0..Len(text) :
             (\A i \in 1..k : text[i] = scheme) /\ (k = Len(text) \/ text[k + 1] # scheme)
  IN SubSeq(text, n + 1, Len(text))

\* normalize_addr: URLs stay, "udp://" and "tcp://" go, and a text without a colon
\* gets the port 53 at its end.
Trimmed(text) == TrimScheme(TrimScheme(text, "udp://"), "tcp://")
NormalizeAddr(text) ==
  IF text # <<>> /\ text[1] \in {"http://", "https://"} THEN text
  ELSE IF HasColon(Trimmed(text)) THEN Trimmed(text) ELSE Trimmed(text) \o <<":", "53">>

\* An upstream given as a text: what follows the first "|" is its tag.  The text is
\* normalised first and split then.
UpstreamOfText(text) ==
  LET entry == NormalizeAddr(text)
      bars == {i \in 1..Len(entry) : entry[i] = "|"}
      bar == CHOOSE i \in bars : \A j \in bars : i <= j
  IN IF bars = {} THEN [ok |-> TRUE, addr |-> entry, tag |-> <<>>]
     ELSE [ok |-> TRUE, addr |-> SubSeq(entry, 1, bar - 1), tag |-> SubSeq(entry, bar + 1, Len(entry))]

\* An upstream given as a mapping has its tag apart.
UpstreamOfMap(map) ==
  IF map.addr.kind # "string" THEN Refused
  ELSE [ok |-> TRUE, addr |-> NormalizeAddr(map.addr.value),
        tag |-> IF map.tag.kind = "string" THEN map.tag.value ELSE <<>>]

UpstreamOf(item) ==
  CASE item.kind = "string" -> UpstreamOfText(item.value)
    [] item.kind = "map" -> UpstreamOfMap(item.value)
    [] OTHER -> Refused

Builder0 == [timeout |-> 5, strategy |-> "round_robin", health_checks |-> TRUE, max_attempts |-> 3]

Strategies == [round_robin |-> "round_robin", roundrobin |-> "round_robin",
               random |-> "random", fastest |-> "fastest"]

\* An integer becomes unsigned, in 64 bits, of which the model has 8.
Unsigned(n) == n % 256

\* A setting that may be absent: what is no number counts as absent, a number has to
\* be an integer.
NumberOr(arg, default) == IF arg.kind = "number" THEN Unsigned(arg.value) ELSE default

\* from_args, in a build with the web interface, where health checks are the default.
FromArgs(args) ==
  LET upstreams == [i \in 1..Len(args.upstreams.value) |-> UpstreamOf(args.upstreams.value[i])] IN
  IF args.upstreams.kind # "list" THEN Refused
  ELSE IF \E i \in 1..Len(upstreams) : ~upstreams[i].ok THEN Refused
  ELSE IF "float" \in {args.timeout.kind, args.max_attempts.kind} THEN Refused
  ELSE IF args.strategy.kind = "string" /\ args.strategy.value \notin DOMAIN Strategies THEN Refused
  ELSE [ok |-> TRUE, upstreams |-> upstreams,
        timeout |-> NumberOr(args.timeout, Builder0.timeout),
        strategy |-> IF args.strategy.kind = "string" THEN Strategies[args.strategy.value] ELSE Builder0.strategy,
        health_checks |-> IF args.health_checks.kind = "bool" THEN args.health_checks.value ELSE Builder0.health_checks,
        max_attempts |-> NumberOr(args.max_attempts, Builder0.max_attempts)]

\* ForwardPlugin::init: races when concurrent is a number above 1.
ForwardInit(args) ==
  LET core == FromArgs(args) IN
  IF ~core.ok THEN Refused
  ELSE [ok |-> TRUE, core |-> core,
        concurrent |-> args.concurrent.kind = "number" /\ args.concurrent.value > 1]

-----------------------------------------------------------------------------
(* The cache.                                                              *)

\* CachePlugin::new.
CacheNew(size) ==
  [ok |-> TRUE, max_size |-> size, negative |-> -1, cache_ttl |-> 0, lazy |-> FALSE,
   threshold |-> 5, coordinator |-> 0, cleanup |-> TRUE, interval |-> 60, pressure |-> 80,
   dump_file |-> FALSE, dump_interval |-> 600]

WithNegativeCache(c, ttl) == [c EXCEPT !.negative = ttl]

\* The coordinator is built once, with 4 workers and 1000 places.
WithCoordinator(c) == IF c.coordinator = 0 THEN [c EXCEPT !.coordinator = 4] ELSE c

Clamp(n) == IF n < 0 THEN 0 ELSE IF n > 100 THEN 100 ELSE n

\* Mutant: the coordinator is left to the caller.
WithLazyCacheOnly(c, threshold) == [c EXCEPT !.lazy = TRUE, !.threshold = Clamp(threshold)]

\* with_lazycache.  (Fractions are in percent.)
WithLazyCache(c, threshold) ==
  WithCoordinator([c EXCEPT !.lazy = TRUE, !.threshold = Clamp(threshold)])

WithCacheTtl(c, ttl) == IF ttl > 0 THEN WithCoordinator([c EXCEPT !.cache_ttl = ttl]) ELSE c

WithCleanup(c, enabled, interval, pressure) ==
  [c EXCEPT !.cleanup = enabled, !.interval = IF interval < 1 THEN 1 ELSE interval, !.pressure = Clamp(pressure)]

\* init: the order is size, negative_cache, cache_ttl, the coordinator, lazycache,
\* clean-up and the dump.  An argument of the wrong kind is an error only where the
\* code asks for it.
CacheInit(args) ==
  LET negative == args.negative_cache.kind = "bool" /\ args.negative_cache.value
      lazy == args.enable_lazycache.kind = "bool" /\ args.enable_lazycache.value
      sized == CacheNew(IF args.size.kind = "absent" THEN 1024 ELSE Unsigned(args.size.value))
      negated == IF negative
              THEN WithNegativeCache(sized, IF args.negative_ttl.kind = "absent" THEN 300 ELSE Unsigned(args.negative_ttl.value))
              ELSE sized
      windowed == WithCacheTtl(negated, NumberOr(args.cache_ttl, 0))
      refreshed == IF lazy THEN WithLazyCache(windowed, IF args.lazycache_threshold.kind = "absent" THEN 5 ELSE args.lazycache_threshold.value)
            ELSE windowed
      cleaned == WithCleanup(refreshed, TRUE, 60, 80)
  IN IF args.size.kind \notin {"absent", "number"} THEN Refused
     ELSE IF negative /\ args.negative_ttl.kind \notin {"absent", "number"} THEN Refused
     ELSE IF args.cache_ttl.kind = "float" THEN Refused
     ELSE IF lazy /\ args.lazycache_threshold.kind \notin {"absent", "number", "float"} THEN Refused
     ELSE IF args.dump_file.kind # "string" THEN cleaned
     ELSE [cleaned EXCEPT !.dump_file = TRUE,
                          !.dump_interval = IF args.dump_interval.kind = "number" /\ args.dump_interval.value >= 0
                                            THEN args.dump_interval.value ELSE 600]

\* make_key: the first question without regard to case, and the bits AD, CD and DO.
\* A message without a question is not cached.
MakeKey(message) ==
  IF message.questions = <<>> THEN <<>>
  ELSE LET q == Head(message.questions) IN
       <<q.lower, q.qtype, q.qclass,
         (IF message.ad THEN 1 ELSE 0) + (IF message.cd THEN 2 ELSE 0) + (IF message.do THEN 4 ELSE 0)>>

-----------------------------------------------------------------------------
(* Other plugins.                                                          *)

\* FallbackPlugin::init: the two names, without the empty ones.
FallbackInit(args) ==
  LET name(arg) == IF arg.kind = "string" THEN arg.value ELSE ""
  IN [names |-> SelectSeq(<<name(args.primary), name(args.secondary)>>, LAMBDA n : n # ""),
      error_only |-> args.error_only.kind = "bool" /\ args.error_only.value]

\* quick_setup: names separated by commas, at least one.
FallbackQuickSetup(prefix, parts) ==
  LET names == SelectSeq(parts, LAMBDA n : n # "") IN
  IF prefix # "fallback" \/ names = <<>> THEN Refused ELSE [ok |-> TRUE, names |-> names, error_only |-> FALSE]

\* RateLimitPlugin::init: numbers, or texts that spell one.
RateLimitArg(arg, default) ==
  CASE arg.kind = "absent" -> [ok |-> TRUE, value |-> default]
    [] arg.kind = "number" -> [ok |-> TRUE, value |-> Unsigned(arg.value)]
    [] arg.kind = "string" -> [ok |-> arg.value \in 0..255, value |-> arg.value]
    [] OTHER -> Refused

RateLimitInit(args) ==
  LET max == RateLimitArg(args.max_queries, 100)
      window == RateLimitArg(args.window_secs, 60)
  IN IF max.ok /\ window.ok THEN [ok |-> TRUE, max_queries |-> max.value, window_secs |-> window.value] ELSE Refused

\* PromMetricsCollectorPlugin::quick_setup and new: a collector takes the metrics
\* that were registered under its name, or registers four.  Names that differ in
\* "-" and "_" only have the same metrics, told apart by a label.
PromSetup(prefix, exec, cached) ==
  LET name == IF exec.kind = "absent" THEN "default" ELSE exec.value IN
  IF prefix # "prom_metrics_collector" \/ exec.kind \notin {"absent", "name"} THEN Refused
  ELSE [ok |-> TRUE, name |-> name, registered |-> IF name \in cached THEN 0 ELSE 4, cached |-> cached \union {name}]

\* query_summary wants the key under which it leaves its text.
QuerySummarySetup(prefix, key) ==
  IF prefix # "query_summary" \/ key = "" THEN Refused ELSE [ok |-> TRUE, metadata_key |-> key]

-----------------------------------------------------------------------------
(* Properties.                                                             *)

\* SameUpstream(addr, tag): "addr|tag" and the mapping of addr and tag are the same
\* upstream, when the address names its port or a scheme other than udp and tcp.
\* (Without, the port 53 goes to the end of the text, behind the tag: normalize_addr
\* comes before the split.)
SameUpstream(addr, tag) ==
  HasColon(Trimmed(addr)) =>
    UpstreamOfText(addr \o <<"|">> \o tag) =
    UpstreamOfMap([addr |-> [kind |-> "string", value |-> addr], tag |-> [kind |-> "string", value |-> tag]])

\* CacheSettingsSound(args, c): a cache that serves stale answers or refreshes ahead of
\* expiry has its coordinator, and no other has, whatever the order in which the
\* arguments are read; its thresholds are fractions; no argument that counts is
\* left out (cache/mod.rs init).
CacheSettingsSound(args, c) ==
  c.ok =>
    /\ (c.coordinator = 4) <=> (c.lazy \/ c.cache_ttl > 0)
    /\ c.threshold \in 0..100 /\ c.pressure \in 0..100 /\ c.interval >= 1
    /\ (args.cache_ttl.kind = "number" /\ args.cache_ttl.value % 256 > 0) <=> c.cache_ttl > 0
    /\ c.negative >= 0 => args.negative_cache.value = TRUE
=============================================================================
