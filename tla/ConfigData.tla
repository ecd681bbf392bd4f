----------------------------- MODULE ConfigData -----------------------------
(***************************************************************************)
(* The configuration as data: its defaults, the overrides taken from the   *)
(* environment, the validation, and the section of the web interface.      *)
(*                                                                         *)
(* A YAML value carries its payload in a field named for its kind.  An     *)
(* identifier is a sequence of words and separators, as in                 *)
(* <<"negative", "_", "ttl">>; the name of an environment variable is one  *)
(* too (in lower case, the matching being on the upper-case form).  The    *)
(* value of a variable is its text, the number the text spells and the     *)
(* YAML value it parses to.                                                *)
(***************************************************************************)
EXTENDS Integers, Sequences, FiniteSets, SequencesExt

NoFile == [none |-> TRUE]
NoNumber == -1

-----------------------------------------------------------------------------
(* serde_yaml::Value.                                                      *)

Null == [null |-> TRUE]
Number(n) == [number |-> n]
Text(s, n) == [text |-> s, spells |-> n]
Map(m) == [map |-> m]
List(s) == [list |-> s]
Unparsable == [unparsable |-> TRUE]
EmptyMap == Map([k \in {} |-> Null])

Has(v, field) == field \in DOMAIN v

-----------------------------------------------------------------------------
(* Config and its parts.                                                   *)

\* An address: how it is written, and its port.
Addr(form, port) == [form |-> form, port |-> port]

\* LogConfig, AdminConfig, MonitoringConfig: the settings and their defaults.
DefaultLog == [level |-> "info", console |-> FALSE, format |-> "text", file |-> NoFile]
DefaultAdmin == [enabled |-> FALSE, addr |-> Addr("ip:port", 8000)]
DefaultMonitoring == [enabled |-> FALSE, addr |-> Addr("ip:port", 8001)]

DefaultConfig ==
  [log |-> DefaultLog, admin |-> DefaultAdmin, monitoring |-> DefaultMonitoring, plugins |-> <<>>]

\* LogConfig::to_lazylog: whether there is a file to log to.
FileLogging(log) == log.file # NoFile /\ log.file.enabled

\* PluginConfig::effective_name: the tag, or the type.
EffectiveName(p) == IF p.tag # <<>> THEN p.tag ELSE p.type

\* PluginConfig::effective_args: those of a mapping.
EffectiveArgs(p) == IF Has(p.args, "map") THEN p.args.map ELSE EmptyMap.map

-----------------------------------------------------------------------------
(* Overrides from the environment.                                         *)

\* normalize_identifier.
Normalize(id) == [i \in DOMAIN id |-> IF id[i] = "_" THEN "-" ELSE id[i]]

\* parse_yaml_value: text that is no YAML is a string.
ParseYamlValue(v) == IF v.yaml = Unparsable THEN Text(v.text, v.spells) ELSE v.yaml

\* RE_PLUGIN_ARGS is greedy: the tag goes up to the last _ARGS_.
ArgsAt(name) ==
  {i \in 3..(Len(name) - 2) : name[i] = "_" /\ name[i + 1] = "args" /\ name[i + 2] = "_" /\ i + 2 < Len(name)}
IsPluginArg(name) ==
  /\ Len(name) > 2 /\ name[1] = "plugins" /\ name[2] = "_"
  /\ \E i \in ArgsAt(name) : i > 3
LastArgs(name) == CHOOSE i \in ArgsAt(name) : \A j \in ArgsAt(name) : j <= i
TagOf(name) == Normalize(SubSeq(name, 3, LastArgs(name) - 1))

\* The path of the argument: what stands between the underscores, which may be nothing;
\* a number is an index.
Numerals == <<"0", "1", "2">>
IsIndex(segment) == \E i \in 1..Len(Numerals) : Numerals[i] = segment
IndexOf(segment) == CHOOSE i \in 1..Len(Numerals) : Numerals[i] = segment
PathOf(name) ==
  FoldLeft(LAMBDA path, w : IF w = "_" THEN Append(path, "") ELSE Append(Front(path), w),
           <<"">>, SubSeq(name, LastArgs(name) + 3, Len(name)))

\* Mutant: a list that is long enough is cut.
ResizeAlways(s, n) == [i \in 1..n |-> IF i <= Len(s) THEN s[i] ELSE Null]

\* Vec::resize, when it is too short.
Resize(s, n) == IF Len(s) >= n THEN s ELSE [i \in 1..n |-> IF i <= Len(s) THEN s[i] ELSE Null]

\* set_path: what is on the way and is not of the kind that the segment asks for
\* is replaced by an empty mapping or list.
RECURSIVE SetPath(_, _, _)
SetPath(cur, path, value) ==
  IF path = <<>> THEN value
  ELSE IF IsIndex(Head(path))
  THEN LET i == IndexOf(Head(path))
           items == Resize(IF Has(cur, "list") THEN cur.list ELSE <<>>, i) IN
       List([items EXCEPT ![i] = SetPath(@, Tail(path), value)])
  ELSE LET m == IF Has(cur, "map") THEN cur.map ELSE EmptyMap.map
           k == <<Head(path)>>
           old == IF k \in DOMAIN m THEN m[k] ELSE Null IN
       Map([j \in DOMAIN m \union {k} |-> IF j = k THEN SetPath(old, Tail(path), value) ELSE m[j]])

\* The first plugin of the name, if any.
Addressed(config, tag) ==
  {i \in 1..Len(config.plugins) :
     /\ Normalize(EffectiveName(config.plugins[i])) = tag
     /\ \A j \in 1..(i - 1) : Normalize(EffectiveName(config.plugins[j])) # tag}

OverrideArg(config, var) ==
  [config EXCEPT !.plugins =
    [i \in DOMAIN @ |->
       IF i \in Addressed(config, TagOf(var.name))
       THEN [@[i] EXCEPT !.args = SetPath(IF Has(@, "map") THEN @ ELSE EmptyMap,
                                          PathOf(var.name), ParseYamlValue(var.value))]
       ELSE @[i]]]

\* FileLogConfig: the file is enabled, its other settings stay.
LogTo(log, path) ==
  [log EXCEPT !.file = IF @ = NoFile THEN [enabled |-> TRUE, path |-> path, compress |-> FALSE]
                       ELSE [@ EXCEPT !.enabled = TRUE, !.path = path]]

Truthy(v) == v.text \in {"true", "1", "yes"}

\* The variables with a meaning of their own.  Empty values count for the last
\* four only.
OverrideSetting(config, var) ==
  LET v == var.value
      log == config.log
      set == v.text # "" IN
  CASE var.name = <<"log", "_", "level">> /\ set -> [config EXCEPT !.log.level = v.text]
    [] var.name = <<"log", "_", "format">> /\ set -> [config EXCEPT !.log.format = v.text]
    [] var.name = <<"log", "_", "file">> /\ set -> [config EXCEPT !.log = LogTo(log, v.text)]
    [] var.name = <<"log", "_", "console">> /\ set -> [config EXCEPT !.log.console = Truthy(v)]
    [] var.name = <<"admin", "_", "enabled">> -> [config EXCEPT !.admin.enabled = Truthy(v)]
    [] var.name = <<"admin", "_", "addr">> -> [config EXCEPT !.admin.addr = v.addr]
    [] var.name = <<"metrics", "_", "enabled">> -> [config EXCEPT !.monitoring.enabled = Truthy(v)]
    [] var.name = <<"metrics", "_", "addr">> -> [config EXCEPT !.monitoring.addr = v.addr]
    [] OTHER -> config

\* One variable of apply_env_overrides_from_snapshot.
Override(config, var) ==
  IF IsPluginArg(var.name) THEN OverrideArg(config, var) ELSE OverrideSetting(config, var)

\* apply_env_overrides: the map of variables is walked in any order.  (The LOG_
\* variables are applied before as well, to the same effect.)
Overridden(config, orders) == {FoldLeft(Override, config, order) : order \in orders}

-----------------------------------------------------------------------------
(* validate_config.                                                        *)

\* The short forms ":80", "::80", ":::80" and "::1:80" are accepted.
SocketAddrOk(a) ==
  /\ a.form \in {"ip:port", "[ip]:port", ":port", "::port", ":::port", "::ip:port"}
  /\ a.port \in 1..65535

\* The integer arguments of a plugin type with their ranges.
MaxTtl == 2147483647
Range3(key, min, max) == [key |-> key, min |-> min, max |-> max]
ArgRanges(type) ==
  CASE type = <<"rate", "_", "limit">> ->
         {Range3(<<"max", "_", "queries">>, 1, 1000000), Range3(<<"window", "_", "secs">>, 1, 86400)}
    [] type = <<"ttl">> -> {Range3(<<k>>, 0, MaxTtl) : k \in {"ttl", "min", "max"}}
    [] type = <<"downloader">> ->
         {Range3(<<"timeout", "_", "secs">>, 1, 3600), Range3(<<"retry", "_", "delay", "_", "secs">>, 0, 3600),
          Range3(<<"max", "_", "retries">>, 0, 100)}
    [] type = <<"cache">> ->
         {Range3(<<"size">>, 1, MaxTtl), Range3(<<"negative", "_", "ttl">>, 0, MaxTtl)}
    [] type = <<"forward">> -> {Range3(<<"timeout">>, 1, 3600), Range3(<<"concurrent">>, 1, 1000)}
    [] OTHER -> {}

\* extract_int: a number, or a string that spells one.
ExtractInt(v) ==
  IF Has(v, "number") THEN v.number ELSE IF Has(v, "spells") THEN v.spells ELSE NoNumber

ArgsOk(p) ==
  \A r \in ArgRanges(p.type) :
    r.key \in DOMAIN EffectiveArgs(p) =>
      LET n == ExtractInt(EffectiveArgs(p)[r.key]) IN n # NoNumber /\ n >= r.min /\ n <= r.max

PluginsOk(ps) ==
  /\ \A i, j \in 1..Len(ps) : EffectiveName(ps[i]) = EffectiveName(ps[j]) => i = j
  /\ \A i \in 1..Len(ps) : ps[i].type # <<>> /\ ArgsOk(ps[i])

Validate(config) ==
  /\ config.log.level \in {"trace", "debug", "info", "warn", "error"}
  /\ config.log.format \in {"text", "json"}
  /\ SocketAddrOk(config.admin.addr)
  /\ SocketAddrOk(config.monitoring.addr)
  /\ PluginsOk(config.plugins)

-----------------------------------------------------------------------------
(* WebConfig, which the server of the web interface checks when it is      *)
(* made, and not when the configuration is loaded.                         *)

DefaultMetrics == [window_secs |-> 300, top_n |-> 10]
DefaultSse == [max_connections |-> 100, keepalive_secs |-> 30, buffer_size |-> 100]
DefaultWebSocket == [max_connections |-> 50, heartbeat_secs |-> 30, timeout_secs |-> 60]
DefaultAlerts == [enabled |-> FALSE, rules |-> <<>>, dedup_window_secs |-> 300, max_alerts |-> 1000]

DefaultWeb ==
  [enabled |-> FALSE, listen |-> Addr("ip:port", 8080), event_bus_capacity |-> 1024,
   metrics |-> DefaultMetrics, sse |-> DefaultSse, websocket |-> DefaultWebSocket, alerts |-> DefaultAlerts]

MetricsOk(m) == m.window_secs > 0 /\ m.top_n > 0
SseOk(s) == s.max_connections > 0 /\ s.keepalive_secs > 0
WebSocketOk(w) == w.max_connections > 0 /\ w.heartbeat_secs > 0 /\ w.timeout_secs > w.heartbeat_secs

ValidateWeb(w) ==
  /\ w.listen.form \in {"ip:port", "[ip]:port"}
  /\ w.event_bus_capacity > 0
  /\ MetricsOk(w.metrics) /\ SseOk(w.sse) /\ WebSocketOk(w.websocket)
=============================================================================
