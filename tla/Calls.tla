------------------------------- MODULE Calls -------------------------------
(***************************************************************************)
(* Calls of the functions that decide what a client gets and what a plugin *)
(* is told: the exchange of a server with a client, the start of the       *)
(* listeners, whom a request comes from, and the reading of arguments.  A  *)
(* behaviour is one call: an input is chosen, and one step computes what   *)
(* the code makes of it.                                                   *)
(***************************************************************************)
EXTENDS Integers, Sequences, FiniteSets

CONSTANTS Queries, Replies,      \* what clients ask, and what handlers answer
          ListenerLists,         \* lists of configured plugins
          Forwarded,             \* what X-Forwarded-For may hold
          CacheArgs,             \* arguments of a cache
          Hosts, Tags,           \* addresses and tags of upstreams
          KeyNames, KeyTypes     \* what can be asked for

VARIABLES case,      \* the call: [of, ...]
          answer     \* what came of it, or Pending

callVars == <<case, answer>>

E == INSTANCE Endpoints
A == INSTANCE PluginArgs

Pending == [pending |-> TRUE]
Call(of, result) == answer = Pending /\ case.of = of /\ answer' = result /\ UNCHANGED case

-----------------------------------------------------------------------------
(* Servers and their clients.                                              *)

\* Sizes are in octets; a client can offer what 16 bits hold.
ASSUME ExchangeAssumption ==
  /\ Queries \subseteq [parses : BOOLEAN, id : Nat, opt : Nat, len : Nat]
  /\ \A query \in Queries : query.opt <= 65535
  /\ Replies \subseteq [id : Nat, questions : Nat, records : Nat, tc : BOOLEAN]

ExchangeCases ==
  {[of |-> "exchange", transport |-> t, query |-> q, handled |-> [ok |-> ok, reply |-> r]] :
     t \in {"udp", "tcp", "dot", "doq", "get", "post"}, q \in Queries, ok \in BOOLEAN, r \in Replies}
Exchange ==
  LET q == case.query   h == case.handled IN
  CASE case.transport = "udp" -> E!UdpExchange(q, h)
    [] case.transport = "tcp" -> E!TcpExchange(q, h)
    [] case.transport = "dot" -> E!DotExchange(q, h)
    [] case.transport = "doq" -> E!DoqExchange(q, h)
    [] case.transport = "get" -> E!DohGet(IF q.len = 0 THEN "not base64" ELSE "base64", q, h)
    [] case.transport = "post" -> E!DohPost(IF q.len = 0 THEN "other" ELSE "application/dns-message", q, h)

ASSUME ListenerAssumption ==
  \A plugins \in ListenerLists : plugins \in Seq({plugins[i] : i \in 1..Len(plugins)})

\* Of every list, every order in which its listeners may bind and every choice of those
\* that the system refuses.
LaunchCases ==
  UNION {{[of |-> "launch", plugins |-> plugins, order |-> order, refused |-> refused] :
            order \in E!BindOrders(plugins), refused \in SUBSET (1..Len(plugins))} :
         plugins \in ListenerLists}
Launch == [all |-> E!LaunchAll(E!Binds(case.plugins, case.order), case.refused)]

Peer == [ip |-> "192.0.2.1", port |-> 5000]
ClientCases ==
  {[of |-> "client", transport |-> t, forwarded |-> f, trust |-> v] :
     t \in {"udp", "tcp", "dot", "doh", "doq"}, f \in Forwarded, v \in BOOLEAN}
Client == E!ClientOf(case.transport, Peer, case.forwarded, case.trust)

\* ExchangeSound: what ReplySound says of every reply and LaunchSound of every set of
\* listeners, in whatever order they bind and whatever the system refuses; and a client is known by another address than its connection's only
\* where the header is trusted and has one (doh.rs extract_client_addr).
ExchangeSound ==
  answer # Pending =>
    /\ case.of = "exchange" =>
         E!ReplySound(IF case.transport \in {"get", "post"} THEN "doh" ELSE case.transport, case.query, case.handled, answer)
    /\ case.of = "launch" =>
         E!LaunchSound(E!Binds(case.plugins, case.order), case.order, case.refused, answer.all)
    /\ case.of = "client" /\ answer.known /\ answer.ip # Peer.ip =>
           case.transport = "doh" /\ case.trust /\ answer.ip = case.forwarded[1] /\ answer.ip # "invalid"

-----------------------------------------------------------------------------
(* Arguments.                                                              *)

\* An argument has a value of its kind.
ASSUME CacheArgsAssumption ==
  \A args \in CacheArgs :
    /\ args.negative_cache.kind = "bool" => args.negative_cache.value \in BOOLEAN
    /\ \A x \in {args.negative_ttl, args.cache_ttl, args.lazycache_threshold} :
         x.kind \in {"number", "float"} => x.value \in Int

CacheCases == {[of |-> "cache", args |-> args] : args \in CacheArgs}

\* Texts are sequences of tokens, and "|" is what separates an address from its tag.
ASSUME UpstreamAssumption ==
  /\ Hosts \subseteq Seq(STRING) /\ Tags \subseteq Seq(STRING)
  /\ \A host \in Hosts : \A i \in 1..Len(host) : host[i] # "|"

UpstreamCases ==
  {[of |-> "upstream", addr |-> a, tag |-> t, concurrent |-> c] : a \in Hosts, t \in Tags, c \in {1, 2}}
Text(v) == [kind |-> "string", value |-> v]
Upstream ==
  LET item == [kind |-> "map", value |-> [addr |-> Text(case.addr), tag |-> Text(case.tag)]]
  IN A!ForwardInit([upstreams |-> [kind |-> "list", value |-> <<Text(case.addr), item>>],
                    timeout |-> A!Absent, max_attempts |-> A!Absent, strategy |-> A!Absent, health_checks |-> A!Absent,
                    concurrent |-> [kind |-> "number", value |-> case.concurrent]])

KeyMessages ==
  [questions : {<<>>} \union {<<[lower |-> n, qtype |-> t, qclass |-> 1]>> : n \in KeyNames, t \in KeyTypes},
   ad : BOOLEAN, cd : BOOLEAN, do : BOOLEAN]
KeyCases == {[of |-> "key", one |-> m, other |-> n] : m, n \in KeyMessages}
Keyed == [one |-> A!MakeKey(case.one), other |-> A!MakeKey(case.other)]

\* ArgumentsSound: what CacheSettingsSound says of every cache's settings and
\* SameUpstream of every upstream: addr|tag is the same as the mapping of addr and tag,
\* but only for an address with a port or a scheme of its own; without one the port of
\* the text ends up behind its tag, and nothing is claimed of it.  Any address without a
\* tag is the same in either form; and two queries share a key of the cache just when
\* they ask the same with the same bits (cache/mod.rs init and make_key,
\* forward/builder.rs from_args).
ArgumentsSound ==
  answer # Pending =>
    /\ case.of = "cache" => A!CacheSettingsSound(case.args, answer)
    /\ case.of = "upstream" =>
         /\ A!SameUpstream(case.addr, case.tag)
         /\ answer.core.upstreams[1].addr = answer.core.upstreams[2].addr
         /\ answer.concurrent <=> case.concurrent = 2
    /\ case.of = "key" /\ case.one.questions # <<>> => ((answer.one = answer.other) <=> case.one = case.other)

-----------------------------------------------------------------------------

CallsInit ==
  /\ \/ case \in ExchangeCases \/ case \in LaunchCases \/ case \in ClientCases
     \/ case \in CacheCases \/ case \in UpstreamCases \/ case \in KeyCases
  /\ answer = Pending

Serves == Call("exchange", Exchange) \/ Call("launch", Launch) \/ Call("client", Client)
Configures == Call("cache", A!CacheInit(case.args)) \/ Call("upstream", Upstream) \/ Call("key", Keyed)

CallsNext == Serves \/ Configures
=============================================================================
