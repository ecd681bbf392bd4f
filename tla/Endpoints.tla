----------------------------- MODULE Endpoints -----------------------------
(***************************************************************************)
(* What the servers do with one configuration and with one query, as       *)
(* functions: which listeners a configuration starts (launcher.rs and the  *)
(* TLS files), whom a request is said to come from, and the reply each     *)
(* transport writes.  When the servers accept, drain and stop is in        *)
(* Servers.                                                                *)
(*                                                                         *)
(* An argument of a plugin is [kind, value] with a kind of "absent",       *)
(* "string" or "other".  A PEM file is [readable, items], its items being  *)
(* [kind, pair] with a kind of "cert", "key", "other" or "bad".  Of a      *)
(* message the model keeps its id, the sizes of its question section and   *)
(* of its records, and TC; sizes are in octets.                            *)
(***************************************************************************)
EXTENDS Naturals, Sequences

-----------------------------------------------------------------------------
(* The listeners.                                                          *)

\* ServerConfig::default().  UDP and TCP are given their address by the launcher.
ServerConfig0 ==
  [max_connections |-> 1000, timeout |-> 5, max_udp_size |-> 512, max_tcp_size |-> 65535,
   doh_path |-> "/dns-query", trust_forwarded_for |-> FALSE]

\* An address is [form, ip, port]; the form ":port" stands for any IPv4 address.
NormalizeListenAddr(listen) ==
  IF listen.form = "port only" THEN [form |-> "full", ip |-> "0.0.0.0", port |-> listen.port] ELSE listen

DefaultPort(type) ==
  CASE type \in {"udp_server", "tcp_server"} -> 53
    [] type = "doh_server" -> 443
    [] type = "dot_server" -> 853
    [] type = "doq_server" -> 784

ServerTypes == {"udp_server", "tcp_server", "doh_server", "dot_server", "doq_server"}

\* parse_listen_addr: an argument that is no string counts as absent.
ParseListenAddr(listen, type) ==
  LET text == IF listen.kind = "string" THEN listen.value
              ELSE [form |-> "full", ip |-> "0.0.0.0", port |-> DefaultPort(type)]
      addr == NormalizeListenAddr(text)
  IN [ok |-> addr.form = "full", addr |-> addr]

GetEntry(entry) == IF entry.kind = "string" THEN entry.value ELSE "main_sequence"

ItemsOf(file, kind) == SelectSeq(file.items, LAMBDA i : i.kind = kind)
Parses(items) == \A i \in 1..Len(items) : items[i].kind # "bad"

\* All the certificates of the file, of which there must be one.
LoadCerts(file) ==
  [ok |-> file.readable /\ Parses(file.items) /\ ItemsOf(file, "cert") # <<>>,
   certs |-> ItemsOf(file, "cert")]

\* rustls_pemfile::private_key reads up to the first key.
LoadKey(file) ==
  LET keys == {i \in 1..Len(file.items) :
                 file.items[i].kind = "key" /\ Parses(SubSeq(file.items, 1, i))}
      first == CHOOSE i \in keys : \A j \in keys : i <= j
  IN IF file.readable /\ keys # {} THEN [ok |-> TRUE, key |-> file.items[first]]
     ELSE [ok |-> FALSE, key |-> [kind |-> "bad", pair |-> 0]]

FromFiles(cert, key) == LoadCerts(cert).ok /\ LoadKey(key).ok

\* with_single_cert: the key has to belong to the first certificate.
BuildServerConfig(cert, key) ==
  FromFiles(cert, key) /\ LoadCerts(cert).certs[1].pair = LoadKey(key).key.pair

\* DoQ takes the first item of the file for the key, whatever it is.
BuildQuicServerConfig(cert, key) ==
  /\ LoadCerts(cert).ok
  /\ key.readable /\ key.items # <<>> /\ key.items[1].kind = "key"
  /\ LoadCerts(cert).certs[1].pair = key.items[1].pair

Nothing == [state |-> "not launched"]

\* UDP and TCP bind before their task is spawned.
LaunchPlain(p, bindable) ==
  LET at == ParseListenAddr(p.listen, p.type) IN
  IF ~at.ok \/ ~bindable THEN Nothing
  ELSE [state |-> "serving", addr |-> at.addr, entry |-> GetEntry(p.entry)]

\* DoH and DoT load the files at once; that key and certificate belong together, and
\* the address, is found out in their task.  (One from_config wants an address, TLS
\* and a handler, which the launcher has set.)
LaunchTls(p, bindable) ==
  LET at == ParseListenAddr(p.listen, p.type) IN
  IF ~at.ok \/ p.cert_file.kind # "string" \/ p.key_file.kind # "string" THEN Nothing
  ELSE IF ~FromFiles(p.cert_file.value, p.key_file.value) THEN Nothing
  ELSE [state |-> IF BuildServerConfig(p.cert_file.value, p.key_file.value) /\ bindable
                    THEN "serving" ELSE "failed",
        addr |-> at.addr, entry |-> GetEntry(p.entry)]

\* What DoH is told in addition: its path, and whether to trust X-Forwarded-For.
DohSettings(p) ==
  [path |-> IF p.path.kind = "string" THEN p.path.value ELSE ServerConfig0.doh_path,
   trust |-> p.trust_forwarded_for.kind = "bool" /\ p.trust_forwarded_for.value]

\* DoQ only has the names of the files until it runs.
LaunchDoq(p, bindable) ==
  LET at == ParseListenAddr(p.listen, p.type) IN
  IF ~at.ok \/ p.cert_file.kind # "string" \/ p.key_file.kind # "string" THEN Nothing
  ELSE [state |-> IF BuildQuicServerConfig(p.cert_file.value, p.key_file.value) /\ bindable
                    THEN "serving" ELSE "failed",
        addr |-> at.addr, entry |-> GetEntry(p.entry)]

LaunchOne(p, bindable) ==
  CASE p.type \in {"udp_server", "tcp_server"} -> LaunchPlain(p, bindable)
    [] p.type \in {"doh_server", "dot_server"} -> LaunchTls(p, bindable)
    [] p.type = "doq_server" -> LaunchDoq(p, bindable)
    [] OTHER -> Nothing

\* Transport tells the sockets of UDP and QUIC from those of TCP.  Addresses are of
\* IPv4, and port 0 is any free one.
Transport(type) == IF type \in {"udp_server", "doq_server"} THEN "udp" ELSE "tcp"
Overlap(a, b) == a.port = b.port /\ a.port # 0 /\ (a.ip = b.ip \/ "0.0.0.0" \in {a.ip, b.ip})

\* launch_all: the launcher awaits the bind of a udp_server or tcp_server before it
\* goes on to the next plugin; the others bind in a task of their own, at any time
\* after it was spawned.  order[k] is the plugin that is the k-th to bind.
Inline(type) == type \in {"udp_server", "tcp_server"}
BindOrders(plugins) ==
  LET D == 1..Len(plugins) IN
  {order \in [D -> D] : \A k, l \in D :
     /\ order[k] = order[l] => k = l
     /\ k < l /\ Inline(plugins[order[l]].type) => order[k] < order[l]}
Binds(plugins, order) == [k \in 1..Len(plugins) |-> plugins[order[k]]]

\* The system lets the k-th bind unless a listener of this process has the address, or
\* it refuses for a reason of its own: another process's port, a privileged port, or
\* the socket of a DoT listener that is about to be given up for its key.
LaunchNext(binds, launched, refused, k) ==
  LET p == binds[k]
      at == IF p.type \in ServerTypes THEN ParseListenAddr(p.listen, p.type) ELSE [ok |-> FALSE]
      taken == at.ok /\ \E j \in 1..(k - 1) :
                 /\ launched[j].state = "serving"
                 /\ Overlap(launched[j].addr, at.addr)
                 /\ Transport(binds[j].type) = Transport(p.type)
  IN LaunchOne(p, ~taken /\ k \notin refused)

LaunchAll(binds, refused) ==
  LET Launched[k \in 1..Len(binds)] == LaunchNext(binds, Launched, refused, k) IN Launched

\* The admin, monitoring and web servers are launched when they are enabled; the
\* first two with their address normalised.  Monitoring starts the memory collector.
LaunchAdmin(cfg) ==
  IF cfg.enabled THEN [state |-> "launched", addr |-> NormalizeListenAddr(cfg.addr)] ELSE Nothing

LaunchMonitoring(cfg) ==
  IF cfg.enabled
    THEN [state |-> "launched", addr |-> NormalizeListenAddr(cfg.addr), memory |-> cfg.memory_metrics]
    ELSE Nothing

LaunchWeb(cfg) == IF cfg.enabled THEN [state |-> "launched", addr |-> cfg.listen] ELSE Nothing

-----------------------------------------------------------------------------
(* Whom a request comes from.                                              *)

NoClient == [known |-> FALSE]
ClientInfo(ip, port) == [known |-> TRUE, ip |-> ip, port |-> port]

\* extract_client_addr: the first address of X-Forwarded-For, when it is trusted and
\* is one; the port stays the connection's.
ExtractClientAddr(forwarded, connect, trust) ==
  IF trust /\ forwarded # <<>> /\ forwarded[1] # "invalid"
    THEN ClientInfo(forwarded[1], connect.port) ELSE ClientInfo(connect.ip, connect.port)

\* The RequestContext each server makes: DoQ's has no client.
ClientOf(transport, connect, forwarded, trust) ==
  CASE transport \in {"udp", "tcp", "dot"} -> ClientInfo(connect.ip, connect.port)
    [] transport = "doh" -> ExtractClientAddr(forwarded, connect, trust)
    [] transport = "doq" -> NoClient

-----------------------------------------------------------------------------
(* One exchange.  A query is [parses, id, opt], where opt is the class of  *)
(* its OPT record or 0; the handler's outcome is [ok, reply] with a reply  *)
(* of [id, questions, records, tc].                                        *)

HeaderSize == 12
MaxFrame == 65535

\* hickory fails when the questions do not fit into a message; of records it leaves out
\* those that do not (here: all of them) and sets TC.
Encodable(m) == HeaderSize + m.questions <= MaxFrame
Serialize(m) ==
  LET whole == HeaderSize + m.questions + m.records IN
  IF whole <= MaxFrame THEN [id |-> m.id, len |-> whole, tc |-> m.tc, records |-> m.records]
  ELSE [id |-> m.id, len |-> HeaderSize + m.questions, tc |-> TRUE, records |-> 0]

\* PluginHandler::handle gives the reply, or a SERVFAIL of its own, the query's id.
WithRequestId(query, reply) == [reply EXCEPT !.id = query.id]

\* Mutant: what the client asks for is taken as it is.
ClientUdpLimitLow(query) == IF query.opt > 0 THEN query.opt ELSE ServerConfig0.max_udp_size

\* client_udp_limit: what the OPT record of the query offers, from 512 on.  A class
\* that has a name (IN, CH, HS, NONE, ANY, all below 512) is no size.
ClientUdpLimit(query) ==
  IF query.opt >= ServerConfig0.max_udp_size THEN query.opt ELSE ServerConfig0.max_udp_size

\* fit_udp_response: too large a reply goes without records and with TC.
FitUdpResponse(reply, limit) ==
  IF Serialize(reply).len <= limit THEN Serialize(reply)
  ELSE Serialize([reply EXCEPT !.tc = TRUE, !.records = 0])

Silence == [sent |-> FALSE]
Sent(data) == [sent |-> TRUE, data |-> data]
Framed(data) == [sent |-> TRUE, prefix |-> data.len % 65536, data |-> data]

\* handle_request of UDP: what cannot be parsed, fails or cannot be encoded is not
\* answered.
UdpExchange(query, handled) ==
  IF ~query.parses \/ ~handled.ok \/ ~Encodable(handled.reply) THEN Silence
  ELSE Sent(FitUdpResponse(WithRequestId(query, handled.reply), ClientUdpLimit(query)))

\* handle_connection of TCP: a message longer than max_tcp_size is refused, and so is
\* a reply that has no length.  The other servers of streams do the same but for the
\* empty message, which DoT takes for the end.
TcpExchange(query, handled) ==
  LET data == Serialize(WithRequestId(query, handled.reply)) IN
  IF query.len > ServerConfig0.max_tcp_size \/ ~query.parses \/ ~handled.ok THEN Silence
  ELSE IF ~Encodable(handled.reply) \/ data.len > MaxFrame THEN Silence ELSE Framed(data)

DotExchange(query, handled) ==
  LET data == Serialize(WithRequestId(query, handled.reply)) IN
  IF query.len = 0 \/ query.len > MaxFrame \/ ~query.parses \/ ~handled.ok THEN Silence
  ELSE IF ~Encodable(handled.reply) \/ data.len > MaxFrame THEN Silence ELSE Framed(data)

\* handle_stream of DoQ: the length is cut to 16 bits.
DoqExchange(query, handled) ==
  IF ~query.parses \/ ~handled.ok \/ ~Encodable(handled.reply) THEN Silence
  ELSE Framed(Serialize(WithRequestId(query, handled.reply)))

Status(code) == [sent |-> TRUE, status |-> code]
HttpReply(query, handled) ==
  IF ~handled.ok \/ ~Encodable(handled.reply) THEN Status(500)
  ELSE [sent |-> TRUE, status |-> 200, data |-> Serialize(WithRequestId(query, handled.reply))]

\* handle_get_query: the query is the parameter dns, in base64url.
DohGet(param, query, handled) ==
  IF param \in {"missing", "not base64"} \/ ~query.parses THEN Status(400)
  ELSE HttpReply(query, handled)

\* handle_post_query.
DohPost(contentType, query, handled) ==
  CASE contentType = "missing" -> Status(400)
    [] contentType = "other" -> Status(415)
    [] OTHER -> IF ~query.parses THEN Status(400) ELSE HttpReply(query, handled)

\* DefaultHandler, which servers have in examples: the query comes back as a reply.
DefaultHandle(message) == [message EXCEPT !.response = TRUE, !.recursion_available = FALSE]

-----------------------------------------------------------------------------
(* Properties.                                                             *)

\* ReplySound(transport, query, handled, answer): what a client gets is a reply to
\* its query, by id; over UDP it is whole if it fits what the client can take,
\* incomplete only with TC, and larger than the client can take only when its header
\* and questions alone are, with TC and without records; on a stream the length before
\* it is its length; and a query whose handling fails is never given a reply (udp.rs
\* handle_request, tcp.rs and dot.rs handle_connection, doq.rs handle_stream, doh.rs).
ReplySound(transport, query, handled, answer) ==
  /\ transport = "doh" => answer.sent
  /\ "data" \in DOMAIN answer =>
       /\ query.parses /\ handled.ok
       /\ answer.data.id = query.id
       /\ transport = "udp" =>
            LET offered == IF query.opt > 512 THEN query.opt ELSE 512
                least == HeaderSize + handled.reply.questions IN
            /\ least + handled.reply.records <= offered => answer.data.records = handled.reply.records
            /\ answer.data.records # handled.reply.records => answer.data.tc
            /\ answer.data.len > offered => least > offered /\ answer.data.records = 0 /\ answer.data.tc
  /\ "prefix" \in DOMAIN answer => answer.prefix = answer.data.len

\* A plugin that is a listener, with an address and, where it needs them, certificates
\* and a key that can be read and belong together.
Startable(p) ==
  /\ p.type \in ServerTypes /\ ParseListenAddr(p.listen, p.type).ok
  /\ ~Inline(p.type) =>
       /\ p.cert_file.kind = "string" /\ p.key_file.kind = "string"
       /\ IF p.type = "doq_server" THEN BuildQuicServerConfig(p.cert_file.value, p.key_file.value)
          ELSE BuildServerConfig(p.cert_file.value, p.key_file.value)

\* LaunchSound(binds, order, refused, launched): a listener that serves has the port its
\* configuration names; one that could start and does not was refused by the system,
\* or another that serves has its address, which for a udp_server or tcp_server is one
\* listed before it: one that fails keeps no other from starting (launcher.rs).
LaunchSound(binds, order, refused, launched) ==
  \A k \in 1..Len(binds) :
    LET p == binds[k] IN
    /\ launched[k].state = "serving" /\ p.listen.kind = "string" =>
         launched[k].addr.port = p.listen.value.port
    /\ Startable(p) /\ launched[k].state # "serving" =>
         \/ k \in refused
         \/ \E j \in 1..Len(binds) :
              /\ launched[j].state = "serving" /\ Transport(binds[j].type) = Transport(p.type)
              /\ Overlap(launched[j].addr, ParseListenAddr(p.listen, p.type).addr)
              /\ Inline(p.type) => order[j] < order[k]
=============================================================================
