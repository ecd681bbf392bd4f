------------------------------- MODULE MCData -------------------------------
(***************************************************************************)
(* More calls, of the functions that work on names, addresses and whole    *)
(* messages: matching, conversion and rewriting.  The properties compare   *)
(* what the code computes with a definition made from labels, bits and     *)
(* sets.  Also the inputs for the calls of Calls.                          *)
(***************************************************************************)
EXTENDS Calls, SequencesExt

C == INSTANCE Conditions WITH Invalid <- "(", Width <- 2
S == INSTANCE AddressSets WITH Width <- 2
R == INSTANCE Rewriting WITH Invalid <- "(", Word <- 4
W == INSTANCE Wire
Q == INSTANCE QueryLog

Str(v) == [type |-> "str", value |-> v]
Absent == [type |-> "absent"]

-----------------------------------------------------------------------------
(* Names: labels are "a", "b" and "ab", so that one is the end of another. *)

Labels == {<<"a">>, <<"b">>, <<"a", "b">>}
LabelLists == {<<l>> : l \in Labels} \union {<<l, m>> : l, m \in Labels}
              \union {<<l, <<"a">>, <<"b">>>> : l \in Labels}

\* The text of a list of labels.
Dotted(labels) ==
  FlattenSeq([i \in 1..Len(labels) |-> IF i = 1 THEN labels[i] ELSE <<".">> \o labels[i]])

Rules == {[prefix |-> "none", default |-> "domain"], [prefix |-> "none", default |-> "full"],
          [prefix |-> "full", default |-> "domain"], [prefix |-> "keyword", default |-> "domain"],
          [prefix |-> "regexp", default |-> "domain"]}

NameCases ==
  {[of |-> "name", rule |-> r, value |-> v, written |-> u, name |-> n, root |-> t, asked |-> u2] :
     r \in Rules, v \in {l \in LabelLists : Len(l) < 3}, u \in BOOLEAN, n \in LabelLists,
     t \in BOOLEAN, u2 \in BOOLEAN}

Ip4 == [version |-> 4, bits |-> 1]
Ip6 == [version |-> 6, bits |-> 2]

\* The same rule in a domain_set asked through a qname condition, in geo_site, in a
\* hosts file and in an arbitrary record.
LookUpName ==
  LET value == C!Text(Dotted(case.value), case.written)
      qname == C!Text(Dotted(case.name) \o (IF case.root THEN <<".">> ELSE <<>>), case.asked)
      line == [comment |-> FALSE, prefix |-> case.rule.prefix, value |-> value]
      remark == [line EXCEPT !.comment = TRUE]
      args == C!DomainSetInit([match_type |-> case.rule.default, files |-> Str("file"), exps |-> Absent,
                               auto_reload |-> FALSE])
      rules == C!LoadDomains(<<<<remark, line>>>>, <<>>, args.default)
      set == [kind |-> "domain_set", rules |-> rules]
      ask(type) == <<[qname |-> qname, qtype |-> type]>>
      holds(builder, word) ==
        C!Holds(C!BuildCondition(builder, <<[type |-> "word", value |-> word]>>, [s \in {"set"} |-> set]),
                [questions |-> ask(1)])
      geo(pattern) ==
        C!GeoSiteExecute(C!LoadGeoSite(<<[words |-> 2, category |-> "cat", pattern |-> pattern, value |-> value]>>), ask("A"))
      hosts == C!HostsLoad(<<<<[type |-> "ip", value |-> Ip4], [type |-> "name", value |-> value],
                               [type |-> "ip", value |-> Ip6]>>>>)
      record == [comment |-> FALSE, words |-> 3, name |-> value, rtype |-> "A",
                 data |-> [type |-> "ip", value |-> Ip4]]
  IN [set |-> holds("qname", "set"), not |-> holds("!qname", value),
      exact |-> geo("exact"), suffix |-> geo("suffix"),
      hosts |-> C!HostsExecute(hosts, C!NoResponse, ask("AAAA")),
      arbitrary |-> C!ArbitraryExecute(C!ArbitraryNew(<<record>>), C!NoResponse, ask("A"))]

\* DomainMatchCorrect: a name is in a set exactly when the rule says so label by
\* label (domain), as a whole (full) or as a part of its text (keyword, regexp), in
\* whatever case the name is asked for, and with or without its root dot.  The case of
\* a rule does not matter either, except that nothing is claimed of a regexp rule that
\* has upper case: its pattern is kept as it is, and the documents disagree.  hosts and
\* arbitrary agree, and so do geo_site and !qname, of a name without the root dot (as
\* it comes from a message): those two take the name as it is (domain_set.rs matches,
\* geosite.rs, qname_neg.rs, hosts.rs, arbitrary.rs).
SameName(c) == c.value = c.name
Below(c) == IsSuffix(c.value, c.name)
PartOf(c) == \E i, j \in 1..Len(Dotted(c.name)) : SubSeq(Dotted(c.name), i, j) = Dotted(c.value)
TypeOf(c) == IF c.rule.prefix = "none" THEN c.rule.default ELSE c.rule.prefix
DomainMatchCorrect ==
  case.of = "name" /\ answer # Pending =>
    /\ TypeOf(case) = "full" => (answer.set <=> SameName(case))
    /\ TypeOf(case) = "domain" => (answer.set <=> Below(case))
    /\ TypeOf(case) = "keyword" \/ (TypeOf(case) = "regexp" /\ ~case.written) => (answer.set <=> PartOf(case))
    /\ ~case.root => /\ answer.not <=> ~SameName(case)
                     /\ answer.exact = IF SameName(case) THEN {"cat"} ELSE {"none"}
                     /\ answer.suffix = IF Below(case) THEN {"cat"} ELSE {"none"}
    /\ (answer.hosts # C!NoResponse) <=> SameName(case)
    /\ SameName(case) => answer.hosts.answers = <<[type |-> "ip", value |-> Ip6]>>
    /\ (answer.arbitrary # C!NoResponse) <=> SameName(case)

-----------------------------------------------------------------------------
(* Addresses of two bits.                                                  *)

Bit(ip, i) == (ip.bits \div 2^(2 - i)) % 2
Inside(net, ip) == net.addr.version = ip.version /\ \A i \in 1..net.prefix : Bit(net.addr, i) = Bit(ip, i)

AddressCases ==
  {[of |-> "address", allow |-> n, deny |-> m, default |-> d, ip |-> ip] :
     n \in C!Networks, m \in {x \in C!Networks : x.prefix # 1}, d \in {"absent", "allow"}, ip \in C!Addresses}

Net(n) == [type |-> "net", net |-> n, words |-> 2, country |-> "xx"]

LookUpAddress ==
  LET rule(n, action) == [type |-> "net", net |-> n, action |-> action]
      acl == C!AclInit(case.default, <<rule(case.allow, "allow"), rule(case.deny, "deny")>>)
      args == C!IpSetInit([files |-> Absent, ips |-> Str("net"), auto_reload |-> FALSE])
      nets == C!LoadNetworks(<<<<[type |-> "none"], Net(case.allow)>>>>, IF args.ips = <<>> THEN <<>> ELSE <<Net(case.deny)>>)
      answers == <<[type |-> "CNAME"], [type |-> IF case.ip.version = 4 THEN "A" ELSE "AAAA", ip |-> case.ip]>>
      set == [kind |-> "ip_set", rules |-> nets]
      holds(builder) ==
        C!Holds(C!BuildCondition(builder, <<[type |-> "word", value |-> "set"]>>, [s \in {"set"} |-> set]),
                [has_response |-> TRUE, answers |-> answers])
      group(size, family, mask) == [fields |-> size, family |-> family, set |-> Str("s"), mask |-> [type |-> "number", value |-> mask]]
      mask == case.deny.prefix
      ipset == S!IpsetQuickSetup("ipset", <<group(3, "inet", mask), group(3, "inet6", mask)>>)
      nft == S!NftsetQuickSetup("nftset", <<group(5, "ipv4_addr", mask), group(5, "ipv6_addr", mask)>>)
      nfted == S!NftsetExecute(nft, answers, [v4 |-> <<>>, v6 |-> <<>>])
      added == S!IpsetExecute(ipset, answers, <<>>)
      ros == S!RosInit([addrlist |-> S!NotSet, server |-> Str("router"), user |-> S!NotSet, passwd |-> S!NotSet,
                        mask4 |-> mask, mask6 |-> mask])
  IN [acl |-> C!AclExecute(acl, case.ip, "none"), set |-> holds("resp_ip"), not |-> holds("!resp_ip"),
      allowed |-> C!Evaluate(C!AllowList(<<case.allow>>), case.ip), denied |-> C!Evaluate(C!DenyList(<<case.allow>>), case.ip),
      country |-> C!GeoIpExecute(C!LoadGeoIp(<<Net(case.allow)>>), answers),
      ipset |-> S!AddToSets({}, added, {}), nft |-> nfted.v4 \o nfted.v6,
      ros |-> S!RosExecute(ros, TRUE, answers, <<400>>, {})]

\* AddressMatchCorrect: an address is in a network when it has its version and its
\* leading bits; the first rule of an access list that holds an address decides,
\* and the default otherwise; what ipset and nftset add for an address is the
\* network of the mask that holds it, and no larger one; ros_addrlist adds the address
\* itself when its masks are those of one address, and nothing is claimed of shorter
\* ones, which it does not apply though its documents say so (ip_set.rs, acl.rs
\* evaluate, geoip.rs, ipset.rs and nftset.rs make_v4_prefix and make_v6_prefix,
\* ros_addrlist.rs).
AddressMatchCorrect ==
  case.of = "address" /\ answer # Pending =>
    LET in == Inside(case.allow, case.ip)
        out == Inside(case.deny, case.ip)
        exact(net) == {ip \in C!Addresses : C!NetContains(net, ip)} =
                      {ip \in C!Addresses : Inside([addr |-> case.ip, prefix |-> case.deny.prefix], ip)}
    IN
    /\ answer.acl = IF in THEN "none" ELSE IF out \/ case.default = "absent" THEN "Refused" ELSE "none"
    /\ (answer.set <=> in \/ out) /\ (answer.not <=> ~answer.set)
    /\ (answer.allowed = "allow") <=> in
    /\ (answer.denied = "deny") <=> in
    /\ answer.country = IF in THEN {"xx"} ELSE {"none"}
    /\ Cardinality(answer.ipset) = 1 /\ \A x \in answer.ipset : exact(x.net)
    /\ Len(answer.nft) = 1 /\ exact(answer.nft[1].net)
    /\ case.deny.prefix = 2 => answer.ros = {case.ip}

-----------------------------------------------------------------------------
(* Messages in the form of the hickory library.                            *)

WireNames == {<<>>, <<"y">>, <<"x", "y">>, <<W!Escaped>>, <<"y", W!Escaped>>}
Record(name, rtype, rclass, kind, names, rest) ==
  [name |-> name, rtype |-> rtype, rclass |-> rclass, ttl |-> 5,
   data |-> [kind |-> kind, names |-> names, rest |-> rest]]
WireRecords ==
  {Record(<<"y">>, 1, c, "A", <<>>, "bytes") : c \in {1, 3, 254}}
  \union {Record(n, 5, 1, "CNAME", <<m>>, "none") : n, m \in WireNames}
  \union {Record(<<"y">>, 16, 1, "TXT", <<>>, t) : t \in {"text", "not utf-8"}}
  \union {Record(<<"y">>, 257, 1, "CAA", <<>>, "bytes"), Record(<<"y">>, 99, 1, "Unknown", <<>>, "bytes")}
  \union {Record(<<"y">>, 1, c, "none", <<>>, "none") : c \in {254, 255}}
  \union {Record(<<"y">>, 65, 1, "not encodable", <<>>, "none")}
OptionMaps ==
  {[o \in {} |-> <<>>], [o \in {8} |-> <<1, 2>>], [o \in {10} |-> <<>>],
   [o \in {8, 10} |-> IF o = 8 THEN <<2>> ELSE <<>>], [o \in {0, 3} |-> IF o = 0 THEN <<>> ELSE <<1, 1>>]}
Ednses == {<<>>} \union {<<[rcode_high |-> r, version |-> 0, dnssec_ok |-> d, max_payload |-> p, options |-> o]>> :
                          r \in {0, 1}, d \in BOOLEAN, p \in {1, 511, 512, 1232}, o \in OptionMaps}
Plain ==
  [id |-> 7, qr |-> TRUE, aa |-> FALSE, tc |-> FALSE, rd |-> TRUE, ra |-> TRUE, ad |-> FALSE, cd |-> TRUE,
   opcode |-> 0, rcode |-> 0, queries |-> <<>>, answers |-> <<>>, name_servers |-> <<>>, additionals |-> <<>>,
   edns |-> <<>>]
WireMessages ==
  {[Plain EXCEPT !.opcode = o, !.rcode = r] : o \in {0, 2, 4, 5}, r \in {0, 3, 10, 11, 255, 300}}
  \union {[Plain EXCEPT !.queries = <<[name |-> n, qtype |-> t, qclass |-> c]>>] :
            n \in WireNames, t \in {1, 65, 99}, c \in {1, 3, 255}}
  \union {[Plain EXCEPT !.answers = <<r>>, !.name_servers = <<s>>] : r, s \in WireRecords}
  \union {[Plain EXCEPT !.additionals = a, !.edns = e] :
            a \in {<<>>, <<Record(<<"y">>, 1, 255, "none", <<>>, "none"), Record(<<"y">>, 1, 1, "A", <<>>, "bytes")>>},
            e \in Ednses}
WireCases == {[of |-> "wire", message |-> m] : m \in WireMessages}

RoundTrip == W!ConvertToHickory(W!ConvertFromHickory(case.message))

\* WireTransparent: what was parsed is serialised as it was, names with escaped dots,
\* unknown types, classes and codes and every EDNS option included.  The exceptions
\* are the code's: a question leaves as class IN, text that is no UTF-8 is replaced,
\* response codes end at 255, payload sizes begin at 512, and a record without data, as
\* an UPDATE has them, or with data hickory cannot write is left out (wire.rs
\* convert_from_hickory, convert_hickory_record, convert_to_hickory).  How hickory
\* writes a name's text and reads it is taken to be exact.
SameRecords(rs) ==
  LET kept == SelectSeq(rs, LAMBDA r : r.data.kind \notin {"none", "not encodable"})
  IN [i \in 1..Len(kept) |->
        IF kept[i].data.rest = "not utf-8" THEN [kept[i] EXCEPT !.data.rest = "replaced"] ELSE kept[i]]
WireTransparent ==
  case.of = "wire" /\ answer # Pending =>
    LET m == case.message IN
    answer = [m EXCEPT !.rcode = IF @ > 255 THEN 255 ELSE @,
                       !.queries = [i \in 1..Len(@) |-> [@[i] EXCEPT !.qclass = 1]],
                       !.answers = SameRecords(@), !.name_servers = SameRecords(@),
                       !.additionals = SameRecords(@),
                       !.edns = [i \in 1..Len(@) |-> [@[i] EXCEPT !.max_payload = IF @ < 512 THEN 512 ELSE @]]]

-----------------------------------------------------------------------------
(* Rewriting.                                                              *)

RedirectCases ==
  {[of |-> "redirect", from |-> f, wild |-> v, to |-> t, to_wild |-> w, name |-> n] :
     f \in {l \in LabelLists : Len(l) < 3}, v, w \in BOOLEAN, t \in {<<<<"a">>>>, <<<<"b">>, <<"a">>>>}, n \in LabelLists}
Wild(labels, is) == C!Text((IF is THEN <<"*", ".">> ELSE <<>>) \o Dotted(labels), FALSE)
Redirect ==
  LET rule == [type |-> "from and to", from |-> Wild(case.from, case.wild), to |-> Wild(case.to, case.to_wild)]
      rules == R!RedirectInit([type |-> "seq", value |-> <<rule>>])
  IN R!RedirectExecute(rules, <<[qname |-> Wild(case.name, FALSE), qtype |-> "A"]>>)[1].qname

Rr(type) == [type |-> type, ttl |-> 2]
AnswerLists == {<<>>} \union {<<Rr(t)>> : t \in {"A", "AAAA", "CNAME"}}
               \union {<<Rr(t), Rr(u), Rr(v)>> : t, u, v \in {"A", "AAAA", "CNAME"}}
TtlArgs == {[type |-> "number", value |-> n] : n \in {0, 1, 3, 4}} \union {R!Absent}
ResponseCases ==
  {[of |-> "response", answers |-> a, preference |-> p] : a \in AnswerLists, p \in DOMAIN R!Preferences \union {"absent"}}
  \union {[of |-> "ttl", args |-> [ttl |-> x, min |-> y, max |-> z]] : x, y, z \in TtlArgs}
Selected ==
  LET response == [R!Reply(0, <<>>, case.answers) EXCEPT !.additional = case.answers]
  IN [dual |-> R!DualSelectorExecute(R!DualSelectorInit(case.preference), response).answers,
      ipv4 |-> R!PreferIpv4Execute(response), ipv6 |-> R!PreferIpv6Execute(response)]
Limited ==
  LET response == [R!Reply(0, <<>>, <<Rr("A")>>) EXCEPT !.authority = <<Rr("SOA")>>, !.additional = <<Rr("A"), Rr("A")>>]
      p == R!TtlInit(case.args)
      new == R!TtlExecute(p, response)
  IN [plugin |-> p, ttls |-> {r.ttl : r \in ToSet(new.answers \o new.authority \o new.additional)}]

Octets(version) == [i \in 1..(IF version = 4 THEN 4 ELSE 16) |-> i]
EcsCases ==
  {[of |-> "ecs", version |-> v, mask4 |-> m, mask6 |-> n, forward |-> f] :
     v \in {4, 6}, m \in {0, 1, 8, 9, 24, 31, 32, 33}, n \in {0, 7, 48, 128, 129}, f \in BOOLEAN}
Subnet ==
  LET kv(k, v) == [key |-> k, value |-> v]
      number(n) == [type |-> "number", value |-> n]
      plugin == R!EcsQuickSetup("ecs", <<kv("mask4", number(1)), kv("mask4", number(case.mask4)), kv("mask6", number(case.mask6)),
                   kv("preset", [type |-> "ip", value |-> [version |-> case.version, octets |-> Octets(case.version)]]),
                   kv("forward", [type |-> "bool", value |-> case.forward])>>)
      ctx == [metadata |-> [k \in {"other"} |-> <<>>]]
  IN IF "error" \in DOMAIN plugin THEN [options |-> <<>>, other |-> TRUE]
     ELSE LET new == R!EcsExecute(plugin, ctx)
          IN [options |-> new.metadata["edns0_options"], other |-> "other" \in DOMAIN new.metadata]

SinkCases ==
  {[of |-> "sink", type |-> t, ips |-> s, count |-> n] :
     t \in {"A", "AAAA", "TXT"}, s \in {<<4>>, <<6>>, <<4, 6, 4>>, <<>>}, n \in 0..2}
Sunk ==
  LET ip(i) == [type |-> "ip", value |-> [version |-> case.ips[i], number |-> i]]
      plugin == R!BlackholeQuickSetup("black_hole", [i \in 1..Len(case.ips) |-> ip(i)])
      questions == [i \in 1..case.count |-> [qname |-> "q", qtype |-> case.type]]
  IN [sunk |-> R!BlackholeExecute(plugin, questions, R!NoReply),
      rejected |-> R!RejectExecute(R!RejectQuickSetup("reject", [type |-> "str", value |-> "refused"]), questions),
      dropped |-> R!DropRespExecute(R!Reply(0, questions, <<>>))]

\* RewriteSound: a wildcard redirect rewrites exactly the names at or below its
\* domain, and keeps the labels in front; the ttl plugin leaves every record of
\* every section within its limits; a selector takes away only addresses of one
\* version, and a preference never the last ones; an ECS option has just the octets
\* its mask reaches; a black hole answers one question with addresses of its type,
\* all of them, and nothing else.  Of the bits after a mask in its last octet nothing is
\* claimed: the code leaves them, where RFC 7871, which it names, has zeros (redirect.rs, ttl.rs, dual_selector.rs,
\* prefer_ipv4.rs, prefer_ipv6.rs, ecs.rs, black_hole.rs, reject.rs).
Redirected(c) ==
  IF ~(IF c.wild THEN IsSuffix(c.from, c.name) ELSE c.from = c.name) THEN Wild(c.name, FALSE)
  ELSE IF c.wild /\ c.to_wild THEN Wild(SubSeq(c.name, 1, Len(c.name) - Len(c.from)) \o c.to, FALSE)
  ELSE Wild(c.to, c.to_wild)
Kept(all, types) == SelectSeq(all, LAMBDA r : r.type \in types)
Selects(old, new) ==
  LET has(rs, t) == Kept(rs, {t}) # <<>> IN
  /\ new \in {old, Kept(old, {"A", "CNAME"}), Kept(old, {"AAAA", "CNAME"})}
  /\ case.preference \in {"ipv4", "ipv6"} => ~has(new, IF case.preference = "ipv4" THEN "AAAA" ELSE "A")
  /\ case.preference \notin {"ipv4", "ipv6"} => (has(old, "A") \/ has(old, "AAAA") => has(new, "A") \/ has(new, "AAAA"))
Limits(p, ttl) ==
  IF p.fix > 0 THEN ttl = p.fix
  ELSE p.min <= p.max \/ p.max = 0 =>
         /\ ttl >= p.min /\ (p.max > 0 => ttl <= p.max)
         /\ 2 >= p.min /\ (p.max > 0 => 2 <= p.max) => ttl = 2
RewriteSound ==
  answer # Pending =>
    /\ case.of = "redirect" => answer = Redirected(case)
    /\ case.of = "response" =>
         /\ Selects(case.answers, answer.dual)
         /\ answer.ipv4.answers = Kept(case.answers, {"A", "CNAME"}) /\ answer.ipv4.additional = answer.ipv4.answers
         /\ answer.ipv6.answers = Kept(case.answers, {"AAAA", "CNAME"}) /\ answer.ipv6.additional = answer.ipv6.answers
    /\ case.of = "ttl" => Cardinality(answer.ttls) = 1 /\ \A t \in answer.ttls : Limits(answer.plugin, t)
    /\ case.of = "ecs" =>
         LET mask == IF case.version = 4 THEN case.mask4 ELSE case.mask6 IN
         /\ (answer.options = <<>>) <=> (case.mask4 > 32 \/ case.mask6 > 128)
         /\ answer.options # <<>> =>
              /\ answer.options[1].address = SubSeq(Octets(case.version), 1, Len(answer.options[1].address))
              /\ Len(answer.options[1].address) * 8 \in mask..(mask + 7) /\ answer.other
    /\ case.of = "sink" =>
         LET own == IF case.type = "A" THEN {4} ELSE IF case.type = "AAAA" THEN {6} ELSE {}
             used == {i \in 1..Len(case.ips) : case.ips[i] \in own} IN
         /\ answer.sunk.qr <=> case.count = 1 /\ used # {}
         /\ answer.sunk.qr => {r.data.number : r \in ToSet(answer.sunk.answers)} = used
         /\ answer.rejected.rcode = 5 /\ answer.dropped = R!NoReply

-----------------------------------------------------------------------------
(* The inputs of the calls of Calls: servers and their clients.            *)

MCQueries == [parses : BOOLEAN, id : {65535}, opt : {0, 3, 511, 512, 1232}, len : {0, 40}]
MCReplies == [id : {0}, questions : {16, 260, 520, 65530}, records : {0, 236, 237, 484, 485, 956, 65264, 65536}, tc : BOOLEAN]

NoArg == [kind |-> "absent"]
Pem(kinds, pair) == Text([readable |-> TRUE, items |-> [i \in 1..Len(kinds) |-> [kind |-> kinds[i], pair |-> pair]]])
Addr(form, ip, port) == Text([form |-> form, ip |-> ip, port |-> port])
Listens == {NoArg, Addr("full", "127.0.0.1", 853), Addr("port only", "none", 853), Addr("invalid", "none", 853)}
Plugin(type, listen, cert, key) ==
  [type |-> type, listen |-> listen, entry |-> NoArg, cert_file |-> cert, key_file |-> key,
   path |-> NoArg, trust_forwarded_for |-> NoArg]
ListenerPlugins ==
  {Plugin(t, l, NoArg, NoArg) : t \in {"udp_server", "tcp_server", "cache"}, l \in Listens}
  \union {Plugin(t, Addr("full", "0.0.0.0", 853), Pem(<<"cert">>, 1), k) :
            t \in {"doh_server", "dot_server", "doq_server"},
            k \in {NoArg, Pem(<<"key">>, 1), Pem(<<"other", "key">>, 1), Pem(<<"key">>, 2), Pem(<<"bad">>, 1)}}
MCListenerLists == {<<p, q>> : p, q \in ListenerPlugins}
MCForwarded == {<<>>, <<"8.8.8.8">>, <<"invalid">>}

Numbers == {A!Absent} \union {[kind |-> "number", value |-> n] : n \in {-1, 0, 1, 200, 256}}
           \union {[kind |-> "float", value |-> 1], [kind |-> "string", value |-> 1]}
Flags == {[kind |-> "absent", value |-> FALSE], [kind |-> "bool", value |-> TRUE], [kind |-> "bool", value |-> FALSE]}
MCCacheArgs ==
  {[size |-> A!Absent, negative_cache |-> n, negative_ttl |-> t, cache_ttl |-> c,
    enable_lazycache |-> l, lazycache_threshold |-> h, dump_file |-> A!Absent] :
     n, l \in Flags, t \in {A!Absent, [kind |-> "string", value |-> 1]}, c, h \in Numbers}

MCHosts == {<<"h">>, <<"h", ":", "5353">>, <<"udp://", "h">>, <<"udp://", "h", ":", "53">>, <<"tls://", "h">>,
            <<"tcp://", "udp://", "h">>, <<"https://", "h", "/dns-query">>}
MCTags == {<<"t">>, <<"t", "|", "u">>}

-----------------------------------------------------------------------------
(* The calls.                                                              *)

DataInit ==
  /\ \/ case \in NameCases \/ case \in AddressCases \/ case \in WireCases
     \/ case \in RedirectCases \/ case \in ResponseCases \/ case \in EcsCases \/ case \in SinkCases
  /\ answer = Pending

LookUpNames == Call("name", LookUpName)
LookUpAddresses == Call("address", LookUpAddress)
RoundTrips == Call("wire", RoundTrip)
Rewrites == \/ Call("redirect", Redirect) \/ Call("response", Selected) \/ Call("ttl", Limited)
            \/ Call("ecs", Subnet) \/ Call("sink", Sunk)

DataNext == LookUpNames \/ LookUpAddresses \/ RoundTrips \/ Rewrites
DataSpec == DataInit /\ [][DataNext]_callVars
=============================================================================
