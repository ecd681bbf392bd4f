----------------------------- MODULE Rewriting -----------------------------
(***************************************************************************)
(* The plugins that change a query or a response in place: redirect, ttl,  *)
(* black_hole, drop_resp, mark, dual_selector, prefer_ipv4, prefer_ipv6,   *)
(* reject, ecs and edns0_opt, with what their configuration becomes.       *)
(*                                                                         *)
(* Of a context: request.questions, response (NoReply without one) and     *)
(* metadata, a function from keys to values.  A configuration argument     *)
(* that is not given is Absent; Refused stands for an error of init or     *)
(* quick_setup.                                                            *)
(***************************************************************************)
EXTENDS DomainData

CONSTANT Word            \* numbers of the configuration are taken modulo Word (2^32 in the code)

Absent == [type |-> "absent"]
Refused == [error |-> "Config"]

NoReply == [qr |-> FALSE, rcode |-> 0, questions |-> <<>>, answers |-> <<>>, authority |-> <<>>,
            additional |-> <<>>]
Reply(rcode, questions, answers) ==
  [NoReply EXCEPT !.qr = TRUE, !.rcode = rcode, !.questions = questions, !.answers = answers]

\* Context::set_metadata.
SetMetadata(ctx, key, value) ==
  [ctx EXCEPT !.metadata = [k \in DOMAIN @ \union {key} |-> IF k = key THEN value ELSE @[k]]]

-----------------------------------------------------------------------------
(* redirect.                                                               *)

Star == "*"
IsWild(tokens) == IsPrefix(<<Star, Dot>>, tokens)
Suffix(tokens) == SubSeq(tokens, 3, Len(tokens))

\* Mutant: the boundary of a label is not asked for.
RuleMatchesLoose(rule, qname) ==
  LET from == rule.from.tokens IN
  IF IsWild(from) THEN IsSuffix(Suffix(from), qname.tokens) ELSE qname.tokens = from

RuleMatches(rule, qname) ==
  LET from == rule.from.tokens IN
  IF IsWild(from) THEN qname.tokens = Suffix(from) \/ IsSuffix(<<Dot>> \o Suffix(from), qname.tokens)
  ELSE qname.tokens = from

\* What is before the suffix goes before the suffix of the target; a name or a
\* target of another form is replaced as a whole, in the case it is written in.
RuleApply(rule, qname) ==
  LET from == rule.from.tokens   to == rule.to.tokens
      kept == SubSeq(qname.tokens, 1, Len(qname.tokens) - Len(Suffix(from)))
      dots == kept # <<>> /\ Last(kept) = Dot /\ Suffix(to) # <<>> /\ Head(Suffix(to)) = Dot
  IN  IF IsWild(from) /\ IsWild(to) /\ IsSuffix(Suffix(from), qname.tokens)
      THEN Text((IF dots THEN Front(kept) ELSE kept) \o Suffix(to), FALSE)
      ELSE rule.to

\* An entry is a string of two words or a mapping with both names.
RedirectInit(rules) ==
  IF \/ rules = Absent \/ rules.type # "seq" \/ rules.value = <<>>
     \/ \E i \in 1..Len(rules.value) : rules.value[i].type \notin {"two words", "from and to"}
  THEN Refused ELSE rules.value

\* The first rule that matches.
RedirectExecute(rules, questions) ==
  LET hits == {i \in 1..Len(rules) : RuleMatches(rules[i], Head(questions).qname)} IN
  IF questions = <<>> \/ hits = {} THEN questions
  ELSE [questions EXCEPT ![1].qname = RuleApply(rules[Min(hits)], @)]

-----------------------------------------------------------------------------
(* ttl.                                                                    *)

\* A bare "ttl" is 300 seconds; numbers are cut to 32 bits.
TtlInit(args) ==
  LET u32(arg) == IF arg = Absent THEN 0 ELSE arg.value % Word IN
  IF u32(args.ttl) = 0 /\ u32(args.min) = 0 /\ u32(args.max) = 0
  THEN [fix |-> 300, min |-> 0, max |-> 0]
  ELSE [fix |-> u32(args.ttl), min |-> u32(args.min), max |-> u32(args.max)]

\* "a-b" is a range, anything else a fixed value; what is no number is 0.
TtlQuickSetup(parts) ==
  IF Len(parts) = 2 THEN [fix |-> 0, min |-> parts[1], max |-> parts[2]]
  ELSE [fix |-> parts[1], min |-> 0, max |-> 0]

NewTtl(p, ttl) ==
  LET raised == IF p.min > 0 /\ ttl < p.min THEN p.min ELSE ttl IN
  IF p.fix > 0 THEN p.fix ELSE IF p.max > 0 /\ raised > p.max THEN p.max ELSE raised

\* apply: every record of every section.
TtlExecute(p, response) ==
  LET set(rs) == [i \in 1..Len(rs) |-> [rs[i] EXCEPT !.ttl = NewTtl(p, @)]] IN
  IF response = NoReply THEN response
  ELSE [response EXCEPT !.answers = set(@), !.authority = set(@), !.additional = set(@)]

-----------------------------------------------------------------------------
(* black_hole, reject, drop_resp and mark.                                 *)

\* new_from_strs: one string that is no address refuses the plugin.
BlackholeNew(ips) ==
  IF \E i \in 1..Len(ips) : ips[i].type # "ip" THEN Refused
  ELSE [ipv4 |-> SelectSeq(ips, LAMBDA x : x.value.version = 4),
        ipv6 |-> SelectSeq(ips, LAMBDA x : x.value.version = 6)]

BlackholeInit(args) == BlackholeNew(IF args.ips = Absent THEN <<>> ELSE StrList(args.ips))
BlackholeNames == {"blackhole", "sinkhole", "black_hole", "null_dns"}
BlackholeQuickSetup(prefix, words) ==
  IF prefix \in BlackholeNames THEN BlackholeNew(words) ELSE Refused

\* make_response_for_a and make_response_for_aaaa: a single question of the type,
\* and addresses to answer with.
Sinkhole(questions, type, ips) ==
  IF Len(questions) # 1 \/ ips = <<>> \/ Head(questions).qtype # type THEN NoReply
  ELSE Reply(0, questions,
             [i \in 1..Len(ips) |->
                [name |-> Head(questions).qname, type |-> type, ttl |-> 300, data |-> ips[i].value]])

BlackholeExecute(p, questions, response) ==
  LET a == Sinkhole(questions, "A", p.ipv4)   aaaa == Sinkhole(questions, "AAAA", p.ipv6) IN
  CASE a # NoReply -> a [] aaaa # NoReply -> aaaa [] OTHER -> response

\* RejectPlugin::quick_setup: a name, a number of eight bits, or nothing.
RejectCodes == [nxdomain |-> 3, nx |-> 3, refused |-> 5, ref |-> 5, servfail |-> 2, serv |-> 2]
RejectQuickSetup(prefix, word) ==
  IF prefix # "reject" THEN Refused
  ELSE CASE word.type = "empty" -> [rcode |-> 3]
         [] word.type = "str" /\ word.value \in DOMAIN RejectCodes -> [rcode |-> RejectCodes[word.value]]
         [] word.type = "number" /\ word.value \in 0..255 -> [rcode |-> word.value]
         [] OTHER -> Refused

RejectExecute(p, questions) == Reply(p.rcode, questions, <<>>)

DropRespExecute(response) == NoReply

\* MarkPlugin: a name, and a value or true.
MarkInit(args) ==
  IF args.name.type # "str" \/ args.value.type \notin {"str", "absent"} THEN Refused
  ELSE [mark_name |-> args.name.value, mark_value |-> args.value]
MarkQuickSetup(prefix, words) ==
  IF prefix # "mark" \/ words = <<>> THEN Refused
  ELSE [mark_name |-> Head(words),
        mark_value |-> IF Len(words) = 1 THEN Absent ELSE [type |-> "str", value |-> Tail(words)]]
MarkExecute(p, ctx) ==
  SetMetadata(ctx, p.mark_name, IF p.mark_value = Absent THEN [type |-> "bool", value |-> TRUE] ELSE p.mark_value)

-----------------------------------------------------------------------------
(* dual_selector, prefer_ipv4 and prefer_ipv6.                             *)

Without(records, type) == SelectSeq(records, LAMBDA r : r.type # type)
HasType(records, type) == \E i \in 1..Len(records) : records[i].type = type

Preferences ==
  [ipv4 |-> "IPv4", ipv6 |-> "IPv6", both |-> "Both",
   ipv4_prefer_ipv6_fallback |-> "IPv4PreferIPv6Fallback", ipv4_prefer_ipv6 |-> "IPv4PreferIPv6Fallback",
   ipv6_prefer_ipv4_fallback |-> "IPv6PreferIPv4Fallback", ipv6_prefer_ipv4 |-> "IPv6PreferIPv4Fallback"]
DualSelectorInit(preference) ==
  CASE preference = "absent" -> "Both"
    [] preference \in DOMAIN Preferences -> Preferences[preference]
    [] OTHER -> "refused"

DualSelectorExecute(preference, response) ==
  [response EXCEPT !.answers =
     CASE preference = "IPv4" \/ (preference = "IPv4PreferIPv6Fallback" /\ HasType(@, "A")) ->
            Without(@, "AAAA")
       [] preference = "IPv6" \/ (preference = "IPv6PreferIPv4Fallback" /\ HasType(@, "AAAA")) ->
            Without(@, "A")
       [] OTHER -> @]

PreferIpv4Execute(response) ==
  [response EXCEPT !.answers = Without(@, "AAAA"), !.additional = Without(@, "AAAA")]
PreferIpv6Execute(response) ==
  [response EXCEPT !.answers = Without(@, "A"), !.additional = Without(@, "A")]

-----------------------------------------------------------------------------
(* ecs and edns0_opt.  An address is a version and its octets.             *)

\* EcsPlugin::new.
EcsNew(args) ==
  LET p == [args EXCEPT !.mask4 = IF @ = Absent THEN 24 ELSE @.value,
                        !.mask6 = IF @ = Absent THEN 48 ELSE @.value]
  IN  IF p.mask4 > 32 \/ p.mask6 > 128 \/ p.preset.type \notin {"absent", "ip"} THEN Refused ELSE p

\* quick_setup: a list of key=value, of which the last one counts.
EcsKeys == {"forward", "send", "preset", "mask4", "mask6"}
EcsValueOk(kv) ==
  CASE kv.key \in {"forward", "send"} -> kv.value.type = "bool"
    [] kv.key \in {"mask4", "mask6"} -> kv.value.type = "number" /\ kv.value.value \in 0..255
    [] OTHER -> kv.key = "preset"
EcsQuickSetup(prefix, kvs) ==
  LET default == [k \in EcsKeys |-> IF k \in {"forward", "send"} THEN [type |-> "bool", value |-> FALSE] ELSE Absent]
  IN  IF prefix # "ecs" \/ \E i \in 1..Len(kvs) : ~EcsValueOk(kvs[i]) THEN Refused
      ELSE EcsNew(FoldLeft(LAMBDA a, kv : [a EXCEPT ![kv.key] = kv.value], default, kvs))

\* make_ecs_option: the octets the mask reaches into, the last one as it is.
MakeEcsOption(ip, mask4, mask6) ==
  LET mask == IF ip.version = 4 THEN mask4 ELSE mask6 IN
  [code |-> 8, family |-> IF ip.version = 4 THEN 1 ELSE 2, source |-> mask, scope |-> 0,
   address |-> SubSeq(ip.octets, 1, (mask + 7) \div 8)]

SetOptions(ctx, options, preserve) ==
  SetMetadata(SetMetadata(ctx, "edns0_options", options), "edns0_preserve_existing", preserve)

\* The options of the client, those of the preset address, or those of the client's
\* address, in this order.
EcsExecute(p, ctx) ==
  LET has(key) == key \in DOMAIN ctx.metadata
      option(ip) == <<MakeEcsOption(ip, p.mask4, p.mask6)>>
  IN
  IF p.forward.value /\ has("client_edns0_options")
  THEN SetOptions(ctx, ctx.metadata["client_edns0_options"], TRUE)
  ELSE IF p.preset # Absent THEN SetOptions(ctx, option(p.preset.value), TRUE)
  ELSE IF p.send.value /\ has("client_addr") /\ ctx.metadata["client_addr"].type = "ip"
  THEN SetOptions(ctx, option(ctx.metadata["client_addr"].value), TRUE)
  ELSE ctx

\* Edns0OptPlugin: entries without a code or without data are passed over; numbers
\* are cut to sixteen and to eight bits.
Edns0OptInit(options) ==
  LET whole == SelectSeq(options, LAMBDA o : o.code.type = "number" /\ o.data.type = "seq") IN
  [i \in 1..Len(whole) |->
     LET numbers == SelectSeq(whole[i].data.value, LAMBDA n : n.type = "number") IN
     [code |-> whole[i].code.value % 65536, data |-> [j \in 1..Len(numbers) |-> numbers[j].value % 256]]]
Edns0OptExecute(options, preserve, ctx) ==
  IF options = <<>> THEN ctx ELSE SetOptions(ctx, options, preserve)
=============================================================================
