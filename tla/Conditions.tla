----------------------------- MODULE Conditions -----------------------------
(***************************************************************************)
(* The conditions of a sequence's steps (plugin/condition): what a         *)
(* condition's text becomes, and what it says of a context.  Those on a    *)
(* dataset are answered by the plugin that the name referred to when the   *)
(* condition was built, and by no plugin added later.                      *)
(*                                                                         *)
(* A condition's text is its first word and the others; a word that is a   *)
(* number has the type "number".  A context has questions and a response.  *)
(***************************************************************************)
EXTENDS DomainData, AddressData

\* The builders of init_condition_builders, under their names.
BuilderNames == {"has_resp", "resp_ip", "!resp_ip", "qname", "!qname", "qtype", "qclass", "rcode", "has_cname"}

Err == [builder |-> "error"]

\* dns_type_match!: a name of the table in any case, or a number that fits.
ClassNames == [IN |-> 1, CH |-> 3, HS |-> 4]
RcodeNames ==
  [NOERROR |-> 0, FORMERR |-> 1, FORMDERR |-> 1, SERVFAIL |-> 2, NXDOMAIN |-> 3, NXDOM |-> 3, NOTIMP |-> 4,
   NOTIMPL |-> 4, REFUSED |-> 5, REFUSE |-> 5, YXDOMAIN |-> 6, YXDOM |-> 6, YXRRSET |-> 7, NXRRSET |-> 8,
   NOTAUTH |-> 9, NOTAUTHZ |-> 9, NOTZONE |-> 10]
DnsTypeMatch(word, names, limit) ==
  CASE word.type = "word" /\ word.value \in DOMAIN names -> {names[word.value]}
    [] word.type = "number" /\ word.value < limit -> {word.value}
    [] OTHER -> {}

\* A list of codes: none, or one that is no code, is refused.
Codes(builder, words, names, limit) ==
  IF words = <<>> \/ \E i \in 1..Len(words) : DnsTypeMatch(words[i], names, limit) = {} THEN Err
  ELSE [builder |-> builder,
        codes |-> UNION {DnsTypeMatch(words[i], names, limit) : i \in 1..Len(words)}]

BuildQtype(words) == Codes("qtype", words, [n \in {} |-> 0], 65536)
BuildQclass(words) == Codes("qclass", words, ClassNames, 65536)
BuildRcode(words) == Codes("rcode", words, RcodeNames, 256)

\* The plugin a set's name refers to now; one that is missing or of another type
\* is the empty set for ever.
NoSet(kind) == IF kind = "ip_set" THEN <<>> ELSE DomainRules0
SetNamed(plugins, name, kind) ==
  IF name \in DOMAIN plugins /\ plugins[name].kind = kind THEN plugins[name].rules ELSE NoSet(kind)

BuildQname(words, plugins) ==
  IF words = <<>> THEN Err ELSE [builder |-> "qname", rules |-> SetNamed(plugins, Head(words).value, "domain_set")]
BuildRespIp(words, plugins) ==
  IF words = <<>> THEN Err ELSE [builder |-> "resp_ip", nets |-> SetNamed(plugins, Head(words).value, "ip_set")]
BuildRespIpNeg(words, plugins) ==
  IF words = <<>> THEN Err ELSE [builder |-> "!resp_ip", nets |-> SetNamed(plugins, Head(words).value, "ip_set")]

\* "!qname" takes a name and not a set.
BuildQnameNeg(words) ==
  IF words = <<>> THEN Err ELSE [builder |-> "!qname", domain |-> Lower(Head(words).value)]

BuildHasResp(words) == IF words # <<>> THEN Err ELSE [builder |-> "has_resp"]
BuildHasCname(words) == IF words # <<>> THEN Err ELSE [builder |-> "has_cname"]

\* get_builder and build.
BuildCondition(name, words, plugins) ==
  CASE name = "qtype" -> BuildQtype(words)
    [] name = "qclass" -> BuildQclass(words)
    [] name = "rcode" -> BuildRcode(words)
    [] name = "qname" -> BuildQname(words, plugins)
    [] name = "!qname" -> BuildQnameNeg(words)
    [] name = "resp_ip" -> BuildRespIp(words, plugins)
    [] name = "!resp_ip" -> BuildRespIpNeg(words, plugins)
    [] name = "has_resp" -> BuildHasResp(words)
    [] name = "has_cname" -> BuildHasCname(words)
    [] name \notin BuilderNames -> Err

-----------------------------------------------------------------------------
(* What a condition says of a context.                                     *)

CodesHold(c, ctx) ==
  CASE c.builder = "qtype" -> ctx.questions # <<>> /\ Head(ctx.questions).qtype \in c.codes
    [] c.builder = "qclass" -> ctx.questions # <<>> /\ Head(ctx.questions).qclass \in c.codes
    [] c.builder = "rcode" -> ctx.has_response /\ ctx.rcode \in c.codes

QnameHolds(c, ctx) == DomainSetMatchesContext(c.rules, ctx.questions)
QnameNegHolds(c, ctx) ==
  ctx.questions = <<>> \/ Lower(Head(ctx.questions).qname) # c.domain

\* IpSetPlugin::matches_context finds nothing without a response.
RespIpHolds(c, ctx) == ctx.has_response /\ IpSetMatchesContext(c.nets, ctx.answers)
RespIpNegHolds(c, ctx) == ~RespIpHolds(c, ctx)
HasCnameHolds(c, ctx) == ctx.has_response /\ \E i \in 1..Len(ctx.answers) : ctx.answers[i].type = "CNAME"
HasRespHolds(c, ctx) == ctx.has_response

Holds(c, ctx) ==
  CASE c.builder \in {"qtype", "qclass", "rcode"} -> CodesHold(c, ctx)
    [] c.builder = "qname" -> QnameHolds(c, ctx)
    [] c.builder = "!qname" -> QnameNegHolds(c, ctx)
    [] c.builder = "resp_ip" -> RespIpHolds(c, ctx)
    [] c.builder = "!resp_ip" -> RespIpNegHolds(c, ctx)
    [] c.builder = "has_cname" -> HasCnameHolds(c, ctx)
    [] c.builder = "has_resp" -> HasRespHolds(c, ctx)
=============================================================================
