----------------------------- MODULE DomainData -----------------------------
(***************************************************************************)
(* The datasets that are looked up by name: domain_set, geo_site, hosts    *)
(* and arbitrary.                                                          *)
(*                                                                         *)
(* A text is a sequence of tokens, each a label or Dot, with a flag for    *)
(* upper case; that is as much as lower-casing, trimming dots, splitting   *)
(* into labels and searching for a part tell apart.                        *)
(***************************************************************************)
EXTENDS Naturals, Sequences, SequencesExt

CONSTANT Invalid         \* a token that makes a regular expression invalid

Dot == "."
Text(tokens, upper) == [tokens |-> tokens, upper |-> upper]
Lower(t) == [t EXCEPT !.upper = FALSE]

RECURSIVE TrimDots(_)
TrimDots(t) ==
  IF t.tokens # <<>> /\ Last(t.tokens) = Dot THEN TrimDots([t EXCEPT !.tokens = Front(@)]) ELSE t

Normalized(t) == Lower(TrimDots(t))

\* str::contains, and a regular expression without special characters.
HasPart(tokens, part) ==
  \E i \in 0..(Len(tokens) - Len(part)) : SubSeq(tokens, i + 1, i + Len(part)) = part

\* Mutant: the parts of a name that begin anywhere, as with ends_with.
LabelSuffixesAll(tokens) == {SubSeq(tokens, i, Len(tokens)) : i \in 1..Len(tokens)}

\* The parts of a name that begin at a label: parts[i..].join(".").
LabelSuffixes(tokens) ==
  {SubSeq(tokens, i, Len(tokens)) : i \in {j \in 1..Len(tokens) : j = 1 \/ tokens[j - 1] = Dot}}

\* A YAML argument that may be a list of strings or one string.
StrList(arg) == CASE arg.type = "seq" -> SelectSeq(arg.value, LAMBDA v : v.type = "str")
                  [] arg.type = "str" -> <<arg>>
                  [] OTHER -> <<>>

-----------------------------------------------------------------------------
(* domain_set.                                                             *)

MatchTypes == {"full", "domain", "keyword", "regexp"}
DomainRules0 == [full |-> {}, domain |-> {}, regexp |-> {}, keyword |-> {}]

\* Regex::new, applied to the pattern as it is written.
RegexValid(t) == \A i \in 1..Len(t.tokens) : t.tokens[i] # Invalid
RegexMatches(pattern, t) == pattern.upper = t.upper /\ HasPart(t.tokens, pattern.tokens)

AddRule(rules, type, value) ==
  IF value.tokens = <<>> \/ (type = "regexp" /\ ~RegexValid(value)) THEN rules
  ELSE [rules EXCEPT ![type] = @ \union {IF type = "regexp" THEN value ELSE Lower(value)}]

\* A line is a comment, or a prefix ("none" for the default type) with a value.
AddLine(rules, line, default) ==
  IF line.comment THEN rules
  ELSE AddRule(rules, IF line.prefix = "none" THEN default ELSE line.prefix, line.value)

AddLines(rules, lines, default) ==
  FoldLeft(LAMBDA r, line : AddLine(r, line, default), rules, lines)

MergeRules(a, b) == [type \in MatchTypes |-> a[type] \union b[type]]

\* load_domains: the readable files one after another, then the expressions.
LoadDomains(files, exps, default) ==
  LET load(r, lines) == MergeRules(r, AddLines(DomainRules0, lines, default))
  IN  AddLines(FoldLeft(load, DomainRules0, files), exps, default)

DomainMatches(rules, domain) ==
  LET d == Normalized(domain) IN
  \/ d \in rules.full
  \/ \E s \in LabelSuffixes(d.tokens) : Text(s, FALSE) \in rules.domain
  \/ \E r \in rules.regexp : RegexMatches(r, d)
  \/ \E k \in rules.keyword : HasPart(d.tokens, k.tokens)

\* Matcher::matches_context: the first question, if there is one.
DomainSetMatchesContext(rules, questions) ==
  questions # <<>> /\ DomainMatches(rules, TrimDots(Head(questions).qname))

\* Plugin::init: an unknown match type is the domain type.
DomainSetInit(args) ==
  [default |-> CASE args.match_type \in MatchTypes -> args.match_type
                 [] args.match_type = "regex" -> "regexp"
                 [] OTHER -> "domain",
   files |-> StrList(args.files), exps |-> StrList(args.exps), auto_reload |-> args.auto_reload]

-----------------------------------------------------------------------------
(* geo_site.                                                               *)

GeoSet0 == [exact |-> {}, suffixes |-> {}]

\* A pattern with "*." or "." in front is a suffix, anything else a name.
AddDomain(sets, category, pattern, value) ==
  [c \in DOMAIN sets \union {category} |->
     LET s == IF c \in DOMAIN sets THEN sets[c] ELSE GeoSet0 IN
     IF c # category THEN s
     ELSE IF pattern = "exact" THEN [s EXCEPT !.exact = @ \union {Lower(value)}]
     ELSE [s EXCEPT !.suffixes = @ \union {Lower(value)}]]

\* Lines with fewer than two words are skipped.
LoadGeoSite(lines) ==
  FoldLeft(LAMBDA s, l : IF l.words < 2 THEN s ELSE AddDomain(s, l.category, l.pattern, l.value),
           [c \in {} |-> GeoSet0], lines)

GeoMatches(s, domain) ==
  LET d == Lower(domain) IN
  \/ d \in s.exact
  \/ \E x \in s.suffixes : d = x \/ IsSuffix(<<Dot>> \o x.tokens, d.tokens)

\* The categories lookup() may return: it takes the first in the order of a hash map.
GeoCategories(sets, domain) == {c \in DOMAIN sets : GeoMatches(sets[c], domain)}

\* execute: which values the metadata may have afterwards ("none": not set).
GeoSiteExecute(sets, questions) ==
  LET found == GeoCategories(sets, Head(questions).qname) IN
  IF questions = <<>> \/ Head(questions).qtype \notin {"A", "AAAA"} \/ found = {} THEN {"none"}
  ELSE found

-----------------------------------------------------------------------------
(* hosts.                                                                  *)

HostsErr == [n \in {"error"} |-> <<>>]

\* A line is a list of words, each an address or a name, in any order.
LineIps(words) == SelectSeq(words, LAMBDA x : x.type = "ip")
LineNames(words) == SelectSeq(words, LAMBDA x : x.type = "name")

AddHost(table, name, ips) ==
  [n \in DOMAIN table \union {name} |->
     (IF n \in DOMAIN table THEN table[n] ELSE <<>>) \o (IF n = name THEN ips ELSE <<>>)]

\* load_from_string: one line without an address refuses everything.
HostsLoad(lines) ==
  LET names(t, words) == FoldLeft(LAMBDA u, x : AddHost(u, Lower(x.value), LineIps(words)),
                                  t, LineNames(words))
      real == SelectSeq(lines, LAMBDA words : Len(words) >= 2)
  IN  IF \E i \in 1..Len(real) : LineIps(real[i]) = <<>> THEN HostsErr
      ELSE FoldLeft(names, [n \in {} |-> <<>>], real)

GetIps(table, domain) ==
  IF Normalized(domain) \in DOMAIN table THEN table[Normalized(domain)] ELSE <<>>

NoResponse == [rcode |-> "none", answers |-> <<>>]
TypeOfIp(ip) == IF ip.version = 4 THEN "A" ELSE "AAAA"

\* execute and create_response: a known name without an address of the type asked
\* for gets an empty answer.
HostsExecute(table, response, questions) ==
  IF response # NoResponse \/ questions = <<>> THEN response
  ELSE LET q == Head(questions) IN
       IF q.qtype \notin {"A", "AAAA"} \/ Normalized(q.qname) \notin DOMAIN table THEN response
       ELSE [rcode |-> "NoError",
             answers |-> SelectSeq(GetIps(table, q.qname), LAMBDA x : TypeOfIp(x.value) = q.qtype)]

-----------------------------------------------------------------------------
(* arbitrary.                                                              *)

\* parse_rr_line: a name, a type and data that fit each other.
RrValid(line) == /\ line.words >= 3
                 /\ \/ line.rtype = "CNAME"
                    \/ line.data.type = "ip" /\ line.rtype = TypeOfIp(line.data.value)

\* ArbitraryPlugin::new: one line that is no record refuses the plugin.
ArbitraryNew(lines) ==
  IF \E i \in 1..Len(lines) : ~lines[i].comment /\ ~RrValid(lines[i]) THEN HostsErr
  ELSE FoldLeft(LAMBDA m, l : IF l.comment THEN m ELSE AddHost(m, Normalized(l.name), <<l>>),
                [n \in {} |-> <<>>], lines)

\* execute answers with every record of the name, whatever the type asked for.
ArbitraryExecute(map, response, questions) ==
  IF questions = <<>> \/ Normalized(Head(questions).qname) \notin DOMAIN map THEN response
  ELSE [rcode |-> "NoError", answers |-> map[Normalized(Head(questions).qname)]]
=============================================================================
