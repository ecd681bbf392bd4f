----------------------------- MODULE AddressData -----------------------------
(***************************************************************************)
(* The datasets that are looked up by address: ip_set, geo_ip and the      *)
(* access control list.                                                    *)
(*                                                                         *)
(* An address is a number of Width bits of version 4 or 6, a network an    *)
(* address with a prefix length.                                           *)
(***************************************************************************)
EXTENDS Naturals, Sequences, SequencesExt

CONSTANT Width           \* bits of an address, of either version

Addresses == [version : {4, 6}, bits : 0..(2^Width - 1)]
Networks == [addr : Addresses, prefix : 0..Width]

\* IpNet::contains: same version, and the same leading bits.
NetContains(net, ip) ==
  /\ net.addr.version = ip.version
  /\ net.addr.bits \div 2^(Width - net.prefix) = ip.bits \div 2^(Width - net.prefix)

-----------------------------------------------------------------------------
(* ip_set.                                                                 *)

\* A line is a network, a single address (a network of one), or is skipped.
ParseNet(line) ==
  CASE line.type = "net" -> <<line.net>>
    [] line.type = "ip" -> <<[addr |-> line.ip, prefix |-> Width]>>
    [] OTHER -> <<>>

LoadIpFile(lines) == FlattenSeq([i \in 1..Len(lines) |-> ParseNet(lines[i])])

\* load_networks: the readable files in their order, then the inline entries.
LoadNetworks(files, ips) ==
  FlattenSeq([i \in 1..Len(files) |-> LoadIpFile(files[i])]) \o LoadIpFile(ips)

IpMatches(networks, ip) == \E i \in 1..Len(networks) : NetContains(networks[i], ip)

\* The address of a record, if it has one: geo_ip's extract_ip and the match in
\* matches_context.
ExtractIp(record) == IF record.type \in {"A", "AAAA"} THEN {record.ip} ELSE {}

\* Matcher::matches_context: some address of the answer section.
IpSetMatchesContext(networks, answers) ==
  \E i \in 1..Len(answers) : \E ip \in ExtractIp(answers[i]) : IpMatches(networks, ip)

\* Plugin::init: strings, alone or in a list; other values are passed over.
IpSetInit(args) ==
  LET strs(arg) == CASE arg.type = "seq" -> SelectSeq(arg.value, LAMBDA v : v.type = "str")
                     [] arg.type = "str" -> <<arg>>
                     [] OTHER -> <<>>
  IN  [files |-> strs(args.files), ips |-> strs(args.ips), auto_reload |-> args.auto_reload]

-----------------------------------------------------------------------------
(* geo_ip.                                                                 *)

GeoErr == [c \in {"error"} |-> <<>>]

AddCountryCidr(ranges, country, net) ==
  [c \in DOMAIN ranges \union {country} |->
     (IF c \in DOMAIN ranges THEN ranges[c] ELSE <<>>) \o (IF c = country THEN <<net>> ELSE <<>>)]

\* load_from_string: lines of one word are skipped, a bad network is an error.
LoadGeoIp(lines) ==
  LET real == SelectSeq(lines, LAMBDA l : l.words >= 2) IN
  IF \E i \in 1..Len(real) : real[i].type # "net" THEN GeoErr
  ELSE FoldLeft(LAMBDA r, l : AddCountryCidr(r, l.country, l.net), [c \in {} |-> <<>>], real)

\* The countries lookup() may return: it takes the first in the order of a hash map.
Countries(ranges, ip) == {c \in DOMAIN ranges : IpMatches(ranges[c], ip)}

\* execute: which values the metadata may have afterwards; the first record with
\* a known address decides.
GeoIpExecute(ranges, answers) ==
  LET found(i) == UNION {Countries(ranges, ip) : ip \in ExtractIp(answers[i])}
      known == {i \in 1..Len(answers) : found(i) # {}}
  IN  IF known = {} THEN {"none"} ELSE found(Min(known))

-----------------------------------------------------------------------------
(* The access control list.                                                *)

\* Plugin::init: the default is to deny; a rule that cannot be read refuses the
\* whole list.
AclInit(default, rules) ==
  IF default \notin {"absent", "allow", "deny"} \/
     \E i \in 1..Len(rules) : rules[i].type # "net" \/ rules[i].action \notin {"allow", "deny"}
  THEN [default_action |-> "error", rules |-> <<>>]
  ELSE [default_action |-> IF default = "absent" THEN "deny" ELSE default, rules |-> rules]

AllowList(nets) == [default_action |-> "deny",
                    rules |-> [i \in 1..Len(nets) |-> [net |-> nets[i], action |-> "allow"]]]
DenyList(nets) == [default_action |-> "allow",
                   rules |-> [i \in 1..Len(nets) |-> [net |-> nets[i], action |-> "deny"]]]

\* evaluate: the first rule whose network holds the address, or the default.
Evaluate(acl, ip) ==
  LET hits == {i \in 1..Len(acl.rules) : NetContains(acl.rules[i].net, ip)}
  IN  IF hits = {} THEN acl.default_action
      ELSE acl.rules[Min(hits)].action

\* execute: a query without a client address counts as one from localhost; a
\* denied one gets REFUSED, over whatever response there was.
Localhost == [version |-> 4, bits |-> 0]
AclExecute(acl, client, response) ==
  IF Evaluate(acl, IF client.version = 0 THEN Localhost ELSE client) = "deny" THEN "Refused" ELSE response
=============================================================================
