---------------------------- MODULE AddressSets ----------------------------
(***************************************************************************)
(* The plugins that add the addresses of an answer to a set outside the    *)
(* program: ipset, nftset and ros_addrlist.  They read the response, run   *)
(* one command or request per address and go on when one fails.            *)
(***************************************************************************)
EXTENDS AddressData

Refused == [error |-> "Config"]
NotSet == [type |-> "absent"]

Smaller(a, b) == IF a < b THEN a ELSE b

\* Mutant: a shift by one bit too few.
MakePrefixOff(ip, mask) ==
  LET m == Smaller(mask, Width)   low == IF m = 0 THEN 2^Width ELSE 2^(Width - m + 1) IN
  [addr |-> [ip EXCEPT !.bits = (@ \div low) * low], prefix |-> m]

\* make_v4_prefix and make_v6_prefix: the bits behind the mask are cleared.
MakePrefix(ip, mask) ==
  LET m == Smaller(mask, Width)   low == 2^(Width - m) IN
  [addr |-> [ip EXCEPT !.bits = (@ \div low) * low], prefix |-> m]

\* NftSetPlugin has the two functions of its own.
NftPrefix(ip, mask) == MakePrefix(ip, mask)

\* The groups of a quick_setup string: of the size asked for, at most two, with a
\* known family and a mask that is a number; it is cut to eight bits.
Groups(prefix, plugin, groups, size, families) ==
  IF \/ prefix # plugin \/ Len(groups) > 2
     \/ \E i \in 1..Len(groups) :
          groups[i].fields # size \/ groups[i].family \notin families \/ groups[i].mask.type # "number"
  THEN Refused
  ELSE [i \in 1..Len(groups) |-> [groups[i] EXCEPT !.mask = @.value % 256]]

\* The last group of a family counts.
Family(groups, family, default) ==
  LET own == SelectSeq(groups, LAMBDA g : g.family = family) IN IF own = <<>> THEN default ELSE Last(own)

IpsetQuickSetup(prefix, groups) ==
  LET gs == Groups(prefix, "ipset", groups, 3, {"inet", "inet6"})
      none(mask) == [set |-> NotSet, mask |-> mask]
  IN  IF gs = Refused THEN Refused
      ELSE [v4 |-> Family(gs, "inet", none(24)), v6 |-> Family(gs, "inet6", none(32))]

NftGroups(prefix, groups) == Groups(prefix, "nftset", groups, 5, {"ipv4_addr", "ipv6_addr"})
NftsetQuickSetup(prefix, groups) ==
  LET gs == NftGroups(prefix, groups)
      none(mask) == [set |-> NotSet, mask |-> mask]
  IN  IF gs = Refused THEN Refused
      ELSE [v4 |-> Family(gs, "ipv4_addr", none(24)), v6 |-> Family(gs, "ipv6_addr", none(48))]

\* The set, the address and the mask for each address of the answer that has a set.
Additions(p, answers) ==
  LET args(ip) == IF ip.version = 4 THEN p.v4 ELSE p.v6
      add(r) == {[set |-> args(ip).set, ip |-> ip, mask |-> args(ip).mask] :
                   ip \in {x \in ExtractIp(r) : args(x).set # NotSet}}
  IN  FlattenSeq([i \in 1..Len(answers) |-> SetToSeq(add(answers[i]))])

\* IpSetPlugin::execute: what earlier ipset plugins have added is added again, and
\* kept in the metadata with the new ones.
IpsetExecute(p, answers, ipset_added) ==
  LET new == Additions(p, answers)
  IN  ipset_added \o [i \in 1..Len(new) |-> [set |-> new[i].set, net |-> MakePrefix(new[i].ip, new[i].mask)]]

\* NftSetPlugin::execute: one list per version, each replaced when it is not empty.
NftsetExecute(p, answers, added) ==
  LET all == Additions(p, answers)
      of(version) == SelectSeq([i \in 1..Len(all) |-> [set |-> all[i].set, net |-> NftPrefix(all[i].ip, all[i].mask)]],
                               LAMBDA a : a.net.addr.version = version)
      new(version, old) == IF of(version) = <<>> THEN old ELSE of(version)
  IN  [v4 |-> new(4, added.v4), v6 |-> new(6, added.v6)]

\* The commands: each entry for which its command succeeds is in the set then.
AddToSets(sets, additions, fails) ==
  sets \union {additions[i] : i \in {j \in 1..Len(additions) : j \notin fails}}

-----------------------------------------------------------------------------
(* ros_addrlist.                                                           *)

RosInit(args) ==
  [list_name |-> IF args.addrlist = NotSet THEN "default" ELSE args.addrlist.value,
   server |-> args.server,
   auth |-> args.user # NotSet /\ args.passwd # NotSet,
   mask4 |-> args.mask4, mask6 |-> args.mask6]

ExtractIps(answers) ==
  FlattenSeq([i \in 1..Len(answers) |-> SetToSeq(ExtractIp(answers[i]))])

\* notify_server: the addresses as they are, whatever the masks, up to the first
\* one that the router refuses; 400 counts as present.
NotifyServer(p, ips, status, list) ==
  LET bad == {i \in 1..Len(ips) : status[i] \notin {200, 400}}
      sent == IF bad = {} THEN Len(ips) ELSE Min(bad) - 1
  IN  IF p.server = NotSet THEN list ELSE list \union {ips[i] : i \in 1..sent}

\* execute: an error is logged only.
RosExecute(p, track_responses, answers, status, list) ==
  IF ~track_responses \/ ExtractIps(answers) = <<>> THEN list
  ELSE NotifyServer(p, ExtractIps(answers), status, list)
=============================================================================
