--------------------------- MODULE ReverseLookup ---------------------------
(***************************************************************************)
(* The reverse_lookup plugin: requests record the addresses of their       *)
(* answers after the sequence has run, PTR queries are answered from the   *)
(* record, and a background task removes what has expired.                 *)
(*                                                                         *)
(* A lookup copies the entry, releases the map, compares the time and,     *)
(* when the copy has expired, removes whatever is under the key by then.   *)
(***************************************************************************)
EXTENDS Naturals, Sequences, SequencesExt

CONSTANTS Ips, Domains,      \* addresses and names
          Ttls,              \* TTLs of the records of an answer
          PtrNames,          \* what PTR requests ask for: [zone, labels]
          Lookups,           \* the PTR requests under way at once
          ttl_arg,           \* the plugin's argument: [number, value]
          MaxNow, MaxSaves   \* bounds on time and on the answers seen

VARIABLES now,
          cache,             \* the map: address -> name and time of expiry
          lookup,            \* per PTR request: what it is at, and its copy of the entry
          saves,             \* answers recorded so far
          latest,            \* history: the last mapping recorded for each address
          raced              \* history: addresses recorded while a lookup was about to remove

vars == <<now, cache, lookup, saves, latest, raced>>

NoEntry == [name |-> "none", expires |-> 0]
NoLookup == [pc |-> "idle", ip |-> CHOOSE i \in Ips : TRUE, copy |-> NoEntry, answer |-> "none", at |-> 0]
Unanswered == [NoLookup EXCEPT !.pc = "done"]

-----------------------------------------------------------------------------
(* parse_ptr.  A name is a zone and its labels from the left; the label of *)
(* an octet or of a hexadecimal digit is its number, any other is Bad.     *)

Nibbles == 32
Bad == 999
NoIp == [version |-> 0, digits |-> <<>>]
ParsePtr(zone, labels) ==
  LET rev == Reverse(labels)
      hex == IF Len(rev) % 2 = 0 THEN rev ELSE Append(rev, 0)
  IN
  CASE zone = "in-addr.arpa" /\ Len(labels) = 4 /\ (\A i \in 1..4 : rev[i] \in 0..255) ->
         [version |-> 4, digits |-> rev]
    [] zone = "ip6.arpa" /\ Len(hex) = Nibbles /\ (\A i \in 1..Len(rev) : rev[i] \in 0..15) ->
         [version |-> 6, digits |-> hex]
    [] OTHER -> NoIp

-----------------------------------------------------------------------------

Init ==
  /\ now = 0 /\ saves = 0
  /\ cache = [i \in Ips |-> NoEntry] /\ latest = [i \in Ips |-> NoEntry]
  /\ lookup = [l \in Lookups |-> NoLookup]
  /\ raced = {}

Tick ==
  /\ now < MaxNow /\ now' = now + 1
  /\ UNCHANGED <<cache, lookup, saves, latest, raced>>

\* ReverseLookupPlugin::init: the longest time to keep an entry.
ttl == IF ttl_arg.number THEN ttl_arg.value ELSE 7200

Shorter(a, b) == IF a < b THEN a ELSE b

\* save_from_response, for an answer with one address and the question's name:
\* it replaces what was there.
Save(i, d, t) ==
  LET e == [name |-> d, expires |-> now + Shorter(t, ttl)] IN
  /\ saves < MaxSaves /\ saves' = saves + 1
  /\ cache' = [cache EXCEPT ![i] = e] /\ latest' = [latest EXCEPT ![i] = e]
  /\ raced' = IF \E l \in Lookups : lookup[l].pc = "read" /\ lookup[l].ip = i
              THEN raced \union {i} ELSE raced \ {i}
  /\ UNCHANGED <<now, lookup>>

\* lookup: the entry is copied under the lock; a name that is no address, or
\* without an entry, gets no answer.
Read(l, q) ==
  LET i == ParsePtr(q.zone, q.labels) IN
  /\ lookup[l].pc # "read"
  /\ lookup' = [lookup EXCEPT ![l] =
       IF i \notin Ips \/ cache[i] = NoEntry THEN Unanswered
       ELSE [NoLookup EXCEPT !.pc = "read", !.ip = i, !.copy = cache[i]]]
  /\ UNCHANGED <<now, cache, saves, latest, raced>>

\* Mutant: the comparison lets the entry live one second more.
AnswerPtrLate(l) ==
  /\ lookup[l].pc = "read" /\ lookup[l].copy.expires + 1 > now
  /\ lookup' = [lookup EXCEPT ![l] = [@ EXCEPT !.pc = "done", !.answer = lookup[l].copy.name, !.at = now]]
  /\ UNCHANGED <<now, cache, saves, latest, raced>>

\* execute: a PTR answer with the name of the copy, if that has not expired.
AnswerPtr(l) ==
  /\ lookup[l].pc = "read" /\ lookup[l].copy.expires > now
  /\ lookup' = [lookup EXCEPT ![l] = [@ EXCEPT !.pc = "done", !.answer = lookup[l].copy.name, !.at = now]]
  /\ UNCHANGED <<now, cache, saves, latest, raced>>

RemoveExpired(l) ==
  /\ lookup[l].pc = "read" /\ lookup[l].copy.expires <= now
  /\ cache' = [cache EXCEPT ![lookup[l].ip] = NoEntry]
  /\ lookup' = [lookup EXCEPT ![l] = Unanswered]
  /\ UNCHANGED <<now, saves, latest, raced>>

\* The background task: every entry that has expired, under the locks of the map.
Cleanup ==
  /\ \E i \in Ips : cache[i] # NoEntry /\ cache[i].expires <= now
  /\ cache' = [i \in Ips |-> IF cache[i].expires > now THEN cache[i] ELSE NoEntry]
  /\ UNCHANGED <<now, lookup, saves, latest, raced>>

Next ==
  \/ Tick \/ Cleanup
  \/ \E i \in Ips, d \in Domains, t \in Ttls : Save(i, d, t)
  \/ \E l \in Lookups : AnswerPtr(l) \/ RemoveExpired(l) \/ \E q \in PtrNames : Read(l, q)

Spec == Init /\ [][Next]_vars

-----------------------------------------------------------------------------
(* Properties.                                                             *)

\* ReverseFresh: a PTR answer is a name whose recorded time was not over when it
\* was given, and a mapping is dropped before its time only if a lookup that had
\* read its expired predecessor was under way when it was recorded.
ReverseFresh ==
  /\ \A l \in Lookups : lookup[l].answer # "none" =>
       lookup[l].copy.expires > lookup[l].at /\ lookup[l].copy.expires <= lookup[l].at + ttl
  /\ \A i \in Ips : latest[i].expires > now /\ i \notin raced => cache[i] = latest[i]
=============================================================================
