-------------------------- MODULE DomainValidator --------------------------
(***************************************************************************)
(* The domain_validator plugin: the check of a name, and the LRU cache of  *)
(* verdicts that the requests share.  A request looks its name up under    *)
(* the lock, checks the name without it, and stores the verdict under the  *)
(* lock again.                                                             *)
(*                                                                         *)
(* A name is its length and its labels; a label its length, the kinds of   *)
(* its first, its last and its other characters, and whether it has two    *)
(* hyphens in a row or begins with "xn--".                                 *)
(***************************************************************************)
EXTENDS Naturals, Sequences, FiniteSets, FiniteSetsExt

CONSTANTS Names, Types,      \* what can be asked for
          Requests,          \* the requests under way at once
          cache_size,        \* the capacity the cache is given
          MaxQueries         \* bound on the requests

VARIABLES strict_mode,
          cache,             \* the cached verdicts, the most recently used last
          request,           \* per request: its state, name, type and verdict, and where that is from
          queries,           \* the number of requests so far
          checked            \* history: the names checked, each with the type it was asked with

vars == <<strict_mode, cache, request, queries, checked>>

-----------------------------------------------------------------------------
(* The check of a name.                                                    *)

Alnum == "alphanumeric"
LabelVerdict(strict, label, qtype) ==
  IF label.len = 0 \/ label.len > 63 THEN "invalid length"
  ELSE IF \/ label.first # Alnum /\ ~(label.first = "_" /\ qtype \in {"SVCB", "HTTPS"})
          \/ label.last # Alnum
          \/ label.len > 2 /\ label.inner \notin {Alnum, "-"}
  THEN "invalid characters"
  ELSE IF strict /\ label.hyphens /\ ~(label.xn /\ label.len >= 5) THEN "invalid format"
  ELSE "valid"

\* validate_domain_with_qtype: the verdict on the first label that is not valid.
ValidateDomain(strict, name, qtype) ==
  LET verdict(i) == LabelVerdict(strict, name.labels[i], qtype)
      bad == {i \in 1..Len(name.labels) : verdict(i) # "valid"}
  IN
  IF name.len = 0 \/ name.len > 253 THEN "invalid length"
  ELSE IF name.root \/ bad = {} THEN "valid"
  ELSE verdict(Min(bad))

-----------------------------------------------------------------------------
(* The cache of verdicts.                                                  *)

Capacity == IF cache_size > 0 THEN cache_size ELSE 1
Entry(name, verdict) == [name |-> name, verdict |-> verdict]
Cached(name) == \E i \in 1..Len(cache) : cache[i].name = name
At(name) == CHOOSE i \in 1..Len(cache) : cache[i].name = name
VerdictOf(name) == cache[At(name)].verdict
Others(name) == SubSeq(cache, 1, At(name) - 1) \o SubSeq(cache, At(name) + 1, Len(cache))

\* LruCache::put: the entry becomes the most recently used one, and the least
\* recently used one makes room for a new name.
Put(name, verdict) ==
  Append(IF Cached(name) THEN Others(name) ELSE IF Len(cache) = Capacity THEN Tail(cache) ELSE cache,
         Entry(name, verdict))

Idle == [pc |-> "idle", name |-> CHOOSE n \in Names : TRUE, qtype |-> "none", verdict |-> "none", from |-> "none"]

\* DomainValidatorPlugin::init and new; strict_mode is on unless it is turned off.
Init ==
  /\ strict_mode \in BOOLEAN
  /\ cache = <<>>
  /\ request = [r \in Requests |-> Idle]
  /\ queries = 0 /\ checked = {}

\* handle_result: the query is let pass or, with any other verdict, refused.
HandleResult(name, qtype, verdict, from) ==
  [pc |-> IF verdict = "valid" THEN "passed" ELSE "refused", name |-> name, qtype |-> qtype, verdict |-> verdict,
   from |-> from]
Answered(r) == request[r].pc \in {"passed", "refused"}

\* execute, with a verdict in the cache, whatever type the name was checked for: its
\* entry becomes the most recent one.
Hit(r, n, t) ==
  /\ request[r].pc # "checking" /\ queries < MaxQueries /\ Cached(n)
  /\ request' = [request EXCEPT ![r] = HandleResult(n, t, VerdictOf(n), "cache")]
  /\ cache' = Append(Others(n), Entry(n, VerdictOf(n)))
  /\ queries' = queries + 1
  /\ UNCHANGED <<strict_mode, checked>>

\* execute, without: the name is checked after the lock is released.
Miss(r, n, t) ==
  /\ request[r].pc # "checking" /\ queries < MaxQueries /\ ~Cached(n)
  /\ request' = [request EXCEPT ![r] = [Idle EXCEPT !.pc = "checking", !.name = n, !.qtype = t]]
  /\ queries' = queries + 1
  /\ UNCHANGED <<strict_mode, cache, checked>>

\* What one request does with the verdict of its own check.
Stored(r, verdict) ==
  LET q == request[r] IN
  /\ q.pc = "checking"
  /\ cache' = Put(q.name, verdict)
  /\ request' = [request EXCEPT ![r] = HandleResult(q.name, q.qtype, verdict, "check")]
  /\ checked' = checked \union {[name |-> q.name, qtype |-> q.qtype]}
  /\ UNCHANGED <<strict_mode, queries>>

\* Mutant: the name is checked with validate_domain, which knows no type.
StoreUntyped(r) == Stored(r, ValidateDomain(strict_mode, request[r].name, "none"))

\* The verdict is stored whatever the cache holds by now.
Store(r) == Stored(r, ValidateDomain(strict_mode, request[r].name, request[r].qtype))

Next ==
  \E r \in Requests :
    Store(r) \/ \E n \in Names, t \in Types : Hit(r, n, t) \/ Miss(r, n, t)

Spec == Init /\ [][Next]_vars

-----------------------------------------------------------------------------
(* Properties.                                                             *)

\* What the check of the name says when it is asked for with the type t.
Says(name, t, verdict) == verdict = ValidateDomain(strict_mode, name, t)

\* VerdictSound: whatever requests raced with it, a query that is checked is refused
\* or let pass as the check says for its own name and type; one that is answered from
\* the cache, as it said for that name and a type it was checked with before.  (The
\* two may differ: the cache does not keep the type.)  The cache holds one verdict
\* per name, of a check that was made, and never more than its capacity.
VerdictSound ==
  /\ Len(cache) <= Capacity
  /\ \A i, j \in 1..Len(cache) : cache[i].name = cache[j].name => i = j
  /\ \A i \in 1..Len(cache) : \E c \in checked : c.name = cache[i].name /\ Says(c.name, c.qtype, cache[i].verdict)
  /\ \A r \in Requests : Answered(r) =>
       LET q == request[r] IN
       /\ (q.pc = "passed") = (q.verdict = "valid")
       /\ q.from = "check" => Says(q.name, q.qtype, q.verdict)
       /\ q.from = "cache" => \E c \in checked : c.name = q.name /\ Says(q.name, c.qtype, q.verdict)
=============================================================================
