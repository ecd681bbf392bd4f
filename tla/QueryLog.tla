------------------------------ MODULE QueryLog ------------------------------
(***************************************************************************)
(* What is recorded of a request: the entry of the query log that the      *)
(* plugin handler publishes after the sequence, the security events, and   *)
(* the counts of the collector plugins.  The bus that carries the entries  *)
(* is AuditEvents; what the web interface makes of them is Metrics.        *)
(*                                                                         *)
(* A context is [id, question, meta, response]: a question of [qname,      *)
(* dns_sd, qtype, qclass] or none, the metadata that are set, and a        *)
(* response of [rcode, answers] or none; times are in microseconds.        *)
(***************************************************************************)
EXTENDS Naturals, Sequences, FiniteSets

Unset == [set |-> FALSE]
Set(v) == [set |-> TRUE, value |-> v]
Or(option, default) == IF option.set THEN option.value ELSE default

-----------------------------------------------------------------------------
(* log_query_for_context.                                                  *)

\* QueryLogEntry::new.
NewEntry(id, protocol, q) ==
  [id |-> id, protocol |-> protocol, qname |-> q.qname, qtype |-> q.qtype, qclass |-> q.qclass,
   client_ip |-> Unset, rcode |-> Unset, answer_count |-> Unset, response_time_ms |-> Unset,
   response_time_us |-> Unset, cached |-> Unset, upstream |-> Unset, answers |-> Unset]

WithClientIp(e, ip) == [e EXCEPT !.client_ip = Set(ip)]

WithResponse(e, rcode, count, ms) ==
  [e EXCEPT !.rcode = Set(rcode), !.answer_count = Set(count), !.response_time_ms = Set(ms)]

\* The addresses among the answers, in their order.
AddressesOf(answers) ==
  LET found == SelectSeq(answers, LAMBDA a : a.rtype \in {"A", "AAAA"})
  IN [i \in 1..Len(found) |-> found[i].ip]

\* What a response adds to its entry; without a start time it took no time.
WithResponseOf(e, ctx, now) ==
  LET r == ctx.response.value
      us == IF ctx.meta.start.set THEN now - ctx.meta.start.value ELSE 0
      ips == AddressesOf(r.answers)
      full == [WithResponse(e, r.rcode, Len(r.answers), us \div 1000)
                 EXCEPT !.response_time_us = Set(us), !.cached = Set(Or(ctx.meta.from_cache, FALSE))]
  IN IF ips = <<>> THEN full ELSE [full EXCEPT !.answers = Set(ips)]

\* A request without a question, or for service discovery, leaves no entry.
LogQueryForContext(ctx, now) ==
  IF ~ctx.question.set THEN Unset
  ELSE IF ctx.question.value.dns_sd THEN Unset
  ELSE LET e0 == NewEntry(ctx.id, Or(ctx.meta.protocol, "unknown"), ctx.question.value)
           e1 == IF ctx.meta.client_ip.set THEN WithClientIp(e0, ctx.meta.client_ip.value) ELSE e0
       IN Set(IF ctx.response.set THEN WithResponseOf(e1, ctx, now) ELSE e1)

-----------------------------------------------------------------------------
(* Security events.                                                        *)

SecurityEventTypes ==
  {"rate_limit_exceeded", "blocked_domain_query", "upstream_failure", "acl_denied",
   "malformed_query", "query_timeout"}

ParseEventType(s) == IF s \in SecurityEventTypes THEN Set(s) ELSE Unset

SecurityEvent(type, message, client, qname) ==
  [type |-> type, message |-> message, client_ip |-> client, qname |-> qname]

\* log_query and log_security count what reached a subscriber; an empty set of types
\* enables all.
LogQuery(logger, subscribers) == IF subscribers > 0 THEN [logger EXCEPT !.queries = @ + 1] ELSE logger

LogSecurity(logger, event, subscribers) ==
  IF logger.enabled # {} /\ event.type \notin logger.enabled THEN logger
  ELSE IF subscribers > 0 THEN [logger EXCEPT !.security = @ + 1] ELSE logger

-----------------------------------------------------------------------------
(* metrics_collector and prom_metrics_collector.                           *)

Collector0(now) == [counter |-> 0, total_latency |-> 0, last_reset |-> now]

\* execute: the latency is read from metadata that no code of the repository sets.
CollectorExecute(c, latency) ==
  [c EXCEPT !.counter = @ + 1, !.total_latency = @ + Or(latency, 0)]

CollectorReset(c, now) == Collector0(now)

AverageLatency(c) == IF c.counter > 0 THEN c.total_latency \div c.counter ELSE 0
QueriesPerSecond(c, now) == IF now > c.last_reset THEN c.counter \div (now - c.last_reset) ELSE 0

PromExecute(p, latency, error) ==
  [p EXCEPT !.query_total = @ + 1, !.observed = IF latency.set THEN Append(@, latency.value) ELSE @,
            !.err_total = IF Or(error, FALSE) THEN @ + 1 ELSE @, !.thread = 1]
=============================================================================
