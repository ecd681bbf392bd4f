----------------------------- MODULE MCForward -----------------------------
(* Instances of Forward for TLC. *)
EXTENDS Forward

Config(race, strategy, checks, doh, arrivals) ==
    [concurrent |-> race, strategy |-> strategy, health |-> checks,
     doh |-> doh, arrivals |-> arrivals]

\* One query that races two upstreams, one of them possibly DoH, and goes on
\* with any strategy; or two queries that try the upstreams in turn.
MCConfigs ==
    { Config(TRUE, s, TRUE, d, {CHOOSE q \in Queries : TRUE}) :
         s \in {"random", "fastest"}, d \in {{}, {1}} }
      \cup { Config(FALSE, s, h, {}, Queries) : s \in {"round_robin"}, h \in BOOLEAN }

\* One query that tries the upstreams in turn, fastest first.
FastestConfigs == { Config(FALSE, "fastest", TRUE, {}, Queries) }
=============================================================================
