------------------------------ MODULE Forward ------------------------------
(***************************************************************************)
(* The forward plugin (src/src/plugins/forward/mod.rs, engine.rs and       *)
(* types.rs) over the UDP multiplexer: racing all upstreams, trying them   *)
(* one after the other, choosing one by strategy, and keeping their health *)
(* statistics.                                                             *)
(*                                                                         *)
(* A query that already has a response returns at once and does not come   *)
(* here.  A DoH upstream is asked over HTTP, which ends with an answer, an *)
(* error or a timeout and shares nothing with the multiplexer.             *)
(***************************************************************************)
EXTENDS UdpMux, FiniteSets

CONSTANTS
    Queries,       \* client queries
    Configs,       \* configurations of the plugin
    MaxAttempts,   \* max_attempts
    Latencies      \* response times, in the statistics' unit

ASSUME ForwardAssumption == MaxAttempts \in Nat /\ Latencies \subseteq Nat

VARIABLES
    config,        \* [concurrent, strategy, health, doh, arrivals]
    queryPc,       \* where each query is in execute
    queryTasks,    \* tasks of the race not yet joined, or the task of an attempt
    attempts,      \* failed attempts of execute_sequential
    reply,         \* the task whose answer became the response, 0 if none
    aborting,      \* tasks that abort_all has cancelled
    used,          \* number of tasks so far
    current,       \* the plugin's counter, modulo the number of upstreams
    health,        \* UpstreamHealth of each upstream
    seen,          \* success_count each task got back from fetch_add
    owner,         \* history: the query of each task
    tried,         \* history: upstreams whose failure a query has seen
    samples        \* history: response times recorded for each upstream

queryVars == <<queryPc, queryTasks, attempts, reply, aborting, used, current, owner, tried>>
healthVars == <<health, seen, samples>>
vars == <<config, muxVars, queryVars, healthVars>>

-----------------------------------------------------------------------------

Init ==
    /\ config \in Configs
    /\ MuxInit
    /\ queryPc = [q \in Queries |-> "idle"]
    /\ queryTasks = [q \in Queries |-> {}]
    /\ attempts = [q \in Queries |-> 0]
    /\ reply = [q \in Queries |-> 0]
    /\ aborting = {}
    /\ used = 0
    /\ current = 0
    /\ health = [u \in Upstreams |-> [queries |-> 0, successes |-> 0, failures |-> 0, avg |-> 0]]
    /\ seen = [t \in Tasks |-> 0]
    /\ owner = [t \in Tasks |-> CHOOSE q \in Queries : TRUE]
    /\ tried = [q \in Queries |-> {}]
    /\ samples = [u \in Upstreams |-> {}]

\* Tasks for the upstreams of us, in their order, start for query q, within
\* the bound MaxTasks on the calls.
StartTasks(q, us) ==
    LET rank(u) == Cardinality({ v \in us : v <= u })
        new == used + 1 .. used + Cardinality(us)
        of(t) == CHOOSE u \in us : used + rank(u) = t
    IN
    /\ used + Cardinality(us) <= MaxTasks
    /\ used' = used + Cardinality(us)
    /\ pc' = [t \in Tasks |-> IF t \in new THEN "alloc" ELSE pc[t]]
    /\ peer' = [t \in Tasks |-> IF t \in new THEN of(t) ELSE peer[t]]
    /\ owner' = [t \in Tasks |-> IF t \in new THEN q ELSE owner[t]]
    /\ queryTasks' = [queryTasks EXCEPT ![q] = new]
    /\ UNCHANGED <<qid, inbox, closed, pending, allocs, answers, reading>>

\* select_upstream: Fastest takes the first of the least averages, and an
\* upstream without a measurement has average 0.
Selected ==
    CASE config.strategy = "round_robin" -> { current }
      [] config.strategy = "random" -> Upstreams
      [] config.strategy = "fastest" ->
            { u \in Upstreams : \A v \in Upstreams :
                 \/ health[u].avg < health[v].avg
                 \/ health[u].avg = health[v].avg /\ u <= v }

-----------------------------------------------------------------------------
(* execute *)

\* execute_concurrent spawns a task for every upstream.
ExecuteConcurrent(q) ==
    /\ queryPc[q] = "idle" /\ q \in config.arrivals
    /\ config.concurrent /\ NUpstreams > 1
    /\ StartTasks(q, Upstreams)
    /\ queryPc' = [queryPc EXCEPT ![q] = "race"]
    /\ UNCHANGED <<config, attempts, reply, aborting, current, tried, healthVars>>

ExecuteSequential(q) ==
    /\ queryPc[q] = "idle" /\ q \in config.arrivals
    /\ ~(config.concurrent /\ NUpstreams > 1)
    /\ queryPc' = [queryPc EXCEPT ![q] = "select"]
    /\ UNCHANGED <<config, muxVars, queryTasks, attempts, reply, aborting, used, current,
                   owner, tried, healthVars>>

\* join_next returns a success: the others are aborted.
JoinWinner(q, t) ==
    /\ queryPc[q] = "race" /\ t \in queryTasks[q] /\ pc[t] = "recorded"
    /\ reply' = [reply EXCEPT ![q] = t]
    /\ aborting' = aborting \cup (queryTasks[q] \ {t})
    /\ queryTasks' = [queryTasks EXCEPT ![q] = {}]
    /\ queryPc' = [queryPc EXCEPT ![q] = "answered"]
    /\ UNCHANGED <<config, muxVars, attempts, used, current, owner, tried, healthVars>>

\* Mutant of JoinLoser: the first error ends the race.
JoinLoserGivesUp(q, t) ==
    /\ queryPc[q] = "race" /\ t \in queryTasks[q] /\ pc[t] = "failed"
    /\ queryTasks' = [queryTasks EXCEPT ![q] = {}]
    /\ aborting' = aborting \cup (queryTasks[q] \ {t})
    /\ tried' = [tried EXCEPT ![q] = @ \cup {peer[t]}]
    /\ queryPc' = [queryPc EXCEPT ![q] = "select"]
    /\ UNCHANGED <<config, muxVars, attempts, reply, used, current, owner, healthVars>>

\* join_next returns an error; after the last one the plugin goes on with
\* execute_sequential.
JoinLoser(q, t) ==
    /\ queryPc[q] = "race" /\ t \in queryTasks[q] /\ pc[t] = "failed"
    /\ queryTasks' = [queryTasks EXCEPT ![q] = @ \ {t}]
    /\ tried' = [tried EXCEPT ![q] = @ \cup {peer[t]}]
    /\ queryPc' = [queryPc EXCEPT ![q] = IF queryTasks[q] = {t} THEN "select" ELSE "race"]
    /\ UNCHANGED <<config, muxVars, attempts, reply, aborting, used, current, owner, healthVars>>

\* An attempt of execute_sequential.
Attempt(q, u) ==
    /\ queryPc[q] = "select"
    /\ attempts[q] < MaxAttempts /\ attempts[q] < NUpstreams
    /\ u \in Selected
    /\ current' = (current + 1) % NUpstreams
    /\ StartTasks(q, {u})
    /\ queryPc' = [queryPc EXCEPT ![q] = "attempt"]
    /\ UNCHANGED <<config, attempts, reply, aborting, tried, healthVars>>

AttemptAnswered(q) ==
    /\ queryPc[q] = "attempt"
    /\ \E t \in queryTasks[q] :
          /\ pc[t] = "recorded"
          /\ reply' = [reply EXCEPT ![q] = t]
    /\ queryTasks' = [queryTasks EXCEPT ![q] = {}]
    /\ queryPc' = [queryPc EXCEPT ![q] = "answered"]
    /\ UNCHANGED <<config, muxVars, attempts, aborting, used, current, owner, tried, healthVars>>

AttemptFailed(q) ==
    /\ queryPc[q] = "attempt"
    /\ \E t \in queryTasks[q] :
          /\ pc[t] = "failed"
          /\ tried' = [tried EXCEPT ![q] = @ \cup {peer[t]}]
    /\ attempts' = [attempts EXCEPT ![q] = @ + 1]
    /\ queryTasks' = [queryTasks EXCEPT ![q] = {}]
    /\ queryPc' = [queryPc EXCEPT ![q] = "select"]
    /\ UNCHANGED <<config, muxVars, reply, aborting, used, current, owner, healthVars>>

\* Every attempt failed: the last error is returned.
GiveUp(q) ==
    /\ queryPc[q] = "select"
    /\ attempts[q] >= MaxAttempts \/ attempts[q] >= NUpstreams
    /\ queryPc' = [queryPc EXCEPT ![q] = "failed"]
    /\ UNCHANGED <<config, muxVars, queryTasks, attempts, reply, aborting, used, current,
                   owner, tried, healthVars>>

-----------------------------------------------------------------------------
(* A task: forward_query, then record_outcome *)

AskUdp(t) ==
    /\ peer[t] \notin config.doh
    /\ Ask(t)
    /\ UNCHANGED <<config, queryVars, healthVars>>

\* forward_query_doh returns.
AskDoh(t) ==
    /\ peer[t] \in config.doh
    /\ pc[t] = "alloc"
    /\ \/ pc' = [pc EXCEPT ![t] = "ok"] /\ inbox' = [inbox EXCEPT ![t] = t]
       \/ pc' = [pc EXCEPT ![t] = "err"] /\ UNCHANGED inbox
    /\ UNCHANGED <<config, qid, peer, closed, pending, allocs, answers, reading,
                   queryVars, healthVars>>

\* record_success: the counters; fetch_add returns the count so far.
CountSuccess(t) ==
    /\ pc[t] = "ok"
    /\ IF config.health
       THEN /\ health' = [health EXCEPT ![peer[t]].queries = @ + 1, ![peer[t]].successes = @ + 1]
            /\ seen' = [seen EXCEPT ![t] = health[peer[t]].successes]
            /\ pc' = [pc EXCEPT ![t] = "counted"]
       ELSE /\ pc' = [pc EXCEPT ![t] = "recorded"]
            /\ UNCHANGED <<health, seen>>
    /\ UNCHANGED <<config, qid, peer, inbox, closed, pending, allocs, answers, reading,
                   queryVars, samples>>

\* Mutant of NewAverage: divided by the count before this sample.
NewAverageWrong(old, n, time) == IF n = 0 THEN time ELSE (old * n + time) \div n

NewAverage(old, n, time) == IF n = 0 THEN time ELSE (old * n + time) \div (n + 1)

\* record_success: the compare-and-swap loop on the average, with the count
\* from before, which others may have passed meanwhile.
UpdateAverage(t, time) ==
    /\ pc[t] = "counted"
    /\ health' = [health EXCEPT ![peer[t]].avg = NewAverage(@, seen[t], time)]
    /\ samples' = [samples EXCEPT ![peer[t]] = @ \cup {time}]
    /\ pc' = [pc EXCEPT ![t] = "recorded"]
    /\ UNCHANGED <<config, qid, peer, inbox, closed, pending, allocs, answers, reading,
                   queryVars, seen>>

RecordFailure(t) ==
    /\ pc[t] = "err"
    /\ health' = IF config.health
                 THEN [health EXCEPT ![peer[t]].queries = @ + 1, ![peer[t]].failures = @ + 1]
                 ELSE health
    /\ pc' = [pc EXCEPT ![t] = "failed"]
    /\ UNCHANGED <<config, qid, peer, inbox, closed, pending, allocs, answers, reading,
                   queryVars, seen, samples>>

\* A cancelled task is dropped at its next await.
Abort(t) ==
    /\ t \in aborting
    /\ AbortTask(t)
    /\ UNCHANGED <<config, queryVars, healthVars>>

Datagrams == Network /\ UNCHANGED <<config, queryVars, healthVars>>

-----------------------------------------------------------------------------

QueryStep(q) ==
    \/ \E t \in queryTasks[q] : JoinWinner(q, t) \/ JoinLoser(q, t)
    \/ \E u \in Upstreams : Attempt(q, u)
    \/ AttemptAnswered(q) \/ AttemptFailed(q) \/ GiveUp(q)

TaskStep(t) ==
    \/ AskUdp(t) \/ AskDoh(t) \/ CountSuccess(t) \/ RecordFailure(t)
    \/ \E time \in Latencies : UpdateAverage(t, time)

Next ==
    \/ \E q \in Queries : ExecuteConcurrent(q) \/ ExecuteSequential(q) \/ QueryStep(q)
    \/ \E t \in Tasks : TaskStep(t) \/ Abort(t)
    \/ Datagrams

\* The runtime polls every task, and the timeout ends every wait.  Nothing is
\* assumed of the network.
Fairness ==
    /\ \A q \in Queries : WF_vars(QueryStep(q))
    /\ \A t \in Tasks : WF_vars(TaskStep(t))

Spec == Init /\ [][Next]_vars /\ Fairness

-----------------------------------------------------------------------------
(* Properties *)

Ended(q) == queryPc[q] \in {"answered", "failed"}
Over(t) == pc[t] \in {"unused", "recorded", "failed", "aborted"}

\* Every query is answered or fails, and then no task of it goes on for ever:
\* the losers of a race end, aborted or not.
QueryEnds ==
    \A q \in Queries :
        queryPc[q] # "idle" ~> Ended(q) /\ \A t \in Tasks : owner[t] = q => Over(t)

\* "Race all upstreams concurrently, return the first success" (mod.rs:125): a
\* query fails only after every upstream has failed it.
RaceTriesAll ==
    \A q \in Queries :
        config.concurrent /\ queryPc[q] = "failed" => tried[q] = Upstreams

\* The average lies between the shortest and the longest response time when no
\* update is under way, although counter and average are two atomics
\* (test_record_success_concurrent_updates_keep_avg_in_range).
AverageInRange ==
    \A u \in Upstreams :
        samples[u] # {} /\ (\A t \in Tasks : pc[t] = "counted" => peer[t] # u) =>
            \E lo, hi \in samples[u] : lo <= health[u].avg /\ health[u].avg <= hi

\* "Failover with configurable `max_attempts`" (docs/en/05_02_PLUGIN_FORWARD.md:10):
\* with as many attempts as upstreams, a query fails only after every upstream
\* has failed it.
Failover ==
    \A q \in Queries :
        MaxAttempts >= NUpstreams /\ queryPc[q] = "failed" => tried[q] = Upstreams
=============================================================================
