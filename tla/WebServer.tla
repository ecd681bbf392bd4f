----------------------------- MODULE WebServer -----------------------------
(***************************************************************************)
(* The web interface, the admin API and the monitoring server: how the     *)
(* three services start and stop, the connections of the dashboards        *)
(* (server-sent events and WebSockets) with the counters of the open ones, *)
(* and what the requests about the cache and the upstreams answer.         *)
(*                                                                         *)
(* Time is in seconds, without a start.  Of a WebSocket the model keeps    *)
(* where its task is, how long its client has been silent, when the next   *)
(* heartbeat is due (below zero: for how long it has been), and its        *)
(* topics.                                                                 *)
(***************************************************************************)
EXTENDS Integers, FiniteSets

CONSTANTS Services,          \* those of "admin", "monitoring" and "web" that are enabled
          Clients,           \* browsers: one event stream each
          Pages,             \* and their pages with a WebSocket
          Topics,            \* what they can subscribe to
          heartbeat_secs, timeout_secs,   \* of WebSocketConfig
          MaxStall           \* bound: for how long a heartbeat that is due may wait

VARIABLES shutdown,          \* the shutdown bus
          life,              \* per service: where its task is
          started,           \* the services that have sent their startup signal
          bus,               \* there is an event bus
          sse,               \* per client: "none", "queries", "security", "open" or "ending"
          sse_connections,   \* the counter of WebState
          ws,                \* per page: [at, silent, due, topics]
          ws_connections     \* the counter of WebState

services == <<shutdown, life, started>>
streams == <<sse, sse_connections>>
sockets == <<ws, ws_connections>>
vars == <<services, bus, streams, sockets>>

\* A socket that is not there, or not yet in the loop of handle_socket.
Before(where) == [at |-> where, silent |-> 0, due |-> 0, topics |-> {}]

Init ==
  /\ shutdown = FALSE /\ life = [s \in Services |-> "starting"] /\ started = {}
  /\ bus \in BOOLEAN
  /\ sse = [c \in Clients |-> "none"] /\ sse_connections = 0
  /\ ws = [p \in Pages |-> Before("none")] /\ ws_connections = 0

Becomes(s, where) == life' = [life EXCEPT ![s] = where]

-----------------------------------------------------------------------------
(* The tasks of the services.                                              *)

\* AdminServer::run_with_signal and MonitoringServer::run_with_signal: the startup
\* signal is sent once the socket is bound; without one the task ends.
Bind(s) ==
  /\ life[s] = "starting"
  /\ \/ Becomes(s, "serving") /\ started' = started \union {s}
     \/ Becomes(s, "ended") /\ UNCHANGED started
  /\ UNCHANGED <<shutdown, bus, streams, sockets>>
BindAdmin == "admin" \in Services /\ Bind("admin")
BindMonitoring == "monitoring" \in Services /\ Bind("monitoring")

\* WebServer::with_admin: settings that are not valid end the task.  The event bus
\* is created if there is none; launch_web_server sends the signal before the
\* socket is bound.
WithAdmin ==
  /\ "web" \in Services /\ life["web"] = "starting"
  /\ \/ Becomes("web", "created") /\ started' = started \union {"web"} /\ bus' = TRUE
     \/ Becomes("web", "ended") /\ UNCHANGED <<started, bus>>
  /\ UNCHANGED <<shutdown, streams, sockets>>

\* run_with_shutdown.
BindWeb ==
  /\ "web" \in Services /\ life["web"] = "created"
  /\ Becomes("web", "serving") \/ Becomes("web", "ended")
  /\ UNCHANGED <<shutdown, started, bus, streams, sockets>>

TriggerShutdown ==
  /\ ~shutdown /\ shutdown' = TRUE
  /\ UNCHANGED <<life, started, bus, streams, sockets>>

\* axum's graceful shutdown: no new connections, and the end when the last one is
\* gone.  Nothing ends a stream because of the shutdown.  A socket is no connection
\* of the server once it is upgraded: its task is not waited for, and outlives it.
Drain(s) ==
  /\ life[s] = "serving" /\ shutdown /\ Becomes(s, "draining")
  /\ UNCHANGED <<shutdown, started, bus, streams, sockets>>
End(s) ==
  /\ life[s] = "draining"
  /\ s = "web" => \A c \in Clients : sse[c] = "none"
  /\ Becomes(s, "ended")
  /\ UNCHANGED <<shutdown, started, bus, streams, sockets>>

-----------------------------------------------------------------------------
(* query_logs_stream and security_events_stream.                           *)

\* A request on a connection that was there before the shutdown is still answered.
Answering == "web" \in Services /\ life["web"] \in {"serving", "draining"}

\* The answer is given with a stream that has not been polled yet.
SseAccept(c, kind) ==
  /\ Answering /\ sse[c] = "none"
  /\ sse' = [sse EXCEPT ![c] = kind]
  /\ UNCHANGED <<services, bus, sse_connections, sockets>>

\* The first poll counts the connection and subscribes to the bus.  Without a bus
\* an error event follows and the stream ends.
Polled(c) ==
  /\ sse' = [sse EXCEPT ![c] = IF bus THEN "open" ELSE "ending"]
  /\ sse_connections' = sse_connections + 1
  /\ UNCHANGED <<services, bus, sockets>>
QueryLogsStream(c) == sse[c] = "queries" /\ Polled(c)
SecurityEventsStream(c) == sse[c] = "security" /\ Polled(c)

\* Mutant: the counter is decremented at the end of the stream, not by a guard.
SseDropAtEnd(c) == IF sse[c] = "ending" THEN 1 ELSE 0

\* What the drop of the stream takes off the counter: its guard exists once it was
\* polled.
SseDrop(c) == IF sse[c] \in {"open", "ending"} THEN 1 ELSE 0

\* The stream is dropped: at its end, or where it yields when the client goes.
\* (Events and the comments that keep the connection alive change nothing here.)
SseEnd(c) ==
  /\ sse[c] # "none"
  /\ sse' = [sse EXCEPT ![c] = "none"]
  /\ sse_connections' = sse_connections - SseDrop(c)
  /\ UNCHANGED <<services, bus, sockets>>

-----------------------------------------------------------------------------
(* metrics_ws and handle_socket.                                           *)

\* The select! of the loop, and the sends in its branches, which are awaited where
\* they stand: until one ends, nothing else of this socket happens.
Loop == {"waiting", "replying", "ponging", "pushing"}
Counted == {"greeting"} \union Loop

Goes(p, socket) == ws' = [ws EXCEPT ![p] = socket] /\ UNCHANGED <<services, bus, streams>>
Stays(p, socket) == Goes(p, socket) /\ UNCHANGED ws_connections
At(p, where) == [ws[p] EXCEPT !.at = where]
Close(p) == Goes(p, Before("none")) /\ ws_connections' = ws_connections - 1

\* on_upgrade spawns a task and answers.  The task ends if the upgrade fails.
MetricsWs(p) == Answering /\ ws[p].at = "none" /\ Stays(p, Before("upgrading"))
UpgradeFails(p) == ws[p].at = "upgrading" /\ Stays(p, Before("none"))

\* The connection is counted before it is greeted.
Connected(p) ==
  /\ ws[p].at = "upgrading"
  /\ Goes(p, Before("greeting")) /\ ws_connections' = ws_connections + 1

\* The first heartbeat is due at once.
Greeted(p) ==
  /\ ws[p].at = "greeting"
  /\ Stays(p, [at |-> "waiting", silent |-> 0, due |-> 0, topics |-> {"overview"}]) \/ Close(p)

\* Subscribe and Unsubscribe.  They do not count as a sign of life.
WsTopics(p) ==
  /\ ws[p].at = "waiting"
  /\ \E t \in SUBSET Topics : \/ Stays(p, [ws[p] EXCEPT !.topics = @ \union t])
                            \/ Stays(p, [ws[p] EXCEPT !.topics = @ \ t])

\* A ping in a text, or a text that says nothing known, is answered; whether the
\* answer can be sent does not matter.
WsText(p) ==
  /\ ws[p].at = "waiting"
  /\ Stays(p, [At(p, "replying") EXCEPT !.silent = 0]) \/ Stays(p, At(p, "replying"))
Replied(p) == ws[p].at = "replying" /\ Stays(p, At(p, "waiting"))

\* A ping frame is a sign of life once its answer is sent, a pong frame at once.
WsPing(p) == ws[p].at = "waiting" /\ Stays(p, At(p, "ponging"))
Ponged(p) ==
  /\ ws[p].at = "ponging"
  /\ Stays(p, [At(p, "waiting") EXCEPT !.silent = 0]) \/ Close(p)
WsPong(p) == ws[p].at = "waiting" /\ Stays(p, [ws[p] EXCEPT !.silent = 0])

\* The client closes, or the stream ends or fails.
WsGone(p) == ws[p].at = "waiting" /\ Close(p)

\* The update of every second, to those with the topic "overview".
WsUpdate(p) == ws[p].at = "waiting" /\ "overview" \in ws[p].topics /\ Stays(p, At(p, "pushing"))

\* Mutant: a ping is sent to a client that has been silent for too long as well.
WsHeartbeatPingsOnly(p) ==
  /\ ws[p].at = "waiting" /\ ws[p].due <= 0
  /\ Stays(p, [At(p, "pushing") EXCEPT !.due = @ + heartbeat_secs])

\* The heartbeat: a client silent for too long is dropped, another gets a ping.  One
\* that was missed is made up for (MissedTickBehavior::Burst).
WsHeartbeat(p) ==
  /\ ws[p].at = "waiting" /\ ws[p].due <= 0
  /\ IF ws[p].silent > timeout_secs THEN Close(p)
     ELSE Stays(p, [At(p, "pushing") EXCEPT !.due = @ + heartbeat_secs])

\* An update or a ping that cannot be sent ends the connection.
Pushed(p) == ws[p].at = "pushing" /\ (Stays(p, At(p, "waiting")) \/ Close(p))

\* A second passes.  A heartbeat that is due is taken first, unless the task awaits
\* a send: a client that does not read delays it.
Tick ==
  /\ \A p \in Pages : /\ ws[p].at = "waiting" => ws[p].due > 0
                      /\ ws[p].at \in Loop => ws[p].due > -MaxStall
  /\ ws' = [p \in Pages |-> IF ws[p].at \in Loop THEN [ws[p] EXCEPT !.silent = @ + 1, !.due = @ - 1] ELSE ws[p]]
  /\ UNCHANGED <<services, bus, streams, ws_connections>>

-----------------------------------------------------------------------------
(* The cache through the admin API and the web interface: it is looked for *)
(* under the name "cache".  A plugin is [name, type, entries].             *)

CacheStatus(cache) ==
  IF cache.name # "cache" THEN "not found" ELSE IF cache.type # "cache" THEN "wrong type" ELSE "ok"
Cleared(cache) == IF CacheStatus(cache) = "ok" THEN [cache EXCEPT !.entries = 0] ELSE cache

\* cache_control: only "clear" is an action.
CacheControl(cache, action) ==
  [status |-> IF action = "clear" \/ CacheStatus(cache) # "ok" THEN CacheStatus(cache) ELSE "bad request",
   cache |-> IF action = "clear" THEN Cleared(cache) ELSE cache]

\* clear_cache of the web interface.
WebClearCache(cache, registry) ==
  [status |-> IF ~registry THEN "unavailable"
              ELSE IF CacheStatus(cache) = "wrong type" THEN "server error" ELSE CacheStatus(cache),
   cache |-> IF registry THEN Cleared(cache) ELSE cache]

\* cache_stats of the admin API, and of the dashboard, which shows zeros instead of
\* an error; the rate is a percentage.
HitRate(hits, misses) == IF hits + misses > 0 THEN (hits * 100) \div (hits + misses) ELSE 0
CacheStats(cache, hits, misses) ==
  IF CacheStatus(cache) = "ok"
  THEN [status |-> "ok", size |-> cache.entries, hit_rate |-> HitRate(hits, misses)]
  ELSE [status |-> CacheStatus(cache), size |-> 0, hit_rate |-> 0]
DashboardCacheStats(cache, registry, hits, misses) ==
  LET s == CacheStats(cache, hits, misses) IN
  IF registry /\ s.status = "ok" THEN s ELSE [status |-> "ok", size |-> 0, hit_rate |-> 0]

-----------------------------------------------------------------------------

Next ==
  \/ BindAdmin \/ BindMonitoring \/ WithAdmin \/ BindWeb \/ TriggerShutdown
  \/ \E s \in Services : Drain(s) \/ End(s)
  \/ \E c \in Clients : SseAccept(c, "queries") \/ SseAccept(c, "security")
  \/ \E c \in Clients : QueryLogsStream(c) \/ SecurityEventsStream(c) \/ SseEnd(c)
  \/ \E p \in Pages : MetricsWs(p) \/ UpgradeFails(p) \/ Connected(p) \/ Greeted(p) \/ WsTopics(p) \/ WsText(p)
                     \/ Replied(p) \/ WsPing(p) \/ Ponged(p) \/ WsPong(p) \/ WsGone(p) \/ WsUpdate(p) \/ WsHeartbeat(p)
                     \/ Pushed(p)
  \/ Tick

Spec == Init /\ [][Next]_vars

-----------------------------------------------------------------------------
(* What the dashboard shows of an upstream and of its windows.             *)

\* UpstreamRegistry: the last registration under a key counts.
Register(entries, key, health) == [k \in DOMAIN entries \union {key} |-> IF k = key THEN health ELSE entries[k]]
Unregister(entries, key) == [k \in DOMAIN entries \ {key} |-> entries[k]]
UpstreamStatus(queries, successes) ==
  IF queries = 0 THEN "unknown"
  ELSE IF successes * 100 >= 95 * queries THEN "healthy"
  ELSE IF successes * 100 >= 50 * queries THEN "degraded" ELSE "unhealthy"
GetAll(entries) == {[key |-> k, status |-> UpstreamStatus(entries[k].queries, entries[k].successes)] : k \in DOMAIN entries}

TimeWindow(w) == CASE w = "1m" -> 60 [] w = "5m" -> 300 [] w = "1h" -> 3600 [] w = "24h" -> 86400 [] OTHER -> 0

-----------------------------------------------------------------------------
(* Properties.                                                             *)

\* For how long a heartbeat has been due.
Late(p) == IF ws[p].due < 0 THEN -ws[p].due ELSE 0

\* ConnectionsCounted: the counters the dashboard shows are the numbers of open
\* connections, whenever and wherever a client goes and whether or not the service
\* has ended meanwhile, and never fall below zero (they are unsigned); that of the
\* streams is zero once the service has ended.  A WebSocket client that says nothing
\* is dropped before another heartbeat after its time has passed, later only by as
\* much as that heartbeat is late, which it can be while a send is awaited.
ConnectionsCounted ==
  /\ sse_connections = Cardinality({c \in Clients : sse[c] \in {"open", "ending"}})
  /\ ws_connections = Cardinality({p \in Pages : ws[p].at \in Counted})
  /\ "web" \in Services => (life["web"] = "ended" => sse_connections = 0)
  /\ \A p \in Pages : ws[p].at \in Loop => ws[p].silent <= timeout_secs + heartbeat_secs + Late(p)
=============================================================================
