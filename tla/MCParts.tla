------------------------------ MODULE MCParts ------------------------------
(***************************************************************************)
(* The components that share no state with the others: the sharded LRU     *)
(* map, the servers, the rate limiter and the event bus with the alert     *)
(* engine.  A behaviour is one of one component, chosen in the initial     *)
(* state; the others stay in their initial state.                          *)
(***************************************************************************)
EXTENDS Integers, Sequences, FiniteSets

CONSTANTS SHARDS, Capacity, Hashes, Writers, NoKey, MaxWrites,                \* ShardedLru
          ServerIds, KindOf, Lists, Conns, MaxConnections, None,              \* Servers
          Clients, Maxima, window_secs, MaxNow, MaxPerTick,                   \* RateLimit
          busCapacity, Viewers, Engine, Messages, OtherType, MaxEvents,
          max_alerts, Aggregated, retries, Windows                            \* AuditEvents

ASSUME LruAssumption ==
  /\ SHARDS \in 1..16 /\ Capacity \in Nat /\ MaxWrites \in Nat
  /\ Hashes \subseteq Nat /\ NoKey \notin Hashes

ASSUME ServersAssumption ==
  /\ KindOf \in [ServerIds -> {"udp", "tcp", "dot", "doh", "doq"}]
  /\ \A l \in Lists : /\ l \in Seq(ServerIds)
                      /\ \A i, j \in 1..Len(l) : l[i] = l[j] => i = j
  /\ None \notin ServerIds
  /\ MaxConnections \in Nat

ASSUME RateAssumption ==
  /\ Maxima \subseteq Nat /\ window_secs \in Nat /\ MaxNow \in Nat

ASSUME BusAssumption ==
  /\ busCapacity \in Nat \ {0} /\ IsFiniteSet(Viewers)
  /\ max_alerts \in Nat \ {0} /\ Aggregated \in Nat

VARIABLES part,
          shard, writerKey, keyExists, evictions, writes, latest, newer,
          list, main, signal, tasks, awaited, srv, permits, conn, timedOut,
          max_queries, now, limits, asked, passed,
          events, next, kept, gone, events_published, events_dropped, active_subscribers,
          engineState, recent, windows, alerts, alert_counter

LRU == INSTANCE ShardedLru
Srv == INSTANCE Servers
Rate == INSTANCE RateLimit
Bus == INSTANCE AuditEvents WITH capacity <- busCapacity, engine <- engineState

lruVars == <<shard, writerKey, keyExists, evictions, writes, latest, newer>>
srvVars == <<list, main, signal, tasks, awaited, srv, permits, conn, timedOut>>
rateVars == <<max_queries, now, limits, asked, passed>>
busVars == <<events, next, kept, gone, events_published, events_dropped, active_subscribers,
             engineState, recent, windows, alerts, alert_counter>>
vars == <<part, lruVars, srvVars, rateVars, busVars>>

\* A component that does not move has one of its initial states.
Init ==
  /\ part \in {"lru", "servers", "rate", "bus"}
  /\ LRU!Init /\ Srv!Init /\ Rate!Init /\ Bus!Init
  /\ part # "servers" => list = CHOOSE l \in Lists : TRUE
  /\ part # "rate" => max_queries = CHOOSE m \in Maxima : TRUE

LruMoves == part = "lru" /\ LRU!Next /\ UNCHANGED <<part, srvVars, rateVars, busVars>>
RateMoves == part = "rate" /\ Rate!Next /\ UNCHANGED <<part, lruVars, srvVars, busVars>>
BusMoves == part = "bus" /\ Bus!Next /\ UNCHANGED <<part, lruVars, srvVars, rateVars>>

\* A step of the servers, and of nothing else.
InServers == part = "servers" /\ Srv!Alive /\ UNCHANGED <<part, lruVars, rateVars, busVars>>
ServersMove == InServers /\ Srv!Next

Next == LruMoves \/ ServersMove \/ RateMoves \/ BusMoves

\* The fairness of Servers, in the behaviours that are its.
Fairness ==
  /\ WF_vars(InServers /\ Srv!MainStep)
  /\ \A s \in ServerIds :
       /\ WF_vars(InServers /\ Srv!StopAccepting(s))
       /\ WF_vars(InServers /\ (Srv!DrainDone(s) \/ Srv!DrainTimeout(s)))
  /\ \A c \in Conns : WF_vars(InServers /\ Srv!ConnProgress(c))

Spec == Init /\ [][Next]_vars /\ Fairness

-----------------------------------------------------------------------------
(* The servers of the run: pairs, each kind once as the first and once as  *)
(* the last of its list, and a pair of one kind.                           *)

RunKinds == [s \in ServerIds |-> IF s = "udp2" THEN "udp" ELSE s]
RunLists == {<<"udp", "dot">>, <<"dot", "doh">>, <<"doh", "tcp">>, <<"tcp", "doq">>,
             <<"doq", "udp">>, <<"udp", "udp2">>}

-----------------------------------------------------------------------------
(* The properties of the components, under their own names.                *)

\* The map keeps within its capacity, finds what was stored last, and orders its
\* shards by last use.
MapCoherent == LRU!MapCoherent
\* The listeners stop and requests drain before the plugins shut down.
DrainBeforePlugins == Srv!DrainBeforePlugins
\* After the signal the process ends, and a stalled client does not keep a permit
\* of a server for ever.
ShutdownEnds == Srv!ShutdownEnds /\ Srv!PermitReturned
\* A client gets at most twice max_queries answers in any window's length.
RateBounded == Rate!RateBounded
\* Every event a subscriber misses is counted as dropped.
DropsAccounted == Bus!DropsAccounted
\* Alerts are bounded, and a repetition is counted and not listed again.
AlertsAggregated == Bus!AlertsAggregated
=============================================================================
