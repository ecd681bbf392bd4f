----------------------------- MODULE RateLimit -----------------------------
(***************************************************************************)
(* The rate_limit plugin (src/src/plugins/executable/ratelimit.rs): a      *)
(* fixed window of queries per client address, opened by its first query,  *)
(* and a background task that forgets clients that have been quiet.        *)
(***************************************************************************)
EXTENDS Integers, Sequences

CONSTANTS Clients,
          Maxima,        \* values of max_queries to choose from
          window_secs,   \* the length of a window
          MaxNow,        \* bound: the last instant
          MaxPerTick     \* bound: queries of a client between two ticks

VARIABLES max_queries,   \* fixed
          now,           \* the clock
          limits,        \* client -> [count, window_start], of the known clients
          asked,         \* queries of each client since the last tick
          passed         \* history: when the queries of each client were let through

vars == <<max_queries, now, limits, asked, passed>>

Init ==
  /\ max_queries \in Maxima
  /\ now = 0
  /\ limits = << >>
  /\ asked = [c \in Clients |-> 0]
  /\ passed = [c \in Clients |-> <<>>]

Tick ==
  /\ now < MaxNow
  /\ now' = now + 1
  /\ asked' = [c \in Clients |-> 0]
  /\ UNCHANGED <<max_queries, limits, passed>>

Elapsed(c) == now - limits[c].window_start

\* The entry after a query of c: a new client and a client whose window is
\* over start a window, the others are counted.
Counted(c) ==
  IF c \notin DOMAIN limits \/ Elapsed(c) >= window_secs
    THEN [count |-> 1, window_start |-> now]
    ELSE [limits[c] EXCEPT !.count = @ + 1]

\* The first query of a window is never refused.
Refused(c) ==
  /\ c \in DOMAIN limits
  /\ Elapsed(c) < window_secs
  /\ limits[c].count + 1 > max_queries

\* Mutant of Cleanup: the comparison is the wrong way round.
CleanupRecent ==
  /\ limits' = [c \in {d \in DOMAIN limits : Elapsed(d) >= window_secs * 2} |-> limits[c]]
  /\ UNCHANGED <<max_queries, now, asked, passed>>

\* should_limit() and execute(): one critical section of the map's entry.
Execute(c) ==
  /\ asked[c] < MaxPerTick
  /\ asked' = [asked EXCEPT ![c] = @ + 1]
  /\ limits' = [d \in DOMAIN limits \cup {c} |-> IF d = c THEN Counted(c) ELSE limits[d]]
  /\ passed' = IF Refused(c) THEN passed ELSE [passed EXCEPT ![c] = Append(@, now)]
  /\ UNCHANGED <<max_queries, now>>

\* cleanup(), from the background task.
Cleanup ==
  /\ limits' = [c \in {d \in DOMAIN limits : Elapsed(d) < window_secs * 2} |-> limits[c]]
  /\ UNCHANGED <<max_queries, now, asked, passed>>

Next == Tick \/ Cleanup \/ \E c \in Clients : Execute(c)

Spec == Init /\ [][Next]_vars

\* The queries a window lets through: the first one even when max_queries is 0.
PerWindow == IF max_queries = 0 THEN 1 ELSE max_queries

(***************************************************************************)
(* Whatever the windows and the clean-up do, a client gets at most twice   *)
(* PerWindow answers in any span shorter than a window: of more than that  *)
(* many, the first and the last are at least a window apart.               *)
(***************************************************************************)
RateBounded ==
  \A c \in Clients : \A i, j \in 1..Len(passed[c]) :
    j = i + 2 * PerWindow => passed[c][j] - passed[c][i] >= window_secs
=============================================================================
