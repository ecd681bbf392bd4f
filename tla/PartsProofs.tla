----------------------------- MODULE PartsProofs -----------------------------
(***************************************************************************)
(* Proofs about the components that share no state: the rate limiter, the  *)
(* event bus with the alert engine, the servers and the sharded LRU map,   *)
(* for any number of clients, subscribers, servers, connections, shards    *)
(* and keys.                                                               *)
(***************************************************************************)
EXTENDS MCParts, SequenceTheorems, FiniteSetTheorems, TLAPS

-----------------------------------------------------------------------------
(* The rate limiter *)

\* Two windows account for what a client was last let through: at most
\* PerWindow queries since s2, the start of its last window, at most as many
\* before that since s1, and s1 is at least a window before s2.  The limiter
\* remembers s2 and, once it has forgotten the client, that window is over.
InWindows(c, s1, s2, a, b) ==
    LET p == passed[c]
        n == Len(p)
    IN  /\ a <= b /\ b <= n
        /\ b - a <= Rate!PerWindow /\ n - b <= Rate!PerWindow
        /\ \A i \in 1 .. a : p[i] <= s1
        /\ \A i \in 1 .. b : p[i] <= s2
        /\ s1 + window_secs <= s2 /\ s2 <= now
        /\ c \in DOMAIN limits => s2 = limits[c].window_start /\ n - b <= limits[c].count
        /\ c \notin DOMAIN limits => s2 + window_secs <= now

\* The inductive invariant.
RateInv ==
    /\ max_queries \in Nat /\ now \in Nat
    /\ \A c \in DOMAIN limits : limits[c].count \in Nat \ {0} /\ limits[c].window_start \in Int
    /\ passed \in [Clients -> Seq(Nat)]
    /\ \A c \in Clients : \A i \in 1 .. Len(passed[c]) : passed[c][i] <= now
    /\ \A c \in Clients : \E s1, s2 \in Int, a, b \in Nat : InWindows(c, s1, s2, a, b)
    /\ Rate!RateBounded

LEMMA PerWindowType ==
    ASSUME max_queries \in Nat
    PROVE  Rate!PerWindow \in Nat \ {0} /\ max_queries <= Rate!PerWindow
BY DEF Rate!PerWindow

LEMMA BeforeWindows ==
    ASSUME NEW n \in Nat, NEW e \in Nat, NEW f \in Nat, NEW w \in Nat, NEW i \in Nat \ {0},
           n + 1 - f <= w, f - e <= w, n + 1 = i + 2 * w
    PROVE  i \in 1 .. e
OBVIOUS

LEMMA RateInitInv == Rate!Init => RateInv
<1> SUFFICES ASSUME Rate!Init PROVE RateInv
    OBVIOUS
<1>1. /\ max_queries \in Nat /\ now = 0 /\ limits = << >>
      /\ passed = [c \in Clients |-> << >>]
    BY RateAssumption DEF Rate!Init
<1>2. DOMAIN limits = {}
    BY <1>1
<1>3. passed \in [Clients -> Seq(Nat)] /\ \A c \in Clients : Len(passed[c]) = 0
    BY <1>1
<1>4. ASSUME NEW c \in Clients
      PROVE  \E s1, s2 \in Int, a, b \in Nat : InWindows(c, s1, s2, a, b)
    <2>1. InWindows(c, -2 * window_secs, -window_secs, 0, 0)
        BY <1>1, <1>2, <1>3, RateAssumption, PerWindowType DEF InWindows
    <2>2. -2 * window_secs \in Int /\ -window_secs \in Int
        BY RateAssumption
    <2> QED BY <2>1, <2>2
<1>5. Rate!RateBounded
    BY <1>3 DEF Rate!RateBounded
<1> QED BY <1>1, <1>2, <1>3, <1>4, <1>5 DEF RateInv

LEMMA RateTickInv ==
    ASSUME RateInv, Rate!Tick
    PROVE  RateInv'
<1>1. now \in Nat /\ now' = now + 1 /\ UNCHANGED <<max_queries, limits, passed>>
    BY DEF Rate!Tick, RateInv
<1>2. ASSUME NEW c \in Clients
      PROVE  \E s1, s2 \in Int, a, b \in Nat : InWindows(c, s1, s2, a, b)'
    <2> PICK s1 \in Int, s2 \in Int, a \in Nat, b \in Nat : InWindows(c, s1, s2, a, b)
        BY DEF RateInv
    <2>1. s2 <= now => s2 <= now'
        BY <1>1
    <2>2. s2 + window_secs <= now => s2 + window_secs <= now'
        BY <1>1, RateAssumption
    <2>3. Rate!PerWindow' = Rate!PerWindow
        BY <1>1 DEF Rate!PerWindow
    <2>4. InWindows(c, s1, s2, a, b)'
        BY <1>1, <2>1, <2>2, <2>3 DEF InWindows
    <2> QED BY <2>4
<1>3. \A c \in Clients : \A i \in 1 .. Len(passed'[c]) : passed'[c][i] <= now'
    BY <1>1 DEF RateInv
<1>4. Rate!RateBounded'
    BY <1>1 DEF RateInv, Rate!RateBounded, Rate!PerWindow
<1> QED BY <1>1, <1>2, <1>3, <1>4 DEF RateInv

\* The clean-up forgets a client only when its last window is long over.
LEMMA RateCleanupInv ==
    ASSUME RateInv, Rate!Cleanup
    PROVE  RateInv'
<1> DEFINE stay == {d \in DOMAIN limits : Rate!Elapsed(d) < window_secs * 2}
<1>1. /\ UNCHANGED <<max_queries, now, passed>> /\ now \in Nat
      /\ limits' = [c \in stay |-> limits[c]]
    BY DEF Rate!Cleanup, RateInv
<1>2. /\ DOMAIN limits' = stay /\ \A c \in stay : limits'[c] = limits[c]
      /\ stay \subseteq DOMAIN limits
    BY <1>1
<1>3. \A c \in DOMAIN limits \ stay :
          limits[c].window_start + window_secs <= now
    BY <1>1, RateAssumption DEF RateInv, Rate!Elapsed
<1> HIDE DEF stay
<1>4. ASSUME NEW c \in Clients
      PROVE  \E s1, s2 \in Int, a, b \in Nat : InWindows(c, s1, s2, a, b)'
    <2> PICK s1 \in Int, s2 \in Int, a \in Nat, b \in Nat : InWindows(c, s1, s2, a, b)
        BY DEF RateInv
    <2>1. InWindows(c, s1, s2, a, b)'
        BY <1>1, <1>2, <1>3 DEF InWindows, Rate!PerWindow
    <2> QED BY <2>1
<1>5. Rate!RateBounded'
    BY <1>1 DEF RateInv, Rate!RateBounded, Rate!PerWindow
<1> QED BY <1>1, <1>2, <1>4, <1>5 DEF RateInv

\* A query that is let through is the last of at most twice PerWindow: the
\* windows move on when it opens one, and its window has room otherwise.
LEMMA RateExecuteInv ==
    ASSUME RateInv, NEW c \in Clients, Rate!Execute(c)
    PROVE  RateInv'
<1> DEFINE opens == c \notin DOMAIN limits \/ Rate!Elapsed(c) >= window_secs
           p == passed[c]
           n == Len(p)
<1>1. /\ UNCHANGED <<max_queries, now>> /\ now \in Nat /\ max_queries \in Nat
      /\ limits' = [d \in DOMAIN limits \cup {c} |->
                       IF d = c THEN Rate!Counted(c) ELSE limits[d]]
      /\ passed' = IF Rate!Refused(c) THEN passed ELSE [passed EXCEPT ![c] = Append(@, now)]
    BY DEF Rate!Execute, RateInv
<1>2. /\ DOMAIN limits' = DOMAIN limits \cup {c}
      /\ \A d \in DOMAIN limits \ {c} : limits'[d] = limits[d]
      /\ limits'[c] = Rate!Counted(c)
    BY <1>1
<1>3. c \in DOMAIN limits => limits[c].count \in Nat \ {0} /\ limits[c].window_start \in Int
    BY DEF RateInv
<1>4. /\ opens => limits'[c].count = 1 /\ limits'[c].window_start = now
      /\ ~opens => /\ limits'[c].count = limits[c].count + 1
                   /\ limits'[c].window_start = limits[c].window_start
      /\ opens => ~Rate!Refused(c)
      /\ ~opens => (Rate!Refused(c) <=> limits[c].count + 1 > max_queries)
    <2>1. CASE opens
        <3>1. ~Rate!Refused(c)
            BY <1>1, <1>3, <2>1, RateAssumption DEF Rate!Refused, Rate!Elapsed
        <3>2. Rate!Counted(c) = [count |-> 1, window_start |-> now]
            BY <2>1 DEF Rate!Counted
        <3> QED BY <1>2, <2>1, <3>1, <3>2
    <2>2. CASE ~opens
        <3>1. Rate!Counted(c) = [limits[c] EXCEPT !.count = @ + 1]
            BY <2>2 DEF Rate!Counted
        <3>2. Rate!Elapsed(c) < window_secs
            BY <1>1, <1>3, <2>2, RateAssumption DEF Rate!Elapsed
        <3> QED BY <1>2, <2>2, <3>1, <3>2 DEF Rate!Refused
    <2> QED BY <2>1, <2>2
<1>5. \A d \in DOMAIN limits' : limits'[d].count \in Nat \ {0} /\ limits'[d].window_start \in Int
    <2>1. limits'[c].count \in Nat \ {0} /\ limits'[c].window_start \in Int
        BY <1>1, <1>3, <1>4
    <2> QED BY <1>2, <2>1 DEF RateInv
<1>6. Rate!PerWindow' = Rate!PerWindow /\ Rate!PerWindow \in Nat \ {0}
      /\ max_queries <= Rate!PerWindow
    BY <1>1, PerWindowType DEF Rate!PerWindow
<1>7. ASSUME NEW d \in Clients \ {c}
      PROVE  /\ passed'[d] = passed[d]
             /\ \E s1, s2 \in Int, a, b \in Nat : InWindows(d, s1, s2, a, b)'
    <2>1. passed'[d] = passed[d]
        BY <1>1 DEF RateInv
    <2>2. /\ d \in DOMAIN limits' <=> d \in DOMAIN limits
          /\ d \in DOMAIN limits => limits'[d] = limits[d]
        BY <1>2
    <2> PICK s1 \in Int, s2 \in Int, a \in Nat, b \in Nat : InWindows(d, s1, s2, a, b)
        BY DEF RateInv
    <2>3. InWindows(d, s1, s2, a, b)'
        BY <1>1, <1>6, <2>1, <2>2 DEF InWindows
    <2> QED BY <2>1, <2>3
<1>p. p \in Seq(Nat) /\ n \in Nat
    BY DEF RateInv
<1> PICK s1 \in Int, s2 \in Int, a \in Nat, b \in Nat : InWindows(c, s1, s2, a, b)
    BY DEF RateInv
<1>8. /\ a <= b /\ b <= n
      /\ b - a <= Rate!PerWindow /\ n - b <= Rate!PerWindow
      /\ \A i \in 1 .. a : p[i] <= s1
      /\ \A i \in 1 .. b : p[i] <= s2
      /\ s1 + window_secs <= s2 /\ s2 <= now
      /\ c \in DOMAIN limits => s2 = limits[c].window_start /\ n - b <= limits[c].count
      /\ c \notin DOMAIN limits => s2 + window_secs <= now
    BY DEF InWindows
<1>9. \A i \in 1 .. n : p[i] <= now /\ p[i] \in Nat
    BY <1>p, SMTT(20) DEF RateInv
<1>10. CASE Rate!Refused(c)
    <2>1. passed' = passed /\ ~opens
        BY <1>1, <1>4, <1>10
    <2>2. c \in DOMAIN limits /\ c \in DOMAIN limits'
        BY <1>2, <2>1
    <2>3. s2 = limits'[c].window_start /\ n - b <= limits'[c].count
        BY <1>3, <1>4, <1>8, <1>p, <2>1, <2>2
    <2>4. InWindows(c, s1, s2, a, b)'
        BY <1>1, <1>6, <1>8, <2>1, <2>2, <2>3 DEF InWindows
    <2>5. Rate!RateBounded'
        BY <1>6, <2>1 DEF RateInv, Rate!RateBounded
    <2>6. \A d \in Clients : \E t1, t2 \in Int, e, f \in Nat : InWindows(d, t1, t2, e, f)'
        BY <1>7, <2>4
    <2> QED BY <1>1, <1>5, <2>1, <2>5, <2>6 DEF RateInv
<1>11. CASE ~Rate!Refused(c)
    <2>1. passed' = [passed EXCEPT ![c] = Append(p, now)] /\ passed'[c] = Append(p, now)
        BY <1>1, <1>11 DEF RateInv
    <2>2. /\ Append(p, now) \in Seq(Nat) /\ Len(Append(p, now)) = n + 1
          /\ \A i \in 1 .. n : Append(p, now)[i] = p[i]
          /\ Append(p, now)[n + 1] = now
        BY <1>1, <1>p
    <2>3. passed' \in [Clients -> Seq(Nat)]
        BY <2>1, <2>2 DEF RateInv
    <2> DEFINE r == passed'[c]
    <2>r. /\ Len(r) = n + 1 /\ \A i \in 1 .. n : r[i] = p[i]
          /\ r[n + 1] = now
        BY <2>1, <2>2
    <2> HIDE DEF r, p, n, opens
    <2>4. \A i \in 1 .. n + 1 : r[i] <= now /\ r[i] \in Nat
        BY <1>1, <1>9, <1>p, <2>r
    <2>w. \E t1, t2 \in Int, e, f \in Nat :
              /\ e <= f /\ f <= n + 1
              /\ f - e <= Rate!PerWindow /\ n + 1 - f <= Rate!PerWindow
              /\ \A i \in 1 .. e : r[i] <= t1
              /\ \A i \in 1 .. f : r[i] <= t2
              /\ t1 + window_secs <= t2 /\ t2 <= now
              /\ t2 = limits'[c].window_start /\ n + 1 - f <= limits'[c].count
        <3>1. CASE opens
            <4>1. s2 + window_secs <= now
                BY <1>1, <1>3, <1>8, <3>1, RateAssumption DEF Rate!Elapsed, opens
            <4>0. 1 .. b \subseteq 1 .. n
                BY <1>8, <1>p
            <4>2. \A i \in 1 .. b : r[i] <= s2
                BY <1>8, <2>r, <4>0
            <4>3. \A i \in 1 .. n : r[i] <= now
                BY <2>4, <1>p
            <4>4. b <= n /\ n <= n + 1 /\ n - b <= Rate!PerWindow
                  /\ n + 1 - n <= Rate!PerWindow /\ n + 1 - n = 1
                BY <1>6, <1>8, <1>p
            <4>5. now <= now /\ now \in Int
                BY <1>1
            <4>6. now = limits'[c].window_start /\ limits'[c].count = 1
                BY <1>4, <3>1
            <4> n \in Nat /\ now \in Int
                BY <1>p, <4>5
            <4> WITNESS s2 \in Int, now \in Int, b \in Nat, n \in Nat
            <4> QED BY <4>1, <4>2, <4>3, <4>4, <4>5, <4>6
        <3>2. CASE ~opens
            <4>1. c \in DOMAIN limits /\ limits[c].count + 1 <= max_queries
                BY <1>1, <1>3, <1>4, <1>11, <3>2 DEF opens
            <4>2. n + 1 - b <= limits[c].count + 1 /\ n + 1 - b <= Rate!PerWindow
                BY <1>1, <1>3, <1>6, <1>8, <1>p, <4>1
            <4>0. 1 .. a \subseteq 1 .. n /\ 1 .. b \subseteq 1 .. n
                BY <1>8, <1>p
            <4>3. /\ \A i \in 1 .. a : r[i] <= s1
                  /\ \A i \in 1 .. b : r[i] <= s2
                BY <1>8, <2>r, <4>0
            <4>4. b <= n + 1
                BY <1>8, <1>p
            <4>5. limits'[c].count = limits[c].count + 1 /\ limits'[c].window_start = s2
                BY <1>4, <1>8, <3>2, <4>1
            <4> QED BY <1>8, <4>2, <4>3, <4>4, <4>5
        <3> QED BY <3>1, <3>2
    <2> PICK t1 \in Int, t2 \in Int, e \in Nat, f \in Nat :
              /\ e <= f /\ f <= n + 1
              /\ f - e <= Rate!PerWindow /\ n + 1 - f <= Rate!PerWindow
              /\ \A i \in 1 .. e : r[i] <= t1
              /\ \A i \in 1 .. f : r[i] <= t2
              /\ t1 + window_secs <= t2 /\ t2 <= now
              /\ t2 = limits'[c].window_start /\ n + 1 - f <= limits'[c].count
        BY <2>w
    <2>a. n + 1 - f <= Rate!PerWindow /\ f - e <= Rate!PerWindow
        OBVIOUS
    <2>5. InWindows(c, t1, t2, e, f)'
        <3>1. c \in DOMAIN limits'
            BY <1>2
        <3>2. /\ e <= f /\ f <= Len(passed'[c])
              /\ f - e <= Rate!PerWindow' /\ Len(passed'[c]) - f <= Rate!PerWindow'
            BY <1>6, <1>p, <2>r DEF r
        <3>3. /\ \A i \in 1 .. e : passed'[c][i] <= t1
              /\ \A i \in 1 .. f : passed'[c][i] <= t2
            BY DEF r
        <3>4. t1 + window_secs <= t2 /\ t2 <= now'
            BY <1>1
        <3>5. t2 = limits'[c].window_start /\ Len(passed'[c]) - f <= limits'[c].count
            BY <1>p, <2>r DEF r
        <3> QED BY <3>1, <3>2, <3>3, <3>4, <3>5 DEF InWindows
    <2>6. ASSUME NEW i \in 1 .. n + 1, NEW j \in 1 .. n + 1, j = i + 2 * Rate!PerWindow
          PROVE  r[j] - r[i] >= window_secs
        <3>1. CASE j <= n
            <4>1. i \in 1 .. n /\ j \in 1 .. n
                BY <1>6, <1>p, <2>6, <3>1
            <4>2. p[j] - p[i] >= window_secs
                BY <2>6, <4>1 DEF RateInv, Rate!RateBounded, p, n
            <4>3. r[j] = p[j] /\ r[i] = p[i]
                BY <2>r, <4>1
            <4> QED BY <4>2, <4>3
        <3>2. CASE j = n + 1
            <4>0. n + 1 = i + 2 * Rate!PerWindow /\ i \in Nat \ {0}
                BY <1>p, <2>6, <3>2, SMTT(20)
            <4>1. i \in 1 .. e
                BY <1>6, <1>p, <2>a, <4>0, BeforeWindows
            <4>2. r[i] <= t1 /\ t1 + window_secs <= now /\ r[j] = now /\ r[i] \in Nat
                BY <1>1, <2>4, <2>6, <2>r, <3>2, <4>1, RateAssumption, SMTT(20)
            <4> QED BY <1>1, <4>2, RateAssumption, SMTT(20)
        <3> QED BY <1>p, <3>1, <3>2
    <2>7. Rate!RateBounded'
        <3>1. \A d \in Clients \ {c} : \A i, j \in 1 .. Len(passed'[d]) :
                  j = i + 2 * Rate!PerWindow => passed'[d][j] - passed'[d][i] >= window_secs
            BY <1>7 DEF RateInv, Rate!RateBounded
        <3>2. \A i, j \in 1 .. Len(passed'[c]) :
                  j = i + 2 * Rate!PerWindow => passed'[c][j] - passed'[c][i] >= window_secs
            BY <2>6, <2>r DEF r
        <3> QED BY <1>6, <3>1, <3>2 DEF Rate!RateBounded
    <2>8. \A d \in Clients : \A i \in 1 .. Len(passed'[d]) : passed'[d][i] <= now
        <3>1. \A d \in Clients \ {c} : \A i \in 1 .. Len(passed'[d]) : passed'[d][i] <= now
            BY <1>7 DEF RateInv
        <3>2. \A i \in 1 .. Len(passed'[c]) : passed'[c][i] <= now
            BY <2>4, <2>r DEF r
        <3> QED BY <3>1, <3>2
    <2>9. \A d \in Clients : \E u1, u2 \in Int, g, h \in Nat : InWindows(d, u1, u2, g, h)'
        BY <1>7, <2>5
    <2> QED BY <1>1, <1>5, <2>3, <2>7, <2>8, <2>9 DEF RateInv
<1> QED BY <1>10, <1>11

LEMMA RateNextInv == RateInv /\ [Rate!Next]_rateVars => RateInv'
<1> SUFFICES ASSUME RateInv, [Rate!Next]_rateVars PROVE RateInv'
    OBVIOUS
<1>1. CASE UNCHANGED rateVars
    <2>1. UNCHANGED <<max_queries, now, limits, passed>>
        BY <1>1 DEF rateVars
    <2>2. Rate!PerWindow' = Rate!PerWindow
        BY <2>1 DEF Rate!PerWindow
    <2>3. Rate!RateBounded'
        BY <2>1, <2>2 DEF RateInv, Rate!RateBounded
    <2> QED BY <2>1, <2>2, <2>3 DEF RateInv, InWindows
<1> QED BY <1>1, RateTickInv, RateCleanupInv, RateExecuteInv DEF Rate!Next

\* A rate-limited client gets at most twice max_queries answers in any span
\* shorter than a window, wherever the windows fall and whenever the clean-up
\* forgets it (ratelimit.rs:78-115).
THEOREM RateIsBounded == Spec => []RateBounded
<1>1. Init => RateInv
    BY RateInitInv DEF Init
<1>2. RateInv /\ [Next]_vars => RateInv'
    <2> SUFFICES ASSUME [Next]_vars PROVE [Rate!Next]_rateVars
        BY RateNextInv
    <2> QED BY DEF Next, vars, LruMoves, RateMoves, BusMoves, ServersMove, InServers
<1>3. RateInv => RateBounded
    BY DEF RateInv, RateBounded
<1> QED BY <1>1, <1>2, <1>3, PTL DEF Spec

-----------------------------------------------------------------------------
(* The event bus *)

\* The inductive invariant of the bus: a subscriber is behind the events and
\* has received no more than it has moved past.
BusInv ==
    /\ events \in Seq(Messages \cup {OtherType})
    /\ next \in [Bus!Subs -> Nat] /\ kept \in [Bus!Subs -> Nat]
    /\ \A s \in Bus!Subs : /\ kept[s] <= next[s] /\ next[s] <= Len(events) + 1
                           /\ next[s] = 0 <=> kept[s] = 0
    /\ gone \in Nat /\ events_dropped \in Nat /\ active_subscribers \in Nat
    /\ Bus!DropsAccounted

LEMMA SubsFinite == IsFiniteSet(Bus!Subs) /\ Bus!Subs' = Bus!Subs
BY BusAssumption, FS_AddElement DEF Bus!Subs

LEMMA BusCardinality ==
    ASSUME NEW S
    PROVE  Bus!Cardinality(S) = Cardinality(S)
BY DEF Bus!Cardinality, Cardinality

LEMMA Accounts ==
    /\ Bus!DropsAccounted <=> /\ Cardinality(Bus!Missed) + gone = events_dropped
                             /\ active_subscribers = Cardinality(Bus!Receivers)
    /\ Bus!DropsAccounted' <=> /\ Cardinality(Bus!Missed') + gone' = events_dropped'
                              /\ active_subscribers' = Cardinality(Bus!Receivers')
<1>1. /\ Bus!Cardinality(Bus!Missed) = Cardinality(Bus!Missed)
      /\ Bus!Cardinality(Bus!Receivers) = Cardinality(Bus!Receivers)
      /\ Bus!Cardinality(Bus!Missed') = Cardinality(Bus!Missed')
      /\ Bus!Cardinality(Bus!Receivers') = Cardinality(Bus!Receivers')
    BY BusCardinality
<1> QED BY <1>1 DEF Bus!DropsAccounted

LEMMA SliceCardinality ==
    ASSUME NEW s, NEW lo \in Nat, NEW hi \in Nat, lo <= hi
    PROVE  /\ IsFiniteSet({s} \X (lo .. hi - 1))
           /\ Cardinality({s} \X (lo .. hi - 1)) = hi - lo
<1>1. IsFiniteSet(lo .. hi - 1) /\ Cardinality(lo .. hi - 1) = hi - lo
    <2>1. lo \in Int /\ hi - 1 \in Int
        OBVIOUS
    <2>2. /\ IsFiniteSet(lo .. hi - 1)
          /\ Cardinality(lo .. hi - 1) = IF lo > hi - 1 THEN 0 ELSE hi - 1 - lo + 1
        BY <2>1, FS_Interval
    <2> QED BY <2>2
<1>2. IsFiniteSet({s}) /\ Cardinality({s}) = 1
    BY FS_Singleton
<1>3. /\ IsFiniteSet({s} \X (lo .. hi - 1))
      /\ Cardinality({s} \X (lo .. hi - 1)) = 1 * (hi - lo)
    BY <1>1, <1>2, FS_Product, ZenonT(40)
<1> QED BY <1>3

LEMMA MissedFinite ==
    ASSUME BusInv
    PROVE  IsFiniteSet(Bus!Missed) /\ Cardinality(Bus!Missed) \in Nat
<1>1. IsFiniteSet(1 .. Len(events))
    BY FS_Interval DEF BusInv
<1>2. IsFiniteSet(Bus!Subs \X (1 .. Len(events)))
    BY <1>1, SubsFinite, FS_Product
<1>3. Bus!Missed \in SUBSET (Bus!Subs \X (1 .. Len(events)))
    BY DEF Bus!Missed
<1> QED BY <1>2, <1>3, FS_Subset, FS_CardinalityType

\* Which pairs are missed, without the bound on the events.
LEMMA MissedPairs ==
    ASSUME BusInv
    PROVE  Bus!Missed = {p \in Bus!Subs \X Nat : kept[p[1]] <= p[2] /\ p[2] < next[p[1]]}
<1>1. ASSUME NEW s \in Bus!Subs, NEW i \in Nat, kept[s] <= i, i < next[s]
      PROVE  i \in 1 .. Len(events)
    BY <1>1 DEF BusInv
<1>2. \A p \in Bus!Subs \X Nat :
          kept[p[1]] <= p[2] /\ p[2] < next[p[1]] => p[2] \in 1 .. Len(events)
    BY <1>1
<1>3. Len(events) \in Nat
    BY DEF BusInv
<1> QED BY <1>2, <1>3 DEF Bus!Missed

LEMMA BusPublishInv ==
    ASSUME BusInv, NEW e \in Messages \cup {OtherType}, Bus!Publish(e)
    PROVE  BusInv'
<1>1. /\ events' = Append(events, e) /\ events' \in Seq(Messages \cup {OtherType})
      /\ Len(events') = Len(events) + 1 /\ Len(events) \in Nat
      /\ UNCHANGED <<next, kept, gone, events_dropped, active_subscribers>>
    BY DEF Bus!Publish, BusInv
<1>2. \A s \in Bus!Subs : next[s] <= Len(events') + 1
    BY <1>1 DEF BusInv
<1>3. Bus!Missed' = Bus!Missed
    <2>1. \A i \in 1 .. Len(events') : \A s \in Bus!Subs : i < next[s] => i \in 1 .. Len(events)
        BY <1>1 DEF BusInv
    <2>2. 1 .. Len(events) \subseteq 1 .. Len(events')
        BY <1>1
    <2> QED BY <1>1, <2>1, <2>2, SubsFinite DEF Bus!Missed
<1>4. Bus!DropsAccounted'
    BY <1>1, <1>3, SubsFinite, Accounts DEF BusInv, Bus!Receivers
<1> QED BY <1>1, <1>2, <1>4, SubsFinite DEF BusInv

LEMMA ReceiversFinite ==
    IsFiniteSet(Bus!Receivers) /\ Cardinality(Bus!Receivers) \in Nat
<1>1. Bus!Receivers \in SUBSET Bus!Subs
    BY DEF Bus!Receivers
<1> QED BY <1>1, SubsFinite, FS_Subset, FS_CardinalityType

LEMMA BusSubscribeInv ==
    ASSUME BusInv, NEW s \in Bus!Subs, Bus!Subscribe(s)
    PROVE  BusInv'
<1> DEFINE k == Len(events) + 1
<1>1. /\ next[s] = 0 /\ next' = [next EXCEPT ![s] = k] /\ kept' = [kept EXCEPT ![s] = k]
      /\ active_subscribers' = active_subscribers + 1
      /\ UNCHANGED <<events, gone, events_dropped>>
      /\ k \in Nat /\ k > 0
    BY DEF Bus!Subscribe, BusInv
<1>2. /\ next' \in [Bus!Subs -> Nat] /\ kept' \in [Bus!Subs -> Nat]
      /\ \A t \in Bus!Subs : /\ kept'[t] <= next'[t] /\ next'[t] <= Len(events) + 1
                             /\ next'[t] = 0 <=> kept'[t] = 0
    BY <1>1 DEF BusInv
<1>3. Bus!Missed' = Bus!Missed
    <2>1. \A t \in Bus!Subs : \A i \in 1 .. Len(events) :
              kept'[t] <= i /\ i < next'[t] <=> kept[t] <= i /\ i < next[t]
        BY <1>1 DEF BusInv
    <2> HIDE DEF k
    <2> QED BY <1>1, <2>1, SubsFinite DEF Bus!Missed
<1>4. Cardinality(Bus!Receivers') = Cardinality(Bus!Receivers) + 1
    <2> HIDE DEF k
    <2>1. Bus!Receivers' = Bus!Receivers \cup {s} /\ s \notin Bus!Receivers
        BY <1>1, SubsFinite DEF Bus!Receivers, BusInv
    <2> QED BY <2>1, ReceiversFinite, FS_AddElement
<1>5. Bus!DropsAccounted'
    BY <1>1, <1>3, <1>4, Accounts DEF BusInv
<1> QED BY <1>1, <1>2, <1>5, SubsFinite DEF BusInv

LEMMA BusUnsubscribeInv ==
    ASSUME BusInv, NEW s \in Bus!Subs, Bus!Unsubscribe(s)
    PROVE  BusInv'
<1> DEFINE slice == {s} \X (kept[s] .. next[s] - 1)
<1>0. kept[s] \in Nat /\ next[s] \in Nat /\ kept[s] <= next[s]
    BY DEF BusInv
<1>1. /\ next[s] > 0 /\ next' = [next EXCEPT ![s] = 0] /\ kept' = [kept EXCEPT ![s] = 0]
      /\ gone' = gone + (next[s] - kept[s])
      /\ active_subscribers' = active_subscribers - 1
      /\ UNCHANGED <<events, events_dropped>>
    BY DEF Bus!Unsubscribe, Bus!Lost
<1>2. /\ next' \in [Bus!Subs -> Nat] /\ kept' \in [Bus!Subs -> Nat]
      /\ \A t \in Bus!Subs : /\ kept'[t] <= next'[t] /\ next'[t] <= Len(events) + 1
                             /\ next'[t] = 0 <=> kept'[t] = 0
    BY <1>1 DEF BusInv
<1>3. IsFiniteSet(slice) /\ Cardinality(slice) = next[s] - kept[s]
    BY <1>0, SliceCardinality
<1>4. Bus!Missed' = Bus!Missed \ slice /\ slice \subseteq Bus!Missed
    <2>1. \A t \in Bus!Subs : \A i \in 1 .. Len(events) :
              kept'[t] <= i /\ i < next'[t] <=> t # s /\ kept[t] <= i /\ i < next[t]
        BY <1>1 DEF BusInv
    <2>2. \A i \in 1 .. Len(events) :
              i \in kept[s] .. next[s] - 1 <=> kept[s] <= i /\ i < next[s]
        BY <1>0 DEF BusInv
    <2>3. kept[s] .. next[s] - 1 \subseteq 1 .. Len(events)
        BY <1>0, <1>1 DEF BusInv
    <2>4. slice \subseteq Bus!Missed
        BY <2>2, <2>3 DEF Bus!Missed
    <2>5. Bus!Missed' = {p \in Bus!Subs \X (1 .. Len(events)) :
                            p[1] # s /\ kept[p[1]] <= p[2] /\ p[2] < next[p[1]]}
        BY <1>1, <2>1, SubsFinite DEF Bus!Missed
    <2>6. \A p \in Bus!Missed : p \in slice <=> p[1] = s
        BY <2>2 DEF Bus!Missed
    <2> HIDE DEF slice
    <2> QED BY <2>4, <2>5, <2>6 DEF Bus!Missed
<1> HIDE DEF slice
<1>5. Cardinality(Bus!Missed') = Cardinality(Bus!Missed) - (next[s] - kept[s])
    <2>1. Bus!Missed \cap slice = slice
        BY <1>4
    <2>2. Cardinality(Bus!Missed \ slice) =
              Cardinality(Bus!Missed) - Cardinality(Bus!Missed \cap slice)
        BY MissedFinite, FS_Difference
    <2> QED BY <1>3, <1>4, <2>1, <2>2
<1>6. Cardinality(Bus!Receivers') = Cardinality(Bus!Receivers) - 1
    <2>1. Bus!Receivers' = Bus!Receivers \ {s} /\ s \in Bus!Receivers
        BY <1>1, SubsFinite DEF Bus!Receivers, BusInv
    <2> QED BY <2>1, ReceiversFinite, FS_RemoveElement
<1>7. gone' \in Nat /\ active_subscribers' \in Nat
    <2>1. Cardinality(Bus!Receivers) \in Nat /\ Cardinality(Bus!Receivers) >= 1
        <3>1. s \in Bus!Receivers
            BY <1>1 DEF Bus!Receivers
        <3> QED BY <3>1, ReceiversFinite, FS_EmptySet
    <2> QED BY <1>0, <1>1, <2>1, Accounts DEF BusInv
<1>8. Bus!DropsAccounted'
    <2>1. Cardinality(Bus!Missed') + gone' = events_dropped'
        BY <1>0, <1>1, <1>5, MissedFinite, Accounts DEF BusInv
    <2>2. active_subscribers' = Cardinality(Bus!Receivers')
        BY <1>1, <1>6, Accounts DEF BusInv
    <2> QED BY <2>1, <2>2, Accounts
<1> QED BY <1>1, <1>2, <1>7, <1>8, SubsFinite DEF BusInv

\* What a subscriber moves past when it has lagged is counted.
LEMMA BusSkipLaggedInv ==
    ASSUME BusInv, NEW s \in Bus!Subs, Bus!SkipLagged(s)
    PROVE  BusInv'
<1> DEFINE slice == {s} \X (next[s] .. Bus!Oldest - 1)
<1>0. /\ kept[s] \in Nat /\ next[s] \in Nat /\ kept[s] <= next[s]
      /\ next[s] > 0 /\ kept[s] > 0
      /\ Bus!Oldest \in Nat /\ next[s] < Bus!Oldest /\ Bus!Oldest <= Len(events) + 1
      /\ Len(events) \in Nat
    BY BusAssumption DEF BusInv, Bus!SkipLagged, Bus!Receivers, Bus!Lagged, Bus!Oldest
<1>1. /\ next' = [next EXCEPT ![s] = Bus!Oldest]
      /\ events_dropped' = events_dropped + (Bus!Oldest - next[s])
      /\ UNCHANGED <<events, kept, gone, active_subscribers>>
    BY DEF Bus!SkipLagged
<1> DEFINE o == Bus!Oldest
<1> HIDE DEF o
<1>o. Bus!Oldest = o
    BY DEF o
<1>2. /\ next' \in [Bus!Subs -> Nat]
      /\ \A t \in Bus!Subs : /\ kept[t] <= next'[t] /\ next'[t] <= Len(events) + 1
                             /\ next'[t] = 0 <=> kept[t] = 0
    BY <1>0, <1>1, <1>o DEF BusInv
<1>3. IsFiniteSet(slice) /\ Cardinality(slice) = o - next[s]
    <2>1. o \in Nat /\ next[s] \in Nat /\ next[s] <= o
        BY <1>0, <1>o
    <2>2. slice = {s} \X (next[s] .. o - 1)
        BY <1>o
    <2>3. /\ IsFiniteSet({s} \X (next[s] .. o - 1))
          /\ Cardinality({s} \X (next[s] .. o - 1)) = o - next[s]
        BY <2>1, SliceCardinality
    <2> HIDE DEF slice
    <2> QED BY <2>2, <2>3
<1>4. Bus!Missed' = Bus!Missed \cup slice /\ Bus!Missed \cap slice = {}
    <2>1. \A t \in Bus!Subs : \A i \in 1 .. Len(events) :
              kept[t] <= i /\ i < next'[t] <=>
                  \/ kept[t] <= i /\ i < next[t]
                  \/ t = s /\ i \in next[s] .. o - 1
        BY <1>0, <1>1, <1>o DEF BusInv
    <2>2. next[s] .. o - 1 \subseteq 1 .. Len(events)
        BY <1>0, <1>o
    <2>3. \A i \in next[s] .. o - 1 : ~(i < next[s])
        BY <1>0, <1>o
    <2>4. slice = {p \in Bus!Subs \X (1 .. Len(events)) :
                      p[1] = s /\ p[2] \in next[s] .. o - 1}
        BY <1>o, <2>2
    <2> HIDE DEF slice
    <2>5. Bus!Missed' = Bus!Missed \cup slice
        BY <1>1, <2>1, <2>4, SubsFinite DEF Bus!Missed
    <2>6. Bus!Missed \cap slice = {}
        BY <2>3, <2>4 DEF Bus!Missed
    <2> QED BY <2>5, <2>6
<1> HIDE DEF slice
<1>5. Cardinality(Bus!Missed') = Cardinality(Bus!Missed) + (o - next[s])
    <2>1. Cardinality(Bus!Missed \cup slice) =
              Cardinality(Bus!Missed) + Cardinality(slice) - Cardinality(Bus!Missed \cap slice)
        BY <1>3, MissedFinite, FS_Union
    <2>2. Cardinality(Bus!Missed \cap slice) = 0
        BY <1>4, FS_EmptySet
    <2> QED BY <1>0, <1>o, <1>3, <1>4, <2>1, <2>2, MissedFinite
<1>6. Bus!Receivers' = Bus!Receivers
    BY <1>0, <1>1, SubsFinite DEF Bus!Receivers, BusInv
<1>7. Bus!DropsAccounted'
    BY <1>0, <1>1, <1>o, <1>5, <1>6, MissedFinite, Accounts DEF BusInv
<1>8. events_dropped' \in Nat
    BY <1>0, <1>1 DEF BusInv
<1> QED BY <1>1, <1>2, <1>7, <1>8, SubsFinite DEF BusInv

\* Receiving moves next and kept on together.
LEMMA BusTakesInv ==
    ASSUME BusInv, NEW s \in Bus!Subs, Bus!Takes(s)
    PROVE  BusInv'
<1> DEFINE k == kept[s]
           n == next[s]
<1>0. k \in Nat /\ n \in Nat /\ k <= n /\ n > 0 /\ k > 0 /\ n <= Len(events)
      /\ Len(events) \in Nat
    BY DEF BusInv, Bus!Takes, Bus!Receivers
<1>1. /\ next' = [next EXCEPT ![s] = n + 1] /\ kept' = [kept EXCEPT ![s] = k + 1]
      /\ UNCHANGED <<events, gone, events_dropped, active_subscribers>>
    BY DEF Bus!Takes
<1>2. /\ next' \in [Bus!Subs -> Nat] /\ kept' \in [Bus!Subs -> Nat]
      /\ \A t \in Bus!Subs : /\ kept'[t] <= next'[t] /\ next'[t] <= Len(events) + 1
                             /\ next'[t] = 0 <=> kept'[t] = 0
    BY <1>0, <1>1 DEF BusInv
<1>3. \A t \in Bus!Subs : \A i \in 1 .. Len(events) :
          kept'[t] <= i /\ i < next'[t] <=>
              IF t = s THEN k < i /\ i <= n ELSE kept[t] <= i /\ i < next[t]
    BY <1>0, <1>1 DEF BusInv
<1>4. CASE k = n
    <2>1. \A t \in Bus!Subs : \A i \in 1 .. Len(events) :
              kept'[t] <= i /\ i < next'[t] <=> kept[t] <= i /\ i < next[t]
        BY <1>0, <1>3, <1>4
    <2>2. Bus!Missed' = Bus!Missed
        BY <1>1, <2>1, SubsFinite DEF Bus!Missed
    <2>3. Bus!Receivers' = Bus!Receivers
        BY <1>0, <1>1, SubsFinite DEF Bus!Receivers, BusInv
    <2>4. Bus!DropsAccounted'
        BY <1>1, <2>2, <2>3, Accounts DEF BusInv
    <2> QED BY <1>1, <1>2, <2>4, SubsFinite DEF BusInv
<1>5. CASE k < n
    <2>1. \A t \in Bus!Subs : \A i \in 1 .. Len(events) :
              kept'[t] <= i /\ i < next'[t] <=>
                  \/ kept[t] <= i /\ i < next[t] /\ ~(t = s /\ i = k)
                  \/ t = s /\ i = n
        BY <1>0, <1>3, <1>5
    <2>2. k \in 1 .. Len(events) /\ n \in 1 .. Len(events)
        BY <1>0
    <2> HIDE DEF k, n
    <2>3. Bus!Missed' = (Bus!Missed \ {<<s, k>>}) \cup {<<s, n>>}
        BY <1>1, <2>1, <2>2, SubsFinite DEF Bus!Missed
    <2>4. <<s, k>> \in Bus!Missed /\ <<s, n>> \notin Bus!Missed
        BY <1>0, <1>5, <2>2 DEF Bus!Missed, k, n
    <2>5. /\ IsFiniteSet(Bus!Missed \ {<<s, k>>})
          /\ Cardinality(Bus!Missed \ {<<s, k>>}) = Cardinality(Bus!Missed) - 1
        BY <2>4, MissedFinite, FS_RemoveElement
    <2>6. Cardinality(Bus!Missed') = Cardinality(Bus!Missed \ {<<s, k>>}) + 1
        BY <2>3, <2>4, <2>5, FS_AddElement
    <2>7. Cardinality(Bus!Missed') = Cardinality(Bus!Missed)
        BY <2>5, <2>6, MissedFinite
    <2>8. Bus!Receivers' = Bus!Receivers
        BY <1>0, <1>1, SubsFinite DEF Bus!Receivers, BusInv, n
    <2>9. Bus!DropsAccounted'
        BY <1>1, <2>7, <2>8, Accounts DEF BusInv
    <2> QED BY <1>1, <1>2, <2>9, SubsFinite DEF BusInv
<1> QED BY <1>0, <1>4, <1>5

LEMMA BusUnchangedInv ==
    ASSUME BusInv, UNCHANGED <<events, next, kept, gone, events_dropped, active_subscribers>>
    PROVE  BusInv'
<1>1. Bus!Missed' = Bus!Missed /\ Bus!Receivers' = Bus!Receivers
    BY SubsFinite DEF Bus!Missed, Bus!Receivers
<1>2. Bus!DropsAccounted'
    BY <1>1, Accounts DEF BusInv
<1> QED BY <1>2, SubsFinite DEF BusInv

LEMMA BusInitInv == Bus!Init => BusInv
<1> SUFFICES ASSUME Bus!Init PROVE BusInv
    OBVIOUS
<1>1. /\ events = << >> /\ next = [s \in Bus!Subs |-> 0] /\ kept = next
      /\ gone = 0 /\ events_dropped = 0 /\ active_subscribers = 0
    BY DEF Bus!Init
<1>2. Bus!Missed = {} /\ Bus!Receivers = {}
    BY <1>1 DEF Bus!Missed, Bus!Receivers
<1>3. Bus!DropsAccounted
    BY <1>1, <1>2, Accounts, FS_EmptySet
<1> QED BY <1>1, <1>3 DEF BusInv

LEMMA BusNextInv == BusInv /\ [Bus!Next]_busVars => BusInv'
<1> SUFFICES ASSUME BusInv, [Bus!Next]_busVars PROVE BusInv'
    OBVIOUS
<1>1. CASE UNCHANGED busVars
    BY <1>1, BusUnchangedInv DEF busVars
<1>2. ASSUME NEW s \in Bus!Subs, Bus!Recv(s) PROVE BusInv'
    BY <1>2, BusTakesInv DEF Bus!Recv
<1>3. ASSUME Bus!EngineRecv PROVE BusInv'
    <2>1. Engine \in Bus!Subs
        BY DEF Bus!Subs
    <2> QED BY <1>3, <2>1, BusTakesInv DEF Bus!EngineRecv
<1>4. ASSUME \/ Bus!WindowPasses \/ Bus!AddAlert \/ Bus!Webhook
             \/ \E i \in 1 .. max_alerts : Bus!Acknowledge(i)
             \/ Bus!AcknowledgeAll \/ Bus!Clear
      PROVE  BusInv'
    <2>1. UNCHANGED Bus!busVars
        BY <1>4 DEF Bus!WindowPasses, Bus!AddAlert, Bus!Webhook, Bus!Acknowledge,
                    Bus!AcknowledgeAll, Bus!Clear
    <2> QED BY <2>1, BusUnchangedInv DEF Bus!busVars
<1> QED BY <1>1, <1>2, <1>3, <1>4, BusPublishInv, BusSubscribeInv, BusUnsubscribeInv,
           BusSkipLaggedInv DEF Bus!Next

\* No security event is lost silently, for any number of subscribers that come,
\* go and lag: what they have moved past they received, or it is counted in
\* events_dropped (event_bus.rs:275-294, 313-320).
THEOREM DropsAreAccounted == Spec => []DropsAccounted
<1>1. Init => BusInv
    BY BusInitInv DEF Init
<1>2. BusInv /\ [Next]_vars => BusInv'
    <2> SUFFICES ASSUME [Next]_vars PROVE [Bus!Next]_busVars
        BY BusNextInv
    <2> QED BY DEF Next, vars, LruMoves, RateMoves, BusMoves, ServersMove, InServers
<1>3. BusInv => DropsAccounted
    BY DEF BusInv, DropsAccounted
<1> QED BY <1>1, <1>2, <1>3, PTL DEF Spec

-----------------------------------------------------------------------------
(* The alert engine *)

Said == Messages \cup {OtherType, 0}
Alert == [message : Said, count : Nat, acknowledged : BOOLEAN]
EngineStates == [pc : {"recv", "store", "webhook"}, alert : Said, attempt : Nat]

\* The inductive invariant of the engine.
AlertInv ==
    /\ engineState \in EngineStates
    /\ alerts \in Seq(Alert) /\ alert_counter \in Nat
    /\ Bus!AlertsAggregated

LEMMA AlertCounted ==
    ASSUME NEW r \in Alert
    PROVE  /\ [r EXCEPT !.count = @ + 1] \in Alert
           /\ [r EXCEPT !.count = @ + 1].message = r.message
           /\ [r EXCEPT !.count = @ + 1].acknowledged = r.acknowledged
BY DEF Alert

LEMMA AlertAcknowledged ==
    ASSUME NEW r \in Alert
    PROVE  /\ [r EXCEPT !.acknowledged = TRUE] \in Alert
           /\ [r EXCEPT !.acknowledged = TRUE].message = r.message
           /\ [r EXCEPT !.acknowledged = TRUE].acknowledged
BY DEF Alert

\* Counting and acknowledging list no alert anew.
LEMMA AlertsMarked ==
    ASSUME AlertInv, engineState' \in EngineStates,
           alert_counter' = alert_counter, DOMAIN alerts' = 1 .. Len(alerts),
           alerts' = [i \in 1 .. Len(alerts) |-> alerts'[i]],
           \A i \in 1 .. Len(alerts) :
               /\ alerts'[i] \in Alert /\ alerts'[i].message = alerts[i].message
               /\ alerts[i].acknowledged => alerts'[i].acknowledged
    PROVE  AlertInv'
<1>1. Len(alerts) \in Nat
    BY DEF AlertInv
<1>2. alerts' \in Seq(Alert) /\ Len(alerts') = Len(alerts)
    BY <1>1
<1>3. Bus!AlertsAggregated'
    BY <1>2 DEF AlertInv, Bus!AlertsAggregated
<1> QED BY <1>2, <1>3 DEF AlertInv

LEMMA AddAlertInv ==
    ASSUME AlertInv, Bus!AddAlert
    PROVE  AlertInv'
<1> DEFINE msg == engineState.alert
           same == Bus!Matching(msg)
<1>1. msg \in Said /\ engineState' \in EngineStates
    BY DEF AlertInv, Bus!AddAlert, EngineStates
<1>2. alerts \in Seq(Alert) /\ Len(alerts) \in Nat /\ alert_counter \in Nat
    BY DEF AlertInv
<1>3. CASE same # {}
    <2> DEFINE m == Bus!Min(same)
    <2>1. alerts' = [alerts EXCEPT ![m].count = @ + 1] /\ alert_counter' = alert_counter
        BY <1>3 DEF Bus!AddAlert
    <2> HIDE DEF m
    <2>2. DOMAIN alerts = 1 .. Len(alerts) /\ \A i \in 1 .. Len(alerts) : alerts[i] \in Alert
        BY <1>2
    <2>3. DOMAIN alerts' = 1 .. Len(alerts)
          /\ alerts' = [i \in 1 .. Len(alerts) |-> alerts'[i]]
        BY <2>1, <2>2
    <2>4. \A i \in 1 .. Len(alerts) :
              alerts'[i] = IF i = m THEN [alerts[i] EXCEPT !.count = @ + 1] ELSE alerts[i]
        BY <2>1, <2>2
    <2>5. \A i \in 1 .. Len(alerts) :
              /\ alerts'[i] \in Alert /\ alerts'[i].message = alerts[i].message
              /\ alerts[i].acknowledged => alerts'[i].acknowledged
        <3> SUFFICES ASSUME NEW i \in 1 .. Len(alerts)
                     PROVE  /\ alerts'[i] \in Alert /\ alerts'[i].message = alerts[i].message
                            /\ alerts'[i].acknowledged = alerts[i].acknowledged
            OBVIOUS
        <3>1. CASE i = m
            <4>1. alerts'[i] = [alerts[i] EXCEPT !.count = @ + 1]
                BY <2>4, <3>1
            <4> QED BY <2>2, <4>1, AlertCounted
        <3>2. CASE i # m
            BY <2>2, <2>4, <3>2
        <3> QED BY <3>1, <3>2
    <2> QED BY <1>1, <2>1, <2>3, <2>5, AlertsMarked
<1>4. CASE same = {}
    <2> DEFINE new == [message |-> msg, count |-> 1, acknowledged |-> FALSE]
               k == IF Len(alerts) < max_alerts - 1 THEN Len(alerts) ELSE max_alerts - 1
               rest == SubSeq(alerts, 1, k)
    <2>1. alerts' = <<new>> \o rest /\ alert_counter' = alert_counter + 1
        BY <1>4 DEF Bus!AddAlert, Bus!Newest
    <2>2. k \in Nat /\ k <= Len(alerts) /\ k + 1 <= max_alerts
        BY <1>2, BusAssumption
    <2> HIDE DEF k
    <2>3. rest \in Seq(Alert) /\ Len(rest) = k /\ \A i \in 1 .. k : rest[i] = alerts[i]
        BY <1>2, <2>2
    <2>4. new \in Alert
        BY <1>1 DEF Alert
    <2> HIDE DEF rest
    <2>5. /\ alerts' \in Seq(Alert) /\ Len(alerts') = k + 1 /\ alerts'[1] = new
          /\ \A i \in 2 .. k + 1 : alerts'[i] = alerts[i - 1]
        <3> HIDE DEF new
        <3>1. <<new>> \in Seq(Alert) /\ Len(<<new>>) = 1 /\ <<new>>[1] = new
            BY <2>4
        <3>2. /\ alerts' \in Seq(Alert) /\ Len(alerts') = 1 + k
              /\ \A i \in 1 .. 1 + k :
                    alerts'[i] = IF i <= 1 THEN <<new>>[i] ELSE rest[i - 1]
            BY <2>1, <2>2, <2>3, <3>1
        <3> QED BY <2>2, <2>3, <3>1, <3>2
    <2>6. ASSUME NEW i \in 1 .. k + 1, NEW j \in 1 .. k + 1, i < j, j <= Aggregated,
                 alerts'[i].message = alerts'[j].message
          PROVE  alerts'[i].acknowledged \/ alerts'[j].acknowledged
        <3>1. /\ j - 1 \in 1 .. Len(alerts) /\ j - 1 <= Aggregated
              /\ alerts'[j] = alerts[j - 1]
            BY <2>2, <2>5, <2>6, BusAssumption
        <3>2. CASE i = 1
            <4>1. alerts[j - 1].message = msg
                BY <2>5, <2>6, <3>1, <3>2
            <4> QED BY <1>4, <3>1, <4>1 DEF Bus!Matching
        <3>3. CASE i # 1
            <4>1. /\ i - 1 \in 1 .. Len(alerts) /\ i - 1 < j - 1
                  /\ alerts'[i] = alerts[i - 1]
                BY <2>2, <2>5, <2>6, <3>3
            <4> QED BY <2>6, <3>1, <4>1 DEF AlertInv, Bus!AlertsAggregated
        <3> QED BY <3>2, <3>3
    <2>7. Len(alerts') <= max_alerts /\ Len(alerts') <= alert_counter'
        BY <1>2, <2>1, <2>2, <2>5, BusAssumption DEF AlertInv, Bus!AlertsAggregated
    <2>8. Bus!AlertsAggregated'
        BY <2>5, <2>6, <2>7 DEF Bus!AlertsAggregated
    <2>9. alert_counter' \in Nat
        BY <1>2, <2>1
    <2> QED BY <1>1, <2>5, <2>8, <2>9 DEF AlertInv
<1> QED BY <1>3, <1>4

LEMMA AlertUnchangedInv ==
    ASSUME AlertInv, UNCHANGED <<alerts, alert_counter>>,
           engineState' \in EngineStates
    PROVE  AlertInv'
BY DEF AlertInv, Bus!AlertsAggregated

LEMMA AlertNextInv == BusInv /\ AlertInv /\ [Bus!Next]_busVars => AlertInv'
<1> SUFFICES ASSUME BusInv, AlertInv, [Bus!Next]_busVars PROVE AlertInv'
    OBVIOUS
<1>0. /\ engineState \in EngineStates
      /\ alerts \in Seq(Alert) /\ Len(alerts) \in Nat
      /\ DOMAIN alerts = 1 .. Len(alerts)
      /\ \A i \in 1 .. Len(alerts) : alerts[i] \in Alert
    BY DEF AlertInv
<1>1. CASE UNCHANGED busVars
    BY <1>0, <1>1, AlertUnchangedInv DEF busVars
<1>2. ASSUME UNCHANGED Bus!engineVars PROVE AlertInv'
    BY <1>0, <1>2, AlertUnchangedInv DEF Bus!engineVars
<1>3. ASSUME NEW s \in Bus!Subs,
             Bus!Subscribe(s) \/ Bus!Unsubscribe(s) \/ Bus!SkipLagged(s) \/ Bus!Recv(s)
      PROVE  AlertInv'
    BY <1>2, <1>3 DEF Bus!Subscribe, Bus!Unsubscribe, Bus!SkipLagged, Bus!Recv
<1>4. ASSUME NEW e, Bus!Publish(e) PROVE AlertInv'
    BY <1>2, <1>4 DEF Bus!Publish
<1>5. ASSUME Bus!EngineRecv PROVE AlertInv'
    <2> DEFINE e == events[next[Engine]]
    <2>1. e \in Said
        <3>1. next[Engine] \in 1 .. Len(events)
            BY <1>5 DEF Bus!EngineRecv, Bus!Takes, Bus!Receivers, BusInv, Bus!Subs
        <3> QED BY <3>1 DEF BusInv, Said
    <2>2. \/ engineState' = [pc |-> "store", alert |-> e, attempt |-> 0]
          \/ engineState' = engineState
        BY <1>5 DEF Bus!EngineRecv
    <2> HIDE DEF e
    <2>3. engineState' \in EngineStates
        BY <1>0, <2>1, <2>2 DEF EngineStates
    <2> QED BY <1>5, <2>3, AlertUnchangedInv DEF Bus!EngineRecv
<1>6. ASSUME Bus!WindowPasses PROVE AlertInv'
    BY <1>0, <1>6, AlertUnchangedInv DEF Bus!WindowPasses
<1>7. ASSUME Bus!Webhook PROVE AlertInv'
    <2>1. Bus!Idle \in EngineStates
        BY DEF Bus!Idle, Said, EngineStates
    <2>2. [engineState EXCEPT !.attempt = @ + 1] \in EngineStates
        BY <1>0 DEF EngineStates
    <2>3. engineState' = Bus!Idle \/ engineState' = [engineState EXCEPT !.attempt = @ + 1]
        BY <1>7 DEF Bus!Webhook
    <2> QED BY <1>7, <2>1, <2>2, <2>3, AlertUnchangedInv DEF Bus!Webhook
<1>8. ASSUME NEW i \in 1 .. max_alerts, Bus!Acknowledge(i) PROVE AlertInv'
    <2>0. i \in 1 .. Len(alerts)
        BY <1>0, <1>8 DEF Bus!Acknowledge
    <2> DEFINE q == [alerts[i] EXCEPT !.acknowledged = TRUE]
    <2>1. alerts' = [alerts EXCEPT ![i] = q] /\ UNCHANGED <<engineState, alert_counter>>
        BY <1>8, Zenon DEF Bus!Acknowledge
    <2>5. q \in Alert /\ q.message = alerts[i].message /\ q.acknowledged
        BY <1>0, <2>0, AlertAcknowledged
    <2> HIDE DEF q
    <2>2. /\ DOMAIN alerts' = 1 .. Len(alerts)
          /\ alerts' = [j \in 1 .. Len(alerts) |-> alerts'[j]]
        BY <1>0, <2>1
    <2>3. \A j \in 1 .. Len(alerts) : alerts'[j] = IF j = i THEN q ELSE alerts[j]
        BY <1>0, <2>1
    <2>4. \A j \in 1 .. Len(alerts) :
              /\ alerts'[j] \in Alert /\ alerts'[j].message = alerts[j].message
              /\ alerts[j].acknowledged => alerts'[j].acknowledged
        BY <1>0, <2>3, <2>5
    <2> QED BY <1>0, <2>1, <2>2, <2>4, AlertsMarked
<1>9. ASSUME Bus!AcknowledgeAll PROVE AlertInv'
    <2>1. /\ alerts' = [j \in 1 .. Len(alerts) |-> [alerts[j] EXCEPT !.acknowledged = TRUE]]
          /\ UNCHANGED <<engineState, alert_counter>>
        BY <1>9 DEF Bus!AcknowledgeAll
    <2>2. /\ DOMAIN alerts' = 1 .. Len(alerts)
          /\ alerts' = [j \in 1 .. Len(alerts) |-> alerts'[j]]
        BY <2>1
    <2>3. \A j \in 1 .. Len(alerts) :
              /\ alerts'[j] \in Alert /\ alerts'[j].message = alerts[j].message
              /\ alerts[j].acknowledged => alerts'[j].acknowledged
        BY <1>0, <2>1 DEF Alert
    <2> QED BY <1>0, <2>1, <2>2, <2>3, AlertsMarked
<1>10. ASSUME Bus!Clear PROVE AlertInv'
    <2>1. alerts' = << >> /\ UNCHANGED <<engineState, alert_counter>>
        BY <1>10 DEF Bus!Clear
    <2>2. alerts' \in Seq(Alert) /\ Len(alerts') = 0
        BY <2>1
    <2>3. Bus!AlertsAggregated'
        BY <2>1, <2>2, BusAssumption DEF AlertInv, Bus!AlertsAggregated
    <2> QED BY <2>1, <2>2, <2>3 DEF AlertInv
<1> QED BY <1>1, <1>3, <1>4, <1>5, <1>6, <1>7, <1>8, <1>9, <1>10, AddAlertInv DEF Bus!Next

\* The list of alerts stays within max_alerts, and among the newest ones a
\* repetition is listed a second time only when somebody has acknowledged one
\* of the two, whatever is acknowledged and cleared meanwhile
\* (engine.rs:258-285, 368-391).
THEOREM AlertsAreAggregated == Spec => []AlertsAggregated
<1> DEFINE I == BusInv /\ AlertInv
<1>1. Init => I
    <2> SUFFICES ASSUME Init PROVE I
        OBVIOUS
    <2>1. BusInv
        BY BusInitInv DEF Init
    <2>2. engineState = Bus!Idle /\ alerts = << >> /\ alert_counter = 0
        BY DEF Init, Bus!Init
    <2>3. alerts \in Seq(Alert) /\ Len(alerts) = 0
        BY <2>2
    <2>4. Bus!AlertsAggregated
        BY <2>2, <2>3, BusAssumption DEF Bus!AlertsAggregated
    <2>5. engineState \in EngineStates
        BY <2>2 DEF Bus!Idle, Said, EngineStates
    <2> QED BY <2>1, <2>2, <2>3, <2>4, <2>5 DEF AlertInv
<1>2. I /\ [Next]_vars => I'
    <2> SUFFICES ASSUME [Next]_vars PROVE [Bus!Next]_busVars
        BY BusNextInv, AlertNextInv
    <2> QED BY DEF Next, vars, LruMoves, RateMoves, BusMoves, ServersMove, InServers
<1>3. I => AlertsAggregated
    BY DEF AlertInv, AlertsAggregated
<1> HIDE DEF I
<1> QED BY <1>1, <1>2, <1>3, PTL DEF Spec

-----------------------------------------------------------------------------
(* The servers *)

Mains == {"launching", "serving", "waiting", "plugins", "exited"}
SrvStates == {"down", "running", "draining", "stopped", "aborted"}
Stages == {"handshake", "reading", "handling", "writing"}
ConnStates == {Srv!Free} \cup [server : ServerIds, stage : Stages]

SrvTypes ==
    /\ main \in Mains
    /\ list \in Seq(ServerIds) /\ tasks \in Seq(ServerIds)
    /\ awaited \in ServerIds \cup {None}
    /\ srv \in [ServerIds -> SrvStates]
    /\ permits \in [ServerIds -> Nat]
    /\ conn \in [Conns -> ConnStates]

\* A permit is in the semaphore or with one connection of its server.
PermitsOut ==
    \A s \in Srv!Permitted :
        /\ IsFiniteSet(Srv!InFlight(s))
        /\ permits[s] + Cardinality(Srv!InFlight(s)) = MaxConnections

\* A server that is still to be launched has not run.
NotYet ==
    /\ \A i, j \in 1 .. Len(list) : list[i] = list[j] => i = j
    /\ \A i \in 1 .. Len(list) : srv[list[i]] = "down"
    /\ \A s \in ServerIds : srv[s] = "down" => Srv!InFlight(s) = {}
    /\ main # "launching" => list = << >>

\* wait_for_servers() has the handle of the server, or is waiting on it.
Kept(s) == awaited = s \/ \E i \in 1 .. Len(tasks) : tasks[i] = s

\* While no wait was cut short, every server that runs is still waited for, and
\* one that has stopped has no request left.
Waited ==
    ~timedOut =>
        /\ \A s \in ServerIds :
              /\ srv[s] \in {"running", "draining"} => Kept(s)
              /\ srv[s] # "aborted"
              /\ s \in Srv!Drained /\ srv[s] = "stopped" => Srv!InFlight(s) = {}
        /\ main \in {"plugins", "exited"} => tasks = << >> /\ awaited = None

SrvInv == SrvTypes /\ PermitsOut /\ NotYet /\ Waited

LEMMA SrvConstants ==
    /\ Srv!Permitted' = Srv!Permitted /\ Srv!Drained' = Srv!Drained
    /\ Srv!Permitted \subseteq ServerIds
    /\ Srv!Permitted \subseteq Srv!Drained /\ Srv!Free' = Srv!Free
BY DEF Srv!Permitted, Srv!Drained, Srv!Free

LEMMA FreeConn ==
    /\ Srv!Free.server = None /\ Srv!Free.stage = "none"
    /\ \A r \in ConnStates : r # Srv!Free =>
           r.server \in ServerIds /\ r.stage \in Stages /\ r.server # None
    /\ \A s \in ServerIds, t \in Stages : [server |-> s, stage |-> t] \in ConnStates
    /\ \A r \in ConnStates : r.server # None => r # Srv!Free
BY ServersAssumption DEF Srv!Free, ConnStates

LEMMA SrvInitInv == Srv!Init => SrvInv
<1> SUFFICES ASSUME Srv!Init PROVE SrvInv
    OBVIOUS
<1>0. /\ list \in Lists /\ main = "launching" /\ tasks = << >> /\ awaited = None
      /\ srv = [s \in ServerIds |-> "down"] /\ permits = [s \in ServerIds |-> MaxConnections]
      /\ conn = [c \in Conns |-> Srv!Free]
    BY DEF Srv!Init
<1>1. SrvTypes
    BY <1>0, ServersAssumption DEF SrvTypes, Mains, SrvStates, ConnStates
<1>2. \A s \in ServerIds : Srv!InFlight(s) = {}
    BY FreeConn, ServersAssumption DEF Srv!Init, Srv!InFlight
<1>3. PermitsOut
    <2>1. IsFiniteSet({}) /\ Cardinality({}) = 0
        BY FS_EmptySet
    <2> SUFFICES ASSUME NEW s \in Srv!Permitted
                 PROVE  /\ IsFiniteSet(Srv!InFlight(s))
                        /\ permits[s] + Cardinality(Srv!InFlight(s)) = MaxConnections
        BY DEF PermitsOut
    <2>2. permits[s] = MaxConnections /\ Srv!InFlight(s) = {}
        BY <1>0, <1>2, SrvConstants
    <2> QED BY <2>1, <2>2, ServersAssumption
<1>4. NotYet
    BY <1>2, ServersAssumption DEF Srv!Init, NotYet
<1>5. Waited
    BY <1>2 DEF Srv!Init, Waited
<1> QED BY <1>1, <1>3, <1>4, <1>5 DEF SrvInv

\* A step that leaves the connections, the permits and the servers alone keeps
\* the permits counted.
LEMMA PermitsUnchanged ==
    ASSUME PermitsOut, UNCHANGED <<permits, conn>>
    PROVE  PermitsOut' /\ \A s \in ServerIds : Srv!InFlight(s)' = Srv!InFlight(s)
BY SrvConstants DEF PermitsOut, Srv!InFlight

LEMMA BecomesInv ==
    ASSUME SrvInv, NEW c \in Conns, conn[c] # Srv!Free, NEW t \in Stages,
           Srv!Becomes(c, t),
           UNCHANGED <<list, main, signal, tasks, awaited, srv, timedOut>>
    PROVE  SrvInv'
<1> DEFINE r == [conn[c] EXCEPT !.stage = t]
<1>1. r \in ConnStates /\ r.server = conn[c].server
    BY FreeConn DEF SrvInv, SrvTypes, ConnStates
<1>2. conn' = [conn EXCEPT ![c] = r] /\ permits' = permits
    BY DEF Srv!Becomes
<1> HIDE DEF r
<1>3. conn' \in [Conns -> ConnStates] /\ \A d \in Conns : conn'[d].server = conn[d].server
    BY <1>1, <1>2 DEF SrvInv, SrvTypes
<1>4. \A s \in ServerIds : Srv!InFlight(s)' = Srv!InFlight(s)
    BY <1>3 DEF Srv!InFlight
<1>5. SrvTypes'
    BY <1>2, <1>3 DEF SrvInv, SrvTypes
<1>6. PermitsOut'
    BY <1>2, <1>4, SrvConstants DEF SrvInv, PermitsOut
<1>7. NotYet' /\ Waited'
    BY <1>4, SrvConstants DEF SrvInv, NotYet, Waited, Kept
<1> QED BY <1>5, <1>6, <1>7 DEF SrvInv

LEMMA EndInv ==
    ASSUME SrvInv, NEW c \in Conns, conn[c] # Srv!Free, Srv!End(c),
           UNCHANGED <<list, main, signal, tasks, awaited, srv, timedOut>>
    PROVE  SrvInv'
<1> DEFINE e == conn[c].server
<1>1. e \in ServerIds /\ e # None
    BY FreeConn DEF SrvInv, SrvTypes
<1>2. /\ conn' = [conn EXCEPT ![c] = Srv!Free]
      /\ permits' = IF e \in Srv!Permitted THEN [permits EXCEPT ![e] = @ + 1] ELSE permits
    BY DEF Srv!End
<1>3. conn' \in [Conns -> ConnStates]
    BY <1>2 DEF SrvInv, SrvTypes, ConnStates
<1>4. \A d \in Conns : conn'[d].server = IF d = c THEN None ELSE conn[d].server
    BY <1>2, FreeConn DEF SrvInv, SrvTypes
<1>5. \A s \in ServerIds :
          Srv!InFlight(s)' = IF s = e THEN Srv!InFlight(e) \ {c} ELSE Srv!InFlight(s)
    BY <1>4, ServersAssumption DEF Srv!InFlight
<1>6. c \in Srv!InFlight(e)
    BY DEF Srv!InFlight
<1> HIDE DEF e
<1>7. SrvTypes'
    BY <1>1, <1>2, <1>3 DEF SrvInv, SrvTypes
<1>8. PermitsOut'
    <2> SUFFICES ASSUME NEW s \in Srv!Permitted
                 PROVE  /\ IsFiniteSet(Srv!InFlight(s)')
                        /\ permits'[s] + Cardinality(Srv!InFlight(s)') = MaxConnections
        BY SrvConstants DEF PermitsOut
    <2>1. /\ s \in ServerIds /\ IsFiniteSet(Srv!InFlight(s)) /\ permits[s] \in Nat
          /\ permits[s] + Cardinality(Srv!InFlight(s)) = MaxConnections
        BY SrvConstants DEF SrvInv, SrvTypes, PermitsOut
    <2>2. CASE s = e
        <3>1. permits'[s] = permits[s] + 1
            BY <1>1, <1>2, <2>2 DEF SrvInv, SrvTypes
        <3>2. /\ IsFiniteSet(Srv!InFlight(s) \ {c})
              /\ Cardinality(Srv!InFlight(s) \ {c}) = Cardinality(Srv!InFlight(s)) - 1
            BY <1>6, <2>1, <2>2, FS_RemoveElement
        <3>3. Cardinality(Srv!InFlight(s)) \in Nat
            BY <2>1, FS_CardinalityType
        <3> QED BY <1>5, <2>1, <2>2, <3>1, <3>2, <3>3
    <2>3. CASE s # e
        <3>1. permits'[s] = permits[s]
            BY <1>1, <1>2, <2>1, <2>3 DEF SrvInv, SrvTypes
        <3> QED BY <1>5, <2>1, <2>3, <3>1
    <2> QED BY <2>2, <2>3
<1>9. \A s \in ServerIds : Srv!InFlight(s)' \subseteq Srv!InFlight(s)
    BY <1>5
<1>10. NotYet'
    BY <1>9 DEF SrvInv, NotYet
<1>11. Waited'
    BY <1>9, SrvConstants DEF SrvInv, Waited, Kept
<1> QED BY <1>7, <1>8, <1>10, <1>11 DEF SrvInv

LEMMA AcceptInv ==
    ASSUME SrvInv, NEW c \in Conns, NEW e \in ServerIds, Srv!Accept(e, c)
    PROVE  SrvInv'
<1> DEFINE r == [server |-> e, stage |-> Srv!FirstStage(e)]
<1>1. Srv!FirstStage(e) \in Stages
    BY ServersAssumption DEF Srv!FirstStage, Stages
<1>2. r \in ConnStates /\ r.server = e
    BY <1>1, FreeConn
<1>3. /\ srv[e] = "running" /\ conn[c] = Srv!Free
      /\ conn' = [conn EXCEPT ![c] = r]
      /\ UNCHANGED <<list, main, signal, tasks, awaited, srv, timedOut>>
      /\ e \in Srv!Permitted => permits[e] > 0 /\ permits' = [permits EXCEPT ![e] = @ - 1]
      /\ e \notin Srv!Permitted => permits' = permits
    BY DEF Srv!Accept
<1> HIDE DEF r
<1>4. conn' \in [Conns -> ConnStates]
    BY <1>2, <1>3 DEF SrvInv, SrvTypes
<1>5. \A d \in Conns : conn'[d].server = IF d = c THEN e ELSE conn[d].server
    BY <1>2, <1>3 DEF SrvInv, SrvTypes
<1>6. c \notin Srv!InFlight(e) /\ \A s \in ServerIds : c \notin Srv!InFlight(s)
    BY <1>3, FreeConn, ServersAssumption DEF Srv!InFlight
<1>7. \A s \in ServerIds :
          Srv!InFlight(s)' = IF s = e THEN Srv!InFlight(e) \cup {c} ELSE Srv!InFlight(s)
    BY <1>5, <1>6 DEF Srv!InFlight
<1>8. SrvTypes'
    BY <1>3, <1>4 DEF SrvInv, SrvTypes
<1>9. PermitsOut'
    <2> SUFFICES ASSUME NEW s \in Srv!Permitted
                 PROVE  /\ IsFiniteSet(Srv!InFlight(s)')
                        /\ permits'[s] + Cardinality(Srv!InFlight(s)') = MaxConnections
        BY SrvConstants DEF PermitsOut
    <2>1. /\ s \in ServerIds /\ IsFiniteSet(Srv!InFlight(s)) /\ permits[s] \in Nat
          /\ permits[s] + Cardinality(Srv!InFlight(s)) = MaxConnections
        BY SrvConstants DEF SrvInv, SrvTypes, PermitsOut
    <2>2. CASE s = e
        <3>1. permits'[s] = permits[s] - 1
            BY <1>3, <2>2 DEF SrvInv, SrvTypes
        <3>2. /\ IsFiniteSet(Srv!InFlight(s) \cup {c})
              /\ Cardinality(Srv!InFlight(s) \cup {c}) = Cardinality(Srv!InFlight(s)) + 1
            BY <1>6, <2>1, FS_AddElement
        <3>3. Cardinality(Srv!InFlight(s)) \in Nat
            BY <2>1, FS_CardinalityType
        <3>4. Srv!InFlight(s)' = Srv!InFlight(s) \cup {c}
            BY <1>7, <2>1, <2>2
        <3>5. permits'[s] + Cardinality(Srv!InFlight(s)') = MaxConnections
            BY <2>1, <3>1, <3>2, <3>3, <3>4, ServersAssumption
        <3> QED BY <3>2, <3>4, <3>5
    <2>3. CASE s # e
        <3>1. permits'[s] = permits[s]
            BY <1>3, <2>1, <2>3 DEF SrvInv, SrvTypes
        <3> QED BY <1>7, <2>1, <2>3, <3>1
    <2> QED BY <2>2, <2>3
<1>10. NotYet'
    BY <1>3, <1>7 DEF SrvInv, NotYet
<1>11. Waited'
    BY <1>3, <1>7, SrvConstants DEF SrvInv, Waited, Kept
<1> QED BY <1>8, <1>9, <1>10, <1>11 DEF SrvInv

LEMMA ConnStepInv ==
    ASSUME SrvInv, NEW c \in Conns, Srv!ConnStep(c)
    PROVE  SrvInv'
<1>1. UNCHANGED <<list, main, signal, tasks, awaited, srv, timedOut>>
    BY DEF Srv!ConnStep, Srv!Handshake, Srv!ReadQuery, Srv!ReadTimeout, Srv!Handled,
           Srv!Written
<1>2. conn[c] # Srv!Free
    BY FreeConn DEF Srv!ConnStep, Srv!Handshake, Srv!ReadQuery, Srv!ReadTimeout,
                    Srv!Handled, Srv!Written
<1>3. Srv!End(c) \/ \E t \in Stages : Srv!Becomes(c, t)
    BY DEF Srv!ConnStep, Srv!Handshake, Srv!ReadQuery, Srv!ReadTimeout, Srv!Handled,
           Srv!Written, Stages
<1> QED BY <1>1, <1>2, <1>3, BecomesInv, EndInv

LEMMA StopAcceptingInv ==
    ASSUME SrvInv, NEW e \in ServerIds, Srv!StopAccepting(e)
    PROVE  SrvInv'
<1>1. /\ srv[e] = "running"
      /\ srv' = [srv EXCEPT ![e] = IF e \in Srv!Drained THEN "draining" ELSE "stopped"]
      /\ UNCHANGED <<list, main, signal, tasks, awaited, permits, timedOut>>
    BY DEF Srv!StopAccepting
<1>2. /\ conn' \in [Conns -> ConnStates]
      /\ \A d \in Conns : /\ conn'[d] = conn[d] \/ conn'[d] = Srv!Free
                          /\ e \in Srv!Drained \/ conn[d].server # e => conn'[d] = conn[d]
    BY DEF Srv!StopAccepting, SrvInv, SrvTypes, ConnStates, Srv!Drained
<1>3. \A s \in ServerIds : /\ Srv!InFlight(s)' \subseteq Srv!InFlight(s)
                           /\ s \in Srv!Drained => Srv!InFlight(s)' = Srv!InFlight(s)
    BY <1>2, FreeConn, ServersAssumption DEF Srv!InFlight
<1>4. /\ srv' \in [ServerIds -> SrvStates]
      /\ \A s \in ServerIds : srv'[s] = IF s # e THEN srv[s]
                                        ELSE IF e \in Srv!Drained THEN "draining" ELSE "stopped"
    BY <1>1 DEF SrvInv, SrvTypes, SrvStates
<1>5. SrvTypes'
    BY <1>1, <1>2, <1>4 DEF SrvInv, SrvTypes
<1>6. PermitsOut'
    BY <1>1, <1>3, SrvConstants DEF SrvInv, PermitsOut
<1>7. NotYet'
    <2>1. \A i \in 1 .. Len(list) : list[i] \in ServerIds /\ list[i] # e
        BY <1>1 DEF SrvInv, SrvTypes, NotYet
    <2> QED BY <1>1, <1>3, <1>4, <2>1 DEF SrvInv, NotYet
<1>8. Waited'
    BY <1>1, <1>3, <1>4, SrvConstants DEF SrvInv, Waited, Kept
<1> QED BY <1>5, <1>6, <1>7, <1>8 DEF SrvInv

LEMMA DrainInv ==
    ASSUME SrvInv, NEW e \in ServerIds, Srv!DrainDone(e) \/ Srv!DrainTimeout(e)
    PROVE  SrvInv'
<1>1. /\ srv[e] = "draining" /\ srv' = [srv EXCEPT ![e] = "stopped"]
      /\ UNCHANGED <<list, main, signal, tasks, awaited, permits, conn>>
      /\ timedOut' \/ (Srv!AllDone(e) /\ timedOut' = timedOut)
    BY DEF Srv!DrainDone, Srv!DrainTimeout
<1>2. ASSUME Srv!AllDone(e) PROVE Srv!InFlight(e) = {}
    <2>1. CASE e \in Srv!Permitted
        <3>1. /\ permits[e] >= MaxConnections /\ permits[e] \in Nat
              /\ IsFiniteSet(Srv!InFlight(e))
              /\ permits[e] + Cardinality(Srv!InFlight(e)) = MaxConnections
            BY <1>2, <2>1 DEF Srv!AllDone, SrvInv, SrvTypes, PermitsOut
        <3>2. Cardinality(Srv!InFlight(e)) \in Nat
            BY <3>1, FS_CardinalityType
        <3>3. Cardinality(Srv!InFlight(e)) = 0
            BY <3>1, <3>2, ServersAssumption
        <3> QED BY <3>1, <3>3, FS_EmptySet
    <2>2. CASE e \notin Srv!Permitted
        BY <1>2, <2>2 DEF Srv!AllDone
    <2> QED BY <2>1, <2>2
<1>3. /\ srv' \in [ServerIds -> SrvStates]
      /\ \A s \in ServerIds : srv'[s] = IF s = e THEN "stopped" ELSE srv[s]
    BY <1>1 DEF SrvInv, SrvTypes, SrvStates
<1>4. PermitsOut' /\ \A s \in ServerIds : Srv!InFlight(s)' = Srv!InFlight(s)
    BY <1>1, PermitsUnchanged DEF SrvInv
<1>5. SrvTypes'
    BY <1>1, <1>3 DEF SrvInv, SrvTypes
<1>6. NotYet'
    <2>1. \A i \in 1 .. Len(list) : list[i] \in ServerIds /\ list[i] # e
        BY <1>1 DEF SrvInv, SrvTypes, NotYet
    <2> QED BY <1>1, <1>3, <1>4, <2>1 DEF SrvInv, NotYet
<1>7. Waited'
    BY <1>1, <1>2, <1>3, <1>4, SrvConstants DEF SrvInv, Waited, Kept
<1> QED BY <1>4, <1>5, <1>6, <1>7 DEF SrvInv

\* The steps of main() touch no connection and no permit.
LEMMA MainStepInv ==
    ASSUME SrvInv, Srv!MainStep \/ Srv!Signal
    PROVE  SrvInv'
<1>1. UNCHANGED <<permits, conn>>
    BY DEF Srv!MainStep, Srv!Signal, Srv!LaunchServer, Srv!Launched, Srv!PopHandle,
           Srv!Joined, Srv!ServersDone, Srv!WaitTimeout, Srv!Exit
<1>2. PermitsOut' /\ \A s \in ServerIds : Srv!InFlight(s)' = Srv!InFlight(s)
    BY <1>1, PermitsUnchanged DEF SrvInv
<1>3. /\ list \in Seq(ServerIds) /\ Len(list) \in Nat
      /\ tasks \in Seq(ServerIds) /\ Len(tasks) \in Nat
      /\ \A i \in 1 .. Len(list) : list[i] \in ServerIds
    BY DEF SrvInv, SrvTypes
<1>4. CASE Srv!LaunchServer
    <2>0. PICK h \in ServerIds : h = Head(list)
        BY <1>3, <1>4 DEF Srv!LaunchServer
    <2>1. /\ main = "launching" /\ list # << >> /\ list' = Tail(list)
          /\ UNCHANGED <<main, awaited, timedOut>>
          /\ \/ /\ tasks' = Append(tasks, h)
                /\ \/ srv' = [srv EXCEPT ![h] = "running"]
                   \/ srv' = [srv EXCEPT ![h] = "stopped"]
             \/ srv' = srv /\ tasks' = tasks
        BY <1>4, <2>0 DEF Srv!LaunchServer
    <2>2. h = list[1] /\ 1 \in 1 .. Len(list) /\ h \in ServerIds /\ srv[h] = "down"
        BY <1>3, <2>0, <2>1 DEF SrvInv, NotYet
    <2>3. /\ list' \in Seq(ServerIds) /\ Len(list') = Len(list) - 1
          /\ \A i \in 1 .. Len(list') : /\ list'[i] = list[i + 1]
                                        /\ i + 1 \in 1 .. Len(list)
        BY <1>3, <2>1
    <2>4. \A i \in 1 .. Len(list') : list'[i] # h
        BY <1>3, <2>2, <2>3 DEF SrvInv, NotYet
    <2>5. \A i, j \in 1 .. Len(list') : list'[i] = list'[j] => i = j
        <3> SUFFICES ASSUME NEW i \in 1 .. Len(list'), NEW j \in 1 .. Len(list'),
                            list'[i] = list'[j]
                     PROVE  i = j
            OBVIOUS
        <3>1. i + 1 \in 1 .. Len(list) /\ j + 1 \in 1 .. Len(list)
              /\ list[i + 1] = list[j + 1]
            BY <2>3
        <3>2. i + 1 = j + 1
            BY <3>1 DEF SrvInv, NotYet
        <3> QED BY <1>3, <2>3, <3>2
    <2>6. \A s \in ServerIds : s # h => srv'[s] = srv[s]
        BY <2>1, <2>2 DEF SrvInv, SrvTypes
    <2>7. srv' \in [ServerIds -> SrvStates] /\ tasks' \in Seq(ServerIds)
        <3>1. srv \in [ServerIds -> SrvStates]
            BY DEF SrvInv, SrvTypes
        <3>2. srv' \in [ServerIds -> SrvStates]
            BY <2>1, <2>2, <3>1 DEF SrvStates
        <3>3. Append(tasks, h) \in Seq(ServerIds)
            BY <1>3
        <3> QED BY <1>3, <2>1, <3>2, <3>3
    <2>8. \/ srv' = srv /\ tasks' = tasks
          \/ /\ srv'[h] \in {"running", "stopped"} /\ tasks' = Append(tasks, h)
        BY <2>1, <2>2 DEF SrvInv, SrvTypes
    <2>9. SrvTypes'
        BY <1>1, <2>1, <2>3, <2>7 DEF SrvInv, SrvTypes
    <2>10. NotYet'
        <3>1. \A i \in 1 .. Len(list') : srv'[list'[i]] = "down"
            <4> SUFFICES ASSUME NEW i \in 1 .. Len(list') PROVE srv'[list'[i]] = "down"
                OBVIOUS
            <4>1. srv[list'[i]] = "down" /\ list'[i] \in ServerIds
                BY <1>3, <2>3 DEF SrvInv, NotYet
            <4> QED BY <2>4, <2>6, <4>1
        <3>2. \A s \in ServerIds : srv'[s] = "down" => Srv!InFlight(s)' = {}
            BY <1>2, <2>2, <2>6 DEF SrvInv, NotYet
        <3> QED BY <2>1, <2>5, <3>1, <3>2 DEF NotYet
    <2>11. \A s \in ServerIds : Kept(s) => Kept(s)'
        <3> SUFFICES ASSUME NEW s \in ServerIds, Kept(s), tasks' = Append(tasks, h)
                     PROVE  Kept(s)'
            BY <2>1, <2>8 DEF Kept
        <3>1. Len(tasks') = Len(tasks) + 1 /\ \A i \in 1 .. Len(tasks) : tasks'[i] = tasks[i]
            BY <1>3
        <3> QED BY <1>3, <2>1, <3>1 DEF Kept
    <2>12. tasks' = Append(tasks, h) => Kept(h)'
        <3> SUFFICES ASSUME tasks' = Append(tasks, h) PROVE Kept(h)'
            OBVIOUS
        <3>1. Len(tasks') = Len(tasks) + 1 /\ tasks'[Len(tasks) + 1] = h
            BY <1>3, <2>2
        <3> QED BY <1>3, <3>1 DEF Kept
    <2>13. ASSUME ~timedOut, NEW s \in ServerIds
           PROVE  /\ srv'[s] \in {"running", "draining"} => Kept(s)'
                  /\ srv'[s] # "aborted"
                  /\ s \in Srv!Drained /\ srv'[s] = "stopped" => Srv!InFlight(s)' = {}
        <3>1. CASE s # h \/ srv' = srv
            BY <1>2, <2>6, <2>11, <2>13, <3>1 DEF SrvInv, Waited
        <3>2. CASE s = h /\ srv'[h] \in {"running", "stopped"} /\ tasks' = Append(tasks, h)
            BY <1>2, <2>2, <2>12, <3>2 DEF SrvInv, NotYet
        <3> QED BY <2>8, <3>1, <3>2
    <2>14. Waited'
        BY <2>1, <2>13, SrvConstants DEF Waited
    <2> QED BY <1>2, <2>9, <2>10, <2>14 DEF SrvInv
<1>5. CASE Srv!Launched \/ Srv!Signal \/ Srv!Exit
    <2>1. /\ UNCHANGED <<list, tasks, awaited, srv, timedOut>> /\ main' \in Mains
          /\ main' \in {"plugins", "exited"} => main \in {"plugins", "exited"}
        BY <1>5 DEF Srv!Launched, Srv!Signal, Srv!Exit, Mains
    <2>2. list = << >>
        BY <1>5 DEF Srv!Launched, Srv!Signal, Srv!Exit, SrvInv, NotYet
    <2> QED BY <1>1, <1>2, <2>1, <2>2, SrvConstants
            DEF SrvInv, SrvTypes, NotYet, Waited, Kept
<1>6. CASE Srv!PopHandle
    <2> DEFINE n == Len(tasks)
    <2>1. /\ main = "waiting" /\ awaited = None /\ tasks # << >> /\ awaited' = tasks[n]
          /\ tasks' = SubSeq(tasks, 1, n - 1)
          /\ UNCHANGED <<list, main, srv, timedOut>>
        BY <1>6 DEF Srv!PopHandle
    <2>2. n \in Nat /\ n > 0 /\ tasks[n] \in ServerIds
        BY <1>3, <2>1
    <2>3. /\ tasks' \in Seq(ServerIds) /\ Len(tasks') = n - 1
          /\ \A i \in 1 .. n - 1 : tasks'[i] = tasks[i]
        <3>1. 1 \in Int /\ n - 1 \in Int /\ n - 1 <= Len(tasks)
            BY <2>2
        <3>2. /\ SubSeq(tasks, 1, n - 1) \in Seq(ServerIds)
              /\ Len(SubSeq(tasks, 1, n - 1)) = n - 1
              /\ \A i \in 1 .. n - 1 : SubSeq(tasks, 1, n - 1)[i] = tasks[i]
            <4>1. \A i \in 1 .. n - 1 : tasks[i] \in ServerIds
                BY <1>3, <2>2
            <4> HIDE DEF n
            <4>2. /\ SubSeq(tasks, 1, n - 1) \in Seq(ServerIds)
                  /\ Len(SubSeq(tasks, 1, n - 1)) = IF 1 <= n - 1 THEN n - 1 - 1 + 1 ELSE 0
                  /\ \A i \in 1 .. n - 1 - 1 + 1 : SubSeq(tasks, 1, n - 1)[i] = tasks[1 + i - 1]
                BY <3>1, <4>1, SubSeqProperties
            <4>3. \A i \in 1 .. n - 1 : i \in 1 .. n - 1 - 1 + 1 /\ 1 + i - 1 = i
                BY <2>2
            <4>4. (IF 1 <= n - 1 THEN n - 1 - 1 + 1 ELSE 0) = n - 1
                BY <2>2
            <4> QED BY <4>2, <4>3, <4>4
        <3> QED BY <2>1, <3>2
    <2>4. \A s \in ServerIds : Kept(s) => Kept(s)'
        <3> SUFFICES ASSUME NEW s \in ServerIds, Kept(s) PROVE Kept(s)'
            OBVIOUS
        <3>1. PICK i \in 1 .. n : tasks[i] = s
            BY <2>1, ServersAssumption DEF Kept
        <3>2. CASE i = n
            BY <2>1, <3>1, <3>2 DEF Kept
        <3>3. CASE i # n
            BY <2>2, <2>3, <3>1, <3>3 DEF Kept
        <3> QED BY <3>2, <3>3
    <2>5. SrvTypes'
        BY <1>1, <2>1, <2>2, <2>3 DEF SrvInv, SrvTypes
    <2>6. NotYet'
        BY <1>2, <2>1 DEF SrvInv, NotYet
    <2>7. Waited'
        BY <1>2, <2>1, <2>4, SrvConstants DEF SrvInv, Waited
    <2> QED BY <1>2, <2>5, <2>6, <2>7 DEF SrvInv
<1>7. CASE Srv!Joined
    <2>1. /\ main = "waiting" /\ srv[awaited] = "stopped" /\ awaited' = None
          /\ UNCHANGED <<list, main, tasks, srv, timedOut>>
        BY <1>7 DEF Srv!Joined
    <2>2. SrvTypes' /\ NotYet'
        BY <1>1, <1>2, <2>1 DEF SrvInv, SrvTypes, NotYet
    <2>3. Waited'
        BY <1>2, <2>1, SrvConstants DEF SrvInv, Waited, Kept
    <2> QED BY <1>2, <2>2, <2>3 DEF SrvInv
<1>8. CASE Srv!ServersDone
    <2>1. /\ main = "waiting" /\ awaited = None /\ tasks = << >> /\ main' = "plugins"
          /\ UNCHANGED <<list, tasks, awaited, srv, timedOut>>
        BY <1>8 DEF Srv!ServersDone
    <2> QED BY <1>1, <1>2, <2>1, SrvConstants
            DEF SrvInv, SrvTypes, NotYet, Waited, Kept, Mains
<1>9. CASE Srv!WaitTimeout
    <2>1. /\ srv' = [s \in ServerIds |->
                        IF (\E i \in 1 .. Len(tasks) : tasks[i] = s) /\ srv[s] # "stopped"
                          THEN "aborted" ELSE srv[s]]
          /\ tasks' = << >> /\ awaited' = None /\ timedOut' /\ main' = "plugins"
          /\ list' = list
        BY <1>9 DEF Srv!WaitTimeout
    <2>2. srv' \in [ServerIds -> SrvStates]
        BY <2>1 DEF SrvInv, SrvTypes, SrvStates
    <2>3. SrvTypes'
        BY <1>1, <2>1, <2>2 DEF SrvInv, SrvTypes, Mains
    <2>4. main = "waiting"
        BY <1>9 DEF Srv!WaitTimeout
    <2>5. NotYet'
        <3>1. list' = << >> /\ Len(list') = 0
            BY <2>1, <2>4 DEF SrvInv, NotYet
        <3>2. \A s \in ServerIds : srv'[s] = "down" => srv[s] = "down"
            <4>1. ASSUME NEW s \in ServerIds PROVE srv'[s] = "aborted" \/ srv'[s] = srv[s]
                BY <2>1, Zenon
            <4> QED BY <4>1
        <3>3. \A s \in ServerIds : srv'[s] = "down" => Srv!InFlight(s)' = {}
            BY <1>2, <3>2 DEF SrvInv, NotYet
        <3>4. 1 .. Len(list') = {}
            BY <3>1
        <3> QED BY <3>1, <3>3, <3>4 DEF NotYet
    <2>6. Waited'
        BY <2>1 DEF Waited
    <2> QED BY <1>2, <2>3, <2>5, <2>6 DEF SrvInv
<1> QED BY <1>4, <1>5, <1>6, <1>7, <1>8, <1>9 DEF Srv!MainStep

LEMMA SrvNextInv == SrvInv /\ [Srv!Next]_srvVars => SrvInv'
<1> SUFFICES ASSUME SrvInv, [Srv!Next]_srvVars PROVE SrvInv'
    OBVIOUS
<1>1. CASE UNCHANGED srvVars
    <2>1. PermitsOut' /\ \A s \in ServerIds : Srv!InFlight(s)' = Srv!InFlight(s)
        BY <1>1, PermitsUnchanged DEF SrvInv, srvVars
    <2> QED BY <1>1, <2>1, SrvConstants DEF srvVars, SrvInv, SrvTypes, NotYet, Waited, Kept
<1>2. CASE Srv!Next
    BY <1>2, MainStepInv, StopAcceptingInv, DrainInv, ConnStepInv, AcceptInv
    DEF Srv!Next, Srv!ServerStep
<1> QED BY <1>1, <1>2

\* When the plugins are shut down and no wait was cut short, no server accepts
\* and no request of a draining server is in flight, for every list of servers,
\* every number of connections and every semaphore (main.rs:203-215,
\* launcher.rs:160-179, common.rs:32-43).
THEOREM ServersDrainBeforePlugins == Spec => []DrainBeforePlugins
<1>1. Init => SrvInv
    BY SrvInitInv DEF Init
<1>2. SrvInv /\ [Next]_vars => SrvInv'
    <2> SUFFICES ASSUME [Next]_vars PROVE [Srv!Next]_srvVars
        BY SrvNextInv
    <2> QED BY DEF Next, vars, LruMoves, RateMoves, BusMoves, ServersMove, InServers
<1>3. SrvInv => DrainBeforePlugins
    <2> SUFFICES ASSUME SrvInv, main \in {"plugins", "exited"}, ~timedOut, NEW s \in ServerIds
                 PROVE  srv[s] # "running" /\ (s \in Srv!Drained => Srv!InFlight(s) = {})
        BY DEF DrainBeforePlugins, Srv!DrainBeforePlugins
    <2>1. tasks = << >> /\ awaited = None
        BY DEF SrvInv, Waited
    <2>2. ~Kept(s)
        BY <2>1, ServersAssumption DEF Kept
    <2>3. srv[s] \in {"down", "stopped"}
        BY <2>2 DEF SrvInv, SrvTypes, SrvStates, Waited
    <2> QED BY <2>3 DEF SrvInv, NotYet, Waited
<1> QED BY <1>1, <1>2, <1>3, PTL DEF Spec

-----------------------------------------------------------------------------
(* The sharded map *)

Entries == [key : Hashes, write : Nat]

LEMMA LruCardinality ==
    ASSUME NEW S
    PROVE  LRU!Cardinality(S) = Cardinality(S)
BY DEF LRU!Cardinality, Cardinality

\* The shards share the capacity out: c shards of q entries, r of them with one more.
LEMMA Division ==
    ASSUME NEW n \in Nat, NEW c \in 1 .. 16
    PROVE  /\ n \div c \in Nat /\ n % c \in 0 .. c - 1
           /\ n = c * (n \div c) + (n % c)
<1>1. n \div c \in Int /\ n % c \in 0 .. c - 1
    OBVIOUS
<1>2. n = c * (n \div c) + (n % c)
    OBVIOUS
<1>3. n \div c >= 0
    BY <1>1, <1>2
<1> QED BY <1>1, <1>2, <1>3

LEMMA Masked ==
    ASSUME NEW h \in Nat, NEW m \in 0 .. 15
    PROVE  LRU!And(h, m) \in 0 .. m
<1> DEFINE bit(n, b) == (n \div b) % 2
           both(b) == b * bit(h, b) * bit(m, b)
<1>1. \A n \in Nat : /\ bit(n, 1) \in {0, 1} /\ bit(n, 2) \in {0, 1}
                     /\ bit(n, 4) \in {0, 1} /\ bit(n, 8) \in {0, 1}
    OBVIOUS
<1>2. m = bit(m, 1) + 2 * bit(m, 2) + 4 * bit(m, 4) + 8 * bit(m, 8)
    OBVIOUS
<1>3. LRU!And(h, m) = both(1) + both(2) + both(4) + both(8)
    BY DEF LRU!And
<1> HIDE DEF bit
<1>4. /\ both(1) \in 0 .. bit(m, 1) /\ both(2) \in 0 .. 2 * bit(m, 2)
      /\ both(4) \in 0 .. 4 * bit(m, 4) /\ both(8) \in 0 .. 8 * bit(m, 8)
    BY <1>1
<1> HIDE DEF both
<1> QED BY <1>1, <1>2, <1>3, <1>4

LEMMA LruConstants ==
    /\ LRU!capacity \in Nat \ {0} /\ LRU!shard_count \in 1 .. 16
    /\ LRU!shard_count <= LRU!capacity
    /\ LRU!Indices' = LRU!Indices /\ LRU!capacity' = LRU!capacity
    /\ \A k \in Hashes : LRU!ShardOf(k) \in LRU!Indices
    /\ \A i \in LRU!Indices : LRU!Cap(i) \in Nat \ {0}
<1>1. /\ LRU!capacity \in Nat \ {0} /\ LRU!shard_count \in 1 .. 16
      /\ LRU!shard_count <= LRU!capacity
    BY LruAssumption DEF LRU!capacity, LRU!shard_count
<1>2. LRU!Indices' = LRU!Indices /\ LRU!capacity' = LRU!capacity
    BY DEF LRU!Indices, LRU!capacity, LRU!shard_count
<1>3. \A k \in Hashes : LRU!ShardOf(k) \in LRU!Indices
    <2>1. LRU!mask \in 0 .. 15 /\ LRU!Indices = 0 .. LRU!mask
        BY <1>1 DEF LRU!mask, LRU!Indices
    <2> QED BY <2>1, Masked, LruAssumption DEF LRU!ShardOf
<1>4. \A i \in LRU!Indices : LRU!Cap(i) \in Nat \ {0}
    <2> DEFINE n == LRU!capacity
               c == LRU!shard_count
               q == n \div c
               r == n % c
    <2>1. q \in Nat /\ r \in 0 .. c - 1 /\ n = c * q + r
        BY <1>1, Division
    <2>2. \A i \in LRU!Indices : LRU!Cap(i) = q + (IF i < r THEN 1 ELSE 0)
        BY DEF LRU!Cap
    <2> HIDE DEF n, c, q, r
    <2>3. n \in Nat /\ c \in 1 .. 16 /\ c <= n
        BY <1>1 DEF n, c
    <2>4. q # 0
        BY <2>1, <2>3
    <2> QED BY <2>1, <2>2, <2>4
<1> QED BY <1>1, <1>2, <1>3, <1>4

\* The capacities of the shards add up to the configured one.
LEMMA CapacityShared ==
    Cardinality({ p \in LRU!Indices \X (1 .. LRU!capacity) : p[2] <= LRU!Cap(p[1]) })
        = LRU!capacity
<1> DEFINE n == LRU!capacity
           c == LRU!shard_count
           q == n \div c
           r == n % c
           P == { p \in LRU!Indices \X (1 .. n) : p[2] <= LRU!Cap(p[1]) }
           A == (0 .. c - 1) \X (1 .. q)
           B == (0 .. r - 1) \X {q + 1}
<1>1. q \in Nat /\ r \in 0 .. c - 1 /\ n = c * q + r
    BY LruConstants, Division
<1>2. \A i \in LRU!Indices : LRU!Cap(i) = IF i < r THEN q + 1 ELSE q
    <2>1. \A i \in LRU!Indices : LRU!Cap(i) = q + (IF i < r THEN 1 ELSE 0)
        BY DEF LRU!Cap
    <2> HIDE DEF q, r
    <2> QED BY <1>1, <2>1
<1>3. LRU!Indices = 0 .. c - 1
    BY DEF LRU!Indices
<1>4. n \in Nat /\ c \in 1 .. 16 /\ c <= n
    BY LruConstants
<1> HIDE DEF n, c, q, r
<1>5. q <= n /\ (r > 0 => q + 1 <= n)
    BY <1>1, <1>4
<1>6. P = A \cup B
    <2>1. ASSUME NEW i \in 0 .. c - 1, NEW j \in Nat
          PROVE  (j \in 1 .. n /\ j <= LRU!Cap(i))
                    <=> (j \in 1 .. q \/ (i \in 0 .. r - 1 /\ j = q + 1))
        BY <1>1, <1>2, <1>3, <1>4, <1>5
    <2>2. ASSUME NEW p \in P PROVE p \in A \cup B
        <3>1. PICK i \in 0 .. c - 1, j \in 1 .. n : p = <<i, j>> /\ j <= LRU!Cap(i)
            BY <1>3, <2>2
        <3>2. j \in Nat
            BY <1>4
        <3> QED BY <2>1, <3>1, <3>2
    <2>3. ASSUME NEW p \in A \cup B PROVE p \in P
        <3>1. CASE p \in A
            <4>1. PICK i \in 0 .. c - 1, j \in 1 .. q : p = <<i, j>>
                BY <3>1
            <4>2. j \in 1 .. n /\ j <= LRU!Cap(i)
                BY <1>1, <2>1
            <4> QED BY <1>3, <4>1, <4>2
        <3>2. CASE p \in B
            <4>1. PICK i \in 0 .. r - 1 : p = <<i, q + 1>>
                BY <3>2
            <4>2. i \in 0 .. c - 1 /\ q + 1 \in Nat
                BY <1>1, <1>4
            <4>3. q + 1 \in 1 .. n /\ q + 1 <= LRU!Cap(i)
                BY <2>1, <4>2
            <4> QED BY <1>3, <4>1, <4>2, <4>3
        <3> QED BY <2>3, <3>1, <3>2
    <2> QED BY <2>2, <2>3
<1>7. A \cap B = {}
    BY <1>1
<1>8. /\ IsFiniteSet(0 .. c - 1) /\ Cardinality(0 .. c - 1) = c
      /\ IsFiniteSet(1 .. q) /\ Cardinality(1 .. q) = q
      /\ IsFiniteSet(0 .. r - 1) /\ Cardinality(0 .. r - 1) = r
      /\ IsFiniteSet({q + 1}) /\ Cardinality({q + 1}) = 1
    <2>1. 0 \in Int /\ 1 \in Int /\ c - 1 \in Int /\ q \in Int /\ r - 1 \in Int
        BY <1>1, <1>4
    <2>2. IsFiniteSet(0 .. c - 1) /\ Cardinality(0 .. c - 1) = c
        BY <1>4, <2>1, FS_Interval
    <2>3. IsFiniteSet(1 .. q) /\ Cardinality(1 .. q) = q
        BY <1>1, <2>1, FS_Interval
    <2>4. IsFiniteSet(0 .. r - 1) /\ Cardinality(0 .. r - 1) = r
        BY <1>1, <1>4, <2>1, FS_Interval
    <2> QED BY <2>2, <2>3, <2>4, FS_Singleton
<1>9. IsFiniteSet(A) /\ Cardinality(A) = c * q
    <2>1. IsFiniteSet(A) /\ Cardinality(A) = Cardinality(0 .. c - 1) * Cardinality(1 .. q)
        BY <1>8, FS_Product, Zenon
    <2> QED BY <1>8, <2>1, Zenon
<1>10. IsFiniteSet(B) /\ Cardinality(B) = r * 1
    <2>1. IsFiniteSet(B) /\ Cardinality(B) = Cardinality(0 .. r - 1) * Cardinality({q + 1})
        BY <1>8, FS_Product, Zenon
    <2> QED BY <1>8, <2>1, Zenon
<1>11. Cardinality(A \cup B) = Cardinality(A) + Cardinality(B) - Cardinality(A \cap B)
    BY <1>9, <1>10, FS_Union
<1>12. Cardinality(A \cap B) = 0
    BY <1>7, FS_EmptySet
<1> HIDE DEF A, B
<1>13. Cardinality(A \cup B) = n
    <2>1. c * q \in Nat /\ r \in Nat
        BY <1>1, <1>4
    <2> QED BY <1>1, <1>9, <1>10, <1>11, <1>12, <2>1
<1>14. Cardinality(P) = n
    BY <1>6, <1>13
<1> QED BY <1>14 DEF n

\* What the invariant says of the entries s of shard i, when the last writes
\* are la and the order of use is ne.
Fine(i, s, la, ne) ==
    /\ s \in Seq(Entries)
    /\ \A n \in 1 .. Len(s) : s[n].write = la[s[n].key] /\ LRU!ShardOf(s[n].key) = i
    /\ \A n, m \in 1 .. Len(s) :
          n < m => s[n].key # s[m].key /\ <<s[n].key, s[m].key>> \in ne

LruTypes ==
    /\ shard \in [LRU!Indices -> Seq(Entries)]
    /\ writerKey \in [Writers -> Hashes \cup {NoKey}]
    /\ writes \in Nat
    /\ latest \in [Hashes -> Nat]

\* The inductive invariant of the map.
LruInv ==
    /\ LruTypes
    /\ \A i \in LRU!Indices : Len(shard[i]) <= LRU!Cap(i) /\ Fine(i, shard[i], latest, newer)

\* Taking entries out disturbs nothing.
LEMMA FineSub ==
    ASSUME NEW i, NEW s, NEW la, NEW ne, Fine(i, s, la, ne),
           NEW t \in Seq(Entries), NEW f \in [1 .. Len(t) -> 1 .. Len(s)],
           \A n \in 1 .. Len(t) : t[n] = s[f[n]],
           \A n, m \in 1 .. Len(t) : n < m => f[n] < f[m]
    PROVE  Fine(i, t, la, ne)
<1>1. \A n \in 1 .. Len(t) : f[n] \in 1 .. Len(s)
    OBVIOUS
<1>2. \A n \in 1 .. Len(t) : t[n].write = la[t[n].key] /\ LRU!ShardOf(t[n].key) = i
    BY <1>1 DEF Fine
<1>3. ASSUME NEW n \in 1 .. Len(t), NEW m \in 1 .. Len(t), n < m
      PROVE  t[n].key # t[m].key /\ <<t[n].key, t[m].key>> \in ne
    <2>1. /\ t[n] = s[f[n]] /\ t[m] = s[f[m]] /\ f[n] < f[m]
          /\ f[n] \in 1 .. Len(s) /\ f[m] \in 1 .. Len(s)
        BY <1>1, <1>3
    <2>2. s[f[n]].key # s[f[m]].key /\ <<s[f[n]].key, s[f[m]].key>> \in ne
        BY <2>1 DEF Fine
    <2> QED BY <2>1, <2>2
<1> QED BY <1>2, <1>3 DEF Fine

\* The use of a key that the shard does not hold disturbs nothing, and makes
\* the key newer than all that are there.
LEMMA FineUsed ==
    ASSUME NEW i, NEW t, NEW la, NEW ne, Fine(i, t, la, ne),
           NEW k \in Hashes, \A n \in 1 .. Len(t) : t[n].key # k,
           NEW lb, \A h \in Hashes : h # k => lb[h] = la[h],
           NEW nf, \A h \in Hashes : h # k => <<k, h>> \in nf,
           \A g, h \in Hashes : g # k /\ h # k /\ <<g, h>> \in ne => <<g, h>> \in nf
    PROVE  Fine(i, t, lb, nf) /\ \A n \in 1 .. Len(t) : <<k, t[n].key>> \in nf
<1>1. \A n \in 1 .. Len(t) : t[n].key \in Hashes
    <2>1. \A n \in 1 .. Len(t) : t[n] \in Entries
        BY DEF Fine
    <2> QED BY <2>1 DEF Entries
<1>2. \A n \in 1 .. Len(t) : <<k, t[n].key>> \in nf
    BY <1>1
<1>3. \A n, m \in 1 .. Len(t) : n < m => <<t[n].key, t[m].key>> \in nf
    BY <1>1 DEF Fine
<1> QED BY <1>1, <1>2, <1>3 DEF Fine

\* An entry whose key is newer than all can be put in front.
LEMMA FineFront ==
    ASSUME NEW i, NEW t, NEW la, NEW ne, Fine(i, t, la, ne), NEW e \in Entries,
           e.write = la[e.key], LRU!ShardOf(e.key) = i,
           \A n \in 1 .. Len(t) : t[n].key # e.key /\ <<e.key, t[n].key>> \in ne
    PROVE  Fine(i, <<e>> \o t, la, ne) /\ Len(<<e>> \o t) = Len(t) + 1
<1> DEFINE u == <<e>> \o t
<1>1. t \in Seq(Entries) /\ Len(t) \in Nat
    BY DEF Fine
<1>2. <<e>> \in Seq(Entries) /\ Len(<<e>>) = 1 /\ <<e>>[1] = e
    OBVIOUS
<1>3. /\ u \in Seq(Entries) /\ Len(u) = 1 + Len(t)
      /\ \A n \in 1 .. 1 + Len(t) : u[n] = IF n <= 1 THEN <<e>>[n] ELSE t[n - 1]
    BY <1>1, <1>2, ConcatProperties
<1>4. u[1] = e /\ \A n \in 2 .. 1 + Len(t) : u[n] = t[n - 1] /\ n - 1 \in 1 .. Len(t)
    BY <1>1, <1>2, <1>3
<1> HIDE DEF u
<1>5. \A n \in 1 .. Len(u) : u[n].write = la[u[n].key] /\ LRU!ShardOf(u[n].key) = i
    <2> SUFFICES ASSUME NEW n \in 1 .. Len(u)
                 PROVE  u[n].write = la[u[n].key] /\ LRU!ShardOf(u[n].key) = i
        OBVIOUS
    <2>1. CASE n = 1
        BY <1>4, <2>1
    <2>2. CASE n # 1
        <3>1. u[n] = t[n - 1] /\ n - 1 \in 1 .. Len(t)
            BY <1>1, <1>3, <1>4, <2>2
        <3> QED BY <3>1 DEF Fine
    <2> QED BY <2>1, <2>2
<1>6. ASSUME NEW n \in 1 .. Len(u), NEW m \in 1 .. Len(u), n < m
      PROVE  u[n].key # u[m].key /\ <<u[n].key, u[m].key>> \in ne
    <2>1. u[m] = t[m - 1] /\ m - 1 \in 1 .. Len(t)
        BY <1>1, <1>3, <1>4, <1>6
    <2>2. CASE n = 1
        BY <1>4, <2>1, <2>2
    <2>3. CASE n # 1
        <3>1. u[n] = t[n - 1] /\ n - 1 \in 1 .. Len(t) /\ n - 1 < m - 1
            BY <1>1, <1>3, <1>4, <1>6, <2>3
        <3> QED BY <2>1, <3>1 DEF Fine
    <2> QED BY <2>2, <2>3
<1>7. Fine(i, u, la, ne)
    BY <1>3, <1>5, <1>6 DEF Fine
<1> QED BY <1>1, <1>3, <1>7 DEF u

\* LruCache::pop takes out the entry of the key and no other.
LEMMA FineWithout ==
    ASSUME NEW i, NEW s, NEW la, NEW ne, Fine(i, s, la, ne),
           NEW k \in LRU!KeysIn(s)
    PROVE  /\ Fine(i, LRU!Without(s, k), la, ne)
           /\ Len(s) > 0 /\ Len(LRU!Without(s, k)) = Len(s) - 1
           /\ \A n \in 1 .. Len(LRU!Without(s, k)) : LRU!Without(s, k)[n].key # k
           /\ LRU!At(s, k) \in 1 .. Len(s) /\ s[LRU!At(s, k)].key = k
<1> DEFINE a == LRU!At(s, k)
           l == Len(s)
           b == SubSeq(s, 1, a - 1)
           d == SubSeq(s, a + 1, l)
           t == LRU!Without(s, k)
<1>1. s \in Seq(Entries) /\ l \in Nat /\ \A n \in 1 .. l : s[n] \in Entries
    BY DEF Fine
<1>2. a \in 1 .. l /\ s[a].key = k
    <2>1. \E n \in 1 .. Len(s) : s[n].key = k
        BY DEF LRU!KeysIn
    <2> QED BY <2>1 DEF LRU!At
<1>3. t = b \o d
    BY DEF LRU!Without
<1> HIDE DEF a, l, t
<1>4. /\ b \in Seq(Entries) /\ Len(b) = a - 1 /\ \A n \in 1 .. a - 1 : b[n] = s[n]
    <2>1. a - 1 \in Int /\ \A n \in 1 .. a - 1 : s[n] \in Entries
        BY <1>1, <1>2
    <2>2. /\ b \in Seq(Entries) /\ Len(b) = IF 1 <= a - 1 THEN a - 1 - 1 + 1 ELSE 0
          /\ \A n \in 1 .. a - 1 - 1 + 1 : b[n] = s[1 + n - 1]
        BY <2>1, SubSeqProperties
    <2> HIDE DEF b
    <2> QED BY <1>1, <1>2, <2>2
<1>5. /\ d \in Seq(Entries) /\ Len(d) = l - a /\ \A n \in 1 .. l - a : d[n] = s[a + n]
    <2>1. a + 1 \in Int /\ l \in Int /\ \A n \in a + 1 .. l : s[n] \in Entries
        BY <1>1, <1>2
    <2>2. /\ d \in Seq(Entries) /\ Len(d) = IF a + 1 <= l THEN l - (a + 1) + 1 ELSE 0
          /\ \A n \in 1 .. l - (a + 1) + 1 : d[n] = s[a + 1 + n - 1]
        BY <2>1, SubSeqProperties
    <2> HIDE DEF d
    <2>3. \A n \in 1 .. l - a : n \in 1 .. l - (a + 1) + 1 /\ a + 1 + n - 1 = a + n
        BY <1>1, <1>2
    <2>4. (IF a + 1 <= l THEN l - (a + 1) + 1 ELSE 0) = l - a
        BY <1>1, <1>2
    <2>5. \A n \in 1 .. l - a : d[n] = s[a + n]
        BY <2>2, <2>3
    <2> QED BY <2>2, <2>4, <2>5
<1> HIDE DEF b, d
<1>6. /\ t \in Seq(Entries) /\ Len(t) = l - 1
      /\ \A n \in 1 .. l - 1 : t[n] = IF n <= a - 1 THEN b[n] ELSE d[n - (a - 1)]
    <2>1. /\ t \in Seq(Entries) /\ Len(t) = Len(b) + Len(d)
          /\ \A n \in 1 .. Len(b) + Len(d) : t[n] = IF n <= Len(b) THEN b[n] ELSE d[n - Len(b)]
        BY <1>3, <1>4, <1>5, ConcatProperties
    <2>2. Len(b) + Len(d) = l - 1
        BY <1>1, <1>2, <1>4, <1>5
    <2> QED BY <1>4, <2>1, <2>2
<1> DEFINE f == [n \in 1 .. l - 1 |-> IF n < a THEN n ELSE n + 1]
<1>7. \A n \in 1 .. l - 1 : f[n] \in 1 .. l /\ f[n] # a /\ t[n] = s[f[n]]
    <2> SUFFICES ASSUME NEW n \in 1 .. l - 1
                 PROVE  f[n] \in 1 .. l /\ f[n] # a /\ t[n] = s[f[n]]
        OBVIOUS
    <2>1. CASE n < a
        BY <1>1, <1>2, <1>4, <1>6, <2>1
    <2>2. CASE ~(n < a)
        <3>1. n - (a - 1) \in 1 .. l - a /\ a + (n - (a - 1)) = n + 1
              /\ ~(n <= a - 1) /\ n + 1 \in 1 .. l
            BY <1>1, <1>2, <2>2
        <3>2. t[n] = d[n - (a - 1)] /\ d[n - (a - 1)] = s[n + 1]
            BY <1>5, <1>6, <3>1
        <3>3. f[n] = n + 1
            BY <2>2
        <3> HIDE DEF f
        <3> QED BY <1>1, <1>2, <2>2, <3>1, <3>2, <3>3
    <2> QED BY <2>1, <2>2
<1>8. \A n, m \in 1 .. l - 1 : n < m => f[n] < f[m]
    BY <1>1, <1>2
<1>9. f \in [1 .. Len(t) -> 1 .. Len(s)]
    BY <1>6, <1>7 DEF l
<1> HIDE DEF f
<1>10. Fine(i, t, la, ne)
    BY <1>6, <1>7, <1>8, <1>9, FineSub, SMTT(20)
<1>11. \A n \in 1 .. l - 1 : t[n].key # k
    <2> SUFFICES ASSUME NEW n \in 1 .. l - 1 PROVE s[f[n]].key # s[a].key
        BY <1>2, <1>7
    <2>1. f[n] < a \/ a < f[n]
        BY <1>1, <1>2, <1>7
    <2> QED BY <1>2, <1>7, <2>1 DEF Fine, l
<1>12. l > 0
    BY <1>1, <1>2
<1> QED BY <1>2, <1>6, <1>10, <1>11, <1>12 DEF a, l, t

\* A step that takes entries out of one shard and uses no key.
LEMMA TakesOutInv ==
    ASSUME LruInv, NEW j \in LRU!Indices, NEW t,
           shard' = [shard EXCEPT ![j] = t],
           Fine(j, t, latest, newer), Len(t) <= Len(shard[j]),
           UNCHANGED <<writes, latest, newer>>,
           writerKey' \in [Writers -> Hashes \cup {NoKey}]
    PROVE  LruInv'
<1>1. t \in Seq(Entries) /\ Len(t) <= LRU!Cap(j)
    <2>1. shard[j] \in Seq(Entries) /\ Len(shard[j]) <= LRU!Cap(j)
        BY DEF LruInv, LruTypes
    <2>2. t \in Seq(Entries) /\ Len(t) \in Nat /\ Len(shard[j]) \in Nat /\ LRU!Cap(j) \in Nat
        BY <2>1, LruConstants DEF Fine
    <2> QED BY <2>1, <2>2
<1>2. LruTypes'
    BY <1>1, LruConstants DEF LruInv, LruTypes
<1>3. \A i \in LRU!Indices : shard'[i] = IF i = j THEN t ELSE shard[i]
    BY DEF LruInv, LruTypes
<1>4. \A i \in LRU!Indices :
          Len(shard'[i]) <= LRU!Cap(i) /\ Fine(i, shard'[i], latest, newer)
    BY <1>1, <1>3 DEF LruInv
<1>5. \A i \in LRU!Indices :
          Len(shard'[i]) <= LRU!Cap(i) /\ Fine(i, shard'[i], latest', newer')
    BY <1>4
<1> QED BY <1>2, <1>5, LruConstants DEF LruInv

\* A step that puts the entry of a key in front of what remains of its shard.
LEMMA PutsInFrontInv ==
    ASSUME LruInv, NEW k \in Hashes, NEW e \in Entries, NEW t,
           shard' = [shard EXCEPT ![LRU!ShardOf(k)] = <<e>> \o t],
           Fine(LRU!ShardOf(k), t, latest, newer),
           \A n \in 1 .. Len(t) : t[n].key # k,
           Len(t) + 1 <= LRU!Cap(LRU!ShardOf(k)),
           e.key = k, e.write = latest'[k],
           latest' \in [Hashes -> Nat], \A h \in Hashes : h # k => latest'[h] = latest[h],
           LRU!UsedNow(k), writes' \in Nat,
           writerKey' \in [Writers -> Hashes \cup {NoKey}]
    PROVE  LruInv'
<1> DEFINE j == LRU!ShardOf(k)
           u == <<e>> \o t
<1>1. j \in LRU!Indices
    BY LruConstants
<1>2. /\ \A h \in Hashes : h # k => <<k, h>> \in newer'
      /\ \A g, h \in Hashes : g # k /\ h # k /\ <<g, h>> \in newer => <<g, h>> \in newer'
    <2>1. newer' = { p \in newer : p[1] # k /\ p[2] # k } \cup ({k} \X (Hashes \ {k}))
        BY DEF LRU!UsedNow
    <2>2. \A h \in Hashes : h # k => <<k, h>> \in newer'
        BY <2>1
    <2>3. \A g, h \in Hashes : g # k /\ h # k /\ <<g, h>> \in newer => <<g, h>> \in newer'
        <3> SUFFICES ASSUME NEW g \in Hashes, NEW h \in Hashes, g # k, h # k,
                            <<g, h>> \in newer
                     PROVE  <<g, h>> \in { p \in newer : p[1] # k /\ p[2] # k }
            BY <2>1
        <3> QED OBVIOUS
    <2> QED BY <2>2, <2>3
<1>3. Fine(j, t, latest', newer') /\ \A n \in 1 .. Len(t) : <<k, t[n].key>> \in newer'
    <2>1. Fine(j, t, latest, newer) /\ \A n \in 1 .. Len(t) : t[n].key # k
        OBVIOUS
    <2> HIDE DEF j
    <2>2. \A h \in Hashes : h # k => latest'[h] = latest[h]
        OBVIOUS
    <2> QED BY ONLY k \in Hashes, <1>2, <2>1, <2>2, FineUsed
<1>4. Fine(j, u, latest', newer') /\ Len(u) = Len(t) + 1
    BY <1>3, FineFront
<1> HIDE DEF u
<1>5. ASSUME NEW i \in LRU!Indices, i # j PROVE Fine(i, shard[i], latest', newer')
    <2>1. Fine(i, shard[i], latest, newer)
        BY DEF LruInv
    <2>2. \A n \in 1 .. Len(shard[i]) : shard[i][n].key # k
        BY <1>5, <2>1 DEF Fine
    <2>3. \A h \in Hashes : h # k => latest'[h] = latest[h]
        OBVIOUS
    <2> QED BY ONLY k \in Hashes, <1>2, <2>1, <2>2, <2>3, FineUsed
<1>6. u \in Seq(Entries)
    BY <1>4 DEF Fine
<1>7. shard' = [shard EXCEPT ![j] = u] /\ shard \in [LRU!Indices -> Seq(Entries)]
    BY DEF LruInv, LruTypes, u
<1> HIDE DEF j
<1>8. /\ shard' \in [LRU!Indices -> Seq(Entries)]
      /\ \A i \in LRU!Indices : shard'[i] = IF i = j THEN u ELSE shard[i]
    BY <1>1, <1>6, <1>7
<1>9. LruTypes'
    BY <1>8, LruConstants DEF LruTypes
<1>10. Len(u) <= LRU!Cap(j)
    BY <1>4 DEF j
<1>11. \A i \in LRU!Indices :
           Len(shard'[i]) <= LRU!Cap(i) /\ Fine(i, shard'[i], latest', newer')
    BY <1>4, <1>5, <1>8, <1>10 DEF LruInv
<1> QED BY <1>9, <1>11, LruConstants DEF LruInv

LEMMA GetInv ==
    ASSUME LruInv, NEW k \in Hashes, LRU!Get(k)
    PROVE  LruInv'
<1> DEFINE j == LRU!ShardOf(k)
           s == shard[j]
           e == s[LRU!At(s, k)]
           t == LRU!Without(s, k)
<1>1. j \in LRU!Indices
    BY LruConstants
<1>2. /\ k \in LRU!KeysIn(s) /\ shard' = [shard EXCEPT ![j] = LRU!Touched(s, k)]
      /\ LRU!UsedNow(k) /\ UNCHANGED <<writerKey, writes, latest>>
    BY <1>1 DEF LRU!Get, LRU!writerVars, LruInv, LruTypes
<1>3. shard' = [shard EXCEPT ![j] = <<e>> \o t]
    BY <1>2 DEF LRU!Touched
<1>4. Fine(j, s, latest, newer) /\ Len(s) <= LRU!Cap(j) /\ LRU!Cap(j) \in Nat
    BY <1>1, LruConstants DEF LruInv
<1>5. /\ Fine(j, t, latest, newer) /\ Len(s) > 0 /\ Len(t) = Len(s) - 1
      /\ \A n \in 1 .. Len(t) : t[n].key # k
      /\ LRU!At(s, k) \in 1 .. Len(s) /\ e.key = k
    BY <1>2, <1>4, FineWithout
<1>6. e \in Entries /\ e.write = latest[k]
    BY <1>4, <1>5 DEF Fine
<1>7. Len(s) \in Nat
    BY <1>4 DEF Fine
<1> HIDE DEF t, e, s
<1>8. Len(t) + 1 <= LRU!Cap(j)
    BY <1>4, <1>5, <1>7
<1>9. latest' \in [Hashes -> Nat] /\ \A h \in Hashes : h # k => latest'[h] = latest[h]
    BY <1>2 DEF LruInv, LruTypes
<1>10. writes' \in Nat /\ writerKey' \in [Writers -> Hashes \cup {NoKey}] /\ e.write = latest'[k]
    BY <1>2, <1>6 DEF LruInv, LruTypes
<1> QED BY <1>2, <1>3, <1>5, <1>6, <1>8, <1>9, <1>10, PutsInFrontInv

LEMMA PushInv ==
    ASSUME LruInv, NEW w \in Writers, LRU!Push(w)
    PROVE  LruInv'
<1>0. PICK k \in Hashes : k = writerKey[w]
    BY DEF LRU!Push, LruInv, LruTypes
<1> DEFINE j == LRU!ShardOf(k)
           s == shard[j]
           e == LRU!Entry(k, writes + 1)
           c == LRU!Cap(j)
           t == IF k \in LRU!KeysIn(s) THEN LRU!Without(s, k)
                ELSE IF Len(s) >= c THEN SubSeq(s, 1, Len(s) - 1) ELSE s
<1>1. j \in LRU!Indices /\ c \in Nat \ {0}
    BY LruConstants
<1>2. /\ shard' = [shard EXCEPT ![j] = LRU!Pushed(s, e, c)]
      /\ writes' = writes + 1 /\ latest' = [latest EXCEPT ![k] = writes']
      /\ LRU!UsedNow(k) /\ writerKey' = [writerKey EXCEPT ![w] = NoKey]
    BY <1>0, <1>1 DEF LRU!Push, LruInv, LruTypes
<1>3. e \in Entries /\ e.key = k /\ e.write = writes + 1
    BY DEF LRU!Entry, Entries, LruInv, LruTypes
<1>4. shard' = [shard EXCEPT ![j] = <<e>> \o t]
    BY <1>2, <1>3 DEF LRU!Pushed
<1>5. /\ Fine(j, s, latest, newer) /\ Len(s) <= c
      /\ s \in Seq(Entries) /\ Len(s) \in Nat
    <2>1. Fine(j, s, latest, newer) /\ Len(s) <= c
        BY <1>1 DEF LruInv
    <2> QED BY <2>1 DEF Fine
<1>6. /\ Fine(j, t, latest, newer) /\ Len(t) + 1 <= c
      /\ \A n \in 1 .. Len(t) : t[n].key # k
    <2>1. CASE k \in LRU!KeysIn(s)
        <3>1. t = LRU!Without(s, k)
            BY <2>1
        <3>2. /\ Fine(j, t, latest, newer) /\ Len(t) = Len(s) - 1
              /\ \A n \in 1 .. Len(t) : t[n].key # k
            BY <1>5, <2>1, <3>1, FineWithout
        <3> HIDE DEF t, s, c
        <3> QED BY <1>1, <1>5, <3>2
    <2>2. CASE k \notin LRU!KeysIn(s) /\ ~(Len(s) >= c)
        <3>1. t = s /\ \A n \in 1 .. Len(s) : s[n].key # k
            BY <2>2 DEF LRU!KeysIn
        <3>2. Len(s) + 1 <= c
            <4> HIDE DEF s, c
            <4> QED BY <1>1, <1>5, <2>2
        <3> QED BY <1>5, <3>1, <3>2
    <2>3. CASE k \notin LRU!KeysIn(s) /\ Len(s) >= c
        <3>1. t = SubSeq(s, 1, Len(s) - 1) /\ \A n \in 1 .. Len(s) : s[n].key # k
            BY <2>3 DEF LRU!KeysIn
        <3> DEFINE l == Len(s)
        <3> HIDE DEF t, c, s
        <3>2. l \in Nat /\ l = c /\ l > 0
            BY <1>1, <1>5, <2>3
        <3>3. l - 1 \in Int /\ \A n \in 1 .. l - 1 : s[n] \in Entries
            BY <1>5
        <3>4. t = SubSeq(s, 1, l - 1)
            BY <3>1
        <3> HIDE DEF l
        <3>5. /\ t \in Seq(Entries) /\ Len(t) = IF 1 <= l - 1 THEN l - 1 - 1 + 1 ELSE 0
              /\ \A n \in 1 .. l - 1 - 1 + 1 : t[n] = s[1 + n - 1]
            BY <3>3, <3>4, SubSeqProperties
        <3>6. (IF 1 <= l - 1 THEN l - 1 - 1 + 1 ELSE 0) = l - 1
            BY <3>2
        <3>7. \A n \in 1 .. l - 1 : n \in 1 .. l - 1 - 1 + 1 /\ 1 + n - 1 = n
            BY <3>2
        <3>8. t \in Seq(Entries) /\ Len(t) = l - 1 /\ \A n \in 1 .. l - 1 : t[n] = s[n]
            BY <3>5, <3>6, <3>7
        <3> DEFINE f == [n \in 1 .. l - 1 |-> n]
        <3>9. /\ f \in [1 .. Len(t) -> 1 .. Len(s)]
              /\ \A n \in 1 .. Len(t) : t[n] = s[f[n]]
              /\ \A n, m \in 1 .. Len(t) : n < m => f[n] < f[m]
            BY <3>2, <3>8 DEF l
        <3> HIDE DEF f
        <3>10. Fine(j, t, latest, newer)
            BY <1>5, <3>8, <3>9, FineSub
        <3>11. \A n \in 1 .. Len(t) : t[n].key # k
            BY <3>1, <3>2, <3>8 DEF l
        <3> QED BY <3>2, <3>8, <3>10, <3>11
    <2> QED BY <2>1, <2>2, <2>3
<1> HIDE DEF e, t, s, c
<1>7. /\ latest' \in [Hashes -> Nat] /\ latest'[k] = writes + 1 /\ writes' \in Nat
      /\ \A h \in Hashes : h # k => latest'[h] = latest[h]
    BY <1>2 DEF LruInv, LruTypes
<1>8. writerKey' \in [Writers -> Hashes \cup {NoKey}]
    BY <1>2 DEF LruInv, LruTypes
<1> QED BY <1>2, <1>3, <1>4, <1>6, <1>7, <1>8, PutsInFrontInv DEF c

LEMMA PopInv ==
    ASSUME LruInv, NEW k \in Hashes, LRU!Pop(k)
    PROVE  LruInv'
<1> DEFINE j == LRU!ShardOf(k)
           s == shard[j]
           t == LRU!Without(s, k)
<1>1. j \in LRU!Indices
    BY LruConstants
<1>2. /\ k \in LRU!KeysIn(s) /\ shard' = [shard EXCEPT ![j] = t]
      /\ UNCHANGED <<writerKey, writes, latest, newer>>
    BY <1>1 DEF LRU!Pop, LRU!writerVars, LRU!history, LruInv, LruTypes
<1>3. Fine(j, s, latest, newer)
    BY <1>1 DEF LruInv
<1>4. Fine(j, t, latest, newer) /\ Len(t) = Len(s) - 1 /\ Len(s) \in Nat
    <2>1. Fine(j, t, latest, newer) /\ Len(t) = Len(s) - 1
        BY <1>2, <1>3, FineWithout
    <2> QED BY <1>3, <2>1 DEF Fine
<1> HIDE DEF t, s
<1>5. Len(t) <= Len(s) /\ writerKey' \in [Writers -> Hashes \cup {NoKey}]
    BY <1>2, <1>4 DEF LruInv, LruTypes
<1> HIDE DEF j
<1> QED BY <1>1, <1>2, <1>4, <1>5, TakesOutInv DEF s

LEMMA RetainInv ==
    ASSUME LruInv, NEW j \in LRU!Indices, NEW m \in Nat, LRU!Retain(j, m)
    PROVE  LruInv'
<1> DEFINE s == shard[j]
<1>1. PICK f \in LRU!Choices(m, Len(s)) :
          shard' = [shard EXCEPT ![j] = [n \in 1 .. m |-> s[f[n]]]]
    BY DEF LRU!Retain
<1>2. m <= Len(s) /\ UNCHANGED <<writerKey, writes, latest, newer>>
    BY DEF LRU!Retain, LRU!writerVars, LRU!history
<1>3. Fine(j, s, latest, newer)
    BY DEF LruInv
<1>4. s \in Seq(Entries) /\ \A n \in 1 .. Len(s) : s[n] \in Entries
    BY <1>3 DEF Fine
<1> HIDE DEF s
<1>5. /\ f \in [1 .. m -> 1 .. Len(s)]
      /\ \A n, l \in 1 .. m : n < l => f[n] < f[l]
    BY DEF LRU!Choices
<1> DEFINE t == [n \in 1 .. m |-> s[f[n]]]
<1>6. t \in Seq(Entries) /\ Len(t) = m /\ \A n \in 1 .. m : t[n] = s[f[n]]
    BY <1>4, <1>5
<1>7. shard' = [shard EXCEPT ![j] = t]
    BY <1>1
<1> HIDE DEF t
<1>8. Fine(j, t, latest, newer)
    BY <1>3, <1>5, <1>6, FineSub
<1>9. Len(t) <= Len(s) /\ writerKey' \in [Writers -> Hashes \cup {NoKey}]
    BY <1>2, <1>6 DEF LruInv, LruTypes
<1> QED BY <1>2, <1>7, <1>8, <1>9, TakesOutInv DEF s

LEMMA LruNextInv == LruInv /\ [LRU!Next]_lruVars => LruInv'
<1> SUFFICES ASSUME LruInv, [LRU!Next]_lruVars PROVE LruInv'
    OBVIOUS
<1>1. ASSUME UNCHANGED <<shard, writes, latest, newer>>,
             writerKey' \in [Writers -> Hashes \cup {NoKey}]
      PROVE  LruInv'
    <2>1. LruTypes'
        BY <1>1, LruConstants DEF LruInv, LruTypes
    <2>2. \A i \in LRU!Indices :
              Len(shard'[i]) <= LRU!Cap(i) /\ Fine(i, shard'[i], latest', newer')
        BY <1>1 DEF LruInv
    <2> QED BY <2>1, <2>2, LruConstants DEF LruInv
<1>2. CASE UNCHANGED lruVars
    BY <1>1, <1>2 DEF lruVars, LruInv, LruTypes
<1>3. ASSUME NEW w \in Writers, NEW k \in Hashes, LRU!Contains(w, k) PROVE LruInv'
    <2>1. writerKey' = [writerKey EXCEPT ![w] = k] /\ UNCHANGED <<shard, writes, latest, newer>>
        BY <1>3 DEF LRU!Contains, LRU!history
    <2>2. writerKey' \in [Writers -> Hashes \cup {NoKey}]
        BY <2>1 DEF LruInv, LruTypes
    <2> QED BY <1>1, <2>1, <2>2
<1>4. ASSUME NEW j \in LRU!Indices, LRU!Clear(j) PROVE LruInv'
    <2>1. shard' = [shard EXCEPT ![j] = << >>] /\ UNCHANGED <<writerKey, writes, latest, newer>>
        BY <1>4 DEF LRU!Clear, LRU!writerVars, LRU!history
    <2>2. /\ Fine(j, << >>, latest, newer) /\ Len(<< >>) = 0 /\ Len(shard[j]) \in Nat
        BY DEF Fine, LruInv, LruTypes
    <2>3. Len(<< >>) <= Len(shard[j]) /\ writerKey' \in [Writers -> Hashes \cup {NoKey}]
        BY <2>1, <2>2 DEF LruInv, LruTypes
    <2> QED BY <2>1, <2>2, <2>3, TakesOutInv
<1>5. ASSUME NEW j \in LRU!Indices, NEW m \in 0 .. LRU!Cap(j), LRU!Retain(j, m)
      PROVE  LruInv'
    <2>1. m \in Nat
        BY LruConstants
    <2> QED BY <1>5, <2>1, RetainInv
<1> QED BY <1>2, <1>3, <1>4, <1>5, GetInv, PopInv, PushInv DEF LRU!Next

\* For every capacity, every set of keys and every interleaving of lookups,
\* stores, removals and clean-ups, the map stays within the configured capacity,
\* finds what was stored last for a key and in one place only, and keeps every
\* shard in the order of use (sharded.rs:21-112, mod.rs:428-458).
THEOREM MapIsCoherent == Spec => []MapCoherent
<1>1. Init => LruInv
    <2> SUFFICES ASSUME LRU!Init PROVE LruInv
        BY DEF Init
    <2>1. /\ shard = [i \in LRU!Indices |-> << >>] /\ writerKey = [w \in Writers |-> NoKey]
          /\ writes = 0 /\ latest = [k \in Hashes |-> 0]
        BY DEF LRU!Init
    <2>2. << >> \in Seq(Entries) /\ Len(<< >>) = 0
        OBVIOUS
    <2>3. LruTypes
        BY <2>1, <2>2 DEF LruTypes
    <2>4. \A i \in LRU!Indices : Fine(i, << >>, latest, newer)
        BY <2>2 DEF Fine
    <2>5. \A i \in LRU!Indices : shard[i] = << >> /\ LRU!Cap(i) \in Nat
        BY <2>1, LruConstants
    <2> QED BY <2>2, <2>3, <2>4, <2>5 DEF LruInv
<1>2. LruInv /\ [Next]_vars => LruInv'
    <2> SUFFICES ASSUME [Next]_vars PROVE [LRU!Next]_lruVars
        BY LruNextInv
    <2> QED BY DEF Next, vars, LruMoves, RateMoves, BusMoves, ServersMove, InServers
<1>3. LruInv => MapCoherent
    <2> SUFFICES ASSUME LruInv PROVE LRU!SizeBounded /\ LRU!LatestWins /\ LRU!RecencyOrdered
        BY DEF MapCoherent, LRU!MapCoherent
    <2>1. LRU!SizeBounded
        <3>1. \A i \in LRU!Indices : Len(shard[i]) <= LRU!Cap(i)
            BY DEF LruInv
        <3> QED BY <3>1, CapacityShared, LruCardinality DEF LRU!SizeBounded
    <2>2. LRU!LatestWins
        <3> SUFFICES ASSUME NEW i \in LRU!Indices, NEW n \in 1 .. Len(shard[i])
                     PROVE  /\ shard[i][n].write = latest[shard[i][n].key]
                            /\ LRU!ShardOf(shard[i][n].key) = i
                            /\ \A m \in 1 .. Len(shard[i]) :
                                   m # n => shard[i][m].key # shard[i][n].key
            BY DEF LRU!LatestWins
        <3>1. Fine(i, shard[i], latest, newer)
            BY DEF LruInv
        <3>2. \A m \in 1 .. Len(shard[i]) : m # n => m < n \/ n < m
            BY <3>1 DEF Fine
        <3> QED BY <3>1, <3>2 DEF Fine
    <2>3. LRU!RecencyOrdered
        BY DEF LRU!RecencyOrdered, LruInv, Fine
    <2> QED BY <2>1, <2>2, <2>3
<1> QED BY <1>1, <1>2, <1>3, PTL DEF Spec
=============================================================================
