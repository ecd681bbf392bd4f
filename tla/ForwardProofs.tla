---------------------------- MODULE ForwardProofs ----------------------------
(***************************************************************************)
(* Proofs about the forward plugin over the multiplexer, for any number of *)
(* upstreams, queries, tasks and query ids and any configuration.          *)
(***************************************************************************)
EXTENDS Forward, UdpMuxProofs, FiniteSetTheorems

Phases == {"idle", "race", "select", "attempt", "answered", "failed"}

Health == [queries : Nat, successes : Nat, failures : Nat, avg : Nat]

\* The types; tasks are started in order and belong to the query that joins them.
ForwardTypes ==
    /\ used \in 0 .. MaxTasks
    /\ \A t \in Tasks : t > used => pc[t] = "unused"
    /\ queryPc \in [Queries -> Phases]
    /\ queryTasks \in [Queries -> SUBSET (1 .. used)]
    /\ attempts \in [Queries -> Nat]
    /\ tried \in [Queries -> SUBSET Upstreams]
    /\ current \in Upstreams
    /\ health \in [Upstreams -> Health]
    /\ seen \in [Tasks -> Nat]
    /\ samples \in [Upstreams -> SUBSET Latencies]

\* A race still has a task for every upstream whose failure it has not seen,
\* and goes on one by one only after it has seen all.  Without a race there is
\* one upstream, and an attempt that failed has tried it.
RaceCover ==
    \A q \in Queries :
        /\ queryPc[q] = "race" =>
              \A u \in Upstreams \ tried[q] : \E t \in queryTasks[q] : peer[t] = u
        /\ config.concurrent /\ NUpstreams > 1 =>
              (queryPc[q] \in {"select", "attempt", "failed"} => tried[q] = Upstreams)
        /\ NUpstreams = 1 =>
              /\ attempts[q] > 0 => tried[q] = Upstreams
              /\ queryPc[q] = "failed" => tried[q] = Upstreams \/ MaxAttempts = 0
        /\ queryPc[q] = "race" => NUpstreams > 1

\* Where an upstream's average stands: the first success is counted and not
\* yet written, or nothing was measured, or the average is within the range.
\* Before the first success is written the average may lie outside, since a
\* later one mixes its time with the initial 0.
AverageCover ==
    \A u \in Upstreams :
        \/ \E t \in Tasks : pc[t] = "counted" /\ peer[t] = u /\ seen[t] = 0
        \/ /\ health[u].successes = 0 /\ samples[u] = {}
           /\ \A t \in Tasks : pc[t] = "counted" => peer[t] # u
        \/ \E lo, hi \in samples[u] : lo <= health[u].avg /\ health[u].avg <= hi

\* The inductive invariant.
ForwardInv == MuxInv /\ ForwardTypes /\ RaceCover /\ AverageCover

-----------------------------------------------------------------------------

LEMMA UpstreamsFinite ==
    /\ IsFiniteSet(Upstreams) /\ Cardinality(Upstreams) = NUpstreams
    /\ \A u \in Upstreams : Cardinality({v \in Upstreams : v <= u}) = u + 1
<1>1. NUpstreams \in Nat /\ NUpstreams > 0
    BY MuxAssumption
<1>2. IsFiniteSet(Upstreams) /\ Cardinality(Upstreams) = NUpstreams
    BY <1>1, FS_Interval DEF Upstreams
<1>3. ASSUME NEW u \in Upstreams PROVE Cardinality({v \in Upstreams : v <= u}) = u + 1
    <2>1. {v \in Upstreams : v <= u} = 0 .. u
        BY <1>1 DEF Upstreams
    <2>2. u \in Nat
        BY <1>1 DEF Upstreams
    <2>3. Cardinality(0 .. u) = IF 0 > u THEN 0 ELSE u - 0 + 1
        BY <2>2, FS_Interval
    <2>4. Cardinality(0 .. u) = u + 1
        BY <2>2, <2>3
    <2> QED BY <2>1, <2>4
<1> QED BY <1>2, <1>3

\* What starting the tasks of a race, or the task of an attempt, does.
LEMMA StartTasksMeaning ==
    ASSUME ForwardInv, NEW q \in Queries, NEW us,
           us = Upstreams \/ \E u \in Upstreams : us = {u}, StartTasks(q, us)
    PROVE  LET new == used + 1 .. used' IN
           /\ used' \in 0 .. MaxTasks /\ used < used'
           /\ \A t \in Tasks : t \in new => pc'[t] = "alloc" /\ peer'[t] \in us
           /\ \A t \in Tasks : t \notin new => pc'[t] = pc[t] /\ peer'[t] = peer[t]
           /\ \A u \in us : \E t \in new : peer'[t] = u
           /\ queryTasks' = [queryTasks EXCEPT ![q] = new]
<1> DEFINE rank(u) == Cardinality({ v \in us : v <= u })
           new == used + 1 .. used + Cardinality(us)
           of(t) == CHOOSE u \in us : used + rank(u) = t
<1>1. used \in Nat /\ MaxTasks \in Nat /\ NUpstreams \in Nat /\ NUpstreams > 0
    BY MuxAssumption DEF ForwardInv, ForwardTypes
<1>2. /\ Cardinality(us) \in Nat \ {0}
      /\ \A t \in new : \E u \in us : used + rank(u) = t
      /\ \A u \in us : rank(u) \in 1 .. Cardinality(us)
      /\ \A u, v \in us : rank(u) = rank(v) => u = v
    <2>1. CASE us = Upstreams
        <3>1. Cardinality(us) = NUpstreams /\ \A u \in us : rank(u) = u + 1
            BY <2>1, UpstreamsFinite
        <3> HIDE DEF rank
        <3>2. ASSUME NEW t \in new PROVE \E u \in us : used + rank(u) = t
            <4>1. t - used - 1 \in us
                BY <1>1, <2>1, <3>1 DEF Upstreams
            <4>2. used + rank(t - used - 1) = t
                BY <1>1, <3>1, <4>1
            <4> QED BY <4>1, <4>2
        <3>3. \A u \in us : u \in Nat /\ u < NUpstreams
            BY <1>1, <2>1 DEF Upstreams
        <3>4. \A u, v \in us : rank(u) = rank(v) => u = v
            BY <3>1, <3>3
        <3> HIDE DEF new
        <3> QED BY <1>1, <3>1, <3>2, <3>3, <3>4
    <2>2. ASSUME NEW u \in Upstreams, us = {u} PROVE <1>2!1 /\ <1>2!2 /\ <1>2!3 /\ <1>2!4
        <3>1. u \in Nat
            BY <1>1 DEF Upstreams
        <3>2. { v \in us : v <= u } = {u}
            BY <2>2, <3>1
        <3>3. Cardinality(us) = 1 /\ rank(u) = 1
            BY <2>2, <3>2, FS_Singleton
        <3> HIDE DEF rank
        <3> QED BY <1>1, <2>2, <3>3
    <2> QED BY <2>1, <2>2
<1>3. /\ used + Cardinality(us) <= MaxTasks /\ used' = used + Cardinality(us)
      /\ pc' = [t \in Tasks |-> IF t \in new THEN "alloc" ELSE pc[t]]
      /\ peer' = [t \in Tasks |-> IF t \in new THEN of(t) ELSE peer[t]]
      /\ queryTasks' = [queryTasks EXCEPT ![q] = new]
    BY DEF StartTasks
<1>4. new \subseteq Tasks
    BY <1>1, <1>2, <1>3 DEF Tasks
<1> HIDE DEF rank
<1>5. \A t \in new : of(t) \in us /\ used + rank(of(t)) = t
    BY <1>2
<1>6. \A u \in us : used + rank(u) \in new /\ of(used + rank(u)) = u
    <2> SUFFICES ASSUME NEW u \in us
                 PROVE  used + rank(u) \in new /\ of(used + rank(u)) = u
        OBVIOUS
    <2>1. used + rank(u) \in new /\ rank(u) \in Nat
        BY <1>1, <1>2
    <2>2. of(used + rank(u)) \in us /\ used + rank(of(used + rank(u))) = used + rank(u)
        BY <1>5, <2>1
    <2>3. rank(of(used + rank(u))) = rank(u)
        <3>1. rank(of(used + rank(u))) \in Nat
            BY <1>2, <2>2
        <3> HIDE DEF of
        <3> QED BY <1>1, <2>1, <2>2, <3>1
    <2> QED BY <1>2, <2>1, <2>2, <2>3
<1> HIDE DEF of
<1>7. \A u \in us : \E t \in new : peer'[t] = u
    BY <1>3, <1>4, <1>6
<1>8. used' \in 0 .. MaxTasks /\ used < used'
    BY <1>1, <1>2, <1>3
<1> QED BY <1>3, <1>5, <1>7, <1>8

\* Starting tasks is harmless to the multiplexer.
LEMMA StartTasksMux ==
    ASSUME ForwardInv, NEW q \in Queries, NEW us \in SUBSET Upstreams,
           us = Upstreams \/ \E u \in Upstreams : us = {u}, StartTasks(q, us)
    PROVE  MuxInv'
<1> DEFINE new == used + 1 .. used'
<1>1. /\ \A t \in Tasks : t \in new => pc'[t] = "alloc" /\ peer'[t] \in us
      /\ \A t \in Tasks : t \notin new => pc'[t] = pc[t] /\ peer'[t] = peer[t]
    BY StartTasksMeaning
<1>2. \A t \in Tasks : t \in new => pc[t] = "unused"
    BY DEF ForwardInv, ForwardTypes
<1>3. UNCHANGED <<qid, inbox, closed, pending, allocs, answers, reading>>
    BY DEF StartTasks
<1>4. \E f, g : pc' = [t \in Tasks |-> f[t]] /\ peer' = [t \in Tasks |-> g[t]]
    <2>1. /\ pc' = [t \in Tasks |-> pc'[t]]
          /\ peer' = [t \in Tasks |-> peer'[t]]
        BY DEF StartTasks
    <2> QED BY <2>1
<1> HIDE DEF new
<1> USE DEF ForwardInv, MuxInv
<1>5. MuxTypeOK'
    <2>1. pc' \in [Tasks -> Pcs] /\ peer' \in [Tasks -> Upstreams]
        BY <1>1, <1>4 DEF MuxTypeOK, Pcs
    <2> QED BY <1>3, <2>1 DEF MuxTypeOK, Tasks, Qids
<1>6. QidAssigned'
    BY <1>1, <1>2, <1>3 DEF QidAssigned, MuxTypeOK
<1>7. NoLeakedPending'
    BY <1>1, <1>2, <1>3 DEF NoLeakedPending, Guarded, MuxTypeOK
<1>8. FreshQids' /\ NoPollution'
    BY <1>3 DEF FreshQids, NoPollution
<1> QED BY <1>5, <1>6, <1>7, <1>8

\* The rest of the invariant when the tasks start.
LEMMA StartTasksTypes ==
    ASSUME ForwardInv, NEW q \in Queries, NEW us \in SUBSET Upstreams,
           us = Upstreams \/ \E u \in Upstreams : us = {u}, StartTasks(q, us),
           NEW p \in Phases, queryPc' = [queryPc EXCEPT ![q] = p],
           current' \in Upstreams, UNCHANGED <<attempts, tried, healthVars>>
    PROVE  ForwardTypes'
<1> DEFINE new == used + 1 .. used'
<1>1. /\ used' \in 0 .. MaxTasks /\ used < used'
      /\ \A t \in Tasks : t \notin new => pc'[t] = pc[t]
      /\ queryTasks' = [queryTasks EXCEPT ![q] = new]
    BY StartTasksMeaning
<1>2. used \in Nat /\ used' \in Nat
    BY <1>1 DEF ForwardInv, ForwardTypes
<1>3. ASSUME NEW t \in Tasks, t > used' PROVE pc'[t] = "unused"
    <2>1. t > used /\ t \notin new
        BY <1>1, <1>2, <1>3 DEF Tasks
    <2> QED BY <1>1, <2>1 DEF ForwardInv, ForwardTypes
<1>4. queryTasks' \in [Queries -> SUBSET (1 .. used')]
    <2>1. new \subseteq 1 .. used' /\ 1 .. used \subseteq 1 .. used'
        BY <1>1, <1>2
    <2> HIDE DEF new
    <2> QED BY <1>1, <2>1 DEF ForwardInv, ForwardTypes
<1>5. queryPc' \in [Queries -> Phases]
    BY DEF ForwardInv, ForwardTypes
<1> QED BY <1>1, <1>3, <1>4, <1>5 DEF ForwardInv, ForwardTypes, healthVars, Tasks, Upstreams

LEMMA StartTasksAverage ==
    ASSUME ForwardInv, NEW q \in Queries, NEW us \in SUBSET Upstreams,
           us = Upstreams \/ \E u \in Upstreams : us = {u}, StartTasks(q, us),
           UNCHANGED healthVars
    PROVE  AverageCover'
<1> DEFINE new == used + 1 .. used'
<1>1. /\ \A t \in Tasks : t \in new => pc'[t] = "alloc"
      /\ \A t \in Tasks : t \notin new => pc'[t] = pc[t] /\ peer'[t] = peer[t]
    BY StartTasksMeaning
<1>2. \A t \in Tasks : t \in new => pc[t] = "unused"
    BY DEF ForwardInv, ForwardTypes
<1> HIDE DEF new
<1>3. \A t \in Tasks : /\ pc'[t] = "counted" <=> pc[t] = "counted"
                       /\ pc[t] = "counted" => peer'[t] = peer[t]
    BY <1>1, <1>2
<1>4. UNCHANGED <<health, samples, seen>> /\ AverageCover
    BY DEF healthVars, ForwardInv
<1> QED BY <1>3, <1>4 DEF AverageCover, Tasks, Upstreams

LEMMA ExecuteConcurrentInv ==
    ASSUME ForwardInv, NEW q \in Queries, ExecuteConcurrent(q)
    PROVE  ForwardInv'
<1> DEFINE new == used + 1 .. used'
<1>0. StartTasks(q, Upstreams) /\ queryPc' = [queryPc EXCEPT ![q] = "race"]
      /\ UNCHANGED <<config, attempts, tried, healthVars>> /\ current' = current
    BY DEF ExecuteConcurrent
<1>1. MuxInv'
    BY <1>0, StartTasksMux
<1>2. ForwardTypes'
    BY <1>0, StartTasksTypes DEF Phases, ForwardInv, ForwardTypes
<1>3. RaceCover'
    <2>1. /\ \A u \in Upstreams : \E t \in new : peer'[t] = u
          /\ \A t \in Tasks : t \notin new => peer'[t] = peer[t]
          /\ queryTasks' = [queryTasks EXCEPT ![q] = new]
        BY <1>0, StartTasksMeaning
    <2>2. \A p \in Queries : \A t \in queryTasks[p] : t \in Tasks /\ t \notin new
        BY MuxAssumption DEF ForwardInv, ForwardTypes, Tasks
    <2> HIDE DEF new
    <2> SUFFICES ASSUME NEW p \in Queries
                 PROVE  /\ queryPc'[p] = "race" =>
                              \A u \in Upstreams \ tried'[p] :
                                  \E t \in queryTasks'[p] : peer'[t] = u
                        /\ config.concurrent /\ NUpstreams > 1 =>
                              (queryPc'[p] \in {"select", "attempt", "failed"} =>
                                  tried'[p] = Upstreams)
                        /\ NUpstreams = 1 =>
                              /\ attempts'[p] > 0 => tried'[p] = Upstreams
                              /\ queryPc'[p] = "failed" =>
                                    tried'[p] = Upstreams \/ MaxAttempts = 0
                        /\ queryPc'[p] = "race" => NUpstreams > 1
        BY <1>0 DEF RaceCover, Upstreams
    <2>3. CASE p = q
        BY <1>0, <2>1, <2>3
        DEF ExecuteConcurrent, ForwardInv, ForwardTypes, RaceCover
    <2>4. CASE p # q
        BY <1>0, <2>1, <2>2, <2>4 DEF ForwardInv, ForwardTypes, RaceCover
    <2> QED BY <2>3, <2>4
<1>4. AverageCover'
    BY <1>0, StartTasksAverage
<1> QED BY <1>1, <1>2, <1>3, <1>4 DEF ForwardInv

-----------------------------------------------------------------------------
(* The steps of a query *)

\* A step of a query leaves its tasks and the statistics alone.
LEMMA QueryStepRest ==
    ASSUME ForwardInv, UNCHANGED <<muxVars, healthVars>>
    PROVE  MuxInv' /\ AverageCover'
<1>1. MuxInv'
    BY DEF muxVars, ForwardInv, MuxInv, MuxTypeOK, QidAssigned, NoLeakedPending, Guarded,
           FreshQids, NoPollution
<1>2. AverageCover'
    BY DEF muxVars, healthVars, ForwardInv, AverageCover
<1> QED BY <1>1, <1>2

LEMMA ExecuteSequentialInv ==
    ASSUME ForwardInv, NEW q \in Queries, ExecuteSequential(q)
    PROVE  ForwardInv'
<1> USE DEF ExecuteSequential
<1>1. MuxInv' /\ AverageCover'
    BY QueryStepRest
<1>2. ForwardTypes'
    BY DEF ForwardInv, ForwardTypes, Phases, muxVars, healthVars
<1>3. RaceCover'
    BY MuxAssumption DEF ForwardInv, ForwardTypes, RaceCover, muxVars
<1> QED BY <1>1, <1>2, <1>3 DEF ForwardInv

LEMMA JoinWinnerInv ==
    ASSUME ForwardInv, NEW q \in Queries, NEW t, JoinWinner(q, t)
    PROVE  ForwardInv'
<1> USE DEF JoinWinner
<1>1. MuxInv' /\ AverageCover'
    BY QueryStepRest
<1>2. ForwardTypes'
    BY DEF ForwardInv, ForwardTypes, Phases, muxVars, healthVars
<1>3. RaceCover'
    BY DEF ForwardInv, ForwardTypes, RaceCover, muxVars
<1> QED BY <1>1, <1>2, <1>3 DEF ForwardInv

LEMMA TaskOfQuery ==
    ASSUME ForwardInv, NEW q \in Queries, NEW t \in queryTasks[q]
    PROVE  t \in Tasks /\ peer[t] \in Upstreams
<1>1. t \in Tasks
    BY MuxAssumption DEF ForwardInv, ForwardTypes, Tasks
<1> QED BY <1>1 DEF ForwardInv, MuxInv, MuxTypeOK

\* The last loser of a race was the last upstream not known to have failed.
LEMMA JoinLoserInv ==
    ASSUME ForwardInv, NEW q \in Queries, NEW t, JoinLoser(q, t)
    PROVE  ForwardInv'
<1> USE DEF JoinLoser
<1>1. MuxInv' /\ AverageCover'
    BY QueryStepRest
<1>t. t \in Tasks /\ peer[t] \in Upstreams
    BY TaskOfQuery
<1>2. ForwardTypes'
    BY <1>t DEF ForwardInv, ForwardTypes, Phases, muxVars, healthVars
<1>3. RaceCover'
    <2>1. /\ tried'[q] = tried[q] \cup {peer[t]} /\ tried[q] \subseteq Upstreams
          /\ queryTasks'[q] = queryTasks[q] \ {t}
          /\ \A u \in Upstreams \ tried[q] : \E s \in queryTasks[q] : peer[s] = u
        BY DEF ForwardInv, ForwardTypes, RaceCover
    <2>2. \A u \in Upstreams \ tried'[q] : \E s \in queryTasks'[q] : peer[s] = u
        BY <2>1
    <2>3. queryTasks[q] = {t} => tried'[q] = Upstreams
        BY <2>1, <1>t
    <2>4. queryPc'[q] = IF queryTasks[q] = {t} THEN "select" ELSE "race"
        BY DEF ForwardInv, ForwardTypes
    <2>5. \A p \in Queries \ {q} : UNCHANGED <<queryPc[p], queryTasks[p], tried[p]>>
        BY DEF ForwardInv, ForwardTypes
    <2>6. NUpstreams > 1
        BY DEF ForwardInv, RaceCover
    <2> QED BY <2>2, <2>3, <2>4, <2>5, <2>6, MuxAssumption
            DEF ForwardInv, RaceCover, muxVars
<1> QED BY <1>1, <1>2, <1>3 DEF ForwardInv

LEMMA AttemptInv ==
    ASSUME ForwardInv, NEW q \in Queries, NEW u \in Upstreams, Attempt(q, u)
    PROVE  ForwardInv'
<1> DEFINE new == used + 1 .. used'
<1>0. StartTasks(q, {u}) /\ queryPc' = [queryPc EXCEPT ![q] = "attempt"]
      /\ UNCHANGED <<config, attempts, tried, healthVars>>
    BY DEF Attempt
<1>1. MuxInv'
    BY <1>0, StartTasksMux
<1>2. ForwardTypes'
    <2>1. current' \in Upstreams
        <3>1. current \in Nat /\ NUpstreams \in Nat \ {0}
            BY MuxAssumption DEF ForwardInv, ForwardTypes, Upstreams
        <3> QED BY <3>1 DEF Attempt, Upstreams
    <2> QED BY <1>0, <2>1, StartTasksTypes DEF Phases
<1>3. RaceCover'
    <2>1. /\ \A t \in Tasks : t \notin new => peer'[t] = peer[t]
          /\ queryTasks' = [queryTasks EXCEPT ![q] = new]
        BY <1>0, StartTasksMeaning
    <2>2. \A p \in Queries : \A t \in queryTasks[p] : t \in Tasks /\ t \notin new
        BY MuxAssumption DEF ForwardInv, ForwardTypes, Tasks
    <2> HIDE DEF new
    <2>3. queryPc[q] = "select" /\ queryPc'[q] = "attempt"
        BY <1>0 DEF Attempt, ForwardInv, ForwardTypes
    <2>4. \A p \in Queries \ {q} :
              /\ queryPc'[p] = queryPc[p]
              /\ queryTasks'[p] = queryTasks[p]
              /\ \A t \in queryTasks[p] : peer'[t] = peer[t]
        BY <1>0, <2>1, <2>2 DEF ForwardInv, ForwardTypes
    <2> SUFFICES ASSUME NEW p \in Queries
                 PROVE  /\ queryPc'[p] = "race" =>
                              \A v \in Upstreams \ tried'[p] :
                                  \E t \in queryTasks'[p] : peer'[t] = v
                        /\ config.concurrent /\ NUpstreams > 1 =>
                              (queryPc'[p] \in {"select", "attempt", "failed"} =>
                                  tried'[p] = Upstreams)
                        /\ NUpstreams = 1 =>
                              /\ attempts'[p] > 0 => tried'[p] = Upstreams
                              /\ queryPc'[p] = "failed" =>
                                    tried'[p] = Upstreams \/ MaxAttempts = 0
                        /\ queryPc'[p] = "race" => NUpstreams > 1
        BY <1>0 DEF RaceCover, Upstreams
    <2>5. CASE p = q
        BY <1>0, <2>3, <2>5 DEF ForwardInv, RaceCover
    <2>6. CASE p # q
        BY <1>0, <2>4, <2>6 DEF ForwardInv, RaceCover
    <2> QED BY <2>5, <2>6
<1>4. AverageCover'
    BY <1>0, StartTasksAverage
<1> QED BY <1>1, <1>2, <1>3, <1>4 DEF ForwardInv

LEMMA AttemptAnsweredInv ==
    ASSUME ForwardInv, NEW q \in Queries, AttemptAnswered(q)
    PROVE  ForwardInv'
<1> USE DEF AttemptAnswered
<1>1. MuxInv' /\ AverageCover'
    BY QueryStepRest
<1>2. ForwardTypes'
    BY DEF ForwardInv, ForwardTypes, Phases, muxVars, healthVars
<1>3. RaceCover'
    BY DEF ForwardInv, ForwardTypes, RaceCover, muxVars
<1> QED BY <1>1, <1>2, <1>3 DEF ForwardInv

LEMMA AttemptFailedInv ==
    ASSUME ForwardInv, NEW q \in Queries, AttemptFailed(q)
    PROVE  ForwardInv'
<1>1. MuxInv' /\ AverageCover'
    BY QueryStepRest DEF AttemptFailed
<1> PICK t \in queryTasks[q] : tried' = [tried EXCEPT ![q] = @ \cup {peer[t]}]
    BY DEF AttemptFailed
<1>t. peer[t] \in Upstreams
    BY TaskOfQuery
<1>2. ForwardTypes'
    BY <1>t DEF AttemptFailed, ForwardInv, ForwardTypes, Phases, muxVars, healthVars
<1>3. RaceCover'
    <2>1. /\ tried'[q] = tried[q] \cup {peer[t]} /\ tried[q] \subseteq Upstreams
          /\ queryPc[q] = "attempt" /\ queryPc'[q] = "select"
        BY DEF AttemptFailed, ForwardInv, ForwardTypes
    <2>2. NUpstreams = 1 => tried'[q] = Upstreams
        BY <1>t, <2>1 DEF Upstreams
    <2>3. tried[q] = Upstreams => tried'[q] = Upstreams
        BY <1>t, <2>1
    <2>4. \A p \in Queries \ {q} :
              UNCHANGED <<queryPc[p], queryTasks[p], tried[p], attempts[p]>>
        BY DEF AttemptFailed, ForwardInv, ForwardTypes
    <2>5. UNCHANGED <<config, peer>>
        BY DEF AttemptFailed, muxVars
    <2> QED BY <2>1, <2>2, <2>3, <2>4, <2>5 DEF ForwardInv, RaceCover
<1> QED BY <1>1, <1>2, <1>3 DEF ForwardInv

LEMMA GiveUpInv ==
    ASSUME ForwardInv, NEW q \in Queries, GiveUp(q)
    PROVE  ForwardInv'
<1> USE DEF GiveUp
<1>1. MuxInv' /\ AverageCover'
    BY QueryStepRest
<1>2. ForwardTypes'
    BY DEF ForwardInv, ForwardTypes, Phases, muxVars, healthVars
<1>3. RaceCover'
    <2>1. NUpstreams = 1 => attempts[q] > 0 \/ MaxAttempts = 0
        BY ForwardAssumption DEF ForwardInv, ForwardTypes
    <2>2. queryPc[q] = "select" /\ queryPc'[q] = "failed"
        BY DEF ForwardInv, ForwardTypes
    <2>3. \A p \in Queries \ {q} : queryPc'[p] = queryPc[p]
        BY DEF ForwardInv, ForwardTypes
    <2> QED BY <2>1, <2>2, <2>3 DEF ForwardInv, RaceCover, muxVars
<1> QED BY <1>1, <1>2, <1>3 DEF ForwardInv

-----------------------------------------------------------------------------
(* The steps of a task *)

\* A step of a task that has started leaves the queries alone.
LEMMA TaskStepRest ==
    ASSUME ForwardInv, NEW t \in Tasks, pc[t] # "unused",
           \A s \in Tasks \ {t} : pc'[s] = pc[s],
           UNCHANGED <<config, peer, queryVars>>,
           health' \in [Upstreams -> Health], seen' \in [Tasks -> Nat],
           samples' \in [Upstreams -> SUBSET Latencies]
    PROVE  ForwardTypes' /\ RaceCover'
<1>1. t <= used
    BY DEF ForwardInv, ForwardTypes, Tasks
<1>2. ForwardTypes'
    BY <1>1 DEF ForwardInv, ForwardTypes, queryVars, Tasks, Upstreams
<1>3. RaceCover'
    BY DEF ForwardInv, RaceCover, queryVars, Upstreams
<1> QED BY <1>2, <1>3

\* Tasks of the multiplexer are not about to write an average.
LEMMA AverageKept ==
    ASSUME ForwardInv, UNCHANGED <<peer, healthVars>>,
           \A t \in Tasks : pc'[t] = "counted" <=> pc[t] = "counted"
    PROVE  AverageCover'
<1>1. UNCHANGED <<health, samples, seen>> /\ AverageCover
    BY DEF healthVars, ForwardInv
<1> QED BY <1>1 DEF AverageCover, Tasks, Upstreams

LEMMA AskUdpInv ==
    ASSUME ForwardInv, NEW t \in Tasks, AskUdp(t)
    PROVE  ForwardInv'
<1>0. Ask(t) /\ UNCHANGED <<config, queryVars, healthVars>>
    BY DEF AskUdp
<1>1. MuxInv'
    BY <1>0, AskInv DEF ForwardInv
<1>2. /\ pc[t] \in {"alloc", "insert", "send", "wait"}
      /\ pc'[t] \in {"alloc", "insert", "send", "wait", "ok", "err"}
      /\ \A s \in Tasks \ {t} : pc'[s] = pc[s]
      /\ peer' = peer
    BY <1>0 DEF Ask, Alloc, Insert, Send, SendFails, Received, Timeout,
                ForwardInv, MuxInv, MuxTypeOK
<1>3. ForwardTypes' /\ RaceCover'
    BY <1>0, <1>2, TaskStepRest DEF healthVars, ForwardInv, ForwardTypes
<1>4. AverageCover'
    BY <1>0, <1>2, AverageKept
<1> QED BY <1>1, <1>3, <1>4 DEF ForwardInv

LEMMA AbortForwardInv ==
    ASSUME ForwardInv, NEW t \in Tasks, Abort(t)
    PROVE  ForwardInv'
<1>0. AbortTask(t) /\ UNCHANGED <<config, queryVars, healthVars>>
    BY DEF Abort
<1>1. MuxInv'
    BY <1>0, AbortInv DEF ForwardInv
<1>2. /\ pc[t] \in {"alloc", "send", "wait"} /\ pc'[t] = "aborted"
      /\ \A s \in Tasks \ {t} : pc'[s] = pc[s]
      /\ peer' = peer
    BY <1>0 DEF AbortTask, ForwardInv, MuxInv, MuxTypeOK
<1>3. ForwardTypes' /\ RaceCover'
    BY <1>0, <1>2, TaskStepRest DEF healthVars, ForwardInv, ForwardTypes
<1>4. AverageCover'
    BY <1>0, <1>2, AverageKept
<1> QED BY <1>1, <1>3, <1>4 DEF ForwardInv

LEMMA DatagramsInv ==
    ASSUME ForwardInv, Datagrams
    PROVE  ForwardInv'
<1>0. Network /\ UNCHANGED <<config, queryVars, healthVars>>
    BY DEF Datagrams
<1>1. MuxInv'
    BY <1>0, NetworkInv DEF ForwardInv
<1>2. UNCHANGED <<pc, peer>>
    BY <1>0 DEF Network, Dispatch, UpstreamAnswers, LookupPeer
<1>3. ForwardTypes' /\ RaceCover'
    BY <1>0, <1>2 DEF ForwardInv, ForwardTypes, RaceCover, queryVars, healthVars
<1>4. AverageCover'
    BY <1>0, <1>2, AverageKept
<1> QED BY <1>1, <1>3, <1>4 DEF ForwardInv

\* A task outside the multiplexer moves on; a DoH answer is its own.
LEMMA OutsideMux ==
    ASSUME MuxInv, NEW t \in Tasks, pc[t] \in {"alloc", "ok", "err", "counted"},
           NEW p \in {"ok", "err", "counted", "recorded", "failed"},
           pc' = [pc EXCEPT ![t] = p],
           inbox' = inbox \/ inbox' = [inbox EXCEPT ![t] = t],
           UNCHANGED <<qid, peer, closed, pending, allocs, answers, reading>>
    PROVE  MuxInv'
<1> USE DEF MuxInv
<1>1. MuxTypeOK'
    BY DEF MuxTypeOK, Pcs
<1>2. QidAssigned'
    BY DEF MuxTypeOK, QidAssigned
<1>3. NoLeakedPending'
    BY DEF MuxTypeOK, NoLeakedPending, Guarded
<1>4. FreshQids'
    BY DEF FreshQids
<1>5. NoPollution'
    BY DEF MuxTypeOK, NoPollution
<1> QED BY <1>1, <1>2, <1>3, <1>4, <1>5

LEMMA AskDohInv ==
    ASSUME ForwardInv, NEW t \in Tasks, AskDoh(t)
    PROVE  ForwardInv'
<1>0. pc[t] = "alloc" /\ UNCHANGED <<config, peer, queryVars, healthVars>>
    BY DEF AskDoh
<1>1. MuxInv'
    BY OutsideMux DEF ForwardInv, AskDoh
<1>2. /\ pc'[t] \in {"ok", "err"}
      /\ \A s \in Tasks \ {t} : pc'[s] = pc[s]
    BY DEF AskDoh, ForwardInv, MuxInv, MuxTypeOK
<1>3. ForwardTypes' /\ RaceCover'
    BY <1>0, <1>2, TaskStepRest DEF healthVars, ForwardInv, ForwardTypes
<1>4. AverageCover'
    BY <1>0, <1>2, AverageKept
<1> QED BY <1>1, <1>3, <1>4 DEF ForwardInv

LEMMA RecordFailureInv ==
    ASSUME ForwardInv, NEW t \in Tasks, RecordFailure(t)
    PROVE  ForwardInv'
<1>0. /\ pc[t] = "err" /\ pc' = [pc EXCEPT ![t] = "failed"]
      /\ UNCHANGED <<config, peer, queryVars, seen, samples, inbox>>
      /\ UNCHANGED <<qid, closed, pending, allocs, answers, reading>>
    BY DEF RecordFailure
<1>1. MuxInv'
    BY <1>0, OutsideMux DEF ForwardInv
<1>2. \A s \in Tasks \ {t} : pc'[s] = pc[s]
    BY <1>0 DEF ForwardInv, MuxInv, MuxTypeOK
<1>p. peer[t] \in Upstreams
    BY DEF ForwardInv, MuxInv, MuxTypeOK
<1>h. /\ health' \in [Upstreams -> Health]
      /\ \A u \in Upstreams : /\ health'[u].successes = health[u].successes
                              /\ health'[u].avg = health[u].avg
    <2>1. health \in [Upstreams -> Health]
        BY DEF ForwardInv, ForwardTypes
    <2>2. CASE ~config.health
        BY <2>1, <2>2 DEF RecordFailure
    <2>3. CASE config.health
        <3>1. health' = [health EXCEPT ![peer[t]].queries = @ + 1, ![peer[t]].failures = @ + 1]
            BY <2>3 DEF RecordFailure
        <3> QED BY <1>p, <2>1, <3>1 DEF Health
    <2> QED BY <2>2, <2>3
<1>3. ForwardTypes' /\ RaceCover'
    BY <1>0, <1>2, <1>h, TaskStepRest DEF ForwardInv, ForwardTypes
<1>4. AverageCover'
    <2>1. \A s \in Tasks : pc'[s] = "counted" <=> pc[s] = "counted"
        BY <1>0, <1>2 DEF ForwardInv, MuxInv, MuxTypeOK
    <2>2. AverageCover
        BY DEF ForwardInv
    <2> QED BY <1>0, <1>h, <2>1, <2>2 DEF AverageCover, Tasks, Upstreams
<1> QED BY <1>1, <1>3, <1>4 DEF ForwardInv

LEMMA CountSuccessInv ==
    ASSUME ForwardInv, NEW t \in Tasks, CountSuccess(t)
    PROVE  ForwardInv'
<1> DEFINE u == peer[t]
<1>0. /\ pc[t] = "ok"
      /\ UNCHANGED <<config, peer, queryVars, samples, inbox>>
      /\ UNCHANGED <<qid, closed, pending, allocs, answers, reading>>
    BY DEF CountSuccess
<1>t. /\ health \in [Upstreams -> Health] /\ seen \in [Tasks -> Nat]
      /\ u \in Upstreams /\ pc \in [Tasks -> Pcs] /\ AverageCover
      /\ samples \in [Upstreams -> SUBSET Latencies]
    BY DEF ForwardInv, ForwardTypes, MuxInv, MuxTypeOK
<1>1. CASE config.health
    <2>1. /\ health' = [health EXCEPT ![u].queries = @ + 1, ![u].successes = @ + 1]
          /\ seen' = [seen EXCEPT ![t] = health[u].successes]
          /\ pc' = [pc EXCEPT ![t] = "counted"]
        BY <1>1 DEF CountSuccess
    <2>2. MuxInv'
        BY <1>0, <2>1, OutsideMux DEF ForwardInv
    <2>3. /\ health' \in [Upstreams -> Health]
          /\ \A v \in Upstreams : health'[v].avg = health[v].avg
          /\ \A v \in Upstreams \ {u} : health'[v] = health[v]
          /\ health[u].successes \in Nat
        BY <1>t, <2>1 DEF Health
    <2>4. /\ seen' \in [Tasks -> Nat] /\ seen'[t] = health[u].successes
          /\ \A s \in Tasks \ {t} : seen'[s] = seen[s] /\ pc'[s] = pc[s]
          /\ pc'[t] = "counted"
        BY <1>t, <2>1, <2>3
    <2>5. ForwardTypes' /\ RaceCover'
        BY <1>0, <1>t, <2>3, <2>4, TaskStepRest
    <2>6. AverageCover'
        <3> HIDE DEF u
        <3> SUFFICES ASSUME NEW v \in Upstreams
                     PROVE  \/ \E s \in Tasks : pc'[s] = "counted" /\ peer[s] = v /\ seen'[s] = 0
                            \/ /\ health'[v].successes = 0 /\ samples[v] = {}
                               /\ \A s \in Tasks : pc'[s] = "counted" => peer[s] # v
                            \/ \E lo, hi \in samples[v] :
                                    lo <= health'[v].avg /\ health'[v].avg <= hi
            BY <1>0 DEF AverageCover, Tasks, Upstreams
        <3>1. CASE \E s \in Tasks : pc[s] = "counted" /\ peer[s] = v /\ seen[s] = 0
            BY <1>0, <2>4, <3>1
        <3>2. CASE /\ health[v].successes = 0 /\ samples[v] = {}
                   /\ \A s \in Tasks : pc[s] = "counted" => peer[s] # v
            <4>1. CASE v = u
                BY <2>4, <3>2, <4>1 DEF u
            <4>2. CASE v # u
                BY <2>3, <2>4, <3>2, <4>2 DEF u
            <4> QED BY <4>1, <4>2
        <3>3. CASE \E lo, hi \in samples[v] : lo <= health[v].avg /\ health[v].avg <= hi
            BY <2>3, <3>3
        <3> QED BY <1>t, <3>1, <3>2, <3>3 DEF AverageCover
    <2> QED BY <2>2, <2>5, <2>6 DEF ForwardInv
<1>2. CASE ~config.health
    <2>1. pc' = [pc EXCEPT ![t] = "recorded"] /\ UNCHANGED <<health, seen>>
        BY <1>2 DEF CountSuccess
    <2>2. MuxInv'
        BY <1>0, <2>1, OutsideMux DEF ForwardInv
    <2>3. \A s \in Tasks \ {t} : pc'[s] = pc[s]
        BY <1>t, <2>1
    <2>4. ForwardTypes' /\ RaceCover'
        BY <1>0, <1>t, <2>1, <2>3, TaskStepRest
    <2>5. \A s \in Tasks : pc'[s] = "counted" <=> pc[s] = "counted"
        BY <1>0, <1>t, <2>1
    <2>6. AverageCover'
        BY <1>0, <2>1, <2>5, AverageKept DEF healthVars
    <2> QED BY <2>2, <2>4, <2>6 DEF ForwardInv
<1> QED BY <1>1, <1>2

-----------------------------------------------------------------------------
(* The running average *)

LEMMA ProductMonotone ==
    ASSUME NEW a \in Nat, NEW b \in Nat, NEW n \in Nat, a <= b
    PROVE  a * n <= b * n
BY SMT

LEMMA QuotientBounds ==
    ASSUME NEW x \in Nat, NEW d \in Nat \ {0}
    PROVE  /\ x \div d \in Nat
           /\ d * (x \div d) <= x
           /\ x < d * (x \div d) + d
BY SMT

LEMMA ProductCancels ==
    ASSUME NEW a \in Nat, NEW b \in Nat, NEW d \in Nat \ {0}, a * d < b * d + d
    PROVE  a <= b
<1>1. SUFFICES ASSUME b + 1 <= a PROVE FALSE
    OBVIOUS
<1>2. (b + 1) * d <= a * d
    BY <1>1, ProductMonotone
<1>3. (b + 1) * d = b * d + d
    BY SMT
<1>4. a * d \in Nat /\ b * d \in Nat
    BY SMT
<1> QED BY <1>2, <1>3, <1>4

\* The rounded mean of n times the old average and one new time lies between
\* bounds that hold for both (record_success, types.rs).
LEMMA NewAverageBetween ==
    ASSUME NEW old \in Nat, NEW n \in Nat, n # 0, NEW time \in Nat,
           NEW lo \in Nat, NEW hi \in Nat, lo <= old, old <= hi, lo <= time, time <= hi
    PROVE  lo <= NewAverage(old, n, time) /\ NewAverage(old, n, time) <= hi
<1> DEFINE x == old * n + time
           d == n + 1
           m == x \div d
<1>1. x \in Nat /\ d \in Nat \ {0} /\ old * n \in Nat
    BY SMT
<1>2. m \in Nat /\ d * m <= x /\ x < d * m + d
    <2> HIDE DEF x, d
    <2> QED BY <1>1, QuotientBounds
<1>3. lo * n <= old * n /\ old * n <= hi * n
    BY ProductMonotone
<1>4. lo * d = lo * n + lo /\ hi * d = hi * n + hi /\ lo * n \in Nat /\ hi * n \in Nat
    BY SMT
<1>5. lo * d <= x /\ x <= hi * d
    BY <1>1, <1>3, <1>4
<1>6. d * m = m * d /\ m * d \in Nat /\ lo * d \in Nat /\ hi * d \in Nat
    <2> HIDE DEF x, d, m
    <2> QED BY <1>1, <1>2, SMT
<1>7. NewAverage(old, n, time) = m
    BY DEF NewAverage
<1> HIDE DEF x, d, m
<1>8. lo * d < m * d + d /\ m * d < hi * d + d
    BY <1>1, <1>2, <1>5, <1>6
<1> QED BY <1>1, <1>2, <1>7, <1>8, ProductCancels

LEMMA NewAverageType ==
    ASSUME NEW old \in Nat, NEW n \in Nat, NEW time \in Nat
    PROVE  NewAverage(old, n, time) \in Nat
<1>1. old * n + time \in Nat /\ n + 1 \in Nat \ {0}
    BY SMT
<1>2. (old * n + time) \div (n + 1) \in Nat
    BY <1>1, QuotientBounds
<1> QED BY <1>2 DEF NewAverage

LEMMA UpdateAverageInv ==
    ASSUME ForwardInv, NEW t \in Tasks, NEW time \in Latencies, UpdateAverage(t, time)
    PROVE  ForwardInv'
<1> DEFINE u == peer[t]
           avg == NewAverage(health[u].avg, seen[t], time)
<1>0. /\ pc[t] = "counted" /\ pc' = [pc EXCEPT ![t] = "recorded"]
      /\ UNCHANGED <<config, peer, queryVars, seen, inbox>>
      /\ UNCHANGED <<qid, closed, pending, allocs, answers, reading>>
      /\ health' = [health EXCEPT ![u].avg = avg]
      /\ samples' = [samples EXCEPT ![u] = @ \cup {time}]
    BY DEF UpdateAverage
<1>t. /\ health \in [Upstreams -> Health] /\ seen \in [Tasks -> Nat]
      /\ u \in Upstreams /\ pc \in [Tasks -> Pcs] /\ AverageCover
      /\ samples \in [Upstreams -> SUBSET Latencies]
      /\ time \in Nat /\ health[u].avg \in Nat /\ Latencies \subseteq Nat
    BY ForwardAssumption DEF ForwardInv, ForwardTypes, MuxInv, MuxTypeOK, Health
<1>n. avg \in Nat
    BY <1>t, NewAverageType
<1>1. MuxInv'
    BY <1>0, OutsideMux DEF ForwardInv
<1> HIDE DEF avg
<1>2. /\ health' \in [Upstreams -> Health] /\ health'[u].avg = avg
      /\ \A v \in Upstreams \ {u} : health'[v] = health[v]
    BY <1>0, <1>t, <1>n DEF Health
<1>3. /\ samples' \in [Upstreams -> SUBSET Latencies]
      /\ samples'[u] = samples[u] \cup {time}
      /\ \A v \in Upstreams \ {u} : samples'[v] = samples[v]
    BY <1>0, <1>t
<1>4. pc'[t] = "recorded" /\ \A s \in Tasks \ {t} : pc'[s] = pc[s]
    BY <1>0, <1>t
<1>5. ForwardTypes' /\ RaceCover'
    BY <1>0, <1>t, <1>2, <1>3, <1>4, TaskStepRest
<1>6. AverageCover'
    <2> SUFFICES ASSUME NEW v \in Upstreams
                 PROVE  \/ \E s \in Tasks : pc'[s] = "counted" /\ peer[s] = v /\ seen[s] = 0
                        \/ /\ health'[v].successes = 0 /\ samples'[v] = {}
                           /\ \A s \in Tasks : pc'[s] = "counted" => peer[s] # v
                        \/ \E lo, hi \in samples'[v] :
                                lo <= health'[v].avg /\ health'[v].avg <= hi
        BY <1>0 DEF AverageCover, Tasks, Upstreams
    <2>1. CASE v # u
        <3>1. \A s \in Tasks : peer[s] = v => pc'[s] = pc[s]
            BY <1>4, <2>1
        <3> QED BY <1>2, <1>3, <1>t, <2>1, <3>1 DEF AverageCover
    <2>2. CASE v = u /\ seen[t] = 0
        <3>1. avg = time /\ time \in samples'[v]
            BY <1>3, <2>2 DEF avg, NewAverage
        <3> QED BY <1>2, <1>t, <2>2, <3>1
    <2>3. CASE v = u /\ seen[t] # 0
        <3>1. CASE \E s \in Tasks : pc[s] = "counted" /\ peer[s] = v /\ seen[s] = 0
            BY <1>4, <2>3, <3>1
        <3>2. CASE \E lo, hi \in samples[v] : lo <= health[v].avg /\ health[v].avg <= hi
            <4> PICK lo \in samples[v], hi \in samples[v] :
                        lo <= health[v].avg /\ health[v].avg <= hi
                BY <3>2
            <4> DEFINE a == IF lo <= time THEN lo ELSE time
                       b == IF time <= hi THEN hi ELSE time
            <4>1. lo \in Nat /\ hi \in Nat
                BY <1>t
            <4>2. /\ a \in Nat /\ b \in Nat /\ a <= time /\ time <= b
                  /\ a <= health[v].avg /\ health[v].avg <= b
                BY <1>t, <2>3, <4>1
            <4>3. a \in samples'[v] /\ b \in samples'[v]
                BY <1>3, <2>3
            <4> HIDE DEF a, b
            <4>4. a <= avg /\ avg <= b
                BY <1>t, <2>3, <4>2, NewAverageBetween DEF avg
            <4> QED BY <1>2, <2>3, <4>3, <4>4
        <3> QED BY <1>0, <1>t, <2>3, <3>1, <3>2 DEF AverageCover
    <2> QED BY <2>1, <2>2, <2>3
<1> QED BY <1>1, <1>5, <1>6 DEF ForwardInv

-----------------------------------------------------------------------------
(* The theorems *)

LEMMA ForwardInitInv == Init => ForwardInv
<1> SUFFICES ASSUME Init PROVE ForwardInv
    OBVIOUS
<1>1. MuxInv
    BY MuxInitInv DEF Init
<1>2. ForwardTypes
    BY MuxAssumption DEF Init, MuxInit, ForwardTypes, Phases, Health, Upstreams, Tasks
<1>3. RaceCover
    <2>1. \A q \in Queries : queryPc[q] = "idle" /\ attempts[q] = 0
        BY DEF Init
    <2> QED BY <2>1 DEF RaceCover
<1>4. AverageCover
    <2>1. \A u \in Upstreams : health[u].successes = 0 /\ samples[u] = {}
        BY DEF Init
    <2>2. \A t \in Tasks : pc[t] = "unused"
        BY DEF Init, MuxInit
    <2> QED BY <2>1, <2>2 DEF AverageCover
<1> QED BY <1>1, <1>2, <1>3, <1>4 DEF ForwardInv

LEMMA ForwardNextInv == ForwardInv /\ [Next]_vars => ForwardInv'
<1> SUFFICES ASSUME ForwardInv, [Next]_vars PROVE ForwardInv'
    OBVIOUS
<1>1. CASE UNCHANGED vars
    <2>1. UNCHANGED <<muxVars, healthVars, queryVars, config>>
        BY <1>1 DEF vars
    <2>2. MuxInv' /\ AverageCover'
        BY <2>1, QueryStepRest
    <2>3. ForwardTypes' /\ RaceCover'
        BY <2>1 DEF ForwardInv, ForwardTypes, RaceCover, queryVars, healthVars, muxVars
    <2> QED BY <2>2, <2>3 DEF ForwardInv
<1>2. ASSUME NEW q \in Queries, QueryStep(q) PROVE ForwardInv'
    BY <1>2, JoinWinnerInv, JoinLoserInv, AttemptInv, AttemptAnsweredInv, AttemptFailedInv,
       GiveUpInv DEF QueryStep
<1>3. ASSUME NEW t \in Tasks, TaskStep(t) PROVE ForwardInv'
    BY <1>3, AskUdpInv, AskDohInv, CountSuccessInv, RecordFailureInv, UpdateAverageInv
    DEF TaskStep
<1> QED BY <1>1, <1>2, <1>3, ExecuteConcurrentInv, ExecuteSequentialInv, AbortForwardInv,
           DatagramsInv DEF Next

LEMMA ForwardInvariant == Spec => []ForwardInv
BY ForwardInitInv, ForwardNextInv, PTL DEF Spec

\* max_attempts = 0 is accepted by the builder; with one upstream it leaves a
\* query nothing to try.
TriesSomething == MaxAttempts > 0 \/ NUpstreams > 1

\* "Race all upstreams concurrently, return the first success" (mod.rs:125):
\* with any number of upstreams and of queries racing them, a query fails only
\* after every upstream has failed it.
THEOREM RaceTriesEveryUpstream == TriesSomething /\ Spec => []RaceTriesAll
<1> DEFINE I == TriesSomething /\ ForwardInv
<1>1. I => RaceTriesAll
    <2> SUFFICES ASSUME I, NEW q \in Queries, config.concurrent, queryPc[q] = "failed"
                 PROVE  tried[q] = Upstreams
        BY DEF RaceTriesAll
    <2>1. NUpstreams \in Nat \ {0} /\ MaxAttempts \in Nat
        BY MuxAssumption, ForwardAssumption
    <2>2. CASE NUpstreams > 1
        BY <2>2 DEF ForwardInv, RaceCover
    <2>3. CASE ~(NUpstreams > 1)
        <3>1. NUpstreams = 1 /\ MaxAttempts # 0
            BY <2>1, <2>3 DEF TriesSomething
        <3> QED BY <3>1 DEF ForwardInv, RaceCover
    <2> QED BY <2>2, <2>3
<1>2. TriesSomething /\ Spec => []I
    <2>1. I /\ [Next]_vars => I'
        BY ForwardNextInv DEF TriesSomething
    <2>2. TriesSomething /\ Init => I
        BY ForwardInitInv
    <2> HIDE DEF I
    <2> QED BY <2>1, <2>2, PTL DEF Spec
<1> HIDE DEF I
<1> QED BY <1>1, <1>2, PTL

\* Whatever the order in which concurrent successes count themselves and write
\* the average, once no write is under way the average lies between the
\* shortest and the longest response time (record_success, types.rs).
THEOREM AverageStaysInRange == Spec => []AverageInRange
<1>1. ForwardInv => AverageInRange
    BY DEF ForwardInv, AverageCover, AverageInRange
<1> QED BY <1>1, ForwardInvariant, PTL

\* The multiplexer's guarantees hold under this caller, which starts several
\* tasks at once, aborts the losers of a race and mixes in DoH upstreams.
THEOREM ForwardNoPollution == Spec => [](NoPollution /\ NoLeakedPending)
<1>1. ForwardInv => NoPollution /\ NoLeakedPending
    BY DEF ForwardInv, MuxInv
<1> QED BY <1>1, ForwardInvariant, PTL
=============================================================================
