---------------------------- MODULE UdpMuxProofs ----------------------------
(***************************************************************************)
(* Proofs about the UDP multiplexer, for any number of tasks, query ids    *)
(* and upstreams.  An entry of pending names a task that holds a guard and *)
(* has that query id; that is what lets a guard remove by id alone.        *)
(* Before the counter comes round, query ids are also pairwise different,  *)
(* and an answer can only reach the task that asked.                       *)
(***************************************************************************)
EXTENDS UdpMux, TLAPS

\* Whether a task has a query id, by its place in the call.
QidAssigned ==
    /\ \A t \in Tasks : pc[t] \in {"unused", "alloc"} => qid[t] = 0
    /\ \A t \in Tasks : pc[t] \in {"insert", "send", "wait"} => qid[t] # 0

\* Before the counter comes round the ids are drawn once each.
FreshQids ==
    allocs < QidSpace =>
        /\ \A t \in Tasks : qid[t] <= allocs
        /\ \A s, t \in Tasks : s # t /\ qid[s] # 0 => qid[s] # qid[t]

\* The inductive invariant.
MuxInv == MuxTypeOK /\ QidAssigned /\ NoLeakedPending /\ FreshQids /\ NoPollution

LEMMA ModSmall ==
    ASSUME NEW n \in Nat, NEW m \in Nat, n < m
    PROVE  n % m = n
BY SMT

LEMMA NextQidType == MuxTypeOK => next_qid \in Qids
BY MuxAssumption DEF MuxTypeOK, next_qid, Qids

LEMMA MuxInitInv == MuxInit => MuxInv
<1> SUFFICES ASSUME MuxInit PROVE MuxInv
    OBVIOUS
<1>1. MuxTypeOK
    BY MuxAssumption DEF MuxInit, MuxTypeOK, Tasks, Qids, Upstreams, Pcs
<1>2. QidAssigned /\ NoLeakedPending /\ FreshQids /\ NoPollution
    BY <1>1 DEF MuxInit, QidAssigned, NoLeakedPending, FreshQids, NoPollution
<1> QED
    BY <1>1, <1>2 DEF MuxInv

\* With the ids of the invariant, what is entered under a task's id before the
\* counter comes round is that task.
LEMMA EntryIsOwn ==
    ASSUME MuxInv, allocs < QidSpace, NEW t \in Tasks, qid[t] # 0
    PROVE  pending[qid[t]] \in {0, t}
<1> SUFFICES ASSUME pending[qid[t]] # 0
             PROVE  pending[qid[t]] = t
    OBVIOUS
<1>1. pending[qid[t]] \in Tasks /\ qid[t] \in Qids
    BY DEF MuxInv, MuxTypeOK
<1>2. qid[pending[qid[t]]] = qid[t]
    BY <1>1 DEF MuxInv, NoLeakedPending
<1> QED
    BY <1>1, <1>2 DEF MuxInv, FreshQids

LEMMA StartInv ==
    ASSUME MuxInv, NEW t \in Tasks, NEW u \in Upstreams, Start(t, u)
    PROVE  MuxInv'
<1> USE DEF MuxInv, Start
<1>1. MuxTypeOK'
    BY DEF MuxTypeOK, Pcs
<1>2. QidAssigned'
    BY DEF MuxTypeOK, QidAssigned
<1>3. NoLeakedPending'
    BY DEF MuxTypeOK, NoLeakedPending, Guarded
<1>4. FreshQids' /\ NoPollution'
    BY DEF FreshQids, NoPollution
<1> QED
    BY <1>1, <1>2, <1>3, <1>4

LEMMA AllocInv ==
    ASSUME MuxInv, NEW t \in Tasks, Alloc(t)
    PROVE  MuxInv'
<1> USE DEF MuxInv, Alloc
<1>q. next_qid \in Qids
    BY NextQidType
<1>1. MuxTypeOK'
    BY <1>q DEF MuxTypeOK, Pcs
<1>2. QidAssigned'
    BY <1>q DEF MuxTypeOK, QidAssigned
<1>3. NoLeakedPending'
    <2> SUFFICES ASSUME NEW i \in Qids, pending[i] # 0
                 PROVE  (Guarded(pending[i]) /\ qid[pending[i]] = i)'
        BY DEF NoLeakedPending
    <2>1. pending[i] # t
        BY DEF NoLeakedPending, Guarded
    <2> QED
        BY <2>1 DEF NoLeakedPending, Guarded, MuxTypeOK
<1>4. FreshQids'
    <2> SUFFICES ASSUME allocs + 1 < QidSpace
                 PROVE  /\ \A r \in Tasks : qid'[r] <= allocs + 1
                        /\ \A r, s \in Tasks : r # s /\ qid'[r] # 0 => qid'[r] # qid'[s]
        BY DEF FreshQids
    <2>1. next_qid = allocs + 1
        BY ModSmall, MuxAssumption DEF next_qid, MuxTypeOK
    <2>2. \A r \in Tasks : qid[r] <= allocs /\ qid[r] \in Nat
        BY MuxAssumption DEF FreshQids, MuxTypeOK, Qids
    <2>3. \A r, s \in Tasks : r # s /\ qid[r] # 0 => qid[r] # qid[s]
        BY MuxAssumption DEF FreshQids, MuxTypeOK
    <2>4. CASE qid' = qid
        BY <2>2, <2>3, <2>4 DEF MuxTypeOK
    <2>5. CASE qid' = [qid EXCEPT ![t] = next_qid]
        BY <2>1, <2>2, <2>3, <2>5 DEF MuxTypeOK
    <2> QED
        BY <2>4, <2>5
<1>5. NoPollution'
    BY MuxAssumption DEF NoPollution, MuxTypeOK
<1> QED
    BY <1>1, <1>2, <1>3, <1>4, <1>5

LEMMA InsertInv ==
    ASSUME MuxInv, NEW t \in Tasks, Insert(t)
    PROVE  MuxInv'
<1> USE DEF MuxInv, Insert, DropEntry
<1>1. MuxTypeOK'
    BY DEF MuxTypeOK, Pcs
<1>2. QidAssigned'
    BY DEF MuxTypeOK, QidAssigned
<1>3. NoLeakedPending'
    BY DEF MuxTypeOK, NoLeakedPending, Guarded
<1>4. FreshQids'
    BY DEF FreshQids
<1>5. NoPollution'
    BY EntryIsOwn DEF NoPollution, QidAssigned
<1> QED
    BY <1>1, <1>2, <1>3, <1>4, <1>5

LEMMA SendInv ==
    ASSUME MuxInv, NEW t \in Tasks, Send(t)
    PROVE  MuxInv'
<1> USE DEF MuxInv, Send
<1>1. MuxTypeOK'
    BY DEF MuxTypeOK, Pcs
<1>2. QidAssigned'
    BY DEF MuxTypeOK, QidAssigned
<1>3. NoLeakedPending'
    BY DEF MuxTypeOK, NoLeakedPending, Guarded
<1>4. FreshQids' /\ NoPollution'
    BY DEF FreshQids, NoPollution
<1> QED
    BY <1>1, <1>2, <1>3, <1>4

\* A guarded task leaves and its guard is dropped.
LEMMA LeaveInv ==
    ASSUME MuxInv, NEW t \in Tasks, Guarded(t), DropGuard(t),
           NEW p \in {"ok", "err", "aborted"}, pc' = [pc EXCEPT ![t] = p],
           UNCHANGED <<qid, peer, inbox, allocs, answers, reading>>
    PROVE  MuxInv'
<1> USE DEF MuxInv, DropGuard, DropEntry
<1>q. qid[t] # 0 /\ qid[t] \in Qids
    BY DEF QidAssigned, Guarded, MuxTypeOK
<1>1. MuxTypeOK'
    BY <1>q DEF MuxTypeOK, Pcs
<1>2. QidAssigned'
    BY DEF MuxTypeOK, QidAssigned
<1>3. NoLeakedPending'
    BY <1>q DEF MuxTypeOK, NoLeakedPending, Guarded
<1>4. FreshQids'
    BY DEF FreshQids
<1>5. NoPollution'
    BY <1>q, EntryIsOwn DEF NoPollution
<1> QED
    BY <1>1, <1>2, <1>3, <1>4, <1>5

LEMMA AbortInv ==
    ASSUME MuxInv, NEW t \in Tasks, AbortTask(t)
    PROVE  MuxInv'
<1>1. CASE Guarded(t)
    BY <1>1, LeaveInv DEF AbortTask
<1>2. CASE ~Guarded(t)
    <2> USE DEF MuxInv, AbortTask
    <2>1. MuxTypeOK'
        BY <1>2 DEF MuxTypeOK, Pcs
    <2>2. QidAssigned'
        BY <1>2 DEF MuxTypeOK, QidAssigned
    <2>3. NoLeakedPending'
        BY <1>2 DEF MuxTypeOK, NoLeakedPending, Guarded
    <2>4. FreshQids' /\ NoPollution'
        BY <1>2 DEF FreshQids, NoPollution
    <2> QED
        BY <2>1, <2>2, <2>3, <2>4
<1> QED
    BY <1>1, <1>2

LEMMA AskInv ==
    ASSUME MuxInv, NEW t \in Tasks, Ask(t)
    PROVE  MuxInv'
<1>1. CASE SendFails(t)
    BY <1>1, LeaveInv DEF SendFails, Guarded
<1>2. CASE Received(t)
    BY <1>2, LeaveInv DEF Received, Guarded
<1>3. CASE Timeout(t)
    BY <1>3, LeaveInv DEF Timeout, Guarded
<1> QED
    BY <1>1, <1>2, <1>3, AllocInv, InsertInv, SendInv DEF Ask

LEMMA NetworkInv ==
    ASSUME MuxInv, Network
    PROVE  MuxInv'
<1> USE DEF MuxInv
<1>1. ASSUME NEW t \in Tasks, UpstreamAnswers(t) \/ LookupPeer(t)
      PROVE  MuxInv'
    BY <1>1 DEF UpstreamAnswers, LookupPeer, MuxTypeOK, QidAssigned, NoLeakedPending,
                Guarded, FreshQids, NoPollution
<1>2. ASSUME Dispatch PROVE MuxInv'
    <2> USE <1>2 DEF Dispatch
    <2>t. reading \in Tasks /\ qid[reading] \in Qids /\ pending[qid[reading]] \in Tasks \cup {0}
        BY DEF MuxTypeOK
    <2>1. MuxTypeOK'
        BY <2>t DEF MuxTypeOK
    <2>2. QidAssigned'
        BY DEF QidAssigned
    <2>3. NoLeakedPending'
        BY <2>t DEF MuxTypeOK, NoLeakedPending, Guarded
    <2>4. FreshQids'
        BY DEF FreshQids
    <2>5. NoPollution'
        <3> SUFFICES ASSUME allocs < QidSpace, pending[qid[reading]] # 0
                     PROVE  pending[qid[reading]] = reading
            BY <2>t DEF NoPollution, MuxTypeOK
        <3>1. qid[pending[qid[reading]]] = qid[reading] /\ Guarded(pending[qid[reading]])
            BY <2>t DEF NoLeakedPending
        <3>2. qid[reading] # 0
            BY <2>t, <3>1 DEF QidAssigned, Guarded
        <3> QED
            BY <2>t, <3>2, EntryIsOwn
    <2> QED
        BY <2>1, <2>2, <2>3, <2>4, <2>5
<1> QED
    BY <1>1, <1>2 DEF Network

LEMMA MuxNextInv == MuxInv /\ [MuxNext]_muxVars => MuxInv'
<1> SUFFICES ASSUME MuxInv, [MuxNext]_muxVars PROVE MuxInv'
    OBVIOUS
<1>1. CASE UNCHANGED muxVars
    BY <1>1 DEF muxVars, MuxInv, MuxTypeOK, QidAssigned, NoLeakedPending, Guarded,
                FreshQids, NoPollution
<1> QED
    BY <1>1, StartInv, AskInv, AbortInv, NetworkInv DEF MuxNext

\* As long as fewer ids were drawn than there are, a task only gets the answer
\* to its own question, with any number of concurrent tasks, whatever the
\* network delays or repeats (engine.rs:141).
THEOREM MuxNoPollution == MuxSpec => []NoPollution
<1>1. MuxSpec => []MuxInv
    BY MuxInitInv, MuxNextInv, PTL DEF MuxSpec
<1> QED BY <1>1, PTL DEF MuxInv

\* No entry of pending outlives its task, through timeout, abort and wrap of
\* the counter: the allocator never meets an id that nobody will free
\* (engine.rs:310-312).
THEOREM MuxNoLeak == MuxSpec => []NoLeakedPending
<1>1. MuxSpec => []MuxInv
    BY MuxInitInv, MuxNextInv, PTL DEF MuxSpec
<1> QED BY <1>1, PTL DEF MuxInv
=============================================================================
