---------------------- MODULE RefreshCoordinatorProofs ----------------------
(***************************************************************************)
(* Proofs about the refresh coordinator for any sets of keys, callers and  *)
(* workers and any queue capacity.  CoordInv is inductive; there is one    *)
(* lemma per action, so that CacheRefreshProofs can cite them for the      *)
(* composed system.                                                        *)
(***************************************************************************)
EXTENDS RefreshCoordinator, SequenceTheorems, FiniteSetTheorems, TLAPS

CoordInv == CoordTypeOK /\ OneOwner

\* What appending to, and taking from, the channel does to its places.
LEMMA AppendPlaces ==
    ASSUME NEW S, NEW s \in Seq(S), NEW e \in S
    PROVE  /\ Append(s, e) \in Seq(S)
           /\ Len(Append(s, e)) = Len(s) + 1
           /\ \A i \in 1 .. Len(Append(s, e)) :
                 \/ i \in 1 .. Len(s) /\ Append(s, e)[i] = s[i]
                 \/ i = Len(s) + 1 /\ Append(s, e)[i] = e
BY AppendProperties

LEMMA TailPlaces ==
    ASSUME NEW S, NEW s \in Seq(S), s # <<>>
    PROVE  /\ Head(s) \in S
           /\ Head(s) = s[1]
           /\ 1 \in 1 .. Len(s)
           /\ Tail(s) \in Seq(S)
           /\ Len(Tail(s)) = Len(s) - 1
           /\ \A i \in 1 .. Len(Tail(s)) :
                 i + 1 \in 1 .. Len(s) /\ i + 1 # 1 /\ Tail(s)[i] = s[i + 1]
BY HeadTailProperties

\* The initial state satisfies the invariant.
LEMMA CoordInitInv == CoordInit => CoordInv
<1> SUFFICES ASSUME CoordInit PROVE CoordInv
    OBVIOUS
<1> PICK pc \in {"recv", "exited"} : workerPc = [w \in Workers |-> pc]
    BY DEF CoordInit
<1>1. CoordTypeOK
    BY MaxCallsAssumption
    DEF CoordInit, CoordTypeOK, CallerPcs, WorkerPcs, StatNames
<1>2. OneOwner
    BY DEF CoordInit, OneOwner, CallerHolds, WorkerHolds
<1> QED
    BY <1>1, <1>2 DEF CoordInv

LEMMA BumpType ==
    ASSUME NEW s \in [StatNames -> Nat], NEW n \in StatNames
    PROVE  Bump(s, n) \in [StatNames -> Nat]
BY DEF Bump

LEMMA InsertProcessingInv ==
    ASSUME CoordInv, NEW c \in Callers, InsertProcessing(c)
    PROVE  CoordInv'
<1> USE DEF CoordInv, InsertProcessing
<1>1. callerKey[c] \in Keys
    BY DEF CoordTypeOK
<1>2. CASE callerKey[c] \in processing
    <2>1. CoordTypeOK'
        BY <1>2, BumpType, ZenonT(40) DEF CoordTypeOK, CallerPcs, StatNames
    <2>2. OneOwner'
        BY <1>2 DEF OneOwner, CallerHolds, WorkerHolds, CoordTypeOK
    <2> QED BY <2>1, <2>2
<1>3. CASE callerKey[c] \notin processing
    <2>1. CoordTypeOK'
        BY <1>1, <1>3 DEF CoordTypeOK, CallerPcs
    <2>2. OneOwner'
        BY <1>3 DEF OneOwner, CallerHolds, WorkerHolds, CoordTypeOK
    <2> QED BY <2>1, <2>2
<1> QED BY <1>2, <1>3

LEMMA TrySendInv ==
    ASSUME CoordInv, NEW c \in Callers, TrySend(c)
    PROVE  CoordInv'
<1> USE DEF CoordInv, TrySend
<1>1. callerKey[c] \in Keys /\ CallerHolds(c)
    BY DEF CoordTypeOK, CallerHolds
<1>2. CASE /\ queue' = Append(queue, callerKey[c])
           /\ callerPc' = [callerPc EXCEPT ![c] = "record"]
    <2>1. CoordTypeOK'
        BY <1>1, <1>2 DEF CoordTypeOK, CallerPcs
    <2> DEFINE old(i) == i \in 1 .. Len(queue) /\ queue'[i] = queue[i]
               new(i) == i = Len(queue) + 1 /\ queue'[i] = callerKey[c]
    <2>2. \A i \in 1 .. Len(queue') : old(i) \/ new(i)
        BY <1>1, <1>2, AppendPlaces DEF CoordTypeOK
    <2>3. /\ \A d \in Callers : CallerHolds(d)' => d # c /\ CallerHolds(d)
          /\ \A w \in Workers : WorkerHolds(w)' <=> WorkerHolds(w)
          /\ ~CallerHolds(c)'
        BY <1>2 DEF CallerHolds, WorkerHolds, CoordTypeOK
    <2> HIDE DEF old, new
    <2>4. OneOwner'
        BY <1>1, <1>2, <2>2, <2>3 DEF OneOwner, CoordTypeOK, old, new
    <2> QED BY <2>1, <2>4
<1>3. CASE queue' = queue /\ callerPc' \in {[callerPc EXCEPT ![c] = "undo"],
                                     [callerPc EXCEPT ![c] = "undoClosed"]}
    <2>1. CoordTypeOK'
        BY <1>1, <1>3 DEF CoordTypeOK, CallerPcs
    <2>2. OneOwner'
        BY <1>1, <1>3 DEF OneOwner, CallerHolds, WorkerHolds, CoordTypeOK
    <2> QED BY <2>1, <2>2
<1> QED BY <1>2, <1>3

LEMMA RecordEnqueuedInv ==
    ASSUME CoordInv, NEW c \in Callers, RecordEnqueued(c)
    PROVE  CoordInv'
<1> USE DEF CoordInv, RecordEnqueued, ReturnToIdle
<1>1. CoordTypeOK'
    BY BumpType DEF CoordTypeOK, CallerPcs, StatNames
<1>2. OneOwner'
    BY DEF OneOwner, CallerHolds, WorkerHolds, CoordTypeOK
<1> QED BY <1>1, <1>2

LEMMA UndoInv ==
    ASSUME CoordInv, NEW c \in Callers, UndoFull(c) \/ UndoClosed(c)
    PROVE  CoordInv'
<1> USE DEF CoordInv, UndoFull, UndoClosed
<1>1. CallerHolds(c)
    BY DEF CallerHolds
<1>2. CoordTypeOK'
    <2>1. stats' \in [StatNames -> Nat]
        BY BumpType DEF CoordTypeOK, StatNames
    <2> QED BY <2>1 DEF CoordTypeOK, CallerPcs
<1>3. OneOwner'
    BY <1>1 DEF OneOwner, CallerHolds, WorkerHolds, CoordTypeOK
<1> QED BY <1>2, <1>3

LEMMA RecvInv ==
    ASSUME CoordInv, NEW w \in Workers, Recv(w)
    PROVE  CoordInv'
<1> USE DEF CoordInv, Recv
<1> DEFINE h == Head(queue)
<1>1. /\ h \in Keys /\ h = queue[1] /\ 1 \in 1 .. Len(queue)
      /\ queue' \in Seq(Keys)
      /\ \A i \in 1 .. Len(queue') :
            i + 1 \in 1 .. Len(queue) /\ i + 1 # 1 /\ queue'[i] = queue[i + 1]
    BY TailPlaces DEF CoordTypeOK
<1>2. workerKey' = [workerKey EXCEPT ![w] = h]
    OBVIOUS
<1>3. CoordTypeOK'
    BY <1>1, <1>2 DEF CoordTypeOK, WorkerPcs
<1>4. /\ \A v \in Workers : WorkerHolds(v)' =>
            \/ v = w /\ workerKey'[v] = h
            \/ v # w /\ WorkerHolds(v) /\ workerKey'[v] = workerKey[v]
      /\ \A c \in Callers : CallerHolds(c)' <=> CallerHolds(c)
    BY <1>2 DEF WorkerHolds, CallerHolds, CoordTypeOK
<1> HIDE DEF h
<1>5. \A i \in 1 .. Len(queue') : queue'[i] # h
    <2> TAKE i \in 1 .. Len(queue')
    <2>1. queue[i + 1] # queue[1]
        BY <1>1 DEF OneOwner
    <2> QED BY <1>1, <2>1
<1>6. OneOwner'
    <2>1. \A c \in Callers : CallerHolds(c)' =>
            /\ callerKey'[c] \in processing'
            /\ \A d \in Callers \ {c} : CallerHolds(d)' => callerKey'[d] # callerKey'[c]
            /\ \A i \in 1 .. Len(queue') : queue'[i] # callerKey'[c]
            /\ \A v \in Workers : WorkerHolds(v)' => workerKey'[v] # callerKey'[c]
        BY <1>1, <1>4 DEF OneOwner
    <2>2. \A i \in 1 .. Len(queue') :
            /\ queue'[i] \in processing'
            /\ \A j \in 1 .. Len(queue') : i # j => queue'[i] # queue'[j]
            /\ \A v \in Workers : WorkerHolds(v)' => workerKey'[v] # queue'[i]
        <3> TAKE i \in 1 .. Len(queue')
        <3>1. queue'[i] \in processing'
            BY <1>1 DEF OneOwner
        <3>2. \A j \in 1 .. Len(queue') : i # j => queue'[i] # queue'[j]
            BY <1>1 DEF OneOwner
        <3>3. \A v \in Workers : WorkerHolds(v)' => workerKey'[v] # queue'[i]
            BY <1>1, <1>4, <1>5 DEF OneOwner
        <3> QED BY <3>1, <3>2, <3>3
    <2>3. \A v \in Workers : WorkerHolds(v)' =>
            /\ workerKey'[v] \in processing'
            /\ \A u \in Workers \ {v} : WorkerHolds(u)' => workerKey'[u] # workerKey'[v]
        BY <1>1, <1>4 DEF OneOwner
    <2> QED BY <2>1, <2>2, <2>3 DEF OneOwner
<1> QED BY <1>3, <1>6

LEMMA ExecuteTaskInv ==
    ASSUME CoordInv, NEW w \in Workers, NEW o \in Outcomes, ExecuteTask(w, o)
    PROVE  CoordInv'
<1> USE DEF CoordInv, ExecuteTask
<1>1. stats' \in [StatNames -> Nat]
    BY BumpType DEF CoordTypeOK, StatNames, Outcomes
<1>2. CoordTypeOK'
    BY <1>1 DEF CoordTypeOK, WorkerPcs
<1>3. OneOwner'
    BY DEF OneOwner, CallerHolds, WorkerHolds, CoordTypeOK
<1> QED BY <1>2, <1>3

LEMMA ReleaseKeyInv ==
    ASSUME CoordInv, NEW w \in Workers, ReleaseKey(w)
    PROVE  CoordInv'
<1> USE DEF CoordInv, ReleaseKey
<1>1. WorkerHolds(w)
    BY DEF WorkerHolds
<1>2. CoordTypeOK'
    BY DEF CoordTypeOK, WorkerPcs
<1>3. OneOwner'
    BY <1>1 DEF OneOwner, CallerHolds, WorkerHolds, CoordTypeOK
<1> QED BY <1>2, <1>3

\* The steps of a worker that move no key.
LEMMA WorkerIdleInv ==
    ASSUME CoordInv, NEW w \in Workers, OnComplete(w) \/ WorkerExit(w)
    PROVE  CoordInv'
<1> USE DEF CoordInv, OnComplete, WorkerExit
<1>1. CoordTypeOK'
    BY DEF CoordTypeOK, WorkerPcs
<1>2. OneOwner'
    BY DEF OneOwner, CallerHolds, WorkerHolds, CoordTypeOK
<1> QED BY <1>1, <1>2

LEMMA DropErrorInv ==
    ASSUME CoordInv, NEW c \in Callers, DropError(c)
    PROVE  CoordInv'
<1> USE DEF CoordInv, DropError, ReturnToIdle
<1>1. CoordTypeOK'
    BY DEF CoordTypeOK, CallerPcs
<1>2. OneOwner'
    BY DEF OneOwner, CallerHolds, WorkerHolds, CoordTypeOK
<1> QED BY <1>1, <1>2

LEMMA SubmitInv ==
    ASSUME CoordInv, NEW c \in Callers, NEW k \in Keys, Submit(c, k)
    PROVE  CoordInv'
<1> USE DEF CoordInv, Submit
<1>1. CoordTypeOK'
    BY MaxCallsAssumption DEF CoordTypeOK, CallerPcs
<1>2. OneOwner'
    BY DEF OneOwner, CallerHolds, WorkerHolds, CoordTypeOK
<1> QED BY <1>1, <1>2

\* A step that leaves every variable of the coordinator alone.
LEMMA CoordUnchanged ==
    ASSUME CoordInv, UNCHANGED coordVars
    PROVE  CoordInv'
BY DEF CoordInv, coordVars, CoordTypeOK, OneOwner, CallerHolds, WorkerHolds

LEMMA BeginShutdownInv ==
    ASSUME CoordInv, BeginShutdown
    PROVE  CoordInv'
BY DEF CoordInv, BeginShutdown, CoordTypeOK, OneOwner, CallerHolds, WorkerHolds

LEMMA CoordNextInv == CoordInv /\ [CoordNext]_coordVars => CoordInv'
<1> SUFFICES ASSUME CoordInv, [CoordNext]_coordVars PROVE CoordInv'
    OBVIOUS
<1>1. ASSUME NEW c \in Callers, NEW k \in Keys, Submit(c, k) PROVE CoordInv'
    BY <1>1, SubmitInv
<1>2. ASSUME NEW c \in Callers, Enqueue(c) \/ DropError(c) PROVE CoordInv'
    BY <1>2, InsertProcessingInv, TrySendInv, RecordEnqueuedInv, UndoInv,
       DropErrorInv DEF Enqueue
<1>3. ASSUME NEW w \in Workers, Worker(w) PROVE CoordInv'
    BY <1>3, RecvInv, ExecuteTaskInv, ReleaseKeyInv, WorkerIdleInv DEF Worker
<1>4. CASE BeginShutdown
    BY <1>4, BeginShutdownInv
<1>5. CASE UNCHANGED coordVars
    BY <1>5, CoordUnchanged
<1> QED
    BY <1>1, <1>2, <1>3, <1>4, <1>5 DEF CoordNext, CoordDone

\* The coordinator keeps its types and gives every key one owner, whatever
\* the interleaving of enqueue, worker_loop and shutdown.
THEOREM CoordSafety == CoordSpec => [](CoordTypeOK /\ OneOwner)
<1>1. CoordSpec => []CoordInv
    BY CoordInitInv, CoordNextInv, PTL DEF CoordSpec
<1> QED BY <1>1, PTL DEF CoordInv

\* Same key won't refresh twice concurrently (refresh_coordinator.rs:4).
THEOREM CoordDeduplicates == CoordSpec => []NoConcurrentRefresh
<1>1. OneOwner => NoConcurrentRefresh
    BY DEF OneOwner, NoConcurrentRefresh, WorkerHolds
<1> QED BY <1>1, CoordSafety, PTL

-----------------------------------------------------------------------------
(* No key is left in processing without an owner. *)

\* The three kinds of owner of a key.
CallerHas(k) == \E c \in Callers : CallerHolds(c) /\ callerKey[c] = k
QueueHas(k) == \E i \in 1 .. Len(queue) : queue[i] = k
WorkerHas(k) == \E w \in Workers : WorkerHolds(w) /\ workerKey[w] = k

LEMMA NoOrphanDef ==
    NoOrphanKey <=> \A k \in processing : CallerHas(k) \/ QueueHas(k) \/ WorkerHas(k)
BY DEF NoOrphanKey, CallerHas, QueueHas, WorkerHas

LEMMA InsertProcessingOrphan ==
    ASSUME CoordInv, NoOrphanKey, NEW c \in Callers, InsertProcessing(c)
    PROVE  NoOrphanKey'
<1>1. \A k \in processing : CallerHas(k)' \/ QueueHas(k)' \/ WorkerHas(k)'
    BY NoOrphanDef DEF CoordInv, CoordTypeOK, InsertProcessing, CallerHas,
       QueueHas, WorkerHas, CallerHolds, WorkerHolds
<1>2. callerKey[c] \notin processing => CallerHas(callerKey[c])'
    BY DEF CoordInv, CoordTypeOK, InsertProcessing, CallerHas, CallerHolds
<1>3. QED
    BY <1>1, <1>2, NoOrphanDef
    DEF InsertProcessing, NoOrphanKey, CallerHas, QueueHas, WorkerHas

LEMMA TrySendOrphan ==
    ASSUME CoordInv, NoOrphanKey, NEW c \in Callers, TrySend(c)
    PROVE  NoOrphanKey'
<1> SUFFICES ASSUME NEW k \in processing
             PROVE  CallerHas(k)' \/ QueueHas(k)' \/ WorkerHas(k)'
    BY DEF TrySend, NoOrphanKey, CallerHas, QueueHas, WorkerHas
<1>1. CallerHas(k) \/ QueueHas(k) \/ WorkerHas(k)
    BY NoOrphanDef
<1>2. CASE queue' = queue
    BY <1>1, <1>2 DEF TrySend, CoordInv, CoordTypeOK, CallerHas, QueueHas,
       WorkerHas, CallerHolds, WorkerHolds
<1>3. CASE queue' = Append(queue, callerKey[c])
    <2>1. callerKey[c] \in Keys
        BY DEF TrySend, CoordInv, CoordTypeOK
    <2>2. /\ Len(queue') = Len(queue) + 1
          /\ \A i \in 1 .. Len(queue) : queue'[i] = queue[i]
          /\ queue'[Len(queue) + 1] = callerKey[c]
        BY <1>3, <2>1, AppendProperties DEF CoordInv, CoordTypeOK
    <2>3. Len(queue) \in Nat
        BY DEF CoordInv, CoordTypeOK
    <2>4. QueueHas(callerKey[c])'
        BY <2>2, <2>3 DEF TrySend, QueueHas
    <2>5. QueueHas(k) => QueueHas(k)'
        BY <2>2, <2>3 DEF QueueHas
    <2>6. WorkerHas(k) => WorkerHas(k)'
        BY DEF TrySend, WorkerHas, WorkerHolds
    <2>7. CallerHas(k) => k = callerKey[c] \/ CallerHas(k)'
        BY DEF TrySend, CallerHas, CallerHolds, CoordInv, CoordTypeOK
    <2>8. callerKey' = callerKey
        BY DEF TrySend
    <2> QED BY <1>1, <2>4, <2>5, <2>6, <2>7, <2>8 DEF QueueHas
<1> QED BY <1>2, <1>3 DEF TrySend

LEMMA UndoOrphan ==
    ASSUME CoordInv, NoOrphanKey, NEW c \in Callers, UndoFull(c) \/ UndoClosed(c)
    PROVE  NoOrphanKey'
<1> SUFFICES ASSUME NEW k \in processing, k # callerKey[c]
             PROVE  CallerHas(k)' \/ QueueHas(k)' \/ WorkerHas(k)'
    BY DEF UndoFull, UndoClosed, NoOrphanKey, CallerHas, QueueHas, WorkerHas
<1> QED
    BY NoOrphanDef DEF UndoFull, UndoClosed, CoordInv, CoordTypeOK, CallerHas,
       QueueHas, WorkerHas, CallerHolds, WorkerHolds

LEMMA RecvOrphan ==
    ASSUME CoordInv, NoOrphanKey, NEW w \in Workers, Recv(w)
    PROVE  NoOrphanKey'
<1> SUFFICES ASSUME NEW k \in processing
             PROVE  CallerHas(k)' \/ QueueHas(k)' \/ WorkerHas(k)'
    BY DEF Recv, NoOrphanKey, CallerHas, QueueHas, WorkerHas
<1>1. CallerHas(k) \/ QueueHas(k) \/ WorkerHas(k)
    BY NoOrphanDef
<1>2. CallerHas(k) => CallerHas(k)'
    BY DEF Recv, CallerHas, CallerHolds
<1>3. WorkerHas(k) => WorkerHas(k)'
    BY DEF Recv, WorkerHas, WorkerHolds, CoordInv, CoordTypeOK
<1>4. ASSUME QueueHas(k) PROVE QueueHas(k)' \/ WorkerHas(k)'
    <2>1. PICK i \in 1 .. Len(queue) : queue[i] = k
        BY <1>4 DEF QueueHas
    <2>2. /\ Head(queue) = queue[1]
          /\ Len(queue) \in Nat /\ Len(queue') = Len(queue) - 1
          /\ \A j \in 1 .. Len(queue') : queue'[j] = queue[j + 1]
        BY TailPlaces, HeadTailProperties DEF Recv, CoordInv, CoordTypeOK
    <2>3. CASE i = 1
        BY <2>1, <2>2, <2>3 DEF Recv, WorkerHas, WorkerHolds, CoordInv, CoordTypeOK
    <2>4. CASE i # 1
        <3>1. i - 1 \in 1 .. Len(queue') /\ queue'[i - 1] = k
            BY <2>1, <2>2, <2>4
        <3> QED BY <3>1 DEF QueueHas
    <2> QED BY <2>3, <2>4
<1> QED BY <1>1, <1>2, <1>3, <1>4

LEMMA ReleaseKeyOrphan ==
    ASSUME CoordInv, NoOrphanKey, NEW w \in Workers, ReleaseKey(w)
    PROVE  NoOrphanKey'
<1> SUFFICES ASSUME NEW k \in processing, k # workerKey[w]
             PROVE  CallerHas(k)' \/ QueueHas(k)' \/ WorkerHas(k)'
    BY DEF ReleaseKey, NoOrphanKey, CallerHas, QueueHas, WorkerHas
<1> QED
    BY NoOrphanDef DEF ReleaseKey, CoordInv, CoordTypeOK, CallerHas,
       QueueHas, WorkerHas, CallerHolds, WorkerHolds

\* The steps that change neither processing nor the owners.
LEMMA SameOwnersOrphan ==
    ASSUME CoordInv, NoOrphanKey, UNCHANGED <<processing, queue>>,
           \A c \in Callers : CallerHolds(c) =>
               CallerHolds(c)' /\ callerKey'[c] = callerKey[c],
           \A w \in Workers : WorkerHolds(w) =>
               WorkerHolds(w)' /\ workerKey'[w] = workerKey[w]
    PROVE  NoOrphanKey'
BY DEF NoOrphanKey

LEMMA ExecuteTaskOrphan ==
    ASSUME CoordInv, NoOrphanKey, NEW w \in Workers, NEW o \in Outcomes,
           ExecuteTask(w, o)
    PROVE  NoOrphanKey'
BY SameOwnersOrphan DEF ExecuteTask, CoordInv, CoordTypeOK, CallerHolds, WorkerHolds

LEMMA WorkerIdleOrphan ==
    ASSUME CoordInv, NoOrphanKey, NEW w \in Workers, OnComplete(w) \/ WorkerExit(w)
    PROVE  NoOrphanKey'
BY SameOwnersOrphan
DEF OnComplete, WorkerExit, CoordInv, CoordTypeOK, CallerHolds, WorkerHolds

LEMMA CallerIdleOrphan ==
    ASSUME CoordInv, NoOrphanKey, NEW c \in Callers,
           RecordEnqueued(c) \/ DropError(c)
    PROVE  NoOrphanKey'
BY SameOwnersOrphan
DEF RecordEnqueued, DropError, ReturnToIdle, CoordInv, CoordTypeOK,
    CallerHolds, WorkerHolds

LEMMA BeginShutdownOrphan ==
    ASSUME CoordInv, NoOrphanKey, BeginShutdown
    PROVE  NoOrphanKey'
BY SameOwnersOrphan DEF BeginShutdown, CallerHolds, WorkerHolds

LEMMA UnchangedOrphan ==
    ASSUME CoordInv, NoOrphanKey, UNCHANGED coordVars
    PROVE  NoOrphanKey'
BY SameOwnersOrphan DEF coordVars, CallerHolds, WorkerHolds

\* Every key in processing has an owner that will remove it: no path through
\* enqueue or worker_loop, rejection and timeout included, leaks a key.
THEOREM CoordNoLeak == CoordSpec => []NoOrphanKey
<1>1. CoordInit => NoOrphanKey
    BY DEF CoordInit, NoOrphanKey
<1>2. CoordInv /\ NoOrphanKey /\ [CoordNext]_coordVars => NoOrphanKey'
    <2> SUFFICES ASSUME CoordInv, NoOrphanKey, [CoordNext]_coordVars
                 PROVE  NoOrphanKey'
        OBVIOUS
    <2>1. ASSUME NEW c \in Callers, NEW k \in Keys, Submit(c, k)
          PROVE  NoOrphanKey'
        BY <2>1, SameOwnersOrphan
        DEF Submit, CoordInv, CoordTypeOK, CallerHolds, WorkerHolds
    <2>2. ASSUME NEW c \in Callers, Enqueue(c) \/ DropError(c)
          PROVE  NoOrphanKey'
        BY <2>2, InsertProcessingOrphan, TrySendOrphan, UndoOrphan,
           CallerIdleOrphan DEF Enqueue
    <2>3. ASSUME NEW w \in Workers, Worker(w)
          PROVE  NoOrphanKey'
        BY <2>3, RecvOrphan, ExecuteTaskOrphan, ReleaseKeyOrphan,
           WorkerIdleOrphan DEF Worker
    <2>4. CASE BeginShutdown
        BY <2>4, BeginShutdownOrphan
    <2>5. CASE UNCHANGED coordVars
        BY <2>5, UnchangedOrphan
    <2> QED BY <2>1, <2>2, <2>3, <2>4, <2>5 DEF CoordNext, CoordDone
<1>3. CoordSpec => []CoordInv
    BY CoordSafety DEF CoordInv
<1> QED BY <1>1, <1>2, <1>3, PTL DEF CoordSpec

-----------------------------------------------------------------------------
(* Shutdown drains the queue and no accepted task is lost. *)

\* What the drain rests on: shutdown consumes the coordinator, so nobody is in
\* enqueue afterwards; while the Sender lives a worker that is gone means that
\* all are (the pool was built with no worker), and then nothing is queued.
Drained ==
    /\ ~txOpen => \A c \in Callers : ~InEnqueue(c)
    /\ txOpen /\ (\E w \in Workers : workerPc[w] = "exited") => ReceiverDropped
    /\ (\E w \in Workers : workerPc[w] = "exited") => queue = <<>>
    /\ ReceiverDropped => queue = <<>>

\* The tasks sent and not yet counted, and those being executed.
Recording == {c \in Callers : callerPc[c] = "record"}
Executing == {w \in Workers : workerPc[w] = "exec"}

\* TasksAccounted with the finiteness its cardinalities need.
Accounted ==
    /\ IsFiniteSet(Recording)
    /\ IsFiniteSet(Executing)
    /\ stats["enqueued"] + Cardinality(Recording)
          = stats["processed"] + Len(queue) + Cardinality(Executing)

\* The two sets do not change when no program counter enters or leaves them.
LEMMA SameAccounted ==
    ASSUME Accounted,
           Recording' = Recording, Executing' = Executing, Len(queue') = Len(queue),
           stats'["enqueued"] = stats["enqueued"],
           stats'["processed"] = stats["processed"]
    PROVE  Accounted'
BY DEF Accounted

LEMMA InsertProcessingDrain ==
    ASSUME CoordInv, Drained, Accounted, NEW c \in Callers, InsertProcessing(c)
    PROVE  Drained' /\ Accounted'
<1>1. Drained'
    BY DEF Drained, InsertProcessing, ReceiverDropped, InEnqueue, CoordInv,
       CoordTypeOK
<1>2. Recording' = Recording /\ Executing' = Executing
    BY DEF Recording, Executing, InsertProcessing, CoordInv, CoordTypeOK
<1>3. /\ stats'["enqueued"] = stats["enqueued"]
      /\ stats'["processed"] = stats["processed"]
    BY DEF InsertProcessing, Bump, CoordInv, CoordTypeOK, StatNames
<1>4. queue' = queue
    BY DEF InsertProcessing
<1> QED BY <1>1, <1>2, <1>3, <1>4, SameAccounted

LEMMA TrySendDrain ==
    ASSUME CoordInv, Drained, Accounted, NEW c \in Callers, TrySend(c)
    PROVE  Drained' /\ Accounted'
<1>0. c \notin Recording /\ Executing' = Executing /\ stats' = stats
    BY DEF TrySend, Recording, Executing
<1>1. txOpen
    BY DEF TrySend, Drained, InEnqueue
<1>2. CASE /\ ~ReceiverDropped
           /\ queue' = Append(queue, callerKey[c])
           /\ callerPc' = [callerPc EXCEPT ![c] = "record"]
    <2>1. Drained'
        BY <1>1, <1>2 DEF TrySend, Drained, InEnqueue, ReceiverDropped
    <2>2. Recording' = Recording \cup {c}
        BY <1>2 DEF Recording, CoordInv, CoordTypeOK
    <2>3. /\ IsFiniteSet(Recording')
          /\ Cardinality(Recording') = Cardinality(Recording) + 1
        BY <1>0, <2>2, FS_AddElement DEF Accounted
    <2>4. Len(queue') = Len(queue) + 1
        BY <1>2, AppendPlaces DEF TrySend, CoordInv, CoordTypeOK
    <2>5. /\ Len(queue) \in Nat
          /\ Cardinality(Recording) \in Nat /\ Cardinality(Executing) \in Nat
          /\ stats["enqueued"] \in Nat /\ stats["processed"] \in Nat
        BY FS_CardinalityType DEF Accounted, CoordInv, CoordTypeOK, StatNames
    <2> HIDE DEF Recording, Executing
    <2>6. stats["enqueued"] + Cardinality(Recording')
            = stats["processed"] + Len(queue') + Cardinality(Executing)
        BY <2>3, <2>4, <2>5, SMTT(20) DEF Accounted
    <2>7. Accounted'
        BY <1>0, <2>3, <2>6 DEF Accounted
    <2> QED BY <2>1, <2>7
<1>3. CASE queue' = queue /\ callerPc' \in {[callerPc EXCEPT ![c] = "undo"],
                                     [callerPc EXCEPT ![c] = "undoClosed"]}
    <2>1. Drained'
        BY <1>1, <1>3 DEF TrySend, Drained, InEnqueue, ReceiverDropped
    <2>2. Recording' = Recording
        BY <1>3 DEF TrySend, Recording, CoordInv, CoordTypeOK
    <2> QED BY <1>0, <1>3, <2>1, <2>2, SameAccounted
<1> QED BY <1>2, <1>3 DEF TrySend

LEMMA RecordEnqueuedDrain ==
    ASSUME CoordInv, Drained, Accounted, NEW c \in Callers, RecordEnqueued(c)
    PROVE  Drained' /\ Accounted'
<1>1. Drained'
    BY DEF Drained, RecordEnqueued, ReturnToIdle, ReceiverDropped, InEnqueue,
       CoordInv, CoordTypeOK
<1>2. c \in Recording /\ Recording' = Recording \ {c} /\ Executing' = Executing
    BY DEF RecordEnqueued, ReturnToIdle, Recording, Executing, CoordInv, CoordTypeOK
<1>3. /\ IsFiniteSet(Recording')
      /\ Cardinality(Recording') = Cardinality(Recording) - 1
    BY <1>2, FS_RemoveElement DEF Accounted
<1>4. /\ stats'["enqueued"] = stats["enqueued"] + 1
      /\ stats'["processed"] = stats["processed"]
      /\ queue' = queue
    BY DEF RecordEnqueued, Bump, CoordInv, CoordTypeOK, StatNames
<1>5. /\ Len(queue) \in Nat
      /\ Cardinality(Recording) \in Nat /\ Cardinality(Executing) \in Nat
      /\ stats["enqueued"] \in Nat /\ stats["processed"] \in Nat
    BY FS_CardinalityType DEF Accounted, CoordInv, CoordTypeOK, StatNames
<1>6. stats'["enqueued"] + Cardinality(Recording')
        = stats'["processed"] + Len(queue) + Cardinality(Executing)
    BY <1>3, <1>4, <1>5 DEF Accounted
<1>7. Accounted'
    BY <1>2, <1>3, <1>4, <1>6 DEF Accounted
<1> QED BY <1>1, <1>7

\* The callers' steps that touch neither the channel nor the two counters.
LEMMA CallerIdleDrain ==
    ASSUME CoordInv, Drained, Accounted, NEW c \in Callers,
           UndoFull(c) \/ UndoClosed(c) \/ DropError(c)
    PROVE  Drained' /\ Accounted'
<1> USE DEF UndoFull, UndoClosed, DropError, ReturnToIdle
<1>1. Drained'
    BY DEF Drained, ReceiverDropped, InEnqueue, CoordInv, CoordTypeOK
<1>2. Recording' = Recording /\ Executing' = Executing /\ queue' = queue
    BY DEF Recording, Executing, CoordInv, CoordTypeOK
<1>3. /\ stats'["enqueued"] = stats["enqueued"]
      /\ stats'["processed"] = stats["processed"]
    BY DEF Bump, CoordInv, CoordTypeOK, StatNames
<1> QED BY <1>1, <1>2, <1>3, SameAccounted

LEMMA RecvDrain ==
    ASSUME CoordInv, Drained, Accounted, NEW w \in Workers, Recv(w)
    PROVE  Drained' /\ Accounted'
<1>1. Drained'
    BY DEF Recv, Drained, ReceiverDropped, InEnqueue, CoordInv, CoordTypeOK
<1>2. w \notin Executing /\ Executing' = Executing \cup {w} /\ Recording' = Recording
    BY DEF Recv, Recording, Executing, CoordInv, CoordTypeOK
<1>3. /\ IsFiniteSet(Executing')
      /\ Cardinality(Executing') = Cardinality(Executing) + 1
    BY <1>2, FS_AddElement DEF Accounted
<1>4. Len(queue') = Len(queue) - 1 /\ stats' = stats
    BY TailPlaces DEF Recv, CoordInv, CoordTypeOK
<1>5. /\ Len(queue) \in Nat
      /\ Cardinality(Recording) \in Nat /\ Cardinality(Executing) \in Nat
      /\ stats["enqueued"] \in Nat /\ stats["processed"] \in Nat
    BY FS_CardinalityType DEF Accounted, CoordInv, CoordTypeOK, StatNames
<1>6. Accounted'
    BY <1>2, <1>3, <1>4, <1>5, SMTT(20) DEF Accounted
<1> QED BY <1>1, <1>6

LEMMA ExecuteTaskDrain ==
    ASSUME CoordInv, Drained, Accounted, NEW w \in Workers, NEW o \in Outcomes,
           ExecuteTask(w, o)
    PROVE  Drained' /\ Accounted'
<1>1. Drained'
    BY DEF ExecuteTask, Drained, ReceiverDropped, InEnqueue, CoordInv, CoordTypeOK
<1>2. w \in Executing /\ Executing' = Executing \ {w} /\ Recording' = Recording
    BY DEF ExecuteTask, Recording, Executing, CoordInv, CoordTypeOK
<1>3. /\ IsFiniteSet(Executing')
      /\ Cardinality(Executing') = Cardinality(Executing) - 1
    BY <1>2, FS_RemoveElement DEF Accounted
<1>4. /\ stats'["enqueued"] = stats["enqueued"]
      /\ stats'["processed"] = stats["processed"] + 1
      /\ queue' = queue
    BY DEF ExecuteTask, Bump, CoordInv, CoordTypeOK, StatNames, Outcomes
<1>5. /\ Len(queue) \in Nat
      /\ Cardinality(Recording) \in Nat /\ Cardinality(Executing) \in Nat
      /\ stats["enqueued"] \in Nat /\ stats["processed"] \in Nat
    BY FS_CardinalityType DEF Accounted, CoordInv, CoordTypeOK, StatNames
<1>6. Accounted'
    BY <1>2, <1>3, <1>4, <1>5 DEF Accounted
<1> QED BY <1>1, <1>6

\* The workers' steps that touch neither the channel nor the counters.
LEMMA WorkerIdleDrain ==
    ASSUME CoordInv, Drained, Accounted, NEW w \in Workers,
           ReleaseKey(w) \/ OnComplete(w) \/ WorkerExit(w)
    PROVE  Drained' /\ Accounted'
<1> USE DEF ReleaseKey, OnComplete, WorkerExit
<1>1. Drained'
    BY DEF Drained, ReceiverDropped, InEnqueue, CoordInv, CoordTypeOK
<1>2. /\ Recording' = Recording /\ Executing' = Executing
      /\ queue' = queue /\ stats' = stats
    BY DEF Recording, Executing, CoordInv, CoordTypeOK
<1> QED BY <1>1, <1>2, SameAccounted

LEMMA OwnerDrain ==
    ASSUME CoordInv, Drained, Accounted,
           \/ \E c \in Callers, k \in Keys : Submit(c, k)
           \/ BeginShutdown
           \/ UNCHANGED coordVars
    PROVE  Drained' /\ Accounted'
<1> USE DEF Submit, BeginShutdown, coordVars
<1>1. Drained'
    BY DEF Drained, ReceiverDropped, InEnqueue, CoordInv, CoordTypeOK
<1>2. /\ Recording' = Recording /\ Executing' = Executing
      /\ queue' = queue /\ stats' = stats
    BY DEF Recording, Executing, CoordInv, CoordTypeOK
<1> QED BY <1>1, <1>2, SameAccounted

LEMMA DrainImplies ==
    ASSUME CoordInv, NoOrphanKey, Drained, Accounted
    PROVE  ShutdownDrains
<1>1. ~txOpen /\ ReceiverDropped => processing = {}
    BY DEF Drained, NoOrphanKey, ReceiverDropped, InEnqueue, CallerHolds, WorkerHolds
<1>2. TasksAccounted
    BY DEF Accounted, TasksAccounted, Recording, Executing
<1> QED BY <1>1, <1>2 DEF ShutdownDrains, Drained

\* Shutdown processes what was queued before the workers leave, for any
\* capacity and any number of workers and callers: a worker leaves only an
\* empty queue, the last one leaves an empty processing set, and at every
\* moment each task try_send accepted is counted exactly once as unrecorded,
\* queued, executing or processed.
THEOREM CoordShutdownDrains == CoordSpec => []ShutdownDrains
<1>1. CoordInit => Drained /\ Accounted
    <2> SUFFICES ASSUME CoordInit PROVE Drained /\ Accounted
        OBVIOUS
    <2>1. Drained
        BY DEF CoordInit, Drained, ReceiverDropped, InEnqueue
    <2>2. Recording = {} /\ Executing = {}
        BY DEF CoordInit, Recording, Executing
    <2>3. Len(queue) = 0 /\ stats["enqueued"] = 0 /\ stats["processed"] = 0
        BY DEF CoordInit, StatNames
    <2> QED BY <2>1, <2>2, <2>3, FS_EmptySet DEF Accounted
<1>2. CoordInv /\ Drained /\ Accounted /\ [CoordNext]_coordVars
        => Drained' /\ Accounted'
    BY InsertProcessingDrain, TrySendDrain, RecordEnqueuedDrain, CallerIdleDrain,
       RecvDrain, ExecuteTaskDrain, WorkerIdleDrain, OwnerDrain
    DEF CoordNext, CoordDone, Enqueue, Worker
<1>3. CoordSpec => []CoordInv
    BY CoordSafety DEF CoordInv
<1>4. CoordInv /\ NoOrphanKey /\ Drained /\ Accounted => ShutdownDrains
    BY DrainImplies
<1> QED BY <1>1, <1>2, <1>3, <1>4, CoordNoLeak, PTL DEF CoordSpec
=============================================================================
