------------------------- MODULE CacheRefreshProofs -------------------------
(***************************************************************************)
(* Proofs about the cache plugin and its coordinator together, for any     *)
(* sets of keys, tasks and workers and any queue capacity.  The argument   *)
(* is one of nesting: an owner of a key in processing is an owner of that  *)
(* key in refreshing_keys, refreshing_keys admits one owner per key, hence *)
(* a task about to insert its key in processing never finds it there.      *)
(***************************************************************************)
EXTENDS CacheRefresh, RefreshCoordinatorProofs

IInv ==
    /\ CoordInv
    /\ NoOrphanKey
    /\ TypeOK
    /\ OneRefresh
    /\ NeverSkipped

\* An owner in processing is an owner in refreshing_keys.
LEMMA HoldersOwn ==
    /\ \A c \in Callers : CallerHolds(c) => CallerOwns(c)
    /\ \A w \in Workers : WorkerHolds(w) => WorkerOwns(w)
BY DEF CallerHolds, CallerOwns, WorkerHolds, WorkerOwns

\* The nesting at work: a task before its insert finds the key free.
LEMMA InsertFindsKeyFree ==
    ASSUME IInv, NEW c \in Callers, callerPc[c] = "insert"
    PROVE  callerKey[c] \notin processing
<1> SUFFICES ASSUME callerKey[c] \in processing PROVE FALSE
    OBVIOUS
<1>1. CallerOwns(c) /\ ~CallerHolds(c)
    BY DEF CallerOwns, CallerHolds
<1>2. \/ \E d \in Callers : CallerHolds(d) /\ callerKey[d] = callerKey[c]
      \/ \E i \in 1 .. Len(queue) : queue[i] = callerKey[c]
      \/ \E w \in Workers : WorkerHolds(w) /\ workerKey[w] = callerKey[c]
    BY DEF IInv, NoOrphanKey
<1>3. QED
    BY <1>1, <1>2, HoldersOwn DEF IInv, OneRefresh

LEMMA InitInv == Init => IInv
<1> SUFFICES ASSUME Init PROVE IInv
    OBVIOUS
<1>1. CoordInv
    BY CoordInitInv DEF Init
<1>2. NoOrphanKey /\ OneRefresh /\ NeverSkipped
    BY DEF Init, CoordInit, NoOrphanKey, OneRefresh, CallerOwns, WorkerOwns,
       NeverSkipped, StatNames
<1>3. TypeOK
    BY <1>1 DEF Init, TypeOK, CoordInv
<1> QED BY <1>1, <1>2, <1>3 DEF IInv

\* The steps after which every owner is an owner with the same key, and no
\* key left refreshing_keys.
LEMMA SameOwners ==
    ASSUME IInv, UNCHANGED <<queue, refreshing>>,
           \A c \in Callers : CallerOwns(c)' =>
               CallerOwns(c) /\ callerKey'[c] = callerKey[c],
           \A w \in Workers : WorkerOwns(w)' =>
               WorkerOwns(w) /\ workerKey'[w] = workerKey[w]
    PROVE  OneRefresh'
BY DEF IInv, OneRefresh

LEMMA SpawnInv ==
    ASSUME IInv, NEW c \in Callers, NEW k \in Keys,
           NEW pc \in {"waiting", "asleep"}, Spawn(c, k, pc)
    PROVE  IInv'
<1> USE DEF IInv, Spawn
<1>1. CoordTypeOK'
    BY MaxCallsAssumption DEF CoordInv, CoordTypeOK, CallerPcs
<1>2. OneOwner'
    BY DEF CoordInv, CoordTypeOK, OneOwner, CallerHolds, WorkerHolds
<1>3. NoOrphanKey'
    BY SameOwnersOrphan DEF CoordInv, CoordTypeOK, CallerHolds, WorkerHolds
<1>4. OneRefresh'
    BY DEF CoordInv, CoordTypeOK, OneRefresh, CallerOwns, WorkerOwns
<1>5. TypeOK' /\ NeverSkipped'
    BY <1>1 DEF TypeOK, NeverSkipped
<1> QED BY <1>1, <1>2, <1>3, <1>4, <1>5 DEF CoordInv

\* Steps of a spawned task outside enqueue: they keep or give back its key.
LEMMA OutsideEnqueueInv ==
    ASSUME IInv, NEW c \in Callers,
           \/ LockCoordinator(c) \/ CoordinatorGone(c)
           \/ Invalidate(c) \/ InvalidateDone(c)
    PROVE  IInv'
<1> USE DEF IInv, LockCoordinator, CoordinatorGone, Invalidate, InvalidateDone,
            ReturnToIdle
<1>1. CoordTypeOK'
    BY DEF CoordInv, CoordTypeOK, CallerPcs
<1>2. OneOwner'
    BY DEF CoordInv, CoordTypeOK, OneOwner, CallerHolds, WorkerHolds
<1>3. NoOrphanKey'
    BY SameOwnersOrphan DEF CoordInv, CoordTypeOK, CallerHolds, WorkerHolds
<1>4. OneRefresh'
    <2>1. CASE LockCoordinator(c) \/ Invalidate(c)
        BY <2>1, SameOwners DEF CoordInv, CoordTypeOK, CallerOwns, WorkerOwns
    <2>2. CASE CoordinatorGone(c) \/ InvalidateDone(c)
        <3>1. CallerOwns(c) /\ ~CallerOwns(c)'
            BY <2>2 DEF CallerOwns, CoordInv, CoordTypeOK
        <3> QED BY <2>2, <3>1 DEF CoordInv, CoordTypeOK, OneRefresh, CallerOwns,
                   WorkerOwns
    <2> QED BY <2>1, <2>2
<1>5. TypeOK' /\ NeverSkipped'
    BY <1>1 DEF TypeOK, NeverSkipped
<1> QED BY <1>1, <1>2, <1>3, <1>4, <1>5 DEF CoordInv

LEMMA EnqueueStepInv ==
    ASSUME IInv, NEW c \in Callers, EnqueueStep(c)
    PROVE  IInv'
<1> USE DEF IInv, EnqueueStep, cacheVars
<1>1. CoordInv' /\ NoOrphanKey'
    BY InsertProcessingInv, TrySendInv, UndoInv, InsertProcessingOrphan,
       TrySendOrphan, UndoOrphan
<1>2. TypeOK'
    BY <1>1 DEF TypeOK, CoordInv
<1>3. NeverSkipped'
    <2>1. CASE InsertProcessing(c)
        BY <2>1, InsertFindsKeyFree DEF InsertProcessing, NeverSkipped
    <2>2. CASE TrySend(c) \/ UndoFull(c) \/ UndoClosed(c)
        BY <2>2 DEF TrySend, UndoFull, UndoClosed, NeverSkipped, Bump, CoordInv,
           CoordTypeOK, StatNames
    <2> QED BY <2>1, <2>2
<1>4. OneRefresh'
    <2>1. CASE UNCHANGED queue
        BY <2>1, SameOwners DEF InsertProcessing, TrySend, UndoFull, UndoClosed,
           CoordInv, CoordTypeOK, CallerOwns, WorkerOwns
    <2>2. CASE TrySend(c) /\ queue' = Append(queue, callerKey[c])
        <3>1. /\ callerPc[c] = "send" /\ callerKey[c] \in Keys
              /\ callerPc' = [callerPc EXCEPT ![c] = "record"]
              /\ UNCHANGED <<callerKey, workerPc, workerKey, refreshing>>
            <4>1. Append(queue, callerKey[c]) # queue
                BY AppendProperties DEF TrySend, CoordInv, CoordTypeOK
            <4> QED BY <2>2, <4>1 DEF TrySend, CoordInv, CoordTypeOK
        <3> DEFINE old(i) == i \in 1 .. Len(queue) /\ queue'[i] = queue[i]
                   new(i) == i = Len(queue) + 1 /\ queue'[i] = callerKey[c]
        <3>2. \A i \in 1 .. Len(queue') : old(i) \/ new(i)
            BY <2>2, <3>1, AppendPlaces DEF CoordInv, CoordTypeOK
        <3>3. /\ CallerOwns(c) /\ ~CallerOwns(c)'
              /\ \A d \in Callers : CallerOwns(d)' => d # c /\ CallerOwns(d)
              /\ \A w \in Workers : WorkerOwns(w)' <=> WorkerOwns(w)
            BY <3>1 DEF CallerOwns, WorkerOwns, CoordInv, CoordTypeOK
        <3> HIDE DEF old, new
        <3> QED BY <3>1, <3>2, <3>3 DEF OneRefresh, old, new
    <2> QED BY <2>1, <2>2 DEF InsertProcessing, TrySend, UndoFull, UndoClosed
<1> QED BY <1>1, <1>2, <1>3, <1>4

LEMMA EnqueueResultInv ==
    ASSUME IInv, NEW c \in Callers, Enqueued(c) \/ EnqueueFailed(c)
    PROVE  IInv'
<1> USE DEF IInv
<1>1. CoordInv' /\ NoOrphanKey'
    BY RecordEnqueuedInv, DropErrorInv, CallerIdleOrphan DEF Enqueued, EnqueueFailed
<1>2. TypeOK'
    BY <1>1 DEF Enqueued, EnqueueFailed, TypeOK, CoordInv
<1>3. NeverSkipped'
    BY DEF Enqueued, EnqueueFailed, RecordEnqueued, DropError, NeverSkipped,
       Bump, CoordInv, CoordTypeOK, StatNames
<1>4. OneRefresh'
    <2>1. CASE Enqueued(c)
        BY <2>1, SameOwners DEF Enqueued, RecordEnqueued, ReturnToIdle, CoordInv,
           CoordTypeOK, CallerOwns, WorkerOwns
    <2>2. CASE EnqueueFailed(c)
        <3>1. CallerOwns(c) /\ ~CallerOwns(c)'
            BY <2>2 DEF EnqueueFailed, DropError, ReturnToIdle, CallerOwns,
               CoordInv, CoordTypeOK
        <3> QED BY <2>2, <3>1 DEF EnqueueFailed, DropError, ReturnToIdle,
                   CoordInv, CoordTypeOK, OneRefresh, CallerOwns, WorkerOwns
    <2> QED BY <2>1, <2>2
<1> QED BY <1>1, <1>2, <1>3, <1>4

LEMMA RecvRefresh ==
    ASSUME IInv, NEW w \in Workers, Recv(w), UNCHANGED refreshing
    PROVE  OneRefresh'
<1> USE DEF IInv
<1> DEFINE h == Head(queue)
<1>1. /\ h = queue[1] /\ 1 \in 1 .. Len(queue)
      /\ \A i \in 1 .. Len(queue') :
            i + 1 \in 1 .. Len(queue) /\ i + 1 # 1 /\ queue'[i] = queue[i + 1]
    BY TailPlaces DEF Recv, CoordInv, CoordTypeOK
<1>2. /\ \A v \in Workers : WorkerOwns(v)' =>
            \/ v = w /\ workerKey'[v] = h
            \/ v # w /\ WorkerOwns(v) /\ workerKey'[v] = workerKey[v]
      /\ \A c \in Callers : CallerOwns(c)' <=> CallerOwns(c)
      /\ UNCHANGED callerKey
    BY DEF Recv, WorkerOwns, CallerOwns, CoordInv, CoordTypeOK
<1> HIDE DEF h
<1>3. \A i \in 1 .. Len(queue') : queue'[i] # h
    <2> TAKE i \in 1 .. Len(queue')
    <2>1. queue[i + 1] # queue[1]
        BY <1>1 DEF OneRefresh
    <2> QED BY <1>1, <2>1
<1>4. \A c \in Callers : CallerOwns(c)' =>
        /\ callerKey'[c] \in refreshing'
        /\ \A d \in Callers \ {c} : CallerOwns(d)' => callerKey'[d] # callerKey'[c]
        /\ \A i \in 1 .. Len(queue') : queue'[i] # callerKey'[c]
        /\ \A v \in Workers : WorkerOwns(v)' => workerKey'[v] # callerKey'[c]
    BY <1>1, <1>2 DEF OneRefresh
<1>5. \A i \in 1 .. Len(queue') :
        /\ queue'[i] \in refreshing'
        /\ \A j \in 1 .. Len(queue') : i # j => queue'[i] # queue'[j]
        /\ \A v \in Workers : WorkerOwns(v)' => workerKey'[v] # queue'[i]
    <2> TAKE i \in 1 .. Len(queue')
    <2>1. queue'[i] \in refreshing'
        BY <1>1 DEF OneRefresh
    <2>2. \A j \in 1 .. Len(queue') : i # j => queue'[i] # queue'[j]
        BY <1>1 DEF OneRefresh
    <2>3. \A v \in Workers : WorkerOwns(v)' => workerKey'[v] # queue'[i]
        BY <1>1, <1>2, <1>3 DEF OneRefresh
    <2> QED BY <2>1, <2>2, <2>3
<1>6. \A v \in Workers : WorkerOwns(v)' =>
        /\ workerKey'[v] \in refreshing'
        /\ \A u \in Workers \ {v} : WorkerOwns(u)' => workerKey'[u] # workerKey'[v]
    BY <1>1, <1>2 DEF OneRefresh
<1> QED BY <1>4, <1>5, <1>6 DEF OneRefresh

LEMMA WorkerStepInv ==
    ASSUME IInv, NEW w \in Workers, WorkerStep(w)
    PROVE  IInv'
<1> USE DEF IInv
<1>1. CASE (Recv(w) \/ ReleaseKey(w) \/ WorkerExit(w)) /\ UNCHANGED cacheVars
    <2>1. CoordInv' /\ NoOrphanKey'
        BY <1>1, RecvInv, ReleaseKeyInv, WorkerIdleInv, RecvOrphan,
           ReleaseKeyOrphan, WorkerIdleOrphan
    <2>2. TypeOK' /\ NeverSkipped'
        BY <1>1, <2>1 DEF cacheVars, TypeOK, CoordInv, NeverSkipped, Recv,
           ReleaseKey, WorkerExit
    <2>3. OneRefresh'
        <3>1. CASE Recv(w)
            BY <1>1, <3>1, RecvRefresh DEF cacheVars
        <3>2. CASE ReleaseKey(w) \/ WorkerExit(w)
            BY <1>1, <3>2, SameOwners DEF cacheVars, ReleaseKey, WorkerExit,
               CoordInv, CoordTypeOK, CallerOwns, WorkerOwns
        <3> QED BY <1>1, <3>1, <3>2
    <2> QED BY <2>1, <2>2, <2>3
<1>2. CASE RunRefresh(w)
    <2>1. PICK o \in Outcomes : ExecuteTask(w, o)
        BY <1>2 DEF RunRefresh
    <2>2. CoordInv' /\ NoOrphanKey'
        BY <2>1, ExecuteTaskInv, ExecuteTaskOrphan
    <2>3. workerKey[w] \in Keys
        BY <2>1 DEF ExecuteTask, CoordInv, CoordTypeOK
    <2>4. TypeOK'
        BY <1>2, <2>2, <2>3 DEF RunRefresh, TypeOK, CoordInv
    <2>5. NeverSkipped'
        BY <2>1 DEF ExecuteTask, Outcomes, NeverSkipped, Bump, CoordInv,
           CoordTypeOK, StatNames
    <2>6. OneRefresh'
        BY <1>2, <2>1, SameOwners DEF RunRefresh, ExecuteTask, CoordInv,
           CoordTypeOK, CallerOwns, WorkerOwns
    <2> QED BY <2>2, <2>4, <2>5, <2>6
<1>3. CASE Completed(w)
    <2>1. CoordInv' /\ NoOrphanKey'
        BY <1>3, WorkerIdleInv, WorkerIdleOrphan DEF Completed
    <2>2. TypeOK' /\ NeverSkipped'
        BY <1>3, <2>1 DEF Completed, TypeOK, CoordInv, NeverSkipped, OnComplete
    <2>3. WorkerOwns(w) /\ ~WorkerOwns(w)'
        BY <1>3 DEF Completed, OnComplete, WorkerOwns, CoordInv, CoordTypeOK
    <2>4. OneRefresh'
        BY <1>3, <2>3 DEF Completed, OnComplete, CoordInv, CoordTypeOK,
           OneRefresh, CallerOwns, WorkerOwns
    <2> QED BY <2>1, <2>2, <2>4
<1> QED BY <1>1, <1>2, <1>3 DEF WorkerStep

\* Steps that change no owner and no key set.
LEMMA QuietInv ==
    ASSUME IInv,
           \/ \E k \in Keys : Store(k) \/ Evict(k)
           \/ WorkersJoined
           \/ UNCHANGED vars
    PROVE  IInv'
<1>1. UNCHANGED <<coordVars, refreshing>> /\ TypeOK'
    BY DEF Store, Evict, WorkersJoined, vars, cacheVars, IInv, TypeOK,
       coordVars, CoordTypeOK
<1>2. CoordInv' /\ NoOrphanKey'
    BY <1>1, CoordUnchanged, UnchangedOrphan DEF IInv
<1>3. OneRefresh' /\ NeverSkipped'
    BY <1>1, SameOwners DEF IInv, coordVars, CallerOwns, WorkerOwns, NeverSkipped
<1> QED BY <1>1, <1>2, <1>3 DEF IInv

LEMMA TakeCoordinatorInv ==
    ASSUME IInv, TakeCoordinator
    PROVE  IInv'
<1>1. CoordInv' /\ NoOrphanKey'
    BY BeginShutdownInv, BeginShutdownOrphan DEF TakeCoordinator, IInv
<1>2. OneRefresh' /\ NeverSkipped'
    BY SameOwners DEF TakeCoordinator, BeginShutdown, IInv, CallerOwns,
       WorkerOwns, NeverSkipped
<1>3. TypeOK'
    BY <1>1 DEF TakeCoordinator, IInv, TypeOK, CoordInv
<1> QED BY <1>1, <1>2, <1>3 DEF IInv

LEMMA NextInv == IInv /\ [Next]_vars => IInv'
<1> SUFFICES ASSUME IInv, [Next]_vars PROVE IInv'
    OBVIOUS
<1>1. ASSUME NEW c \in Callers, NEW k \in Keys,
             SpawnRefresh(c, k) \/ SpawnInvalidate(c, k)
      PROVE  IInv'
    BY <1>1, SpawnInv DEF SpawnRefresh, SpawnInvalidate
<1>2. ASSUME NEW c \in Callers, Caller(c) PROVE IInv'
    BY <1>2, OutsideEnqueueInv, EnqueueStepInv, EnqueueResultInv DEF Caller
<1>3. ASSUME NEW w \in Workers, WorkerStep(w) PROVE IInv'
    BY <1>3, WorkerStepInv
<1>4. CASE TakeCoordinator
    BY <1>4, TakeCoordinatorInv
<1>5. CASE (\E k \in Keys : Store(k) \/ Evict(k)) \/ WorkersJoined \/ UNCHANGED vars
    BY <1>5, QuietInv
<1> QED BY <1>1, <1>2, <1>3, <1>4, <1>5 DEF Next

LEMMA SpecInv == Spec => []IInv
BY InitInv, NextInv, PTL DEF Spec

\* Type correctness of the composed system.
THEOREM TypeCorrect == Spec => []TypeOK
<1>1. IInv => TypeOK
    BY DEF IInv
<1> QED BY <1>1, SpecInv, PTL

\* No two refreshes of a key are ever under way together, and the removals by
\* key alone only remove the key of the refresh that ends.
THEOREM SingleRefresh == Spec => []OneRefresh
<1>1. IInv => OneRefresh
    BY DEF IInv
<1> QED BY <1>1, SpecInv, PTL

\* No refresh the cache plugin asks for is dropped as AlreadyProcessing: the
\* order of the two removals in worker_loop (297, 303) is what this rests on.
THEOREM RefreshNeverSkipped == Spec => []NeverSkipped
<1>1. IInv => NeverSkipped
    BY DEF IInv
<1> QED BY <1>1, SpecInv, PTL

-----------------------------------------------------------------------------
(* Every key of refreshing_keys has an owner *)

\* The steps that move no key from one owner to another.
LEMMA OwnersStay ==
    ASSUME NoLeakedKey, refreshing' \subseteq refreshing, queue' = queue,
           \A c \in Callers : CallerOwns(c) /\ callerKey[c] \in refreshing' =>
               CallerOwns(c)' /\ callerKey'[c] = callerKey[c],
           \A w \in Workers : WorkerOwns(w) /\ workerKey[w] \in refreshing' =>
               WorkerOwns(w)' /\ workerKey'[w] = workerKey[w]
    PROVE  NoLeakedKey'
BY DEF NoLeakedKey

LEMMA NextLeak == IInv /\ NoLeakedKey /\ [Next]_vars => NoLeakedKey'
<1> SUFFICES ASSUME IInv, NoLeakedKey, [Next]_vars PROVE NoLeakedKey'
    OBVIOUS
<1>0. CoordTypeOK
    BY DEF IInv, CoordInv
<1>1. ASSUME NEW c \in Callers, NEW k \in Keys, NEW pc \in {"waiting", "asleep"},
             Spawn(c, k, pc)
      PROVE  NoLeakedKey'
    <2>1. /\ refreshing' = refreshing \cup {k}
          /\ callerPc' = [callerPc EXCEPT ![c] = pc]
          /\ callerKey' = [callerKey EXCEPT ![c] = k]
          /\ callerPc[c] = "idle" /\ UNCHANGED <<queue, workerPc, workerKey>>
        BY <1>1 DEF Spawn
    <2>2. CallerOwns(c)' /\ callerKey'[c] = k
        BY <1>0, <2>1 DEF CallerOwns, CoordTypeOK
    <2>3. \A d \in Callers : CallerOwns(d) => CallerOwns(d)' /\ callerKey'[d] = callerKey[d]
        BY <1>0, <2>1 DEF CallerOwns, CoordTypeOK
    <2>4. \A w \in Workers : WorkerOwns(w)' <=> WorkerOwns(w)
        BY <2>1 DEF WorkerOwns
    <2> QED BY <2>1, <2>2, <2>3, <2>4 DEF NoLeakedKey
<1>2. ASSUME NEW c \in Callers,
             \/ LockCoordinator(c) \/ CoordinatorGone(c) \/ EnqueueFailed(c)
             \/ Invalidate(c) \/ InvalidateDone(c) \/ Enqueued(c)
      PROVE  NoLeakedKey'
    <2>1. UNCHANGED <<queue, workerPc, workerKey>>
        BY <1>2 DEF LockCoordinator, CoordinatorGone, EnqueueFailed, DropError, Invalidate,
                    InvalidateDone, Enqueued, RecordEnqueued
    <2>2. \A d \in Callers \ {c} : CallerOwns(d) => CallerOwns(d)' /\ callerKey'[d] = callerKey[d]
        BY <1>0, <1>2 DEF LockCoordinator, CoordinatorGone, EnqueueFailed, DropError,
                          Invalidate, InvalidateDone, Enqueued, RecordEnqueued,
                          ReturnToIdle, CallerOwns, CoordTypeOK
    <2>3. /\ refreshing' \subseteq refreshing
          /\ CallerOwns(c) /\ callerKey[c] \in refreshing'
                => CallerOwns(c)' /\ callerKey'[c] = callerKey[c]
        BY <1>0, <1>2 DEF LockCoordinator, CoordinatorGone, EnqueueFailed, DropError,
                          Invalidate, InvalidateDone, Enqueued, RecordEnqueued,
                          ReturnToIdle, CallerOwns, CoordTypeOK
    <2>4. \A w \in Workers : WorkerOwns(w)' <=> WorkerOwns(w)
        BY <2>1 DEF WorkerOwns
    <2> QED BY <2>1, <2>2, <2>3, <2>4, OwnersStay
<1>3. ASSUME NEW c \in Callers, EnqueueStep(c) PROVE NoLeakedKey'
    <2>1. UNCHANGED <<callerKey, workerPc, workerKey, refreshing>>
        BY <1>3 DEF EnqueueStep, cacheVars, InsertProcessing, TrySend, UndoFull, UndoClosed
    <2>2. \A w \in Workers : WorkerOwns(w)' <=> WorkerOwns(w)
        BY <2>1 DEF WorkerOwns
    <2>3. CASE queue' = queue
        <3>1. \A d \in Callers : CallerOwns(d) => CallerOwns(d)'
            <4>1. CASE callerPc' = [callerPc EXCEPT ![c] = "record"]
                <5>1. queue' = Append(queue, callerKey[c]) /\ callerKey[c] \in Keys
                    BY <1>0, <1>3, <4>1 DEF EnqueueStep, InsertProcessing, TrySend, UndoFull,
                                            UndoClosed, CoordTypeOK
                <5>2. Append(queue, callerKey[c]) # queue
                    BY <1>0, <5>1, AppendProperties DEF CoordTypeOK
                <5> QED BY <2>3, <5>1, <5>2
            <4>2. CASE callerPc' # [callerPc EXCEPT ![c] = "record"]
                BY <1>0, <1>3, <4>2 DEF EnqueueStep, InsertProcessing, TrySend, UndoFull,
                                        UndoClosed, CallerOwns, CoordTypeOK
            <4> QED BY <4>1, <4>2
        <3> QED BY <2>1, <2>2, <2>3, <3>1, OwnersStay
    <2>4. CASE queue' = Append(queue, callerKey[c])
        <3>1. callerKey[c] \in Keys /\ queue \in Seq(Keys)
            BY <1>0, <1>3 DEF EnqueueStep, InsertProcessing, TrySend, UndoFull, UndoClosed,
                              CoordTypeOK
        <3>2. /\ Len(queue') = Len(queue) + 1 /\ Len(queue) \in Nat
              /\ queue'[Len(queue) + 1] = callerKey[c]
              /\ \A i \in 1 .. Len(queue) : queue'[i] = queue[i]
            BY <2>4, <3>1, AppendProperties
        <3>3. /\ \A i \in 1 .. Len(queue) : i \in 1 .. Len(queue')
              /\ Len(queue) + 1 \in 1 .. Len(queue')
            BY <3>2
        <3>4. \A d \in Callers \ {c} : CallerOwns(d) => CallerOwns(d)'
            BY <1>0, <1>3 DEF EnqueueStep, InsertProcessing, TrySend, UndoFull, UndoClosed,
                              CallerOwns, CoordTypeOK
        <3> QED BY <2>1, <2>2, <3>2, <3>3, <3>4 DEF NoLeakedKey
    <2> QED BY <1>3, <2>3, <2>4 DEF EnqueueStep, InsertProcessing, TrySend, UndoFull, UndoClosed
<1>4. ASSUME NEW w \in Workers, Recv(w), UNCHANGED cacheVars PROVE NoLeakedKey'
    <2>1. /\ workerKey' = [workerKey EXCEPT ![w] = Head(queue)] /\ queue' = Tail(queue)
          /\ workerPc' = [workerPc EXCEPT ![w] = "exec"] /\ workerPc[w] = "recv"
          /\ queue # << >> /\ UNCHANGED <<callerPc, callerKey, refreshing>>
        BY <1>4 DEF Recv, cacheVars
    <2>2. queue \in Seq(Keys) /\ Len(queue) \in Nat
        BY <1>0 DEF CoordTypeOK
    <2>3. /\ Len(queue') = Len(queue) - 1 /\ Head(queue) = queue[1]
          /\ \A i \in 1 .. Len(queue') : queue'[i] = queue[i + 1]
        BY <2>1, <2>2
    <2>4. WorkerOwns(w)' /\ workerKey'[w] = queue[1]
        BY <1>0, <2>1, <2>3 DEF WorkerOwns, CoordTypeOK
    <2>5. \A v \in Workers : WorkerOwns(v) => WorkerOwns(v)' /\ workerKey'[v] = workerKey[v]
        BY <1>0, <2>1 DEF WorkerOwns, CoordTypeOK
    <2>6. \A i \in 1 .. Len(queue) :
              \/ queue[i] = workerKey'[w]
              \/ \E j \in 1 .. Len(queue') : queue'[j] = queue[i]
        <3> TAKE i \in 1 .. Len(queue)
        <3>1. CASE i = 1
            BY <2>4, <3>1
        <3>2. CASE i # 1
            <4>1. i - 1 \in 1 .. Len(queue') /\ i - 1 + 1 = i
                BY <2>2, <2>3, <3>2
            <4> QED BY <2>3, <4>1
        <3> QED BY <3>1, <3>2
    <2>7. \A c \in Callers : CallerOwns(c)' <=> CallerOwns(c)
        BY <2>1 DEF CallerOwns
    <2> QED BY <2>1, <2>4, <2>5, <2>6, <2>7 DEF NoLeakedKey
<1>5. ASSUME NEW w \in Workers,
             \/ (ReleaseKey(w) \/ WorkerExit(w)) /\ UNCHANGED cacheVars
             \/ RunRefresh(w) \/ Completed(w)
      PROVE  NoLeakedKey'
    <2>1. UNCHANGED <<queue, callerPc, callerKey>> /\ refreshing' \subseteq refreshing
        BY <1>5 DEF ReleaseKey, WorkerExit, cacheVars, RunRefresh, ExecuteTask, Completed,
                    OnComplete
    <2>2. \A v \in Workers : WorkerOwns(v) /\ workerKey[v] \in refreshing' =>
              WorkerOwns(v)' /\ workerKey'[v] = workerKey[v]
        BY <1>0, <1>5 DEF ReleaseKey, WorkerExit, cacheVars, RunRefresh, ExecuteTask,
                          Completed, OnComplete, WorkerOwns, CoordTypeOK
    <2>3. \A c \in Callers : CallerOwns(c)' <=> CallerOwns(c)
        BY <2>1 DEF CallerOwns
    <2> QED BY <2>1, <2>2, <2>3, OwnersStay
<1>6. ASSUME \/ \E k \in Keys : Store(k) \/ Evict(k)
             \/ TakeCoordinator \/ WorkersJoined \/ UNCHANGED vars
      PROVE  NoLeakedKey'
    <2>1. UNCHANGED <<queue, callerPc, callerKey, workerPc, workerKey, refreshing>>
        BY <1>6 DEF Store, Evict, TakeCoordinator, BeginShutdown, WorkersJoined, vars,
                    cacheVars, coordVars
    <2> QED BY <2>1 DEF NoLeakedKey, CallerOwns, WorkerOwns
<1> QED BY <1>1, <1>2, <1>3, <1>4, <1>5, <1>6
        DEF Next, Caller, WorkerStep, SpawnRefresh, SpawnInvalidate

\* No key of refreshing_keys is orphaned: it is always with a spawned task, a
\* place of the queue or a worker that gives it back (mod.rs:226-242, 621-641).
THEOREM NoKeyLeaked == Spec => []NoLeakedKey
<1>1. Init => NoLeakedKey
    BY DEF Init, NoLeakedKey
<1> QED BY <1>1, NextLeak, SpecInv, PTL DEF Spec

-----------------------------------------------------------------------------
(* The refinement of SingleFlight, step by step *)

\* With one owner per key and no key without one, the refreshes under way of a
\* key are its membership in refreshing_keys.
LEMMA FlightsCounted ==
    ASSUME IInv, NoLeakedKey, NEW k \in Keys
    PROVE  Flights(k) = IF k \in refreshing THEN 1 ELSE 0
<1> DEFINE C == {c \in Callers : CallerOwns(c) /\ callerKey[c] = k}
           Q == {i \in 1 .. Len(queue) : queue[i] = k}
           W == {w \in Workers : WorkerOwns(w) /\ workerKey[w] = k}
<1>1. Flights(k) = Cardinality(C) + Cardinality(Q) + Cardinality(W)
    BY DEF Flights
<1>2. IsFiniteSet({}) /\ Cardinality({}) = 0 /\ \A x : Cardinality({x}) = 1
    BY FS_EmptySet, FS_Singleton
<1>3. CASE k \notin refreshing
    <2>1. C = {} /\ Q = {} /\ W = {}
        BY <1>3 DEF IInv, OneRefresh
    <2> HIDE DEF C, Q, W
    <2> QED BY <1>1, <1>2, <1>3, <2>1
<1>4. CASE k \in refreshing
    <2>1. CASE \E c \in Callers : CallerOwns(c) /\ callerKey[c] = k
        <3>1. PICK c \in Callers : CallerOwns(c) /\ callerKey[c] = k
            BY <2>1
        <3>2. Q = {} /\ W = {}
            BY <3>1 DEF IInv, OneRefresh
        <3>3. \A d \in C : d = c
            BY <3>1 DEF IInv, OneRefresh
        <3>4. c \in C
            BY <3>1
        <3> HIDE DEF C, Q, W
        <3>5. C = {c}
            BY <3>3, <3>4
        <3>6. Cardinality(C) = 1 /\ Cardinality(Q) = 0 /\ Cardinality(W) = 0
            BY <1>2, <3>2, <3>5
        <3> QED BY <1>1, <1>4, <3>6
    <2>2. CASE \E i \in 1 .. Len(queue) : queue[i] = k
        <3>1. PICK i \in 1 .. Len(queue) : queue[i] = k
            BY <2>2
        <3>2. C = {} /\ W = {}
            BY <3>1 DEF IInv, OneRefresh
        <3>3. \A j \in Q : j = i
            BY <3>1 DEF IInv, OneRefresh
        <3>4. i \in Q
            BY <3>1
        <3> HIDE DEF C, Q, W
        <3>5. Q = {i}
            BY <3>3, <3>4
        <3>6. Cardinality(C) = 0 /\ Cardinality(Q) = 1 /\ Cardinality(W) = 0
            BY <1>2, <3>2, <3>5
        <3> QED BY <1>1, <1>4, <3>6
    <2>3. CASE \E w \in Workers : WorkerOwns(w) /\ workerKey[w] = k
        <3>1. PICK w \in Workers : WorkerOwns(w) /\ workerKey[w] = k
            BY <2>3
        <3>2. C = {} /\ Q = {}
            BY <3>1 DEF IInv, OneRefresh
        <3>3. \A v \in W : v = w
            BY <3>1 DEF IInv, OneRefresh
        <3>4. w \in W
            BY <3>1
        <3> HIDE DEF C, Q, W
        <3>5. W = {w}
            BY <3>3, <3>4
        <3>6. Cardinality(C) = 0 /\ Cardinality(Q) = 0 /\ Cardinality(W) = 1
            BY <1>2, <3>2, <3>5
        <3> QED BY <1>1, <1>4, <3>6
    <2> QED BY <1>4, <2>1, <2>2, <2>3 DEF NoLeakedKey
<1> QED BY <1>3, <1>4

\* A step adds one key to refreshing_keys, takes one out, or leaves it alone.
LEMMA OneKeyAtATime ==
    ASSUME IInv, [Next]_vars
    PROVE  \/ refreshing' = refreshing
           \/ \E k \in Keys : k \notin refreshing /\ refreshing' = refreshing \cup {k}
           \/ \E k \in Keys : k \in refreshing /\ refreshing' = refreshing \ {k}
<1>0. CoordTypeOK /\ OneRefresh
    BY DEF IInv, CoordInv
<1>1. ASSUME NEW c \in Callers, NEW k \in Keys, SpawnRefresh(c, k) \/ SpawnInvalidate(c, k)
      PROVE  k \notin refreshing /\ refreshing' = refreshing \cup {k}
    BY <1>1 DEF SpawnRefresh, SpawnInvalidate, Spawn
<1>2. ASSUME NEW c \in Callers, Caller(c)
      PROVE  \/ refreshing' = refreshing
             \/ /\ callerKey[c] \in Keys /\ callerKey[c] \in refreshing
                /\ refreshing' = refreshing \ {callerKey[c]}
    <2>1. CASE CoordinatorGone(c) \/ EnqueueFailed(c) \/ InvalidateDone(c)
        <3>1. callerPc[c] # "idle" /\ CallerOwns(c) /\ refreshing' = refreshing \ {callerKey[c]}
            BY <2>1 DEF CoordinatorGone, EnqueueFailed, DropError, InvalidateDone, CallerOwns
        <3> QED BY <1>0, <3>1 DEF CoordTypeOK, OneRefresh
    <2>2. CASE LockCoordinator(c) \/ EnqueueStep(c) \/ Enqueued(c) \/ Invalidate(c)
        BY <2>2 DEF LockCoordinator, EnqueueStep, cacheVars, Enqueued, Invalidate
    <2> QED BY <1>2, <2>1, <2>2 DEF Caller
<1>3. ASSUME NEW w \in Workers, WorkerStep(w)
      PROVE  \/ refreshing' = refreshing
             \/ /\ workerKey[w] \in Keys /\ workerKey[w] \in refreshing
                /\ refreshing' = refreshing \ {workerKey[w]}
    <2>1. CASE Completed(w)
        <3>1. workerPc[w] = "notify" /\ refreshing' = refreshing \ {workerKey[w]}
            BY <2>1 DEF Completed, OnComplete
        <3> QED BY <1>0, <3>1 DEF CoordTypeOK, OneRefresh, WorkerOwns
    <2>2. CASE ~Completed(w)
        BY <1>3, <2>2 DEF WorkerStep, cacheVars, RunRefresh
    <2> QED BY <2>1, <2>2
<1>4. ASSUME \/ \E k \in Keys : Store(k) \/ Evict(k)
             \/ TakeCoordinator \/ WorkersJoined \/ UNCHANGED vars
      PROVE  refreshing' = refreshing
    BY <1>4 DEF Store, Evict, TakeCoordinator, WorkersJoined, vars, cacheVars
<1> QED BY <1>1, <1>2, <1>3, <1>4 DEF Next

\* The plugin with its coordinator takes no step that SingleFlight does not
\* allow: a refresh of a key starts only when none is under way, and ends once
\* (mod.rs:214-245, 590-645, refresh_coordinator.rs:118-175, 262-310).
THEOREM RefinesSingleFlight == Spec => Abstract!Safety
<1> DEFINE fl == [k \in Keys |-> Flights(k)]
           I == IInv /\ NoLeakedKey
           in(S) == [k \in Keys |-> IF k \in S THEN 1 ELSE 0]
           Counted == fl = in(refreshing)
<1>1. I => Counted
    BY FlightsCounted
<1>2. I' => Counted'
    <2> HIDE DEF I, Counted
    <2> QED BY <1>1, PTL
<1>3. Init => Abstract!Init
    <2> SUFFICES ASSUME Init PROVE fl = [k \in Keys |-> 0]
        BY DEF Abstract!Init
    <2>1. IInv /\ NoLeakedKey /\ refreshing = {}
        BY InitInv DEF Init, NoLeakedKey
    <2> QED BY <1>1, <2>1
<1>4. I /\ I' /\ [Next]_vars => [Abstract!Next]_fl
    <2> SUFFICES ASSUME I, I', [Next]_vars PROVE Abstract!Next \/ fl' = fl
        OBVIOUS
    <2>1. fl = in(refreshing)
        BY <1>1
    <2>2. fl' = in(refreshing')
        BY <1>2
    <2>3. CASE refreshing' = refreshing
        BY <2>1, <2>2, <2>3
    <2>4. ASSUME NEW k \in Keys, k \notin refreshing, refreshing' = refreshing \cup {k}
          PROVE  Abstract!Start(k)
        <3>1. fl[k] = 0 /\ fl' = [fl EXCEPT ![k] = 1]
            BY <2>1, <2>2, <2>4
        <3> QED BY <3>1 DEF Abstract!Start
    <2>5. ASSUME NEW k \in Keys, k \in refreshing, refreshing' = refreshing \ {k}
          PROVE  Abstract!Finish(k)
        <3>1. fl[k] = 1 /\ fl' = [fl EXCEPT ![k] = 0]
            BY <2>1, <2>2, <2>5
        <3> QED BY <3>1 DEF Abstract!Finish
    <2> QED BY <2>3, <2>4, <2>5, OneKeyAtATime DEF Abstract!Next
<1> HIDE DEF I
<1>5. Spec => []I
    BY SpecInv, NoKeyLeaked, PTL DEF I
<1> QED BY <1>3, <1>4, <1>5, PTL DEF Spec, Abstract!Safety
=============================================================================
