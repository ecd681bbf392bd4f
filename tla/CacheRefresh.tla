---------------------------- MODULE CacheRefresh ----------------------------
(***************************************************************************)
(* How the cache plugin (src/src/plugins/cache/mod.rs) drives its refresh  *)
(* coordinator.  A stale or nearly expired hit inserts the key in          *)
(* refreshing_keys and spawns a task that takes the coordinator's async    *)
(* mutex and calls enqueue; the key leaves refreshing_keys when enqueue    *)
(* fails, when the coordinator is gone, or in the completion callback.     *)
(* Shutdown takes the coordinator out of the mutex and joins the workers   *)
(* while it still holds the mutex.                                         *)
(*                                                                         *)
(* The cache itself is reduced to the set of keys that have an entry.      *)
(***************************************************************************)
EXTENDS RefreshCoordinator

VARIABLES
    refreshing,   \* refreshing_keys, the plugin's own DashSet
    lock,         \* holder of the mutex around the coordinator
    present,      \* the mutex holds Some(coordinator)
    cached        \* keys with a cache entry

cacheVars == <<refreshing, lock, present, cached>>
vars == <<coordVars, cacheVars>>

Init ==
    /\ CoordInit
    /\ workerPc = [w \in Workers |-> "recv"]   \* worker_count is 4
    /\ refreshing = {}
    /\ lock = "free"
    /\ present = TRUE
    /\ cached = {}

-----------------------------------------------------------------------------
(* The cache around the refresh machinery. *)

\* A client's response for k is stored.
Store(k) ==
    /\ k \notin cached
    /\ cached' = cached \cup {k}
    /\ UNCHANGED <<coordVars, refreshing, lock, present>>

\* k is evicted or removed by the periodic cleanup.
Evict(k) ==
    /\ k \in cached
    /\ cached' = cached \ {k}
    /\ UNCHANGED <<coordVars, refreshing, lock, present>>

-----------------------------------------------------------------------------
(* spawn_background_refresh *)

\* Mutant of Spawn: a key already in refreshing_keys does not stop the spawn.
SpawnAgain(c, k, pc) ==
    /\ k \in cached
    /\ callerPc[c] = "idle"
    /\ calls < MaxCalls
    /\ calls' = calls + 1
    /\ refreshing' = refreshing \cup {k}
    /\ callerPc' = [callerPc EXCEPT ![c] = pc]
    /\ callerKey' = [callerKey EXCEPT ![c] = k]
    /\ UNCHANGED <<processing, queue, txOpen, workerPc, workerKey, stats,
                   lock, present, cached>>

\* Mutant of Spawn: the key is not remembered.
SpawnUnmarked(c, k, pc) ==
    /\ k \in cached
    /\ k \notin refreshing
    /\ callerPc[c] = "idle"
    /\ calls < MaxCalls
    /\ calls' = calls + 1
    /\ callerPc' = [callerPc EXCEPT ![c] = pc]
    /\ callerKey' = [callerKey EXCEPT ![c] = k]
    /\ UNCHANGED <<processing, queue, txOpen, workerPc, workerKey, stats,
                   refreshing, lock, present, cached>>

\* A hit on k inserts k in refreshing_keys (a key already there means return)
\* and spawns a tokio task, which starts at pc.
Spawn(c, k, pc) ==
    /\ k \in cached
    /\ k \notin refreshing
    /\ callerPc[c] = "idle"
    /\ calls < MaxCalls
    /\ calls' = calls + 1
    /\ refreshing' = refreshing \cup {k}
    /\ callerPc' = [callerPc EXCEPT ![c] = pc]
    /\ callerKey' = [callerKey EXCEPT ![c] = k]
    /\ UNCHANGED <<processing, queue, txOpen, workerPc, workerKey, stats,
                   lock, present, cached>>

\* The query context carries the handler to refresh with.
SpawnRefresh(c, k) == Spawn(c, k, "waiting")

\* It does not: the entry is invalidated after 10 ms instead.
SpawnInvalidate(c, k) == Spawn(c, k, "asleep")

\* coordinator.lock().await, Some: the guard lives to the end of enqueue.
LockCoordinator(c) ==
    /\ callerPc[c] = "waiting"
    /\ lock = "free"
    /\ present
    /\ lock' = "caller"
    /\ callerPc' = [callerPc EXCEPT ![c] = "insert"]
    /\ UNCHANGED <<processing, queue, txOpen, callerKey, workerPc, workerKey,
                   stats, calls, refreshing, present, cached>>

\* coordinator.lock().await, None: "Refresh coordinator not initialized".
CoordinatorGone(c) ==
    /\ callerPc[c] = "waiting"
    /\ lock = "free"
    /\ ~present
    /\ refreshing' = refreshing \ {callerKey[c]}
    /\ ReturnToIdle(c)
    /\ UNCHANGED <<processing, queue, txOpen, workerPc, workerKey, stats, calls,
                   lock, present, cached>>

\* enqueue up to its result; the mutex stays locked.
EnqueueStep(c) ==
    /\ InsertProcessing(c) \/ TrySend(c) \/ UndoFull(c) \/ UndoClosed(c)
    /\ UNCHANGED cacheVars

\* enqueue returns Ok and the guard is dropped.
Enqueued(c) ==
    /\ RecordEnqueued(c)
    /\ lock' = "free"
    /\ UNCHANGED <<refreshing, present, cached>>

\* Mutant of EnqueueFailed: the Err branch keeps the key.
EnqueueFailedKeepsKey(c) ==
    /\ DropError(c)
    /\ lock' = "free"
    /\ UNCHANGED <<refreshing, present, cached>>

\* enqueue returned Err: the key is given back and the guard is dropped.
EnqueueFailed(c) ==
    /\ DropError(c)
    /\ refreshing' = refreshing \ {callerKey[c]}
    /\ lock' = "free"
    /\ UNCHANGED <<present, cached>>

\* The fallback after its sleep: cache.pop, then refreshing_keys.remove.
Invalidate(c) ==
    /\ callerPc[c] = "asleep"
    /\ cached' = cached \ {callerKey[c]}
    /\ callerPc' = [callerPc EXCEPT ![c] = "popped"]
    /\ UNCHANGED <<processing, queue, txOpen, callerKey, workerPc, workerKey,
                   stats, calls, refreshing, lock, present>>

InvalidateDone(c) ==
    /\ callerPc[c] = "popped"
    /\ refreshing' = refreshing \ {callerKey[c]}
    /\ ReturnToIdle(c)
    /\ UNCHANGED <<processing, queue, txOpen, workerPc, workerKey, stats, calls,
                   lock, present, cached>>

Caller(c) ==
    \/ LockCoordinator(c) \/ CoordinatorGone(c)
    \/ EnqueueStep(c) \/ Enqueued(c) \/ EnqueueFailed(c)
    \/ Invalidate(c) \/ InvalidateDone(c)

-----------------------------------------------------------------------------
(* The workers, with the callback of build_coordinator. *)

\* The refresh query runs the whole plugin chain; whatever its outcome for
\* the worker, it may have stored a (positive or negative) response for k.
RunRefresh(w) ==
    /\ \E o \in Outcomes : ExecuteTask(w, o)
    /\ \/ cached' = cached \cup {workerKey[w]}
       \/ UNCHANGED cached
    /\ UNCHANGED <<refreshing, lock, present>>

\* Mutant of WorkerStep: the callback runs before the worker releases its key.
CallbackFirst(w) ==
    \/ (Recv(w) \/ WorkerExit(w)) /\ UNCHANGED cacheVars
    \/ /\ \E o \in Outcomes : ExecuteTask(w, o)
       /\ refreshing' = refreshing \ {workerKey[w]}
       /\ UNCHANGED <<lock, present, cached>>
    \/ (ReleaseKey(w) \/ OnComplete(w)) /\ UNCHANGED cacheVars

\* The completion callback: refreshing_keys.remove(key) whatever the outcome.
Completed(w) ==
    /\ OnComplete(w)
    /\ refreshing' = refreshing \ {workerKey[w]}
    /\ UNCHANGED <<lock, present, cached>>

WorkerStep(w) ==
    \/ (Recv(w) \/ ReleaseKey(w) \/ WorkerExit(w)) /\ UNCHANGED cacheVars
    \/ RunRefresh(w)
    \/ Completed(w)

-----------------------------------------------------------------------------
(* CachePlugin::shutdown *)

\* Mutant of WorkersJoined: shutdown also joins the tasks that wait for the mutex.
JoinNeedsIdleTasks ==
    /\ lock = "shutdown"
    /\ ReceiverDropped
    /\ \A c \in Callers : callerPc[c] # "waiting"
    /\ lock' = "free"
    /\ UNCHANGED <<coordVars, refreshing, present, cached>>

\* lock().await.take() and the drop of the Sender; the guard is held.
TakeCoordinator ==
    /\ lock = "free"
    /\ present
    /\ BeginShutdown
    /\ lock' = "shutdown"
    /\ present' = FALSE
    /\ UNCHANGED <<refreshing, cached>>

\* The workers are joined and the guard is dropped.
WorkersJoined ==
    /\ lock = "shutdown"
    /\ ReceiverDropped
    /\ lock' = "free"
    /\ UNCHANGED <<coordVars, refreshing, present, cached>>

-----------------------------------------------------------------------------

Next ==
    \/ \E k \in Keys : Store(k) \/ Evict(k)
    \/ \E c \in Callers, k \in Keys : SpawnRefresh(c, k) \/ SpawnInvalidate(c, k)
    \/ \E c \in Callers : Caller(c)
    \/ \E w \in Workers : WorkerStep(w)
    \/ TakeCoordinator
    \/ WorkersJoined

\* tokio's mutex is fair and queues its waiters: a spawned task that waits
\* for it gets it, however often others take it (strong fairness of the two
\* lock steps); everything else runs whenever it can.
Fairness ==
    /\ \A c \in Callers :
          /\ WF_vars(Caller(c))
          /\ SF_vars(LockCoordinator(c) \/ CoordinatorGone(c))
    /\ \A w \in Workers : WF_vars(WorkerStep(w))
    /\ WF_vars(WorkersJoined)

Spec == Init /\ [][Next]_vars /\ Fairness

-----------------------------------------------------------------------------
(* Properties *)

TypeOK ==
    /\ CoordTypeOK
    /\ refreshing \subseteq Keys
    /\ lock \in {"free", "caller", "shutdown"}
    /\ present \in BOOLEAN
    /\ cached \subseteq Keys

\* The spawned tasks and workers that answer for a key of refreshing_keys.
CallerOwns(c) == callerPc[c] \notin {"idle", "record"}
WorkerOwns(w) == workerPc[w] \in {"exec", "release", "notify"}

\* Every owner's key is in refreshing_keys, and no two owners share one: the
\* removals by key alone (mod.rs:242, 621, 625, 641) never release a key
\* another refresh still stands for.
OneRefresh ==
    /\ \A c \in Callers : CallerOwns(c) =>
          /\ callerKey[c] \in refreshing
          /\ \A d \in Callers \ {c} : CallerOwns(d) => callerKey[d] # callerKey[c]
          /\ \A i \in 1 .. Len(queue) : queue[i] # callerKey[c]
          /\ \A w \in Workers : WorkerOwns(w) => workerKey[w] # callerKey[c]
    /\ \A i \in 1 .. Len(queue) :
          /\ queue[i] \in refreshing
          /\ \A j \in 1 .. Len(queue) : i # j => queue[i] # queue[j]
          /\ \A w \in Workers : WorkerOwns(w) => workerKey[w] # queue[i]
    /\ \A w \in Workers : WorkerOwns(w) =>
          /\ workerKey[w] \in refreshing
          /\ \A v \in Workers \ {w} : WorkerOwns(v) => workerKey[v] # workerKey[w]

\* Every key of refreshing_keys has an owner that will remove it.
NoLeakedKey ==
    \A k \in refreshing :
        \/ \E c \in Callers : CallerOwns(c) /\ callerKey[c] = k
        \/ \E i \in 1 .. Len(queue) : queue[i] = k
        \/ \E w \in Workers : WorkerOwns(w) /\ workerKey[w] = k

\* A worker removes its key from processing before the callback removes it
\* from refreshing_keys, so a refresh the plugin starts is never skipped as
\* AlreadyProcessing.
NeverSkipped == stats["dedup_skipped"] = 0

\* The comment at mod.rs:226-230: no key stays in refreshing_keys and blocks
\* its later refreshes, through rejections, timeouts and a shutdown that
\* finds tasks waiting for the mutex.
KeyUnlocked == \A k \in Keys : k \in refreshing ~> k \notin refreshing

\* shutdown gets through: holding the mutex across the join of the workers
\* does not keep the workers, or the tasks that wait for the mutex, forever.
ShutdownReturns == lock = "shutdown" ~> lock = "free"

\* The refreshes of k under way.
Flights(k) ==
    Cardinality({c \in Callers : CallerOwns(c) /\ callerKey[c] = k})
      + Cardinality({i \in 1 .. Len(queue) : queue[i] = k})
      + Cardinality({w \in Workers : WorkerOwns(w) /\ workerKey[w] = k})

Abstract == INSTANCE SingleFlight
                WITH flight <- [k \in Keys |-> Flights(k)]

\* The refresh machinery implements single flight.
ImplementsSingleFlight == Abstract!Spec
=============================================================================
