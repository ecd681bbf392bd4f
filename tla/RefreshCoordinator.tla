------------------------- MODULE RefreshCoordinator -------------------------
(***************************************************************************)
(* The worker pool of src/src/utils/task_queue/refresh_coordinator.rs: a   *)
(* bounded tokio mpsc channel drained by a fixed set of workers, with a    *)
(* concurrent set `processing` that keeps one key from being refreshed     *)
(* twice at a time.                                                        *)
(*                                                                         *)
(* A RefreshTask is represented by its key; its message and handler only   *)
(* decide how execute_task ends, which is a choice among Outcomes.         *)
(* A caller is one execution of `enqueue`; enqueue never awaits, but the   *)
(* runtime has several threads, so its accesses to the shared set, the     *)
(* channel and the counters are steps of their own.                        *)
(***************************************************************************)
EXTENDS Naturals, Sequences, FiniteSets

CONSTANTS
    Keys,       \* cache keys
    NoKey,      \* key of a caller or worker that holds no task
    Callers,    \* executions of enqueue that may be under way together
    Workers,    \* worker_count tokio tasks running worker_loop
    QueueCap,   \* queue_capacity of the channel
    MaxCalls    \* bound on the calls of enqueue in a behaviour

ASSUME CapAssumption == QueueCap \in Nat \ {0}  \* mpsc::channel(0) panics
ASSUME NoKeyAssumption == NoKey \notin Keys
ASSUME MaxCallsAssumption == MaxCalls \in Nat

VARIABLES
    processing,   \* DashSet of the keys accepted and not yet finished
    queue,        \* the channel's buffer, oldest first
    txOpen,       \* FALSE once shutdown dropped the only Sender
    callerPc,     \* where each caller is in enqueue
    callerKey,    \* task.key of each caller
    workerPc,     \* where each worker is in worker_loop
    workerKey,    \* the key of the task a worker holds
    stats,        \* RefreshStats
    calls         \* enqueue calls so far, only to bound the behaviours

coordVars == <<processing, queue, txOpen, callerPc, callerKey,
               workerPc, workerKey, stats, calls>>

-----------------------------------------------------------------------------

StatNames == {"enqueued", "processed", "rejected", "dedup_skipped",
              "success", "failed", "timeout"}

\* Ok(Ok(_)), Ok(Err(_)) and Err(Elapsed) of the timeout around execute_task.
Outcomes == {"success", "failed", "timeout"}

\* "idle"   : not in enqueue
\* "waiting": a spawned task that has not entered enqueue yet (see CacheRefresh)
\* "asleep" : the invalidation fallback of the cache plugin, before cache.pop
\* "popped" : the same, before refreshing_keys.remove (see CacheRefresh)
\* "insert" : before processing.insert
\* "send"   : key inserted, before tx.try_send
\* "record" : task sent, before stats.record_enqueued
\* "undo"   : try_send failed with Full, before processing.remove
\* "undoClosed": try_send failed with Closed, before processing.remove
\* "failed" : enqueue returns Err to its caller
CallerPcs == {"idle", "waiting", "asleep", "popped", "insert", "send",
              "record", "undo", "undoClosed", "failed"}

\* "recv"   : waiting for the receiver mutex or for a task
\* "exec"   : in execute_task
\* "release": task executed and counted, before processing.remove
\* "notify" : key released, before on_complete
\* "exited" : recv returned None
WorkerPcs == {"recv", "exec", "release", "notify", "exited"}

Bump(s, n) == [s EXCEPT ![n] = @ + 1]

\* The callers that borrow the coordinator.
InEnqueue(c) == callerPc[c] \in {"insert", "send", "record", "undo",
                                 "undoClosed", "failed"}

\* The receiver lives in the workers' Arc: it is gone when every worker left.
ReceiverDropped == \A w \in Workers : workerPc[w] = "exited"

\* new_with_callback; worker_count may be 0, and then the receiver is dropped
\* at once.
CoordInit ==
    /\ processing = {}
    /\ queue = <<>>
    /\ txOpen = TRUE
    /\ callerPc = [c \in Callers |-> "idle"]
    /\ callerKey = [c \in Callers |-> NoKey]
    /\ \E pc \in {"recv", "exited"} : workerPc = [w \in Workers |-> pc]
    /\ workerKey = [w \in Workers |-> NoKey]
    /\ stats = [n \in StatNames |-> 0]
    /\ calls = 0

-----------------------------------------------------------------------------
(* enqueue *)

\* The caller's future ends; its task is moved away or dropped.
ReturnToIdle(c) ==
    /\ callerPc' = [callerPc EXCEPT ![c] = "idle"]
    /\ callerKey' = [callerKey EXCEPT ![c] = NoKey]

\* Mutant of InsertProcessing: a duplicate takes the branch that gives the
\* key back.
InsertDuplicateUndone(c) ==
    /\ callerPc[c] = "insert"
    /\ processing' = processing \cup {callerKey[c]}
    /\ callerPc' = [callerPc EXCEPT
            ![c] = IF callerKey[c] \in processing THEN "undo" ELSE "send"]
    /\ UNCHANGED <<queue, txOpen, callerKey, workerPc, workerKey, stats, calls>>

\* processing.insert: a key already in the set makes enqueue return
\* AlreadyProcessing.
InsertProcessing(c) ==
    /\ callerPc[c] = "insert"
    /\ \/ /\ callerKey[c] \in processing
          /\ stats' = Bump(stats, "dedup_skipped")
          /\ callerPc' = [callerPc EXCEPT ![c] = "failed"]
          /\ UNCHANGED processing
       \/ /\ callerKey[c] \notin processing
          /\ processing' = processing \cup {callerKey[c]}
          /\ callerPc' = [callerPc EXCEPT ![c] = "send"]
          /\ UNCHANGED stats
    /\ UNCHANGED <<queue, txOpen, callerKey, workerPc, workerKey, calls>>

\* tx.try_send: Ok, Full or Closed.
TrySend(c) ==
    /\ callerPc[c] = "send"
    /\ \/ /\ ~ReceiverDropped
          /\ Len(queue) < QueueCap
          /\ queue' = Append(queue, callerKey[c])
          /\ callerPc' = [callerPc EXCEPT ![c] = "record"]
       \/ /\ ~ReceiverDropped
          /\ Len(queue) >= QueueCap
          /\ callerPc' = [callerPc EXCEPT ![c] = "undo"]
          /\ UNCHANGED queue
       \/ /\ ReceiverDropped
          /\ callerPc' = [callerPc EXCEPT ![c] = "undoClosed"]
          /\ UNCHANGED queue
    /\ UNCHANGED <<processing, txOpen, callerKey, workerPc, workerKey,
                   stats, calls>>

\* stats.record_enqueued and Ok(()).
RecordEnqueued(c) ==
    /\ callerPc[c] = "record"
    /\ stats' = Bump(stats, "enqueued")
    /\ ReturnToIdle(c)
    /\ UNCHANGED <<processing, queue, txOpen, workerPc, workerKey, calls>>

\* Mutant of UndoFull: the Full branch forgets the key.
UndoFullKeepsKey(c) ==
    /\ callerPc[c] = "undo"
    /\ stats' = Bump(stats, "rejected")
    /\ callerPc' = [callerPc EXCEPT ![c] = "failed"]
    /\ UNCHANGED <<processing, queue, txOpen, callerKey, workerPc, workerKey,
                   calls>>

\* The Full branch: give the key back and count the rejection.
UndoFull(c) ==
    /\ callerPc[c] = "undo"
    /\ processing' = processing \ {callerKey[c]}
    /\ stats' = Bump(stats, "rejected")
    /\ callerPc' = [callerPc EXCEPT ![c] = "failed"]
    /\ UNCHANGED <<queue, txOpen, callerKey, workerPc, workerKey, calls>>

\* The Closed branch: give the key back.
UndoClosed(c) ==
    /\ callerPc[c] = "undoClosed"
    /\ processing' = processing \ {callerKey[c]}
    /\ callerPc' = [callerPc EXCEPT ![c] = "failed"]
    /\ UNCHANGED <<queue, txOpen, callerKey, workerPc, workerKey, stats, calls>>

-----------------------------------------------------------------------------
(* worker_loop *)

\* recv under the receiver mutex returns the oldest task.
Recv(w) ==
    /\ workerPc[w] = "recv"
    /\ queue # <<>>
    /\ workerKey' = [workerKey EXCEPT ![w] = Head(queue)]
    /\ queue' = Tail(queue)
    /\ workerPc' = [workerPc EXCEPT ![w] = "exec"]
    /\ UNCHANGED <<processing, txOpen, callerPc, callerKey, stats, calls>>

\* execute_task under REFRESH_TIMEOUT ends with outcome o and is counted.
ExecuteTask(w, o) ==
    /\ workerPc[w] = "exec"
    /\ stats' = Bump(Bump(stats, "processed"), o)
    /\ workerPc' = [workerPc EXCEPT ![w] = "release"]
    /\ UNCHANGED <<processing, queue, txOpen, callerPc, callerKey, workerKey,
                   calls>>

\* processing.remove(&key).
ReleaseKey(w) ==
    /\ workerPc[w] = "release"
    /\ processing' = processing \ {workerKey[w]}
    /\ workerPc' = [workerPc EXCEPT ![w] = "notify"]
    /\ UNCHANGED <<queue, txOpen, callerPc, callerKey, workerKey, stats, calls>>

\* on_complete(&key, success), a no-op unless the owner passed a callback.
OnComplete(w) ==
    /\ workerPc[w] = "notify"
    /\ workerPc' = [workerPc EXCEPT ![w] = "recv"]
    /\ workerKey' = [workerKey EXCEPT ![w] = NoKey]
    /\ UNCHANGED <<processing, queue, txOpen, callerPc, callerKey, stats, calls>>

\* Mutant of WorkerExit: a worker leaves as soon as the Sender is gone.
WorkerExitAtOnce(w) ==
    /\ workerPc[w] = "recv"
    /\ ~txOpen
    /\ workerPc' = [workerPc EXCEPT ![w] = "exited"]
    /\ UNCHANGED <<processing, queue, txOpen, callerPc, callerKey, workerKey,
                   stats, calls>>

\* recv returns None: the Sender is gone and the buffer is empty.
WorkerExit(w) ==
    /\ workerPc[w] = "recv"
    /\ ~txOpen
    /\ queue = <<>>
    /\ workerPc' = [workerPc EXCEPT ![w] = "exited"]
    /\ UNCHANGED <<processing, queue, txOpen, callerPc, callerKey, workerKey,
                   stats, calls>>

Worker(w) ==
    \/ Recv(w)
    \/ \E o \in Outcomes : ExecuteTask(w, o)
    \/ ReleaseKey(w)
    \/ OnComplete(w)
    \/ WorkerExit(w)

-----------------------------------------------------------------------------
(* The coordinator on its own, with an arbitrary owner. *)

\* Some caller starts enqueue for key k.
Submit(c, k) ==
    /\ txOpen
    /\ callerPc[c] = "idle"
    /\ calls < MaxCalls
    /\ calls' = calls + 1
    /\ callerKey' = [callerKey EXCEPT ![c] = k]
    /\ callerPc' = [callerPc EXCEPT ![c] = "insert"]
    /\ UNCHANGED <<processing, queue, txOpen, workerPc, workerKey, stats>>

\* The owner drops the error that enqueue returned.
DropError(c) ==
    /\ callerPc[c] = "failed"
    /\ ReturnToIdle(c)
    /\ UNCHANGED <<processing, queue, txOpen, workerPc, workerKey, stats, calls>>

Enqueue(c) ==
    \/ InsertProcessing(c) \/ TrySend(c) \/ RecordEnqueued(c)
    \/ UndoFull(c) \/ UndoClosed(c)

\* shutdown(self): it owns the coordinator, so nobody is inside enqueue; it
\* drops the Sender and joins the workers.
BeginShutdown ==
    /\ txOpen
    /\ \A c \in Callers : ~InEnqueue(c)
    /\ txOpen' = FALSE
    /\ UNCHANGED <<processing, queue, callerPc, callerKey, workerPc, workerKey,
                   stats, calls>>

\* Everything has returned.
CoordDone ==
    /\ ~txOpen
    /\ ReceiverDropped
    /\ \A c \in Callers : callerPc[c] = "idle"
    /\ UNCHANGED coordVars

CoordNext ==
    \/ \E c \in Callers, k \in Keys : Submit(c, k)
    \/ \E c \in Callers : Enqueue(c) \/ DropError(c)
    \/ \E w \in Workers : Worker(w)
    \/ BeginShutdown
    \/ CoordDone

\* Spawned tasks are polled by the runtime and every await in worker_loop is
\* bounded by REFRESH_TIMEOUT or by the channel.
CoordFairness ==
    /\ \A c \in Callers : WF_coordVars(Enqueue(c) \/ DropError(c))
    /\ \A w \in Workers : WF_coordVars(Worker(w))

CoordSpec == CoordInit /\ [][CoordNext]_coordVars /\ CoordFairness

-----------------------------------------------------------------------------
(* Properties *)

\* The type invariant; a task in hand has a key.
CoordTypeOK ==
    /\ processing \subseteq Keys
    /\ queue \in Seq(Keys)
    /\ txOpen \in BOOLEAN
    /\ callerPc \in [Callers -> CallerPcs]
    /\ callerKey \in [Callers -> Keys \cup {NoKey}]
    /\ \A c \in Callers : callerPc[c] # "idle" => callerKey[c] \in Keys
    /\ workerPc \in [Workers -> WorkerPcs]
    /\ workerKey \in [Workers -> Keys \cup {NoKey}]
    /\ \A w \in Workers :
          workerPc[w] \in {"exec", "release", "notify"} => workerKey[w] \in Keys
    /\ stats \in [StatNames -> Nat]
    /\ calls \in 0 .. MaxCalls

\* The callers and the workers that are responsible for their key's
\* membership in processing.
CallerHolds(c) == callerPc[c] \in {"send", "undo", "undoClosed"}
WorkerHolds(w) == workerPc[w] \in {"exec", "release"}

\* Every key of processing is in the hands of exactly one caller, queue place
\* or worker, and all of those are in processing: what the removals in
\* enqueue and worker_loop rely on when they remove by key alone.
OneOwner ==
    /\ \A c \in Callers : CallerHolds(c) =>
          /\ callerKey[c] \in processing
          /\ \A d \in Callers \ {c} : CallerHolds(d) => callerKey[d] # callerKey[c]
          /\ \A i \in 1 .. Len(queue) : queue[i] # callerKey[c]
          /\ \A w \in Workers : WorkerHolds(w) => workerKey[w] # callerKey[c]
    /\ \A i \in 1 .. Len(queue) :
          /\ queue[i] \in processing
          /\ \A j \in 1 .. Len(queue) : i # j => queue[i] # queue[j]
          /\ \A w \in Workers : WorkerHolds(w) => workerKey[w] # queue[i]
    /\ \A w \in Workers : WorkerHolds(w) =>
          /\ workerKey[w] \in processing
          /\ \A v \in Workers \ {w} : WorkerHolds(v) => workerKey[v] # workerKey[w]

\* "Deduplication (same key won't refresh twice concurrently)",
\* refresh_coordinator.rs:4: two workers never execute one key together, and
\* a key that is being executed is not waiting in the queue.
NoConcurrentRefresh ==
    \A w \in Workers : workerPc[w] = "exec" =>
        /\ \A v \in Workers : v # w /\ workerPc[v] = "exec"
                                => workerKey[v] # workerKey[w]
        /\ \A i \in 1 .. Len(queue) : queue[i] # workerKey[w]

\* No key stays in processing without an owner that will remove it.
NoOrphanKey ==
    \A k \in processing :
        \/ \E c \in Callers : CallerHolds(c) /\ callerKey[c] = k
        \/ \E i \in 1 .. Len(queue) : queue[i] = k
        \/ \E w \in Workers : WorkerHolds(w) /\ workerKey[w] = k

\* Every task that try_send accepted is in exactly one place: still to be
\* counted by its caller, queued, executing, or processed.
TasksAccounted ==
    stats["enqueued"] + Cardinality({c \in Callers : callerPc[c] = "record"})
      = stats["processed"] + Len(queue)
          + Cardinality({w \in Workers : workerPc[w] = "exec"})

\* ShutdownDrains: shutdown "Allows pending tasks in queue to be processed before
\* exit" (refresh_coordinator.rs:192): once a worker has left, nothing is queued,
\* once all have, nothing is in processing either, and no accepted task was lost
\* on the way.
ShutdownDrains ==
    /\ (\E w \in Workers : workerPc[w] = "exited") => queue = <<>>
    /\ (~txOpen /\ ReceiverDropped) => processing = {}
    /\ TasksAccounted
=============================================================================
