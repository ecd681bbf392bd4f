------------------------------- MODULE UdpMux -------------------------------
(***************************************************************************)
(* Multiplexing of upstream queries over one UDP socket                    *)
(* (forward_query_udp, read_loop and PendingGuard of                       *)
(* src/src/plugins/forward/engine.rs).                                     *)
(*                                                                         *)
(* A task is one call of forward_query_udp.  It draws a query id, enters   *)
(* itself in `pending`, sends and waits for its oneshot channel, a timeout *)
(* or an abort; read_loop looks an answer's id up twice, once to compare   *)
(* the peer and once to remove the entry.  Tasks run on several threads.   *)
(*                                                                         *)
(* Datagrams may be lost, delayed for any time and repeated: an answer,    *)
(* once sent, can arrive at any later time, any number of times, or never. *)
(* An answer is known by the task whose question it answers.               *)
(***************************************************************************)
EXTENDS Naturals

CONSTANTS
    MaxTasks,    \* bound on the calls of forward_query_udp
    QidSpace,    \* number of query ids, 2^16 in the code
    NUpstreams   \* number of configured upstreams

ASSUME MuxAssumption ==
    /\ MaxTasks \in Nat
    /\ QidSpace \in Nat \ {0, 1}
    /\ NUpstreams \in Nat \ {0}

VARIABLES
    pc,          \* where each task is
    qid,         \* assigned_qid of each task, 0 before it has one
    peer,        \* the upstream each task asks
    inbox,       \* the answer in its oneshot channel, 0 if none
    closed,      \* tasks whose Sender was dropped with another's entry
    pending,     \* query id -> the task waiting under it, 0 if none
    allocs,      \* number of draws from next_qid so far
    answers,     \* the tasks whose question an upstream has answered
    reading      \* the answer read_loop holds between its two lookups, or 0

muxVars == <<pc, qid, peer, inbox, closed, pending, allocs, answers, reading>>

-----------------------------------------------------------------------------

Tasks == 1 .. MaxTasks
Qids == 0 .. QidSpace - 1
Upstreams == 0 .. NUpstreams - 1

\* "unused" : no such call yet
\* "alloc"  : drawing query ids
\* "insert" : one is free, before pending.insert
\* "send"   : entered, before send_to has returned
\* "wait"   : in the select over the answer and the timeout
\* "ok", "err": the call returned
\* "counted", "recorded", "failed": the caller has the outcome (see Forward)
\* "aborted": the call was dropped
Pcs == {"unused", "alloc", "insert", "send", "wait", "ok", "err",
        "counted", "recorded", "failed", "aborted"}

\* Mutant of next_qid: the counter is not advanced.
next_qid_stuck == 1

\* The value next_qid.fetch_add(1) returns: an AtomicU16 that starts at 1.
next_qid == (allocs + 1) % QidSpace

\* The tasks that hold a PendingGuard.
Guarded(t) == pc[t] \in {"send", "wait"}

\* A task that sent its question.
Asked(t) == pc[t] \notin {"unused", "alloc", "insert", "send"} /\ qid[t] # 0

\* The entry under t's query id is replaced or removed; if it is another
\* task's, that task's Sender is dropped.
DropEntry(t) == closed' = closed \cup ({pending[qid[t]]} \ {0, t})

MuxInit ==
    /\ pc = [t \in Tasks |-> "unused"]
    /\ qid = [t \in Tasks |-> 0]
    /\ peer = [t \in Tasks |-> 0]
    /\ inbox = [t \in Tasks |-> 0]
    /\ closed = {}
    /\ pending = [i \in Qids |-> 0]
    /\ allocs = 0
    /\ answers = {}
    /\ reading = 0

-----------------------------------------------------------------------------
(* forward_query_udp *)

\* The call starts, for upstream u.
Start(t, u) ==
    /\ pc[t] = "unused"
    /\ pc' = [pc EXCEPT ![t] = "alloc"]
    /\ peer' = [peer EXCEPT ![t] = u]
    /\ UNCHANGED <<qid, inbox, closed, pending, allocs, answers, reading>>

\* The loop that draws a query id: not 0 and not pending.
Alloc(t) ==
    /\ pc[t] = "alloc"
    /\ allocs' = allocs + 1
    /\ IF next_qid # 0 /\ pending[next_qid] = 0
       THEN /\ qid' = [qid EXCEPT ![t] = next_qid]
            /\ pc' = [pc EXCEPT ![t] = "insert"]
       ELSE UNCHANGED <<qid, pc>>
    /\ UNCHANGED <<peer, inbox, closed, pending, answers, reading>>

\* pending.insert; an entry that is there is dropped with its Sender.
Insert(t) ==
    /\ pc[t] = "insert"
    /\ DropEntry(t)
    /\ pending' = [pending EXCEPT ![qid[t]] = t]
    /\ pc' = [pc EXCEPT ![t] = "send"]
    /\ UNCHANGED <<qid, peer, inbox, allocs, answers, reading>>

\* PendingGuard::drop removes whatever is entered under the query id.
DropGuard(t) ==
    /\ pending' = [pending EXCEPT ![qid[t]] = 0]
    /\ DropEntry(t)

Send(t) ==
    /\ pc[t] = "send"
    /\ pc' = [pc EXCEPT ![t] = "wait"]
    /\ UNCHANGED <<qid, peer, inbox, closed, pending, allocs, answers, reading>>

SendFails(t) ==
    /\ pc[t] = "send"
    /\ DropGuard(t)
    /\ pc' = [pc EXCEPT ![t] = "err"]
    /\ UNCHANGED <<qid, peer, inbox, allocs, answers, reading>>

\* The answer, or the closed channel, ends the select.
Received(t) ==
    /\ pc[t] = "wait"
    /\ inbox[t] # 0 \/ t \in closed
    /\ DropGuard(t)
    /\ pc' = [pc EXCEPT ![t] = IF inbox[t] # 0 THEN "ok" ELSE "err"]
    /\ UNCHANGED <<qid, peer, inbox, allocs, answers, reading>>

\* Mutant of Timeout: it covers the sending only.
TimeoutOnSend(t) ==
    /\ pc[t] = "send"
    /\ DropGuard(t)
    /\ pc' = [pc EXCEPT ![t] = "err"]
    /\ UNCHANGED <<qid, peer, inbox, allocs, answers, reading>>

\* The timeout ends it, unless the channel is ready: the select is biased.
Timeout(t) ==
    /\ pc[t] = "wait"
    /\ inbox[t] = 0 /\ t \notin closed
    /\ DropGuard(t)
    /\ pc' = [pc EXCEPT ![t] = "err"]
    /\ UNCHANGED <<qid, peer, inbox, allocs, answers, reading>>

\* Mutant of AbortTask: the entry stays.
AbortKeepsEntry(t) ==
    /\ pc[t] \in {"alloc", "send", "wait"}
    /\ pc' = [pc EXCEPT ![t] = "aborted"]
    /\ UNCHANGED <<qid, peer, inbox, closed, pending, allocs, answers, reading>>

\* The future is dropped at an await.
AbortTask(t) ==
    /\ pc[t] \in {"alloc", "send", "wait"}
    /\ IF Guarded(t) THEN DropGuard(t) ELSE UNCHANGED <<pending, closed>>
    /\ pc' = [pc EXCEPT ![t] = "aborted"]
    /\ UNCHANGED <<qid, peer, inbox, allocs, answers, reading>>

Ask(t) == Alloc(t) \/ Insert(t) \/ Send(t) \/ SendFails(t) \/ Received(t) \/ Timeout(t)

-----------------------------------------------------------------------------
(* The network and read_loop *)

\* The upstream got t's question and answers it.
UpstreamAnswers(t) ==
    /\ Asked(t)
    /\ answers' = answers \cup {t}
    /\ UNCHANGED <<pc, qid, peer, inbox, closed, pending, allocs, reading>>

\* An answer arrives whose id is pending with the peer it comes from.  Any
\* other is dropped.
LookupPeer(t) ==
    /\ reading = 0
    /\ t \in answers
    /\ pending[qid[t]] # 0
    /\ peer[pending[qid[t]]] = peer[t]
    /\ reading' = t
    /\ UNCHANGED <<pc, qid, peer, inbox, closed, pending, allocs, answers>>

\* pending.remove, and the answer goes to whoever was entered.
Dispatch ==
    /\ reading # 0
    /\ pending' = [pending EXCEPT ![qid[reading]] = 0]
    /\ inbox' = IF pending[qid[reading]] = 0 THEN inbox
                ELSE [inbox EXCEPT ![pending[qid[reading]]] = reading]
    /\ reading' = 0
    /\ UNCHANGED <<pc, qid, peer, closed, allocs, answers>>

Network == Dispatch \/ \E t \in Tasks : UpstreamAnswers(t) \/ LookupPeer(t)

-----------------------------------------------------------------------------
(* The multiplexer on its own, with an arbitrary caller *)

MuxNext ==
    \/ \E t \in Tasks, u \in Upstreams : Start(t, u)
    \/ \E t \in Tasks : Ask(t) \/ AbortTask(t)
    \/ Network

MuxSpec == MuxInit /\ [][MuxNext]_muxVars

-----------------------------------------------------------------------------
(* Properties *)

\* The type invariant.
MuxTypeOK ==
    /\ pc \in [Tasks -> Pcs]
    /\ qid \in [Tasks -> Qids]
    /\ peer \in [Tasks -> Upstreams]
    /\ inbox \in [Tasks -> Tasks \cup {0}]
    /\ closed \subseteq Tasks
    /\ pending \in [Qids -> Tasks \cup {0}]
    /\ allocs \in Nat
    /\ answers \subseteq Tasks
    /\ reading \in Tasks \cup {0}

\* "Avoids cross-request response pollution under concurrency" (engine.rs:141):
\* as long as the 16-bit counter has not come round, a task is only ever given
\* the answer to its own question, and never loses its entry to another task,
\* whatever is late, repeated, aborted or timed out.
NoPollution ==
    allocs < QidSpace =>
        /\ closed = {}
        /\ \A t \in Tasks : inbox[t] \in {0, t}

\* "a leaked entry would pin its qid and eventually hot-spin the allocator"
\* (engine.rs:312): every entry of pending belongs to a task that is under way
\* and will remove it, after a wrap too.
NoLeakedPending ==
    \A i \in Qids : pending[i] # 0 => Guarded(pending[i]) /\ qid[pending[i]] = i
=============================================================================
