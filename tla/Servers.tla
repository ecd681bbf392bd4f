------------------------------ MODULE Servers ------------------------------
(***************************************************************************)
(* The DNS servers and their orderly end: the accept loops and connection  *)
(* tasks of src/src/server/{udp,tcp,dot,doh,doq}.rs, the launcher that     *)
(* keeps their join handles (launcher.rs), and main()'s shutdown           *)
(* (main.rs): signal the servers, wait for them, shut the plugins down.    *)
(*                                                                         *)
(* Every server runs its accept loop in one task and each request or       *)
(* connection in a task of its own.  The UDP, TCP and DoT servers hand     *)
(* every such task a permit of a semaphore, and count the permits to see   *)
(* that all tasks are done; DoH leaves that to axum-server; DoQ closes its *)
(* endpoint and does not wait.                                             *)
(***************************************************************************)
EXTENDS Naturals, Sequences, FiniteSets

CONSTANTS ServerIds,        \* servers that can be configured, several of one kind too
          KindOf,           \* the kind of each
          Lists,            \* the possible lists of configured servers
          Conns,            \* requests and connections
          MaxConnections,   \* ServerConfig.max_connections
          None

VARIABLES list,       \* the configured servers
          main,       \* where main() is
          signal,     \* the shutdown bus
          tasks,      \* ServerLauncher.tasks: servers whose handle is kept
          awaited,    \* the handle that wait_for_servers took out to await
          srv,        \* the state of every server's own task
          permits,    \* the permits available in its semaphore
          conn,       \* every connection: its server and where its task is
          timedOut    \* history: some wait of the shutdown ran into its timeout

vars == <<list, main, signal, tasks, awaited, srv, permits, conn, timedOut>>

Kinds == {"udp", "tcp", "dot", "doh", "doq"}
\* The servers with a semaphore, and those that wait for their tasks.
Permitted == {s \in ServerIds : KindOf[s] \in {"udp", "tcp", "dot"}}
Drained == {s \in ServerIds : KindOf[s] # "doq"}

Free == [server |-> None, stage |-> "none"]
InFlight(s) == {c \in Conns : conn[c].server = s}
ConnKind(c) == IF conn[c] = Free THEN None ELSE KindOf[conn[c].server]

Init ==
  /\ list \in Lists
  /\ main = "launching" /\ signal = FALSE
  /\ tasks = <<>> /\ awaited = None
  /\ srv = [s \in ServerIds |-> "down"]
  /\ permits = [s \in ServerIds |-> MaxConnections]
  /\ conn = [c \in Conns |-> Free]
  /\ timedOut = FALSE

-----------------------------------------------------------------------------
(* Starting.                                                               *)

\* launch_all(): the next configured server is bound and its task spawned,
\* with its handle kept; one that cannot be created is logged and left out.
\* DoT, DoH and DoQ bind inside their task, which ends at once when they cannot.
LaunchServer ==
  /\ main = "launching" /\ list # <<>>
  /\ list' = Tail(list)
  /\ \/ /\ tasks' = Append(tasks, Head(list))
        /\ \/ srv' = [srv EXCEPT ![Head(list)] = "running"]
           \/ /\ KindOf[Head(list)] \in {"dot", "doh", "doq"}
              /\ srv' = [srv EXCEPT ![Head(list)] = "stopped"]
     \/ UNCHANGED <<srv, tasks>>
  /\ UNCHANGED <<main, signal, awaited, permits, conn, timedOut>>

Launched ==
  /\ main = "launching" /\ list = <<>>
  /\ main' = "serving"
  /\ UNCHANGED <<list, signal, tasks, awaited, srv, permits, conn, timedOut>>

-----------------------------------------------------------------------------
(* Serving.                                                                *)

\* Where the task of a new connection starts: a datagram and an HTTP request
\* are there as a whole, a TLS connection begins with its handshake.
FirstStage(s) ==
  CASE KindOf[s] \in {"udp", "doh"} -> "handling"
    [] KindOf[s] \in {"tcp", "doq"} -> "reading"
    [] KindOf[s] = "dot" -> "handshake"

\* The accept loop takes a request or a connection.  With no permit left it
\* is dropped, which changes nothing.
Accept(s, c) ==
  /\ srv[s] = "running"
  /\ conn[c] = Free
  /\ IF s \in Permitted
       THEN permits[s] > 0 /\ permits' = [permits EXCEPT ![s] = @ - 1]
       ELSE UNCHANGED permits
  /\ conn' = [conn EXCEPT ![c] = [server |-> s, stage |-> FirstStage(s)]]
  /\ UNCHANGED <<list, main, signal, tasks, awaited, srv, timedOut>>

\* The task of a connection ends, for whatever reason: its permit is dropped.
End(c) ==
  /\ conn' = [conn EXCEPT ![c] = Free]
  /\ permits' = IF conn[c].server \in Permitted
                  THEN [permits EXCEPT ![conn[c].server] = @ + 1]
                  ELSE permits

Becomes(c, stage) ==
  /\ conn' = [conn EXCEPT ![c].stage = stage]
  /\ UNCHANGED permits

\* The TLS handshake of a DoT connection: there is no timeout on it.
Handshake(c) ==
  /\ conn[c].stage = "handshake"
  /\ Becomes(c, "reading") \/ End(c)
  /\ UNCHANGED <<list, main, signal, tasks, awaited, srv, timedOut>>

\* A query arrives in full; or the client closes, or sends something invalid.
ReadQuery(c) ==
  /\ conn[c].stage = "reading"
  /\ Becomes(c, "handling") \/ End(c)
  /\ UNCHANGED <<list, main, signal, tasks, awaited, srv, timedOut>>

\* The read timeout of TCP and DoT, which closes the connection.  A DoQ
\* stream has none.
ReadTimeout(c) ==
  /\ conn[c].stage = "reading" /\ ConnKind(c) # "doq"
  /\ End(c)
  /\ UNCHANGED <<list, main, signal, tasks, awaited, srv, timedOut>>

\* handler.handle() returns a response, or an error that ends the task (DoH
\* answers that with an HTTP status).
Handled(c) ==
  /\ conn[c].stage = "handling"
  /\ \/ Becomes(c, "writing")
     \/ ConnKind(c) # "doh" /\ End(c)
  /\ UNCHANGED <<list, main, signal, tasks, awaited, srv, timedOut>>

\* The response is written, or cannot be.  A DoT connection goes on with its
\* next query, the others are done.
Written(c) ==
  /\ conn[c].stage = "writing"
  /\ \/ ConnKind(c) = "dot" /\ Becomes(c, "reading")
     \/ End(c)
  /\ UNCHANGED <<list, main, signal, tasks, awaited, srv, timedOut>>

-----------------------------------------------------------------------------
(* The end of a server.                                                    *)

\* The select! of the accept loop sees the shutdown bus.  DoQ closes the
\* endpoint, which ends the connections that are reading or writing; a
\* request that is being handled goes on.
StopAccepting(s) ==
  /\ srv[s] = "running" /\ signal
  /\ srv' = [srv EXCEPT ![s] = IF s \in Drained THEN "draining" ELSE "stopped"]
  /\ conn' = IF KindOf[s] = "doq"
               THEN [c \in Conns |->
                       IF conn[c].server = s /\ conn[c].stage # "handling"
                         THEN Free ELSE conn[c]]
               ELSE conn
  /\ UNCHANGED <<list, main, signal, tasks, awaited, permits, timedOut>>

\* Mutant of AllDone: one permit may still be out.
AllDoneButOne(s) ==
  IF s \in Permitted THEN permits[s] + 1 >= MaxConnections ELSE InFlight(s) = {}

\* drain_permits(): all permits are back.  axum-server counts its connections.
AllDone(s) ==
  IF s \in Permitted THEN permits[s] >= MaxConnections ELSE InFlight(s) = {}

DrainDone(s) ==
  /\ srv[s] = "draining" /\ AllDone(s)
  /\ srv' = [srv EXCEPT ![s] = "stopped"]
  /\ UNCHANGED <<list, main, signal, tasks, awaited, permits, conn, timedOut>>

DrainTimeout(s) ==
  /\ srv[s] = "draining" /\ ~AllDone(s)
  /\ srv' = [srv EXCEPT ![s] = "stopped"]
  /\ timedOut' = TRUE
  /\ UNCHANGED <<list, main, signal, tasks, awaited, permits, conn>>

-----------------------------------------------------------------------------
(* main()'s shutdown.                                                      *)

\* A signal of the operating system: trigger_shutdown().
Signal ==
  /\ main = "serving"
  /\ signal' = TRUE
  /\ main' = "waiting"
  /\ UNCHANGED <<list, tasks, awaited, srv, permits, conn, timedOut>>

\* wait_for_servers() pops the last handle and awaits it.
PopHandle ==
  /\ main = "waiting" /\ awaited = None /\ tasks # <<>>
  /\ awaited' = tasks[Len(tasks)]
  /\ tasks' = SubSeq(tasks, 1, Len(tasks) - 1)
  /\ UNCHANGED <<list, main, signal, srv, permits, conn, timedOut>>

Joined ==
  /\ main = "waiting" /\ awaited # None
  /\ srv[awaited] = "stopped"
  /\ awaited' = None
  /\ UNCHANGED <<list, main, signal, tasks, srv, permits, conn, timedOut>>

ServersDone ==
  /\ main = "waiting" /\ awaited = None /\ tasks = <<>>
  /\ main' = "plugins"
  /\ UNCHANGED <<list, signal, tasks, awaited, srv, permits, conn, timedOut>>

\* Mutant of WaitTimeout: the handle is put back and awaited again.
WaitTimeoutAgain ==
  /\ main = "waiting" /\ awaited # None
  /\ tasks' = Append(tasks, awaited)
  /\ awaited' = None
  /\ UNCHANGED <<list, main, signal, srv, permits, conn, timedOut>>

\* After ten seconds the servers whose handle is still in the list are
\* aborted.  The one whose handle was taken out is not: its handle is only
\* dropped.  The tasks of the connections go on in either case.
WaitTimeout ==
  /\ main = "waiting"
  /\ awaited # None \/ tasks # <<>>
  /\ srv' = [s \in ServerIds |->
               IF (\E i \in 1..Len(tasks) : tasks[i] = s) /\ srv[s] # "stopped"
                 THEN "aborted" ELSE srv[s]]
  /\ tasks' = <<>> /\ awaited' = None
  /\ timedOut' = TRUE
  /\ main' = "plugins"
  /\ UNCHANGED <<list, signal, permits, conn>>

\* shutdown_all() returns, or its thirty seconds are over: the process ends.
Exit ==
  /\ main = "plugins"
  /\ main' = "exited"
  /\ UNCHANGED <<list, signal, tasks, awaited, srv, permits, conn, timedOut>>

-----------------------------------------------------------------------------
Alive == main # "exited"

ServerStep ==
  \E s \in ServerIds : StopAccepting(s) \/ DrainDone(s) \/ DrainTimeout(s)

MainStep == LaunchServer \/ Launched \/ PopHandle \/ Joined \/ ServersDone \/ WaitTimeout \/ Exit

ConnStep(c) == Handshake(c) \/ ReadQuery(c) \/ ReadTimeout(c) \/ Handled(c) \/ Written(c)

Next ==
  /\ Alive
  /\ \/ MainStep \/ Signal \/ ServerStep
     \/ \E c \in Conns : ConnStep(c) \/ \E s \in ServerIds : Accept(s, c)

\* What the runtime and the timeouts guarantee of a connection: a read ends,
\* at the latest when it times out; a request is handled; a datagram is sent.
\* Nothing is assumed of the steps that wait for the client: Accept,
\* Handshake, ReadQuery and the writing of a response on a stream.
ConnProgress(c) ==
  Alive /\ \/ ReadTimeout(c)
           \/ Handled(c)
           \/ ConnKind(c) = "udp" /\ Written(c)

Fairness ==
  /\ WF_vars(Alive /\ MainStep)
  /\ \A s \in ServerIds :
       /\ WF_vars(Alive /\ StopAccepting(s))
       /\ WF_vars(Alive /\ (DrainDone(s) \/ DrainTimeout(s)))
  /\ \A c \in Conns : WF_vars(ConnProgress(c))

Spec == Init /\ [][Next]_vars /\ Fairness

-----------------------------------------------------------------------------
(***************************************************************************)
(* "Stop listeners first so no new queries arrive, then let in-flight      *)
(* requests drain before plugins shut down" (main.rs:203-204): when the    *)
(* plugins are shut down and no wait was cut short, no request of a        *)
(* server that drains is in flight and none can arrive any more.  (A DoQ   *)
(* request may be: its server does not wait.)                              *)
(***************************************************************************)
DrainBeforePlugins ==
  (main \in {"plugins", "exited"} /\ ~timedOut) =>
    \A s \in ServerIds : srv[s] # "running" /\ (s \in Drained => InFlight(s) = {})

(***************************************************************************)
(* A client that sends nothing does not keep a permit: a UDP task ends, a  *)
(* TCP task ends or is writing its response, and a DoT connection does not *)
(* wait for its next query for ever (tcp.rs:184-205, dot.rs:204-238).      *)
(* Nothing bounds a DoT handshake or the writing of a response.            *)
(***************************************************************************)
PermitReturned ==
  \A c \in Conns :
    /\ (ConnKind(c) = "udp") ~> (conn[c] = Free \/ ~Alive)
    /\ (ConnKind(c) = "tcp") ~> (conn[c].stage \in {"none", "writing"} \/ ~Alive)
    /\ (ConnKind(c) = "dot" /\ conn[c].stage = "reading")
         ~> (conn[c].stage # "reading" \/ ~Alive)

(***************************************************************************)
(* After the signal the process ends, even when clients stall and requests *)
(* never finish: every wait of the shutdown is bounded (main.rs:205-215,   *)
(* launcher.rs:160-179, common.rs:32-43).                                  *)
(***************************************************************************)
ShutdownEnds == signal ~> (main = "exited")
=============================================================================
