---------------------------- MODULE AuditEvents ----------------------------
(***************************************************************************)
(* Security events and what becomes of them: the broadcast bus of          *)
(* src/src/plugins/audit/event_bus.rs and the alert engine that subscribes *)
(* to it (src/src/web/alerts/engine.rs).                                   *)
(*                                                                         *)
(* The bus keeps the last `capacity' events; a subscriber that falls       *)
(* further behind is told how many it lost and goes on with the oldest one *)
(* that is left.  The engine handles one event at a time and, while it     *)
(* retries a webhook, falls behind.                                        *)
(***************************************************************************)
EXTENDS Integers, Sequences, FiniteSetsExt

CONSTANTS capacity,      \* of the bus (a power of two)
          Viewers,       \* subscribers that only read (WebSocket clients)
          Engine,        \* the alert engine's subscription
          Messages,      \* what the events of the rule's type say
          OtherType,     \* an event of another type
          MaxEvents,     \* bound: events published
          max_alerts, Aggregated,   \* alerts kept; how many are looked at for a match
          retries,       \* webhook attempts
          Windows        \* bound: how often the deduplication window may pass

VARIABLES events,        \* the events sent so far, oldest first
          next,          \* the next event of each subscription (0: none)
          kept,          \* history: where next would be, had nothing been lost
          gone,          \* history: what subscribers that left had lost
          events_published, events_dropped, active_subscribers,  \* EventBusStats
          engine,        \* what the alert engine does: [pc, alert, attempt]
          recent,        \* the rule fired within the deduplication window
          windows,       \* how often the window passed
          alerts,        \* recent alerts, newest first
          alert_counter  \* alerts ever created

busVars == <<events, next, kept, gone, events_published, events_dropped, active_subscribers>>
engineVars == <<engine, recent, windows, alerts, alert_counter>>
vars == <<busVars, engineVars>>

Subs == Viewers \cup {Engine}
Idle == [pc |-> "recv", alert |-> 0, attempt |-> 0]

Init ==
  /\ events = <<>>
  /\ next = [s \in Subs |-> 0]
  /\ kept = next /\ gone = 0
  /\ events_published = 0 /\ events_dropped = 0 /\ active_subscribers = 0
  /\ engine = Idle /\ recent = FALSE /\ windows = 0
  /\ alerts = <<>> /\ alert_counter = 0

Receivers == {s \in Subs : next[s] > 0}

\* publish_security(): with no receiver the event is dropped, which changes
\* nothing.
Publish(e) ==
  /\ Receivers # {}
  /\ Len(events) < MaxEvents
  /\ events' = Append(events, e)
  /\ events_published' = events_published + 1
  /\ UNCHANGED <<next, kept, gone, events_dropped, active_subscribers, engineVars>>

\* subscribe_security(): from a WebSocket client, or when the engine starts.
Subscribe(s) ==
  /\ next[s] = 0
  /\ next' = [next EXCEPT ![s] = Len(events) + 1]
  /\ kept' = [kept EXCEPT ![s] = Len(events) + 1]
  /\ active_subscribers' = active_subscribers + 1
  /\ UNCHANGED <<events, gone, events_published, events_dropped, engineVars>>

Lost(s) == next[s] - kept[s]

\* The subscriber is dropped; events it has not received are not lost on it.
Unsubscribe(s) ==
  /\ s \in Viewers /\ next[s] > 0
  /\ gone' = gone + Lost(s)
  /\ next' = [next EXCEPT ![s] = 0]
  /\ kept' = [kept EXCEPT ![s] = 0]
  /\ active_subscribers' = active_subscribers - 1
  /\ UNCHANGED <<events, events_published, events_dropped, engineVars>>

\* The oldest event that the bus still holds.
Oldest == IF Len(events) > capacity THEN Len(events) - capacity + 1 ELSE 1

Lagged(s) == next[s] < Oldest

\* Mutant of SkipLagged: what was lost is not counted.
SkipLaggedUncounted(s) ==
  /\ s \in Receivers /\ Lagged(s)
  /\ s = Engine => engine.pc = "recv"
  /\ next' = [next EXCEPT ![s] = Oldest]
  /\ UNCHANGED <<events, kept, gone, events_published, events_dropped, active_subscribers, engineVars>>

\* RecvError::Lagged in recv(): the lost events are counted, and the loop
\* receives again.
SkipLagged(s) ==
  /\ s \in Receivers /\ Lagged(s)
  /\ s = Engine => engine.pc = "recv"
  /\ events_dropped' = events_dropped + (Oldest - next[s])
  /\ next' = [next EXCEPT ![s] = Oldest]
  /\ UNCHANGED <<events, kept, gone, events_published, active_subscribers, engineVars>>

Takes(s) ==
  /\ s \in Receivers /\ ~Lagged(s) /\ next[s] <= Len(events)
  /\ next' = [next EXCEPT ![s] = @ + 1]
  /\ kept' = [kept EXCEPT ![s] = @ + 1]
  /\ UNCHANGED <<events, gone, events_published, events_dropped, active_subscribers>>

Recv(s) ==
  /\ s \in Viewers
  /\ Takes(s)
  /\ UNCHANGED engineVars

\* The engine's loop: process_event() finds a matching rule or not, and
\* should_deduplicate() lets one event per window through.
EngineRecv ==
  /\ engine.pc = "recv"
  /\ Takes(Engine)
  /\ LET e == events[next[Engine]] IN
     IF e # OtherType /\ ~recent
       THEN recent' = TRUE /\ engine' = [pc |-> "store", alert |-> e, attempt |-> 0]
       ELSE UNCHANGED <<recent, engine>>
  /\ UNCHANGED <<windows, alerts, alert_counter>>

\* dedup_window_secs pass.
WindowPasses ==
  /\ recent /\ windows < Windows
  /\ recent' = FALSE
  /\ windows' = windows + 1
  /\ UNCHANGED <<busVars, engine, alerts, alert_counter>>

\* The places, among the newest alerts, of one that says the same and that
\* nobody has acknowledged.
Matching(m) ==
  {i \in 1..Len(alerts) : i <= Aggregated /\ alerts[i].message = m /\ ~alerts[i].acknowledged}

Newest(n) == SubSeq(alerts, 1, IF Len(alerts) < n THEN Len(alerts) ELSE n)

\* Mutant of AddAlert: a repetition is listed again.
AddAlertAlways ==
  /\ engine.pc = "store"
  /\ alerts' = <<[message |-> engine.alert, count |-> 1, acknowledged |-> FALSE]>>
               \o Newest(max_alerts - 1)
  /\ alert_counter' = alert_counter + 1
  /\ engine' = [engine EXCEPT !.pc = "webhook"]
  /\ UNCHANGED <<busVars, recent, windows>>

\* add_alert(): count a repetition, or keep the alert and drop the oldest.
AddAlert ==
  LET same == Matching(engine.alert) IN
  /\ engine.pc = "store"
  /\ IF same # {}
       THEN /\ alerts' = [alerts EXCEPT ![Min(same)].count = @ + 1]
            /\ UNCHANGED alert_counter
       ELSE /\ alerts' = <<[message |-> engine.alert, count |-> 1, acknowledged |-> FALSE]>>
                         \o Newest(max_alerts - 1)
            /\ alert_counter' = alert_counter + 1
  /\ engine' = [engine EXCEPT !.pc = "webhook"]
  /\ UNCHANGED <<busVars, recent, windows>>

\* send_webhook(): an attempt succeeds, or fails and is repeated after a
\* pause until the attempts are used up.
Webhook ==
  /\ engine.pc = "webhook"
  /\ \/ engine' = Idle
     \/ engine' = IF engine.attempt + 1 >= retries
                    THEN Idle ELSE [engine EXCEPT !.attempt = @ + 1]
  /\ UNCHANGED <<busVars, recent, windows, alerts, alert_counter>>

Acknowledge(i) ==
  /\ i <= Len(alerts)
  /\ alerts' = [alerts EXCEPT ![i] = [@ EXCEPT !.acknowledged = TRUE]]
  /\ UNCHANGED <<busVars, engine, recent, windows, alert_counter>>

AcknowledgeAll ==
  /\ alerts' = [i \in 1..Len(alerts) |-> [alerts[i] EXCEPT !.acknowledged = TRUE]]
  /\ UNCHANGED <<busVars, engine, recent, windows, alert_counter>>

Clear ==
  /\ alerts' = <<>>
  /\ UNCHANGED <<busVars, engine, recent, windows, alert_counter>>

Next ==
  \/ \E e \in Messages \cup {OtherType} : Publish(e)
  \/ \E s \in Subs : Subscribe(s) \/ Unsubscribe(s) \/ SkipLagged(s) \/ Recv(s)
  \/ EngineRecv \/ WindowPasses \/ AddAlert \/ Webhook
  \/ \E i \in 1..max_alerts : Acknowledge(i)
  \/ AcknowledgeAll \/ Clear

Spec == Init /\ [][Next]_vars

\* One pair for every event that a subscriber of now has moved past and not
\* received: its next is that far ahead of kept.
Missed == {p \in Subs \X (1..Len(events)) : kept[p[1]] <= p[2] /\ p[2] < next[p[1]]}

(***************************************************************************)
(* No event is lost silently: for all subscribers together, the events     *)
(* they have moved past are those they received and those counted in       *)
(* events_dropped, and active_subscribers counts the subscriptions         *)
(* (event_bus.rs:275-294, 313-320).                                        *)
(***************************************************************************)
DropsAccounted ==
  /\ Cardinality(Missed) + gone = events_dropped
  /\ active_subscribers = Cardinality(Receivers)

(***************************************************************************)
(* The alerts stay within max_alerts, a repetition among the newest ones   *)
(* is counted and not listed again until somebody acknowledges it, and     *)
(* every alert was created once (engine.rs:260-285).                       *)
(***************************************************************************)
AlertsAggregated ==
  /\ Len(alerts) <= max_alerts /\ Len(alerts) <= alert_counter
  /\ \A i, j \in 1..Len(alerts) :
       (i < j /\ j <= Aggregated /\ alerts[i].message = alerts[j].message)
         => alerts[i].acknowledged \/ alerts[j].acknowledged
=============================================================================
