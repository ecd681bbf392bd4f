---------------------------- MODULE SingleFlight ----------------------------
(***************************************************************************)
(* What the cache plugin promises about background refreshes: a key has at *)
(* most one refresh under way, and every refresh that starts ends.         *)
(***************************************************************************)
EXTENDS Naturals

CONSTANT Keys

VARIABLE flight   \* flight[k]: refreshes of k under way

Init == flight = [k \in Keys |-> 0]

\* A stale or nearly expired hit starts a refresh of k.
Start(k) ==
    /\ flight[k] = 0
    /\ flight' = [flight EXCEPT ![k] = 1]

\* The refresh of k ends, however it ends.
Finish(k) ==
    /\ flight[k] = 1
    /\ flight' = [flight EXCEPT ![k] = 0]

Next == \E k \in Keys : Start(k) \/ Finish(k)

\* What it may do, and what it must do besides.
Safety == Init /\ [][Next]_flight

Spec == Safety /\ \A k \in Keys : WF_flight(Finish(k))
=============================================================================
