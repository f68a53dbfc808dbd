------------------------------- MODULE PortTable -------------------------------
(***************************************************************************)
(* What the reconciler promises to those who connect (F-13, F-19): a port  *)
(* table that moves, port by port and without detour, from what it was to  *)
(* the map of the snapshot in hand, and is reported reconciled only when   *)
(* every port has arrived.  A failure leaves it under way, a restart under *)
(* way or empty.                                                           *)
(***************************************************************************)
CONSTANTS
    Keys,   \* exposed ports, per family and protocol
    None,   \* nothing is served
    Maps    \* the port maps the snapshots ask for

VARIABLES
    table,  \* what every port is translated to
    goal,   \* the map being installed
    phase   \* "unknown", "moving" or "reconciled"

vars  == <<table, goal, phase>>
Empty == [k \in Keys |-> None]

Init == table = Empty /\ goal = Empty /\ phase = "unknown"

Announce ==
    /\ phase # "moving" /\ phase' = "moving"
    /\ goal' \in Maps
    /\ UNCHANGED table

\* Each port stays where it is or goes to its goal.
Move ==
    /\ phase = "moving"
    /\ table' = [k \in Keys |-> IF table'[k] = goal[k] THEN goal[k] ELSE table[k]]
    /\ UNCHANGED <<goal, phase>>

Arrive ==
    /\ phase = "moving" /\ table = goal /\ phase' = "reconciled"
    /\ UNCHANGED <<table, goal>>

Abandon ==
    /\ phase = "moving" /\ phase' = "unknown"
    /\ UNCHANGED <<table, goal>>

Crash ==
    /\ phase' = "unknown" /\ goal' = Empty
    /\ table' \in {table, Empty}

Next == Announce \/ Move \/ Arrive \/ Abandon \/ Crash

Spec == Init /\ [][Next]_vars
=============================================================================
