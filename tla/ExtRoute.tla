-------------------------------- MODULE ExtRoute --------------------------------
(***************************************************************************)
(* The enforcer of the network-anchor's IPv4 default route, composed with  *)
(* the DHCP supervisor that feeds it through a bounded channel and moves   *)
(* the addresses its routes rest on.                                       *)
(*                                                                         *)
(* Source: internal/extroute.  IPv6 is the same loop without a dynamic     *)
(* source.  Docker and the kernel are external.                            *)
(***************************************************************************)
EXTENDS Dhcp

CONSTANTS
    Static,      \* gateways the operator may pin or declare
    Bridge       \* gateway of the bridge, where docker puts the default route

ASSUME ExtRouteAssumption ==
    NoGw \notin Static /\ Bridge \notin Routers \cup Static \cup {NoGw}

VARIABLES
    pin,       \* configuration: ANCHORD_EXT_GATEWAY_IP, or NoGw
    declared,  \* external: the gateway in the network's IPAM configuration, or NoGw
    ipam, dyn, \* Manager.ipamV4, Manager.dynV4
    xpc, want, \* Manager.Run, and the gateway assert is about to install
    route      \* kernel: gateway of the default route, or NoGw

manager == <<pin, declared, ipam, dyn, xpc, want>>
vars    == <<dvars, manager, route>>

Init ==
    /\ DInit
    /\ pin \in Static \cup {NoGw} /\ declared \in Static \cup {NoGw}
    /\ ipam = NoGw /\ dyn = NoGw
    /\ xpc = "inspect" /\ want = NoGw
    /\ route = Bridge

-----------------------------------------------------------------------------
(* The kernel drops the interface's routes with its last address *)

Kernel ==
    /\ route' = IF iface' = {} /\ iface # {} /\ route # Bridge THEN NoGw ELSE route
    /\ UNCHANGED manager

Addressing == DNext /\ Kernel

\* A sibling's restart or an operator moves the default route.
Tamper ==
    /\ moves < MaxMoves /\ moves' = moves + 1
    /\ route' \in {Bridge, NoGw} \ {route}
    /\ UNCHANGED <<config, cancelled, binding, binding6, option, iface, iface6, client4, client6,
                   routers, unowned, revoked, stray, stray6, faults, manager>>

-----------------------------------------------------------------------------
(* Manager.Run *)

effectiveV4 == IF dyn # NoGw THEN dyn ELSE IF pin # NoGw THEN pin ELSE ipam

Rest == UNCHANGED <<dvars, pin, declared>>

\* The one lookup of the declared gateway, while the channel may fill up.
Inspect ==
    /\ xpc = "inspect"
    /\ ipam' = declared
    /\ xpc' = "assert"
    /\ Rest /\ UNCHANGED <<dyn, want, route>>

InspectFails ==
    /\ xpc = "inspect"
    /\ Fault
    /\ xpc' = "assert"
    /\ UNCHANGED <<config, cancelled, server, iface, iface6, client4, client6, routers,
                   unowned, revoked, stray, stray6, pin, declared, ipam, dyn, want, route>>

\* Mutant: any default route off the bridge will do.
AssertOffBridge ==
    /\ xpc = "assert"
    /\ IF effectiveV4 = NoGw \/ route \notin {NoGw, Bridge}
       THEN xpc' = "select" /\ UNCHANGED want
       ELSE xpc' = "replace" /\ want' = effectiveV4
    /\ Rest /\ UNCHANGED <<ipam, dyn, route>>

\* assert reads the route, replaces it unless it is in place or nothing is known;
\* a failed read counts as no route.
assert ==
    /\ xpc = "assert"
    /\ IF effectiveV4 \in {NoGw, route}
       THEN xpc' = "select" /\ UNCHANGED want
       ELSE xpc' = "replace" /\ want' = effectiveV4
    /\ Rest /\ UNCHANGED <<ipam, dyn, route>>

\* RouteReplace needs an address to reach the gateway from; what it refuses is
\* left for the next round.
Replace ==
    /\ xpc = "replace"
    /\ route' = IF iface = {} THEN route ELSE want
    /\ want' = NoGw /\ xpc' = "select"
    /\ Rest /\ UNCHANGED <<ipam, dyn>>

\* RouteReplace fails for another reason: a warning, and the next round.
ReplaceFails ==
    /\ xpc = "replace"
    /\ Fault
    /\ want' = NoGw /\ xpc' = "select"
    /\ UNCHANGED <<config, cancelled, server, iface, iface6, client4, client6, routers,
                   unowned, revoked, stray, stray6, pin, declared, ipam, dyn, route>>

Tick ==
    /\ xpc = "select"
    /\ xpc' = "assert"
    /\ Rest /\ UNCHANGED <<ipam, dyn, want, route>>

\* Mutant: the first router that arrives stays.
ReceiveFirst ==
    /\ xpc = "select" /\ routers # <<>>
    /\ routers' = Tail(routers)
    /\ dyn' = IF dyn = NoGw THEN Head(routers) ELSE dyn
    /\ xpc' = "assert"
    /\ UNCHANGED <<config, cancelled, server, iface, iface6, client4, client6,
                   unowned, revoked, stray, stray6, faults, pin, declared, ipam, want, route>>

Receive ==
    /\ xpc = "select" /\ routers # <<>>
    /\ routers' = Tail(routers)
    /\ dyn' = Head(routers)
    /\ xpc' = "assert"
    /\ UNCHANGED <<config, cancelled, server, iface, iface6, client4, client6,
                   unowned, revoked, stray, stray6, faults, pin, declared, ipam, want, route>>

\* The context ends it, and the route stays.
Stop ==
    /\ xpc = "select" /\ cancelled
    /\ xpc' = "stopped"
    /\ Rest /\ UNCHANGED <<ipam, dyn, want, route>>

Manager == Inspect \/ InspectFails \/ assert \/ Replace \/ ReplaceFails \/ Tick
           \/ Receive \/ Stop

Next == Addressing \/ Tamper \/ Manager

Spec == Init /\ [][Next]_vars

\* Go schedules the goroutines, the calls return, timers fire and a select does
\* not pass over a ready channel for ever.
Fairness ==
    /\ WF_vars(Client4 /\ Kernel) /\ WF_vars(Client6 /\ Kernel)
    /\ WF_vars(Inspect \/ assert \/ Replace)
    /\ WF_vars(Tick) /\ SF_vars(Receive) /\ SF_vars(Stop)

FairSpec == Spec /\ Fairness

-----------------------------------------------------------------------------
Gateways == Routers \cup Static \cup {NoGw}

TypeOK ==
    /\ DTypeOK
    /\ pin \in Gateways /\ declared \in Gateways
    /\ ipam \in {declared, NoGw} /\ dyn \in Gateways /\ want \in Gateways
    /\ xpc \in {"inspect", "assert", "replace", "select", "stopped"}
    /\ route \in Gateways \cup {Bridge}

\* Issue #6: once the DHCP server keeps announcing a router, the default route
\* ends up there and stays, although the channel drops what finds no room, every
\* address change flushes the route and docker puts it back to the bridge.
RouteFollowsServer ==
    <>[](option # NoGw /\ refresh /\ 4 \in lan /\ ~cancelled) => <>[](route = option)

\* In every mode an interface that keeps an address gets its default route back
\* to the gateway that counts, whatever displaced it.
RouteEnforced ==
    <>[](effectiveV4 # NoGw /\ iface # {} /\ ~cancelled) => <>[](route = effectiveV4)
=============================================================================
