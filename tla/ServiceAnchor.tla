---------------------------- MODULE ServiceAnchor ----------------------------
(***************************************************************************)
(* The service-anchor: keeps the default route of a network namespace,     *)
(* one per address family, pointing at the network-anchor, and gives the   *)
(* namespace back as it found it.                                          *)
(*                                                                         *)
(* Source: internal/serviceanchor, with the readiness bit of               *)
(* internal/health.  External: docker's DNS, the kernel's routes, and      *)
(* whoever else touches them.  A read of the kernel and the change that    *)
(* follows from it are two steps.                                          *)
(***************************************************************************)
EXTENDS Naturals, FiniteSets

CONSTANTS
    Gateways,    \* addresses the network-anchor may have
    Bridge,      \* the gateway a namespace has from docker
    None,
    MaxMoves,    \* bound: changes of the name's addresses
    MaxTampers,  \* bound: routes changed by somebody else
    MaxFaults,   \* bound: failing lookups and netlink calls
    MaxCrashes   \* bound: crashes, each followed by a restart

ASSUME ServiceAnchorAssumption ==
    /\ Bridge \notin Gateways /\ None \notin Gateways \cup {Bridge}
    /\ MaxMoves \in Nat /\ MaxTampers \in Nat /\ MaxFaults \in Nat /\ MaxCrashes \in Nat

VARIABLES
    static,   \* configuration: ANCHORD_GATEWAY_IP is set (IP mode)
    wrap,     \* configuration: the namespace is another container's
    name,     \* external: what the gateway hostname resolves to, or the static IPs
    route,    \* kernel: gateway of the default route, per family
    before,   \* history: route when the service-anchor was first started
    pc,       \* where Run is
    want,     \* result of the latest lookup
    todo,     \* families still to be handled
    seen,     \* applyRoute's kernelGW
    current, original,  \* Manager's maps
    ready,    \* Tracker.routeInstalled
    cancelled,
    moves, tampers, faults, crashes

config  == <<static, wrap>>
manager == <<pc, want, todo, seen, current, original, ready>>
counts  == <<moves, tampers, faults, crashes>>
vars    == <<config, name, route, before, manager, cancelled, counts>>

Families == {"v4", "v6"}
NoRoute  == [f \in Families |-> None]
Names    == [Families -> Gateways \cup {None}]
Routes   == [Families -> Gateways \cup {Bridge, None}]
Known(m) == {f \in Families : m[f] # None}

Init ==
    /\ static \in BOOLEAN /\ wrap \in BOOLEAN
    /\ name \in Names /\ (static => Known(name) # {})
    /\ route = [f \in Families |-> IF wrap THEN Bridge ELSE None]
    /\ before = route
    /\ pc = "record" /\ want = NoRoute /\ todo = {} /\ seen = None
    /\ current = NoRoute /\ original = NoRoute /\ ready = FALSE
    /\ cancelled = FALSE
    /\ moves = 0 /\ tampers = 0 /\ faults = 0 /\ crashes = 0

-----------------------------------------------------------------------------
(* External *)

\* The network-anchor goes, comes back, or gets another address.
Move(f, a) ==
    /\ ~static /\ moves < MaxMoves /\ moves' = moves + 1
    /\ a # name[f] /\ name' = [name EXCEPT ![f] = a]
    /\ UNCHANGED <<config, route, before, manager, cancelled, tampers, faults, crashes>>

\* Somebody in the namespace removes the default route or puts docker's back.
Tamper(f, a) ==
    /\ tampers < MaxTampers /\ tampers' = tampers + 1
    /\ a # route[f] /\ route' = [route EXCEPT ![f] = a]
    /\ UNCHANGED <<config, name, before, manager, cancelled, moves, faults, crashes>>

Cancel ==
    /\ ~cancelled /\ cancelled' = TRUE
    /\ UNCHANGED <<config, name, route, before, manager, counts>>

\* The process dies and is started again: in another container's namespace next
\* to its own route, else in a new namespace.
Crash ==
    /\ pc # "exited" /\ crashes < MaxCrashes /\ crashes' = crashes + 1
    /\ route' = IF wrap THEN route ELSE NoRoute
    /\ pc' = "record" /\ want' = NoRoute /\ todo' = {} /\ seen' = None
    /\ current' = NoRoute /\ original' = NoRoute /\ ready' = FALSE
    /\ cancelled' = FALSE
    /\ UNCHANGED <<config, name, before, moves, tampers, faults>>

-----------------------------------------------------------------------------
(* Run: recordOriginals, reconcile, and the loop *)

Fault == faults < MaxFaults /\ faults' = faults + 1 /\ UNCHANGED <<moves, tampers, crashes>>
same  == <<config, name, before, cancelled>>

\* A family whose route cannot be read stays without an original.
recordOriginals ==
    /\ pc = "record"
    /\ \/ original' = route /\ UNCHANGED counts
       \/ \E f \in Families : original' = [route EXCEPT ![f] = None] /\ Fault
    /\ pc' = "lookup"
    /\ UNCHANGED <<same, route, want, todo, seen, current, ready>>

\* Mutant: a family without an address is handled too.
LookupBothFamilies ==
    /\ pc = "lookup" /\ Known(name) # {} /\ (static \/ ~cancelled)
    /\ want' = name /\ todo' = Families
    /\ pc' = "read"
    /\ UNCHANGED <<same, route, seen, current, original, ready, counts>>
\* In IP mode the configured addresses take the place of the lookup.
Lookup ==
    /\ pc = "lookup" /\ Known(name) # {} /\ (static \/ ~cancelled)
    /\ want' = name /\ todo' = Known(name)
    /\ pc' = "read"
    /\ UNCHANGED <<same, route, seen, current, original, ready, counts>>

\* A failed lookup leaves the routes as they are.
LookupFails ==
    /\ pc = "lookup" /\ ~static
    /\ \/ (Known(name) = {} \/ cancelled) /\ UNCHANGED counts
       \/ Fault
    /\ pc' = "wait"
    /\ UNCHANGED <<same, route, want, todo, seen, current, original, ready>>

Tick ==
    /\ pc = "wait" /\ ~static
    /\ pc' = "lookup"
    /\ UNCHANGED <<same, route, want, todo, seen, current, original, ready, counts>>

-----------------------------------------------------------------------------
(* applyRoute, family by family *)

\* v4 is handled before v6.
First == IF "v4" \in todo THEN "v4" ELSE "v6"

\* Mutant: the remembered gateway is trusted instead of the kernel.
CachedRoute(f) == current[f]
KernelRoute(f) == route[f]

\* RecordDefaultRoute; an error reads like a missing route.  A gateway already
\* in place is remembered for cleanup and reported to nobody.
ReadRoute(f) ==
    /\ pc = "read" /\ todo # {} /\ f = First
    /\ \/ seen' = KernelRoute(f) /\ UNCHANGED counts
       \/ seen' = None /\ Fault
    /\ IF seen' = want[f]
       THEN /\ current' = [current EXCEPT ![f] = want[f]]
            /\ todo' = todo \ {f} /\ UNCHANGED pc
       ELSE pc' = "replace" /\ UNCHANGED <<current, todo>>
    /\ UNCHANGED <<same, route, want, original, ready>>

\* Mutant: only a v4 route counts for readiness.
ReplaceV4Ready(f) ==
    /\ pc = "replace" /\ f = First
    /\ route' = [route EXCEPT ![f] = want[f]] /\ current' = [current EXCEPT ![f] = want[f]]
    /\ ready' = (ready \/ f = "v4") /\ todo' = todo \ {f} /\ pc' = "read"
    /\ UNCHANGED <<same, want, seen, original, counts>>
\* ReplaceDefaultRoute, whatever the kernel holds by now; OnRouteInstalled.
Replace(f) ==
    /\ pc = "replace" /\ f = First
    /\ route' = [route EXCEPT ![f] = want[f]] /\ current' = [current EXCEPT ![f] = want[f]]
    /\ ready' = TRUE /\ todo' = todo \ {f} /\ pc' = "read"
    /\ UNCHANGED <<same, want, seen, original, counts>>

ReplaceFails(f) ==
    /\ pc = "replace" /\ f = First /\ Fault
    /\ todo' = todo \ {f} /\ pc' = "read"
    /\ UNCHANGED <<same, route, want, seen, current, original, ready>>

Reconciled ==
    /\ pc = "read" /\ todo = {}
    /\ pc' = "wait" /\ seen' = None
    /\ UNCHANGED <<same, route, want, todo, current, original, ready, counts>>

-----------------------------------------------------------------------------
(* cleanup *)

Stop ==
    /\ pc = "wait" /\ cancelled
    /\ pc' = "remove" /\ todo' = Known(current)
    /\ UNCHANGED <<same, route, want, seen, current, original, ready, counts>>

\* RouteDel takes a route away only if it still is the one installed last.
RemoveRoute(f) ==
    /\ pc = "remove" /\ f \in todo /\ todo' = todo \ {f}
    /\ \/ /\ route' = IF route[f] = current[f] THEN [route EXCEPT ![f] = None] ELSE route
          /\ UNCHANGED counts
       \/ Fault /\ UNCHANGED route
    /\ UNCHANGED <<same, pc, want, seen, current, original, ready>>

\* Mutant: the maps are reset before the second loop.
RestorableNone == {}
\* A family is restored if its recorded gateway was replaced by another one.
Restorable == {f \in Known(original) : current[f] \notin {None, original[f]}}

Removed ==
    /\ pc = "remove" /\ todo = {}
    /\ pc' = "restore" /\ todo' = Restorable
    /\ UNCHANGED <<same, route, want, seen, current, original, ready, counts>>

RestoreRoute(f) ==
    /\ pc = "restore" /\ f \in todo /\ todo' = todo \ {f}
    /\ \/ route' = [route EXCEPT ![f] = original[f]] /\ UNCHANGED counts
       \/ Fault /\ UNCHANGED route
    /\ UNCHANGED <<same, pc, want, seen, current, original, ready>>

Exit ==
    /\ pc = "restore" /\ todo = {}
    /\ pc' = "exited" /\ current' = NoRoute /\ original' = NoRoute
    /\ UNCHANGED <<same, route, want, todo, seen, ready, counts>>

-----------------------------------------------------------------------------
Environment ==
    \/ \E f \in Families, a \in Gateways \cup {None} : Move(f, a)
    \/ \E f \in Families, a \in {None, Bridge} : Tamper(f, a)
    \/ Cancel \/ Crash

applyRoute(f) == ReadRoute(f) \/ Replace(f) \/ ReplaceFails(f)
cleanup(f)    == RemoveRoute(f) \/ RestoreRoute(f)

Run ==
    \/ recordOriginals \/ Lookup \/ LookupFails \/ Tick \/ Reconciled
    \/ Stop \/ Removed \/ Exit
    \/ \E f \in Families : applyRoute(f)
    \/ \E f \in Families : cleanup(f)

Next == Environment \/ Run

Spec == Init /\ [][Next]_vars

\* The only goroutine is scheduled, the ticker fires, and select does not pass
\* over the cancelled context for ever.
FairSpec == Spec /\ WF_vars(Run) /\ SF_vars(Stop)

-----------------------------------------------------------------------------
TypeOK ==
    /\ static \in BOOLEAN /\ wrap \in BOOLEAN /\ cancelled \in BOOLEAN /\ ready \in BOOLEAN
    /\ name \in Names /\ want \in Names /\ current \in Names
    /\ route \in Routes /\ before \in Routes /\ original \in Routes
    /\ pc \in {"record", "lookup", "read", "replace", "wait", "remove", "restore", "exited"}
    /\ todo \subseteq Families /\ (pc = "replace" => todo # {})
    /\ pc \in {"read", "replace"} => todo \subseteq Known(want)
    /\ seen \in Gateways \cup {Bridge, None}
    /\ moves \in 0..MaxMoves /\ tampers \in 0..MaxTampers
    /\ faults \in 0..MaxFaults /\ crashes \in 0..MaxCrashes

\* F-26 and the comment of applyRoute: once the name keeps its address for a
\* family, the kernel's route ends up there and stays there, whoever flushed it
\* and whatever failed in between.
FollowsTheName ==
    \A f \in Families, a \in Gateways :
        <>[](~static /\ ~cancelled /\ name[f] = a) => <>[](route[f] = a)

\* F-29 and F-39: a service-anchor that is stopped leaves the routes as it found
\* them, wherever it was interrupted, if nothing failed or interfered.
EgressGivenBack ==
    pc = "exited" /\ faults = 0 /\ tampers = 0 /\ crashes = 0 => route = before

\* F-35: the container becomes ready, and stays so, when a gateway address of
\* either family can be had; after a crash in another container's namespace it
\* finds its own route and reports nothing.
BecomesReady ==
    \A f \in Families :
        <>[](~static /\ ~cancelled /\ name[f] # None /\ (wrap => crashes = 0)) => <>[]ready

\* Up to cleanup the three places that know about the default route agree: the
\* container counts as ready exactly when Manager.current names a gateway (F-35),
\* unless a restart found its own route in place, and what current names is what
\* the kernel has, unless somebody tampered; failing reads and replacements, and
\* changes of the name between lookup and netlink call, included.
Working == pc \in {"record", "lookup", "read", "replace", "wait"}
ReportsWhatHolds ==
    Working =>
        /\ ~(wrap /\ crashes > 0) => (ready <=> Known(current) # {})
        /\ tampers = 0 => \A f \in Known(current) : route[f] = current[f]
=============================================================================
