------------------------------ MODULE Reconciler ------------------------------
(***************************************************************************)
(* The reconciler of the network-anchor: each discovery snapshot becomes   *)
(* four atomic nftables replacements (one per family and protocol) followed *)
(* by the conntrack flush of every backend address a port moved away from. *)
(*                                                                         *)
(* Sources: internal/reconciler, the state-changing part of internal/nat   *)
(* (Setup, SetMap and the prerouting order of installChains) and           *)
(* internal/conntrack.  The kernel is external: it is modelled by the two  *)
(* tables SetMap writes and by the set of tracked flows.                   *)
(*                                                                         *)
(* Snapshots arrive from the environment here; module DnatPipeline feeds   *)
(* them from the discovery model instead.                                  *)
(***************************************************************************)
EXTENDS Naturals, FiniteSets, Sequences

CONSTANTS
    Containers,      \* container IDs that may carry anchord.expose
    Ports,           \* port numbers, on the DMZ side and on the backend side
    IP4, IP6,        \* addresses of the shared network, per family
    Rules,           \* Rules[c][<<proto, port>>]: backend port, or None
    V6Off,           \* containers labelled anchord.expose.v6=off
    None,            \* "no address", "no entry"
    MaxSetMapFaults, \* bound: SetMap batches the kernel refuses
    MaxFlushFaults,  \* bound: conntrack invocations that fail
    MaxRestarts,     \* bound: process crashes followed by a restart
    MaxFlows         \* bound: connections tracked at the same time

Families == {"v4", "v6"}
Protos   == {"tcp", "udp"}
Keys     == [fam : Families, proto : Protos, port : Ports]
IPs      == IP4 \cup IP6
Targets  == [ip : IPs, port : Ports]
Entry    == Targets \cup {None}

\* A backend carries an address per family; no address at all is the same as
\* not being in State.Backends.
Backend   == [v4 : IP4 \cup {None}, v6 : IP6 \cup {None}]
Snapshots == [Containers -> Backend]
Flows     == [key : Keys, target : Targets]

ASSUME ReconcilerAssumption ==
    /\ IsFiniteSet(Containers)
    /\ None \notin IPs /\ None \notin Targets /\ None \notin Ports
    /\ Rules \in [Containers -> [Protos \X Ports -> Ports \cup {None}]]
    /\ V6Off \subseteq Containers
    /\ MaxSetMapFaults \in Nat /\ MaxFlushFaults \in Nat /\ MaxRestarts \in Nat
    /\ MaxFlows \in Nat

VARIABLES
    pc,          \* "idle" in the select of Run, "push" or "flush" inside apply
    slot,        \* index of the next SetMap call of apply
    desired,     \* apply's local result of desiredFromState
    last,        \* Reconciler.last
    toFlush,     \* previous addresses apply has still to flush
    ok,          \* did the latest apply return nil
    ready,       \* Tracker.reconciled
    addrMap,     \* kernel: the dnat_{tcp,udp} address maps
    xlat,        \* kernel: the dnat_xlat_{tcp,udp} sub-chains
    flows,       \* kernel: conntrack entries with the target they were given
    asked,       \* history: the flows apply has told conntrack to delete
    setFaults, flushFaults, restarts

apply  == <<pc, slot, desired, last, toFlush, ok, ready>>
kernel == <<addrMap, xlat, flows, asked>>
faults == <<setFaults, flushFaults, restarts>>
vars   == <<apply, kernel, faults>>

-----------------------------------------------------------------------------
(* desiredFromState *)

\* The address a backend offers for one family, after the v6=off opt-out.
AddressOf(st, c, fam) ==
    IF fam = "v4" THEN st[c].v4
    ELSE IF c \in V6Off THEN None ELSE st[c].v6

\* Mutant: a backend without an address in the family is not skipped.
ClaimantsNoAddress(st, k) == {c \in Containers : Rules[c][<<k.proto, k.port>>] # None}

Claimants(st, k) ==
    {c \in Containers : /\ Rules[c][<<k.proto, k.port>>] # None
                        /\ AddressOf(st, c, k.fam) # None}

TargetFor(st, c, k) ==
    [ip |-> AddressOf(st, c, k.fam), port |-> Rules[c][<<k.proto, k.port>>]]

\* Go visits State.Backends in an unspecified order and the last writer of a
\* key wins, so the order picks the winner of a conflict.
Orders == {r \in [Containers -> 1..Cardinality(Containers)] :
              \A c, d \in Containers : c # d => r[c] # r[d]}

Winner(st, k, r) ==
    CHOOSE c \in Claimants(st, k) : \A d \in Claimants(st, k) : r[d] <= r[c]

desiredFromState(st, r) ==
    [k \in Keys |-> IF Claimants(st, k) = {} THEN None
                    ELSE TargetFor(st, Winner(st, k, r), k)]

\* What apply may compute for a snapshot.
Outcomes == [st \in Snapshots |-> {desiredFromState(st, r) : r \in Orders}]

-----------------------------------------------------------------------------
(* The kernel's view *)

\* Prerouting jumps to the translation chain before it consults the map; the
\* map rule rewrites the address only, so the port stays.
Lookup(am, xl, k) ==
    IF xl[k] # None THEN xl[k]
    ELSE IF am[k] # None THEN [ip |-> am[k], port |-> k.port]
    ELSE None

Serves(k) == Lookup(addrMap, xlat, k)

\* The families and protocols in the order apply pushes them.
MapOrder == << <<"v4", "tcp">>, <<"v4", "udp">>, <<"v6", "tcp">>, <<"v6", "udp">> >>
InSlot(k, i) == <<k.fam, k.proto>> = MapOrder[i]

\* Mutant: SetMap flushes the address map of every family and protocol.
NewAddrMapFlushAll(i) ==
    [k \in Keys |->
        IF InSlot(k, i) /\ desired[k] # None
        THEN IF desired[k].port = k.port THEN desired[k].ip ELSE None
        ELSE None]
\* Mutant: a translation rule outlives the entry it was made for.
NewXlatKeep(i) ==
    [k \in Keys |->
        IF InSlot(k, i) /\ desired[k] # None
        THEN IF desired[k].port # k.port THEN desired[k] ELSE xlat[k]
        ELSE xlat[k]]

\* The address map and the translation chain after SetMap for one slot: both
\* are cleared, plain entries go to the map and translating ones to the chain.
NewAddrMap(i) ==
    [k \in Keys |->
        IF ~InSlot(k, i) THEN addrMap[k]
        ELSE IF desired[k] # None
             THEN IF desired[k].port = k.port THEN desired[k].ip ELSE None
             ELSE None]
NewXlat(i) ==
    [k \in Keys |->
        IF ~InSlot(k, i) THEN xlat[k]
        ELSE IF desired[k] # None
             THEN IF desired[k].port # k.port THEN desired[k] ELSE None
             ELSE None]

\* Mutant: only vanished keys are flushed, changed ones are not.
StaleIPsVanished == {last[k].ip : k \in {j \in Keys : last[j] # None /\ desired[j] = None}}

\* The previous addresses of every key whose target changed or vanished.
StaleIPs == {last[k].ip : k \in {j \in Keys : last[j] # None /\ last[j] # desired[j]}}

-----------------------------------------------------------------------------
Init ==
    /\ pc = "idle" /\ slot = 1
    /\ desired = [k \in Keys |-> None]
    /\ last = [k \in Keys |-> None]
    /\ toFlush = {} /\ ok = FALSE /\ ready = FALSE
    /\ addrMap = [k \in Keys |-> None]
    /\ xlat = [k \in Keys |-> None]
    /\ flows = {} /\ asked = {}
    /\ setFaults = 0 /\ flushFaults = 0 /\ restarts = 0

\* Run receives a snapshot and apply computes the desired map.
Receive(st) ==
    /\ pc = "idle"
    /\ pc' = "push" /\ slot' = 1
    /\ desired' \in Outcomes[st]
    /\ UNCHANGED <<last, toFlush, ok, ready, kernel, faults>>

\* Mutant: the loop ends one map early.
SetMapShort ==
    /\ pc = "push"
    /\ addrMap' = NewAddrMap(slot) /\ xlat' = NewXlat(slot)
    /\ IF slot < Len(MapOrder) - 1
       THEN slot' = slot + 1 /\ UNCHANGED <<pc, toFlush>>
       ELSE pc' = "flush" /\ slot' = 1 /\ toFlush' = StaleIPs
    /\ UNCHANGED <<desired, last, ok, ready, flows, asked, faults>>

\* One SetMap call commits its netlink batch.
SetMap ==
    /\ pc = "push"
    /\ addrMap' = NewAddrMap(slot) /\ xlat' = NewXlat(slot)
    /\ IF slot < Len(MapOrder)
       THEN slot' = slot + 1 /\ UNCHANGED <<pc, toFlush>>
       ELSE pc' = "flush" /\ slot' = 1 /\ toFlush' = StaleIPs
    /\ UNCHANGED <<desired, last, ok, ready, flows, asked, faults>>

\* One SetMap call fails: its batch leaves no trace and apply returns at once,
\* with the maps already pushed in place and nothing flushed.
SetMapError ==
    /\ pc = "push" /\ setFaults < MaxSetMapFaults
    /\ setFaults' = setFaults + 1
    /\ pc' = "idle" /\ slot' = 1 /\ ok' = FALSE
    /\ UNCHANGED <<desired, last, toFlush, ready, kernel, flushFaults, restarts>>

\* conntrack -d ip -D for one previous address.  -d is --orig-dst, the address
\* before translation: for a flow anchord translates that is anchord's own and
\* never a backend's, so the call deletes none of them (NoFlowToFormerBackend).
\* asked records which flows apply meant it to delete.
FlushDestination(ip) ==
    /\ pc = "flush" /\ ip \in toFlush
    /\ toFlush' = toFlush \ {ip}
    /\ asked' = asked \cup {f \in flows : f.target.ip = ip}
    /\ UNCHANGED <<pc, slot, desired, last, ok, ready, addrMap, xlat, flows, faults>>

\* conntrack cannot be run; the error is logged at debug level and dropped.
FlushError(ip) ==
    /\ pc = "flush" /\ ip \in toFlush /\ flushFaults < MaxFlushFaults
    /\ flushFaults' = flushFaults + 1
    /\ toFlush' = toFlush \ {ip}
    /\ UNCHANGED <<pc, slot, desired, last, ok, ready, kernel, setFaults, restarts>>

\* apply remembers the map it installed and returns nil; Run calls OnReconciled.
Commit ==
    /\ pc = "flush" /\ toFlush = {}
    /\ last' = desired /\ pc' = "idle" /\ ok' = TRUE /\ ready' = TRUE
    /\ UNCHANGED <<slot, desired, toFlush, kernel, faults>>

\* The process dies and starts again: Reconciler.last starts empty.  Setup's
\* wipe is a batch of its own whose error is ignored, so the tables are either
\* fresh or the ones the previous process left; tracked flows always survive.
Restart ==
    /\ restarts < MaxRestarts
    /\ restarts' = restarts + 1
    /\ pc' = "idle" /\ slot' = 1 /\ toFlush' = {} /\ ok' = FALSE /\ ready' = FALSE
    /\ last' = [k \in Keys |-> None] /\ desired' = [k \in Keys |-> None]
    /\ \/ addrMap' = [k \in Keys |-> None] /\ xlat' = [k \in Keys |-> None]
       \/ UNCHANGED <<addrMap, xlat>>
    /\ UNCHANGED <<flows, asked, setFaults, flushFaults>>

\* A client connects: the first packet is translated by the present rules and
\* conntrack pins the flow to that target.
OpenFlow(k) ==
    /\ Serves(k) # None /\ Cardinality(flows) < MaxFlows
    /\ flows' = flows \cup {[key |-> k, target |-> Serves(k)]}
    /\ asked' = asked \ {[key |-> k, target |-> Serves(k)]}
    /\ UNCHANGED <<apply, addrMap, xlat, faults>>

\* A connection ends.
CloseFlow(f) ==
    /\ flows' = flows \ {f} /\ asked' = asked \ {f}
    /\ UNCHANGED <<apply, addrMap, xlat, faults>>

Process ==
    \/ SetMap
    \/ SetMapError
    \/ \E ip \in IPs : FlushDestination(ip)
    \/ \E ip \in IPs : FlushError(ip)
    \/ Commit

Clients ==
    \/ \E k \in Keys : OpenFlow(k)
    \/ \E f \in flows : CloseFlow(f)

Next ==
    \/ \E st \in Snapshots : Receive(st)
    \/ Process
    \/ Restart
    \/ Clients

Spec == Init /\ [][Next]_vars

-----------------------------------------------------------------------------
TypeOK ==
    /\ pc \in {"idle", "push", "flush"}
    /\ slot \in 1..4
    /\ desired \in [Keys -> Entry]
    /\ last \in [Keys -> Entry]
    /\ toFlush \subseteq IPs
    /\ ok \in BOOLEAN /\ ready \in BOOLEAN
    /\ addrMap \in [Keys -> IPs \cup {None}]
    /\ xlat \in [Keys -> Entry]
    /\ flows \subseteq Flows /\ asked \subseteq flows
    /\ setFaults \in Nat /\ flushFaults \in Nat /\ restarts \in Nat

\* The keys whose SetMap call the apply in progress has behind it.
Pushed(k) == \E i \in 1..Len(MapOrder) : i < slot /\ InSlot(k, i)

\* Strengthens KernelMatchesLast to every point of apply.
KernelInv ==
    /\ pc = "idle" /\ ok => \A k \in Keys : Serves(k) = last[k]
    /\ pc = "push" => \A k \in Keys : Pushed(k) => Serves(k) = desired[k]
    /\ pc = "flush" => \A k \in Keys : Serves(k) = desired[k]

\* Strengthens StaleFlowsAreAsked: before the flush a flow may still follow the
\* previous target, and then that target's address is due for a flush.
Clean == setFaults = 0 /\ flushFaults = 0 /\ restarts = 0
FlowInv ==
    Clean =>
      /\ pc = "idle" => \A k \in Keys : Serves(k) = last[k]
      /\ pc = "push" => \A k \in Keys : ~Pushed(k) => Serves(k) = last[k]
      /\ \A f \in flows : \/ f.target = Serves(f.key)
                          \/ pc = "push" /\ f.target = last[f.key]
                          \/ pc = "flush" /\ f.target.ip \in toFlush
                          \/ f \in asked

\* After a successful reconcile the packet path gives every port exactly the
\* target the reconciler remembers as applied, although the target is spread
\* over a map and a chain that are rewritten one family and protocol at a time
\* and although earlier reconciles may have failed half way (apply, SetMap).
KernelMatchesLast ==
    pc = "idle" /\ ok => \A k \in Keys : Serves(k) = last[k]

\* anchord's half of F-17: between two reconciles apply has run conntrack with
\* the target's address, after the flow was opened, for every tracked flow that
\* follows another target than the map, the flows opened while apply was half
\* way through included, as long as no map push, no conntrack run and no process
\* failed (StaleIPs from last and desired, apply's push-then-flush order).
\* Whether conntrack then deletes them is NoFlowToFormerBackend.
StaleFlowsAreAsked ==
    pc = "idle" /\ Clean
        => \A f \in flows : f.target = Serves(f.key) \/ f \in asked

\* A running process only ever moves a port straight from the target it serves
\* to the one the snapshot in hand names: no port goes dark or visits a third
\* backend on the way (F-19, "no observable window where DNAT is broken").
PortsMoveStraight ==
    [][restarts' = restarts =>
         \A k \in Keys : Serves(k)' # Serves(k) => pc = "push" /\ Serves(k)' = desired[k]]_vars

\* F-17: when a backend is gone its former address is flushed from conntrack, so
\* that once apply has succeeded and nothing ever failed no flow goes there.
NoFlowToFormerBackend ==
    pc = "idle" /\ setFaults = 0 /\ flushFaults = 0 /\ restarts = 0
        => \A f \in flows : Serves(f.key) # None

-----------------------------------------------------------------------------
(* The reconciler seen from outside *)

Phase == IF pc # "idle" THEN "moving" ELSE IF ok THEN "reconciled" ELSE "unknown"

DesiredMaps == UNION {Outcomes[st] : st \in Snapshots}

Table == INSTANCE PortTable WITH
    Maps  <- DesiredMaps,
    table <- [k \in Keys |-> Serves(k)],
    goal  <- desired,
    phase <- Phase

\* Whatever fails and whenever the process restarts, the tables behave as a port
\* table that only moves straight towards the snapshot in hand and is reported
\* reconciled only when it has arrived (Run, apply, SetMap, Setup).
ImplementsPortTable == Table!Spec
=============================================================================
