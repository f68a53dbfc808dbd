--------------------------- MODULE ReconcilerProofs ---------------------------
(***************************************************************************)
(* Proofs about Reconciler, for every set of containers, ports, addresses  *)
(* and rules and every number of failures: type correctness, agreement of  *)
(* the kernel tables with Reconciler.last, the flush of stale flows, the    *)
(* action property PortsMoveStraight, and that Reconciler implements       *)
(* PortTable; and about DnatPipeline: that the reconciler behind discovery *)
(* and discovery before the reconciler behave as their modules say, and    *)
(* that the packet path at rest is that of the snapshot sent last.         *)
(***************************************************************************)
EXTENDS DnatPipeline, TLAPS, FiniteSetTheorems, SequenceTheorems,
        WellFoundedInduction

-----------------------------------------------------------------------------
(* What desiredFromState returns *)

\* A non-empty set of naturals below a bound has a largest element.
LEMMA LargestExists ==
    ASSUME NEW N \in Nat, NEW T, T \subseteq 1..N, T # {}
    PROVE  \E x \in T : \A y \in T : y <= x
<1> DEFINE D == {d \in Nat : \E x \in T : d = N - x}
<1>1. \A x \in T : x \in Nat /\ N - x \in Nat
  <2>1. \A x \in 1..N : x \in Nat /\ N - x \in Nat
    OBVIOUS
  <2> QED BY <2>1
<1>2. \A x \in T : N - x \in D
  BY <1>1
<1>3. D \subseteq Nat /\ D # {}
  BY <1>2
<1>4. \E d \in D : \A e \in D : ~(<<e, d>> \in OpToRel(<, Nat))
  <2> HIDE DEF D
  <2> QED BY <1>3, NatLessThanWellFounded, WFMin
<1>5. PICK d \in D : \A e \in D : ~(<<e, d>> \in OpToRel(<, Nat))
  BY <1>4
<1>6. \A e \in D : ~(e < d)
  BY <1>3, <1>5 DEF OpToRel
<1>7. PICK x \in T : d = N - x
  OBVIOUS
<1>8. ASSUME NEW y \in T PROVE y <= x
  <2>1. ~(N - y < N - x)
    BY <1>2, <1>6, <1>7
  <2> QED BY <1>1, <2>1
<1> QED BY <1>8

\* A key that somebody claims has a winner under every visiting order.
LEMMA WinnerClaims ==
    ASSUME ReconcilerAssumption,
           NEW st, NEW k, NEW r \in Orders, Claimants(st, k) # {}
    PROVE  Winner(st, k, r) \in Claimants(st, k)
<1> DEFINE T == {r[c] : c \in Claimants(st, k)}
<1>1. Cardinality(Containers) \in Nat
  BY FS_CardinalityType DEF ReconcilerAssumption
<1>2. T \subseteq 1..Cardinality(Containers) /\ T # {}
  <2>1. \A c \in Containers : r[c] \in 1..Cardinality(Containers)
    BY DEF Orders
  <2>2. Claimants(st, k) \subseteq Containers
    BY DEF Claimants
  <2> QED BY <2>1, <2>2
<1>3. PICK x \in T : \A y \in T : y <= x
  BY <1>1, <1>2, LargestExists
<1>4. \E c \in Claimants(st, k) : \A d \in Claimants(st, k) : r[d] <= r[c]
  BY <1>3
<1> QED BY <1>4 DEF Winner

\* The desired map is well typed.
LEMMA DesiredType ==
    ASSUME ReconcilerAssumption, NEW st \in Snapshots, NEW r \in Orders
    PROVE  desiredFromState(st, r) \in [Keys -> Entry]
<1> SUFFICES ASSUME NEW k \in Keys, Claimants(st, k) # {}
             PROVE  TargetFor(st, Winner(st, k, r), k) \in Targets
  BY DEF desiredFromState, Entry
<1> DEFINE w == Winner(st, k, r)
<1>1. w \in Claimants(st, k)
  BY WinnerClaims
<1>2. w \in Containers /\ AddressOf(st, w, k.fam) # None
      /\ Rules[w][<<k.proto, k.port>>] # None
  BY <1>1 DEF Claimants
<1>3. st[w] \in Backend /\ Rules[w] \in [Protos \X Ports -> Ports \cup {None}]
  BY <1>2 DEF Snapshots, ReconcilerAssumption
<1>4. AddressOf(st, w, k.fam) \in IPs
  BY <1>2, <1>3 DEF AddressOf, Backend, IPs
<1>5. Rules[w][<<k.proto, k.port>>] \in Ports
  BY <1>2, <1>3 DEF Keys
<1> QED BY <1>4, <1>5 DEF TargetFor, Targets

-----------------------------------------------------------------------------
(* Type correctness *)

\* No table, no snapshot and no fault at the start.
LEMMA InitTypeOK == ReconcilerAssumption /\ Init => TypeOK
<1> SUFFICES ASSUME Init PROVE TypeOK
  OBVIOUS
<1>1. desired \in [Keys -> Entry] /\ last \in [Keys -> Entry] /\ xlat \in [Keys -> Entry]
  BY DEF Init, Entry
<1>2. addrMap \in [Keys -> IPs \cup {None}]
  BY DEF Init
<1>3. slot \in 1..4 /\ setFaults \in Nat /\ flushFaults \in Nat /\ restarts \in Nat
  BY DEF Init
<1> QED BY <1>1, <1>2, <1>3 DEF Init, TypeOK

\* Every step of apply, of the clients and of a restart keeps the types.
LEMMA StepTypeOK == ReconcilerAssumption /\ TypeOK /\ [Next]_vars => TypeOK'
<1> SUFFICES ASSUME ReconcilerAssumption, TypeOK, [Next]_vars PROVE TypeOK'
  OBVIOUS
<1>1. ASSUME NEW st \in Snapshots, Receive(st) PROVE TypeOK'
  <2>1. PICK r \in Orders : desired' = desiredFromState(st, r)
    BY <1>1 DEF Receive, Outcomes
  <2>2. desired' \in [Keys -> Entry]
    BY <2>1, DesiredType
  <2>3. pc' = "push" /\ slot' = 1
    BY <1>1 DEF Receive
  <2> QED BY <1>1, <2>2, <2>3 DEF TypeOK, Receive, kernel, faults
<1>2. CASE SetMap
  <2>1. NewAddrMap(slot) \in [Keys -> IPs \cup {None}]
    BY DEF NewAddrMap, TypeOK, Entry, Targets
  <2>2. NewXlat(slot) \in [Keys -> Entry]
    BY DEF NewXlat, TypeOK, Entry
  <2>3. StaleIPs \subseteq IPs
    BY DEF StaleIPs, TypeOK, Entry, Targets
  <2>4. slot < Len(MapOrder) => slot + 1 \in 1..4
    BY DEF TypeOK, MapOrder
  <2>5. CASE slot < Len(MapOrder)
    BY <1>2, <2>1, <2>2, <2>4, <2>5 DEF SetMap, TypeOK, faults
  <2>6. CASE ~(slot < Len(MapOrder))
    BY <1>2, <2>1, <2>2, <2>3, <2>6 DEF SetMap, TypeOK, faults
  <2> QED BY <2>5, <2>6
<1>3. CASE SetMapError
  <2>1. slot' \in 1..4 /\ setFaults' \in Nat
    BY <1>3 DEF SetMapError, TypeOK
  <2> QED BY <1>3, <2>1 DEF SetMapError, TypeOK, kernel
<1>4. ASSUME NEW ip \in IPs, FlushDestination(ip) PROVE TypeOK'
  BY <1>4 DEF FlushDestination, TypeOK, faults
<1>5. ASSUME NEW ip \in IPs, FlushError(ip) PROVE TypeOK'
  BY <1>5 DEF FlushError, TypeOK, kernel
<1>6. CASE Commit
  BY <1>6 DEF Commit, TypeOK, kernel, faults
<1>7. CASE Restart
  <2>1. slot' \in 1..4 /\ restarts' \in Nat
    BY <1>7 DEF Restart, TypeOK
  <2>2. last' \in [Keys -> Entry] /\ desired' \in [Keys -> Entry]
    BY <1>7 DEF Restart, Entry
  <2>3. addrMap' \in [Keys -> IPs \cup {None}] /\ xlat' \in [Keys -> Entry]
    BY <1>7 DEF Restart, TypeOK, Entry
  <2> QED BY <1>7, <2>1, <2>2, <2>3 DEF Restart, TypeOK
<1>8. ASSUME NEW k \in Keys, OpenFlow(k) PROVE TypeOK'
  <2>1. Serves(k) \in Targets
    BY <1>8 DEF OpenFlow, Serves, Lookup, TypeOK, Entry, Targets, Keys
  <2> QED BY <1>8, <2>1 DEF OpenFlow, TypeOK, Flows, apply, faults
<1>9. ASSUME NEW f \in flows, CloseFlow(f) PROVE TypeOK'
  BY <1>9 DEF CloseFlow, TypeOK, apply, faults
<1>10. CASE UNCHANGED vars
  BY <1>10 DEF vars, apply, kernel, faults, TypeOK
<1> QED
  BY <1>1, <1>2, <1>3, <1>4, <1>5, <1>6, <1>7, <1>8, <1>9, <1>10
  DEF Next, Process, Clients

\* Every reachable state is well typed: in particular apply only ever installs
\* targets a discovered backend offers (desiredFromState, SetMap).
THEOREM TypeCorrect == Spec => []TypeOK
BY ReconcilerAssumption, InitTypeOK, StepTypeOK, PTL DEF Spec

-----------------------------------------------------------------------------
(* The kernel tables *)

\* SetMap gives the keys of its slot the desired target and leaves every other
\* key alone, whichever of map and chain an entry was and is in.
LEMMA SetMapServes ==
    ASSUME TypeOK, ReconcilerAssumption, NEW k \in Keys
    PROVE  Lookup(NewAddrMap(slot), NewXlat(slot), k)
             = IF InSlot(k, slot) THEN desired[k] ELSE Serves(k)
<1>1. CASE ~InSlot(k, slot)
  BY <1>1 DEF Lookup, NewAddrMap, NewXlat, Serves
<1>2. CASE InSlot(k, slot) /\ desired[k] = None
  BY <1>2 DEF Lookup, NewAddrMap, NewXlat
<1>3. CASE InSlot(k, slot) /\ desired[k] # None
  <2>1. desired[k] \in Targets
    BY <1>3 DEF TypeOK, Entry
  <2>2. desired[k].ip # None
    BY <2>1 DEF Targets, ReconcilerAssumption
  <2>3. desired[k] = [ip |-> desired[k].ip, port |-> desired[k].port]
    BY <2>1 DEF Targets
  <2> QED BY <1>3, <2>2, <2>3 DEF Lookup, NewAddrMap, NewXlat
<1> QED BY <1>1, <1>2, <1>3

\* Every key belongs to one of the four slots.
LEMMA SlotsCoverKeys == \A k \in Keys : \E i \in 1..Len(MapOrder) : InSlot(k, i)
<1>1. TAKE k \in Keys
<1>2. k.fam \in {"v4", "v6"} /\ k.proto \in {"tcp", "udp"}
  BY DEF Keys, Families, Protos
<1>3. /\ MapOrder[1] = <<"v4", "tcp">> /\ MapOrder[2] = <<"v4", "udp">>
      /\ MapOrder[3] = <<"v6", "tcp">> /\ MapOrder[4] = <<"v6", "udp">>
      /\ Len(MapOrder) = 4
  BY DEF MapOrder
<1>4. InSlot(k, 1) \/ InSlot(k, 2) \/ InSlot(k, 3) \/ InSlot(k, 4)
  BY <1>2, <1>3 DEF InSlot
<1> QED BY <1>3, <1>4

\* After SetMap a key is pushed exactly when it was before or is in the slot.
LEMMA SetMapPushes ==
    ASSUME TypeOK, SetMap, NEW k \in Keys
    PROVE  /\ slot < Len(MapOrder) => (Pushed(k)' <=> Pushed(k) \/ InSlot(k, slot))
           /\ ~(slot < Len(MapOrder)) => Pushed(k) \/ InSlot(k, slot)
<1>1. Len(MapOrder) = 4 /\ slot \in 1..4
  BY DEF TypeOK, MapOrder
<1>2. CASE slot < Len(MapOrder)
  <2>1. slot' = slot + 1
    BY <1>2 DEF SetMap
  <2>2. \A i \in 1..4 : i < slot + 1 <=> i < slot \/ i = slot
    BY <1>1
  <2> QED BY <1>1, <1>2, <2>1, <2>2 DEF Pushed, InSlot
<1>3. CASE ~(slot < Len(MapOrder))
  <2>1. slot = 4
    BY <1>1, <1>3
  <2>2. \A i \in 1..4 : i < 4 \/ i = 4
    OBVIOUS
  <2> QED BY <1>1, <1>3, <2>1, <2>2, SlotsCoverKeys DEF Pushed
<1> QED BY <1>2, <1>3

\* Nothing is applied at the start.
LEMMA InitKernelInv == Init => KernelInv
BY DEF Init, KernelInv

\* A slot that is pushed serves what is desired until apply remembers it.
LEMMA StepKernelInv ==
    ASSUME ReconcilerAssumption, TypeOK, KernelInv, [Next]_vars
    PROVE  KernelInv'
<1>1. ASSUME NEW st \in Snapshots, Receive(st) PROVE KernelInv'
  <2>1. pc' = "push" /\ slot' = 1
    BY <1>1 DEF Receive
  <2>2. ASSUME NEW k \in Keys PROVE ~Pushed(k)'
    <3>1. \A i \in 1..Len(MapOrder) : ~(i < 1)
      BY DEF MapOrder
    <3> QED BY <2>1, <3>1 DEF Pushed
  <2> QED BY <2>1, <2>2 DEF KernelInv
<1>2. CASE SetMap
  <2>1. \A k \in Keys : Serves(k)' = IF InSlot(k, slot) THEN desired[k] ELSE Serves(k)
    BY <1>2, SetMapServes DEF SetMap, Serves
  <2>2. desired' = desired /\ pc = "push"
    BY <1>2 DEF SetMap
  <2>3. \A k \in Keys : Pushed(k) \/ InSlot(k, slot) => Serves(k)' = desired'[k]
    BY <2>1, <2>2 DEF KernelInv
  <2>4. CASE slot < Len(MapOrder)
    <3>1. pc' = "push"
      BY <1>2, <2>4 DEF SetMap
    <3> QED BY <1>2, <2>3, <2>4, <3>1, SetMapPushes DEF KernelInv
  <2>5. CASE ~(slot < Len(MapOrder))
    <3>1. pc' = "flush"
      BY <1>2, <2>5 DEF SetMap
    <3> QED BY <1>2, <2>3, <2>5, <3>1, SetMapPushes DEF KernelInv
  <2> QED BY <2>4, <2>5
<1>3. CASE SetMapError
  BY <1>3 DEF SetMapError, KernelInv
<1>4. ASSUME NEW ip \in IPs, FlushDestination(ip) PROVE KernelInv'
  BY <1>4 DEF FlushDestination, KernelInv, Serves
<1>5. ASSUME NEW ip \in IPs, FlushError(ip) PROVE KernelInv'
  BY <1>5 DEF FlushError, KernelInv, Serves, kernel
<1>6. CASE Commit
  BY <1>6 DEF Commit, KernelInv, Serves, kernel
<1>7. CASE Restart
  BY <1>7 DEF Restart, KernelInv
<1>8. ASSUME NEW k \in Keys, OpenFlow(k) PROVE KernelInv'
  BY <1>8 DEF OpenFlow, KernelInv, Serves, Pushed, apply
<1>9. ASSUME NEW f \in flows, CloseFlow(f) PROVE KernelInv'
  BY <1>9 DEF CloseFlow, KernelInv, Serves, Pushed, apply
<1>10. CASE UNCHANGED vars
  BY <1>10 DEF vars, apply, kernel, KernelInv, Serves, Pushed
<1> QED
  BY <1>1, <1>2, <1>3, <1>4, <1>5, <1>6, <1>7, <1>8, <1>9, <1>10
  DEF Next, Process, Clients

\* Whatever failed before, once apply returns nil the packet path and
\* Reconciler.last agree on every port (apply's "last successfully applied").
THEOREM KernelAgreesWithLast == Spec => []KernelMatchesLast
<1>1. Init => TypeOK /\ KernelInv
  BY ReconcilerAssumption, InitTypeOK, InitKernelInv
<1>2. TypeOK /\ KernelInv /\ [Next]_vars => TypeOK' /\ KernelInv'
  BY ReconcilerAssumption, StepTypeOK, StepKernelInv
<1>3. KernelInv => KernelMatchesLast
  BY DEF KernelInv, KernelMatchesLast
<1> QED BY <1>1, <1>2, <1>3, PTL DEF Spec

-----------------------------------------------------------------------------
(* Tracked flows *)

\* No flow at the start.
LEMMA InitFlowInv == Init => FlowInv
BY DEF Init, FlowInv, Serves, Lookup

\* A flow is current, or its target is due for the flush at the end of apply.
LEMMA StepFlowInv ==
    ASSUME ReconcilerAssumption, TypeOK, KernelInv, FlowInv, [Next]_vars
    PROVE  FlowInv'
<1> SUFFICES ASSUME Clean' PROVE FlowInv'
  BY DEF FlowInv
<1>1. ASSUME NEW st \in Snapshots, Receive(st) PROVE FlowInv'
  <2>1. /\ pc = "idle" /\ pc' = "push" /\ slot' = 1 /\ last' = last /\ flows' = flows
        /\ addrMap' = addrMap /\ xlat' = xlat /\ Clean
    BY <1>1 DEF Receive, kernel, faults, Clean
  <2>2. /\ \A k \in Keys : Serves(k) = last[k]
        /\ \A f \in flows : f.target = Serves(f.key) \/ f \in asked
    BY <2>1 DEF FlowInv
  <2>3. asked' = asked
    BY <1>1 DEF Receive, kernel
  <2> QED BY <2>1, <2>2, <2>3 DEF FlowInv, Serves
<1>2. CASE SetMap
  <2>1. \A k \in Keys : Serves(k)' = IF InSlot(k, slot) THEN desired[k] ELSE Serves(k)
    BY <1>2, SetMapServes DEF SetMap, Serves
  <2>2. /\ desired' = desired /\ last' = last /\ pc = "push" /\ flows' = flows
        /\ asked' = asked /\ Clean
    BY <1>2 DEF SetMap, faults, Clean
  <2>3. \A f \in flows : f.key \in Keys /\ f.target \in Targets
    BY DEF TypeOK, Flows
  <2>4. /\ \A k \in Keys : ~Pushed(k) => Serves(k) = last[k]
        /\ \A f \in flows : f.target = Serves(f.key) \/ f.target = last[f.key] \/ f \in asked
    BY <2>2 DEF FlowInv
  \* A flow that followed the rules of a key before its slot was pushed follows
  \* the previous target, which is now in last.
  <2>5. ASSUME NEW f \in flows, f \notin asked
        PROVE  f.target = Serves(f.key)' \/ f.target = last[f.key]
    <3>1. CASE ~InSlot(f.key, slot)
      BY <2>1, <2>3, <2>4, <2>5, <3>1
    <3>2. CASE InSlot(f.key, slot) /\ ~Pushed(f.key)
      BY <2>3, <2>4, <2>5, <3>2
    <3>3. CASE InSlot(f.key, slot) /\ Pushed(f.key)
      <4>1. Serves(f.key) = desired[f.key]
        BY <2>2, <2>3, <3>3 DEF KernelInv
      <4> QED BY <2>1, <2>3, <2>4, <2>5, <3>3, <4>1
    <3> QED BY <3>1, <3>2, <3>3
  <2>6. CASE slot < Len(MapOrder)
    <3>1. pc' = "push"
      BY <1>2, <2>6 DEF SetMap
    <3>2. \A k \in Keys : ~Pushed(k)' => ~Pushed(k) /\ ~InSlot(k, slot)
      BY <1>2, <2>6, SetMapPushes
    <3> QED BY <2>1, <2>2, <2>4, <2>5, <3>1, <3>2 DEF FlowInv
  <2>7. CASE ~(slot < Len(MapOrder))
    <3>1. pc' = "flush" /\ toFlush' = StaleIPs
      BY <1>2, <2>7 DEF SetMap
    <3>2. \A k \in Keys : Serves(k)' = desired[k]
      <4>1. \A k \in Keys : Pushed(k) \/ InSlot(k, slot)
        BY <1>2, <2>7, SetMapPushes
      <4> QED BY <2>1, <2>2, <4>1 DEF KernelInv
    <3>3. ASSUME NEW f \in flows, f \notin asked, f.target # Serves(f.key)'
          PROVE  f.target.ip \in StaleIPs
      <4>1. f.target = last[f.key] /\ last[f.key] # desired[f.key] /\ f.key \in Keys
        BY <2>3, <2>5, <3>2, <3>3
      <4>2. last[f.key] # None
        BY <2>3, <4>1 DEF ReconcilerAssumption
      <4> QED BY <4>1, <4>2 DEF StaleIPs
    <3> QED BY <2>2, <3>1, <3>3 DEF FlowInv
  <2> QED BY <2>6, <2>7
<1>3. CASE SetMapError
  <2>1. setFaults' # 0
    BY <1>3 DEF SetMapError, TypeOK
  <2> QED BY <2>1 DEF Clean
<1>4. ASSUME NEW ip \in IPs, FlushDestination(ip) PROVE FlowInv'
  <2>1. Clean
    BY <1>4 DEF FlushDestination, faults, Clean
  <2>2. pc = "flush" /\ pc' = "flush" /\ toFlush' = toFlush \ {ip}
        /\ addrMap' = addrMap /\ xlat' = xlat
    BY <1>4 DEF FlushDestination
  <2>3. flows' = flows /\ asked' = asked \cup {f \in flows : f.target.ip = ip}
    BY <1>4 DEF FlushDestination
  <2>4. \A f \in flows : f.target = Serves(f.key) \/ f.target.ip \in toFlush \/ f \in asked
    BY <2>1, <2>2 DEF FlowInv
  <2> QED BY <2>2, <2>3, <2>4 DEF FlowInv, Serves
<1>5. ASSUME NEW ip \in IPs, FlushError(ip) PROVE FlowInv'
  <2>1. flushFaults' # 0
    BY <1>5 DEF FlushError, TypeOK
  <2> QED BY <2>1 DEF Clean
<1>6. CASE Commit
  <2>1. Clean
    BY <1>6 DEF Commit, faults, Clean
  <2>2. pc = "flush" /\ toFlush = {} /\ last' = desired /\ pc' = "idle"
        /\ addrMap' = addrMap /\ xlat' = xlat /\ flows' = flows /\ asked' = asked
    BY <1>6 DEF Commit, kernel
  <2>3. /\ \A k \in Keys : Serves(k) = desired[k]
        /\ \A f \in flows : f.target = Serves(f.key) \/ f \in asked
    BY <2>1, <2>2 DEF FlowInv, KernelInv
  <2> QED BY <2>2, <2>3 DEF FlowInv, Serves
<1>7. CASE Restart
  <2>1. restarts' # 0
    BY <1>7 DEF Restart, TypeOK
  <2> QED BY <2>1 DEF Clean
<1>8. ASSUME NEW k \in Keys, OpenFlow(k) PROVE FlowInv'
  <2>1. Clean
    BY <1>8 DEF OpenFlow, faults, Clean
  <2>2. flows' = flows \cup {[key |-> k, target |-> Serves(k)]} /\ UNCHANGED apply
        /\ addrMap' = addrMap /\ xlat' = xlat
        /\ asked' = asked \ {[key |-> k, target |-> Serves(k)]}
    BY <1>8 DEF OpenFlow
  <2>3. ASSUME NEW f \in flows'
        PROVE  f = [key |-> k, target |-> Serves(k)] \/ (f \in flows /\ (f \in asked => f \in asked'))
    BY <2>2
  <2> QED BY <2>1, <2>2, <2>3 DEF FlowInv, Serves, Pushed, apply
<1>9. ASSUME NEW f \in flows, CloseFlow(f) PROVE FlowInv'
  <2>1. /\ Clean /\ flows' = flows \ {f} /\ asked' = asked \ {f}
        /\ UNCHANGED <<apply, addrMap, xlat>>
    BY <1>9 DEF CloseFlow, faults, Clean
  <2> QED BY <2>1 DEF FlowInv, Serves, Pushed, apply
<1>10. CASE UNCHANGED vars
  <2>1. Clean
    BY <1>10 DEF vars, faults, Clean
  <2> QED BY <1>10, <2>1 DEF vars, apply, kernel, FlowInv, Serves, Pushed
<1> QED
  BY <1>1, <1>2, <1>3, <1>4, <1>5, <1>6, <1>7, <1>8, <1>9, <1>10
  DEF Next, Process, Clients

\* Without failures apply has asked for the deletion of every connection that
\* outlives the mapping it was opened under (push, then flush the previous
\* address, then forget).
THEOREM StaleFlowsAreFlushed == Spec => []StaleFlowsAreAsked
<1>1. Init => TypeOK /\ KernelInv /\ FlowInv
  BY ReconcilerAssumption, InitTypeOK, InitKernelInv, InitFlowInv
<1>2. TypeOK /\ KernelInv /\ FlowInv /\ [Next]_vars
        => TypeOK' /\ KernelInv' /\ FlowInv'
  BY ReconcilerAssumption, StepTypeOK, StepKernelInv, StepFlowInv
<1>3. FlowInv => StaleFlowsAreAsked
  BY DEF FlowInv, StaleFlowsAreAsked
<1> QED BY <1>1, <1>2, <1>3, PTL DEF Spec

\* A running process moves a port straight from the target it serves to the
\* one being applied (SetMap replaces map and chain in one batch).
THEOREM PortsNeverDetour == Spec => PortsMoveStraight
<1> DEFINE Straight ==
      restarts' = restarts =>
        \A k \in Keys : Serves(k)' # Serves(k) => pc = "push" /\ Serves(k)' = desired[k]
<1>1. TypeOK /\ [Next]_vars => [Straight]_vars
  <2> SUFFICES ASSUME TypeOK, Next, restarts' = restarts PROVE Straight
    BY DEF vars
  <2>1. CASE SetMap
    <3>1. \A k \in Keys : Serves(k)' = IF InSlot(k, slot) THEN desired[k] ELSE Serves(k)
      BY <2>1, SetMapServes, ReconcilerAssumption DEF SetMap, Serves
    <3> QED BY <2>1, <3>1 DEF SetMap
  <2>2. CASE Restart
    <3>1. restarts' # restarts
      BY <2>2 DEF Restart, TypeOK
    <3> QED BY <3>1
  <2>3. CASE UNCHANGED <<addrMap, xlat>>
    BY <2>3 DEF Serves
  <2>4. SetMap \/ Restart \/ UNCHANGED <<addrMap, xlat>>
    BY DEF Next, Process, Clients, Receive, SetMapError, FlushDestination, FlushError,
           Commit, OpenFlow, CloseFlow, kernel
  <2> QED BY <2>1, <2>2, <2>3, <2>4
<1>2. Spec => []TypeOK
  BY TypeCorrect
<1> QED BY <1>1, <1>2, PTL DEF Spec, PortsMoveStraight

-----------------------------------------------------------------------------
(* Refinement *)

\* Empty tables serve nothing.
LEMMA InitRefines == Init => Table!Init
BY DEF Init, Table!Init, Table!Empty, Serves, Lookup, Phase

\* Every step of apply is a step of the port table or invisible to it.
LEMMA StepRefines ==
    ASSUME ReconcilerAssumption, TypeOK, KernelInv, [Next]_vars
    PROVE  [Table!Next]_(Table!vars)
<1> DEFINE Shown == [k \in Keys |-> Serves(k)]
<1>1. ASSUME NEW st \in Snapshots, Receive(st) PROVE Table!Announce
  <2>1. desired' \in DesiredMaps
    BY <1>1 DEF Receive, DesiredMaps
  <2>2. Shown' = Shown
    BY <1>1 DEF Receive, kernel, Serves
  <2> QED BY <1>1, <2>1, <2>2 DEF Receive, Table!Announce, Phase
<1>2. CASE SetMap
  <2>1. \A k \in Keys : Serves(k)' = IF InSlot(k, slot) THEN desired[k] ELSE Serves(k)
    BY <1>2, SetMapServes DEF SetMap, Serves
  <2>2. Shown' = [k \in Keys |-> IF Shown'[k] = desired[k] THEN desired[k] ELSE Shown[k]]
    BY <2>1
  <2>3. Phase = "moving" /\ Phase' = "moving" /\ desired' = desired
    BY <1>2 DEF SetMap, Phase
  <2> QED BY <2>2, <2>3 DEF Table!Next, Table!Move
<1>3. CASE SetMapError
  <2>1. Shown' = Shown
    BY <1>3 DEF SetMapError, kernel, Serves
  <2> QED BY <1>3, <2>1 DEF SetMapError, Table!Next, Table!Abandon, Phase
<1>4. CASE Commit
  <2>1. Shown' = Shown
    BY <1>4 DEF Commit, kernel, Serves
  <2>2. Shown = desired
    BY <1>4 DEF Commit, KernelInv, TypeOK
  <2> QED BY <1>4, <2>1, <2>2 DEF Commit, Table!Next, Table!Arrive, Phase
<1>5. CASE Restart
  <2>1. pc' = "idle" /\ ok' = FALSE /\ desired' = [k \in Keys |-> None]
    BY <1>5 DEF Restart
  <2>2. Shown' = Shown \/ Shown' = [k \in Keys |-> None]
    BY <1>5 DEF Restart, Serves, Lookup
  <2> QED BY <2>1, <2>2 DEF Table!Next, Table!Crash, Table!Empty, Phase
<1>6. CASE UNCHANGED <<pc, ok, desired, addrMap, xlat>>
  BY <1>6 DEF Table!vars, Serves, Phase
<1>7. \/ \E st \in Snapshots : Receive(st)
      \/ SetMap \/ SetMapError \/ Commit \/ Restart
      \/ UNCHANGED <<pc, ok, desired, addrMap, xlat>>
  BY DEF Next, Process, Clients, FlushDestination, FlushError, OpenFlow, CloseFlow,
         vars, apply, kernel
<1> QED BY <1>1, <1>2, <1>3, <1>4, <1>5, <1>6, <1>7 DEF Table!Next

\* The reconciler keeps what PortTable promises, whatever fails (Run, apply).
THEOREM RefinesPortTable == Spec => ImplementsPortTable
<1>1. Init => TypeOK /\ KernelInv /\ Table!Init
  BY ReconcilerAssumption, InitTypeOK, InitKernelInv, InitRefines
<1>2. TypeOK /\ KernelInv /\ [Next]_vars => TypeOK' /\ KernelInv'
  BY ReconcilerAssumption, StepTypeOK, StepKernelInv
<1>3. TypeOK /\ KernelInv /\ [Next]_vars => [Table!Next]_(Table!vars)
  BY ReconcilerAssumption, StepRefines
<1> QED BY <1>1, <1>2, <1>3, PTL DEF Spec, ImplementsPortTable, Table!Spec

-----------------------------------------------------------------------------
(* The reconciler behind discovery (module DnatPipeline) *)

\* What discovery has sent, and what its goroutines are about to send, are
\* snapshots the reconciler knows how to read.
SentInv ==
    /\ docker \in [Disc!Plain -> Backend]
    /\ view \in [Disc!Goroutines -> Snapshots]
    /\ out \in Seq(Snapshots)

\* Discovery's vocabulary, in terms of the reconciler's.
LEMMA DiscoveryWords ==
    /\ Disc!Backend = Backend /\ Disc!Views = Snapshots
    /\ Disc!NoAddr \in Backend
    /\ \A c \in Disc!Wrapped : WrapTarget[c] \in Disc!Plain
BY PipelineAssumption DEF Disc!Backend, Backend, Disc!Views, Snapshots, Disc!NoAddr,
   Disc!DiscoveryAssumption

\* Nothing is sent at the start.
LEMMA InitSent == PInit => SentInv
<1> SUFFICES ASSUME PInit PROVE SentInv  OBVIOUS
<1>1. /\ docker = [c \in Disc!Plain |-> Disc!NoAddr]
      /\ view = [g \in Disc!Goroutines |-> [c \in Containers |-> Disc!NoAddr]]
      /\ out = <<>>
  BY DEF PInit, Disc!Init
<1>2. [c \in Containers |-> Disc!NoAddr] \in Snapshots
  BY DiscoveryWords DEF Snapshots
<1> QED BY <1>1, <1>2, DiscoveryWords DEF SentInv

\* One step of a goroutine of discovery.
LEMMA SnapshotSent ==
    ASSUME SentInv, NEW g \in Disc!Goroutines, Disc!snapshot(g)
    PROVE  SentInv'
<1>1. docker' = docker
  BY DEF Disc!snapshot, Disc!ContainerList, Disc!ListError, Disc!Inspect,
         Disc!InspectError, Disc!Assembled,
         Disc!Send, Disc!GiveUp, Disc!SendOnClosed, Disc!env
<1>2. view' \in [Disc!Goroutines -> Snapshots]
  <2>1. CASE Disc!ContainerList(g)
    <3>1. [c \in Containers |-> IF c \in Disc!Plain THEN docker[c] ELSE Disc!NoAddr] \in Snapshots
      BY DiscoveryWords DEF SentInv, Snapshots
    <3> QED BY <2>1, <3>1 DEF Disc!ContainerList, SentInv
  <2>2. ASSUME NEW c \in Disc!Wrapped, Disc!Inspect(g, c)
        PROVE  view' \in [Disc!Goroutines -> Snapshots]
    <3>1. docker[WrapTarget[c]] \in Backend
      BY DiscoveryWords DEF SentInv
    <3>2. [view[g] EXCEPT ![c] = docker[WrapTarget[c]]] \in Snapshots
      BY <3>1 DEF SentInv, Snapshots
    <3> QED BY <2>2, <3>2 DEF Disc!Inspect, SentInv
  <2>3. ASSUME NEW c \in Disc!Wrapped, Disc!InspectError(g, c)
        PROVE  view' \in [Disc!Goroutines -> Snapshots]
    <3>1. [view[g] EXCEPT ![c] = Disc!NoAddr] \in Snapshots
      BY DiscoveryWords DEF SentInv, Snapshots
    <3> QED BY <2>3, <3>1 DEF Disc!InspectError, SentInv
  <2>4. CASE UNCHANGED view
    BY <2>4 DEF SentInv
  <2> QED BY <2>1, <2>2, <2>3, <2>4 DEF Disc!snapshot, Disc!ListError, Disc!Assembled, Disc!Send,
         Disc!GiveUp, Disc!SendOnClosed
<1>3. out' \in Seq(Snapshots)
  <2>1. out' = out \/ out' = Append(out, view[g])
    BY DEF Disc!snapshot, Disc!ContainerList, Disc!ListError, Disc!Inspect,
         Disc!InspectError, Disc!Assembled,
           Disc!Send, Disc!GiveUp, Disc!SendOnClosed
  <2>2. out \in Seq(Snapshots) /\ view[g] \in Snapshots
    BY DEF SentInv
  <2> QED BY <2>1, <2>2
<1> QED BY <1>1, <1>2, <1>3 DEF SentInv

\* What is sent stays readable, whoever steps.
LEMMA SentStep == SentInv /\ [PNext]_allVars => SentInv'
<1> SUFFICES ASSUME SentInv, [PNext]_allVars PROVE SentInv'
  OBVIOUS
<1>1. CASE \E g \in Disc!Goroutines : Disc!snapshot(g)
  BY <1>1, SnapshotSent
<1>2. CASE Disc!Daemon
  <2>1. docker' = docker \/ \E c \in Disc!Plain, a \in Disc!Backend : docker' = [docker EXCEPT ![c] = a]
    BY <1>2 DEF Disc!Daemon, Disc!ContainerChange, Disc!WrappedChange, Disc!SilentChange
  <2>2. UNCHANGED <<view, out>>
    BY <1>2 DEF Disc!Daemon, Disc!ContainerChange, Disc!WrappedChange, Disc!SilentChange, Disc!Change
  <2> QED BY <2>1, <2>2, DiscoveryWords DEF SentInv
<1>3. CASE \/ Disc!OpenStream \/ Disc!OnMessage \/ Disc!StreamError \/ Disc!RunReturns
           \/ Disc!Tick \/ Disc!PollReturns \/ (Process /\ UNCHANGED <<discVars, out, newest>>)
           \/ UNCHANGED allVars
  <2>1. UNCHANGED <<docker, view, out>>
    BY <1>3 DEF Disc!OpenStream, Disc!OnMessage, Disc!StreamError, Disc!RunReturns, Disc!Tick,
       Disc!PollReturns, Disc!env, discVars, allVars
  <2> QED BY <2>1 DEF SentInv
<1>4. CASE ReceiveUpdate
  <2>1. out # <<>> /\ out' = Tail(out) /\ UNCHANGED <<docker, view>>
    BY <1>4 DEF ReceiveUpdate, discVars
  <2> QED BY <2>1 DEF SentInv
<1> QED BY <1>1, <1>2, <1>3, <1>4 DEF PNext, Reconcile, Discover, Disc!EventGoroutine,
       Disc!PollGoroutine, Disc!Goroutines

\* Whatever discovery sends and whenever, the process that runs both takes only
\* steps of module Reconciler, whose snapshots are arbitrary: all that is proved
\* above holds of the composition (runNetworkAnchor, Updates, Run).
THEOREM PipelineReconciles == PSpec => Spec
<1>1. PInit => Init /\ SentInv
  BY InitSent DEF PInit
<1>2. SentInv /\ [PNext]_allVars => SentInv'
  BY SentStep
<1>3. SentInv /\ [PNext]_allVars => [Next]_vars
  <2> SUFFICES ASSUME SentInv, PNext PROVE [Next]_vars  BY DEF allVars
  <2>1. CASE ReceiveUpdate
    <3>1. Head(out) \in Snapshots /\ Receive(Head(out))
      BY <2>1 DEF ReceiveUpdate, SentInv
    <3> QED BY <3>1 DEF Next
  <2>2. CASE Process
    BY <2>2 DEF Next
  <2> QED BY <2>1, <2>2 DEF PNext, Reconcile, Discover
<1> QED BY <1>1, <1>2, <1>3, PTL DEF PSpec, Spec

\* To discovery the reconciler is the reader of its channel and nothing more.
THEOREM PipelineDiscovers == PSpec => Disc!Spec
<1>1. PInit => Disc!Init
  BY DEF PInit
<1>2. [PNext]_allVars => [Disc!Next]_(Disc!vars)
  <2> SUFFICES ASSUME [PNext]_allVars PROVE [Disc!Next]_(Disc!vars)  OBVIOUS
  <2>1. CASE ReceiveUpdate
    <3>1. Disc!Consume
      BY <2>1 DEF ReceiveUpdate, Disc!Consume, discVars, Disc!env, Disc!events, Disc!ending
    <3> QED BY <3>1 DEF Disc!Next
  <2>2. CASE UNCHANGED <<discVars, out>>
    BY <2>2 DEF discVars, Disc!vars, Disc!env, Disc!events, Disc!ending
  <2>3. CASE Discover(Disc!Daemon \/ Disc!EventGoroutine \/ Disc!PollGoroutine)
    BY <2>3 DEF Discover, Disc!Next
  <2> QED BY <2>1, <2>2, <2>3 DEF PNext, Reconcile, allVars
<1> QED BY <1>1, <1>2, PTL DEF PSpec, Disc!Spec

\* The snapshot sent last is the youngest in the channel, or, once that is empty,
\* the one the reconciler's desired map was made from.
LatestInv ==
    /\ pc = "idle" /\ ok => last = desired
    /\ out # <<>> => newest = out[Len(out)]
    /\ out = <<>> => \A k \in Keys : desired[k] \in Served(newest, k)

\* Whichever backend wins a port, the port gets what that snapshot has for it.
LEMMA DesiredIsServed ==
    ASSUME NEW st \in Snapshots, NEW r \in Orders, NEW k \in Keys
    PROVE  desiredFromState(st, r)[k] \in Served(st, k)
<1>1. CASE Claimants(st, k) = {}
  BY <1>1 DEF desiredFromState, Served
<1>2. CASE Claimants(st, k) # {}
  <2>1. Winner(st, k, r) \in Claimants(st, k)
    BY <1>2, WinnerClaims, ReconcilerAssumption
  <2> QED BY <1>2, <2>1 DEF desiredFromState, Served
<1> QED BY <1>1, <1>2

\* Nothing is sent, and nothing desired, at the start.
LEMMA InitLatest == PInit => LatestInv
<1> SUFFICES ASSUME PInit PROVE LatestInv  OBVIOUS
<1>1. newest = [c \in Containers |-> Disc!NoAddr] /\ out = <<>>
  BY DEF PInit, Disc!Init
<1>2. desired = [k \in Keys |-> None] /\ last = desired
  BY DEF PInit, Init
<1>3. ASSUME NEW k \in Keys PROVE desired[k] \in Served(newest, k)
  <2>1. \A c \in Containers : AddressOf(newest, c, k.fam) = None
    BY <1>1 DEF AddressOf, Disc!NoAddr
  <2>2. Claimants(newest, k) = {}
    BY <2>1 DEF Claimants
  <2> QED BY <1>2, <2>2 DEF Served
<1> QED BY <1>1, <1>2, <1>3 DEF LatestInv

\* Discovery touches the channel by appending to it and not otherwise.
LEMMA DiscoveryAppends ==
    ASSUME SentInv, Disc!Daemon \/ Disc!EventGoroutine \/ Disc!PollGoroutine
    PROVE  out' = out \/ \E st \in Snapshots : out' = Append(out, st)
<1>1. CASE \E g \in Disc!Goroutines : Disc!snapshot(g)
  BY <1>1 DEF SentInv, Disc!snapshot, Disc!ContainerList, Disc!ListError, Disc!Inspect,
     Disc!InspectError, Disc!Assembled, Disc!Send, Disc!GiveUp, Disc!SendOnClosed
<1>2. CASE \/ Disc!Daemon \/ Disc!OpenStream \/ Disc!OnMessage \/ Disc!StreamError
           \/ Disc!RunReturns \/ Disc!Tick \/ Disc!PollReturns
  BY <1>2 DEF Disc!Daemon, Disc!ContainerChange, Disc!WrappedChange, Disc!SilentChange, Disc!Change,
     Disc!OpenStream, Disc!OnMessage, Disc!StreamError, Disc!RunReturns, Disc!Tick, Disc!PollReturns
<1> QED BY <1>1, <1>2 DEF Disc!EventGoroutine, Disc!PollGoroutine, Disc!Goroutines

\* What discovery appends is what was sent last.
LEMMA DiscoverKeepsLatest ==
    ASSUME SentInv, LatestInv,
           Discover(Disc!Daemon \/ Disc!EventGoroutine \/ Disc!PollGoroutine)
    PROVE  LatestInv'
<1>1. UNCHANGED <<pc, ok, last, desired>> /\ out \in Seq(Snapshots)
  BY DEF Discover, vars, apply, SentInv
<1>2. newest' = IF Len(out') > Len(out) THEN out'[Len(out')] ELSE newest
  BY DEF Discover
<1>3. CASE out' = out
  <2>1. newest' = newest
    BY <1>1, <1>2, <1>3
  <2> QED BY <1>1, <1>3, <2>1 DEF LatestInv, Served
<1>4. ASSUME NEW st \in Snapshots, out' = Append(out, st) PROVE LatestInv'
  <2>1. Len(out') > Len(out) /\ out' # <<>>
    BY <1>1, <1>4
  <2>2. newest' = out'[Len(out')]
    BY <1>2, <2>1
  <2> QED BY <1>1, <2>1, <2>2 DEF LatestInv
<1> QED BY <1>3, <1>4, DiscoveryAppends DEF Discover

\* Taking the head of a longer sequence leaves its last element where it is.
LEMMA LastStays ==
    ASSUME NEW S, NEW s \in Seq(S), s # <<>>, Len(s) # 1
    PROVE  Tail(s) # <<>> /\ Tail(s)[Len(Tail(s))] = s[Len(s)]
<1>1. /\ Len(s) \in Nat /\ Len(s) # 0 /\ Len(Tail(s)) = Len(s) - 1
      /\ \A i \in 1..Len(Tail(s)) : Tail(s)[i] = s[i + 1]
  BY EmptySeq, HeadTailProperties, LenProperties
<1>2. ASSUME NEW n \in Nat, n # 0, n # 1
      PROVE  n - 1 \in 1..n - 1 /\ (n - 1) + 1 = n /\ n - 1 # 0
  BY <1>2
<1>3. Len(Tail(s)) # 0 /\ Tail(s)[Len(Tail(s))] = s[Len(s)]
  <2> DEFINE n == Len(s)
  <2> HIDE DEF n
  <2>1. /\ n \in Nat /\ n # 0 /\ n # 1 /\ Len(Tail(s)) = n - 1
        /\ \A i \in 1..n - 1 : Tail(s)[i] = s[i + 1]
    BY <1>1 DEF n
  <2>2. Tail(s)[n - 1] = s[n]
    BY <2>1, <1>2, Zenon
  <2> QED BY <2>1, <2>2, <1>2 DEF n
<1> QED BY <1>3, EmptySeq

\* The reconciler takes the snapshots in the order they were sent, so the one it
\* is left with when the channel is empty is the newest.
LEMMA ReceiveKeepsLatest ==
    ASSUME SentInv, LatestInv, ReceiveUpdate
    PROVE  LatestInv'
<1>1. /\ out # <<>> /\ out \in Seq(Snapshots) /\ out' = Tail(out)
      /\ newest' = newest /\ pc' # "idle" /\ newest = out[Len(out)]
      /\ desired' \in Outcomes[Head(out)] /\ Head(out) \in Snapshots
  BY DEF ReceiveUpdate, Receive, SentInv, LatestInv
<1>2. PICK r \in Orders : desired' = desiredFromState(Head(out), r)
  BY <1>1 DEF Outcomes
<1>3. CASE Len(out) = 1
  <2>1. out' = <<>> /\ Head(out) = newest
    BY <1>1, <1>3
  <2>2. \A k \in Keys : desired'[k] \in Served(newest, k)
    BY <1>1, <1>2, <2>1, DesiredIsServed
  <2> QED BY <1>1, <2>1, <2>2 DEF LatestInv, Served
<1>4. CASE Len(out) # 1
  <2>1. out' # <<>> /\ out'[Len(out')] = out[Len(out)]
    BY <1>1, <1>4, LastStays
  <2> QED BY <1>1, <2>1 DEF LatestInv
<1> QED BY <1>3, <1>4

\* The snapshot sent last is never lost, whoever steps.
LEMMA LatestStep == SentInv /\ LatestInv /\ [PNext]_allVars => LatestInv'
<1> SUFFICES ASSUME SentInv, LatestInv, [PNext]_allVars PROVE LatestInv'
  OBVIOUS
<1>1. CASE Discover(Disc!Daemon \/ Disc!EventGoroutine \/ Disc!PollGoroutine)
  BY <1>1, DiscoverKeepsLatest
<1>2. CASE ReceiveUpdate
  BY <1>2, ReceiveKeepsLatest
<1>3. CASE Process /\ UNCHANGED <<discVars, out, newest>>
  <2>1. desired' = desired /\ UNCHANGED <<out, newest>>
    BY <1>3 DEF Process, SetMap, SetMapError, FlushDestination, FlushError, Commit
  <2>2. pc' = "idle" /\ ok' => last' = desired'
    BY <1>3 DEF Process, SetMap, SetMapError, FlushDestination, FlushError, Commit, LatestInv
  <2> QED BY <2>1, <2>2 DEF LatestInv, Served
<1>4. CASE UNCHANGED allVars
  <2>1. UNCHANGED <<pc, ok, last, desired, out, newest>>
    BY <1>4 DEF allVars, vars, apply
  <2> QED BY <2>1 DEF LatestInv, Served
<1> QED BY <1>1, <1>2, <1>3, <1>4 DEF PNext, Reconcile

\* The packet path at rest is the snapshot sent last, whole, although two
\* goroutines race for the channel and apply pushes each in four batches any of
\* which may fail (PathIsTheLastSent; snapshot, Run, apply, SetMap).
THEOREM PathFollowsTheLastSent == PSpec => []PathIsTheLastSent
<1>1. PInit => SentInv /\ LatestInv
  BY InitSent, InitLatest
<1>2. SentInv /\ LatestInv /\ [PNext]_allVars => SentInv' /\ LatestInv'
  BY SentStep, LatestStep
<1>3. LatestInv /\ KernelMatchesLast => PathIsTheLastSent
  BY DEF LatestInv, KernelMatchesLast, PathIsTheLastSent, Drained, Reflects
<1>4. PSpec => []KernelMatchesLast
  BY PipelineReconciles, KernelAgreesWithLast, PTL
<1> QED BY <1>1, <1>2, <1>3, <1>4, PTL DEF PSpec
=============================================================================
