-------------------------- MODULE ServiceAnchorProofs --------------------------
(***************************************************************************)
(* Proofs about the service-anchor, for any gateway addresses and any      *)
(* number of moves, tamperings, failures and crashes: types, that a run    *)
(* nothing disturbs gives the namespace its routes back, and that          *)
(* readiness, the manager's memory and the kernel agree.                   *)
(***************************************************************************)
EXTENDS ServiceAnchor, TLAPS

Clean == faults = 0 /\ tampers = 0 /\ crashes = 0

\* What the namespace had from docker is never one of the name's addresses.
BeforeInv == before \in [Families -> {Bridge, None}]

\* A family's route is the one installed last, or the original if none was.
Tracked(f) == route[f] = (IF current[f] = None THEN before[f] ELSE current[f])

\* What each phase of Run may rely on while nothing has gone wrong.
RouteInv ==
    Clean =>
        /\ pc = "record" => route = before /\ current = NoRoute
        /\ pc \notin {"record", "exited"} => original = before
        /\ pc \in {"lookup", "read", "replace", "wait"} => \A f \in Families : Tracked(f)
        /\ pc = "remove" =>
              \A f \in Families :
                 IF f \in todo \/ current[f] = None THEN Tracked(f) ELSE route[f] = None
        /\ pc = "restore" => \A f \in Families \ todo : route[f] = before[f]
        /\ pc = "exited" => route = before

IInv == TypeOK /\ BeforeInv /\ RouteInv

-----------------------------------------------------------------------------
\* Runs start with the route docker gave the namespace, or none.
LEMMA InitInv == ServiceAnchorAssumption /\ Init => IInv
<1> SUFFICES ASSUME ServiceAnchorAssumption, Init PROVE IInv
  OBVIOUS
<1>1. /\ static \in BOOLEAN /\ wrap \in BOOLEAN /\ cancelled \in BOOLEAN /\ ready \in BOOLEAN
  BY Zenon DEF Init
<1>2. BeforeInv
  BY DEF Init, BeforeInv
<1>3. TypeOK
  BY <1>1 DEF Init, TypeOK, Names, Routes, NoRoute, ServiceAnchorAssumption
<1>4. RouteInv
  BY DEF Init, RouteInv
<1> QED BY <1>2, <1>3, <1>4 DEF IInv

-----------------------------------------------------------------------------
\* What happens outside disturbs the run or moves only the name.
LEMMA EnvironmentStep ==
    ASSUME ServiceAnchorAssumption, IInv, Environment
    PROVE  IInv'
<1>1. ASSUME NEW f \in Families, NEW a \in Gateways \cup {None}, Move(f, a) PROVE IInv'
  <2>1. UNCHANGED <<static, wrap, route, before, pc, want, todo, seen, current, original, ready,
                    cancelled, tampers, faults, crashes>>
    BY <1>1 DEF Move, config, manager
  <2>2. name' \in Names /\ moves' \in 0..MaxMoves
    BY <1>1 DEF Move, Names, IInv, TypeOK, ServiceAnchorAssumption
  <2>3. TypeOK'
    BY <2>1, <2>2 DEF IInv, TypeOK
  <2> QED BY <2>1, <2>3 DEF IInv, BeforeInv, RouteInv, Clean, Tracked
<1>2. ASSUME NEW f \in Families, NEW a \in {None, Bridge}, Tamper(f, a) PROVE IInv'
  <2>1. UNCHANGED <<static, wrap, name, before, pc, want, todo, seen, current, original, ready,
                    cancelled, moves, faults, crashes>>
    BY <1>2 DEF Tamper, config, manager
  <2>2. route' \in Routes /\ tampers' \in 0..MaxTampers /\ tampers' # 0
    BY <1>2 DEF Tamper, Routes, IInv, TypeOK, ServiceAnchorAssumption
  <2>3. TypeOK'
    BY <2>1, <2>2 DEF IInv, TypeOK
  <2> QED BY <2>1, <2>2, <2>3 DEF IInv, BeforeInv, RouteInv, Clean
<1>3. CASE Cancel
  <2>1. UNCHANGED <<static, wrap, name, route, before, pc, want, todo, seen, current, original,
                    ready, moves, tampers, faults, crashes>>
    BY <1>3 DEF Cancel, config, manager, counts
  <2>2. cancelled' \in BOOLEAN
    BY <1>3 DEF Cancel
  <2>3. TypeOK'
    BY <2>1, <2>2 DEF IInv, TypeOK
  <2> QED BY <2>1, <2>3 DEF IInv, BeforeInv, RouteInv, Clean, Tracked
<1>4. CASE Crash
  <2>1. /\ UNCHANGED <<static, wrap, name, before, moves, tampers, faults>>
        /\ pc' = "record" /\ want' = NoRoute /\ todo' = {} /\ seen' = None
        /\ current' = NoRoute /\ original' = NoRoute
    BY <1>4 DEF Crash, config
  <2>2. route' \in {route, NoRoute} /\ crashes' \in 0..MaxCrashes /\ crashes' # 0
    BY <1>4 DEF Crash, IInv, TypeOK, ServiceAnchorAssumption
  <2>3. cancelled' \in BOOLEAN /\ ready' \in BOOLEAN
    BY <1>4 DEF Crash
  <2>4. route' \in Routes /\ NoRoute \in Names /\ NoRoute \in Routes
    BY <2>2 DEF NoRoute, Names, Routes, IInv, TypeOK
  <2>5. TypeOK'
    BY <2>1, <2>2, <2>3, <2>4 DEF IInv, TypeOK
  <2> QED BY <2>1, <2>2, <2>5 DEF IInv, BeforeInv, RouteInv, Clean
<1> QED BY <1>1, <1>2, <1>3, <1>4 DEF Environment

\* Steps of Run change no counter but that of failures.
LEMMA FaultTypes ==
    ASSUME ServiceAnchorAssumption, TypeOK, Fault \/ UNCHANGED counts
    PROVE  /\ moves' \in 0..MaxMoves /\ tampers' \in 0..MaxTampers
           /\ faults' \in 0..MaxFaults /\ crashes' \in 0..MaxCrashes
           /\ Clean' => Clean /\ UNCHANGED counts
BY DEF Fault, counts, Clean, TypeOK, ServiceAnchorAssumption

\* Up to the routes: recording, looking up, waiting and stopping.
LEMMA LoopSteps ==
    ASSUME ServiceAnchorAssumption, IInv,
           \/ recordOriginals \/ Lookup \/ LookupFails \/ Tick \/ Reconciled \/ Stop
    PROVE  IInv'
<1>1. UNCHANGED <<static, wrap, name, before, cancelled, route, current, ready>>
  BY DEF recordOriginals, Lookup, LookupFails, Tick, Reconciled, Stop, same, config
<1>2. Fault \/ UNCHANGED counts
  BY DEF recordOriginals, Lookup, LookupFails, Tick, Reconciled, Stop
<1>3. /\ moves' \in 0..MaxMoves /\ tampers' \in 0..MaxTampers
      /\ faults' \in 0..MaxFaults /\ crashes' \in 0..MaxCrashes
      /\ Clean' => Clean /\ UNCHANGED counts
  BY <1>2, FaultTypes DEF IInv
<1>4. original' \in Routes /\ want' \in Names /\ seen' \in Gateways \cup {Bridge, None}
  BY DEF recordOriginals, Lookup, LookupFails, Tick, Reconciled, Stop, Routes, Names, IInv, TypeOK
<1>5. /\ pc' \in {"lookup", "read", "wait", "remove"} /\ todo' \subseteq Families
      /\ pc' = "read" => todo' \subseteq Known(want')
  BY DEF recordOriginals, Lookup, LookupFails, Tick, Reconciled, Stop, Known, IInv, TypeOK
<1>6. TypeOK'
  BY <1>1, <1>3, <1>4, <1>5 DEF IInv, TypeOK
<1>7. ASSUME Clean' PROVE RouteInv'
  <2>1. Clean /\ UNCHANGED counts
    BY <1>3, <1>7
  <2>2. CASE recordOriginals
    <3>1. route = before /\ current = NoRoute /\ pc' = "lookup"
      BY <2>1, <2>2 DEF recordOriginals, IInv, RouteInv
    <3>2. original' = route
      BY <2>1, <2>2 DEF recordOriginals, Fault, counts, IInv, TypeOK
    <3> QED BY <1>1, <3>1, <3>2 DEF RouteInv, Tracked, NoRoute
  <2>3. CASE ~recordOriginals
    <3>1. /\ original' = original
          /\ \/ pc \in {"lookup", "read", "wait"} /\ pc' \in {"lookup", "read", "wait"}
             \/ pc = "wait" /\ pc' = "remove"
      BY <2>3 DEF Lookup, LookupFails, Tick, Reconciled, Stop
    <3>2. original = before /\ \A f \in Families : Tracked(f)
      BY <2>1, <3>1 DEF IInv, RouteInv
    <3>3. CASE pc' \in {"lookup", "read", "wait"}
      BY <1>1, <3>1, <3>2, <3>3 DEF RouteInv, Tracked
    <3>4. CASE pc' = "remove"
      <4>1. todo' = Known(current)
        BY <2>3, <3>4 DEF Lookup, LookupFails, Tick, Reconciled, Stop
      <4> QED BY <1>1, <3>1, <3>2, <3>4, <4>1 DEF RouteInv, Tracked, Known
    <3> QED BY <3>1, <3>3, <3>4
  <2> QED BY <2>2, <2>3
<1>8. BeforeInv' /\ RouteInv'
  BY <1>1, <1>7 DEF IInv, BeforeInv, RouteInv
<1> QED BY <1>6, <1>8 DEF IInv

\* applyRoute leaves a family's kernel route and the remembered gateway equal.
LEMMA ApplySteps ==
    ASSUME ServiceAnchorAssumption, IInv, NEW f \in Families, applyRoute(f)
    PROVE  IInv'
<1>1. /\ UNCHANGED <<static, wrap, name, before, cancelled, want, original>>
      /\ pc \in {"read", "replace"} /\ pc' \in {"read", "replace"} /\ f = First
  BY DEF applyRoute, ReadRoute, Replace, ReplaceFails, same, config
<1>2. Fault \/ UNCHANGED counts
  BY DEF applyRoute, ReadRoute, Replace, ReplaceFails
<1>3. /\ moves' \in 0..MaxMoves /\ tampers' \in 0..MaxTampers
      /\ faults' \in 0..MaxFaults /\ crashes' \in 0..MaxCrashes
      /\ Clean' => Clean /\ UNCHANGED counts
  BY <1>2, FaultTypes DEF IInv
<1>4. f \in todo /\ todo \subseteq Known(want)
  BY <1>1 DEF applyRoute, ReadRoute, Replace, ReplaceFails, First, Families, IInv, TypeOK
<1>5. /\ want \in [Families -> Gateways \cup {None}] /\ want[f] \in Gateways
      /\ route \in [Families -> Gateways \cup {Bridge, None}]
      /\ current \in [Families -> Gateways \cup {None}]
      /\ Bridge \notin Gateways /\ None \notin Gateways
  BY <1>4 DEF Known, Names, Routes, IInv, TypeOK, ServiceAnchorAssumption
<1>6. ready' \in BOOLEAN
  BY DEF applyRoute, ReadRoute, Replace, ReplaceFails, IInv, TypeOK
<1>7. todo' \subseteq todo /\ (pc' = "replace" => todo' # {})
  BY <1>4 DEF applyRoute, ReadRoute, Replace, ReplaceFails
<1>8. /\ \/ UNCHANGED current /\ UNCHANGED route
         \/ current' = [current EXCEPT ![f] = want[f]] /\ UNCHANGED route
         \/ current' = [current EXCEPT ![f] = want[f]] /\ route' = [route EXCEPT ![f] = want[f]]
      /\ seen' \in Gateways \cup {Bridge, None}
  BY <1>5 DEF applyRoute, ReadRoute, Replace, ReplaceFails, KernelRoute, IInv, TypeOK
<1>9. current' \in Names /\ route' \in Routes
  BY <1>5, <1>8 DEF Names, Routes
<1>10. TypeOK'
  BY <1>1, <1>3, <1>4, <1>6, <1>7, <1>8, <1>9 DEF IInv, TypeOK
<1>11. ASSUME Clean' PROVE RouteInv'
  <2>1. Clean /\ UNCHANGED counts
    BY <1>3, <1>11
  <2>2. original = before /\ \A g \in Families : Tracked(g)
    BY <1>1, <2>1 DEF IInv, RouteInv
  <2>3. \/ UNCHANGED current /\ UNCHANGED route
        \/ current' = [current EXCEPT ![f] = want[f]] /\ route[f] = want[f] /\ UNCHANGED route
        \/ current' = [current EXCEPT ![f] = want[f]] /\ route' = [route EXCEPT ![f] = want[f]]
    BY <1>5 DEF applyRoute, ReadRoute, Replace, ReplaceFails, KernelRoute
  <2>4. \A g \in Families : Tracked(g)'
    BY <1>1, <1>5, <2>2, <2>3 DEF Tracked
  <2> QED BY <1>1, <2>2, <2>4 DEF RouteInv
<1>12. BeforeInv' /\ RouteInv'
  BY <1>1, <1>11 DEF IInv, BeforeInv, RouteInv
<1> QED BY <1>10, <1>12 DEF IInv

\* cleanup removes what was installed, then puts the originals back.
LEMMA CleanupSteps ==
    ASSUME ServiceAnchorAssumption, IInv,
           Removed \/ Exit \/ \E f \in Families : cleanup(f)
    PROVE  IInv'
<1>1. UNCHANGED <<static, wrap, name, before, cancelled, want, seen, ready>>
  BY DEF Removed, Exit, cleanup, RemoveRoute, RestoreRoute, same, config
<1>2. Fault \/ UNCHANGED counts
  BY DEF Removed, Exit, cleanup, RemoveRoute, RestoreRoute
<1>3. /\ moves' \in 0..MaxMoves /\ tampers' \in 0..MaxTampers
      /\ faults' \in 0..MaxFaults /\ crashes' \in 0..MaxCrashes
      /\ Clean' => Clean /\ UNCHANGED counts
  BY <1>2, FaultTypes DEF IInv
<1>4. /\ route \in [Families -> Gateways \cup {Bridge, None}]
      /\ current \in [Families -> Gateways \cup {None}]
      /\ original \in [Families -> Gateways \cup {Bridge, None}]
  BY DEF Names, Routes, IInv, TypeOK
<1>5. /\ pc' \in {"remove", "restore", "exited"} /\ todo' \subseteq Families
      /\ route' \in Routes /\ current' \in Names /\ original' \in Routes
  BY <1>4 DEF Removed, Exit, cleanup, RemoveRoute, RestoreRoute, Restorable, Known, NoRoute,
              Names, Routes, IInv, TypeOK
<1>6. TypeOK'
  BY <1>1, <1>3, <1>5 DEF IInv, TypeOK
<1>7. ASSUME Clean' PROVE RouteInv'
  <2>1. Clean /\ UNCHANGED counts
    BY <1>3, <1>7
  <2>2. ~Fault
    BY <2>1 DEF Fault, counts, IInv, TypeOK
  <2>3. CASE Removed
    <3>1. /\ pc = "remove" /\ todo = {} /\ pc' = "restore" /\ todo' = Restorable
          /\ UNCHANGED <<route, current, original>> /\ original = before
      BY <2>1, <2>3 DEF Removed, IInv, RouteInv
    <3>2. ASSUME NEW f \in Families \ Restorable PROVE route[f] = before[f]
      <4>1. IF current[f] = None THEN route[f] = before[f] ELSE route[f] = None
        BY <2>1, <3>1 DEF IInv, RouteInv, Tracked
      <4>2. CASE current[f] = None
        BY <4>1, <4>2
      <4>3. CASE current[f] # None
        <5>1. current[f] \in Gateways /\ before[f] \in {Bridge, None}
          BY <1>4, <4>3 DEF IInv, BeforeInv
        <5>2. before[f] = None
          BY <3>1, <3>2, <4>3, <5>1 DEF Restorable, Known, ServiceAnchorAssumption
        <5> QED BY <4>1, <4>3, <5>2
      <4> QED BY <4>2, <4>3
    <3> QED BY <1>1, <3>1, <3>2 DEF RouteInv
  <2>4. CASE Exit
    <3>1. /\ pc = "restore" /\ todo = {} /\ pc' = "exited" /\ UNCHANGED route
          /\ \A f \in Families : route[f] = before[f]
      BY <2>1, <2>4 DEF Exit, IInv, RouteInv
    <3>2. route = before
      BY <1>4, <3>1 DEF IInv, BeforeInv
    <3> QED BY <1>1, <3>1, <3>2 DEF RouteInv
  <2>5. ASSUME NEW f \in Families, RemoveRoute(f) PROVE RouteInv'
    <3>1. /\ pc = "remove" /\ pc' = "remove" /\ f \in todo /\ todo' = todo \ {f}
          /\ route' = (IF route[f] = current[f] THEN [route EXCEPT ![f] = None] ELSE route)
          /\ UNCHANGED <<current, original>> /\ original = before
          /\ \A g \in Families :
                IF g \in todo \/ current[g] = None THEN Tracked(g) ELSE route[g] = None
      BY <2>1, <2>2, <2>5 DEF RemoveRoute, IInv, RouteInv
    <3>2. ASSUME NEW g \in Families
          PROVE  IF g \in todo' \/ current[g] = None THEN Tracked(g)' ELSE route'[g] = None
      <4>1. CASE g = f
        BY <1>1, <1>4, <3>1, <4>1 DEF Tracked
      <4>2. CASE g # f
        BY <1>1, <1>4, <3>1, <4>2 DEF Tracked
      <4> QED BY <4>1, <4>2
    <3> QED BY <1>1, <3>1, <3>2 DEF RouteInv
  <2>6. ASSUME NEW f \in Families, RestoreRoute(f) PROVE RouteInv'
    <3>1. /\ pc = "restore" /\ pc' = "restore" /\ f \in todo /\ todo' = todo \ {f}
          /\ route' = [route EXCEPT ![f] = original[f]]
          /\ UNCHANGED <<current, original>> /\ original = before
          /\ \A g \in Families \ todo : route[g] = before[g]
      BY <2>1, <2>2, <2>6 DEF RestoreRoute, IInv, RouteInv
    <3>2. \A g \in Families \ todo' : route'[g] = before[g]
      BY <1>4, <3>1
    <3> QED BY <1>1, <3>1, <3>2 DEF RouteInv
  <2> QED BY <2>3, <2>4, <2>5, <2>6 DEF cleanup
<1>8. BeforeInv' /\ RouteInv'
  BY <1>1, <1>7 DEF IInv, BeforeInv, RouteInv
<1> QED BY <1>6, <1>8 DEF IInv

\* Every step preserves the invariant.
LEMMA NextInv == ServiceAnchorAssumption /\ IInv /\ [Next]_vars => IInv'
<1> SUFFICES ASSUME ServiceAnchorAssumption, IInv, [Next]_vars PROVE IInv'
  OBVIOUS
<1>1. CASE UNCHANGED vars
  BY <1>1 DEF vars, config, manager, counts, IInv, TypeOK, BeforeInv, RouteInv, Clean, Tracked
<1>2. CASE Environment
  BY <1>2, EnvironmentStep
<1>3. CASE Run
  BY <1>3, LoopSteps, ApplySteps, CleanupSteps DEF Run
<1> QED BY <1>1, <1>2, <1>3 DEF Next

LEMMA Invariant == Spec => []IInv
<1>1. Init => IInv
  BY InitInv, ServiceAnchorAssumption
<1>2. IInv /\ [Next]_vars => IInv'
  BY NextInv, ServiceAnchorAssumption
<1> QED BY <1>1, <1>2, PTL DEF Spec

-----------------------------------------------------------------------------
\* The types of the kernel's routes and of Manager's maps; applyRoute only ever
\* handles families reconcile has an address for.
THEOREM TypeCorrect == Spec => []TypeOK
<1>1. IInv => TypeOK
  BY DEF IInv
<1> QED BY <1>1, Invariant, PTL

\* F-29 and F-39: cleanup (RouteDel, then the originals) returns the namespace
\* as recordOriginals found it, at whatever point of Run the context ended.
THEOREM RoutesGivenBack == Spec => []EgressGivenBack
<1>1. IInv => EgressGivenBack
  BY DEF IInv, RouteInv, Clean, EgressGivenBack
<1> QED BY <1>1, Invariant, PTL

-----------------------------------------------------------------------------
(* ReportsWhatHolds *)

\* A gateway address of ours in the kernel is one Manager put there and counts.
HonestInv ==
    Working =>
        /\ ~(wrap /\ crashes > 0) =>
              /\ ready <=> Known(current) # {}
              /\ \A f \in Families : route[f] \in Gateways => current[f] # None
        /\ tampers = 0 => \A f \in Known(current) : route[f] = current[f]

\* Nothing outside can make the kernel's route a gateway's, and a restart starts
\* with no memory, in a namespace without a route or next to its own.
LEMMA EnvironmentHonest ==
    ASSUME ServiceAnchorAssumption, TypeOK, HonestInv, Environment
    PROVE  HonestInv'
<1>1. ASSUME NEW f \in Families, NEW a \in Gateways \cup {None}, Move(f, a) PROVE HonestInv'
  <2>1. UNCHANGED <<wrap, route, pc, current, ready, tampers, crashes>>
    BY <1>1 DEF Move, config, manager
  <2> QED BY <2>1 DEF HonestInv, Working, Known
<1>2. ASSUME NEW f \in Families, NEW a \in {None, Bridge}, Tamper(f, a) PROVE HonestInv'
  <2>1. UNCHANGED <<wrap, pc, current, ready, crashes>>
    BY <1>2 DEF Tamper, config, manager
  <2>2. tampers' # 0 /\ route' = [route EXCEPT ![f] = a] /\ route \in [Families -> Gateways \cup {Bridge, None}]
    BY <1>2 DEF Tamper, TypeOK, Routes, ServiceAnchorAssumption
  <2>3. \A g \in Families : route'[g] \in Gateways => route[g] \in Gateways
    BY <2>2 DEF ServiceAnchorAssumption
  <2> QED BY <2>1, <2>2, <2>3 DEF HonestInv, Working, Known
<1>3. CASE Cancel
  <2>1. UNCHANGED <<wrap, route, pc, current, ready, tampers, crashes>>
    BY <1>3 DEF Cancel, config, manager, counts
  <2> QED BY <2>1 DEF HonestInv, Working, Known
<1>4. CASE Crash
  <2>1. /\ UNCHANGED <<wrap, tampers>> /\ current' = NoRoute
        /\ route' = (IF wrap THEN route ELSE NoRoute) /\ crashes' > 0
    BY <1>4 DEF Crash, config, TypeOK
  <2>2. ~ready'
    BY <1>4 DEF Crash
  <2>3. Known(current)' = {}
    BY <2>1 DEF Known, NoRoute
  <2>4. ~wrap => \A f \in Families : route'[f] \notin Gateways
    BY <2>1 DEF NoRoute, ServiceAnchorAssumption
  <2> QED BY <2>1, <2>2, <2>3, <2>4 DEF HonestInv
<1> QED BY <1>1, <1>2, <1>3, <1>4 DEF Environment

\* A route found in place is one that already counted; one installed counts now.
LEMMA ApplyHonest ==
    ASSUME ServiceAnchorAssumption, TypeOK, HonestInv, NEW f \in Families, applyRoute(f)
    PROVE  HonestInv'
<1>1. /\ UNCHANGED <<wrap, want>> /\ f = First /\ Working
      /\ UNCHANGED <<tampers, crashes>>
  BY DEF applyRoute, ReadRoute, Replace, ReplaceFails, same, config, counts, Fault, Working
<1>2. f \in todo /\ todo \subseteq Known(want)
  BY <1>1 DEF applyRoute, ReadRoute, Replace, ReplaceFails, First, Families, TypeOK
<1>3. /\ want[f] \in Gateways /\ want[f] # None
      /\ route \in [Families -> Gateways \cup {Bridge, None}]
      /\ current \in [Families -> Gateways \cup {None}]
  BY <1>2 DEF Known, Names, Routes, TypeOK, ServiceAnchorAssumption
<1>4. CASE UNCHANGED <<current, route, ready>>
  BY <1>1, <1>4 DEF HonestInv, Known
<1>5. CASE /\ current' = [current EXCEPT ![f] = want[f]] /\ route[f] = want[f]
           /\ UNCHANGED <<route, ready>>
  <2>1. f \in Known(current)' /\ \A g \in Families : current'[g] = IF g = f THEN want[f] ELSE current[g]
    BY <1>3, <1>5 DEF Known
  <2>2. \A g \in Families : g # f => (g \in Known(current)' <=> g \in Known(current))
    BY <2>1 DEF Known
  <2>3. ~(wrap /\ crashes > 0) => f \in Known(current)
    BY <1>1, <1>3, <1>5 DEF HonestInv, Known
  <2>4. ~(wrap /\ crashes > 0) => ready
    BY <1>1, <2>3 DEF HonestInv
  <2> QED BY <1>1, <1>3, <1>5, <2>1, <2>2, <2>4 DEF HonestInv, Known
<1>6. CASE Replace(f)
  <2>1. current' = [current EXCEPT ![f] = want[f]] /\ route' = [route EXCEPT ![f] = want[f]]
    BY <1>6 DEF Replace
  <2>2. ready'
    BY <1>6 DEF Replace
  <2>3. /\ f \in Known(current)'
        /\ \A g \in Families : current'[g] = IF g = f THEN want[f] ELSE current[g]
        /\ \A g \in Families : route'[g] = IF g = f THEN want[f] ELSE route[g]
    BY <1>3, <2>1 DEF Known
  <2> QED BY <1>1, <1>3, <2>2, <2>3 DEF HonestInv, Known
<1> QED BY <1>3, <1>4, <1>5, <1>6 DEF applyRoute, ReadRoute, ReplaceFails, KernelRoute,
       ServiceAnchorAssumption

\* The rest of Run touches neither, until cleanup.
LEMMA OthersHonest ==
    ASSUME ServiceAnchorAssumption, TypeOK, HonestInv,
           \/ recordOriginals \/ Lookup \/ LookupFails \/ Tick \/ Reconciled
           \/ Stop \/ Removed \/ Exit \/ \E f \in Families : cleanup(f)
    PROVE  HonestInv'
<1>1. CASE recordOriginals \/ Lookup \/ LookupFails \/ Tick \/ Reconciled
  <2>1. /\ UNCHANGED <<wrap, route, current, ready, tampers, crashes>> /\ Working
    BY <1>1 DEF recordOriginals, Lookup, LookupFails, Tick, Reconciled, same, config, counts,
                Fault, Working
  <2> QED BY <2>1 DEF HonestInv, Known
<1>2. CASE Stop \/ Removed \/ Exit \/ \E f \in Families : cleanup(f)
  <2>1. ~Working'
    BY <1>2 DEF Stop, Removed, Exit, cleanup, RemoveRoute, RestoreRoute, Working
  <2> QED BY <2>1 DEF HonestInv
<1> QED BY <1>1, <1>2

\* F-35 and the manager's bookkeeping: readiness, Manager.current and the kernel
\* agree until cleanup begins, for any gateways, moves, failures and crashes.
THEOREM ReportsAreHonest == Spec => []ReportsWhatHolds
<1>1. Init => HonestInv
  <2> SUFFICES ASSUME Init PROVE HonestInv  OBVIOUS
  <2>1. current = NoRoute /\ \A f \in Families : route[f] \in {Bridge, None}
    BY DEF Init
  <2>2. ~ready
    BY DEF Init
  <2>3. Known(current) = {} /\ \A f \in Families : route[f] \notin Gateways
    BY <2>1, ServiceAnchorAssumption DEF Known, NoRoute, ServiceAnchorAssumption
  <2> QED BY <2>2, <2>3 DEF HonestInv
<1>2. TypeOK /\ HonestInv /\ [Next]_vars => HonestInv'
  <2> SUFFICES ASSUME TypeOK, HonestInv, [Next]_vars PROVE HonestInv'  OBVIOUS
  <2>1. CASE UNCHANGED vars
    BY <2>1 DEF vars, config, manager, counts, HonestInv, Working, Known
  <2>2. CASE Environment
    BY <2>2, EnvironmentHonest, ServiceAnchorAssumption
  <2>3. CASE Run
    BY <2>3, ApplyHonest, OthersHonest, ServiceAnchorAssumption DEF Run
  <2> QED BY <2>1, <2>2, <2>3 DEF Next
<1>3. HonestInv => ReportsWhatHolds
  BY DEF HonestInv, ReportsWhatHolds
<1> QED BY <1>1, <1>2, <1>3, TypeCorrect, PTL DEF Spec
================================================================================
