------------------------- MODULE AnchorLifecycleProofs -------------------------
(***************************************************************************)
(* Proofs about the network-anchor's life from setup to exit, for any set  *)
(* of containers, any channel capacity and any number of failures: types   *)
(* (of the discoverer's state too), that every return of runNetworkAnchor  *)
(* leaves no table behind, and no IPv4 lease that was not lost on the way, *)
(* unless their removal failed, and how a send on the closed channel can   *)
(* come about.                                                             *)
(***************************************************************************)
EXTENDS AnchorLifecycle, TLAPS

\* The order of the deferred calls: nothing exists before Setup, Teardown comes
\* after wg.Wait, and a supervisor that does not run has let its lease go.
OrderInv ==
    /\ main = "setup" => ~tables /\ lease = "none" /\ dhcp = "off"
    /\ main = "teardown" => dhcp = "done"
    /\ dhcp # "running" => lease \in {"none", "left"}
    /\ lease = "left" => leaseFaults > 0
    /\ main = "exited" => dhcp # "running" /\ (tables => teardownFaults > 0)

IInv == LTypeOK /\ OrderInv

-----------------------------------------------------------------------------
(* Discovery's types *)

LEMMA BackendFacts ==
    /\ NoAddr \in Backend
    /\ DiscoveryAssumption => \A c \in Wrapped : WrapTarget[c] \in Plain /\ c \in Containers
BY DEF NoAddr, Backend, DiscoveryAssumption, Wrapped, Plain

LEMMA DiscoveryInit == DiscoveryAssumption /\ Init => TypeOK
<1> SUFFICES ASSUME DiscoveryAssumption, Init PROVE TypeOK
  OBVIOUS
<1>1. docker \in [Plain -> Backend] /\ view \in [Goroutines -> Views]
  BY BackendFacts DEF Init, Views
<1>2. pc \in [Goroutines -> {"off", "initial", "open", "wait", "list", "inspect", "send", "done"}]
      /\ todo \in [Goroutines -> SUBSET Wrapped] /\ up \subseteq Wrapped
  BY DEF Init, Goroutines
<1>3. out \in Seq(Views) /\ Len(out) <= ChanCap
  <2>1. out = <<>>
    BY DEF Init
  <2> QED BY <2>1 DEF DiscoveryAssumption
<1>4. /\ stream \in BOOLEAN /\ pending \in 0..MaxPending
      /\ cancelled \in BOOLEAN /\ closed \in BOOLEAN /\ panicked \in BOOLEAN
      /\ changes \in 0..MaxChanges
      /\ listFaults \in 0..MaxListFaults /\ streamFaults \in 0..MaxStreamFaults
  <2>1. /\ stream \in BOOLEAN /\ cancelled \in BOOLEAN /\ closed \in BOOLEAN
        /\ panicked \in BOOLEAN
    BY Zenon DEF Init
  <2>2. pending = 0 /\ changes = 0 /\ listFaults = 0 /\ streamFaults = 0
    BY DEF Init
  <2> QED BY <2>1, <2>2 DEF DiscoveryAssumption
<1> QED BY <1>1, <1>2, <1>3, <1>4 DEF TypeOK

\* The network-anchor's goroutines, one group of actions after the other.
LEMMA SnapshotTypes ==
    ASSUME DiscoveryAssumption, TypeOK, NEW g \in Goroutines, snapshot(g)
    PROVE  TypeOK'
<1>1. UNCHANGED <<docker, up, changes, stream, pending, cancelled, closed, streamFaults>>
  BY DEF snapshot, ContainerList, ListError, Inspect, InspectError,
     Assembled, Send, GiveUp, SendOnClosed,
         env, events, ending
<1>2. listFaults' \in 0..MaxListFaults /\ panicked' \in BOOLEAN
  <2>1. \/ listFaults' = listFaults
        \/ listFaults < MaxListFaults /\ listFaults' = listFaults + 1
    BY DEF snapshot, ContainerList, ListError, Inspect, InspectError,
     Assembled, Send, GiveUp, SendOnClosed
  <2>2. panicked' = panicked \/ panicked' = TRUE
    BY DEF snapshot, ContainerList, ListError, Inspect, InspectError,
     Assembled, Send, GiveUp, SendOnClosed, ending
  <2>3. panicked' \in BOOLEAN
    BY <2>2 DEF TypeOK
  <2>4. listFaults' \in 0..MaxListFaults
    BY <2>1 DEF TypeOK, DiscoveryAssumption
  <2> QED BY <2>3, <2>4
<1>3. pc' \in [Goroutines -> {"off", "initial", "open", "wait", "list", "inspect", "send", "done"}]
  BY DEF snapshot, ContainerList, ListError, Inspect, InspectError,
     Assembled, Send, GiveUp, SendOnClosed,
         Resume, TypeOK
<1>4. todo' \in [Goroutines -> SUBSET Wrapped]
  BY DEF snapshot, ContainerList, ListError, Inspect, InspectError,
     Assembled, Send, GiveUp, SendOnClosed, TypeOK
<1>5. view' \in [Goroutines -> Views]
  <2>1. CASE ContainerList(g)
    <3>1. [c \in Containers |-> IF c \in Plain THEN docker[c] ELSE NoAddr] \in Views
      BY BackendFacts DEF Views, TypeOK
    <3> QED BY <2>1, <3>1 DEF ContainerList, TypeOK
  <2>2. ASSUME NEW c \in Wrapped, Inspect(g, c) PROVE view' \in [Goroutines -> Views]
    <3>1. docker[WrapTarget[c]] \in Backend
      BY BackendFacts DEF TypeOK
    <3>2. [view[g] EXCEPT ![c] = docker[WrapTarget[c]]] \in Views
      BY <3>1 DEF Views, TypeOK
    <3> QED BY <2>2, <3>2 DEF Inspect, TypeOK
  <2>3. ASSUME NEW c \in Wrapped, InspectError(g, c) PROVE view' \in [Goroutines -> Views]
    <3>1. [view[g] EXCEPT ![c] = NoAddr] \in Views
      BY BackendFacts DEF Views, TypeOK
    <3> QED BY <2>3, <3>1 DEF InspectError, TypeOK
  <2>4. CASE UNCHANGED view
    BY <2>4 DEF TypeOK
  <2> QED BY <2>1, <2>2, <2>3, <2>4 DEF snapshot, ListError, Assembled, Send, GiveUp, SendOnClosed
<1>6. out' \in Seq(Views) /\ Len(out') <= ChanCap
  <2>1. out' = out \/ (out' = Append(out, view[g]) /\ Len(out) < ChanCap)
    BY DEF snapshot, ContainerList, ListError, Inspect, InspectError,
     Assembled, Send, GiveUp, SendOnClosed
  <2>2. out \in Seq(Views) /\ Len(out) <= ChanCap /\ view[g] \in Views /\ ChanCap \in Nat
    BY DEF TypeOK, DiscoveryAssumption
  <2> QED BY <2>1, <2>2
<1> QED BY <1>1, <1>2, <1>3, <1>4, <1>5, <1>6 DEF TypeOK

LEMMA LoopTypes ==
    ASSUME DiscoveryAssumption, TypeOK,
           \/ OpenStream \/ OnMessage \/ StreamError \/ Tick \/ Cancel
           \/ RunReturns \/ PollReturns \/ Consume
    PROVE  TypeOK'
<1>1. UNCHANGED <<docker, up, changes, view, todo, panicked, listFaults>>
  BY DEF OpenStream, OnMessage, StreamError, Tick, Cancel, RunReturns, PollReturns, Consume,
         env, ending
<1>2. pc' \in [Goroutines -> {"off", "initial", "open", "wait", "list", "inspect", "send", "done"}]
  BY DEF OpenStream, OnMessage, StreamError, Tick, Cancel, RunReturns, PollReturns, Consume, TypeOK
<1>3. stream' \in BOOLEAN /\ cancelled' \in BOOLEAN /\ closed' \in BOOLEAN
  BY DEF OpenStream, OnMessage, StreamError, Tick, Cancel, RunReturns, PollReturns, Consume,
         events, ending, TypeOK
<1>4. pending' \in 0..MaxPending /\ streamFaults' \in 0..MaxStreamFaults
  <2>1. pending' = pending \/ (pending > 0 /\ pending' = pending - 1) \/ pending' = 0
    BY DEF OpenStream, OnMessage, StreamError, Tick, Cancel, RunReturns, PollReturns, Consume, events
  <2>2. \/ streamFaults' = streamFaults
        \/ streamFaults < MaxStreamFaults /\ streamFaults' = streamFaults + 1
    BY DEF OpenStream, OnMessage, StreamError, Tick, Cancel, RunReturns, PollReturns, Consume
  <2> QED BY <2>1, <2>2 DEF TypeOK, DiscoveryAssumption
<1>5. out' \in Seq(Views) /\ Len(out') <= ChanCap
  <2>1. out' = out \/ (out # <<>> /\ out' = Tail(out))
    BY DEF OpenStream, OnMessage, StreamError, Tick, Cancel, RunReturns, PollReturns, Consume
  <2>2. out \in Seq(Views) /\ Len(out) <= ChanCap /\ ChanCap \in Nat
    BY DEF TypeOK, DiscoveryAssumption
  <2> QED BY <2>1, <2>2
<1> QED BY <1>1, <1>2, <1>3, <1>4, <1>5 DEF TypeOK

-----------------------------------------------------------------------------
(* The life of the process *)

LEMMA InitInv == DiscoveryAssumption /\ LifecycleAssumption /\ LInit => IInv
<1> SUFFICES ASSUME DiscoveryAssumption, LifecycleAssumption, LInit PROVE IInv
  OBVIOUS
<1>1. TypeOK
  BY DiscoveryInit DEF LInit
<1>2. refresh \in BOOLEAN /\ misnamed \in BOOLEAN
  BY Zenon DEF LInit
<1>3. discovering \in BOOLEAN /\ tables \in BOOLEAN
  BY Zenon DEF LInit
<1>4. /\ startFaults \in 0..MaxStartFaults /\ teardownFaults \in 0..MaxTeardownFaults
      /\ leases \in 0..MaxLeases /\ leaseFaults \in 0..MaxLeaseFaults /\ main = "setup" /\ dhcp = "off"
  BY DEF LInit, LifecycleAssumption
<1>5. ~tables /\ lease = "none"
  BY DEF LInit
<1>6. LTypeOK
  BY <1>1, <1>2, <1>3, <1>4, <1>5 DEF LTypeOK
<1> QED BY <1>4, <1>5, <1>6 DEF IInv, OrderInv

\* runNetworkAnchor and reconciler.Run, on the main goroutine.
LEMMA MainStep ==
    ASSUME DiscoveryAssumption, LifecycleAssumption, IInv, Main, ~Dead
    PROVE  IInv'
<1>1. TypeOK'
  <2>1. UNCHANGED vars \/ Consume
    BY DEF Main, Setup, SetupFails, InspectSelf, InspectSelfFails, NewPicker, ReceiveUpdate,
           ApplyEnds, RunEnds, WaitGroup, Teardown
  <2>2. CASE UNCHANGED vars
    BY <2>2 DEF vars, env, events, ending, IInv, LTypeOK, TypeOK
  <2>3. CASE Consume
    BY <2>3, LoopTypes DEF IInv, LTypeOK
  <2> QED BY <2>1, <2>2, <2>3
<1>2. UNCHANGED <<refresh, misnamed, lease, leases, leaseFaults>>
  BY DEF Main, Setup, SetupFails, InspectSelf, InspectSelfFails, NewPicker, ReceiveUpdate,
         ApplyEnds, RunEnds, WaitGroup, Teardown, config, net
<1>3. discovering' \in BOOLEAN
  <2>1. discovering' = discovering \/ discovering' = ~misnamed
    BY DEF Main, Setup, SetupFails, InspectSelf, InspectSelfFails, NewPicker, ReceiveUpdate,
           ApplyEnds, RunEnds, WaitGroup, Teardown
  <2>2. discovering \in BOOLEAN
    BY DEF IInv, LTypeOK
  <2> QED BY <2>1, <2>2
<1>4. /\ main' \in {"selfnets", "picker", "select", "apply", "wait", "teardown", "exited"}
      /\ dhcp' \in {"off", "running", "done"} /\ tables' \in BOOLEAN
  BY DEF Main, Setup, SetupFails, InspectSelf, InspectSelfFails, NewPicker, ReceiveUpdate,
         ApplyEnds, RunEnds, WaitGroup, Teardown, net, nat, IInv, LTypeOK
<1>5. startFaults' \in 0..MaxStartFaults /\ teardownFaults' \in 0..MaxTeardownFaults
  <2>1. \/ startFaults' = startFaults
        \/ startFaults < MaxStartFaults /\ startFaults' = startFaults + 1
    BY DEF Main, Setup, SetupFails, InspectSelf, InspectSelfFails, NewPicker, ReceiveUpdate,
           ApplyEnds, RunEnds, WaitGroup, Teardown
  <2>2. \/ teardownFaults' = teardownFaults
        \/ teardownFaults < MaxTeardownFaults /\ teardownFaults' = teardownFaults + 1
    BY DEF Main, Setup, SetupFails, InspectSelf, InspectSelfFails, NewPicker, ReceiveUpdate,
           ApplyEnds, RunEnds, WaitGroup, Teardown, nat
  <2> QED BY <2>1, <2>2 DEF IInv, LTypeOK, LifecycleAssumption
<1>6. LTypeOK'
  BY <1>1, <1>2, <1>3, <1>4, <1>5 DEF IInv, LTypeOK
<1>7. OrderInv'
  <2>1. CASE Setup
    BY <1>2, <2>1 DEF Setup, IInv, OrderInv
  <2>2. CASE SetupFails
    BY <1>2, <2>2 DEF SetupFails, net, nat, IInv, OrderInv
  <2>3. CASE WaitGroup
    BY <1>2, <2>3 DEF WaitGroup, net, nat, IInv, OrderInv
  <2>4. CASE Teardown
    <3>1. dhcp = "done" /\ dhcp' = dhcp /\ main' = "exited"
      BY <2>4 DEF Teardown, net, IInv, OrderInv
    <3>2. tables' => teardownFaults' > 0
      BY <2>4 DEF Teardown, IInv, LTypeOK
    <3> QED BY <1>2, <3>1, <3>2 DEF IInv, OrderInv
  <2>5. CASE InspectSelf \/ InspectSelfFails \/ NewPicker \/ ReceiveUpdate \/ ApplyEnds \/ RunEnds
    BY <1>2, <2>5 DEF InspectSelf, InspectSelfFails, NewPicker, ReceiveUpdate, ApplyEnds, RunEnds,
                      net, nat, IInv, OrderInv
  <2> QED BY <2>1, <2>2, <2>3, <2>4, <2>5 DEF Main
<1> QED BY <1>6, <1>7 DEF IInv

\* The DHCP supervisor.
LEMMA SupervisorStep ==
    ASSUME DiscoveryAssumption, LifecycleAssumption, IInv, Supervisor, ~Dead
    PROVE  IInv'
<1>1. UNCHANGED <<docker, up, stream, pending, pc, view, todo, out, cancelled, closed, panicked,
                  changes, listFaults, streamFaults, main, refresh, misnamed, discovering, tables,
                  startFaults, teardownFaults>>
  BY DEF Supervisor, GrantLease, ApplyLease, LeaveLease, ReleaseLease,
     SupervisorEnds, vars, env, events, ending,
         config, nat
<1>2. /\ dhcp = "running" /\ dhcp' \in {"running", "done"}
      /\ lease' \in {"none", "granted", "owned", "left"}
      /\ dhcp' = "done" => lease' \in {"none", "left"}
  <2>1. dhcp = "running" /\ dhcp' \in {"running", "done"}
    BY DEF Supervisor, GrantLease, ApplyLease, LeaveLease, ReleaseLease,
     SupervisorEnds
  <2>2. lease' \in {"none", "granted", "owned", "left"}
    BY DEF Supervisor, GrantLease, ApplyLease, LeaveLease, ReleaseLease,
     SupervisorEnds, IInv, LTypeOK
  <2>3. dhcp' = "done" => lease' \in {"none", "left"}
    BY <2>1 DEF Supervisor, GrantLease, ApplyLease, LeaveLease, ReleaseLease,
     SupervisorEnds
  <2> QED BY <2>1, <2>2, <2>3
<1>3. /\ leases' \in 0..MaxLeases /\ leaseFaults' \in 0..MaxLeaseFaults
      /\ lease' = "left" => leaseFaults' > 0
  <2>1. leases' = leases \/ (leases < MaxLeases /\ leases' = leases + 1)
    BY DEF Supervisor, GrantLease, ApplyLease, LeaveLease, ReleaseLease,
     SupervisorEnds
  <2>2. \/ leaseFaults' = leaseFaults /\ (lease' = "left" => lease = "left")
        \/ leaseFaults < MaxLeaseFaults /\ leaseFaults' = leaseFaults + 1
    BY DEF Supervisor, GrantLease, ApplyLease, LeaveLease, ReleaseLease, SupervisorEnds
  <2>3. leaseFaults' \in 0..MaxLeaseFaults /\ (lease' = "left" => leaseFaults' > 0)
    BY <2>2 DEF IInv, LTypeOK, OrderInv, LifecycleAssumption
  <2> QED BY <2>1, <2>3 DEF IInv, LTypeOK, LifecycleAssumption
<1>4. TypeOK'
  BY <1>1 DEF IInv, LTypeOK, TypeOK
<1>5. LTypeOK'
  BY <1>1, <1>2, <1>3, <1>4 DEF IInv, LTypeOK
<1>6. OrderInv'
  BY <1>1, <1>2, <1>3 DEF IInv, OrderInv, Dead
<1> QED BY <1>5, <1>6 DEF IInv

\* A signal and discovery leave the rest of the process alone, unless discovery
\* takes it down.
LEMMA OtherStep ==
    ASSUME DiscoveryAssumption, LifecycleAssumption, IInv, ~Dead,
           Signal \/ DiscoveryStep(EventGoroutine \/ PollGoroutine)
    PROVE  IInv'
<1>1. /\ UNCHANGED <<refresh, misnamed, discovering, dhcp, lease, leases, leaseFaults,
                     tables, startFaults, teardownFaults>>
      /\ main' = main \/ main' = "crashed"
  BY DEF Signal, DiscoveryStep, anchor, config, net, nat
<1>2. TypeOK'
  <2>1. "event" \in Goroutines /\ "poll" \in Goroutines
    BY DEF Goroutines
  <2>2. CASE Signal
    BY <2>2, LoopTypes DEF Signal, IInv, LTypeOK
  <2>3. CASE EventGoroutine
    BY <2>1, <2>3, LoopTypes, SnapshotTypes DEF EventGoroutine, IInv, LTypeOK
  <2>4. CASE PollGoroutine
    BY <2>1, <2>4, LoopTypes, SnapshotTypes DEF PollGoroutine, IInv, LTypeOK
  <2> QED BY <2>2, <2>3, <2>4 DEF DiscoveryStep
<1>3. LTypeOK'
  BY <1>1, <1>2 DEF IInv, LTypeOK
<1>4. OrderInv'
  BY <1>1 DEF IInv, OrderInv, Dead
<1> QED BY <1>3, <1>4 DEF IInv

LEMMA Invariant == LSpec => []IInv
<1>1. LInit => IInv
  BY InitInv, DiscoveryAssumption, LifecycleAssumption
<1>2. IInv /\ [LNext]_lvars => IInv'
  <2> SUFFICES ASSUME IInv, [LNext]_lvars PROVE IInv'
    OBVIOUS
  <2>1. CASE LNext
    BY <2>1, MainStep, SupervisorStep, OtherStep, DiscoveryAssumption, LifecycleAssumption DEF LNext
  <2>2. CASE UNCHANGED lvars
    BY <2>2 DEF lvars, vars, env, events, ending, anchor, config, net, nat, IInv, LTypeOK, TypeOK,
                OrderInv
  <2> QED BY <2>1, <2>2
<1> QED BY <1>1, <1>2, PTL DEF LSpec

-----------------------------------------------------------------------------
\* The types of the process's state; Discoverer.out never holds more than its
\* capacity, whichever goroutine sends.
THEOREM TypeCorrect == LSpec => []LTypeOK
<1>1. IInv => LTypeOK
  BY DEF IInv
<1> QED BY <1>1, Invariant, PTL

\* F-20: the deferred calls run in the order that leaves nothing, wg.Wait with
\* the lease's release before Teardown, at whatever stage startup failed.  What
\* may be left is a table whose removal failed and an IPv4 lease whose ACK, whose
\* application or whose RELEASE failed (ExitLeavesNothing).
THEOREM NothingLeft == LSpec => []ExitLeavesNothing
<1>1. IInv => ExitLeavesNothing
  BY DEF IInv, OrderInv, ExitLeavesNothing
<1> QED BY <1>1, Invariant, PTL

-----------------------------------------------------------------------------
(* Discovery inside the process, and how it can end it *)

\* To discovery the rest of the process is a reader of its channel that may stop
\* reading, and a context that ends once.
THEOREM LifeOfDiscovery == LSpec => Spec
<1>1. LInit => Init
  BY DEF LInit
<1>2. [LNext]_lvars => [Next]_vars
  <2> SUFFICES ASSUME [LNext]_lvars PROVE [Next]_vars  OBVIOUS
  <2>1. CASE Main
    BY <2>1 DEF Main, Setup, SetupFails, InspectSelf, InspectSelfFails, NewPicker, ReceiveUpdate,
       ApplyEnds, RunEnds, WaitGroup, Teardown, Next
  <2>2. CASE Supervisor
    BY <2>2 DEF Supervisor, GrantLease, ApplyLease, LeaveLease, ReleaseLease,
     SupervisorEnds
  <2>3. CASE Signal \/ DiscoveryStep(EventGoroutine \/ PollGoroutine)
    BY <2>3 DEF Signal, DiscoveryStep, Next
  <2>4. CASE UNCHANGED lvars
    BY <2>4 DEF lvars
  <2> QED BY <2>1, <2>2, <2>3, <2>4 DEF LNext
<1> QED BY <1>1, <1>2, PTL DEF LSpec, Spec

\* The channel is closed by Run alone, on its way out of a cancelled context.
PanicInv ==
    /\ closed => cancelled /\ pc["event"] = "done"
    /\ panicked => closed

LEMMA DiscoveryInvariant == Spec => [](TypeOK /\ PanicInv)
<1> USE DiscoveryAssumption
<1>1. Init => TypeOK /\ PanicInv
  <2> SUFFICES ASSUME Init PROVE PanicInv  BY DiscoveryInit
  <2>1. ~closed /\ ~panicked
    BY DEF Init
  <2> QED BY <2>1 DEF PanicInv
<1>2. TypeOK /\ PanicInv /\ [Next]_vars => TypeOK' /\ PanicInv'
  <2> SUFFICES ASSUME TypeOK, PanicInv, [Next]_vars PROVE TypeOK' /\ PanicInv'  OBVIOUS
  <2>1. TypeOK'
    <3>1. CASE Daemon
      <4>1. /\ docker' = docker \/ \E c \in Plain, a \in Backend : docker' = [docker EXCEPT ![c] = a]
            /\ up' \subseteq Wrapped
            /\ changes < MaxChanges /\ changes' = changes + 1
            /\ pending' = pending \/ (pending < MaxPending /\ pending' = pending + 1)
            /\ UNCHANGED <<stream, pc, view, todo, out, cancelled, closed, panicked,
                           listFaults, streamFaults>>
        BY <3>1 DEF Daemon, ContainerChange, WrappedChange, SilentChange, Change, ending, events, TypeOK
      <4>2. docker' \in [Plain -> Backend]
        BY <4>1 DEF TypeOK
      <4>3. pending' \in 0..MaxPending /\ changes' \in 0..MaxChanges
        BY <4>1 DEF TypeOK, DiscoveryAssumption
      <4> QED BY <4>1, <4>2, <4>3 DEF TypeOK
    <3>2. CASE \/ OpenStream \/ OnMessage \/ StreamError \/ Tick \/ Cancel
               \/ RunReturns \/ PollReturns \/ Consume
      BY <3>2, LoopTypes
    <3>3. CASE \E g \in Goroutines : snapshot(g)
      BY <3>3, SnapshotTypes
    <3>4. CASE UNCHANGED vars
      BY <3>4 DEF vars, env, events, ending, TypeOK
    <3> QED BY <3>1, <3>2, <3>3, <3>4 DEF Next, EventGoroutine, PollGoroutine, Goroutines
  <2>2. PanicInv'
    <3>1. CASE RunReturns
      BY <3>1 DEF RunReturns, PanicInv, TypeOK, Goroutines
    <3>2. CASE Cancel
      BY <3>2 DEF Cancel, PanicInv
    <3>3. CASE \E g \in Goroutines : snapshot(g)
      <4> PICK g \in Goroutines : snapshot(g)  BY <3>3
      <4>1. UNCHANGED <<cancelled, closed>> /\ (panicked' => panicked \/ closed)
        BY DEF snapshot, ContainerList, ListError, Inspect, InspectError,
     Assembled, Send, GiveUp, SendOnClosed, ending
      <4>2. pc["event"] = "done" => pc'["event"] = "done"
        BY DEF snapshot, ContainerList, ListError, Inspect, InspectError,
     Assembled, Send, GiveUp, SendOnClosed,
               Resume, Goroutines, TypeOK
      <4> QED BY <4>1, <4>2 DEF PanicInv
    <3>4. CASE Daemon \/ OpenStream \/ OnMessage \/ StreamError \/ Tick \/ PollReturns \/ Consume
      <4>1. UNCHANGED <<cancelled, closed, panicked>>
        BY <3>4 DEF Daemon, ContainerChange, WrappedChange, SilentChange, Change, OpenStream, OnMessage,
           StreamError, Tick, PollReturns, Consume, ending
      <4>2. pc["event"] = "done" => pc'["event"] = "done"
        BY <3>4 DEF Daemon, ContainerChange, WrappedChange, SilentChange, Change, OpenStream, OnMessage,
           StreamError, Tick, PollReturns, Consume, Goroutines, TypeOK
      <4> QED BY <4>1, <4>2 DEF PanicInv
    <3>5. CASE UNCHANGED vars
      BY <3>5 DEF vars, ending, PanicInv
    <3> QED BY <3>1, <3>2, <3>3, <3>4, <3>5 DEF Next, EventGoroutine, PollGoroutine, Goroutines
  <2> QED BY <2>1, <2>2
<1> QED BY <1>1, <1>2, PTL DEF Spec

\* The goroutine that closes the channel never sends on it; a panic takes pollLoop
\* to be past its list when Run returns from a cancelled context.
THEOREM PanicIsPollsLastSend == Spec => OnlyAPollPanics
<1>1. TypeOK /\ PanicInv /\ [Next]_vars =>
        [panicked' # panicked =>
           cancelled /\ closed /\ pc["poll"] = "send" /\ pc["event"] = "done"]_vars
  <2> SUFFICES ASSUME TypeOK, PanicInv, Next, panicked' # panicked
               PROVE  cancelled /\ closed /\ pc["poll"] = "send" /\ pc["event"] = "done"
    BY DEF vars
  <2>1. PICK g \in Goroutines : SendOnClosed(g)
    BY DEF Next, Daemon, ContainerChange, WrappedChange, SilentChange, Change, EventGoroutine,
       PollGoroutine, snapshot, ContainerList, ListError, Inspect, InspectError,
     Assembled, Send, GiveUp,
       OpenStream, OnMessage, StreamError, Tick, Cancel, RunReturns, PollReturns, Consume,
       ending, Goroutines
  <2>2. closed /\ pc[g] = "send" /\ cancelled /\ pc["event"] = "done"
    BY <2>1 DEF SendOnClosed, PanicInv
  <2> QED BY <2>2 DEF Goroutines
<1> QED BY <1>1, DiscoveryInvariant, PTL DEF Spec, OnlyAPollPanics

\* So the process crashes only on its way out.
THEOREM CrashOnlyWhenCancelled == LSpec => [](main = "crashed" => cancelled)
<1>1. LInit => (main = "crashed" => panicked)
  BY DEF LInit
<1>2. (main = "crashed" => panicked) /\ [LNext]_lvars => (main = "crashed" => panicked)'
  <2> SUFFICES ASSUME main = "crashed" => panicked, [LNext]_lvars, main' = "crashed" PROVE panicked'
    OBVIOUS
  <2>1. CASE main = "crashed"
    <3>1. UNCHANGED lvars
      BY <2>1 DEF LNext, Dead
    <3> QED BY <2>1, <3>1 DEF lvars, vars, ending
  <2>2. CASE main # "crashed"
    <3>1. ~Main
      BY <2>2 DEF Main, Setup, SetupFails, InspectSelf, InspectSelfFails, NewPicker,
         ReceiveUpdate, ApplyEnds, RunEnds, WaitGroup, Teardown
    <3>2. ~Supervisor /\ ~Signal
      BY <2>2 DEF Supervisor, GrantLease, ApplyLease, LeaveLease, ReleaseLease,
     SupervisorEnds, Signal, anchor
    <3>3. main' # main
      BY <2>2
    <3>4. DiscoveryStep(EventGoroutine \/ PollGoroutine)
      BY <3>1, <3>2, <3>3 DEF LNext, lvars, anchor
    <3> QED BY <2>2, <3>3, <3>4 DEF DiscoveryStep
  <2> QED BY <2>1, <2>2
<1>3. TypeOK /\ PanicInv /\ (main = "crashed" => panicked) => (main = "crashed" => cancelled)
  BY DEF PanicInv
<1> QED BY <1>1, <1>2, <1>3, LifeOfDiscovery, DiscoveryInvariant, PTL DEF LSpec
=============================================================================
