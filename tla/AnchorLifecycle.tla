---------------------------- MODULE AnchorLifecycle ----------------------------
(***************************************************************************)
(* Startup and shutdown of the network-anchor process: runNetworkAnchor    *)
(* brings up the NAT tables, the DHCP supervisor and discovery, runs the   *)
(* reconciler on its own goroutine and unwinds its deferred calls, last in *)
(* first out, when it returns.                                             *)
(*                                                                         *)
(* Source: cmd/anchord/main.go.  Discovery is module Discovery; what apply *)
(* does to the tables is module Reconciler; here an apply only succeeds or *)
(* fails.  cancelled is cancelCtx, the context every goroutine gets.  The  *)
(* lease is the IPv4 one; its protocol, and the IPv6 lease, which is never *)
(* released, are in module Dhcp.                                           *)
(***************************************************************************)
EXTENDS Discovery

CONSTANTS
    MaxStartFaults,   \* bound: failing startup calls
    MaxTeardownFaults,\* bound: Teardown batches the kernel refuses
    MaxLeases,        \* bound: DHCP leases obtained
    MaxLeaseFaults    \* bound: leases that get lost to the client

ASSUME LifecycleAssumption ==
    /\ MaxStartFaults \in Nat /\ MaxTeardownFaults \in Nat
    /\ MaxLeases \in Nat /\ MaxLeaseFaults \in Nat

VARIABLES
    main,       \* where runNetworkAnchor is; "exited" or "crashed" when it is over
    refresh,    \* configuration: address mode dhcp-refresh
    misnamed,   \* configuration: ANCHORD_SHARED_NETWORK is not a network of self
    discovering,\* the discovery goroutine has been started
    dhcp,       \* the supervisor's goroutine
    lease,      \* the server's lease: none, granted to runV4Once but not applied,
                \* owned with its release deferred, or left with nobody to release it
    tables,     \* kernel: the anchord tables exist
    startFaults, teardownFaults, leases, leaseFaults

config  == <<refresh, misnamed>>
net     == <<dhcp, lease, leases, leaseFaults>>
nat     == <<tables, teardownFaults>>
anchor  == <<main, config, discovering, net, nat, startFaults>>
lvars   == <<vars, anchor>>

Dead == main \in {"exited", "crashed"}

-----------------------------------------------------------------------------
LInit ==
    /\ Init
    /\ main = "setup"
    /\ refresh \in BOOLEAN /\ misnamed \in BOOLEAN
    /\ discovering = FALSE /\ dhcp = "off" /\ lease = "none" /\ tables = FALSE
    /\ startFaults = 0 /\ teardownFaults = 0 /\ leases = 0 /\ leaseFaults = 0

\* nat.Setup, the deferred Teardown and the DHCP supervisor, which nothing
\* that can fail separates.
Setup ==
    /\ main = "setup"
    /\ main' = "selfnets" /\ tables' = TRUE
    /\ dhcp' = "running"
    /\ UNCHANGED <<vars, config, discovering, lease, leases, leaseFaults, teardownFaults, startFaults>>

\* Nothing is deferred yet that matters here.
SetupFails ==
    /\ main = "setup" /\ startFaults < MaxStartFaults
    /\ startFaults' = startFaults + 1
    /\ main' = "exited"
    /\ UNCHANGED <<vars, config, discovering, net, nat>>

\* selfNetworks and sharednet.New; both return an error through the defers.
InspectSelf ==
    /\ main = "selfnets" /\ ~cancelled
    /\ main' = "picker"
    /\ UNCHANGED <<vars, config, discovering, net, nat, startFaults>>

InspectSelfFails ==
    /\ main = "selfnets"
    /\ \/ cancelled /\ UNCHANGED startFaults
       \/ startFaults < MaxStartFaults /\ startFaults' = startFaults + 1
    /\ main' = "wait"
    /\ UNCHANGED <<vars, config, discovering, net, nat>>

\* From here on discovery runs (DiscoveryStep).
NewPicker ==
    /\ main = "picker"
    /\ main' = IF misnamed THEN "wait" ELSE "select"
    /\ discovering' = ~misnamed
    /\ UNCHANGED <<vars, config, net, nat, startFaults>>

-----------------------------------------------------------------------------
(* reconciler.Run, on the main goroutine *)

ReceiveUpdate ==
    /\ main = "select" /\ main' = "apply"
    /\ Consume
    /\ UNCHANGED <<config, discovering, net, nat, startFaults>>

\* apply runs to its end whatever happens to the context.
ApplyEnds ==
    /\ main = "apply" /\ main' = "select"
    /\ UNCHANGED <<vars, config, discovering, net, nat, startFaults>>

RunEnds ==
    /\ main = "select"
    /\ cancelled \/ (closed /\ out = <<>>)
    /\ main' = "wait"
    /\ UNCHANGED <<vars, config, discovering, net, nat, startFaults>>

-----------------------------------------------------------------------------
(* The deferred calls: wg.Wait, then Teardown, then cancel *)

\* Mutant: wg.Wait is not deferred, the supervisor is left to itself.
WaitGroupSkipped ==
    /\ main = "wait"
    /\ main' = "teardown"
    /\ UNCHANGED <<vars, config, discovering, net, nat, startFaults>>

WaitGroup ==
    /\ main = "wait" /\ dhcp = "done"
    /\ main' = "teardown"
    /\ UNCHANGED <<vars, config, discovering, net, nat, startFaults>>

Teardown ==
    /\ main = "teardown"
    /\ \/ tables' = FALSE /\ UNCHANGED teardownFaults
       \/ /\ teardownFaults < MaxTeardownFaults
          /\ teardownFaults' = teardownFaults + 1 /\ UNCHANGED tables
    /\ main' = "exited"
    /\ UNCHANGED <<vars, config, discovering, net, startFaults>>

-----------------------------------------------------------------------------
(* The other goroutines *)

\* The server grants a lease, on the first DORA, after a failed renewal, or anew to
\* a client-id whose earlier lease was left.
GrantLease ==
    /\ dhcp = "running" /\ refresh /\ lease \in {"none", "left"} /\ ~cancelled
    /\ leases < MaxLeases /\ leases' = leases + 1
    /\ lease' = "granted"
    /\ UNCHANGED <<vars, main, config, discovering, dhcp, leaseFaults, nat, startFaults>>

\* applyV4Lease succeeds, and only now runV4Once defers the release.
ApplyLease ==
    /\ dhcp = "running" /\ lease = "granted"
    /\ lease' = "owned"
    /\ UNCHANGED <<vars, main, config, discovering, dhcp, leases, leaseFaults, nat, startFaults>>

\* The ACK does not reach the client before requestCtx ends, or applyV4Lease
\* fails: runV4Once returns and the server keeps the lease.
LeaveLease ==
    /\ dhcp = "running" /\ lease = "granted" /\ leaseFaults < MaxLeaseFaults
    /\ lease' = "left" /\ leaseFaults' = leaseFaults + 1
    /\ UNCHANGED <<vars, main, config, discovering, dhcp, leases, nat, startFaults>>

\* The deferred releaseV4, whose one packet may be lost.
ReleaseLease ==
    /\ dhcp = "running" /\ lease = "owned"
    /\ \/ lease' = "none" /\ UNCHANGED leaseFaults
       \/ /\ leaseFaults < MaxLeaseFaults
          /\ lease' = "left" /\ leaseFaults' = leaseFaults + 1
    /\ UNCHANGED <<vars, main, config, discovering, dhcp, leases, nat, startFaults>>

\* Mutant: the passive address modes do not watch the context.
SupervisorEndsRefresh ==
    /\ dhcp = "running" /\ cancelled /\ lease \in {"none", "left"} /\ refresh
    /\ dhcp' = "done"
    /\ UNCHANGED <<vars, main, config, discovering, lease, leases, leaseFaults, nat, startFaults>>

\* runV4Once has returned, through its deferred release where there is one.
SupervisorEnds ==
    /\ dhcp = "running" /\ cancelled /\ lease \in {"none", "left"}
    /\ dhcp' = "done"
    /\ UNCHANGED <<vars, main, config, discovering, lease, leases, leaseFaults, nat, startFaults>>

\* Discovery starts after the picker; a panic of one of its goroutines takes
\* the process down where it stands.
DiscoveryStep(goroutine) ==
    /\ discovering /\ goroutine
    /\ main' = IF panicked' THEN "crashed" ELSE main
    /\ UNCHANGED <<config, discovering, net, nat, startFaults>>

Signal == Cancel /\ UNCHANGED anchor

Main == \/ Setup \/ SetupFails \/ InspectSelf \/ InspectSelfFails \/ NewPicker
        \/ ReceiveUpdate \/ ApplyEnds \/ RunEnds \/ WaitGroup \/ Teardown
Supervisor == GrantLease \/ ApplyLease \/ LeaveLease \/ ReleaseLease \/ SupervisorEnds

\* When the process is over its goroutines are gone.
LNext ==
    /\ ~Dead
    /\ \/ Main \/ Supervisor \/ Signal
       \/ DiscoveryStep(EventGoroutine \/ PollGoroutine)

LSpec == LInit /\ [][LNext]_lvars

\* Go schedules every goroutine; a select does not pass over a cancelled
\* context for ever; DHCP comes to its end once it is cancelled.
LFairness ==
    /\ WF_lvars(~Dead /\ Main)
    /\ SF_lvars(~Dead /\ RunEnds)
    /\ WF_lvars(~Dead /\ cancelled /\ Supervisor)
    /\ WF_lvars(~Dead /\ DiscoveryStep(EventGoroutine))
    /\ SF_lvars(~Dead /\ DiscoveryStep(RunReturns))

LFairSpec == LSpec /\ LFairness

-----------------------------------------------------------------------------
LTypeOK ==
    /\ TypeOK
    /\ main \in {"setup", "selfnets", "picker", "select", "apply", "wait",
                 "teardown", "exited", "crashed"}
    /\ refresh \in BOOLEAN /\ misnamed \in BOOLEAN /\ discovering \in BOOLEAN
    /\ dhcp \in {"off", "running", "done"} /\ tables \in BOOLEAN
    /\ lease \in {"none", "granted", "owned", "left"}
    /\ startFaults \in 0..MaxStartFaults /\ teardownFaults \in 0..MaxTeardownFaults
    /\ leases \in 0..MaxLeases /\ leaseFaults \in 0..MaxLeaseFaults

\* F-20 for every return of runNetworkAnchor, at whatever stage of startup or
\* of an apply it is interrupted: no table is left behind unless the kernel
\* refused its removal, and no IPv4 lease unless the ACK was lost, applyV4Lease
\* failed or the RELEASE was lost; in particular never one that the supervisor
\* still works on (order of the deferred calls).
ExitLeavesNothing ==
    main = "exited" =>
        /\ lease = "none" \/ (lease = "left" /\ leaseFaults > 0)
        /\ tables => teardownFaults > 0

\* A signal ends the process, at whatever stage it arrives and although the
\* channel discovery fills may have no reader any more.
SignalEnds == cancelled ~> Dead

\* F-20: on SIGTERM the process removes its tables and releases its lease.
CleanShutdown == Dead /\ cancelled => lease = "none" /\ (tables => teardownFaults > 0)
=============================================================================
