----------------------------- MODULE DnatPipeline -----------------------------
(***************************************************************************)
(* Discovery and the reconciler as the network-anchor composes them        *)
(* (runNetworkAnchor): the discoverer's channel is the channel Run reads.  *)
(* The reconciler's steps are those of module Reconciler, the discoverer's *)
(* those of module Discovery, whose program counters are dpc here.         *)
(*                                                                         *)
(* Process restarts are left to module Reconciler and shutdown to modules  *)
(* Discovery and AnchorLifecycle.                                          *)
(***************************************************************************)
EXTENDS Reconciler

CONSTANTS WrapTarget, ChanCap, MaxChanges, MaxPending,
          MaxListFaults, MaxStreamFaults, SilentChanges,
          MaxFaults  \* bound: failures of every kind together

VARIABLES docker, up, stream, pending, dpc, view, todo, out,
          cancelled, closed, panicked, changes, listFaults, streamFaults,
          newest  \* history: the snapshot sent last

Disc == INSTANCE Discovery WITH pc <- dpc

ASSUME PipelineAssumption == Disc!DiscoveryAssumption /\ MaxFaults \in Nat

discVars == <<docker, up, stream, pending, dpc, view, todo,
              cancelled, closed, panicked, changes, listFaults, streamFaults>>
allVars  == <<vars, discVars, out, newest>>

PInit == Init /\ Disc!Init /\ newest = [c \in Containers |-> Disc!NoAddr]

\* Run's select takes the oldest snapshot out of Updates().
ReceiveUpdate ==
    /\ out # <<>>
    /\ Receive(Head(out))
    /\ out' = Tail(out)
    /\ UNCHANGED <<discVars, newest>>

Reconcile == ReceiveUpdate \/ (Process /\ UNCHANGED <<discVars, out, newest>>)

\* A step of discovery that adds to the channel sends the snapshot it adds.
Discover(step) ==
    /\ step
    /\ newest' = IF Len(out') > Len(out) THEN out'[Len(out')] ELSE newest
    /\ UNCHANGED vars

PNext ==
    /\ Reconcile \/ Discover(Disc!Daemon \/ Disc!EventGoroutine \/ Disc!PollGoroutine)
    /\ setFaults' + flushFaults' + listFaults' + streamFaults' <= MaxFaults

PSpec == PInit /\ [][PNext]_allVars

\* Go schedules the goroutines, the ticker keeps firing and docker answers.
PFairness ==
    /\ WF_allVars(Discover(Disc!snapshot("event") \/ Disc!OpenStream \/ Disc!OnMessage))
    /\ WF_allVars(Discover(Disc!snapshot("poll") \/ Disc!Tick))
    /\ WF_allVars(Reconcile)

PFairSpec == PSpec /\ PFairness

-----------------------------------------------------------------------------
\* What the kernel may serve for k once it reflects snapshot st.
Served(st, k) ==
    IF Claimants(st, k) = {} THEN {None}
    ELSE {TargetFor(st, c, k) : c \in Claimants(st, k)}

Reflects(st) == \A k \in Keys : Serves(k) \in Served(st, k)

\* Nothing sent is unread and the last one read is applied.
Drained == out = <<>> /\ pc = "idle" /\ ok

\* Although two goroutines send snapshots side by side and each is pushed one
\* family and protocol at a time, the packet path at rest is that of the snapshot
\* sent last, whole: never a mixture of two, nor of a snapshot and what an earlier
\* failed push left behind (snapshot, Run, apply, SetMap).  The snapshot sent last
\* need not be the one listed last: a slower goroutine's older one may overwrite
\* it, which the next poll puts right (ConvergesToDocker).
PathIsTheLastSent == Drained => Reflects(newest)

\* F-18: polling makes up for whatever the event path missed.  When the
\* containers stop changing the packet path ends up at their addresses and
\* stays there, through silent address changes, broken streams, failed lists and
\* inspects, failed map pushes, a full channel and snapshots of the two goroutines that
\* overtake each other.
ConvergesToDocker == <>[]Reflects(Disc!Truth)
=============================================================================
