--------------------------- MODULE ExternalRebinder ---------------------------
(***************************************************************************)
(* The external-network rebinder (F-48): a sidecar that keeps one follower *)
(* container attached to a network, known by name, which a foreign stack   *)
(* destroys and creates again.                                             *)
(*                                                                         *)
(* Source: internal/rebinder.  Every docker call is a step of its own, so  *)
(* docker can change between two calls.  Docker is external: the live      *)
(* network, its endpoints, the follower container and the event stream.    *)
(***************************************************************************)
EXTENDS Naturals, Sequences, FiniteSets

CONSTANTS
    Targets,          \* containers of the foreign stack
    QuietPolls,       \* settleQuietWindow / settlePollInterval (3 in the code)
    MaxPolls,         \* settleMaxWait / settlePollInterval (90)
    ConnectAttempts,  \* connectAttempts (4)
    Restart,          \* ANCHORD_FOLLOW_RESTART
    Unobserved,       \* TRUE: docker may change while nothing is subscribed
    MaxNets,          \* bound: generations of the network
    MaxFollowers,     \* bound: generations of the follower container
    MaxOps,           \* bound: changes on the docker side
    MaxQueue,         \* bound: events docker queues before it changes again
    MaxApiFaults,     \* bound: docker calls that fail for no modelled reason
    MaxInUse,         \* bound: connects refused with "address already in use"
    MaxStreamFaults,  \* bound: broken event streams
    MaxCrashes,       \* bound: crashes of the sidecar
    MaxRestarts       \* bound: restarts of the follower that succeed

ASSUME RebinderAssumption ==
    /\ QuietPolls \in Nat \ {0} /\ MaxPolls \in Nat /\ ConnectAttempts \in Nat \ {0}
    /\ Restart \in BOOLEAN /\ Unobserved \in BOOLEAN
    /\ IsFiniteSet(Targets)
    /\ MaxNets \in Nat \ {0} /\ MaxFollowers \in Nat \ {0}
    /\ MaxOps \in Nat /\ MaxQueue \in Nat
    /\ MaxApiFaults \in Nat /\ MaxInUse \in Nat
    /\ MaxStreamFaults \in Nat /\ MaxCrashes \in Nat /\ MaxRestarts \in Nat

VARIABLES
    net,       \* external: ID of the live network of that name, 0 if none
    nets,      \* external: networks created so far
    members,   \* external: foreign endpoints on the live network
    fid,       \* external: ID of the follower container, 0 if none
    followers, \* external: follower containers created so far
    running,   \* external: does the follower run
    stored,    \* external: network ID the follower's attachment records
    stream,    \* is the subscription connected
    queue,     \* actions of the events waiting in it
    pc, boot,  \* where Run is; boot while still inside bootstrapRecheck
    parked,    \* Watcher.parked
    seen,      \* result of the latest NetworkInspectByName
    target,    \* result of the latest resolveFollower
    attempt,   \* connectWithRetry's counter
    last, stable, elapsed,   \* waitForSettle's variables, in polls
    probes,    \* history: the endpoint sets the present waitForSettle has seen
    joined,    \* history: how the present attachment began
    restarts,  \* history: restarts of the follower that succeeded
    ops, apiFaults, inUse, streamFaults, crashes

network  == <<net, nets, members>>
follower == <<fid, followers, running, stored, joined, restarts>>
docker   == <<network, follower, ops>>
sub      == <<stream, queue>>
settle   == <<last, stable, elapsed, probes>>
locals   == <<seen, target, attempt, settle>>
bounds   == <<apiFaults, inUse, streamFaults, crashes>>
vars     == <<docker, sub, pc, boot, parked, locals, bounds>>

Nothing  == [net |-> 0, members |-> {}, follower |-> 0]
Attached == fid # 0 /\ running /\ net # 0 /\ stored = net
\* NetworkInspectByName lists the endpoints of running containers.
Inspected == [net |-> net, members |-> members, follower |-> IF Attached THEN fid ELSE 0]

\* Mutant: the follower counts as a foreign endpoint.
ForeignCountAll == Cardinality(seen.members) + IF seen.follower = 0 THEN 0 ELSE 1
\* What waitForSettle and maybePark count: every endpoint that is not the
\* resolved follower, a follower removed since the inspect included.
ForeignEndpoints == seen.members \cup ({seen.follower} \ {0, target})
ForeignCount == Cardinality(ForeignEndpoints)
FollowerAttached == seen.follower # 0 /\ seen.follower = target

Emit(es) == queue' = IF stream THEN queue \o es ELSE queue

-----------------------------------------------------------------------------
\* The sidecar starts next to a follower that is missing, detached, attached,
\* or attached to an earlier generation of the network.
Init ==
    /\ net \in 0..1 /\ nets = 1
    /\ members \in SUBSET Targets /\ (net = 0 => members = {})
    /\ fid \in 0..1 /\ followers = fid
    /\ running \in BOOLEAN /\ stored \in 0..1
    /\ fid = 0 => ~running /\ stored = 0
    /\ joined = IF Attached /\ members = {} THEN "alone" ELSE "others"
    /\ stream = FALSE /\ queue = <<>>
    /\ pc = "bootNet" /\ boot = TRUE /\ parked = FALSE
    /\ seen = Nothing /\ target = 0 /\ attempt = 0
    /\ last = 0 /\ stable = 0 /\ elapsed = 0 /\ probes = <<>>
    /\ ops = 0 /\ apiFaults = 0 /\ inUse = 0 /\ streamFaults = 0 /\ crashes = 0
    /\ restarts = 0

-----------------------------------------------------------------------------
(* Docker (external).  Each change announces itself to an open stream. *)

Change(es) ==
    /\ ops < MaxOps /\ ops' = ops + 1
    /\ stream \/ Unobserved
    /\ Len(queue) < MaxQueue
    /\ Emit(es)
    /\ UNCHANGED <<stream, pc, boot, parked, locals, bounds>>

NetworkCreate ==
    /\ net = 0 /\ nets < MaxNets
    /\ nets' = nets + 1 /\ net' = nets + 1
    /\ UNCHANGED <<members, follower>>
    /\ Change(<<"create">>)

\* Docker refuses to remove a network that has active endpoints, and then
\* announces nothing.
NetworkRemove ==
    /\ net # 0 /\ members = {} /\ ~Attached
    /\ net' = 0
    /\ UNCHANGED <<nets, members, follower>>
    /\ Change(<<"destroy">>)

Join(t) ==
    /\ net # 0 /\ t \notin members
    /\ members' = members \cup {t}
    /\ UNCHANGED <<net, nets, follower>>
    /\ Change(<<"connect">>)

Leave(t) ==
    /\ t \in members
    /\ members' = members \ {t}
    /\ UNCHANGED <<net, nets, follower>>
    /\ Change(<<"disconnect">>)

FollowerStop ==
    /\ running /\ running' = FALSE
    /\ UNCHANGED <<network, fid, followers, stored, joined, restarts>>
    /\ Change(IF Attached THEN <<"disconnect">> ELSE <<>>)

\* A stopped follower starts on the networks its configuration names.
FollowerStart ==
    /\ fid # 0 /\ ~running /\ running' = TRUE
    /\ stored # 0 => net # 0
    /\ stored' = IF stored # 0 THEN net ELSE 0
    /\ joined' = IF members = {} THEN "alone" ELSE "others"
    /\ UNCHANGED <<network, fid, followers, restarts>>
    /\ Change(IF stored # 0 THEN <<"connect">> ELSE <<>>)

FollowerRemove ==
    /\ fid # 0 /\ ~running /\ fid' = 0 /\ stored' = 0
    /\ UNCHANGED <<network, followers, running, joined, restarts>>
    /\ Change(<<>>)

\* compose creates the follower on its external network, which must exist.
FollowerCreate ==
    /\ fid = 0 /\ followers < MaxFollowers /\ net # 0
    /\ followers' = followers + 1 /\ fid' = followers + 1
    /\ running' = TRUE /\ stored' = net
    /\ joined' = IF members = {} THEN "alone" ELSE "others"
    /\ UNCHANGED <<network, restarts>>
    /\ Change(<<"connect">>)

\* The stream breaks; the consumer learns of it when it next selects.
StreamBreaks ==
    /\ stream /\ streamFaults < MaxStreamFaults
    /\ streamFaults' = streamFaults + 1
    /\ stream' = FALSE
    /\ UNCHANGED <<docker, queue, pc, boot, parked, locals, apiFaults, inUse, crashes>>

-----------------------------------------------------------------------------
(* Steps shared by the handlers *)

Goto(label) == pc' = label /\ UNCHANGED boot
\* A handler is over: back to consume's select, or on to the subscription.
Return ==
    /\ pc' = IF boot THEN "subscribe" ELSE "idle"
    /\ boot' = FALSE
    /\ seen' = Nothing /\ target' = 0 /\ attempt' = 0
    /\ last' = 0 /\ stable' = 0 /\ elapsed' = 0 /\ probes' = <<>>

ApiFault ==
    /\ apiFaults < MaxApiFaults /\ apiFaults' = apiFaults + 1
    /\ UNCHANGED <<docker, sub, parked, inUse, streamFaults, crashes>>

\* NetworkInspectByName at label l, continuing at m.
InspectNet(l, m) ==
    /\ pc = l /\ net # 0 /\ seen' = Inspected
    /\ Goto(m)
    /\ UNCHANGED <<docker, sub, parked, target, attempt, settle, bounds>>

\* ContainerList and resolveFollower at label l, continuing at m.
Resolve(l, m) ==
    /\ pc = l /\ target' = fid
    /\ Goto(m)
    /\ UNCHANGED <<docker, sub, parked, seen, attempt, settle, bounds>>

\* The network is gone, or a read fails: every handler gives up at once and
\* leaves parked as it is (in waitForSettle this is settleAborted).
ReadFails ==
    \/ /\ pc \in {"bootNet", "parkNet", "setNet", "reNet"} /\ net = 0
       /\ Return
       /\ UNCHANGED <<docker, sub, parked, bounds>>
    \/ /\ pc \in {"bootNet", "bootList", "bootInspect", "parkNet", "parkList",
                  "setNet", "setList", "reNet", "reList"}
       /\ ApiFault
       /\ Return

-----------------------------------------------------------------------------
(* bootstrapRecheck *)

BootNet  == InspectNet("bootNet", "bootList")
BootList == Resolve("bootList", "bootInspect")

\* Compares the recorded network ID with the live one.
BootInspect ==
    /\ pc = "bootInspect"
    /\ IF target = 0 \/ fid # target \/ stored = seen.net
       THEN Return
       ELSE Goto("reNet") /\ UNCHANGED locals
    /\ UNCHANGED <<docker, sub, parked, bounds>>

-----------------------------------------------------------------------------
(* Run and consume *)

Subscribe ==
    /\ pc = "subscribe"
    /\ stream' = TRUE /\ queue' = <<>>
    /\ Goto("idle")
    /\ UNCHANGED <<docker, parked, locals, bounds>>

\* consume returns the stream's error; Run re-subscribes after a pause.
OnStreamError ==
    /\ pc = "idle" /\ ~stream
    /\ queue' = <<>> /\ Goto("subscribe")
    /\ UNCHANGED <<docker, stream, parked, locals, bounds>>

TakeEvent(action) ==
    /\ pc = "idle" /\ queue # <<>> /\ Head(queue) = action
    /\ queue' = Tail(queue)
    /\ UNCHANGED <<docker, stream, bounds>>

\* waitForSettle starts with last = -1; 0 is the same here, because a count of
\* zero is never stable.
BeginSettle ==
    /\ Goto("setNet")
    /\ UNCHANGED <<parked, locals>>

OnCreate  == TakeEvent("create") /\ BeginSettle
OnDestroy == TakeEvent("destroy") /\ parked' = TRUE /\ Goto("idle") /\ UNCHANGED locals
\* Mutant: a connect is always log-only.
OnConnectLogOnly == TakeEvent("connect") /\ Goto("idle") /\ UNCHANGED <<parked, locals>>
OnConnect ==
    /\ TakeEvent("connect")
    /\ IF parked THEN BeginSettle ELSE Goto("idle") /\ UNCHANGED <<parked, locals>>
OnDisconnect ==
    /\ TakeEvent("disconnect")
    /\ Goto(IF parked THEN "idle" ELSE "parkNet")
    /\ UNCHANGED <<parked, locals>>

-----------------------------------------------------------------------------
(* maybePark and releaseFollower *)

ParkNet  == InspectNet("parkNet", "parkList")
ParkList == Resolve("parkList", "park")

Park ==
    /\ pc = "park"
    /\ IF FollowerAttached /\ ForeignCount = 0
       THEN Goto("release") /\ UNCHANGED <<parked, locals>>
       ELSE parked' = (parked \/ ~FollowerAttached) /\ Return
    /\ UNCHANGED <<docker, sub, bounds>>

\* NetworkDisconnect(name, target), forced: a running follower must be on the
\* live network, a stopped one only forgets its configuration.
Disconnects == fid = target /\ net # 0 /\ (IF running THEN Attached ELSE stored # 0)
NetworkDisconnect ==
    IF Disconnects
    THEN /\ stored' = 0
         /\ Emit(IF running THEN <<"disconnect">> ELSE <<>>)
         /\ UNCHANGED <<network, fid, followers, running, joined, restarts, ops, stream>>
    ELSE UNCHANGED <<docker, sub>>

\* Mutant: the watcher does not note that it has released the follower.
ReleaseUnnoted ==
    /\ pc = "release"
    /\ \/ NetworkDisconnect /\ UNCHANGED <<parked, bounds>>
       \/ ApiFault
    /\ Return

\* "Not connected" counts as success; no such network or container does not.
releaseFollower ==
    /\ pc = "release"
    /\ \/ /\ NetworkDisconnect
          /\ parked' = (parked \/ (net # 0 /\ fid = target))
          /\ UNCHANGED bounds
       \/ ApiFault
    /\ Return

-----------------------------------------------------------------------------
(* waitForSettle *)

SettleNet  == InspectNet("setNet", "setList")
SettleList == Resolve("setList", "probe")

\* Mutants: any non-zero count is stable; the cap is off by one.
NowStableAny == IF ForeignCount > 0 THEN stable + 1 ELSE 0
\* One round of the loop: another stable poll, or the count starts afresh.
NowStable == IF ForeignCount > 0 /\ ForeignCount = last THEN stable + 1 ELSE 0
Ready     == NowStable >= QuietPolls
TimedOutLate == ~Ready /\ elapsed > MaxPolls
TimedOut  == ~Ready /\ elapsed >= MaxPolls

Probe ==
    /\ pc = "probe"
    /\ last' = ForeignCount /\ stable' = NowStable
    /\ elapsed' = IF Ready \/ TimedOut THEN elapsed ELSE elapsed + 1
    /\ Goto(IF Ready \/ TimedOut THEN "reNet" ELSE "setNet")
    /\ probes' = Append(probes, ForeignEndpoints)
    /\ UNCHANGED <<docker, sub, parked, seen, target, attempt, bounds>>

-----------------------------------------------------------------------------
(* reattach and connectWithRetry *)

ReattachNet  == InspectNet("reNet", "reList")
ReattachList ==
    /\ pc = "reList" /\ fid # 0
    /\ Resolve("reList", "reDisc")
FollowerMissing ==
    /\ pc = "reList" /\ fid = 0
    /\ Return
    /\ UNCHANGED <<docker, sub, parked, bounds>>

\* An error of this disconnect is logged and ignored.
ReattachDisconnect ==
    /\ pc = "reDisc"
    /\ \/ NetworkDisconnect /\ UNCHANGED <<parked, bounds>>
       \/ ApiFault
    /\ attempt' = 1
    /\ Goto("connect")
    /\ UNCHANGED <<seen, target, settle>>

\* NetworkConnect by the inspected ID.
Connect ==
    /\ pc = "connect" /\ fid = target /\ net = seen.net /\ net # 0
    /\ parked' = FALSE
    /\ IF stored = net
       THEN UNCHANGED <<stored, joined, queue>>
       ELSE /\ stored' = net
            /\ joined' = IF running /\ members = {} THEN "alone" ELSE "others"
            /\ Emit(IF running THEN <<"connect">> ELSE <<>>)
    /\ UNCHANGED <<network, fid, followers, running, restarts, ops, stream, bounds>>
    /\ IF Restart THEN Goto("restart") /\ UNCHANGED locals ELSE Return

\* The network or the follower has been replaced since it was looked up, the
\* last attempt met an address in use, or docker failed otherwise.
ConnectFails ==
    /\ pc = "connect"
    /\ \/ /\ fid # target \/ net # seen.net \/ net = 0
          /\ UNCHANGED <<docker, sub, parked, bounds>>
       \/ /\ attempt = ConnectAttempts /\ inUse < MaxInUse /\ inUse' = inUse + 1
          /\ UNCHANGED <<docker, sub, parked, apiFaults, streamFaults, crashes>>
       \/ ApiFault
    /\ Return

AddressInUse ==
    /\ pc = "connect" /\ attempt < ConnectAttempts
    /\ inUse < MaxInUse /\ inUse' = inUse + 1
    /\ attempt' = attempt + 1
    /\ Goto("backoff")
    /\ UNCHANGED <<docker, sub, parked, seen, target, settle, apiFaults, streamFaults, crashes>>

\* After the pause the network ID is looked up again, if there is one.
Backoff ==
    /\ pc = "backoff"
    /\ seen' = IF net # 0 THEN Inspected ELSE seen
    /\ Goto("connect")
    /\ UNCHANGED <<docker, sub, parked, target, attempt, settle, bounds>>

\* ContainerRestart takes the follower off its networks and back on; an error
\* is logged and dropped.
RestartFollower ==
    /\ pc = "restart"
    /\ \/ /\ fid = target /\ net # 0 /\ running' = TRUE /\ stored' = net
          /\ restarts < MaxRestarts /\ restarts' = restarts + 1
          /\ Emit(IF running THEN <<"disconnect", "connect">> ELSE <<"connect">>)
          /\ joined' = IF running THEN joined
                       ELSE IF members = {} THEN "alone" ELSE "others"
          /\ UNCHANGED <<network, fid, followers, ops, stream>>
       \/ UNCHANGED <<docker, sub>>
    /\ Return
    /\ UNCHANGED <<parked, bounds>>

\* The sidecar dies and starts again, with a watcher that is not parked.
Crash ==
    /\ crashes < MaxCrashes /\ crashes' = crashes + 1
    /\ stream' = FALSE /\ queue' = <<>>
    /\ pc' = "bootNet" /\ boot' = TRUE /\ parked' = FALSE
    /\ seen' = Nothing /\ target' = 0 /\ attempt' = 0
    /\ last' = 0 /\ stable' = 0 /\ elapsed' = 0 /\ probes' = <<>>
    /\ UNCHANGED <<docker, apiFaults, inUse, streamFaults>>

-----------------------------------------------------------------------------
Docker ==
    \/ NetworkCreate \/ NetworkRemove
    \/ \E t \in Targets : Join(t)
    \/ \E t \in Targets : Leave(t)
    \/ FollowerStop \/ FollowerStart \/ FollowerRemove \/ FollowerCreate
    \/ StreamBreaks

Run ==
    \/ ReadFails
    \/ BootNet \/ BootList \/ BootInspect
    \/ Subscribe \/ OnStreamError
    \/ OnCreate \/ OnDestroy \/ OnConnect \/ OnDisconnect
    \/ ParkNet \/ ParkList \/ Park \/ releaseFollower
    \/ SettleNet \/ SettleList \/ Probe
    \/ ReattachNet \/ ReattachList \/ FollowerMissing \/ ReattachDisconnect
    \/ Connect \/ ConnectFails \/ AddressInUse \/ Backoff \/ RestartFollower

Next == Docker \/ Run \/ Crash

Spec == Init /\ [][Next]_vars

\* The sidecar's only goroutine is scheduled and its docker calls return.
FairSpec == Spec /\ WF_vars(Run)

-----------------------------------------------------------------------------
Labels == {"bootNet", "bootList", "bootInspect", "subscribe", "idle",
           "parkNet", "parkList", "park", "release", "setNet", "setList", "probe",
           "reNet", "reList", "reDisc", "connect", "backoff", "restart"}

TypeOK ==
    /\ net \in 0..MaxNets /\ nets \in 1..MaxNets /\ members \subseteq Targets
    /\ fid \in 0..MaxFollowers /\ followers \in 0..MaxFollowers
    /\ running \in BOOLEAN /\ stored \in 0..MaxNets
    /\ joined \in {"alone", "others"}
    /\ stream \in BOOLEAN
    /\ queue \in Seq({"create", "destroy", "connect", "disconnect"})
    /\ pc \in Labels /\ boot \in BOOLEAN /\ parked \in BOOLEAN
    /\ seen \in [net : 0..MaxNets, members : SUBSET Targets, follower : 0..MaxFollowers]
    /\ target \in 0..MaxFollowers /\ attempt \in 0..ConnectAttempts
    /\ last \in 0..Cardinality(Targets) + 1
    /\ stable \in 0..QuietPolls /\ elapsed \in 0..MaxPolls
    /\ probes \in Seq(SUBSET (Targets \cup 1..MaxFollowers))
    /\ ops \in 0..MaxOps /\ apiFaults \in 0..MaxApiFaults /\ inUse \in 0..MaxInUse
    /\ streamFaults \in 0..MaxStreamFaults /\ crashes \in 0..MaxCrashes
    /\ restarts \in 0..MaxRestarts

\* Every event has been handled and the sidecar waits for the next one.
Quiet == pc = "idle" /\ queue = <<>> /\ stream

\* Nothing has failed that the handlers only log: no docker call, no stream, and
\* not one "address in use" for every attempt of connectWithRetry.
Smooth == apiFaults = 0 /\ streamFaults = 0 /\ inUse < ConnectAttempts

\* The single job of the package: once the foreign stack keeps its network and
\* some endpoint on it, a running follower ends up on that very network and
\* stays there, whatever was recreated in whatever order meanwhile and whenever
\* the sidecar crashed, provided nothing has failed that is only logged.
StaysAttached ==
    <>[](net # 0 /\ members # {} /\ running /\ Smooth) => <>[]Attached

\* Release before recreate: a follower that joined a populated network does not
\* remain its sole endpoint, so the network can be removed (maybePark), provided
\* the sidecar was up to see the last endpoint leave and no call has failed.
SoleAfterOthers == Attached /\ members = {} /\ joined = "others" /\ crashes = 0
LetsGo == (SoleAfterOthers /\ Smooth) ~> ~(SoleAfterOthers /\ Smooth)

\* With all events handled, parked means what it says: a watcher that believes
\* the follower released does not leave it attached, and a running follower is
\* off a populated network for no reason (destroy, maybePark, reattach).
ParkedTellsTheTruth ==
    Quiet /\ Smooth =>
        /\ Attached => ~parked
        /\ running /\ net # 0 /\ ~Attached => parked /\ members = {}

\* The safety half of LetsGo: once all events are handled the follower does not
\* sit alone on a network it joined with others, so the last endpoint's leaving is
\* never overlooked, not even by a handler that was busy settling or reattaching.
LetGoWhenQuiet == Quiet /\ Smooth => ~SoleAfterOthers

\* waitForSettle reports Ready only after the quiet window saw one and the same
\* non-zero number of endpoints other than the follower at each of its polls.
ReadyAfterQuietWindow ==
    stable >= QuietPolls =>
        /\ Len(probes) > QuietPolls
        /\ LET n == Len(probes) IN
           \A i \in (n - QuietPolls)..n :
               probes[i] # {} /\ Cardinality(probes[i]) = Cardinality(probes[n])
=============================================================================
