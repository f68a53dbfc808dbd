# anchord: verification project

TLA+ models of anchord, TLC configurations that check them on small instances,
and TLAPS proofs about them for every value of their constants. Paths are relative to the
repository (`src/` is its root); line numbers are in `PROJECT.json`, which maps
every definition to the lines it stands for.

anchord is one binary with four modes:

* **network-anchor**: gives a compose project one address of its own. It watches
  docker for containers with `anchord.expose` labels and keeps nftables DNAT maps
  pointing at their present addresses.
* **service-anchor**: keeps the default route of a container's network namespace
  pointing at the network-anchor.
* **external-rebinder** (F-48): keeps one follower container attached to a network
  a foreign stack destroys and creates again.
* **wrap-rebinder** (F-49): recreates containers living in a foreign container's
  network namespace when that container is recreated.

## Inventory

| Part | State | Operations | Talks to | What makes it correct |
|---|---|---|---|---|
| `internal/discovery` | channel of 4 snapshots, event stream, ticker; two goroutines | list, inspect wrapped containers, send; reconnect; poll; shutdown | docker (list, inspect, events), reconciler (channel), sharednet | the last snapshot to be sent is eventually the truth; both goroutines end; nobody sends on a closed channel |
| `internal/reconciler` | `last` applied map | receive, diff, push 4 maps, flush, commit | nat, conntrack, health | kernel equals `last` after success; no client stays on a former backend |
| `internal/nat` | kernel tables: address maps, port-translation chains | Setup, SetMap, Teardown | kernel | one batch per (family, protocol); a port has one target |
| `internal/conntrack` | tracked flows (kernel) | FlushDestination | conntrack tool | flows of a former address go, others stay |
| `cmd/anchord` (network-anchor) | context, wait group, deferred calls | startup, run, unwind | all of the above, dhcp | a return leaves no tables and no lease; status says why |
| `internal/dhcp`, `internal/extroute` | leases, backoff, dynamic router | DORA, renew, release; assert default route | DHCP, kernel | a lease is released; the effective gateway wins |
| `internal/sharednet` | settled choice | pick, observe | discovery, autostart (no lock) | one network is chosen and kept |
| `internal/autostart` | none but docker | create / start / recreate the managed service-anchor, rebind orphans | docker | exactly one current service-anchor, its dependents in its namespace |
| `internal/serviceanchor` | `current`, `original` gateways per family | record, resolve, apply, cleanup | DNS, kernel routes, health | route follows the name; namespace given back as found |
| `internal/rebinder` | `parked` | bootstrap recheck, settle, reattach, park, release | docker | follower ends up on the live network and does not pin it |
| `internal/wraprebinder` | pool target → anchors, dedup window | enumerate, recheck, recreate | docker | anchors end up in their target's namespace, healthy ones are left alone |
| `internal/dependents` | set of reported staleness | tick | docker | a stale dependent is reported once while it is stale |
| `internal/health` | three bits | mark, report | HTTP | ready means what F-34 and F-35 say |
| `internal/labels`, `internal/config`, `internal/metrics`, `internal/extiface` | none | parse, read environment, count, look an interface up | - | conversions and I/O |

The hard behaviours are listed with their lines under `hazards` in `PROJECT.json`:
half-applied kernel state and retries from it, clients connecting between two
netlink batches, two goroutines writing one channel, events lost between two
subscriptions, docker changing between any two calls, removal before creation
with a failure in between, and shutdown from every stage of startup.

## Modules

| Module | Models | State and actions |
|---|---|---|
| `Reconciler` | reconciler, nat's SetMap / Setup, conntrack | `desired`, `last`, `toFlush` are apply's; `addrMap`, `xlat`, `flows` are the kernel's; the history `asked` has the flows whose address conntrack has been run with since they were opened. `Receive` is a snapshot and desiredFromState under any Go map order (`Outcomes`), `SetMap` one of four map pushes in code order (`slot`), `FlushDestination`, `Commit`, and an error action for each call; `Restart` loses `last` and keeps flows; `OpenFlow` / `CloseFlow` are clients |
| `PortTable` | the reconciler's promise | abstract specification: `table` moves port by port to `goal`, `phase` is `reconciled` only when it has arrived. `Reconciler` instantiates it as `Table`: the table is what the packet path serves, the goal is `desired` |
| `Discovery` | discovery | `pc` per goroutine (`event` is Run itself, `poll`), `view` and `todo` of a snapshot under assembly, `out`, the stream with `pending` events. `ContainerList`, `Inspect` per wrapped container, `Send` / `GiveUp` / `SendOnClosed` are snapshot; docker (`docker`, `up`) is external and may change with or without an event |
| `DnatPipeline` | discovery + reconciler | EXTENDS Reconciler, instantiates Discovery; `ReceiveUpdate` joins them at the channel, the history `newest` is the snapshot sent last; `MaxFaults` bounds the faults of both together |
| `AnchorLifecycle` | `runNetworkAnchor` | EXTENDS Discovery; `main` walks startup, reconciler loop and the deferred calls in LIFO order; the DHCP supervisor is a goroutine whose `lease` is granted by the server, owned once applied, and left behind if the ACK or the RELEASE is lost or `applyV4Lease` fails; a panic ends the process where it stands |
| `ServiceAnchor` | service-anchor | `recordOriginals`, `Lookup`, per family `ReadRoute` and `Replace` (two steps, with room for others in between), `RemoveRoute`, `RestoreRoute`; DNS, other route writers, crashes are external |
| `ExternalRebinder` | external-rebinder | one label per docker call (`pc`), `parked`, the queue of network events; docker (networks, endpoints, follower) is external |
| `WrapRebinder` | wrap-rebinder | `pool`, `recent` (dedup keys), `job` (startup, poll or event) and one step per docker call; containers are a name and a generation |
| `Autostart` | autostart's watcher | `job` is the event or backfill in hand, `starts` the siblings of its list still to be started, `plan` maybeManage's decision, `dep` the dependent under recreation. `BackfillList`, `StartList`, `GoneList` are the list calls, then one step per docker call, each with its failure; `RefuseDep` is docker refusing the configuration a dependent is created again with, and `CreateDep` docker accepting it: which one is docker's; docker's users stop, start, remove and recreate the target, the service-anchor and the dependents in between |
| `DeadNetns` | dependents' detector | EXTENDS Autostart with the second goroutine's `tick` and what it has `seen`; both meet only in docker |
| `Dhcp` | DHCP supervisor | one label per call of `runV4Once` (`pc4`) and `runV6Once` (`pc6`); `ack` is a reply at hand, `lease` what the defers release; the servers' `binding` and `binding6`, the `option` and the interface's addresses are external; `revoked` is a binding the server ended on its own, `unowned`, `stray` and `stray6` are leases and addresses the code has lost sight of |
| `ExtRoute` | extroute's manager | EXTENDS Dhcp; `ipam`, `dyn` and the pin give `effectiveV4`; `assert` reads and `Replace` writes the route; an interface that loses its last address loses its routes |
| `SharedNetwork` | the picker | reads and writes of `settled` and `chosen` as steps of their own, by any number of goroutines |
| `ReconcilerProofs`, `ExternalRebinderProofs`, `WrapRebinderProofs`, `ServiceAnchorProofs`, `AnchorLifecycleProofs`, `AutostartProofs`, `ExtRouteProofs`, `SharedNetworkProofs` | - | proofs, see below |

Composition: `DnatPipeline` = `Discovery` + `Reconciler`; `AnchorLifecycle` =
`Discovery` + `runNetworkAnchor`; `DeadNetns` = `Autostart` + the detector;
`ExtRoute` = `Dhcp` + the enforcer it feeds. The rebinders and the service-anchor are
processes of their own; they meet the rest only through docker, DNS and the
kernel, which each module models as far as it uses them. MC modules give the
constants values. Autostart runs beside discovery and reads nothing of it but the
chosen network, which only ends up in the created container's configuration; the
two are therefore not composed.

Abstractions: a message, address, container or network is a model value or a small
number. Rule parsing is the constant `Rules` (key → backend port per container). The
expressions of nftables rules are the function `Serves` of map and chain: the
chain of translated ports is looked up before the address map, as installChains
orders them. Sleeps are steps without guards on time; a poll or settle
interval is one step; rapidRestartWindow may end at any moment.

## What the runs check

Bounds are constants named `Max...`; each stands in a guard.

| Run | Question | Instance |
|---|---|---|
| `reconciler_faults` (pass) | Types; `KernelMatchesLast`: after a successful apply the packet path equals `last`, whatever failed before; `StaleFlowsAreAsked`: as long as nothing failed, conntrack has been run for every tracked flow that follows another target than the map, even one opened half way through; `PortsMoveStraight`: no port goes dark or visits a third target; `ImplementsPortTable`: all of it is a behaviour of the abstract port table | 2 containers competing for one port (one translates), 2 protocols, both families, 1 failing push, 1 failing flush, 1 restart, 1 flow: enough for a failure followed by success, a restart onto old tables, and a port moving between map and chain |
| `reconciler_origdst` (violation) | does `conntrack -d` select what the comment says? | the same two containers, one family, no failure |
| `pipeline_converges` (pass) | `ConvergesToDocker`: after the last change the packet path agrees with docker for ever; `PathIsTheLastSent`: at rest it is that of the snapshot sent last, whole | 2 containers, one in the other's namespace, 2 changes (announced or silent), channel of 1, one failure: of a map push, a list, an inspect or the event stream |
| `lifecycle_shutdown` (pass) | `ExitLeavesNothing`, `SignalEnds`, `OnlyAPollPanics` | a signal at every point; one failing startup call, list, stream, Teardown; two leases, one of which may be lost |
| `lifecycle_panic` (violation) | `CleanShutdown` on every signal | nothing fails |
| `rebinder_follow` (pass) | types and `ReadyAfterQuietWindow`: the settle loop stays under its cap and reports ready only after a full quiet window; `ParkedTellsTheTruth`, `LetGoWhenQuiet`, `StaysAttached`, `LetsGo` | one foreign container, 3 network and 2 follower generations, 4 docker changes, quiet window 2 of 3 polls, every kind of fault once, one crash, follower restarts on; docker rests while nothing is subscribed |
| `service_anchor_routes` (pass) | `EgressGivenBack`, `ReportsWhatHolds`, `FollowsTheName`, `BecomesReady` | both modes, both kinds of namespace, both families, 2 addresses; one move, one foreign route change, one failing call, one crash |
| `wrap_follow` (pass) | `PoolKnowsTheAnchors`, `RecheckSparesTheHealthy`, `JoinedWhenQuiet`, `FollowsWhenHeard` | 2 anchors on one target, 3 docker changes (a full recreate), 1 fault: a failing call, a broken stream or a crash |
| `autostart_manages` (pass) | `NobodyWaits`, `DependentsFollow`, `InPlaceWhenQuiet`, `SparesTheCurrent`, `AnchorFollows` of the manager, `NoSilentOrphan` of manager and detector together | 1 target, its service-anchor, 1 waiting sibling, 1 dependent; any state of each at the start; 3 docker changes (remove, recreate, start), 2 queued events, 1 mishap: a failing call, a broken stream, or a restart, also into a new image; docker may refuse to create the dependent again |
| `autostart_rebind` (violation) | `DependentsReturn`: is every dependent that is removed created again? | the same containers, 2 docker changes, no mishap; docker may accept or refuse |
| `external_address` (pass) | `ClientsLeaveNothing`, `NoBorrowedAddress` of the DHCP clients; `RouteFollowsServer`, `RouteEnforced` of the enforcer | both address modes; an IPv4 and an IPv6 LAN (the clients share nothing but the context); 2 leased addresses and 2 routers (old and new), 2 IPv6 addresses (a half-applied reply), channel of 1 so that it overflows, 1 change by server or operator, 1 failing call or lost packet, a signal anywhere |
| `picker_race` (violation) | `SettledOnABackend` with two callers | 2 goroutines, 2 networks, 1 backend that comes up |

The instances are small because the hazards are about order, not about size: each
needs at most two containers, two addresses (old and new), and one failure
before and after which the normal path runs. Counters bound what the
environment does; nothing bounds how often a goroutine polls or retries.

Liveness runs use no symmetry; only
`reconciler_faults` uses symmetry (of the addresses).

Deadlock is not checked where the system may stop: a process that has exited
(lifecycle, service-anchor, DHCP and enforcer after a signal), an exhausted
environment with an idle reconciler, an idle rebinder or manager with nothing to
react to. The wrap-rebinder always polls, so its
runs check for deadlock.

### Fairness

* Goroutines are weakly fair as a whole (Go schedules them and docker / netlink
  calls return, all having timeouts or failing with the context). The
  environment (docker, clients, signals, crashes, faults) has no fairness.
* Strong fairness appears only for branches of a Go `select` among ready cases,
  which picks at random: the cancelled context in `consumeEvents`, reconciler.Run
  and the service-anchor's loop, event against tick in the wrap-rebinder, and the
  router channel and the context in the route enforcer.
* The tickers of the enforcer and of the detector keep firing (`Tick`, `tick`).
  The DHCP clients are weakly fair as a whole, so an unanswered DORA is retried
  for ever; the number of failures is bounded.
* The ticker of discovery keeps firing; in `pipeline_converges` convergence rests
  on it.

## Properties in words

*Reconciler.* `KernelMatchesLast`, `StaleFlowsAreAsked`, `PortsMoveStraight` as above.
`StaleFlowsAreAsked` is anchord's half of F-17: for every flow that follows another
target than the map, apply has run conntrack with that target's address after the
flow was opened. It assumes that no push, no flush and no process has failed (a push
that fails after another has succeeded leaves flows no later apply flushes). What
conntrack makes of the call is the other half, and `reconciler_origdst` shows that it
deletes no such flow.

*Pipeline.* `ConvergesToDocker` covers snapshots of the two goroutines
overtaking each other, inspects that see a later moment than the list, broken
streams, failed lists, inspects and pushes: the next poll repairs each.
`PathIsTheLastSent` is what holds before the environment calms down: with the channel
empty and the last apply successful, every port serves what the snapshot sent last
has for it, never a mixture of two snapshots or of a snapshot and an earlier failed
push. The snapshot sent last need not be the one listed last; a slower goroutine's
older one may overwrite it, and that is left to `ConvergesToDocker`.

*Lifecycle.* `ExitLeavesNothing` is about returns: tables are gone unless the
kernel refused, and there is no IPv4 lease but one whose ACK or RELEASE was lost or
whose `applyV4Lease` failed; in particular none that the supervisor still works on.
`SignalEnds`: the process is over after a
signal wherever it was. `OnlyAPollPanics` narrows the panic of `lifecycle_panic`
down: only pollLoop can cause it, past its list, after a signal and after Run has
closed the channel.

*External-rebinder.* `ParkedTellsTheTruth`: with all events handled, a parked
watcher's follower is detached, and a running follower is off a populated
network never. `StaysAttached`: it ends up attached for good. `LetsGo`: a
follower that joined others does not remain the sole endpoint, and
`LetGoWhenQuiet`: at no moment with all events handled is it one. All four
assume `Smooth`: no docker call and no stream has
failed and "address in use" has not used up every connect attempt, because the
handlers only log those and wait for the next event.

*Service-anchor.* `FollowsTheName` holds through flushes by others because every
tick reads the kernel instead of a cache. `EgressGivenBack` excludes failures,
interference and crashes; `BecomesReady` excludes crashes in foreign namespaces
(next section). `ReportsWhatHolds`: until cleanup, readiness, `Manager.current` and the
kernel's routes agree, whatever fails or moves in between; it excludes readiness
after a crash in a foreign namespace and routes somebody else has changed.

*Wrap-rebinder.* `FollowsWhenHeard` excuses an anchor (history variable
`excused`) of which a start went unheard, for which a call failed, which was
enumerated while its target was away, or which a crash left removed or took the
handling of its target's start from: the code has no answer to these.
`RecheckSparesTheHealthy`: between the recheck's list and the removal nothing can
have mended the anchor, so the safety net never takes down a healthy one.
`PoolKnowsTheAnchors`: the pool holds present IDs once all events are handled.
`JoinedWhenQuiet`: at every such moment each unexcused anchor whose target runs is
in its target's namespace.

*Autostart.* `NobodyWaits`: with every event heard and handled, no sibling is left
in created state beside a running target. `AnchorFollows`: a target that keeps
running ends up with a service-anchor in its own namespace. `SparesTheCurrent`: a
service-anchor that is where it should be goes only for its image, or by an event
of a target replaced since. `DependentsFollow`: no dependent of a service-anchor
the watcher replaced is left in the old namespace or waiting; it is in the new one or,
if docker refused to create it again, gone. `DependentsReturn`, that it is never gone,
is what `autostart_rebind` refutes. `InPlaceWhenQuiet`: at every moment
with nothing left to handle, a running target whose events were heard has its
service-anchor in place. `NoSilentOrphan`: a running
dependent is in the target's namespace or has been reported. The histories
`missed` (a lost event, a failed call, a restart of the target in place) and
`adrift` (dependents whose service-anchor somebody else removed or stopped, or that
were recreated while a handler was at work), and the predicate
`BlindSpot`, name what the code has no answer to; the next section lists them.

*DHCP and default route.* `ClientsLeaveNothing`: a supervisor that returned leaves no
IPv4 lease and no leased address behind. The exceptions are the code's: an IPv4 lease
whose ACK or RELEASE was lost or whose first application failed, an address whose
removal failed, an IPv6 reply applied in part, and the IPv6 server's lease, which is
never released. `NoBorrowedAddress`: an IPv4 address is used only under the present
lease, with three exceptions: between DHCPRELEASE and its removal, from the moment the
server ends the lease on its own until a renewal notices, and an address whose removal
failed. `RouteFollowsServer`: a router the server keeps
announcing gets the default route, although a full channel drops announcements and
every address change flushes the route. `RouteEnforced`: the effective gateway wins
against foreign changes.

*Picker.* `SettledOnABackend`: a network that is locked in carried a backend.

## Divergences

Each with a run (see `findings`): `conntrack -d` is the original destination
(`conntrack.go:44`); discovery's Run closes the channel under pollLoop, which may
panic (`discovery.go:142`); two goroutines in `Pick` may lock in a network no
backend was seen on (`sharednet.go:181`); a dependent is created again with its
inspected configuration unmodified (`autostart.go:995`), which by
`wraprebinder.go:606-613` docker refuses because of the hostname in it: the dependent
has been removed by then and stays away, although the README (`src/README.md:513-515`)
says it is created again. What docker does is docker's, so the model lets it
accept or refuse.

Seen while modelling, without a run:

* `reconciler.go:94`: an apply that fails after one push has succeeded keeps `last`;
  if the next snapshot wants what `last` has, the flows opened in between are never
  flushed.
* `rebinder.go:285`: the bootstrap recheck runs once, before the first subscription;
  a recreate between two subscriptions goes unnoticed (`rebinder_follow` assumes
  docker rests then).
* `wraprebinder.go:301`: an enumeration while the target is away forgets the anchor.
* `rebinder.go:434-445`: a follower removed between the inspect and the list counts
  as a foreign endpoint for one poll of the settle wait (`ForeignEndpoints`).
* `reconciler.go:134`: two containers claiming one port take turns at random;
  F-8 promises a startup error.
* `discovery.go:145`: changes between the initial list and the stream, and
  snapshots that overtake each other, wait for the next poll (F-15: 5 seconds).
* `main.go:248`: the deferred `wg.Wait` runs before the deferred cancel, so an
  error after the DHCP supervisor has started (a misnamed shared network, "we
  want to fail fast") waits for a signal. The configuration `misnamed` of
  `AnchorLifecycle` contains it.
* `nat.go:157-163`: Setup's wipe batch always names tables that do not exist and
  so fails as a whole; its error is ignored. `Restart` allows both outcomes.
* `rebinder.go:553`: waitForSettle compares counts, so one endpoint replaced by
  another counts as quiet. `rebinder.go:343`: a reattach to an empty network is
  never undone. `rebinder.go:399`: after a reattach that failed with `parked`
  false, a connect event is only logged; the same holds once connectWithRetry has
  used up its attempts (`Smooth` excludes both). `rebinder.go:389`: with
  `ANCHORD_FOLLOW_RESTART` the restart's own events can keep it going.
* `serviceanchor.go:352`: the restore is skipped if the recorded gateway is the
  current one, yet the loop before has removed that route; after a crash in a
  wrapped namespace (the recorded route is then anchord's own) a stop leaves the
  app without a default route, or with an address the network-anchor has left.
  `serviceanchor.go:292`: a route found in place does not report readiness, so
  after such a crash the container stays unready. In IP mode a flushed route is
  never put back.
* `wraprebinder.go:484`: "the next event/poll retries" holds for no failure after
  the removal: a missing anchor is in no list, and one that was created but not
  started has the right reference. A target restarted under its old ID unheard
  does not count as drifted. `wraprebinder.go:479-486`: the comment says the
  dedup key is the target's name; it contains the anchor's ID.
* `autostart.go`: a created service-anchor whose reference has gone stale is
  neither started nor recreated (the branch says the F-43 path has "already issued
  Start"), and an exited one only gets starts that fail. A service-anchor that
  refers to the target by name, and a target restarted under its ID, are not
  noticed. An event of an older generation of the target takes a healthy
  service-anchor down once. If somebody else destroys the service-anchor its
  dependents are not rebound: there is no old ID to match. An exited
  service-anchor that refers to the target by name is merely started (`StartOld`), in
  the namespace of a target that may have been replaced since, and its dependents stay
  where they were. There is no backfill
  after a re-subscription; a service-anchor started during the backfill goes
  unheard, so dependents in created state wait. After a failure behind the removal
  only the removal's own event tries again, without the orphans. The spec takes the
  picker's choice even before it has settled. The scan for dependents covers the
  own compose project only.
* `dependents/staleness.go`: a reference by name always resolves, so such a
  dependent is never reported.
* `dhcp.go:216-236`: "The deferred release fires on every exit path", but it is
  deferred only after `applyV4Lease` has succeeded; a lease obtained before a
  failed apply stays with the server (`unowned` in `Dhcp`, `left` in `AnchorLifecycle`).
* `dhcp.go:436-439`: the IPv6 lease is never released (the comment says so); after a
  stop the server's binding stays until it runs out (`binding6`, `Binding6Ends`).
* `dhcp.go:444-449`: the comment has "an hourly Solicit-Request from scratch"; the loop
  waits and neither asks nor renews, so the addresses outlive their lease. A reply applied by
  half leaves its first addresses (`stray6`). `dhcp.go:371`: a failed renewal removes
  the leased address without putting docker's back, although the process goes on.
  The backoff is never reset after a success; a full router channel keeps the
  oldest announcement and drops the newest, and only the next renewal corrects it.

## Proofs

Every theorem holds for all values of the constants under the named assumption of
its module, which TLC evaluates in that module's runs: families, targets, names,
addresses and wrapped containers are arbitrary sets (finite where counted), the
bounds arbitrary numbers. The proofs have one shape: Init gives the inductive
invariant `IInv`, one lemma per group of actions keeps it, `IInv` gives the
property. `IInv` always contains the types, as most steps need them.

Every invariant the passing runs check is proved. For liveness, which the prover does
not do, the proofs have the safety half where there is one: what holds at every moment
with nothing left to handle (`LetGoWhenQuiet`, `JoinedWhenQuiet`, `InPlaceWhenQuiet`,
`PathIsTheLastSent`; `ParkedTellsTheTruth` for `StaysAttached`). TLC adds that such
moments come, and come to stay.

`ReconcilerProofs` proves, for any finite set of containers, any ports, addresses
and rules, and any number of failures (assumption `ReconcilerAssumption`, which
TLC evaluates in the reconciler's runs):

* `TypeCorrect`: `Spec => []TypeOK`. The only step that is not routine is
  `Receive`: a claimed key has a winner under every visiting order
  (`WinnerClaims`, from the existence of a largest element), so the desired map
  is well typed.
* `KernelAgreesWithLast`: `Spec => []KernelMatchesLast`. KernelMatchesLast says
  nothing about the middle of an apply, so it is strengthened to `KernelInv`:
  while pushing, every key whose (family, protocol) has been pushed already
  serves what is desired; while flushing, all do. A map push makes its own keys
  right (`SetMapServes`), leaves the others alone (`SetMapPushes`), and the four
  pushes cover all keys (`SlotsCoverKeys`).
* `StaleFlowsAreFlushed`: `Spec => []StaleFlowsAreAsked`. `FlowInv` adds that without
  failures keys not yet pushed still serve `last`, and that every flow follows
  the present target, or `last`'s while pushing, or an address due for a flush
  while flushing, or is `asked`: push-then-flush is what makes it inductive. It says
  nothing of what conntrack then selects (`reconciler_origdst`).
* `PortsNeverDetour`: `Spec => PortsMoveStraight`, from the same lemmas.

* `RefinesPortTable`: `Spec => ImplementsPortTable`. A push moves each port to its
  goal or leaves it (`SetMapPushes`, `SetMapServes`); a commit finds the table at
  its goal by `KernelInv`; the table a client sees survives a restart or is empty.

and of the pipeline (`DnatPipeline`, under `PipelineAssumption`, which is discovery's):

* `PipelineReconciles`: `PSpec => Spec`. Behind discovery the reconciler receives
  only snapshots (`SentInv` types channel, views and docker), so all of the above
  holds of the composition. `PipelineDiscovers`: `PSpec => Disc!Spec`.
* `PathFollowsTheLastSent`: `PSpec => []PathIsTheLastSent`. `LatestInv` says where the
  snapshot sent last (`newest`) is: last in the channel, or, once that is empty, in
  the reconciler's hand, whose `desired` it explains whichever container won a
  port (`DesiredIsServed`). A reader that takes the head never loses the last element.
  With `KernelAgreesWithLast` the property follows.

`ExternalRebinderProofs`: `TypeCorrect` and `ReadyMeansQuiet`
(`ReadyAfterQuietWindow`). The property speaks of the last `QuietPolls` polls, the
code remembers only a count and how often it repeated. `SettleInv` ties the two:
`last` is the size of the set seen last, and the `stable` polls before it all saw
that size, not zero. `PolledSets` bounds what one poll can count. The loop leaves
with the poll that completes the window, which keeps `stable` within the window.

`ParkedIsTrue` (`ParkedTellsTheTruth`) and `LastOneIsLetGo` (`LetGoWhenQuiet`) have one
hypothesis, `~Unobserved`: docker rests while the watcher has no subscription, as in
`rebinder_follow`. Without it both are false, since the recheck at startup is not
repeated (see `rebinder.go:285` above). Everything else
is arbitrary: docker may change between any two calls of a handler. `ParkingInv`
has the same form throughout: what is not yet right is announced by an event in the
queue, or the handler at work will still read what docker has by then. Of its parts
`Announced` says this of a network that came back, `KnownInv` of every value a
handler has read and not yet used, `BootInv` of the recheck, and `TruthInv` of `parked`
itself. `SoleInv` adds a follower left alone: a disconnect is queued, maybePark is
looking at it with present values, or a reattach will take it off first. Only the
leaving of the last other endpoint creates that state (`LeftAlone`).

`WrapRebinderProofs`: `TypeCorrect`, `PoolIsFresh` (`PoolKnowsTheAnchors`) and
`RecheckSpares` (`RecheckSparesTheHealthy`). `PoolInv` adds to the pool what is on its
way into it (a queued start, an own-project event in hand, an enumeration due).
`RecheckInv`: nothing on the recheck's list can have been mended, because mending
makes a new generation; that needs `GenInv` (an ID once read never names a later
container) and `ControlInv` (which job owns what is left to do). `AnchorsAreJoined`
(`JoinedWhenQuiet`): `FollowInv` says of each unexcused anchor that it is joined, on
the list or in the hand of the recreate loop, or known to the pool before the start of
its target that is queued or still to come; that it exists unless the handler stands
between removal and creation; and that it is in the dedup window only while it is
being removed (`RecentInv`: a key in the window never suppresses a later container).

`ServiceAnchorProofs`: `TypeCorrect` and `RoutesGivenBack` (`EgressGivenBack`).
`RouteInv` says for each phase what the kernel's route is: what was installed last
(`current`), or what was found. In cleanup the families already visited have lost
or regained theirs. `BeforeInv` (docker's route is no address of the name) makes
"restore unless it is the current one" harmless on a clean run.
`ReportsAreHonest` (`ReportsWhatHolds`): `HonestInv` adds that the kernel has no
gateway's route which `current` does not name, because a route that is found in place
is left alone and not reported.

`AnchorLifecycleProofs`: `TypeCorrect` (with discovery's types) and `NothingLeft`
(`ExitLeavesNothing`). `OrderInv` is the order of the deferred calls: a supervisor
that does not run works on no lease any more (there is none, or a failure has left
one behind), Teardown comes when it is done, and main exits
with tables only after a refused Teardown. `LifeOfDiscovery` (`LSpec => Spec` of
discovery) lets it inherit what is proved there: `PanicIsPollsLastSend`
(`OnlyAPollPanics`), from `PanicInv` (the channel is closed only by Run's goroutine,
on its way out of a cancelled context), and `CrashOnlyWhenCancelled`.

`AutostartProofs`: `TypeCorrect`, `NoSiblingWaits` (`NobodyWaits`) and
`CurrentIsSpared` (`SparesTheCurrent`). `WaitInv` lists where a waiting sibling may be
on record: a backfill or start list about to be taken, `starts`, or a queued start of
the present target. `PlanInv` keeps a decision to recreate justified from the list to
the removal, though docker changes in between: nobody but the watcher starts that very
container. `DependentsAreTaken` (`DependentsFollow`): `DepInv` says of each dependent
that is not adrift that it is an orphan of the recreation at work, or refers to the
present service-anchor and runs in its namespace or has its start pending, or has been
refused and is gone; `TurnInv`
ties orphans and the container just created to the handler at work. `AnchorIsInPlace`
(`InPlaceWhenQuiet`): by `CareInv` an absent service-anchor has its destroy event
queued or is being recreated, a created one is due for its start, and a misplaced one
is being replaced; or a list or a start of the target is still to come. `AnchorInv`
compares the plan and the reference with the present generations.
`DetectorOnlyWatches` (`DSpec => Spec`): the detector beside it changes nothing, so
all of this holds of `DeadNetns`.

`ExtRouteProofs`: `TypeCorrect`, `NothingLeft` (`ClientsLeaveNothing`) and
`NothingBorrowed` (`NoBorrowedAddress`), of clients and enforcer composed.
`BindingInv` says at each label who will release the server's binding (the reply at
hand, the defers, or nobody, and then it is `unowned`); `AddressInv` and `SixInv` account for every address of
the interface: docker's, the present lease's, or one of the exceptions named above
(`stray`, `stray6`). Of the IPv6 server's binding nothing is claimed.

`SharedNetworkProofs` has what is left of the picker's promise with any number of
callers and no lock: `SettlesOnSight` (nobody settles before a backend has been seen on
some network, or the network is pinned), `PinnedIsSettled` (with a pin
`SettledOnABackend` holds, so the race of `picker_race` is one of the unpinned choice)
and `QuietChoiceIsFinal` (a settled choice with no Pick under way never changes, so one
the race has spoilt stays).

Only model-checked: all liveness, as fairness and ENABLED are out of the prover's
reach. `ConvergesToDocker`, `StaysAttached`, `LetsGo`, `FollowsWhenHeard` and
`AnchorFollows` have a proved safety half (above); `SignalEnds`, `FollowsTheName`,
`BecomesReady`, `NoSilentOrphan`, `RouteFollowsServer` and `RouteEnforced` do not. The
four properties that a run refutes have theorems about what does hold:
`StaleFlowsAreFlushed` (anchord asks conntrack), `CrashOnlyWhenCancelled` (no panic
before a signal), `PinnedIsSettled` (no race with a pin) and `DependentsAreTaken` (no
dependent is left behind in the old namespace).

## Not modelled

`extiface` (a bounded retry of one lookup), the label parser, `config` (environment
variables), `metrics`, the HTTP handlers, the doctor command, the address watcher
that only logs (`watchIP`), the bodies of nftables rules (masquerade, fib checks),
the length of backoffs, and values torn by the data race on the picker's string:
conversions, I/O and wording, with no state a property could be about. Images,
labels and environment of the created service-anchor are left out of `Autostart`.
The reasons are in `PROJECT.json`.

## Plan

Done, in this order: Reconciler and its proofs, Discovery, DnatPipeline,
AnchorLifecycle, ExternalRebinder, WrapRebinder, ServiceAnchor, Autostart,
DeadNetns, Dhcp, ExtRoute, SharedNetwork, PortTable as a refinement, and the
inductive proofs of all of them.

Left:

1. Safety halves of `RouteFollowsServer`, `RouteEnforced` and `NoSilentOrphan`: what
   holds of the enforcer and of the detector at rest.
2. The nftables rules themselves: which packets reach the port map and which are
   masqueraded, so that `Serves` becomes a lemma instead of a definition.
3. Autostart's container specification, once a property needs it (an image change
   is modelled only as the decision it leads to).
