------------------------------- MODULE Autostart -------------------------------
(***************************************************************************)
(* The network-anchor's container manager: it starts siblings that wait in *)
(* Created state for their target (F-43), and creates, starts and replaces *)
(* the managed service-anchor of a foreign target, taking the dependents   *)
(* that live in the service-anchor's namespace along (F-45).               *)
(*                                                                         *)
(* Source: internal/autostart.  Every docker call is a step of its own;    *)
(* docker and its users are external.  A container is a name and a         *)
(* generation; a reference to a container is a generation of its parent,   *)
(* or ByName when the parent was not there to be resolved.                 *)
(***************************************************************************)
EXTENDS Naturals, Sequences

CONSTANTS
    Target, Anchor,  \* recipe.Target and recipe.Name
    Siblings,        \* containers that share the target's namespace (F-43)
    Deps,            \* wrap dependents: containers in the service-anchor's namespace
    AutoFix,         \* ANCHORD_AUTOFIX_DEAD_NETNS
    MaxOps,          \* bound: changes on the docker side
    MaxQueue,        \* bound: events docker queues before it changes again
    MaxMishaps       \* bound: docker calls that fail for no modelled reason,
                     \* broken streams, restarts of the network-anchor

ASSUME AutostartAssumption ==
    /\ Target # Anchor /\ {Target, Anchor} \cap (Siblings \cup Deps) = {}
    /\ Siblings \cap Deps = {}
    /\ AutoFix \in BOOLEAN
    /\ MaxOps \in Nat /\ MaxQueue \in Nat /\ MaxMishaps \in Nat

VARIABLES
    gen,     \* external: latest generation of each name
    state,   \* external: "absent", "created", "running" or "exited"
    ref,     \* external: parent generation in each container's NetworkMode
    joined,  \* external: containers running in the running target's namespace
    oldImage,\* external: the service-anchor has another image than the network-anchor
    stream, queue,  \* the subscription: connected, and events waiting
    pc, job, \* where Run is, and the event it handles
    starts,  \* siblings of the list still to be started, as <<name, generation>>
    plan,    \* what maybeManage decided from the list
    dep,     \* the dependent RecreateWithNetworkMode works on
    missed,  \* history: an event was lost, a call failed, or the target was
             \* started again in place under containers of its namespace
    adrift,  \* history: dependents whose service-anchor was removed or exited on
             \* other hands, or that appeared while a handler was at work
    ops, mishaps

Names  == {Target, Anchor} \cup Siblings \cup Deps
Parent(n) == IF n \in Deps THEN Anchor ELSE Target
ByName == 0

world   == <<gen, state, ref, joined, oldImage>>
sub     == <<stream, queue>>
handler == <<job, starts, plan, dep>>
history == <<missed, adrift>>
bounds  == <<ops, mishaps>>
vars    == <<world, sub, pc, handler, history, bounds>>

Present(n)  == state[n] # "absent"
\* The reference leads to the container that now has the parent's name.
Resolves(n) == ref[n] \in {ByName, gen[Parent(n)]} /\ Present(Parent(n))
\* Containers that run in the namespace of an earlier run of the target.
Stranded    == {n \in {Anchor} \cup Deps : state[n] = "running" /\ n \notin joined}
InPlace     == state[Anchor] = "running" /\ Anchor \in joined

NoJob  == [kind |-> "none", name |-> Target, gen |-> 0]
NoPlan == [do |-> "none", old |-> 0, orphans |-> {}]
NoDep  == <<>>

Mishap == mishaps < MaxMishaps /\ mishaps' = mishaps + 1 /\ UNCHANGED ops
Emit(e) == queue' = IF stream THEN Append(queue, e) ELSE queue
\* Nothing is subscribed, and the backfill's list has been taken.
Unheard == ~stream /\ ~(pc = "list" /\ job.kind = "backfill")

-----------------------------------------------------------------------------
\* The network-anchor starts into a stack at any stage of coming up or left
\* behind by a target that was recreated.
Init ==
    /\ gen = [n \in Names |-> IF n = Target THEN 2 ELSE 1]
    /\ state \in [Names -> {"absent", "created", "running"}]
    /\ \A s \in Siblings : state[s] # "running"
    /\ ref \in [Names -> 0..2]
    /\ \A n \in Names : IF n = Target \/ state[n] = "absent" \/ n \in Siblings
                        THEN ref[n] = ByName
                        ELSE IF n \in Deps /\ state[n] = "created" /\ ~Present(Anchor)
                             THEN ref[n] \in {ByName, 1}
                             ELSE ref[n] \in 1..gen[Parent(n)]
    /\ joined = {n \in {Anchor} \cup Deps :
                    /\ state[n] = "running" /\ state[Target] = "running"
                    /\ ref[Anchor] = gen[Target] /\ state[Anchor] = "running"}
    /\ \A d \in Deps : state[d] = "running" => state[Anchor] = "running"
    /\ state[Target] = "created" /\ state[Anchor] = "running" => ref[Anchor] # gen[Target]
    /\ oldImage = FALSE
    /\ stream = FALSE /\ queue = <<>>
    /\ pc = "list" /\ job = [NoJob EXCEPT !.kind = "backfill"]
    /\ starts = {} /\ plan = NoPlan /\ dep = NoDep
    /\ missed = FALSE /\ adrift = {d \in Deps : Present(d) /\ ~Resolves(d) /\ ref[d] # ByName}
    /\ ops = 0 /\ mishaps = 0

-----------------------------------------------------------------------------
(* Docker.  Only events something reacts to are queued: starts of the target *)
(* and the service-anchor, and the service-anchor's destroy.                 *)

\* ContainerStart of generation g: the parent must run and be the one referred
\* to; a running container stays as it is.
CanStart(n, g) ==
    /\ Present(n) /\ gen[n] = g
    /\ Resolves(n) /\ state[Parent(n)] = "running"

Started(n) ==
    /\ state' = [state EXCEPT ![n] = "running"]
    /\ joined' = IF state[n] = "running" THEN joined
                 ELSE IF n \in Deps /\ Anchor \notin joined THEN joined \ {n}
                 ELSE joined \cup {n}
    /\ IF n = Anchor /\ state[n] # "running"
       THEN Emit(<<"start", n, gen[n]>>) ELSE UNCHANGED queue
    /\ adrift' = IF n = Anchor /\ Unheard THEN adrift \cup {d \in Deps : state[d] = "created"}
                 ELSE adrift
    /\ UNCHANGED <<gen, ref, oldImage, stream, missed>>

\* ContainerCreate of n, referring to its parent by r.
Created(n, r) ==
    /\ gen' = [gen EXCEPT ![n] = @ + 1]
    /\ state' = [state EXCEPT ![n] = "created"]
    /\ ref' = [ref EXCEPT ![n] = r]

\* A forced ContainerRemove.
Removed(n) ==
    /\ state' = [state EXCEPT ![n] = "absent"]
    /\ ref' = [ref EXCEPT ![n] = ByName]
    /\ joined' = joined \ {n}
    /\ IF n = Anchor THEN Emit(<<"destroy", n, gen[n]>>) ELSE UNCHANGED queue
    /\ UNCHANGED <<gen, stream>>

Change ==
    /\ ops < MaxOps /\ ops' = ops + 1
    /\ Len(queue) < MaxQueue
    /\ UNCHANGED <<stream, pc, handler, mishaps>>

\* The namespace ends with its target; those in it keep running without it.
TargetStop ==
    /\ state[Target] = "running"
    /\ state' = [state EXCEPT ![Target] = "exited"] /\ joined' = {}
    /\ Change
    /\ UNCHANGED <<gen, ref, oldImage, queue, history>>

TargetRecreate ==
    /\ Created(Target, ByName) /\ joined' = {}
    /\ Change
    /\ UNCHANGED <<oldImage, queue, history>>

TargetRemove ==
    /\ Present(Target)
    /\ state' = [state EXCEPT ![Target] = "absent"] /\ joined' = {}
    /\ Change
    /\ UNCHANGED <<gen, ref, oldImage, queue, history>>

TargetStart ==
    /\ state[Target] \in {"created", "exited"}
    /\ state' = [state EXCEPT ![Target] = "running"]
    /\ Emit(<<"start", Target, gen[Target]>>)
    /\ missed' = (missed \/ Unheard \/ (state[Target] = "exited" /\ Stranded # {}))
    /\ Change
    /\ UNCHANGED <<gen, ref, joined, oldImage, adrift>>

\* `docker rm -f` of the managed service-anchor.
AnchorRemove ==
    /\ Present(Anchor)
    /\ Removed(Anchor)
    /\ missed' = (missed \/ Unheard)
    /\ adrift' = adrift \cup {d \in Deps : Present(d)}
    /\ Change
    /\ UNCHANGED oldImage

AnchorExit ==
    /\ state[Anchor] = "running"
    /\ state' = [state EXCEPT ![Anchor] = "exited"] /\ joined' = joined \ {Anchor}
    /\ adrift' = adrift \cup {d \in Deps : state[d] = "running"}
    /\ Change
    /\ UNCHANGED <<gen, ref, oldImage, queue, missed>>

\* `compose up` of a dependent, into the namespace of the service-anchor.
DepCompose(d) ==
    /\ state[Anchor] = "running"
    /\ gen' = [gen EXCEPT ![d] = @ + 1]
    /\ state' = [state EXCEPT ![d] = "running"]
    /\ ref' = [ref EXCEPT ![d] = gen[Anchor]]
    /\ joined' = IF Anchor \in joined THEN joined \cup {d} ELSE joined \ {d}
    /\ adrift' = IF job = NoJob THEN adrift \ {d} ELSE adrift \cup {d}
    /\ Change
    /\ UNCHANGED <<oldImage, queue, missed>>

StreamBreaks ==
    /\ stream /\ stream' = FALSE
    /\ Mishap
    /\ UNCHANGED <<world, queue, pc, handler, history>>

-----------------------------------------------------------------------------
(* What a handler reads from one ContainerList *)

\* Mutant: only a reference by ID is matched.
matchSiblingsByID(t, g) ==
    {<<n, gen[n]>> : n \in {m \in Names \ {Target} :
        state[m] = "created" /\ Parent(m) = t /\ ref[m] = g}}
\* Created containers that refer to generation g of t, by its ID or its name.
matchSiblings(t, g) ==
    {<<n, gen[n]>> : n \in {m \in Names \ {Target} :
        state[m] = "created" /\ Parent(m) = t /\ ref[m] \in {ByName, g}}}

\* Mutant: a reference by name is not resolved.
saTargetsStaleNetnsByID(g) == ref[Anchor] # g \/ ~Resolves(Anchor)
\* The service-anchor's reference leads nowhere, or to another container than
\* generation g of the target, the one whose start is handled.
saTargetsStaleNetns(g) == ~Resolves(Anchor) \/ gen[Target] # g

\* Mutant: dependents are looked for only among running containers of the
\* target's present namespace.
findJoinedCandidates == {<<d, gen[d]>> : d \in Deps \cap joined}
\* Mutant: whose container the reference names is not compared.
findAnyCandidates ==
    {<<c, gen[c]>> : c \in {n \in Names \ {Anchor} : Present(n) /\ ref[n] \in {ByName, gen[Anchor]}}}
findOrphanCandidates ==
    {<<d, gen[d]>> : d \in {c \in Deps : Present(c) /\ ref[c] \in {ByName, gen[Anchor]}}}

\* Mutant: the reference is not compared, a running service-anchor is kept.
maybeManageRunning(g, backfill) ==
    CASE state[Anchor] = "absent" -> [NoPlan EXCEPT !.do = "create"]
      [] state[Anchor] \in {"created", "running"} -> NoPlan
      [] OTHER -> [NoPlan EXCEPT !.do = "start", !.old = gen[Anchor]]

\* What is to be done about the service-anchor of generation g of the target;
\* only the backfill compares images.
maybeManage(g, backfill) ==
    CASE state[Anchor] = "absent" -> [NoPlan EXCEPT !.do = "create"]
      [] state[Anchor] = "running" ->
            IF saTargetsStaleNetns(g) \/ (backfill /\ oldImage)
            THEN [do |-> "recreate", old |-> gen[Anchor],
                  orphans |-> IF AutoFix THEN findOrphanCandidates ELSE {}]
            ELSE NoPlan
      [] state[Anchor] = "created" -> NoPlan
      [] OTHER -> [NoPlan EXCEPT !.do = "start", !.old = gen[Anchor]]

Goto(label) == pc' = label /\ UNCHANGED handler
\* Back to consume's select, or on to the subscription after the backfill.
Done ==
    /\ pc' = (IF job.kind = "backfill" THEN "subscribe" ELSE "idle")
    /\ job' = NoJob /\ starts' = {} /\ plan' = NoPlan /\ dep' = NoDep

\* backfill: every running container is handled like one that just started;
\* images are compared unless the inspection of the own container failed.
BackfillList ==
    /\ pc = "list" /\ job.kind = "backfill"
    /\ starts' = UNION {matchSiblings(t, gen[t]) : t \in {u \in {Target, Anchor} : state[u] = "running"}}
    /\ \E inspected \in BOOLEAN :
        /\ plan' = IF state[Target] = "running" THEN maybeManage(gen[Target], inspected) ELSE NoPlan
        /\ IF inspected THEN UNCHANGED bounds ELSE Mishap
    /\ pc' = "work"
    /\ UNCHANGED <<world, sub, job, dep, history>>

\* handleTargetStart
StartList ==
    /\ pc = "list" /\ job.kind = "start"
    /\ starts' = matchSiblings(job.name, job.gen)
    /\ plan' = IF job.name = Target THEN maybeManage(job.gen, FALSE) ELSE NoPlan
    /\ pc' = "work"
    /\ UNCHANGED <<world, sub, job, dep, history, bounds>>

\* handleSAGone: respawned only while the target runs.
GoneList ==
    /\ pc = "list" /\ job.kind = "destroy"
    /\ IF state[Target] = "running"
       THEN plan' = maybeManage(gen[Target], FALSE) /\ pc' = "work" /\ UNCHANGED <<job, starts, dep>>
       ELSE Done
    /\ UNCHANGED <<world, sub, history, bounds>>

ListError ==
    /\ pc = "list"
    /\ Mishap
    /\ missed' = TRUE
    /\ Done
    /\ UNCHANGED <<world, sub, adrift>>

-----------------------------------------------------------------------------
(* Starting siblings; in the backfill those of the service-anchor may come *)
(* before or after its own turn, as the list has it                        *)

StartSibling(n, g) ==
    /\ pc = "work" /\ <<n, g>> \in starts
    /\ starts' = starts \ {<<n, g>>}
    /\ IF CanStart(n, g)
       THEN Started(n)
       ELSE UNCHANGED <<world, sub, history>>
    /\ UNCHANGED <<pc, job, plan, dep, bounds>>

StartSiblingFails(n, g) ==
    /\ pc = "work" /\ <<n, g>> \in starts
    /\ Mishap
    /\ starts' = starts \ {<<n, g>>} /\ missed' = TRUE
    /\ UNCHANGED <<world, sub, pc, job, plan, dep, adrift>>

Manage ==
    /\ pc = "work" /\ plan.do # "none"
    /\ \A e \in starts : Parent(e[1]) # Target
    /\ pc' = CASE plan.do = "create" -> "create" [] plan.do = "recreate" -> "remove"
               [] OTHER -> "startOld"
    /\ UNCHANGED <<world, sub, handler, history, bounds>>

WorkDone ==
    /\ pc = "work" /\ starts = {} /\ plan.do = "none"
    /\ Done
    /\ UNCHANGED <<world, sub, history, bounds>>

\* maybeManage is over: on with the backfill's next container.
Managed == pc' = "work" /\ plan' = NoPlan /\ dep' = NoDep /\ UNCHANGED <<job, starts>>

\* The idempotent start of an exited service-anchor.
StartOld ==
    /\ pc = "startOld"
    /\ IF CanStart(Anchor, plan.old) THEN Started(Anchor) ELSE UNCHANGED <<world, sub, history>>
    /\ Managed
    /\ UNCHANGED bounds

-----------------------------------------------------------------------------
(* recreateSAWithOrphanRebind and createAndStartManaged *)

\* Remove by ID; removing a container that is gone succeeds.
RemoveOld ==
    /\ pc = "remove"
    /\ IF Present(Anchor) /\ gen[Anchor] = plan.old
       THEN Removed(Anchor) /\ UNCHANGED oldImage
       ELSE UNCHANGED <<world, sub>>
    /\ Goto("create")
    /\ UNCHANGED <<history, bounds>>

\* InspectSelf, buildSpec and Create, with the own image; docker refuses a name
\* that is taken.
CreateAnchor ==
    /\ pc = "create" /\ ~Present(Anchor)
    /\ Created(Anchor, IF Present(Target) THEN gen[Target] ELSE ByName)
    /\ oldImage' = FALSE
    /\ plan' = [plan EXCEPT !.old = gen[Anchor] + 1]
    /\ pc' = "start"
    /\ UNCHANGED <<joined, sub, job, starts, dep, history, bounds>>

StartAnchor ==
    /\ pc = "start" /\ CanStart(Anchor, plan.old)
    /\ Started(Anchor)
    /\ Goto("rebind")
    /\ UNCHANGED bounds

\* The new service-anchor failed: the orphans stay orphaned.
ManageFails ==
    /\ pc \in {"remove", "create", "start", "startOld"}
    /\ \/ Mishap /\ missed' = TRUE
       \/ /\ \/ pc = "create" /\ Present(Anchor)
             \/ pc = "start" /\ ~CanStart(Anchor, plan.old)
          /\ UNCHANGED <<missed, bounds>>
    /\ adrift' = adrift \cup {e[1] : e \in plan.orphans}
    /\ Managed
    /\ UNCHANGED <<world, sub>>

-----------------------------------------------------------------------------
(* RecreateWithNetworkMode for one orphan after the other *)

NextOrphan(e) ==
    /\ pc = "rebind" /\ e \in plan.orphans
    /\ dep' = e /\ plan' = [plan EXCEPT !.orphans = @ \ {e}]
    /\ pc' = "depRemove"
    /\ UNCHANGED <<world, sub, job, starts, history, bounds>>

RebindDone ==
    /\ pc = "rebind" /\ plan.orphans = {}
    /\ Managed
    /\ UNCHANGED <<world, sub, history, bounds>>

\* Inspect and remove by ID.
RemoveDep ==
    /\ pc = "depRemove" /\ Present(dep[1]) /\ gen[dep[1]] = dep[2]
    /\ Removed(dep[1])
    /\ Goto("depCreate")
    /\ UNCHANGED <<oldImage, history, bounds>>

\* The same container, referring to the new service-anchor's ID.
CreateDep ==
    /\ pc = "depCreate" /\ ~Present(dep[1])
    /\ Created(dep[1], plan.old)
    /\ dep' = <<dep[1], gen[dep[1]] + 1>>
    /\ pc' = "depStart"
    /\ UNCHANGED <<joined, oldImage, sub, job, starts, plan, history, bounds>>

\* Docker refuses a container that shares a network namespace and has a hostname
\* of its own; the inspected Config is passed on with the one docker gave it.
RefuseDep ==
    /\ pc = "depCreate" /\ ~Present(dep[1])
    /\ pc' = "rebind" /\ dep' = NoDep
    /\ UNCHANGED <<world, sub, job, starts, plan, history, bounds>>

StartDep ==
    /\ pc = "depStart" /\ CanStart(dep[1], dep[2])
    /\ Started(dep[1])
    /\ pc' = "rebind" /\ dep' = NoDep
    /\ UNCHANGED <<job, starts, plan, bounds>>

\* One broken dependent does not keep the others orphaned.
RebindFails ==
    /\ pc \in {"depRemove", "depCreate", "depStart"}
    /\ \/ Mishap
       \/ /\ \/ pc = "depRemove" /\ ~(Present(dep[1]) /\ gen[dep[1]] = dep[2])
             \/ pc = "depCreate" /\ Present(dep[1])
             \/ pc = "depStart" /\ ~CanStart(dep[1], dep[2])
          /\ UNCHANGED bounds
    /\ adrift' = adrift \cup {dep[1]}
    /\ pc' = "rebind" /\ dep' = NoDep
    /\ UNCHANGED <<world, sub, job, starts, plan, missed>>

-----------------------------------------------------------------------------
(* Run and consume *)

Subscribe ==
    /\ pc = "subscribe"
    /\ stream' = TRUE /\ queue' = <<>>
    /\ Goto("idle")
    /\ UNCHANGED <<world, history, bounds>>

\* consume returns the stream's error, with it what was still queued.
OnStreamError ==
    /\ pc = "idle" /\ ~stream
    /\ missed' = (missed \/ queue # <<>>)
    /\ queue' = <<>> /\ Goto("subscribe")
    /\ UNCHANGED <<world, stream, adrift, bounds>>

OnEvent ==
    /\ pc = "idle" /\ queue # <<>>
    /\ LET e == Head(queue) IN job' = [kind |-> e[1], name |-> e[2], gen |-> e[3]]
    /\ queue' = Tail(queue) /\ pc' = "list"
    /\ UNCHANGED <<world, stream, starts, plan, dep, history, bounds>>

\* The network-anchor dies, or is upgraded to another image, and starts again.
Restart ==
    /\ Mishap
    /\ stream' = FALSE /\ queue' = <<>>
    /\ pc' = "list" /\ job' = [NoJob EXCEPT !.kind = "backfill"]
    /\ starts' = {} /\ plan' = NoPlan /\ dep' = NoDep
    /\ oldImage' \in {oldImage, Present(Anchor)}
    /\ adrift' = adrift \cup {d \in Deps : job # NoJob}
    /\ UNCHANGED <<gen, state, ref, joined, missed>>

-----------------------------------------------------------------------------
Docker ==
    \/ TargetStop \/ TargetRecreate \/ TargetRemove \/ TargetStart
    \/ AnchorRemove \/ AnchorExit
    \/ \E d \in Deps : DepCompose(d)
    \/ StreamBreaks

Watch ==
    \/ BackfillList \/ StartList \/ GoneList \/ ListError
    \/ \E e \in starts : StartSibling(e[1], e[2])
    \/ \E e \in starts : StartSiblingFails(e[1], e[2])
    \/ Manage \/ WorkDone \/ StartOld
    \/ RemoveOld \/ CreateAnchor \/ StartAnchor \/ ManageFails
    \/ \E e \in plan.orphans : NextOrphan(e)
    \/ RebindDone \/ RemoveDep \/ CreateDep \/ RefuseDep \/ StartDep \/ RebindFails
    \/ Subscribe \/ OnStreamError \/ OnEvent

Next == Docker \/ Watch \/ Restart

Spec == Init /\ [][Next]_vars

\* The watcher's only goroutine is scheduled and docker calls return.
FairSpec == Spec /\ WF_vars(Watch)

-----------------------------------------------------------------------------
Labels == {"list", "work", "remove", "create", "start", "startOld", "rebind",
           "depRemove", "depCreate", "depStart", "subscribe", "idle"}

Instances == Names \X Nat

TypeOK ==
    /\ gen \in [Names -> Nat]
    /\ state \in [Names -> {"absent", "created", "running", "exited"}]
    /\ ref \in [Names -> Nat]
    /\ joined \subseteq {n \in {Anchor} \cup Deps \cup Siblings :
                          state[n] = "running" /\ state[Target] = "running"}
    /\ oldImage \in BOOLEAN /\ stream \in BOOLEAN
    /\ queue \in Seq({"start", "destroy"} \X {Target, Anchor} \X Nat)
    /\ pc \in Labels
    /\ job \in [kind : {"none", "backfill", "start", "destroy"},
                  name : {Target, Anchor}, gen : Nat]
    /\ starts \subseteq Instances
    /\ plan \in [do : {"none", "create", "start", "recreate"}, old : Nat,
                   orphans : SUBSET (Deps \X Nat)]
    /\ dep \in (Deps \X Nat) \cup {NoDep}
    /\ missed \in BOOLEAN /\ adrift \subseteq Deps
    /\ ops \in 0..MaxOps /\ mishaps \in 0..MaxMishaps

Quiet == pc = "idle" /\ stream /\ queue = <<>>

\* States of the service-anchor the code has no answer to: exited; created for
\* a target that has been replaced; running by name outside the target.
BlindSpot ==
    \/ state[Anchor] = "exited"
    \/ state[Anchor] = "created" /\ ~Resolves(Anchor)
    \/ state[Anchor] = "running" /\ ref[Anchor] = ByName /\ Anchor \notin joined
Attended == state[Target] = "running" /\ ~missed /\ ~BlindSpot

\* F-45: whatever is removed, recreated or upgraded in whatever order, a target
\* that keeps running ends up with a service-anchor in its own namespace
\* (maybeManage, handleSAGone), provided every event was heard, no call failed
\* and the service-anchor is not left in a blind spot.
AnchorFollows == <>[]Attended => <>[]InPlace

\* The same at any moment with nothing left to handle: what handleTargetStart,
\* handleSAGone and the backfill know of a service-anchor is enough to act on.
InPlaceWhenQuiet == Quiet /\ Attended => InPlace

\* A service-anchor in the target's namespace is not taken down, unless for its
\* image or by an event of a target that has been replaced since.
SparesTheCurrent ==
    [][/\ pc = "remove" /\ pc' = "create" /\ InPlace
       /\ ~(job.kind = "backfill" /\ oldImage)
       /\ ~(job.kind = "start" /\ job.gen # gen[Target])
       => Present(Anchor)']_vars

\* F-43: with every event handled no sibling waits for a target that runs.
NobodyWaits ==
    Quiet /\ ~missed /\ state[Target] = "running" =>
        \A s \in Siblings : state[s] # "created"

\* Issue #10: no dependent of a service-anchor the watcher replaced stays behind
\* in the old namespace or waits for the new one: once the watcher is done it is
\* in the new namespace or, if docker refused to create it again, gone.  Excused
\* are dependents whose remove, create or start failed, and those that others
\* cut off (adrift).
DependentsFollow ==
    Quiet /\ ~missed /\ InPlace /\ AutoFix =>
        \A d \in Deps \ adrift : Present(d) => d \in joined

\* F-45 of the README: each dependent that is removed is created again against
\* the new service-anchor (RecreateWithNetworkMode).  Docker may refuse it.
DependentsReturn ==
    \A d \in Deps : (pc = "depCreate" /\ dep[1] = d) ~> Present(d)
=============================================================================
