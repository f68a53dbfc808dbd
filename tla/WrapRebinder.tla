----------------------------- MODULE WrapRebinder -----------------------------
(***************************************************************************)
(* The wrap-rebinder (F-49): a sidecar that recreates the wrap anchors of  *)
(* its own project, containers that live in the network namespace of a     *)
(* foreign container (their target), when the target is recreated.         *)
(*                                                                         *)
(* Source: internal/wraprebinder.  Every docker call is a step of its own; *)
(* docker itself is external.  A container is its name and a generation,   *)
(* 0 if there is none; an ID is a name with a generation above 0.          *)
(***************************************************************************)
EXTENDS Naturals, Sequences

CONSTANTS
    Targets,         \* names of foreign containers
    Anchors,         \* names of wrap anchors of the sidecar's project
    TargetOf,        \* the target each anchor is declared with
    MaxOps,          \* bound: changes on the docker side
    MaxQueue,        \* bound: events docker queues before it changes again
    MaxFaults        \* bound: docker calls that fail for no modelled reason,
                     \* broken event streams and crashes of the sidecar

ASSUME WrapAssumption ==
    /\ Targets \cap Anchors = {} /\ TargetOf \in [Anchors -> Targets]
    /\ MaxOps \in Nat /\ MaxQueue \in Nat
    /\ MaxFaults \in Nat

VARIABLES
    tgt,     \* external: the container of each target name
    tgts,    \* external: generations of each target so far
    up,      \* external: targets that run
    anc,     \* external: the container of each anchor name
    ancs,    \* external: generations of each anchor so far
    ref,     \* external: target generation in each anchor's stored NetworkMode
    joined,  \* external: anchors that run in the netns of their running target
    stream, queue,  \* the subscription: connected, and names of started containers
    pc, job, \* where Run is, and what it is doing
    pool,    \* Watcher.pool, as <<anchor, generation>>; the target is TargetOf's
    work,    \* pool entries still to be recreated
    cur,     \* the entry recreateAnchor works on
    recent,  \* keys of Watcher.lastRestartedAt inside rapidRestartWindow
    excused, \* history: anchors of which a start was missed, a call failed, which
             \* were enumerated without a target, or were removed at a crash
    ops, faults

world    == <<tgt, tgts, up, anc, ancs, ref, joined>>
sub      == <<stream, queue>>
memory   == <<pool, recent>>
vars     == <<world, sub, pc, job, memory, work, cur, excused, ops, faults>>

NoEntry == <<>>
Entries == Anchors \X (Nat \ {0})

Exists(a) == anc[a] # 0
\* The stored reference names a container that is there.
Resolves(a)  == ref[a] # 0 /\ ref[a] = tgt[TargetOf[a]]
AnchorsOf(t) == {a \in Anchors : TargetOf[a] = t}
\* The anchors a start event is about.
Concerned(n) == IF n \in Targets THEN AnchorsOf(n) ELSE {n}

Fault == faults < MaxFaults /\ faults' = faults + 1
Emit(n) == queue' = IF stream THEN Append(queue, n) ELSE queue
Unheard(n) == IF stream THEN {} ELSE Concerned(n)
Dropped == UNION {Concerned(queue[i]) : i \in DOMAIN queue}

-----------------------------------------------------------------------------
\* The sidecar starts next to anchors that are in order, miss their stopped
\* target, or were left behind by a recreate.
Init ==
    /\ tgt \in [Targets -> 0..1] /\ tgts = [t \in Targets |-> 1]
    /\ up \in SUBSET {t \in Targets : tgt[t] # 0}
    /\ anc \in [Anchors -> 0..1] /\ ancs = anc /\ ref = anc
    /\ joined \in SUBSET {a \in Anchors : anc[a] = 1 /\ TargetOf[a] \in up}
    /\ stream = FALSE /\ queue = <<>>
    /\ pc = "enumerate" /\ job = "startup"
    /\ pool = {} /\ recent = {} /\ work = {} /\ cur = NoEntry
    /\ excused = {a \in Anchors : ~(Exists(a) /\ Resolves(a) /\ (TargetOf[a] \in up => a \in joined))}
    /\ ops = 0 /\ faults = 0

-----------------------------------------------------------------------------
(* Docker (external) *)

Change ==
    /\ ops < MaxOps /\ ops' = ops + 1
    /\ Len(queue) < MaxQueue
    /\ UNCHANGED <<stream, pc, job, memory, work, cur, faults>>

TargetStop(t) ==
    /\ t \in up /\ up' = up \ {t}
    /\ joined' = joined \ AnchorsOf(t)
    /\ Change
    /\ UNCHANGED <<tgt, tgts, anc, ancs, ref, queue, excused>>

TargetRemove(t) ==
    /\ tgt[t] # 0 /\ tgt' = [tgt EXCEPT ![t] = 0]
    /\ up' = up \ {t} /\ joined' = joined \ AnchorsOf(t)
    /\ Change
    /\ UNCHANGED <<tgts, anc, ancs, ref, queue, excused>>

TargetCreate(t) ==
    /\ tgt[t] = 0
    /\ tgts' = [tgts EXCEPT ![t] = @ + 1] /\ tgt' = [tgt EXCEPT ![t] = tgts[t] + 1]
    /\ Change
    /\ UNCHANGED <<up, anc, ancs, ref, joined, queue, excused>>

\* Anchors that run in the old namespace are not moved to the new one.
TargetStart(t) ==
    /\ tgt[t] # 0 /\ t \notin up /\ up' = up \cup {t}
    /\ Emit(t)
    /\ excused' = excused \cup Unheard(t)
    /\ Change
    /\ UNCHANGED <<tgt, tgts, anc, ancs, ref, joined>>

\* `compose up --force-recreate` of the wrap stack.
ComposeAnchor(a) ==
    /\ TargetOf[a] \in up
    /\ ancs' = [ancs EXCEPT ![a] = @ + 1] /\ anc' = [anc EXCEPT ![a] = ancs[a] + 1]
    /\ ref' = [ref EXCEPT ![a] = tgt[TargetOf[a]]]
    /\ joined' = joined \cup {a}
    /\ Emit(a)
    /\ excused' = (excused \ {a}) \cup Unheard(a)
    /\ Change
    /\ UNCHANGED <<tgt, tgts, up>>

StreamBreaks ==
    /\ stream /\ stream' = FALSE
    /\ Fault
    /\ UNCHANGED <<world, queue, pc, job, memory, work, cur, excused, ops>>

-----------------------------------------------------------------------------
(* enumerateTargetPool and bootstrapRecheck *)

Goto(label) == pc' = label /\ UNCHANGED job
\* A job is over: back to consume's select, or on to the subscription.
Done == pc' = (IF job = "startup" THEN "subscribe" ELSE "idle") /\ job' = "none"
\* An event for an own container only enumerates.
AfterEnumerate(p) == IF job = "event" \/ p = {} THEN Done ELSE Goto("recheck")

\* Mutants: nothing is looked up in the list; the list holds running containers
\* only.
buildBlindPool == {<<a, anc[a]>> : a \in Anchors}
buildRunningPool == {<<a, anc[a]>> : a \in joined}
\* Anchors whose reference does not resolve are orphans and left out.
buildTargetPool == {<<a, anc[a]>> : a \in {b \in Anchors : Exists(b) /\ Resolves(b)}}

Enumerate ==
    /\ pc = "enumerate"
    /\ pool' = buildTargetPool
    /\ AfterEnumerate(pool')
    /\ excused' = excused \cup {a \in Anchors : Exists(a) /\ ~Resolves(a)}
    /\ UNCHANGED <<world, sub, recent, work, cur, ops, faults>>

\* The list failed and the pool stays as it was.
EnumerateError ==
    /\ pc = "enumerate"
    /\ Fault
    /\ AfterEnumerate(pool)
    /\ excused' = excused \cup {a \in Anchors : Exists(a) /\ <<a, anc[a]>> \notin pool}
    /\ UNCHANGED <<world, sub, memory, work, cur, ops>>

\* Mutant: every anchor of a live target counts as drifted.
DriftedAll == {e \in pool : tgt[TargetOf[e[1]]] # 0 /\ anc[e[1]] = e[2]}
\* Entries of a live target that reference another container than the target's.
Drifted == {e \in pool : /\ tgt[TargetOf[e[1]]] # 0 /\ anc[e[1]] = e[2]
                         /\ ref[e[1]] # tgt[TargetOf[e[1]]]}

Recheck ==
    /\ pc = "recheck"
    /\ work' = Drifted
    /\ Goto("work")
    /\ UNCHANGED <<world, sub, memory, cur, excused, ops, faults>>

RecheckError ==
    /\ pc = "recheck"
    /\ Fault
    /\ Done
    /\ UNCHANGED <<world, sub, memory, work, cur, excused, ops>>

-----------------------------------------------------------------------------
(* recreateAnchor, for one entry of work after the other *)

WorkDone ==
    /\ pc = "work" /\ work = {}
    /\ IF job = "eventOwn" THEN pc' = "enumerate" /\ job' = "event" ELSE Done
    /\ UNCHANGED <<world, sub, memory, work, cur, excused, ops, faults>>

\* The key is remembered before the attempt; one remembered already is skipped.
NextEntry(e) ==
    /\ pc = "work" /\ work' = work \ {e}
    /\ IF e \in recent
       THEN UNCHANGED <<cur, recent, pc, job>>
       ELSE cur' = e /\ recent' = recent \cup {e} /\ Goto("remove")
    /\ UNCHANGED <<world, sub, pool, excused, ops, faults>>

\* rapidRestartWindow has passed since a recreate.
WindowEnds(e) ==
    /\ recent' = recent \ {e}
    /\ UNCHANGED <<world, sub, pc, job, pool, work, cur, excused, ops, faults>>

EndEntry == Goto("work") /\ cur' = NoEntry

\* ContainerInspect and the forced ContainerRemove, by ID.
RemoveAnchor(a) ==
    /\ pc = "remove" /\ cur = <<a, anc[a]>>
    /\ anc' = [anc EXCEPT ![a] = 0] /\ ref' = [ref EXCEPT ![a] = 0]
    /\ joined' = joined \ {a}
    /\ Goto("create")
    /\ UNCHANGED <<tgt, tgts, up, ancs, sub, memory, work, cur, excused, ops, faults>>

\* Somebody else has recreated or removed the anchor.
AnchorGone(a) ==
    /\ pc = "remove" /\ cur[1] = a /\ cur[2] # anc[a]
    /\ EndEntry
    /\ UNCHANGED <<world, sub, memory, work, excused, ops, faults>>

\* ContainerCreate resolves the target's name to its present ID.
CreateAnchor(a) ==
    /\ pc = "create" /\ cur[1] = a /\ anc[a] = 0 /\ tgt[TargetOf[a]] # 0
    /\ ancs' = [ancs EXCEPT ![a] = @ + 1] /\ anc' = [anc EXCEPT ![a] = ancs[a] + 1]
    /\ ref' = [ref EXCEPT ![a] = tgt[TargetOf[a]]]
    /\ cur' = <<a, ancs[a] + 1>>
    /\ Goto("start")
    /\ UNCHANGED <<tgt, tgts, up, joined, sub, memory, work, excused, ops, faults>>

\* ContainerStart needs the namespace of a running target; the start is an event
\* of the sidecar's own project.
StartAnchor(a) ==
    /\ pc = "start" /\ cur = <<a, anc[a]>> /\ Resolves(a) /\ TargetOf[a] \in up
    /\ joined' = joined \cup {a}
    /\ Emit(a)
    /\ excused' = excused \cup Unheard(a)
    /\ EndEntry
    /\ UNCHANGED <<tgt, tgts, up, anc, ancs, ref, stream, memory, work, ops, faults>>

\* Any error ends recreateAnchor where it is; a missing anchor stays missing.
RecreateFails(a) ==
    /\ pc \in {"remove", "create", "start"} /\ cur[1] = a
    /\ \/ Fault
       \/ /\ \/ pc = "create" /\ (anc[a] # 0 \/ tgt[TargetOf[a]] = 0)
             \/ pc = "start" /\ ~(cur[2] = anc[a] /\ Resolves(a) /\ TargetOf[a] \in up)
          /\ UNCHANGED faults
    /\ excused' = excused \cup {a}
    /\ EndEntry
    /\ UNCHANGED <<world, sub, memory, work, ops>>

-----------------------------------------------------------------------------
(* Run and consume *)

Subscribe ==
    /\ pc = "subscribe"
    /\ stream' = TRUE /\ queue' = <<>>
    /\ pc' = "idle" /\ UNCHANGED job
    /\ UNCHANGED <<world, memory, work, cur, excused, ops, faults>>

\* consume returns the stream's error, with it what was still queued.
OnStreamError ==
    /\ pc = "idle" /\ ~stream
    /\ excused' = excused \cup Dropped
    /\ queue' = <<>> /\ Goto("subscribe")
    /\ UNCHANGED <<world, stream, memory, work, cur, ops, faults>>

\* Mutant: a start in the own project is not acted upon.
OnStartForeignOnly(n) ==
    /\ pc = "idle" /\ queue # <<>> /\ n = Head(queue) /\ queue' = Tail(queue)
    /\ work' = {e \in pool : TargetOf[e[1]] = n}
    /\ pc' = "work" /\ job' = "event"
    /\ UNCHANGED <<world, stream, memory, cur, excused, ops, faults>>
\* handleStart: recreate the anchors tracked under this name, then enumerate if
\* the container is one of the own project.
OnStart(n) ==
    /\ pc = "idle" /\ queue # <<>> /\ n = Head(queue) /\ queue' = Tail(queue)
    /\ work' = {e \in pool : TargetOf[e[1]] = n}
    /\ pc' = "work" /\ job' = (IF n \in Anchors THEN "eventOwn" ELSE "event")
    /\ UNCHANGED <<world, stream, memory, cur, excused, ops, faults>>

Tick ==
    /\ pc = "idle"
    /\ pc' = "enumerate" /\ job' = "poll"
    /\ UNCHANGED <<world, sub, memory, work, cur, excused, ops, faults>>

\* The sidecar dies and starts again knowing nothing: a start that was queued or
\* in hand is lost to the anchors it was for, and what it had removed stays so.
Crash ==
    /\ Fault
    /\ stream' = FALSE /\ queue' = <<>>
    /\ pc' = "enumerate" /\ job' = "startup"
    /\ pool' = {} /\ recent' = {} /\ work' = {} /\ cur' = NoEntry
    /\ excused' = excused \cup {a \in Anchors : ~Exists(a) \/ (TargetOf[a] \in up /\ a \notin joined)}
    /\ UNCHANGED <<world, ops>>

-----------------------------------------------------------------------------
Docker ==
    \/ \E t \in Targets : TargetStop(t)
    \/ \E t \in Targets : TargetRemove(t)
    \/ \E t \in Targets : TargetCreate(t)
    \/ \E t \in Targets : TargetStart(t)
    \/ \E a \in Anchors : ComposeAnchor(a)
    \/ StreamBreaks

Handle == \E n \in Targets \cup Anchors : OnStart(n)

Job ==
    \/ Enumerate \/ EnumerateError \/ Recheck \/ RecheckError \/ WorkDone
    \/ \E e \in work : NextEntry(e)
    \/ \E a \in Anchors : RemoveAnchor(a)
    \/ \E a \in Anchors : AnchorGone(a)
    \/ \E a \in Anchors : CreateAnchor(a)
    \/ \E a \in Anchors : StartAnchor(a)
    \/ \E a \in Anchors : RecreateFails(a)
    \/ Subscribe \/ OnStreamError

Next == Docker \/ Handle \/ Job \/ Tick \/ Crash \/ \E e \in recent : WindowEnds(e)

Spec == Init /\ [][Next]_vars

\* The only goroutine is scheduled, docker calls return, and select does not
\* pass over a waiting event or a tick for ever.
FairSpec == Spec /\ WF_vars(Job) /\ SF_vars(Handle) /\ SF_vars(Tick)

-----------------------------------------------------------------------------
Labels == {"enumerate", "recheck", "work", "remove", "create", "start", "subscribe", "idle"}

TypeOK ==
    /\ tgt \in [Targets -> Nat] /\ tgts \in [Targets -> Nat]
    /\ up \subseteq {t \in Targets : tgt[t] # 0}
    /\ anc \in [Anchors -> Nat] /\ ancs \in [Anchors -> Nat]
    /\ ref \in [Anchors -> Nat]
    /\ joined \subseteq {a \in Anchors : Exists(a) /\ Resolves(a) /\ TargetOf[a] \in up}
    /\ stream \in BOOLEAN /\ queue \in Seq(Targets \cup Anchors)
    /\ pc \in Labels /\ job \in {"startup", "poll", "event", "eventOwn", "none"}
    /\ pool \subseteq Entries /\ work \subseteq pool /\ recent \subseteq Entries
    /\ cur \in Entries \cup {NoEntry}
    /\ excused \subseteq Anchors
    /\ ops \in 0..MaxOps /\ faults \in 0..MaxFaults

\* What the sidecar does achieve: an anchor of which it heard every start, for
\* which no docker call failed, which it did not enumerate between the target's
\* removal and its own recreate and which no crash left removed, ends up in its
\* target's namespace once the target keeps running.
FollowsWhenHeard ==
    \A a \in Anchors :
        <>[](TargetOf[a] \in up /\ a \notin excused) => <>[](a \in joined)

\* The same at any moment with every event handled: none of these anchors is left
\* outside its running target.
JoinedWhenQuiet ==
    pc = "idle" /\ stream /\ queue = <<>> =>
        \A a \in Anchors \ excused : TargetOf[a] \in up => a \in joined

\* The safety net never takes down an anchor that runs where it should: between
\* bootstrapRecheck's list and the removal nothing can have mended it.
RecheckSparesTheHealthy ==
    [][(job \in {"startup", "poll"}) => \A a \in joined : anc'[a] # 0]_vars

\* With every event handled the sidecar knows the present container of each
\* anchor it has not lost sight of, so that the target's next start finds it.
PoolKnowsTheAnchors ==
    pc = "idle" /\ stream /\ queue = <<>> =>
        \A a \in joined \ excused : <<a, anc[a]>> \in pool
=============================================================================
