---------------------------- MODULE AutostartProofs ----------------------------
(***************************************************************************)
(* Proofs about the container manager, for any siblings and dependents and *)
(* any number of docker changes and mishaps: types, that no event takes    *)
(* down a service-anchor that is in place, that no sibling is left waiting *)
(* for a target that runs, that a target at rest has its service-anchor in *)
(* place and its dependents with it, and that the dead-namespace detector  *)
(* beside it changes none of that.                                         *)
(***************************************************************************)
EXTENDS DeadNetns, TLAPS

States == {"absent", "created", "running", "exited"}
Events == {"start", "destroy"} \X {Target, Anchor} \X Nat
Children == Names \ {Target}

\* Docker, the subscription and the history.  A joined service-anchor refers to
\* the present target, and no event is ahead of the target's generation.
WorldInv ==
    /\ gen \in [Names -> Nat] /\ state \in [Names -> States] /\ ref \in [Names -> Nat]
    /\ joined \subseteq {n \in Children : state[n] = "running" /\ state[Target] = "running"}
    /\ oldImage \in BOOLEAN /\ stream \in BOOLEAN /\ missed \in BOOLEAN
    /\ queue \in Seq(Events)
    /\ adrift \subseteq Deps
    /\ Anchor \in joined => ref[Anchor] \in {ByName, gen[Target]}
    /\ \A i \in DOMAIN queue : queue[i][2] = Target => queue[i][3] <= gen[Target]
    /\ \A s \in Siblings : ref[s] = ByName

Excused ==
    \/ job.kind = "backfill" /\ oldImage
    \/ job.kind = "start" /\ job.gen # gen[Target]

\* A decision to recreate a service-anchor stays justified until it is removed:
\* nobody but the watcher starts that very container again.
PlanInv ==
    plan.do = "recreate" /\ pc \in {"work", "remove"} =>
        /\ \A e \in starts : e[1] # Anchor
        /\ job.kind = "start" => job.name = Target
        /\ gen[Anchor] = plan.old /\ Anchor \in joined => Excused

HandlerInv ==
    /\ pc \in Labels
    /\ job \in [kind : {"none", "backfill", "start", "destroy"}, name : {Target, Anchor}, gen : Nat]
    /\ starts \subseteq Children \X Nat
    /\ plan \in [do : {"none", "create", "start", "recreate"}, old : Nat,
                 orphans : SUBSET (Deps \X Nat)]
    /\ dep \in (Deps \X Nat) \cup {NoDep}
    /\ pc \in {"depRemove", "depCreate", "depStart"} => dep \in Deps \X Nat
    /\ pc \in {"list", "idle", "subscribe"} => starts = {}
    /\ pc = "remove" => plan.do = "recreate"
    /\ job.name = Target => job.gen <= gen[Target]
    /\ PlanInv

\* A sibling that waits for a running target is about to be found or started.
WaitInv ==
    ~missed /\ state[Target] = "running" =>
        \A s \in Siblings : state[s] = "created" =>
            \/ pc = "list" /\ job.kind = "backfill"
            \/ pc = "list" /\ job.kind = "start" /\ job.name = Target /\ job.gen = gen[Target]
            \/ <<s, gen[s]>> \in starts
            \/ \E i \in DOMAIN queue : queue[i] = <<"start", Target, gen[Target]>>

\* Nothing is subscribed, and nothing queued, until the backfill is over.
SubInv ==
    /\ pc = "subscribe" \/ job.kind = "backfill" => ~stream /\ queue = <<>>
    /\ pc \in {"subscribe", "idle"} => job.kind = "none"

IInv == WorldInv /\ HandlerInv /\ SubInv /\ WaitInv /\ ops \in 0..MaxOps /\ mishaps \in 0..MaxMishaps

-----------------------------------------------------------------------------
LEMMA NameFacts ==
    ASSUME AutostartAssumption
    PROVE  /\ Target \in Names /\ Anchor \in Children /\ Target # Anchor
           /\ \A d \in Deps : d \in Children /\ d # Anchor /\ d \notin Siblings /\ Parent(d) = Anchor
           /\ \A s \in Siblings : s \in Children /\ s # Anchor /\ Parent(s) = Target
           /\ Parent(Anchor) = Target /\ Parent(Target) = Target
BY DEF AutostartAssumption, Names, Children, Parent

\* What docker appends is an event of the service-anchor, which no bound is on.
LEMMA EmitFacts ==
    ASSUME AutostartAssumption, WorldInv, NEW k \in {"start", "destroy"}, NEW n \in {Target, Anchor},
           gen[Target] <= gen'[Target], gen'[Target] \in Nat,
           queue' = queue \/ queue' = Append(queue, <<k, n, gen[n]>>)
    PROVE  /\ queue' \in Seq(Events)
           /\ \A i \in DOMAIN queue' : queue'[i][2] = Target => queue'[i][3] <= gen'[Target]
           /\ \A i \in DOMAIN queue : i \in DOMAIN queue' /\ queue'[i] = queue[i]
<1>1. queue \in Seq(Events) /\ gen[n] \in Nat /\ gen[Target] \in Nat
  BY NameFacts DEF WorldInv, Children
<1>2. <<k, n, gen[n]>> \in Events
  BY <1>1 DEF Events
<1>3. queue' \in Seq(Events)
  <2>1. ASSUME NEW e \in Events, queue' = Append(queue, e) PROVE queue' \in Seq(Events)
    BY <1>1, <2>1
  <2>2. CASE queue' = queue
    BY <1>1, <2>2
  <2> QED BY <1>2, <2>1, <2>2
<1>4. \A i \in DOMAIN queue : i \in DOMAIN queue' /\ queue'[i] = queue[i]
  BY <1>1, <1>2
<1>5. ASSUME NEW i \in DOMAIN queue', queue'[i][2] = Target PROVE queue'[i][3] <= gen'[Target]
  <2>1. CASE i \in DOMAIN queue
    <3>1. queue[i] \in Events /\ queue'[i] = queue[i]
      BY <1>1, <1>4, <2>1
    <3>2. queue[i][3] \in Nat /\ queue[i][3] <= gen[Target]
      BY <1>5, <2>1, <3>1 DEF WorldInv, Events
    <3> QED BY <1>1, <3>1, <3>2
  <2>2. CASE i \notin DOMAIN queue
    <3>1. queue'[i] = <<k, n, gen[n]>>
      BY <1>1, <1>2, <1>5, <2>2
    <3> QED BY <1>1, <1>5, <3>1
  <2> QED BY <2>1, <2>2
<1> QED BY <1>3, <1>4, <1>5

\* A start that docker grants: the container runs, joined to its parent.
LEMMA StartedWorld ==
    ASSUME AutostartAssumption, WorldInv, NEW n \in Children, NEW g, CanStart(n, g), Started(n)
    PROVE  /\ WorldInv'
           /\ gen' = gen /\ oldImage' = oldImage /\ stream' = stream /\ missed' = missed
           /\ state' = [state EXCEPT ![n] = "running"]
           /\ joined' \subseteq joined \cup {n}
           /\ \A i \in DOMAIN queue : i \in DOMAIN queue' /\ queue'[i] = queue[i]
<1>1. /\ gen' = gen /\ ref' = ref /\ oldImage' = oldImage /\ stream' = stream /\ missed' = missed
      /\ state' = [state EXCEPT ![n] = "running"] /\ joined' \subseteq joined \cup {n}
      /\ queue' = queue \/ queue' = Append(queue, <<"start", Anchor, gen[Anchor]>>)
  BY DEF Started, Emit
<1>2. gen[Target] \in Nat /\ gen' \in [Names -> Nat] /\ ref' \in [Names -> Nat]
      /\ state' \in [Names -> States]
  BY <1>1, NameFacts DEF WorldInv, States, Children
<1>3. /\ queue' \in Seq(Events)
      /\ \A i \in DOMAIN queue' : queue'[i][2] = Target => queue'[i][3] <= gen'[Target]
      /\ \A i \in DOMAIN queue : i \in DOMAIN queue' /\ queue'[i] = queue[i]
  BY <1>1, <1>2, EmitFacts
<1>4. n \in joined' /\ n \notin joined => state[Target] = "running"
  <2>1. n \notin joined /\ n \in joined' /\ n \in Deps => Anchor \in joined
    BY DEF Started
  <2>2. n \notin Deps => state[Target] = "running"
    BY NameFacts DEF CanStart, Parent
  <2> QED BY <2>1, <2>2 DEF WorldInv
<1>5. joined' \subseteq {m \in Children : state'[m] = "running" /\ state'[Target] = "running"}
  <2> SUFFICES ASSUME NEW m \in joined'
               PROVE  m \in Children /\ state'[m] = "running" /\ state'[Target] = "running"
    OBVIOUS
  <2>1. state[Target] = "running" /\ m \in Children
    BY <1>1, <1>4 DEF WorldInv
  <2>2. m = n \/ state[m] = "running"
    BY <1>1 DEF WorldInv
  <2> QED BY <1>1, <2>1, <2>2, NameFacts DEF WorldInv, Children
<1>6. Anchor \in joined' => ref'[Anchor] \in {ByName, gen'[Target]}
  <2>1. CASE n = Anchor
    BY <1>1, <2>1, NameFacts DEF CanStart, Resolves
  <2>2. CASE n # Anchor
    BY <1>1, <2>2 DEF WorldInv
  <2> QED BY <2>1, <2>2
<1>7. adrift' \subseteq Deps
  BY DEF Started, WorldInv
<1>8. \A s \in Siblings : ref'[s] = ByName
  BY <1>1 DEF WorldInv
<1>9. oldImage' \in BOOLEAN /\ stream' \in BOOLEAN /\ missed' \in BOOLEAN
  BY <1>1 DEF WorldInv
<1>10. WorldInv'
  BY <1>2, <1>3, <1>5, <1>6, <1>7, <1>8, <1>9 DEF WorldInv
<1> QED BY <1>1, <1>3, <1>10

\* A container that is gone is in no namespace.
LEMMA RemovedWorld ==
    ASSUME AutostartAssumption, WorldInv, NEW n \in {Anchor} \cup Deps, Removed(n),
           oldImage' = oldImage, missed' \in BOOLEAN, adrift' \subseteq Deps
    PROVE  /\ WorldInv'
           /\ gen' = gen /\ stream' = stream
           /\ state' = [state EXCEPT ![n] = "absent"] /\ joined' \subseteq joined
           /\ \A i \in DOMAIN queue : i \in DOMAIN queue' /\ queue'[i] = queue[i]
<1>1. /\ gen' = gen /\ ref' = [ref EXCEPT ![n] = ByName] /\ stream' = stream
      /\ state' = [state EXCEPT ![n] = "absent"] /\ joined' = joined \ {n}
      /\ queue' = queue \/ queue' = Append(queue, <<"destroy", Anchor, gen[Anchor]>>)
  BY DEF Removed, Emit
<1>2. n \in Children /\ n \notin Siblings
  BY NameFacts
<1>3. gen[Target] \in Nat /\ gen' \in [Names -> Nat] /\ ref' \in [Names -> Nat]
      /\ state' \in [Names -> States]
  BY <1>1, NameFacts DEF WorldInv, States, Children, ByName
<1>4. /\ queue' \in Seq(Events)
      /\ \A i \in DOMAIN queue' : queue'[i][2] = Target => queue'[i][3] <= gen'[Target]
      /\ \A i \in DOMAIN queue : i \in DOMAIN queue' /\ queue'[i] = queue[i]
  BY <1>1, <1>3, EmitFacts
<1>5. joined' \subseteq {m \in Children : state'[m] = "running" /\ state'[Target] = "running"}
  BY <1>1, <1>2, NameFacts DEF WorldInv, Children
<1>6. Anchor \in joined' => ref'[Anchor] \in {ByName, gen'[Target]}
  BY <1>1, NameFacts DEF WorldInv, Children
<1>7. \A s \in Siblings : ref'[s] = ByName
  BY <1>1, <1>2, NameFacts DEF WorldInv, Children
<1>8. oldImage' \in BOOLEAN /\ stream' \in BOOLEAN
  BY <1>1 DEF WorldInv
<1>9. WorldInv'
  BY <1>3, <1>4, <1>5, <1>6, <1>7, <1>8 DEF WorldInv
<1> QED BY <1>1, <1>4, <1>9

\* A container created under a free name runs nowhere yet.
LEMMA CreatedWorld ==
    ASSUME AutostartAssumption, WorldInv, NEW n \in {Anchor} \cup Deps, ~Present(n),
           NEW r \in Nat, Created(n, r), oldImage' \in BOOLEAN,
           UNCHANGED <<joined, stream, queue, missed, adrift>>
    PROVE  /\ WorldInv'
           /\ gen' = [gen EXCEPT ![n] = gen[n] + 1]
           /\ state' = [state EXCEPT ![n] = "created"]
<1>1. /\ gen' = [gen EXCEPT ![n] = gen[n] + 1] /\ ref' = [ref EXCEPT ![n] = r]
      /\ state' = [state EXCEPT ![n] = "created"]
  BY NameFacts DEF Created, WorldInv, Children
<1>2. n \in Children /\ n \notin Siblings /\ n \in Names /\ n # Target
  BY NameFacts DEF Children
<1>3. gen' \in [Names -> Nat] /\ ref' \in [Names -> Nat] /\ state' \in [Names -> States]
  BY <1>1, <1>2 DEF WorldInv, States
<1>4. n \notin joined
  BY DEF WorldInv, Present
<1>5. joined \subseteq {m \in Children : state'[m] = "running" /\ state'[Target] = "running"}
  BY <1>1, <1>2, <1>4, NameFacts DEF WorldInv, Children
<1>6. gen'[Target] = gen[Target]
  BY <1>1, <1>2, NameFacts DEF WorldInv
<1>7. Anchor \in joined => ref'[Anchor] \in {ByName, gen'[Target]}
  BY <1>1, <1>4, <1>6, NameFacts DEF WorldInv, Children
<1>8. \A s \in Siblings : ref'[s] = ByName
  BY <1>1, <1>2, NameFacts DEF WorldInv, Children
<1>9. \A i \in DOMAIN queue : queue[i][2] = Target => queue[i][3] <= gen'[Target]
  BY <1>6 DEF WorldInv
<1>10. WorldInv'
  BY <1>3, <1>5, <1>7, <1>8, <1>9 DEF WorldInv
<1> QED BY <1>1, <1>10

-----------------------------------------------------------------------------
(* What a step has to leave alone for the handler's and the waiting siblings' *)
(* parts of the invariant                                                     *)

LEMMA HandlerKept ==
    ASSUME AutostartAssumption, WorldInv, HandlerInv, WorldInv',
           UNCHANGED <<pc, job, starts, plan, dep, oldImage>>,
           gen[Target] <= gen'[Target], gen'[Anchor] = gen[Anchor],
           Anchor \in joined' => Anchor \in joined /\ gen'[Target] = gen[Target]
    PROVE  HandlerInv'
<1>1. PlanInv'
  BY DEF HandlerInv, PlanInv, Excused
<1>2. job.name = Target => job.gen <= gen'[Target]
  <2>1. gen[Target] \in Nat /\ gen'[Target] \in Nat /\ job.gen \in Nat
    BY NameFacts DEF WorldInv, HandlerInv
  <2> QED BY <2>1 DEF HandlerInv
<1> QED BY <1>1, <1>2 DEF HandlerInv

LEMMA WaitKept ==
    ASSUME WaitInv,
           missed => missed',
           state'[Target] = "running" => state[Target] = "running",
           \A s \in Siblings : state'[s] = "created" => state[s] = "created" /\ gen'[s] = gen[s],
           gen'[Target] = gen[Target],
           pc = "list" => pc' = "list" /\ job' = job,
           \A s \in Siblings : state'[s] = "created" /\ <<s, gen[s]>> \in starts
                                   => <<s, gen[s]>> \in starts',
           \A i \in DOMAIN queue : i \in DOMAIN queue' /\ queue'[i] = queue[i]
    PROVE  WaitInv'
<1> SUFFICES ASSUME ~missed', state'[Target] = "running", NEW s \in Siblings, state'[s] = "created"
             PROVE  \/ pc' = "list" /\ job'.kind = "backfill"
                    \/ pc' = "list" /\ job'.kind = "start" /\ job'.name = Target
                       /\ job'.gen = gen'[Target]
                    \/ <<s, gen'[s]>> \in starts'
                    \/ \E i \in DOMAIN queue' : queue'[i] = <<"start", Target, gen'[Target]>>
  BY DEF WaitInv
<1>1. \/ pc = "list" /\ job.kind = "backfill"
      \/ pc = "list" /\ job.kind = "start" /\ job.name = Target /\ job.gen = gen[Target]
      \/ <<s, gen[s]>> \in starts
      \/ \E i \in DOMAIN queue : queue[i] = <<"start", Target, gen[Target]>>
  BY DEF WaitInv
<1> QED BY <1>1

LEMMA BoundStep ==
    ASSUME AutostartAssumption, IInv, Next
    PROVE  ops' \in 0..MaxOps /\ mishaps' \in 0..MaxMishaps
<1>1. ops' = ops \/ (ops < MaxOps /\ ops' = ops + 1)
  BY DEF Next, Docker, Watch, Restart, TargetStop, TargetRecreate, TargetRemove, TargetStart,
         AnchorRemove, AnchorExit, DepCompose, StreamBreaks, Change, Mishap, BackfillList,
         StartList, GoneList, ListError, StartSibling, StartSiblingFails, Manage, WorkDone,
         StartOld, RemoveOld, CreateAnchor, StartAnchor, ManageFails, NextOrphan, RebindDone,
         RemoveDep, CreateDep, RefuseDep, StartDep, RebindFails, Subscribe, OnStreamError, OnEvent, bounds
<1>2. mishaps' = mishaps \/ (mishaps < MaxMishaps /\ mishaps' = mishaps + 1)
  BY DEF Next, Docker, Watch, Restart, TargetStop, TargetRecreate, TargetRemove, TargetStart,
         AnchorRemove, AnchorExit, DepCompose, StreamBreaks, Change, Mishap, BackfillList,
         StartList, GoneList, ListError, StartSibling, StartSiblingFails, Manage, WorkDone,
         StartOld, RemoveOld, CreateAnchor, StartAnchor, ManageFails, NextOrphan, RebindDone,
         RemoveDep, CreateDep, RefuseDep, StartDep, RebindFails, Subscribe, OnStreamError, OnEvent, bounds
<1> QED BY <1>1, <1>2 DEF IInv, AutostartAssumption

LEMMA SubStep ==
    ASSUME AutostartAssumption, IInv, Next
    PROVE  SubInv'
<1>1. CASE Subscribe
  BY <1>1 DEF Subscribe, Goto, handler, IInv, SubInv
<1>2. CASE OnStreamError
  BY <1>2 DEF OnStreamError, Goto, handler, IInv, SubInv
<1>3. CASE OnEvent
  <2>1. queue[1] \in Events /\ pc' = "list" /\ job'.kind = queue[1][1]
    BY <1>3 DEF OnEvent, IInv, WorldInv
  <2>2. job'.kind \in {"start", "destroy"}
    BY <2>1 DEF Events
  <2> QED BY <2>1, <2>2 DEF SubInv
<1>4. CASE Restart
  BY <1>4 DEF Restart, SubInv
<1>5. CASE Done /\ UNCHANGED sub
  BY <1>5 DEF Done, NoJob, sub, IInv, SubInv
<1>6. CASE /\ UNCHANGED job /\ (pc' = pc \/ pc' \notin {"subscribe", "idle"})
           /\ (~stream => ~stream') /\ (~stream => queue' = queue)
  BY <1>6 DEF IInv, SubInv
<1>7. CASE Docker
  <2>1. /\ UNCHANGED <<pc, job>> /\ (~stream => queue' = queue)
    BY <1>7 DEF Docker, TargetStop, TargetRecreate, TargetRemove, TargetStart, AnchorRemove,
           AnchorExit, DepCompose, StreamBreaks, Change, Removed, Emit, handler
  <2>2. ~stream => ~stream'
    BY <1>7 DEF Docker, TargetStop, TargetRecreate, TargetRemove, TargetStart, AnchorRemove,
           AnchorExit, DepCompose, StreamBreaks, Change
  <2> QED BY <1>6, <2>1, <2>2
<1>8. CASE BackfillList \/ StartList \/ GoneList \/ ListError
  BY <1>5, <1>6, <1>8 DEF BackfillList, StartList, GoneList, ListError, sub
<1>9. CASE WorkDone
  BY <1>5, <1>9 DEF WorkDone
<1>10. CASE \/ Manage \/ ManageFails \/ RebindDone \/ RefuseDep \/ RebindFails
            \/ \E e \in plan.orphans : NextOrphan(e)
            \/ CreateAnchor \/ CreateDep
  BY <1>6, <1>10 DEF Manage, ManageFails, RebindDone, RefuseDep, RebindFails, NextOrphan, CreateAnchor,
                    CreateDep, Managed, handler, sub
<1>11. CASE \/ \E e \in starts : StartSibling(e[1], e[2]) \/ StartSiblingFails(e[1], e[2])
            \/ StartOld \/ StartAnchor \/ StartDep \/ RemoveOld \/ RemoveDep
  <2>1. UNCHANGED job /\ (pc' = pc \/ pc' \notin {"subscribe", "idle"})
    BY <1>11 DEF StartSibling, StartSiblingFails, StartOld, StartAnchor, StartDep, RemoveOld,
                RemoveDep, Managed, Goto, handler
  <2>2. stream' = stream /\ (~stream => queue' = queue)
    BY <1>11 DEF StartSibling, StartSiblingFails, StartOld, StartAnchor, StartDep, RemoveOld,
                RemoveDep, Started, Removed, Emit, sub
  <2> QED BY <1>6, <2>1, <2>2
<1> QED BY <1>1, <1>2, <1>3, <1>4, <1>7, <1>8, <1>9, <1>10, <1>11 DEF Next, Watch

-----------------------------------------------------------------------------
(* Docker's steps *)

LEMMA DockerStep ==
    ASSUME AutostartAssumption, IInv, Docker
    PROVE  WorldInv' /\ HandlerInv' /\ WaitInv'
<1>1. UNCHANGED <<pc, job, starts, plan, dep, oldImage>>
  BY DEF Docker, TargetStop, TargetRecreate, TargetRemove, TargetStart, AnchorRemove, AnchorExit,
         DepCompose, StreamBreaks, Change, handler, world
<1>2. WorldInv /\ HandlerInv /\ WaitInv
  BY DEF IInv
<1>3. gen \in [Names -> Nat] /\ state \in [Names -> States] /\ ref \in [Names -> Nat]
      /\ queue \in Seq(Events)
  BY <1>2 DEF WorldInv
<1>4. CASE TargetStop \/ TargetRemove
  <2>1. /\ UNCHANGED <<gen, ref, oldImage, stream, queue, missed, adrift>> /\ joined' = {}
        /\ state'[Target] # "running" /\ state' \in [Names -> States]
    BY <1>3, <1>4, NameFacts DEF TargetStop, TargetRemove, Change, history, States
  <2>2. WorldInv'
    BY <1>2, <2>1 DEF WorldInv
  <2>3. WaitInv'
    BY <2>1 DEF WaitInv
  <2> QED BY <1>1, <1>2, <1>3, <2>1, <2>2, <2>3, HandlerKept, NameFacts
<1>5. CASE TargetRecreate
  <2>1. /\ UNCHANGED <<oldImage, stream, queue, missed, adrift>> /\ joined' = {}
        /\ gen' = [gen EXCEPT ![Target] = gen[Target] + 1]
        /\ state' = [state EXCEPT ![Target] = "created"] /\ ref' = [ref EXCEPT ![Target] = ByName]
    BY <1>3, <1>5, NameFacts DEF TargetRecreate, Created, Change, history
  <2>2. /\ gen' \in [Names -> Nat] /\ state' \in [Names -> States] /\ ref' \in [Names -> Nat]
        /\ gen[Target] \in Nat /\ gen'[Target] = gen[Target] + 1 /\ gen'[Anchor] = gen[Anchor]
        /\ state'[Target] # "running"
    BY <1>3, <2>1, NameFacts DEF States, ByName, Children
  <2>3. \A i \in DOMAIN queue : queue[i][2] = Target => queue[i][3] <= gen'[Target]
    <3> SUFFICES ASSUME NEW i \in DOMAIN queue, queue[i][2] = Target
                 PROVE  queue[i][3] <= gen'[Target]
      OBVIOUS
    <3>1. queue[i] \in Events /\ queue[i][3] <= gen[Target]
      BY <1>2, <1>3 DEF WorldInv
    <3>2. queue[i][3] \in Nat
      BY <3>1 DEF Events
    <3> QED BY <2>2, <3>1, <3>2
  <2>4. \A s \in Siblings : ref'[s] = ByName
    BY <1>2, <1>3, <2>1, NameFacts DEF WorldInv, Children
  <2>5. WorldInv'
    BY <1>2, <2>1, <2>2, <2>3, <2>4 DEF WorldInv
  <2>6. WaitInv'
    BY <2>2 DEF WaitInv
  <2> QED BY <1>1, <1>2, <2>1, <2>2, <2>5, <2>6, HandlerKept
<1>6. CASE TargetStart
  <2>1. /\ UNCHANGED <<gen, ref, joined, oldImage, stream, adrift>>
        /\ state' = [state EXCEPT ![Target] = "running"] /\ state[Target] # "running"
        /\ queue' = queue \/ queue' = Append(queue, <<"start", Target, gen[Target]>>)
    BY <1>6 DEF TargetStart, Emit, Change
  <2>2. /\ queue' \in Seq(Events)
        /\ \A i \in DOMAIN queue' : queue'[i][2] = Target => queue'[i][3] <= gen'[Target]
    BY <1>2, <1>3, <2>1, EmitFacts, NameFacts
  <2>3. state' \in [Names -> States]
    BY <1>3, <2>1, NameFacts DEF States
  <2>4. missed' \in BOOLEAN
    BY <1>6, Zenon DEF TargetStart
  <2>5. joined = {}
    BY <1>2, <2>1 DEF WorldInv
  <2>6. WorldInv'
    BY <1>2, <2>1, <2>2, <2>3, <2>4, <2>5 DEF WorldInv
  <2>7. HandlerInv'
    BY <1>1, <1>2, <1>3, <2>1, <2>6, HandlerKept, NameFacts
  <2>8. WaitInv'
    <3>1. CASE stream
      <4>1. queue' = Append(queue, <<"start", Target, gen[Target]>>)
        BY <1>6, <3>1 DEF TargetStart, Emit
      <4>2. Len(queue) + 1 \in DOMAIN queue'
            /\ queue'[Len(queue) + 1] = <<"start", Target, gen[Target]>>
        BY <1>3, <4>1
      <4> QED BY <2>1, <4>2 DEF WaitInv
    <3>2. CASE ~stream
      <4>1. ~missed' => pc = "list" /\ job.kind = "backfill"
        BY <1>6, <3>2 DEF TargetStart, Unheard
      <4> QED BY <1>1, <4>1 DEF WaitInv
    <3> QED BY <3>1, <3>2
  <2> QED BY <2>6, <2>7, <2>8
<1>7. CASE AnchorRemove
  <2>1. Removed(Anchor) /\ oldImage' = oldImage /\ (missed => missed')
    BY <1>7 DEF AnchorRemove
  <2>2. missed' \in BOOLEAN
    BY <1>7, Zenon DEF AnchorRemove
  <2>3. adrift' \subseteq Deps
    BY <1>2, <1>7 DEF AnchorRemove, WorldInv
  <2>4. /\ WorldInv'
        /\ gen' = gen /\ stream' = stream
        /\ state' = [state EXCEPT ![Anchor] = "absent"] /\ joined' \subseteq joined
        /\ \A i \in DOMAIN queue : i \in DOMAIN queue' /\ queue'[i] = queue[i]
    BY <1>2, <2>1, <2>2, <2>3, RemovedWorld
  <2>5. HandlerInv'
    BY <1>1, <1>2, <1>3, <2>4, HandlerKept, NameFacts
  <2>6. WaitInv'
    BY <1>1, <1>2, <1>3, <2>1, <2>4, WaitKept, NameFacts DEF Children
  <2> QED BY <2>4, <2>5, <2>6
<1>8. CASE AnchorExit
  <2>1. /\ UNCHANGED <<gen, ref, oldImage, stream, queue, missed>> /\ adrift' \subseteq Deps
        /\ state' = [state EXCEPT ![Anchor] = "exited"] /\ joined' = joined \ {Anchor}
    BY <1>2, <1>8 DEF AnchorExit, Change, WorldInv
  <2>2. state' \in [Names -> States]
    BY <1>3, <2>1 DEF States
  <2>3. joined' \subseteq {n \in Children : state'[n] = "running" /\ state'[Target] = "running"}
    BY <1>2, <1>3, <2>1, NameFacts DEF WorldInv, Children
  <2>4. WorldInv'
    BY <1>2, <2>1, <2>2, <2>3 DEF WorldInv
  <2>5. HandlerInv'
    BY <1>1, <1>2, <1>3, <2>1, <2>4, HandlerKept, NameFacts
  <2>6. WaitInv'
    BY <1>1, <1>2, <1>3, <2>1, WaitKept, NameFacts DEF Children
  <2> QED BY <2>4, <2>5, <2>6
<1>9. ASSUME NEW d \in Deps, DepCompose(d) PROVE WorldInv' /\ HandlerInv' /\ WaitInv'
  <2>1. d \in Names /\ d # Target /\ d # Anchor /\ d \notin Siblings /\ d \in Children
    BY NameFacts DEF Children
  <2>2. /\ UNCHANGED <<oldImage, stream, queue, missed>>
        /\ gen' = [gen EXCEPT ![d] = gen[d] + 1] /\ state' = [state EXCEPT ![d] = "running"]
        /\ ref' = [ref EXCEPT ![d] = gen[Anchor]]
        /\ joined' = (IF Anchor \in joined THEN joined \cup {d} ELSE joined \ {d})
    BY <1>3, <1>9, <2>1 DEF DepCompose, Change
  <2>3. /\ gen' \in [Names -> Nat] /\ state' \in [Names -> States] /\ ref' \in [Names -> Nat]
        /\ gen'[Target] = gen[Target] /\ gen'[Anchor] = gen[Anchor] /\ ref'[Anchor] = ref[Anchor]
        /\ gen[Target] \in Nat
    BY <1>3, <2>1, <2>2, NameFacts DEF States, Children
  <2>4. joined' \subseteq {n \in Children : state'[n] = "running" /\ state'[Target] = "running"}
    BY <1>2, <1>3, <2>1, <2>2, NameFacts DEF WorldInv, Children
  <2>5. adrift' \subseteq Deps /\ \A s \in Siblings : ref'[s] = ByName
    BY <1>2, <1>3, <1>9, <2>1, <2>2, NameFacts DEF DepCompose, WorldInv, Children
  <2>6. WorldInv'
    BY <1>2, <2>1, <2>2, <2>3, <2>4, <2>5 DEF WorldInv
  <2>7. HandlerInv'
    BY <1>1, <1>2, <2>1, <2>2, <2>3, <2>6, HandlerKept
  <2>8. \A s \in Siblings : state'[s] = state[s] /\ gen'[s] = gen[s]
    BY <1>3, <2>1, <2>2, NameFacts DEF Children
  <2>9. WaitInv'
    BY <1>1, <1>2, <1>3, <2>1, <2>2, <2>3, <2>8, WaitKept, NameFacts
  <2> QED BY <2>6, <2>7, <2>9
<1>10. CASE StreamBreaks
  <2>1. UNCHANGED <<gen, state, ref, joined, oldImage, queue, missed, adrift>> /\ stream' = FALSE
    BY <1>10 DEF StreamBreaks, world, history
  <2>2. WorldInv'
    BY <1>2, <2>1 DEF WorldInv
  <2>3. HandlerInv'
    BY <1>1, <1>2, <1>3, <2>1, <2>2, HandlerKept, NameFacts
  <2>4. WaitInv'
    BY <1>1, <1>2, <2>1 DEF WaitInv
  <2> QED BY <2>2, <2>3, <2>4
<1> QED BY <1>4, <1>5, <1>6, <1>7, <1>8, <1>9, <1>10 DEF Docker

-----------------------------------------------------------------------------
(* The lists *)

PlanType == [do : {"none", "create", "start", "recreate"}, old : Nat, orphans : SUBSET (Deps \X Nat)]

LEMMA NothingFacts ==
    ASSUME AutostartAssumption, WorldInv
    PROVE  /\ NoPlan \in PlanType /\ NoPlan.do = "none"
           /\ NoJob \in [kind : {"none", "backfill", "start", "destroy"}, name : {Target, Anchor}, gen : Nat]
           /\ NoJob.kind = "none" /\ NoJob.gen <= gen[Target]
<1>1. gen[Target] \in Nat
  BY NameFacts DEF WorldInv
<1> QED BY <1>1 DEF NoPlan, NoJob, PlanType

\* A running service-anchor that is in place is recreated only for its image, or
\* for the start of a target that is no longer the present one.
LEMMA PlanFacts ==
    ASSUME AutostartAssumption, WorldInv, NEW g \in Nat, NEW b \in BOOLEAN
    PROVE  /\ maybeManage(g, b) \in PlanType
           /\ maybeManage(g, b).do = "recreate" =>
                 /\ state[Anchor] = "running"
                 /\ Anchor \in joined => gen[Target] # g \/ (b /\ oldImage)
<1>1. findOrphanCandidates \in SUBSET (Deps \X Nat) /\ gen[Anchor] \in Nat
      /\ {} \in SUBSET (Deps \X Nat)
  BY NameFacts DEF findOrphanCandidates, WorldInv, Children
<1>2. Anchor \in joined => Resolves(Anchor)
  BY NameFacts DEF WorldInv, Resolves, Present
<1>3. state[Anchor] \in States
  BY NameFacts DEF WorldInv, Children
<1>4. CASE state[Anchor] = "absent"
  BY <1>1, <1>4, NothingFacts DEF maybeManage, PlanType
<1>5. CASE state[Anchor] = "running"
  <2>1. CASE saTargetsStaleNetns(g) \/ (b /\ oldImage)
    BY <1>1, <1>2, <1>5, <2>1 DEF maybeManage, PlanType, saTargetsStaleNetns
  <2>2. CASE ~(saTargetsStaleNetns(g) \/ (b /\ oldImage))
    BY <1>5, <2>2, NothingFacts DEF maybeManage
  <2> QED BY <2>1, <2>2
<1>6. CASE state[Anchor] = "created"
  BY <1>6, NothingFacts DEF maybeManage
<1>7. CASE state[Anchor] = "exited"
  BY <1>1, <1>7, NothingFacts DEF maybeManage, PlanType
<1> QED BY <1>3, <1>4, <1>5, <1>6, <1>7 DEF States

\* The list finds every sibling that waits for the target, and only children.
LEMMA MatchFacts ==
    ASSUME AutostartAssumption, WorldInv, NEW t \in {Target, Anchor}, NEW g \in Nat
    PROVE  /\ matchSiblings(t, g) \subseteq Children \X Nat
           /\ \A e \in matchSiblings(t, g) : state[e[1]] = "created"
           /\ \A s \in Siblings : state[s] = "created" => <<s, gen[s]>> \in matchSiblings(Target, g)
<1>1. matchSiblings(t, g) \subseteq Children \X Nat
  BY DEF matchSiblings, Children, WorldInv
<1>2. \A e \in matchSiblings(t, g) : state[e[1]] = "created"
  BY DEF matchSiblings
<1>3. ASSUME NEW s \in Siblings, state[s] = "created"
      PROVE  <<s, gen[s]>> \in matchSiblings(Target, g)
  <2>1. s \in Names \ {Target} /\ Parent(s) = Target /\ ref[s] = ByName
    BY NameFacts DEF WorldInv, Children
  <2> QED BY <1>3, <2>1 DEF matchSiblings
<1> QED BY <1>1, <1>2, <1>3

LEMMA ListStep ==
    ASSUME AutostartAssumption, IInv, BackfillList \/ StartList \/ GoneList \/ ListError
    PROVE  WorldInv' /\ HandlerInv' /\ WaitInv'
<1>1. UNCHANGED <<gen, state, ref, joined, oldImage, stream, queue, adrift>> /\ pc = "list"
  BY DEF BackfillList, StartList, GoneList, ListError, world, sub, history
<1>2. /\ WorldInv /\ HandlerInv /\ WaitInv /\ starts = {} /\ gen[Target] \in Nat /\ job.gen \in Nat
      /\ job.name \in {Target, Anchor}
  BY <1>1, NameFacts DEF IInv, HandlerInv, WorldInv
<1>3. missed' \in BOOLEAN /\ (missed => missed')
  BY <1>2 DEF BackfillList, StartList, GoneList, ListError, history, WorldInv
<1>4. WorldInv'
  BY <1>1, <1>2, <1>3 DEF WorldInv
<1>5. CASE Done
  <2>1. /\ pc' \in {"subscribe", "idle"} /\ job' = NoJob /\ starts' = {} /\ plan' = NoPlan
        /\ dep' = NoDep
    BY <1>5 DEF Done
  <2>2. HandlerInv'
    BY <1>1, <1>2, <2>1, NothingFacts DEF HandlerInv, PlanInv, PlanType, Labels
  <2>3. ASSUME ~missed', state[Target] = "running" PROVE FALSE
    BY <1>5, <2>3, <2>1, <1>1 DEF BackfillList, StartList, GoneList, ListError, Done
  <2> QED BY <1>1, <1>4, <2>2, <2>3 DEF WaitInv
<1>6. CASE BackfillList
  <2>1. /\ pc' = "work" /\ UNCHANGED <<job, dep>> /\ job.kind = "backfill"
        /\ starts' = UNION {matchSiblings(t, gen[t]) : t \in {u \in {Target, Anchor} : state[u] = "running"}}
        /\ \E b \in BOOLEAN : plan' \in {maybeManage(gen[Target], b), NoPlan}
    BY <1>6 DEF BackfillList
  <2>2. gen[Anchor] \in Nat
    BY <1>2, NameFacts DEF WorldInv, Children
  <2>3. starts' \subseteq Children \X Nat /\ \A e \in starts' : state[e[1]] = "created"
    BY <1>2, <2>1, <2>2, MatchFacts
  <2>4. plan' \in PlanType
        /\ (plan'.do = "recreate" => state[Anchor] = "running" /\ (Anchor \in joined => oldImage))
    BY <1>2, <2>1, PlanFacts, NothingFacts
  <2>5. PlanInv'
    BY <1>1, <2>1, <2>3, <2>4 DEF PlanInv, Excused
  <2>6. HandlerInv'
    BY <1>1, <1>2, <2>1, <2>3, <2>4, <2>5 DEF HandlerInv, Labels, PlanType
  <2>7. WaitInv'
    <3> SUFFICES ASSUME state[Target] = "running", NEW s \in Siblings, state[s] = "created"
                 PROVE  <<s, gen[s]>> \in starts'
      BY <1>1 DEF WaitInv
    <3>1. <<s, gen[s]>> \in matchSiblings(Target, gen[Target])
      BY <1>2, MatchFacts
    <3> QED BY <2>1, <3>1
  <2> QED BY <1>4, <2>6, <2>7
<1>7. CASE StartList
  <2>1. /\ pc' = "work" /\ UNCHANGED <<job, dep, missed>> /\ job.kind = "start"
        /\ starts' = matchSiblings(job.name, job.gen)
        /\ plan' = IF job.name = Target THEN maybeManage(job.gen, FALSE) ELSE NoPlan
    BY <1>7 DEF StartList, history
  <2>2. starts' \subseteq Children \X Nat /\ \A e \in starts' : state[e[1]] = "created"
    BY <1>2, <2>1, MatchFacts
  <2>3. /\ plan' \in PlanType
        /\ plan'.do = "recreate" => /\ state[Anchor] = "running" /\ job.name = Target
                                    /\ Anchor \in joined => gen[Target] # job.gen
    BY <1>2, <2>1, PlanFacts, NothingFacts
  <2>4. PlanInv'
    BY <1>1, <2>1, <2>2, <2>3 DEF PlanInv, Excused
  <2>5. HandlerInv'
    BY <1>1, <1>2, <2>1, <2>2, <2>3, <2>4 DEF HandlerInv, Labels, PlanType
  <2>6. WaitInv'
    <3> SUFFICES ASSUME ~missed, state[Target] = "running", NEW s \in Siblings, state[s] = "created"
                 PROVE  \/ <<s, gen[s]>> \in starts'
                        \/ \E i \in DOMAIN queue : queue[i] = <<"start", Target, gen[Target]>>
      BY <1>1, <2>1 DEF WaitInv
    <3>1. \/ job.name = Target /\ job.gen = gen[Target]
          \/ \E i \in DOMAIN queue : queue[i] = <<"start", Target, gen[Target]>>
      BY <1>2, <2>1 DEF WaitInv
    <3>2. <<s, gen[s]>> \in matchSiblings(Target, gen[Target])
      BY <1>2, MatchFacts
    <3> QED BY <2>1, <3>1, <3>2
  <2> QED BY <1>4, <2>5, <2>6
<1>8. CASE GoneList /\ ~Done
  <2>1. /\ pc' = "work" /\ UNCHANGED <<job, starts, dep, missed>> /\ job.kind = "destroy"
        /\ plan' = maybeManage(gen[Target], FALSE)
    BY <1>8 DEF GoneList, history
  <2>2. /\ plan' \in PlanType
        /\ plan'.do = "recreate" => Anchor \notin joined
    BY <1>2, <2>1, PlanFacts
  <2>3. PlanInv'
    BY <1>1, <1>2, <2>1, <2>2 DEF PlanInv
  <2>4. HandlerInv'
    BY <1>1, <1>2, <2>1, <2>2, <2>3 DEF HandlerInv, Labels, PlanType
  <2>5. WaitInv'
    BY <1>1, <1>2, <2>1 DEF WaitInv
  <2> QED BY <1>4, <2>4, <2>5
<1> QED BY <1>5, <1>6, <1>7, <1>8 DEF ListError

-----------------------------------------------------------------------------
(* Starting siblings and managing the service-anchor *)

LEMMA SiblingStep ==
    ASSUME AutostartAssumption, IInv, NEW e \in starts,
           StartSibling(e[1], e[2]) \/ StartSiblingFails(e[1], e[2])
    PROVE  WorldInv' /\ HandlerInv' /\ WaitInv'
<1> DEFINE n == e[1]
           g == e[2]
<1>1. /\ pc = "work" /\ UNCHANGED <<pc, job, plan, dep>> /\ starts' = starts \ {e}
      /\ WorldInv /\ HandlerInv /\ WaitInv
      /\ n \in Children /\ e = <<n, g>>
  BY DEF StartSibling, StartSiblingFails, IInv, HandlerInv
<1>2. CASE StartSibling(n, g) /\ CanStart(n, g)
  <2>1. Started(n)
    BY <1>2 DEF StartSibling
  <2>2. /\ WorldInv'
        /\ gen' = gen /\ oldImage' = oldImage /\ stream' = stream /\ missed' = missed
        /\ state' = [state EXCEPT ![n] = "running"]
        /\ joined' \subseteq joined \cup {n}
        /\ \A i \in DOMAIN queue : i \in DOMAIN queue' /\ queue'[i] = queue[i]
    BY <1>1, <1>2, <2>1, StartedWorld
  <2>3. PlanInv'
    BY <1>1, <2>2 DEF HandlerInv, PlanInv, Excused
  <2>4. HandlerInv'
    BY <1>1, <2>2, <2>3 DEF HandlerInv
  <2>5. \A s \in Siblings : state'[s] = "created" => s # n /\ state[s] = "created"
    BY <1>1, <2>2, NameFacts DEF WorldInv, Children
  <2>6. state'[Target] = state[Target]
    BY <1>1, <2>2, NameFacts DEF WorldInv, Children
  <2>7. WaitInv'
    BY <1>1, <2>2, <2>5, <2>6, WaitKept
  <2> QED BY <2>2, <2>4, <2>7
<1>3. CASE StartSibling(n, g) /\ ~CanStart(n, g)
  <2>1. UNCHANGED <<gen, state, ref, joined, oldImage, stream, queue, missed, adrift>>
    BY <1>3 DEF StartSibling, world, sub, history
  <2>2. WorldInv'
    BY <1>1, <2>1 DEF WorldInv
  <2>3. PlanInv'
    BY <1>1, <2>1 DEF HandlerInv, PlanInv, Excused
  <2>4. HandlerInv'
    BY <1>1, <2>1, <2>3 DEF HandlerInv
  <2>5. ASSUME NEW s \in Siblings, state[s] = "created", state[Target] = "running"
        PROVE  e # <<s, gen[s]>>
    BY <1>1, <1>3, <2>5, NameFacts DEF CanStart, Present, Resolves, WorldInv, Children
  <2>6. WaitInv'
    BY <1>1, <2>1, <2>5 DEF WaitInv
  <2> QED BY <2>2, <2>4, <2>6
<1>4. CASE StartSiblingFails(n, g)
  <2>1. UNCHANGED <<gen, state, ref, joined, oldImage, stream, queue, adrift>> /\ missed' = TRUE
    BY <1>4 DEF StartSiblingFails, world, sub
  <2>2. WorldInv'
    BY <1>1, <2>1 DEF WorldInv
  <2>3. PlanInv'
    BY <1>1, <2>1 DEF HandlerInv, PlanInv, Excused
  <2>4. HandlerInv'
    BY <1>1, <2>1, <2>3 DEF HandlerInv
  <2>5. WaitInv'
    BY <2>1 DEF WaitInv
  <2> QED BY <2>2, <2>4, <2>5
<1> QED BY <1>2, <1>3, <1>4

\* Steps between docker calls, and calls that fail.
LEMMA TurnStep ==
    ASSUME AutostartAssumption, IInv,
           \/ Manage \/ WorkDone \/ ManageFails \/ RebindDone \/ RefuseDep \/ RebindFails
           \/ \E e \in plan.orphans : NextOrphan(e)
    PROVE  WorldInv' /\ HandlerInv' /\ WaitInv'
<1>1. /\ UNCHANGED <<gen, state, ref, joined, oldImage, stream, queue>>
      /\ pc \in {"work", "create", "start", "startOld", "remove", "rebind", "depRemove", "depCreate",
                 "depStart"}
      /\ WorldInv /\ HandlerInv /\ WaitInv
  BY DEF Manage, WorkDone, ManageFails, RebindDone, RefuseDep, RebindFails, NextOrphan, world, sub, IInv
<1>2. missed' \in BOOLEAN /\ (missed => missed')
  BY <1>1 DEF Manage, WorkDone, ManageFails, RebindDone, RefuseDep, RebindFails, NextOrphan, history, WorldInv
<1>3. adrift' \subseteq Deps
  <2>1. \A e \in plan.orphans : e[1] \in Deps
    BY <1>1 DEF HandlerInv
  <2>2. pc \in {"depRemove", "depCreate", "depStart"} => dep[1] \in Deps
    BY <1>1 DEF HandlerInv
  <2> QED BY <1>1, <2>1, <2>2
          DEF Manage, WorkDone, ManageFails, RebindDone, RefuseDep, RebindFails, NextOrphan, history, WorldInv
<1>4. WorldInv'
  BY <1>1, <1>2, <1>3 DEF WorldInv
<1>5. starts' = starts
  BY <1>1 DEF Manage, WorkDone, ManageFails, RebindDone, RefuseDep, RebindFails, NextOrphan, handler, Done,
              Managed
<1>6. WaitInv'
  BY <1>1, <1>2, <1>5, WaitKept
<1>7. CASE Manage
  <2>1. /\ UNCHANGED <<job, starts, plan, dep>> /\ pc = "work"
        /\ pc' \in {"create", "remove", "startOld"} /\ (pc' = "remove" => plan.do = "recreate")
    BY <1>7 DEF Manage, handler
  <2>2. PlanInv'
    BY <1>1, <2>1 DEF HandlerInv, PlanInv, Excused
  <2> QED BY <1>1, <1>4, <1>6, <2>1, <2>2 DEF HandlerInv, Labels
<1>8. CASE WorkDone
  <2>1. /\ pc' \in {"subscribe", "idle"} /\ job' = NoJob /\ starts' = {} /\ plan' = NoPlan
        /\ dep' = NoDep
    BY <1>8 DEF WorkDone, Done
  <2>2. HandlerInv'
    BY <1>1, <2>1, NothingFacts DEF HandlerInv, PlanInv, PlanType, Labels
  <2> QED BY <1>4, <1>6, <2>2
<1>9. CASE ManageFails \/ RebindDone
  <2>1. pc' = "work" /\ plan' = NoPlan /\ dep' = NoDep /\ UNCHANGED <<job, starts>>
    BY <1>9 DEF ManageFails, RebindDone, Managed
  <2>2. HandlerInv'
    BY <1>1, <2>1, NothingFacts DEF HandlerInv, PlanInv, PlanType, Labels
  <2> QED BY <1>4, <1>6, <2>2
<1>10. CASE RefuseDep \/ RebindFails
  <2>1. pc' = "rebind" /\ dep' = NoDep /\ UNCHANGED <<job, starts, plan>>
    BY <1>10 DEF RefuseDep, RebindFails
  <2>2. HandlerInv'
    BY <1>1, <2>1 DEF HandlerInv, PlanInv, Labels
  <2> QED BY <1>4, <1>6, <2>2
<1>11. ASSUME NEW e \in plan.orphans, NextOrphan(e) PROVE WorldInv' /\ HandlerInv' /\ WaitInv'
  <2>1. /\ pc' = "depRemove" /\ dep' = e /\ UNCHANGED <<job, starts>>
        /\ plan' = [plan EXCEPT !.orphans = plan.orphans \ {e}]
    BY <1>1, <1>11 DEF NextOrphan, HandlerInv
  <2>2. e \in Deps \X Nat /\ plan' \in PlanType
    BY <1>1, <2>1 DEF HandlerInv, PlanType
  <2>3. HandlerInv'
    BY <1>1, <2>1, <2>2 DEF HandlerInv, PlanInv, PlanType, Labels
  <2> QED BY <1>4, <1>6, <2>3
<1> QED BY <1>7, <1>8, <1>9, <1>10, <1>11

\* The starts the watcher asks for itself.
LEMMA StartStep ==
    ASSUME AutostartAssumption, IInv, StartOld \/ StartAnchor \/ StartDep
    PROVE  WorldInv' /\ HandlerInv' /\ WaitInv'
<1>1. /\ pc \in {"startOld", "start", "depStart"} /\ UNCHANGED <<job, starts>>
      /\ WorldInv /\ HandlerInv /\ WaitInv
  BY DEF StartOld, StartAnchor, StartDep, Managed, Goto, handler, IInv
<1>2. /\ \/ pc' = "work" /\ plan' = NoPlan /\ dep' = NoDep
         \/ pc' = "rebind" /\ plan' = plan /\ dep' = dep
         \/ pc' = "rebind" /\ plan' = plan /\ dep' = NoDep
  BY DEF StartOld, StartAnchor, StartDep, Managed, Goto, handler
<1>3. CASE UNCHANGED <<world, sub, history>>
  <2>1. UNCHANGED <<gen, state, ref, joined, oldImage, stream, queue, missed, adrift>>
    BY <1>3 DEF world, sub, history
  <2>2. WorldInv'
    BY <1>1, <2>1 DEF WorldInv
  <2>3. WaitInv'
    BY <1>1, <2>1, WaitKept
  <2>4. HandlerInv'
    BY <1>1, <1>2, <2>1, NothingFacts DEF HandlerInv, PlanInv, PlanType, Labels
  <2> QED BY <2>2, <2>3, <2>4
<1>4. ASSUME NEW n \in {Anchor} \cup Deps, NEW g, CanStart(n, g), Started(n)
      PROVE  WorldInv' /\ HandlerInv' /\ WaitInv'
  <2>1. n \in Children /\ n \notin Siblings
    BY NameFacts
  <2>2. /\ WorldInv'
        /\ gen' = gen /\ oldImage' = oldImage /\ stream' = stream /\ missed' = missed
        /\ state' = [state EXCEPT ![n] = "running"]
        /\ \A i \in DOMAIN queue : i \in DOMAIN queue' /\ queue'[i] = queue[i]
    BY <1>1, <1>4, <2>1, StartedWorld
  <2>3. state'[Target] = state[Target] /\ \A s \in Siblings : state'[s] = state[s]
    BY <1>1, <2>1, <2>2, NameFacts DEF WorldInv, Children
  <2>4. WaitInv'
    BY <1>1, <2>2, <2>3, WaitKept
  <2>5. HandlerInv'
    BY <1>1, <1>2, <2>2, NothingFacts DEF HandlerInv, PlanInv, PlanType, Labels
  <2> QED BY <2>2, <2>4, <2>5
<1>5. \/ UNCHANGED <<world, sub, history>>
      \/ \E n \in {Anchor} \cup Deps : \E g \in Nat : CanStart(n, g) /\ Started(n)
  <2>1. plan.old \in Nat /\ (pc = "depStart" => dep[1] \in Deps /\ dep[2] \in Nat)
    BY <1>1 DEF HandlerInv
  <2> QED BY <2>1 DEF StartOld, StartAnchor, StartDep
<1> QED BY <1>3, <1>4, <1>5

\* What the watcher takes away and creates.
LEMMA ReplaceStep ==
    ASSUME AutostartAssumption, IInv, RemoveOld \/ RemoveDep \/ CreateAnchor \/ CreateDep
    PROVE  WorldInv' /\ HandlerInv' /\ WaitInv'
<1>1. /\ pc \in {"remove", "depRemove", "create", "depCreate"} /\ UNCHANGED <<job, starts, missed, adrift>>
      /\ WorldInv /\ HandlerInv /\ WaitInv
      /\ pc' \in {"create", "depCreate", "start", "depStart"}
  BY DEF RemoveOld, RemoveDep, CreateAnchor, CreateDep, Goto, handler, history, IInv
<1>2. gen[Target] \in Nat /\ gen[Anchor] \in Nat
      /\ (pc \in {"depRemove", "depCreate"} => dep \in Deps \X Nat /\ dep[1] \in Deps)
      /\ plan \in PlanType
  BY <1>1, NameFacts DEF WorldInv, HandlerInv, Children, PlanType
<1>3. ASSUME pc' \in {"create", "start"} \/ dep' \in Deps \X Nat, dep' \in (Deps \X Nat) \cup {NoDep},
             plan' \in PlanType, gen'[Target] = gen[Target]
      PROVE  HandlerInv'
  BY <1>1, <1>3 DEF HandlerInv, PlanInv, PlanType, Labels
<1>4. ASSUME WorldInv', gen'[Target] = gen[Target], state'[Target] = state[Target],
             \A s \in Siblings : state'[s] = state[s] /\ gen'[s] = gen[s],
             \A i \in DOMAIN queue : i \in DOMAIN queue' /\ queue'[i] = queue[i]
      PROVE  WaitInv'
  BY <1>1, <1>4, WaitKept
<1>5. ASSUME NEW n \in {Anchor} \cup Deps, Removed(n), oldImage' = oldImage,
             pc' = "create" \/ dep' \in Deps \X Nat, dep' \in (Deps \X Nat) \cup {NoDep}, plan' = plan
      PROVE  WorldInv' /\ HandlerInv' /\ WaitInv'
  <2>1. n \in Children /\ n \notin Siblings
    BY NameFacts
  <2>2. missed' \in BOOLEAN /\ adrift' \subseteq Deps
    BY <1>1 DEF WorldInv
  <2>3. /\ WorldInv' /\ gen' = gen
        /\ state' = [state EXCEPT ![n] = "absent"]
        /\ \A i \in DOMAIN queue : i \in DOMAIN queue' /\ queue'[i] = queue[i]
    BY <1>1, <1>5, <2>2, RemovedWorld
  <2>4. state'[Target] = state[Target] /\ \A s \in Siblings : state'[s] = state[s]
    BY <1>1, <2>1, <2>3, NameFacts DEF WorldInv, Children
  <2> QED BY <1>2, <1>3, <1>4, <1>5, <2>3, <2>4
<1>6. ASSUME NEW n \in {Anchor} \cup Deps, ~Present(n), NEW r \in Nat, Created(n, r),
             oldImage' \in BOOLEAN, UNCHANGED <<joined, stream, queue>>,
             pc' = "start" \/ dep' \in Deps \X Nat, dep' \in (Deps \X Nat) \cup {NoDep},
             plan' \in PlanType
      PROVE  WorldInv' /\ HandlerInv' /\ WaitInv'
  <2>1. n \in Children /\ n \notin Siblings
    BY NameFacts
  <2>2. /\ WorldInv' /\ gen' = [gen EXCEPT ![n] = gen[n] + 1]
        /\ state' = [state EXCEPT ![n] = "created"]
    BY <1>1, <1>6, CreatedWorld
  <2>3. /\ gen'[Target] = gen[Target] /\ state'[Target] = state[Target]
        /\ \A s \in Siblings : state'[s] = state[s] /\ gen'[s] = gen[s]
    BY <1>1, <2>1, <2>2, NameFacts DEF WorldInv, Children
  <2> QED BY <1>3, <1>4, <1>6, <2>2, <2>3
<1>7. CASE RemoveOld
  <2>1. pc' = "create" /\ UNCHANGED <<plan, dep>> /\ dep \in (Deps \X Nat) \cup {NoDep}
    BY <1>1, <1>7 DEF RemoveOld, Goto, handler, HandlerInv
  <2>2. CASE Removed(Anchor) /\ UNCHANGED oldImage
    BY <1>5, <2>1, <2>2
  <2>3. CASE UNCHANGED <<world, sub>>
    <3>1. UNCHANGED <<gen, state, ref, joined, oldImage, stream, queue>>
      BY <2>3 DEF world, sub
    <3>2. WorldInv'
      BY <1>1, <3>1 DEF WorldInv
    <3> QED BY <1>2, <1>3, <1>4, <2>1, <3>1, <3>2
  <2> QED BY <1>7, <2>2, <2>3 DEF RemoveOld
<1>8. CASE RemoveDep
  <2>1. Removed(dep[1]) /\ oldImage' = oldImage /\ UNCHANGED <<plan, dep>> /\ pc = "depRemove"
    BY <1>8 DEF RemoveDep, Goto, handler
  <2> QED BY <1>2, <1>5, <2>1
<1>9. CASE CreateAnchor
  <2>1. /\ pc' = "start" /\ UNCHANGED <<dep, joined, stream, queue>> /\ ~Present(Anchor)
        /\ Created(Anchor, IF Present(Target) THEN gen[Target] ELSE ByName)
        /\ oldImage' \in BOOLEAN /\ plan' = [plan EXCEPT !.old = gen[Anchor] + 1]
    BY <1>9 DEF CreateAnchor, sub
  <2>2. plan' \in PlanType /\ dep \in (Deps \X Nat) \cup {NoDep}
    BY <1>1, <1>2, <2>1 DEF PlanType, HandlerInv
  <2>3. (IF Present(Target) THEN gen[Target] ELSE ByName) \in Nat
    BY <1>2 DEF ByName
  <2> QED BY <1>6, <2>1, <2>2, <2>3
<1>10. CASE CreateDep
  <2>1. /\ UNCHANGED <<plan, joined, oldImage, stream, queue>> /\ ~Present(dep[1]) /\ pc = "depCreate"
        /\ Created(dep[1], plan.old) /\ dep' = <<dep[1], gen[dep[1]] + 1>>
    BY <1>10 DEF CreateDep, sub
  <2>2. dep[1] \in Deps /\ gen[dep[1]] \in Nat /\ plan.old \in Nat /\ oldImage \in BOOLEAN
    BY <1>1, <1>2, <2>1, NameFacts DEF WorldInv, Children, PlanType
  <2>3. dep' \in Deps \X Nat
    BY <2>1, <2>2
  <2> QED BY <1>2, <1>6, <2>1, <2>2, <2>3
<1> QED BY <1>7, <1>8, <1>9, <1>10

-----------------------------------------------------------------------------
(* Run and consume, and the start of the process *)

LEMMA LoopStep ==
    ASSUME AutostartAssumption, IInv, Subscribe \/ OnStreamError \/ OnEvent \/ Restart
    PROVE  WorldInv' /\ HandlerInv' /\ WaitInv'
<1>1. WorldInv /\ HandlerInv /\ WaitInv /\ gen[Target] \in Nat /\ queue \in Seq(Events)
  BY NameFacts DEF IInv, WorldInv
<1>2. CASE Subscribe
  <2>1. /\ UNCHANGED <<gen, state, ref, joined, oldImage, missed, adrift, job, starts, plan, dep>>
        /\ stream' = TRUE /\ queue' = <<>> /\ pc = "subscribe" /\ pc' = "idle"
    BY <1>2 DEF Subscribe, Goto, handler, world, history
  <2>2. stream' \in BOOLEAN
    BY <2>1
  <2>3. queue' \in Seq(Events) /\ DOMAIN queue' = {}
    BY <2>1
  <2>4. WorldInv'
    BY <1>1, <2>1, <2>2, <2>3 DEF WorldInv
  <2>5. HandlerInv'
    BY <1>1, <2>1 DEF HandlerInv, PlanInv, Labels
  <2>6. \A s \in Siblings : ~missed /\ state[Target] = "running" => state[s] # "created"
                            \/ \E i \in DOMAIN queue : queue[i] = <<"start", Target, gen[Target]>>
    BY <1>1, <2>1 DEF WaitInv, HandlerInv
  <2>7. queue = <<>>
    BY <2>1 DEF IInv, SubInv
  <2>8. WaitInv'
    BY <2>1, <2>6, <2>7 DEF WaitInv
  <2> QED BY <2>4, <2>5, <2>8
<1>3. CASE OnStreamError
  <2>1. /\ UNCHANGED <<gen, state, ref, joined, oldImage, stream, adrift, job, starts, plan, dep>>
        /\ queue' = <<>> /\ pc = "idle" /\ pc' = "subscribe" /\ missed' = (missed \/ queue # <<>>)
    BY <1>3 DEF OnStreamError, Goto, handler, world
  <2>2. missed' \in BOOLEAN
    BY <2>1, Zenon
  <2>3. queue' \in Seq(Events) /\ DOMAIN queue' = {}
    BY <2>1
  <2>4. WorldInv'
    BY <1>1, <2>1, <2>2, <2>3 DEF WorldInv
  <2>5. HandlerInv'
    BY <1>1, <2>1 DEF HandlerInv, PlanInv, Labels
  <2>6. WaitInv'
    BY <1>1, <2>1 DEF WaitInv
  <2> QED BY <2>4, <2>5, <2>6
<1>4. CASE OnEvent
  <2>1. /\ UNCHANGED <<gen, state, ref, joined, oldImage, stream, missed, adrift, starts, plan, dep>>
        /\ pc = "idle" /\ pc' = "list" /\ queue # <<>> /\ queue' = Tail(queue)
        /\ job' = [kind |-> queue[1][1], name |-> queue[1][2], gen |-> queue[1][3]]
    BY <1>1, <1>4 DEF OnEvent, world, history
  <2>2. /\ queue' \in Seq(Events) /\ Len(queue') = Len(queue) - 1
        /\ \A i \in 1..Len(queue') : queue'[i] = queue[i + 1] /\ i + 1 \in DOMAIN queue
        /\ 1 \in DOMAIN queue /\ queue[1] \in Events /\ DOMAIN queue' = 1..Len(queue')
    BY <1>1, <2>1
  <2>3. \A i \in DOMAIN queue' : queue'[i][2] = Target => queue'[i][3] <= gen[Target]
    <3> SUFFICES ASSUME NEW i \in DOMAIN queue', queue'[i][2] = Target
                 PROVE  queue'[i][3] <= gen[Target]
      OBVIOUS
    <3>1. queue'[i] = queue[i + 1] /\ i + 1 \in DOMAIN queue
      BY <2>2
    <3> QED BY <1>1, <3>1 DEF WorldInv
  <2>4. WorldInv'
    BY <1>1, <2>1, <2>2, <2>3 DEF WorldInv
  <2>5. /\ job' \in [kind : {"none", "backfill", "start", "destroy"}, name : {Target, Anchor}, gen : Nat]
        /\ job'.name = Target => job'.gen <= gen[Target]
    BY <1>1, <2>1, <2>2 DEF Events, WorldInv
  <2>6. HandlerInv'
    BY <1>1, <2>1, <2>5 DEF HandlerInv, PlanInv, Labels
  <2>7. WaitInv'
    <3> SUFFICES ASSUME ~missed, state[Target] = "running", NEW s \in Siblings, state[s] = "created"
                 PROVE  \/ job'.kind = "start" /\ job'.name = Target /\ job'.gen = gen[Target]
                        \/ \E i \in DOMAIN queue' : queue'[i] = <<"start", Target, gen[Target]>>
      BY <2>1 DEF WaitInv
    <3>1. PICK i \in DOMAIN queue : queue[i] = <<"start", Target, gen[Target]>>
      BY <1>1, <2>1 DEF WaitInv, HandlerInv
    <3>2. CASE i = 1
      BY <2>1, <3>1, <3>2
    <3>3. CASE i # 1
      <4>1. i - 1 \in DOMAIN queue' /\ i - 1 \in 1..Len(queue') /\ (i - 1) + 1 = i
        BY <1>1, <2>2, <3>1, <3>3
      <4> QED BY <2>2, <3>1, <4>1
    <3> QED BY <3>2, <3>3
  <2> QED BY <2>4, <2>6, <2>7
<1>5. CASE Restart
  <2>1. /\ UNCHANGED <<gen, state, ref, joined, missed>>
        /\ stream' = FALSE /\ queue' = <<>> /\ pc' = "list" /\ starts' = {} /\ plan' = NoPlan
        /\ dep' = NoDep /\ job' = [NoJob EXCEPT !.kind = "backfill"]
    BY <1>5 DEF Restart
  <2>2. stream' \in BOOLEAN /\ oldImage' \in BOOLEAN
    <3>1. stream' \in BOOLEAN
      BY <2>1
    <3>2. oldImage \in BOOLEAN /\ Present(Anchor) \in BOOLEAN
      BY <1>1 DEF WorldInv, Present
    <3>3. oldImage' \in {oldImage, Present(Anchor)}
      BY <1>5 DEF Restart
    <3> QED BY <3>1, <3>2, <3>3
  <2>3. queue' \in Seq(Events) /\ DOMAIN queue' = {}
    BY <2>1
  <2>4. adrift' \subseteq Deps
    BY <1>1, <1>5 DEF Restart, WorldInv
  <2>5. WorldInv'
    BY <1>1, <2>1, <2>2, <2>3, <2>4 DEF WorldInv
  <2>6. /\ job' \in [kind : {"none", "backfill", "start", "destroy"}, name : {Target, Anchor}, gen : Nat]
        /\ job'.kind = "backfill" /\ job'.gen <= gen[Target]
    BY <1>1, <2>1 DEF NoJob
  <2>7. HandlerInv'
    BY <1>1, <2>1, <2>6, NothingFacts DEF HandlerInv, PlanInv, PlanType, Labels
  <2>8. WaitInv'
    BY <2>1, <2>6 DEF WaitInv
  <2> QED BY <2>5, <2>7, <2>8
<1> QED BY <1>2, <1>3, <1>4, <1>5

\* The process starts with a backfill.
LEMMA InitInv == AutostartAssumption /\ Init => IInv
<1> SUFFICES ASSUME AutostartAssumption, Init PROVE IInv
  OBVIOUS
<1>1. gen \in [Names -> Nat] /\ gen[Target] = 2 /\ gen[Anchor] = 1
  BY NameFacts DEF Init, Children
<1>2. state \in [Names -> States] /\ ref \in [Names -> Nat]
  <2>1. state \in [Names -> {"absent", "created", "running"}] /\ ref \in [Names -> 0..2]
    BY DEF Init
  <2> QED BY <2>1 DEF States
<1>3. joined \subseteq {n \in Children : state[n] = "running" /\ state[Target] = "running"}
  BY NameFacts DEF Init
<1>4. Anchor \in joined => ref[Anchor] = gen[Target]
  BY DEF Init
<1>5. \A s \in Siblings : ref[s] = ByName
  BY NameFacts DEF Init, Children
<1>6. oldImage \in BOOLEAN /\ stream \in BOOLEAN /\ missed \in BOOLEAN
  BY Zenon DEF Init
<1>7. queue \in Seq(Events) /\ DOMAIN queue = {}
  <2>1. queue = <<>>
    BY DEF Init
  <2> QED BY <2>1
<1>8. adrift \subseteq Deps
  BY DEF Init
<1>9. WorldInv
  BY <1>1, <1>2, <1>3, <1>4, <1>5, <1>6, <1>7, <1>8 DEF WorldInv
<1>10. /\ pc = "list" /\ starts = {} /\ plan = NoPlan /\ dep = NoDep
       /\ job \in [kind : {"none", "backfill", "start", "destroy"}, name : {Target, Anchor}, gen : Nat]
       /\ job.kind = "backfill" /\ job.gen = 0
  BY DEF Init, NoJob
<1>11. HandlerInv
  BY <1>1, <1>9, <1>10, NothingFacts DEF HandlerInv, PlanInv, PlanType, Labels
<1>12. WaitInv
  BY <1>10 DEF WaitInv
<1>13. ops \in 0..MaxOps /\ mishaps \in 0..MaxMishaps
  <2>1. ops = 0 /\ mishaps = 0
    BY DEF Init
  <2> QED BY <2>1 DEF AutostartAssumption
<1>14. SubInv
  BY <1>10 DEF Init, SubInv
<1> QED BY <1>9, <1>11, <1>12, <1>13, <1>14 DEF IInv

\* Every step of docker and of the watcher preserves the invariant.
LEMMA NextInv == AutostartAssumption /\ IInv /\ [Next]_vars => IInv'
<1> SUFFICES ASSUME AutostartAssumption, IInv, [Next]_vars PROVE IInv'
  OBVIOUS
<1>1. CASE UNCHANGED vars
  <2>1. UNCHANGED <<gen, state, ref, joined, oldImage, stream, queue, pc, job, starts, plan, dep,
                    missed, adrift, ops, mishaps>>
    BY <1>1 DEF vars, world, sub, handler, history, bounds
  <2> QED BY <2>1 DEF IInv, WorldInv, HandlerInv, PlanInv, Excused, SubInv, WaitInv
<1>2. CASE Next
  <2>1. WorldInv' /\ HandlerInv' /\ WaitInv'
    <3>1. CASE Docker
      BY <3>1, DockerStep
    <3>2. CASE BackfillList \/ StartList \/ GoneList \/ ListError
      BY <3>2, ListStep
    <3>3. CASE \E e \in starts : StartSibling(e[1], e[2]) \/ StartSiblingFails(e[1], e[2])
      BY <3>3, SiblingStep
    <3>4. CASE \/ Manage \/ WorkDone \/ ManageFails \/ RebindDone \/ RefuseDep \/ RebindFails
               \/ \E e \in plan.orphans : NextOrphan(e)
      BY <3>4, TurnStep
    <3>5. CASE StartOld \/ StartAnchor \/ StartDep
      BY <3>5, StartStep
    <3>6. CASE RemoveOld \/ RemoveDep \/ CreateAnchor \/ CreateDep
      BY <3>6, ReplaceStep
    <3>7. CASE Subscribe \/ OnStreamError \/ OnEvent \/ Restart
      BY <3>7, LoopStep
    <3> QED BY <1>2, <3>1, <3>2, <3>3, <3>4, <3>5, <3>6, <3>7 DEF Next, Watch
  <2> QED BY <1>2, <2>1, BoundStep, SubStep DEF IInv
<1> QED BY <1>1, <1>2

LEMMA Invariant == Spec => []IInv
<1>1. Init => IInv
  BY InitInv, AutostartAssumption
<1>2. IInv /\ [Next]_vars => IInv'
  BY NextInv, AutostartAssumption
<1> QED BY <1>1, <1>2, PTL DEF Spec

-----------------------------------------------------------------------------
\* The types of docker's and the watcher's state; a container in the target's
\* namespace runs, and so does the target.
THEOREM TypeCorrect == Spec => []TypeOK
<1>1. IInv => TypeOK
  <2> SUFFICES ASSUME IInv PROVE TypeOK
    OBVIOUS
  <2>1. Children \subseteq {Anchor} \cup Deps \cup Siblings
    BY DEF Children, Names
  <2>2. Children \X Nat \subseteq Instances
    BY DEF Children, Instances
  <2>3. queue \in Seq({"start", "destroy"} \X {Target, Anchor} \X Nat)
    BY DEF IInv, WorldInv, Events
  <2> QED BY <2>1, <2>2, <2>3 DEF IInv, WorldInv, HandlerInv, TypeOK, States
<1> QED BY <1>1, Invariant, PTL

\* F-43: handleTargetStart and the backfill leave no sibling in Created state
\* next to a running target once every event is handled and none was lost.
THEOREM NoSiblingWaits == Spec => []NobodyWaits
<1>1. IInv => NobodyWaits
  <2> SUFFICES ASSUME IInv, pc = "idle", queue = <<>>, ~missed, state[Target] = "running",
                      NEW s \in Siblings, state[s] = "created"
               PROVE  FALSE
    BY DEF NobodyWaits, Quiet
  <2>1. starts = {} /\ DOMAIN queue = {}
    BY DEF IInv, HandlerInv
  <2> QED BY <2>1 DEF IInv, WaitInv
<1> QED BY <1>1, Invariant, PTL

\* recreateSAWithOrphanRebind never takes down a service-anchor that is in the
\* running target's namespace, however docker changes between maybeManage's list
\* and Remove, except for its image or a start event the target has outlived.
THEOREM CurrentIsSpared == Spec => SparesTheCurrent
<1>1. IInv /\ [Next]_vars
      => [/\ pc = "remove" /\ pc' = "create" /\ InPlace
          /\ ~(job.kind = "backfill" /\ oldImage)
          /\ ~(job.kind = "start" /\ job.gen # gen[Target])
          => Present(Anchor)']_vars
  <2> SUFFICES ASSUME IInv, Next, pc = "remove", pc' = "create", InPlace, ~Excused
               PROVE  Present(Anchor)'
    BY DEF Excused
  <2>1. plan.do = "recreate" /\ ~(gen[Anchor] = plan.old)
    BY DEF IInv, HandlerInv, PlanInv, InPlace
  <2>2. RemoveOld
    BY DEF Next, Docker, Watch, Restart, TargetStop, TargetRecreate, TargetRemove, TargetStart,
           AnchorRemove, AnchorExit, DepCompose, StreamBreaks, Change, BackfillList, StartList,
           GoneList, ListError, StartSibling, StartSiblingFails, Manage, WorkDone, StartOld,
           CreateAnchor, StartAnchor, ManageFails, Managed, NextOrphan, RebindDone, RemoveDep,
           CreateDep, RefuseDep, StartDep, RebindFails, Subscribe, OnStreamError, OnEvent
  <2>3. state' = state
    BY <2>1, <2>2 DEF RemoveOld, world
  <2> QED BY <2>3 DEF InPlace, Present
<1> QED BY <1>1, Invariant, PTL DEF Spec, SparesTheCurrent

-----------------------------------------------------------------------------
(* DependentsFollow.  A dependent the watcher answers for shares the namespace *)
(* of its service-anchor, or is on the list of those still to be recreated;    *)
(* one that waits in Created state is about to be started.                     *)

Rebinding == {"work", "remove", "create", "start", "rebind", "depRemove", "depCreate", "depStart"}
\* The dependent will be recreated, or is at this moment.
Orphan(d) ==
    \/ pc \in Rebinding /\ <<d, gen[d]>> \in plan.orphans
    \/ pc \in {"depRemove", "depStart"} /\ dep = <<d, gen[d]>>
RefersWell(d) ==
    \/ state[d] = "created" /\ ref[d] = ByName
    \/ Present(Anchor) /\ ref[d] \in {ByName, gen[Anchor]}
FollowsJoin(d) ==
    state[d] = "running" => state[Anchor] = "running" /\ (d \in joined <=> Anchor \in joined)
StartPending(d) ==
    \/ pc = "list" /\ job.kind = "backfill"
    \/ pc = "list" /\ job.kind = "start" /\ job.name = Anchor /\ job.gen = gen[Anchor]
    \/ <<d, gen[d]>> \in starts
    \/ \E i \in DOMAIN queue : queue[i] = <<"start", Anchor, gen[Anchor]>>

DepOK(d) ==
    /\ Orphan(d) \/ (RefersWell(d) /\ FollowsJoin(d))
    /\ plan.do = "recreate" /\ pc \in {"work", "remove"} => Orphan(d)
    /\ state[d] = "created" /\ state[Anchor] = "running" /\ ~missed => Orphan(d) \/ StartPending(d)

DepInv == AutoFix => \A d \in Deps \ adrift : Present(d) => DepOK(d)

\* Only a recreation has orphans; what RecreateWithNetworkMode has just created
\* has not run yet.
TurnInv ==
    /\ pc \notin {"idle", "subscribe"} => job.kind # "none"
    /\ plan.do # "recreate" => plan.orphans = {}
    /\ pc = "startOld" => plan.do = "start"
    /\ pc = "depStart" =>
          /\ dep[2] <= gen[dep[1]]
          /\ gen[dep[1]] = dep[2] => state[dep[1]] = "created"

\* The watcher's list finds every dependent that refers to the service-anchor.
LEMMA OrphanFacts ==
    ASSUME NEW g, NEW b
    PROVE  LET p == maybeManage(g, b) IN
           /\ p.do # "recreate" => p.orphans = {}
           /\ p.do = "recreate" /\ AutoFix =>
                 \A d \in Deps : Present(d) /\ ref[d] \in {ByName, gen[Anchor]} =>
                     <<d, gen[d]>> \in p.orphans
           /\ p.do \in {"none", "create", "start", "recreate"}
<1> DEFINE p == maybeManage(g, b)
<1>1. CASE p.orphans = {} /\ p.do \in {"none", "create", "start"}
  BY <1>1
<1>2. CASE p = [do |-> "recreate", old |-> gen[Anchor],
                orphans |-> IF AutoFix THEN findOrphanCandidates ELSE {}]
  <2>1. p.do = "recreate" /\ (AutoFix => p.orphans = findOrphanCandidates)
    BY <1>2
  <2>2. AutoFix => \A d \in Deps : Present(d) /\ ref[d] \in {ByName, gen[Anchor]} =>
                      <<d, gen[d]>> \in p.orphans
    BY <2>1 DEF findOrphanCandidates
  <2> HIDE DEF p
  <2> QED BY <2>1, <2>2 DEF p
<1>3. \/ p = NoPlan
      \/ p = [NoPlan EXCEPT !.do = "create"]
      \/ p = [NoPlan EXCEPT !.do = "start", !.old = gen[Anchor]]
      \/ p = [do |-> "recreate", old |-> gen[Anchor],
              orphans |-> IF AutoFix THEN findOrphanCandidates ELSE {}]
  BY DEF maybeManage
<1>4. /\ NoPlan.do = "none" /\ NoPlan.orphans = {}
      /\ [NoPlan EXCEPT !.do = "create"].do = "create"
      /\ [NoPlan EXCEPT !.do = "create"].orphans = {}
      /\ [NoPlan EXCEPT !.do = "start", !.old = gen[Anchor]].do = "start"
      /\ [NoPlan EXCEPT !.do = "start", !.old = gen[Anchor]].orphans = {}
  BY DEF NoPlan
<1> HIDE DEF p
<1>5. \/ p.orphans = {} /\ p.do \in {"none", "create", "start"}
      \/ p = [do |-> "recreate", old |-> gen[Anchor],
              orphans |-> IF AutoFix THEN findOrphanCandidates ELSE {}]
  BY <1>3, <1>4
<1> QED BY <1>1, <1>2, <1>5 DEF p

LEMMA TurnStepInv ==
    ASSUME AutostartAssumption, IInv, TurnInv, Next
    PROVE  TurnInv'
<1>1. WorldInv /\ HandlerInv /\ SubInv /\ gen \in [Names -> Nat] /\ state \in [Names -> States]
  BY DEF IInv, WorldInv
<1>2. NoPlan.orphans = {} /\ NoPlan.do = "none" /\ NoDep = <<>>
  BY DEF NoPlan, NoDep
<1>3. pc \in {"depRemove", "depCreate", "depStart"} =>
          /\ dep[1] \in Deps /\ dep[1] \in Names /\ dep[2] \in Nat
          /\ gen[dep[1]] \in Nat /\ dep[1] # Target /\ dep[1] # Anchor
  BY <1>1, NameFacts DEF HandlerInv, Children
<1>4. CASE Docker
  <2>1. UNCHANGED <<pc, job, starts, plan, dep>>
    BY <1>4 DEF Docker, TargetStop, TargetRecreate, TargetRemove, TargetStart, AnchorRemove,
         AnchorExit, DepCompose, StreamBreaks, Change, handler
  <2>2. pc = "depStart" =>
          \/ gen'[dep[1]] = gen[dep[1]] /\ state'[dep[1]] = state[dep[1]]
          \/ gen'[dep[1]] = gen[dep[1]] + 1
    <3> SUFFICES ASSUME pc = "depStart"
                 PROVE  \/ gen'[dep[1]] = gen[dep[1]] /\ state'[dep[1]] = state[dep[1]]
                        \/ gen'[dep[1]] = gen[dep[1]] + 1
      OBVIOUS
    <3>1. CASE \E d \in Deps : DepCompose(d)
      BY <1>1, <1>3, <3>1, NameFacts DEF DepCompose, Children
    <3>2. CASE ~\E d \in Deps : DepCompose(d)
      BY <1>1, <1>3, <1>4, <3>2 DEF Docker, TargetStop, TargetRecreate, TargetRemove, TargetStart,
             AnchorRemove, AnchorExit, StreamBreaks, Created, Removed, world
    <3> QED BY <3>1, <3>2
  <2> QED BY <1>3, <2>1, <2>2 DEF TurnInv
<1>5. CASE BackfillList \/ StartList \/ GoneList \/ ListError
  <2>1. CASE Done
    BY <1>2, <2>1 DEF Done, TurnInv
  <2>2. CASE ~Done
    <3>1. /\ pc' = "work" /\ UNCHANGED job /\ job.kind # "none"
          /\ plan' = NoPlan \/ \E g \in {gen[Target], job.gen}, b \in BOOLEAN : plan' = maybeManage(g, b)
      BY <1>5, <2>2 DEF BackfillList, StartList, GoneList, ListError
    <3>2. plan'.do # "recreate" => plan'.orphans = {}
      BY <1>2, <3>1, OrphanFacts
    <3> QED BY <3>1, <3>2 DEF TurnInv
  <2> QED BY <2>1, <2>2
<1>6. CASE Subscribe \/ OnStreamError
  BY <1>6 DEF Subscribe, OnStreamError, Goto, handler, TurnInv
<1>7. CASE OnEvent
  <2>1. queue[1] \in Events /\ pc' = "list" /\ job'.kind = queue[1][1] /\ UNCHANGED plan
    BY <1>1, <1>7 DEF OnEvent, WorldInv
  <2>2. job'.kind \in {"start", "destroy"}
    BY <2>1 DEF Events
  <2> QED BY <2>1, <2>2 DEF TurnInv
<1>8. CASE Restart
  <2>1. pc' = "list" /\ job'.kind = "backfill" /\ plan' = NoPlan
    BY <1>8 DEF Restart, NoJob
  <2> QED BY <1>2, <2>1 DEF TurnInv
<1>9. CASE WorkDone
  BY <1>2, <1>9 DEF WorkDone, Done, TurnInv
<1>10. CASE Manage
  <2>1. /\ pc = "work" /\ UNCHANGED <<job, plan>> /\ plan.do # "none"
        /\ pc' = CASE plan.do = "create" -> "create" [] plan.do = "recreate" -> "remove"
                   [] OTHER -> "startOld"
    BY <1>10 DEF Manage, handler
  <2>2. plan.do \in {"none", "create", "start", "recreate"}
    BY <1>1 DEF HandlerInv
  <2>3. pc' = "startOld" => plan.do = "start"
    BY <2>1, <2>2
  <2>4. pc' \in {"create", "remove", "startOld"}
    BY <2>1, <2>2
  <2> QED BY <2>1, <2>3, <2>4 DEF TurnInv
<1>11. CASE StartOld \/ ManageFails \/ RebindDone
  <2>1. pc' = "work" /\ UNCHANGED job /\ plan' = NoPlan /\ pc \notin {"idle", "subscribe"}
    BY <1>11 DEF StartOld, ManageFails, RebindDone, Managed
  <2> QED BY <1>2, <2>1 DEF TurnInv
<1>12. CASE \/ \E e \in starts : StartSibling(e[1], e[2]) \/ StartSiblingFails(e[1], e[2])
            \/ StartAnchor \/ RemoveOld \/ RemoveDep \/ RefuseDep \/ StartDep \/ RebindFails
  <2>1. /\ UNCHANGED <<job, plan>> /\ pc \notin {"idle", "subscribe"}
        /\ pc' \notin {"startOld", "depStart", "idle", "subscribe"}
    BY <1>12 DEF StartSibling, StartSiblingFails, StartAnchor, RemoveOld, RemoveDep, StartDep,
             RefuseDep, RebindFails, Goto, handler
  <2> QED BY <2>1 DEF TurnInv
<1>13. CASE \E e \in plan.orphans : NextOrphan(e)
  <2>1. /\ UNCHANGED job /\ pc = "rebind" /\ pc' = "depRemove"
        /\ \E e \in plan.orphans : plan' = [plan EXCEPT !.orphans = @ \ {e}]
    BY <1>13 DEF NextOrphan
  <2>2. plan'.do = plan.do /\ (plan.orphans = {} => plan'.orphans = {})
    BY <1>1, <2>1 DEF HandlerInv
  <2> QED BY <2>1, <2>2 DEF TurnInv
<1>14. CASE CreateAnchor
  <2>1. /\ UNCHANGED job /\ pc = "create" /\ pc' = "start"
        /\ plan' = [plan EXCEPT !.old = gen[Anchor] + 1]
    BY <1>14 DEF CreateAnchor
  <2>2. plan'.do = plan.do /\ plan'.orphans = plan.orphans
    BY <1>1, <2>1 DEF HandlerInv
  <2> QED BY <2>1, <2>2 DEF TurnInv
<1>15. CASE CreateDep
  <2>1. /\ UNCHANGED <<job, plan>> /\ pc = "depCreate" /\ pc' = "depStart"
        /\ dep' = <<dep[1], gen[dep[1]] + 1>>
        /\ gen' = [gen EXCEPT ![dep[1]] = @ + 1] /\ state' = [state EXCEPT ![dep[1]] = "created"]
    BY <1>15 DEF CreateDep, Created
  <2>2. /\ dep'[1] = dep[1] /\ dep'[2] = gen[dep[1]] + 1
        /\ gen'[dep[1]] = gen[dep[1]] + 1 /\ state'[dep[1]] = "created"
    BY <1>1, <1>3, <2>1
  <2> QED BY <1>3, <2>1, <2>2 DEF TurnInv
<1> QED BY <1>4, <1>5, <1>6, <1>7, <1>8, <1>9, <1>10, <1>11, <1>12, <1>13, <1>14, <1>15 DEF Next, Watch

\* A step that leaves a dependent and the service-anchor as they are.
LEMMA DepKept ==
    ASSUME NEW d \in Deps, DepOK(d),
           gen'[d] = gen[d], ref'[d] = ref[d], state'[d] = state[d],
           gen'[Anchor] = gen[Anchor], state'[Anchor] = state[Anchor],
           (d \in joined <=> Anchor \in joined) => (d \in joined' <=> Anchor \in joined'),
           missed => missed',
           Orphan(d) => Orphan(d)',
           plan'.do = "recreate" /\ pc' \in {"work", "remove"} => Orphan(d)',
           StartPending(d) /\ ~missed' => StartPending(d)'
    PROVE  DepOK(d)'
<1>1. RefersWell(d) => RefersWell(d)'
  BY DEF RefersWell, Present
<1>2. FollowsJoin(d) => FollowsJoin(d)'
  BY DEF FollowsJoin
<1> QED BY <1>1, <1>2 DEF DepOK

LEMMA DockerDeps ==
    ASSUME AutostartAssumption, IInv, TurnInv, DepInv, AutoFix, Docker,
           NEW d \in Deps \ adrift', state'[d] # "absent"
    PROVE  DepOK(d)'
<1>1. UNCHANGED <<pc, job, starts, plan, dep>>
  BY DEF Docker, TargetStop, TargetRecreate, TargetRemove, TargetStart, AnchorRemove, AnchorExit,
         DepCompose, StreamBreaks, Change, handler
<1>2. /\ WorldInv /\ gen \in [Names -> Nat] /\ state \in [Names -> States] /\ ref \in [Names -> Nat]
      /\ queue \in Seq(Events)
      /\ d \in Names /\ Anchor \in Names /\ d # Target /\ d # Anchor /\ Anchor # Target
  BY NameFacts DEF IInv, WorldInv, Children
<1>3. d \notin adrift /\ Present(d) => DepOK(d)
  BY DEF DepInv
<1>4. ASSUME NEW e, queue' = queue \/ queue' = Append(queue, e), e \in Events, gen'[d] = gen[d],
             gen'[Anchor] = gen[Anchor]
      PROVE  (Orphan(d) => Orphan(d)') /\ (StartPending(d) => StartPending(d)')
  <2>1. \A i \in DOMAIN queue : i \in DOMAIN queue' /\ queue'[i] = queue[i]
    <3>1. CASE queue' = Append(queue, e)
      BY <1>2, <1>4, <3>1
    <3> QED BY <1>4, <3>1
  <2> QED BY <1>1, <1>4, <2>1 DEF Orphan, StartPending
<1>e. <<"start", Target, gen[Target]>> \in Events
  BY <1>2, NameFacts DEF Events
<1>5. CASE TargetStop \/ TargetRemove \/ TargetRecreate \/ TargetStart
  <2>0. missed => missed'
    BY <1>5, Zenon DEF TargetStop, TargetRemove, TargetRecreate, TargetStart, history
  <2>1. /\ adrift' = adrift /\ (missed => missed')
        /\ queue' = queue \/ queue' = Append(queue, <<"start", Target, gen[Target]>>)
        /\ joined' = {} \/ joined' = joined
    BY <1>5, <2>0 DEF TargetStop, TargetRemove, TargetRecreate, TargetStart, history, Emit
  <2>2. /\ gen'[d] = gen[d] /\ gen'[Anchor] = gen[Anchor] /\ ref'[d] = ref[d]
        /\ state'[d] = state[d] /\ state'[Anchor] = state[Anchor]
    BY <1>2, <1>5 DEF TargetStop, TargetRemove, TargetRecreate, TargetStart, Created
  <2>3. DepOK(d)
    BY <1>3, <2>1, <2>2 DEF Present
  <2>4. (Orphan(d) => Orphan(d)') /\ (StartPending(d) => StartPending(d)')
    BY <1>4, <1>e, <2>1, <2>2
  <2>5. plan'.do = "recreate" /\ pc' \in {"work", "remove"} => Orphan(d)'
    BY <1>1, <2>3, <2>4 DEF DepOK
  <2> QED BY <2>1, <2>2, <2>3, <2>4, <2>5, DepKept
<1>6. CASE AnchorRemove
  <2>1. state'[d] = state[d] /\ (Present(d) => d \in adrift')
    BY <1>2, <1>6 DEF AnchorRemove, Removed
  <2> QED BY <2>1 DEF Present
<1>7. CASE AnchorExit
  <2>1. /\ UNCHANGED <<gen, ref, queue, missed>> /\ adrift' = adrift \cup {c \in Deps : state[c] = "running"}
        /\ state' = [state EXCEPT ![Anchor] = "exited"]
    BY <1>7 DEF AnchorExit, Change
  <2>2. state'[d] = state[d] /\ state'[Anchor] = "exited" /\ state[d] # "running" /\ DepOK(d)
    BY <1>2, <1>3, <2>1 DEF Present
  <2>3. Orphan(d) <=> Orphan(d)'
    BY <1>1, <2>1 DEF Orphan
  <2>4. RefersWell(d) => RefersWell(d)'
    BY <2>1, <2>2 DEF RefersWell, Present
  <2>5. FollowsJoin(d)'
    BY <2>2 DEF FollowsJoin
  <2> QED BY <1>1, <2>2, <2>3, <2>4, <2>5 DEF DepOK
<1>8. ASSUME NEW c \in Deps, DepCompose(c) PROVE DepOK(d)'
  <2>1. /\ UNCHANGED <<queue, missed>> /\ state[Anchor] = "running"
        /\ gen' = [gen EXCEPT ![c] = @ + 1] /\ state' = [state EXCEPT ![c] = "running"]
        /\ ref' = [ref EXCEPT ![c] = gen[Anchor]]
        /\ joined' = IF Anchor \in joined THEN joined \cup {c} ELSE joined \ {c}
        /\ adrift' = IF job = NoJob THEN adrift \ {c} ELSE adrift \cup {c}
        /\ c # Anchor /\ c \in Names
    BY <1>8, NameFacts DEF DepCompose, Change, Children
  <2>2. CASE c = d
    <3>1. job = NoJob /\ pc \in {"idle", "subscribe"}
      BY <2>1, <2>2 DEF TurnInv, NoJob
    <3>2. RefersWell(d)' /\ FollowsJoin(d)'
      BY <1>2, <2>1, <2>2 DEF RefersWell, FollowsJoin, Present
    <3>3. state'[d] = "running"
      BY <1>2, <2>1, <2>2
    <3> QED BY <1>1, <3>1, <3>2, <3>3 DEF DepOK
  <2>3. CASE c # d
    <3>1. /\ gen'[d] = gen[d] /\ ref'[d] = ref[d] /\ state'[d] = state[d] /\ d \notin adrift
          /\ gen'[Anchor] = gen[Anchor] /\ state'[Anchor] = state[Anchor]
          /\ (d \in joined' <=> d \in joined) /\ (Anchor \in joined' <=> Anchor \in joined)
      BY <1>2, <2>1, <2>3
    <3>2. DepOK(d)
      BY <1>3, <3>1 DEF Present
    <3>3. (Orphan(d) => Orphan(d)') /\ (StartPending(d) => StartPending(d)')
      BY <1>4, <1>e, <2>1, <3>1
    <3>4. plan'.do = "recreate" /\ pc' \in {"work", "remove"} => Orphan(d)'
      BY <1>1, <3>2, <3>3 DEF DepOK
    <3> QED BY <2>1, <3>1, <3>2, <3>3, <3>4, DepKept
  <2> QED BY <2>2, <2>3
<1>9. CASE StreamBreaks
  <2>1. UNCHANGED <<gen, state, ref, joined, queue, missed, adrift>>
    BY <1>9 DEF StreamBreaks, world, history
  <2>2. DepOK(d)
    BY <1>3, <2>1 DEF Present
  <2>3. (Orphan(d) => Orphan(d)') /\ (StartPending(d) => StartPending(d)')
    BY <1>4, <1>e, <2>1
  <2>4. plan'.do = "recreate" /\ pc' \in {"work", "remove"} => Orphan(d)'
    BY <1>1, <2>2, <2>3 DEF DepOK
  <2> QED BY <2>1, <2>2, <2>3, <2>4, DepKept
<1> QED BY <1>5, <1>6, <1>7, <1>8, <1>9 DEF Docker

\* The backfill and the handlers list docker's containers once.
LEMMA ListDeps ==
    ASSUME AutostartAssumption, IInv, TurnInv, DepInv, AutoFix,
           BackfillList \/ StartList \/ GoneList \/ ListError,
           NEW d \in Deps \ adrift', state'[d] # "absent"
    PROVE  DepOK(d)'
<1>0. missed => missed'
  BY DEF BackfillList, StartList, GoneList, ListError, history
<1>1. UNCHANGED <<gen, state, ref, joined, queue, adrift>> /\ pc = "list" /\ (missed => missed')
  BY <1>0 DEF BackfillList, StartList, GoneList, ListError, world, sub, history
<1>2. DepOK(d) /\ ~Orphan(d) /\ starts = {} /\ d \in Names /\ d # Target /\ Parent(d) = Anchor /\ Present(d)
  <2>1. DepOK(d) /\ Present(d)
    BY <1>1 DEF DepInv, Present
  <2> QED BY <1>1, <2>1, NameFacts DEF Orphan, Rebinding, IInv, HandlerInv, Children
<1>3. /\ RefersWell(d) /\ RefersWell(d)' /\ FollowsJoin(d)'
      /\ state[d] = "created" /\ state[Anchor] = "running" /\ ~missed => StartPending(d)
  BY <1>1, <1>2 DEF DepOK, RefersWell, FollowsJoin, Present
<1>4. ref[d] \in {ByName, gen[Anchor]}
  BY <1>3 DEF RefersWell
<1>5. ASSUME state[d] = "created" PROVE <<d, gen[d]>> \in matchSiblings(Anchor, gen[Anchor])
  BY <1>2, <1>4, <1>5 DEF matchSiblings
<1>6. CASE Done
  <2>1. pc' \in {"idle", "subscribe"}
    BY <1>6 DEF Done
  <2>2. ASSUME state[d] = "created", state[Anchor] = "running", ~missed' PROVE StartPending(d)'
    <3>1. GoneList /\ job.kind = "destroy"
      BY <1>6, <2>1, <2>2 DEF BackfillList, StartList, GoneList, ListError
    <3>2. StartPending(d)
      BY <1>1, <1>3, <2>2
    <3> QED BY <1>1, <1>2, <3>1, <3>2 DEF StartPending
  <2> QED BY <1>1, <1>3, <2>1, <2>2 DEF DepOK
<1>7. CASE ~Done
  <2>1. /\ pc' = "work" /\ UNCHANGED <<job, missed>>
        /\ plan' = NoPlan \/ \E g \in {gen[Target], job.gen}, b \in BOOLEAN : plan' = maybeManage(g, b)
    BY <1>7 DEF BackfillList, StartList, GoneList, ListError, history
  <2>2. plan'.do = "recreate" => <<d, gen[d]>> \in plan'.orphans
    BY <1>2, <1>4, <2>1, OrphanFacts DEF NoPlan
  <2>3. plan'.do = "recreate" => Orphan(d)'
    BY <1>1, <2>1, <2>2 DEF Orphan, Rebinding
  <2>4. ASSUME state[d] = "created", state[Anchor] = "running", ~missed PROVE StartPending(d)'
    <3>1. StartPending(d)
      BY <1>3, <2>4
    <3>2. CASE BackfillList
      <4>1. starts' = UNION {matchSiblings(t, gen[t]) : t \in {u \in {Target, Anchor} : state[u] = "running"}}
        BY <3>2 DEF BackfillList
      <4>2. <<d, gen[d]>> \in starts'
        BY <1>5, <2>4, <4>1
      <4> QED BY <1>1, <4>2 DEF StartPending
    <3>3. CASE StartList
      <4>1. starts' = matchSiblings(job.name, job.gen) /\ job.kind = "start"
        BY <3>3 DEF StartList
      <4> QED BY <1>1, <1>2, <1>5, <2>4, <3>1, <4>1 DEF StartPending
    <3>4. CASE GoneList
      BY <1>1, <1>2, <3>1, <3>4 DEF GoneList, StartPending
    <3>5. CASE ListError
      BY <1>7, <3>5 DEF ListError
    <3> QED BY <3>2, <3>3, <3>4, <3>5
  <2> QED BY <1>1, <1>3, <2>1, <2>3, <2>4 DEF DepOK
<1> QED BY <1>6, <1>7

\* A start that docker grants, seen from a dependent: it joins what its
\* service-anchor has joined, and the start of the service-anchor is announced.
LEMMA StartedDep ==
    ASSUME AutostartAssumption, WorldInv, NEW d \in Deps \ adrift', NEW n \in Children, NEW g,
           CanStart(n, g), Started(n), pc # "list",
           n # d => RefersWell(d) /\ FollowsJoin(d),
           n = d /\ state[d] = "running" => FollowsJoin(d)
    PROVE  /\ RefersWell(d)' /\ FollowsJoin(d)'
           /\ state'[d] = "created" /\ state'[Anchor] = "running" =>
                 /\ n # d /\ state[d] = "created"
                 /\ \/ state[Anchor] = "running"
                    \/ \E i \in DOMAIN queue' : queue'[i] = <<"start", Anchor, gen'[Anchor]>>
<1>1. /\ gen' = gen /\ ref' = ref /\ state' = [state EXCEPT ![n] = "running"]
      /\ joined' = IF state[n] = "running" THEN joined
                   ELSE IF n \in Deps /\ Anchor \notin joined THEN joined \ {n}
                   ELSE joined \cup {n}
      /\ state \in [Names -> States] /\ n \in Names /\ d \in Names /\ Anchor \in Names
      /\ d # Anchor /\ queue \in Seq(Events)
  BY NameFacts DEF Started, WorldInv, Children
<1>2. CASE n = d
  <2>1. /\ state[Anchor] = "running" /\ Present(Anchor) /\ ref[d] \in {ByName, gen[Anchor]}
    BY <1>2, NameFacts DEF CanStart, Resolves
  <2>2. state'[d] = "running" /\ state'[Anchor] = "running"
    BY <1>1, <1>2, <2>1
  <2>3. d \in joined' <=> Anchor \in joined'
    BY <1>1, <1>2, <2>1 DEF FollowsJoin
  <2> QED BY <1>1, <2>1, <2>2, <2>3 DEF RefersWell, FollowsJoin, Present
<1>3. CASE n = Anchor /\ state[Anchor] # "running"
  <2>1. state'[d] = state[d] /\ state'[Anchor] = "running" /\ state[d] # "running"
    BY <1>1, <1>3 DEF FollowsJoin
  <2>2. RefersWell(d)' /\ FollowsJoin(d)'
    BY <1>1, <1>3, <2>1 DEF RefersWell, FollowsJoin, Present
  <2>3. ASSUME state[d] = "created"
        PROVE  \E i \in DOMAIN queue' : queue'[i] = <<"start", Anchor, gen'[Anchor]>>
    <3>1. stream
      BY <1>3, <2>3 DEF Started, Unheard
    <3>2. queue' = Append(queue, <<"start", Anchor, gen[Anchor]>>)
      BY <1>3, <3>1 DEF Started, Emit
    <3>3. /\ Len(queue) + 1 \in DOMAIN queue'
          /\ queue'[Len(queue) + 1] = <<"start", Anchor, gen[Anchor]>>
      BY <1>1, <3>2
    <3> QED BY <1>1, <3>3
  <2> QED BY <1>3, <2>1, <2>2, <2>3
<1>4. CASE n # d /\ ~(n = Anchor /\ state[Anchor] # "running")
  <2>1. /\ state'[d] = state[d] /\ state'[Anchor] = state[Anchor]
        /\ (d \in joined' <=> d \in joined) /\ (Anchor \in joined' <=> Anchor \in joined)
    BY <1>1, <1>4
  <2> QED BY <1>1, <1>4, <2>1 DEF RefersWell, FollowsJoin, Present
<1> QED BY <1>2, <1>3, <1>4

LEMMA StartedQueue ==
    ASSUME WorldInv, NEW n, Started(n), Anchor \in Names, gen[Anchor] \in Nat
    PROVE  /\ \A i \in DOMAIN queue : i \in DOMAIN queue' /\ queue'[i] = queue[i]
           /\ adrift \subseteq adrift' /\ gen' = gen /\ missed' = missed
<1>1. /\ queue' = queue \/ queue' = Append(queue, <<"start", Anchor, gen[Anchor]>>)
      /\ adrift \subseteq adrift' /\ gen' = gen /\ missed' = missed
  BY DEF Started, Emit
<1>2. queue \in Seq(Events)
  BY DEF WorldInv
<1>3. <<"start", Anchor, gen[Anchor]>> \in Events
  BY DEF Events
<1>4. CASE queue' = Append(queue, <<"start", Anchor, gen[Anchor]>>)
  BY <1>1, <1>2, <1>3, <1>4
<1> QED BY <1>1, <1>4

\* The starts of siblings, of the service-anchor and of a recreated dependent.
LEMMA StartDeps ==
    ASSUME AutostartAssumption, IInv, TurnInv, DepInv, AutoFix,
           \/ \E e \in starts : StartSibling(e[1], e[2]) \/ StartSiblingFails(e[1], e[2])
           \/ StartOld \/ StartAnchor \/ StartDep,
           NEW d \in Deps \ adrift', state'[d] # "absent"
    PROVE  DepOK(d)'
<1>1. /\ WorldInv /\ HandlerInv /\ state \in [Names -> States] /\ d \in Names /\ d # Target
      /\ d # Anchor /\ Parent(d) = Anchor /\ Anchor \in Names /\ Anchor \in Children
      /\ gen \in [Names -> Nat] /\ gen[Anchor] \in Nat
  BY NameFacts DEF IInv, WorldInv, Children
\* What is started, and what the handler makes of it.
<1> DEFINE Own == pc = "depStart" /\ dep = <<d, gen[d]>>
<1>2. ASSUME NEW n \in Children, NEW g, CanStart(n, g), Started(n), pc # "list", pc' # "list",
             plan'.do = "recreate" /\ pc' \in {"work", "remove"} => plan' = plan /\ pc = "work" /\ pc' = "work",
             Orphan(d) /\ ~Own => <<d, gen[d]>> \in plan'.orphans /\ pc' \in Rebinding,
             Own => pc' = "rebind" /\ n = d,
             UNCHANGED job, \A e \in starts : e[1] # n => e \in starts'
      PROVE  DepOK(d)'
  <2>1. /\ gen' = gen /\ missed' = missed /\ d \notin adrift
        /\ \A i \in DOMAIN queue : i \in DOMAIN queue' /\ queue'[i] = queue[i]
    BY <1>1, <1>2, StartedQueue
  <2>2. Present(d)
    BY <1>1, <1>2 DEF Started, CanStart, Present
  <2>3. DepOK(d)
    BY <2>1, <2>2 DEF DepInv
  <2>4. CASE Orphan(d) /\ ~Own
    <3>1. Orphan(d)'
      BY <1>2, <2>1, <2>4 DEF Orphan
    <3> QED BY <3>1 DEF DepOK
  <2>5. CASE ~(Orphan(d) /\ ~Own)
    <3>1. /\ n # d => RefersWell(d) /\ FollowsJoin(d)
          /\ n = d /\ state[d] = "running" => FollowsJoin(d)
      <4>1. CASE Own
        <5>1. state[d] = "created"
          BY <1>2, <4>1 DEF TurnInv
        <5> QED BY <1>2, <4>1, <5>1
      <4>2. CASE ~Own
        BY <2>3, <2>5, <4>2 DEF DepOK
      <4> QED BY <4>1, <4>2
    <3>2. /\ RefersWell(d)' /\ FollowsJoin(d)'
          /\ state'[d] = "created" /\ state'[Anchor] = "running" =>
                /\ n # d /\ state[d] = "created"
                /\ \/ state[Anchor] = "running"
                   \/ \E i \in DOMAIN queue' : queue'[i] = <<"start", Anchor, gen'[Anchor]>>
      BY <1>1, <1>2, <3>1, StartedDep
    <3>3. ~(plan'.do = "recreate" /\ pc' \in {"work", "remove"})
      <4>1. Own => pc' = "rebind"
        BY <1>2
      <4>2. ~Orphan(d) /\ plan'.do = "recreate" /\ pc' \in {"work", "remove"} => FALSE
        BY <1>2, <2>3 DEF DepOK
      <4> QED BY <2>5, <4>1, <4>2
    <3>4. ASSUME state'[d] = "created", state'[Anchor] = "running", ~missed'
          PROVE  StartPending(d)'
      <4>1. CASE \E i \in DOMAIN queue' : queue'[i] = <<"start", Anchor, gen'[Anchor]>>
        BY <4>1 DEF StartPending
      <4>2. CASE state[Anchor] = "running"
        <5>1. n # d /\ state[d] = "created" /\ ~Orphan(d)
          BY <1>2, <2>5, <3>2, <3>4
        <5>2. StartPending(d)
          BY <2>1, <2>3, <3>4, <4>2, <5>1 DEF DepOK
        <5> QED BY <1>2, <2>1, <5>1, <5>2 DEF StartPending
      <4> QED BY <3>2, <3>4, <4>1, <4>2
    <3> QED BY <3>2, <3>3, <3>4 DEF DepOK
  <2> QED BY <2>4, <2>5
\* Docker refuses the start, or the call fails.
<1>3. ASSUME UNCHANGED <<gen, state, ref, joined, queue, adrift, job, plan, dep>>,
             missed => missed',
             pc' = pc, pc = "work",
             \A e \in starts \ starts' :
                 e = <<d, gen[d]>> /\ state[d] = "created" /\ state[Anchor] = "running" /\ ~missed'
                     => Orphan(d)
      PROVE  DepOK(d)'
  <2>1. DepOK(d)
    BY <1>3 DEF DepInv, Present
  <2>2. (Orphan(d) <=> Orphan(d)') /\ (RefersWell(d) => RefersWell(d)') /\ (FollowsJoin(d) => FollowsJoin(d)')
    BY <1>3 DEF Orphan, RefersWell, FollowsJoin, Present
  <2>3. ASSUME state[d] = "created", state[Anchor] = "running", ~missed', ~Orphan(d)
        PROVE  StartPending(d)'
    <3>1. StartPending(d)
      BY <1>3, <2>1, <2>3 DEF DepOK
    <3> QED BY <1>3, <2>3, <3>1 DEF StartPending
  <2> QED BY <1>3, <2>1, <2>2, <2>3 DEF DepOK
<1>4. ASSUME NEW e \in starts, StartSibling(e[1], e[2]) PROVE DepOK(d)'
  <2>1. /\ pc = "work" /\ UNCHANGED <<pc, job, plan, dep>> /\ starts' = starts \ {e}
        /\ e = <<e[1], e[2]>> /\ e[1] \in Children
    BY <1>1, <1>4 DEF StartSibling, HandlerInv
  <2>2. CASE CanStart(e[1], e[2])
    <3>1. Started(e[1])
      BY <1>4, <2>2 DEF StartSibling
    <3> QED BY <1>2, <2>1, <2>2, <3>1 DEF Orphan, Rebinding
  <2>3. CASE ~CanStart(e[1], e[2])
    <3>1. UNCHANGED <<gen, state, ref, joined, queue, adrift, missed>>
      BY <1>4, <2>3 DEF StartSibling, world, sub, history
    <3>2. ASSUME e = <<d, gen[d]>>, state[d] = "created", state[Anchor] = "running" PROVE Orphan(d)
      <4>1. DepOK(d)
        BY <3>1 DEF DepInv, Present
      <4>2. ~RefersWell(d)
        BY <1>1, <2>3, <3>2 DEF RefersWell, CanStart, Resolves, Present
      <4> QED BY <4>1, <4>2 DEF DepOK
    <3> QED BY <1>3, <2>1, <3>1, <3>2
  <2> QED BY <2>2, <2>3
<1>5. ASSUME NEW e \in starts, StartSiblingFails(e[1], e[2]) PROVE DepOK(d)'
  <2>1. /\ pc = "work" /\ UNCHANGED <<gen, state, ref, joined, queue, adrift, pc, job, plan, dep>>
        /\ missed' = TRUE
    BY <1>5 DEF StartSiblingFails, world, sub
  <2> QED BY <1>3, <2>1
<1>6. CASE StartOld
  <2>1. /\ pc = "startOld" /\ pc' = "work" /\ plan' = NoPlan /\ UNCHANGED <<job, starts>>
        /\ ~Orphan(d)
    BY <1>6 DEF StartOld, Managed, Orphan, Rebinding
  <2>2. plan'.do # "recreate"
    BY <2>1 DEF NoPlan
  <2>3. CASE CanStart(Anchor, plan.old)
    <3>1. Started(Anchor)
      BY <1>6, <2>3 DEF StartOld
    <3>2. /\ UNCHANGED <<gen, missed>> /\ d \notin adrift
      BY <1>1, <3>1, StartedQueue
    <3>3. Present(d) /\ DepOK(d)
      BY <1>1, <3>1, <3>2 DEF Started, DepInv, Present
    <3>4. RefersWell(d) /\ FollowsJoin(d)
      BY <2>1, <3>3 DEF DepOK
    <3>5. /\ RefersWell(d)' /\ FollowsJoin(d)'
          /\ state'[d] = "created" /\ state'[Anchor] = "running" =>
                /\ state[d] = "created"
                /\ \/ state[Anchor] = "running"
                   \/ \E i \in DOMAIN queue' : queue'[i] = <<"start", Anchor, gen'[Anchor]>>
      BY <1>1, <2>1, <2>3, <3>1, <3>4, StartedDep
    <3>6. StartPending(d) => StartPending(d)'
      BY <1>1, <2>1, <3>1, <3>2, StartedQueue DEF StartPending
    <3>7. state'[d] = "created" /\ state'[Anchor] = "running" /\ ~missed' => StartPending(d)'
      <4>1. CASE \E i \in DOMAIN queue' : queue'[i] = <<"start", Anchor, gen'[Anchor]>>
        BY <4>1 DEF StartPending
      <4>2. CASE ~\E i \in DOMAIN queue' : queue'[i] = <<"start", Anchor, gen'[Anchor]>>
        BY <2>1, <3>2, <3>3, <3>5, <3>6, <4>2 DEF DepOK
      <4> QED BY <4>1, <4>2
    <3> QED BY <2>2, <3>5, <3>7 DEF DepOK
  <2>4. CASE ~CanStart(Anchor, plan.old)
    <3>1. UNCHANGED <<gen, state, ref, joined, queue, adrift, missed>>
      BY <1>6, <2>4 DEF StartOld, world, sub, history
    <3>2. DepOK(d)
      BY <3>1 DEF DepInv, Present
    <3>3. StartPending(d) => StartPending(d)'
      BY <2>1, <3>1 DEF StartPending
    <3>4. RefersWell(d)' /\ FollowsJoin(d)'
      BY <2>1, <3>1, <3>2 DEF DepOK, RefersWell, FollowsJoin, Present
    <3> QED BY <2>1, <2>2, <3>1, <3>2, <3>3, <3>4 DEF DepOK
  <2> QED BY <2>3, <2>4
<1>7. CASE StartAnchor
  <2>1. /\ pc = "start" /\ pc' = "rebind" /\ CanStart(Anchor, plan.old) /\ Started(Anchor)
        /\ UNCHANGED <<job, starts, plan, dep>>
    BY <1>7 DEF StartAnchor, Goto, handler
  <2>2. Orphan(d) => <<d, gen[d]>> \in plan.orphans
    BY <2>1 DEF Orphan
  <2>3. /\ UNCHANGED <<gen, missed>> /\ d \notin adrift
        /\ \A i \in DOMAIN queue : i \in DOMAIN queue' /\ queue'[i] = queue[i]
    BY <1>1, <2>1, StartedQueue
  <2>4. Present(d) /\ DepOK(d)
    BY <1>1, <2>1, <2>3 DEF Started, DepInv, Present
  <2>5. CASE Orphan(d)
    <3>1. Orphan(d)'
      BY <2>1, <2>2, <2>3, <2>5 DEF Orphan, Rebinding
    <3> QED BY <3>1 DEF DepOK
  <2>6. CASE ~Orphan(d)
    <3>1. /\ RefersWell(d)' /\ FollowsJoin(d)'
          /\ state'[d] = "created" /\ state'[Anchor] = "running" =>
                /\ state[d] = "created"
                /\ \/ state[Anchor] = "running"
                   \/ \E i \in DOMAIN queue' : queue'[i] = <<"start", Anchor, gen'[Anchor]>>
      BY <1>1, <2>1, <2>4, <2>6, StartedDep DEF DepOK
    <3>2. StartPending(d) => StartPending(d)'
      BY <2>1, <2>3 DEF StartPending
    <3>3. state'[d] = "created" /\ state'[Anchor] = "running" /\ ~missed' => StartPending(d)'
      <4>1. CASE \E i \in DOMAIN queue' : queue'[i] = <<"start", Anchor, gen'[Anchor]>>
        BY <4>1 DEF StartPending
      <4>2. CASE ~\E i \in DOMAIN queue' : queue'[i] = <<"start", Anchor, gen'[Anchor]>>
        BY <2>3, <2>4, <2>6, <3>1, <3>2, <4>2 DEF DepOK
      <4> QED BY <4>1, <4>2
    <3> QED BY <2>1, <3>1, <3>3 DEF DepOK
  <2> QED BY <2>5, <2>6
<1>8. CASE StartDep
  <2>1. /\ pc = "depStart" /\ pc' = "rebind" /\ CanStart(dep[1], dep[2]) /\ Started(dep[1])
        /\ UNCHANGED <<job, starts, plan>>
        /\ dep[1] \in Children /\ dep = <<dep[1], dep[2]>>
    BY <1>1, <1>8, NameFacts DEF StartDep, HandlerInv
  <2>2. dep = <<d, gen[d]>> => dep[1] = d
    BY <2>1
  <2> QED BY <1>2, <2>1, <2>2 DEF Orphan, Rebinding
<1> QED BY <1>4, <1>5, <1>6, <1>7, <1>8

\* Steps between docker calls, and calls that fail: the orphans a failure leaves
\* behind are no longer answered for.
LEMMA TurnDeps ==
    ASSUME AutostartAssumption, IInv, TurnInv, DepInv, AutoFix,
           \/ Manage \/ WorkDone \/ ManageFails \/ RebindDone \/ RefuseDep \/ RebindFails
           \/ \E e \in plan.orphans : NextOrphan(e),
           NEW d \in Deps \ adrift', state'[d] # "absent"
    PROVE  DepOK(d)'
<1>1. /\ UNCHANGED <<gen, state, ref, joined, queue, starts>> /\ pc # "list" /\ adrift \subseteq adrift'
      /\ missed => missed'
  <2>1. UNCHANGED <<gen, state, ref, joined, queue>> /\ pc # "list" /\ adrift \subseteq adrift'
    BY DEF Manage, WorkDone, ManageFails, RebindDone, RefuseDep, RebindFails, NextOrphan, world, sub, history
  <2>2. missed => missed'
    BY DEF Manage, WorkDone, ManageFails, RebindDone, RefuseDep, RebindFails, NextOrphan, history
  <2>3. starts' = starts
    BY DEF Manage, WorkDone, ManageFails, RebindDone, RefuseDep, RebindFails, NextOrphan, handler, Done, Managed
  <2> QED BY <2>1, <2>2, <2>3
<1>2. DepOK(d) /\ HandlerInv
  BY <1>1 DEF DepInv, Present, IInv
<1>3. ASSUME Orphan(d) => Orphan(d)',
             plan'.do = "recreate" /\ pc' \in {"work", "remove"} => Orphan(d)'
      PROVE  DepOK(d)'
  <2>1. StartPending(d) => StartPending(d)'
    BY <1>1 DEF StartPending
  <2> QED BY <1>1, <1>2, <1>3, <2>1, DepKept
<1>4. CASE Manage
  <2>1. /\ pc = "work" /\ UNCHANGED <<plan, dep>> /\ plan.do # "none"
        /\ pc' = CASE plan.do = "create" -> "create" [] plan.do = "recreate" -> "remove"
                   [] OTHER -> "startOld"
    BY <1>4 DEF Manage, handler
  <2>2. pc' \in {"create", "remove"} \/ (pc' = "startOld" /\ plan.orphans = {} /\ plan.do # "recreate")
    BY <2>1 DEF TurnInv
  <2>3. Orphan(d) => Orphan(d)'
    BY <1>1, <2>1, <2>2 DEF Orphan, Rebinding
  <2> QED BY <1>2, <1>3, <2>1, <2>3 DEF DepOK
<1>5. CASE WorkDone
  <2>1. pc' \in {"idle", "subscribe"} /\ plan.do = "none" /\ pc = "work"
    BY <1>5 DEF WorkDone, Done
  <2>2. ~Orphan(d)
    BY <2>1 DEF Orphan, TurnInv
  <2> QED BY <1>3, <2>1, <2>2
<1>6. CASE ManageFails
  <2>1. /\ pc \in {"remove", "create", "start", "startOld"} /\ plan' = NoPlan
        /\ adrift' = adrift \cup {e[1] : e \in plan.orphans}
    BY <1>6 DEF ManageFails, Managed
  <2>2. <<d, gen[d]>> \notin plan.orphans
    BY <2>1
  <2>3. ~Orphan(d) /\ plan'.do # "recreate"
    BY <2>1, <2>2 DEF Orphan, NoPlan
  <2> QED BY <1>3, <2>3
<1>7. CASE RebindDone
  <2>1. pc = "rebind" /\ plan.orphans = {} /\ plan' = NoPlan
    BY <1>7 DEF RebindDone, Managed
  <2>2. ~Orphan(d) /\ plan'.do # "recreate"
    BY <2>1 DEF Orphan, NoPlan
  <2> QED BY <1>3, <2>2
<1>8. CASE RebindFails
  <2>1. /\ pc' = "rebind" /\ plan' = plan /\ pc \in {"depRemove", "depCreate", "depStart"}
        /\ adrift' = adrift \cup {dep[1]}
    BY <1>8 DEF RebindFails
  <2>2. d # dep[1] /\ dep # <<d, gen[d]>>
    BY <2>1
  <2>3. Orphan(d) => Orphan(d)'
    BY <1>1, <2>1, <2>2 DEF Orphan, Rebinding
  <2> QED BY <1>3, <2>1, <2>3
<1>9. ASSUME NEW e \in plan.orphans, NextOrphan(e) PROVE DepOK(d)'
  <2>1. /\ pc = "rebind" /\ pc' = "depRemove" /\ dep' = e
        /\ plan' = [plan EXCEPT !.orphans = @ \ {e}]
    BY <1>9 DEF NextOrphan
  <2>2. plan'.orphans = plan.orphans \ {e}
    BY <1>2, <2>1 DEF HandlerInv
  <2>3. Orphan(d) => Orphan(d)'
    BY <1>1, <2>1, <2>2 DEF Orphan, Rebinding
  <2> QED BY <1>3, <2>1, <2>3
<1>10. CASE RefuseDep
  <2>1. pc = "depCreate" /\ pc' = "rebind" /\ plan' = plan /\ state[dep[1]] = "absent"
    BY <1>10 DEF RefuseDep, Present
  <2>2. Orphan(d) => Orphan(d)'
    BY <1>1, <2>1 DEF Orphan, Rebinding
  <2> QED BY <1>3, <2>1, <2>2
<1> QED BY <1>4, <1>5, <1>6, <1>7, <1>8, <1>9, <1>10

\* The removals and creations of a replacement.
LEMMA ReplaceDeps ==
    ASSUME AutostartAssumption, IInv, TurnInv, DepInv, AutoFix,
           RemoveOld \/ RemoveDep \/ CreateAnchor \/ CreateDep,
           NEW d \in Deps \ adrift', state'[d] # "absent"
    PROVE  DepOK(d)'
<1>1. /\ WorldInv /\ HandlerInv /\ state \in [Names -> States] /\ d \in Names
      /\ d # Anchor /\ Anchor \in Names /\ gen \in [Names -> Nat] /\ ref \in [Names -> Nat]
      /\ queue \in Seq(Events) /\ UNCHANGED <<missed, adrift>>
  BY NameFacts DEF IInv, WorldInv, Children, RemoveOld, RemoveDep, CreateAnchor, CreateDep, history
<1>2. d \notin adrift /\ (Present(d) => DepOK(d))
  BY <1>1 DEF DepInv
<1>3. CASE RemoveOld
  <2>1. /\ pc = "remove" /\ pc' = "create" /\ UNCHANGED <<gen, plan>> /\ state'[d] = state[d]
        /\ plan.do = "recreate"
    BY <1>1, <1>3 DEF RemoveOld, Removed, Goto, handler, world, HandlerInv
  <2>2. Orphan(d)
    BY <1>2, <2>1 DEF DepOK, Present
  <2>3. Orphan(d)'
    BY <2>1, <2>2 DEF Orphan, Rebinding
  <2> QED BY <2>3 DEF DepOK
<1>4. CASE RemoveDep
  <2>1. /\ pc = "depRemove" /\ pc' = "depCreate" /\ UNCHANGED <<gen, job, starts, plan, dep>>
        /\ state' = [state EXCEPT ![dep[1]] = "absent"] /\ ref' = [ref EXCEPT ![dep[1]] = ByName]
        /\ joined' = joined \ {dep[1]}
        /\ dep[1] \in Deps /\ dep[1] \in Names /\ dep[1] # Anchor
    BY <1>1, <1>4, NameFacts DEF RemoveDep, Removed, Goto, handler, HandlerInv, Children
  <2>2. d # dep[1] /\ queue' = queue
    BY <1>1, <1>4, <2>1 DEF RemoveDep, Removed
  <2>3. DepOK(d)
    BY <1>1, <1>2, <2>1, <2>2 DEF Present
  <2>4. Orphan(d) => Orphan(d)'
    BY <2>1, <2>2 DEF Orphan, Rebinding
  <2>5. StartPending(d) => StartPending(d)'
    BY <2>1, <2>2 DEF StartPending
  <2> QED BY <1>1, <2>1, <2>2, <2>3, <2>4, <2>5, DepKept
<1>5. CASE CreateAnchor
  <2>1. /\ pc = "create" /\ pc' = "start" /\ ~Present(Anchor) /\ joined' = joined
        /\ gen' = [gen EXCEPT ![Anchor] = @ + 1] /\ state' = [state EXCEPT ![Anchor] = "created"]
        /\ \E r \in {ByName, gen[Target]} : ref' = [ref EXCEPT ![Anchor] = r]
        /\ plan' = [plan EXCEPT !.old = gen[Anchor] + 1] /\ dep' = dep
    BY <1>5 DEF CreateAnchor, Created
  <2>2. /\ gen'[d] = gen[d] /\ state'[d] = state[d] /\ ref'[d] = ref[d] /\ state'[Anchor] = "created"
        /\ plan'.orphans = plan.orphans
    BY <1>1, <2>1 DEF HandlerInv
  <2>3. DepOK(d)
    BY <1>2, <2>2 DEF Present
  <2>4. CASE Orphan(d)
    <3>1. Orphan(d)'
      BY <2>1, <2>2, <2>4 DEF Orphan, Rebinding
    <3> QED BY <3>1 DEF DepOK
  <2>5. CASE ~Orphan(d)
    <3>1. state[d] = "created" /\ ref[d] = ByName
      BY <2>1, <2>3, <2>5 DEF DepOK, RefersWell
    <3> QED BY <2>1, <2>2, <3>1 DEF DepOK, RefersWell, FollowsJoin
  <2> QED BY <2>4, <2>5
<1>6. CASE CreateDep
  <2>1. /\ pc = "depCreate" /\ pc' = "depStart" /\ UNCHANGED <<joined, queue, job, starts, plan>>
        /\ gen' = [gen EXCEPT ![dep[1]] = @ + 1] /\ state' = [state EXCEPT ![dep[1]] = "created"]
        /\ ref' = [ref EXCEPT ![dep[1]] = plan.old]
        /\ dep' = <<dep[1], gen[dep[1]] + 1>>
        /\ dep[1] \in Deps /\ dep[1] \in Names /\ dep[1] # Anchor
    BY <1>1, <1>6, NameFacts DEF CreateDep, Created, HandlerInv, Children, sub
  <2>2. CASE d = dep[1]
    <3>1. Orphan(d)'
      BY <1>1, <2>1, <2>2 DEF Orphan
    <3> QED BY <2>1, <3>1 DEF DepOK
  <2>3. CASE d # dep[1]
    <3>1. /\ gen'[d] = gen[d] /\ state'[d] = state[d] /\ ref'[d] = ref[d]
          /\ gen'[Anchor] = gen[Anchor] /\ state'[Anchor] = state[Anchor]
      BY <1>1, <2>1, <2>3
    <3>2. DepOK(d)
      BY <1>2, <3>1 DEF Present
    <3>3. Orphan(d) => Orphan(d)'
      BY <2>1, <3>1 DEF Orphan, Rebinding
    <3>4. StartPending(d) => StartPending(d)'
      BY <2>1, <3>1 DEF StartPending
    <3> QED BY <1>1, <2>1, <3>1, <3>2, <3>3, <3>4, DepKept
  <2> QED BY <2>2, <2>3
<1> QED BY <1>3, <1>4, <1>5, <1>6

\* Run and consume, and the start of the process.
LEMMA LoopDeps ==
    ASSUME AutostartAssumption, IInv, TurnInv, DepInv, AutoFix,
           Subscribe \/ OnStreamError \/ OnEvent \/ Restart,
           NEW d \in Deps \ adrift', state'[d] # "absent"
    PROVE  DepOK(d)'
<1>1. UNCHANGED <<gen, state, ref, joined>> /\ adrift \subseteq adrift' /\ (missed => missed')
  <2>1. UNCHANGED <<gen, state, ref, joined>> /\ adrift \subseteq adrift'
    BY DEF Subscribe, OnStreamError, OnEvent, Restart, world, history
  <2>2. missed => missed'
    BY Zenon DEF Subscribe, OnStreamError, OnEvent, Restart, history
  <2> QED BY <2>1, <2>2
<1>2. /\ DepOK(d) /\ WorldInv /\ HandlerInv /\ SubInv /\ queue \in Seq(Events)
  BY <1>1 DEF DepInv, Present, IInv, WorldInv
<1>3. ASSUME pc \in {"idle", "subscribe"}, pc' \notin {"work", "remove"},
             state[d] = "created" /\ state[Anchor] = "running" /\ ~missed' /\ StartPending(d)
                 => StartPending(d)'
      PROVE  DepOK(d)'
  <2>1. ~Orphan(d)
    BY <1>3 DEF Orphan, Rebinding
  <2>2. RefersWell(d)' /\ FollowsJoin(d)'
    BY <1>1, <1>2, <2>1 DEF DepOK, RefersWell, FollowsJoin, Present
  <2> QED BY <1>1, <1>2, <1>3, <2>1, <2>2 DEF DepOK
<1>4. CASE Subscribe
  <2>1. pc = "subscribe" /\ pc' = "idle" /\ queue' = <<>> /\ UNCHANGED <<job, starts>>
    BY <1>4 DEF Subscribe, Goto, handler
  <2>2. queue = <<>>
    BY <1>2, <2>1 DEF SubInv
  <2> QED BY <1>1, <1>3, <2>1, <2>2 DEF StartPending
<1>5. CASE OnStreamError
  <2>1. /\ pc = "idle" /\ pc' = "subscribe" /\ queue' = <<>> /\ UNCHANGED <<job, starts>>
        /\ missed' = (missed \/ queue # <<>>)
    BY <1>5 DEF OnStreamError, Goto, handler
  <2>2. ~missed' => queue = <<>>
    BY <2>1, Zenon
  <2> QED BY <1>1, <1>3, <2>1, <2>2 DEF StartPending
<1>6. CASE OnEvent
  <2>1. /\ pc = "idle" /\ pc' = "list" /\ queue # <<>> /\ queue' = Tail(queue) /\ UNCHANGED starts
        /\ job' = [kind |-> queue[1][1], name |-> queue[1][2], gen |-> queue[1][3]]
    BY <1>2, <1>6 DEF OnEvent
  <2>2. ASSUME StartPending(d) PROVE StartPending(d)'
    <3>1. CASE <<d, gen[d]>> \in starts
      BY <1>1, <2>1, <3>1 DEF StartPending
    <3>2. CASE \E i \in DOMAIN queue : queue[i] = <<"start", Anchor, gen[Anchor]>>
      <4>1. PICK i \in DOMAIN queue : queue[i] = <<"start", Anchor, gen[Anchor]>>
        BY <3>2
      <4>2. CASE i = 1
        BY <1>1, <2>1, <4>1, <4>2 DEF StartPending
      <4>3. CASE i # 1
        <5>1. i - 1 \in DOMAIN queue' /\ queue'[i - 1] = queue[i]
          BY <1>2, <2>1, <4>1, <4>3
        <5> QED BY <1>1, <4>1, <5>1 DEF StartPending
      <4> QED BY <4>2, <4>3
    <3> QED BY <2>1, <2>2, <3>1, <3>2 DEF StartPending
  <2> QED BY <1>3, <2>1, <2>2
<1>7. CASE Restart
  <2>1. /\ pc' = "list" /\ job'.kind = "backfill"
        /\ adrift' = adrift \cup {c \in Deps : job # NoJob}
    BY <1>7 DEF Restart, NoJob
  <2>2. job.kind = "none"
    BY <2>1 DEF NoJob
  <2> QED BY <1>3, <2>1, <2>2 DEF TurnInv, StartPending
<1> QED BY <1>4, <1>5, <1>6, <1>7

\* Compose's `stop` is not among the changes modelled for a dependent, and the
\* watcher stops nothing.
LEMMA DepsRunOn == Spec => [](\A d \in Deps : state[d] # "exited")
<1> DEFINE RunOn == \A d \in Deps : state[d] # "exited"
<1>1. Init => RunOn
  BY DEF Init, Names
<1>2. IInv /\ RunOn /\ [Next]_vars => RunOn'
  <2> SUFFICES ASSUME IInv, RunOn, [Next]_vars, NEW d \in Deps PROVE state'[d] # "exited"  OBVIOUS
  <2>0. AutostartAssumption  BY AutostartAssumption
  <2>1. state \in [Names -> States] /\ d \in Names /\ d # Target /\ d # Anchor /\ state[d] # "exited"
    BY <2>0, NameFacts DEF IInv, WorldInv, Children
  <2>2. \A n, r : Created(n, r) => state'[d] # "exited"
    BY <2>1 DEF Created
  <2>3. \A n : Started(n) => state'[d] # "exited"
    BY <2>1 DEF Started
  <2>4. \A n : Removed(n) => state'[d] # "exited"
    BY <2>1 DEF Removed
  <2>5. CASE UNCHANGED state
    BY <2>1, <2>5
  <2>6. CASE TargetStop \/ TargetRemove \/ TargetStart \/ AnchorExit \/ \E c \in Deps : DepCompose(c)
    BY <2>1, <2>6 DEF TargetStop, TargetRemove, TargetStart, AnchorExit, DepCompose
  <2>7. CASE TargetRecreate \/ AnchorRemove \/ RemoveOld \/ CreateAnchor \/ RemoveDep \/ CreateDep
    BY <2>2, <2>4, <2>5, <2>7 DEF TargetRecreate, AnchorRemove, RemoveOld, CreateAnchor, RemoveDep,
       CreateDep, world
  <2>8. CASE \/ \E e \in starts : StartSibling(e[1], e[2])
             \/ StartOld \/ StartAnchor \/ StartDep
    BY <2>3, <2>5, <2>8 DEF StartSibling, StartOld, StartAnchor, StartDep, world
  <2>9. CASE \/ StreamBreaks \/ BackfillList \/ StartList \/ GoneList \/ ListError
             \/ \E e \in starts : StartSiblingFails(e[1], e[2])
             \/ Manage \/ WorkDone \/ ManageFails \/ RebindDone \/ RefuseDep \/ RebindFails
             \/ \E e \in plan.orphans : NextOrphan(e)
             \/ Subscribe \/ OnStreamError \/ OnEvent \/ Restart \/ UNCHANGED vars
    <3>1. UNCHANGED state
      BY <2>9 DEF StreamBreaks, BackfillList, StartList, GoneList, ListError, StartSiblingFails,
         Manage, WorkDone, ManageFails, RebindDone, RefuseDep, RebindFails, NextOrphan, Subscribe,
         OnStreamError, OnEvent, Restart, world, vars
    <3> QED BY <2>5, <3>1
  <2> QED BY <2>6, <2>7, <2>8, <2>9 DEF Next, Docker, Watch
<1> QED BY <1>1, <1>2, Invariant, PTL DEF Spec

\* Issue #10: recreateSAWithOrphanRebind takes the dependents along.  Once the
\* service-anchor is in the running target's namespace and every event handled,
\* no dependent the watcher answers for is left in another namespace or waiting,
\* however docker changes between the list, the removal and the rebinds.
THEOREM DependentsAreTaken == Spec => []DependentsFollow
<1>1. Init => TurnInv /\ DepInv
  <2> SUFFICES ASSUME Init PROVE TurnInv /\ DepInv  OBVIOUS
  <2>0. AutostartAssumption  BY AutostartAssumption
  <2>1. /\ pc = "list" /\ job.kind = "backfill" /\ plan.do = "none" /\ plan.orphans = {}
    BY DEF Init, NoJob, NoPlan
  <2>2. TurnInv
    BY <2>1 DEF TurnInv
  <2>3. ASSUME NEW d \in Deps \ adrift, Present(d) PROVE DepOK(d)
    <3>1. /\ d \in Names /\ d # Target /\ d # Anchor /\ Parent(d) = Anchor
          /\ state[d] \in {"absent", "created", "running"} /\ d \notin Siblings
      BY <2>0, NameFacts DEF Init, Children
    <3>2. Resolves(d) \/ ref[d] = ByName
      BY <2>3 DEF Init
    <3>3. state[d] = "running" => ref[d] # ByName
      <4>1. state[d] = "running" => ref[d] \in 1..gen[Parent(d)]
        BY <3>1 DEF Init
      <4>2. gen[Parent(d)] = 1
        BY <3>1, <2>0, NameFacts DEF Init, Names, Children
      <4> QED BY <4>1, <4>2 DEF ByName
    <3>4. RefersWell(d)
      BY <2>3, <3>1, <3>2, <3>3 DEF RefersWell, Resolves, Present
    <3>5. state[d] = "running" => state[Anchor] = "running"
      BY DEF Init
    <3>6. /\ d \in joined <=> /\ state[d] = "running" /\ state[Target] = "running"
                              /\ ref[Anchor] = gen[Target] /\ state[Anchor] = "running"
          /\ Anchor \in joined <=> /\ state[Target] = "running"
                                   /\ ref[Anchor] = gen[Target] /\ state[Anchor] = "running"
      BY DEF Init
    <3>7. FollowsJoin(d)
      BY <3>5, <3>6 DEF FollowsJoin
    <3> QED BY <2>1, <3>4, <3>7 DEF DepOK, StartPending
  <2> QED BY <2>2, <2>3 DEF DepInv
<1>2. IInv /\ TurnInv /\ DepInv /\ [Next]_vars => TurnInv' /\ DepInv'
  <2> SUFFICES ASSUME IInv, TurnInv, DepInv, [Next]_vars PROVE TurnInv' /\ DepInv'  OBVIOUS
  <2>0. AutostartAssumption  BY AutostartAssumption
  <2>1. CASE Next
    <3>1. TurnInv'
      BY <2>0, <2>1, TurnStepInv
    <3>2. ASSUME AutoFix, NEW d \in Deps \ adrift', state'[d] # "absent" PROVE DepOK(d)'
      <4>1. CASE Docker
        BY <2>0, <3>2, <4>1, DockerDeps
      <4>2. CASE BackfillList \/ StartList \/ GoneList \/ ListError
        BY <2>0, <3>2, <4>2, ListDeps
      <4>3. CASE \/ \E e \in starts : StartSibling(e[1], e[2]) \/ StartSiblingFails(e[1], e[2])
                 \/ StartOld \/ StartAnchor \/ StartDep
        BY <2>0, <3>2, <4>3, StartDeps
      <4>4. CASE \/ Manage \/ WorkDone \/ ManageFails \/ RebindDone \/ RefuseDep \/ RebindFails
                 \/ \E e \in plan.orphans : NextOrphan(e)
        BY <2>0, <3>2, <4>4, TurnDeps
      <4>5. CASE RemoveOld \/ RemoveDep \/ CreateAnchor \/ CreateDep
        BY <2>0, <3>2, <4>5, ReplaceDeps
      <4>6. CASE Subscribe \/ OnStreamError \/ OnEvent \/ Restart
        BY <2>0, <3>2, <4>6, LoopDeps
      <4> QED BY <2>1, <4>1, <4>2, <4>3, <4>4, <4>5, <4>6 DEF Next, Watch
    <3> QED BY <3>1, <3>2 DEF DepInv, Present
  <2>2. CASE UNCHANGED vars
    <3>1. UNCHANGED <<gen, state, ref, joined, queue, pc, job, starts, plan, dep, missed, adrift>>
      BY <2>2 DEF vars, world, sub, handler, history
    <3>2. TurnInv'
      BY <3>1 DEF TurnInv
    <3>3. DepInv'
      BY <3>1 DEF DepInv, DepOK, Present, Orphan, RefersWell, FollowsJoin, StartPending
    <3> QED BY <3>2, <3>3
  <2> QED BY <2>1, <2>2
<1>3. IInv /\ DepInv /\ (\A d \in Deps : state[d] # "exited") => DependentsFollow
  <2> SUFFICES ASSUME IInv, DepInv, \A d \in Deps : state[d] # "exited", Quiet, ~missed, InPlace, AutoFix,
                      NEW d \in Deps \ adrift, Present(d)
               PROVE  d \in joined
    BY DEF DependentsFollow
  <2>1. pc = "idle" /\ queue = <<>> /\ starts = {} /\ Anchor \in joined /\ state[Anchor] = "running"
    BY DEF Quiet, InPlace, IInv, HandlerInv
  <2>2. DepOK(d) /\ ~Orphan(d) /\ ~StartPending(d)
    BY <2>1 DEF DepInv, Orphan, Rebinding, StartPending
  <2>3. state[d] # "created" /\ FollowsJoin(d)
    BY <2>1, <2>2 DEF DepOK
  <2>4. state[d] \in States \ {"exited"} /\ Present(d)
    BY DEF IInv, WorldInv, Names
  <2> QED BY <2>1, <2>3, <2>4 DEF FollowsJoin, Present, States
<1> QED BY <1>1, <1>2, <1>3, Invariant, DepsRunOn, PTL DEF Spec

-----------------------------------------------------------------------------
(* InPlaceWhenQuiet.  While the target runs, a service-anchor that is missing, *)
(* waits, or sits in the namespace of a replaced target is on somebody's list: *)
(* the next list will find it, or the handler at work is about to mend it.     *)

StartQueued == \E i \in DOMAIN queue : queue[i] = <<"start", Target, gen[Target]>>
GoneQueued  == \E i \in DOMAIN queue : queue[i][1] = "destroy"
\* The list of the present target's own start, or of the backfill, is next.
Looking ==
    /\ pc = "list"
    /\ \/ job.kind = "backfill"
       \/ job.kind = "start" /\ job.name = Target /\ job.gen = gen[Target]
Recreating == plan.do = "recreate" /\ pc \in {"work", "remove"}
Respawning ==
    \/ pc = "list" /\ job.kind = "destroy"
    \/ pc = "work" /\ plan.do \in {"create", "recreate"}
    \/ pc \in {"remove", "create"}

AnchorCare ==
    /\ state[Anchor] = "absent" => GoneQueued \/ Respawning
    /\ state[Anchor] = "created" /\ Resolves(Anchor) =>
          pc = "start" \/ <<Anchor, gen[Anchor]>> \in starts
    /\ state[Anchor] = "running" /\ Anchor \notin joined /\ ref[Anchor] # ByName => Recreating

CareInv ==
    ~missed /\ state[Target] = "running" => Looking \/ StartQueued \/ AnchorCare

\* No reference is ahead of the target, plans are about the present
\* service-anchor, and one that refers to the present run of the target is in it.
AnchorInv ==
    /\ ref[Anchor] <= gen[Target]
    /\ pc = "start" \/ Recreating => plan.old = gen[Anchor]
    /\ state[Anchor] = "running" /\ ref[Anchor] = gen[Target] =>
          /\ state[Target] # "created"
          /\ state[Target] = "running" /\ ~missed => Anchor \in joined

\* A step that leaves the service-anchor and the target as they are.
LEMMA CareKept ==
    ASSUME AutostartAssumption, CareInv,
           missed => missed',
           state'[Target] = "running" => state[Target] = "running",
           gen'[Target] = gen[Target], gen'[Anchor] = gen[Anchor],
           state'[Anchor] = state[Anchor], ref'[Anchor] = ref[Anchor],
           Anchor \in joined => Anchor \in joined',
           \A i \in DOMAIN queue : i \in DOMAIN queue' /\ queue'[i] = queue[i],
           Looking => Looking',
           <<Anchor, gen[Anchor]>> \in starts => <<Anchor, gen[Anchor]>> \in starts',
           pc = "start" /\ state[Anchor] = "created" => pc' = "start",
           Respawning /\ state[Anchor] = "absent" => Respawning',
           Recreating /\ state[Anchor] = "running" => Recreating'
    PROVE  CareInv'
<1> SUFFICES ASSUME ~missed', state'[Target] = "running", ~Looking', ~StartQueued'
             PROVE  AnchorCare'
  BY DEF CareInv
<1>1. AnchorCare
  BY DEF CareInv, StartQueued
<1>2. GoneQueued => GoneQueued'
  BY DEF GoneQueued
<1>3. Resolves(Anchor)' => Resolves(Anchor)
  BY NameFacts DEF Resolves, Present
<1> QED BY <1>1, <1>2, <1>3 DEF AnchorCare

LEMMA DockerCare ==
    ASSUME AutostartAssumption, IInv, CareInv, Docker
    PROVE  CareInv'
<1>1. UNCHANGED <<pc, job, starts, plan, dep>>
  BY DEF Docker, TargetStop, TargetRecreate, TargetRemove, TargetStart, AnchorRemove, AnchorExit,
         DepCompose, StreamBreaks, Change, handler
<1>2. gen \in [Names -> Nat] /\ state \in [Names -> States] /\ ref \in [Names -> Nat]
      /\ queue \in Seq(Events) /\ Anchor \in Names /\ Target \in Names /\ Anchor # Target
      /\ gen[Anchor] \in Nat /\ gen[Target] \in Nat
  BY NameFacts DEF IInv, WorldInv, Children
<1>3. CASE TargetStop \/ TargetRemove \/ TargetRecreate
  <2>1. state'[Target] # "running"
    BY <1>2, <1>3 DEF TargetStop, TargetRemove, TargetRecreate, Created
  <2> QED BY <2>1 DEF CareInv
<1>4. CASE TargetStart
  <2>1. CASE stream
    <3>1. queue' = Append(queue, <<"start", Target, gen[Target]>>) /\ gen' = gen
      BY <1>4, <2>1 DEF TargetStart, Emit
    <3>2. Len(queue) + 1 \in DOMAIN queue' /\ queue'[Len(queue) + 1] = <<"start", Target, gen[Target]>>
      BY <1>2, <3>1
    <3> QED BY <3>1, <3>2 DEF CareInv, StartQueued
  <2>2. CASE ~stream
    <3>1. ~missed' => pc = "list" /\ job.kind = "backfill"
      BY <1>4, <2>2 DEF TargetStart, Unheard
    <3> QED BY <1>1, <3>1 DEF CareInv, Looking
  <2> QED BY <2>1, <2>2
<1>5. CASE AnchorRemove
  <2>1. CASE stream
    <3>1. /\ queue' = Append(queue, <<"destroy", Anchor, gen[Anchor]>>)
          /\ state' = [state EXCEPT ![Anchor] = "absent"]
      BY <1>5, <2>1 DEF AnchorRemove, Removed, Emit
    <3>2. /\ Len(queue) + 1 \in DOMAIN queue'
          /\ queue'[Len(queue) + 1] = <<"destroy", Anchor, gen[Anchor]>>
      BY <1>2, <3>1
    <3>3. GoneQueued' /\ state'[Anchor] = "absent"
      BY <1>2, <3>1, <3>2 DEF GoneQueued
    <3> QED BY <3>3 DEF CareInv, AnchorCare
  <2>2. CASE ~stream
    <3>1. ~missed' => pc = "list" /\ job.kind = "backfill"
      BY <1>5, <2>2 DEF AnchorRemove, Unheard
    <3> QED BY <1>1, <3>1 DEF CareInv, Looking
  <2> QED BY <2>1, <2>2
<1>6. CASE AnchorExit
  <2>1. state'[Anchor] = "exited"
    BY <1>2, <1>6 DEF AnchorExit
  <2> QED BY <2>1 DEF CareInv, AnchorCare
<1>7. ASSUME NEW d \in Deps, DepCompose(d) PROVE CareInv'
  <2>1. d \in Names /\ d # Target /\ d # Anchor
    BY NameFacts DEF Children
  <2>2. /\ gen'[Target] = gen[Target] /\ gen'[Anchor] = gen[Anchor] /\ ref'[Anchor] = ref[Anchor]
        /\ state'[Target] = state[Target] /\ state'[Anchor] = state[Anchor]
        /\ UNCHANGED <<queue, missed>> /\ (Anchor \in joined => Anchor \in joined')
    BY <1>2, <1>7, <2>1 DEF DepCompose
  <2> QED BY <1>1, <2>2, CareKept DEF Looking, Respawning, Recreating
<1>8. CASE StreamBreaks
  <2>1. UNCHANGED <<gen, state, ref, joined, queue, missed>>
    BY <1>8 DEF StreamBreaks, world, history
  <2> QED BY <1>1, <2>1, CareKept DEF Looking, Respawning, Recreating
<1> QED BY <1>3, <1>4, <1>5, <1>6, <1>7, <1>8 DEF Docker

\* What the list of the running target's container finds.
LEMMA CareListed ==
    ASSUME AutostartAssumption, IInv, AnchorInv, ~missed, state[Target] = "running", NEW b \in BOOLEAN,
           UNCHANGED <<gen, state, ref, joined>>, pc' = "work",
           plan' = maybeManage(gen[Target], b)
    PROVE  /\ state[Anchor] = "absent" => Respawning'
           /\ state[Anchor] = "running" /\ Anchor \notin joined /\ ref[Anchor] # ByName => Recreating'
           /\ state[Anchor] = "created" /\ Resolves(Anchor)
                 => <<Anchor, gen[Anchor]>> \in matchSiblings(Target, gen[Target])
<1>1. state[Anchor] = "absent" => Respawning'
  BY DEF maybeManage, Respawning, NoPlan
<1>2. ASSUME state[Anchor] = "running", Anchor \notin joined, ref[Anchor] # ByName PROVE Recreating'
  <2>1. ~Resolves(Anchor)
    BY <1>2, NameFacts DEF AnchorInv, Resolves
  <2> QED BY <1>2, <2>1 DEF maybeManage, saTargetsStaleNetns, Recreating
<1>3. state[Anchor] = "created" /\ Resolves(Anchor)
         => <<Anchor, gen[Anchor]>> \in matchSiblings(Target, gen[Target])
  BY NameFacts DEF Resolves, matchSiblings, Children
<1> QED BY <1>1, <1>2, <1>3

LEMMA ListCare ==
    ASSUME AutostartAssumption, IInv, AnchorInv, CareInv,
           BackfillList \/ StartList \/ GoneList \/ ListError
    PROVE  CareInv'
<1>1. UNCHANGED <<gen, state, ref, joined, queue>> /\ pc = "list"
  BY DEF BackfillList, StartList, GoneList, ListError, world, sub
<1>2. starts = {} /\ job.name \in {Target, Anchor}
  BY <1>1 DEF IInv, HandlerInv
<1>3. AnchorCare => /\ state[Anchor] = "absent" => GoneQueued \/ job.kind = "destroy"
                    /\ ~(state[Anchor] = "created" /\ Resolves(Anchor))
                    /\ ~(state[Anchor] = "running" /\ Anchor \notin joined /\ ref[Anchor] # ByName)
  BY <1>1, <1>2 DEF AnchorCare, Respawning, Recreating
<1>4. (Resolves(Anchor)' <=> Resolves(Anchor)) /\ (GoneQueued' <=> GoneQueued)
      /\ (StartQueued' <=> StartQueued)
  BY <1>1 DEF Resolves, Present, GoneQueued, StartQueued
<1> SUFFICES ASSUME ~missed', state[Target] = "running", ~StartQueued PROVE AnchorCare'
  BY <1>1, <1>4 DEF CareInv
<1>5. CASE BackfillList
  <2>1. /\ \E b \in BOOLEAN : plan' = maybeManage(gen[Target], b)
        /\ pc' = "work" /\ ~missed
        /\ matchSiblings(Target, gen[Target]) \subseteq starts'
    BY <1>5 DEF BackfillList, history
  <2> QED BY <1>1, <1>4, <2>1, CareListed DEF AnchorCare
<1>6. CASE StartList
  <2>1. /\ pc' = "work" /\ job.kind = "start" /\ ~missed
        /\ starts' = matchSiblings(job.name, job.gen)
        /\ plan' = IF job.name = Target THEN maybeManage(job.gen, FALSE) ELSE NoPlan
    BY <1>6 DEF StartList, history
  <2>2. CASE Looking
    BY <1>1, <1>4, <2>1, <2>2, CareListed DEF AnchorCare, Looking
  <2>3. CASE ~Looking
    <3>1. AnchorCare
      BY <2>1, <2>3 DEF CareInv
    <3> QED BY <1>1, <1>3, <1>4, <2>1, <3>1 DEF AnchorCare
  <2> QED BY <2>2, <2>3
<1>7. CASE GoneList
  <2>1. /\ pc' = "work" /\ job.kind = "destroy" /\ ~missed
        /\ plan' = maybeManage(gen[Target], FALSE)
    BY <1>7 DEF GoneList, history
  <2>2. AnchorCare
    BY <2>1 DEF CareInv, Looking
  <2> QED BY <1>1, <1>3, <1>4, <2>1, <2>2, CareListed DEF AnchorCare
<1>8. CASE ListError
  BY <1>8 DEF ListError
<1> QED BY <1>5, <1>6, <1>7, <1>8

\* The starts, siblings' and the watcher's own.
LEMMA StartCare ==
    ASSUME AutostartAssumption, IInv, CareInv,
           \/ \E e \in starts : StartSibling(e[1], e[2]) \/ StartSiblingFails(e[1], e[2])
           \/ StartOld \/ StartAnchor \/ StartDep
    PROVE  CareInv'
<1>1. /\ WorldInv /\ HandlerInv /\ gen \in [Names -> Nat] /\ state \in [Names -> States]
      /\ Anchor \in Names /\ Target \in Names /\ Anchor # Target
  BY NameFacts DEF IInv, WorldInv, Children
<1>2. ASSUME NEW n \in Children, NEW g, CanStart(n, g), Started(n)
      PROVE  /\ UNCHANGED <<gen, ref, missed>> /\ state'[Target] = state[Target]
             /\ \A i \in DOMAIN queue : i \in DOMAIN queue' /\ queue'[i] = queue[i]
             /\ Anchor \in joined => Anchor \in joined'
             /\ n # Anchor \/ state[Anchor] = "running" => state'[Anchor] = state[Anchor]
             /\ n = Anchor /\ state[Anchor] # "running" => state'[Anchor] = "running" /\ Anchor \in joined'
  <2>1. /\ gen' = gen /\ missed' = missed /\ state' = [state EXCEPT ![n] = "running"]
        /\ \A i \in DOMAIN queue : i \in DOMAIN queue' /\ queue'[i] = queue[i]
    BY <1>1, <1>2, StartedWorld
  <2>2. ref' = ref /\ n # Target
    BY <1>2 DEF Started, Children
  <2>3. Anchor \in joined => Anchor \in joined'
    BY <1>2, NameFacts DEF Started
  <2>4. n = Anchor /\ state[Anchor] # "running" => Anchor \in joined'
    BY <1>2, NameFacts DEF Started
  <2> QED BY <1>1, <2>1, <2>2, <2>3, <2>4
<1>3. ASSUME NEW n \in Children, NEW g, CanStart(n, g), Started(n), pc # "list",
             Recreating => Recreating',
             n # Anchor => /\ Respawning => Respawning'
                           /\ pc = "start" => pc' = "start"
                           /\ \A h : <<Anchor, h>> \in starts => <<Anchor, h>> \in starts'
      PROVE  CareInv'
  <2>1. CASE n = Anchor /\ state[Anchor] # "running"
    BY <1>2, <1>3, <2>1 DEF CareInv, AnchorCare
  <2>2. CASE n # Anchor
    <3>1. ~Looking
      BY <1>3 DEF Looking
    <3> QED BY <1>2, <1>3, <2>2, <3>1, CareKept
  <2>3. CASE n = Anchor /\ state[Anchor] = "running"
    <3>1. ~Looking /\ state'[Anchor] = "running" /\ (Anchor \notin joined' => Anchor \notin joined)
      BY <1>2, <1>3, <2>3 DEF Looking
    <3>2. StartQueued => StartQueued'
      BY <1>2, <1>3 DEF StartQueued
    <3> QED BY <1>2, <1>3, <3>1, <3>2, <2>3 DEF CareInv, AnchorCare
  <2> QED BY <2>1, <2>2, <2>3
<1>4. ASSUME NEW e \in starts, StartSibling(e[1], e[2]) PROVE CareInv'
  <2>1. /\ pc = "work" /\ UNCHANGED <<pc, job, plan, dep>> /\ starts' = starts \ {e}
        /\ e[1] \in Children /\ e = <<e[1], e[2]>>
    BY <1>1, <1>4 DEF StartSibling, HandlerInv
  <2>2. CASE CanStart(e[1], e[2])
    <3>1. Started(e[1])
      BY <1>4, <2>2 DEF StartSibling
    <3>2. \A h : <<Anchor, h>> \in starts /\ e[1] # Anchor => <<Anchor, h>> \in starts'
      BY <2>1
    <3> QED BY <1>3, <2>1, <2>2, <3>1, <3>2 DEF Recreating, Respawning
  <2>3. CASE ~CanStart(e[1], e[2])
    <3>1. UNCHANGED <<gen, state, ref, joined, queue, missed>>
      BY <1>4, <2>3 DEF StartSibling, world, sub, history
    <3>2. CASE e # <<Anchor, gen[Anchor]>>
      BY <2>1, <3>1, <3>2, CareKept DEF Looking, Respawning, Recreating
    <3>3. CASE e = <<Anchor, gen[Anchor]>>
      <4>1. state[Target] = "running" => ~(state[Anchor] = "created" /\ Resolves(Anchor))
        BY <2>3, <3>3, NameFacts DEF CanStart, Present
      <4>2. (StartQueued => StartQueued') /\ (GoneQueued => GoneQueued') /\ (Resolves(Anchor)' <=> Resolves(Anchor))
        BY <3>1 DEF StartQueued, GoneQueued, Resolves, Present
      <4>3. ~Looking /\ (Respawning => Respawning') /\ (Recreating => Recreating')
        BY <2>1 DEF Looking, Respawning, Recreating
      <4> QED BY <3>1, <4>1, <4>2, <4>3 DEF CareInv, AnchorCare
    <3> QED BY <3>2, <3>3
  <2> QED BY <2>2, <2>3
<1>5. ASSUME NEW e \in starts, StartSiblingFails(e[1], e[2]) PROVE CareInv'
  BY <1>5 DEF StartSiblingFails, CareInv
<1>6. CASE StartOld
  <2>1. pc = "startOld" /\ UNCHANGED <<job, starts>>
    BY <1>6 DEF StartOld, Managed
  <2>2. CASE CanStart(Anchor, plan.old)
    <3>1. Started(Anchor) /\ ~Recreating
      BY <1>6, <2>1, <2>2 DEF StartOld, Recreating
    <3> QED BY <1>3, <2>1, <2>2, <3>1, NameFacts
  <2>3. CASE ~CanStart(Anchor, plan.old)
    <3>1. UNCHANGED <<gen, state, ref, joined, queue, missed>>
      BY <1>6, <2>3 DEF StartOld, world, sub, history
    <3> QED BY <2>1, <3>1, CareKept DEF Looking, Respawning, Recreating
  <2> QED BY <2>2, <2>3
<1>7. CASE StartAnchor
  <2>1. pc = "start" /\ CanStart(Anchor, plan.old) /\ Started(Anchor) /\ ~Recreating
    BY <1>7 DEF StartAnchor, Recreating
  <2> QED BY <1>3, <2>1, NameFacts
<1>8. CASE StartDep
  <2>1. /\ pc = "depStart" /\ CanStart(dep[1], dep[2]) /\ Started(dep[1]) /\ UNCHANGED starts
        /\ dep[1] \in Children /\ dep[1] # Anchor
    BY <1>1, <1>8, NameFacts DEF StartDep, HandlerInv
  <2>2. ~Recreating /\ ~Respawning
    BY <2>1 DEF Recreating, Respawning
  <2> QED BY <1>3, <2>1, <2>2
<1> QED BY <1>4, <1>5, <1>6, <1>7, <1>8

\* Steps between docker calls, and calls that fail.
LEMMA TurnCare ==
    ASSUME AutostartAssumption, IInv, AnchorInv, CareInv,
           \/ Manage \/ WorkDone \/ ManageFails \/ RebindDone \/ RefuseDep \/ RebindFails
           \/ \E e \in plan.orphans : NextOrphan(e)
    PROVE  CareInv'
<1>1. /\ UNCHANGED <<gen, state, ref, joined, queue, starts>> /\ pc # "list"
      /\ missed => missed'
  <2>1. UNCHANGED <<gen, state, ref, joined, queue>> /\ pc # "list"
    BY DEF Manage, WorkDone, ManageFails, RebindDone, RefuseDep, RebindFails, NextOrphan, world, sub
  <2>2. missed => missed'
    BY DEF Manage, WorkDone, ManageFails, RebindDone, RefuseDep, RebindFails, NextOrphan, history
  <2>3. starts' = starts
    BY DEF Manage, WorkDone, ManageFails, RebindDone, RefuseDep, RebindFails, NextOrphan, handler, Done, Managed
  <2> QED BY <2>1, <2>2, <2>3
<1>2. ~Looking /\ HandlerInv
  BY <1>1 DEF Looking, IInv
<1>3. CASE Manage
  <2>1. /\ pc = "work" /\ UNCHANGED plan
        /\ plan.do \in {"none", "create", "start", "recreate"}
        /\ pc' = CASE plan.do = "create" -> "create" [] plan.do = "recreate" -> "remove"
                   [] OTHER -> "startOld"
    BY <1>2, <1>3 DEF Manage, handler, HandlerInv
  <2>2. (Respawning => Respawning') /\ (Recreating => Recreating')
    BY <2>1 DEF Respawning, Recreating
  <2> QED BY <1>1, <1>2, <2>1, <2>2, CareKept
<1>4. CASE \/ WorkDone \/ RebindDone \/ RefuseDep \/ RebindFails \/ \E e \in plan.orphans : NextOrphan(e)
  <2>1. ~Respawning /\ ~Recreating /\ pc # "start"
    BY <1>4 DEF WorkDone, RebindDone, RefuseDep, RebindFails, NextOrphan, Respawning, Recreating
  <2> QED BY <1>1, <1>2, <2>1, CareKept
<1>5. CASE ManageFails
  <2> SUFFICES ASSUME ~missed', state[Target] = "running", ~StartQueued PROVE AnchorCare'
    BY <1>1 DEF CareInv, StartQueued
  <2>1. AnchorCare
    BY <1>1, <1>2 DEF CareInv
  <2>2. (pc = "create" /\ Present(Anchor)) \/ (pc = "start" /\ ~CanStart(Anchor, plan.old))
    BY <1>5 DEF ManageFails
  <2>6. ~Recreating
    BY <2>2 DEF Recreating
  <2>3. state[Anchor] = "absent" => GoneQueued
    BY <2>1, <2>2 DEF AnchorCare, Respawning, Present
  <2>4. state[Anchor] = "created" /\ Resolves(Anchor) => <<Anchor, gen[Anchor]>> \in starts
    <3> SUFFICES ASSUME state[Anchor] = "created", Resolves(Anchor), pc = "start" PROVE FALSE
      BY <2>1 DEF AnchorCare
    <3>1. plan.old = gen[Anchor]
      BY DEF AnchorInv
    <3> QED BY <2>2, <3>1, NameFacts DEF CanStart, Present
  <2>5. (Resolves(Anchor)' <=> Resolves(Anchor)) /\ (GoneQueued => GoneQueued')
    BY <1>1 DEF Resolves, Present, GoneQueued
  <2> QED BY <1>1, <2>1, <2>2, <2>3, <2>4, <2>5, <2>6 DEF AnchorCare
<1> QED BY <1>3, <1>4, <1>5

LEMMA ReplaceCare ==
    ASSUME AutostartAssumption, IInv, AnchorInv, CareInv,
           RemoveOld \/ RemoveDep \/ CreateAnchor \/ CreateDep
    PROVE  CareInv'
<1>1. /\ WorldInv /\ HandlerInv /\ gen \in [Names -> Nat] /\ state \in [Names -> States]
      /\ ref \in [Names -> Nat] /\ queue \in Seq(Events)
      /\ Anchor \in Names /\ Target \in Names /\ Anchor # Target
  BY NameFacts DEF IInv, WorldInv, Children
<1>2. CASE RemoveOld
  <2>1. /\ pc = "remove" /\ pc' = "create" /\ UNCHANGED <<job, starts, plan, missed>>
        /\ ~Looking /\ Respawning'
    BY <1>2 DEF RemoveOld, Goto, handler, history, Looking, Respawning
  <2>2. CASE Present(Anchor) /\ gen[Anchor] = plan.old
    <3>1. state'[Anchor] = "absent"
      BY <1>1, <1>2, <2>2 DEF RemoveOld, Removed
    <3> QED BY <2>1, <3>1 DEF CareInv, AnchorCare
  <2>3. CASE ~(Present(Anchor) /\ gen[Anchor] = plan.old)
    <3>1. UNCHANGED <<gen, state, ref, joined, queue>>
      BY <1>2, <2>3 DEF RemoveOld, world, sub
    <3>2. ~(Recreating /\ state[Anchor] = "running")
      BY <2>3 DEF AnchorInv, Present
    <3> QED BY <2>1, <3>1, <3>2, CareKept
  <2> QED BY <2>2, <2>3
<1>3. CASE RemoveDep
  <2>1. /\ pc = "depRemove" /\ Removed(dep[1]) /\ UNCHANGED <<starts, missed>>
        /\ dep[1] # Anchor /\ dep[1] # Target
    BY <1>1, <1>3, NameFacts DEF RemoveDep, Goto, handler, history, HandlerInv, Children
  <2>2. /\ UNCHANGED <<gen, queue>> /\ state'[Target] = state[Target] /\ state'[Anchor] = state[Anchor]
        /\ ref'[Anchor] = ref[Anchor] /\ (Anchor \in joined => Anchor \in joined')
    BY <1>1, <2>1 DEF Removed
  <2>3. ~Looking /\ ~Respawning /\ ~Recreating
    BY <2>1 DEF Looking, Respawning, Recreating
  <2> QED BY <2>1, <2>2, <2>3, CareKept
<1>4. CASE CreateAnchor
  <2>1. pc' = "start" /\ state'[Anchor] = "created"
    BY <1>1, <1>4 DEF CreateAnchor, Created
  <2> QED BY <2>1 DEF CareInv, AnchorCare
<1>5. CASE CreateDep
  <2>1. /\ pc = "depCreate" /\ Created(dep[1], plan.old) /\ UNCHANGED <<starts, missed, joined, queue>>
        /\ dep[1] # Anchor /\ dep[1] # Target
    BY <1>1, <1>5, NameFacts DEF CreateDep, history, sub, HandlerInv, Children
  <2>2. /\ gen'[Target] = gen[Target] /\ gen'[Anchor] = gen[Anchor]
        /\ state'[Target] = state[Target] /\ state'[Anchor] = state[Anchor] /\ ref'[Anchor] = ref[Anchor]
    BY <1>1, <2>1 DEF Created
  <2>3. ~Looking /\ ~Respawning /\ ~Recreating
    BY <2>1 DEF Looking, Respawning, Recreating
  <2> QED BY <2>1, <2>2, <2>3, CareKept
<1> QED BY <1>2, <1>3, <1>4, <1>5

LEMMA LoopCare ==
    ASSUME AutostartAssumption, IInv, CareInv, Subscribe \/ OnStreamError \/ OnEvent \/ Restart
    PROVE  CareInv'
<1>1. queue \in Seq(Events) /\ HandlerInv /\ SubInv
  BY DEF IInv, WorldInv
<1>2. CASE Subscribe \/ (OnStreamError /\ queue = <<>>)
  <2>1. UNCHANGED <<gen, state, ref, joined, starts, plan>> /\ pc \in {"subscribe", "idle"}
    BY <1>2 DEF Subscribe, OnStreamError, Goto, handler, world
  <2>5. missed => missed'
    BY <1>2, Zenon DEF Subscribe, OnStreamError, history
  <2>2. queue = <<>>
    BY <1>1, <1>2 DEF Subscribe, SubInv
  <2>3. \A i \in DOMAIN queue : i \in DOMAIN queue' /\ queue'[i] = queue[i]
    BY <2>2
  <2>4. ~Looking /\ ~Respawning /\ ~Recreating
    BY <2>1 DEF Looking, Respawning, Recreating
  <2> QED BY <2>1, <2>3, <2>4, <2>5, CareKept
<1>3. CASE OnStreamError /\ queue # <<>>
  <2>1. missed'
    BY <1>3, Zenon DEF OnStreamError
  <2> QED BY <2>1 DEF CareInv
<1>4. CASE OnEvent
  <2>1. /\ UNCHANGED <<gen, state, ref, joined, missed, starts, plan>>
        /\ pc = "idle" /\ pc' = "list" /\ queue # <<>> /\ queue' = Tail(queue)
        /\ job' = [kind |-> queue[1][1], name |-> queue[1][2], gen |-> queue[1][3]]
    BY <1>1, <1>4 DEF OnEvent, world, history
  <2>2. \A i \in DOMAIN queue : i # 1 => i - 1 \in DOMAIN queue' /\ queue'[i - 1] = queue[i]
    BY <1>1, <2>1
  <2>3. StartQueued => Looking' \/ StartQueued'
    <3> SUFFICES ASSUME NEW i \in DOMAIN queue, queue[i] = <<"start", Target, gen[Target]>>
                 PROVE  Looking' \/ StartQueued'
      BY DEF StartQueued
    <3>1. CASE i = 1
      BY <2>1, <3>1 DEF Looking
    <3>2. CASE i # 1
      BY <2>1, <2>2, <3>2 DEF StartQueued
    <3> QED BY <3>1, <3>2
  <2>4. GoneQueued => Respawning' \/ GoneQueued'
    <3> SUFFICES ASSUME NEW i \in DOMAIN queue, queue[i][1] = "destroy"
                 PROVE  Respawning' \/ GoneQueued'
      BY DEF GoneQueued
    <3>1. CASE i = 1
      BY <2>1, <3>1 DEF Respawning
    <3>2. CASE i # 1
      BY <2>1, <2>2, <3>2 DEF GoneQueued
    <3> QED BY <3>1, <3>2
  <2>5. ~Looking /\ ~Respawning /\ ~Recreating
    BY <2>1 DEF Looking, Respawning, Recreating
  <2>6. Resolves(Anchor)' <=> Resolves(Anchor)
    BY <2>1 DEF Resolves, Present
  <2>7. AnchorCare => AnchorCare'
    BY <2>1, <2>4, <2>5, <2>6 DEF AnchorCare
  <2> QED BY <2>1, <2>3, <2>5, <2>7 DEF CareInv
<1>5. CASE Restart
  <2>1. pc' = "list" /\ job'.kind = "backfill"
    BY <1>5 DEF Restart, NoJob
  <2> QED BY <2>1 DEF CareInv, Looking
<1> QED BY <1>2, <1>3, <1>4, <1>5

\* A step that does not bring the service-anchor or the target up.
LEMMA AnchorKept ==
    ASSUME AnchorInv,
           gen'[Target] = gen[Target], gen'[Anchor] = gen[Anchor], ref'[Anchor] = ref[Anchor],
           state'[Anchor] = state[Anchor],
           state'[Target] \in {state[Target], "exited", "absent"},
           state'[Target] = "running" /\ Anchor \in joined => Anchor \in joined',
           missed => missed',
           pc' = "start" \/ Recreating' => plan'.old = gen[Anchor]
    PROVE  AnchorInv'
BY DEF AnchorInv

\* The namespace of an exited target is empty, so that starting it again in place
\* under its service-anchor is recorded in the history.
LEMMA DockerAnchor ==
    ASSUME AutostartAssumption, IInv, AnchorInv, Docker
    PROVE  AnchorInv'
<1>1. /\ WorldInv /\ gen \in [Names -> Nat] /\ state \in [Names -> States] /\ ref \in [Names -> Nat]
      /\ Anchor \in Names /\ Target \in Names /\ Anchor # Target
      /\ gen[Anchor] \in Nat /\ gen[Target] \in Nat /\ ref[Anchor] \in Nat
  BY NameFacts DEF IInv, WorldInv, Children
<1>2. UNCHANGED <<pc, job, starts, plan, dep>>
  BY DEF Docker, TargetStop, TargetRecreate, TargetRemove, TargetStart, AnchorRemove, AnchorExit,
         DepCompose, StreamBreaks, Change, handler
<1>3. (pc' = "start" \/ Recreating') => plan'.old = gen[Anchor]
  BY <1>2 DEF AnchorInv, Recreating
<1>4. CASE TargetStop \/ TargetRemove
  <2>1. /\ UNCHANGED <<gen, ref, missed>> /\ state'[Anchor] = state[Anchor]
        /\ state'[Target] \in {"exited", "absent"}
    BY <1>1, <1>4 DEF TargetStop, TargetRemove, history
  <2> QED BY <1>3, <2>1, AnchorKept
<1>5. CASE TargetRecreate
  <2>1. /\ gen'[Target] = gen[Target] + 1 /\ gen'[Anchor] = gen[Anchor] /\ ref'[Anchor] = ref[Anchor]
    BY <1>1, <1>5 DEF TargetRecreate, Created
  <2> QED BY <1>1, <1>3, <2>1 DEF AnchorInv
<1>6. CASE TargetStart
  <2>1. /\ UNCHANGED <<gen, ref, joined>> /\ state'[Anchor] = state[Anchor]
        /\ state[Target] \in {"created", "exited"}
    BY <1>1, <1>6 DEF TargetStart
  <2>2. joined = {}
    BY <2>1 DEF WorldInv, IInv, States
  <2>3. state[Target] = "exited" /\ state[Anchor] = "running" => missed'
    <3> SUFFICES ASSUME state[Target] = "exited", state[Anchor] = "running" PROVE missed'
      OBVIOUS
    <3>1. Stranded # {}
      BY <2>2 DEF Stranded
    <3>2. missed' = (missed \/ Unheard \/ (state[Target] = "exited" /\ Stranded # {}))
      BY <1>6 DEF TargetStart
    <3> QED BY <3>1, <3>2, Zenon
  <2>4. state[Anchor] = "running" /\ ref[Anchor] = gen[Target] => state[Target] = "exited"
    BY <2>1 DEF AnchorInv
  <2>5. state'[Target] = "running"
    BY <1>1, <1>6 DEF TargetStart
  <2> QED BY <1>3, <2>1, <2>3, <2>4, <2>5 DEF AnchorInv
<1>7. CASE AnchorRemove
  <2>1. gen' = gen /\ state'[Anchor] = "absent" /\ ref'[Anchor] = 0
    BY <1>1, <1>7 DEF AnchorRemove, Removed, ByName
  <2> QED BY <1>1, <1>3, <2>1 DEF AnchorInv
<1>8. CASE AnchorExit
  <2>1. UNCHANGED <<gen, ref>> /\ state'[Anchor] = "exited"
    BY <1>1, <1>8 DEF AnchorExit
  <2> QED BY <1>3, <2>1 DEF AnchorInv
<1>9. ASSUME NEW d \in Deps, DepCompose(d) PROVE AnchorInv'
  <2>1. d \in Names /\ d # Target /\ d # Anchor
    BY NameFacts DEF Children
  <2>2. /\ gen'[Target] = gen[Target] /\ gen'[Anchor] = gen[Anchor] /\ ref'[Anchor] = ref[Anchor]
        /\ state'[Target] = state[Target] /\ state'[Anchor] = state[Anchor]
        /\ UNCHANGED missed /\ (Anchor \in joined => Anchor \in joined')
    BY <1>1, <1>9, <2>1 DEF DepCompose
  <2> QED BY <1>3, <2>2, AnchorKept
<1>10. CASE StreamBreaks
  <2>1. UNCHANGED <<gen, state, ref, joined, missed>>
    BY <1>10 DEF StreamBreaks, world, history
  <2> QED BY <1>3, <2>1, AnchorKept
<1> QED BY <1>4, <1>5, <1>6, <1>7, <1>8, <1>9, <1>10 DEF Docker

\* Whatever docker grants to start: a started service-anchor joins the target.
LEMMA StartAnchorInv ==
    ASSUME AutostartAssumption, IInv, AnchorInv,
           \/ \E e \in starts : StartSibling(e[1], e[2]) \/ StartSiblingFails(e[1], e[2])
           \/ StartOld \/ StartAnchor \/ StartDep
    PROVE  AnchorInv'
<1>1. /\ WorldInv /\ HandlerInv /\ gen \in [Names -> Nat] /\ state \in [Names -> States]
      /\ Anchor \in Names /\ Target \in Names /\ Anchor # Target
  BY NameFacts DEF IInv, WorldInv, Children
<1>2. ASSUME NEW n \in Children, NEW g, CanStart(n, g), Started(n),
             pc' = "start" \/ Recreating' => plan'.old = gen[Anchor]
      PROVE  AnchorInv'
  <2>1. /\ UNCHANGED <<gen, ref, missed>> /\ state' = [state EXCEPT ![n] = "running"]
    BY <1>2 DEF Started
  <2>2. state'[Target] = state[Target] /\ n # Target
    BY <1>1, <2>1 DEF Children
  <2>3. CASE n # Anchor \/ state[Anchor] = "running"
    <3>1. Anchor \in joined => Anchor \in joined'
      BY <1>2, NameFacts DEF Started
    <3>2. state'[Anchor] = state[Anchor]
      BY <1>1, <2>1, <2>3
    <3> QED BY <1>2, <2>1, <2>2, <3>1, <3>2, AnchorKept
  <2>4. CASE n = Anchor /\ state[Anchor] # "running"
    <3>1. Anchor \in joined' /\ state[Target] = "running"
      BY <1>2, <2>4, NameFacts DEF Started, CanStart
    <3> QED BY <1>2, <2>1, <2>2, <3>1 DEF AnchorInv
  <2> QED BY <2>3, <2>4
<1>3. ASSUME UNCHANGED <<gen, state, ref, joined>>, missed => missed',
             pc' = "start" \/ Recreating' => plan'.old = gen[Anchor]
      PROVE  AnchorInv'
  BY <1>3, AnchorKept
<1>4. ASSUME NEW e \in starts, StartSibling(e[1], e[2]) \/ StartSiblingFails(e[1], e[2])
      PROVE  AnchorInv'
  <2>1. UNCHANGED <<pc, plan>> /\ e[1] \in Children
    BY <1>1, <1>4 DEF StartSibling, StartSiblingFails, HandlerInv
  <2>2. (pc' = "start" \/ Recreating') => plan'.old = gen[Anchor]
    BY <2>1 DEF AnchorInv, Recreating
  <2>3. \/ CanStart(e[1], e[2]) /\ Started(e[1])
        \/ UNCHANGED <<gen, state, ref, joined>> /\ UNCHANGED missed
        \/ UNCHANGED <<gen, state, ref, joined>> /\ missed'
    BY <1>4 DEF StartSibling, StartSiblingFails, world, history
  <2> QED BY <1>2, <1>3, <2>1, <2>2, <2>3
<1>5. CASE StartOld \/ StartAnchor \/ StartDep
  <2>1. pc' # "start" /\ ~Recreating'
    BY <1>5 DEF StartOld, StartAnchor, StartDep, Managed, Goto, NoPlan, Recreating
  <2>2. \/ \E n \in Children, g \in Nat : CanStart(n, g) /\ Started(n)
        \/ UNCHANGED <<gen, state, ref, joined>> /\ UNCHANGED missed
    <3>1. plan.old \in Nat
      BY <1>1 DEF HandlerInv
    <3>2. CASE StartOld
      BY <3>1, <3>2, NameFacts DEF StartOld, world, history
    <3>3. CASE StartAnchor
      BY <3>1, <3>3, NameFacts DEF StartAnchor
    <3>4. CASE StartDep
      <4>1. dep[1] \in Children /\ dep[2] \in Nat
        BY <1>1, <3>4, NameFacts DEF StartDep, HandlerInv
      <4> QED BY <3>4, <4>1 DEF StartDep
    <3> QED BY <1>5, <3>2, <3>3, <3>4
  <2> QED BY <1>2, <1>3, <2>1, <2>2
<1> QED BY <1>4, <1>5

\* The lists decide about the present service-anchor; nothing else but the
\* replacement changes it.
LEMMA HandlerAnchor ==
    ASSUME AutostartAssumption, IInv, AnchorInv,
           \/ BackfillList \/ StartList \/ GoneList \/ ListError
           \/ Manage \/ WorkDone \/ ManageFails \/ RebindDone \/ RefuseDep \/ RebindFails
           \/ \E e \in plan.orphans : NextOrphan(e)
           \/ Subscribe \/ OnStreamError \/ OnEvent \/ Restart
    PROVE  AnchorInv'
<1>1. UNCHANGED <<gen, state, ref, joined>>
  BY DEF BackfillList, StartList, GoneList, ListError, Manage, WorkDone, ManageFails, RebindDone,
         RefuseDep, RebindFails, NextOrphan, Subscribe, OnStreamError, OnEvent, Restart, world
<1>2. missed => missed'
  BY Zenon DEF BackfillList, StartList, GoneList, ListError, Manage, WorkDone, ManageFails, RebindDone,
         RefuseDep, RebindFails, NextOrphan, Subscribe, OnStreamError, OnEvent, Restart, history
<1>3. ASSUME NEW g, NEW b, plan' = maybeManage(g, b)
      PROVE  plan'.do = "recreate" => plan'.old = gen[Anchor]
  BY <1>3 DEF maybeManage, NoPlan
<1>4. (pc' = "start" \/ Recreating') => plan'.old = gen[Anchor]
  <2>1. CASE BackfillList \/ StartList \/ GoneList \/ ListError
    <3>1. pc' # "start"
      BY <2>1 DEF BackfillList, StartList, GoneList, ListError, Done
    <3>2. \/ plan' = NoPlan \/ \E b \in BOOLEAN : plan' = maybeManage(gen[Target], b)
          \/ plan' = maybeManage(job.gen, FALSE) \/ plan' = maybeManage(gen[Target], FALSE)
      BY <2>1, Zenon DEF BackfillList, StartList, GoneList, ListError, Done
    <3>3. NoPlan.do # "recreate"
      BY DEF NoPlan
    <3> QED BY <1>3, <3>1, <3>2, <3>3 DEF Recreating
  <2>2. CASE Manage
    BY <2>2 DEF Manage, handler, AnchorInv, Recreating
  <2>3. CASE \/ WorkDone \/ ManageFails \/ RebindDone \/ RefuseDep \/ RebindFails
             \/ \E e \in plan.orphans : NextOrphan(e)
    BY <2>3 DEF WorkDone, ManageFails, RebindDone, RefuseDep, RebindFails, NextOrphan, Managed, Done, NoPlan, Recreating
  <2>4. CASE Subscribe \/ OnStreamError \/ OnEvent \/ Restart
    BY <2>4 DEF Subscribe, OnStreamError, OnEvent, Restart, Goto, Recreating
  <2> QED BY <2>1, <2>2, <2>3, <2>4
<1> QED BY <1>1, <1>2, <1>4, AnchorKept

LEMMA ReplaceAnchor ==
    ASSUME AutostartAssumption, IInv, AnchorInv, RemoveOld \/ RemoveDep \/ CreateAnchor \/ CreateDep
    PROVE  AnchorInv'
<1>1. /\ WorldInv /\ HandlerInv /\ gen \in [Names -> Nat] /\ state \in [Names -> States]
      /\ ref \in [Names -> Nat] /\ gen[Target] \in Nat /\ gen[Anchor] \in Nat
      /\ Anchor \in Names /\ Target \in Names /\ Anchor # Target
  BY NameFacts DEF IInv, WorldInv, Children
<1>2. CASE RemoveOld
  <2>1. pc' = "create" /\ UNCHANGED <<gen, missed>>
    BY <1>2 DEF RemoveOld, Goto, Removed, world, history
  <2>2. CASE Removed(Anchor)
    <3>1. state'[Anchor] = "absent" /\ ref'[Anchor] = 0
      BY <1>1, <2>2 DEF Removed, ByName
    <3> QED BY <1>1, <2>1, <3>1 DEF AnchorInv, Recreating
  <2>3. CASE UNCHANGED world
    BY <2>1, <2>3, AnchorKept DEF world, Recreating
  <2> QED BY <1>2, <2>2, <2>3 DEF RemoveOld
<1>3. CASE RemoveDep \/ CreateDep
  <2>1. dep[1] \in Names /\ dep[1] # Anchor /\ dep[1] # Target
    BY <1>1, <1>3, NameFacts DEF RemoveDep, CreateDep, HandlerInv, Children
  <2>2. /\ gen'[Target] = gen[Target] /\ gen'[Anchor] = gen[Anchor] /\ ref'[Anchor] = ref[Anchor]
        /\ state'[Target] = state[Target] /\ state'[Anchor] = state[Anchor]
    BY <1>1, <1>3, <2>1 DEF RemoveDep, CreateDep, Removed, Created
  <2>3. (Anchor \in joined => Anchor \in joined') /\ UNCHANGED missed
    BY <1>3, <2>1 DEF RemoveDep, CreateDep, Removed, history
  <2>4. pc' \in {"depCreate", "depStart"}
    BY <1>3 DEF RemoveDep, CreateDep, Goto
  <2> QED BY <2>2, <2>3, <2>4, AnchorKept DEF Recreating
<1>4. CASE CreateAnchor
  <2>1. /\ gen'[Anchor] = gen[Anchor] + 1 /\ gen'[Target] = gen[Target]
        /\ state'[Anchor] = "created" /\ ref'[Anchor] \in {0, gen[Target]}
        /\ pc' = "start" /\ plan'.old = gen[Anchor] + 1
    BY <1>1, <1>4 DEF CreateAnchor, Created, ByName, HandlerInv
  <2> QED BY <1>1, <2>1 DEF AnchorInv
<1> QED BY <1>2, <1>3, <1>4

LEMMA CareNext ==
    ASSUME AutostartAssumption, IInv, AnchorInv, CareInv, [Next]_vars
    PROVE  AnchorInv' /\ CareInv'
<1>1. CASE UNCHANGED vars
  BY <1>1 DEF vars, world, sub, handler, history, AnchorInv, CareInv, AnchorCare, Recreating, Respawning,
              Looking, StartQueued, GoneQueued, Resolves, Present
<1>2. CASE Docker
  BY <1>2, DockerAnchor, DockerCare
<1>3. CASE BackfillList \/ StartList \/ GoneList \/ ListError
  BY <1>3, HandlerAnchor, ListCare
<1>4. CASE \/ \E e \in starts : StartSibling(e[1], e[2]) \/ StartSiblingFails(e[1], e[2])
           \/ StartOld \/ StartAnchor \/ StartDep
  BY <1>4, StartAnchorInv, StartCare
<1>5. CASE \/ Manage \/ WorkDone \/ ManageFails \/ RebindDone \/ RefuseDep \/ RebindFails
           \/ \E e \in plan.orphans : NextOrphan(e)
  BY <1>5, HandlerAnchor, TurnCare
<1>6. CASE RemoveOld \/ RemoveDep \/ CreateAnchor \/ CreateDep
  BY <1>6, ReplaceAnchor, ReplaceCare
<1>7. CASE Subscribe \/ OnStreamError \/ OnEvent \/ Restart
  BY <1>7, HandlerAnchor, LoopCare
<1> QED BY <1>1, <1>2, <1>3, <1>4, <1>5, <1>6, <1>7 DEF Next, Watch

\* F-45, the safety half of AnchorFollows: once every event is handled, a running
\* target has its service-anchor in its own namespace, whatever was removed,
\* recreated or upgraded and however the handlers interleaved with it, unless an
\* event or a call was lost or maybeManage met a state it has no answer to.
THEOREM AnchorIsInPlace == Spec => []InPlaceWhenQuiet
<1>1. Init => AnchorInv /\ CareInv
  <2> SUFFICES ASSUME Init PROVE AnchorInv /\ CareInv
    OBVIOUS
  <2>1. pc = "list" /\ job.kind = "backfill"
    BY DEF Init, NoJob
  <2>2. /\ gen[Target] = 2 /\ Anchor \in Names /\ Anchor # Target /\ Anchor \notin Siblings
        /\ Anchor \notin Deps /\ Parent(Anchor) = Target
    BY AutostartAssumption, NameFacts DEF Init, Children, AutostartAssumption
  <2>3. ref[Anchor] \in 0..2
    BY <2>2 DEF Init
  <2>4. state[Anchor] = "running" /\ ref[Anchor] = gen[Target] =>
            /\ state[Target] # "created"
            /\ state[Target] = "running" => Anchor \in joined
    BY DEF Init
  <2> QED BY <2>1, <2>2, <2>3, <2>4 DEF AnchorInv, CareInv, Looking, Recreating
<1>2. AnchorInv /\ CareInv /\ IInv /\ [Next]_vars => (AnchorInv /\ CareInv)'
  BY AutostartAssumption, CareNext
<1>3. IInv /\ AnchorInv /\ CareInv => InPlaceWhenQuiet
  <2> SUFFICES ASSUME IInv, AnchorInv, CareInv, Quiet, Attended PROVE InPlace
    BY DEF InPlaceWhenQuiet
  <2>1. starts = {} /\ queue = <<>> /\ pc = "idle"
    BY DEF Quiet, IInv, HandlerInv
  <2>2. ~Looking /\ ~StartQueued /\ ~GoneQueued /\ ~Respawning /\ ~Recreating
    BY <2>1 DEF Looking, StartQueued, GoneQueued, Respawning, Recreating
  <2>3. AnchorCare
    BY <2>2 DEF CareInv, Attended
  <2>4. state[Anchor] \in States
    BY AutostartAssumption, NameFacts DEF IInv, WorldInv, Children
  <2> QED BY <2>1, <2>2, <2>3, <2>4 DEF AnchorCare, Attended, BlindSpot, InPlace, States
<1> QED BY <1>1, <1>2, <1>3, Invariant, PTL DEF Spec

-----------------------------------------------------------------------------
(* The manager next to the detector of dead namespaces (module DeadNetns) *)

\* The detector of issue #9 only reads docker: next to it the manager takes the
\* very steps of module Autostart, so that what is proved of the manager alone
\* holds of the process with both goroutines.
THEOREM DetectorOnlyWatches == DSpec => Spec
<1>1. DInit => Init
  BY DEF DInit
<1>2. [DNext]_dvars => [Next]_vars
  BY DEF DNext, dvars, tick, Next
<1> QED BY <1>1, <1>2, PTL DEF DSpec, Spec
================================================================================
