-------------------------- MODULE WrapRebinderProofs --------------------------
(***************************************************************************)
(* Proofs about the wrap-rebinder, for any targets and anchors and any     *)
(* number of changes and failures: types, the safety net's sparing of      *)
(* healthy anchors, the freshness of the pool, and that at rest every      *)
(* anchor whose starts were heard is in its target's namespace.            *)
(***************************************************************************)
EXTENDS WrapRebinder, TLAPS

\* Labels of recreateAnchor's loop.
Recreating == {"work", "remove", "create", "start"}

\* What is left to do belongs to the loop that does it, an own-project start is
\* still known while its anchors are recreated, and nothing is queued where no
\* subscription is held.
ControlInv ==
    /\ pc \notin Recreating => work = {}
    /\ job = "eventOwn" => pc \in Recreating
    /\ pc \in {"idle", "subscribe"} => job = "none"
    /\ pc \in {"remove", "create", "start"} => cur \in Entries
    /\ pc = "subscribe" \/ job = "startup" => ~stream /\ queue = <<>>

\* Generations only grow, so an ID once read never names a later container.
GenInv ==
    /\ \A a \in Anchors : anc[a] <= ancs[a]
    /\ \A e \in pool : e[2] <= ancs[e[1]]
    /\ pc = "remove" => cur[2] <= ancs[cur[1]]
    /\ pc = "start" => cur \notin work

\* What the safety net is about to recreate is not where it should be.
Sick(e) == anc[e[1]] = e[2] => e[1] \notin joined
RecheckInv ==
    job \in {"startup", "poll"} =>
        /\ \A e \in work : Sick(e)
        /\ pc = "remove" => Sick(cur)

\* An anchor is known by its present ID, or its start is still to be handled.
Pending(a) ==
    \/ \E i \in DOMAIN queue : queue[i] = a
    \/ job = "eventOwn"
    \/ pc = "enumerate"
PoolInv == \A a \in joined \ excused : <<a, anc[a]>> \in pool \/ Pending(a)

IInv == TypeOK /\ ControlInv /\ GenInv /\ RecheckInv /\ PoolInv

-----------------------------------------------------------------------------
\* The sidecar knows nothing when it starts.
LEMMA InitInv == WrapAssumption /\ Init => IInv
<1> SUFFICES ASSUME WrapAssumption, Init PROVE IInv
  OBVIOUS
<1>1. /\ tgt \in [Targets -> Nat] /\ tgts \in [Targets -> Nat]
      /\ anc \in [Anchors -> Nat] /\ ancs \in [Anchors -> Nat] /\ ref \in [Anchors -> Nat]
  BY DEF Init
<1>2. up \subseteq {t \in Targets : tgt[t] # 0}
  BY DEF Init
<1>3. joined \subseteq {a \in Anchors : Exists(a) /\ Resolves(a) /\ TargetOf[a] \in up}
  <2> SUFFICES ASSUME NEW a \in joined
               PROVE  a \in Anchors /\ Exists(a) /\ Resolves(a) /\ TargetOf[a] \in up
    OBVIOUS
  <2>1. a \in Anchors /\ anc[a] = 1 /\ ref[a] = 1 /\ TargetOf[a] \in up
    BY DEF Init
  <2>2. TargetOf[a] \in Targets /\ tgt[TargetOf[a]] \in 0..1 /\ tgt[TargetOf[a]] # 0
    BY <1>2, <2>1 DEF Init, WrapAssumption
  <2> QED BY <2>1, <2>2 DEF Exists, Resolves
<1>4. pc \in Labels /\ stream \in BOOLEAN /\ queue \in Seq(Targets \cup Anchors)
  <2>1. queue = <<>> /\ pc = "enumerate"
    BY DEF Init
  <2>2. stream \in BOOLEAN
    BY Zenon DEF Init
  <2> QED BY <2>1, <2>2 DEF Labels
<1>5. ops \in 0..MaxOps /\ faults \in 0..MaxFaults
  BY DEF Init, WrapAssumption
<1>6. excused \subseteq Anchors
  BY DEF Init
<1>7. TypeOK
  BY <1>1, <1>2, <1>3, <1>4, <1>5, <1>6 DEF Init, TypeOK
<1>8. ControlInv
  BY DEF Init, ControlInv, Recreating
<1>9. GenInv
  <2>1. \A a \in Anchors : anc[a] <= ancs[a]
    BY <1>1 DEF Init
  <2> QED BY <2>1 DEF Init, GenInv
<1>10. RecheckInv /\ PoolInv
  BY DEF Init, RecheckInv, PoolInv, Pending
<1> QED BY <1>7, <1>8, <1>9, <1>10 DEF IInv

-----------------------------------------------------------------------------
(* Docker's steps *)

\* What happens to targets leaves the sidecar alone, and joined anchors joined
\* or without their target.
LEMMA TargetSteps ==
    ASSUME WrapAssumption, IInv, NEW t \in Targets,
           TargetStop(t) \/ TargetRemove(t) \/ TargetCreate(t) \/ TargetStart(t)
    PROVE  IInv'
<1>1. UNCHANGED <<anc, ancs, ref, stream, pc, job, memory, work, cur, faults>>
  BY DEF TargetStop, TargetRemove, TargetCreate, TargetStart, Change
<1>2. ops' \in 0..MaxOps
  <2>1. ops < MaxOps /\ ops' = ops + 1
    BY DEF TargetStop, TargetRemove, TargetCreate, TargetStart, Change
  <2> QED BY <2>1 DEF IInv, TypeOK, WrapAssumption
<1>3. tgt' \in [Targets -> Nat] /\ tgts' \in [Targets -> Nat]
      /\ up' \subseteq {u \in Targets : tgt'[u] # 0}
  <2>1. CASE TargetStop(t)
    BY <2>1 DEF TargetStop, IInv, TypeOK
  <2>2. CASE TargetRemove(t)
    BY <2>2 DEF TargetRemove, IInv, TypeOK
  <2>3. CASE TargetCreate(t)
    BY <2>3 DEF TargetCreate, IInv, TypeOK
  <2>4. CASE TargetStart(t)
    BY <2>4 DEF TargetStart, IInv, TypeOK
  <2> QED BY <2>1, <2>2, <2>3, <2>4
<1>4. joined' \subseteq {a \in Anchors : Exists(a)' /\ Resolves(a)' /\ TargetOf[a] \in up'}
  <2> SUFFICES ASSUME NEW a \in joined'
               PROVE  a \in Anchors /\ Exists(a)' /\ Resolves(a)' /\ TargetOf[a] \in up'
    OBVIOUS
  <2>1. a \in joined
    BY DEF TargetStop, TargetRemove, TargetCreate, TargetStart
  <2>2. a \in Anchors /\ Exists(a) /\ Resolves(a) /\ TargetOf[a] \in up /\ TargetOf[a] \in Targets
    BY <2>1 DEF IInv, TypeOK
  <2>3. tgt'[TargetOf[a]] = tgt[TargetOf[a]] /\ TargetOf[a] \in up'
    <3>1. CASE TargetStop(t)
      BY <2>2, <3>1 DEF TargetStop, AnchorsOf
    <3>2. CASE TargetRemove(t)
      BY <2>2, <3>2 DEF TargetRemove, AnchorsOf, IInv, TypeOK
    <3>3. CASE TargetCreate(t)
      BY <2>2, <3>3 DEF TargetCreate, Resolves, IInv, TypeOK
    <3>4. CASE TargetStart(t)
      BY <2>2, <3>4 DEF TargetStart
    <3> QED BY <3>1, <3>2, <3>3, <3>4
  <2> QED BY <1>1, <2>2, <2>3 DEF Exists, Resolves
<1>5. queue' \in {queue, Append(queue, t)} /\ (~stream => queue' = queue)
  BY DEF TargetStop, TargetRemove, TargetCreate, TargetStart, Emit
<1>6. joined' \subseteq joined /\ excused \subseteq excused' /\ excused' \subseteq Anchors
  BY DEF TargetStop, TargetRemove, TargetCreate, TargetStart, Unheard, Concerned, AnchorsOf,
         IInv, TypeOK
<1>7. queue \in Seq(Targets \cup Anchors) /\ queue' \in Seq(Targets \cup Anchors)
  <2>1. queue \in Seq(Targets \cup Anchors)
    BY DEF IInv, TypeOK
  <2>2. queue' = queue \/ queue' = Append(queue, t)
    BY <1>5
  <2> QED BY <2>1, <2>2
<1>8. TypeOK'
  BY <1>1, <1>2, <1>3, <1>4, <1>6, <1>7 DEF IInv, TypeOK, memory
<1>9. ControlInv' /\ GenInv' /\ RecheckInv'
  BY <1>1, <1>5, <1>6 DEF IInv, ControlInv, GenInv, RecheckInv, Sick, memory
<1>10. PoolInv'
  <2>1. \A i \in DOMAIN queue : i \in DOMAIN queue' /\ queue'[i] = queue[i]
    BY <1>5, <1>7
  <2> QED BY <1>1, <1>6, <2>1 DEF IInv, PoolInv, Pending, memory
<1> QED BY <1>8, <1>9, <1>10 DEF IInv

\* A recreated anchor has a new generation, and its start is queued or excused.
LEMMA ComposeStep ==
    ASSUME WrapAssumption, IInv, NEW a \in Anchors, ComposeAnchor(a)
    PROVE  IInv'
<1>1. UNCHANGED <<tgt, tgts, up, stream, pc, job, memory, work, cur, faults>>
  BY DEF ComposeAnchor, Change
<1>2. /\ anc' = [anc EXCEPT ![a] = ancs[a] + 1] /\ ancs' = [ancs EXCEPT ![a] = ancs[a] + 1]
      /\ ref' = [ref EXCEPT ![a] = tgt[TargetOf[a]]] /\ joined' = joined \cup {a}
      /\ TargetOf[a] \in up
  BY DEF ComposeAnchor, IInv, TypeOK
<1>3. ops' \in 0..MaxOps
  <2>1. ops < MaxOps /\ ops' = ops + 1
    BY DEF ComposeAnchor, Change
  <2> QED BY <2>1 DEF IInv, TypeOK, WrapAssumption
<1>4. /\ anc \in [Anchors -> Nat] /\ ancs \in [Anchors -> Nat] /\ ref \in [Anchors -> Nat]
      /\ tgt \in [Targets -> Nat] /\ TargetOf[a] \in Targets /\ tgt[TargetOf[a]] # 0
  BY <1>2 DEF IInv, TypeOK, WrapAssumption
<1>5. queue \in Seq(Targets \cup Anchors)
  BY DEF IInv, TypeOK
<1>6. queue' = queue \/ queue' = Append(queue, a)
  BY DEF ComposeAnchor, Emit
<1>7. ~stream => queue' = queue
  BY DEF ComposeAnchor, Emit
<1>8. queue' \in Seq(Targets \cup Anchors)
      /\ \A i \in DOMAIN queue : i \in DOMAIN queue' /\ queue'[i] = queue[i]
  BY <1>5, <1>6
<1>9. excused' \subseteq Anchors /\ excused \ {a} \subseteq excused'
  BY DEF ComposeAnchor, Unheard, Concerned, AnchorsOf, IInv, TypeOK
<1>10. a \in excused' \/ \E i \in DOMAIN queue' : queue'[i] = a
  <2>1. CASE stream
    <3>1. queue' = Append(queue, a)
      BY <2>1 DEF ComposeAnchor, Emit
    <3>2. Len(queue) + 1 \in DOMAIN queue' /\ queue'[Len(queue) + 1] = a
      BY <3>1, <1>5
    <3> QED BY <3>2
  <2>2. CASE ~stream
    <3>1. a \notin Targets
      BY DEF WrapAssumption
    <3> QED BY <2>2, <3>1 DEF ComposeAnchor, Unheard, Concerned
  <2> QED BY <2>1, <2>2
<1>11. anc' \in [Anchors -> Nat] /\ ancs' \in [Anchors -> Nat] /\ ref' \in [Anchors -> Nat]
  BY <1>2, <1>4
<1>12. joined' \subseteq {b \in Anchors : Exists(b)' /\ Resolves(b)' /\ TargetOf[b] \in up'}
  <2> SUFFICES ASSUME NEW b \in joined'
               PROVE  b \in Anchors /\ Exists(b)' /\ Resolves(b)' /\ TargetOf[b] \in up'
    OBVIOUS
  <2>1. CASE b = a
    BY <1>1, <1>2, <1>4, <2>1 DEF Exists, Resolves
  <2>2. CASE b # a
    <3>1. b \in Anchors /\ Exists(b) /\ Resolves(b) /\ TargetOf[b] \in up
      BY <1>2, <2>2 DEF IInv, TypeOK
    <3> QED BY <1>1, <1>2, <2>2, <3>1 DEF Exists, Resolves
  <2> QED BY <2>1, <2>2
<1>13. TypeOK'
  BY <1>1, <1>3, <1>8, <1>9, <1>11, <1>12 DEF IInv, TypeOK, memory
<1>14. ControlInv'
  BY <1>1, <1>7 DEF IInv, ControlInv
<1>15. GenInv'
  <2>1. \A b \in Anchors : anc'[b] <= ancs'[b] /\ ancs[b] <= ancs'[b]
    BY <1>2, <1>4 DEF IInv, GenInv
  <2>2. \A e \in pool : e[1] \in Anchors /\ e[2] \in Nat
    BY DEF IInv, TypeOK, Entries
  <2>3. \A e \in pool : e[2] <= ancs'[e[1]]
    <3> SUFFICES ASSUME NEW e \in pool PROVE e[2] <= ancs'[e[1]]
      OBVIOUS
    <3>1. e[2] <= ancs[e[1]] /\ ancs[e[1]] \in Nat /\ ancs'[e[1]] \in Nat
      BY <1>4, <1>11, <2>2 DEF IInv, GenInv
    <3> QED BY <2>1, <2>2, <3>1
  <2>4. pc = "remove" => cur[2] <= ancs'[cur[1]]
    <3> SUFFICES ASSUME pc = "remove" PROVE cur[2] <= ancs'[cur[1]]
      OBVIOUS
    <3>1. cur[1] \in Anchors /\ cur[2] \in Nat /\ cur[2] <= ancs[cur[1]]
      BY DEF IInv, ControlInv, GenInv, Entries
    <3>2. ancs[cur[1]] \in Nat /\ ancs'[cur[1]] \in Nat
      BY <1>4, <1>11, <3>1
    <3> QED BY <2>1, <3>1, <3>2
  <2> QED BY <1>1, <2>1, <2>3, <2>4 DEF IInv, GenInv, memory
<1>16. RecheckInv'
  <2> SUFFICES ASSUME job \in {"startup", "poll"}
               PROVE  (\A e \in work : Sick(e)') /\ (pc = "remove" => Sick(cur)')
    BY <1>1 DEF RecheckInv
  <2>1. ASSUME NEW e \in Entries, Sick(e), e[2] <= ancs[e[1]] PROVE Sick(e)'
    <3>1. CASE e[1] = a
      <4>1. anc'[a] = ancs[a] + 1 /\ ancs[a] \in Nat /\ e[2] \in Nat
        BY <1>2, <1>4 DEF Entries
      <4> QED BY <2>1, <3>1, <4>1 DEF Sick
    <3>2. CASE e[1] # a
      BY <1>2, <1>4, <2>1, <3>2 DEF Sick, Entries
    <3> QED BY <3>1, <3>2
  <2>2. \A e \in work : e \in Entries /\ e[2] <= ancs[e[1]]
    BY DEF IInv, TypeOK, GenInv
  <2>3. pc = "remove" => cur \in Entries
    BY DEF IInv, ControlInv
  <2>4. \A e \in work : Sick(e)'
    BY <2>1, <2>2 DEF IInv, RecheckInv
  <2>5. ASSUME pc = "remove" PROVE Sick(cur)'
    <3>1. cur \in Entries /\ Sick(cur) /\ cur[2] <= ancs[cur[1]] /\ cur' = cur
      BY <1>1, <2>3, <2>5 DEF IInv, RecheckInv, GenInv
    <3>2. (anc[cur[1]] = cur[2] => cur[1] \notin joined)
          => (anc'[cur[1]] = cur[2] => cur[1] \notin joined')
      BY <2>1, <3>1 DEF Sick
    <3> QED BY <3>1, <3>2 DEF Sick
  <2> QED BY <2>4, <2>5
<1>17. PoolInv'
  <2> SUFFICES ASSUME NEW b \in joined' \ excused'
               PROVE  <<b, anc'[b]>> \in pool \/ Pending(b)'
    BY <1>1 DEF PoolInv, memory
  <2>1. CASE b = a
    BY <1>10, <2>1 DEF Pending
  <2>2. CASE b # a
    <3>1. b \in joined \ excused /\ b \in Anchors
      BY <1>2, <1>9, <2>2 DEF IInv, TypeOK
    <3>2. <<b, anc[b]>> \in pool \/ Pending(b)
      BY <3>1 DEF IInv, PoolInv
    <3> QED BY <1>1, <1>2, <1>4, <1>8, <2>2, <3>1, <3>2 DEF Pending
  <2> QED BY <2>1, <2>2
<1> QED BY <1>13, <1>14, <1>15, <1>16, <1>17 DEF IInv

-----------------------------------------------------------------------------
(* The sidecar's own steps *)

\* Listing and rechecking.
LEMMA EnumerateSteps ==
    ASSUME WrapAssumption, IInv, Enumerate \/ EnumerateError \/ Recheck \/ RecheckError
    PROVE  IInv'
<1>1. UNCHANGED <<world, sub, recent, cur, ops>>
  BY DEF Enumerate, EnumerateError, Recheck, RecheckError, memory
<1>2. faults' \in 0..MaxFaults
  <2>1. faults' = faults \/ Fault
    BY DEF Enumerate, EnumerateError, Recheck, RecheckError
  <2> QED BY <2>1 DEF Fault, IInv, TypeOK, WrapAssumption
<1>3. work = {} /\ pc \in {"enumerate", "recheck"} /\ job # "eventOwn"
  BY DEF Enumerate, EnumerateError, Recheck, RecheckError, IInv, ControlInv, Recreating
<1>4. pool' \subseteq Entries /\ \A e \in pool' : e[2] <= ancs[e[1]]
  <2>1. CASE Enumerate
    <3>1. pool' = buildTargetPool
      BY <2>1 DEF Enumerate
    <3>2. \A e \in buildTargetPool : e \in Entries /\ e[2] = anc[e[1]]
      BY DEF buildTargetPool, Exists, Entries, IInv, TypeOK
    <3> QED BY <3>1, <3>2 DEF IInv, GenInv, Entries
  <2>2. CASE EnumerateError \/ Recheck \/ RecheckError
    BY <2>2 DEF EnumerateError, Recheck, RecheckError, memory, IInv, TypeOK, GenInv
  <2> QED BY <2>1, <2>2
<1>5. work' \subseteq pool' /\ (pc' # "work" => work' = {})
  <2>1. CASE Recheck
    BY <2>1 DEF Recheck, Goto, memory, Drifted
  <2>2. CASE ~Recheck
    BY <1>3, <2>2 DEF Enumerate, EnumerateError, RecheckError
  <2> QED BY <2>1, <2>2
<1>6. /\ pc' \in {"recheck", "work", "subscribe", "idle"}
      /\ job' \in {job, "none"}
      /\ (pc' = "subscribe" => job = "startup")
      /\ (pc' \in {"idle", "subscribe"} => job' = "none")
  BY <1>3 DEF Enumerate, EnumerateError, Recheck, RecheckError, AfterEnumerate, Done, Goto
<1>7. excused \subseteq excused' /\ excused' \subseteq Anchors
  BY DEF Enumerate, EnumerateError, Recheck, RecheckError, IInv, TypeOK
<1>8. TypeOK'
  <2>1. pc' \in Labels /\ job' \in {"startup", "poll", "event", "eventOwn", "none"}
    BY <1>6 DEF Labels, IInv, TypeOK
  <2> QED BY <1>1, <1>2, <1>4, <1>5, <1>7, <2>1
          DEF IInv, TypeOK, world, sub, Exists, Resolves
<1>9. ControlInv'
  BY <1>1, <1>3, <1>5, <1>6 DEF IInv, ControlInv, Recreating, sub
<1>10. GenInv'
  BY <1>1, <1>4, <1>6 DEF IInv, GenInv, world
<1>11. RecheckInv'
  <2>1. \A e \in work' : Sick(e)
    <3>1. CASE Recheck
      <4>1. \A e \in Drifted : e \in Entries /\ ref[e[1]] # tgt[TargetOf[e[1]]]
        BY DEF Drifted, IInv, TypeOK
      <4>2. \A a \in joined : ref[a] = tgt[TargetOf[a]]
        BY DEF IInv, TypeOK, Resolves
      <4> QED BY <3>1, <4>1, <4>2 DEF Recheck, Sick
    <3>2. CASE ~Recheck
      BY <1>3, <3>2 DEF Enumerate, EnumerateError, RecheckError
    <3> QED BY <3>1, <3>2
  <2> QED BY <1>1, <1>6, <2>1 DEF RecheckInv, Sick, world
<1>12. PoolInv'
  <2> SUFFICES ASSUME NEW a \in joined \ excused'
               PROVE  <<a, anc[a]>> \in pool' \/ \E i \in DOMAIN queue : queue[i] = a
    BY <1>1 DEF PoolInv, Pending, world, sub
  <2>1. a \in Anchors /\ Exists(a) /\ Resolves(a) /\ a \notin excused
    BY <1>7 DEF IInv, TypeOK
  <2>2. CASE Enumerate
    BY <2>1, <2>2 DEF Enumerate, buildTargetPool
  <2>3. CASE EnumerateError
    BY <2>1, <2>3 DEF EnumerateError, memory
  <2>4. CASE Recheck \/ RecheckError
    <3>1. pc = "recheck" /\ pool' = pool
      BY <2>4 DEF Recheck, RecheckError, memory
    <3>2. <<a, anc[a]>> \in pool \/ \E i \in DOMAIN queue : queue[i] = a
      BY <1>3, <2>1, <3>1 DEF IInv, PoolInv, Pending
    <3> QED BY <3>1, <3>2
  <2> QED BY <2>2, <2>3, <2>4
<1> QED BY <1>8, <1>9, <1>10, <1>11, <1>12 DEF IInv

\* Steps that leave docker alone and do not list it.
LEMMA QuietSteps ==
    ASSUME WrapAssumption, IInv,
           \/ WorkDone \/ Tick \/ Subscribe \/ OnStreamError \/ StreamBreaks
           \/ \E e \in work : NextEntry(e)
           \/ \E e \in recent : WindowEnds(e)
           \/ \E a \in Anchors : AnchorGone(a)
           \/ \E a \in Anchors : RecreateFails(a)
           \/ \E n \in Targets \cup Anchors : OnStart(n)
    PROVE  IInv'
<1>1. UNCHANGED <<world, pool, ops>>
  BY DEF WorkDone, Tick, Subscribe, OnStreamError, StreamBreaks, NextEntry, WindowEnds,
         AnchorGone, RecreateFails, OnStart, memory
<1>2. faults' \in 0..MaxFaults
  <2>1. faults' = faults \/ Fault
    BY DEF WorkDone, Tick, Subscribe, OnStreamError, StreamBreaks, NextEntry, WindowEnds,
           AnchorGone, RecreateFails, OnStart
  <2> QED BY <2>1 DEF Fault, IInv, TypeOK, WrapAssumption
<1>3. excused \subseteq excused' /\ excused' \subseteq Anchors
  <2>1. CASE OnStreamError
    <3>1. \A i \in DOMAIN queue : Concerned(queue[i]) \subseteq Anchors
      BY DEF Concerned, AnchorsOf, IInv, TypeOK
    <3> QED BY <2>1, <3>1 DEF OnStreamError, Dropped, IInv, TypeOK
  <2>2. CASE ~OnStreamError
    BY <2>2 DEF WorkDone, Tick, Subscribe, StreamBreaks, NextEntry, WindowEnds, AnchorGone,
                RecreateFails, OnStart, IInv, TypeOK
  <2> QED BY <2>1, <2>2
<1>4. queue \in Seq(Targets \cup Anchors) /\ queue' \in Seq(Targets \cup Anchors)
  <2>1. queue \in Seq(Targets \cup Anchors)
    BY DEF IInv, TypeOK
  <2>2. queue' \in {queue, <<>>} \/ (queue # <<>> /\ queue' = Tail(queue))
    BY DEF WorkDone, Tick, Subscribe, OnStreamError, StreamBreaks, NextEntry, WindowEnds,
           AnchorGone, RecreateFails, OnStart, sub
  <2>3. CASE queue' = queue
    BY <2>1, <2>3
  <2>4. CASE queue' = <<>>
    BY <2>1, <2>4
  <2>5. CASE queue # <<>> /\ queue' = Tail(queue)
    BY <2>1, <2>5
  <2> QED BY <2>2, <2>3, <2>4, <2>5
<1>5. stream' \in BOOLEAN
  BY DEF WorkDone, Tick, Subscribe, OnStreamError, StreamBreaks, NextEntry, WindowEnds,
         AnchorGone, RecreateFails, OnStart, sub, IInv, TypeOK
<1>6. recent' \subseteq Entries /\ cur' \in Entries \cup {NoEntry} /\ work' \subseteq pool'
      /\ pool' \subseteq Entries
  BY <1>1 DEF WorkDone, Tick, Subscribe, OnStreamError, StreamBreaks, NextEntry, WindowEnds,
              AnchorGone, RecreateFails, OnStart, memory, EndEntry, IInv, TypeOK
<1>7. pc' \in Labels /\ job' \in {"startup", "poll", "event", "eventOwn", "none"}
  BY DEF WorkDone, Tick, Subscribe, OnStreamError, StreamBreaks, NextEntry, WindowEnds,
         AnchorGone, RecreateFails, OnStart, Done, Goto, EndEntry, Labels, IInv, TypeOK
<1>8. TypeOK'
  BY <1>1, <1>2, <1>3, <1>4, <1>5, <1>6, <1>7
     DEF IInv, TypeOK, world, Exists, Resolves
<1>9. CASE WorkDone
  <2>1. /\ UNCHANGED <<stream, queue, cur, work>> /\ work = {} /\ pc = "work"
        /\ \/ pc' = "enumerate" /\ job' = "event" /\ job = "eventOwn"
           \/ pc' = "subscribe" /\ job' = "none" /\ job = "startup"
           \/ pc' = "idle" /\ job' = "none" /\ job # "eventOwn"
    BY <1>9 DEF WorkDone, Done, sub
  <2>2. ControlInv' /\ GenInv' /\ RecheckInv'
    BY <1>1, <2>1 DEF IInv, ControlInv, GenInv, RecheckInv, Recreating, world
  <2>3. PoolInv'
    BY <1>1, <1>3, <2>1 DEF IInv, PoolInv, Pending, world
  <2> QED BY <1>8, <2>2, <2>3 DEF IInv
<1>10. CASE Tick
  <2>1. UNCHANGED <<stream, queue, cur, work>> /\ pc = "idle" /\ pc' = "enumerate" /\ job' = "poll"
    BY <1>10 DEF Tick, sub
  <2>2. work = {}
    BY <2>1 DEF IInv, ControlInv, Recreating
  <2> QED BY <1>1, <1>8, <2>1, <2>2
          DEF IInv, ControlInv, GenInv, RecheckInv, PoolInv, Pending, Recreating, world
<1>11. CASE Subscribe
  <2>1. /\ UNCHANGED <<cur, work, job>> /\ pc = "subscribe" /\ pc' = "idle" /\ queue' = <<>>
        /\ queue = <<>> /\ work = {} /\ job # "eventOwn"
    BY <1>11 DEF Subscribe, IInv, ControlInv, Recreating
  <2>2. job # "startup"
    BY <2>1 DEF IInv, ControlInv
  <2>3. ControlInv' /\ GenInv' /\ RecheckInv'
    BY <1>1, <2>1, <2>2 DEF IInv, ControlInv, GenInv, RecheckInv, Recreating, world
  <2>4. PoolInv'
    BY <1>1, <1>3, <2>1 DEF IInv, PoolInv, Pending, world
  <2> QED BY <1>8, <2>3, <2>4 DEF IInv
<1>12. CASE OnStreamError
  <2>1. /\ UNCHANGED <<cur, work, job, stream>> /\ pc = "idle" /\ ~stream
        /\ pc' = "subscribe" /\ queue' = <<>>
    BY <1>12 DEF OnStreamError, Goto
  <2>2. work = {} /\ job # "eventOwn"
    BY <2>1 DEF IInv, ControlInv, Recreating
  <2>3. ControlInv' /\ GenInv' /\ RecheckInv'
    BY <1>1, <2>1, <2>2 DEF IInv, ControlInv, GenInv, RecheckInv, Recreating, world
  <2>4. ASSUME NEW a \in joined \ excused' PROVE <<a, anc[a]>> \in pool
    <3>1. a \in joined \ excused /\ a \in Anchors
      BY <1>3, <2>4 DEF IInv, TypeOK
    <3>2. ASSUME NEW i \in DOMAIN queue, queue[i] = a PROVE FALSE
      <4>1. a \in Concerned(queue[i])
        BY <3>1, <3>2 DEF Concerned, WrapAssumption
      <4>2. a \in Dropped
        BY <4>1 DEF Dropped
      <4> QED BY <1>12, <2>4, <4>2 DEF OnStreamError
    <3> QED BY <2>1, <2>2, <3>1, <3>2 DEF IInv, PoolInv, Pending
  <2>5. PoolInv'
    BY <1>1, <2>4 DEF PoolInv, world
  <2> QED BY <1>8, <2>3, <2>5 DEF IInv
<1>13. CASE StreamBreaks
  <2>1. UNCHANGED <<cur, work, job, pc, queue>> /\ ~stream'
    BY <1>13 DEF StreamBreaks
  <2> QED BY <1>1, <1>3, <1>8, <2>1
          DEF IInv, ControlInv, GenInv, RecheckInv, Sick, PoolInv, Pending, world
<1>14. ASSUME NEW e \in work, NextEntry(e) PROVE IInv'
  <2>1. /\ UNCHANGED <<stream, queue, job>> /\ pc = "work" /\ work' = work \ {e}
        /\ \/ UNCHANGED <<cur, pc>>
           \/ cur' = e /\ pc' = "remove"
    BY <1>14 DEF NextEntry, Goto, sub
  <2>2. e \in pool /\ e \in Entries
    BY DEF IInv, TypeOK
  <2>3. ControlInv' /\ GenInv'
    BY <1>1, <2>1, <2>2 DEF IInv, ControlInv, GenInv, Recreating, world
  <2>4. RecheckInv'
    BY <1>1, <2>1 DEF IInv, RecheckInv, Sick, world
  <2>5. PoolInv'
    BY <1>1, <1>3, <2>1 DEF IInv, PoolInv, Pending, world
  <2> QED BY <1>8, <2>3, <2>4, <2>5 DEF IInv
<1>15. ASSUME NEW e \in recent, WindowEnds(e) PROVE IInv'
  <2>1. UNCHANGED <<stream, queue, job, pc, cur, work>>
    BY <1>15 DEF WindowEnds, sub
  <2> QED BY <1>1, <1>3, <1>8, <2>1
          DEF IInv, ControlInv, GenInv, RecheckInv, Sick, PoolInv, Pending, world
<1>16. ASSUME NEW a \in Anchors, AnchorGone(a) \/ RecreateFails(a) PROVE IInv'
  <2>1. /\ UNCHANGED <<stream, queue, job, work>> /\ pc \in {"remove", "create", "start"}
        /\ pc' = "work"
    BY <1>16 DEF AnchorGone, RecreateFails, EndEntry, Goto, sub
  <2>2. ControlInv' /\ GenInv' /\ RecheckInv'
    BY <1>1, <2>1 DEF IInv, ControlInv, GenInv, RecheckInv, Sick, Recreating, world
  <2>3. PoolInv'
    BY <1>1, <1>3, <2>1 DEF IInv, PoolInv, Pending, world
  <2> QED BY <1>8, <2>2, <2>3 DEF IInv
<1>17. ASSUME NEW n \in Targets \cup Anchors, OnStart(n) PROVE IInv'
  <2>1. /\ UNCHANGED <<stream, cur, excused>> /\ pc = "idle" /\ queue # <<>> /\ n = Head(queue)
        /\ queue' = Tail(queue) /\ pc' = "work"
        /\ job' = (IF n \in Anchors THEN "eventOwn" ELSE "event")
    BY <1>17 DEF OnStart
  <2>2. ControlInv' /\ GenInv' /\ RecheckInv'
    BY <1>1, <2>1 DEF IInv, ControlInv, GenInv, RecheckInv, Recreating, world
  <2>3. ASSUME NEW a \in joined \ excused PROVE <<a, anc[a]>> \in pool \/ Pending(a)'
    <3>1. a \in Anchors
      BY DEF IInv, TypeOK
    <3>2. job # "eventOwn"
      BY <2>1 DEF IInv, ControlInv, Recreating
    <3>3. CASE n \in Anchors
      BY <2>1, <3>3 DEF Pending
    <3>4. ASSUME n \notin Anchors, NEW i \in DOMAIN queue, queue[i] = a
          PROVE  \E j \in DOMAIN queue' : queue'[j] = a
      <4>1. i # 1
        BY <1>4, <2>1, <3>1, <3>4
      <4>2. i - 1 \in DOMAIN queue' /\ queue'[i - 1] = a
        BY <1>4, <2>1, <3>4, <4>1
      <4> QED BY <4>2
    <3> QED BY <2>1, <2>3, <3>2, <3>3, <3>4 DEF IInv, PoolInv, Pending
  <2>4. PoolInv'
    BY <1>1, <2>1, <2>3 DEF PoolInv, world
  <2> QED BY <1>8, <2>2, <2>4 DEF IInv
<1> QED BY <1>9, <1>10, <1>11, <1>12, <1>13, <1>14, <1>15, <1>16, <1>17
\* The removed anchor no longer runs, and nothing later has its ID.
LEMMA RemoveStep ==
    ASSUME WrapAssumption, IInv, NEW a \in Anchors, RemoveAnchor(a)
    PROVE  IInv'
<1>1. /\ UNCHANGED <<tgt, tgts, up, ancs, stream, queue, pool, recent, work, cur, excused, job, ops, faults>>
      /\ anc' = [anc EXCEPT ![a] = 0] /\ ref' = [ref EXCEPT ![a] = 0]
      /\ joined' = joined \ {a} /\ pc = "remove" /\ pc' = "create"
  BY DEF RemoveAnchor, Goto, sub, memory
<1>2. anc \in [Anchors -> Nat] /\ ref \in [Anchors -> Nat] /\ ancs \in [Anchors -> Nat]
  BY DEF IInv, TypeOK
<1>3. anc' \in [Anchors -> Nat] /\ ref' \in [Anchors -> Nat]
  BY <1>1, <1>2
<1>4. joined' \subseteq {b \in Anchors : Exists(b)' /\ Resolves(b)' /\ TargetOf[b] \in up'}
  <2> SUFFICES ASSUME NEW b \in joined'
               PROVE  b \in Anchors /\ Exists(b)' /\ Resolves(b)' /\ TargetOf[b] \in up'
    OBVIOUS
  <2>1. b # a /\ b \in Anchors /\ Exists(b) /\ Resolves(b) /\ TargetOf[b] \in up
    BY <1>1 DEF IInv, TypeOK
  <2> QED BY <1>1, <1>2, <2>1 DEF Exists, Resolves
<1>5. pc' \in Labels
  BY <1>1 DEF Labels
<1>6. TypeOK'
  BY <1>1, <1>3, <1>4, <1>5 DEF IInv, TypeOK
<1>7. ControlInv'
  BY <1>1 DEF IInv, ControlInv, Recreating
<1>8. GenInv'
  <2>1. \A b \in Anchors : anc'[b] <= ancs'[b]
    <3> SUFFICES ASSUME NEW b \in Anchors PROVE anc'[b] <= ancs'[b]
      OBVIOUS
    <3>1. anc[b] <= ancs[b] /\ ancs[b] \in Nat
      BY <1>2 DEF IInv, GenInv
    <3>2. anc'[b] = (IF b = a THEN 0 ELSE anc[b]) /\ ancs' = ancs
      BY <1>1, <1>2
    <3> QED BY <3>1, <3>2
  <2> QED BY <1>1, <2>1 DEF IInv, GenInv
<1>9. RecheckInv'
  <2>1. ASSUME NEW e \in work, Sick(e) PROVE Sick(e)'
    BY <1>1, <1>2, <2>1 DEF Sick, IInv, TypeOK, Entries
  <2> QED BY <1>1, <2>1 DEF IInv, RecheckInv
<1>10. PoolInv'
  <2> SUFFICES ASSUME NEW b \in joined' \ excused'
               PROVE  <<b, anc'[b]>> \in pool \/ Pending(b)'
    BY <1>1 DEF PoolInv
  <2>1. b \in joined \ excused /\ b # a /\ b \in Anchors
    BY <1>1 DEF IInv, TypeOK
  <2>2. <<b, anc[b]>> \in pool \/ Pending(b)
    BY <2>1 DEF IInv, PoolInv
  <2> QED BY <1>1, <1>2, <2>1, <2>2 DEF Pending
<1> QED BY <1>6, <1>7, <1>8, <1>9, <1>10 DEF IInv

\* The new generation is above every one the pool has seen.
LEMMA CreateStep ==
    ASSUME WrapAssumption, IInv, NEW a \in Anchors, CreateAnchor(a)
    PROVE  IInv'
<1>1. /\ UNCHANGED <<tgt, tgts, up, joined, stream, queue, pool, recent, work, excused, job, ops, faults>>
      /\ anc[a] = 0 /\ ancs' = [ancs EXCEPT ![a] = ancs[a] + 1]
      /\ anc' = [anc EXCEPT ![a] = ancs[a] + 1]
      /\ ref' = [ref EXCEPT ![a] = tgt[TargetOf[a]]] /\ cur' = <<a, ancs[a] + 1>>
      /\ pc = "create" /\ pc' = "start"
  BY DEF CreateAnchor, Goto, sub, memory, IInv, TypeOK
<1>2. /\ anc \in [Anchors -> Nat] /\ ref \in [Anchors -> Nat] /\ ancs \in [Anchors -> Nat]
      /\ tgt \in [Targets -> Nat] /\ TargetOf[a] \in Targets
  BY DEF IInv, TypeOK, WrapAssumption
<1>3. anc' \in [Anchors -> Nat] /\ ref' \in [Anchors -> Nat] /\ ancs' \in [Anchors -> Nat]
      /\ cur' \in Entries
  BY <1>1, <1>2 DEF Entries
<1>4. a \notin joined
  BY <1>1 DEF IInv, TypeOK, Exists
<1>5. joined' \subseteq {b \in Anchors : Exists(b)' /\ Resolves(b)' /\ TargetOf[b] \in up'}
  <2> SUFFICES ASSUME NEW b \in joined'
               PROVE  b \in Anchors /\ Exists(b)' /\ Resolves(b)' /\ TargetOf[b] \in up'
    OBVIOUS
  <2>1. b # a /\ b \in Anchors /\ Exists(b) /\ Resolves(b) /\ TargetOf[b] \in up
    BY <1>1, <1>4 DEF IInv, TypeOK
  <2> QED BY <1>1, <1>2, <2>1 DEF Exists, Resolves
<1>6. pc' \in Labels
  BY <1>1 DEF Labels
<1>7. TypeOK'
  BY <1>1, <1>3, <1>5, <1>6 DEF IInv, TypeOK
<1>8. ControlInv'
  BY <1>1, <1>3 DEF IInv, ControlInv, Recreating
<1>9. \A e \in pool : e \in Entries /\ e[1] \in Anchors /\ e[2] \in Nat /\ e[2] <= ancs[e[1]]
  BY DEF IInv, TypeOK, GenInv, Entries
<1>10. \A b \in Anchors : /\ ancs[b] \in Nat
                          /\ ancs'[b] = (IF b = a THEN ancs[a] + 1 ELSE ancs[b])
                          /\ anc'[b] = (IF b = a THEN ancs[a] + 1 ELSE anc[b])
  BY <1>1, <1>2
<1>11. GenInv'
  <2>1. \A b \in Anchors : anc'[b] <= ancs'[b]
    BY <1>2, <1>10 DEF IInv, GenInv
  <2>2. \A e \in pool : e[2] <= ancs'[e[1]]
    BY <1>9, <1>10
  <2>3. cur' \notin work
    <3>1. ASSUME cur' \in work PROVE FALSE
      <4>1. cur' \in pool
        BY <3>1 DEF IInv, TypeOK
      <4>2. ancs[a] + 1 <= ancs[a]
        BY <1>1, <1>9, <4>1
      <4> QED BY <1>10, <4>2
    <3> QED BY <3>1
  <2> QED BY <1>1, <2>1, <2>2, <2>3 DEF GenInv
<1>12. RecheckInv'
  <2>1. ASSUME NEW e \in work, Sick(e) PROVE Sick(e)'
    <3>1. e[1] \in Anchors /\ e[2] \in Nat /\ e[2] <= ancs[e[1]]
      BY <1>9 DEF IInv, TypeOK
    <3>2. CASE e[1] = a
      BY <1>1, <1>4, <3>2 DEF Sick
    <3>3. CASE e[1] # a
      BY <1>1, <1>10, <2>1, <3>1, <3>3 DEF Sick
    <3> QED BY <3>2, <3>3
  <2> QED BY <1>1, <2>1 DEF IInv, RecheckInv
<1>13. PoolInv'
  <2> SUFFICES ASSUME NEW b \in joined \ excused
               PROVE  <<b, anc'[b]>> \in pool \/ Pending(b)'
    BY <1>1 DEF PoolInv
  <2>1. b # a /\ b \in Anchors
    BY <1>4 DEF IInv, TypeOK
  <2>2. <<b, anc[b]>> \in pool \/ Pending(b)
    BY DEF IInv, PoolInv
  <2> QED BY <1>1, <1>10, <2>1, <2>2 DEF Pending
<1> QED BY <1>7, <1>8, <1>11, <1>12, <1>13 DEF IInv

\* The started anchor's event is queued, or its loss is recorded.
LEMMA StartStep ==
    ASSUME WrapAssumption, IInv, NEW a \in Anchors, StartAnchor(a)
    PROVE  IInv'
<1>1. /\ UNCHANGED <<tgt, tgts, up, anc, ancs, ref, stream, pool, recent, work, job, ops, faults>>
      /\ joined' = joined \cup {a} /\ pc = "start" /\ pc' = "work" /\ cur' = NoEntry
      /\ cur = <<a, anc[a]>> /\ Resolves(a) /\ TargetOf[a] \in up
  BY DEF StartAnchor, Goto, EndEntry, memory
<1>2. queue \in Seq(Targets \cup Anchors)
  BY DEF IInv, TypeOK
<1>3. queue' = queue \/ queue' = Append(queue, a)
  BY DEF StartAnchor, Emit
<1>4. ~stream => queue' = queue
  BY DEF StartAnchor, Emit
<1>5. queue' \in Seq(Targets \cup Anchors)
      /\ \A i \in DOMAIN queue : i \in DOMAIN queue' /\ queue'[i] = queue[i]
  BY <1>2, <1>3
<1>6. excused' \subseteq Anchors /\ excused \subseteq excused'
  BY DEF StartAnchor, Unheard, Concerned, AnchorsOf, IInv, TypeOK
<1>7. a \in excused' \/ \E i \in DOMAIN queue' : queue'[i] = a
  <2>1. CASE stream
    <3>1. queue' = Append(queue, a)
      BY <2>1 DEF StartAnchor, Emit
    <3>2. Len(queue) + 1 \in DOMAIN queue' /\ queue'[Len(queue) + 1] = a
      BY <3>1, <1>2
    <3> QED BY <3>2
  <2>2. CASE ~stream
    <3>1. a \notin Targets
      BY DEF WrapAssumption
    <3> QED BY <2>2, <3>1 DEF StartAnchor, Unheard, Concerned
  <2> QED BY <2>1, <2>2
<1>8. Exists(a)
  <2>1. cur \in Entries
    BY <1>1 DEF IInv, ControlInv
  <2> QED BY <1>1, <2>1 DEF Exists, Entries
<1>9. pc' \in Labels
  BY <1>1 DEF Labels
<1>10. TypeOK'
  BY <1>1, <1>5, <1>6, <1>8, <1>9 DEF IInv, TypeOK, Exists, Resolves
<1>11. ControlInv'
  BY <1>1, <1>4 DEF IInv, ControlInv, Recreating
<1>12. GenInv'
  BY <1>1 DEF IInv, GenInv
<1>13. RecheckInv'
  <2>1. ASSUME NEW e \in work, Sick(e) PROVE Sick(e)'
    <3>1. cur \notin work
      BY <1>1 DEF IInv, GenInv
    <3>2. e = <<e[1], e[2]>>
      <4>1. e \in Entries
        BY DEF IInv, TypeOK
      <4> QED BY <4>1 DEF Entries
    <3>3. ~(e[1] = a /\ anc[a] = e[2])
      BY <1>1, <3>1, <3>2
    <3> QED BY <1>1, <2>1, <3>3 DEF Sick
  <2> QED BY <1>1, <2>1 DEF IInv, RecheckInv
<1>14. PoolInv'
  <2> SUFFICES ASSUME NEW b \in joined' \ excused'
               PROVE  <<b, anc[b]>> \in pool \/ Pending(b)'
    BY <1>1 DEF PoolInv
  <2>1. CASE b = a
    BY <1>7, <2>1 DEF Pending
  <2>2. CASE b # a
    <3>1. b \in joined \ excused
      BY <1>1, <1>6, <2>2
    <3>2. <<b, anc[b]>> \in pool \/ Pending(b)
      BY <3>1 DEF IInv, PoolInv
    <3> QED BY <1>1, <1>5, <3>2 DEF Pending
  <2> QED BY <2>1, <2>2
<1> QED BY <1>10, <1>11, <1>12, <1>13, <1>14 DEF IInv

\* A crash forgets everything, and excuses what it may have left behind.
LEMMA CrashStep ==
    ASSUME WrapAssumption, IInv, Crash
    PROVE  IInv'
<1>1. /\ UNCHANGED <<tgt, tgts, up, anc, ancs, ref, joined, ops>>
      /\ stream' = FALSE /\ queue' = <<>> /\ pc' = "enumerate" /\ job' = "startup"
      /\ pool' = {} /\ recent' = {} /\ work' = {} /\ cur' = NoEntry
      /\ excused' = excused \cup {a \in Anchors : ~Exists(a) \/ (TargetOf[a] \in up /\ a \notin joined)}
  BY DEF Crash, world
<1>2. faults' \in 0..MaxFaults
  <2>1. Fault
    BY DEF Crash
  <2> QED BY <2>1 DEF Fault, IInv, TypeOK, WrapAssumption
<1>3. stream' \in BOOLEAN /\ queue' \in Seq(Targets \cup Anchors)
  <2>1. stream' \in BOOLEAN
    BY <1>1
  <2>2. queue' \in Seq(Targets \cup Anchors)
    BY <1>1
  <2> QED BY <2>1, <2>2
<1>4. pc' \in Labels /\ job' \in {"startup", "poll", "event", "eventOwn", "none"}
  BY <1>1 DEF Labels
<1>5. TypeOK'
  BY <1>1, <1>2, <1>3, <1>4 DEF IInv, TypeOK, Exists, Resolves
<1>6. ControlInv'
  BY <1>1 DEF ControlInv, Recreating
<1>7. GenInv' /\ RecheckInv' /\ PoolInv'
  BY <1>1 DEF IInv, GenInv, RecheckInv, PoolInv, Pending
<1> QED BY <1>5, <1>6, <1>7 DEF IInv

\* Every step of the sidecar and of docker preserves the invariant.
LEMMA NextInv == WrapAssumption /\ IInv /\ [Next]_vars => IInv'
<1> SUFFICES ASSUME WrapAssumption, IInv, [Next]_vars PROVE IInv'
  OBVIOUS
<1>1. CASE UNCHANGED vars
  BY <1>1 DEF vars, world, sub, memory, IInv, TypeOK, ControlInv, GenInv, RecheckInv, Sick,
              PoolInv, Pending, Exists, Resolves
<1>2. CASE Docker
  BY <1>2, TargetSteps, ComposeStep, QuietSteps DEF Docker
<1>3. CASE Handle
  BY <1>3, QuietSteps DEF Handle
<1>4. CASE Job
  <2>1. CASE Enumerate \/ EnumerateError \/ Recheck \/ RecheckError
    BY <2>1, EnumerateSteps
  <2>2. CASE WorkDone \/ Subscribe \/ OnStreamError \/ \E e \in work : NextEntry(e)
    BY <2>2, QuietSteps
  <2>3. CASE \E a \in Anchors : AnchorGone(a) \/ RecreateFails(a)
    BY <2>3, QuietSteps
  <2>4. CASE \E a \in Anchors : RemoveAnchor(a)
    BY <2>4, RemoveStep
  <2>5. CASE \E a \in Anchors : CreateAnchor(a)
    BY <2>5, CreateStep
  <2>6. CASE \E a \in Anchors : StartAnchor(a)
    BY <2>6, StartStep
  <2> QED BY <1>4, <2>1, <2>2, <2>3, <2>4, <2>5, <2>6 DEF Job
<1>5. CASE Tick
  BY <1>5, QuietSteps
<1>6. CASE Crash
  BY <1>6, CrashStep
<1>7. CASE \E e \in recent : WindowEnds(e)
  BY <1>7, QuietSteps
<1> QED BY <1>1, <1>2, <1>3, <1>4, <1>5, <1>6, <1>7 DEF Next

LEMMA Invariant == Spec => []IInv
<1>1. Init => IInv
  BY InitInv, WrapAssumption
<1>2. IInv /\ [Next]_vars => IInv'
  BY NextInv, WrapAssumption
<1> QED BY <1>1, <1>2, PTL DEF Spec

-----------------------------------------------------------------------------
\* The types of docker's and the sidecar's state: an anchor that is joined has a
\* reference that resolves to its running target, and what is left to recreate
\* comes from the pool (recreateAnchor takes trackedAnchor values from it).
THEOREM TypeCorrect == Spec => []TypeOK
<1>1. IInv => TypeOK
  BY DEF IInv
<1> QED BY <1>1, Invariant, PTL

\* handleStart enumerates after an own-project start, so that an idle watcher
\* with nothing queued knows the present ID of each anchor it has not lost.
THEOREM PoolIsFresh == Spec => []PoolKnowsTheAnchors
<1>1. IInv => PoolKnowsTheAnchors
  <2> SUFFICES ASSUME IInv, pc = "idle", queue = <<>>, NEW a \in joined \ excused
               PROVE  <<a, anc[a]>> \in pool
    BY DEF PoolKnowsTheAnchors
  <2>1. <<a, anc[a]>> \in pool \/ Pending(a)
    BY DEF IInv, PoolInv
  <2>2. job # "eventOwn"
    BY DEF IInv, ControlInv, Recreating
  <2> QED BY <2>1, <2>2 DEF Pending
<1> QED BY <1>1, Invariant, PTL

\* No step taken for the startup recheck or the safety-net poll removes an
\* anchor that runs in its target's namespace, whatever happened between
\* bootstrapRecheck's list and recreateAnchor's ContainerRemove.
THEOREM RecheckSpares == Spec => RecheckSparesTheHealthy
<1>1. IInv /\ [Next]_vars
      => [(job \in {"startup", "poll"}) => \A a \in joined : anc'[a] # 0]_vars
  <2> SUFFICES ASSUME IInv, Next, job \in {"startup", "poll"}, NEW b \in joined
               PROVE  anc'[b] # 0
    OBVIOUS
  <2>1. /\ b \in Anchors /\ anc[b] # 0
        /\ anc \in [Anchors -> Nat] /\ ancs \in [Anchors -> Nat]
    BY DEF IInv, TypeOK, Exists
  <2>2. CASE UNCHANGED anc
    BY <2>1, <2>2
  <2>3. ASSUME NEW a \in Anchors, ComposeAnchor(a) \/ CreateAnchor(a) PROVE anc'[b] # 0
    <3>1. anc' = [anc EXCEPT ![a] = ancs[a] + 1] /\ ancs[a] \in Nat
      BY <2>1, <2>3 DEF ComposeAnchor, CreateAnchor
    <3> QED BY <2>1, <3>1
  <2>4. ASSUME NEW a \in Anchors, RemoveAnchor(a) PROVE anc'[b] # 0
    <3>1. pc = "remove" /\ cur = <<a, anc[a]>> /\ anc' = [anc EXCEPT ![a] = 0]
      BY <2>4 DEF RemoveAnchor
    <3>2. a \notin joined
      BY <3>1 DEF IInv, RecheckInv, Sick
    <3> QED BY <2>1, <3>1, <3>2
  <2>5. \/ UNCHANGED anc
        \/ \E a \in Anchors : ComposeAnchor(a) \/ CreateAnchor(a) \/ RemoveAnchor(a)
    BY DEF Next, Docker, Handle, Job, TargetStop, TargetRemove, TargetCreate, TargetStart,
           StreamBreaks, OnStart, Enumerate, EnumerateError, Recheck, RecheckError, WorkDone,
           NextEntry, AnchorGone, StartAnchor, RecreateFails, Subscribe, OnStreamError, Tick,
           Crash, WindowEnds, world
  <2> QED BY <2>2, <2>3, <2>4, <2>5
<1> QED BY <1>1, Invariant, PTL DEF Spec, RecheckSparesTheHealthy

-----------------------------------------------------------------------------
(* JoinedWhenQuiet.  An anchor the sidecar answers for runs in its target's    *)
(* namespace, or its recreate is under way, or a start of the target is still  *)
(* queued, ahead of which the sidecar will know the anchor's present ID.       *)

\* When the event at place i is handled the pool will hold the present ID.
Known(a, i) ==
    \/ <<a, anc[a]>> \in pool
    \/ job = "eventOwn" \/ pc = "enumerate"
    \/ \E j \in DOMAIN queue : j < i /\ queue[j] = a
InHand(a) ==
    \/ pc = "remove" /\ cur = <<a, anc[a]>>
    \/ pc \in {"create", "start"} /\ cur[1] = a
Listed(a) == pc \in Recreating /\ <<a, anc[a]>> \in work
Care(a) ==
    \/ a \in joined
    \/ InHand(a)
    \/ Listed(a)
    \/ TargetOf[a] \notin up /\ Known(a, Len(queue) + 1)
    \/ \E i \in DOMAIN queue : queue[i] = TargetOf[a] /\ Known(a, i)

\* A present ID is remembered as recreated only while it is.
Answered(a) ==
    /\ Care(a)
    /\ <<a, anc[a]>> \in recent => pc = "remove" /\ cur = <<a, anc[a]>>
    /\ Exists(a) \/ (pc = "create" /\ cur[1] = a)
RecentInv == \A e \in recent : e[2] <= ancs[e[1]]
FollowInv == RecentInv /\ \A a \in Anchors \ excused : Answered(a)

\* What the invariant says of types and of an idle or listing sidecar.
LEMMA FollowFacts ==
    ASSUME WrapAssumption, IInv
    PROVE  /\ queue \in Seq(Targets \cup Anchors) /\ Len(queue) \in Nat
           /\ anc \in [Anchors -> Nat] /\ ancs \in [Anchors -> Nat]
           /\ recent \subseteq Entries /\ work \subseteq pool /\ pool \subseteq Entries
           /\ \A a \in Anchors : TargetOf[a] \in Targets /\ a \notin Targets
           /\ \A a \in joined : a \in Anchors /\ Exists(a) /\ TargetOf[a] \in up
           /\ pc \notin Recreating => work = {} /\ job # "eventOwn"
           /\ pc = "subscribe" => queue = <<>>
BY DEF IInv, TypeOK, ControlInv, WrapAssumption

\* What docker queues comes last.
LEMMA Grown ==
    ASSUME queue \in Seq(Targets \cup Anchors), NEW n \in Targets \cup Anchors,
           queue' = queue \/ queue' = Append(queue, n)
    PROVE  /\ queue' \in Seq(Targets \cup Anchors)
           /\ \A i \in DOMAIN queue : i \in DOMAIN queue' /\ queue'[i] = queue[i]
<1>1. CASE queue' = queue
  BY <1>1
<1>2. CASE queue' = Append(queue, n)
  BY <1>2
<1> QED BY <1>1, <1>2

\* A joined anchor is known, whatever is queued behind its own start.
LEMMA JoinedIsKnown ==
    ASSUME WrapAssumption, IInv, NEW a \in joined \ excused
    PROVE  Known(a, Len(queue) + 1)
<1>1. queue \in Seq(Targets \cup Anchors)
  BY DEF IInv, TypeOK
<1>2. \A i \in DOMAIN queue : i < Len(queue) + 1
  BY <1>1
<1> QED BY <1>2 DEF IInv, PoolInv, Pending, Known

\* A step that takes nothing of this away.
LEMMA AnsweredKept ==
    ASSUME WrapAssumption, IInv, NEW a \in Anchors, Answered(a), anc'[a] = anc[a],
           queue' \in Seq(Targets \cup Anchors),
           \A i \in DOMAIN queue : i \in DOMAIN queue' /\ queue'[i] = queue[i],
           a \in joined => a \in joined',
           TargetOf[a] \in up' => TargetOf[a] \in up,
           <<a, anc[a]>> \in pool => <<a, anc[a]>> \in pool',
           job = "eventOwn" \/ pc = "enumerate" => job' = "eventOwn" \/ pc' = "enumerate",
           InHand(a) => InHand(a)',
           Listed(a) => Listed(a)' \/ InHand(a)',
           pc = "create" /\ cur[1] = a => pc' = "create" /\ cur'[1] = a,
           <<a, anc[a]>> \in recent' =>
               <<a, anc[a]>> \in recent \/ (pc' = "remove" /\ cur' = <<a, anc[a]>>),
           pc = "remove" /\ cur = <<a, anc[a]>> => pc' = "remove" /\ cur' = <<a, anc[a]>>
    PROVE  Answered(a)'
<1>1. Len(queue) <= Len(queue') /\ Len(queue) \in Nat /\ Len(queue') \in Nat
  <2>1. queue \in Seq(Targets \cup Anchors)
    BY DEF IInv, TypeOK
  <2>2. Len(queue) \in Nat /\ Len(queue') \in Nat /\ DOMAIN queue = 1 .. Len(queue)
        /\ DOMAIN queue' = 1 .. Len(queue')
    BY <2>1
  <2>3. Len(queue) # 0 => Len(queue) \in DOMAIN queue'
    BY <2>2
  <2> QED BY <2>2, <2>3
<1>2. ASSUME NEW i \in Nat, NEW k \in Nat, i <= k, Known(a, i) PROVE Known(a, k)'
  <2>1. ASSUME NEW j \in DOMAIN queue, j < i, queue[j] = a
        PROVE  \E l \in DOMAIN queue' : l < k /\ queue'[l] = a
    <3>1. j \in Nat
      BY <2>1 DEF IInv, TypeOK
    <3> QED BY <1>2, <2>1, <3>1
  <2> QED BY <1>2, <2>1 DEF Known
<1>3. TargetOf[a] \notin up /\ Known(a, Len(queue) + 1)
         => TargetOf[a] \notin up' /\ Known(a, Len(queue) + 1)'
  BY <1>1, <1>2
<1>4. ASSUME NEW i \in DOMAIN queue, queue[i] = TargetOf[a], Known(a, i)
      PROVE  i \in DOMAIN queue' /\ queue'[i] = TargetOf[a] /\ Known(a, i)'
  <2>1. i \in Nat
    BY <1>4 DEF IInv, TypeOK
  <2> QED BY <1>2, <1>4, <2>1
<1>5. Care(a)'
  BY <1>3, <1>4 DEF Answered, Care
<1> QED BY <1>5 DEF Answered, Exists

\* What happens to targets: an anchor that loses its namespace is known, and the
\* start of its target is queued behind that knowledge.
LEMMA TargetFollow ==
    ASSUME WrapAssumption, IInv, FollowInv, NEW t \in Targets,
           TargetStop(t) \/ TargetRemove(t) \/ TargetCreate(t) \/ TargetStart(t)
    PROVE  FollowInv'
<1>1. UNCHANGED <<anc, ancs, pc, job, pool, recent, work, cur>> /\ excused \subseteq excused'
  BY DEF TargetStop, TargetRemove, TargetCreate, TargetStart, Change, memory
<1>2. queue \in Seq(Targets \cup Anchors) /\ Len(queue) \in Nat
  BY FollowFacts
<1>3. queue' = queue \/ queue' = Append(queue, t)
  BY DEF TargetStop, TargetRemove, TargetCreate, TargetStart, Emit
<1>4. /\ queue' \in Seq(Targets \cup Anchors)
      /\ \A i \in DOMAIN queue : i \in DOMAIN queue' /\ queue'[i] = queue[i]
  BY <1>2, <1>3, Grown
<1>5. ASSUME NEW a \in Anchors \ excused' PROVE Answered(a)'
  <2>1. Answered(a) /\ a \in Anchors /\ a \notin excused
    BY <1>1 DEF FollowInv
  <2>2. CASE a \in joined /\ a \notin joined'
    <3>1. TargetOf[a] \notin up' /\ queue' = queue
      <4>1. CASE TargetStop(t)
        BY <2>2, <4>1 DEF TargetStop, AnchorsOf
      <4>2. CASE TargetRemove(t)
        BY <2>2, <4>2 DEF TargetRemove, AnchorsOf
      <4> QED BY <2>2, <4>1, <4>2 DEF TargetCreate, TargetStart
    <3>2. Known(a, Len(queue) + 1)
      BY <2>1, <2>2, JoinedIsKnown
    <3> QED BY <1>1, <2>1, <3>1, <3>2 DEF Answered, Care, Known, Exists
  <2>3. CASE (a \in joined => a \in joined') /\ (TargetOf[a] \in up' => TargetOf[a] \in up)
    BY <1>1, <1>4, <2>1, <2>3, AnsweredKept DEF InHand, Listed
  <2>4. CASE TargetOf[a] \in up' /\ TargetOf[a] \notin up
    <3>1. TargetOf[a] = t /\ TargetStart(t)
      BY <2>4 DEF TargetStop, TargetRemove, TargetCreate, TargetStart
    <3>2. stream
      BY <2>1, <3>1 DEF TargetStart, Unheard, Concerned, AnchorsOf
    <3>3. queue' = Append(queue, t)
      BY <3>1, <3>2 DEF TargetStart, Emit
    <3>4. Len(queue) + 1 \in DOMAIN queue' /\ queue'[Len(queue) + 1] = TargetOf[a]
      BY <1>2, <3>1, <3>3
    <3>5. \A i : Known(a, i) => Known(a, i)'
      BY <1>1, <1>4 DEF Known
    <3>6. Care(a)'
      <4>1. a \in joined => a \in joined'
        BY <3>1 DEF TargetStart
      <4> QED BY <1>1, <1>4, <2>1, <3>4, <3>5, <4>1 DEF Answered, Care, InHand, Listed
    <3> QED BY <1>1, <2>1, <3>6 DEF Answered, Exists
  <2> QED BY <2>2, <2>3, <2>4
<1> QED BY <1>1, <1>5 DEF FollowInv, RecentInv

\* Compose's new anchor is joined; its ID has not been seen before.
LEMMA ComposeFollow ==
    ASSUME WrapAssumption, IInv, FollowInv, NEW a \in Anchors, ComposeAnchor(a)
    PROVE  FollowInv'
<1>1. /\ UNCHANGED <<up, pc, job, pool, recent, work, cur>> /\ excused \ {a} \subseteq excused'
      /\ joined' = joined \cup {a}
  BY DEF ComposeAnchor, Change, memory
<1>2. /\ anc \in [Anchors -> Nat] /\ ancs \in [Anchors -> Nat] /\ recent \subseteq Entries
      /\ queue \in Seq(Targets \cup Anchors)
  BY FollowFacts
<1>3. anc' = [anc EXCEPT ![a] = ancs[a] + 1] /\ ancs' = [ancs EXCEPT ![a] = ancs[a] + 1]
  BY <1>2 DEF ComposeAnchor
<1>4. queue' = queue \/ queue' = Append(queue, a)
  BY DEF ComposeAnchor, Emit
<1>5. /\ queue' \in Seq(Targets \cup Anchors)
      /\ \A i \in DOMAIN queue : i \in DOMAIN queue' /\ queue'[i] = queue[i]
  BY <1>2, <1>4, Grown
<1>6. ASSUME NEW e \in recent
      PROVE  e[2] <= ancs'[e[1]] /\ e # <<a, ancs[a] + 1>>
  <2>1. e[1] \in Anchors /\ e[2] \in Nat /\ e[2] <= ancs[e[1]] /\ ancs[e[1]] \in Nat /\ ancs[a] \in Nat
    BY <1>2 DEF FollowInv, RecentInv, Entries
  <2>2. ancs'[e[1]] = IF e[1] = a THEN ancs[a] + 1 ELSE ancs[e[1]]
    BY <1>2, <1>3, <2>1
  <2> QED BY <2>1, <2>2
<1>7. ASSUME NEW b \in Anchors \ excused', b # a PROVE Answered(b)'
  <2>1. Answered(b) /\ anc'[b] = anc[b]
    BY <1>1, <1>2, <1>3, <1>7 DEF FollowInv
  <2> QED BY <1>1, <1>5, <1>7, <2>1, AnsweredKept DEF InHand, Listed
<1>8. Answered(a)'
  <2>1. anc'[a] = ancs[a] + 1 /\ ancs[a] \in Nat
    BY <1>2, <1>3
  <2> QED BY <1>1, <1>6, <2>1 DEF Answered, Care, Exists
<1> QED BY <1>1, <1>6, <1>7, <1>8 DEF FollowInv, RecentInv

\* A list finds the anchor, or excuses it.
LEMMA EnumerateFollow ==
    ASSUME WrapAssumption, IInv, FollowInv, Enumerate \/ EnumerateError \/ Recheck \/ RecheckError
    PROVE  FollowInv'
<1>1. UNCHANGED <<anc, ancs, joined, up, queue, recent, cur>> /\ excused \subseteq excused'
      /\ pc \in {"enumerate", "recheck"} /\ pc' \notin {"remove", "create", "start"}
  BY DEF Enumerate, EnumerateError, Recheck, RecheckError, world, sub, memory, AfterEnumerate, Done, Goto
<1>2. work = {} /\ job # "eventOwn" /\ queue \in Seq(Targets \cup Anchors)
  BY <1>1, FollowFacts DEF Recreating
<1>3. ASSUME NEW a \in Anchors \ excused' PROVE Answered(a)'
  <2>1. Answered(a) /\ a \in Anchors /\ a \notin excused
    BY <1>1 DEF FollowInv
  <2>2. Exists(a) /\ ~InHand(a) /\ ~Listed(a) /\ <<a, anc[a]>> \notin recent
    BY <1>1, <2>1 DEF Answered, InHand, Listed, Recreating
  <2>3. CASE Enumerate \/ EnumerateError
    <3>1. <<a, anc[a]>> \in pool'
      BY <2>1, <2>2, <2>3 DEF Enumerate, EnumerateError, buildTargetPool, memory
    <3>2. Care(a)'
      BY <1>1, <2>1, <2>2, <3>1 DEF Answered, Care, Known
    <3> QED BY <1>1, <2>2, <3>2 DEF Answered, Exists
  <2>4. CASE Recheck \/ RecheckError
    <3>1. pc = "recheck" /\ pool' = pool
      BY <2>4 DEF Recheck, RecheckError, memory
    <3> QED BY <1>1, <1>2, <2>1, <2>2, <3>1, AnsweredKept
  <2> QED BY <2>3, <2>4
<1> QED BY <1>1, <1>3 DEF FollowInv, RecentInv

\* Between the entries of a job, at its end, and where one is given up.
LEMMA WorkFollow ==
    ASSUME WrapAssumption, IInv, FollowInv,
           \/ WorkDone \/ Tick \/ StreamBreaks
           \/ \E e \in work : NextEntry(e)
           \/ \E e \in recent : WindowEnds(e)
           \/ \E a \in Anchors : AnchorGone(a)
           \/ \E a \in Anchors : RecreateFails(a)
    PROVE  FollowInv'
<1>1. UNCHANGED <<anc, ancs, joined, up, pool, queue>> /\ excused \subseteq excused'
  BY DEF WorkDone, Tick, StreamBreaks, NextEntry, WindowEnds, AnchorGone, RecreateFails, world, sub, memory
<1>2. queue' \in Seq(Targets \cup Anchors) /\ recent \subseteq Entries /\ work \subseteq pool
  BY <1>1, FollowFacts
<1>3. RecentInv'
  <2>1. recent' \subseteq recent \cup work
    BY DEF WorkDone, Tick, StreamBreaks, NextEntry, WindowEnds, AnchorGone, RecreateFails, memory
  <2>2. \A e \in work : e[2] <= ancs[e[1]]
    BY <1>2 DEF IInv, GenInv
  <2> QED BY <1>1, <2>1, <2>2 DEF FollowInv, RecentInv
<1>4. ASSUME NEW a \in Anchors \ excused' PROVE Answered(a)'
  <2>1. Answered(a) /\ a \in Anchors /\ a \notin excused
    BY <1>1 DEF FollowInv
  <2>2. CASE WorkDone
    <3>1. /\ UNCHANGED <<recent, work, cur>> /\ work = {} /\ pc = "work"
          /\ job = "eventOwn" => pc' = "enumerate"
      BY <2>2 DEF WorkDone, memory
    <3> QED BY <1>1, <1>2, <2>1, <3>1, AnsweredKept DEF InHand, Listed
  <2>3. CASE Tick
    <3>1. UNCHANGED <<recent, work, cur>> /\ pc = "idle" /\ pc' = "enumerate" /\ work = {}
      BY <2>3, FollowFacts DEF Tick, memory, Recreating
    <3> QED BY <1>1, <1>2, <2>1, <3>1, AnsweredKept DEF InHand, Listed
  <2>4. CASE StreamBreaks \/ \E e \in recent : WindowEnds(e)
    <3>1. UNCHANGED <<pc, job, work, cur>> /\ recent' \subseteq recent
      BY <2>4 DEF StreamBreaks, WindowEnds, memory
    <3> QED BY <1>1, <1>2, <2>1, <3>1, AnsweredKept DEF InHand, Listed
  <2>5. ASSUME NEW e \in work, NextEntry(e) PROVE Answered(a)'
    <3>1. pc = "work" /\ work' = work \ {e} /\ job' = job
      BY <2>5 DEF NextEntry, Goto
    <3>2. ~InHand(a) /\ <<a, anc[a]>> \notin recent
      BY <2>1, <3>1 DEF InHand, Answered
    <3>3. CASE e \in recent
      <4>1. UNCHANGED <<pc, cur, recent>> /\ e # <<a, anc[a]>>
        BY <2>5, <3>2, <3>3 DEF NextEntry
      <4> QED BY <1>1, <1>2, <2>1, <3>1, <3>2, <4>1, AnsweredKept DEF Listed
    <3>4. CASE e \notin recent
      <4>1. cur' = e /\ recent' = recent \cup {e} /\ pc' = "remove"
        BY <2>5, <3>4 DEF NextEntry, Goto
      <4>2. Listed(a) => Listed(a)' \/ InHand(a)'
        BY <1>1, <3>1, <4>1 DEF Listed, InHand, Recreating
      <4> QED BY <1>1, <1>2, <2>1, <3>1, <3>2, <4>1, <4>2, AnsweredKept
    <3> QED BY <3>3, <3>4
  <2>6. ASSUME NEW b \in Anchors, AnchorGone(b) \/ RecreateFails(b) PROVE Answered(a)'
    <3>1. /\ UNCHANGED <<job, work, recent>> /\ pc \in {"remove", "create", "start"} /\ pc' = "work"
          /\ cur[1] = b
      BY <2>6 DEF AnchorGone, RecreateFails, EndEntry, Goto, memory
    <3>2. ~(cur[1] = a /\ pc \in {"create", "start"}) /\ ~(pc = "remove" /\ cur = <<a, anc[a]>>)
      BY <2>6, <3>1 DEF AnchorGone, RecreateFails
    <3>3. ~InHand(a)
      BY <3>2 DEF InHand
    <3>4. <<a, anc[a]>> \notin recent
      BY <2>1, <3>2 DEF Answered
    <3>5. Listed(a) => Listed(a)'
      BY <1>1, <3>1 DEF Listed, Recreating
    <3> QED BY <1>1, <1>2, <2>1, <3>1, <3>2, <3>3, <3>4, <3>5, AnsweredKept
  <2> QED BY <2>2, <2>3, <2>4, <2>5, <2>6
<1> QED BY <1>3, <1>4 DEF FollowInv

\* recreateAnchor's own three steps.
LEMMA RecreateFollow ==
    ASSUME WrapAssumption, IInv, FollowInv, NEW a \in Anchors,
           RemoveAnchor(a) \/ CreateAnchor(a) \/ StartAnchor(a)
    PROVE  FollowInv'
<1>1. /\ UNCHANGED <<up, pool, recent, work, job>> /\ excused \subseteq excused'
      /\ joined \ {a} \subseteq joined' /\ pc \in {"remove", "create", "start"} /\ cur[1] = a
  BY DEF RemoveAnchor, CreateAnchor, StartAnchor, EndEntry, Goto, memory
<1>2. /\ anc \in [Anchors -> Nat] /\ ancs \in [Anchors -> Nat] /\ recent \subseteq Entries
      /\ queue \in Seq(Targets \cup Anchors)
  BY FollowFacts
<1>3. queue' = queue \/ queue' = Append(queue, a)
  BY DEF RemoveAnchor, CreateAnchor, StartAnchor, Emit, sub
<1>4. /\ queue' \in Seq(Targets \cup Anchors)
      /\ \A i \in DOMAIN queue : i \in DOMAIN queue' /\ queue'[i] = queue[i]
  BY <1>2, <1>3, Grown
<1>5. ASSUME NEW b \in Anchors \ excused', b # a PROVE Answered(b)'
  <2>1. Answered(b) /\ b \in Anchors /\ anc'[b] = anc[b]
    BY <1>1, <1>2, <1>5 DEF FollowInv, RemoveAnchor, CreateAnchor, StartAnchor
  <2>2. cur[1] # b /\ pc' \in {"create", "start", "work"} /\ (pc' \in {"create", "start"} => cur'[1] = a)
    BY <1>1, <1>5 DEF RemoveAnchor, CreateAnchor, StartAnchor, EndEntry, Goto
  <2>3. ~InHand(b) /\ cur # <<b, anc[b]>>
    BY <2>2 DEF InHand
  <2>4. Listed(b) => Listed(b)'
    BY <1>1, <2>1, <2>2 DEF Listed, Recreating
  <2> QED BY <1>1, <1>4, <1>5, <2>1, <2>2, <2>3, <2>4, AnsweredKept
<1>6. ASSUME a \notin excused' PROVE Answered(a)'
  <2>1. Answered(a) /\ a \notin excused
    BY <1>1, <1>6 DEF FollowInv
  <2>2. CASE RemoveAnchor(a)
    <3>1. anc'[a] = 0 /\ pc' = "create" /\ cur'[1] = a
      BY <1>1, <1>2, <2>2 DEF RemoveAnchor, Goto
    <3>2. <<a, anc'[a]>> \notin recent
      BY <1>2, <3>1 DEF Entries
    <3> QED BY <1>1, <3>1, <3>2 DEF Answered, Care, InHand
  <2>3. CASE CreateAnchor(a)
    <3>1. anc'[a] = ancs[a] + 1 /\ ancs[a] \in Nat /\ pc' = "start" /\ cur' = <<a, ancs[a] + 1>>
      BY <1>2, <2>3 DEF CreateAnchor, Goto
    <3>2. <<a, anc'[a]>> \notin recent
      BY <3>1 DEF FollowInv, RecentInv
    <3> QED BY <1>1, <3>1, <3>2 DEF Answered, Care, InHand, Exists
  <2>4. CASE StartAnchor(a)
    <3>1. anc' = anc /\ joined' = joined \cup {a} /\ pc = "start"
      BY <2>4 DEF StartAnchor
    <3>2. <<a, anc[a]>> \notin recent /\ Exists(a)
      BY <2>1, <3>1 DEF Answered
    <3> QED BY <1>1, <3>1, <3>2 DEF Answered, Care, Exists
  <2> QED BY <2>2, <2>3, <2>4
<1>7. RecentInv'
  <2>1. \A b \in Anchors : ancs[b] <= ancs'[b] /\ ancs[b] \in Nat /\ ancs'[b] \in Nat
    <3>1. ancs' = ancs \/ ancs' = [ancs EXCEPT ![a] = ancs[a] + 1]
      BY <1>2 DEF RemoveAnchor, CreateAnchor, StartAnchor
    <3>2. \A b \in Anchors : ancs[b] \in Nat /\ ancs'[b] \in {ancs[b], ancs[b] + 1}
      BY <1>2, <3>1
    <3> QED BY <3>2
  <2>2. \A e \in recent : e[1] \in Anchors /\ e[2] \in Nat
    BY <1>2 DEF Entries
  <2>3. ASSUME NEW e \in recent PROVE e[2] <= ancs'[e[1]]
    <3>1. e[2] <= ancs[e[1]]
      BY DEF FollowInv, RecentInv
    <3> QED BY <2>1, <2>2, <3>1
  <2> QED BY <1>1, <2>3 DEF RecentInv
<1> QED BY <1>5, <1>6, <1>7 DEF FollowInv

\* Run and consume: what is lost is excused, and the target's start finds in the
\* pool what the starts before it made known.
LEMMA ConsumeFollow ==
    ASSUME WrapAssumption, IInv, FollowInv,
           \/ Subscribe \/ OnStreamError \/ Crash
           \/ \E n \in Targets \cup Anchors : OnStart(n)
    PROVE  FollowInv'
<1>1. UNCHANGED <<anc, ancs, joined, up>> /\ excused \subseteq excused'
  BY DEF Subscribe, OnStreamError, Crash, OnStart, world
<1>2. queue \in Seq(Targets \cup Anchors) /\ Len(queue) \in Nat
  BY FollowFacts
<1>3. RecentInv'
  <2>1. recent' \subseteq recent
    BY DEF Subscribe, OnStreamError, Crash, OnStart, memory
  <2> QED BY <1>1, <2>1 DEF FollowInv, RecentInv
<1>4. ASSUME NEW a \in Anchors \ excused' PROVE Answered(a)'
  <2>1. Answered(a) /\ a \in Anchors /\ a \notin excused /\ TargetOf[a] \in Targets /\ a \notin Targets
    BY <1>1, FollowFacts DEF FollowInv
  <2>2. CASE Crash
    <3>1. recent' = {} /\ pc' = "enumerate" /\ Exists(a) /\ (TargetOf[a] \in up => a \in joined)
      BY <2>1, <2>2, FollowFacts DEF Crash
    <3> QED BY <1>1, <3>1 DEF Answered, Care, Known, Exists
  <2>3. CASE Subscribe
    <3>1. /\ UNCHANGED <<job, pool, recent, work, cur>> /\ pc = "subscribe" /\ pc' = "idle"
          /\ queue' = queue /\ work = {} /\ job # "eventOwn"
      BY <2>3, FollowFacts DEF Subscribe, memory, Recreating
    <3> QED BY <1>1, <1>2, <2>1, <3>1, AnsweredKept DEF InHand, Listed
  <2>4. CASE OnStreamError
    <3>1. /\ UNCHANGED <<job, pool, recent, work, cur>> /\ pc = "idle" /\ pc' = "subscribe"
          /\ work = {} /\ job # "eventOwn" /\ a \notin Dropped
      BY <2>4, FollowFacts DEF OnStreamError, memory, Goto, Recreating
    <3>2. \A i \in DOMAIN queue : a \notin Concerned(queue[i])
      BY <3>1 DEF Dropped
    <3>3. \A i \in DOMAIN queue : queue[i] # a /\ queue[i] # TargetOf[a]
      BY <2>1, <3>2 DEF Concerned, AnchorsOf
    <3>4. a \in joined \/ (TargetOf[a] \notin up /\ <<a, anc[a]>> \in pool)
      BY <2>1, <3>1, <3>3 DEF Answered, Care, InHand, Listed, Known
    <3>5. Exists(a) /\ <<a, anc[a]>> \notin recent
      BY <2>1, <3>1 DEF Answered
    <3> QED BY <1>1, <3>1, <3>4, <3>5 DEF Answered, Care, Known, Exists
  <2>5. ASSUME NEW n \in Targets \cup Anchors, OnStart(n) PROVE Answered(a)'
    <3>1. /\ UNCHANGED <<pool, recent, cur>> /\ pc = "idle" /\ pc' = "work"
          /\ queue # <<>> /\ n = queue[1] /\ queue' = Tail(queue)
          /\ work' = {e \in pool : TargetOf[e[1]] = n}
          /\ n \in Anchors => job' = "eventOwn"
      BY <1>2, <2>5 DEF OnStart, memory
    <3>2. job # "eventOwn" /\ ~InHand(a) /\ ~Listed(a) /\ Exists(a) /\ <<a, anc[a]>> \notin recent
      BY <2>1, <3>1, FollowFacts DEF InHand, Listed, Recreating, Answered
    <3>3. Len(queue') = Len(queue) - 1
          /\ \A i \in DOMAIN queue : i # 1 => i - 1 \in DOMAIN queue' /\ queue'[i - 1] = queue[i]
      BY <1>2, <3>1
    <3>4. ASSUME NEW i \in Nat, Known(a, i) PROVE Known(a, i - 1)'
      <4>1. CASE <<a, anc[a]>> \in pool
        BY <1>1, <3>1, <4>1 DEF Known
      <4>2. ASSUME NEW j \in DOMAIN queue, j < i, queue[j] = a PROVE Known(a, i - 1)'
        <5>1. CASE j = 1
          BY <2>1, <3>1, <4>2, <5>1 DEF Known
        <5>2. CASE j # 1
          <6>1. j - 1 \in DOMAIN queue' /\ queue'[j - 1] = a /\ j \in Nat
            BY <1>2, <3>3, <4>2, <5>2
          <6>2. j - 1 < i - 1
            BY <4>2, <6>1
          <6> QED BY <6>1, <6>2 DEF Known
        <5> QED BY <5>1, <5>2
      <4> QED BY <3>1, <3>2, <3>4, <4>1, <4>2 DEF Known
    <3>5. Care(a)'
      <4>1. CASE a \in joined
        BY <1>1, <4>1 DEF Care
      <4>2. CASE TargetOf[a] \notin up /\ Known(a, Len(queue) + 1)
        BY <1>1, <1>2, <3>3, <3>4, <4>2 DEF Care
      <4>3. ASSUME NEW i \in DOMAIN queue, queue[i] = TargetOf[a], Known(a, i) PROVE Care(a)'
        <5>1. CASE i = 1
          <6>1. <<a, anc[a]>> \in pool
            BY <1>2, <3>1, <3>2, <4>3, <5>1 DEF Known
          <6> QED BY <1>1, <3>1, <4>3, <5>1, <6>1 DEF Care, Listed, Recreating
        <5>2. CASE i # 1
          <6>1. i \in Nat /\ i - 1 \in DOMAIN queue' /\ queue'[i - 1] = TargetOf[a]
            BY <1>2, <3>3, <4>3, <5>2
          <6> QED BY <3>4, <4>3, <6>1 DEF Care
        <5> QED BY <5>1, <5>2
      <4> QED BY <2>1, <3>2, <4>1, <4>2, <4>3 DEF Answered, Care
    <3> QED BY <1>1, <3>1, <3>2, <3>5 DEF Answered, Exists
  <2> QED BY <2>2, <2>3, <2>4, <2>5
<1> QED BY <1>3, <1>4 DEF FollowInv

\* F-49, the safety half of FollowsWhenHeard: with every event handled no anchor
\* the sidecar answers for is left outside the namespace of its running target,
\* however recreates of target and anchors, the poll and the rapid-restart window
\* interleave with handleStart and recreateAnchor.
THEOREM AnchorsAreJoined == Spec => []JoinedWhenQuiet
<1>1. Init => FollowInv
  <2> SUFFICES ASSUME Init, NEW a \in Anchors \ excused PROVE Answered(a)
    BY DEF Init, FollowInv, RecentInv
  <2>1. Exists(a) /\ (TargetOf[a] \in up => a \in joined)
    BY DEF Init
  <2> QED BY <2>1 DEF Init, Answered, Care, Known
<1>2. IInv /\ FollowInv /\ [Next]_vars => FollowInv'
  <2> SUFFICES ASSUME IInv, FollowInv, [Next]_vars PROVE FollowInv'
    OBVIOUS
  <2>1. CASE UNCHANGED vars
    BY <2>1 DEF vars, world, sub, memory, FollowInv, RecentInv, Answered, Care, Known, InHand, Listed, Exists
  <2>2. CASE Docker
    BY <2>2, WrapAssumption, TargetFollow, ComposeFollow, WorkFollow DEF Docker
  <2>3. CASE Handle \/ Crash
    BY <2>3, WrapAssumption, ConsumeFollow DEF Handle
  <2>4. CASE Job
    <3>1. CASE Enumerate \/ EnumerateError \/ Recheck \/ RecheckError
      BY <3>1, WrapAssumption, EnumerateFollow
    <3>2. CASE WorkDone \/ (\E e \in work : NextEntry(e))
               \/ (\E a \in Anchors : AnchorGone(a)) \/ (\E a \in Anchors : RecreateFails(a))
      BY <3>2, WrapAssumption, WorkFollow
    <3>3. CASE \E a \in Anchors : RemoveAnchor(a) \/ CreateAnchor(a) \/ StartAnchor(a)
      BY <3>3, WrapAssumption, RecreateFollow
    <3>4. CASE Subscribe \/ OnStreamError
      BY <3>4, WrapAssumption, ConsumeFollow
    <3> QED BY <2>4, <3>1, <3>2, <3>3, <3>4 DEF Job
  <2>5. CASE Tick \/ \E e \in recent : WindowEnds(e)
    BY <2>5, WrapAssumption, WorkFollow
  <2> QED BY <2>1, <2>2, <2>3, <2>4, <2>5 DEF Next
<1>3. IInv /\ FollowInv => JoinedWhenQuiet
  <2> SUFFICES ASSUME IInv, FollowInv, pc = "idle", queue = <<>>, NEW a \in Anchors \ excused,
                      TargetOf[a] \in up
               PROVE  a \in joined
    BY DEF JoinedWhenQuiet
  <2>1. Care(a)
    BY DEF FollowInv, Answered
  <2> QED BY <2>1 DEF Care, InHand, Listed, Recreating
<1> QED BY <1>1, <1>2, <1>3, Invariant, PTL DEF Spec
=============================================================================
