------------------------ MODULE ExternalRebinderProofs ------------------------
(***************************************************************************)
(* Proofs about the external-network rebinder, for any foreign stack, any  *)
(* quiet window and any changes docker makes between two calls: types,     *)
(* that waitForSettle's Ready is earned, that parked tells the truth, and  *)
(* that the follower lets go of a network it is left alone on.             *)
(***************************************************************************)
EXTENDS ExternalRebinder, FiniteSetTheorems, SequenceTheorems, TLAPS

Polling == {"setNet", "setList", "probe"}
AfterPolling == {"reNet", "reList", "reDisc", "connect", "backoff", "restart"}

\* What waitForSettle keeps between two polls: last is the size of the set it
\* saw last, and the stable polls and the one before them all saw that size,
\* which is not zero.  The loop ends with the poll that completes the window.
SettleInv ==
    /\ Len(probes) = 0 => last = 0 /\ stable = 0
    /\ Len(probes) > 0 => last = Cardinality(probes[Len(probes)])
    /\ stable > 0 =>
          /\ Len(probes) > stable
          /\ \A i \in (Len(probes) - stable)..Len(probes) :
                 probes[i] # {} /\ Cardinality(probes[i]) = last
    /\ pc \in Polling => stable < QuietPolls
    /\ stable > 0 => pc \in Polling \cup AfterPolling

\* IDs are given out in order.
IdInv == net <= nets /\ fid <= followers

IInv == TypeOK /\ IdInv /\ SettleInv

LEMMA PolledSets ==
    ASSUME TypeOK
    PROVE  /\ ForeignEndpoints \in SUBSET (Targets \cup 1..MaxFollowers)
           /\ ForeignCount \in 0..Cardinality(Targets) + 1
           /\ ForeignCount = 0 <=> ForeignEndpoints = {}
<1>1. seen.members \subseteq Targets /\ seen.follower \in 0..MaxFollowers
  BY DEF TypeOK
<1>2. ForeignEndpoints \in SUBSET (Targets \cup 1..MaxFollowers)
  BY <1>1, RebinderAssumption DEF ForeignEndpoints
<1> DEFINE Most == Targets \cup {seen.follower}
<1>3. IsFiniteSet(Targets)  BY RebinderAssumption
<1>4. /\ IsFiniteSet(Most)
      /\ Cardinality(Most) = Cardinality(Targets) \/ Cardinality(Most) = Cardinality(Targets) + 1
  BY <1>3, FS_AddElement
<1>5. ForeignEndpoints \subseteq Most
  BY <1>1 DEF ForeignEndpoints
<1>6. IsFiniteSet(ForeignEndpoints) /\ Cardinality(ForeignEndpoints) <= Cardinality(Most)
  BY <1>4, <1>5, FS_Subset
<1>7. /\ Cardinality(Targets) \in Nat /\ Cardinality(Most) \in Nat
      /\ Cardinality(ForeignEndpoints) \in Nat
  BY <1>3, <1>4, <1>6, FS_CardinalityType
<1>8. ForeignCount \in 0..Cardinality(Targets) + 1
  <2> HIDE DEF Most
  <2> QED  BY <1>4, <1>6, <1>7 DEF ForeignCount
<1>9. ForeignCount = 0 <=> ForeignEndpoints = {}
  BY <1>6, FS_EmptySet DEF ForeignCount
<1> QED  BY <1>2, <1>8, <1>9

LEMMA InitInv == Init => IInv
<1> SUFFICES ASSUME Init PROVE IInv  OBVIOUS
<1>1. Cardinality(Targets) \in Nat
  BY RebinderAssumption, FS_CardinalityType
<1>2. queue \in Seq({"create", "destroy", "connect", "disconnect"})
      /\ probes \in Seq(SUBSET (Targets \cup 1..MaxFollowers))
  BY EmptySeq DEF Init
<1>3. seen \in [net : 0..MaxNets, members : SUBSET Targets, follower : 0..MaxFollowers]
  BY RebinderAssumption DEF Init, Nothing
<1>4. joined \in {"alone", "others"}
  BY DEF Init
<1>5. /\ net \in 0..MaxNets /\ nets \in 1..MaxNets /\ stored \in 0..MaxNets
      /\ fid \in 0..MaxFollowers /\ followers \in 0..MaxFollowers
      /\ target \in 0..MaxFollowers /\ attempt \in 0..ConnectAttempts
      /\ last \in 0..Cardinality(Targets) + 1
      /\ stable \in 0..QuietPolls /\ elapsed \in 0..MaxPolls
  BY <1>1, RebinderAssumption DEF Init
<1>6. /\ ops \in 0..MaxOps /\ apiFaults \in 0..MaxApiFaults /\ inUse \in 0..MaxInUse
      /\ streamFaults \in 0..MaxStreamFaults /\ crashes \in 0..MaxCrashes
      /\ restarts \in 0..MaxRestarts
  BY RebinderAssumption DEF Init
<1>7. TypeOK
  BY <1>2, <1>3, <1>4, <1>5, <1>6 DEF Init, TypeOK, Labels
<1>8. IdInv /\ SettleInv
  BY EmptySeq, RebinderAssumption DEF Init, IdInv, SettleInv, Polling, AfterPolling
<1> QED  BY <1>7, <1>8 DEF IInv

Actions == {"create", "destroy", "connect", "disconnect"}

\* Whatever docker emits, only network events are queued.
LEMMA EmitTypes ==
    ASSUME queue \in Seq(Actions), NEW es \in Seq(Actions), Emit(es)
    PROVE  queue' \in Seq(Actions)
BY ConcatProperties DEF Emit

LEMMA Events ==
    /\ <<>> \in Seq(Actions)
    /\ \A a \in Actions : <<a>> \in Seq(Actions)
    /\ <<"disconnect", "connect">> \in Seq(Actions)
BY DEF Actions

LEMMA OneEvent ==
    ASSUME NEW a
    PROVE  1 \in DOMAIN <<a>> /\ \A k \in DOMAIN <<a>> : <<a>>[k] = a
OBVIOUS

LEMMA NoEvent == DOMAIN <<>> = {}
OBVIOUS

\* A change on the docker side touches nothing the sidecar keeps.
LEMMA ChangeInv ==
    ASSUME IInv, NEW es \in Seq(Actions), Change(es),
           net' \in 0..MaxNets, nets' \in 1..MaxNets, members' \subseteq Targets,
           fid' \in 0..MaxFollowers, followers' \in 0..MaxFollowers,
           running' \in BOOLEAN, stored' \in 0..MaxNets,
           joined' \in {"alone", "others"}, restarts' \in 0..MaxRestarts, IdInv'
    PROVE  IInv'
<1>1. queue \in Seq(Actions) /\ Emit(es)
  BY DEF IInv, TypeOK, Actions, Change
<1>2. queue' \in Seq({"create", "destroy", "connect", "disconnect"})
  BY <1>1, EmitTypes DEF Actions
<1>3. ops' \in 0..MaxOps
  BY RebinderAssumption DEF IInv, TypeOK, Change
<1>4. TypeOK'
  BY <1>2, <1>3 DEF IInv, TypeOK, Change, locals, settle, bounds
<1>5. SettleInv'
  BY DEF IInv, SettleInv, Change, locals, settle
<1> QED  BY <1>4, <1>5 DEF IInv

LEMMA DockerInv == IInv /\ Docker => IInv'
<1> SUFFICES ASSUME IInv, Docker PROVE IInv'  OBVIOUS
<1>t. TypeOK /\ IdInv /\ RebinderAssumption
  BY RebinderAssumption DEF IInv, RebinderAssumption
<1>1. CASE NetworkCreate
  <2>1. Change(<<"create">>) /\ <<"create">> \in Seq(Actions)
    BY <1>1, Events DEF NetworkCreate, Actions
  <2>2. nets' \in 1..MaxNets /\ net' \in 0..MaxNets /\ IdInv'
    BY <1>1, <1>t DEF NetworkCreate, TypeOK, IdInv, follower
  <2> QED  BY <1>1, <1>t, <2>1, <2>2, ChangeInv DEF NetworkCreate, TypeOK, follower
<1>2. CASE NetworkRemove
  <2>1. Change(<<"destroy">>) /\ <<"destroy">> \in Seq(Actions)
    BY <1>2, Events DEF NetworkRemove, Actions
  <2>2. net' \in 0..MaxNets /\ IdInv'
    BY <1>2, <1>t DEF NetworkRemove, TypeOK, IdInv, follower, RebinderAssumption
  <2> QED  BY <1>2, <1>t, <2>1, <2>2, ChangeInv DEF NetworkRemove, TypeOK, follower
<1>3. CASE \E t \in Targets : Join(t)
  <2> PICK t \in Targets : Join(t)  BY <1>3
  <2>1. Change(<<"connect">>) /\ <<"connect">> \in Seq(Actions)
    BY Events DEF Join, Actions
  <2> QED  BY <1>t, <2>1, ChangeInv DEF Join, TypeOK, IdInv, follower
<1>4. CASE \E t \in Targets : Leave(t)
  <2> PICK t \in Targets : Leave(t)  BY <1>4
  <2>1. Change(<<"disconnect">>) /\ <<"disconnect">> \in Seq(Actions)
    BY Events DEF Leave, Actions
  <2> QED  BY <1>t, <2>1, ChangeInv DEF Leave, TypeOK, IdInv, follower
<1>5. CASE FollowerStop
  <2> DEFINE es == IF Attached THEN <<"disconnect">> ELSE <<>>
  <2>1. Change(es) /\ es \in Seq(Actions)
    BY <1>5, Events DEF FollowerStop, Actions
  <2> HIDE DEF es
  <2> QED  BY <1>5, <1>t, <2>1, ChangeInv DEF FollowerStop, TypeOK, IdInv, network
<1>6. CASE FollowerStart
  <2> DEFINE es == IF stored # 0 THEN <<"connect">> ELSE <<>>
  <2>1. Change(es) /\ es \in Seq(Actions)
    BY <1>6, Events DEF FollowerStart, Actions
  <2>2. stored' \in 0..MaxNets /\ joined' \in {"alone", "others"}
    BY <1>6, <1>t DEF FollowerStart, TypeOK, RebinderAssumption
  <2> HIDE DEF es
  <2> QED  BY <1>6, <1>t, <2>1, <2>2, ChangeInv DEF FollowerStart, TypeOK, IdInv, network
<1>7. CASE FollowerRemove
  <2>1. Change(<<>>) /\ <<>> \in Seq(Actions)
    BY <1>7, Events DEF FollowerRemove
  <2>2. fid' \in 0..MaxFollowers /\ stored' \in 0..MaxNets /\ IdInv'
    BY <1>7, <1>t DEF FollowerRemove, TypeOK, IdInv, network, RebinderAssumption
  <2> QED  BY <1>7, <1>t, <2>1, <2>2, ChangeInv DEF FollowerRemove, TypeOK, network
<1>8. CASE FollowerCreate
  <2>1. Change(<<"connect">>) /\ <<"connect">> \in Seq(Actions)
    BY <1>8, Events DEF FollowerCreate, Actions
  <2>2. /\ fid' \in 0..MaxFollowers /\ followers' \in 0..MaxFollowers /\ IdInv'
        /\ joined' \in {"alone", "others"} /\ stored' \in 0..MaxNets
    BY <1>8, <1>t DEF FollowerCreate, TypeOK, IdInv, network, RebinderAssumption
  <2> QED  BY <1>8, <1>t, <2>1, <2>2, ChangeInv DEF FollowerCreate, TypeOK, network
<1>9. CASE StreamBreaks
  <2>1. streamFaults' \in 0..MaxStreamFaults
    BY <1>9, <1>t DEF StreamBreaks, TypeOK, RebinderAssumption
  <2>2. TypeOK'
    BY <1>9, <1>t, <2>1 DEF StreamBreaks, TypeOK, docker, network, follower, locals, settle
  <2>3. IdInv' /\ SettleInv'
    BY <1>9 DEF StreamBreaks, IInv, IdInv, SettleInv, docker, network, follower, locals, settle
  <2> QED  BY <2>2, <2>3 DEF IInv
<1> QED  BY <1>1, <1>2, <1>3, <1>4, <1>5, <1>6, <1>7, <1>8, <1>9 DEF Docker

\* The types of the variables a step of the sidecar changes, part by part.
FollowerOK ==
    /\ running \in BOOLEAN /\ stored \in 0..MaxNets
    /\ joined \in {"alone", "others"} /\ restarts \in 0..MaxRestarts
SubOK == stream \in BOOLEAN /\ queue \in Seq(Actions)
LocalOK ==
    /\ pc \in Labels /\ boot \in BOOLEAN
    /\ seen \in [net : 0..MaxNets, members : SUBSET Targets, follower : 0..MaxFollowers]
    /\ target \in 0..MaxFollowers /\ attempt \in 0..ConnectAttempts
    /\ last \in 0..Cardinality(Targets) + 1
    /\ stable \in 0..QuietPolls /\ elapsed \in 0..MaxPolls
    /\ probes \in Seq(SUBSET (Targets \cup 1..MaxFollowers))
BoundsOK ==
    /\ apiFaults \in 0..MaxApiFaults /\ inUse \in 0..MaxInUse
    /\ streamFaults \in 0..MaxStreamFaults /\ crashes \in 0..MaxCrashes

LEMMA Parts == TypeOK => FollowerOK /\ SubOK /\ LocalOK /\ BoundsOK /\ parked \in BOOLEAN
BY DEF TypeOK, FollowerOK, SubOK, LocalOK, BoundsOK, Actions

\* A step of the sidecar leaves the networks and the containers alone.
LEMMA Together ==
    ASSUME IInv, FollowerOK', SubOK', LocalOK', BoundsOK', SettleInv', parked' \in BOOLEAN,
           UNCHANGED <<network, fid, followers, ops>>
    PROVE  IInv'
<1>1. TypeOK'
  BY DEF IInv, TypeOK, FollowerOK, SubOK, LocalOK, BoundsOK, Actions, network
<1> QED  BY <1>1 DEF IInv, IdInv, network

LEMMA FollowerSame == TypeOK /\ UNCHANGED docker => FollowerOK' /\ UNCHANGED <<network, fid, followers, ops>>
BY DEF TypeOK, FollowerOK, docker, follower

LEMMA SubSame == TypeOK /\ UNCHANGED sub => SubOK'
BY DEF TypeOK, SubOK, sub, Actions

LEMMA BoundsSame == TypeOK /\ UNCHANGED bounds => BoundsOK'
BY DEF TypeOK, BoundsOK, bounds

LEMMA ParkedSame == TypeOK /\ UNCHANGED parked => parked' \in BOOLEAN
BY DEF TypeOK

\* A failed call costs one fault and changes nothing else.
LEMMA FaultTypes ==
    ASSUME TypeOK, ApiFault
    PROVE  /\ FollowerOK' /\ SubOK' /\ BoundsOK' /\ parked' \in BOOLEAN
           /\ UNCHANGED <<network, fid, followers, ops>>
<1>1. BoundsOK'
  BY RebinderAssumption DEF TypeOK, ApiFault, BoundsOK
<1> QED  BY <1>1, FollowerSame, SubSame, ParkedSame DEF ApiFault

\* A handler that is over forgets what it read; the next settle starts afresh.
LEMMA ReturnLocal ==
    ASSUME IInv, Return
    PROVE  LocalOK' /\ SettleInv'
<1>1. Cardinality(Targets) \in Nat
  BY RebinderAssumption, FS_CardinalityType
<1>2. seen' \in [net : 0..MaxNets, members : SUBSET Targets, follower : 0..MaxFollowers]
  BY RebinderAssumption DEF Return, Nothing
<1>3. probes' \in Seq(SUBSET (Targets \cup 1..MaxFollowers)) /\ Len(probes') = 0
  BY EmptySeq DEF Return
<1>4. pc' \in {"subscribe", "idle"} /\ boot' \in BOOLEAN
  BY DEF Return
<1>5. LocalOK'
  BY <1>1, <1>2, <1>3, <1>4, RebinderAssumption DEF Return, LocalOK, Labels
<1>6. SettleInv'
  BY <1>3, <1>4, RebinderAssumption DEF Return, SettleInv, Polling, AfterPolling
<1> QED  BY <1>5, <1>6

\* The settle loop's variables survive any step that stays in the handler.
LEMMA SettleSame ==
    ASSUME IInv, UNCHANGED settle,
           \/ pc' \in Polling /\ pc \in Polling
           \/ pc' \in AfterPolling /\ pc \in AfterPolling
           \/ stable = 0 /\ pc' \in Labels
    PROVE  SettleInv'
BY RebinderAssumption DEF IInv, SettleInv, settle, Polling, AfterPolling

LEMMA InspectTypes ==
    TypeOK => Inspected \in [net : 0..MaxNets, members : SUBSET Targets, follower : 0..MaxFollowers]
BY RebinderAssumption DEF TypeOK, Inspected

\* Steps that read docker or move on: only seen, target, attempt and pc change.
LEMMA ReadInv ==
    ASSUME IInv, UNCHANGED <<docker, sub, parked, settle, bounds>>, UNCHANGED boot,
           seen' \in [net : 0..MaxNets, members : SUBSET Targets, follower : 0..MaxFollowers],
           target' \in 0..MaxFollowers, attempt' \in 0..ConnectAttempts,
           pc' \in Labels,
           \/ pc' \in Polling /\ pc \in Polling
           \/ pc' \in AfterPolling /\ pc \in AfterPolling
           \/ stable = 0
    PROVE  IInv'
<1>1. SettleInv'
  BY SettleSame
<1>2. LocalOK'
  BY DEF IInv, TypeOK, LocalOK, settle
<1> QED  BY <1>1, <1>2, FollowerSame, SubSame, BoundsSame, ParkedSame, Together DEF IInv

\* Outside a settle and what follows it no poll has been stable.
LEMMA NotPolled ==
    ASSUME IInv, pc \notin Polling \cup AfterPolling
    PROVE  stable = 0
BY RebinderAssumption DEF IInv, TypeOK, SettleInv

LEMMA InspectInv ==
    ASSUME IInv, NEW l, NEW m \in Labels, InspectNet(l, m),
           \/ l \in Polling /\ m \in Polling
           \/ l \in AfterPolling /\ m \in AfterPolling
           \/ l \notin Polling \cup AfterPolling
    PROVE  IInv'
<1>1. /\ seen' \in [net : 0..MaxNets, members : SUBSET Targets, follower : 0..MaxFollowers]
      /\ target' \in 0..MaxFollowers /\ attempt' \in 0..ConnectAttempts
  BY InspectTypes DEF IInv, TypeOK, InspectNet
<1>2. pc = l /\ pc' = m /\ UNCHANGED <<docker, sub, parked, settle, bounds>> /\ UNCHANGED boot
  BY DEF InspectNet, Goto
<1> QED  BY <1>1, <1>2, ReadInv, NotPolled

LEMMA ResolveInv ==
    ASSUME IInv, NEW l, NEW m \in Labels, Resolve(l, m),
           \/ l \in Polling /\ m \in Polling
           \/ l \in AfterPolling /\ m \in AfterPolling
           \/ l \notin Polling \cup AfterPolling
    PROVE  IInv'
<1>1. /\ seen' \in [net : 0..MaxNets, members : SUBSET Targets, follower : 0..MaxFollowers]
      /\ target' \in 0..MaxFollowers /\ attempt' \in 0..ConnectAttempts
  BY DEF IInv, TypeOK, Resolve
<1>2. pc = l /\ pc' = m /\ UNCHANGED <<docker, sub, parked, settle, bounds>> /\ UNCHANGED boot
  BY DEF Resolve, Goto
<1> QED  BY <1>1, <1>2, ReadInv, NotPolled

\* The end of a handler that changed nothing on the docker side.
LEMMA ReturnInv ==
    ASSUME IInv, Return, UNCHANGED <<docker, sub, parked, bounds>>
    PROVE  IInv'
BY ReturnLocal, FollowerSame, SubSame, BoundsSame, ParkedSame, Together DEF IInv

LEMMA FaultReturnInv ==
    ASSUME IInv, Return, ApiFault
    PROVE  IInv'
BY ReturnLocal, FaultTypes, Together DEF IInv

LEMMA ReadsInv ==
    ASSUME IInv,
           \/ ReadFails \/ BootNet \/ BootList \/ BootInspect \/ ParkNet \/ ParkList
           \/ SettleNet \/ SettleList \/ ReattachNet \/ ReattachList \/ FollowerMissing
    PROVE  IInv'
<1>1. CASE ReadFails
  BY <1>1, ReturnInv, FaultReturnInv DEF ReadFails
<1>2. CASE BootNet
  BY <1>2, InspectInv DEF BootNet, Labels, Polling, AfterPolling
<1>3. CASE BootList
  BY <1>3, ResolveInv DEF BootList, Labels, Polling, AfterPolling
<1>4. CASE BootInspect
  <2>1. CASE Return
    BY <1>4, <2>1, ReturnInv DEF BootInspect
  <2>2. CASE ~Return
    <3>1. /\ pc = "bootInspect" /\ pc' = "reNet" /\ UNCHANGED boot
          /\ UNCHANGED <<docker, sub, parked, settle, bounds>>
          /\ UNCHANGED <<seen, target, attempt>>
      BY <1>4, <2>2 DEF BootInspect, Goto, locals
    <3>2. stable = 0
      BY <3>1, NotPolled DEF Polling, AfterPolling
    <3> QED  BY <3>1, <3>2, ReadInv DEF IInv, TypeOK, Labels
  <2> QED  BY <2>1, <2>2
<1>5. CASE ParkNet
  BY <1>5, InspectInv DEF ParkNet, Labels, Polling, AfterPolling
<1>6. CASE ParkList
  BY <1>6, ResolveInv DEF ParkList, Labels, Polling, AfterPolling
<1>7. CASE SettleNet
  BY <1>7, InspectInv DEF SettleNet, Labels, Polling, AfterPolling
<1>8. CASE SettleList
  BY <1>8, ResolveInv DEF SettleList, Labels, Polling, AfterPolling
<1>9. CASE ReattachNet
  BY <1>9, InspectInv DEF ReattachNet, Labels, Polling, AfterPolling
<1>10. CASE ReattachList
  BY <1>10, ResolveInv DEF ReattachList, Labels, Polling, AfterPolling
<1>11. CASE FollowerMissing
  BY <1>11, ReturnInv DEF FollowerMissing
<1> QED  BY <1>1, <1>2, <1>3, <1>4, <1>5, <1>6, <1>7, <1>8, <1>9, <1>10, <1>11

\* consume's select, and the subscription around it.
LEMMA ConsumeInv ==
    ASSUME IInv,
           \/ Subscribe \/ OnStreamError
           \/ OnCreate \/ OnDestroy \/ OnConnect \/ OnDisconnect
    PROVE  IInv'
<1>1. /\ pc \in {"subscribe", "idle"} /\ pc' \in {"idle", "subscribe", "setNet", "parkNet"}
      /\ UNCHANGED <<boot, locals, docker, bounds>> /\ parked' \in BOOLEAN
  BY DEF Subscribe, OnStreamError, OnCreate, OnDestroy, OnConnect, OnDisconnect,
         TakeEvent, BeginSettle, Goto, IInv, TypeOK
<1>2. stable = 0
  BY <1>1, NotPolled DEF Polling, AfterPolling
<1>3. SettleInv'
  BY <1>1, <1>2, SettleSame DEF locals, Labels
<1>4. LocalOK'
  BY <1>1 DEF IInv, TypeOK, LocalOK, locals, settle, Labels
<1>5. SubOK'
  <2>1. CASE Subscribe \/ OnStreamError
    BY <2>1, Events DEF Subscribe, OnStreamError, SubOK, IInv, TypeOK
  <2>2. CASE \E a \in Actions : TakeEvent(a)
    <3>1. queue \in Seq(Actions) /\ queue # <<>> /\ queue' = Tail(queue) /\ UNCHANGED stream
      BY <2>2 DEF TakeEvent, IInv, TypeOK, Actions
    <3> QED  BY <3>1 DEF SubOK, IInv, TypeOK
  <2> QED  BY <2>1, <2>2 DEF OnCreate, OnDestroy, OnConnect, OnDisconnect, Actions
<1> QED  BY <1>1, <1>3, <1>4, <1>5, FollowerSame, BoundsSame, Together DEF IInv

\* A forced disconnect can only detach the follower.
LEMMA DisconnectTypes ==
    ASSUME TypeOK, NetworkDisconnect
    PROVE  FollowerOK' /\ SubOK' /\ UNCHANGED <<network, fid, followers, ops>>
<1>1. CASE Disconnects
  <2> DEFINE es == IF running THEN <<"disconnect">> ELSE <<>>
  <2>1. /\ stored' = 0 /\ Emit(es)
        /\ UNCHANGED <<network, fid, followers, running, joined, restarts, ops, stream>>
    BY <1>1 DEF NetworkDisconnect
  <2>2. es \in Seq(Actions) /\ queue \in Seq(Actions)
    BY Events DEF TypeOK, Actions
  <2> HIDE DEF es
  <2>3. queue' \in Seq(Actions)
    BY <2>1, <2>2, EmitTypes
  <2> QED  BY <2>1, <2>3, RebinderAssumption DEF TypeOK, FollowerOK, SubOK
<1>2. CASE ~Disconnects
  BY <1>2, FollowerSame, SubSame DEF NetworkDisconnect
<1> QED  BY <1>1, <1>2

LEMMA ParkInv ==
    ASSUME IInv, Park \/ releaseFollower
    PROVE  IInv'
<1>1. CASE Park
  <2>1. FollowerOK' /\ SubOK' /\ BoundsOK' /\ UNCHANGED <<network, fid, followers, ops>>
    BY <1>1, FollowerSame, SubSame, BoundsSame DEF Park, IInv
  <2>2. CASE FollowerAttached /\ ForeignCount = 0
    <3>1. pc = "park" /\ pc' = "release" /\ UNCHANGED <<boot, parked, locals>>
      BY <1>1, <2>2 DEF Park, Goto
    <3>2. stable = 0
      BY <3>1, NotPolled DEF Polling, AfterPolling
    <3>3. SettleInv'
      BY <3>1, <3>2, SettleSame DEF locals, Labels
    <3>4. LocalOK' /\ parked' \in BOOLEAN
      BY <3>1 DEF IInv, TypeOK, LocalOK, locals, settle, Labels
    <3> QED  BY <2>1, <3>3, <3>4, Together
  <2>3. CASE ~(FollowerAttached /\ ForeignCount = 0)
    <3>1. Return /\ parked' \in BOOLEAN
      BY <1>1, <2>3 DEF Park, IInv, TypeOK
    <3> QED  BY <2>1, <3>1, ReturnLocal, Together
  <2> QED  BY <2>2, <2>3
<1>2. CASE releaseFollower
  <2>1. CASE ApiFault
    BY <1>2, <2>1, FaultReturnInv DEF releaseFollower
  <2>2. CASE ~ApiFault
    <3>1. Return /\ NetworkDisconnect /\ UNCHANGED bounds /\ parked' \in BOOLEAN
      BY <1>2, <2>2 DEF releaseFollower, IInv, TypeOK
    <3> QED  BY <3>1, DisconnectTypes, BoundsSame, ReturnLocal, Together DEF IInv
  <2> QED  BY <2>1, <2>2
<1> QED  BY <1>1, <1>2

\* One poll of the settle loop.
LEMMA ProbeInv ==
    ASSUME IInv, Probe
    PROVE  IInv'
<1> DEFINE n == Len(probes)
<1>1. /\ ForeignEndpoints \in SUBSET (Targets \cup 1..MaxFollowers)
      /\ ForeignCount \in 0..Cardinality(Targets) + 1
      /\ ForeignCount = 0 <=> ForeignEndpoints = {}
      /\ Cardinality(Targets) \in Nat
  BY PolledSets, RebinderAssumption, FS_CardinalityType DEF IInv
<1>2. /\ probes \in Seq(SUBSET (Targets \cup 1..MaxFollowers)) /\ n \in Nat
      /\ last \in Nat /\ stable \in Nat /\ elapsed \in 0..MaxPolls
      /\ MaxPolls \in Nat /\ QuietPolls \in Nat
  BY <1>1, RebinderAssumption DEF IInv, TypeOK
<1>3. /\ probes' \in Seq(SUBSET (Targets \cup 1..MaxFollowers))
      /\ Len(probes') = n + 1
      /\ \A i \in 1..n : probes'[i] = probes[i]
      /\ probes'[n + 1] = ForeignEndpoints
  BY <1>1, <1>2, AppendProperties DEF Probe
<1>4. /\ pc = "probe" /\ UNCHANGED <<boot, seen, target, attempt>>
      /\ last' = ForeignCount /\ stable' = NowStable
      /\ pc' \in {"reNet", "setNet"}
      /\ pc' = "setNet" => ~Ready
  BY DEF Probe, Goto
<1>5. stable < QuietPolls
  BY <1>4 DEF IInv, SettleInv, Polling
<1>6. stable' \in 0..QuietPolls
  BY <1>2, <1>4, <1>5 DEF NowStable
<1>7. elapsed' \in 0..MaxPolls
  <2>1. CASE Ready \/ TimedOut
    BY <1>2, <2>1 DEF Probe
  <2>2. CASE ~(Ready \/ TimedOut)
    <3>1. elapsed < MaxPolls /\ elapsed' = elapsed + 1
      BY <1>2, <2>2 DEF Probe, TimedOut
    <3> QED  BY <1>2, <3>1
  <2> QED  BY <2>1, <2>2
<1>8. LocalOK'
  BY <1>1, <1>3, <1>4, <1>6, <1>7 DEF IInv, TypeOK, LocalOK, Labels
<1>9. last' = Cardinality(probes'[n + 1])
  BY <1>3, <1>4 DEF ForeignCount
<1>10. ASSUME stable' > 0
       PROVE  /\ n + 1 > stable'
              /\ \A i \in (n + 1 - stable')..(n + 1) :
                    probes'[i] # {} /\ Cardinality(probes'[i]) = last'
  <2>1. /\ stable' = stable + 1 /\ ForeignCount > 0 /\ ForeignCount = last
    BY <1>1, <1>2, <1>4, <1>10 DEF NowStable
  <2>2. n > 0 /\ last = Cardinality(probes[n])
    BY <1>2, <2>1 DEF IInv, SettleInv
  <2>3. n > stable
    BY <1>2, <2>2 DEF IInv, SettleInv
  <2>4. probes[n] # {}
    <3>1. Cardinality(probes[n]) # 0
      BY <1>1, <2>1, <2>2
    <3> QED  BY <3>1, FS_EmptySet
  <2>5. \A i \in (n - stable)..n : probes[i] # {} /\ Cardinality(probes[i]) = last
    <3>1. CASE stable = 0
      BY <1>2, <2>2, <2>4, <3>1
    <3>2. CASE stable > 0
      BY <3>2 DEF IInv, SettleInv
    <3> QED  BY <1>2, <3>1, <3>2
  <2>6. ASSUME NEW i \in (n + 1 - stable')..(n + 1)
        PROVE  probes'[i] # {} /\ Cardinality(probes'[i]) = last'
    <3>1. CASE i = n + 1
      BY <1>1, <1>3, <1>9, <2>1, <3>1
    <3>2. CASE i # n + 1
      <4>1. i \in (n - stable)..n /\ i \in 1..n
        BY <1>2, <2>1, <2>3, <2>6, <3>2
      <4> QED  BY <1>3, <1>4, <2>1, <2>5, <4>1
    <3> QED  BY <3>1, <3>2
  <2> QED  BY <1>2, <2>1, <2>3, <2>6
<1>11. pc' \in Polling => stable' < QuietPolls
  BY <1>2, <1>4, <1>6 DEF Ready, Polling
<1>12. SettleInv'
  <2>1. stable' > 0 => pc' \in Polling \cup AfterPolling
    BY <1>4 DEF Polling, AfterPolling
  <2>2. Len(probes') # 0 /\ last' = Cardinality(probes'[Len(probes')])
    BY <1>2, <1>3, <1>9
  <2>3. stable' > 0 =>
            /\ Len(probes') > stable'
            /\ \A i \in (Len(probes') - stable')..Len(probes') :
                   probes'[i] # {} /\ Cardinality(probes'[i]) = last'
    <3>1. Len(probes') = n + 1
      BY <1>3
    <3>2. SUFFICES ASSUME stable' > 0
                   PROVE  /\ Len(probes') > stable'
                          /\ \A i \in (Len(probes') - stable')..Len(probes') :
                                probes'[i] # {} /\ Cardinality(probes'[i]) = last'
      OBVIOUS
    <3>3. Len(probes') > stable'
      BY <1>10, <3>1, <3>2
    <3>4. ASSUME NEW i \in (Len(probes') - stable')..Len(probes')
          PROVE  probes'[i] # {} /\ Cardinality(probes'[i]) = last'
      <4>1. i \in (n + 1 - stable')..(n + 1)
        BY <1>2, <1>6, <3>1, <3>4
      <4> HIDE DEF n
      <4> QED  BY <1>10, <3>2, <4>1
    <3> QED  BY <3>3, <3>4
  <2> HIDE DEF n
  <2> QED  BY <1>11, <2>1, <2>2, <2>3 DEF SettleInv
<1>13. UNCHANGED <<docker, sub, parked, bounds>>
  BY DEF Probe
<1> QED  BY <1>8, <1>12, <1>13, FollowerSame, SubSame, BoundsSame, ParkedSame, Together DEF IInv

\* reattach with its connect attempts, and the restart after it.
LEMMA ReattachInv ==
    ASSUME IInv,
           \/ ReattachDisconnect \/ Connect \/ ConnectFails
           \/ AddressInUse \/ Backoff \/ RestartFollower
    PROVE  IInv'
<1>1. CASE ReattachDisconnect
  <2>1. /\ pc = "reDisc" /\ pc' = "connect" /\ attempt' = 1
        /\ UNCHANGED <<boot, seen, target, settle>>
    BY <1>1 DEF ReattachDisconnect, Goto
  <2>2. SettleInv'
    BY <2>1, SettleSame DEF AfterPolling
  <2>3. LocalOK'
    BY <2>1, RebinderAssumption DEF IInv, TypeOK, LocalOK, settle, Labels
  <2>4. CASE ApiFault
    BY <2>2, <2>3, <2>4, FaultTypes, Together DEF IInv
  <2>5. CASE ~ApiFault
    <3>1. NetworkDisconnect /\ UNCHANGED <<parked, bounds>>
      BY <1>1, <2>5 DEF ReattachDisconnect
    <3> QED  BY <2>2, <2>3, <3>1, DisconnectTypes, BoundsSame, ParkedSame, Together DEF IInv
  <2> QED  BY <2>4, <2>5
<1>2. CASE Connect
  <2>1. SubOK'
    <3>1. CASE stored = net
      BY <1>2, <3>1 DEF Connect, SubOK, IInv, TypeOK, Actions
    <3>2. CASE stored # net
      <4> DEFINE es == IF running THEN <<"connect">> ELSE <<>>
      <4>1. Emit(es) /\ UNCHANGED stream
        BY <1>2, <3>2 DEF Connect
      <4>2. es \in Seq(Actions) /\ queue \in Seq(Actions) /\ stream \in BOOLEAN
        BY Events DEF IInv, TypeOK, Actions
      <4> HIDE DEF es
      <4> QED  BY <4>1, <4>2, EmitTypes DEF SubOK
    <3> QED  BY <3>1, <3>2
  <2>2. FollowerOK' /\ UNCHANGED <<network, fid, followers, ops>> /\ parked' \in BOOLEAN
    BY <1>2 DEF Connect, FollowerOK, IInv, TypeOK
  <2>3. BoundsOK'
    BY <1>2, BoundsSame DEF Connect, IInv
  <2>4. CASE Return
    BY <2>1, <2>2, <2>3, <2>4, ReturnLocal, Together
  <2>5. CASE ~Return
    <3>1. pc = "connect" /\ pc' = "restart" /\ UNCHANGED <<boot, locals>>
      BY <1>2, <2>5 DEF Connect, Goto
    <3>2. SettleInv'
      BY <3>1, SettleSame DEF AfterPolling, locals
    <3>3. LocalOK'
      BY <3>1 DEF IInv, TypeOK, LocalOK, locals, settle, Labels
    <3> QED  BY <2>1, <2>2, <2>3, <3>2, <3>3, Together
  <2> QED  BY <2>4, <2>5
<1>3. CASE ConnectFails
  <2>1. CASE ApiFault
    BY <1>3, <2>1, FaultReturnInv DEF ConnectFails
  <2>2. CASE ~ApiFault
    <3>1. Return /\ UNCHANGED <<docker, sub, parked>>
      BY <1>3, <2>2 DEF ConnectFails
    <3>2. BoundsOK'
      <4>1. CASE UNCHANGED bounds
        BY <4>1, BoundsSame DEF IInv
      <4>2. CASE ~UNCHANGED bounds
        <5>1. /\ inUse < MaxInUse /\ inUse' = inUse + 1
              /\ UNCHANGED <<apiFaults, streamFaults, crashes>>
          BY <1>3, <2>2, <4>2 DEF ConnectFails
        <5> QED  BY <5>1, RebinderAssumption DEF IInv, TypeOK, BoundsOK
      <4> QED  BY <4>1, <4>2
    <3> QED  BY <3>1, <3>2, ReturnLocal, FollowerSame, SubSame, ParkedSame, Together DEF IInv
  <2> QED  BY <2>1, <2>2
<1>4. CASE AddressInUse
  <2>1. /\ pc = "connect" /\ pc' = "backoff"
        /\ UNCHANGED <<boot, seen, target, settle, docker, sub, parked>>
    BY <1>4 DEF AddressInUse, Goto
  <2>2. attempt' \in 0..ConnectAttempts /\ BoundsOK'
    BY <1>4, RebinderAssumption DEF AddressInUse, IInv, TypeOK, BoundsOK
  <2>3. SettleInv'
    BY <2>1, SettleSame DEF AfterPolling
  <2>4. LocalOK'
    BY <2>1, <2>2 DEF IInv, TypeOK, LocalOK, settle, Labels
  <2> QED  BY <2>1, <2>2, <2>3, <2>4, FollowerSame, SubSame, ParkedSame, Together DEF IInv
<1>5. CASE Backoff
  <2>1. /\ seen' \in [net : 0..MaxNets, members : SUBSET Targets, follower : 0..MaxFollowers]
        /\ target' \in 0..MaxFollowers /\ attempt' \in 0..ConnectAttempts
    BY <1>5, InspectTypes DEF Backoff, IInv, TypeOK
  <2>2. /\ pc = "backoff" /\ pc' = "connect" /\ UNCHANGED boot
        /\ UNCHANGED <<docker, sub, parked, settle, bounds>>
    BY <1>5 DEF Backoff, Goto
  <2> QED  BY <2>1, <2>2, ReadInv DEF AfterPolling, Labels
<1>6. CASE RestartFollower
  <2>1. Return /\ BoundsOK' /\ parked' \in BOOLEAN
    BY <1>6, BoundsSame, ParkedSame DEF RestartFollower, IInv
  <2>2. FollowerOK' /\ SubOK' /\ UNCHANGED <<network, fid, followers, ops>>
    <3>1. CASE UNCHANGED <<docker, sub>>
      BY <3>1, FollowerSame, SubSame DEF IInv
    <3>2. CASE ~UNCHANGED <<docker, sub>>
      <4> DEFINE es == IF running THEN <<"disconnect", "connect">> ELSE <<"connect">>
      <4>1. /\ running' = TRUE /\ stored' = net
            /\ restarts < MaxRestarts /\ restarts' = restarts + 1
            /\ Emit(es)
            /\ joined' = IF running THEN joined
                         ELSE IF members = {} THEN "alone" ELSE "others"
            /\ UNCHANGED <<network, fid, followers, ops, stream>>
        BY <1>6, <3>2 DEF RestartFollower
      <4>2. es \in Seq(Actions) /\ queue \in Seq(Actions) /\ stream \in BOOLEAN
        BY Events DEF IInv, TypeOK, Actions
      <4> HIDE DEF es
      <4>3. SubOK'
        BY <4>1, <4>2, EmitTypes DEF SubOK
      <4>4. FollowerOK'
        BY <4>1, RebinderAssumption DEF FollowerOK, IInv, TypeOK
      <4> QED  BY <4>1, <4>3, <4>4
    <3> QED  BY <3>1, <3>2
  <2> QED  BY <2>1, <2>2, ReturnLocal, Together
<1> QED  BY <1>1, <1>2, <1>3, <1>4, <1>5, <1>6

LEMMA CrashInv ==
    ASSUME IInv, Crash
    PROVE  IInv'
<1>1. Cardinality(Targets) \in Nat
  BY RebinderAssumption, FS_CardinalityType
<1>2. seen' \in [net : 0..MaxNets, members : SUBSET Targets, follower : 0..MaxFollowers]
  BY RebinderAssumption DEF Crash, Nothing
<1>3. probes' \in Seq(SUBSET (Targets \cup 1..MaxFollowers)) /\ Len(probes') = 0
  BY EmptySeq DEF Crash
<1>4. LocalOK'
  BY <1>1, <1>2, <1>3, RebinderAssumption DEF Crash, LocalOK, Labels
<1>5. SettleInv'
  BY <1>3, RebinderAssumption DEF Crash, SettleInv, Polling, AfterPolling
<1>6. SubOK' /\ parked' \in BOOLEAN
  BY Events DEF Crash, SubOK
<1>7. BoundsOK'
  BY RebinderAssumption DEF Crash, IInv, TypeOK, BoundsOK
<1>8. FollowerOK' /\ UNCHANGED <<network, fid, followers, ops>>
  BY FollowerSame DEF Crash, IInv
<1> QED  BY <1>4, <1>5, <1>6, <1>7, <1>8, Together

LEMMA Inductive == IInv /\ [Next]_vars => IInv'
<1> SUFFICES ASSUME IInv, [Next]_vars PROVE IInv'  OBVIOUS
<1>1. CASE Docker
  BY <1>1, DockerInv
<1>2. CASE Run
  BY <1>2, ReadsInv, ConsumeInv, ParkInv, ProbeInv, ReattachInv DEF Run
<1>3. CASE Crash
  BY <1>3, CrashInv
<1>4. CASE UNCHANGED vars
  <2>1. TypeOK'
    BY <1>4 DEF vars, docker, network, follower, sub, locals, settle, bounds, IInv, TypeOK
  <2>2. IdInv' /\ SettleInv'
    BY <1>4 DEF vars, docker, network, follower, locals, settle, IInv, IdInv, SettleInv
  <2> QED  BY <2>1, <2>2 DEF IInv
<1> QED  BY <1>1, <1>2, <1>3, <1>4 DEF Next

LEMMA Invariant == Spec => []IInv
BY InitInv, Inductive, PTL DEF Spec

\* Every variable of the rebinder keeps its type: the number of endpoints it
\* counts, the polls of waitForSettle and the connect attempts stay within the
\* limits of the code, for any foreign stack.
THEOREM TypeCorrect == Spec => []TypeOK
<1>1. IInv => TypeOK
  BY DEF IInv
<1> QED  BY <1>1, Invariant, PTL

\* waitForSettle reports Ready only after a full quiet window, for any window
\* length and whatever docker changes between two polls.
THEOREM ReadyMeansQuiet == Spec => []ReadyAfterQuietWindow
<1>1. ASSUME IInv PROVE ReadyAfterQuietWindow
  <2> SUFFICES ASSUME stable >= QuietPolls PROVE ReadyAfterQuietWindow
    BY DEF ReadyAfterQuietWindow
  <2>1. stable = QuietPolls /\ stable > 0 /\ stable \in Nat
    BY <1>1, RebinderAssumption DEF IInv, TypeOK
  <2>2. /\ Len(probes) > stable
        /\ \A i \in (Len(probes) - stable)..Len(probes) :
              probes[i] # {} /\ Cardinality(probes[i]) = last
    BY <1>1, <2>1 DEF IInv, SettleInv
  <2>3. Len(probes) \in Nat
    BY <1>1 DEF IInv, TypeOK
  <2>4. last = Cardinality(probes[Len(probes)])
    BY <1>1, <2>1, <2>2, <2>3 DEF IInv, SettleInv
  <2> QED  BY <2>1, <2>2, <2>3, <2>4 DEF ReadyAfterQuietWindow
<1> QED  BY <1>1, Invariant, PTL
-----------------------------------------------------------------------------
(* ParkedTellsTheTruth.  What is wrong with the follower's attachment at any *)
(* moment is about to be looked at: an event that leads there is queued, or  *)
(* the handler at work will still read what docker has by then.              *)

CreatePending  == \E i \in DOMAIN queue : queue[i] = "create"
ConnectPending == \E i \in DOMAIN queue : queue[i] = "connect"
DisconnectPending == \E i \in DOMAIN queue : queue[i] = "disconnect"

\* A network that has been destroyed is back only with its creation announced.
Announced ==
    \A i \in DOMAIN queue : queue[i] = "destroy" /\ net # 0 =>
        \E j \in DOMAIN queue : j > i /\ queue[j] = "create"

\* Docker rests until the subscription stands, so the startup recheck reads what
\* stays true.
Booting == {"bootNet", "bootList", "bootInspect"}
BootInv ==
    /\ stream <=> ~boot /\ pc # "subscribe"
    /\ ~stream => queue = <<>> /\ ~parked
    /\ pc \in Booting => boot
    /\ boot => pc \in Booting \cup AfterPolling
    /\ pc \in {"bootList", "bootInspect"} => seen.net = net
    /\ pc = "bootInspect" => target = fid

\* What a handler has read is what docker has, or an event tells of the change.
KnownInv ==
    /\ stored <= nets
    /\ pc \in {"reList", "reDisc", "connect"} /\ net # 0 => seen.net = net \/ CreatePending
    /\ pc \in {"reDisc", "connect", "backoff"} /\ fid # 0 /\ fid # target =>
          ConnectPending /\ stored # 0 /\ (running => Attached)
    /\ pc \in {"connect", "backoff"} => attempt <= inUse + 1
    /\ pc \in {"parkNet", "parkList", "park", "release", "restart"} => ~parked
    /\ pc \in {"parkList", "park"} => members \subseteq seen.members \/ ConnectPending
    /\ pc \in {"parkList", "park"} /\ Attached => seen.follower = fid \/ ConnectPending
    /\ pc = "park" /\ Attached => target = fid \/ ConnectPending
    /\ pc = "release" => members = {} \/ ConnectPending

\* A follower that is off the live network and will not get there by itself.
Loose == fid # 0 /\ net # 0 /\ stored # net /\ (running \/ stored = 0)
\* A reattach is under way or about to be.
Covered ==
    \/ CreatePending
    \/ pc \in Booting \cup {"setNet", "setList", "probe", "reNet", "reList"}
    \/ pc \in {"reDisc", "connect", "backoff"} /\ target = fid
TruthInv ==
    /\ Attached /\ parked => Covered \/ ConnectPending
    /\ Loose /\ ~parked => Covered
    /\ Loose /\ members # {} => Covered \/ ConnectPending

ParkingInv == Smooth => BootInv /\ Announced /\ KnownInv /\ TruthInv

LEMMA QueueType == TypeOK => queue \in Seq(Actions)
BY DEF TypeOK, Actions

\* Events are appended behind those that wait.
LEMMA EmitKeeps ==
    ASSUME TypeOK, NEW es \in Seq(Actions), Emit(es)
    PROVE  /\ CreatePending => CreatePending'
           /\ ConnectPending => ConnectPending'
           /\ DisconnectPending => DisconnectPending'
           /\ stream /\ (\E k \in DOMAIN es : es[k] = "create") => CreatePending'
           /\ stream /\ (\E k \in DOMAIN es : es[k] = "connect") => ConnectPending'
           /\ stream /\ (\E k \in DOMAIN es : es[k] = "disconnect") => DisconnectPending'
<1>1. CASE ~stream
  BY <1>1 DEF Emit, CreatePending, ConnectPending, DisconnectPending
<1>2. CASE stream
  <2>1. queue' = queue \o es /\ queue \in Seq(Actions)
    BY <1>2, QueueType DEF Emit
  <2>2. /\ Len(queue') = Len(queue) + Len(es) /\ Len(queue) \in Nat /\ Len(es) \in Nat
        /\ DOMAIN queue = 1..Len(queue) /\ DOMAIN es = 1..Len(es)
        /\ DOMAIN queue' = 1..Len(queue')
    BY <2>1, ConcatProperties
  <2>3. \A i \in DOMAIN queue : i \in DOMAIN queue' /\ queue'[i] = queue[i]
    BY <2>1, <2>2, ConcatProperties
  <2>4. \A k \in DOMAIN es : Len(queue) + k \in DOMAIN queue' /\ queue'[Len(queue) + k] = es[k]
    BY <2>1, <2>2, ConcatProperties
  <2> QED  BY <2>3, <2>4 DEF CreatePending, ConnectPending, DisconnectPending
<1> QED  BY <1>1, <1>2

\* A network that goes, or stays, keeps the queue in order.
LEMMA EmitAnnounced ==
    ASSUME TypeOK, Announced, NEW es \in Seq(Actions), Emit(es),
           net' # 0 => net # 0 /\ \A k \in DOMAIN es : es[k] # "destroy"
    PROVE  Announced'
<1> SUFFICES ASSUME net' # 0, NEW i \in DOMAIN queue', queue'[i] = "destroy"
             PROVE  \E j \in DOMAIN queue' : j > i /\ queue'[j] = "create"
  BY DEF Announced
<1>1. CASE ~stream
  BY <1>1 DEF Emit, Announced
<1>2. CASE stream
  <2>1. queue' = queue \o es /\ queue \in Seq(Actions)
    BY <1>2, QueueType DEF Emit
  <2>2. /\ Len(queue') = Len(queue) + Len(es) /\ Len(queue) \in Nat /\ Len(es) \in Nat
        /\ DOMAIN queue = 1..Len(queue) /\ DOMAIN es = 1..Len(es)
        /\ DOMAIN queue' = 1..Len(queue')
    BY <2>1, ConcatProperties
  <2>3. \A k \in DOMAIN queue : k \in DOMAIN queue' /\ queue'[k] = queue[k]
    BY <2>1, <2>2, ConcatProperties
  <2>4. \A k \in DOMAIN queue' : k \notin DOMAIN queue =>
            k - Len(queue) \in DOMAIN es /\ queue'[k] = es[k - Len(queue)]
    BY <2>1, <2>2, ConcatProperties
  <2>5. i \in DOMAIN queue
    BY <2>4
  <2>6. PICK j \in DOMAIN queue : j > i /\ queue[j] = "create"
    BY <2>3, <2>5 DEF Announced
  <2> QED  BY <2>3, <2>6
<1> QED  BY <1>1, <1>2

\* The event at the head is handled.
LEMMA TakeKeeps ==
    ASSUME TypeOK, Announced, queue # <<>>, queue' = Tail(queue), net' = net
    PROVE  /\ Announced'
           /\ CreatePending /\ Head(queue) # "create" => CreatePending'
           /\ ConnectPending /\ Head(queue) # "connect" => ConnectPending'
           /\ DisconnectPending /\ Head(queue) # "disconnect" => DisconnectPending'
           /\ Head(queue) = "destroy" /\ net # 0 => CreatePending'
<1>1. /\ queue \in Seq(Actions) /\ Len(queue) \in Nat /\ Len(queue) > 0
      /\ DOMAIN queue = 1..Len(queue)
  BY QueueType, EmptySeq
<1>2. /\ Head(queue) = queue[1]
      /\ DOMAIN queue' = 1..(Len(queue) - 1)
      /\ \A i \in 1..(Len(queue) - 1) : queue'[i] = queue[i + 1]
  BY <1>1, HeadTailProperties
<1>3. \A i \in DOMAIN queue : i # 1 => i - 1 \in DOMAIN queue' /\ queue'[i - 1] = queue[i]
  BY <1>1, <1>2
<1>4. \A i \in DOMAIN queue' : i + 1 \in DOMAIN queue /\ queue'[i] = queue[i + 1]
  BY <1>1, <1>2
<1>5. Announced'
  <2> SUFFICES ASSUME net # 0, NEW i \in DOMAIN queue', queue'[i] = "destroy"
               PROVE  \E j \in DOMAIN queue' : j > i /\ queue'[j] = "create"
    BY DEF Announced
  <2>1. PICK j \in DOMAIN queue : j > i + 1 /\ queue[j] = "create"
    BY <1>4 DEF Announced
  <2>2. j # 1 /\ j - 1 > i
    BY <1>1, <1>2, <2>1
  <2>3. j - 1 \in DOMAIN queue' /\ queue'[j - 1] = "create"
    BY <1>3, <2>1, <2>2
  <2> QED  BY <2>2, <2>3
<1>6. ASSUME Head(queue) = "destroy", net # 0 PROVE CreatePending'
  <2>1. 1 \in DOMAIN queue /\ queue[1] = "destroy"
    BY <1>1, <1>2, <1>6
  <2>2. PICK j \in DOMAIN queue : j > 1 /\ queue[j] = "create"
    BY <1>6, <2>1 DEF Announced
  <2> QED  BY <1>3, <2>2 DEF CreatePending
<1>7. ASSUME CreatePending, Head(queue) # "create" PROVE CreatePending'
  BY <1>2, <1>3, <1>7 DEF CreatePending
<1>8. ASSUME ConnectPending, Head(queue) # "connect" PROVE ConnectPending'
  BY <1>2, <1>3, <1>8 DEF ConnectPending
<1>9. ASSUME DisconnectPending, Head(queue) # "disconnect" PROVE DisconnectPending'
  BY <1>2, <1>3, <1>9 DEF DisconnectPending
<1> QED  BY <1>5, <1>6, <1>7, <1>8, <1>9

\* What a handler in progress holds, when docker changes under it.
LEMMA ChangeKeeps ==
    ASSUME TypeOK, ~Unobserved, Smooth, BootInv, NEW es \in Seq(Actions), Change(es)
    PROVE  /\ stream /\ ~boot /\ pc \notin Booting /\ pc # "subscribe"
           /\ Emit(es) /\ BootInv'
           /\ CreatePending => CreatePending'
           /\ ConnectPending => ConnectPending'
           /\ (\E k \in DOMAIN es : es[k] = "create") => CreatePending'
           /\ (\E k \in DOMAIN es : es[k] = "connect") => ConnectPending'
           /\ UNCHANGED <<stream, pc, boot, parked, seen, target, attempt, inUse, apiFaults, streamFaults>>
<1>1. stream /\ ~boot /\ pc \notin Booting /\ pc # "subscribe" /\ Emit(es)
  BY DEF Change, BootInv
<1>2. UNCHANGED <<stream, pc, boot, parked, seen, target, attempt, inUse, apiFaults, streamFaults>>
  BY DEF Change, locals, bounds
<1>3. BootInv'
  BY <1>1, <1>2 DEF BootInv, Booting
<1> QED  BY <1>1, <1>2, <1>3, EmitKeeps

LEMMA DockerParking ==
    ASSUME IInv, ParkingInv, ~Unobserved, Docker, Smooth'
    PROVE  ParkingInv'
<1>0. CASE StreamBreaks
  <2>1. streamFaults \in Nat /\ streamFaults' = streamFaults + 1
    BY <1>0, RebinderAssumption DEF StreamBreaks, IInv, TypeOK
  <2> QED  BY <2>1 DEF Smooth
<1> SUFFICES ASSUME ~StreamBreaks PROVE ParkingInv'
  BY <1>0
<1>s. Smooth
  <2>1. UNCHANGED <<apiFaults, streamFaults, inUse>>
    BY DEF Docker, NetworkCreate, NetworkRemove, Join, Leave, FollowerStop, FollowerStart,
           FollowerRemove, FollowerCreate, Change, bounds
  <2> QED  BY <2>1 DEF Smooth
<1>i. TypeOK /\ IdInv /\ BootInv /\ Announced /\ KnownInv /\ TruthInv
  BY <1>s DEF IInv, ParkingInv
<1>n. stored \in Nat /\ net \in Nat /\ nets \in Nat /\ net <= nets /\ stored <= nets
  BY <1>i DEF TypeOK, IdInv, KnownInv
<1>1. CASE NetworkCreate
  <2>1. Change(<<"create">>) /\ <<"create">> \in Seq(Actions) /\ net = 0 /\ net' # 0
    BY <1>1, <1>i, Events DEF NetworkCreate, Actions, TypeOK
  <2>2. CreatePending' /\ BootInv' /\ (ConnectPending => ConnectPending')
    BY <1>s, <1>i, <2>1, ChangeKeeps, OneEvent
  <2>3. Announced'
    <3>1. queue' = queue \o <<"create">> /\ queue \in Seq(Actions)
      BY <1>s, <1>i, <2>1, ChangeKeeps, QueueType DEF Emit
    <3>2. /\ Len(queue) \in Nat /\ DOMAIN queue = 1..Len(queue)
          /\ DOMAIN queue' = 1..(Len(queue) + 1) /\ queue'[Len(queue) + 1] = "create"
          /\ \A i \in 1..Len(queue) : queue'[i] = queue[i]
      BY <2>1, <3>1, OneEvent, ConcatProperties
    <3> QED  BY <3>2 DEF Announced
  <2>4. KnownInv'
    <3>1. /\ nets' = nets + 1 /\ net' = nets + 1
          /\ UNCHANGED <<members, fid, running, stored>>
      BY <1>1 DEF NetworkCreate, follower
    <3>2. stored' <= nets' /\ ~Attached' /\ ~Attached
      BY <1>n, <2>1, <3>1 DEF Attached
    <3> QED  BY <1>s, <1>i, <2>1, <2>2, <3>1, <3>2, ChangeKeeps DEF KnownInv
  <2>5. TruthInv'
    BY <2>2 DEF TruthInv, Covered
  <2> QED  BY <2>2, <2>3, <2>4, <2>5 DEF ParkingInv
<1>2. CASE NetworkRemove
  <2>1. Change(<<"destroy">>) /\ <<"destroy">> \in Seq(Actions) /\ net' = 0
    BY <1>2, Events DEF NetworkRemove, Actions
  <2>2. BootInv' /\ (ConnectPending => ConnectPending')
    BY <1>s, <1>i, <2>1, ChangeKeeps
  <2>3. Announced'
    BY <1>s, <1>i, <2>1, ChangeKeeps, EmitAnnounced, OneEvent, NoEvent
  <2>4. KnownInv'
    BY <1>2, <1>s, <1>i, <1>n, <2>1, <2>2, ChangeKeeps DEF KnownInv, NetworkRemove, Attached, follower
  <2>5. TruthInv'
    BY <2>1 DEF TruthInv, Attached, Loose
  <2> QED  BY <2>2, <2>3, <2>4, <2>5 DEF ParkingInv
<1>3. CASE \E t \in Targets : Join(t)
  <2> PICK t \in Targets : Join(t)  BY <1>3
  <2>1. /\ Change(<<"connect">>) /\ <<"connect">> \in Seq(Actions)
        /\ UNCHANGED <<net, nets, follower>>
    BY Events DEF Join, Actions
  <2>2. ConnectPending' /\ BootInv' /\ (CreatePending => CreatePending')
    BY <1>s, <1>i, <2>1, ChangeKeeps, OneEvent
  <2>3. Announced'
    BY <1>s, <1>i, <2>1, ChangeKeeps, EmitAnnounced, OneEvent, NoEvent
  <2>4. KnownInv'
    BY <1>s, <1>i, <1>n, <2>1, <2>2, ChangeKeeps DEF KnownInv, Attached, follower
  <2>5. TruthInv'
    BY <1>s, <1>i, <2>1, <2>2, ChangeKeeps DEF TruthInv, Attached, Loose, Covered, follower
  <2> QED  BY <2>2, <2>3, <2>4, <2>5 DEF ParkingInv
<1>4. CASE \E t \in Targets : Leave(t)
  <2> PICK t \in Targets : Leave(t)  BY <1>4
  <2>1. /\ Change(<<"disconnect">>) /\ <<"disconnect">> \in Seq(Actions)
        /\ UNCHANGED <<net, nets, follower>> /\ members' \subseteq members
    BY Events DEF Leave, Actions
  <2>2. BootInv' /\ (CreatePending => CreatePending') /\ (ConnectPending => ConnectPending')
    BY <1>s, <1>i, <2>1, ChangeKeeps
  <2>3. Announced'
    BY <1>s, <1>i, <2>1, ChangeKeeps, EmitAnnounced, OneEvent, NoEvent
  <2>4. KnownInv'
    BY <1>s, <1>i, <1>n, <2>1, <2>2, ChangeKeeps DEF KnownInv, Attached, follower
  <2>5. TruthInv'
    BY <1>s, <1>i, <2>1, <2>2, ChangeKeeps DEF TruthInv, Attached, Loose, Covered, follower
  <2> QED  BY <2>2, <2>3, <2>4, <2>5 DEF ParkingInv
<1>5. CASE FollowerStop
  <2> DEFINE es == IF Attached THEN <<"disconnect">> ELSE <<>>
  <2>1. /\ Change(es) /\ es \in Seq(Actions) /\ ~running'
        /\ UNCHANGED <<net, nets, members, fid, stored>>
        /\ \A k \in DOMAIN es : es[k] # "destroy"
    <3>1. Change(es) /\ ~running' /\ UNCHANGED <<net, nets, members, fid, stored>>
      BY <1>5 DEF FollowerStop, network
    <3>2. CASE Attached
      BY <3>1, <3>2, Events, OneEvent DEF Actions
    <3>3. CASE ~Attached
      BY <3>1, <3>3, Events, NoEvent
    <3> QED  BY <3>2, <3>3
  <2> HIDE DEF es
  <2>2. BootInv' /\ (CreatePending => CreatePending') /\ (ConnectPending => ConnectPending')
    BY <1>s, <1>i, <2>1, ChangeKeeps
  <2>3. Announced'
    BY <1>s, <1>i, <2>1, ChangeKeeps, EmitAnnounced, OneEvent, NoEvent
  <2>4. KnownInv'
    <3>1. ~Attached' /\ stored' <= nets'
      BY <1>n, <2>1 DEF Attached
    <3> QED  BY <1>s, <1>i, <2>1, <2>2, <3>1, ChangeKeeps DEF KnownInv
  <2>5. TruthInv'
    BY <1>s, <1>i, <2>1, <2>2, ChangeKeeps DEF TruthInv, Attached, Loose, Covered
  <2> QED  BY <2>2, <2>3, <2>4, <2>5 DEF ParkingInv
<1>6. CASE FollowerStart
  <2> DEFINE es == IF stored # 0 THEN <<"connect">> ELSE <<>>
  <2>1. /\ Change(es) /\ es \in Seq(Actions) /\ fid # 0 /\ ~running
        /\ stored # 0 => net # 0
        /\ stored' = IF stored # 0 THEN net ELSE 0
        /\ UNCHANGED <<net, nets, members, fid>>
        /\ \A k \in DOMAIN es : es[k] # "destroy"
        /\ stored # 0 => \E k \in DOMAIN es : es[k] = "connect"
    <3>1. /\ Change(es) /\ fid # 0 /\ ~running
          /\ stored # 0 => net # 0
          /\ stored' = IF stored # 0 THEN net ELSE 0
          /\ UNCHANGED <<net, nets, members, fid>>
      BY <1>6 DEF FollowerStart, network
    <3>2. CASE stored # 0
      BY <3>1, <3>2, Events, OneEvent DEF Actions
    <3>3. CASE stored = 0
      BY <3>1, <3>3, Events, NoEvent
    <3> QED  BY <3>2, <3>3
  <2> HIDE DEF es
  <2>2. /\ BootInv' /\ (CreatePending => CreatePending') /\ (ConnectPending => ConnectPending')
        /\ stored # 0 => ConnectPending'
    BY <1>s, <1>i, <2>1, ChangeKeeps
  <2>3. Announced'
    BY <1>s, <1>i, <2>1, ChangeKeeps, EmitAnnounced, OneEvent, NoEvent
  <2>4. KnownInv'
    BY <1>s, <1>i, <1>n, <2>1, <2>2, ChangeKeeps DEF KnownInv, Attached
  <2>5. TruthInv'
    BY <1>s, <1>i, <2>1, <2>2, ChangeKeeps DEF TruthInv, Attached, Loose, Covered
  <2> QED  BY <2>2, <2>3, <2>4, <2>5 DEF ParkingInv
<1>7. CASE FollowerRemove
  <2>1. /\ Change(<<>>) /\ <<>> \in Seq(Actions) /\ fid' = 0 /\ UNCHANGED <<net, nets, members>>
        /\ running' = FALSE /\ stored' = 0
    BY <1>7, <1>i, Events DEF FollowerRemove, network, TypeOK
  <2>2. BootInv' /\ (CreatePending => CreatePending') /\ (ConnectPending => ConnectPending')
    BY <1>s, <1>i, <2>1, ChangeKeeps
  <2>3. Announced'
    BY <1>s, <1>i, <2>1, ChangeKeeps, EmitAnnounced, OneEvent, NoEvent
  <2>4. KnownInv'
    <3>1. ~Attached' /\ stored' <= nets'
      BY <1>n, <2>1 DEF Attached
    <3> QED  BY <1>s, <1>i, <2>1, <2>2, <3>1, ChangeKeeps DEF KnownInv
  <2>5. TruthInv'
    BY <1>s, <1>i, <2>1, <2>2, ChangeKeeps DEF TruthInv, Attached, Loose, Covered
  <2> QED  BY <2>2, <2>3, <2>4, <2>5 DEF ParkingInv
<1>8. CASE FollowerCreate
  <2>1. /\ Change(<<"connect">>) /\ <<"connect">> \in Seq(Actions)
        /\ net # 0 /\ stored' = net /\ running' /\ UNCHANGED <<net, nets, members>>
    BY <1>8, Events DEF FollowerCreate, Actions, network
  <2>2. ConnectPending' /\ BootInv' /\ (CreatePending => CreatePending')
    BY <1>s, <1>i, <2>1, ChangeKeeps, OneEvent
  <2>3. Announced'
    BY <1>s, <1>i, <2>1, ChangeKeeps, EmitAnnounced, OneEvent, NoEvent
  <2>4. KnownInv'
    BY <1>s, <1>i, <1>n, <2>1, <2>2, ChangeKeeps DEF KnownInv, Attached
  <2>5. TruthInv'
    BY <1>s, <1>i, <2>1, <2>2, ChangeKeeps DEF TruthInv, Attached, Loose, Covered
  <2> QED  BY <2>2, <2>3, <2>4, <2>5 DEF ParkingInv
<1> QED  BY <1>1, <1>2, <1>3, <1>4, <1>5, <1>6, <1>7, <1>8 DEF Docker

LEMMA FaultNotSmooth == TypeOK /\ ApiFault => ~Smooth'
<1> SUFFICES ASSUME TypeOK, ApiFault PROVE ~Smooth'  OBVIOUS
<1>1. apiFaults \in Nat /\ apiFaults' = apiFaults + 1
  BY RebinderAssumption DEF ApiFault, TypeOK
<1> QED  BY <1>1 DEF Smooth

\* What a handler leaves behind that is over: nothing is wrong but what a queued
\* event leads to.
LEMMA ReturnParking ==
    ASSUME BootInv, Return, pc # "subscribe", UNCHANGED stream,
           ~stream => queue' = <<>> /\ ~parked',
           Announced', stored' <= nets',
           Attached' /\ parked' => CreatePending' \/ ConnectPending',
           Loose' /\ ~parked' => CreatePending',
           Loose' /\ members' # {} => CreatePending' \/ ConnectPending'
    PROVE  ParkingInv'
<1>1. pc' = (IF boot THEN "subscribe" ELSE "idle") /\ boot' = FALSE
  BY DEF Return
<1>2. BootInv'
  BY <1>1 DEF BootInv, Booting
<1>3. KnownInv'
  BY <1>1 DEF KnownInv
<1>4. TruthInv'
  BY DEF TruthInv, Covered
<1> QED  BY <1>2, <1>3, <1>4 DEF ParkingInv

\* Nothing that the docker side holds, and no event, changes with the step.
Still == UNCHANGED <<docker, sub>>

LEMMA StillKeeps ==
    ASSUME Still
    PROVE  /\ UNCHANGED <<net, nets, members, fid, running, stored, stream, queue>>
           /\ Announced => Announced'
           /\ CreatePending <=> CreatePending'
           /\ ConnectPending <=> ConnectPending'
           /\ Attached <=> Attached'
           /\ Loose <=> Loose'
<1>1. UNCHANGED <<net, nets, members, fid, running, stored, stream, queue>>
  BY DEF Still, docker, network, follower, sub
<1> QED  BY <1>1 DEF Announced, CreatePending, ConnectPending, Attached, Loose

\* A handler that is over and has changed nothing.
LEMMA GiveUpParking ==
    ASSUME BootInv, Announced, KnownInv, TruthInv, Return, pc # "subscribe", Still, UNCHANGED parked,
           Attached /\ parked => CreatePending \/ ConnectPending,
           Loose /\ ~parked => CreatePending,
           Loose /\ members # {} => CreatePending \/ ConnectPending
    PROVE  ParkingInv'
<1>1. /\ UNCHANGED <<stream, queue, stored, nets, members, parked>>
      /\ ~stream => queue = <<>> /\ ~parked
      /\ stored <= nets
  BY StillKeeps DEF BootInv, KnownInv
<1> QED  BY <1>1, StillKeeps, ReturnParking

\* A read that hands on to the next step of the same handler.
LEMMA ReadParking ==
    ASSUME BootInv, Announced, KnownInv, TruthInv, Still, UNCHANGED <<parked, boot>>,
           BootInv', KnownInv', Covered => Covered'
    PROVE  ParkingInv'
<1>1. Announced'
  BY StillKeeps
<1>2. TruthInv'
  BY StillKeeps DEF TruthInv
<1> QED  BY <1>1, <1>2 DEF ParkingInv

LEMMA ReadsParking ==
    ASSUME IInv, BootInv, Announced, KnownInv, TruthInv, Smooth',
           \/ ReadFails \/ BootNet \/ BootList \/ BootInspect \/ ParkNet \/ ParkList
           \/ SettleNet \/ SettleList \/ ReattachNet \/ ReattachList
           \/ FollowerMissing \/ Probe
    PROVE  ParkingInv'
<1>t. TypeOK
  BY DEF IInv
<1>1. CASE ReadFails
  <2>1. ~ApiFault
    BY <1>t, FaultNotSmooth
  <2>2. net = 0 /\ pc # "subscribe" /\ Return /\ Still /\ UNCHANGED parked
    BY <1>1, <2>1 DEF ReadFails, Still
  <2> QED  BY <2>2, GiveUpParking DEF Attached, Loose
<1>2. CASE FollowerMissing
  <2>1. fid = 0 /\ pc # "subscribe" /\ Return /\ Still /\ UNCHANGED parked
    BY <1>2 DEF FollowerMissing, Still
  <2> QED  BY <2>1, GiveUpParking DEF Attached, Loose
<1>3. CASE BootInspect
  <2>1. pc = "bootInspect" /\ Still /\ UNCHANGED parked
    BY <1>3 DEF BootInspect, Still
  <2>2. boot /\ ~parked /\ seen.net = net /\ target = fid
    BY <2>1 DEF BootInv, Booting
  <2>3. CASE target = 0 \/ fid # target \/ stored = seen.net
    <3>1. Return /\ (fid = 0 \/ stored = net)
      BY <1>3, <2>2, <2>3 DEF BootInspect
    <3> QED  BY <2>1, <2>2, <3>1, GiveUpParking DEF Attached, Loose
  <2>4. CASE ~(target = 0 \/ fid # target \/ stored = seen.net)
    <3>1. pc' = "reNet" /\ UNCHANGED boot
      BY <1>3, <2>4 DEF BootInspect, Goto
    <3>2. BootInv' /\ KnownInv'
      BY <2>1, <2>2, <3>1, StillKeeps DEF BootInv, KnownInv, Booting, AfterPolling
    <3> QED  BY <2>1, <3>1, <3>2, ReadParking DEF Covered
  <2> QED  BY <2>3, <2>4
<1>4. CASE Probe
  <2>1. /\ pc = "probe" /\ pc' \in {"reNet", "setNet"} /\ Still /\ UNCHANGED <<parked, boot>>
    BY <1>4 DEF Probe, Goto, Still
  <2>2. BootInv' /\ KnownInv'
    BY <2>1, StillKeeps DEF BootInv, KnownInv, Booting, AfterPolling
  <2> QED  BY <2>1, <2>2, ReadParking DEF Covered
<1>5. ASSUME NEW l \in {"bootNet", "parkNet", "setNet", "reNet"},
             NEW m, InspectNet(l, m),
             m = CASE l = "bootNet" -> "bootList" [] l = "parkNet" -> "parkList"
                   [] l = "setNet" -> "setList" [] l = "reNet" -> "reList"
      PROVE  ParkingInv'
  <2>1. /\ pc = l /\ pc' = m /\ net # 0 /\ seen' = Inspected
        /\ Still /\ UNCHANGED <<parked, boot, target, attempt>>
    BY <1>5 DEF InspectNet, Goto, Still
  <2>2. /\ seen'.net = net /\ seen'.members = members
        /\ seen'.follower = IF Attached THEN fid ELSE 0
    BY <2>1 DEF Inspected
  <2>3. <<l, m>> \in {<<"bootNet", "bootList">>, <<"parkNet", "parkList">>,
                      <<"setNet", "setList">>, <<"reNet", "reList">>}
    BY <1>5
  <2>4. BootInv'
    BY <2>1, <2>2, <2>3, StillKeeps DEF BootInv, Booting, AfterPolling
  <2>5. KnownInv'
    BY <2>1, <2>2, <2>3, StillKeeps DEF KnownInv
  <2>6. Covered => Covered'
    BY <2>1, <2>3, StillKeeps DEF Covered, Booting
  <2> QED  BY <2>1, <2>4, <2>5, <2>6, ReadParking
<1>6. ASSUME NEW l \in {"bootList", "parkList", "setList", "reList"},
             NEW m, Resolve(l, m),
             m = CASE l = "bootList" -> "bootInspect" [] l = "parkList" -> "park"
                   [] l = "setList" -> "probe" [] l = "reList" -> "reDisc"
      PROVE  ParkingInv'
  <2>1. /\ pc = l /\ pc' = m /\ target' = fid
        /\ Still /\ UNCHANGED <<parked, boot, seen, attempt>>
    BY <1>6 DEF Resolve, Goto, Still
  <2>2. <<l, m>> \in {<<"bootList", "bootInspect">>, <<"parkList", "park">>,
                      <<"setList", "probe">>, <<"reList", "reDisc">>}
    BY <1>6
  <2>3. BootInv'
    BY <2>1, <2>2, StillKeeps DEF BootInv, Booting, AfterPolling
  <2>4. KnownInv'
    BY <2>1, <2>2, StillKeeps DEF KnownInv
  <2>5. Covered => Covered'
    BY <2>1, <2>2, StillKeeps DEF Covered, Booting
  <2> QED  BY <2>1, <2>3, <2>4, <2>5, ReadParking
<1>7. CASE BootNet \/ ParkNet \/ SettleNet \/ ReattachNet
  BY <1>7, <1>5 DEF BootNet, ParkNet, SettleNet, ReattachNet
<1>8. CASE BootList \/ ParkList \/ SettleList \/ ReattachList
  BY <1>8, <1>6 DEF BootList, ParkList, SettleList, ReattachList
<1> QED  BY <1>1, <1>2, <1>3, <1>4, <1>7, <1>8

\* Run's own steps: the subscription and the events taken from it.
LEMMA ConsumeParking ==
    ASSUME IInv, BootInv, Announced, KnownInv, TruthInv, Smooth',
           Subscribe \/ OnStreamError \/ OnCreate \/ OnDestroy \/ OnConnect \/ OnDisconnect
    PROVE  ParkingInv'
<1>t. TypeOK
  BY DEF IInv
<1>1. CASE Subscribe
  <2>1. /\ pc = "subscribe" /\ pc' = "idle" /\ stream' = TRUE /\ queue' = <<>>
        /\ UNCHANGED <<docker, parked, boot>>
    BY <1>1 DEF Subscribe, Goto
  <2>2. queue = <<>> /\ ~parked /\ ~boot
    BY <2>1 DEF BootInv, Booting, AfterPolling
  <2>3. UNCHANGED <<net, nets, members, fid, running, stored, queue>>
    BY <2>1, <2>2 DEF docker, network, follower
  <2>4. BootInv' /\ KnownInv' /\ Announced'
    BY <2>1, <2>2, <2>3 DEF BootInv, KnownInv, Announced, Booting, AfterPolling
  <2>5. TruthInv'
    BY <2>1, <2>2, <2>3 DEF TruthInv, Covered, Booting, CreatePending, ConnectPending, Attached, Loose
  <2> QED  BY <2>4, <2>5 DEF ParkingInv
<1>2. CASE OnStreamError
  BY <1>2 DEF OnStreamError, BootInv, Booting, AfterPolling
<1>3. ASSUME NEW a, TakeEvent(a), UNCHANGED boot,
             pc' \in {"idle", "setNet", "parkNet"}, pc' = "parkNet" => ~parked'
      PROVE  /\ queue # <<>> /\ Head(queue) = a /\ stream /\ pc = "idle"
             /\ UNCHANGED <<net, members, fid, running, stored>>
             /\ BootInv' /\ KnownInv' /\ Announced'
             /\ CreatePending /\ a # "create" => CreatePending'
             /\ ConnectPending /\ a # "connect" => ConnectPending'
             /\ a = "destroy" /\ net # 0 => CreatePending'
    <2>1. /\ pc = "idle" /\ queue # <<>> /\ Head(queue) = a /\ queue' = Tail(queue)
          /\ UNCHANGED <<net, nets, members, fid, running, stored, stream>>
      BY <1>3 DEF TakeEvent, docker, network, follower
    <2>2. stream /\ ~boot
      BY <2>1 DEF BootInv
    <2>3. BootInv' /\ KnownInv'
      BY <1>3, <2>1, <2>2 DEF BootInv, KnownInv, Booting, AfterPolling
    <2> QED  BY <1>t, <2>1, <2>2, <2>3, TakeKeeps
<1>4. CASE OnCreate
  <2>1. TakeEvent("create") /\ pc' = "setNet" /\ UNCHANGED <<boot, parked>>
    BY <1>4 DEF OnCreate, BeginSettle, Goto
  <2> QED  BY <2>1, <1>3 DEF ParkingInv, TruthInv, Covered
<1>5. CASE OnDestroy
  <2>1. TakeEvent("destroy") /\ pc' = "idle" /\ UNCHANGED boot /\ parked' = TRUE
    BY <1>5 DEF OnDestroy, Goto
  <2> QED  BY <2>1, <1>3 DEF ParkingInv, TruthInv, Covered, Attached, Loose
<1>6. CASE OnConnect
  <2>1. /\ TakeEvent("connect") /\ UNCHANGED <<boot, parked>>
        /\ pc' = IF parked THEN "setNet" ELSE "idle"
    BY <1>6 DEF OnConnect, BeginSettle, Goto
  <2>2. CASE parked
    BY <2>1, <2>2, <1>3 DEF ParkingInv, TruthInv, Covered
  <2>3. CASE ~parked
    BY <2>1, <2>3, <1>3 DEF ParkingInv, TruthInv, Covered, Booting, Attached, Loose
  <2> QED  BY <2>2, <2>3
<1>7. CASE OnDisconnect
  <2>1. /\ TakeEvent("disconnect") /\ UNCHANGED <<boot, parked>>
        /\ pc' = IF parked THEN "idle" ELSE "parkNet"
    BY <1>7 DEF OnDisconnect, Goto
  <2> QED  BY <2>1, <1>3 DEF ParkingInv, TruthInv, Covered, Booting, Attached, Loose
<1> QED  BY <1>1, <1>2, <1>4, <1>5, <1>6, <1>7

\* The forced disconnect leaves no attachment that the queue does not tell of.
LEMMA DisconnectKeeps ==
    ASSUME IInv, BootInv, Announced, KnownInv, NetworkDisconnect
    PROVE  /\ UNCHANGED <<net, nets, members, fid, running, stream>>
           /\ Announced' /\ stored' <= nets' /\ (~stream => queue' = <<>>)
           /\ CreatePending => CreatePending'
           /\ ConnectPending => ConnectPending'
           /\ Disconnects => fid = target /\ net # 0 /\ ~Attached' /\ stored' = 0
           /\ ~Disconnects => Still
<1>n. TypeOK /\ stored \in Nat /\ nets \in Nat
  BY RebinderAssumption DEF IInv, TypeOK
<1>1. CASE Disconnects
  <2> DEFINE es == IF running THEN <<"disconnect">> ELSE <<>>
  <2>1. /\ stored' = 0 /\ Emit(es) /\ fid = target /\ net # 0
        /\ UNCHANGED <<net, nets, members, fid, running, stream>>
    BY <1>1 DEF NetworkDisconnect, Disconnects, network
  <2>2. es \in Seq(Actions) /\ \A k \in DOMAIN es : es[k] # "destroy"
    BY Events, OneEvent, NoEvent DEF Actions
  <2> HIDE DEF es
  <2>3. Announced' /\ (CreatePending => CreatePending') /\ (ConnectPending => ConnectPending')
    BY <1>n, <2>1, <2>2, EmitAnnounced, EmitKeeps
  <2>4. ~stream => queue' = <<>>
    BY <2>1 DEF Emit, BootInv
  <2> QED  BY <1>n, <1>1, <2>1, <2>3, <2>4 DEF Attached
<1>2. CASE ~Disconnects
  <2>1. Still
    BY <1>2 DEF NetworkDisconnect, Still
  <2> QED  BY <1>2, <2>1, StillKeeps DEF KnownInv, BootInv
<1> QED  BY <1>1, <1>2

LEMMA ParkParking ==
    ASSUME IInv, BootInv, Announced, KnownInv, TruthInv, Smooth',
           Park \/ releaseFollower
    PROVE  ParkingInv'
<1>t. TypeOK
  BY DEF IInv
<1>c. pc \in {"park", "release"}
  BY DEF Park, releaseFollower
<1>0. stream /\ ~boot /\ ~parked /\ (Covered => CreatePending)
  BY <1>c DEF BootInv, Booting, AfterPolling, KnownInv, Covered
<1>1. CASE Park
  <2>1. pc = "park" /\ Still
    BY <1>1 DEF Park, Still
  <2>2. CASE FollowerAttached /\ ForeignCount = 0
    <3>1. pc' = "release" /\ UNCHANGED <<boot, parked>>
      BY <1>1, <2>2 DEF Park, Goto
    <3>2. seen.members = {}
      BY <1>t, <2>2, PolledSets DEF ForeignEndpoints
    <3>3. members = {} \/ ConnectPending
      BY <2>1, <3>2 DEF KnownInv
    <3>4. BootInv' /\ KnownInv'
      BY <1>0, <2>1, <3>1, <3>3, StillKeeps DEF BootInv, KnownInv, Booting
    <3> QED  BY <1>0, <2>1, <3>1, <3>4, ReadParking, StillKeeps DEF Covered
  <2>3. CASE ~(FollowerAttached /\ ForeignCount = 0)
    <3>1. Return /\ (parked' <=> ~FollowerAttached)
      BY <1>0, <1>1, <2>3 DEF Park
    <3>2. Attached /\ parked' => ConnectPending
      BY <2>1, <3>1 DEF KnownInv, FollowerAttached, Attached
    <3>3. Loose => CreatePending
      BY <1>0 DEF TruthInv
    <3>4. stored <= nets
      BY DEF KnownInv
    <3> QED  BY <1>0, <2>1, <3>1, <3>2, <3>3, <3>4, StillKeeps, ReturnParking
  <2> QED  BY <2>2, <2>3
<1>2. CASE releaseFollower
  <2>0. ~ApiFault
    BY <1>t, FaultNotSmooth
  <2>1. /\ pc = "release" /\ NetworkDisconnect /\ Return
        /\ parked' = (parked \/ (net # 0 /\ fid = target))
    BY <1>2, <2>0 DEF releaseFollower
  <2>2. members = {} \/ ConnectPending
    BY <2>1 DEF KnownInv
  <2>3. Attached' => ~parked'
    BY <1>0, <2>1, DisconnectKeeps, StillKeeps DEF Disconnects, Attached
  <2>4. Loose' /\ ~parked' => CreatePending'
    <3>1. CASE Disconnects
      BY <2>1, <3>1 DEF Disconnects
    <3>2. CASE ~Disconnects
      BY <1>0, <2>1, <3>2, DisconnectKeeps, StillKeeps DEF TruthInv
    <3> QED  BY <3>1, <3>2
  <2>5. Loose' /\ members' # {} => ConnectPending'
    BY <2>1, <2>2, DisconnectKeeps
  <2> QED  BY <1>0, <2>1, <2>3, <2>4, <2>5, DisconnectKeeps, ReturnParking
<1> QED  BY <1>1, <1>2

\* A follower replaced while it is reattached comes with its own attachment.
LEMMA ReplacedFollower ==
    ASSUME KnownInv, pc \in {"reDisc", "connect", "backoff"}, fid # target
    PROVE  ~Loose /\ (Attached => ConnectPending)
BY DEF KnownInv, Loose, Attached

LEMMA ReattachParking ==
    ASSUME IInv, BootInv, Announced, KnownInv, TruthInv, Smooth',
           ReattachDisconnect \/ ConnectFails \/ AddressInUse \/ Backoff
    PROVE  ParkingInv'
<1>t. /\ TypeOK /\ inUse \in Nat /\ attempt \in Nat /\ ConnectAttempts \in Nat
  BY RebinderAssumption DEF IInv, TypeOK
<1>f. ~ApiFault
  BY <1>t, FaultNotSmooth
<1>1. CASE ReattachDisconnect
  <2>1. /\ pc = "reDisc" /\ pc' = "connect" /\ NetworkDisconnect /\ attempt' = 1
        /\ UNCHANGED <<boot, parked, seen, target, inUse>>
    BY <1>1, <1>f DEF ReattachDisconnect, Goto, bounds
  <2>2. BootInv'
    BY <2>1, DisconnectKeeps DEF BootInv, Booting, AfterPolling
  <2>3. CASE Disconnects
    <3>1. /\ UNCHANGED <<net, nets, members, fid, running, stream>>
          /\ fid = target /\ ~Attached' /\ stored' <= nets' /\ Announced'
          /\ CreatePending => CreatePending'
      BY <2>1, <2>3, DisconnectKeeps
    <3>2. KnownInv'
      BY <1>t, <2>1, <3>1 DEF KnownInv
    <3>3. TruthInv'
      BY <2>1, <3>1 DEF TruthInv, Covered
    <3> QED  BY <2>2, <3>1, <3>2, <3>3 DEF ParkingInv
  <2>4. CASE ~Disconnects
    <3>1. Still
      BY <2>1, <2>4, DisconnectKeeps
    <3>2. KnownInv'
      BY <1>t, <2>1, <3>1, StillKeeps DEF KnownInv
    <3> QED  BY <2>1, <2>2, <3>1, <3>2, StillKeeps, ReadParking DEF Covered, Booting
  <2> QED  BY <2>3, <2>4
<1>2. CASE ConnectFails
  <2>1. /\ pc = "connect" /\ Return /\ Still /\ UNCHANGED parked
        /\ \/ fid # target \/ net # seen.net \/ net = 0
           \/ attempt = ConnectAttempts /\ inUse' = inUse + 1
    BY <1>2, <1>f DEF ConnectFails, Still
  <2>2. ~(attempt = ConnectAttempts /\ inUse' = inUse + 1)
    BY <1>t, <2>1 DEF KnownInv, Smooth
  <2>3. CASE net = 0
    BY <2>1, <2>3, GiveUpParking DEF Attached, Loose
  <2>4. CASE net # 0 /\ net # seen.net
    <3>1. CreatePending
      BY <2>1, <2>4 DEF KnownInv
    <3> QED  BY <2>1, <3>1, GiveUpParking
  <2>5. CASE fid # target
    BY <2>1, <2>5, ReplacedFollower, GiveUpParking
  <2> QED  BY <2>1, <2>2, <2>3, <2>4, <2>5
<1>3. CASE AddressInUse
  <2>1. /\ pc = "connect" /\ pc' = "backoff" /\ attempt' = attempt + 1 /\ inUse' = inUse + 1
        /\ Still /\ UNCHANGED <<parked, boot, seen, target>>
    BY <1>3 DEF AddressInUse, Goto, Still
  <2>2. BootInv' /\ KnownInv'
    BY <1>t, <2>1, StillKeeps DEF BootInv, KnownInv, Booting, AfterPolling
  <2> QED  BY <2>1, <2>2, StillKeeps, ReadParking DEF Covered, Booting
<1>4. CASE Backoff
  <2>1. /\ pc = "backoff" /\ pc' = "connect" /\ Still
        /\ UNCHANGED <<parked, boot, target, attempt, inUse>>
        /\ net # 0 => seen'.net = net
    BY <1>4 DEF Backoff, Goto, Still, bounds, Inspected
  <2>2. BootInv' /\ KnownInv'
    BY <1>t, <2>1, StillKeeps DEF BootInv, KnownInv, Booting, AfterPolling
  <2> QED  BY <2>1, <2>2, StillKeeps, ReadParking DEF Covered, Booting
<1> QED  BY <1>1, <1>2, <1>3, <1>4

\* The follower is back on the live network.
LEMMA AttachParking ==
    ASSUME IInv, BootInv, Announced, KnownInv, TruthInv,
           Connect \/ RestartFollower
    PROVE  ParkingInv'
<1>t. /\ TypeOK /\ net <= nets
  BY DEF IInv, IdInv
<1>1. ASSUME NEW es \in Seq(Actions), Emit(es), \A k \in DOMAIN es : es[k] # "destroy",
             UNCHANGED <<net, nets, stream>>
      PROVE  Announced' /\ (~stream => queue' = <<>>)
  BY <1>t, <1>1, EmitAnnounced DEF Emit, BootInv
<1>2. CASE Connect
  <2>1. /\ pc = "connect" /\ net # 0 /\ parked' = FALSE /\ stored' = net
        /\ UNCHANGED <<net, nets, fid, running, stream>>
        /\ \/ UNCHANGED queue
           \/ \E es \in {<<"connect">>, <<>>} : Emit(es)
    BY <1>2 DEF Connect, network
  <2>2. Announced' /\ (~stream => queue' = <<>>)
    <3>1. CASE UNCHANGED queue
      BY <2>1, <3>1 DEF Announced, BootInv
    <3>2. CASE \E es \in {<<"connect">>, <<>>} : Emit(es)
      BY <1>1, <2>1, <3>2, Events, OneEvent, NoEvent DEF Actions
    <3> QED  BY <2>1, <3>1, <3>2
  <2>3. CASE Restart
    <3>1. pc' = "restart" /\ UNCHANGED boot
      BY <1>2, <2>3 DEF Connect, Goto
    <3>2. BootInv' /\ KnownInv'
      BY <1>t, <2>1, <2>2, <3>1 DEF BootInv, KnownInv, Booting, AfterPolling
    <3>3. TruthInv'
      BY <2>1 DEF TruthInv, Loose
    <3> QED  BY <2>2, <3>2, <3>3 DEF ParkingInv
  <2>4. CASE ~Restart
    <3>1. Return
      BY <1>2, <2>4 DEF Connect
    <3> QED  BY <1>t, <2>1, <2>2, <3>1, ReturnParking DEF Loose
  <2> QED  BY <2>3, <2>4
<1>3. CASE RestartFollower
  <2>1. pc = "restart" /\ Return /\ UNCHANGED parked /\ ~parked
    BY <1>3 DEF RestartFollower, KnownInv
  <2>2. CASE Still
    <3>1. Loose => CreatePending
      BY <2>1 DEF TruthInv, Covered, Booting
    <3> QED  BY <2>1, <2>2, <3>1, GiveUpParking
  <2>3. CASE ~Still
    <3>1. /\ stored' = net /\ UNCHANGED <<net, nets, stream>>
          /\ Emit(IF running THEN <<"disconnect", "connect">> ELSE <<"connect">>)
      BY <1>3, <2>3 DEF RestartFollower, Still, network
    <3> DEFINE es == IF running THEN <<"disconnect", "connect">> ELSE <<"connect">>
    <3>2. es \in Seq(Actions) /\ \A k \in DOMAIN es : es[k] # "destroy"
      <4>1. CASE running
        BY <4>1, Events
      <4>2. CASE ~running
        BY <4>2, Events, OneEvent DEF Actions
      <4> QED  BY <4>1, <4>2
    <3> HIDE DEF es
    <3>3. Announced' /\ (~stream => queue' = <<>>)
      BY <1>1, <3>1, <3>2 DEF es
    <3> QED  BY <1>t, <2>1, <3>1, <3>3, ReturnParking DEF Loose
  <2> QED  BY <2>2, <2>3
<1> QED  BY <1>2, <1>3

LEMMA CrashParking ==
    ASSUME KnownInv, Crash
    PROVE  ParkingInv'
<1>1. /\ stream' = FALSE /\ queue' = <<>> /\ pc' = "bootNet" /\ boot' = TRUE /\ parked' = FALSE
      /\ UNCHANGED <<stored, nets>>
  BY DEF Crash, docker, network, follower
<1> QED  BY <1>1 DEF ParkingInv, BootInv, Announced, KnownInv, TruthInv, Covered, Booting

\* The sidecar only ever counts more of what goes wrong.
LEMMA StaysRough ==
    ASSUME TypeOK, Run \/ Crash, Smooth'
    PROVE  Smooth
<1>1. /\ apiFaults \in Nat /\ streamFaults \in Nat /\ inUse \in Nat /\ inUse' \in Nat
      /\ ConnectAttempts \in Nat
  <2>1. UNCHANGED inUse \/ inUse' = inUse + 1
    BY DEF Run, Crash, ReadFails, BootNet, BootList, BootInspect, Subscribe, OnStreamError,
           OnCreate, OnDestroy, OnConnect, OnDisconnect, TakeEvent, ParkNet, ParkList, Park,
           releaseFollower, SettleNet, SettleList, Probe, ReattachNet, ReattachList,
           FollowerMissing, ReattachDisconnect, Connect, ConnectFails, AddressInUse, Backoff,
           RestartFollower, InspectNet, Resolve, ApiFault, bounds
  <2> QED  BY <2>1, RebinderAssumption DEF TypeOK
<1>2. ~ApiFault
  BY FaultNotSmooth
<1>3. /\ UNCHANGED <<apiFaults, streamFaults>>
      /\ UNCHANGED inUse \/ inUse' = inUse + 1
  BY <1>2 DEF Run, Crash, ReadFails, BootNet, BootList, BootInspect, Subscribe, OnStreamError,
           OnCreate, OnDestroy, OnConnect, OnDisconnect, TakeEvent, ParkNet, ParkList, Park,
           releaseFollower, SettleNet, SettleList, Probe, ReattachNet, ReattachList,
           FollowerMissing, ReattachDisconnect, Connect, ConnectFails, AddressInUse, Backoff,
           RestartFollower, InspectNet, Resolve, bounds
<1> QED  BY <1>1, <1>3 DEF Smooth

LEMMA ParkingInductive ==
    ASSUME IInv, ParkingInv, ~Unobserved, [Next]_vars
    PROVE  ParkingInv'
<1> SUFFICES ASSUME Smooth' PROVE ParkingInv'
  BY DEF ParkingInv
<1>1. CASE Docker
  BY <1>1, DockerParking
<1>2. CASE Run
  <2>1. BootInv /\ Announced /\ KnownInv /\ TruthInv
    BY <1>2, StaysRough DEF ParkingInv, IInv
  <2> QED
    BY <1>2, <2>1, ReadsParking, ConsumeParking, ParkParking, ReattachParking, AttachParking DEF Run
<1>3. CASE Crash
  BY <1>3, StaysRough, CrashParking DEF ParkingInv, IInv
<1>4. CASE UNCHANGED vars
  <2>1. Still /\ UNCHANGED <<pc, boot, parked, seen, target, attempt, inUse, apiFaults, streamFaults>>
    BY <1>4 DEF vars, Still, locals, bounds
  <2>2. BootInv /\ Announced /\ KnownInv /\ TruthInv
    BY <2>1 DEF ParkingInv, Smooth
  <2>3. BootInv' /\ KnownInv' /\ (Covered => Covered')
    BY <2>1, <2>2, StillKeeps DEF BootInv, KnownInv, Covered
  <2> QED  BY <2>1, <2>2, <2>3, ReadParking
<1> QED  BY <1>1, <1>2, <1>3, <1>4 DEF Next

\* At the start everything is still to be looked at.
LEMMA InitParking == Init => ParkingInv
<1> SUFFICES ASSUME Init PROVE ParkingInv  OBVIOUS
<1>1. BootInv /\ Announced
  BY DEF Init, BootInv, Announced, Booting, AfterPolling
<1>2. KnownInv /\ TruthInv
  BY DEF Init, KnownInv, TruthInv, Covered, Booting
<1> QED  BY <1>1, <1>2 DEF ParkingInv

\* Only a container that exists runs, or is reattached.
RunsInv ==
    /\ running => fid # 0
    /\ pc \in {"reDisc", "connect", "backoff", "restart"} => target # 0

LEMMA OnlyContainersRun == Spec => []RunsInv
<1>1. Init => RunsInv
  BY DEF Init, RunsInv
<1>2. IInv /\ RunsInv /\ [Next]_vars => RunsInv'
  <2> SUFFICES ASSUME IInv, RunsInv, [Next]_vars PROVE RunsInv'  OBVIOUS
  <2>1. CASE Docker
    <3>1. /\ UNCHANGED <<pc, target>>
          /\ \/ UNCHANGED <<fid, running>>
             \/ fid' = followers + 1
             \/ running' = FALSE
             \/ fid' # 0
      BY <2>1 DEF Docker, NetworkCreate, NetworkRemove, Join, Leave, FollowerStop, FollowerStart,
             FollowerRemove, FollowerCreate, StreamBreaks, Change, follower, docker, locals,
             IInv, TypeOK
    <3>2. followers \in Nat
      BY RebinderAssumption DEF IInv, TypeOK
    <3> QED  BY <3>1, <3>2 DEF RunsInv
  <2>2. ASSUME Return, fid' = fid, running' = running \/ (fid = target /\ pc = "restart")
        PROVE  RunsInv'
    BY <2>2 DEF Return, RunsInv
  <2>3. CASE ReadFails \/ BootInspect \/ Park \/ releaseFollower \/ FollowerMissing
             \/ ConnectFails \/ RestartFollower \/ (Connect /\ ~Restart)
    <3>1. CASE RestartFollower
      BY <2>2, <3>1 DEF RestartFollower, docker, follower
    <3>2. CASE ReadFails \/ FollowerMissing \/ ConnectFails
      BY <2>2, <3>2 DEF ReadFails, FollowerMissing, ConnectFails, ApiFault, docker, follower
    <3>3. CASE BootInspect
      BY <2>2, <3>3 DEF BootInspect, docker, follower, RunsInv, Goto
    <3>4. CASE Park
      BY <2>2, <3>4 DEF Park, docker, follower, RunsInv, Goto
    <3>5. CASE releaseFollower
      BY <2>2, <3>5 DEF releaseFollower, NetworkDisconnect, ApiFault, docker, follower
    <3>6. CASE Connect /\ ~Restart
      BY <2>2, <3>6 DEF Connect
    <3> QED  BY <2>3, <3>1, <3>2, <3>3, <3>4, <3>5, <3>6
  <2>4. CASE Connect /\ Restart
    BY <2>4 DEF Connect, Goto, RunsInv, locals
  <2>5. CASE ReattachDisconnect
    BY <2>5 DEF ReattachDisconnect, NetworkDisconnect, ApiFault, Goto, RunsInv, docker, follower
  <2>6. CASE ReattachList
    BY <2>6 DEF ReattachList, Resolve, Goto, RunsInv, docker, follower
  <2>7. CASE AddressInUse \/ Backoff
    BY <2>7 DEF AddressInUse, Backoff, Goto, RunsInv, docker, follower
  <2>8. CASE Crash
    BY <2>8 DEF Crash, RunsInv, docker, follower
  <2>9. CASE \/ BootNet \/ BootList \/ Subscribe \/ OnStreamError \/ OnCreate \/ OnDestroy
             \/ OnConnect \/ OnDisconnect \/ ParkNet \/ ParkList \/ SettleNet \/ SettleList
             \/ Probe \/ ReattachNet
    BY <2>9 DEF BootNet, BootList, Subscribe, OnStreamError, OnCreate, OnDestroy, OnConnect,
           OnDisconnect, TakeEvent, BeginSettle, ParkNet, ParkList, SettleNet, SettleList,
           Probe, ReattachNet, InspectNet, Resolve, Goto, RunsInv, docker, follower
  <2>10. CASE UNCHANGED vars
    BY <2>10 DEF vars, docker, follower, locals, RunsInv
  <2> QED
    BY <2>1, <2>3, <2>4, <2>5, <2>6, <2>7, <2>8, <2>9, <2>10 DEF Next, Run
<1> QED  BY <1>1, <1>2, Invariant, PTL DEF Spec

\* Parked means what it says whenever the sidecar has handled its events, for
\* any number of recreations, crashes and follower restarts: neither maybePark
\* nor reattach leaves the flag at odds with the attachment for good.  Docker
\* rests while nothing is subscribed (a change in that gap announces itself to
\* nobody), and nothing has failed that the handlers only log.
THEOREM ParkedIsTrue ==
    ASSUME ~Unobserved
    PROVE  Spec => []ParkedTellsTheTruth
<1>1. Init => ParkingInv
  BY InitParking
<1>2. IInv /\ ParkingInv /\ [Next]_vars => ParkingInv'
  BY ParkingInductive
<1>3. RunsInv /\ ParkingInv => ParkedTellsTheTruth
  <2> SUFFICES ASSUME RunsInv, ParkingInv, Quiet, Smooth
               PROVE  /\ Attached => ~parked
                      /\ running /\ net # 0 /\ ~Attached => parked /\ members = {}
    BY DEF ParkedTellsTheTruth
  <2>1. ~CreatePending /\ ~ConnectPending
    BY DEF Quiet, CreatePending, ConnectPending
  <2>2. ~Covered
    BY <2>1 DEF Quiet, Covered, Booting
  <2>3. TruthInv
    BY DEF ParkingInv
  <2>4. ASSUME running, net # 0, ~Attached PROVE Loose
    BY <2>4 DEF Attached, Loose, RunsInv
  <2> QED  BY <2>1, <2>2, <2>3, <2>4 DEF TruthInv
<1> QED  BY <1>1, <1>2, <1>3, Invariant, OnlyContainersRun, PTL DEF Spec
-----------------------------------------------------------------------------
(* LetGoWhenQuiet.  A follower left alone has been announced to the watcher, *)
(* or maybePark is looking at it, or a reattach will take it off.            *)

\* maybePark at work on what docker has.
Letting ==
    \/ pc = "parkNet"
    \/ pc \in {"parkList", "park"} /\ seen.members = {} /\ seen.follower = fid
       /\ (pc = "park" => target = fid)
    \/ pc = "release" /\ target = fid

\* A parked watcher reattaches, and takes the follower off first; what it has
\* not taken off it does not attach again unheard.
Reattaching == parked /\ ~(pc \in {"connect", "backoff"} /\ target = fid)

SoleInv ==
    Smooth =>
        /\ SoleAfterOthers => stream /\ (DisconnectPending \/ Letting \/ Reattaching)
        /\ ~stream /\ pc = "restart" => stored = net

\* Of all that happens on the docker side only the leaving of the last endpoint
\* turns the follower into a sole endpoint that joined others.
LEMMA LeftAlone ==
    ASSUME IInv, KnownInv, Docker, ~StreamBreaks, SoleAfterOthers'
    PROVE  \E t \in Targets : Leave(t)
<1>t. net \in Nat /\ nets \in Nat /\ stored \in Nat /\ stored <= nets
  BY DEF IInv, TypeOK, KnownInv
<1>1. ~NetworkCreate
  <2> SUFFICES ASSUME NetworkCreate PROVE FALSE  OBVIOUS
  <2>1. net' = nets + 1 /\ stored' = stored
    BY DEF NetworkCreate, follower
  <2> QED  BY <1>t, <2>1 DEF SoleAfterOthers, Attached
<1>2. ~NetworkRemove
  BY DEF NetworkRemove, SoleAfterOthers, Attached
<1>3. ASSUME NEW t \in Targets, Join(t) PROVE FALSE
  BY <1>3 DEF Join, SoleAfterOthers
<1>4. ~FollowerStop /\ ~FollowerRemove
  BY DEF FollowerStop, FollowerRemove, SoleAfterOthers, Attached
<1>5. ~FollowerStart /\ ~FollowerCreate
  BY DEF FollowerStart, FollowerCreate, network, SoleAfterOthers
<1> QED  BY <1>1, <1>2, <1>3, <1>4, <1>5 DEF Docker

LEMMA DockerSole ==
    ASSUME IInv, ParkingInv, ~Unobserved, Docker, Smooth'
    PROVE  SoleInv'
<1>1. ~StreamBreaks
  <2> SUFFICES ASSUME StreamBreaks PROVE FALSE  OBVIOUS
  <2>1. streamFaults \in Nat /\ streamFaults' = streamFaults + 1
    BY RebinderAssumption DEF StreamBreaks, IInv, TypeOK
  <2> QED  BY <2>1 DEF Smooth
<1>2. UNCHANGED <<apiFaults, streamFaults, inUse>>
  BY <1>1 DEF Docker, NetworkCreate, NetworkRemove, Join, Leave, FollowerStop, FollowerStart,
         FollowerRemove, FollowerCreate, Change, bounds
<1>3. IInv /\ TypeOK /\ KnownInv
  BY <1>2 DEF Smooth, ParkingInv, IInv
<1>4. stream /\ stream' = stream
  BY <1>1 DEF Docker, NetworkCreate, NetworkRemove, Join, Leave, FollowerStop, FollowerStart,
         FollowerRemove, FollowerCreate, Change
<1>5. ASSUME NEW t \in Targets, Leave(t) PROVE DisconnectPending'
  <2>1. Emit(<<"disconnect">>) /\ <<"disconnect">> \in Seq(Actions)
    BY <1>5, Events DEF Leave, Change, Actions
  <2> QED  BY <1>3, <1>4, <2>1, EmitKeeps, OneEvent
<1> QED  BY <1>1, <1>3, <1>4, <1>5, LeftAlone DEF SoleInv

\* The sidecar's steps that change nothing in docker.
LEMMA StillSole ==
    ASSUME SoleInv, Smooth, Still, UNCHANGED crashes,
           SoleAfterOthers => ~(Letting \/ Reattaching) \/ Letting' \/ Reattaching',
           pc' = "restart" => pc = "restart"
    PROVE  SoleInv'
<1>1. UNCHANGED <<stream, queue, net, members, fid, running, stored, joined>>
  BY DEF Still, docker, sub, network, follower
<1>2. DisconnectPending' = DisconnectPending /\ SoleAfterOthers' = SoleAfterOthers
  BY <1>1 DEF DisconnectPending, SoleAfterOthers, Attached
<1> QED  BY <1>1, <1>2 DEF SoleInv

\* No step of the sidecar counts as a crash.
LEMMA RunSurvives == Run => UNCHANGED crashes
BY DEF Run, ReadFails, BootNet, BootList, BootInspect, Subscribe, OnStreamError,
       OnCreate, OnDestroy, OnConnect, OnDisconnect, TakeEvent, ParkNet, ParkList, Park,
       releaseFollower, SettleNet, SettleList, Probe, ReattachNet, ReattachList,
       FollowerMissing, ReattachDisconnect, Connect, ConnectFails, AddressInUse, Backoff,
       RestartFollower, InspectNet, Resolve, ApiFault, bounds

\* Reads, polls and attempts that come to nothing.
LEMMA ReadsSole ==
    ASSUME IInv, KnownInv, SoleInv, Smooth, ~ApiFault, UNCHANGED crashes,
           \/ ReadFails \/ BootNet \/ BootList \/ BootInspect \/ SettleNet \/ SettleList \/ Probe
           \/ ReattachNet \/ ReattachList \/ FollowerMissing \/ ConnectFails \/ AddressInUse \/ Backoff
    PROVE  SoleInv'
<1>1. Still /\ UNCHANGED parked
  BY DEF ReadFails, BootNet, BootList, BootInspect, SettleNet, SettleList, Probe, ReattachNet,
         ReattachList, FollowerMissing, ConnectFails, AddressInUse, Backoff, InspectNet, Resolve, Still
<1>2. /\ pc \in {"parkNet", "parkList"} => net = 0
      /\ pc \notin {"park", "release", "idle", "subscribe", "restart"}
      /\ pc' \notin {"parkNet", "restart"}
      /\ pc' \in {"connect", "backoff"} => pc \in {"connect", "backoff"} /\ target' = target
  BY <1>1 DEF ReadFails, BootNet, BootList, BootInspect, SettleNet, SettleList, Probe,
         ReattachNet, ReattachList, FollowerMissing, ConnectFails, AddressInUse, Backoff,
         InspectNet, Resolve, Goto, Return
<1>3. UNCHANGED fid
  BY <1>1 DEF Still, docker, follower
<1>4. SoleAfterOthers => ~Letting
  BY <1>2 DEF SoleAfterOthers, Attached, Letting
<1>5. Reattaching => Reattaching'
  BY <1>1, <1>2, <1>3 DEF Reattaching
<1> QED  BY <1>1, <1>2, <1>4, <1>5, StillSole

\* A disconnect is overlooked only by a parked watcher.
LEMMA ConsumeSole ==
    ASSUME IInv, BootInv, Announced, SoleInv, Smooth, UNCHANGED crashes,
           Subscribe \/ OnStreamError \/ OnCreate \/ OnDestroy \/ OnConnect \/ OnDisconnect
    PROVE  SoleInv'
<1>1. CASE Subscribe
  <2>1. ~stream /\ UNCHANGED docker /\ pc' = "idle"
    BY <1>1 DEF Subscribe, BootInv, Goto
  <2>2. UNCHANGED <<net, members, fid, running, stored, joined>>
    BY <2>1 DEF docker, network, follower
  <2> QED  BY <2>1, <2>2 DEF SoleInv, SoleAfterOthers, Attached
<1>2. CASE OnStreamError
  BY <1>2 DEF OnStreamError, BootInv, Booting, AfterPolling
<1>3. ASSUME OnCreate \/ OnDestroy \/ OnConnect \/ OnDisconnect
      PROVE  /\ pc = "idle" /\ queue # <<>> /\ queue' = Tail(queue) /\ UNCHANGED <<docker, stream>>
             /\ pc' \in {"idle", "setNet", "parkNet"} /\ (parked => parked')
             /\ Head(queue) = "disconnect" => parked \/ pc' = "parkNet"
  BY <1>3 DEF OnCreate, OnDestroy, OnConnect, OnDisconnect, TakeEvent, BeginSettle, Goto
<1>4. CASE OnCreate \/ OnDestroy \/ OnConnect \/ OnDisconnect
  <2>1. UNCHANGED <<net, members, fid, running, stored, joined>>
    BY <1>3, <1>4 DEF docker, network, follower
  <2>2. SoleAfterOthers' = SoleAfterOthers
    BY <2>1 DEF SoleAfterOthers, Attached
  <2>3. DisconnectPending => DisconnectPending' \/ Head(queue) = "disconnect"
    BY <1>3, <1>4, <2>1, TakeKeeps DEF IInv
  <2>4. parked => Reattaching'
    BY <1>3, <1>4 DEF Reattaching
  <2>5. ~Letting /\ (Reattaching => parked)
    BY <1>3, <1>4 DEF Letting, Reattaching
  <2>6. pc' = "parkNet" => Letting'
    BY DEF Letting
  <2> QED  BY <1>3, <1>4, <2>2, <2>3, <2>4, <2>5, <2>6 DEF SoleInv
<1> QED  BY <1>1, <1>2, <1>4

\* Taken off the network, the follower is nobody's last endpoint.
LEMMA DisconnectSole ==
    ASSUME IInv, NetworkDisconnect, Disconnects, pc' # "restart"
    PROVE  SoleInv'
<1>1. net' = net /\ net # 0 /\ stored' = 0
  BY DEF NetworkDisconnect, Disconnects, network
<1> QED  BY <1>1 DEF SoleInv, SoleAfterOthers, Attached

\* maybePark sees a follower that is alone and releases it.
LEMMA ParkSole ==
    ASSUME IInv, KnownInv, SoleInv, Smooth, ~ApiFault, UNCHANGED crashes,
           ParkNet \/ ParkList \/ Park \/ releaseFollower
    PROVE  SoleInv'
<1>1. CASE ParkNet
  <2>1. Still /\ pc = "parkNet" /\ pc' = "parkList" /\ UNCHANGED parked /\ seen' = Inspected
    BY <1>1 DEF ParkNet, InspectNet, Goto, Still
  <2>2. SoleAfterOthers => Letting'
    BY <2>1 DEF SoleAfterOthers, Inspected, Letting, Still, docker, follower
  <2> QED  BY <2>1, <2>2, StillSole
<1>2. CASE ParkList
  <2>1. Still /\ pc = "parkList" /\ pc' = "park" /\ UNCHANGED <<parked, seen>> /\ target' = fid
    BY <1>2 DEF ParkList, Resolve, Goto, Still
  <2>2. UNCHANGED fid
    BY <2>1 DEF Still, docker, follower
  <2>3. (Letting => Letting') /\ (Reattaching => Reattaching')
    BY <2>1, <2>2 DEF Letting, Reattaching
  <2> QED  BY <2>1, <2>3, StillSole
<1>3. CASE Park
  <2>1. Still /\ pc = "park" /\ pc' \in {"release", "idle", "subscribe"} /\ (parked => parked')
    BY <1>3 DEF Park, Goto, Return, Still
  <2>2. UNCHANGED fid
    BY <2>1 DEF Still, docker, follower
  <2>3. Reattaching => Reattaching'
    BY <2>1 DEF Reattaching
  <2>4. ASSUME Letting, SoleAfterOthers PROVE Letting'
    <3>1. seen.members = {} /\ seen.follower = fid /\ target = fid /\ fid # 0
      BY <2>1, <2>4 DEF Letting, SoleAfterOthers, Attached
    <3>2. FollowerAttached /\ ForeignEndpoints = {}
      BY <3>1 DEF FollowerAttached, ForeignEndpoints
    <3>3. ForeignCount = 0
      BY <3>2, FS_EmptySet DEF ForeignCount
    <3>4. pc' = "release" /\ UNCHANGED target
      BY <1>3, <3>2, <3>3 DEF Park, Goto, locals
    <3> QED  BY <2>2, <3>1, <3>4 DEF Letting
  <2> QED  BY <2>1, <2>3, <2>4, StillSole
<1>4. CASE releaseFollower
  <2>1. /\ pc = "release" /\ NetworkDisconnect /\ ~parked
        /\ pc' \in {"idle", "subscribe"}
    BY <1>4 DEF releaseFollower, Return, KnownInv
  <2>2. CASE Disconnects
    BY <2>1, <2>2, DisconnectSole
  <2>3. CASE ~Disconnects
    <3>1. Still
      BY <2>1, <2>3 DEF NetworkDisconnect, Still
    <3>2. SoleAfterOthers => ~Letting /\ ~Reattaching
      BY <2>1, <2>3 DEF SoleAfterOthers, Attached, Letting, Reattaching, Disconnects
    <3> QED  BY <2>1, <3>1, <3>2, StillSole
  <2> QED  BY <2>2, <2>3
<1> QED  BY <1>1, <1>2, <1>3, <1>4

\* A reattach takes the follower off, and what it joins alone it joins alone.
LEMMA ReattachSole ==
    ASSUME IInv, KnownInv, SoleInv, Smooth, ~ApiFault, UNCHANGED crashes,
           ReattachDisconnect \/ Connect \/ RestartFollower
    PROVE  SoleInv'
<1>1. CASE ReattachDisconnect
  <2>1. pc = "reDisc" /\ pc' = "connect" /\ NetworkDisconnect /\ UNCHANGED <<parked, target>>
    BY <1>1 DEF ReattachDisconnect, Goto
  <2>2. CASE Disconnects
    BY <2>1, <2>2, DisconnectSole
  <2>3. CASE ~Disconnects
    <3>1. Still /\ UNCHANGED fid
      BY <2>1, <2>3 DEF NetworkDisconnect, Still, docker, follower
    <3>2. SoleAfterOthers => fid # target
      BY <2>3 DEF SoleAfterOthers, Attached, Disconnects
    <3>3. SoleAfterOthers => ~Letting /\ (Reattaching => Reattaching')
      BY <2>1, <3>1, <3>2 DEF Letting, Reattaching
    <3> QED  BY <2>1, <3>1, <3>3, StillSole
  <2> QED  BY <2>2, <2>3
<1>2. CASE Connect
  <2>1. /\ pc = "connect" /\ fid = target /\ net # 0 /\ stored' = net
        /\ UNCHANGED <<net, members, fid, running, stream>>
    BY <1>2 DEF Connect, network
  <2>2. CASE stored = net
    <3>1. UNCHANGED <<stored, joined, queue>>
      BY <1>2, <2>1, <2>2 DEF Connect
    <3>2. SoleAfterOthers' = SoleAfterOthers /\ DisconnectPending' = DisconnectPending
      BY <2>1, <3>1 DEF SoleAfterOthers, Attached, DisconnectPending
    <3>3. ~Letting /\ ~Reattaching
      BY <2>1 DEF Letting, Reattaching
    <3> QED  BY <2>1, <3>2, <3>3 DEF SoleInv
  <2>3. CASE stored # net
    <3>1. joined' = IF running /\ members = {} THEN "alone" ELSE "others"
      BY <1>2, <2>3 DEF Connect
    <3>2. ~SoleAfterOthers'
      BY <2>1, <3>1 DEF SoleAfterOthers, Attached
    <3> QED  BY <2>1, <3>2 DEF SoleInv
  <2> QED  BY <2>2, <2>3
<1>3. CASE RestartFollower
  <2>1. pc = "restart" /\ pc' \in {"idle", "subscribe"}
    BY <1>3 DEF RestartFollower, Return
  <2>2. ~Letting /\ ~Reattaching
    BY <2>1 DEF Letting, Reattaching, KnownInv
  <2>3. CASE Still
    BY <2>1, <2>2, <2>3, StillSole
  <2>4. CASE ~Still
    <3>1. /\ stored' = net /\ net # 0 /\ UNCHANGED <<net, members, fid, stream>>
          /\ Emit(IF running THEN <<"disconnect", "connect">> ELSE <<"connect">>)
          /\ joined' = IF running THEN joined ELSE IF members = {} THEN "alone" ELSE "others"
      BY <1>3, <2>4 DEF RestartFollower, Still, network
    <3>2. ASSUME ~running PROVE ~SoleAfterOthers'
      BY <3>1, <3>2 DEF SoleAfterOthers
    <3>3. ASSUME running, stream PROVE DisconnectPending'
      <4> DEFINE es == <<"disconnect", "connect">>
      <4>1. es \in Seq(Actions) /\ Emit(es) /\ (\E k \in DOMAIN es : es[k] = "disconnect")
        BY <3>1, <3>3, Events
      <4> HIDE DEF es
      <4> QED  BY <3>3, <4>1, EmitKeeps DEF IInv
    <3>4. ASSUME running, ~stream PROVE ~SoleAfterOthers'
      BY <2>1, <3>1, <3>4 DEF SoleInv, SoleAfterOthers, Attached
    <3> QED  BY <2>1, <3>1, <3>2, <3>3, <3>4 DEF SoleInv
  <2> QED  BY <2>3, <2>4
<1> QED  BY <1>1, <1>2, <1>3

LEMMA SoleInductive ==
    ASSUME IInv, ParkingInv, SoleInv, ~Unobserved, [Next]_vars
    PROVE  SoleInv'
<1> SUFFICES ASSUME Smooth' PROVE SoleInv'
  BY DEF SoleInv
<1>1. CASE Docker
  BY <1>1, DockerSole
<1>2. CASE Run
  <2>1. Smooth /\ ~ApiFault /\ UNCHANGED crashes
    BY <1>2, StaysRough, FaultNotSmooth, RunSurvives DEF IInv
  <2>2. BootInv /\ Announced /\ KnownInv
    BY <2>1 DEF ParkingInv
  <2> QED  BY <1>2, <2>1, <2>2, ReadsSole, ConsumeSole, ParkSole, ReattachSole DEF Run
<1>3. CASE Crash
  <2>1. pc' = "bootNet" /\ crashes' = crashes + 1 /\ crashes \in Nat
    BY <1>3, RebinderAssumption DEF Crash, IInv, TypeOK
  <2> QED  BY <2>1 DEF SoleInv, SoleAfterOthers
<1>4. CASE UNCHANGED vars
  <2>1. /\ Still /\ UNCHANGED <<pc, parked, seen, target, crashes, apiFaults, streamFaults, inUse>>
    BY <1>4 DEF vars, Still, locals, bounds
  <2>2. Smooth /\ UNCHANGED fid
    BY <2>1 DEF Smooth, Still, docker, follower
  <2>3. (Letting => Letting') /\ (Reattaching => Reattaching')
    BY <2>1, <2>2 DEF Letting, Reattaching
  <2> QED  BY <2>1, <2>2, <2>3, StillSole
<1> QED  BY <1>1, <1>2, <1>3, <1>4 DEF Next

\* The safety half of LetsGo: the watcher never rests beside a follower that pins
\* a network all others have left, whatever handler was at work when they did.
\* The assumptions are those of ParkedIsTrue.
THEOREM LastOneIsLetGo ==
    ASSUME ~Unobserved
    PROVE  Spec => []LetGoWhenQuiet
<1>1. Init => ParkingInv
  BY InitParking
<1>2. Init => SoleInv
  BY DEF Init, SoleInv, SoleAfterOthers
<1>3. IInv /\ ParkingInv /\ SoleInv /\ [Next]_vars => ParkingInv' /\ SoleInv'
  BY ParkingInductive, SoleInductive
<1>4. ParkingInv /\ SoleInv => LetGoWhenQuiet
  <2> SUFFICES ASSUME ParkingInv, SoleInv, Quiet, Smooth, SoleAfterOthers PROVE FALSE
    BY DEF LetGoWhenQuiet
  <2>1. ~CreatePending /\ ~ConnectPending /\ ~DisconnectPending
    BY DEF Quiet, CreatePending, ConnectPending, DisconnectPending
  <2>2. ~Covered /\ ~Letting
    BY <2>1 DEF Quiet, Covered, Booting, Letting
  <2>3. parked
    BY <2>1, <2>2 DEF SoleInv, Reattaching
  <2> QED  BY <2>1, <2>2, <2>3 DEF ParkingInv, TruthInv, SoleAfterOthers
<1> QED  BY <1>1, <1>2, <1>3, <1>4, Invariant, PTL DEF Spec
===============================================================================
