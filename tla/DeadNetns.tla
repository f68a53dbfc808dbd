------------------------------- MODULE DeadNetns -------------------------------
(***************************************************************************)
(* The detector of dependents in a dead namespace (issue #9) next to the   *)
(* container manager, which recreates service-anchors and may leave        *)
(* dependents behind: two goroutines of one process that meet in docker.   *)
(*                                                                         *)
(* Source: internal/dependents, whose tick works on one container list.    *)
(***************************************************************************)
EXTENDS Autostart

VARIABLES
    seen,    \* Watcher.seen: reported and still stale at the latest tick
    warned   \* history: everything reported

detector == <<seen, warned>>
dvars    == <<vars, detector>>

\* Mutant: a reference counts as live while any container has the parent's name.
FindByName == {<<d, gen[d], ref[d]>> : d \in {c \in Deps : Present(c) /\ ~Present(Parent(c))}}
\* Dependents whose reference leads to no container, stopped ones included.
Find == {<<d, gen[d], ref[d]>> : d \in {c \in Deps : Present(c) /\ ~Resolves(c)}}

DInit == Init /\ seen = {} /\ warned = {}

\* One detection pass; what was seen at the previous one is not repeated.  A pass
\* whose list fails changes nothing: it is a stuttering step, and fairness asks
\* for passes whose list succeeds.  Deps are those of the own compose project
\* (scopeByProject).
tick ==
    /\ seen' = Find
    /\ warned' = warned \cup (Find \ seen)
    /\ UNCHANGED vars

\* The process restarts as a whole; what it had seen is forgotten.
DNext ==
    \/ (Docker \/ Watch) /\ UNCHANGED detector
    \/ tick
    \/ Restart /\ seen' = {} /\ UNCHANGED warned

DSpec == DInit /\ [][DNext]_dvars

\* Both goroutines are scheduled, and the ticker keeps firing.
DFairSpec == DSpec /\ WF_dvars(Watch /\ UNCHANGED detector) /\ WF_dvars(tick)

-----------------------------------------------------------------------------
\* Issues #9 and #10 together: once the target keeps running and the manager has
\* done its part, a running dependent is in the target's namespace, or the
\* operator has been told of it; none sits unnoticed in a dead namespace, unless
\* it refers to the service-anchor by name, which always resolves.
NoSilentOrphan ==
    <>[]Attended =>
        \A d \in Deps : <>[](state[d] = "running" =>
                                d \in joined \/ ref[d] = ByName \/ <<d, gen[d], ref[d]>> \in warned)
=============================================================================
