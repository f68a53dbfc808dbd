----------------------------- MODULE SharedNetwork -----------------------------
(***************************************************************************)
(* The picker of the network backends are reached on (F-44).  Discovery's  *)
(* event goroutine and its poll goroutine each list docker, count backends *)
(* per network and call Pick; autostart reads Chosen.  Nothing locks.      *)
(*                                                                         *)
(* Source: internal/sharednet.  Reads and writes of the picker's fields    *)
(* are steps of their own, in the order of the code.                       *)
(***************************************************************************)
EXTENDS Naturals, Sequences, FiniteSets

CONSTANTS
    Goroutines,  \* those that call Pick
    Backends,    \* containers that expose ports
    candidates,  \* Picker.candidates: a sequence, alphabetical
    Transit,     \* candidates with "transit" in their name
    Pinned,      \* ANCHORD_SHARED_NETWORK, or NoNet
    NoNet

Networks == {candidates[i] : i \in DOMAIN candidates}

\* What New makes of the networks and the pin.
WellConfigured ==
    /\ candidates # <<>> /\ Cardinality(Networks) = Len(candidates)
    /\ Transit \subseteq Networks /\ NoNet \notin Networks /\ Pinned \in Networks \cup {NoNet}

VARIABLES
    attached,  \* external: the networks of each running backend
    pc,        \* where each goroutine is in snapshot and Pick
    count,     \* countBackendsPerNetwork of each one's list
    best,      \* the candidate each one's loop ends with
    chosen, settled,  \* Picker
    sighted    \* history: networks a Pick has found a backend on

local == <<pc, count, best>>
vars  == <<attached, local, chosen, settled, sighted>>

Init ==
    /\ WellConfigured
    /\ attached = [b \in Backends |-> {}]
    /\ pc = [g \in Goroutines |-> "list"]
    /\ count = [g \in Goroutines |-> [n \in Networks |-> 0]]
    /\ best = [g \in Goroutines |-> NoNet]
    /\ chosen = NoNet /\ settled = FALSE
    /\ sighted = {}

\* docker: a backend comes, goes or joins another network.
Attach(b) ==
    /\ attached' \in {[attached EXCEPT ![b] = N] : N \in SUBSET Networks}
    /\ UNCHANGED <<local, chosen, settled, sighted>>

\* snapshot: the list, and what it says about each network.
List(g) ==
    /\ pc[g] = "list"
    /\ count' = [count EXCEPT ![g] =
                    [n \in Networks |-> Cardinality({b \in Backends : n \in attached[b]})]]
    /\ pc' = [pc EXCEPT ![g] = "pick"]
    /\ UNCHANGED <<attached, best, chosen, settled, sighted>>

-----------------------------------------------------------------------------
(* Pick *)

Position(n) == CHOOSE i \in DOMAIN candidates : candidates[i] = n

\* More backends, then a transit name, then the alphabet.
Precedes(m, n, c) ==
    \/ c[m] > c[n]
    \/ /\ c[m] = c[n]
       /\ \/ m \in Transit /\ n \notin Transit
          \/ (m \in Transit <=> n \in Transit) /\ Position(m) <= Position(n)

Best(c) == CHOOSE m \in Networks : \A n \in Networks : Precedes(m, n, c)

Goto(g, label) == pc' = [pc EXCEPT ![g] = label]

PickPinned(g) ==
    /\ pc[g] = "pick" /\ Pinned # NoNet
    /\ best' = [best EXCEPT ![g] = Pinned]
    /\ Goto(g, "settle")
    /\ UNCHANGED <<attached, count, chosen, settled, sighted>>

PickSettled(g) ==
    /\ pc[g] = "pick" /\ Pinned = NoNet /\ settled
    /\ Goto(g, "list")
    /\ UNCHANGED <<attached, count, best, chosen, settled, sighted>>

\* Not settled when it was looked at: with a backend in sight the choice will be
\* settled, without one the same order of preference gives a provisional one.
PickBest(g) ==
    /\ pc[g] = "pick" /\ Pinned = NoNet /\ ~settled
    /\ best' = [best EXCEPT ![g] = Best(count[g])]
    /\ LET seen == count[g][best'[g]] > 0
       IN  /\ sighted' = IF seen THEN sighted \cup {best'[g]} ELSE sighted
           /\ Goto(g, IF seen THEN "settle" ELSE "fallback")
    /\ UNCHANGED <<attached, count, chosen, settled>>

\* p.chosen = best, then p.settled = true.
Choose(g) ==
    /\ pc[g] \in {"settle", "fallback"}
    /\ chosen' = best[g]
    /\ Goto(g, IF pc[g] = "settle" THEN "settled" ELSE "list")
    /\ UNCHANGED <<attached, count, best, settled, sighted>>

Settle(g) ==
    /\ pc[g] = "settled"
    /\ settled' = TRUE
    /\ Goto(g, "list")
    /\ UNCHANGED <<attached, count, best, chosen, sighted>>

Pick(g) == PickPinned(g) \/ PickSettled(g) \/ PickBest(g) \/ Choose(g) \/ Settle(g)

Next ==
    \/ \E b \in Backends : Attach(b)
    \/ \E g \in Goroutines : List(g) \/ Pick(g)

Spec == Init /\ [][Next]_vars

-----------------------------------------------------------------------------
\* "settled flips to true the first time Pick observes a backend on chosen":
\* a choice that is locked in for the rest of the process is one a backend has
\* been seen on (Picker.Pick, called by two goroutines).
SettledOnABackend == settled => chosen \in sighted \cup {Pinned}
=============================================================================
