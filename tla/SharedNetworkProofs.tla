-------------------------- MODULE SharedNetworkProofs --------------------------
(***************************************************************************)
(* What the picker of the shared network keeps although any number of      *)
(* goroutines call Pick without a lock, whatever the networks and the      *)
(* backends: nothing is settled before a backend has been seen, a choice   *)
(* that is settled with no Pick under way is final, and with a pin the     *)
(* missing lock does no harm.                                              *)
(***************************************************************************)
EXTENDS SharedNetwork, TLAPS

Labels == {"list", "pick", "settle", "fallback", "settled"}

\* Where the callers of Pick are, and on what grounds one of them settles.
PickInv ==
    /\ pc \in [Goroutines -> Labels]
    /\ DOMAIN best = Goroutines
    /\ \A g \in Goroutines : pc[g] \in {"settle", "settled"} => sighted # {} \/ Pinned # NoNet
    /\ settled => sighted # {} \/ Pinned # NoNet

\* With a pin every Pick takes the first branch.
PinInv ==
    /\ pc \in [Goroutines -> {"list", "pick", "settle", "settled"}]
    /\ DOMAIN best = Goroutines
    /\ \A g \in Goroutines : /\ pc[g] = "settle" => best[g] = Pinned
                             /\ pc[g] = "settled" => chosen = Pinned
    /\ settled => chosen = Pinned

-----------------------------------------------------------------------------
(* Pick's steps keep both *)

\* A pick settles only with a backend in sight.
LEMMA StepPickInv == PickInv /\ [Next]_vars => PickInv'
<1> SUFFICES ASSUME PickInv, [Next]_vars PROVE PickInv'
  OBVIOUS
<1> USE DEF Labels
<1>1. CASE UNCHANGED vars
  BY <1>1 DEF vars, local, PickInv
<1>2. ASSUME NEW b \in Backends, Attach(b) PROVE PickInv'
  BY <1>2 DEF Attach, local, PickInv
<1>3. ASSUME NEW g \in Goroutines, List(g) PROVE PickInv'
  BY <1>3 DEF List, PickInv
<1>4. ASSUME NEW g \in Goroutines, PickPinned(g) PROVE PickInv'
  BY <1>4 DEF PickPinned, Goto, PickInv
<1>5. ASSUME NEW g \in Goroutines, PickSettled(g) PROVE PickInv'
  BY <1>5 DEF PickSettled, Goto, PickInv
<1>6. ASSUME NEW g \in Goroutines, PickBest(g) PROVE PickInv'
  <2>1. CASE count[g][best'[g]] > 0
    BY <1>6, <2>1 DEF PickBest, Goto, PickInv
  <2>2. CASE ~(count[g][best'[g]] > 0)
    BY <1>6, <2>2 DEF PickBest, Goto, PickInv
  <2> QED BY <2>1, <2>2
<1>7. ASSUME NEW g \in Goroutines, Choose(g) PROVE PickInv'
  BY <1>7 DEF Choose, Goto, PickInv
<1>8. ASSUME NEW g \in Goroutines, Settle(g) PROVE PickInv'
  BY <1>8 DEF Settle, Goto, PickInv
<1> QED BY <1>1, <1>2, <1>3, <1>4, <1>5, <1>6, <1>7, <1>8 DEF Next, Pick

\* Every choice is the pin.
LEMMA StepPinInv == Pinned # NoNet /\ PinInv /\ [Next]_vars => PinInv'
<1> SUFFICES ASSUME Pinned # NoNet, PinInv, [Next]_vars PROVE PinInv'
  OBVIOUS
<1>1. CASE UNCHANGED vars
  BY <1>1 DEF vars, local, PinInv
<1>2. ASSUME NEW b \in Backends, Attach(b) PROVE PinInv'
  BY <1>2 DEF Attach, local, PinInv
<1>3. ASSUME NEW g \in Goroutines, List(g) PROVE PinInv'
  BY <1>3 DEF List, PinInv
<1>4. ASSUME NEW g \in Goroutines, PickPinned(g) PROVE PinInv'
  BY <1>4 DEF PickPinned, Goto, PinInv
<1>5. ASSUME NEW g \in Goroutines, PickSettled(g) \/ PickBest(g) PROVE PinInv'
  BY <1>5 DEF PickSettled, PickBest
<1>6. ASSUME NEW g \in Goroutines, Choose(g) PROVE PinInv'
  BY <1>6 DEF Choose, Goto, PinInv
<1>7. ASSUME NEW g \in Goroutines, Settle(g) PROVE PinInv'
  BY <1>7 DEF Settle, Goto, PinInv
<1> QED BY <1>1, <1>2, <1>3, <1>4, <1>5, <1>6, <1>7 DEF Next, Pick

-----------------------------------------------------------------------------
\* "So that subsequent reconciles can revisit when a backend finally appears":
\* however many goroutines call Pick at once, none settles before one of them has
\* seen a backend on some network, unless the network is pinned.
THEOREM SettlesOnSight == Spec => [](settled => sighted # {} \/ Pinned # NoNet)
<1>1. Init => PickInv
  BY DEF Init, PickInv, Labels
<1>2. PickInv => (settled => sighted # {} \/ Pinned # NoNet)
  BY DEF PickInv
<1> QED BY <1>1, <1>2, StepPickInv, PTL DEF Spec

\* With ANCHORD_SHARED_NETWORK set the comment on Picker.settled holds for every
\* number of callers: what the missing lock breaks (run picker_race) is the
\* unpinned choice.
THEOREM PinnedIsSettled ==
    ASSUME Pinned # NoNet
    PROVE  Spec => []SettledOnABackend
<1>1. Init => PinInv
  BY DEF Init, PinInv
<1>2. PinInv => SettledOnABackend
  BY DEF PinInv, SettledOnABackend
<1> QED BY <1>1, <1>2, StepPinInv, PTL DEF Spec

-----------------------------------------------------------------------------
\* No caller is past its look at settled.
Quiet == \A g \in Goroutines : pc[g] \in {"list", "pick"}

\* F-44's "stable once decided", for any number of callers and no pin: a settled
\* choice that no Pick under way can still overwrite is never changed again, which
\* is also why a choice the race has spoilt stays.
THEOREM QuietChoiceIsFinal ==
    ASSUME Pinned = NoNet
    PROVE  Spec => [][settled /\ Quiet => (settled /\ Quiet)' /\ chosen' = chosen]_vars
<1>1. PickInv /\ [Next]_vars =>
        [settled /\ Quiet => (settled /\ Quiet)' /\ chosen' = chosen]_vars
  <2> SUFFICES ASSUME PickInv, Next, settled, Quiet
               PROVE  settled' /\ Quiet' /\ chosen' = chosen
    OBVIOUS
  <2>1. ASSUME NEW b \in Backends, Attach(b) PROVE settled' /\ Quiet' /\ chosen' = chosen
    BY <2>1 DEF Attach, local, Quiet
  <2>2. ASSUME NEW g \in Goroutines, List(g) PROVE settled' /\ Quiet' /\ chosen' = chosen
    BY <2>2 DEF List, Quiet, PickInv
  <2>3. ASSUME NEW g \in Goroutines, PickSettled(g)
        PROVE  settled' /\ Quiet' /\ chosen' = chosen
    BY <2>3 DEF PickSettled, Goto, Quiet, PickInv
  <2>4. ASSUME NEW g \in Goroutines PROVE ~PickPinned(g) /\ ~PickBest(g) /\ ~Choose(g) /\ ~Settle(g)
    BY DEF PickPinned, PickBest, Choose, Settle, Quiet
  <2> QED BY <2>1, <2>2, <2>3, <2>4 DEF Next, Pick
<1>2. Init => PickInv
  BY DEF Init, PickInv, Labels
<1> QED BY <1>1, <1>2, StepPickInv, PTL DEF Spec
================================================================================
