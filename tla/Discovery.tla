------------------------------- MODULE Discovery -------------------------------
(***************************************************************************)
(* The discoverer of the network-anchor: two goroutines, one driven by the *)
(* docker event stream and one by the poll ticker, list the labelled       *)
(* containers and send State snapshots into one bounded channel.           *)
(*                                                                         *)
(* Source: internal/discovery.  The docker daemon is external: it holds    *)
(* the containers' addresses on the shared network and queues one event    *)
(* per change while the stream is open.  Labels are constant data (module  *)
(* Reconciler); the choice of the shared network is module SharedNet.      *)
(***************************************************************************)
EXTENDS Naturals, Sequences, FiniteSets

CONSTANTS
    Containers,      \* containers that carry anchord.expose
    WrapTarget,      \* for a container with network_mode container:<X>, its X
    IP4, IP6, None,
    ChanCap,         \* capacity of Discoverer.out (4 in the code)
    MaxChanges,      \* bound: container starts, stops and address changes
    MaxPending,      \* bound: events queued in an open stream
    MaxListFaults,   \* bound: failing ContainerList and ContainerInspect calls
    MaxStreamFaults, \* bound: event stream errors
    SilentChanges    \* TRUE: an address may also change without an event

Backend == [v4 : IP4 \cup {None}, v6 : IP6 \cup {None}]
NoAddr  == [v4 |-> None, v6 |-> None]
Views   == [Containers -> Backend]
Wrapped == DOMAIN WrapTarget
Plain   == Containers \ Wrapped

ASSUME DiscoveryAssumption ==
    /\ Wrapped \subseteq Containers /\ \A c \in Wrapped : WrapTarget[c] \in Plain
    /\ ChanCap \in Nat \ {0}
    /\ MaxChanges \in Nat /\ MaxPending \in Nat
    /\ MaxListFaults \in Nat /\ MaxStreamFaults \in Nat
    /\ SilentChanges \in BOOLEAN

\* The event goroutine is Run itself (it also takes the initial snapshot).
Goroutines == {"event", "poll"}

VARIABLES
    docker,     \* external: address of every plain container, NoAddr if down
    up,         \* external: the wrapped containers that run
    stream,     \* is a docker event stream open
    pending,    \* events waiting in it
    pc,         \* where each goroutine is
    view,       \* the state a goroutine's snapshot has assembled so far
    todo,       \* wrapped containers it has still to inspect
    out,        \* Discoverer.out
    cancelled,  \* the context
    closed,     \* close(d.out) has run
    panicked,   \* a send hit the closed channel
    changes, listFaults, streamFaults

env    == <<docker, up, changes>>
events == <<stream, pending>>
ending == <<cancelled, closed, panicked>>
vars   == <<env, events, pc, view, todo, out, ending, listFaults, streamFaults>>

\* What a snapshot taken in one instant would show.
Truth == [c \in Containers |-> IF c \in Plain THEN docker[c]
                               ELSE IF c \in up THEN docker[WrapTarget[c]] ELSE NoAddr]

-----------------------------------------------------------------------------
Init ==
    /\ docker = [c \in Plain |-> NoAddr] /\ up = {}
    /\ stream = FALSE /\ pending = 0
    /\ pc = [g \in Goroutines |-> IF g = "event" THEN "initial" ELSE "off"]
    /\ view = [g \in Goroutines |-> [c \in Containers |-> NoAddr]]
    /\ todo = [g \in Goroutines |-> {}]
    /\ out = <<>>
    /\ cancelled = FALSE /\ closed = FALSE /\ panicked = FALSE
    /\ changes = 0 /\ listFaults = 0 /\ streamFaults = 0

\* A change on the docker side, announced if a stream is open.
Change ==
    /\ changes < MaxChanges /\ changes' = changes + 1
    /\ IF stream THEN pending < MaxPending /\ pending' = pending + 1
                 ELSE UNCHANGED pending
    /\ UNCHANGED <<stream, pc, view, todo, out, ending, listFaults, streamFaults>>

\* A plain container starts, stops or comes back at another address.  Two
\* running containers never hold the same address of the network.
ContainerChange(c, a) ==
    /\ a # docker[c]
    /\ \A d \in Plain \ {c} : \A f \in {"v4", "v6"} : a[f] # None => docker[d][f] # a[f]
    /\ docker' = [docker EXCEPT ![c] = a] /\ UNCHANGED up
    /\ Change

WrappedChange(c) ==
    /\ up' = IF c \in up THEN up \ {c} ELSE up \cup {c}
    /\ UNCHANGED docker
    /\ Change

\* An address change that produces no event (package comment, line 7).
SilentChange(c, a) ==
    /\ SilentChanges /\ changes < MaxChanges /\ changes' = changes + 1
    /\ docker[c] # NoAddr /\ a # NoAddr /\ a # docker[c]
    /\ \A d \in Plain \ {c} : \A f \in {"v4", "v6"} : a[f] # None => docker[d][f] # a[f]
    /\ docker' = [docker EXCEPT ![c] = a]
    /\ UNCHANGED <<up, events, pc, view, todo, out, ending, listFaults, streamFaults>>

-----------------------------------------------------------------------------
(* snapshot: list, inspect the netns owners of wrapped containers, send *)

\* Mutant: Run forgets to start pollLoop.
ResumeNoPoll(g) ==
    pc' = [pc EXCEPT ![g] = IF g = "event" /\ ~stream THEN "open" ELSE "wait"]

\* Where a goroutine goes when snapshot returns.  After the initial snapshot
\* Run starts pollLoop and enters eventLoop.
Resume(g) ==
    pc' = [h \in Goroutines |->
              IF h = g THEN IF g = "event" /\ ~stream THEN "open" ELSE "wait"
              ELSE IF pc[h] = "off" THEN "wait" ELSE pc[h]]

ContainerList(g) ==
    /\ pc[g] \in {"initial", "list"} /\ ~cancelled
    /\ view' = [view EXCEPT ![g] = [c \in Containers |-> IF c \in Plain THEN docker[c] ELSE NoAddr]]
    /\ todo' = [todo EXCEPT ![g] = up]
    /\ pc' = [pc EXCEPT ![g] = "inspect"]
    /\ UNCHANGED <<env, events, out, ending, listFaults, streamFaults>>

\* ContainerList fails, always once the context is cancelled.
ListError(g) ==
    /\ pc[g] \in {"initial", "list"}
    /\ \/ cancelled /\ UNCHANGED listFaults
       \/ listFaults < MaxListFaults /\ listFaults' = listFaults + 1
    /\ Resume(g)
    /\ UNCHANGED <<env, events, view, todo, out, ending, streamFaults>>

\* resolveSharedNetIPs follows container:<X> with a separate inspect, which
\* sees X at a later moment than the list.
Inspect(g, c) ==
    /\ pc[g] = "inspect" /\ c \in todo[g] /\ ~cancelled
    /\ todo' = [todo EXCEPT ![g] = @ \ {c}]
    /\ view' = [view EXCEPT ![g][c] = docker[WrapTarget[c]]]
    /\ UNCHANGED <<env, events, pc, out, ending, listFaults, streamFaults>>

\* The inspect fails, always once the context is cancelled; the snapshot goes
\* out all the same, with no address for c.
InspectError(g, c) ==
    /\ pc[g] = "inspect" /\ c \in todo[g]
    /\ cancelled \/ listFaults < MaxListFaults
    /\ listFaults' = IF cancelled THEN listFaults ELSE listFaults + 1
    /\ todo' = [todo EXCEPT ![g] = @ \ {c}]
    /\ view' = [view EXCEPT ![g][c] = NoAddr]
    /\ UNCHANGED <<env, events, pc, out, ending, streamFaults>>

Assembled(g) ==
    /\ pc[g] = "inspect" /\ todo[g] = {}
    /\ pc' = [pc EXCEPT ![g] = "send"]
    /\ UNCHANGED <<env, events, view, todo, out, ending, listFaults, streamFaults>>

\* Mutant: the channel is unbounded.
SendUnbounded(g) ==
    /\ pc[g] = "send" /\ ~closed
    /\ out' = Append(out, view[g])
    /\ Resume(g)
    /\ UNCHANGED <<env, events, view, todo, ending, listFaults, streamFaults>>

\* select { case d.out <- state: ... case <-ctx.Done(): }.  Every snapshot is
\* sent, changed or not; a full channel blocks the goroutine.
Send(g) ==
    /\ pc[g] = "send" /\ ~closed /\ Len(out) < ChanCap
    /\ out' = Append(out, view[g])
    /\ Resume(g)
    /\ UNCHANGED <<env, events, view, todo, ending, listFaults, streamFaults>>

GiveUp(g) ==
    /\ pc[g] = "send" /\ cancelled
    /\ Resume(g)
    /\ UNCHANGED <<env, events, view, todo, out, ending, listFaults, streamFaults>>

\* With both cases ready, select may pick the send although the channel is
\* closed, which panics and takes the whole process down.
SendOnClosed(g) ==
    /\ pc[g] = "send" /\ closed
    /\ panicked' = TRUE
    /\ pc' = [h \in Goroutines |-> "done"]
    /\ UNCHANGED <<env, events, view, todo, out, cancelled, closed, listFaults, streamFaults>>

snapshot(g) ==
    \/ ContainerList(g)
    \/ ListError(g)
    \/ \E c \in Wrapped : Inspect(g, c) \/ InspectError(g, c)
    \/ Assembled(g)
    \/ Send(g)
    \/ GiveUp(g)
    \/ SendOnClosed(g)

-----------------------------------------------------------------------------
(* runEventLoop, consumeEventStream, pollLoop and the end of Run *)

\* runEventLoop opens a stream; changes made while none was open are unseen.
OpenStream ==
    /\ pc["event"] = "open" /\ ~cancelled
    /\ stream' = TRUE /\ pending' = 0
    /\ pc' = [pc EXCEPT !["event"] = "wait"]
    /\ UNCHANGED <<env, view, todo, out, ending, listFaults, streamFaults>>

\* Any container event in scope is a reason to re-scan.
OnMessage ==
    /\ pc["event"] = "wait" /\ stream /\ pending > 0
    /\ pending' = pending - 1
    /\ pc' = [pc EXCEPT !["event"] = "list"]
    /\ UNCHANGED <<env, stream, view, todo, out, ending, listFaults, streamFaults>>

\* The stream breaks; what it still held is lost with it and the consumer
\* reconnects after a pause.
StreamError ==
    /\ pc["event"] = "wait" /\ stream /\ ~cancelled
    /\ streamFaults < MaxStreamFaults
    /\ streamFaults' = streamFaults + 1
    /\ stream' = FALSE /\ pending' = 0
    /\ pc' = [pc EXCEPT !["event"] = "open"]
    /\ UNCHANGED <<env, view, todo, out, ending, listFaults>>

\* The ticker fires; select may prefer it to a cancelled context.
Tick ==
    /\ pc["poll"] = "wait"
    /\ pc' = [pc EXCEPT !["poll"] = "list"]
    /\ UNCHANGED <<env, events, view, todo, out, ending, listFaults, streamFaults>>

\* SIGTERM, or another part of the network-anchor giving up.
Cancel ==
    /\ ~cancelled /\ cancelled' = TRUE
    /\ UNCHANGED <<env, events, pc, view, todo, out, closed, panicked, listFaults, streamFaults>>

\* Mutant: Run gives up, and closes the channel, when the stream breaks.
RunReturnsUnasked ==
    /\ pc["event"] \in {"wait", "open"} /\ (cancelled \/ streamFaults > 0)
    /\ closed' = TRUE /\ stream' = FALSE /\ pending' = 0
    /\ pc' = [pc EXCEPT !["event"] = "done"]
    /\ UNCHANGED <<env, view, todo, out, cancelled, panicked, listFaults, streamFaults>>

\* eventLoop sees the cancelled context and Run's defer closes the channel,
\* without waiting for pollLoop.
RunReturns ==
    /\ pc["event"] \in {"wait", "open"} /\ cancelled
    /\ closed' = TRUE /\ stream' = FALSE /\ pending' = 0
    /\ pc' = [pc EXCEPT !["event"] = "done"]
    /\ UNCHANGED <<env, view, todo, out, cancelled, panicked, listFaults, streamFaults>>

PollReturns ==
    /\ pc["poll"] = "wait" /\ cancelled
    /\ pc' = [pc EXCEPT !["poll"] = "done"]
    /\ UNCHANGED <<env, events, view, todo, out, ending, listFaults, streamFaults>>

\* The consumer of Updates(), which may stop reading once the context is
\* cancelled.
Consume ==
    /\ out # <<>>
    /\ out' = Tail(out)
    /\ UNCHANGED <<env, events, pc, view, todo, ending, listFaults, streamFaults>>

Daemon ==
    \/ \E c \in Plain, a \in Backend : ContainerChange(c, a)
    \/ \E c \in Wrapped : WrappedChange(c)
    \/ \E c \in Plain, a \in Backend : SilentChange(c, a)

EventGoroutine == snapshot("event") \/ OpenStream \/ OnMessage \/ StreamError \/ RunReturns
PollGoroutine  == snapshot("poll") \/ Tick \/ PollReturns

Next == Daemon \/ EventGoroutine \/ PollGoroutine \/ Cancel \/ Consume

Spec == Init /\ [][Next]_vars

-----------------------------------------------------------------------------
TypeOK ==
    /\ docker \in [Plain -> Backend] /\ up \subseteq Wrapped
    /\ stream \in BOOLEAN /\ pending \in 0..MaxPending
    /\ pc \in [Goroutines -> {"off", "initial", "open", "wait", "list", "inspect", "send", "done"}]
    /\ view \in [Goroutines -> Views] /\ todo \in [Goroutines -> SUBSET Wrapped]
    /\ out \in Seq(Views) /\ Len(out) <= ChanCap
    /\ cancelled \in BOOLEAN /\ closed \in BOOLEAN /\ panicked \in BOOLEAN
    /\ changes \in 0..MaxChanges
    /\ listFaults \in 0..MaxListFaults /\ streamFaults \in 0..MaxStreamFaults

\* The one way to panic (run lifecycle_panic) is pollLoop's goroutine, past its
\* list, sending on the channel Run's defer has closed, and so only after a signal:
\* while the context lives no interleaving of the two goroutines, no broken stream
\* and no failing list takes the process down.
OnlyAPollPanics ==
    [][panicked' # panicked =>
         cancelled /\ closed /\ pc["poll"] = "send" /\ pc["event"] = "done"]_vars
=============================================================================
