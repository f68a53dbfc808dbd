---------------------------------- MODULE Dhcp ----------------------------------
(***************************************************************************)
(* The DHCP supervisor of the network-anchor in dhcp-refresh mode: an IPv4 *)
(* client that leases, applies, renews, releases and asks again, and an    *)
(* IPv6 client that leases once, both on the interface docker provided.    *)
(* In the passive modes neither runs.                                      *)
(*                                                                         *)
(* Source: internal/dhcp.  The servers and the kernel are external.  An    *)
(* interface is the set of its addresses, a lease an address and the       *)
(* router of Option 3, which goes to the route enforcer through routers.   *)
(***************************************************************************)
EXTENDS Naturals, Sequences, FiniteSets

CONSTANTS
    Pool,        \* addresses the IPv4 server leases
    Boot,        \* the address docker gave the interface
    Pool6,       \* addresses of the IPv6 server's reply
    Routers,     \* gateways the server may announce
    Lans,        \* LANs, each the set of families (4, 6) it has a DHCP server for
    NoGw,        \* no router option, no gateway
    NoAddr,      \* no address
    RoutersCap,  \* capacity of Supervisor.routers (4 in the code)
    MaxMoves,    \* bound: changes of mind of the servers, foreign changes of routes
    MaxFaults    \* bound: netlink calls that fail, packets that get lost

ASSUME DhcpAssumption ==
    /\ Pool6 # {} /\ NoAddr \notin Pool \cup Pool6 \cup {Boot} /\ NoGw \notin Routers
    /\ Lans \subseteq SUBSET {4, 6}
    /\ RoutersCap \in Nat \ {0} /\ MaxMoves \in Nat /\ MaxFaults \in Nat

VARIABLES
    refresh,   \* configuration: address mode dhcp-refresh
    lan,       \* external: the LAN
    cancelled, \* the context
    binding,   \* server: the address held for our client-id
    binding6,  \* IPv6 server: it holds the addresses of its reply for us
    option,    \* server: the router it announces
    iface, iface6,  \* kernel: addresses of the interface
    pc4, ack, lease,\* runV4Once: the reply at hand, and what the defers release
    pc6, got,  \* runV6Once: addresses of the reply still to be applied
    lease6,    \* addresses of the reply, for the deferred removal
    routers,   \* Supervisor.routers
    unowned,   \* history: a binding nobody is going to release
    revoked,   \* history: the server has ended the binding of the last Request
    stray,     \* history: addresses whose removal has failed
    stray6,    \* history: IPv6 addresses of a reply that was only half applied,
               \* or could not be removed
    moves, faults

server  == <<binding, binding6, option, moves>>
client4 == <<pc4, ack, lease>>
client6 == <<pc6, got, lease6>>
config  == <<refresh, lan>>
dvars   == <<config, cancelled, server, iface, iface6, client4, client6, routers,
             unowned, revoked, stray, stray6, faults>>

Addresses == Pool \cup {Boot}
Leases    == [ip : Pool, gw : Routers \cup {NoGw}]
NoLease   == [ip |-> NoAddr, gw |-> NoGw]

Fault == faults < MaxFaults /\ faults' = faults + 1

-----------------------------------------------------------------------------
DInit ==
    /\ refresh \in BOOLEAN /\ lan \in Lans /\ cancelled = FALSE
    /\ binding = NoAddr /\ binding6 = FALSE /\ option \in Routers \cup {NoGw}
    /\ iface = {Boot} /\ iface6 = {}
    /\ pc4 = (IF refresh THEN "ask" ELSE "done") /\ ack = NoLease /\ lease = NoLease
    /\ pc6 = (IF refresh THEN "solicit" ELSE "done") /\ got = {} /\ lease6 = {}
    /\ routers = <<>>
    /\ unowned = FALSE /\ revoked = FALSE /\ stray = {} /\ stray6 = {}
    /\ moves = 0 /\ faults = 0

Cancel ==
    /\ ~cancelled /\ cancelled' = TRUE
    /\ UNCHANGED <<config, server, iface, iface6, client4, client6, routers,
                   unowned, revoked, stray, stray6, faults>>

-----------------------------------------------------------------------------
(* The servers *)

ServerChange ==
    /\ moves < MaxMoves /\ moves' = moves + 1
    /\ UNCHANGED <<config, cancelled, iface, iface6, client4, client6, routers,
                   unowned, stray, stray6, faults>>

RouterMoves ==
    /\ option' \in Routers \ {option}
    /\ ServerChange
    /\ UNCHANGED <<binding, binding6, revoked>>

\* The binding expires or is revoked; a renewal will be refused.
BindingEnds ==
    /\ binding # NoAddr /\ binding' = NoAddr /\ revoked' = TRUE
    /\ ServerChange
    /\ UNCHANGED <<binding6, option>>

\* The IPv6 lease expires, with or without a client that still uses it.
Binding6Ends ==
    /\ binding6 /\ binding6' = FALSE
    /\ ServerChange
    /\ UNCHANGED <<binding, option, revoked>>

-----------------------------------------------------------------------------
(* runV4Once *)

V4Rest == UNCHANGED <<config, cancelled, binding6, option, moves, iface6, client6, stray6>>

\* DISCOVER and REQUEST; a client-id that is known gets its address again.
Request ==
    /\ pc4 = "ask" /\ 4 \in lan /\ ~cancelled
    /\ binding' \in (IF binding = NoAddr THEN Pool ELSE {binding})
    /\ ack' = [ip |-> binding', gw |-> option]
    /\ pc4' = "drop"
    /\ revoked' = FALSE
    /\ V4Rest /\ UNCHANGED <<iface, lease, routers, unowned, stray, faults>>

\* No client, no answer, or one that never arrives although the server counts on it.
RequestFails ==
    /\ pc4 = "ask"
    /\ (cancelled /\ UNCHANGED faults) \/ Fault
    /\ \/ UNCHANGED <<binding, unowned>>
       \/ /\ 4 \in lan /\ binding' \in (IF binding = NoAddr THEN Pool ELSE {binding})
          /\ unowned' = TRUE
    /\ pc4' = "backoff"
    /\ V4Rest /\ UNCHANGED <<revoked, iface, ack, lease, routers, stray>>

\* applyV4Lease, first half: every other address goes; failed removals are ignored.
DropOthers ==
    /\ pc4 = "drop"
    /\ \/ iface' = iface \cap {ack.ip} /\ stray' = stray \cap {ack.ip} /\ UNCHANGED faults
       \/ Fault /\ UNCHANGED iface /\ stray' = stray \cup (iface \ {ack.ip})
    /\ pc4' = "add"
    /\ V4Rest /\ UNCHANGED <<revoked, binding, ack, lease, routers, unowned>>

\* Mutant: the channel is taken to have room always.
AddAddressUnbounded ==
    /\ pc4 = "add"
    /\ iface' = iface \cup {ack.ip}
    /\ lease' = ack /\ ack' = NoLease /\ unowned' = FALSE
    /\ routers' = IF ack.gw = NoGw THEN routers
                  ELSE Append(routers, ack.gw)
    /\ pc4' = "bound"
    /\ stray' = stray \ {ack.ip}
    /\ V4Rest /\ UNCHANGED <<revoked, binding, faults>>

\* Second half: the address is there, and extroute is told of the router if the
\* channel has room.  From here on the defers own the lease.
AddAddress ==
    /\ pc4 = "add"
    /\ iface' = iface \cup {ack.ip}
    /\ lease' = ack /\ ack' = NoLease /\ unowned' = FALSE
    /\ routers' = IF ack.gw = NoGw \/ Len(routers) = RoutersCap THEN routers
                  ELSE Append(routers, ack.gw)
    /\ pc4' = "bound"
    /\ stray' = stray \ {ack.ip}
    /\ V4Rest /\ UNCHANGED <<revoked, binding, faults>>

\* Before the defers are in place the lease is left to itself; a renewed one
\* leads to the release of the one before.
ApplyFails ==
    /\ pc4 \in {"drop", "add"}
    /\ Fault
    /\ pc4' = (IF lease = NoLease THEN "backoff" ELSE "release")
    /\ unowned' = (unowned \/ lease = NoLease)
    /\ ack' = NoLease
    /\ V4Rest /\ UNCHANGED <<revoked, binding, iface, lease, routers, stray>>

\* T1 has come and the server confirms.
Renew ==
    /\ pc4 = "bound" /\ ~cancelled /\ binding = lease.ip
    /\ ack' = [ip |-> binding, gw |-> option]
    /\ pc4' = "drop"
    /\ V4Rest /\ UNCHANGED <<revoked, binding, iface, lease, routers, unowned, stray, faults>>

\* Cancelled, refused or unanswered: out through the defers.
RenewEnds ==
    /\ pc4 = "bound"
    /\ \/ (cancelled \/ binding # lease.ip) /\ UNCHANGED faults
       \/ Fault
    /\ pc4' = "release"
    /\ V4Rest /\ UNCHANGED <<revoked, binding, iface, ack, lease, routers, unowned, stray>>

\* Mutant: a lease whose renewal fails is not released.
ReleaseOnCancel ==
    /\ pc4 = "release"
    /\ binding' = IF cancelled /\ binding = lease.ip THEN NoAddr ELSE binding
    /\ pc4' = "unapply"
    /\ V4Rest /\ UNCHANGED <<revoked, iface, ack, lease, routers, unowned, stray, faults>>

\* DHCPRELEASE is one packet that nobody acknowledges.
releaseV4 ==
    /\ pc4 = "release"
    /\ \/ /\ binding' = IF binding = lease.ip THEN NoAddr ELSE binding
          /\ UNCHANGED <<unowned, faults>>
       \/ Fault /\ unowned' = TRUE /\ UNCHANGED binding
    /\ pc4' = "unapply"
    /\ V4Rest /\ UNCHANGED <<revoked, iface, ack, lease, routers, stray>>

\* Mutant: the address stays for the next lease to replace.
UnapplyNothing ==
    /\ pc4 = "unapply"
    /\ lease' = NoLease /\ pc4' = "backoff"
    /\ V4Rest /\ UNCHANGED <<revoked, binding, iface, ack, routers, unowned, stray, faults>>

unapplyV4Lease ==
    /\ pc4 = "unapply"
    /\ \/ iface' = iface \ {lease.ip} /\ stray' = stray \ {lease.ip} /\ UNCHANGED faults
       \/ Fault /\ UNCHANGED iface /\ stray' = stray \cup {lease.ip}
    /\ lease' = NoLease /\ pc4' = "backoff"
    /\ V4Rest /\ UNCHANGED <<revoked, binding, ack, routers, unowned>>

\* runFamily: try again, unless the context has ended.
Retry4 ==
    /\ pc4 = "backoff"
    /\ pc4' = (IF cancelled THEN "done" ELSE "ask")
    /\ V4Rest
    /\ UNCHANGED <<revoked, binding, iface, ack, lease, routers, unowned, stray, faults>>

Client4 ==
    \/ Request \/ RequestFails \/ DropOthers \/ AddAddress \/ ApplyFails
    \/ Renew \/ RenewEnds \/ releaseV4 \/ unapplyV4Lease \/ Retry4

-----------------------------------------------------------------------------
(* runV6Once *)

V6Rest == UNCHANGED <<config, cancelled, binding, option, moves, iface, client4, routers,
                      unowned, revoked, stray>>

\* SOLICIT and REQUEST.
Solicit ==
    /\ pc6 = "solicit" /\ 6 \in lan /\ ~cancelled
    /\ lease6' = Pool6 /\ got' = Pool6 /\ binding6' = TRUE
    /\ pc6' = "apply"
    /\ V6Rest /\ UNCHANGED <<iface6, stray6, faults>>

\* No client, no answer, or a reply that never arrives.
SolicitFails ==
    /\ pc6 = "solicit"
    /\ (cancelled /\ UNCHANGED faults) \/ Fault
    /\ UNCHANGED binding6 \/ (6 \in lan /\ binding6' = TRUE)
    /\ pc6' = "backoff"
    /\ V6Rest /\ UNCHANGED <<iface6, got, lease6, stray6>>

\* applyV6Addrs, one address at a time; the removal is deferred after the last.
ApplyV6(a) ==
    /\ pc6 = "apply" /\ a \in got
    /\ iface6' = iface6 \cup {a} /\ stray6' = stray6 \ {a}
    /\ got' = got \ {a}
    /\ pc6' = (IF got' = {} THEN "bound" ELSE "apply")
    /\ V6Rest /\ UNCHANGED <<binding6, lease6, faults>>

ApplyV6Fails ==
    /\ pc6 = "apply"
    /\ Fault
    /\ stray6' = stray6 \cup (iface6 \cap lease6)
    /\ got' = {} /\ lease6' = {} /\ pc6' = "backoff"
    /\ V6Rest /\ UNCHANGED <<binding6, iface6>>

\* Bound for good: the hourly tick does nothing, only the context ends it, and no
\* release is sent ("a release on shutdown is not as important as for v4").
unapplyV6Addrs ==
    /\ pc6 = "bound" /\ cancelled
    /\ \/ iface6' = iface6 \ lease6 /\ UNCHANGED <<stray6, faults>>
       \/ Fault /\ UNCHANGED iface6 /\ stray6' = stray6 \cup lease6
    /\ lease6' = {} /\ pc6' = "backoff"
    /\ V6Rest /\ UNCHANGED <<binding6, got>>

Retry6 ==
    /\ pc6 = "backoff"
    /\ pc6' = (IF cancelled THEN "done" ELSE "solicit")
    /\ V6Rest /\ UNCHANGED <<binding6, iface6, got, lease6, stray6, faults>>

Client6 ==
    \/ Solicit \/ SolicitFails \/ ApplyV6Fails \/ unapplyV6Addrs \/ Retry6
    \/ \E a \in got : ApplyV6(a)

-----------------------------------------------------------------------------
Server == RouterMoves \/ BindingEnds \/ Binding6Ends

DNext == Server \/ Cancel \/ Client4 \/ Client6

DSpec == DInit /\ [][DNext]_dvars

-----------------------------------------------------------------------------
DTypeOK ==
    /\ refresh \in BOOLEAN /\ lan \in Lans /\ cancelled \in BOOLEAN
    /\ binding \in Pool \cup {NoAddr} /\ binding6 \in BOOLEAN /\ option \in Routers \cup {NoGw}
    /\ iface \subseteq Addresses /\ iface6 \subseteq Pool6
    /\ pc4 \in {"ask", "drop", "add", "bound", "release", "unapply", "backoff", "done"}
    /\ ack \in Leases \cup {NoLease} /\ lease \in Leases \cup {NoLease}
    /\ pc6 \in {"solicit", "apply", "bound", "backoff", "done"}
    /\ got \subseteq lease6 /\ lease6 \subseteq Pool6
    /\ routers \in Seq(Routers) /\ Len(routers) <= RoutersCap
    /\ unowned \in BOOLEAN /\ revoked \in BOOLEAN
    /\ stray \subseteq Addresses /\ stray6 \subseteq Pool6
    /\ moves \in 0..MaxMoves /\ faults \in 0..MaxFaults

\* Supervisor.Run returns when both clients have.
Ended == pc4 = "done" /\ pc6 = "done"

\* F-20: whatever the supervisor was doing when the context ended, once it has
\* returned the IPv4 server holds no lease for it and the interface no leased
\* address (runV4Once and runV6Once, order of defers).  Left may be: an IPv4 lease
\* whose ACK or RELEASE was lost or whose first application failed (unowned), an
\* address whose removal failed (stray, stray6), an IPv6 address of a reply that
\* was applied in part (stray6), and the IPv6 server's lease, which is never
\* released (binding6, of which nothing is claimed).
ClientsLeaveNothing ==
    Ended => /\ binding = NoAddr \/ unowned
             /\ iface \subseteq {Boot} \cup stray
             /\ iface6 \subseteq stray6

\* The interface speaks with no IPv4 address that is not docker's or leased to it:
\* an address the server may hand to another host would be in use twice.  The code
\* leaves three ways for that: between RELEASE and removal, from the moment the
\* server ends the lease on its own until a renewal notices, and an address whose
\* removal failed.  Whatever else the interface has is the one present lease's
\* (applyV4Lease, releaseV4, unapplyV4Lease).
NoBorrowedAddress ==
    \A a \in iface \ ({Boot} \cup stray) :
        a = lease.ip /\ (a = binding \/ pc4 = "unapply" \/ revoked)
=============================================================================
