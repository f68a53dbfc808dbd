---------------------------- MODULE ExtRouteProofs ----------------------------
(***************************************************************************)
(* Proofs about the DHCP supervisor next to the route enforcer, for any    *)
(* servers, gateways, channel capacity and numbers of failures: types, the *)
(* addresses in use, and what is left when the supervisor has returned.    *)
(***************************************************************************)
EXTENDS ExtRoute, TLAPS

\* The addresses of the interface: docker's, the present lease's, and those the
\* code has lost sight of.
AddressInv ==
    /\ iface \subseteq {Boot, lease.ip} \cup stray
    /\ \A a \in iface \ (stray \cup {Boot}) :
          a = binding \/ pc4 = "unapply" \/ revoked

\* Where the responsibility for the server's binding lies at each label: with the
\* reply at hand, with the defers, or with nobody.
BindingInv ==
    /\ pc4 \in {"ask", "backoff", "done"} => lease = NoLease
    /\ pc4 \in {"drop", "add"} => /\ ack \in Leases /\ binding \in {NoAddr, ack.ip}
                                  /\ lease = NoLease \/ lease.ip = ack.ip
    /\ pc4 \in {"bound", "release", "unapply"} => lease \in Leases
    /\ pc4 \in {"bound", "release"} => binding \in {NoAddr, lease.ip}
    /\ pc4 \in {"drop", "add"} => binding = ack.ip \/ revoked
    /\ pc4 \in {"bound", "release"} => binding = lease.ip \/ revoked
    /\ pc4 \in {"ask", "unapply", "backoff", "done"} => binding = NoAddr \/ unowned

\* The IPv6 addresses: those of the reply and those only half applied.
SixInv ==
    /\ iface6 \subseteq lease6 \cup stray6
    /\ pc6 \in {"solicit", "backoff", "done"} => lease6 = {}
    /\ pc6 # "apply" => got = {}

DInv == DTypeOK /\ AddressInv /\ BindingInv /\ SixInv

-----------------------------------------------------------------------------
(* Types *)

\* The configuration and the server's first mood are of their types.
LEMMA DInitTypeOK == DhcpAssumption /\ DInit => DTypeOK
<1> SUFFICES ASSUME DhcpAssumption, DInit PROVE DTypeOK
  OBVIOUS
<1>1. /\ refresh \in BOOLEAN /\ cancelled \in BOOLEAN /\ unowned \in BOOLEAN
      /\ revoked \in BOOLEAN /\ binding6 \in BOOLEAN
  BY Zenon DEF DInit
<1>2. pc4 \in {"ask", "done"} /\ pc6 \in {"solicit", "done"}
  BY DEF DInit
<1>3. moves \in 0..MaxMoves /\ faults \in 0..MaxFaults
  BY DEF DInit, DhcpAssumption
<1>4. routers \in Seq(Routers) /\ Len(routers) <= RoutersCap
  BY DEF DInit, DhcpAssumption
<1> QED BY <1>1, <1>2, <1>3, <1>4 DEF DInit, DTypeOK, Addresses

\* A fault is counted within its bound.
LEMMA FaultType == DhcpAssumption /\ faults \in 0..MaxFaults /\ Fault => faults' \in 0..MaxFaults
BY DEF DhcpAssumption, Fault

\* Every step of the server, the clients and main keeps the types.
LEMMA DStepTypeOK == DhcpAssumption /\ DInv /\ DNext => DTypeOK'
<1> SUFFICES ASSUME DhcpAssumption, DTypeOK, BindingInv, SixInv, DNext PROVE DTypeOK'
  BY DEF DInv
<1> USE FaultType DEF Addresses
<1>1. CASE RouterMoves
  <2>1. moves' \in 0..MaxMoves
    BY <1>1 DEF RouterMoves, ServerChange, DTypeOK, DhcpAssumption
  <2> QED BY <1>1, <2>1 DEF RouterMoves, ServerChange, DTypeOK, config, client4, client6
<1>2. CASE BindingEnds
  <2>1. moves' \in 0..MaxMoves
    BY <1>2 DEF BindingEnds, ServerChange, DTypeOK, DhcpAssumption
  <2> QED BY <1>2, <2>1 DEF BindingEnds, ServerChange, DTypeOK, config, client4, client6
<1>2a. CASE Binding6Ends
  <2>1. moves' \in 0..MaxMoves
    BY <1>2a DEF Binding6Ends, ServerChange, DTypeOK, DhcpAssumption
  <2>2. binding6' \in BOOLEAN /\ revoked' \in BOOLEAN
    BY <1>2a, Zenon DEF Binding6Ends, DTypeOK
  <2> QED BY <1>2a, <2>1, <2>2 DEF Binding6Ends, ServerChange, DTypeOK, config, client4, client6
<1>3. CASE Cancel
  BY <1>3 DEF Cancel, DTypeOK, config, server, client4, client6
<1>4. CASE Request
  <2>1. binding' \in Pool /\ ack' \in Leases
    BY <1>4 DEF Request, DTypeOK, Leases
  <2> QED BY <1>4, <2>1 DEF Request, V4Rest, DTypeOK, config, client6
<1>5. CASE RequestFails
  <2>1. faults' \in 0..MaxFaults /\ binding' \in Pool \cup {NoAddr}
    BY <1>5 DEF RequestFails, DTypeOK
  <2>2. unowned' \in BOOLEAN
    BY <1>5 DEF RequestFails, DTypeOK
  <2> QED BY <1>5, <2>1, <2>2 DEF RequestFails, V4Rest, DTypeOK, config, client6
<1>6. CASE DropOthers
  <2>1. faults' \in 0..MaxFaults /\ iface' \subseteq Addresses /\ stray' \subseteq Addresses
    BY <1>6 DEF DropOthers, DTypeOK
  <2> QED BY <1>6, <2>1 DEF DropOthers, V4Rest, DTypeOK, config, client6
<1>7. CASE AddAddress
  <2>1. ack \in Leases
    BY <1>7 DEF AddAddress, BindingInv
  <2>2. ack.ip \in Pool /\ ack.gw \in Routers \cup {NoGw}
    BY <2>1 DEF Leases
  <2>3. iface' \subseteq Addresses /\ stray' \subseteq Addresses /\ lease' \in Leases
    BY <1>7, <2>1, <2>2 DEF AddAddress, DTypeOK
  <2>4. routers' \in Seq(Routers) /\ Len(routers') <= RoutersCap
    <3>1. CASE ack.gw = NoGw \/ Len(routers) = RoutersCap
      BY <1>7, <3>1 DEF AddAddress, DTypeOK
    <3>2. CASE ~(ack.gw = NoGw \/ Len(routers) = RoutersCap)
      <4>1. routers' = Append(routers, ack.gw) /\ ack.gw \in Routers
        BY <1>7, <2>2, <3>2 DEF AddAddress
      <4>2. Len(routers) <= RoutersCap /\ Len(routers) # RoutersCap /\ routers \in Seq(Routers)
        BY <3>2 DEF DTypeOK
      <4> QED BY <4>1, <4>2 DEF DhcpAssumption
    <3> QED BY <3>1, <3>2
  <2>5. unowned' \in BOOLEAN /\ ack' = NoLease /\ pc4' = "bound"
    BY <1>7 DEF AddAddress
  <2> QED BY <1>7, <2>3, <2>4, <2>5 DEF AddAddress, V4Rest, DTypeOK, config, client6
<1>8. CASE ApplyFails
  <2>1. faults' \in 0..MaxFaults /\ pc4' \in {"backoff", "release"} /\ ack' = NoLease
    BY <1>8 DEF ApplyFails, DTypeOK
  <2>2. unowned' \in BOOLEAN
    BY <1>8, Zenon DEF ApplyFails, DTypeOK
  <2> QED BY <1>8, <2>1, <2>2 DEF ApplyFails, V4Rest, DTypeOK, config, client6
<1>9. CASE Renew
  <2>1. lease \in Leases /\ binding' = lease.ip
    BY <1>9 DEF Renew, BindingInv, V4Rest
  <2>2. ack' \in Leases /\ binding' \in Pool
    BY <1>9, <2>1 DEF Renew, DTypeOK, Leases, V4Rest
  <2> QED BY <1>9, <2>2 DEF Renew, V4Rest, DTypeOK, config, client6
<1>10. CASE RenewEnds
  <2>1. faults' \in 0..MaxFaults
    BY <1>10 DEF RenewEnds, DTypeOK
  <2> QED BY <1>10, <2>1 DEF RenewEnds, V4Rest, DTypeOK, config, client6
<1>11. CASE releaseV4
  <2>1. faults' \in 0..MaxFaults /\ binding' \in Pool \cup {NoAddr} /\ unowned' \in BOOLEAN
    BY <1>11 DEF releaseV4, DTypeOK
  <2> QED BY <1>11, <2>1 DEF releaseV4, V4Rest, DTypeOK, config, client6
<1>12. CASE unapplyV4Lease
  <2>1. faults' \in 0..MaxFaults
    BY <1>12 DEF unapplyV4Lease, DTypeOK
  <2>2. iface' \subseteq Addresses
    BY <1>12 DEF unapplyV4Lease, DTypeOK
  <2>3. lease.ip \in Addresses
    BY <1>12 DEF unapplyV4Lease, BindingInv, Leases
  <2>4. stray' \subseteq Addresses
    BY <1>12, <2>3 DEF unapplyV4Lease, DTypeOK
  <2> QED BY <1>12, <2>1, <2>2, <2>4 DEF unapplyV4Lease, V4Rest, DTypeOK, config, client6
<1>13. CASE Retry4
  <2>1. pc4' \in {"done", "ask"}
    BY <1>13 DEF Retry4
  <2> QED BY <1>13, <2>1 DEF Retry4, V4Rest, DTypeOK, config, client6
<1>14. CASE Solicit
  BY <1>14 DEF Solicit, V6Rest, DTypeOK, config, server, client4
<1>15. CASE SolicitFails
  <2>1. faults' \in 0..MaxFaults
    BY <1>15 DEF SolicitFails, DTypeOK
  <2>2. binding6' \in BOOLEAN
    BY <1>15, Zenon DEF SolicitFails, DTypeOK
  <2> QED BY <1>15, <2>1, <2>2 DEF SolicitFails, V6Rest, DTypeOK, config, server, client4
<1>16. ASSUME NEW a \in got, ApplyV6(a) PROVE DTypeOK'
  <2>1. pc6' \in {"bound", "apply"}
    BY <1>16 DEF ApplyV6
  <2> QED BY <1>16, <2>1 DEF ApplyV6, V6Rest, DTypeOK, config, server, client4
<1>17. CASE ApplyV6Fails
  <2>1. faults' \in 0..MaxFaults
    BY <1>17 DEF ApplyV6Fails, DTypeOK
  <2> QED BY <1>17, <2>1 DEF ApplyV6Fails, V6Rest, DTypeOK, config, server, client4
<1>18. CASE unapplyV6Addrs
  <2>1. faults' \in 0..MaxFaults
    BY <1>18 DEF unapplyV6Addrs, DTypeOK
  <2>2. iface6' \subseteq Pool6 /\ stray6' \subseteq Pool6 /\ lease6' = {} /\ got' = {}
    BY <1>18 DEF unapplyV6Addrs, DTypeOK, SixInv
  <2> QED BY <1>18, <2>1, <2>2 DEF unapplyV6Addrs, V6Rest, DTypeOK, config, server, client4
<1>19. CASE Retry6
  <2>1. pc6' \in {"done", "solicit"}
    BY <1>19 DEF Retry6
  <2> QED BY <1>19, <2>1 DEF Retry6, V6Rest, DTypeOK, config, server, client4
<1> QED
  BY <1>1, <1>2, <1>2a, <1>3, <1>4, <1>5, <1>6, <1>7, <1>8, <1>9, <1>10, <1>11, <1>12, <1>13,
     <1>14, <1>15, <1>16, <1>17, <1>18, <1>19
     DEF DNext, Server, Client4, Client6

-----------------------------------------------------------------------------
(* Bindings and addresses *)

\* Every lease that is taken is either on its way to the defers, owned by them,
\* or on record as nobody's.
LEMMA StepBindingInv == DhcpAssumption /\ DInv /\ DNext => BindingInv'
<1> SUFFICES ASSUME DhcpAssumption, DTypeOK, BindingInv, DNext PROVE BindingInv'
  BY DEF DInv
<1>1. CASE RouterMoves
  BY <1>1 DEF RouterMoves, ServerChange, BindingInv, client4
<1>2. CASE BindingEnds \/ Binding6Ends
  BY <1>2 DEF BindingEnds, Binding6Ends, ServerChange, BindingInv, client4
<1>3. CASE Cancel
  BY <1>3 DEF Cancel, BindingInv, server, client4
<1>4. CASE Request
  <2>1. binding' \in Pool /\ ack' \in Leases /\ ack'.ip = binding'
    BY <1>4 DEF Request, DTypeOK, Leases
  <2>2. pc4' = "drop" /\ lease' = NoLease
    BY <1>4 DEF Request, BindingInv
  <2> QED BY <2>1, <2>2 DEF BindingInv
<1>5. CASE RequestFails
  <2>1. pc4' = "backoff" /\ lease' = NoLease
    BY <1>5 DEF RequestFails, BindingInv
  <2>2. binding' = NoAddr \/ unowned'
    BY <1>5 DEF RequestFails, BindingInv
  <2> QED BY <2>1, <2>2 DEF BindingInv
<1>6. CASE DropOthers
  BY <1>6 DEF DropOthers, BindingInv
<1>7. CASE AddAddress
  <2>1. ack \in Leases /\ binding \in {NoAddr, ack.ip}
    BY <1>7 DEF AddAddress, BindingInv
  <2>2. lease' = ack /\ binding' = binding /\ pc4' = "bound" /\ revoked' = revoked
    BY <1>7 DEF AddAddress
  <2>3. binding = ack.ip \/ revoked
    BY <1>7 DEF AddAddress, BindingInv
  <2> QED BY <2>1, <2>2, <2>3 DEF BindingInv
<1>8. CASE ApplyFails
  <2>1. binding \in {NoAddr, ack.ip} /\ (lease = NoLease \/ lease.ip = ack.ip)
        /\ binding' = binding /\ lease' = lease
    BY <1>8 DEF ApplyFails, BindingInv
  <2>2. CASE lease = NoLease
    <3>1. pc4' = "backoff" /\ unowned'
      BY <1>8, <2>2 DEF ApplyFails
    <3> QED BY <2>1, <2>2, <3>1 DEF BindingInv
  <2>3. CASE lease # NoLease
    <3>1. pc4' = "release" /\ lease \in Leases /\ revoked' = revoked
      BY <1>8, <2>3 DEF ApplyFails, DTypeOK
    <3>2. binding = ack.ip \/ revoked
      BY <1>8 DEF ApplyFails, BindingInv
    <3> QED BY <2>1, <2>3, <3>1, <3>2 DEF BindingInv
  <2> QED BY <2>2, <2>3
<1>9. CASE Renew
  <2>1. lease \in Leases /\ binding' = lease.ip /\ lease' = lease /\ pc4' = "drop"
    BY <1>9 DEF Renew, BindingInv
  <2>2. ack' \in Leases /\ ack'.ip = binding'
    BY <1>9, <2>1 DEF Renew, DTypeOK, Leases, V4Rest
  <2> QED BY <2>1, <2>2 DEF BindingInv
<1>10. CASE RenewEnds
  BY <1>10 DEF RenewEnds, BindingInv
<1>11. CASE releaseV4
  BY <1>11 DEF releaseV4, BindingInv
<1>12. CASE unapplyV4Lease
  BY <1>12 DEF unapplyV4Lease, BindingInv
<1>13. CASE Retry4
  BY <1>13 DEF Retry4, BindingInv
<1>14. CASE Client6
  <2>1. UNCHANGED <<binding, pc4, ack, lease, unowned, revoked>>
    BY <1>14 DEF Client6, Solicit, SolicitFails, ApplyV6, ApplyV6Fails, unapplyV6Addrs,
                 Retry6, V6Rest, server, client4
  <2> QED BY <2>1 DEF BindingInv
<1> QED
  BY <1>1, <1>2, <1>3, <1>4, <1>5, <1>6, <1>7, <1>8, <1>9, <1>10, <1>11, <1>12, <1>13, <1>14
     DEF DNext, Server, Client4

\* The interface carries no address that is neither docker's nor the lease's, and
\* uses none that is not leased to it except on its way out.
LEMMA StepAddressInv == DhcpAssumption /\ DInv /\ DNext => AddressInv'
<1> SUFFICES ASSUME DhcpAssumption, DTypeOK, AddressInv, BindingInv, DNext PROVE AddressInv'
  BY DEF DInv
<1>0. NoAddr \notin iface
  BY DEF DTypeOK, Addresses, DhcpAssumption
<1>1. CASE RouterMoves
  BY <1>1 DEF RouterMoves, ServerChange, AddressInv, client4
<1>2. CASE BindingEnds \/ Binding6Ends
  BY <1>2 DEF BindingEnds, Binding6Ends, ServerChange, AddressInv, client4
<1>3. CASE Cancel
  BY <1>3 DEF Cancel, AddressInv, server, client4
<1>4. CASE Request
  BY <1>0, <1>4 DEF Request, AddressInv, BindingInv, NoLease
<1>5. CASE RequestFails
  BY <1>0, <1>5 DEF RequestFails, AddressInv, BindingInv, NoLease
<1>6. CASE DropOthers
  BY <1>6 DEF DropOthers, AddressInv
<1>7. CASE AddAddress
  <2>1. ack \in Leases /\ (lease = NoLease \/ lease.ip = ack.ip)
    BY <1>7 DEF AddAddress, BindingInv
  <2>2. \A a \in iface : a = lease.ip => a = ack.ip
    BY <1>0, <2>1 DEF NoLease
  <2>3. /\ iface' = iface \cup {ack.ip} /\ lease' = ack /\ binding' = binding /\ pc4 = "add"
        /\ stray' = stray \ {ack.ip} /\ revoked' = revoked
    BY <1>7 DEF AddAddress
  <2>4. iface' \subseteq {Boot, lease'.ip} \cup stray'
    BY <2>2, <2>3 DEF AddressInv
  <2>5. \A a \in iface' \ (stray' \cup {Boot}) : a = binding' \/ revoked'
    BY <1>7, <2>3 DEF AddressInv, BindingInv
  <2> QED BY <2>4, <2>5 DEF AddressInv
<1>8. CASE ApplyFails
  BY <1>8 DEF ApplyFails, AddressInv
<1>9. CASE Renew
  BY <1>9 DEF Renew, AddressInv
<1>10. CASE RenewEnds
  BY <1>10 DEF RenewEnds, AddressInv
<1>11. CASE releaseV4
  BY <1>11 DEF releaseV4, AddressInv
<1>12. CASE unapplyV4Lease
  <2>1. iface' \subseteq {Boot} \cup stray'
    BY <1>12 DEF unapplyV4Lease, AddressInv
  <2> QED BY <2>1 DEF AddressInv
<1>13. CASE Retry4
  BY <1>13 DEF Retry4, AddressInv
<1>14. CASE Client6
  <2>1. UNCHANGED <<iface, binding, pc4, lease, stray, revoked>>
    BY <1>14 DEF Client6, Solicit, SolicitFails, ApplyV6, ApplyV6Fails, unapplyV6Addrs,
                 Retry6, V6Rest, server, client4
  <2> QED BY <2>1 DEF AddressInv
<1> QED
  BY <1>1, <1>2, <1>3, <1>4, <1>5, <1>6, <1>7, <1>8, <1>9, <1>10, <1>11, <1>12, <1>13, <1>14
     DEF DNext, Server, Client4

\* Every IPv6 address is one of the reply at hand or only half applied.
LEMMA StepSixInv == DInv /\ DNext => SixInv'
<1> SUFFICES ASSUME DTypeOK, SixInv, DNext PROVE SixInv'
  BY DEF DInv
<1>1. CASE Server \/ Cancel \/ Client4
  <2>1. UNCHANGED <<iface6, stray6, lease6, pc6, got>>
    BY <1>1 DEF Server, RouterMoves, BindingEnds, Binding6Ends, ServerChange, Cancel, Client4, Request,
                RequestFails, DropOthers, AddAddress, ApplyFails, Renew, RenewEnds, releaseV4,
                unapplyV4Lease, Retry4, V4Rest, client6
  <2> QED BY <2>1 DEF SixInv
<1>2. CASE Solicit
  BY <1>2 DEF Solicit, SixInv
<1>3. CASE SolicitFails
  BY <1>3 DEF SolicitFails, SixInv
<1>4. ASSUME NEW a \in got, ApplyV6(a) PROVE SixInv'
  BY <1>4 DEF ApplyV6, SixInv, DTypeOK
<1>5. CASE ApplyV6Fails
  BY <1>5 DEF ApplyV6Fails, SixInv, V6Rest
<1>6. CASE unapplyV6Addrs
  BY <1>6 DEF unapplyV6Addrs, SixInv, V6Rest
<1>7. CASE Retry6
  BY <1>7 DEF Retry6, SixInv
<1> QED BY <1>1, <1>2, <1>3, <1>4, <1>5, <1>6, <1>7 DEF DNext, Client6

-----------------------------------------------------------------------------
(* The composition with the route enforcer *)

\* The supervisor's part of a step of the whole.
LEMMA DInvariant ==
    /\ DhcpAssumption /\ Init => DInv
    /\ DhcpAssumption /\ DInv /\ [Next]_vars => DInv'
<1>1. ASSUME DhcpAssumption, Init PROVE DInv
  <2>1. DTypeOK
    BY <1>1, DInitTypeOK DEF Init
  <2>2. AddressInv /\ BindingInv /\ SixInv
    BY <1>1 DEF Init, DInit, AddressInv, BindingInv, SixInv
  <2> QED BY <2>1, <2>2 DEF DInv
<1>2. ASSUME DhcpAssumption, DInv, [Next]_vars PROVE DInv'
  <2>1. CASE DNext
    BY <1>2, <2>1, DStepTypeOK, StepBindingInv, StepAddressInv, StepSixInv DEF DInv
  <2>2. CASE Tamper \/ Manager \/ UNCHANGED vars
    <3>1. /\ UNCHANGED <<config, cancelled, binding, binding6, option, iface, iface6, client4, client6>>
          /\ UNCHANGED <<unowned, revoked, stray, stray6>>
      BY <2>2 DEF Tamper, Manager, Inspect, InspectFails, assert, Replace,
                  ReplaceFails, Tick, Receive, Stop,
                  Rest, vars, dvars, server
    <3>2. moves' \in 0..MaxMoves
      <4>1. moves' = moves \/ (moves < MaxMoves /\ moves' = moves + 1)
        BY <2>2 DEF Tamper, Manager, Inspect, InspectFails, assert, Replace,
                  ReplaceFails, Tick, Receive, Stop,
                    Rest, vars, dvars, server
      <4>2. moves \in 0..MaxMoves
        BY <1>2 DEF DInv, DTypeOK
      <4> QED BY <1>2, <4>1, <4>2 DEF DhcpAssumption
    <3>3. faults' \in 0..MaxFaults
      <4>1. faults' = faults \/ Fault
        BY <2>2 DEF Tamper, Manager, Inspect, InspectFails, assert, Replace,
                  ReplaceFails, Tick, Receive, Stop,
                    Rest, vars, dvars, server
      <4>2. faults \in 0..MaxFaults
        BY <1>2 DEF DInv, DTypeOK
      <4> QED BY <1>2, <4>1, <4>2, FaultType
    <3>4. routers' \in Seq(Routers) /\ Len(routers') <= RoutersCap
      <4>1. routers' = routers \/ (routers # <<>> /\ routers' = Tail(routers))
        BY <2>2 DEF Tamper, Manager, Inspect, InspectFails, assert, Replace,
                  ReplaceFails, Tick, Receive, Stop,
                    Rest, vars, dvars, server
      <4>2. routers \in Seq(Routers) /\ Len(routers) <= RoutersCap /\ RoutersCap \in Nat
        BY <1>2 DEF DInv, DTypeOK, DhcpAssumption
      <4> QED BY <4>1, <4>2
    <3>5. DTypeOK'
      BY <1>2, <3>1, <3>2, <3>3, <3>4 DEF DInv, DTypeOK, config, client4, client6
    <3>6. AddressInv' /\ BindingInv' /\ SixInv'
      BY <1>2, <3>1 DEF DInv, AddressInv, BindingInv, SixInv, client4, client6
    <3> QED BY <3>5, <3>6 DEF DInv
  <2> QED BY <1>2, <2>1, <2>2 DEF Next, Addressing
<1> QED BY <1>1, <1>2

\* The enforcer's variables keep their types.
LEMMA EnforcerType ==
    /\ Init /\ DTypeOK => TypeOK
    /\ TypeOK /\ DTypeOK' /\ [Next]_vars => TypeOK'
<1>1. ASSUME Init, DTypeOK PROVE TypeOK
  BY <1>1 DEF Init, TypeOK, Gateways
<1>2. ASSUME TypeOK, DTypeOK', [Next]_vars PROVE TypeOK'
  <2> USE DEF Gateways
  <2>1. CASE Addressing
    BY <1>2, <2>1 DEF Addressing, Kernel, manager, TypeOK
  <2>2. CASE Tamper
    BY <1>2, <2>2 DEF Tamper, manager, TypeOK
  <2>3. CASE Inspect
    BY <1>2, <2>3 DEF Inspect, Rest, TypeOK
  <2>4. CASE InspectFails
    BY <1>2, <2>4 DEF InspectFails, TypeOK
  <2>5. CASE assert
    <3>1. effectiveV4 \in Routers \cup Static \cup {NoGw}
      BY <1>2 DEF effectiveV4, TypeOK
    <3>2. xpc' \in {"select", "replace"} /\ want' \in {want, effectiveV4}
      BY <2>5 DEF assert
    <3> QED BY <1>2, <2>5, <3>1, <3>2 DEF assert, Rest, TypeOK
  <2>6. CASE Replace
    BY <1>2, <2>6 DEF Replace, Rest, TypeOK
  <2>7. CASE Tick
    BY <1>2, <2>7 DEF Tick, Rest, TypeOK
  <2>8. CASE Receive
    <3>1. Head(routers) \in Routers
      BY <1>2, <2>8 DEF Receive, TypeOK, DTypeOK
    <3> QED BY <1>2, <2>8, <3>1 DEF Receive, TypeOK
  <2>9. CASE Stop
    BY <1>2, <2>9 DEF Stop, Rest, TypeOK
  <2>10. CASE UNCHANGED vars
    BY <1>2, <2>10 DEF vars, manager, TypeOK
  <2>11. CASE ReplaceFails
    BY <1>2, <2>11 DEF ReplaceFails, TypeOK
  <2> QED BY <1>2, <2>1, <2>2, <2>3, <2>4, <2>5, <2>6, <2>7, <2>8, <2>9, <2>10, <2>11 DEF Next, Manager
<1> QED BY <1>1, <1>2

\* Every behaviour satisfies the invariants of both parts.
LEMMA Invariant == Spec => [](DInv /\ TypeOK)
<1>1. Init => DInv /\ TypeOK
  BY DInvariant, EnforcerType, DhcpAssumption DEF DInv
<1>2. DInv /\ TypeOK /\ [Next]_vars => (DInv /\ TypeOK)'
  BY DInvariant, EnforcerType, DhcpAssumption DEF DInv
<1> QED BY <1>1, <1>2, PTL DEF Spec

-----------------------------------------------------------------------------
\* Every variable of supervisor and enforcer keeps its type; in particular the
\* routers channel never holds more than its capacity.
THEOREM TypeCorrect == Spec => []TypeOK
BY Invariant, PTL

\* F-20: whatever the supervisor was doing when it was told to end, once it has
\* returned it has left no IPv4 lease and no leased address behind but those the
\* code has no second try for (ClientsLeaveNothing lists them).  The IPv6 server's
\* lease is never released and not part of the claim.
THEOREM NothingLeft == Spec => []ClientsLeaveNothing
<1>1. DInv => ClientsLeaveNothing
  <2> SUFFICES ASSUME DInv, Ended PROVE ClientsLeaveNothing
    BY DEF ClientsLeaveNothing
  <2>1. lease = NoLease /\ (binding = NoAddr \/ unowned) /\ lease6 = {}
    BY DEF DInv, BindingInv, SixInv, Ended
  <2>2. NoAddr \notin iface
    BY DhcpAssumption DEF DInv, DTypeOK, Addresses, DhcpAssumption
  <2>3. iface \subseteq {Boot} \cup stray
    BY <2>1, <2>2 DEF DInv, AddressInv, NoLease
  <2>4. iface6 \subseteq stray6
    BY <2>1 DEF DInv, SixInv
  <2> QED BY <2>1, <2>3, <2>4 DEF ClientsLeaveNothing
<1> QED BY <1>1, Invariant, PTL

\* The interface uses no IPv4 address but docker's and the present lease's, and
\* that one only while it is bound, until it is removed after DHCPRELEASE, or when
\* the server ended it on its own; and those whose removal failed.
THEOREM NothingBorrowed == Spec => []NoBorrowedAddress
<1>1. DInv => NoBorrowedAddress
  BY DEF DInv, AddressInv, NoBorrowedAddress
<1> QED BY <1>1, Invariant, PTL
=============================================================================
