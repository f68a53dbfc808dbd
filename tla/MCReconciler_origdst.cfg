\* Nothing fails; conntrack -d means --orig-dst.
SPECIFICATION Spec
CONSTANTS
    c1 = c1  c2 = c2  ipA = ipA  ipB = ipB  ip6A = ip6A  None = None
    Containers = {c1, c2}
    Ports = {1, 2}
    IP4 = {ipA, ipB}
    IP6 = {}
    Rules <- MCRules
    V6Off = {}
    MaxSetMapFaults = 0
    MaxFlushFaults = 0
    MaxRestarts = 0
    MaxFlows = 1
INVARIANT NoFlowToFormerBackend
CHECK_DEADLOCK FALSE
