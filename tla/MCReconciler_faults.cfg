\* Every fault and both families against tracked flows.
SPECIFICATION Spec
CONSTANTS
    c1 = c1  c2 = c2  ipA = ipA  ipB = ipB  ip6A = ip6A  None = None
    Containers = {c1, c2}
    Ports = {1, 2}
    IP4 = {ipA, ipB}
    IP6 = {ip6A}
    Rules <- MCRules
    V6Off = {c2}
    MaxSetMapFaults = 1
    MaxFlushFaults = 1
    MaxRestarts = 1
    MaxFlows = 1
SYMMETRY Sym
INVARIANTS TypeOK KernelMatchesLast StaleFlowsAreAsked
PROPERTIES PortsMoveStraight ImplementsPortTable
CHECK_DEADLOCK FALSE
