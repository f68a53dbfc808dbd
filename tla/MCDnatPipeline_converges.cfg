\* Two containers in one netns; silent changes, and one failure: of a map push, a
\* list, an inspect or the event stream.
SPECIFICATION PFairSpec
CONSTANTS
    c1 = c1  c2 = c2  ipA = ipA  ipB = ipB  None = None
    Containers = {c1, c2}
    WrapTarget <- MCWrapTarget
    Ports = {1}
    IP4 = {ipA, ipB}
    IP6 = {}
    Rules <- MCRules
    V6Off = {}
    ChanCap = 1
    MaxChanges = 2
    MaxPending = 1
    MaxListFaults = 1
    MaxStreamFaults = 1
    MaxSetMapFaults = 1
    MaxFlushFaults = 0
    MaxRestarts = 0
    MaxFlows = 0
    MaxFaults = 1
    SilentChanges = TRUE
INVARIANT PathIsTheLastSent
PROPERTY ConvergesToDocker
CHECK_DEADLOCK FALSE
