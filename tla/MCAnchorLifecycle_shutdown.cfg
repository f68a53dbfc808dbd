\* A signal at every stage; startup calls, lists, the stream, Teardown
\* and one lease fail.
SPECIFICATION LFairSpec
CONSTANTS
    c1 = c1  ipA = ipA  None = None
    Containers = {c1}
    WrapTarget <- MCWrapTarget
    IP4 = {ipA}
    IP6 = {}
    ChanCap = 1
    MaxChanges = 0
    MaxPending = 0
    MaxListFaults = 1
    MaxStreamFaults = 1
    SilentChanges = FALSE
    MaxStartFaults = 1
    MaxTeardownFaults = 1
    MaxLeases = 2
    MaxLeaseFaults = 1
INVARIANTS LTypeOK ExitLeavesNothing
PROPERTIES SignalEnds OnlyAPollPanics
CHECK_DEADLOCK FALSE
