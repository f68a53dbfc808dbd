\* A signal while a snapshot is being sent; nothing fails.
SPECIFICATION LSpec
CONSTANTS
    c1 = c1  ipA = ipA  None = None
    Containers = {c1}
    WrapTarget <- MCWrapTarget
    IP4 = {ipA}
    IP6 = {}
    ChanCap = 1
    MaxChanges = 0
    MaxPending = 0
    MaxListFaults = 0
    MaxStreamFaults = 0
    SilentChanges = FALSE
    MaxStartFaults = 0
    MaxTeardownFaults = 0
    MaxLeases = 1
    MaxLeaseFaults = 0
INVARIANT CleanShutdown
CHECK_DEADLOCK FALSE
