\* The foreign stack and the follower come and go; every fault happens once, the
\* sidecar crashes once, and the follower is restarted after a reattach.
SPECIFICATION FairSpec
CONSTANTS
    t1 = t1  t2 = t2
    Targets = {t1}
    QuietPolls = 2
    MaxPolls = 3
    ConnectAttempts = 2
    Restart = TRUE
    Unobserved = FALSE
    MaxNets = 3
    MaxFollowers = 2
    MaxOps = 4
    MaxQueue = 3
    MaxApiFaults = 1
    MaxInUse = 1
    MaxStreamFaults = 1
    MaxCrashes = 1
    MaxRestarts = 1
INVARIANTS TypeOK ReadyAfterQuietWindow ParkedTellsTheTruth LetGoWhenQuiet
PROPERTIES StaysAttached LetsGo
CHECK_DEADLOCK FALSE
