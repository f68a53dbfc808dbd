\* The network-anchor moves, somebody flushes a route, a call fails, the process crashes.
SPECIFICATION FairSpec
CONSTANTS
    g1 = g1  g2 = g2  Bridge = bridge  None = None
    Gateways = {g1, g2}
    MaxMoves = 1
    MaxTampers = 1
    MaxFaults = 1
    MaxCrashes = 1
INVARIANTS TypeOK EgressGivenBack ReportsWhatHolds
PROPERTIES FollowsTheName BecomesReady
CHECK_DEADLOCK FALSE
