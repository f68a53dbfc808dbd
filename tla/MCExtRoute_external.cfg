\* Leasing, renewing and releasing under an enforced default route.
SPECIFICATION FairSpec
CONSTANTS
    boot = boot  a1 = a1  a2 = a2  u1 = u1  u2 = u2  g1 = g1  g2 = g2
    NoGw = NoGw  NoAddr = NoAddr  Bridge = Bridge
    Pool = {a1, a2}
    Boot = boot
    Pool6 = {u1, u2}
    Routers = {g1, g2}
    Static = {g1}
    Lans = {{4}, {6}}
    RoutersCap = 1
    MaxMoves = 1
    MaxFaults = 1
INVARIANTS TypeOK ClientsLeaveNothing NoBorrowedAddress
PROPERTIES RouteFollowsServer RouteEnforced
CHECK_DEADLOCK FALSE
