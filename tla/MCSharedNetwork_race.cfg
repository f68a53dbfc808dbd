\* Both goroutines of discovery; one backend comes up on the network the name
\* preference would not have chosen.
SPECIFICATION Spec
CONSTANTS
    event = event  poll = poll  b1 = b1  edge = edge  transit = transit  NoNet = NoNet
    Goroutines = {event, poll}
    Backends = {b1}
    candidates <- MCCandidates
    Transit = {transit}
    Pinned = NoNet
INVARIANT SettledOnABackend
CHECK_DEADLOCK FALSE
