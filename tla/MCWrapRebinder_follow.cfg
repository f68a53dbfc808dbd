\* Two anchors share a target that comes and goes; one fault at any docker call.
SPECIFICATION FairSpec
CONSTANTS
    t1 = t1  a1 = a1  a2 = a2
    Targets = {t1}
    Anchors = {a1, a2}
    TargetOf <- MCTargetOf
    MaxOps = 3
    MaxQueue = 2
    MaxFaults = 1
INVARIANTS TypeOK PoolKnowsTheAnchors JoinedWhenQuiet
PROPERTIES RecheckSparesTheHealthy FollowsWhenHeard
