\* A foreign target comes and goes under its managed service-anchor.
SPECIFICATION DFairSpec
CONSTANTS
    target = target  sa = sa  s1 = s1  d1 = d1
    Target = target
    Anchor = sa
    Siblings = {s1}
    Deps = {d1}
    AutoFix = TRUE
    MaxOps = 3
    MaxQueue = 2
    MaxMishaps = 1
INVARIANTS TypeOK NobodyWaits InPlaceWhenQuiet DependentsFollow
PROPERTIES SparesTheCurrent AnchorFollows NoSilentOrphan
CHECK_DEADLOCK FALSE
