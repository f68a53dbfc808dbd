\* The dependents of a replaced service-anchor: nothing fails, docker may refuse.
SPECIFICATION DFairSpec
CONSTANTS
    target = target  sa = sa  s1 = s1  d1 = d1
    Target = target
    Anchor = sa
    Siblings = {s1}
    Deps = {d1}
    AutoFix = TRUE
    MaxOps = 2
    MaxQueue = 2
    MaxMishaps = 0
PROPERTIES DependentsReturn
CHECK_DEADLOCK FALSE
