SPECIFICATION FairSpec
CONSTANTS
    r1 = r1
    r2 = r2
    c1 = c1
    c2 = c2
    q1 = q1
    q2 = q2
    Digests = {1, 2}
    Recordings = {r1}
    Objects <- ObjectsShared
    Deletable = {1}
    Collectors = {c1}
    Reconcilers = {}
    ClaimTtl = 1
    MinimumAge = 1
    PageLimit = 1
    Inventoried = {}
    MaxClock = 2
    MaxFiles = 1
    MaxClaims = 2
CHECK_DEADLOCK FALSE
PROPERTIES
    GcClaimIsResolved
