SPECIFICATION ReconcilerFairSpec
CONSTANTS
    r1 = r1
    r2 = r2
    c1 = c1
    c2 = c2
    q1 = q1
    q2 = q2
    Digests = {1, 2, 3}
    Recordings = {r1, r2}
    Objects <- ObjectsShared
    Deletable = {1}
    Collectors = {c1}
    Reconcilers = {q1, q2}
    ClaimTtl = 1
    MinimumAge = 1
    PageLimit = 1
    Inventoried = {1}
    MaxClock = 1
    MaxFiles = 2
    MaxClaims = 1
CHECK_DEADLOCK FALSE
INVARIANTS
    ReferencedIsLive
    ClaimExcludesCatalog
    FenceCoversDeletion
PROPERTIES
    OrphanRemovesOnlyClaimed
    OrphanClaimIsResolvedUnlessReput
