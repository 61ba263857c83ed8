SPECIFICATION Spec
CONSTANTS
    a1 = a1  a2 = a2  a3 = a3
    p1 = p1  p2 = p2
    r1 = r1  r2 = r2  e1 = e1
    t1 = t1  t2 = t2  t3 = t3
    None = None
    Adapters = {a1, a2, a3}
    Requests = {p1, p2}
    Revalidators = {}
    Evictors = {}
    TmpDirs = {t1, t2, t3}
    TmpOf <- SharedTmp
    OriginKinds <- HTTP
    FirstContents <- Complete
    PublishSets <- NothingNew
    Revalidate = FALSE
    ConfigSize = 0
    WeightSize <- MixedWeights
    MaxSize = 2
    MaxVersion = 1
    MaxFailures = 0
    MaxCrashes = 0
SYMMETRY GoroutineSymmetry
INVARIANT TrackedOrInFlight
INVARIANT IndexConsistent
INVARIANT MixedOnlyBySafeID
PROPERTY RoomIsMade
