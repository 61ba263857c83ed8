SPECIFICATION FairSpec
CONSTANTS
    a1 = a1  a2 = a2  a3 = a3
    p1 = p1  p2 = p2
    r1 = r1  r2 = r2  e1 = e1
    t1 = t1  t2 = t2  t3 = t3
    None = None
    Adapters = {a1}
    Requests = {p1, p2}
    Revalidators = {r1, r2}
    Evictors = {}
    TmpDirs = {t1, t2, t3}
    TmpOf <- OwnTmp
    OriginKinds <- HTTP
    FirstContents <- Complete
    PublishSets <- BothFiles
    Revalidate = TRUE
    ConfigSize = 0
    WeightSize <- EqualWeights
    MaxSize = 1
    MaxVersion = 2
    MaxFailures = 0
    MaxCrashes = 0
INVARIANT SingleFlight
INVARIANT SingleRevalidation
INVARIANT TrackedOrInFlight
PROPERTY ImplementsService
PROPERTY EnsureReturns
PROPERTY RevalidationEnds
