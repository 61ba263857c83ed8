SPECIFICATION Spec
CONSTANTS
    a1 = a1  a2 = a2  a3 = a3
    p1 = p1  p2 = p2
    r1 = r1  r2 = r2  e1 = e1
    t1 = t1  t2 = t2  t3 = t3
    None = None
    Adapters = {a1, a2, a3}
    Requests = {p1}
    Revalidators = {}
    Evictors = {}
    TmpDirs = {t1, t2, t3}
    TmpOf <- SharedTmp
    OriginKinds <- S3ThenNoETag
    FirstContents <- Complete
    PublishSets <- NothingNew
    Revalidate = FALSE
    ConfigSize = 1
    WeightSize <- MixedWeights
    MaxSize = 4
    MaxVersion = 1
    MaxFailures = 1
    MaxCrashes = 1
INVARIANT WithinMaxSize
INVARIANT TrackedOrInFlight
