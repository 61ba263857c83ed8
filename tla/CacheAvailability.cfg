SPECIFICATION TrafficSpec
CONSTANTS
    a1 = a1  a2 = a2  a3 = a3
    p1 = p1  p2 = p2
    r1 = r1  r2 = r2  e1 = e1
    t1 = t1  t2 = t2  t3 = t3
    None = None
    Adapters = {a1}
    Requests = {p1}
    Revalidators = {r1}
    Evictors = {e1}
    TmpDirs = {t1, t2, t3}
    TmpOf <- OwnTmp
    OriginKinds <- S3ThenNoETag
    FirstContents <- CompleteOrMissing
    PublishSets <- NothingNew
    Revalidate = TRUE
    ConfigSize = 0
    WeightSize <- EqualWeights
    MaxSize = 1
    MaxVersion = 1
    MaxFailures = 1
    MaxCrashes = 1
INVARIANT TypeOK
INVARIANT TrackedOrInFlight
INVARIANT IndexConsistent
PROPERTY KeepsAvailable
