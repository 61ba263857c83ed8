SPECIFICATION FairSpec
CONSTANTS
    n1 = n1  n2 = n2  n3 = n3
    None = None
    Nodes = {n1, n2, n3}
    Callers = {c1}
    Admins = {e1}
    Lists <- Rolling
    MaxTroubles = 2
INVARIANT TypeOK
INVARIANT EvictedUnlessWanted
INVARIANT EvictionReachesPeers
PROPERTY EvictionsSettle
