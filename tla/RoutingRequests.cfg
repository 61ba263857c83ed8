SPECIFICATION FairSpec
CONSTANTS
    n1 = n1  n2 = n2  n3 = n3
    a1 = a1  a2 = a2  a3 = a3
    m = m  b = b  v = v
    c1 = c1  c2 = c2  g1 = g1  g2 = g2  g3 = g3
    None = None
    NoPeer = NoPeer
    VnodesPerPeer = 1
    Nodes = {n1, n2, n3}
    Addrs = {a1, a2, a3}
    NodeOf <- OwnAddress
    Self <- KnowsSelf
    Clients = {c1}
    Servants = {g1, g2}
    Kinds <- Sessions
    BaseModel = b
    HashOn = "header"
    HashKey <- OneVnode
    HashString <- KeyTable
    Views <- Rolling
    Threshold = 1
    MaxConcurrent = 2
    FallbackToBase = FALSE
    Hung = {n2}
    Pollers = {}
    MaxUpdates = 2
    MaxCrashes = 1
    MaxLost = 0
INVARIANT OneHop
INVARIANT RetryElsewhere
PROPERTY Answered
