SPECIFICATION FairSpec
CONSTANTS
    n1 = n1  n2 = n2  n3 = n3
    a1 = a1  a2 = a2  a3 = a3
    m = m  b = b  v = v
    c1 = c1  c2 = c2  g1 = g1  g2 = g2  g3 = g3
    None = None
    NoPeer = NoPeer
    VnodesPerPeer = 1
    Nodes = {n1, n2}
    Addrs = {a1, a2}
    NodeOf <- OwnAddress
    Self <- KnowsSelf
    Clients = {c1, c2}
    Servants = {g1}
    Kinds <- Plain
    BaseModel = b
    HashOn = "model"
    HashKey <- OneVnode
    HashString <- KeyTable
    Views <- AllPeers
    Threshold = 1
    MaxConcurrent = 1
    FallbackToBase = FALSE
    Hung = {}
    Pollers = {n1}
    MaxUpdates = 2
    MaxCrashes = 1
    MaxLost = 1
INVARIANT TypeOK
PROPERTY DownPeerAvoided
PROPERTY UpPeerUsed
