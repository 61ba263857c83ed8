SPECIFICATION Spec
CONSTANTS
    n1 = n1  n2 = n2  n3 = n3
    Addrs = {n1, n2, n3}
    NoPeer = NoPeer
    VnodesPerPeer = 2
    Tables <- EveryOrder
    KeyHashes <- OnAndBetween
INVARIANT TypeOK
INVARIANT OwnerIsPeer
PROPERTY OnlyOrphansMove
PROPERTY OnlyJoinersTake
