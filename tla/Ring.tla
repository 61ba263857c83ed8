-------------------------------- MODULE Ring --------------------------------
(***************************************************************************)
(* The consistent hash ring, internal/routing/ring.go, as operators: every *)
(* method of Ring runs under its mutex.                                    *)
(*                                                                         *)
(* A ring's vnodes are a sequence sorted by hash.  Hashes are the first 32 *)
(* bits of SHA-256; only their order matters, so they are naturals here    *)
(* and the tables of hashKey and hashString are parameters.  An address    *)
(* that discovery lists twice has its vnodes twice in the code and once    *)
(* here: equal vnodes side by side are one point of the ring.              *)
(***************************************************************************)
EXTENDS Integers, SequencesExt

CONSTANTS
    Addrs,          \* peer addresses
    NoPeer,         \* the nil *Peer
    VnodesPerPeer   \* routing.vnodes_per_peer

ASSUME RingAssumption ==
    /\ IsFiniteSet(Addrs)
    /\ NoPeer \notin Addrs
    /\ VnodesPerPeer \in Nat \ {0}

-----------------------------------------------------------------------------

\* The points of the peers S; table[a][i] is hashKey(a, i).
VnodesOf(S, table) ==
    {[hash |-> table[a][i], peer |-> a] : a \in S, i \in 1..VnodesPerPeer}

Sorted(vs) == \A i \in 1..(Len(vs) - 1) : vs[i].hash <= vs[i + 1].hash

\* Mutant of Arrangements: the vnodes are left in the order they were appended.
ArrangementsUnsorted(V) ==
    {vs \in [1..Cardinality(V) -> V] : IsInjective(vs)}

\* What sort.Slice, which is not stable, may make of the vnodes.
Arrangements(V) ==
    {vs \in [1..Cardinality(V) -> V] : Sorted(vs) /\ IsInjective(vs)}

\* sort.Search: the first vnode at or after hash h, or one past the last.
Search(vs, h) ==
    IF \E i \in 1..Len(vs) : vs[i].hash >= h
    THEN CHOOSE i \in 1..Len(vs) :
            vs[i].hash >= h /\ \A j \in 1..(i - 1) : vs[j].hash < h
    ELSE Len(vs) + 1

\* The peer `seen' vnodes after the one that Search finds, around the ring.
PeerAfter(vs, h, seen) == vs[((Search(vs, h) - 1 + seen) % Len(vs)) + 1].peer

\* Ring.Owner for a key whose hashString is h.
Owner(vs, h) == IF vs = <<>> THEN NoPeer ELSE PeerAfter(vs, h, 0)

\* Mutant of Fallback: the walk stops after one vnode, whoever it belongs to.
FallbackOneStep(vs, h, skip) ==
    IF vs = <<>> THEN NoPeer ELSE PeerAfter(vs, h, 1)

\* Ring.Fallback: the first vnode of a peer other than skip.
Fallback(vs, h, skip) ==
    IF \E seen \in 0..(Len(vs) - 1) : PeerAfter(vs, h, seen) # skip
    THEN LET first == CHOOSE seen \in 0..(Len(vs) - 1) :
                         /\ PeerAfter(vs, h, seen) # skip
                         /\ \A j \in 0..(seen - 1) : PeerAfter(vs, h, j) = skip
         IN  PeerAfter(vs, h, first)
    ELSE NoPeer

=============================================================================
