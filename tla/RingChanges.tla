----------------------------- MODULE RingChanges -----------------------------
(***************************************************************************)
(* One node's ring while discovery reports one list of peers after         *)
(* another: which keys move when Ring.Update rebuilds it.                  *)
(***************************************************************************)
EXTENDS Ring

CONSTANTS
    Tables,     \* the assignments of hashes to vnodes, without collisions
    KeyHashes   \* hashes of keys

ASSUME TablesAssumption ==
    /\ \A t \in Tables :
         /\ t \in [Addrs -> [1..VnodesPerPeer -> Nat]]
         /\ \A a, b \in Addrs, i, j \in 1..VnodesPerPeer :
              t[a][i] = t[b][j] => a = b /\ i = j
    /\ KeyHashes \subseteq Nat

VARIABLES
    table,      \* hashKey
    peers,      \* the keys of Ring.peers
    vnodes      \* Ring.vnodes

vars == <<table, peers, vnodes>>

Init ==
    /\ table \in Tables
    /\ peers = {}
    /\ vnodes = <<>>

\* Mutant of Update: vnodes is not made anew, so it grows.
UpdateAppends(S) ==
    /\ peers' = S
    /\ vnodes' \in Arrangements(ToSet(vnodes) \cup VnodesOf(S, table))
    /\ UNCHANGED table

\* Ring.Update
Update(S) ==
    /\ peers' = S
    /\ vnodes' \in Arrangements(VnodesOf(S, table))
    /\ UNCHANGED table

Next == \E S \in SUBSET Addrs : Update(S)

Spec == Init /\ [][Next]_vars

-----------------------------------------------------------------------------

\* The types, and that the list and the map which Update rebuilds agree: sort.Search
\* needs the vnodes in order, and every peer has its vnodes.
TypeOK ==
    /\ table \in Tables
    /\ peers \subseteq Addrs
    /\ vnodes \in Seq([hash : Nat, peer : Addrs])
    /\ Sorted(vnodes)
    /\ ToSet(vnodes) = VnodesOf(peers, table)

\* A key has an owner, and a next peer to fall back to, among the peers of the last
\* update: the address of a vnode is always a key of the map Ring.peers.
OwnerIsPeer ==
    \A h \in KeyHashes :
        /\ peers # {} => Owner(vnodes, h) \in peers
        /\ \A a \in peers : peers # {a} => Fallback(vnodes, h, a) \in peers \ {a}

(***************************************************************************)
(* When one peer leaves, a key it did not own stays where it is, and a key *)
(* it owned moves to the peer that Fallback named: the requests that were  *)
(* retried there find the adapter they had fetched.                        *)
(***************************************************************************)
OnlyOrphansMove ==
    [][\A x \in peers, h \in KeyHashes :
         peers' = peers \ {x} =>
           Owner(vnodes', h) = IF Owner(vnodes, h) = x THEN Fallback(vnodes, h, x)
                                                       ELSE Owner(vnodes, h)]_vars

\* When peers join, a key stays with its owner or moves to one of the new peers.
OnlyJoinersTake ==
    [][\A h \in KeyHashes :
         peers # {} /\ peers \subseteq peers' =>
           Owner(vnodes', h) \in {Owner(vnodes, h)} \cup (peers' \ peers)]_vars

=============================================================================
