-------------------------- MODULE RingChangesProofs --------------------------
(***************************************************************************)
(* Proofs about RingChanges, for any peers, any number of vnodes, any hash *)
(* tables without collisions and any keys.                                 *)
(***************************************************************************)
EXTENDS RingChanges, RingProofs

\* The list vs is a ring of the peers S.
IsRing(t, S, vs) ==
    /\ t \in Tables /\ S \subseteq Addrs
    /\ vs \in Seq(Vnode) /\ Sorted(vs) /\ IsInjective(vs)
    /\ ToSet(vs) = VnodesOf(S, t)

\* The inductive invariant.  No vnode is listed twice, which TypeOK leaves open.
RingInv == IsRing(table, peers, vnodes)

\* Vnodes of one table differ in their hashes.
LEMMA TableDistinct ==
    ASSUME NEW t \in Tables, NEW S \in SUBSET Addrs
    PROVE  /\ t \in [Addrs -> [1..VnodesPerPeer -> Nat]]
           /\ Distinct(VnodesOf(S, t))
<1>1. /\ t \in [Addrs -> [1..VnodesPerPeer -> Nat]]
      /\ \A a, b \in Addrs, i, j \in 1..VnodesPerPeer : t[a][i] = t[b][j] => a = b /\ i = j
  BY TablesAssumption
<1>2. VnodesOf(S, t) \subseteq Vnode
  BY <1>1, VnodesType
<1>3. ASSUME NEW v \in VnodesOf(S, t), NEW w \in VnodesOf(S, t), v.hash = w.hash PROVE v = w
  <2>1. PICK a \in S, i \in 1..VnodesPerPeer : v = [hash |-> t[a][i], peer |-> a]
    BY DEF VnodesOf
  <2>2. PICK b \in S, j \in 1..VnodesPerPeer : w = [hash |-> t[b][j], peer |-> b]
    BY DEF VnodesOf
  <2>3. a \in Addrs /\ b \in Addrs /\ t[a][i] = t[b][j]
    BY <1>3, <2>1, <2>2
  <2>4. a = b
    BY <1>1, <2>3
  <2> QED BY <2>1, <2>2, <2>3, <2>4
<1> QED BY <1>1, <1>2, <1>3 DEF Distinct

\* What that says of the vnodes' peers and hashes.
LEMMA RingShape ==
    ASSUME NEW t, NEW S, NEW vs, IsRing(t, S, vs)
    PROVE  /\ Distinct(ToSet(vs))
           /\ {v.peer : v \in ToSet(vs)} = S
           /\ vs = <<>> <=> S = {}
<1>1. /\ t \in Tables /\ S \in SUBSET Addrs /\ vs \in Seq(Vnode)
      /\ ToSet(vs) = VnodesOf(S, t)
  BY DEF IsRing
<1>2. Distinct(VnodesOf(S, t)) /\ {v.peer : v \in VnodesOf(S, t)} = S
  BY <1>1, TableDistinct, VnodesType
<1>3. vs = <<>> <=> ToSet(vs) = {}
  BY <1>1, NoVnodes
<1> QED BY <1>1, <1>2, <1>3

\* The owner of a key, and the peer to fall back to.
LEMMA RingOwner ==
    ASSUME NEW t, NEW S, NEW vs, IsRing(t, S, vs), NEW h \in Nat
    PROVE  /\ S # {} => \E v : IsNearest(ToSet(vs), h, v) /\ Owner(vs, h) = v.peer
           /\ \A x : IF Others(ToSet(vs), x) = {} THEN Fallback(vs, h, x) = NoPeer
                    ELSE \E v : /\ IsNearest(Others(ToSet(vs), x), h, v)
                                /\ Fallback(vs, h, x) = v.peer
BY RingShape, OwnerIsNearest, FallbackIsNearest DEF IsRing

\* Update makes a ring of the peers it is given.
LEMMA UpdateInv == RingInv /\ [Next]_vars => RingInv'
<1> SUFFICES ASSUME RingInv, [Next]_vars PROVE RingInv'
  OBVIOUS
<1>1. CASE UNCHANGED vars
  BY <1>1 DEF RingInv, vars
<1>2. CASE Next
  <2>1. PICK S \in SUBSET Addrs : Update(S)
    BY <1>2 DEF Next
  <2>2. /\ table \in Tables /\ table' = table /\ peers' = S
        /\ vnodes' \in Arrangements(VnodesOf(S, table))
    BY <2>1 DEF Update, RingInv, IsRing
  <2>3. /\ IsFiniteSet(VnodesOf(S, table))
        /\ VnodesOf(S, table) \subseteq Vnode
    BY <2>2, VnodesFinite, TableDistinct DEF Distinct
  <2>4. /\ vnodes' \in Seq(VnodesOf(S, table)) /\ Sorted(vnodes') /\ IsInjective(vnodes')
        /\ ToSet(vnodes') = VnodesOf(S, table)
    BY <2>2, <2>3, ArrangementIsSeq
  <2>5. vnodes' \in Seq(Vnode)
    BY <2>3, <2>4
  <2> QED BY <2>2, <2>4, <2>5 DEF RingInv, IsRing
<1> QED BY <1>1, <1>2

\* The node starts without peers.
LEMMA InitRing == Init => RingInv
<1> SUFFICES ASSUME Init PROVE RingInv
  OBVIOUS
<1>1. table \in Tables /\ peers = {} /\ vnodes = <<>>
  BY DEF Init
<1>2. ToSet(vnodes) = {} /\ VnodesOf(peers, table) = {}
  BY <1>1 DEF ToSet, VnodesOf
<1>3. Sorted(vnodes) /\ IsInjective(vnodes) /\ vnodes \in Seq(Vnode)
  BY <1>1 DEF Sorted, IsInjective
<1> QED BY <1>1, <1>2, <1>3 DEF RingInv, IsRing

\* The invariant holds throughout.
LEMMA RingAlways == Spec => []RingInv
BY InitRing, UpdateInv, PTL DEF Spec

\* Ring.Update: the list and the map it rebuilds agree, and the list is in the order
\* that sort.Search needs, for any lists that discovery reports.
THEOREM RingTypes == Spec => []TypeOK
<1>1. RingInv => TypeOK
  BY DEF RingInv, IsRing, TypeOK, Vnode
<1> QED BY <1>1, RingAlways, PTL

\* Ring.Owner and Ring.Fallback never name an address that is not in the map
\* Ring.peers, and never none when there is a peer to name.
THEOREM OwnersArePeers == Spec => []OwnerIsPeer
<1>1. RingInv => OwnerIsPeer
  <2> SUFFICES ASSUME RingInv, NEW h \in KeyHashes
               PROVE  /\ peers # {} => Owner(vnodes, h) \in peers
                      /\ \A a \in peers : peers # {a} => Fallback(vnodes, h, a) \in peers \ {a}
    BY DEF OwnerIsPeer
  <2>1. h \in Nat
    BY TablesAssumption
  <2>2. IsRing(table, peers, vnodes) /\ {v.peer : v \in ToSet(vnodes)} = peers
    BY RingShape DEF RingInv
  <2>3. peers # {} => Owner(vnodes, h) \in peers
    BY <2>1, <2>2, RingOwner DEF IsNearest
  <2>4. ASSUME NEW a \in peers, peers # {a} PROVE Fallback(vnodes, h, a) \in peers \ {a}
    <3>1. Others(ToSet(vnodes), a) # {}
      BY <2>2, <2>4 DEF Others
    <3>2. PICK w : /\ IsNearest(Others(ToSet(vnodes), a), h, w)
                   /\ Fallback(vnodes, h, a) = w.peer
      BY <2>1, <2>2, <3>1, RingOwner
    <3> QED BY <2>2, <3>2 DEF IsNearest, Others
  <2> QED BY <2>3, <2>4
<1> QED BY <1>1, RingAlways, PTL

-----------------------------------------------------------------------------
(* Which keys move                                                          *)

\* The nearest vnode stays the nearest when others leave.
LEMMA NearestStays ==
    ASSUME NEW V, NEW W \in SUBSET V, NEW h, NEW v \in W, IsNearest(V, h, v)
    PROVE  IsNearest(W, h, v)
BY DEF IsNearest

\* Without peer x the ring has the vnodes of the others.
LEMMA VnodesWithout ==
    ASSUME NEW t, NEW S, NEW x
    PROVE  VnodesOf(S \ {x}, t) = Others(VnodesOf(S, t), x)
<1>1. ASSUME NEW v \in VnodesOf(S \ {x}, t) PROVE v \in Others(VnodesOf(S, t), x)
  BY DEF VnodesOf, Others
<1>2. ASSUME NEW v \in Others(VnodesOf(S, t), x) PROVE v \in VnodesOf(S \ {x}, t)
  <2>1. PICK a \in S, i \in 1..VnodesPerPeer : v = [hash |-> t[a][i], peer |-> a]
    BY DEF VnodesOf, Others
  <2>2. a # x
    BY <2>1 DEF Others
  <2> QED BY <2>1, <2>2 DEF VnodesOf
<1> QED BY <1>1, <1>2

\* The ring us is the ring vs without peer x.
LEMMA LeaverMoves ==
    ASSUME NEW t, NEW S, NEW vs, NEW us, NEW x \in S, NEW h \in Nat,
           IsRing(t, S, vs), IsRing(t, S \ {x}, us)
    PROVE  Owner(us, h) = IF Owner(vs, h) = x THEN Fallback(vs, h, x) ELSE Owner(vs, h)
<1> DEFINE V == ToSet(vs)
           W == Others(V, x)
<1>1. ToSet(us) = W /\ Distinct(W) /\ (us = <<>> <=> S \ {x} = {}) /\ (W = {} <=> us = <<>>)
  BY VnodesWithout, RingShape, NoVnodes DEF IsRing
<1>2. PICK v : IsNearest(V, h, v) /\ Owner(vs, h) = v.peer
  BY RingOwner
<1>3. CASE W = {}
  <2>1. Owner(us, h) = NoPeer /\ Fallback(vs, h, x) = NoPeer
    BY <1>1, <1>3, RingOwner DEF Owner
  <2>2. Owner(vs, h) = x
    BY <1>2, <1>3 DEF IsNearest, Others
  <2> QED BY <2>1, <2>2
<1>4. CASE W # {}
  <2>1. PICK w : IsNearest(W, h, w) /\ Owner(us, h) = w.peer
    BY <1>1, <1>4, RingOwner
  <2>2. CASE Owner(vs, h) = x
    <3>1. PICK u : IsNearest(W, h, u) /\ Fallback(vs, h, x) = u.peer
      BY <1>4, RingOwner
    <3>2. u = w
      BY <1>1, <2>1, <3>1, NearestUnique
    <3> QED BY <2>1, <2>2, <3>1, <3>2
  <2>3. CASE Owner(vs, h) # x
    <3>1. v \in W /\ W \in SUBSET V
      BY <1>2, <2>3 DEF IsNearest, Others
    <3>2. IsNearest(W, h, v)
      BY <1>2, <3>1, NearestStays
    <3>3. v = w
      BY <1>1, <2>1, <3>2, NearestUnique
    <3> QED BY <1>2, <2>1, <2>3, <3>3
  <2> QED BY <2>2, <2>3
<1> QED BY <1>3, <1>4

\* When a peer leaves, only its keys move, and they move to where Fallback sent the
\* requests that could not reach it: for any hashes, keys and number of vnodes.
THEOREM OrphansMove == Spec => OnlyOrphansMove
<1>1. RingInv /\ RingInv' /\ [Next]_vars =>
        [\A x \in peers, h \in KeyHashes :
           peers' = peers \ {x} =>
             Owner(vnodes', h) = IF Owner(vnodes, h) = x THEN Fallback(vnodes, h, x)
                                                         ELSE Owner(vnodes, h)]_vars
  <2> SUFFICES ASSUME RingInv, RingInv', Next, NEW x \in peers, NEW h \in KeyHashes,
                      peers' = peers \ {x}
               PROVE  Owner(vnodes', h) = IF Owner(vnodes, h) = x THEN Fallback(vnodes, h, x)
                                                                  ELSE Owner(vnodes, h)
    OBVIOUS
  <2>1. UNCHANGED table /\ h \in Nat
    BY TablesAssumption DEF Next, Update
  <2> QED BY <2>1, LeaverMoves DEF RingInv
<1> QED BY <1>1, RingAlways, PTL DEF Spec, OnlyOrphansMove

\* The ring us is the ring vs with the peers R added.
LEMMA JoinerTakes ==
    ASSUME NEW t, NEW S, NEW R, NEW vs, NEW us, NEW h \in Nat, S # {}, S \subseteq R,
           IsRing(t, S, vs), IsRing(t, R, us)
    PROVE  Owner(us, h) \in {Owner(vs, h)} \cup (R \ S)
<1> DEFINE V == ToSet(vs)
           W == ToSet(us)
<1>1. V = VnodesOf(S, t) /\ W = VnodesOf(R, t) /\ Distinct(V)
  BY RingShape DEF IsRing
<1>2. PICK w : IsNearest(W, h, w) /\ Owner(us, h) = w.peer
  BY RingOwner
<1>3. PICK v : IsNearest(V, h, v) /\ Owner(vs, h) = v.peer
  BY RingOwner
<1>4. V \in SUBSET W
  BY <1>1 DEF VnodesOf
<1>5. CASE w \in V
  <2>1. IsNearest(V, h, w)
    BY <1>2, <1>4, <1>5, NearestStays
  <2>2. v = w
    BY <1>1, <1>3, <2>1, NearestUnique
  <2> QED BY <1>2, <1>3, <2>2
<1>6. CASE w \notin V
  <2>1. PICK a \in R, i \in 1..VnodesPerPeer : w = [hash |-> t[a][i], peer |-> a]
    BY <1>1, <1>2 DEF IsNearest, VnodesOf
  <2>2. a \notin S
    BY <1>1, <1>6, <2>1 DEF VnodesOf
  <2> QED BY <1>2, <2>1, <2>2
<1> QED BY <1>5, <1>6

\* When peers join, a key stays with its owner or goes to one of them.
THEOREM JoinersTake == Spec => OnlyJoinersTake
<1>1. RingInv /\ RingInv' /\ [Next]_vars =>
        [\A h \in KeyHashes :
           peers # {} /\ peers \subseteq peers' =>
             Owner(vnodes', h) \in {Owner(vnodes, h)} \cup (peers' \ peers)]_vars
  <2> SUFFICES ASSUME RingInv, RingInv', Next, NEW h \in KeyHashes,
                      peers # {}, peers \subseteq peers'
               PROVE  Owner(vnodes', h) \in {Owner(vnodes, h)} \cup (peers' \ peers)
    OBVIOUS
  <2>1. UNCHANGED table /\ h \in Nat
    BY TablesAssumption DEF Next, Update
  <2> QED BY <2>1, JoinerTakes DEF RingInv
<1> QED BY <1>1, RingAlways, PTL DEF Spec, OnlyJoinersTake

=============================================================================
