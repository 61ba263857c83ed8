----------------------------- MODULE RingProofs -----------------------------
(***************************************************************************)
(* Lemmas about the operators of Ring: what sort.Slice makes of the vnodes *)
(* and whom Owner and Fallback name, said in terms of the set of vnodes.   *)
(***************************************************************************)
EXTENDS Ring, SequenceTheorems, FiniteSetTheorems, WellFoundedInduction, TLAPS

Vnode == [hash : Nat, peer : Addrs]

\* A non-empty set of naturals has a least element.
LEMMA LeastElement ==
    ASSUME NEW T \in SUBSET Nat, T # {}
    PROVE  \E x \in T : \A y \in T : x <= y
<1>1. PICK x \in T : \A y \in T : ~(<<y, x>> \in OpToRel(<, Nat))
  BY NatLessThanWellFounded, WFMin
<1>2. \A y \in T : y < x => <<y, x>> \in OpToRel(<, Nat)
  BY DEF OpToRel
<1>3. \A y \in T : y \in Nat /\ ~(y < x)
  BY <1>1, <1>2
<1>4. \A y \in T : x <= y
  BY <1>3
<1> QED BY <1>4

-----------------------------------------------------------------------------
(* The vnodes that Update makes                                             *)

\* Finitely many peers have finitely many vnodes.
LEMMA VnodesFinite ==
    ASSUME NEW S \in SUBSET Addrs, NEW table
    PROVE  IsFiniteSet(VnodesOf(S, table))
<1> DEFINE D == S \X (1..VnodesPerPeer)
           f == [x \in D |-> [hash |-> table[x[1]][x[2]], peer |-> x[1]]]
<1>1. IsFiniteSet(D)
  <2>1. IsFiniteSet(S)
    BY RingAssumption, FS_Subset
  <2>2. IsFiniteSet(1..VnodesPerPeer)
    BY RingAssumption, FS_Interval
  <2> QED BY <2>1, <2>2, FS_Product
<1>2. f \in Surjection(D, VnodesOf(S, table))
  <2>1. f \in [D -> VnodesOf(S, table)]
    BY DEF VnodesOf
  <2>2. ASSUME NEW v \in VnodesOf(S, table) PROVE \E x \in D : f[x] = v
    <3>1. PICK a \in S, i \in 1..VnodesPerPeer : v = [hash |-> table[a][i], peer |-> a]
      BY DEF VnodesOf
    <3>2. <<a, i>> \in D /\ f[<<a, i>>] = v
      BY <3>1
    <3> QED BY <3>2
  <2> QED BY <2>1, <2>2 DEF Surjection
<1> QED BY <1>1, <1>2, FS_Surjection

\* The vnodes of peers have the types of vnodes and belong to those peers, and every
\* peer has one.
LEMMA VnodesType ==
    ASSUME NEW S \in SUBSET Addrs, NEW table \in [Addrs -> [1..VnodesPerPeer -> Nat]]
    PROVE  /\ VnodesOf(S, table) \subseteq Vnode
           /\ {v.peer : v \in VnodesOf(S, table)} = S
<1>1. ASSUME NEW v \in VnodesOf(S, table) PROVE v \in Vnode
  <2>1. PICK a \in S, i \in 1..VnodesPerPeer : v = [hash |-> table[a][i], peer |-> a]
    BY DEF VnodesOf
  <2>2. a \in Addrs /\ table[a][i] \in Nat
    OBVIOUS
  <2> QED BY <2>1, <2>2 DEF Vnode
<1>2. \A v \in VnodesOf(S, table) : v.peer \in S
  BY DEF VnodesOf
<1>3. ASSUME NEW a \in S PROVE \E v \in VnodesOf(S, table) : v.peer = a
  <2>1. [hash |-> table[a][1], peer |-> a] \in VnodesOf(S, table)
    BY RingAssumption DEF VnodesOf
  <2> QED BY <2>1
<1> QED BY <1>1, <1>2, <1>3

\* sort.Slice keeps every vnode, once.
LEMMA ArrangementIsSeq ==
    ASSUME NEW V, IsFiniteSet(V), NEW vs \in Arrangements(V)
    PROVE  /\ vs \in Seq(V)
           /\ Sorted(vs)
           /\ IsInjective(vs)
           /\ ToSet(vs) = V
<1> DEFINE n == Cardinality(V)
<1>1. vs \in [1..n -> V] /\ Sorted(vs) /\ IsInjective(vs)
  BY DEF Arrangements
<1>2. n \in Nat
  BY FS_CardinalityType
<1>3. vs \in Seq(V)
  <2>1. vs \in UNION {[1..m -> V] : m \in Nat}
    BY <1>1, <1>2
  <2> QED BY <2>1, SeqDef
<1>4. vs \in Surjection(1..n, V)
  <2>1. vs \in Injection(1..n, V)
    BY <1>1 DEF Injection, IsInjective
  <2>2. Cardinality(1..n) = Cardinality(V)
    BY <1>2, FS_Interval
  <2> QED BY <2>1, <2>2, FS_Injection
<1>5. ToSet(vs) = V
  <2>1. DOMAIN vs = 1..n
    BY <1>1
  <2>2. \A v \in V : \E i \in 1..n : vs[i] = v
    BY <1>4 DEF Surjection
  <2> QED BY <1>1, <2>1, <2>2 DEF ToSet
<1> QED BY <1>1, <1>3, <1>5

-----------------------------------------------------------------------------
(* sort.Search                                                              *)

\* The elements of a list of vnodes.
LEMMA VnodeAt ==
    ASSUME NEW vs \in Seq(Vnode)
    PROVE  /\ Len(vs) \in Nat /\ DOMAIN vs = 1..Len(vs)
           /\ \A k \in 1..Len(vs) : vs[k] \in Vnode /\ vs[k].hash \in Nat
<1>1. \A k \in 1..Len(vs) : vs[k] \in Vnode
  BY ElementOfSeq
<1> QED BY <1>1, LenProperties DEF Vnode

\* In a sorted list not only neighbours are in order.
LEMMA SortedEverywhere ==
    ASSUME NEW vs \in Seq(Vnode), Sorted(vs), NEW i \in 1..Len(vs), NEW j \in i..Len(vs)
    PROVE  vs[i].hash <= vs[j].hash
<1> DEFINE B == {k \in i..Len(vs) : vs[k].hash < vs[i].hash}
<1>1. \A k \in 1..Len(vs) : vs[k].hash \in Nat
  BY VnodeAt
<1>2. B = {}
  <2> SUFFICES ASSUME B # {} PROVE FALSE
    OBVIOUS
  <2>1. B \in SUBSET Nat
    OBVIOUS
  <2>2. PICK k \in B : \A m \in B : k <= m
    BY <2>1, LeastElement
  <2>3. k # i
    BY <1>1, <2>2
  <2>4. k - 1 \in i..Len(vs) /\ k - 1 \in 1..(Len(vs) - 1) /\ k - 1 \notin B
    BY <2>2, <2>3, LenProperties
  <2>5. vs[k - 1].hash <= vs[k].hash
    BY <2>4, LenProperties DEF Sorted
  <2>6. vs[k].hash < vs[i].hash /\ ~(vs[k - 1].hash < vs[i].hash)
    BY <2>2, <2>4
  <2>7. vs[k].hash \in Nat /\ vs[k - 1].hash \in Nat /\ vs[i].hash \in Nat
    <3>1. k \in 1..Len(vs) /\ k - 1 \in 1..Len(vs)
      BY <2>2, <2>4, LenProperties
    <3> QED BY <1>1, <3>1, Zenon
  <2> QED BY <2>5, <2>6, <2>7
<1>3. j \notin B
  BY <1>2
<1> QED BY <1>1, <1>3, LenProperties

\* Search splits a sorted list at h.
LEMMA SearchSplits ==
    ASSUME NEW vs \in Seq(Vnode), Sorted(vs), NEW h \in Nat
    PROVE  /\ Search(vs, h) \in 1..(Len(vs) + 1)
           /\ \A i \in 1..Len(vs) : vs[i].hash >= h <=> i >= Search(vs, h)
<1> DEFINE T == {i \in 1..Len(vs) : vs[i].hash >= h}
           IsFirst(i) == vs[i].hash >= h /\ \A j \in 1..(i - 1) : vs[j].hash < h
<1>0. Len(vs) \in Nat /\ \A k \in 1..Len(vs) : vs[k].hash \in Nat
  BY VnodeAt
<1>1. CASE T = {}
  <2>1. Search(vs, h) = Len(vs) + 1
    BY <1>1 DEF Search
  <2> QED BY <1>0, <1>1, <2>1
<1>2. CASE T # {}
  <2>1. T \in SUBSET Nat
    OBVIOUS
  <2>2. PICK x \in T : \A y \in T : x <= y
    BY <1>2, <2>1, LeastElement
  <2>3. x \in 1..Len(vs) /\ IsFirst(x)
    <3>1. ASSUME NEW j \in 1..(x - 1) PROVE vs[j].hash < h
      <4>1. j \in 1..Len(vs) /\ j \notin T
        BY <1>0, <2>2
      <4> QED BY <1>0, <4>1
    <3> QED BY <2>2, <3>1
  <2>4. Search(vs, h) = CHOOSE i \in 1..Len(vs) : IsFirst(i)
    BY <1>2 DEF Search
  <2>5. Search(vs, h) \in 1..Len(vs) /\ IsFirst(Search(vs, h))
    BY <2>3, <2>4
  <2>6. ASSUME NEW i \in 1..Len(vs), i >= Search(vs, h) PROVE vs[i].hash >= h
    <3>1. vs[Search(vs, h)].hash <= vs[i].hash
      BY <1>0, <2>5, <2>6, SortedEverywhere
    <3> QED BY <1>0, <2>5, <3>1
  <2>7. ASSUME NEW i \in 1..Len(vs), ~(i >= Search(vs, h)) PROVE vs[i].hash < h
    BY <1>0, <2>5, <2>7
  <2> QED BY <1>0, <2>5, <2>6, <2>7
<1> QED BY <1>1, <1>2

-----------------------------------------------------------------------------
(* The walk around the ring                                                 *)

\* Seen from h, the ring passes v before w.
Before(h, v, w) ==
    \/ v.hash >= h /\ w.hash < h
    \/ (v.hash >= h <=> w.hash >= h) /\ v.hash < w.hash

\* The vnode of V that comes first after h.
IsNearest(V, h, v) == v \in V /\ \A w \in V \ {v} : Before(h, v, w)

\* No two vnodes have the same hash.
Distinct(V) == V \subseteq Vnode /\ \A v, w \in V : v.hash = w.hash => v = w

\* There is only one nearest vnode.
LEMMA NearestUnique ==
    ASSUME NEW V, Distinct(V), NEW h \in Nat, NEW v, NEW w,
           IsNearest(V, h, v), IsNearest(V, h, w)
    PROVE  v = w
BY DEF Distinct, IsNearest, Before, Vnode

\* The index of the vnode after `seen' others.
Position(vs, h, seen) == ((Search(vs, h) - 1 + seen) % Len(vs)) + 1

\* Where the walk is: it goes to the end of the list and then to its beginning.
LEMMA PositionIs ==
    ASSUME NEW vs \in Seq(Vnode), Sorted(vs), NEW h \in Nat, NEW seen \in 0..(Len(vs) - 1)
    PROVE  /\ Search(vs, h) \in 1..(Len(vs) + 1)
           /\ Position(vs, h, seen) \in 1..Len(vs)
           /\ Position(vs, h, seen) = IF Search(vs, h) + seen <= Len(vs)
                                      THEN Search(vs, h) + seen
                                      ELSE Search(vs, h) + seen - Len(vs)
<1> DEFINE s == Search(vs, h)
           n == Len(vs)
           m == s - 1 + seen
<1>1. s \in 1..(n + 1) /\ n \in Nat /\ n > 0
  <2>1. s \in 1..(n + 1)
    BY SearchSplits, Zenon
  <2>2. n \in Nat
    BY LenProperties, Zenon
  <2> QED BY <2>1, <2>2
<1>2. m \in Nat /\ m < n + n /\ Position(vs, h, seen) = (m % n) + 1
  BY <1>1 DEF Position
<1> HIDE DEF s, n
<1>3. CASE m < n
  <2>1. m % n = m
    BY <1>1, <1>2, <1>3
  <2>2. s + seen <= n /\ m + 1 = s + seen /\ m + 1 \in 1..n
    BY <1>1, <1>2, <1>3
  <2> QED BY <1>1, <1>2, <2>1, <2>2 DEF s, n
<1>4. CASE ~(m < n)
  <2>1. m % n = m - n
    BY <1>1, <1>2, <1>4
  <2>2. ~(s + seen <= n) /\ m - n + 1 = s + seen - n /\ m - n + 1 \in 1..n
    BY <1>1, <1>2, <1>4
  <2> QED BY <1>1, <1>2, <2>1, <2>2 DEF s, n
<1> QED BY <1>3, <1>4

\* The walk meets every vnode.
LEMMA WalkMeetsAll ==
    ASSUME NEW vs \in Seq(Vnode), Sorted(vs), NEW h \in Nat, NEW v \in ToSet(vs)
    PROVE  \E seen \in 0..(Len(vs) - 1) : vs[Position(vs, h, seen)] = v
<1> DEFINE s == Search(vs, h)
           n == Len(vs)
<1>1. n \in Nat /\ s \in 1..(n + 1)
  BY SearchSplits, LenProperties
<1>2. PICK k \in 1..n : vs[k] = v
  BY LenProperties DEF ToSet
<1>3. ASSUME NEW j \in 0..(n - 1), k = IF s + j <= n THEN s + j ELSE s + j - n
      PROVE  vs[Position(vs, h, j)] = v
  BY <1>2, <1>3, PositionIs
<1> HIDE DEF s, n
<1>4. CASE k >= s
  <2>1. k - s \in 0..(n - 1) /\ s + (k - s) = k
    BY <1>1, <1>4
  <2>2. vs[Position(vs, h, k - s)] = v
    BY <1>1, <1>3, <2>1
  <2> QED BY <2>1, <2>2 DEF n
<1>5. CASE ~(k >= s)
  <2>1. k - s + n \in 0..(n - 1) /\ s + (k - s + n) = k + n /\ ~(k + n <= n)
    BY <1>1, <1>5
  <2>2. vs[Position(vs, h, k - s + n)] = v
    BY <1>1, <1>3, <2>1
  <2> QED BY <2>1, <2>2 DEF n
<1> QED BY <1>4, <1>5

\* ... in the order in which they come after h.
LEMMA WalkInOrder ==
    ASSUME NEW vs \in Seq(Vnode), Sorted(vs), IsInjective(vs), Distinct(ToSet(vs)),
           NEW h \in Nat, NEW i \in 0..(Len(vs) - 1), NEW j \in 0..(Len(vs) - 1), i < j
    PROVE  Before(h, vs[Position(vs, h, i)], vs[Position(vs, h, j)])
<1> DEFINE s == Search(vs, h)
           n == Len(vs)
           x == Position(vs, h, i)
           y == Position(vs, h, j)
<1>1. n \in Nat /\ s \in 1..(n + 1) /\ x \in 1..n /\ y \in 1..n
  BY PositionIs, LenProperties
<1>2. /\ x = IF s + i <= n THEN s + i ELSE s + i - n
      /\ y = IF s + j <= n THEN s + j ELSE s + j - n
  BY PositionIs
<1>3. /\ vs[x].hash >= h <=> x >= s
      /\ vs[y].hash >= h <=> y >= s
      /\ vs[x].hash \in Nat /\ vs[y].hash \in Nat
  BY <1>1, SearchSplits, VnodeAt
<1>4. x # y
  BY <1>1, <1>2
<1>5. vs[x].hash # vs[y].hash
  <2>1. vs[x] # vs[y]
    BY <1>1, <1>4, LenProperties DEF IsInjective
  <2>2. vs[x] \in ToSet(vs) /\ vs[y] \in ToSet(vs)
    BY <1>1, LenProperties DEF ToSet
  <2> QED BY <2>1, <2>2 DEF Distinct
<1>6. CASE x < y
  <2>1. vs[x].hash <= vs[y].hash
    BY <1>1, <1>6, SortedEverywhere
  <2>2. x >= s <=> y >= s
    <3> HIDE DEF x, y, s, n
    <3>1. s \in Nat /\ i \in Nat /\ j \in Nat /\ i < n /\ j < n
      BY <1>1 DEF n
    <3> QED BY <1>1, <1>2, <1>6, <3>1
  <2> QED BY <1>3, <1>5, <2>1, <2>2 DEF Before
<1>7. CASE ~(x < y)
  <2>1. x >= s /\ ~(y >= s)
    <3> HIDE DEF x, y, s, n
    <3>1. s \in Nat /\ i \in Nat /\ j \in Nat /\ i < n /\ j < n
      BY <1>1 DEF n
    <3> QED BY <1>1, <1>2, <1>7, <3>1
  <2> QED BY <1>1, <1>3, <2>1 DEF Before
<1> QED BY <1>6, <1>7

-----------------------------------------------------------------------------
(* Owner and Fallback                                                       *)

\* An empty list has no vnodes.
LEMMA NoVnodes ==
    ASSUME NEW vs \in Seq(Vnode)
    PROVE  vs = <<>> <=> ToSet(vs) = {}
<1>1. CASE vs = <<>>
  BY <1>1 DEF ToSet
<1>2. CASE vs # <<>>
  <2>1. Len(vs) \in Nat /\ Len(vs) # 0 /\ DOMAIN vs = 1..Len(vs)
    BY <1>2, EmptySeq, LenProperties
  <2>2. vs[1] \in ToSet(vs)
    BY <2>1 DEF ToSet
  <2> QED BY <1>2, <2>2
<1> QED BY <1>1, <1>2

\* The owner of a key is the peer of the nearest vnode.
LEMMA OwnerIsNearest ==
    ASSUME NEW vs \in Seq(Vnode), Sorted(vs), IsInjective(vs), Distinct(ToSet(vs)),
           vs # <<>>, NEW h \in Nat
    PROVE  \E v : IsNearest(ToSet(vs), h, v) /\ Owner(vs, h) = v.peer
<1> DEFINE v == vs[Position(vs, h, 0)]
<1>1. Len(vs) \in Nat /\ Len(vs) > 0 /\ 0 \in 0..(Len(vs) - 1) /\ DOMAIN vs = 1..Len(vs)
  BY EmptySeq, LenProperties
<1>2. Owner(vs, h) = v.peer
  BY DEF Owner, PeerAfter, Position
<1>3. v \in ToSet(vs)
  BY <1>1, PositionIs DEF ToSet
<1>4. ASSUME NEW w \in ToSet(vs) \ {v} PROVE Before(h, v, w)
  <2>1. PICK j \in 0..(Len(vs) - 1) : vs[Position(vs, h, j)] = w
    BY WalkMeetsAll
  <2>2. 0 < j
    BY <1>1, <2>1
  <2> QED BY <1>1, <2>1, <2>2, WalkInOrder
<1> QED BY <1>2, <1>3, <1>4 DEF IsNearest

\* The vnodes of other peers than skip.
Others(V, skip) == {v \in V : v.peer # skip}

\* Fallback names the peer of the nearest vnode of another peer, if there is one.
LEMMA FallbackIsNearest ==
    ASSUME NEW vs \in Seq(Vnode), Sorted(vs), IsInjective(vs), Distinct(ToSet(vs)),
           NEW h \in Nat, NEW skip
    PROVE  IF Others(ToSet(vs), skip) = {} THEN Fallback(vs, h, skip) = NoPeer
           ELSE \E v : /\ IsNearest(Others(ToSet(vs), skip), h, v)
                       /\ Fallback(vs, h, skip) = v.peer
<1> DEFINE n == Len(vs)
           O == Others(ToSet(vs), skip)
           T == {seen \in 0..(n - 1) : PeerAfter(vs, h, seen) # skip}
           IsFirst(seen) == /\ PeerAfter(vs, h, seen) # skip
                            /\ \A j \in 0..(seen - 1) : PeerAfter(vs, h, j) = skip
<1>1. n \in Nat /\ DOMAIN vs = 1..n
  BY LenProperties
<1>2. \A seen \in 0..(n - 1) : /\ PeerAfter(vs, h, seen) = vs[Position(vs, h, seen)].peer
                               /\ vs[Position(vs, h, seen)] \in ToSet(vs)
  BY <1>1, PositionIs DEF PeerAfter, Position, ToSet
<1>3. ASSUME NEW w \in O
      PROVE  \E j \in T : vs[Position(vs, h, j)] = w
  <2>1. w \in ToSet(vs) /\ w.peer # skip
    BY DEF Others
  <2>2. PICK j \in 0..(n - 1) : vs[Position(vs, h, j)] = w
    BY <2>1, WalkMeetsAll, Zenon
  <2>3. PeerAfter(vs, h, j) # skip
    BY <1>2, <2>1, <2>2
  <2> QED BY <2>2, <2>3
<1>4. CASE T = {}
  <2>1. Fallback(vs, h, skip) = NoPeer
    BY <1>4 DEF Fallback
  <2> QED BY <1>3, <1>4, <2>1
<1>5. CASE T # {}
  <2>1. T \in SUBSET Nat
    OBVIOUS
  <2>2. PICK x \in T : \A y \in T : x <= y
    BY <1>5, <2>1, LeastElement
  <2>3. \E seen \in 0..(n - 1) : IsFirst(seen)
    BY <1>1, <2>2
  <2> DEFINE first == CHOOSE seen \in 0..(n - 1) : IsFirst(seen)
  <2>4. first \in 0..(n - 1) /\ IsFirst(first)
    BY <2>3
  <2>5. Fallback(vs, h, skip) = PeerAfter(vs, h, first)
    BY <1>5 DEF Fallback
  <2> HIDE DEF first
  <2> DEFINE v == vs[Position(vs, h, first)]
  <2>6. v \in O /\ Fallback(vs, h, skip) = v.peer
    BY <1>2, <2>4, <2>5 DEF Others
  <2>7. ASSUME NEW w \in O \ {v} PROVE Before(h, v, w)
    <3>1. PICK j \in T : vs[Position(vs, h, j)] = w
      BY <1>3
    <3>2. first < j
      BY <1>1, <2>4, <3>1
    <3> QED BY <1>1, <2>4, <3>1, <3>2, WalkInOrder
  <2>8. IsNearest(O, h, v)
    BY <2>6, <2>7 DEF IsNearest
  <2> QED BY <2>6, <2>8 DEF IsNearest
<1> QED BY <1>4, <1>5

-----------------------------------------------------------------------------
(* Whom a walk names, in a list that need not be sorted                     *)

\* Search ends at a vnode or one past the last.
LEMMA SearchRange ==
    ASSUME NEW vs \in Seq(Vnode), NEW h \in Nat
    PROVE  Search(vs, h) \in 1..(Len(vs) + 1)
<1> DEFINE T == {i \in 1..Len(vs) : vs[i].hash >= h}
           IsFirst(i) == vs[i].hash >= h /\ \A j \in 1..(i - 1) : vs[j].hash < h
<1>1. Len(vs) \in Nat /\ \A k \in 1..Len(vs) : vs[k].hash \in Nat
  BY VnodeAt
<1>2. CASE T = {}
  BY <1>1, <1>2 DEF Search
<1>3. CASE T # {}
  <2>1. T \in SUBSET Nat
    OBVIOUS
  <2>2. PICK x \in T : \A y \in T : x <= y
    BY <1>3, <2>1, LeastElement
  <2>3. x \in 1..Len(vs) /\ IsFirst(x)
    <3>1. ASSUME NEW j \in 1..(x - 1) PROVE vs[j].hash < h
      <4>1. j \in 1..Len(vs) /\ j \notin T
        BY <1>1, <2>2
      <4> QED BY <1>1, <4>1
    <3> QED BY <2>2, <3>1
  <2>4. Search(vs, h) = CHOOSE i \in 1..Len(vs) : IsFirst(i)
    BY <1>3 DEF Search
  <2>5. Search(vs, h) \in 1..Len(vs)
    BY <2>3, <2>4
  <2> QED BY <1>1, <2>5
<1> QED BY <1>2, <1>3

\* Every vnode of the walk is one of the list.
LEMMA PeerAfterListed ==
    ASSUME NEW vs \in Seq(Vnode), vs # <<>>, NEW h \in Nat, NEW seen \in Nat
    PROVE  PeerAfter(vs, h, seen) \in {v.peer : v \in ToSet(vs)}
<1> DEFINE m == Search(vs, h) - 1 + seen
           n == Len(vs)
<1>1. n \in Nat /\ n > 0 /\ DOMAIN vs = 1..n
  BY EmptySeq, LenProperties
<1>2. m \in Nat
  <2>1. Search(vs, h) \in 1..(n + 1)
    BY SearchRange
  <2> HIDE DEF n
  <2> QED BY <1>1, <2>1
<1>3. (m % n) + 1 \in 1..n
  <2> HIDE DEF m, n
  <2> QED BY <1>1, <1>2
<1>4. vs[(m % n) + 1] \in ToSet(vs)
  BY <1>1, <1>3 DEF ToSet
<1> QED BY <1>4 DEF PeerAfter

\* Owner and Fallback name a peer of the list, or nobody.
LEMMA LookupListed ==
    ASSUME NEW vs \in Seq(Vnode), NEW h \in Nat
    PROVE  /\ Owner(vs, h) # NoPeer => Owner(vs, h) \in {v.peer : v \in ToSet(vs)}
           /\ \A x : Fallback(vs, h, x) # NoPeer => Fallback(vs, h, x) \in {v.peer : v \in ToSet(vs)}
<1>1. Owner(vs, h) # NoPeer => Owner(vs, h) \in {v.peer : v \in ToSet(vs)}
  BY PeerAfterListed DEF Owner
<1>2. ASSUME NEW x, Fallback(vs, h, x) # NoPeer
      PROVE  Fallback(vs, h, x) \in {v.peer : v \in ToSet(vs)}
  <2> DEFINE T == {seen \in 0..(Len(vs) - 1) : PeerAfter(vs, h, seen) # x}
             IsFirst(seen) == /\ PeerAfter(vs, h, seen) # x
                              /\ \A j \in 0..(seen - 1) : PeerAfter(vs, h, j) = x
  <2>1. T # {} /\ T \in SUBSET Nat
    BY <1>2 DEF Fallback
  <2>2. Fallback(vs, h, x) = PeerAfter(vs, h, CHOOSE seen \in 0..(Len(vs) - 1) : IsFirst(seen))
    BY <2>1 DEF Fallback
  <2> HIDE DEF T
  <2>3. PICK k \in T : \A y \in T : k <= y
    BY <2>1, LeastElement
  <2>4. k \in 0..(Len(vs) - 1) /\ IsFirst(k)
    BY <2>3 DEF T
  <2>5. (CHOOSE seen \in 0..(Len(vs) - 1) : IsFirst(seen)) \in 0..(Len(vs) - 1)
    BY <2>4
  <2>6. vs # <<>>
    BY <2>4, EmptySeq, LenProperties
  <2> DEFINE first == CHOOSE seen \in 0..(Len(vs) - 1) : IsFirst(seen)
  <2>7. first \in Nat /\ Fallback(vs, h, x) = PeerAfter(vs, h, first)
    BY <2>2, <2>5
  <2> HIDE DEF first
  <2> QED BY <2>6, <2>7, PeerAfterListed
<1> QED BY <1>1, <1>2

=============================================================================
