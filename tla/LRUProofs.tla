----------------------------- MODULE LRUProofs -----------------------------
(***************************************************************************)
(* Lemmas about sums and about the LRU index: what Touch, Remove and Evict *)
(* keep, add and take away, and that curSize stays the sum of the sizes.   *)
(***************************************************************************)
EXTENDS LRU, SequenceTheorems, FiniteSetTheorems, WellFoundedInduction, TLAPS

-----------------------------------------------------------------------------
(* Sums over finite sets                                                    *)

\* A non-empty set of naturals has a least element.
LEMMA LeastElement ==
    ASSUME NEW T \in SUBSET Nat, T # {}
    PROVE  \E x \in T : \A y \in T : x <= y
<1>1. PICK x \in T : \A y \in T : ~(<<y, x>> \in OpToRel(<, Nat))
  BY NatLessThanWellFounded, WFMin
<1>2. \A y \in T : y < x => <<y, x>> \in OpToRel(<, Nat)
  BY DEF OpToRel
<1>3. \A y \in T : y \in Nat /\ ~(y < x)
  BY <1>1, <1>2
<1>4. \A y \in T : x <= y
  BY <1>3
<1> QED BY <1>4

\* g gives the total of f over every subset of U.
IsTotal(f, U, g) ==
    /\ g \in [SUBSET U -> Nat]
    /\ g[{}] = 0
    /\ \A s \in SUBSET U : \A x \in s : g[s] = f[x] + g[s \ {x}]

\* One element more: its value is added to every total that counts it.
LEMMA TotalExtends ==
    ASSUME NEW f, NEW V, NEW x \in V, f[x] \in Nat,
           \A y \in V : f[y] \in Nat,
           NEW h, IsTotal(f, V \ {x}, h)
    PROVE  \E g : IsTotal(f, V, g)
<1> DEFINE W == V \ {x}
           g == [s \in SUBSET V |-> IF x \in s THEN f[x] + h[s \ {x}] ELSE h[s]]
<1>1. /\ \A s \in SUBSET W : h[s] \in Nat
      /\ h[{}] = 0
      /\ \A s \in SUBSET W : \A y \in s : h[s] = f[y] + h[s \ {y}]
  BY DEF IsTotal
<1>2. \A s \in SUBSET V : s \ {x} \in SUBSET W /\ (x \notin s => s \in SUBSET W)
  OBVIOUS
<1>3. g \in [SUBSET V -> Nat]
  BY <1>1, <1>2
<1>4. g[{}] = 0
  BY <1>1
<1>5. ASSUME NEW s \in SUBSET V, NEW y \in s
      PROVE  g[s] = f[y] + g[s \ {y}]
  <2>0. s \ {y} \in SUBSET V /\ y \in V
    OBVIOUS
  <2>1. CASE y = x
    <3>1. g[s] = f[x] + h[s \ {x}] /\ g[s \ {x}] = h[s \ {x}]
      BY <2>0, <2>1
    <3> HIDE DEF g
    <3> QED BY <3>1, <2>1
  <2>2. CASE y # x /\ x \in s
    <3>1. g[s] = f[x] + h[s \ {x}] /\ g[s \ {y}] = f[x] + h[(s \ {y}) \ {x}]
      BY <2>0, <2>2
    <3>2. (s \ {y}) \ {x} = (s \ {x}) \ {y}
      OBVIOUS
    <3>3. s \ {x} \in SUBSET W /\ y \in s \ {x}
      BY <2>2
    <3>4. h[s \ {x}] = f[y] + h[(s \ {x}) \ {y}]
      BY <3>3, <1>1
    <3>5. (s \ {x}) \ {y} \in SUBSET W
      OBVIOUS
    <3>6. h[(s \ {x}) \ {y}] \in Nat /\ f[y] \in Nat
      BY <3>5, <1>1, <2>0
    <3> HIDE DEF g
    <3>7. PICK r \in Nat : r = h[(s \ {x}) \ {y}]
      BY <3>6
    <3>8. g[s] = f[x] + (f[y] + r) /\ g[s \ {y}] = f[x] + r
      BY <3>1, <3>2, <3>4, <3>7
    <3>9. f[x] + (f[y] + r) = f[y] + (f[x] + r)
      BY <3>6
    <3> QED BY <3>8, <3>9
  <2>3. CASE x \notin s
    <3>1. g[s] = h[s] /\ g[s \ {y}] = h[s \ {y}]
      BY <2>0, <2>3
    <3>2. s \in SUBSET W
      BY <2>3
    <3> HIDE DEF g
    <3> QED BY <3>1, <3>2, <1>1
  <2> QED BY <2>1, <2>2, <2>3
<1> HIDE DEF g
<1>6. IsTotal(f, V, g)
  BY <1>3, <1>4, <1>5 DEF IsTotal
<1> QED BY <1>6

\* Natural numbers over a finite set have totals: a smallest set without them
\* would have an element, and the rest would have them.
LEMMA TotalExists ==
    ASSUME NEW U, IsFiniteSet(U), NEW f, \A x \in U : f[x] \in Nat
    PROVE  \E g : IsTotal(f, U, g)
<1> DEFINE Without == {V \in SUBSET U : ~\E g : IsTotal(f, V, g)}
           T == {Cardinality(V) : V \in Without}
<1>1. \A V \in SUBSET U : IsFiniteSet(V) /\ Cardinality(V) \in Nat
  BY FS_Subset, FS_CardinalityType
<1>2. SUFFICES ASSUME Without # {} PROVE FALSE
  OBVIOUS
<1>3. T \in SUBSET Nat /\ T # {}
  BY <1>1, <1>2
<1>4. PICK n \in T : \A m \in T : n <= m
  <2> HIDE DEF T
  <2> QED BY <1>3, LeastElement
<1>5. PICK V \in Without : Cardinality(V) = n
  BY <1>4
<1>6. V # {}
  <2>1. SUFFICES ASSUME V = {} PROVE FALSE
    OBVIOUS
  <2> DEFINE z == [s \in SUBSET {} |-> 0]
  <2>2. IsTotal(f, {}, z)
    BY DEF IsTotal
  <2> QED BY <2>1, <2>2, <1>5
<1>7. PICK x \in V : TRUE
  BY <1>6
<1>8. V \ {x} \in SUBSET U /\ Cardinality(V \ {x}) = n - 1 /\ n \in Nat
  BY <1>1, <1>3, <1>5, <1>7, FS_RemoveElement
<1>9. V \ {x} \notin Without
  <2>1. SUFFICES ASSUME V \ {x} \in Without PROVE FALSE
    OBVIOUS
  <2>2. n - 1 \in T
    BY <2>1, <1>8
  <2> HIDE DEF T
  <2>3. n <= n - 1
    BY <2>2, <1>4
  <2> QED BY <2>3, <1>8
<1>10. PICK h : IsTotal(f, V \ {x}, h)
  BY <1>8, <1>9
<1>11. \E g : IsTotal(f, V, g)
  BY <1>10, TotalExtends
<1> QED BY <1>5, <1>11

\* The fold of the library computes the total.
LEMMA SumIsTotal ==
    ASSUME NEW U, IsFiniteSet(U), NEW f, NEW g, IsTotal(f, U, g), NEW S \in SUBSET U
    PROVE  SumFunctionOnSet(f, S) = g[S]
<1> DEFINE Solves(h) == h = [s \in SUBSET S |-> IF s = {} THEN 0
                               ELSE f[CHOOSE x \in s : TRUE] + h[s \ {CHOOSE x \in s : TRUE}]]
           h == CHOOSE i : Solves(i)
           G == [s \in SUBSET S |-> g[s]]
<1>1. SumFunctionOnSet(f, S) = h[S]
  BY DEF SumFunctionOnSet, FoldFunctionOnSet, MapThenFoldSet
<1>2. /\ g[{}] = 0
      /\ \A s \in SUBSET U : \A x \in s : g[s] = f[x] + g[s \ {x}]
  BY DEF IsTotal
<1>3. \A s \in SUBSET S : s # {} => /\ (CHOOSE x \in s : TRUE) \in s
                                    /\ s \ {CHOOSE x \in s : TRUE} \in SUBSET S
  OBVIOUS
<1>4. ASSUME NEW s \in SUBSET S
      PROVE  G[s] = IF s = {} THEN 0
                    ELSE f[CHOOSE x \in s : TRUE] + G[s \ {CHOOSE x \in s : TRUE}]
  <2>1. CASE s = {}
    BY <2>1, <1>2
  <2>2. CASE s # {}
    <3>1. PICK x : x = CHOOSE y \in s : TRUE
      OBVIOUS
    <3>2. x \in s /\ s \ {x} \in SUBSET S /\ s \in SUBSET U
      BY <2>2, <3>1
    <3>3. g[s] = f[x] + g[s \ {x}]
      BY <3>2, <1>2
    <3>4. G[s] = g[s] /\ G[s \ {x}] = g[s \ {x}]
      BY <3>2
    <3> HIDE DEF G
    <3> QED BY <2>2, <3>1, <3>3, <3>4
  <2> QED BY <2>1, <2>2
<1>5. Solves(G)
  BY <1>4
<1>6. Solves(h)
  <2> HIDE DEF Solves
  <2> QED BY <1>5
<1> HIDE DEF h
<1> DEFINE Off == {s \in SUBSET S : h[s] # g[s]}
           T == {Cardinality(s) : s \in Off}
<1>7. \A s \in SUBSET S : IsFiniteSet(s) /\ Cardinality(s) \in Nat
  BY FS_Subset, FS_CardinalityType
<1>8. Off = {}
  <2>1. SUFFICES ASSUME Off # {} PROVE FALSE
    OBVIOUS
  <2>2. T \in SUBSET Nat /\ T # {}
    BY <1>7, <2>1
  <2>3. PICK n \in T : \A m \in T : n <= m
    <3> HIDE DEF T
    <3> QED BY <2>2, LeastElement
  <2>4. PICK s \in Off : Cardinality(s) = n
    BY <2>3
  <2>5. s # {}
    <3>1. h[{}] = 0
      BY <1>6
    <3> QED BY <3>1, <2>4, <1>2
  <2>6. PICK x : x = CHOOSE y \in s : TRUE
    OBVIOUS
  <2>7. x \in s /\ s \in SUBSET S /\ s \ {x} \in SUBSET S
    BY <2>5, <2>6
  <2>8. h[s] = f[x] + h[s \ {x}]
    BY <1>6, <2>5, <2>6, <2>7
  <2>9. h[s \ {x}] = g[s \ {x}]
    <3>1. SUFFICES ASSUME s \ {x} \in Off PROVE FALSE
      BY <2>7
    <3>2. Cardinality(s \ {x}) = n - 1 /\ n \in Nat
      BY <1>7, <2>2, <2>4, <2>7, FS_RemoveElement
    <3>3. n - 1 \in T
      BY <3>1, <3>2
    <3> HIDE DEF T
    <3>4. n <= n - 1
      BY <3>3, <2>3
    <3> QED BY <3>2, <3>4
  <2>10. s \in SUBSET U
    BY <2>7
  <2>11. g[s] = f[x] + g[s \ {x}]
    BY <2>10, <2>7, <1>2
  <2>12. h[s] = g[s]
    BY <2>8, <2>9, <2>11
  <2> QED BY <2>4, <2>12
<1>9. h[S] = g[S]
  BY <1>8
<1> QED BY <1>1, <1>9

\* A total of natural numbers is one; an element's value can be taken out.
LEMMA SumStep ==
    ASSUME NEW S, IsFiniteSet(S), NEW f, \A x \in S : f[x] \in Nat
    PROVE  /\ SumFunctionOnSet(f, S) \in Nat
           /\ \A x \in S : SumFunctionOnSet(f, S) = f[x] + SumFunctionOnSet(f, S \ {x})
           /\ S = {} => SumFunctionOnSet(f, S) = 0
<1>1. PICK g : IsTotal(f, S, g)
  BY TotalExists
<1>2. \A s \in SUBSET S : SumFunctionOnSet(f, s) = g[s]
  BY <1>1, SumIsTotal
<1>3. /\ g \in [SUBSET S -> Nat] /\ g[{}] = 0
      /\ \A x \in S : g[S] = f[x] + g[S \ {x}]
  <2>1. S \in SUBSET S
    OBVIOUS
  <2> QED BY <1>1, <2>1 DEF IsTotal
<1>4. S \in SUBSET S /\ \A x \in S : S \ {x} \in SUBSET S
  OBVIOUS
<1> QED BY <1>2, <1>3, <1>4

\* Only the values over the set count.
LEMMA SumSame ==
    ASSUME NEW S, IsFiniteSet(S), NEW f, NEW e,
           \A x \in S : f[x] \in Nat /\ f[x] = e[x]
    PROVE  SumFunctionOnSet(f, S) = SumFunctionOnSet(e, S)
<1>1. PICK g : IsTotal(f, S, g)
  BY TotalExists
<1>2. \A s \in SUBSET S : \A x \in s : f[x] = e[x]
  OBVIOUS
<1>3. IsTotal(e, S, g)
  BY <1>1, <1>2 DEF IsTotal
<1> QED BY <1>1, <1>3, SumIsTotal

\* Disjoint sets: the totals add up.
LEMMA SumOfParts ==
    ASSUME NEW A, NEW B, IsFiniteSet(A \cup B), A \cap B = {}, NEW f,
           \A x \in A \cup B : f[x] \in Nat
    PROVE  SumFunctionOnSet(f, A \cup B) = SumFunctionOnSet(f, A) + SumFunctionOnSet(f, B)
<1> DEFINE U == A \cup B
<1>1. PICK g : IsTotal(f, U, g)
  BY TotalExists
<1> DEFINE e == [s \in SUBSET U |-> g[s \cap A] + g[s \cap B]]
<1>2. /\ \A s \in SUBSET U : g[s] \in Nat
      /\ g[{}] = 0
      /\ \A s \in SUBSET U : \A x \in s : g[s] = f[x] + g[s \ {x}]
  BY <1>1 DEF IsTotal
<1>3. \A s \in SUBSET U : s \cap A \in SUBSET U /\ s \cap B \in SUBSET U
  OBVIOUS
<1>4. e \in [SUBSET U -> Nat]
  BY <1>2, <1>3
<1>5. e[{}] = 0
  <2>1. {} \cap A = {} /\ {} \cap B = {} /\ {} \in SUBSET U
    OBVIOUS
  <2>2. e[{}] = g[{} \cap A] + g[{} \cap B]
    OBVIOUS
  <2> HIDE DEF e
  <2> QED BY <2>1, <2>2, <1>2
<1>6. ASSUME NEW s \in SUBSET U, NEW x \in s
      PROVE  e[s] = f[x] + e[s \ {x}]
  <2>1. s \ {x} \in SUBSET U
    OBVIOUS
  <2>2. e[s] = g[s \cap A] + g[s \cap B]
    OBVIOUS
  <2>3. e[s \ {x}] = g[(s \ {x}) \cap A] + g[(s \ {x}) \cap B]
    BY <2>1
  <2> HIDE DEF e
  <2>4. /\ g[s \cap A] \in Nat /\ g[s \cap B] \in Nat
        /\ g[(s \ {x}) \cap A] \in Nat /\ g[(s \ {x}) \cap B] \in Nat
    BY <2>1, <1>2, <1>3
  <2>5. f[x] \in Nat
    OBVIOUS
  <2>6. CASE x \in A
    <3>1. (s \ {x}) \cap A = (s \cap A) \ {x} /\ (s \ {x}) \cap B = s \cap B /\ x \in s \cap A
      BY <2>6
    <3>2. g[s \cap A] = f[x] + g[(s \cap A) \ {x}]
      BY <3>1, <1>2, <1>3
    <3> DEFINE u == g[(s \ {x}) \cap A]
               v == g[(s \ {x}) \cap B]
    <3>3. e[s] = (f[x] + u) + v /\ e[s \ {x}] = u + v
      BY <3>1, <3>2, <2>2, <2>3
    <3>4. u \in Nat /\ v \in Nat
      BY <2>4
    <3> HIDE DEF u, v
    <3>5. (f[x] + u) + v = f[x] + (u + v)
      BY <3>4, <2>5
    <3> QED BY <3>3, <3>5
  <2>7. CASE x \in B
    <3>1. (s \ {x}) \cap B = (s \cap B) \ {x} /\ (s \ {x}) \cap A = s \cap A /\ x \in s \cap B
      BY <2>7
    <3>2. g[s \cap B] = f[x] + g[(s \cap B) \ {x}]
      BY <3>1, <1>2, <1>3
    <3> DEFINE u == g[(s \ {x}) \cap A]
               v == g[(s \ {x}) \cap B]
    <3>3. e[s] = u + (f[x] + v) /\ e[s \ {x}] = u + v
      BY <3>1, <3>2, <2>2, <2>3
    <3>4. u \in Nat /\ v \in Nat
      BY <2>4
    <3> HIDE DEF u, v
    <3>5. u + (f[x] + v) = f[x] + (u + v)
      BY <3>4, <2>5
    <3> QED BY <3>3, <3>5
  <2> QED BY <2>6, <2>7
<1>7. e[U] = g[A] + g[B]
  <2>1. U \in SUBSET U /\ U \cap A = A /\ U \cap B = B
    OBVIOUS
  <2> QED BY <2>1
<1> HIDE DEF e
<1>8. IsTotal(f, U, e)
  BY <1>4, <1>5, <1>6 DEF IsTotal
<1>9. A \in SUBSET U /\ B \in SUBSET U /\ U \in SUBSET U
  OBVIOUS
<1>10. /\ SumFunctionOnSet(f, U) = e[U]
       /\ SumFunctionOnSet(f, A) = g[A]
       /\ SumFunctionOnSet(f, B) = g[B]
  BY <1>1, <1>8, <1>9, SumIsTotal
<1> QED BY <1>7, <1>10

\* A part of a set with smaller values has the smaller total.
LEMMA SumMonotone ==
    ASSUME NEW T, IsFiniteSet(T), NEW S \in SUBSET T, NEW f, NEW e,
           \A x \in T : e[x] \in Nat,
           \A x \in S : f[x] \in Nat /\ f[x] <= e[x]
    PROVE  SumFunctionOnSet(f, S) <= SumFunctionOnSet(e, T)
<1> DEFINE d == [x \in S |-> e[x] - f[x]]
<1>1. IsFiniteSet(S) /\ IsFiniteSet(T \ S)
  BY FS_Subset
<1>2. \A x \in S : e[x] \in Nat /\ d[x] \in Nat /\ e[x] = f[x] + d[x]
  OBVIOUS
<1> HIDE DEF d
<1>3. PICK g : IsTotal(f, S, g)
  BY <1>1, TotalExists
<1>4. PICK h : IsTotal(d, S, h)
  BY <1>1, <1>2, TotalExists
<1> DEFINE k == [s \in SUBSET S |-> g[s] + h[s]]
<1>5. /\ \A s \in SUBSET S : g[s] \in Nat /\ h[s] \in Nat
      /\ g[{}] = 0 /\ h[{}] = 0
      /\ \A s \in SUBSET S : \A x \in s : g[s] = f[x] + g[s \ {x}] /\ h[s] = d[x] + h[s \ {x}]
  BY <1>3, <1>4 DEF IsTotal
<1>6. IsTotal(e, S, k)
  <2>1. k \in [SUBSET S -> Nat] /\ k[{}] = 0
    BY <1>5
  <2>2. ASSUME NEW s \in SUBSET S, NEW x \in s PROVE k[s] = e[x] + k[s \ {x}]
    <3>1. s \ {x} \in SUBSET S /\ x \in S
      OBVIOUS
    <3>2. k[s] = g[s] + h[s] /\ k[s \ {x}] = g[s \ {x}] + h[s \ {x}]
      BY <3>1
    <3> HIDE DEF k
    <3>3. PICK u \in Nat, v \in Nat : u = g[s \ {x}] /\ v = h[s \ {x}]
      BY <3>1, <1>5
    <3>4. k[s] = (f[x] + u) + (d[x] + v) /\ k[s \ {x}] = u + v
      BY <3>2, <3>3, <1>5
    <3>5. (f[x] + u) + (d[x] + v) = (f[x] + d[x]) + (u + v)
      BY <3>1, <1>2
    <3> QED BY <3>1, <3>4, <3>5, <1>2
  <2> HIDE DEF k
  <2> QED BY <2>1, <2>2 DEF IsTotal
<1>7. k[S] = g[S] + h[S] /\ g[S] \in Nat /\ h[S] \in Nat
  BY <1>5
<1> HIDE DEF k
<1>8. SumFunctionOnSet(f, S) = g[S] /\ SumFunctionOnSet(e, S) = k[S]
  BY <1>1, <1>3, <1>6, SumIsTotal
<1>9. SumFunctionOnSet(e, T) = SumFunctionOnSet(e, S) + SumFunctionOnSet(e, T \ S)
  <2>1. S \cup (T \ S) = T /\ S \cap (T \ S) = {}
    OBVIOUS
  <2> QED BY <2>1, SumOfParts
<1>10. PICK r \in Nat : r = SumFunctionOnSet(e, T \ S)
  BY <1>1, SumStep
<1>11. SumFunctionOnSet(e, T) = (SumFunctionOnSet(f, S) + h[S]) + r
  BY <1>7, <1>8, <1>9, <1>10
<1> QED BY <1>7, <1>8, <1>10, <1>11

\* e lists, at the positions J, the values of f over U, each once: position i has
\* that of h[i].
Relists(e, J, h, f, U) ==
    /\ IsFiniteSet(J) /\ IsFiniteSet(U)
    /\ \A i \in J : h[i] \in U /\ e[i] = f[h[i]]
    /\ \A u \in U : f[u] \in Nat /\ \E i \in J : h[i] = u
    /\ \A i, j \in J : h[i] = h[j] => i = j

\* Values listed by position without repetition total what their owners' do.
LEMMA SumReindexed ==
    ASSUME NEW J, NEW h, NEW f, NEW e, NEW U, Relists(e, J, h, f, U)
    PROVE  SumFunctionOnSet(e, J) = SumFunctionOnSet(f, U)
<1>0. /\ IsFiniteSet(J) /\ IsFiniteSet(U)
      /\ \A i \in J : h[i] \in U /\ e[i] = f[h[i]]
      /\ \A u \in U : f[u] \in Nat /\ \E i \in J : h[i] = u
      /\ \A i, j \in J : h[i] = h[j] => i = j
  BY DEF Relists
<1>1. PICK g : IsTotal(f, U, g)
  <2>1. \A x \in U : f[x] \in Nat
    BY <1>0
  <2> QED BY <2>1, <1>0, TotalExists
<1> DEFINE k == [s \in SUBSET J |-> g[{h[i] : i \in s}]]
<1>2. /\ \A s \in SUBSET U : g[s] \in Nat
      /\ g[{}] = 0
      /\ \A s \in SUBSET U : \A x \in s : g[s] = f[x] + g[s \ {x}]
  BY <1>1 DEF IsTotal
<1>3. \A s \in SUBSET J : {h[i] : i \in s} \in SUBSET U
  BY <1>0
<1>4. k \in [SUBSET J -> Nat]
  BY <1>2, <1>3
<1>5. k[{}] = 0
  <2>1. {h[i] : i \in {}} = {} /\ {} \in SUBSET J
    OBVIOUS
  <2> QED BY <2>1, <1>2
<1>6. ASSUME NEW s \in SUBSET J, NEW x \in s
      PROVE  k[s] = e[x] + k[s \ {x}]
  <2> DEFINE H == {h[i] : i \in s}
  <2>1. H \in SUBSET U /\ h[x] \in H
    BY <1>3
  <2>2. {h[i] : i \in s \ {x}} = H \ {h[x]}
    BY <1>0
  <2>3. k[s] = g[H] /\ k[s \ {x}] = g[{h[i] : i \in s \ {x}}]
    OBVIOUS
  <2>4. e[x] = f[h[x]]
    BY <1>0
  <2> HIDE DEF k, H
  <2>5. g[H] = f[h[x]] + g[H \ {h[x]}]
    BY <2>1, <1>2
  <2> QED BY <2>2, <2>3, <2>4, <2>5
<1>7. J \in SUBSET J /\ U \in SUBSET U /\ k[J] = g[U]
  <2>1. {h[i] : i \in J} = U
    BY <1>0
  <2> QED BY <2>1
<1> HIDE DEF k
<1>8. IsTotal(e, J, k)
  BY <1>4, <1>5, <1>6 DEF IsTotal
<1>9. SumFunctionOnSet(e, J) = k[J] /\ SumFunctionOnSet(f, U) = g[U]
  BY <1>0, <1>1, <1>7, <1>8, SumIsTotal
<1> QED BY <1>7, <1>9

-----------------------------------------------------------------------------
(* Sequences                                                                *)

\* The elements of a sequence, by position.
LEMMA ToSetOfSeq ==
    ASSUME NEW S, NEW s \in Seq(S)
    PROVE  /\ \A e : e \in ToSet(s) <=> \E i \in 1..Len(s) : s[i] = e
           /\ ToSet(s) \subseteq S
           /\ \A e : Contains(s, e) <=> e \in ToSet(s)
BY LenProperties, ElementOfSeq DEF ToSet, Contains

\* A sequence has finitely many elements.
LEMMA ToSetFinite ==
    ASSUME NEW S, NEW s \in Seq(S)
    PROVE  IsFiniteSet(ToSet(s))
<1>1. Len(s) \in Nat /\ s \in [1..Len(s) -> S]
  BY LenProperties, ElementOfSeq
<1>2. s \in Surjection(1..Len(s), ToSet(s))
  <2>1. \A e \in ToSet(s) : \E i \in 1..Len(s) : s[i] = e
    BY ToSetOfSeq
  <2>2. \A i \in 1..Len(s) : s[i] \in ToSet(s)
    BY ToSetOfSeq
  <2>3. s \in [1..Len(s) -> ToSet(s)]
    BY <1>1, <2>2
  <2> QED BY <2>1, <2>3 DEF Surjection
<1>3. IsFiniteSet(1..Len(s))
  BY <1>1, FS_Interval
<1> QED BY <1>2, <1>3, FS_Surjection

\* All elements but the head are in the tail.
LEMMA ToSetOfTail ==
    ASSUME NEW S, NEW s \in Seq(S), s # <<>>, NEW e \in ToSet(s), e # Head(s)
    PROVE  e \in ToSet(Tail(s)) /\ Tail(s) # <<>>
<1>1. PICK i \in 1..Len(s) : s[i] = e
  BY ToSetOfSeq
<1>2. /\ Tail(s) \in Seq(S) /\ Len(Tail(s)) = Len(s) - 1 /\ Len(s) \in Nat
      /\ \A j \in 1..Len(Tail(s)) : Tail(s)[j] = s[j + 1]
  BY HeadTailProperties, LenProperties
<1>3. i # 1
  BY <1>1
<1>4. i - 1 \in 1..Len(Tail(s)) /\ Tail(s)[i - 1] = e
  BY <1>1, <1>2, <1>3
<1>5. e \in ToSet(Tail(s))
  <2>1. \E j \in 1..Len(Tail(s)) : Tail(s)[j] = e
    BY <1>4
  <2> QED BY <2>1, <1>2, ToSetOfSeq
<1>6. Len(Tail(s)) # 0
  BY <1>2, <1>4
<1> QED BY <1>5, <1>6, EmptySeq

\* A function on an initial segment of the numbers is a sequence.
LEMMA FunctionIsSeq ==
    ASSUME NEW S, NEW n \in Nat, NEW f \in [1..n -> S]
    PROVE  f \in Seq(S)
<1>1. f \in UNION {[1..m -> S] : m \in Nat}
  OBVIOUS
<1> QED BY <1>1, SeqDef

\* Cons adds its element and keeps the others.
LEMMA ConsKeeps ==
    ASSUME NEW S, NEW s \in Seq(S), NEW e \in S
    PROVE  /\ Cons(e, s) \in Seq(S)
           /\ ToSet(Cons(e, s)) = ToSet(s) \cup {e}
           /\ IsInjective(s) /\ e \notin ToSet(s) => IsInjective(Cons(e, s))
<1>1. /\ <<e>> \in Seq(S) /\ Len(<<e>>) = 1 /\ <<e>>[1] = e
  OBVIOUS
<1>2. Cons(e, s) = <<e>> \o s
  BY DEF Cons
<1>3. /\ Cons(e, s) \in Seq(S)
      /\ Len(Cons(e, s)) = Len(s) + 1
      /\ \A i \in 1..(Len(s) + 1) : Cons(e, s)[i] = IF i <= 1 THEN e ELSE s[i - 1]
  BY <1>1, <1>2, ConcatProperties, LenProperties
<1>4. ASSUME NEW x \in ToSet(Cons(e, s)) PROVE x \in ToSet(s) \cup {e}
  <2>1. PICK i \in 1..(Len(s) + 1) : Cons(e, s)[i] = x
    BY <1>3, ToSetOfSeq
  <2>2. CASE i <= 1
    BY <2>1, <2>2, <1>3
  <2>3. CASE i > 1
    <3>1. i - 1 \in 1..Len(s) /\ s[i - 1] = x
      BY <2>1, <2>3, <1>3, LenProperties
    <3> QED BY <3>1, ToSetOfSeq
  <2> QED BY <2>2, <2>3, LenProperties
<1>5. ASSUME NEW x \in ToSet(s) PROVE x \in ToSet(Cons(e, s))
  <2>1. PICK i \in 1..Len(s) : s[i] = x
    BY <1>5, ToSetOfSeq
  <2>2. i + 1 \in 1..(Len(s) + 1) /\ Cons(e, s)[i + 1] = x
    BY <2>1, <1>3, LenProperties
  <2> QED BY <2>2, <1>3, ToSetOfSeq
<1>6. e \in ToSet(Cons(e, s))
  BY <1>3, ToSetOfSeq, LenProperties
<1>7. ASSUME IsInjective(s), e \notin ToSet(s)
      PROVE  IsInjective(Cons(e, s))
  <2>1. Len(s) \in Nat /\ DOMAIN s = 1..Len(s) /\ DOMAIN Cons(e, s) = 1..(Len(s) + 1)
    BY <1>3, LenProperties
  <2>2. \A i \in 1..Len(s) : s[i] # e
    BY <1>7, ToSetOfSeq
  <2>3. ASSUME NEW i \in 1..(Len(s) + 1), NEW j \in 1..(Len(s) + 1),
               Cons(e, s)[i] = Cons(e, s)[j]
        PROVE  i = j
    <3>1. CASE i <= 1 /\ j <= 1
      BY <3>1, <2>1
    <3>2. CASE i <= 1 /\ j > 1
      <4>1. j - 1 \in 1..Len(s)
        BY <3>2, <2>1
      <4> QED BY <4>1, <3>2, <2>1, <2>2, <2>3, <1>3
    <3>3. CASE i > 1 /\ j <= 1
      <4>1. i - 1 \in 1..Len(s)
        BY <3>3, <2>1
      <4> QED BY <4>1, <3>3, <2>1, <2>2, <2>3, <1>3
    <3>4. CASE i > 1 /\ j > 1
      <4>1. i - 1 \in 1..Len(s) /\ j - 1 \in 1..Len(s)
        BY <3>4, <2>1
      <4>2. s[i - 1] = s[j - 1]
        BY <3>4, <2>1, <2>3, <1>3
      <4>3. i - 1 = j - 1
        BY <4>1, <4>2, <2>1, <1>7 DEF IsInjective
      <4> QED BY <4>3
    <3> QED BY <3>1, <3>2, <3>3, <3>4, <2>1
  <2> QED BY <2>1, <2>3 DEF IsInjective
<1> QED BY <1>3, <1>4, <1>5, <1>6, <1>7

\* RemoveAt loses at most the element at the position, and exactly that one from a
\* sequence without duplicates.
LEMMA RemoveAtKeeps ==
    ASSUME NEW S, NEW s \in Seq(S), NEW i \in 1..Len(s)
    PROVE  /\ RemoveAt(s, i) \in Seq(S)
           /\ ToSet(s) \subseteq ToSet(RemoveAt(s, i)) \cup {s[i]}
           /\ IsInjective(s) => /\ IsInjective(RemoveAt(s, i))
                                /\ ToSet(RemoveAt(s, i)) = ToSet(s) \ {s[i]}
<1> DEFINE front == SubSeq(s, 1, i - 1)
           back  == SubSeq(s, i + 1, Len(s))
<1>0. Len(s) \in Nat /\ \A j \in 1..Len(s) : s[j] \in S
  BY LenProperties, ElementOfSeq
<1>1. /\ front \in Seq(S) /\ Len(front) = i - 1
      /\ \A j \in 1..(i - 1) : front[j] = s[j]
  <2>1. \A j \in 1..(i - 1) : s[j] \in S
    BY <1>0
  <2> HIDE DEF front
  <2>2. /\ front \in Seq(S)
        /\ Len(front) = IF 1 <= i - 1 THEN (i - 1) - 1 + 1 ELSE 0
        /\ \A j \in 1..((i - 1) - 1 + 1) : front[j] = s[1 + j - 1]
    BY <1>0, <2>1, SubSeqProperties DEF front
  <2> QED BY <2>2, <1>0
<1>2. /\ back \in Seq(S) /\ Len(back) = Len(s) - i
      /\ \A j \in 1..(Len(s) - i) : back[j] = s[i + j]
  <2>1. \A j \in (i + 1)..Len(s) : s[j] \in S
    BY <1>0
  <2> HIDE DEF back
  <2>2. /\ back \in Seq(S)
        /\ Len(back) = IF i + 1 <= Len(s) THEN Len(s) - (i + 1) + 1 ELSE 0
        /\ \A j \in 1..(Len(s) - (i + 1) + 1) : back[j] = s[(i + 1) + j - 1]
    BY <1>0, <2>1, SubSeqProperties DEF back
  <2> QED BY <2>2, <1>0
<1>3. RemoveAt(s, i) = front \o back
  BY DEF RemoveAt
<1> HIDE DEF front, back
<1>4. /\ RemoveAt(s, i) \in Seq(S)
      /\ Len(RemoveAt(s, i)) = Len(s) - 1
      /\ \A j \in 1..(Len(s) - 1) : RemoveAt(s, i)[j] = IF j <= i - 1 THEN s[j] ELSE s[j + 1]
  <2>1. /\ front \o back \in Seq(S)
        /\ Len(front \o back) = Len(front) + Len(back)
        /\ \A j \in 1..(Len(front) + Len(back)) :
              (front \o back)[j] = IF j <= Len(front) THEN front[j] ELSE back[j - Len(front)]
    BY <1>1, <1>2, ConcatProperties
  <2>2. Len(front) + Len(back) = Len(s) - 1
    BY <1>0, <1>1, <1>2
  <2>3. ASSUME NEW j \in 1..(Len(s) - 1)
        PROVE  (front \o back)[j] = IF j <= i - 1 THEN s[j] ELSE s[j + 1]
    <3>0. j \in Int /\ i \in Int /\ Len(s) \in Int
      BY <1>0
    <3>1. (front \o back)[j] = IF j <= i - 1 THEN front[j] ELSE back[j - (i - 1)]
      BY <2>1, <2>2, <1>1
    <3>2. ASSUME j <= i - 1 PROVE front[j] = s[j]
      <4>1. j \in 1..(i - 1)
        BY <3>0, <3>2
      <4> QED BY <4>1, <1>1
    <3>3. ASSUME ~(j <= i - 1) PROVE back[j - (i - 1)] = s[j + 1]
      <4>1. j - (i - 1) \in 1..(Len(s) - i)
        BY <3>0, <3>3
      <4>2. back[j - (i - 1)] = s[i + (j - (i - 1))]
        BY <4>1, <1>2
      <4>3. i + (j - (i - 1)) = j + 1
        BY <3>0
      <4> QED BY <4>2, <4>3
    <3> QED BY <3>1, <3>2, <3>3
  <2>4. Len(front \o back) = Len(s) - 1
    BY <2>1, <2>2
  <2> QED BY <2>1, <2>3, <2>4, <1>3
<1>5. ASSUME NEW x \in ToSet(s), x # s[i] PROVE x \in ToSet(RemoveAt(s, i))
  <2>1. PICK j \in 1..Len(s) : s[j] = x
    BY ToSetOfSeq
  <2>0. i \in Int /\ j \in Int /\ Len(s) \in Int /\ 1 <= i /\ i <= Len(s) /\ 1 <= j /\ j <= Len(s)
    BY <1>0
  <2>2. CASE j < i
    <3>1. j \in 1..(Len(s) - 1) /\ j <= i - 1
      BY <2>0, <2>2
    <3>2. RemoveAt(s, i)[j] = x
      BY <3>1, <2>1, <1>4
    <3> QED BY <3>1, <3>2, <1>4, ToSetOfSeq
  <2>3. CASE j > i
    <3>1. j - 1 \in 1..(Len(s) - 1) /\ ~(j - 1 <= i - 1) /\ (j - 1) + 1 = j
      BY <2>0, <2>3
    <3>2. RemoveAt(s, i)[j - 1] = x
      BY <3>1, <2>1, <1>4
    <3> QED BY <3>1, <3>2, <1>4, ToSetOfSeq
  <2>4. j # i
    BY <1>5, <2>1
  <2> QED BY <2>0, <2>2, <2>3, <2>4
<1>6. ASSUME NEW j \in 1..(Len(s) - 1)
      PROVE  \E k \in 1..Len(s) : /\ k # i /\ RemoveAt(s, i)[j] = s[k]
                                  /\ k = IF j <= i - 1 THEN j ELSE j + 1
  <2>1. CASE j <= i - 1
    <3>1. j \in 1..Len(s) /\ j # i
      BY <2>1, <1>0
    <3> QED BY <2>1, <3>1, <1>4
  <2>2. CASE ~(j <= i - 1)
    <3>1. j + 1 \in 1..Len(s) /\ j + 1 # i
      BY <2>2, <1>0
    <3> QED BY <2>2, <3>1, <1>4
  <2> QED BY <2>1, <2>2
<1>7. ASSUME IsInjective(s)
      PROVE  /\ IsInjective(RemoveAt(s, i))
             /\ ToSet(RemoveAt(s, i)) \subseteq ToSet(s) \ {s[i]}
  <2>1. DOMAIN s = 1..Len(s) /\ DOMAIN RemoveAt(s, i) = 1..(Len(s) - 1)
    BY <1>4, LenProperties
  <2>2. \A j, k \in 1..Len(s) : s[j] = s[k] => j = k
    BY <2>1, <1>7 DEF IsInjective
  <2>3. ASSUME NEW j \in 1..(Len(s) - 1), NEW k \in 1..(Len(s) - 1),
               RemoveAt(s, i)[j] = RemoveAt(s, i)[k]
        PROVE  j = k
    <3>1. PICK m \in 1..Len(s) : RemoveAt(s, i)[j] = s[m] /\ m = IF j <= i - 1 THEN j ELSE j + 1
      BY <1>6
    <3>2. PICK n \in 1..Len(s) : RemoveAt(s, i)[k] = s[n] /\ n = IF k <= i - 1 THEN k ELSE k + 1
      BY <1>6
    <3>3. m = n
      BY <3>1, <3>2, <2>2, <2>3
    <3> QED BY <3>1, <3>2, <3>3, <1>0
  <2>4. ASSUME NEW x \in ToSet(RemoveAt(s, i)) PROVE x \in ToSet(s) \ {s[i]}
    <3>1. PICK j \in 1..(Len(s) - 1) : RemoveAt(s, i)[j] = x
      BY <1>4, ToSetOfSeq
    <3>2. PICK k \in 1..Len(s) : k # i /\ x = s[k]
      BY <3>1, <1>6
    <3>3. x \in ToSet(s)
      BY <3>2, ToSetOfSeq
    <3> QED BY <3>2, <3>3, <2>2
  <2> QED BY <2>1, <2>3, <2>4 DEF IsInjective
<1> QED BY <1>4, <1>5, <1>7

-----------------------------------------------------------------------------
(* The methods of the index                                                 *)

\* The element found for a listed adapter is that adapter's.
LEMMA ElementOfListed ==
    ASSUME NEW l, l.order \in Seq(Adapters), NEW a, Contains(l.order, a)
    PROVE  ElementOf(l, a) \in 1..Len(l.order) /\ l.order[ElementOf(l, a)] = a
BY DEF ElementOf, Contains

\* LRU.Touch lists its adapter and drops none.
LEMMA TouchKeeps ==
    ASSUME NEW l, l.order \in Seq(Adapters), l.size \in [Adapters -> Nat],
           NEW a \in Adapters, NEW sz \in Nat
    PROVE  /\ LRUTouch(l, a, sz).order \in Seq(Adapters)
           /\ LRUTouch(l, a, sz).size \in [Adapters -> Nat]
           /\ ToSet(l.order) \cup {a} \subseteq ToSet(LRUTouch(l, a, sz).order)
<1>1. CASE Contains(l.order, a)
  <2> DEFINE i == ElementOf(l, a)
  <2>1. i \in 1..Len(l.order) /\ l.order[i] = a
    BY <1>1, ElementOfListed
  <2> HIDE DEF i
  <2>2. /\ RemoveAt(l.order, i) \in Seq(Adapters)
        /\ ToSet(l.order) \subseteq ToSet(RemoveAt(l.order, i)) \cup {a}
    BY <2>1, RemoveAtKeeps
  <2>3. LRUTouch(l, a, sz) = [order |-> Cons(a, RemoveAt(l.order, i)),
                              size |-> l.size, curSize |-> l.curSize]
    BY <1>1 DEF LRUTouch, i
  <2> QED BY <2>2, <2>3, ConsKeeps
<1>2. CASE ~Contains(l.order, a)
  <2>1. LRUTouch(l, a, sz) = [order |-> Cons(a, l.order),
                              size |-> [l.size EXCEPT ![a] = sz], curSize |-> l.curSize + sz]
    BY <1>2 DEF LRUTouch
  <2> QED BY <2>1, ConsKeeps
<1> QED BY <1>1, <1>2

\* LRU.Remove drops no adapter but its own.
LEMMA RemoveKeeps ==
    ASSUME NEW l, l.order \in Seq(Adapters), l.size \in [Adapters -> Nat],
           NEW a \in Adapters
    PROVE  /\ LRURemove(l, a).order \in Seq(Adapters)
           /\ LRURemove(l, a).size \in [Adapters -> Nat]
           /\ ToSet(l.order) \ {a} \subseteq ToSet(LRURemove(l, a).order)
<1>1. CASE Contains(l.order, a)
  <2> DEFINE i == ElementOf(l, a)
  <2>1. i \in 1..Len(l.order) /\ l.order[i] = a
    BY <1>1, ElementOfListed
  <2> HIDE DEF i
  <2>2. /\ RemoveAt(l.order, i) \in Seq(Adapters)
        /\ ToSet(l.order) \subseteq ToSet(RemoveAt(l.order, i)) \cup {a}
    BY <2>1, RemoveAtKeeps
  <2>3. LRURemove(l, a) = [order |-> RemoveAt(l.order, i),
                           size |-> [l.size EXCEPT ![a] = 0],
                           curSize |-> l.curSize - l.size[a]]
    BY <1>1 DEF LRURemove, i
  <2> QED BY <2>2, <2>3
<1>2. CASE ~Contains(l.order, a)
  BY <1>2 DEF LRURemove
<1> QED BY <1>1, <1>2

\* LRU.Evict pops no more elements than there are.
LEMMA EvictCountBounds ==
    ASSUME NEW l, l.order \in Seq(Adapters), NEW required
    PROVE  EvictCount(l, required) \in 0..Len(l.order)
<1> DEFINE all == 0..(Len(l.order) - 1)
           T   == {n \in all : l.curSize - TailSize(l, n) + required > MaxSize}
<1>1. Len(l.order) \in Nat
  BY LenProperties
<1>2. IsFiniteSet(all) /\ Cardinality(all) = Len(l.order)
  <2>1. 0 \in Int /\ Len(l.order) - 1 \in Int
    BY <1>1
  <2>2. /\ IsFiniteSet(all)
        /\ Cardinality(all) = IF 0 > Len(l.order) - 1 THEN 0 ELSE (Len(l.order) - 1) - 0 + 1
    BY <2>1, FS_Interval
  <2> QED BY <1>1, <2>2
<1>3. T \in SUBSET all
  OBVIOUS
<1>4. EvictCount(l, required) = Cardinality(T)
  BY DEF EvictCount
<1> HIDE DEF T, all
<1>5. IsFiniteSet(T) /\ Cardinality(T) <= Len(l.order)
  BY <1>2, <1>3, FS_Subset
<1>6. Cardinality(T) \in Nat
  BY <1>5, FS_CardinalityType
<1> QED BY <1>1, <1>4, <1>5, <1>6

\* Positions in the tail of a list and in its reverse.
LEMMA MirroredPosition ==
    ASSUME NEW n \in Int, NEW m \in Int, NEW i \in Int, i <= m, i > m - n
    PROVE  /\ i - (m - n) \in 1..n
           /\ n - (i - (m - n)) + 1 \in 1..n
           /\ n - (n - (i - (m - n)) + 1) + 1 = i - (m - n)
           /\ m - n + (i - (m - n)) = i
OBVIOUS

\* LRU.Evict splits the list: the adapters at the front stay, those behind are the
\* result.
LEMMA EvictSplits ==
    ASSUME NEW l, l.order \in Seq(Adapters), l.size \in [Adapters -> Nat], NEW required
    PROVE  LET n == EvictCount(l, required) IN
           /\ LRUEvict(l, required).order \in Seq(Adapters)
           /\ Len(LRUEvict(l, required).order) = Len(l.order) - n
           /\ \A i \in 1..(Len(l.order) - n) : LRUEvict(l, required).order[i] = l.order[i]
           /\ LRUEvicted(l, required) \in Seq(Adapters)
           /\ ToSet(LRUEvicted(l, required)) =
                 {l.order[i] : i \in (Len(l.order) - n + 1)..Len(l.order)}
           /\ n \in 0..Len(l.order)
<1> DEFINE n    == EvictCount(l, required)
           kept == SubSeq(l.order, 1, Len(l.order) - n)
           tail == SubSeq(l.order, Len(l.order) - n + 1, Len(l.order))
<1>0. Len(l.order) \in Nat /\ n \in 0..Len(l.order) /\ \A i \in 1..Len(l.order) : l.order[i] \in Adapters
  BY LenProperties, ElementOfSeq, EvictCountBounds
<1>1. /\ LRUEvict(l, required).order = kept
      /\ LRUEvicted(l, required) = Reverse(tail)
  BY DEF LRUEvict, LRUEvicted
<1> HIDE DEF n
<1>2. /\ kept \in Seq(Adapters) /\ Len(kept) = Len(l.order) - n
      /\ \A i \in 1..(Len(l.order) - n) : kept[i] = l.order[i]
  <2>1. \A i \in 1..(Len(l.order) - n) : l.order[i] \in Adapters
    BY <1>0
  <2> HIDE DEF kept
  <2>2. /\ kept \in Seq(Adapters)
        /\ Len(kept) = IF 1 <= Len(l.order) - n THEN (Len(l.order) - n) - 1 + 1 ELSE 0
        /\ \A i \in 1..((Len(l.order) - n) - 1 + 1) : kept[i] = l.order[1 + i - 1]
    BY <1>0, <2>1, SubSeqProperties DEF kept
  <2>3. Len(kept) = Len(l.order) - n
    BY <2>2, <1>0
  <2>4. (Len(l.order) - n) - 1 + 1 = Len(l.order) - n
    BY <1>0
  <2>5. ASSUME NEW i \in 1..(Len(l.order) - n) PROVE kept[i] = l.order[i]
    <3>1. 1 + i - 1 = i
      OBVIOUS
    <3>2. kept[i] = l.order[1 + i - 1]
      BY <2>2, <2>4
    <3> QED BY <3>1, <3>2
  <2> QED BY <2>2, <2>3, <2>5
<1>3. /\ tail \in Seq(Adapters) /\ Len(tail) = n
      /\ \A i \in 1..n : tail[i] = l.order[Len(l.order) - n + i]
  <2> DEFINE m == Len(l.order) - n + 1
  <2>1. \A i \in m..Len(l.order) : l.order[i] \in Adapters
    BY <1>0
  <2>2. m \in Int
    BY <1>0
  <2> HIDE DEF m, tail
  <2>3. /\ tail \in Seq(Adapters)
        /\ Len(tail) = IF m <= Len(l.order) THEN Len(l.order) - m + 1 ELSE 0
        /\ \A i \in 1..(Len(l.order) - m + 1) : tail[i] = l.order[m + i - 1]
    BY <1>0, <2>1, <2>2, SubSeqProperties DEF tail, m
  <2>4. Len(l.order) - m + 1 = n
    BY <1>0 DEF m
  <2> QED BY <2>3, <2>4, <1>0 DEF m
<1> HIDE DEF kept, tail
<1>4. /\ Reverse(tail) \in Seq(Adapters) /\ Len(Reverse(tail)) = n
      /\ \A i \in 1..n : Reverse(tail)[i] = tail[n - i + 1]
  BY <1>0, <1>3 DEF Reverse
<1>5. ASSUME NEW i \in (Len(l.order) - n + 1)..Len(l.order)
      PROVE  l.order[i] \in ToSet(Reverse(tail))
  <2> DEFINE k == i - (Len(l.order) - n)
             j == n - k + 1
  <2>0. /\ i \in Int /\ i <= Len(l.order) /\ Len(l.order) \in Int /\ n \in Int
        /\ i > Len(l.order) - n
    BY <1>0
  <2>1. k \in 1..n /\ j \in 1..n /\ n - j + 1 = k /\ Len(l.order) - n + k = i
    BY <2>0, MirroredPosition
  <2> HIDE DEF k, j
  <2>2. Reverse(tail)[j] = l.order[i]
    BY <2>1, <1>3, <1>4
  <2> QED BY <2>1, <2>2, <1>4, ToSetOfSeq
<1>6. ASSUME NEW x \in ToSet(Reverse(tail))
      PROVE  \E i \in (Len(l.order) - n + 1)..Len(l.order) : x = l.order[i]
  <2>1. PICK j \in 1..n : Reverse(tail)[j] = x
    <3>1. PICK t \in Seq(Adapters) : t = Reverse(tail)
      BY <1>4
    <3>2. \E j \in 1..Len(t) : t[j] = x
      BY <3>1, ToSetOfSeq
    <3> QED BY <1>4, <3>1, <3>2
  <2> DEFINE k == n - j + 1
             i == Len(l.order) - n + k
  <2>2. k \in 1..n /\ i \in (Len(l.order) - n + 1)..Len(l.order)
    <3>1. Len(l.order) \in Int /\ n \in Int /\ j \in Int /\ 1 <= j /\ j <= n
      BY <1>0
    <3>2. k \in Int /\ 1 <= k /\ k <= n
      BY <3>1
    <3> HIDE DEF k
    <3>3. i \in Int /\ Len(l.order) - n + 1 <= i /\ i <= Len(l.order)
      BY <3>1, <3>2
    <3> QED BY <3>1, <3>2, <3>3
  <2>3. x = tail[k] /\ tail[k] = l.order[i]
    BY <2>1, <2>2, <1>3, <1>4
  <2> HIDE DEF k, i
  <2> QED BY <2>2, <2>3
<1>7. ToSet(Reverse(tail)) = {l.order[i] : i \in (Len(l.order) - n + 1)..Len(l.order)}
  BY <1>5, <1>6
<1> QED BY <1>0, <1>1, <1>2, <1>4, <1>7 DEF n

\* LRU.Evict: every listed adapter stays listed or is in the result.
LEMMA EvictKeeps ==
    ASSUME NEW l, l.order \in Seq(Adapters), l.size \in [Adapters -> Nat], NEW required
    PROVE  /\ LRUEvict(l, required).order \in Seq(Adapters)
           /\ LRUEvict(l, required).size \in [Adapters -> Nat]
           /\ LRUEvicted(l, required) \in Seq(Adapters)
           /\ ToSet(l.order) \subseteq ToSet(LRUEvict(l, required).order)
                                        \cup ToSet(LRUEvicted(l, required))
<1> DEFINE kept == LRUEvict(l, required).order
           gone == LRUEvicted(l, required)
<1>0. PICK n : n = EvictCount(l, required)
  OBVIOUS
<1>1. /\ kept \in Seq(Adapters) /\ Len(kept) = Len(l.order) - n
      /\ \A i \in 1..(Len(l.order) - n) : kept[i] = l.order[i]
      /\ gone \in Seq(Adapters)
      /\ ToSet(gone) = {l.order[i] : i \in (Len(l.order) - n + 1)..Len(l.order)}
      /\ n \in 0..Len(l.order)
  <2> HIDE DEF kept, gone
  <2> QED BY <1>0, EvictSplits DEF kept, gone
<1>2. LRUEvict(l, required).size = [a \in Adapters |-> IF Contains(gone, a) THEN 0 ELSE l.size[a]]
  BY DEF LRUEvict
<1> HIDE DEF kept, gone
<1>3. ASSUME NEW x \in ToSet(l.order) PROVE x \in ToSet(kept) \cup ToSet(gone)
  <2>1. PICK i \in 1..Len(l.order) : l.order[i] = x
    BY ToSetOfSeq
  <2>2. Len(l.order) \in Nat
    BY LenProperties
  <2>3. CASE i <= Len(l.order) - n
    <3>1. i \in 1..(Len(l.order) - n)
      BY <2>1, <2>2, <2>3, <1>1
    <3>2. i \in 1..Len(kept) /\ kept[i] = x
      BY <2>1, <3>1, <1>1, Zenon
    <3> QED BY <3>2, <1>1, ToSetOfSeq
  <2>4. CASE i > Len(l.order) - n
    <3>1. i \in (Len(l.order) - n + 1)..Len(l.order)
      BY <2>2, <2>4, <1>1
    <3> QED BY <3>1, <2>1, <1>1
  <2> QED BY <2>2, <2>3, <2>4, <1>1
<1>4. LRUEvict(l, required).size \in [Adapters -> Nat]
  BY <1>2
<1> QED BY <1>1, <1>3, <1>4 DEF kept, gone

-----------------------------------------------------------------------------
(* The index stays consistent                                               *)

\* NewLRU makes a consistent index.
LEMMA NewConsistent ==
    IsLRU(NewLRU) /\ SizesAddUp(NewLRU)
<1>1. IsLRU(NewLRU)
  BY DEF IsLRU, NewLRU, IsInjective
<1>2. ToSet(NewLRU.order) = {}
  BY DEF NewLRU, ToSet
<1>3. SumFunctionOnSet(NewLRU.size, {}) = 0
  BY SumStep, FS_EmptySet
<1> QED BY <1>1, <1>2, <1>3 DEF SizesAddUp, NewLRU

\* LRU.Touch keeps the index consistent.
LEMMA TouchConsistent ==
    ASSUME NEW l, IsLRU(l), SizesAddUp(l), NEW a \in Adapters, NEW sz \in Nat
    PROVE  IsLRU(LRUTouch(l, a, sz)) /\ SizesAddUp(LRUTouch(l, a, sz))
<1> DEFINE m == LRUTouch(l, a, sz)
<1>0. /\ l.order \in Seq(Adapters) /\ l.size \in [Adapters -> Nat] /\ IsInjective(l.order)
      /\ l.curSize = SumFunctionOnSet(l.size, ToSet(l.order))
      /\ \A x : Contains(l.order, x) <=> x \in ToSet(l.order)
      /\ ToSet(l.order) \subseteq Adapters
  BY ToSetOfSeq DEF IsLRU, SizesAddUp
<1>1. CASE Contains(l.order, a)
  <2> DEFINE i == ElementOf(l, a)
             r == RemoveAt(l.order, i)
  <2>1. i \in 1..Len(l.order) /\ l.order[i] = a
    BY <1>0, <1>1, ElementOfListed
  <2> HIDE DEF i
  <2>2. r \in Seq(Adapters) /\ IsInjective(r) /\ ToSet(r) = ToSet(l.order) \ {a}
    BY <2>1, <1>0, RemoveAtKeeps
  <2>3. m = [order |-> Cons(a, r), size |-> l.size, curSize |-> l.curSize]
    BY <1>1 DEF LRUTouch, i
  <2> HIDE DEF r, m
  <2>4. /\ Cons(a, r) \in Seq(Adapters) /\ IsInjective(Cons(a, r))
        /\ ToSet(Cons(a, r)) = ToSet(l.order)
    <3>1. a \notin ToSet(r) /\ ToSet(r) \cup {a} = ToSet(l.order)
      BY <2>2, <1>0, <1>1
    <3>2. /\ Cons(a, r) \in Seq(Adapters)
          /\ ToSet(Cons(a, r)) = ToSet(r) \cup {a}
          /\ IsInjective(Cons(a, r))
      BY <3>1, <2>2, ConsKeeps
    <3> QED BY <3>1, <3>2
  <2>5. IsLRU(m) /\ SizesAddUp(m)
    BY <2>3, <2>4, <1>0 DEF IsLRU, SizesAddUp
  <2> QED BY <2>5 DEF m
<1>2. CASE ~Contains(l.order, a)
  <2> DEFINE f == [l.size EXCEPT ![a] = sz]
             T == ToSet(l.order)
  <2>1. m = [order |-> Cons(a, l.order), size |-> f, curSize |-> l.curSize + sz]
    BY <1>2 DEF LRUTouch
  <2>2. /\ Cons(a, l.order) \in Seq(Adapters) /\ IsInjective(Cons(a, l.order))
        /\ ToSet(Cons(a, l.order)) = T \cup {a}
    BY <1>0, <1>2, ConsKeeps
  <2>3. IsFiniteSet(T) /\ IsFiniteSet(T \cup {a})
    BY <1>0, ToSetFinite, FS_AddElement
  <2>4. f \in [Adapters -> Nat] /\ f[a] = sz /\ \A x \in T : f[x] = l.size[x]
    BY <1>0, <1>2
  <2> HIDE DEF f, m
  <2>5. SumFunctionOnSet(f, T \cup {a}) = sz + SumFunctionOnSet(f, T)
    <3>1. a \in T \cup {a} /\ (T \cup {a}) \ {a} = T
      BY <1>0, <1>2
    <3>2. \A x \in T \cup {a} : f[x] \in Nat
      BY <2>4, <1>0
    <3>3. SumFunctionOnSet(f, T \cup {a}) = f[a] + SumFunctionOnSet(f, (T \cup {a}) \ {a})
      BY <3>1, <3>2, <2>3, SumStep
    <3> QED BY <3>1, <3>3, <2>4
  <2>6. SumFunctionOnSet(f, T) = SumFunctionOnSet(l.size, T) /\ SumFunctionOnSet(f, T) \in Nat
    <3>1. \A x \in T : f[x] \in Nat /\ f[x] = l.size[x]
      BY <2>4, <1>0
    <3> QED BY <3>1, <2>3, SumSame, SumStep
  <2>7. l.curSize + sz = SumFunctionOnSet(f, T \cup {a})
    BY <2>5, <2>6, <1>0
  <2>8. IsLRU(m) /\ SizesAddUp(m)
    BY <2>1, <2>2, <2>4, <2>7 DEF IsLRU, SizesAddUp
  <2> QED BY <2>8 DEF m
<1> QED BY <1>1, <1>2

\* LRU.Remove keeps the index consistent.
LEMMA RemoveConsistent ==
    ASSUME NEW l, IsLRU(l), SizesAddUp(l), NEW a \in Adapters
    PROVE  IsLRU(LRURemove(l, a)) /\ SizesAddUp(LRURemove(l, a))
<1> DEFINE m == LRURemove(l, a)
           T == ToSet(l.order)
<1>0. /\ l.order \in Seq(Adapters) /\ l.size \in [Adapters -> Nat] /\ IsInjective(l.order)
      /\ l.curSize = SumFunctionOnSet(l.size, T)
      /\ \A x : Contains(l.order, x) <=> x \in T
      /\ T \subseteq Adapters
  BY ToSetOfSeq DEF IsLRU, SizesAddUp
<1>1. CASE Contains(l.order, a)
  <2> DEFINE i == ElementOf(l, a)
             r == RemoveAt(l.order, i)
             f == [l.size EXCEPT ![a] = 0]
  <2>1. i \in 1..Len(l.order) /\ l.order[i] = a
    BY <1>0, <1>1, ElementOfListed
  <2> HIDE DEF i
  <2>2. r \in Seq(Adapters) /\ IsInjective(r) /\ ToSet(r) = T \ {a}
    BY <2>1, <1>0, RemoveAtKeeps
  <2>3. m = [order |-> r, size |-> f, curSize |-> l.curSize - l.size[a]]
    BY <1>1 DEF LRURemove, i
  <2>4. f \in [Adapters -> Nat] /\ \A x \in T \ {a} : f[x] = l.size[x] /\ f[x] \in Nat
    BY <1>0
  <2>5. a \in T /\ IsFiniteSet(T) /\ IsFiniteSet(T \ {a})
    BY <1>0, <1>1, ToSetFinite, FS_RemoveElement
  <2> HIDE DEF f, m, r, T
  <2>6. SumFunctionOnSet(l.size, T) = l.size[a] + SumFunctionOnSet(l.size, T \ {a})
    <3>1. \A x \in T : l.size[x] \in Nat
      BY <1>0
    <3> QED BY <3>1, <2>5, SumStep
  <2>7. /\ SumFunctionOnSet(f, T \ {a}) = SumFunctionOnSet(l.size, T \ {a})
        /\ SumFunctionOnSet(f, T \ {a}) \in Nat
    BY <2>4, <2>5, SumSame, SumStep
  <2>8. l.curSize - l.size[a] = SumFunctionOnSet(f, T \ {a})
    <3>1. l.size[a] \in Nat
      BY <1>0
    <3> QED BY <3>1, <2>6, <2>7, <1>0
  <2>9. IsLRU(m) /\ SizesAddUp(m)
    BY <2>2, <2>3, <2>4, <2>8 DEF IsLRU, SizesAddUp
  <2> QED BY <2>9 DEF m
<1>2. CASE ~Contains(l.order, a)
  BY <1>2 DEF LRURemove
<1> QED BY <1>1, <1>2

\* What n pops free is the total of the sizes of the n adapters at the back.
LEMMA TailSizeOwners ==
    ASSUME NEW l, IsLRU(l), NEW n \in 0..Len(l.order)
    PROVE  TailSize(l, n) =
             SumFunctionOnSet(l.size, {l.order[i] : i \in (Len(l.order) - n + 1)..Len(l.order)})
<1> DEFINE J == (Len(l.order) - n + 1)..Len(l.order)
           e == [i \in 1..Len(l.order) |-> l.size[l.order[i]]]
<1>0. /\ l.order \in Seq(Adapters) /\ l.size \in [Adapters -> Nat] /\ IsInjective(l.order)
      /\ Len(l.order) \in Nat /\ DOMAIN l.order = 1..Len(l.order)
      /\ \A i \in 1..Len(l.order) : l.order[i] \in Adapters
  BY LenProperties, ElementOfSeq DEF IsLRU
<1>1. J \subseteq 1..Len(l.order) /\ IsFiniteSet(J)
  <2>1. J \subseteq 1..Len(l.order)
    BY <1>0
  <2>2. Len(l.order) - n + 1 \in Int /\ Len(l.order) \in Int
    BY <1>0
  <2>3. IsFiniteSet(J)
    BY <2>2, FS_Interval
  <2> QED BY <2>1, <2>3
<1>2. IsFiniteSet({l.order[i] : i \in J})
  <2>1. {l.order[i] : i \in J} \subseteq ToSet(l.order)
    BY <1>0, <1>1, ToSetOfSeq
  <2> QED BY <2>1, <1>0, ToSetFinite, FS_Subset
<1>3. TailSize(l, n) = SumFunctionOnSet(e, J)
  BY DEF TailSize
<1>4. /\ \A i, j \in J : l.order[i] = l.order[j] => i = j
      /\ \A i \in J : l.size[l.order[i]] \in Nat
      /\ \A i \in J : e[i] = l.size[l.order[i]]
  BY <1>0, <1>1 DEF IsInjective
<1> HIDE DEF J, e
<1>5. SumFunctionOnSet(e, J) = SumFunctionOnSet(l.size, {l.order[i] : i \in J})
  <2> DEFINE U == {l.order[i] : i \in J}
  <2>1. IsFiniteSet(U) /\ (\A i \in J : l.order[i] \in U) /\ \A u \in U : \E i \in J : l.order[i] = u
    BY <1>2
  <2> HIDE DEF U
  <2>2. Relists(e, J, l.order, l.size, U)
    BY <2>1, <1>0, <1>1, <1>4 DEF Relists, U
  <2>3. SumFunctionOnSet(e, J) = SumFunctionOnSet(l.size, U)
    BY <2>2, SumReindexed
  <2> QED BY <2>3 DEF U
<1> QED BY <1>3, <1>5 DEF J

\* LRU.Evict parts the listed adapters: those that stay keep their sizes, and the
\* total of the sizes of the others is what it frees.
LEMMA EvictParts ==
    ASSUME NEW l, IsLRU(l), NEW required
    PROVE  LET m == LRUEvict(l, required)
               K == ToSet(m.order)
               G == ToSet(LRUEvicted(l, required))
           IN  /\ m.order \in Seq(Adapters) /\ IsInjective(m.order)
               /\ m.size \in [Adapters -> Nat]
               /\ ToSet(l.order) = K \cup G /\ K \cap G = {}
               /\ \A x \in K : m.size[x] = l.size[x]
               /\ m.curSize = l.curSize - SumFunctionOnSet(l.size, G)
<1> DEFINE m    == LRUEvict(l, required)
           kept == m.order
           gone == LRUEvicted(l, required)
           K    == ToSet(kept)
           G    == ToSet(gone)
<1>0. /\ l.order \in Seq(Adapters) /\ l.size \in [Adapters -> Nat] /\ IsInjective(l.order)
      /\ Len(l.order) \in Nat /\ DOMAIN l.order = 1..Len(l.order)
      /\ ToSet(l.order) \subseteq Adapters
  BY LenProperties, ToSetOfSeq DEF IsLRU
<1>1. PICK n : n = EvictCount(l, required)
  OBVIOUS
<1>2. /\ kept \in Seq(Adapters) /\ Len(kept) = Len(l.order) - n
      /\ \A i \in 1..(Len(l.order) - n) : kept[i] = l.order[i]
      /\ gone \in Seq(Adapters)
      /\ G = {l.order[i] : i \in (Len(l.order) - n + 1)..Len(l.order)}
      /\ n \in 0..Len(l.order)
      /\ ToSet(l.order) \subseteq K \cup G
  BY <1>0, <1>1, EvictSplits, EvictKeeps
<1>3. /\ m.size = [a \in Adapters |-> IF Contains(gone, a) THEN 0 ELSE l.size[a]]
      /\ m.curSize = l.curSize - TailSize(l, n)
  BY <1>1 DEF LRUEvict
<1>4. TailSize(l, n) = SumFunctionOnSet(l.size, G)
  BY <1>2, TailSizeOwners
<1> HIDE DEF m, kept, gone
<1>5. \A i, j \in 1..Len(l.order) : l.order[i] = l.order[j] => i = j
  BY <1>0 DEF IsInjective
<1>6. IsInjective(kept)
  <2>1. DOMAIN kept = 1..(Len(l.order) - n) /\ 1..(Len(l.order) - n) \subseteq 1..Len(l.order)
    BY <1>0, <1>2, LenProperties
  <2> QED BY <2>1, <1>2, <1>5 DEF IsInjective
<1>7. ASSUME NEW x \in K
      PROVE  x \in ToSet(l.order) /\ x \notin G
  <2>0. PICK i \in 1..Len(kept) : kept[i] = x
    BY <1>2, ToSetOfSeq
  <2>1. i \in 1..(Len(l.order) - n) /\ x = l.order[i]
    BY <2>0, <1>2
  <2>2. i \in 1..Len(l.order)
    BY <1>0, <1>2
  <2>3. x \in ToSet(l.order)
    BY <2>1, <2>2, <1>0, ToSetOfSeq
  <2>4. ASSUME NEW j \in (Len(l.order) - n + 1)..Len(l.order) PROVE l.order[j] # x
    <3>1. j \in 1..Len(l.order) /\ i # j
      BY <1>0, <1>2
    <3> QED BY <3>1, <2>1, <2>2, <1>5
  <2> QED BY <2>3, <2>4, <1>2
<1>8. G \subseteq ToSet(l.order)
  <2>1. (Len(l.order) - n + 1)..Len(l.order) \subseteq 1..Len(l.order)
    BY <1>0, <1>2
  <2> QED BY <2>1, <1>0, <1>2, ToSetOfSeq
<1>9. ToSet(l.order) = K \cup G /\ K \cap G = {}
  BY <1>2, <1>7, <1>8
<1>10. m.size \in [Adapters -> Nat] /\ \A x \in K : m.size[x] = l.size[x]
  <2>1. \A x \in K : x \in Adapters /\ ~Contains(gone, x)
    BY <1>0, <1>2, <1>7, ToSetOfSeq
  <2> QED BY <2>1, <1>0, <1>3
<1> QED BY <1>2, <1>3, <1>4, <1>6, <1>9, <1>10 DEF m, kept, gone

\* LRU.Evict keeps the index consistent.
LEMMA EvictConsistent ==
    ASSUME NEW l, IsLRU(l), SizesAddUp(l), NEW required
    PROVE  IsLRU(LRUEvict(l, required)) /\ SizesAddUp(LRUEvict(l, required))
<1> DEFINE m == LRUEvict(l, required)
           K == ToSet(m.order)
           G == ToSet(LRUEvicted(l, required))
<1>1. /\ m.order \in Seq(Adapters) /\ IsInjective(m.order)
      /\ m.size \in [Adapters -> Nat]
      /\ ToSet(l.order) = K \cup G /\ K \cap G = {}
      /\ \A x \in K : m.size[x] = l.size[x]
      /\ m.curSize = l.curSize - SumFunctionOnSet(l.size, G)
  BY EvictParts
<1>2. /\ l.size \in [Adapters -> Nat]
      /\ l.curSize = SumFunctionOnSet(l.size, K \cup G)
      /\ IsFiniteSet(K \cup G) /\ K \cup G \subseteq Adapters
  <2>1. /\ l.size \in [Adapters -> Nat] /\ l.order \in Seq(Adapters)
        /\ l.curSize = SumFunctionOnSet(l.size, ToSet(l.order))
    BY DEF IsLRU, SizesAddUp
  <2>2. IsFiniteSet(ToSet(l.order)) /\ ToSet(l.order) \subseteq Adapters
    BY <2>1, ToSetFinite, ToSetOfSeq
  <2> HIDE DEF m, K, G
  <2> QED BY <2>1, <2>2, <1>1
<1> HIDE DEF m, K, G
<1>3. IsFiniteSet(K) /\ IsFiniteSet(G)
  BY <1>2, FS_Subset
<1>4. \A x \in K \cup G : l.size[x] \in Nat
  BY <1>2
<1>5. SumFunctionOnSet(l.size, K \cup G) = SumFunctionOnSet(l.size, K) + SumFunctionOnSet(l.size, G)
  <2>1. IsFiniteSet(K \cup G) /\ K \cap G = {}
    BY <1>1, <1>2
  <2> QED BY <1>4, <2>1, SumOfParts, Zenon
<1>6. SumFunctionOnSet(l.size, K) \in Nat /\ SumFunctionOnSet(l.size, G) \in Nat
  BY <1>3, <1>4, SumStep
<1>7. SumFunctionOnSet(m.size, K) = SumFunctionOnSet(l.size, K)
  <2>1. \A x \in K : m.size[x] \in Nat /\ m.size[x] = l.size[x]
    BY <1>1, <1>4
  <2> QED BY <2>1, <1>3, SumSame
<1>8. m.curSize = SumFunctionOnSet(m.size, K)
  BY <1>1, <1>2, <1>5, <1>6, <1>7
<1>9. IsLRU(m) /\ SizesAddUp(m)
  BY <1>1, <1>8 DEF IsLRU, SizesAddUp, K
<1> QED BY <1>9 DEF m

\* More pops free no less, and all of them free everything.
LEMMA TailSizeGrows ==
    ASSUME NEW l, IsLRU(l), SizesAddUp(l)
    PROVE  /\ \A n \in 0..Len(l.order) : TailSize(l, n) \in Nat
           /\ \A n \in 0..Len(l.order) : \A m \in 0..n : TailSize(l, m) <= TailSize(l, n)
           /\ TailSize(l, Len(l.order)) = l.curSize
<1> DEFINE N    == Len(l.order)
           J(n) == (N - n + 1)..N
           e    == [i \in 1..N |-> l.size[l.order[i]]]
<1>0. /\ l.order \in Seq(Adapters) /\ l.size \in [Adapters -> Nat] /\ N \in Nat
      /\ \A i \in 1..N : l.order[i] \in Adapters
  BY LenProperties, ElementOfSeq DEF IsLRU
<1>1. \A n : TailSize(l, n) = SumFunctionOnSet(e, J(n))
  BY DEF TailSize
<1>2. \A i \in 1..N : e[i] \in Nat
  BY <1>0
<1> HIDE DEF e
<1>3. ASSUME NEW n \in 0..N
      PROVE  /\ IsFiniteSet(J(n)) /\ J(n) \subseteq 1..N
             /\ \A i \in J(n) : e[i] \in Nat
             /\ \A m \in 0..n : J(m) \subseteq J(n)
  <2>1. N - n + 1 \in Int /\ N \in Int
    BY <1>0
  <2>2. IsFiniteSet(J(n))
    BY <2>1, FS_Interval
  <2>3. J(n) \subseteq 1..N /\ \A m \in 0..n : J(m) \subseteq J(n)
    BY <1>0
  <2> QED BY <2>2, <2>3, <1>2
<1>4. ASSUME NEW n \in 0..N PROVE TailSize(l, n) \in Nat
  <2>1. IsFiniteSet(J(n)) /\ \A i \in J(n) : e[i] \in Nat
    BY <1>3
  <2> HIDE DEF J
  <2>2. SumFunctionOnSet(e, J(n)) \in Nat
    BY <2>1, SumStep
  <2> QED BY <2>2, <1>1
<1>5. ASSUME NEW n \in 0..N, NEW m \in 0..n PROVE TailSize(l, m) <= TailSize(l, n)
  <2>1. /\ IsFiniteSet(J(n)) /\ J(m) \in SUBSET J(n)
        /\ \A i \in J(n) : e[i] \in Nat
        /\ \A i \in J(m) : e[i] \in Nat /\ e[i] <= e[i]
    BY <1>3
  <2> HIDE DEF J
  <2>2. SumFunctionOnSet(e, J(m)) <= SumFunctionOnSet(e, J(n))
    BY <2>1, SumMonotone
  <2> QED BY <2>2, <1>1
<1>6. TailSize(l, N) = l.curSize
  <2>1. PICK n \in 0..N : n = N
    BY <1>0
  <2>2. TailSize(l, n) = SumFunctionOnSet(l.size, {l.order[i] : i \in (N - n + 1)..N})
    BY TailSizeOwners
  <2>3. (N - n + 1)..N = 1..N
    BY <1>0, <2>1
  <2>4. {l.order[i] : i \in (N - n + 1)..N} = ToSet(l.order)
    <3>1. ToSet(l.order) = {l.order[i] : i \in 1..N}
      BY <1>0, ToSetOfSeq
    <3> QED BY <2>3, <3>1, Zenon
  <2>5. TailSize(l, n) = l.curSize
    BY <2>2, <2>4 DEF SizesAddUp
  <2> QED BY <2>1, <2>5
<1> QED BY <1>4, <1>5, <1>6

\* LRU.Evict makes room: what stays and what is required fit together, or nothing
\* stays.  The numbers of pops that are not enough are an initial segment, so that
\* their number is not one of them.
LEMMA EvictMakesRoom ==
    ASSUME NEW l, IsLRU(l), SizesAddUp(l), NEW required \in Nat
    PROVE  \/ LRUEvict(l, required).curSize + required <= MaxSize
           \/ LRUEvict(l, required).order = <<>>
<1> DEFINE N   == Len(l.order)
           all == 0..(N - 1)
           T   == {n \in all : l.curSize - TailSize(l, n) + required > MaxSize}
           c   == Cardinality(T)
<1>0. l.order \in Seq(Adapters) /\ N \in Nat
  BY LenProperties DEF IsLRU
<1>1. /\ \A n \in 0..N : TailSize(l, n) \in Nat
      /\ \A n \in 0..N : \A m \in 0..n : TailSize(l, m) <= TailSize(l, n)
      /\ TailSize(l, N) = l.curSize /\ l.curSize \in Nat
  <2>1. N \in 0..N
    BY <1>0
  <2> QED BY <2>1, TailSizeGrows
<1>2. c = EvictCount(l, required) /\ c \in 0..N
  <2>1. c = EvictCount(l, required)
    BY DEF EvictCount
  <2> QED BY <2>1, <1>0, EvictCountBounds
<1>3. LRUEvict(l, required).curSize = l.curSize - TailSize(l, c)
  BY <1>2 DEF LRUEvict
<1>4. CASE c = N
  <2>1. LRUEvict(l, required).order = SubSeq(l.order, 1, N - N)
    BY <1>2, <1>4 DEF LRUEvict
  <2>2. N - N = 0
    BY <1>0
  <2>3. SubSeq(l.order, 1, 0) = <<>>
    BY SubSeqEmpty
  <2> QED BY <2>1, <2>2, <2>3
<1>5. CASE c # N
  <2>1. c \in all /\ c \in Nat
    BY <1>0, <1>2, <1>5
  <2>2. SUFFICES ASSUME c \in T PROVE FALSE
    <3>1. ASSUME c \notin T PROVE ~(l.curSize - TailSize(l, c) + required > MaxSize)
      BY <3>1, <2>1
    <3> HIDE DEF T, c, all
    <3>2. TailSize(l, c) \in Nat
      BY <1>1, <1>2
    <3> QED BY <3>1, <3>2, <1>1, <1>3, MaxSizeAssumption
  <2>3. l.curSize - TailSize(l, c) + required > MaxSize
    BY <2>2
  <2>4. ASSUME NEW m \in 0..c PROVE m \in T
    <3>1. m \in all /\ m \in 0..N
      BY <2>1, <1>0, <1>2
    <3>2. TailSize(l, m) \in Nat /\ TailSize(l, c) \in Nat /\ TailSize(l, m) <= TailSize(l, c)
      BY <3>1, <1>1, <1>2
    <3>3. l.curSize - TailSize(l, m) + required > MaxSize
      BY <3>2, <2>3, <1>1, MaxSizeAssumption
    <3> QED BY <3>1, <3>3
  <2>5. IsFiniteSet(T)
    <3>1. N - 1 \in Int /\ 0 \in Int
      BY <1>0
    <3>2. IsFiniteSet(all)
      BY <3>1, FS_Interval
    <3> QED BY <3>2, FS_Subset
  <2>6. Cardinality(0..c) = c + 1
    BY <2>1, FS_Interval
  <2> HIDE DEF T
  <2>7. 0..c \in SUBSET T
    BY <2>4
  <2>8. Cardinality(0..c) <= Cardinality(T)
    BY <2>5, <2>7, FS_Subset
  <2> QED BY <2>1, <2>6, <2>8
<1> QED BY <1>4, <1>5

=============================================================================
