-------------------------------- MODULE LRU --------------------------------
(***************************************************************************)
(* The LRU index of the adapter store, internal/cache/lru.go.              *)
(*                                                                         *)
(* Every method of LRU runs under its mutex, so a method is an operator    *)
(* from an index to the next index.  The map `items' and the list `order'  *)
(* of the code are changed together in every method and hold the same      *)
(* elements, so one sequence stands for both: its head is order.Front(),   *)
(* the most recently used adapter.  accessedAt is written and never read   *)
(* and is left out.                                                        *)
(***************************************************************************)
EXTENDS Integers, SequencesExt

CONSTANTS
    Adapters,   \* the adapter IDs
    MaxSize     \* LRU.maxSize: storage.max_size

ASSUME MaxSizeAssumption == MaxSize \in Nat

-----------------------------------------------------------------------------

NewLRU ==
    [order   |-> <<>>,
     size    |-> [a \in Adapters |-> 0],
     curSize |-> 0]

\* The list element that the map `items' holds for adapter a.
ElementOf(l, a) == CHOOSE i \in 1..Len(l.order) : l.order[i] = a

\* Mutant of LRUTouch: counts a re-touched adapter's bytes a second time.
LRUTouchDoubleCount(l, a, sz) ==
    IF Contains(l.order, a)
    THEN [order   |-> Cons(a, RemoveAt(l.order, ElementOf(l, a))),
          size    |-> l.size,
          curSize |-> l.curSize + sz]
    ELSE [order   |-> Cons(a, l.order),
          size    |-> [l.size EXCEPT ![a] = sz],
          curSize |-> l.curSize + sz]

(***************************************************************************)
(* LRU.Touch.  An adapter already in the index is moved to the front and   *)
(* keeps the size recorded when it entered the index.                      *)
(***************************************************************************)
LRUTouch(l, a, sz) ==
    IF Contains(l.order, a)
    THEN [order   |-> Cons(a, RemoveAt(l.order, ElementOf(l, a))),
          size    |-> l.size,
          curSize |-> l.curSize]
    ELSE [order   |-> Cons(a, l.order),
          size    |-> [l.size EXCEPT ![a] = sz],
          curSize |-> l.curSize + sz]

\* Mutant of LRURemove: the map keeps the removed element, so that the next Remove
\* gives its bytes back once more.
LRURemoveKeepsItem(l, a) ==
    [order   |-> IF Contains(l.order, a) THEN RemoveAt(l.order, ElementOf(l, a)) ELSE l.order,
     size    |-> l.size,
     curSize |-> l.curSize - l.size[a]]

\* LRU.Remove
LRURemove(l, a) ==
    IF ~Contains(l.order, a) THEN l
    ELSE [order   |-> RemoveAt(l.order, ElementOf(l, a)),
          size    |-> [l.size EXCEPT ![a] = 0],
          curSize |-> l.curSize - l.size[a]]

(***************************************************************************)
(* LRU.Evict pops the back of the list while curSize + requiredBytes       *)
(* exceeds maxSize and the list is not empty.  TailSize(l, n) is what n    *)
(* pops free.  Sizes are not negative, so the loop runs once for every n   *)
(* such that n pops are not enough.                                        *)
(***************************************************************************)
TailSize(l, n) ==
    SumFunctionOnSet([i \in 1..Len(l.order) |-> l.size[l.order[i]]],
                     (Len(l.order) - n + 1)..Len(l.order))

\* Mutant of EvictCount: room for the new adapter is not asked for.
EvictCountNow(l, required) ==
    Cardinality({n \in 0..(Len(l.order) - 1) : l.curSize - TailSize(l, n) > MaxSize})

EvictCount(l, required) ==
    Cardinality({n \in 0..(Len(l.order) - 1) :
                   l.curSize - TailSize(l, n) + required > MaxSize})

\* The slice Evict returns: the popped adapters, the oldest first.
LRUEvicted(l, required) ==
    Reverse(SubSeq(l.order, Len(l.order) - EvictCount(l, required) + 1, Len(l.order)))

\* The index after Evict.
LRUEvict(l, required) ==
    LET n == EvictCount(l, required)
    IN  [order   |-> SubSeq(l.order, 1, Len(l.order) - n),
         size    |-> [a \in Adapters |->
                        IF Contains(LRUEvicted(l, required), a) THEN 0 ELSE l.size[a]],
         curSize |-> l.curSize - TailSize(l, n)]

-----------------------------------------------------------------------------

\* The shape of an index; the map's keys make the list free of duplicates.
IsLRU(l) ==
    /\ l.order \in Seq(Adapters)
    /\ l.size \in [Adapters -> Nat]
    /\ IsInjective(l.order)

\* curSize is the sum of the sizes recorded for the adapters of the list.
SizesAddUp(l) ==
    l.curSize = SumFunctionOnSet(l.size, ToSet(l.order))

=============================================================================
