--------------------------- MODULE DiscoveryProofs ---------------------------
(***************************************************************************)
(* Proofs about Discovery, for any number of nodes, any intervals, clocks  *)
(* and faults.                                                             *)
(***************************************************************************)
EXTENDS Discovery, WellFoundedInduction, TLAPS

-----------------------------------------------------------------------------
(* Types                                                                    *)

\* TypeOK but for the history variable, in two parts.
LoopsType ==
    /\ mode \in Modes
    /\ pc \in [Nodes -> Labels]
    /\ exit \in [Nodes -> {"no", "closed", "removed"}]
    /\ timer \in [Nodes -> 0..Rhythm]
    /\ gone \in [Nodes -> 0..MaxGone]
    /\ starts \in Nat /\ faults \in Nat

ListsType ==
    /\ ring \in [Nodes -> SUBSET (Addrs \cup StaticPeers)]
    /\ file \in [Addrs -> File \cup {None}]
    /\ endpoints \subseteq Addrs
    /\ entries \in [Nodes -> SUBSET Addrs]
    /\ \A n \in Nodes : pc[n] \in {"entry", "remove"} <=> entries[n] # {}
    /\ old \in [Nodes -> SUBSET Addrs]
    /\ found \in [Nodes -> SUBSET Addrs]

StateType == LoopsType /\ ListsType

\* The rhythm of a loop is at least one tick, and the bounds are natural numbers.
LEMMA Durations ==
    /\ Rhythm \in Nat /\ Rhythm > 0 /\ Heartbeat \in Nat /\ Stale \in Nat
    /\ MaxGone \in Nat
    /\ \A f \in Nat : f * Rhythm \in Nat /\ (f + 1) * Rhythm = f * Rhythm + Rhythm
    /\ \A f \in Nat : Patience(f) = Stale + Rhythm + Rhythm + f * Rhythm
<1>1. Heartbeat \in Nat /\ Slack \in Nat /\ Stale \in Nat /\ MaxFaults \in Nat /\ Heartbeat > 0
  BY DiscoveryAssumption
<1>2. Rhythm \in Nat /\ Rhythm > 0
  BY <1>1 DEF Rhythm
<1>3. ASSUME NEW f \in Nat, NEW r \in Nat
      PROVE  /\ f * r \in Nat /\ (f + 1) * r = f * r + r
             /\ (2 + f) * r = r + r + f * r
  OBVIOUS
<1>4. \A f \in Nat : f * Rhythm \in Nat /\ (f + 1) * Rhythm = f * Rhythm + Rhythm
  BY <1>2, <1>3
<1>5. ASSUME NEW f \in Nat PROVE Patience(f) = Stale + Rhythm + Rhythm + f * Rhythm
  <2>1. (2 + f) * Rhythm = Rhythm + Rhythm + f * Rhythm /\ f * Rhythm \in Nat
    BY <1>2, <1>3
  <2> QED BY <1>1, <1>2, <2>1 DEF Patience
<1>6. MaxGone \in Nat
  <2>1. MaxFaults * Rhythm \in Nat /\ Patience(MaxFaults) = Stale + Rhythm + Rhythm + MaxFaults * Rhythm
    BY <1>1, <1>4, <1>5
  <2> QED BY <1>1, <1>2, <2>1 DEF MaxGone
<1> QED BY <1>1, <1>2, <1>4, <1>5, <1>6

\* A non-empty set of naturals has a least element.
LEMMA LeastElement ==
    ASSUME NEW T \in SUBSET Nat, T # {}
    PROVE  \E x \in T : \A y \in T : x <= y
<1>1. PICK x \in T : \A y \in T : ~(<<y, x>> \in OpToRel(<, Nat))
  BY NatLessThanWellFounded, WFMin
<1>2. \A y \in T : y < x => <<y, x>> \in OpToRel(<, Nat)
  BY DEF OpToRel
<1>3. \A y \in T : y \in Nat /\ ~(y < x)
  BY <1>1, <1>2
<1>4. \A y \in T : x <= y
  BY <1>3
<1> QED BY <1>4

\* Every node's address is one.
LEMMA SelfTyped == Addrs \subseteq Nat /\ \A n \in Nodes : Self[n] \in Addrs
BY DiscoveryAssumption DEF Addrs

\* The loop of scan looks at one of its entries.
LEMMA EntryTyped ==
    ASSUME StateType, NEW n \in Nodes, pc[n] \in {"entry", "remove"}
    PROVE  Entry(n) \in entries[n] /\ Entry(n) \in Addrs
<1>1. entries[n] # {} /\ entries[n] \subseteq Addrs
  BY DEF StateType, ListsType
<1>2. \E x \in entries[n] : \A y \in entries[n] : x <= y
  BY <1>1, SelfTyped, LeastElement
<1>3. Min(entries[n]) \in entries[n]
  BY <1>2 DEF Min
<1> QED BY <1>1, <1>3 DEF Entry

\* A step of the loop of node n moves its label to l and may begin a round.
LEMMA LoopsMove ==
    ASSUME StateType, NEW n \in Nodes, NEW l \in Labels, Goto(n, l),
           UNCHANGED timer \/ timer' = [timer EXCEPT ![n] = 0],
           UNCHANGED faults \/ Fault,
           UNCHANGED <<mode, exit, gone, starts>>
    PROVE  /\ LoopsType'
           /\ pc' = [pc EXCEPT ![n] = l]
BY Durations DEF StateType, LoopsType, Goto, Fault

\* The list that scan works on, after a step that leaves other nodes' alone.
LEMMA ListsMove ==
    ASSUME StateType, NEW n \in Nodes, NEW l \in Labels, Goto(n, l),
           NEW e \in SUBSET Addrs, entries' = [entries EXCEPT ![n] = e],
           l \in {"entry", "remove"} <=> e # {},
           NEW o \in SUBSET Addrs, NEW f \in SUBSET Addrs,
           UNCHANGED old \/ old' = [old EXCEPT ![n] = o] \/ (\E a : old' = [k \in Nodes |-> old[k] \ {a}]),
           UNCHANGED found \/ found' = [found EXCEPT ![n] = f],
           UNCHANGED file \/ (\E a \in Addrs, x \in File \cup {None} : file' = [file EXCEPT ![a] = x]),
           UNCHANGED ring \/ ring' = [ring EXCEPT ![n] = f],
           UNCHANGED endpoints
    PROVE  ListsType'
<1>1. pc' = [pc EXCEPT ![n] = l]
  BY DEF Goto
<1>2. old' \in [Nodes -> SUBSET Addrs]
  BY DEF StateType, ListsType
<1>3. found' \in [Nodes -> SUBSET Addrs] /\ entries' \in [Nodes -> SUBSET Addrs]
  BY DEF StateType, ListsType
<1>4. ring' \in [Nodes -> SUBSET (Addrs \cup StaticPeers)]
  BY DEF StateType, ListsType
<1>5. file' \in [Addrs -> File \cup {None}]
  BY DEF StateType, ListsType
<1>6. ASSUME NEW k \in Nodes PROVE pc'[k] \in {"entry", "remove"} <=> entries'[k] # {}
  BY <1>1 DEF StateType, LoopsType, ListsType
<1> QED BY <1>2, <1>3, <1>4, <1>5, <1>6 DEF StateType, ListsType

\* What a step does to the loop's place in the list of entries.
LEMMA ContinueIs ==
    ASSUME NEW n \in Nodes, StateType, Continue(n)
    PROVE  LET e == entries[n] \ {Entry(n)}
           IN  /\ entries' = [entries EXCEPT ![n] = e]
               /\ Goto(n, IF e = {} THEN "set" ELSE "entry")
<1>1. entries' = [entries EXCEPT ![n] = entries[n] \ {Entry(n)}]
  BY DEF Continue
<1>2. entries'[n] = entries[n] \ {Entry(n)}
  BY <1>1 DEF StateType, ListsType
<1> QED BY <1>1, <1>2 DEF Continue, NextEntry

\* Every step of a loop preserves the types.
LEMMA LoopTyped ==
    ASSUME StateType, NEW n \in Nodes, LoopStep(n)
    PROVE  StateType'
<1>0. /\ pc \in [Nodes -> Labels] /\ file \in [Addrs -> File \cup {None}]
      /\ entries \in [Nodes -> SUBSET Addrs] /\ found \in [Nodes -> SUBSET Addrs]
      /\ entries = [entries EXCEPT ![n] = entries[n]]
      /\ pc[n] \notin {"entry", "remove"} => entries[n] = {}
  BY DEF StateType, LoopsType, ListsType
<1>f. \A full \in BOOLEAN : [age |-> 0, full |-> full] \in File
  BY DiscoveryAssumption DEF File
<1>1. CASE LoopEnds(n)
  <2>1. /\ pc[n] = "select" /\ Goto(n, "ended")
        /\ UNCHANGED <<mode, exit, ring, file, endpoints, entries, old, found, timer, gone, starts, faults>>
    BY <1>1 DEF LoopEnds, world, scan, clock
  <2>2. LoopsType'
    BY <2>1, LoopsMove DEF Labels
  <2>3. ListsType'
    BY <1>0, <2>1, ListsMove DEF Labels
  <2> QED BY <2>2, <2>3 DEF StateType
<1>2. CASE Truncate(n)
  <2>1. /\ pc[n] \in {"start", "select"} /\ timer' = [timer EXCEPT ![n] = 0]
        /\ UNCHANGED <<mode, exit, ring, endpoints, entries, found, gone, starts>>
    BY <1>2 DEF Truncate, RoundBegins
  <2>2. CASE Touched(n, FALSE) /\ Goto(n, "write") /\ UNCHANGED faults
    <3>1. /\ \E a \in Addrs, x \in File \cup {None} : file' = [file EXCEPT ![a] = x]
          /\ \E a : old' = [k \in Nodes |-> old[k] \ {a}]
      BY <2>2, <1>f, SelfTyped DEF Touched
    <3>2. LoopsType'
      BY <2>1, <2>2, LoopsMove DEF Labels
    <3>3. ListsType'
      BY <1>0, <2>1, <2>2, <3>1, ListsMove DEF Labels
    <3> QED BY <3>2, <3>3 DEF StateType
  <2>3. CASE Fault /\ Goto(n, "readdir") /\ UNCHANGED <<file, old>>
    <3>1. LoopsType'
      BY <2>1, <2>3, LoopsMove DEF Labels
    <3>2. ListsType'
      BY <1>0, <2>1, <2>3, ListsMove DEF Labels
    <3> QED BY <3>1, <3>2 DEF StateType
  <2> QED BY <1>2, <2>2, <2>3 DEF Truncate
<1>3. CASE Write(n)
  <2>1. /\ pc[n] = "write" /\ Goto(n, "readdir")
        /\ UNCHANGED <<mode, exit, ring, endpoints, entries, found, timer, gone, starts>>
        /\ UNCHANGED faults \/ Fault
    BY <1>3 DEF Write, clock
  <2>2. \/ UNCHANGED <<file, old>>
        \/ /\ \E a \in Addrs, x \in File \cup {None} : file' = [file EXCEPT ![a] = x]
           /\ \E a : old' = [k \in Nodes |-> old[k] \ {a}]
    BY <1>3, <1>f, SelfTyped DEF Write, Touched
  <2>3. LoopsType'
    BY <2>1, LoopsMove DEF Labels
  <2>4. ListsType'
    BY <1>0, <2>1, <2>2, ListsMove DEF Labels
  <2> QED BY <2>3, <2>4 DEF StateType
<1>4. CASE ReadDir(n)
  <2>1. /\ pc[n] = "readdir"
        /\ UNCHANGED <<mode, exit, ring, file, endpoints, found, timer, gone, starts>>
    BY <1>4 DEF ReadDir, world, clock
  <2>2. CASE Fault /\ Goto(n, "select") /\ UNCHANGED <<entries, old>>
    <3>1. LoopsType'
      BY <2>1, <2>2, LoopsMove DEF Labels
    <3>2. ListsType'
      BY <1>0, <2>1, <2>2, ListsMove DEF Labels
    <3> QED BY <3>1, <3>2 DEF StateType
  <2>3. CASE /\ entries' = [entries EXCEPT ![n] = {a \in Addrs : file[a] # None}]
             /\ old' = [old EXCEPT ![n] = {a \in Addrs : file[a] # None /\ IsStale(n, file[a])}]
             /\ NextEntry(n, entries'[n])
             /\ UNCHANGED faults
    <3> DEFINE e == {a \in Addrs : file[a] # None}
               o == {a \in Addrs : file[a] # None /\ IsStale(n, file[a])}
               l == IF e = {} THEN "set" ELSE "entry"
    <3>1. e \in SUBSET Addrs /\ o \in SUBSET Addrs /\ l \in Labels
      BY DEF Labels
    <3>2. entries' = [entries EXCEPT ![n] = e] /\ old' = [old EXCEPT ![n] = o]
      BY <2>3
    <3>3. entries'[n] = e
      BY <1>0, <3>2
    <3>4. Goto(n, l) /\ (l \in {"entry", "remove"} <=> e # {})
      BY <2>3, <3>3 DEF NextEntry
    <3> HIDE DEF e, o, l
    <3>5. LoopsType'
      BY <2>1, <2>3, <3>1, <3>4, LoopsMove
    <3>6. ListsType'
      BY <2>1, <3>1, <3>2, <3>4, ListsMove
    <3> QED BY <3>5, <3>6 DEF StateType
  <2> QED BY <1>4, <2>2, <2>3 DEF ReadDir
<1>5. CASE Info(n)
  <2>1. /\ pc[n] = "entry"
        /\ UNCHANGED <<mode, exit, ring, file, endpoints, old, found, timer, gone, starts>>
        /\ UNCHANGED faults \/ Fault
    BY <1>5 DEF Info, world, clock
  <2>2. CASE Continue(n)
    <3> DEFINE e == entries[n] \ {Entry(n)}
               l == IF e = {} THEN "set" ELSE "entry"
    <3>1. e \in SUBSET Addrs /\ l \in Labels /\ (l \in {"entry", "remove"} <=> e # {})
      BY <1>0 DEF Labels
    <3>2. entries' = [entries EXCEPT ![n] = e] /\ Goto(n, l)
      BY <2>2, ContinueIs
    <3> HIDE DEF e, l
    <3>3. LoopsType'
      BY <2>1, <3>1, <3>2, LoopsMove
    <3>4. ListsType'
      BY <2>1, <3>1, <3>2, ListsMove
    <3> QED BY <3>3, <3>4 DEF StateType
  <2>3. CASE Goto(n, "remove") /\ UNCHANGED entries
    <3>1. entries[n] # {}
      BY <2>1 DEF StateType, ListsType
    <3>2. LoopsType'
      BY <2>1, <2>3, LoopsMove DEF Labels
    <3>3. ListsType'
      BY <1>0, <2>1, <2>3, <3>1, ListsMove DEF Labels
    <3> QED BY <3>2, <3>3 DEF StateType
  <2> QED BY <1>5, <2>2, <2>3 DEF Info
<1>6. CASE RemoveStale(n)
  <2> DEFINE e == entries[n] \ {Entry(n)}
             l == IF e = {} THEN "set" ELSE "entry"
  <2>1. /\ pc[n] = "remove"
        /\ UNCHANGED file \/ file' = [file EXCEPT ![Entry(n)] = None]
        /\ UNCHANGED <<mode, exit, ring, endpoints, old, found, timer, gone, starts>>
        /\ UNCHANGED faults \/ Fault
        /\ Continue(n)
    BY <1>6 DEF RemoveStale, clock
  <2>2. e \in SUBSET Addrs /\ l \in Labels /\ (l \in {"entry", "remove"} <=> e # {})
    BY <1>0 DEF Labels
  <2>3. entries' = [entries EXCEPT ![n] = e] /\ Goto(n, l)
    BY <2>1, ContinueIs
  <2>4. Entry(n) \in Addrs
    BY <2>1, EntryTyped
  <2>5. UNCHANGED file \/ \E a \in Addrs, x \in File \cup {None} : file' = [file EXCEPT ![a] = x]
    BY <2>1, <2>4
  <2> HIDE DEF e, l
  <2>6. LoopsType'
    BY <2>1, <2>2, <2>3, LoopsMove
  <2>7. ListsType'
    BY <2>1, <2>2, <2>3, <2>5, ListsMove
  <2> QED BY <2>6, <2>7 DEF StateType
<1>7. CASE ReadFile(n)
  <2> DEFINE e == entries[n] \ {Entry(n)}
             l == IF e = {} THEN "set" ELSE "entry"
             f == found[n] \cup {Entry(n)}
  <2>1. /\ pc[n] = "entry" /\ Continue(n)
        /\ UNCHANGED <<mode, exit, ring, file, endpoints, old, timer, gone, starts>>
        /\ UNCHANGED faults \/ Fault
        /\ UNCHANGED found \/ found' = [found EXCEPT ![n] = f]
    BY <1>7 DEF ReadFile, world, clock
  <2>2. e \in SUBSET Addrs /\ l \in Labels /\ (l \in {"entry", "remove"} <=> e # {})
    BY <1>0 DEF Labels
  <2>3. entries' = [entries EXCEPT ![n] = e] /\ Goto(n, l)
    BY <2>1, ContinueIs
  <2>4. f \in SUBSET Addrs
    BY <1>0, <2>1, EntryTyped
  <2> HIDE DEF e, l, f
  <2>5. LoopsType'
    BY <2>1, <2>2, <2>3, LoopsMove
  <2>6. ListsType'
    BY <2>1, <2>2, <2>3, <2>4, ListsMove
  <2> QED BY <2>5, <2>6 DEF StateType
<1>8. CASE Fetch(n)
  <2>1. /\ pc[n] \in {"start", "select"} /\ timer' = [timer EXCEPT ![n] = 0]
        /\ UNCHANGED <<mode, exit, ring, file, endpoints, entries, old, gone, starts>>
        /\ endpoints \in SUBSET Addrs
    BY <1>8 DEF Fetch, RoundBegins, world, StateType, ListsType
  <2>2. \/ found' = [found EXCEPT ![n] = endpoints] /\ Goto(n, "set") /\ UNCHANGED faults
        \/ UNCHANGED found /\ Goto(n, "select") /\ Fault
    BY <1>8 DEF Fetch
  <2>3. LoopsType'
    BY <2>1, <2>2, LoopsMove DEF Labels
  <2>4. ListsType'
    BY <1>0, <2>1, <2>2, ListsMove DEF Labels
  <2> QED BY <2>3, <2>4 DEF StateType
<1>9. CASE SetPeers(n)
  <2>1. /\ pc[n] = "set" /\ Goto(n, "select")
        /\ ring' = [ring EXCEPT ![n] = found[n]] /\ found' = [found EXCEPT ![n] = {}]
        /\ UNCHANGED <<mode, exit, file, endpoints, entries, old, timer, gone, starts, faults>>
    BY <1>9 DEF SetPeers, world, clock
  <2>2. LoopsType'
    BY <2>1, LoopsMove DEF Labels
  <2>3. /\ ring' \in [Nodes -> SUBSET (Addrs \cup StaticPeers)]
        /\ found' \in [Nodes -> SUBSET Addrs]
    BY <2>1 DEF StateType, ListsType
  <2>4. \A k \in Nodes : pc'[k] \in {"entry", "remove"} <=> entries'[k] # {}
    BY <1>0, <2>1 DEF StateType, ListsType, Goto
  <2>5. ListsType'
    BY <2>1, <2>3, <2>4 DEF StateType, ListsType
  <2> QED BY <2>2, <2>5 DEF StateType
<1> QED BY <1>1, <1>2, <1>3, <1>4, <1>5, <1>6, <1>7, <1>8, <1>9 DEF LoopStep

\* Starting, stopping, the end of a node, Kubernetes and time preserve the types.
LEMMA WorldTyped ==
    ASSUME StateType,
           \/ \E n \in Nodes : StopStep(n) \/ Start(n) \/ StopClose(n) \/ Crash(n)
           \/ \E a \in Addrs : Kubelet(a)
           \/ Tick
    PROVE  StateType'
<1>1. ASSUME NEW n \in Nodes, End(n) PROVE StateType'
  <2>1. LoopsType'
    BY <1>1, Durations DEF End, StateType, LoopsType, Goto, Labels
  <2>2. ListsType'
    BY <1>1 DEF End, StateType, LoopsType, ListsType, Goto, world
  <2> QED BY <2>1, <2>2 DEF StateType
<1>2. ASSUME NEW n \in Nodes, StopRemove(n) PROVE StateType'
  <2>1. LoopsType'
    BY <1>2 DEF StopRemove, Fault, StateType, LoopsType, clock
  <2>2. ListsType'
    BY <1>2, SelfTyped DEF StopRemove, StateType, ListsType, scan
  <2> QED BY <2>1, <2>2 DEF StateType
<1>3. ASSUME NEW n \in Nodes, Start(n) PROVE StateType'
  <2>1. LoopsType'
    BY <1>3, Durations DEF Start, StateType, LoopsType, Goto, Labels
  <2>2. ring' \in [Nodes -> SUBSET (Addrs \cup StaticPeers)]
    BY <1>3 DEF Start, StateType, ListsType
  <2>3. \A k \in Nodes : pc'[k] \in {"entry", "remove"} <=> entries'[k] # {}
    BY <1>3 DEF Start, StateType, LoopsType, ListsType, Goto, scan
  <2>4. ListsType'
    BY <1>3, <2>2, <2>3 DEF Start, StateType, ListsType, world, scan
  <2> QED BY <2>1, <2>4 DEF StateType
<1>4. ASSUME NEW n \in Nodes, StopClose(n) PROVE StateType'
  BY <1>4 DEF StopClose, StateType, LoopsType, ListsType, world, scan, clock
<1>5. ASSUME NEW a \in Addrs, Kubelet(a) PROVE StateType'
  BY <1>5 DEF Kubelet, StateType, LoopsType, ListsType, scan, clock
<1>6. ASSUME Tick PROVE StateType'
  <2>1. faults' \in Nat
    BY <1>6 DEF Tick, Fault, StateType, LoopsType
  <2>2. ASSUME NEW n \in Nodes PROVE timer'[n] \in 0..Rhythm /\ gone'[n] \in 0..MaxGone
    <3>1. /\ timer[n] \in 0..Rhythm /\ gone[n] \in 0..MaxGone
          /\ Rhythm \in Nat /\ MaxGone \in Nat
      BY Durations DEF StateType, LoopsType
    <3>2. timer'[n] = timer[n] \/ (timer[n] # Rhythm /\ timer'[n] = timer[n] + 1)
      BY <1>6 DEF Tick
    <3>3. gone'[n] = gone[n] \/ (gone[n] < MaxGone /\ gone'[n] = gone[n] + 1)
      BY <1>6 DEF Tick
    <3> QED BY <3>1, <3>2, <3>3
  <2>3. ASSUME NEW a \in Addrs PROVE file'[a] \in File \cup {None}
    <3>1. file[a] \in File \cup {None}
      BY DEF StateType, ListsType
    <3>2. file'[a] = IF file[a] # None /\ file[a].age < MaxAge
                     THEN [file[a] EXCEPT !.age = file[a].age + 1] ELSE file[a]
      BY <1>6 DEF Tick
    <3> QED BY <3>1, <3>2, DiscoveryAssumption DEF File
  <2>4. file' \in [Addrs -> File \cup {None}]
    BY <1>6, <2>3 DEF Tick
  <2>5. LoopsType'
    BY <1>6, <2>1, <2>2 DEF Tick, StateType, LoopsType
  <2>6. ListsType'
    BY <1>6, <2>4 DEF Tick, StateType, ListsType, scan
  <2> QED BY <2>5, <2>6 DEF StateType
<1> QED BY <1>1, <1>2, <1>3, <1>4, <1>5, <1>6 DEF StopStep, Exit, Crash

\* The steps, without the bookkeeping of away.
LEMMA NextIs ==
    Next => /\ \/ \E n \in Nodes : LoopStep(n)
               \/ \E n \in Nodes : StopStep(n) \/ Start(n) \/ StopClose(n) \/ Crash(n)
               \/ \E a \in Addrs : Kubelet(a)
               \/ Tick
            /\ Remember
BY DEF Next

\* The next-state relation preserves the types.
LEMMA NextTyped == TypeOK /\ [Next]_vars => TypeOK'
<1> SUFFICES ASSUME TypeOK, [Next]_vars PROVE TypeOK'
  OBVIOUS
<1>1. TypeOK => StateType
  BY DEF TypeOK, StateType, LoopsType, ListsType
<1>2. CASE Next
  <2>1. StateType' /\ Remember
    BY <1>1, <1>2, NextIs, LoopTyped, WorldTyped
  <2>2. away' \in [Nodes -> SUBSET (Addrs \cup StaticPeers)]
    <3>1. \A n \in Nodes : ring'[n] \in SUBSET (Addrs \cup StaticPeers)
      BY <2>1 DEF StateType, ListsType
    <3> QED BY <2>1, <3>1 DEF Remember
  <2> QED BY <2>1, <2>2 DEF TypeOK, StateType, LoopsType, ListsType
<1>3. CASE UNCHANGED vars
  BY <1>3 DEF vars, TypeOK
<1> QED BY <1>2, <1>3

\* The initial states have the types.
LEMMA InitTyped == Init => TypeOK /\ StateType
<1> SUFFICES ASSUME Init PROVE TypeOK /\ StateType
  OBVIOUS
<1>1. [age |-> MaxAge, full |-> TRUE] \in File
  BY DiscoveryAssumption DEF File
<1>2. file \in [Addrs -> File \cup {None}]
  BY <1>1 DEF Init
<1>3. TypeOK
  BY <1>2, Durations DEF Init, TypeOK, Labels
<1> QED BY <1>3 DEF TypeOK, StateType, LoopsType, ListsType

\* Types, for all nodes, modes and durations: in particular the loop of scan looks at
\* an entry exactly as long as there is one.
THEOREM DiscoveryTypes == Spec => []TypeOK
BY InitTyped, NextTyped, PTL DEF Spec

-----------------------------------------------------------------------------
(* Nobody leaves a list without cause                                       *)

\* The labels of a node that makes a list: of all files, or of what it fetched.
Listing == {"entry", "remove", "set"}

\* Who of n's list has been away: whoever is away now, whom the list under
\* construction misses, and whom scan found stale.
AwayNow(n) == \A a \in ring[n] : ~Available(n, a) => a \in away[n]
AwayMissed(n) == pc[n] \in Listing => ring[n] \ (found[n] \cup entries[n]) \subseteq away[n]
AwayStale(n) == pc[n] \in {"entry", "remove"} => ring[n] \cap old[n] \subseteq away[n]

Rounds(n) ==
    /\ pc[n] \in {"write", "readdir", "entry", "remove"} => mode = "file"
    /\ pc[n] = "down" => ring[n] = {}
    /\ mode # "static" => ring[n] \subseteq Addrs

CauseInv ==
    StateType /\ \A n \in Nodes : Rounds(n) /\ AwayNow(n) /\ AwayMissed(n) /\ AwayStale(n)

\* Available, mode by mode, before and after a step.
LEMMA AvailableIs ==
    ASSUME NEW n, NEW a
    PROVE  /\ mode = "file" => (Available(n, a) <=> /\ file[a] # None /\ file[a].full
                                                   /\ ~IsStale(n, file[a]))
           /\ mode = "k8s" => (Available(n, a) <=> a \in endpoints)
           /\ mode' = "file" => (Available(n, a)' <=> /\ file'[a] # None /\ file'[a].full
                                                     /\ ~IsStale(n, file'[a]))
           /\ mode' = "k8s" => (Available(n, a)' <=> a \in endpoints')
BY DEF Available, IsStale

\* Whoever is away or overlooked is remembered, and stays so until the next list.
LEMMA Remembered ==
    ASSUME Remember, NEW n \in Nodes
    PROVE  /\ AwayNow(n)'
           /\ \A a \in ring'[n] : Overlooks(n, a) => a \in away'[n]
           /\ \A a \in ring'[n] : a \in away[n] /\ ~(pc[n] = "set" /\ pc'[n] = "select") => a \in away'[n]
<1>1. away'[n] = {a \in ring'[n] : \/ ~Available(n, a)'
                                   \/ Overlooks(n, a)
                                   \/ a \in away[n] /\ ~(pc[n] = "set" /\ pc'[n] = "select")}
  BY DEF Remember
<1>2. ASSUME NEW a \in ring'[n], ~Available(n, a)' PROVE a \in away'[n]
  BY <1>1, <1>2
<1>3. AwayNow(n)'
  BY <1>2 DEF AwayNow
<1> QED BY <1>1, <1>3

\* A step of others: a node's loop stays where it is, its list and what it has found
\* so far stay the same; a file it found stale may have been renewed.
LEMMA OthersCause ==
    ASSUME Remember, NEW n \in Nodes, Rounds(n), AwayMissed(n), AwayStale(n),
           pc'[n] = pc[n], ring'[n] = ring[n], found'[n] = found[n], entries'[n] = entries[n],
           old'[n] \subseteq old[n], mode' = mode
    PROVE  (Rounds(n) /\ AwayNow(n) /\ AwayMissed(n) /\ AwayStale(n))'
<1>1. Rounds(n)'
  BY DEF Rounds
<1>2. AwayNow(n)'
  BY Remembered
<1>3. \A a \in ring'[n] : a \in away[n] => a \in away'[n]
  BY Remembered
<1>4. AwayMissed(n)'
  BY <1>3 DEF AwayMissed
<1>5. AwayStale(n)'
  BY <1>3 DEF AwayStale
<1> QED BY <1>1, <1>2, <1>4, <1>5

\* Outside of a scan only who is away now matters.
LEMMA OutsideCause ==
    ASSUME Remember, NEW n \in Nodes, pc'[n] \notin Listing,
           pc'[n] \in {"write", "readdir"} => mode' = "file",
           pc'[n] = "down" => ring'[n] = {},
           mode' # "static" => ring'[n] \subseteq Addrs
    PROVE  (Rounds(n) /\ AwayNow(n) /\ AwayMissed(n) /\ AwayStale(n))'
BY Remembered DEF Rounds, AwayMissed, AwayStale, Listing

\* A step within a scan: who drops out of the entries and is not found is away now, or
\* overlooked.
LEMMA WithinCause ==
    ASSUME Remember, NEW n \in Nodes, Rounds(n), AwayMissed(n), AwayStale(n),
           pc[n] \in {"entry", "remove"}, pc'[n] \in Listing,
           UNCHANGED mode, ring'[n] = ring[n], old'[n] = old[n], found[n] \subseteq found'[n],
           \A a \in entries[n] : a \in ring[n] /\ a \notin found'[n] \cup entries'[n]
                                => ~Available(n, a)' \/ Overlooks(n, a)
    PROVE  (Rounds(n) /\ AwayNow(n) /\ AwayMissed(n) /\ AwayStale(n))'
<1>1. Rounds(n)'
  BY DEF Rounds, Listing
<1>2. AwayNow(n)'
  BY Remembered
<1>3. \A a \in ring'[n] : a \in away[n] => a \in away'[n]
  BY Remembered
<1>4. ASSUME NEW a \in ring'[n], a \notin found'[n] \cup entries'[n] PROVE a \in away'[n]
  <2>1. CASE a \in entries[n]
    <3>1. CASE ~Available(n, a)'
      BY <1>2, <1>4, <3>1 DEF AwayNow
    <3>2. CASE Overlooks(n, a)
      BY <1>4, <3>2, Remembered
    <3> QED BY <1>4, <2>1, <3>1, <3>2
  <2>2. CASE a \notin entries[n]
    BY <1>3, <1>4, <2>2 DEF AwayMissed, Listing
  <2> QED BY <2>1, <2>2
<1>5. AwayStale(n)'
  BY <1>3 DEF AwayStale
<1> QED BY <1>1, <1>2, <1>4, <1>5 DEF AwayMissed

\* Whoever makes a step of the loop is the only one whose loop moves.
LEMMA LoopAlone ==
    ASSUME StateType, NEW n \in Nodes, LoopStep(n) \/ Start(n) \/ End(n), NEW k \in Nodes \ {n}
    PROVE  /\ mode' = mode
           /\ pc'[k] = pc[k] /\ ring'[k] = ring[k] /\ found'[k] = found[k] /\ entries'[k] = entries[k]
           /\ old'[k] \subseteq old[k]
<1> USE DEF StateType, LoopsType, ListsType, Goto, NextEntry, world, scan
<1>1. CASE LoopEnds(n)
  BY <1>1 DEF LoopEnds
<1>2. CASE Truncate(n)
  BY <1>2 DEF Truncate, Touched
<1>3. CASE Write(n)
  BY <1>3 DEF Write, Touched
<1>4. CASE ReadDir(n)
  BY <1>4 DEF ReadDir
<1>5. CASE Info(n)
  BY <1>5 DEF Info, Continue
<1>6. CASE RemoveStale(n)
  BY <1>6 DEF RemoveStale, Continue
<1>7. CASE ReadFile(n)
  BY <1>7 DEF ReadFile, Continue
<1>8. CASE Fetch(n)
  BY <1>8 DEF Fetch
<1>9. CASE SetPeers(n)
  BY <1>9 DEF SetPeers
<1>10. CASE Start(n)
  BY <1>10 DEF Start
<1>11. CASE End(n)
  BY <1>11 DEF End
<1> QED BY <1>1, <1>2, <1>3, <1>4, <1>5, <1>6, <1>7, <1>8, <1>9, <1>10, <1>11 DEF LoopStep

\* The scan of node n goes on: whom it drops is away or overlooked.
LEMMA ScanCause ==
    ASSUME CauseInv, Remember, NEW n \in Nodes, Info(n) \/ RemoveStale(n) \/ ReadFile(n)
    PROVE  (Rounds(n) /\ AwayNow(n) /\ AwayMissed(n) /\ AwayStale(n))'
<1>1. /\ StateType /\ Rounds(n) /\ AwayMissed(n) /\ AwayStale(n)
      /\ pc[n] \in {"entry", "remove"}
      /\ UNCHANGED <<mode, ring, old>>
  BY DEF CauseInv, Info, RemoveStale, ReadFile, world
<1>2. mode = "file" /\ mode' = "file"
  BY <1>1 DEF Rounds
<1>3. /\ pc' = [pc EXCEPT ![n] = pc'[n]] /\ pc'[n] \in Listing
      /\ entries'[n] = entries[n] \ {Entry(n)} \/ entries'[n] = entries[n]
  <2>1. CASE Continue(n)
    BY <1>1, <2>1, ContinueIs DEF StateType, LoopsType, ListsType, Goto, Listing
  <2>2. CASE Goto(n, "remove") /\ UNCHANGED entries
    BY <1>1, <2>2 DEF StateType, LoopsType, ListsType, Goto, Listing
  <2> QED BY <2>1, <2>2 DEF Info, RemoveStale, ReadFile
<1>4. found[n] \subseteq found'[n]
  BY <1>1 DEF StateType, ListsType, Info, RemoveStale, ReadFile
<1>5. ASSUME NEW a \in entries[n], a \notin entries'[n], a \notin found'[n]
      PROVE  ~Available(n, a)' \/ Overlooks(n, a)
  <2>1. a = Entry(n) /\ a \in Addrs
    BY <1>1, <1>3, <1>5, EntryTyped
  <2>2. Fault => Overlooks(n, a)
    BY <1>1, <1>5 DEF Fault, Overlooks, StateType, LoopsType
  <2>3. CASE Info(n)
    <3>1. file'[a] = None \/ Fault
      BY <1>5, <2>1, <2>3 DEF Info, world
    <3> QED BY <1>2, <2>2, <3>1, AvailableIs
  <2>4. CASE RemoveStale(n)
    <3>1. file'[a] = None \/ Fault
      BY <1>1, <2>1, <2>4 DEF RemoveStale, StateType, ListsType
    <3> QED BY <1>2, <2>2, <3>1, AvailableIs
  <2>5. CASE ReadFile(n)
    <3>1. ~file'[a].full \/ Fault
      BY <1>1, <1>5, <2>1, <2>5 DEF ReadFile, StateType, ListsType, world
    <3> QED BY <1>2, <2>2, <3>1, AvailableIs
  <2> QED BY <2>3, <2>4, <2>5
<1>6. \A a \in entries[n] : a \in ring[n] /\ a \notin found'[n] \cup entries'[n]
                            => ~Available(n, a)' \/ Overlooks(n, a)
  BY <1>5
<1> QED BY <1>1, <1>3, <1>4, <1>6, WithinCause

\* A scan begins, or a list is fetched: whom it leaves out, or finds stale, is away.
LEMMA ListCause ==
    ASSUME CauseInv, Remember, NEW n \in Nodes, ReadDir(n) \/ Fetch(n), pc'[n] \in Listing
    PROVE  (Rounds(n) /\ AwayNow(n) /\ AwayMissed(n) /\ AwayStale(n))'
<1>1. StateType /\ Rounds(n) /\ UNCHANGED <<mode, ring, file, endpoints>>
  BY DEF CauseInv, ReadDir, Fetch, world
<1>2. AwayNow(n)'
  BY Remembered
<1>3. CASE ReadDir(n)
  <2>1. /\ mode = "file" /\ mode' = "file" /\ ring'[n] \subseteq Addrs
        /\ entries'[n] = {a \in Addrs : file'[a] # None}
        /\ old'[n] = {a \in Addrs : file'[a] # None /\ IsStale(n, file'[a])}
    BY <1>1, <1>3 DEF Rounds, ReadDir, Goto, Listing, StateType, LoopsType, ListsType
  <2>2. Rounds(n)'
    BY <1>1, <2>1 DEF Rounds, Listing
  <2>3. AwayMissed(n)'
    <3>1. \A a \in ring'[n] : a \notin entries'[n] => ~Available(n, a)'
      BY <2>1, AvailableIs
    <3> QED BY <1>2, <3>1 DEF AwayNow, AwayMissed
  <2>4. AwayStale(n)'
    <3>1. \A a \in ring'[n] : a \in old'[n] => ~Available(n, a)'
      BY <2>1, AvailableIs
    <3> QED BY <1>2, <3>1 DEF AwayNow, AwayStale
  <2> QED BY <1>2, <2>2, <2>3, <2>4
<1>4. CASE Fetch(n)
  <2>1. /\ mode' = "k8s" /\ pc'[n] = "set" /\ found'[n] = endpoints'
    BY <1>1, <1>4 DEF Fetch, Goto, Listing, StateType, LoopsType, ListsType
  <2>2. Rounds(n)'
    BY <1>1, <2>1 DEF Rounds
  <2>3. AwayMissed(n)'
    <3>1. \A a \in ring'[n] : a \notin found'[n] => ~Available(n, a)'
      BY <2>1, AvailableIs
    <3> QED BY <1>2, <3>1 DEF AwayNow, AwayMissed
  <2>4. AwayStale(n)'
    BY <2>1 DEF AwayStale
  <2> QED BY <1>2, <2>2, <2>3, <2>4
<1> QED BY <1>3, <1>4

\* The steps of node n's own that end outside of a scan.
LEMMA OutsideSteps ==
    ASSUME CauseInv, Remember, NEW n \in Nodes,
           LoopEnds(n) \/ Truncate(n) \/ Write(n) \/ ReadDir(n) \/ Fetch(n) \/ SetPeers(n)
             \/ Start(n) \/ End(n),
           pc'[n] \notin Listing
    PROVE  (Rounds(n) /\ AwayNow(n) /\ AwayMissed(n) /\ AwayStale(n))'
<1>1. StateType /\ Rounds(n)
  BY DEF CauseInv
<1>2. mode' = mode
  BY DEF LoopEnds, Truncate, Write, ReadDir, Fetch, SetPeers, Start, End
<1>3. pc'[n] \in {"write", "readdir"} => mode' = "file"
  <2> USE DEF StateType, LoopsType, Goto, NextEntry, Rounds
  <2>1. CASE Truncate(n) \/ Write(n)
    BY <1>1, <1>2, <2>1 DEF Truncate, Write
  <2>2. CASE LoopEnds(n) \/ Fetch(n) \/ SetPeers(n)
    BY <1>1, <2>2 DEF LoopEnds, Fetch, SetPeers
  <2>3. CASE ReadDir(n)
    BY <1>1, <2>3 DEF ReadDir
  <2>4. CASE Start(n) \/ End(n)
    BY <1>1, <2>4 DEF Start, End
  <2> QED BY <2>1, <2>2, <2>3, <2>4
<1>4. /\ pc'[n] = "down" => ring'[n] = {}
      /\ mode' # "static" => ring'[n] \subseteq Addrs
  <2> USE DEF StateType, LoopsType, ListsType, Goto, NextEntry, Rounds
  <2>1. CASE Truncate(n) \/ Write(n)
    BY <1>1, <2>1 DEF Truncate, Write
  <2>2. CASE LoopEnds(n) \/ Fetch(n)
    BY <1>1, <2>2 DEF LoopEnds, Fetch
  <2>3. CASE SetPeers(n)
    BY <1>1, <2>3 DEF SetPeers
  <2>4. CASE ReadDir(n)
    BY <1>1, <2>4 DEF ReadDir
  <2>5. CASE Start(n)
    BY <1>1, <2>5 DEF Start
  <2>6. CASE End(n)
    BY <1>1, <2>6 DEF End
  <2> QED BY <2>1, <2>2, <2>3, <2>4, <2>5, <2>6
<1> QED BY <1>3, <1>4, OutsideCause

\* Every step preserves CauseInv.
LEMMA NextCause == CauseInv /\ [Next]_vars => CauseInv'
<1> DEFINE Caused(n) == Rounds(n) /\ AwayNow(n) /\ AwayMissed(n) /\ AwayStale(n)
<1> SUFFICES ASSUME CauseInv, [Next]_vars PROVE CauseInv'
  OBVIOUS
<1>1. CASE Next
  <2>1. Remember /\ StateType /\ StateType'
    BY <1>1, NextIs, LoopTyped, WorldTyped DEF CauseInv
  <2>2. ASSUME NEW n \in Nodes, LoopStep(n) \/ Start(n) \/ End(n), NEW k \in Nodes PROVE Caused(k)'
    <3>1. CASE k # n
      <4>1. k \in Nodes \ {n}
        BY <3>1
      <4>2. /\ mode' = mode
            /\ pc'[k] = pc[k] /\ ring'[k] = ring[k] /\ found'[k] = found[k]
            /\ entries'[k] = entries[k] /\ old'[k] \subseteq old[k]
        BY <2>1, <2>2, <4>1, LoopAlone
      <4> QED BY <2>1, <4>2, OthersCause DEF CauseInv
    <3>2. CASE k = n /\ (Info(n) \/ RemoveStale(n) \/ ReadFile(n))
      BY <2>1, <3>2, ScanCause
    <3>3. CASE k = n /\ pc'[n] \in Listing /\ (ReadDir(n) \/ Fetch(n))
      BY <2>1, <3>3, ListCause
    <3>4. CASE k = n /\ pc'[n] \notin Listing /\ ~(Info(n) \/ RemoveStale(n) \/ ReadFile(n))
      BY <2>1, <2>2, <3>4, OutsideSteps DEF LoopStep
    <3>5. CASE /\ k = n /\ pc'[n] \in Listing
               /\ ~(ReadDir(n) \/ Fetch(n) \/ Info(n) \/ RemoveStale(n) \/ ReadFile(n))
      <4>1. pc'[n] \in {"ended", "write", "readdir", "select", "start", "down"}
        BY <2>1, <2>2, <3>5 DEF LoopStep, LoopEnds, Truncate, Write, SetPeers, Start, End, Goto,
                                StateType, LoopsType
      <4> QED BY <3>5, <4>1 DEF Listing
    <3> QED BY <3>1, <3>2, <3>3, <3>4, <3>5
  <2>3. ASSUME UNCHANGED <<mode, pc, ring, found, entries, old>>, NEW k \in Nodes PROVE Caused(k)'
    BY <2>1, <2>3, OthersCause DEF CauseInv
  <2>4. CASE \E n \in Nodes : LoopStep(n) \/ Start(n) \/ Exit(n) \/ Crash(n)
    BY <2>1, <2>2, <2>4 DEF CauseInv, Exit, Crash
  <2>5. CASE (\E n \in Nodes : StopRemove(n) \/ StopClose(n)) \/ (\E a \in Addrs : Kubelet(a)) \/ Tick
    <3>1. UNCHANGED <<mode, pc, ring, found, entries, old>>
      BY <2>5 DEF StopRemove, StopClose, Kubelet, Tick, scan
    <3> QED BY <2>1, <2>3, <3>1 DEF CauseInv
  <2> QED BY <1>1, <2>4, <2>5, NextIs DEF StopStep
<1>2. CASE UNCHANGED vars
  BY <1>2 DEF vars, CauseInv, StateType, LoopsType, ListsType, Rounds, AwayNow, AwayMissed, AwayStale,
              Available, IsStale
<1> QED BY <1>1, <1>2

(***************************************************************************)
(* A peer leaves the list of a running node only if it was not to be found *)
(* at some time since that list was made, or scan failed to look at its    *)
(* own file, in any mode: no other failed call, of any number, takes it    *)
(* out.  The history variable away is compared with what scan drops entry  *)
(* by entry while files are renewed, removed and truncated.                *)
(***************************************************************************)
THEOREM NoneDroppedWithoutCause == Spec => DroppedForCause
<1>1. Init => CauseInv
  <2> SUFFICES ASSUME Init PROVE CauseInv
    OBVIOUS
  <2>1. ASSUME NEW n \in Nodes PROVE Rounds(n) /\ AwayNow(n) /\ AwayMissed(n) /\ AwayStale(n)
    BY DEF Init, Rounds, AwayNow, AwayMissed, AwayStale, Listing
  <2> QED BY <2>1, InitTyped DEF CauseInv
<1>2. CauseInv /\ [Next]_vars =>
        [\A n \in Nodes : pc'[n] # "down" => ring[n] \ ring'[n] \subseteq away[n]]_vars
  <2> SUFFICES ASSUME CauseInv, Next, NEW n \in Nodes, pc'[n] # "down"
               PROVE  ring[n] \ ring'[n] \subseteq away[n]
    OBVIOUS
  <2>1. StateType
    BY DEF CauseInv
  <2>2. CASE ring'[n] = ring[n]
    BY <2>2
  <2>3. CASE \E k \in Nodes : LoopStep(k) \/ Start(k) \/ End(k)
    <3>1. PICK k \in Nodes : LoopStep(k) \/ Start(k) \/ End(k)
      BY <2>3
    <3>2. CASE k # n
      <4>1. n \in Nodes \ {k}
        BY <3>2
      <4>2. ring'[n] = ring[n]
        BY <2>1, <3>1, <4>1, LoopAlone
      <4> QED BY <4>2
    <3>3. CASE k = n /\ SetPeers(n)
      <4>1. pc[n] = "set" /\ ring'[n] = found[n] /\ entries[n] = {}
        BY <2>1, <3>3 DEF SetPeers, StateType, ListsType
      <4> QED BY <4>1 DEF CauseInv, AwayMissed, Listing
    <3>4. CASE k = n /\ Start(n)
      BY <3>4 DEF Start, CauseInv, Rounds
    <3>5. CASE k = n /\ End(n)
      BY <2>1, <3>5 DEF End, Goto, StateType, LoopsType
    <3>6. CASE k = n /\ LoopStep(n) /\ ~SetPeers(n)
      <4>1. UNCHANGED ring
        BY <3>6 DEF LoopStep, LoopEnds, Truncate, Write, ReadDir, Info, RemoveStale, ReadFile, Fetch
      <4> QED BY <4>1
    <3> QED BY <3>1, <3>2, <3>3, <3>4, <3>5, <3>6
  <2>4. CASE (\E k \in Nodes : StopRemove(k) \/ StopClose(k)) \/ (\E a \in Addrs : Kubelet(a)) \/ Tick
    BY <2>4 DEF StopRemove, StopClose, Kubelet, Tick
  <2> QED BY <2>3, <2>4, NextIs DEF StopStep, Exit, Crash
<1> QED BY <1>1, <1>2, NextCause, PTL DEF Spec, DroppedForCause

-----------------------------------------------------------------------------
(* The dead leave in time                                                   *)

DistinctAddresses == \A n, m \in Nodes : Self[n] = Self[m] => n = m

\* How long a node may be gone that a round found: at its beginning, timer ticks ago,
\* that node's heartbeat was not stale.  Every fault may cost a round.
Lag(n) == Stale + timer[n] + faults * Rhythm

\* Only a node that is down grows old, and with it the heartbeat it has left.
GoneIsDown == \A m \in Nodes : gone[m] > 0 => pc[m] = "down"
FilesAge ==
    \A m \in Nodes : pc[m] = "down" /\ file[Self[m]] # None =>
        file[Self[m]].age >= gone[m] \/ file[Self[m]].age = MaxAge

\* What a loop holds outside of its rounds.
Resting(n) ==
    /\ pc[n] \notin Listing => found[n] = {}
    /\ pc[n] \in {"down", "start"} => ring[n] = {}
    /\ pc[n] = "ended" => exit[n] # "no"

\* Whoever a scan has found or will find was there when it listed the directory.
FoundInTime(n, m) ==
    pc[n] \in Listing /\ Self[m] \in found[n] \cup (entries[n] \ old[n]) => gone[m] <= Lag(n)

\* Whoever is in the ring was there in the last round that made a list: the one that
\* has just ended, or the one before the one under way.
ListedInTime(n, m) ==
    pc[n] # "ended" /\ Self[m] \in ring[n] =>
        gone[m] <= Lag(n) + (IF pc[n] = "select" THEN 0 ELSE Rhythm)

Timely ==
    /\ GoneIsDown /\ FilesAge
    /\ \A n \in Nodes : Resting(n)
    /\ \A n, m \in Nodes : FoundInTime(n, m) /\ ListedInTime(n, m)

TimeInv == StateType /\ (mode = "file" => Timely)

\* The invariant bounds how long a dead node is listed.
LEMMA TimeImplied == TimeInv => DeadLeaveInTime
<1> SUFFICES ASSUME TimeInv, NEW n \in Nodes, NEW m \in Nodes, mode = "file", Running(n),
                    gone[m] > Patience(faults), Self[m] \in ring[n]
             PROVE  FALSE
  BY DEF DeadLeaveInTime
<1>1. pc[n] # "ended"
  BY DEF TimeInv, Timely, Resting, Running
<1>2. gone[m] <= Lag(n) + (IF pc[n] = "select" THEN 0 ELSE Rhythm)
  BY <1>1 DEF TimeInv, Timely, ListedInTime
<1>3. timer[n] \in 0..Rhythm /\ gone[m] \in Nat /\ faults \in Nat
  BY DEF TimeInv, StateType, LoopsType
<1> DEFINE cost == faults * Rhythm
<1>4. /\ Rhythm \in Nat /\ Stale \in Nat /\ cost \in Nat
      /\ Patience(faults) = Stale + Rhythm + Rhythm + cost
  BY <1>3, Durations
<1>5. Lag(n) = Stale + timer[n] + cost
  BY DEF Lag
<1> HIDE DEF cost
<1> QED BY <1>2, <1>3, <1>4, <1>5

\* How a step changes the lag: a fault adds a round.
LEMMA LagIs ==
    ASSUME StateType, StateType', UNCHANGED faults \/ Fault, NEW n \in Nodes
    PROVE  /\ Lag(n) \in Nat /\ Lag(n)' \in Nat /\ Rhythm \in Nat /\ Rhythm > 0
           /\ Stale <= Lag(n) /\ Stale <= Lag(n)'
           /\ timer'[n] = timer[n] => Lag(n) <= Lag(n)'
           /\ timer'[n] = timer[n] /\ Fault => Lag(n)' = Lag(n) + Rhythm
           /\ timer'[n] = timer[n] + 1 => Lag(n) + 1 <= Lag(n)'
           /\ timer'[n] = 0 => Lag(n) <= Lag(n)' + Rhythm
<1>1. /\ timer[n] \in 0..Rhythm /\ timer'[n] \in 0..Rhythm
      /\ faults \in Nat /\ (faults' = faults \/ faults' = faults + 1)
      /\ Fault => faults' = faults + 1
  BY DEF StateType, LoopsType, Fault
<1>2. /\ Rhythm \in Nat /\ Rhythm > 0 /\ Stale \in Nat
      /\ faults * Rhythm \in Nat /\ (faults + 1) * Rhythm = faults * Rhythm + Rhythm
  BY <1>1, Durations
<1> DEFINE cost == faults * Rhythm
           costn == faults' * Rhythm
<1>3. /\ cost \in Nat /\ (costn = cost \/ costn = cost + Rhythm)
      /\ Fault => costn = cost + Rhythm
  BY <1>1, <1>2
<1>4. Lag(n) = Stale + timer[n] + cost /\ Lag(n)' = Stale + timer'[n] + costn
  BY DEF Lag
<1> HIDE DEF cost, costn
<1> QED BY <1>1, <1>2, <1>3, <1>4

\* What a node's step leaves alone of the clocks and of other nodes' scans.
LEMMA ClocksAlone ==
    ASSUME StateType, NEW n \in Nodes, LoopStep(n) \/ Start(n) \/ End(n)
    PROVE  /\ UNCHANGED faults \/ Fault
           /\ \A k \in Nodes \ {n} : timer'[k] = timer[k] /\ exit'[k] = exit[k]
                                      /\ old[k] \ {Self[n]} \subseteq old'[k]
           /\ \A m \in Nodes : gone'[m] = gone[m] \/ (m = n /\ gone'[m] = 0)
<1> USE DEF StateType, LoopsType, ListsType, world, scan, clock
<1>1. CASE LoopEnds(n)
  BY <1>1 DEF LoopEnds
<1>2. CASE Truncate(n)
  BY <1>2 DEF Truncate, RoundBegins, Touched
<1>3. CASE Write(n)
  BY <1>3 DEF Write, Touched
<1>4. CASE ReadDir(n)
  BY <1>4 DEF ReadDir
<1>5. CASE Info(n)
  BY <1>5 DEF Info
<1>6. CASE RemoveStale(n)
  BY <1>6 DEF RemoveStale
<1>7. CASE ReadFile(n)
  BY <1>7 DEF ReadFile
<1>8. CASE Fetch(n)
  BY <1>8 DEF Fetch, RoundBegins
<1>9. CASE SetPeers(n)
  BY <1>9 DEF SetPeers
<1>10. CASE Start(n)
  BY <1>10 DEF Start
<1>11. CASE End(n)
  BY <1>11 DEF End
<1> QED BY <1>1, <1>2, <1>3, <1>4, <1>5, <1>6, <1>7, <1>8, <1>9, <1>10, <1>11 DEF LoopStep

\* A pair whose second node is up, or whose first node's loop and clock do not move.
LEMMA PairKept ==
    ASSUME StateType, StateType', UNCHANGED faults \/ Fault, NEW n \in Nodes, NEW m \in Nodes,
           FoundInTime(n, m), ListedInTime(n, m),
           \/ gone'[m] = 0
           \/ /\ gone'[m] = gone[m] /\ timer'[n] = timer[n]
              /\ pc'[n] = pc[n] /\ ring'[n] = ring[n] /\ found'[n] = found[n]
              /\ entries'[n] = entries[n]
              /\ Self[m] \in old[n] => Self[m] \in old'[n]
    PROVE  FoundInTime(n, m)' /\ ListedInTime(n, m)'
<1>1. /\ Lag(n) \in Nat /\ Lag(n)' \in Nat /\ Rhythm \in Nat
      /\ timer'[n] = timer[n] => Lag(n) <= Lag(n)'
      /\ gone[m] \in Nat
  BY LagIs DEF StateType, LoopsType
<1>2. FoundInTime(n, m)'
  BY <1>1 DEF FoundInTime
<1>3. ListedInTime(n, m)'
  BY <1>1 DEF ListedInTime
<1> QED BY <1>2, <1>3

\* A step of node n's loop, with a node m that is down: what is found was not stale.
LEMMA LoopInTime ==
    ASSUME TimeInv, StateType', mode = "file", NEW n \in Nodes, NEW m \in Nodes,
           LoopStep(n), gone[m] > 0, m # n
    PROVE  FoundInTime(n, m)' /\ ListedInTime(n, m)'
<1>1. /\ StateType /\ Timely /\ FoundInTime(n, m) /\ ListedInTime(n, m) /\ Resting(n)
      /\ gone[m] \in Nat /\ timer[n] \in Nat
      /\ pc[m] = "down"
      /\ pc \in [Nodes -> Labels]
  BY DEF TimeInv, Timely, GoneIsDown, StateType, LoopsType
<1>2. gone'[m] = gone[m] /\ (UNCHANGED faults \/ Fault)
  BY <1>1, ClocksAlone
<1>3. /\ Lag(n) \in Nat /\ Lag(n)' \in Nat /\ Rhythm \in Nat
      /\ Stale <= Lag(n)'
      /\ timer'[n] = timer[n] => Lag(n) <= Lag(n)'
      /\ timer'[n] = timer[n] /\ Fault => Lag(n)' = Lag(n) + Rhythm
      /\ timer'[n] = 0 => Lag(n) <= Lag(n)' + Rhythm
  BY <1>1, <1>2, LagIs
<1>4. CASE LoopEnds(n)
  <2>1. pc'[n] = "ended"
    BY <1>1, <1>4 DEF LoopEnds, Goto
  <2> QED BY <2>1 DEF FoundInTime, ListedInTime, Listing
<1>5. CASE Truncate(n)
  <2>1. /\ pc[n] \in {"start", "select"} /\ pc'[n] \in {"write", "readdir"}
        /\ timer'[n] = 0 /\ ring' = ring
    BY <1>1, <1>5 DEF Truncate, RoundBegins, Goto, StateType, LoopsType
  <2>2. Self[m] \in ring[n] => gone[m] <= Lag(n)
    BY <1>1, <1>3, <2>1 DEF Resting, ListedInTime
  <2>3. Self[m] \in ring'[n] => gone'[m] <= Lag(n)' + Rhythm
    BY <1>1, <1>2, <1>3, <2>1, <2>2
  <2> QED BY <2>1, <2>3 DEF FoundInTime, ListedInTime, Listing
<1>6. CASE Write(n)
  <2>1. /\ pc[n] = "write" /\ pc'[n] = "readdir" /\ timer' = timer /\ ring' = ring
    BY <1>1, <1>6 DEF Write, Goto, clock
  <2> QED BY <1>1, <1>2, <1>3, <2>1 DEF FoundInTime, ListedInTime, Listing
<1>7. CASE ReadDir(n)
  <2>1. pc[n] = "readdir" /\ timer' = timer /\ ring' = ring /\ found' = found
    BY <1>7 DEF ReadDir, clock
  <2>2. found[n] = {} /\ (Self[m] \in ring[n] => gone[m] <= Lag(n) + Rhythm)
    BY <1>1, <2>1 DEF Resting, ListedInTime, Listing
  <2>3. CASE Fault /\ Goto(n, "select")
    <3>1. pc'[n] = "select"
      BY <1>1, <2>3 DEF Goto
    <3>2. Self[m] \in ring'[n] => gone'[m] <= Lag(n)'
      BY <1>1, <1>2, <1>3, <2>1, <2>2, <2>3
    <3>3. ListedInTime(n, m)'
      BY <1>3, <3>1, <3>2 DEF ListedInTime
    <3> QED BY <3>1, <3>3 DEF FoundInTime, Listing
  <2>4. CASE /\ entries' = [entries EXCEPT ![n] = {a \in Addrs : file[a] # None}]
             /\ old' = [old EXCEPT ![n] = {a \in Addrs : file[a] # None /\ IsStale(n, file[a])}]
             /\ NextEntry(n, entries'[n])
    <3>1. pc'[n] \in {"entry", "set"}
      BY <1>1, <2>4 DEF NextEntry, Goto
    <3>2. /\ entries'[n] = {a \in Addrs : file[a] # None}
          /\ old'[n] = {a \in Addrs : file[a] # None /\ IsStale(n, file[a])}
      BY <1>1, <2>4 DEF StateType, ListsType
    <3>3. ASSUME Self[m] \in entries'[n] \ old'[n] PROVE gone[m] <= Stale
      <4>1. Self[m] \in Addrs /\ file[Self[m]] # None /\ ~IsStale(n, file[Self[m]])
        BY <3>2, <3>3
      <4>2. file[Self[m]] \in File
        BY <1>1, <4>1 DEF StateType, ListsType
      <4>3. file[Self[m]].age \in Nat /\ Skew[n] \in Nat /\ Stale \in Nat /\ MaxAge \in Nat /\ MaxAge > Stale
        BY <4>2, DiscoveryAssumption DEF File
      <4>4. file[Self[m]].age >= gone[m] \/ file[Self[m]].age = MaxAge
        BY <1>1, <4>1 DEF Timely, FilesAge
      <4> QED BY <1>1, <4>1, <4>3, <4>4 DEF IsStale
    <3>4. FoundInTime(n, m)'
      <4>1. Stale \in Nat
        BY Durations
      <4>2. Self[m] \in entries'[n] \ old'[n] => gone'[m] <= Lag(n)'
        BY <1>1, <1>2, <1>3, <3>3, <4>1
      <4> QED BY <2>1, <2>2, <4>2 DEF FoundInTime
    <3>5. ListedInTime(n, m)'
      <4>1. Self[m] \in ring'[n] => gone'[m] <= Lag(n)' + Rhythm
        BY <1>1, <1>2, <1>3, <2>1, <2>2
      <4> QED BY <3>1, <4>1 DEF ListedInTime
    <3> QED BY <3>4, <3>5
  <2> QED BY <1>7, <2>3, <2>4 DEF ReadDir
<1>8. CASE Info(n) \/ RemoveStale(n) \/ ReadFile(n)
  <2>1. /\ pc[n] \in {"entry", "remove"} /\ timer' = timer /\ ring' = ring /\ old' = old
    BY <1>8 DEF Info, RemoveStale, ReadFile, clock
  <2>2. /\ pc'[n] \in Listing
        /\ entries'[n] \subseteq entries[n]
    <3>1. CASE Continue(n)
      BY <1>1, <3>1, ContinueIs DEF StateType, ListsType, Goto, Listing
    <3>2. CASE Goto(n, "remove") /\ UNCHANGED entries
      BY <1>1, <3>2 DEF Goto, Listing
    <3> QED BY <1>8, <3>1, <3>2 DEF Info, RemoveStale, ReadFile
  <2>3. found'[n] \subseteq found[n] \cup (entries[n] \ old[n])
    <3>1. Entry(n) \in entries[n]
      BY <1>1, <2>1, EntryTyped
    <3>2. found' = found \/ (found' = [found EXCEPT ![n] = found[n] \cup {Entry(n)}] /\ Entry(n) \notin old[n])
      BY <1>8 DEF Info, RemoveStale, ReadFile
    <3> QED BY <1>1, <3>1, <3>2 DEF StateType, ListsType
  <2>4. FoundInTime(n, m)'
    <3>1. Self[m] \in found'[n] \cup (entries'[n] \ old'[n]) => gone[m] <= Lag(n)
      BY <1>1, <2>1, <2>2, <2>3 DEF FoundInTime, Listing
    <3>2. Self[m] \in found'[n] \cup (entries'[n] \ old'[n]) => gone'[m] <= Lag(n)'
      BY <1>1, <1>2, <1>3, <2>1, <3>1
    <3> QED BY <3>2 DEF FoundInTime
  <2>5. ListedInTime(n, m)'
    <3>1. Self[m] \in ring'[n] => gone'[m] <= Lag(n)' + Rhythm
      BY <1>1, <1>2, <1>3, <2>1 DEF ListedInTime
    <3> QED BY <2>2, <3>1 DEF ListedInTime, Listing
  <2> QED BY <2>4, <2>5
<1>9. CASE SetPeers(n)
  <2>1. /\ pc[n] = "set" /\ pc'[n] = "select" /\ timer' = timer /\ ring'[n] = found[n]
    BY <1>1, <1>9 DEF SetPeers, Goto, clock, StateType, ListsType
  <2>2. Self[m] \in ring'[n] => gone'[m] <= Lag(n)'
    BY <1>1, <1>2, <1>3, <2>1 DEF FoundInTime, Listing
  <2>3. ListedInTime(n, m)'
    BY <1>3, <2>1, <2>2 DEF ListedInTime
  <2> QED BY <2>1, <2>3 DEF FoundInTime, Listing
<1> QED BY <1>4, <1>5, <1>6, <1>7, <1>8, <1>9 DEF LoopStep, Fetch

\* Nodes that start, end or go on grow no older, and no file of a dead node is renewed.
LEMMA FilesInTime ==
    ASSUME DistinctAddresses, TimeInv, StateType', mode = "file", NEW n \in Nodes,
           LoopStep(n) \/ Start(n) \/ End(n)
    PROVE  GoneIsDown' /\ FilesAge'
<1>1. /\ StateType /\ GoneIsDown /\ FilesAge
      /\ pc \in [Nodes -> Labels] /\ gone \in [Nodes -> Nat] /\ gone' \in [Nodes -> Nat]
      /\ file \in [Addrs -> File \cup {None}]
  BY DEF TimeInv, Timely, StateType, LoopsType, ListsType
<1>2. ASSUME NEW m \in Nodes
      PROVE  /\ gone'[m] = gone[m] \/ (m = n /\ gone'[m] = 0)
             /\ m # n => pc'[m] = pc[m]
  BY <1>1, LoopAlone, ClocksAlone
<1>3. \/ pc[n] # "down" /\ pc'[n] # "down"
      \/ pc[n] = "down" /\ pc'[n] # "down" /\ gone'[n] = 0
      \/ pc[n] # "down" /\ pc'[n] = "down"
  <2> USE DEF Goto, NextEntry
  <2>1. CASE LoopEnds(n) \/ Truncate(n)
    BY <1>1, <2>1 DEF LoopEnds, Truncate, RoundBegins
  <2>2. CASE Write(n) \/ ReadDir(n) \/ SetPeers(n)
    BY <1>1, <2>2 DEF Write, ReadDir, SetPeers
  <2>3. CASE Info(n) \/ RemoveStale(n) \/ ReadFile(n)
    BY <1>1, <2>3 DEF Info, RemoveStale, ReadFile, Continue
  <2>4. CASE Start(n) \/ End(n)
    BY <1>1, <2>4 DEF Start, End
  <2> QED BY <2>1, <2>2, <2>3, <2>4 DEF LoopStep, Fetch
<1>4. ASSUME NEW m \in Nodes, gone'[m] > 0 PROVE pc'[m] = "down"
  <2>1. gone'[m] = gone[m] /\ pc[m] = "down"
    BY <1>1, <1>2, <1>4 DEF GoneIsDown
  <2> QED BY <1>2, <1>3, <1>4, <2>1
<1>5. ASSUME NEW m \in Nodes \ {n} PROVE file'[Self[m]] = file[Self[m]] \/ file'[Self[m]] = None
  <2>1. Self[m] \in Addrs /\ Self[m] # Self[n]
    BY SelfTyped DEF DistinctAddresses
  <2>2. CASE Truncate(n) \/ Write(n)
    BY <1>1, <2>1, <2>2 DEF Truncate, Write, Touched
  <2>3. CASE RemoveStale(n)
    BY <1>1, <2>1, <2>3 DEF RemoveStale
  <2>4. CASE LoopEnds(n) \/ ReadDir(n) \/ Info(n) \/ ReadFile(n) \/ Fetch(n) \/ SetPeers(n)
    BY <2>4 DEF LoopEnds, ReadDir, Info, ReadFile, Fetch, SetPeers, world
  <2>5. CASE Start(n) \/ End(n)
    BY <2>5 DEF Start, End, world
  <2> QED BY <2>2, <2>3, <2>4, <2>5 DEF LoopStep
<1>6. ASSUME NEW m \in Nodes, pc'[m] = "down", file'[Self[m]] # None
      PROVE  file'[Self[m]].age >= gone'[m] \/ file'[Self[m]].age = MaxAge
  <2>1. CASE m = n
    <3>1. gone[m] = 0 /\ gone'[m] = 0
      BY <1>1, <1>2, <1>3, <1>6, <2>1 DEF GoneIsDown
    <3>2. file'[Self[m]] \in File
      BY <1>6, SelfTyped DEF StateType, ListsType
    <3> QED BY <3>1, <3>2, DiscoveryAssumption DEF File
  <2>2. CASE m # n
    <3>1. file'[Self[m]] = file[Self[m]] /\ pc[m] = "down" /\ gone'[m] = gone[m]
      BY <1>2, <1>5, <1>6, <2>2
    <3> QED BY <1>1, <1>6, <3>1 DEF FilesAge
  <2> QED BY <2>1, <2>2
<1> QED BY <1>4, <1>6 DEF GoneIsDown, FilesAge

\* What a loop holds outside of its rounds, after a step of node n.
LEMMA RestingInTime ==
    ASSUME TimeInv, mode = "file", NEW n \in Nodes, LoopStep(n) \/ Start(n) \/ End(n), NEW k \in Nodes
    PROVE  Resting(k)'
<1>1. StateType /\ Resting(k) /\ Resting(n)
  BY DEF TimeInv, Timely
<1>2. CASE k # n
  <2>1. k \in Nodes \ {n}
    BY <1>2
  <2>2. pc'[k] = pc[k] /\ ring'[k] = ring[k] /\ found'[k] = found[k] /\ exit'[k] = exit[k]
    BY <1>1, <2>1, LoopAlone, ClocksAlone
  <2> QED BY <1>1, <2>2 DEF Resting
<1>3. CASE k = n
  <2> USE DEF StateType, LoopsType, ListsType, Goto, NextEntry, Resting, Listing
  <2>1. CASE LoopEnds(n)
    BY <1>1, <1>3, <2>1 DEF LoopEnds, scan
  <2>2. CASE Truncate(n) \/ Write(n)
    BY <1>1, <1>3, <2>2 DEF Truncate, RoundBegins, Write
  <2>3. CASE ReadDir(n)
    BY <1>1, <1>3, <2>3 DEF ReadDir
  <2>4. CASE Info(n) \/ RemoveStale(n) \/ ReadFile(n)
    BY <1>1, <1>3, <2>4 DEF Info, RemoveStale, ReadFile, Continue
  <2>5. CASE SetPeers(n)
    BY <1>1, <1>3, <2>5 DEF SetPeers
  <2>6. CASE Start(n)
    BY <1>1, <1>3, <2>6 DEF Start, scan
  <2>7. CASE End(n)
    BY <1>1, <1>3, <2>7 DEF End
  <2> QED BY <2>1, <2>2, <2>3, <2>4, <2>5, <2>6, <2>7 DEF LoopStep, Fetch
<1> QED BY <1>2, <1>3

\* Every step of a node preserves the invariant.
LEMMA NodeInTime ==
    ASSUME DistinctAddresses, TimeInv, StateType', mode = "file", NEW n \in Nodes,
           LoopStep(n) \/ Start(n) \/ End(n)
    PROVE  Timely'
<1>1. /\ StateType /\ Timely /\ GoneIsDown
      /\ UNCHANGED faults \/ Fault
      /\ gone \in [Nodes -> Nat]
  BY ClocksAlone DEF TimeInv, Timely, StateType, LoopsType
<1>2. ASSUME NEW k \in Nodes, NEW m \in Nodes PROVE FoundInTime(k, m)' /\ ListedInTime(k, m)'
  <2>1. /\ FoundInTime(k, m) /\ ListedInTime(k, m)
        /\ gone'[m] = gone[m] \/ gone'[m] = 0
        /\ gone[m] \in Nat
    BY <1>1, ClocksAlone DEF Timely
  <2>2. CASE gone'[m] = 0
    BY <1>1, <2>1, <2>2, PairKept
  <2>3. CASE gone'[m] # 0 /\ k # n
    <3>1. gone'[m] = gone[m] /\ gone[m] > 0 /\ pc[m] = "down"
      BY <1>1, <2>1, <2>3 DEF GoneIsDown
    <3>2. k \in Nodes \ {n}
      BY <2>3
    <3>3. /\ timer'[k] = timer[k] /\ old[k] \ {Self[n]} \subseteq old'[k]
          /\ pc'[k] = pc[k] /\ ring'[k] = ring[k] /\ found'[k] = found[k] /\ entries'[k] = entries[k]
          /\ old'[k] \subseteq old[k]
      BY <1>1, <3>2, LoopAlone, ClocksAlone
    <3>4. Self[m] \in old[k] => Self[m] \in old'[k]
      <4>1. CASE m # n
        BY <3>3, <4>1 DEF DistinctAddresses
      <4>2. CASE m = n
        <5>1. ~LoopStep(n) /\ ~End(n)
          BY <3>1, <4>2 DEF LoopStep, LoopEnds, Truncate, RoundBegins, Write, ReadDir, Info, RemoveStale,
                            ReadFile, Fetch, SetPeers, End
        <5>2. old' = old
          BY <5>1 DEF Start, scan
        <5> QED BY <5>2
      <4> QED BY <4>1, <4>2
    <3> QED BY <1>1, <2>1, <3>1, <3>3, <3>4, PairKept
  <2>4. CASE gone'[m] # 0 /\ k = n /\ LoopStep(n)
    <3>1. gone[m] > 0 /\ pc[m] = "down"
      BY <1>1, <2>1, <2>4 DEF GoneIsDown
    <3>2. m # n
      BY <2>4, <3>1 DEF LoopStep, LoopEnds, Truncate, RoundBegins, Write, ReadDir, Info, RemoveStale,
                        ReadFile, Fetch, SetPeers
    <3> QED BY <2>4, <3>1, <3>2, LoopInTime
  <2>5. CASE k = n /\ (Start(n) \/ End(n))
    <3>1. pc'[n] \in {"start", "down"}
      BY <1>1, <2>5 DEF Start, End, Goto, StateType, LoopsType
    <3>2. Resting(n)'
      BY RestingInTime
    <3>3. ring'[n] = {}
      BY <3>1, <3>2 DEF Resting
    <3> QED BY <2>5, <3>1, <3>3 DEF FoundInTime, ListedInTime, Listing
  <2> QED BY <2>2, <2>3, <2>4, <2>5
<1>3. \A k \in Nodes : Resting(k)'
  BY RestingInTime
<1>4. GoneIsDown' /\ FilesAge'
  BY FilesInTime
<1> QED BY <1>2, <1>3, <1>4 DEF Timely

\* A step that moves no loop and no clock; Stop may remove a file.
LEMMA StopInTime ==
    ASSUME TimeInv, StateType', mode = "file",
           UNCHANGED <<pc, ring, entries, old, found, timer, gone>>,
           UNCHANGED faults \/ Fault,
           \A n \in Nodes : file'[Self[n]] = file[Self[n]] \/ file'[Self[n]] = None,
           \A n \in Nodes : exit'[n] = exit[n] \/ exit'[n] # "no"
    PROVE  Timely'
<1>1. StateType /\ Timely
  BY DEF TimeInv
<1>2. GoneIsDown' /\ FilesAge'
  BY <1>1 DEF Timely, GoneIsDown, FilesAge
<1>3. \A n \in Nodes : Resting(n)'
  BY <1>1 DEF Timely, Resting
<1>4. ASSUME NEW n \in Nodes, NEW m \in Nodes PROVE FoundInTime(n, m)' /\ ListedInTime(n, m)'
  BY <1>1, PairKept DEF Timely
<1> QED BY <1>2, <1>3, <1>4 DEF Timely

\* Time passes: for every node whose loop runs, or at the cost of a fault.
LEMMA TickInTime ==
    ASSUME TimeInv, StateType', mode = "file", Tick
    PROVE  Timely'
<1>1. /\ StateType /\ Timely
      /\ UNCHANGED <<pc, exit, ring, entries, old, found>> /\ (UNCHANGED faults \/ Fault)
  BY DEF TimeInv, Tick, scan
<1>2. ASSUME NEW m \in Nodes
      PROVE  /\ gone[m] \in Nat /\ gone'[m] \in Nat
             /\ gone'[m] = gone[m] \/ (pc[m] = "down" /\ gone'[m] = gone[m] + 1)
  <2>1. gone[m] \in Nat
    BY <1>1 DEF StateType, LoopsType
  <2> QED BY <2>1 DEF Tick
<1>3. GoneIsDown'
  BY <1>1, <1>2 DEF Timely, GoneIsDown
<1>4. ASSUME NEW m \in Nodes, pc'[m] = "down", file'[Self[m]] # None
      PROVE  file'[Self[m]].age >= gone'[m] \/ file'[Self[m]].age = MaxAge
  <2>1. /\ Self[m] \in Addrs
        /\ file'[Self[m]] = IF file[Self[m]] # None /\ file[Self[m]].age < MaxAge
                            THEN [file[Self[m]] EXCEPT !.age = file[Self[m]].age + 1]
                            ELSE file[Self[m]]
    BY SelfTyped DEF Tick
  <2>2. file[Self[m]] # None
    BY <1>4, <2>1
  <2>3. file[Self[m]] \in File /\ MaxAge \in Nat
    BY <1>1, <2>1, <2>2, DiscoveryAssumption DEF StateType, ListsType
  <2>4. file[Self[m]].age >= gone[m] \/ file[Self[m]].age = MaxAge
    BY <1>1, <1>4, <2>2 DEF Timely, FilesAge
  <2>5. CASE file[Self[m]].age < MaxAge
    <3>1. file'[Self[m]].age = file[Self[m]].age + 1
      BY <2>1, <2>2, <2>3, <2>5 DEF File
    <3>2. file[Self[m]].age \in Nat
      BY <2>3 DEF File
    <3> QED BY <1>2, <2>3, <2>4, <2>5, <3>1, <3>2
  <2>6. CASE ~(file[Self[m]].age < MaxAge)
    <3>1. file'[Self[m]] = file[Self[m]] /\ file[Self[m]].age \in 0..MaxAge
      BY <2>1, <2>3, <2>6 DEF File
    <3> QED BY <2>3, <2>6, <3>1
  <2> QED BY <2>5, <2>6
<1>5. \A n \in Nodes : Resting(n)'
  BY <1>1 DEF Timely, Resting
<1>6. ASSUME NEW n \in Nodes, NEW m \in Nodes PROVE FoundInTime(n, m)' /\ ListedInTime(n, m)'
  <2>1. FoundInTime(n, m) /\ ListedInTime(n, m) /\ Resting(n)
    BY <1>1 DEF Timely
  <2>2. CASE pc[n] = "down"
    BY <1>1, <2>1, <2>2 DEF Resting, FoundInTime, ListedInTime, Listing
  <2>3. CASE pc[n] = "ended"
    BY <1>1, <2>3 DEF FoundInTime, ListedInTime, Listing
  <2>4. CASE pc[n] \notin {"down", "ended"}
    <3>1. Lag(n) + 1 <= Lag(n)' /\ Lag(n) \in Nat /\ Lag(n)' \in Nat /\ Rhythm \in Nat
      <4>1. timer[n] \in 0..Rhythm /\ Rhythm \in Nat
        BY <1>1, Durations DEF StateType, LoopsType
      <4>2. CASE timer[n] = Rhythm
        <5>1. timer'[n] = timer[n] /\ Fault
          BY <2>4, <4>1, <4>2 DEF Tick
        <5> QED BY <1>1, <5>1, LagIs
      <4>3. CASE timer[n] # Rhythm
        <5>1. timer'[n] = timer[n] + 1
          BY <2>4, <4>3 DEF Tick
        <5> QED BY <1>1, <5>1, LagIs
      <4> QED BY <4>2, <4>3
    <3>2. FoundInTime(n, m)'
      BY <1>1, <1>2, <2>1, <3>1 DEF FoundInTime
    <3>3. ListedInTime(n, m)'
      BY <1>1, <1>2, <2>1, <3>1 DEF ListedInTime
    <3> QED BY <3>2, <3>3
  <2> QED BY <2>2, <2>3, <2>4
<1> QED BY <1>3, <1>4, <1>5, <1>6 DEF Timely, FilesAge

\* The next-state relation preserves the invariant.
LEMMA NextInTime == DistinctAddresses /\ TimeInv /\ [Next]_vars => TimeInv'
<1> SUFFICES ASSUME DistinctAddresses, TimeInv, [Next]_vars PROVE TimeInv'
  OBVIOUS
<1>1. CASE Next
  <2>1. StateType'
    BY <1>1, NextIs, LoopTyped, WorldTyped DEF TimeInv
  <2>2. mode' = mode
    BY <1>1 DEF Next, LoopStep, LoopEnds, Truncate, Write, ReadDir, Info, RemoveStale, ReadFile, Fetch,
                SetPeers, StopStep, StopRemove, Exit, Start, StopClose, Crash, End, Kubelet, Tick
  <2>3. ASSUME mode = "file" PROVE Timely'
    <3>1. CASE \E n \in Nodes : LoopStep(n) \/ Start(n) \/ End(n)
      BY <2>1, <2>3, <3>1, NodeInTime
    <3>2. CASE Tick
      BY <2>1, <2>3, <3>2, TickInTime
    <3>3. CASE \E n \in Nodes : StopRemove(n) \/ StopClose(n)
      <4>1. /\ UNCHANGED <<pc, ring, entries, old, found, timer, gone>>
            /\ UNCHANGED faults \/ Fault
        BY <3>3 DEF StopRemove, StopClose, scan, clock
      <4>2. \A n \in Nodes : file'[Self[n]] = file[Self[n]] \/ file'[Self[n]] = None
        BY <3>3, SelfTyped DEF StopRemove, StopClose, world, TimeInv, StateType, ListsType
      <4>3. \A n \in Nodes : exit'[n] = exit[n] \/ exit'[n] # "no"
        BY <3>3 DEF StopRemove, StopClose, TimeInv, StateType, LoopsType
      <4> QED BY <2>1, <2>3, <4>1, <4>2, <4>3, StopInTime
    <3>4. CASE \E a \in Addrs : Kubelet(a)
      BY <2>3, <3>4 DEF Kubelet
    <3> QED BY <1>1, <3>1, <3>2, <3>3, <3>4, NextIs DEF StopStep, Exit, Crash
  <2> QED BY <2>1, <2>2, <2>3 DEF TimeInv
<1>2. CASE UNCHANGED vars
  <2>1. StateType' /\ mode' = mode
    BY <1>2 DEF vars, TimeInv, StateType, LoopsType, ListsType
  <2>2. mode = "file" => Timely'
    BY <1>2, <2>1, StopInTime DEF vars
  <2> QED BY <2>1, <2>2 DEF TimeInv
<1> QED BY <1>1, <1>2

(***************************************************************************)
(* A node that has ended is in nobody's list after the stale threshold,    *)
(* two rounds and a round for every fault, for any number of nodes, any    *)
(* intervals and any clocks that are not behind the file server's,         *)
(* provided that no two nodes have the same address.                       *)
(***************************************************************************)
THEOREM DeadLeave == DistinctAddresses => (Spec => []DeadLeaveInTime)
<1> SUFFICES ASSUME DistinctAddresses PROVE Spec => []DeadLeaveInTime
  OBVIOUS
<1>1. Init => TimeInv
  <2> SUFFICES ASSUME Init PROVE TimeInv
    OBVIOUS
  <2>1. ASSUME NEW m \in Nodes, file[Self[m]] # None PROVE file[Self[m]].age = MaxAge
    <3>1. file[Self[m]] \in {None, [age |-> MaxAge, full |-> TRUE]}
      BY SelfTyped DEF Init
    <3> QED BY <2>1, <3>1
  <2>2. GoneIsDown /\ FilesAge
    BY <2>1 DEF Init, GoneIsDown, FilesAge
  <2>3. ASSUME NEW n \in Nodes
        PROVE  Resting(n) /\ \A m \in Nodes : FoundInTime(n, m) /\ ListedInTime(n, m)
    BY DEF Init, Resting, FoundInTime, ListedInTime, Listing
  <2> QED BY <2>2, <2>3, InitTyped DEF TimeInv, Timely
<1>2. TimeInv /\ [Next]_vars => TimeInv'
  BY NextInTime
<1> QED BY <1>1, <1>2, TimeImplied, PTL DEF Spec

=============================================================================
