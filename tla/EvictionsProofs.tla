-------------------------- MODULE EvictionsProofs --------------------------
(***************************************************************************)
(* Proofs about Evictions, for any nodes, callers, evictions, lists of     *)
(* discovery and number of troubles.                                       *)
(***************************************************************************)
EXTENDS Evictions, TLAPS

\* The types of the variables that AdapterService keeps about the caches.
CacheTypeOK ==
    /\ present \subseteq Nodes /\ refreshing \subseteq Nodes
    /\ shared \in [Nodes -> {"none", "looking", "found", "failed"}]
    /\ call \in [Callers -> {"idle", "waiting", "ok", "err"}]
    /\ subject \in [Callers -> Nodes \cup {None}]

\* An eviction that is about to be forwarded has been carried out by the node it was
\* sent to, whose ring still has the steady peers.
AboutToSend ==
    \A e \in Admins :
        stage[e] = "send" => /\ at[e] \in Nodes
                             /\ at[e] \in told[e]
                             /\ steady[e] \subseteq peers[at[e]]

\* A node on which something is under way is wanted.
BusyIsWanted ==
    /\ \A n \in Nodes : shared[n] # "none" => n \in wanted
    /\ refreshing \subseteq wanted

Inv ==
    /\ TypeOK
    /\ AboutToSend
    /\ BusyIsWanted
    /\ EvictedUnlessWanted
    /\ EvictionReachesPeers

-----------------------------------------------------------------------------
(* The caches                                                               *)

\* A step of the cache of one node keeps the types, and stores or begins nothing that
\* was not under way.
LEMMA AdapterStepKeeps ==
    ASSUME CacheTypeOK, NEW n \in Nodes, Cache!AdapterStep(n)
    PROVE  /\ CacheTypeOK'
           /\ \A k \in Nodes : shared'[k] # "none" => shared[k] # "none"
           /\ refreshing' \subseteq refreshing \cup {k \in Nodes : shared[k] # "none"}
           /\ present' \subseteq present \cup refreshing \cup {k \in Nodes : shared[k] # "none"}
<1>1. CASE Cache!Find(n)
  BY <1>1 DEF CacheTypeOK, Cache!Find, Cache!Becomes
<1>2. CASE Cache!Deliver(n)
  BY <1>2 DEF CacheTypeOK, Cache!Deliver, Cache!Becomes
<1>3. CASE Cache!GiveUp(n)
  BY <1>3 DEF CacheTypeOK, Cache!GiveUp, Cache!Becomes
<1>4. CASE Cache!Answer(n)
  BY <1>4 DEF CacheTypeOK, Cache!Answer, Cache!Becomes
<1>5. CASE Cache!BeginRefresh(n)
  BY <1>5 DEF CacheTypeOK, Cache!BeginRefresh
<1>6. CASE Cache!Renew(n)
  BY <1>6 DEF CacheTypeOK, Cache!Renew
<1>7. CASE Cache!EndRefresh(n)
  BY <1>7 DEF CacheTypeOK, Cache!EndRefresh
<1>8. CASE Cache!Remove(n)
  BY <1>8 DEF CacheTypeOK, Cache!Remove
<1> QED
  BY <1>1, <1>2, <1>3, <1>4, <1>5, <1>6, <1>7, <1>8 DEF Cache!AdapterStep

\* So does a call, except for its own node.
LEMMA CallKeeps ==
    ASSUME CacheTypeOK, NEW c \in Callers, NEW n \in Nodes, Cache!Call(c, n)
    PROVE  /\ CacheTypeOK'
           /\ \A k \in Nodes : shared'[k] # "none" => shared[k] # "none" \/ k = n
           /\ UNCHANGED <<present, refreshing>>
BY DEF CacheTypeOK, Cache!Call, Cache!Becomes

\* So does a caller that leaves with its answer.
LEMMA LeaveKeeps ==
    ASSUME CacheTypeOK, NEW c \in Callers, Cache!Leave(c)
    PROVE  CacheTypeOK' /\ UNCHANGED <<present, shared, refreshing>>
BY DEF CacheTypeOK, Cache!Leave

\* So does the removal of the adapter from one node.
LEMMA RemoveKeeps ==
    ASSUME CacheTypeOK, NEW n \in Nodes, Cache!Remove(n)
    PROVE  /\ CacheTypeOK'
           /\ present' = present \ {n}
           /\ UNCHANGED <<shared, refreshing>>
BY DEF CacheTypeOK, Cache!Remove

\* So does a restart of one node.
LEMMA RestartKeeps ==
    ASSUME CacheTypeOK, NEW n \in Nodes, Cache!Restart({n})
    PROVE  /\ CacheTypeOK'
           /\ \A k \in Nodes : shared'[k] # "none" => shared[k] # "none"
           /\ present' = present /\ refreshing' \subseteq refreshing
BY DEF CacheTypeOK, Cache!Restart

-----------------------------------------------------------------------------
(* The invariant is inductive                                               *)

\* The part that is about the caches.
Quiet == CacheTypeOK /\ BusyIsWanted /\ EvictedUnlessWanted /\ wanted \subseteq Nodes

\* The part that is about evictions.
Spread ==
    /\ alive \subseteq Nodes
    /\ peers \in [Nodes -> SUBSET Nodes]
    /\ stage \in [Admins -> {"new", "send", "answered", "failed", "dead"}]
    /\ at \in [Admins -> Nodes \cup {None}]
    /\ sent \subseteq [ev : Admins, to : Nodes]
    /\ \A m \in sent : stage[m.ev] = "answered" /\ m.to # at[m.ev]
    /\ told \in [Admins -> SUBSET Nodes]
    /\ missed \in [Admins -> SUBSET Nodes]
    /\ steady \in [Admins -> SUBSET Nodes]
    /\ AboutToSend
    /\ EvictionReachesPeers

\* The invariant is these two parts.
LEMMA InvParts == (Inv <=> Quiet /\ Spread) /\ (Inv' <=> Quiet' /\ Spread')
BY DEF Inv, Quiet, Spread, TypeOK, CacheTypeOK

\* Manager.EvictAdapter on a node, asked for or forwarded.
LEMMA EvictAdapterQuiet ==
    ASSUME Quiet, NEW n \in Nodes, EvictAdapter(n)
    PROVE  Quiet'
<1>1. CacheTypeOK' /\ present' = present \ {n} /\ UNCHANGED <<shared, refreshing>>
  BY RemoveKeeps DEF Quiet, EvictAdapter
<1> QED
  BY <1>1 DEF Quiet, EvictAdapter, BusyIsWanted, EvictedUnlessWanted

\* Nothing is under way and nothing was evicted at the start.
LEMMA InitInv ==
    ASSUME Init
    PROVE  Inv
BY DEF Init, Cache!Init, Inv, TypeOK, AboutToSend, BusyIsWanted, EvictedUnlessWanted,
       EvictionReachesPeers

\* What was evicted stays away, unless it is wanted.
LEMMA NextQuiet ==
    ASSUME Quiet, Spread, Next
    PROVE  Quiet'
<1> USE DEF Quiet
<1>0. ASSUME UNCHANGED <<cached, wanted>>
      PROVE  Quiet'
  BY <1>0 DEF cached, CacheTypeOK, BusyIsWanted, EvictedUnlessWanted
<1>1. ASSUME NEW e \in Admins, NEW n \in Nodes, Evict(e, n)
      PROVE  Quiet'
  BY <1>0, <1>1, EvictAdapterQuiet DEF Evict
<1>2. ASSUME NEW e \in Admins, Broadcast(e)
      PROVE  Quiet'
  BY <1>0, <1>2 DEF Broadcast
<1>3. ASSUME NEW m \in sent, ServeForwarded(m)
      PROVE  Quiet'
  <2>1. m.to \in Nodes
    BY <1>3 DEF Spread
  <2> QED BY <1>0, <1>3, <2>1, EvictAdapterQuiet DEF ServeForwarded
<1>4. ASSUME NEW m \in sent, LoseForwarded(m)
      PROVE  Quiet'
  BY <1>0, <1>4 DEF LoseForwarded
<1>5. ASSUME NEW c \in Callers, NEW n \in Nodes, Warmup(c, n)
      PROVE  Quiet'
  <2>1. /\ CacheTypeOK'
        /\ \A k \in Nodes : shared'[k] # "none" => shared[k] # "none" \/ k = n
        /\ UNCHANGED <<present, refreshing>>
    BY <1>5, CallKeeps DEF Warmup
  <2> QED BY <1>5, <2>1 DEF Warmup, BusyIsWanted, EvictedUnlessWanted
<1>6. ASSUME NEW c \in Callers, Return(c)
      PROVE  Quiet'
  <2>1. CacheTypeOK' /\ UNCHANGED <<present, shared, refreshing, wanted>>
    BY <1>6, LeaveKeeps DEF Return
  <2> QED BY <2>1 DEF BusyIsWanted, EvictedUnlessWanted
<1>7. ASSUME NEW n \in Nodes, CacheStep(n)
      PROVE  Quiet'
  <2>1. /\ CacheTypeOK'
        /\ \A k \in Nodes : shared'[k] # "none" => shared[k] # "none"
        /\ refreshing' \subseteq refreshing \cup {k \in Nodes : shared[k] # "none"}
        /\ present' \subseteq present \cup refreshing \cup {k \in Nodes : shared[k] # "none"}
    BY <1>7, AdapterStepKeeps DEF CacheStep
  <2>2. wanted' = wanted
    BY <1>7 DEF CacheStep
  <2> QED BY <2>1, <2>2 DEF BusyIsWanted, EvictedUnlessWanted
<1>8. ASSUME NEW n \in Nodes, Crash(n)
      PROVE  Quiet'
  <2>1. /\ CacheTypeOK'
        /\ \A k \in Nodes : shared'[k] # "none" => shared[k] # "none"
        /\ present' = present /\ refreshing' \subseteq refreshing
    BY <1>8, RestartKeeps DEF Crash
  <2>2. wanted' = wanted
    BY <1>8 DEF Crash
  <2> QED BY <2>1, <2>2 DEF BusyIsWanted, EvictedUnlessWanted
<1>9. ASSUME NEW n \in Nodes, Start(n)
      PROVE  Quiet'
  BY <1>0, <1>9 DEF Start
<1>10. ASSUME NEW n \in Nodes, NEW S \in Lists, Update(n, S)
       PROVE  Quiet'
  BY <1>0, <1>10 DEF Update
<1> QED
  BY <1>1, <1>2, <1>3, <1>4, <1>5, <1>6, <1>7, <1>8, <1>9, <1>10 DEF Next

\* What was carried out reaches the peers.
LEMMA NextSpread ==
    ASSUME Spread, Next
    PROVE  Spread'
<1> USE DEF Spread, AboutToSend, EvictionReachesPeers
<1>0. ASSUME UNCHANGED <<cluster, eviction>>
      PROVE  Spread'
  BY <1>0 DEF cluster, eviction
<1>1. ASSUME NEW e \in Admins, NEW n \in Nodes, Evict(e, n)
      PROVE  Spread'
  <2>1. \A m \in sent : m.ev \in Admins /\ m.ev # e
    BY <1>1 DEF Evict
  <2>2. CASE /\ stage' = [stage EXCEPT ![e] = "send"]
             /\ told' = [told EXCEPT ![e] = {n}]
             /\ steady' = [steady EXCEPT ![e] = peers[n]]
    BY <1>1, <2>1, <2>2 DEF Evict, cluster
  <2>3. CASE stage' = [stage EXCEPT ![e] = "failed"] /\ UNCHANGED <<told, steady>>
    BY <1>1, <2>1, <2>3 DEF Evict, cluster
  <2> QED BY <1>1, <2>2, <2>3 DEF Evict
<1>2. ASSUME NEW e \in Admins, Broadcast(e)
      PROVE  Spread'
  <2>1. at[e] \in Nodes /\ steady[e] \subseteq peers[at[e]] /\ at[e] \in told[e]
    BY <1>2 DEF Broadcast
  <2>2. /\ sent' = sent \cup {[ev |-> e, to |-> p] : p \in peers[at[e]] \ {at[e]}}
        /\ stage' = [stage EXCEPT ![e] = "answered"]
        /\ UNCHANGED <<alive, peers, at, told, missed, steady>>
    BY <1>2 DEF Broadcast, cluster
  <2>3. \A m \in sent' \ sent : /\ m.ev = e /\ m.to \in Nodes /\ m.to # at[e]
                                /\ m \in [ev : Admins, to : Nodes]
    BY <2>1, <2>2
  <2>4. \A p \in steady[e] : p \in told'[e] \/ [ev |-> e, to |-> p] \in sent'
    BY <2>1, <2>2
  <2> QED BY <2>1, <2>2, <2>3, <2>4
<1>3. ASSUME NEW m \in sent, ServeForwarded(m)
      PROVE  Spread'
  <2>1. m = [ev |-> m.ev, to |-> m.to] /\ m.ev \in Admins /\ m.to \in Nodes
    BY DEF Spread
  <2>2. CASE told' = [told EXCEPT ![m.ev] = @ \cup {m.to}] /\ UNCHANGED missed
    BY <1>3, <2>1, <2>2 DEF ServeForwarded, cluster
  <2>3. CASE missed' = [missed EXCEPT ![m.ev] = @ \cup {m.to}] /\ UNCHANGED told
    BY <1>3, <2>1, <2>3 DEF ServeForwarded, cluster
  <2> QED BY <1>3, <2>2, <2>3 DEF ServeForwarded
<1>4. ASSUME NEW m \in sent, LoseForwarded(m)
      PROVE  Spread'
  <2>1. m = [ev |-> m.ev, to |-> m.to] /\ m.ev \in Admins /\ m.to \in Nodes
    BY DEF Spread
  <2> QED BY <1>4, <2>1 DEF LoseForwarded, cluster
<1>5. ASSUME NEW c \in Callers, NEW n \in Nodes, Warmup(c, n)
      PROVE  Spread'
  BY <1>0, <1>5 DEF Warmup
<1>6. ASSUME NEW c \in Callers, Return(c)
      PROVE  Spread'
  BY <1>0, <1>6 DEF Return
<1>7. ASSUME NEW n \in Nodes, CacheStep(n)
      PROVE  Spread'
  BY <1>0, <1>7 DEF CacheStep
<1>8. ASSUME NEW n \in Nodes, Crash(n)
      PROVE  Spread'
  <2>1. /\ alive' = alive \ {n}
        /\ peers' = [peers EXCEPT ![n] = {}]
        /\ stage' = [e \in Admins |-> IF at[e] = n /\ stage[e] = "send" THEN "dead" ELSE stage[e]]
        /\ UNCHANGED <<at, sent, told, missed, steady>>
    BY <1>8 DEF Crash
  <2> QED BY <2>1
<1>9. ASSUME NEW n \in Nodes, Start(n)
      PROVE  Spread'
  BY <1>9 DEF Start, eviction
<1>10. ASSUME NEW n \in Nodes, NEW S \in Lists, Update(n, S)
       PROVE  Spread'
  <2>1. S \in SUBSET Nodes
    BY EvictionsAssumption
  <2>2. /\ peers' = [peers EXCEPT ![n] = S]
        /\ steady' = [e \in Admins |-> IF at[e] = n /\ stage[e] = "send" THEN steady[e] \cap S
                                       ELSE steady[e]]
        /\ UNCHANGED <<alive, stage, at, sent, told, missed>>
    BY <1>10 DEF Update
  <2> QED BY <2>1, <2>2
<1> QED
  BY <1>1, <1>2, <1>3, <1>4, <1>5, <1>6, <1>7, <1>8, <1>9, <1>10 DEF Next

\* The inductive invariant.
LEMMA Invariance == Spec => []Inv
<1>1. Init => Inv
  BY InitInv
<1>2. Inv /\ [Next]_vars => Inv'
  <2>1. Inv /\ Next => Inv'
    BY InvParts, NextQuiet, NextSpread
  <2>2. Inv /\ UNCHANGED vars => Inv'
    BY DEF vars, Inv, TypeOK, AboutToSend, BusyIsWanted, EvictedUnlessWanted,
           EvictionReachesPeers
  <2> QED BY <2>1, <2>2
<1> QED BY <1>1, <1>2, PTL DEF Spec

-----------------------------------------------------------------------------

\* Handler.evict: whatever is lost, crashes or changes its ring, an eviction is
\* forwarded only after the node has carried it out, and never to that node itself.
THEOREM EvictionTypes == Spec => []TypeOK
BY Invariance, PTL DEF Inv

\* Manager.EvictAdapter: an adapter comes back to a node that has evicted it only
\* through a call or a refresh that was under way at that moment, or a later call.
THEOREM EvictedStaysAway == Spec => []EvictedUnlessWanted
BY Invariance, PTL DEF Inv

\* Handler.evict: an answered eviction has been carried out by every steady peer, is
\* under way to it, or was lost on the way.
THEOREM EvictionSpreads == Spec => []EvictionReachesPeers
BY Invariance, PTL DEF Inv

=============================================================================
