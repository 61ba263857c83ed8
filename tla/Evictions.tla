------------------------------ MODULE Evictions ------------------------------
(***************************************************************************)
(* POST /admin/cache/evict and /admin/cache/warmup, internal/admin, on a   *)
(* cluster: a node that is asked to evict an adapter does so and tells the *)
(* peers of its ring, once each and without waiting for them.              *)
(*                                                                         *)
(* The module is about one adapter.  The cache of every node is an         *)
(* AdapterService, in which "adapter n" is the adapter's copy on node n.   *)
(*                                                                         *)
(* Simplifications:                                                        *)
(*  - Callers are requests that reach EnsureAdapter and warmups; a warmup  *)
(*    of several adapters is a sequence of calls, whatever each returns.   *)
(*  - A call to a peer that times out on the way is lost; one that times   *)
(*    out later has been carried out, and its sender ignores that.         *)
(*  - broadcastEviction starts its goroutines one by one before the        *)
(*    handler answers, and skips its own address only; here they all start *)
(*    in one step, after which each goes at its own pace.  A node has one  *)
(*    address, so that a list that names a node twice is left out.         *)
(***************************************************************************)
EXTENDS Integers

CONSTANTS
    Nodes, Callers, None,   \* Callers, None: see AdapterService
    Admins,         \* requests for an eviction, each sent once
    Lists,          \* the sets of peers that discovery may report
    MaxTroubles     \* bound: crashes, lost calls, failed removals, reports of discovery

ASSUME EvictionsAssumption ==
    /\ None \notin Nodes
    /\ Lists \subseteq SUBSET Nodes
    /\ MaxTroubles \in Nat

VARIABLES
    present, shared, call, subject, refreshing,     \* see AdapterService
    alive,          \* nodes that run
    peers,          \* peers[n]: Ring.Peers of node n
    stage,          \* stage[e]: "new", "send", "answered", "failed" or "dead"
    at,             \* at[e]: the node that e was sent to
    sent,           \* forwarded evictions under way: [ev, to]
    told, missed,   \* who has carried e out, and whose call was lost
    steady,         \* the peers that have been in at[e]'s ring since e arrived
    wanted,         \* nodes with a call or a refresh at or since their last eviction
    troubles

Cache == INSTANCE AdapterService WITH Adapters <- Nodes

cached   == <<present, shared, call, subject, refreshing>>
cluster  == <<alive, peers>>
eviction == <<stage, at, sent, told, missed, steady>>
vars == <<present, shared, call, subject, refreshing, alive, peers, stage, at, sent,
          told, missed, steady, wanted, troubles>>

Trouble == troubles < MaxTroubles /\ troubles' = troubles + 1

Init ==
    /\ Cache!Init
    /\ alive = Nodes
    /\ peers = [n \in Nodes |-> Nodes]
    /\ stage = [e \in Admins |-> "new"]
    /\ at = [e \in Admins |-> None]
    /\ sent = {}
    /\ told = [e \in Admins |-> {}]
    /\ missed = [e \in Admins |-> {}]
    /\ steady = [e \in Admins |-> {}]
    /\ wanted = Nodes
    /\ troubles = 0

-----------------------------------------------------------------------------

\* Manager.EvictAdapter on node n.  A call or a refresh that is under way may bring
\* the adapter back.
EvictAdapter(n) ==
    /\ Cache!Remove(n)
    /\ wanted' = IF shared[n] # "none" \/ n \in refreshing THEN wanted \cup {n} ELSE wanted \ {n}

\* A client asks node n: an error of EvictAdapter is the answer, and nobody is told.
Evict(e, n) ==
    /\ stage[e] = "new" /\ n \in alive
    /\ at' = [at EXCEPT ![e] = n]
    /\ \/ /\ EvictAdapter(n)
          /\ stage' = [stage EXCEPT ![e] = "send"]
          /\ told' = [told EXCEPT ![e] = {n}]
          /\ steady' = [steady EXCEPT ![e] = peers[n]]
          /\ UNCHANGED troubles
       \/ /\ Trouble
          /\ stage' = [stage EXCEPT ![e] = "failed"]
          /\ UNCHANGED <<cached, wanted, told, steady>>
    /\ UNCHANGED <<cluster, sent, missed>>

\* Mutant of Broadcast: only one peer is told.
BroadcastOne(e) ==
    /\ stage[e] = "send"
    /\ stage' = [stage EXCEPT ![e] = "answered"]
    /\ sent' = sent \cup {[ev |-> e, to |-> CHOOSE p \in peers[at[e]] : p # at[e]]}
    /\ UNCHANGED <<cached, cluster, at, told, missed, steady, wanted, troubles>>

\* Mutant of Broadcast: the check for the node itself is missing.
BroadcastToSelf(e) ==
    /\ stage[e] = "send"
    /\ stage' = [stage EXCEPT ![e] = "answered"]
    /\ sent' = sent \cup {[ev |-> e, to |-> p] : p \in peers[at[e]]}
    /\ UNCHANGED <<cached, cluster, at, told, missed, steady, wanted, troubles>>

\* A goroutine for every peer in the ring by now, but the node itself; the answer
\* does not wait for them.
Broadcast(e) ==
    /\ stage[e] = "send"
    /\ stage' = [stage EXCEPT ![e] = "answered"]
    /\ sent' = sent \cup {[ev |-> e, to |-> p] : p \in peers[at[e]] \ {at[e]}}
    /\ UNCHANGED <<cached, cluster, at, told, missed, steady, wanted, troubles>>

\* Mutant of ServeForwarded: the header is not looked at.
ServeForwardedAgain(m) ==
    /\ m \in sent /\ m.to \in alive
    /\ sent' = (sent \ {m}) \cup {[ev |-> m.ev, to |-> p] : p \in peers[m.to] \ {m.to}}
    /\ EvictAdapter(m.to)
    /\ told' = [told EXCEPT ![m.ev] = @ \cup {m.to}]
    /\ UNCHANGED <<cluster, stage, at, missed, steady, troubles>>

\* A forwarded eviction is carried out, or fails, and goes no further.
ServeForwarded(m) ==
    /\ m \in sent /\ m.to \in alive
    /\ sent' = sent \ {m}
    /\ \/ /\ EvictAdapter(m.to)
          /\ told' = [told EXCEPT ![m.ev] = @ \cup {m.to}]
          /\ UNCHANGED <<missed, troubles>>
       \/ /\ Trouble
          /\ missed' = [missed EXCEPT ![m.ev] = @ \cup {m.to}]
          /\ UNCHANGED <<cached, wanted, told>>
    /\ UNCHANGED <<cluster, stage, at, steady>>

\* Forward fails, also because the sender is no longer there; there is no retry.
LoseForwarded(m) ==
    /\ m \in sent
    /\ IF {m.to, at[m.ev]} \subseteq alive THEN Trouble ELSE UNCHANGED troubles
    /\ sent' = sent \ {m}
    /\ missed' = [missed EXCEPT ![m.ev] = @ \cup {m.to}]
    /\ UNCHANGED <<cached, cluster, stage, at, told, steady, wanted>>

-----------------------------------------------------------------------------

\* A request or a warmup calls EnsureAdapter on node n.
Warmup(c, n) ==
    /\ n \in alive
    /\ Cache!Call(c, n)
    /\ wanted' = wanted \cup {n}
    /\ UNCHANGED <<cluster, eviction, troubles>>

\* The caches go on.
CacheStep(n) ==
    /\ n \in alive
    /\ Cache!AdapterStep(n)
    /\ UNCHANGED <<cluster, eviction, wanted, troubles>>

Return(c) ==
    /\ Cache!Leave(c)
    /\ UNCHANGED <<cluster, eviction, wanted, troubles>>

\* Discovery reports the peers S to node n.
Update(n, S) ==
    /\ n \in alive
    /\ Trouble
    /\ peers' = [peers EXCEPT ![n] = S]
    /\ steady' = [e \in Admins |-> IF at[e] = n /\ stage[e] = "send" THEN steady[e] \cap S
                                   ELSE steady[e]]
    /\ UNCHANGED <<cached, alive, stage, at, sent, told, missed, wanted>>

\* A node dies, and with it the handlers that run there.  The forwarded evictions it
\* has sent may still arrive, even after it has started again.
Crash(n) ==
    /\ n \in alive
    /\ Trouble
    /\ alive' = alive \ {n}
    /\ peers' = [peers EXCEPT ![n] = {}]
    /\ Cache!Restart({n})
    /\ stage' = [e \in Admins |-> IF at[e] = n /\ stage[e] = "send" THEN "dead" ELSE stage[e]]
    /\ UNCHANGED <<at, sent, told, missed, steady, wanted>>

\* It finds on disk what it had.
Start(n) ==
    /\ n \notin alive
    /\ alive' = alive \cup {n}
    /\ UNCHANGED <<cached, peers, eviction, wanted, troubles>>

-----------------------------------------------------------------------------

Next ==
    \/ \E e \in Admins, n \in Nodes : Evict(e, n)
    \/ \E e \in Admins : Broadcast(e)
    \/ \E m \in sent : ServeForwarded(m) \/ LoseForwarded(m)
    \/ \E c \in Callers, n \in Nodes : Warmup(c, n)
    \/ \E c \in Callers : Return(c)
    \/ \E n \in Nodes : CacheStep(n) \/ Crash(n) \/ Start(n)
    \/ \E n \in Nodes, S \in Lists : Update(n, S)

Spec == Init /\ [][Next]_vars

\* Fairness: a handler goes on, and a call under way is served or fails in the end.
FairSpec ==
    /\ Spec
    /\ \A e \in Admins : WF_vars(Broadcast(e))
    /\ \A e \in Admins, n \in Nodes :
         LET m == [ev |-> e, to |-> n] IN WF_vars(ServeForwarded(m) \/ LoseForwarded(m))

-----------------------------------------------------------------------------
(* Properties                                                               *)

\* The types, and that an eviction is forwarded only by a node that has answered it
\* and never to that node itself.
TypeOK ==
    /\ present \subseteq Nodes /\ refreshing \subseteq Nodes /\ wanted \subseteq Nodes
    /\ shared \in [Nodes -> {"none", "looking", "found", "failed"}]
    /\ call \in [Callers -> {"idle", "waiting", "ok", "err"}]
    /\ subject \in [Callers -> Nodes \cup {None}]
    /\ alive \subseteq Nodes
    /\ peers \in [Nodes -> SUBSET Nodes]
    /\ stage \in [Admins -> {"new", "send", "answered", "failed", "dead"}]
    /\ at \in [Admins -> Nodes \cup {None}]
    /\ sent \subseteq [ev : Admins, to : Nodes]
    /\ \A m \in sent : stage[m.ev] = "answered" /\ m.to # at[m.ev]
    /\ {told, missed, steady} \subseteq [Admins -> SUBSET Nodes]

\* A node that has carried out an eviction does not have the adapter, unless a call
\* or a refresh was under way at that moment or a call has come since.
EvictedUnlessWanted == present \subseteq wanted

\* When an eviction has been answered, every peer that was in the node's ring all the
\* while has carried it out, is about to, or is one whose call was lost: a change of
\* the ring under the handler's feet makes it forget nobody.
EvictionReachesPeers ==
    \A e \in Admins :
        stage[e] = "answered" =>
          \A p \in steady[e] : p \in told[e] \cup missed[e] \/ [ev |-> e, to |-> p] \in sent

\* Evictions do not go round in the cluster: those under way end, and whoever was
\* told in vain or not at all stays as it is.
EvictionsSettle == <>[](sent = {})

=============================================================================
