------------------------------- MODULE Routing -------------------------------
(***************************************************************************)
(* How a cluster of loraplex nodes routes requests: Proxy.ServeHTTP        *)
(* (internal/proxy), Forwarder (internal/routing), each node's own ring    *)
(* (module Ring) as discovery rebuilds it, and the health checker that     *)
(* polls the peers' load (internal/health).                                *)
(*                                                                         *)
(* A handler is the goroutine that serves one HTTP request on one node.    *)
(* Clients' handlers serve requests from outside; servants serve the       *)
(* requests that Forward sends.  Nodes share nothing: their rings differ   *)
(* while discovery is catching up, and a ring may be rebuilt between any   *)
(* two steps of a handler.                                                 *)
(*                                                                         *)
(* Simplifications:                                                        *)
(*  - A forwarded call may fail at any time: it is refused, reset, times   *)
(*    out (http.Client.Timeout) or its client has gone away.               *)
(*  - EnsureAdapter is a step that may fail (module CacheManager).  vLLM   *)
(*    begins its answer, or the call fails, at the latest when the         *)
(*    ResponseHeaderTimeout (300s) runs out; no timeout covers the body,   *)
(*    so that one may never end.  Status codes are left out, and so is the *)
(*    server's WriteTimeout: it ends no handler, it loses what is written  *)
(*    too late.                                                            *)
(*  - Load is the number of pending requests rather than its quotient by   *)
(*    200, and the threshold is scaled with it.                            *)
(*  - A node does not start the next poll of a peer before the last one    *)
(*    has ended: the interval (10s) is longer than the timeout (3s).       *)
(***************************************************************************)
EXTENDS Ring

CONSTANTS
    Nodes,          \* loraplex processes
    NodeOf,         \* NodeOf[a]: the node that listens at address a, or None
    Self,           \* Self[n]: Ring.self, the address node n takes for its own
    Clients,        \* handlers of requests from outside
    Servants,       \* handlers of forwarded requests
    Kinds,          \* requests: [model, header], each a value or None
    BaseModel,      \* vllm.model_name
    HashOn,         \* routing.hash_on: "model", "header" or "header/model"
    HashKey,        \* hashKey of every address and vnode index
    HashString,     \* hashString of every hash key
    Views,          \* the lists of peers that discovery may report
    Threshold,      \* routing.overflow_threshold, as a number of requests
    MaxConcurrent,  \* the number of requests that makes a load of 1.0
    FallbackToBase, \* routing.fallback_to_base_model
    Hung,           \* nodes whose vLLM may stop in the middle of an answer
    Pollers,        \* nodes whose health checks are explored
    None,
    MaxUpdates,     \* bound: reports of discovery
    MaxCrashes,     \* bound: crashes of nodes
    MaxLost         \* bound: health checks that fail, or are garbled, although the peer is up

Handlers == Clients \cup Servants

ASSUME RoutingAssumption ==
    /\ Clients \cap Servants = {} /\ IsFiniteSet(Handlers)
    /\ None \notin Handlers \cup Nodes \cup Kinds
    /\ None \notin 0..MaxConcurrent
    /\ NodeOf \in [Addrs -> Nodes \cup {None}]
    /\ DOMAIN Self = Nodes
    /\ HashOn \in {"model", "header", "header/model"}
    /\ HashKey \in [Addrs -> [1..VnodesPerPeer -> Nat]]
    /\ Views \subseteq SUBSET Addrs
    /\ Threshold \in 0..MaxConcurrent
    /\ FallbackToBase \in BOOLEAN
    /\ Hung \subseteq Nodes
    /\ Pollers \subseteq Nodes
    /\ {MaxConcurrent, MaxUpdates, MaxCrashes, MaxLost} \subseteq Nat

VARIABLES
    vnodes,         \* vnodes[n]: Ring.vnodes of node n
    load,           \* load[n]: Ring.peers of node n, address to Peer.Load
    alive,          \* nodes that run
    check,          \* check[n][a]: what a health check of a found and has not stored
    pc, at, kind,   \* where each handler is, on which node, with which request
    forwarded,      \* its request has the X-Loraplex-Forwarded header
    caller,         \* the handler that waits for it
    peer,           \* the peer it has looked up or called last
    tried,          \* the peers it has called
    stale,          \* the load of a *Peer that Update has replaced meanwhile
    updates, crashes, lost

rings    == <<vnodes, load>>
handling == <<pc, at, kind, forwarded, caller, peer, tried, stale>>
counters == <<updates, crashes, lost>>
vars     == <<vnodes, load, alive, check, pc, at, kind, forwarded, caller, peer,
              tried, stale, updates, crashes, lost>>

Labels == {"idle", "decide", "load", "send", "await", "retry", "reawait", "copy",
           "ensure", "vllm", "stream"}

-----------------------------------------------------------------------------
(* Requests                                                                 *)

\* buildHashKey; hash_on "tenant" is "header" with X-Tenant-ID.
HashKeyOf(k) ==
    CASE HashOn = "model"  -> <<k.model>>
      [] HashOn = "header" -> <<k.header>>
      [] OTHER -> IF k.header = None THEN <<k.model>> ELSE <<k.header, k.model>>

ASSUME KeysAssumption ==
    \A k \in Kinds : HashString[HashKeyOf(k)] \in Nat

HashOf(h) == HashString[HashKeyOf(kind[h])]

IsBase(k) == k.model \in {None, BaseModel}

\* Base model requests without a hash key go to vLLM without routing.
Passthrough(k) == IsBase(k) /\ (HashOn = "model" \/ HashKeyOf(k) = <<None>>)

FirstLabel(k) == IF Passthrough(k) THEN "vllm" ELSE "decide"

\* Ring.IsSelf
IsSelf(n, a) == a = NoPeer \/ a = Self[n]

-----------------------------------------------------------------------------

Goto(h, label) == pc' = [pc EXCEPT ![h] = label]

\* The handler that serves the call h waits for.
Callees(h) == {g \in Servants : caller[g] = h}

Pending(n) == {h \in Handlers : pc[h] # "idle" /\ at[h] = n}

\* Mutant of Load: the cap at 1.0 is missing.
LoadUncapped(n) == Cardinality(Pending(n))

\* Checker.Load
Load(n) == IF Cardinality(Pending(n)) > MaxConcurrent THEN MaxConcurrent
           ELSE Cardinality(Pending(n))

Init ==
    /\ vnodes = [n \in Nodes |-> <<>>]
    /\ load = [n \in Nodes |-> [a \in {} |-> 0]]
    /\ alive = Nodes
    /\ check = [n \in Nodes |-> [a \in Addrs |-> None]]
    /\ pc = [h \in Handlers |-> "idle"]
    /\ at = [h \in Handlers |-> None]
    /\ kind = [h \in Handlers |-> None]
    /\ forwarded = [h \in Handlers |-> FALSE]
    /\ caller = [h \in Handlers |-> None]
    /\ peer = [h \in Handlers |-> NoPeer]
    /\ tried = [h \in Handlers |-> {}]
    /\ stale = [h \in Handlers |-> None]
    /\ updates = 0
    /\ crashes = 0
    /\ lost = 0

-----------------------------------------------------------------------------
(* Proxy.ServeHTTP and Forwarder                                            *)

\* The locals of the handlers H are gone, and nobody waits any more for the answer
\* to a call that one of them made.
Forget(H) ==
    /\ at'        = [h \in Handlers |-> IF h \in H THEN None ELSE at[h]]
    /\ kind'      = [h \in Handlers |-> IF h \in H THEN None ELSE kind[h]]
    /\ forwarded' = [h \in Handlers |-> forwarded[h] /\ h \notin H]
    /\ caller'    = [h \in Handlers |-> IF h \in H \/ caller[h] \in H THEN None ELSE caller[h]]
    /\ peer'      = [h \in Handlers |-> IF h \in H THEN NoPeer ELSE peer[h]]
    /\ tried'     = [h \in Handlers |-> IF h \in H THEN {} ELSE tried[h]]
    /\ stale'     = [h \in Handlers |-> IF h \in H THEN None ELSE stale[h]]

\* A handler answers: from then on its caller copies the response.
Answer(h, label) ==
    pc' = [g \in Handlers |-> IF g = h THEN label
                              ELSE IF g = caller[h] THEN "copy" ELSE pc[g]]

\* A client's request arrives at node n.
Arrive(c, n, k) ==
    /\ c \in Clients /\ pc[c] = "idle" /\ n \in alive
    /\ Goto(c, FirstLabel(k))
    /\ at' = [at EXCEPT ![c] = n]
    /\ kind' = [kind EXCEPT ![c] = k]
    /\ UNCHANGED <<rings, alive, check, forwarded, caller, peer, tried, stale, counters>>

\* Mutant of Serve: Forward does not set the header.
ServeNoHeader(h, g) ==
    /\ pc[h] \in {"await", "reawait"} /\ Callees(h) = {}
    /\ NodeOf[peer[h]] \in alive
    /\ pc[g] = "idle"
    /\ Goto(g, FirstLabel(kind[h]))
    /\ at' = [at EXCEPT ![g] = NodeOf[peer[h]]]
    /\ kind' = [kind EXCEPT ![g] = kind[h]]
    /\ caller' = [caller EXCEPT ![g] = h]
    /\ UNCHANGED <<rings, alive, check, forwarded, peer, tried, stale, counters>>

\* The request that h forwarded reaches the peer, with the header that Forward sets.
Serve(h, g) ==
    /\ pc[h] \in {"await", "reawait"} /\ Callees(h) = {}
    /\ NodeOf[peer[h]] \in alive
    /\ pc[g] = "idle"
    /\ Goto(g, FirstLabel(kind[h]))
    /\ at' = [at EXCEPT ![g] = NodeOf[peer[h]]]
    /\ kind' = [kind EXCEPT ![g] = kind[h]]
    /\ forwarded' = [forwarded EXCEPT ![g] = TRUE]
    /\ caller' = [caller EXCEPT ![g] = h]
    /\ UNCHANGED <<rings, alive, check, peer, tried, stale, counters>>

\* Decide, up to Ring.Owner.
Decide(h) ==
    /\ pc[h] = "decide"
    /\ LET owner == Owner(vnodes[at[h]], HashOf(h))
           here  == forwarded[h] \/ IsSelf(at[h], owner)
       IN  \/ /\ here
              /\ Goto(h, "ensure")
              /\ UNCHANGED peer
           \/ /\ ~here
              /\ Goto(h, "load")
              /\ peer' = [peer EXCEPT ![h] = owner]
    /\ UNCHANGED <<rings, alive, check, at, kind, forwarded, caller, tried, stale, counters>>

\* Decide reads the owner's Load, without the ring's mutex and from a Peer that
\* may no longer be in the ring.
ReadLoad(h) ==
    /\ pc[h] = "load"
    /\ LET l == IF stale[h] = None THEN load[at[h]][peer[h]] ELSE stale[h]
       IN  Goto(h, IF l >= Threshold THEN "ensure" ELSE "send")
    /\ stale' = [stale EXCEPT ![h] = None]
    /\ UNCHANGED <<rings, alive, check, at, kind, forwarded, caller, peer, tried, counters>>

\* Forward
Call(h, a, label) ==
    /\ peer' = [peer EXCEPT ![h] = a]
    /\ tried' = [tried EXCEPT ![h] = @ \cup {a}]
    /\ Goto(h, label)

\* ForwardWithFallback asks the ring for the owner again, and forwards.
Send(h) ==
    /\ pc[h] = "send"
    /\ LET owner == Owner(vnodes[at[h]], HashOf(h))
       IN  \/ owner # NoPeer /\ Call(h, owner, "await")
           \/ owner = NoPeer /\ Goto(h, "ensure") /\ UNCHANGED <<peer, tried>>
    /\ UNCHANGED <<rings, alive, check, at, kind, forwarded, caller, stale, counters>>

\* Mutant of GiveUp: the ring is walked on instead of handling the request here.
GiveUpNever(h) ==
    /\ pc[h] \in {"await", "reawait"}
    /\ Goto(h, "retry")
    /\ caller' = [g \in Handlers |-> IF caller[g] = h THEN None ELSE caller[g]]
    /\ UNCHANGED <<rings, alive, check, at, kind, forwarded, peer, tried, stale, counters>>

\* The call fails or times out; whoever serves it works on for nobody.
GiveUp(h) ==
    /\ pc[h] \in {"await", "reawait"}
    /\ Goto(h, IF pc[h] = "await" THEN "retry" ELSE "ensure")
    /\ caller' = [g \in Handlers |-> IF caller[g] = h THEN None ELSE caller[g]]
    /\ UNCHANGED <<rings, alive, check, at, kind, forwarded, peer, tried, stale, counters>>

\* ForwardWithFallback walks the ring, as it is by now, past the owner that failed.
Retry(h) ==
    /\ pc[h] = "retry"
    /\ LET next == Fallback(vnodes[at[h]], HashOf(h), peer[h])
       IN  \/ ~IsSelf(at[h], next) /\ Call(h, next, "reawait")
           \/ IsSelf(at[h], next) /\ Goto(h, "ensure") /\ UNCHANGED <<peer, tried>>
    /\ UNCHANGED <<rings, alive, check, at, kind, forwarded, caller, stale, counters>>

\* CopyResponse ends, also when the timeout of the call cuts the body short.
CopyEnds(h) ==
    /\ pc[h] = "copy"
    /\ Answer(h, "idle")
    /\ Forget({h})
    /\ UNCHANGED <<rings, alive, check, counters>>

\* EnsureAdapter, not for a base model: its error is the answer, unless
\* fallback_to_base_model sends the request to vLLM nevertheless.
Ensure(h) ==
    /\ pc[h] = "ensure"
    /\ \/ /\ Goto(h, "vllm")
          /\ UNCHANGED <<at, kind, forwarded, caller, peer, tried, stale>>
       \/ /\ ~IsBase(kind[h]) /\ ~FallbackToBase
          /\ Answer(h, "idle")
          /\ Forget({h})
    /\ UNCHANGED <<rings, alive, check, counters>>

\* proxyToVLLM: vLLM begins its answer, or the call to it fails or times out.
ProxyToVLLM(h) ==
    /\ pc[h] = "vllm"
    /\ \/ /\ Answer(h, "stream")
          /\ UNCHANGED <<at, kind, forwarded, caller, peer, tried, stale>>
       \/ /\ Answer(h, "idle")
          /\ Forget({h})
    /\ UNCHANGED <<rings, alive, check, counters>>

\* The handler that called h has given up, and closed the connection.
Abandoned(h) == h \in Servants /\ caller[h] = None

\* The body has been copied.  Where vLLM may stop in the middle of it, that is certain
\* only for a request that was abandoned, whose context is canceled.
StreamEnds(h) ==
    /\ pc[h] = "stream"
    /\ at[h] \notin Hung \/ Abandoned(h)
    /\ Answer(h, "idle")
    /\ Forget({h})
    /\ UNCHANGED <<rings, alive, check, counters>>

\* A body from a vLLM that may stop comes to its end all the same, or the client
\* closes the connection.
HangUp(h) ==
    /\ pc[h] = "stream"
    /\ at[h] \in Hung
    /\ Answer(h, "idle")
    /\ Forget({h})
    /\ UNCHANGED <<rings, alive, check, counters>>

-----------------------------------------------------------------------------
(* Health checks                                                            *)

\* checkPeers starts a check of every peer but the node itself; it finds the
\* peer's load, or 1.0 if the peer does not answer in time, or nothing if its answer
\* cannot be decoded.
Poll(n, a) ==
    /\ n \in Pollers \cap alive
    /\ a \in DOMAIN load[n] \ {Self[n]} /\ check[n][a] = None
    /\ \/ /\ NodeOf[a] \in alive
          /\ check' = [check EXCEPT ![n][a] = Load(NodeOf[a])]
          /\ UNCHANGED lost
       \/ /\ NodeOf[a] \notin alive
          /\ check' = [check EXCEPT ![n][a] = MaxConcurrent]
          /\ UNCHANGED lost
       \/ /\ NodeOf[a] \in alive
          /\ lost < MaxLost /\ lost' = lost + 1
          /\ \/ check' = [check EXCEPT ![n][a] = MaxConcurrent]
             \/ UNCHANGED check
    /\ UNCHANGED <<rings, alive, handling, updates, crashes>>

\* Mutant of StoreLoad: what a failed check found is dropped.
StoreLoadAnswered(n, a) ==
    /\ check[n][a] # None
    /\ check' = [check EXCEPT ![n][a] = None]
    /\ load' = IF a \in DOMAIN load[n] /\ check[n][a] < MaxConcurrent
               THEN [load EXCEPT ![n][a] = check[n][a]] ELSE load
    /\ UNCHANGED <<vnodes, alive, handling, counters>>

\* Mutant of StoreLoad: a peer's load is only ever raised.
StoreLoadHigher(n, a) ==
    /\ check[n][a] # None
    /\ check' = [check EXCEPT ![n][a] = None]
    /\ load' = IF a \in DOMAIN load[n] /\ check[n][a] > load[n][a]
               THEN [load EXCEPT ![n][a] = check[n][a]] ELSE load
    /\ UNCHANGED <<vnodes, alive, handling, counters>>

\* Ring.UpdatePeerLoad
StoreLoad(n, a) ==
    /\ check[n][a] # None
    /\ check' = [check EXCEPT ![n][a] = None]
    /\ load' = IF a \in DOMAIN load[n] THEN [load EXCEPT ![n][a] = check[n][a]] ELSE load
    /\ UNCHANGED <<vnodes, alive, handling, counters>>

-----------------------------------------------------------------------------
(* Discovery, crashes and restarts                                          *)

\* Discovery reports the peers S: Ring.Update makes new Peers, whose Load is 0, and
\* leaves the old ones to whoever has looked them up.
Update(n, S) ==
    /\ n \in alive /\ updates < MaxUpdates
    /\ updates' = updates + 1
    /\ \E vs \in Arrangements(VnodesOf(S, HashKey)) : vnodes' = [vnodes EXCEPT ![n] = vs]
    /\ load' = [load EXCEPT ![n] = [a \in S |-> 0]]
    /\ stale' = [h \in Handlers |->
                   IF pc[h] = "load" /\ at[h] = n /\ stale[h] = None
                   THEN load[n][peer[h]] ELSE stale[h]]
    /\ UNCHANGED <<alive, check, pc, at, kind, forwarded, caller, peer, tried, crashes, lost>>

Crash(n) ==
    /\ n \in alive /\ crashes < MaxCrashes
    /\ crashes' = crashes + 1
    /\ alive' = alive \ {n}
    /\ pc' = [h \in Handlers |-> IF h \in Pending(n) THEN "idle" ELSE pc[h]]
    /\ Forget(Pending(n))
    /\ vnodes' = [vnodes EXCEPT ![n] = <<>>]
    /\ load' = [load EXCEPT ![n] = [a \in {} |-> 0]]
    /\ check' = [check EXCEPT ![n] = [a \in Addrs |-> None]]
    /\ UNCHANGED <<updates, lost>>

\* A restarted node begins with an empty ring.
Restart(n) ==
    /\ n \notin alive
    /\ alive' = alive \cup {n}
    /\ UNCHANGED <<rings, check, handling, counters>>

-----------------------------------------------------------------------------

Step(h) ==
    \/ Decide(h) \/ ReadLoad(h) \/ Send(h) \/ GiveUp(h) \/ Retry(h) \/ CopyEnds(h)
    \/ Ensure(h) \/ ProxyToVLLM(h) \/ StreamEnds(h)

Next ==
    \/ \E h \in Handlers : Step(h) \/ HangUp(h)
    \/ \E h \in Handlers, g \in Servants : Serve(h, g)
    \/ \E c \in Clients, n \in Nodes, k \in Kinds : Arrive(c, n, k)
    \/ \E n \in Nodes, a \in Addrs : Poll(n, a) \/ StoreLoad(n, a)
    \/ \E n \in Nodes, S \in Views : Update(n, S)
    \/ \E n \in Nodes : Crash(n) \/ Restart(n)

Spec == Init /\ [][Next]_vars

(***************************************************************************)
(* Fairness: a handler's next step happens, since a forwarded call has a   *)
(* timeout, from its start to the end of the body, and so has the wait for *)
(* the header of vLLM's answer; a body ends unless vLLM hangs, and nobody  *)
(* has to hang up.  The checker's ticker fires and its checks end.         *)
(***************************************************************************)
FairSpec ==
    /\ Spec
    /\ \A h \in Handlers : WF_vars(Step(h))
    /\ \A n \in Nodes, a \in Addrs : WF_vars(Poll(n, a)) /\ WF_vars(StoreLoad(n, a))

-----------------------------------------------------------------------------
(* Properties                                                               *)

\* The types, and that a handler about to read a Peer's load has one to read.
TypeOK ==
    /\ vnodes \in [Nodes -> Seq([hash : Nat, peer : Addrs])]
    /\ DOMAIN load = Nodes
    /\ \A n \in Nodes : load[n] \in [{v.peer : v \in ToSet(vnodes[n])} -> 0..MaxConcurrent]
    /\ alive \subseteq Nodes
    /\ check \in [Nodes -> [Addrs -> (0..MaxConcurrent) \cup {None}]]
    /\ pc \in [Handlers -> Labels]
    /\ at \in [Handlers -> Nodes \cup {None}]
    /\ kind \in [Handlers -> Kinds \cup {None}]
    /\ forwarded \in [Handlers -> BOOLEAN]
    /\ caller \in [Handlers -> Handlers \cup {None}]
    /\ peer \in [Handlers -> Addrs \cup {NoPeer}]
    /\ tried \in [Handlers -> SUBSET Addrs]
    /\ stale \in [Handlers -> (0..MaxConcurrent) \cup {None}]
    /\ \A h \in Handlers : pc[h] = "load" /\ stale[h] = None => peer[h] \in DOMAIN load[at[h]]

\* However the nodes' rings differ, a request is forwarded at most once: a handler
\* whose answer another one awaits does not itself wait for a peer, so requests do
\* not travel in circles.
OneHop ==
    \A g \in Handlers :
        caller[g] # None => /\ pc[g] \in {"decide", "ensure", "vllm", "stream"}
                            /\ caller[caller[g]] = None

\* The second peer that is tried is neither the first nor the node itself, although
\* the ring may change between the two look-ups.
RetryElsewhere ==
    \A h \in Handlers :
        pc[h] = "reawait" => Cardinality(tried[h]) = 2 /\ peer[h] # Self[at[h]]

(***************************************************************************)
(* A client's request gets its answer, whichever peers it is forwarded to  *)
(* hang, crash or are overloaded.  Wherever it enters, it comes to a       *)
(* status, by an answer that begins or an error, and only the body of the  *)
(* answer that the node's own vLLM has begun may fail to end.              *)
(***************************************************************************)
Answered ==
    \A c \in Clients :
        pc[c] # "idle" ~> pc[c] = "idle" \/ (pc[c] = "stream" /\ at[c] \in Hung)

\* A peer that is down does not go on being forwarded to: the load recorded for it
\* comes to be above the threshold.
DownPeerAvoided ==
    \A n \in Pollers, a \in Addrs :
        []<>(\/ NodeOf[a] \in alive \/ n \notin alive \/ a = Self[n]
             \/ a \notin DOMAIN load[n] \/ load[n][a] >= Threshold)

\* A peer that is up and not overloaded comes to be forwarded to again.
UpPeerUsed ==
    \A n \in Pollers, a \in Addrs :
        []<>(\/ NodeOf[a] \notin alive \/ n \notin alive \/ a = Self[n]
             \/ Load(NodeOf[a]) >= Threshold
             \/ a \notin DOMAIN load[n] \/ load[n][a] < Threshold)

\* A load of 1.0, recorded because a peer did not answer, stays until a health
\* check of that peer ends.
UnreachableStaysAvoided ==
    [][\A n \in Nodes, a \in Addrs :
         a \in DOMAIN load[n] /\ a \in DOMAIN load'[n] /\ load[n][a] = MaxConcurrent
           => load'[n][a] = MaxConcurrent \/ check'[n][a] # check[n][a]]_vars

=============================================================================
