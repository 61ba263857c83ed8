---------------------------- MODULE RoutingProofs ----------------------------
(***************************************************************************)
(* Routing: however the nodes' rings differ and change, a request is       *)
(* forwarded at most once, and its retry goes elsewhere.                   *)
(***************************************************************************)
EXTENDS Routing, RingProofs

\* The labels of a handler that has taken its request for one to forward, and of
\* one that waits for a peer or copies its answer.
Calling == {"load", "send", "await", "retry", "reawait", "copy"}
Waiting == {"await", "reawait", "copy"}

HopType ==
    /\ pc \in [Handlers -> Labels]
    /\ forwarded \in [Handlers -> BOOLEAN]
    /\ caller \in [Handlers -> Handlers \cup {None}]

\* Only a request without the header is forwarded.
CallsHaveNoHeader == \A h \in Handlers : pc[h] \in Calling => ~forwarded[h]

\* A handler whose answer is awaited serves a request with the header, and the one
\* that awaits it is waiting.
CallersWait ==
    \A g \in Handlers : caller[g] # None => /\ pc[g] # "idle"
                                            /\ forwarded[g]
                                            /\ pc[caller[g]] \in Waiting

HopInv == HopType /\ CallsHaveNoHeader /\ CallersWait

-----------------------------------------------------------------------------

\* Nobody is the caller of a handler that forwards, and nobody's caller is a handler
\* that does not wait.
LEMMA Unlinked ==
    ASSUME HopInv, NEW h \in Handlers
    PROVE  /\ None \notin Handlers
           /\ pc[h] \in Calling => caller[h] = None
           /\ pc[h] \notin Waiting => \A g \in Handlers : caller[g] # h
BY RoutingAssumption DEF HopInv, HopType, CallsHaveNoHeader, CallersWait, Calling, Waiting, Handlers

\* OneHop follows from the invariant.
LEMMA HopImplied == HopInv => OneHop
<1> SUFFICES ASSUME HopInv, NEW g \in Handlers, caller[g] # None
             PROVE  /\ pc[g] \in {"decide", "ensure", "vllm", "stream"}
                    /\ caller[caller[g]] = None
  BY DEF OneHop
<1>1. caller[g] \in Handlers /\ pc[g] \in Labels
  BY DEF HopInv, HopType
<1>2. pc[g] # "idle" /\ forwarded[g] /\ pc[caller[g]] \in Waiting
  BY DEF HopInv, CallersWait
<1>3. pc[g] \notin Calling
  BY <1>2 DEF HopInv, CallsHaveNoHeader
<1>4. caller[caller[g]] = None
  BY <1>1, <1>2, Unlinked DEF Calling, Waiting
<1> QED BY <1>1, <1>2, <1>3, <1>4 DEF Labels, Calling

\* A handler moves from a label at which nobody awaits its calls to another, and
\* does not forward a request with the header.
LEMMA MoveHop ==
    ASSUME HopInv, NEW h \in Handlers, NEW l \in Labels,
           pc[h] \notin Waiting, l # "idle", l \in Calling => ~forwarded[h],
           Goto(h, l), UNCHANGED <<forwarded, caller>>
    PROVE  HopInv'
<1>1. pc' = [pc EXCEPT ![h] = l]
  BY DEF Goto
<1>2. HopType'
  BY <1>1 DEF HopInv, HopType
<1>3. CallsHaveNoHeader'
  BY <1>1 DEF HopInv, HopType, CallsHaveNoHeader
<1>4. CallersWait'
  BY <1>1, Unlinked DEF HopInv, HopType, CallersWait
<1> QED BY <1>2, <1>3, <1>4 DEF HopInv

\* A handler answers and ends, or goes on to stream: its caller, which waits, copies.
LEMMA AnswerHop ==
    ASSUME HopInv, NEW h \in Handlers, NEW l \in {"idle", "stream"},
           pc[h] \notin Waiting \/ (pc[h] = "copy" /\ l = "idle"), Answer(h, l),
           \/ l = "idle" /\ Forget({h})
           \/ l = "stream" /\ pc[h] # "idle" /\ UNCHANGED <<forwarded, caller>>
    PROVE  HopInv'
<1>1. \A g \in Handlers : pc'[g] = IF g = h THEN l ELSE IF g = caller[h] THEN "copy" ELSE pc[g]
  BY DEF Answer
<1>2. /\ l \in Labels \ Calling
      /\ "copy" \in Labels \cap Waiting
  BY DEF Labels, Calling, Waiting
<1>3. pc' \in [Handlers -> Labels]
  BY <1>2 DEF Answer, HopInv, HopType
<1>4. caller[h] # None => caller[h] \in Handlers /\ pc[caller[h]] \in Waiting /\ ~forwarded[caller[h]]
  BY DEF HopInv, HopType, CallersWait, CallsHaveNoHeader, Waiting, Calling
<1>5. CASE Forget({h}) /\ l = "idle"
  <2>1. /\ forwarded' = [g \in Handlers |-> forwarded[g] /\ g \notin {h}]
        /\ caller' = [g \in Handlers |-> IF g \in {h} \/ caller[g] \in {h} THEN None ELSE caller[g]]
    BY <1>5 DEF Forget
  <2>2. HopType'
    BY <1>3, <2>1 DEF HopInv, HopType
  <2>3. CallsHaveNoHeader'
    BY <1>1, <1>2, <1>4, <2>1, Unlinked DEF HopInv, HopType, CallsHaveNoHeader
  <2>4. CallersWait'
    BY <1>1, <1>2, <1>4, <2>1, Unlinked DEF HopInv, HopType, CallersWait
  <2> QED BY <2>2, <2>3, <2>4 DEF HopInv
<1>6. CASE UNCHANGED <<forwarded, caller>> /\ pc[h] # "idle" /\ l = "stream"
  <2>1. HopType'
    BY <1>3, <1>6 DEF HopInv, HopType
  <2>2. CallsHaveNoHeader'
    BY <1>1, <1>2, <1>4, <1>6, Unlinked DEF HopInv, HopType, CallsHaveNoHeader
  <2>3. CallersWait'
    BY <1>1, <1>2, <1>4, <1>6, Unlinked DEF HopInv, HopType, CallersWait
  <2> QED BY <2>1, <2>2, <2>3 DEF HopInv
<1> QED BY <1>5, <1>6

\* A call that fails is one that nobody's answer belongs to any more.
LEMMA GiveUpHop ==
    ASSUME HopInv, NEW h \in Handlers, GiveUp(h)
    PROVE  HopInv'
<1> DEFINE l == IF pc[h] = "await" THEN "retry" ELSE "ensure"
<1>1. /\ pc[h] \in {"await", "reawait"}
      /\ pc' = [pc EXCEPT ![h] = l]
      /\ caller' = [g \in Handlers |-> IF caller[g] = h THEN None ELSE caller[g]]
      /\ forwarded' = forwarded
  BY DEF GiveUp, Goto
<1>2. l \in Labels /\ l # "idle"
  BY DEF Labels
<1>3. ~forwarded[h]
  BY <1>1 DEF HopInv, CallsHaveNoHeader, Calling
<1> HIDE DEF l
<1>4. HopType'
  BY <1>1, <1>2 DEF HopInv, HopType
<1>5. CallsHaveNoHeader'
  BY <1>1, <1>3 DEF HopInv, HopType, CallsHaveNoHeader
<1>6. CallersWait'
  BY <1>1, <1>2, RoutingAssumption DEF HopInv, HopType, CallersWait
<1> QED BY <1>4, <1>5, <1>6 DEF HopInv

\* A forwarded request reaches a peer: its handler has the header.
LEMMA ServeHop ==
    ASSUME HopInv, NEW h \in Handlers, NEW g \in Servants, Serve(h, g)
    PROVE  HopInv'
<1> DEFINE l == FirstLabel(kind[h])
<1>1. /\ pc[h] \in {"await", "reawait"} /\ pc[g] = "idle"
      /\ pc' = [pc EXCEPT ![g] = l]
      /\ forwarded' = [forwarded EXCEPT ![g] = TRUE]
      /\ caller' = [caller EXCEPT ![g] = h]
      /\ g \in Handlers /\ g # h
  BY DEF Serve, Goto, Handlers
<1>2. l \in Labels /\ l # "idle" /\ l \notin Calling
  BY DEF FirstLabel, Labels, Calling
<1>3. \A f \in Handlers : caller[f] # g
  BY <1>1, Unlinked DEF Waiting
<1>4. pc[h] \in Waiting
  BY <1>1 DEF Waiting
<1> HIDE DEF l
<1>5. HopType'
  BY <1>1, <1>2 DEF HopInv, HopType
<1>6. CallsHaveNoHeader'
  BY <1>1, <1>2 DEF HopInv, HopType, CallsHaveNoHeader
<1>7. CallersWait'
  BY <1>1, <1>2, <1>3, <1>4 DEF HopInv, HopType, CallersWait
<1> QED BY <1>5, <1>6, <1>7 DEF HopInv

\* A node dies with its handlers; whoever served their calls serves nobody.
LEMMA CrashHop ==
    ASSUME HopInv, NEW n, Crash(n)
    PROVE  HopInv'
<1> DEFINE H == Pending(n)
<1>1. /\ pc' = [h \in Handlers |-> IF h \in H THEN "idle" ELSE pc[h]]
      /\ forwarded' = [h \in Handlers |-> forwarded[h] /\ h \notin H]
      /\ caller' = [h \in Handlers |-> IF h \in H \/ caller[h] \in H THEN None ELSE caller[h]]
  BY DEF Crash, Forget
<1>2. "idle" \in Labels \ Calling
  BY DEF Labels, Calling
<1> HIDE DEF H
<1>3. HopType'
  BY <1>1, <1>2 DEF HopInv, HopType
<1>4. CallsHaveNoHeader'
  BY <1>1, <1>2 DEF HopInv, HopType, CallsHaveNoHeader
<1>5. CallersWait'
  BY <1>1, RoutingAssumption DEF HopInv, HopType, CallersWait
<1> QED BY <1>3, <1>4, <1>5 DEF HopInv

\* A step that leaves the handlers' labels, headers and callers alone.
LEMMA QuietHop ==
    ASSUME HopInv, UNCHANGED <<pc, forwarded, caller>>
    PROVE  HopInv'
BY DEF HopInv, HopType, CallsHaveNoHeader, CallersWait

\* Every step of a handler preserves the invariant.
LEMMA StepHop ==
    ASSUME HopInv, NEW h \in Handlers, Step(h) \/ HangUp(h)
    PROVE  HopInv'
<1>1. CASE Decide(h)
  <2>1. pc[h] = "decide" /\ UNCHANGED <<forwarded, caller>>
    BY <1>1 DEF Decide
  <2>2. Goto(h, "ensure") \/ (~forwarded[h] /\ Goto(h, "load"))
    BY <1>1 DEF Decide
  <2> QED BY <2>1, <2>2, MoveHop DEF Labels, Waiting, Calling
<1>2. CASE ReadLoad(h)
  <2>1. pc[h] = "load" /\ UNCHANGED <<forwarded, caller>>
    BY <1>2 DEF ReadLoad
  <2>2. Goto(h, "ensure") \/ Goto(h, "send")
    BY <1>2 DEF ReadLoad
  <2>3. ~forwarded[h]
    BY <2>1 DEF HopInv, CallsHaveNoHeader, Calling
  <2> QED BY <2>1, <2>2, <2>3, MoveHop DEF Labels, Waiting
<1>3. CASE Send(h)
  <2>1. pc[h] = "send" /\ UNCHANGED <<forwarded, caller>>
    BY <1>3 DEF Send
  <2>2. Goto(h, "ensure") \/ Goto(h, "await")
    BY <1>3 DEF Send, Call
  <2>3. ~forwarded[h]
    BY <2>1 DEF HopInv, CallsHaveNoHeader, Calling
  <2> QED BY <2>1, <2>2, <2>3, MoveHop DEF Labels, Waiting
<1>4. CASE Retry(h)
  <2>1. pc[h] = "retry" /\ UNCHANGED <<forwarded, caller>>
    BY <1>4 DEF Retry
  <2>2. Goto(h, "ensure") \/ Goto(h, "reawait")
    BY <1>4 DEF Retry, Call
  <2>3. ~forwarded[h]
    BY <2>1 DEF HopInv, CallsHaveNoHeader, Calling
  <2> QED BY <2>1, <2>2, <2>3, MoveHop DEF Labels, Waiting
<1>5. CASE GiveUp(h)
  BY <1>5, GiveUpHop
<1>6. CASE CopyEnds(h)
  BY <1>6, AnswerHop DEF CopyEnds
<1>7. CASE Ensure(h)
  <2>1. CASE Answer(h, "idle") /\ Forget({h})
    BY <1>7, <2>1, AnswerHop DEF Ensure, Waiting
  <2>2. CASE Goto(h, "vllm") /\ UNCHANGED <<forwarded, caller>>
    BY <1>7, <2>2, MoveHop DEF Ensure, Labels, Waiting, Calling
  <2> QED BY <1>7, <2>1, <2>2 DEF Ensure
<1>8. CASE ProxyToVLLM(h)
  BY <1>8, AnswerHop DEF ProxyToVLLM, Waiting
<1>9. CASE StreamEnds(h)
  BY <1>9, AnswerHop DEF StreamEnds, Waiting
<1>10. CASE HangUp(h)
  BY <1>10, AnswerHop DEF HangUp, Waiting
<1> QED BY <1>1, <1>2, <1>3, <1>4, <1>5, <1>6, <1>7, <1>8, <1>9, <1>10 DEF Step

\* The next-state relation preserves the invariant.
LEMMA NextHop == HopInv /\ [Next]_vars => HopInv'
<1> SUFFICES ASSUME HopInv, [Next]_vars PROVE HopInv'
  OBVIOUS
<1>1. CASE \E h \in Handlers : Step(h) \/ HangUp(h)
  BY <1>1, StepHop
<1>2. CASE \E h \in Handlers, g \in Servants : Serve(h, g)
  BY <1>2, ServeHop
<1>3. CASE \E c \in Clients, n \in Nodes, k \in Kinds : Arrive(c, n, k)
  <2>1. PICK c \in Clients, n \in Nodes, k \in Kinds : Arrive(c, n, k)
    BY <1>3
  <2>2. /\ c \in Handlers /\ pc[c] = "idle" /\ Goto(c, FirstLabel(k))
        /\ UNCHANGED <<forwarded, caller>>
    BY <2>1 DEF Arrive, Handlers
  <2>3. FirstLabel(k) \in Labels /\ FirstLabel(k) # "idle" /\ FirstLabel(k) \notin Calling
    BY DEF FirstLabel, Labels, Calling
  <2>4. pc[c] \notin Waiting
    BY <2>2 DEF Waiting
  <2> QED BY <2>2, <2>3, <2>4, MoveHop
<1>4. CASE \E n \in Nodes, a \in Addrs : Poll(n, a) \/ StoreLoad(n, a)
  BY <1>4, QuietHop DEF Poll, StoreLoad, handling
<1>5. CASE \E n \in Nodes, S \in Views : Update(n, S)
  BY <1>5, QuietHop DEF Update
<1>6. CASE \E n \in Nodes : Crash(n) \/ Restart(n)
  BY <1>6, CrashHop, QuietHop DEF Restart, handling
<1>7. CASE UNCHANGED vars
  BY <1>7, QuietHop DEF vars
<1> QED BY <1>1, <1>2, <1>3, <1>4, <1>5, <1>6, <1>7 DEF Next

(***************************************************************************)
(* A request is forwarded at most once, for any nodes, rings, requests and *)
(* reports of discovery: the header that Forward sets keeps Decide from    *)
(* forwarding, so nobody waits for a handler that itself waits.            *)
(***************************************************************************)
THEOREM ForwardedOnce == Spec => []OneHop
<1>1. Init => HopInv
  BY DEF Init, HopInv, HopType, CallsHaveNoHeader, CallersWait, Labels, Calling
<1> QED BY <1>1, NextHop, HopImplied, PTL DEF Spec

-----------------------------------------------------------------------------
(* A retry goes elsewhere                                                   *)

\* Fallback's walk stops at the first vnode of another peer, which it does not skip.
LEMMA FallbackElsewhere ==
    ASSUME NEW vs, NEW h, NEW skip, Fallback(vs, h, skip) # NoPeer
    PROVE  Fallback(vs, h, skip) # skip
<1> DEFINE T == {seen \in 0..(Len(vs) - 1) : PeerAfter(vs, h, seen) # skip}
           IsFirst(seen) == /\ PeerAfter(vs, h, seen) # skip
                            /\ \A j \in 0..(seen - 1) : PeerAfter(vs, h, j) = skip
<1>1. T # {} /\ T \in SUBSET Nat
  BY DEF Fallback
<1> HIDE DEF T
<1>2. PICK x \in T : \A y \in T : x <= y
  BY <1>1, LeastElement
<1>3. x \in 0..(Len(vs) - 1) /\ IsFirst(x)
  BY <1>2 DEF T
<1>4. Fallback(vs, h, skip) = PeerAfter(vs, h, CHOOSE seen \in 0..(Len(vs) - 1) : IsFirst(seen))
  BY <1>1 DEF Fallback, T
<1>5. IsFirst(CHOOSE seen \in 0..(Len(vs) - 1) : IsFirst(seen))
  BY <1>3
<1> QED BY <1>4, <1>5

\* What a handler has tried, by its label: nobody before it forwards, the owner
\* until that has failed, then one more.
TriedOf(h) ==
    /\ pc[h] \in {"idle", "decide", "load", "send"} => tried[h] = {}
    /\ pc[h] \in {"await", "retry"} => tried[h] = {peer[h]} /\ peer[h] # NoPeer
    /\ pc[h] = "reawait" => Cardinality(tried[h]) = 2 /\ peer[h] # Self[at[h]]

TriedType ==
    /\ pc \in [Handlers -> Labels]
    /\ tried = [h \in Handlers |-> tried[h]]
    /\ peer = [h \in Handlers |-> peer[h]]
    /\ at = [h \in Handlers |-> at[h]]

TriedInv == TriedType /\ \A h \in Handlers : TriedOf(h)

\* A handler moves to a label that asks for nothing, or one that asks for what it has.
LEMMA MoveTried ==
    ASSUME TriedInv, NEW h \in Handlers, NEW l \in Labels, Goto(h, l),
           UNCHANGED <<tried, peer, at>>,
           \/ l \in {"ensure", "vllm"}
           \/ l = "send" /\ pc[h] = "load"
           \/ l = "retry" /\ pc[h] = "await"
    PROVE  TriedInv'
<1>1. pc' = [pc EXCEPT ![h] = l]
  BY DEF Goto
<1>2. TriedType'
  BY <1>1 DEF TriedInv, TriedType
<1>3. ASSUME NEW g \in Handlers PROVE TriedOf(g)'
  BY <1>1 DEF TriedInv, TriedType, TriedOf
<1> QED BY <1>2, <1>3 DEF TriedInv

\* A handler answers: what it has tried is forgotten, or no longer matters.
LEMMA AnswerTried ==
    ASSUME TriedInv, NEW h \in Handlers,
           \/ Answer(h, "idle") /\ Forget({h})
           \/ Answer(h, "stream") /\ UNCHANGED <<tried, peer, at>>
    PROVE  TriedInv'
<1>1. CASE Answer(h, "idle") /\ Forget({h})
  <2>1. TriedType'
    BY <1>1 DEF TriedInv, TriedType, Answer, Forget, Labels
  <2>2. ASSUME NEW g \in Handlers PROVE TriedOf(g)'
    BY <1>1 DEF TriedInv, TriedType, TriedOf, Answer, Forget
  <2> QED BY <2>1, <2>2 DEF TriedInv
<1>2. CASE Answer(h, "stream") /\ UNCHANGED <<tried, peer, at>>
  <2>1. TriedType'
    BY <1>2 DEF TriedInv, TriedType, Answer, Labels
  <2>2. ASSUME NEW g \in Handlers PROVE TriedOf(g)'
    BY <1>2 DEF TriedInv, TriedType, TriedOf, Answer
  <2> QED BY <2>1, <2>2 DEF TriedInv
<1> QED BY <1>1, <1>2

\* The owner is looked up, remembered and, if there is one, called.
LEMMA DecideTried ==
    ASSUME TriedInv, NEW h \in Handlers, Decide(h)
    PROVE  TriedInv'
<1>1. /\ pc[h] = "decide" /\ UNCHANGED <<tried, at>>
      /\ \/ Goto(h, "ensure") /\ UNCHANGED peer
         \/ \E a : Goto(h, "load") /\ peer' = [peer EXCEPT ![h] = a]
  BY DEF Decide
<1>2. CASE Goto(h, "ensure") /\ UNCHANGED peer
  BY <1>1, <1>2, MoveTried DEF Labels
<1>3. CASE \E a : Goto(h, "load") /\ peer' = [peer EXCEPT ![h] = a]
  <2>1. PICK a : pc' = [pc EXCEPT ![h] = "load"] /\ peer' = [peer EXCEPT ![h] = a]
    BY <1>3 DEF Goto
  <2>2. TriedType'
    BY <1>1, <2>1 DEF TriedInv, TriedType, Labels
  <2>3. ASSUME NEW g \in Handlers PROVE TriedOf(g)'
    BY <1>1, <2>1 DEF TriedInv, TriedType, TriedOf
  <2> QED BY <2>2, <2>3 DEF TriedInv
<1> QED BY <1>1, <1>2, <1>3

\* The first call: the owner is the only peer tried.
LEMMA SendTried ==
    ASSUME TriedInv, NEW h \in Handlers, Send(h)
    PROVE  TriedInv'
<1> DEFINE owner == Owner(vnodes[at[h]], HashOf(h))
<1>1. pc[h] = "send" /\ UNCHANGED at
  BY DEF Send
<1>2. CASE owner = NoPeer /\ Goto(h, "ensure") /\ UNCHANGED <<peer, tried>>
  BY <1>1, <1>2, MoveTried DEF Labels
<1>3. CASE owner # NoPeer /\ Call(h, owner, "await")
  <2>1. /\ pc' = [pc EXCEPT ![h] = "await"]
        /\ peer' = [peer EXCEPT ![h] = owner]
        /\ tried' = [tried EXCEPT ![h] = tried[h] \cup {owner}]
    BY <1>3 DEF Call, Goto
  <2>2. owner # NoPeer /\ tried[h] = {}
    BY <1>1, <1>3 DEF TriedInv, TriedOf
  <2> HIDE DEF owner
  <2>3. TriedType'
    BY <1>1, <2>1 DEF TriedInv, TriedType, Labels
  <2>4. ASSUME NEW g \in Handlers PROVE TriedOf(g)'
    BY <1>1, <2>1, <2>2 DEF TriedInv, TriedType, TriedOf
  <2> QED BY <2>3, <2>4 DEF TriedInv
<1> QED BY <1>2, <1>3 DEF Send

\* The second call: Fallback names neither the peer that failed nor the node itself.
LEMMA RetryTried ==
    ASSUME TriedInv, NEW h \in Handlers, Retry(h)
    PROVE  TriedInv'
<1> DEFINE next == Fallback(vnodes[at[h]], HashOf(h), peer[h])
<1>1. pc[h] = "retry" /\ UNCHANGED at
  BY DEF Retry
<1>2. CASE IsSelf(at[h], next) /\ Goto(h, "ensure") /\ UNCHANGED <<peer, tried>>
  BY <1>1, <1>2, MoveTried DEF Labels
<1>3. CASE ~IsSelf(at[h], next) /\ Call(h, next, "reawait")
  <2>1. /\ pc' = [pc EXCEPT ![h] = "reawait"]
        /\ peer' = [peer EXCEPT ![h] = next]
        /\ tried' = [tried EXCEPT ![h] = tried[h] \cup {next}]
    BY <1>3 DEF Call, Goto
  <2>2. next # NoPeer /\ next # Self[at[h]]
    BY <1>3 DEF IsSelf
  <2>3. next # peer[h]
    BY <2>2, FallbackElsewhere
  <2>4. tried[h] = {peer[h]}
    BY <1>1 DEF TriedInv, TriedOf
  <2> HIDE DEF next
  <2>5. Cardinality(tried[h] \cup {next}) = 2
    <3>1. IsFiniteSet(tried[h]) /\ Cardinality(tried[h]) = 1
      BY <2>4, FS_Singleton
    <3>2. next \notin tried[h]
      BY <2>3, <2>4
    <3>3. Cardinality(tried[h] \cup {next}) = Cardinality(tried[h]) + 1
      BY <3>1, <3>2, FS_AddElement
    <3> QED BY <3>1, <3>3
  <2>6. TriedType'
    BY <1>1, <2>1 DEF TriedInv, TriedType, Labels
  <2>7. ASSUME NEW g \in Handlers PROVE TriedOf(g)'
    <3>1. CASE g = h
      <4>1. pc'[g] = "reawait" /\ peer'[g] = next /\ tried'[g] = tried[h] \cup {next} /\ at'[g] = at[h]
        BY <1>1, <2>1, <3>1 DEF TriedInv, TriedType
      <4> QED BY <4>1, <2>2, <2>5 DEF TriedOf
    <3>2. CASE g # h
      BY <1>1, <2>1, <3>2 DEF TriedInv, TriedType, TriedOf
    <3> QED BY <3>1, <3>2
  <2> QED BY <2>6, <2>7 DEF TriedInv
<1> QED BY <1>2, <1>3 DEF Retry

\* A request arrives at an idle handler, which has tried nobody.
LEMMA ArriveTried ==
    ASSUME TriedInv, NEW g \in Handlers, pc[g] = "idle", NEW l \in {"vllm", "decide"}, NEW n,
           Goto(g, l), at' = [at EXCEPT ![g] = n], UNCHANGED <<tried, peer>>
    PROVE  TriedInv'
<1>1. pc' = [pc EXCEPT ![g] = l]
  BY DEF Goto
<1>2. TriedType'
  BY <1>1 DEF TriedInv, TriedType, Labels
<1>3. ASSUME NEW h \in Handlers PROVE TriedOf(h)'
  BY <1>1 DEF TriedInv, TriedType, TriedOf
<1> QED BY <1>2, <1>3 DEF TriedInv

\* A node's handlers die with it, and with them what they have tried.
LEMMA CrashTried ==
    ASSUME TriedInv, NEW n, Crash(n)
    PROVE  TriedInv'
<1>1. TriedType'
  BY DEF TriedInv, TriedType, Crash, Forget, Labels
<1>2. ASSUME NEW g \in Handlers PROVE TriedOf(g)'
  BY DEF TriedInv, TriedType, TriedOf, Crash, Forget
<1> QED BY <1>1, <1>2 DEF TriedInv

\* A step that leaves the handlers' labels, nodes and peers alone.
LEMMA QuietTried ==
    ASSUME TriedInv, UNCHANGED <<pc, at, peer, tried>>
    PROVE  TriedInv'
BY DEF TriedInv, TriedType, TriedOf

\* Every step of a handler preserves TriedInv.
LEMMA StepTried ==
    ASSUME TriedInv, NEW h \in Handlers, Step(h) \/ HangUp(h)
    PROVE  TriedInv'
<1>1. CASE Decide(h)
  BY <1>1, DecideTried
<1>2. CASE ReadLoad(h)
  <2>1. pc[h] = "load" /\ UNCHANGED <<tried, peer, at>>
    BY <1>2 DEF ReadLoad
  <2>2. Goto(h, "ensure") \/ Goto(h, "send")
    BY <1>2 DEF ReadLoad
  <2> QED BY <2>1, <2>2, MoveTried DEF Labels
<1>3. CASE Send(h)
  BY <1>3, SendTried
<1>4. CASE Retry(h)
  BY <1>4, RetryTried
<1>5. CASE GiveUp(h)
  <2>1. UNCHANGED <<tried, peer, at>>
    BY <1>5 DEF GiveUp
  <2>2. Goto(h, "ensure") \/ (pc[h] = "await" /\ Goto(h, "retry"))
    BY <1>5 DEF GiveUp
  <2> QED BY <2>1, <2>2, MoveTried DEF Labels
<1>6. CASE CopyEnds(h)
  BY <1>6, AnswerTried DEF CopyEnds
<1>7. CASE Ensure(h)
  <2>1. CASE Answer(h, "idle") /\ Forget({h})
    BY <2>1, AnswerTried
  <2>2. CASE Goto(h, "vllm") /\ UNCHANGED <<tried, peer, at>>
    BY <2>2, MoveTried DEF Labels
  <2> QED BY <1>7, <2>1, <2>2 DEF Ensure
<1>8. CASE ProxyToVLLM(h)
  BY <1>8, AnswerTried DEF ProxyToVLLM
<1>9. CASE StreamEnds(h)
  BY <1>9, AnswerTried DEF StreamEnds
<1>10. CASE HangUp(h)
  BY <1>10, AnswerTried DEF HangUp
<1> QED BY <1>1, <1>2, <1>3, <1>4, <1>5, <1>6, <1>7, <1>8, <1>9, <1>10 DEF Step

\* The next-state relation preserves TriedInv.
LEMMA NextTried == TriedInv /\ [Next]_vars => TriedInv'
<1> SUFFICES ASSUME TriedInv, [Next]_vars PROVE TriedInv'
  OBVIOUS
<1>1. CASE \E h \in Handlers : Step(h) \/ HangUp(h)
  BY <1>1, StepTried
<1>2. CASE \E h \in Handlers, g \in Servants : Serve(h, g)
  <2>1. PICK h \in Handlers, g \in Servants : Serve(h, g)
    BY <1>2
  <2>2. /\ g \in Handlers /\ pc[g] = "idle" /\ Goto(g, FirstLabel(kind[h]))
        /\ at' = [at EXCEPT ![g] = NodeOf[peer[h]]] /\ UNCHANGED <<tried, peer>>
    BY <2>1 DEF Serve, Handlers
  <2>3. FirstLabel(kind[h]) \in {"vllm", "decide"}
    BY DEF FirstLabel
  <2> QED BY <2>2, <2>3, ArriveTried
<1>3. CASE \E c \in Clients, n \in Nodes, k \in Kinds : Arrive(c, n, k)
  <2>1. PICK c \in Clients, n \in Nodes, k \in Kinds : Arrive(c, n, k)
    BY <1>3
  <2>2. /\ c \in Handlers /\ pc[c] = "idle" /\ Goto(c, FirstLabel(k))
        /\ at' = [at EXCEPT ![c] = n] /\ UNCHANGED <<tried, peer>>
    BY <2>1 DEF Arrive, Handlers
  <2>3. FirstLabel(k) \in {"vllm", "decide"}
    BY DEF FirstLabel
  <2> QED BY <2>2, <2>3, ArriveTried
<1>4. CASE \E n \in Nodes, a \in Addrs : Poll(n, a) \/ StoreLoad(n, a)
  BY <1>4, QuietTried DEF Poll, StoreLoad, handling
<1>5. CASE \E n \in Nodes, S \in Views : Update(n, S)
  BY <1>5, QuietTried DEF Update
<1>6. CASE \E n \in Nodes : Crash(n) \/ Restart(n)
  BY <1>6, CrashTried, QuietTried DEF Restart, handling
<1>7. CASE UNCHANGED vars
  BY <1>7, QuietTried DEF vars
<1> QED BY <1>1, <1>2, <1>3, <1>4, <1>5, <1>6, <1>7 DEF Next

(***************************************************************************)
(* A retry goes to a peer that is neither the one that failed nor the node *)
(* itself, although ForwardWithFallback reads the ring twice and discovery *)
(* may rebuild it in between.                                              *)
(***************************************************************************)
THEOREM RetriedElsewhere == Spec => []RetryElsewhere
<1>1. Init => TriedInv
  BY DEF Init, TriedInv, TriedType, TriedOf, Labels
<1>2. TriedInv => RetryElsewhere
  BY DEF TriedInv, TriedOf, RetryElsewhere
<1> QED BY <1>1, <1>2, NextTried, PTL DEF Spec

-----------------------------------------------------------------------------
(* Types                                                                    *)

PeersOf(vs) == {v.peer : v \in ToSet(vs)}

\* The parts of TypeOK: a node's ring, its health checks, a handler's locals, and the
\* Peer that Decide has looked up.
RingsType ==
    /\ vnodes \in [Nodes -> Seq(Vnode)]
    /\ DOMAIN load = Nodes
    /\ \A n \in Nodes : load[n] \in [PeersOf(vnodes[n]) -> 0..MaxConcurrent]

ChecksType ==
    /\ alive \subseteq Nodes
    /\ check \in [Nodes -> [Addrs -> (0..MaxConcurrent) \cup {None}]]

LocalsType ==
    /\ pc \in [Handlers -> Labels]
    /\ at \in [Handlers -> Nodes \cup {None}]
    /\ kind \in [Handlers -> Kinds \cup {None}]
    /\ forwarded \in [Handlers -> BOOLEAN]
    /\ caller \in [Handlers -> Handlers \cup {None}]
    /\ peer \in [Handlers -> Addrs \cup {NoPeer}]
    /\ tried \in [Handlers -> SUBSET Addrs]
    /\ stale \in [Handlers -> (0..MaxConcurrent) \cup {None}]

HasLoad ==
    \A h \in Handlers : pc[h] = "load" /\ stale[h] = None => peer[h] \in DOMAIN load[at[h]]

\* A handler at work has a request and is on a node.
AtWork == \A h \in Handlers : pc[h] # "idle" => at[h] \in Nodes /\ kind[h] \in Kinds

TypeInv == RingsType /\ ChecksType /\ LocalsType /\ HasLoad /\ AtWork

\* They are TypeOK.
LEMMA TypeImplied == TypeInv => TypeOK
BY DEF TypeInv, RingsType, ChecksType, LocalsType, HasLoad, TypeOK, PeersOf, Vnode

\* What a handler at work looks up in its node's ring is a peer that the ring lists.
LEMMA LookupTyped ==
    ASSUME TypeInv, NEW h \in Handlers, pc[h] # "idle"
    PROVE  /\ at[h] \in Nodes
           /\ LET owner == Owner(vnodes[at[h]], HashOf(h))
              IN  owner # NoPeer => owner \in Addrs /\ owner \in DOMAIN load[at[h]]
           /\ \A x : LET next == Fallback(vnodes[at[h]], HashOf(h), x)
                    IN  next # NoPeer => next \in Addrs
<1>1. at[h] \in Nodes /\ kind[h] \in Kinds
  BY DEF TypeInv, AtWork
<1>2. HashOf(h) \in Nat
  BY <1>1, KeysAssumption DEF HashOf
<1> DEFINE vs == vnodes[at[h]]
<1>3. vs \in Seq(Vnode)
  BY <1>1 DEF TypeInv, RingsType
<1>4. DOMAIN load[at[h]] = PeersOf(vs)
  BY <1>1 DEF TypeInv, RingsType
<1>5. PeersOf(vs) \subseteq Addrs
  <2>1. \A k \in DOMAIN vs : vs[k] \in Vnode
    BY <1>3, VnodeAt
  <2>2. ToSet(vs) \subseteq Vnode
    BY <2>1 DEF ToSet
  <2> QED BY <2>2 DEF PeersOf, Vnode
<1> HIDE DEF vs
<1>6. Owner(vs, HashOf(h)) # NoPeer => Owner(vs, HashOf(h)) \in PeersOf(vs)
  BY <1>2, <1>3, LookupListed DEF PeersOf
<1>7. \A x : Fallback(vs, HashOf(h), x) # NoPeer => Fallback(vs, HashOf(h), x) \in PeersOf(vs)
  BY <1>2, <1>3, LookupListed DEF PeersOf
<1> QED BY <1>1, <1>4, <1>5, <1>6, <1>7 DEF vs

\* A handler moves on with what it has; it does not come to read a load.
LEMMA MoveTyped ==
    ASSUME TypeInv, NEW h \in Handlers, NEW l \in Labels \ {"load"}, pc[h] # "idle", Goto(h, l),
           UNCHANGED <<vnodes, load, alive, check, at, kind, forwarded>>,
           caller' \in [Handlers -> Handlers \cup {None}],
           \/ UNCHANGED <<peer, tried>>
           \/ \E a \in Addrs : /\ peer' = [peer EXCEPT ![h] = a]
                             /\ tried' = [tried EXCEPT ![h] = tried[h] \cup {a}],
           UNCHANGED stale \/ stale' = [stale EXCEPT ![h] = None]
    PROVE  TypeInv'
<1>1. pc' = [pc EXCEPT ![h] = l]
  BY DEF Goto
<1>2. RingsType' /\ ChecksType'
  BY DEF TypeInv, RingsType, ChecksType
<1>3. peer' \in [Handlers -> Addrs \cup {NoPeer}] /\ tried' \in [Handlers -> SUBSET Addrs]
  BY DEF TypeInv, LocalsType
<1>4. stale' \in [Handlers -> (0..MaxConcurrent) \cup {None}]
  BY DEF TypeInv, LocalsType
<1>5. LocalsType'
  BY <1>1, <1>3, <1>4 DEF TypeInv, LocalsType
<1>6. ASSUME NEW g \in Handlers, g # h
      PROVE  pc'[g] = pc[g] /\ peer'[g] = peer[g] /\ stale'[g] = stale[g]
  BY <1>1, <1>6 DEF TypeInv, LocalsType
<1>7. pc'[h] = l
  BY <1>1 DEF TypeInv, LocalsType
<1>8. HasLoad'
  BY <1>6, <1>7 DEF TypeInv, HasLoad
<1>9. AtWork'
  BY <1>6, <1>7 DEF TypeInv, AtWork
<1> QED BY <1>2, <1>5, <1>8, <1>9 DEF TypeInv

\* An owner other than the node itself is looked up: it is in the ring.
LEMMA DecideTyped ==
    ASSUME TypeInv, NEW h \in Handlers, Decide(h)
    PROVE  TypeInv'
<1> DEFINE owner == Owner(vnodes[at[h]], HashOf(h))
<1>1. /\ pc[h] = "decide"
      /\ UNCHANGED <<vnodes, load, alive, check, at, kind, forwarded, caller, tried, stale>>
  BY DEF Decide, rings
<1>2. caller' \in [Handlers -> Handlers \cup {None}]
  BY <1>1 DEF TypeInv, LocalsType
<1>3. CASE Goto(h, "ensure") /\ UNCHANGED peer
  BY <1>1, <1>2, <1>3, MoveTyped DEF Labels
<1>4. CASE ~IsSelf(at[h], owner) /\ Goto(h, "load") /\ peer' = [peer EXCEPT ![h] = owner]
  <2>1. owner \in Addrs /\ owner \in DOMAIN load[at[h]]
    BY <1>1, <1>4, LookupTyped DEF IsSelf
  <2>2. pc' = [pc EXCEPT ![h] = "load"] /\ peer' = [peer EXCEPT ![h] = owner]
    BY <1>4 DEF Goto
  <2> HIDE DEF owner
  <2>3. RingsType' /\ ChecksType'
    BY <1>1 DEF TypeInv, RingsType, ChecksType
  <2>4. LocalsType'
    BY <1>1, <2>1, <2>2 DEF TypeInv, LocalsType, Labels
  <2>5. HasLoad'
    BY <1>1, <2>1, <2>2 DEF TypeInv, LocalsType, HasLoad
  <2>6. AtWork'
    BY <1>1, <2>2 DEF TypeInv, LocalsType, AtWork
  <2> QED BY <2>3, <2>4, <2>5, <2>6 DEF TypeInv
<1> QED BY <1>3, <1>4 DEF Decide

\* Handlers end, on an answer or with their node: nothing is left of them.
LEMMA EndTyped ==
    ASSUME TypeInv, NEW H \in SUBSET Handlers, pc' \in [Handlers -> Labels], Forget(H),
           \A g \in H : pc'[g] = "idle",
           \A g \in Handlers \ H : pc'[g] = pc[g] \/ (pc[g] # "idle" /\ pc'[g] = "copy")
    PROVE  LocalsType' /\ AtWork'
<1>1. /\ at' = [h \in Handlers |-> IF h \in H THEN None ELSE at[h]]
      /\ kind' = [h \in Handlers |-> IF h \in H THEN None ELSE kind[h]]
      /\ forwarded' = [h \in Handlers |-> forwarded[h] /\ h \notin H]
      /\ caller' = [h \in Handlers |-> IF h \in H \/ caller[h] \in H THEN None ELSE caller[h]]
      /\ peer' = [h \in Handlers |-> IF h \in H THEN NoPeer ELSE peer[h]]
      /\ tried' = [h \in Handlers |-> IF h \in H THEN {} ELSE tried[h]]
      /\ stale' = [h \in Handlers |-> IF h \in H THEN None ELSE stale[h]]
  BY DEF Forget
<1>2. at' \in [Handlers -> Nodes \cup {None}] /\ kind' \in [Handlers -> Kinds \cup {None}]
  BY <1>1 DEF TypeInv, LocalsType
<1>3. /\ forwarded' \in [Handlers -> BOOLEAN]
      /\ caller' \in [Handlers -> Handlers \cup {None}]
  BY <1>1 DEF TypeInv, LocalsType
<1>4. peer' \in [Handlers -> Addrs \cup {NoPeer}] /\ tried' \in [Handlers -> SUBSET Addrs]
  BY <1>1 DEF TypeInv, LocalsType
<1>5. stale' \in [Handlers -> (0..MaxConcurrent) \cup {None}]
  BY <1>1 DEF TypeInv, LocalsType
<1>6. LocalsType'
  BY <1>2, <1>3, <1>4, <1>5 DEF LocalsType
<1>7. ASSUME NEW g \in Handlers, pc'[g] # "idle" PROVE at'[g] \in Nodes /\ kind'[g] \in Kinds
  <2>1. g \notin H /\ pc[g] # "idle"
    BY <1>7
  <2>2. at'[g] = at[g] /\ kind'[g] = kind[g]
    BY <1>1, <2>1
  <2> QED BY <2>1, <2>2 DEF TypeInv, AtWork
<1>8. AtWork'
  BY <1>7 DEF AtWork
<1> QED BY <1>6, <1>8

\* A handler answers, and ends or goes on to stream; its caller, which is at work,
\* copies.
LEMMA AnswerTyped ==
    ASSUME TypeInv, HopInv, NEW h \in Handlers, pc[h] # "idle",
           \/ Answer(h, "idle") /\ Forget({h})
           \/ Answer(h, "stream") /\ UNCHANGED <<at, kind, forwarded, caller, peer, tried, stale>>,
           UNCHANGED <<vnodes, load, alive, check>>
    PROVE  TypeInv'
<1>1. RingsType' /\ ChecksType'
  BY DEF TypeInv, RingsType, ChecksType
<1>2. \A g \in Handlers : g = caller[h] => pc[g] # "idle"
  BY RoutingAssumption DEF HopInv, CallersWait, Waiting
<1>3. CASE Answer(h, "idle") /\ Forget({h})
  <2>1. pc' = [g \in Handlers |-> IF g = h THEN "idle"
                                   ELSE IF g = caller[h] THEN "copy" ELSE pc[g]]
    BY <1>3 DEF Answer
  <2>2. pc' \in [Handlers -> Labels]
    BY <2>1 DEF TypeInv, LocalsType, Labels
  <2>3. /\ \A g \in {h} : pc'[g] = "idle"
        /\ \A g \in Handlers \ {h} : pc'[g] = pc[g] \/ (pc[g] # "idle" /\ pc'[g] = "copy")
    BY <1>2, <2>1
  <2>4. {h} \in SUBSET Handlers
    OBVIOUS
  <2>5. LocalsType' /\ AtWork'
    BY <1>3, <2>2, <2>3, <2>4, EndTyped
  <2>6. ASSUME NEW g \in Handlers, pc'[g] = "load", stale'[g] = None
        PROVE  peer'[g] \in DOMAIN load'[at'[g]]
    <3>1. g # h /\ pc[g] = "load"
      BY <2>1, <2>6
    <3>2. peer'[g] = peer[g] /\ at'[g] = at[g] /\ stale'[g] = stale[g]
      BY <1>3, <3>1 DEF Forget
    <3> QED BY <2>6, <3>1, <3>2 DEF TypeInv, HasLoad
  <2> QED BY <1>1, <2>5, <2>6 DEF TypeInv, HasLoad
<1>4. CASE /\ Answer(h, "stream")
           /\ UNCHANGED <<at, kind, forwarded, caller, peer, tried, stale>>
  <2>1. pc' = [g \in Handlers |-> IF g = h THEN "stream"
                                   ELSE IF g = caller[h] THEN "copy" ELSE pc[g]]
    BY <1>4 DEF Answer
  <2>2. LocalsType'
    BY <1>4, <2>1 DEF TypeInv, LocalsType, Labels
  <2>3. HasLoad'
    BY <1>4, <2>1 DEF TypeInv, HasLoad
  <2>4. AtWork'
    BY <1>2, <1>4, <2>1 DEF TypeInv, AtWork
  <2> QED BY <1>1, <2>2, <2>3, <2>4 DEF TypeInv
<1> QED BY <1>3, <1>4

\* A request arrives, from a client or from a peer.
LEMMA ArriveTyped ==
    ASSUME TypeInv, NEW g \in Handlers, NEW l \in {"vllm", "decide"}, NEW n \in Nodes, NEW k \in Kinds,
           Goto(g, l), at' = [at EXCEPT ![g] = n], kind' = [kind EXCEPT ![g] = k],
           forwarded' \in [Handlers -> BOOLEAN], caller' \in [Handlers -> Handlers \cup {None}],
           UNCHANGED <<vnodes, load, alive, check, peer, tried, stale>>
    PROVE  TypeInv'
<1>1. pc' = [pc EXCEPT ![g] = l]
  BY DEF Goto
<1>2. RingsType' /\ ChecksType'
  BY DEF TypeInv, RingsType, ChecksType
<1>3. LocalsType'
  BY <1>1 DEF TypeInv, LocalsType, Labels
<1>4. HasLoad'
  BY <1>1 DEF TypeInv, LocalsType, HasLoad
<1>5. AtWork'
  BY <1>1 DEF TypeInv, LocalsType, AtWork
<1> QED BY <1>2, <1>3, <1>4, <1>5 DEF TypeInv

\* A health check finds a load between 0 and 1.0, and stores it for a listed peer.
LEMMA CheckTyped ==
    ASSUME TypeInv, NEW n \in Nodes, NEW a \in Addrs, Poll(n, a) \/ StoreLoad(n, a)
    PROVE  TypeInv'
<1>1. MaxConcurrent \in Nat
  BY RoutingAssumption
<1>2. \A m : Load(m) \in 0..MaxConcurrent
  <2> SUFFICES ASSUME NEW m PROVE Load(m) \in 0..MaxConcurrent
    OBVIOUS
  <2>1. IsFiniteSet(Pending(m))
    BY RoutingAssumption, FS_Subset DEF Pending
  <2>2. Cardinality(Pending(m)) \in Nat
    BY <2>1, FS_CardinalityType
  <2> QED BY <1>1, <2>2 DEF Load
<1>3. CASE Poll(n, a)
  <2>1. /\ UNCHANGED <<vnodes, load, alive, pc, at, kind, forwarded, caller, peer, tried, stale>>
        /\ \/ \E l \in 0..MaxConcurrent : check' = [check EXCEPT ![n][a] = l]
           \/ UNCHANGED check
    BY <1>1, <1>2, <1>3 DEF Poll, rings, handling
  <2>2. ChecksType'
    BY <2>1 DEF TypeInv, ChecksType
  <2> QED BY <2>1, <2>2 DEF TypeInv, RingsType, LocalsType, HasLoad, AtWork
<1>4. CASE StoreLoad(n, a)
  <2>1. /\ UNCHANGED <<vnodes, alive, pc, at, kind, forwarded, caller, peer, tried, stale>>
        /\ check[n][a] # None
        /\ check' = [check EXCEPT ![n][a] = None]
        /\ load' = IF a \in DOMAIN load[n] THEN [load EXCEPT ![n][a] = check[n][a]] ELSE load
    BY <1>4 DEF StoreLoad, handling
  <2>2. check[n][a] \in 0..MaxConcurrent
    BY <2>1 DEF TypeInv, ChecksType
  <2>3. ChecksType'
    BY <2>1 DEF TypeInv, ChecksType
  <2>4. DOMAIN load' = Nodes
    BY <2>1 DEF TypeInv, RingsType
  <2>5. ASSUME NEW m \in Nodes
        PROVE  /\ load'[m] \in [PeersOf(vnodes[m]) -> 0..MaxConcurrent]
               /\ DOMAIN load'[m] = DOMAIN load[m]
    <3>1. load[m] \in [PeersOf(vnodes[m]) -> 0..MaxConcurrent]
      BY DEF TypeInv, RingsType
    <3>2. load'[m] = load[m] \/ load'[m] = [load[m] EXCEPT ![a] = check[n][a]]
      BY <2>1 DEF TypeInv, RingsType
    <3> QED BY <2>2, <3>1, <3>2
  <2>6. RingsType'
    BY <2>1, <2>4, <2>5 DEF TypeInv, RingsType
  <2>7. HasLoad'
    BY <2>1, <2>5 DEF TypeInv, AtWork, HasLoad
  <2> QED BY <2>1, <2>3, <2>6, <2>7 DEF TypeInv, LocalsType, AtWork
<1> QED BY <1>3, <1>4

\* Update: whoever has looked up a Peer of the old ring keeps its load.
LEMMA UpdateTyped ==
    ASSUME TypeInv, NEW n \in Nodes, NEW S \in Views, Update(n, S)
    PROVE  TypeInv'
<1>1. PICK vs \in Arrangements(VnodesOf(S, HashKey)) : vnodes' = [vnodes EXCEPT ![n] = vs]
  BY DEF Update
<1>2. S \in SUBSET Addrs /\ HashKey \in [Addrs -> [1..VnodesPerPeer -> Nat]]
  BY RoutingAssumption
<1>3. vs \in Seq(Vnode) /\ PeersOf(vs) = S
  <2> DEFINE V == VnodesOf(S, HashKey)
  <2>1. IsFiniteSet(V) /\ V \subseteq Vnode /\ {v.peer : v \in V} = S
    BY <1>2, VnodesFinite, VnodesType
  <2> HIDE DEF V
  <2>2. vs \in Seq(V) /\ ToSet(vs) = V
    BY <1>1, <2>1, ArrangementIsSeq DEF V
  <2>3. vs \in Seq(Vnode)
    BY <2>1, <2>2, SeqMonotonic
  <2> QED BY <2>1, <2>2, <2>3 DEF PeersOf
<1>4. load' = [load EXCEPT ![n] = [a \in S |-> 0]]
  BY DEF Update
<1>5. 0 \in 0..MaxConcurrent
  BY RoutingAssumption
<1>6. RingsType'
  <2>1. vnodes' \in [Nodes -> Seq(Vnode)]
    BY <1>1, <1>3 DEF TypeInv, RingsType
  <2>2. DOMAIN load' = Nodes
    BY <1>4 DEF TypeInv, RingsType
  <2>3. ASSUME NEW m \in Nodes PROVE load'[m] \in [PeersOf(vnodes'[m]) -> 0..MaxConcurrent]
    <3>1. CASE m = n
      <4>1. load'[m] = [a \in S |-> 0] /\ vnodes'[m] = vs
        BY <1>1, <1>4, <3>1 DEF TypeInv, RingsType
      <4> QED BY <1>3, <1>5, <4>1
    <3>2. CASE m # n
      <4>1. load'[m] = load[m] /\ vnodes'[m] = vnodes[m]
        BY <1>1, <1>4, <3>2 DEF TypeInv, RingsType
      <4> QED BY <4>1 DEF TypeInv, RingsType
    <3> QED BY <3>1, <3>2
  <2> QED BY <2>1, <2>2, <2>3 DEF RingsType
<1>7. UNCHANGED <<alive, check, pc, at, kind, forwarded, caller, peer, tried>>
  BY DEF Update
<1>8. ASSUME NEW h \in Handlers
      PROVE  /\ stale'[h] \in (0..MaxConcurrent) \cup {None}
             /\ pc[h] = "load" /\ stale'[h] = None => stale[h] = None /\ at[h] # n
  <2>1. stale'[h] = IF pc[h] = "load" /\ at[h] = n /\ stale[h] = None
                    THEN load[n][peer[h]] ELSE stale[h]
    BY DEF Update
  <2>2. CASE pc[h] = "load" /\ at[h] = n /\ stale[h] = None
    <3>1. peer[h] \in DOMAIN load[n]
      BY <2>2 DEF TypeInv, HasLoad
    <3>2. load[n][peer[h]] \in 0..MaxConcurrent
      BY <3>1 DEF TypeInv, RingsType
    <3>3. load[n][peer[h]] # None
      BY <3>2, RoutingAssumption
    <3> QED BY <2>1, <2>2, <3>2, <3>3
  <2>3. CASE ~(pc[h] = "load" /\ at[h] = n /\ stale[h] = None)
    BY <2>1, <2>3 DEF TypeInv, LocalsType
  <2> QED BY <2>2, <2>3
<1>9. stale' \in [Handlers -> (0..MaxConcurrent) \cup {None}]
  BY <1>8 DEF Update
<1>10. HasLoad'
  <2> SUFFICES ASSUME NEW h \in Handlers, pc'[h] = "load", stale'[h] = None
               PROVE  peer'[h] \in DOMAIN load'[at'[h]]
    BY DEF HasLoad
  <2>1. stale[h] = None /\ at[h] # n /\ at[h] \in Nodes /\ peer[h] \in DOMAIN load[at[h]]
    BY <1>7, <1>8 DEF TypeInv, HasLoad, AtWork
  <2>2. load'[at[h]] = load[at[h]]
    BY <1>4, <2>1 DEF TypeInv, RingsType
  <2> QED BY <1>7, <2>1, <2>2
<1> QED BY <1>6, <1>7, <1>9, <1>10 DEF TypeInv, ChecksType, LocalsType, AtWork

\* A node dies: its ring and its handlers are gone.
LEMMA CrashTyped ==
    ASSUME TypeInv, NEW n \in Nodes, Crash(n)
    PROVE  TypeInv'
<1> DEFINE H == Pending(n)
<1>1. /\ alive' = alive \ {n}
      /\ pc' = [h \in Handlers |-> IF h \in H THEN "idle" ELSE pc[h]]
      /\ Forget(H)
      /\ vnodes' = [vnodes EXCEPT ![n] = <<>>]
      /\ load' = [load EXCEPT ![n] = [a \in {} |-> 0]]
      /\ check' = [check EXCEPT ![n] = [a \in Addrs |-> None]]
  BY DEF Crash
<1>2. H \in SUBSET Handlers /\ \A h \in Handlers \ H : pc[h] # "idle" => at[h] # n
  BY DEF Pending
<1> HIDE DEF H
<1>3. RingsType'
  <2>1. PeersOf(<<>>) = {} /\ <<>> \in Seq(Vnode)
    BY DEF PeersOf, ToSet
  <2>2. vnodes' \in [Nodes -> Seq(Vnode)]
    BY <1>1, <2>1 DEF TypeInv, RingsType
  <2>3. DOMAIN load' = Nodes
    BY <1>1 DEF TypeInv, RingsType
  <2>4. ASSUME NEW m \in Nodes PROVE load'[m] \in [PeersOf(vnodes'[m]) -> 0..MaxConcurrent]
    <3>1. CASE m = n
      <4>1. load'[m] = [a \in {} |-> 0] /\ vnodes'[m] = <<>>
        BY <1>1, <3>1 DEF TypeInv, RingsType
      <4> QED BY <2>1, <4>1
    <3>2. CASE m # n
      <4>1. load'[m] = load[m] /\ vnodes'[m] = vnodes[m]
        BY <1>1, <3>2 DEF TypeInv, RingsType
      <4> QED BY <4>1 DEF TypeInv, RingsType
    <3> QED BY <3>1, <3>2
  <2> QED BY <2>2, <2>3, <2>4 DEF RingsType
<1>4. ChecksType'
  BY <1>1 DEF TypeInv, ChecksType
<1>5. pc' \in [Handlers -> Labels]
  BY <1>1 DEF TypeInv, LocalsType, Labels
<1>6. LocalsType' /\ AtWork'
  BY <1>1, <1>2, <1>5, EndTyped
<1>7. HasLoad'
  <2> SUFFICES ASSUME NEW h \in Handlers, pc'[h] = "load", stale'[h] = None
               PROVE  peer'[h] \in DOMAIN load'[at'[h]]
    BY DEF HasLoad
  <2>1. h \notin H /\ pc[h] = "load"
    BY <1>1
  <2>2. peer'[h] = peer[h] /\ at'[h] = at[h] /\ stale[h] = None
    BY <1>1, <2>1 DEF Forget
  <2>3. at[h] # n /\ at[h] \in Nodes /\ peer[h] \in DOMAIN load[at[h]]
    BY <1>2, <2>1, <2>2 DEF TypeInv, HasLoad, AtWork
  <2>4. load'[at[h]] = load[at[h]]
    BY <1>1, <2>3 DEF TypeInv, RingsType
  <2> QED BY <2>2, <2>3, <2>4
<1> QED BY <1>3, <1>4, <1>6, <1>7 DEF TypeInv

\* Every step of a handler preserves TypeInv.
LEMMA StepTyped ==
    ASSUME TypeInv, HopInv, NEW h \in Handlers, Step(h) \/ HangUp(h)
    PROVE  TypeInv'
<1>0. caller \in [Handlers -> Handlers \cup {None}]
  BY DEF TypeInv, LocalsType
<1>1. CASE Decide(h)
  BY <1>1, DecideTyped
<1>2. CASE ReadLoad(h)
  <2>1. /\ pc[h] = "load" /\ stale' = [stale EXCEPT ![h] = None]
        /\ UNCHANGED <<vnodes, load, alive, check, at, kind, forwarded, caller, peer, tried>>
    BY <1>2 DEF ReadLoad, rings
  <2>2. Goto(h, "ensure") \/ Goto(h, "send")
    BY <1>2 DEF ReadLoad
  <2> QED BY <1>0, <2>1, <2>2, MoveTyped DEF Labels
<1>3. CASE Send(h)
  <2> DEFINE owner == Owner(vnodes[at[h]], HashOf(h))
  <2>1. /\ pc[h] = "send"
        /\ UNCHANGED <<vnodes, load, alive, check, at, kind, forwarded, caller, stale>>
    BY <1>3 DEF Send, rings
  <2>2. CASE owner # NoPeer /\ Call(h, owner, "await")
    <3>1. owner \in Addrs
      BY <2>1, <2>2, LookupTyped
    <3> HIDE DEF owner
    <3>2. /\ Goto(h, "await") /\ peer' = [peer EXCEPT ![h] = owner]
          /\ tried' = [tried EXCEPT ![h] = tried[h] \cup {owner}]
      BY <2>2 DEF Call
    <3> QED BY <1>0, <2>1, <3>1, <3>2, MoveTyped DEF Labels
  <2>3. CASE Goto(h, "ensure") /\ UNCHANGED <<peer, tried>>
    BY <1>0, <2>1, <2>3, MoveTyped DEF Labels
  <2> QED BY <1>3, <2>2, <2>3 DEF Send
<1>4. CASE Retry(h)
  <2> DEFINE next == Fallback(vnodes[at[h]], HashOf(h), peer[h])
  <2>1. /\ pc[h] = "retry"
        /\ UNCHANGED <<vnodes, load, alive, check, at, kind, forwarded, caller, stale>>
    BY <1>4 DEF Retry, rings
  <2>2. CASE ~IsSelf(at[h], next) /\ Call(h, next, "reawait")
    <3>1. next \in Addrs
      BY <2>1, <2>2, LookupTyped DEF IsSelf
    <3> HIDE DEF next
    <3>2. /\ Goto(h, "reawait") /\ peer' = [peer EXCEPT ![h] = next]
          /\ tried' = [tried EXCEPT ![h] = tried[h] \cup {next}]
      BY <2>2 DEF Call
    <3> QED BY <1>0, <2>1, <3>1, <3>2, MoveTyped DEF Labels
  <2>3. CASE Goto(h, "ensure") /\ UNCHANGED <<peer, tried>>
    BY <1>0, <2>1, <2>3, MoveTyped DEF Labels
  <2> QED BY <1>4, <2>2, <2>3 DEF Retry
<1>5. CASE GiveUp(h)
  <2>1. /\ pc[h] \in {"await", "reawait"}
        /\ caller' = [g \in Handlers |-> IF caller[g] = h THEN None ELSE caller[g]]
        /\ UNCHANGED <<vnodes, load, alive, check, at, kind, forwarded, peer, tried, stale>>
    BY <1>5 DEF GiveUp, rings
  <2>2. caller' \in [Handlers -> Handlers \cup {None}]
    BY <1>0, <2>1
  <2>3. Goto(h, "ensure") \/ Goto(h, "retry")
    BY <1>5 DEF GiveUp
  <2> QED BY <2>1, <2>2, <2>3, MoveTyped DEF Labels
<1>6. CASE CopyEnds(h)
  BY <1>6, AnswerTyped DEF CopyEnds, rings
<1>7. CASE Ensure(h)
  <2>1. pc[h] = "ensure" /\ UNCHANGED <<vnodes, load, alive, check>>
    BY <1>7 DEF Ensure, rings
  <2>2. CASE Answer(h, "idle") /\ Forget({h})
    BY <2>1, <2>2, AnswerTyped
  <2>3. CASE Goto(h, "vllm") /\ UNCHANGED <<at, kind, forwarded, caller, peer, tried, stale>>
    BY <1>0, <2>1, <2>3, MoveTyped DEF Labels
  <2> QED BY <1>7, <2>2, <2>3 DEF Ensure
<1>8. CASE ProxyToVLLM(h)
  BY <1>8, AnswerTyped DEF ProxyToVLLM, rings
<1>9. CASE StreamEnds(h)
  BY <1>9, AnswerTyped DEF StreamEnds, rings
<1>10. CASE HangUp(h)
  BY <1>10, AnswerTyped DEF HangUp, rings
<1> QED BY <1>1, <1>2, <1>3, <1>4, <1>5, <1>6, <1>7, <1>8, <1>9, <1>10 DEF Step

\* The next-state relation preserves TypeInv.
LEMMA NextTyped == TypeInv /\ HopInv /\ [Next]_vars => TypeInv'
<1> SUFFICES ASSUME TypeInv, HopInv, [Next]_vars PROVE TypeInv'
  OBVIOUS
<1>1. CASE \E h \in Handlers : Step(h) \/ HangUp(h)
  BY <1>1, StepTyped
<1>2. CASE \E h \in Handlers, g \in Servants : Serve(h, g)
  <2>1. PICK h \in Handlers, g \in Servants : Serve(h, g)
    BY <1>2
  <2>2. /\ g \in Handlers /\ pc[h] \in {"await", "reawait"}
        /\ NodeOf[peer[h]] \in alive
        /\ Goto(g, FirstLabel(kind[h]))
        /\ at' = [at EXCEPT ![g] = NodeOf[peer[h]]]
        /\ kind' = [kind EXCEPT ![g] = kind[h]]
        /\ forwarded' = [forwarded EXCEPT ![g] = TRUE]
        /\ caller' = [caller EXCEPT ![g] = h]
        /\ UNCHANGED <<vnodes, load, alive, check, peer, tried, stale>>
    BY <2>1 DEF Serve, Handlers, rings
  <2>3. FirstLabel(kind[h]) \in {"vllm", "decide"}
    BY DEF FirstLabel
  <2>4. NodeOf[peer[h]] \in Nodes /\ kind[h] \in Kinds
    BY <2>2 DEF TypeInv, ChecksType, AtWork
  <2>5. caller' \in [Handlers -> Handlers \cup {None}]
    BY <2>2 DEF TypeInv, LocalsType
  <2>6. forwarded' \in [Handlers -> BOOLEAN]
    BY <2>2 DEF TypeInv, LocalsType
  <2> QED BY <2>2, <2>3, <2>4, <2>5, <2>6, ArriveTyped
<1>3. CASE \E c \in Clients, n \in Nodes, k \in Kinds : Arrive(c, n, k)
  <2>1. PICK c \in Clients, n \in Nodes, k \in Kinds : Arrive(c, n, k)
    BY <1>3
  <2>2. /\ c \in Handlers /\ Goto(c, FirstLabel(k))
        /\ at' = [at EXCEPT ![c] = n] /\ kind' = [kind EXCEPT ![c] = k]
        /\ UNCHANGED <<vnodes, load, alive, check, forwarded, caller, peer, tried, stale>>
    BY <2>1 DEF Arrive, Handlers, rings
  <2>3. FirstLabel(k) \in {"vllm", "decide"}
    BY DEF FirstLabel
  <2>4. /\ forwarded' \in [Handlers -> BOOLEAN]
        /\ caller' \in [Handlers -> Handlers \cup {None}]
    BY <2>2 DEF TypeInv, LocalsType
  <2> QED BY <2>2, <2>3, <2>4, ArriveTyped
<1>4. CASE \E n \in Nodes, a \in Addrs : Poll(n, a) \/ StoreLoad(n, a)
  BY <1>4, CheckTyped
<1>5. CASE \E n \in Nodes, S \in Views : Update(n, S)
  BY <1>5, UpdateTyped
<1>6. CASE \E n \in Nodes : Crash(n)
  BY <1>6, CrashTyped
<1>7. CASE \E n \in Nodes : Restart(n)
  BY <1>7 DEF Restart, rings, handling, TypeInv, RingsType, ChecksType, LocalsType, HasLoad, AtWork
<1>8. CASE UNCHANGED vars
  BY <1>8 DEF vars, TypeInv, RingsType, ChecksType, LocalsType, HasLoad, AtWork
<1> QED BY <1>1, <1>2, <1>3, <1>4, <1>5, <1>6, <1>7, <1>8 DEF Next

(***************************************************************************)
(* Types: in particular load and vnodes of a ring, which Update rebuilds   *)
(* together, always list the same peers, and a handler that has looked up  *)
(* a Peer has a load to read although the Peer may have left the ring.     *)
(***************************************************************************)
THEOREM RoutingTypes == Spec => []TypeOK
<1>1. Init => TypeInv
  <2> SUFFICES ASSUME Init PROVE TypeInv
    OBVIOUS
  <2>1. PeersOf(<<>>) = {} /\ <<>> \in Seq(Vnode)
    BY DEF PeersOf, ToSet
  <2>2. RingsType
    BY <2>1 DEF Init, RingsType
  <2>3. ChecksType /\ LocalsType /\ HasLoad /\ AtWork
    BY DEF Init, ChecksType, LocalsType, HasLoad, AtWork, Labels
  <2> QED BY <2>2, <2>3 DEF TypeInv
<1>2. Init => HopInv
  BY DEF Init, HopInv, HopType, CallsHaveNoHeader, CallersWait, Labels, Calling
<1> QED BY <1>1, <1>2, NextTyped, NextHop, TypeImplied, PTL DEF Spec

=============================================================================
