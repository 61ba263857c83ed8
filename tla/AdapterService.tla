--------------------------- MODULE AdapterService ---------------------------
(***************************************************************************)
(* What Manager promises to those who call it, without how it keeps it: no *)
(* files, origins, sizes, temporary directories or index.  Module          *)
(* CacheManager implements it (its property ImplementsService), and module *)
(* Evictions puts one on every node of a cluster.                          *)
(*                                                                         *)
(* The promise: calls of EnsureAdapter for one adapter that overlap share  *)
(* one answer; "ok" is answered only if the adapter's directory was there  *)
(* at some moment of the shared call; and a directory appears only through *)
(* a shared call or a refresh that is under way, so that an adapter that   *)
(* is evicted while nobody works on it stays away.  Nothing is promised    *)
(* about how long a directory stays.                                       *)
(***************************************************************************)
CONSTANTS
    Adapters,
    Callers,        \* goroutines that call EnsureAdapter
    None

VARIABLES
    present,        \* the adapters that have a directory
    shared,         \* shared[a]: how far the shared call for a is
    call,           \* call[c]: "idle", "waiting", "ok" or "err"
    subject,        \* subject[c]: the adapter that c asks for
    refreshing      \* the adapters that a goroutine revalidates

service == <<present, shared, call, subject, refreshing>>

Init ==
    /\ present = {}
    /\ shared = [a \in Adapters |-> "none"]
    /\ call = [c \in Callers |-> "idle"]
    /\ subject = [c \in Callers |-> None]
    /\ refreshing = {}

Becomes(a, stage) == shared' = [shared EXCEPT ![a] = stage]

\* EnsureAdapter is called; the first call for an adapter begins the shared one.
Call(c, a) ==
    /\ call[c] = "idle"
    /\ call' = [call EXCEPT ![c] = "waiting"]
    /\ subject' = [subject EXCEPT ![c] = a]
    /\ IF shared[a] = "none" THEN Becomes(a, "looking") ELSE UNCHANGED shared
    /\ UNCHANGED <<present, refreshing>>

\* The shared call finds the adapter stored ...
Find(a) ==
    /\ shared[a] = "looking" /\ a \in present
    /\ Becomes(a, "found")
    /\ UNCHANGED <<present, call, subject, refreshing>>

\* ... or fetches it ...
Deliver(a) ==
    /\ shared[a] = "looking"
    /\ Becomes(a, "found")
    /\ present' = present \cup {a}
    /\ UNCHANGED <<call, subject, refreshing>>

\* ... or fails, also after it had found the adapter.
GiveUp(a) ==
    /\ shared[a] \in {"looking", "found"}
    /\ Becomes(a, "failed")
    /\ UNCHANGED <<present, call, subject, refreshing>>

\* All who wait for the shared call get its result.
Answer(a) ==
    /\ shared[a] \in {"found", "failed"}
    /\ Becomes(a, "none")
    /\ call' = [c \in Callers |->
                  IF call[c] = "waiting" /\ subject[c] = a
                  THEN IF shared[a] = "found" THEN "ok" ELSE "err"
                  ELSE call[c]]
    /\ UNCHANGED <<present, subject, refreshing>>

\* The caller goes on with the answer.
Leave(c) ==
    /\ call[c] \in {"ok", "err"}
    /\ call' = [call EXCEPT ![c] = "idle"]
    /\ subject' = [subject EXCEPT ![c] = None]
    /\ UNCHANGED <<present, shared, refreshing>>

\* A hit starts a revalidation in the background, one at a time.
BeginRefresh(a) ==
    /\ shared[a] = "found" /\ a \notin refreshing
    /\ refreshing' = refreshing \cup {a}
    /\ UNCHANGED <<present, shared, call, subject>>

\* Mutant of Renew: the refetch may outlive the mark of the revalidation.
RenewUnmarked(a) ==
    /\ present' = present \cup {a}
    /\ UNCHANGED <<shared, call, subject, refreshing>>

\* Its refetch puts the adapter in place.
Renew(a) ==
    /\ a \in refreshing
    /\ present' = present \cup {a}
    /\ UNCHANGED <<shared, call, subject, refreshing>>

EndRefresh(a) ==
    /\ a \in refreshing
    /\ refreshing' = refreshing \ {a}
    /\ UNCHANGED <<present, shared, call, subject>>

\* EvictAdapter, an eviction to make room, or the beginning of a refetch.
Remove(a) ==
    /\ present' = present \ {a}
    /\ UNCHANGED <<shared, call, subject, refreshing>>

\* The process that keeps the adapters S dies and starts again.
Restart(S) ==
    /\ shared' = [a \in Adapters |-> IF a \in S THEN "none" ELSE shared[a]]
    /\ call' = [c \in Callers |-> IF subject[c] \in S THEN "idle" ELSE call[c]]
    /\ subject' = [c \in Callers |-> IF subject[c] \in S THEN None ELSE subject[c]]
    /\ refreshing' = refreshing \ S
    /\ UNCHANGED present

AdapterStep(a) ==
    \/ Find(a) \/ Deliver(a) \/ GiveUp(a) \/ Answer(a)
    \/ BeginRefresh(a) \/ Renew(a) \/ EndRefresh(a) \/ Remove(a)

Next ==
    \/ \E a \in Adapters : AdapterStep(a)
    \/ \E c \in Callers, a \in Adapters : Call(c, a)
    \/ \E c \in Callers : Leave(c)
    \/ Restart(Adapters)

Spec == Init /\ [][Next]_service

=============================================================================
