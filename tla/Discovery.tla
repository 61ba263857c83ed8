------------------------------ MODULE Discovery ------------------------------
(***************************************************************************)
(* How the nodes of a cluster find each other, internal/discovery: a fixed *)
(* list (static.go), heartbeat files in a shared directory (file.go), or   *)
(* the Endpoints of a Kubernetes service (k8s.go).  Every list that a mode *)
(* finds goes through Base.SetPeers to the callback of main.go, which      *)
(* rebuilds the node's ring (modules Ring and Routing).                    *)
(*                                                                         *)
(* A step is one call to the file system or to the Kubernetes API.         *)
(* os.WriteFile is two: it truncates the file, then writes it, all of it   *)
(* or nothing.  Any of these calls may fail.  Addresses are naturals, in   *)
(* the order in which os.ReadDir lists the files.                          *)
(*                                                                         *)
(* Time is counted in ticks.  Tick passes only while every running node    *)
(* keeps its rhythm: its ticker fires again at most Heartbeat + Slack      *)
(* ticks after it fired last.  A tick that does not wait is a fault.       *)
(*                                                                         *)
(* Simplifications:                                                        *)
(*  - The directory holds heartbeat files only, no subdirectories and no   *)
(*    dot files.                                                           *)
(*  - Base.Peers has no caller in the program, so that SetPeers and the    *)
(*    callback are one step: only one goroutine of a node calls it.        *)
(*  - Kubernetes lists a pod some time after it starts, and drops it some  *)
(*    time after it ends.                                                  *)
(***************************************************************************)
EXTENDS Integers, FiniteSetsExt

CONSTANTS
    Nodes,          \* loraplex processes
    Self,           \* Self[n]: the address of node n
    Modes,          \* the values of discovery.mode that are explored
    StaticPeers,    \* discovery.static.peers
    Heartbeat,      \* discovery.file.heartbeat_interval, also of the Endpoints poll
    Stale,          \* discovery.file.stale_threshold
    Skew,           \* Skew[n]: how far n's clock is ahead of the file server's
    Slack,          \* how late a node's ticker may be served
    None,
    MaxAge,         \* bound: ages beyond it are not told apart
    MaxStarts,      \* bound: starts of nodes
    MaxFaults       \* bound: failed calls, reads of a file being written, stalls

Addrs  == {Self[n] : n \in Nodes}
Rhythm == Heartbeat + Slack

\* How long a node may be gone before the last of the others has dropped it, and
\* the bound beyond which that time is not counted.
Patience(fs) == Stale + (2 + fs) * Rhythm
MaxGone == Patience(MaxFaults) + 1

ASSUME DiscoveryAssumption ==
    /\ Self \in [Nodes -> Nat]
    /\ Modes \subseteq {"static", "file", "k8s"}
    /\ StaticPeers \subseteq Nat
    /\ {Heartbeat, Stale, Slack, MaxAge, MaxStarts, MaxFaults} \subseteq Nat
    /\ Heartbeat > 0
    /\ Skew \in [Nodes -> 0..Stale]
    /\ MaxAge > Stale

VARIABLES
    mode,           \* discovery.mode
    pc,             \* where the loop of each node is
    exit,           \* how far Stop has come: "no", "closed", "removed"
    ring,           \* ring[n]: the peers of node n's ring
    timer,          \* ticks since its ticker fired
    file,           \* file[a]: the heartbeat file of address a
    endpoints,      \* the ready addresses of the Kubernetes service
    entries,        \* what is left of the directory that scan listed
    old,            \* those of them that were stale at scan's `now'
    found,          \* the list under construction
    gone,           \* gone[n]: ticks since node n ended
    away,           \* away[n]: the peers of n not to be found, or overlooked, since its last list
    starts, faults

scan  == <<entries, old, found>>
world == <<file, endpoints>>
clock == <<timer, gone>>
state == <<mode, pc, exit, ring, timer, file, endpoints, entries, old, found, gone,
           starts, faults>>
vars  == <<mode, pc, exit, ring, timer, file, endpoints, entries, old, found, gone,
           away, starts, faults>>

Labels == {"down", "start", "write", "readdir", "entry", "remove", "set", "select", "ended"}

\* A heartbeat file is its age and whether its content is there.
File == [age : 0..MaxAge, full : BOOLEAN]

-----------------------------------------------------------------------------

Running(n) == pc[n] # "down" /\ exit[n] = "no"

Goto(n, label) == pc' = [pc EXCEPT ![n] = label]

Fault == faults < MaxFaults /\ faults' = faults + 1

\* Mutant of RoundBegins: the loop does not listen to its ticker.
RoundBeginsOnce(n) ==
    /\ pc[n] = "start"
    /\ timer' = [timer EXCEPT ![n] = 0]

\* A round of the loop begins: the first one, or the ticker has fired, which select
\* may choose even when stopCh is closed.
RoundBegins(n) ==
    /\ pc[n] = "start" \/ (pc[n] = "select" /\ timer[n] >= Heartbeat)
    /\ timer' = [timer EXCEPT ![n] = 0]

\* Mutant of IsStale: heartbeats do not age.
IsStaleNever(n, f) == FALSE

\* now.Sub(info.ModTime()) > f.stale, for a scan of node n at this moment.
IsStale(n, f) == f.age + Skew[n] > Stale

\* The list that node n would find now contains a.
Available(n, a) ==
    CASE mode = "static" -> a \in StaticPeers
      [] mode = "file"   -> file[a] # None /\ file[a].full /\ ~IsStale(n, file[a])
      [] mode = "k8s"    -> a \in endpoints

\* The directory may hold what nodes left in an earlier life.
Init ==
    /\ mode \in Modes
    /\ pc = [n \in Nodes |-> "down"]
    /\ exit = [n \in Nodes |-> "no"]
    /\ ring = [n \in Nodes |-> {}]
    /\ timer = [n \in Nodes |-> 0]
    /\ file \in [Addrs -> {None, [age |-> MaxAge, full |-> TRUE]}]
    /\ endpoints = {}
    /\ entries = [n \in Nodes |-> {}]
    /\ old = [n \in Nodes |-> {}]
    /\ found = [n \in Nodes |-> {}]
    /\ gone = [n \in Nodes |-> MaxGone]
    /\ away = [n \in Nodes |-> {}]
    /\ starts = 0
    /\ faults = 0

-----------------------------------------------------------------------------
(* Start, Stop and the select of loop and poll                              *)

\* Start; Static.Start reports its list at once and has no loop.
Start(n) ==
    /\ pc[n] = "down" /\ starts < MaxStarts
    /\ starts' = starts + 1
    /\ timer' = [timer EXCEPT ![n] = 0]
    /\ gone' = [gone EXCEPT ![n] = 0]
    /\ \/ /\ mode = "static"
          /\ ring' = [ring EXCEPT ![n] = StaticPeers]
          /\ Goto(n, "ended")
       \/ /\ mode # "static"
          /\ Goto(n, "start")
          /\ UNCHANGED ring
    /\ UNCHANGED <<mode, exit, world, scan, faults>>

\* close(stopCh); the loop learns of it in its next select.
StopClose(n) ==
    /\ Running(n)
    /\ exit' = [exit EXCEPT ![n] = IF mode = "file" THEN "closed" ELSE "removed"]
    /\ UNCHANGED <<mode, pc, ring, world, scan, clock, starts, faults>>

\* os.Remove(selfFile), whose error is ignored.
StopRemove(n) ==
    /\ exit[n] = "closed"
    /\ exit' = [exit EXCEPT ![n] = "removed"]
    /\ \/ file' = [file EXCEPT ![Self[n]] = None] /\ UNCHANGED faults
       \/ Fault /\ UNCHANGED file
    /\ UNCHANGED <<mode, pc, ring, endpoints, scan, clock, starts>>

\* The process ends: after Stop, wherever the loop is by then, or by a crash.
End(n) ==
    /\ pc[n] # "down"
    /\ Goto(n, "down")
    /\ exit' = [exit EXCEPT ![n] = "no"]
    /\ ring' = [ring EXCEPT ![n] = {}]
    /\ timer' = [timer EXCEPT ![n] = 0]
    /\ entries' = [entries EXCEPT ![n] = {}]
    /\ old' = [old EXCEPT ![n] = {}]
    /\ found' = [found EXCEPT ![n] = {}]
    /\ UNCHANGED <<mode, world, gone, starts, faults>>

Exit(n)  == exit[n] = "removed" /\ End(n)
Crash(n) == Running(n) /\ End(n)

\* case <-f.stopCh
LoopEnds(n) ==
    /\ pc[n] = "select" /\ exit[n] # "no"
    /\ Goto(n, "ended")
    /\ UNCHANGED <<mode, exit, ring, world, scan, clock, starts, faults>>

-----------------------------------------------------------------------------
(* File: writeHeartbeat and scan                                            *)

\* The file has a new modification time, later than the `now' of any scan.
Touched(n, full) ==
    /\ file' = [file EXCEPT ![Self[n]] = [age |-> 0, full |-> full]]
    /\ old' = [k \in Nodes |-> old[k] \ {Self[n]}]

\* os.WriteFile opens the file, which makes or truncates it; or it fails.
Truncate(n) ==
    /\ mode = "file" /\ RoundBegins(n)
    /\ \/ Touched(n, FALSE) /\ Goto(n, "write") /\ UNCHANGED faults
       \/ Fault /\ Goto(n, "readdir") /\ UNCHANGED <<file, old>>
    /\ UNCHANGED <<mode, exit, ring, endpoints, entries, found, gone, starts>>

\* ... and writes it: for nobody, if somebody has removed it meanwhile; or it fails,
\* and the file stays truncated.
Write(n) ==
    /\ pc[n] = "write"
    /\ \/ file[Self[n]] # None /\ Touched(n, TRUE) /\ UNCHANGED faults
       \/ file[Self[n]] = None /\ UNCHANGED <<file, old, faults>>
       \/ Fault /\ UNCHANGED <<file, old>>
    /\ Goto(n, "readdir")
    /\ UNCHANGED <<mode, exit, ring, endpoints, entries, found, clock, starts>>

\* Mutant of NextEntry: scan goes past the last entry.
NextEntryAlways(n, left) == Goto(n, "entry")

NextEntry(n, left) == Goto(n, IF left = {} THEN "set" ELSE "entry")

\* os.ReadDir and time.Now; on an error the list stays as it is.
ReadDir(n) ==
    /\ pc[n] = "readdir"
    /\ \/ /\ entries' = [entries EXCEPT ![n] = {a \in Addrs : file[a] # None}]
          /\ old' = [old EXCEPT ![n] = {a \in Addrs : file[a] # None /\ IsStale(n, file[a])}]
          /\ NextEntry(n, entries'[n])
          /\ UNCHANGED faults
       \/ /\ Fault
          /\ Goto(n, "select")
          /\ UNCHANGED <<entries, old>>
    /\ UNCHANGED <<mode, exit, ring, world, found, clock, starts>>

Entry(n) == Min(entries[n])

\* The loop over the entries goes on.
Continue(n) ==
    /\ entries' = [entries EXCEPT ![n] = @ \ {Entry(n)}]
    /\ NextEntry(n, entries'[n])

\* e.Info finds the file gone, or with an old modification time; or it fails, and the
\* entry is skipped.
Info(n) ==
    /\ pc[n] = "entry"
    /\ \/ file[Entry(n)] = None /\ Continue(n) /\ UNCHANGED faults
       \/ file[Entry(n)] # None /\ Continue(n) /\ Fault
       \/ /\ file[Entry(n)] # None /\ Entry(n) \in old[n]
          /\ Goto(n, "remove")
          /\ UNCHANGED <<entries, faults>>
    /\ UNCHANGED <<mode, exit, ring, world, old, found, clock, starts>>

\* os.Remove of a stale file, also if it has been renewed since Info; its error is
\* ignored.
RemoveStale(n) ==
    /\ pc[n] = "remove"
    /\ \/ file' = [file EXCEPT ![Entry(n)] = None] /\ UNCHANGED faults
       \/ Fault /\ UNCHANGED file
    /\ Continue(n)
    /\ UNCHANGED <<mode, exit, ring, endpoints, old, found, clock, starts>>

\* The owner of the file is about to write what it has truncated.  That a scan meets
\* such a file is a coincidence, and counts as a fault.
BeingWritten(a) == \E m \in Nodes : Self[m] = a /\ pc[m] = "write"

\* Or e.Info finds it young enough and os.ReadFile reads it: truncated, it is skipped,
\* and also if it cannot be read.
ReadFile(n) ==
    /\ pc[n] = "entry"
    /\ file[Entry(n)] # None /\ Entry(n) \notin old[n]
    /\ \/ /\ file[Entry(n)].full
          /\ found' = [found EXCEPT ![n] = @ \cup {Entry(n)}]
          /\ UNCHANGED faults
       \/ /\ ~file[Entry(n)].full
          /\ IF BeingWritten(Entry(n)) THEN Fault ELSE UNCHANGED faults
          /\ UNCHANGED found
       \/ Fault /\ UNCHANGED found
    /\ Continue(n)
    /\ UNCHANGED <<mode, exit, ring, world, old, clock, starts>>

-----------------------------------------------------------------------------
(* K8s: fetch                                                               *)

\* Mutant of Fetch: an error is taken for an empty list.
FetchErrorEmpty(n) ==
    /\ mode = "k8s" /\ RoundBegins(n)
    /\ \/ found' = [found EXCEPT ![n] = endpoints] /\ UNCHANGED faults
       \/ found' = [found EXCEPT ![n] = {}] /\ Fault
    /\ Goto(n, "set")
    /\ UNCHANGED <<mode, exit, ring, world, entries, old, gone, starts>>

\* The token, the request, its status and its body; on any error the list stays.
Fetch(n) ==
    /\ mode = "k8s" /\ RoundBegins(n)
    /\ \/ /\ found' = [found EXCEPT ![n] = endpoints]
          /\ Goto(n, "set")
          /\ UNCHANGED faults
       \/ /\ Fault
          /\ Goto(n, "select")
          /\ UNCHANGED found
    /\ UNCHANGED <<mode, exit, ring, world, entries, old, gone, starts>>

\* Kubernetes notices that an address has become ready, or is so no longer.
Kubelet(a) ==
    /\ mode = "k8s"
    /\ LET ready == \E n \in Nodes : Running(n) /\ Self[n] = a
       IN  endpoints' = (endpoints \ {a}) \cup (IF ready THEN {a} ELSE {})
    /\ UNCHANGED <<mode, pc, exit, ring, file, scan, clock, starts, faults>>

-----------------------------------------------------------------------------

\* Base.SetPeers and the callback
SetPeers(n) ==
    /\ pc[n] = "set"
    /\ ring' = [ring EXCEPT ![n] = found[n]]
    /\ found' = [found EXCEPT ![n] = {}]
    /\ Goto(n, "select")
    /\ UNCHANGED <<mode, exit, world, entries, old, clock, starts, faults>>

\* Time passes.
Tick ==
    /\ LET late == {n \in Nodes : pc[n] \notin {"down", "ended"} /\ timer[n] >= Rhythm}
       IN  \/ late = {} /\ UNCHANGED faults
           \/ late # {} /\ Fault
    /\ timer' = [n \in Nodes |-> IF pc[n] \in {"down", "ended"} \/ timer[n] = Rhythm
                                 THEN timer[n] ELSE timer[n] + 1]
    /\ gone' = [n \in Nodes |-> IF pc[n] = "down" /\ gone[n] < MaxGone THEN gone[n] + 1 ELSE gone[n]]
    /\ file' = [a \in Addrs |-> IF file[a] # None /\ file[a].age < MaxAge
                                THEN [file[a] EXCEPT !.age = @ + 1] ELSE file[a]]
    /\ UNCHANGED <<mode, pc, exit, ring, endpoints, scan, starts>>

-----------------------------------------------------------------------------

LoopStep(n) ==
    \/ LoopEnds(n) \/ Truncate(n) \/ Write(n) \/ ReadDir(n)
    \/ Info(n) \/ RemoveStale(n) \/ ReadFile(n) \/ Fetch(n) \/ SetPeers(n)

StopStep(n) == StopRemove(n) \/ Exit(n)

\* The scan of node n goes past the file of a since a call on it has failed.
Overlooks(n, a) == a \in entries[n] /\ a \notin entries'[n] /\ faults' # faults

\* A history variable: it starts anew with every list, and no action depends on it.
Remember ==
    away' = [n \in Nodes |->
               {a \in ring'[n] :
                  \/ ~Available(n, a)'
                  \/ Overlooks(n, a)
                  \/ a \in away[n] /\ ~(pc[n] = "set" /\ pc'[n] = "select")}]

Next ==
    /\ \/ \E n \in Nodes : LoopStep(n) \/ StopStep(n)
       \/ \E n \in Nodes : Start(n) \/ StopClose(n) \/ Crash(n)
       \/ \E a \in Addrs : Kubelet(a)
       \/ Tick
    /\ Remember

Spec == Init /\ [][Next]_vars

(***************************************************************************)
(* Fairness: the loop and the stopping of a node go on, time passes, and   *)
(* Kubernetes notices.  Nobody has to start, stop or crash a node.         *)
(***************************************************************************)
FairSpec ==
    /\ Spec
    /\ \A n \in Nodes : WF_state(LoopStep(n)) /\ WF_state(StopStep(n))
    /\ \A a \in Addrs : WF_state(Kubelet(a))
    /\ WF_state(Tick)

-----------------------------------------------------------------------------
(* Properties                                                               *)

\* The types, and that the loop of scan has an entry to look at.
TypeOK ==
    /\ mode \in Modes
    /\ pc \in [Nodes -> Labels]
    /\ exit \in [Nodes -> {"no", "closed", "removed"}]
    /\ ring \in [Nodes -> SUBSET (Addrs \cup StaticPeers)]
    /\ timer \in [Nodes -> 0..Rhythm]
    /\ file \in [Addrs -> File \cup {None}]
    /\ endpoints \subseteq Addrs
    /\ entries \in [Nodes -> SUBSET Addrs]
    /\ \A n \in Nodes : pc[n] \in {"entry", "remove"} <=> entries[n] # {}
    /\ old \in [Nodes -> SUBSET Addrs]
    /\ found \in [Nodes -> SUBSET Addrs]
    /\ gone \in [Nodes -> 0..MaxGone]
    /\ away \in [Nodes -> SUBSET (Addrs \cup StaticPeers)]
    /\ {starts, faults} \subseteq Nat

\* Once nodes stop coming and going and calls stop failing, every list comes to be the
\* nodes that run and stays so, whatever files crashed and stopping nodes left behind,
\* whichever renewed heartbeat a scan removed and whichever it could not.  It stays so
\* since reads of a file being written are bounded too: in the code they are not.
ListsConverge ==
    <>[](\A n \in Nodes :
           Running(n) => ring[n] = IF mode = "static" THEN StaticPeers
                                   ELSE {Self[m] : m \in {k \in Nodes : Running(k)}})

\* A node that has ended leaves every list in bounded time, also if it died between
\* truncating and writing its heartbeat, or wrote one after Stop had removed it:
\* the stale threshold, two rounds, and a round for every fault.
DeadLeaveInTime ==
    \A n, m \in Nodes :
        mode = "file" /\ Running(n) /\ gone[m] > Patience(faults)
          => Self[m] \notin ring[n]

(***************************************************************************)
(* A peer leaves the list of a running node only if, at some time since    *)
(* that list was made, its heartbeat was missing, truncated or stale,      *)
(* Kubernetes did not report it, or scan's e.Info or os.ReadFile of its    *)
(* own file failed.  A failed os.ReadDir, heartbeat or fetch, or a call    *)
(* that failed on another peer's file, takes nobody out of a ring.         *)
(***************************************************************************)
DroppedForCause ==
    [][\A n \in Nodes : pc'[n] # "down" => ring[n] \ ring'[n] \subseteq away[n]]_vars

=============================================================================
