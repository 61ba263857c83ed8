--------------------------- MODULE ServiceProofs ---------------------------
(***************************************************************************)
(* Proofs that the singleflight group and the map `revalidating' of        *)
(* Manager do their work, and that CacheManager implements AdapterService. *)
(***************************************************************************)
EXTENDS CacheProofs

-----------------------------------------------------------------------------
(* Where a goroutine can be                                                 *)

Looking == {"has", "begin", "info", "cfg", "mdl", "stat", "writemeta", "tmpsize", "evict",
            "sweep", "clear", "rename"}

\* The labels inside ensureInternal, fetchFromOrigin and revalidateAdapter.
Busy == Labels \ {"idle", "wait", "reply"}

\* The labels each kind of goroutine may be at, and the results it may have there.
Fit(p, l, r) ==
    /\ p \in Requests => l \notin {"head", "refresh", "removelru", "removedir", "unmark"}
    /\ p \in Revalidators => l \notin {"wait", "has", "readmeta", "mark", "return", "reply"}
    /\ p \in Evictors => l \in {"idle", "removelru", "removedir"}
    /\ l \in Looking \cup {"idle", "wait", "head", "refresh", "removelru", "removedir"}
         => r = "none"
    /\ l \in {"dirsize", "touch"} => r \in {"none", "local"}
    /\ l \in {"readmeta", "mark"} => r = "local"
    /\ l = "cleanup" => r \in {"origin", "err"}
    /\ l = "return" => r # "none"
    /\ r = "local" => p \in Requests

Fits == \A p \in Procs : Fit(p, pc[p], res[p])

\* How far a shared call is whose leader is at l with the result r.
Stage(l, r) ==
    CASE r = "err" -> "failed"
      [] r \in {"local", "origin"} \/ (r = "none" /\ l \in {"dirsize", "touch"}) -> "found"
      [] OTHER -> "looking"

\* Goroutine p goes on to l with the result r; group, map and targets stay.
Turn(p, l, r) ==
    /\ pc' = [pc EXCEPT ![p] = l]
    /\ res' = [res EXCEPT ![p] = r]
    /\ UNCHANGED <<flight, revalidating, target>>

\* What such a turn may do to the stage of a shared call and to the directories.
Effect(p, l, r) ==
    \/ /\ Stage(l, r) = Stage(pc[p], res[p])
       /\ Present' = Present \/ \E a \in Adapters : Present' = Present \ {a}
    \/ /\ Stage(pc[p], res[p]) \in {"looking", "found"} /\ Stage(l, r) = "failed"
       /\ Present' = Present
    \/ /\ Stage(pc[p], res[p]) = "looking" /\ Stage(l, r) = "found"
       /\ \/ target[p] \in Present /\ Present' = Present
          \/ Present' = Present \cup {target[p]}

\* The ordinary step of a goroutine.
Ordinary(p) ==
    /\ pc[p] \in Busy
    /\ \E l \in Busy, r \in Results : Turn(p, l, r) /\ Fit(p, l, r) /\ Effect(p, l, r)

\* Nothing but the label and perhaps the result changes.
LEMMA Same ==
    ASSUME Types, NEW p \in Procs, UNCHANGED res
    PROVE  res' = [res EXCEPT ![p] = res[p]]
BY DEF Types

\* Directories that change their content only are still there.
LEMMA SamePresent ==
    ASSUME UNCHANGED disk
    PROVE  Present' = Present
BY DEF Present

\* A directory is removed.
LEMMA RemovedPresent ==
    ASSUME Types, NEW a \in Adapters, disk' = [disk EXCEPT ![a] = None]
    PROVE  Present' = Present \ {a}
BY DEF Present, Types

\* A step that stays in a stage and leaves the directories alone is ordinary.
LEMMA QuietTurn ==
    ASSUME Types, Fits, NEW p \in Procs, NEW l \in Busy, pc[p] \in Busy,
           Goto(p, l), Fit(p, l, res[p]), Stage(l, res[p]) = Stage(pc[p], res[p]),
           UNCHANGED <<disk, flight, revalidating, target, res>>
    PROVE  Ordinary(p)
<1>1. Turn(p, l, res[p]) /\ res[p] \in Results
  BY Same DEF Turn, Goto, Types
<1> QED BY <1>1, SamePresent DEF Ordinary, Effect

\* So is one that gives up.
LEMMA FailedTurn ==
    ASSUME Types, Fits, NEW p \in Procs, NEW l \in Busy, pc[p] \in Busy,
           Goto(p, l), Fit(p, l, "err"), res' = [res EXCEPT ![p] = "err"],
           res[p] # "err",
           UNCHANGED <<disk, flight, revalidating, target>>
    PROVE  Ordinary(p)
<1>1. Turn(p, l, "err") /\ "err" \in Results
  BY DEF Turn, Goto, Results
<1>2. Stage(l, "err") = "failed"
  BY DEF Stage
<1>3. Stage(pc[p], res[p]) \in {"looking", "found"}
  BY DEF Stage, Types, Results
<1> QED BY <1>1, <1>2, <1>3, SamePresent DEF Ordinary, Effect

-----------------------------------------------------------------------------
(* The ordinary steps                                                       *)

\* Store.Has finds the adapter or sends the leader to the origins.
LEMMA CheckHasOrdinary ==
    ASSUME Types, Placed, Fits, NEW p \in Procs, CheckHas(p)
    PROVE  Ordinary(p)
<1>1. /\ pc[p] = "has" /\ "has" \in Busy /\ res[p] = "none" /\ Fit(p, "has", "none")
      /\ UNCHANGED <<disk, flight, revalidating, target>>
  BY DEF CheckHas, Fits, Fit, Looking, Busy, Labels, store, sync
<1>2. CASE Has(target[p]) /\ res' = [res EXCEPT ![p] = "local"] /\ Goto(p, "dirsize")
  <2>1. Turn(p, "dirsize", "local") /\ "local" \in Results /\ "dirsize" \in Busy
    BY <1>1, <1>2 DEF Turn, Goto, Results, Busy, Labels
  <2>2. p \in Requests /\ Fit(p, "dirsize", "local")
    BY <1>1, ProcsAssumption DEF Fit, Procs, Looking
  <2>3. Stage("has", "none") = "looking" /\ Stage("dirsize", "local") = "found"
    BY DEF Stage
  <2>4. target[p] \in Present /\ Present' = Present
    BY <1>1, <1>2, SamePresent DEF Present, Has, Placed
  <2> QED BY <1>1, <2>1, <2>2, <2>3, <2>4 DEF Ordinary, Effect
<1>3. CASE Goto(p, "begin") /\ UNCHANGED res
  <2>1. "begin" \in Busy /\ Fit(p, "begin", "none") /\ Stage("begin", "none") = Stage("has", "none")
    BY <1>1 DEF Fit, Looking, Busy, Labels, Stage
  <2> QED BY <1>1, <1>3, <2>1, QuietTurn
<1> QED BY <1>2, <1>3 DEF CheckHas

\* Store.Touch walks a directory that may have gone.
LEMMA MeasureDirOrdinary ==
    ASSUME Types, Placed, Fits, NEW p \in Procs, MeasureDir(p)
    PROVE  Ordinary(p)
<1>1. /\ pc[p] = "dirsize" /\ "dirsize" \in Busy /\ res[p] \in {"none", "local"}
      /\ Fit(p, "dirsize", res[p])
      /\ UNCHANGED <<disk, flight, revalidating, target>>
  BY DEF MeasureDir, Fits, Fit, Busy, Labels, store, sync
<1>2. CASE /\ res' = [res EXCEPT ![p] = "err"]
           /\ Goto(p, IF res[p] = "local" THEN "return" ELSE "cleanup")
  <2>1. CASE res[p] = "local"
    <3>1. "return" \in Busy /\ Fit(p, "return", "err")
      BY <1>1, <2>1, ProcsAssumption DEF Busy, Labels, Fit, Looking
    <3> QED BY <1>1, <1>2, <2>1, <3>1, FailedTurn
  <2>2. CASE res[p] # "local"
    <3>1. "cleanup" \in Busy /\ Fit(p, "cleanup", "err")
      BY <1>1, ProcsAssumption DEF Busy, Labels, Fit, Looking
    <3> QED BY <1>1, <1>2, <2>2, <3>1, FailedTurn
  <2> QED BY <2>1, <2>2
<1>3. CASE Goto(p, "touch") /\ UNCHANGED res
  <2>1. "touch" \in Busy /\ Fit(p, "touch", res[p]) /\ Stage("touch", res[p]) = Stage("dirsize", res[p])
    BY <1>1 DEF Fit, Looking, Busy, Labels, Stage
  <2> QED BY <1>1, <1>3, <2>1, QuietTurn
<1> QED BY <1>2, <1>3 DEF MeasureDir

\* LRU.Touch ends a fetch, or a hit before its TTL is looked at.
LEMMA TouchOrdinary ==
    ASSUME Types, Placed, Fits, NEW p \in Procs, Touch(p)
    PROVE  Ordinary(p)
<1>1. /\ pc[p] = "touch" /\ "touch" \in Busy /\ res[p] \in {"none", "local"}
      /\ Fit(p, "touch", res[p])
      /\ UNCHANGED <<disk, flight, revalidating, target>>
  BY DEF Touch, Fits, Fit, Busy, Labels, sync
<1>2. CASE res[p] = "local" /\ Goto(p, "readmeta") /\ UNCHANGED res
  <2>1. /\ "readmeta" \in Busy /\ Fit(p, "readmeta", "local")
        /\ Stage("readmeta", "local") = Stage("touch", "local")
    BY <1>1, <1>2, ProcsAssumption DEF Fit, Looking, Busy, Labels, Stage
  <2> QED BY <1>1, <1>2, <2>1, QuietTurn
<1>3. CASE res[p] # "local" /\ res' = [res EXCEPT ![p] = "origin"] /\ Goto(p, "cleanup")
  <2>1. Turn(p, "cleanup", "origin") /\ "cleanup" \in Busy /\ "origin" \in Results
    BY <1>1, <1>3 DEF Turn, Goto, Busy, Labels, Results
  <2>2. Fit(p, "cleanup", "origin") /\ Stage("cleanup", "origin") = Stage("touch", "none")
    BY <1>1 DEF Fit, Looking, Stage
  <2> QED BY <1>1, <1>3, <2>1, <2>2, SamePresent DEF Ordinary, Effect
<1> QED BY <1>2, <1>3 DEF Touch

\* The labels of a fetch that has not failed.
Fetching == {"begin", "info", "cfg", "mdl", "stat", "writemeta", "tmpsize", "evict", "sweep",
             "clear", "rename"}

\* From one label of a fetch to the next.
LEMMA FetchingTurn ==
    ASSUME Fits, NEW p \in Procs, pc[p] \in Fetching, NEW l \in Fetching
    PROVE  /\ pc[p] \in Busy /\ l \in Busy /\ res[p] = "none"
           /\ Fit(p, l, res[p]) /\ Stage(l, res[p]) = Stage(pc[p], res[p])
<1>1. res[p] = "none" /\ p \notin Evictors /\ pc[p] \in Busy /\ l \in Busy
  BY DEF Fits, Fit, Fetching, Looking, Busy, Labels
<1>2. Fit(p, l, "none")
  BY <1>1 DEF Fit, Fetching, Looking
<1>3. Stage(l, "none") = "looking" /\ Stage(pc[p], "none") = "looking"
  BY DEF Stage, Fetching
<1> QED BY <1>1, <1>2, <1>3

\* A step of a fetch that leaves the directories alone.
LEMMA FetchingQuiet ==
    ASSUME Types, Fits, NEW p \in Procs, pc[p] \in Fetching, NEW l \in Fetching,
           Goto(p, l), UNCHANGED <<disk, flight, revalidating, target, res>>
    PROVE  Ordinary(p)
BY FetchingTurn, QuietTurn

\* A fetch that gives up.
LEMMA FetchingFails ==
    ASSUME Types, Fits, NEW p \in Procs, pc[p] \in Fetching, Goto(p, "cleanup"),
           res' = [res EXCEPT ![p] = "err"],
           UNCHANGED <<disk, flight, revalidating, target>>
    PROVE  Ordinary(p)
<1>1. pc[p] \in Busy /\ res[p] = "none" /\ Fit(p, pc[p], res[p])
  BY FetchingTurn
<1>2. "cleanup" \in Busy /\ Fit(p, "cleanup", "err")
  BY <1>1 DEF Fit, Fetching, Looking, Busy, Labels
<1> QED BY <1>1, <1>2, FailedTurn

\* The next origin is tried, or the fetch fails.
LEMMA NextOriginOrdinary ==
    ASSUME Types, Fits, NEW p \in Procs, pc[p] \in Fetching, NextOrigin(p),
           UNCHANGED <<disk, flight, revalidating, target>>
    PROVE  Ordinary(p)
<1>1. CASE Goto(p, FirstCall(org[p] + 1)) /\ UNCHANGED res
  <2>1. FirstCall(org[p] + 1) \in Fetching
    BY DEF FirstCall, Fetching
  <2> QED BY <1>1, <2>1, FetchingQuiet
<1>2. CASE res' = [res EXCEPT ![p] = "err"] /\ Goto(p, "cleanup")
  BY <1>2, FetchingFails
<1> QED BY <1>1, <1>2 DEF NextOrigin

LEMMA BeginFetchOrdinary ==
    ASSUME Types, Placed, Fits, NEW p \in Procs, BeginFetch(p)
    PROVE  Ordinary(p)
<1>1. pc[p] \in Fetching /\ FirstCall(1) \in Fetching
  BY DEF BeginFetch, Fetching, FirstCall
<1> QED BY <1>1, FetchingQuiet DEF BeginFetch, sync

LEMMA DescribeRepoOrdinary ==
    ASSUME Types, Placed, Fits, NEW p \in Procs, DescribeRepo(p)
    PROVE  Ordinary(p)
<1>1. pc[p] \in Fetching /\ "cfg" \in Fetching /\ UNCHANGED <<disk, flight, revalidating, target>>
  BY DEF DescribeRepo, Fetching, store, sync
<1>2. CASE Goto(p, "cfg") /\ UNCHANGED res
  BY <1>1, <1>2, FetchingQuiet
<1>3. CASE NextOrigin(p)
  BY <1>1, <1>3, NextOriginOrdinary
<1> QED BY <1>2, <1>3 DEF DescribeRepo

\* After a file comes the next one, or the check of what was fetched.
LEMMA AfterFileOrdinary ==
    ASSUME Types, Fits, NEW p \in Procs, pc[p] \in Files, AfterFile(p),
           UNCHANGED <<disk, flight, revalidating, target, res>>
    PROVE  Ordinary(p)
<1>1. pc[p] \in Fetching /\ "mdl" \in Fetching /\ "stat" \in Fetching
  BY DEF Files, Fetching
<1> QED BY <1>1, FetchingQuiet DEF AfterFile

LEMMA DownloadOrdinary ==
    ASSUME Types, Placed, Fits, NEW p \in Procs, Download(p)
    PROVE  Ordinary(p)
BY AfterFileOrdinary DEF Download, sync

LEMMA SkipFileOrdinary ==
    ASSUME Types, Placed, Fits, NEW p \in Procs, SkipFile(p)
    PROVE  Ordinary(p)
BY AfterFileOrdinary DEF SkipFile, sync, store

LEMMA BreakFileOrdinary ==
    ASSUME Types, Placed, Fits, NEW p \in Procs, BreakFile(p)
    PROVE  Ordinary(p)
<1>1. pc[p] \in Fetching /\ NextOrigin(p) /\ UNCHANGED <<disk, flight, revalidating, target>>
  BY DEF BreakFile, Fetching, Files, sync
<1> QED BY <1>1, NextOriginOrdinary

LEMMA LoseTmpOrdinary ==
    ASSUME Types, Placed, Fits, NEW p \in Procs, LoseTmp(p)
    PROVE  Ordinary(p)
<1>1. pc[p] \in Fetching /\ NextOrigin(p) /\ UNCHANGED <<disk, flight, revalidating, target>>
  BY DEF LoseTmp, Fetching, Files, sync, store
<1> QED BY <1>1, NextOriginOrdinary

LEMMA CheckFetchedOrdinary ==
    ASSUME Types, Placed, Fits, NEW p \in Procs, CheckFetched(p)
    PROVE  Ordinary(p)
<1>1. /\ pc[p] \in Fetching /\ "writemeta" \in Fetching
      /\ UNCHANGED <<disk, flight, revalidating, target>>
  BY DEF CheckFetched, Fetching, store, sync
<1>2. CASE Goto(p, "writemeta") /\ UNCHANGED res
  BY <1>1, <1>2, FetchingQuiet
<1>3. CASE NextOrigin(p)
  BY <1>1, <1>3, NextOriginOrdinary
<1> QED BY <1>2, <1>3 DEF CheckFetched

LEMMA WriteMetaOrdinary ==
    ASSUME Types, Placed, Fits, NEW p \in Procs, WriteMeta(p)
    PROVE  Ordinary(p)
<1>1. /\ pc[p] \in Fetching /\ "tmpsize" \in Fetching
      /\ UNCHANGED <<disk, flight, revalidating, target>>
  BY DEF WriteMeta, Fetching, sync
<1>2. CASE Goto(p, "tmpsize") /\ UNCHANGED res
  BY <1>1, <1>2, FetchingQuiet
<1>3. CASE res' = [res EXCEPT ![p] = "err"] /\ Goto(p, "cleanup")
  BY <1>1, <1>3, FetchingFails
<1> QED BY <1>2, <1>3 DEF WriteMeta

LEMMA MeasureTmpOrdinary ==
    ASSUME Types, Placed, Fits, NEW p \in Procs, MeasureTmp(p)
    PROVE  Ordinary(p)
<1>1. /\ pc[p] \in Fetching /\ "evict" \in Fetching
      /\ UNCHANGED <<disk, flight, revalidating, target>>
  BY DEF MeasureTmp, Fetching, store, sync
<1>2. CASE Goto(p, "evict") /\ UNCHANGED res
  BY <1>1, <1>2, FetchingQuiet
<1>3. CASE res' = [res EXCEPT ![p] = "err"] /\ Goto(p, "cleanup")
  BY <1>1, <1>3, FetchingFails
<1> QED BY <1>2, <1>3 DEF MeasureTmp

LEMMA EvictOldestOrdinary ==
    ASSUME Types, Placed, Fits, NEW p \in Procs, EvictOldest(p)
    PROVE  Ordinary(p)
<1>1. /\ pc[p] \in Fetching /\ "clear" \in Fetching /\ "sweep" \in Fetching
      /\ UNCHANGED <<disk, flight, revalidating, target, res>>
      /\ Goto(p, "clear") \/ Goto(p, "sweep")
  BY DEF EvictOldest, Fetching, sync
<1> QED BY <1>1, FetchingQuiet

\* A step of a fetch that removes a directory.
LEMMA FetchingRemoves ==
    ASSUME Types, Fits, NEW p \in Procs, pc[p] \in Fetching, NEW l \in Fetching, Goto(p, l),
           NEW a \in Adapters, disk' = [disk EXCEPT ![a] = None],
           UNCHANGED <<flight, revalidating, target, res>>
    PROVE  Ordinary(p)
<1>1. Turn(p, l, res[p]) /\ res[p] \in Results
  BY Same DEF Turn, Goto, Types
<1>2. Present' = Present \ {a}
  BY RemovedPresent
<1> QED BY <1>1, <1>2, FetchingTurn DEF Ordinary, Effect

LEMMA SweepOneOrdinary ==
    ASSUME Types, Placed, Fits, NEW p \in Procs, SweepOne(p)
    PROVE  Ordinary(p)
<1>1. /\ pc[p] \in Fetching /\ "clear" \in Fetching /\ "sweep" \in Fetching
      /\ UNCHANGED <<flight, revalidating, target, res>>
      /\ Goto(p, "clear") \/ Goto(p, "sweep")
      /\ disk' = [disk EXCEPT ![Head(sweep[p])] = None]
  BY DEF SweepOne, Fetching, sync
<1>2. Head(sweep[p]) \in Adapters
  BY HeadTailProperties DEF SweepOne, Types, Placed
<1> QED BY <1>1, <1>2, FetchingRemoves

LEMMA ClearDstOrdinary ==
    ASSUME Types, Placed, Fits, NEW p \in Procs, ClearDst(p)
    PROVE  Ordinary(p)
<1>1. /\ pc[p] \in Fetching /\ "rename" \in Fetching /\ Goto(p, "rename")
      /\ UNCHANGED <<flight, revalidating, target, res>>
      /\ disk' = [disk EXCEPT ![target[p]] = None]
  BY DEF ClearDst, Fetching, sync
<1>2. target[p] \in Adapters
  BY DEF ClearDst, Placed
<1> QED BY <1>1, <1>2, FetchingRemoves

\* The one step that brings a directory: a leader has found, a revalidation is marked.
LEMMA RenameOrdinary ==
    ASSUME Types, Placed, Fits, NEW p \in Procs, Rename(p)
    PROVE  Ordinary(p)
<1>1. /\ pc[p] = "rename" /\ pc[p] \in Fetching /\ UNCHANGED <<flight, revalidating, target>>
      /\ target[p] \in Adapters
  BY DEF Rename, Fetching, sync, Placed
<1>2. CASE /\ tmp[TmpDir(p)] # None
           /\ disk' = [disk EXCEPT ![target[p]] = tmp[TmpDir(p)]]
           /\ Goto(p, "dirsize") /\ UNCHANGED res
  <2>1. pc[p] \in Busy /\ res[p] = "none" /\ Fit(p, pc[p], res[p])
    BY <1>1, FetchingTurn
  <2>2. /\ "dirsize" \in Busy /\ "none" \in Results /\ Fit(p, "dirsize", "none")
        /\ Stage("dirsize", "none") = "found" /\ Stage("rename", "none") = "looking"
    BY <1>1, <2>1 DEF Busy, Labels, Results, Fit, Looking, Stage
  <2>3. Turn(p, "dirsize", "none")
    BY <1>1, <1>2, <2>1, Same DEF Turn, Goto
  <2>4. Present' = Present \cup {target[p]}
    BY <1>1, <1>2 DEF Present, Types
  <2> QED BY <1>1, <2>1, <2>2, <2>3, <2>4 DEF Ordinary, Effect
<1>3. CASE res' = [res EXCEPT ![p] = "err"] /\ Goto(p, "cleanup") /\ UNCHANGED disk
  BY <1>1, <1>3, FetchingFails
<1> QED BY <1>2, <1>3 DEF Rename

LEMMA CleanupOrdinary ==
    ASSUME Types, Placed, Fits, NEW p \in Procs, Cleanup(p)
    PROVE  Ordinary(p)
<1>1. /\ pc[p] = "cleanup" /\ pc[p] \in Busy /\ Fit(p, "cleanup", res[p])
      /\ UNCHANGED <<disk, flight, revalidating, target, res>>
      /\ Goto(p, IF p \in Requests THEN "return" ELSE "unmark")
  BY DEF Cleanup, Fits, Busy, Labels, sync
<1>2. CASE p \in Requests
  <2>1. "return" \in Busy /\ Fit(p, "return", res[p]) /\ Stage("return", res[p]) = Stage("cleanup", res[p])
    BY <1>1, <1>2, ProcsAssumption DEF Busy, Labels, Fit, Looking, Stage
  <2> QED BY <1>1, <1>2, <2>1, QuietTurn
<1>3. CASE p \notin Requests
  <2>1. "unmark" \in Busy /\ Fit(p, "unmark", res[p]) /\ Stage("unmark", res[p]) = Stage("cleanup", res[p])
    BY <1>1, <1>3, ProcsAssumption DEF Busy, Labels, Fit, Looking, Stage
  <2> QED BY <1>1, <1>3, <2>1, QuietTurn
<1> QED BY <1>2, <1>3

LEMMA CheckMetaOrdinary ==
    ASSUME Types, Placed, Fits, NEW p \in Procs, CheckMeta(p)
    PROVE  Ordinary(p)
<1>1. /\ pc[p] = "readmeta" /\ pc[p] \in Busy /\ Fit(p, "readmeta", "local") /\ res[p] = "local"
      /\ UNCHANGED <<disk, flight, revalidating, target, res>>
  BY DEF CheckMeta, Fits, Fit, Busy, Labels, sync, store
<1>2. /\ "mark" \in Busy /\ "return" \in Busy
      /\ Fit(p, "mark", "local") /\ Fit(p, "return", "local")
  BY <1>1 DEF Fit, Busy, Labels, Looking
<1>3. Stage("mark", "local") = Stage("readmeta", "local") /\ Stage("return", "local") = Stage("readmeta", "local")
  BY DEF Stage
<1>4. Goto(p, "mark") \/ Goto(p, "return")
  BY DEF CheckMeta
<1> QED BY <1>1, <1>2, <1>3, <1>4, QuietTurn

\* The labels of a revalidation before its refetch.
LEMMA RevalidationTurn ==
    ASSUME Types, Fits, NEW p \in Procs, pc[p] \in {"head", "refresh"},
           NEW l \in {"head", "refresh", "removelru", "unmark"}
    PROVE  /\ pc[p] \in Busy /\ l \in Busy /\ res[p] = "none"
           /\ Fit(p, l, res[p]) /\ Stage(l, res[p]) = Stage(pc[p], res[p])
<1>1. res[p] = "none" /\ p \in Revalidators /\ p \notin Requests /\ p \notin Evictors
  BY DEF Fits, Fit, Procs
<1>2. pc[p] \in Busy /\ l \in Busy /\ Fit(p, l, "none")
  BY <1>1 DEF Fit, Looking, Busy, Labels
<1>3. Stage(l, "none") = "looking" /\ Stage(pc[p], "none") = "looking"
  BY DEF Stage
<1> QED BY <1>1, <1>2, <1>3

LEMMA HeadOriginOrdinary ==
    ASSUME Types, Placed, Fits, NEW p \in Procs, HeadOrigin(p)
    PROVE  Ordinary(p)
<1>1. pc[p] = "head" /\ UNCHANGED <<disk, flight, revalidating, target, res>>
  BY DEF HeadOrigin, sync, store
<1>2. \E l \in {"head", "refresh", "removelru", "unmark"} : Goto(p, l)
  <2>1. UNCHANGED pc => Goto(p, "head")
    BY <1>1 DEF Goto, Types
  <2> QED BY <2>1 DEF HeadOrigin
<1> QED BY <1>1, <1>2, RevalidationTurn, QuietTurn

\* WriteMeta into a directory brings no directory.
LEMMA RefreshMetaOrdinary ==
    ASSUME Types, Placed, Fits, NEW p \in Procs, RefreshMeta(p)
    PROVE  Ordinary(p)
<1>1. /\ pc[p] = "refresh" /\ Goto(p, "unmark") /\ target[p] \in Adapters
      /\ UNCHANGED <<flight, revalidating, target, res>>
  BY DEF RefreshMeta, sync, Placed
<1>2. Turn(p, "unmark", res[p]) /\ res[p] \in Results
  BY <1>1, Same DEF Turn, Goto, Types
<1>3. Present' = Present
  <2>1. disk'[target[p]] = None <=> disk[target[p]] = None
    <3>1. CASE disk[target[p]] = None
      BY <1>1, <3>1 DEF RefreshMeta, Types
    <3>2. CASE disk[target[p]] # None
      <4>1. disk'[target[p]] \in Dir \cup {None} /\ disk[target[p]] \in Dir
        BY <3>2, <1>1, RefreshMetaType DEF Types
      <4>2. disk'[target[p]] = [disk[target[p]] EXCEPT !.meta = [id |-> cid[p], fresh |-> TRUE]]
        BY <1>1, <3>2 DEF RefreshMeta, Types
      <4>3. [id |-> cid[p], fresh |-> TRUE] \in Meta
        BY DEF Meta, Types
      <4>4. disk'[target[p]] \in Dir
        BY <4>1, <4>2, <4>3 DEF Dir
      <4> QED BY <3>2, <4>4, NoneAssumption
    <3> QED BY <3>1, <3>2
  <2>2. \A a \in Adapters \ {target[p]} : disk'[a] = disk[a]
    BY <1>1 DEF RefreshMeta, Types
  <2> QED BY <1>1, <2>1, <2>2 DEF Present
<1> QED BY <1>1, <1>2, <1>3, RevalidationTurn DEF Ordinary, Effect

LEMMA RemoveFromLRUOrdinary ==
    ASSUME Types, Placed, Fits, NEW p \in Procs, RemoveFromLRU(p)
    PROVE  Ordinary(p)
<1>1. /\ pc[p] = "removelru" /\ pc[p] \in Busy /\ Fit(p, "removelru", "none") /\ res[p] = "none"
      /\ UNCHANGED <<disk, flight, revalidating, target, res>> /\ Goto(p, "removedir")
  BY DEF RemoveFromLRU, Fits, Fit, Busy, Labels, sync
<1>2. "removedir" \in Busy /\ Fit(p, "removedir", "none")
  BY <1>1 DEF Fit, Busy, Labels, Looking
<1>3. Stage("removedir", "none") = Stage("removelru", "none")
  BY DEF Stage
<1> QED BY <1>1, <1>2, <1>3, QuietTurn

LEMMA RemoveDirOrdinary ==
    ASSUME Types, Placed, Fits, NEW p \in Procs, RemoveDir(p), p \in Revalidators
    PROVE  Ordinary(p)
<1>1. /\ pc[p] = "removedir" /\ pc[p] \in Busy /\ Fit(p, "removedir", "none") /\ res[p] = "none"
      /\ UNCHANGED <<flight, revalidating, target, res>> /\ Goto(p, "begin")
      /\ disk' = [disk EXCEPT ![target[p]] = None] /\ target[p] \in Adapters
  BY ProcsAssumption DEF RemoveDir, Fits, Fit, Busy, Labels, sync, Placed
<1>2. "begin" \in Busy /\ Fit(p, "begin", "none") /\ "none" \in Results
  BY <1>1, ProcsAssumption DEF Fit, Busy, Labels, Looking, Results
<1>3. Stage("begin", "none") = Stage("removedir", "none")
  BY DEF Stage
<1>4. Turn(p, "begin", "none")
  BY <1>1, Same DEF Turn, Goto
<1>5. Present' = Present \ {target[p]}
  BY <1>1, RemovedPresent
<1> QED BY <1>1, <1>2, <1>3, <1>4, <1>5 DEF Ordinary, Effect

\* Every step of a goroutine is ordinary, but for those that begin or end something.
LEMMA StepOrdinary ==
    ASSUME Types, Placed, Fits, NEW p \in Procs, Step(p)
    PROVE  \/ Ordinary(p)
           \/ Return(p) \/ Reply(p) \/ MarkRevalidating(p) \/ Unmark(p)
           \/ p \in Evictors /\ RemoveDir(p)
<1>1. RemoveDir(p) => p \in Evictors \/ p \in Revalidators
  BY DEF RemoveDir
<1> QED
  BY <1>1, CheckHasOrdinary, MeasureDirOrdinary, TouchOrdinary, BeginFetchOrdinary,
     DescribeRepoOrdinary, DownloadOrdinary, SkipFileOrdinary, BreakFileOrdinary,
     LoseTmpOrdinary, CheckFetchedOrdinary, WriteMetaOrdinary, MeasureTmpOrdinary,
     EvictOldestOrdinary, SweepOneOrdinary, ClearDstOrdinary, RenameOrdinary, CleanupOrdinary, CheckMetaOrdinary,
     HeadOriginOrdinary, RefreshMetaOrdinary, RemoveFromLRUOrdinary, RemoveDirOrdinary DEF Step

-----------------------------------------------------------------------------
(* The group and the map                                                    *)

Coordinated == Fits /\ SingleFlight /\ SingleRevalidation

\* Kinds of goroutines do not overlap.
LEMMA Kinds ==
    /\ \A p \in Requests : p \in Procs /\ p \notin Revalidators /\ p \notin Evictors /\ p # None
    /\ \A p \in Revalidators : p \in Procs /\ p \notin Requests /\ p \notin Evictors
    /\ \A p \in Evictors : p \in Procs /\ p \notin Requests /\ p \notin Revalidators
BY ProcsAssumption DEF Procs

\* What a step must keep for both to be kept.
LEMMA FlightKept ==
    ASSUME Types, SingleFlight, UNCHANGED flight,
           \A q \in Requests :
              /\ pc'[q] \in {"idle", "wait", "reply"} <=> pc[q] \in {"idle", "wait", "reply"}
              /\ pc'[q] = "wait" => pc[q] = "wait"
              /\ pc[q] \notin {"idle", "reply"} => target'[q] = target[q]
    PROVE  SingleFlight'
<1>1. \A q \in Requests : /\ Leads(q)' <=> Leads(q)
                          /\ Leads(q) => target'[q] = target[q]
  BY DEF Leads
<1>2. \A q \in Requests : Leads(q)' => flight'[target'[q]] = q
  BY <1>1 DEF SingleFlight
<1>3. ASSUME NEW a \in Adapters, flight'[a] # None
      PROVE  Leads(flight[a])' /\ target'[flight'[a]] = a
  <2>1. flight'[a] = flight[a] /\ flight[a] \in Requests
    BY <1>3 DEF Types
  <2>2. Leads(flight[a]) /\ target[flight[a]] = a
    BY <1>3, <2>1 DEF SingleFlight
  <2> QED BY <1>1, <2>1, <2>2
<1>4. \A q \in Requests : pc'[q] = "wait" => flight'[target'[q]] # None
  BY DEF SingleFlight
<1> QED BY <1>2, <1>3, <1>4 DEF SingleFlight

\* The same for the map of revalidations.
LEMMA RevalidationKept ==
    ASSUME SingleRevalidation, UNCHANGED revalidating,
           \A q \in Revalidators : /\ pc'[q] = "idle" <=> pc[q] = "idle"
                                   /\ pc[q] # "idle" => target'[q] = target[q]
    PROVE  SingleRevalidation'
BY DEF SingleRevalidation

\* A step inside ensureInternal or a revalidation leaves both as they are.
LEMMA OrdinaryCoordinated ==
    ASSUME Types, Placed, Coordinated, NEW p \in Procs, Ordinary(p)
    PROVE  Coordinated'
<1>1. PICK l \in Busy, r \in Results : Turn(p, l, r) /\ Fit(p, l, r)
  BY DEF Ordinary
<1>2. /\ \A q \in Procs : pc'[q] = (IF q = p THEN l ELSE pc[q])
      /\ \A q \in Procs : res'[q] = (IF q = p THEN r ELSE res[q])
      /\ flight' = flight /\ revalidating' = revalidating /\ target' = target
  BY <1>1 DEF Turn, Types
<1>3. pc[p] \notin {"idle", "wait", "reply"} /\ l \notin {"idle", "wait", "reply"}
  BY DEF Ordinary, Busy
<1>4. Fits'
  BY <1>1, <1>2 DEF Coordinated, Fits
<1>5. SingleFlight'
  BY <1>2, <1>3, FlightKept, Kinds DEF Coordinated
<1>6. SingleRevalidation'
  BY <1>2, <1>3, RevalidationKept, Kinds DEF Coordinated
<1> QED BY <1>4, <1>5, <1>6 DEF Coordinated

\* The leader takes its entry along and nobody is left waiting for it.
LEMMA ReturnCoordinated ==
    ASSUME Types, Placed, Coordinated, NEW p \in Procs, Return(p)
    PROVE  Coordinated'
<1> DEFINE shared == {q \in Requests : q = p \/ (pc[q] = "wait" /\ target[q] = target[p])}
<1>1. /\ pc[p] = "return" /\ p \in Requests /\ target[p] \in Adapters
      /\ \A q \in Procs : pc'[q] = (IF q \in shared THEN "reply" ELSE pc[q])
      /\ \A q \in Procs : res'[q] = (IF q \in shared THEN res[p] ELSE res[q])
      /\ flight' = [flight EXCEPT ![target[p]] = None]
      /\ UNCHANGED <<revalidating, target>>
  BY Kinds DEF Return, Coordinated, Fits, Fit, Placed, Procs
<1>2. flight[target[p]] = p
  BY <1>1 DEF Coordinated, SingleFlight, Leads
<1>3. Fits'
  <2>1. \A q \in shared : Fit(q, "reply", res[p])
    BY Kinds DEF Fit, Looking
  <2> QED BY <1>1, <2>1 DEF Coordinated, Fits
<1>4. \A q \in Requests : Leads(q)' <=> Leads(q) /\ q # p
  BY <1>1, Kinds DEF Leads
<1>5. SingleFlight'
  <2>1. ASSUME NEW q \in Requests, Leads(q)'
        PROVE  flight'[target'[q]] = q
    <3>1. Leads(q) /\ q # p /\ target[q] \in Adapters
      BY <1>4, <2>1, Kinds DEF Leads, Placed
    <3>2. flight[target[q]] = q /\ target[q] # target[p]
      BY <1>2, <3>1 DEF Coordinated, SingleFlight
    <3> QED BY <1>1, <3>1, <3>2 DEF Types
  <2>2. ASSUME NEW a \in Adapters, flight'[a] # None
        PROVE  Leads(flight[a])' /\ target'[flight'[a]] = a /\ flight'[a] = flight[a]
    <3>1. a # target[p] /\ flight'[a] = flight[a] /\ flight[a] \in Requests
      BY <1>1, <2>2 DEF Types
    <3>2. Leads(flight[a]) /\ target[flight[a]] = a /\ flight[a] # p
      BY <1>1, <3>1, <2>2 DEF Coordinated, SingleFlight
    <3> QED BY <1>1, <1>4, <3>1, <3>2
  <2>3. ASSUME NEW q \in Requests, pc'[q] = "wait"
        PROVE  flight'[target'[q]] # None
    <3>1. pc[q] = "wait" /\ target[q] # target[p] /\ target[q] \in Adapters
      BY <1>1, <2>3, Kinds DEF Placed
    <3> QED BY <1>1, <3>1 DEF Coordinated, SingleFlight, Types
  <2> QED BY <2>1, <2>2, <2>3 DEF SingleFlight
<1>6. SingleRevalidation'
  BY <1>1, RevalidationKept, Kinds DEF Coordinated
<1> QED BY <1>3, <1>5, <1>6 DEF Coordinated

\* A caller with its answer leads nothing and waits for nothing.
LEMMA ReplyCoordinated ==
    ASSUME Types, Placed, Coordinated, NEW p \in Procs, Reply(p)
    PROVE  Coordinated'
<1>1. /\ pc[p] = "reply" /\ p \in Requests
      /\ \A q \in Procs : pc'[q] = (IF q = p THEN "idle" ELSE pc[q])
      /\ \A q \in Procs : res'[q] = (IF q = p THEN "none" ELSE res[q])
      /\ \A q \in Procs \ {p} : target'[q] = target[q]
      /\ UNCHANGED <<flight, revalidating>>
  BY Kinds DEF Reply, End, Goto, sync, Types, Coordinated, Fits, Fit, Procs
<1>2. Fits'
  BY <1>1, Kinds DEF Coordinated, Fits, Fit, Looking
<1>3. SingleFlight'
  BY <1>1, FlightKept, Kinds DEF Coordinated
<1>4. SingleRevalidation'
  BY <1>1, RevalidationKept, Kinds DEF Coordinated
<1> QED BY <1>2, <1>3, <1>4 DEF Coordinated

\* The mark and the goroutine that clears it come together.
LEMMA MarkCoordinated ==
    ASSUME Types, Placed, Coordinated, NEW p \in Procs, MarkRevalidating(p),
           target[p] \notin revalidating
    PROVE  Coordinated'
<1>1. /\ pc[p] = "mark" /\ p \in Requests /\ res[p] = "local" /\ target[p] \in Adapters
      /\ revalidating' = revalidating \cup {target[p]} /\ UNCHANGED <<flight, res>>
  BY Kinds DEF MarkRevalidating, Coordinated, Fits, Fit, Placed, Procs
<1>2. PICK r \in Revalidators :
         /\ pc[r] = "idle"
         /\ pc' = [pc EXCEPT ![p] = "return", ![r] = "head"]
         /\ target' = [target EXCEPT ![r] = target[p]]
  BY DEF MarkRevalidating
<1>3. /\ r \in Procs /\ r # p
      /\ \A q \in Procs : pc'[q] = (IF q = r THEN "head" ELSE IF q = p THEN "return" ELSE pc[q])
      /\ \A q \in Procs : target'[q] = (IF q = r THEN target[p] ELSE target[q])
  BY <1>1, <1>2, Kinds DEF Types
<1>4. Fits'
  <2>1. Fit(r, "head", res[r])
    BY <1>2, <1>3, Kinds DEF Coordinated, Fits, Fit, Looking
  <2>2. Fit(p, "return", res[p])
    BY <1>1, Kinds DEF Fit, Looking
  <2> QED BY <1>1, <1>3, <2>1, <2>2 DEF Coordinated, Fits
<1>6. SingleFlight'
  BY <1>1, <1>3, FlightKept, Kinds DEF Coordinated
<1>7. SingleRevalidation'
  <2>1. \A q \in Revalidators : /\ pc'[q] # "idle" <=> pc[q] # "idle" \/ q = r
                                /\ target'[q] = IF q = r THEN target[p] ELSE target[q]
    BY <1>1, <1>3, Kinds
  <2>2. revalidating' = {target'[q] : q \in {k \in Revalidators : pc'[k] # "idle"}}
    <3>1. revalidating = {target[q] : q \in {k \in Revalidators : pc[k] # "idle"}}
      BY DEF Coordinated, SingleRevalidation
    <3>2. \A x \in revalidating' : \E q \in Revalidators : pc'[q] # "idle" /\ x = target'[q]
      BY <1>1, <1>2, <2>1, <3>1
    <3>3. \A q \in Revalidators : pc'[q] # "idle" => target'[q] \in revalidating'
      BY <1>1, <2>1, <3>1
    <3> QED BY <3>2, <3>3
  <2>3. ASSUME NEW q \in Revalidators, NEW k \in Revalidators,
               pc'[q] # "idle", pc'[k] # "idle", target'[q] = target'[k]
        PROVE  q = k
    <3>1. \A j \in Revalidators : pc[j] # "idle" => target[j] # target[p]
      BY DEF Coordinated, SingleRevalidation
    <3> QED BY <2>1, <2>3, <3>1 DEF Coordinated, SingleRevalidation
  <2> QED BY <2>2, <2>3 DEF SingleRevalidation
<1> QED BY <1>4, <1>6, <1>7 DEF Coordinated

\* A hit on an adapter that is marked only goes on.
LEMMA MarkedOrdinary ==
    ASSUME Types, Placed, Fits, NEW p \in Procs, MarkRevalidating(p), target[p] \in revalidating
    PROVE  Ordinary(p)
<1>1. /\ pc[p] = "mark" /\ pc[p] \in Busy /\ Fit(p, "mark", "local") /\ res[p] = "local"
      /\ UNCHANGED <<disk, flight, revalidating, target, res>> /\ Goto(p, "return")
  BY DEF MarkRevalidating, Fits, Fit, Busy, Labels, store
<1>2. "return" \in Busy /\ Fit(p, "return", "local") /\ Stage("return", "local") = Stage("mark", "local")
  BY <1>1 DEF Fit, Busy, Labels, Looking, Stage
<1> QED BY <1>1, <1>2, QuietTurn

\* The goroutine ends and its mark goes with it.
LEMMA UnmarkCoordinated ==
    ASSUME Types, Placed, Coordinated, NEW p \in Procs, Unmark(p)
    PROVE  Coordinated'
<1>1. /\ pc[p] = "unmark" /\ p \in Revalidators
      /\ \A q \in Procs : pc'[q] = (IF q = p THEN "idle" ELSE pc[q])
      /\ \A q \in Procs : res'[q] = (IF q = p THEN "none" ELSE res[q])
      /\ \A q \in Procs \ {p} : target'[q] = target[q]
      /\ flight' = flight /\ revalidating' = revalidating \ {target[p]}
  BY Kinds DEF Unmark, End, Goto, Types, Coordinated, Fits, Fit, Procs
<1>2. Fits'
  BY <1>1, Kinds DEF Coordinated, Fits, Fit, Looking
<1>4. SingleFlight'
  BY <1>1, FlightKept, Kinds DEF Coordinated
<1>5. SingleRevalidation'
  <2>1. /\ \A q \in Revalidators : pc'[q] # "idle" <=> pc[q] # "idle" /\ q # p
        /\ \A q \in Revalidators \ {p} : target'[q] = target[q]
    BY <1>1, Kinds
  <2>2. \A q \in Revalidators : pc[q] # "idle" /\ q # p => target[q] # target[p]
    BY <1>1 DEF Coordinated, SingleRevalidation
  <2>3. revalidating = {target[q] : q \in {k \in Revalidators : pc[k] # "idle"}}
    BY DEF Coordinated, SingleRevalidation
  <2>4. \A x \in revalidating' : \E q \in Revalidators : pc'[q] # "idle" /\ x = target'[q]
    BY <1>1, <2>1, <2>3
  <2>5. \A q \in Revalidators : pc'[q] # "idle" => target'[q] \in revalidating'
    BY <1>1, <2>1, <2>2, <2>3
  <2>6. revalidating' = {target'[q] : q \in {k \in Revalidators : pc'[k] # "idle"}}
    BY <2>4, <2>5
  <2> QED BY <2>1, <2>6 DEF Coordinated, SingleRevalidation
<1> QED BY <1>2, <1>4, <1>5 DEF Coordinated

\* Evictions have no part in either.
LEMMA EvictorCoordinated ==
    ASSUME Types, Placed, Coordinated, NEW p \in Evictors,
           NEW l \in {"idle", "removelru"}, Goto(p, l), res'[p] = "none",
           \A q \in Procs \ {p} : res'[q] = res[q] /\ target'[q] = target[q],
           UNCHANGED <<flight, revalidating>>
    PROVE  Coordinated'
<1>1. /\ p \in Procs /\ \A q \in Procs : pc'[q] = IF q = p THEN l ELSE pc[q]
  BY Kinds DEF Goto, Types
<1>2. Fits'
  BY <1>1, Kinds DEF Coordinated, Fits, Fit, Looking
<1>3. SingleFlight'
  BY <1>1, FlightKept, Kinds DEF Coordinated
<1>4. SingleRevalidation'
  BY <1>1, RevalidationKept, Kinds DEF Coordinated
<1> QED BY <1>2, <1>3, <1>4 DEF Coordinated

\* The first caller of an adapter becomes its leader, a later one waits for it.
LEMMA EnsureAdapterCoordinated ==
    ASSUME Types, Placed, Coordinated, NEW p \in Requests, NEW a \in Adapters, EnsureAdapter(p, a)
    PROVE  Coordinated'
<1>1. /\ pc[p] = "idle" /\ p \in Procs /\ UNCHANGED <<revalidating, res>>
      /\ \A q \in Procs : target'[q] = (IF q = p THEN a ELSE target[q])
      /\ \A q \in Procs \ {p} : pc'[q] = pc[q]
  BY Kinds DEF EnsureAdapter, Goto, Types
<1>2. \/ flight[a] = None /\ flight' = [flight EXCEPT ![a] = p] /\ pc'[p] = "has"
      \/ flight[a] # None /\ flight' = flight /\ pc'[p] = "wait"
  BY <1>1 DEF EnsureAdapter, Goto, Types
<1>3. Fits'
  <2>1. res[p] = "none"
    BY <1>1 DEF Coordinated, Fits, Fit
  <2>2. Fit(p, "has", "none") /\ Fit(p, "wait", "none")
    BY Kinds DEF Fit, Looking
  <2> QED BY <1>1, <1>2, <2>1, <2>2 DEF Coordinated, Fits
<1>4. \A q \in Requests \ {p} : Leads(q)' <=> Leads(q)
  BY <1>1, Kinds DEF Leads
<1>5. SingleFlight'
  <2>1. CASE flight[a] = None /\ flight' = [flight EXCEPT ![a] = p] /\ pc'[p] = "has"
    <3>1. /\ \A b \in Adapters : flight'[b] = (IF b = a THEN p ELSE flight[b])
          /\ Leads(p)' /\ ~Leads(p)
      BY <1>1, <2>1 DEF Types, Leads
    <3>2. \A q \in Requests \ {p} : Leads(q) => target[q] \in Adapters /\ target[q] # a
      BY <2>1, Kinds DEF Coordinated, SingleFlight, Leads, Placed
    <3>3. \A q \in Requests : Leads(q)' => flight'[target'[q]] = q
      BY <1>1, <1>4, <3>1, <3>2, Kinds DEF Coordinated, SingleFlight
    <3>4. ASSUME NEW b \in Adapters, flight'[b] # None
          PROVE  Leads(flight[b])' /\ target'[flight'[b]] = b
      <4>1. CASE b = a
        BY <1>1, <3>1, <4>1
      <4>2. CASE b # a
        <5>1. flight'[b] = flight[b] /\ flight[b] \in Requests /\ flight[b] \in Procs
          BY <3>1, <3>4, <4>2, Kinds DEF Types
        <5>2. Leads(flight[b]) /\ target[flight[b]] = b
          BY <3>4, <5>1 DEF Coordinated, SingleFlight
        <5> QED BY <1>1, <1>4, <3>1, <5>1, <5>2
      <4> QED BY <4>1, <4>2
    <3>5. \A q \in Requests : pc'[q] = "wait" => flight'[target'[q]] # None
      <4>1. \A q \in Requests : pc'[q] = "wait" => q # p /\ pc[q] = "wait" /\ target[q] \in Adapters
        BY <1>1, <2>1, Kinds DEF Placed
      <4> QED BY <1>1, <3>1, <4>1, Kinds DEF Coordinated, SingleFlight
    <3> QED BY <3>3, <3>4, <3>5 DEF SingleFlight
  <2>2. CASE flight[a] # None /\ flight' = flight /\ pc'[p] = "wait"
    <3>1. ~Leads(p)' /\ ~Leads(p)
      BY <1>1, <2>2 DEF Leads
    <3>2. \A q \in Requests : Leads(q)' => flight'[target'[q]] = q
      BY <1>1, <1>4, <2>2, <3>1, Kinds DEF Coordinated, SingleFlight
    <3>3. ASSUME NEW b \in Adapters, flight'[b] # None
          PROVE  Leads(flight[b])' /\ target'[flight'[b]] = b
      <4>1. flight'[b] = flight[b] /\ flight[b] \in Requests /\ flight[b] \in Procs
        BY <2>2, <3>3, Kinds DEF Types
      <4>2. Leads(flight[b]) /\ target[flight[b]] = b
        BY <3>3, <4>1 DEF Coordinated, SingleFlight
      <4> QED BY <1>1, <1>4, <3>1, <4>1, <4>2
    <3>4. \A q \in Requests : pc'[q] = "wait" => flight'[target'[q]] # None
      BY <1>1, <2>2, Kinds DEF Coordinated, SingleFlight
    <3> QED BY <3>2, <3>3, <3>4 DEF SingleFlight
  <2> QED BY <1>2, <2>1, <2>2
<1>6. SingleRevalidation'
  BY <1>1, RevalidationKept, Kinds DEF Coordinated
<1> QED BY <1>3, <1>5, <1>6 DEF Coordinated

\* Nobody works and nobody waits at the start, and after a crash.
LEMMA RestCoordinated ==
    ASSUME pc = [p \in Procs |-> "idle"], res = [p \in Procs |-> "none"],
           flight = [a \in Adapters |-> None], revalidating = {}
    PROVE  Coordinated
BY Kinds DEF Coordinated, Fits, Fit, Looking, SingleFlight, Leads, SingleRevalidation

\* Steps of the environment touch no goroutine.
LEMMA SameCoordinated ==
    ASSUME Coordinated, UNCHANGED <<pc, res, target, flight, revalidating>>
    PROVE  Coordinated'
BY DEF Coordinated, Fits, Fit, SingleFlight, Leads, SingleRevalidation

\* One case per action of Next.
LEMMA NextCoordinated ==
    ASSUME Types, Placed, Coordinated, [Next]_vars
    PROVE  Coordinated'
<1>1. ASSUME NEW p \in Procs, Step(p)
      PROVE  Coordinated'
  <2>1. Fits
    BY DEF Coordinated
  <2>2. CASE Ordinary(p)
    BY <2>2, OrdinaryCoordinated
  <2>3. CASE Return(p)
    BY <2>3, ReturnCoordinated
  <2>4. CASE Reply(p)
    BY <2>4, ReplyCoordinated
  <2>5. CASE MarkRevalidating(p)
    BY <2>1, <2>5, MarkCoordinated, MarkedOrdinary, OrdinaryCoordinated
  <2>6. CASE Unmark(p)
    BY <2>6, UnmarkCoordinated
  <2>7. CASE p \in Evictors /\ RemoveDir(p)
    <3>1. /\ Goto(p, "idle") /\ res'[p] = "none" /\ UNCHANGED <<flight, revalidating>>
          /\ \A q \in Procs \ {p} : res'[q] = res[q] /\ target'[q] = target[q]
      BY <2>7, Kinds DEF RemoveDir, End, sync, Types
    <3> QED BY <2>7, <3>1, EvictorCoordinated
  <2> QED BY <1>1, <2>1, <2>2, <2>3, <2>4, <2>5, <2>6, <2>7, StepOrdinary
<1>2. ASSUME NEW p \in Evictors, NEW a \in Adapters, EvictAdapter(p, a)
      PROVE  Coordinated'
  <2>1. /\ Goto(p, "removelru") /\ UNCHANGED <<flight, revalidating, res>> /\ pc[p] = "idle"
        /\ \A q \in Procs \ {p} : target'[q] = target[q]
    BY <1>2, Kinds DEF EvictAdapter, sync, Types
  <2>2. res[p] = "none"
    BY <2>1, Kinds DEF Coordinated, Fits, Fit
  <2> QED BY <2>1, <2>2, EvictorCoordinated
<1>3. ASSUME NEW o \in Origins, NEW a \in Adapters, NEW fs \in PublishSets, Publish(o, a, fs)
      PROVE  Coordinated'
  BY <1>3, SameCoordinated DEF Publish, sync
<1>4. ASSUME NEW a \in Adapters, Expire(a)
      PROVE  Coordinated'
  BY <1>4, SameCoordinated DEF Expire, sync
<1>5. CASE Crash
  <2>1. /\ pc' = [p \in Procs |-> "idle"] /\ res' = [p \in Procs |-> "none"]
        /\ flight' = [a \in Adapters |-> None] /\ revalidating' = {}
    BY <1>5 DEF Crash
  <2> QED BY <2>1, Kinds DEF Coordinated, Fits, Fit, Looking, SingleFlight, Leads,
             SingleRevalidation
<1>6. CASE UNCHANGED vars
  BY <1>6, SameCoordinated DEF vars
<1> QED BY <1>1, <1>2, <1>3, <1>4, <1>5, <1>6, EnsureAdapterCoordinated DEF Next

\* All that the theorems rest on.
Kept == Types /\ Placed /\ Coordinated

\* The inductive invariant.
LEMMA AlwaysKept == Spec => []Kept
<1>1. Init => Kept
  <2>1. Init => Coordinated
    BY RestCoordinated DEF Init
  <2> QED BY <2>1, InitType DEF Kept
<1>2. Kept /\ [Next]_vars => Kept'
  BY NextType, NextCoordinated DEF Kept
<1> QED BY <1>1, <1>2, PTL DEF Spec

\* Manager.EnsureAdapter: for any number of goroutines, whatever fails and whenever the
\* node crashes, at most one of them fetches an adapter for those who asked, and
\* whoever waits waits for one that is at work.
THEOREM OneLeader == Spec => []SingleFlight
BY AlwaysKept, PTL DEF Kept, Coordinated

\* Manager.maybeRevalidate: a mark in the map stands for exactly one goroutine that
\* will clear it.
THEOREM OneRevalidation == Spec => []SingleRevalidation
BY AlwaysKept, PTL DEF Kept, Coordinated

-----------------------------------------------------------------------------
(* The refinement                                                           *)

\* A step of AdapterService, or one that it does not see.
ServiceStep == Service!Next \/ UNCHANGED <<Present, Shared, Calls, Asked, revalidating>>

\* The steps for an adapter are steps of the service.
LEMMA AdapterStepIsNext ==
    ASSUME NEW a \in Adapters,
           \/ Service!Find(a) \/ Service!Deliver(a) \/ Service!GiveUp(a) \/ Service!Answer(a)
           \/ Service!BeginRefresh(a) \/ Service!Renew(a) \/ Service!EndRefresh(a)
           \/ Service!Remove(a)
    PROVE  ServiceStep
BY DEF ServiceStep, Service!Next, Service!AdapterStep

\* What a caller sees of other goroutines' turns.
LEMMA CallsKept ==
    ASSUME Types, NEW p \in Procs, NEW l \in Busy, NEW r \in Results, pc[p] \in Busy, Turn(p, l, r)
    PROVE  Calls' = Calls /\ Asked' = Asked
<1>1. \A q \in Requests : CallOf(q)' = CallOf(q)
  <2> SUFFICES ASSUME NEW q \in Requests PROVE CallOf(q)' = CallOf(q)
    OBVIOUS
  <2>1. CASE q = p
    <3>1. pc[q] \notin {"idle", "reply"} /\ pc'[q] \notin {"idle", "reply"}
      BY <2>1 DEF Turn, Busy, Types
    <3> QED BY <3>1 DEF CallOf
  <2>2. CASE q # p
    <3>1. pc'[q] = pc[q] /\ res'[q] = res[q]
      BY <2>2, Kinds DEF Turn, Types
    <3> QED BY <3>1 DEF CallOf
  <2> QED BY <2>1, <2>2
<1> QED BY <1>1 DEF Calls, Asked, Turn

\* A turn of a leader moves the shared call of its adapter, and no other.
LEMMA LeaderTurn ==
    ASSUME Kept, NEW p \in Requests, NEW l \in Busy, NEW r \in Results, pc[p] \in Busy, Turn(p, l, r)
    PROVE  /\ target[p] \in Adapters
           /\ Shared[target[p]] = Stage(pc[p], res[p])
           /\ Shared' = [Shared EXCEPT ![target[p]] = Stage(l, r)]
<1> USE DEF Kept
<1>1. p \in Procs /\ Leads(p) /\ target[p] \in Adapters /\ flight[target[p]] = p /\ p # None
  BY Kinds DEF Busy, Leads, Placed, Coordinated, SingleFlight
<1>2. \A q \in Procs : StageOf(q) = Stage(pc[q], res[q]) /\ StageOf(q)' = Stage(pc'[q], res'[q])
  BY DEF StageOf, Stage
<1>3. /\ pc'[p] = l /\ res'[p] = r /\ flight' = flight /\ target' = target
      /\ \A q \in Procs \ {p} : pc'[q] = pc[q] /\ res'[q] = res[q]
  BY <1>1 DEF Turn, Types
<1>4. \A a \in Adapters \ {target[p]} : flight[a] # p /\ flight[a] \in Requests \cup {None}
  BY <1>1 DEF Coordinated, SingleFlight, Types
<1>5. Shared[target[p]] = Stage(pc[p], res[p]) /\ Shared'[target[p]] = Stage(l, r)
  <2>1. StageOf(flight[target[p]])' = Stage(l, r) /\ flight'[target[p]] # None
    BY <1>1, <1>2, <1>3
  <2>2. Shared'[target[p]] = Stage(l, r)
    BY <1>1, <1>3, <2>1 DEF Shared
  <2> QED BY <1>1, <1>2, <2>2 DEF Shared
<1>6. \A a \in Adapters \ {target[p]} : Shared'[a] = Shared[a]
  <2> SUFFICES ASSUME NEW a \in Adapters \ {target[p]} PROVE Shared'[a] = Shared[a]
    OBVIOUS
  <2>1. CASE flight[a] = None
    BY <1>3, <2>1 DEF Shared
  <2>2. CASE flight[a] # None
    <3>1. flight[a] \in Procs \ {p}
      BY <1>4, <2>2, Kinds
    <3>2. StageOf(flight[a])' = StageOf(flight[a])
      BY <1>2, <1>3, <3>1
    <3> QED BY <1>3, <2>2, <3>2 DEF Shared
  <2> QED BY <2>1, <2>2
<1> QED BY <1>1, <1>5, <1>6 DEF Shared

\* The stages of shared calls that a step does not touch.
LEMMA SharedKept ==
    ASSUME Kept, UNCHANGED flight,
           \A q \in Requests : pc[q] \in Busy =>
              pc'[q] \in Busy /\ Stage(pc'[q], res'[q]) = Stage(pc[q], res[q])
    PROVE  Shared' = Shared
<1> USE DEF Kept
<1>1. \A q \in Procs : StageOf(q) = Stage(pc[q], res[q]) /\ StageOf(q)' = Stage(pc'[q], res'[q])
  BY DEF StageOf, Stage
<1>2. ASSUME NEW a \in Adapters, flight[a] # None
      PROVE  StageOf(flight[a])' = StageOf(flight[a])
  <2>1. flight[a] \in Requests /\ flight[a] \in Procs /\ flight'[a] = flight[a]
    BY <1>2, Kinds DEF Types
  <2>2. pc[flight[a]] \in Busy
    BY <1>2, <2>1 DEF Coordinated, SingleFlight, Leads, Busy, Types
  <2> QED BY <1>1, <2>1, <2>2
<1>3. \A a \in Adapters : Shared'[a] = Shared[a]
  BY <1>2 DEF Shared
<1> QED BY <1>3 DEF Shared

\* An ordinary step moves at most one shared call and the directory it is about.
LEMMA OrdinaryRefines ==
    ASSUME Kept, NEW p \in Procs, Ordinary(p)
    PROVE  ServiceStep
<1>1. PICK l \in Busy, r \in Results : Turn(p, l, r) /\ Fit(p, l, r) /\ Effect(p, l, r)
  BY DEF Ordinary
<1>2. /\ pc[p] \in Busy /\ pc[p] # "idle" /\ target[p] \in Adapters /\ Types
      /\ revalidating' = revalidating
  BY <1>1 DEF Ordinary, Busy, Kept, Placed, Turn
<1>3. Calls' = Calls /\ Asked' = Asked
  BY <1>1, <1>2, CallsKept
<1>4. CASE p \in Requests
  <2>1. /\ Shared[target[p]] = Stage(pc[p], res[p])
        /\ Shared' = [Shared EXCEPT ![target[p]] = Stage(l, r)]
    BY <1>1, <1>2, <1>4, LeaderTurn
  <2>2. CASE Stage(l, r) = Stage(pc[p], res[p])
             /\ (Present' = Present \/ \E a \in Adapters : Present' = Present \ {a})
    <3>1. Shared' = Shared
      BY <2>1, <2>2 DEF Shared
    <3>2. CASE Present' = Present
      BY <1>2, <1>3, <3>1, <3>2 DEF ServiceStep
    <3>3. CASE \E a \in Adapters : Present' = Present \ {a}
      BY <1>2, <1>3, <3>1, <3>3, AdapterStepIsNext DEF Service!Remove
    <3> QED BY <2>2, <3>2, <3>3
  <2>3. CASE /\ Stage(pc[p], res[p]) \in {"looking", "found"} /\ Stage(l, r) = "failed"
             /\ Present' = Present
    <3>1. Service!GiveUp(target[p])
      BY <1>2, <1>3, <2>1, <2>3 DEF Service!GiveUp, Service!Becomes
    <3> QED BY <1>2, <3>1, AdapterStepIsNext
  <2>4. CASE /\ Stage(pc[p], res[p]) = "looking" /\ Stage(l, r) = "found"
             /\ target[p] \in Present /\ Present' = Present
    <3>1. Service!Find(target[p])
      BY <1>2, <1>3, <2>1, <2>4 DEF Service!Find, Service!Becomes
    <3> QED BY <1>2, <3>1, AdapterStepIsNext
  <2>5. CASE /\ Stage(pc[p], res[p]) = "looking" /\ Stage(l, r) = "found"
             /\ Present' = Present \cup {target[p]}
    <3>1. Service!Deliver(target[p])
      BY <1>2, <1>3, <2>1, <2>5 DEF Service!Deliver, Service!Becomes
    <3> QED BY <1>2, <3>1, AdapterStepIsNext
  <2> QED BY <1>1, <2>2, <2>3, <2>4, <2>5 DEF Effect
<1>5. CASE p \notin Requests
  <2>1. Shared' = Shared
    <3>1. \A q \in Requests : pc'[q] = pc[q] /\ res'[q] = res[q]
      BY <1>1, <1>2, <1>5, Kinds DEF Turn, Types
    <3>2. UNCHANGED flight
      BY <1>1 DEF Turn
    <3> QED BY <3>1, <3>2, SharedKept
  <2>2. CASE Present' = Present
    BY <1>2, <1>3, <2>1, <2>2 DEF ServiceStep
  <2>3. CASE \E a \in Adapters : Present' = Present \ {a}
    BY <1>2, <1>3, <2>1, <2>3, AdapterStepIsNext DEF Service!Remove
  <2>4. CASE /\ Stage(pc[p], res[p]) = "looking" /\ Stage(l, r) = "found"
             /\ Present' = Present \cup {target[p]}
    <3>1. p \notin Evictors
      BY <1>1, <2>4 DEF Fit, Stage
    <3>2. p \in Revalidators /\ target[p] \in revalidating
      BY <1>2, <1>5, <3>1 DEF Procs, Kept, Coordinated, SingleRevalidation
    <3>3. Service!Renew(target[p])
      BY <1>2, <1>3, <2>1, <2>4, <3>2 DEF Service!Renew
    <3> QED BY <1>2, <3>3, AdapterStepIsNext
  <2> QED BY <1>1, <2>2, <2>3, <2>4 DEF Effect
<1> QED BY <1>4, <1>5

\* The shared call ends: everybody who waits for it gets what its leader got.
LEMMA ReturnRefines ==
    ASSUME Kept, NEW p \in Procs, Return(p)
    PROVE  ServiceStep
<1> DEFINE a == target[p]
           shared == {q \in Requests : q = p \/ (pc[q] = "wait" /\ target[q] = a)}
<1>1. /\ pc[p] = "return" /\ p \in Requests /\ a \in Adapters
      /\ \A q \in Procs : pc'[q] = (IF q \in shared THEN "reply" ELSE pc[q])
      /\ \A q \in Procs : res'[q] = (IF q \in shared THEN res[p] ELSE res[q])
      /\ \A b \in Adapters : flight'[b] = (IF b = a THEN None ELSE flight[b])
      /\ UNCHANGED <<disk, revalidating, target>>
  BY Kinds DEF Return, Kept, Coordinated, Fits, Fit, Placed, Procs, Types, store
<1>2. flight[a] = p /\ p # None /\ res[p] \in {"local", "origin", "err"}
  <2>1. flight[a] = p /\ p # None
    BY <1>1, Kinds DEF Kept, Coordinated, SingleFlight, Leads
  <2>2. res[p] \in Results /\ res[p] # "none"
    BY <1>1 DEF Kept, Coordinated, Fits, Fit, Types
  <2> QED BY <2>1, <2>2 DEF Results
<1>3. Shared[a] = (IF res[p] = "err" THEN "failed" ELSE "found")
  BY <1>1, <1>2 DEF Shared, StageOf
<1>4. Shared' = [Shared EXCEPT ![a] = "none"]
  <2>1. ASSUME NEW b \in Adapters, b # a, flight[b] # None
        PROVE  StageOf(flight[b])' = StageOf(flight[b])
    <3>1. flight[b] \in Requests /\ flight[b] \in Procs /\ flight'[b] = flight[b]
      BY <1>1, <2>1, Kinds DEF Kept, Types
    <3>2. flight[b] \notin shared
      BY <1>1, <1>2, <2>1, <3>1 DEF Kept, Coordinated, SingleFlight, Leads
    <3>3. pc'[flight[b]] = pc[flight[b]] /\ res'[flight[b]] = res[flight[b]]
      BY <1>1, <3>1, <3>2
    <3> QED BY <3>1, <3>3 DEF StageOf
  <2>2. \A b \in Adapters : Shared'[b] = IF b = a THEN "none" ELSE Shared[b]
    BY <1>1, <2>1 DEF Shared
  <2> QED BY <1>1, <2>2 DEF Shared
<1>5. \A q \in Requests : Calls'[q] = IF Calls[q] = "waiting" /\ Asked[q] = a
                                      THEN IF Shared[a] = "found" THEN "ok" ELSE "err"
                                      ELSE Calls[q]
  <2> SUFFICES ASSUME NEW q \in Requests
               PROVE  CallOf(q)' = IF CallOf(q) = "waiting" /\ target[q] = a
                                   THEN IF Shared[a] = "found" THEN "ok" ELSE "err"
                                   ELSE CallOf(q)
    BY DEF Calls, Asked
  <2>1. CASE q \in shared
    <3>1. pc'[q] = "reply" /\ res'[q] = res[p] /\ pc[q] \notin {"idle", "reply"} /\ target[q] = a
      BY <1>1, <2>1, Kinds
    <3>2. CallOf(q) = "waiting"
      BY <3>1 DEF CallOf
    <3>3. CallOf(q)' = IF res[p] = "err" THEN "err" ELSE "ok"
      BY <3>1 DEF CallOf
    <3> QED BY <1>3, <3>1, <3>2, <3>3
  <2>2. CASE q \notin shared
    <3>1. pc'[q] = pc[q] /\ res'[q] = res[q]
      BY <1>1, <2>2, Kinds
    <3>2. CallOf(q) = "waiting" => target[q] # a
      <4>1. CASE pc[q] = "wait"
        BY <2>2, <4>1
      <4>2. CASE pc[q] \in {"idle", "reply"}
        BY <4>2 DEF CallOf
      <4>3. CASE pc[q] \notin {"idle", "reply", "wait"}
        BY <1>2, <2>2, <4>3 DEF Kept, Coordinated, SingleFlight, Leads
      <4> QED BY <4>1, <4>2, <4>3
    <3> QED BY <3>1, <3>2 DEF CallOf
  <2> QED BY <2>1, <2>2
<1>6. Calls' = [q \in Requests |-> IF Calls[q] = "waiting" /\ Asked[q] = a
                                  THEN IF Shared[a] = "found" THEN "ok" ELSE "err"
                                  ELSE Calls[q]]
  BY <1>5 DEF Calls
<1>7. Present' = Present /\ Asked' = Asked /\ revalidating' = revalidating
  BY <1>1 DEF Present, Asked
<1>8. Service!Answer(a)
  BY <1>3, <1>4, <1>6, <1>7 DEF Service!Answer, Service!Becomes
<1> QED BY <1>1, <1>8, AdapterStepIsNext

\* The caller goes on with the answer.
LEMMA ReplyRefines ==
    ASSUME Kept, NEW p \in Procs, Reply(p)
    PROVE  ServiceStep
<1>1. /\ pc[p] = "reply" /\ p \in Requests
      /\ \A q \in Procs : pc'[q] = (IF q = p THEN "idle" ELSE pc[q])
      /\ \A q \in Procs : res'[q] = (IF q = p THEN "none" ELSE res[q])
      /\ \A q \in Procs : target'[q] = (IF q = p THEN None ELSE target[q])
      /\ UNCHANGED <<flight, revalidating, disk>>
  BY Kinds DEF Reply, End, Goto, sync, store, Kept, Types, Coordinated, Fits, Fit, Procs
<1>2. Shared' = Shared
  <2>1. \A q \in Requests : pc[q] \in Busy => pc'[q] = pc[q] /\ res'[q] = res[q]
    BY <1>1, Kinds DEF Busy
  <2> QED BY <1>1, <2>1, SharedKept
<1>3. CallOf(p) \in {"ok", "err"} /\ CallOf(p)' = "idle"
  BY <1>1, Kinds DEF CallOf
<1>4. \A q \in Requests \ {p} : CallOf(q)' = CallOf(q) /\ target'[q] = target[q]
  BY <1>1, Kinds DEF CallOf
<1>5. /\ Calls' = [Calls EXCEPT ![p] = "idle"] /\ Calls[p] \in {"ok", "err"}
      /\ Asked' = [Asked EXCEPT ![p] = None]
  BY <1>1, <1>3, <1>4, Kinds DEF Calls, Asked
<1>6. Present' = Present
  BY <1>1, SamePresent
<1>7. Service!Leave(p)
  BY <1>1, <1>2, <1>5, <1>6 DEF Service!Leave
<1> QED BY <1>1, <1>7 DEF ServiceStep, Service!Next

\* Goroutines other than requests are not seen by callers.
LEMMA CallersKept ==
    ASSUME Kept, UNCHANGED flight,
           \A q \in Requests : pc'[q] = pc[q] /\ res'[q] = res[q] /\ target'[q] = target[q]
    PROVE  Shared' = Shared /\ Calls' = Calls /\ Asked' = Asked
<1>1. Shared' = Shared
  BY SharedKept
<1>2. \A q \in Requests : CallOf(q)' = CallOf(q)
  BY DEF CallOf
<1> QED BY <1>1, <1>2 DEF Calls, Asked

\* A hit starts a revalidation.
LEMMA MarkRefines ==
    ASSUME Kept, NEW p \in Procs, MarkRevalidating(p), target[p] \notin revalidating
    PROVE  ServiceStep
<1>1. /\ pc[p] = "mark" /\ p \in Requests /\ res[p] = "local" /\ target[p] \in Adapters
      /\ revalidating' = revalidating \cup {target[p]} /\ UNCHANGED <<flight, res, disk>>
  BY Kinds DEF MarkRevalidating, Kept, Coordinated, Fits, Fit, Placed, Procs, store
<1>2. PICK r \in Revalidators : /\ pc' = [pc EXCEPT ![p] = "return", ![r] = "head"]
                               /\ target' = [target EXCEPT ![r] = target[p]]
  BY DEF MarkRevalidating
<1>3. \A q \in Requests : pc'[q] = (IF q = p THEN "return" ELSE pc[q]) /\ target'[q] = target[q]
  BY <1>1, <1>2, Kinds DEF Kept, Types
<1>4. Shared' = Shared
  <2>1. "return" \in Busy /\ Stage("return", "local") = Stage("mark", "local")
    BY DEF Busy, Labels, Stage
  <2> QED BY <1>1, <1>3, <2>1, SharedKept
<1>5. Calls' = Calls /\ Asked' = Asked
  <2>1. \A q \in Requests : CallOf(q)' = CallOf(q)
    BY <1>1, <1>3 DEF CallOf
  <2> QED BY <1>3, <2>1 DEF Calls, Asked
<1>6. Shared[target[p]] = "found"
  <2>1. flight[target[p]] = p /\ p # None
    BY <1>1, Kinds DEF Kept, Coordinated, SingleFlight, Leads
  <2> QED BY <1>1, <2>1 DEF Shared, StageOf
<1>7. Service!BeginRefresh(target[p])
  BY <1>1, <1>4, <1>5, <1>6, SamePresent DEF Service!BeginRefresh
<1> QED BY <1>1, <1>7, AdapterStepIsNext

\* A refresh ends.
LEMMA UnmarkRefines ==
    ASSUME Kept, NEW p \in Procs, Unmark(p)
    PROVE  ServiceStep
<1>1. /\ pc[p] = "unmark" /\ p \in Revalidators /\ target[p] \in Adapters
      /\ \A q \in Procs \ {p} : pc'[q] = pc[q] /\ res'[q] = res[q] /\ target'[q] = target[q]
      /\ UNCHANGED <<flight, disk>> /\ revalidating' = revalidating \ {target[p]}
  BY Kinds DEF Unmark, End, Goto, store, Kept, Types, Placed, Coordinated, Fits, Fit, Procs
<1>2. target[p] \in revalidating
  BY <1>1 DEF Kept, Coordinated, SingleRevalidation
<1>3. Shared' = Shared /\ Calls' = Calls /\ Asked' = Asked
  BY <1>1, CallersKept, Kinds
<1>4. Service!EndRefresh(target[p])
  BY <1>1, <1>2, <1>3, SamePresent DEF Service!EndRefresh
<1> QED BY <1>1, <1>4, AdapterStepIsNext

\* An eviction takes its directory away and ends.
LEMMA EvictorRefines ==
    ASSUME Kept, NEW p \in Evictors, RemoveDir(p)
    PROVE  ServiceStep
<1>1. /\ p \in Procs /\ target[p] \in Adapters /\ disk' = [disk EXCEPT ![target[p]] = None]
      /\ \A q \in Procs \ {p} : pc'[q] = pc[q] /\ res'[q] = res[q] /\ target'[q] = target[q]
      /\ UNCHANGED <<flight, revalidating>>
  BY Kinds DEF RemoveDir, End, Goto, sync, Kept, Types, Placed
<1>2. Shared' = Shared /\ Calls' = Calls /\ Asked' = Asked
  BY <1>1, CallersKept, Kinds
<1>3. Present' = Present \ {target[p]}
  BY <1>1, RemovedPresent DEF Kept
<1>4. Service!Remove(target[p])
  BY <1>1, <1>2, <1>3 DEF Service!Remove
<1> QED BY <1>1, <1>4, AdapterStepIsNext

\* The first caller begins the shared call, a later one joins it.
LEMMA EnsureAdapterRefines ==
    ASSUME Kept, NEW p \in Requests, NEW a \in Adapters, EnsureAdapter(p, a)
    PROVE  ServiceStep
<1>1. /\ pc[p] = "idle" /\ p \in Procs /\ UNCHANGED <<revalidating, res, disk>> /\ res[p] = "none"
      /\ \A q \in Procs : target'[q] = (IF q = p THEN a ELSE target[q])
      /\ \A q \in Procs \ {p} : pc'[q] = pc[q]
      /\ pc'[p] \in {"has", "wait"}
  BY Kinds DEF EnsureAdapter, Goto, Kept, Types, Coordinated, Fits, Fit, store
<1>2. /\ Calls[p] = "idle" /\ Calls' = [Calls EXCEPT ![p] = "waiting"]
      /\ Asked' = [Asked EXCEPT ![p] = a]
  <2>1. CallOf(p) = "idle" /\ CallOf(p)' = "waiting"
    BY <1>1 DEF CallOf
  <2>2. \A q \in Requests \ {p} : CallOf(q)' = CallOf(q) /\ target'[q] = target[q]
    BY <1>1, Kinds DEF CallOf
  <2> QED BY <1>1, <2>1, <2>2, Kinds DEF Calls, Asked
<1>3. ASSUME NEW b \in Adapters, flight[b] # None
      PROVE  StageOf(flight[b]) # "none" /\ flight[b] \in Requests /\ flight[b] # p
  <2>1. flight[b] \in Requests /\ flight[b] # p
    BY <1>1, <1>3 DEF Kept, Types, Coordinated, SingleFlight, Leads
  <2> QED BY <2>1 DEF StageOf
<1>4. CASE flight[a] = None /\ flight' = [flight EXCEPT ![a] = p] /\ Goto(p, "has")
  <2>1. \A b \in Adapters : flight'[b] = IF b = a THEN p ELSE flight[b]
    BY <1>4 DEF Kept, Types
  <2>2. pc'[p] = "has"
    BY <1>1, <1>4 DEF Goto, Kept, Types
  <2>3. Shared[a] = "none"
    BY <1>4 DEF Shared
  <2>4. Shared'[a] = "looking"
    <3>1. StageOf(flight[a])' = "looking"
      BY <1>1, <2>1, <2>2 DEF StageOf
    <3> QED BY <2>1, <3>1, Kinds DEF Shared
  <2>5. \A b \in Adapters \ {a} : Shared'[b] = Shared[b]
    <3> SUFFICES ASSUME NEW b \in Adapters \ {a} PROVE Shared'[b] = Shared[b]
      OBVIOUS
    <3>1. CASE flight[b] = None
      BY <2>1, <3>1 DEF Shared
    <3>2. CASE flight[b] # None
      <4>1. StageOf(flight[b])' = StageOf(flight[b])
        BY <1>1, <1>3, <2>1, <3>2, Kinds DEF StageOf
      <4> QED BY <2>1, <3>2, <4>1 DEF Shared
    <3> QED BY <3>1, <3>2
  <2>6. Shared' = [Shared EXCEPT ![a] = "looking"]
    BY <2>4, <2>5 DEF Shared
  <2>7. Service!Call(p, a)
    BY <1>1, <1>2, <2>3, <2>6, SamePresent DEF Service!Call, Service!Becomes
  <2> QED BY <2>7 DEF ServiceStep, Service!Next
<1>5. CASE flight[a] # None /\ UNCHANGED flight
  <2>1. Shared[a] # "none"
    BY <1>3, <1>5 DEF Shared
  <2>2. Shared' = Shared
    <3>1. \A q \in Requests : pc[q] \in Busy => pc'[q] = pc[q] /\ res'[q] = res[q]
      BY <1>1, Kinds DEF Busy
    <3> QED BY <1>5, <3>1, SharedKept
  <2>3. Service!Call(p, a)
    BY <1>1, <1>2, <2>1, <2>2, SamePresent DEF Service!Call, Service!Becomes
  <2> QED BY <2>3 DEF ServiceStep, Service!Next
<1> QED BY <1>4, <1>5 DEF EnsureAdapter

\* A crash takes files out of a directory and leaves the directory.
LEMMA CrashPresent ==
    ASSUME Types, Crash
    PROVE  Present' = Present
<1>1. ASSUME NEW a \in Adapters, NEW d \in Debris(a)
      PROVE  d = None <=> disk[a] = None
  <2>1. CASE disk[a] = None
    BY <1>1, <2>1 DEF Debris
  <2>2. CASE disk[a] # None
    <3>1. disk[a] \in Dir
      BY <2>2 DEF Types
    <3>2. [cfg : {disk[a].cfg, None}, mdl : {disk[a].mdl, None}, meta : {disk[a].meta, None}]
            \subseteq Dir
      BY <3>1 DEF Dir
    <3>3. [disk[a] EXCEPT !.meta = None] \in Dir
      BY <3>1 DEF Dir
    <3>4. d \in Dir
      BY <1>1, <3>1, <3>2, <3>3 DEF Debris
    <3> QED BY <2>2, <3>4, NoneAssumption
  <2> QED BY <2>1, <2>2
<1>2. \A a \in Adapters : disk'[a] \in Debris(a)
  BY DEF Crash
<1> QED BY <1>1, <1>2 DEF Present

\* A crash ends every call and may lose directories.
LEMMA CrashRefines ==
    ASSUME Kept, Crash
    PROVE  ServiceStep
<1>1. /\ flight' = [a \in Adapters |-> None] /\ revalidating' = {}
      /\ pc' = [p \in Procs |-> "idle"] /\ target' = [p \in Procs |-> None]
  BY DEF Crash
<1>2. Shared' = [a \in Adapters |-> IF a \in Adapters THEN "none" ELSE Shared[a]]
  BY <1>1 DEF Shared
<1>3. \A q \in Requests : /\ CallOf(q)' = IF target[q] \in Adapters THEN "idle" ELSE CallOf(q)
                          /\ target'[q] = IF target[q] \in Adapters THEN None ELSE target[q]
  <2> SUFFICES ASSUME NEW q \in Requests
               PROVE  /\ CallOf(q)' = IF target[q] \in Adapters THEN "idle" ELSE CallOf(q)
                      /\ target'[q] = IF target[q] \in Adapters THEN None ELSE target[q]
    OBVIOUS
  <2>1. q \in Procs /\ pc'[q] = "idle" /\ target'[q] = None
    BY <1>1, Kinds
  <2>2. CallOf(q)' = "idle"
    BY <2>1 DEF CallOf
  <2>3. target[q] \notin Adapters => target[q] = None /\ pc[q] = "idle"
    BY <2>1 DEF Kept, Types, Placed
  <2>4. pc[q] = "idle" => CallOf(q) = "idle"
    BY DEF CallOf
  <2> QED BY <2>1, <2>2, <2>3, <2>4
<1>4. /\ Calls' = [q \in Requests |-> IF Asked[q] \in Adapters THEN "idle" ELSE Calls[q]]
      /\ Asked' = [q \in Requests |-> IF Asked[q] \in Adapters THEN None ELSE Asked[q]]
  BY <1>3 DEF Calls, Asked
<1>5. revalidating' = revalidating \ Adapters
  BY <1>1 DEF Kept, Types
<1>6. Service!Restart(Adapters)
  BY <1>2, <1>4, <1>5, CrashPresent DEF Kept, Service!Restart
<1> QED BY <1>6 DEF ServiceStep, Service!Next

\* The TTL of a directory runs out; it stays a directory.
LEMMA ExpirePresent ==
    ASSUME Types, NEW a \in Adapters, Expire(a)
    PROVE  Present' = Present
<1>1. disk[a] \in Dir /\ disk[a] # None /\ disk[a].meta \in Meta
  BY DEF Expire, Types, Dir
<1>2. disk'[a] = [disk[a] EXCEPT !.meta = [disk[a].meta EXCEPT !.fresh = FALSE]]
  BY DEF Expire, Types
<1>3. [disk[a].meta EXCEPT !.fresh = FALSE] \in Meta
  BY <1>1 DEF Meta
<1>4. disk'[a] \in Dir
  BY <1>1, <1>2, <1>3 DEF Dir
<1>5. \A b \in Adapters \ {a} : disk'[b] = disk[b]
  BY DEF Expire, Types
<1> QED BY <1>1, <1>4, <1>5, NoneAssumption DEF Present

\* Every step of the manager is a step of the service or none of its business.
LEMMA NextRefines ==
    ASSUME Kept, [Next]_vars
    PROVE  ServiceStep
<1>0. Types /\ Placed /\ Coordinated /\ Fits
  BY DEF Kept, Coordinated
<1>1. ASSUME NEW p \in Procs, Step(p)
      PROVE  ServiceStep
  <2>1. MarkRevalidating(p) => Ordinary(p) \/ target[p] \notin revalidating
    BY <1>0, MarkedOrdinary
  <2> QED BY <1>0, <1>1, <2>1, StepOrdinary, OrdinaryRefines, ReturnRefines, ReplyRefines,
             MarkRefines, UnmarkRefines, EvictorRefines
<1>2. ASSUME NEW p \in Evictors, NEW a \in Adapters, EvictAdapter(p, a)
      PROVE  ServiceStep
  <2>1. /\ \A q \in Procs \ {p} : pc'[q] = pc[q] /\ res'[q] = res[q] /\ target'[q] = target[q]
        /\ UNCHANGED <<flight, revalidating, disk>>
    BY <1>0, <1>2 DEF EvictAdapter, Goto, sync, store, Types
  <2>2. Shared' = Shared /\ Calls' = Calls /\ Asked' = Asked
    BY <2>1, CallersKept, Kinds
  <2> QED BY <2>1, <2>2, SamePresent DEF ServiceStep
<1>3. ASSUME NEW o \in Origins, NEW a \in Adapters, NEW fs \in PublishSets, Publish(o, a, fs)
      PROVE  ServiceStep
  <2>1. UNCHANGED <<pc, res, target, flight, revalidating, disk>>
    BY <1>3 DEF Publish, sync, store
  <2> QED BY <2>1, CallersKept, SamePresent DEF ServiceStep
<1>4. ASSUME NEW a \in Adapters, Expire(a)
      PROVE  ServiceStep
  <2>1. UNCHANGED <<pc, res, target, flight, revalidating>>
    BY <1>4 DEF Expire, sync
  <2> QED BY <1>0, <1>4, <2>1, CallersKept, ExpirePresent DEF ServiceStep
<1>5. CASE UNCHANGED vars
  <2>1. UNCHANGED <<pc, res, target, flight, revalidating, disk>>
    BY <1>5 DEF vars
  <2> QED BY <2>1, CallersKept, SamePresent DEF ServiceStep
<1> QED BY <1>1, <1>2, <1>3, <1>4, <1>5, EnsureAdapterRefines, CrashRefines DEF Next

\* The manager starts with directories and nothing under way, as the service does.
LEMMA InitRefines ==
    ASSUME Init
    PROVE  Service!Init
<1>1. \A q \in Requests : CallOf(q) = "idle" /\ target[q] = None
  BY Kinds DEF Init, CallOf
<1> QED BY <1>1 DEF Init, Service!Init, Present, Shared, Calls, Asked

\* Manager keeps AdapterService's promise: in every interleaving, with every failure
\* and crash, callers of EnsureAdapter see overlapping calls share one answer, "ok"
\* only for an adapter that was there, and adapters appear only through a shared call
\* or a refresh that is under way.
THEOREM ManagerKeepsPromise == Spec => ImplementsService
<1>1. Init => Service!Init
  BY InitRefines
<1>2. Kept /\ [Next]_vars => [Service!Next]_(Service!service)
  BY NextRefines DEF ServiceStep, Service!service
<1> QED BY <1>1, <1>2, AlwaysKept, PTL DEF Spec, ImplementsService, Service!Spec

=============================================================================
