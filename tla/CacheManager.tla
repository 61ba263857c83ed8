---------------------------- MODULE CacheManager ----------------------------
(***************************************************************************)
(* The adapter cache of one loraplex node: Manager (manager.go), the Store *)
(* it keeps on disk (store.go), the LRU index (lru.go, module LRU), the    *)
(* .loraplex_meta files (meta.go) and the origins' Fetch and Head          *)
(* (internal/origin).                                                      *)
(*                                                                         *)
(* A process is a goroutine: one that serves a request and calls           *)
(* EnsureAdapter, one that maybeRevalidate starts, or one that serves      *)
(* POST /admin/cache/evict.  A step is one filesystem call, one critical   *)
(* section (of the LRU's mutex, revalMu or the singleflight group) or one  *)
(* call to an origin; between two steps of a goroutine any other goroutine *)
(* may run.                                                                *)
(*                                                                         *)
(* Simplifications:                                                        *)
(*  - os.RemoveAll, the walk of dirSize and the download of one file into  *)
(*    the temporary directory are atomic; a download that breaks leaves a  *)
(*    torn file (version 0).                                               *)
(*  - The two weight files an origin may serve (.safetensors, .bin) are    *)
(*    one file "mdl"; .loraplex_meta has no size of its own.               *)
(*  - Adapters are IDs that ValidateAdapterID accepts and none of which is *)
(*    a path prefix of another.                                            *)
(*  - Local I/O errors other than a missing file or directory do not       *)
(*    happen; a canceled or expired context is a failed call to an origin. *)
(***************************************************************************)
EXTENDS LRU

CONSTANTS
    Requests,       \* goroutines that call EnsureAdapter
    Revalidators,   \* goroutines that maybeRevalidate can start
    Evictors,       \* goroutines that serve /admin/cache/evict
    None,           \* no file, no directory, no adapter, no goroutine
    TmpDirs,        \* the ".tmp-<safeID>" names
    TmpOf,          \* TmpOf[a]: ".tmp-" and a with "/" replaced by "__"; not injective
    OriginKinds,    \* Manager.origins: "http", "noetag", "huggingface" or "s3"
    FirstContents,  \* what an origin may serve for an adapter at first
    PublishSets,    \* the sets of files an author replaces at once
    Revalidate,     \* invalidation.ttl > 0
    ConfigSize,     \* size of adapter_config.json
    WeightSize,     \* WeightSize[a]: size of a's weight file
    MaxVersion,     \* bound: versions of a file at an origin
    MaxFailures,    \* bound: failed calls to an origin
    MaxCrashes      \* bound: crashes of the node

Procs   == Requests \cup Revalidators \cup Evictors
Origins == 1..Len(OriginKinds)
Files   == {"cfg", "mdl"}
Content == [Files -> 0..MaxVersion]     \* 0: the origin answers 404

ASSUME ProcsAssumption ==
    /\ Requests \cap Revalidators = {}
    /\ Requests \cap Evictors = {}
    /\ Revalidators \cap Evictors = {}
    /\ None \notin Procs \cup Adapters

ASSUME CacheAssumption ==
    /\ IsFiniteSet(Adapters)
    /\ TmpOf \in [Adapters -> TmpDirs]
    /\ OriginKinds \in Seq({"http", "noetag", "huggingface", "s3"})
    /\ Len(OriginKinds) > 0
    /\ FirstContents \subseteq Content
    /\ PublishSets \subseteq SUBSET Files
    /\ Revalidate \in BOOLEAN
    /\ ConfigSize \in Nat
    /\ WeightSize \in [Adapters -> Nat]
    /\ MaxVersion \in Nat
    /\ MaxFailures \in Nat
    /\ MaxCrashes \in Nat

(***************************************************************************)
(* A file is the adapter it was downloaded for and its version.  A content *)
(* ID is an ETag <<version of the config>>, a commit <<both versions>>, or *)
(* empty.  A meta file is a content ID and whether its TTL is running.     *)
(***************************************************************************)
File == [ad : Adapters, ver : 0..MaxVersion]
NoID == <<>>
Meta == [id : Seq(0..MaxVersion), fresh : BOOLEAN]
Dir  == [cfg : File \cup {None}, mdl : File \cup {None}, meta : Meta \cup {None}]
EmptyDir == [cfg |-> None, mdl |-> None, meta |-> None]

ASSUME NoneAssumption == None \notin Dir \cup File

VARIABLES
    content,        \* content[o][a]: the versions origin o serves for a
    disk,           \* disk[a]: the directory BasePath/a
    tmp,            \* tmp[t]: the directory BasePath/t
    lru,            \* Store.lru
    flight,         \* flight[a]: the goroutine running the singleflight call
    revalidating,   \* Manager.revalidating
    pc, target,     \* where each goroutine is, and for which adapter
    res,            \* result of its ensureInternal or fetchFromOrigin
    org,            \* the origin being tried
    got,            \* its files: those fetched so far, or all that S3 listed
    cid,            \* content ID held: of a Fetch, or of the meta it read
    sz,             \* result of dirSize
    sweep,          \* evicted adapters whose directories MakeRoom must remove
    fails, crashes  \* calls failed and crashes so far

env    == <<content, fails, crashes>>
sync   == <<flight, revalidating>>
fetch  == <<org, got, cid>>
store  == <<disk, tmp, lru>>
vars   == <<content, fails, crashes, disk, tmp, lru, flight, revalidating,
            pc, target, res, org, got, cid, sz, sweep>>

Labels == {"idle", "wait", "has", "dirsize", "touch", "readmeta", "mark", "return",
           "reply", "begin", "info", "cfg", "mdl", "stat", "writemeta", "tmpsize", "evict",
           "sweep", "clear", "rename", "cleanup", "head", "refresh", "removelru",
           "removedir", "unmark"}

Results == {"none", "local", "origin", "err"}

-----------------------------------------------------------------------------

\* Mutant of Has: the index is asked instead of the disk.
HasIndexed(a) == a \in ToSet(lru.order)

\* Store.Has
Has(a) == disk[a] # None /\ disk[a].cfg # None

\* Store.dirSize
DirSize(d) ==
    (IF d.cfg = None THEN 0 ELSE ConfigSize) +
    (IF d.mdl = None THEN 0 ELSE WeightSize[d.mdl.ad])

\* The content ID that origin o reports for what it serves: the commit of a
\* HuggingFace repository, else the ETag of adapter_config.json alone.
ContentIDAt(o, c) ==
    CASE OriginKinds[o] = "huggingface" -> <<c["cfg"], c["mdl"]>>
      [] OriginKinds[o] = "noetag"      -> NoID
      [] OTHER                          -> <<c["cfg"]>>

\* The first call of origin o's Fetch: HuggingFace asks for the commit, S3 lists.
FirstCall(o) == IF OriginKinds[o] \in {"huggingface", "s3"} THEN "info" ELSE "cfg"

\* Mutant of TmpDir: one temporary directory for all adapters.
TmpDirForAll(p) == TmpOf[CHOOSE a \in Adapters : TRUE]

\* What the goroutine's origin is and serves, and where the goroutine downloads.
Kind(p)   == OriginKinds[org[p]]
Served(p) == content[org[p]][target[p]]
TmpDir(p) == TmpOf[target[p]]

Goto(p, label) == pc' = [pc EXCEPT ![p] = label]

\* A call to an origin fails for a reason that is not in its content.
Fail == fails < MaxFailures /\ fails' = fails + 1

\* The locals of a goroutine that has not started or has ended.
Start(p) ==
    /\ org'   = [org EXCEPT ![p] = 1]
    /\ got'   = [got EXCEPT ![p] = {}]
    /\ cid'   = [cid EXCEPT ![p] = NoID]

End(p) ==
    /\ Goto(p, "idle")
    /\ target' = [target EXCEPT ![p] = None]
    /\ res'    = [res EXCEPT ![p] = "none"]
    /\ sz'     = [sz EXCEPT ![p] = 0]
    /\ Start(p)

-----------------------------------------------------------------------------
(* EnsureAdapter and ensureInternal                                        *)

\* Mutant of EnsureAdapter: without the singleflight group every caller runs
\* ensureInternal.
EnsureAdapterNoGroup(p, a) ==
    /\ p \in Requests /\ pc[p] = "idle"
    /\ target' = [target EXCEPT ![p] = a]
    /\ Goto(p, "has")
    /\ flight' = [flight EXCEPT ![a] = p]
    /\ UNCHANGED <<env, store, revalidating, res, fetch, sz, sweep>>

\* group.Do: the first caller for an adapter runs ensureInternal, later ones wait.
EnsureAdapter(p, a) ==
    /\ p \in Requests /\ pc[p] = "idle"
    /\ target' = [target EXCEPT ![p] = a]
    /\ \/ /\ flight[a] = None
          /\ flight' = [flight EXCEPT ![a] = p]
          /\ Goto(p, "has")
       \/ /\ flight[a] # None
          /\ Goto(p, "wait")
          /\ UNCHANGED flight
    /\ UNCHANGED <<env, store, revalidating, res, fetch, sz, sweep>>

CheckHas(p) ==
    /\ pc[p] = "has"
    /\ \/ /\ Has(target[p])
          /\ res' = [res EXCEPT ![p] = "local"]
          /\ Goto(p, "dirsize")
       \/ /\ ~Has(target[p])
          /\ Goto(p, "begin")
          /\ UNCHANGED res
    /\ UNCHANGED <<env, store, sync, target, fetch, sz, sweep>>

\* Store.Touch, first half: walking a directory that is gone is an error.
MeasureDir(p) ==
    /\ pc[p] = "dirsize"
    /\ \/ /\ disk[target[p]] = None
          /\ res' = [res EXCEPT ![p] = "err"]
          /\ Goto(p, IF res[p] = "local" THEN "return" ELSE "cleanup")
          /\ UNCHANGED sz
       \/ /\ disk[target[p]] # None
          /\ sz' = [sz EXCEPT ![p] = DirSize(disk[target[p]])]
          /\ Goto(p, "touch")
          /\ UNCHANGED res
    /\ UNCHANGED <<env, store, sync, target, fetch, sweep>>

\* Store.Touch, second half; it ends the fetch, or leads a hit to maybeRevalidate.
Touch(p) ==
    /\ pc[p] = "touch"
    /\ lru' = LRUTouch(lru, target[p], sz[p])
    /\ \/ /\ res[p] = "local"
          /\ Goto(p, "readmeta")
          /\ UNCHANGED res
       \/ /\ res[p] # "local"
          /\ res' = [res EXCEPT ![p] = "origin"]
          /\ Goto(p, "cleanup")
    /\ UNCHANGED <<env, disk, tmp, sync, target, fetch, sz, sweep>>

\* Mutant of Return: only the leader learns that the call has ended.
ReturnToLeader(p) ==
    /\ pc[p] = "return"
    /\ Goto(p, "reply")
    /\ flight' = [flight EXCEPT ![target[p]] = None]
    /\ UNCHANGED <<env, store, revalidating, target, res, fetch, sz, sweep>>

\* The shared call ends: the result goes to its leader and to all who wait for it.
Return(p) ==
    /\ pc[p] = "return"
    /\ LET shared == {q \in Requests : q = p \/ (pc[q] = "wait" /\ target[q] = target[p])}
       IN  /\ pc'  = [q \in Procs |-> IF q \in shared THEN "reply" ELSE pc[q]]
           /\ res' = [q \in Procs |-> IF q \in shared THEN res[p] ELSE res[q]]
    /\ flight' = [flight EXCEPT ![target[p]] = None]
    /\ UNCHANGED <<env, store, revalidating, target, fetch, sz, sweep>>

\* The request is answered: by vLLM, which reads the adapter's files, or with an error.
Reply(p) ==
    /\ pc[p] = "reply"
    /\ End(p)
    /\ UNCHANGED <<env, store, sync, sweep>>

-----------------------------------------------------------------------------
(* fetchFromOrigin, run by the leader of a miss and by revalidateAdapter    *)

\* Remove and create the temporary directory, then try the first origin.
BeginFetch(p) ==
    /\ pc[p] = "begin"
    /\ tmp' = [tmp EXCEPT ![TmpDir(p)] = EmptyDir]
    /\ Start(p)
    /\ Goto(p, FirstCall(1))
    /\ UNCHANGED <<env, disk, lru, sync, target, res, sz, sweep>>

\* Fetch failed: on to the next origin, with what this one left in the temporary
\* directory, or give up.
NextOrigin(p) ==
    \/ /\ org[p] < Len(OriginKinds)
       /\ org' = [org EXCEPT ![p] = @ + 1]
       /\ got' = [got EXCEPT ![p] = {}]
       /\ cid' = [cid EXCEPT ![p] = NoID]
       /\ Goto(p, FirstCall(org[p] + 1))
       /\ UNCHANGED res
    \/ /\ org[p] = Len(OriginKinds)
       /\ res' = [res EXCEPT ![p] = "err"]
       /\ Goto(p, "cleanup")
       /\ UNCHANGED fetch

\* HuggingFace's getRepoInfo, S3's ListObjectsV2.
DescribeRepo(p) ==
    /\ pc[p] = "info"
    /\ LET found == {f \in Files : Served(p)[f] > 0}
       IN  \/ /\ found # {}
              /\ cid' = [cid EXCEPT ![p] = IF Kind(p) = "huggingface"
                                           THEN ContentIDAt(org[p], Served(p)) ELSE NoID]
              /\ got' = [got EXCEPT ![p] = IF Kind(p) = "s3" THEN found ELSE {}]
              /\ Goto(p, "cfg")
              /\ UNCHANGED <<fails, res, org>>
           \/ /\ found = {} /\ UNCHANGED fails
              /\ NextOrigin(p)
           \/ /\ Fail
              /\ NextOrigin(p)
    /\ UNCHANGED <<content, crashes, store, sync, target, sz, sweep>>

\* The origin has file f; S3 asks only for what it listed.
Offers(p, f) == Served(p)[f] > 0 /\ (Kind(p) = "s3" => f \in got[p])

AfterFile(p) == Goto(p, IF pc[p] = "cfg" THEN "mdl" ELSE "stat")

\* S3 makes the directory of every file it writes, so it may make TmpDir(p) anew.
DestDir(p) == IF tmp[TmpDir(p)] = None THEN EmptyDir ELSE tmp[TmpDir(p)]
CanWrite(p) == Kind(p) = "s3" \/ tmp[TmpDir(p)] # None

\* GET of the file that pc names, stored as it is served now.
Download(p) ==
    /\ pc[p] \in Files /\ Offers(p, pc[p]) /\ CanWrite(p)
    /\ tmp' = [tmp EXCEPT ![TmpDir(p)] =
                 [DestDir(p) EXCEPT ![pc[p]] = [ad |-> target[p], ver |-> Served(p)[pc[p]]]]]
    /\ got' = [got EXCEPT ![p] = @ \cup {pc[p]}]
    /\ cid' = [cid EXCEPT ![p] = IF pc[p] = "cfg" /\ Kind(p) # "huggingface"
                                 THEN ContentIDAt(org[p], Served(p)) ELSE @]
    /\ AfterFile(p)
    /\ UNCHANGED <<env, disk, lru, sync, target, res, org, sz, sweep>>

\* The file is not there, or HTTP and HuggingFace `continue' over a failed GET.
SkipFile(p) ==
    /\ pc[p] \in Files
    /\ \/ ~Offers(p, pc[p]) /\ UNCHANGED fails
       \/ Kind(p) # "s3" /\ Fail
    /\ AfterFile(p)
    /\ UNCHANGED <<content, crashes, store, sync, target, res, fetch, sz, sweep>>

\* io.Copy breaks off and leaves a torn file, or S3's GetObject fails: Fetch fails.
BreakFile(p) ==
    /\ pc[p] \in Files /\ Offers(p, pc[p]) /\ CanWrite(p)
    /\ Fail
    /\ \/ tmp' = [tmp EXCEPT ![TmpDir(p)] =
                    [DestDir(p) EXCEPT ![pc[p]] = [ad |-> target[p], ver |-> 0]]]
       \/ /\ Kind(p) = "s3"
          /\ tmp' = [tmp EXCEPT ![TmpDir(p)] = DestDir(p)]
    /\ NextOrigin(p)
    /\ UNCHANGED <<content, crashes, disk, lru, sync, target, sz, sweep>>

\* os.Create fails in a temporary directory that another goroutine has removed
\* (for S3, removed after MkdirAll).
LoseTmp(p) ==
    /\ pc[p] \in Files /\ Offers(p, pc[p]) /\ tmp[TmpDir(p)] = None
    /\ NextOrigin(p)
    /\ UNCHANGED <<env, store, sync, target, sz, sweep>>

\* The end of Fetch: HTTP and HuggingFace require a file and adapter_config.json.
CheckFetched(p) ==
    /\ pc[p] = "stat"
    /\ LET ok == \/ Kind(p) = "s3"
                 \/ got[p] # {} /\ tmp[TmpDir(p)] # None /\ tmp[TmpDir(p)].cfg # None
       IN  \/ ok /\ Goto(p, "writemeta") /\ UNCHANGED <<res, fetch>>
           \/ ~ok /\ NextOrigin(p)
    /\ UNCHANGED <<env, store, sync, target, sz, sweep>>

\* WriteMeta; it fails if the temporary directory is gone.
WriteMeta(p) ==
    /\ pc[p] = "writemeta"
    /\ \/ /\ tmp[TmpDir(p)] # None
          /\ tmp' = [tmp EXCEPT ![TmpDir(p)].meta = [id |-> cid[p], fresh |-> TRUE]]
          /\ Goto(p, "tmpsize")
          /\ UNCHANGED res
       \/ /\ tmp[TmpDir(p)] = None
          /\ res' = [res EXCEPT ![p] = "err"]
          /\ Goto(p, "cleanup")
          /\ UNCHANGED tmp
    /\ UNCHANGED <<env, disk, lru, sync, target, fetch, sz, sweep>>

\* dirSize of the temporary directory, which may have been removed or refilled since.
MeasureTmp(p) ==
    /\ pc[p] = "tmpsize"
    /\ \/ /\ tmp[TmpDir(p)] # None
          /\ sz' = [sz EXCEPT ![p] = DirSize(tmp[TmpDir(p)])]
          /\ Goto(p, "evict")
          /\ UNCHANGED res
       \/ /\ tmp[TmpDir(p)] = None
          /\ res' = [res EXCEPT ![p] = "err"]
          /\ Goto(p, "cleanup")
          /\ UNCHANGED sz
    /\ UNCHANGED <<env, store, sync, target, fetch, sweep>>

\* Store.MakeRoom: Evict takes the adapters out of the index ...
EvictOldest(p) ==
    /\ pc[p] = "evict"
    /\ lru' = LRUEvict(lru, sz[p])
    /\ sweep' = [sweep EXCEPT ![p] = LRUEvicted(lru, sz[p])]
    /\ Goto(p, IF sweep'[p] = <<>> THEN "clear" ELSE "sweep")
    /\ UNCHANGED <<env, disk, tmp, sync, target, res, fetch, sz>>

\* ... and the loop removes their directories one by one.
SweepOne(p) ==
    /\ pc[p] = "sweep"
    /\ disk' = [disk EXCEPT ![Head(sweep[p])] = None]
    /\ sweep' = [sweep EXCEPT ![p] = Tail(@)]
    /\ Goto(p, IF sweep'[p] = <<>> THEN "clear" ELSE "sweep")
    /\ UNCHANGED <<env, tmp, lru, sync, target, res, fetch, sz>>

\* Mutant of ClearDst: dst is not removed before the rename.
ClearDstNot(p) ==
    /\ pc[p] = "clear"
    /\ Goto(p, "rename")
    /\ UNCHANGED <<env, disk, tmp, lru, sync, target, res, fetch, sz, sweep>>

\* os.RemoveAll(dst)
ClearDst(p) ==
    /\ pc[p] = "clear"
    /\ disk' = [disk EXCEPT ![target[p]] = None]
    /\ Goto(p, "rename")
    /\ UNCHANGED <<env, tmp, lru, sync, target, res, fetch, sz, sweep>>

\* Mutant of Rename: fetchFromOrigin ends without the call of Store.Touch.
RenameNoTouch(p) ==
    /\ pc[p] = "rename"
    /\ tmp[TmpDir(p)] # None /\ disk[target[p]] = None
    /\ disk' = [disk EXCEPT ![target[p]] = tmp[TmpDir(p)]]
    /\ tmp' = [tmp EXCEPT ![TmpDir(p)] = None]
    /\ res' = [res EXCEPT ![p] = "origin"]
    /\ Goto(p, "cleanup")
    /\ UNCHANGED <<env, lru, sync, target, fetch, sz, sweep>>

\* os.Rename(tmpDir, dst), which does not replace a directory.
Rename(p) ==
    /\ pc[p] = "rename"
    /\ LET ok == tmp[TmpDir(p)] # None /\ disk[target[p]] = None
       IN  \/ /\ ok
              /\ disk' = [disk EXCEPT ![target[p]] = tmp[TmpDir(p)]]
              /\ tmp' = [tmp EXCEPT ![TmpDir(p)] = None]
              /\ Goto(p, "dirsize")
              /\ UNCHANGED res
           \/ /\ ~ok
              /\ res' = [res EXCEPT ![p] = "err"]
              /\ Goto(p, "cleanup")
              /\ UNCHANGED <<disk, tmp>>
    /\ UNCHANGED <<env, lru, sync, target, fetch, sz, sweep>>

\* The deferred os.RemoveAll(tmpDir).
Cleanup(p) ==
    /\ pc[p] = "cleanup"
    /\ tmp' = [tmp EXCEPT ![TmpDir(p)] = None]
    /\ Goto(p, IF p \in Requests THEN "return" ELSE "unmark")
    /\ UNCHANGED <<env, disk, lru, sync, target, res, fetch, sz, sweep>>

-----------------------------------------------------------------------------
(* maybeRevalidate and revalidateAdapter                                    *)

\* ReadMeta and IsExpired.
CheckMeta(p) ==
    /\ pc[p] = "readmeta"
    /\ LET d == disk[target[p]]
           expired == Revalidate /\ d # None /\ d.meta # None /\ ~d.meta.fresh
       IN  \/ /\ expired
              /\ cid' = [cid EXCEPT ![p] = d.meta.id]
              /\ Goto(p, "mark")
           \/ /\ ~expired
              /\ Goto(p, "return")
              /\ UNCHANGED cid
    /\ UNCHANGED <<env, store, sync, target, res, org, got, sz, sweep>>

\* Mutant of MarkRevalidating: it does not look whether the adapter is marked.
MarkAlways(p) ==
    /\ pc[p] = "mark"
    /\ revalidating' = revalidating \cup {target[p]}
    /\ \E r \in Revalidators :
         /\ pc[r] = "idle"
         /\ pc' = [pc EXCEPT ![p] = "return", ![r] = "head"]
         /\ target' = [target EXCEPT ![r] = target[p]]
         /\ cid' = [cid EXCEPT ![r] = cid[p]]
    /\ UNCHANGED <<env, store, flight, res, org, got, sz, sweep>>

\* The section under revalMu, and the go statement.
MarkRevalidating(p) ==
    /\ pc[p] = "mark"
    /\ \/ /\ target[p] \in revalidating
          /\ Goto(p, "return")
          /\ UNCHANGED <<revalidating, target, cid>>
       \/ /\ target[p] \notin revalidating
          /\ revalidating' = revalidating \cup {target[p]}
          /\ \E r \in Revalidators :
               /\ pc[r] = "idle"
               /\ pc' = [pc EXCEPT ![p] = "return", ![r] = "head"]
               /\ target' = [target EXCEPT ![r] = target[p]]
               /\ cid' = [cid EXCEPT ![r] = cid[p]]
    /\ UNCHANGED <<env, store, flight, res, org, got, sz, sweep>>

\* The origin's Head; the first origin that answers decides.
HeadOrigin(p) ==
    /\ pc[p] = "head"
    /\ LET found == \E f \in Files : Served(p)[f] > 0 /\ (f = "mdl" => Kind(p) = "huggingface")
           newID == ContentIDAt(org[p], Served(p))
           same  == newID # NoID /\ newID = cid[p]
           next  == \/ /\ org[p] < Len(OriginKinds)
                       /\ org' = [org EXCEPT ![p] = @ + 1]
                       /\ UNCHANGED pc
                    \/ /\ org[p] = Len(OriginKinds)
                       /\ Goto(p, "unmark")
                       /\ UNCHANGED org
       IN  \/ /\ found
              /\ Goto(p, IF same THEN "refresh" ELSE "removelru")
              /\ UNCHANGED <<fails, org>>
           \/ ~found /\ UNCHANGED fails /\ next
           \/ Fail /\ next
    /\ UNCHANGED <<content, crashes, store, sync, target, res, got, cid, sz, sweep>>

\* WriteMeta of the old meta with a new time; it fails if the directory is gone.
RefreshMeta(p) ==
    /\ pc[p] = "refresh"
    /\ disk' = [disk EXCEPT ![target[p]] =
                  IF @ = None THEN None ELSE [@ EXCEPT !.meta = [id |-> cid[p], fresh |-> TRUE]]]
    /\ Goto(p, "unmark")
    /\ UNCHANGED <<env, tmp, lru, sync, target, res, fetch, sz, sweep>>

\* Mutant of Unmark: the goroutine ends without clearing its mark.
UnmarkNot(p) ==
    /\ pc[p] = "unmark"
    /\ End(p)
    /\ UNCHANGED <<env, store, sync, sweep>>

\* The deferred delete from the map `revalidating'.
Unmark(p) ==
    /\ pc[p] = "unmark"
    /\ revalidating' = revalidating \ {target[p]}
    /\ End(p)
    /\ UNCHANGED <<env, store, flight, sweep>>

-----------------------------------------------------------------------------
(* EvictAdapter, and Store.Remove, which a revalidator calls too            *)

EvictAdapter(p, a) ==
    /\ p \in Evictors /\ pc[p] = "idle"
    /\ target' = [target EXCEPT ![p] = a]
    /\ Goto(p, "removelru")
    /\ UNCHANGED <<env, store, sync, res, fetch, sz, sweep>>

RemoveFromLRU(p) ==
    /\ pc[p] = "removelru"
    /\ lru' = LRURemove(lru, target[p])
    /\ Goto(p, "removedir")
    /\ UNCHANGED <<env, disk, tmp, sync, target, res, fetch, sz, sweep>>

RemoveDir(p) ==
    /\ pc[p] = "removedir"
    /\ disk' = [disk EXCEPT ![target[p]] = None]
    /\ \/ /\ p \in Evictors
          /\ End(p)
       \/ /\ p \in Revalidators
          /\ Goto(p, "begin")
          /\ UNCHANGED <<target, res, fetch, sz>>
    /\ UNCHANGED <<env, tmp, lru, sync, sweep>>

-----------------------------------------------------------------------------
(* The environment                                                          *)

\* The author of adapter a replaces some of its files at origin o.
Publish(o, a, fs) ==
    /\ \A f \in fs : content[o][a][f] < MaxVersion
    /\ content' = [content EXCEPT ![o][a] =
                     [f \in Files |-> IF f \in fs THEN @[f] + 1 ELSE @[f]]]
    /\ UNCHANGED <<fails, crashes, store, sync, pc, target, res, fetch, sz, sweep>>

\* The TTL of a stored adapter runs out.
Expire(a) ==
    /\ Revalidate
    /\ disk[a] # None /\ disk[a].meta # None /\ disk[a].meta.fresh
    /\ disk' = [disk EXCEPT ![a].meta.fresh = FALSE]
    /\ UNCHANGED <<env, tmp, lru, sync, pc, target, res, fetch, sz, sweep>>

\* What a crash may leave of a's directory: RemoveAll removes file after file,
\* and os.WriteFile truncates the meta file first.
Debris(a) ==
    LET d == disk[a]
        removing == \E p \in Procs :
                      \/ pc[p] \in {"clear", "removedir"} /\ target[p] = a
                      \/ pc[p] = "sweep" /\ Head(sweep[p]) = a
        writing  == \E p \in Procs : pc[p] = "refresh" /\ target[p] = a
    IN  {d} \cup (IF d # None /\ removing
                  THEN [cfg : {d.cfg, None}, mdl : {d.mdl, None}, meta : {d.meta, None}]
                  ELSE {})
            \cup (IF d # None /\ writing THEN {[d EXCEPT !.meta = None]} ELSE {})

\* Mutant of Rebuilt: a restarted node begins with an empty index.
RebuiltEmpty(d) ==
    [order   : {<<>>},
     size    : {[a \in Adapters |-> 0]},
     curSize : {0}]

\* Store.Rebuild of the directories d: the index lists those with an
\* adapter_config.json, in the order of its modification times.
Rebuilt(d) ==
    LET found == {a \in Adapters : d[a] # None /\ d[a].cfg # None}
        sizes == [a \in Adapters |-> IF a \in found THEN DirSize(d[a]) ELSE 0]
    IN  [order   : {s \in [1..Cardinality(found) -> found] : ToSet(s) = found},
         size    : {sizes},
         curSize : {SumFunctionOnSet(sizes, found)}]

Init ==
    /\ content \in [Origins -> [Adapters -> FirstContents]]
    /\ disk = [a \in Adapters |-> None]
    /\ tmp = [t \in TmpDirs |-> None]
    /\ lru = NewLRU
    /\ flight = [a \in Adapters |-> None]
    /\ revalidating = {}
    /\ pc = [p \in Procs |-> "idle"]
    /\ target = [p \in Procs |-> None]
    /\ res = [p \in Procs |-> "none"]
    /\ org = [p \in Procs |-> 1]
    /\ got = [p \in Procs |-> {}]
    /\ cid = [p \in Procs |-> NoID]
    /\ sz = [p \in Procs |-> 0]
    /\ sweep = [p \in Procs |-> <<>>]
    /\ fails = 0
    /\ crashes = 0

\* The node dies and starts again on the directories it left.
Crash ==
    /\ crashes < MaxCrashes
    /\ crashes' = crashes + 1
    /\ disk' \in {d \in [Adapters -> UNION {Debris(a) : a \in Adapters}] :
                    \A a \in Adapters : d[a] \in Debris(a)}
    /\ lru' \in Rebuilt(disk')
    /\ flight' = [a \in Adapters |-> None]
    /\ revalidating' = {}
    /\ pc' = [p \in Procs |-> "idle"]
    /\ target' = [p \in Procs |-> None]
    /\ res' = [p \in Procs |-> "none"]
    /\ org' = [p \in Procs |-> 1]
    /\ got' = [p \in Procs |-> {}]
    /\ cid' = [p \in Procs |-> NoID]
    /\ sz' = [p \in Procs |-> 0]
    /\ sweep' = [p \in Procs |-> <<>>]
    /\ UNCHANGED <<content, fails, tmp>>

Step(p) ==
    \/ CheckHas(p) \/ MeasureDir(p) \/ Touch(p) \/ Return(p) \/ Reply(p)
    \/ BeginFetch(p) \/ DescribeRepo(p) \/ Download(p) \/ SkipFile(p) \/ BreakFile(p)
    \/ LoseTmp(p) \/ CheckFetched(p) \/ WriteMeta(p) \/ MeasureTmp(p)
    \/ EvictOldest(p) \/ SweepOne(p) \/ ClearDst(p) \/ Rename(p) \/ Cleanup(p)
    \/ CheckMeta(p) \/ MarkRevalidating(p) \/ HeadOrigin(p) \/ RefreshMeta(p) \/ Unmark(p)
    \/ RemoveFromLRU(p) \/ RemoveDir(p)

Next ==
    \/ \E p \in Procs : Step(p)
    \/ \E p \in Requests, a \in Adapters : EnsureAdapter(p, a)
    \/ \E p \in Evictors, a \in Adapters : EvictAdapter(p, a)
    \/ \E o \in Origins, a \in Adapters, fs \in PublishSets : Publish(o, a, fs)
    \/ \E a \in Adapters : Expire(a)
    \/ Crash

Spec == Init /\ [][Next]_vars

-----------------------------------------------------------------------------
(***************************************************************************)
(* Fairness: a goroutine that can step does step.  Its calls to origins    *)
(* end: the clients of HTTP and HuggingFace have a timeout, and so has the *)
(* context of a revalidation.  S3 in a request has neither: that its calls *)
(* end, as long as the client waits, is assumed.  Nobody has to send       *)
(* requests, evict, publish or crash.                                      *)
(***************************************************************************)

FairSpec == Spec /\ \A p \in Procs : WF_vars(Step(p))

\* Steady traffic: requests for every adapter keep coming, and time passes.
TrafficSpec ==
    /\ FairSpec
    /\ \A p \in Requests, a \in Adapters : WF_vars(EnsureAdapter(p, a))
    /\ \A a \in Adapters : WF_vars(Expire(a))

-----------------------------------------------------------------------------
(* Properties                                                               *)

\* The type of every variable but for LRU.curSize.
Types ==
    /\ content \in [Origins -> [Adapters -> Content]]
    /\ disk \in [Adapters -> Dir \cup {None}]
    /\ tmp \in [TmpDirs -> Dir \cup {None}]
    /\ lru.order \in Seq(Adapters)
    /\ lru.size \in [Adapters -> Nat]
    /\ flight \in [Adapters -> Requests \cup {None}]
    /\ revalidating \subseteq Adapters
    /\ pc \in [Procs -> Labels]
    /\ target \in [Procs -> Adapters \cup {None}]
    /\ res \in [Procs -> Results]
    /\ org \in [Procs -> Origins]
    /\ got \in [Procs -> SUBSET Files]
    /\ cid \in [Procs -> Seq(0..MaxVersion)]
    /\ sz \in [Procs -> Nat]
    /\ sweep \in [Procs -> Seq(Adapters)]
    /\ fails \in Nat
    /\ crashes \in Nat

\* The types, and that LRU.curSize, from which Remove and Evict subtract, never
\* becomes negative: an index that is below zero would have room for everything.
TypeOK == Types /\ lru.curSize \in Nat

(***************************************************************************)
(* An adapter that Has finds on disk is in the LRU index, or a goroutine   *)
(* is about to index it (Store.Touch) or to delete it (Store.Remove,       *)
(* MakeRoom): no stored adapter escapes eviction for good, also after a    *)
(* crash and Rebuild.                                                      *)
(***************************************************************************)
Responsible(p, a) ==
    \/ pc[p] \in {"dirsize", "touch", "removedir"} /\ target[p] = a
    \/ pc[p] = "sweep" /\ a \in ToSet(sweep[p])

TrackedOrInFlight ==
    \A a \in Adapters : Has(a) => \/ a \in ToSet(lru.order)
                                  \/ \E p \in Procs : Responsible(p, a)

\* The index lists an adapter once, and LRU.curSize, which decides evictions and
\* is exported as a metric, is the sum of the listed sizes after any interleaving
\* of Touch, Evict, Remove and Rebuild.
IndexConsistent == IsLRU(lru) /\ SizesAddUp(lru)

\* When Store.MakeRoom has evicted, what is left in the index and the adapter it makes
\* room for fit together, or nothing is left, whoever touched, removed or evicted
\* before: DocMaxSize shows what other fetches do to this room until it is used.
MakesRoom(p) ==
    pc[p] = "evict" /\ pc'[p] \in {"sweep", "clear"} =>
        lru'.curSize + sz[p] <= MaxSize \/ lru'.order = <<>>

RoomIsMade == [][\A p \in Procs : MakesRoom(p)]_vars

(***************************************************************************)
(* Files get mixed up only between adapters whose IDs give the same        *)
(* ".tmp-<safeID>", as x/y and x__y do: what is stored for an adapter, or  *)
(* is left in a temporary directory by whatever goroutine, origin or       *)
(* crash, was downloaded for an adapter with that temporary directory.     *)
(***************************************************************************)
MixedOnlyBySafeID ==
    \A f \in Files :
        /\ \A a \in Adapters :
              disk[a] # None /\ disk[a][f] # None => TmpOf[disk[a][f].ad] = TmpOf[a]
        /\ \A t \in TmpDirs :
              tmp[t] # None /\ tmp[t][f] # None => TmpOf[tmp[t][f].ad] = t

(***************************************************************************)
(* The singleflight group: at most one goroutine runs ensureInternal for   *)
(* an adapter, the group knows it, and whoever waits waits for a call that *)
(* is running.                                                             *)
(***************************************************************************)
Leads(p) == p \in Requests /\ pc[p] \notin {"idle", "wait", "reply"}

SingleFlight ==
    /\ \A p \in Requests : Leads(p) => flight[target[p]] = p
    /\ \A a \in Adapters : flight[a] # None => Leads(flight[a]) /\ target[flight[a]] = a
    /\ \A p \in Requests : pc[p] = "wait" => flight[target[p]] # None

\* The map `revalidating' names exactly the adapters with a background
\* revalidation, and no adapter has two of them.
SingleRevalidation ==
    /\ revalidating = {target[r] : r \in {q \in Revalidators : pc[q] # "idle"}}
    /\ \A r, q \in Revalidators :
          pc[r] # "idle" /\ pc[q] # "idle" /\ target[r] = target[q] => r = q

\* Every EnsureAdapter call, also one that waits for another's, is answered.
EnsureReturns == \A p \in Requests : pc[p] # "idle" ~> pc[p] = "idle"

\* A revalidation ends and is unmarked, so that the next one can start.
RevalidationEnds == \A a \in Adapters : a \in revalidating ~> a \notin revalidating

\* Under steady traffic an adapter that its origin serves is stored again and
\* again, whatever revalidations, admin evictions and crashes took it away or left of it.
KeepsAvailable ==
    \A a \in Adapters : []<>(Has(a) \/ content[1][a]["cfg"] = 0)

\* Once the origin's content no longer changes, the store comes to hold it for good.
Converges ==
    \A a \in Adapters :
        <>[](/\ disk[a] # None
             /\ \A f \in Files : /\ disk[a][f] # None
                                 /\ disk[a][f].ver = content[1][a][f])

\* The bytes of the adapters that are stored.
StoredBytes ==
    LET stored == {a \in Adapters : Has(a)}
    IN  SumFunctionOnSet([a \in stored |-> DirSize(disk[a])], stored)

\* storage.max_size bounds what is stored, whatever is fetched, evicted or
\* found by Rebuild.
WithinMaxSize == StoredBytes <= MaxSize

(***************************************************************************)
(* The cache as its callers see it.  The shared call for an adapter is as  *)
(* far as its leader is, from the moment the adapter has been found or     *)
(* moved to its place.                                                     *)
(***************************************************************************)
StageOf(p) ==
    CASE res[p] = "err" -> "failed"
      [] \/ res[p] \in {"local", "origin"}
         \/ res[p] = "none" /\ pc[p] \in {"dirsize", "touch"} -> "found"
      [] OTHER -> "looking"

CallOf(p) ==
    CASE pc[p] = "idle" -> "idle"
      [] pc[p] = "reply" -> IF res[p] = "err" THEN "err" ELSE "ok"
      [] OTHER -> "waiting"

Present == {a \in Adapters : disk[a] # None}
Shared  == [a \in Adapters |-> IF flight[a] = None THEN "none" ELSE StageOf(flight[a])]
Calls   == [p \in Requests |-> CallOf(p)]
Asked   == [p \in Requests |-> target[p]]

Service == INSTANCE AdapterService WITH
    Callers <- Requests, present <- Present, shared <- Shared, call <- Calls,
    subject <- Asked, refreshing <- revalidating

\* The cache implements AdapterService: every step of every goroutine is a step of the
\* shared call, of a refresh or of an eviction there, or changes nothing a caller sees.
ImplementsService == Service!Spec

=============================================================================
