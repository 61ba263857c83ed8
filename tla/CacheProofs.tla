---------------------------- MODULE CacheProofs ----------------------------
(***************************************************************************)
(* Proofs about CacheManager, for any adapters, goroutines, origins, sizes *)
(* and bounds.                                                             *)
(***************************************************************************)
EXTENDS CacheManager, LRUProofs

-----------------------------------------------------------------------------
(* Types of the operators                                                   *)

\* A directory is measured by a natural number.
LEMMA DirSizeType ==
    ASSUME NEW d \in Dir
    PROVE  DirSize(d) \in Nat
<1>1. d.mdl = None \/ d.mdl.ad \in Adapters
  BY DEF Dir, File
<1>2. d.mdl # None => WeightSize[d.mdl.ad] \in Nat
  BY <1>1, CacheAssumption
<1> QED BY <1>2, CacheAssumption DEF DirSize

\* Content IDs are sequences of versions.
LEMMA ContentIDType ==
    ASSUME NEW o \in Origins, NEW c \in Content
    PROVE  ContentIDAt(o, c) \in Seq(0..MaxVersion)
<1>1. c["cfg"] \in 0..MaxVersion /\ c["mdl"] \in 0..MaxVersion
  BY DEF Content, Files
<1>2. NoID \in Seq(0..MaxVersion)
  BY DEF NoID
<1>3. <<c["cfg"], c["mdl"]>> \in Seq(0..MaxVersion) /\ <<c["cfg"]>> \in Seq(0..MaxVersion)
  BY <1>1
<1>4. ContentIDAt(o, c) \in {<<c["cfg"], c["mdl"]>>, NoID, <<c["cfg"]>>}
  <2>1. CASE OriginKinds[o] = "huggingface"
    BY <2>1 DEF ContentIDAt
  <2>2. CASE OriginKinds[o] = "noetag"
    BY <2>2 DEF ContentIDAt
  <2>3. CASE OriginKinds[o] # "huggingface" /\ OriginKinds[o] # "noetag"
    BY <2>3 DEF ContentIDAt
  <2> QED BY <2>1, <2>2, <2>3
<1> QED BY <1>2, <1>3, <1>4

\* The directories that a crash can leave are directories.
LEMMA DebrisType ==
    ASSUME Types, NEW a \in Adapters
    PROVE  Debris(a) \subseteq Dir \cup {None}
<1>1. disk[a] \in Dir \cup {None}
  BY DEF Types
<1>2. CASE disk[a] = None
  BY <1>2 DEF Debris
<1>3. CASE disk[a] # None
  <2>1. disk[a] \in Dir
    BY <1>1, <1>3
  <2>2. [cfg : {disk[a].cfg, None}, mdl : {disk[a].mdl, None}, meta : {disk[a].meta, None}]
          \subseteq Dir
    BY <2>1 DEF Dir
  <2>3. [disk[a] EXCEPT !.meta = None] \in Dir
    BY <2>1 DEF Dir
  <2> QED BY <2>1, <2>2, <2>3 DEF Debris
<1> QED BY <1>2, <1>3

\* What Rebuild makes of directories; it lists every adapter that has its config.
LEMMA RebuiltType ==
    ASSUME NEW d \in [Adapters -> Dir \cup {None}], NEW l \in Rebuilt(d)
    PROVE  /\ l.order \in Seq(Adapters)
           /\ l.size \in [Adapters -> Nat]
           /\ \A a \in Adapters : d[a] # None /\ d[a].cfg # None => a \in ToSet(l.order)
<1> DEFINE found == {a \in Adapters : d[a] # None /\ d[a].cfg # None}
<1>1. /\ l.order \in [1..Cardinality(found) -> found] /\ ToSet(l.order) = found
      /\ l.size = [a \in Adapters |-> IF a \in found THEN DirSize(d[a]) ELSE 0]
  BY DEF Rebuilt
<1>2. l.order \in Seq(Adapters)
  <2>1. IsFiniteSet(found)
    BY CacheAssumption, FS_Subset
  <2>2. Cardinality(found) \in Nat
    BY <2>1, FS_CardinalityType
  <2>3. l.order \in [1..Cardinality(found) -> Adapters]
    BY <1>1
  <2> QED BY <2>2, <2>3, FunctionIsSeq
<1>3. \A a \in found : DirSize(d[a]) \in Nat
  BY DirSizeType
<1> QED BY <1>1, <1>2, <1>3

-----------------------------------------------------------------------------
(* Types is inductive, together with Placed                                *)

(***************************************************************************)
(* A goroutine that is not idle works for an adapter, and MakeRoom's loop  *)
(* is entered only with something to remove.                               *)
(***************************************************************************)
Placed ==
    \A p \in Procs : /\ pc[p] # "idle" => target[p] \in Adapters
                     /\ pc[p] = "sweep" => sweep[p] # <<>>

\* The labels that a goroutine enters on no condition.
Moves == Labels \ {"idle", "sweep"}

\* There is a first origin, and what the helpers of the actions write has its type.
LEMMA OriginsType ==
    /\ 1 \in Origins
    /\ \A o \in Origins : o < Len(OriginKinds) => o + 1 \in Origins
    /\ \A o \in Origins : FirstCall(o) \in Moves
<1>1. Len(OriginKinds) \in Nat /\ Len(OriginKinds) > 0
  BY CacheAssumption, LenProperties
<1>2. \A o \in Origins : FirstCall(o) \in Moves
  BY DEF FirstCall, Moves, Labels
<1> QED BY <1>1, <1>2 DEF Origins

LEMMA MoveType ==
    ASSUME Types, Placed, NEW p \in Procs, pc[p] # "idle",
           NEW label \in Moves, Goto(p, label), UNCHANGED <<target, sweep>>
    PROVE  pc' \in [Procs -> Labels] /\ Placed'
BY DEF Types, Placed, Goto, Moves, Labels

LEMMA StartType ==
    ASSUME Types, NEW p \in Procs, Start(p)
    PROVE  /\ org' \in [Procs -> Origins]
           /\ got' \in [Procs -> SUBSET Files]
           /\ cid' \in [Procs -> Seq(0..MaxVersion)]
<1>1. NoID \in Seq(0..MaxVersion)
  BY DEF NoID
<1> QED BY <1>1, OriginsType DEF Types, Start

LEMMA EndType ==
    ASSUME Types, Placed, NEW p \in Procs, End(p), UNCHANGED sweep
    PROVE  /\ pc' \in [Procs -> Labels]
           /\ target' \in [Procs -> Adapters \cup {None}]
           /\ res' \in [Procs -> Results]
           /\ sz' \in [Procs -> Nat]
           /\ org' \in [Procs -> Origins]
           /\ got' \in [Procs -> SUBSET Files]
           /\ cid' \in [Procs -> Seq(0..MaxVersion)]
           /\ Placed'
<1>1. Start(p) /\ Goto(p, "idle") /\ "idle" \in Labels /\ "none" \in Results
  BY DEF End, Labels, Results
<1>2. pc' \in [Procs -> Labels]
  BY <1>1 DEF Goto, Types
<1>3. Placed'
  BY <1>1 DEF Goto, Types, End, Placed
<1> QED BY <1>1, <1>2, <1>3, StartType DEF Types, End

LEMMA NextOriginType ==
    ASSUME Types, NEW p \in Procs, NextOrigin(p)
    PROVE  /\ \E label \in Moves : Goto(p, label)
           /\ res' \in [Procs -> Results]
           /\ org' \in [Procs -> Origins]
           /\ got' \in [Procs -> SUBSET Files]
           /\ cid' \in [Procs -> Seq(0..MaxVersion)]
<1>1. CASE org[p] < Len(OriginKinds)
  <2>1. org[p] \in Origins /\ org[p] + 1 \in Origins /\ FirstCall(org[p] + 1) \in Moves
    BY <1>1, OriginsType DEF Types
  <2>2. NoID \in Seq(0..MaxVersion)
    BY DEF NoID
  <2>3. Len(OriginKinds) \in Nat
    BY CacheAssumption, LenProperties
  <2>4. /\ org' = [org EXCEPT ![p] = @ + 1]
        /\ got' = [got EXCEPT ![p] = {}]
        /\ cid' = [cid EXCEPT ![p] = NoID]
        /\ Goto(p, FirstCall(org[p] + 1))
        /\ UNCHANGED res
    BY <1>1, <2>3 DEF NextOrigin
  <2> QED BY <2>1, <2>2, <2>4 DEF Types
<1>2. CASE ~(org[p] < Len(OriginKinds))
  BY <1>2 DEF Types, NextOrigin, fetch, Moves, Labels, Results
<1> QED BY <1>1, <1>2

LEMMA FailType ==
    ASSUME Types, Fail \/ UNCHANGED fails
    PROVE  fails' \in Nat
BY DEF Types, Fail

LEMMA CheckHasType ==
    ASSUME Types, Placed, NEW p \in Procs, CheckHas(p)
    PROVE  Types' /\ Placed'
BY DEF Types, Placed, CheckHas, Goto, Labels, Results, env, store, sync, fetch

LEMMA MeasureDirType ==
    ASSUME Types, Placed, NEW p \in Procs, MeasureDir(p)
    PROVE  Types' /\ Placed'
<1>1. target[p] \in Adapters
  BY DEF MeasureDir, Placed
<1>2. disk[target[p]] # None => DirSize(disk[target[p]]) \in Nat
  BY <1>1, DirSizeType DEF Types
<1>3. pc' \in [Procs -> Labels] /\ Placed'
  BY MoveType DEF MeasureDir, Moves, Labels
<1>4. sz' \in [Procs -> Nat] /\ res' \in [Procs -> Results]
  BY <1>2 DEF MeasureDir, Types, Results
<1> QED BY <1>3, <1>4 DEF Types, MeasureDir, env, store, sync, fetch

LEMMA TouchType ==
    ASSUME Types, Placed, NEW p \in Procs, Touch(p)
    PROVE  Types' /\ Placed'
<1>1. target[p] \in Adapters /\ sz[p] \in Nat
  BY DEF Touch, Placed, Types
<1>2. lru'.order \in Seq(Adapters) /\ lru'.size \in [Adapters -> Nat]
  BY <1>1, TouchKeeps DEF Touch, Types
<1>3. pc' \in [Procs -> Labels] /\ Placed'
  BY MoveType DEF Touch, Moves, Labels
<1>4. res' \in [Procs -> Results]
  BY DEF Touch, Types, Results
<1> QED BY <1>2, <1>3, <1>4 DEF Types, Touch, env, sync, fetch

LEMMA ReturnType ==
    ASSUME Types, Placed, NEW p \in Procs, Return(p)
    PROVE  Types' /\ Placed'
BY DEF Types, Placed, Return, Goto, Labels, Results, env, store, sync, fetch

LEMMA ReplyType ==
    ASSUME Types, Placed, NEW p \in Procs, Reply(p)
    PROVE  Types' /\ Placed'
BY EndType DEF Types, Reply, env, store, sync

LEMMA BeginFetchType ==
    ASSUME Types, Placed, NEW p \in Procs, BeginFetch(p)
    PROVE  Types' /\ Placed'
<1>1. TmpDir(p) \in TmpDirs /\ EmptyDir \in Dir
  BY CacheAssumption DEF BeginFetch, Placed, TmpDir, EmptyDir, Dir
<1>2. tmp' \in [TmpDirs -> Dir \cup {None}]
  BY <1>1 DEF BeginFetch, Types
<1>3. pc' \in [Procs -> Labels] /\ Placed'
  BY MoveType, OriginsType DEF BeginFetch
<1> QED BY <1>2, <1>3, StartType DEF Types, BeginFetch, env, sync

LEMMA DescribeRepoType ==
    ASSUME Types, Placed, NEW p \in Procs, DescribeRepo(p)
    PROVE  Types' /\ Placed'
<1>1. org[p] \in Origins /\ target[p] \in Adapters /\ Served(p) \in Content
  BY DEF DescribeRepo, Placed, Types, Served
<1>2. ContentIDAt(org[p], Served(p)) \in Seq(0..MaxVersion) /\ NoID \in Seq(0..MaxVersion)
  BY <1>1, ContentIDType DEF NoID
<1>3. fails' \in Nat
  BY FailType DEF DescribeRepo
<1>4. CASE NextOrigin(p)
  <2>1. pc' \in [Procs -> Labels] /\ Placed'
    BY <1>4, NextOriginType, MoveType DEF DescribeRepo
  <2> QED BY <1>3, <1>4, <2>1, NextOriginType DEF Types, DescribeRepo, store, sync
<1>5. CASE ~NextOrigin(p)
  <2>1. pc' \in [Procs -> Labels] /\ Placed'
    BY <1>5, MoveType DEF DescribeRepo, Moves, Labels
  <2>2. \E id \in Seq(0..MaxVersion), fs \in SUBSET Files :
           cid' = [cid EXCEPT ![p] = id] /\ got' = [got EXCEPT ![p] = fs]
    BY <1>2, <1>5 DEF DescribeRepo
  <2>3. cid' \in [Procs -> Seq(0..MaxVersion)] /\ got' \in [Procs -> SUBSET Files]
    BY <2>2 DEF Types
  <2> QED BY <1>3, <1>5, <2>1, <2>3 DEF Types, DescribeRepo, store, sync
<1> QED BY <1>4, <1>5

\* Writing one file of a directory makes a directory.
LEMMA FileWrite ==
    ASSUME NEW d \in Dir, NEW f \in Files, NEW file \in File
    PROVE  [d EXCEPT ![f] = file] \in Dir
<1>1. CASE f = "cfg"
  BY <1>1 DEF Dir
<1>2. CASE f = "mdl"
  BY <1>2 DEF Dir
<1> QED BY <1>1, <1>2 DEF Files

\* The temporary directory of a goroutine that is downloading, written or not.
LEMMA DestDirType ==
    ASSUME Types, Placed, NEW p \in Procs, pc[p] # "idle"
    PROVE  /\ TmpDir(p) \in TmpDirs
           /\ DestDir(p) \in Dir
           /\ org[p] \in Origins /\ target[p] \in Adapters /\ Served(p) \in Content
<1>1. TmpDir(p) \in TmpDirs /\ EmptyDir \in Dir
  BY CacheAssumption DEF Placed, TmpDir, EmptyDir, Dir
<1> QED BY <1>1 DEF Types, Placed, DestDir, Served

LEMMA AfterFileType ==
    ASSUME Types, Placed, NEW p \in Procs, pc[p] \in Files,
           AfterFile(p), UNCHANGED <<target, sweep>>
    PROVE  pc' \in [Procs -> Labels] /\ Placed'
BY MoveType DEF AfterFile, Moves, Labels, Files

LEMMA DownloadType ==
    ASSUME Types, Placed, NEW p \in Procs, Download(p)
    PROVE  Types' /\ Placed'
<1> DEFINE file == [ad |-> target[p], ver |-> Served(p)[pc[p]]]
<1>1. pc[p] \in Files /\ pc[p] # "idle"
  BY DEF Download, Files
<1>2. file \in File
  BY <1>1, DestDirType DEF File, Content
<1>3. [DestDir(p) EXCEPT ![pc[p]] = file] \in Dir
  BY <1>1, <1>2, DestDirType, FileWrite
<1>4. tmp' = [tmp EXCEPT ![TmpDir(p)] = [DestDir(p) EXCEPT ![pc[p]] = file]]
  BY DEF Download
<1> HIDE DEF file
<1>5. tmp' \in [TmpDirs -> Dir \cup {None}]
  BY <1>1, <1>3, <1>4, DestDirType DEF Types
<1>6. ContentIDAt(org[p], Served(p)) \in Seq(0..MaxVersion)
  BY <1>1, DestDirType, ContentIDType
<1>7. cid' \in [Procs -> Seq(0..MaxVersion)] /\ got' \in [Procs -> SUBSET Files]
  BY <1>1, <1>6 DEF Download, Types
<1>8. pc' \in [Procs -> Labels] /\ Placed'
  BY <1>1, AfterFileType DEF Download
<1> QED BY <1>5, <1>7, <1>8 DEF Types, Download, env, sync

LEMMA SkipFileType ==
    ASSUME Types, Placed, NEW p \in Procs, SkipFile(p)
    PROVE  Types' /\ Placed'
<1>1. fails' \in Nat
  BY FailType DEF SkipFile
<1>2. pc' \in [Procs -> Labels] /\ Placed'
  BY AfterFileType DEF SkipFile
<1> QED BY <1>1, <1>2 DEF Types, SkipFile, store, sync, fetch

LEMMA BreakFileType ==
    ASSUME Types, Placed, NEW p \in Procs, BreakFile(p)
    PROVE  Types' /\ Placed'
<1> DEFINE file == [ad |-> target[p], ver |-> 0]
<1>1. pc[p] \in Files /\ pc[p] # "idle"
  BY DEF BreakFile, Files
<1>2. file \in File
  BY <1>1, DestDirType, CacheAssumption DEF File
<1>3. [DestDir(p) EXCEPT ![pc[p]] = file] \in Dir
  BY <1>1, <1>2, DestDirType, FileWrite
<1>4. \/ tmp' = [tmp EXCEPT ![TmpDir(p)] = [DestDir(p) EXCEPT ![pc[p]] = file]]
      \/ tmp' = [tmp EXCEPT ![TmpDir(p)] = DestDir(p)]
  BY DEF BreakFile
<1> HIDE DEF file
<1>5. tmp' \in [TmpDirs -> Dir \cup {None}]
  BY <1>1, <1>3, <1>4, DestDirType DEF Types
<1>6. fails' \in Nat
  BY FailType DEF BreakFile
<1>7. pc' \in [Procs -> Labels] /\ Placed'
  BY <1>1, NextOriginType, MoveType DEF BreakFile
<1> QED BY <1>5, <1>6, <1>7, NextOriginType DEF Types, BreakFile, sync

LEMMA LoseTmpType ==
    ASSUME Types, Placed, NEW p \in Procs, LoseTmp(p)
    PROVE  Types' /\ Placed'
<1>1. pc' \in [Procs -> Labels] /\ Placed'
  BY NextOriginType, MoveType DEF LoseTmp, Files
<1> QED BY <1>1, NextOriginType DEF Types, LoseTmp, env, store, sync

LEMMA CheckFetchedType ==
    ASSUME Types, Placed, NEW p \in Procs, CheckFetched(p)
    PROVE  Types' /\ Placed'
<1>1. CASE NextOrigin(p)
  <2>1. pc' \in [Procs -> Labels] /\ Placed'
    BY <1>1, NextOriginType, MoveType DEF CheckFetched
  <2> QED BY <1>1, <2>1, NextOriginType DEF Types, CheckFetched, env, store, sync
<1>2. CASE ~NextOrigin(p)
  <2>1. pc' \in [Procs -> Labels] /\ Placed'
    BY <1>2, MoveType DEF CheckFetched, Moves, Labels
  <2> QED BY <1>2, <2>1 DEF Types, CheckFetched, env, store, sync, fetch
<1> QED BY <1>1, <1>2

LEMMA WriteMetaType ==
    ASSUME Types, Placed, NEW p \in Procs, WriteMeta(p)
    PROVE  Types' /\ Placed'
<1> DEFINE meta == [id |-> cid[p], fresh |-> TRUE]
<1>1. TmpDir(p) \in TmpDirs /\ meta \in Meta
  BY DestDirType DEF WriteMeta, Types, Meta
<1> HIDE DEF meta
<1>2. CASE tmp[TmpDir(p)] # None
  <2>1. tmp[TmpDir(p)] \in Dir
    BY <1>1, <1>2 DEF Types
  <2>2. [tmp[TmpDir(p)] EXCEPT !.meta = meta] \in Dir
    BY <1>1, <2>1 DEF Dir
  <2>3. tmp' = [tmp EXCEPT ![TmpDir(p)] = [tmp[TmpDir(p)] EXCEPT !.meta = meta]]
    BY <1>2 DEF WriteMeta, meta
  <2>4. tmp' \in [TmpDirs -> Dir \cup {None}]
    BY <1>1, <2>2, <2>3 DEF Types
  <2>5. pc' \in [Procs -> Labels] /\ Placed'
    BY <1>2, MoveType DEF WriteMeta, Moves, Labels
  <2>6. UNCHANGED res
    BY <1>2 DEF WriteMeta
  <2> QED BY <2>4, <2>5, <2>6 DEF Types, WriteMeta, env, sync, fetch
<1>3. CASE tmp[TmpDir(p)] = None
  <2>1. pc' \in [Procs -> Labels] /\ Placed'
    BY <1>3, MoveType DEF WriteMeta, Moves, Labels
  <2>2. res' \in [Procs -> Results] /\ UNCHANGED tmp
    BY <1>3 DEF WriteMeta, Types, Results
  <2> QED BY <2>1, <2>2 DEF Types, WriteMeta, env, sync, fetch
<1> QED BY <1>2, <1>3

LEMMA MeasureTmpType ==
    ASSUME Types, Placed, NEW p \in Procs, MeasureTmp(p)
    PROVE  Types' /\ Placed'
<1>1. pc' \in [Procs -> Labels] /\ Placed'
  BY MoveType DEF MeasureTmp, Moves, Labels
<1>2. CASE tmp[TmpDir(p)] # None
  <2>1. tmp[TmpDir(p)] \in Dir
    BY <1>2, DestDirType DEF MeasureTmp, Types
  <2>2. DirSize(tmp[TmpDir(p)]) \in Nat
    BY <2>1, DirSizeType, Zenon
  <2>3. sz' = [sz EXCEPT ![p] = DirSize(tmp[TmpDir(p)])] /\ UNCHANGED res
    BY <1>2 DEF MeasureTmp
  <2>4. sz' \in [Procs -> Nat]
    BY <2>2, <2>3 DEF Types
  <2> QED BY <1>1, <2>3, <2>4 DEF Types, MeasureTmp, env, store, sync, fetch
<1>3. CASE tmp[TmpDir(p)] = None
  <2>1. res' \in [Procs -> Results] /\ UNCHANGED sz
    BY <1>3 DEF MeasureTmp, Types, Results
  <2> QED BY <1>1, <2>1 DEF Types, MeasureTmp, env, store, sync, fetch
<1> QED BY <1>2, <1>3

LEMMA EvictOldestType ==
    ASSUME Types, Placed, NEW p \in Procs, EvictOldest(p)
    PROVE  Types' /\ Placed'
<1>1. /\ lru'.order \in Seq(Adapters)
      /\ lru'.size \in [Adapters -> Nat]
      /\ LRUEvicted(lru, sz[p]) \in Seq(Adapters)
  BY EvictKeeps DEF EvictOldest, Types
<1>2. sweep' \in [Procs -> Seq(Adapters)]
  BY <1>1 DEF EvictOldest, Types
<1>3. pc' \in [Procs -> Labels] /\ Placed'
  BY <1>1 DEF EvictOldest, Types, Placed, Goto, Labels
<1> QED BY <1>1, <1>2, <1>3 DEF Types, EvictOldest, env, sync, fetch

LEMMA SweepOneType ==
    ASSUME Types, Placed, NEW p \in Procs, SweepOne(p)
    PROVE  Types' /\ Placed'
<1>1. Head(sweep[p]) \in Adapters /\ Tail(sweep[p]) \in Seq(Adapters)
  BY HeadTailProperties DEF SweepOne, Types, Placed
<1>2. sweep' \in [Procs -> Seq(Adapters)] /\ disk' \in [Adapters -> Dir \cup {None}]
  BY <1>1 DEF SweepOne, Types
<1>3. pc' \in [Procs -> Labels] /\ Placed'
  BY <1>1 DEF SweepOne, Types, Placed, Goto, Labels
<1> QED BY <1>2, <1>3 DEF Types, SweepOne, env, sync, fetch

LEMMA ClearDstType ==
    ASSUME Types, Placed, NEW p \in Procs, ClearDst(p)
    PROVE  Types' /\ Placed'
<1>1. pc' \in [Procs -> Labels] /\ Placed'
  BY MoveType DEF ClearDst, Moves, Labels
<1> QED BY <1>1 DEF Types, ClearDst, env, sync, fetch

LEMMA RenameType ==
    ASSUME Types, Placed, NEW p \in Procs, Rename(p)
    PROVE  Types' /\ Placed'
<1>1. pc' \in [Procs -> Labels] /\ Placed'
  BY MoveType DEF Rename, Moves, Labels
<1>2. TmpDir(p) \in TmpDirs
  BY DestDirType DEF Rename
<1>3. disk' \in [Adapters -> Dir \cup {None}] /\ tmp' \in [TmpDirs -> Dir \cup {None}]
  BY <1>2 DEF Rename, Types
<1>4. res' \in [Procs -> Results]
  BY DEF Rename, Types, Results
<1> QED BY <1>1, <1>3, <1>4 DEF Types, Rename, env, sync, fetch

LEMMA CleanupType ==
    ASSUME Types, Placed, NEW p \in Procs, Cleanup(p)
    PROVE  Types' /\ Placed'
<1>1. pc' \in [Procs -> Labels] /\ Placed'
  BY MoveType DEF Cleanup, Moves, Labels
<1> QED BY <1>1 DEF Types, Cleanup, env, sync, fetch

LEMMA CheckMetaType ==
    ASSUME Types, Placed, NEW p \in Procs, CheckMeta(p)
    PROVE  Types' /\ Placed'
<1>1. pc' \in [Procs -> Labels] /\ Placed'
  BY MoveType DEF CheckMeta, Moves, Labels
<1>2. cid' \in [Procs -> Seq(0..MaxVersion)]
  <2>1. CASE UNCHANGED cid
    BY <2>1 DEF Types
  <2>2. CASE ~UNCHANGED cid
    <3>1. disk[target[p]] \in Dir \cup {None}
      BY DEF CheckMeta, Placed, Types
    <3>2. /\ disk[target[p]] # None /\ disk[target[p]].meta # None
          /\ cid' = [cid EXCEPT ![p] = disk[target[p]].meta.id]
      BY <2>2 DEF CheckMeta
    <3>3. disk[target[p]].meta.id \in Seq(0..MaxVersion)
      BY <3>1, <3>2 DEF Dir, Meta
    <3> QED BY <3>2, <3>3 DEF Types
  <2> QED BY <2>1, <2>2
<1> QED BY <1>1, <1>2 DEF Types, CheckMeta, env, store, sync

LEMMA MarkRevalidatingType ==
    ASSUME Types, Placed, NEW p \in Procs, MarkRevalidating(p)
    PROVE  Types' /\ Placed'
<1>0. target[p] \in Adapters /\ pc[p] = "mark"
  BY DEF MarkRevalidating, Placed
<1>1. CASE target[p] \in revalidating
  <2>1. Goto(p, "return") /\ UNCHANGED <<revalidating, target, cid, sweep>>
    BY <1>1 DEF MarkRevalidating
  <2>2. pc' \in [Procs -> Labels] /\ Placed'
    BY <1>0, <2>1, MoveType DEF Moves, Labels
  <2> QED BY <2>1, <2>2 DEF Types, MarkRevalidating, env, store
<1>2. CASE target[p] \notin revalidating
  <2>1. PICK r \in Revalidators :
          /\ pc[r] = "idle"
          /\ pc' = [pc EXCEPT ![p] = "return", ![r] = "head"]
          /\ target' = [target EXCEPT ![r] = target[p]]
          /\ cid' = [cid EXCEPT ![r] = cid[p]]
    BY <1>2 DEF MarkRevalidating
  <2>2. revalidating' \subseteq Adapters
    BY <1>0, <1>2 DEF MarkRevalidating, Types
  <2>3. r \in Procs
    BY DEF Procs
  <2>4. /\ pc' \in [Procs -> Labels] /\ target' \in [Procs -> Adapters \cup {None}]
        /\ cid' \in [Procs -> Seq(0..MaxVersion)]
    BY <2>1, <2>3, <1>0 DEF Types, Labels
  <2>5. Placed'
    BY <1>0, <2>1, <2>3 DEF Placed, Types, MarkRevalidating
  <2> QED BY <2>2, <2>4, <2>5 DEF Types, MarkRevalidating, env, store
<1> QED BY <1>1, <1>2

LEMMA HeadOriginType ==
    ASSUME Types, Placed, NEW p \in Procs, HeadOrigin(p)
    PROVE  Types' /\ Placed'
<1>1. fails' \in Nat
  BY FailType DEF HeadOrigin
<1>2. pc[p] = "head" /\ pc[p] # "idle" /\ UNCHANGED <<target, sweep>>
  BY DEF HeadOrigin
<1>3. CASE UNCHANGED pc /\ org[p] < Len(OriginKinds) /\ org' = [org EXCEPT ![p] = @ + 1]
  <2>1. org' \in [Procs -> Origins]
    BY <1>3, OriginsType DEF Types
  <2>2. Placed'
    BY <1>2, <1>3 DEF Placed
  <2> QED BY <1>1, <1>3, <2>1, <2>2 DEF Types, HeadOrigin, store, sync
<1>4. CASE UNCHANGED org /\ \E label \in {"refresh", "removelru", "unmark"} : Goto(p, label)
  <2>1. pc' \in [Procs -> Labels] /\ Placed'
    BY <1>2, <1>4, MoveType DEF Moves, Labels
  <2> QED BY <1>1, <1>4, <2>1 DEF Types, HeadOrigin, store, sync
<1>5. \/ UNCHANGED pc /\ org[p] < Len(OriginKinds) /\ org' = [org EXCEPT ![p] = @ + 1]
      \/ UNCHANGED org /\ \E label \in {"refresh", "removelru", "unmark"} : Goto(p, label)
  BY DEF HeadOrigin
<1> QED BY <1>3, <1>4, <1>5

LEMMA RefreshMetaType ==
    ASSUME Types, Placed, NEW p \in Procs, RefreshMeta(p)
    PROVE  Types' /\ Placed'
<1> DEFINE meta == [id |-> cid[p], fresh |-> TRUE]
<1>1. pc' \in [Procs -> Labels] /\ Placed'
  BY MoveType DEF RefreshMeta, Moves, Labels
<1>2. target[p] \in Adapters /\ meta \in Meta
  BY DEF RefreshMeta, Placed, Types, Meta
<1>3. disk' = [disk EXCEPT ![target[p]] = IF @ = None THEN None ELSE [@ EXCEPT !.meta = meta]]
  BY DEF RefreshMeta
<1> HIDE DEF meta
<1>4. disk[target[p]] # None => [disk[target[p]] EXCEPT !.meta = meta] \in Dir
  BY <1>2 DEF Types, Dir
<1>5. disk' \in [Adapters -> Dir \cup {None}]
  BY <1>2, <1>3, <1>4 DEF Types
<1> QED BY <1>1, <1>5 DEF Types, RefreshMeta, env, sync, fetch

LEMMA UnmarkType ==
    ASSUME Types, Placed, NEW p \in Procs, Unmark(p)
    PROVE  Types' /\ Placed'
BY EndType DEF Types, Unmark, env, store

LEMMA RemoveFromLRUType ==
    ASSUME Types, Placed, NEW p \in Procs, RemoveFromLRU(p)
    PROVE  Types' /\ Placed'
<1>1. pc' \in [Procs -> Labels] /\ Placed'
  BY MoveType DEF RemoveFromLRU, Moves, Labels
<1>2. lru'.order \in Seq(Adapters) /\ lru'.size \in [Adapters -> Nat]
  BY RemoveKeeps DEF RemoveFromLRU, Placed, Types
<1> QED BY <1>1, <1>2 DEF Types, RemoveFromLRU, env, sync, fetch

LEMMA RemoveDirType ==
    ASSUME Types, Placed, NEW p \in Procs, RemoveDir(p)
    PROVE  Types' /\ Placed'
<1>1. disk' \in [Adapters -> Dir \cup {None}]
  BY DEF RemoveDir, Types
<1>2. CASE End(p)
  BY <1>1, <1>2, EndType DEF Types, RemoveDir, env, sync
<1>3. CASE Goto(p, "begin") /\ UNCHANGED <<target, res, fetch, sz>>
  <2>1. pc' \in [Procs -> Labels] /\ Placed'
    BY <1>3, MoveType DEF RemoveDir, Moves, Labels
  <2> QED BY <1>1, <1>3, <2>1 DEF Types, RemoveDir, env, sync, fetch
<1> QED BY <1>2, <1>3 DEF RemoveDir

LEMMA StepType ==
    ASSUME Types, Placed, NEW p \in Procs, Step(p)
    PROVE  Types' /\ Placed'
BY CheckHasType, MeasureDirType, TouchType, ReturnType, ReplyType,
   BeginFetchType, DescribeRepoType, DownloadType, SkipFileType, BreakFileType,
   LoseTmpType, CheckFetchedType, WriteMetaType, MeasureTmpType, EvictOldestType,
   SweepOneType, ClearDstType, RenameType, CleanupType, CheckMetaType, MarkRevalidatingType,
   HeadOriginType, RefreshMetaType, UnmarkType, RemoveFromLRUType, RemoveDirType DEF Step

LEMMA EnsureAdapterType ==
    ASSUME Types, Placed, NEW p \in Requests, NEW a \in Adapters, EnsureAdapter(p, a)
    PROVE  Types' /\ Placed'
<1>1. p \in Procs
  BY DEF Procs
<1>2. flight' \in [Adapters -> Requests \cup {None}]
  BY DEF EnsureAdapter, Types
<1>3. pc' \in [Procs -> Labels] /\ target' \in [Procs -> Adapters \cup {None}]
  BY <1>1 DEF EnsureAdapter, Types, Goto, Labels
<1>4. Placed'
  BY <1>1 DEF EnsureAdapter, Types, Placed, Goto
<1> QED BY <1>2, <1>3, <1>4 DEF Types, EnsureAdapter, env, store, fetch

LEMMA EvictAdapterType ==
    ASSUME Types, Placed, NEW p \in Evictors, NEW a \in Adapters, EvictAdapter(p, a)
    PROVE  Types' /\ Placed'
<1>1. p \in Procs
  BY DEF Procs
<1>2. pc' \in [Procs -> Labels] /\ target' \in [Procs -> Adapters \cup {None}]
  BY <1>1 DEF EvictAdapter, Types, Goto, Labels
<1>3. Placed'
  BY <1>1 DEF EvictAdapter, Types, Placed, Goto
<1> QED BY <1>2, <1>3 DEF Types, EvictAdapter, env, store, sync, fetch

LEMMA PublishType ==
    ASSUME Types, Placed, NEW o \in Origins, NEW a \in Adapters, NEW fs \in PublishSets,
           Publish(o, a, fs)
    PROVE  Types' /\ Placed'
<1> DEFINE c    == content[o][a]
           newC == [f \in Files |-> IF f \in fs THEN c[f] + 1 ELSE c[f]]
<1>1. c \in Content
  BY DEF Types
<1>2. newC \in Content
  <2>1. \A f \in fs : c[f] < MaxVersion
    BY DEF Publish
  <2>2. fs \subseteq Files
    BY CacheAssumption
  <2>3. ASSUME NEW f \in Files PROVE newC[f] \in 0..MaxVersion
    <3>1. c[f] \in 0..MaxVersion /\ MaxVersion \in Nat
      BY <1>1, CacheAssumption DEF Content
    <3> QED BY <3>1, <2>1
  <2> QED BY <2>3 DEF Content
<1>3. content' = [content EXCEPT ![o] = [content[o] EXCEPT ![a] = newC]]
  BY DEF Publish
<1> HIDE DEF newC
<1>4. content' \in [Origins -> [Adapters -> Content]]
  BY <1>2, <1>3 DEF Types
<1>5. UNCHANGED <<fails, crashes, store, sync, pc, target, res, fetch, sz, sweep>>
  BY DEF Publish
<1> QED BY <1>4, <1>5 DEF Types, Placed, store, sync, fetch

LEMMA ExpireType ==
    ASSUME Types, Placed, NEW a \in Adapters, Expire(a)
    PROVE  Types' /\ Placed'
<1>1. disk[a] \in Dir /\ disk[a].meta \in Meta
  BY DEF Expire, Types, Dir
<1>2. [disk[a] EXCEPT !.meta = [disk[a].meta EXCEPT !.fresh = FALSE]] \in Dir
  BY <1>1 DEF Dir, Meta
<1>3. disk' \in [Adapters -> Dir \cup {None}]
  BY <1>2 DEF Expire, Types
<1> QED BY <1>3 DEF Types, Placed, Expire, env, sync, fetch

LEMMA CrashType ==
    ASSUME Types, Placed, Crash
    PROVE  /\ Types' /\ Placed'
           /\ \A a \in Adapters : Has(a)' => a \in ToSet(lru'.order)
<1>1. disk' \in [Adapters -> Dir \cup {None}]
  BY DebrisType DEF Crash
<1>2. /\ lru'.order \in Seq(Adapters)
      /\ lru'.size \in [Adapters -> Nat]
      /\ \A a \in Adapters : disk'[a] # None /\ disk'[a].cfg # None => a \in ToSet(lru'.order)
  BY <1>1, RebuiltType DEF Crash
<1>3. /\ 1 \in Origins /\ NoID \in Seq(0..MaxVersion) /\ <<>> \in Seq(Adapters)
      /\ "idle" \in Labels /\ "none" \in Results
  BY OriginsType DEF NoID, Labels, Results
<1>4. crashes' \in Nat
  BY DEF Crash, Types
<1>5. Types'
  BY <1>1, <1>2, <1>3, <1>4 DEF Types, Crash
<1>6. Placed'
  BY DEF Crash, Placed
<1> QED BY <1>2, <1>5, <1>6 DEF Has

LEMMA InitType == Init => Types /\ Placed
<1> SUFFICES ASSUME Init PROVE Types /\ Placed
  OBVIOUS
<1>1. content \in [Origins -> [Adapters -> Content]]
  BY CacheAssumption DEF Init
<1>2. lru.order \in Seq(Adapters) /\ lru.size \in [Adapters -> Nat]
  BY DEF Init, NewLRU
<1>3. /\ 1 \in Origins /\ NoID \in Seq(0..MaxVersion) /\ <<>> \in Seq(Adapters)
      /\ "idle" \in Labels /\ "none" \in Results
  BY OriginsType DEF NoID, Labels, Results
<1>4. Types
  BY <1>1, <1>2, <1>3 DEF Init, Types
<1>5. Placed
  BY DEF Init, Placed
<1> QED BY <1>4, <1>5

\* Every step of the system, and stuttering, keeps the types and Placed.
LEMMA NextType == Types /\ Placed /\ [Next]_vars => Types' /\ Placed'
<1> SUFFICES ASSUME Types, Placed, [Next]_vars PROVE Types' /\ Placed'
  OBVIOUS
<1>1. CASE UNCHANGED vars
  BY <1>1 DEF Types, Placed, vars
<1>2. CASE Next
  BY <1>2, StepType, EnsureAdapterType, EvictAdapterType, PublishType, ExpireType, CrashType
     DEF Next
<1> QED BY <1>1, <1>2

\* The types and Placed hold of every reachable state.
LEMMA TypesHold == Spec => [](Types /\ Placed)
BY InitType, NextType, PTL DEF Spec

-----------------------------------------------------------------------------
(* TrackedOrInFlight is inductive                                           *)

Safe(a) == a \in ToSet(lru.order) \/ \E p \in Procs : Responsible(p, a)

\* The labels at which a goroutine is responsible for an adapter.
Duties == {"dirsize", "touch", "removedir", "sweep"}

\* Goroutine q, if it is responsible for adapters, stays so.
Steady(q) == pc[q] \in Duties => pc'[q] = pc[q] /\ target'[q] = target[q]

\* A step that touches neither the directories nor the index, of goroutines that
\* are not responsible for anything.
LEMMA QuietStep ==
    ASSUME TrackedOrInFlight, \A q \in Procs : Steady(q), UNCHANGED <<lru, sweep>>,
           \A a \in Adapters : Has(a)' => Has(a)
    PROVE  TrackedOrInFlight'
<1> SUFFICES ASSUME NEW a \in Adapters, Has(a)'
             PROVE  \/ a \in ToSet(lru'.order)
                    \/ \E q \in Procs : Responsible(q, a)'
  BY DEF TrackedOrInFlight
<1>1. CASE a \in ToSet(lru.order)
  BY <1>1
<1>2. CASE a \notin ToSet(lru.order)
  <2>1. PICK q \in Procs : Responsible(q, a)
    BY <1>2 DEF TrackedOrInFlight
  <2>2. Responsible(q, a)'
    BY <2>1 DEF Steady, Duties, Responsible
  <2> QED BY <2>2
<1> QED BY <1>1, <1>2

\* A step of goroutine p, adapter by adapter.
LEMMA BusyStep ==
    ASSUME TrackedOrInFlight, NEW p \in Procs,
           \A q \in Procs \ {p} : pc'[q] = pc[q] /\ target'[q] = target[q] /\ sweep'[q] = sweep[q],
           \A a \in Adapters : Has(a)' =>
              \/ a \in ToSet(lru'.order) \/ Responsible(p, a)'
              \/ Has(a) /\ a \notin ToSet(lru.order) /\ ~Responsible(p, a)
    PROVE  TrackedOrInFlight'
<1> SUFFICES ASSUME NEW a \in Adapters, Has(a)', a \notin ToSet(lru'.order), ~Responsible(p, a)'
             PROVE  \E q \in Procs : Responsible(q, a)'
  BY DEF TrackedOrInFlight
<1>1. PICK q \in Procs : Responsible(q, a)
  BY DEF TrackedOrInFlight
<1>2. q # p
  BY <1>1
<1>3. Responsible(q, a)'
  BY <1>1, <1>2 DEF Responsible
<1> QED BY <1>3

LEMMA CheckHasTracked ==
    ASSUME Types, Placed, TrackedOrInFlight, NEW p \in Procs, CheckHas(p)
    PROVE  TrackedOrInFlight'
<1>1. /\ pc[p] \notin Duties /\ \A q \in Procs \ {p} : pc'[q] = pc[q] /\ target'[q] = target[q]
      /\ UNCHANGED <<disk, lru, sweep>>
  BY DEF CheckHas, Goto, Duties, Types, store
<1> QED BY <1>1, QuietStep DEF Steady, Has

LEMMA ReplyTracked ==
    ASSUME Types, Placed, TrackedOrInFlight, NEW p \in Procs, Reply(p)
    PROVE  TrackedOrInFlight'
<1>1. /\ pc[p] \notin Duties /\ \A q \in Procs \ {p} : pc'[q] = pc[q] /\ target'[q] = target[q]
      /\ UNCHANGED <<disk, lru, sweep>>
  BY DEF Reply, End, Goto, Duties, Types, store
<1> QED BY <1>1, QuietStep DEF Steady, Has

LEMMA BeginFetchTracked ==
    ASSUME Types, Placed, TrackedOrInFlight, NEW p \in Procs, BeginFetch(p)
    PROVE  TrackedOrInFlight'
<1>1. /\ pc[p] \notin Duties /\ \A q \in Procs \ {p} : pc'[q] = pc[q] /\ target'[q] = target[q]
      /\ UNCHANGED <<disk, lru, sweep>>
  BY DEF BeginFetch, Goto, Duties, Types, store
<1> QED BY <1>1, QuietStep DEF Steady, Has

LEMMA DescribeRepoTracked ==
    ASSUME Types, Placed, TrackedOrInFlight, NEW p \in Procs, DescribeRepo(p)
    PROVE  TrackedOrInFlight'
<1>1. /\ pc[p] \notin Duties /\ \A q \in Procs \ {p} : pc'[q] = pc[q] /\ target'[q] = target[q]
      /\ UNCHANGED <<disk, lru, sweep>>
  BY DEF DescribeRepo, NextOrigin, Goto, Duties, Types, store
<1> QED BY <1>1, QuietStep DEF Steady, Has

LEMMA DownloadTracked ==
    ASSUME Types, Placed, TrackedOrInFlight, NEW p \in Procs, Download(p)
    PROVE  TrackedOrInFlight'
<1>1. /\ pc[p] \notin Duties /\ \A q \in Procs \ {p} : pc'[q] = pc[q] /\ target'[q] = target[q]
      /\ UNCHANGED <<disk, lru, sweep>>
  BY DEF Download, AfterFile, Files, Goto, Duties, Types, store
<1> QED BY <1>1, QuietStep DEF Steady, Has

LEMMA SkipFileTracked ==
    ASSUME Types, Placed, TrackedOrInFlight, NEW p \in Procs, SkipFile(p)
    PROVE  TrackedOrInFlight'
<1>1. /\ pc[p] \notin Duties /\ \A q \in Procs \ {p} : pc'[q] = pc[q] /\ target'[q] = target[q]
      /\ UNCHANGED <<disk, lru, sweep>>
  BY DEF SkipFile, AfterFile, Files, Goto, Duties, Types, store
<1> QED BY <1>1, QuietStep DEF Steady, Has

LEMMA BreakFileTracked ==
    ASSUME Types, Placed, TrackedOrInFlight, NEW p \in Procs, BreakFile(p)
    PROVE  TrackedOrInFlight'
<1>1. /\ pc[p] \notin Duties /\ \A q \in Procs \ {p} : pc'[q] = pc[q] /\ target'[q] = target[q]
      /\ UNCHANGED <<disk, lru, sweep>>
  BY DEF BreakFile, NextOrigin, Files, Goto, Duties, Types, store
<1> QED BY <1>1, QuietStep DEF Steady, Has

LEMMA LoseTmpTracked ==
    ASSUME Types, Placed, TrackedOrInFlight, NEW p \in Procs, LoseTmp(p)
    PROVE  TrackedOrInFlight'
<1>1. /\ pc[p] \notin Duties /\ \A q \in Procs \ {p} : pc'[q] = pc[q] /\ target'[q] = target[q]
      /\ UNCHANGED <<disk, lru, sweep>>
  BY DEF LoseTmp, NextOrigin, Files, Goto, Duties, Types, store
<1> QED BY <1>1, QuietStep DEF Steady, Has

LEMMA CheckFetchedTracked ==
    ASSUME Types, Placed, TrackedOrInFlight, NEW p \in Procs, CheckFetched(p)
    PROVE  TrackedOrInFlight'
<1>1. /\ pc[p] \notin Duties /\ \A q \in Procs \ {p} : pc'[q] = pc[q] /\ target'[q] = target[q]
      /\ UNCHANGED <<disk, lru, sweep>>
  BY DEF CheckFetched, NextOrigin, Goto, Duties, Types, store
<1> QED BY <1>1, QuietStep DEF Steady, Has

LEMMA WriteMetaTracked ==
    ASSUME Types, Placed, TrackedOrInFlight, NEW p \in Procs, WriteMeta(p)
    PROVE  TrackedOrInFlight'
<1>1. /\ pc[p] \notin Duties /\ \A q \in Procs \ {p} : pc'[q] = pc[q] /\ target'[q] = target[q]
      /\ UNCHANGED <<disk, lru, sweep>>
  BY DEF WriteMeta, Goto, Duties, Types, store
<1> QED BY <1>1, QuietStep DEF Steady, Has

LEMMA MeasureTmpTracked ==
    ASSUME Types, Placed, TrackedOrInFlight, NEW p \in Procs, MeasureTmp(p)
    PROVE  TrackedOrInFlight'
<1>1. /\ pc[p] \notin Duties /\ \A q \in Procs \ {p} : pc'[q] = pc[q] /\ target'[q] = target[q]
      /\ UNCHANGED <<disk, lru, sweep>>
  BY DEF MeasureTmp, Goto, Duties, Types, store
<1> QED BY <1>1, QuietStep DEF Steady, Has

LEMMA CleanupTracked ==
    ASSUME Types, Placed, TrackedOrInFlight, NEW p \in Procs, Cleanup(p)
    PROVE  TrackedOrInFlight'
<1>1. /\ pc[p] \notin Duties /\ \A q \in Procs \ {p} : pc'[q] = pc[q] /\ target'[q] = target[q]
      /\ UNCHANGED <<disk, lru, sweep>>
  BY DEF Cleanup, Goto, Duties, Types, store
<1> QED BY <1>1, QuietStep DEF Steady, Has

LEMMA CheckMetaTracked ==
    ASSUME Types, Placed, TrackedOrInFlight, NEW p \in Procs, CheckMeta(p)
    PROVE  TrackedOrInFlight'
<1>1. /\ pc[p] \notin Duties /\ \A q \in Procs \ {p} : pc'[q] = pc[q] /\ target'[q] = target[q]
      /\ UNCHANGED <<disk, lru, sweep>>
  BY DEF CheckMeta, Goto, Duties, Types, store
<1> QED BY <1>1, QuietStep DEF Steady, Has

LEMMA HeadOriginTracked ==
    ASSUME Types, Placed, TrackedOrInFlight, NEW p \in Procs, HeadOrigin(p)
    PROVE  TrackedOrInFlight'
<1>1. /\ pc[p] \notin Duties /\ \A q \in Procs \ {p} : pc'[q] = pc[q] /\ target'[q] = target[q]
      /\ UNCHANGED <<disk, lru, sweep>>
  BY DEF HeadOrigin, Goto, Duties, Types, store
<1> QED BY <1>1, QuietStep DEF Steady, Has

LEMMA UnmarkTracked ==
    ASSUME Types, Placed, TrackedOrInFlight, NEW p \in Procs, Unmark(p)
    PROVE  TrackedOrInFlight'
<1>1. /\ pc[p] \notin Duties /\ \A q \in Procs \ {p} : pc'[q] = pc[q] /\ target'[q] = target[q]
      /\ UNCHANGED <<disk, lru, sweep>>
  BY DEF Unmark, End, Goto, Duties, Types, store
<1> QED BY <1>1, QuietStep DEF Steady, Has

LEMMA ReturnTracked ==
    ASSUME Types, Placed, TrackedOrInFlight, NEW p \in Procs, Return(p)
    PROVE  TrackedOrInFlight'
<1>1. \A q \in Procs : Steady(q)
  BY DEF Return, Steady, Duties, Types
<1>2. UNCHANGED <<disk, lru, sweep>>
  BY DEF Return, store
<1> QED BY <1>1, <1>2, QuietStep DEF Has

LEMMA MarkRevalidatingTracked ==
    ASSUME Types, Placed, TrackedOrInFlight, NEW p \in Procs, MarkRevalidating(p)
    PROVE  TrackedOrInFlight'
<1>1. \A q \in Procs : Steady(q)
  <2>1. CASE target[p] \in revalidating
    BY <2>1 DEF MarkRevalidating, Goto, Steady, Duties, Types
  <2>2. CASE target[p] \notin revalidating
    <3>1. PICK r \in Revalidators :
            /\ pc[r] = "idle" /\ pc[p] = "mark"
            /\ pc' = [pc EXCEPT ![p] = "return", ![r] = "head"]
            /\ target' = [target EXCEPT ![r] = target[p]]
      BY <2>2 DEF MarkRevalidating
    <3> QED BY <3>1 DEF Steady, Duties, Types
  <2> QED BY <2>1, <2>2
<1>2. UNCHANGED <<disk, lru, sweep>>
  BY DEF MarkRevalidating, store
<1> QED BY <1>1, <1>2, QuietStep DEF Has

LEMMA ClearDstTracked ==
    ASSUME Types, Placed, TrackedOrInFlight, NEW p \in Procs, ClearDst(p)
    PROVE  TrackedOrInFlight'
<1>1. /\ pc[p] \notin Duties /\ \A q \in Procs \ {p} : pc'[q] = pc[q] /\ target'[q] = target[q]
      /\ UNCHANGED <<lru, sweep>>
  BY DEF ClearDst, Goto, Duties, Types
<1>2. \A a \in Adapters : Has(a)' => Has(a)
  BY DEF ClearDst, Types, Has
<1> QED BY <1>1, <1>2, QuietStep DEF Steady

LEMMA RefreshMetaTracked ==
    ASSUME Types, Placed, TrackedOrInFlight, NEW p \in Procs, RefreshMeta(p)
    PROVE  TrackedOrInFlight'
<1>1. /\ pc[p] \notin Duties /\ \A q \in Procs \ {p} : pc'[q] = pc[q] /\ target'[q] = target[q]
      /\ UNCHANGED <<lru, sweep>>
  BY DEF RefreshMeta, Goto, Duties, Types
<1>2. ASSUME NEW a \in Adapters, Has(a)' PROVE Has(a)
  <2>1. CASE a # target[p]
    BY <1>2, <2>1 DEF RefreshMeta, Types, Has
  <2>2. CASE a = target[p] /\ disk[a] # None
    <3>1. disk[a] \in Dir
      BY <2>2 DEF Types
    <3>2. disk'[a] = [disk[a] EXCEPT !.meta = [id |-> cid[p], fresh |-> TRUE]]
      BY <2>2 DEF RefreshMeta, Types
    <3>3. disk'[a].cfg = disk[a].cfg
      BY <3>1, <3>2 DEF Dir
    <3> QED BY <1>2, <2>2, <3>3 DEF Has
  <2>3. CASE a = target[p] /\ disk[a] = None
    BY <1>2, <2>3 DEF RefreshMeta, Types, Has
  <2> QED BY <2>1, <2>2, <2>3
<1> QED BY <1>1, <1>2, QuietStep DEF Steady

LEMMA MeasureDirTracked ==
    ASSUME Types, Placed, TrackedOrInFlight, NEW p \in Procs, MeasureDir(p)
    PROVE  TrackedOrInFlight'
<1>1. \A q \in Procs \ {p} : pc'[q] = pc[q] /\ target'[q] = target[q] /\ sweep'[q] = sweep[q]
  BY DEF MeasureDir, Goto, Types
<1>2. ASSUME NEW a \in Adapters, Has(a)'
      PROVE  \/ a \in ToSet(lru'.order) \/ Responsible(p, a)'
             \/ Has(a) /\ a \notin ToSet(lru.order) /\ ~Responsible(p, a)
  <2>1. UNCHANGED <<disk, lru>> /\ pc[p] = "dirsize"
    BY DEF MeasureDir, store
  <2>2. CASE a = target[p]
    <3>1. disk[a] # None
      BY <1>2, <2>1 DEF Has
    <3>2. pc'[p] = "touch" /\ target'[p] = a
      BY <2>2, <3>1 DEF MeasureDir, Goto, Types
    <3> QED BY <3>2 DEF Responsible
  <2>3. CASE a # target[p]
    BY <1>2, <2>1, <2>3 DEF Responsible, Has
  <2> QED BY <2>2, <2>3
<1> QED BY <1>1, <1>2, BusyStep

LEMMA TouchTracked ==
    ASSUME Types, Placed, TrackedOrInFlight, NEW p \in Procs, Touch(p)
    PROVE  TrackedOrInFlight'
<1>1. \A q \in Procs \ {p} : pc'[q] = pc[q] /\ target'[q] = target[q] /\ sweep'[q] = sweep[q]
  BY DEF Touch, Goto, Types
<1>2. ASSUME NEW a \in Adapters, Has(a)'
      PROVE  \/ a \in ToSet(lru'.order) \/ Responsible(p, a)'
             \/ Has(a) /\ a \notin ToSet(lru.order) /\ ~Responsible(p, a)
  <2>1. UNCHANGED disk /\ pc[p] = "touch" /\ lru' = LRUTouch(lru, target[p], sz[p])
    BY DEF Touch
  <2>2. target[p] \in Adapters /\ sz[p] \in Nat
    BY <2>1 DEF Types, Placed
  <2>3. ToSet(lru.order) \cup {target[p]} \subseteq ToSet(lru'.order)
    BY <2>1, <2>2, TouchKeeps DEF Types
  <2> QED BY <1>2, <2>1, <2>3 DEF Responsible, Has
<1> QED BY <1>1, <1>2, BusyStep

LEMMA EvictOldestTracked ==
    ASSUME Types, Placed, TrackedOrInFlight, NEW p \in Procs, EvictOldest(p)
    PROVE  TrackedOrInFlight'
<1>1. \A q \in Procs \ {p} : pc'[q] = pc[q] /\ target'[q] = target[q] /\ sweep'[q] = sweep[q]
  BY DEF EvictOldest, Goto, Types
<1>2. ASSUME NEW a \in Adapters, Has(a)'
      PROVE  \/ a \in ToSet(lru'.order) \/ Responsible(p, a)'
             \/ Has(a) /\ a \notin ToSet(lru.order) /\ ~Responsible(p, a)
  <2>1. /\ UNCHANGED disk /\ pc[p] = "evict" /\ lru' = LRUEvict(lru, sz[p])
        /\ sweep'[p] = LRUEvicted(lru, sz[p])
        /\ pc'[p] = IF sweep'[p] = <<>> THEN "clear" ELSE "sweep"
    BY DEF EvictOldest, Types, Goto
  <2>2. /\ ToSet(lru.order) \subseteq ToSet(lru'.order) \cup ToSet(sweep'[p])
        /\ sweep'[p] \in Seq(Adapters)
    <3>1. lru.order \in Seq(Adapters) /\ lru.size \in [Adapters -> Nat]
      BY DEF Types
    <3>2. /\ LRUEvicted(lru, sz[p]) \in Seq(Adapters)
          /\ ToSet(lru.order) \subseteq ToSet(LRUEvict(lru, sz[p]).order)
                                           \cup ToSet(LRUEvicted(lru, sz[p]))
      BY <3>1, EvictKeeps
    <3> QED BY <2>1, <3>2
  <2>3. CASE a \in ToSet(sweep'[p])
    <3>1. sweep'[p] # <<>>
      BY <2>2, <2>3, ToSetOfSeq
    <3> QED BY <2>1, <2>3, <3>1 DEF Responsible
  <2>4. CASE a \notin ToSet(sweep'[p])
    BY <1>2, <2>1, <2>2, <2>4 DEF Responsible, Has
  <2> QED BY <2>3, <2>4
<1> QED BY <1>1, <1>2, BusyStep

LEMMA SweepOneTracked ==
    ASSUME Types, Placed, TrackedOrInFlight, NEW p \in Procs, SweepOne(p)
    PROVE  TrackedOrInFlight'
<1>1. \A q \in Procs \ {p} : pc'[q] = pc[q] /\ target'[q] = target[q] /\ sweep'[q] = sweep[q]
  BY DEF SweepOne, Goto, Types
<1>2. ASSUME NEW a \in Adapters, Has(a)'
      PROVE  \/ a \in ToSet(lru'.order) \/ Responsible(p, a)'
             \/ Has(a) /\ a \notin ToSet(lru.order) /\ ~Responsible(p, a)
  <2>1. /\ UNCHANGED lru /\ pc[p] = "sweep" /\ disk' = [disk EXCEPT ![Head(sweep[p])] = None]
        /\ sweep'[p] = Tail(sweep[p])
        /\ pc'[p] = IF sweep'[p] = <<>> THEN "clear" ELSE "sweep"
    BY DEF SweepOne, Types, Goto
  <2>2. sweep[p] \in Seq(Adapters) /\ sweep[p] # <<>>
    BY <2>1 DEF Types, Placed
  <2>3. a # Head(sweep[p]) /\ Has(a)
    BY <1>2, <2>1 DEF Types, Has
  <2>4. CASE a \in ToSet(sweep[p])
    <3>1. a \in ToSet(sweep'[p]) /\ sweep'[p] # <<>>
      BY <2>1, <2>2, <2>3, <2>4, ToSetOfTail
    <3> QED BY <2>1, <3>1 DEF Responsible
  <2>5. CASE a \notin ToSet(sweep[p])
    BY <2>1, <2>3, <2>5 DEF Responsible
  <2> QED BY <2>4, <2>5
<1> QED BY <1>1, <1>2, BusyStep

LEMMA RenameTracked ==
    ASSUME Types, Placed, TrackedOrInFlight, NEW p \in Procs, Rename(p)
    PROVE  TrackedOrInFlight'
<1>1. \A q \in Procs \ {p} : pc'[q] = pc[q] /\ target'[q] = target[q] /\ sweep'[q] = sweep[q]
  BY DEF Rename, Goto, Types
<1>2. ASSUME NEW a \in Adapters, Has(a)'
      PROVE  \/ a \in ToSet(lru'.order) \/ Responsible(p, a)'
             \/ Has(a) /\ a \notin ToSet(lru.order) /\ ~Responsible(p, a)
  <2>1. UNCHANGED lru /\ pc[p] = "rename" /\ target'[p] = target[p]
    BY DEF Rename
  <2>2. CASE UNCHANGED disk
    BY <1>2, <2>1, <2>2 DEF Responsible, Has
  <2>3. CASE ~UNCHANGED disk
    <3>1. disk' = [disk EXCEPT ![target[p]] = tmp[TmpDir(p)]] /\ pc'[p] = "dirsize"
      BY <2>3 DEF Rename, Goto, Types
    <3>2. CASE a = target[p]
      BY <2>1, <3>1, <3>2 DEF Responsible
    <3>3. CASE a # target[p]
      BY <1>2, <2>1, <3>1, <3>3 DEF Responsible, Has, Types
    <3> QED BY <3>2, <3>3
  <2> QED BY <2>2, <2>3
<1> QED BY <1>1, <1>2, BusyStep

LEMMA RemoveFromLRUTracked ==
    ASSUME Types, Placed, TrackedOrInFlight, NEW p \in Procs, RemoveFromLRU(p)
    PROVE  TrackedOrInFlight'
<1>1. \A q \in Procs \ {p} : pc'[q] = pc[q] /\ target'[q] = target[q] /\ sweep'[q] = sweep[q]
  BY DEF RemoveFromLRU, Goto, Types
<1>2. ASSUME NEW a \in Adapters, Has(a)'
      PROVE  \/ a \in ToSet(lru'.order) \/ Responsible(p, a)'
             \/ Has(a) /\ a \notin ToSet(lru.order) /\ ~Responsible(p, a)
  <2>1. /\ UNCHANGED disk /\ pc[p] = "removelru" /\ lru' = LRURemove(lru, target[p])
        /\ pc'[p] = "removedir" /\ target'[p] = target[p]
    BY DEF RemoveFromLRU, Goto, Types
  <2>2. ToSet(lru.order) \ {target[p]} \subseteq ToSet(lru'.order)
    BY <2>1, RemoveKeeps DEF Types, Placed
  <2> QED BY <1>2, <2>1, <2>2 DEF Responsible, Has
<1> QED BY <1>1, <1>2, BusyStep

LEMMA RemoveDirTracked ==
    ASSUME Types, Placed, TrackedOrInFlight, NEW p \in Procs, RemoveDir(p)
    PROVE  TrackedOrInFlight'
<1>1. \A q \in Procs \ {p} : pc'[q] = pc[q] /\ target'[q] = target[q] /\ sweep'[q] = sweep[q]
  BY DEF RemoveDir, End, Goto, Types
<1>2. ASSUME NEW a \in Adapters, Has(a)'
      PROVE  \/ a \in ToSet(lru'.order) \/ Responsible(p, a)'
             \/ Has(a) /\ a \notin ToSet(lru.order) /\ ~Responsible(p, a)
  <2>1. UNCHANGED lru /\ pc[p] = "removedir" /\ disk' = [disk EXCEPT ![target[p]] = None]
    BY DEF RemoveDir
  <2>2. a # target[p] /\ Has(a)
    BY <1>2, <2>1 DEF Has, Types
  <2> QED BY <2>1, <2>2 DEF Responsible
<1> QED BY <1>1, <1>2, BusyStep

LEMMA StepTracked ==
    ASSUME Types, Placed, TrackedOrInFlight, NEW p \in Procs, Step(p)
    PROVE  TrackedOrInFlight'
BY CheckHasTracked, MeasureDirTracked, TouchTracked, ReturnTracked, ReplyTracked,
   BeginFetchTracked, DescribeRepoTracked, DownloadTracked, SkipFileTracked, BreakFileTracked,
   LoseTmpTracked, CheckFetchedTracked, WriteMetaTracked, MeasureTmpTracked, EvictOldestTracked,
   SweepOneTracked, ClearDstTracked, RenameTracked, CleanupTracked, CheckMetaTracked, MarkRevalidatingTracked,
   HeadOriginTracked, RefreshMetaTracked, UnmarkTracked, RemoveFromLRUTracked, RemoveDirTracked DEF Step

\* The steps that start a call, and those of the environment.
LEMMA EnvTracked ==
    ASSUME Types, Placed, TrackedOrInFlight,
           \/ \E p \in Requests, a \in Adapters : EnsureAdapter(p, a)
           \/ \E p \in Evictors, a \in Adapters : EvictAdapter(p, a)
           \/ \E o \in Origins, a \in Adapters, fs \in PublishSets : Publish(o, a, fs)
           \/ \E a \in Adapters : Expire(a)
    PROVE  TrackedOrInFlight'
<1>1. CASE \E p \in Requests, a \in Adapters : EnsureAdapter(p, a)
  <2>1. PICK p \in Procs, a \in Adapters : EnsureAdapter(p, a)
    BY <1>1 DEF Procs
  <2>2. (\A q \in Procs : Steady(q)) /\ UNCHANGED <<disk, lru, sweep>>
    BY <2>1 DEF EnsureAdapter, Goto, Steady, Duties, Types, store
  <2> QED BY <2>2, QuietStep DEF Has
<1>2. CASE \E p \in Evictors, a \in Adapters : EvictAdapter(p, a)
  <2>1. PICK p \in Procs, a \in Adapters : EvictAdapter(p, a)
    BY <1>2 DEF Procs
  <2>2. (\A q \in Procs : Steady(q)) /\ UNCHANGED <<disk, lru, sweep>>
    BY <2>1 DEF EvictAdapter, Goto, Steady, Duties, Types, store
  <2> QED BY <2>2, QuietStep DEF Has
<1>3. CASE \E o \in Origins, a \in Adapters, fs \in PublishSets : Publish(o, a, fs)
  <2>1. UNCHANGED <<disk, lru, sweep, pc, target>>
    BY <1>3 DEF Publish, store
  <2> QED BY <2>1, QuietStep DEF Has, Steady
<1>4. CASE \E a \in Adapters : Expire(a)
  <2>1. PICK a \in Adapters : Expire(a)
    BY <1>4
  <2>2. UNCHANGED <<lru, sweep, pc, target>>
    BY <2>1 DEF Expire
  <2>3. ASSUME NEW b \in Adapters, Has(b)' PROVE Has(b)
    <3>1. CASE b = a
      <4>1. disk[a] \in Dir
        BY <2>1 DEF Expire, Types
      <4>2. disk'[a] = [disk[a] EXCEPT !.meta = [disk[a].meta EXCEPT !.fresh = FALSE]]
        BY <2>1 DEF Expire, Types
      <4>3. disk'[a].cfg = disk[a].cfg /\ disk[a] # None
        BY <4>1, <4>2, <2>1 DEF Dir, Expire
      <4> QED BY <2>3, <3>1, <4>3 DEF Has
    <3>2. CASE b # a
      BY <2>1, <2>3, <3>2 DEF Expire, Has, Types
    <3> QED BY <3>1, <3>2
  <2> QED BY <2>2, <2>3, QuietStep DEF Steady
<1> QED BY <1>1, <1>2, <1>3, <1>4

LEMMA NextTracked ==
    Types /\ Placed /\ TrackedOrInFlight /\ [Next]_vars => TrackedOrInFlight'
<1> SUFFICES ASSUME Types, Placed, TrackedOrInFlight, [Next]_vars
             PROVE  TrackedOrInFlight'
  OBVIOUS
<1>1. CASE UNCHANGED vars
  BY <1>1, QuietStep DEF vars, Has, Steady
<1>2. CASE Crash
  BY <1>2, CrashType DEF TrackedOrInFlight
<1>3. CASE \E p \in Procs : Step(p)
  BY <1>3, StepTracked
<1> QED BY <1>1, <1>2, <1>3, EnvTracked DEF Next

\* No stored adapter escapes the LRU index: whatever goroutines interleave, what
\* origins fail and when the node crashes, an adapter that Store.Has finds is
\* indexed, or a running goroutine is about to index or delete it.
THEOREM StoredIsTracked == Spec => []TrackedOrInFlight
<1>1. Init => TrackedOrInFlight
  BY DEF Init, TrackedOrInFlight, Has
<1>2. Spec => [](Types /\ Placed)
  BY TypesHold
<1> QED BY <1>1, <1>2, NextTracked, PTL DEF Spec

-----------------------------------------------------------------------------
(* MixedOnlyBySafeID is inductive                                           *)

\* The files of directory d were downloaded for adapters with temporary directory t.
Own(d, t) == d # None => /\ d.cfg # None => TmpOf[d.cfg.ad] = t
                         /\ d.mdl # None => TmpOf[d.mdl.ad] = t

\* Directory d holds no other files than e.
Part(d, e) == d # None => /\ d.cfg # None => e # None /\ d.cfg = e.cfg
                          /\ d.mdl # None => e # None /\ d.mdl = e.mdl

\* MixedOnlyBySafeID, directory by directory.
LEMMA OwnByDirectory ==
    /\ MixedOnlyBySafeID <=> /\ \A a \in Adapters : Own(disk[a], TmpOf[a])
                             /\ \A t \in TmpDirs : Own(tmp[t], t)
    /\ MixedOnlyBySafeID' <=> /\ \A a \in Adapters : Own(disk'[a], TmpOf[a])
                              /\ \A t \in TmpDirs : Own(tmp'[t], t)
BY DEF MixedOnlyBySafeID, Own, Files

\* A step that brings no files from elsewhere: a directory keeps some of its files, or
\* an adapter's temporary directory is moved to its place.
LEMMA NothingNewOwn ==
    ASSUME MixedOnlyBySafeID,
           \A a \in Adapters : Part(disk'[a], disk[a]) \/ Part(disk'[a], tmp[TmpOf[a]]),
           \A t \in TmpDirs : Part(tmp'[t], tmp[t])
    PROVE  MixedOnlyBySafeID'
<1>1. \A a \in Adapters : TmpOf[a] \in TmpDirs
  BY CacheAssumption
<1>2. \A d, e, t : Part(d, e) /\ Own(e, t) => Own(d, t)
  BY DEF Own, Part
<1> QED BY <1>1, <1>2, OwnByDirectory

\* A step that leaves the directories alone.
LEMMA UnchangedOwn ==
    ASSUME MixedOnlyBySafeID, UNCHANGED <<disk, tmp>>
    PROVE  MixedOnlyBySafeID'
BY NothingNewOwn DEF Part

\* A step that removes or replaces one stored directory.
LEMMA DiskOwn ==
    ASSUME Types, MixedOnlyBySafeID, NEW b \in Adapters, NEW d, disk' = [disk EXCEPT ![b] = d],
           Part(d, disk[b]), UNCHANGED tmp
    PROVE  MixedOnlyBySafeID'
BY NothingNewOwn DEF Part, Types

\* A step that removes, empties or cuts down one temporary directory.
LEMMA TmpOwn ==
    ASSUME Types, MixedOnlyBySafeID, NEW t \in TmpDirs, NEW d, tmp' = [tmp EXCEPT ![t] = d],
           Part(d, tmp[t]), UNCHANGED disk
    PROVE  MixedOnlyBySafeID'
BY NothingNewOwn DEF Part, Types

\* A download into the temporary directory of its adapter.
LEMMA FileOwn ==
    ASSUME Types, Placed, MixedOnlyBySafeID, NEW p \in Procs, pc[p] \in Files,
           NEW v \in 0..MaxVersion,
           tmp' = [tmp EXCEPT ![TmpDir(p)] =
                     [DestDir(p) EXCEPT ![pc[p]] = [ad |-> target[p], ver |-> v]]],
           UNCHANGED disk
    PROVE  MixedOnlyBySafeID'
<1> DEFINE b == target[p]
           d == [DestDir(p) EXCEPT ![pc[p]] = [ad |-> b, ver |-> v]]
<1>1. b \in Adapters /\ TmpDir(p) = TmpOf[b] /\ TmpOf[b] \in TmpDirs
  BY CacheAssumption DEF Placed, Files, TmpDir
<1>2. DestDir(p) \in Dir /\ Own(DestDir(p), TmpOf[b])
  <2>1. EmptyDir \in Dir /\ Own(EmptyDir, TmpOf[b])
    BY DEF EmptyDir, Dir, Own
  <2>2. tmp[TmpOf[b]] \in Dir \cup {None} /\ Own(tmp[TmpOf[b]], TmpOf[b])
    BY <1>1, OwnByDirectory DEF Types
  <2> QED BY <1>1, <2>1, <2>2 DEF DestDir
<1>3. Own(d, TmpOf[b])
  <2>1. CASE pc[p] = "cfg"
    <3>1. d.cfg = [ad |-> b, ver |-> v] /\ d.mdl = DestDir(p).mdl
      BY <1>2, <2>1 DEF Dir
    <3>2. DestDir(p) # None
      BY <1>2, NoneAssumption
    <3> QED BY <1>2, <3>1, <3>2 DEF Own
  <2>2. CASE pc[p] = "mdl"
    <3>1. d.mdl = [ad |-> b, ver |-> v] /\ d.cfg = DestDir(p).cfg
      BY <1>2, <2>2 DEF Dir
    <3>2. DestDir(p) # None
      BY <1>2, NoneAssumption
    <3> QED BY <1>2, <3>1, <3>2 DEF Own
  <2> QED BY <2>1, <2>2 DEF Files
<1>4. \A a \in Adapters : Own(disk'[a], TmpOf[a])
  BY OwnByDirectory
<1>5. ASSUME NEW t \in TmpDirs PROVE Own(tmp'[t], t)
  <2>1. CASE t = TmpOf[b]
    BY <1>1, <1>3, <2>1 DEF Types
  <2>2. CASE t # TmpOf[b]
    <3>1. tmp'[t] = tmp[t]
      BY <1>1, <2>2 DEF Types
    <3> QED BY <3>1, OwnByDirectory
  <2> QED BY <2>1, <2>2
<1> QED BY <1>4, <1>5, OwnByDirectory

\* The actions that leave the directories alone.
LEMMA StepUnchanged ==
    ASSUME NEW p \in Procs,
           \/ CheckHas(p) \/ MeasureDir(p) \/ Touch(p) \/ Return(p) \/ Reply(p)
           \/ DescribeRepo(p) \/ SkipFile(p) \/ LoseTmp(p) \/ CheckFetched(p) \/ MeasureTmp(p)
           \/ EvictOldest(p) \/ CheckMeta(p) \/ MarkRevalidating(p) \/ HeadOrigin(p) \/ Unmark(p)
           \/ RemoveFromLRU(p)
    PROVE  UNCHANGED <<disk, tmp>>
BY DEF CheckHas, MeasureDir, Touch, Return, Reply, DescribeRepo, SkipFile, LoseTmp,
       CheckFetched, MeasureTmp, EvictOldest, CheckMeta, MarkRevalidating, HeadOrigin,
       Unmark, RemoveFromLRU, store

\* Steps of goroutines, one case per action that touches a directory.
LEMMA StepOwn ==
    ASSUME Types, Placed, MixedOnlyBySafeID, NEW p \in Procs, Step(p)
    PROVE  MixedOnlyBySafeID'
<1> DEFINE b == target[p]
           t == TmpDir(p)
<1>0. ASSUME pc[p] # "idle"
      PROVE  b \in Adapters /\ t = TmpOf[b] /\ t \in TmpDirs
  BY <1>0, CacheAssumption DEF Placed, TmpDir
<1>1. CASE BeginFetch(p)
  BY <1>0, <1>1, TmpOwn DEF BeginFetch, Part, EmptyDir
<1>2. CASE Download(p)
  <2>1. Served(p)[pc[p]] \in 0..MaxVersion /\ pc[p] \in Files /\ pc[p] # "idle"
    BY <1>0, <1>2 DEF Download, Served, Types, Content, Files
  <2> QED BY <1>2, <2>1, FileOwn DEF Download
<1>3. CASE BreakFile(p)
  <2>1. pc[p] \in Files /\ pc[p] # "idle" /\ 0 \in 0..MaxVersion /\ UNCHANGED disk
    BY <1>3, CacheAssumption DEF BreakFile, Files
  <2>2. CASE tmp' = [tmp EXCEPT ![t] = [DestDir(p) EXCEPT ![pc[p]] = [ad |-> b, ver |-> 0]]]
    BY <2>1, <2>2, FileOwn
  <2>3. CASE tmp' = [tmp EXCEPT ![t] = DestDir(p)]
    <3>1. Part(DestDir(p), tmp[t])
      BY DEF DestDir, Part, EmptyDir
    <3> QED BY <1>0, <2>1, <2>3, <3>1, TmpOwn
  <2> QED BY <1>3, <2>2, <2>3 DEF BreakFile
<1>4. CASE WriteMeta(p)
  <2>1. CASE tmp[t] = None
    BY <1>4, <2>1, UnchangedOwn DEF WriteMeta
  <2>2. CASE tmp[t] # None
    <3>1. tmp' = [tmp EXCEPT ![t] = [tmp[t] EXCEPT !.meta = [id |-> cid[p], fresh |-> TRUE]]]
          /\ UNCHANGED disk /\ pc[p] # "idle"
      BY <1>4, <2>2 DEF WriteMeta
    <3>2. tmp[t] \in Dir
      BY <1>0, <2>2, <3>1 DEF Types
    <3>3. Part([tmp[t] EXCEPT !.meta = [id |-> cid[p], fresh |-> TRUE]], tmp[t])
      BY <2>2, <3>2 DEF Part, Dir
    <3> QED BY <1>0, <3>1, <3>3, TmpOwn
  <2> QED BY <2>1, <2>2
<1>5. CASE SweepOne(p)
  <2>1. sweep[p] \in Seq(Adapters) /\ sweep[p] # <<>>
    BY <1>5 DEF SweepOne, Types, Placed
  <2>2. Head(sweep[p]) \in Adapters
    BY <2>1, HeadTailProperties
  <2>3. disk' = [disk EXCEPT ![Head(sweep[p])] = None] /\ UNCHANGED tmp
    BY <1>5 DEF SweepOne
  <2> QED BY <2>2, <2>3, DiskOwn DEF Part
<1>6. CASE ClearDst(p)
  BY <1>0, <1>6, DiskOwn DEF ClearDst, Part
<1>7. CASE Rename(p)
  <2>1. pc[p] # "idle"
    BY <1>7 DEF Rename
  <2>2. CASE tmp[t] # None /\ disk[b] = None
    <3>1. disk' = [disk EXCEPT ![b] = tmp[t]] /\ tmp' = [tmp EXCEPT ![t] = None]
      BY <1>7, <2>2 DEF Rename
    <3>2. \A a \in Adapters : Part(disk'[a], disk[a]) \/ Part(disk'[a], tmp[TmpOf[a]])
      BY <1>0, <2>1, <3>1 DEF Part, Types
    <3>3. \A u \in TmpDirs : Part(tmp'[u], tmp[u])
      BY <1>0, <2>1, <3>1 DEF Part, Types
    <3> QED BY <3>2, <3>3, NothingNewOwn
  <2>3. CASE ~(tmp[t] # None /\ disk[b] = None)
    BY <1>7, <2>3, UnchangedOwn DEF Rename
  <2> QED BY <2>2, <2>3
<1>8. CASE Cleanup(p)
  BY <1>0, <1>8, TmpOwn DEF Cleanup, Part
<1>9. CASE RefreshMeta(p)
  <2>1. b \in Adapters /\ disk[b] \in Dir \cup {None} /\ UNCHANGED tmp
    BY <1>0, <1>9 DEF RefreshMeta, Types
  <2>2. disk' = [disk EXCEPT ![b] = IF disk[b] = None THEN None
                                    ELSE [disk[b] EXCEPT !.meta = [id |-> cid[p], fresh |-> TRUE]]]
    BY <1>9 DEF RefreshMeta
  <2>3. CASE disk[b] = None
    BY <2>1, <2>2, <2>3, DiskOwn DEF Part
  <2>4. CASE disk[b] # None
    <3>1. Part([disk[b] EXCEPT !.meta = [id |-> cid[p], fresh |-> TRUE]], disk[b])
      BY <2>1, <2>4 DEF Part, Dir
    <3> QED BY <2>1, <2>2, <2>4, <3>1, DiskOwn
  <2> QED BY <2>3, <2>4
<1>10. CASE RemoveDir(p)
  BY <1>0, <1>10, DiskOwn DEF RemoveDir, Part
<1> QED
  BY <1>1, <1>2, <1>3, <1>4, <1>5, <1>6, <1>7, <1>8, <1>9, <1>10, StepUnchanged, UnchangedOwn
     DEF Step

\* Whatever a crash interrupts leaves some of the files that were there.
LEMMA DebrisPart ==
    ASSUME Types, NEW a \in Adapters, NEW d \in Debris(a)
    PROVE  Part(d, disk[a])
<1>1. disk[a] \in Dir \cup {None}
  BY DEF Types
<1>2. CASE disk[a] = None
  BY <1>2 DEF Debris, Part
<1>3. CASE disk[a] # None
  <2>1. CASE d = disk[a]
    BY <2>1, <1>3 DEF Part
  <2>2. CASE d \in [cfg : {disk[a].cfg, None}, mdl : {disk[a].mdl, None},
                    meta : {disk[a].meta, None}]
    BY <2>2, <1>3 DEF Part
  <2>3. CASE d = [disk[a] EXCEPT !.meta = None]
    BY <2>3, <1>1, <1>3 DEF Part, Dir
  <2> QED BY <1>3, <2>1, <2>2, <2>3 DEF Debris
<1> QED BY <1>2, <1>3

\* So a crash brings no file under another adapter.
LEMMA CrashOwn ==
    ASSUME Types, MixedOnlyBySafeID, Crash
    PROVE  MixedOnlyBySafeID'
<1>1. \A a \in Adapters : disk'[a] \in Debris(a)
  BY DEF Crash
<1>2. UNCHANGED tmp
  BY DEF Crash
<1> QED BY <1>1, <1>2, DebrisPart, NothingNewOwn DEF Part

\* What Store.Path holds for an adapter was downloaded for an adapter with the same
\* safeID (fetchFromOrigin replaces "/" by "__"), however many goroutines, adapters and
\* revalidations share temporary directories, whatever an origin's failed Fetch leaves
\* behind and when the node crashes; so where safeIDs differ, files do not mix.
THEOREM FilesMixOnlyBySafeID == Spec => []MixedOnlyBySafeID
<1>1. Init => MixedOnlyBySafeID
  BY CacheAssumption, OwnByDirectory DEF Init, Own
<1>2. Types /\ Placed /\ MixedOnlyBySafeID /\ [Next]_vars => MixedOnlyBySafeID'
  <2> SUFFICES ASSUME Types, Placed, MixedOnlyBySafeID, [Next]_vars PROVE MixedOnlyBySafeID'
    OBVIOUS
  <2>1. CASE \E p \in Procs : Step(p)
    BY <2>1, StepOwn
  <2>2. CASE \E a \in Adapters : Expire(a)
    <3>1. PICK a \in Adapters : Expire(a)
      BY <2>2
    <3>2. disk[a] \in Dir /\ disk[a] # None /\ UNCHANGED tmp
      BY <3>1 DEF Expire, Types
    <3>3. disk' = [disk EXCEPT ![a] = [disk[a] EXCEPT !.meta = [disk[a].meta EXCEPT !.fresh = FALSE]]]
      BY <3>1 DEF Expire
    <3>4. Part([disk[a] EXCEPT !.meta = [disk[a].meta EXCEPT !.fresh = FALSE]], disk[a])
      BY <3>2 DEF Part, Dir
    <3> QED BY <3>2, <3>3, <3>4, DiskOwn
  <2>3. CASE Crash
    BY <2>3, CrashOwn
  <2>4. CASE \/ \E p \in Requests, a \in Adapters : EnsureAdapter(p, a)
             \/ \E p \in Evictors, a \in Adapters : EvictAdapter(p, a)
             \/ \E o \in Origins, a \in Adapters, fs \in PublishSets : Publish(o, a, fs)
             \/ UNCHANGED vars
    BY <2>4, UnchangedOwn DEF EnsureAdapter, EvictAdapter, Publish, vars, store
  <2> QED BY <2>1, <2>2, <2>3, <2>4 DEF Next
<1>3. Spec => [](Types /\ Placed)
  BY TypesHold
<1> QED BY <1>1, <1>2, <1>3, PTL DEF Spec

-----------------------------------------------------------------------------
(* IndexConsistent is inductive                                             *)

\* Rebuild makes a consistent index: it lists what it found once, since it lists as
\* many adapters as it found.
LEMMA RebuiltConsistent ==
    ASSUME NEW d \in [Adapters -> Dir \cup {None}], NEW l \in Rebuilt(d)
    PROVE  IsLRU(l) /\ SizesAddUp(l)
<1> DEFINE found == {a \in Adapters : d[a] # None /\ d[a].cfg # None}
           n == Cardinality(found)
<1>1. /\ l.order \in [1..n -> found] /\ ToSet(l.order) = found
      /\ l.curSize = SumFunctionOnSet(l.size, found)
  BY DEF Rebuilt
<1>2. l.order \in Seq(Adapters) /\ l.size \in [Adapters -> Nat]
  BY RebuiltType
<1>3. IsFiniteSet(found) /\ n \in Nat
  BY CacheAssumption, FS_Subset, FS_CardinalityType
<1> HIDE DEF found, n
<1>4. IsFiniteSet(1..n) /\ Cardinality(1..n) = n
  BY <1>3, FS_Interval
<1>5. Len(l.order) = n
  BY <1>1, <1>2, <1>3, LenProperties
<1>6. l.order \in Surjection(1..n, found)
  <2>1. \A e \in found : \E i \in 1..n : l.order[i] = e
    BY <1>1, <1>2, <1>5, ToSetOfSeq
  <2> QED BY <1>1, <2>1 DEF Surjection
<1>7. l.order \in Injection(1..n, found)
  BY <1>3, <1>4, <1>6, FS_Surjection DEF n
<1>8. IsInjective(l.order)
  BY <1>7 DEF Injection
<1> QED BY <1>1, <1>2, <1>8 DEF IsLRU, SizesAddUp

\* The index after a step.
LEMMA IndexNext ==
    ASSUME NEW l, IsLRU(l), SizesAddUp(l), lru' = l
    PROVE  IndexConsistent'
BY DEF IndexConsistent, IsLRU, SizesAddUp

\* Touch, Evict and Remove are the steps of a goroutine that change the index.
LEMMA StepIndex ==
    ASSUME Types, Placed, IndexConsistent, NEW p \in Procs, Step(p)
    PROVE  IndexConsistent'
<1>0. IsLRU(lru) /\ SizesAddUp(lru)
  BY DEF IndexConsistent
<1>1. ASSUME pc[p] # "idle" PROVE target[p] \in Adapters
  BY <1>1 DEF Placed
<1>2. sz[p] \in Nat
  BY DEF Types
<1>3. CASE Touch(p)
  <2>1. lru' = LRUTouch(lru, target[p], sz[p]) /\ target[p] \in Adapters
    BY <1>1, <1>3 DEF Touch
  <2>2. IsLRU(LRUTouch(lru, target[p], sz[p])) /\ SizesAddUp(LRUTouch(lru, target[p], sz[p]))
    BY <2>1, <1>0, <1>2, TouchConsistent
  <2> QED BY <2>1, <2>2, IndexNext
<1>4. CASE EvictOldest(p)
  <2>1. lru' = LRUEvict(lru, sz[p])
    BY <1>4 DEF EvictOldest
  <2>2. IsLRU(LRUEvict(lru, sz[p])) /\ SizesAddUp(LRUEvict(lru, sz[p]))
    BY <1>0, EvictConsistent
  <2> QED BY <2>1, <2>2, IndexNext
<1>5. CASE RemoveFromLRU(p)
  <2>1. lru' = LRURemove(lru, target[p]) /\ target[p] \in Adapters
    BY <1>1, <1>5 DEF RemoveFromLRU
  <2>2. IsLRU(LRURemove(lru, target[p])) /\ SizesAddUp(LRURemove(lru, target[p]))
    BY <2>1, <1>0, RemoveConsistent
  <2> QED BY <2>1, <2>2, IndexNext
<1>6. CASE UNCHANGED lru
  BY <1>6 DEF IndexConsistent, IsLRU, SizesAddUp
<1>7. \/ Touch(p) \/ EvictOldest(p) \/ RemoveFromLRU(p) \/ UNCHANGED lru
  <2>1. CASE CheckHas(p) \/ MeasureDir(p) \/ Return(p) \/ Reply(p)
    BY <2>1 DEF CheckHas, MeasureDir, Return, Reply, store
  <2>2. CASE BeginFetch(p) \/ DescribeRepo(p) \/ Download(p) \/ SkipFile(p) \/ BreakFile(p)
    BY <2>2 DEF BeginFetch, DescribeRepo, Download, SkipFile, BreakFile, store
  <2>3. CASE LoseTmp(p) \/ CheckFetched(p) \/ WriteMeta(p) \/ MeasureTmp(p) \/ SweepOne(p)
    BY <2>3 DEF LoseTmp, CheckFetched, WriteMeta, MeasureTmp, SweepOne, store
  <2>4. CASE ClearDst(p) \/ Rename(p) \/ Cleanup(p) \/ CheckMeta(p) \/ MarkRevalidating(p)
    BY <2>4 DEF ClearDst, Rename, Cleanup, CheckMeta, MarkRevalidating, store
  <2>5. CASE HeadOrigin(p) \/ RefreshMeta(p) \/ Unmark(p) \/ RemoveDir(p)
    BY <2>5 DEF HeadOrigin, RefreshMeta, Unmark, RemoveDir, store
  <2> QED BY <2>1, <2>2, <2>3, <2>4, <2>5 DEF Step
<1> QED BY <1>3, <1>4, <1>5, <1>6, <1>7

\* The LRU index lists an adapter once and its curSize is the sum of the listed
\* sizes, for any number of goroutines that touch, evict and remove, and after every
\* crash and Rebuild.
THEOREM IndexStaysConsistent == Spec => []IndexConsistent
<1>1. Init => IndexConsistent
  <2> SUFFICES ASSUME Init PROVE IndexConsistent
    OBVIOUS
  <2>1. lru = NewLRU
    BY DEF Init
  <2> QED BY <2>1, NewConsistent DEF IndexConsistent
<1>2. Types /\ Placed /\ IndexConsistent /\ [Next]_vars => IndexConsistent'
  <2> SUFFICES ASSUME Types, Placed, IndexConsistent, [Next]_vars PROVE IndexConsistent'
    OBVIOUS
  <2>1. CASE \E p \in Procs : Step(p)
    BY <2>1, StepIndex
  <2>2. CASE Crash
    <3>1. disk' \in [Adapters -> Dir \cup {None}] /\ lru' \in Rebuilt(disk')
      BY <2>2, DebrisType DEF Crash
    <3>2. ASSUME NEW d, d = disk', NEW l, l = lru'
          PROVE  IsLRU(l) /\ SizesAddUp(l)
      BY <3>1, <3>2, RebuiltConsistent
    <3> QED BY <3>2, IndexNext
  <2>3. CASE UNCHANGED lru
    BY <2>3 DEF IndexConsistent, IsLRU, SizesAddUp
  <2>4. \/ \E p \in Procs : Step(p)
        \/ Crash
        \/ UNCHANGED lru
    BY DEF Next, EnsureAdapter, EvictAdapter, Publish, Expire, vars, store
  <2> QED BY <2>1, <2>2, <2>3, <2>4
<1>3. Spec => [](Types /\ Placed)
  BY TypesHold
<1> QED BY <1>1, <1>2, <1>3, PTL DEF Spec

\* Type correctness: for any constants, no interleaving of requests, revalidations,
\* evictions, failures and crashes leaves the declared types, and what LRU.Remove and
\* LRU.Evict subtract never makes curSize negative, since it is a sum of sizes.
THEOREM TypeCorrect == Spec => []TypeOK
<1>1. Types /\ IndexConsistent => TypeOK
  <2> SUFFICES ASSUME Types, IndexConsistent PROVE lru.curSize \in Nat
    BY DEF TypeOK
  <2>1. lru.order \in Seq(Adapters) /\ lru.size \in [Adapters -> Nat]
    BY DEF Types
  <2>2. IsFiniteSet(ToSet(lru.order)) /\ ToSet(lru.order) \subseteq Adapters
    BY <2>1, ToSetFinite, ToSetOfSeq
  <2>3. \A x \in ToSet(lru.order) : lru.size[x] \in Nat
    BY <2>1, <2>2
  <2>4. SumFunctionOnSet(lru.size, ToSet(lru.order)) \in Nat
    BY <2>2, <2>3, SumStep
  <2> QED BY <2>4 DEF IndexConsistent, SizesAddUp
<1> QED BY <1>1, TypesHold, IndexStaysConsistent, PTL

\* A step of one goroutine leaves another where it is, unless that one waits or is idle.
LEMMA OthersStay ==
    ASSUME Types, NEW p \in Procs, NEW q \in Procs, p # q, Step(q), pc[p] = "evict"
    PROVE  pc'[p] = "evict"
<1>1. CASE CheckHas(q) \/ MeasureDir(q) \/ Touch(q) \/ Reply(q) \/ Unmark(q)
  BY <1>1 DEF CheckHas, MeasureDir, Touch, Reply, Unmark, End, Goto, Types
<1>2. CASE Return(q)
  BY <1>2 DEF Return, Types
<1>3. CASE BeginFetch(q) \/ DescribeRepo(q) \/ Download(q) \/ SkipFile(q) \/ BreakFile(q)
  BY <1>3 DEF BeginFetch, DescribeRepo, Download, SkipFile, BreakFile, NextOrigin, AfterFile,
              Goto, Types
<1>4. CASE LoseTmp(q) \/ CheckFetched(q) \/ WriteMeta(q) \/ MeasureTmp(q)
  BY <1>4 DEF LoseTmp, CheckFetched, WriteMeta, MeasureTmp, NextOrigin, Goto, Types
<1>5. CASE EvictOldest(q) \/ SweepOne(q) \/ ClearDst(q) \/ Rename(q) \/ Cleanup(q)
  BY <1>5 DEF EvictOldest, SweepOne, ClearDst, Rename, Cleanup, Goto, Types
<1>6. CASE CheckMeta(q) \/ HeadOrigin(q) \/ RefreshMeta(q) \/ RemoveFromLRU(q)
  BY <1>6 DEF CheckMeta, HeadOrigin, RefreshMeta, RemoveFromLRU, Goto, Types
<1>7. CASE MarkRevalidating(q)
  BY <1>7 DEF MarkRevalidating, Goto, Types
<1>8. CASE RemoveDir(q)
  BY <1>8 DEF RemoveDir, End, Goto, Types
<1> QED BY <1>1, <1>2, <1>3, <1>4, <1>5, <1>6, <1>7, <1>8 DEF Step

\* Only Evict leads a goroutine on from there.
LEMMA NextEvicts ==
    ASSUME Types, Next, NEW p \in Procs, pc[p] = "evict", pc'[p] \in {"sweep", "clear"}
    PROVE  EvictOldest(p)
<1>1. CASE \E q \in Procs : Step(q)
  <2>1. Step(p)
    BY <1>1, OthersStay
  <2>2. ~(CheckHas(p) \/ MeasureDir(p) \/ Touch(p) \/ Return(p) \/ Reply(p) \/ BeginFetch(p))
    BY DEF CheckHas, MeasureDir, Touch, Return, Reply, BeginFetch
  <2>3. ~(DescribeRepo(p) \/ Download(p) \/ SkipFile(p) \/ BreakFile(p) \/ LoseTmp(p))
    BY DEF DescribeRepo, Download, SkipFile, BreakFile, LoseTmp, Files
  <2>4. ~(CheckFetched(p) \/ WriteMeta(p) \/ MeasureTmp(p) \/ SweepOne(p) \/ ClearDst(p))
    BY DEF CheckFetched, WriteMeta, MeasureTmp, SweepOne, ClearDst
  <2>5. ~(Rename(p) \/ Cleanup(p) \/ CheckMeta(p) \/ MarkRevalidating(p) \/ HeadOrigin(p))
    BY DEF Rename, Cleanup, CheckMeta, MarkRevalidating, HeadOrigin
  <2>6. ~(RefreshMeta(p) \/ Unmark(p) \/ RemoveFromLRU(p) \/ RemoveDir(p))
    BY DEF RefreshMeta, Unmark, RemoveFromLRU, RemoveDir
  <2> QED BY <2>1, <2>2, <2>3, <2>4, <2>5, <2>6 DEF Step
<1>2. CASE \/ \E q \in Requests, a \in Adapters : EnsureAdapter(q, a)
           \/ \E q \in Evictors, a \in Adapters : EvictAdapter(q, a)
  BY <1>2 DEF EnsureAdapter, EvictAdapter, Goto, Types, Procs
<1>3. CASE \/ \E o \in Origins, a \in Adapters, fs \in PublishSets : Publish(o, a, fs)
           \/ \E a \in Adapters : Expire(a)
           \/ Crash
  BY <1>3 DEF Publish, Expire, Crash
<1> QED BY <1>1, <1>2, <1>3 DEF Next

\* MakeRoom frees what the new adapter needs, if that is possible at all, on a node with
\* any number of goroutines: curSize is what the index holds, whoever touched it before.
THEOREM MakeRoomSuffices == Spec => RoomIsMade
<1>1. Types /\ IndexConsistent /\ [Next]_vars => [\A p \in Procs : MakesRoom(p)]_vars
  <2> SUFFICES ASSUME Types, IndexConsistent, Next, NEW p \in Procs,
                      pc[p] = "evict", pc'[p] \in {"sweep", "clear"}
               PROVE  lru'.curSize + sz[p] <= MaxSize \/ lru'.order = <<>>
    BY DEF MakesRoom
  <2>1. EvictOldest(p)
    BY NextEvicts
  <2>2. IsLRU(lru) /\ SizesAddUp(lru) /\ sz[p] \in Nat
    BY DEF IndexConsistent, Types
  <2>3. lru' = LRUEvict(lru, sz[p])
    BY <2>1 DEF EvictOldest
  <2> QED BY <2>2, <2>3, EvictMakesRoom
<1> QED BY <1>1, TypesHold, IndexStaysConsistent, PTL DEF Spec, RoomIsMade

=============================================================================
