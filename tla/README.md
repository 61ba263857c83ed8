# loraplex in TLA+

loraplex is a sidecar in front of vLLM. Every node runs one; together they form a
cluster that sends each LoRA adapter's requests to the node that owns the adapter on a
consistent hash ring, and each node fetches the adapters it serves from one or more
origins into a directory that vLLM reads. This directory models that system in TLA+,
checks the models with TLC on small instances, and proves theorems about them with
TLAPS. `PROJECT.json` lists components, runs, mutants, the source lines behind every
definition, findings, hazards and theorems; this file explains them.

Contents: [inventory](#inventory), [modules](#modules), [runs](#runs),
[fairness](#fairness), [proofs](#proofs), [findings](#findings),
[limits](#what-is-left-out), [plan](#plan).

## Inventory

| Component | Source | State it keeps | Operations |
|---|---|---|---|
| Cache manager | `internal/cache/manager.go` | singleflight group, map `revalidating` | `EnsureAdapter`, `fetchFromOrigin`, `maybeRevalidate`, `revalidateAdapter`, `EvictAdapter`, `Rebuild` |
| Store | `internal/cache/store.go` | directories under `BasePath` | `Has`, `Touch`, `MakeRoom`, `Remove`, `Rebuild` |
| LRU index | `internal/cache/lru.go` | list, map of sizes, `curSize` | `Touch`, `Evict`, `Remove`, `Size` |
| Metadata | `internal/cache/meta.go` | `.loraplex_meta` files | `ReadMeta`, `WriteMeta`, `IsExpired` |
| Origins | `internal/origin/*.go` | none (a remote store) | `Fetch`, `Head` |
| Hash ring | `internal/routing/ring.go` | vnodes, map of peers with their load | `Update`, `Owner`, `Fallback`, `UpdatePeerLoad`, `IsSelf` |
| Forwarder | `internal/routing/forwarder.go` | none beyond the handler's locals | `Decide`, `Forward`, `ForwardWithFallback`, `CopyResponse` |
| Proxy | `internal/proxy/proxy.go`, `body.go` | none beyond the handler's locals | `ServeHTTP`, `buildHashKey`, `proxyToVLLM` |
| Health checker | `internal/health/checker.go` | pending count, vLLM flag | `checkPeers`, `checkVLLM`, `Load` |
| Discovery | `internal/discovery/*.go` | last list of peers, heartbeat files | `Start`, `Stop`, `loop`, `writeHeartbeat`, `scan`, `poll`, `fetch`, `SetPeers` and its callback |
| HTTP server | `internal/server/server.go` | none | dispatch, pending count |
| Admin API | `internal/admin/handler.go` | none | evict (local and broadcast), warmup, stats |
| Main, config, metrics | `cmd/loraplex`, `internal/config`, `internal/metrics` | settings, counters | start, stop |

**How they interact.** A request enters `ServeHTTP`, which reads the body's model name
and asks the forwarder. `Decide` looks the key up in the ring and compares the owner's
load with the threshold. If the owner is another node the request is sent there with
`X-Loraplex-Forwarded`, and retried once on the ring's next peer; when that fails too,
or when the owner is this node, `EnsureAdapter` makes the files present and the request
goes to vLLM. `EnsureAdapter` is shared between callers by a singleflight group. A hit
whose TTL has run out starts a background goroutine, outside the group, that compares
content IDs and fetches again if they differ. Discovery calls the ring's `Update` from
its own goroutine; the health checker polls the peers' `/health` and stores their load in
the ring. An administrator's eviction runs on the handler's goroutine, which then sends it
once to every other peer of the ring, without waiting.

**What is hard here.** There are three mutexes (LRU, `revalMu`, ring) and a singleflight
group, each held for one short section; everything between them interleaves. The store is
a filesystem: a stored adapter, its index entry and its meta file change one after the
other, and a crash may fall between any two. Goroutines for one adapter share a temporary
directory. Two nodes' rings differ while discovery catches up, and a handler looks the
ring up more than once. A `*Peer` that a handler has looked up may have been replaced.
Calls to peers and origins fail, break off or time out. Heartbeat files are truncated before
they are written, removed by whoever finds them old, and compared with a clock of another
machine.

**What makes each part correct.**

- *Index and store*: the index lists every stored adapter exactly once, sizes add up,
  nothing stored escapes eviction, also after a crash; `max_size` is kept.
- *Manager*: one fetch leader and one revalidation per adapter; files of adapters with
  different temporary directories are never mixed; every call returns; an adapter that its
  origin serves comes back whatever happened to it.
- *Ring*: the owner is a known peer, and a change of peers moves no key it need not move.
- *Forwarding*: at most one hop, a retry goes to a third node, every request gets an answer or
  an error, unless the vLLM of the node it entered stops in the middle of an answer.
- *Health*: dead peers come to be avoided, live ones to be used.
- *Discovery*: the lists come to be the nodes that run, a dead node leaves them in bounded
  time, and a peer leaves a ring only for a cause of its own.
- *Admin API*: an eviction reaches every peer or is lost on the way, does not go round, and
  lasts unless somebody is working on the adapter.

`PROJECT.json` lists the hazards of this kind, each at its line, with the properties that
would catch it.

## Modules

| Module | Models | State |
|---|---|---|
| `LRU` | `lru.go` as operators on a record `[order, size, curSize]` | none |
| `AdapterService` | what the manager promises, without files, sizes or origins (abstract) | which adapters are there, the shared calls, callers, refreshes |
| `CacheManager` | manager, store, meta, origins, local eviction | directories, index, group, origins' contents, one program counter and locals per goroutine |
| `Ring` | `ring.go` as operators on a sequence of vnodes | none |
| `RingChanges` | one ring under `Update` | hash table, peers, vnodes |
| `Routing` | proxy, forwarder, health checker, per-node rings, crashes | each node's ring and loads, checks under way, one program counter and locals per handler |
| `Discovery` | the three modes of discovery on several nodes | heartbeat files, endpoints, each node's loop and list, time |
| `Evictions` | evict and warmup on a cluster | an `AdapterService` across the nodes, rings' peers, evictions under way |
| `MCCacheManager`, `MCRingChanges`, `MCRouting`, `MCDiscovery`, `MCEvictions` | values for constants | none |
| `LRUProofs`, `RingProofs` | lemmas about the operators of `LRU` (and about sums) and of `Ring` | none |
| `CacheProofs`, `ServiceProofs`, `RingChangesProofs`, `RoutingProofs`, `DiscoveryProofs`, `EvictionsProofs` | theorems | none |

How they compose: `CacheManager` uses the operators of `LRU`, and `RingChanges` and `Routing`
those of `Ring`. `CacheManager` implements `AdapterService` (`ImplementsService`), and
`Evictions` puts an `AdapterService` on every node, so that what is checked of a cluster holds
of clusters of real caches. `Discovery` ends where a list reaches the ring; `Routing` and
`Evictions` begin there, with an action `Update` that reports any list to any node.

### CacheManager

A process is a goroutine: a request in `EnsureAdapter`, a background revalidation, or an
administrator's eviction. A step is one filesystem call, one critical section or one call
to an origin. The program counter's labels are the points between them:

| Labels | Code |
|---|---|
| `has` `dirsize` `touch` `readmeta` `mark` `return` `wait` `reply` | `EnsureAdapter`, `ensureInternal`, `Store.Touch`, `maybeRevalidate` |
| `begin` `info` `cfg` `mdl` `stat` | `fetchFromOrigin` and an origin's `Fetch`, one label per call to the origin |
| `writemeta` `tmpsize` `evict` `sweep` `clear` `rename` `cleanup` | the rest of `fetchFromOrigin`, with `MakeRoom`'s two halves |
| `head` `refresh` `removelru` `removedir` `unmark` | `revalidateAdapter`; `removelru` and `removedir` are also `EvictAdapter` |

A file is the adapter it was downloaded for and a version; version 0 is a torn file. A
directory is a record of a config, a weight file and a meta file, each possibly missing. A
content ID is what the origin's kind makes of the versions: an HTTP or S3 ETag covers the
config alone, a HuggingFace commit both files, and an origin without ETags gives none. Time
is the action `Expire`, which ends the TTL of one meta file. `Publish` changes what an
origin serves. `Crash` stops the node, leaves the directories in any state that an
interrupted `RemoveAll` or `WriteFile` can leave (`Debris`) and runs `Rebuild`, whose order
by modification time is any order.

Temporary directories are a set `TmpDirs` with a map `TmpOf` from adapters, which need not be
injective: `strings.ReplaceAll(id, "/", "__")` gives `x/y` and `x__y` the same name.

### AdapterService

The promise to callers of `EnsureAdapter`: overlapping calls for one adapter share an answer,
"ok" is answered only if the directory was there at some moment of the shared call, and a
directory appears only through a shared call or a refresh under way. The refinement mapping of
`CacheManager` (operators `StageOf` and `CallOf`, at its end) reads the state of the shared call
off the program counter of its leader: before the rename or the successful `Has` it is
"looking", then "found", or "failed" when the error is on its way up. The set `refreshing` is
the map `revalidating`. The promise is deliberately weak about time: an eviction may take the
files away at once, also between the check and the answer.

### Ring and RingChanges

Hashes are naturals given by tables, because only their order around the ring matters.
`sort.Slice` is not stable: `Arrangements` is the set of all sorted orders. `RingChanges`
assumes that no two vnodes have the same hash; with 32-bit hashes collisions are rare, and
with one the owner of the tied keys depends on map order.

### Routing

A handler is the goroutine that serves one HTTP request on one node; handlers of clients'
requests and of forwarded ones are separate sets. A forwarded request links its handler to
the caller's; either may end first. `Decide` takes two steps, because it reads the owner
under the ring's lock and its load after it; `stale` keeps the load of a `*Peer` that an
`Update` in between has replaced. `Poll` and `StoreLoad` are the two halves of a health
check. A node that crashes drops its handlers, its ring and its checks.

vLLM is asked with a `ResponseHeaderTimeout` of 300 seconds (`proxy.go:43`), after which the
handler answers 502: `ProxyToVLLM` either begins the answer or ends the request. No timeout
covers the body. `Hung` is the set of nodes whose vLLM may stop in the middle of one: there
the end of the stream is certain (`StreamEnds`) only for a forwarded request whose sender has given
up, and otherwise merely possible (`HangUp`).

A client is assumed not to send `X-Loraplex-Forwarded` itself; `Arrive` never sets it.

### Discovery

A node's loop has one label per point between two calls: `start` and `select` (before a
round), `write` (between the truncation and the write of `os.WriteFile`), `readdir`, `entry`
and `remove` (the loop of `scan`), `set` (before `SetPeers`). `StopClose` and `StopRemove` are
the two halves of `File.Stop`, beside which the loop goes on; `Exit` ends the process at any
time after them and `Crash` at any time at all. `old` holds the entries that were stale at
`scan`'s `now`; renewing a file takes it out, as its modification time does.

Time is a count of ticks. `Tick` is enabled without counting as a fault only while every node
keeps its rhythm, so that the timing assumption is explicit: rounds are at most `Heartbeat +
Slack` apart, and the clocks of nodes are ahead of the file server's by at most `Skew`, which
is at most the stale threshold. Stalls, failed calls and reads of a file being written are
faults, and `MaxFaults` bounds them; `DeadLeaveInTime` gives a round for each. Every call to the
file system or to the API may fail: `os.ReadDir` and a fetch leave the list as it is, `e.Info` and
`os.ReadFile` skip one entry, which takes a live peer out of the list for a round, `os.Remove`
leaves the file, and `os.WriteFile` leaves it as it was or empty. A heartbeat is written entirely or
not at all.

In mode `k8s` the step `Fetch` is the whole of `fetch`, since it touches shared state once.
`Kubelet` (external) brings an address in or out some time after its node started or ended.

### Evictions

About one adapter: "adapter n" of the service is its copy on node n. A forwarded eviction is a
member of `sent` from the moment its goroutine starts; the code starts them one by one before it
answers, `Broadcast` all at once. It is carried out, fails at the
receiver, or is lost; nothing is retried. `steady` is a history variable: the peers that were
in the ring from the eviction to the broadcast. `wanted` is another: the nodes on which a call
has come since the last eviction, or was under way then.

## Runs

Passing runs. With two workers each takes between a few seconds and three minutes.

| Run | Question | Bounds, and why they are enough |
|---|---|---|
| `CacheEviction` | Do index and directories agree in every interleaving of requests, and does eviction make room? | 3 adapters of sizes 2, 1, 1 in a store of 2: one fetch evicts one or two others. The first two share a temporary directory, as `x/y` and `x__y` do, and the third has its own. 2 requests give all pairs of racing fetches; admin evictions, crashes and failures are in `CacheAvailability`. 2,424,023 states. |
| `CacheRevalidation` | Are leader and revalidation unique, does everybody get an answer, and is it the one `AdapterService` promises? | 1 adapter, since all of it is per adapter; 2 of each kind of goroutine, so that there can be a waiter, a late joiner and a second revalidation; 2 versions, so that content IDs differ once. 290,740 states. |
| `CacheCapacity` | Is `max_size` kept when fetches do not overlap? | One request at a time, 3 adapters of 3, 2, 2 in a store of 4, an S3 origin then an HTTP one, both with all files, one failure, one crash. Overlapping fetches are `DocMaxSize`. An S3 origin that has the weights before the config exceeds the bound even without overlap (see the divergences), and is left out. 18,986 states. |
| `CacheAvailability` | Does an adapter come back, and do index and directories agree after everything that can go wrong? | 1 adapter, missing or complete at each of two origins; a request, a revalidation and an admin eviction that interleave; one failure and one crash at any step. 559,128 states. |
| `RingChanges` | Which keys move? | 3 peers with 2 vnodes each in all 15 orders up to renaming, keys on, between and beyond all vnodes: every relative position of a key, two vnodes and a change. |
| `RoutingRequests` | Hops, retries and answers with rings that differ | 3 nodes, one with a vLLM that may stop in the middle of an answer; 2 updates out of lists with and without the third node, so that nodes disagree and rings change between two look-ups; 1 crash; 2 servants, one more than one hop needs. Hashing on a header, with and without it. 295,310 states. |
| `RoutingLoads` | Do loads follow the truth? | 2 nodes, one polls; 2 clients to reach and pass the cap of the load; one crash, one poll that fails or cannot be decoded, 2 rebuilds. 169,485 states. |
| `Discovery` | Do lists follow the nodes? | 2 nodes in each of the three modes; 2 starts, so that both run, or one runs, ends and comes back; 1 fault; a stale threshold of 3 rounds as in the default configuration, one clock ahead by one; old heartbeats of either node at the beginning. 1,007,488 states. |
| `Evictions` | Does an eviction spread, end and last? | 3 nodes: the one asked, and one that is told while the other is not; 1 eviction and 1 caller, since evictions share nothing but the caches; 2 troubles among crashes, lost calls, failed removals and changes of a ring. 1,492,241 states. |

The bounds `MaxVersion`, `MaxFailures`, `MaxCrashes`, `MaxUpdates`, `MaxLost`, `MaxStarts`,
`MaxFaults` and `MaxTroubles` cap what the environment does, never what the program does;
`MaxAge` and `MaxGone` only stop telling large ages apart.

What the properties say, beyond their comments in the modules:

- `TrackedOrInFlight` is the one that keeps a disk from filling up: a directory that no
  index entry and no goroutine accounts for would never be evicted. It allows an index
  entry without a directory, which does occur (see the divergences). Like `Has`, it counts only
  directories with a config: one without, or a `.tmp-` directory that a crash left behind, is
  seen by neither index nor property, and stays on disk until that adapter is fetched again.
- `IndexConsistent` is checked over interleavings of `Touch`, `Evict`, `Remove`, `Rebuild`.
- `RoomIsMade` is what one critical section of `Evict` owes its caller. It is kept also when
  fetches overlap, so that `DocMaxSize` is due to what comes between `Evict` and `Touch` alone.
- `MixedOnlyBySafeID` allows what the code does, files of `x/y` under `x__y` and the reverse, and
  nothing more, whatever revalidations, origins and crashes leave in a temporary directory.
- `TypeOK` of the cache says, beyond types, that `curSize` never becomes negative, as it would if
  an adapter's bytes were given back twice.
- `SingleFlight` and `SingleRevalidation` tie the group and the map to the goroutines they
  stand for: neither keeps an entry of a goroutine that has ended.
- `OneHop` and `RetryElsewhere` do not assume that nodes agree about anything.
- `Answered` holds for every node a request may enter at. Its only exception is a body that the
  node's own vLLM has begun and does not end; a peer that does the same is given up.
- `OnlyOrphansMove` ties `Fallback` to `Owner`: a key whose owner leaves goes to the peer
  that `Fallback` named before, which is where retried requests had fetched the adapter.
- `DeadLeaveInTime` has a tight bound: with one tick less TLC finds a violation.
- `ListsConverge` is about nodes that stop coming and going. It holds although `scan` may
  remove a heartbeat that was renewed under its feet: the owner writes a new one. That lists
  stay so rests on `MaxFaults`, which bounds how often a scan meets a file between its truncation
  and its write; the code does not bound it, and each time a live peer is gone for a round.
- `DroppedForCause` says which blips of a ring can occur: a peer whose own file was missing,
  truncated or stale at some moment since the last list, or could not be read by the scan. The
  failure of a call that is not about that peer (`os.ReadDir`, the node's heartbeat, a fetch,
  another peer's file) takes it out of no ring.
- `EvictedUnlessWanted` is where the composition matters: on the cluster it rests on what
  `AdapterService` says of refreshes, and `CacheManager` is shown to keep to that.

Every property of a passing run has a mutant in `PROJECT.json`: a form of one definition
with a plausible bug, under which TLC finds the property violated. The mutated forms stand
before the definitions they belong to and are used by nothing else.

## Fairness

- `CacheManager!FairSpec`: weak fairness of each goroutine's steps. A goroutine waits only
  for origins, for mutexes held for short sections, and in the group for its leader. The
  clients of HTTP and HuggingFace have timeouts, and a revalidation has a context of 30
  seconds. S3 in a request has neither (`proxy.go:99`, `s3.go:46`): that its calls end is assumed,
  in `CacheAvailability`, the run with an S3 origin and fairness. No fairness for requests, evictions,
  publications, failures or crashes.
- `CacheManager!TrafficSpec` adds that requests for each adapter keep coming and that time
  passes. `KeepsAvailable` and `Converges` are about a node in use.
- `Routing!FairSpec`: weak fairness of each handler's steps, since a forwarded call has
  `http.Client.Timeout`, which covers the body, and the wait for the header of vLLM's answer
  ends after 300 seconds; and of health checks, which a ticker starts and a timeout ends.
  `HangUp` is not fair: where vLLM stops in the middle of a body, nobody has to end it.
  Discovery, crashes and restarts are not fair.
- `Discovery!FairSpec`: weak fairness of each node's loop and of its stopping, of time, and of
  Kubernetes noticing. No fairness for starts, stops and crashes, and faults are bounded:
  without that bound a node whose every write fails need not be in anybody's list.
- `Evictions!FairSpec`: weak fairness of the broadcast and of each call under way, which has a
  timeout of 10 seconds.

## Proofs

Every invariant and every action property that a run checks is also proved, for every value
of the constants that satisfies the modules' assumptions, with one exception: `WithinMaxSize`,
which holds of the bounds of `CacheCapacity` and not in general. One of the theorems, `DeadLeave`,
has a further hypothesis.

### The cache: `CacheProofs`, `LRUProofs`

For every set of adapters, goroutines, origins and sizes, and every value of the bounds:

- `TypeCorrect`: `Spec => []TypeOK`. The types alone (`Types`) are not inductive: a step reads
  `disk[target[p]]` and `Head(sweep[p])`. `Placed` adds that a goroutine under way has a
  target and one that sweeps has something left to sweep. That `curSize` is not negative
  follows from `IndexConsistent`: it is a sum of sizes.
- `StoredIsTracked`: `Spec => []TrackedOrInFlight`, from `Types /\ Placed`. The argument
  per action: an adapter gets onto the disk by `Rename`, whose goroutine goes on to
  `dirsize`; leaves the index by `Evict`, whose goroutine sweeps it, or by `Remove`, whose
  goroutine goes on to `removedir`; and a goroutine stops being responsible only after a
  `Touch` has entered it, a removal has deleted it, or a walk has found it gone. After a
  crash `Rebuild` indexes what is there.
- `FilesMixOnlyBySafeID`: `Spec => []MixedOnlyBySafeID`, for any `TmpOf`. The property is
  inductive once types are known: a step either moves or removes files that are there
  (`Part`), or downloads one into the temporary directory of its goroutine's target.
- `IndexStaysConsistent`: `Spec => []IndexConsistent`. `Touch`, `Evict`, `Remove` and
  `Rebuild` each keep the order without repetitions and `curSize` the sum of the listed sizes.
- `MakeRoomSuffices`: `Spec => RoomIsMade`, from `IndexConsistent` and `EvictMakesRoom`: `Evict`
  stops when there is room or the list is empty.

What is not proved is a bound on the stored bytes. None holds of a node in general: fetches
overlap (`DocMaxSize`), an eviction takes an adapter out of the index before it is off the disk, and
`Touch` keeps a size that has changed.

`LRUProofs` has what these need of the index: `Touch` lists the adapter and keeps the others,
`Evict` splits the order into a kept part and an evicted part that together are all of it,
`Remove` drops one. Sums over sets are folds, about which the provers know nothing, and
induction is out of their reach. Instead `TotalExists` shows that a function on a finite set has a
table of totals for all subsets (`IsTotal`), by looking at a smallest subset without one, and
`SumIsTotal` that the fold computes it; `SumStep`, `SumSame` and `SumMonotone` are then facts about
tables.

There is one lemma per action and invariant.

### The cache as a service: `ServiceProofs`

`ServiceProofs` builds on `CacheProofs`, for the same constants:

- `OneLeader`: `Spec => []SingleFlight`, and `OneRevalidation`: `Spec =>
  []SingleRevalidation`. Both hold only because goroutines of each kind stay in their part of
  the code: a revalidation may run the same fetch as a leader, but never returns to a group it
  did not enter. `Fits` says which labels and results each kind may have. `Coordinated` is
  `Fits` with the two properties, and `Kept == Types /\ Placed /\ Coordinated` is inductive.
- `ManagerKeepsPromise`: `Spec => ImplementsService`, the refinement of `AdapterService`.
  `Kept` is what the steps need: a shared call can be read off its leader because there is one.

The actions fall into two groups. Most are `Ordinary`: one goroutine goes on, neither the
group nor the map changes, and a directory appears only in a rename that ends in "found" or
belongs to a marked revalidation. One lemma per action shows that it is ordinary, and from then
on all of them are one case, of the invariant (`OrdinaryCoordinated`) and of the refinement
(`OrdinaryRefines`). The others (entering the group, its return, a caller's reply, mark, unmark,
evictions, a crash) begin or end something and have a lemma each in both parts.

### Evictions on a cluster: `EvictionsProofs`

For every set of nodes, callers and evictions, every list that
discovery may report, and any number of troubles:

- `EvictionTypes`: `Spec => []TypeOK`.
- `EvictedStaysAway`: `Spec => []EvictedUnlessWanted`. `BusyIsWanted` is the strengthening: a
  node with a shared call or a refresh is in `wanted`, so that whatever stores the adapter
  there was wanted. It rests on `AdapterStepKeeps`, which is about the abstract service alone,
  and so applies to the manager by `ManagerKeepsPromise`.
- `EvictionSpreads`: `Spec => []EvictionReachesPeers`. `AboutToSend` is the strengthening:
  between the removal and the broadcast the node has done its own part, and its ring still has
  the peers that stayed.

### Routing: `RoutingProofs`

For every set of nodes, handlers, addresses, requests and reports of
discovery:

- `ForwardedOnce`: `Spec => []OneHop`. `OneHop` says nothing of the header, which is what
  makes it true. `HopInv` adds it: a handler on its way to a peer has no header
  (`CallsHaveNoHeader`); one whose answer is awaited has it, is not idle, and its caller
  waits (`CallersWait`). The two exclude a handler that is both.
- `RetriedElsewhere`: `Spec => []RetryElsewhere`. `TriedInv` follows the set `tried` along
  the labels. The step that matters is `Retry`: `FallbackElsewhere` shows that `Fallback`,
  a `CHOOSE` of the first vnode of another peer, never names the peer it skips; that there is
  a first one is `LeastElement`, from the well-foundedness of the naturals.

- `RoutingTypes`: `Spec => []TypeOK`. Its last conjunct is not about types alone: a handler
  that has looked up a `Peer` finds a load to read, in the ring or, when an `Update` came in
  between, in `stale`. `AtWork` is the strengthening: a handler at work is on a node and has a
  request. That a look-up names a listed peer is from `RingProofs`.

The first two use nothing of the ring's contents, so they hold for rings that are wrong.

### The ring: `RingProofs`, `RingChangesProofs`

`RingProofs` says whom `Owner` and `Fallback` name without mentioning lists or indices. `Before(h,
v, w)` says that a walk from `h` passes `v` before `w`; `IsNearest(V, h, v)` that it passes `v` first.
`WalkInOrder` and `WalkMeetsAll` are about the index arithmetic of `sort.Search` and the wrap-around;
from them `OwnerIsNearest` and `FallbackIsNearest` show that `Owner` names the peer of the
nearest vnode and `Fallback` that of the nearest vnode of another peer, and `NearestUnique` that there
is one. `RingChangesProofs` then proves, for any peers, numbers of vnodes, hashes and keys:

- `RingTypes`: `Spec => []TypeOK`, by `RingInv`, which adds that no vnode is listed twice.
- `OwnersArePeers`: `Spec => []OwnerIsPeer`.
- `OrphansMove`: `Spec => OnlyOrphansMove`, and `JoinersTake`: `Spec => OnlyJoinersTake`. Both
  compare the nearest vnodes of two sets of which one contains the other.

All rest on `TablesAssumption`, that no two vnodes have the same hash.

### Discovery: `DiscoveryProofs`

For every number of nodes, each mode, all intervals, thresholds, skews and faults:

- `DiscoveryTypes`: `Spec => []TypeOK`.
- `NoneDroppedWithoutCause`: `Spec => DroppedForCause`. `CauseInv` relates a round under way to
  the history variable `away`: a peer of the last list that `scan` has passed without finding it,
  or has marked as old, or that is not available now, is in `away`. A step of the scan passes an
  entry only if it lists it, if it is not available, or by a failed call on it (`Overlooks`).
- `DeadLeave`: `DistinctAddresses => (Spec => []DeadLeaveInTime)`. `TimeInv` bounds how long a
  node may be gone that a round has found (`FoundInTime`) or a list has (`ListedInTime`), by the
  stale threshold, the time since the round began and a round per fault; `FilesAge` says that the
  heartbeat a dead node left is as old as its death. The hypothesis is that no two nodes have the
  same address: a living node would renew the heartbeat of the dead one.

### Assumptions, and what is not proved

The proofs use the assumptions that the modules state, and TLC evaluates them in every run:
`MaxSizeAssumption`, `ProcsAssumption` and `CacheAssumption` (finitely many adapters, sizes that are
naturals); `NoneAssumption`, that a missing file or directory is none of the files and directories;
`RingAssumption` (finitely many addresses) and `TablesAssumption`; `RoutingAssumption` (finitely many
handlers; `None` is not a load) and `KeysAssumption`; `DiscoveryAssumption`; `EvictionsAssumption`.

Only model-checked: liveness (`EnsureReturns`, `RevalidationEnds`, `KeepsAvailable`, `Answered`,
`DownPeerAvoided`, `UpPeerUsed`, `ListsConverge`, `EvictionsSettle`), which needs fairness and
`ENABLED`; and `WithinMaxSize`, under the bounds of its run.

## Findings

Each is a run in which TLC violates one property that states what a document says.

| Run | The document says | What happens |
|---|---|---|
| `DocNextRequest` | README 278: "The next request after the background re-fetch completes gets the updated adapter." | A background fetch and the leader of a miss share a temporary directory; a config without weights and meta file may be stored, and is never revalidated. |
| `DocMaxSize` | README 225, 299: `max_size` bounds what is stored | Two fetches make room before either is counted. |
| `DocUnreachable` | README 235: "its load is treated as 1.0 so no traffic is sent to it" | A report of discovery replaces the `Peer` and resets its load to 0. |

Divergences that the models contain as well, but for which no run is kept; the line where
each arises is named:

- README 278, "The current request always gets the stored version": the revalidation that
  a hit starts may remove the files before vLLM has read them (`manager.go:210`).
- README 217, "guarantees adapter files exist": the sharing behind `DocNextRequest` can also
  empty the directory between an origin's check and the rename (`manager.go:150`), and the
  adapters `x/y` and `x__y` have the same temporary directory (`manager.go:99`), so that the
  files of one may be stored under the other.
- README 259, "If the first origin fails, it tries the next": a failed GET of the weights is
  skipped like a missing file (`http.go:44`).
- README 276, retrained adapters are fetched again: the ETag of the config does not change
  with the weights (`http.go:89`).
- README 275, "No re-download": the comparison is with the meta read when the revalidation
  was started (`manager.go:199`).
- README 225, "Maximum total size of stored adapters", also without concurrency: S3's `Fetch`
  stores an adapter whose config is not uploaded yet; it is fetched again with the config, and
  `Touch` keeps the size recorded first (`lru.go:35`), so that `curSize` is too small. The bound
  of `CacheCapacity` is exceeded when `FirstContents` has weights alone and the config is
  published later.
- README 319, "Current storage size": a `Touch` between the two halves of a removal counts
  what is gone (`store.go:67`), until the adapter is fetched or evicted again.
- README 235, "other nodes stop forwarding to it": the retry after a failed forward does not
  look at the load (`forwarder.go:87`).
- README 130, "this node owns it?": without `--self` a node that listens on `:9090` does not
  recognise `localhost:9090` as its own address (`cmd/loraplex/main.go:179`).

## What is left out

- *Configuration, metrics, development tools* (`loadgen`, `mock-vllm`): sequential or without influence on the
  system. The storage gauge is checked through `LRU.Size`.
- *`checkVLLM`*: sets a flag that is only reported.
- *Local I/O errors* of the cache other than missing files; *partial reads* of a directory under
  `RemoveAll`, except at a crash.
- *Bodies, status codes, headers*: a response is a step that begins it or fails, and one that
  ends it. *The server's `WriteTimeout`* ends no handler; it loses what is written too late.
- *Heartbeats cut short in the middle*: `os.WriteFile` writes all of a heartbeat or nothing.
- *Sizes per version*: an adapter's weights have one size.
- *What a shutdown does to requests*: `ListenAndServe` returns when `Shutdown` begins, so that
  `run` returns and the process ends while requests are still being served
  (`cmd/loraplex/main.go:246`). For the other nodes that is a crash, which `Routing` has.
- *Whose context a shared call runs with* (`manager.go:66`): a first caller that disconnects is
  one of the failures of an origin.
- *The path a request takes through the HTTP server, its read and write timeouts, the two
  reporting endpoints of the admin API.*

## Plan

Done, in this order: the cache, the ring, routing, discovery, the promise of the cache and its
refinement, evictions on a cluster; the proofs above. The safety properties that the runs check
are proved, but for `WithinMaxSize`.

If the model grows further: weights whose size changes with the version, local I/O
errors (`store.go:60`), and routing composed with the caches.
