# Verification of the KV block store and the router

TLA+ models of the concurrent and crash-sensitive parts of this repository, the
TLC instances that check them, and TLAPS proofs of what matters most. Every
definition is taken from the code under `src/`; `PROJECT.json` maps each one to
its lines and lists the hazards the properties are aimed at.

## 1. The system

* **KVStore** (Python, `kvstore/kvstore`). Blocks of KV cache, named by a
  `BlockKey`, are kept in tiers: memory, NVMe files or segments, S3. One SQLite
  table (`metadata_store.py`), owned by one process at a time, says which blocks
  are published where. A tier writes the payload before the row and removes it
  after the row has become a tombstone. A load pins its row. Two locks order the
  threads: the mutation lock of the table, which stores, evictions and
  compactions hold, and the lock of the memory tier. `tier_manager.py` looks for
  a block in the tiers, loads, promotes, demotes and prefetches; `cost_model.py`
  decides between loading and recomputing; `eviction.py` frees bytes of a tier;
  `prefetch.py` runs prefetches on a thread pool; `factory.py` builds it all.
* **Router** (Go, `router/internal`). `proxy/handler.go` registers workers,
  picks one for each request, reserves it under the lock, counts what it sent,
  drains and replaces workers. `cacheindex` holds which worker caches which
  block, fed by events, with an event log, snapshots and an in-process event
  bus. `routing` holds the strategies.
* **io-profile** (C++ and Python) measures devices and has no shared state.

| part | status | module |
| --- | --- | --- |
| metadata table, owner epochs | modelled | `MetadataStore`, `MetadataClients`, `BlockCatalog` |
| NVMe tier, one file per block | modelled | `NVMeTier` |
| NVMe tier, segments and compaction | modelled | `SegmentTier` |
| S3 tier | modelled | `S3Tier` |
| memory tier | modelled | `MemoryTier` |
| LRU eviction controller | modelled, on the memory tier | `EvictionController` |
| tier manager, cost model | partly (no `release()`) | `TierManager` |
| prefetcher | modelled | `Prefetcher` |
| `close()` of the store, factory | partly: not the reading of the configuration | `StoreLifecycle` |
| cache index, event log, snapshots | partly (no bare `StoreLocation`, `Evict`) | `CacheIndex`, `CacheFeed` |
| event bus | modelled | `EventBus` |
| router lifecycle, reservation, drain | modelled | `Router` |
| routing strategies | partly: the one with a table | `TenantTable` |
| record format | partly: whether bytes form a record | `S3Tier`, `SegmentTier` |
| names, hashing, tokenization | not: pure functions of bytes | |
| admission and capacity formulas | not: floating point, no state | |
| metrics, logs, scripts, io-profile | not: observation or I/O | |

## 2. The modules

In the models of the tiers a step ends where another thread, a crash or a fault
can intervene. A failed call (unlink, write, request, upsert) is a choice. A
payload is identified with its descriptor, so a damaged one is a value of its
own. A crash keeps committed rows and completed file operations; loss of power
is not modelled. A SQLite error in `release` or `finish_delete` is not modelled
either. `last_access` and the reuse counts only order the candidates of an
eviction, and the models let an eviction pick any candidate.

**MetadataStore** has one action per transaction. `blocks[k][t]` is the row of a
key in a tier: state, descriptor, location, pin counter and the epoch of the
counter. **MetadataClients** adds threads that pin and unpin in pairs, and
owners that come and go. **BlockCatalog** is what the table promises: one
payload per key over all tiers, and no withdrawal under a reader.

**NVMeTier** composes the table with the files. `call[t]` is the program counter
of a thread in `lookup`, `load`, `store` or `evict`; `mutation` is the lock.
`NVMeTierProofs` maps the tier to `MetadataClients` (`ImplementsClients`, which
the run checks and a theorem proves), so that what is proved there holds of the
table under this tier. `_capacity_lock` is only taken inside the mutation lock
and is left out. When `evict` refuses a victim, the code tries
the next one and the model ends the call; a victim is listed and evicted under
one lock that also guards pins, so that step is not reachable.

**SegmentTier** is the same class in segment layout. `segs` maps file names to
sequences of records; names can be used again after a removal. Compaction copies
record by record to files of its own, publishes, and removes unreferenced files
one by one. Reading, copying and publishing a record may each fail and end the
compaction. Records take one place each and the disk can be full. `left` remembers
the rows a compaction did not list, because a reader had them pinned at that
moment or their record was missing: only their files may keep garbage.

**S3Tier** has the bucket (`objects`) and the requests that nobody waits for any
more (`late`). A put or delete that ends in an error was carried out, was not, or
is carried out later. The bucket may also confirm a delete that has no effect,
which is what the HEAD after the delete is there for. The answer of a GET and the
reading of its body are steps of their own: the object may be overwritten or
deleted in between, and the reading may fail half-way.

**MemoryTier** runs its operations under its own lock but not under the mutation
lock, so other users of the table (`Pin`, `Unpin`, `PeerTier`) act between its
calls of the table. **EvictionController** extends it with `evict_bytes`, which
has no lock: it lists a batch of rows and evicts them one by one, while the tier
and the other users go on. `steady` remembers which candidates could have been
evicted ever since they were listed.

**TierManager** looks at one block. `holds` is the set of tiers that have it;
tiers lose it at any time, hold a damaged copy, or fail: S3 may not answer
(`TierUnavailable`), and every tier may raise something else (`VisitRaises`), which
ends the call unless a prefetch catches it and goes on to its next source. Calls of
`lookup`, `load` with its promotion, `prefetch`, `store`, `evict` and `demote` visit
one tier per step. `decide()` is translated with its thresholds, the S3 gates and
the SLO budget; milliseconds and tokens are small integers.

**Prefetcher** splits `submit` into its critical section, the hand-over and
`add_done_callback`, which runs the callback in the submitter when the task is
already over. The executor is external and modelled from its use.
**StoreLifecycle** puts it into the life of a store: taking the owner lock,
opening the table, building the tiers, each of which may fail and then gives
back what it took; `close()`, which waits for the prefetches before it closes the
table; the end of the process without `close()`; and a second process that wants
the same database.

**CacheIndex** has the operations of the index. **CacheFeed** puts it under an
environment of producers, restarts, snapshots and replays of the log. An event may
be lost, repeated, and overtaken by any other. An append to the log may fail or be
torn; a log with a torn line cannot be read at all. A snapshot may be lost while it
is being written, since `os.WriteFile` truncates it first. A replay may be
shortened, and new events arrive while it runs. `intime` remembers which events
reached the index before any later one of their worker. These are the events that
count: the index ignores one that was overtaken, so an overtaken store is not shown
and an overtaken eviction leaves its block until it expires.
**Router** composes the index with registrations and requests; the choice among
routable workers is open. Events name any worker, registered or not, because the
handler does not ask; `heard` remembers those since the last retirement of the ID.
**EventBus** has one step per critical section and per case of a select.
**TenantTable** is `TenantAwareBoundedLoad` with its table of
tenants; a tenant's last use is kept as an age, scores are doubled to be
integers, and each request comes with any loads of any set of candidates.

The modules named `*Proofs` and `TierFacts` hold the theorems of section 4. An
operator under a comment that begins with "Mutant:" is a wrong form of a definition
that follows it; no specification uses it, and `PROJECT.json` names the property
that notices it.

## 3. The runs

Each `MC*` module with its `.cfg` is one run; `MCTierManager` has
two configurations.
Deadlock is not checked where a bound on openings or a closed bus or store
really ends the system.

| run | instance | properties |
| --- | --- | --- |
| `metadata_clients` | 2 keys, 2 tiers, 2 payloads, 2 readers, 2 openings | `AcquiredStaysPublished`, `PinsMatchReaders`, `OnePayloadPerKey`, `RowLifecycle`, `ImplementsCatalog`: pins are exact, acquired blocks stay, one payload per key, tombstones only disappear |
| `nvme` | 2 keys, 2 threads, payloads of 1 and 2 units in a capacity of 2, a second tier on one key, 1 fault, 2 openings | `PublishedHasPayload`, `ChecksStillHold`, `HealthyLoadSucceeds`, `TombstoneOutlivesFile`, `ImplementsClients`, `CapacityRespected`: a published row has its payload, checks made early still hold at the commit, pinned loads succeed |
| `segments` | 2 keys, a reader, a writer, files of 2 records, a disk of 4, 2 compactions, 1 incident | `ReferencedIsIntact`, `PinnedRecordStays`, `CompactionReclaims`: published records are whole, pins stop compaction, a compaction that runs to its end leaves no garbage outside the files of rows it did not list |
| `s3` | 1 key, 2 payloads, 2 threads, 2 late requests, 1 fault, 2 openings | `PublishedHasObject`, `PinnedObjectStays`, `RowOutlivesObject`, `LockIsReleased`: the same with lost, repeated and late requests and interrupted bodies |
| `memory` | 2 keys, sizes 1 and 2 in a capacity of 2, a second tier on one key, 1 pin, 1 fault, 2 openings, batches of 2, 2 bytes to free | `ResidentIsPublished`, `PinnedStaysResident`, `ShortOnlyWhenStuck`, `EvictionEnds`: dictionary and table agree, pinned blocks stay, `evict_bytes` ends and gives up only for a reason |
| `tier_manager` | 3 tiers, a reader, a writer, errors in every visit | `QuietMissIsTrue`, `PrefetchTriesEverySource`, `RecomputeOnlyWhenNothingUsable`: misses are true, a prefetch tries every source, a usable copy is used |
| `tier_manager_bandwidth` | a profile with S3 faster than the file tier | `RecomputeOnlyWhenNothingUsable` is violated: the finding of section 5 |
| `store_lifecycle` | 4 pieces of work, 3 submitters, 2 threads, 3 admitted, a rival process, 1 crash | `UsedByOwnerOnly`, `WorkLeavesSeen`, `CloseFreesDatabase`: nothing runs without the lock, work is not stuck in `_seen`, `close()` frees the database |
| `cache_feed` | 1 producer, 2 blocks, 3 events, 1 local revision | `NeverOverclaims`, `ForgetsNothing`, `NextEventIsFresh`: the index shows what the events that count have left, whatever is lost, late, repeated, restarted or replayed |
| `router` | 2 workers, 2 requests, 2 identities, 1 block, counters up to 2 | `InflightIsExact`, `ProxiedWorkerStays`, `ObservedSinceRetired`, `DrainCompletes`: exact counts, a worker with requests stays registered, nothing older than its removal is known of an ID, drains end |
| `event_bus` | 2 names, 2 subscribers, 2 publishers, channels of 1 place | `NoSendOnClosedChannel`, `OpenIsListed`, `CloseTerminates` |
| `tenants` | 3 tenants, a table of 2, 2 workers, halving above 3, workers idle, busy or with a long cached prefix | `TableBounded`, `ShareRespected`: a tenant goes beyond its share of a worker only as far as the worker's lead pays for it |

Why the bounds are enough. Two threads are what a race of a pin with a deletion
takes, and two openings are what it takes for an old epoch to be met by a new
owner. Two keys make an eviction for room; the second tier makes a descriptor
arrive from outside. A file of two records and a disk of four make a segment
fill up, be swept and have its name used again. A batch of two makes
`evict_bytes` meet a refusal and a success in one round. Three submitters on two
threads with three places make a submission meet a full queue, a duplicate and a
`close()` that is waiting. Three events make a store, an eviction and a second
store of one block arrive in every order. One local revision lets an observation
come first, between evictions, or after a restart that has forgotten the counter; a
second one takes TLC beyond a few minutes (4.9 million states, no violation), and
the proofs of section 4 have no such bound. A cached prefix of five blocks outweighs
the penalty of the tenant limit, so picks beyond the limit happen. A second tier on
both keys of the file tier was also checked, in a larger instance that is not kept
because of its size.

Symmetry is used only in runs without liveness properties and only over sets
that the specification does not tell apart.

### Fairness

* `s3`: a thread inside a call goes on when it can. The client is built with
  connect and read timeouts and a bounded number of attempts
  (`s3_tier.py:372-376`), so every request ends. Nobody has to call, a waiting
  thread need not get the lock, no late request has to arrive.
* `memory`: a call under the tier's lock goes on, and so does the controller
  between its calls. The step that takes the tier's lock has strong fairness:
  other threads take the lock again and again, and the assumption is that the
  controller's thread gets it at some time. Nobody has to store, pin or unpin.
* `router`: a request that has selected a worker gets to its end. The HTTP
  client has no timeout of its own (`handler.go`, `oneHopHTTPClient`), so this
  assumes that the worker or the client ends the exchange. Nobody has to drain.
* `event_bus`: goroutines that can run do run. Nobody has to receive, cancel or
  close.
* `store_lifecycle`: threads that can run do run and a task ends. Nobody has to
  build, submit or close, and the rival need not give the database up.

## 4. The proofs

All theorems hold for every value of the constants that satisfies the named
assumptions of the modules: model values that stand for "nothing" are not
values; keys, threads, readers, requests and publishers are finitely many; sizes and
limits are natural numbers; an index has fewer events than its largest number.

**MetadataClientsProofs**: `TypeCorrect`, `AcquiredSafe`, `PinsExact`,
`PayloadUnique`, `RowsFollowLifecycle`, `TableImplementsCatalog`. The inductive
invariant is `PinInv`. Beyond the properties themselves it says that an open
database has a positive epoch, that a tombstone has the empty epoch, and that a
process that is gone has no readers. Without the second, a tombstone could count
the readers of the live owner; without the third, a restart, which clears the
counters, would forget readers that still exist. One lemma says what replacing
one row does to the table, one what it does to the pins, and one lemma per action
follows. The refinement maps a row to its descriptor when it is active and to
nothing otherwise; `StepImplements` shows that each action is an action of the
catalogue or a stutter.

**TierFacts** is what the proofs about the tiers share: what each transaction
does to the rows of the table, and the laws of a sum over a finite set (a sum
does not depend on the order, one element can be split off, one weight can
change). The library defines `SumFunctionOnSet` by recursion over subsets. Its
induction theorems take an operator, so the module states induction about sets
instead: a set of subsets that contains a subset whenever it contains those with
one element less contains them all.

**NVMeTierProofs**: `PublishedSafe` and `ChecksSafe`. The inductive invariant
`TierInv` types the state and says, for each thread by its program counter, what
it relies on (`CallInv`): a store holds the mutation lock from its first check to
its return, so that nobody else changes what it checked; an eviction holds it
from the tombstone on; what is about to be published is on disk; a tombstone
that is about to be finished has no file. The lock makes the steps of other
threads harmless (`CallKept`), which leaves one lemma per action for the thread
that moves.

`CapacitySafe` needs `CapacityInv` besides. The running total of
`_ensure_capacity` is taken once and then only reduced by the victims, while rows
come and go, so the invariant compares it at each program counter with what the
*other* keys take: it is at least that while the store looks for room; while a
victim is a tombstone, whose row no longer counts, the total still has the
victim's bytes on top; and what is about to be committed fits beside the others.

`TombstoneSafe`, `TierImplementsClients` and `HealthyLoads` follow. The threads
of the tier are readers of the table; a thread holds a row between `acquire` and
`release`. With the refinement proved, `AcquiredSafe` of the table is a fact about
the tier: the row a load has pinned stays published. Together with
`PublishedSafe` this gives `HealthyLoads`: a load that got its pin fails only
because of a fault.

**S3TierProofs**: `PublishedObjectSafe` and `RowOutlives` from `S3Inv`, built like
`TierInv`. What is new is the bucket. `disturbed` names the keys whose object a
fault or a request that nobody waited for may have changed. For all others a store
that is about to commit has its payload in the bucket, and an eviction that is
about to finish has no object left, whatever the requests before have done and
whatever the DELETE had answered. `S3ImplementsClients` is the refinement to
`MetadataClients`. `PinnedObjectSafe` combines all of them: the refinement keeps
the pinned row published, `S3Inv` keeps the object of a published row, and
`VerdictInv` (a call has a verdict only on its way to the release) shows that no
verdict is left over from before.

**MemoryTierProofs**: `ResidentSafe` and `PinnedSafe`, for the tier together with
the eviction controller (`EvSpec`). `MemInv` says that every payload in memory is
published with that content, except the one between insertion and `upsert`; that
`_used_bytes` is the sum of what is in memory, and at most `max_bytes`, in every
state; and that `in_flight` is the number of pins of the clients plus the one of
the load under way. The last part is what makes a pinned row unevictable.
`ShortSafe` needs `SteadyInv`: a candidate that could be evicted ever since it was
listed is still on the list unless the round has freed something, so that a call
that gives up has tried, and been refused, everything it listed.

**SegmentTierProofs**: `PublishedRecords` and `PinnedRecords`, for rows whose
locations are `Locations`, a file and a place in it, as in the run. `RecordInv`
gives `PublishedRecords`. Beyond `ReferencedIsIntact` it says that stores and
compactions hold the mutation lock from their first step, and that where a call is
about to publish a location (a store, a compaction, and a store that begins with a
load of what is already there) a whole record of its own payload has been
written or found. Files only grow at their end, so an append disturbs no location;
a sweep removes a file only when no row refers to it, and the lock keeps the call
that has written but not yet published from meeting a sweep. A file name that is
used again is harmless for the same reason. What a fault has hit is exempt, and
`NothingLost` says that without a fault nothing is.

`PinInv` gives `PinnedRecords` on top. The counter of a row is at least the number
of threads that hold a pin of it, and such a row is active in the present epoch
(`PinsCounted`); a load reads where its row points (`ReadsItsRow`); a store
publishes another location only for a key without a row (`StoresTheMissing`); and
nothing a compaction has still to move is pinned by a load (`MovesTheUnread`). The
last holds because a compaction lists only rows without pins and keeps the
mutation lock to its end, and a load takes that lock to acquire its pin.

**ComponentProofs** has the components that stand alone.

* `OwnerOnly`. `LockedWhileUsed` adds to the property that the process already
  holds the lock while it opens the table, and that nothing is queued or running
  once the store is closed.
* `NeverSendsOnClosed` from `SendersExact`, which says that the counter that
  `close()` waits for is the number of publishers inside a select;
  `OpenStaysListed` from `ListedByName`, which says that the map lists a
  subscriber under its own name and that nobody watches a subscriber whose call
  of `Subscribe` has not returned.
* `MissIsTrue`, `PrefetchIsThorough` and `RecomputeIsLastResort` from
  `ManagerInv`, for any order of the tiers, any profile, thresholds, gates and
  budget. `Accounted` says at each program counter where the tiers can be that
  have held the block all along: not yet visited, or on the list of locations
  found. The last theorem assumes `S3IsSlowest`: every other tier
  loads faster than S3 and needs no more benefit. The run
  `tier_manager_bandwidth` shows that it fails without that.
* `TenantTableBounded` from `TenantInv`, and `TenantShareRespected`, for any loads.
  Some candidate is at most at the average and so within the limit
  (`SomeAtAverage`); the worker picked scores at least as high as every candidate
  (`BestLeads`); written out, the scores of a worker beyond the limit and of one
  within it say that the lead makes up for the penalty (`ScoreMargin`). Totals are
  the cardinality of the set of counted requests, which makes the first step an
  argument about finite sets.

**RouterProofs**: `InflightExact` and `ProxiedStays` from `RequestInv`: it is the
exact count that keeps a worker with requests from being retired, so the two are
inductive together. `ObservedOnlySinceRetired` from `ObservedInv`: a replacement
forgets what a retired worker cached, and its watermark, in the same critical
section, and only an event handled later brings something back. An ID nobody sends
events about between its removal and its next registration starts afresh.

The same module has the theorems about the feed of the index, which the Router
composes: `FeedNeverOverclaims`, `FeedForgetsNothing` and `FeedNextIsFresh` from
`FeedInv`. It says of the index and of the snapshot on disk alike (`SoundFor`) that
what they claim for a worker is what the events that count have left in its cache,
and that the watermark is the greatest of their numbers. The second is what keeps
an event that comes late from being applied in front of one that came in time.
Besides, a consumed event ID is at or below the watermark, so that no event that
would count is dropped as a duplicate, and the log and the replay hold nothing but
events of the feed.

Only model-checked, and why:

* liveness (`LockIsReleased`, `EvictionEnds`, `DrainCompletes`,
  `CloseTerminates`, `WorkLeavesSeen`, `CloseFreesDatabase`): out of the
  prover's reach;
* `CompactionReclaims` of `SegmentTier`: it counts every record on the disk, so a
  proof would need the sum over all files while a compaction fills new ones.

## 5. Finding

`tier_manager_bandwidth`: when the cost model chose S3 and the S3 load raises
`TierUnavailable`, `load()` ends in `s3_load_unavailable_recompute` without
trying the other locations of its own scan (`tier_manager.py:119`).
`docs/design-decisions.md:193` says that unavailability becomes a recompute
"only when no usable location remains". It takes a profile in which S3 is
estimated faster than the file tier, as in
`kvstore/tests/test_tier_manager.py:405-411` for large blocks. It also takes an open
reuse gate: `load()` asks with the default reuse probability of 0.5
(`tier_manager.py:191`) against a threshold of 0.75 by default, which
`factory.py:96-101` never lowers, so the store must be built with a `CostModel` of
its own, with `s3_min_reuse_probability` at most 0.5.

Noted while modelling, with no line of the repository against it:

* `MultiTierKVBlockStore.release()` drops a pin that its caller has not taken,
  so a caller would break `AcquiredStaysPublished`. Nothing calls it.
* The pick of `TenantAwareBoundedLoad` that halves the counters computes its
  limit from all workers, not only the candidates. `ShareRespected` says so.
* A location or watermark that an event leaves between the removal of a worker and
  the registration of the next one with its ID stays: registering purges nothing.
  `index.go:110-113` asks for a quiet producer, and no line checks it.
* `load()` reports a miss when its target loses the block between `contains` and
  `load` (`tier_manager.py:85`), although another tier may hold it;
  `QuietMissIsTrue` is about calls during which no tier loses the block.
* An eviction event below the number of a local observation leaves the location
  and moves the watermark; the location stays until it expires.
* A promotion that fails makes a load fail that already has its data; so does
  `load()` with S3 as its target while S3 is unavailable (`tier_manager.py:127`).
* `prefetch` lets the `RuntimeError` of a pending tombstone escape
  (`tier_manager.py:200`); the sources and keys after it are not tried.
* `demote` from a tier to itself evicts the copy it has just stored.
* After a restart, rows of the memory tier have no payload and are the least
  recently used. A batch of nothing else makes `evict_bytes` give up, although
  blocks after it could be evicted.
* `evict_bytes` adds the bytes of the row it listed, also when the key has been
  stored again with another size. Blocks of no bytes that are stored again for
  ever would keep it going; the instance has none.
* A file without a row, left by a crash, is not counted in `bytes_used`.
* The HEAD that confirms a delete also takes an ambiguous 404 for absence; for
  reads only `NoSuchKey` is.
* That the client library raises when a body ends early is assumed.

## 6. Not modelled

Snapshots older than schema 2; the index's exported `StoreLocation` and `Evict`,
which the Router does not call; `MultiTierKVBlockStore.release()`, which nothing
calls; a dry run of the compaction; the eviction controller on the other tiers,
whose `evict` is in their modules; HTTP copying, headers and request validation;
the fields of the record format; loss of power. In the file tier an invalid
location string is not modelled: rows are written by the tiers only.

RoundRobin and the scores of the other strategies are arithmetic over one
snapshot of the workers; the Router model leaves the choice among routable
workers open, so its properties hold for all of them. Hashing, tokenization,
encodings, the admission and capacity formulas, configuration, metrics, logs and
io-profile have no state that two actors share or that a crash can tear.

## 7. Open ends

1. A proof of `CompactionReclaims`.
2. `s3` with two keys and a second tier.
