# A TLA+ model of piramid

piramid is a vector database in Rust: a server that keeps collections of
documents (vector, text, metadata), each in its own set of files, and searches
them by similarity. This directory holds a TLA+ model of its core, checked with
TLC and partly proved with TLAPS. `PROJECT.json` lists the runs, the theorems,
the faults each property is tested with, the source lines behind every
definition, the hazards of the code and the findings.

## 1. The system

| Part | State it keeps | Operations | What makes it correct |
|---|---|---|---|
| Collection (`collections/`) | offset index, vector index, caches, dimensions, checkpoint counters | insert, insert_batch, upsert, update_metadata, update_vector, delete, delete_batch, get, rebuild_index | what readers see is what a restart brings back; index, cache and records agree |
| Record store (`storage/record_store.rs`) | memory-mapped data file, append cursor | append, append_batch, read_document | no append overwrites a live record |
| Write-ahead log (`storage/wal/`) | log file, next sequence number | log, replay, checkpoint, rotate | entries have fresh numbers; nothing acknowledged is dropped or skipped |
| Checkpoints (`collections/checkpoint.rs`) | operation count, time of the last checkpoint | checkpoint, should_checkpoint | a death between any two file writes loses nothing |
| Sidecars (`storage/persistence/`) | `.index.db`, `.vecindex.db`, `.metadata.db`, `.wal.meta` | save, load | they fit the data file when it is opened |
| Recovery (`collections/builder.rs`) | none of its own | open, replay_wal, rebuild_vector_index | idempotent, never fails, restores contents and search structures |
| Compaction (`collections/compact.rs`) | none of its own | compact | changes no contents |
| Limits (`operations/limits.rs`) | none of its own | enforce_single, enforce_batch | the limits hold at all times |
| Collection manager (`collections/manager.rs`) | table name -> `Arc<RwLock<Collection>>` | get_existing, get_or_create, remove, loaded_collections | one instance per file |
| Runtime state (`runtime/state.rs`) | configuration, read-only latch, rebuild jobs | ensure_write_allowed, enforce_cache_budget, reload_config | no request waits for ever |
| Services (`services/`) | none of their own | one function per endpoint, one background task per rebuild | acknowledged writes are seen and kept |
| Cache manager (`cache/`) | vectors, metadata with an eviction queue | put, remove, clear, item limit | map and queue in step, caches agree with the documents |
| Vector indexes (`index/`) | flat list, HNSW graph with tombstones, IVF clusters | insert, remove, search, selection by size | every live document can be found, no deleted one is returned |
| Search (`search/`, `collections/search.rs`, `collections/dup.rs`) | none | overfetch, filter, sort, truncate, ranges, duplicates | the k best matches |
| Embedders (`embeddings/`) | LRU cache | retry with backoff, cached lookup, providers | bounded retries, cached equals computed |
| Configuration (`config/`) | `AppConfig` | defaults, file, environment overrides, validation, reload | file and environment are in force, nothing unusable is accepted |
| Distance kernels, quantization, HTTP routing, CLI, latency metrics, errors | - | - | - |

How they interact. An HTTP handler calls a service function. That looks the
collection up in the manager's table, opening and registering it if it is not
loaded, takes the collection's read or write lock, calls one operation of
`Collection`, and answers. Insertions enforce the cache budget of all loaded
collections before they drop their write lock. A rebuild is answered at once
and done by a spawned task. Inside a collection an operation logs, appends to
the data file, updates memory, and every so often checkpoints; opening a
collection replays the log over the last checkpoint and checkpoints the result.

What is hard about it:

* deaths of the process between (or inside) the file writes of an operation, a
  checkpoint, a compaction or a recovery - up to six files in a row describe one
  another, and the server has no orderly shutdown, so every restart is a death;
* order: what is logged before it is checked, saved before it is complete,
  dropped before its replacement is safe;
* errors in the middle of an operation, after some of its effects;
* requests that interleave between lookup, open and registration, and with
  deletions and background tasks; locks taken while others are held;
* state that another part reads too early: recovery replays the log with empty
  caches, the graph and the clusters read the caches while they insert;
* requests that wait for an embedding provider, with retries, a cache and a
  configuration that may be reloaded, or refused, under them;
* boundaries: sequence numbers, append cursors and limits, recomputed by
  recovery from whatever the files say.

## 2. The modules

| Module | Contents |
|---|---|
| `DurableMap` | what a collection promises its writers: a map changed by their writes alone, in order |
| `Collection` | one collection with its files: operations, checkpoints, compaction, deaths, recovery |
| `MCCollection`, `MCCollection_*.cfg` | its instances for TLC |
| `CollectionProofs` | type correctness, fresh sequence numbers and the integrity of the pointers, for all constants |
| `CollectionRecoveryProofs` | reads are what a restart recovers, opening succeeds, and `DurableMap` is implemented |
| `CollectionVectorProofs` | the limit on vectors; the vector index is sound and complete |
| `CollectionManager` | the server above the collections: table, requests, locks, cache budget, rebuild tasks |
| `MCCollectionManager`, `MCCollectionManager_*.cfg` | its instances for TLC |
| `CollectionManagerProofs` | type correctness, the truth of rebuild statuses, and what requests that race for a collection can bring about, for all constants |
| `CollectionPromiseProofs` | documents promised to clients are kept and read, for all constants |
| `Similarity` | scores, rankings and answers that the indexes share |
| `FlatIndex`, `IvfIndex`, `HnswIndex` | the three vector indexes, as functions from an index to the set of its successors |
| `VectorIndex` | the interface over the three, and which one is created |
| `CacheManager` | the vector cache and the bounded metadata cache |
| `Filter` | filters over metadata |
| `CollectionSearch` | a collection with its caches and its vector index through writes, checkpoints, restarts and rebuilds, and its searches |
| `MCCollectionSearch`, `MCCollectionSearch_*.cfg` | its instances for TLC |
| `CollectionSearchProofs` | every property of `CollectionSearch` that holds, its types, caches, graph, restarts and what its searches answer, for all constants |
| `Configuration` | defaults, file, environment, validation |
| `Embedder` | providers, cache and retries |
| `Server` | starts and reloads of the process, and the requests that embed texts |
| `MCServer`, `MCServer_server.cfg` | its instances for TLC |
| `ServerProofs` | every safety property of `Server`, for all constants |
| `Induction` | inductions over numbers and finite sets that the proofs share |

### Collection

A collection is changed only under its write lock, so its operations do not
interleave; death interleaves with them. **Each write to a file is one step**,
the changes to memory up to the next file write belong to it, and `Crash` may
come between any two steps. The variables `data`, `fIndex`, `fVec`, `fDims`,
`wal`, `walMeta` are the six files; `mem` is the `Collection` struct; `nextSeq`,
`opCount`, `checkpointed` are the fields of `Wal` and `CheckpointManager`; `pc`,
`op`, `pos`, `after` are the control state of the running function.

| Code | Actions |
|---|---|
| an operation up to its first log entry | `Insert`, `InsertBatch`, `Upsert`, `UpdateMetadata`, `UpdateVector`, `Delete`, `DeleteBatch` |
| `Wal::log` | `Log`, one step per entry of a batch |
| the rest of the operation, with `track_operation` | `ApplyInsert`, `ApplyUpdateMetadata`, `ApplyUpdateVector`, `ApplyDelete`, `ApplyInsertBatch`, `InsertBatchVectors` |
| `checkpoint` | `Checkpoint`, then `SaveIndex`, `SaveVectorIndex`, `SaveMetadata`, `LogCheckpoint`, `SaveWalMeta`, `Rotate` |
| `compact` | `Compact`, then `SaveIndex`, `SaveVectorIndex`, `SaveMetadata`, `Rotate` |
| `rebuild_index` | `RebuildIndex`, then `SaveVectorIndex` |
| `CollectionBuilder::open`, `replay_wal` | `OpenFails`, `OpenClean`, `OpenAndReplay`, `ReplaySkip`, `ReplayDelete`, `ReplayInsert`, `ReplayDone`, then a checkpoint |
| the process ends | `Crash`; with `TornWrites` the file being written in place is left half-written |

What is abstracted: every record takes one slot of the data file; a document is
an id, a vector and a metadata value, its text left out; a vector has a number
of dimensions (`DimOf`) and may be `Oversized`; a fresh Uuid is any id not in use,
so ids of deleted documents come back, which is more than the code can do; the
vector index is the flat one, a set of ids; a batch has two documents. A death
is one of the process: what was written is in the kernel and stays. The mode
without a log, `vector_count` and the metadata cache are left out. `Recovered`
defines what the files alone say the contents are, and `Contents` is the
refinement mapping to `DurableMap`.

### CollectionManager

Two or more requests (`Clients`) run through the handlers of `services/`. Shared
state is the table (`collections`), the file names (`paths`) and files (`disk`),
the configuration (`capped`), the read-only latch, the rebuild statuses and the
lock of each opened collection (`instances`). **Each access to shared state is a
step.** A guard that is dropped before the handler touches anything else shared
is one step with the work done under it; the write guard that an insertion holds
while it enforces the cache budget is what `Locked` stands for.

| Code | Actions |
|---|---|
| arrival and `ensure_write_allowed` | `Receive`, `ReceiveInsert`, `ReceiveDelete`, `RefuseWrite`, `ReceiveList`, `ReceiveDeleteCollection` |
| `get_existing`, `get_or_create`, `open_and_register` | `Lookup`, `Exists`, `Open`, `OpenFails`, `Register` |
| reads (get, list, search, count, info), create, delete | `Read`, `Create`, `Delete` or `Fails` |
| compact | `CompactOwn`, `CompactOther` or `Fails` |
| insert, upsert, embed | `Insert`, then the budget; or `InsertBreaksOff`, `InsertRefused`, `Fails` |
| `enforce_cache_budget` | `NoBudget` or `Budget`, `Scan`, `WithinBudget` or `OverBudget`, `Evict`, `EvictionDone` |
| `rebuild_index` and its task | `MarkRunning`, `Spawn`, `RebuildTask` |
| `list_collections`, `readyz`, `metrics` | `List` |
| `delete_collection` | `Remove`, `Unlink` |
| `reload_config` | `ReloadConfig` |
| the process ends and `AppState::new` | `Restart` |

`Restart` may come between any two steps: table, opened collections with their
locks, tasks, statuses and the read-only latch are gone, requests in flight get
no answer, and the files stay as they are, that of a collection whose deletion
had not reached them too.

A collection is here the set of its documents in memory (`docs`), and its six
files are one (`disk`), which holds what the next start would recover, as
`Collection` is checked for. A write that succeeds is in both. An insertion that
reports an error may have stored nothing (`Fails`), may have stored its document
all the same (`InsertBreaksOff`: the checkpoint that was due or the change of
dimensions fails afterwards), or may have left it in the log alone
(`InsertRefused`: a limit refuses what is logged already), so that the file may
hold more than memory until the next checkpoint.

The data file is written through the handle that opened it, everything else by
path: the sidecars, the log that is emptied, and the file that a compaction
renames over the collection's. The handle may be stale, of a collection deleted
or created again since it was looked up. `Sole(h)` says that it is not, and that
no other instance has its file. Then a compaction only makes the file hold what
memory does (`CompactOwn`; the new file keeps the old one's number, for nobody
else has that). Otherwise its file takes the place of whatever has the name, which
may be nothing (`CompactOther`), as it does when the rename is done and the new
file cannot be mapped. From then on `overwritten[n]`: the name, its sidecars
and its log come from different instances, and what the next open makes of them
is any set of documents that are on disk somewhere, or a failure (`Recoverable`,
`OpenFails`). A write by path that is not sole sets it too, where a checkpoint or
a rebuild task may take place. A handle of a deleted collection writes its data to
the unlinked file, which is lost with the process.

`shutting_down` is left out because nothing in the server sets it; latency
trackers and page warming change nothing a property sees. Not shown are records
that two instances on one file overwrite in each other's place, because nothing is
claimed of a collection once two instances share its file, and documents a client
deleted, which a mixture of files may bring back, because nothing is claimed of
those either.

`acked`, `raced` and `overwritten` are history. `acked` holds the documents whose
insertion was answered, minus those a client asked to delete and those whose
collection was being deleted meanwhile. `raced[n]` is set when a request that
opens `n` overlaps another one that opens or deletes `n`. A name that is neither
raced nor overwritten is `Undisturbed`, and the promises are about those. Section 5
has what becomes of the others.

### CollectionSearch, its caches and its indexes

`Collection` looks at the files; this module looks at what searches see. An
operation with its checkpoint is one step, and so is a restart: the saved
documents and the saved index are loaded, the log is replayed onto them with an
empty cache (`Replayed`), and only then are the caches rebuilt, which is the
order of `CollectionBuilder::open`. Searches are operators that the properties
evaluate in every state.

| Code | Definitions |
|---|---|
| `insert`, `upsert`, `update_metadata`, `update_vector`, `delete` | actions of these names; `Track` is `track_operation` with the checkpoint |
| `rebuild_index`, `compact`, `clear_metadata_cache` | `RebuildIndex`, `Compact`, `ClearMetadataCache` |
| open with replay | `Restart` |
| `search_collection_with_maps`, `search_vectors`, `range_search_vectors`, `find_duplicates` | `SearchCollection`, `SearchVectors`, `RangeSearchVectors`, `FindDuplicates` |
| `apply_search_overrides` | `ApplySearchOverrides` |
| `HnswIndex` | `Insert` (`FirstNode`, `Connected`, `Descend`, `SelectNeighbors`, `WithBackEdge`), `Remove`, `Search`, and `Walk` with `Visit` and `Explore`, which is `search_layer` |
| `IvfIndex` | `Insert` (`BuildClusters` with `KMeans`), `Remove`, `Search` |
| `IndexConfig::select_type`, `create_index` | `VectorIndex!SelectType`, `CreateIndex` |

A vector is a point on a line and a score the order of the distances, which is
all that an index compares; points are chosen so that no two scores tie. What
the code draws at random or takes from the order of a `HashMap` - the layer of a
node, the initial centroids, the order of a rebuild, the live node that takes
the place of the start node - is a nondeterministic choice. Each of the heaps in
`search_layer` gives its *nearest* element first, because `SearchCandidate`'s
`Ord` is reversed; `Top` models that, not the comment beside it. The services
never pass a filter to a search, so filtered searches are those of the library's
interface. `patchy` is history: it is set when a replay inserts into a graph or
into pending clusters that it cannot see, and reset by a rebuild. Two properties
are stated for indexes that are not patchy; the run `recovery` is about the
others.

### Server, Configuration and Embedder

`Server` is the process: `Start`, `Reload` and `ReloadExits` load the
configuration, `EditFile` is the operator. A request is a task that awaits the
provider and the pauses between retries. **Between two awaits it is one step**,
but for the mutex of the embedder's cache, which is taken twice, before the call
and after it: `LookupHits` or `LookupMisses`, `Reply` or `TimeOut`, `Wake`,
`Store`. The provider may give any answer that its client can turn into a result or
an error, at any time or never.

With its vectors an insertion takes the write lock of the collection (`Locked`) and
keeps it through `Insert`, `Budget` (`enforce_cache_budget`) and `Record`. `Insert`
is what `Collection` does to the files, without the steps: it stores all documents
and goes on, or is told an error although it did (`StoresAll`: a vector of another
length, or the checkpoint that was due, fails when the documents are in place); it
logs some of them and fails (`StoresNone`); or it logs all and is refused by a limit
(`Exceeds`). `docs` has what each request stored and `logged` what it left in the log
alone. The first request of a process opens the collection (`Opens`), which stores
what was logged, as far as the limits now in force allow (`Recovered`), or fails
(`OpenFails`). With a cache budget (`Capped`) the insertion waits for its own lock
and is `stuck`, and with it whoever wants the lock. A search is counted (`Record`)
before its request is parsed to the end, takes the read lock and may fail
(`Search`).

`Configuration` has one setting per field that a variable sets or validation
reads, under the names of the file; which values a setting may have is
`FileTyped`, which the parsers of files and variables see to. `ApplyEnvOverrides` applies the groups of
variables in the order of the code, for some of them change the settings of
others; `Parses` says which variables are consulted at all; `LoadAppConfig` is
`None` where the process exits.

History: `loaded` is the version of the file that is in force, `paid` and
`billed` are what the provider answered, `excused` the texts that were evicted or
asked for twice at once, `earlier` the requests of earlier processes.

## 3. Runs

| Run | Shows | Bounds |
|---|---|---|
| `core` | a collection without limits or compaction is a `DurableMap`; recovery restores contents, pointers, search structures, and never fails | 2 ids, 2 vectors, 2 metadata values, 3 logged writes, 2 deaths at any point, a checkpoint every second operation and when the interval is due; 1.65 million states |
| `compact` | the same across batches, compaction and rebuilding, and that all of it ends | 2 ids, 3 logged writes, 1 death, not between rename and index save; 189 thousand states |
| `limits` | pointers, the soundness of the vector index and `max_vectors` hold through rejected and failing operations and half-written files | 3 ids, limits of 2 vectors and 3 slots, vectors of two lengths and one oversized, 1 death |
| `open` | **violated**: a refused write in the log makes every later open fail | 2 ids, a limit of 1 vector, a death while idle |
| `compact_crash` | **violated**: a death between rename and index save mixes up documents | |
| `requests` | one instance per file, acknowledged inserts visible and on disk, reads create nothing, "running" is true - all of it but for names whose opening was raced or whose files a stale handle replaced | 2 threads, 4 requests of every kind but listing on 1 name, no cache budget, opens that fail, deaths at any point; 970 thousand states |
| `answers` | every request is answered while no cache budget is set | 2 threads, 3 requests, listing among them but neither creation nor deletion of a document, deaths at any point, a disk that may be full; 286 thousand states |
| `budget` | **violated**: with a budget the first insertion waits for itself | |
| `search` | caches agree with the documents; searches never fail or return what they must not; a thorough search equals a comparison with every document, filtered or not; duplicates are found; the graph can always be entered; only writes change the documents, a restart never does | 3 ids, 3 points, 2 metadata values, 4 writes or rebuilds, a checkpoint every second write, a metadata cache of 1, index by size (flat below 2, IVF below 3) or IVF or HNSW, 2 clusters, 2 layers; 50 thousand states up to symmetry |
| `recovery` | **violated**: what a recovery inserts into a graph is linked to nothing | the same, HNSW |
| `beam` | **violated**: a walk with a full beam drops the nearest node | the same, a beam of 2 |
| `server` | vectors stay with their texts, through insertions that fail halfway and the restarts after them; retries are bounded, texts are paid for once, metrics count what was answered, every request ends unless there is a cache budget; the environment is in force and nothing unusable is accepted | 3 requests, 2 texts, a cache of 1, 2 retries, 3 providers, limits of 1 and 3 vectors, a cache budget; 19 environments with and without a file, 4 histories of the file of up to 3 versions; 131 thousand states |

Why the bounds are enough. Three logged writes and two deaths allow an
operation, a checkpoint around it, a death in it, a death in the recovery, and a
write that relies on what recovery left; the second id is there to be overwritten
or mixed up with. The data file has room for every record of every recovery
within these bounds, so the slot bound never hides a step. In `requests` four
requests allow an insertion, a deletion of the collection under it, a new
collection of that name and a read, or a compaction by a stale handle, with two in
flight at every moment. One name is enough: names share only the cache budget. The two
runs leave out what adds states and nothing else: under a cache budget an insertion
goes no further (`budget`), which the theorems of section 4 cover; a listing changes nothing and
takes locks only, which is the question of `answers`, and there a creation and a
deletion wait for the same locks as a read and an insertion.
The server may be idle when all requests are sent, so deadlock is not checked there;
waiting for ever is what `AnsweredWithoutBudget` is about.

In `search` three documents let an index by size be flat, clustered and a graph
in one behaviour, let clusters be built from pending vectors, and let the
metadata cache evict (that it is coherent with any limit is proved). `m` is greater than the number of nodes, so every graph is
complete but for what a replay leaves out, and a thorough search of it exact;
`beam` has the smallest beam that can be full. Larger graphs, in which pruning
cuts edges, are approximate by design and nothing is claimed of their recall.
What `SearchSound` says of failures is said of a `Searchable` index: one of the
kind IVF with fewer vectors than clusters answers every search with an error,
where the documentation promises a scan of all documents (section 5). In
`server` three requests allow a text that is evicted between two lookups, two
lookups that miss at once, and a third request that finds either outcome; in one
scenario a batch is refused by a limit that an edit of the file lifts, so that what
it had logged is stored by the next process, and in another a cache budget is set;
the environments are the ones in which one variable changes the setting of another
or is not consulted. These runs stop when the bound on writes, requests and
edits is used up, so deadlock is not checked; `EveryRequestEnds` says that
nothing waits for ever where no cache budget is set. Where one is, an insertion
does, as `budget` shows in `CollectionManager`.

Fairness. `Collection` assumes `WF(Continue)`: a live process goes on with what it
has begun, and a closed collection is opened by the next request for it. New
operations and deaths are not fair. `CollectionManager` assumes weak fairness for
the steps of a handler that wait for nothing, because the runtime runs its
threads, and strong fairness for steps that wait for a lock, because
`parking_lot`'s locks are eventually fair. Arrivals, reloads and restarts are not
fair.
`Server` assumes weak fairness for the steps of a request, because tasks are
scheduled and timers fire, and for `TimeOut`, which is there only if
`EMBEDDING_TIMEOUT_SECS` is set; nothing is assumed of the provider, so
`EveryRequestEnds` is claimed for servers with that limit alone. Weak fairness is
enough for the lock of the collection too: each request takes it once and gives it
back, so that only finitely many others can come before it. Starts, edits and
reloads are not fair.

## 4. Proofs

A theorem holds for every value of the constants that its module's
`ConstantsAssumption` allows, and that says no more than what the types of the
code do: numbers are numbers, `None` is none of the values it stands beside. What
a theorem assumes beyond that is said below, with the run that shows why. The
proof of each invariant has one lemma per action, or per group of actions that
do the same to it.

`Collection`, for all ids, vectors, metadata, limits, operations and bounds:

* `TypeCorrect`: `Spec => []TypeOK`. `TypeOK` is not inductive: that compaction
  stays within the file needs that the live documents are no more than the slots
  below the cursor, and that an operation in progress has writes of the kind its
  name says. `TypeInv` adds `OpShape`, `Sound(mem)` (pointers are injective and
  lie below the cursor) and `Injective(fIndex)`.
* `SequenceAlwaysFresh`: `Spec => []FreshSequence`. `SequenceInv` adds to `TypeInv`
  that `walMeta < nextSeq` in a running process, and that the log lies below
  `nextSeq` except during replay and checkpoints: recovery restarts the numbers
  just above the last checkpoint, *below* those in the log, and only the rotation
  that ends its checkpoint makes them fresh again.
* `PointersAlwaysIntact`: `Spec => []PointersIntact`, assuming that the process
  does not die at `cpIndex`, the moment between the rename of a compacted file and
  the save of its index. `PointerInv` adds to `TypeInv` that every pointer of
  `mem.index` leads to a record of its own id at all times, and every pointer of
  `fIndex` too except at `cpIndex`, and that both lie below the cursor. Appends go
  to the cursor, so they touch neither; a recovery puts the cursor just above
  `fIndex`. The run `compact_crash` shows what happens without the assumption.
* `ReadsAlwaysRecoverable`: `Spec => []ReadsAreRecoverable`, and `MapImplemented`:
  `Spec => ImplementsDurableMap`, assuming no death at `cpIndex` and
  `NothingRejected` (no limit, no oversized vector, one number of dimensions: a
  logged write is never refused; `open` shows what one that is refused leads to).
  `RecoveryInv` adds to `PointerInv` and `SequenceInv` the form of the operation in
  progress (`OpForm`), that the numbers in the log ascend (`Ordered`), and
  `Durable`: at each point of each operation, what the files recover for an id is
  what memory has, or will have when the rest of the operation is applied.
  Between the writes of a checkpoint this is what makes their order right: the
  log still holds what the saved index may already have, replaying it once more
  changes nothing, and `.wal.meta` moves on only after the index is on disk.
  `MapImplemented` maps every step: `Log` is a step of the map, everything else,
  deaths and recoveries included, is none.
* `OpenAlwaysSucceeds`: `Spec => []OpenNeverFails`, under the same two assumptions
  and without `TornWrites`: a sidecar that a death left half-written cannot be
  read.
* `VectorsAlwaysLimited`: `Spec => []VectorLimit`, without assumptions. `LimitInv` adds
  to `TypeInv` that both `mem.index` and `fIndex` keep to the limit.
* `VectorIndexAlwaysSound`: `Spec => []VectorIndexSound`, assuming no death at
  `cpIndex`. In `VectorInv` the saved vector index refers only to documents that
  the saved offset index has or that the log, from its last mention of them, will
  bring back (`FilesFollow`); memory does so up to what is still to be replayed
  (`IndexFits`).
* `VectorIndexAlwaysComplete`: `Spec => []VectorIndexComplete`, assuming further
  `NothingRejected` and no `insert_batch`. A checkpoint inside a batch saves a vector
  index that does not have the batch yet, and after a death nothing puts it there
  (section 5). `CompleteInv` states the converse of `VectorInv`: a saved document
  that the log does not mention is in the saved vector index.

`CollectionManager`: all its safety properties, for every set of
names, every finite set of threads, any number of requests, and with or without
deaths, full disks, opens that fail and cache budgets:

* `ManagerTypeCorrect`: `Spec => []TypeOK`. That there are no more opened
  collections than requests sent is not inductive: `Counted` adds that
  the requests that may still open a collection are, together with the opened
  ones, no more than those sent. It is a fact about cardinalities, which is why
  the threads must be finitely many.
* `RunningAlwaysTrue`: `Spec => []RunningIsTrue`, from the types alone. Every step
  that sets the status to running leaves a handler at `spawn`, every spawn leaves
  a task, and a task that ends replaces the status; a deleted collection still
  has its task.
* `OneInstanceAlways`: `Spec => []OneInstanceUnlessDisturbed`, and `ReadsNeverCreate`:
  `Spec => ReadsDoNotCreate`, both from `RaceInv`. It says that a file belongs to
  one name for ever, and for every undisturbed name: whoever opens it does so
  alone, with the table empty and nobody deleting (`Alone`); if an opened
  collection's file is linked, the name is in the table, or about to be registered
  or unlinked (`Linked`); no two opened collections share a file (`Distinct`); and
  who must not create the file finds it when it opens (`Found`).
  This is the argument that `exists`, `open` and `register` need no common lock
  as long as no other open or deletion of the name falls between them, and no
  compaction by a stale handle.
* `AckedAlwaysOnDisk`: `Spec => []AckedOnDisk`, and `ReadsAlwaysSeeAcked`:
  `Spec => []ReadsSeeAckedWrites`, from `PromiseInv` on top of `RaceInv`. While a
  collection is being deleted nothing is promised in it (`NothingPromised`), and
  no document is inserted twice (`FreshDocs`). In an undisturbed collection the one in
  the table works on the linked file (`TableLinked`), a request that will make or
  test a promise holds that collection (`HasLoaded`), the file of an opened
  collection has all that memory has, memory has everything promised and about to
  be (`Durable`), and promised documents are in the linked file (`Kept`). That memory and
  file need not be equal is what insertions that fail are about: a file that has
  more is as good, and both an insertion and a compaction may replace it by what
  memory has. A restart keeps the invariant because promises are about files alone.

`Server`: all its safety properties, for any finite set of requests with any
texts, every capacity, number of retries and delay, every environment and every
history of the file whose values have the types that their parsers enforce
(`FileTyped`, `EnvTyped`):

* `RetriesAlwaysBounded`: `Spec => []RetriesBounded`.
  `CallsInv` says what the counters mean at each point of the loop: a request that
  looks up or waits has been called for as often as it has failed, one that calls
  or stores once more, and a new text starts at zero. It is preserved because
  only an error moves a request past `MaxRetries` attempts, and that one ends it.
* `AlwaysStoredAsEmbedded`: `Spec => []StoredAsEmbedded`, and `AlwaysTyped`:
  `Spec => []TypeOK`. `EmbedInv` adds that the cache maps each text to its own
  vector, once (`CacheInv`), that requests run only in a process that could
  create their embedder (`ProcessInv`), and what each request has collected so
  far: one answer for each text it is done with, in order (`RequestsInv`).
  `PlacedInv` says where its documents are: stored or in the log alone, never in
  both, and the first of its texts in either place; in the log alone only if it was
  told an error, or the process ended; and where no collection is open yet, what is
  in the log is of earlier processes, so that a recovery changes nothing that a
  request of this one was told.
* `PaidOnce`: `Spec => []PaidOnceUnlessRaced`. `PaidInv`: what was paid for is in
  the cache or carried to it by a request at `store`, and two requests that ask
  for one text at once, or one that asks for what is cached meanwhile, have
  excused it.
* `AlwaysUsable`: `Spec => []ConfigUsable`, and `EnvironmentAlwaysInForce`:
  `Spec => []EnvironmentInForce`. `LoadInv` says that the configuration in force is
  what `LoadAppConfig` makes of the version loaded last. What that makes of any
  file and environment is followed through the stages of `ApplyEnvOverrides`: for
  each stage one lemma says which settings it sets, and to what, and one that it
  keeps the others, so a variable has its way because every stage after its own
  keeps its setting.
* `MetricsAlwaysAddUp`: `Spec => []MetricsAddUp`. `MetricsInv` counts: the requests
  recorded are the insertions that were told ok and the searches that embedded
  their text (`Counted`), the texts recorded are those searches and the
  documents of those insertions, and the tokens recorded and those that live
  requests carry are together no more than the providers billed. A recovery keeps
  it because a request that is counted has nothing in the log alone.

`CollectionSearch`, for every finite set of ids, all vectors, metadata and
documents, every index configuration with any parameters, number of layers and
number of neighbours, every cache limit (zero and a disabled cache included) and
checkpoint frequency:

* `SearchTypeCorrect`: `Spec => []TypeOK`; `CachesAlwaysCoherent`:
  `Spec => []CacheCoherent`; `EntryPointAlwaysLive`: `Spec => []EntryPointLive`; and
  `DocumentsAlwaysSurvive`: `Spec => DocumentsSurvive`, an action property.
  These, and what searches answer below, follow from `SearchInv`. Of memory it says
  (`MemoryInv`) that the cache is well-formed (`CacheOK`: the queue lists each
  cached metadata once, within the limit), that the caches agree with the
  documents (`Agrees`), that a vector is cached for a document or a node of the
  graph only (`Backed`), that no two cached vectors are equal (`Distinct`), and
  that the index is of a kind that was asked for and well-formed: each id of an
  IVF index is in the cluster it is noted for (`IvfOK`), and the start node of a
  graph is live and no live node has a layer above the topmost (`GraphOK`). An
  index finds documents only, a flat index and the live nodes of a graph are all
  of them (`Fits`), and the clusters hold all of them unless a replay inserted
  beside vectors that it did not see (`Complete`, unless `patchy`).
  That a restart brings this about is not a fact about memory: a replay starts
  from an index and documents that may have been saved at different times, since
  `rebuild_index` saves the index alone. `SavedInv` says what makes it right: the
  log leads from the saved documents to those in memory (`Recalls`: the last entry
  about an id tells what became of it, and an id that no entry mentions is as it
  was saved), and for an id that no entry mentions the saved index fits the saved
  documents. For an id that the log does mention nothing is claimed of the saved
  index; the last entry about it puts it right (`ReplayOK`), because inserting
  makes an id found and removing one that is not there changes nothing.
  Each operator on a cache or an index has its lemma (`PutMetadataOK`, `InsertOK`,
  `RemoveIndexOK`, `BuildOK` ...), stated for any well-formed argument, and each
  way to change memory keeps all ids but one as they are (`Changes`), so a replay of
  any length, and a write, need no more than that.
* `SearchAlwaysSound`: `Spec => []SearchSound`, for every kind of index. A ranking
  lists each of the ids it ranks once (`RankedFacts`); a walk through a graph gives
  nodes whose vectors are cached (`SearchLayerOK`, `DescendOK`), and of those the
  live ones, which are the documents; the cut and the filter only take away
  (`IndexSearchOK`, `SearchCollectionOK`).
* `FilteredSearchAlwaysExact`: `NumClusters <= 20` gives
  `Spec => []FilteredSearchIsExact`, and `ThoroughSearchAlwaysExact`: it gives
  `Spec => [](mem.index.kind # "Hnsw" => ThoroughSearchIsExact)`. A probe of every
  cluster compares all that is indexed, which is all documents by `Complete`; two
  rankings by scores in the same order are the same, and what is filtered out of
  a ranking and cut is the ranking of what passes. The hypothesis is what
  the properties mean by a thorough request: the preset `high` probes 20 clusters
  (`apply_search_overrides`), so with more of them it does not probe every one, and
  may miss a document that is nearer than those it finds.
* `DuplicatesAlwaysFound`: `NumClusters <= 20` and at most 50 ids give
  `Spec => []DuplicatesFound`. `find_duplicates` asks for 49 neighbours unless told
  otherwise, so that with 50 documents each may have all others but one; with more
  it misses pairs. The proof counts: of n documents a search for n - 1 leaves out
  the one farthest away, and a pair is found from either of its two ends.

`CollectionSearch` assumes of its ids that they are finitely many, and of `None`
that it is no id, no kind of index and none of the values that a request may
name (`RequestAssumption`; in the code it is the `None` of an `Option`). What
searches answer needs `PointsAssumption` too: no query and no document is equally
far from two vectors, for otherwise the order of an answer is an accident of the
order of a `HashMap`. That it keeps the means of vectors within the integers is
for TLC; no theorem uses it.

Sums, settings, replays, rebuilds and the layers of a graph need inductions over
sequences and finite sets. The library's induction theorems take an operator
as a parameter, which the provers cannot instantiate; `Induction` has them with
a *set* in its place (`LeastNumber`, `SubsetInduction`, `IntervalInduction`). The
recursive functions of the models are `CHOOSE`n, so where a proof unfolds one it
first shows by such an induction that there is a function like it (`FilledExists`,
`GrownExists`).

Only model-checked:

* liveness (`Progress`, `AnsweredWithoutBudget`, `EveryRequestEnds`), which under
  fairness is out of the prover's reach;
* that a thorough search of an HNSW graph is exact (the rest of
  `ThoroughSearchIsExact`). It is not true for all constants: a beam narrower than
  the graph, or a node pruned away by all its neighbours, misses documents. It holds
  in the run because 3 nodes fit into the beam and into each other's lists.
  `EveryDocumentFound` and `BeamHoldsTheBest` are violated (section 5).

## 5. Findings and divergences

`PROJECT.json` quotes the line that each violated run contradicts: `open` (a
write that a limit refused is in the log, is refused again by recovery, and no
later open succeeds), `compact_crash` (a death between rename and index save mixes
up documents), `budget` (an insertion waits for itself), `recovery` (replay inserts
into a graph it cannot see) and `beam` (a full beam drops the nearest node). Seen on
the way and without a run of their own:

* `blogs/architecture/indexing.md:331` says "The IVF code falls back to a brute-force
  scan if clusters haven't been built yet", but `search` answers `NotInitialized`
  until as many vectors as clusters have been inserted (`ivf/index.rs:194`).
  `SearchSound` follows the code: it says that such a search fails, and no other;
* a compaction looks its collection up before it takes the lock
  (`services/collection.rs:263`). If the collection is deleted and created again
  meanwhile by an insertion that is answered, the compaction puts its file in the
  place of the new one (`compact.rs:46`) and empties the new log (`compact.rs:60`):
  the answered document is lost, although
  `blogs/architecture/database.md:41` says "once a commit is acknowledged, the data
  survives a crash". With `~raced[n]` in the place of `Undisturbed(n)`, `AckedOnDisk`
  fails within four requests;
* with a collection at `max_vectors`, an *accepted* insertion may be refused by
  recovery too: a death in a checkpoint, after the offset index is saved and before
  `.wal.meta` is, leaves the document in the index and in the log, the limit counts
  it before it is replayed over itself (`limits.rs:8`), and no later open succeeds.
  The run `open` with one id and deaths at every point ends there;
* a refused write that recovery can apply, because a deletion made room
  meanwhile, comes back (`operations/write.rs:55`); `limits` is bounded to what
  holds nevertheless;
* `insert_batch` may take its checkpoint before the vector index has the batch
  (`operations/write.rs:96`); `compact` sets the frequency so that it does not;
* an insertion that is told an error may have stored its documents, or have logged
  some that a restart stores (`operations/write.rs:23`, `:55`, `:74`, `:96`);
  `embed_text` counts none of them, nor the tokens it paid for them
  (`services/embedding.rs:62`);
* two first requests may open one collection twice (`manager.rs:61`);
  `OneInstanceUnlessDisturbed` is what is left;
* under the Euclidean metric the graph takes `1/(1 + d)`, which is greatest for
  the nearest, as a distance (`hnsw/index.rs:415`): with `Euclidean = TRUE`
  `ThoroughSearchIsExact` fails at once;
* under HNSW a search for duplicates reports pairs with deleted documents, whose
  vectors stay cached, and with every index it asks each document for one
  neighbour less than there are, itself among them (`dup.rs:42`);
* a filter drops the entry point of the graph like any node, and the walk ends
  there (`hnsw/index.rs:274`), so `FilteredSearchIsExact` is not claimed of HNSW;
* `INDEX_TYPE` copies the search section before `SEARCH_FILTER_OVERFETCH` changes
  it (`config/app.rs:133`), the `hardware.profile` of a file is not applied
  (`config/app.rs:206`), and zero parameters of an index named outright pass
  validation (`config/app.rs:88`);
* a reload of a file that is refused ends the server (`config/loader.rs:25`);
* `blogs/architecture/embeddings.md` retries rate limits and failed requests only,
  `is_recoverable` also API errors and answers that do not parse;
* `embed_text` creates the collection before it rejects a request without text
  (`services/embedding.rs:31`);
* `readyz` lists every `.db` file, sidecars included, as a collection that is not
  loaded (`services/admin.rs:182`);
* `checkpoint_all` and `initiate_shutdown` are never called, so every end of the
  process is a death.

## 6. Plan

Done: every module above, and the proofs of every safety property of
`Collection`, `CollectionManager`, `Server` and `CollectionSearch` but for the
exactness of a search through a graph. What could be added next to them: under
which sizes of the beam and of the neighbour lists such a search is exact, and an
order of the removals in `delete_collection`, which are one step here.

## 7. Not modelled

Distance kernels and quantization are floating-point arithmetic in several
instruction sets, and quantization is not used by the write and search paths
beyond the settings that `Configuration` validates. Routing, serialization, the
other commands of the command line, latency and lock metrics, the validation of
request bodies and error types are formats, I/O or counters on which nothing else
depends. Formats of files and of the providers' answers, mapping and growth of
the data file are abstracted. Also left out: power loss (`Wal::log` never calls
fsync, so it may lose any write that was acknowledged, and what it leaves of six
files is the file system's choice), the mode without a log, and the removals of
the six files of a deleted collection one by one, with a death or a stale handle
between them. `Server` does not say how large a document is: a limit in bytes may
refuse any insertion there. `CollectionManager` has one file for the six and says of a mixture
of them only that anything may be found (`overwritten`); what exactly, the files
of `Collection` multiplied by the handlers would have to tell.
