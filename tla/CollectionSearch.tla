-------------------------- MODULE CollectionSearch --------------------------
(***************************************************************************)
(* Searching a collection: its documents, its caches and its vector index  *)
(* through writes, checkpoints, restarts, rebuilds and evictions, and what *)
(* a search, a filtered search and a search for duplicates answer.         *)
(*                                                                         *)
(* The module Collection has the files and the deaths between their        *)
(* writes.  Here an operation with its checkpoint is one step, and so is a *)
(* restart.  Searches change nothing; the properties ask them.             *)
(***************************************************************************)
EXTENDS Integers, FiniteSets, Sequences

CONSTANTS
    Ids, Points, Metas,       \* documents have an id, a vector and metadata
    Documents,                \* vectors and metadata that are inserted together
    Queries, QueryFilters,    \* what the properties search for
    Configs,                  \* IndexConfigs: "Flat", "Ivf", "Hnsw", "Auto"
    FlatMaxVectors, IvfMaxVectors, NumClusters, NumProbes, MaxIterations,
    M, MMax, EfConstruction, EfSearch, MaxLayer, Euclidean,
    Enabled, MaxSize,         \* CacheConfig
    FilterOverfetch,          \* filter_overfetch of SearchConfig
    CheckpointFrequency,      \* checkpoint_frequency of WalConfig
    MaxWrites,                \* bound on writes and rebuilds
    None

Index == INSTANCE VectorIndex
Cache == INSTANCE CacheManager
Filters == INSTANCE Filter
Rank == INSTANCE Similarity

\* No query and no document is equally far from two vectors, and the mean of
\* any vectors is an integer.
ASSUME PointsAssumption ==
    /\ Points \union Queries \subseteq Int
    /\ \A p \in Points \union Queries : \A a, b \in Points :
        Rank!Similarity(p, a) = Rank!Similarity(p, b) => a = b
    /\ \A some \in (SUBSET Points) \ {{}} :
        Index!Ivf!MapThenSumSet(LAMBDA p : p, some) % Cardinality(some) = 0

ASSUME ConstantsAssumption ==
    /\ IsFiniteSet(Ids) /\ None \notin Ids \union {"Flat", "Ivf", "Hnsw"}
    /\ Documents \subseteq [vector : Points, metadata : Metas]
    /\ Configs \subseteq {"Flat", "Ivf", "Hnsw", "Auto"}
    /\ {FlatMaxVectors, IvfMaxVectors, NumClusters, MaxIterations, M, MMax, MaxLayer,
        MaxSize, FilterOverfetch, CheckpointFrequency, MaxWrites} \subseteq Nat
    /\ {NumProbes, EfConstruction, EfSearch} \subseteq Nat \ {0}
    /\ Euclidean \in BOOLEAN /\ Enabled \in BOOLEAN

\* What a request leaves open is none of the values it could name.
ASSUME RequestAssumption == None \notin Int \union QueryFilters \union {"fast", "high"}

VARIABLES
    config,   \* the IndexConfig the collection was opened with
    mem,      \* documents, caches and vector index in memory
    saved,    \* documents and vector index at the last checkpoint
    log,      \* the entries logged since
    ops,      \* operation_count of the CheckpointManager
    writes,   \* how many writes and rebuilds there were, for the bound
    patchy    \* history: the index was last filled by a replay beside it

vars == <<config, mem, saved, log, ops, writes, patchy>>

Docs == [vector : Points, metadata : Metas]

CurrentIds == DOMAIN mem.docs
VectorsOf(docs) == [id \in DOMAIN docs |-> docs[id].vector]

-----------------------------------------------------------------------------
(* Changes to memory; each is the set of its outcomes. *)

InsertInternal(m, id, doc) ==
    LET cached == Cache!PutMetadata(Cache!PutVector(m.cache, id, doc.vector),
                                    id, doc.metadata)
    IN  {[docs |-> Cache!With(m.docs, id, doc), cache |-> cached, index |-> x] :
            x \in Index!Insert(m.index, id, cached.vectors)}

\* Fault: the vector index keeps the id.
DeleteInternalKeepsIndexed(m, id) ==
    {[m EXCEPT !.docs = Cache!Without(@, id), !.cache = Cache!Remove(@, id, FALSE)]}

\* The graph keeps the vector of a deleted document, to walk through its node.
DeleteInternal(m, id) ==
    {[docs |-> Cache!Without(m.docs, id), index |-> x,
      cache |-> Cache!Remove(m.cache, id, m.index.kind # "Hnsw")] :
        x \in Index!Remove(m.index, id)}

Replace(m, id, doc) ==
    UNION {InsertInternal(deleted, id, doc) : deleted \in DeleteInternal(m, id)}

\* A fresh cache, filled in the order of a HashMap.
RebuiltCaches(docs) ==
    LET put(c, id) == Cache!PutMetadata(Cache!PutVector(c, id, docs[id].vector),
                                        id, docs[id].metadata)
        after[ids \in SUBSET DOMAIN docs] ==
            IF ids = {} THEN {Cache!New}
            ELSE UNION {{put(c, id) : c \in after[ids \ {id}]} : id \in ids}
    IN  after[DOMAIN docs]

-----------------------------------------------------------------------------
(* Writes. *)

\* Fault: the checkpoint holds the documents from before the write.
TrackSavesFirst(entry) ==
    IF ops + 1 >= CheckpointFrequency
    THEN ops' = 0 /\ log' = <<>> /\ saved' = [docs |-> mem.docs, index |-> mem'.index]
    ELSE ops' = ops + 1 /\ log' = Append(log, entry) /\ saved' = saved

\* Appends to the log; track_operation takes a checkpoint if it is due.
Track(entry) ==
    IF ops + 1 >= CheckpointFrequency
    THEN ops' = 0 /\ log' = <<>> /\ saved' = [docs |-> mem'.docs, index |-> mem'.index]
    ELSE ops' = ops + 1 /\ log' = Append(log, entry) /\ saved' = saved

Write(outcomes, entry) ==
    /\ writes < MaxWrites
    /\ writes' = writes + 1
    /\ mem' \in outcomes
    /\ Track(entry)
    /\ UNCHANGED <<config, patchy>>

\* Vectors whose scores could tie with a cached one are left out.
Fresh(id, vector) ==
    \A other \in DOMAIN mem.cache.vectors \ {id} : mem.cache.vectors[other] # vector

\* There is no file of a vector index yet.
NoIndex == [kind |-> None]

Init ==
    /\ config \in Configs
    /\ mem = [docs |-> <<>>, cache |-> Cache!New, index |-> Index!CreateIndex(config, 0)]
    /\ saved = [docs |-> <<>>, index |-> NoIndex]
    /\ log = <<>>
    /\ ops = 0
    /\ writes = 0
    /\ patchy = FALSE

\* insert, and upsert of an id that does not exist.
Insert(id, doc) ==
    /\ id \notin CurrentIds
    /\ Fresh(id, doc.vector)
    /\ Write(InsertInternal(mem, id, doc), [op |-> "insert", id |-> id, doc |-> doc])

\* upsert of an id that exists.
Upsert(id, doc) ==
    /\ id \in CurrentIds
    /\ Fresh(id, doc.vector)
    /\ Write(Replace(mem, id, doc), [op |-> "update", id |-> id, doc |-> doc])

\* The index and the cached vector stay as they are.
UpdateMetadata(id, metadata) ==
    LET doc == [mem.docs[id] EXCEPT !.metadata = metadata]
    IN  /\ id \in CurrentIds
        /\ Write({[mem EXCEPT !.docs[id] = doc,
                              !.cache = Cache!PutMetadata(@, id, metadata)]},
                 [op |-> "update", id |-> id, doc |-> doc])

\* The new vector is cached before the index drops and takes the id.
UpdateVector(id, vector) ==
    LET doc == [mem.docs[id] EXCEPT !.vector = vector]
        cached == Cache!PutMetadata(Cache!PutVector(mem.cache, id, vector),
                                    id, doc.metadata)
    IN  /\ id \in CurrentIds
        /\ Fresh(id, vector)
        /\ Write({[docs |-> Cache!With(mem.docs, id, doc), cache |-> cached, index |-> x] :
                     x \in UNION {Index!Insert(removed, id, cached.vectors) :
                                     removed \in Index!Remove(mem.index, id)}},
                 [op |-> "update", id |-> id, doc |-> doc])

Delete(id) ==
    /\ id \in CurrentIds
    /\ Write(DeleteInternal(mem, id), [op |-> "delete", id |-> id])

-----------------------------------------------------------------------------
(* Maintenance. *)

\* A new index of the kind that suits the number of documents; rebuild_index
\* saves it beside the old checkpoint, compact saves everything.
Rebuild(growing) ==
    /\ writes < MaxWrites
    /\ writes' = writes + 1
    /\ \E x \in Index!Build(Index!CreateIndex(config, Cardinality(CurrentIds)),
                            VectorsOf(mem.docs), growing) :
       \E cache \in RebuiltCaches(mem.docs) :
            mem' = [mem EXCEPT !.index = x, !.cache = cache]
    /\ patchy' = FALSE
    /\ UNCHANGED <<config, ops>>

RebuildIndex ==
    /\ Rebuild(FALSE)
    /\ saved' = [saved EXCEPT !.index = mem'.index]
    /\ UNCHANGED log

Compact ==
    /\ Rebuild(TRUE)
    /\ saved' = [docs |-> mem'.docs, index |-> mem'.index]
    /\ log' = <<>>

\* The cache budget: clear_metadata_cache.
ClearMetadataCache ==
    /\ mem.cache.order # <<>>
    /\ mem' = [mem EXCEPT !.cache = Cache!ClearMetadata(@)]
    /\ UNCHANGED <<config, saved, log, ops, writes, patchy>>

-----------------------------------------------------------------------------
(* A restart.  Entries are replayed onto the saved documents and index with *)
(* an empty cache, which is rebuilt only afterwards.                         *)

Apply(m, entry) ==
    CASE entry.op = "insert" -> InsertInternal(m, entry.id, entry.doc)
      [] entry.op = "update" -> Replace(m, entry.id, entry.doc)
      [] entry.op = "delete" -> DeleteInternal(m, entry.id)

Replayed(m, entries) ==
    LET after[i \in 0 .. Len(entries)] ==
            IF i = 0 THEN {m}
            ELSE UNION {Apply(before, entries[i]) : before \in after[i - 1]}
    IN  after[Len(entries)]

LoadedIndex ==
    IF saved.index = NoIndex
    THEN Index!CreateIndex(config, Cardinality(DOMAIN saved.docs))
    ELSE saved.index

\* Whether a replay inserts beside vectors that it cannot see.
InsertsBlindly ==
    /\ \E i \in DOMAIN log : log[i].op # "delete"
    /\ \/ LoadedIndex.kind = "Ivf" /\ LoadedIndex.pending # {}
       \/ LoadedIndex.kind = "Hnsw" /\ LoadedIndex.start # None

Restart ==
    /\ \E m \in Replayed([docs |-> saved.docs, cache |-> Cache!New,
                          index |-> LoadedIndex], log) :
       \E cache \in RebuiltCaches(m.docs) :
            mem' = [m EXCEPT !.cache = cache]
    /\ saved' = IF log = <<>> THEN saved
                ELSE [docs |-> mem'.docs, index |-> mem'.index]
    /\ log' = <<>>
    /\ ops' = 0
    /\ patchy' = (patchy \/ InsertsBlindly)
    /\ UNCHANGED <<config, writes>>

-----------------------------------------------------------------------------
(* Searches. *)

\* apply_search_overrides: a preset, then what the request names itself.
ApplySearchOverrides(base, request) ==
    LET preset == CASE request.preset = "fast" -> [base EXCEPT !.ef = 50, !.nprobe = 1]
                    [] request.preset = "high" -> [base EXCEPT !.ef = 400, !.nprobe = 20]
                    [] request.preset = None -> base
        named == {field \in DOMAIN base : request[field] # None}
    IN  [field \in DOMAIN base |-> IF field \in named THEN request[field] ELSE preset[field]]

\* The walk through the graph skips ids whose cached metadata fails the filter.
Visible(filter) ==
    {id \in Ids : \/ filter = None
                  \/ id \notin DOMAIN mem.cache.metadata
                  \/ Filters!Matches(filter, mem.cache.metadata[id])}

\* Fault: as many are fetched as are asked for, filter or not.
SearchKNotExpanded(k, filter, quality) == k

\* How many hits the index is asked for.
SearchK(k, filter, quality) ==
    IF filter = None THEN k
    ELSE k * (IF quality.overfetch > 1 THEN quality.overfetch ELSE 1)

\* search_collection_with_maps.  Without a filter the hits stay in the order
\* of the index; with one, more are fetched, then filtered and cut to k.
SearchCollection(query, k, filter, quality) ==
    LET answer == Index!Search(mem.index, query, SearchK(k, filter, quality), quality,
                               mem.cache.vectors, Visible(filter))
        hits == {answer.ids[i] : i \in DOMAIN answer.ids}
        kept == {id \in hits : Filters!Matches(filter, mem.docs[id].metadata)}
    IN  IF ~answer.ok \/ ~(hits \subseteq CurrentIds) THEN Rank!Failed
        ELSE IF filter = None THEN answer
        ELSE Rank!Found(Rank!Truncate(
                Rank!ByScore(kept, Rank!Scores(kept, query, VectorsOf(mem.docs))), k))

\* The quality a collection is configured with.
Configured == [ef |-> None, nprobe |-> None, overfetch |-> FilterOverfetch]

\* search_vectors, for each vector of the request; requests have no filter.
SearchVectors(query, k, request) ==
    SearchCollection(query, k, None, ApplySearchOverrides(Configured, request))

\* range_search_vectors: the k nearest, then those of at least a score.
RangeSearchVectors(query, k, minScore, request) ==
    LET answer == SearchVectors(query, k, request)
    IN  [answer EXCEPT !.ids = SelectSeq(@, LAMBDA id :
            Rank!Similarity(query, mem.docs[id].vector) >= minScore)]

\* Fault: the bound on the neighbours counts the document itself twice.
NeighborKOneLess(kOverride, numVectors) ==
    LET asked == IF kOverride = None THEN 49 ELSE kOverride
        fewer == IF asked < numVectors - 2 THEN asked ELSE numVectors - 2
    IN  IF fewer > 1 THEN fewer ELSE 1

\* At most one less than the vectors, and at least one.
NeighborK(kOverride, numVectors) ==
    LET asked == IF kOverride = None THEN 49 ELSE kOverride
        fewer == IF asked < numVectors - 1 THEN asked ELSE numVectors - 1
    IN  IF fewer > 1 THEN fewer ELSE 1

\* find_duplicates, without a limit on the pairs: asks for the neighbours of
\* every cached vector.
FindDuplicates(threshold, kOverride, quality) ==
    LET vectors == mem.cache.vectors
        neighborK == NeighborK(kOverride, Cardinality(DOMAIN vectors))
        answer == [id \in DOMAIN vectors |->
                      Index!Search(mem.index, vectors[id], neighborK, quality, vectors, Ids)]
        neighbors(id) == {answer[id].ids[i] : i \in DOMAIN answer[id].ids} \ {id}
        pairs == UNION {{{id, n} : n \in neighbors(id) \intersect DOMAIN vectors} :
                           id \in DOMAIN vectors}
    IN  [ok |-> \A id \in DOMAIN vectors : answer[id].ok,
         pairs |-> {pair \in pairs : \A a, b \in pair :
                       Rank!Similarity(vectors[a], vectors[b]) >= threshold}]

-----------------------------------------------------------------------------
Next ==
    \/ \E id \in Ids, doc \in Documents : Insert(id, doc) \/ Upsert(id, doc)
    \/ \E id \in Ids, metadata \in Metas : UpdateMetadata(id, metadata)
    \/ \E id \in Ids, vector \in Points : UpdateVector(id, vector)
    \/ \E id \in Ids : Delete(id)
    \/ RebuildIndex \/ Compact \/ ClearMetadataCache \/ Restart

Spec == Init /\ [][Next]_vars

-----------------------------------------------------------------------------
(* Properties. *)

\* A request that probes and walks everything, and a hasty one.
Preset(name) == [ef |-> None, nprobe |-> None, overfetch |-> None, preset |-> name]
Thorough == ApplySearchOverrides(Configured, Preset("high"))
Quick == ApplySearchOverrides(Configured, Preset("fast"))

Ks == 1 .. Cardinality(Ids)
Nearest(query, ids, k) ==
    Rank!Truncate(Rank!ByScore(ids, Rank!Scores(ids, query, VectorsOf(mem.docs))), k)

Searchable == mem.index.kind = "Ivf" => mem.index.centroids # <<>>

\* The variables keep their types: every cached or saved vector and metadata
\* value is one of a document, and the index is of a kind that was asked for.
TypeOK ==
    /\ config \in Configs
    /\ mem.docs \in UNION {[ids -> Docs] : ids \in SUBSET Ids}
    /\ mem.cache.vectors \in UNION {[ids -> Points] : ids \in SUBSET Ids}
    /\ mem.cache.metadata \in UNION {[ids -> Metas] : ids \in SUBSET Ids}
    /\ mem.cache.order \in Seq(Ids)
    /\ mem.index.kind \in IF config = "Auto" THEN {"Flat", "Ivf", "Hnsw"} ELSE {config}
    /\ saved.docs \in UNION {[ids -> Docs] : ids \in SUBSET Ids}
    /\ writes \in 0 .. MaxWrites
    /\ patchy \in BOOLEAN

\* The caches agree with the documents through every order of writes,
\* evictions and restarts: all vectors and nothing else are cached (under HNSW
\* those of removed nodes too), cached metadata is that of the document, and
\* the eviction queue lists each cached metadata once, within the limit.
CacheCoherent ==
    /\ CurrentIds \subseteq DOMAIN mem.cache.vectors
    /\ \A id \in CurrentIds : mem.cache.vectors[id] = mem.docs[id].vector
    /\ mem.index.kind # "Hnsw" => DOMAIN mem.cache.vectors = CurrentIds
    /\ \A id \in DOMAIN mem.cache.metadata :
        id \in CurrentIds /\ mem.cache.metadata[id] = mem.docs[id].metadata
    /\ {mem.cache.order[i] : i \in DOMAIN mem.cache.order} = DOMAIN mem.cache.metadata
    /\ Len(mem.cache.order) = Cardinality(DOMAIN mem.cache.metadata)
    /\ Len(mem.cache.order) <= MaxSize

\* An answer that a client may get.
Sound(answer, k, filter) ==
    LET hits == {answer.ids[i] : i \in DOMAIN answer.ids}
    IN  /\ Searchable => answer.ok
        /\ hits \subseteq CurrentIds
        /\ filter # None =>
            \A id \in hits : Filters!Matches(filter, mem.docs[id].metadata)
        /\ Cardinality(hits) = Len(answer.ids) /\ Len(answer.ids) <= k

\* No search of an index that has been built fails on a vector, document or
\* entry point that is missing, and no search returns a deleted document, one
\* that does not match, a document twice or more than k - whatever was deleted,
\* replaced, evicted or replayed.
SearchSound ==
    \A query \in Queries, k \in Ks, filter \in QueryFilters \union {None} :
        Sound(SearchCollection(query, k, filter, Quick), k, filter)

\* A search that probes every cluster and keeps every candidate answers what a
\* comparison with all documents would, whatever the index: "Setting nprobe = K
\* degrades IVF exactly to the Flat index" (blogs/architecture/indexing.md:352).
\* It holds until a replay inserts beside vectors that it does not see, and
\* again once the index has been rebuilt.  So does the cut by a minimal score.
ThoroughSearchIsExact ==
    Searchable /\ ~patchy =>
        \A query \in Queries, k \in Ks :
            LET nearest == Nearest(query, CurrentIds, k)
            IN  /\ SearchCollection(query, k, None, Thorough).ids = nearest
                /\ \A i \in DOMAIN nearest :
                    LET minScore == Rank!Similarity(query, mem.docs[nearest[i]].vector)
                    IN  RangeSearchVectors(query, k, minScore, Preset("high")).ids =
                        SelectSeq(nearest, LAMBDA id :
                            Rank!Similarity(query, mem.docs[id].vector) >= minScore)

\* Where the index does not filter, overfetching makes up for the hits that
\* the filter drops: if as many are fetched as there are documents, the answer
\* is the k nearest of those that match.
FilteredSearchIsExact ==
    mem.index.kind # "Hnsw" /\ Searchable /\ ~patchy =>
        \A query \in Queries, k \in Ks, filter \in QueryFilters :
            k * FilterOverfetch >= Cardinality(CurrentIds) =>
                SearchCollection(query, k, filter, Thorough).ids =
                Nearest(query, {id \in CurrentIds :
                                   Filters!Matches(filter, mem.docs[id].metadata)}, k)

Farthest(id, other) ==
    \A third \in CurrentIds \ {id} :
        Rank!Similarity(mem.docs[id].vector, mem.docs[other].vector)
            <= Rank!Similarity(mem.docs[id].vector, mem.docs[third].vector)

\* A search for duplicates finds exactly the pairs of documents that are
\* similar enough, but for a pair of which each is the other's farthest: a
\* document asks for one neighbour less than there are, itself among them.
DuplicatesFound ==
    mem.index.kind # "Hnsw" /\ Searchable /\ ~patchy =>
        \A threshold \in {Rank!Similarity(a, b) : a, b \in Points} :
            FindDuplicates(threshold, None, Thorough).pairs =
                {pair \in SUBSET CurrentIds :
                    /\ Cardinality(pair) = 2
                    /\ \A a, b \in pair :
                        Rank!Similarity(mem.docs[a].vector, mem.docs[b].vector) >= threshold
                    /\ \E a, b \in pair : a # b /\ ~Farthest(a, b)}

\* Only a write changes the documents: what was saved and what was logged since
\* give back the documents there were, in whatever order inserts, updates,
\* deletes, rebuilds, compactions, checkpoints and restarts came before.
DocumentsSurvive == [][writes' = writes => mem.docs' = mem.docs]_vars

\* The graph can be entered wherever it has a live node: the start node is
\* live and its layer is the number of layers, through deletions of the start
\* node, replays and rebuilds; else a search would fail or find nothing.
EntryPointLive ==
    mem.index.kind = "Hnsw" =>
        LET live == {id \in DOMAIN mem.index.nodes : ~mem.index.nodes[id].tombstone}
        IN  /\ live = CurrentIds
            /\ IF live = {} THEN mem.index.start = None
               ELSE mem.index.start \in live /\ mem.index.maxLevel >= 0
            /\ \A id \in live : \A level \in DOMAIN mem.index.nodes[id].connections :
                level <= mem.index.maxLevel

\* Recovery restores the contents as the log tells them: "sufficient to
\* reconstruct the collection state" (blogs/architecture/storage.md:94).  A
\* search that asks for every document and spares no effort finds every document.
EveryDocumentFound ==
    Searchable =>
        \A query \in Queries :
            LET answer == SearchCollection(query, Cardinality(Ids), None, Thorough)
            IN  {answer.ids[i] : i \in DOMAIN answer.ids} = CurrentIds

\* While a layer is walked, "`nearest` holds the `ef` best nodes seen so far"
\* (blogs/architecture/indexing.md:185), when there are more of them than ef too.
BeamHoldsTheBest ==
    mem.index.kind = "Hnsw" =>
        \A query \in Queries, entry \in CurrentIds :
            LET dist == Index!Hnsw!Distances(query, mem.cache.vectors)
                walk == Index!Hnsw!Walk(mem.index, dist, {entry}, EfSearch, 0)
                seen == walk.visited \intersect CurrentIds
                best == Nearest(query, seen, EfSearch)
            IN  walk.nearest = {best[i] : i \in DOMAIN best}
=============================================================================
