---------------------------- MODULE VectorIndex -----------------------------
(***************************************************************************)
(* The vector index of a collection, behind one interface: which kind is   *)
(* created, and its operations.  An operation that is not deterministic is *)
(* the set of its outcomes.                                                *)
(***************************************************************************)
EXTENDS Integers, FiniteSets, Sequences

CONSTANTS
    FlatMaxVectors, IvfMaxVectors,              \* AutoIndexConfig
    NumClusters, NumProbes, MaxIterations,      \* IvfConfig
    M, MMax, EfConstruction, EfSearch,          \* HnswConfig
    MaxLayer, Euclidean, None

Flat == INSTANCE FlatIndex
Ivf == INSTANCE IvfIndex
Hnsw == INSTANCE HnswIndex

\* Fault: the number of vectors decides even where a type is configured.
SelectTypeByNumber(config, numVectors) ==
    IF numVectors < FlatMaxVectors THEN "Flat"
    ELSE IF numVectors < IvfMaxVectors THEN "Ivf"
    ELSE "Hnsw"

\* IndexConfig::select_type
SelectType(config, numVectors) ==
    IF config # "Auto" THEN config
    ELSE IF numVectors < FlatMaxVectors THEN "Flat"
    ELSE IF numVectors < IvfMaxVectors THEN "Ivf"
    ELSE "Hnsw"

CreateIndex(config, numVectors) ==
    CASE SelectType(config, numVectors) = "Flat" -> Flat!New
      [] SelectType(config, numVectors) = "Ivf" -> Ivf!New
      [] SelectType(config, numVectors) = "Hnsw" -> Hnsw!New

Insert(index, id, vectors) ==
    CASE index.kind = "Flat" -> {Flat!Insert(index, id)}
      [] index.kind = "Ivf" -> Ivf!Insert(index, id, vectors)
      [] index.kind = "Hnsw" -> Hnsw!Insert(index, id, vectors)

Remove(index, id) ==
    CASE index.kind = "Flat" -> {Flat!Remove(index, id)}
      [] index.kind = "Ivf" -> {Ivf!Remove(index, id)}
      [] index.kind = "Hnsw" -> Hnsw!Remove(index, id)

\* Fills an index in the order of a HashMap.  The reader has all vectors from
\* the start, or gets each one just before its id is inserted.
Build(index, vectors, growing) ==
    LET reader(ids) == [id \in IF growing THEN ids ELSE DOMAIN vectors |-> vectors[id]]
        after[ids \in SUBSET DOMAIN vectors] ==
            IF ids = {} THEN {index}
            ELSE UNION {UNION {Insert(x, id, reader(ids)) : x \in after[ids \ {id}]} :
                           id \in ids}
    IN  after[DOMAIN vectors]

Default(override, configured) == IF override = None THEN configured ELSE override

\* `quality` overrides ef and nprobe; only the graph looks at `visible`.
Search(index, query, k, quality, vectors, visible) ==
    CASE index.kind = "Flat" -> Flat!Search(index, query, k, vectors)
      [] index.kind = "Ivf" ->
            Ivf!Search(index, query, k, Default(quality.nprobe, NumProbes), vectors)
      [] index.kind = "Hnsw" ->
            Hnsw!Search(index, query, k, Default(quality.ef, EfSearch), vectors, visible)
=============================================================================
