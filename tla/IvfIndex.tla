------------------------------ MODULE IvfIndex ------------------------------
(***************************************************************************)
(* The inverted-file index.  Until there are NumClusters vectors, ids are  *)
(* pending; then k-means puts every vector of the reader into a cluster,   *)
(* and from then on an id joins the cluster of the nearest centroid.  A    *)
(* search compares the query with the vectors of the nprobe nearest        *)
(* clusters.                                                               *)
(*                                                                         *)
(* The order of an inverted list decides between equal scores only, so a   *)
(* set stands for it.                                                      *)
(***************************************************************************)
EXTENDS Similarity, FiniteSetsExt

CONSTANTS
    NumClusters,    \* num_clusters of IvfConfig
    MaxIterations   \* max_iterations of IvfConfig

New == [kind |-> "Ivf", centroids |-> <<>>, lists |-> <<>>,
        clusterOf |-> <<>>, pending |-> {}]

\* max_by keeps the last of several greatest scores.
FindNearestCentroid(centroids, vector) ==
    CHOOSE c \in DOMAIN centroids :
        \A d \in DOMAIN centroids :
            \/ Similarity(vector, centroids[d]) < Similarity(vector, centroids[c])
            \/ Similarity(vector, centroids[d]) = Similarity(vector, centroids[c]) /\ d <= c

\* The mean of a cluster's vectors; points are such that it is an integer.
ComputeCentroid(cluster, vectors) ==
    MapThenSumSet(LAMBDA id : vectors[id], cluster) \div Cardinality(cluster)

Members(centroids, c, vectors) ==
    {id \in DOMAIN vectors : FindNearestCentroid(centroids, vectors[id]) = c}

\* One iteration of k-means.  A cluster that lost its vectors keeps its
\* centroid.
Iterate(centroids, vectors) ==
    [c \in DOMAIN centroids |->
        LET cluster == Members(centroids, c, vectors)
        IN  IF cluster = {} THEN centroids[c] ELSE ComputeCentroid(cluster, vectors)]

\* The loop may end after any iteration: it does when every centroid is still
\* 0.99 similar to what it was, which the order of scores does not tell.
KMeans(initial, vectors) ==
    LET after[i \in 0 .. MaxIterations] ==
            IF i = 0 THEN initial ELSE Iterate(after[i - 1], vectors)
    IN  {after[i] : i \in 1 .. MaxIterations} \union
        IF MaxIterations = 0 THEN {initial} ELSE {}

\* Fault: only the pending ids are distributed over the clusters.
ClusteredPendingOnly(index, centroids, vectors) ==
    [index EXCEPT
        !.centroids = centroids,
        !.lists = [c \in DOMAIN centroids |->
                      Members(centroids, c, vectors) \intersect index.pending],
        !.clusterOf = [id \in DOMAIN vectors |-> FindNearestCentroid(centroids, vectors[id])],
        !.pending = {}]

\* Forgets the pending ids, those the reader does not have included.
Clustered(index, centroids, vectors) ==
    [index EXCEPT
        !.centroids = centroids,
        !.lists = [c \in DOMAIN centroids |-> Members(centroids, c, vectors)],
        !.clusterOf = [id \in DOMAIN vectors |-> FindNearestCentroid(centroids, vectors[id])],
        !.pending = {}]

\* The vectors of the first ids that the reader yields; its order is that of
\* a HashMap.
InitialCentroids(vectors) ==
    LET size == Min({NumClusters, Cardinality(DOMAIN vectors)})
    IN  {[c \in 1 .. size |-> vectors[first[c]]] :
            first \in {f \in [1 .. size -> DOMAIN vectors] :
                          \A c, d \in 1 .. size : f[c] = f[d] => c = d}}

BuildClusters(index, vectors) ==
    {Clustered(index, centroids, vectors) :
        centroids \in UNION {KMeans(initial, vectors) : initial \in InitialCentroids(vectors)}}

\* The indexes that an insertion may leave.
Insert(index, id, vectors) ==
    IF id \in DOMAIN index.clusterOf \union index.pending THEN {index}
    ELSE IF index.centroids = <<>> THEN
        LET waiting == [index EXCEPT !.pending = @ \union {id}]
        IN  IF Cardinality(DOMAIN vectors) >= NumClusters
            THEN BuildClusters(waiting, vectors)
            ELSE {waiting}
    ELSE LET c == FindNearestCentroid(index.centroids, vectors[id])
         IN  {[index EXCEPT !.lists[c] = @ \union {id},
                            !.clusterOf = [i \in DOMAIN @ \union {id} |->
                                              IF i = id THEN c ELSE @[i]]]}

Remove(index, id) ==
    [index EXCEPT
        !.pending = @ \ {id},
        !.clusterOf = [i \in DOMAIN @ \ {id} |-> @[i]],
        !.lists = [c \in DOMAIN @ |->
                      IF id \in DOMAIN index.clusterOf /\ index.clusterOf[id] = c
                      THEN @[c] \ {id} ELSE @[c]]]

\* The stable sort of the clusters leaves equal scores in their order.
ProbeOrder(centroids, c, query) ==
    Cardinality({d \in DOMAIN centroids :
        \/ Similarity(query, centroids[d]) > Similarity(query, centroids[c])
        \/ Similarity(query, centroids[d]) = Similarity(query, centroids[c]) /\ d < c})

\* Fails before the first clustering, and if a vector is missing.
Search(index, query, k, nprobe, vectors) ==
    LET probed == {c \in DOMAIN index.centroids :
                      ProbeOrder(index.centroids, c, query) < nprobe}
        ids == UNION {index.lists[c] : c \in probed}
    IN  IF index.centroids # <<>> /\ ids \subseteq DOMAIN vectors
        THEN Found(Truncate(ByScore(ids, Scores(ids, query, vectors)), k))
        ELSE Failed
=============================================================================
