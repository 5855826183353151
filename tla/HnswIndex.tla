----------------------------- MODULE HnswIndex ------------------------------
(***************************************************************************)
(* The HNSW graph.  A node has one list of neighbours per layer, from      *)
(* layer 0 up to the layer drawn for it; a removed node stays as a         *)
(* tombstone that is walked through and not returned.  A walk can only     *)
(* visit a node whose vector the reader has.                               *)
(*                                                                         *)
(* Both heaps of the code hold SearchCandidates, whose Ord is reversed:    *)
(* pop and peek give the element with the LEAST distance.                  *)
(***************************************************************************)
EXTENDS Similarity

Seqs == INSTANCE SequencesExt

CONSTANTS
    M,               \* m of HnswConfig: neighbours on the layers above 0
    MMax,            \* m_max of HnswConfig: neighbours on layer 0
    EfConstruction,  \* ef_construction of HnswConfig
    MaxLayer,        \* bound on the layers that are drawn
    Euclidean,       \* whether the metric is Metric::Euclidean
    None

New == [kind |-> "Hnsw", nodes |-> <<>>, maxLevel |-> -1, start |-> None]

\* random_layer: the greater, the less likely; any is possible.
RandomLayers == 0 .. MaxLayer

IsTombstone(index, id) == id \in DOMAIN index.nodes /\ index.nodes[id].tombstone

LiveNodes(index) == {id \in DOMAIN index.nodes : ~index.nodes[id].tombstone}

\* 1 - score for cosine and dot product; the score itself, which is no
\* distance, for the Euclidean metric.
Distance(a, b) == IF Euclidean THEN Similarity(a, b) ELSE -Similarity(a, b)

Distances(query, vectors) == [id \in DOMAIN vectors |-> Distance(query, vectors[id])]

\* The element on top of a heap.
Top(heap, dist) == CHOOSE id \in heap : \A other \in heap : dist[id] <= dist[other]

Ascending(ids, dist) == ByScore(ids, [id \in ids |-> -dist[id]])

NeighborsAt(index, id, level) ==
    IF id \in DOMAIN index.nodes /\ level \in DOMAIN index.nodes[id].connections
    THEN index.nodes[id].connections[level]
    ELSE <<>>

\* A neighbour enters `nearest` while there is room or if it is closer than
\* the top of the heap, which is the closest of them, and when there are too
\* many the top leaves.  A tombstone becomes a candidate only.
Visit(index, dist, numClosest, walk, id) ==
    LET seen == [walk EXCEPT !.visited = @ \union {id}]
        wanted == \/ Cardinality(walk.nearest) < numClosest
                  \/ \A n \in walk.nearest : dist[id] < dist[n]
        more == walk.nearest \union {id}
    IN  IF id \in walk.visited THEN walk
        ELSE IF id \notin DOMAIN dist \/ ~wanted THEN seen
        ELSE [seen EXCEPT
                !.candidates = @ \union {id},
                !.nearest = IF IsTombstone(index, id) THEN @
                            ELSE IF Cardinality(more) > numClosest
                            THEN more \ {Top(more, dist)}
                            ELSE more]

\* One round of the loop: it ends when the closest candidate is farther than
\* the top of `nearest`.
Explore(index, dist, numClosest, level, walk) ==
    LET candidate == Top(walk.candidates, dist)
        rest == [walk EXCEPT !.candidates = @ \ {candidate}]
    IN  IF \/ walk.candidates = {}
           \/ /\ walk.nearest # {}
              /\ dist[candidate] > dist[Top(walk.nearest, dist)]
        THEN walk
        ELSE Seqs!FoldLeft(LAMBDA w, id : Visit(index, dist, numClosest, w, id),
                      rest, NeighborsAt(index, candidate, level))

\* The loop of search_layer.  `dist` has the nodes a walk may visit: those whose
\* vector the reader has and whose cached metadata, if any, passes the filter.
\* A node is a candidate once, so there are no more rounds than such nodes.
Walk(index, dist, entries, numClosest, level) ==
    LET entered == entries \intersect DOMAIN dist
        round[i \in 0 .. Cardinality(DOMAIN dist)] ==
            IF i = 0
            THEN [candidates |-> entered, visited |-> entered,
                  nearest |-> {id \in entered : ~IsTombstone(index, id)}]
            ELSE Explore(index, dist, numClosest, level, round[i - 1])
    IN  round[Cardinality(DOMAIN dist)]

\* search_layer
SearchLayer(index, dist, entries, numClosest, level) ==
    Walk(index, dist, entries, numClosest, level).nearest

\* The m closest.  Tombstones are dropped only if there are more than m, and
\* an id that is in the list twice is counted twice.
SelectNeighbors(index, candidates, m, dist) ==
    LET usable == {i \in DOMAIN candidates : /\ ~IsTombstone(index, candidates[i])
                                            /\ candidates[i] \in DOMAIN dist}
        before(i, j) == \/ dist[candidates[i]] < dist[candidates[j]]
                        \/ dist[candidates[i]] = dist[candidates[j]] /\ i < j
        sorted == [r \in 1 .. Cardinality(usable) |->
                      candidates[CHOOSE i \in usable :
                                    Cardinality({j \in usable : before(j, i)}) = r - 1]]
    IN  IF Len(candidates) <= m THEN candidates ELSE Truncate(sorted, m)

Capacity(level) == IF level = 0 THEN MMax ELSE M

\* Fault: edges lead only from the new node.
WithoutBackEdge(index, neighbor, level, id, vectors) ==
    index.nodes[neighbor].connections[level]

\* A neighbour's list with the edge to the new node, pruned if it is too long.
WithBackEdge(index, neighbor, level, id, vectors) ==
    LET edges == Append(index.nodes[neighbor].connections[level], id)
    IN  IF Len(edges) > Capacity(level)
        THEN SelectNeighbors(index, edges, Capacity(level),
                             Distances(vectors[neighbor], vectors))
        ELSE edges

\* What a descent from the start node finds on each layer: one entry point
\* above `bottom`, `ef` neighbours from there on.
Descend(index, dist, bottom, ef, top) ==
    LET found[level \in 0 .. top + 1] ==
            IF level = top + 1 THEN {index.start}
            ELSE SearchLayer(index, dist, found[level + 1],
                             IF level > bottom THEN 1 ELSE ef, level)
    IN  found

FirstNode(index, id, layer) ==
    [index EXCEPT !.start = id, !.maxLevel = layer,
        !.nodes = [n \in DOMAIN @ \union {id} |->
            IF n = id
            THEN [connections |-> [level \in 0 .. layer |-> <<>>], tombstone |-> FALSE]
            ELSE @[n]]]

\* Links a node on every layer from its own down to 0 with what was found
\* there, and each neighbour that has the layer back to it.
Connected(index, id, layer, vectors) ==
    LET dist == Distances(vectors[id], vectors)
        top == IF index.maxLevel > layer THEN index.maxLevel ELSE layer
        found == Descend(index, dist, layer, EfConstruction, top)
        edges == [level \in 0 .. layer |->
                     SelectNeighbors(index, Ascending(found[level], dist),
                                     Capacity(level), dist)]
        linked(n) ==
            [index.nodes[n] EXCEPT !.connections =
                [level \in DOMAIN @ |->
                    IF level <= layer /\ Seqs!Contains(edges[level], n)
                    THEN WithBackEdge(index, n, level, id, vectors) ELSE @[level]]]
    IN  [index EXCEPT
            !.nodes = [n \in DOMAIN @ \union {id} |->
                IF n = id THEN [connections |-> edges, tombstone |-> FALSE]
                ELSE linked(n)],
            !.start = IF layer > index.maxLevel THEN id ELSE @,
            !.maxLevel = top]

\* The indexes that an insertion may leave, one per layer.
Insert(index, id, vectors) ==
    {IF index.start = None
     THEN FirstNode(index, id, layer)
     ELSE Connected(index, id, layer, vectors) : layer \in RandomLayers}

\* Fault: the start node may be a tombstone.
RemoveKeepsStart(index, id) ==
    {IF id \in DOMAIN index.nodes
     THEN [index EXCEPT !.nodes[id].tombstone = TRUE] ELSE index}

\* Any live node becomes the start node if the start node goes, and the
\* levels are counted again.
Remove(index, id) ==
    LET marked == [index EXCEPT !.nodes[id].tombstone = TRUE]
        live == LiveNodes(marked)
        levels == {level \in RandomLayers :
                      \E n \in live : level \in DOMAIN index.nodes[n].connections}
        restarted(n) == [marked EXCEPT !.start = n, !.maxLevel = Cardinality(levels) - 1]
    IN  IF id \notin DOMAIN index.nodes THEN {index}
        ELSE IF index.start # id THEN {marked}
        ELSE IF live = {} THEN {restarted(None)}
        ELSE {restarted(n) : n \in live}

\* `visible` are the ids that pass the filter or have no cached metadata.
Search(index, query, k, ef, vectors, visible) ==
    LET dist == [id \in DOMAIN vectors \intersect visible |->
                    Distance(query, vectors[id])]
        beam == IF ef > k THEN ef ELSE k
        nearest == Descend(index, dist, 0, beam, index.maxLevel)[0]
        live == {id \in nearest : ~IsTombstone(index, id)}
    IN  IF index.start = None THEN Found(<<>>)
        ELSE IF index.start \notin DOMAIN vectors THEN Failed
        ELSE Found(Truncate(Ascending(live, dist), k))
=============================================================================
