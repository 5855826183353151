---------------------------- MODULE CacheManager ----------------------------
(***************************************************************************)
(* The caches of a collection: all vectors, and the metadata of up to      *)
(* MaxSize documents, evicted in the order in which they were put.         *)
(***************************************************************************)
EXTENDS Integers, FiniteSets, Sequences

CONSTANTS
    Enabled,   \* enabled of CacheConfig; vectors are cached regardless
    MaxSize    \* max_size of CacheConfig

New == [vectors |-> <<>>, metadata |-> <<>>, order |-> <<>>]

Without(f, key) == [k \in DOMAIN f \ {key} |-> f[k]]
With(f, key, value) == [k \in DOMAIN f \union {key} |-> IF k = key THEN value ELSE f[k]]

\* The order without an id: order.retain.
Dropped(order, id) ==
    LET kept[i \in 0 .. Len(order)] ==
            IF i = 0 THEN <<>>
            ELSE IF order[i] = id THEN kept[i - 1] ELSE Append(kept[i - 1], order[i])
    IN  kept[Len(order)]

PutVector(cache, id, vector) == [cache EXCEPT !.vectors = With(@, id, vector)]

ClearMetadata(cache) == [cache EXCEPT !.metadata = <<>>, !.order = <<>>]

\* One insertion makes the cache at most one too large, so at most one id goes.
EnforceItemLimit(cache) ==
    IF MaxSize = 0 THEN ClearMetadata(cache)
    ELSE IF Cardinality(DOMAIN cache.metadata) > MaxSize /\ cache.order # <<>>
    THEN [cache EXCEPT !.metadata = Without(@, Head(cache.order)),
                       !.order = Tail(@)]
    ELSE cache

\* Fault: an id that is cached already is queued a second time.
PutMetadataQueuesTwice(cache, id, metadata) ==
    IF Enabled
    THEN EnforceItemLimit([cache EXCEPT !.metadata = With(@, id, metadata),
                                        !.order = Append(@, id)])
    ELSE cache

PutMetadata(cache, id, metadata) ==
    IF Enabled
    THEN EnforceItemLimit(
            [cache EXCEPT !.metadata = With(@, id, metadata),
                          !.order = Append(Dropped(@, id), id)])
    ELSE cache

Remove(cache, id, removeVector) ==
    [cache EXCEPT
        !.vectors = IF removeVector THEN Without(@, id) ELSE @,
        !.metadata = Without(@, id),
        !.order = Dropped(@, id)]
=============================================================================
