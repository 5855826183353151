----------------------------- MODULE FlatIndex ------------------------------
(***************************************************************************)
(* The flat index: it knows the ids and compares the query with the vector *)
(* of each.  The order of its list decides between equal scores only, so a *)
(* set stands for it.                                                      *)
(***************************************************************************)
EXTENDS Similarity

New == [kind |-> "Flat", ids |-> {}]

Insert(index, id) == [index EXCEPT !.ids = @ \union {id}]

Remove(index, id) == [index EXCEPT !.ids = @ \ {id}]

\* Fails if a vector is missing from the reader.
Search(index, query, k, vectors) ==
    IF index.ids \subseteq DOMAIN vectors
    THEN Found(Truncate(ByScore(index.ids, Scores(index.ids, query, vectors)), k))
    ELSE Failed
=============================================================================
