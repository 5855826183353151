----------------------------- MODULE Similarity -----------------------------
(***************************************************************************)
(* What the vector indexes share: scores, rankings and the answer of a     *)
(* search.                                                                 *)
(*                                                                         *)
(* A vector is a point on a line.  Of two points, the nearer one has the   *)
(* higher score under each metric of the code: cosine and dot product for  *)
(* vectors of length one (a point is an angle), 1/(1 + distance) for the   *)
(* Euclidean metric.  Only the order of scores is modelled.  No two        *)
(* vectors that are compared have the same score.                          *)
(***************************************************************************)
EXTENDS Integers, FiniteSets, Sequences

\* Metric::calculate: a higher score means more similar, under every metric.
Similarity(a, b) == IF a < b THEN a - b ELSE b - a

Scores(ids, query, vectors) == [id \in ids |-> Similarity(query, vectors[id])]

\* The ids of a set by descending score.
ByScore(ids, score) ==
    [i \in 1 .. Cardinality(ids) |->
        CHOOSE id \in ids :
            Cardinality({other \in ids : score[other] > score[id]}) = i - 1]

Truncate(s, k) == SubSeq(s, 1, IF k < Len(s) THEN k ELSE Len(s))

\* Result<Vec<Uuid>>, what VectorIndex::search returns.
Found(ids) == [ok |-> TRUE, ids |-> ids]
Failed == [ok |-> FALSE, ids |-> <<>>]
=============================================================================
