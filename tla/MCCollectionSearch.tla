------------------------- MODULE MCCollectionSearch -------------------------
(***************************************************************************)
(* Instances of CollectionSearch for TLC.                                  *)
(***************************************************************************)
EXTENDS CollectionSearch, TLC

CONSTANTS i1, i2, i3

\* Points whose distances from one another and from the queries differ; they
\* are multiples of 6, so that the mean of up to three is an integer.
ThreePoints == {0, 12, 36}
OneQuery == {20}

\* A document may have a year or not.
Dated == [year |-> [type |-> "Integer", value |-> 1]]
Metadatas == {Dated, <<>>}

SomeDocuments == {[vector |-> 0, metadata |-> Dated], [vector |-> 12, metadata |-> <<>>],
                  [vector |-> 36, metadata |-> Dated]}

\* The same number as an Integer and as a Float: gte converts, ne does not.
Year(op, type) == [op |-> op, field |-> "year", value |-> [type |-> type, value |-> 1]]
SomeFilters == {{Year("gte", "Float"), Year("ne", "Float")}, {Year("ne", "Integer")}}

AnyConfig == {"Ivf", "Hnsw", "Auto"}
OnlyHnsw == {"Hnsw"}
OnlyIvf == {"Ivf"}

IdSymmetry == Permutations(Ids)
=============================================================================
