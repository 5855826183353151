---------------------- MODULE CollectionSearchProofs ----------------------
(***************************************************************************)
(* Theorems about CollectionSearch, for every value of its constants.      *)
(***************************************************************************)
EXTENDS CollectionSearch, Induction, FunctionTheorems, SequenceTheorems

-----------------------------------------------------------------------------
(* The caches: the eviction queue lists each cached metadata once.         *)

Unique(order) == \A i, j \in DOMAIN order : order[i] = order[j] => i = j
Listed(order) == {order[i] : i \in DOMAIN order}

\* A new id goes to the end.
LEMMA AppendFacts ==
    ASSUME NEW S, NEW order \in Seq(S), Unique(order), NEW id \in S, id \notin Listed(order)
    PROVE  LET longer == Append(order, id)
           IN  /\ longer \in Seq(S) /\ Unique(longer)
               /\ Listed(longer) = Listed(order) \union {id}
<1> DEFINE longer == Append(order, id)
           n == Len(order)
<1>1. /\ n \in Nat /\ DOMAIN order = 1 .. n /\ longer \in Seq(S)
      /\ DOMAIN longer = 1 .. n + 1 /\ longer[n + 1] = id
      /\ \A i \in 1 .. n : longer[i] = order[i]
  OBVIOUS
<1> HIDE DEF longer, n
<1>2. \A i \in 1 .. n + 1 : i = n + 1 \/ i \in 1 .. n
  BY <1>1
<1>3. \A i \in 1 .. n : i \in 1 .. n + 1
  BY <1>1
<1>4. n + 1 \in 1 .. n + 1
  BY <1>1
<1>5. Listed(longer) = Listed(order) \union {id}
  BY <1>1, <1>2, <1>3, <1>4 DEF Listed
<1>6. \A i \in 1 .. n : longer[i] # id
  BY <1>1 DEF Listed
<1>7. Unique(longer)
  BY <1>1, <1>2, <1>6 DEF Unique
<1> QED
  BY <1>1, <1>5, <1>7 DEF longer

\* order.retain drops an id from every place, and keeps the rest in order.
LEMMA DroppedFacts ==
    ASSUME NEW order \in Seq(Ids), Unique(order), NEW id
    PROVE  LET rest == Cache!Dropped(order, id)
           IN  rest \in Seq(Ids) /\ Unique(rest) /\ Listed(rest) = Listed(order) \ {id}
<1> DEFINE n == Len(order)
           Step(s, i) == IF order[i] = id THEN s ELSE Append(s, order[i])
           Kept(f, k) == f = [i \in 0 .. k |-> IF i = 0 THEN <<>> ELSE Step(f[i - 1], i)]
           Upto(k) == {order[i] : i \in 1 .. k}
           Right(s, k) == s \in Seq(Ids) /\ Unique(s) /\ Listed(s) = Upto(k) \ {id}
           Good == {k \in 0 .. n : \E f : Kept(f, k)}
           kept == CHOOSE f : Kept(f, n)
<1>1. n \in Nat /\ DOMAIN order = 1 .. n /\ \A i \in 1 .. n : order[i] \in Ids
  OBVIOUS
<1>2. Cache!Dropped(order, id) = kept[n]
  BY DEF Cache!Dropped
<1> HIDE DEF n, Step
<1>3. Kept(kept, n)
  <2>1. 0 \in Good
    <3> DEFINE g == [i \in 0 .. 0 |-> <<>>]
    <3>1. \A i \in 0 .. 0 : i = 0
      OBVIOUS
    <3>2. Kept(g, 0)
      BY <3>1
    <3>3. 0 \in 0 .. n
      BY <1>1
    <3> HIDE DEF g
    <3>4. \E any : Kept(any, 0)
      BY <3>2
    <3> QED
      BY <3>3, <3>4
  <2>2. ASSUME NEW k \in 1 .. n, k - 1 \in Good PROVE k \in Good
    <3>1. PICK f : Kept(f, k - 1)
      BY <2>2
    <3>2. k - 1 \in Nat /\ k \in 0 .. n
      BY <1>1
    <3> DEFINE g == [i \in 0 .. k |-> IF i = 0 THEN <<>> ELSE Step(f[i - 1], i)]
    <3>3. \A i \in 0 .. k - 1 : g[i] = f[i]
      BY <3>1, <3>2
    <3>4. \A i \in 0 .. k : i # 0 => i - 1 \in 0 .. k - 1
      BY <3>2
    <3>5. Kept(g, k)
      BY <3>3, <3>4
    <3> HIDE DEF g
    <3>6. \E any : Kept(any, k)
      BY <3>5
    <3> QED
      BY <3>2, <3>6
  <2> HIDE DEF Good
  <2>3. n \in Good
    <3>1. 0 .. n \subseteq Good
      BY <1>1, <2>1, <2>2, IntervalInduction
    <3> QED
      BY <1>1, <3>1
  <2> QED
    BY <2>3 DEF Good
<1> HIDE DEF kept
<1>4. kept[0] = <<>> /\ \A k \in 1 .. n : kept[k] = Step(kept[k - 1], k)
  BY <1>1, <1>3
<1> HIDE DEF Kept
<1> DEFINE Fine == {k \in 0 .. n : Right(kept[k], k)}
<1>5. 0 \in Fine
  <2>1. Right(<<>>, 0)
    BY DEF Unique, Listed
  <2>2. 0 \in 0 .. n
    BY <1>1
  <2> HIDE DEF Right
  <2> QED
    BY <1>4, <2>1, <2>2
<1>6. ASSUME NEW k \in 1 .. n, k - 1 \in Fine PROVE k \in Fine
  <2>1. Right(kept[k - 1], k - 1) /\ k \in 0 .. n
    BY <1>1, <1>6
  <2>2. kept[k] = IF order[k] = id THEN kept[k - 1] ELSE Append(kept[k - 1], order[k])
    BY <1>4 DEF Step
  <2>3. Upto(k) = Upto(k - 1) \union {order[k]}
    BY <1>1
  <2>4. CASE order[k] = id
    BY <2>1, <2>2, <2>3, <2>4
  <2>5. CASE order[k] # id
    <3> DEFINE s == kept[k - 1]
               t == Append(s, order[k])
    <3>1. order[k] \in Ids /\ order[k] \notin Upto(k - 1)
      BY <1>1 DEF Unique
    <3>2. s \in Seq(Ids) /\ Unique(s) /\ Listed(s) = Upto(k - 1) \ {id}
      BY <2>1
    <3> HIDE DEF s
    <3>3. /\ t \in Seq(Ids) /\ Unique(t)
          /\ Listed(t) = Listed(s) \union {order[k]}
      BY <3>1, <3>2, AppendFacts
    <3>4. kept[k] = t
      BY <2>2, <2>5 DEF s
    <3> HIDE DEF Upto, t
    <3> QED
      BY <2>1, <2>3, <2>5, <3>2, <3>3, <3>4
  <2> QED
    BY <2>4, <2>5
<1> HIDE DEF Fine
<1>7. n \in Fine
  <2>1. 0 .. n \subseteq Fine
    BY <1>1, <1>5, <1>6, IntervalInduction
  <2> QED
    BY <1>1, <2>1
<1>8. Right(kept[n], n)
  BY <1>7 DEF Fine
<1>9. Upto(n) = Listed(order)
  BY <1>1 DEF Listed
<1> HIDE DEF Upto
<1> QED
  BY <1>2, <1>8, <1>9

\* The functions from some of the ids to a set.
Partial(S) == UNION {[ids -> S] : ids \in SUBSET Ids}

\* Partial(S) membership, by domain and values.
LEMMA PartialFacts ==
    ASSUME NEW S, NEW f
    PROVE  f \in Partial(S) <=> /\ f = [i \in DOMAIN f |-> f[i]] /\ DOMAIN f \subseteq Ids
                                /\ \A i \in DOMAIN f : f[i] \in S
<1>1. ASSUME f \in Partial(S)
      PROVE  f = [i \in DOMAIN f |-> f[i]] /\ DOMAIN f \subseteq Ids /\ \A i \in DOMAIN f : f[i] \in S
  <2>1. PICK ids \in SUBSET Ids : f \in [ids -> S]
    BY <1>1 DEF Partial
  <2> QED
    BY <2>1
<1>2. ASSUME f = [i \in DOMAIN f |-> f[i]], DOMAIN f \subseteq Ids, \A i \in DOMAIN f : f[i] \in S
      PROVE  f \in Partial(S)
  <2>1. f \in [DOMAIN f -> S]
    BY <1>2
  <2> QED
    BY <1>2, <2>1 DEF Partial
<1> QED
  BY <1>1, <1>2

\* A key more and a key less.
LEMMA WithFacts ==
    ASSUME NEW S, NEW f \in Partial(S), NEW id \in Ids, NEW value \in S
    PROVE  LET g == Cache!With(f, id, value)
           IN  /\ g \in Partial(S) /\ DOMAIN g = DOMAIN f \union {id} /\ g[id] = value
               /\ \A i \in DOMAIN f : i # id => g[i] = f[i]
<1> DEFINE g == Cache!With(f, id, value)
<1>1. g = [i \in DOMAIN f \union {id} |-> IF i = id THEN value ELSE f[i]]
  BY DEF Cache!With
<1>2. DOMAIN f \subseteq Ids /\ \A i \in DOMAIN f : f[i] \in S
  BY PartialFacts
<1> HIDE DEF g
<1>3. g \in [DOMAIN f \union {id} -> S] /\ DOMAIN f \union {id} \in SUBSET Ids
  BY <1>1, <1>2
<1>4. g \in Partial(S)
  BY <1>3 DEF Partial
<1> QED
  BY <1>1, <1>4 DEF g

\* Dropping a key leaves the other values.
LEMMA WithoutFacts ==
    ASSUME NEW S, NEW f \in Partial(S), NEW id
    PROVE  LET g == Cache!Without(f, id)
           IN  /\ g \in Partial(S) /\ DOMAIN g = DOMAIN f \ {id}
               /\ \A i \in DOMAIN g : g[i] = f[i]
<1> DEFINE g == Cache!Without(f, id)
<1>1. g = [i \in DOMAIN f \ {id} |-> f[i]]
  BY DEF Cache!Without
<1>2. DOMAIN f \subseteq Ids /\ \A i \in DOMAIN f : f[i] \in S
  BY PartialFacts
<1> HIDE DEF g
<1>3. g \in [DOMAIN f \ {id} -> S] /\ DOMAIN f \ {id} \in SUBSET Ids
  BY <1>1, <1>2
<1>4. g \in Partial(S)
  BY <1>3 DEF Partial
<1> QED
  BY <1>1, <1>4 DEF g

\* Nothing is kept at first.
LEMMA EmptyFacts == ASSUME NEW S PROVE <<>> \in Partial(S) /\ DOMAIN <<>> = {}
<1>1. <<>> = [i \in {} |-> {}] /\ DOMAIN <<>> = {}
  OBVIOUS
<1>2. <<>> \in [{} -> S]
  BY <1>1
<1> QED
  BY <1>1, <1>2 DEF Partial

\* Dropping keys makes a cache no larger, and putting one by one at most.
LEMMA MetadataCount ==
    ASSUME NEW S, S \subseteq Ids, NEW id
    PROVE  /\ IsFiniteSet(S) /\ Cardinality(S) \in Nat
           /\ Cardinality(S \ {id}) <= Cardinality(S)
           /\ id \in S => Cardinality(S \ {id}) = Cardinality(S) - 1
           /\ Cardinality(S \union {id}) <= Cardinality(S) + 1
           /\ \A T \in SUBSET S : Cardinality(T) \in Nat /\ Cardinality(T) <= Cardinality(S)
<1>1. IsFiniteSet(Ids)
  BY ConstantsAssumption
<1>2. IsFiniteSet(S) /\ Cardinality(S) \in Nat
  BY <1>1, FS_Subset, FS_CardinalityType
<1>3. \A T \in SUBSET S : Cardinality(T) \in Nat /\ Cardinality(T) <= Cardinality(S)
  BY <1>2, FS_Subset, FS_CardinalityType
<1>4. id \in S => Cardinality(S \ {id}) = Cardinality(S) - 1
  BY <1>2, FS_RemoveElement
<1>5. Cardinality(S \union {id}) <= Cardinality(S) + 1
  BY <1>2, FS_AddElement
<1> QED
  BY <1>2, <1>3, <1>4, <1>5

CacheFields == {"vectors", "metadata", "order"}

CacheOK(c) ==
    /\ DOMAIN c = CacheFields /\ c = [field \in CacheFields |-> c[field]]
    /\ c.vectors \in Partial(Points) /\ c.metadata \in Partial(Metas)
    /\ c.order \in Seq(Ids) /\ Unique(c.order) /\ Listed(c.order) = DOMAIN c.metadata
    /\ Cardinality(DOMAIN c.metadata) <= MaxSize
    /\ ~Enabled => DOMAIN c.metadata = {}

\* A fresh cache is in order and empty.
LEMMA NewCacheOK == CacheOK(Cache!New) /\ Cache!New.vectors = <<>> /\ Cache!New.metadata = <<>>
<1> DEFINE c == Cache!New
<1>1. /\ DOMAIN c = CacheFields /\ c = [field \in CacheFields |-> c[field]]
      /\ c.vectors = <<>> /\ c.metadata = <<>> /\ c.order = <<>>
  BY DEF Cache!New, CacheFields
<1>2. <<>> \in Seq(Ids) /\ Unique(<<>>) /\ Listed(<<>>) = {}
  BY DEF Unique, Listed
<1>3. Cardinality({}) <= MaxSize
  BY FS_EmptySet, ConstantsAssumption
<1> HIDE DEF c
<1> QED
  BY <1>1, <1>2, <1>3, EmptyFacts DEF CacheOK, c

\* put_vector touches one vector.
LEMMA PutVectorOK ==
    ASSUME NEW c, CacheOK(c), NEW id \in Ids, NEW p \in Points
    PROVE  LET d == Cache!PutVector(c, id, p)
           IN  /\ CacheOK(d) /\ d.metadata = c.metadata
               /\ DOMAIN d.vectors = DOMAIN c.vectors \union {id} /\ d.vectors[id] = p
               /\ \A i \in DOMAIN c.vectors : i # id => d.vectors[i] = c.vectors[i]
<1> DEFINE d == Cache!PutVector(c, id, p)
<1>1. /\ DOMAIN d = CacheFields /\ d = [field \in CacheFields |-> d[field]]
      /\ d.vectors = Cache!With(c.vectors, id, p)
      /\ d.metadata = c.metadata /\ d.order = c.order
  BY DEF Cache!PutVector, CacheOK, CacheFields
<1> HIDE DEF d
<1>2. c.vectors \in Partial(Points)
  BY DEF CacheOK
<1> DEFINE g == Cache!With(c.vectors, id, p)
<1>3. /\ g \in Partial(Points) /\ DOMAIN g = DOMAIN c.vectors \union {id} /\ g[id] = p
      /\ \A i \in DOMAIN c.vectors : i # id => g[i] = c.vectors[i]
  <2>1. ASSUME NEW f \in Partial(Points), g = Cache!With(f, id, p)
        PROVE  /\ g \in Partial(Points) /\ DOMAIN g = DOMAIN f \union {id} /\ g[id] = p
               /\ \A i \in DOMAIN f : i # id => g[i] = f[i]
    <3> HIDE DEF g
    <3> QED
      BY <2>1, WithFacts
  <2> QED
    BY <1>2, <2>1
<1>4. d.vectors = g
  BY <1>1
<1> HIDE DEF g
<1>5. CacheOK(d)
  BY <1>1, <1>3, <1>4 DEF CacheOK
<1> QED
  BY <1>1, <1>3, <1>4, <1>5 DEF d

\* clear_metadata_cache leaves the vectors.
LEMMA ClearMetadataOK ==
    ASSUME NEW c, CacheOK(c)
    PROVE  LET d == Cache!ClearMetadata(c)
           IN  CacheOK(d) /\ d.vectors = c.vectors /\ DOMAIN d.metadata = {}
<1> DEFINE d == Cache!ClearMetadata(c)
<1>1. /\ DOMAIN d = CacheFields /\ d = [field \in CacheFields |-> d[field]]
      /\ d.vectors = c.vectors /\ d.metadata = <<>> /\ d.order = <<>>
  BY DEF Cache!ClearMetadata, CacheOK, CacheFields
<1>2. <<>> \in Seq(Ids) /\ Unique(<<>>) /\ Listed(<<>>) = {}
  BY DEF Unique, Listed
<1>3. Cardinality({}) <= MaxSize
  BY FS_EmptySet, ConstantsAssumption
<1> HIDE DEF d
<1> QED
  BY <1>1, <1>2, <1>3, EmptyFacts DEF CacheOK, d

\* Removing an id drops its metadata, and its vector if asked.
LEMMA RemoveOK ==
    ASSUME NEW c, CacheOK(c), NEW id, NEW vector \in BOOLEAN
    PROVE  LET d == Cache!Remove(c, id, vector)
           IN  /\ CacheOK(d) /\ d.vectors = IF vector THEN Cache!Without(c.vectors, id) ELSE c.vectors
               /\ d.metadata = Cache!Without(c.metadata, id)
<1> DEFINE d == Cache!Remove(c, id, vector)
<1>1. /\ DOMAIN d = CacheFields /\ d = [field \in CacheFields |-> d[field]]
      /\ d.vectors = IF vector THEN Cache!Without(c.vectors, id) ELSE c.vectors
      /\ d.metadata = Cache!Without(c.metadata, id) /\ d.order = Cache!Dropped(c.order, id)
  BY DEF Cache!Remove, CacheOK, CacheFields
<1> HIDE DEF d
<1>2. c.vectors \in Partial(Points) /\ c.metadata \in Partial(Metas)
  BY DEF CacheOK
<1> DEFINE g == Cache!Without(c.vectors, id)
           h == Cache!Without(c.metadata, id)
           o == Cache!Dropped(c.order, id)
<1>3. g \in Partial(Points)
  BY <1>2, WithoutFacts
<1>4. h \in Partial(Metas) /\ DOMAIN h = DOMAIN c.metadata \ {id}
  BY <1>2, WithoutFacts
<1>5. o \in Seq(Ids) /\ Unique(o) /\ Listed(o) = Listed(c.order) \ {id}
  <2>1. c.order \in Seq(Ids) /\ Unique(c.order)
    BY DEF CacheOK
  <2> QED
    BY <2>1, DroppedFacts
<1>6. Cardinality(DOMAIN h) <= MaxSize
  <2>1. DOMAIN c.metadata \subseteq Ids
    BY <1>2, PartialFacts
  <2>2. /\ Cardinality(DOMAIN h) \in Nat /\ Cardinality(DOMAIN c.metadata) \in Nat
        /\ Cardinality(DOMAIN h) <= Cardinality(DOMAIN c.metadata)
    BY <1>4, <2>1, MetadataCount
  <2>3. MaxSize \in Nat /\ Cardinality(DOMAIN c.metadata) <= MaxSize
    BY ConstantsAssumption DEF CacheOK
  <2> QED
    BY <2>2, <2>3
<1>7. /\ d.vectors = (IF vector THEN g ELSE c.vectors) /\ d.metadata = h /\ d.order = o
  BY <1>1
<1> HIDE DEF g, h, o
<1>8. d.vectors \in Partial(Points)
  BY <1>2, <1>3, <1>7
<1>9. ~Enabled => DOMAIN h = {}
  BY <1>4 DEF CacheOK
<1>10. Listed(c.order) = DOMAIN c.metadata
  BY DEF CacheOK
<1>11. CacheOK(d)
  BY <1>1, <1>4, <1>5, <1>6, <1>7, <1>8, <1>9, <1>10 DEF CacheOK
<1> QED
  BY <1>1, <1>11 DEF d

\* What was put first leaves first.
LEMMA TailFacts ==
    ASSUME NEW S, NEW order \in Seq(S), Unique(order), order # <<>>
    PROVE  LET rest == Tail(order)
           IN  /\ rest \in Seq(S) /\ Unique(rest)
               /\ Listed(rest) = Listed(order) \ {Head(order)}
               /\ Head(order) \in Listed(order)
<1> DEFINE rest == Tail(order)
           n == Len(order)
<1>1. /\ n \in Nat \ {0} /\ DOMAIN order = 1 .. n /\ rest \in Seq(S)
      /\ DOMAIN rest = 1 .. n - 1 /\ Head(order) = order[1]
      /\ \A i \in 1 .. n - 1 : rest[i] = order[i + 1]
  OBVIOUS
<1> HIDE DEF rest, n
<1>2. \A i \in 1 .. n - 1 : i + 1 \in 1 .. n /\ i + 1 # 1
  BY <1>1
<1>3. \A i \in 1 .. n : i = 1 \/ (i - 1 \in 1 .. n - 1 /\ (i - 1) + 1 = i)
  BY <1>1
<1>4. 1 \in 1 .. n
  BY <1>1
<1>5. \A i, j \in 1 .. n - 1 : i + 1 = j + 1 => i = j
  BY <1>1
<1>6. Unique(rest)
  BY <1>1, <1>2, <1>5, ZenonT(40) DEF Unique
<1>7. \A i \in 1 .. n - 1 : rest[i] # order[1] /\ rest[i] \in Listed(order)
  BY <1>1, <1>2, <1>4, SMTT(30) DEF Unique, Listed
<1>8. \A i \in 1 .. n : order[i] = order[1] \/ order[i] \in Listed(rest)
  <2> SUFFICES ASSUME NEW i \in 1 .. n, i # 1 PROVE order[i] \in Listed(rest)
    OBVIOUS
  <2>1. i - 1 \in 1 .. n - 1 /\ (i - 1) + 1 = i
    BY <1>3
  <2>2. rest[i - 1] = order[i]
    BY <1>1, <2>1
  <2> QED
    BY <1>1, <2>1, <2>2 DEF Listed
<1>9. Listed(rest) = Listed(order) \ {order[1]}
  BY <1>1, <1>7, <1>8, ZenonT(40) DEF Listed
<1> QED
  BY <1>1, <1>4, <1>6, <1>9 DEF rest, Listed

\* The limit holds again after one insertion: the id that was put first goes.
LEMMA EnforceOK ==
    ASSUME NEW c, DOMAIN c = CacheFields, c = [field \in CacheFields |-> c[field]],
           c.vectors \in Partial(Points), c.metadata \in Partial(Metas),
           c.order \in Seq(Ids), Unique(c.order), Listed(c.order) = DOMAIN c.metadata,
           Cardinality(DOMAIN c.metadata) <= MaxSize + 1, Enabled
    PROVE  LET d == Cache!EnforceItemLimit(c)
           IN  /\ CacheOK(d) /\ d.vectors = c.vectors /\ DOMAIN d.metadata \subseteq DOMAIN c.metadata
               /\ \A i \in DOMAIN d.metadata : d.metadata[i] = c.metadata[i]
<1> DEFINE d == Cache!EnforceItemLimit(c)
           n == Cardinality(DOMAIN c.metadata)
           Fine(e) == /\ CacheOK(e) /\ e.vectors = c.vectors
                      /\ DOMAIN e.metadata \subseteq DOMAIN c.metadata
                      /\ \A i \in DOMAIN e.metadata : e.metadata[i] = c.metadata[i]
<1>1. MaxSize \in Nat
  BY ConstantsAssumption
<1>2. DOMAIN c.metadata \subseteq Ids
  BY PartialFacts
<1>3. n \in Nat /\ IsFiniteSet(DOMAIN c.metadata)
  BY <1>2, MetadataCount
<1> DEFINE Full == n > MaxSize /\ c.order # <<>>
           Rest == [c EXCEPT !.metadata = Cache!Without(c.metadata, Head(c.order)),
                             !.order = Tail(c.order)]
<1>0. d = IF MaxSize = 0 THEN Cache!ClearMetadata(c) ELSE IF Full THEN Rest ELSE c
  BY DEF Cache!EnforceItemLimit, Cache!Cardinality, Cardinality
<1>4. CASE MaxSize = 0
  <2>1. d = Cache!ClearMetadata(c)
    BY <1>4 DEF Cache!EnforceItemLimit
  <2>2. /\ DOMAIN d = CacheFields /\ d = [field \in CacheFields |-> d[field]]
        /\ d.vectors = c.vectors /\ d.metadata = <<>> /\ d.order = <<>>
    BY <2>1 DEF Cache!ClearMetadata, CacheFields
  <2>3. <<>> \in Seq(Ids) /\ Unique(<<>>) /\ Listed(<<>>) = {}
    BY DEF Unique, Listed
  <2>4. Cardinality({}) <= MaxSize
    BY <1>4, FS_EmptySet
  <2> HIDE DEF d
  <2>5. CacheOK(d) /\ DOMAIN d.metadata = {}
    BY <2>2, <2>3, <2>4, EmptyFacts DEF CacheOK
  <2> QED
    BY <2>2, <2>5 DEF d
<1>5. CASE MaxSize # 0 /\ ~(n > MaxSize /\ c.order # <<>>)
  <2>1. d = c
    <3> ~Full /\ MaxSize # 0
      BY <1>5
    <3> HIDE DEF d, Full, Rest
    <3> QED
      BY <1>0
  <2>2. n <= MaxSize
    <3>1. CASE c.order = <<>>
      <4>1. Listed(<<>>) = {}
        BY DEF Listed
      <4>2. DOMAIN c.metadata = {}
        BY <3>1, <4>1
      <4>3. n = 0
        BY <4>2, FS_EmptySet
      <4> HIDE DEF n
      <4> QED
        BY <1>1, <4>3
    <3>2. CASE c.order # <<>>
      <4>1. ~(n > MaxSize)
        BY <1>5, <3>2
      <4> HIDE DEF n
      <4> QED
        BY <1>1, <1>3, <4>1
    <3> QED
      BY <3>1, <3>2
  <2>3. CacheOK(c)
    BY <2>2 DEF CacheOK
  <2> HIDE DEF d
  <2> QED
    BY <2>1, <2>3 DEF d
<1>6. CASE MaxSize # 0 /\ n > MaxSize /\ c.order # <<>>
  <2> DEFINE h == Cache!Without(c.metadata, Head(c.order))
             o == Tail(c.order)
  <2>1. d = [c EXCEPT !.metadata = h, !.order = o]
    <3> Full /\ MaxSize # 0
      BY <1>6
    <3>1. d = Rest
      <4> HIDE DEF d, Full, Rest
      <4> QED
        BY <1>0
    <3> QED
      BY <3>1
  <2>2. /\ DOMAIN d = CacheFields /\ d = [field \in CacheFields |-> d[field]]
        /\ d.vectors = c.vectors /\ d.metadata = h /\ d.order = o
    BY <2>1 DEF CacheFields
  <2>3. /\ h \in Partial(Metas) /\ DOMAIN h = DOMAIN c.metadata \ {Head(c.order)}
        /\ \A i \in DOMAIN h : h[i] = c.metadata[i]
    BY WithoutFacts, ZenonT(40)
  <2>4. /\ o \in Seq(Ids) /\ Unique(o) /\ Listed(o) = Listed(c.order) \ {Head(c.order)}
        /\ Head(c.order) \in Listed(c.order)
    BY <1>6, TailFacts
  <2>5. Cardinality(DOMAIN h) = n - 1
    <3>1. Head(c.order) \in DOMAIN c.metadata
      BY <2>4
    <3> QED
      BY <1>2, <2>3, <3>1, MetadataCount
  <2>6. Cardinality(DOMAIN h) <= MaxSize
    BY <1>1, <1>3, <2>5
  <2> HIDE DEF h, o, d
  <2>7. CacheOK(d)
    BY <2>2, <2>3, <2>4, <2>6 DEF CacheOK
  <2> QED
    BY <2>2, <2>3, <2>7 DEF d
<1> QED
  BY <1>4, <1>5, <1>6

\* The metadata of an id is cached last, if there is room for any.
LEMMA PutMetadataOK ==
    ASSUME NEW c, CacheOK(c), NEW id \in Ids, NEW m \in Metas
    PROVE  LET d == Cache!PutMetadata(c, id, m)
           IN  /\ CacheOK(d) /\ d.vectors = c.vectors
               /\ DOMAIN d.metadata \subseteq DOMAIN c.metadata \union {id}
               /\ \A i \in DOMAIN d.metadata :
                    d.metadata[i] = IF i = id THEN m ELSE c.metadata[i]
<1> DEFINE d == Cache!PutMetadata(c, id, m)
<1>1. CASE Enabled
  <2> DEFINE h == Cache!With(c.metadata, id, m)
             r == Cache!Dropped(c.order, id)
             o == Append(r, id)
             e == [c EXCEPT !.metadata = h, !.order = o]
  <2>1. d = Cache!EnforceItemLimit(e)
    BY <1>1 DEF Cache!PutMetadata
  <2>2. /\ DOMAIN e = CacheFields /\ e = [field \in CacheFields |-> e[field]]
        /\ e.vectors = c.vectors /\ e.metadata = h /\ e.order = o
    BY DEF CacheOK, CacheFields
  <2>3. c.metadata \in Partial(Metas) /\ c.vectors \in Partial(Points)
    BY DEF CacheOK
  <2>4. /\ h \in Partial(Metas) /\ DOMAIN h = DOMAIN c.metadata \union {id} /\ h[id] = m
        /\ \A i \in DOMAIN c.metadata : i # id => h[i] = c.metadata[i]
    <3>1. ASSUME NEW f \in Partial(Metas), h = Cache!With(f, id, m)
          PROVE  /\ h \in Partial(Metas) /\ DOMAIN h = DOMAIN f \union {id} /\ h[id] = m
                 /\ \A i \in DOMAIN f : i # id => h[i] = f[i]
      <4> HIDE DEF h
      <4> QED
        BY <3>1, WithFacts
    <3> QED
      BY <2>3, <3>1
  <2>5. r \in Seq(Ids) /\ Unique(r) /\ Listed(r) = Listed(c.order) \ {id}
    <3>1. c.order \in Seq(Ids) /\ Unique(c.order)
      BY DEF CacheOK
    <3> QED
      BY <3>1, DroppedFacts
  <2>6. o \in Seq(Ids) /\ Unique(o) /\ Listed(o) = Listed(r) \union {id}
    <3> HIDE DEF r
    <3> QED
      BY <2>5, AppendFacts
  <2>7. Listed(c.order) = DOMAIN c.metadata /\ Cardinality(DOMAIN c.metadata) <= MaxSize
    BY DEF CacheOK
  <2>8. Cardinality(DOMAIN h) <= MaxSize + 1
    <3>1. DOMAIN c.metadata \subseteq Ids
      BY <2>3, PartialFacts
    <3>2. /\ Cardinality(DOMAIN c.metadata) \in Nat /\ Cardinality(DOMAIN h) \in Nat
          /\ Cardinality(DOMAIN h) <= Cardinality(DOMAIN c.metadata) + 1
      <4>1. DOMAIN h \subseteq Ids
        BY <2>4, <3>1
      <4> HIDE DEF h
      <4> QED
        BY <2>4, <3>1, <4>1, MetadataCount
    <3>3. MaxSize \in Nat
      BY ConstantsAssumption
    <3> QED
      BY <2>7, <3>2, <3>3
  <2>9. Listed(o) = DOMAIN h
    BY <2>4, <2>5, <2>6, <2>7
  <2> HIDE DEF h, r, o, e
  <2>10. /\ CacheOK(d) /\ d.vectors = e.vectors /\ DOMAIN d.metadata \subseteq DOMAIN e.metadata
         /\ \A i \in DOMAIN d.metadata : d.metadata[i] = e.metadata[i]
    <3>1. /\ e.vectors \in Partial(Points) /\ e.metadata \in Partial(Metas)
          /\ e.order \in Seq(Ids) /\ Unique(e.order) /\ Listed(e.order) = DOMAIN e.metadata
          /\ Cardinality(DOMAIN e.metadata) <= MaxSize + 1
      BY <2>2, <2>3, <2>4, <2>6, <2>8, <2>9
    <3> DEFINE f == Cache!EnforceItemLimit(e)
    <3>2. /\ CacheOK(f) /\ f.vectors = e.vectors /\ DOMAIN f.metadata \subseteq DOMAIN e.metadata
          /\ \A i \in DOMAIN f.metadata : f.metadata[i] = e.metadata[i]
      BY <1>1, <2>2, <3>1, EnforceOK
    <3> HIDE DEF f, d
    <3> QED
      BY <2>1, <3>2 DEF f
  <2> HIDE DEF d
  <2>11. \A i \in DOMAIN d.metadata : d.metadata[i] = IF i = id THEN m ELSE c.metadata[i]
    BY <2>2, <2>4, <2>10
  <2> QED
    BY <2>2, <2>4, <2>10, <2>11 DEF d
<1>2. CASE ~Enabled
  <2>1. d = c
    BY <1>2 DEF Cache!PutMetadata
  <2>2. DOMAIN c.metadata = {}
    BY <1>2 DEF CacheOK
  <2> HIDE DEF d
  <2> QED
    BY <2>1, <2>2 DEF d
<1> QED
  BY <1>1, <1>2

-----------------------------------------------------------------------------
(* Caches that are rebuilt have the vectors of all documents, and metadata *)
(* of theirs, in whatever order they are filled.                           *)

Put(c, docs, id) ==
    Cache!PutMetadata(Cache!PutVector(c, id, docs[id].vector), id, docs[id].metadata)

\* The recursion of RebuiltCaches.
Filled(f, docs) ==
    f = [ids \in SUBSET DOMAIN docs |->
            IF ids = {} THEN {Cache!New}
            ELSE UNION {{Put(c, docs, id) : c \in f[ids \ {id}]} : id \in ids}]

\* The recursive function that fills a cache set by set is defined.
LEMMA FilledExists ==
    ASSUME NEW docs, IsFiniteSet(DOMAIN docs)
    PROVE  \E f : Filled(f, docs)
<1> DEFINE S == DOMAIN docs
           N == Cardinality(S)
           Size(n) == {s \in SUBSET S : Cardinality(s) <= n}
           More(f, s) == UNION {{Put(c, docs, id) : c \in f[s \ {id}]} : id \in s}
           UpTo(f, n) == f = [s \in Size(n) |-> IF s = {} THEN {Cache!New} ELSE More(f, s)]
           Good == {n \in Nat : \E f : UpTo(f, n)}
<1>1. N \in Nat
  BY FS_CardinalityType
<1>2. \A s \in SUBSET S : Cardinality(s) \in Nat /\ Cardinality(s) <= N /\ IsFiniteSet(s)
  BY FS_Subset, FS_CardinalityType
<1>3. \A s \in SUBSET S : \A id \in s :
        s \ {id} \in SUBSET S /\ Cardinality(s \ {id}) = Cardinality(s) - 1
  BY <1>2, FS_RemoveElement
<1>4. 0 \in Good
  <2> DEFINE f == [s \in Size(0) |-> {Cache!New}]
  <2>1. \A s \in Size(0) : s = {}
    BY <1>2, FS_EmptySet
  <2> HIDE DEF More, Size
  <2>2. UpTo(f, 0)
    BY <2>1
  <2> HIDE DEF f
  <2>3. \E any : UpTo(any, 0)
    BY <2>2
  <2> QED
    BY <2>3
<1>5. ASSUME NEW n \in 1 .. N, n - 1 \in Good
      PROVE  n \in Good
  <2>1. PICK f : UpTo(f, n - 1)
    BY <1>5
  <2> DEFINE g == [s \in Size(n) |-> IF s = {} THEN {Cache!New} ELSE More(f, s)]
  <2>2. \A s \in Size(n) : \A id \in s : s \ {id} \in Size(n - 1)
    <3>1. SUFFICES ASSUME NEW s \in Size(n), NEW id \in s PROVE s \ {id} \in Size(n - 1)
      OBVIOUS
    <3>2. /\ s \ {id} \in SUBSET S /\ Cardinality(s \ {id}) = Cardinality(s) - 1
          /\ Cardinality(s) \in Nat /\ Cardinality(s) <= n /\ n \in Nat
      BY <1>1, <1>2, <1>3
    <3> QED
      BY <3>2
  <2>3. \A s \in Size(n - 1) : s \in Size(n)
    BY <1>2
  <2>4. \A s \in Size(n - 1) : g[s] = f[s]
    <3> HIDE DEF More, Size
    <3> QED
      BY <2>1, <2>3
  <2>5. \A s \in Size(n) : More(g, s) = More(f, s)
    <3> HIDE DEF g, Size
    <3> QED
      BY <2>2, <2>4
  <2>6. UpTo(g, n)
    <3> HIDE DEF More, Size
    <3> QED
      BY <2>5
  <2>7. n \in Nat
    BY <1>1
  <2> HIDE DEF g, UpTo
  <2>8. \E any : UpTo(any, n)
    BY <2>6
  <2> QED
    BY <2>7, <2>8
<1> HIDE DEF Good
<1>6. N \in Good
  <2>1. 0 .. N \subseteq Good
    BY <1>1, <1>4, <1>5, IntervalInduction
  <2> QED
    BY <1>1, <2>1
<1>7. PICK f : UpTo(f, N)
  BY <1>6 DEF Good
<1>8. Size(N) = SUBSET S
  BY <1>2
<1> HIDE DEF Size
<1> QED
  BY <1>7, <1>8 DEF Filled

\* A cache of some of the documents.
Holds(c, docs, ids) ==
    /\ CacheOK(c) /\ DOMAIN c.vectors = ids /\ \A i \in ids : c.vectors[i] = docs[i].vector
    /\ DOMAIN c.metadata \subseteq ids
    /\ \A i \in DOMAIN c.metadata : c.metadata[i] = docs[i].metadata

\* Filling in one more document.
LEMMA PutHolds ==
    ASSUME NEW docs \in Partial(Docs), NEW ids \in SUBSET DOMAIN docs, NEW id \in DOMAIN docs,
           NEW c, Holds(c, docs, ids)
    PROVE  Holds(Put(c, docs, id), docs, ids \union {id})
<1> DEFINE d == Cache!PutVector(c, id, docs[id].vector)
           e == Cache!PutMetadata(d, id, docs[id].metadata)
<1>1. id \in Ids /\ docs[id].vector \in Points /\ docs[id].metadata \in Metas
  <2>1. id \in Ids /\ docs[id] \in Docs
    BY PartialFacts
  <2> QED
    BY <2>1 DEF Docs
<1>2. /\ CacheOK(d) /\ d.metadata = c.metadata
      /\ DOMAIN d.vectors = DOMAIN c.vectors \union {id} /\ d.vectors[id] = docs[id].vector
      /\ \A i \in DOMAIN c.vectors : i # id => d.vectors[i] = c.vectors[i]
  BY <1>1, PutVectorOK DEF Holds
<1> HIDE DEF d
<1>3. /\ CacheOK(e) /\ e.vectors = d.vectors
      /\ DOMAIN e.metadata \subseteq DOMAIN d.metadata \union {id}
      /\ \A i \in DOMAIN e.metadata :
            e.metadata[i] = IF i = id THEN docs[id].metadata ELSE d.metadata[i]
  BY <1>1, <1>2, PutMetadataOK
<1> HIDE DEF e
<1>4. Holds(e, docs, ids \union {id})
  BY <1>2, <1>3 DEF Holds
<1> QED
  BY <1>4 DEF Put, d, e

\* A rebuilt cache holds all documents, whatever order they are put in.
LEMMA RebuiltFacts ==
    ASSUME NEW docs \in Partial(Docs), NEW c \in RebuiltCaches(docs)
    PROVE  Holds(c, docs, DOMAIN docs)
<1> DEFINE after == CHOOSE f : Filled(f, docs)
           Good == {s \in SUBSET DOMAIN docs : \A d \in after[s] : Holds(d, docs, s)}
<1>1. IsFiniteSet(DOMAIN docs) /\ DOMAIN docs \subseteq Ids
  BY PartialFacts, FS_Subset, ConstantsAssumption
<1>2. Filled(after, docs)
  BY <1>1, FilledExists
<1>3. RebuiltCaches(docs) = after[DOMAIN docs]
  BY DEF RebuiltCaches, Filled, Put
<1> HIDE DEF after
<1>4. ASSUME NEW s \in SUBSET DOMAIN docs, \A t \in SUBSET s : t # s => t \in Good
      PROVE  s \in Good
  <2>1. SUFFICES ASSUME NEW d \in after[s] PROVE Holds(d, docs, s)
    OBVIOUS
  <2>2. CASE s = {}
    <3>1. d = Cache!New
      BY <1>2, <2>2 DEF Filled
    <3> QED
      BY <2>2, <3>1, NewCacheOK, EmptyFacts DEF Holds
  <2>3. CASE s # {}
    <3>1. d \in UNION {{Put(b, docs, id) : b \in after[s \ {id}]} : id \in s}
      BY <1>2, <2>1, <2>3 DEF Filled
    <3>2. PICK id \in s : \E b \in after[s \ {id}] : d = Put(b, docs, id)
      BY <3>1
    <3>3. PICK b \in after[s \ {id}] : d = Put(b, docs, id)
      BY <3>2
    <3>4. s \ {id} \in Good
      BY <1>4
    <3>5. Holds(d, docs, (s \ {id}) \union {id})
      BY <3>3, <3>4, PutHolds
    <3>6. (s \ {id}) \union {id} = s
      OBVIOUS
    <3> QED
      BY <3>5, <3>6
  <2> QED
    BY <2>2, <2>3
<1> HIDE DEF Good
<1>5. DOMAIN docs \in Good
  <2>1. SUBSET DOMAIN docs \subseteq Good
    BY <1>1, <1>4, SubsetInduction, SMTT(30)
  <2> QED
    BY <2>1
<1> QED
  BY <1>3, <1>5 DEF Good

-----------------------------------------------------------------------------
(* Rankings.                                                               *)

Better(S, score, id) == {other \in S : score[other] > score[id]}
Ranked(S, score) ==
    [i \in 1 .. Cardinality(S) |-> CHOOSE id \in S : Cardinality(Better(S, score, id)) = i - 1]

\* Scores that differ rank a set: every id is in one place.
LEMMA RankedFacts ==
    ASSUME NEW S, IsFiniteSet(S), NEW score, \A id \in S : score[id] \in Int,
           \A a, b \in S : score[a] = score[b] => a = b
    PROVE  LET s == Ranked(S, score)
               n == Cardinality(S)
           IN  /\ n \in Nat /\ s \in [1 .. n -> S] /\ Unique(s) /\ Listed(s) = S
               /\ \A i \in 1 .. n : Cardinality(Better(S, score, s[i])) = i - 1
<1> DEFINE n == Cardinality(S)
           count(id) == Cardinality(Better(S, score, id))
           place == [id \in S |-> count(id) + 1]
           s == Ranked(S, score)
<1>1. n \in Nat
  BY FS_CardinalityType
<1>2. \A id \in S : IsFiniteSet(Better(S, score, id)) /\ count(id) \in Nat /\ count(id) < n
  <2>1. SUFFICES ASSUME NEW id \in S
                 PROVE  IsFiniteSet(Better(S, score, id)) /\ count(id) \in Nat /\ count(id) < n
    OBVIOUS
  <2>2. Better(S, score, id) \subseteq S /\ id \notin Better(S, score, id)
    BY DEF Better
  <2>3. IsFiniteSet(S \ {id}) /\ Cardinality(S \ {id}) = n - 1
    BY FS_RemoveElement
  <2>4. Better(S, score, id) \subseteq S \ {id}
    BY <2>2
  <2>5. IsFiniteSet(Better(S, score, id)) /\ count(id) <= n - 1
    BY <2>3, <2>4, FS_Subset
  <2>6. count(id) \in Nat
    BY <2>5, FS_CardinalityType
  <2> HIDE DEF n, count
  <2> QED
    BY <1>1, <2>5, <2>6
<1>3. ASSUME NEW a \in S, NEW b \in S, score[a] > score[b]
      PROVE  count(a) < count(b)
  <2>1. /\ Better(S, score, a) \subseteq Better(S, score, b)
        /\ a \in Better(S, score, b) /\ a \notin Better(S, score, a)
    BY <1>3 DEF Better
  <2>2. count(a) <= count(b) /\ count(a) # count(b)
    BY <1>2, <2>1, FS_Subset
  <2> HIDE DEF count
  <2> QED
    BY <1>2, <2>2
<1>4. place \in [S -> 1 .. n]
  <2> HIDE DEF n, count
  <2> QED
    BY <1>1, <1>2
<1>5. ASSUME NEW a \in S, NEW b \in S, count(a) = count(b)
      PROVE  a = b
  <2>1. score[a] > score[b] \/ score[b] > score[a] \/ score[a] = score[b]
    OBVIOUS
  <2>2. ~(score[a] > score[b]) /\ ~(score[b] > score[a])
    <3> HIDE DEF count
    <3> QED
      BY <1>2, <1>3, <1>5
  <2> QED
    BY <2>1, <2>2
<1>6. place \in Injection(S, 1 .. n)
  <2>1. \A a, b \in S : place[a] = place[b] => a = b
    <3> HIDE DEF count
    <3> QED
      BY <1>2, <1>5
  <2> HIDE DEF place
  <2> QED
    BY <1>4, <2>1 DEF Injection, IsInjective
<1>7. ASSUME NEW i \in 1 .. n
      PROVE  \E id \in S : count(id) = i - 1
  <2>1. IsFiniteSet(1 .. n) /\ Cardinality(1 .. n) = n
    BY <1>1, FS_Interval
  <2>2. place \in Surjection(S, 1 .. n)
    <3> HIDE DEF place
    <3> QED
      BY <1>6, <2>1, FS_Injection
  <2>3. PICK id \in S : place[id] = i
    <3> HIDE DEF place
    <3> QED
      BY <2>2 DEF Surjection
  <2> HIDE DEF count
  <2> QED
    BY <1>2, <2>3
<1>8. \A i \in 1 .. n : s[i] \in S /\ count(s[i]) = i - 1
  BY <1>7 DEF Ranked
<1>9. s = [i \in 1 .. n |-> s[i]]
  BY DEF Ranked
<1> HIDE DEF s, n
<1>10. s \in [1 .. n -> S]
  BY <1>8, <1>9
<1>11. Unique(s)
  <2> HIDE DEF count
  <2> QED
    BY <1>1, <1>8, <1>10 DEF Unique
<1>12. Listed(s) = S
  <2>1. ASSUME NEW id \in S PROVE id \in Listed(s)
    <3>1. count(id) + 1 \in 1 .. n
      <4> HIDE DEF count
      <4> QED
        BY <1>1, <1>2
    <3>2. count(s[count(id) + 1]) = count(id)
      <4> HIDE DEF count
      <4> QED
        BY <1>2, <1>8, <3>1
    <3>3. s[count(id) + 1] = id
      <4> HIDE DEF count
      <4> QED
        BY <1>5, <1>8, <3>1, <3>2
    <3> HIDE DEF count
    <3> QED
      BY <1>10, <3>1, <3>3 DEF Listed
  <2> QED
    BY <1>10, <2>1 DEF Listed
<1> QED
  BY <1>1, <1>8, <1>10, <1>11, <1>12 DEF s, n

\* A ranking is the same for scores in the same order.
LEMMA RankedSame ==
    ASSUME NEW S, NEW f, NEW g, \A a, b \in S : f[a] > f[b] <=> g[a] > g[b]
    PROVE  Ranked(S, f) = Ranked(S, g)
<1>1. \A id \in S : Better(S, f, id) = Better(S, g, id)
  BY DEF Better
<1> QED
  BY <1>1 DEF Ranked

\* What is a sequence of something, whatever it is of.
IsSeq(s) == \E n \in Nat : s = [i \in 1 .. n |-> s[i]]

\* The first k of a sequence.
First(s, k) == SubSeq(s, 1, IF k < Len(s) THEN k ELSE Len(s))

\* A list cut to its first k.
LEMMA FirstFacts ==
    ASSUME NEW S, NEW n \in Nat, NEW s \in [1 .. n -> S], NEW k \in Nat
    PROVE  LET t == First(s, k)
               m == IF k < n THEN k ELSE n
           IN  /\ m \in Nat /\ t \in [1 .. m -> S] /\ Len(t) = m /\ t \in Seq(S)
               /\ \A i \in 1 .. m : t[i] = s[i] /\ i \in 1 .. n
               /\ Listed(t) \subseteq Listed(s)
               /\ Unique(s) => Unique(t)
<1> DEFINE t == First(s, k)
           m == IF k < n THEN k ELSE n
<1>1. s \in Seq(S) /\ Len(s) = n
  OBVIOUS
<1>2. m \in Nat /\ m <= n /\ t = SubSeq(s, 1, m)
  BY <1>1 DEF First
<1> HIDE DEF t, m
<1>3. t = [i \in 1 .. m |-> s[i]]
  BY <1>1, <1>2
<1>4. \A i \in 1 .. m : t[i] = s[i] /\ i \in 1 .. n
  BY <1>2, <1>3
<1>5. t \in [1 .. m -> S]
  BY <1>3, <1>4
<1>6. Len(t) = m /\ t \in Seq(S)
  BY <1>2, <1>5
<1>7. Listed(t) \subseteq Listed(s)
  BY <1>4, <1>5 DEF Listed
<1>8. Unique(s) => Unique(t)
  BY <1>4, <1>5 DEF Unique
<1> QED
  BY <1>2, <1>4, <1>5, <1>6, <1>7, <1>8 DEF t, m

-----------------------------------------------------------------------------
(* Vectors and similarity.                                                 *)

\* PointsAssumption, in parts.
LEMMA PointFacts ==
    /\ Points \subseteq Int /\ Queries \subseteq Int
    /\ \A p \in Points \union Queries : \A a, b \in Points :
        Rank!Similarity(p, a) = Rank!Similarity(p, b) => a = b
<1>1. Points \union Queries \subseteq Int
  BY PointsAssumption, ZenonT(40)
<1>2. \A p \in Points \union Queries : \A a, b \in Points :
        Rank!Similarity(p, a) = Rank!Similarity(p, b) => a = b
  BY PointsAssumption, ZenonT(40)
<1> QED
  BY <1>1, <1>2

\* Every module has the one Similarity.
LEMMA SimilarityFacts ==
    ASSUME NEW a \in Int, NEW b \in Int
    PROVE  /\ Rank!Similarity(a, b) \in Int /\ Rank!Similarity(a, b) <= 0
           /\ Rank!Similarity(a, a) = 0
           /\ Index!Flat!Similarity(a, b) = Rank!Similarity(a, b)
           /\ Index!Ivf!Similarity(a, b) = Rank!Similarity(a, b)
           /\ Index!Hnsw!Similarity(a, b) = Rank!Similarity(a, b)
           /\ Rank!Similarity(a, b) = Rank!Similarity(b, a)
BY DEF Rank!Similarity, Index!Flat!Similarity, Index!Ivf!Similarity, Index!Hnsw!Similarity

-----------------------------------------------------------------------------
(* The clusters.  There is a centroid for each, and each id is in the      *)
(* cluster that it is noted for.                                           *)

Clusters == [1 .. NumClusters -> Int]

\* There is a nearest centroid, the last of several.
LEMMA NearestFacts ==
    ASSUME NEW centroids \in Clusters, NumClusters # 0, NEW v \in Int
    PROVE  Index!Ivf!FindNearestCentroid(centroids, v) \in 1 .. NumClusters
<1> DEFINE N == NumClusters
           near(c) == Index!Ivf!Similarity(v, centroids[c])
           below(d, c) == near(d) < near(c) \/ (near(d) = near(c) /\ d <= c)
           Good == {s \in SUBSET (1 .. N) : s = {} \/ \E c \in s : \A d \in s : below(d, c)}
<1>1. N \in Nat /\ N # 0 /\ DOMAIN centroids = 1 .. N /\ IsFiniteSet(1 .. N)
  BY ConstantsAssumption, FS_Interval DEF Clusters
<1>2. \A c \in 1 .. N : near(c) \in Int
  BY SimilarityFacts DEF Clusters
<1> HIDE DEF N, near
<1>3. ASSUME NEW s \in SUBSET (1 .. N), \A t \in SUBSET s : t # s => t \in Good
      PROVE  s \in Good
  <2>1. CASE s = {}
    BY <2>1
  <2>2. CASE s # {}
    <3>1. PICK c \in s : TRUE
      BY <2>2
    <3>2. s \ {c} \in Good
      BY <1>3, <3>1
    <3>3. c \in 1 .. N /\ c \in Int /\ near(c) \in Int
      BY <1>1, <1>2
    <3>4. CASE s \ {c} = {}
      <4>1. \A d \in s : d = c
        BY <3>4
      <4>2. below(c, c)
        BY <3>3
      <4> QED
        BY <4>1, <4>2
    <3>5. CASE s \ {c} # {}
      <4>1. PICK e \in s \ {c} : \A d \in s \ {c} : below(d, e)
        BY <3>2, <3>5
      <4>2. e \in 1 .. N /\ e \in Int /\ near(e) \in Int /\ e \in s
        BY <1>1, <1>2
      <4>3. CASE below(c, e)
        BY <4>1, <4>2, <4>3
      <4>4. CASE below(e, c)
        <5>1. ASSUME NEW d \in s PROVE below(d, c)
          <6>1. CASE d = c
            BY <3>3, <6>1
          <6>2. CASE d # c
            <7>1. below(d, e) /\ d \in Int /\ near(d) \in Int
              BY <1>1, <1>2, <4>1, <6>2
            <7> QED
              BY <3>3, <4>2, <4>4, <7>1
          <6> QED
            BY <6>1, <6>2
        <5> QED
          BY <5>1
      <4>5. below(c, e) \/ below(e, c)
        BY <3>3, <4>2
      <4> QED
        BY <4>3, <4>4, <4>5
    <3> QED
      BY <3>4, <3>5
  <2> QED
    BY <2>1, <2>2
<1> HIDE DEF Good
<1>4. \A s \in SUBSET (1 .. N) : (\A t \in SUBSET s : t # s => t \in Good) => s \in Good
  BY <1>3
<1>5. 1 .. N \in Good
  <2> DEFINE all == 1 .. N
  <2>1. SUBSET all \subseteq Good
    <3>1. IsFiniteSet(all) /\ \A s \in SUBSET all : (\A t \in SUBSET s : t # s => t \in Good) => s \in Good
      BY <1>1, <1>4
    <3> HIDE DEF all
    <3> QED
      BY <3>1, SubsetInduction, ZenonT(40)
  <2> QED
    BY <2>1
<1>6. \E c \in 1 .. N : \A d \in 1 .. N : below(d, c)
  <2>1. 1 \in 1 .. N
    BY <1>1
  <2> HIDE DEF below
  <2> QED
    BY <1>5, <2>1 DEF Good
<1> QED
  BY <1>1, <1>6 DEF Index!Ivf!FindNearestCentroid, near, N

\* The mean of integers is an integer.
LEMMA MeanFacts ==
    ASSUME NEW cluster, IsFiniteSet(cluster), cluster # {},
           NEW vectors, \A id \in cluster : vectors[id] \in Int
    PROVE  Index!Ivf!ComputeCentroid(cluster, vectors) \in Int
<1> DEFINE pick == [s \in (SUBSET cluster) \ {{}} |-> CHOOSE id \in s : TRUE]
           step == [x \in cluster \X Int |-> vectors[x[1]] + x[2]]
           Sums(f) == f = [s \in SUBSET cluster |->
                              IF s = {} THEN 0
                              ELSE vectors[CHOOSE id \in s : TRUE] + f[s \ {CHOOSE id \in s : TRUE}]]
           sum == CHOOSE f : Sums(f)
<1>1. \A s \in SUBSET cluster : s # {} => (CHOOSE id \in s : TRUE) \in s
  OBVIOUS
<1>2. \A s \in SUBSET cluster : s # {} => pick[s] \in s
  BY <1>1
<1>3. step \in [cluster \X Int -> Int]
  OBVIOUS
<1>4. \E f : Sums(f)
  <2>1. PICK f : Folds(f, cluster, Int, 0, pick, step)
    <3>1. 0 \in Int /\ Picks(pick, cluster)
      BY <1>2 DEF Picks
    <3> HIDE DEF pick, step
    <3> QED
      BY <1>3, <3>1, FoldExists
  <2>2. \A s \in SUBSET cluster : s # {} =>
            step[<<pick[s], f[s \ {pick[s]}]>>] = vectors[pick[s]] + f[s \ {pick[s]}]
    <3>1. \A s \in SUBSET cluster : s # {} => pick[s] \in cluster /\ f[s \ {pick[s]}] \in Int
      <4> HIDE DEF pick, step
      <4> QED
        BY <1>2, <2>1 DEF Folds
    <3> HIDE DEF pick
    <3> QED
      BY <3>1
  <2>3. \A s \in SUBSET cluster : f[s] = IF s = {} THEN 0 ELSE vectors[pick[s]] + f[s \ {pick[s]}]
    <3> HIDE DEF pick, step
    <3> QED
      BY <2>1, <2>2 DEF Folds
  <2>4. Sums(f)
    <3>1. \A s \in SUBSET cluster : s # {} => pick[s] = CHOOSE id \in s : TRUE
      OBVIOUS
    <3>2. f = [s \in SUBSET cluster |-> f[s]]
      BY <2>1 DEF Folds
    <3> HIDE DEF pick, step
    <3> QED
      BY <2>3, <3>1, <3>2
  <2> QED
    BY <2>4
<1>5. Sums(sum)
  <2> HIDE DEF Sums
  <2> QED
    BY <1>4
<1>6. Index!Ivf!MapThenSumSet(LAMBDA id : vectors[id], cluster) = sum[cluster]
  BY DEF Index!Ivf!MapThenSumSet, Index!Ivf!MapThenFoldSet
<1> HIDE DEF sum
<1> DEFINE Good == {s \in SUBSET cluster : sum[s] \in Int}
<1>7. ASSUME NEW s \in SUBSET cluster, \A t \in SUBSET s : t # s => t \in Good
      PROVE  s \in Good
  <2>1. CASE s = {}
    BY <1>5, <2>1
  <2>2. CASE s # {}
    <3> DEFINE id == CHOOSE any \in s : TRUE
    <3>1. id \in s
      BY <2>2
    <3>2. sum[s] = vectors[id] + sum[s \ {id}]
      BY <1>5, <2>2
    <3> HIDE DEF id
    <3>3. s \ {id} \in Good
      BY <1>7, <3>1
    <3>4. vectors[id] \in Int
      BY <3>1
    <3> QED
      BY <3>2, <3>3, <3>4
  <2> QED
    BY <2>1, <2>2
<1> HIDE DEF Good
<1>8. \A s \in SUBSET cluster : (\A t \in SUBSET s : t # s => t \in Good) => s \in Good
  BY <1>7
<1>9. cluster \in Good
  <2>1. SUBSET cluster \subseteq Good
    BY <1>8, SubsetInduction, ZenonT(40)
  <2> QED
    BY <2>1
<1>10. Index!Ivf!MapThenSumSet(LAMBDA id : vectors[id], cluster) \in Int
  BY <1>6, <1>9 DEF Good
<1>11. Cardinality(cluster) \in Nat /\ Cardinality(cluster) # 0
  BY FS_CardinalityType, FS_EmptySet
<1>12. Index!Ivf!Cardinality(cluster) = Cardinality(cluster)
  BY DEF Index!Ivf!Cardinality, Cardinality
<1> DEFINE total == Index!Ivf!MapThenSumSet(LAMBDA id : vectors[id], cluster)
<1>13. Index!Ivf!ComputeCentroid(cluster, vectors) = total \div Cardinality(cluster)
  BY <1>12 DEF Index!Ivf!ComputeCentroid
<1> HIDE DEF total
<1> QED
  BY <1>10, <1>11, <1>13 DEF total

\* A cluster's vectors are points, so its centroid is an integer.
LEMMA IterateOK ==
    ASSUME NEW centroids \in Clusters, NEW vectors \in Partial(Points)
    PROVE  Index!Ivf!Iterate(centroids, vectors) \in Clusters
<1> DEFINE of(c) == Index!Ivf!Members(centroids, c, vectors)
           next(c) == IF of(c) = {} THEN centroids[c] ELSE Index!Ivf!ComputeCentroid(of(c), vectors)
<1>1. DOMAIN centroids = 1 .. NumClusters /\ \A c \in 1 .. NumClusters : centroids[c] \in Int
  BY DEF Clusters
<1>2. Index!Ivf!Iterate(centroids, vectors) = [c \in 1 .. NumClusters |-> next(c)]
  BY <1>1 DEF Index!Ivf!Iterate
<1>3. ASSUME NEW c \in 1 .. NumClusters PROVE next(c) \in Int
  <2>1. of(c) \subseteq DOMAIN vectors
    BY DEF Index!Ivf!Members
  <2> HIDE DEF of
  <2>2. DOMAIN vectors \subseteq Ids /\ \A id \in DOMAIN vectors : vectors[id] \in Points
    BY PartialFacts
  <2>3. IsFiniteSet(of(c))
    BY <2>1, <2>2, FS_Subset, ConstantsAssumption
  <2>4. \A id \in of(c) : vectors[id] \in Int
    BY <2>1, <2>2, PointFacts
  <2>5. of(c) # {} => Index!Ivf!ComputeCentroid(of(c), vectors) \in Int
    BY <2>3, <2>4, MeanFacts
  <2> QED
    BY <1>1, <2>5
<1> HIDE DEF next
<1> QED
  BY <1>2, <1>3 DEF Clusters

\* The rounds of k-means keep a centroid for each cluster.
LEMMA KMeansOK ==
    ASSUME NEW initial \in Clusters, NEW vectors \in Partial(Points)
    PROVE  Index!Ivf!KMeans(initial, vectors) \subseteq Clusters
<1> DEFINE n == MaxIterations
           T == Clusters
           next(c) == Index!Ivf!Iterate(c, vectors)
           step == [x \in (1 .. n) \X T |-> next(x[2])]
           Rounds(f) == f = [i \in 0 .. n |-> IF i = 0 THEN initial ELSE next(f[i - 1])]
           after == CHOOSE f : Rounds(f)
<1>1. n \in Nat /\ initial \in T
  BY ConstantsAssumption
<1>2. \A c \in T : next(c) \in T
  BY IterateOK
<1>3. Index!Ivf!KMeans(initial, vectors) =
        {after[i] : i \in 1 .. n} \union IF n = 0 THEN {initial} ELSE {}
  BY DEF Index!Ivf!KMeans
<1> HIDE DEF n, T, next, after
<1>4. \E f \in [0 .. n -> T] : Rounds(f)
  <2>1. step \in [(1 .. n) \X T -> T]
    BY <1>2
  <2>2. \A i \in 1 .. n, c \in T : step[<<i, c>>] = next(c)
    OBVIOUS
  <2> HIDE DEF step
  <2>3. PICK f : Iterates(f, n, T, initial, step)
    BY <1>1, <2>1, StepsExist
  <2>4. \A i \in 1 .. n : i - 1 \in 0 .. n
    BY <1>1
  <2>5. \A i \in 1 .. n : f[i] = next(f[i - 1])
    BY <2>2, <2>3, <2>4 DEF Iterates
  <2>6. \A i \in 0 .. n : i = 0 \/ i \in 1 .. n
    BY <1>1
  <2> QED
    BY <2>3, <2>5, <2>6 DEF Iterates
<1>5. Rounds(after)
  BY <1>4 DEF after
<1> DEFINE Good == {i \in 0 .. n : after[i] \in T}
<1>6. 0 \in Good /\ \A i \in 1 .. n : i - 1 \in Good => i \in Good
  <2>1. after[0] = initial /\ \A i \in 1 .. n : after[i] = next(after[i - 1])
    BY <1>1, <1>5
  <2>2. 0 \in 0 .. n /\ \A i \in 1 .. n : i \in 0 .. n
    BY <1>1
  <2> QED
    BY <1>1, <1>2, <2>1, <2>2
<1> HIDE DEF Good
<1>7. 0 .. n \subseteq Good
  BY <1>1, <1>6, IntervalInduction
<1>8. \A i \in 1 .. n : after[i] \in T
  BY <1>1, <1>7 DEF Good
<1> QED
  BY <1>1, <1>3, <1>8 DEF T

Filed(x) == UNION {x.lists[c] : c \in DOMAIN x.lists}

IvfFields == {"kind", "centroids", "lists", "clusterOf", "pending"}
IvfOK(x) ==
    /\ DOMAIN x = IvfFields
    /\ x.centroids = <<>> \/ (x.centroids \in Clusters /\ x.pending = {})
    /\ DOMAIN x.lists = DOMAIN x.centroids
    /\ \A c \in DOMAIN x.lists : \A id \in x.lists[c] :
        id \in DOMAIN x.clusterOf /\ x.clusterOf[id] = c
    /\ NumClusters # 0 => \A id \in DOMAIN x.clusterOf :
        x.clusterOf[id] \in DOMAIN x.lists /\ id \in x.lists[x.clusterOf[id]]

\* Clustering takes the ids of the reader and no others.
LEMMA BuildClustersOK ==
    ASSUME NEW x, DOMAIN x = IvfFields, NEW vectors \in Partial(Points),
           Cardinality(DOMAIN vectors) >= NumClusters, NEW y \in Index!Ivf!BuildClusters(x, vectors)
    PROVE  /\ IvfOK(y) /\ y.kind = x.kind /\ y.pending = {} /\ Filed(y) \subseteq DOMAIN vectors
           /\ NumClusters # 0 => Filed(y) = DOMAIN vectors
<1> DEFINE N == NumClusters
           near(cs, id) == Index!Ivf!FindNearestCentroid(cs, vectors[id])
<1>1. N \in Nat /\ Cardinality(DOMAIN vectors) \in Nat
  BY ConstantsAssumption, PartialFacts, FS_Subset, FS_CardinalityType
<1>2. DOMAIN vectors \subseteq Ids /\ \A id \in DOMAIN vectors : vectors[id] \in Int
  BY PartialFacts, PointFacts
<1>3. Index!Ivf!Min({NumClusters, Index!Ivf!Cardinality(DOMAIN vectors)}) = N
  <2>1. Index!Ivf!Cardinality(DOMAIN vectors) = Cardinality(DOMAIN vectors)
    BY DEF Index!Ivf!Cardinality, Cardinality
  <2> HIDE DEF N
  <2> QED
    BY <1>1, <2>1 DEF Index!Ivf!Min, N
<1>4. ASSUME NEW initial \in Index!Ivf!InitialCentroids(vectors) PROVE initial \in Clusters
  <2>1. PICK first \in [1 .. N -> DOMAIN vectors] : initial = [c \in 1 .. N |-> vectors[first[c]]]
    BY <1>3 DEF Index!Ivf!InitialCentroids
  <2> QED
    BY <1>2, <2>1 DEF Clusters
<1>5. PICK cs \in UNION {Index!Ivf!KMeans(initial, vectors) :
                            initial \in Index!Ivf!InitialCentroids(vectors)} :
        y = Index!Ivf!Clustered(x, cs, vectors)
  BY DEF Index!Ivf!BuildClusters
<1>6. cs \in Clusters
  <2>1. PICK initial \in Index!Ivf!InitialCentroids(vectors) : cs \in Index!Ivf!KMeans(initial, vectors)
    BY <1>5
  <2> QED
    BY <1>4, <2>1, KMeansOK
<1>7. DOMAIN cs = 1 .. N
  BY <1>6 DEF Clusters
<1>8. /\ DOMAIN y = IvfFields /\ y.kind = x.kind /\ y.centroids = cs /\ y.pending = {}
      /\ y.lists = [c \in 1 .. N |-> {id \in DOMAIN vectors : near(cs, id) = c}]
      /\ y.clusterOf = [id \in DOMAIN vectors |-> near(cs, id)]
  BY <1>5, <1>7 DEF Index!Ivf!Clustered, Index!Ivf!Members, IvfFields
<1>9. N # 0 => \A id \in DOMAIN vectors : near(cs, id) \in 1 .. N
  BY <1>2, <1>6, NearestFacts
<1> HIDE DEF near, N
<1>10. DOMAIN y.lists = 1 .. N /\ DOMAIN y.clusterOf = DOMAIN vectors
  BY <1>8
<1>11. /\ \A c \in 1 .. N : y.lists[c] = {id \in DOMAIN vectors : near(cs, id) = c}
       /\ \A id \in DOMAIN vectors : y.clusterOf[id] = near(cs, id)
  BY <1>8
<1>12. IvfOK(y)
  BY <1>6, <1>7, <1>8, <1>9, <1>10, <1>11 DEF IvfOK, N
<1>13. Filed(y) \subseteq DOMAIN vectors
  BY <1>10, <1>11 DEF Filed
<1>14. N # 0 => DOMAIN vectors \subseteq Filed(y)
  BY <1>9, <1>10, <1>11 DEF Filed
<1> QED
  BY <1>8, <1>12, <1>13, <1>14 DEF N

\* The ids that the clusters and the waiting ids make up.
Held(x) == x.pending \union Filed(x)

\* There are clusters as soon as there are centroids.
LEMMA NoClusters == \A cs : (cs = <<>> => DOMAIN cs = {}) /\ (cs \in Clusters /\ cs # <<>> => NumClusters # 0)
<1>1. \A cs : cs = <<>> => DOMAIN cs = {}
  OBVIOUS
<1>2. ASSUME NEW cs \in Clusters, NumClusters = 0 PROVE cs = <<>>
  <2>1. cs = [i \in 1 .. 0 |-> cs[i]] /\ 1 .. 0 = {}
    BY <1>2 DEF Clusters
  <2> QED
    BY <2>1
<1> QED
  BY <1>1, <1>2

\* An insertion adds the id, and clusters what the reader has; unless there are
\* no clusters it loses no id that the reader has.
LEMMA IvfInsertOK ==
    ASSUME NEW x, IvfOK(x), NEW id \in Ids, NEW vectors \in Partial(Points), id \in DOMAIN vectors,
           NEW y \in Index!Ivf!Insert(x, id, vectors)
    PROVE  /\ IvfOK(y) /\ y.kind = x.kind
           /\ Held(y) \subseteq Held(x) \union {id} \union DOMAIN vectors
           /\ x.pending \subseteq DOMAIN vectors =>
                /\ y.pending \subseteq DOMAIN vectors
                /\ NumClusters # 0 => Held(x) \union {id} \subseteq Held(y)
<1> DEFINE waiting == [x EXCEPT !.pending = @ \union {id}]
           c == Index!Ivf!FindNearestCentroid(x.centroids, vectors[id])
           joined == [x EXCEPT !.lists[c] = @ \union {id},
                               !.clusterOf = [i \in DOMAIN @ \union {id} |-> IF i = id THEN c ELSE @[i]]]
           known == id \in DOMAIN x.clusterOf \union x.pending
<1>1. /\ known => y = x
      /\ ~known /\ x.centroids = <<>> =>
            IF Cardinality(DOMAIN vectors) >= NumClusters
            THEN y \in Index!Ivf!BuildClusters(waiting, vectors) ELSE y = waiting
      /\ ~known /\ x.centroids # <<>> => y = joined
  <2> HIDE DEF waiting, joined
  <2> QED
    BY DEF Index!Ivf!Insert, Index!Ivf!Cardinality, Cardinality, waiting, joined
<1> HIDE DEF known
<1>2. CASE known
  <2>1. NumClusters # 0 => id \in Held(x)
    BY <1>2 DEF known, IvfOK, Held, Filed
  <2> QED
    BY <1>1, <1>2, <2>1
<1>3. CASE ~known /\ x.centroids = <<>>
  <2>1. DOMAIN x.lists = {} /\ Filed(x) = {} /\ Held(x) = x.pending
    BY <1>3, NoClusters DEF IvfOK, Filed, Held
  <2>2. /\ DOMAIN waiting = IvfFields /\ waiting.kind = x.kind /\ waiting.centroids = x.centroids
        /\ waiting.lists = x.lists /\ waiting.clusterOf = x.clusterOf
        /\ waiting.pending = x.pending \union {id}
    BY DEF IvfOK, IvfFields
  <2> HIDE DEF waiting
  <2>3. IvfOK(waiting) /\ Held(waiting) = x.pending \union {id}
    BY <1>3, <2>1, <2>2 DEF IvfOK, Held, Filed
  <2>4. CASE y = waiting
    BY <2>1, <2>2, <2>3, <2>4
  <2>5. CASE Cardinality(DOMAIN vectors) >= NumClusters /\ y \in Index!Ivf!BuildClusters(waiting, vectors)
    <3>1. /\ IvfOK(y) /\ y.kind = waiting.kind /\ y.pending = {} /\ Filed(y) \subseteq DOMAIN vectors
          /\ NumClusters # 0 => Filed(y) = DOMAIN vectors
      BY <2>2, <2>5, BuildClustersOK
    <3> QED
      BY <2>1, <2>2, <3>1 DEF Held
  <2> QED
    BY <1>1, <1>3, <2>4, <2>5
<1>4. CASE ~known /\ x.centroids # <<>>
  <2>1. /\ x.centroids \in Clusters /\ x.pending = {} /\ NumClusters # 0
        /\ DOMAIN x.lists = 1 .. NumClusters
    BY <1>4, NoClusters DEF IvfOK, Clusters
  <2>2. c \in DOMAIN x.lists
    BY <2>1, PartialFacts, PointFacts, NearestFacts
  <2> HIDE DEF c
  <2>3. /\ DOMAIN joined = IvfFields /\ joined.kind = x.kind /\ joined.centroids = x.centroids
        /\ joined.pending = x.pending
        /\ joined.lists = [x.lists EXCEPT ![c] = @ \union {id}]
        /\ joined.clusterOf = [i \in DOMAIN x.clusterOf \union {id} |-> IF i = id THEN c ELSE x.clusterOf[i]]
    BY DEF IvfOK, IvfFields
  <2> HIDE DEF joined
  <2>4. /\ DOMAIN joined.lists = DOMAIN x.lists /\ joined.lists[c] = x.lists[c] \union {id}
        /\ \A d \in DOMAIN x.lists : d # c => joined.lists[d] = x.lists[d]
        /\ DOMAIN joined.clusterOf = DOMAIN x.clusterOf \union {id} /\ joined.clusterOf[id] = c
        /\ \A i \in DOMAIN x.clusterOf : i # id => joined.clusterOf[i] = x.clusterOf[i]
    BY <2>2, <2>3
  <2>5. id \notin DOMAIN x.clusterOf
    BY <1>4 DEF known
  <2>6. IvfOK(joined)
    <3>1. \A d \in DOMAIN joined.lists : \A i \in joined.lists[d] :
            i \in DOMAIN joined.clusterOf /\ joined.clusterOf[i] = d
      BY <2>4, <2>5 DEF IvfOK
    <3>2. \A i \in DOMAIN joined.clusterOf :
            joined.clusterOf[i] \in DOMAIN joined.lists /\ i \in joined.lists[joined.clusterOf[i]]
      BY <2>1, <2>2, <2>4, <2>5 DEF IvfOK
    <3> QED
      BY <2>1, <2>3, <2>4, <3>1, <3>2 DEF IvfOK
  <2>7. Held(joined) = Held(x) \union {id}
    BY <2>2, <2>3, <2>4 DEF Held, Filed
  <2> QED
    BY <1>1, <1>4, <2>1, <2>3, <2>6, <2>7
<1> QED
  BY <1>2, <1>3, <1>4

\* A removal drops the id from its cluster or from those waiting.
LEMMA IvfRemoveOK ==
    ASSUME NEW x, IvfOK(x), NEW id
    PROVE  LET y == Index!Ivf!Remove(x, id)
           IN  /\ IvfOK(y) /\ y.kind = x.kind /\ y.pending = x.pending \ {id}
               /\ Held(y) = Held(x) \ {id}
<1> DEFINE y == Index!Ivf!Remove(x, id)
<1>1. /\ DOMAIN y = IvfFields /\ y.kind = x.kind /\ y.centroids = x.centroids
      /\ y.pending = x.pending \ {id}
      /\ y.clusterOf = [i \in DOMAIN x.clusterOf \ {id} |-> x.clusterOf[i]]
      /\ y.lists = [c \in DOMAIN x.lists |->
                      IF id \in DOMAIN x.clusterOf /\ x.clusterOf[id] = c
                      THEN x.lists[c] \ {id} ELSE x.lists[c]]
  BY DEF Index!Ivf!Remove, IvfOK, IvfFields
<1> HIDE DEF y
<1>2. /\ DOMAIN y.lists = DOMAIN x.lists /\ DOMAIN y.clusterOf = DOMAIN x.clusterOf \ {id}
      /\ \A i \in DOMAIN y.clusterOf : y.clusterOf[i] = x.clusterOf[i]
  BY <1>1
<1>3. ASSUME NEW c \in DOMAIN x.lists PROVE y.lists[c] = x.lists[c] \ {id}
  BY <1>1 DEF IvfOK
<1>4. IvfOK(y)
  BY <1>1, <1>2, <1>3 DEF IvfOK
<1>5. Held(y) = Held(x) \ {id}
  BY <1>1, <1>2, <1>3 DEF Held, Filed
<1> QED
  BY <1>1, <1>4, <1>5 DEF y

\* An empty IVF index.
LEMMA NewIvfOK ==
    LET x == Index!Ivf!New
    IN  IvfOK(x) /\ x.kind = "Ivf" /\ x.pending = {} /\ Held(x) = {}
<1> DEFINE x == Index!Ivf!New
<1>1. /\ DOMAIN x = IvfFields /\ x.kind = "Ivf" /\ x.centroids = <<>> /\ x.lists = <<>>
      /\ x.clusterOf = <<>> /\ x.pending = {}
  BY DEF Index!Ivf!New, IvfFields
<1> HIDE DEF x
<1>2. DOMAIN x.lists = {} /\ DOMAIN x.centroids = {} /\ DOMAIN x.clusterOf = {}
  BY <1>1, NoClusters
<1> QED
  BY <1>1, <1>2 DEF IvfOK, Held, Filed, x

-----------------------------------------------------------------------------
(* Walks through the graph.  Whatever the links are, a walk keeps to the   *)
(* nodes that it may visit.                                                *)

Kinds == {"Flat", "Ivf", "Hnsw"}
GraphFields == {"kind", "nodes", "maxLevel", "start"}
Live(x) == Index!Hnsw!LiveNodes(x)
Levels(node) == DOMAIN node.connections

\* A node has the layers up to the one that was drawn for it, and a list of
\* neighbours on each.
NodeOK(node) ==
    /\ DOMAIN node = {"connections", "tombstone"} /\ node.tombstone \in BOOLEAN
    /\ \E layer \in 0 .. MaxLayer : Levels(node) = 0 .. layer
    /\ \A level \in Levels(node) : IsSeq(node.connections[level])

GraphOK(x) ==
    /\ DOMAIN x = GraphFields
    /\ DOMAIN x.nodes \subseteq Ids /\ \A id \in DOMAIN x.nodes : NodeOK(x.nodes[id])
    /\ x.maxLevel \in Int
    /\ x.start = None => Live(x) = {}
    /\ x.start # None => x.start \in Live(x) /\ x.maxLevel >= 0
    /\ \A id \in Live(x) : \A level \in Levels(x.nodes[id]) : level <= x.maxLevel

\* The layers a new node may get.
LEMMA LayerFacts ==
    /\ MaxLayer \in Nat /\ Index!Hnsw!RandomLayers = 0 .. MaxLayer
    /\ \A layer \in 0 .. MaxLayer : layer \in Int /\ layer >= 0
BY ConstantsAssumption DEF Index!Hnsw!RandomLayers

\* Live, with its definition expanded.
LEMMA LiveIn == ASSUME NEW x PROVE Live(x) = {id \in DOMAIN x.nodes : ~x.nodes[id].tombstone}
BY DEF Live, Index!Hnsw!LiveNodes

\* A node is on every layer up to its topmost one.
LEMMA NodeLevels ==
    ASSUME NEW node, NodeOK(node), NEW level \in Levels(node)
    PROVE  level \in 0 .. MaxLayer /\ 0 .. level \subseteq Levels(node)
<1>1. PICK layer \in 0 .. MaxLayer : Levels(node) = 0 .. layer
  BY DEF NodeOK
<1> QED
  BY <1>1, LayerFacts

\* What a walk may come across: nodes of D, and all neighbours of all nodes.
Linked(x) ==
    UNION {UNION {Listed(x.nodes[n].connections[level]) : level \in Levels(x.nodes[n])} :
              n \in DOMAIN x.nodes}
Walks(x, D) == [candidates : SUBSET (D \union Linked(x)), visited : SUBSET (D \union Linked(x)),
                nearest : SUBSET D]

\* Neighbours are a list of nodes that a walk may come across.
LEMMA NeighborsFacts ==
    ASSUME NEW x, GraphOK(x), NEW id, NEW level
    PROVE  LET s == Index!Hnsw!NeighborsAt(x, id, level)
           IN  IsSeq(s) /\ Listed(s) \subseteq Linked(x)
<1> DEFINE s == Index!Hnsw!NeighborsAt(x, id, level)
<1>1. CASE id \in DOMAIN x.nodes /\ level \in DOMAIN x.nodes[id].connections
  <2>1. s = x.nodes[id].connections[level] /\ level \in Levels(x.nodes[id])
    BY <1>1 DEF Index!Hnsw!NeighborsAt, Levels
  <2> HIDE DEF s
  <2>2. IsSeq(s)
    BY <1>1, <2>1 DEF GraphOK, NodeOK
  <2>3. Listed(s) \subseteq Linked(x)
    BY <1>1, <2>1 DEF Linked
  <2> QED
    BY <2>2, <2>3 DEF s
<1>2. CASE ~(id \in DOMAIN x.nodes /\ level \in DOMAIN x.nodes[id].connections)
  <2>1. s = <<>>
    BY <1>2 DEF Index!Hnsw!NeighborsAt
  <2>2. <<>> = [i \in 1 .. 0 |-> <<>>[i]] /\ Listed(<<>>) = {} /\ 0 \in Nat
    BY DEF Listed
  <2> HIDE DEF s
  <2> QED
    BY <2>1, <2>2 DEF IsSeq, s
<1> QED
  BY <1>1, <1>2

\* One neighbour is looked at.
LEMMA VisitOK ==
    ASSUME NEW x, NEW dist, NEW numClosest, NEW walk \in Walks(x, DOMAIN dist),
           NEW id \in DOMAIN dist \union Linked(x)
    PROVE  Index!Hnsw!Visit(x, dist, numClosest, walk, id) \in Walks(x, DOMAIN dist)
<1> DEFINE D == DOMAIN dist
           more == walk.nearest \union {id}
           top == Index!Hnsw!Top(more, dist)
           seen == [walk EXCEPT !.visited = @ \union {id}]
           further == [seen EXCEPT !.candidates = @ \union {id},
                                   !.nearest = IF Index!Hnsw!IsTombstone(x, id) THEN @
                                               ELSE IF Index!Hnsw!Cardinality(more) > numClosest
                                               THEN more \ {top} ELSE more]
<1>1. \/ Index!Hnsw!Visit(x, dist, numClosest, walk, id) \in {walk, seen}
      \/ id \in D /\ Index!Hnsw!Visit(x, dist, numClosest, walk, id) = further
  BY DEF Index!Hnsw!Visit
<1>2. seen \in Walks(x, D)
  BY DEF Walks
<1>3. id \in D => further \in Walks(x, D)
  <2> HIDE DEF top
  <2> QED
    BY DEF Walks
<1> QED
  BY <1>1, <1>2, <1>3

\* All neighbours of the best candidate are looked at.
LEMMA ExploreOK ==
    ASSUME NEW x, GraphOK(x), NEW dist, NEW numClosest, NEW level, NEW walk \in Walks(x, DOMAIN dist)
    PROVE  Index!Hnsw!Explore(x, dist, numClosest, level, walk) \in Walks(x, DOMAIN dist)
<1> DEFINE T == Walks(x, DOMAIN dist)
           candidate == Index!Hnsw!Top(walk.candidates, dist)
           rest == [walk EXCEPT !.candidates = @ \ {candidate}]
           seq == Index!Hnsw!NeighborsAt(x, candidate, level)
           S == DOMAIN seq
           next(i, w) == Index!Hnsw!Visit(x, dist, numClosest, w, seq[i])
           greatest(s) == CHOOSE i \in s : \A j \in s : i >= j
           Visits(f) == f = [s \in SUBSET S |->
                                IF s = {} THEN rest
                                ELSE next(greatest(s), f[s \ {greatest(s)}])]
           all == CHOOSE f : Visits(f)
<1>1. Index!Hnsw!Explore(x, dist, numClosest, level, walk) \in {walk, all[S]}
  BY DEF Index!Hnsw!Explore, Index!Hnsw!Seqs!FoldLeft, Index!Hnsw!Seqs!MapThenFoldSet,
         Index!Hnsw!Seqs!Max
<1>2. rest \in T
  <2> HIDE DEF candidate
  <2> QED
    BY DEF Walks
<1>3. IsSeq(seq) /\ Listed(seq) \subseteq Linked(x)
  BY NeighborsFacts
<1> HIDE DEF candidate, rest, seq, all
<1>4. PICK n \in Nat : S = 1 .. n
  BY <1>3 DEF IsSeq
<1>5. \A i \in S, w \in T : next(i, w) \in T
  BY <1>3, VisitOK DEF Listed
<1> HIDE DEF next, T, S
<1>6. IsFiniteSet(S) /\ S \subseteq Int
  BY <1>4, FS_Interval
<1>7. \A s \in SUBSET S : s # {} => greatest(s) \in s
  <2>1. SUFFICES ASSUME NEW s \in SUBSET S, s # {} PROVE greatest(s) \in s
    OBVIOUS
  <2>2. s \subseteq Int /\ IsFiniteSet(s)
    BY <1>6, FS_Subset
  <2>3. PICK i \in s : \A j \in s : j <= i
    BY <2>1, <2>2, GreatestNumber
  <2>4. \A j \in s : i >= j
    BY <2>2, <2>3
  <2> QED
    BY <2>4
<1> HIDE DEF greatest
<1>8. \E f : Visits(f)
  <2> DEFINE pick == [s \in SUBSET S |-> greatest(s)]
             step == [y \in S \X T |-> next(y[1], y[2])]
  <2>1. Picks(pick, S) /\ \A s \in SUBSET S : pick[s] = greatest(s)
    BY <1>7 DEF Picks
  <2>2. step \in [S \X T -> T]
    BY <1>5
  <2>3. \A i \in S, w \in T : step[<<i, w>>] = next(i, w)
    OBVIOUS
  <2> HIDE DEF pick, step
  <2>4. PICK f : Folds(f, S, T, rest, pick, step)
    BY <1>2, <1>6, <2>1, <2>2, FoldExists
  <2>5. ASSUME NEW s \in SUBSET S, s # {}
        PROVE  f[s] = next(greatest(s), f[s \ {greatest(s)}])
    <3>1. greatest(s) \in S /\ s \ {greatest(s)} \in SUBSET S
      BY <1>7, <2>5
    <3>2. f[s \ {greatest(s)}] \in T
      BY <2>4, <3>1 DEF Folds
    <3>3. f[s] = step[<<greatest(s), f[s \ {greatest(s)}]>>]
      BY <2>1, <2>4, <2>5 DEF Folds
    <3> QED
      BY <2>3, <3>1, <3>2, <3>3
  <2>6. f[{}] = rest /\ f = [s \in SUBSET S |-> f[s]]
    BY <2>4 DEF Folds
  <2>7. Visits(f)
    BY <2>5, <2>6
  <2> HIDE DEF Visits
  <2> QED
    BY <2>7
<1>9. Visits(all)
  BY <1>8 DEF all
<1> DEFINE Good == {s \in SUBSET S : all[s] \in T}
<1>10. ASSUME NEW s \in SUBSET S, \A t \in SUBSET s : t # s => t \in Good
       PROVE  s \in Good
  <2>1. CASE s = {}
    BY <1>2, <1>9, <2>1
  <2>2. CASE s # {}
    <3>1. greatest(s) \in s
      BY <1>7, <2>2
    <3>2. s \ {greatest(s)} \in Good
      BY <1>10, <3>1
    <3>3. all[s] = next(greatest(s), all[s \ {greatest(s)}])
      BY <1>9, <2>2
    <3> QED
      BY <1>5, <3>1, <3>2, <3>3
  <2> QED
    BY <2>1, <2>2
<1> HIDE DEF Good
<1>11. \A s \in SUBSET S : (\A t \in SUBSET s : t # s => t \in Good) => s \in Good
  BY <1>10
<1>12. S \in Good
  <2>1. SUBSET S \subseteq Good
    BY <1>6, <1>11, SubsetInduction, ZenonT(40)
  <2> QED
    BY <2>1
<1> QED
  BY <1>1, <1>12 DEF Good, T

\* A walk through a layer gives nodes whose distance is known.
LEMMA SearchLayerOK ==
    ASSUME NEW x, GraphOK(x), NEW dist, IsFiniteSet(DOMAIN dist),
           NEW entries, NEW numClosest, NEW level
    PROVE  Index!Hnsw!SearchLayer(x, dist, entries, numClosest, level) \subseteq DOMAIN dist
<1> DEFINE n == Cardinality(DOMAIN dist)
           T == Walks(x, DOMAIN dist)
           entered == entries \intersect DOMAIN dist
           first == [candidates |-> entered, visited |-> entered,
                     nearest |-> {id \in entered : ~Index!Hnsw!IsTombstone(x, id)}]
           next(w) == Index!Hnsw!Explore(x, dist, numClosest, level, w)
           step == [y \in (1 .. n) \X T |-> next(y[2])]
           Rounds(f) == f = [i \in 0 .. n |-> IF i = 0 THEN first ELSE next(f[i - 1])]
           round == CHOOSE f : Rounds(f)
<1>1. Index!Hnsw!SearchLayer(x, dist, entries, numClosest, level) = round[n].nearest
  <2>1. Index!Hnsw!Cardinality(DOMAIN dist) = Cardinality(DOMAIN dist)
    BY DEF Index!Hnsw!Cardinality, Cardinality
  <2> QED
    BY <2>1 DEF Index!Hnsw!SearchLayer, Index!Hnsw!Walk
<1>2. n \in Nat
  BY FS_CardinalityType
<1>3. first \in T
  BY DEF Walks
<1>4. \A w \in T : next(w) \in T
  BY ExploreOK
<1> HIDE DEF n, T, first, next, round
<1>5. \E f : Rounds(f)
  <2>1. step \in [(1 .. n) \X T -> T] /\ \A i \in 1 .. n, w \in T : step[<<i, w>>] = next(w)
    BY <1>4
  <2> HIDE DEF step
  <2>2. PICK f : Iterates(f, n, T, first, step)
    BY <1>2, <1>3, <2>1, StepsExist
  <2>3. \A i \in 1 .. n : i - 1 \in 0 .. n
    BY <1>2
  <2>4. \A i \in 1 .. n : f[i] = next(f[i - 1])
    BY <2>1, <2>2, <2>3 DEF Iterates
  <2>5. \A i \in 0 .. n : i = 0 \/ i \in 1 .. n
    BY <1>2
  <2>6. Rounds(f)
    BY <2>2, <2>4, <2>5 DEF Iterates
  <2> HIDE DEF Rounds
  <2> QED
    BY <2>6
<1>6. Rounds(round)
  BY <1>5 DEF round
<1> DEFINE Good == {i \in 0 .. n : round[i] \in T}
<1>7. 0 \in Good /\ \A i \in 1 .. n : i - 1 \in Good => i \in Good
  <2>1. round[0] = first /\ \A i \in 1 .. n : round[i] = next(round[i - 1])
    BY <1>2, <1>6
  <2>2. 0 \in 0 .. n /\ \A i \in 1 .. n : i \in 0 .. n
    BY <1>2
  <2> QED
    BY <1>3, <1>4, <2>1, <2>2
<1> HIDE DEF Good
<1>8. 0 .. n \subseteq Good
  BY <1>2, <1>7, IntervalInduction
<1>9. round[n] \in T
  BY <1>2, <1>8 DEF Good
<1> QED
  BY <1>1, <1>9 DEF T, Walks

\* A descent finds, on every layer, nodes that it may visit.
LEMMA DescendOK ==
    ASSUME NEW x, GraphOK(x), NEW dist, IsFiniteSet(DOMAIN dist), NEW bottom, NEW ef, NEW top \in Nat
    PROVE  \A level \in 0 .. top : Index!Hnsw!Descend(x, dist, bottom, ef, top)[level] \subseteq DOMAIN dist
<1> DEFINE found == Index!Hnsw!Descend(x, dist, bottom, ef, top)
           n == top + 1
           T == SUBSET (DOMAIN dist \union {x.start})
           next(s, level) == Index!Hnsw!SearchLayer(x, dist, s, IF level > bottom THEN 1 ELSE ef, level)
           step == [y \in (1 .. n) \X T |-> next(y[2], n - y[1])]
           Layers(f) == f = [level \in 0 .. n |-> IF level = n THEN {x.start}
                                                  ELSE next(f[level + 1], level)]
<1>1. found = CHOOSE f : Layers(f)
  BY DEF Index!Hnsw!Descend
<1>2. n \in Nat /\ n = top + 1
  OBVIOUS
<1>3. \A s, level : next(s, level) \subseteq DOMAIN dist
  BY SearchLayerOK
<1>4. {x.start} \in T /\ \A s, level : next(s, level) \in T
  BY <1>3
<1> HIDE DEF found, n, T, next
<1>5. \E f : Layers(f)
  <2>1. step \in [(1 .. n) \X T -> T] /\ \A i \in 1 .. n, s \in T : step[<<i, s>>] = next(s, n - i)
    BY <1>4
  <2> HIDE DEF step
  <2>2. PICK g : Iterates(g, n, T, {x.start}, step)
    BY <1>2, <1>4, <2>1, StepsExist
  <2> DEFINE f == [level \in 0 .. n |-> g[n - level]]
  <2>3. f[n] = {x.start}
    <3>1. n \in 0 .. n /\ n - n = 0
      BY <1>2
    <3> QED
      BY <2>2, <3>1 DEF Iterates
  <2>4. ASSUME NEW level \in 0 .. n, level # n
        PROVE  f[level] = next(f[level + 1], level)
    <3>1. /\ n - level \in 1 .. n /\ level + 1 \in 0 .. n /\ n - level - 1 = n - (level + 1)
          /\ n - level - 1 \in 0 .. n /\ n - (n - level) = level
      BY <1>2, <2>4
    <3>2. g[n - level - 1] \in T
      BY <2>2, <3>1 DEF Iterates
    <3>3. g[n - level] = step[<<n - level, g[n - level - 1]>>]
      BY <2>2, <3>1 DEF Iterates
    <3>4. g[n - level] = next(g[n - level - 1], level)
      BY <2>1, <3>1, <3>2, <3>3
    <3> QED
      BY <3>1, <3>4
  <2>5. f = [level \in 0 .. n |-> f[level]]
    OBVIOUS
  <2> HIDE DEF f
  <2>6. Layers(f)
    BY <2>3, <2>4, <2>5
  <2> HIDE DEF Layers
  <2> QED
    BY <2>6
<1>6. Layers(found)
  BY <1>1, <1>5
<1>7. ASSUME NEW level \in 0 .. top PROVE found[level] \subseteq DOMAIN dist
  <2>1. level \in 0 .. n /\ level # n
    BY <1>2
  <2>2. found[level] = next(found[level + 1], level)
    BY <1>6, <2>1
  <2> QED
    BY <1>3, <2>2
<1> QED
  BY <1>7 DEF found

-----------------------------------------------------------------------------
(* Links stay lists.                                                       *)

\* What lists are.
LEMMA IsSeqFacts ==
    /\ \A s : IsSeq(s) => Len(s) \in Nat /\ s \in [1 .. Len(s) -> Listed(s)] /\ IsFiniteSet(DOMAIN s)
    /\ \A n \in Nat : \A s : s = [i \in 1 .. n |-> s[i]] => IsSeq(s)
    /\ IsSeq(<<>>)
<1>1. ASSUME NEW s, IsSeq(s)
      PROVE  Len(s) \in Nat /\ s \in [1 .. Len(s) -> Listed(s)] /\ IsFiniteSet(DOMAIN s)
  <2>1. PICK n \in Nat : s = [i \in 1 .. n |-> s[i]]
    BY <1>1 DEF IsSeq
  <2>2. s \in [1 .. n -> Listed(s)]
    BY <2>1 DEF Listed
  <2>3. s \in Seq(Listed(s)) /\ Len(s) = n /\ DOMAIN s = 1 .. n
    BY <2>2
  <2> QED
    BY <2>2, <2>3, FS_Interval
<1>2. \A n \in Nat : \A s : s = [i \in 1 .. n |-> s[i]] => IsSeq(s)
  BY DEF IsSeq
<1>3. IsSeq(<<>>)
  <2>1. 0 \in Nat /\ <<>> = [i \in 1 .. 0 |-> <<>>[i]]
    OBVIOUS
  <2> QED
    BY <2>1 DEF IsSeq
<1> QED
  BY <1>1, <1>2, <1>3

\* Every module cuts lists in the same way.
LEMMA TruncateIs ==
    ASSUME NEW s, NEW k
    PROVE  /\ Rank!Truncate(s, k) = First(s, k) /\ Index!Hnsw!Truncate(s, k) = First(s, k)
           /\ Index!Ivf!Truncate(s, k) = First(s, k) /\ Index!Flat!Truncate(s, k) = First(s, k)
BY DEF Rank!Truncate, Index!Hnsw!Truncate, Index!Ivf!Truncate, Index!Flat!Truncate, First

\* The selected neighbours are a list.
LEMMA SelectNeighborsOK ==
    ASSUME NEW x, NEW candidates, IsSeq(candidates), NEW m \in Nat, NEW dist
    PROVE  IsSeq(Index!Hnsw!SelectNeighbors(x, candidates, m, dist))
<1> DEFINE usable == {i \in DOMAIN candidates : /\ ~Index!Hnsw!IsTombstone(x, candidates[i])
                                               /\ candidates[i] \in DOMAIN dist}
           before(i, j) == \/ dist[candidates[i]] < dist[candidates[j]]
                           \/ dist[candidates[i]] = dist[candidates[j]] /\ i < j
           n == Index!Hnsw!Cardinality(usable)
           place(r) == candidates[CHOOSE i \in usable :
                           Index!Hnsw!Cardinality({j \in usable : before(j, i)}) = r - 1]
           sorted == [r \in 1 .. n |-> place(r)]
<1>1. Index!Hnsw!SelectNeighbors(x, candidates, m, dist) \in {candidates, Index!Hnsw!Truncate(sorted, m)}
  BY DEF Index!Hnsw!SelectNeighbors
<1>2. n \in Nat
  <2>1. IsFiniteSet(DOMAIN candidates) /\ usable \subseteq DOMAIN candidates
    BY IsSeqFacts
  <2> HIDE DEF usable
  <2>2. IsFiniteSet(usable) /\ Cardinality(usable) \in Nat
    BY <2>1, FS_Subset, FS_CardinalityType
  <2> QED
    BY <2>2 DEF Index!Hnsw!Cardinality, Cardinality
<1> HIDE DEF n, place
<1>3. sorted = [r \in 1 .. n |-> sorted[r]]
  OBVIOUS
<1> DEFINE S == Listed(sorted)
<1>4. sorted \in [1 .. n -> S]
  BY DEF Listed
<1> HIDE DEF sorted, S
<1>5. PICK k \in Nat : First(sorted, m) \in [1 .. k -> S]
  BY <1>2, <1>4, FirstFacts
<1>6. IsSeq(First(sorted, m))
  BY <1>5, IsSeqFacts
<1> QED
  BY <1>1, <1>6, TruncateIs

\* Every module ranks in the same way.
LEMMA ByScoreIs ==
    ASSUME NEW S, NEW score
    PROVE  /\ Rank!ByScore(S, score) = Ranked(S, score) /\ Index!Hnsw!ByScore(S, score) = Ranked(S, score)
           /\ Index!Ivf!ByScore(S, score) = Ranked(S, score) /\ Index!Flat!ByScore(S, score) = Ranked(S, score)
<1>1. /\ Rank!Cardinality(S) = Cardinality(S) /\ Index!Hnsw!Cardinality(S) = Cardinality(S)
      /\ Index!Ivf!Cardinality(S) = Cardinality(S) /\ Index!Flat!Cardinality(S) = Cardinality(S)
  BY DEF Rank!Cardinality, Index!Hnsw!Cardinality, Index!Ivf!Cardinality, Index!Flat!Cardinality, Cardinality
<1>2. Rank!ByScore(S, score) = Ranked(S, score)
  BY <1>1 DEF Rank!ByScore, Rank!Cardinality, Cardinality, Ranked, Better
<1>3. Index!Hnsw!ByScore(S, score) = Ranked(S, score)
  BY <1>1 DEF Index!Hnsw!ByScore, Index!Hnsw!Cardinality, Cardinality, Ranked, Better
<1>4. Index!Ivf!ByScore(S, score) = Ranked(S, score)
  BY <1>1 DEF Index!Ivf!ByScore, Index!Ivf!Cardinality, Cardinality, Ranked, Better
<1>5. Index!Flat!ByScore(S, score) = Ranked(S, score)
  BY <1>1 DEF Index!Flat!ByScore, Index!Flat!Cardinality, Cardinality, Ranked, Better
<1> QED
  BY <1>2, <1>3, <1>4, <1>5

\* A ranking by distance is a list.
LEMMA AscendingIsSeq ==
    ASSUME NEW S, IsFiniteSet(S), NEW dist
    PROVE  IsSeq(Index!Hnsw!Ascending(S, dist))
<1> DEFINE score == [id \in S |-> -dist[id]]
           s == Ranked(S, score)
<1>1. Index!Hnsw!Ascending(S, dist) = s
  <2>1. Index!Hnsw!Ascending(S, dist) = Index!Hnsw!ByScore(S, score)
    BY DEF Index!Hnsw!Ascending
  <2> HIDE DEF score
  <2> QED
    BY <2>1, ByScoreIs
<1>2. s = [i \in 1 .. Cardinality(S) |-> s[i]] /\ Cardinality(S) \in Nat
  BY FS_CardinalityType DEF Ranked
<1> HIDE DEF s
<1> QED
  BY <1>1, <1>2, IsSeqFacts

\* How many neighbours a node may have.
LEMMA CapacityFacts == \A level : Index!Hnsw!Capacity(level) \in Nat
BY ConstantsAssumption DEF Index!Hnsw!Capacity

\* A link back to a new node, pruned if there are too many.
LEMMA BackEdgeOK ==
    ASSUME NEW x, NEW n, NEW level, IsSeq(x.nodes[n].connections[level]), NEW id, NEW vectors
    PROVE  IsSeq(Index!Hnsw!WithBackEdge(x, n, level, id, vectors))
<1> DEFINE s == x.nodes[n].connections[level]
           edges == Append(s, id)
           most == Index!Hnsw!Capacity(level)
           dist == Index!Hnsw!Distances(vectors[n], vectors)
<1>1. Index!Hnsw!WithBackEdge(x, n, level, id, vectors) \in
        {edges, Index!Hnsw!SelectNeighbors(x, edges, most, dist)}
  BY DEF Index!Hnsw!WithBackEdge
<1>2. IsSeq(edges)
  <2>1. Len(s) \in Nat /\ s \in [1 .. Len(s) -> Listed(s)]
    BY IsSeqFacts
  <2> HIDE DEF s
  <2>2. s \in Seq(Listed(s) \union {id})
    BY <2>1
  <2>3. edges \in Seq(Listed(s) \union {id})
    BY <2>2
  <2> HIDE DEF edges
  <2>4. edges = [i \in 1 .. Len(edges) |-> edges[i]] /\ Len(edges) \in Nat
    BY <2>3
  <2> QED
    BY <2>4, IsSeqFacts
<1> HIDE DEF edges, most, dist
<1>3. most \in Nat
  BY CapacityFacts DEF most
<1>4. IsSeq(Index!Hnsw!SelectNeighbors(x, edges, most, dist))
  BY <1>2, <1>3, SelectNeighborsOK
<1> QED
  BY <1>1, <1>2, <1>4

\* The first live node is the one to enter by.
LEMMA FirstNodeOK ==
    ASSUME NEW x, GraphOK(x), x.kind = "Hnsw", x.start = None, NEW id \in Ids, NEW layer \in 0 .. MaxLayer
    PROVE  LET y == Index!Hnsw!FirstNode(x, id, layer)
           IN  GraphOK(y) /\ y.kind = "Hnsw" /\ Live(y) = Live(x) \union {id}
               /\ DOMAIN y.nodes = DOMAIN x.nodes \union {id}
<1> DEFINE y == Index!Hnsw!FirstNode(x, id, layer)
           node == [connections |-> [level \in 0 .. layer |-> <<>>], tombstone |-> FALSE]
<1>1. /\ DOMAIN y = GraphFields /\ y.kind = "Hnsw" /\ y.start = id /\ y.maxLevel = layer
      /\ y.nodes = [n \in DOMAIN x.nodes \union {id} |-> IF n = id THEN node ELSE x.nodes[n]]
  BY DEF Index!Hnsw!FirstNode, GraphOK, GraphFields
<1>2. NodeOK(node) /\ Levels(node) = 0 .. layer /\ ~node.tombstone
  <2>1. Levels(node) = 0 .. layer /\ \A level \in 0 .. layer : node.connections[level] = <<>>
    BY DEF Levels
  <2>2. \A level \in Levels(node) : IsSeq(node.connections[level])
    BY <2>1, IsSeqFacts
  <2> QED
    BY <2>1, <2>2 DEF NodeOK
<1> HIDE DEF y, node
<1>3. /\ DOMAIN y.nodes = DOMAIN x.nodes \union {id} /\ y.nodes[id] = node
      /\ \A n \in DOMAIN x.nodes : n # id => y.nodes[n] = x.nodes[n]
  BY <1>1
<1>4. Live(x) = {}
  BY DEF GraphOK
<1>5. Live(y) = {id}
  BY <1>2, <1>3, <1>4, LiveIn
<1>6. id # None
  BY ConstantsAssumption
<1>7. \A n \in DOMAIN y.nodes : NodeOK(y.nodes[n])
  BY <1>2, <1>3 DEF GraphOK
<1>8. \A level \in Levels(y.nodes[id]) : level <= y.maxLevel
  BY <1>1, <1>2, <1>3
<1>9. y.maxLevel \in Int /\ y.maxLevel >= 0
  BY <1>1, LayerFacts
<1>10. GraphOK(y)
  BY <1>1, <1>3, <1>5, <1>6, <1>7, <1>8, <1>9 DEF GraphOK
<1> QED
  BY <1>1, <1>3, <1>4, <1>5, <1>10 DEF y

\* A further node may be the new entry, and links only change what the layers
\* of the others hold.
LEMMA ConnectedOK ==
    ASSUME NEW x, GraphOK(x), x.kind = "Hnsw", x.start # None, NEW id \in Ids, NEW layer \in 0 .. MaxLayer,
           NEW vectors \in Partial(Points)
    PROVE  LET y == Index!Hnsw!Connected(x, id, layer, vectors)
           IN  GraphOK(y) /\ y.kind = "Hnsw" /\ Live(y) = Live(x) \union {id}
               /\ DOMAIN y.nodes = DOMAIN x.nodes \union {id}
<1> DEFINE y == Index!Hnsw!Connected(x, id, layer, vectors)
           top == IF x.maxLevel > layer THEN x.maxLevel ELSE layer
           dist == Index!Hnsw!Distances(vectors[id], vectors)
           found == Index!Hnsw!Descend(x, dist, layer, EfConstruction, top)
           edges == [level \in 0 .. layer |->
                        Index!Hnsw!SelectNeighbors(x, Index!Hnsw!Ascending(found[level], dist),
                                                   Index!Hnsw!Capacity(level), dist)]
<1>1. /\ DOMAIN y = GraphFields /\ y.kind = "Hnsw"
      /\ y.start = (IF layer > x.maxLevel THEN id ELSE x.start) /\ y.maxLevel = top
      /\ DOMAIN y.nodes = DOMAIN x.nodes \union {id}
      /\ DOMAIN y.nodes[id] = {"connections", "tombstone"}
      /\ Levels(y.nodes[id]) = 0 .. layer /\ y.nodes[id].tombstone = FALSE
      /\ y.nodes[id].connections = edges
  BY DEF Index!Hnsw!Connected, GraphOK, GraphFields, Levels
<1>2. ASSUME NEW n \in DOMAIN x.nodes, n # id
      PROVE  /\ DOMAIN y.nodes[n] = {"connections", "tombstone"}
             /\ Levels(y.nodes[n]) = Levels(x.nodes[n])
             /\ y.nodes[n].tombstone = x.nodes[n].tombstone
             /\ \A level \in Levels(x.nodes[n]) :
                    y.nodes[n].connections[level] \in
                        {x.nodes[n].connections[level],
                         Index!Hnsw!WithBackEdge(x, n, level, id, vectors)}
  <2>1. DOMAIN x.nodes[n] = {"connections", "tombstone"}
    BY DEF GraphOK, NodeOK
  <2> QED
    BY <1>2, <2>1 DEF Index!Hnsw!Connected, Levels, GraphOK, GraphFields
<1> HIDE DEF y
<1>20. top \in Nat /\ top >= 0 /\ layer <= top /\ x.maxLevel <= top
  BY LayerFacts DEF GraphOK
<1>21. \A level \in 0 .. layer : IsSeq(edges[level])
  <2>1. SUFFICES ASSUME NEW level \in 0 .. layer
                 PROVE  IsSeq(Index!Hnsw!SelectNeighbors(x, Index!Hnsw!Ascending(found[level], dist),
                                                         Index!Hnsw!Capacity(level), dist))
    OBVIOUS
  <2>2. DOMAIN dist = DOMAIN vectors /\ IsFiniteSet(DOMAIN dist)
    <3>1. DOMAIN dist = DOMAIN vectors
      BY DEF Index!Hnsw!Distances
    <3>2. IsFiniteSet(DOMAIN vectors)
      BY PartialFacts, FS_Subset, ConstantsAssumption
    <3> QED
      BY <3>1, <3>2
  <2>3. level \in 0 .. top
    <3> HIDE DEF top
    <3> QED
      BY <1>20, LayerFacts
  <2> HIDE DEF top, dist
  <2>4. found[level] \subseteq DOMAIN dist
    BY <1>20, <2>2, <2>3, DescendOK
  <2> HIDE DEF found
  <2>5. IsFiniteSet(found[level])
    BY <2>2, <2>4, FS_Subset
  <2> DEFINE ids == found[level]
             s == Index!Hnsw!Ascending(ids, dist)
             most == Index!Hnsw!Capacity(level)
  <2>6. IsSeq(s)
    <3> HIDE DEF ids
    <3> QED
      BY <2>5, AscendingIsSeq DEF ids
  <2>7. most \in Nat
    BY CapacityFacts
  <2> HIDE DEF s, most
  <2>8. IsSeq(Index!Hnsw!SelectNeighbors(x, s, most, dist))
    BY <2>6, <2>7, SelectNeighborsOK
  <2> QED
    BY <2>8 DEF s, most
<1> HIDE DEF edges, found, dist
<1>3. Live(y) = Live(x) \union {id}
  BY <1>1, <1>2, LiveIn
<1>4. id # None /\ x.start \in Live(x) /\ x.maxLevel >= 0 /\ x.maxLevel \in Int
  BY ConstantsAssumption DEF GraphOK
<1>5. \A n \in DOMAIN y.nodes : NodeOK(y.nodes[n])
  <2>1. NodeOK(y.nodes[id])
    BY <1>1, <1>21 DEF NodeOK
  <2>2. \A n \in DOMAIN x.nodes : n # id => NodeOK(y.nodes[n])
    <3>1. SUFFICES ASSUME NEW n \in DOMAIN x.nodes, n # id PROVE NodeOK(y.nodes[n])
      OBVIOUS
    <3>2. NodeOK(x.nodes[n])
      BY DEF GraphOK
    <3>3. ASSUME NEW level \in Levels(x.nodes[n]) PROVE IsSeq(y.nodes[n].connections[level])
      <4>1. IsSeq(x.nodes[n].connections[level])
        BY <3>2 DEF NodeOK
      <4>2. IsSeq(Index!Hnsw!WithBackEdge(x, n, level, id, vectors))
        BY <4>1, BackEdgeOK
      <4> QED
        BY <1>2, <3>1, <4>1, <4>2
    <3> QED
      BY <1>2, <3>1, <3>2, <3>3 DEF NodeOK
  <2> QED
    BY <1>1, <2>1, <2>2
<1>6. top \in Int /\ top >= 0 /\ layer <= top /\ x.maxLevel <= top
  BY <1>20
<1>7. \A n \in Live(y) : \A level \in Levels(y.nodes[n]) : level <= y.maxLevel
  <2>1. SUFFICES ASSUME NEW n \in Live(y), NEW level \in Levels(y.nodes[n])
                 PROVE  level <= top
    BY <1>1
  <2>2. CASE n = id
    <3>1. level \in 0 .. layer
      BY <1>1, <2>2
    <3> HIDE DEF top
    <3> QED
      BY <1>6, <3>1, LayerFacts
  <2>3. CASE n # id
    <3>1. n \in Live(x) /\ n \in DOMAIN x.nodes
      BY <1>3, <2>3, LiveIn
    <3>2. level \in Levels(x.nodes[n])
      BY <1>2, <2>3, <3>1
    <3>3. level <= x.maxLevel /\ level \in Int
      BY <3>1, <3>2, NodeLevels, LayerFacts DEF GraphOK
    <3> HIDE DEF top
    <3> QED
      BY <1>4, <1>6, <3>3
  <2> QED
    BY <2>2, <2>3
<1>8. y.start # None /\ y.start \in Live(y)
  <2>1. x.start # None
    OBVIOUS
  <2> QED
    BY <1>1, <1>3, <1>4, <2>1
<1> HIDE DEF top
<1>9. DOMAIN y.nodes \subseteq Ids
  BY <1>1 DEF GraphOK
<1>10. GraphOK(y)
  BY <1>1, <1>5, <1>6, <1>7, <1>8, <1>9 DEF GraphOK
<1> QED
  BY <1>1, <1>3, <1>10 DEF y

\* A new entry, if one is needed, is live, and counting the layers of the live
\* nodes finds the topmost, for a node has all layers below its own.
LEMMA RemoveNodeOK ==
    ASSUME NEW x, GraphOK(x), x.kind = "Hnsw", NEW id, NEW y \in Index!Hnsw!Remove(x, id)
    PROVE  GraphOK(y) /\ y.kind = "Hnsw" /\ Live(y) = Live(x) \ {id} /\ DOMAIN y.nodes = DOMAIN x.nodes
<1> DEFINE marked == [x EXCEPT !.nodes[id].tombstone = TRUE]
           live == Live(marked)
           levels == {level \in 0 .. MaxLayer :
                         \E n \in live : level \in Levels(x.nodes[n])}
           restarted(n) == [marked EXCEPT !.start = n, !.maxLevel = Cardinality(levels) - 1]
<1>1. y \in IF id \notin DOMAIN x.nodes THEN {x}
            ELSE IF x.start # id THEN {marked}
            ELSE IF live = {} THEN {restarted(None)}
            ELSE {restarted(n) : n \in live}
  BY LayerFacts, ZenonT(40) DEF Index!Hnsw!Remove, Live, Index!Hnsw!LiveNodes, Levels,
     Index!Hnsw!Cardinality, Cardinality
<1>2. CASE id \notin DOMAIN x.nodes
  <2>1. y = x
    BY <1>1, <1>2
  <2> QED
    BY <1>2, <2>1, LiveIn
<1>3. CASE id \in DOMAIN x.nodes
  <2>1. /\ DOMAIN marked = GraphFields /\ marked.kind = "Hnsw" /\ marked.start = x.start
        /\ marked.maxLevel = x.maxLevel /\ DOMAIN marked.nodes = DOMAIN x.nodes
        /\ marked.nodes[id] = [x.nodes[id] EXCEPT !.tombstone = TRUE]
        /\ \A n \in DOMAIN x.nodes : n # id => marked.nodes[n] = x.nodes[n]
    BY <1>3 DEF GraphOK, GraphFields
  <2> HIDE DEF marked
  <2>2. /\ NodeOK(marked.nodes[id]) /\ marked.nodes[id].tombstone
        /\ Levels(marked.nodes[id]) = Levels(x.nodes[id])
    <3>1. NodeOK(x.nodes[id])
      BY <1>3 DEF GraphOK
    <3>2. /\ DOMAIN marked.nodes[id] = {"connections", "tombstone"} /\ marked.nodes[id].tombstone
          /\ marked.nodes[id].connections = x.nodes[id].connections
      BY <2>1, <3>1 DEF NodeOK
    <3> QED
      BY <3>1, <3>2 DEF NodeOK, Levels
  <2>3. \A n \in DOMAIN x.nodes : /\ NodeOK(marked.nodes[n])
                                  /\ Levels(marked.nodes[n]) = Levels(x.nodes[n])
    BY <2>1, <2>2 DEF GraphOK
  <2>4. live = Live(x) \ {id}
    BY <2>1, <2>2, LiveIn
  <2>5. DOMAIN marked.nodes \subseteq Ids
    BY <2>1 DEF GraphOK
  <2>6. CASE x.start # id
    <3>1. y = marked
      BY <1>1, <1>3, <2>6
    <3>2. GraphOK(marked)
      <4>1. marked.start = None => live = {}
        BY <2>1, <2>4 DEF GraphOK
      <4>2. marked.start # None => marked.start \in live /\ marked.maxLevel >= 0
        BY <2>1, <2>4, <2>6 DEF GraphOK
      <4>3. \A n \in live : \A level \in Levels(marked.nodes[n]) : level <= marked.maxLevel
        BY <2>1, <2>3, <2>4, LiveIn DEF GraphOK
      <4>4. marked.maxLevel \in Int
        BY <2>1 DEF GraphOK
      <4> QED
        BY <2>1, <2>3, <2>5, <4>1, <4>2, <4>3, <4>4 DEF GraphOK
    <3> QED
      BY <2>1, <2>4, <3>1, <3>2
  <2>7. CASE x.start = id
    <3> DEFINE most == Cardinality(levels) - 1
    <3>1. IsFiniteSet(levels) /\ Cardinality(levels) \in Nat
      <4>1. IsFiniteSet(0 .. MaxLayer)
        BY LayerFacts, FS_Interval
      <4>2. levels \subseteq 0 .. MaxLayer
        OBVIOUS
      <4> HIDE DEF levels
      <4> QED
        BY <4>1, <4>2, FS_Subset, FS_CardinalityType
    <3>2. \A n \in live : \A level \in Levels(marked.nodes[n]) : level <= most
      <4>1. SUFFICES ASSUME NEW n \in live, NEW level \in Levels(marked.nodes[n])
                     PROVE  level <= most
        OBVIOUS
      <4>2. NodeOK(marked.nodes[n])
        BY <2>1, <2>3, <2>4, LiveIn
      <4>3. level \in 0 .. MaxLayer /\ 0 .. level \subseteq Levels(marked.nodes[n])
        BY <4>1, <4>2, NodeLevels
      <4>4. level \in Int /\ level >= 0
        BY <4>3, LayerFacts
      <4>5. 0 .. level \subseteq 0 .. MaxLayer
        BY <4>2, <4>3, NodeLevels
      <4>6. 0 .. level \subseteq levels
        <5>1. Levels(marked.nodes[n]) = Levels(x.nodes[n])
          BY <2>3, <2>4, <4>1, LiveIn
        <5> QED
          BY <4>1, <4>3, <4>5, <5>1
      <4>7. Cardinality(0 .. level) = level + 1
        BY <4>4, FS_Interval
      <4> HIDE DEF levels
      <4>8. Cardinality(0 .. level) <= Cardinality(levels)
        BY <3>1, <4>6, FS_Subset
      <4> QED
        BY <3>1, <4>4, <4>7, <4>8
    <3>3. live # {} => most >= 0
      <4>1. SUFFICES ASSUME NEW n \in live PROVE most >= 0
        OBVIOUS
      <4>2. NodeOK(marked.nodes[n])
        BY <2>1, <2>3, <2>4, LiveIn
      <4>3. 0 \in Levels(marked.nodes[n])
        <5>1. PICK layer \in 0 .. MaxLayer : Levels(marked.nodes[n]) = 0 .. layer
          BY <4>2 DEF NodeOK
        <5> QED
          BY <5>1, LayerFacts
      <4>4. 0 <= most
        BY <3>2, <4>1, <4>3
      <4> HIDE DEF levels
      <4> QED
        BY <3>1, <4>4
    <3>4. most \in Int
      <4> HIDE DEF levels
      <4> QED
        BY <3>1
    <3> HIDE DEF levels
    <3>5. PICK n : y = restarted(n) /\ (IF live = {} THEN n = None ELSE n \in live)
      BY <1>1, <1>3, <2>7
    <3>6. /\ DOMAIN y = GraphFields /\ y.kind = "Hnsw" /\ y.start = n /\ y.maxLevel = most
          /\ y.nodes = marked.nodes
      BY <2>1, <3>5 DEF GraphFields
    <3> HIDE DEF most
    <3>7. Live(y) = live
      BY <3>6, LiveIn
    <3>8. n \in live => n # None
      BY <2>4, LiveIn, ConstantsAssumption DEF GraphOK
    <3> HIDE DEF live
    <3>9. GraphOK(y)
      BY <2>1, <2>3, <2>5, <3>2, <3>3, <3>4, <3>5, <3>6, <3>7, <3>8 DEF GraphOK
    <3> QED
      BY <2>1, <2>4, <3>6, <3>7, <3>9
  <2> QED
    BY <2>6, <2>7
<1> QED
  BY <1>2, <1>3

-----------------------------------------------------------------------------
(* The indexes behind their interface.                                     *)

\* The ids that an index would find.
Indexed(x) ==
    IF x.kind = "Flat" THEN x.ids ELSE IF x.kind = "Ivf" THEN Held(x) ELSE Live(x)

IndexOK(x) ==
    /\ "kind" \in DOMAIN x /\ x.kind \in Kinds /\ Indexed(x) \subseteq Ids
    /\ x.kind = "Flat" => DOMAIN x = {"kind", "ids"}
    /\ x.kind = "Ivf" => IvfOK(x)
    /\ x.kind = "Hnsw" => GraphOK(x)

\* An index with one id more.  Clustering may bring in others that the reader
\* has, and forgets what it has not.
Grows(x, y, id, vectors) ==
    /\ IndexOK(y) /\ y.kind = x.kind
    /\ x.kind # "Ivf" => Indexed(y) = Indexed(x) \union {id}
    /\ Indexed(y) \subseteq Indexed(x) \union {id} \union DOMAIN vectors
    /\ x.kind = "Ivf" /\ x.pending \subseteq DOMAIN vectors =>
        /\ y.pending \subseteq DOMAIN vectors
        /\ NumClusters # 0 => Indexed(x) \union {id} \subseteq Indexed(y)
    /\ x.kind = "Hnsw" => DOMAIN y.nodes = DOMAIN x.nodes \union {id}

\* An insertion into an index of any kind.
LEMMA InsertOK ==
    ASSUME NEW x, IndexOK(x), NEW id \in Ids, NEW vectors \in Partial(Points), id \in DOMAIN vectors,
           NEW y \in Index!Insert(x, id, vectors)
    PROVE  Grows(x, y, id, vectors)
<1>1. CASE x.kind = "Flat"
  <2>1. y = Index!Flat!Insert(x, id)
    BY <1>1 DEF Index!Insert
  <2>2. DOMAIN y = {"kind", "ids"} /\ y.kind = "Flat" /\ y.ids = x.ids \union {id}
    BY <1>1, <2>1 DEF Index!Flat!Insert, IndexOK
  <2> QED
    BY <1>1, <2>2 DEF Grows, IndexOK, Indexed, Kinds
<1>2. CASE x.kind = "Ivf"
  <2>1. y \in Index!Ivf!Insert(x, id, vectors)
    BY <1>2 DEF Index!Insert
  <2>2. IvfOK(x) /\ Indexed(x) = Held(x) /\ Held(x) \subseteq Ids
    BY <1>2 DEF IndexOK, Indexed
  <2>3. /\ IvfOK(y) /\ y.kind = x.kind
        /\ Held(y) \subseteq Held(x) \union {id} \union DOMAIN vectors
        /\ x.pending \subseteq DOMAIN vectors =>
            /\ y.pending \subseteq DOMAIN vectors
            /\ NumClusters # 0 => Held(x) \union {id} \subseteq Held(y)
    BY <2>1, <2>2, IvfInsertOK
  <2>4. DOMAIN vectors \subseteq Ids
    BY PartialFacts
  <2>5. "kind" \in DOMAIN y /\ Indexed(y) = Held(y) /\ Held(y) \subseteq Ids
    BY <1>2, <2>2, <2>3, <2>4 DEF IvfOK, IvfFields, Indexed
  <2> QED
    BY <1>2, <2>2, <2>3, <2>5 DEF Grows, IndexOK, Kinds
<1>3. CASE x.kind = "Hnsw"
  <2>1. y \in Index!Hnsw!Insert(x, id, vectors)
    BY <1>3 DEF Index!Insert
  <2>2. PICK layer \in 0 .. MaxLayer :
            y = IF x.start = None THEN Index!Hnsw!FirstNode(x, id, layer)
                ELSE Index!Hnsw!Connected(x, id, layer, vectors)
    BY <2>1, LayerFacts DEF Index!Hnsw!Insert
  <2>3. GraphOK(x) /\ Indexed(x) = Live(x) /\ Live(x) \subseteq Ids
    BY <1>3 DEF IndexOK, Indexed
  <2>4. /\ GraphOK(y) /\ y.kind = "Hnsw" /\ Live(y) = Live(x) \union {id}
        /\ DOMAIN y.nodes = DOMAIN x.nodes \union {id}
    <3>1. CASE x.start = None
      BY <1>3, <2>2, <2>3, <3>1, FirstNodeOK
    <3>2. CASE x.start # None
      BY <1>3, <2>2, <2>3, <3>2, ConnectedOK
    <3> QED
      BY <3>1, <3>2
  <2>5. "kind" \in DOMAIN y /\ Indexed(y) = Live(y)
    BY <2>4 DEF GraphOK, GraphFields, Indexed
  <2> QED
    BY <1>3, <2>3, <2>4, <2>5 DEF Grows, IndexOK, Kinds
<1> QED
  BY <1>1, <1>2, <1>3 DEF IndexOK, Kinds

\* A removal from an index of any kind.
LEMMA RemoveIndexOK ==
    ASSUME NEW x, IndexOK(x), NEW id, NEW y \in Index!Remove(x, id)
    PROVE  /\ IndexOK(y) /\ y.kind = x.kind /\ Indexed(y) = Indexed(x) \ {id}
           /\ x.kind = "Ivf" => y.pending = x.pending \ {id}
           /\ x.kind = "Hnsw" => DOMAIN y.nodes = DOMAIN x.nodes
<1>1. CASE x.kind = "Flat"
  <2>1. y = Index!Flat!Remove(x, id)
    BY <1>1 DEF Index!Remove
  <2>2. DOMAIN y = {"kind", "ids"} /\ y.kind = "Flat" /\ y.ids = x.ids \ {id}
    BY <1>1, <2>1 DEF Index!Flat!Remove, IndexOK
  <2> QED
    BY <1>1, <2>2 DEF IndexOK, Indexed, Kinds
<1>2. CASE x.kind = "Ivf"
  <2>1. y = Index!Ivf!Remove(x, id) /\ IvfOK(x)
    BY <1>2 DEF Index!Remove, IndexOK
  <2>2. /\ IvfOK(y) /\ y.kind = "Ivf" /\ y.pending = x.pending \ {id}
        /\ Held(y) = Held(x) \ {id}
    BY <1>2, <2>1, IvfRemoveOK
  <2> QED
    BY <1>2, <2>2 DEF IndexOK, IvfOK, IvfFields, Indexed, Kinds
<1>3. CASE x.kind = "Hnsw"
  <2>1. y \in Index!Hnsw!Remove(x, id) /\ GraphOK(x)
    BY <1>3 DEF Index!Remove, IndexOK
  <2>2. GraphOK(y) /\ y.kind = "Hnsw" /\ Live(y) = Live(x) \ {id} /\ DOMAIN y.nodes = DOMAIN x.nodes
    BY <1>3, <2>1, RemoveNodeOK
  <2> QED
    BY <1>3, <2>2 DEF IndexOK, GraphOK, GraphFields, Indexed, Kinds
<1> QED
  BY <1>1, <1>2, <1>3 DEF IndexOK, Kinds

\* The kinds that a configuration asks for.
Asked(c) == IF c = "Auto" THEN Kinds ELSE {c}

Blank(x) == IndexOK(x) /\ Indexed(x) = {} /\ (x.kind = "Ivf" => x.pending = {})

\* A new index is empty and of a kind that was asked for.
LEMMA CreateOK ==
    ASSUME NEW c \in Configs, NEW n
    PROVE  LET x == Index!CreateIndex(c, n) IN Blank(x) /\ x.kind \in Asked(c)
<1> DEFINE x == Index!CreateIndex(c, n)
           t == Index!SelectType(c, n)
<1>1. t \in Kinds /\ t \in Asked(c)
  BY ConstantsAssumption DEF Index!SelectType, Kinds, Asked
<1> HIDE DEF t
<1>2. CASE t = "Flat"
  <2>1. x = Index!Flat!New
    BY <1>2 DEF Index!CreateIndex, t
  <2> QED
    BY <1>1, <1>2, <2>1 DEF Index!Flat!New, Blank, Indexed, IndexOK, Kinds
<1>3. CASE t = "Ivf"
  <2>1. x = Index!Ivf!New
    BY <1>3 DEF Index!CreateIndex, t
  <2> HIDE DEF x
  <2>2. IvfOK(x) /\ x.kind = "Ivf" /\ x.pending = {} /\ Held(x) = {}
    BY <2>1, NewIvfOK
  <2> QED
    BY <1>1, <1>3, <2>2 DEF IvfOK, IvfFields, Blank, Indexed, IndexOK, Kinds, x
<1>4. CASE t = "Hnsw"
  <2>1. x = Index!Hnsw!New
    BY <1>4 DEF Index!CreateIndex, t
  <2>2. /\ DOMAIN x = GraphFields /\ x.kind = "Hnsw" /\ x.nodes = <<>> /\ x.maxLevel = -1
        /\ x.start = None
    BY <2>1 DEF Index!Hnsw!New, GraphFields
  <2> HIDE DEF x
  <2>3. DOMAIN x.nodes = {} /\ Live(x) = {}
    BY <2>2, LiveIn
  <2>4. GraphOK(x)
    BY <2>2, <2>3 DEF GraphOK
  <2> QED
    BY <1>1, <1>4, <2>2, <2>3, <2>4 DEF Blank, Indexed, IndexOK, GraphFields, Kinds, x
<1> QED
  BY <1>1, <1>2, <1>3, <1>4 DEF Kinds

\* The recursion of Build.
Reader(ids, vectors, growing) == [id \in IF growing THEN ids ELSE DOMAIN vectors |-> vectors[id]]

Grown(f, x, vectors, growing) ==
    f = [ids \in SUBSET DOMAIN vectors |->
            IF ids = {} THEN {x}
            ELSE UNION {UNION {Index!Insert(y, id, Reader(ids, vectors, growing)) :
                                  y \in f[ids \ {id}]} : id \in ids}]

\* The recursive function that builds an index set by set is defined.
LEMMA GrownExists ==
    ASSUME NEW x, NEW vectors, NEW growing, IsFiniteSet(DOMAIN vectors)
    PROVE  \E f : Grown(f, x, vectors, growing)
<1> DEFINE S == DOMAIN vectors
           N == Cardinality(S)
           Size(n) == {s \in SUBSET S : Cardinality(s) <= n}
           More(f, s) == UNION {UNION {Index!Insert(y, id, Reader(s, vectors, growing)) :
                                          y \in f[s \ {id}]} : id \in s}
           UpTo(f, n) == f = [s \in Size(n) |-> IF s = {} THEN {x} ELSE More(f, s)]
           Good == {n \in Nat : \E f : UpTo(f, n)}
<1>1. N \in Nat
  BY FS_CardinalityType
<1>2. \A s \in SUBSET S : Cardinality(s) \in Nat /\ Cardinality(s) <= N /\ IsFiniteSet(s)
  BY FS_Subset, FS_CardinalityType
<1>3. \A s \in SUBSET S : \A id \in s :
        s \ {id} \in SUBSET S /\ Cardinality(s \ {id}) = Cardinality(s) - 1
  BY <1>2, FS_RemoveElement
<1>4. 0 \in Good
  <2> DEFINE f == [s \in Size(0) |-> {x}]
  <2>1. \A s \in Size(0) : s = {}
    BY <1>2, FS_EmptySet
  <2> HIDE DEF More, Size
  <2>2. UpTo(f, 0)
    BY <2>1
  <2> HIDE DEF f
  <2>3. \E any : UpTo(any, 0)
    BY <2>2
  <2> QED
    BY <2>3
<1>5. ASSUME NEW n \in 1 .. N, n - 1 \in Good
      PROVE  n \in Good
  <2>1. PICK f : UpTo(f, n - 1)
    BY <1>5
  <2> DEFINE g == [s \in Size(n) |-> IF s = {} THEN {x} ELSE More(f, s)]
  <2>2. \A s \in Size(n) : \A id \in s : s \ {id} \in Size(n - 1)
    <3>1. SUFFICES ASSUME NEW s \in Size(n), NEW id \in s PROVE s \ {id} \in Size(n - 1)
      OBVIOUS
    <3>2. /\ s \ {id} \in SUBSET S /\ Cardinality(s \ {id}) = Cardinality(s) - 1
          /\ Cardinality(s) \in Nat /\ Cardinality(s) <= n /\ n \in Nat
      BY <1>1, <1>2, <1>3
    <3> QED
      BY <3>2
  <2>3. \A s \in Size(n - 1) : s \in Size(n)
    BY <1>2
  <2>4. \A s \in Size(n - 1) : g[s] = f[s]
    <3> HIDE DEF More, Size
    <3> QED
      BY <2>1, <2>3
  <2>5. \A s \in Size(n) : More(g, s) = More(f, s)
    <3> HIDE DEF g, Size
    <3> QED
      BY <2>2, <2>4
  <2>6. UpTo(g, n)
    <3> HIDE DEF More, Size
    <3> QED
      BY <2>5
  <2>7. n \in Nat
    BY <1>1
  <2> HIDE DEF g, UpTo
  <2>8. \E any : UpTo(any, n)
    BY <2>6
  <2> QED
    BY <2>7, <2>8
<1> HIDE DEF Good
<1>6. N \in Good
  <2>1. 0 .. N \subseteq Good
    BY <1>1, <1>4, <1>5, IntervalInduction
  <2> QED
    BY <1>1, <2>1
<1>7. PICK f : UpTo(f, N)
  BY <1>6 DEF Good
<1>8. Size(N) = SUBSET S
  BY <1>2
<1> HIDE DEF Size
<1> QED
  BY <1>7, <1>8 DEF Grown

\* An index that is built has every id that it was built from, and no other.
LEMMA BuildOK ==
    ASSUME NEW x, Blank(x), NEW vectors \in Partial(Points), NEW growing \in BOOLEAN,
           NEW y \in Index!Build(x, vectors, growing)
    PROVE  /\ IndexOK(y) /\ y.kind = x.kind /\ Indexed(y) \subseteq DOMAIN vectors
           /\ y.kind # "Ivf" \/ NumClusters # 0 => Indexed(y) = DOMAIN vectors
           /\ y.kind = "Ivf" => y.pending \subseteq DOMAIN vectors
           /\ y.kind = "Hnsw" => DOMAIN vectors \subseteq DOMAIN y.nodes
<1> DEFINE after == CHOOSE f : Grown(f, x, vectors, growing)
           all == DOMAIN vectors
           reader(s) == Reader(s, vectors, growing)
           Right(z, s) == /\ IndexOK(z) /\ z.kind = x.kind /\ Indexed(z) \subseteq all
                          /\ z.kind # "Ivf" => Indexed(z) = s
                          /\ z.kind = "Ivf" => /\ z.pending \subseteq DOMAIN reader(s)
                                               /\ NumClusters # 0 => s \subseteq Indexed(z)
                          /\ z.kind = "Hnsw" => s \subseteq DOMAIN z.nodes
           Good == {s \in SUBSET all : \A z \in after[s] : Right(z, s)}
<1>1. all \subseteq Ids /\ IsFiniteSet(all) /\ \A id \in all : vectors[id] \in Points
  BY PartialFacts, FS_Subset, ConstantsAssumption
<1>2. Grown(after, x, vectors, growing)
  BY <1>1, GrownExists
<1>3. Index!Build(x, vectors, growing) = after[all]
  BY DEF Index!Build, Grown, Reader
<1>4. ASSUME NEW s \in SUBSET all
      PROVE  /\ DOMAIN reader(s) = IF growing THEN s ELSE all
             /\ reader(s) \in Partial(Points)
  <2>1. DOMAIN reader(s) = IF growing THEN s ELSE all
    BY DEF Reader
  <2>2. DOMAIN reader(s) \subseteq all
    BY <2>1
  <2>3. \A id \in DOMAIN reader(s) : reader(s)[id] = vectors[id]
    BY DEF Reader
  <2>4. reader(s) = [id \in DOMAIN reader(s) |-> reader(s)[id]]
    BY DEF Reader
  <2> DEFINE r == reader(s)
  <2> HIDE DEF r
  <2>5. r \in Partial(Points)
    BY <1>1, <2>2, <2>3, <2>4, PartialFacts DEF r
  <2> QED
    BY <2>1, <2>5 DEF r
<1> HIDE DEF after, reader
<1>5. ASSUME NEW s \in SUBSET all, \A t \in SUBSET s : t # s => t \in Good
      PROVE  s \in Good
  <2>1. SUFFICES ASSUME NEW z \in after[s] PROVE Right(z, s)
    OBVIOUS
  <2>2. CASE s = {}
    <3>1. z = x
      BY <1>2, <2>2 DEF Grown
    <3> QED
      BY <2>2, <3>1 DEF Blank
  <2>3. CASE s # {}
    <3> DEFINE r == Reader(s, vectors, growing)
    <3>1. z \in UNION {UNION {Index!Insert(w, id, r) : w \in after[s \ {id}]} : id \in s}
      BY <1>2, <2>1, <2>3 DEF Grown
    <3>12. r = reader(s)
      BY DEF reader
    <3> HIDE DEF r
    <3>2. PICK id \in s : z \in UNION {Index!Insert(w, id, r) : w \in after[s \ {id}]}
      BY <3>1
    <3>3. PICK w \in after[s \ {id}] : z \in Index!Insert(w, id, r)
      BY <3>2
    <3>4. s \ {id} \in Good
      <4> HIDE DEF Good
      <4> QED
        BY <1>5
    <3>5. Right(w, s \ {id})
      BY <3>3, <3>4
    <3>6. /\ id \in Ids /\ reader(s) \in Partial(Points) /\ id \in DOMAIN reader(s)
          /\ DOMAIN reader(s) \subseteq all /\ DOMAIN reader(s \ {id}) \subseteq DOMAIN reader(s)
      BY <1>1, <1>4
    <3>7. Grows(w, z, id, r)
      BY <3>3, <3>5, <3>6, <3>12, InsertOK
    <3>8. /\ IndexOK(z) /\ z.kind = w.kind /\ Indexed(z) \subseteq all
          /\ z.kind # "Ivf" => Indexed(z) = s
      BY <3>5, <3>6, <3>7, <3>12 DEF Grows
    <3>9. z.kind = "Ivf" => /\ z.pending \subseteq DOMAIN reader(s)
                            /\ NumClusters # 0 => s \subseteq Indexed(z)
      BY <3>5, <3>6, <3>7, <3>12 DEF Grows
    <3>10. z.kind = "Hnsw" => s \subseteq DOMAIN z.nodes
      BY <3>5, <3>7 DEF Grows
    <3> QED
      BY <3>5, <3>8, <3>9, <3>10
  <2> QED
    BY <2>2, <2>3
<1> HIDE DEF Good
<1>6. \A s \in SUBSET all : (\A t \in SUBSET s : t # s => t \in Good) => s \in Good
  BY <1>5
<1> HIDE DEF all
<1>7. all \in Good
  <2>1. SUBSET all \subseteq Good
    BY <1>1, <1>6, SubsetInduction, ZenonT(40)
  <2> QED
    BY <2>1
<1>8. Right(y, all) /\ DOMAIN reader(all) = all
  BY <1>3, <1>4, <1>7 DEF Good, all
<1> QED
  BY <1>8 DEF all

-----------------------------------------------------------------------------
(* Changes to memory.                                                      *)

\* The keys of documents and caches, in the form in which they are needed here.
LEMMA DocsWith ==
    ASSUME NEW docs \in Partial(Docs), NEW id \in Ids, NEW doc \in Docs
    PROVE  LET g == Cache!With(docs, id, doc)
           IN  /\ g \in Partial(Docs) /\ DOMAIN g = DOMAIN docs \union {id} /\ g[id] = doc
               /\ \A i \in DOMAIN docs : i # id => g[i] = docs[i]
BY WithFacts

\* Dropping a document leaves the others.
LEMMA DocsWithout ==
    ASSUME NEW docs \in Partial(Docs), NEW id
    PROVE  LET g == Cache!Without(docs, id)
           IN  /\ g \in Partial(Docs) /\ DOMAIN g = DOMAIN docs \ {id}
               /\ \A i \in DOMAIN g : g[i] = docs[i]
BY WithoutFacts

\* Dropping a vector leaves the others.
LEMMA CachedWithout ==
    ASSUME NEW f, NEW id
    PROVE  LET g == Cache!Without(f, id)
           IN  DOMAIN g = DOMAIN f \ {id} /\ \A i \in DOMAIN g : g[i] = f[i]
BY DEF Cache!Without

MemFields == {"docs", "cache", "index"}

\* A vector is cached for a document only, or for a node of the graph.
Backed(m) ==
    DOMAIN m.cache.vectors \subseteq
        IF m.index.kind = "Hnsw" THEN DOMAIN m.index.nodes ELSE DOMAIN m.docs

MemOK(m) ==
    /\ DOMAIN m = MemFields
    /\ m.docs \in Partial(Docs) /\ CacheOK(m.cache) /\ IndexOK(m.index) /\ Backed(m)

\* The caches hold what the documents have.
Agrees(m) ==
    /\ \A id \in DOMAIN m.docs :
        id \in DOMAIN m.cache.vectors /\ m.cache.vectors[id] = m.docs[id].vector
    /\ \A id \in DOMAIN m.cache.metadata :
        id \in DOMAIN m.docs /\ m.cache.metadata[id] = m.docs[id].metadata

\* The index would find documents only; the flat index and the graph find them
\* all, whatever was replayed.
Fits(m, id) ==
    /\ id \in Indexed(m.index) => id \in DOMAIN m.docs
    /\ m.index.kind # "Ivf" => (id \in DOMAIN m.docs => id \in Indexed(m.index))

\* The clusters miss documents only if a clustering forgot ids whose vectors it
\* did not see.
Complete(m, id) ==
    m.index.kind = "Ivf" /\ NumClusters # 0 => (id \in DOMAIN m.docs => id \in Indexed(m.index))
Gapless(m) == m.index.kind = "Ivf" => m.index.pending \subseteq DOMAIN m.cache.vectors

Same(before, after, id) ==
    /\ id \in DOMAIN before <=> id \in DOMAIN after
    /\ id \in DOMAIN before => before[id] = after[id]

\* A change of memory for one id.
Changes(m, id, n) ==
    /\ MemOK(n) /\ n.index.kind = m.index.kind /\ Fits(n, id)
    /\ \A i \in Ids \ {id} : Same(m.docs, n.docs, i) /\ (Fits(m, i) => Fits(n, i))
    /\ Agrees(m) => Agrees(n)
    /\ Gapless(m) => Gapless(n)
    /\ Gapless(m) \/ id \notin DOMAIN n.docs =>
        Complete(n, id) /\ \A i \in Ids \ {id} : Complete(m, i) => Complete(n, i)
    /\ \A i \in DOMAIN n.cache.vectors \ {id} :
        i \in DOMAIN m.cache.vectors /\ n.cache.vectors[i] = m.cache.vectors[i]

\* What memory holds once an id has a document and the index has the id.
LEMMA StoredOK ==
    ASSUME NEW m, MemOK(m), NEW id \in Ids, NEW doc \in Docs,
           NEW n, DOMAIN n = MemFields, n.docs = Cache!With(m.docs, id, doc),
           CacheOK(n.cache), Grows(m.index, n.index, id, n.cache.vectors),
           DOMAIN n.cache.vectors = DOMAIN m.cache.vectors \union {id},
           n.cache.vectors[id] = doc.vector,
           \A i \in DOMAIN m.cache.vectors : i # id => n.cache.vectors[i] = m.cache.vectors[i],
           DOMAIN n.cache.metadata \subseteq DOMAIN m.cache.metadata \union {id},
           \A i \in DOMAIN n.cache.metadata :
                n.cache.metadata[i] = IF i = id THEN doc.metadata ELSE m.cache.metadata[i]
    PROVE  Changes(m, id, n) /\ id \in DOMAIN n.docs /\ n.docs[id] = doc
<1>1. /\ m.docs \in Partial(Docs) /\ Backed(m)
      /\ IndexOK(n.index) /\ n.index.kind = m.index.kind
  BY DEF MemOK, Grows
<1>2. /\ n.docs \in Partial(Docs) /\ DOMAIN n.docs = DOMAIN m.docs \union {id} /\ n.docs[id] = doc
      /\ \A i \in DOMAIN m.docs : i # id => n.docs[i] = m.docs[i]
  <2> DEFINE docs == Cache!With(m.docs, id, doc)
  <2>1. /\ docs \in Partial(Docs) /\ DOMAIN docs = DOMAIN m.docs \union {id} /\ docs[id] = doc
        /\ \A i \in DOMAIN m.docs : i # id => docs[i] = m.docs[i]
    BY <1>1, DocsWith
  <2>2. n.docs = docs
    OBVIOUS
  <2> HIDE DEF docs
  <2> QED
    BY <2>1, <2>2
<1>3. n.index.kind # "Hnsw" => DOMAIN n.cache.vectors \subseteq DOMAIN n.docs
  BY <1>1, <1>2 DEF Backed
<1>4. Backed(n)
  BY <1>1, <1>2 DEF Backed, Grows
<1>5. MemOK(n)
  BY <1>1, <1>2, <1>4 DEF MemOK
<1>6. n.index.kind # "Ivf" => Indexed(n.index) = Indexed(m.index) \union {id}
  BY <1>1 DEF Grows
<1>7. /\ n.index.kind = "Ivf" => Indexed(n.index) \subseteq Indexed(m.index) \union DOMAIN n.docs
      /\ Gapless(m) /\ n.index.kind = "Ivf" /\ NumClusters # 0 =>
            Indexed(m.index) \union {id} \subseteq Indexed(n.index)
      /\ Gapless(m) => Gapless(n)
  <2>1. n.index.kind = "Ivf" => Indexed(n.index) \subseteq Indexed(m.index) \union DOMAIN n.docs
    BY <1>1, <1>2, <1>3 DEF Grows
  <2>2. ASSUME Gapless(m), m.index.kind = "Ivf"
        PROVE  /\ n.index.pending \subseteq DOMAIN n.cache.vectors
               /\ NumClusters # 0 => Indexed(m.index) \union {id} \subseteq Indexed(n.index)
    BY <2>2 DEF Gapless, Grows
  <2> QED
    BY <1>1, <2>1, <2>2 DEF Gapless
<1>8. Fits(n, id)
  BY <1>2, <1>6 DEF Fits
<1>9. ASSUME NEW i \in Ids \ {id}
      PROVE  Same(m.docs, n.docs, i) /\ (Fits(m, i) => Fits(n, i))
  <2>1. Same(m.docs, n.docs, i)
    BY <1>2 DEF Same
  <2>2. ASSUME Fits(m, i) PROVE Fits(n, i)
    BY <1>1, <1>2, <1>6, <1>7, <2>2 DEF Fits
  <2> QED
    BY <2>1, <2>2
<1>10. ASSUME Agrees(m) PROVE Agrees(n)
  BY <1>2, <1>10 DEF Agrees
<1>11. ASSUME Gapless(m)
       PROVE  Complete(n, id) /\ \A i \in Ids \ {id} : Complete(m, i) => Complete(n, i)
  BY <1>1, <1>2, <1>7, <1>11 DEF Complete
<1>12. Gapless(m) \/ id \notin DOMAIN n.docs =>
        Complete(n, id) /\ \A i \in Ids \ {id} : Complete(m, i) => Complete(n, i)
  BY <1>2, <1>11
<1>13. Changes(m, id, n)
  BY <1>1, <1>5, <1>7, <1>8, <1>9, <1>10, <1>12 DEF Changes
<1> QED
  BY <1>2, <1>13

\* insert_internal changes the one document, with its index and caches.
LEMMA InsertInternalOK ==
    ASSUME NEW m, MemOK(m), NEW id \in Ids, NEW doc \in Docs, NEW n \in InsertInternal(m, id, doc)
    PROVE  Changes(m, id, n) /\ id \in DOMAIN n.docs /\ n.docs[id] = doc
<1> DEFINE c == Cache!PutVector(m.cache, id, doc.vector)
           d == Cache!PutMetadata(c, id, doc.metadata)
<1>1. PICK x \in Index!Insert(m.index, id, d.vectors) :
        n = [docs |-> Cache!With(m.docs, id, doc), cache |-> d, index |-> x]
  BY DEF InsertInternal
<1>2. doc.vector \in Points /\ doc.metadata \in Metas
  BY DEF Docs
<1>3. m.docs \in Partial(Docs) /\ CacheOK(m.cache) /\ IndexOK(m.index)
  BY DEF MemOK
<1>4. /\ CacheOK(c) /\ c.metadata = m.cache.metadata
      /\ DOMAIN c.vectors = DOMAIN m.cache.vectors \union {id} /\ c.vectors[id] = doc.vector
      /\ \A i \in DOMAIN m.cache.vectors : i # id => c.vectors[i] = m.cache.vectors[i]
  BY <1>2, <1>3, PutVectorOK
<1> HIDE DEF c
<1>5. /\ CacheOK(d) /\ d.vectors = c.vectors
      /\ DOMAIN d.metadata \subseteq DOMAIN c.metadata \union {id}
      /\ \A i \in DOMAIN d.metadata : d.metadata[i] = IF i = id THEN doc.metadata ELSE c.metadata[i]
  BY <1>2, <1>4, PutMetadataOK
<1> HIDE DEF d
<1>6. d.vectors \in Partial(Points) /\ id \in DOMAIN d.vectors
  BY <1>4, <1>5 DEF CacheOK
<1>7. Grows(m.index, x, id, d.vectors)
  BY <1>3, <1>6, InsertOK
<1>8. DOMAIN n = MemFields /\ n.docs = Cache!With(m.docs, id, doc) /\ n.cache = d /\ n.index = x
  BY <1>1 DEF MemFields
<1> QED
  BY <1>4, <1>5, <1>7, <1>8, StoredOK

\* delete_internal drops the one document from everything.
LEMMA DeleteInternalOK ==
    ASSUME NEW m, MemOK(m), NEW id \in Ids, NEW n \in DeleteInternal(m, id)
    PROVE  /\ Changes(m, id, n) /\ id \notin DOMAIN n.docs
           /\ \A i \in DOMAIN n.cache.vectors :
                i \in DOMAIN m.cache.vectors /\ n.cache.vectors[i] = m.cache.vectors[i]
<1> DEFINE gone == m.index.kind # "Hnsw"
           d == Cache!Remove(m.cache, id, gone)
           docs == Cache!Without(m.docs, id)
           metadata == Cache!Without(m.cache.metadata, id)
           vectors == Cache!Without(m.cache.vectors, id)
<1>1. PICK x \in Index!Remove(m.index, id) : n = [docs |-> docs, index |-> x, cache |-> d]
  BY DEF DeleteInternal
<1>2. /\ m.docs \in Partial(Docs) /\ CacheOK(m.cache) /\ IndexOK(m.index) /\ gone \in BOOLEAN
      /\ m.cache.vectors \in Partial(Points) /\ m.cache.metadata \in Partial(Metas) /\ Backed(m)
  BY DEF MemOK, CacheOK
<1>3. /\ IndexOK(x) /\ x.kind = m.index.kind /\ Indexed(x) = Indexed(m.index) \ {id}
      /\ m.index.kind = "Ivf" => x.pending = m.index.pending \ {id}
      /\ m.index.kind = "Hnsw" => DOMAIN x.nodes = DOMAIN m.index.nodes
  BY <1>2, RemoveIndexOK
<1>4. CacheOK(d) /\ d.vectors = (IF gone THEN vectors ELSE m.cache.vectors) /\ d.metadata = metadata
  BY <1>2, RemoveOK
<1> HIDE DEF d
<1>5. /\ docs \in Partial(Docs) /\ DOMAIN docs = DOMAIN m.docs \ {id}
      /\ \A i \in DOMAIN docs : docs[i] = m.docs[i]
  BY <1>2, DocsWithout
<1>6. /\ DOMAIN metadata = DOMAIN m.cache.metadata \ {id}
      /\ \A i \in DOMAIN metadata : metadata[i] = m.cache.metadata[i]
  BY <1>2, CachedWithout
<1>7. /\ DOMAIN vectors = DOMAIN m.cache.vectors \ {id}
      /\ \A i \in DOMAIN vectors : vectors[i] = m.cache.vectors[i]
  BY <1>2, CachedWithout
<1> HIDE DEF docs, metadata, vectors
<1>8. DOMAIN n = MemFields /\ n.docs = docs /\ n.cache = d /\ n.index = x
  BY <1>1 DEF MemFields
<1>9. /\ DOMAIN d.vectors = IF gone THEN DOMAIN m.cache.vectors \ {id} ELSE DOMAIN m.cache.vectors
      /\ \A i \in DOMAIN d.vectors : d.vectors[i] = m.cache.vectors[i]
  BY <1>4, <1>7
<1>10. Backed(n)
  <2>1. CASE gone
    BY <1>2, <1>3, <1>5, <1>8, <1>9, <2>1 DEF Backed
  <2>2. CASE ~gone
    BY <1>2, <1>3, <1>8, <1>9, <2>2 DEF Backed
  <2> QED
    BY <2>1, <2>2
<1>11. MemOK(n) /\ Fits(n, id)
  BY <1>3, <1>4, <1>5, <1>8, <1>10 DEF MemOK, Fits
<1>12. ASSUME NEW i \in Ids \ {id}
       PROVE  Same(m.docs, n.docs, i) /\ (Fits(m, i) => Fits(n, i))
  BY <1>3, <1>5, <1>8 DEF Same, Fits
<1>13. ASSUME Agrees(m) PROVE Agrees(n)
  <2>1. \A i \in DOMAIN docs : i \in DOMAIN d.vectors /\ d.vectors[i] = docs[i].vector
    BY <1>5, <1>9, <1>13 DEF Agrees
  <2>2. \A i \in DOMAIN metadata : i \in DOMAIN docs /\ metadata[i] = docs[i].metadata
    BY <1>5, <1>6, <1>13 DEF Agrees
  <2> QED
    BY <1>4, <1>8, <2>1, <2>2 DEF Agrees
<1>14. Gapless(m) => Gapless(n)
  BY <1>3, <1>8, <1>9 DEF Gapless
<1>15. Complete(n, id) /\ \A i \in Ids \ {id} : Complete(m, i) => Complete(n, i)
  BY <1>3, <1>5, <1>8 DEF Complete
<1>16. \A i \in DOMAIN n.cache.vectors :
        i \in DOMAIN m.cache.vectors /\ n.cache.vectors[i] = m.cache.vectors[i]
  BY <1>8, <1>9
<1> QED
  BY <1>3, <1>5, <1>8, <1>11, <1>12, <1>13, <1>14, <1>15, <1>16 DEF Changes

\* Two changes of one id, the second of which puts it in, are one.
LEMMA ChangesTwice ==
    ASSUME NEW m, NEW id \in Ids, NEW d, NEW n, Changes(m, id, d), Changes(d, id, n), id \in DOMAIN n.docs
    PROVE  Changes(m, id, n)
<1>1. \A i \in Ids \ {id} : Same(m.docs, n.docs, i) /\ (Fits(m, i) => Fits(n, i))
  BY DEF Changes, Same
<1>2. Gapless(m) => Gapless(d) /\ Gapless(n)
  BY DEF Changes
<1>3. Gapless(m) \/ id \notin DOMAIN n.docs =>
        Complete(n, id) /\ \A i \in Ids \ {id} : Complete(m, i) => Complete(n, i)
  <2>1. SUFFICES ASSUME Gapless(m)
                 PROVE  Complete(n, id) /\ \A i \in Ids \ {id} : Complete(m, i) => Complete(n, i)
    OBVIOUS
  <2>2. \A i \in Ids \ {id} : Complete(m, i) => Complete(d, i)
    BY <2>1 DEF Changes
  <2>3. Complete(n, id) /\ \A i \in Ids \ {id} : Complete(d, i) => Complete(n, i)
    BY <1>2, <2>1 DEF Changes
  <2> QED
    BY <2>2, <2>3
<1>4. \A i \in DOMAIN n.cache.vectors \ {id} :
        i \in DOMAIN m.cache.vectors /\ n.cache.vectors[i] = m.cache.vectors[i]
  BY DEF Changes
<1> QED
  BY <1>1, <1>2, <1>3, <1>4 DEF Changes

\* A replacement changes the one document.
LEMMA ReplaceOK ==
    ASSUME NEW m, MemOK(m), NEW id \in Ids, NEW doc \in Docs, NEW n \in Replace(m, id, doc)
    PROVE  Changes(m, id, n) /\ id \in DOMAIN n.docs /\ n.docs[id] = doc
<1>1. PICK d \in DeleteInternal(m, id) : n \in InsertInternal(d, id, doc)
  BY DEF Replace
<1>2. Changes(m, id, d)
  BY DeleteInternalOK
<1>3. MemOK(d)
  BY <1>2 DEF Changes
<1>4. Changes(d, id, n) /\ id \in DOMAIN n.docs /\ n.docs[id] = doc
  BY <1>1, <1>3, InsertInternalOK
<1> QED
  BY <1>2, <1>4, ChangesTwice

-----------------------------------------------------------------------------
(* A replay of the log.                                                    *)

Entry == [op : {"insert", "update"}, id : Ids, doc : Docs] \union [op : {"delete"}, id : Ids]

\* What an entry says of the documents after it.
Tells(entry, docs) ==
    IF entry.op = "delete" THEN entry.id \notin DOMAIN docs
    ELSE entry.id \in DOMAIN docs /\ docs[entry.id] = entry.doc

\* The first k entries lead from some documents to others: of an id that is
\* mentioned the last entry tells, and the other ids stay as they are.
Mentioned(entries, k) == {entries[i].id : i \in 1 .. k}
Last(entries, i, k) == \A j \in 1 .. k : j > i => entries[j].id # entries[i].id
Recalls(entries, k, before, after) ==
    /\ \A id \in Ids \ Mentioned(entries, k) : Same(before, after, id)
    /\ \A i \in 1 .. k : Last(entries, i, k) => Tells(entries[i], after)

\* No entries change nothing.
LEMMA RecallsNothing ==
    ASSUME NEW entries, NEW docs
    PROVE  Recalls(entries, 0, docs, docs) /\ Mentioned(entries, 0) = {}
BY DEF Recalls, Same, Mentioned

\* One more entry.
LEMMA RecallsMore ==
    ASSUME NEW entries, NEW k \in Nat, k # 0, NEW before, NEW between, NEW after,
           Recalls(entries, k - 1, before, between), \A i \in 1 .. k : entries[i] \in Entry,
           \A id \in Ids \ {entries[k].id} : Same(between, after, id), Tells(entries[k], after)
    PROVE  /\ Recalls(entries, k, before, after)
           /\ Mentioned(entries, k) = Mentioned(entries, k - 1) \union {entries[k].id}
<1>1. /\ 1 .. k = (1 .. k - 1) \union {k} /\ k - 1 \in Nat
      /\ \A i \in 1 .. k - 1 : k > i
  OBVIOUS
<1>2. \A i \in 1 .. k : entries[i].id \in Ids
  BY DEF Entry
<1>3. Mentioned(entries, k) = Mentioned(entries, k - 1) \union {entries[k].id}
  BY <1>1 DEF Mentioned
<1>4. ASSUME NEW id \in Ids \ Mentioned(entries, k) PROVE Same(before, after, id)
  <2>1. Same(before, between, id) /\ Same(between, after, id)
    BY <1>3 DEF Recalls
  <2> QED
    BY <2>1 DEF Same
<1>5. ASSUME NEW i \in 1 .. k, Last(entries, i, k) PROVE Tells(entries[i], after)
  <2>1. CASE i = k
    BY <2>1
  <2>2. CASE i \in 1 .. k - 1
    <3>1. entries[i].id # entries[k].id /\ Last(entries, i, k - 1)
      BY <1>1, <1>5, <2>2 DEF Last
    <3>2. Tells(entries[i], between) /\ Same(between, after, entries[i].id)
      BY <1>2, <2>2, <3>1 DEF Recalls
    <3> QED
      BY <3>2 DEF Tells, Same
  <2> QED
    BY <1>1, <2>1, <2>2
<1> QED
  BY <1>3, <1>4, <1>5 DEF Recalls

\* Each id that is mentioned has a last entry.
LEMMA LastMention ==
    ASSUME NEW entries, NEW k \in Nat, NEW id \in Mentioned(entries, k)
    PROVE  \E i \in 1 .. k : entries[i].id = id /\ Last(entries, i, k)
<1> DEFINE places == {i \in 1 .. k : entries[i].id = id}
<1>1. places \subseteq Int /\ places # {} /\ IsFiniteSet(places)
  <2>1. IsFiniteSet(1 .. k) /\ places \subseteq 1 .. k
    BY FS_Interval
  <2>2. places \subseteq Int /\ places # {}
    BY DEF Mentioned
  <2> HIDE DEF places
  <2> QED
    BY <2>1, <2>2, FS_Subset
<1>2. PICK i \in places : \A j \in places : j <= i
  <2> HIDE DEF places
  <2> QED
    BY <1>1, GreatestNumber
<1>3. \A j \in 1 .. k : j > i => j \notin places
  BY <1>2
<1> QED
  BY <1>2, <1>3 DEF Last

\* So the same log leads to the same documents.
LEMMA RecallsSame ==
    ASSUME NEW entries, NEW k \in Nat, NEW before, NEW after \in Partial(Docs), NEW again \in Partial(Docs),
           Recalls(entries, k, before, after), Recalls(entries, k, before, again)
    PROVE  after = again
<1>1. ASSUME NEW id \in Ids PROVE Same(after, again, id)
  <2>1. CASE id \in Mentioned(entries, k)
    <3>1. PICK i \in 1 .. k : entries[i].id = id /\ Last(entries, i, k)
      BY <2>1, LastMention
    <3>2. Tells(entries[i], after) /\ Tells(entries[i], again)
      BY <3>1 DEF Recalls
    <3> QED
      BY <3>1, <3>2 DEF Tells, Same
  <2>2. CASE id \notin Mentioned(entries, k)
    BY <2>2 DEF Recalls, Same
  <2> QED
    BY <2>1, <2>2
<1>2. /\ after = [i \in DOMAIN after |-> after[i]] /\ DOMAIN after \subseteq Ids
      /\ again = [i \in DOMAIN again |-> again[i]] /\ DOMAIN again \subseteq Ids
  BY PartialFacts
<1>3. DOMAIN after = DOMAIN again /\ \A i \in DOMAIN after : after[i] = again[i]
  BY <1>1, <1>2 DEF Same
<1> QED
  BY <1>2, <1>3

\* A replayed entry does what it tells.
LEMMA ApplyOK ==
    ASSUME NEW m, MemOK(m), NEW entry \in Entry, NEW n \in Apply(m, entry)
    PROVE  Changes(m, entry.id, n) /\ Tells(entry, n.docs)
<1>1. CASE entry.op = "insert"
  <2>1. entry.id \in Ids /\ entry.doc \in Docs /\ n \in InsertInternal(m, entry.id, entry.doc)
    BY <1>1 DEF Entry, Apply
  <2> QED
    BY <1>1, <2>1, InsertInternalOK DEF Tells
<1>2. CASE entry.op = "update"
  <2>1. entry.id \in Ids /\ entry.doc \in Docs /\ n \in Replace(m, entry.id, entry.doc)
    BY <1>2 DEF Entry, Apply
  <2> QED
    BY <1>2, <2>1, ReplaceOK DEF Tells
<1>3. CASE entry.op = "delete"
  <2>1. entry.id \in Ids /\ n \in DeleteInternal(m, entry.id)
    BY <1>3 DEF Entry, Apply
  <2> QED
    BY <1>3, <2>1, DeleteInternalOK DEF Tells
<1> QED
  BY <1>1, <1>2, <1>3 DEF Entry

\* A replay sees what it inserts beside, or inserts nothing.
Sighted(m, entries) == Gapless(m) \/ \A i \in DOMAIN entries : entries[i].op = "delete"

\* What is replayed fits afterwards, and what fitted still does.
LEMMA ReplayOK ==
    ASSUME NEW m, MemOK(m), NEW entries \in Seq(Entry), NEW n \in Replayed(m, entries)
    PROVE  /\ MemOK(n) /\ n.index.kind = m.index.kind
           /\ Recalls(entries, Len(entries), m.docs, n.docs)
           /\ \A id \in Ids : id \in Mentioned(entries, Len(entries)) \/ Fits(m, id) => Fits(n, id)
           /\ Sighted(m, entries) =>
                \A id \in Ids : id \in Mentioned(entries, Len(entries)) \/ Complete(m, id) => Complete(n, id)
           /\ entries = <<>> => n = m
<1> DEFINE N == Len(entries)
           More(f, i) == UNION {Apply(b, entries[i]) : b \in f[i - 1]}
           Steps(f, k) == f = [i \in 0 .. k |-> IF i = 0 THEN {m} ELSE More(f, i)]
           Good == {k \in 0 .. N : \E f : Steps(f, k)}
           after == CHOOSE f : Steps(f, N)
           Right(o, k) ==
               /\ MemOK(o) /\ o.index.kind = m.index.kind
               /\ Recalls(entries, k, m.docs, o.docs)
               /\ \A id \in Ids : id \in Mentioned(entries, k) \/ Fits(m, id) => Fits(o, id)
               /\ Gapless(m) => Gapless(o)
               /\ Sighted(m, entries) =>
                    \A id \in Ids : id \in Mentioned(entries, k) \/ Complete(m, id) => Complete(o, id)
               /\ k = 0 => o = m
           Fine == {k \in 0 .. N : \A o \in after[k] : Right(o, k)}
<1>1. N \in Nat /\ DOMAIN entries = 1 .. N /\ \A i \in 1 .. N : entries[i] \in Entry
  OBVIOUS
<1>2. Replayed(m, entries) = after[N]
  BY DEF Replayed
<1> HIDE DEF N
<1>3. Steps(after, N)
  <2>1. 0 \in Good
    <3> DEFINE g == [i \in 0 .. 0 |-> {m}]
    <3>1. \A i \in 0 .. 0 : i = 0
      OBVIOUS
    <3> HIDE DEF More
    <3>2. Steps(g, 0)
      BY <3>1
    <3>3. 0 \in 0 .. N
      BY <1>1
    <3> HIDE DEF g
    <3>4. \E any : Steps(any, 0)
      BY <3>2
    <3> QED
      BY <3>3, <3>4
  <2>2. ASSUME NEW k \in 1 .. N, k - 1 \in Good PROVE k \in Good
    <3>1. PICK f : Steps(f, k - 1)
      BY <2>2
    <3>2. k - 1 \in Nat /\ k \in 0 .. N
      BY <1>1
    <3> DEFINE g == [i \in 0 .. k |-> IF i = 0 THEN {m} ELSE More(f, i)]
    <3>3. \A i \in 0 .. k - 1 : i \in 0 .. k
      BY <3>2
    <3>4. \A i \in 0 .. k - 1 : g[i] = f[i]
      <4> HIDE DEF More
      <4> QED
        BY <3>1, <3>3
    <3>5. \A i \in 0 .. k : i # 0 => i - 1 \in 0 .. k - 1
      BY <3>2
    <3>6. \A i \in 0 .. k : i # 0 => More(g, i) = More(f, i)
      <4> HIDE DEF g
      <4> QED
        BY <3>4, <3>5
    <3>7. Steps(g, k)
      <4> HIDE DEF More
      <4> QED
        BY <3>6
    <3> HIDE DEF g
    <3>8. \E any : Steps(any, k)
      BY <3>7
    <3> QED
      BY <3>2, <3>8
  <2> HIDE DEF Good
  <2>3. N \in Good
    <3>1. 0 .. N \subseteq Good
      BY <1>1, <2>1, <2>2, IntervalInduction
    <3> QED
      BY <1>1, <3>1
  <2> QED
    BY <2>3 DEF Good
<1> HIDE DEF after
<1>4. after[0] = {m} /\ \A k \in 1 .. N : after[k] = More(after, k)
  <2> HIDE DEF More
  <2> QED
    BY <1>1, <1>3
<1> HIDE DEF Steps
<1>5. 0 \in Fine
  <2>1. Right(m, 0)
    BY RecallsNothing
  <2>2. 0 \in 0 .. N
    BY <1>1
  <2> HIDE DEF Right
  <2> QED
    BY <1>4, <2>1, <2>2
<1>6. ASSUME NEW k \in 1 .. N, k - 1 \in Fine PROVE k \in Fine
  <2>1. k \in 0 .. N /\ k \in Nat /\ k # 0 /\ 1 .. k \subseteq 1 .. N
    BY <1>1
  <2>2. SUFFICES ASSUME NEW o \in after[k] PROVE Right(o, k)
    BY <2>1
  <2>3. PICK b \in after[k - 1] : o \in Apply(b, entries[k])
    BY <1>4
  <2>4. Right(b, k - 1)
    BY <1>6
  <2> DEFINE e == entries[k]
  <2>5. e \in Entry /\ e.id \in Ids /\ Changes(b, e.id, o) /\ Tells(e, o.docs)
    <3>1. e \in Entry
      BY <1>1
    <3>2. e.id \in Ids
      BY <3>1 DEF Entry
    <3> QED
      BY <2>3, <2>4, <3>1, <3>2, ApplyOK
  <2>6. /\ Recalls(entries, k, m.docs, o.docs)
        /\ Mentioned(entries, k) = Mentioned(entries, k - 1) \union {e.id}
    <3>1. \A id \in Ids \ {e.id} : Same(b.docs, o.docs, id)
      BY <2>5 DEF Changes
    <3>2. \A i \in 1 .. k : entries[i] \in Entry
      BY <1>1, <2>1
    <3>3. Recalls(entries, k - 1, m.docs, b.docs)
      BY <2>4
    <3> QED
      BY <2>1, <2>5, <3>1, <3>2, <3>3, RecallsMore
  <2>7. ASSUME NEW id \in Ids, id \in Mentioned(entries, k) \/ Fits(m, id)
        PROVE  Fits(o, id)
    <3>1. CASE id = e.id
      BY <2>5, <3>1 DEF Changes
    <3>2. CASE id # e.id
      <4>1. Fits(b, id)
        BY <2>4, <2>6, <2>7, <3>2
      <4> QED
        BY <2>5, <3>2, <4>1 DEF Changes
    <3> QED
      BY <3>1, <3>2
  <2>8. Gapless(m) => Gapless(o)
    BY <2>4, <2>5 DEF Changes
  <2>9. ASSUME Sighted(m, entries), NEW id \in Ids, id \in Mentioned(entries, k) \/ Complete(m, id)
        PROVE  Complete(o, id)
    <3>1. Gapless(b) \/ e.id \notin DOMAIN o.docs
      <4>1. CASE Gapless(m)
        BY <2>4, <4>1
      <4>2. CASE \A i \in DOMAIN entries : entries[i].op = "delete"
        BY <1>1, <2>5, <4>2 DEF Tells
      <4> QED
        BY <2>9, <4>1, <4>2 DEF Sighted
    <3>2. Complete(o, e.id) /\ \A i \in Ids \ {e.id} : Complete(b, i) => Complete(o, i)
      BY <2>5, <3>1 DEF Changes
    <3>3. id # e.id => Complete(b, id)
      BY <2>4, <2>6, <2>9
    <3> QED
      BY <3>2, <3>3
  <2> QED
    BY <2>1, <2>4, <2>5, <2>6, <2>7, <2>8, <2>9 DEF Changes
<1> HIDE DEF Fine
<1>7. N \in Fine
  <2>1. 0 .. N \subseteq Fine
    BY <1>1, <1>5, <1>6, IntervalInduction
  <2> QED
    BY <1>1, <2>1
<1>8. Right(n, N)
  <2> HIDE DEF Right
  <2> QED
    BY <1>2, <1>7 DEF Fine
<1>9. entries = <<>> => N = 0
  BY DEF N
<1> QED
  BY <1>8, <1>9 DEF N

-----------------------------------------------------------------------------
(* The invariant: the log leads from the saved documents to those in       *)
(* memory, and what it does not mention the saved index has if the saved   *)
(* documents do.                                                           *)

Distinct(vectors) == \A a, b \in DOMAIN vectors : vectors[a] = vectors[b] => a = b

MemoryInv ==
    /\ MemOK(mem) /\ Agrees(mem) /\ mem.index.kind \in Asked(config)
    /\ Distinct(mem.cache.vectors)
    /\ \A id \in Ids : Fits(mem, id) /\ (~patchy => Complete(mem, id))

SavedInv ==
    /\ DOMAIN saved = {"docs", "index"} /\ saved.docs \in Partial(Docs)
    /\ log \in Seq(Entry) /\ Recalls(log, Len(log), saved.docs, mem.docs)
    /\ IF saved.index = NoIndex THEN DOMAIN saved.docs = {}
       ELSE /\ IndexOK(saved.index) /\ saved.index.kind \in Asked(config)
            /\ \A id \in Ids \ Mentioned(log, Len(log)) :
                Fits(saved, id) /\ (~patchy => Complete(saved, id))

SearchInv ==
    /\ config \in Configs
    /\ MemoryInv /\ SavedInv
    /\ writes \in 0 .. MaxWrites /\ patchy \in BOOLEAN

\* A saved index can be told from a missing one.
LEMMA NoIndexFacts == \A x : IndexOK(x) => x # NoIndex
BY ConstantsAssumption DEF IndexOK, NoIndex, Kinds

\* SearchInv holds at first ...
LEMMA InitSearch == Init => SearchInv
<1> SUFFICES ASSUME Init PROVE SearchInv
  OBVIOUS
<1> DEFINE x == Index!CreateIndex(config, 0)
<1>1. config \in Configs /\ mem = [docs |-> <<>>, cache |-> Cache!New, index |-> x]
  BY DEF Init
<1>2. IndexOK(x) /\ x.kind \in Asked(config) /\ Indexed(x) = {}
  BY <1>1, CreateOK DEF Blank
<1> HIDE DEF x
<1>3. DOMAIN mem = MemFields /\ mem.docs = <<>> /\ mem.cache = Cache!New /\ mem.index = x
  BY <1>1 DEF MemFields
<1>4. <<>> \in Partial(Docs) /\ DOMAIN <<>> = {}
  BY EmptyFacts
<1>5. MemoryInv
  <2>1. DOMAIN mem.cache.vectors = {} /\ DOMAIN mem.cache.metadata = {}
    BY <1>3, <1>4, NewCacheOK
  <2>2. Backed(mem)
    BY <2>1 DEF Backed
  <2>3. MemOK(mem)
    BY <1>2, <1>3, <1>4, <2>2, NewCacheOK DEF MemOK
  <2>4. Agrees(mem) /\ Distinct(mem.cache.vectors)
    BY <1>3, <1>4, <2>1 DEF Agrees, Distinct
  <2>5. \A id \in Ids : Fits(mem, id) /\ Complete(mem, id)
    BY <1>2, <1>3, <1>4 DEF Fits, Complete
  <2> QED
    BY <1>2, <1>3, <2>3, <2>4, <2>5 DEF MemoryInv
<1>6. SavedInv
  <2>1. /\ DOMAIN saved = {"docs", "index"} /\ saved.docs = <<>> /\ saved.index = NoIndex
        /\ log = <<>>
    BY DEF Init
  <2>2. log \in Seq(Entry) /\ Len(log) = 0
    BY <2>1
  <2>3. Recalls(log, 0, saved.docs, mem.docs)
    BY <1>3, <2>1, RecallsNothing
  <2> QED
    BY <1>4, <2>1, <2>2, <2>3 DEF SavedInv
<1>7. writes \in 0 .. MaxWrites /\ patchy \in BOOLEAN
  <2>1. MaxWrites \in Nat
    BY ConstantsAssumption
  <2>2. 0 \in 0 .. MaxWrites
    BY <2>1
  <2>3. writes = 0 /\ patchy = FALSE
    BY DEF Init
  <2> QED
    BY <2>2, <2>3
<1> QED
  BY <1>1, <1>5, <1>6, <1>7 DEF SearchInv

\* What is saved with nothing logged since is what memory has.
LEMMA SavedAll ==
    ASSUME MemoryInv', DOMAIN saved' = {"docs", "index"}, saved.docs' = mem.docs',
           saved.index' = mem.index', log' = <<>>
    PROVE  SavedInv'
<1>1. saved.index' # NoIndex /\ saved.docs' \in Partial(Docs) /\ IndexOK(saved.index')
  BY NoIndexFacts DEF MemoryInv, MemOK
<1>2. log' \in Seq(Entry) /\ Len(log') = 0
  OBVIOUS
<1>3. \A id \in Ids : Fits(saved', id) /\ (~patchy' => Complete(saved', id))
  BY DEF MemoryInv, Fits, Complete
<1>4. Recalls(log', 0, saved.docs', mem.docs')
  BY RecallsNothing
<1> QED
  BY <1>1, <1>2, <1>3, <1>4 DEF SavedInv, MemoryInv

\* All that waits for clusters is cached, for it is a document.
LEMMA MemoryGapless == MemoryInv => Gapless(mem)
<1> SUFFICES ASSUME MemoryInv, mem.index.kind = "Ivf", NEW id \in mem.index.pending
             PROVE  id \in DOMAIN mem.cache.vectors
  BY DEF Gapless
<1>1. id \in Indexed(mem.index) /\ id \in Ids
  BY DEF MemoryInv, MemOK, IndexOK, Indexed, Held
<1>2. id \in DOMAIN mem.docs
  BY <1>1 DEF MemoryInv, Fits
<1> QED
  BY <1>2 DEF MemoryInv, Agrees

\* What a write does to memory, whatever the index misses.
Writes(id, n) ==
    /\ MemOK(n) /\ n.index.kind = mem.index.kind /\ Agrees(n)
    /\ Distinct(n.cache.vectors)
    /\ \A i \in Ids \ {id} : Same(mem.docs, n.docs, i)
    /\ \A i \in Ids : Fits(n, i) /\ (Complete(mem, i) => Complete(n, i))

\* A change in memory is a write if its vectors are distinct.
LEMMA ChangesWrite ==
    ASSUME MemoryInv, NEW id \in Ids, NEW n, Changes(mem, id, n), Distinct(n.cache.vectors)
    PROVE  Writes(id, n)
<1>1. Gapless(mem) /\ Agrees(mem)
  BY MemoryGapless DEF MemoryInv
<1>2. \A i \in Ids : Fits(n, i) /\ (Complete(mem, i) => Complete(n, i))
  BY <1>1 DEF Changes, MemoryInv
<1> QED
  BY <1>1, <1>2 DEF Changes, Writes

\* A write is logged, or saved with everything else.
LEMMA WriteOK ==
    ASSUME SearchInv, NEW entry \in Entry, NEW outcomes,
           \A n \in outcomes : Writes(entry.id, n) /\ Tells(entry, n.docs),
           Write(outcomes, entry)
    PROVE  SearchInv'
<1>1. /\ Writes(entry.id, mem') /\ Tells(entry, mem.docs')
      /\ Track(entry) /\ config' = config /\ patchy' = patchy
  BY DEF Write
<1>2. writes' \in 0 .. MaxWrites
  <2>1. MaxWrites \in Nat /\ writes \in Nat /\ writes < MaxWrites /\ writes' = writes + 1
    BY ConstantsAssumption DEF SearchInv, Write
  <2> QED
    BY <2>1
<1>3. MemoryInv'
  <2>1. MemoryInv
    BY DEF SearchInv
  <2>2. \A id \in Ids : Fits(mem', id) /\ (~patchy' => Complete(mem', id))
    BY <1>1, <2>1 DEF Writes, MemoryInv
  <2>3. /\ MemOK(mem') /\ Agrees(mem') /\ mem.index.kind' \in Asked(config')
        /\ Distinct(mem.cache.vectors')
    BY <1>1, <2>1 DEF Writes, MemoryInv
  <2> QED
    BY <2>2, <2>3 DEF MemoryInv
<1>4. SavedInv'
  <2>1. CASE ops + 1 >= CheckpointFrequency
    <3>1. log' = <<>> /\ saved' = [docs |-> mem'.docs, index |-> mem'.index]
      BY <1>1, <2>1 DEF Track
    <3>2. DOMAIN saved' = {"docs", "index"} /\ saved.docs' = mem.docs' /\ saved.index' = mem.index'
      BY <3>1
    <3> QED
      BY <1>3, <3>1, <3>2, SavedAll
  <2>2. CASE ~(ops + 1 >= CheckpointFrequency)
    <3> DEFINE n == Len(log)
               longer == Append(log, entry)
    <3>1. log' = longer /\ saved' = saved
      BY <1>1, <2>2 DEF Track
    <3>2. log \in Seq(Entry) /\ Recalls(log, n, saved.docs, mem.docs)
      BY DEF SearchInv, SavedInv
    <3>3. /\ n \in Nat /\ longer \in Seq(Entry) /\ Len(longer) = n + 1 /\ longer[n + 1] = entry
          /\ \A i \in 1 .. n : longer[i] = log[i]
          /\ \A i \in 1 .. n + 1 : longer[i] \in Entry
      BY <3>2
    <3> HIDE DEF n, longer
    <3>4. Recalls(longer, n, saved.docs, mem.docs) /\ Mentioned(longer, n) = Mentioned(log, n)
      <4>1. Mentioned(longer, n) = Mentioned(log, n)
        BY <3>3 DEF Mentioned
      <4>2. \A i \in 1 .. n : Last(longer, i, n) = Last(log, i, n)
        BY <3>3 DEF Last
      <4> QED
        BY <3>2, <3>3, <4>1, <4>2 DEF Recalls
    <3>5. /\ Recalls(longer, n + 1, saved.docs, mem.docs')
          /\ Mentioned(longer, n + 1) = Mentioned(log, n) \union {entry.id}
      <4> DEFINE k == n + 1
      <4>1. k \in Nat /\ k # 0 /\ k - 1 = n
        BY <3>3
      <4>2. \A id \in Ids \ {entry.id} : Same(mem.docs, mem.docs', id)
        BY <1>1 DEF Writes
      <4>3. longer[k] = entry /\ \A i \in 1 .. k : longer[i] \in Entry
        BY <3>3
      <4> HIDE DEF k
      <4>4. /\ Recalls(longer, k, saved.docs, mem.docs')
            /\ Mentioned(longer, k) = Mentioned(longer, k - 1) \union {longer[k].id}
        BY <1>1, <3>4, <4>1, <4>2, <4>3, RecallsMore
      <4> QED
        BY <3>4, <4>1, <4>3, <4>4 DEF k
    <3>6. \A id \in Ids \ Mentioned(longer, n + 1) : id \in Ids \ Mentioned(log, n)
      BY <3>5
    <3> QED
      BY <1>1, <3>1, <3>3, <3>5, <3>6 DEF SearchInv, SavedInv, n
  <2> QED
    BY <2>1, <2>2
<1> QED
  BY <1>1, <1>2, <1>3, <1>4 DEF SearchInv

\* A vector that is fresh may be cached.
LEMMA FreshOK ==
    ASSUME SearchInv, NEW id \in Ids, NEW n, Changes(mem, id, n), id \in DOMAIN n.docs,
           Fresh(id, n.docs[id].vector)
    PROVE  Distinct(n.cache.vectors)
<1>1. Agrees(n) /\ Distinct(mem.cache.vectors)
  BY DEF SearchInv, MemoryInv, Changes
<1>2. id \in DOMAIN n.cache.vectors /\ n.cache.vectors[id] = n.docs[id].vector
  BY <1>1 DEF Agrees
<1>3. \A i \in DOMAIN n.cache.vectors \ {id} :
        i \in DOMAIN mem.cache.vectors /\ n.cache.vectors[i] = mem.cache.vectors[i]
  BY DEF Changes
<1>4. \A i \in DOMAIN n.cache.vectors \ {id} : n.cache.vectors[i] # n.cache.vectors[id]
  BY <1>2, <1>3 DEF Fresh
<1> QED
  BY <1>1, <1>3, <1>4 DEF Distinct

\* Inserted and updated documents are documents.
LEMMA DocumentFacts ==
    /\ \A doc \in Documents : doc \in Docs
    /\ \A doc \in Docs, p \in Points : [doc EXCEPT !.vector = p] \in Docs
    /\ \A doc \in Docs, d \in Metas : [doc EXCEPT !.metadata = d] \in Docs
<1>1. Documents \subseteq Docs
  BY ConstantsAssumption DEF Docs
<1> QED
  BY <1>1 DEF Docs

\* insert and upsert.
LEMMA WritesOK ==
    ASSUME SearchInv, NEW id \in Ids, NEW doc \in Documents,
           Insert(id, doc) \/ Upsert(id, doc)
    PROVE  SearchInv'
<1>1. MemOK(mem) /\ doc \in Docs
  BY DocumentFacts DEF SearchInv, MemoryInv
<1>2. CASE Insert(id, doc)
  <2> DEFINE entry == [op |-> "insert", id |-> id, doc |-> doc]
             outcomes == InsertInternal(mem, id, doc)
  <2>1. entry \in Entry /\ entry.id = id /\ entry.op = "insert" /\ entry.doc = doc
    BY <1>1 DEF Entry
  <2>2. ASSUME NEW n \in outcomes
        PROVE  Writes(id, n) /\ Tells(entry, n.docs)
    <3>1. Changes(mem, id, n) /\ id \in DOMAIN n.docs /\ n.docs[id] = doc
      BY <1>1, InsertInternalOK
    <3>2. Fresh(id, n.docs[id].vector)
      BY <1>2, <3>1 DEF Insert
    <3>3. MemoryInv /\ Distinct(n.cache.vectors)
      BY <3>1, <3>2, FreshOK DEF SearchInv
    <3>4. Writes(id, n)
      BY <3>1, <3>3, ChangesWrite
    <3> QED
      BY <2>1, <3>1, <3>4 DEF Tells
  <2>3. Write(outcomes, entry)
    BY <1>2 DEF Insert
  <2> HIDE DEF entry, outcomes
  <2> QED
    BY <2>1, <2>2, <2>3, WriteOK
<1>3. CASE Upsert(id, doc)
  <2> DEFINE entry == [op |-> "update", id |-> id, doc |-> doc]
             outcomes == Replace(mem, id, doc)
  <2>1. entry \in Entry /\ entry.id = id /\ entry.op = "update" /\ entry.doc = doc
    BY <1>1 DEF Entry
  <2>2. ASSUME NEW n \in outcomes
        PROVE  Writes(id, n) /\ Tells(entry, n.docs)
    <3>1. Changes(mem, id, n) /\ id \in DOMAIN n.docs /\ n.docs[id] = doc
      BY <1>1, ReplaceOK
    <3>2. Fresh(id, n.docs[id].vector)
      BY <1>3, <3>1 DEF Upsert
    <3>3. MemoryInv /\ Distinct(n.cache.vectors)
      BY <3>1, <3>2, FreshOK DEF SearchInv
    <3>4. Writes(id, n)
      BY <3>1, <3>3, ChangesWrite
    <3> QED
      BY <2>1, <3>1, <3>4 DEF Tells
  <2>3. Write(outcomes, entry)
    BY <1>3 DEF Upsert
  <2> HIDE DEF entry, outcomes
  <2> QED
    BY <2>1, <2>2, <2>3, WriteOK
<1> QED
  BY <1>2, <1>3

\* delete.
LEMMA DeleteOK ==
    ASSUME SearchInv, NEW id \in Ids, Delete(id)
    PROVE  SearchInv'
<1> DEFINE entry == [op |-> "delete", id |-> id]
           outcomes == DeleteInternal(mem, id)
<1>1. /\ MemOK(mem) /\ Distinct(mem.cache.vectors)
      /\ entry \in Entry /\ entry.id = id /\ entry.op = "delete"
  BY DEF SearchInv, MemoryInv, Entry
<1>2. ASSUME NEW n \in outcomes
      PROVE  Writes(id, n) /\ Tells(entry, n.docs)
  <2>1. /\ Changes(mem, id, n) /\ id \notin DOMAIN n.docs
        /\ \A i \in DOMAIN n.cache.vectors :
              i \in DOMAIN mem.cache.vectors /\ n.cache.vectors[i] = mem.cache.vectors[i]
    BY <1>1, DeleteInternalOK
  <2>2. MemoryInv /\ Distinct(n.cache.vectors)
    BY <1>1, <2>1 DEF Distinct, SearchInv
  <2>3. Writes(id, n)
    BY <2>1, <2>2, ChangesWrite
  <2> QED
    BY <1>1, <2>1, <2>3 DEF Tells
<1>3. Write(outcomes, entry)
  BY DEF Delete
<1> HIDE DEF entry, outcomes
<1> QED
  BY <1>1, <1>2, <1>3, WriteOK

\* Replacing the metadata of a document leaves its vector where it is.
LEMMA UpdateMetadataOK ==
    ASSUME SearchInv, NEW id \in Ids, NEW metadata \in Metas, UpdateMetadata(id, metadata)
    PROVE  SearchInv'
<1> DEFINE doc == [mem.docs[id] EXCEPT !.metadata = metadata]
           c == Cache!PutMetadata(mem.cache, id, metadata)
           docs == [mem.docs EXCEPT ![id] = doc]
           n == [mem EXCEPT !.docs = docs, !.cache = c]
           entry == [op |-> "update", id |-> id, doc |-> doc]
<1>1. /\ MemOK(mem) /\ mem.docs \in Partial(Docs) /\ CacheOK(mem.cache) /\ IndexOK(mem.index)
      /\ Backed(mem) /\ Distinct(mem.cache.vectors) /\ id \in DOMAIN mem.docs
  BY DEF SearchInv, MemoryInv, MemOK, UpdateMetadata, CurrentIds
<1>2. mem.docs[id] \in Docs
  BY <1>1, PartialFacts
<1>3. doc \in Docs /\ doc.metadata = metadata /\ doc.vector = mem.docs[id].vector
  BY <1>2 DEF Docs
<1>4. Write({n}, entry)
  <2>1. n = [mem EXCEPT !.docs[id] = doc, !.cache = Cache!PutMetadata(@, id, metadata)]
    BY <1>1 DEF MemOK, MemFields
  <2> QED
    BY <2>1 DEF UpdateMetadata
<1>5. /\ CacheOK(c) /\ c.vectors = mem.cache.vectors
      /\ DOMAIN c.metadata \subseteq DOMAIN mem.cache.metadata \union {id}
      /\ \A i \in DOMAIN c.metadata :
            c.metadata[i] = IF i = id THEN metadata ELSE mem.cache.metadata[i]
  BY <1>1, PutMetadataOK
<1>6. entry \in Entry /\ entry.id = id /\ entry.op = "update" /\ entry.doc = doc
  <2> HIDE DEF doc
  <2> QED
    BY <1>3 DEF Entry
<1> HIDE DEF doc, c, entry
<1>7. /\ DOMAIN docs = DOMAIN mem.docs /\ docs[id] = doc
      /\ \A i \in DOMAIN docs : i # id => docs[i] = mem.docs[i]
  BY <1>1
<1>8. docs \in Partial(Docs)
  <2>1. DOMAIN mem.docs \subseteq Ids /\ \A i \in DOMAIN mem.docs : mem.docs[i] \in Docs
    BY <1>1, PartialFacts
  <2>2. docs = [i \in DOMAIN docs |-> docs[i]]
    OBVIOUS
  <2> HIDE DEF docs
  <2>3. \A i \in DOMAIN docs : docs[i] \in Docs
    BY <1>3, <1>7, <2>1
  <2> QED
    BY <1>7, <2>1, <2>2, <2>3, PartialFacts
<1> HIDE DEF docs
<1>9. DOMAIN n = MemFields /\ n.docs = docs /\ n.cache = c /\ n.index = mem.index
  BY <1>1 DEF MemOK, MemFields
<1> HIDE DEF n
<1>10. MemOK(n)
  <2>1. Backed(n)
    BY <1>1, <1>5, <1>7, <1>9 DEF Backed
  <2> QED
    BY <1>1, <1>5, <1>8, <1>9, <2>1 DEF MemOK
<1>11. \A i \in Ids : Fits(n, i) /\ (Complete(mem, i) => Complete(n, i))
  BY <1>7, <1>9 DEF SearchInv, MemoryInv, Fits, Complete
<1>12. Agrees(n)
  <2>1. Agrees(mem)
    BY DEF SearchInv, MemoryInv
  <2>2. \A i \in DOMAIN docs : docs[i].vector = mem.docs[i].vector
    BY <1>3, <1>7
  <2>3. \A i \in DOMAIN c.metadata : c.metadata[i] = docs[i].metadata /\ i \in DOMAIN docs
    BY <1>1, <1>3, <1>5, <1>7, <2>1 DEF Agrees
  <2> QED
    BY <1>5, <1>7, <1>9, <2>1, <2>2, <2>3 DEF Agrees
<1>13. Writes(id, n)
  <2>1. Distinct(n.cache.vectors)
    BY <1>1, <1>5, <1>9
  <2>2. \A i \in Ids \ {id} : Same(mem.docs, n.docs, i)
    BY <1>7, <1>9 DEF Same
  <2> QED
    BY <1>9, <1>10, <1>11, <1>12, <2>1, <2>2 DEF Writes
<1>14. Tells(entry, n.docs)
  BY <1>1, <1>6, <1>7, <1>9 DEF Tells
<1> QED
  BY <1>4, <1>6, <1>13, <1>14, WriteOK

\* The vector is cached before the index drops and takes the id.
LEMMA UpdateVectorOK ==
    ASSUME SearchInv, NEW id \in Ids, NEW vector \in Points, UpdateVector(id, vector)
    PROVE  SearchInv'
<1> DEFINE doc == [mem.docs[id] EXCEPT !.vector = vector]
           b == Cache!PutVector(mem.cache, id, vector)
           c == Cache!PutMetadata(b, id, doc.metadata)
           docs == Cache!With(mem.docs, id, doc)
           indexes == UNION {Index!Insert(removed, id, c.vectors) :
                                removed \in Index!Remove(mem.index, id)}
           outcomes == {[docs |-> docs, cache |-> c, index |-> x] : x \in indexes}
           entry == [op |-> "update", id |-> id, doc |-> doc]
<1>1. /\ MemOK(mem) /\ mem.docs \in Partial(Docs) /\ CacheOK(mem.cache) /\ IndexOK(mem.index)
      /\ Backed(mem) /\ Agrees(mem) /\ MemoryInv /\ Gapless(mem) /\ id \in DOMAIN mem.docs
  BY MemoryGapless DEF SearchInv, MemoryInv, MemOK, UpdateVector, CurrentIds
<1>2. mem.docs[id] \in Docs
  BY <1>1, PartialFacts
<1>3. doc \in Docs /\ doc.vector = vector /\ doc.metadata \in Metas
  BY <1>2 DEF Docs
<1>4. Write(outcomes, entry) /\ Fresh(id, vector)
  BY DEF UpdateVector
<1> HIDE DEF doc
<1>5. /\ CacheOK(b) /\ b.metadata = mem.cache.metadata
      /\ DOMAIN b.vectors = DOMAIN mem.cache.vectors \union {id} /\ b.vectors[id] = vector
      /\ \A i \in DOMAIN mem.cache.vectors : i # id => b.vectors[i] = mem.cache.vectors[i]
  BY <1>1, PutVectorOK
<1> HIDE DEF b
<1>6. /\ CacheOK(c) /\ c.vectors = b.vectors
      /\ DOMAIN c.metadata \subseteq DOMAIN b.metadata \union {id}
      /\ \A i \in DOMAIN c.metadata : c.metadata[i] = IF i = id THEN doc.metadata ELSE b.metadata[i]
  BY <1>3, <1>5, PutMetadataOK
<1>7. entry \in Entry /\ entry.id = id /\ entry.op = "update" /\ entry.doc = doc
  BY <1>3 DEF Entry
<1> HIDE DEF c, entry
<1>8. /\ docs \in Partial(Docs) /\ DOMAIN docs = DOMAIN mem.docs /\ docs[id] = doc
      /\ \A i \in DOMAIN mem.docs : i # id => docs[i] = mem.docs[i]
  <2>1. /\ docs \in Partial(Docs) /\ DOMAIN docs = DOMAIN mem.docs \union {id} /\ docs[id] = doc
        /\ \A i \in DOMAIN mem.docs : i # id => docs[i] = mem.docs[i]
    BY <1>1, <1>3, DocsWith
  <2> HIDE DEF docs
  <2> QED
    BY <1>1, <2>1
<1> HIDE DEF docs
<1>9. /\ DOMAIN c.vectors = DOMAIN mem.cache.vectors /\ id \in DOMAIN c.vectors
      /\ c.vectors[id] = vector /\ c.vectors \in Partial(Points)
      /\ \A i \in DOMAIN c.vectors : i # id => c.vectors[i] = mem.cache.vectors[i]
  BY <1>1, <1>5, <1>6 DEF Agrees, CacheOK
<1>10. ASSUME NEW x \in indexes
       PROVE  /\ IndexOK(x) /\ x.kind = mem.index.kind
              /\ Indexed(x) \subseteq Indexed(mem.index) \union DOMAIN c.vectors
              /\ x.kind # "Ivf" => Indexed(x) = Indexed(mem.index) \union {id}
              /\ x.kind = "Ivf" /\ NumClusters # 0 => Indexed(mem.index) \subseteq Indexed(x)
              /\ x.kind = "Hnsw" => DOMAIN mem.index.nodes \subseteq DOMAIN x.nodes
  <2>1. PICK removed \in Index!Remove(mem.index, id) : x \in Index!Insert(removed, id, c.vectors)
    OBVIOUS
  <2>2. /\ IndexOK(removed) /\ removed.kind = mem.index.kind
        /\ Indexed(removed) = Indexed(mem.index) \ {id}
        /\ mem.index.kind = "Ivf" => removed.pending = mem.index.pending \ {id}
        /\ mem.index.kind = "Hnsw" => DOMAIN removed.nodes = DOMAIN mem.index.nodes
    BY <1>1, RemoveIndexOK
  <2>3. Grows(removed, x, id, c.vectors)
    BY <1>9, <2>1, <2>2, InsertOK
  <2>4. removed.kind = "Ivf" => removed.pending \subseteq DOMAIN c.vectors
    BY <1>1, <1>9, <2>2 DEF Gapless
  <2> QED
    BY <1>9, <2>2, <2>3, <2>4 DEF Grows
<1> HIDE DEF indexes
<1>11. ASSUME NEW n \in outcomes PROVE Writes(id, n) /\ Tells(entry, n.docs)
  <2>1. PICK x \in indexes : n = [docs |-> docs, cache |-> c, index |-> x]
    OBVIOUS
  <2>2. DOMAIN n = MemFields /\ n.docs = docs /\ n.cache = c /\ n.index = x
    BY <2>1 DEF MemFields
  <2>3. Backed(n)
    BY <1>1, <1>8, <1>9, <1>10, <2>2 DEF Backed
  <2>4. MemOK(n)
    BY <1>6, <1>8, <1>10, <2>2, <2>3 DEF MemOK
  <2>5. \A i \in Ids : Fits(n, i) /\ (Complete(mem, i) => Complete(n, i))
    <3>1. SUFFICES ASSUME NEW i \in Ids PROVE Fits(n, i) /\ (Complete(mem, i) => Complete(n, i))
      OBVIOUS
    <3>2. Fits(mem, i)
      BY <1>1 DEF MemoryInv
    <3>3. x.kind # "Hnsw" => DOMAIN c.vectors \subseteq DOMAIN docs
      BY <1>1, <1>8, <1>9, <1>10 DEF Backed
    <3>4. i \in Indexed(x) => i \in DOMAIN docs
      BY <1>1, <1>8, <1>10, <3>2, <3>3 DEF Fits
    <3>5. x.kind # "Ivf" => (i \in DOMAIN docs => i \in Indexed(x))
      BY <1>8, <1>10, <3>2 DEF Fits
    <3>6. Complete(mem, i) => Complete(n, i)
      BY <1>8, <1>10, <2>2 DEF Complete
    <3> QED
      BY <2>2, <3>4, <3>5, <3>6 DEF Fits
  <2>6. Agrees(n)
    BY <1>1, <1>3, <1>5, <1>6, <1>8, <1>9, <2>2 DEF Agrees
  <2>7. \A i \in Ids \ {id} : Same(mem.docs, n.docs, i)
    BY <1>8, <2>2 DEF Same
  <2>8. Distinct(n.cache.vectors)
    <3>1. \A i \in DOMAIN c.vectors : i # id => c.vectors[i] # vector
      BY <1>4, <1>9 DEF Fresh
    <3> QED
      BY <1>1, <1>9, <2>2, <3>1 DEF MemoryInv, Distinct
  <2>9. Tells(entry, n.docs)
    BY <1>1, <1>7, <1>8, <2>2 DEF Tells
  <2> QED
    BY <1>10, <2>2, <2>4, <2>5, <2>6, <2>7, <2>8, <2>9 DEF Writes
<1> HIDE DEF outcomes
<1> QED
  BY <1>4, <1>7, <1>11, WriteOK

-----------------------------------------------------------------------------
(* Maintenance and restarts.                                               *)

\* An eviction.
LEMMA ClearMetadataCacheOK ==
    ASSUME SearchInv, ClearMetadataCache
    PROVE  SearchInv'
<1> DEFINE c == Cache!ClearMetadata(mem.cache)
<1>1. /\ MemOK(mem) /\ CacheOK(mem.cache) /\ Agrees(mem) /\ Backed(mem) /\ MemoryInv /\ SavedInv
      /\ mem' = [mem EXCEPT !.cache = c]
      /\ UNCHANGED <<config, saved, log, ops, writes, patchy>>
  BY DEF SearchInv, MemoryInv, MemOK, ClearMetadataCache
<1>2. CacheOK(c) /\ c.vectors = mem.cache.vectors /\ DOMAIN c.metadata = {}
  BY <1>1, ClearMetadataOK
<1> HIDE DEF c
<1>3. DOMAIN mem' = MemFields /\ mem.docs' = mem.docs /\ mem.cache' = c /\ mem.index' = mem.index
  BY <1>1 DEF MemOK, MemFields
<1>4. MemOK(mem')
  BY <1>1, <1>2, <1>3 DEF MemOK, Backed
<1>5. Agrees(mem') /\ Distinct(mem.cache.vectors')
  BY <1>1, <1>2, <1>3 DEF Agrees, MemoryInv
<1>6. \A id \in Ids : Fits(mem', id) /\ (~patchy' => Complete(mem', id))
  BY <1>1, <1>3 DEF MemoryInv, Fits, Complete
<1>7. MemoryInv'
  BY <1>1, <1>3, <1>4, <1>5, <1>6 DEF MemoryInv
<1>8. SavedInv'
  BY <1>1, <1>3 DEF SavedInv
<1> QED
  BY <1>1, <1>7, <1>8 DEF SearchInv

\* Memory with a cache rebuilt from its documents.
LEMMA RebuiltOK ==
    ASSUME NEW docs \in Partial(Docs), NEW cache \in RebuiltCaches(docs), NEW index, IndexOK(index),
           index.kind = "Hnsw" => DOMAIN docs \subseteq DOMAIN index.nodes,
           NEW n, DOMAIN n = MemFields, n.docs = docs, n.cache = cache, n.index = index
    PROVE  MemOK(n) /\ Agrees(n)
<1>1. Holds(cache, docs, DOMAIN docs)
  BY RebuiltFacts
<1>2. MemOK(n)
  BY <1>1 DEF MemOK, Backed, Holds
<1>3. Agrees(n)
  BY <1>1 DEF Agrees, Holds
<1> QED
  BY <1>2, <1>3

\* The cached vectors stay distinct when they are rebuilt from documents whose
\* vectors were cached.
LEMMA DistinctAgain ==
    ASSUME NEW m, NEW n, Agrees(m), Distinct(m.cache.vectors), Agrees(n), n.docs = m.docs,
           DOMAIN n.cache.vectors \subseteq DOMAIN n.docs
    PROVE  Distinct(n.cache.vectors)
<1>1. \A id \in DOMAIN n.cache.vectors :
        id \in DOMAIN m.cache.vectors /\ n.cache.vectors[id] = m.cache.vectors[id]
  BY DEF Agrees
<1> QED
  BY <1>1 DEF Distinct

\* A rebuilt index has the documents and nothing else.
LEMMA RebuildOK ==
    ASSUME SearchInv, NEW growing \in BOOLEAN, Rebuild(growing)
    PROVE  /\ MemoryInv' /\ mem.docs' = mem.docs /\ config' = config
           /\ writes' \in 0 .. MaxWrites /\ patchy' \in BOOLEAN
           /\ \A id \in Ids : Complete(mem', id)
<1> DEFINE x == Index!CreateIndex(config, Cardinality(CurrentIds))
           vectors == VectorsOf(mem.docs)
<1>1. /\ MemOK(mem) /\ mem.docs \in Partial(Docs) /\ config \in Configs
      /\ Agrees(mem) /\ Distinct(mem.cache.vectors)
  BY DEF SearchInv, MemoryInv, MemOK
<1>2. PICK y \in Index!Build(x, vectors, growing) : \E cache \in RebuiltCaches(mem.docs) :
        mem' = [mem EXCEPT !.index = y, !.cache = cache]
  BY DEF Rebuild
<1>3. PICK cache \in RebuiltCaches(mem.docs) : mem' = [mem EXCEPT !.index = y, !.cache = cache]
  BY <1>2
<1>4. Blank(x) /\ x.kind \in Asked(config)
  BY <1>1, CreateOK
<1>5. DOMAIN vectors = DOMAIN mem.docs /\ vectors \in Partial(Points) /\ DOMAIN vectors \subseteq Ids
  <2>1. DOMAIN mem.docs \subseteq Ids /\ \A id \in DOMAIN mem.docs : mem.docs[id] \in Docs
    BY <1>1, PartialFacts
  <2>2. \A id \in DOMAIN mem.docs : mem.docs[id].vector \in Points
    BY <2>1 DEF Docs
  <2>3. /\ DOMAIN vectors = DOMAIN mem.docs /\ vectors = [id \in DOMAIN vectors |-> vectors[id]]
        /\ \A id \in DOMAIN vectors : vectors[id] = mem.docs[id].vector
    BY DEF VectorsOf
  <2> HIDE DEF vectors
  <2>4. \A id \in DOMAIN vectors : vectors[id] \in Points
    BY <2>2, <2>3
  <2> QED
    BY <2>1, <2>3, <2>4, PartialFacts
<1> HIDE DEF x, vectors
<1>6. /\ IndexOK(y) /\ y.kind = x.kind /\ Indexed(y) \subseteq DOMAIN vectors
      /\ y.kind # "Ivf" \/ NumClusters # 0 => Indexed(y) = DOMAIN vectors
      /\ y.kind = "Hnsw" => DOMAIN vectors \subseteq DOMAIN y.nodes
  BY <1>2, <1>4, <1>5, BuildOK
<1>7. DOMAIN mem' = MemFields /\ mem.docs' = mem.docs /\ mem.cache' = cache /\ mem.index' = y
  BY <1>1, <1>3 DEF MemOK, MemFields
<1>8. MemOK(mem') /\ Agrees(mem')
  BY <1>1, <1>3, <1>5, <1>6, <1>7, RebuiltOK
<1>9. Distinct(mem.cache.vectors')
  <2>1. Holds(cache, mem.docs, DOMAIN mem.docs)
    BY <1>1, <1>3, RebuiltFacts
  <2>2. DOMAIN mem.cache.vectors' \subseteq DOMAIN mem.docs'
    BY <1>7, <2>1 DEF Holds
  <2> QED
    BY <1>1, <1>7, <1>8, <2>2, DistinctAgain
<1>10. \A id \in Ids : Fits(mem', id) /\ Complete(mem', id)
  BY <1>5, <1>6, <1>7 DEF Fits, Complete
<1>11. config' = config /\ patchy' \in BOOLEAN
  BY DEF Rebuild
<1>12. writes' \in 0 .. MaxWrites
  <2>1. MaxWrites \in Nat /\ writes \in Nat /\ writes < MaxWrites /\ writes' = writes + 1
    BY ConstantsAssumption DEF SearchInv, Rebuild
  <2> QED
    BY <2>1
<1>13. mem.index.kind' \in Asked(config')
  BY <1>4, <1>6, <1>7, <1>11
<1>14. MemoryInv'
  BY <1>8, <1>9, <1>10, <1>13 DEF MemoryInv
<1> QED
  BY <1>7, <1>10, <1>11, <1>12, <1>14

\* The index is saved beside documents that are as they were: what the log
\* does not mention is in both.
LEMMA RebuildIndexOK ==
    ASSUME SearchInv, RebuildIndex
    PROVE  SearchInv'
<1>1. /\ MemoryInv' /\ mem.docs' = mem.docs /\ config' = config
      /\ writes' \in 0 .. MaxWrites /\ patchy' \in BOOLEAN
      /\ \A id \in Ids : Complete(mem', id)
  BY RebuildOK DEF RebuildIndex
<1>2. SavedInv /\ config \in Configs
  BY DEF SearchInv
<1>3. DOMAIN saved' = {"docs", "index"} /\ saved.docs' = saved.docs /\ saved.index' = mem.index'
      /\ log' = log
  BY <1>2 DEF RebuildIndex, SavedInv
<1>4. IndexOK(saved.index') /\ saved.index'.kind \in Asked(config') /\ saved.index' # NoIndex
  BY <1>1, <1>3, NoIndexFacts DEF MemoryInv, MemOK
<1>5. ASSUME NEW id \in Ids \ Mentioned(log', Len(log'))
      PROVE  Fits(saved', id) /\ Complete(saved', id)
  <2>1. Same(saved.docs, mem.docs, id)
    BY <1>2, <1>3 DEF SavedInv, Recalls
  <2>2. Fits(mem', id) /\ Complete(mem', id)
    BY <1>1 DEF MemoryInv
  <2> QED
    BY <1>1, <1>3, <2>1, <2>2 DEF Fits, Complete, Same
<1>6. SavedInv'
  BY <1>1, <1>2, <1>3, <1>4, <1>5 DEF SavedInv
<1> QED
  BY <1>1, <1>2, <1>6 DEF SearchInv

\* compact saves everything.
LEMMA CompactOK ==
    ASSUME SearchInv, Compact
    PROVE  SearchInv'
<1>1. /\ MemoryInv' /\ mem.docs' = mem.docs /\ config' = config
      /\ writes' \in 0 .. MaxWrites /\ patchy' \in BOOLEAN
  BY RebuildOK DEF Compact
<1>2. /\ DOMAIN saved' = {"docs", "index"} /\ saved.docs' = mem.docs'
      /\ saved.index' = mem.index' /\ log' = <<>>
  BY DEF Compact
<1>3. SavedInv'
  BY <1>1, <1>2, SavedAll
<1> QED
  BY <1>1, <1>3 DEF SearchInv, MemoryInv

\* The documents of the log are those that memory has, and a replay mends what
\* the log mentions; the rest is saved as it was.
LEMMA RestartOK ==
    ASSUME SearchInv, Restart
    PROVE  SearchInv' /\ mem.docs' = mem.docs
<1> DEFINE m == [docs |-> saved.docs, cache |-> Cache!New, index |-> LoadedIndex]
           k == Len(log)
<1>1. /\ SavedInv /\ MemoryInv /\ config \in Configs /\ saved.docs \in Partial(Docs) /\ log \in Seq(Entry)
      /\ Recalls(log, Len(log), saved.docs, mem.docs)
  BY DEF SearchInv, SavedInv
<1>2. PICK n \in Replayed(m, log) : \E cache \in RebuiltCaches(n.docs) :
        mem' = [n EXCEPT !.cache = cache]
  BY DEF Restart
<1>3. PICK cache \in RebuiltCaches(n.docs) : mem' = [n EXCEPT !.cache = cache]
  BY <1>2
<1>4. DOMAIN m = MemFields /\ m.docs = saved.docs /\ m.cache = Cache!New /\ m.index = LoadedIndex
  BY DEF MemFields
<1> HIDE DEF m
<1>5. /\ IndexOK(m.index) /\ m.index.kind \in Asked(config)
      /\ saved.index = NoIndex => Blank(m.index)
  BY <1>1, <1>4, CreateOK DEF LoadedIndex, SavedInv, Blank
<1>6. MemOK(m) /\ DOMAIN m.cache.vectors = {}
  BY <1>1, <1>4, <1>5, NewCacheOK DEF MemOK, Backed
<1>7. ASSUME NEW id \in Ids \ Mentioned(log, k)
      PROVE  Fits(m, id) /\ (~patchy => Complete(m, id))
  <2>1. CASE saved.index = NoIndex
    <3>1. Indexed(m.index) = {} /\ DOMAIN m.docs = {}
      BY <1>1, <1>4, <1>5, <2>1 DEF SavedInv, Blank
    <3> QED
      BY <3>1 DEF Fits, Complete
  <2>2. CASE saved.index # NoIndex
    <3>1. m.index = saved.index /\ Fits(saved, id) /\ (~patchy => Complete(saved, id))
      BY <1>1, <1>4, <2>2 DEF LoadedIndex, SavedInv
    <3> QED
      BY <1>4, <3>1 DEF Fits, Complete
  <2> QED
    BY <2>1, <2>2
<1>8. /\ MemOK(n) /\ n.index.kind = m.index.kind
      /\ Recalls(log, k, m.docs, n.docs)
      /\ \A id \in Ids : id \in Mentioned(log, k) \/ Fits(m, id) => Fits(n, id)
      /\ Sighted(m, log) =>
            \A id \in Ids : id \in Mentioned(log, k) \/ Complete(m, id) => Complete(n, id)
      /\ log = <<>> => n = m
  BY <1>1, <1>2, <1>6, ReplayOK
<1>9. n.docs = mem.docs
  <2>1. k \in Nat /\ mem.docs \in Partial(Docs) /\ n.docs \in Partial(Docs)
    BY <1>1, <1>8 DEF MemoryInv, MemOK
  <2> HIDE DEF k
  <2>2. Recalls(log, k, saved.docs, mem.docs) /\ Recalls(log, k, saved.docs, n.docs)
    BY <1>1, <1>4, <1>8 DEF k
  <2> QED
    BY <2>1, <2>2, RecallsSame
<1>10. ASSUME ~InsertsBlindly PROVE Sighted(m, log)
  <2>1. CASE \A i \in DOMAIN log : log[i].op = "delete"
    BY <2>1 DEF Sighted
  <2>2. CASE \E i \in DOMAIN log : log[i].op # "delete"
    <3>1. ~(LoadedIndex.kind = "Ivf" /\ LoadedIndex.pending # {})
      BY <1>10, <2>2 DEF InsertsBlindly
    <3> QED
      BY <1>4, <3>1 DEF Sighted, Gapless
  <2> QED
    BY <2>1, <2>2
<1>11. /\ DOMAIN mem' = MemFields /\ mem.docs' = n.docs /\ mem.cache' = cache /\ mem.index' = n.index
  BY <1>3, <1>8 DEF MemOK, MemFields
<1>12. config' = config /\ writes' = writes /\ log' = <<>> /\ patchy' = (patchy \/ InsertsBlindly)
  BY DEF Restart
<1>13. \A id \in Ids : Fits(mem', id) /\ (~patchy' => Complete(mem', id))
  <2>1. \A id \in Ids : Fits(n, id)
    BY <1>7, <1>8
  <2>2. ~patchy' => \A id \in Ids : Complete(n, id)
    BY <1>7, <1>8, <1>10, <1>12
  <2> QED
    BY <1>11, <2>1, <2>2 DEF Fits, Complete
<1>14. MemOK(mem') /\ Agrees(mem')
  <2>1. n.docs \in Partial(Docs) /\ IndexOK(n.index)
    BY <1>8 DEF MemOK
  <2>2. n.index.kind = "Hnsw" => DOMAIN n.docs \subseteq DOMAIN n.index.nodes
    <3>1. DOMAIN n.docs \subseteq Ids
      BY <2>1, PartialFacts
    <3>2. n.index.kind = "Hnsw" => DOMAIN n.docs \subseteq Live(n.index)
      BY <1>11, <1>13, <3>1 DEF Fits, Indexed
    <3> QED
      BY <3>2, LiveIn
  <2> QED
    BY <1>3, <1>11, <2>1, <2>2, RebuiltOK
<1>15. MemoryInv'
  <2>1. Distinct(mem.cache.vectors')
    <3>1. Holds(cache, n.docs, DOMAIN n.docs)
      BY <1>3, <1>8, RebuiltFacts DEF MemOK
    <3>2. DOMAIN mem.cache.vectors' \subseteq DOMAIN mem.docs'
      BY <1>11, <3>1 DEF Holds
    <3> QED
      BY <1>1, <1>9, <1>11, <1>14, <3>2, DistinctAgain DEF MemoryInv
  <2>2. mem.index.kind' \in Asked(config')
    BY <1>5, <1>8, <1>11, <1>12
  <2> QED
    BY <1>13, <1>14, <2>1, <2>2 DEF MemoryInv
<1>16. SavedInv'
  <2>1. CASE log = <<>>
    <3>1. saved' = saved /\ k = 0 /\ log' = log
      BY <1>12, <2>1 DEF Restart
    <3>2. mem.docs' = mem.docs
      BY <1>9, <1>11
    <3>3. ~patchy' => ~patchy
      BY <1>12
    <3>4. /\ DOMAIN saved' = {"docs", "index"} /\ saved.docs' \in Partial(Docs)
          /\ log' \in Seq(Entry) /\ Recalls(log', Len(log'), saved.docs', mem.docs')
      BY <1>1, <3>1, <3>2 DEF SavedInv
    <3>5. IF saved.index' = NoIndex THEN DOMAIN saved.docs' = {}
          ELSE /\ IndexOK(saved.index') /\ saved.index.kind' \in Asked(config')
               /\ \A id \in Ids \ Mentioned(log', Len(log')) :
                    Fits(saved', id) /\ (~patchy' => Complete(saved', id))
      BY <1>1, <1>12, <3>1, <3>3 DEF SavedInv
    <3> QED
      BY <3>4, <3>5 DEF SavedInv
  <2>2. CASE log # <<>>
    <3>1. saved' = [docs |-> mem'.docs, index |-> mem'.index]
      BY <2>2 DEF Restart
    <3>2. DOMAIN saved' = {"docs", "index"} /\ saved.docs' = mem.docs' /\ saved.index' = mem.index'
      BY <3>1
    <3> QED
      BY <1>12, <1>15, <3>2, SavedAll
  <2> QED
    BY <2>1, <2>2
<1>17. patchy' \in BOOLEAN
  BY <1>12 DEF SearchInv, InsertsBlindly
<1> QED
  BY <1>9, <1>11, <1>12, <1>15, <1>16, <1>17 DEF SearchInv

\* ... and every step keeps it ...
LEMMA NextSearch == SearchInv /\ [Next]_vars => SearchInv'
<1> SUFFICES ASSUME SearchInv, [Next]_vars PROVE SearchInv'
  OBVIOUS
<1>1. ASSUME NEW id \in Ids, NEW doc \in Documents, Insert(id, doc) \/ Upsert(id, doc)
      PROVE  SearchInv'
  BY <1>1, WritesOK
<1>2. ASSUME NEW id \in Ids, NEW metadata \in Metas, UpdateMetadata(id, metadata)
      PROVE  SearchInv'
  BY <1>2, UpdateMetadataOK
<1>3. ASSUME NEW id \in Ids, NEW vector \in Points, UpdateVector(id, vector)
      PROVE  SearchInv'
  BY <1>3, UpdateVectorOK
<1>4. ASSUME NEW id \in Ids, Delete(id) PROVE SearchInv'
  BY <1>4, DeleteOK
<1>5. CASE RebuildIndex
  BY <1>5, RebuildIndexOK
<1>6. CASE Compact
  BY <1>6, CompactOK
<1>7. CASE ClearMetadataCache
  BY <1>7, ClearMetadataCacheOK
<1>8. CASE Restart
  BY <1>8, RestartOK
<1>9. CASE UNCHANGED vars
  BY <1>9 DEF vars, SearchInv, MemoryInv, SavedInv
<1> QED
  BY <1>1, <1>2, <1>3, <1>4, <1>5, <1>6, <1>7, <1>8, <1>9 DEF Next

\* ... so that it always holds.
LEMMA AlwaysSearchInv == Spec => []SearchInv
BY InitSearch, NextSearch, PTL DEF Spec

-----------------------------------------------------------------------------
(* The properties.                                                         *)

\* The variables keep their types: every cached or saved vector and metadata
\* value is one of a document, and the index is of a kind that was asked for.
THEOREM SearchTypeCorrect == Spec => []TypeOK
<1>1. ASSUME SearchInv PROVE TypeOK
  <2>1. /\ mem.docs \in Partial(Docs) /\ mem.cache.vectors \in Partial(Points)
        /\ mem.cache.metadata \in Partial(Metas) /\ mem.cache.order \in Seq(Ids)
        /\ saved.docs \in Partial(Docs)
    BY <1>1 DEF SearchInv, MemoryInv, MemOK, CacheOK, SavedInv
  <2>2. mem.index.kind \in IF config = "Auto" THEN {"Flat", "Ivf", "Hnsw"} ELSE {config}
    BY <1>1 DEF SearchInv, MemoryInv, Asked, Kinds
  <2> QED
    BY <1>1, <2>1, <2>2 DEF SearchInv, TypeOK, Partial
<1> QED
  BY <1>1, AlwaysSearchInv, PTL

\* A queue that lists no id twice is as long as what it lists.
LEMMA ListedCount ==
    ASSUME NEW S, NEW order \in Seq(S), Unique(order)
    PROVE  Cardinality(Listed(order)) = Len(order)
<1>1. Len(order) \in Nat /\ DOMAIN order = 1 .. Len(order)
  OBVIOUS
<1>2. order \in [1 .. Len(order) -> Listed(order)]
  BY <1>1 DEF Listed
<1>3. order \in Bijection(1 .. Len(order), Listed(order))
  BY <1>1, <1>2, Fun_IsBij DEF Unique, Listed
<1>4. ExistsBijection(1 .. Len(order), Listed(order))
  BY <1>3, Fun_ExistsBij
<1> QED
  BY <1>1, <1>4, FS_CountingElements

\* After every order of writes, evictions, rebuilds and restarts the caches
\* hold the vectors of all documents, and only of documents unless the index
\* is a graph; no cached metadata is stale; and the queue of evictions lists
\* each cached metadata once, within the limit.
THEOREM CachesAlwaysCoherent == Spec => []CacheCoherent
<1>1. ASSUME SearchInv PROVE CacheCoherent
  <2>1. CacheOK(mem.cache) /\ Agrees(mem) /\ Backed(mem)
    BY <1>1 DEF SearchInv, MemoryInv, MemOK
  <2>2. {mem.cache.order[i] : i \in DOMAIN mem.cache.order} = DOMAIN mem.cache.metadata
    BY <2>1 DEF CacheOK, Listed
  <2>3. /\ Len(mem.cache.order) = Cardinality(DOMAIN mem.cache.metadata)
        /\ Len(mem.cache.order) <= MaxSize
    BY <2>1, ListedCount DEF CacheOK
  <2>4. /\ CurrentIds \subseteq DOMAIN mem.cache.vectors
        /\ mem.index.kind # "Hnsw" => DOMAIN mem.cache.vectors = CurrentIds
    BY <2>1 DEF Agrees, Backed, CurrentIds
  <2> QED
    BY <2>1, <2>2, <2>3, <2>4 DEF CacheCoherent, Agrees, CurrentIds
<1> QED
  BY <1>1, AlwaysSearchInv, PTL

\* The graph's live nodes are the documents, and its entry point is one of
\* them on the topmost layer, through deletions of the entry point, replays
\* and rebuilds.
THEOREM EntryPointAlwaysLive == Spec => []EntryPointLive
<1>1. ASSUME SearchInv PROVE EntryPointLive
  <2>1. SUFFICES ASSUME mem.index.kind = "Hnsw"
                 PROVE  LET live == Live(mem.index)
                        IN  /\ live = CurrentIds
                            /\ IF live = {} THEN mem.index.start = None
                               ELSE mem.index.start \in live /\ mem.index.maxLevel >= 0
                            /\ \A id \in live :
                                  \A level \in DOMAIN mem.index.nodes[id].connections :
                                      level <= mem.index.maxLevel
    BY LiveIn DEF EntryPointLive
  <2>2. GraphOK(mem.index) /\ mem.docs \in Partial(Docs)
    BY <1>1, <2>1 DEF SearchInv, MemoryInv, MemOK, IndexOK
  <2>3. Indexed(mem.index) = Live(mem.index)
    BY <2>1 DEF Indexed
  <2>4. Live(mem.index) \subseteq Ids /\ CurrentIds \subseteq Ids
    BY <2>2, LiveIn, PartialFacts DEF GraphOK, CurrentIds
  <2>5. Live(mem.index) = CurrentIds
    BY <1>1, <2>1, <2>3, <2>4 DEF SearchInv, MemoryInv, Fits, CurrentIds
  <2> QED
    BY <2>2, <2>5 DEF GraphOK, Levels
<1> QED
  BY <1>1, AlwaysSearchInv, PTL

\* Only a write changes the documents.  A restart gives back those that were
\* in memory before it, after whatever writes, rebuilds and checkpoints.
THEOREM DocumentsAlwaysSurvive == Spec => DocumentsSurvive
<1>1. ASSUME SearchInv, [Next]_vars
      PROVE  [writes' = writes => mem.docs' = mem.docs]_vars
  <2>1. SUFFICES ASSUME Next, writes' = writes
                 PROVE  mem.docs' = mem.docs
    BY <1>1 DEF vars
  <2>2. writes \in Nat
    BY <1>1 DEF SearchInv
  <2>3. writes' # writes + 1
    BY <2>1, <2>2
  <2>4. ASSUME NEW id \in Ids, NEW doc \in Documents PROVE ~Insert(id, doc) /\ ~Upsert(id, doc)
    BY <2>3 DEF Insert, Upsert, Write
  <2>5. ASSUME NEW id \in Ids, NEW metadata \in Metas PROVE ~UpdateMetadata(id, metadata)
    BY <2>3 DEF UpdateMetadata, Write
  <2>6. ASSUME NEW id \in Ids, NEW vector \in Points PROVE ~UpdateVector(id, vector)
    BY <2>3 DEF UpdateVector, Write
  <2>7. ASSUME NEW id \in Ids PROVE ~Delete(id)
    BY <2>3 DEF Delete, Write
  <2>8. ~RebuildIndex /\ ~Compact
    BY <2>3 DEF RebuildIndex, Compact, Rebuild
  <2>9. ASSUME ClearMetadataCache PROVE mem.docs' = mem.docs
    BY <1>1, <2>9 DEF ClearMetadataCache, SearchInv, MemoryInv, MemOK
  <2>10. ASSUME Restart PROVE mem.docs' = mem.docs
    BY <1>1, <2>10, RestartOK
  <2> QED
    BY <2>1, <2>4, <2>5, <2>6, <2>7, <2>8, <2>9, <2>10 DEF Next
<1> QED
  BY <1>1, AlwaysSearchInv, PTL DEF Spec, DocumentsSurvive

-----------------------------------------------------------------------------
(* What a search answers.                                                  *)

Scored(q, S) == [id \in S |-> Rank!Similarity(q, mem.docs[id].vector)]
Closest(q, S, k) == First(Ranked(S, Scored(q, S)), k)
Matching(filter, S) == {id \in S : Filters!Matches(filter, mem.docs[id].metadata)}

\* No two documents are equally similar to a point.
LEMMA ScoredFacts ==
    ASSUME MemoryInv, NEW q \in Points \union Queries, NEW S \in SUBSET CurrentIds
    PROVE  /\ q \in Int /\ IsFiniteSet(S) /\ S \subseteq Ids
           /\ \A id \in S : mem.docs[id].vector \in Points /\ mem.docs[id].vector \in Int
           /\ \A id \in S : id \in DOMAIN mem.cache.vectors /\ mem.cache.vectors[id] = mem.docs[id].vector
           /\ \A id \in S : Scored(q, S)[id] \in Int
           /\ \A a, b \in S : Scored(q, S)[a] = Scored(q, S)[b] => a = b
<1>1. q \in Int /\ Points \subseteq Int
  BY PointFacts
<1>2. /\ DOMAIN mem.docs \subseteq Ids /\ \A id \in DOMAIN mem.docs : mem.docs[id] \in Docs
      /\ \A id \in DOMAIN mem.docs :
            id \in DOMAIN mem.cache.vectors /\ mem.cache.vectors[id] = mem.docs[id].vector
  BY PartialFacts DEF MemoryInv, MemOK, Agrees
<1>3. S \subseteq DOMAIN mem.docs
  BY DEF CurrentIds
<1>4. \A id \in S : mem.docs[id].vector \in Points
  BY <1>2, <1>3 DEF Docs
<1>5. \A id \in S : Scored(q, S)[id] \in Int
  BY <1>1, <1>4, SimilarityFacts DEF Scored
<1>6. ASSUME NEW a \in S, NEW b \in S, Scored(q, S)[a] = Scored(q, S)[b] PROVE a = b
  <2>1. mem.docs[a].vector = mem.docs[b].vector
    BY <1>4, <1>6, PointFacts DEF Scored
  <2>2. mem.cache.vectors[a] = mem.cache.vectors[b]
    BY <1>2, <1>3, <2>1
  <2> QED
    BY <1>2, <1>3, <2>2 DEF MemoryInv, Distinct
<1>7. IsFiniteSet(S)
  BY <1>2, <1>3, FS_Subset, ConstantsAssumption
<1> QED
  BY <1>1, <1>2, <1>3, <1>4, <1>5, <1>6, <1>7

\* What a search may list: at most k of some ids, and none twice.
Listing(t, S, k) ==
    /\ Len(t) \in Nat /\ Len(t) <= k /\ t \in Seq(S)
    /\ Listed(t) \subseteq S /\ Cardinality(Listed(t)) = Len(t)

\* The k best are a listing, of all if there are no more than k.
LEMMA RankedListing ==
    ASSUME NEW S, IsFiniteSet(S), NEW f, \A id \in S : f[id] \in Int,
           \A a, b \in S : f[a] = f[b] => a = b, NEW k \in Nat
    PROVE  /\ Listing(First(Ranked(S, f), k), S, k)
           /\ Cardinality(S) <= k => Listed(First(Ranked(S, f), k)) = S
<1> DEFINE s == Ranked(S, f)
           n == Cardinality(S)
           t == First(s, k)
           m == IF k < n THEN k ELSE n
<1>1. n \in Nat /\ s \in [1 .. n -> S] /\ Unique(s) /\ Listed(s) = S
  BY RankedFacts
<1> HIDE DEF s, n
<1>2. /\ m \in Nat /\ t \in [1 .. m -> S] /\ Len(t) = m /\ t \in Seq(S)
      /\ \A i \in 1 .. m : t[i] = s[i] /\ i \in 1 .. n
      /\ Listed(t) \subseteq Listed(s)
      /\ Unique(s) => Unique(t)
  <2>1. n \in Nat /\ s \in [1 .. n -> S] /\ k \in Nat
    BY <1>1
  <2> QED
    BY <2>1, FirstFacts, ZenonT(60)
<1>3. m <= k /\ (n <= k => m = n)
  BY <1>1
<1> HIDE DEF t, m
<1>4. Cardinality(Listed(t)) = Len(t)
  BY <1>1, <1>2, ListedCount
<1>5. n <= k => Listed(t) = S
  BY <1>1, <1>2, <1>3 DEF Listed
<1> QED
  BY <1>1, <1>2, <1>3, <1>4, <1>5 DEF Listing, t, s, n

\* So are the k closest documents.
LEMMA ClosestFacts ==
    ASSUME MemoryInv, NEW q \in Points \union Queries, NEW S \in SUBSET CurrentIds, NEW k \in Nat
    PROVE  /\ Listing(Closest(q, S, k), S, k)
           /\ Cardinality(S) <= k => Listed(Closest(q, S, k)) = S
<1> DEFINE f == Scored(q, S)
<1>1. /\ IsFiniteSet(S) /\ \A id \in S : f[id] \in Int
      /\ \A a, b \in S : f[a] = f[b] => a = b
  BY ScoredFacts
<1> HIDE DEF f
<1> QED
  BY <1>1, RankedListing DEF Closest, f

\* Scores in the order of the similarities give the same ranking.
LEMMA ClosestIs ==
    ASSUME NEW q, NEW S, NEW k, NEW f,
           \A a, b \in S : f[a] > f[b] <=> Scored(q, S)[a] > Scored(q, S)[b]
    PROVE  First(Ranked(S, f), k) = Closest(q, S, k)
<1> DEFINE g == Scored(q, S)
<1> HIDE DEF g
<1>1. Ranked(S, f) = Ranked(S, g)
  BY RankedSame DEF g
<1> QED
  BY <1>1 DEF Closest, g

\* The flat index compares all vectors.
LEMMA FlatSearchOK ==
    ASSUME MemoryInv, NEW q \in Points \union Queries, NEW k, mem.index.kind = "Flat"
    PROVE  /\ Indexed(mem.index) \subseteq CurrentIds
           /\ Index!Flat!Search(mem.index, q, k, mem.cache.vectors) =
                [ok |-> TRUE, ids |-> Closest(q, Indexed(mem.index), k)]
<1> DEFINE S == Indexed(mem.index)
           f == Index!Flat!Scores(S, q, mem.cache.vectors)
<1>1. S \subseteq CurrentIds /\ S = mem.index.ids
  BY DEF MemoryInv, MemOK, IndexOK, Indexed, Fits, CurrentIds
<1> HIDE DEF S
<1>2. /\ q \in Int /\ \A id \in S : mem.docs[id].vector \in Int
      /\ \A id \in S : id \in DOMAIN mem.cache.vectors /\ mem.cache.vectors[id] = mem.docs[id].vector
  BY <1>1, ScoredFacts
<1>3. \A id \in S : f[id] = Scored(q, S)[id]
  BY <1>2, SimilarityFacts DEF Index!Flat!Scores, Scored
<1> HIDE DEF f
<1>4. First(Ranked(S, f), k) = Closest(q, S, k)
  BY <1>3, ClosestIs
<1>5. Index!Flat!Search(mem.index, q, k, mem.cache.vectors) =
        [ok |-> TRUE, ids |-> Index!Flat!Truncate(Index!Flat!ByScore(S, f), k)]
  <2>1. S \subseteq DOMAIN mem.cache.vectors
    BY <1>2
  <2> QED
    BY <1>1, <2>1 DEF Index!Flat!Search, Index!Flat!Found, f
<1> QED
  BY <1>1, <1>4, <1>5, ByScoreIs, TruncateIs DEF S

\* The clusters that are searched are all of them if as many are probed.
LEMMA IvfSearchOK ==
    ASSUME MemoryInv, NEW q \in Points \union Queries, NEW k, NEW nprobe, mem.index.kind = "Ivf"
    PROVE  LET answer == Index!Ivf!Search(mem.index, q, k, nprobe, mem.cache.vectors)
           IN  IF mem.index.centroids = <<>> THEN answer = [ok |-> FALSE, ids |-> <<>>]
               ELSE \E S \in SUBSET CurrentIds :
                        /\ answer = [ok |-> TRUE, ids |-> Closest(q, S, k)]
                        /\ nprobe \in Int /\ nprobe >= NumClusters => S = Indexed(mem.index)
<1> DEFINE x == mem.index
           order(c) == Index!Ivf!ProbeOrder(x.centroids, c, q)
           probed == {c \in DOMAIN x.centroids : order(c) < nprobe}
           S == UNION {x.lists[c] : c \in probed}
           f == Index!Ivf!Scores(S, q, mem.cache.vectors)
           answer == Index!Ivf!Search(x, q, k, nprobe, mem.cache.vectors)
<1>1. IvfOK(x) /\ \A id \in Indexed(x) : id \in CurrentIds
  BY DEF MemoryInv, MemOK, IndexOK, Fits, CurrentIds
<1>2. CASE x.centroids = <<>>
  BY <1>2 DEF Index!Ivf!Search, Index!Ivf!Failed
<1>3. CASE x.centroids # <<>>
  <2>1. x.centroids \in Clusters /\ x.pending = {} /\ DOMAIN x.lists = DOMAIN x.centroids
    BY <1>1, <1>3 DEF IvfOK
  <2>2. Indexed(x) = Filed(x) /\ probed \subseteq DOMAIN x.lists
    BY <2>1 DEF Indexed, Held
  <2>3. S \subseteq CurrentIds
    <3> HIDE DEF probed
    <3> QED
      BY <1>1, <2>2 DEF Filed
  <2>4. nprobe \in Int /\ nprobe >= NumClusters => S = Indexed(x)
    <3>1. SUFFICES ASSUME nprobe \in Int, nprobe >= NumClusters PROVE S = Filed(x)
      BY <2>2
    <3> DEFINE all == DOMAIN x.centroids
               N == NumClusters
    <3>2. all = 1 .. N /\ N \in Nat /\ IsFiniteSet(all) /\ Cardinality(all) = N
      <4>1. N \in Nat /\ all = 1 .. N
        BY <2>1, ConstantsAssumption DEF Clusters
      <4> HIDE DEF all, N
      <4>2. IsFiniteSet(1 .. N) /\ Cardinality(1 .. N) = N
        BY <4>1, FS_Interval
      <4> QED
        BY <4>1, <4>2
    <3>3. ASSUME NEW c \in all PROVE order(c) < N
      <4> DEFINE better == {d \in all :
                   \/ Index!Ivf!Similarity(q, x.centroids[d]) > Index!Ivf!Similarity(q, x.centroids[c])
                   \/ /\ Index!Ivf!Similarity(q, x.centroids[d]) = Index!Ivf!Similarity(q, x.centroids[c])
                      /\ d < c}
      <4>1. order(c) = Cardinality(better)
        BY DEF Index!Ivf!ProbeOrder, Index!Ivf!Cardinality, Cardinality
      <4>2. c \notin better
        <5>1. q \in Int /\ x.centroids[c] \in Int /\ c \in Int
          BY <2>1, <3>2, PointFacts DEF Clusters
        <5>2. Index!Ivf!Similarity(q, x.centroids[c]) \in Int
          BY <5>1, SimilarityFacts
        <5> QED
          BY <5>1, <5>2
      <4>3. better \subseteq all \ {c}
        BY <4>2
      <4> HIDE DEF better
      <4>4. IsFiniteSet(all \ {c}) /\ Cardinality(all \ {c}) = N - 1
        BY <3>2, FS_RemoveElement
      <4>5. Cardinality(better) <= N - 1 /\ Cardinality(better) \in Nat
        BY <4>3, <4>4, FS_Subset, FS_CardinalityType
      <4> HIDE DEF all, order
      <4> QED
        BY <3>2, <4>1, <4>5
    <3>4. \A c \in all : order(c) \in Int
      <4>1. ASSUME NEW c \in all PROVE order(c) \in Nat
        <5> DEFINE better == {d \in all :
                   \/ Index!Ivf!Similarity(q, x.centroids[d]) > Index!Ivf!Similarity(q, x.centroids[c])
                   \/ /\ Index!Ivf!Similarity(q, x.centroids[d]) = Index!Ivf!Similarity(q, x.centroids[c])
                      /\ d < c}
        <5>1. order(c) = Cardinality(better)
          BY DEF Index!Ivf!ProbeOrder, Index!Ivf!Cardinality, Cardinality
        <5>2. better \subseteq all
          OBVIOUS
        <5> HIDE DEF better, all, order
        <5> QED
          BY <3>2, <5>1, <5>2, FS_Subset, FS_CardinalityType
      <4> HIDE DEF order
      <4> QED
        BY <4>1
    <3>5. probed = all
      <4> HIDE DEF order
      <4> QED
        BY <3>1, <3>2, <3>3, <3>4
    <3> HIDE DEF probed
    <3> QED
      BY <2>1, <3>5 DEF Filed
  <2> HIDE DEF S
  <2>5. /\ q \in Int /\ \A id \in S : mem.docs[id].vector \in Int
        /\ \A id \in S : id \in DOMAIN mem.cache.vectors /\ mem.cache.vectors[id] = mem.docs[id].vector
    BY <2>3, ScoredFacts
  <2>6. \A id \in S : f[id] = Scored(q, S)[id]
    <3>1. ASSUME NEW id \in S
          PROVE  f[id] = Index!Ivf!Similarity(q, mem.docs[id].vector)
      BY <2>5 DEF Index!Ivf!Scores
    <3> HIDE DEF f
    <3> QED
      BY <2>5, <3>1, SimilarityFacts DEF Scored
  <2> HIDE DEF f
  <2>7. First(Ranked(S, f), k) = Closest(q, S, k)
    BY <2>6, ClosestIs
  <2>8. answer = [ok |-> TRUE, ids |-> Index!Ivf!Truncate(Index!Ivf!ByScore(S, f), k)]
    <3>1. S \subseteq DOMAIN mem.cache.vectors
      BY <2>5
    <3>2. answer = IF x.centroids # <<>> /\ S \subseteq DOMAIN mem.cache.vectors
                   THEN Index!Ivf!Found(Index!Ivf!Truncate(Index!Ivf!ByScore(S, f), k))
                   ELSE Index!Ivf!Failed
      BY DEF Index!Ivf!Search, S, f
    <3> QED
      BY <1>3, <3>1, <3>2 DEF Index!Ivf!Found
  <2>9. answer = [ok |-> TRUE, ids |-> Closest(q, S, k)]
    BY <2>7, <2>8, ByScoreIs, TruncateIs
  <2> HIDE DEF answer
  <2> QED
    BY <1>3, <2>3, <2>4, <2>9 DEF answer
<1> QED
  BY <1>2, <1>3

\* The graph answers documents: every other node is a tombstone.
LEMMA HnswSearchOK ==
    ASSUME MemoryInv, NEW q \in Points \union Queries, NEW k \in Nat, NEW ef, NEW visible,
           mem.index.kind = "Hnsw"
    PROVE  \E t : /\ Listing(t, CurrentIds, k)
                  /\ Index!Hnsw!Search(mem.index, q, k, ef, mem.cache.vectors, visible) =
                        [ok |-> TRUE, ids |-> t]
<1> DEFINE x == mem.index
           answer == Index!Hnsw!Search(x, q, k, ef, mem.cache.vectors, visible)
           dist == [id \in DOMAIN mem.cache.vectors \intersect visible |->
                        Index!Hnsw!Distance(q, mem.cache.vectors[id])]
           beam == IF ef > k THEN ef ELSE k
           nearest == Index!Hnsw!Descend(x, dist, 0, beam, x.maxLevel)[0]
           S == {id \in nearest : ~Index!Hnsw!IsTombstone(x, id)}
           score == [id \in S |-> -dist[id]]
<1>1. /\ GraphOK(x) /\ Live(x) = Indexed(x) /\ Indexed(x) \subseteq Ids
      /\ mem.docs \in Partial(Docs) /\ mem.cache.vectors \in Partial(Points)
      /\ DOMAIN mem.cache.vectors \subseteq DOMAIN x.nodes
      /\ \A id \in Ids : id \in Indexed(x) <=> id \in CurrentIds
  BY DEF MemoryInv, MemOK, CacheOK, IndexOK, Indexed, Backed, Fits, CurrentIds
<1>2. CASE x.start = None
  <2>1. answer = [ok |-> TRUE, ids |-> <<>>]
    BY <1>2 DEF Index!Hnsw!Search, Index!Hnsw!Found
  <2>2. Listed(<<>>) = {} /\ <<>> \in Seq(CurrentIds) /\ Len(<<>>) = 0
    BY DEF Listed
  <2>3. Listing(<<>>, CurrentIds, k)
    <3>1. Cardinality(Listed(<<>>)) = 0
      BY <2>2, FS_EmptySet
    <3>2. Len(<<>>) \in Nat /\ Len(<<>>) <= k /\ Listed(<<>>) \subseteq CurrentIds
      BY <2>2
    <3> QED
      BY <2>2, <3>1, <3>2 DEF Listing
  <2> HIDE DEF answer
  <2> QED
    BY <2>1, <2>3 DEF answer
<1>3. CASE x.start # None
  <2>1. x.start \in DOMAIN mem.cache.vectors
    <3>1. x.start \in Live(x) /\ x.start \in Ids
      BY <1>1, <1>3 DEF GraphOK
    <3>2. x.start \in CurrentIds
      BY <1>1, <3>1
    <3> QED
      BY <3>2 DEF MemoryInv, Agrees, CurrentIds
  <2>2. nearest \subseteq DOMAIN dist
    <3>1. IsFiniteSet(DOMAIN dist)
      BY <1>1, PartialFacts, FS_Subset, ConstantsAssumption
    <3>2. x.maxLevel \in Nat /\ 0 \in 0 .. x.maxLevel
      BY <1>1, <1>3 DEF GraphOK
    <3> HIDE DEF dist, beam
    <3> QED
      BY <1>1, <3>1, <3>2, DescendOK
  <2>3. DOMAIN dist \subseteq DOMAIN mem.cache.vectors
    OBVIOUS
  <2>4. answer = [ok |-> TRUE, ids |-> Index!Hnsw!Truncate(Index!Hnsw!Ascending(S, dist), k)]
    BY <1>3, <2>1 DEF Index!Hnsw!Search, Index!Hnsw!Found
  <2> HIDE DEF answer, nearest
  <2>5. S \subseteq CurrentIds
    <3>1. \A id \in S : id \in DOMAIN x.nodes /\ ~x.nodes[id].tombstone
      BY <1>1, <2>2, <2>3 DEF Index!Hnsw!IsTombstone
    <3>2. S \subseteq Live(x)
      <4> HIDE DEF S
      <4> QED
        BY <3>1, LiveIn
    <3> QED
      BY <1>1, <3>2
  <2>6. \A id \in S : id \in DOMAIN dist
    BY <2>2
  <2> HIDE DEF S
  <2>7. /\ IsFiniteSet(S) /\ \A id \in S : score[id] \in Int
        /\ \A a, b \in S : score[a] = score[b] => a = b
    <3>1. /\ q \in Int /\ IsFiniteSet(S)
          /\ \A id \in S : mem.docs[id].vector \in Int
          /\ \A id \in S : mem.cache.vectors[id] = mem.docs[id].vector
          /\ \A id \in S : Scored(q, S)[id] \in Int
          /\ \A a, b \in S : Scored(q, S)[a] = Scored(q, S)[b] => a = b
      BY <2>5, ScoredFacts
    <3>2. ASSUME NEW id \in S
          PROVE  dist[id] = IF Euclidean THEN Scored(q, S)[id] ELSE -Scored(q, S)[id]
      <4>1. dist[id] = Index!Hnsw!Distance(q, mem.docs[id].vector)
        BY <2>6, <3>1
      <4> HIDE DEF dist
      <4>2. Index!Hnsw!Similarity(q, mem.docs[id].vector) = Scored(q, S)[id]
        BY <3>1, SimilarityFacts DEF Scored
      <4> QED
        BY <4>1, <4>2 DEF Index!Hnsw!Distance
    <3> HIDE DEF dist
    <3>3. \A id \in S : score[id] = IF Euclidean THEN -Scored(q, S)[id] ELSE Scored(q, S)[id]
      BY <3>1, <3>2
    <3> HIDE DEF score
    <3> QED
      BY <3>1, <3>3
  <2>8. Index!Hnsw!Ascending(S, dist) = Ranked(S, score)
    <3>1. Index!Hnsw!Ascending(S, dist) = Index!Hnsw!ByScore(S, score)
      BY DEF Index!Hnsw!Ascending
    <3> HIDE DEF score
    <3> QED
      BY <3>1, ByScoreIs
  <2>9. answer = [ok |-> TRUE, ids |-> First(Ranked(S, score), k)]
    BY <2>4, <2>8, TruncateIs
  <2> HIDE DEF score, answer
  <2>10. Listing(First(Ranked(S, score), k), S, k)
    BY <2>7, RankedListing
  <2>11. Listing(First(Ranked(S, score), k), CurrentIds, k)
    BY <2>5, <2>10 DEF Listing
  <2> QED
    BY <2>9, <2>11 DEF answer
<1> QED
  BY <1>2, <1>3

\* Whether a search compares the query with all that is indexed.
SparesNothing(quality) ==
    /\ mem.index.kind # "Hnsw"
    /\ Index!Default(quality.nprobe, NumProbes) \in Int
    /\ Index!Default(quality.nprobe, NumProbes) >= NumClusters

\* Every index answers a listing of documents, and the k closest if it spares nothing.
LEMMA IndexSearchOK ==
    ASSUME MemoryInv, NEW q \in Points \union Queries, NEW k \in Nat, NEW quality, NEW visible
    PROVE  LET answer == Index!Search(mem.index, q, k, quality, mem.cache.vectors, visible)
           IN  IF Searchable
               THEN \E t : /\ Listing(t, CurrentIds, k) /\ answer = [ok |-> TRUE, ids |-> t]
                           /\ SparesNothing(quality) =>
                                /\ Indexed(mem.index) \subseteq CurrentIds
                                /\ t = Closest(q, Indexed(mem.index), k)
               ELSE answer = [ok |-> FALSE, ids |-> <<>>]
<1> DEFINE x == mem.index
           all == Indexed(x)
           nprobe == Index!Default(quality.nprobe, NumProbes)
           ef == Index!Default(quality.ef, EfSearch)
           answer == Index!Search(x, q, k, quality, mem.cache.vectors, visible)
<1>1. x.kind \in Kinds
  BY DEF MemoryInv, MemOK, IndexOK
<1>2. ASSUME NEW S \in SUBSET CurrentIds PROVE Listing(Closest(q, S, k), CurrentIds, k)
  <2>1. Listing(Closest(q, S, k), S, k)
    BY ClosestFacts
  <2> QED
    BY <2>1 DEF Listing
<1>3. CASE x.kind = "Flat"
  <2>1. answer = Index!Flat!Search(x, q, k, mem.cache.vectors)
    BY <1>3 DEF Index!Search
  <2>2. all \subseteq CurrentIds /\ answer = [ok |-> TRUE, ids |-> Closest(q, all, k)]
    BY <1>3, <2>1, FlatSearchOK
  <2>3. Searchable
    BY <1>3 DEF Searchable
  <2> HIDE DEF answer, all
  <2>4. Listing(Closest(q, all, k), CurrentIds, k)
    BY <1>2, <2>2
  <2> QED
    BY <2>2, <2>3, <2>4 DEF answer, all
<1>4. CASE x.kind = "Ivf"
  <2>1. answer = Index!Ivf!Search(x, q, k, nprobe, mem.cache.vectors)
    BY <1>4 DEF Index!Search
  <2> HIDE DEF nprobe, answer
  <2>2. CASE x.centroids = <<>>
    <3>1. answer = [ok |-> FALSE, ids |-> <<>>] /\ ~Searchable
      BY <1>4, <2>1, <2>2, IvfSearchOK DEF Searchable
    <3> QED
      BY <3>1 DEF answer
  <2>3. CASE x.centroids # <<>>
    <3>1. PICK S \in SUBSET CurrentIds :
            /\ answer = [ok |-> TRUE, ids |-> Closest(q, S, k)]
            /\ nprobe \in Int /\ nprobe >= NumClusters => S = Indexed(x)
      BY <1>4, <2>1, <2>3, IvfSearchOK
    <3>2. Searchable
      BY <2>3 DEF Searchable
    <3>3. Listing(Closest(q, S, k), CurrentIds, k)
      BY <1>2
    <3>4. SparesNothing(quality) => S = Indexed(x)
      BY <3>1 DEF SparesNothing, nprobe
    <3>5. SparesNothing(quality) =>
            /\ Indexed(x) \subseteq CurrentIds /\ Closest(q, S, k) = Closest(q, Indexed(x), k)
      BY <3>4
    <3> QED
      BY <3>1, <3>2, <3>3, <3>5 DEF answer
  <2> QED
    BY <2>2, <2>3
<1>5. CASE x.kind = "Hnsw"
  <2>1. answer = Index!Hnsw!Search(x, q, k, ef, mem.cache.vectors, visible)
    BY <1>5 DEF Index!Search
  <2> HIDE DEF ef, answer
  <2>2. \E t : Listing(t, CurrentIds, k) /\ answer = [ok |-> TRUE, ids |-> t]
    BY <1>5, <2>1, HnswSearchOK
  <2>3. Searchable /\ ~SparesNothing(quality)
    BY <1>5 DEF Searchable, SparesNothing
  <2> QED
    BY <2>2, <2>3 DEF answer
<1> QED
  BY <1>1, <1>3, <1>4, <1>5 DEF Kinds

\* So does a collection, after its filter.
LEMMA SearchCollectionOK ==
    ASSUME MemoryInv, NEW q \in Points \union Queries, NEW k \in Nat, NEW filter, NEW quality,
           SearchK(k, filter, quality) \in Nat
    PROVE  LET answer == SearchCollection(q, k, filter, quality)
               n == SearchK(k, filter, quality)
           IN  IF Searchable
               THEN \E t : /\ Listing(t, CurrentIds, n)
                           /\ answer = [ok |-> TRUE, ids |->
                                IF filter = None THEN t ELSE Closest(q, Matching(filter, Listed(t)), k)]
                           /\ SparesNothing(quality) =>
                                /\ Indexed(mem.index) \subseteq CurrentIds
                                /\ t = Closest(q, Indexed(mem.index), n)
               ELSE answer = [ok |-> FALSE, ids |-> <<>>]
<1> DEFINE n == SearchK(k, filter, quality)
           found == Index!Search(mem.index, q, n, quality, mem.cache.vectors, Visible(filter))
           kept == Matching(filter, Listed(found.ids))
           scores == Rank!Scores(kept, q, VectorsOf(mem.docs))
           cut == Rank!Truncate(Rank!ByScore(kept, scores), k)
           answer == SearchCollection(q, k, filter, quality)
<1>1. answer = IF ~found.ok \/ ~(Listed(found.ids) \subseteq CurrentIds) THEN Rank!Failed
               ELSE IF filter = None THEN found ELSE Rank!Found(cut)
  BY DEF SearchCollection, Listed, Matching
<1>2. IF Searchable
      THEN \E t : /\ Listing(t, CurrentIds, n) /\ found = [ok |-> TRUE, ids |-> t]
                  /\ SparesNothing(quality) =>
                        /\ Indexed(mem.index) \subseteq CurrentIds
                        /\ t = Closest(q, Indexed(mem.index), n)
      ELSE found = [ok |-> FALSE, ids |-> <<>>]
  <2> HIDE DEF n
  <2>1. n \in Nat
    BY DEF n
  <2> QED
    BY <2>1, IndexSearchOK
<1>3. Listed(found.ids) \subseteq CurrentIds => cut = Closest(q, kept, k)
  <2>1. SUFFICES ASSUME Listed(found.ids) \subseteq CurrentIds PROVE cut = Closest(q, kept, k)
    OBVIOUS
  <2>2. kept \subseteq CurrentIds
    BY <2>1 DEF Matching
  <2>3. scores = Scored(q, kept)
    BY <2>2 DEF Rank!Scores, VectorsOf, Scored, CurrentIds
  <2> HIDE DEF kept, scores
  <2> QED
    BY <2>3, ByScoreIs, TruncateIs DEF Closest
<1> HIDE DEF found, cut, answer
<1>4. CASE ~Searchable
  BY <1>1, <1>2, <1>4 DEF Rank!Failed, answer
<1>5. CASE Searchable
  <2>1. PICK t : /\ Listing(t, CurrentIds, n) /\ found = [ok |-> TRUE, ids |-> t]
                 /\ SparesNothing(quality) =>
                        /\ Indexed(mem.index) \subseteq CurrentIds
                        /\ t = Closest(q, Indexed(mem.index), n)
    BY <1>2, <1>5
  <2>2. Listed(t) \subseteq CurrentIds
    BY <2>1 DEF Listing
  <2>3. answer = [ok |-> TRUE, ids |->
                    IF filter = None THEN t ELSE Closest(q, Matching(filter, Listed(t)), k)]
    <3>1. found.ok /\ found.ids = t
      BY <2>1
    <3>2. filter = None => answer = found
      BY <1>1, <2>2, <3>1
    <3>3. filter # None => answer = Rank!Found(Closest(q, kept, k))
      BY <1>1, <1>3, <2>2, <3>1
    <3> QED
      BY <2>1, <3>1, <3>2, <3>3 DEF Rank!Found
  <2> HIDE DEF n
  <2> QED
    BY <1>5, <2>1, <2>3 DEF answer, n
<1> QED
  BY <1>4, <1>5

\* What the requests of the properties ask for.
LEMMA RequestFacts ==
    /\ Quick.overfetch = FilterOverfetch /\ Thorough.overfetch = FilterOverfetch
    /\ Thorough.nprobe = 20 /\ Index!Default(Thorough.nprobe, NumProbes) = 20
    /\ \A k \in Nat : \A filter :
        /\ SearchK(k, filter, Quick) \in Nat /\ SearchK(k, filter, Thorough) \in Nat
        /\ filter = None => SearchK(k, filter, Quick) = k /\ SearchK(k, filter, Thorough) = k
        /\ filter # None => SearchK(k, filter, Thorough) >= k * FilterOverfetch
<1> DEFINE fast == [ef |-> 50, nprobe |-> 1, overfetch |-> FilterOverfetch]
           high == [ef |-> 400, nprobe |-> 20, overfetch |-> FilterOverfetch]
<1>1. "fast" # None /\ "high" # None /\ 20 # None
  BY RequestAssumption
<1>2. Quick.overfetch = FilterOverfetch
  BY <1>1 DEF Quick, ApplySearchOverrides, Preset, Configured
<1>3. Thorough.overfetch = FilterOverfetch /\ Thorough.nprobe = 20
  BY <1>1 DEF Thorough, ApplySearchOverrides, Preset, Configured
<1>4. Index!Default(Thorough.nprobe, NumProbes) = 20
  BY <1>1, <1>3 DEF Index!Default
<1>5. FilterOverfetch \in Nat
  BY ConstantsAssumption
<1>6. ASSUME NEW k \in Nat, NEW filter, NEW quality, quality.overfetch = FilterOverfetch
      PROVE  /\ SearchK(k, filter, quality) \in Nat
             /\ filter = None => SearchK(k, filter, quality) = k
             /\ filter # None => SearchK(k, filter, quality) >= k * FilterOverfetch
  <2>1. CASE FilterOverfetch > 1
    <3>1. k * FilterOverfetch \in Nat
      BY <1>5
    <3> QED
      BY <1>6, <2>1, <3>1 DEF SearchK
  <2>2. CASE ~(FilterOverfetch > 1)
    <3>1. FilterOverfetch = 0 \/ FilterOverfetch = 1
      BY <1>5, <2>2
    <3>2. k * 0 = 0 /\ k * 1 = k
      OBVIOUS
    <3>3. k >= k * FilterOverfetch
      BY <3>1, <3>2
    <3>4. SearchK(k, filter, quality) = k
      BY <1>6, <2>2, <3>2 DEF SearchK
    <3> QED
      BY <3>3, <3>4
  <2> QED
    BY <2>1, <2>2
<1> QED
  BY <1>2, <1>3, <1>4, <1>6

\* No search of an index that has been built fails on a vector, document or
\* entry point that is missing, and no search returns a deleted document, one
\* that does not match, a document twice or more than k, whatever was deleted,
\* replaced, evicted or replayed.
THEOREM SearchAlwaysSound == Spec => []SearchSound
<1>1. ASSUME SearchInv PROVE SearchSound
  <2>1. SUFFICES ASSUME NEW q \in Queries, NEW k \in Ks, NEW filter \in QueryFilters \union {None}
                 PROVE  Sound(SearchCollection(q, k, filter, Quick), k, filter)
    BY DEF SearchSound
  <2> DEFINE answer == SearchCollection(q, k, filter, Quick)
             n == SearchK(k, filter, Quick)
  <2>2. MemoryInv /\ q \in Points \union Queries /\ k \in Nat
    <3>1. Cardinality(Ids) \in Nat
      BY FS_CardinalityType, ConstantsAssumption
    <3> QED
      BY <1>1, <3>1 DEF SearchInv, Ks
  <2>3. n \in Nat /\ (filter = None => n = k)
    BY <2>2, RequestFacts
  <2> HIDE DEF n, answer
  <2>4. CASE ~Searchable
    <3>1. answer = [ok |-> FALSE, ids |-> <<>>]
      BY <2>2, <2>3, <2>4, SearchCollectionOK DEF n, answer
    <3>2. {<<>>[i] : i \in DOMAIN <<>>} = {} /\ Cardinality({}) = 0 /\ Len(<<>>) = 0
      BY FS_EmptySet
    <3> QED
      BY <2>2, <2>4, <3>1, <3>2 DEF Sound, answer
  <2>5. CASE Searchable
    <3>1. PICK t : /\ Listing(t, CurrentIds, n)
                   /\ answer = [ok |-> TRUE, ids |->
                        IF filter = None THEN t ELSE Closest(q, Matching(filter, Listed(t)), k)]
      BY <2>2, <2>3, <2>5, SearchCollectionOK DEF n, answer
    <3> DEFINE kept == Matching(filter, Listed(t))
               cut == Closest(q, kept, k)
    <3>2. kept \subseteq CurrentIds
      BY <3>1 DEF Matching, Listing
    <3>3. /\ Listing(cut, CurrentIds, k)
          /\ \A id \in Listed(cut) : Filters!Matches(filter, mem.docs[id].metadata)
      <4>1. \A id \in kept : Filters!Matches(filter, mem.docs[id].metadata)
        BY DEF Matching
      <4> HIDE DEF kept
      <4>2. Listing(cut, kept, k)
        BY <2>2, <3>2, ClosestFacts
      <4> QED
        BY <3>2, <4>1, <4>2 DEF Listing
    <3> HIDE DEF cut
    <3>4. /\ answer.ok /\ Listing(answer.ids, CurrentIds, k)
          /\ filter # None =>
                \A id \in Listed(answer.ids) : Filters!Matches(filter, mem.docs[id].metadata)
      <4>1. CASE filter = None
        BY <2>3, <3>1, <4>1
      <4>2. CASE filter # None
        <5>1. answer.ok /\ answer.ids = cut
          BY <3>1, <4>2 DEF cut
        <5> QED
          BY <3>3, <4>2, <5>1
      <4> QED
        BY <4>1, <4>2
    <3> QED
      BY <2>5, <3>4 DEF Sound, Listing, Listed, answer
  <2> QED
    BY <2>4, <2>5
<1> QED
  BY <1>1, AlwaysSearchInv, PTL

\* Unless a replay inserted blindly, an index that is searchable has exactly
\* the documents.
LEMMA IndexedAll ==
    ASSUME SearchInv, mem.index.kind # "Hnsw", Searchable, ~patchy
    PROVE  Indexed(mem.index) = CurrentIds
<1>1. IndexOK(mem.index) /\ mem.docs \in Partial(Docs) /\ Indexed(mem.index) \subseteq Ids
  BY DEF SearchInv, MemoryInv, MemOK, IndexOK
<1>2. CurrentIds \subseteq Ids
  BY <1>1, PartialFacts DEF CurrentIds
<1>3. mem.index.kind = "Ivf" => NumClusters # 0
  <2>1. SUFFICES ASSUME mem.index.kind = "Ivf" PROVE NumClusters # 0
    OBVIOUS
  <2>2. IvfOK(mem.index) /\ mem.index.centroids # <<>>
    BY <1>1, <2>1 DEF IndexOK, Searchable
  <2>3. mem.index.centroids \in Clusters
    BY <2>2 DEF IvfOK
  <2> QED
    BY <2>2, <2>3, NoClusters
<1>4. ASSUME NEW id \in Ids PROVE id \in Indexed(mem.index) <=> id \in CurrentIds
  <2>1. Fits(mem, id) /\ Complete(mem, id)
    BY DEF SearchInv, MemoryInv
  <2> QED
    BY <1>3, <2>1 DEF Fits, Complete, CurrentIds
<1> QED
  BY <1>1, <1>2, <1>4

\* Nearest of the properties is Closest.
LEMMA NearestIs == \A q, S, k : S \subseteq CurrentIds => Nearest(q, S, k) = Closest(q, S, k)
<1> SUFFICES ASSUME NEW q, NEW S, NEW k, S \subseteq CurrentIds PROVE Nearest(q, S, k) = Closest(q, S, k)
  OBVIOUS
<1> DEFINE scores == Rank!Scores(S, q, VectorsOf(mem.docs))
<1>1. scores = Scored(q, S)
  BY DEF Rank!Scores, VectorsOf, Scored, CurrentIds
<1>2. Nearest(q, S, k) = Rank!Truncate(Rank!ByScore(S, scores), k)
  BY DEF Nearest
<1> HIDE DEF scores
<1> QED
  BY <1>1, <1>2, ByScoreIs, TruncateIs DEF Closest

\* With the preset "high" a search of at most 20 clusters compares all.
LEMMA ThoroughOK ==
    ASSUME SearchInv, NumClusters <= 20, mem.index.kind # "Hnsw", Searchable, ~patchy,
           NEW q \in Points \union Queries, NEW k \in Nat, NEW filter
    PROVE  SearchCollection(q, k, filter, Thorough) =
                [ok |-> TRUE, ids |->
                    IF filter = None THEN Closest(q, CurrentIds, k)
                    ELSE LET t == Closest(q, CurrentIds, SearchK(k, filter, Thorough))
                         IN  Closest(q, Matching(filter, Listed(t)), k)]
<1> DEFINE n == SearchK(k, filter, Thorough)
           answer == SearchCollection(q, k, filter, Thorough)
<1>1. n \in Nat /\ (filter = None => n = k)
  BY RequestFacts
<1>2. SparesNothing(Thorough)
  BY RequestFacts DEF SparesNothing
<1>3. Indexed(mem.index) = CurrentIds /\ MemoryInv
  BY IndexedAll DEF SearchInv
<1> HIDE DEF n, answer
<1>4. PICK t : /\ answer = [ok |-> TRUE, ids |->
                    IF filter = None THEN t ELSE Closest(q, Matching(filter, Listed(t)), k)]
               /\ SparesNothing(Thorough) => t = Closest(q, Indexed(mem.index), n)
  BY <1>1, <1>3, SearchCollectionOK DEF n, answer
<1>5. t = Closest(q, CurrentIds, n)
  BY <1>2, <1>3, <1>4
<1> QED
  BY <1>1, <1>4, <1>5 DEF n, answer

\* Where the index does not filter, overfetching makes up for the hits that
\* the filter drops: if as many are fetched as there are documents, the answer
\* is the k nearest of those that match.
THEOREM FilteredSearchAlwaysExact ==
    ASSUME NumClusters <= 20
    PROVE  Spec => []FilteredSearchIsExact
<1>1. ASSUME SearchInv PROVE FilteredSearchIsExact
  <2>1. SUFFICES ASSUME mem.index.kind # "Hnsw", Searchable, ~patchy,
                        NEW q \in Queries, NEW k \in Ks, NEW filter \in QueryFilters,
                        k * FilterOverfetch >= Cardinality(CurrentIds)
                 PROVE  SearchCollection(q, k, filter, Thorough).ids =
                        Nearest(q, {id \in CurrentIds :
                                        Filters!Matches(filter, mem.docs[id].metadata)}, k)
    BY DEF FilteredSearchIsExact
  <2> DEFINE n == SearchK(k, filter, Thorough)
             t == Closest(q, CurrentIds, n)
  <2>2. /\ MemoryInv /\ q \in Points \union Queries /\ k \in Nat
        /\ IsFiniteSet(CurrentIds) /\ FilterOverfetch \in Nat
    <3>1. Cardinality(Ids) \in Nat
      BY FS_CardinalityType, ConstantsAssumption
    <3>2. CurrentIds \subseteq Ids
      BY <1>1, PartialFacts DEF SearchInv, MemoryInv, MemOK, CurrentIds
    <3> QED
      BY <1>1, <3>1, <3>2, FS_Subset, ConstantsAssumption DEF SearchInv, Ks
  <2>3. filter # None
    BY RequestAssumption
  <2>4. n \in Nat /\ Cardinality(CurrentIds) <= n
    <3>1. n \in Nat /\ n >= k * FilterOverfetch
      BY <2>2, <2>3, RequestFacts
    <3>2. Cardinality(CurrentIds) \in Nat /\ k * FilterOverfetch \in Nat
      BY <2>2, FS_CardinalityType
    <3> HIDE DEF n
    <3> QED
      BY <2>1, <3>1, <3>2
  <2> HIDE DEF n
  <2>5. Listed(t) = CurrentIds
    BY <2>2, <2>4, ClosestFacts
  <2>6. SearchCollection(q, k, filter, Thorough).ids = Closest(q, Matching(filter, Listed(t)), k)
    BY <1>1, <2>1, <2>2, <2>3, ThoroughOK DEF n
  <2> DEFINE kept == {id \in CurrentIds : Filters!Matches(filter, mem.docs[id].metadata)}
  <2>7. Matching(filter, Listed(t)) = kept
    BY <2>5 DEF Matching
  <2>8. kept \subseteq CurrentIds
    OBVIOUS
  <2> HIDE DEF t, kept
  <2>9. Nearest(q, kept, k) = Closest(q, kept, k)
    BY <2>8, NearestIs
  <2> QED
    BY <2>6, <2>7, <2>9 DEF kept
<1> QED
  BY <1>1, AlwaysSearchInv, PTL

\* The flat index, and clusters that are all probed, answer what a comparison
\* with all documents would, and so does the cut by a minimal score.
THEOREM ThoroughSearchAlwaysExact ==
    ASSUME NumClusters <= 20
    PROVE  Spec => [](mem.index.kind # "Hnsw" => ThoroughSearchIsExact)
<1>1. ASSUME SearchInv, mem.index.kind # "Hnsw" PROVE ThoroughSearchIsExact
  <2>1. SUFFICES ASSUME Searchable, ~patchy, NEW q \in Queries, NEW k \in Ks
                 PROVE  LET nearest == Nearest(q, CurrentIds, k)
                        IN  /\ SearchCollection(q, k, None, Thorough).ids = nearest
                            /\ \A i \in DOMAIN nearest :
                                LET minScore == Rank!Similarity(q, mem.docs[nearest[i]].vector)
                                IN  RangeSearchVectors(q, k, minScore, Preset("high")).ids =
                                    SelectSeq(nearest, LAMBDA id :
                                        Rank!Similarity(q, mem.docs[id].vector) >= minScore)
    BY DEF ThoroughSearchIsExact
  <2> DEFINE nearest == Nearest(q, CurrentIds, k)
             answer == SearchCollection(q, k, None, Thorough)
  <2>2. answer = [ok |-> TRUE, ids |-> nearest]
    <3>1. k \in Nat /\ q \in Points \union Queries
      <4>1. Cardinality(Ids) \in Nat
        BY FS_CardinalityType, ConstantsAssumption
      <4> QED
        BY <4>1 DEF Ks
    <3>2. answer = [ok |-> TRUE, ids |-> Closest(q, CurrentIds, k)]
      BY <1>1, <2>1, <3>1, ThoroughOK
    <3> HIDE DEF answer
    <3> QED
      BY <3>2, NearestIs
  <2>3. ASSUME NEW i \in DOMAIN nearest
        PROVE  LET minScore == Rank!Similarity(q, mem.docs[nearest[i]].vector)
               IN  RangeSearchVectors(q, k, minScore, Preset("high")).ids =
                   SelectSeq(nearest, LAMBDA id :
                       Rank!Similarity(q, mem.docs[id].vector) >= minScore)
    <3> DEFINE minScore == Rank!Similarity(q, mem.docs[nearest[i]].vector)
               above == SelectSeq(nearest, LAMBDA id :
                            Rank!Similarity(q, mem.docs[id].vector) >= minScore)
    <3>1. SearchVectors(q, k, Preset("high")) = answer
      BY DEF SearchVectors, Thorough
    <3>2. RangeSearchVectors(q, k, minScore, Preset("high")).ids = above
      <4> HIDE DEF answer, nearest, minScore
      <4> QED
        BY <2>2, <3>1 DEF RangeSearchVectors
    <3> QED
      BY <3>2
  <2>4. answer.ids = nearest
    <3> HIDE DEF answer, nearest
    <3> QED
      BY <2>2
  <2> QED
    BY <2>3, <2>4, Zenon
<1> QED
  BY <1>1, AlwaysSearchInv, PTL

\* All but the last of a ranking are those that some other is worse than.
LEMMA NotLast ==
    ASSUME NEW S, IsFiniteSet(S), NEW f, \A id \in S : f[id] \in Int,
           \A a, b \in S : f[a] = f[b] => a = b, NEW n \in Nat, Cardinality(S) = n + 1,
           NEW b \in S
    PROVE  b \in Listed(First(Ranked(S, f), n)) <=> \E c \in S : f[c] < f[b]
<1> DEFINE s == Ranked(S, f)
           t == First(s, n)
           N == n + 1
           m == IF n < N THEN n ELSE N
<1>1. /\ N \in Nat /\ s \in [1 .. N -> S] /\ Unique(s) /\ Listed(s) = S
      /\ \A i \in 1 .. N : Cardinality(Better(S, f, s[i])) = i - 1
  BY RankedFacts
<1> HIDE DEF s
<1>2. m = n /\ t \in [1 .. n -> S] /\ \A i \in 1 .. n : t[i] = s[i]
  <2>1. m = n
    OBVIOUS
  <2>2. /\ m \in Nat /\ t \in [1 .. m -> S] /\ Len(t) = m /\ t \in Seq(S)
        /\ \A i \in 1 .. m : t[i] = s[i] /\ i \in 1 .. N
        /\ Listed(t) \subseteq Listed(s)
        /\ Unique(s) => Unique(t)
    <3>1. N \in Nat /\ s \in [1 .. N -> S]
      BY <1>1
    <3> HIDE DEF N
    <3> QED
      BY <3>1, FirstFacts, ZenonT(60)
  <2> HIDE DEF m, t
  <2> QED
    BY <2>1, <2>2
<1> HIDE DEF t, m
<1>3. PICK i \in 1 .. N : s[i] = b
  BY <1>1 DEF Listed
<1>4. N \in 1 .. N /\ s[N] \in S /\ N - 1 = n
  BY <1>1
<1>5. b \in Listed(t) <=> i # N
  <2>1. CASE i # N
    <3>1. i \in 1 .. n /\ DOMAIN t = 1 .. n
      BY <1>2, <2>1
    <3> QED
      BY <1>2, <1>3, <2>1, <3>1 DEF Listed
  <2>2. CASE i = N
    <3>1. ASSUME NEW j \in 1 .. n PROVE t[j] # b
      <4>1. j \in 1 .. N /\ j # i /\ t[j] = s[j]
        BY <1>2, <2>2
      <4> QED
        BY <1>1, <1>3, <4>1 DEF Unique
    <3> QED
      BY <1>2, <2>2, <3>1 DEF Listed
  <2> QED
    BY <2>1, <2>2
<1>6. Better(S, f, s[N]) = S \ {s[N]}
  <2>1. Better(S, f, s[N]) \subseteq S \ {s[N]}
    BY <1>4 DEF Better
  <2>2. IsFiniteSet(S \ {s[N]}) /\ Cardinality(S \ {s[N]}) = n
    <3>1. IsFiniteSet(S \ {s[N]}) /\ Cardinality(S \ {s[N]}) = Cardinality(S) - 1
      BY <1>4, FS_RemoveElement
    <3> QED
      BY <3>1
  <2>3. Cardinality(Better(S, f, s[N])) = n
    BY <1>1, <1>4
  <2> QED
    BY <2>1, <2>2, <2>3, FS_Subset
<1>7. \A c \in S : c # s[N] => f[c] > f[s[N]]
  BY <1>6 DEF Better
<1>8. (\E c \in S : f[c] < f[b]) <=> i # N
  <2>1. CASE i = N
    BY <1>3, <1>4, <1>7, <2>1
  <2>2. CASE i # N
    <3>1. b # s[N]
      BY <1>1, <1>3, <1>4, <2>2 DEF Unique
    <3> QED
      BY <1>4, <1>7, <2>2, <3>1
  <2> QED
    BY <2>1, <2>2
<1> QED
  BY <1>5, <1>8 DEF t, s

\* A document has among its neighbours every other that is not its farthest.
LEMMA NeighborsOK ==
    ASSUME MemoryInv, NEW a \in CurrentIds, NEW b \in CurrentIds, a # b,
           NEW n \in Nat, Cardinality(CurrentIds) = n + 1
    PROVE  b \in Listed(Closest(mem.docs[a].vector, CurrentIds, n)) <=> ~Farthest(a, b)
<1> DEFINE C == CurrentIds
           q == mem.docs[a].vector
           f == Scored(q, C)
<1>1. q \in Points
  <2>1. mem.docs \in Partial(Docs) /\ a \in DOMAIN mem.docs
    BY DEF MemoryInv, MemOK, CurrentIds
  <2>2. mem.docs[a] \in Docs
    BY <2>1, PartialFacts
  <2> QED
    BY <2>2 DEF Docs
<1> HIDE DEF C
<1>2. C \in SUBSET CurrentIds
  BY DEF C
<1>3. /\ q \in Int /\ IsFiniteSet(C) /\ \A id \in C : f[id] \in Int
      /\ \A c, d \in C : f[c] = f[d] => c = d
      /\ \A id \in C : mem.docs[id].vector \in Int
  BY <1>1, <1>2, ScoredFacts
<1>4. \A id \in C : f[id] = Rank!Similarity(q, mem.docs[id].vector)
  BY DEF Scored
<1>5. f[a] = 0 /\ \A id \in C : f[id] <= 0
  <2> HIDE DEF f
  <2>1. a \in C /\ f[a] = Rank!Similarity(q, q)
    BY <1>4 DEF C
  <2> HIDE DEF q
  <2> QED
    BY <1>3, <1>4, <2>1, SimilarityFacts
<1>6. b \in Listed(Closest(q, C, n)) <=> \E c \in C : f[c] < f[b]
  <2> HIDE DEF f, q
  <2>1. Closest(q, C, n) = First(Ranked(C, f), n)
    BY DEF Closest, f
  <2> QED
    BY <1>3, <2>1, NotLast DEF C
<1>7. (\E c \in C : f[c] < f[b]) <=> \E c \in C \ {a} : ~(f[b] <= f[c])
  <2> HIDE DEF f
  <2> QED
    BY <1>3, <1>5 DEF C
<1>8. Farthest(a, b) <=> \A c \in C \ {a} : f[b] <= f[c]
  <2> HIDE DEF f
  <2> QED
    BY <1>4 DEF Farthest, C
<1> QED
  BY <1>6, <1>7, <1>8 DEF C

\* Two ids make a pair, and a pair is of two ids.
LEMMA PairFacts ==
    /\ \A a, b : a # b => Cardinality({a, b}) = 2
    /\ \A pair : IsFiniteSet(pair) /\ Cardinality(pair) = 2 =>
            \A a, b \in pair : a # b => pair = {a, b}
<1>1. ASSUME NEW a, NEW b, a # b PROVE Cardinality({a, b}) = 2 /\ IsFiniteSet({a, b})
  <2>1. IsFiniteSet({a}) /\ Cardinality({a}) = 1 /\ {a, b} = {a} \union {b}
    BY FS_Singleton
  <2> QED
    BY <1>1, <2>1, FS_AddElement
<1>2. ASSUME NEW pair, IsFiniteSet(pair), Cardinality(pair) = 2, NEW a \in pair, NEW b \in pair, a # b
      PROVE  pair = {a, b}
  <2>1. {a, b} \subseteq pair /\ Cardinality({a, b}) = 2
    BY <1>1, <1>2
  <2> QED
    BY <1>2, <2>1, FS_Subset
<1> QED
  BY <1>1, <1>2

\* A search for duplicates finds exactly the pairs of documents that are
\* similar enough, but for a pair of which each is the other's farthest, as
\* long as a document may have all others for its neighbours.
THEOREM DuplicatesAlwaysFound ==
    ASSUME NumClusters <= 20, Cardinality(Ids) <= 50
    PROVE  Spec => []DuplicatesFound
<1>1. ASSUME SearchInv PROVE DuplicatesFound
  <2>1. SUFFICES ASSUME mem.index.kind # "Hnsw", Searchable, ~patchy, NEW threshold
                 PROVE  FindDuplicates(threshold, None, Thorough).pairs =
                            {pair \in SUBSET CurrentIds :
                                /\ Cardinality(pair) = 2
                                /\ \A a, b \in pair :
                                    Rank!Similarity(mem.docs[a].vector, mem.docs[b].vector) >= threshold
                                /\ \E a, b \in pair : a # b /\ ~Farthest(a, b)}
    BY DEF DuplicatesFound
  <2> DEFINE C == CurrentIds
             vectors == mem.cache.vectors
             v(id) == mem.docs[id].vector
             most == NeighborK(None, Cardinality(DOMAIN vectors))
             answer == [id \in DOMAIN vectors |->
                           Index!Search(mem.index, vectors[id], most, Thorough, vectors, Ids)]
             near(id) == Listed(answer[id].ids) \ {id}
             linked == UNION {{{id, x} : x \in near(id) \intersect DOMAIN vectors} : id \in DOMAIN vectors}
             alike(pair) == \A a, b \in pair : Rank!Similarity(vectors[a], vectors[b]) >= threshold
             duplicates == {pair \in SUBSET C :
                                /\ Cardinality(pair) = 2
                                /\ \A a, b \in pair : Rank!Similarity(v(a), v(b)) >= threshold
                                /\ \E a, b \in pair : a # b /\ ~Farthest(a, b)}
  <2>2. FindDuplicates(threshold, None, Thorough).pairs = {pair \in linked : alike(pair)}
    BY DEF FindDuplicates, Listed
  <2>3. /\ MemoryInv /\ C \subseteq Ids /\ IsFiniteSet(C)
        /\ DOMAIN vectors = C /\ \A id \in C : vectors[id] = v(id) /\ v(id) \in Points
    <3>1. MemoryInv /\ mem.docs \in Partial(Docs)
      BY <1>1 DEF SearchInv, MemoryInv, MemOK
    <3>2. C \subseteq Ids /\ \A id \in C : mem.docs[id] \in Docs
      BY <3>1, PartialFacts DEF CurrentIds
    <3>3. IsFiniteSet(C)
      BY <3>2, FS_Subset, ConstantsAssumption
    <3>4. DOMAIN vectors = C /\ \A id \in C : vectors[id] = v(id)
      BY <2>1, <3>1 DEF MemoryInv, MemOK, Backed, Agrees, CurrentIds
    <3> QED
      BY <3>1, <3>2, <3>3, <3>4 DEF Docs
  <2>4. most \in Nat /\ \A n \in Nat : Cardinality(C) = n + 1 /\ n # 0 => most = n
    <3>1. Cardinality(C) \in Nat /\ Cardinality(C) <= Cardinality(Ids) /\ Cardinality(Ids) \in Nat
      BY <2>3, FS_Subset, FS_CardinalityType, ConstantsAssumption
    <3>2. Cardinality(DOMAIN vectors) = Cardinality(C)
      BY <2>3
    <3> DEFINE n == Cardinality(C)
    <3> HIDE DEF n
    <3>3. n \in Nat /\ n <= 50
      BY <3>1 DEF n
    <3>4. most = NeighborK(None, n)
      BY <3>2 DEF n
    <3> HIDE DEF most
    <3> QED
      BY <3>3, <3>4 DEF NeighborK, n
  <2> HIDE DEF most
  <2>5. ASSUME NEW id \in C PROVE answer[id].ids = Closest(v(id), C, most)
    <3>1. Indexed(mem.index) = C
      BY <1>1, <2>1, IndexedAll
    <3>2. SparesNothing(Thorough)
      BY <2>1, RequestFacts DEF SparesNothing
    <3>3. answer[id] = Index!Search(mem.index, v(id), most, Thorough, vectors, Ids)
      BY <2>3
    <3>4. v(id) \in Points \union Queries
      BY <2>3
    <3> DEFINE q == v(id)
               found == Index!Search(mem.index, q, most, Thorough, mem.cache.vectors, Ids)
    <3> HIDE DEF answer, q
    <3>5. IF Searchable
          THEN \E t : /\ Listing(t, CurrentIds, most) /\ found = [ok |-> TRUE, ids |-> t]
                      /\ SparesNothing(Thorough) =>
                            /\ Indexed(mem.index) \subseteq CurrentIds
                            /\ t = Closest(q, Indexed(mem.index), most)
          ELSE found = [ok |-> FALSE, ids |-> <<>>]
      BY <2>3, <2>4, <3>4, IndexSearchOK DEF q
    <3> HIDE DEF found
    <3>6. PICK t : /\ found = [ok |-> TRUE, ids |-> t]
                   /\ SparesNothing(Thorough) => t = Closest(q, Indexed(mem.index), most)
      BY <2>1, <3>5
    <3>7. answer[id] = found
      BY <3>3 DEF found, q
    <3> HIDE DEF C
    <3> QED
      BY <3>1, <3>2, <3>6, <3>7 DEF q
  <2> HIDE DEF answer
  <2>6. ASSUME NEW a \in C, NEW b \in C, a # b
        PROVE  b \in near(a) <=> ~Farthest(a, b)
    <3>1. Cardinality(C) \in Nat /\ Cardinality(C) >= 2
      <4>1. {a, b} \subseteq C /\ Cardinality({a, b}) = 2
        BY <2>6, PairFacts
      <4> HIDE DEF C
      <4> QED
        BY <2>3, <4>1, FS_Subset, FS_CardinalityType
    <3>2. PICK n \in Nat : Cardinality(C) = n + 1 /\ n # 0
      <4>1. Cardinality(C) - 1 \in Nat /\ Cardinality(C) - 1 # 0 /\ Cardinality(C) = (Cardinality(C) - 1) + 1
        BY <3>1
      <4> QED
        BY <4>1
    <3>3. most = n
      BY <2>4, <3>2
    <3>4. b \in Listed(Closest(v(a), C, n)) <=> ~Farthest(a, b)
      BY <2>3, <2>6, <3>2, NeighborsOK
    <3>5. b \in near(a) <=> b \in Listed(Closest(v(a), C, n))
      BY <2>5, <2>6, <3>3
    <3> QED
      BY <3>4, <3>5
  <2>7. \A pair \in SUBSET C : alike(pair) <=> \A a, b \in pair : Rank!Similarity(v(a), v(b)) >= threshold
    BY <2>3
  <2> HIDE DEF v, near
  <2>8. ASSUME NEW pair, pair \in linked, alike(pair) PROVE pair \in duplicates
    <3>0. PICK a \in C : pair \in {{a, x} : x \in near(a) \intersect C}
      BY <2>3, <2>8
    <3>1. PICK b \in near(a) \intersect C : pair = {a, b}
      BY <3>0
    <3>2. a # b
      BY DEF near
    <3>3. ~Farthest(a, b)
      BY <2>6, <3>1, <3>2
    <3>4. pair \in SUBSET C /\ Cardinality(pair) = 2
      BY <3>1, <3>2, PairFacts
    <3> HIDE DEF alike
    <3>5. \A c, d \in pair : Rank!Similarity(v(c), v(d)) >= threshold
      BY <2>7, <2>8, <3>4
    <3> QED
      BY <3>1, <3>2, <3>3, <3>4, <3>5
  <2>9. ASSUME NEW pair \in duplicates PROVE pair \in linked /\ alike(pair)
    <3>1. /\ pair \in SUBSET C /\ Cardinality(pair) = 2
          /\ \A a, b \in pair : Rank!Similarity(v(a), v(b)) >= threshold
      OBVIOUS
    <3>2. PICK a \in pair, b \in pair : a # b /\ ~Farthest(a, b)
      OBVIOUS
    <3>3. IsFiniteSet(pair)
      BY <2>3, <3>1, FS_Subset
    <3>4. pair = {a, b}
      BY <3>1, <3>2, <3>3, PairFacts
    <3>5. a \in C /\ b \in C /\ b \in near(a)
      BY <2>6, <3>1, <3>2
    <3>6. pair \in linked
      BY <2>3, <3>4, <3>5
    <3> HIDE DEF alike
    <3> QED
      BY <2>7, <3>1, <3>6
  <2>10. {pair \in linked : alike(pair)} = duplicates
    <3> HIDE DEF linked, alike, duplicates
    <3> QED
      BY <2>8, <2>9
  <2>11. FindDuplicates(threshold, None, Thorough).pairs = duplicates
    <3> HIDE DEF linked, alike, duplicates
    <3> QED
      BY <2>2, <2>10
  <2> QED
    BY <2>11 DEF v
<1> QED
  BY <1>1, AlwaysSearchInv, PTL
=============================================================================
