----------------------- MODULE CollectionVectorProofs -----------------------
(***************************************************************************)
(* The vector index and the limits, for every value of the constants: no   *)
(* collection outgrows limits.max_vectors, the vector index names only     *)
(* documents that are there, and where no write is rejected it names them  *)
(* all.                                                                    *)
(***************************************************************************)
EXTENDS CollectionRecoveryProofs

-----------------------------------------------------------------------------
(* limits.max_vectors                                                      *)

\* An offset index with no more documents than the limit allows
Within(index) == MaxVectors # None => Cardinality(Live(index)) <= MaxVectors

\* Recovery starts from the saved offset index: it keeps to the limit, too.
LimitInv == TypeInv /\ Within(mem.index) /\ Within(fIndex)

\* An index of the memory or of the files has finitely many documents.
LEMMA LiveFinite ==
  ASSUME NEW index \in [Ids -> Slots \cup {None}], Injective(index)
  PROVE  IsFiniteSet(Live(index)) /\ Cardinality(Live(index)) \in Nat
<1> DEFINE f == [id \in Live(index) |-> index[id]]
<1>1. f \in Injection(Live(index), Slots)
  BY DEF Injective, Live, Injection, IsInjective
<1>2. IsFiniteSet(Slots)
  BY ConstantsAssumption, FS_Interval DEF Slots
<1>3. IsFiniteSet(Live(index))
  BY <1>1, <1>2, FS_Injection
<1> QED
  BY <1>3, FS_CardinalityType

\* Deletes never exceed a limit,
LEMMA WithinFewer ==
  ASSUME NEW index, NEW other, Within(index), IsFiniteSet(Live(index)),
         Live(other) \subseteq Live(index)
  PROVE  Within(other)
<1>1. /\ IsFiniteSet(Live(other)) /\ Cardinality(Live(other)) <= Cardinality(Live(index))
  BY FS_Subset
<1>2. Cardinality(Live(other)) \in Nat /\ Cardinality(Live(index)) \in Nat
  BY <1>1, FS_CardinalityType
<1> QED
  BY <1>1, <1>2, ConstantsAssumption DEF Within

\* nor does one document more than an index below the limit has,
LEMMA WithinOneMore ==
  ASSUME NEW index, NEW other, NEW id, IsFiniteSet(Live(index)),
         MaxVectors # None => Cardinality(Live(index)) < MaxVectors,
         Live(other) \subseteq Live(index) \cup {id}
  PROVE  Within(other)
<1> DEFINE S == Live(index) \cup {id}
<1>1. IsFiniteSet(S) /\ Cardinality(S) <= Cardinality(Live(index)) + 1
  <2>1. Cardinality(Live(index)) \in Nat
    BY FS_CardinalityType
  <2> QED
    BY <2>1, FS_AddElement
<1> HIDE DEF S
<1>2. IsFiniteSet(Live(other)) /\ Cardinality(Live(other)) <= Cardinality(S)
  BY <1>1, FS_Subset DEF S
<1>3. /\ Cardinality(Live(other)) \in Nat /\ Cardinality(S) \in Nat
      /\ Cardinality(Live(index)) \in Nat
  BY <1>1, <1>2, FS_CardinalityType
<1> QED
  BY <1>1, <1>2, <1>3, ConstantsAssumption DEF Within

\* nor do the documents of a batch that enforce_batch has let through.
LEMMA WithinBatch ==
  ASSUME NEW index, NEW other, NEW n \in Nat, NEW f, IsFiniteSet(Live(index)),
         MaxVectors # None => Cardinality(Live(index)) + n <= MaxVectors,
         Live(other) \subseteq Live(index) \cup {f[i] : i \in 1..n}
  PROVE  Within(other)
<1> DEFINE T == {f[i] : i \in 1..n}
           g == [i \in 1..n |-> f[i]]
<1>1. IsFiniteSet(1..n) /\ Cardinality(1..n) = n
  BY FS_Interval
<1>2. g \in Surjection(1..n, T)
  BY DEF Surjection
<1>3. IsFiniteSet(T) /\ Cardinality(T) <= n
  BY <1>1, <1>2, FS_Surjection
<1> HIDE DEF T
<1> DEFINE S == Live(index) \cup T
<1>4. /\ IsFiniteSet(S)
      /\ Cardinality(S) = Cardinality(Live(index)) + Cardinality(T) - Cardinality(Live(index) \cap T)
  BY <1>3, FS_Union
<1>5. IsFiniteSet(Live(index) \cap T)
  BY <1>3, FS_Subset
<1>6. /\ Cardinality(S) \in Nat /\ Cardinality(Live(index)) \in Nat /\ Cardinality(T) \in Nat
      /\ Cardinality(Live(index) \cap T) \in Nat
  BY <1>3, <1>4, <1>5, FS_CardinalityType
<1>7. Cardinality(S) <= Cardinality(Live(index)) + n
  BY <1>3, <1>4, <1>6
<1> HIDE DEF S
<1>8. IsFiniteSet(Live(other)) /\ Cardinality(Live(other)) <= Cardinality(S)
  BY <1>4, FS_Subset DEF S, T
<1>9. Cardinality(Live(other)) \in Nat
  BY <1>8, FS_CardinalityType
<1> QED
  BY <1>6, <1>7, <1>8, <1>9, ConstantsAssumption DEF Within

\* insert_internal stops at the limit.
LEMMA InsertInternalWithin ==
  ASSUME NEW m, Sound(m), Within(m.index), m.cursor <= MaxSlots, NEW id \in Ids, NEW doc \in Docs
  PROVE  Within(InsertInternal(m, id, doc).index)
<1>1. IsFiniteSet(Live(m.index)) /\ Cardinality(Live(m.index)) \in Nat
  BY LiveBounded
<1>2. CASE EnforceSingleFails(m, doc)
  BY <1>2, InsertInternalSound
<1>3. CASE ~EnforceSingleFails(m, doc)
  <2> DEFINE other == InsertInternal(m, id, doc).index
  <2>1. other = [m.index EXCEPT ![id] = m.cursor]
    BY <1>3, InsertInternalSound
  <2>2. Live(other) \subseteq Live(m.index) \cup {id}
    BY <2>1 DEF Live
  <2>3. MaxVectors # None => Cardinality(Live(m.index)) < MaxVectors
    BY <1>1, <1>3, ConstantsAssumption DEF EnforceSingleFails
  <2> HIDE DEF other
  <2>4. Within(other)
    BY <1>1, <2>2, <2>3, WithinOneMore
  <2> QED
    BY <2>4 DEF other
<1> QED
  BY <1>2, <1>3

\* The memory that an insert, an upsert or a replayed entry starts from keeps
\* to the limit, and so does what insert_internal makes of it.
LEMMA ReplacedWithin ==
  ASSUME LimitInv, mem.cursor <= MaxSlots, NEW id \in Ids, NEW doc \in Docs, NEW m,
         m = mem \/ m = DeleteInternal(mem, id)
  PROVE  Within(InsertInternal(m, id, doc).index)
<1>1. Sound(mem) /\ Within(mem.index) /\ IsFiniteSet(Live(mem.index))
  BY LiveBounded DEF LimitInv, TypeInv
<1>2. Sound(m) /\ m.cursor = mem.cursor /\ Live(m.index) \subseteq Live(mem.index)
  <2>1. CASE m = mem
    BY <1>1, <2>1
  <2>2. CASE m = DeleteInternal(mem, id)
    <3>1. Sound(m) /\ m.cursor = mem.cursor /\ m.index = [mem.index EXCEPT ![id] = None]
      BY <1>1, <2>2, DeleteInternalSound
    <3> QED
      BY <3>1 DEF Live
  <2> QED
    BY <2>1, <2>2
<1>3. Within(m.index)
  BY <1>1, <1>2, WithinFewer
<1> QED
  BY <1>2, <1>3, InsertInternalWithin

\* insert and upsert, applied
LEMMA ApplyInsertWithin == LimitInv /\ ApplyInsert => Within(mem'.index)
<1> SUFFICES ASSUME LimitInv, ApplyInsert PROVE Within(mem'.index)
  OBVIOUS
<1> DEFINE w == op.todo[1]
           m == IF w.kind = "Update" THEN DeleteInternal(mem, w.id) ELSE mem
<1>1. w.id \in Ids /\ w.doc \in Docs /\ mem.cursor <= MaxSlots
  BY FirstWrite DEF ApplyInsert, Storing, LimitInv
<1>2. m = mem \/ m = DeleteInternal(mem, w.id)
  OBVIOUS
<1>3. mem' = InsertInternal(m, w.id, w.doc)
  BY DEF ApplyInsert
<1> HIDE DEF w, m
<1>4. Within(InsertInternal(m, w.id, w.doc).index)
  BY <1>1, <1>2, ReplacedWithin
<1> QED
  BY <1>3, <1>4

\* update_metadata and update_vector enforce the limit as if they added a
\* document.
LEMMA ApplyUpdateWithin ==
  LimitInv /\ (ApplyUpdateMetadata \/ ApplyUpdateVector) => Within(mem'.index)
<1> SUFFICES ASSUME LimitInv, ApplyUpdateMetadata \/ ApplyUpdateVector
             PROVE  Within(mem'.index)
  OBVIOUS
<1> DEFINE w == op.todo[1]
           m == [mem EXCEPT !.dims = DimsAfter(mem, w.doc.vec)]
<1>1. /\ w.id \in Ids /\ mem \in Mem
      /\ IsFiniteSet(Live(mem.index)) /\ Cardinality(Live(mem.index)) \in Nat
      /\ Within(mem.index)
  BY FirstWrite, LiveBounded
     DEF ApplyUpdateMetadata, ApplyUpdateVector, LimitInv, TypeInv, TypeOK
<1>2. \/ mem'.index = mem.index
      \/ /\ ~EnforceSingleFails(mem, w.doc)
         /\ mem'.index = [mem.index EXCEPT ![w.id] = mem.cursor]
  BY <1>1 DEF ApplyUpdateMetadata, ApplyUpdateVector, Pointed, Indexed, Mem
<1> HIDE DEF w
<1>3. CASE mem'.index = mem.index
  BY <1>1, <1>3
<1>4. CASE ~EnforceSingleFails(mem, w.doc) /\ mem'.index = [mem.index EXCEPT ![w.id] = mem.cursor]
  <2>1. Live(mem'.index) \subseteq Live(mem.index) \cup {w.id}
    BY <1>4 DEF Live
  <2>2. MaxVectors # None => Cardinality(Live(mem.index)) < MaxVectors
    BY <1>1, <1>4, ConstantsAssumption DEF EnforceSingleFails
  <2> QED
    BY <1>1, <2>1, <2>2, WithinOneMore
<1> QED
  BY <1>2, <1>3, <1>4

\* delete and delete_batch, applied
LEMMA ApplyDeleteWithin == LimitInv /\ ApplyDelete => Within(mem'.index)
<1> SUFFICES ASSUME LimitInv, ApplyDelete PROVE Within(mem'.index)
  OBVIOUS
<1> DEFINE ids == {op.todo[i].id : i \in DOMAIN op.todo}
<1>1. IsFiniteSet(Live(mem.index)) /\ Within(mem.index) /\ Sound(mem)
  BY LiveBounded DEF LimitInv, TypeInv
<1>2. mem' = DeleteAll(mem, ids)
  BY DEF ApplyDelete
<1> HIDE DEF ids
<1>3. mem'.index = [id \in Ids |-> IF id \in ids THEN None ELSE mem.index[id]]
  BY <1>1, <1>2, DeleteAllSound
<1>4. Live(mem'.index) \subseteq Live(mem.index)
  BY <1>3 DEF Live
<1> QED
  BY <1>1, <1>4, WithinFewer

\* insert_batch, applied up to its checkpoint
LEMMA ApplyInsertBatchWithin == LimitInv /\ ApplyInsertBatch => Within(mem'.index)
<1> SUFFICES ASSUME LimitInv, ApplyInsertBatch PROVE Within(mem'.index)
  OBVIOUS
<1> DEFINE n == Len(op.todo)
           f == [i \in 1..n |-> op.todo[i].id]
           index == [id \in Ids |-> IF \E i \in 1..n : op.todo[i].id = id
                                    THEN mem.cursor + (CHOOSE i \in 1..n : op.todo[i].id = id) - 1
                                    ELSE mem.index[id]]
<1>1. /\ n \in Nat /\ mem \in Mem /\ Within(mem.index)
      /\ IsFiniteSet(Live(mem.index)) /\ Cardinality(Live(mem.index)) \in Nat
  BY LiveBounded DEF LimitInv, TypeInv, TypeOK
<1>2. CASE EnforceBatchFails(mem, op.todo)
  BY <1>1, <1>2 DEF ApplyInsertBatch
<1>3. CASE ~EnforceBatchFails(mem, op.todo)
  <2>1. mem' = Repointed(mem, index, mem.cursor + n)
    BY <1>3 DEF ApplyInsertBatch
  <2>2. mem'.index = index
    BY <1>1, <2>1 DEF Repointed, Mem
  <2>3. MaxVectors # None => Cardinality(Live(mem.index)) + n <= MaxVectors
    BY <1>1, <1>3, ConstantsAssumption DEF EnforceBatchFails
  <2>4. \A id \in Live(index) : id \in Live(mem.index) \/ \E i \in 1..n : f[i] = id
    BY DEF Live
  <2> HIDE DEF n, f, index
  <2>5. Live(index) \subseteq Live(mem.index) \cup {f[i] : i \in 1..n}
    BY <2>4
  <2>6. Within(index)
    BY <1>1, <2>3, <2>5, WithinBatch
  <2> QED
    BY <2>2, <2>6
<1> QED
  BY <1>2, <1>3

\* Compaction has a slot for every document it keeps, and as many slots as
\* there were documents.
LEMMA CompactWithin == LimitInv /\ Compact => Within(mem'.index)
<1> SUFFICES ASSUME LimitInv, Compact PROVE Within(mem'.index)
  OBVIOUS
<1> DEFINE n == Cardinality(Live(mem.index))
<1>1. n \in 0..MaxSlots /\ n \in Nat /\ Within(mem.index)
  BY LiveBounded, ConstantsAssumption DEF LimitInv, TypeInv
<1>2. PICK index \in [Ids -> (1..n) \cup {None}] : mem'.index = index
  BY SMTT(30) DEF Compact
<1>3. Injective(index)
  BY <1>2, CompactStep DEF LimitInv, TypeInv, Sound
<1> HIDE DEF n
<1> DEFINE f == [id \in Live(index) |-> index[id]]
<1>4. f \in Injection(Live(index), 1..n)
  BY <1>3 DEF Injective, Live, Injection, IsInjective
<1>5. IsFiniteSet(1..n) /\ Cardinality(1..n) = n
  BY <1>1, FS_Interval
<1>6. IsFiniteSet(Live(index)) /\ Cardinality(Live(index)) <= n
  BY <1>4, <1>5, FS_Injection
<1>7. Cardinality(Live(index)) \in Nat
  BY <1>6, FS_CardinalityType
<1> QED
  BY <1>1, <1>2, <1>6, <1>7, ConstantsAssumption DEF Within, n

\* Recovery replays a delete, or an entry that passes the limits once more.
LEMMA ReplayWithin == LimitInv /\ (ReplayDelete \/ ReplayInsert) => Within(mem'.index)
<1> SUFFICES ASSUME LimitInv, ReplayDelete \/ ReplayInsert PROVE Within(mem'.index)
  OBVIOUS
<1> DEFINE e == wal[pos]
           m == IF e.kind = "Update" THEN DeleteInternal(mem, e.id) ELSE mem
<1>1. /\ Sound(mem) /\ Within(mem.index) /\ IsFiniteSet(Live(mem.index)) /\ e.id \in Ids
      /\ e.kind \in {"Insert", "Update"} => e.doc \in Docs
  BY LiveBounded, EntryFacts DEF LimitInv, TypeInv, ReplayDelete, ReplayInsert
<1>2. CASE ReplayDelete
  <2>1. mem'.index = [mem.index EXCEPT ![e.id] = None]
    BY <1>1, <1>2, DeleteInternalSound DEF ReplayDelete
  <2>2. Live(mem'.index) \subseteq Live(mem.index)
    BY <2>1 DEF Live
  <2> QED
    BY <1>1, <2>2, WithinFewer
<1>3. CASE ReplayInsert
  <2>1. /\ mem.cursor <= MaxSlots /\ e.doc \in Docs
        /\ mem' = InsertInternal(m, e.id, e.doc) \/ mem' = EmptyMem
    BY <1>1, <1>3 DEF ReplayInsert, LoseMemory
  <2>2. m = mem \/ m = DeleteInternal(mem, e.id)
    OBVIOUS
  <2> HIDE DEF m, e
  <2>3. Within(InsertInternal(m, e.id, e.doc).index)
    BY <1>1, <2>1, <2>2, ReplacedWithin
  <2>4. Within(EmptyMem.index)
    BY <1>1, WithinFewer DEF EmptyMem, Live
  <2> QED
    BY <2>1, <2>3, <2>4
<1> QED
  BY <1>2, <1>3

\* Opening a collection starts from the saved offset index.
LEMMA OpenWithin == LimitInv /\ (OpenClean \/ OpenAndReplay) => Within(mem'.index)
<1>1. \A s, vindex, cache : /\ Loaded(s).index = fIndex
                            /\ WithVectors(Loaded(s), vindex, cache).index = fIndex
  BY DEF Loaded, WithVectors
<1> QED
  BY <1>1 DEF OpenClean, OpenAndReplay, LimitInv

\* LimitInv is inductive.
LEMMA LimitInvStep == LimitInv /\ [Next]_vars => LimitInv'
<1> SUFFICES ASSUME LimitInv, [Next]_vars PROVE Within(mem'.index) /\ Within(fIndex')
  BY TypeInvStep DEF LimitInv, Within, Live
<1>0. /\ Within(mem.index) /\ Within(fIndex) /\ mem \in Mem
      /\ IsFiniteSet(Live(mem.index))
  BY LiveBounded DEF LimitInv, TypeInv, TypeOK
<1>1. Within(EmptyMem.index)
  BY <1>0, WithinFewer DEF EmptyMem, Live
<1>2. fIndex' = fIndex \/ fIndex' = mem.index
  <2>1. CASE UNCHANGED vars \/ Read \/ StartOperation \/ Crash
    BY <2>1, ZenonT(40) DEF vars, files, Read, StartOperation, Insert, InsertBatch, Upsert, UpdateMetadata,
       UpdateVector, Delete, DeleteBatch, Checkpoint, Compact, RebuildIndex, Start, Crash
  <2>2. CASE Continue
    BY <2>2, ZenonT(40) DEF Continue, Log, ApplyInsert, ApplyUpdateMetadata, ApplyUpdateVector, ApplyDelete,
       ApplyInsertBatch, InsertBatchVectors, ApplyFrame, SaveIndex, SaveVectorIndex, SaveMetadata,
       LogCheckpoint, SaveWalMeta, Rotate, OpenFails, OpenClean, OpenAndReplay, OpenFrame,
       ReplaySkip, ReplayDelete, ReplayInsert, ReplayDone, files
  <2> QED
    BY <2>1, <2>2 DEF Next
<1>3. CASE UNCHANGED vars \/ Read
  BY <1>0, <1>2, <1>3 DEF vars, Read
<1>4. CASE StartOperation
  <2>1. CASE Compact
    BY <1>0, <1>2, <2>1, CompactWithin
  <2>2. CASE ~Compact
    <3>1. mem'.index = mem.index
      BY <1>0, <1>4, <2>2 DEF StartOperation, Insert, InsertBatch, Upsert, UpdateMetadata,
         UpdateVector, Delete, DeleteBatch, Start, Checkpoint, RebuildIndex, WithVectors, Mem
    <3> QED
      BY <1>0, <1>2, <3>1
  <2> QED
    BY <2>1, <2>2
<1>5. CASE Crash
  BY <1>0, <1>1, <1>2, <1>5 DEF Crash, LoseMemory
<1>6. CASE Continue
  <2>1. CASE \/ Log \/ InsertBatchVectors \/ SaveIndex \/ SaveVectorIndex \/ SaveMetadata
             \/ LogCheckpoint \/ SaveWalMeta \/ Rotate \/ OpenFails \/ ReplaySkip \/ ReplayDone
    <3>1. mem'.index = mem.index \/ mem' = EmptyMem
      BY <1>0, <2>1, ZenonT(40) DEF Log, InsertBatchVectors, SaveIndex, SaveVectorIndex, SaveMetadata,
         LogCheckpoint, SaveWalMeta, Rotate, OpenFails, ReplaySkip, ReplayDone, LoseMemory,
         WithVectors, Mem
    <3> QED
      BY <1>0, <1>1, <1>2, <3>1
  <2>2. CASE \/ ApplyInsert \/ ApplyUpdateMetadata \/ ApplyUpdateVector \/ ApplyDelete
             \/ ApplyInsertBatch \/ OpenClean \/ OpenAndReplay \/ ReplayDelete \/ ReplayInsert
    BY <1>0, <1>2, <2>2, ApplyInsertWithin, ApplyUpdateWithin, ApplyDeleteWithin,
       ApplyInsertBatchWithin, OpenWithin, ReplayWithin
  <2> QED
    BY <1>6, <2>1, <2>2 DEF Continue
<1> QED
  BY <1>3, <1>4, <1>5, <1>6 DEF Next

\* limits.max_vectors bounds the collection whatever its operations, batches,
\* checkpoints, compactions and recoveries are, and whatever the process dies
\* of: every path that adds a document enforces the limit, and recovery starts
\* from an offset index that kept to it.
THEOREM VectorsAlwaysLimited == Spec => []VectorLimit
<1>1. Init => LimitInv
  <2>1. Init => Live(mem.index) = {} /\ Live(fIndex) = {}
    BY DEF Init, EmptyMem, Live
  <2> QED
    BY <2>1, TypeInvInit, FS_EmptySet, ConstantsAssumption DEF LimitInv, Within
<1>2. Spec => []LimitInv
  BY <1>1, LimitInvStep, PTL DEF Spec
<1>3. LimitInv => VectorLimit
  BY DEF LimitInv, Within, VectorLimit
<1> QED
  BY <1>2, <1>3, PTL

-----------------------------------------------------------------------------
(* What a step of memory does to one id.                                   *)

\* Readers and searches find under id what they found before.
Same(id) ==
  /\ mem'.index[id] # None <=> mem.index[id] # None
  /\ id \in mem'.vindex <=> id \in mem.vindex
  /\ mem'.cache[id] = mem.cache[id]
  /\ Found(data', mem'.index, id).vec = Found(data, mem.index, id).vec

\* Memory knows nothing of id.
Gone(id) == mem'.index[id] = None /\ id \notin mem'.vindex /\ mem'.cache[id] = None

\* id has a document that is indexed and cached,
Entered(id) ==
  /\ mem'.index[id] # None /\ id \in mem'.vindex
  /\ mem'.cache[id] = Found(data', mem'.index, id).vec

\* or one that the vector index has not heard of.
Unindexed(id) == mem'.index[id] # None /\ id \notin mem'.vindex

\* If the vector index names id then there is a document, and its vector is cached.
Fits(id) ==
  id \in mem.vindex => /\ mem.index[id] # None
                       /\ mem.cache[id] = Found(data, mem.index, id).vec

\* The vector index and the cache know id if and only if there is a document.
Exact(id) ==
  /\ id \in mem.vindex <=> mem.index[id] # None
  /\ mem.cache[id] = IF mem.index[id] # None THEN Found(data, mem.index, id).vec ELSE None

\* No document is in memory only half.
Settles == \A id \in Ids : Same(id) \/ Gone(id) \/ Entered(id)

\* No step of these kinds makes memory disagree with itself.
LEMMA FitsKept ==
  ASSUME NEW id, (Same(id) /\ Fits(id)) \/ Gone(id) \/ Entered(id) \/ Unindexed(id)
  PROVE  Fits(id)'
BY DEF Fits, Same, Gone, Entered, Unindexed

LEMMA ExactKept ==
  ASSUME NEW id, (Same(id) /\ Exact(id)) \/ Gone(id) \/ Entered(id)
  PROVE  Exact(id)'
BY DEF Exact, Same, Gone, Entered

\* insert_internal, pointwise: it stops at a limit, or it stores the document
\* and then indexes it unless its dimensions are wrong.
LEMMA InsertInternalCases ==
  ASSUME NEW m, Sound(m), m.cursor <= MaxSlots, NEW id \in Ids, NEW doc \in Docs,
         NEW r, r = InsertInternal(m, id, doc),
         NEW d, d = InsertInternalData(m, id, doc)
  PROVE  \/ r = m /\ d = data /\ ~InsertInternalOk(m, doc)
         \/ /\ r.index = [m.index EXCEPT ![id] = m.cursor]
            /\ d = Put(data, m.cursor, id, doc)
            /\ \/ r.vindex = m.vindex /\ r.cache = m.cache /\ ~InsertInternalOk(m, doc)
               \/ /\ r.vindex = m.vindex \cup {id}
                  /\ r.cache = [m.cache EXCEPT ![id] = doc.vec]
<1>1. CASE EnforceSingleFails(m, doc)
  BY <1>1 DEF InsertInternal, InsertInternalData, InsertInternalOk
<1>2. CASE ~EnforceSingleFails(m, doc)
  <2> DEFINE stored == [Pointed(m, id) EXCEPT !.dims = DimsAfter(m, doc.vec)]
  <2>1. /\ stored.dims = DimsAfter(m, doc.vec)
        /\ stored.vindex = m.vindex /\ stored.cache = m.cache
        /\ stored.index = [m.index EXCEPT ![id] = m.cursor]
    BY DEF Pointed, Sound, Mem
  <2>2. /\ Indexed(stored, id, doc.vec).index = stored.index
        /\ Indexed(stored, id, doc.vec).vindex = stored.vindex \cup {id}
        /\ Indexed(stored, id, doc.vec).cache = [stored.cache EXCEPT ![id] = doc.vec]
    BY DEF Indexed, Pointed, Sound, Mem
  <2>3. d = Put(data, m.cursor, id, doc)
    BY <1>2 DEF InsertInternalData, Appended, Put
  <2>4. r = IF stored.dims = DimOf[doc.vec] THEN Indexed(stored, id, doc.vec) ELSE stored
    BY <1>2 DEF InsertInternal
  <2> HIDE DEF stored
  <2>5. CASE stored.dims = DimOf[doc.vec]
    BY <2>1, <2>2, <2>3, <2>4, <2>5
  <2>6. CASE stored.dims # DimOf[doc.vec]
    <3>1. ~InsertInternalOk(m, doc)
      BY <2>1, <2>6 DEF InsertInternalOk
    <3> QED
      BY <2>1, <2>3, <2>4, <2>6, <3>1
  <2> QED
    BY <2>5, <2>6
<1> QED
  BY <1>1, <1>2

\* A document put at the cursor and pointed to, seen from each id
LEMMA PutFound ==
  ASSUME PointerInv, Running, pc # "cpIndex", mem.cursor <= MaxSlots,
         NEW id \in Ids, NEW doc \in Docs,
         data' = Put(data, mem.cursor, id, doc),
         NEW index, index = mem.index \/ index = [mem.index EXCEPT ![id] = None],
         mem'.index = [index EXCEPT ![id] = mem.cursor]
  PROVE  /\ mem'.index[id] # None /\ Found(data', mem'.index, id) = doc
         /\ \A x \in Ids : x # id => /\ mem'.index[x] = mem.index[x]
                                     /\ Found(data', mem'.index, x) = Found(data, mem.index, x)
<1>1. /\ data \in [Slots -> Records \cup {None}] /\ mem.cursor \in Slots
      /\ mem.index \in [Ids -> Slots \cup {None}] /\ Below(mem.index, mem.cursor)
  BY FileFacts DEF Slots
<1>2. mem'.index = [mem.index EXCEPT ![id] = mem.cursor]
  BY <1>1
<1>3. \A x \in Ids : Found(Put(data, mem.cursor, id, doc), [mem.index EXCEPT ![id] = mem.cursor], x)
                       = IF x = id THEN doc ELSE Found(data, mem.index, x)
  BY <1>1, FoundAppended
<1>4. \A x \in Ids : Found(data', mem'.index, x) = IF x = id THEN doc ELSE Found(data, mem.index, x)
  BY <1>2, <1>3
<1>5. mem'.index[id] # None /\ \A x \in Ids : x # id => mem'.index[x] = mem.index[x]
  BY <1>1, <1>2, NoneFacts
<1> QED
  BY <1>4, <1>5

\* insert, upsert and the replay of an entry, seen from each id
LEMMA InsertSeen ==
  ASSUME PointerInv, Running, pc # "cpIndex", mem.cursor <= MaxSlots,
         NEW id \in Ids, NEW doc \in Docs, NEW m, m = mem \/ m = DeleteInternal(mem, id),
         mem' = InsertInternal(m, id, doc), data' = InsertInternalData(m, id, doc)
  PROVE  /\ \A x \in Ids : x # id => Same(x)
         /\ m = DeleteInternal(mem, id) => Gone(id) \/ Entered(id) \/ Unindexed(id)
         /\ m = mem => \/ Same(id) \/ Entered(id)
                       \/ mem'.index[id] # None /\ mem'.vindex = mem.vindex
         /\ InsertInternalOk(m, doc) => Entered(id)
<1>1. mem \in Mem /\ Sound(mem)
  BY DEF PointerInv, TypeInv, TypeOK
<1>2. /\ Sound(m) /\ m.cursor = mem.cursor
      /\ \/ m = mem
         \/ /\ m = DeleteInternal(mem, id)
            /\ m.index = [mem.index EXCEPT ![id] = None]
            /\ m.vindex = mem.vindex \ {id}
            /\ m.cache = [mem.cache EXCEPT ![id] = None]
  BY <1>1, DeleteInternalEffect, DeleteInternalSound
<1>3. /\ mem.index \in [Ids -> Slots \cup {None}] /\ mem.cache \in [Ids -> Vectors \cup {None}]
      /\ m.cursor <= MaxSlots
  BY <1>1, <1>2 DEF Mem
<1>4. \/ mem' = m /\ data' = data /\ ~InsertInternalOk(m, doc)
      \/ /\ mem'.index = [m.index EXCEPT ![id] = m.cursor]
         /\ data' = Put(data, m.cursor, id, doc)
         /\ \/ mem'.vindex = m.vindex /\ mem'.cache = m.cache /\ ~InsertInternalOk(m, doc)
            \/ /\ mem'.vindex = m.vindex \cup {id}
               /\ mem'.cache = [m.cache EXCEPT ![id] = doc.vec]
  BY <1>2, <1>3, InsertInternalCases
<1>5. \A x \in Ids : /\ x # id => m.index[x] = mem.index[x]
                     /\ x # id => m.cache[x] = mem.cache[x]
                     /\ x # id => (x \in m.vindex <=> x \in mem.vindex)
  BY <1>2, <1>3
<1>6. m = DeleteInternal(mem, id) =>
        m.index[id] = None /\ id \notin m.vindex /\ m.cache[id] = None
  <2> SUFFICES ASSUME m = DeleteInternal(mem, id)
               PROVE  m.index[id] = None /\ id \notin m.vindex /\ m.cache[id] = None
    OBVIOUS
  <2>1. /\ m.index = [mem.index EXCEPT ![id] = None]
        /\ m.vindex = mem.vindex \ {id}
        /\ m.cache = [mem.cache EXCEPT ![id] = None]
    BY <1>1, DeleteInternalEffect
  <2> QED
    BY <1>3, <2>1
<1>7. CASE mem' = m /\ data' = data /\ ~InsertInternalOk(m, doc)
  <2>1. \A x \in Ids : x # id => Same(x)
    BY <1>5, <1>7 DEF Same, Found
  <2>2. m = DeleteInternal(mem, id) => Gone(id)
    BY <1>6, <1>7 DEF Gone
  <2>3. m = mem => Same(id)
    BY <1>7 DEF Same
  <2> QED
    BY <1>7, <2>1, <2>2, <2>3
<1>8. CASE /\ mem'.index = [m.index EXCEPT ![id] = m.cursor]
           /\ data' = Put(data, m.cursor, id, doc)
           /\ \/ mem'.vindex = m.vindex /\ mem'.cache = m.cache /\ ~InsertInternalOk(m, doc)
              \/ /\ mem'.vindex = m.vindex \cup {id}
                 /\ mem'.cache = [m.cache EXCEPT ![id] = doc.vec]
  <2>1. /\ mem'.index[id] # None /\ Found(data', mem'.index, id) = doc
        /\ \A x \in Ids : x # id => /\ mem'.index[x] = mem.index[x]
                                    /\ Found(data', mem'.index, x) = Found(data, mem.index, x)
    <3>1. /\ data' = Put(data, mem.cursor, id, doc)
          /\ mem'.index = [m.index EXCEPT ![id] = mem.cursor]
          /\ m.index = mem.index \/ m.index = [mem.index EXCEPT ![id] = None]
          /\ mem.cursor <= MaxSlots
      BY <1>2, <1>8
    <3> QED
      BY <3>1, PutFound
  <2>2. \A x \in Ids : x # id => Same(x)
    BY <1>2, <1>3, <1>5, <1>8, <2>1 DEF Same
  <2>3. CASE mem'.vindex = m.vindex /\ mem'.cache = m.cache /\ ~InsertInternalOk(m, doc)
    BY <1>6, <2>1, <2>2, <2>3 DEF Unindexed
  <2>4. CASE mem'.vindex = m.vindex \cup {id} /\ mem'.cache = [m.cache EXCEPT ![id] = doc.vec]
    <3>1. m.cache \in [Ids -> Vectors \cup {None}]
      BY <1>2 DEF Sound, Mem
    <3>2. Entered(id)
      BY <2>1, <2>4, <3>1 DEF Entered
    <3> QED
      BY <2>2, <3>2
  <2> QED
    BY <1>8, <2>3, <2>4
<1> QED
  BY <1>4, <1>7, <1>8

-----------------------------------------------------------------------------
(* The invariant behind the vector index.                                  *)

\* The entries for id that recovery has still to replay
Ahead(id) == {i \in Pending(id) : i >= pos}

\* The ids in <path>.vecindex.db
Held == IF fVec = None THEN {} ELSE fVec

\* The vector index is saved after the offset index.
VectorsSaved == Saved \ {"ckVec", "cpVec"}

\* insert_batch has stored its documents and not yet put them into the vector
\* index: it may be taking a checkpoint.
Batching == pc = "vec" \/ (pc \in CheckpointPcs /\ after = "vec")

\* What an operation has logged is pending.
OpLogged ==
  pc \in {"log", "apply"} => \A j \in Logged : Pending(op.todo[j].id) # {}

\* update_metadata keeps the vector of a document, inserts are of new ids.
OpPresent ==
  pc \in {"log", "apply"} =>
    /\ op.name = "update_metadata" =>
         /\ mem.index[op.todo[1].id] # None
         /\ op.todo[1].doc.vec = Found(data, mem.index, op.todo[1].id).vec
    /\ \A j \in DOMAIN op.todo : op.todo[j].kind = "Insert" => mem.index[op.todo[j].id] = None
    /\ op.name = "insert_batch" => \A j \in DOMAIN op.todo : op.todo[j].kind = "Insert"

\* The batch is there.
OpStored ==
  Batching => \A j \in DOMAIN op.todo :
                Found(data, mem.index, op.todo[j].id) = op.todo[j].doc

\* Memory and the files know the same ids, up to what recovery will replay; the
\* saved vector index names none that the saved offset index does not know.
FilesFollow ==
  /\ \A id \in Held : fIndex[id] # None \/ Pending(id) # {}
  /\ Running => \A id \in Ids : Pending(id) = {} =>
                                  (mem.index[id] # None <=> fIndex[id] # None)
  /\ pc \in Saved => fIndex = mem.index
  /\ pc \in VectorsSaved => fVec = mem.vindex

\* Memory agrees with itself, except under what recovery has still to replay.
IndexFits ==
  /\ Running /\ pc # "replay" => \A id \in Ids : Fits(id)
  /\ pc = "replay" => \A id \in mem.vindex : mem.index[id] # None \/ Ahead(id) # {}

VectorInv ==
  /\ PointerInv /\ SequenceInv
  /\ OpForm /\ OpLogged /\ OpPresent /\ OpStored
  /\ FilesFollow /\ IndexFits

USE DEF Pcs, RunningPcs, CheckpointPcs, CompactPcs, Saved, VectorsSaved

\* Initially there is no document.
LEMMA VectorInit == Init => VectorInv
<1> SUFFICES ASSUME Init PROVE VectorInv
  OBVIOUS
<1>1. PointerInv /\ SequenceInv
  BY PointersInit, TypeInvInit DEF Init, SequenceInv, Running
<1> QED
  BY <1>1 DEF Init, VectorInv, OpForm, OpLogged, OpPresent, OpStored, Batching, FilesFollow,
     IndexFits, Held, Running, EmptyMem

\* The types of what the proofs compute with.
LEMMA VectorFacts ==
  ASSUME VectorInv
  PROVE  /\ TypeInv /\ TypeOK /\ PointerInv /\ Sound(mem) /\ mem \in Mem
         /\ wal \in Seq(WalEntry) /\ Len(wal) \in Nat /\ walMeta \in Nat /\ nextSeq \in Nat
         /\ data \in [Slots -> Records \cup {None}]
         /\ fIndex \in [Ids -> Slots \cup {None}] /\ mem.index \in [Ids -> Slots \cup {None}]
         /\ mem.cache \in [Ids -> Vectors \cup {None}] /\ mem.vindex \subseteq Ids
         /\ Held \subseteq Ids
         /\ mem.cursor \in Nat /\ pos \in Nat \ {0} /\ after \in {"idle", "vec"}
         /\ op.todo \in Seq(Writes)
BY ConstantsAssumption DEF VectorInv, PointerInv, TypeInv, TypeOK, Sound, Mem, Held

\* The entries of an id, from its log
LEMMA PendingKept ==
  ASSUME NEW id, UNCHANGED <<wal, walMeta>>
  PROVE  Pending(id)' = Pending(id)
BY DEF Pending

\* Wal::log makes its write pending, and nothing less.
LEMMA LogPending ==
  ASSUME VectorInv, NEW e, wal' = Append(wal, e), UNCHANGED walMeta, e \in WalEntry
  PROVE  /\ \A id : Pending(id) \subseteq Pending(id)'
         /\ \A id : e.id # id => Pending(id)' = Pending(id)
         /\ \A id : e.id = id /\ e.seq > walMeta => Pending(id)' # {}
<1>1. /\ Len(wal) \in Nat /\ DOMAIN wal = 1..Len(wal) /\ DOMAIN wal' = 1..(Len(wal) + 1)
      /\ \A i \in 1..Len(wal) : wal'[i] = wal[i]
      /\ wal'[Len(wal) + 1] = e
  BY VectorFacts
<1>2. \A id : Pending(id)' = {i \in DOMAIN wal' : wal'[i].id = id /\ wal'[i].seq > walMeta}
  BY DEF Pending
<1>3. Len(wal) + 1 \in DOMAIN wal'
  BY <1>1
<1> QED
  BY <1>1, <1>2, <1>3 DEF Pending

-----------------------------------------------------------------------------
(* The operation in progress.                                              *)

\* What is logged is pending until the operation is applied.
LEMMA OpLoggedStep == VectorInv /\ [Next]_vars => OpLogged'
<1> SUFFICES ASSUME VectorInv, [Next]_vars, pc' \in {"log", "apply"},
                    NEW j \in Logged', NEW id, id = op.todo[j].id'
             PROVE  Pending(id)' # {}
  BY DEF OpLogged
<1>1. CASE UNCHANGED vars
  <2>1. Logged' = Logged /\ Pending(id)' = Pending(id)
    BY <1>1 DEF Logged, Pending, vars, files
  <2>2. id = op.todo[j].id /\ pc \in {"log", "apply"}
    BY <1>1 DEF vars
  <2> QED
    BY <2>1, <2>2 DEF VectorInv, OpLogged
<1>2. CASE Log
  <2> DEFINE w == op.todo[pos]
             e == Entry(w, nextSeq)
  <2>1. /\ op.todo \in Seq(Writes) /\ Len(op.todo) \in Nat /\ pos \in 1..Len(op.todo)
        /\ DOMAIN op.todo = 1..Len(op.todo) /\ pos \in Nat /\ id = op.todo[j].id
        /\ pc \in {"log", "apply"} /\ walMeta < nextSeq /\ nextSeq \in Nat
        /\ wal' = Append(wal, e) /\ UNCHANGED walMeta
    BY <1>2, VectorFacts DEF TypeInv, OpShape, Log, VectorInv, SequenceInv, Running
  <2>2. w \in Writes
    BY <2>1
  <2>3. e \in WalEntry /\ e.id = w.id /\ e.seq > walMeta
    <3>1. e \in WalEntry
      BY <2>1, <2>2, EntryType
    <3> QED
      BY <2>1, <3>1, VectorFacts DEF Entry
  <2>4. j \in Logged \/ j = pos
    BY <1>2, <2>1 DEF Logged, Log
  <2> HIDE DEF e
  <2>5. /\ \A x : Pending(x) \subseteq Pending(x)'
        /\ \A x : e.id = x /\ e.seq > walMeta => Pending(x)' # {}
    BY <2>1, <2>3, LogPending
  <2>6. j \in Logged => Pending(id) # {}
    BY <2>1 DEF VectorInv, OpLogged
  <2> QED
    BY <2>1, <2>3, <2>4, <2>5, <2>6
<1>3. CASE \E name, todo : Start(name, todo)
  <2>1. pc' = "log" /\ pos' = 1
    BY <1>3 DEF Start
  <2> QED
    BY <2>1 DEF Logged
<1>4. (\E name, todo : Start(name, todo)) \/ Log \/ UNCHANGED vars
  BY VectorFacts, IntoOperation
     DEF Insert, InsertBatch, Upsert, UpdateMetadata, UpdateVector, Delete, DeleteBatch
<1> QED
  BY <1>1, <1>2, <1>3, <1>4

\* An operation of one write starts.
LEMMA StartPresentOne ==
  ASSUME NEW name, NEW w, Start(name, <<w>>),
         name # "insert_batch",
         name = "update_metadata" => /\ mem.index[w.id] # None
                                     /\ w.doc.vec = Found(data, mem.index, w.id).vec,
         w.kind = "Insert" => mem.index[w.id] = None
  PROVE  OpPresent'
<1>1. DOMAIN <<w>> = {1} /\ <<w>>[1] = w
  OBVIOUS
<1>2. op' = [name |-> name, todo |-> <<w>>] /\ mem' = mem /\ data' = data
  BY DEF Start, files
<1> QED
  BY <1>1, <1>2 DEF OpPresent

\* Inserts are of new ids, update_metadata keeps the vector it reads.
LEMMA OpPresentStep == VectorInv /\ [Next]_vars => OpPresent'
<1> SUFFICES ASSUME VectorInv, [Next]_vars, pc' \in {"log", "apply"} PROVE OpPresent'
  BY DEF OpPresent
<1>1. CASE UNCHANGED vars \/ Log
  BY <1>1 DEF VectorInv, OpPresent, vars, files, Log
<1>2. CASE Insert
  <2>1. PICK id \in Ids \ Live(mem.index), doc \in Docs : Start("insert", <<Write("Insert", id, doc)>>)
    BY <1>2 DEF Insert
  <2>2. Write("Insert", id, doc).id = id /\ mem.index[id] = None
    BY <2>1 DEF Write, Live
  <2> QED
    BY <2>1, <2>2, StartPresentOne
<1>3. CASE Upsert
  <2>1. PICK id \in Ids, doc \in Docs :
          Start("upsert", <<Write(IF mem.index[id] = None THEN "Insert" ELSE "Update", id, doc)>>)
    BY <1>3 DEF Upsert
  <2> DEFINE w == Write(IF mem.index[id] = None THEN "Insert" ELSE "Update", id, doc)
  <2>2. w.id = id /\ (w.kind = "Insert" => mem.index[id] = None)
    BY DEF Write
  <2>3. Start("upsert", <<w>>)
    BY <2>1
  <2> HIDE DEF w
  <2> QED
    BY <2>2, <2>3, StartPresentOne
<1>4. CASE UpdateMetadata
  <2>1. PICK id \in Ids, meta \in Metas :
          /\ Decodes(mem.index, id)
          /\ Start("update_metadata",
                   <<Write("Update", id, [vec |-> Get(mem.index, id).vec, meta |-> meta])>>)
    BY <1>4 DEF UpdateMetadata
  <2> DEFINE w == Write("Update", id, [vec |-> Get(mem.index, id).vec, meta |-> meta])
  <2>2. /\ w.id = id /\ w.kind = "Update" /\ mem.index[id] # None
        /\ w.doc.vec = Found(data, mem.index, id).vec
    BY <2>1, GetFound DEF Write, Decodes
  <2>3. Start("update_metadata", <<w>>)
    BY <2>1
  <2> HIDE DEF w
  <2> QED
    BY <2>2, <2>3, StartPresentOne
<1>5. CASE UpdateVector
  <2>1. PICK id, doc : Start("update_vector", <<Write("Update", id, doc)>>)
    BY <1>5 DEF UpdateVector
  <2>2. Write("Update", id, doc).kind = "Update"
    BY DEF Write
  <2> QED
    BY <2>1, <2>2, StartPresentOne
<1>6. CASE Delete
  <2>1. PICK id \in Ids : Start("delete", <<Write("Delete", id, None)>>)
    BY <1>6 DEF Delete, Live
  <2>2. Write("Delete", id, None).kind = "Delete"
    BY DEF Write
  <2> QED
    BY <2>1, <2>2, StartPresentOne
<1>7. ASSUME NEW name, NEW v, NEW w, Start(name, <<v, w>>),
             name \in {"insert_batch", "delete_batch"},
             name = "insert_batch" => v.kind = "Insert" /\ w.kind = "Insert",
             v.kind = "Insert" => mem.index[v.id] = None,
             w.kind = "Insert" => mem.index[w.id] = None
      PROVE  OpPresent'
  <2>1. DOMAIN <<v, w>> = {1, 2} /\ <<v, w>>[1] = v /\ <<v, w>>[2] = w
    OBVIOUS
  <2>2. op' = [name |-> name, todo |-> <<v, w>>] /\ mem' = mem /\ data' = data
    BY <1>7 DEF Start, files
  <2> QED
    BY <1>7, <2>1, <2>2 DEF OpPresent
<1>8. CASE DeleteBatch
  <2>1. PICK a \in Live(mem.index), b \in Live(mem.index) :
          Start("delete_batch", <<Write("Delete", a, None), Write("Delete", b, None)>>)
    BY <1>8 DEF DeleteBatch
  <2>2. Write("Delete", a, None).kind = "Delete" /\ Write("Delete", b, None).kind = "Delete"
    BY DEF Write
  <2> QED
    BY <1>7, <2>1, <2>2
<1>9. CASE InsertBatch
  <2>1. PICK a \in Ids \ Live(mem.index), b \in Ids \ Live(mem.index), c \in Docs, d \in Docs :
          Start("insert_batch", <<Write("Insert", a, c), Write("Insert", b, d)>>)
    BY <1>9 DEF InsertBatch
  <2> DEFINE v == Write("Insert", a, c)
             w == Write("Insert", b, d)
  <2>2. /\ v.kind = "Insert" /\ w.kind = "Insert"
        /\ mem.index[v.id] = None /\ mem.index[w.id] = None
    BY <2>1 DEF Write, Live
  <2>3. Start("insert_batch", <<v, w>>)
    BY <2>1
  <2> HIDE DEF v, w
  <2> QED
    BY <1>7, <2>2, <2>3
<1> QED
  BY <1>1, <1>2, <1>3, <1>4, <1>5, <1>6, <1>8, <1>9, VectorFacts, IntoOperation

\* A batch is under way only after it was stored.
LEMMA IntoBatch ==
  ASSUME TypeOK, [Next]_vars, Batching'
  PROVE  \/ ApplyInsertBatch /\ ~EnforceBatchFails(mem, op.todo)
         \/ Batching /\ UNCHANGED <<mem, data, op>>
<1>0. after \in {"idle", "vec"} /\ (pc' = "vec" \/ (pc' \in CheckpointPcs /\ after' = "vec"))
  BY DEF TypeOK, Batching
<1>1. CASE StartOperation
  BY <1>0, <1>1, ZenonT(40) DEF StartOperation, Insert, InsertBatch, Upsert, UpdateMetadata,
     UpdateVector, Delete, DeleteBatch, Start, Checkpoint, Compact, RebuildIndex
<1>2. CASE UNCHANGED vars \/ Read \/ Crash
  BY <1>0, <1>2 DEF Read, Crash, LoseMemory, vars, files, Batching
<1>3. CASE \/ Log \/ ApplyInsert \/ ApplyUpdateMetadata \/ ApplyUpdateVector \/ ApplyDelete
           \/ InsertBatchVectors
  BY <1>0, <1>3, ZenonT(40) DEF Log, ApplyInsert, ApplyUpdateMetadata, ApplyUpdateVector, ApplyDelete,
     InsertBatchVectors, TrackOperation, ReturnError
<1>4. CASE ApplyInsertBatch
  BY <1>0, <1>4 DEF ApplyInsertBatch, ReturnError
<1>5. CASE SaveIndex \/ SaveVectorIndex \/ SaveMetadata \/ LogCheckpoint \/ SaveWalMeta \/ Rotate
  BY <1>0, <1>5 DEF SaveIndex, SaveVectorIndex, SaveMetadata, LogCheckpoint, SaveWalMeta, Rotate,
     Batching
<1>6. CASE \/ OpenFails \/ OpenClean \/ OpenAndReplay
           \/ ReplaySkip \/ ReplayDelete \/ ReplayInsert \/ ReplayDone
  BY <1>0, <1>6 DEF OpenFails, OpenClean, OpenAndReplay, ReplaySkip, ReplayDelete, ReplayInsert,
     ReplayDone, LoseMemory
<1> QED
  BY <1>1, <1>2, <1>3, <1>4, <1>5, <1>6 DEF Next, Continue

\* A batch stays in the offset index until it is in the vector index.
LEMMA OpStoredStep == VectorInv /\ [Next]_vars => OpStored'
<1> SUFFICES ASSUME VectorInv, [Next]_vars, Batching' PROVE OpStored'
  BY DEF OpStored
<1>1. CASE Batching /\ UNCHANGED <<mem, data, op>>
  BY <1>1 DEF VectorInv, OpStored
<1>2. CASE ApplyInsertBatch /\ ~EnforceBatchFails(mem, op.todo)
  <2>1. \A id \in Ids : \A j \in DOMAIN op.todo : op.todo[j].id = id =>
          /\ mem'.index[id] # None
          /\ Found(data', mem'.index, id) = op.todo[j].doc
    BY <1>2, BatchSeen, VectorFacts DEF VectorInv
  <2>2. \A j \in DOMAIN op.todo : op.todo[j].id \in Ids
    BY VectorFacts DEF Writes
  <2>3. op' = op
    BY <1>2 DEF ApplyInsertBatch, TrackOperation
  <2> QED
    BY <2>1, <2>2, <2>3 DEF OpStored
<1> QED
  BY <1>1, <1>2, IntoBatch, VectorFacts

-----------------------------------------------------------------------------
(* Memory and the files, step by step.                                     *)

Follows == FilesFollow /\ IndexFits

\* A step that touches neither what memory holds nor what the files hold
LEMMA QuietFollows ==
  ASSUME VectorInv, Running, pc # "replay", pc' # "replay",
         UNCHANGED <<data, fIndex, fVec, wal, walMeta>>,
         mem'.index = mem.index, mem'.vindex = mem.vindex, mem'.cache = mem.cache,
         pc' \in Saved => pc \in Saved, pc' \in VectorsSaved => pc \in VectorsSaved
  PROVE  Follows'
<1>1. FilesFollow'
  BY PendingKept DEF VectorInv, FilesFollow, Held
<1>2. IndexFits'
  BY DEF VectorInv, IndexFits, Fits, Found
<1> QED
  BY <1>1, <1>2 DEF Follows

\* An operation starts, the metadata is saved: control moves, nothing else.
LEMMA QuietlyFollows ==
  ASSUME VectorInv,
         (\E name, todo : Start(name, todo)) \/ Checkpoint \/ SaveMetadata
  PROVE  Follows'
<1>1. /\ Running /\ pc # "replay" /\ pc' # "replay"
      /\ UNCHANGED <<data, fIndex, fVec, wal, walMeta, mem>>
      /\ (pc' \in Saved => pc \in Saved) /\ (pc' \in VectorsSaved => pc \in VectorsSaved)
  BY DEF Start, Checkpoint, SaveMetadata, files, Running
<1> QED
  BY <1>1, QuietFollows

\* Wal::log: the ids that are not pending are fewer.
LEMMA LogFollows ==
  ASSUME VectorInv, Log
  PROVE  Follows'
<1> DEFINE e == Entry(op.todo[pos], nextSeq)
<1>1. /\ pc = "log" /\ pc' \in {"log", "apply"} /\ wal' = Append(wal, e)
      /\ UNCHANGED <<data, fIndex, fVec, walMeta, mem>>
  BY DEF Log
<1>2. e \in WalEntry
  <2>1. op.todo[pos] \in Writes
    BY VectorFacts DEF TypeInv, OpShape, Log
  <2> QED
    BY <2>1, VectorFacts, EntryType
<1> HIDE DEF e
<1>3. \A id : Pending(id) \subseteq Pending(id)'
  BY <1>1, <1>2, LogPending
<1>4. FilesFollow'
  BY <1>1, <1>3 DEF VectorInv, FilesFollow, Held, Running
<1>5. IndexFits'
  BY <1>1 DEF VectorInv, IndexFits, Fits, Running
<1> QED
  BY <1>4, <1>5 DEF Follows

\* An operation has been applied: it has touched its own ids only, and these
\* are pending.
LEMMA AppliedFollows ==
  ASSUME VectorInv, pc = "apply", pc' \in {"idle", "vec", "ckIndex"},
         UNCHANGED <<fIndex, fVec, wal, walMeta>>,
         \A id \in Ids : (\A j \in DOMAIN op.todo : op.todo[j].id # id) => Same(id),
         \A id \in Ids : Fits(id)'
  PROVE  Follows'
<1>1. \A id \in Ids : Pending(id) = {} => (mem'.index[id] # None <=> mem.index[id] # None)
  <2> SUFFICES ASSUME NEW id \in Ids, Pending(id) = {}
               PROVE  mem'.index[id] # None <=> mem.index[id] # None
    OBVIOUS
  <2>1. \A j \in DOMAIN op.todo : op.todo[j].id # id
    BY DEF VectorInv, OpLogged, Logged
  <2> QED
    BY <2>1 DEF Same
<1>2. FilesFollow'
  BY <1>1, PendingKept DEF VectorInv, FilesFollow, Held, Running
<1> QED
  BY <1>2 DEF Follows, IndexFits

\* insert and upsert, applied
LEMMA ApplyInsertFollows ==
  ASSUME VectorInv, ApplyInsert
  PROVE  /\ Follows'
         /\ NothingRejected /\ mem.dims \in KnownDims => Settles
<1> DEFINE w == op.todo[1]
           m == IF w.kind = "Update" THEN DeleteInternal(mem, w.id) ELSE mem
<1>1. /\ w.id \in Ids /\ w.doc \in Docs /\ mem.cursor <= MaxSlots
      /\ w.kind \in {"Insert", "Update"}
  <2>1. /\ w \in Writes /\ w.id \in Ids /\ w.doc \in Docs /\ mem.cursor <= MaxSlots
    BY VectorFacts, FirstWrite DEF ApplyInsert, Storing
  <2> QED
    BY <2>1, ConstantsAssumption DEF Writes
<1>2. /\ mem' = InsertInternal(m, w.id, w.doc)
      /\ data' = InsertInternalData(m, w.id, w.doc)
      /\ TrackOperation("idle") \/ ReturnError
      /\ UNCHANGED <<fIndex, fVec, wal, walMeta>>
      /\ pc = "apply" /\ op.name \in {"insert", "upsert"}
  BY DEF ApplyInsert, ApplyFrame
<1>3. \A j \in DOMAIN op.todo : op.todo[j] = w
  <2>1. Len(op.todo) = 1
    BY <1>2 DEF VectorInv, OpForm
  <2> QED
    BY <2>1, VectorFacts
<1>d. 1 \in DOMAIN op.todo
  BY <1>2, VectorFacts, FirstWrite
<1>4. \A id \in Ids : Fits(id)
  BY <1>2 DEF VectorInv, IndexFits, Running
<1>5. \/ w.kind = "Update" /\ m = DeleteInternal(mem, w.id)
      \/ w.kind = "Insert" /\ m = mem /\ mem.index[w.id] = None
  BY <1>1, <1>2, <1>d DEF VectorInv, OpPresent
<1> HIDE DEF w, m
<1>6. /\ \A x \in Ids : x # w.id => Same(x)
      /\ m = DeleteInternal(mem, w.id) => Gone(w.id) \/ Entered(w.id) \/ Unindexed(w.id)
      /\ m = mem => \/ Same(w.id) \/ Entered(w.id)
                    \/ mem'.index[w.id] # None /\ mem'.vindex = mem.vindex
      /\ InsertInternalOk(m, w.doc) => Entered(w.id)
  BY <1>1, <1>2, <1>5, VectorFacts, InsertSeen DEF Running
<1>7. Same(w.id) \/ Gone(w.id) \/ Entered(w.id) \/ Unindexed(w.id)
  <2>1. CASE m = DeleteInternal(mem, w.id)
    BY <1>6, <2>1
  <2>2. CASE m = mem /\ mem.index[w.id] = None
    <3>1. w.id \notin mem.vindex
      BY <1>1, <1>4, <2>2 DEF Fits
    <3> QED
      BY <1>6, <2>2, <3>1 DEF Unindexed
  <2> QED
    BY <1>5, <2>1, <2>2
<1>8. \A id \in Ids : Fits(id)'
  BY <1>4, <1>6, <1>7, FitsKept
<1>9. pc' \in {"idle", "vec", "ckIndex"}
  BY <1>2, ApplyTarget
<1>10. \A id \in Ids : (\A j \in DOMAIN op.todo : op.todo[j].id # id) => Same(id)
  BY <1>d, <1>3, <1>6
<1>11. Follows'
  BY <1>2, <1>8, <1>9, <1>10, AppliedFollows
<1>12. ASSUME NothingRejected, mem.dims \in KnownDims
       PROVE  Settles
  <2>1. m.dims = mem.dims
    <3>1. mem \in Mem
      BY VectorFacts
    <3>2. DeleteInternal(mem, w.id).dims = mem.dims
      BY <1>1, <3>1, DeleteInternalEffect
    <3> QED
      BY <1>5, <3>2
  <2>2. InsertInternalOk(m, w.doc)
    BY <1>1, <1>12, <2>1, InsertInternalStores
  <2> QED
    BY <1>6, <2>2 DEF Settles
<1> QED
  BY <1>11, <1>12

\* The one write of an update
LEMMA UpdateFacts ==
  ASSUME VectorInv, pc = "apply", op.name \in {"update_metadata", "update_vector"}
  PROVE  /\ op.todo[1].id \in Ids /\ op.todo[1].doc \in Docs /\ op.todo[1].doc.vec \in Vectors
         /\ mem.cursor <= MaxSlots
         /\ \A id \in Ids : (\A j \in DOMAIN op.todo : op.todo[j].id # id) => id # op.todo[1].id
         /\ \A id \in Ids : Fits(id)
<1>1. Storing /\ TypeInv
  BY VectorFacts DEF Storing
<1>2. 1 \in DOMAIN op.todo
  BY <1>1, FirstWrite
<1> QED
  BY <1>1, <1>2, FirstWrite DEF VectorInv, IndexFits, Running

\* A document put behind the others, and pointed to, under the one id of an
\* update: nothing else changes, and the update says what becomes of this id.
LEMMA UpdatedFollows ==
  ASSUME VectorInv, pc = "apply", op.name \in {"update_metadata", "update_vector"},
         pc' \in {"idle", "vec", "ckIndex"}, UNCHANGED <<fIndex, fVec, wal, walMeta>>,
         data' = Put(data, mem.cursor, op.todo[1].id, op.todo[1].doc),
         mem'.index = [mem.index EXCEPT ![op.todo[1].id] = mem.cursor],
         \/ /\ mem'.vindex = mem.vindex /\ mem'.cache = mem.cache
            /\ op.name = "update_metadata"
         \/ /\ mem'.vindex = mem.vindex \cup {op.todo[1].id}
            /\ mem'.cache = [mem.cache EXCEPT ![op.todo[1].id] = op.todo[1].doc.vec]
  PROVE  Follows' /\ Settles
<1> DEFINE w == op.todo[1]
<1>1. /\ w.id \in Ids /\ w.doc \in Docs /\ mem.cursor <= MaxSlots
      /\ \A id \in Ids : (\A j \in DOMAIN op.todo : op.todo[j].id # id) => id # w.id
      /\ \A id \in Ids : Fits(id)
      /\ mem.cache \in [Ids -> Vectors \cup {None}]
  BY UpdateFacts, VectorFacts
<1>2. /\ mem'.index[w.id] # None /\ Found(data', mem'.index, w.id) = w.doc
      /\ \A x \in Ids : x # w.id => /\ mem'.index[x] = mem.index[x]
                                    /\ Found(data', mem'.index, x) = Found(data, mem.index, x)
  <2>1. data' = Put(data, mem.cursor, w.id, w.doc)
        /\ mem'.index = [mem.index EXCEPT ![w.id] = mem.cursor]
    OBVIOUS
  <2>2. PointerInv /\ Running /\ pc # "cpIndex"
    BY VectorFacts DEF Running
  <2> HIDE DEF w
  <2> QED
    BY <1>1, <2>1, <2>2, PutFound
<1>3. CASE /\ mem'.vindex = mem.vindex /\ mem'.cache = mem.cache
           /\ op.name = "update_metadata"
  <2>1. mem.index[w.id] # None /\ w.doc.vec = Found(data, mem.index, w.id).vec
    BY <1>3 DEF VectorInv, OpPresent
  <2> HIDE DEF w
  <2>2. \A x \in Ids : Same(x)
    BY <1>2, <1>3, <2>1 DEF Same
  <2>3. \A x \in Ids : Fits(x)'
    BY <1>1, <2>2, FitsKept
  <2> QED
    BY <2>2, <2>3, AppliedFollows DEF Settles
<1>4. CASE /\ mem'.vindex = mem.vindex \cup {w.id}
           /\ mem'.cache = [mem.cache EXCEPT ![w.id] = w.doc.vec]
  <2> HIDE DEF w
  <2>1. Entered(w.id)
    BY <1>1, <1>2, <1>4 DEF Entered
  <2>2. \A x \in Ids : x # w.id => Same(x)
    BY <1>1, <1>2, <1>4 DEF Same
  <2>3. \A x \in Ids : Fits(x)'
    BY <1>1, <2>1, <2>2, FitsKept
  <2> QED
    BY <1>1, <2>1, <2>2, <2>3, AppliedFollows DEF Settles
<1> QED
  BY <1>3, <1>4

\* update_metadata and update_vector, applied
LEMMA ApplyUpdateFollows ==
  ASSUME VectorInv, ApplyUpdateMetadata \/ ApplyUpdateVector
  PROVE  Follows' /\ Settles
<1> DEFINE w == op.todo[1]
           m == [mem EXCEPT !.dims = DimsAfter(mem, w.doc.vec)]
<1>1. /\ pc = "apply" /\ op.name \in {"update_metadata", "update_vector"}
      /\ UNCHANGED <<fIndex, fVec, wal, walMeta>> /\ mem \in Mem
      /\ TrackOperation("idle") \/ ReturnError
  BY VectorFacts DEF ApplyUpdateMetadata, ApplyUpdateVector, ApplyFrame
<1>2. pc' \in {"idle", "vec", "ckIndex"}
  BY <1>1, ApplyTarget
<1>3. \/ data' = data /\ (mem' = mem \/ mem' = m)
      \/ /\ data' = Appended(mem, w.id, w.doc)
         /\ \/ mem' = Pointed(mem, w.id) /\ op.name = "update_metadata"
            \/ mem' = Indexed(Pointed(m, w.id), w.id, w.doc.vec)
  BY DEF ApplyUpdateMetadata, ApplyUpdateVector
<1>4. CASE data' = data /\ (mem' = mem \/ mem' = m)
  <2>1. mem'.index = mem.index /\ mem'.vindex = mem.vindex /\ mem'.cache = mem.cache
    BY <1>1, <1>4 DEF Mem
  <2>2. \A id \in Ids : Same(id)
    BY <1>4, <2>1 DEF Same
  <2>3. \A id \in Ids : Fits(id)'
    BY <1>1, <2>2, UpdateFacts, FitsKept
  <2> QED
    BY <1>1, <1>2, <2>2, <2>3, AppliedFollows DEF Settles
<1>5. CASE /\ data' = Appended(mem, w.id, w.doc)
           /\ mem' = Pointed(mem, w.id) /\ op.name = "update_metadata"
  <2>1. /\ data' = Put(data, mem.cursor, w.id, w.doc)
        /\ mem'.index = [mem.index EXCEPT ![w.id] = mem.cursor]
        /\ mem'.vindex = mem.vindex /\ mem'.cache = mem.cache
    BY <1>1, <1>5 DEF Appended, Put, Pointed, Mem
  <2> QED
    BY <1>1, <1>2, <1>5, <2>1, UpdatedFollows
<1>6. CASE /\ data' = Appended(mem, w.id, w.doc)
           /\ mem' = Indexed(Pointed(m, w.id), w.id, w.doc.vec)
  <2>1. /\ data' = Put(data, mem.cursor, w.id, w.doc)
        /\ mem'.index = [mem.index EXCEPT ![w.id] = mem.cursor]
        /\ mem'.vindex = mem.vindex \cup {w.id}
        /\ mem'.cache = [mem.cache EXCEPT ![w.id] = w.doc.vec]
    BY <1>1, <1>6 DEF Appended, Put, Pointed, Indexed, Mem
  <2> QED
    BY <1>1, <1>2, <2>1, UpdatedFollows
<1> QED
  BY <1>3, <1>4, <1>5, <1>6

\* delete and delete_batch, applied
LEMMA ApplyDeleteFollows ==
  ASSUME VectorInv, ApplyDelete
  PROVE  Follows' /\ Settles
<1> DEFINE ids == {op.todo[i].id : i \in DOMAIN op.todo}
<1>1. /\ pc = "apply" /\ mem' = DeleteAll(mem, ids) /\ data' = data
      /\ UNCHANGED <<fIndex, fVec, wal, walMeta>>
      /\ TrackOperation("idle") /\ mem \in Mem /\ \A id \in Ids : Fits(id)
  BY VectorFacts DEF ApplyDelete, ApplyFrame, VectorInv, IndexFits, Running
<1>2. \A id \in Ids : (\A j \in DOMAIN op.todo : op.todo[j].id # id) => id \notin ids
  OBVIOUS
<1> HIDE DEF ids
<1>3. /\ mem'.index = [id \in Ids |-> IF id \in ids THEN None ELSE mem.index[id]]
      /\ mem'.vindex = mem.vindex \ ids
      /\ mem'.cache = [id \in Ids |-> IF id \in ids THEN None ELSE mem.cache[id]]
  BY <1>1 DEF DeleteAll, Mem
<1>4. \A id \in Ids : id \in ids => Gone(id)
  BY <1>3 DEF Gone
<1>5. \A id \in Ids : id \notin ids => Same(id)
  BY <1>1, <1>3 DEF Same, Found
<1>6. \A id \in Ids : Fits(id)'
  BY <1>1, <1>4, <1>5, FitsKept
<1>7. Settles
  BY <1>4, <1>5 DEF Settles
<1> QED
  BY <1>1, <1>2, <1>5, <1>6, <1>7, ApplyTarget, AppliedFollows

\* insert_batch, applied up to its checkpoint
LEMMA ApplyInsertBatchFollows ==
  ASSUME VectorInv, ApplyInsertBatch
  PROVE  Follows'
<1>1. /\ pc = "apply" /\ UNCHANGED <<fIndex, fVec, wal, walMeta>>
      /\ TrackOperation("vec") \/ ReturnError
      /\ \A id \in Ids : Fits(id)
      /\ \A j \in DOMAIN op.todo : mem.index[op.todo[j].id] = None
      /\ PointerInv /\ OpForm
  BY DEF ApplyInsertBatch, ApplyFrame, VectorInv, IndexFits, OpPresent, Running
<1>2. pc' \in {"idle", "vec", "ckIndex"}
  BY <1>1, ApplyTarget
<1>3. CASE EnforceBatchFails(mem, op.todo)
  <2>1. \A id \in Ids : Same(id)
    BY <1>3 DEF ApplyInsertBatch, Same
  <2>2. \A id \in Ids : Fits(id)'
    BY <1>1, <2>1, FitsKept
  <2> QED
    BY <1>1, <1>2, <2>1, <2>2, AppliedFollows
<1>4. CASE ~EnforceBatchFails(mem, op.todo)
  <2>1. /\ mem'.vindex = mem.vindex /\ mem'.cache = mem.cache
        /\ \A id \in Ids : Found(data', fIndex, id) = Found(data, fIndex, id)
        /\ \A id \in Ids : (\A j \in DOMAIN op.todo : op.todo[j].id # id) =>
             /\ mem'.index[id] = mem.index[id]
             /\ Found(data', mem'.index, id) = Found(data, mem.index, id)
        /\ \A id \in Ids : \A j \in DOMAIN op.todo : op.todo[j].id = id =>
             /\ mem'.index[id] # None
             /\ Found(data', mem'.index, id) = op.todo[j].doc
    BY <1>1, <1>4, BatchSeen
  <2>2. \A id \in Ids : (\A j \in DOMAIN op.todo : op.todo[j].id # id) => Same(id)
    BY <2>1 DEF Same
  <2>3. \A id \in Ids : (\E j \in DOMAIN op.todo : op.todo[j].id = id) => Unindexed(id)
    BY <1>1, <2>1 DEF Unindexed, Fits
  <2>4. \A id \in Ids : Fits(id)'
    BY <1>1, <2>2, <2>3, FitsKept
  <2> QED
    BY <1>1, <1>2, <2>2, <2>4, AppliedFollows
<1> QED
  BY <1>3, <1>4

\* insert_batch puts documents that are there into the vector index.
LEMMA InsertBatchVectorsFollows ==
  ASSUME VectorInv, InsertBatchVectors
  PROVE  /\ Follows'
         /\ Settles
<1> DEFINE dims == DimsAfter(mem, op.todo[1].doc.vec)
           good == {i \in DOMAIN op.todo : \A j \in 1..i : DimOf[op.todo[j].doc.vec] = dims}
           ids == {op.todo[i].id : i \in good}
           at(id) == CHOOSE i \in good : op.todo[i].id = id
           cache == [id \in Ids |-> IF id \in ids THEN op.todo[at(id)].doc.vec ELSE mem.cache[id]]
<1>1. /\ pc = "vec" /\ pc' = "idle" /\ UNCHANGED <<data, fIndex, fVec, wal, walMeta>>
      /\ mem \in Mem
      /\ mem' = WithVectors([mem EXCEPT !.dims = dims], mem.vindex \cup ids, cache)
  BY VectorFacts, ZenonT(40) DEF InsertBatchVectors, files
<1>2. \A j \in DOMAIN op.todo : /\ Found(data, mem.index, op.todo[j].id) = op.todo[j].doc
                                /\ op.todo[j].doc \in Docs
  <2>1. \A i \in DOMAIN op.todo : op.todo[i].kind # "Delete"
    BY <1>1, VectorFacts, ZenonT(40) DEF TypeInv, OpShape
  <2>2. \A i \in DOMAIN op.todo : op.todo[i] \in Writes
    BY VectorFacts
  <2> QED
    BY <1>1, <2>1, <2>2, WriteFacts, ZenonT(40) DEF VectorInv, OpStored, Batching
<1>3. \A id \in ids : at(id) \in DOMAIN op.todo /\ op.todo[at(id)].id = id
  OBVIOUS
<1> HIDE DEF dims, good, at
<1>4. /\ mem'.index = mem.index /\ mem'.vindex = mem.vindex \cup ids /\ mem'.cache = cache
  BY <1>1 DEF WithVectors, Mem
<1>5. ASSUME NEW id \in Ids, id \in ids
      PROVE  Entered(id)
  <2>1. /\ Found(data, mem.index, id) = op.todo[at(id)].doc
        /\ op.todo[at(id)].doc # None
    BY <1>2, <1>3, <1>5, NoneFacts
  <2>2. mem.index[id] # None
    BY <2>1 DEF Found
  <2>3. cache[id] = op.todo[at(id)].doc.vec
    BY <1>5
  <2> HIDE DEF cache, ids
  <2> QED
    BY <1>1, <1>4, <1>5, <2>1, <2>2, <2>3 DEF Entered
<1>6. ASSUME NEW id \in Ids, id \notin ids
      PROVE  Same(id)
  BY <1>1, <1>4, <1>6, ZenonT(40) DEF Same
<1> HIDE DEF cache, ids
<1>7. \A id \in Ids : Fits(id)
  BY <1>1 DEF VectorInv, IndexFits, Running
<1>8. \A id \in Ids : Fits(id)'
  BY <1>5, <1>6, <1>7, FitsKept
<1>9. FilesFollow'
  BY <1>1, <1>4, PendingKept DEF VectorInv, FilesFollow, Held, Running
<1> QED
  BY <1>1, <1>5, <1>6, <1>8, <1>9 DEF Follows, IndexFits, Settles

\* save_index: the saved offset index is the one of memory.
LEMMA SaveIndexFollows ==
  ASSUME VectorInv, SaveIndex
  PROVE  Follows'
<1>1. /\ pc \in {"ckIndex", "cpIndex"} /\ pc' \in {"ckVec", "cpVec"} /\ fIndex' = mem.index
      /\ UNCHANGED <<data, fVec, wal, walMeta, mem>>
  BY DEF SaveIndex
<1>2. IndexFits'
  BY <1>1 DEF VectorInv, IndexFits, Fits, Running
<1>3. \A id : Pending(id)' = Pending(id)
  BY <1>1, PendingKept
<1>4. \A id \in Held : id \in Ids /\ (mem.index[id] # None \/ Pending(id) # {})
  BY <1>1, VectorFacts DEF VectorInv, FilesFollow, Running
<1>5. FilesFollow'
  BY <1>1, <1>3, <1>4 DEF FilesFollow, Held
<1> QED
  BY <1>2, <1>5 DEF Follows

\* The vector index is saved: it names only documents that are there.
LEMMA SaveVectorIndexFollows ==
  ASSUME VectorInv, SaveVectorIndex
  PROVE  Follows'
<1>1. /\ pc \in {"ckVec", "cpVec", "rebuild"} /\ pc' \in {"ckMeta", "cpMeta", "idle"}
      /\ fVec' = mem.vindex /\ (pc' = "idle" <=> pc = "rebuild")
      /\ UNCHANGED <<data, fIndex, wal, walMeta, mem>>
  BY DEF SaveVectorIndex
<1>2. IndexFits'
  BY <1>1 DEF VectorInv, IndexFits, Fits, Running
<1>3. \A id : Pending(id)' = Pending(id)
  BY <1>1, PendingKept
<1>4. \A id \in Held' : id \in Ids /\ mem.index[id] # None
  <2>1. Held' \subseteq mem.vindex
    BY <1>1, VectorFacts DEF Held
  <2> QED
    BY <1>1, <2>1, VectorFacts DEF VectorInv, IndexFits, Fits, Running
<1>5. \A id \in Ids : Pending(id) = {} => (mem.index[id] # None <=> fIndex[id] # None)
  BY <1>1 DEF VectorInv, FilesFollow, Running
<1>6. pc' # "idle" => fIndex = mem.index
  BY <1>1 DEF VectorInv, FilesFollow
<1>7. FilesFollow'
  BY <1>1, <1>3, <1>4, <1>5, <1>6 DEF FilesFollow
<1> QED
  BY <1>2, <1>7 DEF Follows

\* The checkpoint's own steps on the log: the files already are what memory is.
LEMMA CheckpointLogFollows ==
  ASSUME VectorInv, LogCheckpoint \/ SaveWalMeta \/ Rotate
  PROVE  Follows'
<1>1. /\ pc \in {"ckWal", "ckWalMeta", "ckRotate", "cpRotate"}
      /\ pc' \in {"ckWalMeta", "ckRotate", "idle", "vec"}
      /\ UNCHANGED <<data, fIndex, fVec, mem>>
  BY VectorFacts DEF LogCheckpoint, SaveWalMeta, Rotate
<1>2. fIndex = mem.index /\ fVec = mem.vindex
  BY <1>1 DEF VectorInv, FilesFollow
<1>3. \A id \in Ids : Fits(id)
  BY <1>1 DEF VectorInv, IndexFits, Running
<1>4. IndexFits'
  BY <1>1, <1>3 DEF IndexFits, Fits
<1>5. \A id \in Held' : fIndex'[id] # None
  BY <1>1, <1>2, <1>3, VectorFacts DEF Held, Fits
<1>6. FilesFollow'
  BY <1>1, <1>2, <1>5 DEF FilesFollow
<1> QED
  BY <1>4, <1>6 DEF Follows

\* A cache that holds the vectors of exactly the documents there are, and a
\* vector index that names exactly them
LEMMA AllEntered ==
  ASSUME NEW index, mem'.index = index, mem'.vindex = Live(index),
         \A id \in Ids : mem'.cache[id] = IF index[id] = None THEN None
                                          ELSE Found(data', index, id).vec
  PROVE  \A id \in Ids : Gone(id) \/ Entered(id)
BY DEF Gone, Entered, Live

\* Where every pointer leads to its record, the cache can be rebuilt.
LEMMA RebuiltFound ==
  ASSUME NEW index, Home(data, index), NEW id \in Ids
  PROVE  RebuiltCache(index)[id] = IF index[id] = None THEN None ELSE Found(data, index, id).vec
BY DEF Home, RebuiltCache, Found, Decodes, Live

\* compact and rebuild_index make the vector index anew.
LEMMA RenewedFollows ==
  ASSUME VectorInv, Compact \/ RebuildIndex
  PROVE  /\ Follows'
         /\ \A id \in Ids : Gone(id) \/ Entered(id)
<1>1. /\ TypeInv /\ Home(data, mem.index) /\ mem \in Mem /\ Running /\ pc = "idle"
  BY VectorFacts, ZenonT(40) DEF PointerInv, Pointers, Running, Compact, RebuildIndex
<1>2. /\ pc' \in {"cpIndex", "rebuild"} /\ UNCHANGED <<fIndex, fVec, wal, walMeta>>
  BY ZenonT(40) DEF Compact, RebuildIndex, files
<1>3. /\ \A id \in Ids : mem'.index[id] # None <=> mem.index[id] # None
      /\ \A id \in Ids : Gone(id) \/ Entered(id)
  <2>1. CASE Compact
    <3>1. /\ Live(mem'.index) = Live(mem.index)
          /\ \A id \in Ids : Found(data', mem'.index, id) = Found(data, mem.index, id)
          /\ \A id \in Ids : mem'.cache[id] = IF id \in Live(mem.index)
                                              THEN data[mem.index[id]].doc.vec ELSE None
          /\ mem'.vindex = Live(mem.index)
      BY <1>1, <2>1, CompactFound
    <3>2. \A id \in Ids : mem'.index[id] # None <=> mem.index[id] # None
      BY <3>1 DEF Live
    <3>3. \A id \in Live(mem.index) : Found(data, mem.index, id) = data[mem.index[id]].doc
      BY <1>1 DEF Home, Found, Live
    <3>4. \A id \in Ids : mem'.cache[id] = IF mem'.index[id] = None THEN None
                                           ELSE Found(data', mem'.index, id).vec
      BY <3>1, <3>2, <3>3 DEF Live
    <3>5. mem'.vindex = Live(mem'.index)
      BY <3>1
    <3> QED
      BY <3>2, <3>4, <3>5, AllEntered
  <2>2. CASE RebuildIndex
    <3>1. /\ mem'.index = mem.index /\ mem'.vindex = Live(mem.index)
          /\ mem'.cache = RebuiltCache(mem.index) /\ data' = data
      BY <1>1, <2>2 DEF RebuildIndex, WithVectors, Mem, files
    <3>2. \A id \in Ids : mem'.cache[id] = IF mem.index[id] = None THEN None
                                           ELSE Found(data', mem.index, id).vec
      BY <1>1, <3>1, RebuiltFound
    <3> QED
      BY <3>1, <3>2, AllEntered
  <2> QED
    BY <2>1, <2>2
<1>4. \A id \in Ids : Fits(id)'
  BY <1>3, FitsKept
<1>5. FilesFollow'
  BY <1>1, <1>2, <1>3, PendingKept DEF VectorInv, FilesFollow, Held
<1> QED
  BY <1>2, <1>3, <1>4, <1>5 DEF Follows, IndexFits

\* A process that dies, or fails to open the collection, leaves its files.
LEMMA StoppedFollows ==
  ASSUME VectorInv, pc' \in {"closed", "failed"}, UNCHANGED <<fIndex, fVec, wal, walMeta>>
  PROVE  Follows'
<1>1. FilesFollow'
  BY PendingKept DEF VectorInv, FilesFollow, Held, Running
<1> QED
  BY <1>1 DEF Follows, IndexFits, Running

\* A collection is opened, and there is nothing to replay.
LEMMA OpenCleanFollows ==
  ASSUME VectorInv, OpenClean
  PROVE  /\ Follows'
         /\ \A id \in Ids : /\ mem'.cache[id] = IF mem'.index[id] = None THEN None
                                                ELSE Found(data', mem'.index, id).vec
                            /\ id \in mem'.vindex => mem'.index[id] # None
         /\ mem'.vindex = (IF fVec = None THEN Live(mem'.index) ELSE fVec)
         /\ mem'.index = fIndex /\ \A id : Pending(id)' = {}
<1>1. /\ pc \in {"closed", "failed"} /\ pc' = "idle" /\ ~ReplayPending
      /\ UNCHANGED <<data, fIndex, fVec, wal, walMeta>> /\ Readable(fIndex)
  BY DEF OpenClean, OpenFrame, files
<1>2. /\ mem'.index = fIndex /\ mem'.cache = RebuiltCache(fIndex)
      /\ mem'.vindex = IF fVec = None THEN Live(fIndex) ELSE fVec
  <2>1. \A s, vindex, cache : /\ WithVectors(Loaded(s), vindex, cache).index = fIndex
                              /\ WithVectors(Loaded(s), vindex, cache).vindex = vindex
                              /\ WithVectors(Loaded(s), vindex, cache).cache = cache
    BY DEF Loaded, WithVectors
  <2> QED
    BY <2>1 DEF OpenClean
<1>3. \A id : Pending(id) = {} /\ Pending(id)' = {}
  BY <1>1, PendingKept DEF Pending, ReplayPending
<1>4. Home(data, fIndex)
  BY <1>1, VectorFacts DEF PointerInv, Pointers
<1>5. \A id \in Ids : mem'.cache[id] = IF mem'.index[id] = None THEN None
                                       ELSE Found(data', mem'.index, id).vec
  BY <1>1, <1>2, <1>4, RebuiltFound
<1>6. \A id \in Ids : id \in mem'.vindex => mem'.index[id] # None
  BY <1>2, <1>3 DEF VectorInv, FilesFollow, Held, Live
<1>7. \A id \in Ids : Fits(id)'
  BY <1>5, <1>6 DEF Fits
<1>8. FilesFollow'
  BY <1>1, <1>2, <1>3 DEF VectorInv, FilesFollow, Held
<1> QED
  BY <1>1, <1>2, <1>3, <1>5, <1>6, <1>7, <1>8 DEF Follows, IndexFits

\* A collection is opened, and its whole log is still ahead.
LEMMA OpenAndReplayFollows ==
  ASSUME VectorInv, OpenAndReplay
  PROVE  /\ Follows'
         /\ mem'.index = fIndex /\ mem'.vindex = Held
         /\ \A id : Ahead(id)' = Pending(id)
<1>1. /\ pc' = "replay" /\ pos' = 1 /\ UNCHANGED <<data, fIndex, fVec, wal, walMeta>>
  BY DEF OpenAndReplay, OpenFrame, files
<1>2. mem'.index = fIndex /\ mem'.vindex = Held
  <2>1. \A s : Loaded(s).index = fIndex /\ Loaded(s).vindex = Held
    BY DEF Loaded, Held
  <2> QED
    BY <2>1 DEF OpenAndReplay
<1>3. \A id : Pending(id)' = Pending(id)
  BY <1>1, PendingKept
<1>4. \A id : Ahead(id)' = Pending(id)
  <2>1. \A id : \A i \in Pending(id) : i >= 1
    BY VectorFacts DEF Pending
  <2> QED
    BY <1>1, <1>3, <2>1 DEF Ahead
<1>5. FilesFollow'
  BY <1>1, <1>2, <1>3 DEF VectorInv, FilesFollow, Held
<1>6. IndexFits'
  BY <1>1, <1>2, <1>4 DEF VectorInv, FilesFollow, IndexFits
<1> QED
  BY <1>2, <1>4, <1>5, <1>6 DEF Follows

\* The entry that recovery has come to is one of id.
Turn(id) == wal[pos].id = id /\ wal[pos].seq > walMeta

\* Recovery of an entry, seen from each id: the id of the entry has no document,
\* or one that is indexed and cached, and the others are as before.
LEMMA ReplaySeen ==
  ASSUME VectorInv,
         ReplaySkip \/ ReplayDelete \/ (ReplayInsert /\ pc' = "replay")
  PROVE  /\ pc = "replay" /\ pc' = "replay" /\ pos <= Len(wal) /\ pos' = pos + 1
         /\ UNCHANGED <<fIndex, fVec, wal, walMeta>>
         /\ \A id \in Ids : Turn(id) => Gone(id) \/ Entered(id)
         /\ \A id \in Ids : ~Turn(id) => Same(id)
<1> DEFINE e == wal[pos]
           m == IF e.kind = "Update" THEN DeleteInternal(mem, e.id) ELSE mem
<1>1. /\ pc = "replay" /\ pc' = "replay" /\ pos <= Len(wal) /\ pos' = pos + 1
      /\ UNCHANGED <<fIndex, fVec, wal, walMeta>>
  BY DEF ReplaySkip, ReplayDelete, ReplayInsert, files
<1>2. /\ mem \in Mem /\ walMeta \in Nat /\ e.seq \in Nat
      /\ e.kind = "Checkpoint" => e.id = None
      /\ e.kind = "Delete" => e.id \in Ids
      /\ e.kind \in {"Insert", "Update"} => e.id \in Ids /\ e.doc \in Docs
  <2>1. e \in WalEntry /\ TypeInv
    BY <1>1, VectorFacts, EntryFacts
  <2> QED
    BY <1>1, <2>1, EntryKinds, EntryFacts, VectorFacts
<1>3. CASE ReplaySkip
  <2>1. ~(e.seq > walMeta) \/ \A id \in Ids : e.id # id
    BY <1>2, <1>3, ConstantsAssumption DEF ReplaySkip
  <2>2. mem' = mem /\ data' = data
    BY <1>3 DEF ReplaySkip, files
  <2> QED
    BY <1>1, <2>1, <2>2 DEF Turn, Same
<1>4. CASE ReplayDelete
  <2>1. e.id \in Ids /\ e.seq > walMeta /\ mem' = DeleteInternal(mem, e.id) /\ data' = data
    BY <1>2, <1>4 DEF ReplayDelete, files
  <2> HIDE DEF e
  <2>2. /\ mem'.index = [mem.index EXCEPT ![e.id] = None]
        /\ mem'.vindex = mem.vindex \ {e.id}
        /\ mem'.cache = [mem.cache EXCEPT ![e.id] = None]
    BY <1>2, <2>1, DeleteInternalEffect
  <2>3. Gone(e.id)
    BY <1>2, <2>1, <2>2 DEF Gone, Mem
  <2>4. \A id \in Ids : id # e.id => Same(id)
    BY <1>2, <2>1, <2>2 DEF Same, Found, Mem
  <2> QED
    BY <1>1, <2>1, <2>3, <2>4 DEF Turn, e
<1>5. CASE ReplayInsert
  <2>1. /\ e.id \in Ids /\ e.doc \in Docs /\ e.seq > walMeta /\ mem.cursor <= MaxSlots
        /\ data' = InsertInternalData(m, e.id, e.doc)
        /\ InsertInternalOk(m, e.doc) /\ mem' = InsertInternal(m, e.id, e.doc)
    BY <1>1, <1>2, <1>5 DEF ReplayInsert
  <2>2. m = mem \/ m = DeleteInternal(mem, e.id)
    OBVIOUS
  <2> HIDE DEF e, m
  <2>3. Entered(e.id) /\ \A id \in Ids : id # e.id => Same(id)
    BY <1>1, <2>1, <2>2, VectorFacts, InsertSeen DEF Running
  <2> QED
    BY <1>1, <2>1, <2>3 DEF Turn, e
<1> QED
  BY <1>3, <1>4, <1>5

\* What is still ahead of recovery, one entry later
LEMMA AheadNext ==
  ASSUME VectorInv, pc = "replay", pos <= Len(wal), pos' = pos + 1, UNCHANGED <<wal, walMeta>>
  PROVE  /\ \A id : ~Turn(id) => Ahead(id)' = Ahead(id)
         /\ \A id : Turn(id) => Pending(id) # {} /\ Ahead(id) # {}
<1>1. pos \in Nat /\ wal \in Seq(WalEntry) /\ pos \in DOMAIN wal
  BY VectorFacts
<1>2. \A id : Pending(id)' = Pending(id)
  BY PendingKept
<1>3. \A id : Turn(id) => pos \in Pending(id)
  BY <1>1 DEF Turn, Pending
<1>4. \A id : ~Turn(id) => pos \notin Pending(id)
  BY DEF Turn, Pending
<1>5. \A id : \A i \in Pending(id) : i \in Nat
  BY <1>1 DEF Pending
<1>6. \A id : ~Turn(id) => Ahead(id)' = Ahead(id)
  BY <1>1, <1>2, <1>4, <1>5 DEF Ahead
<1> QED
  BY <1>1, <1>3, <1>6 DEF Ahead

\* Recovery goes on to the next entry.
LEMMA ReplayFollows ==
  ASSUME VectorInv, ReplaySkip \/ ReplayDelete \/ (ReplayInsert /\ pc' = "replay")
  PROVE  Follows'
<1>1. /\ pc = "replay" /\ pc' = "replay" /\ pos <= Len(wal) /\ pos' = pos + 1
      /\ UNCHANGED <<fIndex, fVec, wal, walMeta>>
      /\ \A id \in Ids : Turn(id) => Gone(id) \/ Entered(id)
      /\ \A id \in Ids : ~Turn(id) => Same(id)
  BY ReplaySeen
<1>2. /\ \A id : ~Turn(id) => Ahead(id)' = Ahead(id)
      /\ \A id : Turn(id) => Pending(id) # {}
  BY <1>1, AheadNext
<1>3. FilesFollow'
  BY <1>1, <1>2, PendingKept DEF VectorInv, FilesFollow, Held, Running, Same
<1>4. \A id \in Ids : id \in mem'.vindex => mem'.index[id] # None \/ Ahead(id)' # {}
  BY <1>1, <1>2 DEF VectorInv, IndexFits, Same, Gone, Entered
<1>5. mem'.vindex \subseteq Ids
  <2>1. TypeOK'
    BY ReplaySkipStep, ReplayDeleteStep, ReplayInsertStep, VectorFacts DEF TypeInv
  <2> QED
    BY <2>1 DEF TypeOK, Mem
<1> QED
  BY <1>1, <1>3, <1>4, <1>5 DEF Follows, IndexFits

\* Recovery is done: nothing is ahead any more, and the cache is rebuilt.
LEMMA ReplayDoneFollows ==
  ASSUME VectorInv, ReplayDone, pc' # "failed"
  PROVE  /\ Follows'
         /\ pc = "replay" /\ pc' = "ckIndex" /\ mem'.index = mem.index /\ mem'.vindex = mem.vindex
         /\ \A id : Ahead(id) = {}
         /\ \A id \in Ids : mem'.cache[id] = IF mem'.index[id] = None THEN None
                                             ELSE Found(data', mem'.index, id).vec
<1>1. /\ pc = "replay" /\ pc' = "ckIndex" /\ pos > Len(wal)
      /\ UNCHANGED <<data, fIndex, fVec, wal, walMeta>>
      /\ mem' = WithVectors(mem, mem.vindex, RebuiltCache(mem.index)) /\ mem \in Mem
  BY VectorFacts DEF ReplayDone, files
<1>2. mem'.index = mem.index /\ mem'.vindex = mem.vindex /\ mem'.cache = RebuiltCache(mem.index)
  BY <1>1 DEF WithVectors, Mem
<1>3. \A id : Ahead(id) = {}
  BY <1>1, VectorFacts DEF Ahead, Pending
<1>4. Home(data, mem.index)
  BY VectorFacts DEF PointerInv, Pointers
<1>5. \A id \in Ids : mem'.cache[id] = IF mem'.index[id] = None THEN None
                                       ELSE Found(data', mem'.index, id).vec
  BY <1>1, <1>2, <1>4, RebuiltFound
<1>6. \A id \in Ids : Fits(id)'
  BY <1>1, <1>2, <1>3, <1>5 DEF Fits, VectorInv, IndexFits
<1>7. FilesFollow'
  BY <1>1, <1>2, PendingKept DEF VectorInv, FilesFollow, Held, Running
<1> QED
  BY <1>1, <1>2, <1>3, <1>5, <1>6, <1>7 DEF Follows, IndexFits

\* Memory and the files keep agreeing.
LEMMA FollowsStep ==
  ASSUME "cpIndex" \notin CrashPoints
  PROVE  VectorInv /\ [Next]_vars => Follows'
<1> SUFFICES ASSUME VectorInv, [Next]_vars PROVE Follows'
  OBVIOUS
<1>1. CASE UNCHANGED vars \/ Read
  <2>1. UNCHANGED vars
    BY <1>1 DEF Read
  <2> QED
    BY <2>1 DEF VectorInv, Follows, FilesFollow, IndexFits, Held, Pending, Ahead, Fits, Found,
       Running, vars, files
<1>2. CASE StartOperation
  <2>1. (\E name, todo : Start(name, todo)) \/ Checkpoint \/ Compact \/ RebuildIndex
    BY <1>2 DEF StartOperation, Insert, InsertBatch, Upsert, UpdateMetadata, UpdateVector,
                Delete, DeleteBatch
  <2> QED
    BY <2>1, QuietlyFollows, RenewedFollows
<1>3. CASE Crash
  BY <1>3, StoppedFollows DEF Crash
<1>4. CASE \/ Log \/ ApplyInsert \/ ApplyUpdateMetadata \/ ApplyUpdateVector \/ ApplyDelete
           \/ ApplyInsertBatch \/ InsertBatchVectors
  BY <1>4, LogFollows, ApplyInsertFollows, ApplyUpdateFollows, ApplyDeleteFollows,
     ApplyInsertBatchFollows, InsertBatchVectorsFollows
<1>5. CASE SaveIndex \/ SaveVectorIndex \/ SaveMetadata \/ LogCheckpoint \/ SaveWalMeta \/ Rotate
  BY <1>5, SaveIndexFollows, SaveVectorIndexFollows, QuietlyFollows, CheckpointLogFollows
<1>6. CASE OpenClean \/ OpenAndReplay \/ ReplaySkip \/ ReplayDelete
  BY <1>6, OpenCleanFollows, OpenAndReplayFollows, ReplayFollows
<1>7. CASE OpenFails \/ ReplayInsert \/ ReplayDone
  <2>1. UNCHANGED <<fIndex, fVec, wal, walMeta>>
    BY <1>7 DEF OpenFails, ReplayInsert, ReplayDone, files
  <2>2. CASE pc' = "failed"
    BY <2>1, <2>2, StoppedFollows
  <2>3. CASE pc' # "failed"
    <3>1. (ReplayInsert /\ pc' = "replay") \/ ReplayDone
      BY <1>7, <2>3 DEF OpenFails, ReplayInsert
    <3> QED
      BY <2>3, <3>1, ReplayFollows, ReplayDoneFollows
  <2> QED
    BY <2>2, <2>3
<1> QED
  BY <1>1, <1>2, <1>3, <1>4, <1>5, <1>6, <1>7 DEF Next, Continue

\* VectorInv is inductive where the process survives compaction's rename.
LEMMA VectorInvStep ==
  ASSUME "cpIndex" \notin CrashPoints
  PROVE  VectorInv /\ [Next]_vars => VectorInv'
BY PointerInvStep, SequenceInvStep, OpFormStep, OpLoggedStep, OpPresentStep, OpStoredStep,
   FollowsStep, VectorFacts DEF VectorInv, Follows

\* Whatever the operations, the rejected writes, the deaths inside a file write
\* and the recoveries are: between operations FlatIndex::search meets no id
\* without a document, and none whose cached vector is missing or stale.  Only
\* a death between compaction's rename and save_index is excluded.
THEOREM VectorIndexAlwaysSound ==
  ASSUME "cpIndex" \notin CrashPoints
  PROVE  Spec => []VectorIndexSound
<1>1. Spec => []VectorInv
  BY VectorInit, VectorInvStep, PTL DEF Spec
<1>2. VectorInv => VectorIndexSound
  <2> SUFFICES ASSUME VectorInv, pc = "idle", NEW id \in mem.vindex
               PROVE  Decodes(mem.index, id) /\ mem.cache[id] = data[mem.index[id]].doc.vec
    BY DEF VectorIndexSound
  <2>1. id \in Ids /\ mem.index[id] # None /\ mem.cache[id] = Found(data, mem.index, id).vec
    BY VectorFacts DEF VectorInv, IndexFits, Fits, Running
  <2>2. data[mem.index[id]] # None
    BY <2>1, VectorFacts DEF PointerInv, Pointers, Home, Live
  <2> QED
    BY <2>1, <2>2 DEF Decodes, Found
<1> QED
  BY <1>1, <1>2, PTL

-----------------------------------------------------------------------------
(* Where no write is rejected and insert_batch is not used, the vector      *)
(* index names every document.                                             *)

\* No batch is under way: its checkpoint would save a vector index that does
\* not know the documents yet.
NoBatch == pc # "vec" /\ after = "idle" /\ (pc \in {"log", "apply"} => op.name # "insert_batch")

\* The saved vector index names the documents of the saved offset index, up to
\* what recovery will replay.
FilesFull == \A id \in Ids : Pending(id) = {} => (id \in Held <=> fIndex[id] # None)

\* So does memory, up to what recovery has still to replay.
MemoryFull ==
  /\ Running /\ pc # "replay" => \A id \in Ids : Exact(id)
  /\ pc = "replay" => \A id \in Ids : Ahead(id) = {} =>
                                        (id \in mem.vindex <=> mem.index[id] # None)

CompleteInv == RecoveryInv /\ VectorInv /\ NoBatch /\ FilesFull /\ MemoryFull

Full == FilesFull /\ MemoryFull

\* Batches stay away.
LEMMA NoBatchStep ==
  ASSUME "insert_batch" \notin Ops, TypeOK
  PROVE  NoBatch /\ [Next]_vars => NoBatch'
<1> SUFFICES ASSUME NoBatch, [Next]_vars PROVE NoBatch'
  OBVIOUS
<1>1. CASE UNCHANGED vars \/ Read \/ Crash
  BY <1>1 DEF vars, Read, Crash, LoseMemory, NoBatch
<1>2. CASE StartOperation
  <2>1. CASE \E name, todo : Start(name, todo)
    <3>1. PICK name, todo : Start(name, todo)
      BY <2>1
    <3>2. pc' = "log" /\ after' = after /\ op'.name = name /\ name # "insert_batch"
      BY <3>1 DEF Start
    <3> QED
      BY <3>2 DEF NoBatch
  <2>2. CASE Checkpoint \/ Compact \/ RebuildIndex
    BY <2>2, ZenonT(40) DEF Checkpoint, Compact, RebuildIndex, NoBatch
  <2> QED
    BY <1>2, <2>1, <2>2 DEF StartOperation, Insert, InsertBatch, Upsert, UpdateMetadata,
       UpdateVector, Delete, DeleteBatch
<1>3. CASE \/ Log \/ ApplyInsert \/ ApplyUpdateMetadata \/ ApplyUpdateVector \/ ApplyDelete
           \/ ApplyInsertBatch \/ InsertBatchVectors
  BY <1>3, ZenonT(40) DEF Log, ApplyInsert, ApplyUpdateMetadata, ApplyUpdateVector, ApplyDelete,
     ApplyInsertBatch, InsertBatchVectors, TrackOperation, ReturnError, NoBatch
<1>4. CASE SaveIndex \/ SaveVectorIndex \/ SaveMetadata \/ LogCheckpoint \/ SaveWalMeta \/ Rotate
  BY <1>4 DEF SaveIndex, SaveVectorIndex, SaveMetadata, LogCheckpoint, SaveWalMeta, Rotate, NoBatch
<1>5. CASE OpenFails \/ OpenClean \/ OpenAndReplay
  BY <1>5 DEF OpenFails, OpenClean, OpenAndReplay, OpenFrame, LoseMemory, NoBatch
<1>6. CASE ReplaySkip \/ ReplayDelete \/ ReplayInsert \/ ReplayDone
  BY <1>6 DEF ReplaySkip, ReplayDelete, ReplayInsert, ReplayDone, LoseMemory, NoBatch
<1> QED
  BY <1>1, <1>2, <1>3, <1>4, <1>5, <1>6 DEF Next, Continue

\* A step that settles every id, over files that stay
LEMMA SettlesFull ==
  ASSUME CompleteInv, Running, pc # "replay", pc' # "replay",
         UNCHANGED <<fIndex, fVec, wal, walMeta>>, Settles
  PROVE  Full'
<1>1. FilesFull'
  BY PendingKept DEF CompleteInv, FilesFull, Held
<1>2. \A id \in Ids : Exact(id)'
  BY ExactKept DEF CompleteInv, MemoryFull, Settles
<1> QED
  BY <1>1, <1>2 DEF Full, MemoryFull

\* Operations and compaction: the documents they touch are indexed or gone.
LEMMA OperationsFull ==
  ASSUME CompleteInv, NothingRejected,
         \/ \E name, todo : Start(name, todo)
         \/ Checkpoint \/ Compact \/ RebuildIndex
         \/ ApplyInsert \/ ApplyUpdateMetadata \/ ApplyUpdateVector \/ ApplyDelete
         \/ InsertBatchVectors \/ SaveMetadata
  PROVE  Full'
<1>0. VectorInv /\ mem.dims \in KnownDims
  BY DEF CompleteInv, RecoveryInv
<1>1. CASE (\E name, todo : Start(name, todo)) \/ Checkpoint \/ SaveMetadata
  <2>1. /\ Running /\ pc # "replay" /\ pc' # "replay"
        /\ UNCHANGED <<data, fIndex, fVec, wal, walMeta, mem>>
    BY <1>1 DEF Start, Checkpoint, SaveMetadata, files, Running
  <2>2. Settles
    BY <2>1 DEF Settles, Same
  <2> QED
    BY <2>1, <2>2, SettlesFull
<1>2. CASE Compact \/ RebuildIndex
  <2>1. /\ Running /\ pc # "replay" /\ pc' # "replay"
        /\ UNCHANGED <<fIndex, fVec, wal, walMeta>>
    BY <1>2, ZenonT(40) DEF Compact, RebuildIndex, files, Running
  <2>2. Settles
    BY <1>0, <1>2, RenewedFollows DEF Settles
  <2> QED
    BY <2>1, <2>2, SettlesFull
<1>3. CASE ApplyInsert \/ ApplyUpdateMetadata \/ ApplyUpdateVector \/ ApplyDelete
  <2>1. /\ pc = "apply" /\ UNCHANGED <<fIndex, fVec, wal, walMeta>>
        /\ TrackOperation("idle") \/ ReturnError
    BY <1>3 DEF ApplyInsert, ApplyUpdateMetadata, ApplyUpdateVector, ApplyDelete, ApplyFrame
  <2>2. pc' # "replay"
    BY <2>1, ApplyTarget
  <2>3. Settles
    BY <1>0, <1>3, ApplyInsertFollows, ApplyUpdateFollows, ApplyDeleteFollows
  <2> QED
    BY <2>1, <2>2, <2>3, SettlesFull DEF Running
<1>4. CASE InsertBatchVectors
  BY <1>4, ZenonT(40) DEF InsertBatchVectors, CompleteInv, NoBatch
<1> QED
  BY <1>1, <1>2, <1>3, <1>4

\* Wal::log
LEMMA LogFull ==
  ASSUME CompleteInv, Log
  PROVE  Full'
<1> DEFINE e == Entry(op.todo[pos], nextSeq)
<1>0. VectorInv
  BY DEF CompleteInv
<1>1. /\ pc = "log" /\ pc' \in {"log", "apply"} /\ wal' = Append(wal, e)
      /\ UNCHANGED <<data, fIndex, fVec, walMeta, mem>>
  BY DEF Log
<1>2. e \in WalEntry
  <2>1. op.todo[pos] \in Writes
    BY <1>0, VectorFacts DEF TypeInv, OpShape, Log
  <2> QED
    BY <1>0, <2>1, VectorFacts, EntryType
<1> HIDE DEF e
<1>3. \A id : Pending(id) \subseteq Pending(id)'
  BY <1>0, <1>1, <1>2, LogPending
<1>4. FilesFull'
  BY <1>1, <1>3 DEF CompleteInv, FilesFull, Held
<1>5. MemoryFull'
  BY <1>1 DEF CompleteInv, MemoryFull, Exact, Running
<1> QED
  BY <1>4, <1>5 DEF Full

\* The steps of a checkpoint, and of compaction's end
LEMMA CheckpointFull ==
  ASSUME CompleteInv, SaveIndex \/ SaveVectorIndex \/ LogCheckpoint \/ SaveWalMeta \/ Rotate
  PROVE  Full'
<1>0. VectorInv /\ after = "idle" /\ mem.vindex \subseteq Ids
  BY VectorFacts DEF CompleteInv, NoBatch
<1>1. /\ pc \in CheckpointPcs \cup CompactPcs \cup {"rebuild"}
      /\ pc' \in CheckpointPcs \cup CompactPcs \cup {"idle"}
      /\ UNCHANGED <<data, mem>>
  BY <1>0 DEF SaveIndex, SaveVectorIndex, LogCheckpoint, SaveWalMeta, Rotate
<1>2. \A id \in Ids : Exact(id)
  BY <1>1 DEF CompleteInv, MemoryFull, Running
<1>3. MemoryFull'
  BY <1>1, <1>2 DEF MemoryFull, Exact
<1>4. \A id \in Ids : Pending(id) = {} => (mem.index[id] # None <=> fIndex[id] # None)
  BY <1>0, <1>1 DEF VectorInv, FilesFollow, Running
<1> SUFFICES FilesFull'
  BY <1>3 DEF Full
<1>5. CASE SaveIndex
  BY <1>4, <1>5, PendingKept DEF SaveIndex, CompleteInv, FilesFull, Held
<1>6. CASE SaveVectorIndex
  <2>1. fVec' = mem.vindex /\ fVec' # None /\ UNCHANGED <<fIndex, wal, walMeta>>
    BY <1>0, <1>6, ConstantsAssumption DEF SaveVectorIndex
  <2>2. Held' = mem.vindex
    BY <2>1 DEF Held
  <2> QED
    BY <1>2, <1>4, <2>1, <2>2, PendingKept DEF FilesFull, Exact
<1>7. CASE LogCheckpoint \/ SaveWalMeta \/ Rotate
  <2>1. fIndex = mem.index /\ fVec = mem.vindex /\ UNCHANGED <<fIndex, fVec>>
    BY <1>0, <1>7 DEF VectorInv, FilesFollow, LogCheckpoint, SaveWalMeta, Rotate
  <2>2. fVec # None
    BY <1>0, <2>1, ConstantsAssumption
  <2>3. Held' = mem.vindex /\ fIndex' = mem.index
    BY <2>1, <2>2 DEF Held
  <2> QED
    BY <1>2, <2>3 DEF FilesFull, Exact
<1> QED
  BY <1>5, <1>6, <1>7

\* Opening a collection, and recovering it
LEMMA RecoverFull ==
  ASSUME CompleteInv, NothingRejected,
         OpenClean \/ OpenAndReplay \/ ReplaySkip \/ ReplayDelete \/ ReplayInsert \/ ReplayDone
  PROVE  Full'
<1>0. VectorInv /\ RecoveryInv
  BY DEF CompleteInv
<1>1. UNCHANGED <<fIndex, fVec, wal, walMeta>>
  BY DEF OpenClean, OpenAndReplay, OpenFrame, ReplaySkip, ReplayDelete, ReplayInsert,
     ReplayDone, files
<1>2. FilesFull'
  BY <1>1, PendingKept DEF CompleteInv, FilesFull, Held
<1>3. CASE OpenClean
  <2>1. /\ \A id \in Ids : mem'.cache[id] = IF mem'.index[id] = None THEN None
                                            ELSE Found(data', mem'.index, id).vec
        /\ mem'.vindex = (IF fVec = None THEN Live(mem'.index) ELSE fVec)
        /\ mem'.index = fIndex /\ \A id : Pending(id)' = {}
    BY <1>0, <1>3, OpenCleanFollows
  <2>2. \A id \in Ids : id \in Held <=> fIndex[id] # None
    BY <1>1, <2>1, PendingKept DEF CompleteInv, FilesFull
  <2>3. \A id \in Ids : id \in mem'.vindex <=> mem'.index[id] # None
    BY <2>1, <2>2 DEF Held, Live
  <2>4. \A id \in Ids : Exact(id)'
    BY <2>1, <2>3 DEF Exact
  <2>5. pc' = "idle"
    BY <1>3 DEF OpenClean
  <2> QED
    BY <1>2, <2>4, <2>5 DEF Full, MemoryFull
<1>4. CASE OpenAndReplay
  <2>1. /\ mem'.index = fIndex /\ mem'.vindex = Held /\ pc' = "replay"
        /\ \A id : Ahead(id)' = Pending(id)
    BY <1>0, <1>4, OpenAndReplayFollows DEF OpenAndReplay
  <2> QED
    BY <1>2, <2>1 DEF Full, MemoryFull, CompleteInv, FilesFull
<1>5. CASE ReplaySkip \/ ReplayDelete \/ ReplayInsert
  <2>1. ReplaySkip \/ ReplayDelete \/ (ReplayInsert /\ pc' = "replay")
    BY <1>0, <1>5, ReplayInsertEffect
  <2>2. /\ pc = "replay" /\ pc' = "replay" /\ pos <= Len(wal) /\ pos' = pos + 1
        /\ \A id \in Ids : Turn(id) => Gone(id) \/ Entered(id)
        /\ \A id \in Ids : ~Turn(id) => Same(id)
    BY <1>0, <2>1, ReplaySeen
  <2>3. \A id : ~Turn(id) => Ahead(id)' = Ahead(id)
    BY <1>0, <1>1, <2>2, AheadNext
  <2>4. \A id \in Ids : Ahead(id)' = {} => (id \in mem'.vindex <=> mem'.index[id] # None)
    BY <2>2, <2>3 DEF CompleteInv, MemoryFull, Same, Gone, Entered
  <2> QED
    BY <1>2, <2>2, <2>4 DEF Full, MemoryFull
<1>6. CASE ReplayDone
  <2>1. CASE pc' = "failed"
    BY <1>2, <2>1 DEF Full, MemoryFull, Running
  <2>2. CASE pc' # "failed"
    <3>1. /\ pc = "replay" /\ pc' = "ckIndex"
          /\ mem'.index = mem.index /\ mem'.vindex = mem.vindex
          /\ \A id : Ahead(id) = {}
          /\ \A id \in Ids : mem'.cache[id] = IF mem'.index[id] = None THEN None
                                              ELSE Found(data', mem'.index, id).vec
      BY <1>0, <1>6, <2>2, ReplayDoneFollows
    <3>2. \A id \in Ids : id \in mem'.vindex <=> mem'.index[id] # None
      BY <3>1 DEF CompleteInv, MemoryFull
    <3>3. \A id \in Ids : Exact(id)'
      BY <3>1, <3>2 DEF Exact
    <3> QED
      BY <1>2, <3>1, <3>3 DEF Full, MemoryFull
  <2> QED
    BY <2>1, <2>2
<1> QED
  BY <1>3, <1>4, <1>5, <1>6

\* CompleteInv is inductive.
LEMMA CompleteInvStep ==
  ASSUME NothingRejected, "cpIndex" \notin CrashPoints, "insert_batch" \notin Ops
  PROVE  CompleteInv /\ [Next]_vars => CompleteInv'
<1> SUFFICES ASSUME CompleteInv, [Next]_vars PROVE Full'
  BY RecoveryInvStep, VectorInvStep, NoBatchStep, VectorFacts DEF CompleteInv, Full
<1>1. CASE UNCHANGED vars \/ Read
  <2>1. UNCHANGED vars
    BY <1>1 DEF Read
  <2> QED
    BY <2>1 DEF CompleteInv, Full, FilesFull, MemoryFull, Held, Pending, Ahead, Exact, Found,
       Running, vars, files
<1>2. CASE StartOperation
  <2>1. (\E name, todo : Start(name, todo)) \/ Checkpoint \/ Compact \/ RebuildIndex
    BY <1>2 DEF StartOperation, Insert, InsertBatch, Upsert, UpdateMetadata, UpdateVector,
                Delete, DeleteBatch
  <2> QED
    BY <2>1, OperationsFull
<1>3. CASE Crash \/ OpenFails
  <2>1. pc' \in {"closed", "failed"} /\ UNCHANGED <<fIndex, fVec, wal, walMeta>>
    BY <1>3 DEF Crash, OpenFails, files
  <2>2. FilesFull'
    BY <2>1, PendingKept DEF CompleteInv, FilesFull, Held
  <2> QED
    BY <2>1, <2>2 DEF Full, MemoryFull, Running
<1>4. CASE \/ ApplyInsert \/ ApplyUpdateMetadata \/ ApplyUpdateVector \/ ApplyDelete
           \/ InsertBatchVectors \/ SaveMetadata
  BY <1>4, OperationsFull
<1>5. CASE ApplyInsertBatch
  BY <1>5 DEF ApplyInsertBatch, CompleteInv, NoBatch
<1>6. CASE Log \/ SaveIndex \/ SaveVectorIndex \/ LogCheckpoint \/ SaveWalMeta \/ Rotate
  BY <1>6, LogFull, CheckpointFull
<1>7. CASE \/ OpenClean \/ OpenAndReplay
           \/ ReplaySkip \/ ReplayDelete \/ ReplayInsert \/ ReplayDone
  BY <1>7, RecoverFull
<1> QED
  BY <1>1, <1>2, <1>3, <1>4, <1>5, <1>6, <1>7 DEF Next, Continue

\* Where no limit and no dimension check rejects a write that was logged, and
\* insert_batch is not used, the vector index and the cache hold between
\* operations exactly the documents that can be read, whatever deaths and
\* recoveries the collection has been through: search misses nothing.
THEOREM VectorIndexAlwaysComplete ==
  ASSUME NothingRejected, "cpIndex" \notin CrashPoints, "insert_batch" \notin Ops
  PROVE  Spec => []VectorIndexComplete
<1>1. Init => CompleteInv
  <2> SUFFICES ASSUME Init PROVE NoBatch /\ FilesFull /\ MemoryFull
    BY RecoveryInit, VectorInit DEF CompleteInv
  <2> QED
    BY DEF Init, NoBatch, FilesFull, MemoryFull, Held, Running
<1>2. Spec => []CompleteInv
  BY <1>1, CompleteInvStep, PTL DEF Spec
<1>3. CompleteInv => VectorIndexComplete
  <2> SUFFICES ASSUME CompleteInv, pc = "idle"
               PROVE  mem.vindex = Live(mem.index) /\ mem.cache = RebuiltCache(mem.index)
    BY DEF VectorIndexComplete
  <2>1. /\ Home(data, mem.index) /\ mem.vindex \subseteq Ids
        /\ mem.cache \in [Ids -> Vectors \cup {None}]
    BY VectorFacts DEF CompleteInv, PointerInv, Pointers
  <2>2. \A id \in Ids : Exact(id)
    BY DEF CompleteInv, MemoryFull, Running
  <2>3. mem.vindex = Live(mem.index)
    BY <2>1, <2>2 DEF Exact, Live
  <2>4. \A id \in Ids : mem.cache[id] = RebuiltCache(mem.index)[id]
    BY <2>1, <2>2, RebuiltFound DEF Exact
  <2>5. RebuiltCache(mem.index) = [id \in Ids |-> RebuiltCache(mem.index)[id]]
    BY DEF RebuiltCache
  <2> QED
    BY <2>1, <2>3, <2>4, <2>5
<1> QED
  BY <1>2, <1>3, PTL

=============================================================================
