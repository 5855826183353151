-------------------------- MODULE CollectionProofs --------------------------
(***************************************************************************)
(* Theorems about Collection, for every value of its constants.            *)
(***************************************************************************)
EXTENDS Collection, FiniteSetTheorems, TLAPS

-----------------------------------------------------------------------------
(* Memory that is well formed: no two ids share a slot, and every pointer  *)
(* lies below the append cursor.                                           *)

Injective(index) == \A a, b \in Live(index) : index[a] = index[b] => a = b

Below(index, c) == \A id \in Live(index) : index[id] < c

Sound(m) == m \in Mem /\ Injective(m.index) /\ Below(m.index, m.cursor)

\* Facts about the constants, in the form the provers use them.
LEMMA NoneFacts ==
  /\ \A n \in Nat : n # None
  /\ \A s \in Slots : s # None /\ s \in Nat
  /\ \A r \in Records : r # None
  /\ \A d \in Docs : d # None
BY ConstantsAssumption DEF Slots

\* The memory of a closed collection is well formed.
LEMMA EmptyMemSound == Sound(EmptyMem)
BY ConstantsAssumption DEF Sound, EmptyMem, Mem, Injective, Below, Live

\* A document appended at the cursor: Pointed keeps memory sound.
LEMMA PointedSound ==
  ASSUME NEW m, Sound(m), m.cursor <= MaxSlots, NEW id \in Ids
  PROVE  /\ Sound(Pointed(m, id))
         /\ Pointed(m, id).index = [m.index EXCEPT ![id] = m.cursor]
         /\ Pointed(m, id).cursor = m.cursor + 1
         /\ Pointed(m, id).dims = m.dims
<1>1. m.cursor \in Slots /\ m.cursor + 1 \in 1..(MaxSlots + 1)
  BY ConstantsAssumption DEF Sound, Mem, Slots
<1>2. /\ Pointed(m, id).index = [m.index EXCEPT ![id] = m.cursor]
      /\ Pointed(m, id).cursor = m.cursor + 1
      /\ Pointed(m, id).dims = m.dims
  BY DEF Pointed, Sound, Mem
<1>3. Pointed(m, id) \in Mem
  BY <1>1 DEF Pointed, Sound, Mem
<1>4. Injective(Pointed(m, id).index) /\ Below(Pointed(m, id).index, m.cursor + 1)
  BY <1>1, <1>2, NoneFacts DEF Injective, Below, Live, Sound, Mem
<1> QED
  BY <1>2, <1>3, <1>4 DEF Sound

\* put_vector and VectorIndex::insert leave the pointers alone.
LEMMA IndexedSound ==
  ASSUME NEW m, Sound(m), NEW id \in Ids, NEW vec \in Vectors
  PROVE  /\ Sound(Indexed(m, id, vec))
         /\ Indexed(m, id, vec).index = m.index
         /\ Indexed(m, id, vec).cursor = m.cursor
BY DEF Indexed, Sound, Mem

\* set_dimensions leaves a number behind.
LEMMA DimsAfterType ==
  ASSUME NEW m, m \in Mem, NEW vec \in Vectors
  PROVE  DimsAfter(m, vec) \in Nat
BY ConstantsAssumption DEF DimsAfter, Mem

\* Setting the dimensions leaves the pointers alone.
LEMMA DimsSound ==
  ASSUME NEW m, Sound(m), NEW d \in Nat
  PROVE  /\ Sound([m EXCEPT !.dims = d])
         /\ [m EXCEPT !.dims = d].index = m.index
         /\ [m EXCEPT !.dims = d].cursor = m.cursor
BY DEF Sound, Mem

\* insert_internal either leaves the offset index and the cursor alone or adds
\* one pointer to the slot it has written.
LEMMA InsertInternalSound ==
  ASSUME NEW m, Sound(m), m.cursor <= MaxSlots, NEW id \in Ids, NEW doc \in Docs
  PROVE  /\ Sound(InsertInternal(m, id, doc))
         /\ EnforceSingleFails(m, doc) => InsertInternal(m, id, doc) = m
         /\ ~EnforceSingleFails(m, doc) =>
              /\ InsertInternal(m, id, doc).index = [m.index EXCEPT ![id] = m.cursor]
              /\ InsertInternal(m, id, doc).cursor = m.cursor + 1
<1> DEFINE stored == [Pointed(m, id) EXCEPT !.dims = DimsAfter(m, doc.vec)]
<1>0. doc.vec \in Vectors
  BY DEF Docs
<1>1. /\ Sound(stored)
      /\ stored.index = [m.index EXCEPT ![id] = m.cursor]
      /\ stored.cursor = m.cursor + 1
  <2>1. DimsAfter(m, doc.vec) \in Nat
    BY <1>0, DimsAfterType DEF Sound
  <2> QED
    BY <2>1, PointedSound, DimsSound
<1>2. /\ Sound(Indexed(stored, id, doc.vec))
      /\ Indexed(stored, id, doc.vec).index = stored.index
      /\ Indexed(stored, id, doc.vec).cursor = stored.cursor
  BY <1>0, <1>1, IndexedSound
<1> HIDE DEF stored
<1>3. InsertInternal(m, id, doc) =
        IF EnforceSingleFails(m, doc) THEN m
        ELSE IF stored.dims = DimOf[doc.vec] THEN Indexed(stored, id, doc.vec) ELSE stored
  BY DEF InsertInternal, stored
<1> QED
  BY <1>1, <1>2, <1>3

\* delete_internal forgets one pointer and leaves the cursor where it is.
LEMMA DeleteInternalSound ==
  ASSUME NEW m, Sound(m), NEW id \in Ids
  PROVE  /\ Sound(DeleteInternal(m, id))
         /\ DeleteInternal(m, id).index = [m.index EXCEPT ![id] = None]
         /\ DeleteInternal(m, id).cursor = m.cursor
BY DEF DeleteInternal, Sound, Mem, Injective, Below, Live

-----------------------------------------------------------------------------
(* Type correctness.  The operation in progress has room in the data file  *)
(* for all its writes, and the operations that store documents have them.  *)

Storing == op.name \notin {"delete", "delete_batch"}

OpShape ==
  /\ pc \in {"log", "apply"} => /\ op.todo # <<>>
                                /\ mem.cursor + Len(op.todo) <= MaxSlots + 1
  /\ pc = "log" => pos <= Len(op.todo)
  /\ pc \in {"log", "apply"} /\ Storing =>
       \A i \in DOMAIN op.todo : op.todo[i].kind # "Delete"
  /\ pc = "vec" \/ (pc \in CheckpointPcs /\ after = "vec") =>
       op.todo # <<>> /\ \A i \in DOMAIN op.todo : op.todo[i].kind # "Delete"
  /\ pc = "ckWalMeta" => nextSeq # 0

TypeInv == TypeOK /\ OpShape /\ Sound(mem) /\ Injective(fIndex)

USE DEF Pcs, RunningPcs, CheckpointPcs, CompactPcs

\* A collection that was never opened satisfies the invariant.
LEMMA TypeInvInit == Init => TypeInv
<1> SUFFICES ASSUME Init PROVE TypeInv
  OBVIOUS
<1>1. Sound(mem)
  BY EmptyMemSound DEF Init
<1>2. TypeOK
  <2>0. checkpointed \in BOOLEAN
    BY DEF Init
  <2>1. op \in [name : OpNames, todo : Seq(Writes)] /\ wal \in Seq(WalEntry)
    BY DEF Init, NoOp, OpNames
  <2> QED
    BY <1>1, <2>0, <2>1, ConstantsAssumption DEF Init, TypeOK, Sound
<1>3. Injective(fIndex)
  BY DEF Init, Injective, Live
<1> QED
  BY <1>1, <1>2, <1>3 DEF Init, TypeInv, OpShape

\* A write that is not a delete has a document.
LEMMA WriteFacts ==
  ASSUME NEW w \in Writes
  PROVE  /\ w.id \in Ids
         /\ w.kind # "Delete" => w.doc \in Docs /\ w.doc.vec \in Vectors
BY DEF Writes, Docs

\* Beginning an operation with the writes todo.
LEMMA StartStep ==
  ASSUME TypeInv, NEW name, NEW todo \in Seq(Writes), todo # <<>>,
         name \in {"delete", "delete_batch"} \/ \A i \in DOMAIN todo : todo[i].kind # "Delete",
         Start(name, todo)
  PROVE  TypeInv'
<1>1. TypeOK'
  BY ConstantsAssumption, SMTT(30) DEF TypeInv, TypeOK, Start, files, counters
<1>2. Len(todo) \in Nat \ {0}
  BY DEF Start
<1>3. OpShape'
  BY <1>1, <1>2 DEF TypeInv, TypeOK, OpShape, Start, Storing, files, counters, Mem
<1> QED
  BY <1>1, <1>3 DEF TypeInv, Start, files, counters, Sound, Injective, Below, Live

\* Beginning an operation with one write.
LEMMA StartOneStep ==
  ASSUME TypeInv, NEW name, NEW w \in Writes,
         name \in {"delete", "delete_batch"} \/ w.kind # "Delete",
         Start(name, <<w>>)
  PROVE  TypeInv'
<1>1. <<w>> \in Seq(Writes) /\ <<w>> # <<>> /\ \A i \in DOMAIN <<w>> : <<w>>[i] = w
  OBVIOUS
<1> QED
  BY <1>1, StartStep

\* Beginning an operation with two writes.
LEMMA StartTwoStep ==
  ASSUME TypeInv, NEW name, NEW v \in Writes, NEW w \in Writes,
         name \in {"delete", "delete_batch"} \/ (v.kind # "Delete" /\ w.kind # "Delete"),
         Start(name, <<v, w>>)
  PROVE  TypeInv'
<1>1. /\ <<v, w>> \in Seq(Writes) /\ <<v, w>> # <<>>
      /\ \A i \in DOMAIN <<v, w>> : <<v, w>>[i] = v \/ <<v, w>>[i] = w
  OBVIOUS
<1> QED
  BY <1>1, StartStep

\* What an index finds in the data file is a document.
LEMMA FoundType ==
  ASSUME TypeOK, NEW index \in [Ids -> Slots \cup {None}], NEW id \in Ids, Decodes(index, id)
  PROVE  /\ index[id] \in Slots
         /\ data[index[id]] \in Records
         /\ Get(index, id) = data[index[id]].doc
         /\ Get(index, id) \in Docs
         /\ Get(index, id).vec \in Vectors /\ Get(index, id).meta \in Metas
BY NoneFacts DEF TypeOK, Decodes, Get, Records, Docs

\* cache_maintenance::rebuild caches vectors.
LEMMA RebuiltCacheType ==
  ASSUME TypeOK, NEW index \in [Ids -> Slots \cup {None}]
  PROVE  RebuiltCache(index) \in [Ids -> Vectors \cup {None}]
BY FoundType DEF RebuiltCache, Get

\* The writes that operations build.
LEMMA WriteType ==
  /\ \A id \in Ids, doc \in Docs : /\ Write("Insert", id, doc) \in Writes
                                   /\ Write("Update", id, doc) \in Writes
  /\ \A id \in Ids : Write("Delete", id, None) \in Writes
  /\ \A kind, id, doc : Write(kind, id, doc).kind = kind
BY DEF Write, Writes

\* The beginnings of the operations that write, one by one.
LEMMA WriteOperationStep ==
  ASSUME TypeInv,
         \/ Insert \/ InsertBatch \/ Upsert \/ UpdateMetadata \/ UpdateVector
         \/ Delete \/ DeleteBatch
  PROVE  TypeInv'
<1>0. TypeOK /\ mem.index \in [Ids -> Slots \cup {None}]
  BY DEF TypeInv, TypeOK, Mem
<1>1. CASE Insert
  <2>1. PICK id \in Ids, doc \in Docs : Start("insert", <<Write("Insert", id, doc)>>)
    BY <1>1 DEF Insert
  <2> QED
    BY <2>1, WriteType, StartOneStep
<1>2. CASE InsertBatch
  <2>1. PICK a \in Ids, b \in Ids, c \in Docs, d \in Docs :
          Start("insert_batch", <<Write("Insert", a, c), Write("Insert", b, d)>>)
    BY <1>2 DEF InsertBatch
  <2>2. /\ Write("Insert", a, c) \in Writes /\ Write("Insert", a, c).kind # "Delete"
        /\ Write("Insert", b, d) \in Writes /\ Write("Insert", b, d).kind # "Delete"
    BY WriteType
  <2> QED
    BY <2>1, <2>2, StartTwoStep
<1>3. CASE Upsert
  <2>1. PICK id \in Ids, doc \in Docs :
          Start("upsert", <<Write(IF mem.index[id] = None THEN "Insert" ELSE "Update", id, doc)>>)
    BY <1>3 DEF Upsert
  <2>2. PICK kind \in {"Insert", "Update"} : Start("upsert", <<Write(kind, id, doc)>>)
    BY <2>1
  <2>3. Write(kind, id, doc) \in Writes /\ Write(kind, id, doc).kind # "Delete"
    BY WriteType
  <2> QED
    BY <2>2, <2>3, StartOneStep
<1>4. CASE UpdateMetadata
  <2>1. PICK id \in Ids, meta \in Metas :
          /\ Decodes(mem.index, id)
          /\ Start("update_metadata",
                   <<Write("Update", id, [vec |-> Get(mem.index, id).vec, meta |-> meta])>>)
    BY <1>4 DEF UpdateMetadata
  <2>2. [vec |-> Get(mem.index, id).vec, meta |-> meta] \in Docs
    BY <1>0, <2>1, FoundType DEF Docs
  <2>3. PICK doc \in Docs : Start("update_metadata", <<Write("Update", id, doc)>>)
    BY <2>1, <2>2
  <2>4. Write("Update", id, doc) \in Writes /\ Write("Update", id, doc).kind # "Delete"
    BY WriteType
  <2> QED
    BY <2>3, <2>4, StartOneStep
<1>5. CASE UpdateVector
  <2>1. PICK id \in Ids, vec \in Vectors :
          /\ Decodes(mem.index, id)
          /\ Start("update_vector",
                   <<Write("Update", id, [vec |-> vec, meta |-> Get(mem.index, id).meta])>>)
    BY <1>5 DEF UpdateVector
  <2>2. [vec |-> vec, meta |-> Get(mem.index, id).meta] \in Docs
    BY <1>0, <2>1, FoundType DEF Docs
  <2>3. PICK doc \in Docs : Start("update_vector", <<Write("Update", id, doc)>>)
    BY <2>1, <2>2
  <2>4. Write("Update", id, doc) \in Writes /\ Write("Update", id, doc).kind # "Delete"
    BY WriteType
  <2> QED
    BY <2>3, <2>4, StartOneStep
<1>6. CASE Delete
  <2>1. PICK id \in Ids : Start("delete", <<Write("Delete", id, None)>>)
    BY <1>6 DEF Delete, Live
  <2> QED
    BY <2>1, WriteType, StartOneStep
<1>7. CASE DeleteBatch
  <2>1. PICK a \in Ids, b \in Ids :
          Start("delete_batch", <<Write("Delete", a, None), Write("Delete", b, None)>>)
    BY <1>7 DEF DeleteBatch, Live
  <2> QED
    BY <2>1, WriteType, StartTwoStep
<1> QED
  BY <1>1, <1>2, <1>3, <1>4, <1>5, <1>6, <1>7

-----------------------------------------------------------------------------
(* The steps that apply an operation.                                      *)

\* What TrackOperation and ReturnError leave behind.
EndsWell ==
  /\ opCount' \in Nat /\ nextSeq' = nextSeq /\ checkpointed' = checkpointed
  /\ pc' \in {"idle", "ckIndex"} /\ op' = NoOp /\ pos' = 1 /\ after' \in {"idle", "vec"}
  /\ pc' = "ckIndex" => after' = "idle"

\* Both ends of an operation leave nothing of it behind.
LEMMA TrackEndsWell ==
  ASSUME TypeInv, TrackOperation("idle") \/ ReturnError
  PROVE  EndsWell
BY DEF TypeInv, TypeOK, TrackOperation, ReturnError, ForgetOp, EndsWell, counters

\* No operation in progress is one of the values of op.
LEMMA NoOpType == NoOp \in [name : OpNames, todo : Seq(Writes)]
BY DEF NoOp, OpNames

\* Memory and the data file after a step that applies an operation.
LEMMA ApplyStep ==
  ASSUME TypeInv, EndsWell, ApplyFrame, Sound(mem'),
         data' \in [Slots -> Records \cup {None}]
  PROVE  TypeInv'
<1>1. checkpointed' \in BOOLEAN
  BY DEF TypeInv, TypeOK, EndsWell
<1>2. TypeOK'
  BY <1>1, NoOpType DEF TypeInv, TypeOK, EndsWell, ApplyFrame, Sound
<1>3. OpShape' /\ Injective(fIndex)'
  BY DEF TypeInv, OpShape, EndsWell, ApplyFrame, Injective, Live
<1> QED
  BY <1>2, <1>3 DEF TypeInv, Sound, Injective, Below, Live

\* RecordStore::append stores a record.
LEMMA AppendedType ==
  ASSUME TypeOK, NEW m, NEW id \in Ids, NEW doc \in Docs
  PROVE  Appended(m, id, doc) \in [Slots -> Records \cup {None}]
BY DEF TypeOK, Appended, Record, Records

\* The first write of an operation that is being applied.
LEMMA FirstWrite ==
  ASSUME TypeInv, pc = "apply"
  PROVE  /\ op.todo \in Seq(Writes) /\ Len(op.todo) >= 1
         /\ op.todo[1] \in Writes /\ op.todo[1].id \in Ids
         /\ Storing => op.todo[1].doc \in Docs /\ op.todo[1].doc.vec \in Vectors
         /\ mem.cursor <= MaxSlots
<1>1. /\ op.todo \in Seq(Writes) /\ op.todo # <<>>
      /\ mem.cursor + Len(op.todo) <= MaxSlots + 1
      /\ mem.cursor \in Nat
      /\ Storing => \A i \in DOMAIN op.todo : op.todo[i].kind # "Delete"
  BY DEF TypeInv, TypeOK, OpShape, Mem
<1>2. Len(op.todo) >= 1 /\ 1 \in DOMAIN op.todo /\ op.todo[1] \in Writes
  BY <1>1
<1> QED
  BY <1>1, <1>2, WriteFacts, ConstantsAssumption

\* insert and upsert, applied
LEMMA ApplyInsertStep == TypeInv /\ ApplyInsert => TypeInv'
<1> SUFFICES ASSUME TypeInv, ApplyInsert PROVE TypeInv'
  OBVIOUS
<1> DEFINE w == op.todo[1]
           m == IF w.kind = "Update" THEN DeleteInternal(mem, w.id) ELSE mem
<1>1. w.id \in Ids /\ w.doc \in Docs /\ mem.cursor <= MaxSlots
  BY FirstWrite DEF ApplyInsert, Storing
<1>2. Sound(m) /\ m.cursor <= MaxSlots
  BY <1>1, DeleteInternalSound DEF TypeInv
<1>3. /\ mem' = InsertInternal(m, w.id, w.doc)
      /\ data' = InsertInternalData(m, w.id, w.doc)
      /\ TrackOperation("idle") \/ ReturnError
      /\ ApplyFrame
  BY DEF ApplyInsert
<1> HIDE DEF m, w
<1>4. Sound(mem')
  BY <1>1, <1>2, <1>3, InsertInternalSound
<1>5. data' \in [Slots -> Records \cup {None}]
  BY <1>1, <1>3, AppendedType DEF InsertInternalData, TypeInv, TypeOK
<1> QED
  BY <1>3, <1>4, <1>5, TrackEndsWell, ApplyStep

\* update_metadata, applied
LEMMA ApplyUpdateMetadataStep == TypeInv /\ ApplyUpdateMetadata => TypeInv'
<1> SUFFICES ASSUME TypeInv, ApplyUpdateMetadata PROVE TypeInv'
  OBVIOUS
<1> DEFINE w == op.todo[1]
<1>1. w.id \in Ids /\ w.doc \in Docs /\ mem.cursor <= MaxSlots
  BY FirstWrite DEF ApplyUpdateMetadata, Storing
<1>2. /\ \/ mem' = mem /\ data' = data
         \/ mem' = Pointed(mem, w.id) /\ data' = Appended(mem, w.id, w.doc)
      /\ TrackOperation("idle") \/ ReturnError
      /\ ApplyFrame
  BY DEF ApplyUpdateMetadata
<1> HIDE DEF w
<1>3. Sound(mem')
  <2>1. Sound(mem) /\ Sound(Pointed(mem, w.id))
    BY <1>1, PointedSound DEF TypeInv
  <2> QED
    BY <1>2, <2>1
<1>4. data' \in [Slots -> Records \cup {None}]
  <2>1. /\ data \in [Slots -> Records \cup {None}]
        /\ Appended(mem, w.id, w.doc) \in [Slots -> Records \cup {None}]
    BY <1>1, AppendedType DEF TypeInv, TypeOK
  <2> QED
    BY <1>2, <2>1
<1> QED
  BY <1>2, <1>3, <1>4, TrackEndsWell, ApplyStep

\* update_vector, applied
LEMMA ApplyUpdateVectorStep == TypeInv /\ ApplyUpdateVector => TypeInv'
<1> SUFFICES ASSUME TypeInv, ApplyUpdateVector PROVE TypeInv'
  OBVIOUS
<1> DEFINE w == op.todo[1]
           m == [mem EXCEPT !.dims = DimsAfter(mem, w.doc.vec)]
<1>1. w.id \in Ids /\ w.doc \in Docs /\ w.doc.vec \in Vectors /\ mem.cursor <= MaxSlots
  BY FirstWrite DEF ApplyUpdateVector, Storing
<1>2. Sound(m) /\ m.cursor <= MaxSlots
  BY <1>1, DimsAfterType, DimsSound DEF TypeInv, Sound
<1>3. /\ \/ mem' \in {m, mem} /\ data' = data
         \/ /\ mem' = Indexed(Pointed(m, w.id), w.id, w.doc.vec)
            /\ data' = Appended(mem, w.id, w.doc)
      /\ TrackOperation("idle") \/ ReturnError
      /\ ApplyFrame
  BY DEF ApplyUpdateVector
<1> HIDE DEF w, m
<1>4. Sound(mem')
  <2>1. Sound(mem) /\ Sound(Indexed(Pointed(m, w.id), w.id, w.doc.vec))
    BY <1>1, <1>2, PointedSound, IndexedSound DEF TypeInv
  <2> QED
    BY <1>2, <1>3, <2>1
<1>5. data' \in [Slots -> Records \cup {None}]
  <2>1. /\ data \in [Slots -> Records \cup {None}]
        /\ Appended(mem, w.id, w.doc) \in [Slots -> Records \cup {None}]
    BY <1>1, AppendedType DEF TypeInv, TypeOK
  <2> QED
    BY <1>3, <2>1
<1> QED
  BY <1>3, <1>4, <1>5, TrackEndsWell, ApplyStep

\* delete_batch forgets pointers and leaves the cursor where it is.
LEMMA DeleteAllSound ==
  ASSUME NEW m, Sound(m), NEW ids
  PROVE  /\ Sound(DeleteAll(m, ids))
         /\ DeleteAll(m, ids).index = [id \in Ids |-> IF id \in ids THEN None ELSE m.index[id]]
         /\ DeleteAll(m, ids).cursor = m.cursor
<1>1. DeleteAll(m, ids) \in Mem
  BY DEF Sound, Mem, DeleteAll
<1>2. /\ DeleteAll(m, ids).index = [id \in Ids |-> IF id \in ids THEN None ELSE m.index[id]]
      /\ DeleteAll(m, ids).cursor = m.cursor
  BY DEF Sound, Mem, DeleteAll
<1> QED
  BY <1>1, <1>2 DEF Sound, Injective, Below, Live

\* delete and delete_batch, applied
LEMMA ApplyDeleteStep == TypeInv /\ ApplyDelete => TypeInv'
<1> SUFFICES ASSUME TypeInv, ApplyDelete PROVE TypeInv'
  OBVIOUS
<1>1. Sound(mem')
  BY DeleteAllSound DEF TypeInv, ApplyDelete
<1>2. data' \in [Slots -> Records \cup {None}] /\ TrackOperation("idle") /\ ApplyFrame
  BY DEF TypeInv, TypeOK, ApplyDelete
<1> QED
  BY <1>1, <1>2, TrackEndsWell, ApplyStep

\* The writes of an operation that stores documents.
LEMMA StoredWrites ==
  ASSUME TypeOK, \A i \in DOMAIN op.todo : op.todo[i].kind # "Delete"
  PROVE  \A i \in 1..Len(op.todo) : /\ op.todo[i].id \in Ids
                                    /\ op.todo[i].doc \in Docs
                                    /\ op.todo[i].doc.vec \in Vectors
<1>1. op.todo \in Seq(Writes)
  BY DEF TypeOK
<1>2. \A i \in 1..Len(op.todo) : i \in DOMAIN op.todo /\ op.todo[i] \in Writes
  BY <1>1
<1> QED
  BY <1>2, WriteFacts

\* The pointers of a batch keep memory in its type.
LEMMA RepointedType ==
  ASSUME NEW m \in Mem, NEW index \in [Ids -> Slots \cup {None}], NEW c \in 1..(MaxSlots + 1)
  PROVE  /\ Repointed(m, index, c) \in Mem
         /\ Repointed(m, index, c).index = index
         /\ Repointed(m, index, c).cursor = c
BY DEF Mem, Repointed

\* insert_batch up to its checkpoint: the new pointers fill the slots from the
\* cursor on, one id each.
LEMMA ApplyInsertBatchStep == TypeInv /\ ApplyInsertBatch => TypeInv'
<1> SUFFICES ASSUME TypeInv, ApplyInsertBatch PROVE TypeInv'
  OBVIOUS
<1> DEFINE n == Len(op.todo)
           at(id) == CHOOSE i \in 1..n : op.todo[i].id = id
           index == [id \in Ids |-> IF \E i \in 1..n : op.todo[i].id = id
                                    THEN mem.cursor + at(id) - 1 ELSE mem.index[id]]
<1>1. CASE EnforceBatchFails(mem, op.todo)
  <2>1. ReturnError /\ mem' = mem /\ data' = data /\ ApplyFrame
    BY <1>1 DEF ApplyInsertBatch
  <2>2. EndsWell /\ Sound(mem') /\ data' \in [Slots -> Records \cup {None}]
    BY <2>1, TrackEndsWell DEF TypeInv, TypeOK
  <2> QED
    BY <2>1, <2>2, ApplyStep
<1>2. CASE ~EnforceBatchFails(mem, op.todo)
  <2>1. /\ n \in Nat /\ n >= 1 /\ mem.cursor \in Nat \ {0} /\ mem.cursor + n <= MaxSlots + 1
        /\ \A i \in 1..n : op.todo[i].id \in Ids /\ op.todo[i].doc \in Docs
        /\ op.todo # <<>> /\ \A i \in DOMAIN op.todo : op.todo[i].kind # "Delete"
    BY FirstWrite, StoredWrites DEF ApplyInsertBatch, TypeInv, TypeOK, OpShape, Storing, Mem
  <2>2. /\ data' = [s \in Slots |->
                      IF \E i \in 1..n : s = mem.cursor + i - 1
                      THEN Record(op.todo[s - mem.cursor + 1].id,
                                  op.todo[s - mem.cursor + 1].doc)
                      ELSE data[s]]
        /\ mem' = Repointed(mem, index, mem.cursor + n)
        /\ TrackOperation("vec") /\ ApplyFrame
    BY <1>2 DEF ApplyInsertBatch
  <2>3. \A id \in Ids : (\E i \in 1..n : op.todo[i].id = id) =>
                          at(id) \in 1..n /\ op.todo[at(id)].id = id
    OBVIOUS
  <2> HIDE DEF n, at
  <2>4. data' \in [Slots -> Records \cup {None}]
    <3>1. \A s \in Slots, i \in 1..n : s = mem.cursor + i - 1 => s - mem.cursor + 1 = i
      BY <2>1 DEF Slots
    <3>2. \A s \in Slots : (\E i \in 1..n : s = mem.cursor + i - 1) =>
            Record(op.todo[s - mem.cursor + 1].id, op.todo[s - mem.cursor + 1].doc) \in Records
      BY <2>1, <3>1 DEF Record, Records
    <3> QED
      BY <2>2, <3>2 DEF TypeInv, TypeOK
  <2>5. index \in [Ids -> Slots \cup {None}]
    BY <2>1, <2>3, ConstantsAssumption DEF TypeInv, Sound, Mem, Slots
  <2>6. Injective(index) /\ Below(index, mem.cursor + n)
    <3>1. \A id \in Live(index) :
             \/ index[id] = mem.cursor + at(id) - 1 /\ at(id) \in 1..n /\ op.todo[at(id)].id = id
             \/ index[id] = mem.index[id] /\ id \in Live(mem.index) /\ index[id] < mem.cursor
                  /\ index[id] \in Nat
      BY <2>3, NoneFacts DEF TypeInv, Sound, Mem, Live, Below
    <3> HIDE DEF index
    <3>2. \A a, b \in Live(index) : index[a] = index[b] => a = b
      BY <2>1, <3>1 DEF TypeInv, Sound, Injective
    <3>3. \A id \in Live(index) : index[id] < mem.cursor + n
      BY <2>1, <3>1
    <3> QED
      BY <3>2, <3>3 DEF Injective, Below
  <2> HIDE DEF index
  <2>7. Sound(mem')
    <3>1. mem' \in Mem /\ mem'.index = index /\ mem'.cursor = mem.cursor + n
      <4>1. mem \in Mem /\ mem.cursor + n \in 1..(MaxSlots + 1)
        BY <2>1, ConstantsAssumption DEF TypeInv, Sound
      <4> QED
        BY <2>2, <2>5, <4>1, RepointedType
    <3> QED
      BY <3>1, <2>6 DEF Sound
  <2>8. /\ opCount' \in Nat /\ nextSeq' = nextSeq /\ checkpointed' = checkpointed
        /\ \/ pc' = "ckIndex" /\ after' = "vec"
           \/ pc' = "vec" /\ after' = after
        /\ op' = op /\ pos' = pos
    BY <2>2 DEF TypeInv, TypeOK, TrackOperation
  <2>9. TypeOK'
    <3>1. checkpointed' \in BOOLEAN
      BY <2>8 DEF TypeInv, TypeOK
    <3> QED
      BY <2>2, <2>4, <2>7, <2>8, <3>1 DEF TypeInv, TypeOK, ApplyFrame, Sound
  <2>10. OpShape' /\ Injective(fIndex)'
    BY <2>1, <2>2, <2>8 DEF TypeInv, OpShape, ApplyFrame, Injective, Live
  <2> QED
    BY <2>7, <2>9, <2>10 DEF TypeInv, Sound, Injective, Below, Live
<1> QED
  BY <1>1, <1>2

\* A new vector index and cache leave the pointers alone.
LEMMA WithVectorsSound ==
  ASSUME NEW m, Sound(m), NEW vindex \in SUBSET Ids, NEW cache \in [Ids -> Vectors \cup {None}]
  PROVE  /\ Sound(WithVectors(m, vindex, cache))
         /\ WithVectors(m, vindex, cache).index = m.index
         /\ WithVectors(m, vindex, cache).cursor = m.cursor
BY DEF WithVectors, Sound, Mem

\* insert_batch from its checkpoint on
LEMMA InsertBatchVectorsStep == TypeInv /\ InsertBatchVectors => TypeInv'
<1> SUFFICES ASSUME TypeInv, InsertBatchVectors PROVE TypeInv'
  OBVIOUS
<1> DEFINE dims == DimsAfter(mem, op.todo[1].doc.vec)
           good == {i \in DOMAIN op.todo : \A j \in 1..i : DimOf[op.todo[j].doc.vec] = dims}
           ids == {op.todo[i].id : i \in good}
           at(id) == CHOOSE i \in good : op.todo[i].id = id
           cache == [id \in Ids |-> IF id \in ids THEN op.todo[at(id)].doc.vec ELSE mem.cache[id]]
<1>1. /\ op.todo \in Seq(Writes) /\ op.todo # <<>>
      /\ \A i \in 1..Len(op.todo) : op.todo[i].id \in Ids /\ op.todo[i].doc.vec \in Vectors
  BY StoredWrites, ZenonT(40) DEF InsertBatchVectors, TypeInv, TypeOK, OpShape
<1>2. DOMAIN op.todo = 1..Len(op.todo) /\ 1 \in 1..Len(op.todo)
  BY <1>1
<1>3. mem' = WithVectors([mem EXCEPT !.dims = dims], mem.vindex \cup ids, cache)
  BY ZenonT(40) DEF InsertBatchVectors
<1>4. \A id \in ids : at(id) \in good
  OBVIOUS
<1>5. dims \in Nat /\ mem.vindex \in SUBSET Ids /\ mem.cache \in [Ids -> Vectors \cup {None}]
  BY <1>1, <1>2, DimsAfterType DEF TypeInv, TypeOK, Mem
<1>6. good \subseteq 1..Len(op.todo)
  BY <1>2
<1> HIDE DEF at, dims, good
<1>7. ids \in SUBSET Ids /\ cache \in [Ids -> Vectors \cup {None}]
  BY <1>1, <1>4, <1>5, <1>6
<1> HIDE DEF ids, cache
<1>8. Sound([mem EXCEPT !.dims = dims])
  BY <1>5, DimsSound DEF TypeInv
<1>9. Sound(mem')
  BY <1>3, <1>5, <1>7, <1>8, WithVectorsSound
<1>10. TypeOK'
  <2>1. checkpointed' \in BOOLEAN /\ pc' = "idle" /\ op' = NoOp /\ pos' = 1
    BY ZenonT(40) DEF TypeInv, TypeOK, InsertBatchVectors, ForgetOp, counters
  <2>2. UNCHANGED <<files, counters, after, crashes>>
    BY ZenonT(40) DEF InsertBatchVectors
  <2> QED
    BY <1>9, <2>1, <2>2, NoOpType DEF TypeInv, TypeOK, files, counters, Sound
<1>11. OpShape' /\ Injective(fIndex)'
  BY ZenonT(40) DEF TypeInv, OpShape, InsertBatchVectors, Injective, Live, files
<1> QED
  BY <1>9, <1>10, <1>11 DEF TypeInv, Sound, Injective, Below, Live

-----------------------------------------------------------------------------
(* The log, the checkpoint and its files.                                  *)

\* Entries made of writes are log entries.
LEMMA EntryType ==
  ASSUME NEW seq \in Nat
  PROVE  /\ \A w \in Writes : Entry(w, seq) \in WalEntry
         /\ Entry(CheckpointWrite, seq) \in WalEntry
BY DEF Entry, CheckpointWrite, Write, Writes, WalEntry

\* A write of the operation is logged.
LEMMA LogStep == TypeInv /\ Log => TypeInv'
<1> SUFFICES ASSUME TypeInv, Log PROVE TypeInv'
  OBVIOUS
<1>1. op.todo \in Seq(Writes) /\ pos \in 1..Len(op.todo) /\ nextSeq \in Nat
  BY DEF TypeInv, TypeOK, OpShape, Log
<1>2. op.todo[pos] \in Writes
  BY <1>1
<1>3. wal' \in Seq(WalEntry)
  <2>1. Entry(op.todo[pos], nextSeq) \in WalEntry
    BY <1>1, <1>2, EntryType
  <2> QED
    BY <2>1 DEF Log, TypeInv, TypeOK
<1>4. TypeOK'
  BY <1>1, <1>3 DEF TypeInv, TypeOK, Log
<1>5. OpShape'
  BY <1>1 DEF TypeInv, OpShape, Log, Storing
<1> QED
  BY <1>4, <1>5 DEF TypeInv, Log, Sound, Injective, Below, Live

\* A checkpoint begins, and the files that checkpoint and compaction write
LEMMA CheckpointStep ==
  ASSUME TypeInv,
         \/ Checkpoint \/ SaveIndex \/ SaveVectorIndex \/ SaveMetadata \/ Rotate
  PROVE  TypeInv'
<1>0. Sound(mem) /\ TypeOK
  BY DEF TypeInv
<1>1. CASE Checkpoint
  <2>1. TypeOK'
    BY <1>0, <1>1 DEF TypeOK, Checkpoint, files, counters
  <2> QED
    BY <1>1, <2>1 DEF TypeInv, OpShape, Checkpoint, files, Sound, Injective, Below, Live
<1>2. CASE SaveIndex
  <2>1. TypeOK'
    BY <1>0, <1>2 DEF TypeOK, SaveIndex, counters, Mem
  <2> QED
    BY <1>2, <2>1 DEF TypeInv, OpShape, SaveIndex, Sound, Injective, Below, Live
<1>3. CASE SaveVectorIndex
  <2>1. TypeOK'
    BY <1>0, <1>3 DEF TypeOK, SaveVectorIndex, counters, Mem
  <2> QED
    BY <1>3, <2>1 DEF TypeInv, OpShape, SaveVectorIndex, Sound, Injective, Below, Live
<1>4. CASE SaveMetadata
  <2>1. TypeOK'
    BY <1>0, <1>4 DEF TypeOK, SaveMetadata, counters, Mem
  <2> QED
    BY <1>4, <2>1 DEF TypeInv, OpShape, SaveMetadata, Sound, Injective, Below, Live
<1>6. CASE Rotate
  <2>1. TypeOK'
    BY <1>0, <1>6 DEF TypeOK, Rotate, counters
  <2> QED
    BY <1>6, <2>1 DEF TypeInv, TypeOK, OpShape, Rotate, Sound, Injective, Below, Live
<1> QED
  BY <1>1, <1>2, <1>3, <1>4, <1>6

\* The checkpoint is logged.
LEMMA LogCheckpointStep == TypeInv /\ LogCheckpoint => TypeInv'
<1> SUFFICES ASSUME TypeInv, LogCheckpoint PROVE TypeInv'
  OBVIOUS
<1>1. wal' \in Seq(WalEntry)
  <2>1. Entry(CheckpointWrite, nextSeq) \in WalEntry
    BY EntryType DEF TypeInv, TypeOK
  <2> QED
    BY <2>1 DEF LogCheckpoint, TypeInv, TypeOK
<1>2. checkpointed' \in BOOLEAN
  BY DEF LogCheckpoint
<1>3. TypeOK'
  BY <1>1, <1>2 DEF TypeInv, TypeOK, LogCheckpoint
<1>4. OpShape'
  BY DEF TypeInv, TypeOK, OpShape, LogCheckpoint
<1> QED
  BY <1>3, <1>4 DEF TypeInv, LogCheckpoint, Sound, Injective, Below, Live

\* last_checkpoint_seq is saved; it is not below zero, for an entry was logged.
LEMMA SaveWalMetaStep == TypeInv /\ SaveWalMeta => TypeInv'
<1> SUFFICES ASSUME TypeInv, SaveWalMeta PROVE TypeInv'
  OBVIOUS
<1>1. TypeOK'
  BY DEF TypeInv, TypeOK, OpShape, SaveWalMeta, counters
<1> QED
  BY <1>1 DEF TypeInv, OpShape, SaveWalMeta, Sound, Injective, Below, Live

-----------------------------------------------------------------------------
(* Compaction and rebuild_index.                                           *)

\* A collection has no more documents than the data file has slots.
LEMMA LiveBounded ==
  ASSUME NEW m, Sound(m)
  PROVE  IsFiniteSet(Live(m.index)) /\ Cardinality(Live(m.index)) \in 0..MaxSlots
<1> DEFINE f == [id \in Live(m.index) |-> m.index[id]]
<1>1. f \in Injection(Live(m.index), Slots)
  BY DEF Sound, Mem, Injective, Live, Injection, IsInjective
<1>0. MaxSlots \in Nat
  BY ConstantsAssumption
<1>2. IsFiniteSet(Slots) /\ Cardinality(Slots) = MaxSlots
  BY <1>0, FS_Interval DEF Slots
<1>3. IsFiniteSet(Live(m.index)) /\ Cardinality(Live(m.index)) <= MaxSlots
  BY <1>1, <1>2, FS_Injection
<1>4. Cardinality(Live(m.index)) \in Nat
  BY <1>3, FS_CardinalityType
<1> QED
  BY <1>0, <1>3, <1>4

\* rebuild_index
LEMMA RebuildIndexStep == TypeInv /\ RebuildIndex => TypeInv'
<1> SUFFICES ASSUME TypeInv, RebuildIndex PROVE TypeInv'
  OBVIOUS
<1>1. RebuiltCache(mem.index) \in [Ids -> Vectors \cup {None}]
  BY RebuiltCacheType DEF TypeInv, TypeOK, Mem
<1>2. Live(mem.index) \in SUBSET Ids
  BY DEF Live
<1>3. Sound(mem')
  BY <1>1, <1>2, WithVectorsSound DEF RebuildIndex, TypeInv
<1>4. TypeOK'
  BY <1>3 DEF TypeInv, TypeOK, RebuildIndex, files, counters, Sound
<1>5. OpShape' /\ Injective(fIndex)'
  BY DEF TypeInv, OpShape, RebuildIndex, Injective, Live, files
<1> QED
  BY <1>3, <1>4, <1>5 DEF TypeInv, Sound, Injective, Below, Live

\* The memory that Compact builds from a copy of the live records.
LEMMA CompactSound ==
  ASSUME TypeInv, NEW n \in 0..MaxSlots,
         NEW index \in [Ids -> (1..n) \cup {None}],
         NEW copy \in [1..n -> Records],
         \A id \in Ids : index[id] # None => copy[index[id]].id = id,
         mem' = [index |-> index, cursor |-> n + 1, vindex |-> Live(index),
                 cache |-> [id \in Ids |-> IF index[id] = None THEN None
                                           ELSE copy[index[id]].doc.vec],
                 dims |-> IF n = 0 THEN mem.dims ELSE DimsAfter(mem, copy[1].doc.vec)]
  PROVE  Sound(mem') /\ mem'.index = index /\ mem'.cursor = n + 1
<1>1. \A i \in 1..n : copy[i].doc \in Docs /\ copy[i].doc.vec \in Vectors
  BY DEF Records, Docs
<1>2. mem'.dims \in Nat \cup {None}
  <2>1. CASE n = 0
    BY <2>1 DEF TypeInv, TypeOK, Mem
  <2>2. CASE n # 0
    <3>1. DimsAfter(mem, copy[1].doc.vec) \in Nat
      BY <2>2, <1>1, DimsAfterType, ConstantsAssumption DEF TypeInv, TypeOK
    <3> QED
      BY <2>2, <3>1
  <2> QED
    BY <2>1, <2>2
<1>3. mem'.cache \in [Ids -> Vectors \cup {None}]
  BY <1>1
<1>4. mem'.index \in [Ids -> Slots \cup {None}] /\ mem'.cursor \in 1..(MaxSlots + 1)
  BY ConstantsAssumption DEF Slots
<1>5. mem'.vindex \in SUBSET Ids
  BY DEF Live
<1>6. mem' \in Mem
  BY <1>2, <1>3, <1>4, <1>5 DEF Mem
<1>7. Injective(mem'.index) /\ Below(mem'.index, mem'.cursor)
  BY ConstantsAssumption DEF Injective, Below, Live
<1> QED
  BY <1>6, <1>7 DEF Sound

\* compact: there is room for the copy since no two ids share a slot.
LEMMA CompactStep == TypeInv /\ Compact => TypeInv'
<1> SUFFICES ASSUME TypeInv, Compact PROVE TypeInv'
  OBVIOUS
<1> DEFINE n == Cardinality(Live(mem.index))
<1>1. n \in 0..MaxSlots
  BY LiveBounded DEF TypeInv
<1> HIDE DEF n
<1>2. PICK order \in [1..n -> Live(mem.index)], index \in [Ids -> (1..n) \cup {None}] :
        LET copy == [i \in 1..n |-> data[mem.index[order[i]]]]
        IN  /\ \A id \in Ids : index[id] # None => copy[index[id]].id = id
            /\ data' = [s \in Slots |-> IF s <= n THEN copy[s] ELSE None]
            /\ mem' = [index |-> index, cursor |-> n + 1, vindex |-> Live(index),
                       cache |-> [id \in Ids |-> IF index[id] = None THEN None
                                                 ELSE copy[index[id]].doc.vec],
                       dims |-> IF n = 0 THEN mem.dims ELSE DimsAfter(mem, copy[1].doc.vec)]
  BY ZenonT(40) DEF Compact, n
<1> DEFINE copy == [i \in 1..n |-> data[mem.index[order[i]]]]
<1>3. copy \in [1..n -> Records]
  <2>1. \A id \in Live(mem.index) : data[mem.index[id]] \in Records
    BY FoundType, ZenonT(40) DEF TypeInv, TypeOK, Mem, Compact, Readable, Live
  <2> QED
    BY <2>1
<1>4. data' \in [Slots -> Records \cup {None}]
  BY <1>1, <1>2, <1>3, SMTT(30) DEF Slots
<1>5. Sound(mem')
  <2> HIDE DEF copy
  <2> QED
    BY <1>1, <1>2, <1>3, CompactSound, ZenonT(40) DEF copy
<1>6. TypeOK'
  BY <1>4, <1>5, ZenonT(40) DEF TypeInv, TypeOK, Compact, counters, Sound
<1>7. OpShape' /\ Injective(fIndex)'
  BY DEF TypeInv, OpShape, Compact, Injective, Live
<1> QED
  BY <1>5, <1>6, <1>7 DEF TypeInv, Sound, Injective, Below, Live

-----------------------------------------------------------------------------
(* Death and recovery.                                                     *)

\* A step that leaves only the files, and the data file well typed.
LEMMA LoseMemoryStep ==
  ASSUME TypeInv, LoseMemory, pc' \in {"closed", "failed"},
         UNCHANGED <<fIndex, fVec, fDims, wal, walMeta>>,
         data' \in [Slots -> Records \cup {None}],
         torn' \subseteq {"index", "vecindex", "metadata", "wal"},
         crashes' \in 0..MaxCrashes
  PROVE  TypeInv'
<1>1. Sound(mem')
  BY EmptyMemSound DEF LoseMemory
<1>2. checkpointed' \in BOOLEAN
  BY DEF LoseMemory
<1>3. TypeOK'
  BY <1>1, <1>2, NoOpType DEF TypeInv, TypeOK, LoseMemory, Sound
<1>4. OpShape' /\ Injective(fIndex)'
  BY DEF TypeInv, OpShape, Injective, Live
<1> QED
  BY <1>1, <1>3, <1>4 DEF TypeInv, Sound, Injective, Below, Live

\* The process dies.
LEMMA CrashStep == TypeInv /\ Crash => TypeInv'
<1> SUFFICES ASSUME TypeInv, Crash PROVE TypeInv'
  OBVIOUS
<1>1. BeingWritten \subseteq {"index", "vecindex", "metadata", "wal"}
  BY DEF BeingWritten
<1>2. torn' \subseteq {"index", "vecindex", "metadata", "wal"}
  BY <1>1 DEF TypeInv, TypeOK, Crash
<1>3. crashes' \in 0..MaxCrashes
  BY ConstantsAssumption DEF TypeInv, TypeOK, Crash
<1>4. data' \in [Slots -> Records \cup {None}]
  BY DEF TypeInv, TypeOK, Crash
<1> QED
  BY <1>2, <1>3, <1>4, LoseMemoryStep DEF Crash

\* A collection that cannot be opened
LEMMA OpenFailsStep == TypeInv /\ OpenFails => TypeInv'
<1> SUFFICES ASSUME TypeInv, OpenFails PROVE TypeInv'
  OBVIOUS
<1>1. UNCHANGED <<files, crashes>>
  BY DEF OpenFails
<1>2. /\ data' \in [Slots -> Records \cup {None}]
      /\ torn' \subseteq {"index", "vecindex", "metadata", "wal"}
      /\ crashes' \in 0..MaxCrashes
      /\ UNCHANGED <<fIndex, fVec, fDims, wal, walMeta>>
  BY <1>1 DEF TypeInv, TypeOK, files
<1> QED
  BY <1>2, LoseMemoryStep DEF OpenFails

\* The collection as its files describe it, behind a cursor that
\* next_append_offset computes.
LEMMA LoadedSound ==
  ASSUME TypeInv, NEW s \in 1..(MaxSlots + 1), NextAppendSlot(fIndex, s)
  PROVE  Sound(Loaded(s)) /\ Loaded(s).index = fIndex /\ Loaded(s).cursor = s
<1>1. EmptyMem.cache \in [Ids -> Vectors \cup {None}]
  BY DEF EmptyMem
<1>2. Loaded(s) \in Mem /\ Loaded(s).index = fIndex /\ Loaded(s).cursor = s
  BY <1>1 DEF Loaded, Mem, TypeInv, TypeOK
<1> QED
  BY <1>2 DEF Sound, TypeInv, NextAppendSlot, Below

\* A step after which the collection is open.
LEMMA OpenedStep ==
  ASSUME TypeInv, OpenFrame, Sound(mem'), pc' \in {"idle", "replay"}
  PROVE  TypeInv'
<1>1. checkpointed' \in BOOLEAN
  BY DEF OpenFrame
<1>2. TypeOK'
  BY <1>1 DEF TypeInv, TypeOK, OpenFrame, files, Sound
<1>3. OpShape' /\ Injective(fIndex)'
  BY DEF TypeInv, OpShape, OpenFrame, files, Injective, Live
<1> QED
  BY <1>2, <1>3 DEF TypeInv, Sound, Injective, Below, Live

\* A collection opened without recovery
LEMMA OpenCleanStep == TypeInv /\ OpenClean => TypeInv'
<1> SUFFICES ASSUME TypeInv, OpenClean PROVE TypeInv'
  OBVIOUS
<1> DEFINE v == IF fVec = None THEN Live(fIndex) ELSE fVec
<1>1. PICK s \in 1..(MaxSlots + 1) :
        /\ NextAppendSlot(fIndex, s)
        /\ mem' = WithVectors(Loaded(s), v, RebuiltCache(fIndex))
  BY DEF OpenClean
<1>2. v \in SUBSET Ids
  BY DEF TypeInv, TypeOK, Live
<1>3. RebuiltCache(fIndex) \in [Ids -> Vectors \cup {None}]
  BY RebuiltCacheType DEF TypeInv, TypeOK
<1> HIDE DEF v
<1>4. Sound(mem')
  BY <1>1, <1>2, <1>3, LoadedSound, WithVectorsSound
<1> QED
  BY <1>4, OpenedStep DEF OpenClean

\* A collection opened with entries to replay
LEMMA OpenAndReplayStep == TypeInv /\ OpenAndReplay => TypeInv'
<1> SUFFICES ASSUME TypeInv, OpenAndReplay PROVE TypeInv'
  OBVIOUS
<1>1. Sound(mem')
  BY LoadedSound DEF OpenAndReplay
<1> QED
  BY <1>1, OpenedStep DEF OpenAndReplay

\* The log entry that recovery is at.
LEMMA EntryFacts ==
  ASSUME TypeInv, pc = "replay", pos <= Len(wal)
  PROVE  /\ wal[pos] \in WalEntry
         /\ wal[pos].kind # "Checkpoint" => wal[pos].id \in Ids
         /\ wal[pos].kind \in {"Insert", "Update"} => wal[pos].doc \in Docs
<1>1. wal \in Seq(WalEntry) /\ pos \in 1..Len(wal)
  BY DEF TypeInv, TypeOK
<1>2. wal[pos] \in WalEntry
  BY <1>1
<1> QED
  BY <1>2 DEF WalEntry

\* A step of recovery that goes on to the next entry.
LEMMA ReplayedStep ==
  ASSUME TypeInv, pc = "replay", Sound(mem'), data' \in [Slots -> Records \cup {None}],
         pos' = pos + 1,
         UNCHANGED <<fIndex, fVec, fDims, wal, walMeta, torn, counters, pc, op, after, crashes>>
  PROVE  TypeInv'
<1>1. TypeOK'
  BY DEF TypeInv, TypeOK, counters, Sound
<1>2. OpShape' /\ Injective(fIndex)'
  BY DEF TypeInv, OpShape, Injective, Live
<1> QED
  BY <1>1, <1>2 DEF TypeInv, Sound, Injective, Below, Live

\* Recovery passes an entry.
LEMMA ReplaySkipStep == TypeInv /\ ReplaySkip => TypeInv'
<1> SUFFICES ASSUME TypeInv, ReplaySkip PROVE TypeInv'
  OBVIOUS
<1>1. mem' = mem /\ UNCHANGED <<files, counters, pc, op, after, crashes>> /\ pos' = pos + 1
  BY DEF ReplaySkip
<1>2. Sound(mem') /\ data' \in [Slots -> Records \cup {None}]
  BY <1>1 DEF TypeInv, TypeOK, files
<1> QED
  BY <1>1, <1>2, ReplayedStep DEF ReplaySkip, files

\* Recovery replays a delete.
LEMMA ReplayDeleteStep == TypeInv /\ ReplayDelete => TypeInv'
<1> SUFFICES ASSUME TypeInv, ReplayDelete PROVE TypeInv'
  OBVIOUS
<1>1. /\ mem' = DeleteInternal(mem, wal[pos].id)
      /\ UNCHANGED <<files, counters, pc, op, after, crashes>> /\ pos' = pos + 1
  BY DEF ReplayDelete
<1>2. wal[pos].id \in Ids
  BY EntryFacts DEF ReplayDelete
<1>3. Sound(mem')
  BY <1>1, <1>2, DeleteInternalSound DEF TypeInv
<1>4. data' \in [Slots -> Records \cup {None}]
  BY <1>1 DEF TypeInv, TypeOK, files
<1> QED
  BY <1>1, <1>3, <1>4, ReplayedStep DEF ReplayDelete, files

\* Recovery replays an insert or an update, or gives up.
LEMMA ReplayInsertStep == TypeInv /\ ReplayInsert => TypeInv'
<1> SUFFICES ASSUME TypeInv, ReplayInsert PROVE TypeInv'
  OBVIOUS
<1> DEFINE e == wal[pos]
           m == IF e.kind = "Update" THEN DeleteInternal(mem, e.id) ELSE mem
<1>1. e.id \in Ids /\ e.doc \in Docs
  BY EntryFacts DEF ReplayInsert
<1>2. Sound(m) /\ m.cursor <= MaxSlots
  BY <1>1, DeleteInternalSound DEF TypeInv, ReplayInsert
<1>3. /\ data' = InsertInternalData(m, e.id, e.doc)
      /\ UNCHANGED <<fIndex, fVec, fDims, wal, walMeta, torn, crashes>>
      /\ \/ /\ mem' = InsertInternal(m, e.id, e.doc) /\ pos' = pos + 1
            /\ UNCHANGED <<counters, pc, op, after>>
         \/ pc' = "failed" /\ LoseMemory
  BY DEF ReplayInsert
<1> HIDE DEF m, e
<1>4. data' \in [Slots -> Records \cup {None}]
  BY <1>1, <1>3, AppendedType DEF InsertInternalData, TypeInv, TypeOK
<1>5. CASE pc' = "failed" /\ LoseMemory
  BY <1>3, <1>4, <1>5, LoseMemoryStep DEF TypeInv, TypeOK
<1>6. CASE /\ mem' = InsertInternal(m, e.id, e.doc) /\ pos' = pos + 1
           /\ UNCHANGED <<counters, pc, op, after>>
  <2>1. Sound(mem')
    BY <1>1, <1>2, <1>6, InsertInternalSound
  <2>2. UNCHANGED <<fIndex, fVec, fDims, wal, walMeta, torn, counters, pc, op, after, crashes>>
    BY <1>3, <1>6
  <2> QED
    BY <1>4, <1>6, <2>1, <2>2, ReplayedStep DEF ReplayInsert
<1> QED
  BY <1>3, <1>5, <1>6

\* Recovery ends.
LEMMA ReplayDoneStep == TypeInv /\ ReplayDone => TypeInv'
<1> SUFFICES ASSUME TypeInv, ReplayDone PROVE TypeInv'
  OBVIOUS
<1>1. UNCHANGED <<files, crashes>>
  BY DEF ReplayDone
<1>2. /\ data' \in [Slots -> Records \cup {None}]
      /\ torn' \subseteq {"index", "vecindex", "metadata", "wal"}
      /\ crashes' \in 0..MaxCrashes
      /\ UNCHANGED <<fIndex, fVec, fDims, wal, walMeta>>
  BY <1>1 DEF TypeInv, TypeOK, files
<1>3. CASE pc' = "failed" /\ LoseMemory
  BY <1>2, <1>3, LoseMemoryStep
<1>4. CASE /\ mem' = WithVectors(mem, mem.vindex, RebuiltCache(mem.index))
           /\ pc' = "ckIndex" /\ after' = "idle" /\ ForgetOp /\ UNCHANGED counters
  <2>1. Sound(mem')
    <3>1. RebuiltCache(mem.index) \in [Ids -> Vectors \cup {None}] /\ mem.vindex \in SUBSET Ids
      BY RebuiltCacheType DEF TypeInv, TypeOK, Mem
    <3> QED
      BY <1>4, <3>1, WithVectorsSound DEF TypeInv
  <2>2. checkpointed' \in BOOLEAN
    BY <1>4 DEF TypeInv, TypeOK, counters
  <2>3. TypeOK'
    BY <1>1, <1>4, <2>1, <2>2, NoOpType DEF TypeInv, TypeOK, ForgetOp, files, counters, Sound
  <2>4. OpShape' /\ Injective(fIndex)'
    BY <1>2, <1>4 DEF TypeInv, OpShape, Injective, Live
  <2> QED
    BY <2>1, <2>3, <2>4 DEF TypeInv, Sound, Injective, Below, Live
<1> QED
  BY <1>3, <1>4 DEF ReplayDone

-----------------------------------------------------------------------------

\* TypeInv is inductive.
LEMMA TypeInvStep == TypeInv /\ [Next]_vars => TypeInv'
<1> SUFFICES ASSUME TypeInv, [Next]_vars PROVE TypeInv'
  OBVIOUS
<1>1. CASE UNCHANGED vars
  <2>1. UNCHANGED <<files, mem, counters, pc, op, pos, after, crashes>>
    BY <1>1 DEF vars
  <2>2. TypeOK'
    BY <2>1 DEF TypeInv, TypeOK, files, counters
  <2> QED
    BY <2>1, <2>2 DEF TypeInv, OpShape, Storing, Sound, Injective, Below, Live, files, counters
<1>2. CASE StartOperation
  BY <1>2, WriteOperationStep, CheckpointStep, CompactStep, RebuildIndexStep
     DEF StartOperation
<1>3. CASE Read
  BY <1>1, <1>3 DEF Read
<1>4. CASE Continue
  BY <1>4, LogStep, ApplyInsertStep, ApplyUpdateMetadataStep, ApplyUpdateVectorStep,
     ApplyDeleteStep, ApplyInsertBatchStep, InsertBatchVectorsStep, CheckpointStep,
     LogCheckpointStep, SaveWalMetaStep, OpenFailsStep, OpenCleanStep, OpenAndReplayStep,
     ReplaySkipStep, ReplayDeleteStep, ReplayInsertStep, ReplayDoneStep
     DEF Continue
<1>5. CASE Crash
  BY <1>5, CrashStep
<1> QED
  BY <1>1, <1>2, <1>3, <1>4, <1>5 DEF Next

\* Sequence numbers, cursors, pointers and log entries stay in range whatever
\* the operations, the limits and the points at which the process dies.  The
\* invariant has to carry along that no two ids share a slot: only then is there
\* room in the data file for what compaction copies.
THEOREM TypeCorrect == Spec => []TypeOK
<1>1. Spec => []TypeInv
  BY TypeInvInit, TypeInvStep, PTL DEF Spec
<1>2. TypeInv => TypeOK
  BY DEF TypeInv
<1> QED
  BY <1>1, <1>2, PTL

-----------------------------------------------------------------------------
(* Sequence numbers.  Recovery reads a log whose numbers may lie above the *)
(* one it starts from; only its checkpoint, which ends by emptying the     *)
(* log, makes them fresh again.                                            *)

LogBelow == \A i \in DOMAIN wal : wal[i].seq < nextSeq

SequenceInv ==
  /\ TypeInv
  /\ Running => walMeta < nextSeq
  /\ Running /\ pc \notin {"replay"} \cup CheckpointPcs => LogBelow

\* A step of the running process that leaves the log and the numbers alone.
LEMMA NumbersKept ==
  ASSUME SequenceInv, TypeInv', Running, UNCHANGED <<wal, walMeta, nextSeq>>,
         pc' \in {"replay"} \cup CheckpointPcs \/ pc \notin {"replay"} \cup CheckpointPcs
  PROVE  SequenceInv'
BY DEF SequenceInv, Running, LogBelow

\* An entry appended under nextSeq.
LEMMA LogBelowAppend ==
  ASSUME TypeOK, NEW e, e.seq = nextSeq, LogBelow, wal' = Append(wal, e),
         nextSeq' = nextSeq + 1
  PROVE  LogBelow'
<1>1. wal \in Seq(WalEntry) /\ nextSeq \in Nat /\ \A i \in DOMAIN wal : wal[i].seq \in Nat
  BY DEF TypeOK, WalEntry
<1>2. /\ Len(wal') = Len(wal) + 1 /\ DOMAIN wal' = 1..(Len(wal) + 1) /\ Len(wal) \in Nat
      /\ DOMAIN wal = 1..Len(wal)
      /\ \A i \in 1..Len(wal) : wal'[i] = wal[i]
      /\ wal'[Len(wal) + 1] = e
  BY <1>1
<1>3. \A i \in DOMAIN wal' : i \in DOMAIN wal \/ i = Len(wal) + 1
  BY <1>2
<1> QED
  BY <1>1, <1>2, <1>3 DEF LogBelow

\* SequenceInv is inductive.
LEMMA SequenceInvStep == SequenceInv /\ [Next]_vars => SequenceInv'
<1> SUFFICES ASSUME SequenceInv, [Next]_vars PROVE SequenceInv'
  OBVIOUS
<1>0. /\ TypeInv /\ TypeInv' /\ TypeOK
      /\ nextSeq \in Nat /\ walMeta \in Nat /\ after \in {"idle", "vec"}
      /\ Running => walMeta < nextSeq
      /\ Running /\ pc \notin {"replay"} \cup CheckpointPcs => LogBelow
  BY TypeInvStep DEF SequenceInv, TypeInv, TypeOK
<1>1. CASE UNCHANGED vars
  BY <1>0, <1>1 DEF SequenceInv, vars, files, counters, Running, LogBelow
<1>2. CASE \/ Insert \/ InsertBatch \/ Upsert \/ UpdateMetadata \/ UpdateVector
           \/ Delete \/ DeleteBatch
  <2>1. pc = "idle" /\ pc' = "log" /\ UNCHANGED <<wal, walMeta, nextSeq>>
    BY <1>2, ZenonT(40) DEF Insert, InsertBatch, Upsert, UpdateMetadata, UpdateVector, Delete,
                DeleteBatch, Start, files, counters
  <2> QED
    BY <1>0, <2>1, NumbersKept DEF Running
<1>3. CASE \/ Checkpoint \/ Compact \/ RebuildIndex
           \/ SaveIndex \/ SaveVectorIndex \/ SaveMetadata
  <2>1. /\ Running /\ UNCHANGED <<wal, walMeta, nextSeq>>
        /\ pc' \in CheckpointPcs \/ pc \notin {"replay"} \cup CheckpointPcs
    BY <1>3, ZenonT(40) DEF Checkpoint, Compact, RebuildIndex, SaveIndex, SaveVectorIndex, SaveMetadata,
                files, counters, Running
  <2> QED
    BY <1>0, <2>1, NumbersKept
<1>4. CASE \/ ApplyInsert \/ ApplyUpdateMetadata \/ ApplyUpdateVector \/ ApplyDelete
           \/ ApplyInsertBatch \/ InsertBatchVectors
  <2>1. pc \in {"apply", "vec"} /\ UNCHANGED <<wal, walMeta, nextSeq>>
    BY <1>4, ZenonT(40) DEF ApplyInsert, ApplyUpdateMetadata, ApplyUpdateVector, ApplyDelete,
                ApplyInsertBatch, InsertBatchVectors, ApplyFrame, TrackOperation,
                ReturnError, files, counters
  <2> QED
    BY <1>0, <2>1, NumbersKept DEF Running
<1>5. CASE Log
  <2>1. LogBelow'
    BY <1>0, <1>5, LogBelowAppend DEF Log, Entry, Running
  <2> QED
    BY <1>0, <1>5, <2>1 DEF SequenceInv, Log, Running
<1>6. CASE LogCheckpoint
  BY <1>0, <1>6 DEF SequenceInv, LogCheckpoint, Running
<1>7. CASE SaveWalMeta
  BY <1>0, <1>7 DEF SequenceInv, SaveWalMeta, Running, counters
<1>8. CASE Rotate
  <2>1. LogBelow' /\ UNCHANGED <<walMeta, nextSeq>> /\ Running
    BY <1>8 DEF Rotate, LogBelow, counters, Running
  <2> QED
    BY <1>0, <2>1 DEF SequenceInv, Running
<1>9. CASE Crash \/ OpenFails
  BY <1>0, <1>9 DEF SequenceInv, Crash, OpenFails, Running
<1>10. CASE OpenClean \/ OpenAndReplay
  <2>1. nextSeq' = walMeta + 1 /\ UNCHANGED <<wal, walMeta>>
    BY <1>10 DEF OpenClean, OpenAndReplay, OpenFrame, files
  <2>2. OpenClean => LogBelow'
    <3>1. \A i \in DOMAIN wal : wal[i].seq \in Nat
      BY <1>0 DEF TypeOK, WalEntry
    <3> QED
      BY <1>0, <2>1, <3>1 DEF OpenClean, ReplayPending, LogBelow
  <2> QED
    BY <1>0, <1>10, <2>1, <2>2 DEF SequenceInv, OpenAndReplay, Running
<1>11. CASE ReplaySkip \/ ReplayDelete \/ ReplayInsert \/ ReplayDone
  <2>1. /\ Running /\ UNCHANGED <<wal, walMeta>>
        /\ \/ pc' = "failed"
           \/ pc' \in {"replay", "ckIndex"} /\ nextSeq' = nextSeq
    BY <1>11 DEF ReplaySkip, ReplayDelete, ReplayInsert, ReplayDone, Running, files, counters
  <2> QED
    BY <1>0, <2>1 DEF SequenceInv, Running
<1> QED
  BY <1>1, <1>2, <1>3, <1>4, <1>5, <1>6, <1>7, <1>8, <1>9, <1>10, <1>11
     DEF Next, StartOperation, Read, Continue

\* Writes are logged under numbers above the last checkpoint and above all that
\* the log holds, wherever the process died before: recovery never skips a
\* write, although a restart begins again from last_checkpoint_seq + 1.
THEOREM SequenceAlwaysFresh == Spec => []FreshSequence
<1>1. Init => SequenceInv
  BY TypeInvInit DEF Init, SequenceInv, Running
<1>2. Spec => []SequenceInv
  BY <1>1, SequenceInvStep, PTL DEF Spec
<1>3. SequenceInv => FreshSequence
  BY DEF SequenceInv, FreshSequence, LogBelow, Running
<1> QED
  BY <1>2, <1>3, PTL

-----------------------------------------------------------------------------
(* PointersIntact: no append overwrites a record that an offset index      *)
(* still points to, unless the process dies between compaction's rename    *)
(* and its save of the offset index.                                       *)

USE DEF Pcs, RunningPcs, CheckpointPcs, CompactPcs

\* Every pointer of index leads to a record of its own id in the data file d.
Home(d, index) == \A id \in Live(index) : d[index[id]] # None /\ d[index[id]].id = id

\* The files follow memory: their pointers lie below the append cursor except
\* while compaction has replaced the data file and not yet the offset index.
Pointers ==
  /\ Home(data, mem.index)
  /\ pc # "cpIndex" => Home(data, fIndex)
  /\ Running /\ pc # "cpIndex" => Below(fIndex, mem.cursor)

PointerInv == TypeInv /\ Pointers

\* A record appended above all pointers disturbs none of them.
LEMMA HomeAppended ==
  ASSUME NEW d \in [Slots -> Records \cup {None}], NEW index \in [Ids -> Slots \cup {None}],
         NEW c \in Slots, NEW id \in Ids, NEW doc \in Docs,
         Home(d, index), Below(index, c)
  PROVE  /\ Home([d EXCEPT ![c] = Record(id, doc)], index)
         /\ Home([d EXCEPT ![c] = Record(id, doc)], [index EXCEPT ![id] = c])
<1> DEFINE e == [d EXCEPT ![c] = Record(id, doc)]
<1>1. \A s \in Slots : s # c => e[s] = d[s]
  OBVIOUS
<1>2. e[c] = Record(id, doc) /\ e[c] # None /\ e[c].id = id
  BY NoneFacts DEF Record, Records
<1>3. \A x \in Live(index) : index[x] \in Slots /\ index[x] # c
  BY NoneFacts DEF Live, Below
<1> HIDE DEF e
<1>4. Home(e, index)
  BY <1>1, <1>3 DEF Home
<1>5. Home(e, [index EXCEPT ![id] = c])
  BY <1>1, <1>2, <1>3 DEF Home, Live
<1> QED
  BY <1>4, <1>5 DEF e

\* Forgetting pointers disturbs none of the others.
LEMMA HomeDeleted ==
  ASSUME NEW d, NEW index, NEW ids, Home(d, index)
  PROVE  Home(d, [id \in Ids |-> IF id \in ids THEN None ELSE index[id]])
BY DEF Home, Live

\* delete_internal of one id.
LEMMA HomeDeletedOne ==
  ASSUME NEW d, NEW index \in [Ids -> Slots \cup {None}], NEW x \in Ids, Home(d, index)
  PROVE  Home(d, [index EXCEPT ![x] = None])
BY DEF Home, Live

\* A step of the running process that keeps <path>.index.db and moves the
\* cursor forward only.
LEMMA PointersKept ==
  ASSUME PointerInv, pc # "cpIndex", pc' # "cpIndex", Running, fIndex' = fIndex,
         Home(data', mem'.index), Home(data', fIndex),
         mem'.cursor \in Nat, mem.cursor <= mem'.cursor
  PROVE  Pointers'
<1>1. \A id \in Live(fIndex) : fIndex[id] \in Nat /\ fIndex[id] < mem.cursor
  BY NoneFacts DEF PointerInv, Pointers, TypeInv, TypeOK, Below, Live
<1>2. mem.cursor \in Nat
  BY ConstantsAssumption DEF PointerInv, TypeInv, TypeOK, Mem
<1>3. Below(fIndex, mem'.cursor)
  BY <1>1, <1>2 DEF Below
<1> QED
  BY <1>3 DEF Pointers, Home, Below, Live

\* A step that leaves the data file, the offset indexes and the cursor alone.
LEMMA QuietStep ==
  ASSUME PointerInv, pc # "cpIndex", pc' # "cpIndex", Running,
         fIndex' = fIndex, data' = data,
         mem'.index = mem.index, mem'.cursor = mem.cursor
  PROVE  Pointers'
<1>1. mem.cursor \in Nat /\ Home(data, mem.index) /\ Home(data, fIndex)
  BY ConstantsAssumption DEF PointerInv, Pointers, TypeInv, TypeOK, Mem
<1> QED
  BY <1>1, PointersKept

\* The pointers of <path>.index.db and their place below the cursor.
LEMMA FileFacts ==
  ASSUME PointerInv, Running, pc # "cpIndex"
  PROVE  /\ fIndex \in [Ids -> Slots \cup {None}] /\ mem.index \in [Ids -> Slots \cup {None}]
         /\ data \in [Slots -> Records \cup {None}]
         /\ mem.cursor \in 1..(MaxSlots + 1) /\ mem.cursor \in Nat
         /\ Home(data, fIndex) /\ Below(fIndex, mem.cursor)
         /\ Home(data, mem.index) /\ Below(mem.index, mem.cursor)
BY ConstantsAssumption DEF PointerInv, Pointers, TypeInv, TypeOK, Sound, Mem

\* insert_internal, and with it insert, upsert and the replay of an entry: all
\* pointers stay intact whether the limits hold or not.
LEMMA InsertInternalPointers ==
  ASSUME PointerInv, Running, pc # "cpIndex",
         NEW m, Sound(m), m.cursor = mem.cursor, m.cursor <= MaxSlots, Home(data, m.index),
         NEW id \in Ids, NEW doc \in Docs
  PROVE  /\ Home(InsertInternalData(m, id, doc), fIndex)
         /\ Home(InsertInternalData(m, id, doc), InsertInternal(m, id, doc).index)
         /\ InsertInternal(m, id, doc).cursor \in Nat
         /\ mem.cursor <= InsertInternal(m, id, doc).cursor
<1>0. m.cursor \in Slots /\ m.cursor \in Nat /\ m.index \in [Ids -> Slots \cup {None}]
      /\ Below(m.index, m.cursor)
  BY ConstantsAssumption DEF Sound, Mem, Slots
<1>1. CASE EnforceSingleFails(m, doc)
  <2>1. InsertInternal(m, id, doc) = m /\ InsertInternalData(m, id, doc) = data
    BY <1>1 DEF InsertInternal, InsertInternalData
  <2>2. Home(data, fIndex)
    BY FileFacts
  <2> QED
    BY <1>0, <2>1, <2>2
<1>2. CASE ~EnforceSingleFails(m, doc)
  <2>1. /\ InsertInternal(m, id, doc).index = [m.index EXCEPT ![id] = m.cursor]
        /\ InsertInternal(m, id, doc).cursor = m.cursor + 1
        /\ InsertInternalData(m, id, doc) = [data EXCEPT ![m.cursor] = Record(id, doc)]
    BY <1>2, InsertInternalSound DEF InsertInternalData, Appended
  <2>2. Home([data EXCEPT ![m.cursor] = Record(id, doc)], fIndex)
    BY <1>0, FileFacts, HomeAppended
  <2>3. Home([data EXCEPT ![m.cursor] = Record(id, doc)], [m.index EXCEPT ![id] = m.cursor])
    BY <1>0, FileFacts, HomeAppended
  <2> QED
    BY <1>0, <2>1, <2>2, <2>3
<1> QED
  BY <1>1, <1>2

-----------------------------------------------------------------------------
(* One step per action.                                                    *)

\* Initially there are no pointers.
LEMMA PointersInit == Init => PointerInv
<1> SUFFICES ASSUME Init PROVE PointerInv
  OBVIOUS
<1>1. Live(fIndex) = {} /\ Live(mem.index) = {}
  BY DEF Init, Live, EmptyMem
<1> QED
  BY <1>1, TypeInvInit DEF PointerInv, Pointers, Home, Below

\* Steps that touch neither the data file nor a pointer.
LEMMA QuietSteps ==
  ASSUME PointerInv,
         \/ Insert \/ InsertBatch \/ Upsert \/ UpdateMetadata \/ UpdateVector
         \/ Delete \/ DeleteBatch \/ Checkpoint \/ Log
         \/ LogCheckpoint \/ SaveWalMeta \/ SaveVectorIndex \/ SaveMetadata \/ Rotate
         \/ ReplaySkip
  PROVE  Pointers'
<1>1. /\ pc \in RunningPcs /\ pc # "cpIndex" /\ pc' # "cpIndex"
      /\ fIndex' = fIndex /\ data' = data /\ mem' = mem
  <2>1. after \in {"idle", "vec"}
    BY DEF PointerInv, TypeInv, TypeOK
  <2>2. CASE \/ Insert \/ InsertBatch \/ Upsert \/ UpdateMetadata \/ UpdateVector
             \/ Delete \/ DeleteBatch
    BY <2>2 DEF Insert, InsertBatch, Upsert, UpdateMetadata, UpdateVector,
                Delete, DeleteBatch, Start, files
  <2>3. CASE Checkpoint \/ Log \/ LogCheckpoint \/ SaveWalMeta
    BY <2>3 DEF Checkpoint, Log, LogCheckpoint, SaveWalMeta, files
  <2>4. CASE SaveVectorIndex \/ SaveMetadata \/ Rotate \/ ReplaySkip
    BY <2>1, <2>4 DEF SaveVectorIndex, SaveMetadata, Rotate, ReplaySkip, files
  <2> QED
    BY <2>2, <2>3, <2>4
<1> QED
  BY <1>1, QuietStep DEF Running

\* Where control goes when an operation has been applied.
LEMMA ApplyControl ==
  ASSUME NEW next \in {"idle", "vec"}, TrackOperation(next) \/ ReturnError
  PROVE  pc' # "cpIndex"
BY DEF TrackOperation, ReturnError

\* insert and upsert
LEMMA ApplyInsertPointers == PointerInv /\ ApplyInsert => Pointers'
<1> SUFFICES ASSUME PointerInv, ApplyInsert PROVE Pointers'
  OBVIOUS
<1> DEFINE w == op.todo[1]
           m == IF w.kind = "Update" THEN DeleteInternal(mem, w.id) ELSE mem
<1>0. TypeInv /\ pc = "apply" /\ Running
  BY DEF PointerInv, ApplyInsert, Running
<1>1. w.id \in Ids /\ w.doc \in Docs /\ mem.cursor <= MaxSlots
  BY <1>0, FirstWrite DEF ApplyInsert, Storing
<1>2. Sound(m) /\ m.cursor = mem.cursor /\ Home(data, m.index)
  <2>1. Sound(mem) /\ mem.index \in [Ids -> Slots \cup {None}] /\ Home(data, mem.index)
    BY <1>0, FileFacts DEF TypeInv
  <2>2. Home(data, [mem.index EXCEPT ![w.id] = None])
    BY <1>1, <2>1, HomeDeletedOne
  <2> QED
    BY <1>1, <2>1, <2>2, DeleteInternalSound
<1>3. /\ mem' = InsertInternal(m, w.id, w.doc)
      /\ data' = InsertInternalData(m, w.id, w.doc)
      /\ TrackOperation("idle") \/ ReturnError
      /\ fIndex' = fIndex
  BY DEF ApplyInsert, ApplyFrame
<1> HIDE DEF m, w
<1>4. /\ Home(data', fIndex) /\ Home(data', mem'.index)
      /\ mem'.cursor \in Nat /\ mem.cursor <= mem'.cursor
  BY <1>0, <1>1, <1>2, <1>3, InsertInternalPointers
<1> QED
  BY <1>0, <1>3, <1>4, ApplyControl, PointersKept

\* A record appended at the cursor and pointed to.
LEMMA AppendPointers ==
  ASSUME PointerInv, Running, pc # "cpIndex", pc' # "cpIndex", fIndex' = fIndex,
         mem.cursor <= MaxSlots, NEW id \in Ids, NEW doc \in Docs,
         data' = Appended(mem, id, doc),
         mem'.index = [mem.index EXCEPT ![id] = mem.cursor], mem'.cursor = mem.cursor + 1
  PROVE  Pointers'
<1>1. mem.cursor \in Slots /\ mem.cursor \in Nat
  BY FileFacts, ConstantsAssumption DEF Slots
<1>2. Home(data', fIndex)
  BY <1>1, FileFacts, HomeAppended DEF Appended
<1>3. Home(data', mem'.index)
  <2>1. Home([data EXCEPT ![mem.cursor] = Record(id, doc)],
             [mem.index EXCEPT ![id] = mem.cursor])
    BY <1>1, FileFacts, HomeAppended
  <2> QED
    BY <2>1 DEF Appended
<1> QED
  BY <1>1, <1>2, <1>3, PointersKept

\* update_metadata
LEMMA ApplyUpdateMetadataPointers == PointerInv /\ ApplyUpdateMetadata => Pointers'
<1> SUFFICES ASSUME PointerInv, ApplyUpdateMetadata PROVE Pointers'
  OBVIOUS
<1> DEFINE w == op.todo[1]
<1>0. TypeInv /\ pc = "apply" /\ Running /\ Sound(mem)
  BY DEF PointerInv, TypeInv, ApplyUpdateMetadata, Running
<1>1. w.id \in Ids /\ w.doc \in Docs /\ mem.cursor <= MaxSlots
  BY <1>0, FirstWrite DEF ApplyUpdateMetadata, Storing
<1>2. /\ \/ mem' = mem /\ data' = data
         \/ mem' = Pointed(mem, w.id) /\ data' = Appended(mem, w.id, w.doc)
      /\ TrackOperation("idle") \/ ReturnError
      /\ fIndex' = fIndex
  BY DEF ApplyUpdateMetadata, ApplyFrame
<1> HIDE DEF w
<1>3. pc' # "cpIndex"
  BY <1>2, ApplyControl
<1>4. CASE mem' = mem /\ data' = data
  BY <1>0, <1>2, <1>3, <1>4, QuietStep
<1>5. CASE mem' = Pointed(mem, w.id) /\ data' = Appended(mem, w.id, w.doc)
  <2>1. mem'.index = [mem.index EXCEPT ![w.id] = mem.cursor] /\ mem'.cursor = mem.cursor + 1
    BY <1>0, <1>1, <1>5, PointedSound
  <2> QED
    BY <1>0, <1>1, <1>2, <1>3, <1>5, <2>1, AppendPointers
<1> QED
  BY <1>2, <1>4, <1>5

\* update_vector
LEMMA ApplyUpdateVectorPointers == PointerInv /\ ApplyUpdateVector => Pointers'
<1> SUFFICES ASSUME PointerInv, ApplyUpdateVector PROVE Pointers'
  OBVIOUS
<1> DEFINE w == op.todo[1]
           m == [mem EXCEPT !.dims = DimsAfter(mem, w.doc.vec)]
<1>0. TypeInv /\ pc = "apply" /\ Running /\ Sound(mem) /\ mem \in Mem
  BY DEF PointerInv, TypeInv, ApplyUpdateVector, Running, Sound
<1>1. w.id \in Ids /\ w.doc \in Docs /\ w.doc.vec \in Vectors /\ mem.cursor <= MaxSlots
  BY <1>0, FirstWrite DEF ApplyUpdateVector, Storing
<1>2. Sound(m) /\ m.index = mem.index /\ m.cursor = mem.cursor
  BY <1>0, <1>1, DimsAfterType, DimsSound
<1>3. /\ \/ mem' \in {m, mem} /\ data' = data
         \/ /\ mem' = Indexed(Pointed(m, w.id), w.id, w.doc.vec)
            /\ data' = Appended(mem, w.id, w.doc)
      /\ TrackOperation("idle") \/ ReturnError
      /\ fIndex' = fIndex
  BY DEF ApplyUpdateVector, ApplyFrame
<1> HIDE DEF w, m
<1>4. pc' # "cpIndex"
  BY <1>3, ApplyControl
<1>5. CASE mem' \in {m, mem} /\ data' = data
  <2>1. mem'.index = mem.index /\ mem'.cursor = mem.cursor
    BY <1>2, <1>5
  <2> QED
    BY <1>0, <1>3, <1>4, <1>5, <2>1, QuietStep
<1>6. CASE /\ mem' = Indexed(Pointed(m, w.id), w.id, w.doc.vec)
           /\ data' = Appended(mem, w.id, w.doc)
  <2>1. /\ Sound(Pointed(m, w.id))
        /\ Pointed(m, w.id).index = [mem.index EXCEPT ![w.id] = mem.cursor]
        /\ Pointed(m, w.id).cursor = mem.cursor + 1
    BY <1>1, <1>2, PointedSound
  <2>2. mem'.index = Pointed(m, w.id).index /\ mem'.cursor = Pointed(m, w.id).cursor
    BY <1>1, <1>6, <2>1, IndexedSound
  <2> QED
    BY <1>0, <1>1, <1>3, <1>4, <1>6, <2>1, <2>2, AppendPointers
<1> QED
  BY <1>3, <1>5, <1>6

\* delete and delete_batch
LEMMA ApplyDeletePointers == PointerInv /\ ApplyDelete => Pointers'
<1> SUFFICES ASSUME PointerInv, ApplyDelete PROVE Pointers'
  OBVIOUS
<1> DEFINE ids == {op.todo[i].id : i \in DOMAIN op.todo}
<1>1. /\ Running /\ pc # "cpIndex" /\ Sound(mem) /\ fIndex' = fIndex /\ data' = data
      /\ TrackOperation("idle") /\ mem' = DeleteAll(mem, ids)
  BY DEF PointerInv, TypeInv, ApplyDelete, ApplyFrame, Running
<1> HIDE DEF ids
<1>2. /\ mem'.index = [id \in Ids |-> IF id \in ids THEN None ELSE mem.index[id]]
      /\ mem'.cursor = mem.cursor
  BY <1>1, DeleteAllSound
<1>3. Home(data', mem'.index) /\ Home(data', fIndex) /\ mem.cursor \in Nat
  BY <1>1, <1>2, FileFacts, HomeDeleted
<1> QED
  BY <1>1, <1>2, <1>3, ApplyControl, PointersKept

\* insert_batch: the new records fill the slots from the cursor on.
LEMMA ApplyInsertBatchPointers == PointerInv /\ ApplyInsertBatch => Pointers'
<1> SUFFICES ASSUME PointerInv, ApplyInsertBatch PROVE Pointers'
  OBVIOUS
<1> DEFINE n == Len(op.todo)
           at(id) == CHOOSE i \in 1..n : op.todo[i].id = id
           index == [id \in Ids |-> IF \E i \in 1..n : op.todo[i].id = id
                                    THEN mem.cursor + at(id) - 1 ELSE mem.index[id]]
<1>0. TypeInv /\ pc = "apply" /\ Running /\ fIndex' = fIndex /\ mem \in Mem
  BY DEF PointerInv, TypeInv, TypeOK, ApplyInsertBatch, ApplyFrame, Running
<1>1. CASE EnforceBatchFails(mem, op.todo)
  <2>1. ReturnError /\ mem' = mem /\ data' = data
    BY <1>1 DEF ApplyInsertBatch
  <2> QED
    BY <1>0, <2>1, ApplyControl, QuietStep
<1>2. CASE ~EnforceBatchFails(mem, op.todo)
  <2>1. /\ n \in Nat /\ n >= 1 /\ mem.cursor \in Nat \ {0} /\ mem.cursor + n <= MaxSlots + 1
        /\ \A i \in 1..n : op.todo[i].id \in Ids /\ op.todo[i].doc \in Docs
    BY <1>0, FirstWrite, StoredWrites
       DEF ApplyInsertBatch, TypeInv, TypeOK, OpShape, Storing, Mem
  <2>2. /\ data' = [s \in Slots |->
                      IF \E i \in 1..n : s = mem.cursor + i - 1
                      THEN Record(op.todo[s - mem.cursor + 1].id,
                                  op.todo[s - mem.cursor + 1].doc)
                      ELSE data[s]]
        /\ mem' = Repointed(mem, index, mem.cursor + n)
        /\ TrackOperation("vec")
    BY <1>2 DEF ApplyInsertBatch
  <2>3. \A id \in Ids : (\E i \in 1..n : op.todo[i].id = id) =>
                          at(id) \in 1..n /\ op.todo[at(id)].id = id
    OBVIOUS
  <2> HIDE DEF n, at
  <2>4. mem'.index = index /\ mem'.cursor = mem.cursor + n
    BY <1>0, <2>2 DEF Repointed, Mem
  <2>5. \A s \in Slots : s < mem.cursor => data'[s] = data[s]
    BY <2>1, <2>2 DEF Slots
  <2>6. \A i \in 1..n : /\ data'[mem.cursor + i - 1] # None
                        /\ data'[mem.cursor + i - 1].id = op.todo[i].id
    <3> SUFFICES ASSUME NEW i \in 1..n
                 PROVE  /\ data'[mem.cursor + i - 1] # None
                        /\ data'[mem.cursor + i - 1].id = op.todo[i].id
      OBVIOUS
    <3>1. mem.cursor + i - 1 \in Slots /\ (mem.cursor + i - 1) - mem.cursor + 1 = i
      BY <2>1, ConstantsAssumption DEF Slots
    <3>2. data'[mem.cursor + i - 1] = Record(op.todo[i].id, op.todo[i].doc)
      BY <2>2, <3>1
    <3> QED
      BY <2>1, <3>2, NoneFacts DEF Record, Records
  <2>7. Home(data', fIndex)
    <3>1. \A id \in Live(fIndex) : fIndex[id] \in Slots /\ fIndex[id] < mem.cursor
      BY <1>0, FileFacts DEF Live, Below
    <3> QED
      BY <1>0, <2>5, <3>1, FileFacts DEF Home
  <2>8. Home(data', index)
    <3>1. \A id \in Live(index) :
             \/ index[id] = mem.cursor + at(id) - 1 /\ at(id) \in 1..n /\ op.todo[at(id)].id = id
             \/ /\ index[id] = mem.index[id] /\ id \in Live(mem.index)
                /\ index[id] < mem.cursor /\ index[id] \in Slots
      BY <1>0, <2>3, FileFacts DEF Live, Below
    <3> HIDE DEF index
    <3>2. Home(data, mem.index)
      BY <1>0, FileFacts
    <3> QED
      BY <2>5, <2>6, <3>1, <3>2 DEF Home
  <2> QED
    BY <1>0, <2>1, <2>2, <2>4, <2>7, <2>8, ApplyControl, PointersKept, SMTT(30)
<1> QED
  BY <1>1, <1>2

\* insert_batch's last loop, and rebuild_index: only vectors change.
LEMMA VectorsPointers ==
  ASSUME PointerInv, InsertBatchVectors \/ RebuildIndex
  PROVE  Pointers'
<1>0. mem \in Mem
  BY DEF PointerInv, TypeInv, TypeOK
<1>1. /\ Running /\ pc # "cpIndex" /\ pc' # "cpIndex" /\ fIndex' = fIndex /\ data' = data
  BY ZenonT(40) DEF InsertBatchVectors, RebuildIndex, Running, files
<1>2. mem'.index = mem.index /\ mem'.cursor = mem.cursor
  BY <1>0, ZenonT(40) DEF InsertBatchVectors, RebuildIndex, WithVectors, Mem
<1> QED
  BY <1>1, <1>2, QuietStep

\* The saved offset index is the one in memory.
LEMMA SaveIndexPointers == PointerInv /\ SaveIndex => Pointers'
<1> SUFFICES ASSUME PointerInv, SaveIndex PROVE Pointers'
  OBVIOUS
<1>1. fIndex' = mem.index /\ data' = data /\ mem' = mem
  BY DEF SaveIndex
<1>2. Home(data, mem.index) /\ Below(mem.index, mem.cursor)
  BY DEF PointerInv, Pointers, TypeInv, Sound
<1> QED
  BY <1>1, <1>2 DEF Pointers, Home, Below, Live

\* The new data file holds what the new offset index points to.
LEMMA CompactPointers == PointerInv /\ Compact => Pointers'
<1> SUFFICES ASSUME PointerInv, Compact PROVE Pointers'
  OBVIOUS
<1> DEFINE n == Cardinality(Live(mem.index))
<1>1. n \in 0..MaxSlots /\ TypeInv
  BY LiveBounded DEF PointerInv, TypeInv
<1> HIDE DEF n
<1>2. PICK order \in [1..n -> Live(mem.index)], index \in [Ids -> (1..n) \cup {None}] :
        LET copy == [i \in 1..n |-> data[mem.index[order[i]]]]
        IN  /\ \A id \in Ids : index[id] # None => copy[index[id]].id = id
            /\ data' = [s \in Slots |-> IF s <= n THEN copy[s] ELSE None]
            /\ mem' = [index |-> index, cursor |-> n + 1, vindex |-> Live(index),
                       cache |-> [id \in Ids |-> IF index[id] = None THEN None
                                                 ELSE copy[index[id]].doc.vec],
                       dims |-> IF n = 0 THEN mem.dims ELSE DimsAfter(mem, copy[1].doc.vec)]
  BY DEF Compact, n
<1> DEFINE copy == [i \in 1..n |-> data[mem.index[order[i]]]]
<1>3. \A i \in 1..n : copy[i] # None /\ data'[i] = copy[i]
  <2>1. \A id \in Live(mem.index) : data[mem.index[id]] # None
    BY DEF Compact, Readable, Decodes
  <2>2. \A i \in 1..n : i \in Slots /\ i <= n
    BY <1>1, ConstantsAssumption DEF Slots
  <2> QED
    BY <1>2, <2>1, <2>2
<1>4. mem'.index = index /\ \A id \in Ids : index[id] # None => copy[index[id]].id = id
  BY <1>2
<1> HIDE DEF copy
<1>5. Home(data', index)
  <2>1. \A id \in Live(index) : index[id] \in 1..n /\ index[id] # None /\ id \in Ids
    BY DEF Live
  <2> QED
    BY <1>3, <1>4, <2>1 DEF Home
<1>6. pc' = "cpIndex"
  BY DEF Compact
<1> QED
  BY <1>4, <1>5, <1>6 DEF Pointers, Home, Live

\* A step that leaves only the files: their pointers lead home.
LEMMA LoseMemoryPointers ==
  ASSUME PointerInv, LoseMemory, pc' \in {"closed", "failed"}, fIndex' = fIndex,
         Home(data', fIndex)
  PROVE  Pointers'
<1>1. Live(mem'.index) = {}
  BY DEF LoseMemory, EmptyMem, Live
<1> QED
  BY <1>1 DEF Pointers, Home, Running, Live

\* The process dies anywhere but between the rename and the save of the index.
LEMMA CrashPointers ==
  ASSUME PointerInv, Crash, "cpIndex" \notin CrashPoints
  PROVE  Pointers'
<1>1. Home(data, fIndex) /\ fIndex' = fIndex /\ data' = data
  BY DEF PointerInv, Pointers, Crash
<1> QED
  BY <1>1, LoseMemoryPointers DEF Crash

\* Opening a collection puts the cursor behind all pointers of its index.
LEMMA OpenPointers ==
  ASSUME PointerInv, OpenFails \/ OpenClean \/ OpenAndReplay
  PROVE  Pointers'
<1> DEFINE v == IF fVec = None THEN Live(fIndex) ELSE fVec
<1>0. TypeInv /\ Home(data, fIndex) /\ fIndex' = fIndex /\ data' = data
  BY DEF PointerInv, Pointers, OpenFails, OpenClean, OpenAndReplay, OpenFrame, files
<1>1. CASE OpenFails
  BY <1>0, <1>1, LoseMemoryPointers DEF OpenFails
<1>2. CASE OpenClean \/ OpenAndReplay
  <2>1. PICK s \in 1..(MaxSlots + 1) :
          /\ NextAppendSlot(fIndex, s)
          /\ \/ mem' = Loaded(s)
             \/ mem' = WithVectors(Loaded(s), v, RebuiltCache(fIndex))
    BY <1>2 DEF OpenClean, OpenAndReplay
  <2>2. mem'.index = fIndex /\ mem'.cursor = s
    <3>1. Loaded(s).index = fIndex /\ Loaded(s).cursor = s
      BY DEF Loaded
    <3>2. /\ v \in SUBSET Ids
          /\ RebuiltCache(fIndex) \in [Ids -> Vectors \cup {None}]
      BY <1>0, RebuiltCacheType DEF TypeInv, TypeOK, Live
    <3>3. Sound(Loaded(s))
      BY <1>0, <2>1, LoadedSound
    <3> HIDE DEF v
    <3> QED
      BY <2>1, <3>1, <3>2, <3>3, WithVectorsSound
  <2>3. pc' # "cpIndex" /\ Below(fIndex, s)
    BY <1>2, <2>1 DEF OpenClean, OpenAndReplay, NextAppendSlot, Below
  <2> QED
    BY <1>0, <2>2, <2>3 DEF Pointers, Home, Below, Live
<1> QED
  BY <1>1, <1>2

\* The replay of a delete
LEMMA ReplayDeletePointers == PointerInv /\ ReplayDelete => Pointers'
<1> SUFFICES ASSUME PointerInv, ReplayDelete PROVE Pointers'
  OBVIOUS
<1>1. /\ TypeInv /\ Running /\ pc = "replay" /\ pc' = pc /\ fIndex' = fIndex /\ data' = data
      /\ Sound(mem) /\ mem' = DeleteInternal(mem, wal[pos].id)
  BY DEF PointerInv, TypeInv, ReplayDelete, Running, files
<1>2. wal[pos].id \in Ids
  BY <1>1, EntryFacts DEF ReplayDelete
<1>3. mem'.index = [mem.index EXCEPT ![wal[pos].id] = None] /\ mem'.cursor = mem.cursor
  BY <1>1, <1>2, DeleteInternalSound
<1>4. Home(data', mem'.index) /\ Home(data', fIndex) /\ mem.cursor \in Nat
  <2>1. Home(data, [mem.index EXCEPT ![wal[pos].id] = None])
    BY <1>1, <1>2, FileFacts, HomeDeletedOne
  <2> QED
    BY <1>1, <1>3, <2>1, FileFacts
<1> QED
  BY <1>1, <1>3, <1>4, PointersKept

\* The replay of an insert or an update, also when it ends the recovery
LEMMA ReplayInsertPointers == PointerInv /\ ReplayInsert => Pointers'
<1> SUFFICES ASSUME PointerInv, ReplayInsert PROVE Pointers'
  OBVIOUS
<1> DEFINE e == wal[pos]
           m == IF e.kind = "Update" THEN DeleteInternal(mem, e.id) ELSE mem
<1>0. TypeInv /\ pc = "replay" /\ Running /\ fIndex' = fIndex /\ mem.cursor <= MaxSlots
  BY DEF PointerInv, ReplayInsert, Running
<1>1. e.id \in Ids /\ e.doc \in Docs
  BY <1>0, EntryFacts DEF ReplayInsert
<1>2. Sound(m) /\ m.cursor = mem.cursor /\ Home(data, m.index)
  <2>1. Sound(mem) /\ mem.index \in [Ids -> Slots \cup {None}] /\ Home(data, mem.index)
    BY <1>0, FileFacts DEF TypeInv
  <2>2. Home(data, [mem.index EXCEPT ![e.id] = None])
    BY <1>1, <2>1, HomeDeletedOne
  <2> QED
    BY <1>1, <2>1, <2>2, DeleteInternalSound
<1>3. /\ data' = InsertInternalData(m, e.id, e.doc)
      /\ \/ mem' = InsertInternal(m, e.id, e.doc) /\ pc' = pc
         \/ pc' = "failed" /\ LoseMemory
  BY DEF ReplayInsert
<1> HIDE DEF m, e
<1>4. Home(data', fIndex)
  BY <1>0, <1>1, <1>2, <1>3, InsertInternalPointers
<1>5. CASE pc' = "failed" /\ LoseMemory
  BY <1>0, <1>4, <1>5, LoseMemoryPointers
<1>6. CASE mem' = InsertInternal(m, e.id, e.doc) /\ pc' = pc
  <2>1. Home(data', mem'.index) /\ mem'.cursor \in Nat /\ mem.cursor <= mem'.cursor
    BY <1>0, <1>1, <1>2, <1>3, <1>6, InsertInternalPointers
  <2> QED
    BY <1>0, <1>4, <1>6, <2>1, PointersKept
<1> QED
  BY <1>3, <1>5, <1>6

\* The end of recovery
LEMMA ReplayDonePointers == PointerInv /\ ReplayDone => Pointers'
<1> SUFFICES ASSUME PointerInv, ReplayDone PROVE Pointers'
  OBVIOUS
<1>1. /\ mem \in Mem /\ Running /\ pc = "replay" /\ fIndex' = fIndex /\ data' = data
      /\ Home(data, fIndex)
  BY DEF PointerInv, TypeInv, TypeOK, Pointers, ReplayDone, Running, files
<1>2. CASE Readable(mem.index)
  <2>1. mem'.index = mem.index /\ mem'.cursor = mem.cursor /\ pc' = "ckIndex"
    BY <1>1, <1>2 DEF ReplayDone, WithVectors, Mem
  <2> QED
    BY <1>1, <2>1, QuietStep
<1>3. CASE ~Readable(mem.index)
  BY <1>1, <1>3, LoseMemoryPointers DEF ReplayDone
<1> QED
  BY <1>2, <1>3

-----------------------------------------------------------------------------

\* PointerInv is inductive where the process survives compaction's rename.
LEMMA PointerInvStep ==
  ASSUME "cpIndex" \notin CrashPoints
  PROVE  PointerInv /\ [Next]_vars => PointerInv'
<1> SUFFICES ASSUME PointerInv, [Next]_vars PROVE Pointers'
  BY TypeInvStep DEF PointerInv
<1>1. CASE UNCHANGED vars
  BY <1>1 DEF PointerInv, Pointers, vars, files, Home, Below, Live, Running
<1>2. CASE StartOperation
  BY <1>2, QuietSteps, VectorsPointers, CompactPointers DEF StartOperation
<1>3. CASE Read
  BY <1>1, <1>3 DEF Read
<1>4. CASE Continue
  BY <1>4, QuietSteps, VectorsPointers, ApplyInsertPointers, ApplyUpdateMetadataPointers,
     ApplyUpdateVectorPointers, ApplyDeletePointers, ApplyInsertBatchPointers,
     SaveIndexPointers, OpenPointers, ReplayDeletePointers, ReplayInsertPointers,
     ReplayDonePointers
     DEF Continue
<1>5. CASE Crash
  BY <1>5, CrashPointers
<1> QED
  BY <1>1, <1>2, <1>3, <1>4, <1>5 DEF Next

\* Whatever the operations, limits, torn files and deaths of the process: no
\* append overwrites a record that the offset index in memory or the one in
\* <path>.index.db still points to.  The one point at which the process may not
\* die is between compaction's rename and its save_index.
THEOREM PointersAlwaysIntact ==
  ASSUME "cpIndex" \notin CrashPoints
  PROVE  Spec => []PointersIntact
<1>1. Spec => []PointerInv
  BY PointersInit, PointerInvStep, PTL DEF Spec
<1>2. PointerInv => PointersIntact
  BY DEF PointerInv, Pointers, TypeInv, Sound, PointersIntact, LeadsHome, Home, Below
<1> QED
  BY <1>1, <1>2, PTL

=============================================================================
