----------------------------- MODULE Collection -----------------------------
(***************************************************************************)
(* One piramid collection: the record store, the offset index, the flat    *)
(* vector index, the vector cache, the write-ahead log, the checkpoint,    *)
(* compaction, and the recovery that runs when the collection is opened.   *)
(*                                                                         *)
(* A collection is only changed under its write lock, so operations do not *)
(* interleave with one another; what interleaves with them is the death of *)
(* the process.  Every write to a file is therefore a step of its own, and *)
(* Crash may happen between any two of them.  The changes to memory made   *)
(* between two file writes are part of the step of the write they follow.  *)
(*                                                                         *)
(* A record takes one slot of the data file; slots are numbered from 1.    *)
(***************************************************************************)
EXTENDS Integers, Sequences, FiniteSets

CONSTANTS
  Ids,                  \* document ids
  Vectors, Metas,       \* vectors and metadata of documents; texts are left out
  DimOf,                \* the number of dimensions of a vector
  None,                 \* Option::None
  MaxVectors,           \* limits.max_vectors, or None
  MaxBytes,             \* limits.max_bytes in slots, or None
  Oversized,            \* vectors whose record is longer than limits.max_vector_bytes
  CheckpointFrequency,  \* wal.checkpoint_frequency
  CheckpointInterval,   \* TRUE: wal.checkpoint_interval_secs is set
  Ops,                  \* the operations the clients issue
  CrashPoints,          \* the control points at which the process may die
  TornWrites,           \* TRUE: it may die inside a file write, too
  MaxSeq,               \* bound: no operation starts beyond this sequence number
  MaxSlots,             \* bound: slots of the data file
  MaxCrashes            \* bound: deaths of the process

Docs == [vec : Vectors, meta : Metas]
Slots == 1..MaxSlots

\* What a slot of the data file holds: a bincode-encoded Document.
Records == [id : Ids, doc : Docs]
Record(id, doc) == [id |-> id, doc |-> doc]

\* A write an operation logs: WalEntry::Insert, Update or Delete without its seq.
Write(kind, id, doc) == [kind |-> kind, id |-> id, doc |-> doc]

Writes == [kind : {"Insert", "Update"}, id : Ids, doc : Docs]
            \cup [kind : {"Delete"}, id : Ids, doc : {None}]

\* An entry of the log.
Entry(w, seq) == [kind |-> w.kind, id |-> w.id, doc |-> w.doc, seq |-> seq]
CheckpointWrite == Write("Checkpoint", None, None)

WalEntry == [kind : {"Insert", "Update"}, id : Ids, doc : Docs, seq : Nat]
              \cup [kind : {"Delete"}, id : Ids, doc : {None}, seq : Nat]
              \cup [kind : {"Checkpoint"}, id : {None}, doc : {None}, seq : Nat]

OpNames == {"insert", "insert_batch", "upsert", "update_metadata", "update_vector",
            "delete", "delete_batch", "checkpoint", "compact", "rebuild_index"}

CheckpointPcs == {"ckIndex", "ckVec", "ckMeta", "ckWal", "ckWalMeta", "ckRotate"}
CompactPcs == {"cpIndex", "cpVec", "cpMeta", "cpRotate"}
RunningPcs == {"replay", "idle", "log", "apply", "vec", "rebuild"}
                \cup CheckpointPcs \cup CompactPcs
Pcs == RunningPcs \cup {"closed", "failed"}

ASSUME ConstantsAssumption ==
  /\ None \notin Nat /\ None \notin Docs /\ None \notin Ids /\ None \notin Records
  /\ \A ids \in SUBSET Ids : ids # None
  /\ DimOf \in [Vectors -> Nat]
  /\ MaxVectors \in Nat \cup {None} /\ MaxBytes \in Nat \cup {None}
  /\ Oversized \subseteq Vectors
  /\ CheckpointFrequency \in Nat
  /\ CheckpointInterval \in BOOLEAN /\ TornWrites \in BOOLEAN
  /\ Ops \subseteq OpNames /\ CrashPoints \subseteq RunningPcs
  /\ MaxSeq \in Nat /\ MaxSlots \in Nat \ {0} /\ MaxCrashes \in Nat

VARIABLES
  \* files
  data,       \* <path>: the record in each slot
  fIndex,     \* <path>.index.db: id -> slot
  fVec,       \* <path>.vecindex.db: the ids the vector index holds, None if missing
  fDims,      \* <path>.metadata.db: its dimensions field, None if the file is missing
  wal,        \* <path>.wal.db: the entries after the header
  walMeta,    \* <path>.wal.meta: last_checkpoint_seq, 0 if the file is missing
  torn,       \* the files left half-written by a death of the process
  \* memory
  mem,        \* the fields of Collection, see Mem
  nextSeq,    \* Wal::next_seq
  opCount,    \* CheckpointManager::operation_count
  checkpointed, \* CheckpointManager::last_checkpoint_ts is Some
  \* control
  pc,         \* what the process does next
  op,         \* the operation in progress: its name and the writes it logs
  pos,        \* position in op.todo, or in wal while replaying
  after,      \* where control goes when a checkpoint is complete
  crashes     \* deaths of the process so far

files == <<data, fIndex, fVec, fDims, wal, walMeta, torn>>
counters == <<nextSeq, opCount, checkpointed>>
vars == <<files, mem, counters, pc, op, pos, after, crashes>>

-----------------------------------------------------------------------------
(* The state of Collection.                                                *)

Mem == [index : [Ids -> Slots \cup {None}],     \* offset index
        cursor : 1..(MaxSlots + 1),             \* RecordStore::append_cursor
        vindex : SUBSET Ids,                    \* FlatIndex::vector_ids
        cache : [Ids -> Vectors \cup {None}],   \* CacheManager::vectors
        dims : Nat \cup {None}]                 \* CollectionMetadata::dimensions

EmptyMem == [index |-> [id \in Ids |-> None], cursor |-> 1, vindex |-> {},
             cache |-> [id \in Ids |-> None], dims |-> None]

NoOp == [name |-> "checkpoint", todo |-> <<>>]

Live(index) == {id \in Ids : index[id] # None}

\* RecordStore::read_document: a slot that holds no record does not decode.
Decodes(index, id) == index[id] # None /\ data[index[id]] # None

Readable(index) == \A id \in Live(index) : Decodes(index, id)

\* Collection::get: the record's own id is not compared with the one asked for.
Get(index, id) == IF Decodes(index, id) THEN data[index[id]].doc ELSE None

\* Fault: the offset of the last record, without its length.
NextAppendSlotAtLast(index, s) ==
  IF Live(index) = {} THEN s = 1
  ELSE (\A id \in Live(index) : index[id] <= s) /\ \E id \in Live(index) : index[id] = s

\* next_append_offset: RecordStore::open puts the cursor right behind the last
\* record that the index reaches, over whatever the file holds there.
NextAppendSlot(index, s) ==
  /\ \A id \in Live(index) : index[id] < s
  /\ s = 1 \/ \E id \in Live(index) : index[id] = s - 1

\* cache_maintenance::rebuild
RebuiltCache(index) ==
  [id \in Ids |-> IF Decodes(index, id) THEN data[index[id]].doc.vec ELSE None]

-----------------------------------------------------------------------------
(* Limits and the internal operations, as functions of the memory m.       *)

\* Fault: one document too many.
EnforceSingleFailsLate(m, doc) ==
  \/ MaxVectors # None /\ Cardinality(Live(m.index)) > MaxVectors
  \/ MaxBytes # None /\ m.cursor - 1 + 1 > MaxBytes
  \/ doc.vec \in Oversized

\* limits::enforce_single returns an error.
EnforceSingleFails(m, doc) ==
  \/ MaxVectors # None /\ Cardinality(Live(m.index)) >= MaxVectors
  \/ MaxBytes # None /\ m.cursor - 1 + 1 > MaxBytes
  \/ doc.vec \in Oversized

\* limits::enforce_batch returns an error.
EnforceBatchFails(m, todo) ==
  \/ MaxVectors # None /\ Cardinality(Live(m.index)) + Len(todo) > MaxVectors
  \/ MaxBytes # None /\ m.cursor - 1 + Len(todo) > MaxBytes
  \/ \E i \in DOMAIN todo : todo[i].doc.vec \in Oversized

\* CollectionMetadata::set_dimensions, then the dimensions that are in force.
DimsAfter(m, vec) == IF m.dims = None THEN DimOf[vec] ELSE m.dims

\* Fault: the record is written behind the offset that append returns.
AppendedBehind(m, id, doc) == [data EXCEPT ![m.cursor + 1] = Record(id, doc)]

\* RecordStore::append
Appended(m, id, doc) == [data EXCEPT ![m.cursor] = Record(id, doc)]

\* Fault: the cursor stays.
PointedCursorStays(m, id) == [m EXCEPT !.index[id] = m.cursor]

\* The pointer that append returns, put into the offset index.
Pointed(m, id) == [m EXCEPT !.index[id] = m.cursor, !.cursor = m.cursor + 1]

\* The pointers that append_batch returns, put into the offset index.
Repointed(m, index, cursor) == [m EXCEPT !.index = index, !.cursor = cursor]

\* Fault: the vector is not put into the cache.
IndexedUncached(m, id, vec) == [m EXCEPT !.vindex = m.vindex \cup {id}]

\* put_vector and VectorIndex::insert
Indexed(m, id, vec) ==
  [m EXCEPT !.vindex = m.vindex \cup {id}, !.cache[id] = vec]

\* insert_internal stops at a limit before it touches anything, but at a wrong
\* number of dimensions only after the record is stored and pointed to.
InsertInternal(m, id, doc) ==
  IF EnforceSingleFails(m, doc) THEN m
  ELSE LET stored == [Pointed(m, id) EXCEPT !.dims = DimsAfter(m, doc.vec)]
       IN  IF stored.dims = DimOf[doc.vec] THEN Indexed(stored, id, doc.vec) ELSE stored

InsertInternalData(m, id, doc) ==
  IF EnforceSingleFails(m, doc) THEN data ELSE Appended(m, id, doc)

InsertInternalOk(m, doc) ==
  ~EnforceSingleFails(m, doc) /\ DimsAfter(m, doc.vec) = DimOf[doc.vec]

\* A new vector index and vector cache
WithVectors(m, vindex, cache) == [m EXCEPT !.vindex = vindex, !.cache = cache]

\* Fault: the vector index keeps the id.
DeleteInternalKeepsVector(m, id) == [m EXCEPT !.index[id] = None, !.cache[id] = None]

\* delete_internal, with an index that is not HNSW
DeleteInternal(m, id) ==
  [m EXCEPT !.index[id] = None, !.vindex = m.vindex \ {id}, !.cache[id] = None]

\* delete_batch's loop over delete_internal
DeleteAll(m, ids) ==
  [m EXCEPT !.index = [id \in Ids |-> IF id \in ids THEN None ELSE m.index[id]],
            !.vindex = m.vindex \ ids,
            !.cache = [id \in Ids |-> IF id \in ids THEN None ELSE m.cache[id]]]

-----------------------------------------------------------------------------
(* An operation starts: the process is idle and takes the write lock.      *)

Init ==
  /\ data = [s \in Slots |-> None]
  /\ fIndex = [id \in Ids |-> None] /\ fVec = None /\ fDims = None
  /\ wal = <<>> /\ walMeta = 0 /\ torn = {}
  /\ mem = EmptyMem /\ nextSeq = 0 /\ opCount = 0 /\ checkpointed = FALSE
  /\ pc = "closed" /\ op = NoOp /\ pos = 1 /\ after = "idle" /\ crashes = 0

\* The operation will log todo first.
Start(name, todo) ==
  /\ pc = "idle" /\ name \in Ops
  /\ nextSeq + Len(todo) <= MaxSeq + 1                      \* bound
  /\ mem.cursor + Len(todo) <= MaxSlots + 1                 \* bound
  /\ op' = [name |-> name, todo |-> todo] /\ pos' = 1 /\ pc' = "log"
  /\ UNCHANGED <<files, mem, counters, after, crashes>>

\* The id of a new document is a fresh Uuid.
Insert ==
  \E id \in Ids \ Live(mem.index), doc \in Docs :
    Start("insert", <<Write("Insert", id, doc)>>)

InsertBatch ==
  \E a, b \in Ids \ Live(mem.index), c, d \in Docs :
    a # b /\ Start("insert_batch", <<Write("Insert", a, c), Write("Insert", b, d)>>)

\* upsert checks the limits before it logs; for a new id it goes on as insert.
Upsert ==
  \E id \in Ids, doc \in Docs :
    /\ ~EnforceSingleFails(mem, doc)
    /\ Start("upsert", <<Write(IF mem.index[id] = None THEN "Insert" ELSE "Update", id, doc)>>)

\* An id whose record does not decode makes get, and with it the update, fail.
UpdateMetadata ==
  \E id \in Ids, meta \in Metas :
    Decodes(mem.index, id) /\ Start("update_metadata",
      <<Write("Update", id, [vec |-> Get(mem.index, id).vec, meta |-> meta])>>)

UpdateVector ==
  \E id \in Ids, vec \in Vectors :
    Decodes(mem.index, id) /\ Start("update_vector",
      <<Write("Update", id, [vec |-> vec, meta |-> Get(mem.index, id).meta])>>)

Delete ==
  \E id \in Live(mem.index) : Start("delete", <<Write("Delete", id, None)>>)

DeleteBatch ==
  \E a, b \in Live(mem.index) :
    Start("delete_batch", <<Write("Delete", a, None), Write("Delete", b, None)>>)

\* Collection::get, get_all, count: nothing changes.
Read == pc = "idle" /\ UNCHANGED vars

\* Wal::log of the operation's next write
Log ==
  /\ pc = "log"
  /\ wal' = Append(wal, Entry(op.todo[pos], nextSeq))
  /\ nextSeq' = nextSeq + 1
  /\ IF pos = Len(op.todo) THEN pc' = "apply" /\ pos' = 1
                           ELSE pos' = pos + 1 /\ pc' = pc
  /\ UNCHANGED <<data, fIndex, fVec, fDims, walMeta, torn, mem, opCount, checkpointed,
                 op, after, crashes>>

-----------------------------------------------------------------------------
(* The logged operation is applied to the data file and to memory.         *)

\* The operation's local variables are gone.
ForgetOp == op' = NoOp /\ pos' = 1

\* track_operation, then control goes to next.  The interval is measured from
\* the last checkpoint of this process, so it is not due before there is one.
TrackOperation(next) ==
  /\ \/ /\ opCount + 1 >= CheckpointFrequency \/ (CheckpointInterval /\ checkpointed)
        /\ opCount' = 0 /\ pc' = "ckIndex" /\ after' = next
     \/ /\ opCount + 1 < CheckpointFrequency
        /\ opCount' = opCount + 1 /\ pc' = next /\ after' = after
  /\ IF next = "idle" THEN ForgetOp ELSE UNCHANGED <<op, pos>>
  /\ UNCHANGED <<nextSeq, checkpointed>>

\* The operation returns an error: no checkpoint is considered.
ReturnError == pc' = "idle" /\ ForgetOp /\ UNCHANGED <<counters, after>>

\* What no step of applying an operation touches.
ApplyFrame == UNCHANGED <<fIndex, fVec, fDims, wal, walMeta, torn, crashes>>

\* insert, and upsert: an upsert of an id that exists deletes it first.
ApplyInsert ==
  /\ pc = "apply" /\ op.name \in {"insert", "upsert"}
  /\ LET w == op.todo[1]
         m == IF w.kind = "Update" THEN DeleteInternal(mem, w.id) ELSE mem
     IN  /\ mem' = InsertInternal(m, w.id, w.doc)
         /\ data' = InsertInternalData(m, w.id, w.doc)
         /\ IF InsertInternalOk(m, w.doc) THEN TrackOperation("idle") ELSE ReturnError
  /\ ApplyFrame

\* update_metadata leaves the vector index and the cached vector alone.
ApplyUpdateMetadata ==
  /\ pc = "apply" /\ op.name = "update_metadata"
  /\ LET w == op.todo[1]
     IN  IF EnforceSingleFails(mem, w.doc)
         THEN ReturnError /\ UNCHANGED <<mem, data>>
         ELSE /\ mem' = Pointed(mem, w.id)
              /\ data' = Appended(mem, w.id, w.doc)
              /\ TrackOperation("idle")
  /\ ApplyFrame

\* update_vector checks the dimensions, and fixes them if nothing has, before
\* it checks the limits.
ApplyUpdateVector ==
  /\ pc = "apply" /\ op.name = "update_vector"
  /\ LET w == op.todo[1]
         m == [mem EXCEPT !.dims = DimsAfter(mem, w.doc.vec)]
     IN  IF m.dims # DimOf[w.doc.vec] \/ EnforceSingleFails(mem, w.doc)
         THEN ReturnError /\ UNCHANGED data
              /\ mem' = IF m.dims = DimOf[w.doc.vec] THEN m ELSE mem
         ELSE /\ mem' = Indexed(Pointed(m, w.id), w.id, w.doc.vec)
              /\ data' = Appended(mem, w.id, w.doc)
              /\ TrackOperation("idle")
  /\ ApplyFrame

\* delete and delete_batch
ApplyDelete ==
  /\ pc = "apply" /\ op.name \in {"delete", "delete_batch"}
  /\ mem' = DeleteAll(mem, {op.todo[i].id : i \in DOMAIN op.todo})
  /\ TrackOperation("idle") /\ UNCHANGED data /\ ApplyFrame

\* insert_batch: append_batch and the offset index.  The operation is tracked,
\* and a checkpoint taken, before the vector index hears of the documents.
ApplyInsertBatch ==
  /\ pc = "apply" /\ op.name = "insert_batch"
  /\ LET n == Len(op.todo)
         slot(i) == mem.cursor + i - 1
     IN  IF EnforceBatchFails(mem, op.todo)
         THEN ReturnError /\ UNCHANGED <<mem, data>>
         ELSE /\ data' = [s \in Slots |->
                            IF \E i \in 1..n : s = slot(i)
                            THEN Record(op.todo[s - mem.cursor + 1].id,
                                        op.todo[s - mem.cursor + 1].doc)
                            ELSE data[s]]
              /\ mem' = Repointed(mem,
                          [id \in Ids |-> IF \E i \in 1..n : op.todo[i].id = id
                                          THEN slot(CHOOSE i \in 1..n : op.todo[i].id = id)
                                          ELSE mem.index[id]],
                          mem.cursor + n)
              /\ TrackOperation("vec")
  /\ ApplyFrame

\* insert_batch's last loop stops at the first vector of the wrong dimensions;
\* the documents behind it stay readable but are not in the vector index.
InsertBatchVectors ==
  /\ pc = "vec"
  /\ LET dims == DimsAfter(mem, op.todo[1].doc.vec)
         good == {i \in DOMAIN op.todo :
                    \A j \in 1..i : DimOf[op.todo[j].doc.vec] = dims}
         ids == {op.todo[i].id : i \in good}
     IN  mem' = WithVectors(
                  [mem EXCEPT !.dims = dims], mem.vindex \cup ids,
                  [id \in Ids |-> IF id \in ids
                                  THEN op.todo[CHOOSE i \in good : op.todo[i].id = id].doc.vec
                                  ELSE mem.cache[id]])
  /\ pc' = "idle" /\ ForgetOp /\ UNCHANGED <<files, counters, after, crashes>>

-----------------------------------------------------------------------------
(* checkpoint: six file writes.  Compaction and rebuild_index share some.  *)

\* Fault: the offset index is not part of the checkpoint.
CheckpointWithoutIndex ==
  /\ pc = "idle" /\ "checkpoint" \in Ops /\ nextSeq <= MaxSeq
  /\ pc' = "ckVec" /\ after' = "idle"
  /\ UNCHANGED <<files, mem, counters, op, pos, crashes>>

Checkpoint ==
  /\ pc = "idle" /\ "checkpoint" \in Ops
  /\ nextSeq <= MaxSeq                                      \* bound
  /\ pc' = "ckIndex" /\ after' = "idle"
  /\ UNCHANGED <<files, mem, counters, op, pos, crashes>>

\* Fault: compaction does not save the offset index of the new file.
SaveIndexAtCheckpointOnly ==
  /\ \/ pc = "ckIndex" /\ pc' = "ckVec" /\ fIndex' = mem.index
     \/ pc = "cpIndex" /\ pc' = "cpVec" /\ fIndex' = fIndex
  /\ UNCHANGED <<data, fVec, fDims, wal, walMeta, torn, mem, counters, op, pos, after, crashes>>

SaveIndex ==
  /\ \/ pc = "ckIndex" /\ pc' = "ckVec"
     \/ pc = "cpIndex" /\ pc' = "cpVec"
  /\ fIndex' = mem.index
  /\ UNCHANGED <<data, fVec, fDims, wal, walMeta, torn, mem, counters, op, pos, after, crashes>>

\* Fault: only a checkpoint saves the vector index.
SaveVectorIndexAtCheckpointOnly ==
  /\ \/ pc = "ckVec" /\ pc' = "ckMeta" /\ fVec' = mem.vindex
     \/ pc = "cpVec" /\ pc' = "cpMeta" /\ fVec' = fVec
     \/ pc = "rebuild" /\ pc' = "idle" /\ fVec' = fVec
  /\ UNCHANGED <<data, fIndex, fDims, wal, walMeta, torn, mem, counters, op, pos, after, crashes>>

SaveVectorIndex ==
  /\ \/ pc = "ckVec" /\ pc' = "ckMeta"
     \/ pc = "cpVec" /\ pc' = "cpMeta"
     \/ pc = "rebuild" /\ pc' = "idle"
  /\ fVec' = mem.vindex
  /\ UNCHANGED <<data, fIndex, fDims, wal, walMeta, torn, mem, counters, op, pos, after, crashes>>

SaveMetadata ==
  /\ \/ pc = "ckMeta" /\ pc' = "ckWal"
     \/ pc = "cpMeta" /\ pc' = "cpRotate"
  /\ fDims' = mem.dims
  /\ UNCHANGED <<data, fIndex, fVec, wal, walMeta, torn, mem, counters, op, pos, after, crashes>>

\* Wal::checkpoint and record_checkpoint
LogCheckpoint ==
  /\ pc = "ckWal" /\ pc' = "ckWalMeta"
  /\ wal' = Append(wal, Entry(CheckpointWrite, nextSeq))
  /\ nextSeq' = nextSeq + 1 /\ checkpointed' = TRUE
  /\ UNCHANGED <<data, fIndex, fVec, fDims, walMeta, torn, mem, opCount, op, pos, after, crashes>>

\* Fault: the next sequence number instead of the last one.
SaveWalMetaNextSeq ==
  /\ pc = "ckWalMeta" /\ pc' = "ckRotate"
  /\ walMeta' = nextSeq
  /\ UNCHANGED <<data, fIndex, fVec, fDims, wal, torn, mem, counters, op, pos, after, crashes>>

\* save_wal_meta goes through a temporary file and a rename: never torn.
SaveWalMeta ==
  /\ pc = "ckWalMeta" /\ pc' = "ckRotate"
  /\ walMeta' = nextSeq - 1
  /\ UNCHANGED <<data, fIndex, fVec, fDims, wal, torn, mem, counters, op, pos, after, crashes>>

\* Wal::rotate: compaction drops the log without moving last_checkpoint_seq.
Rotate ==
  /\ \/ pc = "ckRotate" /\ pc' = after
     \/ pc = "cpRotate" /\ pc' = "idle"
  /\ wal' = <<>>
  /\ UNCHANGED <<data, fIndex, fVec, fDims, walMeta, torn, mem, counters, op, pos, after, crashes>>

-----------------------------------------------------------------------------
(* compact and rebuild_index                                               *)

\* The live records are copied to a fresh file, in the order the offset index
\* yields its keys, and the file is renamed over the old one; then memory is
\* switched over.  Only the files that describe the data file are still old.
Compact ==
  /\ pc = "idle" /\ "compact" \in Ops /\ Readable(mem.index)
  /\ LET n == Cardinality(Live(mem.index))
     IN  \E order \in [1..n -> Live(mem.index)], index \in [Ids -> (1..n) \cup {None}] :
           /\ \A i, j \in 1..n : order[i] = order[j] => i = j
           /\ LET copy == [i \in 1..n |-> data[mem.index[order[i]]]]
              IN  /\ \A id \in Ids :         \* new_index, keyed by the record's own id
                       IF index[id] = None THEN \A i \in 1..n : copy[i].id # id
                       ELSE /\ copy[index[id]].id = id
                            /\ \A i \in 1..n : copy[i].id = id => i <= index[id]
                  /\ data' = [s \in Slots |-> IF s <= n THEN copy[s] ELSE None]
                  /\ mem' = [index |-> index, cursor |-> n + 1, vindex |-> Live(index),
                             cache |-> [id \in Ids |-> IF index[id] = None THEN None
                                                       ELSE copy[index[id]].doc.vec],
                             dims |-> IF n = 0 THEN mem.dims
                                      ELSE DimsAfter(mem, copy[1].doc.vec)]
  /\ pc' = "cpIndex"
  /\ UNCHANGED <<fIndex, fVec, fDims, wal, walMeta, torn, counters, op, pos, after, crashes>>

RebuildIndex ==
  /\ pc = "idle" /\ "rebuild_index" \in Ops /\ Readable(mem.index)
  /\ mem' = WithVectors(mem, Live(mem.index), RebuiltCache(mem.index))
  /\ pc' = "rebuild" /\ UNCHANGED <<files, counters, op, pos, after, crashes>>

-----------------------------------------------------------------------------
(* The process dies, and the collection is opened again.                   *)

\* What is left of the process: its files.
LoseMemory ==
  /\ mem' = EmptyMem /\ nextSeq' = 0 /\ opCount' = 0 /\ checkpointed' = FALSE
  /\ op' = NoOp /\ pos' = 1 /\ after' = "idle"

\* The file the next step rewrites or appends to in place.  A death inside rotate
\* leaves an empty log, as a death after it does.
BeingWritten ==
  CASE pc \in {"ckIndex", "cpIndex"} -> {"index"}
    [] pc \in {"ckVec", "cpVec", "rebuild"} -> {"vecindex"}
    [] pc \in {"ckMeta", "cpMeta"} -> {"metadata"}
    [] pc \in {"log", "ckWal"} -> {"wal"}
    [] OTHER -> {}

\* The server stops without a last checkpoint, so a restart is a death, too.
Crash ==
  /\ pc \in CrashPoints
  /\ crashes < MaxCrashes                                   \* bound
  /\ crashes' = crashes + 1
  /\ pc' = "closed" /\ LoseMemory
  /\ \/ torn' = torn
     \/ TornWrites /\ BeingWritten # {} /\ torn' = torn \cup BeingWritten
  /\ UNCHANGED <<data, fIndex, fVec, fDims, wal, walMeta>>

\* Wal::replay returns an entry: recovery has something to do.
ReplayPending == \E i \in DOMAIN wal : wal[i].seq > walMeta

\* Fault: appending resumes at the last record instead of after it.
LoadedAtLast(cursor) ==
  [index |-> fIndex, cursor |-> cursor - 1, vindex |-> IF fVec = None THEN {} ELSE fVec,
   cache |-> EmptyMem.cache, dims |-> fDims]

\* The collection as its files describe it; the vector cache is still empty.
Loaded(cursor) ==
  [index |-> fIndex, cursor |-> cursor, vindex |-> IF fVec = None THEN {} ELSE fVec,
   cache |-> EmptyMem.cache, dims |-> fDims]

\* Fault: the first write of the new process reuses the last sequence number.
OpenFrameReusesSeq ==
  /\ nextSeq' = walMeta /\ opCount' = 0 /\ checkpointed' = FALSE
  /\ pos' = 1 /\ UNCHANGED <<files, op, after, crashes>>

OpenFrame ==
  /\ nextSeq' = walMeta + 1 /\ opCount' = 0 /\ checkpointed' = FALSE
  /\ pos' = 1 /\ UNCHANGED <<files, op, after, crashes>>

\* A half-written file or a record that does not decode: open returns an error.
OpenFails ==
  /\ pc \in {"closed", "failed"}
  /\ torn # {} \/ (~ReplayPending /\ ~Readable(fIndex))
  /\ pc' = "failed" /\ LoseMemory /\ UNCHANGED <<files, crashes>>

\* Nothing to replay: a missing vector index is rebuilt, and the cache always.
OpenClean ==
  /\ pc \in {"closed", "failed"} /\ torn = {} /\ ~ReplayPending /\ Readable(fIndex)
  /\ \E s \in 1..(MaxSlots + 1) :
       /\ NextAppendSlot(fIndex, s)
       /\ mem' = WithVectors(Loaded(s), IF fVec = None THEN Live(fIndex) ELSE fVec,
                             RebuiltCache(fIndex))
  /\ pc' = "idle" /\ OpenFrame

OpenAndReplay ==
  /\ pc \in {"closed", "failed"} /\ torn = {} /\ ReplayPending
  /\ \E s \in 1..(MaxSlots + 1) : NextAppendSlot(fIndex, s) /\ mem' = Loaded(s)
  /\ pc' = "replay" /\ OpenFrame

\* Fault: the entry is passed over and over.
ReplaySkipStays ==
  /\ pc = "replay" /\ pos <= Len(wal)
  /\ wal[pos].seq <= walMeta \/ wal[pos].kind = "Checkpoint"
  /\ UNCHANGED vars

\* Already in the checkpoint, or not an operation
ReplaySkip ==
  /\ pc = "replay" /\ pos <= Len(wal)
  /\ wal[pos].seq <= walMeta \/ wal[pos].kind = "Checkpoint"
  /\ pos' = pos + 1 /\ UNCHANGED <<files, mem, counters, pc, op, after, crashes>>

ReplayDelete ==
  /\ pc = "replay" /\ pos <= Len(wal) /\ wal[pos].seq > walMeta
  /\ wal[pos].kind = "Delete"
  /\ mem' = DeleteInternal(mem, wal[pos].id)
  /\ pos' = pos + 1 /\ UNCHANGED <<files, counters, pc, op, after, crashes>>

\* The operation's limits and dimensions are enforced once more.
ReplayInsert ==
  /\ pc = "replay" /\ pos <= Len(wal) /\ wal[pos].seq > walMeta
  /\ wal[pos].kind \in {"Insert", "Update"}
  /\ mem.cursor <= MaxSlots                                 \* bound
  /\ LET e == wal[pos]
         m == IF e.kind = "Update" THEN DeleteInternal(mem, e.id) ELSE mem
     IN  /\ data' = InsertInternalData(m, e.id, e.doc)
         /\ IF InsertInternalOk(m, e.doc)
            THEN /\ mem' = InsertInternal(m, e.id, e.doc) /\ pos' = pos + 1
                 /\ UNCHANGED <<counters, pc, op, after>>
            ELSE pc' = "failed" /\ LoseMemory
  /\ UNCHANGED <<fIndex, fVec, fDims, wal, walMeta, torn, crashes>>

\* The cache is rebuilt and a checkpoint makes the recovered state durable.
ReplayDone ==
  /\ pc = "replay" /\ pos > Len(wal)
  /\ IF Readable(mem.index)
     THEN /\ mem' = WithVectors(mem, mem.vindex, RebuiltCache(mem.index))
          /\ pc' = "ckIndex" /\ after' = "idle" /\ ForgetOp /\ UNCHANGED counters
     ELSE pc' = "failed" /\ LoseMemory
  /\ UNCHANGED <<files, crashes>>

-----------------------------------------------------------------------------
(* The specification.                                                      *)

StartOperation ==
  \/ Insert \/ InsertBatch \/ Upsert \/ UpdateMetadata \/ UpdateVector
  \/ Delete \/ DeleteBatch \/ Checkpoint \/ Compact \/ RebuildIndex

Continue ==
  \/ Log
  \/ ApplyInsert \/ ApplyUpdateMetadata \/ ApplyUpdateVector \/ ApplyDelete
  \/ ApplyInsertBatch \/ InsertBatchVectors
  \/ SaveIndex \/ SaveVectorIndex \/ SaveMetadata
  \/ LogCheckpoint \/ SaveWalMeta \/ Rotate
  \/ OpenFails \/ OpenClean \/ OpenAndReplay
  \/ ReplaySkip \/ ReplayDelete \/ ReplayInsert \/ ReplayDone

Next == StartOperation \/ Read \/ Continue \/ Crash

\* A process that is alive goes on with what it has begun, and a collection
\* that is closed is opened again by the next request for it.
Spec == Init /\ [][Next]_vars /\ WF_vars(Continue)

-----------------------------------------------------------------------------
(* Properties.                                                             *)

Running == pc \in RunningPcs

\* Every variable holds a value of its kind; in particular the sequence numbers,
\* cursors and pointers that the operations compute stay in range.
TypeOK ==
  /\ data \in [Slots -> Records \cup {None}]
  /\ fIndex \in [Ids -> Slots \cup {None}]
  /\ fVec \in (SUBSET Ids) \cup {None} /\ fDims \in Nat \cup {None}
  /\ wal \in Seq(WalEntry) /\ walMeta \in Nat
  /\ torn \subseteq {"index", "vecindex", "metadata", "wal"}
  /\ mem \in Mem /\ nextSeq \in Nat /\ opCount \in Nat /\ checkpointed \in BOOLEAN
  /\ pc \in Pcs /\ op \in [name : OpNames, todo : Seq(Writes)]
  /\ pos \in Nat \ {0} /\ after \in {"idle", "vec"} /\ crashes \in 0..MaxCrashes

\* Every pointer of an offset index leads to a record of its own id.
LeadsHome(index) ==
  \A id \in Live(index) : data[index[id]] # None /\ data[index[id]].id = id

\* append never overwrites a record that the offset index in memory or the one
\* in <path>.index.db points to: both lie below the append cursor, whatever
\* recovery made of it, and every pointer leads to a record of its own id.
PointersIntact ==
  /\ Running => /\ LeadsHome(mem.index)
                /\ \A id \in Live(mem.index) : mem.index[id] < mem.cursor
  /\ pc # "cpIndex" => LeadsHome(fIndex)
  /\ Running /\ pc # "cpIndex" => \A id \in Live(fIndex) : fIndex[id] < mem.cursor

\* The log entries for id that recovery would replay.
Pending(id) == {i \in DOMAIN wal : wal[i].id = id /\ wal[i].seq > walMeta}

\* The document that recovery would find under id, from the files alone.
Recovered(id) ==
  IF Pending(id) = {} THEN Get(fIndex, id)
  ELSE wal[CHOOSE i \in Pending(id) : \A j \in Pending(id) : j <= i].doc

\* What readers see between operations is what a restart would bring back: no
\* acknowledged write is only in memory, and no write comes back that was not
\* acknowledged.
ReadsAreRecoverable ==
  pc = "idle" => \A id \in Ids : Get(mem.index, id) = Recovered(id)

\* Between operations the vector index holds exactly the documents that can be
\* read, and the cache their vectors, whatever recovery the collection has been
\* through: search misses nothing and finds nothing that was deleted.
VectorIndexComplete ==
  pc = "idle" => mem.vindex = Live(mem.index) /\ mem.cache = RebuiltCache(mem.index)

\* The vector index never names a document that is gone, or one whose cached
\* vector is missing or stale: FlatIndex::search fails on the first, and ranks
\* by the wrong vector on the other.
VectorIndexSound ==
  pc = "idle" => \A id \in mem.vindex : /\ Decodes(mem.index, id)
                                        /\ mem.cache[id] = data[mem.index[id]].doc.vec

\* Writes are logged under numbers above the last checkpoint and above all that
\* the log already holds, so that no recovery skips them or replays them early.
FreshSequence ==
  pc \in {"idle", "log", "apply", "vec"} =>
    walMeta < nextSeq /\ \A i \in DOMAIN wal : wal[i].seq < nextSeq

\* limits.max_vectors bounds the collection through batches and recoveries.
VectorLimit ==
  MaxVectors # None => Cardinality(Live(mem.index)) <= MaxVectors

\* A collection can always be opened, whatever its process died of.
OpenNeverFails == pc # "failed"

\* An operation, a checkpoint, a compaction or a recovery that has begun comes
\* to its end, or the process dies and the recovery does.
Progress == pc # "idle" ~> pc = "idle"

\* The contents are what recovery would find.  While compaction has replaced the
\* data file and not yet the offset index, they are what memory holds.
Contents == [id \in Ids |-> IF pc = "cpIndex" THEN Get(mem.index, id) ELSE Recovered(id)]

Abstract == INSTANCE DurableMap
              WITH Batches <- Seq(Writes) \ {<<>>}, kv <- Contents,
                   todo <- IF pc = "log" THEN op.todo ELSE <<>>,
                   next <- IF pc = "log" THEN pos ELSE 1

\* A collection implements the map of DurableMap: its contents change when a
\* write is logged, by that write alone, and checkpoints, compaction, death and
\* recovery leave them as they are.
ImplementsDurableMap == Abstract!Spec
=============================================================================
