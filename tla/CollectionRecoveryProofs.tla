---------------------- MODULE CollectionRecoveryProofs ----------------------
(***************************************************************************)
(* Durability, for every value of the constants under which no limit or    *)
(* dimension check rejects a write that is already logged: what readers    *)
(* see is what a restart brings back, a collection can always be opened,   *)
(* and it implements the map of DurableMap.                                *)
(***************************************************************************)
EXTENDS CollectionProofs

\* No write that has been logged is refused when it is applied or replayed:
\* there are no limits, and all vectors are of one length.
NothingRejected ==
  /\ MaxVectors = None /\ MaxBytes = None /\ Oversized = {}
  /\ \A v, w \in Vectors : DimOf[v] = DimOf[w]

-----------------------------------------------------------------------------
(* What an offset index finds, and what recovery has made of the log, as   *)
(* functions of the files: d the data file, f the saved offset index, w    *)
(* the log and m last_checkpoint_seq.                                      *)

\* The document that index finds under id in the data file d
Found(d, index, id) ==
  IF index[id] # None /\ d[index[id]] # None THEN d[index[id]].doc ELSE None

\* The entries for id that recovery replays before it comes to position n
Met(w, m, id, n) == {i \in DOMAIN w : w[i].id = id /\ w[i].seq > m /\ i < n}

\* doc is what recovery has under id when it comes to position n.
Replayed(d, f, w, m, n, id, doc) ==
  \/ Met(w, m, id, n) = {} /\ doc = Found(d, f, id)
  \/ \E i \in Met(w, m, id, n) :
       (\A j \in Met(w, m, id, n) : j <= i) /\ doc = w[i].doc

\* The replay of one entry: its document replaces the one under its id.
LEMMA ReplayedEntry ==
  ASSUME NEW d, NEW f, NEW w \in Seq(WalEntry), NEW m \in Nat, NEW n \in 1..Len(w),
         NEW id, NEW doc, Replayed(d, f, w, m, n, id, doc)
  PROVE  Replayed(d, f, w, m, n + 1, id,
                  IF w[n].id = id /\ w[n].seq > m THEN w[n].doc ELSE doc)
<1>1. n \in DOMAIN w /\ n \in Nat /\ \A i \in DOMAIN w : i \in Nat
  OBVIOUS
<1>2. CASE w[n].id = id /\ w[n].seq > m
  <2>1. n \in Met(w, m, id, n + 1) /\ \A j \in Met(w, m, id, n + 1) : j <= n
    BY <1>1, <1>2 DEF Met
  <2> QED
    BY <1>2, <2>1 DEF Replayed
<1>3. CASE ~(w[n].id = id /\ w[n].seq > m)
  <2>1. Met(w, m, id, n + 1) = Met(w, m, id, n)
    BY <1>1, <1>3 DEF Met
  <2> QED
    BY <1>3, <2>1 DEF Replayed
<1> QED
  BY <1>2, <1>3

\* An entry appended to the log changes nothing before its own position.
LEMMA ReplayedPrefix ==
  ASSUME NEW d, NEW f, NEW w \in Seq(WalEntry), NEW m \in Nat, NEW e \in WalEntry,
         NEW id, NEW doc, Replayed(d, f, w, m, Len(w) + 1, id, doc)
  PROVE  Replayed(d, f, Append(w, e), m, Len(w) + 1, id, doc)
<1> DEFINE u == Append(w, e)
<1>1. /\ Len(w) \in Nat /\ DOMAIN w = 1..Len(w) /\ DOMAIN u = 1..(Len(w) + 1)
      /\ \A i \in 1..Len(w) : u[i] = w[i]
  OBVIOUS
<1> HIDE DEF u
<1>2. Met(u, m, id, Len(w) + 1) = Met(w, m, id, Len(w) + 1)
  BY <1>1 DEF Met
<1>3. \A i \in Met(w, m, id, Len(w) + 1) : u[i] = w[i]
  BY <1>1 DEF Met
<1>4. Replayed(d, f, u, m, Len(w) + 1, id, doc)
  BY <1>2, <1>3 DEF Replayed
<1> QED
  BY <1>4 DEF u

\* Wal::log of a write: recovery would replay it last.
LEMMA ReplayedAppend ==
  ASSUME NEW d, NEW f, NEW w \in Seq(WalEntry), NEW m \in Nat, NEW e \in WalEntry,
         NEW id, NEW doc, Replayed(d, f, w, m, Len(w) + 1, id, doc)
  PROVE  /\ Len(Append(w, e)) = Len(w) + 1
         /\ Replayed(d, f, Append(w, e), m, Len(w) + 2, id,
                     IF e.id = id /\ e.seq > m THEN e.doc ELSE doc)
<1> DEFINE u == Append(w, e)
<1>1. /\ u \in Seq(WalEntry) /\ Len(u) = Len(w) + 1 /\ Len(w) + 1 \in 1..Len(u)
      /\ u[Len(w) + 1] = e /\ Len(w) + 1 + 1 = Len(w) + 2
  OBVIOUS
<1>2. Replayed(d, f, u, m, Len(w) + 1, id, doc)
  BY ReplayedPrefix
<1> HIDE DEF u
<1>3. Replayed(d, f, u, m, Len(w) + 1 + 1, id,
               IF u[Len(w) + 1].id = id /\ u[Len(w) + 1].seq > m
               THEN u[Len(w) + 1].doc ELSE doc)
  BY <1>1, <1>2, ReplayedEntry
<1> QED
  BY <1>1, <1>3 DEF u

\* Files in which the saved offset index finds the same document.
LEMMA ReplayedFiles ==
  ASSUME NEW d, NEW f, NEW e, NEW g, NEW w, NEW m, NEW n, NEW id, NEW doc,
         Replayed(d, f, w, m, n, id, doc), Found(e, g, id) = Found(d, f, id)
  PROVE  Replayed(e, g, w, m, n, id, doc)
BY DEF Replayed

\* Files in which the saved offset index finds what recovery would end with.
LEMMA ReplayedSaved ==
  ASSUME NEW d, NEW f, NEW e, NEW g, NEW w, NEW m, NEW n, NEW id, NEW doc,
         Replayed(d, f, w, m, n, id, doc), Found(e, g, id) = doc
  PROVE  Replayed(e, g, w, m, n, id, doc)
BY DEF Replayed

\* The log entries of writes are in the order of their sequence numbers.
Ordered(w) ==
  \A i, j \in DOMAIN w :
    i < j /\ w[i].kind # "Checkpoint" /\ w[j].kind # "Checkpoint" => w[i].seq < w[j].seq

\* The number of the last checkpoint moves on, over a saved offset index: the
\* entries that are still replayed end with the same one, if any are left.
LEMMA ReplayedMark ==
  ASSUME NEW d, NEW f, NEW w \in Seq(WalEntry), NEW m \in Nat, NEW k \in Nat, m <= k,
         NEW n, NEW id \in Ids, NEW doc, Ordered(w),
         Replayed(d, f, w, m, n, id, doc), doc = Found(d, f, id)
  PROVE  Replayed(d, f, w, k, n, id, doc)
<1>1. /\ \A i \in DOMAIN w : i \in Nat /\ w[i] \in WalEntry
      /\ \A i \in DOMAIN w : w[i].seq \in Nat /\ (w[i].id = id => w[i].kind # "Checkpoint")
  BY ConstantsAssumption DEF WalEntry
<1>2. Met(w, k, id, n) \subseteq Met(w, m, id, n)
  BY <1>1 DEF Met
<1>3. CASE Met(w, k, id, n) = {}
  BY <1>3 DEF Replayed
<1>4. CASE Met(w, k, id, n) # {}
  <2>1. PICK i \in Met(w, m, id, n) :
          (\A j \in Met(w, m, id, n) : j <= i) /\ doc = w[i].doc
    BY <1>2, <1>4 DEF Replayed
  <2>2. PICK j \in Met(w, k, id, n) : TRUE
    BY <1>4
  <2>3. /\ i \in DOMAIN w /\ j \in DOMAIN w /\ j <= i /\ w[j].seq > k
        /\ w[i].id = id /\ w[j].id = id /\ i < n
    BY <1>2, <2>1, <2>2 DEF Met
  <2>4. w[i].seq > k
    BY <1>1, <2>3 DEF Ordered
  <2>5. i \in Met(w, k, id, n)
    BY <2>3, <2>4 DEF Met
  <2> QED
    BY <1>2, <2>1, <2>5 DEF Replayed
<1> QED
  BY <1>3, <1>4

\* A write logged under a number above all others keeps the log ordered, and
\* so does the entry of a checkpoint.
LEMMA OrderedAppend ==
  ASSUME NEW w \in Seq(WalEntry), NEW e \in WalEntry, Ordered(w),
         e.kind = "Checkpoint" \/ \A i \in DOMAIN w : w[i].seq < e.seq
  PROVE  Ordered(Append(w, e))
<1> DEFINE u == Append(w, e)
<1>1. /\ Len(w) \in Nat /\ DOMAIN w = 1..Len(w) /\ DOMAIN u = 1..(Len(w) + 1)
      /\ \A i \in 1..Len(w) : u[i] = w[i]
      /\ u[Len(w) + 1] = e
  OBVIOUS
<1> HIDE DEF u
<1>2. Ordered(u)
  BY <1>1 DEF Ordered
<1> QED
  BY <1>2 DEF u

\* RecordStore::append, as a function of the data file
Put(d, c, id, doc) == [d EXCEPT ![c] = Record(id, doc)]

\* A record appended above all pointers of an index is none it finds,
LEMMA FoundKept ==
  ASSUME NEW d \in [Slots -> Records \cup {None}], NEW index \in [Ids -> Slots \cup {None}],
         NEW c \in Slots, Below(index, c), NEW id \in Ids, NEW doc \in Docs
  PROVE  \A x \in Ids : Found(Put(d, c, id, doc), index, x) = Found(d, index, x)
<1> DEFINE e == Put(d, c, id, doc)
<1>1. \A s \in Slots : s # c => e[s] = d[s]
  BY DEF Put
<1>2. \A x \in Ids : index[x] # None => index[x] \in Slots /\ index[x] # c
  BY NoneFacts DEF Live, Below
<1> HIDE DEF e
<1>3. \A x \in Ids : Found(e, index, x) = Found(d, index, x)
  BY <1>1, <1>2 DEF Found
<1> QED
  BY <1>3 DEF e

\* and once pointed to, it is found under its id alone.
LEMMA FoundAppended ==
  ASSUME NEW d \in [Slots -> Records \cup {None}], NEW index \in [Ids -> Slots \cup {None}],
         NEW c \in Slots, Below(index, c), NEW id \in Ids, NEW doc \in Docs
  PROVE  \A x \in Ids : Found(Put(d, c, id, doc), [index EXCEPT ![id] = c], x)
                          = IF x = id THEN doc ELSE Found(d, index, x)
<1> DEFINE e == Put(d, c, id, doc)
<1>1. e[c] # None /\ e[c].doc = doc /\ c # None
  BY NoneFacts DEF Record, Records, Put
<1>2. \A x \in Ids : x # id => Found(e, [index EXCEPT ![id] = c], x) = Found(e, index, x)
  BY DEF Found
<1> HIDE DEF e
<1>3. Found(e, [index EXCEPT ![id] = c], id) = doc
  BY <1>1 DEF Found
<1>4. \A x \in Ids : Found(e, index, x) = Found(d, index, x)
  BY FoundKept DEF e
<1>5. \A x \in Ids : Found(e, [index EXCEPT ![id] = c], x)
                       = IF x = id THEN doc ELSE Found(d, index, x)
  BY <1>2, <1>3, <1>4
<1> QED
  BY <1>5 DEF e

\* The last position of a set of them
Latest(S) == CHOOSE i \in S : \A j \in S : j <= i

\* What recovery ends with under id
Outcome(d, f, w, m, id) ==
  LET met == Met(w, m, id, Len(w) + 1)
  IN  IF met = {} THEN Found(d, f, id) ELSE w[Latest(met)].doc

\* is the only document it can end with.
LEMMA OutcomeUnique ==
  ASSUME NEW d, NEW f, NEW w \in Seq(WalEntry), NEW m, NEW id, NEW doc,
         Replayed(d, f, w, m, Len(w) + 1, id, doc)
  PROVE  Outcome(d, f, w, m, id) = doc
<1> DEFINE met == Met(w, m, id, Len(w) + 1)
<1>1. \A i \in met : i \in Nat
  BY DEF Met
<1>2. CASE met = {}
  BY <1>2 DEF Replayed, Outcome
<1>3. CASE met # {}
  <2>1. PICK i \in met : (\A j \in met : j <= i) /\ doc = w[i].doc
    BY <1>3 DEF Replayed
  <2> HIDE DEF met
  <2>2. \A k \in met : (\A j \in met : j <= k) => k = i
    BY <1>1, <2>1
  <2>3. Latest(met) = i
    BY <2>1, <2>2 DEF Latest
  <2> QED
    BY <1>3, <2>1, <2>3 DEF Outcome, met
<1> QED
  BY <1>2, <1>3

\* Recovered, before and after a step
LEMMA RecoveredOutcome ==
  ASSUME NEW id
  PROVE  /\ wal \in Seq(WalEntry) => Recovered(id) = Outcome(data, fIndex, wal, walMeta, id)
         /\ wal' \in Seq(WalEntry) =>
              Recovered(id)' = Outcome(data', fIndex', wal', walMeta', id)
<1>1. wal \in Seq(WalEntry) => Met(wal, walMeta, id, Len(wal) + 1) = Pending(id)
  BY DEF Met, Pending
<1>2. wal' \in Seq(WalEntry) => Met(wal', walMeta', id, Len(wal') + 1) = Pending(id)'
  BY DEF Met, Pending
<1>3. Recovered(id) = IF Pending(id) = {} THEN Found(data, fIndex, id)
                       ELSE wal[Latest(Pending(id))].doc
  BY DEF Recovered, Latest, Get, Decodes, Found
<1>4. Recovered(id)' = IF Pending(id)' = {} THEN Found(data', fIndex', id)
                       ELSE wal'[Latest(Pending(id)')].doc
  BY DEF Recovered, Latest, Get, Decodes, Found
<1> QED
  BY <1>1, <1>2, <1>3, <1>4 DEF Outcome

-----------------------------------------------------------------------------
(* The inductive invariant.                                                *)

KnownDims == {None} \cup {DimOf[v] : v \in Vectors}

\* The process is alive and no write is under way; the files of a Saved state
\* hold the offset index of memory.
Saved == {"ckVec", "ckMeta", "ckWal", "ckWalMeta", "ckRotate", "cpVec", "cpMeta", "cpRotate"}
Settled == {"idle", "vec", "rebuild", "ckIndex"} \cup Saved

\* doc is what a restart would bring back under id.
Recovers(id, doc) == Replayed(data, fIndex, wal, walMeta, Len(wal) + 1, id, doc)

\* What readers find under id is what a restart would bring back.
Agrees(id) == Recovers(id, Found(data, mem.index, id))

\* The writes of the operation in progress that have reached the log.
Logged == IF pc = "log" THEN 1..(pos - 1) ELSE DOMAIN op.todo

\* The writes of one operation do not contradict one another.
OpForm ==
  pc \in {"log", "apply"} =>
    /\ \A i, j \in DOMAIN op.todo :
         op.todo[i].id = op.todo[j].id => op.todo[i].doc = op.todo[j].doc
    /\ op.name \in {"insert", "upsert", "update_metadata", "update_vector"} => Len(op.todo) = 1
    /\ op.name \in {"delete", "delete_batch"} => \A i \in DOMAIN op.todo : op.todo[i].doc = None

\* Memory is ahead of the files by what the log holds, and by nothing else.
Durable ==
  /\ pc = "replay" =>
       /\ pos \in 1..(Len(wal) + 1)
       /\ \A id \in Ids :
            Replayed(data, fIndex, wal, walMeta, pos, id, Found(data, mem.index, id))
  /\ pc \in {"log", "apply"} => \A id \in Ids :
       /\ \A j \in Logged : op.todo[j].id = id => Recovers(id, op.todo[j].doc)
       /\ (\A j \in Logged : op.todo[j].id # id) => Agrees(id)
  /\ pc \in Settled => \A id \in Ids : Agrees(id)
  /\ pc \in Saved => fIndex = mem.index
  /\ pc = "cpIndex" => \A id \in Ids : Met(wal, walMeta, id, Len(wal) + 1) # {} => Agrees(id)

RecoveryInv ==
  /\ PointerInv /\ SequenceInv
  /\ Ordered(wal) /\ mem.dims \in KnownDims /\ fDims \in KnownDims
  /\ OpForm /\ Durable

USE DEF Pcs, RunningPcs, CheckpointPcs, CompactPcs, Saved, Settled

\* Initially there is nothing to recover.
LEMMA RecoveryInit == Init => RecoveryInv
<1> SUFFICES ASSUME Init PROVE RecoveryInv
  OBVIOUS
<1>1. PointerInv /\ SequenceInv
  BY PointersInit, TypeInvInit DEF Init, SequenceInv, Running
<1>2. Ordered(wal) /\ mem.dims \in KnownDims /\ fDims \in KnownDims
  BY DEF Init, Ordered, KnownDims, EmptyMem
<1> QED
  BY <1>1, <1>2 DEF Init, RecoveryInv, OpForm, Durable

\* The types of what the proofs compute with.
LEMMA RecoveryFacts ==
  ASSUME RecoveryInv
  PROVE  /\ TypeInv /\ TypeOK /\ PointerInv /\ Sound(mem) /\ mem \in Mem
         /\ wal \in Seq(WalEntry) /\ Len(wal) \in Nat /\ walMeta \in Nat /\ nextSeq \in Nat
         /\ data \in [Slots -> Records \cup {None}]
         /\ fIndex \in [Ids -> Slots \cup {None}] /\ mem.index \in [Ids -> Slots \cup {None}]
         /\ mem.cursor \in Nat /\ pos \in Nat \ {0} /\ after \in {"idle", "vec"}
         /\ op.todo \in Seq(Writes)
BY ConstantsAssumption DEF RecoveryInv, PointerInv, TypeInv, TypeOK, Sound, Mem

\* Get, spelled with the data file it reads.
LEMMA GetFound == \A index, id : Get(index, id) = Found(data, index, id)
BY DEF Get, Decodes, Found

-----------------------------------------------------------------------------
(* The log, the dimensions and the form of operations.                     *)

\* The log stays in the order of the sequence numbers.
LEMMA OrderedStep == RecoveryInv /\ [Next]_vars => Ordered(wal)'
<1> SUFFICES ASSUME RecoveryInv, [Next]_vars PROVE Ordered(wal')
  OBVIOUS
<1>0. TypeInv /\ wal \in Seq(WalEntry) /\ Ordered(wal) /\ nextSeq \in Nat
  BY RecoveryFacts DEF RecoveryInv
<1>1. CASE wal' = wal
  BY <1>0, <1>1
<1>2. CASE Log
  <2>1. Entry(op.todo[pos], nextSeq) \in WalEntry /\ Entry(op.todo[pos], nextSeq).seq = nextSeq
    <3>1. op.todo \in Seq(Writes) /\ pos \in 1..Len(op.todo)
      BY <1>0, <1>2 DEF Log, TypeInv, TypeOK, OpShape
    <3>2. op.todo[pos] \in Writes
      BY <3>1
    <3> QED
      BY <1>0, <3>2, EntryType DEF Entry
  <2>2. \A i \in DOMAIN wal : wal[i].seq < nextSeq
    BY <1>2 DEF RecoveryInv, SequenceInv, Running, LogBelow, Log
  <2> QED
    BY <1>0, <1>2, <2>1, <2>2, OrderedAppend DEF Log
<1>3. CASE LogCheckpoint
  <2>1. Entry(CheckpointWrite, nextSeq) \in WalEntry
        /\ Entry(CheckpointWrite, nextSeq).kind = "Checkpoint"
    BY <1>0 DEF Entry, CheckpointWrite, Write, WalEntry
  <2> QED
    BY <1>0, <1>3, <2>1, OrderedAppend DEF LogCheckpoint
<1>4. CASE Rotate
  BY <1>4 DEF Rotate, Ordered
<1>5. wal' = wal \/ Log \/ LogCheckpoint \/ Rotate
  <2>1. CASE StartOperation
    BY <2>1, ZenonT(40) DEF StartOperation, Insert, InsertBatch, Upsert, UpdateMetadata, UpdateVector,
       Delete, DeleteBatch, Checkpoint, Compact, RebuildIndex, Start, files
  <2>2. CASE Continue
    BY <2>2, ZenonT(40) DEF Continue, ApplyInsert, ApplyUpdateMetadata, ApplyUpdateVector, ApplyDelete,
       ApplyInsertBatch, InsertBatchVectors, SaveIndex, SaveVectorIndex, SaveMetadata,
       SaveWalMeta, OpenFails, OpenClean, OpenAndReplay, ReplaySkip, ReplayDelete,
       ReplayInsert, ReplayDone, ApplyFrame, OpenFrame, files
  <2> QED
    BY <2>1, <2>2 DEF Next, Read, Crash, vars, files
<1> QED
  BY <1>1, <1>2, <1>3, <1>4, <1>5

\* The writes an operation begins with.
LEMMA StartForm ==
  ASSUME NEW name, NEW todo, Start(name, todo),
         \A i, j \in DOMAIN todo : todo[i].id = todo[j].id => todo[i].doc = todo[j].doc,
         name \in {"insert", "upsert", "update_metadata", "update_vector"} => Len(todo) = 1,
         name \in {"delete", "delete_batch"} => \A i \in DOMAIN todo : todo[i].doc = None
  PROVE  OpForm'
BY DEF Start, OpForm

\* An operation of one write.
LEMMA StartFormOne ==
  ASSUME NEW name, NEW w, Start(name, <<w>>),
         name \in {"delete", "delete_batch"} => w.doc = None
  PROVE  OpForm'
BY StartForm

\* The operations of two writes: of two documents, or deletes.
LEMMA StartFormTwo ==
  ASSUME NEW v, NEW w,
         \/ Start("insert_batch", <<v, w>>) /\ v.id # w.id
         \/ Start("delete_batch", <<v, w>>) /\ v.doc = None /\ w.doc = None
  PROVE  OpForm'
<1>1. /\ DOMAIN <<v, w>> = {1, 2} /\ <<v, w>>[1] = v /\ <<v, w>>[2] = w
  OBVIOUS
<1>2. CASE Start("insert_batch", <<v, w>>) /\ v.id # w.id
  <2>1. \A i, j \in DOMAIN <<v, w>> :
          <<v, w>>[i].id = <<v, w>>[j].id => <<v, w>>[i].doc = <<v, w>>[j].doc
    BY <1>1, <1>2
  <2> QED
    BY <1>2, <2>1, StartForm
<1>3. CASE Start("delete_batch", <<v, w>>) /\ v.doc = None /\ w.doc = None
  <2>1. \A i \in DOMAIN <<v, w>> : <<v, w>>[i].doc = None
    BY <1>1, <1>3
  <2> QED
    BY <1>3, <2>1, StartForm
<1> QED
  BY <1>2, <1>3

\* An operation is logged and applied only after it was started.
LEMMA IntoOperation ==
  ASSUME TypeOK, [Next]_vars, pc' \in {"log", "apply"}
  PROVE  \/ Insert \/ InsertBatch \/ Upsert \/ UpdateMetadata \/ UpdateVector
         \/ Delete \/ DeleteBatch \/ Log \/ UNCHANGED vars
<1>0. after \in {"idle", "vec"}
  BY DEF TypeOK
<1>1. CASE StartOperation
  BY <1>1, ZenonT(40) DEF StartOperation, Checkpoint, Compact, RebuildIndex
<1>2. CASE Continue
  BY <1>0, <1>2, ZenonT(40) DEF Continue, ApplyInsert, ApplyUpdateMetadata, ApplyUpdateVector,
     ApplyDelete, ApplyInsertBatch, InsertBatchVectors, TrackOperation, ReturnError,
     SaveIndex, SaveVectorIndex, SaveMetadata, LogCheckpoint,
     SaveWalMeta, Rotate, OpenFails, OpenClean, OpenAndReplay, ReplaySkip, ReplayDelete,
     ReplayInsert, ReplayDone
<1> QED
  BY <1>1, <1>2 DEF Next, Read, Crash

\* The writes of an operation keep their form until it is applied.
LEMMA OpFormStep == TypeOK /\ OpForm /\ [Next]_vars => OpForm'
<1> SUFFICES ASSUME TypeOK, OpForm, [Next]_vars, pc' \in {"log", "apply"} PROVE OpForm'
  BY DEF OpForm
<1>1. CASE UNCHANGED vars \/ Log
  BY <1>1 DEF OpForm, vars, Log
<1>2. CASE Insert \/ Upsert \/ UpdateMetadata \/ UpdateVector
  <2>1. PICK name \in {"insert", "upsert", "update_metadata", "update_vector"} :
          \E w : Start(name, <<w>>)
    BY <1>2 DEF Insert, Upsert, UpdateMetadata, UpdateVector
  <2> QED
    BY <2>1, StartFormOne
<1>3. CASE InsertBatch
  <2>1. PICK a \in Ids, b \in Ids, c \in Docs, d \in Docs :
          a # b /\ Start("insert_batch", <<Write("Insert", a, c), Write("Insert", b, d)>>)
    BY <1>3 DEF InsertBatch
  <2>2. Write("Insert", a, c).id # Write("Insert", b, d).id
    BY <2>1 DEF Write
  <2> QED
    BY <2>1, <2>2, StartFormTwo
<1>4. CASE Delete
  <2>1. PICK id \in Ids : Start("delete", <<Write("Delete", id, None)>>)
    BY <1>4 DEF Delete, Live
  <2>2. Write("Delete", id, None).doc = None
    BY DEF Write
  <2> QED
    BY <2>1, <2>2, StartFormOne
<1>5. CASE DeleteBatch
  <2>1. PICK a \in Ids, b \in Ids :
          Start("delete_batch", <<Write("Delete", a, None), Write("Delete", b, None)>>)
    BY <1>5 DEF DeleteBatch, Live
  <2>2. Write("Delete", a, None).doc = None /\ Write("Delete", b, None).doc = None
    BY DEF Write
  <2> QED
    BY <2>1, <2>2, StartFormTwo
<1> QED
  BY <1>1, <1>2, <1>3, <1>4, <1>5, IntoOperation

-----------------------------------------------------------------------------
(* The dimensions are those of a vector, so no write that is logged fails. *)

\* set_dimensions
LEMMA DimsAfterKnown ==
  ASSUME NEW m, m.dims \in KnownDims, NEW vec \in Vectors
  PROVE  /\ DimsAfter(m, vec) \in KnownDims
         /\ NothingRejected => DimsAfter(m, vec) = DimOf[vec]
BY DEF DimsAfter, KnownDims, NothingRejected

\* insert_internal keeps the dimensions known.
LEMMA InsertInternalDims ==
  ASSUME NEW m, m \in Mem, m.dims \in KnownDims, NEW id \in Ids, NEW doc \in Docs
  PROVE  InsertInternal(m, id, doc).dims \in KnownDims
<1> DEFINE stored == [Pointed(m, id) EXCEPT !.dims = DimsAfter(m, doc.vec)]
<1>1. stored.dims = DimsAfter(m, doc.vec) /\ Indexed(stored, id, doc.vec).dims = stored.dims
  BY DEF Pointed, Indexed, Mem
<1>2. doc.vec \in Vectors
  BY DEF Docs
<1>3. stored.dims \in KnownDims
  BY <1>1, <1>2, DimsAfterKnown
<1> QED
  BY <1>1, <1>3 DEF InsertInternal

\* insert_internal, when nothing is rejected: its effect on the data file
LEMMA InsertInternalStores ==
  ASSUME NothingRejected, NEW m, m.dims \in KnownDims, NEW id \in Ids, NEW doc \in Docs
  PROVE  /\ ~EnforceSingleFails(m, doc)
         /\ InsertInternalOk(m, doc)
         /\ InsertInternalData(m, id, doc) = Put(data, m.cursor, id, doc)
<1>1. ~EnforceSingleFails(m, doc)
  BY DEF NothingRejected, EnforceSingleFails
<1>2. DimsAfter(m, doc.vec) = DimOf[doc.vec]
  BY DimsAfterKnown DEF Docs
<1>3. InsertInternalOk(m, doc)
  BY <1>1, <1>2 DEF InsertInternalOk
<1>4. InsertInternalData(m, id, doc) = Put(data, m.cursor, id, doc)
  BY <1>1 DEF InsertInternalData, Appended, Put
<1> QED
  BY <1>1, <1>3, <1>4

\* its effect on memory
LEMMA InsertInternalEffect ==
  ASSUME NothingRejected, NEW m, Sound(m), m.cursor <= MaxSlots, m.dims \in KnownDims,
         NEW id \in Ids, NEW doc \in Docs
  PROVE  /\ InsertInternal(m, id, doc).index = [m.index EXCEPT ![id] = m.cursor]
         /\ InsertInternal(m, id, doc).vindex = m.vindex \cup {id}
         /\ InsertInternal(m, id, doc).cache = [m.cache EXCEPT ![id] = doc.vec]
<1>1. ~EnforceSingleFails(m, doc)
  BY InsertInternalStores
<1>2. DimsAfter(m, doc.vec) = DimOf[doc.vec]
  BY DimsAfterKnown DEF Docs
<1> DEFINE stored == [Pointed(m, id) EXCEPT !.dims = DimsAfter(m, doc.vec)]
<1>3. stored.dims = DimOf[doc.vec] /\ stored.vindex = m.vindex /\ stored.cache = m.cache
      /\ stored.index = [m.index EXCEPT ![id] = m.cursor]
  BY <1>2 DEF Pointed, Sound, Mem
<1>4. /\ Indexed(stored, id, doc.vec).index = stored.index
      /\ Indexed(stored, id, doc.vec).vindex = m.vindex \cup {id}
      /\ Indexed(stored, id, doc.vec).cache = [m.cache EXCEPT ![id] = doc.vec]
  BY <1>3 DEF Indexed, Pointed, Sound, Mem
<1>5. InsertInternal(m, id, doc) = Indexed(stored, id, doc.vec)
  BY <1>1, <1>3 DEF InsertInternal
<1> QED
  BY <1>3, <1>4, <1>5

\* delete_internal, all of it
LEMMA DeleteInternalEffect ==
  ASSUME NEW m \in Mem, NEW id \in Ids
  PROVE  /\ DeleteInternal(m, id).index = [m.index EXCEPT ![id] = None]
         /\ DeleteInternal(m, id).cursor = m.cursor
         /\ DeleteInternal(m, id).vindex = m.vindex \ {id}
         /\ DeleteInternal(m, id).cache = [m.cache EXCEPT ![id] = None]
         /\ DeleteInternal(m, id).dims = m.dims
BY DEF DeleteInternal, Mem

\* The memory an insert, an upsert or a replayed entry starts from.
LEMMA ReplacedFacts ==
  ASSUME RecoveryInv, NEW id \in Ids, NEW m,
         m = mem \/ m = DeleteInternal(mem, id)
  PROVE  /\ Sound(m) /\ m \in Mem /\ m.cursor = mem.cursor /\ m.dims = mem.dims
         /\ m.dims \in KnownDims
         /\ m.index \in [Ids -> Slots \cup {None}]
         /\ m.index = mem.index \/ m.index = [mem.index EXCEPT ![id] = None]
<1>1. Sound(mem) /\ mem \in Mem /\ mem.dims \in KnownDims
  BY RecoveryFacts DEF RecoveryInv
<1>2. CASE m = mem
  BY <1>1, <1>2 DEF Sound, Mem
<1>3. CASE m = DeleteInternal(mem, id)
  <2>1. /\ Sound(m) /\ m.index = [mem.index EXCEPT ![id] = None]
        /\ m.cursor = mem.cursor /\ m.dims = mem.dims
    BY <1>1, <1>3, DeleteInternalSound, DeleteInternalEffect
  <2> QED
    BY <1>1, <2>1 DEF Sound, Mem
<1> QED
  BY <1>2, <1>3

\* The dimensions stay known.
LEMMA DimsStep == RecoveryInv /\ [Next]_vars => mem'.dims \in KnownDims /\ fDims' \in KnownDims
<1> SUFFICES ASSUME RecoveryInv, [Next]_vars PROVE mem'.dims \in KnownDims /\ fDims' \in KnownDims
  OBVIOUS
<1>0. /\ TypeInv /\ mem \in Mem /\ mem.dims \in KnownDims /\ fDims \in KnownDims
      /\ TypeOK /\ EmptyMem.dims \in KnownDims
  BY RecoveryFacts DEF RecoveryInv, EmptyMem, KnownDims
<1>1. fDims' \in {fDims, mem.dims}
  <2>1. CASE StartOperation
    BY <2>1, ZenonT(40) DEF StartOperation, Insert, InsertBatch, Upsert, UpdateMetadata, UpdateVector,
       Delete, DeleteBatch, Checkpoint, Compact, RebuildIndex, Start, files
  <2>2. CASE Continue
    BY <2>2, ZenonT(40) DEF Continue, Log, ApplyInsert, ApplyUpdateMetadata, ApplyUpdateVector, ApplyDelete,
       ApplyInsertBatch, InsertBatchVectors, SaveIndex, SaveVectorIndex, SaveMetadata,
       LogCheckpoint, Rotate, SaveWalMeta, OpenFails, OpenClean, OpenAndReplay, ReplaySkip,
       ReplayDelete, ReplayInsert, ReplayDone, ApplyFrame, OpenFrame, files
  <2> QED
    BY <2>1, <2>2 DEF Next, Read, Crash, vars, files
<1>2. CASE mem' \in {mem, EmptyMem}
  BY <1>0, <1>1, <1>2
<1>3. CASE ApplyInsert
  <2>1. PICK m : /\ m = mem \/ m = DeleteInternal(mem, op.todo[1].id)
                 /\ mem' = InsertInternal(m, op.todo[1].id, op.todo[1].doc)
    BY <1>3 DEF ApplyInsert
  <2>2. op.todo[1].id \in Ids /\ op.todo[1].doc \in Docs
    BY <1>0, <1>3, FirstWrite DEF ApplyInsert, Storing
  <2> QED
    BY <1>0, <1>1, <2>1, <2>2, ReplacedFacts, InsertInternalDims
<1>4. CASE ApplyUpdateMetadata
  BY <1>0, <1>1, <1>4 DEF ApplyUpdateMetadata, Pointed, Mem
<1>5. CASE ApplyUpdateVector
  <2> DEFINE w == op.todo[1]
             m == [mem EXCEPT !.dims = DimsAfter(mem, w.doc.vec)]
  <2>1. DimsAfter(mem, w.doc.vec) \in KnownDims
    BY <1>0, <1>5, FirstWrite, DimsAfterKnown DEF ApplyUpdateVector, Storing
  <2>2. mem' \in {m, mem, Indexed(Pointed(m, w.id), w.id, w.doc.vec)}
    BY <1>5 DEF ApplyUpdateVector
  <2> QED
    BY <1>0, <1>1, <2>1, <2>2 DEF Indexed, Pointed, Mem
<1>6. CASE ApplyDelete
  BY <1>0, <1>1, <1>6 DEF ApplyDelete, DeleteAll, Mem
<1>7. CASE ApplyInsertBatch
  <2>1. mem' = mem \/ \E index, c : mem' = Repointed(mem, index, c)
    BY <1>7 DEF ApplyInsertBatch
  <2> QED
    BY <1>0, <1>1, <2>1 DEF Repointed, Mem
<1>8. CASE InsertBatchVectors
  <2>1. PICK vindex, cache :
          mem' = WithVectors([mem EXCEPT !.dims = DimsAfter(mem, op.todo[1].doc.vec)],
                             vindex, cache)
    BY <1>8, ZenonT(40) DEF InsertBatchVectors
  <2>2. op.todo[1].doc.vec \in Vectors
    <3>1. op.todo \in Seq(Writes) /\ op.todo # <<>>
          /\ \A i \in DOMAIN op.todo : op.todo[i].kind # "Delete"
      BY <1>0, <1>8, ZenonT(40) DEF InsertBatchVectors, TypeInv, TypeOK, OpShape
    <3> QED
      BY <1>0, <3>1, StoredWrites
  <2> QED
    BY <1>0, <1>1, <2>1, <2>2, DimsAfterKnown DEF WithVectors, Mem
<1>9. CASE Compact
  <2> DEFINE n == Cardinality(Live(mem.index))
  <2>1. n \in 0..MaxSlots
    BY <1>0, LiveBounded DEF TypeInv
  <2> HIDE DEF n
  <2>2. PICK order \in [1..n -> Live(mem.index)], index \in [Ids -> (1..n) \cup {None}] :
          LET copy == [i \in 1..n |-> data[mem.index[order[i]]]]
          IN  mem' = [index |-> index, cursor |-> n + 1, vindex |-> Live(index),
                      cache |-> [id \in Ids |-> IF index[id] = None THEN None
                                                ELSE copy[index[id]].doc.vec],
                      dims |-> IF n = 0 THEN mem.dims ELSE DimsAfter(mem, copy[1].doc.vec)]
    BY <1>9, ZenonT(40) DEF Compact, n
  <2>3. CASE n = 0
    BY <1>0, <1>1, <2>2, <2>3
  <2>4. CASE n # 0
    <3>1. order[1] \in Live(mem.index)
      BY <2>1, <2>4
    <3>2. data[mem.index[order[1]]].doc.vec \in Vectors
      BY <1>0, <1>9, <3>1, FoundType, SMTT(30) DEF Compact, Readable, Live, Mem
    <3>3. mem'.dims = DimsAfter(mem, data[mem.index[order[1]]].doc.vec)
      <4> DEFINE copy == [i \in 1..n |-> data[mem.index[order[i]]]]
      <4>1. copy[1] = data[mem.index[order[1]]]
        BY <2>1, <2>4
      <4>2. mem'.dims = DimsAfter(mem, copy[1].doc.vec)
        BY <2>2, <2>4
      <4> QED
        BY <4>1, <4>2, ZenonT(40)
    <3> QED
      BY <1>0, <1>1, <3>2, <3>3, DimsAfterKnown
  <2> QED
    BY <2>3, <2>4
<1>10. CASE RebuildIndex \/ OpenClean \/ OpenAndReplay \/ ReplayDelete \/ ReplayDone
  <2>1. \A vindex, cache : WithVectors(mem, vindex, cache).dims = mem.dims
    BY <1>0 DEF WithVectors, Mem
  <2>2. \A s, vindex, cache : /\ Loaded(s).dims = fDims
                              /\ WithVectors(Loaded(s), vindex, cache).dims = fDims
    BY DEF WithVectors, Loaded
  <2>3. \A id : DeleteInternal(mem, id).dims = mem.dims
    BY <1>0 DEF DeleteInternal, Mem
  <2>4. mem'.dims \in {mem.dims, fDims, EmptyMem.dims}
    BY <1>10, <2>1, <2>2, <2>3 DEF RebuildIndex, OpenClean, OpenAndReplay, ReplayDelete,
       ReplayDone, LoseMemory
  <2> QED
    BY <1>0, <1>1, <2>4
<1>11. CASE ReplayInsert
  <2>1. PICK m : /\ m = mem \/ m = DeleteInternal(mem, wal[pos].id)
                 /\ mem' \in {InsertInternal(m, wal[pos].id, wal[pos].doc), EmptyMem}
    BY <1>11 DEF ReplayInsert, LoseMemory
  <2>2. wal[pos].id \in Ids /\ wal[pos].doc \in Docs
    BY <1>0, <1>11, EntryFacts DEF ReplayInsert
  <2>3. m \in Mem /\ m.dims \in KnownDims
    BY <2>1, <2>2, ReplacedFacts
  <2>4. InsertInternal(m, wal[pos].id, wal[pos].doc).dims \in KnownDims
    BY <2>2, <2>3, InsertInternalDims
  <2> QED
    BY <1>0, <1>1, <2>1, <2>4
<1>12. CASE StartOperation
  <2>1. mem' = mem \/ Compact \/ RebuildIndex
    BY <1>12 DEF StartOperation, Insert, InsertBatch, Upsert, UpdateMetadata, UpdateVector,
       Delete, DeleteBatch, Checkpoint, Start
  <2> QED
    BY <1>2, <1>9, <1>10, <2>1
<1>13. CASE Continue
  <2>1. \/ mem' \in {mem, EmptyMem}
        \/ ApplyInsert \/ ApplyUpdateMetadata \/ ApplyUpdateVector \/ ApplyDelete
        \/ ApplyInsertBatch \/ InsertBatchVectors
        \/ OpenClean \/ OpenAndReplay \/ ReplayDelete \/ ReplayDone \/ ReplayInsert
    BY <1>13 DEF Continue, Log, SaveIndex, SaveVectorIndex, SaveMetadata, LogCheckpoint, Rotate,
       SaveWalMeta, OpenFails, ReplaySkip, LoseMemory
  <2> QED
    BY <1>2, <1>3, <1>4, <1>5, <1>6, <1>7, <1>8, <1>10, <1>11, <2>1
<1> QED
  BY <1>2, <1>12, <1>13 DEF Next, Read, Crash, LoseMemory, vars

-----------------------------------------------------------------------------
(* Memory stays ahead of the files by what the log holds, step by step.    *)

\* An operation starts: nothing of it is logged.
LEMMA StartDurable ==
  ASSUME RecoveryInv, NEW name, NEW todo, Start(name, todo)
  PROVE  Durable'
<1>1. /\ pc = "idle" /\ pc' = "log" /\ pos' = 1
      /\ UNCHANGED <<data, fIndex, wal, walMeta, mem>>
  BY DEF Start, files
<1>2. Logged' = {}
  BY <1>1 DEF Logged
<1>3. \A id \in Ids : Agrees(id)'
  BY <1>1 DEF RecoveryInv, Durable, Agrees, Recovers
<1> QED
  BY <1>1, <1>2, <1>3 DEF Durable

\* A step between settled states that touches neither the files recovery reads
\* nor a pointer
LEMMA SettledStep ==
  ASSUME RecoveryInv, pc \in Settled, pc' \in Settled, pc' \in Saved => pc \in Saved,
         UNCHANGED <<data, fIndex, wal, walMeta>>, mem'.index = mem.index
  PROVE  Durable'
<1>1. \A id \in Ids : Agrees(id)'
  BY DEF RecoveryInv, Durable, Agrees, Recovers
<1>2. pc' \in Saved => fIndex' = mem'.index
  BY DEF RecoveryInv, Durable
<1> QED
  BY <1>1, <1>2 DEF Durable

\* The steps that only change vectors or other files
LEMMA SettledSteps ==
  ASSUME RecoveryInv,
         Checkpoint \/ InsertBatchVectors \/ RebuildIndex \/ SaveVectorIndex \/ SaveMetadata
  PROVE  Durable'
<1>1. mem \in Mem
  BY RecoveryFacts
<1>2. CASE InsertBatchVectors \/ RebuildIndex
  <2>1. mem'.index = mem.index
    BY <1>1, <1>2, ZenonT(40) DEF InsertBatchVectors, RebuildIndex, WithVectors, Mem
  <2> QED
    BY <1>2, <2>1, SettledStep, ZenonT(40) DEF InsertBatchVectors, RebuildIndex, files
<1>3. CASE Checkpoint \/ SaveVectorIndex \/ SaveMetadata
  BY <1>3, SettledStep DEF Checkpoint, SaveVectorIndex, SaveMetadata, files
<1> QED
  BY <1>2, <1>3

\* The write that is logged, and its place in the operation
LEMMA LogFacts ==
  ASSUME RecoveryInv, Log
  PROVE  /\ op.todo \in Seq(Writes) /\ Len(op.todo) \in Nat /\ pos \in 1..Len(op.todo)
         /\ DOMAIN op.todo = 1..Len(op.todo) /\ pos \in Nat
         /\ op.todo[pos] \in Writes
         /\ Logged = 1..(pos - 1) /\ Logged' = 1..pos
<1>1. /\ op.todo \in Seq(Writes) /\ Len(op.todo) \in Nat /\ pos \in 1..Len(op.todo)
      /\ DOMAIN op.todo = 1..Len(op.todo) /\ pos \in Nat
  BY RecoveryFacts DEF TypeInv, OpShape, Log
<1>2. op.todo[pos] \in Writes
  BY <1>1
<1>3. Logged = 1..(pos - 1) /\ Logged' = 1..pos
  BY <1>1 DEF Logged, Log
<1> QED
  BY <1>1, <1>2, <1>3

\* Wal::log: recovery would end with the write under its id, and under every
\* other one with what it would have ended with before.
LEMMA LogReplayed ==
  ASSUME RecoveryInv, Log, NEW id, NEW doc, Recovers(id, doc)
  PROVE  Replayed(data', fIndex', wal', walMeta', Len(wal') + 1, id,
                  IF op.todo[pos].id = id THEN op.todo[pos].doc ELSE doc)
<1> DEFINE w == op.todo[pos]
           e == Entry(w, nextSeq)
<1>1. wal' = Append(wal, e) /\ UNCHANGED <<data, fIndex, walMeta>>
  BY DEF Log
<1>2. w \in Writes /\ nextSeq \in Nat /\ walMeta < nextSeq
  BY LogFacts, RecoveryFacts DEF RecoveryInv, SequenceInv, Running, Log
<1>3. e \in WalEntry /\ e.id = w.id /\ e.doc = w.doc /\ e.seq > walMeta
  <2>1. e \in WalEntry
    BY <1>2, EntryType
  <2> QED
    BY <1>2, <2>1, RecoveryFacts DEF Entry
<1> HIDE DEF e, w
<1>4. /\ wal \in Seq(WalEntry) /\ walMeta \in Nat /\ Len(wal) \in Nat
      /\ Replayed(data, fIndex, wal, walMeta, Len(wal) + 1, id, doc)
  BY RecoveryFacts DEF Recovers
<1>5. /\ Len(Append(wal, e)) = Len(wal) + 1
      /\ Replayed(data, fIndex, Append(wal, e), walMeta, Len(wal) + 2, id,
                  IF e.id = id /\ e.seq > walMeta THEN e.doc ELSE doc)
  BY <1>3, <1>4, ReplayedAppend
<1>6. Len(wal') + 1 = Len(wal) + 2
  BY <1>1, <1>4, <1>5
<1> QED
  BY <1>1, <1>3, <1>5, <1>6 DEF w

\* The write is what a restart would bring back under its id, and nothing else
\* changes.
LEMMA LogDurable == RecoveryInv /\ Log => Durable'
<1> SUFFICES ASSUME RecoveryInv, Log PROVE Durable'
  OBVIOUS
<1> DEFINE w == op.todo[pos]
<1>1. /\ pc = "log" /\ pc' \in {"log", "apply"} /\ op' = op /\ UNCHANGED <<data, mem>>
  BY DEF Log
<1>2. /\ Len(op.todo) \in Nat /\ pos \in 1..Len(op.todo)
      /\ DOMAIN op.todo = 1..Len(op.todo) /\ pos \in Nat
  BY LogFacts
<1>5. Logged = 1..(pos - 1) /\ Logged' = 1..pos
  BY LogFacts
<1>6. \A id, doc : Recovers(id, doc) =>
        Replayed(data', fIndex', wal', walMeta', Len(wal') + 1, id, IF w.id = id THEN w.doc ELSE doc)
  BY LogReplayed
<1> HIDE DEF w
<1>7. SUFFICES ASSUME NEW id \in Ids
               PROVE  /\ \A j \in 1..pos : op.todo[j].id = id =>
                           Replayed(data', fIndex', wal', walMeta', Len(wal') + 1, id, op.todo[j].doc)
                      /\ (\A j \in 1..pos : op.todo[j].id # id) =>
                           Replayed(data', fIndex', wal', walMeta', Len(wal') + 1, id,
                                    Found(data, mem.index, id))
  BY <1>1, <1>5 DEF Durable, Agrees, Recovers
<1>8. \E doc : Recovers(id, doc)
  <2>1. /\ \A j \in Logged : op.todo[j].id = id => Recovers(id, op.todo[j].doc)
        /\ (\A j \in Logged : op.todo[j].id # id) => Agrees(id)
    BY <1>1 DEF RecoveryInv, Durable
  <2> QED
    BY <2>1 DEF Agrees
<1>9. ASSUME NEW j \in 1..pos, op.todo[j].id = id
      PROVE  Replayed(data', fIndex', wal', walMeta', Len(wal') + 1, id, op.todo[j].doc)
  <2>1. CASE w.id = id
    <3>1. op.todo[j].doc = w.doc
      BY <1>1, <1>2, <1>9, <2>1 DEF RecoveryInv, OpForm, w
    <3> QED
      BY <1>6, <1>8, <2>1, <3>1
  <2>2. CASE w.id # id
    <3>1. j \in Logged
      BY <1>2, <1>5, <1>9, <2>2 DEF w
    <3>2. Recovers(id, op.todo[j].doc)
      BY <1>1, <1>9, <3>1 DEF RecoveryInv, Durable
    <3> QED
      BY <1>6, <2>2, <3>2
  <2> QED
    BY <2>1, <2>2
<1>10. ASSUME \A j \in 1..pos : op.todo[j].id # id
       PROVE  Replayed(data', fIndex', wal', walMeta', Len(wal') + 1, id, Found(data, mem.index, id))
  <2>1. w.id # id /\ \A j \in Logged : op.todo[j].id # id
    BY <1>2, <1>5, <1>10 DEF w
  <2>2. Recovers(id, Found(data, mem.index, id))
    BY <1>1, <2>1 DEF RecoveryInv, Durable, Agrees
  <2> QED
    BY <1>6, <2>1, <2>2
<1> QED
  BY <1>9, <1>10

\* An operation has been applied: under each of its ids memory holds what it has
\* logged, and under the others what it held before.
LEMMA AppliedDurable ==
  ASSUME RecoveryInv, pc = "apply", pc' \in {"idle", "vec", "ckIndex"},
         UNCHANGED <<fIndex, wal, walMeta>>,
         \A id \in Ids : Found(data', fIndex, id) = Found(data, fIndex, id),
         \A id \in Ids : \A j \in DOMAIN op.todo :
           op.todo[j].id = id => Found(data', mem'.index, id) = op.todo[j].doc,
         \A id \in Ids : (\A j \in DOMAIN op.todo : op.todo[j].id # id) =>
           Found(data', mem'.index, id) = Found(data, mem.index, id)
  PROVE  Durable'
<1> SUFFICES ASSUME NEW id \in Ids PROVE Agrees(id)'
  BY DEF Durable
<1>1. Recovers(id, Found(data', mem'.index, id))
  BY DEF RecoveryInv, Durable, Logged, Agrees
<1> QED
  BY <1>1, ReplayedFiles DEF Agrees, Recovers

\* Where control goes when an operation has been applied.
LEMMA ApplyTarget ==
  ASSUME NEW next \in {"idle", "vec"}, TrackOperation(next) \/ ReturnError
  PROVE  pc' \in {"idle", "vec", "ckIndex"}
BY DEF TrackOperation, ReturnError

\* A document stored at the cursor under the one id the operation is about.
LEMMA StoredDurable ==
  ASSUME RecoveryInv, pc = "apply", pc' \in {"idle", "vec", "ckIndex"},
         UNCHANGED <<fIndex, wal, walMeta>>,
         op.name \in {"insert", "upsert", "update_metadata", "update_vector"},
         NEW index, index = mem.index \/ index = [mem.index EXCEPT ![op.todo[1].id] = None],
         data' = Put(data, mem.cursor, op.todo[1].id, op.todo[1].doc),
         mem'.index = [index EXCEPT ![op.todo[1].id] = mem.cursor]
  PROVE  Durable'
<1> DEFINE w == op.todo[1]
<1>0. /\ TypeInv /\ Storing /\ mem.cursor \in Nat \ {0}
  BY RecoveryFacts, ConstantsAssumption DEF Storing, Mem
<1>1. /\ w.id \in Ids /\ w.doc \in Docs /\ mem.cursor \in Slots
  BY <1>0, FirstWrite, ConstantsAssumption DEF Slots
<1>2. \A j \in DOMAIN op.todo : op.todo[j] = w
  <2>1. Len(op.todo) = 1
    BY DEF RecoveryInv, OpForm
  <2> QED
    BY <2>1, RecoveryFacts
<1>3. 1 \in DOMAIN op.todo
  BY <1>0, FirstWrite
<1>4. /\ data \in [Slots -> Records \cup {None}]
      /\ fIndex \in [Ids -> Slots \cup {None}] /\ Below(fIndex, mem.cursor)
      /\ mem.index \in [Ids -> Slots \cup {None}] /\ Below(mem.index, mem.cursor)
  BY RecoveryFacts, FileFacts DEF Running
<1>5. data' = Put(data, mem.cursor, w.id, w.doc)
  OBVIOUS
<1>6. mem'.index = [mem.index EXCEPT ![w.id] = mem.cursor]
  BY <1>1, <1>4
<1> HIDE DEF w
<1>7. \A id \in Ids : Found(data', fIndex, id) = Found(data, fIndex, id)
  BY <1>1, <1>4, <1>5, FoundKept
<1>8. \A id \in Ids : Found(data', mem'.index, id)
                        = IF id = w.id THEN w.doc ELSE Found(data, mem.index, id)
  BY <1>1, <1>4, <1>5, <1>6, FoundAppended
<1>9. \A id \in Ids : \A j \in DOMAIN op.todo :
        op.todo[j].id = id => Found(data', mem'.index, id) = op.todo[j].doc
  BY <1>2, <1>8
<1>10. \A id \in Ids : (\A j \in DOMAIN op.todo : op.todo[j].id # id) =>
         Found(data', mem'.index, id) = Found(data, mem.index, id)
  BY <1>2, <1>3, <1>8
<1> QED
  BY <1>7, <1>9, <1>10, AppliedDurable

\* insert and upsert, applied
LEMMA ApplyInsertDurable == NothingRejected /\ RecoveryInv /\ ApplyInsert => Durable'
<1> SUFFICES ASSUME NothingRejected, RecoveryInv, ApplyInsert PROVE Durable'
  OBVIOUS
<1> DEFINE w == op.todo[1]
           m == IF w.kind = "Update" THEN DeleteInternal(mem, w.id) ELSE mem
<1>1. w.id \in Ids /\ w.doc \in Docs /\ mem.cursor <= MaxSlots
  BY RecoveryFacts, FirstWrite DEF ApplyInsert, Storing
<1>2. /\ Sound(m) /\ m.cursor = mem.cursor /\ m.dims \in KnownDims
      /\ m.index = mem.index \/ m.index = [mem.index EXCEPT ![w.id] = None]
  BY <1>1, ReplacedFacts
<1>3. /\ mem' = InsertInternal(m, w.id, w.doc)
      /\ data' = InsertInternalData(m, w.id, w.doc)
      /\ TrackOperation("idle") \/ ReturnError
      /\ UNCHANGED <<fIndex, wal, walMeta>>
      /\ pc = "apply" /\ op.name \in {"insert", "upsert"}
  BY DEF ApplyInsert, ApplyFrame
<1> HIDE DEF m, w
<1>e. m.cursor <= MaxSlots
  BY <1>1, <1>2
<1>4. /\ mem'.index = [m.index EXCEPT ![w.id] = m.cursor]
      /\ data' = Put(data, m.cursor, w.id, w.doc)
  <2>1. InsertInternalData(m, w.id, w.doc) = Put(data, m.cursor, w.id, w.doc)
    BY <1>1, <1>2, InsertInternalStores
  <2>2. InsertInternal(m, w.id, w.doc).index = [m.index EXCEPT ![w.id] = m.cursor]
    BY <1>e, <1>1, <1>2, InsertInternalEffect, ZenonT(40)
  <2> QED
    BY <1>3, <2>1, <2>2
<1> QED
  BY <1>2, <1>3, <1>4, ApplyTarget, StoredDurable DEF w

\* update_metadata and update_vector, applied
LEMMA ApplyUpdateDurable ==
  NothingRejected /\ RecoveryInv /\ (ApplyUpdateMetadata \/ ApplyUpdateVector) => Durable'
<1> SUFFICES ASSUME NothingRejected, RecoveryInv, ApplyUpdateMetadata \/ ApplyUpdateVector
             PROVE  Durable'
  OBVIOUS
<1> DEFINE w == op.todo[1]
           m == [mem EXCEPT !.dims = DimsAfter(mem, w.doc.vec)]
<1>0. op.name \in {"update_metadata", "update_vector"} /\ pc = "apply"
  BY DEF ApplyUpdateMetadata, ApplyUpdateVector
<1>1. /\ w.doc.vec \in Vectors /\ mem \in Mem /\ w.doc \in Docs
      /\ mem.dims \in KnownDims
  BY <1>0, RecoveryFacts, FirstWrite DEF Storing, RecoveryInv
<1>2. ~EnforceSingleFails(mem, w.doc) /\ m.dims = DimOf[w.doc.vec]
  <2>1. DimsAfter(mem, w.doc.vec) = DimOf[w.doc.vec]
    BY <1>1, DimsAfterKnown
  <2> QED
    BY <1>1, <2>1 DEF NothingRejected, EnforceSingleFails, Mem
<1>3. /\ \/ mem' = Pointed(mem, w.id)
         \/ mem' = Indexed(Pointed(m, w.id), w.id, w.doc.vec)
      /\ data' = Appended(mem, w.id, w.doc)
      /\ TrackOperation("idle")
      /\ UNCHANGED <<fIndex, wal, walMeta>>
  BY <1>2 DEF ApplyUpdateMetadata, ApplyUpdateVector, ApplyFrame
<1>4. /\ mem'.index = [mem.index EXCEPT ![w.id] = mem.cursor]
      /\ data' = Put(data, mem.cursor, w.id, w.doc)
  BY <1>1, <1>3 DEF Pointed, Indexed, Appended, Put, Mem
<1> QED
  BY <1>0, <1>3, <1>4, ApplyTarget, StoredDurable

\* delete and delete_batch, applied
LEMMA ApplyDeleteDurable == RecoveryInv /\ ApplyDelete => Durable'
<1> SUFFICES ASSUME RecoveryInv, ApplyDelete PROVE Durable'
  OBVIOUS
<1> DEFINE ids == {op.todo[i].id : i \in DOMAIN op.todo}
<1>1. /\ pc = "apply" /\ op.name \in {"delete", "delete_batch"} /\ mem' = DeleteAll(mem, ids)
      /\ data' = data /\ UNCHANGED <<fIndex, wal, walMeta>> /\ TrackOperation("idle")
  BY DEF ApplyDelete, ApplyFrame
<1>2. \A i \in DOMAIN op.todo : op.todo[i].doc = None
  BY <1>1 DEF RecoveryInv, OpForm
<1> HIDE DEF ids
<1>3. mem'.index = [id \in Ids |-> IF id \in ids THEN None ELSE mem.index[id]]
  BY <1>1, RecoveryFacts, DeleteAllSound
<1>4. \A id \in Ids : Found(data', mem'.index, id)
                        = IF id \in ids THEN None ELSE Found(data, mem.index, id)
  BY <1>1, <1>3 DEF Found
<1>5. \A id \in Ids : \A j \in DOMAIN op.todo :
        op.todo[j].id = id => Found(data', mem'.index, id) = op.todo[j].doc
  BY <1>2, <1>4 DEF ids
<1>6. \A id \in Ids : (\A j \in DOMAIN op.todo : op.todo[j].id # id) =>
        Found(data', mem'.index, id) = Found(data, mem.index, id)
  BY <1>4 DEF ids
<1> QED
  BY <1>1, <1>5, <1>6, ApplyTarget, AppliedDurable

\* insert_batch, applied up to its checkpoint, seen from each id: its documents
\* are found, the others as before, and the vector index has not heard of it.
LEMMA BatchSeen ==
  ASSUME PointerInv, OpForm, ApplyInsertBatch, ~EnforceBatchFails(mem, op.todo)
  PROVE  /\ mem'.vindex = mem.vindex /\ mem'.cache = mem.cache
         /\ \A id \in Ids : Found(data', fIndex, id) = Found(data, fIndex, id)
         /\ \A id \in Ids : (\A j \in DOMAIN op.todo : op.todo[j].id # id) =>
              /\ mem'.index[id] = mem.index[id]
              /\ Found(data', mem'.index, id) = Found(data, mem.index, id)
         /\ \A id \in Ids : \A j \in DOMAIN op.todo : op.todo[j].id = id =>
              /\ mem'.index[id] # None
              /\ Found(data', mem'.index, id) = op.todo[j].doc
<1> DEFINE n == Len(op.todo)
           at(id) == CHOOSE i \in 1..n : op.todo[i].id = id
           index == [id \in Ids |-> IF \E i \in 1..n : op.todo[i].id = id
                                    THEN mem.cursor + at(id) - 1 ELSE mem.index[id]]
<1>0. /\ TypeInv /\ pc = "apply" /\ Running /\ mem \in Mem
  BY DEF ApplyInsertBatch, Running, PointerInv, TypeInv, TypeOK
<1>1. /\ n \in Nat /\ n >= 1 /\ mem.cursor \in Nat \ {0} /\ mem.cursor + n <= MaxSlots + 1
      /\ \A i \in 1..n : op.todo[i].id \in Ids /\ op.todo[i].doc \in Docs
  BY <1>0, FirstWrite, StoredWrites
     DEF ApplyInsertBatch, TypeInv, TypeOK, OpShape, Storing, Mem
<1>2. /\ data' = [s \in Slots |->
                    IF \E i \in 1..n : s = mem.cursor + i - 1
                    THEN Record(op.todo[s - mem.cursor + 1].id,
                                op.todo[s - mem.cursor + 1].doc)
                    ELSE data[s]]
      /\ mem' = Repointed(mem, index, mem.cursor + n)
  BY DEF ApplyInsertBatch
<1>3. \A id \in Ids : (\E i \in 1..n : op.todo[i].id = id) =>
                        at(id) \in 1..n /\ op.todo[at(id)].id = id
  OBVIOUS
<1>4. DOMAIN op.todo = 1..n
      /\ \A i, j \in 1..n : op.todo[i].id = op.todo[j].id => op.todo[i].doc = op.todo[j].doc
  BY <1>0 DEF TypeInv, TypeOK, OpForm
<1> HIDE DEF n, at
<1>5. mem'.index = index /\ mem'.vindex = mem.vindex /\ mem'.cache = mem.cache
  BY <1>0, <1>2 DEF Repointed, Mem
<1>6. \A s \in Slots : s < mem.cursor => data'[s] = data[s]
  BY <1>1, <1>2 DEF Slots
<1>7. \A i \in 1..n : /\ data'[mem.cursor + i - 1] # None
                      /\ data'[mem.cursor + i - 1].doc = op.todo[i].doc
                      /\ mem.cursor + i - 1 # None
  <2> SUFFICES ASSUME NEW i \in 1..n
               PROVE  /\ data'[mem.cursor + i - 1] # None
                      /\ data'[mem.cursor + i - 1].doc = op.todo[i].doc
                      /\ mem.cursor + i - 1 # None
    OBVIOUS
  <2>1. mem.cursor + i - 1 \in Slots /\ (mem.cursor + i - 1) - mem.cursor + 1 = i
    BY <1>1, ConstantsAssumption DEF Slots
  <2>2. data'[mem.cursor + i - 1] = Record(op.todo[i].id, op.todo[i].doc)
    BY <1>2, <2>1
  <2> QED
    BY <1>1, <2>1, <2>2, NoneFacts DEF Record, Records
<1>8. \A id \in Ids : Found(data', fIndex, id) = Found(data, fIndex, id)
  <2>1. \A id \in Ids : fIndex[id] # None => fIndex[id] \in Slots /\ fIndex[id] < mem.cursor
    BY <1>0, FileFacts DEF Live, Below
  <2> QED
    BY <1>6, <2>1 DEF Found
<1>9. ASSUME NEW id \in Ids, \A j \in 1..n : op.todo[j].id # id
      PROVE  /\ mem'.index[id] = mem.index[id]
             /\ Found(data', mem'.index, id) = Found(data, mem.index, id)
  <2>1. mem.index[id] # None => mem.index[id] \in Slots /\ mem.index[id] < mem.cursor
    BY <1>0, FileFacts DEF Live, Below
  <2>2. index[id] = mem.index[id]
    BY <1>9
  <2> HIDE DEF index
  <2> QED
    BY <1>5, <1>6, <2>1, <2>2 DEF Found
<1>10. ASSUME NEW id \in Ids, NEW j \in 1..n, op.todo[j].id = id
       PROVE  mem'.index[id] # None /\ Found(data', mem'.index, id) = op.todo[j].doc
  <2>1. at(id) \in 1..n /\ op.todo[at(id)].id = id
    BY <1>3, <1>10
  <2>2. index[id] = mem.cursor + at(id) - 1
    BY <1>10
  <2> HIDE DEF index
  <2>3. index[id] # None /\ Found(data', index, id) = op.todo[at(id)].doc
    BY <1>7, <2>1, <2>2 DEF Found
  <2>4. op.todo[at(id)].doc = op.todo[j].doc
    BY <1>4, <1>10, <2>1
  <2> QED
    BY <1>5, <2>3, <2>4
<1> HIDE DEF index
<1> QED
  BY <1>4, <1>5, <1>8, <1>9, <1>10

\* insert_batch, applied up to its checkpoint
LEMMA ApplyInsertBatchDurable == NothingRejected /\ RecoveryInv /\ ApplyInsertBatch => Durable'
<1> SUFFICES ASSUME NothingRejected, RecoveryInv, ApplyInsertBatch PROVE Durable'
  OBVIOUS
<1>1. PointerInv /\ OpForm /\ pc = "apply" /\ UNCHANGED <<fIndex, wal, walMeta>>
  BY DEF RecoveryInv, ApplyInsertBatch, ApplyFrame
<1>2. ~EnforceBatchFails(mem, op.todo)
  BY DEF EnforceBatchFails, NothingRejected
<1>3. TrackOperation("vec")
  BY <1>2 DEF ApplyInsertBatch
<1> QED
  BY <1>1, <1>2, <1>3, BatchSeen, ApplyTarget, AppliedDurable

\* Compaction copies every live record, each to the slot of its own id.
LEMMA CompactFound ==
  ASSUME TypeInv, Home(data, mem.index), Compact
  PROVE  /\ Live(mem'.index) = Live(mem.index)
         /\ \A id \in Ids : Found(data', mem'.index, id) = Found(data, mem.index, id)
         /\ \A id \in Ids : mem'.cache[id] = IF id \in Live(mem.index)
                                             THEN data[mem.index[id]].doc.vec ELSE None
         /\ mem'.vindex = Live(mem.index)
<1> DEFINE live == Live(mem.index)
           n == Cardinality(live)
<1>1. n \in 0..MaxSlots /\ IsFiniteSet(live)
  BY LiveBounded DEF TypeInv
<1>2. PICK order \in [1..n -> live], index \in [Ids -> (1..n) \cup {None}] :
        /\ \A i, j \in 1..n : order[i] = order[j] => i = j
        /\ LET copy == [i \in 1..n |-> data[mem.index[order[i]]]]
           IN  /\ \A id \in Ids : IF index[id] = None THEN \A i \in 1..n : copy[i].id # id
                                                      ELSE copy[index[id]].id = id
               /\ data' = [s \in Slots |-> IF s <= n THEN copy[s] ELSE None]
               /\ mem' = [index |-> index, cursor |-> n + 1, vindex |-> Live(index),
                          cache |-> [id \in Ids |-> IF index[id] = None THEN None
                                                    ELSE copy[index[id]].doc.vec],
                          dims |-> IF n = 0 THEN mem.dims ELSE DimsAfter(mem, copy[1].doc.vec)]
  BY ZenonT(40) DEF Compact
<1>3. \A id \in live : \E i \in 1..n : order[i] = id
  <2> SUFFICES ASSUME NEW id \in live, \A i \in 1..n : order[i] # id PROVE FALSE
    OBVIOUS
  <2>1. IsFiniteSet(1..n) /\ Cardinality(1..n) = n
    BY <1>1, FS_Interval
  <2>2. IsFiniteSet(live \ {id}) /\ Cardinality(live \ {id}) = n - 1
    BY <1>1, FS_RemoveElement
  <2>3. order \in [1..n -> live \ {id}]
    OBVIOUS
  <2>4. Cardinality(live \ {id}) < Cardinality(1..n)
    BY <1>1, <2>1, <2>2
  <2> DEFINE S == 1..n
             T == live \ {id}
  <2>5. IsFiniteSet(S) /\ IsFiniteSet(T) /\ Cardinality(T) < Cardinality(S) /\ order \in [S -> T]
    BY <2>1, <2>2, <2>3, <2>4
  <2>6. \E i, j \in S : i # j /\ order[i] = order[j]
    <3> HIDE DEF S, T
    <3> QED
      BY <2>5, FS_PigeonHole
  <2> QED
    BY <1>2, <2>6
<1> HIDE DEF n
<1> DEFINE copy == [i \in 1..n |-> data[mem.index[order[i]]]]
<1>4. \A i \in 1..n : copy[i] = data[mem.index[order[i]]] /\ copy[i] # None
                      /\ copy[i].id = order[i] /\ order[i] \in live /\ i \in Slots /\ i # None
                      /\ data'[i] = copy[i]
  <2>1. \A id \in live : data[mem.index[id]] # None /\ data[mem.index[id]].id = id
    BY DEF Home
  <2>2. \A i \in 1..n : i \in Slots /\ i <= n
    BY <1>1, ConstantsAssumption DEF Slots
  <2> QED
    BY <1>2, <2>1, <2>2, NoneFacts
<1>5. /\ \A id \in Ids : IF index[id] = None THEN \A i \in 1..n : copy[i].id # id
                                             ELSE copy[index[id]].id = id
      /\ mem'.index = index /\ mem'.vindex = Live(index)
      /\ mem'.cache = [id \in Ids |-> IF index[id] = None THEN None
                                      ELSE copy[index[id]].doc.vec]
  BY <1>2
<1> HIDE DEF copy
<1>6. \A id \in Ids : index[id] # None =>
        index[id] \in 1..n /\ id \in live /\ copy[index[id]] = data[mem.index[id]]
  <2> SUFFICES ASSUME NEW id \in Ids, index[id] # None
               PROVE  index[id] \in 1..n /\ id \in live /\ copy[index[id]] = data[mem.index[id]]
    OBVIOUS
  <2>1. index[id] \in 1..n /\ copy[index[id]].id = id
    BY <1>5
  <2>2. order[index[id]] = id
    BY <1>4, <2>1
  <2> QED
    BY <1>4, <2>1, <2>2
<1>7. \A id \in live : index[id] # None
  BY <1>3, <1>4, <1>5 DEF Live
<1>8. Live(index) = live
  BY <1>6, <1>7 DEF Live
<1>9. \A id \in Ids : Found(data', index, id) = Found(data, mem.index, id)
  BY <1>4, <1>6, <1>7 DEF Found, Live
<1>10. \A id \in Ids : mem'.cache[id] = IF id \in live THEN data[mem.index[id]].doc.vec ELSE None
  BY <1>5, <1>6, <1>7
<1> QED
  BY <1>5, <1>8, <1>9, <1>10

\* compact: readers find what they found, and what is still in the log is what
\* they find.
LEMMA CompactDurable == RecoveryInv /\ Compact => Durable'
<1> SUFFICES ASSUME RecoveryInv, Compact,
                    NEW id \in Ids, Met(wal, walMeta, id, Len(wal) + 1) # {}
             PROVE  Replayed(data', fIndex, wal, walMeta, Len(wal) + 1, id,
                             Found(data', mem'.index, id))
  BY ZenonT(40) DEF Compact, Durable, Agrees, Recovers
<1>1. TypeInv /\ Home(data, mem.index)
  BY RecoveryFacts DEF PointerInv, Pointers
<1>2. Found(data', mem'.index, id) = Found(data, mem.index, id)
  BY <1>1, CompactFound
<1>3. Recovers(id, Found(data, mem.index, id))
  BY DEF RecoveryInv, Durable, Compact, Agrees
<1> QED
  BY <1>2, <1>3 DEF Recovers, Replayed

\* save_index: the files find what memory finds.
LEMMA SaveIndexDurable == RecoveryInv /\ SaveIndex => Durable'
<1> SUFFICES ASSUME RecoveryInv, SaveIndex PROVE Durable'
  OBVIOUS
<1>1. /\ pc \in {"ckIndex", "cpIndex"} /\ pc' \in Saved /\ fIndex' = mem.index
      /\ UNCHANGED <<data, wal, walMeta, mem>>
  BY DEF SaveIndex
<1>2. ASSUME NEW id \in Ids
      PROVE  Replayed(data, mem.index, wal, walMeta, Len(wal) + 1, id, Found(data, mem.index, id))
  <2>1. CASE Met(wal, walMeta, id, Len(wal) + 1) = {}
    BY <2>1 DEF Replayed
  <2>2. CASE Met(wal, walMeta, id, Len(wal) + 1) # {}
    <3>1. Recovers(id, Found(data, mem.index, id))
      BY <1>1, <2>2 DEF RecoveryInv, Durable, Agrees
    <3> QED
      BY <3>1, ReplayedSaved DEF Recovers
  <2> QED
    BY <2>1, <2>2
<1> QED
  BY <1>1, <1>2 DEF Durable, Agrees, Recovers

\* Wal::checkpoint: its entry is not replayed under any id.
LEMMA LogCheckpointDurable == RecoveryInv /\ LogCheckpoint => Durable'
<1> SUFFICES ASSUME RecoveryInv, LogCheckpoint PROVE Durable'
  OBVIOUS
<1> DEFINE e == Entry(CheckpointWrite, nextSeq)
<1>1. /\ pc \in Saved /\ pc' \in Saved /\ wal' = Append(wal, e)
      /\ UNCHANGED <<data, fIndex, walMeta, mem>>
  BY DEF LogCheckpoint
<1>2. e \in WalEntry /\ \A id \in Ids : e.id # id
  <2>1. e \in WalEntry
    BY EntryType, RecoveryFacts
  <2> QED
    BY <2>1, ConstantsAssumption DEF Entry, CheckpointWrite, Write
<1> HIDE DEF e
<1>3. ASSUME NEW id \in Ids
      PROVE  Replayed(data, fIndex, wal', walMeta, Len(wal') + 1, id, Found(data, mem.index, id))
  <2>1. /\ wal \in Seq(WalEntry) /\ walMeta \in Nat /\ Len(wal) \in Nat
        /\ Replayed(data, fIndex, wal, walMeta, Len(wal) + 1, id, Found(data, mem.index, id))
    BY <1>1, RecoveryFacts DEF RecoveryInv, Durable, Agrees, Recovers
  <2>2. /\ Len(Append(wal, e)) = Len(wal) + 1
        /\ Replayed(data, fIndex, Append(wal, e), walMeta, Len(wal) + 2, id,
                    IF e.id = id /\ e.seq > walMeta THEN e.doc ELSE Found(data, mem.index, id))
    BY <1>2, <2>1, ReplayedAppend
  <2>3. Len(wal') + 1 = Len(wal) + 2
    BY <1>1, <2>1, <2>2
  <2> QED
    BY <1>1, <1>2, <2>2, <2>3
<1>4. fIndex = mem.index
  BY <1>1 DEF RecoveryInv, Durable
<1> QED
  BY <1>1, <1>3, <1>4 DEF Durable, Agrees, Recovers

\* save_wal_meta: no entry that matters is passed over.
LEMMA SaveWalMetaDurable == RecoveryInv /\ SaveWalMeta => Durable'
<1> SUFFICES ASSUME RecoveryInv, SaveWalMeta PROVE Durable'
  OBVIOUS
<1>1. /\ pc \in Saved /\ pc' \in Saved /\ walMeta' = nextSeq - 1
      /\ UNCHANGED <<data, fIndex, wal, mem>> /\ fIndex = mem.index
  BY DEF SaveWalMeta, RecoveryInv, Durable
<1>2. walMeta \in Nat /\ walMeta' \in Nat /\ walMeta <= walMeta'
  BY <1>1, RecoveryFacts DEF RecoveryInv, SequenceInv, Running
<1>3. ASSUME NEW id \in Ids
      PROVE  Replayed(data, fIndex, wal, walMeta', Len(wal) + 1, id, Found(data, fIndex, id))
  <2>1. Replayed(data, fIndex, wal, walMeta, Len(wal) + 1, id, Found(data, fIndex, id))
    BY <1>1 DEF RecoveryInv, Durable, Agrees, Recovers
  <2>2. wal \in Seq(WalEntry) /\ Ordered(wal)
    BY RecoveryFacts DEF RecoveryInv
  <2> QED
    BY <1>2, <2>1, <2>2, ReplayedMark
<1> QED
  BY <1>1, <1>3 DEF Durable, Agrees, Recovers

\* Wal::rotate: the log goes when the files hold everything.
LEMMA RotateDurable == RecoveryInv /\ Rotate => Durable'
<1> SUFFICES ASSUME RecoveryInv, Rotate PROVE Durable'
  OBVIOUS
<1>1. /\ pc \in Saved /\ pc' \in {"idle", "vec"} /\ wal' = <<>>
      /\ UNCHANGED <<data, fIndex, walMeta, mem>>
  BY RecoveryFacts DEF Rotate
<1>2. fIndex = mem.index
  BY <1>1 DEF RecoveryInv, Durable
<1>3. \A id \in Ids : Agrees(id)'
  BY <1>1, <1>2 DEF Agrees, Recovers, Replayed, Met
<1> QED
  BY <1>1, <1>3 DEF Durable

\* Opening a collection: memory is what the files hold, and the log is still to
\* be replayed if there is anything in it.
LEMMA OpenDurable ==
  ASSUME RecoveryInv, OpenClean \/ OpenAndReplay
  PROVE  Durable'
<1>1. /\ \/ pc' = "idle" /\ ~ReplayPending
         \/ pc' = "replay" /\ pos' = 1
      /\ UNCHANGED <<data, fIndex, wal, walMeta>>
  BY DEF OpenClean, OpenAndReplay, OpenFrame, files
<1>2. mem'.index = fIndex
  <2>1. \A s, vindex, cache : /\ Loaded(s).index = fIndex
                              /\ WithVectors(Loaded(s), vindex, cache).index = fIndex
    BY DEF Loaded, WithVectors
  <2> QED
    BY <2>1 DEF OpenClean, OpenAndReplay
<1>3. wal \in Seq(WalEntry) /\ DOMAIN wal = 1..Len(wal) /\ Len(wal) \in Nat
  BY RecoveryFacts
<1>4. CASE pc' = "idle" /\ ~ReplayPending
  <2>1. \A id, n : Met(wal, walMeta, id, n) = {}
    BY <1>4 DEF Met, ReplayPending
  <2> QED
    BY <1>1, <1>2, <1>4, <2>1 DEF Durable, Agrees, Recovers, Replayed
<1>5. CASE pc' = "replay" /\ pos' = 1
  <2>1. \A id : Met(wal, walMeta, id, 1) = {}
    BY <1>3 DEF Met
  <2>2. pos' \in 1..(Len(wal) + 1)
    BY <1>3, <1>5
  <2> QED
    BY <1>1, <1>2, <1>5, <2>1, <2>2 DEF Durable, Replayed
<1> QED
  BY <1>1, <1>4, <1>5

\* Recovery goes on to the next entry: under the id of the one it has replayed
\* it has the entry's document.
LEMMA ReplayedDurable ==
  ASSUME RecoveryInv, pc = "replay", pc' = "replay", pos <= Len(wal), pos' = pos + 1,
         UNCHANGED <<fIndex, wal, walMeta>>,
         \A id \in Ids : Found(data', fIndex, id) = Found(data, fIndex, id),
         \A id \in Ids : Found(data', mem'.index, id)
                           = IF wal[pos].id = id /\ wal[pos].seq > walMeta
                             THEN wal[pos].doc ELSE Found(data, mem.index, id)
  PROVE  Durable'
<1>1. wal \in Seq(WalEntry) /\ walMeta \in Nat /\ pos \in 1..Len(wal) /\ Len(wal) \in Nat
  BY RecoveryFacts
<1>2. ASSUME NEW id \in Ids
      PROVE  Replayed(data', fIndex, wal, walMeta, pos + 1, id, Found(data', mem'.index, id))
  <2>1. Replayed(data, fIndex, wal, walMeta, pos, id, Found(data, mem.index, id))
    BY DEF RecoveryInv, Durable
  <2>2. Replayed(data, fIndex, wal, walMeta, pos + 1, id,
                 IF wal[pos].id = id /\ wal[pos].seq > walMeta
                 THEN wal[pos].doc ELSE Found(data, mem.index, id))
    BY <1>1, <2>1, ReplayedEntry
  <2>3. Replayed(data, fIndex, wal, walMeta, pos + 1, id, Found(data', mem'.index, id))
    BY <2>2
  <2> QED
    BY <2>3, ReplayedFiles
<1>3. pos' \in 1..(Len(wal) + 1)
  BY <1>1
<1> QED
  BY <1>2, <1>3 DEF Durable

\* What the kinds of log entries are about
LEMMA EntryKinds ==
  ASSUME NEW e \in WalEntry
  PROVE  /\ e.seq \in Nat
         /\ e.kind = "Checkpoint" => e.id = None
         /\ e.kind = "Delete" => e.doc = None /\ e.id \in Ids
BY DEF WalEntry

\* Recovery passes an entry of the last checkpoint, or replays a delete.
LEMMA ReplayForgetDurable ==
  ASSUME RecoveryInv, ReplaySkip \/ ReplayDelete
  PROVE  Durable'
<1> DEFINE e == wal[pos]
<1>1. /\ pc = "replay" /\ pc' = "replay" /\ pos <= Len(wal) /\ pos' = pos + 1
      /\ UNCHANGED <<data, fIndex, wal, walMeta>>
  BY DEF ReplaySkip, ReplayDelete, files
<1>2. /\ walMeta \in Nat /\ mem \in Mem /\ Sound(mem)
      /\ e.seq \in Nat
      /\ e.kind = "Checkpoint" => e.id = None
      /\ e.kind = "Delete" => e.doc = None /\ e.id \in Ids
  <2>1. e \in WalEntry
    BY <1>1, RecoveryFacts, EntryFacts
  <2> QED
    BY <2>1, EntryKinds, RecoveryFacts
<1>3. CASE ReplaySkip
  <2>1. ~(e.seq > walMeta) \/ \A id \in Ids : e.id # id
    BY <1>2, <1>3, ConstantsAssumption DEF ReplaySkip
  <2>2. mem' = mem
    BY <1>3 DEF ReplaySkip
  <2> HIDE DEF e
  <2>3. \A id \in Ids : Found(data', mem'.index, id)
                          = IF e.id = id /\ e.seq > walMeta
                            THEN e.doc ELSE Found(data, mem.index, id)
    BY <1>1, <2>1, <2>2
  <2> QED
    BY <1>1, <2>3, ReplayedDurable DEF e
<1>4. CASE ReplayDelete
  <2>1. e.seq > walMeta /\ e.kind = "Delete" /\ e.doc = None /\ e.id \in Ids
    BY <1>2, <1>4 DEF ReplayDelete
  <2>2. mem'.index = [mem.index EXCEPT ![e.id] = None]
    BY <1>2, <1>4, <2>1, DeleteInternalSound DEF ReplayDelete
  <2> HIDE DEF e
  <2>3. \A id \in Ids : Found(data', mem'.index, id)
                          = IF e.id = id /\ e.seq > walMeta
                            THEN e.doc ELSE Found(data, mem.index, id)
    BY <1>1, <1>2, <2>1, <2>2 DEF Found, Mem
  <2> QED
    BY <1>1, <2>3, ReplayedDurable DEF e
<1> QED
  BY <1>3, <1>4

\* Recovery replays an insert or an update; nothing rejects it.
LEMMA ReplayInsertEffect ==
  ASSUME NothingRejected, RecoveryInv, ReplayInsert
  PROVE  /\ pc' = "replay" /\ pos' = pos + 1
         /\ wal[pos].id \in Ids /\ wal[pos].doc \in Docs
         /\ data' = Put(data, mem.cursor, wal[pos].id, wal[pos].doc)
         /\ mem'.index = [mem.index EXCEPT ![wal[pos].id] = mem.cursor]
         /\ mem'.vindex = mem.vindex \cup {wal[pos].id}
         /\ mem.cursor \in Slots
<1> DEFINE e == wal[pos]
           m == IF e.kind = "Update" THEN DeleteInternal(mem, e.id) ELSE mem
<1>0. /\ TypeInv /\ pc = "replay" /\ mem.cursor <= MaxSlots /\ mem \in Mem
      /\ mem.cursor \in Slots
  BY RecoveryFacts, ConstantsAssumption DEF ReplayInsert, Mem, Slots
<1>1. e.id \in Ids /\ e.doc \in Docs
  BY <1>0, EntryFacts DEF ReplayInsert
<1>2. /\ Sound(m) /\ m.cursor = mem.cursor /\ m.dims \in KnownDims
      /\ m.index = mem.index \/ m.index = [mem.index EXCEPT ![e.id] = None]
      /\ mem.index \in [Ids -> Slots \cup {None}]
  BY <1>0, <1>1, ReplacedFacts DEF Mem
<1>3. m.vindex = mem.vindex \/ m.vindex = mem.vindex \ {e.id}
  BY <1>0, <1>1, DeleteInternalEffect
<1>4. /\ data' = InsertInternalData(m, e.id, e.doc)
      /\ InsertInternalOk(m, e.doc) =>
           mem' = InsertInternal(m, e.id, e.doc) /\ pos' = pos + 1 /\ pc' = pc
  BY DEF ReplayInsert
<1> HIDE DEF m, e
<1>5. InsertInternalOk(m, e.doc)
      /\ InsertInternalData(m, e.id, e.doc) = Put(data, m.cursor, e.id, e.doc)
  BY <1>1, <1>2, InsertInternalStores
<1>6. /\ InsertInternal(m, e.id, e.doc).index = [m.index EXCEPT ![e.id] = m.cursor]
      /\ InsertInternal(m, e.id, e.doc).vindex = m.vindex \cup {e.id}
      /\ InsertInternal(m, e.id, e.doc).cache = [m.cache EXCEPT ![e.id] = e.doc.vec]
  <2>1. m.cursor <= MaxSlots
    BY <1>0, <1>2
  <2> QED
    BY <1>1, <1>2, <2>1, InsertInternalEffect
<1>7. mem'.index = [mem.index EXCEPT ![e.id] = mem.cursor]
  BY <1>1, <1>2, <1>4, <1>5, <1>6
<1>8. mem'.vindex = mem.vindex \cup {e.id}
  BY <1>3, <1>4, <1>5, <1>6
<1> QED
  BY <1>0, <1>1, <1>2, <1>4, <1>5, <1>7, <1>8 DEF e

\* and so memory has its document.
LEMMA ReplayInsertDurable == NothingRejected /\ RecoveryInv /\ ReplayInsert => Durable'
<1> SUFFICES ASSUME NothingRejected, RecoveryInv, ReplayInsert PROVE Durable'
  OBVIOUS
<1> DEFINE e == wal[pos]
<1>1. /\ pc = "replay" /\ pos <= Len(wal) /\ e.seq > walMeta
      /\ UNCHANGED <<fIndex, wal, walMeta>>
  BY DEF ReplayInsert
<1>2. /\ pc' = "replay" /\ pos' = pos + 1 /\ e.id \in Ids /\ e.doc \in Docs
      /\ data' = Put(data, mem.cursor, e.id, e.doc)
      /\ mem'.index = [mem.index EXCEPT ![e.id] = mem.cursor]
      /\ mem.cursor \in Slots
  BY ReplayInsertEffect
<1>3. /\ data \in [Slots -> Records \cup {None}]
      /\ fIndex \in [Ids -> Slots \cup {None}] /\ Below(fIndex, mem.cursor)
      /\ mem.index \in [Ids -> Slots \cup {None}] /\ Below(mem.index, mem.cursor)
  BY <1>1, RecoveryFacts, FileFacts DEF Running
<1> HIDE DEF e
<1>4. \A id \in Ids : Found(data', fIndex, id) = Found(data, fIndex, id)
  BY <1>2, <1>3, FoundKept
<1>5. \A id \in Ids : Found(data', mem'.index, id)
                        = IF id = e.id THEN e.doc ELSE Found(data, mem.index, id)
  BY <1>2, <1>3, FoundAppended
<1>6. \A id \in Ids : Found(data', mem'.index, id)
                        = IF e.id = id /\ e.seq > walMeta
                          THEN e.doc ELSE Found(data, mem.index, id)
  BY <1>1, <1>5
<1> QED
  BY <1>1, <1>2, <1>4, <1>6, ReplayedDurable DEF e

\* What the pointers of an index lead to can be read.
LEMMA HomeReadable ==
  ASSUME NEW index, Home(data, index)
  PROVE  Readable(index)
BY DEF Home, Readable, Decodes, Live

\* Recovery is done: every pointer it has made leads home.
LEMMA ReplayDoneDurable == RecoveryInv /\ ReplayDone => Durable'
<1> SUFFICES ASSUME RecoveryInv, ReplayDone PROVE Durable'
  OBVIOUS
<1>1. /\ pc = "replay" /\ pos > Len(wal) /\ UNCHANGED <<data, fIndex, wal, walMeta>>
      /\ Readable(mem.index)
      /\ mem \in Mem /\ pos \in Nat /\ Len(wal) \in Nat
  BY RecoveryFacts, HomeReadable DEF ReplayDone, PointerInv, Pointers, files
<1>2. mem'.index = mem.index /\ pc' = "ckIndex"
  BY <1>1 DEF ReplayDone, WithVectors, Mem
<1>3. pos = Len(wal) + 1
  BY <1>1 DEF RecoveryInv, Durable
<1>4. \A id \in Ids : Agrees(id)'
  BY <1>1, <1>2, <1>3 DEF RecoveryInv, Durable, Agrees, Recovers
<1> QED
  BY <1>2, <1>4 DEF Durable

-----------------------------------------------------------------------------

\* RecoveryInv is inductive where nothing is rejected and the process survives
\* compaction's rename.
LEMMA RecoveryInvStep ==
  ASSUME NothingRejected, "cpIndex" \notin CrashPoints
  PROVE  RecoveryInv /\ [Next]_vars => RecoveryInv'
<1> SUFFICES ASSUME RecoveryInv, [Next]_vars PROVE Durable'
  BY PointerInvStep, SequenceInvStep, OrderedStep, OpFormStep, DimsStep, RecoveryFacts
     DEF RecoveryInv
<1>1. CASE UNCHANGED vars
  BY <1>1 DEF RecoveryInv, Durable, Agrees, Recovers, Logged, vars, files
<1>2. CASE StartOperation
  <2>1. CASE \E name, todo : Start(name, todo)
    BY <2>1, StartDurable
  <2>2. CASE Checkpoint \/ Compact \/ RebuildIndex
    BY <2>2, SettledSteps, CompactDurable
  <2>3. (\E name, todo : Start(name, todo)) \/ Checkpoint \/ Compact \/ RebuildIndex
    BY <1>2 DEF StartOperation, Insert, InsertBatch, Upsert, UpdateMetadata, UpdateVector,
                Delete, DeleteBatch
  <2> QED
    BY <2>1, <2>2, <2>3
<1>3. CASE Read
  BY <1>1, <1>3 DEF Read
<1>4. CASE Continue
  <2>1. OpenFails => Durable'
    BY DEF OpenFails, Durable
  <2> QED
    BY <1>4, <2>1, LogDurable, ApplyInsertDurable, ApplyUpdateDurable, ApplyDeleteDurable,
       ApplyInsertBatchDurable, SettledSteps, SaveIndexDurable, LogCheckpointDurable,
       SaveWalMetaDurable, RotateDurable, OpenDurable, ReplayForgetDurable,
       ReplayInsertDurable, ReplayDoneDurable
       DEF Continue
<1>5. CASE Crash
  BY <1>5 DEF Crash, Durable
<1> QED
  BY <1>1, <1>2, <1>3, <1>4, <1>5 DEF Next

\* Readers see, between operations, exactly what a restart would bring back: no
\* acknowledged write lives in memory only, and none that was not acknowledged
\* comes back, whatever checkpoints, compactions, torn files and deaths of the
\* process there have been.
THEOREM ReadsAlwaysRecoverable ==
  ASSUME NothingRejected, "cpIndex" \notin CrashPoints
  PROVE  Spec => []ReadsAreRecoverable
<1>1. Spec => []RecoveryInv
  BY RecoveryInit, RecoveryInvStep, PTL DEF Spec
<1>2. RecoveryInv => ReadsAreRecoverable
  <2> SUFFICES ASSUME RecoveryInv, pc = "idle", NEW id \in Ids
               PROVE  Get(mem.index, id) = Recovered(id)
    BY DEF ReadsAreRecoverable
  <2>1. Recovers(id, Found(data, mem.index, id))
    BY DEF RecoveryInv, Durable, Agrees
  <2>2. Recovered(id) = Found(data, mem.index, id)
    BY <2>1, RecoveryFacts, OutcomeUnique, RecoveredOutcome DEF Recovers
  <2> QED
    BY <2>2, GetFound
<1> QED
  BY <1>1, <1>2, PTL

-----------------------------------------------------------------------------
(* A collection can be opened.                                             *)

OpenInv == RecoveryInv /\ torn = {} /\ pc # "failed"

\* No step of recovery fails, and none but a death inside a write tears a file.
LEMMA OpenInvStep ==
  ASSUME NothingRejected, "cpIndex" \notin CrashPoints, ~TornWrites
  PROVE  OpenInv /\ [Next]_vars => OpenInv'
<1> SUFFICES ASSUME OpenInv, [Next]_vars PROVE torn' = {} /\ pc' # "failed"
  BY RecoveryInvStep DEF OpenInv
<1>0. RecoveryInv /\ torn = {} /\ pc # "failed" /\ after \in {"idle", "vec"}
  BY RecoveryFacts DEF OpenInv
<1>1. CASE UNCHANGED vars \/ Read
  BY <1>0, <1>1 DEF Read, vars, files
<1>2. CASE StartOperation
  BY <1>0, <1>2, ZenonT(40) DEF StartOperation, Insert, InsertBatch, Upsert, UpdateMetadata, UpdateVector,
     Delete, DeleteBatch, Checkpoint, Compact, RebuildIndex, Start, files
<1>3. CASE OpenFails
  <2>1. Readable(fIndex)
    BY <1>0, <1>3, RecoveryFacts, HomeReadable DEF OpenFails, PointerInv, Pointers
  <2> QED
    BY <1>0, <1>3, <2>1 DEF OpenFails
<1>4. CASE ReplayInsert
  BY <1>0, <1>4, ReplayInsertEffect DEF ReplayInsert
<1>5. CASE ReplayDone
  <2>1. Readable(mem.index)
    BY <1>0, RecoveryFacts, HomeReadable DEF PointerInv, Pointers
  <2> QED
    BY <1>0, <1>5, <2>1 DEF ReplayDone, files
<1>6. CASE \/ Log \/ ApplyInsert \/ ApplyUpdateMetadata \/ ApplyUpdateVector \/ ApplyDelete
           \/ ApplyInsertBatch \/ InsertBatchVectors
  BY <1>0, <1>6, ZenonT(40) DEF Log, ApplyInsert, ApplyUpdateMetadata, ApplyUpdateVector, ApplyDelete,
     ApplyInsertBatch, InsertBatchVectors, TrackOperation, ReturnError, ApplyFrame, files
<1>7. CASE \/ SaveIndex \/ SaveVectorIndex \/ SaveMetadata \/ LogCheckpoint \/ SaveWalMeta
           \/ Rotate \/ OpenClean \/ OpenAndReplay \/ ReplaySkip \/ ReplayDelete
  BY <1>0, <1>7 DEF SaveIndex, SaveVectorIndex, SaveMetadata, LogCheckpoint, SaveWalMeta,
     Rotate, OpenClean, OpenAndReplay, ReplaySkip, ReplayDelete, OpenFrame, files
<1>8. CASE Crash
  BY <1>0, <1>8 DEF Crash
<1> QED
  BY <1>1, <1>2, <1>3, <1>4, <1>5, <1>6, <1>7, <1>8 DEF Next, Continue

\* A collection can be opened again wherever its process died, between two
\* writes to its files: CollectionBuilder finds no record it cannot read and no
\* logged write it cannot replay.
THEOREM OpenAlwaysSucceeds ==
  ASSUME NothingRejected, "cpIndex" \notin CrashPoints, ~TornWrites
  PROVE  Spec => []OpenNeverFails
<1>1. Init => OpenInv
  BY RecoveryInit DEF Init, OpenInv
<1>2. Spec => []OpenInv
  BY <1>1, OpenInvStep, PTL DEF Spec
<1>3. OpenInv => OpenNeverFails
  BY DEF OpenInv, OpenNeverFails
<1> QED
  BY <1>2, <1>3, PTL

-----------------------------------------------------------------------------
(* A collection implements the map of DurableMap.                          *)

\* The contents before and after a step, in terms of the files
LEMMA ContentsFacts ==
  ASSUME RecoveryInv, RecoveryInv'
  PROVE  /\ Contents = [id \in Ids |-> IF pc = "cpIndex" THEN Found(data, mem.index, id)
                                       ELSE Outcome(data, fIndex, wal, walMeta, id)]
         /\ Contents' = [id \in Ids |-> IF pc' = "cpIndex" THEN Found(data', mem'.index, id)
                                        ELSE Outcome(data', fIndex', wal', walMeta', id)]
<1>1. wal \in Seq(WalEntry) /\ wal' \in Seq(WalEntry)
  BY DEF RecoveryInv, PointerInv, TypeInv, TypeOK
<1>2. \A id : /\ Recovered(id) = Outcome(data, fIndex, wal, walMeta, id)
              /\ Recovered(id)' = Outcome(data', fIndex', wal', walMeta', id)
  BY <1>1, RecoveredOutcome
<1>3. \A id : /\ Get(mem.index, id) = Found(data, mem.index, id)
              /\ Get(mem.index, id)' = Found(data', mem'.index, id)
  BY DEF Get, Decodes, Found
<1> QED
  BY <1>2, <1>3 DEF Contents

\* What the files make of the contents is what readers find, when no write is
\* under way.
LEMMA SettledContents ==
  ASSUME RecoveryInv, RecoveryInv'
  PROVE  /\ pc \in Settled \cup {"cpIndex"} =>
              Contents = [id \in Ids |-> Found(data, mem.index, id)]
         /\ pc' \in Settled \cup {"cpIndex"} =>
              Contents' = [id \in Ids |-> Found(data', mem'.index, id)]
<1>1. wal \in Seq(WalEntry) /\ wal' \in Seq(WalEntry)
  BY DEF RecoveryInv, PointerInv, TypeInv, TypeOK
<1>2. ASSUME pc \in Settled, NEW id \in Ids
      PROVE  Outcome(data, fIndex, wal, walMeta, id) = Found(data, mem.index, id)
  BY <1>1, <1>2, OutcomeUnique DEF RecoveryInv, Durable, Agrees, Recovers
<1>3. ASSUME pc' \in Settled, NEW id \in Ids
      PROVE  Outcome(data', fIndex', wal', walMeta', id) = Found(data', mem'.index, id)
  BY <1>1, <1>3, OutcomeUnique DEF RecoveryInv, Durable, Agrees, Recovers
<1> QED
  BY <1>2, <1>3, ContentsFacts

\* A step that readers cannot tell
LEMMA ReadersKept ==
  ASSUME RecoveryInv, RecoveryInv',
         pc \in Settled \cup {"cpIndex"}, pc' \in Settled \cup {"cpIndex"},
         \A id \in Ids : Found(data', mem'.index, id) = Found(data, mem.index, id)
  PROVE  Contents' = Contents
BY SettledContents

\* A step that recovery cannot tell
LEMMA FilesKept ==
  ASSUME RecoveryInv, RecoveryInv', pc # "cpIndex", pc' # "cpIndex",
         UNCHANGED <<wal, walMeta>>,
         \A id \in Ids : Found(data', fIndex', id) = Found(data, fIndex, id)
  PROVE  Contents' = Contents
<1>1. \A id \in Ids : Outcome(data', fIndex', wal', walMeta', id)
                        = Outcome(data, fIndex, wal, walMeta, id)
  BY DEF Outcome
<1> QED
  BY <1>1, ContentsFacts

\* Appends write at the cursor or above it.
LEMMA AppendsAbove ==
  ASSUME RecoveryInv,
         \/ ApplyInsert \/ ApplyUpdateMetadata \/ ApplyUpdateVector \/ ApplyDelete
         \/ ApplyInsertBatch \/ ReplayInsert
  PROVE  \A s \in Slots : s < mem.cursor => data'[s] = data[s]
<1>0. mem.cursor \in Nat /\ data \in [Slots -> Records \cup {None}] /\ TypeInv /\ Sound(mem)
  BY RecoveryFacts
<1>1. CASE ApplyDelete
  BY <1>0, <1>1 DEF ApplyDelete
<1>2. CASE ApplyUpdateMetadata \/ ApplyUpdateVector
  <2> DEFINE w == op.todo[1]
  <2>1. data' = data \/ data' = [data EXCEPT ![mem.cursor] = Record(w.id, w.doc)]
    BY <1>2 DEF ApplyUpdateMetadata, ApplyUpdateVector, Appended
  <2>2. \A s \in Slots : s < mem.cursor => s # mem.cursor
    BY <1>0 DEF Slots
  <2> HIDE DEF w
  <2>3. CASE data' = data
    BY <2>3
  <2>4. CASE data' = [data EXCEPT ![mem.cursor] = Record(w.id, w.doc)]
    BY <1>0, <2>2, <2>4
  <2> QED
    BY <2>1, <2>3, <2>4
<1>3. CASE ApplyInsertBatch
  <2> DEFINE n == Len(op.todo)
             new(s) == Record(op.todo[s - mem.cursor + 1].id, op.todo[s - mem.cursor + 1].doc)
  <2>1. n \in Nat
    BY RecoveryFacts
  <2>2. \/ data' = data
        \/ data' = [s \in Slots |-> IF \E i \in 1..n : s = mem.cursor + i - 1
                                    THEN new(s) ELSE data[s]]
    BY <1>3 DEF ApplyInsertBatch
  <2>3. \A s \in Slots : s < mem.cursor => ~ \E i \in 1..n : s = mem.cursor + i - 1
    BY <1>0, <2>1 DEF Slots
  <2> HIDE DEF n, new
  <2> QED
    BY <2>2, <2>3
<1>4. ASSUME NEW id \in Ids, NEW doc, NEW m, m = mem \/ m = DeleteInternal(mem, id),
             data' = InsertInternalData(m, id, doc)
      PROVE  \A s \in Slots : s < mem.cursor => data'[s] = data[s]
  <2>1. m.cursor = mem.cursor
    <3>1. CASE m = mem
      BY <3>1
    <3>2. CASE m = DeleteInternal(mem, id)
      <4>1. mem \in Mem
        BY <1>0 DEF TypeInv, TypeOK
      <4> QED
        BY <3>2, <4>1, DeleteInternalEffect
    <3> QED
      BY <1>4, <3>1, <3>2
  <2>2. data' = data \/ data' = [data EXCEPT ![mem.cursor] = Record(id, doc)]
    BY <1>4, <2>1 DEF InsertInternalData, Appended
  <2>3. \A s \in Slots : s < mem.cursor => s # mem.cursor
    BY <1>0 DEF Slots
  <2>4. CASE data' = data
    BY <2>4
  <2>5. CASE data' = [data EXCEPT ![mem.cursor] = Record(id, doc)]
    BY <1>0, <2>3, <2>5
  <2> QED
    BY <2>2, <2>4, <2>5
<1>5. CASE ApplyInsert
  <2> DEFINE w == op.todo[1]
             m == IF w.kind = "Update" THEN DeleteInternal(mem, w.id) ELSE mem
  <2>1. w.id \in Ids
    BY <1>0, <1>5, FirstWrite DEF ApplyInsert
  <2>2. data' = InsertInternalData(m, w.id, w.doc)
    BY <1>5 DEF ApplyInsert
  <2>3. m = mem \/ m = DeleteInternal(mem, w.id)
    OBVIOUS
  <2> HIDE DEF w, m
  <2> QED
    BY <1>4, <2>1, <2>2, <2>3
<1>6. CASE ReplayInsert
  <2> DEFINE e == wal[pos]
             m == IF e.kind = "Update" THEN DeleteInternal(mem, e.id) ELSE mem
  <2>1. e.id \in Ids
    BY <1>0, <1>6, EntryFacts DEF ReplayInsert
  <2>2. data' = InsertInternalData(m, e.id, e.doc)
    BY <1>6 DEF ReplayInsert
  <2>3. m = mem \/ m = DeleteInternal(mem, e.id)
    OBVIOUS
  <2> HIDE DEF e, m
  <2> QED
    BY <1>4, <2>1, <2>2, <2>3
<1> QED
  BY <1>1, <1>2, <1>3, <1>5, <1>6

\* The steps that apply an operation or replay an entry leave the contents
\* alone: they follow from the files as before.
LEMMA AppendContents ==
  ASSUME RecoveryInv, RecoveryInv',
         \/ ApplyInsert \/ ApplyUpdateMetadata \/ ApplyUpdateVector \/ ApplyDelete
         \/ ApplyInsertBatch \/ ReplayInsert
  PROVE  Contents' = Contents
<1>1. /\ pc \in {"apply", "replay"} /\ pc' # "cpIndex" /\ UNCHANGED <<fIndex, wal, walMeta>>
  BY DEF ApplyInsert, ApplyUpdateMetadata, ApplyUpdateVector, ApplyDelete, ApplyInsertBatch,
     ReplayInsert, TrackOperation, ReturnError, ApplyFrame
<1>2. \A id \in Ids : fIndex[id] # None => fIndex[id] \in Slots /\ fIndex[id] < mem.cursor
  BY <1>1, RecoveryFacts, FileFacts DEF Live, Below, Running
<1>3. \A s \in Slots : s < mem.cursor => data'[s] = data[s]
  BY AppendsAbove
<1>4. \A id \in Ids : Found(data', fIndex', id) = Found(data, fIndex, id)
  BY <1>1, <1>2, <1>3 DEF Found
<1> QED
  BY <1>1, <1>4, FilesKept

\* Every other step but Log leaves the contents alone, too.
LEMMA QuietContents ==
  ASSUME RecoveryInv, RecoveryInv', "cpIndex" \notin CrashPoints,
         \/ \E name, todo : Start(name, todo)
         \/ Checkpoint \/ Compact \/ RebuildIndex \/ InsertBatchVectors
         \/ SaveIndex \/ SaveVectorIndex \/ SaveMetadata \/ LogCheckpoint \/ SaveWalMeta
         \/ Rotate \/ OpenFails \/ OpenClean \/ OpenAndReplay
         \/ ReplaySkip \/ ReplayDelete \/ ReplayDone \/ Crash
  PROVE  Contents' = Contents
<1>1. CASE \/ \E name, todo : Start(name, todo)
           \/ Checkpoint \/ RebuildIndex \/ InsertBatchVectors
           \/ SaveVectorIndex \/ SaveMetadata \/ OpenFails \/ OpenClean \/ OpenAndReplay
           \/ ReplaySkip \/ ReplayDelete \/ ReplayDone \/ Crash
  <2>1. /\ pc # "cpIndex" /\ pc' # "cpIndex" /\ UNCHANGED <<data, fIndex, wal, walMeta>>
    BY <1>1, ZenonT(40) DEF Start, Checkpoint, RebuildIndex, InsertBatchVectors, SaveVectorIndex,
       SaveMetadata, OpenFails, OpenClean, OpenAndReplay, ReplaySkip, ReplayDelete,
       ReplayDone, Crash, OpenFrame, files
  <2> QED
    BY <2>1, FilesKept
<1>2. CASE SaveIndex \/ LogCheckpoint \/ SaveWalMeta \/ Rotate
  <2>1. /\ UNCHANGED <<data, mem>>
        /\ pc \in Settled \cup {"cpIndex"} /\ pc' \in Settled \cup {"cpIndex"}
    BY <1>2, RecoveryFacts DEF SaveIndex, LogCheckpoint, SaveWalMeta, Rotate
  <2> QED
    BY <2>1, ReadersKept
<1>3. CASE Compact
  <2>1. \A id \in Ids : Found(data', mem'.index, id) = Found(data, mem.index, id)
    BY <1>3, RecoveryFacts, CompactFound, ZenonT(40) DEF PointerInv, Pointers, Compact
  <2> QED
    BY <1>3, <2>1, ReadersKept, ZenonT(40) DEF Compact
<1> QED
  BY <1>1, <1>2, <1>3

\* The step that commits a write: it alone changes the contents.
LEMMA LogContents ==
  ASSUME RecoveryInv, RecoveryInv', Log
  PROVE  Contents' = [Contents EXCEPT ![op.todo[pos].id] = op.todo[pos].doc]
<1> DEFINE w == op.todo[pos]
<1>1. /\ pc = "log" /\ pc' \in {"log", "apply"}
  BY DEF Log
<1>2. wal \in Seq(WalEntry) /\ wal' \in Seq(WalEntry)
  BY DEF RecoveryInv, PointerInv, TypeInv, TypeOK
<1>3. ASSUME NEW id \in Ids
      PROVE  Outcome(data', fIndex', wal', walMeta', id)
               = IF w.id = id THEN w.doc ELSE Outcome(data, fIndex, wal, walMeta, id)
  <2>1. PICK doc : Recovers(id, doc)
    BY <1>1 DEF RecoveryInv, Durable, Agrees
  <2>2. Outcome(data, fIndex, wal, walMeta, id) = doc
    BY <1>2, <2>1, OutcomeUnique DEF Recovers
  <2>3. Replayed(data', fIndex', wal', walMeta', Len(wal') + 1, id,
                 IF w.id = id THEN w.doc ELSE doc)
    BY <2>1, LogReplayed
  <2> HIDE DEF w
  <2>4. Outcome(data', fIndex', wal', walMeta', id) = IF w.id = id THEN w.doc ELSE doc
    BY <1>2, <2>3, OutcomeUnique
  <2> QED
    BY <2>2, <2>4
<1>4. /\ Contents = [id \in Ids |-> Outcome(data, fIndex, wal, walMeta, id)]
      /\ Contents' = [id \in Ids |-> Outcome(data', fIndex', wal', walMeta', id)]
  BY <1>1, ContentsFacts
<1>5. w.id \in Ids
  BY LogFacts, WriteFacts
<1> HIDE DEF w
<1>6. Contents' = [Contents EXCEPT ![w.id] = w.doc]
  BY <1>3, <1>4, <1>5
<1> QED
  BY <1>6 DEF w

\* The writes and the position that the abstract specification sees.
Requested == IF pc = "log" THEN op.todo ELSE <<>>
Committing == IF pc = "log" THEN pos ELSE 1

\* Every step of a collection is one of the map, or none.
LEMMA MapStep ==
  ASSUME NothingRejected, "cpIndex" \notin CrashPoints, RecoveryInv, RecoveryInv', [Next]_vars
  PROVE  [Abstract!Next]_(Abstract!vars)
<1> USE DEF Requested, Committing
<1>1. CASE UNCHANGED vars \/ Read
  <2>1. /\ UNCHANGED <<wal, walMeta, data, fIndex, mem, pc, op, pos>>
    BY <1>1 DEF Read, vars, files
  <2>2. Contents' = Contents
    BY <2>1, ContentsFacts
  <2> QED
    BY <2>1, <2>2 DEF Abstract!vars
<1>2. CASE \E name, todo : Start(name, todo)
  <2>1. Contents' = Contents
    BY <1>2, QuietContents
  <2>2. pc = "idle" /\ pc' = "log" /\ pos' = 1
    BY <1>2 DEF Start
  <2>3. op'.todo \in Seq(Writes) \ {<<>>}
    BY <2>2 DEF RecoveryInv, PointerInv, TypeInv, TypeOK, OpShape
  <2>4. Abstract!Request
    BY <2>1, <2>2, <2>3 DEF Abstract!Request
  <2> QED
    BY <2>4 DEF Abstract!Next
<1>3. CASE Log
  <2>1. Contents' = [Contents EXCEPT ![op.todo[pos].id] = op.todo[pos].doc]
    BY <1>3, LogContents
  <2>2. /\ pc = "log" /\ op' = op
        /\ IF pos = Len(op.todo) THEN pc' = "apply" ELSE pc' = "log" /\ pos' = pos + 1
    BY <1>3 DEF Log
  <2>3. op.todo # <<>>
    BY <2>2 DEF RecoveryInv, PointerInv, TypeInv, OpShape
  <2>4. Abstract!Commit
    BY <2>1, <2>2, <2>3 DEF Abstract!Commit
  <2> QED
    BY <2>4 DEF Abstract!Next
<1>4. CASE Crash
  <2>1. Contents' = Contents /\ pc' = "closed"
    BY <1>4, QuietContents DEF Crash
  <2>2. Abstract!Die
    BY <2>1 DEF Abstract!Die
  <2> QED
    BY <2>2 DEF Abstract!Next
<1>5. CASE Checkpoint \/ Compact \/ RebuildIndex \/ (Continue /\ ~Log)
  <2>1. Contents' = Contents
    BY <1>5, QuietContents, AppendContents DEF Continue
  <2>2. pc # "log" /\ pc' # "log"
    BY <1>5, RecoveryFacts, ZenonT(40) DEF Checkpoint, Compact, RebuildIndex, Continue, Log, ApplyInsert,
       ApplyUpdateMetadata, ApplyUpdateVector, ApplyDelete, ApplyInsertBatch,
       InsertBatchVectors, TrackOperation, ReturnError, SaveIndex, SaveVectorIndex,
       SaveMetadata, LogCheckpoint, SaveWalMeta, Rotate, OpenFails, OpenClean,
       OpenAndReplay, ReplaySkip, ReplayDelete, ReplayInsert, ReplayDone
  <2> QED
    BY <2>1, <2>2 DEF Abstract!vars
<1>6. StartOperation => \/ \E name, todo : Start(name, todo)
                        \/ Checkpoint \/ Compact \/ RebuildIndex
  BY DEF StartOperation, Insert, InsertBatch, Upsert, UpdateMetadata, UpdateVector,
     Delete, DeleteBatch
<1> QED
  BY <1>1, <1>2, <1>3, <1>4, <1>5, <1>6 DEF Next

\* A new collection is the empty map.
LEMMA MapInit == Init => Abstract!Init
<1> SUFFICES ASSUME Init PROVE Abstract!Init
  OBVIOUS
<1>1. \A id \in Ids : Get(fIndex, id) = None /\ Pending(id) = {}
  BY DEF Init, Get, Decodes, Pending
<1>2. Contents = [id \in Ids |-> None] /\ pc # "log"
  BY <1>1 DEF Init, Contents, Recovered
<1> QED
  BY <1>2 DEF Abstract!Init

\* A collection implements DurableMap: its contents change when a write reaches
\* the log, by that write alone and in the order of the requests; applying it,
\* checkpoints, compaction, death and recovery are stuttering steps.
THEOREM MapImplemented ==
  ASSUME NothingRejected, "cpIndex" \notin CrashPoints
  PROVE  Spec => ImplementsDurableMap
<1>1. Spec => []RecoveryInv
  BY RecoveryInit, RecoveryInvStep, PTL DEF Spec
<1>2. RecoveryInv /\ RecoveryInv' /\ [Next]_vars => [Abstract!Next]_(Abstract!vars)
  BY MapStep
<1> QED
  BY <1>1, <1>2, MapInit, PTL DEF Spec, ImplementsDurableMap, Abstract!Spec

=============================================================================
