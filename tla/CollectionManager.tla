------------------------- MODULE CollectionManager --------------------------
(***************************************************************************)
(* The server above the collections: the table of loaded collections, the  *)
(* request handlers that share it, the cache budget they enforce and the   *)
(* background jobs that rebuild indexes.                                   *)
(*                                                                         *)
(* Handlers run concurrently on the threads of the runtime.  What they     *)
(* share is a concurrent map, the files, the configuration and one lock    *)
(* per opened collection; each access to one of these is a step.  A guard  *)
(* that is dropped before the handler touches anything else shared is one  *)
(* step with the work done under it, so the only guard that outlives a     *)
(* step is the write guard an insertion keeps while it enforces the cache  *)
(* budget.  A collection is the set of documents it serves, each durable   *)
(* when the write that put it there returns; its files are one file, which *)
(* holds what the next start of the server would recover.                  *)
(*                                                                         *)
(* The data file is written through the handle that opened it; compaction  *)
(* replaces it by path, and the files beside it are saved and the log is   *)
(* truncated by path, whether or not the file with that name is still the  *)
(* handle's own.                                                           *)
(***************************************************************************)
EXTENDS Naturals, Sequences, FiniteSets

CONSTANTS
  Names,        \* names of collections
  Clients,      \* requests in flight
  None,         \* Option::None
  Ops,          \* the requests the clients send
  Budgets,      \* values of "cache.max_bytes is set" that loading the config may give
  LowSpace,     \* TRUE: disk_min_free_bytes is set and free space may fall below it
  OpensFail,    \* TRUE: Collection::open and RecordStore::open may return an error
  Dies,         \* TRUE: the process may die and be started again
  MaxRequests   \* bound: requests sent

OpNames == {"create", "insert", "read", "delete", "compact", "rebuild_index",
            "list", "delete_collection"}
Requests == 1..MaxRequests

ASSUME ConstantsAssumption ==
  /\ None \notin Nat /\ None \notin Names
  /\ None \notin {"Running", "Completed", "Failed"}
  /\ IsFiniteSet(Clients)
  /\ Ops \subseteq OpNames
  /\ Budgets \subseteq BOOLEAN /\ Budgets # {}
  /\ LowSpace \in BOOLEAN /\ OpensFail \in BOOLEAN /\ Dies \in BOOLEAN
  /\ MaxRequests \in Nat

VARIABLES
  collections,  \* CollectionManager::collections: name -> handle
  instances,    \* the collections opened so far; a handle is a position in it
  paths,        \* the file that has the name of a collection
  disk,         \* what each file holds, linked or not
  capped,       \* AppState::app_config: cache.enabled and cache.max_bytes is Some
  readOnly,     \* AppState::read_only
  rebuildJobs,  \* AppState::rebuild_jobs: the status recorded for a name
  tasks,        \* rebuild tasks spawned and not finished, by handle
  req,          \* the request each client waits for
  sent,         \* requests sent so far; a document is the number of its insert
  \* history
  acked,        \* documents whose insert was answered and nobody asked to delete
  raced,        \* names opened while another request opened or deleted them
  overwritten   \* names whose files were saved by path by an instance that did
                \* not have them for itself, or by a compaction that broke off;
                \* opening one may find anything

history == <<acked, raced, overwritten>>
vars == <<collections, instances, paths, disk, capped, readOnly, rebuildJobs,
          tasks, req, sent, history>>

Handles == DOMAIN instances
Docs == Requests

OpeningPcs == {"exists", "open", "register"}
HandlePcs == {"register", "use", "running", "spawn", "budget", "scan", "evict"}
GuardPcs == {"budget", "scan", "evict"}
Pcs == OpeningPcs \cup HandlePcs \cup {"lookup", "remove", "unlink", "list", "answered"}

\* must and counts are history: what a read has to return, and whether the
\* answer to an insert is a promise, which a deletion under way takes away.
NoRequest == [pc |-> "answered", op |-> "list", name |-> None, doc |-> None,
              h |-> None, todo |-> {}, must |-> {}, seen |-> {}, counts |-> FALSE]

-----------------------------------------------------------------------------
(* Questions about the state.                                              *)

InFlight(c) == req[c].pc # "answered"
About(c, n) == InFlight(c) /\ req[c].name = n

\* Some request holds the write guard of handle h.
Locked(h) == \E c \in Clients : req[c].pc \in GuardPcs /\ req[c].h = h

Opening(n) == \E c \in Clients : About(c, n) /\ req[c].pc \in OpeningPcs
Deleting(n) == \E c \in Clients : About(c, n) /\ req[c].op = "delete_collection"

\* CollectionManager::loaded_collections
LoadedCollections == {collections[n] : n \in Names} \ {None}

Goto(c, pc) == req' = [req EXCEPT ![c].pc = pc]

\* The handler returns, dropping its guard and its handle.
Answer(c) == req' = [req EXCEPT ![c] = NoRequest]

\* No other opened collection works on the files with the name of h's, and
\* nobody removed them or put others in their place.
Sole(h) ==
  \A k \in Handles \cup {h} :
    k = h <=> instances[k].file = paths[instances[h].name]

\* Saving the files of h by path leaves them in order if nobody else has them.
SavedByPath(h) ==
  \/ UNCHANGED overwritten
  \/ ~Sole(h) /\ overwritten' = [overwritten EXCEPT ![instances[h].name] = TRUE]

\* The documents of the collection c works on become ds in memory.  On disk a
\* checkpoint that is due makes them the same; else the log adds what it tells.
SetDocs(c, ds, logged) ==
  LET h == req[c].h IN
  /\ instances' = [instances EXCEPT ![h].docs = ds]
  /\ \E saved \in {ds, logged} : disk' = [disk EXCEPT ![instances[h].file] = saved]
  /\ SavedByPath(h)

excuses == <<raced, overwritten>>
manager == <<collections, instances, paths, disk>>
server == <<capped, readOnly, rebuildJobs, tasks>>

-----------------------------------------------------------------------------
Init ==
  /\ collections = [n \in Names |-> None]
  /\ instances = <<>>
  /\ paths = [n \in Names |-> None]
  /\ disk = <<>>
  /\ capped \in Budgets
  /\ readOnly = FALSE
  /\ rebuildJobs = [n \in Names |-> None]
  /\ tasks = [h \in Requests |-> 0]
  /\ req = [c \in Clients |-> NoRequest]
  /\ sent = 0
  /\ acked = [n \in Names |-> {}]
  /\ raced = [n \in Names |-> FALSE]
  /\ overwritten = [n \in Names |-> FALSE]

-----------------------------------------------------------------------------
(* Requests arrive.                                                        *)

\* c sends request r about a collection and asks to delete the documents ds of
\* it; from then on these are promised to nobody.
Arrive(c, r, ds) ==
  LET kept == acked[r.name] \ ds IN
  /\ ~InFlight(c) /\ sent < MaxRequests
  /\ sent' = sent + 1
  /\ acked' = [acked EXCEPT ![r.name] = kept]
  /\ req' = [b \in Clients |->
       IF b = c THEN [r EXCEPT !.must = IF r.op = "read" THEN kept ELSE {}]
       ELSE IF req[b].name = r.name
            THEN [req[b] EXCEPT !.must = @ \ ds, !.counts = @ /\ ds # Docs]
            ELSE req[b]]

Request(op, n, pc) == [NoRequest EXCEPT !.pc = pc, !.op = op, !.name = n]

\* create_collection, the reads, compact_collection and rebuild_index check only
\* that the server is not shutting down.
Receive(c) ==
  /\ \E op \in Ops \cap {"create", "read", "compact", "rebuild_index"}, n \in Names :
       Arrive(c, Request(op, n, "lookup"), {})
  /\ UNCHANGED <<manager, server, excuses>>

\* insert_vector, upsert_vector and embed_text: ensure_write_allowed passes.
ReceiveInsert(c) ==
  /\ "insert" \in Ops /\ ~readOnly
  /\ \E n \in Names :
       Arrive(c, [Request("insert", n, "lookup") EXCEPT !.doc = sent + 1, !.counts = ~Deleting(n)], {})
  /\ UNCHANGED <<manager, server, excuses>>

\* delete_vector and delete_vectors, of an id that an insert returned.
ReceiveDelete(c) ==
  /\ "delete" \in Ops /\ ~readOnly
  /\ \E n \in Names : \E d \in acked[n] :
       Arrive(c, [Request("delete", n, "lookup") EXCEPT !.doc = d], {d})
  /\ UNCHANGED <<manager, server, excuses>>

\* ensure_write_allowed: the first write that finds too little free space makes
\* the server read-only for good, and every later one is refused.
RefuseWrite(c) ==
  /\ Ops \cap {"insert", "delete"} # {}
  /\ ~InFlight(c) /\ sent < MaxRequests
  /\ LowSpace \/ readOnly
  /\ readOnly' = TRUE
  /\ sent' = sent + 1
  /\ Answer(c)
  /\ UNCHANGED <<manager, capped, rebuildJobs, tasks, history>>

\* list_collections, readyz and metrics take the table as it is now.
ReceiveList(c) ==
  /\ "list" \in Ops
  /\ ~InFlight(c) /\ sent < MaxRequests
  /\ sent' = sent + 1
  /\ req' = [req EXCEPT ![c] = [NoRequest EXCEPT !.pc = "list", !.todo = LoadedCollections]]
  /\ UNCHANGED <<manager, server, history>>

ReceiveDeleteCollection(c) ==
  /\ "delete_collection" \in Ops
  /\ \E n \in Names :
       /\ Arrive(c, Request("delete_collection", n, "remove"), Docs)
       /\ raced' = [raced EXCEPT ![n] = @ \/ Opening(n)]
  /\ UNCHANGED <<manager, server, overwritten>>

\* reload_config: the new configuration may set cache.max_bytes or unset it.
ReloadConfig ==
  /\ capped' \in Budgets
  /\ UNCHANGED <<manager, readOnly, rebuildJobs, tasks, req, sent, history>>

\* The process dies with all it holds and is started again: the files are there,
\* no collection is loaded, and whoever waited gets no answer.
Restart ==
  /\ Dies
  /\ collections' = [n \in Names |-> None]
  /\ instances' = <<>>
  /\ capped' \in Budgets
  /\ readOnly' = FALSE
  /\ rebuildJobs' = [n \in Names |-> None]
  /\ tasks' = [h \in Requests |-> 0]
  /\ req' = [c \in Clients |-> NoRequest]
  /\ UNCHANGED <<paths, disk, sent, history>>

-----------------------------------------------------------------------------
(* CollectionManager::get_existing and get_or_create.                      *)

Creates(c) == req[c].op \in {"create", "insert"}

\* Where a handler goes once it has the handle.
WithHandle(c) == IF req[c].op = "rebuild_index" THEN "running" ELSE "use"

\* Fault: the handle is taken from the table without a look at whether there is one.
LookupUnchecked(c) ==
  /\ req[c].pc = "lookup"
  /\ req' = [req EXCEPT ![c].h = collections[req[c].name], ![c].pc = WithHandle(c)]
  /\ UNCHANGED <<manager, server, sent, history>>

\* Fault: the table is not consulted, every request opens the collection.
LookupMisses(c) ==
  /\ req[c].pc = "lookup"
  /\ Goto(c, IF Creates(c) THEN "open" ELSE "exists")
  /\ UNCHANGED <<manager, server, sent, history>>

\* self.collections.get(name)
Lookup(c) ==
  LET n == req[c].name IN
  /\ req[c].pc = "lookup"
  /\ \/ /\ collections[n] # None
        /\ req' = [req EXCEPT ![c].h = collections[n], ![c].pc = WithHandle(c)]
        /\ UNCHANGED raced
     \/ /\ collections[n] = None
        /\ Goto(c, IF Creates(c) THEN "open" ELSE "exists")
        /\ raced' = [raced EXCEPT ![n] = @ \/ Opening(n) \/ Deleting(n)]
  /\ UNCHANGED <<manager, server, sent, acked, overwritten>>

\* Fault: get_existing opens whatever the name, as get_or_create does.
ExistsUnchecked(c) ==
  /\ req[c].pc = "exists"
  /\ Goto(c, "open")
  /\ UNCHANGED <<manager, server, sent, history>>

\* get_existing: Path::exists
Exists(c) ==
  /\ req[c].pc = "exists"
  /\ IF paths[req[c].name] = None THEN Answer(c) ELSE Goto(c, "open")
  /\ UNCHANGED <<manager, server, sent, history>>

\* What opening the collection finds in its files: files saved by two instances
\* may give any of the documents that were on disk, under that name or none.
Recoverable(n) ==
  IF overwritten[n] THEN SUBSET UNION {disk[f] : f \in DOMAIN disk}
  ELSE IF paths[n] = None THEN {{}} ELSE {disk[paths[n]]}

\* open_and_register, first half: Collection::open_with_options opens the file
\* with that name or creates it, and loads what it holds.
Open(c) ==
  LET n == req[c].name
      new == paths[n] = None
      file == IF new THEN Len(disk) + 1 ELSE paths[n] IN
  /\ req[c].pc = "open"
  /\ \E docs \in Recoverable(n) :
       /\ disk' = IF new THEN Append(disk, docs) ELSE [disk EXCEPT ![file] = docs]
       /\ instances' = Append(instances, [name |-> n, file |-> file, docs |-> docs])
  /\ paths' = [paths EXCEPT ![n] = file]
  /\ req' = [req EXCEPT ![c].h = Len(instances) + 1, ![c].pc = "register"]
  /\ UNCHANGED <<collections, server, sent, history>>

OpenFails(c) ==
  /\ req[c].pc = "open"
  /\ OpensFail \/ overwritten[req[c].name]
  /\ Answer(c)
  /\ UNCHANGED <<manager, server, sent, history>>

\* open_and_register, second half: the handle is put into the table, over one
\* that another request put there meanwhile.
Register(c) ==
  /\ req[c].pc = "register"
  /\ collections' = [collections EXCEPT ![req[c].name] = req[c].h]
  /\ Goto(c, WithHandle(c))
  /\ UNCHANGED <<instances, paths, disk, server, sent, history>>

-----------------------------------------------------------------------------
(* The work under the collection's lock.                                   *)

\* The handler waits until nobody holds a guard on its collection.
TakesGuard(c, op) == req[c].pc = "use" /\ req[c].op = op /\ ~Locked(req[c].h)

\* get_vector, list_vectors, search_vectors, get_collection, collection_count...
Read(c) ==
  /\ TakesGuard(c, "read")
  /\ req' = [req EXCEPT ![c] = [NoRequest EXCEPT
       !.op = "read", !.name = req[c].name, !.must = req[c].must,
       !.seen = instances[req[c].h].docs]]
  /\ UNCHANGED <<manager, server, sent, history>>

\* create_collection reads the collection's info.
Create(c) ==
  /\ TakesGuard(c, "create")
  /\ Answer(c)
  /\ UNCHANGED <<manager, server, sent, history>>

\* Fault: the compacted file is not renamed over the collection's.
CompactAside(c) ==
  /\ TakesGuard(c, "compact") /\ Sole(req[c].h)
  /\ instances' = [instances EXCEPT ![req[c].h].file = Len(disk) + 1]
  /\ disk' = Append(disk, instances[req[c].h].docs)
  /\ Answer(c)
  /\ UNCHANGED <<collections, paths, server, sent, history>>

\* Collection::compact copies the documents the instance has to a new file,
\* gives that the collection's name and empties the log that has it.  A file
\* that only h had is gone then, and the new one goes by its number.
CompactOwn(c) ==
  LET h == req[c].h IN
  /\ TakesGuard(c, "compact") /\ Sole(h)
  /\ disk' = [disk EXCEPT ![instances[h].file] = instances[h].docs]
  /\ Answer(c)
  /\ UNCHANGED <<collections, instances, paths, server, sent, history>>

\* The handle may be of a collection that was deleted, or created again, since;
\* or the new file cannot be opened and the instance keeps what it had.
CompactOther(c) ==
  LET h == req[c].h
      n == req[c].name
      file == Len(disk) + 1 IN
  /\ TakesGuard(c, "compact")
  /\ disk' = Append(disk, instances[h].docs)
  /\ paths' = [paths EXCEPT ![n] = file]
  /\ overwritten' = [overwritten EXCEPT ![n] = TRUE]
  /\ \/ ~Sole(h) /\ instances' = [instances EXCEPT ![h].file = file]
     \/ OpensFail /\ UNCHANGED instances
  /\ Answer(c)
  /\ UNCHANGED <<collections, server, sent, acked, raced>>

\* c's document goes into memory and into the log.
Stored(c) ==
  /\ TakesGuard(c, "insert")
  /\ SetDocs(c, instances[req[c].h].docs \cup {req[c].doc},
                disk[instances[req[c].h].file] \cup {req[c].doc})
  /\ UNCHANGED <<collections, paths, server, sent, acked, raced>>

\* Collection::insert, insert_batch or upsert; the guard stays.
Insert(c) == Stored(c) /\ Goto(c, "budget")

\* The dimensions do not match, or the checkpoint that is due fails: an error,
\* after the document was stored.
InsertBreaksOff(c) == Stored(c) /\ Answer(c)

\* A limit refuses the document, after it was logged.
InsertRefused(c) ==
  /\ TakesGuard(c, "insert")
  /\ disk' = [disk EXCEPT ![instances[req[c].h].file] = @ \cup {req[c].doc}]
  /\ SavedByPath(req[c].h)
  /\ Answer(c)
  /\ UNCHANGED <<collections, paths, instances, server, sent, acked, raced>>

Delete(c) ==
  /\ TakesGuard(c, "delete")
  /\ SetDocs(c, instances[req[c].h].docs \ {req[c].doc},
                disk[instances[req[c].h].file] \ {req[c].doc})
  /\ Answer(c)
  /\ UNCHANGED <<collections, paths, server, sent, acked, raced>>

\* The embedder, the log or the copying of the documents returns an error before
\* anything is stored.
Fails(c) ==
  /\ TakesGuard(c, "insert") \/ TakesGuard(c, "delete") \/ TakesGuard(c, "compact")
  /\ Answer(c)
  /\ UNCHANGED <<manager, server, sent, history>>

-----------------------------------------------------------------------------
(* AppState::enforce_cache_budget, called with the write guard held.       *)

\* The insert is answered; the guard is dropped.
AnswerInsert(c) ==
  /\ Answer(c)
  /\ acked' = IF req[c].counts THEN [acked EXCEPT ![req[c].name] = @ \cup {req[c].doc}] ELSE acked

\* Without a budget there is nothing to do.
NoBudget(c) ==
  /\ req[c].pc = "budget" /\ ~capped
  /\ AnswerInsert(c)
  /\ UNCHANGED <<manager, server, sent, excuses>>

\* Fault: the collections are scanned whether there is a budget or not.
BudgetAlways(c) ==
  /\ req[c].pc = "budget"
  /\ req' = [req EXCEPT ![c].pc = "scan", ![c].todo = LoadedCollections]
  /\ UNCHANGED <<manager, server, sent, history>>

Budget(c) ==
  /\ req[c].pc = "budget" /\ capped
  /\ req' = [req EXCEPT ![c].pc = "scan", ![c].todo = LoadedCollections]
  /\ UNCHANGED <<manager, server, sent, history>>

\* The read guard of each loaded collection in turn, in the table's order; the
\* own collection is one of them and its write guard is not released.
Scan(c) ==
  /\ req[c].pc = "scan"
  /\ \E h \in req[c].todo : ~Locked(h) /\ req' = [req EXCEPT ![c].todo = @ \ {h}]
  /\ UNCHANGED <<manager, server, sent, history>>

\* The caches are within the budget.
WithinBudget(c) ==
  /\ req[c].pc = "scan" /\ req[c].todo = {}
  /\ AnswerInsert(c)
  /\ UNCHANGED <<manager, server, sent, excuses>>

\* They are not: the collections with cached metadata, largest first, the
\* order and the number of them left open here.
OverBudget(c) ==
  /\ req[c].pc = "scan" /\ req[c].todo = {}
  /\ \E hs \in SUBSET LoadedCollections :
       req' = [req EXCEPT ![c].pc = "evict", ![c].todo = hs]
  /\ UNCHANGED <<manager, server, sent, history>>

\* clear_metadata_cache under the write guard.
Evict(c) ==
  /\ req[c].pc = "evict"
  /\ \E h \in req[c].todo : ~Locked(h) /\ req' = [req EXCEPT ![c].todo = @ \ {h}]
  /\ UNCHANGED <<manager, server, sent, history>>

EvictionDone(c) ==
  /\ req[c].pc = "evict" /\ req[c].todo = {}
  /\ AnswerInsert(c)
  /\ UNCHANGED <<manager, server, sent, excuses>>

-----------------------------------------------------------------------------
(* Rebuilding, listing and deleting collections.                           *)

\* rebuild_index: the status first,
MarkRunning(c) ==
  /\ req[c].pc = "running"
  /\ rebuildJobs' = [rebuildJobs EXCEPT ![req[c].name] = "Running"]
  /\ Goto(c, "spawn")
  /\ UNCHANGED <<manager, capped, readOnly, tasks, sent, history>>

\* then the task; the answer does not wait for it.
Spawn(c) ==
  /\ req[c].pc = "spawn"
  /\ tasks' = [tasks EXCEPT ![req[c].h] = @ + 1]
  /\ Answer(c)
  /\ UNCHANGED <<manager, capped, readOnly, rebuildJobs, sent, history>>

\* Fault: a rebuild that fails leaves its status as it is.
RebuildTaskSilent(h) ==
  /\ tasks[h] > 0 /\ ~Locked(h)
  /\ \/ rebuildJobs' = [rebuildJobs EXCEPT ![instances[h].name] = "Completed"]
     \/ UNCHANGED rebuildJobs
  /\ tasks' = [tasks EXCEPT ![h] = @ - 1]
  /\ UNCHANGED <<manager, capped, readOnly, req, sent, history>>

\* The task spawned for handle h rebuilds under the write guard, saves the index
\* and records under the collection's name how that ended.
RebuildTask(h) ==
  /\ tasks[h] > 0 /\ ~Locked(h)
  /\ \E status \in {"Completed", "Failed"} :
       rebuildJobs' = [rebuildJobs EXCEPT ![instances[h].name] = status]
  /\ tasks' = [tasks EXCEPT ![h] = @ - 1]
  /\ SavedByPath(h)
  /\ UNCHANGED <<manager, capped, readOnly, req, sent, acked, raced>>

\* One collection after the other under its read guard.
List(c) ==
  /\ req[c].pc = "list"
  /\ \/ \E h \in req[c].todo : ~Locked(h) /\ req' = [req EXCEPT ![c].todo = @ \ {h}]
     \/ req[c].todo = {} /\ Answer(c)
  /\ UNCHANGED <<manager, server, sent, history>>

\* delete_collection: a collection that is not loaded is not deleted, and
Remove(c) ==
  LET n == req[c].name IN
  /\ req[c].pc = "remove"
  /\ IF collections[n] = None THEN Answer(c) ELSE Goto(c, "unlink")
  /\ collections' = [collections EXCEPT ![n] = None]
  /\ UNCHANGED <<instances, paths, disk, server, sent, history>>

\* the files of one that is are removed by name.
Unlink(c) ==
  /\ req[c].pc = "unlink"
  /\ paths' = [paths EXCEPT ![req[c].name] = None]
  /\ Answer(c)
  /\ UNCHANGED <<collections, instances, disk, server, sent, history>>

-----------------------------------------------------------------------------
\* Steps that wait for a lock, and steps that wait for nothing.
Locking(c) ==
  Read(c) \/ Create(c) \/ CompactOwn(c) \/ CompactOther(c) \/ Insert(c) \/ InsertBreaksOff(c)
    \/ InsertRefused(c) \/ Delete(c) \/ Fails(c) \/ Scan(c) \/ Evict(c) \/ List(c)

Running(c) ==
  Lookup(c) \/ Exists(c) \/ Open(c) \/ OpenFails(c) \/ Register(c)
    \/ NoBudget(c) \/ Budget(c) \/ WithinBudget(c) \/ OverBudget(c) \/ EvictionDone(c)
    \/ MarkRunning(c) \/ Spawn(c) \/ Remove(c) \/ Unlink(c)

Arrival(c) ==
  Receive(c) \/ ReceiveInsert(c) \/ ReceiveDelete(c) \/ RefuseWrite(c) \/ ReceiveList(c)
    \/ ReceiveDeleteCollection(c)

Next ==
  \/ \E c \in Clients : Arrival(c) \/ Locking(c) \/ Running(c)
  \/ \E h \in Requests : RebuildTask(h)
  \/ ReloadConfig
  \/ Restart

\* A thread that can run does, and parking_lot's locks are handed on fairly: who
\* waits for one that is free again and again gets it.
Fairness ==
  /\ \A c \in Clients : WF_vars(Running(c)) /\ SF_vars(Locking(c))
  /\ \A h \in Requests : SF_vars(RebuildTask(h))

Spec == Init /\ [][Next]_vars /\ Fairness

-----------------------------------------------------------------------------
\* The variables keep their types: handles and files are among those opened and
\* created so far, no request opens more than one collection, and whoever is to
\* use a handle has one.
TypeOK ==
  /\ instances \in Seq([name : Names, file : DOMAIN disk, docs : SUBSET Docs])
  /\ Len(instances) <= sent
  /\ disk \in Seq(SUBSET Docs)
  /\ collections \in [Names -> Handles \cup {None}]
  /\ paths \in [Names -> DOMAIN disk \cup {None}]
  /\ capped \in BOOLEAN /\ readOnly \in BOOLEAN
  /\ rebuildJobs \in [Names -> {"Running", "Completed", "Failed", None}]
  /\ tasks \in [Requests -> Nat]
  /\ sent \in 0..MaxRequests
  /\ req \in [Clients -> [pc : Pcs, op : OpNames, name : Names \cup {None},
                          doc : Docs \cup {None}, h : Handles \cup {None},
                          todo : SUBSET Handles, must : SUBSET Docs, seen : SUBSET Docs,
                          counts : BOOLEAN]]
  /\ \A c \in Clients : req[c].pc \in HandlePcs => req[c].h \in Handles
  /\ acked \in [Names -> SUBSET Docs]
  /\ raced \in [Names -> BOOLEAN] /\ overwritten \in [Names -> BOOLEAN]

\* The collections some request, task or the table still refers to.
InUse(h) ==
  \/ h \in LoadedCollections
  \/ tasks[h] > 0
  \/ \E c \in Clients : req[c].pc \in HandlePcs /\ req[c].h = h

\* No open of the collection was raced by another or by a deletion, and its
\* files were always saved, to the end, by the one instance that had them.
Undisturbed(n) == ~raced[n] /\ ~overwritten[n]

\* "Each collection is an independent Collection with its own file"
\* (runtime/state.rs:33): no two opened collections work on one file, but for
\* names that one request opened while another one opened or deleted them, and
\* names to which a compaction that came too late gave its file.
OneInstanceUnlessDisturbed ==
  \A h, k \in Handles :
    h # k /\ InUse(h) /\ InUse(k) /\ Undisturbed(instances[h].name)
      => instances[h].file # instances[k].file

\* A read returns every document whose insert had been answered when the read
\* arrived, whichever handles the two got from the manager and whatever happened
\* to the collection in between, short of a deletion or such a disturbance.
ReadsSeeAckedWrites ==
  \A c \in Clients :
    ~InFlight(c) /\ req[c].op = "read" /\ Undisturbed(req[c].name)
      => req[c].must \subseteq req[c].seen

OnDisk(n, docs) == docs \subseteq (IF paths[n] = None THEN {} ELSE disk[paths[n]])

\* The documents promised to clients are in the file that has the collection's
\* name, where the next start of the server looks for them: insertions into a
\* collection deleted under them are never among those promised, compaction
\* loses none, and what a limit refused is there at most in addition.
AckedOnDisk == \A n \in Names : Undisturbed(n) => OnDisk(n, acked[n])

\* rebuild_index_status: "running" is only reported while a task is going to
\* replace it, across overlapping rebuilds and deletions of the collection.
RunningIsTrue ==
  \A n \in Names :
    rebuildJobs[n] = "Running" =>
      \/ \E h \in Handles : instances[h].name = n /\ tasks[h] > 0
      \/ \E c \in Clients : req[c].pc = "spawn" /\ req[c].name = n

\* Endpoints that look a collection up with get_existing bring no file into
\* being, whatever other requests do, unless the collection is deleted between
\* their Path::exists and their open, or before a compaction gets its guard.
ReadsDoNotCreate ==
  [][\A n \in Names :
       paths[n] = None /\ paths'[n] # None /\ Undisturbed(n)
         => \E c \in Clients : /\ req[c].name = n
                               /\ \/ req[c].pc = "open" /\ Creates(c)
                                  \/ req[c].pc = "use" /\ req[c].op = "compact"]_vars

\* Every request is answered.
EveryRequestAnswered == \A c \in Clients : InFlight(c) ~> ~InFlight(c)

\* Every request is answered as long as the configuration sets no cache budget:
\* handlers, deletions and rebuild tasks never wait for one another in a circle.
AnsweredWithoutBudget == [](~capped) => EveryRequestAnswered
=============================================================================
