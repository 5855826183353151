---------------------- MODULE CollectionManagerProofs -----------------------
(***************************************************************************)
(* Theorems about CollectionManager, for every value of its constants.     *)
(***************************************************************************)
EXTENDS CollectionManager, FiniteSetTheorems, TLAPS

-----------------------------------------------------------------------------
(* The type invariant, in two parts: what the requests share, and the      *)
(* requests.  That there are no more opened collections than requests sent *)
(* needs a count: a request that has not opened a collection yet may still *)
(* do so.                                                                  *)

Instance == [name : Names, file : DOMAIN disk, docs : SUBSET Docs]

SharedOK ==
  /\ instances \in Seq(Instance)
  /\ disk \in Seq(SUBSET Docs)
  /\ collections \in [Names -> Handles \cup {None}]
  /\ \A n \in Names : collections[n] # None => instances[collections[n]].name = n
  /\ paths \in [Names -> DOMAIN disk \cup {None}]
  /\ capped \in BOOLEAN /\ readOnly \in BOOLEAN
  /\ rebuildJobs \in [Names -> {"Running", "Completed", "Failed", None}]
  /\ tasks \in [Requests -> Nat]
  /\ sent \in 0..MaxRequests
  /\ acked \in [Names -> SUBSET Docs]
  /\ raced \in [Names -> BOOLEAN] /\ overwritten \in [Names -> BOOLEAN]

RequestType(insts) ==
  [pc : Pcs, op : OpNames, name : Names \cup {None}, doc : Docs \cup {None},
   h : DOMAIN insts \cup {None}, todo : SUBSET DOMAIN insts, must : SUBSET Docs,
   seen : SUBSET Docs, counts : BOOLEAN]

\* A request has a handle of a collection with the name it asked for.
HasHandle(q, insts) == q.h \in DOMAIN insts /\ insts[q.h].name = q.name

\* A request that is under way has what its next steps use.
RequestOK(q, insts) ==
  /\ q \in RequestType(insts)
  /\ q.pc \notin {"answered", "list"} => q.name \in Names
  /\ q.pc # "answered" /\ q.op \in {"insert", "delete"} => q.doc \in Docs
  /\ q.pc \in HandlePcs => HasHandle(q, insts)
  /\ q.pc \in GuardPcs => q.op = "insert"
  /\ q.pc \in {"remove", "unlink"} => q.op = "delete_collection"

RequestsOK ==
  /\ req = [c \in Clients |-> req[c]]
  /\ \A c \in Clients : RequestOK(req[c], instances)

\* The requests that may still open a collection.
MayOpen == {c \in Clients : req[c].pc \in {"lookup", "exists", "open"}}

Counted ==
  /\ IsFiniteSet(MayOpen)
  /\ Len(instances) + Cardinality(MayOpen) <= sent

TypeInv == SharedOK /\ RequestsOK /\ Counted

\* The type invariant that the runs check follows.
LEMMA TypeInvOK == TypeInv => TypeOK
<1> SUFFICES ASSUME TypeInv PROVE TypeOK
  OBVIOUS
<1>1. Len(instances) <= sent
  <2>1. Cardinality(MayOpen) \in Nat
    BY FS_CardinalityType DEF TypeInv, Counted
  <2>2. Len(instances) \in Nat /\ sent \in Nat
    BY ConstantsAssumption DEF TypeInv, SharedOK
  <2> QED
    BY <2>1, <2>2 DEF TypeInv, Counted
<1>2. req \in [Clients -> RequestType(instances)]
  BY DEF TypeInv, RequestsOK, RequestOK
<1>3. \A c \in Clients : req[c].pc \in HandlePcs => req[c].h \in Handles
  BY DEF TypeInv, RequestsOK, RequestOK, HasHandle, Handles
<1> QED
  BY <1>1, <1>2, <1>3 DEF TypeOK, TypeInv, SharedOK, RequestType, Instance, Handles

\* An answered request needs nothing.
LEMMA NoRequestOK == \A insts : RequestOK(NoRequest, insts)
BY ConstantsAssumption DEF NoRequest, RequestOK, RequestType, Pcs, OpNames, HandlePcs, GuardPcs

\* It holds when the server starts.
LEMMA InitTypeInv == Init => TypeInv
<1> SUFFICES ASSUME Init PROVE TypeInv
  OBVIOUS
<1>1. SharedOK
  <2>1. disk = <<>> /\ instances = <<>> /\ sent \in 0..MaxRequests
    BY ConstantsAssumption DEF Init
  <2>2. instances \in Seq(Instance) /\ disk \in Seq(SUBSET Docs)
    BY <2>1
  <2> QED
    BY <2>1, <2>2, ConstantsAssumption DEF Init, SharedOK
<1>2. RequestsOK
  BY NoRequestOK DEF Init, RequestsOK
<1>3. MayOpen = {}
  BY DEF Init, MayOpen, NoRequest
<1>4. Counted
  BY <1>3, FS_EmptySet DEF Init, Counted
<1> QED
  BY <1>1, <1>2, <1>4 DEF TypeInv

-----------------------------------------------------------------------------
(* How a request moves on.                                                 *)

Openers == {"lookup", "exists", "open"}

\* What a handler finds does not lose its name.
Keeps(insts, new) ==
  DOMAIN insts \subseteq DOMAIN new /\ \A h \in DOMAIN insts : new[h].name = insts[h].name

LEMMA KeptRequest ==
  ASSUME NEW insts, NEW new, Keeps(insts, new), NEW q, RequestOK(q, insts)
  PROVE  RequestOK(q, new)
BY DEF Keeps, RequestOK, RequestType, HasHandle

\* A handler goes on to another point with what it needs there.
LEMMA Goes ==
  ASSUME NEW insts, NEW q, RequestOK(q, insts), q.pc \notin {"answered", "list"},
         NEW pc \in Pcs \ {"answered", "list"},
         pc \in HandlePcs => HasHandle(q, insts),
         pc \in GuardPcs => q.op = "insert",
         pc \in {"remove", "unlink"} => q.op = "delete_collection"
  PROVE  RequestOK([q EXCEPT !.pc = pc], insts)
BY DEF RequestOK, RequestType, HasHandle

\* It has another list of collections to walk through.
LEMMA GoesOver ==
  ASSUME NEW insts, NEW q, RequestOK(q, insts), NEW todo \in SUBSET DOMAIN insts
  PROVE  RequestOK([q EXCEPT !.todo = todo], insts)
BY DEF RequestOK, RequestType, HasHandle

\* One request moves and opens nothing; the collections keep their names.
LEMMA OneMoves ==
  ASSUME TypeInv, NEW c \in Clients, NEW q, RequestOK(q, instances'),
         req' = [req EXCEPT ![c] = q], SharedOK',
         Keeps(instances, instances'), Len(instances') = Len(instances), sent <= sent',
         q.pc \in Openers => req[c].pc \in Openers
  PROVE  TypeInv'
<1>1. RequestsOK'
  BY KeptRequest DEF TypeInv, RequestsOK
<1>2. MayOpen' \subseteq MayOpen
  BY DEF MayOpen, TypeInv, RequestsOK, Openers
<1>3. IsFiniteSet(MayOpen') /\ Cardinality(MayOpen') <= Cardinality(MayOpen)
  BY <1>2, FS_Subset DEF TypeInv, Counted
<1>4. /\ Cardinality(MayOpen) \in Nat /\ Cardinality(MayOpen') \in Nat
      /\ Len(instances) \in Nat /\ sent \in Nat /\ sent' \in Nat
  BY <1>3, FS_CardinalityType, ConstantsAssumption DEF TypeInv, Counted, SharedOK
<1>5. Counted'
  BY <1>3, <1>4 DEF Counted, TypeInv
<1> QED
  BY <1>1, <1>5 DEF TypeInv

\* A step that changes none of what the requests share but a history or a
\* configuration: the collections stay as they are.
LEMMA MovesAlone ==
  ASSUME TypeInv, NEW c \in Clients, NEW q, RequestOK(q, instances),
         req' = [req EXCEPT ![c] = q],
         UNCHANGED <<manager, server, sent, history>>,
         q.pc \in Openers => req[c].pc \in Openers
  PROVE  TypeInv'
<1>1. SharedOK' /\ instances' = instances /\ sent' = sent
  BY DEF TypeInv, SharedOK, Instance, Handles, manager, server, history
<1>2. Keeps(instances, instances') /\ sent <= sent'
  BY <1>1, ConstantsAssumption DEF Keeps, TypeInv, SharedOK
<1> QED
  BY <1>1, <1>2, OneMoves

LEMMA AnswersAlone ==
  ASSUME TypeInv, NEW c \in Clients, Answer(c), UNCHANGED <<manager, server, sent, history>>
  PROVE  TypeInv'
BY NoRequestOK, MovesAlone DEF Answer, NoRequest, Openers

\* A handler goes on to another point and nothing else happens.
LEMMA GoesOnAlone ==
  ASSUME TypeInv, NEW c \in Clients, req[c].pc \notin {"answered", "list"},
         NEW pc \in Pcs \ {"answered", "list"}, Goto(c, pc),
         pc \in HandlePcs => HasHandle(req[c], instances),
         pc \in GuardPcs => req[c].op = "insert",
         pc \in {"remove", "unlink"} => req[c].op = "delete_collection",
         pc \in Openers => req[c].pc \in Openers,
         UNCHANGED <<manager, server, sent, history>>
  PROVE  TypeInv'
<1> DEFINE q == [req[c] EXCEPT !.pc = pc]
<1>1. RequestOK(req[c], instances)
  BY DEF TypeInv, RequestsOK
<1>2. RequestOK(q, instances)
  BY <1>1, Goes
<1>3. q.pc = pc
  BY <1>1 DEF RequestOK, RequestType
<1>4. req' = [req EXCEPT ![c] = q]
  BY DEF Goto
<1> QED
  BY <1>2, <1>3, <1>4, MovesAlone

\* A handler is done with one collection of its list.
LEMMA WalksAlone ==
  ASSUME TypeInv, NEW c \in Clients, req[c].pc \notin Openers, NEW h,
         req' = [req EXCEPT ![c].todo = @ \ {h}],
         UNCHANGED <<manager, server, sent, history>>
  PROVE  TypeInv'
<1> DEFINE todo == req[c].todo \ {h}
           q == [req[c] EXCEPT !.todo = todo]
<1>1. RequestOK(req[c], instances)
  BY DEF TypeInv, RequestsOK
<1>2. todo \in SUBSET DOMAIN instances
  BY <1>1 DEF RequestOK, RequestType
<1>3. RequestOK(q, instances) /\ q.pc = req[c].pc
  BY <1>1, <1>2, GoesOver DEF RequestOK, RequestType
<1>4. req' = [req EXCEPT ![c] = q]
  OBVIOUS
<1> QED
  BY <1>3, <1>4, MovesAlone

\* An insertion is answered, and its document may be promised from then on.
LEMMA AnswersInsert ==
  ASSUME TypeInv, NEW c \in Clients, req[c].pc \in GuardPcs, AnswerInsert(c),
         UNCHANGED <<manager, server, sent, excuses>>
  PROVE  TypeInv'
<1>1. RequestOK(req[c], instances)
  BY DEF TypeInv, RequestsOK
<1>2. req[c].doc \in Docs
  BY <1>1 DEF RequestOK, GuardPcs
<1>3. acked' \in [Names -> SUBSET Docs]
  BY <1>2 DEF AnswerInsert, TypeInv, SharedOK
<1>4. SharedOK' /\ instances' = instances /\ sent' = sent
  BY <1>3 DEF TypeInv, SharedOK, Instance, Handles, manager, server, excuses
<1>5. Keeps(instances, instances') /\ sent <= sent'
  BY <1>4, ConstantsAssumption DEF Keeps, TypeInv, SharedOK
<1> QED
  BY <1>4, <1>5, OneMoves, NoRequestOK DEF AnswerInsert, Answer, NoRequest, Openers

\* Every loaded collection has been opened.
LEMMA LoadedOpened == TypeInv => LoadedCollections \subseteq DOMAIN instances
BY DEF TypeInv, SharedOK, Handles, LoadedCollections

-----------------------------------------------------------------------------
(* The requests that arrive.                                               *)

\* A new request keeps the type invariant.
LEMMA ArriveTypeInv ==
  ASSUME TypeInv, NEW c \in Clients, NEW r, RequestOK(r, instances), r.name \in Names,
         NEW ds \in SUBSET Docs, Arrive(c, r, ds),
         UNCHANGED <<manager, server, overwritten>>, raced' \in [Names -> BOOLEAN]
  PROVE  TypeInv'
<1> DEFINE kept == acked[r.name] \ ds
<1>1. kept \in SUBSET Docs /\ acked' \in [Names -> SUBSET Docs]
  BY DEF Arrive, TypeInv, SharedOK
<1>2. sent \in Nat /\ sent' = sent + 1 /\ sent' \in 0..MaxRequests
  <2>1. sent < MaxRequests /\ sent' = sent + 1
    BY DEF Arrive
  <2>2. sent \in 0..MaxRequests
    BY DEF TypeInv, SharedOK
  <2> QED
    BY <2>1, <2>2, ConstantsAssumption
<1>3. SharedOK' /\ instances' = instances
  BY <1>1, <1>2 DEF TypeInv, SharedOK, Instance, Handles, manager, server
<1>4. ASSUME NEW b \in Clients PROVE RequestOK(req'[b], instances)
  <2>1. RequestOK(req[b], instances)
    BY DEF TypeInv, RequestsOK
  <2>2. CASE b = c
    <3>1. req'[b] = [r EXCEPT !.must = IF r.op = "read" THEN kept ELSE {}]
      BY <2>2 DEF Arrive
    <3> QED
      BY <1>1, <3>1 DEF RequestOK, RequestType, HasHandle
  <2>3. CASE b # c /\ req[b].name = r.name
    <3>1. req'[b] = [req[b] EXCEPT !.must = @ \ ds, !.counts = @ /\ ds # Docs]
      BY <2>3 DEF Arrive
    <3>2. (req[b].counts /\ ds # Docs) \in BOOLEAN /\ req[b].must \ ds \in SUBSET Docs
      BY <2>1 DEF RequestOK, RequestType
    <3> HIDE DEF kept
    <3> QED
      BY <2>1, <3>1, <3>2 DEF RequestOK, RequestType, HasHandle
  <2>4. CASE b # c /\ req[b].name # r.name
    BY <2>1, <2>4 DEF Arrive
  <2> QED
    BY <2>2, <2>3, <2>4
<1>5. RequestsOK'
  BY <1>3, <1>4 DEF RequestsOK, Arrive
<1>6. MayOpen' \subseteq MayOpen \cup {c}
  BY DEF MayOpen, Arrive, TypeInv, RequestsOK, RequestOK, RequestType
<1>7. IsFiniteSet(MayOpen) /\ Cardinality(MayOpen) \in Nat
  BY FS_CardinalityType DEF TypeInv, Counted
<1>8. /\ IsFiniteSet(MayOpen \cup {c})
      /\ Cardinality(MayOpen \cup {c}) <= Cardinality(MayOpen) + 1
  <2>1. /\ IsFiniteSet(MayOpen \cup {c})
        /\ \/ Cardinality(MayOpen \cup {c}) = Cardinality(MayOpen)
           \/ Cardinality(MayOpen \cup {c}) = Cardinality(MayOpen) + 1
    BY <1>7, FS_AddElement
  <2> QED
    BY <1>7, <2>1
<1>9. IsFiniteSet(MayOpen') /\ Cardinality(MayOpen') <= Cardinality(MayOpen \cup {c})
  BY <1>6, <1>8, FS_Subset
<1>10. /\ Cardinality(MayOpen \cup {c}) \in Nat /\ Cardinality(MayOpen') \in Nat
       /\ Len(instances) \in Nat
  BY <1>8, <1>9, FS_CardinalityType DEF TypeInv, SharedOK
<1>11. Counted'
  BY <1>2, <1>3, <1>7, <1>8, <1>9, <1>10 DEF Counted, TypeInv
<1> QED
  BY <1>3, <1>5, <1>11 DEF TypeInv

\* Whatever arrives keeps the type invariant.
LEMMA ArrivalTypeInv ==
  ASSUME TypeInv, NEW c \in Clients, Arrival(c)
  PROVE  TypeInv'
<1>1. sent \in Nat /\ raced \in [Names -> BOOLEAN] /\ Docs = 1..MaxRequests
  BY ConstantsAssumption DEF TypeInv, SharedOK, Docs, Requests
<1>2. CASE Receive(c)
  <2>1. PICK op \in Ops \cap {"create", "read", "compact", "rebuild_index"}, n \in Names :
          Arrive(c, Request(op, n, "lookup"), {})
    BY <1>2 DEF Receive
  <2>2. RequestOK(Request(op, n, "lookup"), instances) /\ Request(op, n, "lookup").name = n
    BY ConstantsAssumption DEF Request, NoRequest, RequestOK, RequestType, Pcs, HandlePcs,
       GuardPcs, OpeningPcs, OpNames
  <2> QED
    BY <1>1, <1>2, <2>1, <2>2, ArriveTypeInv DEF Receive, excuses
<1>3. CASE ReceiveInsert(c)
  <2>1. PICK n \in Names :
          Arrive(c, [Request("insert", n, "lookup") EXCEPT !.doc = sent + 1,
                                                           !.counts = ~Deleting(n)], {})
    BY <1>3 DEF ReceiveInsert
  <2> DEFINE counts == ~Deleting(n)
             r == [Request("insert", n, "lookup") EXCEPT !.doc = sent + 1, !.counts = counts]
  <2>2. sent < MaxRequests
    BY <2>1 DEF Arrive
  <2>3. sent + 1 \in Docs
    BY <1>1, <2>2, ConstantsAssumption
  <2>4. counts \in BOOLEAN
    OBVIOUS
  <2>5. Arrive(c, r, {})
    BY <2>1
  <2> HIDE DEF counts
  <2>6. RequestOK(r, instances) /\ r.name = n
    BY <2>3, <2>4 DEF Request, NoRequest, RequestOK, RequestType, Pcs, HandlePcs, GuardPcs,
       OpeningPcs, OpNames
  <2> HIDE DEF r
  <2> QED
    BY <1>1, <1>3, <2>5, <2>6, ArriveTypeInv DEF ReceiveInsert, excuses
<1>4. CASE ReceiveDelete(c)
  <2>0. PICK n \in Names : \E d \in acked[n] :
          Arrive(c, [Request("delete", n, "lookup") EXCEPT !.doc = d], {d})
    BY <1>4 DEF ReceiveDelete
  <2>1. PICK d \in acked[n] :
          Arrive(c, [Request("delete", n, "lookup") EXCEPT !.doc = d], {d})
    BY <2>0
  <2> DEFINE r == [Request("delete", n, "lookup") EXCEPT !.doc = d]
  <2>2. d \in Docs
    BY <2>1 DEF TypeInv, SharedOK
  <2>3. RequestOK(r, instances) /\ r.name = n
    BY <2>2 DEF Request, NoRequest, RequestOK, RequestType, Pcs, HandlePcs, GuardPcs,
       OpeningPcs, OpNames
  <2>4. Arrive(c, r, {d}) /\ {d} \in SUBSET Docs
    BY <2>1, <2>2
  <2> HIDE DEF r
  <2> QED
    BY <1>1, <1>4, <2>3, <2>4, ArriveTypeInv DEF ReceiveDelete, excuses
<1>5. CASE RefuseWrite(c)
  <2>1. sent' \in 0..MaxRequests /\ sent <= sent'
    BY <1>1, <1>5, ConstantsAssumption DEF RefuseWrite
  <2>2. SharedOK' /\ instances' = instances
    BY <1>5, <2>1 DEF RefuseWrite, TypeInv, SharedOK, Instance, Handles, manager, history
  <2>3. Keeps(instances, instances')
    BY <2>2 DEF Keeps
  <2> QED
    BY <1>5, <2>1, <2>2, <2>3, OneMoves, NoRequestOK
       DEF RefuseWrite, Answer, NoRequest, Openers
<1>6. CASE ReceiveList(c)
  <2> DEFINE q == [NoRequest EXCEPT !.pc = "list", !.todo = LoadedCollections]
  <2>1. sent' \in 0..MaxRequests /\ sent <= sent'
    BY <1>1, <1>6, ConstantsAssumption DEF ReceiveList
  <2>2. SharedOK' /\ instances' = instances
    BY <1>6, <2>1 DEF ReceiveList, TypeInv, SharedOK, Instance, Handles, manager, server, history
  <2>3. Keeps(instances, instances')
    BY <2>2 DEF Keeps
  <2>4. RequestOK(q, instances) /\ q.pc = "list"
    BY LoadedOpened DEF NoRequest, RequestOK, RequestType, Pcs, HandlePcs, GuardPcs,
       OpeningPcs, OpNames
  <2>5. req' = [req EXCEPT ![c] = q]
    BY <1>6 DEF ReceiveList
  <2> HIDE DEF q
  <2> QED
    BY <2>1, <2>2, <2>3, <2>4, <2>5, OneMoves DEF Openers
<1>7. CASE ReceiveDeleteCollection(c)
  <2>1. PICK n \in Names :
          /\ Arrive(c, Request("delete_collection", n, "remove"), Docs)
          /\ raced' = [raced EXCEPT ![n] = @ \/ Opening(n)]
    BY <1>7 DEF ReceiveDeleteCollection
  <2> DEFINE r == Request("delete_collection", n, "remove")
  <2>2. RequestOK(r, instances) /\ r.name = n
    BY DEF Request, NoRequest, RequestOK, RequestType, Pcs, HandlePcs, GuardPcs,
       OpeningPcs, OpNames
  <2>3. raced' \in [Names -> BOOLEAN]
    <3> DEFINE opening == Opening(n)
    <3>1. (raced[n] \/ opening) \in BOOLEAN
      OBVIOUS
    <3>2. raced' = [raced EXCEPT ![n] = raced[n] \/ opening]
      BY <2>1
    <3> HIDE DEF opening
    <3> QED
      BY <1>1, <3>1, <3>2
  <2> HIDE DEF r
  <2> QED
    BY <1>7, <2>1, <2>2, <2>3, ArriveTypeInv DEF ReceiveDeleteCollection, r
<1> QED
  BY <1>2, <1>3, <1>4, <1>5, <1>6, <1>7 DEF Arrival

-----------------------------------------------------------------------------
(* The steps of a handler.                                                 *)

LEMMA LookupTypeInv ==
  ASSUME TypeInv, NEW c \in Clients, Lookup(c)
  PROVE  TypeInv'
<1> DEFINE n == req[c].name
<1>1. RequestOK(req[c], instances) /\ req[c].pc = "lookup" /\ n \in Names
  BY DEF TypeInv, RequestsOK, RequestOK, Lookup
<1>2. CASE /\ collections[n] # None
           /\ req' = [req EXCEPT ![c].h = collections[n], ![c].pc = WithHandle(c)]
           /\ UNCHANGED raced
  <2> DEFINE q == [req[c] EXCEPT !.h = collections[n], !.pc = WithHandle(c)]
  <2>1. collections[n] \in DOMAIN instances /\ instances[collections[n]].name = n
    BY <1>1, <1>2 DEF TypeInv, SharedOK, Handles
  <2>2. WithHandle(c) \in {"running", "use"}
    BY DEF WithHandle
  <2>3. RequestOK(q, instances) /\ q.pc \notin Openers
    BY <1>1, <2>1, <2>2 DEF RequestOK, RequestType, HasHandle, Pcs, HandlePcs, GuardPcs,
       OpeningPcs, Openers
  <2>4. req' = [req EXCEPT ![c] = q]
    BY <1>2
  <2>5. UNCHANGED <<manager, server, sent, history>>
    BY <1>2 DEF Lookup, history
  <2> HIDE DEF q
  <2> QED
    BY <2>3, <2>4, <2>5, MovesAlone
<1>3. CASE /\ Goto(c, IF Creates(c) THEN "open" ELSE "exists")
           /\ raced' = [raced EXCEPT ![n] = @ \/ Opening(n) \/ Deleting(n)]
  <2> DEFINE pc == IF Creates(c) THEN "open" ELSE "exists"
             q == [req[c] EXCEPT !.pc = pc]
  <2>1. pc \in {"open", "exists"}
    OBVIOUS
  <2>2. req' = [req EXCEPT ![c] = q]
    BY <1>3 DEF Goto
  <2> HIDE DEF pc
  <2>3. RequestOK(q, instances) /\ q.pc = pc
    BY <1>1, <2>1, Goes DEF RequestOK, RequestType, Pcs, HandlePcs, GuardPcs, OpeningPcs
  <2>4. raced' \in [Names -> BOOLEAN]
    <3> DEFINE others == Opening(n) \/ Deleting(n)
    <3>1. (raced[n] \/ others) \in BOOLEAN
      OBVIOUS
    <3>2. raced' = [raced EXCEPT ![n] = raced[n] \/ others]
      BY <1>3
    <3> HIDE DEF others
    <3> QED
      BY <3>1, <3>2 DEF TypeInv, SharedOK
  <2>5. SharedOK' /\ instances' = instances /\ sent' = sent
    BY <2>4 DEF Lookup, TypeInv, SharedOK, Instance, Handles, manager, server
  <2>6. Keeps(instances, instances') /\ sent <= sent'
    BY <2>5, ConstantsAssumption DEF Keeps, TypeInv, SharedOK
  <2> HIDE DEF q
  <2> QED
    BY <1>1, <2>2, <2>3, <2>5, <2>6, OneMoves DEF Openers
<1> QED
  BY <1>2, <1>3 DEF Lookup

LEMMA ExistsTypeInv ==
  ASSUME TypeInv, NEW c \in Clients, Exists(c)
  PROVE  TypeInv'
<1>1. CASE Answer(c)
  BY <1>1, AnswersAlone DEF Exists
<1>2. CASE Goto(c, "open")
  BY <1>2, GoesOnAlone DEF Exists, Pcs, HandlePcs, GuardPcs, OpeningPcs, Openers
<1> QED
  BY <1>1, <1>2 DEF Exists

\* Opening a collection finds documents in its files.
LEMMA RecoverableDocs ==
  ASSUME TypeInv, NEW n \in Names
  PROVE  Recoverable(n) \subseteq SUBSET Docs
<1>1. disk \in Seq(SUBSET Docs) /\ paths[n] \in DOMAIN disk \cup {None}
  BY DEF TypeInv, SharedOK
<1>2. \A f \in DOMAIN disk : disk[f] \in SUBSET Docs
  BY <1>1
<1> QED
  BY <1>1, <1>2 DEF Recoverable

LEMMA OpenTypeInv ==
  ASSUME TypeInv, NEW c \in Clients, Open(c)
  PROVE  TypeInv'
<1> DEFINE n == req[c].name
           new == paths[n] = None
           file == IF new THEN Len(disk) + 1 ELSE paths[n]
           q == [req[c] EXCEPT !.h = Len(instances) + 1, !.pc = "register"]
<1>1. RequestOK(req[c], instances) /\ req[c].pc = "open" /\ n \in Names
  BY DEF TypeInv, RequestsOK, RequestOK, Open
<1>20. PICK docs \in Recoverable(n) :
         /\ disk' = IF new THEN Append(disk, docs) ELSE [disk EXCEPT ![file] = docs]
         /\ instances' = Append(instances, [name |-> n, file |-> file, docs |-> docs])
  BY DEF Open
<1>21. docs \in SUBSET Docs
  BY <1>1, RecoverableDocs
<1> DEFINE opened == [name |-> n, file |-> file, docs |-> docs]
<1>2. /\ disk' = IF new THEN Append(disk, docs) ELSE [disk EXCEPT ![file] = docs]
      /\ paths' = [paths EXCEPT ![n] = file]
      /\ instances' = Append(instances, opened)
      /\ req' = [req EXCEPT ![c] = q]
      /\ UNCHANGED <<collections, server, sent, history>>
  BY <1>20 DEF Open
<1>3. /\ disk' \in Seq(SUBSET Docs) /\ file \in DOMAIN disk'
      /\ DOMAIN disk \subseteq DOMAIN disk'
  <2>0. disk \in Seq(SUBSET Docs) /\ paths[n] \in DOMAIN disk \cup {None}
    BY <1>1 DEF TypeInv, SharedOK
  <2>1. CASE new
    BY <1>2, <1>21, <2>0, <2>1
  <2>2. CASE ~new
    BY <1>2, <1>21, <2>0, <2>2
  <2> QED
    BY <2>1, <2>2
<1>4. DOMAIN instances = 1..Len(instances) /\ Len(instances) \in Nat
  BY DEF TypeInv, SharedOK
<1> HIDE DEF new, file
<1>5. opened \in Instance'
  BY <1>1, <1>3, <1>21 DEF Instance
<1>6. instances \in Seq(Instance')
  <2>1. Instance \subseteq Instance'
    BY <1>3 DEF Instance
  <2>2. instances \in Seq(Instance)
    BY DEF TypeInv, SharedOK
  <2> HIDE DEF Instance
  <2> QED
    BY <2>1, <2>2
<1>7. /\ instances' \in Seq(Instance') /\ Len(instances') = Len(instances) + 1
      /\ \A h \in DOMAIN instances : instances'[h] = instances[h]
      /\ instances'[Len(instances) + 1] = opened
      /\ DOMAIN instances' = 1..(Len(instances) + 1)
  <2> HIDE DEF opened
  <2> DEFINE Ins == Instance'
  <2>1. instances \in Seq(Ins) /\ opened \in Ins /\ instances' = Append(instances, opened)
    BY <1>2, <1>5, <1>6
  <2> HIDE DEF Ins
  <2>2. /\ instances' \in Seq(Ins) /\ Len(instances') = Len(instances) + 1
        /\ \A h \in 1..Len(instances) : instances'[h] = instances[h]
        /\ instances'[Len(instances) + 1] = opened
        /\ DOMAIN instances' = 1..(Len(instances) + 1)
    BY <2>1
  <2> QED
    BY <1>4, <2>2 DEF Ins
<1>8. Keeps(instances, instances')
  BY <1>4, <1>7 DEF Keeps
<1>9. SharedOK'
  <2>2. collections' \in [Names -> Handles' \cup {None}]
    BY <1>2, <1>8 DEF TypeInv, SharedOK, Handles, Keeps
  <2>3. \A m \in Names : collections'[m] # None => instances'[collections'[m]].name = m
    BY <1>2, <1>8 DEF TypeInv, SharedOK, Handles, Keeps
  <2>4. paths' \in [Names -> DOMAIN disk' \cup {None}]
    BY <1>2, <1>3 DEF TypeInv, SharedOK
  <2> HIDE DEF opened, q
  <2> QED
    BY <1>2, <1>3, <1>7, <2>2, <2>3, <2>4 DEF TypeInv, SharedOK, server, history
<1>10. RequestOK(q, instances')
  <2>1. RequestOK(req[c], instances')
    BY <1>1, <1>8, KeptRequest
  <2>2. Len(instances) + 1 \in DOMAIN instances' /\ instances'[Len(instances) + 1].name = n
    BY <1>4, <1>7
  <2> HIDE DEF opened
  <2> QED
    BY <1>1, <2>1, <2>2 DEF RequestOK, RequestType, HasHandle, Pcs, HandlePcs, GuardPcs,
       OpeningPcs
<1>11. RequestsOK'
  <2>1. \A b \in Clients : RequestOK(req[b], instances')
    BY <1>8, KeptRequest DEF TypeInv, RequestsOK
  <2> HIDE DEF q
  <2> QED
    BY <1>2, <1>10, <2>1 DEF TypeInv, RequestsOK
<1>12. MayOpen' = MayOpen \ {c} /\ c \in MayOpen
  BY <1>1, <1>2 DEF MayOpen, TypeInv, RequestsOK, RequestOK, RequestType
<1>13. /\ IsFiniteSet(MayOpen') /\ Cardinality(MayOpen') = Cardinality(MayOpen) - 1
       /\ Cardinality(MayOpen) \in Nat /\ sent' = sent
  BY <1>2, <1>12, FS_RemoveElement, FS_CardinalityType DEF TypeInv, Counted
<1>14. Counted'
  <2>1. Len(instances) + Cardinality(MayOpen) <= sent /\ sent \in Nat
    BY ConstantsAssumption DEF TypeInv, Counted, SharedOK
  <2> QED
    BY <1>4, <1>7, <1>13, <2>1 DEF Counted
<1> QED
  BY <1>9, <1>11, <1>14 DEF TypeInv

LEMMA RegisterTypeInv ==
  ASSUME TypeInv, NEW c \in Clients, Register(c)
  PROVE  TypeInv'
<1> DEFINE q == [req[c] EXCEPT !.pc = WithHandle(c)]
<1>1. /\ RequestOK(req[c], instances) /\ req[c].pc = "register" /\ req[c].name \in Names
      /\ HasHandle(req[c], instances)
  BY DEF TypeInv, RequestsOK, RequestOK, Register, HandlePcs
<1>2. req' = [req EXCEPT ![c] = q]
  BY DEF Register, Goto
<1>3. WithHandle(c) \in {"running", "use"}
  BY DEF WithHandle
<1>4. RequestOK(q, instances) /\ q.pc = WithHandle(c)
  BY <1>1, <1>3, Goes DEF RequestOK, RequestType, Pcs, HandlePcs, GuardPcs, OpeningPcs
<1>5. SharedOK' /\ instances' = instances /\ sent' = sent
  BY <1>1 DEF Register, TypeInv, SharedOK, Instance, Handles, HasHandle, server, history
<1>6. Keeps(instances, instances') /\ sent <= sent'
  BY <1>5, ConstantsAssumption DEF Keeps, TypeInv, SharedOK
<1> HIDE DEF q
<1> QED
  BY <1>2, <1>3, <1>4, <1>5, <1>6, OneMoves DEF Openers

\* What a handle stands for.
LEMMA OpenedInstance ==
  ASSUME TypeInv, NEW h \in DOMAIN instances
  PROVE  /\ instances[h] \in Instance /\ instances[h].name \in Names
         /\ instances[h].file \in DOMAIN disk /\ instances[h].docs \in SUBSET Docs
<1>1. instances[h] \in Instance
  <2>1. instances \in Seq(Instance)
    BY DEF TypeInv, SharedOK
  <2> HIDE DEF Instance
  <2> QED
    BY <2>1
<1> QED
  BY <1>1 DEF Instance

\* A save by path changes at most whether the files are in order.
LEMMA SavedByPathType ==
  ASSUME TypeInv, NEW h, SavedByPath(h)
  PROVE  /\ overwritten' \in [Names -> BOOLEAN]
         /\ \A n \in Names : overwritten[n] => overwritten'[n]
BY DEF SavedByPath, TypeInv, SharedOK

\* Documents are written to a collection and its file.
LEMMA SetDocsTypeInv ==
  ASSUME TypeInv, NEW c \in Clients, req[c].pc \in HandlePcs,
         NEW ds \in SUBSET Docs, NEW logged \in SUBSET Docs,
         SetDocs(c, ds, logged), UNCHANGED <<collections, paths, server, sent, acked, raced>>
  PROVE  /\ SharedOK' /\ Keeps(instances, instances')
         /\ Len(instances') = Len(instances) /\ sent <= sent'
<1> DEFINE h == req[c].h
           i == [instances[h] EXCEPT !.docs = ds]
           f == instances[h].file
<1>1. h \in DOMAIN instances
  BY DEF TypeInv, RequestsOK, RequestOK, HasHandle
<1>2. /\ instances \in Seq(Instance) /\ disk \in Seq(SUBSET Docs)
      /\ instances[h] \in Instance /\ f \in DOMAIN disk
  BY <1>1, OpenedInstance DEF TypeInv, SharedOK
<1>3. /\ instances' = [instances EXCEPT ![h] = i]
      /\ \E saved \in SUBSET Docs : disk' = [disk EXCEPT ![f] = saved]
      /\ overwritten' \in [Names -> BOOLEAN]
  BY SavedByPathType DEF SetDocs
<1>4. i \in Instance /\ i.name = instances[h].name
  BY <1>2 DEF Instance
<1>5. disk' \in Seq(SUBSET Docs) /\ DOMAIN disk' = DOMAIN disk
  BY <1>2, <1>3
<1> HIDE DEF h, f, i
<1>6. /\ instances' \in Seq(Instance) /\ DOMAIN instances' = DOMAIN instances
      /\ Len(instances') = Len(instances)
      /\ \A k \in DOMAIN instances : instances'[k].name = instances[k].name
  <2> HIDE DEF Instance
  <2> QED
    BY <1>1, <1>2, <1>3, <1>4
<1>7. Instance' = Instance
  BY <1>5 DEF Instance
<1>8. Keeps(instances, instances')
  BY <1>6 DEF Keeps
<1>9. SharedOK'
  BY <1>3, <1>5, <1>6, <1>7 DEF TypeInv, SharedOK, Handles, server
<1> QED
  BY <1>6, <1>8, <1>9, ConstantsAssumption DEF TypeInv, SharedOK

\* What is in the file of a collection are documents.
LEMMA FileDocs ==
  ASSUME TypeInv, NEW h \in DOMAIN instances
  PROVE  disk[instances[h].file] \in SUBSET Docs
<1>1. disk \in Seq(SUBSET Docs) /\ instances[h].file \in DOMAIN disk
  BY OpenedInstance DEF TypeInv, SharedOK
<1> QED
  BY <1>1

LEMMA StoredTypeInv ==
  ASSUME TypeInv, NEW c \in Clients, Stored(c)
  PROVE  /\ RequestOK(req[c], instances) /\ req[c].pc = "use" /\ req[c].op = "insert"
         /\ HasHandle(req[c], instances)
         /\ SharedOK' /\ Keeps(instances, instances')
         /\ Len(instances') = Len(instances) /\ sent <= sent'
<1> DEFINE ds == instances[req[c].h].docs \cup {req[c].doc}
           logged == disk[instances[req[c].h].file] \cup {req[c].doc}
<1>1. /\ RequestOK(req[c], instances) /\ req[c].pc = "use" /\ req[c].op = "insert"
      /\ HasHandle(req[c], instances)
  BY DEF TypeInv, RequestsOK, RequestOK, Stored, TakesGuard, HandlePcs
<1>2. ds \in SUBSET Docs /\ logged \in SUBSET Docs
  BY <1>1, OpenedInstance, FileDocs DEF RequestOK, HasHandle
<1>3. SetDocs(c, ds, logged)
  BY DEF Stored
<1> HIDE DEF ds, logged
<1>4. /\ SharedOK' /\ Keeps(instances, instances')
      /\ Len(instances') = Len(instances) /\ sent <= sent'
  BY <1>1, <1>2, <1>3, SetDocsTypeInv DEF Stored, HandlePcs
<1> QED
  BY <1>1, <1>4

LEMMA InsertTypeInv ==
  ASSUME TypeInv, NEW c \in Clients, Insert(c)
  PROVE  TypeInv'
<1> DEFINE q == [req[c] EXCEPT !.pc = "budget"]
<1>1. /\ RequestOK(req[c], instances) /\ req[c].pc = "use" /\ req[c].op = "insert"
      /\ HasHandle(req[c], instances)
      /\ SharedOK' /\ Keeps(instances, instances')
      /\ Len(instances') = Len(instances) /\ sent <= sent'
  BY StoredTypeInv DEF Insert
<1>2. RequestOK(q, instances) /\ q.pc = "budget"
  BY <1>1, Goes DEF RequestOK, RequestType, Pcs, HandlePcs, GuardPcs, OpeningPcs
<1>3. RequestOK(q, instances')
  BY <1>1, <1>2, KeptRequest
<1>4. req' = [req EXCEPT ![c] = q]
  BY DEF Insert, Goto
<1> HIDE DEF q
<1> QED
  BY <1>1, <1>2, <1>3, <1>4, OneMoves DEF Openers

LEMMA InsertBreaksOffTypeInv ==
  ASSUME TypeInv, NEW c \in Clients, InsertBreaksOff(c)
  PROVE  TypeInv'
<1>1. /\ SharedOK' /\ Keeps(instances, instances')
      /\ Len(instances') = Len(instances) /\ sent <= sent'
  BY StoredTypeInv DEF InsertBreaksOff
<1> QED
  BY <1>1, NoRequestOK, OneMoves DEF InsertBreaksOff, Answer, NoRequest, Openers

LEMMA InsertRefusedTypeInv ==
  ASSUME TypeInv, NEW c \in Clients, InsertRefused(c)
  PROVE  TypeInv'
<1> DEFINE f == instances[req[c].h].file
           ds == disk[f] \cup {req[c].doc}
<1>1. RequestOK(req[c], instances) /\ req[c].op = "insert" /\ HasHandle(req[c], instances)
  BY DEF TypeInv, RequestsOK, RequestOK, InsertRefused, TakesGuard, HandlePcs
<1>2. ds \in SUBSET Docs
  BY <1>1, FileDocs DEF RequestOK, HasHandle, InsertRefused, TakesGuard
<1>3. disk' = [disk EXCEPT ![f] = ds] /\ disk \in Seq(SUBSET Docs) /\ f \in DOMAIN disk
  BY <1>1, OpenedInstance DEF InsertRefused, TypeInv, SharedOK, HasHandle
<1> HIDE DEF f, ds
<1>4. disk' \in Seq(SUBSET Docs) /\ DOMAIN disk' = DOMAIN disk
  BY <1>2, <1>3
<1>5. overwritten' \in [Names -> BOOLEAN]
  BY SavedByPathType DEF InsertRefused
<1>6. SharedOK' /\ instances' = instances /\ sent' = sent
  BY <1>4, <1>5 DEF InsertRefused, TypeInv, SharedOK, Instance, Handles, server
<1>7. Keeps(instances, instances') /\ sent <= sent'
  BY <1>6, ConstantsAssumption DEF Keeps, TypeInv, SharedOK
<1> QED
  BY <1>6, <1>7, NoRequestOK, OneMoves DEF InsertRefused, Answer, NoRequest, Openers

LEMMA DeleteTypeInv ==
  ASSUME TypeInv, NEW c \in Clients, Delete(c)
  PROVE  TypeInv'
<1> DEFINE ds == instances[req[c].h].docs \ {req[c].doc}
           logged == disk[instances[req[c].h].file] \ {req[c].doc}
<1>1. req[c].pc = "use" /\ HasHandle(req[c], instances)
  BY DEF TypeInv, RequestsOK, RequestOK, Delete, TakesGuard, HandlePcs
<1>2. ds \in SUBSET Docs /\ logged \in SUBSET Docs
  BY <1>1, OpenedInstance, FileDocs DEF HasHandle
<1>3. SetDocs(c, ds, logged)
  BY DEF Delete
<1> HIDE DEF ds, logged
<1>4. /\ SharedOK' /\ Keeps(instances, instances')
      /\ Len(instances') = Len(instances) /\ sent <= sent'
  BY <1>1, <1>2, <1>3, SetDocsTypeInv DEF Delete, HandlePcs
<1> QED
  BY <1>4, NoRequestOK, OneMoves DEF Delete, Answer, NoRequest, Openers

LEMMA CompactOwnTypeInv ==
  ASSUME TypeInv, NEW c \in Clients, CompactOwn(c)
  PROVE  TypeInv'
<1> DEFINE f == instances[req[c].h].file
           ds == instances[req[c].h].docs
<1>1. HasHandle(req[c], instances)
  BY DEF TypeInv, RequestsOK, RequestOK, CompactOwn, TakesGuard, HandlePcs
<1>2. ds \in SUBSET Docs
  BY <1>1, OpenedInstance DEF HasHandle
<1>3. disk' = [disk EXCEPT ![f] = ds] /\ disk \in Seq(SUBSET Docs) /\ f \in DOMAIN disk
  BY <1>1, OpenedInstance DEF CompactOwn, TypeInv, SharedOK, HasHandle
<1> HIDE DEF f, ds
<1>4. disk' \in Seq(SUBSET Docs) /\ DOMAIN disk' = DOMAIN disk
  BY <1>2, <1>3
<1>5. SharedOK' /\ instances' = instances /\ sent' = sent
  BY <1>4 DEF CompactOwn, TypeInv, SharedOK, Instance, Handles, server, history
<1>6. Keeps(instances, instances') /\ sent <= sent'
  BY <1>5, ConstantsAssumption DEF Keeps, TypeInv, SharedOK
<1> QED
  BY <1>5, <1>6, NoRequestOK, OneMoves DEF CompactOwn, Answer, NoRequest, Openers

\* What a compaction does that gives the collection's name to a file of its own.
LEMMA CompactOtherEffect ==
  ASSUME TypeInv, NEW c \in Clients, CompactOther(c)
  PROVE  LET n == req[c].name
             h == req[c].h
             file == Len(disk) + 1 IN
         /\ req[c].pc = "use" /\ req[c].op = "compact" /\ n \in Names
         /\ h \in Handles /\ instances[h].name = n
         /\ DOMAIN disk' = DOMAIN disk \cup {file} /\ file \notin DOMAIN disk
         /\ disk' \in Seq(SUBSET Docs)
         /\ \A f \in DOMAIN disk : disk'[f] = disk[f]
         /\ paths' = [paths EXCEPT ![n] = file]
         /\ overwritten' = [overwritten EXCEPT ![n] = TRUE]
         /\ Handles' = Handles /\ instances' \in Seq(Instance') /\ Len(instances') = Len(instances)
         /\ \A k \in Handles : /\ instances'[k].name = instances[k].name
                               /\ instances'[k].docs = instances[k].docs
                               /\ \/ instances'[k].file = instances[k].file
                                  \/ k = h /\ instances'[k].file = file
         /\ req' = [req EXCEPT ![c] = NoRequest]
         /\ UNCHANGED <<collections, server, sent, acked, raced>>
<1> DEFINE n == req[c].name
           h == req[c].h
           file == Len(disk) + 1
           i == [instances[h] EXCEPT !.file = file]
<1>1. /\ req[c].pc = "use" /\ req[c].op = "compact" /\ n \in Names
      /\ h \in DOMAIN instances /\ instances[h].name = n
  BY DEF CompactOther, TakesGuard, TypeInv, RequestsOK, RequestOK, HasHandle, HandlePcs
<1>2. /\ instances \in Seq(Instance) /\ disk \in Seq(SUBSET Docs)
      /\ instances[h] \in Instance /\ instances[h].docs \in SUBSET Docs
  BY <1>1, OpenedInstance DEF TypeInv, SharedOK
<1>3. /\ disk' = Append(disk, instances[h].docs)
      /\ paths' = [paths EXCEPT ![n] = file]
      /\ overwritten' = [overwritten EXCEPT ![n] = TRUE]
      /\ instances' = [instances EXCEPT ![h] = i] \/ instances' = instances
      /\ req' = [req EXCEPT ![c] = NoRequest]
      /\ UNCHANGED <<collections, server, sent, acked, raced>>
  BY DEF CompactOther, Answer
<1>4. /\ DOMAIN disk' = DOMAIN disk \cup {file} /\ file \notin DOMAIN disk
      /\ disk' \in Seq(SUBSET Docs) /\ \A f \in DOMAIN disk : disk'[f] = disk[f]
  <2> DEFINE D == SUBSET Docs
             ds == instances[h].docs
  <2>1. disk \in Seq(D) /\ ds \in D /\ disk' = Append(disk, ds)
    BY <1>2, <1>3
  <2> HIDE DEF D, ds, h
  <2>2. /\ disk' \in Seq(D) /\ Len(disk') = Len(disk) + 1 /\ Len(disk) \in Nat
        /\ DOMAIN disk = 1..Len(disk) /\ DOMAIN disk' = 1..(Len(disk) + 1)
        /\ \A f \in 1..Len(disk) : disk'[f] = disk[f]
    BY <2>1
  <2> QED
    BY <2>2 DEF D
<1>5. Instance \subseteq Instance' /\ i \in Instance'
  BY <1>2, <1>4 DEF Instance
<1>6. i.name = instances[h].name /\ i.docs = instances[h].docs /\ i.file = file
  BY <1>2 DEF Instance
<1>7. instances \in Seq(Instance') /\ Handles = DOMAIN instances
  <2> HIDE DEF Instance
  <2> QED
    BY <1>2, <1>5 DEF Handles
<1> HIDE DEF n, h, file, i
<1>8. /\ Handles' = Handles /\ instances' \in Seq(Instance') /\ Len(instances') = Len(instances)
      /\ \A k \in Handles : instances'[k] = instances[k] \/ (k = h /\ instances'[k] = i)
  <2> DEFINE Ins == Instance'
  <2>1. instances \in Seq(Ins) /\ i \in Ins /\ h \in DOMAIN instances
    BY <1>1, <1>5, <1>7
  <2> HIDE DEF Ins
  <2>2. CASE instances' = instances
    BY <2>1, <2>2 DEF Handles, Ins
  <2>3. CASE instances' = [instances EXCEPT ![h] = i]
    <3>1. /\ instances' \in Seq(Ins) /\ Len(instances') = Len(instances)
          /\ DOMAIN instances' = DOMAIN instances
          /\ \A k \in DOMAIN instances : instances'[k] = instances[k] \/ (k = h /\ instances'[k] = i)
      BY <2>1, <2>3
    <3> QED
      BY <3>1 DEF Handles, Ins
  <2> QED
    BY <1>3, <2>2, <2>3
<1>9. \A k \in Handles : /\ instances'[k].name = instances[k].name
                         /\ instances'[k].docs = instances[k].docs
                         /\ \/ instances'[k].file = instances[k].file
                            \/ k = h /\ instances'[k].file = file
  BY <1>6, <1>8
<1> QED
  BY <1>1, <1>3, <1>4, <1>7, <1>8, <1>9 DEF n, h, file

LEMMA CompactOtherTypeInv ==
  ASSUME TypeInv, NEW c \in Clients, CompactOther(c)
  PROVE  TypeInv'
<1> DEFINE n == req[c].name
           file == Len(disk) + 1
<1>1. /\ n \in Names /\ DOMAIN disk' = DOMAIN disk \cup {file} /\ disk' \in Seq(SUBSET Docs)
      /\ paths' = [paths EXCEPT ![n] = file]
      /\ overwritten' = [overwritten EXCEPT ![n] = TRUE]
      /\ Handles' = Handles /\ instances' \in Seq(Instance') /\ Len(instances') = Len(instances)
      /\ \A k \in Handles : instances'[k].name = instances[k].name
      /\ req' = [req EXCEPT ![c] = NoRequest]
      /\ UNCHANGED <<collections, server, sent, acked, raced>>
  BY CompactOtherEffect
<1> HIDE DEF n, file
<1>2. /\ paths' \in [Names -> DOMAIN disk' \cup {None}]
      /\ overwritten' \in [Names -> BOOLEAN]
      /\ collections' \in [Names -> Handles' \cup {None}]
      /\ \A m \in Names : collections'[m] # None => instances'[collections'[m]].name = m
  BY <1>1 DEF TypeInv, SharedOK
<1>3. SharedOK'
  <2> HIDE DEF Instance
  <2> QED
    BY <1>1, <1>2 DEF TypeInv, SharedOK, server
<1>4. Keeps(instances, instances') /\ sent <= sent'
  BY <1>1, ConstantsAssumption DEF Keeps, Handles, TypeInv, SharedOK
<1> QED
  BY <1>1, <1>3, <1>4, NoRequestOK, OneMoves DEF NoRequest, Openers

LEMMA ReadTypeInv ==
  ASSUME TypeInv, NEW c \in Clients, Read(c)
  PROVE  TypeInv'
<1> DEFINE q == [NoRequest EXCEPT !.op = "read", !.name = req[c].name, !.must = req[c].must,
                                  !.seen = instances[req[c].h].docs]
<1>1. RequestOK(req[c], instances) /\ HasHandle(req[c], instances)
  BY DEF TypeInv, RequestsOK, RequestOK, Read, TakesGuard, HandlePcs
<1>2. instances[req[c].h].docs \in SUBSET Docs
  BY <1>1, OpenedInstance DEF HasHandle
<1>3. RequestOK(q, instances) /\ q.pc = "answered"
  BY <1>1, <1>2, ZenonT(40) DEF NoRequest, RequestOK, RequestType, Pcs, HandlePcs, GuardPcs, OpeningPcs,
     OpNames
<1>4. req' = [req EXCEPT ![c] = q] /\ UNCHANGED <<manager, server, sent, history>>
  BY DEF Read
<1> HIDE DEF q
<1> QED
  BY <1>3, <1>4, MovesAlone DEF Openers

LEMMA LockingTypeInv ==
  ASSUME TypeInv, NEW c \in Clients, Locking(c)
  PROVE  TypeInv'
<1>1. CASE Create(c) \/ Fails(c)
  BY <1>1, AnswersAlone DEF Create, Fails
<1>2. CASE Scan(c) \/ Evict(c)
  <2>1. PICK h : req' = [req EXCEPT ![c].todo = @ \ {h}]
    BY <1>2 DEF Scan, Evict
  <2> QED
    BY <1>2, <2>1, WalksAlone DEF Scan, Evict, Openers
<1>3. CASE List(c)
  <2>1. CASE Answer(c)
    BY <1>3, <2>1, AnswersAlone DEF List
  <2>2. CASE \E h \in req[c].todo : req' = [req EXCEPT ![c].todo = @ \ {h}]
    BY <1>3, <2>2, WalksAlone DEF List, Openers
  <2> QED
    BY <1>3, <2>1, <2>2 DEF List
<1> QED
  BY <1>1, <1>2, <1>3, ReadTypeInv, CompactOwnTypeInv, CompactOtherTypeInv, InsertTypeInv,
     InsertBreaksOffTypeInv, InsertRefusedTypeInv, DeleteTypeInv DEF Locking

\* The loaded collections, or some of them, become the list to walk through.
LEMMA ListsAlone ==
  ASSUME TypeInv, NEW c \in Clients, req[c].pc \in GuardPcs, NEW pc \in GuardPcs,
         NEW hs \in SUBSET LoadedCollections,
         req' = [req EXCEPT ![c].pc = pc, ![c].todo = hs],
         UNCHANGED <<manager, server, sent, history>>
  PROVE  TypeInv'
<1> DEFINE q == [req[c] EXCEPT !.pc = pc, !.todo = hs]
<1>1. RequestOK(req[c], instances) /\ HasHandle(req[c], instances)
  BY DEF TypeInv, RequestsOK, RequestOK, GuardPcs, HandlePcs
<1>2. hs \subseteq DOMAIN instances
  BY LoadedOpened
<1>3. RequestOK(q, instances) /\ q.pc = pc
  BY <1>1, <1>2 DEF RequestOK, RequestType, HasHandle, Pcs, HandlePcs, GuardPcs, OpeningPcs
<1>4. req' = [req EXCEPT ![c] = q]
  OBVIOUS
<1> HIDE DEF q
<1> QED
  BY <1>3, <1>4, MovesAlone DEF GuardPcs, Openers

LEMMA SpawnTypeInv ==
  ASSUME TypeInv, NEW c \in Clients, Spawn(c)
  PROVE  TypeInv'
<1> DEFINE h == req[c].h
<1>1. tasks' \in [Requests -> Nat]
  <2>1. tasks' = [tasks EXCEPT ![h] = tasks[h] + 1] /\ tasks \in [Requests -> Nat]
    BY DEF Spawn, TypeInv, SharedOK
  <2> HIDE DEF h
  <2>2. CASE h \in Requests
    <3>1. tasks[h] + 1 \in Nat
      BY <2>1, <2>2
    <3> QED
      BY <2>1, <3>1
  <2>3. CASE h \notin Requests
    BY <2>1, <2>3
  <2> QED
    BY <2>2, <2>3
<1>2. SharedOK' /\ instances' = instances /\ sent' = sent
  BY <1>1 DEF Spawn, TypeInv, SharedOK, Instance, Handles, manager, history
<1>3. Keeps(instances, instances') /\ sent <= sent'
  BY <1>2, ConstantsAssumption DEF Keeps, TypeInv, SharedOK
<1> QED
  BY <1>2, <1>3, NoRequestOK, OneMoves DEF Spawn, Answer, NoRequest, Openers

LEMMA MarkRunningTypeInv ==
  ASSUME TypeInv, NEW c \in Clients, MarkRunning(c)
  PROVE  TypeInv'
<1> DEFINE q == [req[c] EXCEPT !.pc = "spawn"]
<1>1. RequestOK(req[c], instances) /\ HasHandle(req[c], instances) /\ req[c].pc = "running"
  BY DEF TypeInv, RequestsOK, RequestOK, MarkRunning, HandlePcs
<1>2. RequestOK(q, instances) /\ q.pc = "spawn"
  BY <1>1, Goes DEF RequestOK, RequestType, Pcs, HandlePcs, GuardPcs, OpeningPcs
<1>3. SharedOK' /\ instances' = instances /\ sent' = sent
  BY DEF MarkRunning, TypeInv, SharedOK, Instance, Handles, manager, history
<1>4. Keeps(instances, instances') /\ sent <= sent'
  BY <1>3, ConstantsAssumption DEF Keeps, TypeInv, SharedOK
<1>5. req' = [req EXCEPT ![c] = q]
  BY DEF MarkRunning, Goto
<1> HIDE DEF q
<1> QED
  BY <1>2, <1>3, <1>4, <1>5, OneMoves DEF Openers

LEMMA RemoveTypeInv ==
  ASSUME TypeInv, NEW c \in Clients, Remove(c)
  PROVE  TypeInv'
<1> DEFINE q == [req[c] EXCEPT !.pc = "unlink"]
<1>1. RequestOK(req[c], instances) /\ req[c].pc = "remove" /\ req[c].op = "delete_collection"
  BY DEF TypeInv, RequestsOK, RequestOK, Remove
<1>2. SharedOK' /\ instances' = instances /\ sent' = sent
  BY DEF Remove, TypeInv, SharedOK, Instance, Handles, server, history
<1>3. Keeps(instances, instances') /\ sent <= sent'
  BY <1>2, ConstantsAssumption DEF Keeps, TypeInv, SharedOK
<1>4. CASE Answer(c)
  BY <1>2, <1>3, <1>4, NoRequestOK, OneMoves DEF Answer, NoRequest, Openers
<1>5. CASE Goto(c, "unlink")
  <2>1. RequestOK(q, instances) /\ q.pc = "unlink"
    BY <1>1, Goes DEF RequestOK, RequestType, Pcs, HandlePcs, GuardPcs, OpeningPcs
  <2>2. req' = [req EXCEPT ![c] = q]
    BY <1>5 DEF Goto
  <2> HIDE DEF q
  <2> QED
    BY <1>2, <1>3, <2>1, <2>2, OneMoves DEF Openers
<1> QED
  BY <1>4, <1>5 DEF Remove

LEMMA UnlinkTypeInv ==
  ASSUME TypeInv, NEW c \in Clients, Unlink(c)
  PROVE  TypeInv'
<1>1. SharedOK' /\ instances' = instances /\ sent' = sent
  BY DEF Unlink, TypeInv, SharedOK, Instance, Handles, server, history
<1>2. Keeps(instances, instances') /\ sent <= sent'
  BY <1>1, ConstantsAssumption DEF Keeps, TypeInv, SharedOK
<1> QED
  BY <1>1, <1>2, NoRequestOK, OneMoves DEF Unlink, Answer, NoRequest, Openers

LEMMA RunningTypeInv ==
  ASSUME TypeInv, NEW c \in Clients, Running(c)
  PROVE  TypeInv'
<1>1. CASE OpenFails(c)
  BY <1>1, AnswersAlone DEF OpenFails
<1>2. CASE NoBudget(c) \/ WithinBudget(c) \/ EvictionDone(c)
  BY <1>2, AnswersInsert DEF NoBudget, WithinBudget, EvictionDone, GuardPcs
<1>3. CASE Budget(c)
  BY <1>3, ListsAlone DEF Budget, GuardPcs
<1>4. CASE OverBudget(c)
  <2>1. PICK hs \in SUBSET LoadedCollections :
          req' = [req EXCEPT ![c].pc = "evict", ![c].todo = hs]
    BY <1>4 DEF OverBudget
  <2> QED
    BY <1>4, <2>1, ListsAlone DEF OverBudget, GuardPcs
<1> QED
  BY <1>1, <1>2, <1>3, <1>4, LookupTypeInv, ExistsTypeInv, OpenTypeInv, RegisterTypeInv,
     MarkRunningTypeInv, SpawnTypeInv, RemoveTypeInv, UnlinkTypeInv DEF Running

\* What no request takes part in.
LEMMA RequestsUnmoved ==
  ASSUME TypeInv, SharedOK', UNCHANGED <<manager, req, sent>>
  PROVE  TypeInv'
BY DEF TypeInv, RequestsOK, Counted, MayOpen, manager

LEMMA RebuildTaskTypeInv ==
  ASSUME TypeInv, NEW h \in Requests, RebuildTask(h)
  PROVE  TypeInv'
<1>1. tasks[h] \in Nat /\ tasks[h] > 0 /\ tasks' = [tasks EXCEPT ![h] = tasks[h] - 1]
  BY DEF RebuildTask, TypeInv, SharedOK
<1>2. tasks' \in [Requests -> Nat]
  <2>1. tasks[h] - 1 \in Nat
    BY <1>1
  <2>2. tasks \in [Requests -> Nat]
    BY DEF TypeInv, SharedOK
  <2> QED
    BY <1>1, <2>1, <2>2
<1>3. rebuildJobs' \in [Names -> {"Running", "Completed", "Failed", None}]
  BY DEF RebuildTask, TypeInv, SharedOK
<1>4. overwritten' \in [Names -> BOOLEAN]
  BY SavedByPathType DEF RebuildTask
<1>5. SharedOK'
  BY <1>2, <1>3, <1>4, ConstantsAssumption
     DEF RebuildTask, TypeInv, SharedOK, Instance, Handles, manager
<1> QED
  BY <1>5, RequestsUnmoved DEF RebuildTask

LEMMA ReloadConfigTypeInv ==
  ASSUME TypeInv, ReloadConfig
  PROVE  TypeInv'
<1>1. SharedOK'
  BY ConstantsAssumption
     DEF ReloadConfig, TypeInv, SharedOK, Instance, Handles, manager, history
<1> QED
  BY <1>1, RequestsUnmoved DEF ReloadConfig

LEMMA RestartTypeInv ==
  ASSUME TypeInv, Restart
  PROVE  TypeInv'
<1>1. SharedOK'
  <2>1. instances' = <<>> /\ instances' \in Seq(Instance')
    BY DEF Restart
  <2> QED
    BY <2>1, ConstantsAssumption DEF Restart, TypeInv, SharedOK, history
<1>2. RequestsOK'
  BY NoRequestOK DEF Restart, RequestsOK
<1>3. MayOpen' = {}
  BY DEF Restart, MayOpen, NoRequest
<1>4. Counted'
  <2>1. sent \in Nat /\ sent' = sent /\ instances' = <<>>
    BY ConstantsAssumption DEF Restart, TypeInv, SharedOK
  <2>2. IsFiniteSet(MayOpen') /\ Cardinality(MayOpen') = 0
    BY <1>3, FS_EmptySet
  <2> QED
    BY <2>1, <2>2 DEF Counted
<1> QED
  BY <1>1, <1>2, <1>4 DEF TypeInv

LEMMA NextTypeInv == TypeInv /\ [Next]_vars => TypeInv'
<1> SUFFICES ASSUME TypeInv, [Next]_vars PROVE TypeInv'
  OBVIOUS
<1>1. CASE UNCHANGED vars
  <2>1. SharedOK' /\ UNCHANGED <<manager, req, sent>>
    BY <1>1 DEF vars, TypeInv, SharedOK, Instance, Handles, manager, history
  <2> QED
    BY <2>1, RequestsUnmoved
<1>2. CASE Next
  BY <1>2, ArrivalTypeInv, LockingTypeInv, RunningTypeInv, RebuildTaskTypeInv,
     ReloadConfigTypeInv, RestartTypeInv DEF Next
<1> QED
  BY <1>1, <1>2

LEMMA TypeInvAlways == Spec => []TypeInv
BY InitTypeInv, NextTypeInv, PTL DEF Spec

\* The table, the files, the requests and the jobs keep their types, and no more
\* collections are opened than requests sent, whoever opens them at the same time.
THEOREM ManagerTypeCorrect == Spec => []TypeOK
BY TypeInvAlways, TypeInvOK, PTL

-----------------------------------------------------------------------------
(* Rebuild jobs.                                                           *)

\* Collections opened once stay opened, under the same name.
LEMMA NamesKept ==
  ASSUME TypeInv, Next, ~Restart
  PROVE  Keeps(instances, instances')
<1>1. CASE UNCHANGED instances
  BY <1>1 DEF Keeps
<1>2. CASE \E c \in Clients : Open(c)
  <2>1. PICK i : instances' = Append(instances, i)
    BY <1>2 DEF Open
  <2>2. instances \in Seq(Instance)
    BY DEF TypeInv, SharedOK
  <2> HIDE DEF Instance
  <2> QED
    BY <2>1, <2>2 DEF Keeps
<1>3. CASE \E c \in Clients : Stored(c) \/ Delete(c)
  <2>1. PICK c \in Clients : Stored(c) \/ Delete(c)
    BY <1>3
  <2>2. PICK ds :
          instances' = [instances EXCEPT ![req[c].h].docs = ds] /\ req[c].pc = "use"
    BY <2>1 DEF Stored, Delete, SetDocs, TakesGuard
  <2>3. req[c].h \in DOMAIN instances
    BY <2>2 DEF TypeInv, RequestsOK, RequestOK, HasHandle, HandlePcs
  <2>4. instances[req[c].h] \in Instance
    BY <2>3, OpenedInstance
  <2> QED
    BY <2>2, <2>3, <2>4 DEF Keeps, Instance
<1>4. CASE \E c \in Clients : CompactOther(c)
  <2>1. Handles' = Handles /\ \A k \in Handles : instances'[k].name = instances[k].name
    BY <1>4, CompactOtherEffect
  <2> QED
    BY <2>1 DEF Keeps, Handles
<1> QED
  BY <1>1, <1>2, <1>3, <1>4, ZenonT(40)
     DEF Next, Arrival, Receive, ReceiveInsert, ReceiveDelete, RefuseWrite, ReceiveList,
     ReceiveDeleteCollection, Locking, Read, Create, CompactOwn, Insert,
     InsertBreaksOff, InsertRefused, Fails, Scan, Evict, List,
     Running, Lookup, Exists, OpenFails, Register, NoBudget, Budget, WithinBudget, OverBudget,
     EvictionDone, MarkRunning, Spawn, Remove, Unlink, RebuildTask, ReloadConfig, manager

\* A handler that is about to spawn a rebuild does nothing before it has.
Waits(b) == req'[b].pc = "spawn" /\ req'[b].name = req[b].name

\* Requests that arrive touch no handler that is about to spawn.
LEMMA ArriveWaits ==
  ASSUME TypeInv, NEW c \in Clients, NEW r, NEW ds, Arrive(c, r, ds),
         NEW b \in Clients, req[b].pc = "spawn"
  PROVE  Waits(b)
<1>1. b # c /\ RequestOK(req[b], instances)
  BY DEF Arrive, InFlight, TypeInv, RequestsOK
<1>2. \/ req'[b] = req[b]
      \/ req'[b] = [req[b] EXCEPT !.must = req[b].must \ ds, !.counts = req[b].counts /\ ds # Docs]
  BY <1>1 DEF Arrive
<1> QED
  BY <1>1, <1>2 DEF Waits, RequestOK, RequestType

LEMMA SpawnersWait ==
  ASSUME TypeInv, NEW c \in Clients, Arrival(c) \/ Locking(c) \/ Running(c), ~Spawn(c),
         NEW b \in Clients, req[b].pc = "spawn"
  PROVE  Waits(b)
<1>1. CASE Arrival(c)
  <2>1. CASE RefuseWrite(c) \/ ReceiveList(c)
    BY <2>1 DEF RefuseWrite, ReceiveList, Answer, InFlight, Waits, TypeInv, RequestsOK
  <2>2. CASE \E r, ds : Arrive(c, r, ds)
    BY <2>2, ArriveWaits
  <2> QED
    BY <1>1, <2>1, <2>2 DEF Arrival, Receive, ReceiveInsert, ReceiveDelete, RefuseWrite,
       ReceiveList, ReceiveDeleteCollection
<1>2. CASE Locking(c)
  <2>1. req[c].pc # "spawn" /\ \E q : req' = [req EXCEPT ![c] = q]
    BY <1>2 DEF Locking, Read, Create, CompactOwn, CompactOther, Stored, Insert,
       InsertBreaksOff, InsertRefused, Fails, Delete, Scan, Evict, List, TakesGuard, Answer, Goto
  <2> QED
    BY <2>1 DEF Waits
<1>3. CASE Running(c)
  <2>1. req[c].pc # "spawn" /\ \E q : req' = [req EXCEPT ![c] = q]
    BY <1>3, ZenonT(40) DEF Running, Lookup, Exists, Open, OpenFails, Register, NoBudget, Budget,
       WithinBudget, OverBudget, EvictionDone, AnswerInsert, MarkRunning, Remove, Unlink,
       Answer, Goto
  <2> QED
    BY <2>1 DEF Waits
<1> QED
  BY <1>1, <1>2, <1>3

LEMMA NextRunningIsTrue ==
  TypeInv /\ RunningIsTrue /\ [Next]_vars => RunningIsTrue'
<1> SUFFICES ASSUME TypeInv, RunningIsTrue, [Next]_vars, NEW n \in Names,
                    rebuildJobs'[n] = "Running"
             PROVE  \/ \E h \in Handles' : instances'[h].name = n /\ tasks'[h] > 0
                    \/ \E c \in Clients : req'[c].pc = "spawn" /\ req'[c].name = n
  BY DEF RunningIsTrue
<1>1. CASE UNCHANGED vars
  BY <1>1 DEF vars, RunningIsTrue, Handles
<1>2. ASSUME NEW c \in Clients, Spawn(c)
      PROVE  \/ \E h \in Handles' : instances'[h].name = n /\ tasks'[h] > 0
             \/ \E b \in Clients : req'[b].pc = "spawn" /\ req'[b].name = n
  <2> DEFINE k == req[c].h
  <2>1. k \in Handles /\ instances[k].name = req[c].name
    BY <1>2 DEF Spawn, TypeInv, RequestsOK, RequestOK, HasHandle, HandlePcs, Handles
  <2>2. tasks \in [Requests -> Nat] /\ Handles \subseteq Requests
    <3>1. Len(instances) <= sent /\ sent \in 0..MaxRequests /\ instances \in Seq(Instance)
      BY TypeInvOK DEF TypeOK, TypeInv, SharedOK
    <3> HIDE DEF Instance
    <3> QED
      BY <3>1, ConstantsAssumption DEF TypeInv, SharedOK, Handles, Requests
  <2>3. /\ tasks' = [tasks EXCEPT ![k] = tasks[k] + 1]
        /\ instances' = instances /\ rebuildJobs' = rebuildJobs
        /\ req' = [req EXCEPT ![c] = NoRequest]
    BY <1>2 DEF Spawn, Answer, manager
  <2> HIDE DEF k
  <2>4. tasks'[k] > 0 /\ \A h \in Requests : tasks[h] > 0 => tasks'[h] > 0
    BY <2>1, <2>2, <2>3
  <2>5. CASE \E h \in Handles : instances[h].name = n /\ tasks[h] > 0
    BY <2>2, <2>3, <2>4, <2>5 DEF Handles
  <2>6. CASE \E b \in Clients : req[b].pc = "spawn" /\ req[b].name = n
    <3>1. PICK b \in Clients : req[b].pc = "spawn" /\ req[b].name = n
      BY <2>6
    <3>2. CASE b = c
      BY <2>1, <2>3, <2>4, <3>1, <3>2 DEF Handles
    <3>3. CASE b # c
      BY <2>3, <3>1, <3>3
    <3> QED
      BY <3>2, <3>3
  <2> QED
    BY <2>3, <2>5, <2>6 DEF RunningIsTrue
<1>3. ASSUME NEW k \in Requests, RebuildTask(k)
      PROVE  \/ \E h \in Handles' : instances'[h].name = n /\ tasks'[h] > 0
             \/ \E b \in Clients : req'[b].pc = "spawn" /\ req'[b].name = n
  <2>1. /\ rebuildJobs[n] = "Running" /\ n # instances[k].name
        /\ \A h : h # k => tasks'[h] = tasks[h]
        /\ instances' = instances /\ req' = req
    BY <1>3 DEF RebuildTask, TypeInv, SharedOK, manager
  <2> QED
    BY <2>1 DEF RunningIsTrue, Handles
<1>4. CASE ReloadConfig
  BY <1>4 DEF ReloadConfig, RunningIsTrue, Handles, manager
<1>5. CASE Restart
  BY <1>5, ConstantsAssumption DEF Restart
<1>6. ASSUME NEW c \in Clients, MarkRunning(c)
      PROVE  \/ \E h \in Handles' : instances'[h].name = n /\ tasks'[h] > 0
             \/ \E b \in Clients : req'[b].pc = "spawn" /\ req'[b].name = n
  <2>1. /\ req'[c].pc = "spawn" /\ req'[c].name = req[c].name
        /\ rebuildJobs' = [rebuildJobs EXCEPT ![req[c].name] = "Running"]
        /\ instances' = instances /\ tasks' = tasks
    BY <1>6 DEF MarkRunning, Goto, TypeInv, RequestsOK, RequestOK, RequestType, manager
  <2>2. \A b \in Clients : req[b].pc = "spawn" => Waits(b)
    BY <1>6, SpawnersWait DEF Running, MarkRunning, Spawn
  <2>3. CASE req[c].name = n
    BY <2>1, <2>3
  <2>4. CASE req[c].name # n
    <3>1. rebuildJobs[n] = "Running"
      BY <2>1, <2>4 DEF TypeInv, SharedOK
    <3>2. \/ \E h \in Handles : instances[h].name = n /\ tasks[h] > 0
          \/ \E b \in Clients : req[b].pc = "spawn" /\ req[b].name = n
      BY <3>1 DEF RunningIsTrue
    <3> QED
      BY <2>1, <2>2, <3>2 DEF Handles, Waits
  <2> QED
    BY <2>3, <2>4
<1>7. ASSUME NEW c \in Clients, Arrival(c) \/ Locking(c) \/ Running(c),
             ~Spawn(c), ~MarkRunning(c), ~Restart
      PROVE  \/ \E h \in Handles' : instances'[h].name = n /\ tasks'[h] > 0
             \/ \E b \in Clients : req'[b].pc = "spawn" /\ req'[b].name = n
  <2>1. rebuildJobs' = rebuildJobs /\ tasks' = tasks
    BY <1>7, ZenonT(40) DEF Arrival, Receive, ReceiveInsert, ReceiveDelete, RefuseWrite, ReceiveList,
       ReceiveDeleteCollection, Locking, Read, Create, CompactOwn, CompactOther, Stored,
       Insert, InsertBreaksOff, InsertRefused, Fails, Delete, Scan, Evict, List, Running, Lookup, Exists, Open, OpenFails, Register, NoBudget, Budget,
       WithinBudget, OverBudget, EvictionDone, Remove, Unlink, server
  <2>2. Keeps(instances, instances')
    BY <1>7, NamesKept DEF Next
  <2>3. \A b \in Clients : req[b].pc = "spawn" => Waits(b)
    BY <1>7, SpawnersWait
  <2>4. \/ \E h \in Handles : instances[h].name = n /\ tasks[h] > 0
        \/ \E b \in Clients : req[b].pc = "spawn" /\ req[b].name = n
    BY <2>1 DEF RunningIsTrue
  <2> QED
    BY <2>1, <2>2, <2>3, <2>4 DEF Keeps, Waits, Handles
<1> QED
  BY <1>1, <1>2, <1>3, <1>4, <1>5, <1>6, <1>7 DEF Next

\* A rebuild reported as running has a task that will replace the report or a
\* handler about to spawn it, whatever rebuilds overlap and whichever
\* collections of that name are deleted and opened meanwhile.
THEOREM RunningAlwaysTrue == Spec => []RunningIsTrue
<1>1. Init => RunningIsTrue
  BY ConstantsAssumption DEF Init, RunningIsTrue
<1>2. TypeInv /\ TypeInv' /\ RunningIsTrue /\ [Next]_vars => RunningIsTrue'
  BY NextRunningIsTrue
<1> QED
  BY <1>1, <1>2, TypeInvAlways, PTL DEF Spec

-----------------------------------------------------------------------------
(* Who works on a name that was not disturbed.                             *)

Opens(c, n) == req[c].name = n /\ req[c].pc \in OpeningPcs

\* A file belongs to one name, linked or not.
OneName ==
  /\ \A h, k \in Handles :
       instances[h].file = instances[k].file => instances[h].name = instances[k].name
  /\ \A h \in Handles, n \in Names : instances[h].file = paths[n] => instances[h].name = n
  /\ \A m, n \in Names : paths[m] # None /\ paths[m] = paths[n] => m = n

\* Whoever opens the collection does so alone, and it is not loaded yet.
Alone(n) ==
  /\ \A b, c \in Clients : Opens(b, n) /\ Opens(c, n) => b = c
  /\ Opening(n) => ~Deleting(n) /\ collections[n] = None

\* The linked file of an opened collection is in the table, or about to enter
\* it, or about to be unlinked.
Linked(n) ==
  \A h \in Handles :
    paths[n] # None /\ instances[h].file = paths[n] =>
      \/ collections[n] # None
      \/ \E c \in Clients : req[c].name = n /\ req[c].pc \in {"register", "unlink"}

Distinct(n) ==
  \A h, k \in Handles :
    h # k /\ instances[h].name = n /\ instances[k].name = n
      => instances[h].file # instances[k].file

\* Who must not create a file has found one.
Found(n) ==
  \A c \in Clients : Opens(c, n) /\ req[c].pc = "open" /\ ~Creates(c) => paths[n] # None

Unraced(n) == Alone(n) /\ Linked(n) /\ Distinct(n) /\ Found(n)

RaceInv == OneName /\ \A n \in Names : Undisturbed(n) => Unraced(n)

LEMMA RaceInvOK == TypeInv /\ RaceInv => OneInstanceUnlessDisturbed
<1> SUFFICES ASSUME TypeInv, RaceInv, NEW h \in Handles, NEW k \in Handles, h # k,
                    Undisturbed(instances[h].name)
             PROVE  instances[h].file # instances[k].file
  BY DEF OneInstanceUnlessDisturbed
<1>1. instances[h].name \in Names
  BY OpenedInstance DEF Handles
<1>2. Distinct(instances[h].name)
  BY <1>1 DEF RaceInv, Unraced
<1>3. CASE instances[k].name = instances[h].name
  BY <1>2, <1>3 DEF Distinct
<1>4. CASE instances[k].name # instances[h].name
  BY <1>4 DEF RaceInv, OneName
<1> QED
  BY <1>3, <1>4

LEMMA InitRaceInv == Init => RaceInv
BY DEF Init, RaceInv, OneName, Unraced, Alone, Linked, Distinct, Found, Opens, Opening, About,
   InFlight, NoRequest, OpeningPcs, Handles

-----------------------------------------------------------------------------
(* Steps after which nobody opens, deletes, registers or unlinks that did  *)
(* not before.                                                             *)

SameWork(c) == req'[c].pc = req[c].pc /\ req'[c].name = req[c].name /\ req'[c].op = req[c].op

Deletes(q) == q.pc # "answered" /\ q.op = "delete_collection"

Quiet ==
  /\ UNCHANGED <<collections, paths>>
  /\ DOMAIN instances' = DOMAIN instances
  /\ \A h \in DOMAIN instances :
       instances'[h].name = instances[h].name /\ instances'[h].file = instances[h].file
  /\ \A n \in Names : Undisturbed(n)' => Undisturbed(n)
  /\ \A c \in Clients :
       /\ req'[c].pc \in OpeningPcs => SameWork(c)
       /\ Deletes(req'[c]) => Deletes(req[c]) /\ req'[c].name = req[c].name
       /\ req[c].pc \in {"register", "unlink"} => SameWork(c)

LEMMA QuietRace ==
  ASSUME RaceInv, Quiet
  PROVE  RaceInv'
<1>1. OneName'
  BY DEF RaceInv, OneName, Quiet, Handles
<1>2. ASSUME NEW n \in Names, Undisturbed(n)' PROVE Unraced(n)'
  <2>1. Unraced(n)
    BY <1>2 DEF RaceInv, Quiet
  <2>2. Alone(n)'
    BY <2>1 DEF Unraced, Alone, Quiet, SameWork, Deletes, Opens, Opening, Deleting, About, InFlight
  <2>3. Linked(n)'
    BY <2>1 DEF Unraced, Linked, Quiet, SameWork, Handles
  <2>4. Distinct(n)'
    BY <2>1 DEF Unraced, Distinct, Quiet, Handles
  <2>5. Found(n)'
    BY <2>1 DEF Unraced, Found, Quiet, SameWork, Opens, Creates, OpeningPcs
  <2> QED
    BY <2>2, <2>3, <2>4, <2>5 DEF Unraced
<1> QED
  BY <1>1, <1>2 DEF RaceInv

\* One request goes somewhere where it does none of these.
LEMMA OneQuiet ==
  ASSUME TypeInv, RaceInv, NEW c \in Clients, NEW q, req' = [req EXCEPT ![c] = q],
         q.pc \notin OpeningPcs, req[c].pc \notin {"register", "unlink"},
         Deletes(q) => Deletes(req[c]) /\ q.name = req[c].name,
         UNCHANGED <<collections, paths, instances, excuses>>
  PROVE  RaceInv'
<1>1. Quiet
  BY DEF Quiet, SameWork, TypeInv, RequestsOK, excuses, Undisturbed
<1> QED
  BY <1>1, QuietRace

LEMMA QuietAnswer ==
  ASSUME TypeInv, RaceInv, NEW c \in Clients, Answer(c), req[c].pc \notin {"register", "unlink"},
         UNCHANGED <<collections, paths, instances, excuses>>
  PROVE  RaceInv'
BY OneQuiet DEF Answer, NoRequest, Deletes, OpeningPcs

LEMMA QuietGoto ==
  ASSUME TypeInv, RaceInv, NEW c \in Clients, NEW pc, Goto(c, pc), pc \notin OpeningPcs,
         req[c].pc \notin {"register", "unlink", "answered"},
         UNCHANGED <<collections, paths, instances, excuses>>
  PROVE  RaceInv'
<1> DEFINE q == [req[c] EXCEPT !.pc = pc]
<1>1. q.pc = pc /\ q.op = req[c].op /\ q.name = req[c].name
  BY DEF TypeInv, RequestsOK, RequestOK, RequestType
<1>2. req' = [req EXCEPT ![c] = q]
  BY DEF Goto
<1> HIDE DEF q
<1> QED
  BY <1>1, <1>2, OneQuiet DEF Deletes

\* A request other than a deletion of the collection arrives.
LEMMA QuietArrive ==
  ASSUME TypeInv, RaceInv, NEW c \in Clients, NEW r, NEW ds, Arrive(c, r, ds),
         r.pc \notin OpeningPcs, r.op # "delete_collection", RequestOK(r, instances),
         UNCHANGED <<collections, paths, instances, excuses>>
  PROVE  RaceInv'
<1>1. ASSUME NEW b \in Clients, b # c PROVE SameWork(b)
  <2>1. req[b] \in RequestType(instances)
    BY DEF TypeInv, RequestsOK, RequestOK
  <2>2. \/ req'[b] = req[b]
        \/ req'[b] = [req[b] EXCEPT !.must = req[b].must \ ds,
                                    !.counts = req[b].counts /\ ds # Docs]
    BY <1>1 DEF Arrive
  <2> QED
    BY <2>1, <2>2 DEF SameWork, RequestType
<1>2. req'[c].pc = r.pc /\ req'[c].op = r.op
  BY DEF Arrive, RequestOK, RequestType
<1>3. req[c].pc = "answered"
  BY DEF Arrive, InFlight
<1>4. Quiet
  BY <1>1, <1>2, <1>3 DEF Quiet, SameWork, Deletes, OpeningPcs, excuses, Undisturbed
<1> QED
  BY <1>4, QuietRace

-----------------------------------------------------------------------------
(* The steps that do.                                                      *)

\* What a request is about stays as it is when it goes to another point.
LEMMA GoesTo ==
  ASSUME TypeInv, NEW c \in Clients, NEW pc, Goto(c, pc)
  PROVE  /\ req'[c].pc = pc /\ req'[c].name = req[c].name /\ req'[c].op = req[c].op
         /\ \A b \in Clients \ {c} : req'[b] = req[b]
BY DEF Goto, TypeInv, RequestsOK, RequestOK, RequestType

LEMMA LookupRace ==
  ASSUME TypeInv, RaceInv, NEW c \in Clients, Lookup(c)
  PROVE  RaceInv'
<1> DEFINE n == req[c].name
<1>1. req[c].pc = "lookup" /\ n \in Names /\ RequestOK(req[c], instances)
  BY DEF Lookup, TypeInv, RequestsOK, RequestOK
<1>2. CASE req' = [req EXCEPT ![c].h = collections[n], ![c].pc = WithHandle(c)] /\ UNCHANGED raced
  <2> DEFINE q == [req[c] EXCEPT !.h = collections[n], !.pc = WithHandle(c)]
  <2>1. q.pc \in {"running", "use"} /\ q.op = req[c].op /\ q.name = n
    BY <1>1 DEF WithHandle, RequestOK, RequestType
  <2>2. req' = [req EXCEPT ![c] = q]
    BY <1>2
  <2> HIDE DEF q
  <2>3. UNCHANGED <<collections, paths, instances, excuses>>
    BY <1>2 DEF Lookup, manager, excuses
  <2>4. /\ q.pc \notin OpeningPcs /\ req[c].pc \notin {"register", "unlink"}
        /\ Deletes(q) => Deletes(req[c]) /\ q.name = req[c].name
    BY <1>1, <2>1 DEF Deletes, OpeningPcs
  <2> QED
    BY <2>2, <2>3, <2>4, OneQuiet
<1>3. CASE /\ collections[n] = None
           /\ Goto(c, IF Creates(c) THEN "open" ELSE "exists")
           /\ raced' = [raced EXCEPT ![n] = @ \/ Opening(n) \/ Deleting(n)]
  <2>1. /\ req'[c].pc = (IF Creates(c) THEN "open" ELSE "exists")
        /\ req'[c].name = n /\ req'[c].op = req[c].op
        /\ \A b \in Clients \ {c} : req'[b] = req[b]
    BY <1>3, GoesTo
  <2>2. UNCHANGED <<collections, instances, paths>>
    BY DEF Lookup, manager
  <2>3. \A m \in Names :
          Undisturbed(m)' => Undisturbed(m) /\ (m = n => ~Opening(m) /\ ~Deleting(m))
    <3> DEFINE others == Opening(n) \/ Deleting(n)
    <3>1. raced' = [raced EXCEPT ![n] = raced[n] \/ others] /\ raced \in [Names -> BOOLEAN]
      BY <1>3 DEF TypeInv, SharedOK
    <3> HIDE DEF others
    <3>2. /\ \A m \in Names : ~raced'[m] => ~raced[m]
          /\ ~raced'[n] => ~others
      BY <1>1, <3>1
    <3> QED
      BY <3>2 DEF others, Lookup, Undisturbed
  <2>4. OneName'
    BY <2>2 DEF RaceInv, OneName, Handles
  <2>5. ASSUME NEW m \in Names, Undisturbed(m)' PROVE Unraced(m)'
    <3>1. Unraced(m)
      BY <2>3, <2>5 DEF RaceInv
    <3>2. m = n => ~Opening(m) /\ ~Deleting(m) /\ collections[m] = None
      BY <1>3, <2>3, <2>5
    <3>3. Alone(m)'
      BY <1>1, <2>1, <2>2, <3>1, <3>2
         DEF Unraced, Alone, Opens, Opening, Deleting, About, InFlight, OpeningPcs
    <3>4. Linked(m)'
      BY <1>1, <2>1, <2>2, <3>1 DEF Unraced, Linked, Handles
    <3>5. Distinct(m)'
      BY <2>2, <3>1 DEF Unraced, Distinct, Handles
    <3>6. Found(m)'
      BY <2>1, <2>2, <3>1 DEF Unraced, Found, Opens, Creates
    <3> QED
      BY <3>3, <3>4, <3>5, <3>6 DEF Unraced
  <2> QED
    BY <2>4, <2>5 DEF RaceInv
<1> QED
  BY <1>2, <1>3 DEF Lookup

LEMMA ExistsRace ==
  ASSUME TypeInv, RaceInv, NEW c \in Clients, Exists(c)
  PROVE  RaceInv'
<1> DEFINE n == req[c].name
<1>1. /\ req[c].pc = "exists" /\ n \in Names
      /\ UNCHANGED <<collections, instances, paths, excuses>>
  BY DEF Exists, TypeInv, RequestsOK, RequestOK, manager, history, excuses
<1>2. CASE Answer(c)
  BY <1>1, <1>2, QuietAnswer
<1>3. CASE paths[n] # None /\ Goto(c, "open")
  <2>1. /\ req'[c].pc = "open" /\ req'[c].name = n /\ req'[c].op = req[c].op
        /\ \A b \in Clients \ {c} : req'[b] = req[b]
    BY <1>3, GoesTo
  <2>2. OneName'
    BY <1>1 DEF RaceInv, OneName, Handles
  <2>3. ASSUME NEW m \in Names, Undisturbed(m)' PROVE Unraced(m)'
    <3>1. Unraced(m)
      BY <1>1, <2>3 DEF RaceInv, excuses, Undisturbed
    <3>2. Alone(m)'
      BY <1>1, <2>1, <3>1
         DEF Unraced, Alone, Opens, Opening, Deleting, About, InFlight, OpeningPcs
    <3>3. Linked(m)'
      BY <1>1, <2>1, <3>1 DEF Unraced, Linked, Handles
    <3>4. Distinct(m)'
      BY <1>1, <3>1 DEF Unraced, Distinct, Handles
    <3>5. Found(m)'
      BY <1>1, <1>3, <2>1, <3>1 DEF Unraced, Found, Opens, Creates
    <3> QED
      BY <3>2, <3>3, <3>4, <3>5 DEF Unraced
  <2> QED
    BY <2>2, <2>3 DEF RaceInv
<1> QED
  BY <1>2, <1>3 DEF Exists

\* What opening a collection does to the files and the opened collections.
LEMMA OpenEffect ==
  ASSUME TypeInv, NEW c \in Clients, Open(c)
  PROVE  LET n == req[c].name
             k == Len(instances) + 1
             file == IF paths[n] = None THEN Len(disk) + 1 ELSE paths[n] IN
         /\ req[c].pc = "open" /\ n \in Names
         /\ Handles' = Handles \cup {k} /\ k \notin Handles
         /\ \A h \in Handles : instances'[h] = instances[h] /\ instances[h].file \in DOMAIN disk
         /\ instances'[k] = [name |-> n, file |-> file, docs |-> disk'[file]]
         /\ paths' = [paths EXCEPT ![n] = file]
         /\ Len(disk) + 1 \notin DOMAIN disk
         /\ DOMAIN disk \subseteq DOMAIN disk'
         /\ \A f \in DOMAIN disk \ {file} : disk'[f] = disk[f]
         /\ ~overwritten[n] => disk'[file] = IF paths[n] = None THEN {} ELSE disk[file]
         /\ req'[c].pc = "register" /\ req'[c].name = n /\ req'[c].op = req[c].op
         /\ req'[c].h = k /\ req'[c].doc = req[c].doc
         /\ req'[c].must = req[c].must /\ req'[c].counts = req[c].counts
         /\ \A b \in Clients \ {c} : req'[b] = req[b]
         /\ UNCHANGED <<collections, sent, history>>
<1> DEFINE n == req[c].name
           k == Len(instances) + 1
           file == IF paths[n] = None THEN Len(disk) + 1 ELSE paths[n]
<1>1. /\ req[c].pc = "open" /\ n \in Names /\ req[c] \in RequestType(instances)
  BY DEF Open, TypeInv, RequestsOK, RequestOK
<1>20. PICK docs \in Recoverable(n) :
         /\ disk' = IF paths[n] = None THEN Append(disk, docs) ELSE [disk EXCEPT ![file] = docs]
         /\ instances' = Append(instances, [name |-> n, file |-> file, docs |-> docs])
  BY DEF Open
<1> DEFINE i == [name |-> n, file |-> file, docs |-> docs]
<1>2. /\ disk' = (IF paths[n] = None THEN Append(disk, docs) ELSE [disk EXCEPT ![file] = docs])
      /\ paths' = [paths EXCEPT ![n] = file]
      /\ instances' = Append(instances, i)
      /\ req' = [req EXCEPT ![c].h = k, ![c].pc = "register"]
      /\ UNCHANGED <<collections, sent, history>>
  BY <1>20 DEF Open, history
<1>3. /\ disk \in Seq(SUBSET Docs) /\ instances \in Seq(Instance)
      /\ paths[n] \in DOMAIN disk \cup {None}
  BY <1>1 DEF TypeInv, SharedOK
<1>30. docs \in SUBSET Docs
  BY <1>1, RecoverableDocs
<1>31. ~overwritten[n] => docs = IF paths[n] = None THEN {} ELSE disk[file]
  BY DEF Recoverable
<1>4. \A h \in Handles : instances[h].file \in DOMAIN disk
  BY OpenedInstance DEF Handles
<1> HIDE DEF n, file, i
<1>5. /\ Handles' = Handles \cup {k} /\ k \notin Handles
      /\ \A h \in Handles : instances'[h] = instances[h]
      /\ instances'[k] = i
  <2> HIDE DEF Instance
  <2>1. Len(instances) \in Nat /\ Handles = 1..Len(instances)
    BY <1>3 DEF Handles
  <2>2. Len(instances') = Len(instances) + 1 /\ Handles' = 1..Len(instances')
    BY <1>2, <1>3 DEF Handles
  <2>3. \A h \in 1..Len(instances) : instances'[h] = instances[h]
    BY <1>2, <1>3
  <2>4. instances'[k] = i
    BY <1>2, <1>3
  <2> QED
    BY <2>1, <2>2, <2>3, <2>4
<1>6. /\ Len(disk) + 1 \notin DOMAIN disk
      /\ DOMAIN disk \subseteq DOMAIN disk'
      /\ \A f \in DOMAIN disk \ {file} : disk'[f] = disk[f]
      /\ disk'[file] = docs
  <2> DEFINE D == SUBSET Docs
  <2>1. disk \in Seq(D) /\ docs \in D
    BY <1>3, <1>30
  <2> HIDE DEF D
  <2>2. CASE paths[n] = None
    BY <1>2, <2>1, <2>2 DEF file
  <2>3. CASE paths[n] # None
    BY <1>2, <1>3, <2>1, <2>3 DEF file
  <2> QED
    BY <2>2, <2>3
<1>60. instances'[k] = [name |-> n, file |-> file, docs |-> disk'[file]]
  BY <1>5, <1>6 DEF i
<1>61. ~overwritten[n] => disk'[file] = IF paths[n] = None THEN {} ELSE disk[file]
  BY <1>6, <1>31
<1>7. /\ req'[c].pc = "register" /\ req'[c].name = n /\ req'[c].op = req[c].op
      /\ req'[c].h = k /\ req'[c].doc = req[c].doc
      /\ req'[c].must = req[c].must /\ req'[c].counts = req[c].counts
      /\ \A b \in Clients \ {c} : req'[b] = req[b]
  BY <1>1, <1>2 DEF TypeInv, RequestsOK, RequestType, n
<1> QED
  BY <1>1, <1>2, <1>4, <1>5, <1>6, <1>60, <1>61, <1>7, ZenonT(40) DEF n, file

LEMMA OpenRace ==
  ASSUME TypeInv, RaceInv, NEW c \in Clients, Open(c)
  PROVE  RaceInv'
<1> DEFINE n == req[c].name
           k == Len(instances) + 1
           file == IF paths[n] = None THEN Len(disk) + 1 ELSE paths[n]
<1>1. /\ req[c].pc = "open" /\ n \in Names
      /\ Handles' = Handles \cup {k} /\ k \notin Handles
      /\ \A h \in Handles : instances'[h] = instances[h] /\ instances[h].file \in DOMAIN disk
      /\ instances'[k].name = n /\ instances'[k].file = file
      /\ paths' = [paths EXCEPT ![n] = file]
      /\ Len(disk) + 1 \notin DOMAIN disk
      /\ req'[c].pc = "register" /\ req'[c].name = n /\ req'[c].op = req[c].op
      /\ \A b \in Clients \ {c} : req'[b] = req[b]
      /\ UNCHANGED <<collections, excuses>>
  <2> DEFINE docs == disk'[file]
  <2>1. instances'[k] = [name |-> n, file |-> file, docs |-> docs]
    BY OpenEffect
  <2> HIDE DEF docs
  <2>2. instances'[k].name = n /\ instances'[k].file = file
    BY <2>1
  <2>3. UNCHANGED <<collections, excuses>>
    BY OpenEffect DEF history, excuses
  <2>4. /\ req[c].pc = "open" /\ n \in Names
        /\ Handles' = Handles \cup {k} /\ k \notin Handles
        /\ \A h \in Handles : instances'[h] = instances[h] /\ instances[h].file \in DOMAIN disk
        /\ paths' = [paths EXCEPT ![n] = file]
        /\ Len(disk) + 1 \notin DOMAIN disk
        /\ req'[c].pc = "register" /\ req'[c].name = n /\ req'[c].op = req[c].op
        /\ \A b \in Clients \ {c} : req'[b] = req[b]
    BY OpenEffect
  <2> HIDE DEF k, file
  <2> QED
    BY <2>2, <2>3, <2>4
<1>2. /\ None \notin DOMAIN disk /\ file # None
      /\ paths \in [Names -> DOMAIN disk \cup {None}]
  BY <1>1, ConstantsAssumption DEF TypeInv, SharedOK
<1>3. \A h \in Handles : instances[h].file = file => instances[h].name = n
  BY <1>1 DEF RaceInv, OneName
<1>4. \A m \in Names : m # n => paths[m] # file
  BY <1>1, <1>2 DEF RaceInv, OneName
<1> HIDE DEF k, file
<1>5. OneName'
  <2>1. \A h, j \in Handles' :
          instances'[h].file = instances'[j].file => instances'[h].name = instances'[j].name
    BY <1>1, <1>3 DEF RaceInv, OneName
  <2>2. \A h \in Handles', m \in Names : instances'[h].file = paths'[m] => instances'[h].name = m
    BY <1>1, <1>2, <1>3, <1>4 DEF RaceInv, OneName
  <2>3. \A m, l \in Names : paths'[m] # None /\ paths'[m] = paths'[l] => m = l
    BY <1>1, <1>2, <1>4 DEF RaceInv, OneName
  <2> QED
    BY <2>1, <2>2, <2>3 DEF OneName
<1>6. ASSUME NEW m \in Names, Undisturbed(m)' PROVE Unraced(m)'
  <2>1. Unraced(m)
    BY <1>1, <1>6 DEF RaceInv, excuses, Undisturbed
  <2>2. m = n => \A h \in Handles : instances[h].file # file
    <3>1. SUFFICES ASSUME m = n, NEW h \in Handles, instances[h].file = file
                   PROVE  FALSE
      OBVIOUS
    <3>2. paths[n] # None /\ paths[n] = file
      BY <1>1, <3>1 DEF file
    <3>3. Opens(c, n) /\ Opening(n)
      BY <1>1 DEF Opens, Opening, About, InFlight, OpeningPcs
    <3>4. collections[n] = None /\ ~Deleting(n)
      BY <2>1, <3>1, <3>3 DEF Unraced, Alone
    <3>5. PICK b \in Clients : req[b].name = n /\ req[b].pc \in {"register", "unlink"}
      BY <2>1, <3>1, <3>2, <3>4 DEF Unraced, Linked
    <3>6. CASE req[b].pc = "register"
      BY <1>1, <2>1, <3>1, <3>3, <3>5, <3>6 DEF Unraced, Alone, Opens, OpeningPcs
    <3>7. CASE req[b].pc = "unlink"
      BY <3>4, <3>5, <3>7 DEF Deleting, About, InFlight, TypeInv, RequestsOK, RequestOK
    <3> QED
      BY <3>5, <3>6, <3>7
  <2>3. Alone(m)'
    BY <1>1, <2>1 DEF Unraced, Alone, Opens, Opening, Deleting, About, InFlight, OpeningPcs
  <2>4. Linked(m)'
    BY <1>1, <1>2, <1>4, <2>1 DEF Unraced, Linked
  <2>5. Distinct(m)'
    BY <1>1, <2>1, <2>2 DEF Unraced, Distinct
  <2>6. Found(m)'
    BY <1>1, <1>2, <2>1 DEF Unraced, Found, Opens, Creates
  <2> QED
    BY <2>3, <2>4, <2>5, <2>6 DEF Unraced
<1> QED
  BY <1>5, <1>6 DEF RaceInv

LEMMA RegisterRace ==
  ASSUME TypeInv, RaceInv, NEW c \in Clients, Register(c)
  PROVE  RaceInv'
<1> DEFINE n == req[c].name
<1>1. /\ req[c].pc = "register" /\ n \in Names /\ req[c].h # None
      /\ UNCHANGED <<instances, paths, excuses>>
      /\ collections' = [collections EXCEPT ![n] = req[c].h]
      /\ collections \in [Names -> Handles \cup {None}]
  <2>1. RequestOK(req[c], instances) /\ req[c].pc = "register" /\ instances \in Seq(Instance)
    BY DEF Register, TypeInv, SharedOK, RequestsOK
  <2> HIDE DEF Instance
  <2>2. req[c].h \in Nat /\ n \in Names
    BY <2>1 DEF RequestOK, HasHandle, HandlePcs
  <2> QED
    BY <2>1, <2>2, ConstantsAssumption DEF Register, history, excuses, TypeInv, SharedOK
<1>2. /\ req'[c].pc \in {"running", "use"} /\ req'[c].name = n /\ req'[c].op = req[c].op
      /\ \A b \in Clients \ {c} : req'[b] = req[b]
  BY GoesTo DEF Register, WithHandle
<1>3. OneName'
  BY <1>1 DEF RaceInv, OneName, Handles
<1>4. ASSUME NEW m \in Names, Undisturbed(m)' PROVE Unraced(m)'
  <2>1. Unraced(m)
    BY <1>1, <1>4 DEF RaceInv, excuses, Undisturbed
  <2>2. Alone(m)'
    <3>1. Opens(c, n) /\ Opening(n)
      BY <1>1 DEF Opens, Opening, About, InFlight, OpeningPcs
    <3>2. m = n => \A b \in Clients : ~Opens(b, m)'
      BY <1>2, <2>1, <3>1 DEF Unraced, Alone, Opens, OpeningPcs
    <3>3. CASE m = n
      BY <3>2, <3>3 DEF Alone, Opens, Opening, About
    <3>4. CASE m # n
      BY <1>1, <1>2, <2>1, <3>4
         DEF Unraced, Alone, Opens, Opening, Deleting, About, InFlight, OpeningPcs
    <3> QED
      BY <3>3, <3>4
  <2>3. Linked(m)'
    BY <1>1, <1>2, <2>1 DEF Unraced, Linked, Handles
  <2>4. Distinct(m)'
    BY <1>1, <2>1 DEF Unraced, Distinct, Handles
  <2>5. Found(m)'
    BY <1>1, <1>2, <2>1 DEF Unraced, Found, Opens, Creates
  <2> QED
    BY <2>2, <2>3, <2>4, <2>5 DEF Unraced
<1> QED
  BY <1>3, <1>4 DEF RaceInv

LEMMA RemoveRace ==
  ASSUME TypeInv, RaceInv, NEW c \in Clients, Remove(c)
  PROVE  RaceInv'
<1> DEFINE n == req[c].name
<1>1. /\ req[c].pc = "remove" /\ n \in Names
      /\ UNCHANGED <<instances, paths, excuses>>
      /\ collections' = [collections EXCEPT ![n] = None]
      /\ collections \in [Names -> Handles \cup {None}]
  BY DEF Remove, history, excuses, TypeInv, SharedOK, RequestsOK, RequestOK
<1>2. CASE collections[n] = None /\ Answer(c)
  <2>1. collections' = collections
    BY <1>1, <1>2
  <2> QED
    BY <1>1, <1>2, <2>1, QuietAnswer
<1>3. CASE Goto(c, "unlink")
  <2>1. /\ req'[c].pc = "unlink" /\ req'[c].name = n /\ req'[c].op = req[c].op
        /\ \A b \in Clients \ {c} : req'[b] = req[b]
    BY <1>3, GoesTo
  <2>2. OneName'
    BY <1>1 DEF RaceInv, OneName, Handles
  <2>3. ASSUME NEW m \in Names, Undisturbed(m)' PROVE Unraced(m)'
    <3>1. Unraced(m)
      BY <1>1, <2>3 DEF RaceInv, excuses, Undisturbed
    <3>2. Alone(m)'
      BY <1>1, <2>1, <3>1
         DEF Unraced, Alone, Opens, Opening, Deleting, About, InFlight, OpeningPcs
    <3>3. Linked(m)'
      BY <1>1, <2>1, <3>1 DEF Unraced, Linked, Handles
    <3>4. Distinct(m)'
      BY <1>1, <3>1 DEF Unraced, Distinct, Handles
    <3>5. Found(m)'
      BY <1>1, <2>1, <3>1 DEF Unraced, Found, Opens, Creates
    <3> QED
      BY <3>2, <3>3, <3>4, <3>5 DEF Unraced
  <2> QED
    BY <2>2, <2>3 DEF RaceInv
<1> QED
  BY <1>2, <1>3 DEF Remove

LEMMA UnlinkRace ==
  ASSUME TypeInv, RaceInv, NEW c \in Clients, Unlink(c)
  PROVE  RaceInv'
<1> DEFINE n == req[c].name
<1>1. /\ req[c].pc = "unlink" /\ n \in Names /\ Deleting(n)
      /\ UNCHANGED <<instances, collections, excuses>>
      /\ paths' = [paths EXCEPT ![n] = None]
      /\ paths \in [Names -> DOMAIN disk \cup {None}]
  BY DEF Unlink, history, excuses, TypeInv, SharedOK, RequestsOK, RequestOK, Deleting, About, InFlight
<1>2. /\ req'[c].pc = "answered" /\ \A b \in Clients \ {c} : req'[b] = req[b]
      /\ Clients = DOMAIN req
  BY DEF Unlink, Answer, NoRequest, TypeInv, RequestsOK
<1>3. \A h \in Handles : instances[h].file # None
  <2>1. disk \in Seq(SUBSET Docs)
    BY DEF TypeInv, SharedOK
  <2>2. None \notin DOMAIN disk
    BY <2>1, ConstantsAssumption
  <2> QED
    BY <2>2, OpenedInstance DEF Handles
<1>4. OneName'
  BY <1>1, <1>3 DEF RaceInv, OneName, Handles
<1>5. ASSUME NEW m \in Names, Undisturbed(m)' PROVE Unraced(m)'
  <2>1. Unraced(m)
    BY <1>1, <1>5 DEF RaceInv, excuses, Undisturbed
  <2>2. Alone(m)'
    BY <1>1, <1>2, <2>1
       DEF Unraced, Alone, Opens, Opening, Deleting, About, InFlight, OpeningPcs
  <2>3. Linked(m)'
    BY <1>1, <1>2, <2>1 DEF Unraced, Linked, Handles
  <2>4. Distinct(m)'
    BY <1>1, <2>1 DEF Unraced, Distinct, Handles
  <2>5. Found(m)'
    <3>1. CASE m = n
      <4>1. \A b \in Clients : ~Opens(b, m)
        BY <1>1, <2>1, <3>1 DEF Unraced, Alone, Opens, Opening, About, InFlight, OpeningPcs
      <4> QED
        BY <1>2, <4>1 DEF Found, Opens, OpeningPcs
    <3>2. CASE m # n
      BY <1>1, <1>2, <2>1, <3>2 DEF Unraced, Found, Opens, Creates, OpeningPcs
    <3> QED
      BY <3>1, <3>2
  <2> QED
    BY <2>2, <2>3, <2>4, <2>5 DEF Unraced
<1> QED
  BY <1>4, <1>5 DEF RaceInv

LEMMA ReceiveDeleteCollectionRace ==
  ASSUME TypeInv, RaceInv, NEW c \in Clients, ReceiveDeleteCollection(c)
  PROVE  RaceInv'
<1>1. PICK n \in Names :
        /\ Arrive(c, Request("delete_collection", n, "remove"), Docs)
        /\ raced' = [raced EXCEPT ![n] = @ \/ Opening(n)]
  BY DEF ReceiveDeleteCollection
<1>2. UNCHANGED <<collections, instances, paths>>
  BY DEF ReceiveDeleteCollection, manager
<1>3. ASSUME NEW b \in Clients, b # c PROVE SameWork(b)
  <2>1. req[b] \in RequestType(instances)
    BY DEF TypeInv, RequestsOK, RequestOK
  <2>2. \/ req'[b] = req[b]
        \/ req'[b] = [req[b] EXCEPT !.must = req[b].must \ Docs,
                                    !.counts = req[b].counts /\ Docs # Docs]
    BY <1>1, <1>3 DEF Arrive
  <2> QED
    BY <2>1, <2>2 DEF SameWork, RequestType
<1>4. req'[c].pc = "remove" /\ req'[c].name = n /\ req'[c].op = "delete_collection"
  BY <1>1 DEF Arrive, Request, NoRequest
<1>5. req[c].pc = "answered"
  BY <1>1 DEF Arrive, InFlight
<1>6. /\ \A m \in Names : Undisturbed(m)' => Undisturbed(m)
      /\ Undisturbed(n)' => ~Opening(n)
  <2> DEFINE opening == Opening(n)
  <2>1. raced' = [raced EXCEPT ![n] = raced[n] \/ opening] /\ raced \in [Names -> BOOLEAN]
    BY <1>1 DEF TypeInv, SharedOK
  <2> HIDE DEF opening
  <2>2. /\ \A m \in Names : ~raced'[m] => ~raced[m]
        /\ ~raced'[n] => ~opening
    BY <2>1
  <2> QED
    BY <2>2 DEF opening, ReceiveDeleteCollection, Undisturbed
<1>7. OneName'
  BY <1>2 DEF RaceInv, OneName, Handles
<1>8. ASSUME NEW m \in Names, Undisturbed(m)' PROVE Unraced(m)'
  <2>1. Unraced(m) /\ (m = n => ~Opening(m))
    BY <1>6, <1>8 DEF RaceInv
  <2>2. \A b \in Clients : req'[b].pc \in OpeningPcs => SameWork(b)
    BY <1>3, <1>4 DEF OpeningPcs
  <2>3. Alone(m)'
    <3>1. \A a, b \in Clients : Opens(a, m)' /\ Opens(b, m)' => a = b
      BY <2>1, <2>2 DEF Unraced, Alone, Opens, SameWork
    <3>2. Opening(m)' => Opening(m)
      BY <2>2 DEF Opening, About, InFlight, SameWork
    <3>3. m # n /\ Deleting(m)' => Deleting(m)
      BY <1>3, <1>4 DEF Deleting, About, InFlight, SameWork
    <3> QED
      BY <1>2, <2>1, <3>1, <3>2, <3>3 DEF Unraced, Alone
  <2>4. Linked(m)'
    BY <1>2, <1>3, <1>5, <2>1 DEF Unraced, Linked, SameWork, Handles
  <2>5. Distinct(m)'
    BY <1>2, <2>1 DEF Unraced, Distinct, Handles
  <2>6. Found(m)'
    BY <1>2, <2>1, <2>2 DEF Unraced, Found, Opens, SameWork, Creates
  <2> QED
    BY <2>3, <2>4, <2>5, <2>6 DEF Unraced
<1> QED
  BY <1>7, <1>8 DEF RaceInv

LEMMA RestartRace ==
  ASSUME RaceInv, Restart
  PROVE  RaceInv'
<1>1. Handles' = {} /\ UNCHANGED <<paths, excuses>> /\ \A c \in Clients : req'[c] = NoRequest
  BY DEF Restart, Handles, history, excuses
<1>2. OneName'
  BY <1>1 DEF RaceInv, OneName
<1>3. \A n \in Names : Unraced(n)'
  BY <1>1 DEF Unraced, Alone, Linked, Distinct, Found, Opens, Opening, About, InFlight,
     NoRequest, OpeningPcs
<1> QED
  BY <1>2, <1>3 DEF RaceInv

-----------------------------------------------------------------------------
(* All steps.                                                              *)

LEMMA ArrivalRace ==
  ASSUME TypeInv, RaceInv, NEW c \in Clients, Arrival(c)
  PROVE  RaceInv'
<1>1. CASE Receive(c)
  <2>1. PICK op \in Ops \cap {"create", "read", "compact", "rebuild_index"}, n \in Names :
          Arrive(c, Request(op, n, "lookup"), {})
    BY <1>1 DEF Receive
  <2> DEFINE r == Request(op, n, "lookup")
  <2>2. RequestOK(r, instances) /\ r.pc = "lookup" /\ r.op # "delete_collection"
    BY DEF Request, NoRequest, RequestOK, RequestType, Pcs, HandlePcs, GuardPcs, OpeningPcs,
       OpNames
  <2>3. Arrive(c, r, {})
    BY <2>1
  <2> HIDE DEF r
  <2> QED
    BY <1>1, <2>2, <2>3, QuietArrive DEF Receive, OpeningPcs, manager, excuses
<1>2. CASE ReceiveInsert(c)
  <2>1. PICK n \in Names :
          Arrive(c, [Request("insert", n, "lookup") EXCEPT !.doc = sent + 1,
                                                           !.counts = ~Deleting(n)], {})
    BY <1>2 DEF ReceiveInsert
  <2> DEFINE counts == ~Deleting(n)
             r == [Request("insert", n, "lookup") EXCEPT !.doc = sent + 1, !.counts = counts]
  <2>2. sent + 1 \in Docs
    <3>1. sent < MaxRequests
      BY <2>1 DEF Arrive
    <3>2. sent \in 0..MaxRequests
      BY DEF TypeInv, SharedOK
    <3> QED
      BY <3>1, <3>2, ConstantsAssumption DEF Docs, Requests
  <2>3. counts \in BOOLEAN
    OBVIOUS
  <2>4. Arrive(c, r, {})
    BY <2>1
  <2> HIDE DEF counts
  <2>5. RequestOK(r, instances) /\ r.pc = "lookup" /\ r.op # "delete_collection"
    BY <2>2, <2>3 DEF Request, NoRequest, RequestOK, RequestType, Pcs, HandlePcs, GuardPcs,
       OpeningPcs, OpNames
  <2> HIDE DEF r
  <2> QED
    BY <1>2, <2>4, <2>5, QuietArrive DEF ReceiveInsert, OpeningPcs, manager, excuses
<1>3. CASE ReceiveDelete(c)
  <2>1. PICK n \in Names : \E d \in acked[n] :
          Arrive(c, [Request("delete", n, "lookup") EXCEPT !.doc = d], {d})
    BY <1>3 DEF ReceiveDelete
  <2>2. PICK d \in acked[n] :
          Arrive(c, [Request("delete", n, "lookup") EXCEPT !.doc = d], {d})
    BY <2>1
  <2> DEFINE r == [Request("delete", n, "lookup") EXCEPT !.doc = d]
  <2>3. d \in Docs
    BY <2>2 DEF TypeInv, SharedOK
  <2>4. RequestOK(r, instances) /\ r.pc = "lookup" /\ r.op # "delete_collection"
    BY <2>3 DEF Request, NoRequest, RequestOK, RequestType, Pcs, HandlePcs, GuardPcs,
       OpeningPcs, OpNames
  <2>5. Arrive(c, r, {d})
    BY <2>2
  <2> HIDE DEF r
  <2> QED
    BY <1>3, <2>4, <2>5, QuietArrive DEF ReceiveDelete, OpeningPcs, manager, excuses
<1>4. CASE RefuseWrite(c)
  BY <1>4, QuietAnswer DEF RefuseWrite, InFlight, manager, history, excuses
<1>5. CASE ReceiveList(c)
  <2> DEFINE q == [NoRequest EXCEPT !.pc = "list", !.todo = LoadedCollections]
  <2>1. q.pc = "list" /\ q.op = "list" /\ req' = [req EXCEPT ![c] = q]
    BY <1>5 DEF ReceiveList, NoRequest
  <2> HIDE DEF q
  <2> QED
    BY <1>5, <2>1, OneQuiet DEF ReceiveList, InFlight, Deletes, OpeningPcs, manager, history, excuses
<1> QED
  BY <1>1, <1>2, <1>3, <1>4, <1>5, ReceiveDeleteCollectionRace DEF Arrival

\* Files saved by path are not less disturbed than before.
LEMMA SavedDisturbs ==
  ASSUME TypeInv, NEW h, SavedByPath(h), raced' = raced
  PROVE  \A n \in Names : Undisturbed(n)' => Undisturbed(n)
BY SavedByPathType DEF Undisturbed

\* Documents are written, in a collection and a file that stay what they are.
LEMMA QuietSetDocs ==
  ASSUME TypeInv, RaceInv, NEW c \in Clients, req[c].pc = "use",
         NEW ds, NEW logged, SetDocs(c, ds, logged),
         UNCHANGED <<collections, paths, raced>>,
         req'[c].pc \notin OpeningPcs, Deletes(req'[c]) => Deletes(req[c]) /\ SameWork(c),
         \A b \in Clients \ {c} : req'[b] = req[b]
  PROVE  RaceInv'
<1> DEFINE h == req[c].h
<1>1. h \in DOMAIN instances /\ instances[h] \in Instance
  <2>1. h \in DOMAIN instances
    BY DEF TypeInv, RequestsOK, RequestOK, HasHandle, HandlePcs
  <2> QED
    BY <2>1, OpenedInstance
<1>2. instances' = [instances EXCEPT ![h] = [instances[h] EXCEPT !.docs = ds]]
  BY DEF SetDocs
<1>3. \A n \in Names : Undisturbed(n)' => Undisturbed(n)
  BY SavedDisturbs DEF SetDocs
<1> HIDE DEF h
<1>4. /\ DOMAIN instances' = DOMAIN instances
      /\ \A k \in DOMAIN instances :
           instances'[k].name = instances[k].name /\ instances'[k].file = instances[k].file
  BY <1>1, <1>2 DEF Instance
<1>5. Quiet
  BY <1>3, <1>4 DEF Quiet, SameWork, Deletes
<1> QED
  BY <1>5, QuietRace

\* The collection's name goes to a file that no other instance has.
LEMMA CompactOtherRace ==
  ASSUME TypeInv, RaceInv, NEW c \in Clients, CompactOther(c)
  PROVE  RaceInv'
<1> DEFINE n == req[c].name
           h == req[c].h
           file == Len(disk) + 1
<1>1. /\ req[c].pc = "use" /\ n \in Names
      /\ h \in Handles /\ instances[h].name = n
      /\ paths' = [paths EXCEPT ![n] = file]
      /\ overwritten' = [overwritten EXCEPT ![n] = TRUE]
      /\ Handles' = Handles
      /\ \A k \in Handles : /\ instances'[k].name = instances[k].name
                            /\ \/ instances'[k].file = instances[k].file
                               \/ k = h /\ instances'[k].file = file
      /\ req' = [req EXCEPT ![c] = NoRequest]
      /\ UNCHANGED <<collections, raced>>
  BY CompactOtherEffect
<1>2. /\ file \notin DOMAIN disk /\ file # None
      /\ paths \in [Names -> DOMAIN disk \cup {None}]
      /\ overwritten \in [Names -> BOOLEAN]
      /\ \A k \in Handles : instances[k].file \in DOMAIN disk
  <2>1. disk \in Seq(SUBSET Docs) /\ file \notin DOMAIN disk
    BY CompactOtherEffect DEF TypeInv, SharedOK
  <2>2. Len(disk) \in Nat
    BY <2>1
  <2> QED
    BY <2>1, <2>2, OpenedInstance, ConstantsAssumption DEF TypeInv, SharedOK, Handles
<1> HIDE DEF file, h
<1>3. OneName'
  <2>1. \A k, j \in Handles :
          instances'[k].file = instances'[j].file => instances'[k].name = instances'[j].name
    BY <1>1, <1>2 DEF RaceInv, OneName
  <2>2. \A k \in Handles, m \in Names : instances'[k].file = paths'[m] => instances'[k].name = m
    BY <1>1, <1>2 DEF RaceInv, OneName
  <2>3. \A m, l \in Names : paths'[m] # None /\ paths'[m] = paths'[l] => m = l
    BY <1>1, <1>2 DEF RaceInv, OneName
  <2> QED
    BY <1>1, <2>1, <2>2, <2>3 DEF OneName
<1>4. ASSUME NEW m \in Names, Undisturbed(m)' PROVE Unraced(m)'
  <2>1. m # n /\ Unraced(m)
    BY <1>1, <1>2, <1>4 DEF RaceInv, Undisturbed
  <2>2. /\ req'[c].pc = "answered" /\ \A b \in Clients \ {c} : req'[b] = req[b]
    BY <1>1 DEF NoRequest, TypeInv, RequestsOK
  <2>3. Alone(m)'
    BY <1>1, <2>1, <2>2
       DEF Unraced, Alone, Opens, Opening, Deleting, About, InFlight, OpeningPcs
  <2>4. Linked(m)'
    BY <1>1, <1>2, <2>1, <2>2 DEF Unraced, Linked
  <2>5. Distinct(m)'
    BY <1>1, <2>1 DEF Unraced, Distinct
  <2>6. Found(m)'
    BY <1>1, <2>1, <2>2 DEF Unraced, Found, Opens, Creates, OpeningPcs
  <2> QED
    BY <2>3, <2>4, <2>5, <2>6 DEF Unraced
<1> QED
  BY <1>3, <1>4 DEF RaceInv

LEMMA LockingRace ==
  ASSUME TypeInv, RaceInv, NEW c \in Clients, Locking(c)
  PROVE  RaceInv'
<1>0. RequestOK(req[c], instances)
  BY DEF TypeInv, RequestsOK
<1>1. CASE Create(c) \/ Fails(c) \/ CompactOwn(c)
  BY <1>1, QuietAnswer DEF Create, Fails, CompactOwn, TakesGuard, manager, history, excuses
<1>2. CASE Scan(c) \/ Evict(c) \/ (List(c) /\ ~Answer(c))
  <2>1. PICK h : req' = [req EXCEPT ![c].todo = @ \ {h}]
    BY <1>2 DEF Scan, Evict, List
  <2> DEFINE todo == req[c].todo \ {h}
             q == [req[c] EXCEPT !.todo = todo]
  <2>2. q.pc = req[c].pc /\ q.op = req[c].op /\ q.name = req[c].name
    BY <1>0 DEF RequestOK, RequestType
  <2>3. req' = [req EXCEPT ![c] = q]
    BY <2>1
  <2>4. req[c].pc \in {"scan", "evict", "list"} /\ UNCHANGED <<collections, paths, instances, excuses>>
    BY <1>2 DEF Scan, Evict, List, manager, history, excuses
  <2> HIDE DEF q
  <2> QED
    BY <2>2, <2>3, <2>4, OneQuiet DEF Deletes, OpeningPcs
<1>3. CASE List(c) /\ Answer(c)
  BY <1>3, QuietAnswer DEF List, manager, history, excuses
<1>4. CASE Read(c)
  <2> DEFINE q == [NoRequest EXCEPT !.op = "read", !.name = req[c].name, !.must = req[c].must,
                                    !.seen = instances[req[c].h].docs]
  <2>1. q.pc = "answered"
    BY DEF NoRequest
  <2>2. req' = [req EXCEPT ![c] = q] /\ req[c].pc = "use"
    BY <1>4 DEF Read, TakesGuard
  <2> HIDE DEF q
  <2> QED
    BY <1>4, <2>1, <2>2, OneQuiet DEF Read, Deletes, OpeningPcs, manager, history, excuses
<1>5. CASE Insert(c) \/ InsertBreaksOff(c)
  <2>1. /\ req'[c].pc \in {"budget", "answered"}
        /\ \A b \in Clients \ {c} : req'[b] = req[b]
    BY <1>5, GoesTo DEF Insert, InsertBreaksOff, Answer, NoRequest, TypeInv, RequestsOK
  <2>2. req'[c].pc = "budget" => req'[c].op = "insert"
    BY <1>5, GoesTo DEF Insert, InsertBreaksOff, Stored, TakesGuard, Answer, NoRequest,
       TypeInv, RequestsOK
  <2>3. req[c].pc = "use" /\ UNCHANGED <<collections, paths, raced>>
    BY <1>5 DEF Insert, InsertBreaksOff, Stored, TakesGuard
  <2>4. PICK ds, logged : SetDocs(c, ds, logged)
    BY <1>5 DEF Insert, InsertBreaksOff, Stored
  <2> QED
    BY <2>1, <2>2, <2>3, <2>4, QuietSetDocs DEF Deletes, OpeningPcs
<1>6. CASE Delete(c)
  <2>1. req'[c].pc = "answered" /\ \A b \in Clients \ {c} : req'[b] = req[b]
    BY <1>6 DEF Delete, Answer, NoRequest, TypeInv, RequestsOK
  <2>2. req[c].pc = "use"
    BY <1>6 DEF Delete, TakesGuard
  <2>3. PICK ds, logged : SetDocs(c, ds, logged)
    BY <1>6 DEF Delete
  <2> QED
    BY <1>6, <2>1, <2>2, <2>3, QuietSetDocs DEF Delete, Deletes, OpeningPcs
<1>7. CASE InsertRefused(c)
  <2>1. req'[c].pc = "answered" /\ \A b \in Clients \ {c} : req'[b] = req[b]
    BY <1>7 DEF InsertRefused, Answer, NoRequest, TypeInv, RequestsOK
  <2>2. req[c].pc = "use" /\ UNCHANGED <<collections, paths, instances, raced>>
    BY <1>7 DEF InsertRefused, TakesGuard
  <2>3. \A n \in Names : Undisturbed(n)' => Undisturbed(n)
    BY <1>7, SavedDisturbs DEF InsertRefused
  <2>4. Quiet
    BY <2>1, <2>2, <2>3 DEF Quiet, SameWork, Deletes, OpeningPcs
  <2> QED
    BY <2>4, QuietRace
<1> QED
  BY <1>1, <1>2, <1>3, <1>4, <1>5, <1>6, <1>7, CompactOtherRace DEF Locking

LEMMA QuietList ==
  ASSUME TypeInv, RaceInv, NEW c \in Clients, NEW pc \in GuardPcs, NEW hs,
         req' = [req EXCEPT ![c].pc = pc, ![c].todo = hs], req[c].pc \in GuardPcs,
         UNCHANGED <<collections, paths, instances, excuses>>
  PROVE  RaceInv'
<1> DEFINE q == [req[c] EXCEPT !.pc = pc, !.todo = hs]
<1>1. q.pc = pc /\ q.op = req[c].op /\ q.name = req[c].name
  BY DEF TypeInv, RequestsOK, RequestOK, RequestType
<1>2. req' = [req EXCEPT ![c] = q]
  OBVIOUS
<1> HIDE DEF q
<1> QED
  BY <1>1, <1>2, OneQuiet DEF Deletes, OpeningPcs, GuardPcs

LEMMA RunningRace ==
  ASSUME TypeInv, RaceInv, NEW c \in Clients, Running(c)
  PROVE  RaceInv'
<1>1. CASE OpenFails(c)
  BY <1>1, QuietAnswer DEF OpenFails, manager, history, excuses
<1>2. CASE NoBudget(c) \/ WithinBudget(c) \/ EvictionDone(c)
  BY <1>2, QuietAnswer DEF NoBudget, WithinBudget, EvictionDone, AnswerInsert, manager, excuses
<1>3. CASE Budget(c)
  BY <1>3, QuietList DEF Budget, GuardPcs, manager, history, excuses
<1>4. CASE OverBudget(c)
  BY <1>4, QuietList DEF OverBudget, GuardPcs, manager, history, excuses
<1>5. CASE MarkRunning(c)
  BY <1>5, QuietGoto DEF MarkRunning, OpeningPcs, manager, history, excuses
<1>6. CASE Spawn(c)
  BY <1>6, QuietAnswer DEF Spawn, manager, history, excuses
<1> QED
  BY <1>1, <1>2, <1>3, <1>4, <1>5, <1>6, LookupRace, ExistsRace, OpenRace, RegisterRace,
     RemoveRace, UnlinkRace DEF Running

LEMMA NextRaceInv == TypeInv /\ RaceInv /\ [Next]_vars => RaceInv'
<1> SUFFICES ASSUME TypeInv, RaceInv, [Next]_vars PROVE RaceInv'
  OBVIOUS
<1>1. CASE UNCHANGED <<manager, req>> /\ \A n \in Names : Undisturbed(n)' => Undisturbed(n)
  <2>1. Quiet
    BY <1>1 DEF Quiet, SameWork, manager
  <2> QED
    BY <2>1, QuietRace
<1>2. CASE ReloadConfig \/ UNCHANGED vars
  BY <1>1, <1>2 DEF ReloadConfig, vars, manager, history, Undisturbed
<1>3. CASE \E h \in Requests : RebuildTask(h)
  BY <1>1, <1>3, SavedDisturbs DEF RebuildTask
<1>4. CASE \E c \in Clients : Arrival(c) \/ Locking(c) \/ Running(c)
  BY <1>4, ArrivalRace, LockingRace, RunningRace
<1> QED
  BY <1>2, <1>3, <1>4, RestartRace DEF Next

LEMMA RaceInvAlways == Spec => []RaceInv
<1>1. TypeInv /\ RaceInv /\ [Next]_vars => RaceInv'
  BY NextRaceInv
<1> QED
  BY <1>1, InitRaceInv, TypeInvAlways, PTL DEF Spec

\* Two opened collections share a file only if one request opened their name
\* while another one opened or deleted it, or the files of that name were saved
\* by an instance that they were not, or not alone, the files of.
THEOREM OneInstanceAlways == Spec => []OneInstanceUnlessDisturbed
BY RaceInvAlways, RaceInvOK, TypeInvAlways, PTL

\* Who may bring the file of n into being.
Creator(n) ==
  \E c \in Clients : /\ req[c].name = n
                    /\ \/ req[c].pc = "open" /\ Creates(c)
                       \/ req[c].pc = "use" /\ req[c].op = "compact"

LEMMA StepCreates ==
  ASSUME TypeInv, RaceInv, [Next]_vars, NEW n \in Names,
         paths[n] = None, paths'[n] # None, Undisturbed(n)
  PROVE  Creator(n)
<1>1. CASE UNCHANGED paths
  BY <1>1
<1>2. ASSUME NEW c \in Clients, Open(c) PROVE Creator(n)
  <2>1. req[c].pc = "open" /\ req[c].name = n
    <3>1. PICK file : paths' = [paths EXCEPT ![req[c].name] = file]
      BY <1>2 DEF Open
    <3> QED
      BY <1>2, <3>1 DEF Open, TypeInv, SharedOK
  <2>2. Creates(c)
    BY <2>1 DEF RaceInv, Unraced, Found, Opens, OpeningPcs
  <2> QED
    BY <2>1, <2>2 DEF Creator
<1>3. ASSUME NEW c \in Clients, Unlink(c) PROVE FALSE
  BY <1>3 DEF Unlink, TypeInv, SharedOK
<1>4. ASSUME NEW c \in Clients, CompactOther(c) PROVE Creator(n)
  <2>1. PICK file : paths' = [paths EXCEPT ![req[c].name] = file]
    BY <1>4 DEF CompactOther
  <2>2. req[c].name = n
    BY <2>1 DEF TypeInv, SharedOK
  <2> QED
    BY <1>4, <2>2 DEF Creator, CompactOther, TakesGuard
<1> QED
  BY <1>1, <1>2, <1>3, <1>4, ZenonT(40)
     DEF vars, Next, Arrival, Receive, ReceiveInsert, ReceiveDelete, RefuseWrite, ReceiveList,
     ReceiveDeleteCollection, Locking, Read, Create, CompactOwn, Stored, Insert,
     InsertBreaksOff, InsertRefused, Fails, Delete,
     Scan, Evict, List, Running, Lookup, Exists, OpenFails, Register, NoBudget, Budget,
     WithinBudget, OverBudget, EvictionDone, MarkRunning, Spawn, Remove, RebuildTask,
     ReloadConfig, Restart, manager

\* A request that only looks a collection up never brings its file into being,
\* short of such a disturbance, unless it compacts the collection.
THEOREM ReadsNeverCreate == Spec => ReadsDoNotCreate
<1>1. TypeInv /\ RaceInv /\ [Next]_vars =>
        [\A n \in Names :
           paths[n] = None /\ paths'[n] # None /\ Undisturbed(n)
             => \E c \in Clients : /\ req[c].name = n
                                   /\ \/ req[c].pc = "open" /\ Creates(c)
                                      \/ req[c].pc = "use" /\ req[c].op = "compact"]_vars
  BY StepCreates DEF Creator
<1> QED
  BY <1>1, RaceInvAlways, TypeInvAlways, PTL DEF Spec, ReadsDoNotCreate

=============================================================================
