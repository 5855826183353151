----------------------- MODULE CollectionPromiseProofs ----------------------
(***************************************************************************)
(* Theorems about the documents promised to clients, for every value of    *)
(* the constants of CollectionManager.                                     *)
(***************************************************************************)
EXTENDS CollectionManagerProofs

-----------------------------------------------------------------------------
(* What makes a promise good.                                              *)

\* c waits for the answer to an insert that nobody asked to undo, or reads
\* documents that somebody was promised.
Promised(c) == req[c].counts \/ req[c].must # {}

\* A deletion of the collection takes every promise about it away.
NothingPromised ==
  \A n \in Names : Deleting(n) =>
    acked[n] = {} /\ \A c \in Clients : About(c, n) => ~Promised(c)

MustBeAcked ==
  \A c \in Clients : InFlight(c) /\ req[c].must # {} => req[c].must \subseteq acked[req[c].name]

\* Reads have the name of a collection, answered or not.
ReadsNamed == \A c \in Clients : req[c].op = "read" => req[c].name \in Names

\* No document is inserted twice, or promised before it is inserted or after
\* somebody asked to delete it.
FreshDocs ==
  /\ \A n \in Names : acked[n] \subseteq 1..sent
  /\ \A c \in Clients : InFlight(c) /\ req[c].doc # None => req[c].doc \in 1..sent
  /\ \A c \in Clients : InFlight(c) /\ req[c].op = "insert" =>
       /\ \A n \in Names : req[c].doc \notin acked[n]
       /\ \A b \in Clients \ {c} : InFlight(b) => req[b].doc # req[c].doc
  /\ \A c \in Clients : InFlight(c) /\ req[c].op = "delete" =>
       req[c].doc \notin acked[req[c].name]

\* The table has the collection whose file has the name,
TableLinked(n) ==
  /\ \A c \in Clients : req[c].pc = "unlink" /\ req[c].name = n => collections[n] = None
  /\ collections[n] # None => instances[collections[n]].file = paths[n]
  /\ \A c \in Clients : req[c].pc = "register" /\ req[c].name = n =>
       instances[req[c].h].file = paths[n]

\* who serves a promise has that one,
HasLoaded(n) ==
  \A c \in Clients :
    req[c].pc \in HandlePcs \ {"register"} /\ req[c].name = n /\ Promised(c)
      => req[c].h = collections[n]

\* and its file holds what it serves, which is all that was promised if the file
\* has the name, and the document of an insert to be answered.  The file may hold
\* more: documents that a limit refused.
Durable(n) ==
  /\ \A h \in Handles : instances[h].name = n =>
       /\ instances[h].docs \subseteq disk[instances[h].file]
       /\ instances[h].file = paths[n] => acked[n] \subseteq instances[h].docs
  /\ \A c \in Clients : req[c].pc \in GuardPcs /\ req[c].name = n /\ req[c].counts =>
       req[c].doc \in instances[req[c].h].docs

Kept(n) == OnDisk(n, acked[n])

Served(n) == TableLinked(n) /\ HasLoaded(n) /\ Durable(n) /\ Kept(n)

PromiseInv ==
  /\ NothingPromised /\ MustBeAcked /\ ReadsNamed /\ FreshDocs
  /\ \A n \in Names : Undisturbed(n) => Served(n)
  /\ ReadsSeeAckedWrites

LEMMA PromiseInvOK == PromiseInv => AckedOnDisk /\ ReadsSeeAckedWrites
BY DEF PromiseInv, Served, Kept, AckedOnDisk

LEMMA InitPromiseInv == Init => PromiseInv
BY ConstantsAssumption
   DEF Init, PromiseInv, NothingPromised, MustBeAcked, ReadsNamed, FreshDocs, Served, TableLinked, HasLoaded,
   Durable, Kept, OnDisk, ReadsSeeAckedWrites, Deleting, About, InFlight, NoRequest, HandlePcs, GuardPcs,
   Handles

\* What holds of a request under way.
LEMMA RequestFacts ==
  ASSUME TypeInv, NEW c \in Clients
  PROVE  /\ req[c] \in RequestType(instances)
         /\ req[c].pc \notin {"answered", "list"} => req[c].name \in Names
         /\ InFlight(c) /\ req[c].op \in {"insert", "delete"} => req[c].doc \in Docs
         /\ req[c].pc \in HandlePcs => req[c].h \in Handles /\ instances[req[c].h].name = req[c].name
         /\ req[c].pc \in GuardPcs => req[c].op = "insert"
         /\ req[c].pc \in {"remove", "unlink"} => req[c].op = "delete_collection"
BY DEF TypeInv, RequestsOK, RequestOK, HasHandle, InFlight, Handles

LEMMA NoneIsNone ==
  TypeInv => None \notin Docs /\ None \notin Handles /\ None \notin DOMAIN disk /\ sent \in Nat
<1> SUFFICES ASSUME TypeInv
             PROVE  None \notin Docs /\ None \notin Handles /\ None \notin DOMAIN disk /\ sent \in Nat
  OBVIOUS
<1>1. instances \in Seq(Instance) /\ disk \in Seq(SUBSET Docs) /\ sent \in 0..MaxRequests
  BY DEF TypeInv, SharedOK
<1> HIDE DEF Instance
<1> QED
  BY <1>1, ConstantsAssumption DEF Docs, Requests, Handles

-----------------------------------------------------------------------------
(* Steps that change no collection, no file and no promise.                *)

\* A request under way goes on with what it has: to the collection in the table
\* or one it has already, to the guard only if it has that already.
GoesOn(c) ==
  /\ InFlight(c) /\ req'[c].pc \notin {"answered", "register", "unlink"}
  /\ req'[c].op = req[c].op /\ req'[c].name = req[c].name /\ req'[c].doc = req[c].doc
  /\ req'[c].must = req[c].must /\ req'[c].counts = req[c].counts
  /\ req'[c].pc \in HandlePcs =>
       \/ req'[c].h = collections[req[c].name]
       \/ req'[c].h = req[c].h /\ req[c].pc \in HandlePcs \ {"register"}
  /\ req'[c].pc \in GuardPcs => req'[c].h = req[c].h /\ req[c].pc \in GuardPcs

IsAnswered(c) == req'[c].pc = "answered" /\ req'[c].op # "read"

Lists(c) ==
  /\ req'[c].pc = "list" /\ req'[c].op = "list" /\ req'[c].name = None
  /\ req'[c].doc = None /\ req'[c].must = {} /\ req'[c].counts = FALSE

Calm ==
  /\ UNCHANGED <<collections, paths, disk, instances, acked>>
  /\ sent' \in Nat /\ sent <= sent'
  /\ \A n \in Names : Undisturbed(n)' => Undisturbed(n)
  /\ \A c \in Clients : req'[c] = req[c] \/ IsAnswered(c) \/ GoesOn(c) \/ Lists(c)

LEMMA CalmPromise ==
  ASSUME TypeInv, PromiseInv, Calm
  PROVE  PromiseInv'
<1>1. NothingPromised'
  <2>1. \A n \in Names : Deleting(n)' => Deleting(n)
    BY DEF Calm, Deleting, About, InFlight, IsAnswered, GoesOn, Lists
  <2>2. \A n \in Names, c \in Clients :
          About(c, n)' => (About(c, n) /\ Promised(c)' = Promised(c)) \/ ~Promised(c)'
    BY DEF Calm, About, InFlight, Promised, IsAnswered, GoesOn, Lists
  <2> QED
    BY <2>1, <2>2 DEF NothingPromised, PromiseInv, Calm
<1>2. MustBeAcked'
  BY DEF MustBeAcked, PromiseInv, Calm, InFlight, IsAnswered, GoesOn, Lists
<1>3. FreshDocs'
  <2>1. 1..sent \subseteq 1..sent'
    BY NoneIsNone DEF Calm
  <2>2. \A c \in Clients : InFlight(c)' =>
          \/ InFlight(c) /\ req'[c].op = req[c].op /\ req'[c].doc = req[c].doc
             /\ req'[c].name = req[c].name
          \/ req'[c].op = "list" /\ req'[c].doc = None
    BY DEF Calm, InFlight, IsAnswered, GoesOn, Lists
  <2>3. \A c \in Clients : InFlight(c) /\ req[c].op = "insert" => req[c].doc # None
    BY RequestFacts, NoneIsNone
  <2> QED
    BY <2>1, <2>2, <2>3 DEF FreshDocs, PromiseInv, Calm
<1>4. ASSUME NEW n \in Names, Undisturbed(n)' PROVE Served(n)'
  <2>1. Served(n)
    BY <1>4 DEF PromiseInv, Calm
  <2>2. TableLinked(n)'
    BY <2>1 DEF Served, TableLinked, Calm, IsAnswered, GoesOn, Lists
  <2>3. HasLoaded(n)'
    BY <2>1 DEF Served, HasLoaded, Calm, Promised, HandlePcs, IsAnswered, GoesOn, Lists
  <2>4. Durable(n)'
    BY <2>1 DEF Served, Durable, Calm, GuardPcs, Handles, IsAnswered, GoesOn, Lists
  <2>5. Kept(n)'
    BY <2>1 DEF Served, Kept, OnDisk, Calm
  <2> QED
    BY <2>2, <2>3, <2>4, <2>5 DEF Served
<1>5. ReadsSeeAckedWrites'
  <2> SUFFICES ASSUME NEW c \in Clients, ~InFlight(c)', req'[c].op = "read",
                      ~raced'[req'[c].name], ~overwritten'[req'[c].name]
               PROVE  req'[c].must \subseteq req'[c].seen
    BY DEF ReadsSeeAckedWrites, Undisturbed
  <2>1. req'[c] = req[c]
    BY DEF Calm, InFlight, IsAnswered, GoesOn, Lists
  <2>2. req[c].name \in Names
    BY <2>1 DEF PromiseInv, ReadsNamed
  <2>3. Undisturbed(req[c].name)
    BY <2>1, <2>2 DEF Calm, Undisturbed
  <2> QED
    BY <2>1, <2>3 DEF PromiseInv, ReadsSeeAckedWrites, InFlight
<1>6. ReadsNamed'
  BY DEF PromiseInv, ReadsNamed, Calm, IsAnswered, GoesOn, Lists
<1> QED
  BY <1>1, <1>2, <1>3, <1>4, <1>5, <1>6 DEF PromiseInv

\* One request moves so.
LEMMA OneCalm ==
  ASSUME TypeInv, PromiseInv, NEW c \in Clients, NEW q, req' = [req EXCEPT ![c] = q],
         \/ q = NoRequest
         \/ /\ InFlight(c) /\ q.pc \notin {"answered", "register", "unlink"}
            /\ q.op = req[c].op /\ q.name = req[c].name /\ q.doc = req[c].doc
            /\ q.must = req[c].must /\ q.counts = req[c].counts
            /\ q.pc \in HandlePcs =>
                 \/ q.h = collections[req[c].name]
                 \/ q.h = req[c].h /\ req[c].pc \in HandlePcs \ {"register"}
            /\ q.pc \in GuardPcs => q.h = req[c].h /\ req[c].pc \in GuardPcs,
         UNCHANGED <<collections, paths, disk, instances, sent, acked>>,
         \A n \in Names : Undisturbed(n)' => Undisturbed(n)
  PROVE  PromiseInv'
<1>1. req'[c] = q /\ \A b \in Clients : b # c => req'[b] = req[b]
  BY DEF TypeInv, RequestsOK
<1>2. IsAnswered(c) \/ GoesOn(c)
  BY <1>1 DEF IsAnswered, GoesOn, NoRequest
<1>3. Calm
  BY <1>1, <1>2, NoneIsNone DEF Calm
<1> QED
  BY <1>3, CalmPromise

LEMMA CalmAnswer ==
  ASSUME TypeInv, PromiseInv, NEW c \in Clients, Answer(c),
         UNCHANGED <<collections, paths, disk, instances, sent, acked, excuses>>
  PROVE  PromiseInv'
BY OneCalm DEF Answer, excuses, Undisturbed

LEMMA CalmGoto ==
  ASSUME TypeInv, PromiseInv, NEW c \in Clients, NEW pc, Goto(c, pc), InFlight(c),
         pc \notin {"answered", "register", "unlink"} \cup GuardPcs,
         pc \in HandlePcs => req[c].pc \in HandlePcs \ {"register"},
         UNCHANGED <<collections, paths, disk, instances, sent, acked, excuses>>
  PROVE  PromiseInv'
<1> DEFINE q == [req[c] EXCEPT !.pc = pc]
<1>1. /\ q.pc = pc /\ q.op = req[c].op /\ q.name = req[c].name /\ q.doc = req[c].doc
      /\ q.must = req[c].must /\ q.counts = req[c].counts /\ q.h = req[c].h
  BY RequestFacts DEF RequestType
<1>2. req' = [req EXCEPT ![c] = q]
  BY DEF Goto
<1>3. \A n \in Names : Undisturbed(n)' => Undisturbed(n)
  BY DEF excuses, Undisturbed
<1> HIDE DEF q
<1> QED
  BY <1>1, <1>2, <1>3, OneCalm

\* It gets a list to walk through, or is done with a part of it.
LEMMA CalmList ==
  ASSUME TypeInv, PromiseInv, NEW c \in Clients, NEW pc, NEW todo, InFlight(c),
         req' = [req EXCEPT ![c].pc = pc, ![c].todo = todo],
         (pc = req[c].pc /\ pc = "list") \/ (pc \in GuardPcs /\ req[c].pc \in GuardPcs),
         UNCHANGED <<collections, paths, disk, instances, sent, acked, excuses>>
  PROVE  PromiseInv'
<1> DEFINE q == [req[c] EXCEPT !.pc = pc, !.todo = todo]
<1>1. /\ q.pc = pc /\ q.op = req[c].op /\ q.name = req[c].name /\ q.doc = req[c].doc
      /\ q.must = req[c].must /\ q.counts = req[c].counts /\ q.h = req[c].h
  BY RequestFacts DEF RequestType
<1>2. req' = [req EXCEPT ![c] = q]
  OBVIOUS
<1>3. /\ pc \notin {"answered", "register", "unlink"}
      /\ pc \in HandlePcs => req[c].pc \in HandlePcs \ {"register"}
      /\ pc \in GuardPcs => req[c].pc \in GuardPcs
  BY DEF HandlePcs, GuardPcs
<1>4. \A n \in Names : Undisturbed(n)' => Undisturbed(n)
  BY DEF excuses, Undisturbed
<1> HIDE DEF q
<1> QED
  BY <1>1, <1>2, <1>3, <1>4, OneCalm

LEMMA LookupPromise ==
  ASSUME TypeInv, PromiseInv, NEW c \in Clients, Lookup(c)
  PROVE  PromiseInv'
<1> DEFINE n == req[c].name
<1>1. /\ req[c].pc = "lookup" /\ n \in Names /\ req[c] \in RequestType(instances) /\ InFlight(c)
      /\ UNCHANGED <<collections, paths, disk, instances, sent, acked, overwritten>>
  BY RequestFacts DEF Lookup, manager, InFlight
<1>2. CASE req' = [req EXCEPT ![c].h = collections[n], ![c].pc = WithHandle(c)] /\ UNCHANGED raced
  <2> DEFINE q == [req[c] EXCEPT !.h = collections[n], !.pc = WithHandle(c)]
  <2>1. /\ q.pc \in {"running", "use"} /\ q.op = req[c].op /\ q.name = n /\ q.doc = req[c].doc
        /\ q.must = req[c].must /\ q.counts = req[c].counts /\ q.h = collections[n]
    BY <1>1 DEF WithHandle, RequestType
  <2>2. req' = [req EXCEPT ![c] = q]
    BY <1>2
  <2> HIDE DEF q
  <2>3. q.pc \notin {"answered", "register", "unlink"} /\ q.pc \notin GuardPcs
    BY <2>1 DEF GuardPcs
  <2>4. \A m \in Names : Undisturbed(m)' => Undisturbed(m)
    BY <1>1, <1>2 DEF Undisturbed
  <2> QED
    BY <1>1, <1>2, <2>1, <2>2, <2>3, <2>4, OneCalm
<1>3. CASE /\ Goto(c, IF Creates(c) THEN "open" ELSE "exists")
           /\ raced' = [raced EXCEPT ![n] = @ \/ Opening(n) \/ Deleting(n)]
  <2> DEFINE pc == IF Creates(c) THEN "open" ELSE "exists"
             q == [req[c] EXCEPT !.pc = pc]
  <2>1. /\ q.pc = pc /\ q.op = req[c].op /\ q.name = n /\ q.doc = req[c].doc
        /\ q.must = req[c].must /\ q.counts = req[c].counts
    BY <1>1 DEF RequestType
  <2>2. req' = [req EXCEPT ![c] = q]
    BY <1>3 DEF Goto
  <2>3. /\ pc \notin {"answered", "register", "unlink"}
        /\ pc \notin HandlePcs /\ pc \notin GuardPcs
    BY DEF HandlePcs, GuardPcs
  <2>4. \A m \in Names : Undisturbed(m)' => Undisturbed(m)
    <3> DEFINE others == Opening(n) \/ Deleting(n)
    <3>1. raced' = [raced EXCEPT ![n] = raced[n] \/ others] /\ raced \in [Names -> BOOLEAN]
      BY <1>3 DEF TypeInv, SharedOK
    <3> HIDE DEF others
    <3> QED
      BY <1>1, <3>1 DEF Undisturbed
  <2> HIDE DEF q, pc
  <2> QED
    BY <1>1, <2>1, <2>2, <2>3, <2>4, OneCalm
<1> QED
  BY <1>2, <1>3 DEF Lookup

LEMMA ExistsPromise ==
  ASSUME TypeInv, PromiseInv, NEW c \in Clients, Exists(c)
  PROVE  PromiseInv'
<1>1. InFlight(c) /\ UNCHANGED <<collections, paths, disk, instances, sent, acked, excuses>>
  BY DEF Exists, InFlight, manager, history, excuses
<1>2. CASE Answer(c)
  BY <1>1, <1>2, CalmAnswer
<1>3. CASE Goto(c, "open")
  BY <1>1, <1>3, CalmGoto DEF HandlePcs, GuardPcs
<1> QED
  BY <1>2, <1>3 DEF Exists

-----------------------------------------------------------------------------
(* Requests arrive.                                                        *)

\* What the arrival of r leaves of the other requests.
Others(c, r, ds) ==
  \A b \in Clients \ {c} :
    /\ req'[b].pc = req[b].pc /\ req'[b].op = req[b].op /\ req'[b].name = req[b].name
    /\ req'[b].doc = req[b].doc /\ req'[b].h = req[b].h /\ req'[b].seen = req[b].seen
    /\ req'[b].must \subseteq req[b].must /\ (req'[b].counts => req[b].counts)
    /\ req[b].name = r.name => /\ req'[b].must = req[b].must \ ds
                               /\ ds = Docs => ~req'[b].counts

LEMMA ArriveOthers ==
  ASSUME TypeInv, NEW c \in Clients, NEW r, NEW ds, Arrive(c, r, ds)
  PROVE  Others(c, r, ds)
<1> SUFFICES ASSUME NEW b \in Clients \ {c}
             PROVE  /\ req'[b].pc = req[b].pc /\ req'[b].op = req[b].op
                    /\ req'[b].name = req[b].name /\ req'[b].doc = req[b].doc
                    /\ req'[b].h = req[b].h /\ req'[b].seen = req[b].seen
                    /\ req'[b].must \subseteq req[b].must /\ (req'[b].counts => req[b].counts)
                    /\ req[b].name = r.name => /\ req'[b].must = req[b].must \ ds
                                               /\ ds = Docs => ~req'[b].counts
  BY DEF Others
<1>1. req[b] \in RequestType(instances)
  BY RequestFacts
<1>2. CASE req[b].name = r.name
  <2> DEFINE counts == req[b].counts /\ ds # Docs
             must == req[b].must \ ds
  <2>1. req'[b] = [req[b] EXCEPT !.must = must, !.counts = counts]
    BY <1>2 DEF Arrive
  <2>2. (counts => req[b].counts) /\ (ds = Docs => ~counts) /\ must \subseteq req[b].must
    OBVIOUS
  <2> HIDE DEF counts, must
  <2>3. /\ req'[b].pc = req[b].pc /\ req'[b].op = req[b].op /\ req'[b].name = req[b].name
        /\ req'[b].doc = req[b].doc /\ req'[b].h = req[b].h /\ req'[b].seen = req[b].seen
        /\ req'[b].must = must /\ req'[b].counts = counts
    BY <1>1, <2>1 DEF RequestType
  <2> QED
    BY <2>2, <2>3 DEF must
<1>3. CASE req[b].name # r.name
  BY <1>3 DEF Arrive
<1> QED
  BY <1>2, <1>3

\* A request as it arrives: with nothing but what it asks for.
New(r, ds) ==
  /\ r.pc \in {"lookup", "remove"} /\ r.name \in Names /\ r.op \in OpNames
  /\ r.doc \in Docs \cup {None} /\ r.counts \in BOOLEAN
  /\ r.op \in {"insert", "delete"} => r.doc \in Docs
  /\ r.op = "delete_collection" => ds = Docs /\ ~r.counts
  /\ r.counts => ~Deleting(r.name)
  /\ r.op = "insert" => r.doc = sent + 1
  /\ r.op = "delete" => r.doc \in acked[r.name] /\ ds = {r.doc}
  /\ r.op \notin {"insert", "delete"} => r.doc = None

LEMMA ArrivePromise ==
  ASSUME TypeInv, PromiseInv, NEW c \in Clients, NEW r, RequestOK(r, instances),
         NEW ds \in SUBSET Docs, New(r, ds), Arrive(c, r, ds),
         UNCHANGED <<collections, paths, disk, instances>>,
         \A n \in Names : Undisturbed(n)' => Undisturbed(n)
  PROVE  PromiseInv'
<1> DEFINE kept == acked[r.name] \ ds
           must == IF r.op = "read" THEN kept ELSE {}
<1>1. /\ ~InFlight(c) /\ sent' = sent + 1 /\ sent \in Nat
      /\ acked' = [acked EXCEPT ![r.name] = kept] /\ acked \in [Names -> SUBSET Docs]
  BY NoneIsNone DEF Arrive, TypeInv, SharedOK
<1>2. Others(c, r, ds)
  BY ArriveOthers
<1>3. /\ req'[c].pc = r.pc /\ req'[c].op = r.op /\ req'[c].name = r.name
      /\ req'[c].doc = r.doc /\ req'[c].counts = r.counts /\ req'[c].must = must
  <2>1. req'[c] = [r EXCEPT !.must = must]
    BY DEF Arrive
  <2> HIDE DEF must
  <2> QED
    BY <2>1 DEF RequestOK, RequestType
<1>4. \A n \in Names : acked'[n] \subseteq acked[n]
  BY <1>1
<1>5. /\ acked'[r.name] = kept /\ r.name \in Names
      /\ \A n \in Names : n # r.name => acked'[n] = acked[n]
  BY <1>1 DEF New
<1>6. InFlight(c)' /\ req'[c].pc \in {"lookup", "remove"}
  BY <1>3 DEF InFlight, New
<1>7. NothingPromised'
  <2> SUFFICES ASSUME NEW n \in Names, Deleting(n)'
               PROVE  acked'[n] = {} /\ \A b \in Clients : About(b, n)' => ~Promised(b)'
    BY DEF NothingPromised
  <2>1. CASE Deleting(n)
    <3>1. acked[n] = {} /\ \A b \in Clients : About(b, n) => ~Promised(b)
      BY <2>1 DEF PromiseInv, NothingPromised
    <3>2. acked'[n] = {}
      BY <1>4, <3>1
    <3>3. ASSUME NEW b \in Clients, b # c, About(b, n)' PROVE ~Promised(b)'
      BY <1>2, <3>1, <3>3 DEF Others, About, InFlight, Promised
    <3>4. About(c, n)' => ~Promised(c)'
      BY <1>3, <1>5, <2>1, <3>2 DEF About, Promised, New
    <3> QED
      BY <3>2, <3>3, <3>4
  <2>2. CASE ~Deleting(n)
    <3>1. r.op = "delete_collection" /\ r.name = n
      BY <1>2, <1>3, <2>2 DEF Others, Deleting, About, InFlight
    <3>2. ds = Docs /\ ~r.counts
      BY <3>1 DEF New
    <3>3. acked'[n] = {}
      BY <1>1, <1>5, <3>1, <3>2
    <3>4. ASSUME NEW b \in Clients, b # c, About(b, n)' PROVE ~Promised(b)'
      <4>1. req[b].name = r.name /\ req[b].must \subseteq Docs
        BY <1>2, <3>1, <3>4, RequestFacts DEF Others, About, RequestType
      <4> QED
        BY <1>2, <3>2, <3>4, <4>1 DEF Others, Promised
    <3>5. ~Promised(c)'
      BY <1>3, <3>1, <3>2 DEF Promised
    <3> QED
      BY <3>3, <3>4, <3>5
  <2> QED
    BY <2>1, <2>2
<1>8. MustBeAcked'
  <2> SUFFICES ASSUME NEW b \in Clients, InFlight(b)', req'[b].must # {}
               PROVE  req'[b].must \subseteq acked'[req'[b].name]
    BY DEF MustBeAcked
  <2>1. CASE b = c
    BY <1>3, <1>5, <2>1
  <2>2. CASE b # c
    <3>1. /\ InFlight(b) /\ req[b].must # {} /\ req'[b].name = req[b].name
          /\ req'[b].must \subseteq req[b].must
          /\ req[b].name = r.name => req'[b].must = req[b].must \ ds
      BY <1>2, <2>2 DEF Others, InFlight
    <3>2. req[b].must \subseteq acked[req[b].name]
      BY <3>1 DEF PromiseInv, MustBeAcked
    <3>3. CASE req[b].name = r.name
      BY <1>5, <3>1, <3>2, <3>3
    <3>4. CASE req[b].name # r.name
      BY <1>1, <3>1, <3>2, <3>4
    <3> QED
      BY <3>3, <3>4
  <2> QED
    BY <2>1, <2>2
<1>9. ReadsNamed'
  BY <1>2, <1>3, <1>5 DEF PromiseInv, ReadsNamed, Others
<1>10. FreshDocs'
  <2>1. \A n \in Names : acked'[n] \subseteq 1..sent'
    BY <1>1, <1>4 DEF PromiseInv, FreshDocs
  <2>2. \A b \in Clients : InFlight(b)' /\ req'[b].doc # None => req'[b].doc \in 1..sent'
    <3>1. r.doc # None => r.doc \in 1..sent'
      BY <1>1 DEF New, PromiseInv, FreshDocs
    <3>2. ASSUME NEW b \in Clients, b # c, InFlight(b)', req'[b].doc # None
          PROVE  req'[b].doc \in 1..sent'
      <4>1. req[b].doc \in 1..sent /\ req'[b].doc = req[b].doc
        BY <1>2, <3>2 DEF PromiseInv, FreshDocs, Others, InFlight
      <4> QED
        BY <1>1, <4>1
    <3> QED
      BY <1>3, <3>1, <3>2
  <2>3. ASSUME NEW b \in Clients, InFlight(b)', req'[b].op = "insert"
        PROVE  /\ \A n \in Names : req'[b].doc \notin acked'[n]
               /\ \A a \in Clients \ {b} : InFlight(a)' => req'[a].doc # req'[b].doc
    <3>1. CASE b = c
      <4>1. req'[b].doc = sent + 1 /\ sent + 1 \notin 1..sent
        BY <1>1, <1>3, <2>3, <3>1 DEF New
      <4>2. \A n \in Names : req'[b].doc \notin acked'[n]
        BY <1>4, <4>1 DEF PromiseInv, FreshDocs
      <4>3. ASSUME NEW a \in Clients \ {b}, InFlight(a)' PROVE req'[a].doc # req'[b].doc
        <5>1. InFlight(a) /\ req'[a].doc = req[a].doc
          BY <1>2, <3>1, <4>3 DEF Others, InFlight
        <5>2. req[a].doc = None \/ req[a].doc \in 1..sent
          BY <5>1 DEF PromiseInv, FreshDocs
        <5>3. None # sent + 1
          BY <1>1, ConstantsAssumption
        <5> QED
          BY <4>1, <5>1, <5>2, <5>3
      <4> QED
        BY <4>2, <4>3
    <3>2. CASE b # c
      <4>1. InFlight(b) /\ req[b].op = "insert" /\ req'[b].doc = req[b].doc
        BY <1>2, <2>3, <3>2 DEF Others, InFlight
      <4>2. /\ \A n \in Names : req[b].doc \notin acked[n]
            /\ \A a \in Clients \ {b} : InFlight(a) => req[a].doc # req[b].doc
            /\ req[b].doc # None => req[b].doc \in 1..sent
        BY <4>1 DEF PromiseInv, FreshDocs
      <4>3. req[b].doc # None
        BY <4>1, RequestFacts, NoneIsNone
      <4>4. r.doc # req[b].doc
        <5>1. sent + 1 \notin 1..sent
          BY <1>1
        <5> QED
          BY <4>2, <4>3, <5>1 DEF New
      <4>5. ASSUME NEW a \in Clients \ {b}, InFlight(a)' PROVE req'[a].doc # req'[b].doc
        <5>1. CASE a = c
          BY <1>3, <4>1, <4>4, <5>1
        <5>2. CASE a # c
          BY <1>2, <4>1, <4>2, <4>5, <5>2 DEF Others, InFlight
        <5> QED
          BY <5>1, <5>2
      <4> QED
        BY <1>4, <4>1, <4>2, <4>5
    <3> QED
      BY <3>1, <3>2
  <2>4. ASSUME NEW b \in Clients, InFlight(b)', req'[b].op = "delete"
        PROVE  req'[b].doc \notin acked'[req'[b].name]
    <3>1. CASE b = c
      BY <1>3, <1>5, <2>4, <3>1 DEF New
    <3>2. CASE b # c
      <4>1. /\ InFlight(b) /\ req[b].op = "delete" /\ req'[b].doc = req[b].doc
            /\ req'[b].name = req[b].name
        BY <1>2, <2>4, <3>2 DEF Others, InFlight
      <4>2. req[b].doc \notin acked[req[b].name]
        BY <4>1 DEF PromiseInv, FreshDocs
      <4> QED
        BY <1>1, <4>1, <4>2
    <3> QED
      BY <3>1, <3>2
  <2> QED
    BY <2>1, <2>2, <2>3, <2>4 DEF FreshDocs
<1>11. ASSUME NEW n \in Names, Undisturbed(n)' PROVE Served(n)'
  <2>1. Served(n)
    BY <1>11 DEF PromiseInv
  <2>2. TableLinked(n)'
    BY <1>2, <1>6, <2>1 DEF Served, TableLinked, Others
  <2>3. HasLoaded(n)'
    BY <1>2, <1>6, <2>1 DEF Served, HasLoaded, Promised, HandlePcs, Others
  <2>4. Durable(n)'
    BY <1>2, <1>4, <1>6, <2>1 DEF Served, Durable, GuardPcs, Handles, Others
  <2>5. Kept(n)'
    BY <1>4, <2>1 DEF Served, Kept, OnDisk
  <2> QED
    BY <2>2, <2>3, <2>4, <2>5 DEF Served
<1>12. ReadsSeeAckedWrites'
  <2> SUFFICES ASSUME NEW b \in Clients, ~InFlight(b)', req'[b].op = "read",
                      ~raced'[req'[b].name], ~overwritten'[req'[b].name]
               PROVE  req'[b].must \subseteq req'[b].seen
    BY DEF ReadsSeeAckedWrites, Undisturbed
  <2>1. /\ b # c /\ ~InFlight(b) /\ req[b].op = "read" /\ req[b].name = req'[b].name
        /\ req'[b].must \subseteq req[b].must /\ req'[b].seen = req[b].seen
    BY <1>2, <1>6 DEF Others, InFlight
  <2>2. Undisturbed(req[b].name)
    BY <2>1 DEF PromiseInv, ReadsNamed, Undisturbed
  <2> QED
    BY <2>1, <2>2 DEF PromiseInv, ReadsSeeAckedWrites
<1> QED
  BY <1>7, <1>8, <1>9, <1>10, <1>11, <1>12 DEF PromiseInv

-----------------------------------------------------------------------------
(* Answers.                                                                *)

\* Who serves a promise has the file with the collection's name and serves all
\* that was promised.
LEMMA ServesFile ==
  ASSUME TypeInv, PromiseInv, NEW c \in Clients, req[c].pc \in HandlePcs \ {"register"},
         Undisturbed(req[c].name), Promised(c)
  PROVE  LET n == req[c].name IN
         /\ n \in Names /\ paths[n] # None /\ paths[n] = instances[req[c].h].file
         /\ instances[req[c].h].docs \subseteq disk[paths[n]]
         /\ acked[n] \subseteq instances[req[c].h].docs
<1> DEFINE n == req[c].name
<1>1. n \in Names /\ req[c].h \in Handles /\ instances[req[c].h].name = n
  BY RequestFacts DEF HandlePcs
<1>2. Served(n)
  BY <1>1 DEF PromiseInv
<1>3. req[c].h = collections[n] /\ collections[n] # None
  BY <1>1, <1>2, NoneIsNone DEF Served, HasLoaded
<1>4. instances[req[c].h].file = paths[n]
  BY <1>2, <1>3 DEF Served, TableLinked
<1>5. /\ instances[req[c].h].docs \subseteq disk[paths[n]]
      /\ acked[n] \subseteq instances[req[c].h].docs
  BY <1>1, <1>2, <1>4 DEF Served, Durable
<1>6. paths[n] # None
  BY <1>1, <1>4, OpenedInstance, NoneIsNone DEF Handles
<1> QED
  BY <1>1, <1>4, <1>5, <1>6

LEMMA ReadPromise ==
  ASSUME TypeInv, PromiseInv, NEW c \in Clients, Read(c)
  PROVE  PromiseInv'
<1> DEFINE n == req[c].name
           seen == instances[req[c].h].docs
<1>1. /\ req[c].pc = "use" /\ req[c].op = "read" /\ InFlight(c) /\ n \in Names
      /\ UNCHANGED <<collections, paths, disk, instances, sent, acked, raced, overwritten>>
  BY RequestFacts DEF Read, TakesGuard, InFlight, manager, history
<1>2. /\ req'[c].pc = "answered" /\ req'[c].op = "read" /\ req'[c].name = n
      /\ req'[c].must = req[c].must /\ req'[c].seen = seen
      /\ \A b \in Clients \ {c} : req'[b] = req[b]
  BY DEF Read, NoRequest, TypeInv, RequestsOK
<1>3. \A b \in Clients : InFlight(b)' => b # c /\ InFlight(b)
  BY <1>2 DEF InFlight
<1> HIDE DEF seen
<1>4. NothingPromised'
  BY <1>1, <1>2, <1>3 DEF PromiseInv, NothingPromised, Deleting, About, Promised
<1>5. MustBeAcked'
  BY <1>1, <1>2, <1>3 DEF PromiseInv, MustBeAcked
<1>6. ReadsNamed'
  BY <1>1, <1>2 DEF PromiseInv, ReadsNamed
<1>7. FreshDocs'
  BY <1>1, <1>2, <1>3 DEF PromiseInv, FreshDocs
<1>8. ASSUME NEW m \in Names, Undisturbed(m)' PROVE Served(m)'
  <2>1. Served(m)
    BY <1>1, <1>8 DEF PromiseInv, Undisturbed
  <2> QED
    BY <1>1, <1>2, <2>1
       DEF Served, TableLinked, HasLoaded, Durable, Kept, OnDisk, Promised, HandlePcs, GuardPcs,
           Handles
<1>9. ReadsSeeAckedWrites'
  <2>1. Undisturbed(n) => req[c].must \subseteq seen
    <3> SUFFICES ASSUME Undisturbed(n), req[c].must # {} PROVE req[c].must \subseteq seen
      OBVIOUS
    <3>1. acked[n] \subseteq seen
      BY <1>1, ServesFile DEF Promised, HandlePcs, seen
    <3>2. req[c].must \subseteq acked[n]
      BY <1>1 DEF PromiseInv, MustBeAcked
    <3> QED
      BY <3>1, <3>2
  <2> QED
    BY <1>1, <1>2, <2>1 DEF PromiseInv, ReadsSeeAckedWrites, InFlight, Undisturbed
<1> QED
  BY <1>4, <1>5, <1>6, <1>7, <1>8, <1>9 DEF PromiseInv

LEMMA AnswerInsertPromise ==
  ASSUME TypeInv, RaceInv, PromiseInv, NEW c \in Clients, req[c].pc \in GuardPcs,
         AnswerInsert(c), UNCHANGED <<manager, sent, excuses>>
  PROVE  PromiseInv'
<1> DEFINE n == req[c].name
           d == req[c].doc
<1>1. /\ InFlight(c) /\ n \in Names /\ req[c].op = "insert" /\ d \in Docs
      /\ req[c].pc \in HandlePcs \ {"register"}
      /\ UNCHANGED <<collections, paths, disk, instances, sent, raced, overwritten>>
  BY RequestFacts DEF InFlight, GuardPcs, HandlePcs, manager, excuses
<1>2. /\ req'[c].pc = "answered" /\ req'[c].op = "list"
      /\ \A b \in Clients \ {c} : req'[b] = req[b]
  BY DEF AnswerInsert, Answer, NoRequest, TypeInv, RequestsOK
<1>3. \A b \in Clients : InFlight(b)' => b # c /\ InFlight(b)
  BY <1>2 DEF InFlight
<1>4. CASE ~req[c].counts
  BY <1>1, <1>4, CalmAnswer DEF AnswerInsert, excuses
<1>5. CASE req[c].counts
  <2>1. /\ acked'[n] = acked[n] \cup {d} /\ \A m \in Names : m # n => acked'[m] = acked[m]
        /\ \A m : acked[m] \subseteq acked'[m]
    BY <1>1, <1>5 DEF AnswerInsert, TypeInv, SharedOK
  <2>2. Promised(c) /\ ~Deleting(n)
    BY <1>1, <1>5 DEF PromiseInv, NothingPromised, Promised, About, InFlight
  <2>3. NothingPromised'
    <3> SUFFICES ASSUME NEW m \in Names, Deleting(m)'
                 PROVE  acked'[m] = {} /\ \A b \in Clients : About(b, m)' => ~Promised(b)'
      BY DEF NothingPromised
    <3>1. Deleting(m) /\ m # n
      BY <1>2, <1>3, <2>2 DEF Deleting, About
    <3>2. acked[m] = {} /\ \A b \in Clients : About(b, m) => ~Promised(b)
      BY <3>1 DEF PromiseInv, NothingPromised
    <3> QED
      BY <1>2, <1>3, <2>1, <3>1, <3>2 DEF About, Promised
  <2>4. MustBeAcked'
    BY <1>2, <1>3, <2>1 DEF PromiseInv, MustBeAcked
  <2>5. ReadsNamed'
    BY <1>2 DEF PromiseInv, ReadsNamed
  <2>6. FreshDocs'
    <3>1. d \in 1..sent
      BY <1>1, NoneIsNone DEF PromiseInv, FreshDocs
    <3>2. \A m \in Names : acked'[m] \subseteq acked[m] \cup {d}
      BY <2>1
    <3>3. \A m \in Names : acked'[m] \subseteq 1..sent'
      BY <1>1, <3>1, <3>2 DEF PromiseInv, FreshDocs
    <3>4. \A b \in Clients : InFlight(b)' => req'[b].doc # d
      BY <1>1, <1>2, <1>3 DEF PromiseInv, FreshDocs
    <3>5. \A b \in Clients : InFlight(b)' /\ req'[b].op = "insert" =>
            /\ \A m \in Names : req'[b].doc \notin acked'[m]
            /\ \A a \in Clients \ {b} : InFlight(a)' => req'[a].doc # req'[b].doc
      BY <1>2, <1>3, <3>2, <3>4 DEF PromiseInv, FreshDocs
    <3>6. ASSUME NEW b \in Clients, InFlight(b)', req'[b].op = "delete"
          PROVE  req'[b].doc \notin acked'[req'[b].name]
      <4>1. InFlight(b) /\ req'[b] = req[b] /\ req[b].doc \notin acked[req[b].name]
        BY <1>2, <1>3, <3>6 DEF PromiseInv, FreshDocs
      <4>2. acked'[req[b].name] \subseteq acked[req[b].name] \cup {d}
        BY <1>1, <1>5 DEF AnswerInsert, TypeInv, SharedOK
      <4> QED
        BY <3>4, <3>6, <4>1, <4>2
    <3>7. \A b \in Clients : InFlight(b)' /\ req'[b].doc # None => req'[b].doc \in 1..sent'
      BY <1>1, <1>2, <1>3 DEF PromiseInv, FreshDocs
    <3> QED
      BY <3>3, <3>5, <3>6, <3>7 DEF FreshDocs
  <2>7. ASSUME NEW m \in Names, Undisturbed(m)' PROVE Served(m)'
    <3>1. Undisturbed(m) /\ Served(m) /\ Unraced(m)
      BY <1>1, <2>7 DEF PromiseInv, RaceInv, Undisturbed
    <3>2. TableLinked(m)' /\ HasLoaded(m)'
      BY <1>1, <1>2, <3>1
         DEF Served, TableLinked, HasLoaded, Promised, HandlePcs, GuardPcs, Handles
    <3>3. CASE m # n
      BY <1>1, <1>2, <2>1, <3>1, <3>2, <3>3
         DEF Served, Durable, Kept, OnDisk, GuardPcs, Handles
    <3>4. CASE m = n
      <4>1. /\ paths[n] # None /\ paths[n] = instances[req[c].h].file
            /\ instances[req[c].h].docs \subseteq disk[paths[n]]
        BY <1>1, <2>2, <3>1, <3>4, ServesFile
      <4>2. d \in instances[req[c].h].docs
        BY <1>1, <1>5, <3>1, <3>4 DEF Served, Durable
      <4>3. /\ req[c].h \in Handles /\ instances[req[c].h].name = n
        BY <1>1, RequestFacts DEF HandlePcs
      <4>4. \A h \in Handles : instances[h].name = n /\ instances[h].file = paths[n] => h = req[c].h
        BY <3>1, <3>4, <4>1, <4>3 DEF Unraced, Distinct
      <4>5. Durable(m)'
        BY <1>1, <1>2, <2>1, <3>1, <3>4, <4>2, <4>4 DEF Served, Durable, GuardPcs, Handles
      <4>6. Kept(m)'
        BY <1>1, <2>1, <3>1, <3>4, <4>1, <4>2 DEF Served, Kept, OnDisk
      <4> QED
        BY <3>2, <4>5, <4>6 DEF Served
    <3> QED
      BY <3>3, <3>4
  <2>8. ReadsSeeAckedWrites'
    BY <1>1, <1>2 DEF PromiseInv, ReadsSeeAckedWrites, InFlight, Undisturbed
  <2> QED
    BY <2>3, <2>4, <2>5, <2>6, <2>7, <2>8 DEF PromiseInv
<1> QED
  BY <1>4, <1>5

-----------------------------------------------------------------------------
(* Documents are written.                                                  *)

\* The collection that h stands for has ds in memory then, and its file saved.
Writes(h, ds, saved) ==
  LET f == instances[h].file IN
  /\ h \in Handles /\ f \in DOMAIN disk /\ Handles' = Handles
  /\ instances'[h].docs = ds /\ disk'[f] = saved
  /\ \A k \in Handles : /\ instances'[k].name = instances[k].name
                        /\ instances'[k].file = instances[k].file
  /\ \A k \in Handles : k # h => instances'[k].docs = instances[k].docs
  /\ \A g : g # f => disk'[g] = disk[g]

\* What a write to the collection c has does.
LEMMA SetDocsEffect ==
  ASSUME TypeInv, NEW c \in Clients, req[c].pc = "use", NEW ds, NEW logged,
         SetDocs(c, ds, logged)
  PROVE  \E saved \in {ds, logged} : Writes(req[c].h, ds, saved)
<1> DEFINE h == req[c].h
           f == instances[h].file
<1>1. h \in Handles /\ instances[h] \in Instance /\ f \in DOMAIN disk
  BY RequestFacts, OpenedInstance DEF HandlePcs, Handles
<1>2. /\ instances' = [instances EXCEPT ![h] = [instances[h] EXCEPT !.docs = ds]]
      /\ \E saved \in {ds, logged} : disk' = [disk EXCEPT ![f] = saved]
  BY DEF SetDocs
<1>3. PICK saved \in {ds, logged} : disk' = [disk EXCEPT ![f] = saved]
  BY <1>2
<1>4. /\ disk = [g \in DOMAIN disk |-> disk[g]]
      /\ instances = [k \in Handles |-> instances[k]]
  BY DEF TypeInv, SharedOK, Handles
<1> HIDE DEF h, f
<1>5. Handles' = Handles /\ disk'[f] = saved /\ \A g : g # f => disk'[g] = disk[g]
  BY <1>1, <1>2, <1>3, <1>4 DEF Handles
<1>6. /\ instances'[h] = [instances[h] EXCEPT !.docs = ds]
      /\ \A k \in Handles : k # h => instances'[k] = instances[k]
  BY <1>1, <1>2, <1>4 DEF Handles
<1>7. /\ instances'[h].docs = ds /\ instances'[h].name = instances[h].name
      /\ instances'[h].file = instances[h].file
  BY <1>1, <1>6 DEF Instance
<1>8. Writes(h, ds, saved)
  BY <1>1, <1>5, <1>6, <1>7 DEF Writes, f
<1> QED
  BY <1>8 DEF h

\* One that leaves memory alone: a document refused, a compaction.
LEMMA DiskEffect ==
  ASSUME TypeInv, NEW c \in Clients, req[c].pc = "use", NEW saved,
         disk' = [disk EXCEPT ![instances[req[c].h].file] = saved], UNCHANGED instances
  PROVE  Writes(req[c].h, instances[req[c].h].docs, saved)
<1> DEFINE h == req[c].h
           f == instances[h].file
<1>1. h \in Handles /\ f \in DOMAIN disk
  BY RequestFacts, OpenedInstance DEF HandlePcs, Handles
<1>2. disk = [g \in DOMAIN disk |-> disk[g]]
  BY DEF TypeInv, SharedOK
<1> HIDE DEF h, f
<1>3. disk'[f] = saved /\ \A g : g # f => disk'[g] = disk[g]
  BY <1>1, <1>2 DEF h, f
<1> QED
  BY <1>1, <1>3 DEF Writes, Handles, h, f

\* The table, the files' names and what each collection's file holds stay in step.
LEMMA WritesServed ==
  ASSUME TypeInv, RaceInv, PromiseInv, NEW c \in Clients, req[c].pc = "use",
         NEW ds, NEW saved, Writes(req[c].h, ds, saved), UNCHANGED <<collections, paths, acked>>,
         \A b \in Clients \ {c} : req'[b] = req[b],
         req'[c].pc \in {"budget", "answered"},
         req'[c].pc = "budget" => /\ req'[c].h = req[c].h /\ req'[c].name = req[c].name
                                  /\ (Promised(c)' => Promised(c))
                                  /\ req'[c].doc \in ds,
         acked[req[c].name] \cap instances[req[c].h].docs \subseteq ds,
         \A b \in Clients \ {c} : req[b].pc \in GuardPcs =>
           req[b].h # req[c].h \/ instances[req[c].h].docs \subseteq ds,
         NEW n \in Names, Undisturbed(n),
         n = req[c].name => ds \subseteq saved
  PROVE  Served(n)'
<1> DEFINE h == req[c].h
           f == instances[h].file
<1>1. /\ h \in Handles /\ f \in DOMAIN disk /\ Handles' = Handles
      /\ instances'[h].docs = ds /\ disk'[f] = saved
      /\ \A k \in Handles : /\ instances'[k].name = instances[k].name
                            /\ instances'[k].file = instances[k].file
      /\ \A k \in Handles : k # h => instances'[k].docs = instances[k].docs
      /\ \A g : g # f => disk'[g] = disk[g]
  BY DEF Writes
<1>2. Served(n) /\ Unraced(n) /\ collections[n] \in Handles \cup {None}
  BY DEF PromiseInv, RaceInv, TypeInv, SharedOK
<1>3. \A b \in Clients : req[b].pc \in HandlePcs => req[b].h \in Handles
  BY RequestFacts
<1>4. instances[h].name = req[c].name /\ req[c].name \in Names
  BY RequestFacts DEF HandlePcs
<1>5. TableLinked(n)'
  BY <1>1, <1>2, <1>3 DEF Served, TableLinked, HandlePcs
<1>6. HasLoaded(n)'
  BY <1>2 DEF Served, HasLoaded, Promised, HandlePcs
<1>7. ASSUME NEW k \in Handles, instances[k].name = n
      PROVE  /\ instances'[k].docs \subseteq disk'[instances'[k].file]
             /\ instances'[k].file = paths'[n] => acked'[n] \subseteq instances'[k].docs
  <2>1. /\ instances[k].docs \subseteq disk[instances[k].file]
        /\ instances[k].file = paths[n] => acked[n] \subseteq instances[k].docs
    BY <1>2, <1>7 DEF Served, Durable
  <2>2. CASE k = h
    <3>1. n = req[c].name
      BY <1>4, <1>7, <2>2
    <3>2. instances'[k].docs = ds /\ instances'[k].file = f /\ disk'[f] = saved
      BY <1>1, <2>2
    <3> HIDE DEF h, f
    <3> QED
      BY <2>1, <2>2, <3>1, <3>2 DEF h, f
  <2>3. CASE k # h
    <3>1. instances[k].file # f
      BY <1>1, <1>2, <1>7, <2>3 DEF RaceInv, OneName, Unraced, Distinct
    <3> HIDE DEF h, f
    <3> QED
      BY <1>1, <2>1, <2>3, <3>1
  <2> QED
    BY <2>2, <2>3
<1>8. Durable(n)'
  <2>1. ASSUME NEW b \in Clients, req'[b].pc \in GuardPcs, req'[b].name = n, req'[b].counts
        PROVE  req'[b].doc \in instances'[req'[b].h].docs
    <3>1. CASE b = c
      BY <1>1, <2>1, <3>1 DEF GuardPcs
    <3>2. CASE b # c
      <4>1. req'[b] = req[b] /\ req[b].h \in Handles
        BY <1>3, <2>1, <3>2 DEF GuardPcs, HandlePcs
      <4>2. req[b].doc \in instances[req[b].h].docs
        BY <1>2, <2>1, <4>1 DEF Served, Durable
      <4>3. req[b].h # h \/ instances[h].docs \subseteq ds
        BY <2>1, <3>2, <4>1
      <4> HIDE DEF h, f
      <4> QED
        BY <1>1, <4>1, <4>2, <4>3
    <3> QED
      BY <3>1, <3>2
  <2> QED
    BY <1>1, <1>7, <2>1 DEF Durable
<1>9. Kept(n)'
  <2>1. CASE paths[n] = f
    <3>1. n = req[c].name
      BY <1>1, <1>4, <2>1 DEF RaceInv, OneName
    <3>2. acked[n] \subseteq instances[h].docs /\ f # None
      BY <1>1, <1>2, <1>4, <2>1, <3>1, NoneIsNone DEF Served, Durable
    <3>3. acked[n] \subseteq ds
      BY <3>1, <3>2
    <3> HIDE DEF h, f
    <3> QED
      BY <1>1, <2>1, <3>1, <3>2, <3>3 DEF Kept, OnDisk
  <2>2. CASE paths[n] # f
    <3> HIDE DEF h, f
    <3> QED
      BY <1>1, <1>2, <2>2 DEF Served, Kept, OnDisk
  <2> QED
    BY <2>1, <2>2
<1> QED
  BY <1>5, <1>6, <1>8, <1>9 DEF Served

\* The rest of the invariant looks only at what the requests are about.
LEMMA OneMovesPromise ==
  ASSUME TypeInv, PromiseInv, NEW c \in Clients, InFlight(c),
         UNCHANGED <<acked, sent>>, \A n \in Names : Undisturbed(n)' => Undisturbed(n),
         \A b \in Clients \ {c} : req'[b] = req[b],
         \/ req'[c].pc = "answered" /\ req'[c].op # "read"
         \/ /\ req'[c].pc # "answered" /\ req'[c].op = req[c].op /\ req'[c].name = req[c].name
            /\ req'[c].doc = req[c].doc /\ req'[c].must = req[c].must
            /\ req'[c].counts = req[c].counts,
         \A n \in Names : Undisturbed(n)' => Served(n)'
  PROVE  PromiseInv'
<1>1. NothingPromised'
  <2>1. \A n \in Names : Deleting(n)' => Deleting(n)
    BY DEF Deleting, About, InFlight
  <2>2. \A n \in Names, b \in Clients :
          About(b, n)' => About(b, n) /\ (Promised(b)' => Promised(b))
    BY DEF About, InFlight, Promised
  <2> QED
    BY <2>1, <2>2 DEF NothingPromised, PromiseInv
<1>2. MustBeAcked'
  BY DEF MustBeAcked, PromiseInv, InFlight
<1>3. ReadsNamed'
  BY DEF ReadsNamed, PromiseInv
<1>4. FreshDocs'
  <2>1. \A b \in Clients : InFlight(b)' =>
          /\ InFlight(b) /\ req'[b].op = req[b].op /\ req'[b].doc = req[b].doc
          /\ req'[b].name = req[b].name
    BY DEF InFlight
  <2> QED
    BY <2>1 DEF FreshDocs, PromiseInv
<1>5. ReadsSeeAckedWrites'
  <2> SUFFICES ASSUME NEW b \in Clients, ~InFlight(b)', req'[b].op = "read",
                      ~raced'[req'[b].name], ~overwritten'[req'[b].name]
               PROVE  req'[b].must \subseteq req'[b].seen
    BY DEF ReadsSeeAckedWrites, Undisturbed
  <2>1. b # c /\ req'[b] = req[b] /\ req[b].name \in Names /\ ~InFlight(b)
    BY DEF InFlight, PromiseInv, ReadsNamed
  <2>2. Undisturbed(req[b].name)
    BY <2>1 DEF Undisturbed
  <2> QED
    BY <2>1, <2>2 DEF PromiseInv, ReadsSeeAckedWrites
<1> QED
  BY <1>1, <1>2, <1>3, <1>4, <1>5 DEF PromiseInv

\* c has the guard of its collection to itself.
LEMMA TakesGuardAlone ==
  ASSUME TypeInv, NEW c \in Clients, NEW op, TakesGuard(c, op)
  PROVE  /\ req[c].pc = "use" /\ req[c].op = op /\ InFlight(c)
         /\ req[c].name \in Names /\ req[c].h \in Handles
         /\ instances[req[c].h].name = req[c].name
         /\ \A b \in Clients : req[b].pc \in GuardPcs => req[b].h # req[c].h
BY RequestFacts DEF TakesGuard, Locked, InFlight, HandlePcs

LEMMA AnswersPromise ==
  ASSUME TypeInv, NEW c \in Clients, Answer(c)
  PROVE  /\ req'[c].pc = "answered" /\ req'[c].op = "list"
         /\ \A b \in Clients \ {c} : req'[b] = req[b]
BY DEF Answer, NoRequest, TypeInv, RequestsOK

\* Memory holds no more than the file, both before and after.
LEMMA StoredServed ==
  ASSUME TypeInv, RaceInv, PromiseInv, NEW c \in Clients, Stored(c),
         \A b \in Clients \ {c} : req'[b] = req[b],
         req'[c].pc \in {"budget", "answered"},
         req'[c].pc = "budget" => /\ req'[c].h = req[c].h /\ req'[c].name = req[c].name
                                  /\ (Promised(c)' => Promised(c))
                                  /\ req'[c].doc = req[c].doc
  PROVE  /\ \A n \in Names : Undisturbed(n)' => Undisturbed(n)
         /\ \A n \in Names : Undisturbed(n)' => Served(n)'
<1> DEFINE h == req[c].h
           ds == instances[h].docs \cup {req[c].doc}
           logged == disk[instances[h].file] \cup {req[c].doc}
<1>1. /\ req[c].pc = "use" /\ SetDocs(c, ds, logged) /\ h \in Handles
      /\ instances[h].name = req[c].name
      /\ UNCHANGED <<collections, paths, acked, raced>>
      /\ \A b \in Clients : req[b].pc \in GuardPcs => req[b].h # h
  BY TakesGuardAlone DEF Stored
<1>2. \A n \in Names : Undisturbed(n)' => Undisturbed(n)
  BY <1>1, SavedDisturbs DEF SetDocs
<1>3. /\ req[c].doc \in ds /\ acked[req[c].name] \cap instances[h].docs \subseteq ds
      /\ instances[h].docs \subseteq ds
      /\ instances[h].docs \subseteq disk[instances[h].file] => ds \subseteq logged
  OBVIOUS
<1> HIDE DEF ds, logged
<1>4. PICK saved \in {ds, logged} : Writes(h, ds, saved)
  BY <1>1, SetDocsEffect
<1>5. ASSUME NEW n \in Names, Undisturbed(n)' PROVE Served(n)'
  <2>1. Undisturbed(n) /\ Served(n)
    BY <1>2, <1>5 DEF PromiseInv
  <2>2. n = req[c].name => ds \subseteq saved
    BY <1>1, <1>3, <1>4, <2>1 DEF Served, Durable
  <2> QED
    BY <1>1, <1>3, <1>4, <2>1, <2>2, WritesServed
<1> QED
  BY <1>2, <1>5

LEMMA InsertPromise ==
  ASSUME TypeInv, RaceInv, PromiseInv, NEW c \in Clients, Insert(c)
  PROVE  PromiseInv'
<1>1. /\ InFlight(c) /\ Stored(c) /\ UNCHANGED <<sent, acked>>
  BY TakesGuardAlone DEF Insert, Stored
<1>2. /\ req'[c] = [req[c] EXCEPT !.pc = "budget"]
      /\ \A b \in Clients \ {c} : req'[b] = req[b]
  BY DEF Insert, Goto, TypeInv, RequestsOK
<1>3. /\ req'[c].pc = "budget" /\ req'[c].op = req[c].op /\ req'[c].name = req[c].name
      /\ req'[c].doc = req[c].doc /\ req'[c].must = req[c].must
      /\ req'[c].counts = req[c].counts /\ req'[c].h = req[c].h
  BY <1>2, RequestFacts DEF RequestType
<1>4. /\ \A n \in Names : Undisturbed(n)' => Undisturbed(n)
      /\ \A n \in Names : Undisturbed(n)' => Served(n)'
  BY <1>1, <1>2, <1>3, StoredServed DEF Promised
<1> QED
  BY <1>1, <1>2, <1>3, <1>4, OneMovesPromise

LEMMA InsertBreaksOffPromise ==
  ASSUME TypeInv, RaceInv, PromiseInv, NEW c \in Clients, InsertBreaksOff(c)
  PROVE  PromiseInv'
<1>1. /\ InFlight(c) /\ Stored(c) /\ UNCHANGED <<sent, acked>>
  BY TakesGuardAlone DEF InsertBreaksOff, Stored
<1>2. /\ req'[c].pc = "answered" /\ req'[c].op = "list"
      /\ \A b \in Clients \ {c} : req'[b] = req[b]
  BY AnswersPromise DEF InsertBreaksOff
<1>3. /\ \A n \in Names : Undisturbed(n)' => Undisturbed(n)
      /\ \A n \in Names : Undisturbed(n)' => Served(n)'
  BY <1>1, <1>2, StoredServed
<1> QED
  BY <1>1, <1>2, <1>3, OneMovesPromise

\* The file alone is written, and it still has all that is served.
LEMMA DiskPromise ==
  ASSUME TypeInv, RaceInv, PromiseInv, NEW c \in Clients, NEW op, TakesGuard(c, op), Answer(c),
         NEW saved, disk' = [disk EXCEPT ![instances[req[c].h].file] = saved],
         \/ instances[req[c].h].docs \subseteq saved
         \/ disk[instances[req[c].h].file] \subseteq saved,
         UNCHANGED <<collections, paths, instances, sent, acked>>,
         \A n \in Names : Undisturbed(n)' => Undisturbed(n)
  PROVE  PromiseInv'
<1> DEFINE h == req[c].h
           ds == instances[h].docs
<1>1. /\ req[c].pc = "use" /\ InFlight(c) /\ h \in Handles /\ instances[h].name = req[c].name
  BY TakesGuardAlone
<1>2. /\ req'[c].pc = "answered" /\ req'[c].op = "list"
      /\ \A b \in Clients \ {c} : req'[b] = req[b]
  BY AnswersPromise
<1>3. Writes(h, ds, saved)
  BY <1>1, DiskEffect
<1>4. acked[req[c].name] \cap instances[h].docs \subseteq ds /\ instances[h].docs \subseteq ds
  OBVIOUS
<1>5. ASSUME NEW n \in Names, Undisturbed(n)' PROVE Served(n)'
  <2>1. Undisturbed(n) /\ Served(n)
    BY <1>5 DEF PromiseInv
  <2>2. n = req[c].name => ds \subseteq saved
    BY <1>1, <2>1 DEF Served, Durable
  <2> HIDE DEF ds
  <2> QED
    BY <1>1, <1>2, <1>3, <1>4, <2>1, <2>2, WritesServed
<1> QED
  BY <1>1, <1>2, <1>5, OneMovesPromise

LEMMA InsertRefusedPromise ==
  ASSUME TypeInv, RaceInv, PromiseInv, NEW c \in Clients, InsertRefused(c)
  PROVE  PromiseInv'
<1> DEFINE f == instances[req[c].h].file
           saved == disk[f] \cup {req[c].doc}
<1>1. /\ TakesGuard(c, "insert") /\ Answer(c) /\ disk' = [disk EXCEPT ![f] = saved]
      /\ UNCHANGED <<collections, paths, instances, sent, acked, raced>>
      /\ SavedByPath(req[c].h)
  BY DEF InsertRefused
<1>2. disk[f] \subseteq saved
  OBVIOUS
<1>3. \A n \in Names : Undisturbed(n)' => Undisturbed(n)
  BY <1>1, SavedDisturbs
<1> HIDE DEF saved
<1> QED
  BY <1>1, <1>2, <1>3, DiskPromise

LEMMA CompactOwnPromise ==
  ASSUME TypeInv, RaceInv, PromiseInv, NEW c \in Clients, CompactOwn(c)
  PROVE  PromiseInv'
<1> DEFINE saved == instances[req[c].h].docs
<1>1. /\ TakesGuard(c, "compact") /\ Answer(c)
      /\ disk' = [disk EXCEPT ![instances[req[c].h].file] = saved]
      /\ UNCHANGED <<collections, paths, instances, sent, acked, raced, overwritten>>
  BY DEF CompactOwn, history
<1>2. \A n \in Names : Undisturbed(n)' => Undisturbed(n)
  BY <1>1 DEF Undisturbed
<1> QED
  BY <1>1, <1>2, DiskPromise

\* The other collections and their files stay what they are.
LEMMA CompactOtherPromise ==
  ASSUME TypeInv, RaceInv, PromiseInv, NEW c \in Clients, CompactOther(c)
  PROVE  PromiseInv'
<1> DEFINE n == req[c].name
           h == req[c].h
           file == Len(disk) + 1
<1>1. /\ req[c].pc = "use" /\ n \in Names /\ h \in Handles /\ instances[h].name = n
      /\ \A f \in DOMAIN disk : disk'[f] = disk[f]
      /\ paths' = [paths EXCEPT ![n] = file]
      /\ overwritten' = [overwritten EXCEPT ![n] = TRUE]
      /\ Handles' = Handles
      /\ \A k \in Handles : /\ instances'[k].name = instances[k].name
                            /\ instances'[k].docs = instances[k].docs
                            /\ \/ instances'[k].file = instances[k].file
                               \/ k = h /\ instances'[k].file = file
      /\ req' = [req EXCEPT ![c] = NoRequest]
      /\ UNCHANGED <<collections, sent, acked, raced>>
  BY CompactOtherEffect
<1>2. /\ paths \in [Names -> DOMAIN disk \cup {None}]
      /\ overwritten \in [Names -> BOOLEAN]
      /\ collections \in [Names -> Handles \cup {None}]
      /\ \A k \in Handles : instances[k].file \in DOMAIN disk
      /\ \A b \in Clients : req[b].pc \in HandlePcs => req[b].h \in Handles
  BY OpenedInstance, RequestFacts DEF TypeInv, SharedOK, Handles
<1>3. /\ req'[c].pc = "answered" /\ req'[c].op = "list" /\ InFlight(c)
      /\ \A b \in Clients \ {c} : req'[b] = req[b]
  BY <1>1 DEF NoRequest, InFlight, TypeInv, RequestsOK
<1> HIDE DEF file, h
<1>4. \A m \in Names : Undisturbed(m)' => m # n /\ Undisturbed(m)
  BY <1>1, <1>2 DEF Undisturbed
<1>5. ASSUME NEW m \in Names, Undisturbed(m)' PROVE Served(m)'
  <2>1. m # n /\ Served(m) /\ paths'[m] = paths[m]
    BY <1>1, <1>2, <1>4, <1>5 DEF PromiseInv
  <2>2. \A k \in Handles : instances[k].name = m => instances'[k].file = instances[k].file
    BY <1>1, <2>1
  <2>3. \A b \in Clients : req[b].pc \in HandlePcs /\ req[b].name = m => instances[req[b].h].name = m
    BY RequestFacts
  <2>4. TableLinked(m)'
    <3>1. collections[m] # None => instances[collections[m]].name = m
      BY <1>1, <1>2, <2>1, RequestFacts DEF Served, TableLinked, RaceInv, OneName
    <3>2. \A b \in Clients : req'[b].pc = "register" /\ req'[b].name = m =>
            instances'[req'[b].h].file = paths'[m]
      BY <1>2, <1>3, <2>1, <2>2, <2>3 DEF Served, TableLinked, HandlePcs
    <3>3. collections'[m] # None => instances'[collections'[m]].file = paths'[m]
      BY <1>1, <1>2, <2>1, <2>2, <3>1 DEF Served, TableLinked
    <3> QED
      BY <1>1, <1>3, <2>1, <3>2, <3>3 DEF Served, TableLinked
  <2>5. HasLoaded(m)'
    BY <1>1, <1>3, <2>1 DEF Served, HasLoaded, Promised, HandlePcs
  <2>6. Durable(m)'
    BY <1>1, <1>2, <1>3, <2>1, <2>2, <2>3 DEF Served, Durable, GuardPcs, HandlePcs
  <2>7. Kept(m)'
    BY <1>1, <1>2, <2>1 DEF Served, Kept, OnDisk
  <2> QED
    BY <2>4, <2>5, <2>6, <2>7 DEF Served
<1>6. \A m \in Names : Undisturbed(m)' => Undisturbed(m)
  BY <1>4
<1> QED
  BY <1>1, <1>3, <1>5, <1>6, OneMovesPromise

LEMMA DeletePromise ==
  ASSUME TypeInv, RaceInv, PromiseInv, NEW c \in Clients, Delete(c)
  PROVE  PromiseInv'
<1> DEFINE h == req[c].h
           ds == instances[h].docs \ {req[c].doc}
           logged == disk[instances[h].file] \ {req[c].doc}
<1>1. /\ req[c].pc = "use" /\ req[c].op = "delete" /\ InFlight(c) /\ h \in Handles
      /\ SetDocs(c, ds, logged) /\ instances[h].name = req[c].name
      /\ UNCHANGED <<collections, paths, sent, acked, raced>>
      /\ \A b \in Clients : req[b].pc \in GuardPcs => req[b].h # h
  BY TakesGuardAlone DEF Delete
<1>2. /\ req'[c].pc = "answered" /\ req'[c].op = "list"
      /\ \A b \in Clients \ {c} : req'[b] = req[b]
  BY AnswersPromise DEF Delete
<1>3. /\ acked[req[c].name] \cap instances[h].docs \subseteq ds
      /\ instances[h].docs \subseteq disk[instances[h].file] => ds \subseteq logged
  BY <1>1 DEF PromiseInv, FreshDocs
<1> HIDE DEF ds, logged
<1>4. \A n \in Names : Undisturbed(n)' => Undisturbed(n)
  BY <1>1, SavedDisturbs DEF SetDocs
<1>5. PICK saved \in {ds, logged} : Writes(h, ds, saved)
  BY <1>1, SetDocsEffect
<1>6. ASSUME NEW n \in Names, Undisturbed(n)' PROVE Served(n)'
  <2>1. Undisturbed(n) /\ Served(n)
    BY <1>4, <1>6 DEF PromiseInv
  <2>2. n = req[c].name => ds \subseteq saved
    BY <1>1, <1>3, <1>5, <2>1 DEF Served, Durable
  <2> QED
    BY <1>1, <1>2, <1>3, <1>5, <2>1, <2>2, WritesServed
<1> QED
  BY <1>1, <1>2, <1>4, <1>6, OneMovesPromise

-----------------------------------------------------------------------------
(* The table and the names of the files change.                            *)

LEMMA OpenPromise ==
  ASSUME TypeInv, RaceInv, PromiseInv, NEW c \in Clients, Open(c)
  PROVE  PromiseInv'
<1> DEFINE n == req[c].name
           k == Len(instances) + 1
           file == IF paths[n] = None THEN Len(disk) + 1 ELSE paths[n]
           docs == disk'[file]
<1>1. /\ req[c].pc = "open" /\ n \in Names
      /\ Handles' = Handles \cup {k} /\ k \notin Handles
      /\ \A h \in Handles : instances'[h] = instances[h] /\ instances[h].file \in DOMAIN disk
      /\ paths' = [paths EXCEPT ![n] = file] /\ Len(disk) + 1 \notin DOMAIN disk
      /\ \A f \in DOMAIN disk \ {file} : disk'[f] = disk[f]
      /\ ~overwritten[n] => disk'[file] = IF paths[n] = None THEN {} ELSE disk[file]
      /\ req'[c].pc = "register" /\ req'[c].name = n /\ req'[c].op = req[c].op
      /\ req'[c].h = k /\ req'[c].doc = req[c].doc
      /\ req'[c].must = req[c].must /\ req'[c].counts = req[c].counts
      /\ \A b \in Clients \ {c} : req'[b] = req[b]
  BY OpenEffect
<1>2. UNCHANGED <<collections, sent, acked, raced, overwritten>>
  BY OpenEffect DEF history
<1>3. instances'[k] = [name |-> n, file |-> file, docs |-> docs]
  BY OpenEffect
<1> HIDE DEF docs
<1>4. instances'[k].name = n /\ instances'[k].file = file /\ instances'[k].docs = docs
  BY <1>3
<1>5. /\ paths \in [Names -> DOMAIN disk \cup {None}]
      /\ collections \in [Names -> Handles \cup {None}]
  BY DEF TypeInv, SharedOK
<1>6. \A b \in Clients : req[b].pc \in HandlePcs => req[b].h \in Handles
  BY RequestFacts
<1>7. Opens(c, n) /\ Opening(n) /\ InFlight(c)
  BY <1>1 DEF Opens, Opening, About, InFlight, OpeningPcs
<1>8. (paths[n] # None => file = paths[n]) /\ (paths[n] = None => file \notin DOMAIN disk)
  BY <1>1
<1>10. \A m \in Names : Undisturbed(m)' => Undisturbed(m)
  BY <1>2 DEF Undisturbed
<1>11. file # None
  <2>1. disk \in Seq(SUBSET Docs)
    BY DEF TypeInv, SharedOK
  <2>2. Len(disk) + 1 \in Nat
    BY <2>1
  <2> QED
    BY <2>2, ConstantsAssumption
<1> HIDE DEF k, file
<1>9. ASSUME NEW m \in Names, Undisturbed(m)' PROVE Served(m)'
  <2>1. Undisturbed(m) /\ Served(m) /\ Unraced(m)
    BY <1>9, <1>10 DEF PromiseInv, RaceInv
  <2>2. m = n => collections[m] = None /\ ~Deleting(m)
    BY <1>7, <2>1 DEF Unraced, Alone
  <2>3. \A b \in Clients : b # c /\ req[b].pc = "register" => req[b].name # m \/ m # n
    BY <1>7, <2>1 DEF Unraced, Alone, Opens, OpeningPcs
  <2>4. TableLinked(m)'
    BY <1>1, <1>2, <1>4, <1>5, <1>6, <2>1, <2>2, <2>3
       DEF Served, TableLinked, HandlePcs
  <2>5. HasLoaded(m)'
    BY <1>1, <1>2, <2>1 DEF Served, HasLoaded, Promised
  \* What is opened has nothing else than it had, and the others have no part in it.
  <2>6. m = n => /\ \A f \in DOMAIN disk : disk'[f] = disk[f]
                 /\ acked[n] \subseteq docs
    BY <1>1, <1>8, <2>1 DEF Undisturbed, Served, Kept, OnDisk, docs
  <2>7. \A h \in Handles : instances[h].name = m =>
          disk'[instances[h].file] = disk[instances[h].file]
    <3> SUFFICES ASSUME NEW h \in Handles, instances[h].name = m
                 PROVE  disk'[instances[h].file] = disk[instances[h].file]
      OBVIOUS
    <3>1. m # n => instances[h].file # file
      BY <1>1, <1>8 DEF RaceInv, OneName
    <3> QED
      BY <1>1, <2>6, <3>1
  <2>8. \A h \in Handles : instances[h].name = m =>
          (instances[h].file = paths'[m] <=> instances[h].file = paths[m])
    BY <1>1, <1>5, <1>8, NoneIsNone
  <2>9. Durable(m)'
    <3>1. \A h \in Handles' : instances'[h].name = m =>
            /\ instances'[h].docs \subseteq disk'[instances'[h].file]
            /\ instances'[h].file = paths'[m] => acked'[m] \subseteq instances'[h].docs
      <4>1. ASSUME NEW h \in Handles, instances[h].name = m
            PROVE  /\ instances[h].docs \subseteq disk'[instances[h].file]
                   /\ instances[h].file = paths'[m] => acked[m] \subseteq instances[h].docs
        BY <2>1, <2>7, <2>8, <4>1 DEF Served, Durable
      <4>2. m = n => docs \subseteq disk'[file] /\ acked[m] \subseteq docs
        BY <2>6 DEF docs
      <4> QED
        BY <1>1, <1>2, <1>4, <4>1, <4>2
    <3>2. \A b \in Clients : req'[b].pc \in GuardPcs => b # c /\ req[b].h \in Handles
      BY <1>1, <1>6 DEF GuardPcs, HandlePcs
    <3>3. \A b \in Clients : req'[b].pc \in GuardPcs /\ req'[b].name = m /\ req'[b].counts =>
            req'[b].doc \in instances'[req'[b].h].docs
      BY <1>1, <2>1, <3>2 DEF Served, Durable
    <3> QED
      BY <3>1, <3>3 DEF Durable
  <2>10. Kept(m)'
    <3>1. CASE m = n
      <4>1. paths'[m] = file
        BY <1>1, <1>5, <3>1
      <4> QED
        BY <1>2, <1>11, <2>6, <3>1, <4>1 DEF Kept, OnDisk, docs
    <3>2. CASE m # n
      <4>1. paths'[m] = paths[m]
        BY <1>1, <1>5, <3>2
      <4>2. paths[m] # None => paths[m] \in DOMAIN disk /\ paths[m] # file
        BY <1>1, <1>5, <1>8, <3>2 DEF RaceInv, OneName
      <4> QED
        BY <1>1, <1>2, <2>1, <4>1, <4>2 DEF Served, Kept, OnDisk
    <3> QED
      BY <3>1, <3>2
  <2> QED
    BY <2>4, <2>5, <2>9, <2>10 DEF Served
<1> QED
  BY <1>1, <1>2, <1>7, <1>9, <1>10, OneMovesPromise

LEMMA RegisterPromise ==
  ASSUME TypeInv, RaceInv, PromiseInv, NEW c \in Clients, Register(c)
  PROVE  PromiseInv'
<1> DEFINE n == req[c].name
           q == [req[c] EXCEPT !.pc = WithHandle(c)]
<1>1. /\ req[c].pc = "register" /\ n \in Names /\ req[c].h \in Handles
      /\ UNCHANGED <<instances, paths, disk, sent, acked, raced, overwritten>>
      /\ collections' = [collections EXCEPT ![n] = req[c].h]
      /\ collections \in [Names -> Handles \cup {None}]
  BY RequestFacts DEF Register, HandlePcs, history, TypeInv, SharedOK
<1>2. /\ q.pc \in {"running", "use"} /\ q.op = req[c].op /\ q.name = n /\ q.doc = req[c].doc
      /\ q.must = req[c].must /\ q.counts = req[c].counts /\ q.h = req[c].h
  BY RequestFacts DEF RequestType, WithHandle
<1>3. req'[c] = q /\ \A b \in Clients \ {c} : req'[b] = req[b]
  BY DEF Register, Goto, TypeInv, RequestsOK
<1> HIDE DEF q
<1>4. Opens(c, n) /\ Opening(n) /\ InFlight(c)
  BY <1>1 DEF Opens, Opening, About, InFlight, OpeningPcs
<1>5. ASSUME NEW m \in Names, Undisturbed(m)' PROVE Served(m)'
  <2>1. Served(m) /\ Unraced(m)
    BY <1>1, <1>5 DEF PromiseInv, RaceInv, Undisturbed
  <2>2. m = n => collections[m] = None /\ ~Deleting(m)
    BY <1>4, <2>1 DEF Unraced, Alone
  <2>3. m = n => \A b \in Clients : ~(req[b].pc = "unlink" /\ req[b].name = m)
    BY <2>2, RequestFacts DEF Deleting, About, InFlight
  <2>4. TableLinked(m)'
    BY <1>1, <1>2, <1>3, <2>1, <2>3 DEF Served, TableLinked
  <2>5. HasLoaded(m)'
    <3>1. CASE m = n
      <4>1. \A b \in Clients : ~(req[b].pc \in HandlePcs \ {"register"} /\ req[b].name = m /\ Promised(b))
        BY <2>1, <2>2, <3>1, RequestFacts, NoneIsNone DEF Served, HasLoaded
      <4> QED
        BY <1>1, <1>2, <1>3, <3>1, <4>1 DEF HasLoaded, Promised
    <3>2. CASE m # n
      BY <1>1, <1>2, <1>3, <2>1, <3>2 DEF Served, HasLoaded, Promised
    <3> QED
      BY <3>1, <3>2
  <2>6. Durable(m)' /\ Kept(m)'
    BY <1>1, <1>2, <1>3, <2>1 DEF Served, Durable, Kept, OnDisk, GuardPcs, Handles
  <2> QED
    BY <2>4, <2>5, <2>6 DEF Served
<1>6. q.pc # "answered"
  BY <1>2
<1>7. \A m \in Names : Undisturbed(m)' => Undisturbed(m)
  BY <1>1 DEF Undisturbed
<1> QED
  BY <1>1, <1>2, <1>3, <1>4, <1>5, <1>6, <1>7, OneMovesPromise

LEMMA RemovePromise ==
  ASSUME TypeInv, RaceInv, PromiseInv, NEW c \in Clients, Remove(c)
  PROVE  PromiseInv'
<1> DEFINE n == req[c].name
<1>1. /\ req[c].pc = "remove" /\ n \in Names /\ InFlight(c) /\ Deleting(n)
      /\ UNCHANGED <<instances, paths, disk, sent, acked, raced, overwritten>>
      /\ collections' = [collections EXCEPT ![n] = None]
      /\ collections \in [Names -> Handles \cup {None}]
  BY RequestFacts DEF Remove, history, TypeInv, SharedOK, Deleting, About, InFlight
<1>2. CASE collections[n] = None /\ Answer(c)
  <2>1. collections' = collections
    BY <1>1, <1>2
  <2> QED
    BY <1>1, <1>2, <2>1, CalmAnswer DEF excuses
<1>3. CASE Goto(c, "unlink")
  <2> DEFINE q == [req[c] EXCEPT !.pc = "unlink"]
  <2>1. /\ q.pc = "unlink" /\ q.op = req[c].op /\ q.name = n /\ q.doc = req[c].doc
        /\ q.must = req[c].must /\ q.counts = req[c].counts
    BY RequestFacts DEF RequestType
  <2>2. req'[c] = q /\ \A b \in Clients \ {c} : req'[b] = req[b]
    BY <1>3 DEF Goto, TypeInv, RequestsOK
  <2> HIDE DEF q
  <2>3. ASSUME NEW m \in Names, Undisturbed(m)' PROVE Served(m)'
    <3>1. Served(m)
      BY <1>1, <2>3 DEF PromiseInv, Undisturbed
    <3>2. TableLinked(m)'
      BY <1>1, <2>1, <2>2, <3>1 DEF Served, TableLinked
    <3>3. m = n => \A b \in Clients : req[b].name = m /\ req[b].pc \in HandlePcs => ~Promised(b)
      BY <1>1 DEF PromiseInv, NothingPromised, About, InFlight, HandlePcs
    <3>4. HasLoaded(m)'
      BY <1>1, <2>1, <2>2, <3>1, <3>3 DEF Served, HasLoaded, Promised, HandlePcs
    <3>5. Durable(m)' /\ Kept(m)'
      BY <1>1, <2>1, <2>2, <3>1 DEF Served, Durable, Kept, OnDisk, GuardPcs, Handles
    <3> QED
      BY <3>2, <3>4, <3>5 DEF Served
  <2>4. q.pc # "answered"
    BY <2>1
  <2>5. \A m \in Names : Undisturbed(m)' => Undisturbed(m)
    BY <1>1 DEF Undisturbed
  <2> QED
    BY <1>1, <2>1, <2>2, <2>3, <2>4, <2>5, OneMovesPromise
<1> QED
  BY <1>2, <1>3 DEF Remove

LEMMA UnlinkPromise ==
  ASSUME TypeInv, RaceInv, PromiseInv, NEW c \in Clients, Unlink(c)
  PROVE  PromiseInv'
<1> DEFINE n == req[c].name
<1>1. /\ req[c].pc = "unlink" /\ n \in Names /\ InFlight(c) /\ Deleting(n)
      /\ UNCHANGED <<collections, instances, disk, sent, acked, raced, overwritten>>
      /\ paths' = [paths EXCEPT ![n] = None]
      /\ paths \in [Names -> DOMAIN disk \cup {None}]
  BY RequestFacts DEF Unlink, history, TypeInv, SharedOK, Deleting, About, InFlight
<1>2. /\ req'[c].pc = "answered" /\ req'[c].op = "list"
      /\ \A b \in Clients \ {c} : req'[b] = req[b]
  BY DEF Unlink, Answer, NoRequest, TypeInv, RequestsOK
<1>3. ASSUME NEW m \in Names, Undisturbed(m)' PROVE Served(m)'
  <2>1. Served(m) /\ Unraced(m)
    BY <1>1, <1>3 DEF PromiseInv, RaceInv, Undisturbed
  <2>2. m = n => /\ collections[m] = None /\ acked[m] = {}
                 /\ \A b \in Clients : ~(req[b].pc = "register" /\ req[b].name = m)
    BY <1>1, <2>1 DEF Served, TableLinked, PromiseInv, NothingPromised, Unraced, Alone, Opening,
       About, InFlight, OpeningPcs
  <2>3. TableLinked(m)'
    BY <1>1, <1>2, <2>1, <2>2 DEF Served, TableLinked
  <2>4. HasLoaded(m)'
    BY <1>1, <1>2, <2>1 DEF Served, HasLoaded, Promised, HandlePcs
  <2>5. Durable(m)'
    BY <1>1, <1>2, <2>1, <2>2 DEF Served, Durable, GuardPcs, Handles
  <2>6. Kept(m)'
    BY <1>1, <2>1, <2>2 DEF Served, Kept, OnDisk
  <2> QED
    BY <2>3, <2>4, <2>5, <2>6 DEF Served
<1>4. \A m \in Names : Undisturbed(m)' => Undisturbed(m)
  BY <1>1 DEF Undisturbed
<1> QED
  BY <1>1, <1>2, <1>3, <1>4, OneMovesPromise

LEMMA RestartPromise ==
  ASSUME PromiseInv, Restart
  PROVE  PromiseInv'
<1>1. /\ Handles' = {} /\ UNCHANGED <<paths, disk, sent, acked, raced, overwritten>>
      /\ \A c \in Clients : req'[c] = NoRequest
      /\ \A n \in Names : collections'[n] = None
  BY DEF Restart, Handles, history
<1>2. NothingPromised' /\ MustBeAcked' /\ ReadsNamed' /\ ReadsSeeAckedWrites'
  BY <1>1 DEF NothingPromised, MustBeAcked, ReadsNamed, ReadsSeeAckedWrites, Deleting, About,
     InFlight, NoRequest
<1>3. FreshDocs'
  BY <1>1 DEF FreshDocs, PromiseInv, InFlight, NoRequest
<1>4. \A n \in Names : Undisturbed(n)' => Served(n)'
  BY <1>1 DEF PromiseInv, Undisturbed, Served, TableLinked, HasLoaded, Durable, Kept, OnDisk,
     NoRequest, HandlePcs, GuardPcs
<1> QED
  BY <1>2, <1>3, <1>4 DEF PromiseInv

-----------------------------------------------------------------------------
(* All steps.                                                              *)

LEMMA ArrivalPromise ==
  ASSUME TypeInv, RaceInv, PromiseInv, NEW c \in Clients, Arrival(c)
  PROVE  PromiseInv'
<1>1. CASE Receive(c)
  <2>1. PICK op \in Ops \cap {"create", "read", "compact", "rebuild_index"}, n \in Names :
          Arrive(c, Request(op, n, "lookup"), {})
    BY <1>1 DEF Receive
  <2> DEFINE r == Request(op, n, "lookup")
  <2>2. RequestOK(r, instances) /\ New(r, {})
    BY DEF New, Request, NoRequest, RequestOK, RequestType, Pcs, HandlePcs, GuardPcs,
       OpeningPcs, OpNames
  <2>3. Arrive(c, r, {})
    BY <2>1
  <2> HIDE DEF r
  <2> QED
    BY <1>1, <2>2, <2>3, ArrivePromise DEF Receive, manager, excuses, Undisturbed
<1>2. CASE ReceiveInsert(c)
  <2>1. PICK n \in Names :
          Arrive(c, [Request("insert", n, "lookup") EXCEPT !.doc = sent + 1,
                                                           !.counts = ~Deleting(n)], {})
    BY <1>2 DEF ReceiveInsert
  <2> DEFINE counts == ~Deleting(n)
             r == [Request("insert", n, "lookup") EXCEPT !.doc = sent + 1, !.counts = counts]
  <2>2. sent + 1 \in Docs
    <3>1. sent < MaxRequests
      BY <2>1 DEF Arrive
    <3>2. sent \in 0..MaxRequests
      BY DEF TypeInv, SharedOK
    <3> QED
      BY <3>1, <3>2, ConstantsAssumption DEF Docs, Requests
  <2>3. counts \in BOOLEAN /\ (counts => ~Deleting(n))
    OBVIOUS
  <2>4. Arrive(c, r, {})
    BY <2>1
  <2> HIDE DEF counts
  <2>5. RequestOK(r, instances) /\ New(r, {})
    BY <2>2, <2>3 DEF New, Request, NoRequest, RequestOK, RequestType, Pcs, HandlePcs, GuardPcs,
       OpeningPcs, OpNames
  <2> HIDE DEF r
  <2> QED
    BY <1>2, <2>4, <2>5, ArrivePromise DEF ReceiveInsert, manager, excuses, Undisturbed
<1>3. CASE ReceiveDelete(c)
  <2>1. PICK n \in Names : \E d \in acked[n] :
          Arrive(c, [Request("delete", n, "lookup") EXCEPT !.doc = d], {d})
    BY <1>3 DEF ReceiveDelete
  <2>2. PICK d \in acked[n] :
          Arrive(c, [Request("delete", n, "lookup") EXCEPT !.doc = d], {d})
    BY <2>1
  <2> DEFINE r == [Request("delete", n, "lookup") EXCEPT !.doc = d]
  <2>3. d \in Docs
    BY <2>2 DEF TypeInv, SharedOK
  <2>4. RequestOK(r, instances) /\ New(r, {d})
    BY <2>2, <2>3 DEF New, Request, NoRequest, RequestOK, RequestType, Pcs, HandlePcs, GuardPcs,
       OpeningPcs, OpNames
  <2>5. Arrive(c, r, {d}) /\ {d} \in SUBSET Docs
    BY <2>2, <2>3
  <2> HIDE DEF r
  <2> QED
    BY <1>3, <2>4, <2>5, ArrivePromise DEF ReceiveDelete, manager, excuses, Undisturbed
<1>4. CASE RefuseWrite(c)
  <2>1. req'[c] = NoRequest /\ \A b \in Clients : b # c => req'[b] = req[b]
    BY <1>4 DEF RefuseWrite, Answer, TypeInv, RequestsOK
  <2>2. IsAnswered(c)
    BY <2>1 DEF IsAnswered, NoRequest
  <2>3. sent' \in Nat /\ sent <= sent'
    BY <1>4, NoneIsNone DEF RefuseWrite
  <2>4. Calm
    BY <1>4, <2>1, <2>2, <2>3 DEF Calm, RefuseWrite, manager, history, Undisturbed
  <2> QED
    BY <2>4, CalmPromise
<1>5. CASE ReceiveList(c)
  <2>1. /\ req'[c] = [NoRequest EXCEPT !.pc = "list", !.todo = LoadedCollections]
        /\ \A b \in Clients : b # c => req'[b] = req[b]
    BY <1>5 DEF ReceiveList, TypeInv, RequestsOK
  <2>2. Lists(c)
    BY <2>1 DEF Lists, NoRequest
  <2>3. sent' \in Nat /\ sent <= sent'
    BY <1>5, NoneIsNone DEF ReceiveList
  <2>4. Calm
    BY <1>5, <2>1, <2>2, <2>3 DEF Calm, ReceiveList, manager, history, Undisturbed
  <2> QED
    BY <2>4, CalmPromise
<1>6. CASE ReceiveDeleteCollection(c)
  <2>1. PICK n \in Names :
          /\ Arrive(c, Request("delete_collection", n, "remove"), Docs)
          /\ raced' = [raced EXCEPT ![n] = @ \/ Opening(n)]
    BY <1>6 DEF ReceiveDeleteCollection
  <2> DEFINE r == Request("delete_collection", n, "remove")
             opening == Opening(n)
  <2>2. RequestOK(r, instances) /\ New(r, Docs)
    BY DEF New, Request, NoRequest, RequestOK, RequestType, Pcs, HandlePcs, GuardPcs,
       OpeningPcs, OpNames
  <2>3. Arrive(c, r, Docs) /\ Docs \in SUBSET Docs
    BY <2>1
  <2>4. raced' = [raced EXCEPT ![n] = raced[n] \/ opening] /\ raced \in [Names -> BOOLEAN]
    BY <2>1 DEF TypeInv, SharedOK
  <2> HIDE DEF r, opening
  <2>5. \A m \in Names : Undisturbed(m)' => Undisturbed(m)
    BY <1>6, <2>4 DEF ReceiveDeleteCollection, Undisturbed
  <2> QED
    BY <1>6, <2>2, <2>3, <2>5, ArrivePromise DEF ReceiveDeleteCollection, manager
<1> QED
  BY <1>1, <1>2, <1>3, <1>4, <1>5, <1>6 DEF Arrival

LEMMA LockingPromise ==
  ASSUME TypeInv, RaceInv, PromiseInv, NEW c \in Clients, Locking(c)
  PROVE  PromiseInv'
<1>1. CASE Create(c) \/ Fails(c) \/ (List(c) /\ Answer(c))
  BY <1>1, CalmAnswer DEF Create, Fails, List, manager, history, excuses
<1>2. CASE Scan(c) \/ Evict(c) \/ (List(c) /\ ~Answer(c))
  <2>1. /\ req[c].pc \in {"scan", "evict", "list"} /\ InFlight(c)
        /\ UNCHANGED <<collections, paths, disk, instances, sent, acked, raced, overwritten>>
    BY <1>2 DEF Scan, Evict, List, InFlight, manager, history
  <2>2. PICK h : req' = [req EXCEPT ![c].todo = @ \ {h}]
    BY <1>2 DEF Scan, Evict, List
  <2> DEFINE q == [req[c] EXCEPT !.todo = @ \ {h}]
  <2>3. /\ q.pc = req[c].pc /\ q.op = req[c].op /\ q.name = req[c].name /\ q.doc = req[c].doc
        /\ q.must = req[c].must /\ q.counts = req[c].counts /\ q.h = req[c].h
    BY RequestFacts DEF RequestType
  <2>4. req' = [req EXCEPT ![c] = q]
    BY <2>2
  <2> HIDE DEF q
  <2>5. /\ q.pc \notin {"answered", "register", "unlink"}
        /\ q.pc \in HandlePcs => req[c].pc \in HandlePcs \ {"register"}
        /\ q.pc \in GuardPcs => req[c].pc \in GuardPcs
    BY <2>1, <2>3 DEF HandlePcs, GuardPcs
  <2>6. \A n \in Names : Undisturbed(n)' => Undisturbed(n)
    BY <2>1 DEF Undisturbed
  <2> QED
    BY <2>1, <2>3, <2>4, <2>5, <2>6, OneCalm
<1> QED
  BY <1>1, <1>2, ReadPromise, InsertPromise, InsertBreaksOffPromise, InsertRefusedPromise,
     DeletePromise, CompactOwnPromise, CompactOtherPromise DEF Locking

LEMMA RunningPromise ==
  ASSUME TypeInv, RaceInv, PromiseInv, NEW c \in Clients, Running(c)
  PROVE  PromiseInv'
<1>1. CASE OpenFails(c) \/ Spawn(c)
  BY <1>1, CalmAnswer DEF OpenFails, Spawn, manager, history, excuses
<1>2. CASE NoBudget(c) \/ WithinBudget(c) \/ EvictionDone(c)
  BY <1>2, AnswerInsertPromise DEF NoBudget, WithinBudget, EvictionDone, GuardPcs
<1>3. CASE Budget(c)
  BY <1>3, CalmList DEF Budget, InFlight, GuardPcs, manager, history, excuses
<1>4. CASE OverBudget(c)
  BY <1>4, CalmList DEF OverBudget, InFlight, GuardPcs, manager, history, excuses
<1>5. CASE MarkRunning(c)
  BY <1>5, CalmGoto DEF MarkRunning, InFlight, HandlePcs, GuardPcs, manager, history, excuses
<1> QED
  BY <1>1, <1>2, <1>3, <1>4, <1>5, LookupPromise, ExistsPromise, OpenPromise, RegisterPromise,
     RemovePromise, UnlinkPromise DEF Running

LEMMA NextPromiseInv == TypeInv /\ RaceInv /\ PromiseInv /\ [Next]_vars => PromiseInv'
<1> SUFFICES ASSUME TypeInv, RaceInv, PromiseInv, [Next]_vars PROVE PromiseInv'
  OBVIOUS
<1>1. CASE ReloadConfig \/ UNCHANGED vars \/ \E h \in Requests : RebuildTask(h)
  <2>1. \A n \in Names : Undisturbed(n)' => Undisturbed(n)
    BY <1>1, SavedDisturbs DEF ReloadConfig, RebuildTask, vars, history, Undisturbed
  <2>2. Calm
    BY <1>1, <2>1, NoneIsNone DEF Calm, ReloadConfig, RebuildTask, vars, manager, history
  <2> QED
    BY <2>2, CalmPromise
<1>2. CASE \E c \in Clients : Arrival(c) \/ Locking(c) \/ Running(c)
  BY <1>2, ArrivalPromise, LockingPromise, RunningPromise
<1> QED
  BY <1>1, <1>2, RestartPromise DEF Next

LEMMA PromiseInvAlways == Spec => []PromiseInv
<1>1. TypeInv /\ RaceInv /\ PromiseInv /\ [Next]_vars => PromiseInv'
  BY NextPromiseInv
<1> QED
  BY <1>1, InitPromiseInv, TypeInvAlways, RaceInvAlways, PTL DEF Spec

\* Whatever deletions, opens, compactions, restarts and refused or failing
\* insertions interleave with it: a document promised to a client is in the file
\* that has the collection's name, unless an open was raced or somebody else
\* saved its files by path.
THEOREM AckedAlwaysOnDisk == Spec => []AckedOnDisk
BY PromiseInvAlways, PromiseInvOK, PTL

\* A read sees what had been promised when it arrived, short of such a
\* disturbance.
THEOREM ReadsAlwaysSeeAcked == Spec => []ReadsSeeAckedWrites
BY PromiseInvAlways, PromiseInvOK, PTL
=============================================================================
