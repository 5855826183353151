---------------------------- MODULE ServerProofs ----------------------------
(***************************************************************************)
(* Theorems about Server, for every value of its constants.                *)
(***************************************************************************)
EXTENDS Server, Induction, FunctionTheorems, SequenceTheorems

-----------------------------------------------------------------------------
(* How often the provider was called for the text that a request is at:    *)
(* the calls are the failed attempts, and the one that is under way or     *)
(* has just been answered.  The next text starts again at zero.            *)

CallsCounted(q) ==
    /\ q.attempts \in 0 .. MaxRetries /\ q.calls \in Nat
    /\ q.pc \in {"new", "lookup", "waiting"} => q.calls = q.attempts
    /\ q.pc \in {"calling", "store"} => q.calls = q.attempts + 1
    /\ q.calls <= MaxRetries + 1
    /\ q.result \in ProviderErrors =>
        q.calls = MaxRetries + 1 \/ ~Embed!IsRecoverable(q.result)

Fields == {"pc", "got", "attempts", "delay", "calls", "answer", "result"}

RequestInv(q) == DOMAIN q = Fields /\ q = [f \in Fields |-> q[f]] /\ CallsCounted(q)

CallsInv ==
    /\ scenario \in Scenarios
    /\ req = [r \in Requests |-> req[r]]
    /\ \A r \in Requests : RequestInv(req[r])

\* Facts about the constants, in the form the provers use them.
LEMMA ConstantFacts ==
    /\ MaxRetries \in Nat
    /\ None \notin ProviderErrors
    /\ \A s \in Scenarios : DOMAIN s.requests \subseteq Requests
BY ConstantsAssumption, NoneAssumption

\* A step that gives one request another record keeps the invariant if the
\* record does.
LEMMA OneRequest ==
    ASSUME CallsInv, NEW r \in Requests, NEW q, RequestInv(q),
           req' = [req EXCEPT ![r] = q], scenario' = scenario
    PROVE  CallsInv'
BY DEF CallsInv, RequestInv, CallsCounted

\* A request that is new, or goes on with its next text, was not called for yet.
LEMMA NewCounted ==
    RequestInv(NewRequest)
<1>1. DOMAIN NewRequest = Fields /\ NewRequest = [f \in Fields |-> NewRequest[f]]
  BY DEF NewRequest, Fields
<1>2. CallsCounted(NewRequest)
  BY ConstantFacts DEF NewRequest, CallsCounted
<1> QED
  BY <1>1, <1>2 DEF RequestInv

\* embed returns a vector and the request goes on: with its next text, or with
\* what it wanted the vectors for.
LEMMA EmbeddedCounted ==
    ASSUME NEW r, NEW answer
    PROVE  RequestInv(Embedded(r, answer))
<1>1. DOMAIN Embedded(r, answer) = Fields
      /\ Embedded(r, answer) = [f \in Fields |-> Embedded(r, answer)[f]]
  BY DEF Embedded, NewRequest, Fields
<1>2. CallsCounted(Embedded(r, answer))
  BY ConstantFacts DEF Embedded, NewRequest, CallsCounted
<1> QED
  BY <1>1, <1>2 DEF RequestInv

\* A request may end at any time with a result that is no error of the provider.
LEMMA DoneCounted ==
    ASSUME CallsInv, NEW r \in Requests, NEW result, result \notin ProviderErrors
    PROVE  RequestInv(Done(r, result))
<1>1. RequestInv(req[r])
  BY DEF CallsInv
<1>2. DOMAIN Done(r, result) = Fields /\ Done(r, result) = [f \in Fields |-> Done(r, result)[f]]
  BY <1>1 DEF RequestInv, Done, Fields
<1>3. CallsCounted(Done(r, result))
  BY <1>1 DEF RequestInv, Done, Fields, CallsCounted
<1> QED
  BY <1>2, <1>3 DEF RequestInv

\* An error of the provider ends the request only when the retries are used up
\* or the error is none to retry.
LEMMA AfterErrorCounted ==
    ASSUME CallsInv, NEW r \in Requests, req[r].pc = "calling", NEW error
    PROVE  RequestInv(AfterError(r, error))
<1>1. RequestInv(req[r])
  BY DEF CallsInv
<1>2. CASE Embed!GivesUp(error, req[r].attempts + 1)
  <2>1. AfterError(r, error) = Done(r, error)
    BY <1>2 DEF AfterError
  <2>2. DOMAIN Done(r, error) = Fields /\ Done(r, error) = [f \in Fields |-> Done(r, error)[f]]
    BY <1>1 DEF RequestInv, Done, Fields
  <2>3. CallsCounted(Done(r, error))
    BY <1>1, <1>2, ConstantFacts DEF RequestInv, Done, Fields, CallsCounted, Embed!GivesUp
  <2> QED
    BY <2>1, <2>2, <2>3 DEF RequestInv
<1>3. CASE ~Embed!GivesUp(error, req[r].attempts + 1)
  <2> DEFINE q == [req[r] EXCEPT !.pc = "waiting", !.attempts = req[r].attempts + 1]
  <2>1. AfterError(r, error) = q
    BY <1>3 DEF AfterError
  <2>2. DOMAIN q = Fields /\ q = [f \in Fields |-> q[f]]
    BY <1>1 DEF RequestInv, Fields
  <2>3. CallsCounted(q)
    BY <1>1, <1>3, ConstantFacts DEF RequestInv, Fields, CallsCounted, Embed!GivesUp
  <2> QED
    BY <2>1, <2>2, <2>3 DEF RequestInv
<1> QED
  BY <1>2, <1>3

-----------------------------------------------------------------------------
(* The steps of a request. *)

\* A request that ends without asking the provider.
LEMMA EndsStep ==
    ASSUME CallsInv, NEW r \in Requests, NEW result, result \notin ProviderErrors,
           Ends(r, result), scenario' = scenario
    PROVE  CallsInv'
BY DoneCounted, OneRequest DEF Ends

\* What a request is at once it has all its vectors.
Served == {"budget", "stuck", "record", "search"}

\* A step after which the request looks its first text up, or has all of them.
LEMMA MovedStep ==
    ASSUME CallsInv, NEW r \in Requests, NEW pc,
           (req[r].pc = "new" /\ pc = "lookup") \/ pc \in Served,
           req' = [req EXCEPT ![r].pc = pc], scenario' = scenario
    PROVE  CallsInv'
<1> DEFINE q == [req[r] EXCEPT !.pc = pc]
<1>1. RequestInv(req[r])
  BY DEF CallsInv
<1>2. DOMAIN q = Fields /\ q = [f \in Fields |-> q[f]]
  BY <1>1 DEF RequestInv, Fields
<1>3. CallsCounted(q)
  BY <1>1, ConstantFacts DEF RequestInv, Fields, CallsCounted, Served
<1> QED
  BY <1>2, <1>3, OneRequest DEF RequestInv

\* embed_text refuses a request or looks its first text up.
LEMMA ReceiveEmbedStep ==
    ASSUME CallsInv, NEW r \in Requests, ReceiveEmbed(r)
    PROVE  CallsInv'
<1> scenario' = scenario
  BY DEF ReceiveEmbed, process
<1>1. CASE Ends(r, "failed") \/ Ends(r, "unavailable") \/ Ends(r, "invalid")
  BY <1>1, EndsStep DEF ProviderErrors
<1>2. CASE req' = [req EXCEPT ![r].pc = "lookup"]
  BY <1>2, MovedStep DEF ReceiveEmbed
<1> QED
  BY <1>1, <1>2 DEF ReceiveEmbed

\* So does search_by_text.
LEMMA ReceiveSearchStep ==
    ASSUME CallsInv, NEW r \in Requests, ReceiveSearch(r)
    PROVE  CallsInv'
<1> scenario' = scenario
  BY DEF ReceiveSearch, process
<1>1. CASE Ends(r, "not found") \/ Ends(r, "failed") \/ Ends(r, "unavailable")
  BY <1>1, EndsStep DEF ProviderErrors
<1>2. CASE req' = [req EXCEPT ![r].pc = "lookup"]
  BY <1>2, MovedStep DEF ReceiveSearch
<1> QED
  BY <1>1, <1>2 DEF ReceiveSearch

\* A call is counted when it is made.
LEMMA LookupMissesStep ==
    ASSUME CallsInv, NEW r \in Requests, LookupMisses(r)
    PROVE  CallsInv'
<1> DEFINE q == [req[r] EXCEPT !.pc = "calling",
                               !.calls = IF req[r].calls < MaxRetries + 2
                                         THEN req[r].calls + 1 ELSE req[r].calls]
<1>1. RequestInv(req[r]) /\ req[r].pc = "lookup"
  BY DEF CallsInv, LookupMisses
<1>2. DOMAIN q = Fields /\ q = [f \in Fields |-> q[f]]
  BY <1>1 DEF RequestInv, Fields
<1>3. CallsCounted(q)
  BY <1>1, ConstantFacts DEF RequestInv, Fields, CallsCounted
<1>4. req' = [req EXCEPT ![r] = q] /\ scenario' = scenario
  BY DEF LookupMisses, process
<1> QED
  BY <1>2, <1>3, <1>4, OneRequest DEF RequestInv

\* The provider answers, or its error is counted.
LEMMA ReplyStep ==
    ASSUME CallsInv, NEW r \in Requests, Reply(r)
    PROVE  CallsInv'
<1>1. RequestInv(req[r]) /\ req[r].pc = "calling"
  BY DEF CallsInv, Reply
<1>2. PICK answer : \/ req' = [req EXCEPT ![r] = AfterError(r, answer.error)]
                    \/ req' = [req EXCEPT ![r].pc = "store", ![r].answer = answer]
  BY DEF Reply
<1>3. scenario' = scenario
  BY DEF Reply, process
<1>4. CASE req' = [req EXCEPT ![r] = AfterError(r, answer.error)]
  BY <1>1, <1>3, <1>4, AfterErrorCounted, OneRequest
<1>5. CASE req' = [req EXCEPT ![r].pc = "store", ![r].answer = answer]
  <2> DEFINE q == [req[r] EXCEPT !.pc = "store", !.answer = answer]
  <2>1. DOMAIN q = Fields /\ q = [f \in Fields |-> q[f]]
    BY <1>1 DEF RequestInv, Fields
  <2>2. CallsCounted(q)
    BY <1>1, ConstantFacts DEF RequestInv, Fields, CallsCounted
  <2>3. req' = [req EXCEPT ![r] = q]
    BY <1>5 DEF CallsInv
  <2> QED
    BY <1>3, <2>1, <2>2, <2>3, OneRequest DEF RequestInv
<1> QED
  BY <1>2, <1>4, <1>5

\* The pause is over: the calls so far are still the failed attempts.
LEMMA WakeStep ==
    ASSUME CallsInv, NEW r \in Requests, Wake(r)
    PROVE  CallsInv'
<1> DEFINE q == [req[r] EXCEPT !.pc = "lookup", !.delay = Embed!NextDelay(req[r].delay)]
<1>1. RequestInv(req[r]) /\ req[r].pc = "waiting"
  BY DEF CallsInv, Wake
<1>2. DOMAIN q = Fields /\ q = [f \in Fields |-> q[f]]
  BY <1>1 DEF RequestInv, Fields
<1>3. CallsCounted(q)
  BY <1>1, ConstantFacts DEF RequestInv, Fields, CallsCounted
<1>4. req' = [req EXCEPT ![r] = q] /\ scenario' = scenario
  BY DEF Wake, process
<1> QED
  BY <1>2, <1>3, <1>4, OneRequest DEF RequestInv

\* An insertion goes on to the budget of the caches, or ends.
LEMMA InsertStep ==
    ASSUME CallsInv, NEW r \in Requests, Insert(r)
    PROVE  CallsInv'
<1> scenario' = scenario
  BY DEF Insert, process
<1>1. CASE Ends(r, "failed") \/ Ends(r, "refused")
  BY <1>1, EndsStep DEF ProviderErrors
<1>2. CASE req' = [req EXCEPT ![r].pc = "budget"]
  BY <1>2, MovedStep DEF Served
<1> QED
  BY <1>1, <1>2 DEF Insert, StoresAll, StoresNone, Exceeds, Ends

\* What follows asks for no vector.
LEMMA ServedStep ==
    ASSUME CallsInv, NEW r \in Requests, Budget(r) \/ Record(r) \/ Search(r)
    PROVE  CallsInv'
<1> scenario' = scenario
  BY DEF Budget, Record, Search, process
<1>1. ASSUME NEW result \in {"ok", "invalid query", "search failed"}, Ends(r, result)
      PROVE  CallsInv'
  BY <1>1, EndsStep DEF ProviderErrors
<1>2. ASSUME NEW pc \in Served, req' = [req EXCEPT ![r].pc = pc]
      PROVE  CallsInv'
  BY <1>2, MovedStep
<1> QED
  BY <1>1, <1>2 DEF Budget, Record, Search, Served, Ends

\* A reload that exits ends all requests, and calls nobody.
LEMMA ReloadExitsStep ==
    ASSUME CallsInv, ReloadExits
    PROVE  CallsInv'
<1>1. scenario' = scenario
  BY DEF ReloadExits
<1>2. req' = [r \in Requests |-> IF Active(r) THEN Done(r, "lost") ELSE req[r]]
  BY DEF ReloadExits
<1>3. \A r \in Requests : RequestInv(Done(r, "lost")) /\ RequestInv(req[r])
  BY DoneCounted DEF ProviderErrors, CallsInv
<1>4. \A r \in Requests : RequestInv(req'[r])
  BY <1>2, <1>3
<1> QED
  BY <1>1, <1>2, <1>4 DEF CallsInv, RequestInv, CallsCounted

-----------------------------------------------------------------------------
\* Initially nobody was called.
LEMMA InitCounted == Init => CallsInv
BY NewCounted DEF Init, CallsInv, RequestInv, CallsCounted

\* Every step keeps count of the calls.
LEMMA NextCounted == CallsInv /\ [Next]_vars => CallsInv'
<1> SUFFICES ASSUME CallsInv, [Next]_vars PROVE CallsInv'
  OBVIOUS
<1>1. CASE Start \/ EditFile \/ Reload
  BY <1>1 DEF Start, EditFile, Reload, CallsInv, RequestInv, CallsCounted
<1>2. CASE ReloadExits
  BY <1>2, ReloadExitsStep
<1>3. ASSUME NEW r \in DOMAIN scenario.requests,
             ReceiveEmbed(r) \/ ReceiveSearch(r) \/ Step(r) \/ Reply(r) \/ TimeOut(r)
      PROVE  CallsInv'
  <2> r \in Requests
    BY ConstantFacts DEF CallsInv
  <2>1. CASE ReceiveEmbed(r)
    BY <2>1, ReceiveEmbedStep
  <2>2. CASE ReceiveSearch(r)
    BY <2>2, ReceiveSearchStep
  <2>3. CASE LookupHits(r)
    BY <2>3, EmbeddedCounted, OneRequest DEF LookupHits, process
  <2>4. CASE LookupMisses(r)
    BY <2>4, LookupMissesStep
  <2>5. CASE Wake(r)
    BY <2>5, WakeStep
  <2>6. CASE Store(r)
    BY <2>6, EmbeddedCounted, OneRequest DEF Store, process
  <2>7. CASE Insert(r)
    BY <2>7, InsertStep
  <2>8. CASE Budget(r) \/ Record(r) \/ Search(r)
    BY <2>8, ServedStep
  <2>9. CASE Reply(r)
    BY <2>9, ReplyStep
  <2>10. CASE TimeOut(r)
    BY <2>10, AfterErrorCounted, OneRequest DEF TimeOut, process
  <2> QED
    BY <1>3, <2>1, <2>2, <2>3, <2>4, <2>5, <2>6, <2>7, <2>8, <2>9, <2>10 DEF Step
<1>4. CASE UNCHANGED vars
  BY <1>4 DEF vars, process, CallsInv, RequestInv, CallsCounted
<1> QED
  BY <1>1, <1>2, <1>3, <1>4 DEF Next

\* RetryEmbedder calls the provider at most max_retries + 1 times for a text,
\* whatever the cache, the other requests, time limits and reloads do, and gives
\* an error of the provider back only then or if it is none to retry.
THEOREM RetriesAlwaysBounded == Spec => []RetriesBounded
<1>1. CallsInv => RetriesBounded
  BY DEF CallsInv, RequestInv, CallsCounted, RetriesBounded
<1> QED
  BY <1>1, InitCounted, NextCounted, PTL DEF Spec

-----------------------------------------------------------------------------
(* The cache of the embedder holds no text twice.                          *)

Distinct(c) == \A i, j \in DOMAIN c : c[i].text = c[j].text => i = j

\* RemoveAt closes the gap.
LEMMA RemoveAtFacts ==
    ASSUME NEW E, NEW s \in Seq(E), NEW i \in 1 .. Len(s)
    PROVE  LET t == Embed!Seqs!RemoveAt(s, i)
           IN  /\ t \in Seq(E) /\ Len(t) = Len(s) - 1
               /\ \A j \in 1 .. Len(s) - 1 : t[j] = s[IF j < i THEN j ELSE j + 1]
<1> DEFINE left == SubSeq(s, 1, i - 1)
           right == SubSeq(s, i + 1, Len(s))
<1>1. /\ left \in Seq(E) /\ Len(left) = i - 1
      /\ \A j \in 1 .. i - 1 : left[j] = s[j]
  BY SubSeqProperties
<1>2. /\ right \in Seq(E) /\ Len(right) = Len(s) - i
      /\ \A j \in 1 .. Len(s) - i : right[j] = s[j + i]
  BY SubSeqProperties
<1> HIDE DEF left, right
<1>3. /\ left \o right \in Seq(E) /\ Len(left \o right) = Len(left) + Len(right)
      /\ \A j \in 1 .. Len(left) + Len(right) :
            (left \o right)[j] = IF j <= Len(left) THEN left[j] ELSE right[j - Len(left)]
  BY <1>1, <1>2, ConcatProperties
<1>4. Embed!Seqs!RemoveAt(s, i) = left \o right
  BY DEF left, right, Embed!Seqs!RemoveAt
<1> DEFINE t == left \o right
<1>5. t \in Seq(E) /\ Len(t) = Len(s) - 1
  BY <1>1, <1>2, <1>3
<1>6. ASSUME NEW j \in 1 .. Len(s) - 1
      PROVE  t[j] = s[IF j < i THEN j ELSE j + 1]
  <2>1. t[j] = IF j <= Len(left) THEN left[j] ELSE right[j - Len(left)]
    BY <1>1, <1>2, <1>3
  <2> HIDE DEF t
  <2>2. CASE j < i
    BY <1>1, <2>1, <2>2
  <2>3. CASE ~(j < i)
    <3>1. j - Len(left) \in 1 .. Len(s) - i /\ (j - Len(left)) + i = j + 1
      BY <1>1, <2>3
    <3> QED
      BY <1>1, <1>2, <2>1, <2>3, <3>1
  <2> QED
    BY <2>2, <2>3
<1> QED
  BY <1>4, <1>5, <1>6

\* A text of the cache has one place there.
LEMMA PlaceFacts ==
    ASSUME NEW c, NEW text \in Embed!Keys(c)
    PROVE  /\ Embed!Place(c, text) \in DOMAIN c
           /\ c[Embed!Place(c, text)].text = text
BY DEF Embed!Keys, Embed!Place

\* Without a text the cache has the other ones.
LEMMA WithoutTextFacts ==
    ASSUME NEW E, NEW c \in Seq(E), Distinct(c), NEW text
    PROVE  LET t == Embed!WithoutText(c, text)
           IN  /\ t \in Seq(E) /\ Distinct(t)
               /\ Embed!Keys(t) = Embed!Keys(c) \ {text}
               /\ Len(t) = Len(c) - (IF text \in Embed!Keys(c) THEN 1 ELSE 0)
<1>1. CASE text \in Embed!Keys(c)
  <2> DEFINE p == Embed!Place(c, text)
             t == Embed!Seqs!RemoveAt(c, p)
  <2>1. p \in 1 .. Len(c) /\ c[p].text = text
    BY <1>1, PlaceFacts
  <2>2. /\ t \in Seq(E) /\ Len(t) = Len(c) - 1
        /\ \A j \in 1 .. Len(c) - 1 : t[j] = c[IF j < p THEN j ELSE j + 1]
    BY <2>1, RemoveAtFacts
  <2>3. Embed!WithoutText(c, text) = t
    BY <1>1 DEF Embed!WithoutText
  <2> HIDE DEF p, t
  <2>4. Len(c) \in Nat /\ DOMAIN c = 1 .. Len(c) /\ DOMAIN t = 1 .. Len(c) - 1
    BY <2>2
  <2>5. Distinct(t)
    <3> SUFFICES ASSUME NEW i \in DOMAIN t, NEW j \in DOMAIN t, t[i].text = t[j].text
                 PROVE  i = j
      BY DEF Distinct
    <3> DEFINE f(k) == IF k < p THEN k ELSE k + 1
    <3>1. t[i] = c[f(i)] /\ t[j] = c[f(j)] /\ f(i) \in DOMAIN c /\ f(j) \in DOMAIN c
      BY <2>1, <2>2, <2>4
    <3>2. f(i) = f(j)
      BY <3>1 DEF Distinct
    <3> QED
      BY <3>2, <2>1, <2>4
  <2>6. ASSUME NEW i \in DOMAIN t
        PROVE  t[i].text \in Embed!Keys(c) \ {text}
    <3> DEFINE k == IF i < p THEN i ELSE i + 1
    <3>1. t[i] = c[k] /\ k \in DOMAIN c /\ k # p
      BY <2>1, <2>2, <2>4
    <3> QED
      BY <3>1, <2>1, <2>4 DEF Distinct, Embed!Keys
  <2>7. ASSUME NEW k \in DOMAIN c, c[k].text # text
        PROVE  \E i \in DOMAIN t : t[i].text = c[k].text
    <3> DEFINE i == IF k < p THEN k ELSE k - 1
    <3>1. k # p
      BY <2>1, <2>7
    <3>2. i \in DOMAIN t /\ (IF i < p THEN i ELSE i + 1) = k
      BY <3>1, <2>1, <2>4
    <3> QED
      BY <3>2, <2>2, <2>4
  <2>8. Embed!Keys(t) = Embed!Keys(c) \ {text}
    BY <2>6, <2>7 DEF Embed!Keys
  <2> QED
    BY <1>1, <2>2, <2>3, <2>5, <2>8
<1>2. CASE text \notin Embed!Keys(c)
  BY <1>2 DEF Embed!WithoutText
<1> QED
  BY <1>1, <1>2

\* What is appended is the most recently used entry.
LEMMA AppendFacts ==
    ASSUME NEW E, NEW c \in Seq(E), Distinct(c), NEW e \in E, e.text \notin Embed!Keys(c)
    PROVE  /\ Append(c, e) \in Seq(E) /\ Distinct(Append(c, e))
           /\ Embed!Keys(Append(c, e)) = Embed!Keys(c) \union {e.text}
           /\ Len(Append(c, e)) = Len(c) + 1
<1> DEFINE t == Append(c, e)
<1>1. /\ t \in Seq(E) /\ Len(t) = Len(c) + 1 /\ t[Len(c) + 1] = e
      /\ \A i \in 1 .. Len(c) : t[i] = c[i]
  BY AppendProperties
<1> HIDE DEF t
<1>2. Len(c) \in Nat /\ DOMAIN c = 1 .. Len(c) /\ DOMAIN t = 1 .. Len(c) + 1
  BY <1>1
<1>3. Distinct(t)
  <2> SUFFICES ASSUME NEW i \in DOMAIN t, NEW j \in DOMAIN t, t[i].text = t[j].text
               PROVE  i = j
    BY DEF Distinct
  <2>1. \A k \in DOMAIN t : k \in DOMAIN c \/ (k = Len(c) + 1 /\ t[k].text \notin Embed!Keys(c))
    BY <1>1, <1>2
  <2>2. \A k \in DOMAIN c : t[k].text \in Embed!Keys(c) /\ t[k] = c[k]
    BY <1>1, <1>2 DEF Embed!Keys
  <2> QED
    BY <2>1, <2>2 DEF Distinct
<1>4. Embed!Keys(t) = Embed!Keys(c) \union {e.text}
  BY <1>1, <1>2 DEF Embed!Keys
<1> QED
  BY <1>1, <1>3, <1>4 DEF t

\* The cache has the same texts after a hit.
LEMMA TouchFacts ==
    ASSUME NEW E, NEW c \in Seq(E), Distinct(c), NEW text \in Embed!Keys(c)
    PROVE  LET t == Embed!Touch(c, text)
           IN  /\ t \in Seq(E) /\ Distinct(t)
               /\ Embed!Keys(t) = Embed!Keys(c) /\ Len(t) = Len(c)
               /\ Embed!Entry(c, text) \in E /\ Embed!Entry(c, text).text = text
<1> DEFINE rest == Embed!WithoutText(c, text)
           e == Embed!Entry(c, text)
<1>1. e \in E /\ e.text = text
  BY PlaceFacts DEF Embed!Entry
<1>2. /\ rest \in Seq(E) /\ Distinct(rest)
      /\ Embed!Keys(rest) = Embed!Keys(c) \ {text} /\ Len(rest) = Len(c) - 1
  BY WithoutTextFacts
<1>3. Embed!Touch(c, text) = Append(rest, e)
  BY DEF Embed!Touch
<1> HIDE DEF rest, e
<1>4. /\ Append(rest, e) \in Seq(E) /\ Distinct(Append(rest, e))
      /\ Embed!Keys(Append(rest, e)) = Embed!Keys(rest) \union {e.text}
      /\ Len(Append(rest, e)) = Len(rest) + 1
  BY <1>1, <1>2, AppendFacts
<1>5. Len(c) \in Nat
  OBVIOUS
<1> QED
  BY <1>1, <1>2, <1>3, <1>4, <1>5 DEF e

\* Without its first entry the cache has the other ones.
LEMMA TailFacts ==
    ASSUME NEW E, NEW c \in Seq(E), Distinct(c), c # <<>>
    PROVE  /\ Tail(c) \in Seq(E) /\ Distinct(Tail(c))
           /\ Embed!Keys(Tail(c)) = Embed!Keys(c) \ {Head(c).text}
           /\ Len(Tail(c)) = Len(c) - 1
<1> DEFINE t == Tail(c)
<1>1. /\ t \in Seq(E) /\ Len(t) = Len(c) - 1 /\ \A i \in 1 .. Len(c) - 1 : t[i] = c[i + 1]
  BY HeadTailProperties
<1>2. /\ Len(c) \in Nat /\ Len(c) > 0 /\ Head(c) = c[1]
      /\ DOMAIN c = 1 .. Len(c) /\ DOMAIN t = 1 .. Len(c) - 1
  BY <1>1, EmptySeq
<1> HIDE DEF t
<1>3. Distinct(t)
  <2> SUFFICES ASSUME NEW i \in DOMAIN t, NEW j \in DOMAIN t, t[i].text = t[j].text
               PROVE  i = j
    BY DEF Distinct
  <2>1. i + 1 \in DOMAIN c /\ j + 1 \in DOMAIN c /\ t[i] = c[i + 1] /\ t[j] = c[j + 1]
    BY <1>1, <1>2
  <2>2. i + 1 = j + 1
    BY <2>1 DEF Distinct
  <2> QED
    BY <1>2, <2>2
<1>4. ASSUME NEW i \in DOMAIN t
      PROVE  t[i].text \in Embed!Keys(c) \ {Head(c).text}
  <2>1. i + 1 \in DOMAIN c /\ i + 1 # 1 /\ 1 \in DOMAIN c /\ t[i] = c[i + 1]
    BY <1>1, <1>2
  <2> QED
    BY <1>2, <2>1 DEF Distinct, Embed!Keys
<1>5. ASSUME NEW k \in DOMAIN c, c[k].text # Head(c).text
      PROVE  \E i \in DOMAIN t : t[i].text = c[k].text
  <2>1. k - 1 \in DOMAIN t /\ (k - 1) + 1 = k
    BY <1>2, <1>5
  <2> QED
    BY <1>1, <1>2, <2>1
<1>6. Embed!Keys(t) = Embed!Keys(c) \ {Head(c).text}
  BY <1>4, <1>5 DEF Embed!Keys
<1> QED
  BY <1>1, <1>3, <1>6 DEF t

\* put drops what Evicted says, and the cache keeps to its capacity.
LEMMA PutFacts ==
    ASSUME NEW E, NEW c \in Seq(E), Distinct(c), Len(c) <= Capacity,
           NEW text, NEW embedding, [text |-> text, embedding |-> embedding] \in E
    PROVE  LET t == Embed!Put(c, text, embedding)
           IN  /\ t \in Seq(E) /\ Distinct(t) /\ Len(t) <= Capacity
               /\ Embed!Keys(t) = (Embed!Keys(c) \ Embed!Evicted(c, text)) \union {text}
<1> DEFINE e == [text |-> text, embedding |-> embedding]
           t == Embed!Put(c, text, embedding)
<1>0. Capacity \in Nat \ {0} /\ Len(c) \in Nat /\ e \in E /\ e.text = text
  BY ConstantsAssumption
<1>1. CASE Embed!Evicted(c, text) = {}
  <2> DEFINE rest == Embed!WithoutText(c, text)
  <2>1. /\ rest \in Seq(E) /\ Distinct(rest) /\ Embed!Keys(rest) = Embed!Keys(c) \ {text}
        /\ Len(rest) = Len(c) - (IF text \in Embed!Keys(c) THEN 1 ELSE 0)
    BY WithoutTextFacts
  <2>2. t = Append(rest, e)
    BY <1>1 DEF Embed!Put
  <2>3. text \in Embed!Keys(c) \/ Len(c) # Capacity
    BY <1>1 DEF Embed!Evicted
  <2> HIDE DEF rest, e, t
  <2>4. /\ Append(rest, e) \in Seq(E) /\ Distinct(Append(rest, e))
        /\ Embed!Keys(Append(rest, e)) = Embed!Keys(rest) \union {e.text}
        /\ Len(Append(rest, e)) = Len(rest) + 1
    BY <1>0, <2>1, AppendFacts
  <2>5. Len(t) <= Capacity
    BY <1>0, <2>1, <2>2, <2>3, <2>4
  <2>6. Embed!Keys(t) = (Embed!Keys(c) \ Embed!Evicted(c, text)) \union {text}
    BY <1>0, <1>1, <2>1, <2>2, <2>4
  <2> QED
    BY <2>2, <2>4, <2>5, <2>6 DEF t
<1>2. CASE Embed!Evicted(c, text) # {}
  <2>1. /\ text \notin Embed!Keys(c) /\ Len(c) = Capacity
        /\ Embed!Evicted(c, text) = {Head(c).text}
    BY <1>2 DEF Embed!Evicted
  <2>2. c # <<>>
    BY <1>0, <2>1
  <2>3. /\ Tail(c) \in Seq(E) /\ Distinct(Tail(c))
        /\ Embed!Keys(Tail(c)) = Embed!Keys(c) \ {Head(c).text}
        /\ Len(Tail(c)) = Len(c) - 1
    BY <2>2, TailFacts
  <2>4. t = Append(Tail(c), e)
    BY <1>2 DEF Embed!Put
  <2> HIDE DEF e, t
  <2>5. /\ Append(Tail(c), e) \in Seq(E) /\ Distinct(Append(Tail(c), e))
        /\ Embed!Keys(Append(Tail(c), e)) = Embed!Keys(Tail(c)) \union {e.text}
        /\ Len(Append(Tail(c), e)) = Len(Tail(c)) + 1
    BY <1>0, <2>1, <2>3, AppendFacts
  <2>6. Len(t) <= Capacity
    BY <1>0, <2>1, <2>3, <2>4, <2>5
  <2>7. Embed!Keys(t) = (Embed!Keys(c) \ Embed!Evicted(c, text)) \union {text}
    BY <1>0, <2>1, <2>3, <2>4, <2>5
  <2> QED
    BY <2>4, <2>5, <2>6, <2>7 DEF t
<1> QED
  BY <1>1, <1>2

-----------------------------------------------------------------------------
(* What a request has, at each point of its way: the vectors of the texts  *)
(* before the one it is at, in their order.                                *)

Pcs == {"new", "lookup", "calling", "waiting", "store", "insert", "done"} \union Served
Answers(known) == {Embed!Answered(t, n) : t \in known, n \in {None, 1}}

\* The delay is capped once it was doubled, after the first pause.
Timed(q) ==
    /\ q.pc \in Pcs /\ q.result \in Results /\ (q.result # None <=> q.pc = "done")
    /\ q.delay \in Nat /\ (q.pc = "waiting" => q.attempts > 0)
    /\ IF q.attempts = 0 \/ (q.attempts = 1 /\ q.pc = "waiting")
       THEN q.delay = InitialDelay
       ELSE q.delay <= MaxDelay \/ (q.pc = "done" /\ q.attempts = 1 /\ q.delay = InitialDelay)

Answering(request, known, q) ==
    /\ q.got \in Seq(Answers(known)) /\ Len(q.got) <= Len(request.texts)
    /\ \A i \in DOMAIN q.got : q.got[i].embedding = request.texts[i]
    /\ q.pc = "new" => q.got = <<>>
    /\ q.pc \in {"lookup", "calling", "waiting", "store"} => Len(q.got) < Len(request.texts)
    /\ q.pc \in {"insert"} \union Served \/ q.result = "ok" =>
        Len(q.got) = Len(request.texts)
    /\ q.pc = "store" => /\ q.answer \in Answers(known)
                         /\ q.answer.embedding = request.texts[Len(q.got) + 1]

\* Only an insertion stores, and only a search searches.
Routed(request, q) ==
    /\ q.pc \in {"insert", "budget", "stuck"} => request.form # "search"
    /\ q.pc = "search" => request.form = "search"

Fits(request, known, q) ==
    Timed(q) /\ Answering(request, known, q) /\ Routed(request, q)

Entries(known) == {[text |-> t, embedding |-> t] : t \in known}
CacheInv == cache \in Seq(Entries(DOMAIN paid)) /\ Distinct(cache) /\ Len(cache) <= Capacity

\* Requests are served by a process that could create their embedder.
ProcessInv ==
    /\ \A r \in Requests : Active(r) => running /\ "EMBEDDING_PROVIDER" \in DOMAIN env
    /\ running /\ "EMBEDDING_PROVIDER" \in DOMAIN env => Embed!CreateEmbedder(env)

RequestsInv ==
    /\ \A r \in Requests : r \notin DOMAIN scenario.requests => req[r] = NewRequest
    /\ \A r \in DOMAIN scenario.requests :
        /\ \A i \in DOMAIN Texts(r) : Texts(r)[i] \in DOMAIN paid
        /\ Fits(scenario.requests[r], DOMAIN paid, req[r])

EmbedInv == CallsInv /\ CacheInv /\ ProcessInv /\ RequestsInv

\* Facts about the requests that may come.
LEMMA RequestFacts ==
    ASSUME EmbedInv, NEW r \in DOMAIN scenario.requests
    PROVE  /\ r \in Requests /\ Form(r) \in Forms
           /\ Len(Texts(r)) \in Nat /\ DOMAIN Texts(r) = 1 .. Len(Texts(r))
           /\ Form(r) = "search" => Len(Texts(r)) = 1
           /\ Texts(r) = <<>> <=> Len(Texts(r)) = 0
           /\ RequestInv(req[r]) /\ Fits(scenario.requests[r], DOMAIN paid, req[r])
<1>1. /\ r \in Requests /\ Form(r) \in Forms
      /\ Texts(r) \in Seq({Texts(r)[i] : i \in DOMAIN Texts(r)})
      /\ Form(r) = "search" => Len(Texts(r)) = 1
  BY ConstantsAssumption DEF EmbedInv, CallsInv, Form, Texts
<1>2. Texts(r) = <<>> <=> Len(Texts(r)) = 0
  BY <1>1, EmptySeq
<1>3. Len(Texts(r)) \in Nat /\ DOMAIN Texts(r) = 1 .. Len(Texts(r))
  BY <1>1
<1>4. RequestInv(req[r]) /\ Fits(scenario.requests[r], DOMAIN paid, req[r])
  BY <1>1 DEF EmbedInv, CallsInv, RequestsInv
<1> QED
  BY <1>1, <1>2, <1>3, <1>4

\* A step that gives one request another record, and leaves the cache alone,
\* keeps the invariant if what it gives fits.
LEMMA OneFits ==
    ASSUME EmbedInv, NEW r \in DOMAIN scenario.requests, NEW q,
           Fits(scenario.requests[r], DOMAIN paid, q),
           req' = [req EXCEPT ![r] = q], scenario' = scenario, DOMAIN paid' = DOMAIN paid
    PROVE  RequestsInv'
<1>1. r \in Requests
  BY RequestFacts
<1>2. ASSUME NEW x \in Requests, x \notin DOMAIN scenario.requests
      PROVE  req'[x] = NewRequest
  BY <1>2 DEF EmbedInv, CallsInv, RequestsInv
<1>3. ASSUME NEW x \in DOMAIN scenario.requests
      PROVE  /\ \A i \in DOMAIN Texts(x)' : Texts(x)'[i] \in DOMAIN paid'
             /\ Fits(scenario.requests[x], DOMAIN paid, req'[x])
  <2>1. x \in Requests /\ Fits(scenario.requests[x], DOMAIN paid, req[x])
    BY RequestFacts
  <2>2. \A i \in DOMAIN Texts(x)' : Texts(x)'[i] \in DOMAIN paid'
    BY DEF EmbedInv, RequestsInv, Texts
  <2>3. CASE x = r
    BY <2>2, <2>3, <1>1 DEF EmbedInv, CallsInv
  <2>4. CASE x # r
    BY <2>1, <2>2, <2>4, <1>1 DEF EmbedInv, CallsInv
  <2> QED
    BY <2>3, <2>4
<1> QED
  BY <1>2, <1>3 DEF RequestsInv

-----------------------------------------------------------------------------
(* Each of the records that a step gives a request fits.                   *)

\* A request may end at any time with a result that is none of success.
LEMMA DoneFits ==
    ASSUME EmbedInv, NEW r \in DOMAIN scenario.requests, req[r].pc # "done",
           NEW result \in Refusals \union ProviderErrors
    PROVE  Fits(scenario.requests[r], DOMAIN paid, Done(r, result))
<1> DEFINE q == Done(r, result)
           request == scenario.requests[r]
           known == DOMAIN paid
<1>1. RequestInv(req[r]) /\ Fits(request, known, req[r])
  BY RequestFacts
<1>2. /\ q.pc = "done" /\ q.result = result /\ q.got = req[r].got
      /\ q.delay = req[r].delay /\ q.attempts = req[r].attempts
  BY <1>1 DEF RequestInv, Fields, Done
<1>3. result # None /\ result # "ok" /\ result \in Results /\ None # "ok"
  BY NoneAssumption DEF Refusals, ProviderErrors, Results
<1> HIDE DEF q, request, known
<1>4. Timed(q)
  BY <1>1, <1>2, <1>3, ConstantsAssumption DEF Fits, Timed, Pcs, RequestInv, CallsCounted
<1>5. Answering(request, known, q)
  BY <1>1, <1>2, <1>3 DEF Fits, Answering, Served
<1>6. Routed(request, q)
  BY <1>2 DEF Routed
<1> QED
  BY <1>4, <1>5, <1>6 DEF Fits, q, request, known

\* A request that names texts looks up its first one, or after a pause the one
\* it is at, with a delay that was doubled and capped.
LEMMA LookupFits ==
    ASSUME EmbedInv, NEW r \in DOMAIN scenario.requests, NEW q, RequestInv(q),
           q.got = req[r].got, q.result = req[r].result, q.attempts = req[r].attempts,
           q.pc = "lookup",
           \/ req[r].pc = "new" /\ Texts(r) # <<>> /\ q.delay = req[r].delay
           \/ req[r].pc = "waiting" /\ q.delay = Embed!NextDelay(req[r].delay)
    PROVE  Fits(scenario.requests[r], DOMAIN paid, q)
<1> DEFINE request == scenario.requests[r]
           known == DOMAIN paid
<1>1. /\ RequestInv(req[r]) /\ Fits(request, known, req[r])
      /\ Len(Texts(r)) \in Nat /\ (Texts(r) = <<>> <=> Len(Texts(r)) = 0)
      /\ Texts(r) = request.texts
  BY RequestFacts DEF Texts
<1>2. req[r].result = None /\ None # "ok" /\ None # "lost" /\ req[r].pc \in {"new", "waiting"}
  BY <1>1, NoneAssumption DEF Fits, Timed, Refusals
<1> HIDE DEF request, known
<1>3. Timed(q)
  <2>1. /\ InitialDelay \in Nat /\ MaxDelay \in Nat /\ req[r].delay \in Nat
        /\ req[r].attempts \in Nat
    BY <1>1, ConstantsAssumption DEF RequestInv, CallsCounted, Fits, Timed
  <2>2. CASE req[r].pc = "new"
    BY <1>1, <1>2, <2>1, <2>2 DEF Fits, Timed, Pcs
  <2>3. CASE req[r].pc = "waiting" /\ q.delay = Embed!NextDelay(req[r].delay)
    <3>1. q.delay \in Nat /\ q.delay <= MaxDelay
      BY <2>1, <2>3 DEF Embed!NextDelay
    <3> QED
      BY <1>1, <1>2, <2>1, <2>3, <3>1 DEF Fits, Timed, Pcs
  <2> QED
    BY <2>2, <2>3
<1>4. Answering(request, known, q)
  <2>1. req[r].pc = "new" => Len(req[r].got) = 0 /\ Len(request.texts) > 0
    BY <1>1 DEF Fits, Answering
  <2> QED
    BY <1>1, <1>2, <2>1 DEF Fits, Answering, Served
<1>5. Routed(request, q)
  BY <1>1, <1>2 DEF Fits, Routed
<1> QED
  BY <1>3, <1>4, <1>5 DEF Fits, request, known

\* A vector of the text it is at brings the request to its next text, or to
\* what it wanted the vectors for.
LEMMA EmbeddedFits ==
    ASSUME EmbedInv, NEW r \in DOMAIN scenario.requests, req[r].pc \in {"lookup", "store"},
           NEW answer \in Answers(DOMAIN paid), answer.embedding = Text(r)
    PROVE  Fits(scenario.requests[r], DOMAIN paid, Embedded(r, answer))
<1> DEFINE request == scenario.requests[r]
           known == DOMAIN paid
           q == Embedded(r, answer)
           got == Append(req[r].got, answer)
<1>1. /\ RequestInv(req[r]) /\ Fits(request, known, req[r])
      /\ Len(Texts(r)) \in Nat /\ DOMAIN Texts(r) = 1 .. Len(Texts(r))
      /\ Texts(r) = request.texts /\ Form(r) = request.form
  BY RequestFacts DEF Texts, Form
<1>2. req[r].result = None /\ None # "ok" /\ None # "lost"
  BY <1>1, NoneAssumption DEF Fits, Timed, Refusals
<1>3. /\ req[r].got \in Seq(Answers(known)) /\ Len(req[r].got) < Len(Texts(r))
      /\ \A i \in DOMAIN req[r].got : req[r].got[i].embedding = Texts(r)[i]
  BY <1>1 DEF Fits, Answering
<1>4. /\ got \in Seq(Answers(known)) /\ Len(got) = Len(req[r].got) + 1
      /\ \A i \in 1 .. Len(req[r].got) : got[i] = req[r].got[i]
      /\ got[Len(req[r].got) + 1] = answer
  BY <1>3, AppendProperties
<1>5. /\ q.got = got /\ q.result = None /\ q.attempts = 0 /\ q.delay = InitialDelay
      /\ q.pc = IF Len(got) < Len(Texts(r)) THEN "lookup"
                ELSE IF Form(r) = "search" THEN "record" ELSE "insert"
  BY DEF Embedded, NewRequest
<1> HIDE DEF request, known, q, got
<1>7. Timed(q)
  BY <1>5, ConstantsAssumption DEF Timed, Pcs, Served, Results
<1>8. Len(req[r].got) \in Nat /\ DOMAIN req[r].got = 1 .. Len(req[r].got)
      /\ DOMAIN got = 1 .. Len(got)
  BY <1>3, <1>4
<1>9. \A i \in DOMAIN got : got[i].embedding = Texts(r)[i]
  <2>1. Texts(r)[Len(req[r].got) + 1] = answer.embedding
    BY DEF Text
  <2> QED
    BY <1>3, <1>4, <1>8, <2>1, SMTT(30)
<1>10. Answering(request, known, q)
  BY <1>1, <1>2, <1>3, <1>4, <1>5, <1>8, <1>9 DEF Answering, Served
<1>11. Routed(request, q)
  BY <1>1, <1>5 DEF Routed
<1> QED
  BY <1>7, <1>10, <1>11 DEF Fits, request, known, q

\* A call changes none of what the request has.
LEMMA CallingFits ==
    ASSUME EmbedInv, NEW r \in DOMAIN scenario.requests, req[r].pc = "lookup",
           NEW q, q.got = req[r].got, q.result = req[r].result, q.attempts = req[r].attempts,
           q.delay = req[r].delay, q.pc = "calling"
    PROVE  Fits(scenario.requests[r], DOMAIN paid, q)
<1>1. RequestInv(req[r]) /\ Fits(scenario.requests[r], DOMAIN paid, req[r])
  BY RequestFacts
<1>2. req[r].result = None /\ None # "ok"
  BY <1>1, NoneAssumption DEF Fits, Timed
<1> QED
  BY <1>1, <1>2, ConstantsAssumption
  DEF Fits, Timed, Answering, Routed, Pcs, Served, RequestInv, CallsCounted

\* Nor does a failed call, which makes it wait or fail.
LEMMA AfterErrorFits ==
    ASSUME EmbedInv, NEW r \in DOMAIN scenario.requests, req[r].pc = "calling",
           NEW error \in ProviderErrors
    PROVE  Fits(scenario.requests[r], DOMAIN paid, AfterError(r, error))
<1> DEFINE q == AfterError(r, error)
           request == scenario.requests[r]
           known == DOMAIN paid
<1>1. RequestInv(req[r]) /\ Fits(request, known, req[r])
  BY RequestFacts
<1>2. /\ q.got = req[r].got /\ q.delay = req[r].delay
      /\ \/ q.pc = "waiting" /\ q.result = req[r].result /\ q.attempts = req[r].attempts + 1
         \/ q.pc = "done" /\ q.result = error /\ q.attempts = req[r].attempts
  BY <1>1 DEF RequestInv, Fields, AfterError, Done
<1>3. error # None /\ error # "ok" /\ error \in Results /\ None # "ok" /\ None # "lost"
  BY NoneAssumption DEF Refusals, ProviderErrors, Results
<1>4. req[r].result = None
  BY <1>1 DEF Fits, Timed
<1> HIDE DEF q, request, known
<1>6. Timed(q)
  <2>1. /\ InitialDelay \in Nat /\ MaxDelay \in Nat /\ req[r].delay \in Nat
        /\ req[r].attempts \in Nat
    BY <1>1, ConstantsAssumption DEF RequestInv, CallsCounted, Fits, Timed
  <2> QED
    BY <1>1, <1>2, <1>3, <1>4, <2>1 DEF Fits, Timed, Pcs
<1>7. Answering(request, known, q)
  BY <1>1, <1>2, <1>3, <1>4 DEF Fits, Answering, Served
<1>8. Routed(request, q)
  BY <1>1, <1>2 DEF Fits, Routed
<1> QED
  BY <1>6, <1>7, <1>8 DEF Fits, q, request, known

\* An answer waits to be stored.
LEMMA AnswerFits ==
    ASSUME EmbedInv, NEW r \in DOMAIN scenario.requests, req[r].pc = "calling",
           NEW q, q.got = req[r].got, q.result = req[r].result, q.attempts = req[r].attempts,
           q.delay = req[r].delay, q.pc = "store",
           q.answer \in Answers(DOMAIN paid), q.answer.embedding = Text(r)
    PROVE  Fits(scenario.requests[r], DOMAIN paid, q)
<1>1. RequestInv(req[r]) /\ Fits(scenario.requests[r], DOMAIN paid, req[r])
  BY RequestFacts
<1>2. req[r].result = None /\ None # "ok"
  BY <1>1, NoneAssumption DEF Fits, Timed
<1>3. Timed(q)
  BY <1>1, <1>2, ConstantsAssumption DEF Fits, Timed, Pcs, RequestInv, CallsCounted
<1>4. Answering(scenario.requests[r], DOMAIN paid, q)
  BY <1>1, <1>2 DEF Fits, Answering, Served, Text, Texts
<1>5. Routed(scenario.requests[r], q)
  BY <1>1, <1>2 DEF Fits, Routed
<1> QED
  BY <1>3, <1>4, <1>5 DEF Fits

\* What follows the last vector changes none of what the request has.
LEMMA ServedFits ==
    ASSUME EmbedInv, NEW r \in DOMAIN scenario.requests, req[r].pc \in {"insert"} \union Served,
           NEW pc \in Served, pc \in {"budget", "stuck"} => Form(r) # "search",
           pc = "search" => Form(r) = "search"
    PROVE  Fits(scenario.requests[r], DOMAIN paid, [req[r] EXCEPT !.pc = pc])
<1> DEFINE q == [req[r] EXCEPT !.pc = pc]
<1>1. RequestInv(req[r]) /\ Fits(scenario.requests[r], DOMAIN paid, req[r])
  BY RequestFacts
<1>2. /\ q.pc = pc /\ q.result = req[r].result /\ q.got = req[r].got
      /\ q.delay = req[r].delay /\ q.attempts = req[r].attempts
  BY <1>1 DEF RequestInv, Fields
<1>3. req[r].result = None /\ None # "ok"
  BY <1>1, NoneAssumption DEF Fits, Timed, Served
<1> HIDE DEF q
<1>4. Timed(q)
  BY <1>1, <1>2, <1>3, ConstantsAssumption
  DEF Fits, Timed, Pcs, Served, RequestInv, CallsCounted
<1>5. Answering(scenario.requests[r], DOMAIN paid, q)
  BY <1>1, <1>2, <1>3 DEF Fits, Answering, Served
<1>6. Routed(scenario.requests[r], q)
  BY <1>2 DEF Routed, Form, Served
<1> QED
  BY <1>4, <1>5, <1>6 DEF Fits, q

\* A request that is answered has all the vectors.
LEMMA OkFits ==
    ASSUME EmbedInv, NEW r \in DOMAIN scenario.requests, req[r].pc \in Served
    PROVE  Fits(scenario.requests[r], DOMAIN paid, Done(r, "ok"))
<1> DEFINE q == Done(r, "ok")
<1>1. RequestInv(req[r]) /\ Fits(scenario.requests[r], DOMAIN paid, req[r])
  BY RequestFacts
<1>2. /\ q.pc = "done" /\ q.result = "ok" /\ q.got = req[r].got
      /\ q.delay = req[r].delay /\ q.attempts = req[r].attempts
  BY <1>1 DEF RequestInv, Fields, Done
<1>3. None # "ok" /\ "ok" \in Results
  BY NoneAssumption DEF Results
<1> HIDE DEF q
<1>4. Timed(q)
  BY <1>1, <1>2, <1>3, ConstantsAssumption DEF Fits, Timed, Pcs, RequestInv, CallsCounted
<1>5. Answering(scenario.requests[r], DOMAIN paid, q)
  BY <1>1, <1>2, <1>3 DEF Fits, Answering
<1>6. Routed(scenario.requests[r], q)
  BY <1>1, <1>2, <1>3 DEF Fits, Routed
<1> QED
  BY <1>4, <1>5, <1>6 DEF Fits, q

-----------------------------------------------------------------------------
(* Every step keeps what a request has, and the cache.                     *)

\* A request that is served stays with its process.
LEMMA OneServed ==
    ASSUME EmbedInv, NEW r \in DOMAIN scenario.requests, NEW q,
           q.pc \in {"new", "done"} \/ Active(r)
               \/ (running /\ "EMBEDDING_PROVIDER" \in DOMAIN env),
           req' = [req EXCEPT ![r] = q], UNCHANGED <<running, scenario>>
    PROVE  ProcessInv'
<1>1. r \in Requests
  BY RequestFacts
<1>2. env' = env /\ running' = running
  BY DEF env
<1>3. ASSUME NEW x \in Requests, req'[x].pc \notin {"new", "done"}
      PROVE  running /\ "EMBEDDING_PROVIDER" \in DOMAIN env
  <2>1. CASE x = r
    BY <1>1, <1>3, <2>1 DEF EmbedInv, CallsInv, ProcessInv
  <2>2. CASE x # r
    BY <1>1, <1>3, <2>2 DEF EmbedInv, CallsInv, ProcessInv, Active
  <2> QED
    BY <2>1, <2>2
<1> QED
  BY <1>2, <1>3 DEF EmbedInv, ProcessInv, Active

\* A step that only gives one request another record.
LEMMA OneStep ==
    ASSUME EmbedInv, NEW r \in DOMAIN scenario.requests, NEW q,
           Fits(scenario.requests[r], DOMAIN paid, q),
           q.pc \in {"new", "done"} \/ Active(r)
               \/ (running /\ "EMBEDDING_PROVIDER" \in DOMAIN env),
           req' = [req EXCEPT ![r] = q], UNCHANGED <<running, scenario>>,
           DOMAIN paid' = DOMAIN paid
    PROVE  RequestsInv' /\ ProcessInv'
BY OneFits, OneServed

\* A step that leaves the cache alone.
LEMMA SameCache ==
    ASSUME EmbedInv, cache' = cache, DOMAIN paid' = DOMAIN paid
    PROVE  CacheInv'
BY DEF EmbedInv, CacheInv, Distinct

\* A request ends without success.
LEMMA EndsFits ==
    ASSUME EmbedInv, NEW r \in DOMAIN scenario.requests, NEW result \in Refusals,
           req[r].pc # "done", Ends(r, result), UNCHANGED <<running, scenario, cache, paid>>
    PROVE  RequestsInv' /\ ProcessInv' /\ CacheInv'
<1>1. Done(r, result).pc = "done"
  BY RequestFacts DEF RequestInv, Fields, Done
<1>2. Fits(scenario.requests[r], DOMAIN paid, Done(r, result))
  BY DoneFits
<1> QED
  BY <1>1, <1>2, OneStep, SameCache DEF Ends

\* embed_text refuses the request or serves it.
LEMMA ReceiveEmbedFits ==
    ASSUME EmbedInv, NEW r \in DOMAIN scenario.requests, ReceiveEmbed(r)
    PROVE  RequestsInv' /\ ProcessInv' /\ CacheInv'
<1>1. /\ running /\ req[r].pc = "new"
      /\ UNCHANGED <<running, scenario, cache, paid>>
  BY DEF ReceiveEmbed, process, history
<1>2. CASE Ends(r, "failed") \/ Ends(r, "unavailable") \/ Ends(r, "invalid")
  BY <1>1, <1>2, EndsFits DEF Refusals
<1>3. CASE /\ "EMBEDDING_PROVIDER" \in DOMAIN env /\ Texts(r) # <<>>
           /\ req' = [req EXCEPT ![r].pc = "lookup"]
  <2> DEFINE q == [req[r] EXCEPT !.pc = "lookup"]
  <2>1. r \in Requests /\ RequestInv(req[r])
    BY RequestFacts
  <2>2. req' = [req EXCEPT ![r] = q]
    BY <1>3
  <2>3. /\ q.got = req[r].got /\ q.result = req[r].result /\ q.attempts = req[r].attempts
        /\ q.pc = "lookup" /\ q.delay = req[r].delay
    BY <2>1 DEF RequestInv, Fields
  <2>4. RequestInv(q)
    <3>1. DOMAIN q = Fields /\ q = [f \in Fields |-> q[f]]
      BY <2>1 DEF RequestInv, Fields
    <3>2. CallsCounted(q)
      BY <1>1, <2>1, ConstantFacts DEF RequestInv, Fields, CallsCounted
    <3> QED
      BY <3>1, <3>2 DEF RequestInv
  <2> HIDE DEF q
  <2>5. Fits(scenario.requests[r], DOMAIN paid, q)
    BY <1>1, <1>3, <2>3, <2>4, LookupFits
  <2> QED
    BY <1>1, <1>3, <2>2, <2>5, OneStep, SameCache
<1> QED
  BY <1>2, <1>3 DEF ReceiveEmbed

\* So does search_by_text.
LEMMA ReceiveSearchFits ==
    ASSUME EmbedInv, NEW r \in DOMAIN scenario.requests, ReceiveSearch(r)
    PROVE  RequestsInv' /\ ProcessInv' /\ CacheInv'
<1>1. /\ running /\ req[r].pc = "new" /\ Form(r) = "search"
      /\ UNCHANGED <<running, scenario, cache, paid>>
  BY DEF ReceiveSearch, process, history
<1>2. CASE Ends(r, "not found") \/ Ends(r, "failed") \/ Ends(r, "unavailable")
  BY <1>1, <1>2, EndsFits DEF Refusals
<1>3. CASE "EMBEDDING_PROVIDER" \in DOMAIN env /\ req' = [req EXCEPT ![r].pc = "lookup"]
  <2>1. r \in Requests /\ RequestInv(req[r]) /\ Texts(r) # <<>>
    <3>1. r \in Requests /\ RequestInv(req[r]) /\ (Texts(r) = <<>> <=> Len(Texts(r)) = 0)
      BY RequestFacts
    <3>2. Len(Texts(r)) = 1
      BY <1>1, RequestFacts
    <3> QED
      BY <3>1, <3>2
  <2> DEFINE q == [req[r] EXCEPT !.pc = "lookup"]
  <2>2. req' = [req EXCEPT ![r] = q]
    BY <1>3
  <2>3. /\ q.got = req[r].got /\ q.result = req[r].result /\ q.attempts = req[r].attempts
        /\ q.pc = "lookup" /\ q.delay = req[r].delay
    BY <2>1 DEF RequestInv, Fields
  <2>4. RequestInv(q)
    <3>1. DOMAIN q = Fields /\ q = [f \in Fields |-> q[f]]
      BY <2>1 DEF RequestInv, Fields
    <3>2. CallsCounted(q)
      BY <1>1, <2>1, ConstantFacts DEF RequestInv, Fields, CallsCounted
    <3> QED
      BY <3>1, <3>2 DEF RequestInv
  <2> HIDE DEF q
  <2>5. Fits(scenario.requests[r], DOMAIN paid, q)
    BY <1>1, <2>1, <2>3, <2>4, LookupFits
  <2> QED
    BY <1>1, <1>3, <2>2, <2>5, OneStep, SameCache
<1> QED
  BY <1>2, <1>3 DEF ReceiveSearch

\* What the cache holds for a text is its vector.
LEMMA LookupHitsFits ==
    ASSUME EmbedInv, NEW r \in DOMAIN scenario.requests, LookupHits(r)
    PROVE  RequestsInv' /\ ProcessInv' /\ CacheInv'
<1> DEFINE E == Entries(DOMAIN paid)
           t == Embed!Touch(cache, Text(r))
           answer == Embed!Hit(cache, Text(r))
<1>1. /\ req[r].pc = "lookup" /\ Text(r) \in Embed!Keys(cache) /\ cache' = t
      /\ req' = [req EXCEPT ![r] = Embedded(r, answer)]
      /\ UNCHANGED <<running, scenario, paid>>
  BY DEF LookupHits, process, stored, history
<1>2. cache \in Seq(E) /\ Distinct(cache) /\ Len(cache) <= Capacity
  BY DEF EmbedInv, CacheInv
<1>3. /\ t \in Seq(E) /\ Distinct(t) /\ Len(t) = Len(cache)
      /\ Embed!Entry(cache, Text(r)) \in E /\ Embed!Entry(cache, Text(r)).text = Text(r)
  BY <1>1, <1>2, TouchFacts
<1>4. answer \in Answers(DOMAIN paid) /\ answer.embedding = Text(r)
  BY <1>3 DEF Entries, Answers, Embed!Hit, Embed!Answered
<1>5. Fits(scenario.requests[r], DOMAIN paid, Embedded(r, answer))
  BY <1>1, <1>4, EmbeddedFits
<1>6. CacheInv'
  BY <1>1, <1>2, <1>3 DEF CacheInv, Distinct
<1>7. Active(r)
  BY <1>1 DEF Active
<1> QED
  BY <1>1, <1>5, <1>6, <1>7, OneStep

\* What is stored in the cache is the vector of its text.
LEMMA StoreFits ==
    ASSUME EmbedInv, NEW r \in DOMAIN scenario.requests, Store(r)
    PROVE  RequestsInv' /\ ProcessInv' /\ CacheInv'
<1> DEFINE E == Entries(DOMAIN paid)
           answer == req[r].answer
           t == Embed!Put(cache, Text(r), answer.embedding)
<1>1. /\ req[r].pc = "store" /\ cache' = t
      /\ req' = [req EXCEPT ![r] = Embedded(r, answer)]
      /\ UNCHANGED <<running, scenario, paid>>
  BY DEF Store, process, stored
<1>2. answer \in Answers(DOMAIN paid) /\ answer.embedding = Text(r)
  BY <1>1, RequestFacts DEF Fits, Answering, Text, Texts
<1>3. [text |-> Text(r), embedding |-> answer.embedding] \in E
  BY <1>2 DEF Entries, Answers, Embed!Answered
<1>4. cache \in Seq(E) /\ Distinct(cache) /\ Len(cache) <= Capacity
  BY DEF EmbedInv, CacheInv
<1>5. t \in Seq(E) /\ Distinct(t) /\ Len(t) <= Capacity
  BY <1>3, <1>4, PutFacts
<1>6. Fits(scenario.requests[r], DOMAIN paid, Embedded(r, answer))
  BY <1>1, <1>2, EmbeddedFits
<1>7. CacheInv'
  BY <1>1, <1>5 DEF CacheInv, Distinct
<1>8. Active(r)
  BY <1>1 DEF Active
<1> QED
  BY <1>1, <1>6, <1>7, <1>8, OneStep

\* Only what no answer is known for is asked for.
LEMMA LookupMissesFits ==
    ASSUME EmbedInv, NEW r \in DOMAIN scenario.requests, LookupMisses(r)
    PROVE  RequestsInv' /\ ProcessInv' /\ CacheInv'
<1> DEFINE q == [req[r] EXCEPT !.pc = "calling",
                               !.calls = IF req[r].calls < MaxRetries + 2
                                         THEN req[r].calls + 1 ELSE req[r].calls]
<1>1. /\ req[r].pc = "lookup" /\ UNCHANGED <<running, scenario, cache, paid>>
      /\ req' = [req EXCEPT ![r] = q]
  BY DEF LookupMisses, process, stored
<1>2. RequestInv(req[r])
  BY RequestFacts
<1>3. /\ q.got = req[r].got /\ q.result = req[r].result /\ q.attempts = req[r].attempts
      /\ q.delay = req[r].delay /\ q.pc = "calling"
  BY <1>2 DEF RequestInv, Fields
<1> HIDE DEF q
<1>4. Fits(scenario.requests[r], DOMAIN paid, q)
  BY <1>1, <1>3, CallingFits
<1>5. Active(r)
  BY <1>1 DEF Active
<1> QED
  BY <1>1, <1>4, <1>5, OneStep, SameCache

\* The pause is over.
LEMMA WakeFits ==
    ASSUME EmbedInv, NEW r \in DOMAIN scenario.requests, Wake(r)
    PROVE  RequestsInv' /\ ProcessInv' /\ CacheInv'
<1> DEFINE q == [req[r] EXCEPT !.pc = "lookup", !.delay = Embed!NextDelay(req[r].delay)]
<1>1. /\ req[r].pc = "waiting" /\ UNCHANGED <<running, scenario, cache, paid>>
      /\ req' = [req EXCEPT ![r] = q]
  BY DEF Wake, process, stored, history
<1>2. RequestInv(req[r])
  BY RequestFacts
<1>3. /\ q.got = req[r].got /\ q.result = req[r].result /\ q.attempts = req[r].attempts
      /\ q.pc = "lookup" /\ q.delay = Embed!NextDelay(req[r].delay)
  BY <1>2 DEF RequestInv, Fields
<1>4. RequestInv(q)
  <2>1. DOMAIN q = Fields /\ q = [f \in Fields |-> q[f]]
    BY <1>2 DEF RequestInv, Fields
  <2>2. CallsCounted(q)
    BY <1>1, <1>2, ConstantFacts DEF RequestInv, Fields, CallsCounted
  <2> QED
    BY <2>1, <2>2 DEF RequestInv
<1> HIDE DEF q
<1>5. Fits(scenario.requests[r], DOMAIN paid, q)
  BY <1>1, <1>3, <1>4, LookupFits
<1>6. Active(r)
  BY <1>1 DEF Active
<1> QED
  BY <1>1, <1>5, <1>6, OneStep, SameCache

\* After an error the request waits or ends.
LEMMA ErrorFits ==
    ASSUME EmbedInv, NEW r \in DOMAIN scenario.requests, req[r].pc = "calling",
           NEW error \in ProviderErrors, req' = [req EXCEPT ![r] = AfterError(r, error)],
           UNCHANGED <<running, scenario, cache>>, DOMAIN paid' = DOMAIN paid
    PROVE  RequestsInv' /\ ProcessInv' /\ CacheInv'
<1>1. Fits(scenario.requests[r], DOMAIN paid, AfterError(r, error))
  BY AfterErrorFits
<1>2. Active(r)
  BY DEF Active
<1> QED
  BY <1>1, <1>2, OneStep, SameCache

\* The providers answer a call with the vector of the text, or one of their errors.
LEMMA ProviderFacts ==
    ASSUME EmbedInv, NEW r \in DOMAIN scenario.requests, req[r].pc = "calling",
           NEW answer \in Embed!ProviderEmbed(env.EMBEDDING_PROVIDER, Text(r))
    PROVE  /\ answer.error # None => answer.error \in ProviderErrors
           /\ answer.error = None =>
                answer \in Answers(DOMAIN paid) /\ answer.embedding = Text(r)
<1> DEFINE provider == env.EMBEDDING_PROVIDER
           text == Text(r)
<1>1. r \in Requests /\ Active(r)
  BY RequestFacts DEF Active
<1>2. provider \in {"openai", "ollama", "local"}
  BY <1>1 DEF EmbedInv, ProcessInv, Embed!CreateEmbedder
<1>3. text \in DOMAIN paid
  <2>1. /\ Len(req[r].got) < Len(Texts(r)) /\ req[r].got \in Seq(Answers(DOMAIN paid))
        /\ Len(Texts(r)) \in Nat /\ DOMAIN Texts(r) = 1 .. Len(Texts(r))
    BY RequestFacts DEF Fits, Answering, Texts
  <2>2. Len(req[r].got) + 1 \in DOMAIN Texts(r)
    BY <2>1
  <2> QED
    BY <2>2 DEF EmbedInv, RequestsInv, Text
<1> HIDE DEF provider, text
<1>4. \/ answer \in {Embed!Answered(text, 1), Embed!Answered(text, None)}
      \/ \E e \in ProviderErrors : answer = Embed!FailedWith(e)
  <2>1. answer \in Embed!ProviderEmbed(provider, text)
    BY DEF provider, text
  <2>2. CASE provider = "openai"
    BY <2>1, <2>2 DEF Embed!ProviderEmbed, Embed!OpenAIEmbed, Embed!RequestFailed, ProviderErrors
  <2>3. CASE provider = "ollama"
    BY <2>1, <2>3 DEF Embed!ProviderEmbed, Embed!OllamaEmbed, Embed!RequestFailed, ProviderErrors
  <2>4. CASE provider = "local"
    BY <2>1, <2>4 DEF Embed!ProviderEmbed, Embed!LocalEmbed, Embed!RequestFailed, ProviderErrors
  <2> QED
    BY <1>2, <2>2, <2>3, <2>4
<1>5. CASE answer \in {Embed!Answered(text, 1), Embed!Answered(text, None)}
  BY <1>3, <1>5 DEF Answers, Embed!Answered, text
<1>6. CASE \E e \in ProviderErrors : answer = Embed!FailedWith(e)
  BY <1>6, ConstantFacts DEF Embed!FailedWith
<1> QED
  BY <1>4, <1>5, <1>6

\* The provider answers.
LEMMA ReplyFits ==
    ASSUME EmbedInv, NEW r \in DOMAIN scenario.requests, Reply(r)
    PROVE  RequestsInv' /\ ProcessInv' /\ CacheInv'
<1>1. /\ req[r].pc = "calling" /\ UNCHANGED <<running, scenario, cache>>
  BY DEF Reply, process, stored
<1>2. PICK answer \in Embed!ProviderEmbed(env.EMBEDDING_PROVIDER, Text(r)) :
        IF answer.error # None
        THEN /\ req' = [req EXCEPT ![r] = AfterError(r, answer.error)]
             /\ UNCHANGED paid
        ELSE /\ req' = [req EXCEPT ![r].pc = "store", ![r].answer = answer]
             /\ paid' = [paid EXCEPT ![Text(r)] = IF @ < 2 THEN @ + 1 ELSE @]
  BY DEF Reply
<1>3. /\ answer.error # None => answer.error \in ProviderErrors
      /\ answer.error = None => answer \in Answers(DOMAIN paid) /\ answer.embedding = Text(r)
  BY <1>1, ProviderFacts
<1>4. CASE answer.error # None
  BY <1>1, <1>2, <1>3, <1>4, ErrorFits
<1>5. CASE answer.error = None
  <2> DEFINE q == [req[r] EXCEPT !.pc = "store", !.answer = answer]
  <2>1. r \in Requests /\ RequestInv(req[r])
    BY RequestFacts
  <2>2. req' = [req EXCEPT ![r] = q] /\ DOMAIN paid' = DOMAIN paid
    BY <1>2, <1>5, <2>1 DEF EmbedInv, CallsInv
  <2>3. /\ q.got = req[r].got /\ q.result = req[r].result /\ q.attempts = req[r].attempts
        /\ q.delay = req[r].delay /\ q.pc = "store" /\ q.answer = answer
    BY <2>1 DEF RequestInv, Fields
  <2> HIDE DEF q
  <2>4. Fits(scenario.requests[r], DOMAIN paid, q)
    BY <1>1, <1>3, <1>5, <2>3, AnswerFits
  <2>5. Active(r)
    BY <1>1 DEF Active
  <2> QED
    BY <1>1, <2>2, <2>4, <2>5, OneStep, SameCache
<1> QED
  BY <1>4, <1>5

\* The client of the provider gives up.
LEMMA TimeOutFits ==
    ASSUME EmbedInv, NEW r \in DOMAIN scenario.requests, TimeOut(r)
    PROVE  RequestsInv' /\ ProcessInv' /\ CacheInv'
<1>1. Embed!RequestFailed.error \in ProviderErrors
  BY DEF Embed!RequestFailed, Embed!FailedWith, ProviderErrors
<1> QED
  BY <1>1, ErrorFits DEF TimeOut, process, stored, history

\* A request with all its vectors goes on.
LEMMA GoesOnFits ==
    ASSUME EmbedInv, NEW r \in DOMAIN scenario.requests, req[r].pc \in {"insert"} \union Served,
           NEW pc \in Served, pc \in {"budget", "stuck"} => Form(r) # "search",
           pc = "search" => Form(r) = "search",
           req' = [req EXCEPT ![r].pc = pc], UNCHANGED <<running, scenario, cache, paid>>
    PROVE  RequestsInv' /\ ProcessInv' /\ CacheInv'
<1>1. Fits(scenario.requests[r], DOMAIN paid, [req[r] EXCEPT !.pc = pc])
  BY ServedFits
<1>2. Active(r)
  BY DEF Active, Served
<1> QED
  BY <1>1, <1>2, OneStep, SameCache

\* An insertion goes on to the budget of the caches, or ends.
LEMMA InsertStepFits ==
    ASSUME EmbedInv, NEW r \in DOMAIN scenario.requests, Insert(r)
    PROVE  RequestsInv' /\ ProcessInv' /\ CacheInv'
<1>1. req[r].pc = "insert" /\ UNCHANGED <<running, scenario, cache, paid>>
  BY DEF Insert, process, history
<1>2. CASE Ends(r, "failed") \/ Ends(r, "refused")
  BY <1>1, <1>2, EndsFits DEF Refusals
<1>3. CASE req' = [req EXCEPT ![r].pc = "budget"]
  <2>1. Form(r) # "search"
    BY <1>1, RequestFacts DEF Fits, Routed, Form
  <2> QED
    BY <1>1, <1>3, <2>1, GoesOnFits DEF Served
<1> QED
  BY <1>2, <1>3 DEF Insert, StoresAll, StoresNone, Exceeds, Ends

\* It passes on, or waits for ever.
LEMMA BudgetFits ==
    ASSUME EmbedInv, NEW r \in DOMAIN scenario.requests, Budget(r)
    PROVE  RequestsInv' /\ ProcessInv' /\ CacheInv'
<1>1. req[r].pc = "budget" /\ UNCHANGED <<running, scenario, cache, paid>>
  BY DEF Budget, process, stored, history
<1>2. Form(r) # "search"
  BY <1>1, RequestFacts DEF Fits, Routed, Form
<1>3. PICK pc \in {"stuck", "record"} : req' = [req EXCEPT ![r].pc = pc]
  BY DEF Budget
<1> QED
  BY <1>1, <1>2, <1>3, GoesOnFits DEF Served

\* A request with all its vectors is answered.
LEMMA OkStepFits ==
    ASSUME EmbedInv, NEW r \in DOMAIN scenario.requests, req[r].pc \in Served, Ends(r, "ok"),
           UNCHANGED <<running, scenario, cache, paid>>
    PROVE  RequestsInv' /\ ProcessInv' /\ CacheInv'
<1>1. Active(r)
  BY DEF Active, Served
<1> QED
  BY <1>1, OkFits, OneStep, SameCache DEF Ends

\* The request is counted; an insertion is answered, a search goes on or is refused.
LEMMA RecordFits ==
    ASSUME EmbedInv, NEW r \in DOMAIN scenario.requests, Record(r)
    PROVE  RequestsInv' /\ ProcessInv' /\ CacheInv'
<1>1. req[r].pc = "record" /\ UNCHANGED <<running, scenario, cache, paid>>
  BY DEF Record, process, stored, history
<1>2. CASE Ends(r, "ok")
  BY <1>1, <1>2, OkStepFits DEF Served
<1>3. CASE Ends(r, "invalid query")
  BY <1>1, <1>3, EndsFits DEF Refusals
<1>4. CASE Form(r) = "search" /\ req' = [req EXCEPT ![r].pc = "search"]
  BY <1>1, <1>4, GoesOnFits DEF Served
<1> QED
  BY <1>2, <1>3, <1>4 DEF Record, Ends

\* A search is answered, refused or fails.
LEMMA SearchFits ==
    ASSUME EmbedInv, NEW r \in DOMAIN scenario.requests, Search(r)
    PROVE  RequestsInv' /\ ProcessInv' /\ CacheInv'
<1>1. req[r].pc = "search" /\ UNCHANGED <<running, scenario, cache, paid>>
  BY DEF Search, process, stored, history
<1>2. CASE Ends(r, "ok")
  BY <1>1, <1>2, OkStepFits DEF Served
<1>3. CASE Ends(r, "invalid query") \/ Ends(r, "search failed")
  BY <1>1, <1>3, EndsFits DEF Refusals
<1> QED
  BY <1>2, <1>3 DEF Search

\* A reload that is refused loses the requests that are served.
LEMMA ReloadExitsFits ==
    ASSUME EmbedInv, ReloadExits
    PROVE  RequestsInv' /\ ProcessInv' /\ CacheInv'
<1>1. /\ running' = FALSE /\ UNCHANGED <<scenario, cache, paid>>
      /\ req' = [r \in Requests |-> IF Active(r) THEN Done(r, "lost") ELSE req[r]]
  BY DEF ReloadExits, stored
<1>2. \A r \in Requests : req'[r].pc \in {"new", "done"}
  BY <1>1 DEF Active, Done, EmbedInv, CallsInv, RequestInv, Fields
<1>3. ProcessInv'
  BY <1>1, <1>2 DEF ProcessInv, Active
<1>4. ASSUME NEW r \in DOMAIN scenario.requests
      PROVE  Fits(scenario.requests[r], DOMAIN paid, req'[r])
  <2>1. r \in Requests /\ Fits(scenario.requests[r], DOMAIN paid, req[r])
    BY RequestFacts
  <2>2. Active(r) => Fits(scenario.requests[r], DOMAIN paid, Done(r, "lost"))
    BY DoneFits DEF Refusals, Active
  <2> QED
    BY <1>1, <2>1, <2>2
<1>5. ASSUME NEW r \in Requests, r \notin DOMAIN scenario.requests
      PROVE  req'[r] = NewRequest
  BY <1>1, <1>5 DEF EmbedInv, RequestsInv, Active, NewRequest
<1>6. RequestsInv'
  BY <1>1, <1>4, <1>5 DEF EmbedInv, RequestsInv, Texts
<1> QED
  BY <1>1, <1>3, <1>6, SameCache

\* A process starts with a provider that it could create, and nothing cached.
LEMMA StartFits ==
    ASSUME EmbedInv, Start
    PROVE  RequestsInv' /\ ProcessInv' /\ CacheInv'
<1>1. /\ ~running /\ running' = TRUE /\ cache' = <<>>
      /\ "EMBEDDING_PROVIDER" \in DOMAIN env => Embed!CreateEmbedder(env)
      /\ UNCHANGED <<scenario, req, paid>>
  BY DEF Start
<1>2. env' = env
  BY <1>1 DEF env
<1>3. ProcessInv'
  <2>1. \A r \in Requests : ~Active(r)
    BY <1>1 DEF EmbedInv, ProcessInv
  <2> QED
    BY <1>1, <1>2, <2>1 DEF ProcessInv, Active
<1>4. CacheInv'
  <2>1. <<>> \in Seq(Entries(DOMAIN paid)) /\ Len(<<>>) = 0 /\ DOMAIN <<>> = {}
    BY EmptySeq
  <2>2. 0 <= Capacity
    BY ConstantsAssumption
  <2> QED
    BY <1>1, <2>1, <2>2 DEF CacheInv, Distinct
<1>5. RequestsInv'
  BY <1>1 DEF EmbedInv, RequestsInv, Texts
<1> QED
  BY <1>3, <1>4, <1>5

\* What the configuration says is nothing to the requests.
LEMMA UnchangedFits ==
    ASSUME EmbedInv, UNCHANGED <<scenario, running, cache, req, paid>>
    PROVE  RequestsInv' /\ ProcessInv' /\ CacheInv'
<1>1. env' = env
  BY DEF env
<1>2. ProcessInv'
  BY <1>1 DEF EmbedInv, ProcessInv, Active
<1>3. RequestsInv'
  BY DEF EmbedInv, RequestsInv, Texts
<1> QED
  BY <1>2, <1>3, SameCache

\* Initially nothing is cached, stored or asked for.
LEMMA InitEmbed == Init => EmbedInv
<1> SUFFICES ASSUME Init PROVE EmbedInv
  OBVIOUS
<1>1. CallsInv
  BY InitCounted
<1>2. CacheInv
  <2>1. cache \in Seq(Entries(DOMAIN paid)) /\ Len(cache) = 0 /\ DOMAIN cache = {}
    BY EmptySeq DEF Init
  <2>2. 0 <= Capacity
    BY ConstantsAssumption
  <2> QED
    BY <2>1, <2>2 DEF CacheInv, Distinct
<1>3. ProcessInv
  BY DEF Init, ProcessInv, Active, NewRequest
<1>4. ASSUME NEW r \in DOMAIN scenario.requests
      PROVE  Fits(scenario.requests[r], DOMAIN paid, NewRequest)
  <2>1. /\ Texts(r) \in Seq({Texts(r)[i] : i \in DOMAIN Texts(r)})
        /\ Texts(r) = scenario.requests[r].texts
    BY ConstantsAssumption DEF Init, Texts
  <2>2. Len(Texts(r)) \in Nat
    BY <2>1
  <2>3. /\ None # "ok" /\ None \in Results /\ InitialDelay \in Nat
    BY NoneAssumption, ConstantsAssumption DEF Results
  <2>4. Timed(NewRequest)
    BY <2>3 DEF NewRequest, Timed, Pcs
  <2>5. <<>> \in Seq(Answers(DOMAIN paid)) /\ Len(<<>>) = 0 /\ DOMAIN <<>> = {}
    BY EmptySeq
  <2>6. Answering(scenario.requests[r], DOMAIN paid, NewRequest)
    BY <2>1, <2>2, <2>3, <2>5 DEF NewRequest, Answering, Served
  <2>7. Routed(scenario.requests[r], NewRequest)
    BY DEF NewRequest, Routed
  <2> QED
    BY <2>4, <2>6, <2>7 DEF Fits
<1>5. \A r \in DOMAIN scenario.requests : r \in Requests
  BY ConstantsAssumption DEF Init
<1>6. \A r \in DOMAIN scenario.requests : \A i \in DOMAIN Texts(r) : Texts(r)[i] \in DOMAIN paid
  BY DEF Init
<1>7. RequestsInv
  BY <1>4, <1>5, <1>6 DEF Init, RequestsInv
<1> QED
  BY <1>1, <1>2, <1>3, <1>7 DEF EmbedInv

\* Every step keeps what the requests have, and the cache.
LEMMA NextEmbed == EmbedInv /\ [Next]_vars => EmbedInv'
<1> SUFFICES ASSUME EmbedInv, [Next]_vars PROVE EmbedInv'
  OBVIOUS
<1>1. CallsInv'
  BY NextCounted DEF EmbedInv
<1> SUFFICES RequestsInv' /\ ProcessInv' /\ CacheInv'
  BY <1>1 DEF EmbedInv
<1>2. CASE Start
  BY <1>2, StartFits
<1>3. CASE EditFile \/ Reload
  BY <1>3, UnchangedFits DEF EditFile, Reload, stored, history
<1>4. CASE ReloadExits
  BY <1>4, ReloadExitsFits
<1>5. ASSUME NEW r \in DOMAIN scenario.requests,
             ReceiveEmbed(r) \/ ReceiveSearch(r) \/ Step(r) \/ Reply(r) \/ TimeOut(r)
      PROVE  RequestsInv' /\ ProcessInv' /\ CacheInv'
  <2>1. CASE ReceiveEmbed(r)
    BY <2>1, ReceiveEmbedFits
  <2>2. CASE ReceiveSearch(r)
    BY <2>2, ReceiveSearchFits
  <2>3. CASE LookupHits(r)
    BY <2>3, LookupHitsFits
  <2>4. CASE LookupMisses(r)
    BY <2>4, LookupMissesFits
  <2>5. CASE Wake(r)
    BY <2>5, WakeFits
  <2>6. CASE Store(r)
    BY <2>6, StoreFits
  <2>7. CASE Insert(r)
    BY <2>7, InsertStepFits
  <2>8. CASE Budget(r) \/ Record(r) \/ Search(r)
    BY <2>8, BudgetFits, RecordFits, SearchFits
  <2>9. CASE Reply(r)
    BY <2>9, ReplyFits
  <2>10. CASE TimeOut(r)
    BY <2>10, TimeOutFits
  <2> QED
    BY <1>5, <2>1, <2>2, <2>3, <2>4, <2>5, <2>6, <2>7, <2>8, <2>9, <2>10 DEF Step
<1>6. CASE UNCHANGED vars
  BY <1>6, UnchangedFits DEF vars, process, stored, history
<1> QED
  BY <1>2, <1>3, <1>4, <1>5, <1>6 DEF Next

-----------------------------------------------------------------------------
(* Where the documents of a request are: nowhere before its insertion;     *)
(* stored from then on if it goes on; stored, or in the log, or nowhere if *)
(* it ended with an error; and stored out of the log in a later process.   *)

AllDocuments(texts) == [i \in DOMAIN texts |-> [text |-> texts[i], embedding |-> texts[i]]]
Prefixes(texts) == {SubSeq(AllDocuments(texts), 1, n) : n \in 0 .. Len(texts)}
Storing == {"budget", "stuck", "record"}

\* The documents d of a request are stored and the documents l are in the log only;
\* the request is old if it ended before the process started.
Placing(request, q, d, l, old) ==
    LET all == AllDocuments(request.texts) IN
    /\ d \in Prefixes(request.texts) /\ l \in Prefixes(request.texts)
    /\ d = <<>> \/ l = <<>>
    /\ d # <<>> =>
        \/ d = all /\ (q.pc \in Storing \/ q.result \in {"ok", "failed", "lost"})
        \/ old /\ q.result \in {"refused", "failed", "lost"}
    /\ l # <<>> => q.result \in {"refused", "failed", "lost"}
    /\ request.form = "search" => d = <<>> /\ l = <<>>
    /\ request.form # "search" /\ (q.pc \in Storing \/ q.result = "ok") => d = all

\* No request is served before the collection is open, and what is in the log then
\* was left by earlier processes.
PlacedInv ==
    /\ docs = [r \in Requests |-> docs[r]] /\ logged = [r \in Requests |-> logged[r]]
    /\ running => config # None
    /\ \A r \in earlier : r \in Requests /\ req[r].pc = "done"
    /\ collection = None =>
        \A r \in Requests : ~Active(r) /\ (logged[r] # <<>> => r \in earlier)
    /\ \A r \in Requests : r \notin DOMAIN scenario.requests => docs[r] = <<>> /\ logged[r] = <<>>
    /\ \A r \in DOMAIN scenario.requests :
        Placing(scenario.requests[r], req[r], docs[r], logged[r], r \in earlier)

\* All documents and none are prefixes of all documents.
LEMMA PrefixFacts ==
    ASSUME NEW texts, Len(texts) \in Nat, DOMAIN texts = 1 .. Len(texts)
    PROVE  /\ <<>> \in Prefixes(texts) /\ AllDocuments(texts) \in Prefixes(texts)
           /\ Len(AllDocuments(texts)) = Len(texts)
           /\ \A p \in Prefixes(texts) : Len(p) \in Nat
<1> DEFINE E == {[text |-> texts[i], embedding |-> texts[i]] : i \in DOMAIN texts}
           all == AllDocuments(texts)
<1>1. all \in [1 .. Len(texts) -> E]
  BY DEF AllDocuments
<1>2. all \in Seq(E) /\ Len(all) = Len(texts) /\ \A i \in 1 .. Len(texts) : all[i] \in E
  BY <1>1
<1> HIDE DEF all, E
<1>3. SubSeq(all, 1, 0) = <<>>
  BY SubSeqEmpty
<1>4. SubSeq(all, 1, Len(texts)) = all
  BY <1>2, SubSeqFull
<1>5. ASSUME NEW n \in 0 .. Len(texts)
      PROVE  Len(SubSeq(all, 1, n)) \in Nat
  <2>1. \A i \in 1 .. n : all[i] \in E
    BY <1>2
  <2>2. SubSeq(all, 1, n) \in Seq(E)
    BY <2>1, SubSeqProperties
  <2> QED
    BY <2>2
<1>6. 0 \in 0 .. Len(texts) /\ Len(texts) \in 0 .. Len(texts)
  OBVIOUS
<1> QED
  BY <1>2, <1>3, <1>4, <1>5, <1>6 DEF Prefixes, all

\* A request inserts a document for every text, with its vector.
LEMMA DocumentsFacts ==
    ASSUME EmbedInv, NEW r \in DOMAIN scenario.requests, req[r].pc = "insert"
    PROVE  Documents(r) = AllDocuments(Texts(r)) /\ Form(r) # "search"
<1>1. /\ Fits(scenario.requests[r], DOMAIN paid, req[r])
      /\ Len(Texts(r)) \in Nat /\ DOMAIN Texts(r) = 1 .. Len(Texts(r))
  BY RequestFacts
<1>2. /\ req[r].got \in Seq(Answers(DOMAIN paid)) /\ Len(req[r].got) = Len(Texts(r))
      /\ \A i \in DOMAIN req[r].got : req[r].got[i].embedding = Texts(r)[i]
  BY <1>1 DEF Fits, Answering, Texts
<1>3. DOMAIN req[r].got = 1 .. Len(Texts(r))
  BY <1>2
<1> QED
  BY <1>1, <1>2, <1>3 DEF Documents, AllDocuments, Fits, Routed, Form

\* What is known of a request and its documents.
LEMMA PlacingFacts ==
    ASSUME EmbedInv, PlacedInv, NEW r \in DOMAIN scenario.requests
    PROVE  /\ r \in Requests /\ Form(r) = scenario.requests[r].form
           /\ Texts(r) = scenario.requests[r].texts
           /\ <<>> \in Prefixes(Texts(r)) /\ AllDocuments(Texts(r)) \in Prefixes(Texts(r))
           /\ Placing(scenario.requests[r], req[r], docs[r], logged[r], r \in earlier)
           /\ req[r].pc # "done" => req[r].result = None /\ r \notin earlier
           /\ None \notin {"ok", "refused", "failed", "lost"}
<1>1. /\ r \in Requests /\ Len(Texts(r)) \in Nat /\ DOMAIN Texts(r) = 1 .. Len(Texts(r))
      /\ Fits(scenario.requests[r], DOMAIN paid, req[r])
  BY RequestFacts
<1>2. <<>> \in Prefixes(Texts(r)) /\ AllDocuments(Texts(r)) \in Prefixes(Texts(r))
  BY <1>1, PrefixFacts
<1>3. req[r].pc # "done" => req[r].result = None
  BY <1>1 DEF Fits, Timed
<1>4. None \notin {"ok", "refused", "failed", "lost"}
  BY NoneAssumption DEF Refusals
<1> QED
  BY <1>1, <1>2, <1>3, <1>4 DEF PlacedInv, Form, Texts

\* A request has no documents anywhere before its insertion, a search never.
LEMMA EmptyPlaced ==
    ASSUME EmbedInv, PlacedInv, NEW r \in DOMAIN scenario.requests,
           req[r].pc \notin Storing \union {"done"} \/ Form(r) = "search"
    PROVE  docs[r] = <<>> /\ logged[r] = <<>>
BY PlacingFacts DEF Placing

\* A step of one request.  The documents of the others stay where they are, get
\* lost with the log, or are stored out of it.
LEMMA PlacedStep ==
    ASSUME EmbedInv, PlacedInv, NEW r \in DOMAIN scenario.requests, req[r].pc # "done",
           NEW q,
           docs' = [x \in Requests |-> docs'[x]], logged' = [x \in Requests |-> logged'[x]],
           req' = [req EXCEPT ![r] = q],
           UNCHANGED <<scenario, running, config, earlier>>,
           \A x \in Requests \ {r} :
               \/ docs'[x] = docs[x] /\ logged'[x] \in {logged[x], <<>>}
               \/ logged[x] # <<>> /\ docs'[x] = logged[x] /\ logged'[x] = <<>> /\ x \in earlier,
           Placing(scenario.requests[r], q, docs'[r], logged'[r], FALSE),
           \/ collection' # None
           \/ collection = None /\ q.pc = "done" /\ \A x \in Requests : logged'[x] # <<>> => x \in earlier
    PROVE  PlacedInv'
<1>1. r \in Requests /\ r \notin earlier
  BY PlacingFacts
<1>2. req'[r] = q /\ \A x \in Requests \ {r} : req'[x] = req[x]
  BY <1>1 DEF EmbedInv, CallsInv
<1>3. \A x \in earlier' : x \in Requests /\ req'[x].pc = "done"
  BY <1>1, <1>2 DEF PlacedInv
<1>4. ASSUME collection' = None, NEW x \in Requests
      PROVE  req'[x].pc \in {"new", "done"} /\ (logged'[x] # <<>> => x \in earlier)
  BY <1>2, <1>4 DEF PlacedInv, Active
<1>5. ASSUME NEW x \in Requests, x \notin DOMAIN scenario.requests
      PROVE  docs'[x] = <<>> /\ logged'[x] = <<>>
  BY <1>5 DEF PlacedInv
<1>6. ASSUME NEW x \in DOMAIN scenario.requests
      PROVE  Placing(scenario.requests[x], req'[x], docs'[x], logged'[x], x \in earlier)
  <2>1. CASE x = r
    BY <1>2, <2>1 DEF Placing
  <2>2. CASE x # r
    <3>1. /\ x \in Requests /\ req'[x] = req[x]
          /\ <<>> \in Prefixes(scenario.requests[x].texts)
          /\ Placing(scenario.requests[x], req[x], docs[x], logged[x], x \in earlier)
      BY <1>2, <2>2, PlacingFacts
    <3>2. CASE docs'[x] = docs[x] /\ logged'[x] \in {logged[x], <<>>}
      BY <3>1, <3>2 DEF Placing
    <3>3. CASE logged[x] # <<>> /\ docs'[x] = logged[x] /\ logged'[x] = <<>> /\ x \in earlier
      <4>1. req[x].pc = "done"
        BY <3>3 DEF PlacedInv
      <4> QED
        BY <3>1, <3>3, <4>1 DEF Placing, Storing
    <3> QED
      BY <2>2, <3>1, <3>2, <3>3
  <2> QED
    BY <2>1, <2>2
<1> QED
  BY <1>3, <1>4, <1>5, <1>6 DEF PlacedInv, Active

\* A request that stores nothing yet, or ends without success.
LEMMA QuietPlaced ==
    ASSUME EmbedInv, PlacedInv, NEW r \in DOMAIN scenario.requests, NEW q,
           req[r].pc \notin Storing \union {"done"} \/ Form(r) = "search", req[r].pc # "done",
           q.pc \in Storing \/ q.result = "ok" => Form(r) = "search",
           req' = [req EXCEPT ![r] = q],
           UNCHANGED <<scenario, running, config, collection, docs, logged, earlier>>,
           Active(r) \/ q.pc = "done"
    PROVE  PlacedInv'
<1>1. /\ docs[r] = <<>> /\ logged[r] = <<>> /\ <<>> \in Prefixes(scenario.requests[r].texts)
      /\ Form(r) = scenario.requests[r].form /\ r \in Requests
  BY EmptyPlaced, PlacingFacts
<1>2. Placing(scenario.requests[r], q, docs[r], logged[r], FALSE)
  BY <1>1 DEF Placing
<1>3. /\ docs = [x \in Requests |-> docs[x]] /\ logged = [x \in Requests |-> logged[x]]
      /\ collection = None => q.pc = "done" /\ \A x \in Requests : logged[x] # <<>> => x \in earlier
  BY <1>1 DEF PlacedInv
<1> QED
  BY <1>2, <1>3, PlacedStep

\* The first request of the process stores what is in the log, all of it of requests
\* that ended earlier.
LEMMA OpensPlaced ==
    ASSUME EmbedInv, PlacedInv, NEW r \in DOMAIN scenario.requests, NEW q,
           req[r].pc = "new", running, Opens,
           q.pc \notin Storing, q.result # "ok",
           req' = [req EXCEPT ![r] = q], UNCHANGED <<scenario, running, config, earlier>>
    PROVE  PlacedInv'
<1>1. /\ docs[r] = <<>> /\ logged[r] = <<>> /\ <<>> \in Prefixes(scenario.requests[r].texts)
      /\ r \in Requests
  BY EmptyPlaced, PlacingFacts DEF Storing
<1>2. /\ docs = [x \in Requests |-> docs[x]] /\ logged = [x \in Requests |-> logged[x]]
      /\ config # None
      /\ collection = None => \A x \in Requests : logged[x] # <<>> => x \in earlier
  BY DEF PlacedInv
<1>3. CASE collection # None /\ UNCHANGED <<collection, docs, logged>>
  <2>1. Placing(scenario.requests[r], q, docs[r], logged[r], FALSE)
    BY <1>1 DEF Placing
  <2> QED
    BY <1>2, <1>3, <2>1, PlacedStep
<1>4. CASE collection = None /\ collection' = config /\ docs' = Recovered /\ logged' = NothingLogged
  <2>1. /\ Recovered = [x \in Requests |-> Recovered[x]]
        /\ NothingLogged = [x \in Requests |-> NothingLogged[x]]
        /\ Recovered[r] = <<>> /\ NothingLogged[r] = <<>>
    BY <1>1 DEF Recovered, NothingLogged
  <2>2. ASSUME NEW x \in Requests \ {r}
        PROVE  \/ Recovered[x] = docs[x] /\ NothingLogged[x] \in {logged[x], <<>>}
               \/ /\ logged[x] # <<>> /\ Recovered[x] = logged[x] /\ NothingLogged[x] = <<>>
                  /\ x \in earlier
    BY <1>2, <1>4 DEF Recovered, NothingLogged
  <2> HIDE DEF Recovered, NothingLogged
  <2>3. Placing(scenario.requests[r], q, docs'[r], logged'[r], FALSE)
    BY <1>1, <1>4, <2>1 DEF Placing
  <2> QED
    BY <1>2, <1>4, <2>1, <2>2, <2>3, PlacedStep
<1> QED
  BY <1>3, <1>4 DEF Opens

\* A request that ends without success, or is refused by the collection.
LEMMA EndsPlaced ==
    ASSUME EmbedInv, PlacedInv, NEW r \in DOMAIN scenario.requests, NEW result,
           req[r].pc \notin Storing \union {"done"} \/ Form(r) = "search", req[r].pc # "done",
           result = "ok" => Form(r) = "search", Ends(r, result),
           UNCHANGED <<scenario, running, config, collection, docs, logged, earlier>>
    PROVE  PlacedInv'
<1>1. Done(r, result).pc = "done" /\ Done(r, result).result = result
  BY RequestFacts DEF RequestInv, Fields, Done
<1> QED
  BY <1>1, QuietPlaced DEF Ends, Storing

\* embed_text and search_by_text open the collection, or cannot.
LEMMA ReceivePlaced ==
    ASSUME EmbedInv, PlacedInv, NEW r \in DOMAIN scenario.requests,
           ReceiveEmbed(r) \/ ReceiveSearch(r)
    PROVE  PlacedInv'
<1>1. /\ running /\ req[r].pc = "new" /\ UNCHANGED <<scenario, running, config, earlier>>
      /\ "new" \notin Storing \union {"done"}
  BY DEF ReceiveEmbed, ReceiveSearch, process, history, Storing
<1>2. ASSUME NEW result \in {"not found", "failed"}, Ends(r, result),
             UNCHANGED <<collection, docs, logged>>
      PROVE  PlacedInv'
  BY <1>1, <1>2, EndsPlaced
<1>3. ASSUME NEW result \in {"unavailable", "invalid"}, Ends(r, result), Opens
      PROVE  PlacedInv'
  <2>1. Done(r, result).pc = "done" /\ Done(r, result).result = result
    BY RequestFacts DEF RequestInv, Fields, Done
  <2> QED
    BY <1>1, <1>3, <2>1, OpensPlaced DEF Ends, Storing
<1>4. ASSUME req' = [req EXCEPT ![r].pc = "lookup"], Opens
      PROVE  PlacedInv'
  <2> DEFINE q == [req[r] EXCEPT !.pc = "lookup"]
  <2>1. q.pc = "lookup" /\ q.result = None /\ None # "ok"
    BY <1>1, RequestFacts, PlacingFacts DEF RequestInv, Fields
  <2>2. req' = [req EXCEPT ![r] = q]
    BY <1>4
  <2> HIDE DEF q
  <2> QED
    BY <1>1, <1>4, <2>1, <2>2, OpensPlaced DEF Storing
<1> QED
  BY <1>2, <1>3, <1>4 DEF ReceiveEmbed, ReceiveSearch, OpenFails

\* No text is stored before all are embedded.
LEMMA EmbeddingPlaced ==
    ASSUME EmbedInv, PlacedInv, NEW r \in DOMAIN scenario.requests,
           LookupHits(r) \/ LookupMisses(r) \/ Wake(r) \/ Store(r) \/ Reply(r) \/ TimeOut(r)
    PROVE  PlacedInv'
<1>1. /\ req[r].pc \in {"lookup", "calling", "waiting", "store"} /\ Active(r)
      /\ UNCHANGED <<scenario, running, config, collection, docs, logged, earlier>>
  BY DEF LookupHits, LookupMisses, Wake, Store, Reply, TimeOut, process, stored, history, Active
<1>2. /\ RequestInv(req[r]) /\ req[r].result = None /\ None # "ok"
      /\ req[r].pc \notin Storing \union {"done"}
  BY <1>1, RequestFacts, PlacingFacts DEF Storing
<1>3. ASSUME NEW q, req' = [req EXCEPT ![r] = q],
             q.pc \in Storing \/ q.result = "ok" => Form(r) = "search"
      PROVE  PlacedInv'
  BY <1>1, <1>2, <1>3, QuietPlaced
<1>4. ASSUME NEW answer, req' = [req EXCEPT ![r] = Embedded(r, answer)]
      PROVE  PlacedInv'
  <2>1. Embedded(r, answer).pc \in Storing => Form(r) = "search"
    BY DEF Embedded, NewRequest, Storing
  <2>2. Embedded(r, answer).result = None
    BY DEF Embedded, NewRequest
  <2> QED
    BY <1>2, <1>3, <1>4, <2>1, <2>2
<1>5. ASSUME NEW error \in ProviderErrors, req' = [req EXCEPT ![r] = AfterError(r, error)]
      PROVE  PlacedInv'
  <2> DEFINE q == AfterError(r, error)
  <2>1. q.pc \in {"waiting", "done"} /\ q.result \in {None, error}
    BY <1>2 DEF AfterError, Done, RequestInv, Fields
  <2> HIDE DEF q
  <2>2. error # "ok"
    BY DEF ProviderErrors
  <2> QED
    BY <1>2, <1>3, <1>5, <2>1, <2>2 DEF Storing, q
<1>6. CASE LookupHits(r) \/ Store(r)
  BY <1>4, <1>6 DEF LookupHits, Store
<1>7. CASE LookupMisses(r)
  <2> DEFINE q == [req[r] EXCEPT !.pc = "calling",
                                 !.calls = IF req[r].calls < MaxRetries + 2
                                           THEN req[r].calls + 1 ELSE req[r].calls]
  <2>1. req' = [req EXCEPT ![r] = q]
    BY <1>7 DEF LookupMisses
  <2>2. q.pc = "calling" /\ q.result = None
    BY <1>2 DEF RequestInv, Fields
  <2> HIDE DEF q
  <2> QED
    BY <1>2, <1>3, <2>1, <2>2 DEF Storing
<1>8. CASE Wake(r)
  <2> DEFINE q == [req[r] EXCEPT !.pc = "lookup", !.delay = Embed!NextDelay(req[r].delay)]
  <2>1. req' = [req EXCEPT ![r] = q]
    BY <1>8 DEF Wake
  <2>2. q.pc = "lookup" /\ q.result = None
    BY <1>2 DEF RequestInv, Fields
  <2> HIDE DEF q
  <2> QED
    BY <1>2, <1>3, <2>1, <2>2 DEF Storing
<1>9. CASE Reply(r)
  <2>1. PICK answer \in Embed!ProviderEmbed(env.EMBEDDING_PROVIDER, Text(r)) :
          IF answer.error # None
          THEN req' = [req EXCEPT ![r] = AfterError(r, answer.error)]
          ELSE req' = [req EXCEPT ![r].pc = "store", ![r].answer = answer]
    BY <1>9 DEF Reply
  <2>2. req[r].pc = "calling"
    BY <1>9 DEF Reply
  <2>3. answer.error # None => answer.error \in ProviderErrors
    BY <2>2, ProviderFacts
  <2>4. CASE answer.error = None
    <3> DEFINE q == [req[r] EXCEPT !.pc = "store", !.answer = answer]
    <3>1. req' = [req EXCEPT ![r] = q]
      BY <2>1, <2>4, RequestFacts DEF EmbedInv, CallsInv
    <3>2. q.pc = "store" /\ q.result = None
      BY <1>2 DEF RequestInv, Fields
    <3> HIDE DEF q
    <3> QED
      BY <1>2, <1>3, <3>1, <3>2 DEF Storing
  <2> QED
    BY <1>5, <2>1, <2>3, <2>4
<1>10. CASE TimeOut(r)
  <2>1. Embed!RequestFailed.error \in ProviderErrors
    BY DEF Embed!RequestFailed, Embed!FailedWith, ProviderErrors
  <2> QED
    BY <1>5, <1>10, <2>1 DEF TimeOut
<1> QED
  BY <1>6, <1>7, <1>8, <1>9, <1>10

\* An insertion stores all documents or none; what it does not store may be in the log.
LEMMA InsertPlaced ==
    ASSUME EmbedInv, PlacedInv, NEW r \in DOMAIN scenario.requests, Insert(r)
    PROVE  PlacedInv'
<1> DEFINE request == scenario.requests[r]
           all == AllDocuments(Texts(r))
<1>1. /\ req[r].pc = "insert" /\ UNCHANGED <<scenario, running, config, collection, earlier>>
  BY DEF Insert, process, history
<1>2. /\ docs = [x \in Requests |-> docs[x]] /\ logged = [x \in Requests |-> logged[x]]
      /\ collection # None
  BY <1>1, RequestFacts DEF PlacedInv, Active
<1>3. /\ r \in Requests /\ RequestInv(req[r]) /\ req[r].result = None /\ None # "ok"
      /\ Documents(r) = all /\ Form(r) # "search" /\ Form(r) = request.form
      /\ Texts(r) = request.texts /\ <<>> \in Prefixes(Texts(r)) /\ all \in Prefixes(Texts(r))
      /\ docs[r] = <<>> /\ logged[r] = <<>>
  BY <1>1, RequestFacts, PlacingFacts, DocumentsFacts, EmptyPlaced DEF Storing
<1> HIDE DEF request, all
<1>4. ASSUME NEW result
      PROVE  Done(r, result).pc = "done" /\ Done(r, result).result = result
  BY <1>3 DEF Done, RequestInv, Fields
<1>5. ASSUME NEW q, req' = [req EXCEPT ![r] = q],
             docs' = [x \in Requests |-> docs'[x]], logged' = [x \in Requests |-> logged'[x]],
             \A x \in Requests \ {r} : docs'[x] = docs[x] /\ logged'[x] \in {logged[x], <<>>},
             Placing(request, q, docs'[r], logged'[r], FALSE)
      PROVE  PlacedInv'
  BY <1>1, <1>2, <1>5, PlacedStep DEF request
<1>6. CASE StoresAll(r)
  <2>1. docs' = [docs EXCEPT ![r] = all] /\ logged' \in {logged, NothingLogged}
    BY <1>3, <1>6 DEF StoresAll
  <2>2. /\ docs' = [x \in Requests |-> docs'[x]] /\ docs'[r] = all
        /\ \A x \in Requests \ {r} : docs'[x] = docs[x]
    BY <1>2, <1>3, <2>1
  <2>3. /\ logged' = [x \in Requests |-> logged'[x]] /\ logged'[r] = <<>>
        /\ \A x \in Requests : logged'[x] \in {logged[x], <<>>}
    BY <1>2, <1>3, <2>1 DEF NothingLogged
  <2>4. CASE req' = [req EXCEPT ![r].pc = "budget"]
    <3> DEFINE q == [req[r] EXCEPT !.pc = "budget"]
    <3>1. q.pc = "budget" /\ q.result = None
      BY <1>3 DEF RequestInv, Fields
    <3>2. req' = [req EXCEPT ![r] = q]
      BY <2>4
    <3> HIDE DEF q
    <3>3. Placing(request, q, docs'[r], logged'[r], FALSE)
      BY <1>3, <2>2, <2>3, <3>1 DEF Placing, Storing, all
    <3> QED
      BY <1>5, <2>2, <2>3, <3>2, <3>3
  <2>5. CASE req' = [req EXCEPT ![r] = Done(r, "failed")]
    <3>1. Placing(request, Done(r, "failed"), docs'[r], logged'[r], FALSE)
      BY <1>3, <1>4, <2>2, <2>3 DEF Placing, Storing, all
    <3> QED
      BY <1>5, <2>2, <2>3, <2>5, <3>1
  <2> QED
    BY <1>6, <2>4, <2>5 DEF StoresAll
<1>7. ASSUME NEW some \in Prefixes(Texts(r)), NEW result \in {"failed", "refused"},
             logged' = [logged EXCEPT ![r] = some], docs' = docs, Ends(r, result)
      PROVE  PlacedInv'
  <2>1. /\ logged' = [x \in Requests |-> logged'[x]] /\ logged'[r] = some
        /\ \A x \in Requests \ {r} : logged'[x] = logged[x]
    BY <1>2, <1>3, <1>7
  <2>2. Placing(request, Done(r, result), docs'[r], logged'[r], FALSE)
    BY <1>3, <1>4, <1>7, <2>1 DEF Placing, Storing
  <2> QED
    BY <1>2, <1>5, <1>7, <2>1, <2>2 DEF Ends
<1>8. CASE StoresNone(r)
  <2>1. PICK n \in 0 .. Len(Texts(r)) :
          logged' = [logged EXCEPT ![r] = SubSeq(Documents(r), 1, n)]
    BY <1>8 DEF StoresNone, LogsSome
  <2>2. SubSeq(Documents(r), 1, n) \in Prefixes(Texts(r))
    BY <1>3 DEF Prefixes, all
  <2> QED
    BY <1>7, <1>8, <2>1, <2>2 DEF StoresNone
<1>9. CASE Exceeds(r)
  BY <1>3, <1>7, <1>9 DEF Exceeds
<1> QED
  BY <1>6, <1>8, <1>9 DEF Insert

\* What follows the insertion stores nothing.
LEMMA StoringPlaced ==
    ASSUME EmbedInv, PlacedInv, NEW r \in DOMAIN scenario.requests, NEW q,
           Form(r) # "search", req[r].pc \in Storing,
           q.pc \in Storing \/ (q.pc = "done" /\ q.result = "ok"),
           req' = [req EXCEPT ![r] = q],
           UNCHANGED <<scenario, running, config, collection, docs, logged, earlier>>
    PROVE  PlacedInv'
<1>1. /\ r \in Requests /\ Form(r) = scenario.requests[r].form /\ req[r].pc # "done"
      /\ Placing(scenario.requests[r], req[r], docs[r], logged[r], r \in earlier)
      /\ req[r].result = None /\ None \notin {"ok", "refused", "failed", "lost"}
  BY PlacingFacts DEF Storing
<1>2. Placing(scenario.requests[r], q, docs[r], logged[r], FALSE)
  BY <1>1 DEF Placing
<1>3. /\ docs = [x \in Requests |-> docs[x]] /\ logged = [x \in Requests |-> logged[x]]
      /\ collection # None
  BY <1>1 DEF PlacedInv, Active, Storing
<1> QED
  BY <1>1, <1>2, <1>3, PlacedStep

\* The request waits for its own lock, is counted, or searches.
LEMMA ServedPlaced ==
    ASSUME EmbedInv, PlacedInv, NEW r \in DOMAIN scenario.requests,
           Budget(r) \/ Record(r) \/ Search(r)
    PROVE  PlacedInv'
<1>1. /\ req[r].pc \in Served
      /\ UNCHANGED <<scenario, running, config, collection, docs, logged, earlier>>
  BY DEF Budget, Record, Search, process, stored, history, Served
<1>2. /\ RequestInv(req[r]) /\ req[r].result = None /\ None # "ok"
      /\ req[r].pc \in {"budget", "stuck"} => Form(r) # "search"
      /\ req[r].pc = "search" => Form(r) = "search"
  BY <1>1, RequestFacts, PlacingFacts DEF Fits, Routed, Form, Served
<1>3. ASSUME NEW result, Ends(r, result), Form(r) = "search"
      PROVE  PlacedInv'
  BY <1>1, <1>3, EndsPlaced DEF Served
<1>4. ASSUME NEW pc \in Served, req' = [req EXCEPT ![r].pc = pc],
             Form(r) # "search" => req[r].pc \in Storing /\ pc \in Storing
      PROVE  PlacedInv'
  <2> DEFINE q == [req[r] EXCEPT !.pc = pc]
  <2>1. q.pc = pc /\ q.result = None /\ req' = [req EXCEPT ![r] = q]
    BY <1>2, <1>4 DEF RequestInv, Fields
  <2> HIDE DEF q
  <2>2. Active(r) /\ req[r].pc # "done"
    BY <1>1 DEF Active, Served
  <2>3. CASE Form(r) = "search"
    BY <1>1, <1>2, <2>1, <2>2, <2>3, QuietPlaced
  <2>4. CASE Form(r) # "search"
    BY <1>1, <1>4, <2>1, <2>4, StoringPlaced
  <2> QED
    BY <2>3, <2>4
<1>5. CASE Budget(r)
  BY <1>4, <1>5 DEF Budget, Served, Storing
<1>6. CASE Record(r)
  <2>1. CASE Form(r) = "search"
    BY <1>3, <1>4, <1>6, <2>1 DEF Record, Served, Ends
  <2>2. CASE Form(r) # "search"
    <3>1. Done(r, "ok").pc = "done" /\ Done(r, "ok").result = "ok"
      BY <1>2 DEF Done, RequestInv, Fields
    <3> QED
      BY <1>1, <1>6, <2>2, <3>1, StoringPlaced DEF Record, Ends, Storing
  <2> QED
    BY <2>1, <2>2
<1>7. CASE Search(r)
  BY <1>2, <1>3, <1>7 DEF Search
<1> QED
  BY <1>5, <1>6, <1>7

\* A process that exits in the middle of an insertion leaves some of it in the log.
LEMMA ReloadExitsPlaced ==
    ASSUME EmbedInv, PlacedInv, ReloadExits
    PROVE  PlacedInv'
<1>1. /\ ~running' /\ UNCHANGED <<scenario, collection, docs, earlier>>
      /\ req' = [r \in Requests |-> IF Active(r) THEN Done(r, "lost") ELSE req[r]]
      /\ \/ logged' = logged
         \/ \E r \in DOMAIN scenario.requests : req[r].pc = "insert" /\ LogsSome(r)
  BY DEF ReloadExits
<1>2. /\ docs = [r \in Requests |-> docs[r]] /\ logged = [r \in Requests |-> logged[r]]
      /\ \A r \in earlier : r \in Requests /\ req[r].pc = "done"
  BY DEF PlacedInv
<1>3. ASSUME NEW r \in Requests
      PROVE  ~Active(r)' /\ (req[r].pc = "done" => req'[r] = req[r])
  BY <1>1 DEF Active, Done, EmbedInv, CallsInv, RequestInv, Fields
<1>4. /\ logged' = [r \in Requests |-> logged'[r]]
      /\ collection = None => logged' = logged
      /\ \A r \in Requests : r \notin DOMAIN scenario.requests => logged'[r] = logged[r]
      /\ \A r \in DOMAIN scenario.requests :
            logged'[r] = logged[r] \/ (req[r].pc = "insert" /\ logged'[r] \in Prefixes(Texts(r)))
  <2>1. CASE logged' = logged
    BY <1>2, <2>1
  <2>2. CASE \E r \in DOMAIN scenario.requests : req[r].pc = "insert" /\ LogsSome(r)
    <3>1. PICK r \in DOMAIN scenario.requests : req[r].pc = "insert" /\ LogsSome(r)
      BY <2>2
    <3>2. PICK n \in 0 .. Len(Texts(r)) :
            logged' = [logged EXCEPT ![r] = SubSeq(Documents(r), 1, n)]
      BY <3>1 DEF LogsSome
    <3>3. SubSeq(Documents(r), 1, n) \in Prefixes(Texts(r))
      BY <3>1, DocumentsFacts DEF Prefixes
    <3>4. r \in Requests /\ \A x \in DOMAIN scenario.requests : x \in Requests
      BY RequestFacts
    <3>5. collection # None
      BY <3>1, <3>4 DEF PlacedInv, Active
    <3> QED
      BY <1>2, <3>1, <3>2, <3>3, <3>4, <3>5
  <2> QED
    BY <1>1, <2>1, <2>2
<1>5. ASSUME NEW r \in DOMAIN scenario.requests
      PROVE  Placing(scenario.requests[r], req'[r], docs[r], logged'[r], r \in earlier)
  <2>1. /\ r \in Requests /\ Texts(r) = scenario.requests[r].texts
        /\ Form(r) = scenario.requests[r].form /\ RequestInv(req[r])
        /\ Placing(scenario.requests[r], req[r], docs[r], logged[r], r \in earlier)
        /\ req[r].pc # "done" => req[r].result = None
        /\ None \notin {"ok", "refused", "failed", "lost"}
    BY RequestFacts, PlacingFacts
  <2>2. CASE ~Active(r)
    <3>1. req'[r] = req[r] /\ logged'[r] = logged[r]
      BY <1>1, <1>4, <2>1, <2>2 DEF Active
    <3> QED
      BY <2>1, <3>1
  <2>3. CASE Active(r)
    <3> DEFINE q == req'[r]
    <3>1. q.pc = "done" /\ q.result = "lost"
      BY <1>1, <2>1, <2>3 DEF Done, RequestInv, Fields
    <3>2. req[r].pc # "done"
      BY <2>3 DEF Active
    <3> HIDE DEF q
    <3>3. Placing(scenario.requests[r], q, docs[r], logged[r], r \in earlier)
      BY <2>1, <3>1, <3>2 DEF Placing, Storing
    <3>4. CASE logged'[r] = logged[r]
      BY <3>3, <3>4 DEF q
    <3>5. CASE req[r].pc = "insert" /\ logged'[r] \in Prefixes(Texts(r))
      <4>1. docs[r] = <<>> /\ Form(r) # "search"
        BY <3>5, EmptyPlaced, DocumentsFacts DEF Storing
      <4>2. Placing(scenario.requests[r], q, docs[r], logged'[r], r \in earlier)
        BY <2>1, <3>1, <3>3, <3>5, <4>1 DEF Placing, Storing
      <4> QED
        BY <4>2 DEF q
    <3> QED
      BY <1>4, <3>4, <3>5
  <2> QED
    BY <2>2, <2>3
<1>6. \A r \in earlier' : r \in Requests /\ req'[r].pc = "done"
  BY <1>1, <1>2, <1>3
<1>7. collection' = None =>
        \A r \in Requests : ~Active(r)' /\ (logged'[r] # <<>> => r \in earlier')
  BY <1>1, <1>3, <1>4 DEF PlacedInv
<1>8. \A r \in Requests :
        r \notin DOMAIN scenario.requests => docs'[r] = <<>> /\ logged'[r] = <<>>
  BY <1>1, <1>4 DEF PlacedInv
<1> QED
  BY <1>1, <1>2, <1>4, <1>5, <1>6, <1>7, <1>8 DEF PlacedInv

\* A process starts with no collection open; all that ever came has ended.
LEMMA StartPlaced ==
    ASSUME EmbedInv, PlacedInv, Start
    PROVE  PlacedInv'
<1>1. /\ ~running /\ config' # None /\ earlier' = {r \in Requests : req[r].pc = "done"}
      /\ UNCHANGED <<scenario, docs, logged, req>>
  BY DEF Start
<1>2. \A r \in Requests : ~Active(r)
  BY <1>1 DEF EmbedInv, ProcessInv
<1>3. ASSUME NEW r \in DOMAIN scenario.requests
      PROVE  /\ Placing(scenario.requests[r], req[r], docs[r], logged[r], r \in earlier')
             /\ logged[r] # <<>> => r \in earlier'
  <2>1. /\ r \in Requests
        /\ Placing(scenario.requests[r], req[r], docs[r], logged[r], r \in earlier)
        /\ req[r].pc # "done" => req[r].result = None /\ r \notin earlier
        /\ None \notin {"ok", "refused", "failed", "lost"}
    BY PlacingFacts
  <2>2. r \in earlier => r \in earlier'
    BY <1>1, <2>1
  <2>3. logged[r] # <<>> => req[r].pc = "done"
    BY <2>1 DEF Placing
  <2> QED
    BY <1>1, <2>1, <2>2, <2>3 DEF Placing
<1>4. \A r \in Requests : ~Active(r)' /\ (logged[r] # <<>> => r \in earlier')
  BY <1>1, <1>2, <1>3 DEF PlacedInv, Active
<1> QED
  BY <1>1, <1>3, <1>4 DEF PlacedInv

\* Initially nothing is stored or logged.
LEMMA InitPlaced == Init => PlacedInv
<1> SUFFICES ASSUME Init PROVE PlacedInv
  OBVIOUS
<1>1. ASSUME NEW r \in DOMAIN scenario.requests
      PROVE  Placing(scenario.requests[r], req[r], docs[r], logged[r], r \in earlier)
  <2>1. EmbedInv
    BY InitEmbed
  <2>2. /\ r \in Requests /\ Len(Texts(r)) \in Nat /\ DOMAIN Texts(r) = 1 .. Len(Texts(r))
        /\ Texts(r) = scenario.requests[r].texts
    BY <2>1, RequestFacts DEF Texts
  <2>3. docs[r] = <<>> /\ logged[r] = <<>> /\ req[r].pc = "new" /\ req[r].result = None
    BY <2>2 DEF Init, NewRequest
  <2>4. <<>> \in Prefixes(Texts(r)) /\ None # "ok"
    BY <2>2, PrefixFacts, NoneAssumption
  <2> QED
    BY <2>2, <2>3, <2>4 DEF Placing, Storing
<1> QED
  BY <1>1 DEF Init, PlacedInv, Active, NewRequest

\* Every step knows where the documents are.
LEMMA NextPlaced == EmbedInv /\ PlacedInv /\ [Next]_vars => PlacedInv'
<1> SUFFICES ASSUME EmbedInv, PlacedInv, [Next]_vars PROVE PlacedInv'
  OBVIOUS
<1>1. CASE Start
  BY <1>1, StartPlaced
<1>2. CASE EditFile \/ Reload
  <2>1. /\ running' = running /\ (config' = config \/ config' # None)
        /\ UNCHANGED <<scenario, collection, docs, logged, req, earlier>>
    BY <1>2 DEF EditFile, Reload, stored, history
  <2> QED
    BY <2>1 DEF PlacedInv, Active
<1>3. CASE ReloadExits
  BY <1>3, ReloadExitsPlaced
<1>4. ASSUME NEW r \in DOMAIN scenario.requests,
             ReceiveEmbed(r) \/ ReceiveSearch(r) \/ Step(r) \/ Reply(r) \/ TimeOut(r)
      PROVE  PlacedInv'
  BY <1>4, ReceivePlaced, EmbeddingPlaced, InsertPlaced, ServedPlaced DEF Step
<1>5. CASE UNCHANGED vars
  BY <1>5 DEF vars, process, stored, history, PlacedInv, Active
<1> QED
  BY <1>1, <1>2, <1>3, <1>4, <1>5 DEF Next

\* CachedEmbedder, RetryEmbedder and embed_text keep vectors with their texts,
\* whatever is evicted between two texts of a request and whoever else asks for
\* them.  A process stores all documents of a request or none, all when it says so;
\* some of them only come out of the log of an earlier process.
THEOREM AlwaysStoredAsEmbedded == Spec => []StoredAsEmbedded
<1>1. ASSUME EmbedInv, PlacedInv PROVE StoredAsEmbedded
  <2>1. \A i \in DOMAIN cache : cache[i].embedding = cache[i].text
    <3>1. cache \in Seq(Entries(DOMAIN paid))
      BY <1>1 DEF EmbedInv, CacheInv
    <3>2. \A i \in DOMAIN cache : cache[i] \in Entries(DOMAIN paid)
      BY <3>1
    <3> QED
      BY <3>2 DEF Entries
  <2>2. ASSUME NEW r \in DOMAIN scenario.requests, req[r].result = "ok"
        PROVE  \A i \in DOMAIN Texts(r) : req[r].got[i].embedding = Texts(r)[i]
    <3>1. /\ Fits(scenario.requests[r], DOMAIN paid, req[r])
          /\ Len(Texts(r)) \in Nat /\ DOMAIN Texts(r) = 1 .. Len(Texts(r))
      BY <1>1, RequestFacts
    <3>2. /\ req[r].got \in Seq(Answers(DOMAIN paid)) /\ Len(req[r].got) = Len(Texts(r))
          /\ \A i \in DOMAIN req[r].got : req[r].got[i].embedding = Texts(r)[i]
      BY <2>2, <3>1 DEF Fits, Answering, Texts
    <3>3. DOMAIN req[r].got = DOMAIN Texts(r)
      BY <3>1, <3>2
    <3> QED
      BY <3>2, <3>3
  <2>3. ASSUME NEW r \in DOMAIN scenario.requests
        PROVE  LET all == AllDocuments(Texts(r)) IN
               /\ \A some \in {docs[r], logged[r]} :
                    \E n \in 0 .. Len(Texts(r)) : some = SubSeq(all, 1, n)
               /\ docs[r] = <<>> \/ logged[r] = <<>>
               /\ docs[r] # <<>> =>
                    \/ docs[r] = all /\ req[r].pc \in {"budget", "stuck", "record"}
                    \/ docs[r] = all /\ req[r].result \in {"ok", "failed", "lost"}
                    \/ r \in earlier /\ req[r].result \in {"refused", "failed", "lost"}
               /\ req[r].result = "ok" /\ Form(r) # "search" => docs[r] = all
    <3>1. /\ Placing(scenario.requests[r], req[r], docs[r], logged[r], r \in earlier)
          /\ Texts(r) = scenario.requests[r].texts /\ Form(r) = scenario.requests[r].form
      BY <1>1, PlacingFacts
    <3> QED
      BY <3>1 DEF Placing, Prefixes, Storing
  <2> QED
    BY <2>1, <2>2, <2>3 DEF StoredAsEmbedded, AllDocuments
<1> QED
  BY <1>1, InitEmbed, NextEmbed, InitPlaced, NextPlaced, PTL DEF Spec

-----------------------------------------------------------------------------
(* What was paid for once is cached, or about to be; who asks for it again *)
(* was not alone to ask, or it was evicted.                                *)

Asking(r) == req[r].pc \in {"calling", "store"}
AtStore(t) == \E r \in Requests : req[r].pc = "store" /\ Text(r) = t

PaidInv ==
    /\ paid = [t \in DOMAIN paid |-> paid[t]] /\ \A t \in DOMAIN paid : paid[t] \in Nat
    /\ \A r, x \in Requests :
        r # x /\ Asking(r) /\ Asking(x) /\ Text(r) = Text(x) => Text(r) \in excused
    /\ \A r \in Requests : Asking(r) /\ Text(r) \in Embed!Keys(cache) => Text(r) \in excused
    /\ \A t \in DOMAIN paid \ excused :
        \/ paid[t] = 0
        \/ running /\ paid[t] = 1 /\ (t \in Embed!Keys(cache) \/ AtStore(t))

\* The other requests are where they were.
LEMMA OthersSame ==
    ASSUME CallsInv, NEW r \in Requests, NEW q,
           req' = [req EXCEPT ![r] = q], scenario' = scenario
    PROVE  /\ req'[r] = q
           /\ \A x \in Requests \ {r} : /\ req'[x] = req[x] /\ Text(x)' = Text(x)
                                        /\ Asking(x)' <=> Asking(x)
<1>1. req'[r] = q /\ \A x \in Requests \ {r} : req'[x] = req[x]
  BY DEF CallsInv
<1>2. \A x \in Requests \ {r} : Text(x)' = Text(x)
  BY <1>1 DEF Text, Texts
<1> QED
  BY <1>1, <1>2 DEF Asking

\* A step of a request that neither calls nor has an answer to store.
LEMMA QuietStep ==
    ASSUME EmbedInv, PaidInv, NEW r \in Requests, NEW q,
           q.pc \notin {"calling", "store"}, req[r].pc # "store",
           req' = [req EXCEPT ![r] = q], Embed!Keys(cache)' = Embed!Keys(cache),
           UNCHANGED <<scenario, running, paid, excused>>
    PROVE  PaidInv'
<1>1. /\ req'[r] = q
      /\ \A x \in Requests \ {r} : /\ req'[x] = req[x] /\ Text(x)' = Text(x)
                                   /\ Asking(x)' <=> Asking(x)
  BY OthersSame DEF EmbedInv
<1>2. ~Asking(r)'
  BY <1>1 DEF Asking
<1>3. ASSUME NEW x \in Requests, NEW y \in Requests,
             x # y, Asking(x)', Asking(y)', Text(x)' = Text(y)'
      PROVE  Text(x)' \in excused'
  BY <1>1, <1>2, <1>3 DEF PaidInv
<1>4. ASSUME NEW x \in Requests, Asking(x)', Text(x)' \in Embed!Keys(cache)'
      PROVE  Text(x)' \in excused'
  BY <1>1, <1>2, <1>4 DEF PaidInv
<1>5. ASSUME NEW t, AtStore(t)
      PROVE  AtStore(t)'
  BY <1>1, <1>5 DEF AtStore
<1>6. ASSUME NEW t \in DOMAIN paid', t \notin excused'
      PROVE  \/ paid'[t] = 0
             \/ running' /\ paid'[t] = 1 /\ (t \in Embed!Keys(cache)' \/ AtStore(t)')
  BY <1>5, <1>6 DEF PaidInv
<1> QED
  BY <1>3, <1>4, <1>6 DEF PaidInv

\* Only a request that others overtake calls for what is asked for or cached.
LEMMA CallStep ==
    ASSUME EmbedInv, PaidInv, NEW r \in DOMAIN scenario.requests, LookupMisses(r)
    PROVE  PaidInv'
<1> DEFINE q == [req[r] EXCEPT !.pc = "calling",
                               !.calls = IF req[r].calls < MaxRetries + 2
                                         THEN req[r].calls + 1 ELSE req[r].calls]
<1>1. /\ req[r].pc = "lookup" /\ UNCHANGED <<scenario, running, cache, paid>>
      /\ Text(r) \notin Embed!Keys(cache) /\ req' = [req EXCEPT ![r] = q]
      /\ excused' = IF \E x \in Requests \ {r} : Asking(x) /\ Text(x) = Text(r)
                    THEN excused \union {Text(r)} ELSE excused
  BY DEF LookupMisses, process, stored, Asking
<1>2. r \in Requests /\ RequestInv(req[r])
  BY RequestFacts
<1>3. q.got = req[r].got /\ q.pc = "calling"
  BY <1>2 DEF RequestInv, Fields
<1> HIDE DEF q
<1>4. /\ req'[r] = q
      /\ \A x \in Requests \ {r} : /\ req'[x] = req[x] /\ Text(x)' = Text(x)
                                   /\ Asking(x)' <=> Asking(x)
  BY <1>1, <1>2, OthersSame DEF EmbedInv
<1>5. Text(r)' = Text(r)
  BY <1>1, <1>3, <1>4 DEF Text, Texts
<1>6. ASSUME NEW x \in Requests, NEW y \in Requests,
             x # y, Asking(x)', Asking(y)', Text(x)' = Text(y)'
      PROVE  Text(x)' \in excused'
  <2>1. CASE x = r
    BY <1>1, <1>4, <1>5, <1>6, <2>1
  <2>2. CASE y = r
    BY <1>1, <1>4, <1>5, <1>6, <2>2
  <2>3. CASE x # r /\ y # r
    BY <1>1, <1>4, <1>6, <2>3 DEF PaidInv
  <2> QED
    BY <2>1, <2>2, <2>3
<1>7. ASSUME NEW x \in Requests, Asking(x)', Text(x)' \in Embed!Keys(cache)'
      PROVE  Text(x)' \in excused'
  <2>1. x # r
    BY <1>1, <1>5, <1>7
  <2> QED
    BY <1>1, <1>4, <1>7, <2>1 DEF PaidInv
<1>8. ASSUME NEW t, AtStore(t)
      PROVE  AtStore(t)'
  BY <1>1, <1>4, <1>8 DEF AtStore
<1>9. ASSUME NEW t \in DOMAIN paid', t \notin excused'
      PROVE  \/ paid'[t] = 0
             \/ running' /\ paid'[t] = 1 /\ (t \in Embed!Keys(cache)' \/ AtStore(t)')
  BY <1>1, <1>8, <1>9 DEF PaidInv
<1>10. paid' = [t \in DOMAIN paid' |-> paid'[t]] /\ \A t \in DOMAIN paid' : paid'[t] \in Nat
  BY <1>1 DEF PaidInv
<1> QED
  BY <1>6, <1>7, <1>9, <1>10 DEF PaidInv

\* An answer is paid for the first time, unless its text is excused.
LEMMA AnswerStep ==
    ASSUME EmbedInv, PaidInv, NEW r \in DOMAIN scenario.requests, NEW answer,
           req[r].pc = "calling",
           req' = [req EXCEPT ![r].pc = "store", ![r].answer = answer],
           paid' = [paid EXCEPT ![Text(r)] = IF @ < 2 THEN @ + 1 ELSE @],
           UNCHANGED <<scenario, running, cache, excused>>
    PROVE  PaidInv'
<1> DEFINE q == [req[r] EXCEPT !.pc = "store", !.answer = answer]
<1>1. r \in Requests /\ RequestInv(req[r])
  BY RequestFacts
<1>2. q.got = req[r].got /\ q.pc = "store" /\ req' = [req EXCEPT ![r] = q]
  BY <1>1 DEF RequestInv, Fields, EmbedInv, CallsInv
<1> HIDE DEF q
<1>3. /\ req'[r] = q
      /\ \A x \in Requests \ {r} : /\ req'[x] = req[x] /\ Text(x)' = Text(x)
                                   /\ Asking(x)' <=> Asking(x)
  BY <1>1, <1>2, OthersSame DEF EmbedInv
<1>4. Text(r)' = Text(r) /\ Asking(r)' /\ Asking(r)
  BY <1>2, <1>3 DEF Text, Texts, Asking
<1>5. ASSUME NEW x \in Requests, NEW y \in Requests,
             x # y, Asking(x)', Asking(y)', Text(x)' = Text(y)'
      PROVE  Text(x)' \in excused'
  <2>1. Asking(x) /\ Asking(y) /\ Text(x)' = Text(x) /\ Text(y)' = Text(y)
    BY <1>3, <1>4, <1>5
  <2> QED
    BY <1>5, <2>1 DEF PaidInv
<1>6. ASSUME NEW x \in Requests, Asking(x)', Text(x)' \in Embed!Keys(cache)'
      PROVE  Text(x)' \in excused'
  <2>1. Asking(x) /\ Text(x)' = Text(x)
    BY <1>3, <1>4, <1>6
  <2> QED
    BY <1>6, <2>1 DEF PaidInv
<1>7. ASSUME NEW t, AtStore(t)
      PROVE  AtStore(t)'
  BY <1>3, <1>7 DEF AtStore
<1>8. running
  BY <1>1, <1>4 DEF EmbedInv, ProcessInv, Active, Asking
<1>9. ASSUME Text(r) \in DOMAIN paid, Text(r) \notin excused
       PROVE  paid[Text(r)] = 0
  <2>1. Text(r) \notin Embed!Keys(cache)
    BY <1>1, <1>4, <1>9 DEF PaidInv
  <2>2. ~AtStore(Text(r))
    <3> SUFFICES ASSUME NEW x \in Requests, req[x].pc = "store", Text(x) = Text(r)
                 PROVE  FALSE
      BY DEF AtStore
    <3>1. x # r /\ Asking(x)
      BY DEF Asking
    <3> QED
      BY <1>1, <1>4, <1>9, <3>1 DEF PaidInv
  <2> QED
    BY <1>9, <2>1, <2>2 DEF PaidInv
<1> DEFINE more(n) == IF n < 2 THEN n + 1 ELSE n
<1>10. /\ DOMAIN paid' = DOMAIN paid
       /\ \A t \in DOMAIN paid : paid'[t] = IF t = Text(r) THEN more(paid[t]) ELSE paid[t]
       /\ paid' = [t \in DOMAIN paid' |-> paid'[t]]
  OBVIOUS
<1>11. /\ \A t \in DOMAIN paid : paid[t] \in Nat
       /\ \A t \in DOMAIN paid \ excused :
            paid[t] = 0 \/ (running /\ paid[t] = 1 /\ (t \in Embed!Keys(cache) \/ AtStore(t)))
  BY DEF PaidInv
<1>12. ASSUME NEW t \in DOMAIN paid', t \notin excused'
       PROVE  \/ paid'[t] = 0
              \/ running' /\ paid'[t] = 1 /\ (t \in Embed!Keys(cache)' \/ AtStore(t)')
  <2>1. t \in DOMAIN paid /\ t \notin excused
    BY <1>12
  <2>2. CASE t = Text(r)
    <3>1. paid'[t] = 1
      BY <1>9, <1>10, <2>1, <2>2
    <3>2. AtStore(t)'
      BY <1>1, <1>2, <1>3, <1>4, <2>2 DEF AtStore
    <3> QED
      BY <1>8, <3>1, <3>2
  <2>3. CASE t # Text(r)
    <3>1. paid'[t] = paid[t]
      BY <1>10, <2>1, <2>3
    <3> QED
      BY <1>7, <1>11, <2>1, <3>1
  <2> QED
    BY <2>2, <2>3
<1>13. paid' = [t \in DOMAIN paid' |-> paid'[t]] /\ \A t \in DOMAIN paid' : paid'[t] \in Nat
  BY <1>10, <1>11
<1> QED
  BY <1>5, <1>6, <1>12, <1>13 DEF PaidInv

\* What is stored takes its place in the cache; what it evicts is excused.
LEMMA StoreStep ==
    ASSUME EmbedInv, PaidInv, NEW r \in DOMAIN scenario.requests, Store(r)
    PROVE  PaidInv'
<1> DEFINE q == Embedded(r, req[r].answer)
           E == Entries(DOMAIN paid)
           evicted == Embed!Evicted(cache, Text(r))
<1>1. /\ req[r].pc = "store" /\ UNCHANGED <<scenario, running, paid>>
      /\ cache' = Embed!Put(cache, Text(r), req[r].answer.embedding)
      /\ excused' = excused \union evicted /\ req' = [req EXCEPT ![r] = q]
  BY DEF Store, process, stored
<1>2. /\ r \in Requests /\ req[r].answer \in Answers(DOMAIN paid)
      /\ req[r].answer.embedding = Text(r)
  BY <1>1, RequestFacts DEF Fits, Answering, Text, Texts
<1>3. Embed!Keys(cache)' = (Embed!Keys(cache) \ evicted) \union {Text(r)}
  <2>1. [text |-> Text(r), embedding |-> req[r].answer.embedding] \in E
    BY <1>2 DEF Entries, Answers, Embed!Answered
  <2>2. cache \in Seq(E) /\ Distinct(cache) /\ Len(cache) <= Capacity
    BY DEF EmbedInv, CacheInv
  <2> HIDE DEF E, evicted
  <2>3. Embed!Keys(Embed!Put(cache, Text(r), req[r].answer.embedding)) =
            (Embed!Keys(cache) \ Embed!Evicted(cache, Text(r))) \union {Text(r)}
    BY <2>1, <2>2, PutFacts
  <2> QED
    BY <1>1, <2>3 DEF evicted
<1>4. q.pc \in {"lookup", "insert", "record"}
  BY DEF Embedded, NewRequest
<1> HIDE DEF q, evicted
<1>5. /\ req'[r] = q
      /\ \A x \in Requests \ {r} : /\ req'[x] = req[x] /\ Text(x)' = Text(x)
                                   /\ Asking(x)' <=> Asking(x)
  BY <1>1, <1>2, OthersSame DEF EmbedInv
<1>6. ~Asking(r)' /\ Asking(r)
  BY <1>1, <1>4, <1>5 DEF Asking
<1>7. ASSUME NEW x \in Requests, NEW y \in Requests,
             x # y, Asking(x)', Asking(y)', Text(x)' = Text(y)'
      PROVE  Text(x)' \in excused'
  BY <1>1, <1>5, <1>6, <1>7 DEF PaidInv
<1>8. ASSUME NEW x \in Requests, Asking(x)', Text(x)' \in Embed!Keys(cache)'
      PROVE  Text(x)' \in excused'
  <2>1. x # r /\ Asking(x) /\ Text(x)' = Text(x)
    BY <1>5, <1>6, <1>8
  <2>2. CASE Text(x) = Text(r)
    BY <1>1, <1>2, <1>6, <2>1, <2>2 DEF PaidInv
  <2>3. CASE Text(x) # Text(r)
    BY <1>1, <1>3, <1>8, <2>1, <2>3 DEF PaidInv
  <2> QED
    BY <2>2, <2>3
<1>9. ASSUME NEW t, AtStore(t)
      PROVE  AtStore(t)' \/ t = Text(r)
  BY <1>5, <1>9 DEF AtStore
<1>10. ASSUME NEW t \in DOMAIN paid', t \notin excused'
       PROVE  \/ paid'[t] = 0
              \/ running' /\ paid'[t] = 1 /\ (t \in Embed!Keys(cache)' \/ AtStore(t)')
  BY <1>1, <1>3, <1>9, <1>10 DEF PaidInv
<1>11. paid' = [t \in DOMAIN paid' |-> paid'[t]] /\ \A t \in DOMAIN paid' : paid'[t] \in Nat
  BY <1>1 DEF PaidInv
<1> QED
  BY <1>7, <1>8, <1>10, <1>11 DEF PaidInv

\* What is as it was for the payments.
LEMMA PaidUnchanged ==
    ASSUME PaidInv, UNCHANGED <<scenario, running, cache, req, paid, excused>>
    PROVE  PaidInv'
<1>1. \A x \in Requests : Text(x)' = Text(x) /\ (Asking(x)' <=> Asking(x))
  BY DEF Text, Texts, Asking
<1>2. ASSUME NEW t, AtStore(t) PROVE AtStore(t)'
  BY <1>1, <1>2 DEF AtStore
<1>3. Embed!Keys(cache)' = Embed!Keys(cache)
  OBVIOUS
<1>4. ASSUME NEW t \in DOMAIN paid', t \notin excused'
      PROVE  \/ paid'[t] = 0
             \/ running' /\ paid'[t] = 1 /\ (t \in Embed!Keys(cache)' \/ AtStore(t)')
  BY <1>2, <1>3, <1>4 DEF PaidInv
<1> QED
  BY <1>1, <1>3, <1>4 DEF PaidInv

\* Where no process runs nothing is paid, or everything is excused.
LEMMA StartPaid ==
    ASSUME EmbedInv, PaidInv, Start
    PROVE  PaidInv'
<1>1. ~running /\ cache' = <<>> /\ UNCHANGED <<scenario, req, paid, excused>>
  BY DEF Start
<1>2. \A x \in Requests : ~Asking(x)'
  BY <1>1 DEF EmbedInv, ProcessInv, Active, Asking
<1>3. \A t \in DOMAIN paid \ excused : paid[t] = 0
  BY <1>1 DEF PaidInv
<1> QED
  BY <1>1, <1>2, <1>3 DEF PaidInv

\* A reload that exits excuses everything.
LEMMA ReloadExitsPaid ==
    ASSUME EmbedInv, PaidInv, ReloadExits
    PROVE  PaidInv'
<1>1. /\ excused' = DOMAIN paid /\ UNCHANGED paid
      /\ req' = [r \in Requests |-> IF Active(r) THEN Done(r, "lost") ELSE req[r]]
  BY DEF ReloadExits
<1>2. \A x \in Requests : ~Asking(x)'
  BY <1>1 DEF Active, Asking, Done, EmbedInv, CallsInv, RequestInv, Fields
<1> QED
  BY <1>1, <1>2 DEF PaidInv

\* Initially nothing was paid.
LEMMA InitPaid == Init => PaidInv
<1> SUFFICES ASSUME Init PROVE PaidInv
  OBVIOUS
<1>1. \A x \in Requests : ~Asking(x)
  BY DEF Init, Asking, NewRequest
<1>2. paid = [t \in DOMAIN paid |-> 0] /\ excused = {}
  BY DEF Init
<1>3. paid = [t \in DOMAIN paid |-> paid[t]] /\ \A t \in DOMAIN paid : paid[t] = 0
  BY <1>2
<1> QED
  BY <1>1, <1>3 DEF PaidInv

\* Every step of a request keeps account of what is paid.
LEMMA StepPaid ==
    ASSUME EmbedInv, PaidInv, NEW r \in DOMAIN scenario.requests,
           ReceiveEmbed(r) \/ ReceiveSearch(r) \/ Step(r) \/ Reply(r) \/ TimeOut(r)
    PROVE  PaidInv'
<1>1. r \in Requests /\ RequestInv(req[r])
  BY RequestFacts
<1>2. \A result : Done(r, result).pc = "done"
  BY <1>1 DEF Done, RequestInv, Fields
<1>3. \A pc : [req[r] EXCEPT !.pc = pc].pc = pc
  BY <1>1 DEF RequestInv, Fields
<1>4. ASSUME NEW error PROVE AfterError(r, error).pc \in {"waiting", "done"}
  BY <1>1, <1>2 DEF AfterError, RequestInv, Fields
<1>5. \A answer : Embedded(r, answer).pc \in {"lookup", "insert", "record"}
  BY DEF Embedded, NewRequest
<1>6. CASE ReceiveEmbed(r) \/ ReceiveSearch(r)
  <2>1. /\ req[r].pc = "new" /\ UNCHANGED <<scenario, running, paid, excused, cache>>
        /\ \/ \E result : req' = [req EXCEPT ![r] = Done(r, result)]
           \/ req' = [req EXCEPT ![r].pc = "lookup"]
    BY <1>6 DEF ReceiveEmbed, ReceiveSearch, Ends, process, history
  <2>2. ASSUME NEW result, req' = [req EXCEPT ![r] = Done(r, result)]
        PROVE  PaidInv'
    BY <1>1, <1>2, <2>1, <2>2, QuietStep
  <2>3. ASSUME req' = [req EXCEPT ![r] = [req[r] EXCEPT !.pc = "lookup"]]
        PROVE  PaidInv'
    BY <1>1, <1>3, <2>1, <2>3, QuietStep
  <2> QED
    BY <2>1, <2>2, <2>3
<1>7. CASE LookupHits(r)
  <2> DEFINE q == Embedded(r, Embed!Hit(cache, Text(r)))
  <2>1. /\ req[r].pc = "lookup" /\ Text(r) \in Embed!Keys(cache)
        /\ cache' = Embed!Touch(cache, Text(r)) /\ req' = [req EXCEPT ![r] = q]
        /\ UNCHANGED <<scenario, running, paid, excused>>
    BY <1>7 DEF LookupHits, process, history
  <2>2. q.pc \in {"lookup", "insert", "record"}
    BY <1>5
  <2>3. cache \in Seq(Entries(DOMAIN paid)) /\ Distinct(cache)
    BY DEF EmbedInv, CacheInv
  <2> HIDE DEF q
  <2>4. Embed!Keys(Embed!Touch(cache, Text(r))) = Embed!Keys(cache)
    BY <2>1, <2>3, TouchFacts
  <2>5. Embed!Keys(cache)' = Embed!Keys(cache)
    BY <2>1, <2>4
  <2> QED
    BY <1>1, <2>1, <2>2, <2>5, QuietStep
<1>8. CASE LookupMisses(r)
  BY <1>8, CallStep
<1>9. CASE Wake(r)
  <2> DEFINE q == [req[r] EXCEPT !.pc = "lookup", !.delay = Embed!NextDelay(req[r].delay)]
  <2>1. /\ req[r].pc = "waiting" /\ UNCHANGED <<scenario, running, paid, excused, cache>>
        /\ req' = [req EXCEPT ![r] = q]
    BY <1>9 DEF Wake, process, history
  <2>2. q.pc = "lookup"
    BY <1>1 DEF RequestInv, Fields
  <2> HIDE DEF q
  <2> QED
    BY <1>1, <2>1, <2>2, QuietStep
<1>10. CASE Store(r)
  BY <1>10, StoreStep
<1>11. CASE Insert(r) \/ Budget(r) \/ Record(r) \/ Search(r)
  <2>1. /\ req[r].pc \in {"insert"} \union Served
        /\ UNCHANGED <<scenario, running, paid, excused, cache>>
        /\ \/ \E result : req' = [req EXCEPT ![r] = Done(r, result)]
           \/ \E pc \in Served : req' = [req EXCEPT ![r].pc = pc]
    BY <1>11 DEF Insert, StoresAll, StoresNone, Exceeds, Budget, Record, Search, Ends, Served,
                 process, history
  <2>2. ASSUME NEW result, req' = [req EXCEPT ![r] = Done(r, result)]
        PROVE  PaidInv'
    BY <1>1, <1>2, <2>1, <2>2, QuietStep DEF Served
  <2>3. ASSUME NEW pc \in Served, req' = [req EXCEPT ![r] = [req[r] EXCEPT !.pc = pc]]
        PROVE  PaidInv'
    BY <1>1, <1>3, <2>1, <2>3, QuietStep DEF Served
  <2> QED
    BY <2>1, <2>2, <2>3
<1>12. CASE Reply(r)
  <2>1. req[r].pc = "calling" /\ UNCHANGED <<scenario, running, cache, excused>>
    BY <1>12 DEF Reply, process
  <2>2. CASE \E error : req' = [req EXCEPT ![r] = AfterError(r, error)] /\ UNCHANGED paid
    <3>1. PICK error : req' = [req EXCEPT ![r] = AfterError(r, error)] /\ UNCHANGED paid
      BY <2>2
    <3> QED
      BY <1>1, <1>4, <2>1, <3>1, QuietStep
  <2>3. CASE \E answer :
                /\ req' = [req EXCEPT ![r].pc = "store", ![r].answer = answer]
                /\ paid' = [paid EXCEPT ![Text(r)] = IF @ < 2 THEN @ + 1 ELSE @]
    BY <2>1, <2>3, AnswerStep
  <2> QED
    BY <1>12, <2>2, <2>3 DEF Reply
<1>13. CASE TimeOut(r)
  <2>1. /\ req[r].pc = "calling" /\ UNCHANGED <<scenario, running, cache, paid, excused>>
        /\ req' = [req EXCEPT ![r] = AfterError(r, Embed!RequestFailed.error)]
    BY <1>13 DEF TimeOut, process, history
  <2> QED
    BY <1>1, <1>4, <2>1, QuietStep
<1> QED
  BY <1>6, <1>7, <1>8, <1>9, <1>10, <1>11, <1>12, <1>13 DEF Step

\* Every step keeps account of what is paid.
LEMMA NextPaid == EmbedInv /\ PaidInv /\ [Next]_vars => PaidInv'
<1> SUFFICES ASSUME EmbedInv, PaidInv, [Next]_vars PROVE PaidInv'
  OBVIOUS
<1>1. CASE Start
  BY <1>1, StartPaid
<1>2. CASE EditFile \/ Reload
  BY <1>2, PaidUnchanged DEF EditFile, Reload, history
<1>3. CASE ReloadExits
  BY <1>3, ReloadExitsPaid
<1>4. CASE \E r \in DOMAIN scenario.requests :
             ReceiveEmbed(r) \/ ReceiveSearch(r) \/ Step(r) \/ Reply(r) \/ TimeOut(r)
  BY <1>4, StepPaid
<1>5. CASE UNCHANGED vars
  BY <1>5, PaidUnchanged DEF vars, process, history
<1> QED
  BY <1>1, <1>2, <1>3, <1>4, <1>5 DEF Next

\* A call is paid for once: the cache has the vector from then on, whichever
\* request asks next, unless it was evicted or two requests missed it at once.
THEOREM PaidOnce == Spec => []PaidOnceUnlessRaced
<1>1. PaidInv => PaidOnceUnlessRaced
  BY DEF PaidInv, PaidOnceUnlessRaced
<1> QED
  BY <1>1, InitEmbed, NextEmbed, InitPaid, NextPaid, PTL DEF Spec

-----------------------------------------------------------------------------
(* The types.                                                              *)

\* A cache that holds no text twice has as many texts as entries.
LEMMA KeysCounted ==
    ASSUME NEW E, NEW c \in Seq(E), Distinct(c)
    PROVE  Cardinality(Embed!Keys(c)) = Len(c)
<1> DEFINE f == [i \in DOMAIN c |-> c[i].text]
<1>1. Len(c) \in Nat /\ DOMAIN c = 1 .. Len(c)
  OBVIOUS
<1>2. f \in [1 .. Len(c) -> Embed!Keys(c)]
  BY <1>1 DEF Embed!Keys
<1>3. \A i, j \in 1 .. Len(c) : f[i] = f[j] => i = j
  BY <1>1 DEF Distinct
<1>4. \A t \in Embed!Keys(c) : \E i \in 1 .. Len(c) : f[i] = t
  BY <1>1 DEF Embed!Keys
<1> HIDE DEF f
<1>5. f \in Bijection(1 .. Len(c), Embed!Keys(c))
  BY <1>2, <1>3, <1>4, Fun_IsBij
<1>6. ExistsBijection(1 .. Len(c), Embed!Keys(c))
  BY <1>5, Fun_ExistsBij
<1> QED
  BY <1>1, <1>6, FS_CountingElements

\* Which file is read, and what it left in force.
SettingsInv ==
    /\ scenario \in Scenarios /\ version \in 1 .. Len(scenario.files)
    /\ running \in BOOLEAN /\ (running <=> config # None)
    /\ collection # None => exists

\* Initially no version is loaded.
LEMMA InitSettings == Init => SettingsInv
<1> SUFFICES ASSUME Init PROVE SettingsInv
  OBVIOUS
<1>1. scenario \in Scenarios /\ Len(scenario.files) \in Nat \ {0}
  BY ConstantsAssumption DEF Init
<1>2. 1 \in 1 .. Len(scenario.files)
  BY <1>1
<1> QED
  BY <1>1, <1>2 DEF Init, SettingsInv

\* The steps that read a configuration leave one in force or no process.
LEMMA NextSettings == SettingsInv /\ [Next]_vars => SettingsInv'
<1> SUFFICES ASSUME SettingsInv, [Next]_vars PROVE SettingsInv'
  OBVIOUS
<1>1. CASE Start
  BY <1>1 DEF SettingsInv, Start
<1>2. CASE EditFile
  <2>1. /\ version < Len(scenario.files) /\ version' = version + 1
        /\ UNCHANGED <<scenario, running, config, collection, exists>>
    BY <1>2 DEF EditFile, stored
  <2>2. Len(scenario.files) \in Nat
    BY ConstantsAssumption DEF SettingsInv
  <2> QED
    BY <2>1, <2>2 DEF SettingsInv
<1>3. CASE Reload
  BY <1>3 DEF SettingsInv, Reload, stored
<1>4. CASE ReloadExits
  BY <1>4 DEF SettingsInv, ReloadExits
<1>5. CASE UNCHANGED process /\ (UNCHANGED <<collection, exists>> \/ exists' \/ collection' = None)
  BY <1>5 DEF SettingsInv, process
<1>6. ASSUME NEW r \in DOMAIN scenario.requests,
             ReceiveEmbed(r) \/ ReceiveSearch(r) \/ Step(r) \/ Reply(r) \/ TimeOut(r)
      PROVE  SettingsInv'
  <2>1. CASE ReceiveEmbed(r)
    BY <1>5, <2>1 DEF ReceiveEmbed, OpenFails, Opens
  <2>2. CASE ReceiveSearch(r)
    BY <2>2 DEF ReceiveSearch, OpenFails, Opens, SettingsInv, process
  <2>3. CASE LookupHits(r) \/ LookupMisses(r) \/ Wake(r) \/ Store(r)
              \/ Insert(r) \/ Budget(r) \/ Record(r) \/ Search(r)
    BY <1>5, <2>3
    DEF LookupHits, LookupMisses, Wake, Store, Insert, Budget, Record, Search, stored
  <2>4. CASE Reply(r) \/ TimeOut(r)
    BY <1>5, <2>4 DEF Reply, TimeOut, stored
  <2> QED
    BY <1>6, <2>1, <2>2, <2>3, <2>4 DEF Step
<1>7. CASE UNCHANGED vars
  BY <1>5, <1>7 DEF vars, stored
<1> QED
  BY <1>1, <1>2, <1>3, <1>4, <1>6, <1>7 DEF Next

\* The variables keep their types, the cache its capacity and the pauses between
\* retries their limit, whatever the provider answers.
THEOREM AlwaysTyped == Spec => []TypeOK
<1>1. ASSUME EmbedInv, SettingsInv PROVE TypeOK
  <2>1. Len(cache) <= Capacity /\ Cardinality(Embed!Keys(cache)) = Len(cache)
    BY <1>1, KeysCounted DEF EmbedInv, CacheInv
  <2>2. ASSUME NEW r \in Requests
        PROVE  /\ req[r].pc \in Pcs /\ req[r].result \in Results
               /\ req[r].result # None <=> req[r].pc = "done"
               /\ req[r].attempts \in 0 .. MaxRetries
               /\ req[r].delay <= (IF req[r].attempts <= 1 /\ InitialDelay > MaxDelay
                                   THEN InitialDelay ELSE MaxDelay)
    <3>1. Timed(req[r])
      <4>1. CASE r \in DOMAIN scenario.requests
        BY <1>1, <4>1, RequestFacts DEF Fits
      <4>2. CASE r \notin DOMAIN scenario.requests
        <5>1. req[r] = NewRequest
          BY <1>1, <4>2 DEF EmbedInv, RequestsInv
        <5>2. InitialDelay \in Nat
          BY ConstantsAssumption
        <5> QED
          BY <5>1, <5>2 DEF NewRequest, Timed, Pcs, Results
      <4> QED
        BY <4>1, <4>2
    <3>2. req[r].attempts \in 0 .. MaxRetries
      BY <1>1 DEF EmbedInv, CallsInv, RequestInv, CallsCounted
    <3>3. MaxRetries \in Nat /\ InitialDelay \in Nat /\ MaxDelay \in Nat
      BY ConstantsAssumption
    <3>4. req[r].delay <= (IF req[r].attempts <= 1 /\ InitialDelay > MaxDelay
                           THEN InitialDelay ELSE MaxDelay)
      BY <3>1, <3>2, <3>3 DEF Timed
    <3> QED
      BY <3>1, <3>2, <3>4 DEF Timed
  <2> QED
    BY <1>1, <2>1, <2>2 DEF TypeOK, SettingsInv, Pcs, Served
<1> QED
  BY <1>1, InitEmbed, InitSettings, NextEmbed, NextSettings, PTL DEF Spec

-----------------------------------------------------------------------------
(* The configuration.  Each stage of apply_env_overrides reads variables    *)
(* of its own and leaves every setting alone that they do not touch.        *)

Touches(name) == Aside(name) \union {Own[name]}

HardwareNames == {"HARDWARE_PROFILE", "HARDWARE_CPU_THREADS", "HARDWARE_GPU_ENABLED",
                  "HARDWARE_MEMORY_BUDGET_BYTES"}
WalNames == {"WAL_CHECKPOINT_FREQUENCY", "WAL_CHECKPOINT_INTERVAL_SECS", "WAL_ENABLED"}
MemoryNames == {"MEMORY_USE_MMAP", "MEMORY_INITIAL_MMAP_MB"}
ParallelNames == {"PARALLEL_SEARCH", "NUM_THREADS"}
SearchNames == {"SEARCH_FILTER_OVERFETCH", "SEARCH_FILTER_EXPANSION", "SEARCH_LATENCY_BUDGET_MS",
                "SEARCH_RECALL_TARGET", "SEARCH_ADAPTIVE_ENABLED"}
AutoNames == DOMAIN Config!AutoVariables
PlainNames == DOMAIN Config!PlainVariables
OtherNames == {"INDEX_TYPE", "EXECUTION_MODE"} \union HardwareNames \union WalNames
              \union MemoryNames \union ParallelNames \union SearchNames

\* The settings of two sections that have none in common.
LEMMA JoinFacts ==
    ASSUME NEW f, NEW g
    PROVE  /\ DOMAIN Config!Join(f, g) = DOMAIN f \union DOMAIN g
           /\ \A x \in DOMAIN f : Config!Join(f, g)[x] = f[x]
           /\ \A x \in DOMAIN g \ DOMAIN f : Config!Join(f, g)[x] = g[x]
BY DEF Config!Join

\* Whose setting is whose.
LEMMA OwnFacts ==
    /\ DOMAIN Own = AutoNames \union PlainNames \union OtherNames
    /\ \A name \in AutoNames : Own[name] = Config!AutoVariables[name]
    /\ \A name \in PlainNames : Own[name] = Config!PlainVariables[name]
    /\ Own["INDEX_TYPE"] = "index_type" /\ Own["EXECUTION_MODE"] = "execution"
    /\ Own["HARDWARE_PROFILE"] = "hardware_profile"
    /\ Own["HARDWARE_GPU_ENABLED"] = "hardware_gpu_enabled"
    /\ Own["HARDWARE_CPU_THREADS"] = "hardware_cpu_threads"
    /\ Own["HARDWARE_MEMORY_BUDGET_BYTES"] = "hardware_memory_budget"
    /\ Own["WAL_ENABLED"] = "wal_enabled"
    /\ Own["WAL_CHECKPOINT_FREQUENCY"] = "wal_checkpoint_frequency"
    /\ Own["WAL_CHECKPOINT_INTERVAL_SECS"] = "wal_checkpoint_interval_secs"
    /\ Own["MEMORY_USE_MMAP"] = "memory_use_mmap"
    /\ Own["MEMORY_INITIAL_MMAP_MB"] = "memory_initial_mmap_size"
    /\ Own["PARALLEL_SEARCH"] = "parallelism_parallel_search"
    /\ Own["NUM_THREADS"] = "parallelism_num_threads"
    /\ Own["SEARCH_FILTER_OVERFETCH"] = "search_filter_overfetch"
    /\ Own["SEARCH_FILTER_EXPANSION"] = "search_filter_overfetch"
    /\ Own["SEARCH_LATENCY_BUDGET_MS"] = "search_latency_budget_ms"
    /\ Own["SEARCH_RECALL_TARGET"] = "search_recall_percent"
    /\ Own["SEARCH_ADAPTIVE_ENABLED"] = "adaptive_enabled"
<1> DEFINE rest ==
        [INDEX_TYPE |-> "index_type", EXECUTION_MODE |-> "execution",
         HARDWARE_PROFILE |-> "hardware_profile", HARDWARE_GPU_ENABLED |-> "hardware_gpu_enabled",
         HARDWARE_CPU_THREADS |-> "hardware_cpu_threads",
         HARDWARE_MEMORY_BUDGET_BYTES |-> "hardware_memory_budget",
         WAL_ENABLED |-> "wal_enabled", WAL_CHECKPOINT_FREQUENCY |-> "wal_checkpoint_frequency",
         WAL_CHECKPOINT_INTERVAL_SECS |-> "wal_checkpoint_interval_secs",
         MEMORY_USE_MMAP |-> "memory_use_mmap",
         MEMORY_INITIAL_MMAP_MB |-> "memory_initial_mmap_size",
         PARALLEL_SEARCH |-> "parallelism_parallel_search",
         NUM_THREADS |-> "parallelism_num_threads",
         SEARCH_FILTER_OVERFETCH |-> "search_filter_overfetch",
         SEARCH_FILTER_EXPANSION |-> "search_filter_overfetch",
         SEARCH_LATENCY_BUDGET_MS |-> "search_latency_budget_ms",
         SEARCH_RECALL_TARGET |-> "search_recall_percent",
         SEARCH_ADAPTIVE_ENABLED |-> "adaptive_enabled"]
      plain == Config!Join(Config!PlainVariables, rest)
<1>1. Own = Config!Join(Config!AutoVariables, plain)
  BY DEF Own
<1>2. /\ DOMAIN rest = OtherNames
      /\ AutoNames \intersect PlainNames = {} /\ OtherNames \intersect PlainNames = {}
      /\ OtherNames \intersect AutoNames = {}
  BY DEF OtherNames, HardwareNames, WalNames, MemoryNames, ParallelNames, SearchNames,
         AutoNames, PlainNames, Config!AutoVariables, Config!PlainVariables
<1> HIDE DEF rest
<1>3. /\ DOMAIN plain = PlainNames \union OtherNames
      /\ \A name \in PlainNames : plain[name] = Config!PlainVariables[name]
      /\ \A name \in OtherNames : plain[name] = rest[name]
  <2>1. /\ DOMAIN plain = PlainNames \union DOMAIN rest
        /\ \A name \in PlainNames : plain[name] = Config!PlainVariables[name]
        /\ \A name \in DOMAIN rest \ PlainNames : plain[name] = rest[name]
    BY JoinFacts DEF PlainNames
  <2> QED
    BY <1>2, <2>1
<1> HIDE DEF plain
<1>4. /\ DOMAIN Own = AutoNames \union PlainNames \union OtherNames
      /\ \A name \in AutoNames : Own[name] = Config!AutoVariables[name]
      /\ \A name \in PlainNames : Own[name] = Config!PlainVariables[name]
      /\ \A name \in OtherNames : Own[name] = rest[name]
  <2> DEFINE all == Config!Join(Config!AutoVariables, plain)
  <2>1. /\ DOMAIN all = AutoNames \union DOMAIN plain
        /\ \A name \in AutoNames : all[name] = Config!AutoVariables[name]
        /\ \A name \in DOMAIN plain \ AutoNames : all[name] = plain[name]
    BY JoinFacts DEF AutoNames
  <2> HIDE DEF all
  <2>2. Own = all
    BY <1>1 DEF all
  <2> QED
    BY <1>2, <1>3, <2>1, <2>2
<1> QED
  BY <1>4 DEF rest, OtherNames, HardwareNames, WalNames, MemoryNames, ParallelNames, SearchNames

\* FromEnv gives settings the values of the variables that name them.
LEMMA FromEnvFacts ==
    ASSUME NEW c, NEW e, NEW fields
    PROVE  LET d == Config!FromEnv(c, e, fields)
           IN  /\ DOMAIN d = DOMAIN c
               /\ \A field \in DOMAIN c :
                    (\A name \in DOMAIN fields \intersect DOMAIN e : fields[name] # field)
                        => d[field] = c[field]
               /\ \A name \in DOMAIN fields \intersect DOMAIN e :
                    /\ fields[name] \in DOMAIN c
                    /\ \A other \in DOMAIN fields : fields[other] = fields[name] => other = name
                    => d[fields[name]] = e[name]
<1> DEFINE naming(field) == {name \in DOMAIN fields : name \in DOMAIN e /\ fields[name] = field}
           d == Config!FromEnv(c, e, fields)
<1>1. d = [field \in DOMAIN c |-> IF naming(field) = {} THEN c[field]
                                  ELSE e[CHOOSE name \in naming(field) : TRUE]]
  BY DEF Config!FromEnv, Config!Set
<1>2. ASSUME NEW field \in DOMAIN c,
             \A name \in DOMAIN fields \intersect DOMAIN e : fields[name] # field
      PROVE  d[field] = c[field]
  <2>1. naming(field) = {}
    BY <1>2
  <2> QED
    BY <1>1, <2>1
<1>3. ASSUME NEW name \in DOMAIN fields \intersect DOMAIN e, fields[name] \in DOMAIN c,
             \A other \in DOMAIN fields : fields[other] = fields[name] => other = name
      PROVE  d[fields[name]] = e[name]
  <2>1. naming(fields[name]) = {name}
    BY <1>3
  <2>2. (CHOOSE n \in {name} : TRUE) = name
    OBVIOUS
  <2> QED
    BY <1>1, <1>3, <2>1, <2>2
<1> QED
  BY <1>1, <1>2, <1>3

\* The settings, section by section.
SectionSettings ==
    DOMAIN Config!DefaultIndex \union DOMAIN Config!DefaultAuto \union DOMAIN Config!DefaultSearch
    \union DOMAIN Config!DefaultBudgets \union DOMAIN Config!DefaultQuantization
    \union DOMAIN Config!DefaultWal \union DOMAIN Config!DefaultMemory
    \union DOMAIN Config!DefaultParallelism \union DOMAIN Config!DefaultHardware
    \union DOMAIN Config!DefaultCache \union DOMAIN Config!DefaultLimits
    \union DOMAIN Config!DefaultLogging \union {"execution"}

\* The default configuration has the settings of every section, with the values
\* that its sections give the thresholds.
LEMMA DefaultFacts ==
    /\ DOMAIN Config!Default = SectionSettings
    /\ Config!Default.auto_flat_max_vectors = 10000
    /\ Config!Default.auto_ivf_max_vectors = 100000
<1> DEFINE execution == [execution |-> "auto"]
           fromLogging == Config!Join(Config!DefaultLogging, execution)
           fromLimits == Config!Join(Config!DefaultLimits, fromLogging)
           fromCache == Config!Join(Config!DefaultCache, fromLimits)
           fromHardware == Config!Join(Config!DefaultHardware, fromCache)
           fromParallelism == Config!Join(Config!DefaultParallelism, fromHardware)
           fromMemory == Config!Join(Config!DefaultMemory, fromParallelism)
           fromWal == Config!Join(Config!DefaultWal, fromMemory)
           fromQuantization == Config!Join(Config!DefaultQuantization, fromWal)
           fromBudgets == Config!Join(Config!DefaultBudgets, fromQuantization)
           fromSearch == Config!Join(Config!DefaultSearch, fromBudgets)
           fromAuto == Config!Join(Config!DefaultAuto, fromSearch)
           fromIndex == Config!Join(Config!DefaultIndex, fromAuto)
<1>1. Config!Default = fromIndex
  BY DEF Config!Default
<1>2. DOMAIN execution = {"execution"}
  OBVIOUS
<1> HIDE DEF execution
<1>3. DOMAIN fromLogging = DOMAIN Config!DefaultLogging \union DOMAIN execution
  BY JoinFacts
<1> HIDE DEF fromLogging
<1>4. DOMAIN fromLimits = DOMAIN Config!DefaultLimits \union DOMAIN fromLogging
  BY JoinFacts
<1> HIDE DEF fromLimits
<1>5. DOMAIN fromCache = DOMAIN Config!DefaultCache \union DOMAIN fromLimits
  BY JoinFacts
<1> HIDE DEF fromCache
<1>6. DOMAIN fromHardware = DOMAIN Config!DefaultHardware \union DOMAIN fromCache
  BY JoinFacts
<1> HIDE DEF fromHardware
<1>7. DOMAIN fromParallelism = DOMAIN Config!DefaultParallelism \union DOMAIN fromHardware
  BY JoinFacts
<1> HIDE DEF fromParallelism
<1>8. DOMAIN fromMemory = DOMAIN Config!DefaultMemory \union DOMAIN fromParallelism
  BY JoinFacts
<1> HIDE DEF fromMemory
<1>9. DOMAIN fromWal = DOMAIN Config!DefaultWal \union DOMAIN fromMemory
  BY JoinFacts
<1> HIDE DEF fromWal
<1>10. DOMAIN fromQuantization = DOMAIN Config!DefaultQuantization \union DOMAIN fromWal
  BY JoinFacts
<1> HIDE DEF fromQuantization
<1>11. DOMAIN fromBudgets = DOMAIN Config!DefaultBudgets \union DOMAIN fromQuantization
  BY JoinFacts
<1> HIDE DEF fromBudgets
<1>12. DOMAIN fromSearch = DOMAIN Config!DefaultSearch \union DOMAIN fromBudgets
  BY JoinFacts
<1> HIDE DEF fromSearch
<1>13. DOMAIN fromAuto = DOMAIN Config!DefaultAuto \union DOMAIN fromSearch
  BY JoinFacts
<1>14. \A x \in DOMAIN Config!DefaultAuto : fromAuto[x] = Config!DefaultAuto[x]
  BY JoinFacts
<1> HIDE DEF fromAuto
<1>15. DOMAIN fromIndex = DOMAIN Config!DefaultIndex \union DOMAIN fromAuto
  BY JoinFacts
<1>16. \A x \in DOMAIN fromAuto \ DOMAIN Config!DefaultIndex : fromIndex[x] = fromAuto[x]
  BY JoinFacts
<1> HIDE DEF fromIndex
<1>17. DOMAIN Config!Default = SectionSettings
  BY <1>1, <1>2, <1>3, <1>4, <1>5, <1>6, <1>7, <1>8, <1>9, <1>10, <1>11, <1>12, <1>13, <1>14, <1>15 DEF SectionSettings
<1>18. /\ {"auto_flat_max_vectors", "auto_ivf_max_vectors"} \subseteq DOMAIN Config!DefaultAuto
      /\ {"auto_flat_max_vectors", "auto_ivf_max_vectors"} \intersect DOMAIN Config!DefaultIndex = {}
      /\ Config!DefaultAuto["auto_flat_max_vectors"] = 10000
      /\ Config!DefaultAuto["auto_ivf_max_vectors"] = 100000
  BY DEF Config!DefaultAuto, Config!DefaultIndex
<1> QED
  BY <1>1, <1>13, <1>14, <1>16, <1>17, <1>18

\* Every variable sets a setting that there is.
LEMMA SettingFacts ==
    \A name \in DOMAIN Own : Own[name] \in SectionSettings
<1>1. ASSUME NEW name \in AutoNames
      PROVE  Own[name] \in DOMAIN Config!DefaultAuto
  BY <1>1, OwnFacts DEF AutoNames, Config!AutoVariables, Config!DefaultAuto
<1>2. ASSUME NEW name \in PlainNames
      PROVE  Own[name] \in DOMAIN Config!DefaultQuantization \union DOMAIN Config!DefaultLimits
                           \union DOMAIN Config!DefaultCache \union DOMAIN Config!DefaultLogging
  BY <1>2, OwnFacts DEF PlainNames, Config!PlainVariables, Config!DefaultQuantization,
     Config!DefaultLimits, Config!DefaultCache, Config!DefaultLogging
<1>3. ASSUME NEW name \in {"INDEX_TYPE", "EXECUTION_MODE"}
      PROVE  Own[name] \in DOMAIN Config!DefaultIndex \union {"execution"}
  BY <1>3, OwnFacts DEF Config!DefaultIndex
<1>4. ASSUME NEW name \in HardwareNames
      PROVE  Own[name] \in DOMAIN Config!DefaultHardware
  BY <1>4, OwnFacts DEF HardwareNames, Config!DefaultHardware
<1>5. ASSUME NEW name \in WalNames \union MemoryNames
      PROVE  Own[name] \in DOMAIN Config!DefaultWal \union DOMAIN Config!DefaultMemory
  BY <1>5, OwnFacts DEF WalNames, MemoryNames, Config!DefaultWal, Config!DefaultMemory
<1>6. ASSUME NEW name \in ParallelNames
      PROVE  Own[name] \in DOMAIN Config!DefaultParallelism
  BY <1>6, OwnFacts DEF ParallelNames, Config!DefaultParallelism
<1>7. ASSUME NEW name \in SearchNames
      PROVE  Own[name] \in DOMAIN Config!DefaultSearch \union DOMAIN Config!DefaultBudgets
  BY <1>7, OwnFacts DEF SearchNames, Config!DefaultSearch, Config!DefaultBudgets
<1> QED
  BY <1>1, <1>2, <1>3, <1>4, <1>5, <1>6, <1>7, OwnFacts DEF SectionSettings, OtherNames

\* What a variable that is set makes of its setting, unless another takes its
\* place or the index is not chosen by size.
Value(e, name) == IF name \in Zeroless /\ e[name] = 0 THEN 1 ELSE e[name]
Outdone(d, e, name) ==
    \/ name = "PARALLEL_SEARCH" /\ "NUM_THREADS" \in DOMAIN e
    \/ name = "SEARCH_FILTER_EXPANSION" /\ "SEARCH_FILTER_OVERFETCH" \in DOMAIN e
    \/ name \in AutoNames /\ d.index_type # "auto"

\* d has the settings of c but for those that the variables in names touch.
Keeps(c, d, e, names) ==
    /\ DOMAIN d = DOMAIN c
    /\ \A field \in DOMAIN c :
        (\A name \in names \intersect DOMAIN e : field \notin Touches(name)) => d[field] = c[field]

\* d has the values of the variables in names.
Sets(d, e, names) ==
    \A name \in names \intersect DOMAIN e :
        ~Outdone(d, e, name) => d[Own[name]] = Value(e, name)

Touched(names) == UNION {Touches(name) : name \in names}

\* One stage after another: what neither touches is as it was.
LEMMA KeepsAfter ==
    ASSUME NEW b, NEW c, NEW d, NEW e, NEW names, NEW later,
           Keeps(b, c, e, names), Keeps(c, d, e, later)
    PROVE  Keeps(b, d, e, names \union later)
BY DEF Keeps

\* A setting stays when the later stage does not touch it.
LEMMA SetsAfter ==
    ASSUME NEW c, NEW d, NEW e, NEW names, NEW later,
           names \subseteq DOMAIN Own, DOMAIN c = SectionSettings,
           Sets(c, e, names), Keeps(c, d, e, later),
           \A name \in names : Own[name] \notin Touched(later),
           "index_type" \notin Touched(later)
    PROVE  Sets(d, e, names)
<1>1. d["index_type"] = c["index_type"]
  <2>1. "index_type" \in DOMAIN c
    BY DEF SectionSettings, Config!DefaultIndex
  <2> QED
    BY <2>1 DEF Keeps, Touched
<1>2. ASSUME NEW name \in names \intersect DOMAIN e, ~Outdone(d, e, name)
      PROVE  d[Own[name]] = Value(e, name)
  <2>1. Own[name] \in DOMAIN c /\ Own[name] \notin Touched(later)
    BY SettingFacts
  <2>2. d[Own[name]] = c[Own[name]]
    BY <2>1 DEF Keeps, Touched
  <2>3. ~Outdone(c, e, name)
    BY <1>1, <1>2 DEF Outdone
  <2> QED
    BY <2>2, <2>3 DEF Sets
<1> QED
  BY <1>2 DEF Sets

\* Variables each of which has a setting of its own and touches no other.
LEMMA FromEnvKeeps ==
    ASSUME NEW c, NEW e, NEW fields, NEW names, DOMAIN fields \subseteq names,
           \A name \in DOMAIN fields : Own[name] = fields[name]
    PROVE  Keeps(c, Config!FromEnv(c, e, fields), e, names)
<1> DEFINE d == Config!FromEnv(c, e, fields)
<1>1. DOMAIN d = DOMAIN c
  BY FromEnvFacts
<1>2. ASSUME NEW field \in DOMAIN c,
             \A name \in names \intersect DOMAIN e : field \notin Touches(name)
      PROVE  d[field] = c[field]
  <2>1. \A name \in DOMAIN fields \intersect DOMAIN e : fields[name] # field
    BY <1>2 DEF Touches
  <2> QED
    BY <2>1, FromEnvFacts
<1> QED
  BY <1>1, <1>2 DEF Keeps

\* They set it to their value.
LEMMA FromEnvSets ==
    ASSUME NEW c, NEW e, NEW fields, DOMAIN c = SectionSettings,
           DOMAIN fields \subseteq DOMAIN Own \ Zeroless,
           \A name \in DOMAIN fields : Own[name] = fields[name],
           \A name, other \in DOMAIN fields : fields[name] = fields[other] => name = other
    PROVE  Sets(Config!FromEnv(c, e, fields), e, DOMAIN fields)
<1> DEFINE d == Config!FromEnv(c, e, fields)
<1>1. ASSUME NEW name \in DOMAIN fields \intersect DOMAIN e
      PROVE  d[Own[name]] = Value(e, name)
  <2>1. fields[name] \in DOMAIN c
    BY SettingFacts
  <2>2. d[fields[name]] = e[name]
    BY <2>1, FromEnvFacts
  <2> QED
    BY <2>2 DEF Value
<1> QED
  BY <1>1 DEF Sets

\* What the variables of each stage touch.
LEMMA TouchedFacts ==
    /\ Touched({"INDEX_TYPE"}) = {"index_type", "index_metric", "index_parameters",
                                  "index_search_filter_overfetch"}
    /\ Touched(AutoNames) = DOMAIN Config!DefaultAuto
    /\ Touched({"HARDWARE_PROFILE"}) =
            {"hardware_profile", "execution", "hardware_gpu_enabled", "hardware_memory_budget",
             "cache_max_bytes", "memory_max_memory_per_collection"}
    /\ Touched({"HARDWARE_CPU_THREADS"}) =
            {"hardware_cpu_threads", "parallelism_num_threads", "parallelism_parallel_search"}
    /\ Touched({"HARDWARE_GPU_ENABLED"}) = {"hardware_gpu_enabled"}
    /\ Touched({"HARDWARE_MEMORY_BUDGET_BYTES"}) = {"hardware_memory_budget"}
    /\ Touched(WalNames) = {"wal_enabled", "wal_checkpoint_frequency",
                            "wal_checkpoint_interval_secs"}
    /\ Touched(MemoryNames) = {"memory_use_mmap", "memory_initial_mmap_size"}
    /\ Touched(ParallelNames) = {"parallelism_parallel_search", "parallelism_num_threads"}
    /\ Touched({"EXECUTION_MODE"}) = {"execution"}
    /\ Touched(SearchNames) = {"search_filter_overfetch", "search_latency_budget_ms",
                               "search_recall_percent", "adaptive_enabled"}
    /\ Touched(PlainNames) = {Config!PlainVariables[name] : name \in PlainNames}
<1>1. /\ Touches("INDEX_TYPE") = {"index_type", "index_metric", "index_parameters",
                                  "index_search_filter_overfetch"}
      /\ Touches("HARDWARE_PROFILE") =
            {"hardware_profile", "execution", "hardware_gpu_enabled", "hardware_memory_budget",
             "cache_max_bytes", "memory_max_memory_per_collection"}
      /\ Touches("HARDWARE_CPU_THREADS") =
            {"hardware_cpu_threads", "parallelism_num_threads", "parallelism_parallel_search"}
      /\ Touches("NUM_THREADS") = {"parallelism_parallel_search", "parallelism_num_threads"}
  BY OwnFacts DEF Touches, Aside
<1>2. ASSUME NEW name \in DOMAIN Own \ {"INDEX_TYPE", "HARDWARE_PROFILE",
                                        "HARDWARE_CPU_THREADS", "NUM_THREADS"}
      PROVE  Touches(name) = {Own[name]}
  BY <1>2 DEF Touches, Aside
<1>3. Touched(AutoNames) = DOMAIN Config!DefaultAuto
  <2>1. \A name \in AutoNames : Touches(name) = {Config!AutoVariables[name]}
    <3>1. AutoNames \intersect {"INDEX_TYPE", "HARDWARE_PROFILE", "HARDWARE_CPU_THREADS",
                                "NUM_THREADS"} = {}
      BY DEF AutoNames, Config!AutoVariables
    <3> QED
      BY <1>2, <3>1, OwnFacts
  <2>2. {Config!AutoVariables[name] : name \in AutoNames} = DOMAIN Config!DefaultAuto
    BY DEF AutoNames, Config!AutoVariables, Config!DefaultAuto
  <2> QED
    BY <2>1, <2>2 DEF Touched
<1>4. Touched(PlainNames) = {Config!PlainVariables[name] : name \in PlainNames}
  <2>1. \A name \in PlainNames : Touches(name) = {Config!PlainVariables[name]}
    <3>1. PlainNames \intersect {"INDEX_TYPE", "HARDWARE_PROFILE", "HARDWARE_CPU_THREADS",
                                 "NUM_THREADS"} = {}
      BY DEF PlainNames, Config!PlainVariables
    <3> QED
      BY <1>2, <3>1, OwnFacts
  <2> QED
    BY <2>1 DEF Touched
<1>5. /\ Touches("HARDWARE_GPU_ENABLED") = {"hardware_gpu_enabled"}
      /\ Touches("HARDWARE_MEMORY_BUDGET_BYTES") = {"hardware_memory_budget"}
      /\ Touches("WAL_ENABLED") = {"wal_enabled"}
      /\ Touches("WAL_CHECKPOINT_FREQUENCY") = {"wal_checkpoint_frequency"}
      /\ Touches("WAL_CHECKPOINT_INTERVAL_SECS") = {"wal_checkpoint_interval_secs"}
      /\ Touches("MEMORY_USE_MMAP") = {"memory_use_mmap"}
      /\ Touches("MEMORY_INITIAL_MMAP_MB") = {"memory_initial_mmap_size"}
      /\ Touches("PARALLEL_SEARCH") = {"parallelism_parallel_search"}
      /\ Touches("EXECUTION_MODE") = {"execution"}
  BY OwnFacts DEF Touches, Aside
<1>6. /\ Touches("SEARCH_FILTER_OVERFETCH") = {"search_filter_overfetch"}
      /\ Touches("SEARCH_FILTER_EXPANSION") = {"search_filter_overfetch"}
      /\ Touches("SEARCH_LATENCY_BUDGET_MS") = {"search_latency_budget_ms"}
      /\ Touches("SEARCH_RECALL_TARGET") = {"search_recall_percent"}
      /\ Touches("SEARCH_ADAPTIVE_ENABLED") = {"adaptive_enabled"}
  BY OwnFacts DEF Touches, Aside
<1>7. \A n : Touched({n}) = Touches(n)
  BY DEF Touched
<1>8. /\ Touched(WalNames) = {"wal_enabled", "wal_checkpoint_frequency",
                              "wal_checkpoint_interval_secs"}
      /\ Touched(MemoryNames) = {"memory_use_mmap", "memory_initial_mmap_size"}
  BY <1>5 DEF Touched, WalNames, MemoryNames
<1>9. Touched(ParallelNames) = {"parallelism_parallel_search", "parallelism_num_threads"}
  BY <1>1, <1>5 DEF Touched, ParallelNames
<1>10. Touched(SearchNames) = {"search_filter_overfetch", "search_latency_budget_ms",
                               "search_recall_percent", "adaptive_enabled"}
  BY <1>6 DEF Touched, SearchNames
<1> QED
  BY <1>1, <1>3, <1>4, <1>5, <1>7, <1>8, <1>9, <1>10

\* INDEX_TYPE replaces its section.
LEMMA IndexStage ==
    ASSUME NEW c, NEW e, DOMAIN c = SectionSettings
    PROVE  LET d == Config!OverrideIndexType(c, e)
           IN  Keeps(c, d, e, {"INDEX_TYPE"}) /\ Sets(d, e, {"INDEX_TYPE"})
<1> DEFINE d == Config!OverrideIndexType(c, e)
<1>1. Touches("INDEX_TYPE") = {"index_type", "index_metric", "index_parameters",
                               "index_search_filter_overfetch"}
  BY OwnFacts DEF Touches, Aside
<1>2. Own["INDEX_TYPE"] = "index_type" /\ "index_type" \in DOMAIN c
  BY OwnFacts DEF SectionSettings, Config!DefaultIndex
<1>3. CASE "INDEX_TYPE" \notin DOMAIN e
  BY <1>3 DEF Keeps, Sets, Config!OverrideIndexType, Config!Set
<1>4. CASE "INDEX_TYPE" \in DOMAIN e
  <2>1. d = [c EXCEPT !.index_type = e.INDEX_TYPE,
                      !.index_metric = "cosine",
                      !.index_parameters = Config!IndexParameters(e.INDEX_TYPE),
                      !.index_search_filter_overfetch = c.search_filter_overfetch]
    BY <1>4 DEF Config!OverrideIndexType, Config!Set
  <2>2. d.index_type = e.INDEX_TYPE
    BY <1>2, <2>1
  <2>3. DOMAIN d = DOMAIN c /\ \A field \in DOMAIN c \ Touches("INDEX_TYPE") : d[field] = c[field]
    BY <1>1, <2>1
  <2>4. Value(e, "INDEX_TYPE") = e.INDEX_TYPE
    BY DEF Value, Zeroless
  <2> HIDE DEF d
  <2>5. Keeps(c, d, e, {"INDEX_TYPE"})
    BY <1>4, <2>3 DEF Keeps
  <2>6. Sets(d, e, {"INDEX_TYPE"})
    BY <1>2, <2>2, <2>4 DEF Sets
  <2> QED
    BY <2>5, <2>6 DEF d
<1> QED
  BY <1>3, <1>4

\* The INDEX_AUTO_ variables have a setting each.
LEMMA AutoStage ==
    ASSUME NEW c, NEW e, DOMAIN c = SectionSettings
    PROVE  LET d == Config!OverrideAuto(c, e)
           IN  Keeps(c, d, e, AutoNames) /\ Sets(d, e, AutoNames)
<1> DEFINE d == Config!OverrideAuto(c, e)
<1>1. CASE c.index_type = "auto"
  <2>1. /\ \A name \in AutoNames : Own[name] = Config!AutoVariables[name]
        /\ DOMAIN Config!AutoVariables \subseteq AutoNames
    BY OwnFacts DEF AutoNames
  <2>2. \A name, other \in AutoNames :
            Config!AutoVariables[name] = Config!AutoVariables[other] => name = other
    BY DEF AutoNames, Config!AutoVariables
  <2>3. AutoNames \subseteq DOMAIN Own /\ AutoNames \intersect Zeroless = {}
    BY OwnFacts DEF AutoNames, Zeroless, Config!AutoVariables
  <2>4. d = Config!FromEnv(c, e, Config!AutoVariables)
    BY <1>1 DEF Config!OverrideAuto
  <2>5. Keeps(c, Config!FromEnv(c, e, Config!AutoVariables), e, AutoNames)
    BY <2>1, FromEnvKeeps DEF AutoNames
  <2>6. Sets(Config!FromEnv(c, e, Config!AutoVariables), e, AutoNames)
    BY <2>1, <2>2, <2>3, FromEnvSets DEF AutoNames
  <2> QED
    BY <2>4, <2>5, <2>6
<1>2. CASE c.index_type # "auto"
  <2>1. d = c
    BY <1>2 DEF Config!OverrideAuto
  <2>2. \A name \in AutoNames : Outdone(c, e, name)
    BY <1>2 DEF Outdone
  <2> QED
    BY <2>1, <2>2 DEF Keeps, Sets
<1> QED
  BY <1>1, <1>2

\* The plain variables have a setting each.
LEMMA PlainStage ==
    ASSUME NEW c, NEW e, DOMAIN c = SectionSettings
    PROVE  LET d == Config!FromEnv(c, e, Config!PlainVariables)
           IN  Keeps(c, d, e, PlainNames) /\ Sets(d, e, PlainNames)
<1>1. /\ \A name \in PlainNames : Own[name] = Config!PlainVariables[name]
      /\ DOMAIN Config!PlainVariables \subseteq PlainNames
  BY OwnFacts DEF PlainNames
<1>2. \A name, other \in PlainNames :
          Config!PlainVariables[name] = Config!PlainVariables[other] => name = other
  BY DEF PlainNames, Config!PlainVariables
<1>3. PlainNames \subseteq DOMAIN Own /\ PlainNames \intersect Zeroless = {}
  BY OwnFacts DEF PlainNames, Zeroless, Config!PlainVariables
<1>4. Keeps(c, Config!FromEnv(c, e, Config!PlainVariables), e, PlainNames)
  BY <1>1, FromEnvKeeps DEF PlainNames
<1>5. Sets(Config!FromEnv(c, e, Config!PlainVariables), e, PlainNames)
  BY <1>1, <1>2, <1>3, FromEnvSets DEF PlainNames
<1> QED
  BY <1>4, <1>5

\* So have MEMORY_ and EXECUTION_MODE.
LEMMA MemoryStage ==
    ASSUME NEW c, NEW e, DOMAIN c = SectionSettings
    PROVE  LET d == Config!OverrideMemory(c, e)
           IN  Keeps(c, d, e, MemoryNames) /\ Sets(d, e, MemoryNames)
<1> DEFINE fields == [MEMORY_USE_MMAP |-> "memory_use_mmap",
                      MEMORY_INITIAL_MMAP_MB |-> "memory_initial_mmap_size"]
<1>1. /\ DOMAIN fields = MemoryNames /\ MemoryNames \subseteq DOMAIN Own \ Zeroless
      /\ \A name \in MemoryNames : Own[name] = fields[name]
      /\ \A name, other \in MemoryNames : fields[name] = fields[other] => name = other
  BY OwnFacts DEF MemoryNames, OtherNames, Zeroless
<1>2. Config!OverrideMemory(c, e) = Config!FromEnv(c, e, fields)
  BY DEF Config!OverrideMemory
<1> HIDE DEF fields
<1>3. Keeps(c, Config!FromEnv(c, e, fields), e, MemoryNames)
  BY <1>1, FromEnvKeeps
<1>4. Sets(Config!FromEnv(c, e, fields), e, MemoryNames)
  <2>1. Sets(Config!FromEnv(c, e, fields), e, DOMAIN fields)
    BY <1>1, FromEnvSets
  <2> QED
    BY <1>1, <2>1
<1> QED
  BY <1>2, <1>3, <1>4

\* EXECUTION_MODE has a stage of its own.
LEMMA ExecutionStage ==
    ASSUME NEW c, NEW e, DOMAIN c = SectionSettings
    PROVE  LET d == Config!OverrideExecution(c, e)
           IN  Keeps(c, d, e, {"EXECUTION_MODE"}) /\ Sets(d, e, {"EXECUTION_MODE"})
<1> DEFINE fields == [EXECUTION_MODE |-> "execution"]
<1>1. /\ DOMAIN fields = {"EXECUTION_MODE"} /\ {"EXECUTION_MODE"} \subseteq DOMAIN Own \ Zeroless
      /\ \A name \in {"EXECUTION_MODE"} : Own[name] = fields[name]
      /\ \A name, other \in {"EXECUTION_MODE"} : fields[name] = fields[other] => name = other
  BY OwnFacts DEF OtherNames, Zeroless
<1>2. Config!OverrideExecution(c, e) = Config!FromEnv(c, e, fields)
  BY DEF Config!OverrideExecution
<1> HIDE DEF fields
<1>3. Keeps(c, Config!FromEnv(c, e, fields), e, {"EXECUTION_MODE"})
  BY <1>1, FromEnvKeeps
<1>4. Sets(Config!FromEnv(c, e, fields), e, {"EXECUTION_MODE"})
  <2>1. Sets(Config!FromEnv(c, e, fields), e, DOMAIN fields)
    BY <1>1, FromEnvSets
  <2> QED
    BY <1>1, <2>1
<1> QED
  BY <1>2, <1>3, <1>4

\* The WAL_ variables: zero counts as one.
LEMMA WalStage ==
    ASSUME NEW c, NEW e, DOMAIN c = SectionSettings
    PROVE  LET d == Config!OverrideWal(c, e)
           IN  Keeps(c, d, e, WalNames) /\ Sets(d, e, WalNames)
<1> DEFINE frequent == IF "WAL_CHECKPOINT_FREQUENCY" \in DOMAIN e
                       THEN [c EXCEPT !.wal_checkpoint_frequency =
                                          Config!AtLeastOne(e.WAL_CHECKPOINT_FREQUENCY)]
                       ELSE c
           timed == IF "WAL_CHECKPOINT_INTERVAL_SECS" \in DOMAIN e
                    THEN [frequent EXCEPT !.wal_checkpoint_interval_secs =
                                              Config!AtLeastOne(e.WAL_CHECKPOINT_INTERVAL_SECS)]
                    ELSE frequent
           fields == [WAL_ENABLED |-> "wal_enabled"]
           d == Config!FromEnv(timed, e, fields)
<1>1. Config!OverrideWal(c, e) = d
  BY DEF Config!OverrideWal, Config!Set
<1>2. {"wal_enabled", "wal_checkpoint_frequency", "wal_checkpoint_interval_secs"} \subseteq DOMAIN c
  BY DEF SectionSettings, Config!DefaultWal
<1>3. /\ DOMAIN frequent = DOMAIN c
      /\ \A field \in DOMAIN c \ {"wal_checkpoint_frequency"} : frequent[field] = c[field]
      /\ "WAL_CHECKPOINT_FREQUENCY" \notin DOMAIN e => frequent = c
      /\ "WAL_CHECKPOINT_FREQUENCY" \in DOMAIN e =>
            frequent.wal_checkpoint_frequency = Config!AtLeastOne(e.WAL_CHECKPOINT_FREQUENCY)
  BY <1>2
<1> HIDE DEF frequent
<1>4. /\ DOMAIN timed = DOMAIN frequent
      /\ \A field \in DOMAIN c \ {"wal_checkpoint_interval_secs"} : timed[field] = frequent[field]
      /\ "WAL_CHECKPOINT_INTERVAL_SECS" \notin DOMAIN e => timed = frequent
      /\ "WAL_CHECKPOINT_INTERVAL_SECS" \in DOMAIN e =>
            timed.wal_checkpoint_interval_secs = Config!AtLeastOne(e.WAL_CHECKPOINT_INTERVAL_SECS)
  BY <1>2, <1>3
<1> HIDE DEF timed
<1>5. /\ DOMAIN d = DOMAIN timed
      /\ \A field \in DOMAIN timed \ {"wal_enabled"} : d[field] = timed[field]
      /\ "WAL_ENABLED" \notin DOMAIN e => \A field \in DOMAIN timed : d[field] = timed[field]
      /\ "WAL_ENABLED" \in DOMAIN e => d.wal_enabled = e.WAL_ENABLED
  <2>1. DOMAIN fields = {"WAL_ENABLED"} /\ fields["WAL_ENABLED"] = "wal_enabled"
    OBVIOUS
  <2> HIDE DEF fields
  <2>2. DOMAIN d = DOMAIN timed
    BY FromEnvFacts
  <2>3. ASSUME NEW field \in DOMAIN timed, field # "wal_enabled" \/ "WAL_ENABLED" \notin DOMAIN e
        PROVE  d[field] = timed[field]
    <3>1. \A name \in DOMAIN fields \intersect DOMAIN e : fields[name] # field
      BY <2>1, <2>3
    <3> QED
      BY <3>1, FromEnvFacts
  <2>4. ASSUME "WAL_ENABLED" \in DOMAIN e
        PROVE  d.wal_enabled = e.WAL_ENABLED
    <3>1. d[fields["WAL_ENABLED"]] = e["WAL_ENABLED"]
      BY <1>2, <1>3, <1>4, <2>1, <2>4, FromEnvFacts
    <3> QED
      BY <2>1, <3>1
  <2> QED
    BY <2>2, <2>3, <2>4
<1> HIDE DEF d
<1>6. /\ "wal_checkpoint_frequency" # "wal_checkpoint_interval_secs"
      /\ "wal_checkpoint_frequency" # "wal_enabled" /\ "wal_checkpoint_interval_secs" # "wal_enabled"
  OBVIOUS
<1>7. /\ Touches("WAL_ENABLED") = {"wal_enabled"}
      /\ Touches("WAL_CHECKPOINT_FREQUENCY") = {"wal_checkpoint_frequency"}
      /\ Touches("WAL_CHECKPOINT_INTERVAL_SECS") = {"wal_checkpoint_interval_secs"}
  BY OwnFacts DEF Touches, Aside
<1>8. Keeps(c, d, e, WalNames)
  <2>1. ASSUME NEW field \in DOMAIN c,
               \A name \in WalNames \intersect DOMAIN e : field \notin Touches(name)
        PROVE  d[field] = c[field]
    <3>1. /\ field = "wal_enabled" => "WAL_ENABLED" \notin DOMAIN e
          /\ field = "wal_checkpoint_frequency" => "WAL_CHECKPOINT_FREQUENCY" \notin DOMAIN e
          /\ field = "wal_checkpoint_interval_secs" => "WAL_CHECKPOINT_INTERVAL_SECS" \notin DOMAIN e
      BY <1>7, <2>1 DEF WalNames
    <3> QED
      BY <1>3, <1>4, <1>5, <3>1
  <2> QED
    BY <1>3, <1>4, <1>5, <2>1 DEF Keeps
<1>9. Sets(d, e, WalNames)
  <2>1. ASSUME "WAL_CHECKPOINT_FREQUENCY" \in DOMAIN e
        PROVE  d[Own["WAL_CHECKPOINT_FREQUENCY"]] = Value(e, "WAL_CHECKPOINT_FREQUENCY")
    <3>1. d.wal_checkpoint_frequency = Config!AtLeastOne(e.WAL_CHECKPOINT_FREQUENCY)
      BY <1>2, <1>3, <1>4, <1>5, <1>6, <2>1
    <3> QED
      BY <3>1, OwnFacts DEF Value, Zeroless, Config!AtLeastOne
  <2>2. ASSUME "WAL_CHECKPOINT_INTERVAL_SECS" \in DOMAIN e
        PROVE  d[Own["WAL_CHECKPOINT_INTERVAL_SECS"]] = Value(e, "WAL_CHECKPOINT_INTERVAL_SECS")
    <3>1. d.wal_checkpoint_interval_secs = Config!AtLeastOne(e.WAL_CHECKPOINT_INTERVAL_SECS)
      BY <1>2, <1>3, <1>4, <1>5, <1>6, <2>2
    <3> QED
      BY <3>1, OwnFacts DEF Value, Zeroless, Config!AtLeastOne
  <2>3. ASSUME "WAL_ENABLED" \in DOMAIN e
        PROVE  d[Own["WAL_ENABLED"]] = Value(e, "WAL_ENABLED")
    BY <1>5, <2>3, OwnFacts DEF Value, Zeroless
  <2> QED
    BY <2>1, <2>2, <2>3 DEF Sets, WalNames
<1> QED
  BY <1>1, <1>8, <1>9

\* PARALLEL_SEARCH, and NUM_THREADS with the last word on it.
LEMMA ParallelStage ==
    ASSUME NEW c, NEW e, DOMAIN c = SectionSettings
    PROVE  LET d == Config!OverrideParallelism(c, e)
           IN  /\ Keeps(c, d, e, ParallelNames) /\ Sets(d, e, ParallelNames)
               /\ "NUM_THREADS" \in DOMAIN e =>
                    d.parallelism_parallel_search = (e.NUM_THREADS > 1)
<1> DEFINE fields == [PARALLEL_SEARCH |-> "parallelism_parallel_search"]
           searching == Config!FromEnv(c, e, fields)
           d == IF "NUM_THREADS" \in DOMAIN e
                THEN Config!WithNumThreads(searching, e.NUM_THREADS) ELSE searching
<1>1. Config!OverrideParallelism(c, e) = d
  BY DEF Config!OverrideParallelism, Config!Set
<1>2. {"parallelism_parallel_search", "parallelism_num_threads"} \subseteq DOMAIN c
  BY DEF SectionSettings, Config!DefaultParallelism
<1>3. /\ DOMAIN searching = DOMAIN c
      /\ \A field \in DOMAIN c \ {"parallelism_parallel_search"} : searching[field] = c[field]
      /\ "PARALLEL_SEARCH" \notin DOMAIN e => \A field \in DOMAIN c : searching[field] = c[field]
      /\ "PARALLEL_SEARCH" \in DOMAIN e =>
            searching.parallelism_parallel_search = e.PARALLEL_SEARCH
  <2>1. DOMAIN fields = {"PARALLEL_SEARCH"} /\ fields["PARALLEL_SEARCH"] = "parallelism_parallel_search"
    OBVIOUS
  <2> HIDE DEF fields
  <2>2. DOMAIN searching = DOMAIN c
    BY FromEnvFacts
  <2>3. ASSUME NEW field \in DOMAIN c,
               field # "parallelism_parallel_search" \/ "PARALLEL_SEARCH" \notin DOMAIN e
        PROVE  searching[field] = c[field]
    <3>1. \A name \in DOMAIN fields \intersect DOMAIN e : fields[name] # field
      BY <2>1, <2>3
    <3> QED
      BY <3>1, FromEnvFacts
  <2>4. ASSUME "PARALLEL_SEARCH" \in DOMAIN e
        PROVE  searching.parallelism_parallel_search = e.PARALLEL_SEARCH
    <3>1. searching[fields["PARALLEL_SEARCH"]] = e["PARALLEL_SEARCH"]
      BY <1>2, <2>1, <2>4, FromEnvFacts
    <3> QED
      BY <2>1, <3>1
  <2> QED
    BY <2>2, <2>3, <2>4
<1> HIDE DEF searching
<1>4. /\ DOMAIN d = DOMAIN c
      /\ \A field \in DOMAIN c \ {"parallelism_parallel_search", "parallelism_num_threads"} :
            d[field] = searching[field]
      /\ "NUM_THREADS" \notin DOMAIN e => d = searching
      /\ "NUM_THREADS" \in DOMAIN e =>
            /\ d.parallelism_parallel_search = (e.NUM_THREADS > 1)
            /\ d.parallelism_num_threads = e.NUM_THREADS
  BY <1>2, <1>3 DEF Config!WithNumThreads
<1> HIDE DEF d
<1>5. /\ Touches("PARALLEL_SEARCH") = {"parallelism_parallel_search"}
      /\ Touches("NUM_THREADS") = {"parallelism_num_threads", "parallelism_parallel_search"}
  BY OwnFacts DEF Touches, Aside
<1>6. Keeps(c, d, e, ParallelNames)
  <2>1. ASSUME NEW field \in DOMAIN c,
               \A name \in ParallelNames \intersect DOMAIN e : field \notin Touches(name)
        PROVE  d[field] = c[field]
    <3>1. /\ field = "parallelism_parallel_search" =>
                "NUM_THREADS" \notin DOMAIN e /\ "PARALLEL_SEARCH" \notin DOMAIN e
          /\ field = "parallelism_num_threads" => "NUM_THREADS" \notin DOMAIN e
      BY <1>5, <2>1 DEF ParallelNames
    <3>2. "parallelism_parallel_search" # "parallelism_num_threads"
      OBVIOUS
    <3> QED
      BY <1>3, <1>4, <3>1, <3>2
  <2> QED
    BY <1>4, <2>1 DEF Keeps
<1>7. Sets(d, e, ParallelNames)
  <2>1. ASSUME "PARALLEL_SEARCH" \in DOMAIN e, ~Outdone(d, e, "PARALLEL_SEARCH")
        PROVE  d[Own["PARALLEL_SEARCH"]] = Value(e, "PARALLEL_SEARCH")
    BY <1>3, <1>4, <2>1, OwnFacts DEF Value, Zeroless, Outdone
  <2>2. ASSUME "NUM_THREADS" \in DOMAIN e
        PROVE  d[Own["NUM_THREADS"]] = Value(e, "NUM_THREADS")
    BY <1>4, <2>2, OwnFacts DEF Value, Zeroless
  <2> QED
    BY <2>1, <2>2 DEF Sets, ParallelNames
<1> QED
  BY <1>1, <1>4, <1>6, <1>7

\* The SEARCH_ variables: the new name of the overfetch factor before the old.
LEMMA SearchStage ==
    ASSUME NEW c, NEW e, DOMAIN c = SectionSettings, EnvTyped(e)
    PROVE  LET d == Config!OverrideSearch(c, e)
           IN  Keeps(c, d, e, SearchNames) /\ Sets(d, e, SearchNames)
<1> DEFINE overfetch == CASE "SEARCH_FILTER_OVERFETCH" \in DOMAIN e -> e.SEARCH_FILTER_OVERFETCH
                          [] "SEARCH_FILTER_OVERFETCH" \notin DOMAIN e
                                /\ "SEARCH_FILTER_EXPANSION" \in DOMAIN e -> e.SEARCH_FILTER_EXPANSION
                          [] OTHER -> None
           fetching == IF overfetch = None THEN c
                       ELSE [c EXCEPT !.search_filter_overfetch = Config!AtLeastOne(overfetch)]
           fields == [SEARCH_LATENCY_BUDGET_MS |-> "search_latency_budget_ms",
                      SEARCH_RECALL_TARGET |-> "search_recall_percent",
                      SEARCH_ADAPTIVE_ENABLED |-> "adaptive_enabled"]
           d == Config!FromEnv(fetching, e, fields)
<1>1. Config!OverrideSearch(c, e) = d
  BY DEF Config!OverrideSearch, Config!Set
<1>2. "search_filter_overfetch" \in DOMAIN c
  BY DEF SectionSettings, Config!DefaultSearch
<1>3. /\ "SEARCH_FILTER_OVERFETCH" \in DOMAIN e =>
            overfetch = e.SEARCH_FILTER_OVERFETCH /\ overfetch # None
      /\ "SEARCH_FILTER_OVERFETCH" \notin DOMAIN e /\ "SEARCH_FILTER_EXPANSION" \in DOMAIN e =>
            overfetch = e.SEARCH_FILTER_EXPANSION /\ overfetch # None
      /\ "SEARCH_FILTER_OVERFETCH" \notin DOMAIN e /\ "SEARCH_FILTER_EXPANSION" \notin DOMAIN e =>
            overfetch = None
  BY DEF EnvTyped
<1> HIDE DEF overfetch
<1>4. /\ DOMAIN fetching = DOMAIN c
      /\ \A field \in DOMAIN c \ {"search_filter_overfetch"} : fetching[field] = c[field]
      /\ overfetch = None => fetching = c
      /\ overfetch # None => fetching.search_filter_overfetch = Config!AtLeastOne(overfetch)
  BY <1>2
<1> HIDE DEF fetching
<1>5. /\ DOMAIN fields = {"SEARCH_LATENCY_BUDGET_MS", "SEARCH_RECALL_TARGET",
                          "SEARCH_ADAPTIVE_ENABLED"}
      /\ \A name \in DOMAIN fields : Own[name] = fields[name]
      /\ \A name \in DOMAIN fields : fields[name] # "search_filter_overfetch"
      /\ \A name, other \in DOMAIN fields : fields[name] = fields[other] => name = other
      /\ DOMAIN fields \subseteq DOMAIN Own \ Zeroless
      /\ DOMAIN fields \subseteq SearchNames
  BY OwnFacts DEF OtherNames, SearchNames, Zeroless
<1> HIDE DEF fields
<1>6. Keeps(fetching, d, e, DOMAIN fields) /\ Sets(d, e, DOMAIN fields)
  BY <1>4, <1>5, FromEnvKeeps, FromEnvSets
<1>7. /\ DOMAIN d = DOMAIN c
      /\ d.search_filter_overfetch = fetching.search_filter_overfetch
  <2>1. \A name \in DOMAIN fields \intersect DOMAIN e : fields[name] # "search_filter_overfetch"
    BY <1>5
  <2> QED
    BY <1>2, <1>4, <2>1, FromEnvFacts
<1> HIDE DEF d
<1>8. /\ Touches("SEARCH_FILTER_OVERFETCH") = {"search_filter_overfetch"}
      /\ Touches("SEARCH_FILTER_EXPANSION") = {"search_filter_overfetch"}
  BY OwnFacts DEF Touches, Aside
<1>9. Keeps(c, d, e, SearchNames)
  <2>1. ASSUME NEW field \in DOMAIN c,
               \A name \in SearchNames \intersect DOMAIN e : field \notin Touches(name)
        PROVE  d[field] = c[field]
    <3>1. field = "search_filter_overfetch" => overfetch = None
      BY <1>3, <1>8, <2>1 DEF SearchNames
    <3>2. fetching[field] = c[field]
      BY <1>4, <3>1
    <3>3. d[field] = fetching[field]
      BY <1>4, <1>5, <1>6, <2>1 DEF Keeps
    <3> QED
      BY <3>2, <3>3
  <2> QED
    BY <1>7, <2>1 DEF Keeps
<1>10. Sets(d, e, SearchNames)
  <2>1. ASSUME "SEARCH_FILTER_OVERFETCH" \in DOMAIN e
        PROVE  d[Own["SEARCH_FILTER_OVERFETCH"]] = Value(e, "SEARCH_FILTER_OVERFETCH")
    <3>1. d.search_filter_overfetch = Config!AtLeastOne(e.SEARCH_FILTER_OVERFETCH)
      BY <1>3, <1>4, <1>7, <2>1
    <3> QED
      BY <3>1, OwnFacts DEF Value, Zeroless, Config!AtLeastOne
  <2>2. ASSUME "SEARCH_FILTER_EXPANSION" \in DOMAIN e, ~Outdone(d, e, "SEARCH_FILTER_EXPANSION")
        PROVE  d[Own["SEARCH_FILTER_EXPANSION"]] = Value(e, "SEARCH_FILTER_EXPANSION")
    <3>1. d.search_filter_overfetch = Config!AtLeastOne(e.SEARCH_FILTER_EXPANSION)
      BY <1>3, <1>4, <1>7, <2>2 DEF Outdone
    <3> QED
      BY <3>1, OwnFacts DEF Value, Zeroless, Config!AtLeastOne
  <2> QED
    BY <1>5, <1>6, <2>1, <2>2 DEF Sets, SearchNames
<1> QED
  BY <1>1, <1>9, <1>10

\* A profile touches what it brings.
LEMMA ProfileStage ==
    ASSUME NEW c, NEW e, DOMAIN c = SectionSettings, EnvTyped(e),
           "HARDWARE_PROFILE" \in DOMAIN e, e.HARDWARE_PROFILE # Garbage
    PROVE  LET d == Config!ApplyHardwareProfile([c EXCEPT !.hardware_profile = e.HARDWARE_PROFILE])
           IN  /\ DOMAIN d = DOMAIN c
               /\ \A field \in DOMAIN c \ Touches("HARDWARE_PROFILE") : d[field] = c[field]
               /\ d.hardware_profile = e.HARDWARE_PROFILE
<1> DEFINE b == [c EXCEPT !.hardware_profile = e.HARDWARE_PROFILE]
           d == Config!ApplyHardwareProfile(b)
           brought == {"execution", "hardware_gpu_enabled", "hardware_memory_budget",
                       "cache_max_bytes", "memory_max_memory_per_collection"}
<1>1. Touches("HARDWARE_PROFILE") = {"hardware_profile"} \union brought
  BY OwnFacts DEF Touches, Aside
<1>2. "hardware_profile" \in DOMAIN c
  BY DEF SectionSettings, Config!DefaultHardware
<1>3. /\ DOMAIN b = DOMAIN c /\ b.hardware_profile = e.HARDWARE_PROFILE
      /\ \A field \in DOMAIN c \ {"hardware_profile"} : b[field] = c[field]
  BY <1>2
<1> HIDE DEF b
<1>4. DOMAIN d = DOMAIN b /\ \A field \in DOMAIN b \ brought : d[field] = b[field]
  <2>1. CASE b.hardware_profile \in {"auto", "cpu", "gpu"}
    BY <2>1 DEF Config!ApplyHardwareProfile
  <2>2. CASE b.hardware_profile \in {"8gb", "16gb", "32gb"}
    BY <2>2 DEF Config!ApplyHardwareProfile
  <2>3. e.HARDWARE_PROFILE \in Profiles
    BY DEF EnvTyped
  <2> QED
    BY <1>3, <2>1, <2>2, <2>3 DEF Profiles
<1>5. "hardware_profile" \notin brought
  OBVIOUS
<1> HIDE DEF d, brought
<1>6. /\ DOMAIN d = DOMAIN c
      /\ \A field \in DOMAIN c \ Touches("HARDWARE_PROFILE") : d[field] = c[field]
      /\ d.hardware_profile = e.HARDWARE_PROFILE
  BY <1>1, <1>2, <1>3, <1>4, <1>5
<1> QED
  BY <1>6 DEF d, b

\* The HARDWARE_ variables: a profile, the threads, and then the settings one
\* by one.
LEMMA HardwareStage ==
    ASSUME NEW c, NEW e, DOMAIN c = SectionSettings, EnvTyped(e),
           "HARDWARE_PROFILE" \in DOMAIN e => e.HARDWARE_PROFILE # Garbage
    PROVE  LET d == Config!OverrideHardware(c, e)
           IN  Keeps(c, d, e, HardwareNames) /\ Sets(d, e, HardwareNames)
<1> DEFINE profiled == IF "HARDWARE_PROFILE" \in DOMAIN e
                       THEN Config!ApplyHardwareProfile(
                                [c EXCEPT !.hardware_profile = e.HARDWARE_PROFILE])
                       ELSE c
           threaded == IF "HARDWARE_CPU_THREADS" \in DOMAIN e
                       THEN Config!WithNumThreads(profiled, e.HARDWARE_CPU_THREADS) ELSE profiled
           fields == [HARDWARE_GPU_ENABLED |-> "hardware_gpu_enabled",
                      HARDWARE_CPU_THREADS |-> "hardware_cpu_threads",
                      HARDWARE_MEMORY_BUDGET_BYTES |-> "hardware_memory_budget"]
           d == Config!FromEnv(threaded, e, fields)
           threads == {"parallelism_num_threads", "parallelism_parallel_search"}
<1>1. Config!OverrideHardware(c, e) = d
  BY DEF Config!OverrideHardware, Config!Set
<1>2. threads \union {"hardware_profile"} \subseteq DOMAIN c
  BY DEF SectionSettings, Config!DefaultParallelism, Config!DefaultHardware
<1>3. /\ DOMAIN profiled = DOMAIN c
      /\ \A field \in DOMAIN c \ Touches("HARDWARE_PROFILE") : profiled[field] = c[field]
      /\ "HARDWARE_PROFILE" \notin DOMAIN e => profiled = c
      /\ "HARDWARE_PROFILE" \in DOMAIN e => profiled.hardware_profile = e.HARDWARE_PROFILE
  BY ProfileStage
<1> HIDE DEF profiled
<1>4. /\ DOMAIN threaded = DOMAIN c
      /\ \A field \in DOMAIN c \ threads : threaded[field] = profiled[field]
      /\ "HARDWARE_CPU_THREADS" \notin DOMAIN e => threaded = profiled
  BY <1>3 DEF Config!WithNumThreads
<1> HIDE DEF threaded
<1>5. /\ DOMAIN fields = {"HARDWARE_GPU_ENABLED", "HARDWARE_CPU_THREADS",
                          "HARDWARE_MEMORY_BUDGET_BYTES"}
      /\ \A name \in DOMAIN fields : Own[name] = fields[name]
      /\ \A name \in DOMAIN fields : fields[name] # "hardware_profile"
      /\ \A name, other \in DOMAIN fields : fields[name] = fields[other] => name = other
      /\ DOMAIN fields \subseteq DOMAIN Own \ Zeroless
      /\ HardwareNames = DOMAIN fields \union {"HARDWARE_PROFILE"}
  BY OwnFacts DEF OtherNames, HardwareNames, Zeroless
<1>6. Touches("HARDWARE_CPU_THREADS") = threads \union {"hardware_cpu_threads"}
  BY OwnFacts DEF Touches, Aside
<1>7. "hardware_profile" \notin threads
  OBVIOUS
<1> HIDE DEF fields, threads
<1>8. Keeps(threaded, d, e, DOMAIN fields) /\ Sets(d, e, DOMAIN fields)
  BY <1>4, <1>5, FromEnvKeeps, FromEnvSets
<1>9. /\ DOMAIN d = DOMAIN c
      /\ d.hardware_profile = threaded.hardware_profile
  <2>1. \A name \in DOMAIN fields \intersect DOMAIN e : fields[name] # "hardware_profile"
    BY <1>5
  <2> QED
    BY <1>2, <1>4, <2>1, FromEnvFacts
<1> HIDE DEF d
<1>10. Keeps(c, d, e, HardwareNames)
  <2>1. ASSUME NEW field \in DOMAIN c,
               \A name \in HardwareNames \intersect DOMAIN e : field \notin Touches(name)
        PROVE  d[field] = c[field]
    <3>1. profiled[field] = c[field]
      BY <1>3, <1>5, <2>1
    <3>2. threaded[field] = profiled[field]
      BY <1>4, <1>5, <1>6, <2>1
    <3>3. d[field] = threaded[field]
      BY <1>4, <1>5, <1>8, <2>1 DEF Keeps
    <3> QED
      BY <3>1, <3>2, <3>3
  <2> QED
    BY <1>9, <2>1 DEF Keeps
<1>11. Sets(d, e, HardwareNames)
  <2>1. ASSUME "HARDWARE_PROFILE" \in DOMAIN e
        PROVE  d[Own["HARDWARE_PROFILE"]] = Value(e, "HARDWARE_PROFILE")
    <3>1. d.hardware_profile = e.HARDWARE_PROFILE
      BY <1>2, <1>3, <1>4, <1>7, <1>9, <2>1
    <3> QED
      BY <3>1, OwnFacts DEF Value, Zeroless
  <2> QED
    BY <1>5, <1>8, <2>1 DEF Sets
<1> QED
  BY <1>1, <1>10, <1>11

\* Settings of variables in names that a later stage leaves alone.
Apart(names, later) ==
    /\ \A name \in names : Own[name] \notin Touched(later)
    /\ "index_type" \notin Touched(later)

BeforeHardware == {"INDEX_TYPE"} \union AutoNames
BeforeWal == BeforeHardware \union HardwareNames
BeforeMemory == BeforeWal \union WalNames
BeforeParallel == BeforeMemory \union MemoryNames
BeforeExecution == BeforeParallel \union ParallelNames
BeforeSearch == BeforeExecution \union {"EXECUTION_MODE"}
BeforePlain == BeforeSearch \union SearchNames

\* No stage touches what an earlier one has set.
LEMMA StagesApart ==
    /\ Apart({"INDEX_TYPE"}, AutoNames) /\ Apart(BeforeHardware, HardwareNames)
    /\ Apart(BeforeWal, WalNames) /\ Apart(BeforeMemory, MemoryNames)
    /\ Apart(BeforeParallel, ParallelNames) /\ Apart(BeforeExecution, {"EXECUTION_MODE"})
    /\ Apart(BeforeSearch, SearchNames) /\ Apart(BeforePlain, PlainNames)
    /\ "parallelism_parallel_search" \notin
            Touched({"EXECUTION_MODE"}) \union Touched(SearchNames) \union Touched(PlainNames)
<1> DEFINE auto == DOMAIN Config!DefaultAuto
           hardware == {"hardware_profile", "hardware_gpu_enabled", "hardware_cpu_threads",
                        "hardware_memory_budget"}
           wal == {"wal_enabled", "wal_checkpoint_frequency", "wal_checkpoint_interval_secs"}
           memory == {"memory_use_mmap", "memory_initial_mmap_size"}
           parallel == {"parallelism_parallel_search", "parallelism_num_threads"}
           search == {"search_filter_overfetch", "search_latency_budget_ms",
                      "search_recall_percent", "adaptive_enabled"}
           profile == {"execution", "cache_max_bytes", "memory_max_memory_per_collection"}
           plain == {Config!PlainVariables[name] : name \in PlainNames}
<1>1. /\ Own["INDEX_TYPE"] = "index_type"
      /\ \A name \in AutoNames : Own[name] \in auto
      /\ \A name \in HardwareNames : Own[name] \in hardware
      /\ \A name \in WalNames : Own[name] \in wal
  <2>1. \A name \in AutoNames : Own[name] \in auto
    <3>1. \A name \in AutoNames : Config!AutoVariables[name] \in auto
      BY DEF AutoNames, Config!AutoVariables, Config!DefaultAuto
    <3> QED
      BY <3>1, OwnFacts
  <2> QED
    BY <2>1, OwnFacts DEF HardwareNames, WalNames
<1>2. /\ \A name \in MemoryNames : Own[name] \in memory
      /\ \A name \in ParallelNames : Own[name] \in parallel
      /\ Own["EXECUTION_MODE"] = "execution"
      /\ \A name \in SearchNames : Own[name] \in search
  BY OwnFacts DEF MemoryNames, ParallelNames, SearchNames
<1>3. Touched(HardwareNames) = hardware \union parallel \union profile
  <2>1. Touched(HardwareNames) = Touched({"HARDWARE_PROFILE"}) \union Touched({"HARDWARE_CPU_THREADS"})
            \union Touched({"HARDWARE_GPU_ENABLED"}) \union Touched({"HARDWARE_MEMORY_BUDGET_BYTES"})
    BY DEF Touched, HardwareNames
  <2> QED
    BY <2>1, TouchedFacts
<1>4. /\ ({"index_type"} \union auto) \intersect (hardware \union parallel \union profile) = {}
      /\ ({"index_type"} \union auto \union hardware) \intersect wal = {}
      /\ ({"index_type"} \union auto \union hardware \union wal) \intersect memory = {}
      /\ "index_type" \notin auto
  BY DEF Config!DefaultAuto
<1>5. /\ ({"index_type"} \union auto \union hardware \union wal \union memory)
            \intersect parallel = {}
      /\ "execution" \notin {"index_type"} \union auto \union hardware \union wal \union memory
            \union parallel
      /\ ({"index_type"} \union auto \union hardware \union wal \union memory
            \union parallel \union {"execution"}) \intersect search = {}
  BY DEF Config!DefaultAuto
<1>6. ({"index_type"} \union auto \union hardware \union wal \union memory \union parallel
            \union {"execution"} \union search) \intersect plain = {}
  BY DEF Config!DefaultAuto, Config!PlainVariables, PlainNames
<1>7. /\ Touched(AutoNames) = auto /\ Touched(WalNames) = wal /\ Touched(MemoryNames) = memory
      /\ Touched(ParallelNames) = parallel /\ Touched({"EXECUTION_MODE"}) = {"execution"}
      /\ Touched(SearchNames) = search /\ Touched(PlainNames) = plain
  BY TouchedFacts
<1>8. "parallelism_parallel_search" \in parallel
  OBVIOUS
<1> HIDE DEF auto, hardware, wal, memory, parallel, search, profile, plain
<1>9. Apart({"INDEX_TYPE"}, AutoNames)
  BY <1>1, <1>4, <1>7 DEF Apart
<1>10. Apart(BeforeHardware, HardwareNames)
  BY <1>1, <1>3, <1>4 DEF Apart, BeforeHardware
<1>11. Apart(BeforeWal, WalNames)
  BY <1>1, <1>4, <1>7 DEF Apart, BeforeHardware, BeforeWal
<1>12. Apart(BeforeMemory, MemoryNames)
  BY <1>1, <1>4, <1>7 DEF Apart, BeforeHardware, BeforeWal, BeforeMemory
<1>13. Apart(BeforeParallel, ParallelNames)
  BY <1>1, <1>2, <1>5, <1>7 DEF Apart, BeforeHardware, BeforeWal, BeforeMemory, BeforeParallel
<1>14. Apart(BeforeExecution, {"EXECUTION_MODE"})
  BY <1>1, <1>2, <1>5, <1>7 DEF Apart, BeforeHardware, BeforeWal, BeforeMemory, BeforeParallel,
     BeforeExecution
<1>15. Apart(BeforeSearch, SearchNames)
  BY <1>1, <1>2, <1>5, <1>7 DEF Apart, BeforeHardware, BeforeWal, BeforeMemory, BeforeParallel,
     BeforeExecution, BeforeSearch
<1>16. Apart(BeforePlain, PlainNames)
  BY <1>1, <1>2, <1>6, <1>7 DEF Apart, BeforeHardware, BeforeWal, BeforeMemory, BeforeParallel,
     BeforeExecution, BeforeSearch, BeforePlain
<1>17. "parallelism_parallel_search" \notin
            Touched({"EXECUTION_MODE"}) \union Touched(SearchNames) \union Touched(PlainNames)
  BY <1>5, <1>6, <1>7, <1>8
<1> QED
  BY <1>9, <1>10, <1>11, <1>12, <1>13, <1>14, <1>15, <1>16, <1>17

\* The variables of the earlier stages and of this one.
LEMMA NextStage ==
    ASSUME NEW b, NEW c, NEW d, NEW e, NEW names, NEW later, names \subseteq DOMAIN Own,
           DOMAIN b = SectionSettings, Keeps(b, c, e, names), Sets(c, e, names),
           Keeps(c, d, e, later), Sets(d, e, later), Apart(names, later)
    PROVE  /\ Keeps(b, d, e, names \union later) /\ Sets(d, e, names \union later)
           /\ DOMAIN d = SectionSettings
<1>1. DOMAIN c = SectionSettings /\ DOMAIN d = SectionSettings
  BY DEF Keeps
<1>2. Keeps(b, d, e, names \union later)
  BY KeepsAfter
<1>3. Sets(d, e, names)
  BY <1>1, SetsAfter DEF Apart
<1> QED
  BY <1>1, <1>2, <1>3 DEF Sets

\* The environment as a whole: every variable has its way and nothing else
\* changes.
LEMMA OverridesFacts ==
    ASSUME NEW c, NEW e, DOMAIN c = SectionSettings, EnvTyped(e),
           "HARDWARE_PROFILE" \in DOMAIN e => e.HARDWARE_PROFILE # Garbage
    PROVE  LET d == Config!ApplyEnvOverrides(c, e)
           IN  /\ Keeps(c, d, e, DOMAIN Own) /\ Sets(d, e, DOMAIN Own)
               /\ "NUM_THREADS" \in DOMAIN e =>
                    d.parallelism_parallel_search = (e.NUM_THREADS > 1)
<1> DEFINE c1 == Config!OverrideIndexType(c, e)
           c2 == Config!OverrideAuto(c1, e)
           c3 == Config!OverrideHardware(c2, e)
           c4 == Config!OverrideWal(c3, e)
           c5 == Config!OverrideMemory(c4, e)
           c6 == Config!OverrideParallelism(c5, e)
           c7 == Config!OverrideExecution(c6, e)
           c8 == Config!OverrideSearch(c7, e)
           d == Config!FromEnv(c8, e, Config!PlainVariables)
<1>1. Config!ApplyEnvOverrides(c, e) = d
  BY DEF Config!ApplyEnvOverrides
<1>2. /\ BeforePlain \union PlainNames = DOMAIN Own
      /\ {"INDEX_TYPE"} \subseteq DOMAIN Own /\ BeforeHardware \subseteq DOMAIN Own
      /\ BeforeWal \subseteq DOMAIN Own /\ BeforeMemory \subseteq DOMAIN Own
      /\ BeforeParallel \subseteq DOMAIN Own /\ BeforeExecution \subseteq DOMAIN Own
      /\ BeforeSearch \subseteq DOMAIN Own
  BY OwnFacts DEF BeforeHardware, BeforeWal, BeforeMemory, BeforeParallel, BeforeExecution,
     BeforeSearch, BeforePlain, OtherNames
<1>3. Keeps(c, c1, e, {"INDEX_TYPE"}) /\ Sets(c1, e, {"INDEX_TYPE"})
  BY IndexStage
<1> HIDE DEF c1
<1>4. /\ Keeps(c, c2, e, BeforeHardware) /\ Sets(c2, e, BeforeHardware)
      /\ DOMAIN c2 = SectionSettings
  <2>1. DOMAIN c1 = SectionSettings
    BY <1>3 DEF Keeps
  <2>2. Keeps(c1, c2, e, AutoNames) /\ Sets(c2, e, AutoNames)
    BY <2>1, AutoStage
  <2> HIDE DEF c2
  <2> QED
    BY <1>2, <1>3, <2>2, NextStage, StagesApart DEF BeforeHardware
<1> HIDE DEF c2
<1>5. /\ Keeps(c, c3, e, BeforeWal) /\ Sets(c3, e, BeforeWal) /\ DOMAIN c3 = SectionSettings
  <2>1. Keeps(c2, c3, e, HardwareNames) /\ Sets(c3, e, HardwareNames)
    BY <1>4, HardwareStage
  <2> HIDE DEF c3
  <2> QED
    BY <1>2, <1>4, <2>1, NextStage, StagesApart DEF BeforeWal
<1> HIDE DEF c3
<1>6. /\ Keeps(c, c4, e, BeforeMemory) /\ Sets(c4, e, BeforeMemory) /\ DOMAIN c4 = SectionSettings
  <2>1. Keeps(c3, c4, e, WalNames) /\ Sets(c4, e, WalNames)
    BY <1>5, WalStage
  <2> HIDE DEF c4
  <2> QED
    BY <1>2, <1>5, <2>1, NextStage, StagesApart DEF BeforeMemory
<1> HIDE DEF c4
<1>7. /\ Keeps(c, c5, e, BeforeParallel) /\ Sets(c5, e, BeforeParallel)
      /\ DOMAIN c5 = SectionSettings
  <2>1. Keeps(c4, c5, e, MemoryNames) /\ Sets(c5, e, MemoryNames)
    BY <1>6, MemoryStage
  <2> HIDE DEF c5
  <2> QED
    BY <1>2, <1>6, <2>1, NextStage, StagesApart DEF BeforeParallel
<1> HIDE DEF c5
<1>8. /\ Keeps(c, c6, e, BeforeExecution) /\ Sets(c6, e, BeforeExecution)
      /\ DOMAIN c6 = SectionSettings
      /\ "NUM_THREADS" \in DOMAIN e => c6.parallelism_parallel_search = (e.NUM_THREADS > 1)
  <2>1. /\ Keeps(c5, c6, e, ParallelNames) /\ Sets(c6, e, ParallelNames)
        /\ "NUM_THREADS" \in DOMAIN e => c6.parallelism_parallel_search = (e.NUM_THREADS > 1)
    BY <1>7, ParallelStage
  <2> HIDE DEF c6
  <2> QED
    BY <1>2, <1>7, <2>1, NextStage, StagesApart DEF BeforeExecution
<1> HIDE DEF c6
<1>9. /\ Keeps(c, c7, e, BeforeSearch) /\ Sets(c7, e, BeforeSearch) /\ DOMAIN c7 = SectionSettings
      /\ Keeps(c6, c7, e, {"EXECUTION_MODE"})
  <2>1. Keeps(c6, c7, e, {"EXECUTION_MODE"}) /\ Sets(c7, e, {"EXECUTION_MODE"})
    BY <1>8, ExecutionStage
  <2> HIDE DEF c7
  <2> QED
    BY <1>2, <1>8, <2>1, NextStage, StagesApart DEF BeforeSearch
<1> HIDE DEF c7
<1>10. /\ Keeps(c, c8, e, BeforePlain) /\ Sets(c8, e, BeforePlain) /\ DOMAIN c8 = SectionSettings
       /\ Keeps(c7, c8, e, SearchNames)
  <2>1. Keeps(c7, c8, e, SearchNames) /\ Sets(c8, e, SearchNames)
    BY <1>9, SearchStage
  <2> HIDE DEF c8
  <2> QED
    BY <1>2, <1>9, <2>1, NextStage, StagesApart DEF BeforePlain
<1> HIDE DEF c8
<1>11. /\ Keeps(c, d, e, DOMAIN Own) /\ Sets(d, e, DOMAIN Own)
       /\ Keeps(c8, d, e, PlainNames)
  <2>1. Keeps(c8, d, e, PlainNames) /\ Sets(d, e, PlainNames)
    BY <1>10, PlainStage
  <2> HIDE DEF d
  <2>2. BeforePlain \subseteq DOMAIN Own
    BY <1>2
  <2>3. Keeps(c, d, e, BeforePlain \union PlainNames) /\ Sets(d, e, BeforePlain \union PlainNames)
    BY <1>10, <2>1, <2>2, NextStage, StagesApart
  <2> QED
    BY <1>2, <2>1, <2>3
<1> HIDE DEF d
<1>12. d.parallelism_parallel_search = c6.parallelism_parallel_search
  <2>1. "parallelism_parallel_search" \in SectionSettings
    BY DEF SectionSettings, Config!DefaultParallelism
  <2>2. c7.parallelism_parallel_search = c6.parallelism_parallel_search
    BY <1>8, <1>9, <2>1, StagesApart DEF Keeps, Touched
  <2>3. c8.parallelism_parallel_search = c7.parallelism_parallel_search
    BY <1>9, <1>10, <2>1, StagesApart DEF Keeps, Touched
  <2>4. d.parallelism_parallel_search = c8.parallelism_parallel_search
    BY <1>10, <1>11, <2>1, StagesApart DEF Keeps, Touched
  <2> QED
    BY <2>2, <2>3, <2>4
<1> QED
  BY <1>1, <1>8, <1>11, <1>12

\* Who touches the type of the index and the thresholds of an index chosen by size.
LEMMA IndexTouched ==
    /\ \A name \in DOMAIN Own : "index_type" \in Touches(name) => name = "INDEX_TYPE"
    /\ \A name \in DOMAIN Own :
        "auto_flat_max_vectors" \in Touches(name) => name = "INDEX_AUTO_FLAT_MAX_VECTORS"
    /\ \A name \in DOMAIN Own :
        "auto_ivf_max_vectors" \in Touches(name) => name = "INDEX_AUTO_IVF_MAX_VECTORS"
<1>1. ASSUME NEW name \in {"INDEX_TYPE", "EXECUTION_MODE"} \union HardwareNames \union WalNames
                           \union MemoryNames \union ParallelNames \union SearchNames
      PROVE  /\ {"auto_flat_max_vectors", "auto_ivf_max_vectors"} \intersect Touches(name) = {}
             /\ "index_type" \in Touches(name) => name = "INDEX_TYPE"
  BY <1>1, OwnFacts DEF Touches, Aside, HardwareNames, WalNames, MemoryNames, ParallelNames,
     SearchNames
<1>2. ASSUME NEW name \in PlainNames
      PROVE  {"index_type", "auto_flat_max_vectors", "auto_ivf_max_vectors"}
                \intersect Touches(name) = {}
  <2>1. Touches(name) \subseteq Touched(PlainNames)
    BY DEF Touched
  <2>2. {"index_type", "auto_flat_max_vectors", "auto_ivf_max_vectors"}
            \intersect Touched(PlainNames) = {}
    BY TouchedFacts DEF PlainNames, Config!PlainVariables
  <2> QED
    BY <2>1, <2>2
<1>3. ASSUME NEW name \in AutoNames
      PROVE  /\ "index_type" \notin Touches(name)
             /\ "auto_flat_max_vectors" \in Touches(name) => name = "INDEX_AUTO_FLAT_MAX_VECTORS"
             /\ "auto_ivf_max_vectors" \in Touches(name) => name = "INDEX_AUTO_IVF_MAX_VECTORS"
  <2>1. Touches(name) = {Config!AutoVariables[name]}
    <3>1. name \notin {"INDEX_TYPE", "HARDWARE_PROFILE", "HARDWARE_CPU_THREADS", "NUM_THREADS"}
      BY <1>3 DEF AutoNames, Config!AutoVariables
    <3>2. Aside(name) = {}
      BY <3>1 DEF Aside
    <3> QED
      BY <1>3, <3>2, OwnFacts DEF Touches
  <2> QED
    BY <1>3, <2>1 DEF AutoNames, Config!AutoVariables
<1> QED
  BY <1>1, <1>2, <1>3, OwnFacts DEF OtherNames

\* What the modules of the collections may rely on.
Usable(c) ==
    /\ c.wal_enabled => c.wal_checkpoint_frequency > 0
    /\ c.search_filter_overfetch > 0
    /\ c.index_type = "auto" =>
        \E flat, ivf \in {c.auto_flat_max_vectors - 1, c.auto_ivf_max_vectors - 1} :
            0 <= flat /\ flat < c.auto_flat_max_vectors
            /\ c.auto_flat_max_vectors <= ivf /\ ivf < c.auto_ivf_max_vectors
    /\ c.execution # "gpu"

\* How a configuration that is not refused has come about.
LEMMA LoadFacts ==
    ASSUME NEW file, NEW e, file # Garbage => FileTyped(file), EnvTyped(e),
           Config!LoadAppConfig(file, e) # None
    PROVE  LET base == Config!LoadFromFile(file, e)
               c == Config!LoadAppConfig(file, e)
           IN  /\ DOMAIN base = SectionSettings
               /\ {base.auto_flat_max_vectors, base.auto_ivf_max_vectors} \subseteq Nat
               /\ Config!Parses(base, e) /\ Config!Validate(c)
               /\ Keeps(base, c, e, DOMAIN Own) /\ Sets(c, e, DOMAIN Own)
               /\ "NUM_THREADS" \in DOMAIN e =>
                    c.parallelism_parallel_search = (e.NUM_THREADS > 1)
<1> DEFINE base == Config!LoadFromFile(file, e)
           d == Config!ApplyEnvOverrides(base, e)
           c == Config!LoadAppConfig(file, e)
<1>1. base # Garbage /\ Config!Parses(base, e) /\ Config!Validate(d) /\ c = d
  BY DEF Config!LoadAppConfig
<1>2. /\ DOMAIN base = SectionSettings
      /\ {base.auto_flat_max_vectors, base.auto_ivf_max_vectors} \subseteq Nat
  <2>1. CASE "CONFIG_FILE" \in DOMAIN e
    <3>1. base = file
      BY <2>1 DEF Config!LoadFromFile, Config!Set
    <3> QED
      BY <1>1, <3>1, DefaultFacts DEF FileTyped
  <2>2. CASE "CONFIG_FILE" \notin DOMAIN e
    <3>1. base = Config!Default
      BY <2>2 DEF Config!LoadFromFile, Config!Set
    <3> QED
      BY <3>1, DefaultFacts
  <2> QED
    BY <2>1, <2>2
<1> HIDE DEF base
<1>3. "HARDWARE_PROFILE" \in DOMAIN e => e.HARDWARE_PROFILE # Garbage
  <2>1. /\ "HARDWARE_PROFILE" \notin Config!RuntimeVariables
        /\ "HARDWARE_PROFILE" \notin DOMAIN Config!AutoVariables
    BY DEF Config!RuntimeVariables, Config!AutoVariables
  <2> QED
    BY <1>1, <2>1 DEF Config!Parses
<1>4. /\ Keeps(base, d, e, DOMAIN Own) /\ Sets(d, e, DOMAIN Own)
      /\ "NUM_THREADS" \in DOMAIN e => d.parallelism_parallel_search = (e.NUM_THREADS > 1)
  BY <1>2, <1>3, OverridesFacts
<1> HIDE DEF d, c
<1>5. /\ DOMAIN base = SectionSettings
      /\ {base.auto_flat_max_vectors, base.auto_ivf_max_vectors} \subseteq Nat
      /\ Config!Parses(base, e) /\ Config!Validate(c)
      /\ Keeps(base, c, e, DOMAIN Own) /\ Sets(c, e, DOMAIN Own)
      /\ "NUM_THREADS" \in DOMAIN e => c.parallelism_parallel_search = (e.NUM_THREADS > 1)
  BY <1>1, <1>2, <1>4
<1> QED
  BY <1>5 DEF base, c

\* A threshold is the number of the file or that of its variable.
LEMMA ThresholdFacts ==
    ASSUME NEW base, NEW c, NEW e, DOMAIN base = SectionSettings, EnvTyped(e),
           Config!Parses(base, e), Keeps(base, c, e, DOMAIN Own), Sets(c, e, DOMAIN Own),
           c.index_type = "auto",
           NEW name \in {"INDEX_AUTO_FLAT_MAX_VECTORS", "INDEX_AUTO_IVF_MAX_VECTORS"},
           base[Own[name]] \in Nat
    PROVE  c[Own[name]] \in Nat
<1>1. /\ name \in AutoNames /\ name \notin Config!RuntimeVariables
      /\ name # "SEARCH_FILTER_EXPANSION" /\ name # "PARALLEL_SEARCH" /\ name \notin Zeroless
      /\ "INDEX_TYPE" \notin AutoNames /\ "INDEX_TYPE" \notin Zeroless
  BY DEF AutoNames, Config!AutoVariables, Config!RuntimeVariables, Zeroless
<1>2. name \in DOMAIN Own /\ Own[name] \in DOMAIN base
  BY <1>1, OwnFacts, SettingFacts
<1>3. "INDEX_TYPE" \notin DOMAIN e
  <2>1. SUFFICES ASSUME "INDEX_TYPE" \in DOMAIN e PROVE FALSE
    OBVIOUS
  <2>2. e.INDEX_TYPE # "auto"
    BY <2>1 DEF Config!Parses, Config!Set
  <2>3. ~Outdone(c, e, "INDEX_TYPE")
    BY <1>1 DEF Outdone
  <2>4. c.index_type = e.INDEX_TYPE
    BY <1>1, <2>1, <2>3, OwnFacts DEF Sets, Value, OtherNames
  <2> QED
    BY <2>2, <2>4
<1>4. base.index_type = "auto"
  <2>1. "index_type" \in DOMAIN base
    BY DEF SectionSettings, Config!DefaultIndex
  <2> QED
    BY <1>3, <2>1, IndexTouched DEF Keeps
<1>5. CASE name \in DOMAIN e
  <2>1. e[name] # Garbage
    BY <1>1, <1>3, <1>4, <1>5 DEF Config!Parses, Config!Set
  <2>2. e[name] \in Nat
    BY <1>5, <2>1 DEF EnvTyped
  <2>3. ~Outdone(c, e, name)
    BY <1>1 DEF Outdone
  <2> QED
    BY <1>1, <1>2, <1>5, <2>2, <2>3 DEF Sets, Value
<1>6. CASE name \notin DOMAIN e
  <2>1. \A other \in DOMAIN Own \intersect DOMAIN e : Own[name] \notin Touches(other)
    <3>1. /\ Own["INDEX_AUTO_FLAT_MAX_VECTORS"] = "auto_flat_max_vectors"
          /\ Own["INDEX_AUTO_IVF_MAX_VECTORS"] = "auto_ivf_max_vectors"
      BY OwnFacts DEF AutoNames, Config!AutoVariables
    <3> QED
      BY <1>6, <3>1, IndexTouched
  <2> QED
    BY <1>2, <2>1 DEF Keeps
<1> QED
  BY <1>5, <1>6

\* What is loaded is usable.
LEMMA LoadedUsable ==
    ASSUME NEW file, NEW e, file # Garbage => FileTyped(file), EnvTyped(e),
           Config!LoadAppConfig(file, e) # None
    PROVE  Usable(Config!LoadAppConfig(file, e))
<1> DEFINE base == Config!LoadFromFile(file, e)
           c == Config!LoadAppConfig(file, e)
<1>1. /\ DOMAIN base = SectionSettings
      /\ {base.auto_flat_max_vectors, base.auto_ivf_max_vectors} \subseteq Nat
      /\ Config!Parses(base, e) /\ Config!Validate(c)
      /\ Keeps(base, c, e, DOMAIN Own) /\ Sets(c, e, DOMAIN Own)
  BY LoadFacts
<1> HIDE DEF base, c
<1>2. /\ Own["INDEX_AUTO_FLAT_MAX_VECTORS"] = "auto_flat_max_vectors"
      /\ Own["INDEX_AUTO_IVF_MAX_VECTORS"] = "auto_ivf_max_vectors"
  BY OwnFacts DEF AutoNames, Config!AutoVariables
<1>3. ASSUME c.index_type = "auto"
      PROVE  c.auto_flat_max_vectors \in Nat /\ c.auto_ivf_max_vectors \in Nat
  <2>1. /\ base[Own["INDEX_AUTO_FLAT_MAX_VECTORS"]] \in Nat
        /\ base[Own["INDEX_AUTO_IVF_MAX_VECTORS"]] \in Nat
    BY <1>1, <1>2
  <2>2. /\ c[Own["INDEX_AUTO_FLAT_MAX_VECTORS"]] \in Nat
        /\ c[Own["INDEX_AUTO_IVF_MAX_VECTORS"]] \in Nat
    BY <1>1, <1>3, <2>1, ThresholdFacts
  <2> QED
    BY <1>2, <2>2
<1>4. ASSUME c.index_type = "auto"
      PROVE  \E flat, ivf \in {c.auto_flat_max_vectors - 1, c.auto_ivf_max_vectors - 1} :
                0 <= flat /\ flat < c.auto_flat_max_vectors
                /\ c.auto_flat_max_vectors <= ivf /\ ivf < c.auto_ivf_max_vectors
  <2>1. c.auto_flat_max_vectors > 0 /\ c.auto_ivf_max_vectors > c.auto_flat_max_vectors
    BY <1>1, <1>4 DEF Config!Validate, Config!ValidateAutoIndex
  <2>2. /\ 0 <= c.auto_flat_max_vectors - 1
        /\ c.auto_flat_max_vectors - 1 < c.auto_flat_max_vectors
        /\ c.auto_flat_max_vectors <= c.auto_ivf_max_vectors - 1
        /\ c.auto_ivf_max_vectors - 1 < c.auto_ivf_max_vectors
    BY <1>3, <1>4, <2>1
  <2> QED
    BY <2>2
<1>5. /\ c.wal_enabled => c.wal_checkpoint_frequency > 0
      /\ c.search_filter_overfetch > 0 /\ c.execution # "gpu"
  BY <1>1 DEF Config!Validate
<1>6. Usable(c)
  BY <1>4, <1>5 DEF Usable
<1> QED
  BY <1>6 DEF c

\* The configuration in force is what the environment makes of the version that
\* was loaded last, and the collection was opened with one that was in force.
ConfigInv ==
    LET Loaded(i) == Config!LoadAppConfig(scenario.files[i], env)
        versions == 1 .. Len(scenario.files)
    IN  /\ running => loaded \in versions /\ config = Loaded(loaded)
        /\ collection # None => \E i \in versions : collection = Loaded(i)

LoadInv == SettingsInv /\ ConfigInv

\* The runtime settings beside the AppConfig can only refuse it.
LEMMA RuntimeFacts ==
    ASSUME NEW file, NEW e, Config!LoadRuntimeConfig(file, e) # None
    PROVE  Config!LoadRuntimeConfig(file, e) = Config!LoadAppConfig(file, e)
BY DEF Config!LoadRuntimeConfig

\* Start and Reload put the configuration of a version in force; only these
\* change it, and a collection is opened with the one in force.
LEMMA NextConfig == LoadInv /\ [Next]_vars => ConfigInv'
<1> SUFFICES ASSUME LoadInv, [Next]_vars PROVE ConfigInv'
  OBVIOUS
<1> USE DEF env
<1>1. CASE Start
  <2>1. /\ config' = Config!LoadAppConfig(scenario.files[version], env)
        /\ loaded' = version /\ collection' = None /\ UNCHANGED scenario
    BY <1>1, RuntimeFacts DEF Start
  <2> QED
    BY <2>1 DEF LoadInv, SettingsInv, ConfigInv
<1>2. CASE EditFile
  BY <1>2 DEF EditFile, stored, LoadInv, ConfigInv
<1>3. CASE Reload
  BY <1>3 DEF Reload, stored, LoadInv, SettingsInv, ConfigInv
<1>4. CASE ReloadExits
  BY <1>4 DEF ReloadExits, LoadInv, ConfigInv
<1>5. CASE UNCHANGED process /\ collection' \in {collection, config}
  <2>1. CASE collection' = collection
    BY <1>5, <2>1 DEF process, LoadInv, ConfigInv
  <2>2. CASE collection' = config
    BY <1>5, <2>2 DEF process, LoadInv, SettingsInv, ConfigInv
  <2> QED
    BY <1>5, <2>1, <2>2
<1>6. ASSUME NEW r \in DOMAIN scenario.requests,
             ReceiveEmbed(r) \/ ReceiveSearch(r) \/ Step(r) \/ Reply(r) \/ TimeOut(r)
      PROVE  ConfigInv'
  <2>1. CASE ReceiveEmbed(r)
    BY <1>5, <2>1 DEF ReceiveEmbed, OpenFails, Opens
  <2>2. CASE ReceiveSearch(r)
    BY <1>5, <2>2 DEF ReceiveSearch, OpenFails, Opens
  <2>3. CASE LookupHits(r) \/ LookupMisses(r) \/ Wake(r) \/ Store(r)
              \/ Insert(r) \/ Budget(r) \/ Record(r) \/ Search(r)
    BY <1>5, <2>3
    DEF LookupHits, LookupMisses, Wake, Store, Insert, Budget, Record, Search, stored
  <2>4. CASE Reply(r) \/ TimeOut(r)
    BY <1>5, <2>4 DEF Reply, TimeOut, stored
  <2> QED
    BY <1>6, <2>1, <2>2, <2>3, <2>4 DEF Step
<1>7. CASE UNCHANGED vars
  BY <1>5, <1>7 DEF vars, stored
<1> QED
  BY <1>1, <1>2, <1>3, <1>4, <1>6, <1>7 DEF Next

\* Initially no configuration is in force.
LEMMA InitConfig == Init => LoadInv
BY InitSettings DEF Init, LoadInv, ConfigInv

\* The files and the environment of the scenario are typed.
LEMMA ScenarioTyped ==
    ASSUME LoadInv
    PROVE  /\ EnvTyped(env)
           /\ \A i \in 1 .. Len(scenario.files) :
                scenario.files[i] # Garbage => FileTyped(scenario.files[i])
BY ConstantsAssumption DEF LoadInv, SettingsInv, env

\* What the modules of the collections assume of their configuration holds for
\* the one in force and the one the collection was opened with.
THEOREM AlwaysUsable == Spec => []ConfigUsable
<1>1. ASSUME LoadInv PROVE ConfigUsable
  <2>1. ASSUME NEW i \in 1 .. Len(scenario.files),
               Config!LoadAppConfig(scenario.files[i], env) # None
        PROVE  Usable(Config!LoadAppConfig(scenario.files[i], env))
    BY <1>1, <2>1, ScenarioTyped, LoadedUsable
  <2>2. config # None => Usable(config)
    BY <1>1, <2>1 DEF LoadInv, SettingsInv, ConfigInv
  <2>3. collection # None => Usable(collection)
    BY <1>1, <2>1 DEF LoadInv, ConfigInv
  <2> QED
    BY <2>2, <2>3 DEF ConfigUsable, Usable
<1> QED
  BY <1>1, InitConfig, NextConfig, NextSettings, PTL DEF Spec, LoadInv

\* Whatever is edited and reloaded, each variable of the environment has its
\* way and every other setting is that of the file.
THEOREM EnvironmentAlwaysInForce == Spec => []EnvironmentInForce
<1>1. ASSUME LoadInv PROVE EnvironmentInForce
  <2> DEFINE given == scenario.files[loaded]
             base == Config!LoadFromFile(given, env)
             names == DOMAIN env \intersect DOMAIN Own
  <2>1. SUFFICES ASSUME running
                 PROVE  /\ \A name \in names :
                            ~Overruled(name) =>
                                config[Own[name]] = IF name \in Zeroless /\ env[name] = 0 THEN 1
                                                    ELSE env[name]
                        /\ "NUM_THREADS" \in names =>
                            config.parallelism_parallel_search = (env.NUM_THREADS > 1)
                        /\ \A field \in DOMAIN config :
                            (\A name \in names : field \notin Aside(name) \union {Own[name]}) =>
                                config[field] = base[field]
    BY DEF EnvironmentInForce
  <2>2. /\ config = Config!LoadAppConfig(given, env) /\ config # None
        /\ given # Garbage => FileTyped(given)
        /\ EnvTyped(env)
    BY <1>1, <2>1, ScenarioTyped DEF LoadInv, SettingsInv, ConfigInv
  <2>3. /\ Keeps(base, config, env, DOMAIN Own) /\ Sets(config, env, DOMAIN Own)
        /\ "NUM_THREADS" \in DOMAIN env =>
            config.parallelism_parallel_search = (env.NUM_THREADS > 1)
    BY <2>2, LoadFacts
  <2> HIDE DEF base
  <2>4. \A name \in names : Overruled(name) <=> Outdone(config, env, name)
    BY DEF Overruled, Outdone, AutoNames
  <2>5. \A name \in names :
            ~Overruled(name) =>
                config[Own[name]] = IF name \in Zeroless /\ env[name] = 0 THEN 1 ELSE env[name]
    BY <2>3, <2>4 DEF Sets, Value
  <2>6. \A field \in DOMAIN config :
            (\A name \in names : field \notin Aside(name) \union {Own[name]}) =>
                config[field] = base[field]
    BY <2>3 DEF Keeps, Touches
  <2> QED
    BY <2>3, <2>5, <2>6
<1> QED
  BY <1>1, InitConfig, NextConfig, NextSettings, PTL DEF Spec, LoadInv

-----------------------------------------------------------------------------
(* Sums.  By induction the function that adds up the elements of a set     *)
(* exists and does so in any order.                                        *)

\* The element that a fold begins with.
Pick(s) == CHOOSE x \in s : TRUE

\* g adds up f over the subsets of S, an element at a time.
Sums(g, f, S) ==
    g = [s \in SUBSET S |-> IF s = {} THEN 0 ELSE f[Pick(s)] + g[s \ {Pick(s)}]]

\* There is such a g: one for the subsets of up to n elements gives one for
\* those of n + 1.
LEMMA SumsExist ==
    ASSUME NEW f, NEW S, IsFiniteSet(S)
    PROVE  \E g : Sums(g, f, S)
<1> DEFINE Size(n) == {s \in SUBSET S : Cardinality(s) <= n}
           UpTo(g, n) == g = [s \in Size(n) |-> IF s = {} THEN 0
                                                ELSE f[Pick(s)] + g[s \ {Pick(s)}]]
           Good == {n \in Nat : \E g : UpTo(g, n)}
           N == Cardinality(S)
<1>1. N \in Nat
  BY FS_CardinalityType
<1>2. \A s \in SUBSET S : Cardinality(s) \in Nat /\ Cardinality(s) <= N /\ IsFiniteSet(s)
  BY FS_Subset, FS_CardinalityType
<1>3. \A s \in SUBSET S : s # {} =>
        /\ Pick(s) \in s /\ s \ {Pick(s)} \in SUBSET S
        /\ Cardinality(s \ {Pick(s)}) = Cardinality(s) - 1
  <2>1. SUFFICES ASSUME NEW s \in SUBSET S, s # {}
                 PROVE  /\ Pick(s) \in s /\ s \ {Pick(s)} \in SUBSET S
                        /\ Cardinality(s \ {Pick(s)}) = Cardinality(s) - 1
    OBVIOUS
  <2>2. Pick(s) \in s
    BY <2>1 DEF Pick
  <2> QED
    BY <1>2, <2>2, FS_RemoveElement
<1>4. 0 \in Good
  <2>1. \A s \in Size(0) : s = {}
    BY <1>2, FS_EmptySet
  <2>2. UpTo([s \in Size(0) |-> 0], 0)
    BY <2>1
  <2> QED
    BY <2>2
<1>5. ASSUME NEW n \in 1 .. N, n - 1 \in Good
      PROVE  n \in Good
  <2>1. PICK g : UpTo(g, n - 1)
    BY <1>5
  <2> DEFINE h == [s \in Size(n) |-> IF s = {} THEN 0 ELSE f[Pick(s)] + g[s \ {Pick(s)}]]
  <2>2. \A t \in Size(n - 1) : h[t] = g[t]
    <3>1. Size(n - 1) \subseteq Size(n)
      BY <1>2
    <3> QED
      BY <2>1, <3>1
  <2>3. \A s \in Size(n) : s # {} => s \ {Pick(s)} \in Size(n - 1)
    BY <1>2, <1>3
  <2>4. UpTo(h, n)
    BY <2>2, <2>3
  <2>5. n \in Nat
    BY <1>1
  <2> HIDE DEF h
  <2>6. \E any : UpTo(any, n)
    BY <2>4
  <2> QED
    BY <2>5, <2>6
<1> HIDE DEF Good
<1>6. N \in Good
  <2>1. 0 .. N \subseteq Good
    BY <1>1, <1>4, <1>5, IntervalInduction
  <2> QED
    BY <1>1, <2>1
<1>7. PICK g : UpTo(g, N)
  BY <1>6 DEF Good
<1>8. Size(N) = SUBSET S
  BY <1>2
<1> QED
  BY <1>7, <1>8 DEF Sums

\* They agree on the subsets that they share.
LEMMA SumsAgree ==
    ASSUME NEW f, NEW S, IsFiniteSet(S), NEW R \in SUBSET S, NEW g, NEW h,
           Sums(g, f, S), Sums(h, f, R)
    PROVE  g[R] = h[R]
<1> DEFINE Good == {s \in SUBSET R : g[s] = h[s]}
<1>1. IsFiniteSet(R)
  BY FS_Subset
<1>2. ASSUME NEW s \in SUBSET R, \A t \in SUBSET s : t # s => t \in Good
      PROVE  s \in Good
  <2>1. CASE s = {}
    BY <2>1 DEF Sums
  <2>2. CASE s # {}
    <3>1. Pick(s) \in s
      BY <2>2 DEF Pick
    <3>2. g[s \ {Pick(s)}] = h[s \ {Pick(s)}]
      BY <1>2, <3>1
    <3>3. /\ g[s] = f[Pick(s)] + g[s \ {Pick(s)}]
          /\ h[s] = f[Pick(s)] + h[s \ {Pick(s)}]
      <4>1. s \in SUBSET S /\ s \in SUBSET R
        OBVIOUS
      <4> QED
        BY <2>2, <4>1 DEF Sums
    <3> QED
      BY <3>2, <3>3
  <2> QED
    BY <2>1, <2>2
<1> HIDE DEF Good
<1>3. SUBSET R \subseteq Good
  BY <1>1, <1>2, SubsetInduction
<1> QED
  BY <1>3 DEF Good

\* The sum is that of some g.
LEMMA TotalSums ==
    ASSUME NEW f, NEW S, IsFiniteSet(S)
    PROVE  \E g : Sums(g, f, S) /\ Total(f, S) = g[S]
<1> DEFINE iter == CHOOSE g : Sums(g, f, S)
<1>1. Sums(iter, f, S)
  BY SumsExist
<1>2. Total(f, S) = iter[S]
  BY DEF Total, MapThenSumSet, MapThenFoldSet, Sums, Pick
<1> QED
  BY <1>1, <1>2

\* Nothing adds up to zero.
LEMMA TotalEmpty == ASSUME NEW f PROVE Total(f, {}) = 0
<1>1. IsFiniteSet({})
  BY FS_EmptySet
<1>2. PICK g : Sums(g, f, {}) /\ Total(f, {}) = g[{}]
  BY <1>1, TotalSums
<1>3. g[{}] = 0
  BY <1>2 DEF Sums
<1> QED
  BY <1>2, <1>3

\* The element that is added first.
LEMMA TotalPick ==
    ASSUME NEW f, NEW S, IsFiniteSet(S), S # {}
    PROVE  /\ Pick(S) \in S
           /\ Total(f, S) = f[Pick(S)] + Total(f, S \ {Pick(S)})
<1> DEFINE R == S \ {Pick(S)}
<1>1. Pick(S) \in S
  BY DEF Pick
<1>2. R \in SUBSET S /\ IsFiniteSet(R)
  BY FS_Subset
<1>3. PICK g : Sums(g, f, S) /\ Total(f, S) = g[S]
  BY TotalSums
<1>4. PICK h : Sums(h, f, R) /\ Total(f, R) = h[R]
  BY <1>2, TotalSums
<1>5. g[R] = h[R]
  BY <1>2, <1>3, <1>4, SumsAgree
<1>6. g[S] = f[Pick(S)] + g[R]
  BY <1>3 DEF Sums
<1> QED
  BY <1>1, <1>3, <1>4, <1>5, <1>6

\* A sum of integers is an integer.
LEMMA TotalType ==
    ASSUME NEW S, IsFiniteSet(S), NEW f, \A x \in S : f[x] \in Int
    PROVE  Total(f, S) \in Int
<1> DEFINE Good == {s \in SUBSET S : Total(f, s) \in Int}
<1>1. ASSUME NEW s \in SUBSET S, \A t \in SUBSET s : t # s => t \in Good
      PROVE  s \in Good
  <2>1. CASE s = {}
    BY <2>1, TotalEmpty
  <2>2. CASE s # {}
    <3>1. IsFiniteSet(s)
      BY FS_Subset
    <3>2. Pick(s) \in s /\ Total(f, s) = f[Pick(s)] + Total(f, s \ {Pick(s)})
      BY <2>2, <3>1, TotalPick
    <3>3. s \ {Pick(s)} \in Good
      BY <1>1, <3>2
    <3>4. f[Pick(s)] \in Int /\ Total(f, s \ {Pick(s)}) \in Int
      BY <3>2, <3>3
    <3> QED
      BY <3>2, <3>4
  <2> QED
    BY <2>1, <2>2
<1> HIDE DEF Good
<1>2. SUBSET S \subseteq Good
  BY <1>1, SubsetInduction
<1> QED
  BY <1>2 DEF Good

\* Any element may be added first.
LEMMA TotalRemove ==
    ASSUME NEW S, IsFiniteSet(S), NEW f, \A x \in S : f[x] \in Int, NEW e \in S
    PROVE  Total(f, S) = f[e] + Total(f, S \ {e})
<1> DEFINE Good == {s \in SUBSET S : \A x \in s : Total(f, s) = f[x] + Total(f, s \ {x})}
<1>1. ASSUME NEW s \in SUBSET S, \A t \in SUBSET s : t # s => t \in Good
      PROVE  s \in Good
  <2>1. SUFFICES ASSUME NEW x \in s PROVE Total(f, s) = f[x] + Total(f, s \ {x})
    OBVIOUS
  <2>2. IsFiniteSet(s)
    BY FS_Subset
  <2> DEFINE p == Pick(s)
             rest == (s \ {p}) \ {x}
  <2>3. p \in s /\ Total(f, s) = f[p] + Total(f, s \ {p})
    BY <2>2, TotalPick
  <2>4. CASE x = p
    BY <2>3, <2>4
  <2>5. CASE x # p
    <3>1. s \ {p} \in Good /\ s \ {x} \in Good
      BY <1>1, <2>3
    <3>2. x \in s \ {p} /\ p \in s \ {x} /\ (s \ {x}) \ {p} = rest
      BY <2>3, <2>5
    <3>3. Total(f, s \ {p}) = f[x] + Total(f, rest)
      BY <3>1, <3>2
    <3>4. Total(f, s \ {x}) = f[p] + Total(f, rest)
      BY <3>1, <3>2
    <3>5. IsFiniteSet(rest) /\ \A y \in rest : f[y] \in Int
      BY <2>2, FS_Subset
    <3>6. f[x] \in Int /\ f[p] \in Int /\ Total(f, rest) \in Int
      BY <2>3, <3>5, TotalType
    <3> HIDE DEF p, rest
    <3> QED
      BY <2>3, <3>3, <3>4, <3>6
  <2> QED
    BY <2>4, <2>5
<1> HIDE DEF Good
<1>2. SUBSET S \subseteq Good
  BY <1>1, SubsetInduction
<1> QED
  BY <1>2 DEF Good

\* What is no smaller element by element is no smaller in all.
LEMMA TotalOrder ==
    ASSUME NEW S, IsFiniteSet(S), NEW f, NEW h,
           \A x \in S : f[x] \in Int /\ h[x] \in Int /\ f[x] <= h[x]
    PROVE  Total(f, S) <= Total(h, S)
<1> DEFINE Good == {s \in SUBSET S : Total(f, s) <= Total(h, s)}
<1>1. ASSUME NEW s \in SUBSET S, \A t \in SUBSET s : t # s => t \in Good
      PROVE  s \in Good
  <2>1. CASE s = {}
    <3>1. Total(f, s) = 0 /\ Total(h, s) = 0
      BY <2>1, TotalEmpty
    <3> QED
      BY <3>1
  <2>2. CASE s # {}
    <3> DEFINE p == Pick(s)
               rest == s \ {p}
    <3>1. IsFiniteSet(s) /\ IsFiniteSet(rest)
      BY FS_Subset
    <3>2. /\ p \in s /\ Total(f, s) = f[p] + Total(f, rest)
          /\ Total(h, s) = h[p] + Total(h, rest)
      BY <2>2, <3>1, TotalPick
    <3>3. Total(f, rest) <= Total(h, rest)
      BY <1>1, <3>2
    <3>4. \A y \in rest : f[y] \in Int /\ h[y] \in Int
      OBVIOUS
    <3>5. Total(f, rest) \in Int /\ Total(h, rest) \in Int
      BY <3>1, <3>4, TotalType
    <3>6. f[p] \in Int /\ h[p] \in Int /\ f[p] <= h[p]
      BY <3>2
    <3> HIDE DEF p, rest
    <3>7. Total(f, s) <= Total(h, s)
      BY <3>2, <3>3, <3>5, <3>6
    <3> QED
      BY <3>7
  <2> QED
    BY <2>1, <2>2
<1> HIDE DEF Good
<1>2. SUBSET S \subseteq Good
  BY <1>1, SubsetInduction
<1> QED
  BY <1>2 DEF Good

\* What is the same element by element is the same in all.
LEMMA TotalSame ==
    ASSUME NEW S, IsFiniteSet(S), NEW f, NEW h, \A x \in S : f[x] \in Int /\ h[x] = f[x]
    PROVE  Total(h, S) = Total(f, S)
<1>1. \A x \in S : f[x] \in Int /\ h[x] \in Int /\ f[x] <= h[x] /\ h[x] <= f[x]
  OBVIOUS
<1>2. Total(f, S) <= Total(h, S) /\ Total(h, S) <= Total(f, S)
  BY <1>1, TotalOrder
<1>3. Total(f, S) \in Int /\ Total(h, S) \in Int
  BY <1>1, TotalType
<1> QED
  BY <1>2, <1>3

\* A sum of natural numbers is one.
LEMMA TotalNat ==
    ASSUME NEW S, IsFiniteSet(S), NEW f, \A x \in S : f[x] \in Nat
    PROVE  Total(f, S) \in Nat
<1> DEFINE Good == {s \in SUBSET S : Total(f, s) \in Nat}
<1>1. ASSUME NEW s \in SUBSET S, \A t \in SUBSET s : t # s => t \in Good
      PROVE  s \in Good
  <2>1. CASE s = {}
    BY <2>1, TotalEmpty
  <2>2. CASE s # {}
    <3>1. IsFiniteSet(s)
      BY FS_Subset
    <3>2. Pick(s) \in s /\ Total(f, s) = f[Pick(s)] + Total(f, s \ {Pick(s)})
      BY <2>2, <3>1, TotalPick
    <3>3. s \ {Pick(s)} \in Good
      BY <1>1, <3>2
    <3>4. f[Pick(s)] \in Nat /\ Total(f, s \ {Pick(s)}) \in Nat
      BY <3>2, <3>3
    <3> QED
      BY <3>2, <3>4
  <2> QED
    BY <2>1, <2>2
<1> HIDE DEF Good
<1>2. SUBSET S \subseteq Good
  BY <1>1, SubsetInduction
<1> QED
  BY <1>2 DEF Good

\* One term changes.
LEMMA TotalChange ==
    ASSUME NEW S, IsFiniteSet(S), NEW f, NEW h, NEW e \in S,
           \A x \in S : f[x] \in Int /\ h[x] \in Int,
           \A x \in S \ {e} : h[x] = f[x]
    PROVE  /\ Total(h, S) = Total(f, S) + (h[e] - f[e])
           /\ Total(h, S) \in Int /\ Total(f, S) \in Int
<1>1. IsFiniteSet(S \ {e})
  BY FS_Subset
<1>2. Total(h, S \ {e}) = Total(f, S \ {e})
  BY <1>1, TotalSame
<1>3. Total(f, S \ {e}) \in Int
  BY <1>1, TotalType
<1>4. Total(f, S) = f[e] + Total(f, S \ {e})
  BY TotalRemove
<1>5. Total(h, S) = h[e] + Total(h, S \ {e})
  BY TotalRemove
<1> QED
  BY <1>2, <1>3, <1>4, <1>5

\* Zeros add up to zero.
LEMMA TotalZero ==
    ASSUME NEW S, IsFiniteSet(S), NEW f, \A x \in S : f[x] = 0
    PROVE  Total(f, S) = 0
<1> DEFINE Good == {s \in SUBSET S : Total(f, s) = 0}
<1>1. ASSUME NEW s \in SUBSET S, \A t \in SUBSET s : t # s => t \in Good
      PROVE  s \in Good
  <2>1. CASE s = {}
    BY <2>1, TotalEmpty
  <2>2. CASE s # {}
    <3>1. IsFiniteSet(s)
      BY FS_Subset
    <3>2. Pick(s) \in s /\ Total(f, s) = f[Pick(s)] + Total(f, s \ {Pick(s)})
      BY <2>2, <3>1, TotalPick
    <3>3. s \ {Pick(s)} \in Good
      BY <1>1, <3>2
    <3>4. f[Pick(s)] = 0 /\ Total(f, s \ {Pick(s)}) = 0
      BY <3>2, <3>3
    <3> QED
      BY <3>2, <3>4
  <2> QED
    BY <2>1, <2>2
<1> HIDE DEF Good
<1>2. SUBSET S \subseteq Good
  BY <1>1, SubsetInduction
<1> QED
  BY <1>2 DEF Good

-----------------------------------------------------------------------------
(* The metrics.  A request carries the tokens of the answers that it has   *)
(* not counted; with those that are counted they are no more than were     *)
(* billed.                                                                 *)

Carried(q) ==
    IF q.pc \in {"search", "done"} THEN 0
    ELSE Tokens(q.got) + (IF q.pc = "store" THEN Reported(q.answer) ELSE 0)
Carrying == [r \in Requests |-> Carried(req[r])]

\* A search is counted before it searches, an insertion when it is done.
Told(q) == q.pc = "search" \/ q.result \in {"ok", "invalid query", "search failed"}
Counted == {r \in Requests \ earlier : Told(req[r])}
Searches == {r \in Counted : Form(r) = "search"}

TokensInv ==
    /\ metrics.tokens \in Nat /\ billed \in Nat
    /\ metrics.tokens + Total(Carrying, Requests) <= billed

CountsInv ==
    /\ metrics.requests = Cardinality(Counted)
    /\ metrics.texts = Cardinality(Searches) + Total(Lengths, Counted \ Searches)

\* Where no process runs, earlier is what it was for the last one.
MetricsInv == (running => CountsInv) /\ TokensInv

\* The tokens of a further answer.
LEMMA TokensAppend ==
    ASSUME NEW known, NEW got \in Seq(Answers(known)), NEW answer \in Answers(known)
    PROVE  /\ Tokens(got) \in Nat /\ Reported(answer) \in Nat
           /\ Tokens(Append(got, answer)) = Tokens(got) + Reported(answer)
<1> DEFINE longer == Append(got, answer)
           n == Len(got)
           f == [i \in DOMAIN got |-> Reported(got[i])]
           h == [i \in DOMAIN longer |-> Reported(longer[i])]
<1>1. \A a \in Answers(known) : Reported(a) \in Nat
  BY DEF Answers, Embed!Answered, Reported
<1>2. /\ n \in Nat /\ DOMAIN got = 1 .. n /\ DOMAIN longer = 1 .. n + 1
      /\ \A i \in 1 .. n : got[i] \in Answers(known) /\ longer[i] = got[i]
      /\ longer[n + 1] = answer
  BY AppendProperties
<1>3. /\ \A i \in 1 .. n : f[i] \in Nat /\ h[i] = f[i]
      /\ h[n + 1] = Reported(answer) /\ Reported(answer) \in Nat
      /\ \A i \in 1 .. n + 1 : h[i] \in Int
  BY <1>1, <1>2
<1> HIDE DEF f, h, longer
<1>4. IsFiniteSet(1 .. n) /\ IsFiniteSet(1 .. n + 1)
  BY <1>2, FS_Interval
<1>5. n + 1 \in 1 .. n + 1 /\ (1 .. n + 1) \ {n + 1} = 1 .. n
  BY <1>2
<1> HIDE DEF n
<1>6. Total(f, 1 .. n) \in Nat
  BY <1>3, <1>4, TotalNat
<1>7. Total(h, 1 .. n) = Total(f, 1 .. n)
  <2>1. \A i \in 1 .. n : f[i] \in Int /\ h[i] = f[i]
    BY <1>3
  <2> QED
    BY <1>4, <2>1, TotalSame
<1>8. Total(h, 1 .. n + 1) = h[n + 1] + Total(h, 1 .. n)
  <2>1. Total(h, 1 .. n + 1) = h[n + 1] + Total(h, (1 .. n + 1) \ {n + 1})
    BY <1>3, <1>4, <1>5, TotalRemove
  <2> QED
    BY <1>5, <2>1
<1>9. Tokens(got) = Total(f, 1 .. n) /\ Tokens(longer) = Total(h, 1 .. n + 1)
  BY <1>2 DEF Tokens, f, h
<1> QED
  BY <1>3, <1>6, <1>7, <1>8, <1>9 DEF longer

\* No answer reports nothing.
LEMMA TokensEmpty == Tokens(<<>>) = 0
<1>1. DOMAIN <<>> = {}
  OBVIOUS
<1> QED
  BY <1>1, TotalEmpty DEF Tokens

\* What is carried is a number.
LEMMA CarriedType == ASSUME EmbedInv PROVE \A r \in Requests : Carried(req[r]) \in Nat
<1>1. ASSUME NEW r \in Requests PROVE Carried(req[r]) \in Nat
  <2>1. CASE r \notin DOMAIN scenario.requests
    <3>1. req[r] = NewRequest
      BY <2>1 DEF EmbedInv, RequestsInv
    <3> QED
      BY <3>1, TokensEmpty DEF Carried, NewRequest
  <2>2. CASE r \in DOMAIN scenario.requests
    <3>1. /\ req[r].got \in Seq(Answers(DOMAIN paid))
          /\ req[r].pc = "store" => req[r].answer \in Answers(DOMAIN paid)
      BY <2>2, RequestFacts DEF Fits, Answering
    <3>2. \A a \in Answers(DOMAIN paid) : Reported(a) \in Nat
      BY DEF Answers, Embed!Answered, Reported
    <3>3. Tokens(req[r].got) \in Nat
      <4>1. req[r].got = <<>> \/ Answers(DOMAIN paid) # {}
        BY <3>1, EmptySeq
      <4>2. CASE req[r].got = <<>>
        BY <4>2, TokensEmpty
      <4>3. CASE Answers(DOMAIN paid) # {}
        BY <3>1, <4>3, TokensAppend
      <4> QED
        BY <4>1, <4>2, <4>3
    <3> QED
      BY <3>1, <3>2, <3>3 DEF Carried
  <2> QED
    BY <2>1, <2>2
<1> QED
  BY <1>1

\* What is stored of a request can be counted; it is as many documents as texts
\* where it is all of it.
LEMMA DocsCounted ==
    ASSUME EmbedInv, PlacedInv, NEW r \in Requests
    PROVE  /\ Len(docs[r]) \in Nat
           /\ r \in DOMAIN scenario.requests /\ docs[r] = AllDocuments(Texts(r)) =>
                Len(docs[r]) = Len(Texts(r))
<1>1. CASE r \notin DOMAIN scenario.requests
  <2>1. docs[r] = <<>>
    BY <1>1 DEF PlacedInv
  <2> QED
    BY <1>1, <2>1
<1>2. CASE r \in DOMAIN scenario.requests
  <2>1. /\ docs[r] \in Prefixes(Texts(r))
        /\ Len(Texts(r)) \in Nat /\ DOMAIN Texts(r) = 1 .. Len(Texts(r))
    BY <1>2, RequestFacts, PlacingFacts DEF Placing
  <2> QED
    BY <2>1, PrefixFacts
<1> QED
  BY <1>1, <1>2

\* What a counted request left in the collection is not in the log only: a recovery
\* brings nothing back for it.
LEMMA OpensKeeps ==
    ASSUME EmbedInv, PlacedInv, Opens, NEW x \in Counted
    PROVE  docs'[x] = docs[x]
<1>1. x \in Requests /\ Told(req[x])
  BY DEF Counted
<1>2. logged[x] = <<>>
  <2>1. CASE x \notin DOMAIN scenario.requests
    BY <1>1, <2>1 DEF PlacedInv
  <2>2. CASE x \in DOMAIN scenario.requests
    <3>1. /\ logged[x] # <<>> => req[x].result \in {"refused", "failed", "lost"}
          /\ req[x].pc # "done" => req[x].result = None
          /\ None \notin {"ok", "refused", "failed", "lost"}
      BY <2>2, PlacingFacts DEF Placing
    <3> QED
      BY <1>1, <3>1 DEF Told
  <2> QED
    BY <2>1, <2>2
<1>3. Recovered[x] = docs[x]
  BY <1>1, <1>2 DEF Recovered
<1> HIDE DEF Recovered
<1> QED
  BY <1>3 DEF Opens

\* What a request loses of what it carries is counted, or what it gains billed.
LEMMA CarryStep ==
    ASSUME EmbedInv, TokensInv, NEW r \in Requests, NEW q,
           req' = [req EXCEPT ![r] = q], Carried(q) \in Nat,
           metrics'.tokens \in Nat, billed' \in Nat,
           metrics'.tokens + Carried(q) - billed' <= metrics.tokens + Carried(req[r]) - billed
    PROVE  TokensInv'
<1> DEFINE f == [x \in Requests |-> Carried(req[x])]
           h == [x \in Requests |-> Carried(req'[x])]
<1>1. IsFiniteSet(Requests)
  BY ConstantsAssumption
<1>2. req = [x \in Requests |-> req[x]]
  BY DEF EmbedInv, CallsInv
<1>3. req'[r] = q /\ \A x \in Requests \ {r} : req'[x] = req[x]
  BY <1>2
<1>4. \A x \in Requests : f[x] \in Nat /\ h[x] \in Nat
  <2>1. \A x \in Requests : Carried(req[x]) \in Nat
    BY CarriedType
  <2> QED
    BY <1>3, <2>1
<1>5. /\ f[r] = Carried(req[r]) /\ h[r] = Carried(q)
      /\ \A x \in Requests \ {r} : h[x] = f[x]
  BY <1>3
<1>6. Carrying = f /\ Carrying' = h
  BY DEF Carrying, Carried
<1> HIDE DEF f, h
<1>7. \A x \in Requests : f[x] \in Int /\ h[x] \in Int
  BY <1>4
<1>8. /\ Total(h, Requests) = Total(f, Requests) + (h[r] - f[r])
      /\ Total(h, Requests) \in Int /\ Total(f, Requests) \in Int
  <2>1. \A x \in Requests \ {r} : h[x] = f[x]
    BY <1>5
  <2> QED
    BY <1>1, <1>7, <2>1, TotalChange, SMTT(30)
<1>9. /\ metrics.tokens \in Nat /\ billed \in Nat /\ h[r] \in Int /\ f[r] \in Int
      /\ metrics.tokens + Total(f, Requests) <= billed
  BY <1>6, <1>7 DEF TokensInv
<1>10. metrics'.tokens + h[r] - billed' <= metrics.tokens + f[r] - billed
  BY <1>5
<1>11. metrics'.tokens + Total(h, Requests) <= billed'
  BY <1>8, <1>9, <1>10
<1> QED
  BY <1>6, <1>11 DEF TokensInv

\* A step after which the same requests are counted as before it.
LEMMA QuietCounts ==
    ASSUME EmbedInv, PlacedInv, CountsInv, NEW r \in Requests, NEW q,
           req' = [req EXCEPT ![r] = q], Told(q) <=> Told(req[r]),
           UNCHANGED <<scenario, earlier, metrics>>,
           \A x \in Counted : docs'[x] = docs[x]
    PROVE  CountsInv'
<1>1. req'[r] = q /\ \A x \in Requests \ {r} : req'[x] = req[x]
  BY DEF EmbedInv, CallsInv
<1>2. Counted' = Counted
  <2>1. \A x \in Requests : Told(req'[x]) <=> Told(req[x])
    BY <1>1
  <2> QED
    BY <2>1 DEF Counted, Told
<1>3. Searches' = Searches
  BY <1>2 DEF Searches, Form
<1> DEFINE set == Counted \ Searches
<1>4. set \subseteq Requests /\ \A x \in set : docs'[x] = docs[x]
  BY DEF Counted
<1> HIDE DEF set
<1>5. IsFiniteSet(set)
  BY <1>4, ConstantsAssumption, FS_Subset
<1>6. \A x \in set : Lengths[x] \in Int /\ Lengths'[x] = Lengths[x]
  <2>1. SUFFICES ASSUME NEW x \in set
                 PROVE  Lengths[x] \in Int /\ Lengths'[x] = Lengths[x]
    OBVIOUS
  <2>2. x \in Requests /\ docs'[x] = docs[x] /\ Len(docs[x]) \in Nat
    BY <1>4, DocsCounted
  <2>3. Lengths' = [y \in Requests |-> Len(docs'[y])]
    BY DEF Lengths
  <2>4. Lengths[x] = Len(docs[x]) /\ Lengths'[x] = Len(docs'[x])
    BY <2>2, <2>3, Zenon DEF Lengths
  <2> QED
    BY <2>2, <2>4
<1>7. Total(Lengths', set) = Total(Lengths, set)
  BY <1>5, <1>6, TotalSame
<1>8. Total(Lengths', Counted' \ Searches') = Total(Lengths, Counted \ Searches)
  BY <1>2, <1>3, <1>7 DEF set
<1> QED
  BY <1>2, <1>3, <1>8 DEF CountsInv

\* A request is counted: its documents, or its search.
LEMMA CountStep ==
    ASSUME EmbedInv, PlacedInv, CountsInv, NEW r \in DOMAIN scenario.requests, NEW q,
           req'[r] = q, \A x \in Requests \ {r} : req'[x] = req[x],
           UNCHANGED <<scenario, earlier, docs>>,
           req[r].pc = "record", ~Told(req[r]), Told(q),
           metrics'.requests = metrics.requests + 1,
           metrics'.texts = metrics.texts + Len(Texts(r))
    PROVE  CountsInv'
<1>1. IsFiniteSet(Requests) /\ r \in Requests /\ r \notin earlier
  BY ConstantsAssumption, PlacingFacts
<1>2. Counted' = Counted \union {r} /\ r \notin Counted
  <2>1. \A x \in Requests : Told(req'[x]) <=> x = r \/ Told(req[x])
    BY <1>1
  <2> QED
    BY <1>1, <2>1 DEF Counted, Told
<1>3. Searches' = IF Form(r) = "search" THEN Searches \union {r} ELSE Searches
  BY <1>2 DEF Searches, Form
<1> DEFINE before == Counted \ Searches
           after == Counted' \ Searches'
<1>4. /\ Counted \subseteq Requests /\ Searches \subseteq Requests /\ r \notin Searches
      /\ before \subseteq Requests /\ r \notin before
      /\ after = IF Form(r) = "search" THEN before ELSE before \union {r}
  BY <1>2, <1>3 DEF Counted, Searches
<1> HIDE DEF before, after
<1>5. IsFiniteSet(Counted) /\ IsFiniteSet(Searches) /\ IsFiniteSet(before)
  BY <1>1, <1>4, FS_Subset
<1>6. /\ Cardinality(Counted \union {r}) = Cardinality(Counted) + 1
      /\ Cardinality(Searches \union {r}) = Cardinality(Searches) + 1
      /\ Cardinality(Counted) \in Nat /\ Cardinality(Searches) \in Nat
  BY <1>2, <1>4, <1>5, FS_AddElement, FS_CardinalityType
<1>7. \A x \in Requests : Lengths[x] \in Int
  <2>1. \A x \in Requests : Len(docs[x]) \in Nat
    BY DocsCounted
  <2> QED
    BY <2>1 DEF Lengths
<1>8. Lengths' = Lengths /\ Lengths[r] = Len(docs[r]) /\ Total(Lengths, before) \in Int
  <2>1. Total(Lengths, before) \in Int
    BY <1>4, <1>5, <1>7, TotalType
  <2> QED
    BY <1>1, <2>1 DEF Lengths
<1>9. /\ metrics.requests = Cardinality(Counted)
      /\ metrics.texts = Cardinality(Searches) + Total(Lengths, before)
  BY DEF CountsInv, before
<1>10. metrics'.requests = Cardinality(Counted')
  BY <1>2, <1>6, <1>9
<1>11. metrics'.texts = Cardinality(Searches') + Total(Lengths, after)
  <2>1. CASE Form(r) = "search"
    <3>1. Len(Texts(r)) = 1
      BY <2>1, RequestFacts
    <3>2. metrics'.texts = metrics.texts + 1
      BY <3>1
    <3>3. Searches' = Searches \union {r} /\ after = before
      BY <1>3, <1>4, <2>1, Zenon
    <3> QED
      BY <1>6, <1>8, <1>9, <3>2, <3>3
  <2>2. CASE Form(r) # "search"
    <3>1. docs[r] = AllDocuments(Texts(r))
      BY <2>2, PlacingFacts DEF Placing, Storing
    <3>2. Len(docs[r]) = Len(Texts(r)) /\ Len(docs[r]) \in Nat
      BY <1>1, <3>1, DocsCounted
    <3>3. Searches' = Searches /\ after = before \union {r}
      BY <1>3, <1>4, <2>2, Zenon
    <3>4. Total(Lengths, after) = Len(docs[r]) + Total(Lengths, before)
      <4>1. IsFiniteSet(after) /\ r \in after /\ after \ {r} = before /\ after \subseteq Requests
        BY <1>1, <1>4, <1>5, <3>3, FS_AddElement
      <4>2. \A x \in after : Lengths[x] \in Int
        BY <1>7, <4>1
      <4>3. ASSUME NEW f, \A x \in after : f[x] \in Int
            PROVE  Total(f, after) = f[r] + Total(f, after \ {r})
        BY <4>1, <4>3, TotalRemove
      <4>4. Total(Lengths, after) = Lengths[r] + Total(Lengths, after \ {r})
        BY <4>2, <4>3, Zenon
      <4> QED
        BY <1>8, <4>1, <4>4, Zenon
    <3>5. metrics'.texts = metrics.texts + Len(docs[r])
      BY <3>2
    <3> QED
      BY <1>6, <1>8, <1>9, <3>2, <3>3, <3>4, <3>5
  <2> QED
    BY <2>1, <2>2
<1> QED
  BY <1>8, <1>10, <1>11 DEF CountsInv, after

\* A step of a request that the metrics know nothing of.
LEMMA MoveStep ==
    ASSUME EmbedInv, PlacedInv, MetricsInv, NEW r \in DOMAIN scenario.requests, NEW q,
           req' = [req EXCEPT ![r] = q], UNCHANGED <<running, scenario, earlier, metrics>>,
           req[r].pc \notin {"search", "done"}, ~Told(q),
           \A x \in Counted : docs'[x] = docs[x],
           Carried(q) \in Nat, billed' \in Nat,
           Carried(q) - billed' <= Carried(req[r]) - billed
    PROVE  MetricsInv'
<1>1. r \in Requests
  BY RequestFacts
<1>2. ~Told(req[r])
  <2>1. req[r].result = None /\ None \notin {"ok", "invalid query", "search failed"}
    BY PlacingFacts, NoneAssumption DEF Refusals
  <2> QED
    BY <2>1 DEF Told
<1>3. TokensInv'
  <2>1. metrics' = metrics /\ metrics.tokens \in Nat /\ billed \in Nat /\ Carried(req[r]) \in Nat
    BY <1>1, CarriedType DEF MetricsInv, TokensInv
  <2>2. metrics'.tokens + Carried(q) - billed' <= metrics.tokens + Carried(req[r]) - billed
    BY <2>1
  <2> QED
    BY <1>1, <2>1, <2>2, CarryStep DEF MetricsInv
<1>4. running => CountsInv'
  BY <1>1, <1>2, QuietCounts DEF MetricsInv
<1> QED
  BY <1>3, <1>4 DEF MetricsInv

\* What a request carries, by where it is.
LEMMA CarriedFacts ==
    ASSUME NEW q
    PROVE  /\ q.pc \in {"search", "done"} => Carried(q) = 0
           /\ q.pc = "store" => Carried(q) = Tokens(q.got) + Reported(q.answer)
           /\ q.pc \notin {"search", "done", "store"} /\ Tokens(q.got) \in Int =>
                Carried(q) = Tokens(q.got)
BY DEF Carried

\* The request that takes a step.
LEMMA GotFacts ==
    ASSUME EmbedInv, NEW r \in DOMAIN scenario.requests
    PROVE  /\ r \in Requests /\ RequestInv(req[r])
           /\ req[r].got \in Seq(Answers(DOMAIN paid))
           /\ Tokens(req[r].got) \in Nat /\ Tokens(req[r].got) \in Int
           /\ req[r].pc # "done" => req[r].result = None
           /\ None \notin {"ok", "invalid query", "search failed"}
           /\ req[r].pc = "store" =>
                /\ req[r].answer \in Answers(DOMAIN paid)
                /\ Reported(req[r].answer) \in Nat
<1>1. /\ r \in Requests /\ RequestInv(req[r])
      /\ req[r].got \in Seq(Answers(DOMAIN paid))
      /\ req[r].pc # "done" => req[r].result = None
      /\ req[r].pc = "store" => req[r].answer \in Answers(DOMAIN paid)
  BY RequestFacts DEF Fits, Answering, Timed
<1>2. \A a \in Answers(DOMAIN paid) : Reported(a) \in Nat
  BY DEF Answers, Embed!Answered, Reported
<1>3. Tokens(req[r].got) \in Nat
  <2>1. CASE req[r].got = <<>>
    BY <2>1, TokensEmpty
  <2>2. CASE req[r].got # <<>>
    <3>1. PICK a \in Answers(DOMAIN paid) : TRUE
      BY <1>1, <2>2, EmptySeq
    <3> QED
      BY <1>1, <3>1, TokensAppend
  <2> QED
    BY <2>1, <2>2
<1>4. Tokens(req[r].got) \in Int
  BY <1>3
<1>5. None \notin {"ok", "invalid query", "search failed"}
  BY NoneAssumption DEF Refusals
<1> QED
  BY <1>1, <1>2, <1>3, <1>4, <1>5, Zenon

\* The sums of the two lemmas where a request ends.
LEMMA Fewer ==
    /\ \A a, b \in Nat : 0 \in Nat /\ 0 - b <= a - b
    /\ \A a, b, c \in Nat : c + a \in Nat /\ (c + a) + 0 - b <= c + a - b
OBVIOUS

\* A request ends without being counted.
LEMMA EndStep ==
    ASSUME EmbedInv, PlacedInv, MetricsInv, NEW r \in DOMAIN scenario.requests, NEW result,
           result \notin {"ok", "invalid query", "search failed"},
           req' = [req EXCEPT ![r] = Done(r, result)],
           UNCHANGED <<running, scenario, earlier, metrics, billed>>,
           \A x \in Counted : docs'[x] = docs[x],
           req[r].pc # "search", req[r].pc # "done"
    PROVE  MetricsInv'
<1> DEFINE q == Done(r, result)
<1>1. r \in Requests /\ RequestInv(req[r])
  BY GotFacts
<1>2. q.pc = "done" /\ q.result = result
  BY <1>1 DEF RequestInv, Fields, Done
<1>3. req' = [req EXCEPT ![r] = q]
  OBVIOUS
<1> HIDE DEF q
<1>4. ~Told(q) /\ Carried(q) = 0
  BY <1>2, CarriedFacts DEF Told
<1>5. Carried(req[r]) \in Nat /\ billed \in Nat /\ billed' = billed
  BY <1>1, CarriedType DEF MetricsInv, TokensInv
<1>6. Carried(q) \in Nat /\ Carried(q) - billed' <= Carried(req[r]) - billed
  BY <1>4, <1>5, Fewer, Zenon
<1> QED
  BY <1>3, <1>4, <1>5, <1>6, MoveStep

\* A request goes on with the answers that it has.
LEMMA GoOnStep ==
    ASSUME EmbedInv, PlacedInv, MetricsInv, NEW r \in DOMAIN scenario.requests, NEW q,
           q.got = req[r].got, q.result = req[r].result,
           q.pc \notin {"store", "search", "done"}, req[r].pc \notin {"store", "search", "done"},
           req' = [req EXCEPT ![r] = q],
           UNCHANGED <<running, scenario, earlier, metrics, billed>>,
           \A x \in Counted : docs'[x] = docs[x]
    PROVE  MetricsInv'
<1>1. Tokens(q.got) \in Nat /\ Tokens(q.got) \in Int /\ ~Told(q)
  <2>1. Tokens(req[r].got) \in Nat /\ req[r].result = None
    BY GotFacts
  <2>2. ~Told(q)
    BY <2>1, GotFacts DEF Told
  <2> QED
    BY <2>1, <2>2
<1>2. Carried(q) = Tokens(q.got) /\ Carried(req[r]) = Tokens(q.got)
  BY <1>1, CarriedFacts
<1>3. billed \in Nat /\ billed' = billed
  BY DEF MetricsInv, TokensInv
<1>4. Carried(q) \in Nat /\ Carried(q) - billed' <= Carried(req[r]) - billed
  BY <1>1, <1>2, <1>3
<1> QED
  BY <1>1, <1>3, <1>4, MoveStep

\* A request goes on with one more answer, which is a hit or was billed.
LEMMA EmbeddedStep ==
    ASSUME EmbedInv, PlacedInv, MetricsInv, NEW r \in DOMAIN scenario.requests,
           req[r].pc = "lookup" \/ req[r].pc = "store",
           NEW answer \in Answers(DOMAIN paid),
           req' = [req EXCEPT ![r] = Embedded(r, answer)],
           UNCHANGED <<running, scenario, earlier, metrics, docs, billed>>,
           Carried(req[r]) = Tokens(req[r].got) + Reported(answer)
    PROVE  MetricsInv'
<1> DEFINE q == Embedded(r, answer)
           got == Append(req[r].got, answer)
<1>1. req[r].got \in Seq(Answers(DOMAIN paid))
  BY GotFacts
<1>2. q.got = got /\ q.result = None /\ q.pc \notin {"store", "search", "done"}
  BY DEF Embedded, NewRequest
<1>3. /\ Tokens(req[r].got) \in Nat /\ Reported(answer) \in Nat
      /\ Tokens(got) = Tokens(req[r].got) + Reported(answer)
  BY <1>1, TokensAppend
<1>4. Tokens(got) \in Nat /\ Tokens(got) \in Int
  BY <1>3
<1>5. req' = [req EXCEPT ![r] = q]
  OBVIOUS
<1> HIDE DEF q, got
<1>6. ~Told(q)
  BY <1>2, GotFacts DEF Told
<1>7. Carried(q) = Tokens(got) /\ Carried(req[r]) = Tokens(got)
  <2>1. Carried(q) = Tokens(got)
    BY <1>2, <1>4, CarriedFacts
  <2> QED
    BY <1>3, <2>1, Zenon
<1>8. billed \in Nat /\ billed' = billed
  BY DEF MetricsInv, TokensInv
<1>9. Carried(q) \in Nat /\ Carried(q) - billed' <= Carried(req[r]) - billed
  <2>1. \A a, b \in Nat : a - b <= a - b
    OBVIOUS
  <2> QED
    BY <1>4, <1>7, <1>8, <2>1, Zenon
<1>10. req[r].pc \notin {"search", "done"} /\ \A x \in Counted : docs'[x] = docs[x]
  OBVIOUS
<1> QED
  BY <1>5, <1>6, <1>8, <1>9, <1>10, MoveStep

\* A hit reports nothing.
LEMMA LookupHitsMetrics ==
    ASSUME EmbedInv, PlacedInv, MetricsInv, NEW r \in DOMAIN scenario.requests, LookupHits(r)
    PROVE  MetricsInv'
<1> DEFINE answer == Embed!Hit(cache, Text(r))
<1>1. /\ req[r].pc = "lookup" /\ Text(r) \in Embed!Keys(cache)
      /\ req' = [req EXCEPT ![r] = Embedded(r, answer)]
      /\ UNCHANGED <<running, scenario, earlier, metrics, docs, billed>>
  BY DEF LookupHits, process, stored, history
<1>2. cache \in Seq(Entries(DOMAIN paid)) /\ Distinct(cache)
  BY DEF EmbedInv, CacheInv
<1>3. Embed!Entry(cache, Text(r)) \in Entries(DOMAIN paid)
  BY <1>1, <1>2, TouchFacts
<1>4. answer \in Answers(DOMAIN paid) /\ Reported(answer) = 0
  BY <1>3 DEF Entries, Answers, Embed!Hit, Embed!Answered, Reported
<1> HIDE DEF answer
<1>5. Carried(req[r]) = Tokens(req[r].got) + Reported(answer)
  <2>1. Tokens(req[r].got) \in Nat /\ Tokens(req[r].got) \in Int
    BY GotFacts
  <2>2. Carried(req[r]) = Tokens(req[r].got)
    BY <1>1, <2>1, CarriedFacts
  <2> QED
    BY <1>4, <2>1, <2>2
<1> QED
  BY <1>1, <1>4, <1>5, EmbeddedStep

\* What was billed is carried on.
LEMMA StoreMetrics ==
    ASSUME EmbedInv, PlacedInv, MetricsInv, NEW r \in DOMAIN scenario.requests, Store(r)
    PROVE  MetricsInv'
<1>1. /\ req[r].pc = "store"
      /\ req' = [req EXCEPT ![r] = Embedded(r, req[r].answer)]
      /\ UNCHANGED <<running, scenario, earlier, metrics, docs, billed>>
  BY DEF Store, process, stored
<1>2. req[r].answer \in Answers(DOMAIN paid)
  BY <1>1, GotFacts
<1>3. Carried(req[r]) = Tokens(req[r].got) + Reported(req[r].answer)
  BY <1>1, CarriedFacts
<1> QED
  BY <1>1, <1>2, <1>3, EmbeddedStep

\* An error ends the request or makes it wait.
LEMMA ErrorMetrics ==
    ASSUME EmbedInv, PlacedInv, MetricsInv, NEW r \in DOMAIN scenario.requests, req[r].pc = "calling",
           NEW error \in ProviderErrors, req' = [req EXCEPT ![r] = AfterError(r, error)],
           UNCHANGED <<running, scenario, earlier, metrics, docs, billed>>
    PROVE  MetricsInv'
<1>1. r \in Requests /\ RequestInv(req[r])
  BY GotFacts
<1>2. CASE AfterError(r, error) = Done(r, error)
  <2>1. error \notin {"ok", "invalid query", "search failed"}
    BY DEF ProviderErrors
  <2> QED
    BY <1>2, <2>1, EndStep
<1>3. CASE AfterError(r, error) # Done(r, error)
  <2> DEFINE q == AfterError(r, error)
  <2>1. q.got = req[r].got /\ q.result = req[r].result /\ q.pc = "waiting"
    BY <1>1, <1>3 DEF RequestInv, Fields, AfterError
  <2>2. req' = [req EXCEPT ![r] = q]
    OBVIOUS
  <2> HIDE DEF q
  <2> QED
    BY <2>1, <2>2, GoOnStep
<1> QED
  BY <1>2, <1>3

\* What an answer reports is billed and carried.
LEMMA ReplyMetrics ==
    ASSUME EmbedInv, PlacedInv, MetricsInv, NEW r \in DOMAIN scenario.requests, Reply(r)
    PROVE  MetricsInv'
<1>1. /\ req[r].pc = "calling" /\ UNCHANGED <<running, scenario, earlier, metrics, docs>>
  BY DEF Reply, process, stored
<1>2. PICK answer \in Embed!ProviderEmbed(env.EMBEDDING_PROVIDER, Text(r)) :
        IF answer.error # None
        THEN /\ req' = [req EXCEPT ![r] = AfterError(r, answer.error)]
             /\ UNCHANGED billed
        ELSE /\ req' = [req EXCEPT ![r].pc = "store", ![r].answer = answer]
             /\ billed' = billed + Reported(answer)
  BY DEF Reply
<1>3. /\ answer.error # None => answer.error \in ProviderErrors
      /\ answer.error = None => answer \in Answers(DOMAIN paid)
  BY <1>1, ProviderFacts
<1>4. CASE answer.error # None
  BY <1>1, <1>2, <1>3, <1>4, ErrorMetrics
<1>5. CASE answer.error = None
  <2> DEFINE q == [req[r] EXCEPT !.pc = "store", !.answer = answer]
  <2>1. r \in Requests /\ RequestInv(req[r]) /\ req[r].result = None
    BY <1>1, GotFacts
  <2>2. req' = [req EXCEPT ![r] = q] /\ billed' = billed + Reported(answer)
    BY <1>2, <1>5, <2>1 DEF EmbedInv, CallsInv
  <2>3. q.got = req[r].got /\ q.result = None /\ q.pc = "store" /\ q.answer = answer
    BY <2>1 DEF RequestInv, Fields
  <2> HIDE DEF q
  <2>4. Tokens(q.got) \in Nat /\ Tokens(q.got) \in Int /\ Reported(answer) \in Nat
    <3>1. \A a \in Answers(DOMAIN paid) : Reported(a) \in Nat
      BY DEF Answers, Embed!Answered, Reported
    <3>2. Tokens(req[r].got) \in Nat /\ Tokens(req[r].got) \in Int
      BY GotFacts
    <3> QED
      BY <1>3, <1>5, <2>3, <3>1, <3>2, Zenon
  <2>5. /\ Carried(q) = Tokens(q.got) + Reported(answer)
        /\ Carried(req[r]) = Tokens(q.got)
    BY <1>1, <2>3, <2>4, CarriedFacts
  <2>6. billed \in Nat
    BY DEF MetricsInv, TokensInv
  <2>7. /\ Carried(q) \in Nat /\ billed' \in Nat
        /\ Carried(q) - billed' <= Carried(req[r]) - billed
    BY <2>2, <2>4, <2>5, <2>6
  <2>8. ~Told(q) /\ docs' = docs
    BY <1>1, <2>3, GotFacts DEF Told
  <2> QED
    BY <1>1, <2>2, <2>7, <2>8, MoveStep
<1> QED
  BY <1>4, <1>5

\* What an insertion stores is not counted yet, nor what it logs.
LEMMA InsertMetrics ==
    ASSUME EmbedInv, PlacedInv, MetricsInv, NEW r \in DOMAIN scenario.requests, Insert(r)
    PROVE  MetricsInv'
<1>1. /\ req[r].pc = "insert" /\ UNCHANGED <<running, scenario, earlier, metrics, billed>>
      /\ RequestInv(req[r]) /\ docs = [x \in Requests |-> docs[x]] /\ r \in Requests
  BY GotFacts DEF Insert, process, history, PlacedInv
<1>2. r \notin Counted
  BY <1>1, GotFacts DEF Counted, Told
<1>3. \A x \in Counted : docs'[x] = docs[x]
  <2>1. docs' = docs \/ docs' = [docs EXCEPT ![r] = Documents(r)]
    BY DEF Insert, StoresAll, StoresNone, Exceeds
  <2>2. \A x \in Counted : x \in Requests \ {r}
    BY <1>2 DEF Counted
  <2> QED
    BY <1>1, <2>1, <2>2
<1>4. ASSUME NEW result \in {"failed", "refused"}, Ends(r, result) PROVE MetricsInv'
  BY <1>1, <1>3, <1>4, EndStep DEF Ends
<1>5. CASE req' = [req EXCEPT ![r].pc = "budget"]
  <2> DEFINE q == [req[r] EXCEPT !.pc = "budget"]
  <2>1. req' = [req EXCEPT ![r] = q]
    BY <1>5
  <2>2. q.got = req[r].got /\ q.result = req[r].result /\ q.pc = "budget"
    BY <1>1 DEF RequestInv, Fields
  <2> HIDE DEF q
  <2> QED
    BY <1>1, <1>3, <2>1, <2>2, GoOnStep
<1> QED
  BY <1>4, <1>5 DEF Insert, StoresAll, StoresNone, Exceeds, Ends

\* Nor while it waits.
LEMMA BudgetMetrics ==
    ASSUME EmbedInv, PlacedInv, MetricsInv, NEW r \in DOMAIN scenario.requests, Budget(r)
    PROVE  MetricsInv'
<1>1. /\ req[r].pc = "budget" /\ RequestInv(req[r])
      /\ UNCHANGED <<running, scenario, earlier, metrics, docs, billed>>
  BY GotFacts DEF Budget, process, stored, history
<1>2. PICK pc \in {"stuck", "record"} : req' = [req EXCEPT ![r].pc = pc]
  BY DEF Budget
<1> DEFINE q == [req[r] EXCEPT !.pc = pc]
<1>3. q.got = req[r].got /\ q.result = req[r].result /\ q.pc = pc
  BY <1>1 DEF RequestInv, Fields
<1>4. req' = [req EXCEPT ![r] = q]
  BY <1>2
<1> HIDE DEF q
<1> QED
  BY <1>1, <1>3, <1>4, GoOnStep

\* What the request carried is counted.
LEMMA RecordMetrics ==
    ASSUME EmbedInv, PlacedInv, MetricsInv, NEW r \in DOMAIN scenario.requests, Record(r)
    PROVE  MetricsInv'
<1>1. /\ req[r].pc = "record" /\ UNCHANGED <<running, scenario, earlier, docs, billed>>
      /\ metrics' = [requests |-> metrics.requests + 1,
                     texts |-> metrics.texts + Len(req[r].got),
                     tokens |-> metrics.tokens + Tokens(req[r].got)]
  BY DEF Record, process, stored, history
<1>2. r \in Requests /\ RequestInv(req[r]) /\ req = [x \in Requests |-> req[x]]
  BY GotFacts DEF EmbedInv, CallsInv
<1>3. PICK q : /\ req' = [req EXCEPT ![r] = q] /\ q.pc \in {"search", "done"}
               /\ q.pc = "search" \/ q.result \in {"ok", "invalid query"}
  <2>1. CASE req' = [req EXCEPT ![r].pc = "search"]
    <3>1. req' = [req EXCEPT ![r] = [req[r] EXCEPT !.pc = "search"]]
      BY <2>1
    <3>2. [req[r] EXCEPT !.pc = "search"].pc = "search"
      BY <1>2 DEF RequestInv, Fields
    <3> QED
      BY <3>1, <3>2
  <2>2. ASSUME NEW result \in {"ok", "invalid query"}, req' = [req EXCEPT ![r] = Done(r, result)]
        PROVE  \E q : /\ req' = [req EXCEPT ![r] = q] /\ q.pc \in {"search", "done"}
                      /\ q.pc = "search" \/ q.result \in {"ok", "invalid query"}
    <3>1. Done(r, result).pc = "done" /\ Done(r, result).result = result
      BY <1>2 DEF RequestInv, Fields, Done
    <3> QED
      BY <2>2, <3>1
  <2> QED
    BY <2>1, <2>2 DEF Record, Ends
<1>4. req'[r] = q /\ \A x \in Requests \ {r} : req'[x] = req[x]
  BY <1>2, <1>3
<1>5. Told(q)
  BY <1>3 DEF Told
<1>6. ~Told(req[r])
  BY <1>1, GotFacts DEF Told
<1>7. Len(req[r].got) = Len(Texts(r))
  BY <1>1, RequestFacts DEF Fits, Answering, Texts, Served
<1>8. ASSUME running PROVE CountsInv'
  <2>1. CountsInv
    BY <1>8 DEF MetricsInv
  <2>2. /\ metrics'.requests = metrics.requests + 1
        /\ metrics'.texts = metrics.texts + Len(Texts(r))
    BY <1>1, <1>7
  <2> QED
    BY <1>1, <1>4, <1>5, <1>6, <2>1, <2>2, CountStep
<1>9. TokensInv'
  <2>1. /\ metrics.tokens \in Nat /\ billed \in Nat /\ Tokens(req[r].got) \in Nat
        /\ Tokens(req[r].got) \in Int /\ billed' = billed
        /\ metrics'.tokens = metrics.tokens + Tokens(req[r].got)
    BY <1>1, GotFacts DEF MetricsInv, TokensInv
  <2>2. Carried(q) = 0
    BY <1>3, CarriedFacts
  <2>3. Carried(req[r]) = Tokens(req[r].got)
    BY <1>1, <2>1, CarriedFacts
  <2>4. /\ metrics'.tokens \in Nat /\ billed' \in Nat /\ Carried(q) \in Nat
        /\ metrics'.tokens + Carried(q) - billed' <= metrics.tokens + Carried(req[r]) - billed
    BY <2>1, <2>2, <2>3, Fewer, Zenon
  <2> QED
    BY <1>2, <1>3, <2>4, CarryStep DEF MetricsInv
<1>10. running' = running
  BY <1>1
<1> QED
  BY <1>8, <1>9, <1>10 DEF MetricsInv

\* Where nothing is carried nothing is owed.
LEMMA SameBalance ==
    ASSUME NEW a \in Nat, NEW b \in Nat
    PROVE  0 \in Nat /\ a + 0 - b <= a + 0 - b
<1>1. a + 0 = a
  OBVIOUS
<1>2. a - b \in Int
  OBVIOUS
<1>3. \A n \in Int : n <= n
  OBVIOUS
<1> QED
  BY <1>1, <1>2, <1>3

\* A search was counted before.
LEMMA SearchMetrics ==
    ASSUME EmbedInv, PlacedInv, MetricsInv, NEW r \in DOMAIN scenario.requests, Search(r)
    PROVE  MetricsInv'
<1>1. /\ req[r].pc = "search" /\ UNCHANGED <<running, scenario, earlier, metrics, docs, billed>>
      /\ r \in Requests /\ RequestInv(req[r])
  BY GotFacts DEF Search, process, stored, history
<1>2. PICK result \in {"ok", "invalid query", "search failed"} :
        req' = [req EXCEPT ![r] = Done(r, result)]
  BY DEF Search, Ends
<1> DEFINE q == Done(r, result)
<1>3. q.pc = "done" /\ q.result = result /\ req' = [req EXCEPT ![r] = q]
  BY <1>1, <1>2 DEF RequestInv, Fields, Done
<1> HIDE DEF q
<1>4. Told(q) /\ Told(req[r])
  BY <1>1, <1>3 DEF Told
<1>5. running => CountsInv'
  BY <1>1, <1>3, <1>4, QuietCounts DEF MetricsInv
<1>6. TokensInv'
  <2>1. Carried(q) = 0 /\ Carried(req[r]) = 0
    BY <1>1, <1>3, CarriedFacts
  <2>2. metrics.tokens \in Nat /\ billed \in Nat /\ metrics' = metrics /\ billed' = billed
    BY <1>1 DEF MetricsInv, TokensInv
  <2>3. /\ metrics'.tokens \in Nat /\ billed' \in Nat /\ Carried(q) \in Nat
        /\ metrics'.tokens + Carried(q) - billed' <= metrics.tokens + Carried(req[r]) - billed
    BY <2>1, <2>2, SameBalance, Zenon
  <2> QED
    BY <1>1, <1>3, <2>3, CarryStep DEF MetricsInv
<1> QED
  BY <1>1, <1>5, <1>6 DEF MetricsInv

\* A process that starts has counted nothing, and no request is on its way.
LEMMA StartMetrics ==
    ASSUME EmbedInv, PlacedInv, MetricsInv, Start
    PROVE  MetricsInv'
<1>1. /\ ~running /\ metrics' = NoMetrics /\ UNCHANGED <<scenario, docs, req, billed>>
      /\ earlier' = {r \in Requests : req[r].pc = "done"}
  BY DEF Start
<1>2. ASSUME NEW r \in Requests, req[r].pc # "done"
      PROVE  ~Told(req[r])
  <2>1. req[r].pc = "new"
    BY <1>1, <1>2 DEF EmbedInv, ProcessInv, Active
  <2>2. CASE r \in DOMAIN scenario.requests
    BY <1>2, <2>1, <2>2, GotFacts DEF Told
  <2>3. CASE r \notin DOMAIN scenario.requests
    <3>1. req[r] = NewRequest
      BY <2>3 DEF EmbedInv, RequestsInv
    <3>2. NewRequest.pc = "new" /\ NewRequest.result = None
      BY DEF NewRequest
    <3>3. None \notin {"ok", "invalid query", "search failed"}
      BY NoneAssumption DEF Refusals
    <3> QED
      BY <3>1, <3>2, <3>3 DEF Told
  <2> QED
    BY <2>2, <2>3
<1>3. Counted' = {}
  BY <1>1, <1>2 DEF Counted, Told
<1>4. Searches' = {}
  BY <1>3 DEF Searches
<1>5. Total(Lengths', Counted' \ Searches') = 0
  <2>1. Counted' \ Searches' = {}
    BY <1>3
  <2>2. ASSUME NEW f PROVE Total(f, {}) = 0
    BY TotalEmpty
  <2> QED
    BY <2>1, <2>2, Zenon
<1>6. CountsInv'
  <2>1. metrics'.requests = 0 /\ metrics'.texts = 0
    BY <1>1 DEF NoMetrics
  <2>2. Cardinality({}) = 0
    BY FS_EmptySet
  <2> QED
    BY <1>3, <1>4, <1>5, <2>1, <2>2 DEF CountsInv
<1>7. TokensInv'
  <2>1. Carrying' = Carrying
    BY <1>1 DEF Carrying
  <2>2. metrics'.tokens = 0
    BY <1>1 DEF NoMetrics
  <2>3. Total(Carrying, Requests) \in Int
    <3>1. IsFiniteSet(Requests)
      BY ConstantsAssumption
    <3>2. \A r \in Requests : Carrying[r] \in Int
      BY CarriedType DEF Carrying
    <3> QED
      BY <3>1, <3>2, TotalType
  <2>4. metrics.tokens \in Nat /\ billed \in Nat
        /\ metrics.tokens + Total(Carrying, Requests) <= billed
    BY DEF MetricsInv, TokensInv
  <2>5. metrics'.tokens + Total(Carrying, Requests) <= billed
    BY <2>2, <2>3, <2>4
  <2> QED
    BY <1>1, <2>1, <2>2, <2>4, <2>5 DEF TokensInv
<1> QED
  BY <1>6, <1>7 DEF MetricsInv

\* What the lost requests carried is never counted.
LEMMA ReloadExitsMetrics ==
    ASSUME EmbedInv, PlacedInv, MetricsInv, ReloadExits
    PROVE  MetricsInv'
<1>1. /\ running' = FALSE /\ UNCHANGED <<metrics, billed, earlier>>
      /\ req' = [r \in Requests |-> IF Active(r) THEN Done(r, "lost") ELSE req[r]]
  BY DEF ReloadExits
<1> DEFINE h == [r \in Requests |-> Carried(req'[r])]
<1>2. Carrying' = h
  BY DEF Carrying, Carried
<1>3. \A r \in Requests : Carried(req[r]) \in Nat
  BY CarriedType
<1>4. \A r \in Requests : h[r] \in Nat /\ h[r] <= Carrying[r] /\ Carrying[r] \in Nat
  <2>1. SUFFICES ASSUME NEW r \in Requests
                 PROVE  Carried(req'[r]) \in Nat /\ Carried(req'[r]) <= Carried(req[r])
    BY <1>3 DEF Carrying
  <2>2. CASE Active(r)
    <3>1. req'[r].pc = "done"
      BY <1>1, <2>2 DEF Done, EmbedInv, CallsInv, RequestInv, Fields
    <3>2. Carried(req'[r]) = 0
      BY <3>1, CarriedFacts
    <3> QED
      BY <1>3, <3>2
  <2>3. CASE ~Active(r)
    <3>1. req'[r] = req[r]
      BY <1>1, <2>3
    <3>2. \A n \in Nat : n <= n
      OBVIOUS
    <3> QED
      BY <1>3, <3>1, <3>2, Zenon
  <2> QED
    BY <2>2, <2>3
<1> HIDE DEF h
<1>5. TokensInv'
  <2>1. IsFiniteSet(Requests)
    BY ConstantsAssumption
  <2>2. \A r \in Requests : h[r] \in Int /\ Carrying[r] \in Int /\ h[r] <= Carrying[r]
    BY <1>4
  <2>3. Total(h, Requests) <= Total(Carrying, Requests)
    BY <2>1, <2>2, TotalOrder
  <2>4. Total(h, Requests) \in Int /\ Total(Carrying, Requests) \in Int
    BY <2>1, <2>2, TotalType
  <2>5. metrics.tokens \in Nat /\ billed \in Nat
        /\ metrics.tokens + Total(Carrying, Requests) <= billed
    BY DEF MetricsInv, TokensInv
  <2>6. metrics.tokens + Total(h, Requests) <= billed
    BY <2>3, <2>4, <2>5
  <2> QED
    BY <1>1, <1>2, <2>5, <2>6 DEF TokensInv
<1> QED
  BY <1>1, <1>5 DEF MetricsInv

\* Initially there is nothing to count.
LEMMA InitMetrics == Init => MetricsInv
<1> SUFFICES ASSUME Init PROVE MetricsInv
  OBVIOUS
<1>1. /\ metrics.tokens = 0 /\ billed = 0 /\ ~running /\ earlier = {}
      /\ req = [r \in Requests |-> NewRequest]
  BY DEF Init, NoMetrics
<1>2. \A r \in Requests : Carrying[r] = 0
  <2>1. Carried(NewRequest) = 0
    BY TokensEmpty DEF Carried, NewRequest
  <2> QED
    BY <1>1, <2>1 DEF Carrying
<1>3. Total(Carrying, Requests) = 0
  BY <1>2, TotalZero, ConstantsAssumption
<1>4. TokensInv
  BY <1>1, <1>3 DEF TokensInv
<1> QED
  BY <1>1, <1>4 DEF MetricsInv

\* Every step counts what it bills and stores.
LEMMA NextMetrics == EmbedInv /\ PlacedInv /\ MetricsInv /\ [Next]_vars => MetricsInv'
<1> SUFFICES ASSUME EmbedInv, PlacedInv, MetricsInv, [Next]_vars PROVE MetricsInv'
  OBVIOUS
<1>1. ASSUME UNCHANGED <<scenario, running, docs, metrics, req, billed, earlier>>
      PROVE  MetricsInv'
  <2>1. Carrying' = Carrying /\ Lengths' = Lengths
    BY <1>1 DEF Carrying, Lengths
  <2>2. Counted' = Counted
    BY <1>1 DEF Counted
  <2>3. Searches' = Searches
    BY <1>1, <2>2 DEF Searches, Form
  <2> QED
    BY <1>1, <2>1, <2>2, <2>3 DEF MetricsInv, TokensInv, CountsInv
<1>2. CASE Start
  BY <1>2, StartMetrics
<1>3. CASE EditFile \/ Reload
  BY <1>1, <1>3 DEF EditFile, Reload, stored, history
<1>4. CASE ReloadExits
  BY <1>4, ReloadExitsMetrics
<1>5. ASSUME NEW r \in DOMAIN scenario.requests,
             ReceiveEmbed(r) \/ ReceiveSearch(r) \/ Step(r) \/ Reply(r) \/ TimeOut(r)
      PROVE  MetricsInv'
  <2>1. CASE ReceiveEmbed(r) \/ ReceiveSearch(r)
    <3>1. /\ req[r].pc = "new"
          /\ UNCHANGED <<running, scenario, earlier, metrics, billed>>
          /\ docs' = docs \/ Opens
      BY <2>1 DEF ReceiveEmbed, ReceiveSearch, OpenFails, process, history
    <3>2. \A x \in Counted : docs'[x] = docs[x]
      BY <3>1, OpensKeeps
    <3>3. ASSUME NEW result \in {"unavailable", "invalid", "not found", "failed"}, Ends(r, result)
          PROVE  MetricsInv'
      BY <3>1, <3>2, <3>3, EndStep DEF Ends
    <3>4. ASSUME req' = [req EXCEPT ![r].pc = "lookup"]
          PROVE  MetricsInv'
      <4> DEFINE q == [req[r] EXCEPT !.pc = "lookup"]
      <4>1. q.got = req[r].got /\ q.result = req[r].result /\ q.pc = "lookup"
        BY GotFacts DEF RequestInv, Fields
      <4>2. req' = [req EXCEPT ![r] = q]
        BY <3>4
      <4> HIDE DEF q
      <4> QED
        BY <3>1, <3>2, <4>1, <4>2, GoOnStep
    <3>5. \/ \E result \in {"unavailable", "invalid", "not found", "failed"} : Ends(r, result)
          \/ req' = [req EXCEPT ![r].pc = "lookup"]
      BY <2>1 DEF ReceiveEmbed, ReceiveSearch
    <3> QED
      BY <3>3, <3>4, <3>5
  <2>2. CASE LookupHits(r)
    BY <2>2, LookupHitsMetrics
  <2>3. CASE LookupMisses(r)
    <3> DEFINE q == [req[r] EXCEPT !.pc = "calling",
                                   !.calls = IF req[r].calls < MaxRetries + 2
                                             THEN req[r].calls + 1 ELSE req[r].calls]
    <3>1. /\ req[r].pc = "lookup" /\ req' = [req EXCEPT ![r] = q]
          /\ UNCHANGED <<running, scenario, earlier, metrics, docs, billed>>
      BY <2>3 DEF LookupMisses, process, stored
    <3>2. q.got = req[r].got /\ q.result = req[r].result /\ q.pc = "calling"
      BY GotFacts DEF RequestInv, Fields
    <3> HIDE DEF q
    <3> QED
      BY <3>1, <3>2, GoOnStep
  <2>4. CASE Wake(r)
    <3> DEFINE q == [req[r] EXCEPT !.pc = "lookup", !.delay = Embed!NextDelay(req[r].delay)]
    <3>1. /\ req[r].pc = "waiting" /\ req' = [req EXCEPT ![r] = q]
          /\ UNCHANGED <<running, scenario, earlier, metrics, docs, billed>>
      BY <2>4 DEF Wake, process, stored, history
    <3>2. q.got = req[r].got /\ q.result = req[r].result /\ q.pc = "lookup"
      BY GotFacts DEF RequestInv, Fields
    <3> HIDE DEF q
    <3> QED
      BY <3>1, <3>2, GoOnStep
  <2>5. CASE Store(r)
    BY <2>5, StoreMetrics
  <2>6. CASE Insert(r)
    BY <2>6, InsertMetrics
  <2>7. CASE Budget(r) \/ Record(r) \/ Search(r)
    BY <2>7, BudgetMetrics, RecordMetrics, SearchMetrics
  <2>8. CASE Reply(r)
    BY <2>8, ReplyMetrics
  <2>9. CASE TimeOut(r)
    <3>1. /\ req[r].pc = "calling" /\ req' = [req EXCEPT ![r] = AfterError(r, "RequestFailed")]
          /\ UNCHANGED <<running, scenario, earlier, metrics, docs, billed>>
      BY <2>9 DEF TimeOut, process, stored, history, Embed!RequestFailed, Embed!FailedWith
    <3>2. "RequestFailed" \in ProviderErrors
      BY DEF ProviderErrors
    <3> QED
      BY <3>1, <3>2, ErrorMetrics
  <2> QED
    BY <1>5, <2>1, <2>2, <2>3, <2>4, <2>5, <2>6, <2>7, <2>8, <2>9 DEF Step
<1>6. CASE UNCHANGED vars
  BY <1>1, <1>6 DEF vars, process, stored, history
<1> QED
  BY <1>2, <1>3, <1>4, <1>5, <1>6 DEF Next

\* EmbedMetrics count the insertions that a process told "ok" and the searches whose
\* text it embedded, and the texts of these; and never a token that no provider
\* reported, however the answers are cached and the requests fail or are lost.
THEOREM MetricsAlwaysAddUp == Spec => []MetricsAddUp
<1>1. ASSUME EmbedInv, MetricsInv PROVE MetricsAddUp
  <2>1. metrics.tokens <= billed
    <3>1. Total(Carrying, Requests) \in Nat
      <4>1. IsFiniteSet(Requests)
        BY ConstantsAssumption
      <4>2. \A r \in Requests : Carrying[r] \in Nat
        BY <1>1, CarriedType DEF Carrying
      <4> QED
        BY <4>1, <4>2, TotalNat
    <3>2. metrics.tokens \in Nat /\ billed \in Nat
          /\ metrics.tokens + Total(Carrying, Requests) <= billed
      BY <1>1 DEF MetricsInv, TokensInv
    <3> QED
      BY <3>1, <3>2
  <2>2. running => CountsInv
    BY <1>1 DEF MetricsInv
  <2> QED
    BY <2>1, <2>2 DEF MetricsAddUp, CountsInv, Counted, Searches, Told
<1> QED
  BY <1>1, InitEmbed, NextEmbed, InitPlaced, NextPlaced, InitMetrics, NextMetrics, PTL DEF Spec
=============================================================================
