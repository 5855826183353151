------------------------------- MODULE Server -------------------------------
(***************************************************************************)
(* The server process: how it starts and reloads its configuration, and    *)
(* the requests that embed texts before they store or search them.         *)
(*                                                                         *)
(* A request is a task.  It awaits the provider and the pauses between     *)
(* retries, and shares with the others the cache of the embedder (a mutex, *)
(* not held across the await), one collection and the metrics.  The module *)
(* CollectionManager has the table of collections and how they are opened, *)
(* the module Collection what an insertion does to the files.  Here an     *)
(* insertion stores all its documents or none, and may be told an error    *)
(* either way; what it logged without storing it comes back when the       *)
(* collection is opened next.  The collection has a log.                   *)
(***************************************************************************)
EXTENDS Integers, Sequences, FiniteSetsExt

CONSTANTS
    Requests,                             \* names of the requests
    Scenarios,                            \* environments, files and requests
    MaxRetries, InitialDelay, MaxDelay,   \* RetryConfig
    Capacity,                             \* of the cache of the embedder
    None, Garbage

Config == INSTANCE Configuration
Embed == INSTANCE Embedder

\* A scenario says which variables are set, what the file holds one version
\* after the other, and which requests may come: to store the texts of a batch
\* or a single text, to search by a text, or malformed in one of two ways.
Forms == {"single", "batch", "search", "both", "neither"}
Profiles == {"auto", "cpu", "gpu", "8gb", "16gb", "32gb"}

\* A file that parses has every setting; a variable that parses has a value of
\* its type.
FileTyped(file) ==
    /\ DOMAIN file = DOMAIN Config!Default
    /\ {file.auto_flat_max_vectors, file.auto_ivf_max_vectors} \subseteq Nat

EnvTyped(environment) ==
    \A name \in DOMAIN environment :
        LET value == environment[name] IN
        /\ value # None
        /\ value # Garbage =>
            /\ name \in {"INDEX_AUTO_FLAT_MAX_VECTORS", "INDEX_AUTO_IVF_MAX_VECTORS"} =>
                value \in Nat
            /\ name = "HARDWARE_PROFILE" => value \in Profiles

ASSUME ConstantsAssumption ==
    /\ {MaxRetries, InitialDelay, MaxDelay} \subseteq Nat
    /\ Capacity \in Nat \ {0}
    /\ IsFiniteSet(Requests)
    /\ \A s \in Scenarios :
        /\ Len(s.files) \in Nat \ {0}
        /\ \A i \in 1 .. Len(s.files) : s.files[i] # Garbage => FileTyped(s.files[i])
        /\ EnvTyped(s.env)
        /\ DOMAIN s.requests \subseteq Requests
        /\ \A r \in DOMAIN s.requests :
            LET texts == s.requests[r].texts IN
            /\ s.requests[r].form \in Forms
            /\ texts \in Seq({texts[i] : i \in DOMAIN texts})
            /\ s.requests[r].form = "search" => Len(texts) = 1

VARIABLES
    scenario,    \* which one it is
    version,     \* how often the file was edited
    running,     \* whether the process runs
    config,      \* AppState::app_config, None where no process runs
    collection,  \* the configuration the collection was opened with, or None
    exists,      \* the collection has files
    docs,        \* by request, the documents of it that are stored
    logged,      \* by request, the documents that are in the log and not stored
    cache,       \* of the embedder
    metrics,     \* EmbedMetrics
    req,         \* where each request is
    \* history
    loaded,      \* the version that is in force
    paid,        \* by text, calls that the provider answered with a vector: 0, 1 or 2
    excused,     \* texts evicted since, or asked for by two requests at once
    billed,      \* tokens the provider reported
    earlier      \* requests that ended before the process started

process == <<scenario, version, running, config, loaded>>
stored == <<collection, exists, docs, logged>>
history == <<paid, excused, billed, earlier>>
vars == <<process, stored, cache, metrics, req, history>>

env == scenario.env
Form(r) == scenario.requests[r].form
Texts(r) == scenario.requests[r].texts

Active(r) == req[r].pc \notin {"new", "done"}
Text(r) == Texts(r)[Len(req[r].got) + 1]

NoMetrics == [requests |-> 0, texts |-> 0, tokens |-> 0]
NewRequest == [pc |-> "new", got |-> <<>>, attempts |-> 0, delay |-> InitialDelay,
               calls |-> 0, answer |-> None, result |-> None]
Done(r, result) == [req[r] EXCEPT !.pc = "done", !.result = result, !.answer = None]

Init ==
    /\ scenario \in Scenarios
    /\ version = 1
    /\ running = FALSE
    /\ config = None
    /\ collection = None
    /\ exists \in BOOLEAN
    /\ docs = [r \in Requests |-> <<>>]
    /\ logged = [r \in Requests |-> <<>>]
    /\ cache = <<>>
    /\ metrics = NoMetrics
    /\ req = [r \in Requests |-> NewRequest]
    /\ loaded = 0
    /\ paid = [t \in UNION {{Texts(r)[i] : i \in DOMAIN Texts(r)} : r \in DOMAIN scenario.requests}
                 |-> 0]
    /\ excused = {}
    /\ billed = 0
    /\ earlier = {}

-----------------------------------------------------------------------------
(* The collection. *)

\* What the elements of a set add up to.
Total(f, set) == MapThenSumSet(LAMBDA x : f[x], set)

Lengths == [r \in Requests |-> Len(docs[r])]
Count == Total(Lengths, Requests)

\* A document for every text, in their order.
Documents(r) ==
    [i \in DOMAIN Texts(r) |-> [text |-> Texts(r)[i], embedding |-> req[r].got[i].embedding]]

Within(limit, count) == limit # None => count <= limit

\* An insertion keeps the write lock until it is counted: it is "stuck" for ever
\* if it has to wait for that lock meanwhile.
Locked ==
    \E r \in DOMAIN scenario.requests :
        \/ req[r].pc \in {"budget", "stuck"}
        \/ req[r].pc = "record" /\ Form(r) # "search"

NothingLogged == [r \in Requests |-> <<>>]

\* What a recovery finds.
Recovered == [r \in Requests |-> IF logged[r] = <<>> THEN docs[r] ELSE logged[r]]

\* The first request of a process for the collection opens it, with the
\* configuration in force.  A replayed insertion has to pass max_vectors.
Opens ==
    \/ /\ collection # None
       /\ UNCHANGED <<collection, docs, logged>>
    \/ /\ collection = None
       /\ logged # NothingLogged =>
            Within(config.limits_max_vectors,
                   Total([r \in Requests |-> Len(Recovered[r])], Requests))
       /\ collection' = config
       /\ docs' = Recovered
       /\ logged' = NothingLogged

\* A file cannot be read or written, or a limit refuses what is replayed.
OpenFails ==
    /\ collection = None
    /\ UNCHANGED <<collection, docs, logged>>

\* An insertion ends, or the process does, when it has logged some documents.
LogsSome(r) ==
    \E n \in 0 .. Len(Texts(r)) :
        logged' = [logged EXCEPT ![r] = SubSeq(Documents(r), 1, n)]

-----------------------------------------------------------------------------
(* The process. *)

\* Where the configuration or the provider is refused, no process comes up.
Start ==
    LET c == Config!LoadRuntimeConfig(scenario.files[version], env) IN
    /\ ~running
    /\ c # None
    /\ "EMBEDDING_PROVIDER" \in DOMAIN env => Embed!CreateEmbedder(env)
    /\ running' = TRUE
    /\ config' = c
    /\ loaded' = version
    /\ collection' = None
    /\ cache' = <<>>
    /\ metrics' = NoMetrics
    /\ earlier' = {r \in Requests : req[r].pc = "done"}
    /\ UNCHANGED <<scenario, version, exists, docs, logged, req, paid, excused, billed>>

\* The operator edits the file.
EditFile ==
    /\ version < Len(scenario.files)
    /\ version' = version + 1
    /\ UNCHANGED <<scenario, running, config, loaded, stored, cache, metrics, req, history>>

\* POST /config/reload.  The embedder and the open collection keep what they
\* were made with.  A reload of what is in force changes nothing.
Reload ==
    LET c == Config!LoadAppConfig(scenario.files[version], env) IN
    /\ running /\ version # loaded
    /\ c # None
    /\ config' = c
    /\ loaded' = version
    /\ UNCHANGED <<scenario, version, running, stored, cache, metrics, req, history>>

\* A reload of a file that is refused ends the process, and with it every
\* request, one in the middle of its insertion among them: load_app_config exits.
ReloadExits ==
    /\ running /\ version # loaded
    /\ Config!LoadAppConfig(scenario.files[version], env) = None
    /\ running' = FALSE
    /\ config' = None
    /\ req' = [r \in Requests |-> IF Active(r) THEN Done(r, "lost") ELSE req[r]]
    /\ excused' = DOMAIN paid
    /\ \/ UNCHANGED logged
       \/ ~Locked /\ \E r \in DOMAIN scenario.requests : req[r].pc = "insert" /\ LogsSome(r)
    /\ UNCHANGED <<scenario, version, loaded, collection, exists, docs, cache, metrics, paid, billed,
                   earlier>>

-----------------------------------------------------------------------------
(* Requests arrive. *)

Ends(r, result) == req' = [req EXCEPT ![r] = Done(r, result)]

\* embed_text opens or creates the collection before it looks at anything else.
ReceiveEmbed(r) ==
    /\ running /\ req[r].pc = "new" /\ Form(r) # "search"
    /\ \/ /\ OpenFails
          /\ exists' \in {exists, TRUE}
          /\ Ends(r, "failed")
       \/ /\ Opens
          /\ exists' = TRUE
          /\ CASE "EMBEDDING_PROVIDER" \notin DOMAIN env -> Ends(r, "unavailable")
               [] OTHER -> IF Form(r) \in {"both", "neither"} \/ Texts(r) = <<>>
                           THEN Ends(r, "invalid")
                           ELSE req' = [req EXCEPT ![r].pc = "lookup"]
    /\ UNCHANGED <<process, cache, metrics, history>>

\* search_by_text needs a collection that exists.
ReceiveSearch(r) ==
    /\ running /\ req[r].pc = "new" /\ Form(r) = "search"
    /\ \/ /\ ~exists
          /\ Ends(r, "not found")
          /\ UNCHANGED <<collection, docs, logged>>
       \/ /\ exists /\ OpenFails
          /\ Ends(r, "failed")
       \/ /\ exists /\ Opens
          /\ IF "EMBEDDING_PROVIDER" \notin DOMAIN env THEN Ends(r, "unavailable")
             ELSE req' = [req EXCEPT ![r].pc = "lookup"]
    /\ UNCHANGED <<process, exists, cache, metrics, history>>

-----------------------------------------------------------------------------
(* One text is embedded. *)

\* The request goes on with its next text, if it has one.
Embedded(r, answer) ==
    LET got == Append(req[r].got, answer)
    IN  [NewRequest EXCEPT
            !.got = got,
            !.pc = IF Len(got) < Len(Texts(r)) THEN "lookup"
                   ELSE IF Form(r) = "search" THEN "record" ELSE "insert"]

LookupHits(r) ==
    /\ req[r].pc = "lookup"
    /\ Text(r) \in Embed!Keys(cache)
    /\ cache' = Embed!Touch(cache, Text(r))
    /\ req' = [req EXCEPT ![r] = Embedded(r, Embed!Hit(cache, Text(r)))]
    /\ UNCHANGED <<process, stored, metrics, history>>

LookupMisses(r) ==
    /\ req[r].pc = "lookup"
    /\ Text(r) \notin Embed!Keys(cache)
    /\ req' = [req EXCEPT ![r].pc = "calling",
                          ![r].calls = IF @ < MaxRetries + 2 THEN @ + 1 ELSE @]
    /\ excused' = IF \E other \in Requests \ {r} :
                        req[other].pc \in {"calling", "store"} /\ Text(other) = Text(r)
                  THEN excused \union {Text(r)} ELSE excused
    /\ UNCHANGED <<process, stored, cache, metrics, paid, billed, earlier>>

\* Fault: the failed attempt is not counted.
AfterErrorUncounted(r, error) ==
    IF Embed!GivesUp(error, req[r].attempts) THEN Done(r, error)
    ELSE [req[r] EXCEPT !.pc = "waiting"]

\* The loop of RetryEmbedder::embed after an error.
AfterError(r, error) ==
    LET attempts == req[r].attempts + 1
    IN  IF Embed!GivesUp(error, attempts) THEN Done(r, error)
        ELSE [req[r] EXCEPT !.pc = "waiting", !.attempts = attempts]

\* Tokens that an answer reports.
Reported(answer) == IF answer.tokens = None THEN 0 ELSE answer.tokens

Reply(r) ==
    /\ req[r].pc = "calling"
    /\ \E answer \in Embed!ProviderEmbed(env.EMBEDDING_PROVIDER, Text(r)) :
        IF answer.error # None
        THEN /\ req' = [req EXCEPT ![r] = AfterError(r, answer.error)]
             /\ UNCHANGED <<paid, billed>>
        ELSE /\ req' = [req EXCEPT ![r].pc = "store", ![r].answer = answer]
             /\ paid' = [paid EXCEPT ![Text(r)] = IF @ < 2 THEN @ + 1 ELSE @]
             /\ billed' = billed + Reported(answer)
    /\ UNCHANGED <<process, stored, cache, metrics, excused, earlier>>

\* The client of the provider gives up after EMBEDDING_TIMEOUT_SECS, if set.
TimeOut(r) ==
    /\ req[r].pc = "calling"
    /\ "EMBEDDING_TIMEOUT_SECS" \in DOMAIN env
    /\ req' = [req EXCEPT ![r] = AfterError(r, Embed!RequestFailed.error)]
    /\ UNCHANGED <<process, stored, cache, metrics, history>>

\* The pause is over; the next call doubles the delay.
Wake(r) ==
    /\ req[r].pc = "waiting"
    /\ req' = [req EXCEPT ![r].pc = "lookup", ![r].delay = Embed!NextDelay(@)]
    /\ UNCHANGED <<process, stored, cache, metrics, history>>

\* Fault: an answer is kept under the first text of the request.
StoreUnderFirst(r) ==
    /\ req[r].pc = "store"
    /\ cache' = Embed!Put(cache, Head(Texts(r)), req[r].answer.embedding)
    /\ excused' = excused \union Embed!Evicted(cache, Head(Texts(r)))
    /\ req' = [req EXCEPT ![r] = Embedded(r, req[r].answer)]
    /\ UNCHANGED <<process, stored, metrics, paid, billed, earlier>>

Store(r) ==
    /\ req[r].pc = "store"
    /\ cache' = Embed!Put(cache, Text(r), req[r].answer.embedding)
    /\ excused' = excused \union Embed!Evicted(cache, Text(r))
    /\ req' = [req EXCEPT ![r] = Embedded(r, req[r].answer)]
    /\ UNCHANGED <<process, stored, metrics, paid, billed, earlier>>

-----------------------------------------------------------------------------
(* What the request wanted the vectors for. *)

Tokens(got) == Total([i \in DOMAIN got |-> Reported(got[i])], DOMAIN got)

\* The limits are those of the configuration the collection was opened with.
\* They are tested when everything is logged; how large a document is, is not
\* modelled, so a limit in bytes may refuse anything.
Admitted(r) == Within(collection.limits_max_vectors, Count + Len(Texts(r)))
Refusable(r) ==
    ~Admitted(r) \/ collection.limits_max_bytes # None
        \/ collection.limits_max_vector_bytes # None

\* The vector is of another length than the others, or the checkpoint fails:
\* the documents stay where they are.
StoresAll(r) ==
    /\ Admitted(r)
    /\ docs' = [docs EXCEPT ![r] = Documents(r)]
    /\ logged' \in {logged, NothingLogged}
    /\ req' \in {[req EXCEPT ![r].pc = "budget"], [req EXCEPT ![r] = Done(r, "failed")]}

\* The log, the encoding or the data file fails.
StoresNone(r) ==
    /\ LogsSome(r)
    /\ Ends(r, "failed")
    /\ UNCHANGED docs

Exceeds(r) ==
    /\ Refusable(r)
    /\ logged' = [logged EXCEPT ![r] = Documents(r)]
    /\ Ends(r, "refused")
    /\ UNCHANGED docs

\* The lock is taken, and given up on an error.
Insert(r) ==
    /\ req[r].pc = "insert" /\ ~Locked
    /\ StoresAll(r) \/ StoresNone(r) \/ Exceeds(r)
    /\ UNCHANGED <<process, collection, exists, cache, metrics, history>>

\* enforce_cache_budget, which read-locks every open collection.
Capped == config # None /\ config.cache_enabled /\ config.cache_max_bytes # None

Budget(r) ==
    /\ req[r].pc = "budget"
    /\ req' = [req EXCEPT ![r].pc = IF Capped THEN "stuck" ELSE "record"]
    /\ UNCHANGED <<process, stored, cache, metrics, history>>

\* An insertion is counted when it is done; a search before its metric is
\* parsed, which may refuse it.
Record(r) ==
    /\ req[r].pc = "record"
    /\ metrics' = [requests |-> metrics.requests + 1,
                   texts |-> metrics.texts + Len(req[r].got),
                   tokens |-> metrics.tokens + Tokens(req[r].got)]
    /\ IF Form(r) = "search"
       THEN req' \in {[req EXCEPT ![r].pc = "search"], [req EXCEPT ![r] = Done(r, "invalid query")]}
       ELSE Ends(r, "ok")
    /\ UNCHANGED <<process, stored, cache, history>>

\* Under the read lock: the overrides may be refused, and the search may fail.
Search(r) ==
    /\ req[r].pc = "search" /\ ~Locked
    /\ \E result \in {"ok", "invalid query", "search failed"} : Ends(r, result)
    /\ UNCHANGED <<process, stored, cache, metrics, history>>

-----------------------------------------------------------------------------
Step(r) ==
    \/ LookupHits(r) \/ LookupMisses(r) \/ Wake(r) \/ Store(r)
    \/ Insert(r) \/ Budget(r) \/ Record(r) \/ Search(r)

Next ==
    \/ Start \/ EditFile \/ Reload \/ ReloadExits
    \/ \E r \in DOMAIN scenario.requests :
        ReceiveEmbed(r) \/ ReceiveSearch(r) \/ Step(r) \/ Reply(r) \/ TimeOut(r)

\* Tasks are scheduled and timers fire; a provider may never answer.
Fairness == \A r \in Requests :
    /\ WF_vars(r \in DOMAIN scenario.requests /\ Step(r))
    /\ WF_vars(r \in DOMAIN scenario.requests /\ TimeOut(r))

Spec == Init /\ [][Next]_vars /\ Fairness

-----------------------------------------------------------------------------
(* Properties of the requests. *)

ProviderErrors == {"RequestFailed", "AuthenticationFailed", "RateLimitExceeded", "ApiError",
                   "InvalidResponse"}
Refusals == {"lost", "unavailable", "invalid", "not found", "refused", "failed", "invalid query",
             "search failed"}
Results == {None, "ok"} \union Refusals \union ProviderErrors

\* Option::None is neither an error nor another result.
ASSUME NoneAssumption == None \notin {"ok"} \union Refusals \union ProviderErrors

\* The variables keep their types; the cache keeps to its capacity and holds no
\* text twice, and a request waits for at most MaxDelay after its first pause.
TypeOK ==
    /\ scenario \in Scenarios /\ version \in 1 .. Len(scenario.files)
    /\ running \in BOOLEAN /\ running <=> config # None
    /\ collection # None => exists
    /\ Len(cache) <= Capacity /\ Cardinality(Embed!Keys(cache)) = Len(cache)
    /\ \A r \in Requests :
        /\ req[r].pc \in {"new", "lookup", "calling", "waiting", "store", "insert", "budget",
                          "stuck", "record", "search", "done"}
        /\ req[r].result \in Results /\ (req[r].result # None <=> req[r].pc = "done")
        /\ req[r].attempts \in 0 .. MaxRetries
        /\ req[r].delay <= (IF req[r].attempts <= 1 /\ InitialDelay > MaxDelay
                            THEN InitialDelay ELSE MaxDelay)

\* Vectors stay with their texts through hits, evictions and requests that
\* overtake one another: what is cached, stored, logged or answered for a text is
\* its embedding.  In the process that served a request all its documents are
\* stored or none, and all once it is told "ok"; one that is told an error may
\* have stored them nevertheless, and what it logged, some of its documents and
\* none after one that is missing, may be stored after a restart.
StoredAsEmbedded ==
    /\ \A i \in DOMAIN cache : cache[i].embedding = cache[i].text
    /\ \A r \in DOMAIN scenario.requests :
        LET all == [i \in DOMAIN Texts(r) |->
                       [text |-> Texts(r)[i], embedding |-> Texts(r)[i]]]
        IN  /\ \A some \in {docs[r], logged[r]} :
                \E n \in 0 .. Len(Texts(r)) : some = SubSeq(all, 1, n)
            /\ docs[r] = <<>> \/ logged[r] = <<>>
            /\ docs[r] # <<>> =>
                \/ docs[r] = all /\ req[r].pc \in {"budget", "stuck", "record"}
                \/ docs[r] = all /\ req[r].result \in {"ok", "failed", "lost"}
                \/ r \in earlier /\ req[r].result \in {"refused", "failed", "lost"}
            /\ req[r].result = "ok" =>
                /\ Form(r) # "search" => docs[r] = all
                /\ \A i \in DOMAIN Texts(r) : req[r].got[i].embedding = Texts(r)[i]

\* The provider is called at most once more than there are retries for each
\* text of a request, and the request ends in an error of the provider only if
\* the error is none to retry or the retries are used up
\* (tests/embeddings.rs, retry_exhausts_and_errors).
RetriesBounded ==
    \A r \in Requests :
        /\ req[r].calls <= MaxRetries + 1
        /\ req[r].result \in ProviderErrors =>
            req[r].calls = MaxRetries + 1 \/ ~Embed!IsRecoverable(req[r].result)

\* "the embed call is only paid once per server lifetime (until eviction)"
\* (blogs/architecture/embeddings.md:214): a text is paid for again only if it was
\* evicted, or two requests asked for it at once.
PaidOnceUnlessRaced == \A text \in DOMAIN paid : paid[text] > 1 => text \in excused

\* The counters of a process tell what it did: the requests it counted are the
\* insertions that were told "ok" and the searches that embedded their text,
\* refused and failed ones among them; the texts are those searches and the
\* documents of those insertions, not what a failed one left behind; and no token
\* is counted that the provider has not reported, on a hit least of all.
MetricsAddUp ==
    LET counted == {r \in Requests \ earlier :
                       \/ req[r].pc = "search"
                       \/ req[r].result \in {"ok", "invalid query", "search failed"}}
        searches == {r \in counted : Form(r) = "search"}
    IN  running =>
            /\ metrics.requests = Cardinality(counted)
            /\ metrics.texts = Cardinality(searches) + Total(Lengths, counted \ searches)
            /\ metrics.tokens <= billed

\* With a time limit for the provider and no budget for the caches every request
\* ends, whatever the provider answers or fails to answer and how often the
\* operator reloads.
EveryRequestEnds ==
    \A r \in Requests :
        []~Capped => (Active(r) /\ "EMBEDDING_TIMEOUT_SECS" \in DOMAIN env ~> ~Active(r))

-----------------------------------------------------------------------------
(* Properties of the configuration. *)

\* The variables with a setting of their own.
Own == Config!Join(Config!AutoVariables, Config!Join(Config!PlainVariables,
    [INDEX_TYPE |-> "index_type", EXECUTION_MODE |-> "execution",
     HARDWARE_PROFILE |-> "hardware_profile", HARDWARE_GPU_ENABLED |-> "hardware_gpu_enabled",
     HARDWARE_CPU_THREADS |-> "hardware_cpu_threads",
     HARDWARE_MEMORY_BUDGET_BYTES |-> "hardware_memory_budget",
     WAL_ENABLED |-> "wal_enabled", WAL_CHECKPOINT_FREQUENCY |-> "wal_checkpoint_frequency",
     WAL_CHECKPOINT_INTERVAL_SECS |-> "wal_checkpoint_interval_secs",
     MEMORY_USE_MMAP |-> "memory_use_mmap",
     MEMORY_INITIAL_MMAP_MB |-> "memory_initial_mmap_size",
     PARALLEL_SEARCH |-> "parallelism_parallel_search",
     NUM_THREADS |-> "parallelism_num_threads",
     SEARCH_FILTER_OVERFETCH |-> "search_filter_overfetch",
     SEARCH_FILTER_EXPANSION |-> "search_filter_overfetch",
     SEARCH_LATENCY_BUDGET_MS |-> "search_latency_budget_ms",
     SEARCH_RECALL_TARGET |-> "search_recall_percent",
     SEARCH_ADAPTIVE_ENABLED |-> "adaptive_enabled"]))

\* The settings that a variable changes beside its own.
Aside(name) ==
    CASE name = "INDEX_TYPE" ->
            {"index_metric", "index_parameters", "index_search_filter_overfetch"}
      [] name = "HARDWARE_PROFILE" ->
            {"execution", "hardware_gpu_enabled", "hardware_memory_budget", "cache_max_bytes",
             "memory_max_memory_per_collection"}
      [] name = "HARDWARE_CPU_THREADS" ->
            {"parallelism_num_threads", "parallelism_parallel_search"}
      [] name = "NUM_THREADS" -> {"parallelism_parallel_search"}
      [] OTHER -> {}

\* A variable that another one takes the place of.
Overruled(name) ==
    \/ name = "PARALLEL_SEARCH" /\ "NUM_THREADS" \in DOMAIN env
    \/ name = "SEARCH_FILTER_EXPANSION" /\ "SEARCH_FILTER_OVERFETCH" \in DOMAIN env
    \/ name \in DOMAIN Config!AutoVariables /\ config.index_type # "auto"

Zeroless == {"WAL_CHECKPOINT_FREQUENCY", "WAL_CHECKPOINT_INTERVAL_SECS",
             "SEARCH_FILTER_OVERFETCH", "SEARCH_FILTER_EXPANSION"}

\* The environment outlasts the edits of the file: at any time each variable
\* that is set has its setting, zero counting as one where it must, however the
\* variables interfere with one another; and a setting that no variable touches
\* is as the file said when it was last loaded.
EnvironmentInForce ==
    running =>
        LET file == Config!LoadFromFile(scenario.files[loaded], env)
            names == DOMAIN env \intersect DOMAIN Own
        IN  /\ \A name \in names :
                ~Overruled(name) =>
                    config[Own[name]] = IF name \in Zeroless /\ env[name] = 0 THEN 1
                                        ELSE env[name]
            /\ "NUM_THREADS" \in names =>
                config.parallelism_parallel_search = (env.NUM_THREADS > 1)
            /\ \A field \in DOMAIN config :
                (\A name \in names : field \notin Aside(name) \union {Own[name]}) =>
                    config[field] = file[field]

\* What the modules of the collections assume of their configuration holds for
\* the one in force and for the one the collection was opened with, after any
\* edits and reloads: checkpoints are taken, filters overfetch, a collection
\* that grows passes through every kind of index, and nothing runs on a graphics
\* processor.
ConfigUsable ==
    \A c \in {config, collection} \ {None} :
        /\ c.wal_enabled => c.wal_checkpoint_frequency > 0
        /\ c.search_filter_overfetch > 0
        /\ c.index_type = "auto" =>
            \E flat, ivf \in {c.auto_flat_max_vectors - 1, c.auto_ivf_max_vectors - 1} :
                0 <= flat /\ flat < c.auto_flat_max_vectors
                /\ c.auto_flat_max_vectors <= ivf /\ ivf < c.auto_ivf_max_vectors
        /\ c.execution # "gpu"
=============================================================================
