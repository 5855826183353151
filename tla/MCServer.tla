------------------------------ MODULE MCServer ------------------------------
(***************************************************************************)
(* Instances of Server for TLC.                                            *)
(***************************************************************************)
EXTENDS Server, TLC

CONSTANTS r1, r2, r3, t1, t2

Default == Config!Default

-----------------------------------------------------------------------------
(* Environments whose variables interfere, and files that are edited into    *)
(* ones that are refused: no request comes, or one that opens a collection.  *)

Editions ==
    {<<Default>>,
     <<[Default EXCEPT !.wal_checkpoint_frequency = 0],
       [Default EXCEPT !.wal_enabled = FALSE, !.wal_checkpoint_frequency = 0],
       [Default EXCEPT !.auto_flat_max_vectors = 500, !.auto_ivf_max_vectors = 500]>>,
     <<[Default EXCEPT !.hardware_profile = "gpu", !.execution = "scalar",
                       !.parallelism_num_threads = 4, !.search_filter_overfetch = 3],
       Garbage,
       [Default EXCEPT !.index_type = "hnsw", !.hardware_gpu_enabled = TRUE]>>,
     <<[Default EXCEPT !.quantization_level = "int8", !.quantization_stage = "index",
                       !.quantization_index_enabled = TRUE],
       [Default EXCEPT !.quantization_stage = "index"],
       [Default EXCEPT !.memory_initial_mmap_size = 0]>>}

File == [CONFIG_FILE |-> "piramid.yaml"]

Variables ==
    {<<>>,
     [NUM_THREADS |-> 1, PARALLEL_SEARCH |-> TRUE],
     [HARDWARE_CPU_THREADS |-> 1, PARALLEL_SEARCH |-> TRUE],
     [HARDWARE_CPU_THREADS |-> 2, NUM_THREADS |-> 8],
     [HARDWARE_PROFILE |-> "gpu", EXECUTION_MODE |-> "simd"],
     [HARDWARE_PROFILE |-> "cpu", HARDWARE_GPU_ENABLED |-> TRUE],
     [HARDWARE_PROFILE |-> "8gb", CACHE_MAX_BYTES |-> 100],
     [HARDWARE_PROFILE |-> "gpu"],
     [EXECUTION_MODE |-> "auto"],
     [INDEX_TYPE |-> "ivf", INDEX_AUTO_HNSW_M |-> Garbage, SEARCH_FILTER_OVERFETCH |-> 7],
     [INDEX_TYPE |-> "hnsw", LIMIT_MAX_VECTORS |-> 2],
     [INDEX_AUTO_FLAT_MAX_VECTORS |-> 600, INDEX_AUTO_IVF_MAX_VECTORS |-> 700],
     [INDEX_AUTO_IVF_MAX_VECTORS |-> 500],
     [INDEX_AUTO_HNSW_M |-> Garbage],
     [WAL_ENABLED |-> TRUE, WAL_CHECKPOINT_FREQUENCY |-> 0,
      WAL_CHECKPOINT_INTERVAL_SECS |-> 0],
     [SEARCH_FILTER_OVERFETCH |-> 0, SEARCH_FILTER_EXPANSION |-> Garbage],
     [SEARCH_FILTER_EXPANSION |-> 5, SEARCH_RECALL_TARGET |-> 101],
     [PORT |-> Garbage],
     [MEMORY_USE_MMAP |-> FALSE, QUANTIZATION_STAGE |-> "disabled"]}

OneEmpty == r1 :> [form |-> "batch", texts |-> <<>>]

ConfigScenarios ==
    {[env |-> variables @@ file, files |-> files, requests |-> OneEmpty] :
        variables \in Variables, file \in {File, <<>>}, files \in Editions}

-----------------------------------------------------------------------------
(* Requests that race for the texts of a cache with one entry, for each      *)
(* provider, with a limit on the collection, a reload that exits, a restart   *)
(* under other limits or a budget for the caches.                            *)

Provider(name) == [EMBEDDING_PROVIDER |-> name]
Limited == [EMBEDDING_TIMEOUT_SECS |-> 30]
Keys == [OPENAI_API_KEY |-> "key", EMBEDDING_BASE_URL |-> "url"]

Batch == [form |-> "batch", texts |-> <<t1, t2, t1>>]
Pair == [form |-> "batch", texts |-> <<t1, t2>>]
Single(text) == [form |-> "single", texts |-> <<text>>]
Query(text) == [form |-> "search", texts |-> <<text>>]

EmbedScenarios ==
    {[env |-> Provider("openai") @@ Keys @@ Limited, files |-> <<Default>>,
      requests |-> r1 :> Batch @@ r2 :> Single(t1)],
     [env |-> Provider("ollama") @@ Limited @@ [LIMIT_MAX_VECTORS |-> 3], files |-> <<Default>>,
      requests |-> r1 :> Batch @@ r2 :> Single(t2) @@ r3 :> Query(t1)],
     [env |-> Provider("local") @@ Keys, files |-> <<Default>>,
      requests |-> r1 :> Single(t1) @@ r2 :> Query(t1) @@ r3 :> [form |-> "both", texts |-> <<t1>>]],
     [env |-> Provider("ollama") @@ Limited @@ File, files |-> <<Default, Garbage>>,
      requests |-> r1 :> Single(t1) @@ r2 :> Query(t1) @@ r3 :> Single(t1)],
     [env |-> Provider("ollama") @@ Limited @@ File,
      files |-> <<[Default EXCEPT !.limits_max_vectors = 1], Garbage, Default>>,
      requests |-> r1 :> Pair @@ r2 :> Query(t1)],
     [env |-> Provider("ollama") @@ Limited @@ [CACHE_MAX_BYTES |-> 100], files |-> <<Default>>,
      requests |-> r1 :> Single(t1) @@ r2 :> Query(t1)],
     [env |-> Provider("openai"), files |-> <<Default>>, requests |-> r1 :> Single(t1)],
     [env |-> <<>>, files |-> <<Default>>, requests |-> r1 :> Query(t1)]}

AllScenarios == ConfigScenarios \union EmbedScenarios
=============================================================================
