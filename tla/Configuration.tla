---------------------------- MODULE Configuration ----------------------------
(***************************************************************************)
(* How the server arrives at its configuration: defaults or the file, then *)
(* the environment, then validation.                                       *)
(*                                                                         *)
(* A configuration is a record of the settings, section_setting; an        *)
(* environment is a record of the variables that are set.  Sizes are in    *)
(* megabytes.  None is Option::None and, as a number of threads, the       *)
(* number of cores; Garbage is a text that does not parse.                 *)
(***************************************************************************)
EXTENDS Integers

CONSTANTS None, Garbage

-----------------------------------------------------------------------------
(* The defaults. *)

DefaultIndex ==
    [index_type |-> "auto", index_metric |-> "cosine", index_parameters |-> None]

DefaultAuto ==
    [auto_flat_max_vectors |-> 10000, auto_ivf_max_vectors |-> 100000,
     auto_ivf_num_clusters |-> None, auto_ivf_num_probes |-> None,
     auto_ivf_max_iterations |-> 10, auto_hnsw_m |-> 16,
     auto_hnsw_ef_construction |-> 200, auto_hnsw_ef_search |-> 200]

DefaultSearch ==
    [search_filter_overfetch |-> 10, index_search_filter_overfetch |-> 10]

DefaultBudgets ==
    [search_latency_budget_ms |-> None, search_recall_percent |-> None,
     adaptive_enabled |-> FALSE, adaptive_min_ef |-> 16, adaptive_max_ef |-> 800,
     adaptive_min_nprobe |-> 1, adaptive_max_nprobe |-> 64,
     adaptive_min_filter_overfetch |-> 1, adaptive_max_filter_overfetch |-> 100]

DefaultQuantization ==
    [quantization_level |-> "none", quantization_stage |-> "disabled",
     quantization_preserve_raw_vectors |-> TRUE,
     quantization_storage_enabled |-> FALSE, quantization_index_enabled |-> FALSE,
     quantization_query_enabled |-> FALSE, quantization_result_enabled |-> FALSE]

DefaultWal ==
    [wal_enabled |-> TRUE, wal_checkpoint_frequency |-> 1000,
     wal_checkpoint_interval_secs |-> None]

DefaultMemory ==
    [memory_use_mmap |-> TRUE, memory_initial_mmap_size |-> 1,
     memory_max_memory_per_collection |-> None]

DefaultParallelism ==
    [parallelism_num_threads |-> None, parallelism_parallel_search |-> TRUE]

DefaultHardware ==
    [hardware_profile |-> "auto", hardware_cpu_threads |-> None,
     hardware_memory_budget |-> None, hardware_gpu_enabled |-> FALSE]

DefaultCache ==
    [cache_enabled |-> TRUE, cache_max_size |-> 10000,
     cache_ttl_seconds |-> None, cache_max_bytes |-> None]

DefaultLimits ==
    [limits_max_vectors |-> None, limits_max_bytes |-> None,
     limits_max_vector_bytes |-> None]

DefaultLogging ==
    [logging_level |-> "info", logging_search |-> TRUE, logging_indexing |-> TRUE,
     logging_writes |-> TRUE, logging_inference |-> TRUE]

\* All the settings of two sections.
Join(section, others) ==
    [field \in DOMAIN section \union DOMAIN others |->
        IF field \in DOMAIN section THEN section[field] ELSE others[field]]

Default ==
    Join(DefaultIndex, Join(DefaultAuto, Join(DefaultSearch, Join(DefaultBudgets,
    Join(DefaultQuantization, Join(DefaultWal, Join(DefaultMemory, Join(DefaultParallelism,
    Join(DefaultHardware, Join(DefaultCache, Join(DefaultLimits, Join(DefaultLogging,
         [execution |-> "auto"]))))))))))))

-----------------------------------------------------------------------------
(* The environment. *)

Set(env, name) == name \in DOMAIN env
AtLeastOne(n) == IF n = 0 THEN 1 ELSE n

\* c with the settings that fields gives to the variables that are set.
FromEnv(c, env, fields) ==
    LET naming(field) == {name \in DOMAIN fields : Set(env, name) /\ fields[name] = field}
    IN  [field \in DOMAIN c |->
            IF naming(field) = {} THEN c[field]
            ELSE env[CHOOSE name \in naming(field) : TRUE]]

AutoVariables ==
    [INDEX_AUTO_FLAT_MAX_VECTORS   |-> "auto_flat_max_vectors",
     INDEX_AUTO_IVF_MAX_VECTORS    |-> "auto_ivf_max_vectors",
     INDEX_AUTO_IVF_NUM_CLUSTERS   |-> "auto_ivf_num_clusters",
     INDEX_AUTO_IVF_NUM_PROBES     |-> "auto_ivf_num_probes",
     INDEX_AUTO_IVF_MAX_ITERATIONS |-> "auto_ivf_max_iterations",
     INDEX_AUTO_HNSW_M             |-> "auto_hnsw_m",
     INDEX_AUTO_HNSW_EF_CONSTRUCTION |-> "auto_hnsw_ef_construction",
     INDEX_AUTO_HNSW_EF_SEARCH     |-> "auto_hnsw_ef_search"]

\* The parameters that INDEX_TYPE brings with it.
IndexParameters(type) ==
    CASE type = "flat" -> None
      [] type = "hnsw" -> [m |-> 16, m_max |-> 32, ef_construction |-> 200, ef_search |-> 200]
      [] type = "ivf" -> [num_clusters |-> 256, num_probes |-> 8, max_iterations |-> 20]

\* INDEX_TYPE replaces the whole index section; the new one copies the search
\* section as it is at this point.
OverrideIndexType(c, env) ==
    IF ~Set(env, "INDEX_TYPE") THEN c
    ELSE [c EXCEPT !.index_type = env.INDEX_TYPE,
                   !.index_metric = "cosine",
                   !.index_parameters = IndexParameters(env.INDEX_TYPE),
                   !.index_search_filter_overfetch = c.search_filter_overfetch]

OverrideAuto(c, env) ==
    IF c.index_type = "auto" THEN FromEnv(c, env, AutoVariables) ELSE c

MemoryProfile(profile) ==
    CASE profile = "8gb" -> [budget |-> 8192, cache |-> 512, collection |-> 2048]
      [] profile = "16gb" -> [budget |-> 16384, cache |-> 1024, collection |-> 4096]
      [] profile = "32gb" -> [budget |-> 32768, cache |-> 2048, collection |-> 8192]

ApplyHardwareProfile(c) ==
    LET profile == c.hardware_profile IN
    CASE profile = "auto" -> c
      [] profile = "cpu" -> [c EXCEPT !.hardware_gpu_enabled = FALSE, !.execution = "auto"]
      [] profile = "gpu" -> [c EXCEPT !.hardware_gpu_enabled = TRUE, !.execution = "gpu"]
      [] profile \in {"8gb", "16gb", "32gb"} ->
            [c EXCEPT !.hardware_memory_budget = MemoryProfile(profile).budget,
                      !.cache_max_bytes = MemoryProfile(profile).cache,
                      !.memory_max_memory_per_collection = MemoryProfile(profile).collection]

WithNumThreads(c, n) ==
    [c EXCEPT !.parallelism_num_threads = n, !.parallelism_parallel_search = n > 1]

\* The profile of the file is a setting like any other: only the variable
\* applies one.
OverrideHardware(c, env) ==
    LET profiled == IF Set(env, "HARDWARE_PROFILE")
                    THEN ApplyHardwareProfile([c EXCEPT !.hardware_profile = env.HARDWARE_PROFILE])
                    ELSE c
        threaded == IF Set(env, "HARDWARE_CPU_THREADS")
                    THEN WithNumThreads(profiled, env.HARDWARE_CPU_THREADS) ELSE profiled
    IN  FromEnv(threaded, env, [HARDWARE_GPU_ENABLED |-> "hardware_gpu_enabled",
                                HARDWARE_CPU_THREADS |-> "hardware_cpu_threads",
                                HARDWARE_MEMORY_BUDGET_BYTES |-> "hardware_memory_budget"])

\* A frequency or an interval of zero counts as one.
OverrideWal(c, env) ==
    LET frequent == IF Set(env, "WAL_CHECKPOINT_FREQUENCY")
                    THEN [c EXCEPT !.wal_checkpoint_frequency =
                                       AtLeastOne(env.WAL_CHECKPOINT_FREQUENCY)]
                    ELSE c
        timed == IF Set(env, "WAL_CHECKPOINT_INTERVAL_SECS")
                 THEN [frequent EXCEPT !.wal_checkpoint_interval_secs =
                                           AtLeastOne(env.WAL_CHECKPOINT_INTERVAL_SECS)]
                 ELSE frequent
    IN  FromEnv(timed, env, [WAL_ENABLED |-> "wal_enabled"])

OverrideMemory(c, env) ==
    FromEnv(c, env, [MEMORY_USE_MMAP |-> "memory_use_mmap",
                     MEMORY_INITIAL_MMAP_MB |-> "memory_initial_mmap_size"])

\* Fault: the threads are set first, and PARALLEL_SEARCH after them.
OverrideParallelismThreadsFirst(c, env) ==
    FromEnv(IF Set(env, "NUM_THREADS") THEN WithNumThreads(c, env.NUM_THREADS) ELSE c,
            env, [PARALLEL_SEARCH |-> "parallelism_parallel_search"])

\* NUM_THREADS has the last word on PARALLEL_SEARCH.
OverrideParallelism(c, env) ==
    LET searching == FromEnv(c, env, [PARALLEL_SEARCH |-> "parallelism_parallel_search"])
    IN  IF Set(env, "NUM_THREADS") THEN WithNumThreads(searching, env.NUM_THREADS)
        ELSE searching

OverrideExecution(c, env) == FromEnv(c, env, [EXECUTION_MODE |-> "execution"])

\* SEARCH_FILTER_EXPANSION is the old name.
OverrideSearch(c, env) ==
    LET overfetch == CASE Set(env, "SEARCH_FILTER_OVERFETCH") -> env.SEARCH_FILTER_OVERFETCH
                       [] ~Set(env, "SEARCH_FILTER_OVERFETCH")
                            /\ Set(env, "SEARCH_FILTER_EXPANSION") -> env.SEARCH_FILTER_EXPANSION
                       [] OTHER -> None
        fetching == IF overfetch = None THEN c
                    ELSE [c EXCEPT !.search_filter_overfetch = AtLeastOne(overfetch)]
    IN  FromEnv(fetching, env, [SEARCH_LATENCY_BUDGET_MS |-> "search_latency_budget_ms",
                                SEARCH_RECALL_TARGET |-> "search_recall_percent",
                                SEARCH_ADAPTIVE_ENABLED |-> "adaptive_enabled"])

\* QUANTIZATION_, LIMIT_, CACHE_ and LOG_ variables set their setting, no more.
PlainVariables ==
    [QUANTIZATION_STAGE |-> "quantization_stage",
     QUANTIZATION_PRESERVE_RAW |-> "quantization_preserve_raw_vectors",
     QUANTIZATION_STORAGE_ENABLED |-> "quantization_storage_enabled",
     QUANTIZATION_INDEX_ENABLED |-> "quantization_index_enabled",
     QUANTIZATION_QUERY_ENABLED |-> "quantization_query_enabled",
     QUANTIZATION_RESULT_ENABLED |-> "quantization_result_enabled",
     LIMIT_MAX_VECTORS |-> "limits_max_vectors", LIMIT_MAX_BYTES |-> "limits_max_bytes",
     LIMIT_MAX_VECTOR_BYTES |-> "limits_max_vector_bytes",
     CACHE_ENABLED |-> "cache_enabled", CACHE_MAX_SIZE |-> "cache_max_size",
     CACHE_TTL_SECONDS |-> "cache_ttl_seconds", CACHE_MAX_BYTES |-> "cache_max_bytes",
     LOG_LEVEL |-> "logging_level", LOG_SEARCH |-> "logging_search",
     LOG_INDEXING |-> "logging_indexing", LOG_WRITES |-> "logging_writes",
     LOG_INFERENCE |-> "logging_inference"]

\* What the process reads beside its AppConfig, when it starts and never again.
RuntimeVariables == {"PORT", "SLOW_QUERY_MS", "EMBEDDING_TIMEOUT_SECS", "DISK_MIN_FREE_BYTES",
                     "DISK_READONLY_ON_LOW_SPACE"}

\* What is consulted must parse: the INDEX_AUTO_ variables are not unless the
\* index is chosen by size, the old name is not beside the new one; INDEX_TYPE
\* and EXECUTION_MODE know everything but "auto".
Parses(c, env) ==
    LET bySize == ~Set(env, "INDEX_TYPE") /\ c.index_type = "auto"
        ignored == RuntimeVariables \union
                   (IF bySize THEN {} ELSE DOMAIN AutoVariables) \union
                   (IF Set(env, "SEARCH_FILTER_OVERFETCH") THEN {"SEARCH_FILTER_EXPANSION"}
                    ELSE {})
    IN  /\ \A name \in DOMAIN env \ ignored : env[name] # Garbage
        /\ \A name \in {"INDEX_TYPE", "EXECUTION_MODE"} : Set(env, name) => env[name] # "auto"

ApplyEnvOverrides(c, env) ==
    LET indexed == OverrideAuto(OverrideIndexType(c, env), env)
        stored == OverrideMemory(OverrideWal(OverrideHardware(indexed, env), env), env)
        running == OverrideExecution(OverrideParallelism(stored, env), env)
    IN  FromEnv(OverrideSearch(running, env), env, PlainVariables)

-----------------------------------------------------------------------------
(* Validation. *)

\* Fault: collections may grow into a graph without ever having had clusters.
ValidateAutoIndexEqual(c) ==
    /\ c.auto_flat_max_vectors > 0
    /\ c.auto_ivf_max_vectors >= c.auto_flat_max_vectors
    /\ 0 \notin {c.auto_ivf_num_clusters, c.auto_ivf_num_probes,
                 c.auto_ivf_max_iterations, c.auto_hnsw_m,
                 c.auto_hnsw_ef_construction, c.auto_hnsw_ef_search}

ValidateAutoIndex(c) ==
    /\ c.auto_flat_max_vectors > 0
    /\ c.auto_ivf_max_vectors > c.auto_flat_max_vectors
    /\ 0 \notin {c.auto_ivf_num_clusters, c.auto_ivf_num_probes,
                 c.auto_ivf_max_iterations, c.auto_hnsw_m,
                 c.auto_hnsw_ef_construction, c.auto_hnsw_ef_search}

\* The parameters of an index that the file names outright are not looked at.
Validate(c) ==
    /\ c.execution # "gpu"
    /\ c.quantization_level \notin {"int4", "float16"}
    /\ c.wal_enabled => c.wal_checkpoint_frequency > 0
    /\ c.search_filter_overfetch > 0
    /\ c.search_recall_percent \in {None} \union 0 .. 100
    /\ \A range \in {<<"adaptive_min_ef", "adaptive_max_ef">>,
                     <<"adaptive_min_nprobe", "adaptive_max_nprobe">>,
                     <<"adaptive_min_filter_overfetch", "adaptive_max_filter_overfetch">>} :
        0 < c[range[1]] /\ c[range[1]] <= c[range[2]]
    /\ c.memory_use_mmap => c.memory_initial_mmap_size > 0
    /\ c.index_type = "auto" => ValidateAutoIndex(c)
    /\ c.quantization_level = "none" =>
        /\ c.quantization_stage = "disabled"
        /\ \A use \in {"quantization_storage_enabled", "quantization_index_enabled",
                      "quantization_query_enabled", "quantization_result_enabled"} : ~c[use]
    /\ ~(c.hardware_gpu_enabled /\ c.execution = "scalar")

-----------------------------------------------------------------------------
(* Loading. *)

\* Without a CONFIG_FILE the defaults; file is the content, if it parses.
LoadFromFile(file, env) == IF Set(env, "CONFIG_FILE") THEN file ELSE Default

\* None where the process exits instead.
LoadAppConfig(file, env) ==
    LET base == LoadFromFile(file, env)
        c == ApplyEnvOverrides(base, env)
    IN  IF base # Garbage /\ Parses(base, env) /\ Validate(c) THEN c ELSE None

\* What the server starts with; a reload reads the AppConfig alone.
LoadRuntimeConfig(file, env) ==
    IF \E name \in DOMAIN env \intersect RuntimeVariables : env[name] = Garbage THEN None
    ELSE LoadAppConfig(file, env)
=============================================================================
