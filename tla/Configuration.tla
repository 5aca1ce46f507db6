---- MODULE Configuration ----
(***************************************************************************)
(* The production configuration: what the network-free preflight accepts   *)
(* (scripts/validate_production_config.py) against what the loaders of the  *)
(* service refuse when it starts (feedback/v2_settings.py,                  *)
(* summarization/settings.py, api/runtime.py, retrieval/runtime.py,         *)
(* retrieval/v2_retriever.py, config.py and their neighbours).  The two are *)
(* written separately in the code and are translated separately here.       *)
(*                                                                         *)
(* A value is a number or one of Absent, Blank, Malformed.  Fractional      *)
(* numbers are in thousandths (FEEDBACK_DWELL_MAX_ALPHA in millionths),     *)
(* booleans are 0 and 1, a name is the number that tells it from the other  *)
(* names, and the other texts are coded in an order in which every check    *)
(* accepts an interval: a range is a pair <<least, greatest>>.              *)
(***************************************************************************)
EXTENDS Integers, Sequences, FiniteSets, TLC

CONSTANTS Absent, Blank, Malformed, \* a variable that is not set, is blank, is not of its kind
          MaxEdits                  \* bound: variables an operator changes

ASSUME EditsAssumption == MaxEdits \in Nat

Unbounded == 2000000000  \* stands for no upper bound; every probe is below it
Safe == <<0, 99>>        \* _SAFE_NAME
Flag == <<0, 1>>
On == <<1, 1>>
Off == <<0, 0>>

(* ---- deploy/production.env.example with its placeholders replaced ------ *)
TemplateFeedback ==
  [APP_ENV |-> 1, V2_FEEDBACK_CONSUMER_REQUIRED |-> 1, INTERNAL_API_HEADER |-> 1, INTERNAL_API_SECRET |-> 1,
   REDIS_AUTH_MODE |-> 1, REDIS_URL |-> 0, FEEDBACK_ALLOW_MEMORY_FALLBACK |-> 0, FEEDBACK_STREAM_NAME |-> 1,
   FEEDBACK_STREAM_MAXLEN |-> 100000, FEEDBACK_CONSUMER_GROUP |-> 4, FEEDBACK_CONSUMER_PREFIX |-> 5,
   FEEDBACK_CONSUMER_HEARTBEAT_KEY |-> 3, FEEDBACK_CONSUMER_HEARTBEAT_TTL_SECONDS |-> 15,
   FEEDBACK_IDEMPOTENCY_TTL_SECONDS |-> 2592000, FEEDBACK_READ_BATCH_SIZE |-> 20, FEEDBACK_CONSUMER_WORKERS |-> 4,
   FEEDBACK_READ_BLOCK_MS |-> 1000, FEEDBACK_RECLAIM_IDLE_MS |-> 30000, FEEDBACK_MAX_DELIVERY_ATTEMPTS |-> 5,
   FEEDBACK_USER_LOCK_PREFIX |-> 6, FEEDBACK_USER_LOCK_TTL_SECONDS |-> 30000, FEEDBACK_USER_LOCK_WAIT_SECONDS |-> 2000,
   FEEDBACK_USER_LOCK_RENEW_INTERVAL_SECONDS |-> 10000, FEEDBACK_DEAD_LETTER_STREAM |-> 2,
   FEEDBACK_DEAD_LETTER_MAXLEN |-> 10000, FEEDBACK_REJECTION_HISTORY_SIZE |-> 64,
   FEEDBACK_MAX_TRACKED_REPOSITORIES |-> 256, FEEDBACK_MAX_USER_STATE_BYTES |-> 1000000,
   FEEDBACK_QDRANT_TIMEOUT_SECONDS |-> 10000, FEEDBACK_DWELL_MIN_SECONDS |-> 3000,
   FEEDBACK_DWELL_FULL_CREDIT_SECONDS |-> 300000, FEEDBACK_DWELL_MAX_ALPHA |-> 150000,
   FEEDBACK_HEALTH_WARN_PENDING |-> 1000, FEEDBACK_HEALTH_MAX_PENDING |-> 10000, FEEDBACK_HEALTH_WARN_LAG |-> 10000,
   FEEDBACK_HEALTH_MAX_LAG |-> 50000, FEEDBACK_HEALTH_WARN_STREAM_LENGTH |-> 80000,
   FEEDBACK_HEALTH_MAX_STREAM_LENGTH |-> 100000, FEEDBACK_HEALTH_WARN_DEAD_LETTER |-> 1,
   FEEDBACK_HEALTH_MAX_DEAD_LETTER |-> 1000]

TemplateModel ==
  [QDRANT_URL |-> 0, QDRANT_AUTH_MODE |-> 1, QDRANT_API_KEY |-> 0, QDRANT_TIMEOUT_SECONDS |-> 10000, QDRANT_DISTANCE |-> 1,
   QDRANT_COLLECTION_NAME |-> 7, QDRANT_VECTOR_NAME |-> 9, USER_PROFILES_COLLECTION |-> 8, VECTOR_DIMENSION |-> 384,
   V2_USER_COLLECTION_REQUIRED |-> 1, EMBEDDING_MODEL |-> 2, EMBEDDING_MODEL_REVISION |-> 1,
   REPOSITORY_EMBEDDING_VERSION |-> 1, V2_COMPATIBLE_EMBEDDING_VERSIONS |-> 1, REPOSITORY_FEATURE_SPEC_VERSION |-> 1,
   V2_REQUIRED_FEATURE_SPEC_VERSION |-> 1, V2_REQUIRED_CONTENT_VERSION |-> 1, V2_ALLOW_MISSING_EMBEDDING_REVISION |-> 0,
   MIN_ELIGIBLE_REPOSITORIES |-> 1000, README_CHUNK_CHARS |-> 2500, README_CHUNK_OVERLAP_CHARS |-> 250,
   SUMMARY_PROVIDER |-> 1, SUMMARY_API_URL |-> 1, SUMMARY_API_KEY |-> 0, SUMMARY_MODEL_ID |-> 0,
   SUMMARY_PROMPT_VERSION |-> 1, SUMMARY_FORMAT_VERSION |-> 1, SUMMARY_INPUT_MAX_CHARS |-> 12000,
   SUMMARY_TEMPERATURE |-> 100, SUMMARY_MAX_OUTPUT_TOKENS |-> 240, SUMMARY_REQUEST_TIMEOUT_SECONDS |-> 30000,
   SUMMARY_RPM_LIMIT |-> 60000, SUMMARY_TPM_LIMIT |-> 120000, SUMMARY_FAILURE_THRESHOLD |-> 3,
   SUMMARY_COOLDOWN_SECONDS |-> 30000, SUMMARY_MAX_RETRIES |-> 2, SUMMARY_RETRY_BASE_SECONDS |-> 1000,
   EMBEDDING_WARMUP_ON_STARTUP |-> 1, EMBEDDING_TIMEOUT_SECONDS |-> 30000, EMBEDDING_MAX_CONCURRENCY |-> 1,
   EMBEDDING_EXECUTOR_WORKERS |-> 1, EMBEDDING_MAX_OUTSTANDING_JOBS |-> 4, EMBEDDING_CPU_THREADS |-> 1,
   HF_HUB_OFFLINE |-> 1, TRANSFORMERS_OFFLINE |-> 1]

TemplateServing ==
  [ML_MODEL_VERSION |-> 1, V2_HEAVY_RANKER_ENABLED |-> 1, V2_HEAVY_RANKER_DEVICE |-> 0, V2_HEAVY_RANKER_REQUIRED |-> 1,
   V2_HEAVY_RANKER_TRAFFIC_PERCENT |-> 100000, V2_ALLOW_UNQUALIFIED_HEAVY_RANKER |-> 0,
   V2_HEAVY_RANKER_CANARY_SALT |-> 10, V2_EXPLORATION_FRACTION |-> 333, V2_MAX_SAME_LANGUAGE |-> 5,
   V2_RECOMMENDATION_TIMEOUT_SECONDS |-> 12000, V2_HEALTH_TIMEOUT_SECONDS |-> 5000,
   V2_RECOMMENDATION_EXECUTOR_WORKERS |-> 4, V2_RECOMMENDATION_MAX_OUTSTANDING |-> 8, V2_RETRIEVAL_IO_WORKERS |-> 4,
   V2_RETRIEVAL_IO_MAX_OUTSTANDING |-> 8, V2_FEEDBACK_EXECUTOR_WORKERS |-> 2, V2_FEEDBACK_MAX_OUTSTANDING |-> 8,
   V2_FEEDBACK_TIMEOUT_SECONDS |-> 8000, V2_REFRESH_EXECUTOR_WORKERS |-> 2, V2_REFRESH_MAX_OUTSTANDING |-> 4,
   V2_REFRESH_TIMEOUT_SECONDS |-> 45000, V2_SEARCH_EXECUTOR_WORKERS |-> 1, V2_SEARCH_MAX_OUTSTANDING |-> 4,
   V2_SEARCH_TIMEOUT_SECONDS |-> 4000, V2_HEALTH_EXECUTOR_WORKERS |-> 2, V2_HEALTH_MAX_OUTSTANDING |-> 4,
   REPOSITORY_JOB_LOCK_TTL_MS |-> 600000, REPOSITORY_JOB_LOCK_WAIT_SECONDS |-> 30000, ML_SMOKE_USER_ID |-> 1,
   ML_SMOKE_RECOMMENDATION_LIMIT |-> 3, ML_SMOKE_EXPECT_MIN_ITEMS |-> 1, ML_SMOKE_TIMEOUT_SECONDS |-> 10000,
   V2_SOCIAL_CANDIDATE_MODE |-> 0, V2_SOCIAL_CANDIDATE_TRAFFIC_PERCENT |-> 0, V2_DIVERSITY_MODE |-> 0,
   V2_DIVERSITY_TRAFFIC_PERCENT |-> 0, V2_DIVERSITY_RELEVANCE_WEIGHT |-> 700, V2_DIVERSITY_DUPLICATE_COSINE |-> 980,
   V2_DIVERSITY_MAX_PER_OWNER |-> 2, V2_DIVERSITY_MAX_PER_TOPIC |-> 5, V2_DIVERSITY_MAX_PER_CATEGORY |-> 8,
   V2_DIVERSITY_MAX_PER_FAMILY |-> 1, V2_DIVERSITY_MIN_EXPLORATION |-> 2, CORPUS_AUTHORITY_ENABLED |-> 0,
   CORPUS_AUTHORITY_MANAGED_BOUNDARY |-> Blank]

\* Credentials of the offline jobs, which the online file must not hold.
Forbidden == {"DATABASE_URL", "TEST_DATABASE_URL", "LOCAL_DATABASE_URL", "SUPABASE_DATABASE_URL", "GITHUB_TOKEN",
              "OPENROUTER_API_KEY", "GROQ_API_KEY"}

\* Variables the image sets and the file must leave alone.
ImageOwned == {"ML_RELEASE_ID", "BAKED_ML_RELEASE_ID", "BAKED_EMBEDDING_MODEL", "BAKED_EMBEDDING_MODEL_REVISION"}
Image == [ML_RELEASE_ID |-> 1, BAKED_ML_RELEASE_ID |-> 1, BAKED_EMBEDDING_MODEL |-> 2, BAKED_EMBEDDING_MODEL_REVISION |-> 1]

\* Variables one of the two sides reads and the template does not set.
Unset == {"USER_PROFILE_VECTOR_NAME", "USER_PROFILES_VECTOR_NAME", "TARGET_VECTOR_NAME", "INFERENCE_WARMUP_TIMEOUT_SECONDS",
          "V2_HEALTH_REFRESH_SECONDS", "V2_HEALTH_MAX_AGE_SECONDS", "SUMMARY_SOURCE_OVERFLOW_POLICY",
          "V2_CANDIDATE_VECTOR_MODE", "V2_REPOSITORY_LIFECYCLE_POLICY", "MIN_DWELL_SECONDS", "MAX_DWELL_SECONDS",
          "DWELL_BASE_ALPHA"} \cup Forbidden \cup ImageOwned

Template == TemplateFeedback @@ TemplateModel @@ TemplateServing @@ [x \in Unset |-> Absent]
Names == DOMAIN Template

\* The list V2_COMPATIBLE_EMBEDDING_VERSIONS stands for, by its code.
Compatible == << <<1>>, <<1, 2>>, <<2>>, <<1, 1>>, <<>>, [i \in 1..9 |-> i] >>

(* ---- the preflight ------------------------------------------------------ *)
In(v, range) == v \notin {Absent, Blank, Malformed} /\ range[1] <= v /\ v <= range[2]

CheckedFeedback ==
  [FEEDBACK_CONSUMER_WORKERS |-> <<1, 16>>, REDIS_URL |-> Off, REDIS_AUTH_MODE |-> On,
   FEEDBACK_ALLOW_MEMORY_FALLBACK |-> Off, FEEDBACK_STREAM_NAME |-> Safe, FEEDBACK_STREAM_MAXLEN |-> <<100, 100000000>>,
   FEEDBACK_CONSUMER_GROUP |-> Safe, FEEDBACK_CONSUMER_PREFIX |-> Safe, FEEDBACK_CONSUMER_HEARTBEAT_KEY |-> Safe,
   FEEDBACK_CONSUMER_HEARTBEAT_TTL_SECONDS |-> <<5, 3600>>, FEEDBACK_READ_BATCH_SIZE |-> <<1, 1000>>,
   FEEDBACK_READ_BLOCK_MS |-> <<10, 60000>>, FEEDBACK_RECLAIM_IDLE_MS |-> <<1000, 86400000>>,
   FEEDBACK_IDEMPOTENCY_TTL_SECONDS |-> <<3600, 31536000>>, FEEDBACK_USER_LOCK_TTL_SECONDS |-> <<5000, 3600000>>,
   FEEDBACK_USER_LOCK_WAIT_SECONDS |-> <<100, 300000>>, FEEDBACK_USER_LOCK_RENEW_INTERVAL_SECONDS |-> <<50, 1800000>>,
   FEEDBACK_MAX_DELIVERY_ATTEMPTS |-> <<1, 100>>, FEEDBACK_DEAD_LETTER_STREAM |-> Safe,
   FEEDBACK_DEAD_LETTER_MAXLEN |-> <<10, 10000000>>, FEEDBACK_USER_LOCK_PREFIX |-> Safe,
   FEEDBACK_REJECTION_HISTORY_SIZE |-> <<1, 1000>>, FEEDBACK_MAX_TRACKED_REPOSITORIES |-> <<1, 512>>,
   FEEDBACK_MAX_USER_STATE_BYTES |-> <<65536, 2000000>>, FEEDBACK_QDRANT_TIMEOUT_SECONDS |-> <<100, 120000>>,
   FEEDBACK_DWELL_MIN_SECONDS |-> <<0, 300000>>, FEEDBACK_DWELL_FULL_CREDIT_SECONDS |-> <<1, 300000>>,
   FEEDBACK_DWELL_MAX_ALPHA |-> <<1, 150000>>, FEEDBACK_HEALTH_WARN_PENDING |-> <<0, 100000000>>,
   FEEDBACK_HEALTH_MAX_PENDING |-> <<1, 100000000>>, FEEDBACK_HEALTH_WARN_LAG |-> <<0, 100000000>>,
   FEEDBACK_HEALTH_MAX_LAG |-> <<1, 100000000>>, FEEDBACK_HEALTH_WARN_STREAM_LENGTH |-> <<0, 100000000>>,
   FEEDBACK_HEALTH_MAX_STREAM_LENGTH |-> <<1, 100000000>>, FEEDBACK_HEALTH_WARN_DEAD_LETTER |-> <<0, 10000000>>,
   FEEDBACK_HEALTH_MAX_DEAD_LETTER |-> <<1, 10000000>>]

\* The rules of _validate_feedback between fields; ttl * 1000 < idle * 2 is
\* written with a division, which keeps it within the arithmetic of TLC.
FeedbackAgrees(v) ==
  /\ v.FEEDBACK_STREAM_NAME # v.FEEDBACK_DEAD_LETTER_STREAM
  /\ v.FEEDBACK_CONSUMER_HEARTBEAT_KEY \notin {v.FEEDBACK_STREAM_NAME, v.FEEDBACK_DEAD_LETTER_STREAM}
  /\ v.FEEDBACK_RECLAIM_IDLE_MS > v.FEEDBACK_READ_BLOCK_MS
  /\ v.FEEDBACK_USER_LOCK_TTL_SECONDS > v.FEEDBACK_USER_LOCK_WAIT_SECONDS
  /\ 2 * v.FEEDBACK_USER_LOCK_RENEW_INTERVAL_SECONDS < v.FEEDBACK_USER_LOCK_TTL_SECONDS
  /\ v.FEEDBACK_CONSUMER_HEARTBEAT_TTL_SECONDS * 1000 > v.FEEDBACK_READ_BLOCK_MS
  /\ v.FEEDBACK_DWELL_FULL_CREDIT_SECONDS > v.FEEDBACK_DWELL_MIN_SECONDS
  /\ v.FEEDBACK_IDEMPOTENCY_TTL_SECONDS > (2 * v.FEEDBACK_RECLAIM_IDLE_MS - 1) \div 1000
  /\ v.FEEDBACK_HEALTH_WARN_PENDING <= v.FEEDBACK_HEALTH_MAX_PENDING
  /\ v.FEEDBACK_HEALTH_WARN_LAG <= v.FEEDBACK_HEALTH_MAX_LAG
  /\ v.FEEDBACK_HEALTH_WARN_STREAM_LENGTH <= v.FEEDBACK_HEALTH_MAX_STREAM_LENGTH
  /\ v.FEEDBACK_HEALTH_WARN_DEAD_LETTER <= v.FEEDBACK_HEALTH_MAX_DEAD_LETTER
  /\ v.FEEDBACK_HEALTH_MAX_STREAM_LENGTH >= v.FEEDBACK_STREAM_MAXLEN
  /\ v.FEEDBACK_HEALTH_MAX_DEAD_LETTER <= v.FEEDBACK_DEAD_LETTER_MAXLEN
  /\ v.FEEDBACK_READ_BATCH_SIZE <= v.FEEDBACK_STREAM_MAXLEN

CheckedVectorAndModel ==
  [QDRANT_URL |-> Off, QDRANT_AUTH_MODE |-> On, QDRANT_API_KEY |-> Off, QDRANT_COLLECTION_NAME |-> <<7, 7>>,
   QDRANT_TIMEOUT_SECONDS |-> <<1000, 120000>>, QDRANT_DISTANCE |-> On, QDRANT_VECTOR_NAME |-> Safe,
   USER_PROFILES_COLLECTION |-> Safe, VECTOR_DIMENSION |-> <<384, 384>>, V2_USER_COLLECTION_REQUIRED |-> On,
   EMBEDDING_MODEL |-> <<1, 2>>, EMBEDDING_MODEL_REVISION |-> Safe, REPOSITORY_EMBEDDING_VERSION |-> Safe,
   V2_COMPATIBLE_EMBEDDING_VERSIONS |-> <<1, 6>>, V2_REQUIRED_CONTENT_VERSION |-> <<1, Unbounded>>,
   REPOSITORY_FEATURE_SPEC_VERSION |-> Safe, V2_REQUIRED_FEATURE_SPEC_VERSION |-> Safe,
   MIN_ELIGIBLE_REPOSITORIES |-> <<1, 100000000>>, README_CHUNK_CHARS |-> <<128, 100000>>,
   README_CHUNK_OVERLAP_CHARS |-> <<0, 99999>>, V2_ALLOW_MISSING_EMBEDDING_REVISION |-> Off,
   EMBEDDING_WARMUP_ON_STARTUP |-> On, INFERENCE_WARMUP_TIMEOUT_SECONDS |-> <<100, 300000>>,
   EMBEDDING_MAX_CONCURRENCY |-> <<1, 8>>, EMBEDDING_TIMEOUT_SECONDS |-> <<100, 300000>>,
   EMBEDDING_EXECUTOR_WORKERS |-> <<1, 8>>, EMBEDDING_MAX_OUTSTANDING_JOBS |-> <<1, 64>>,
   EMBEDDING_CPU_THREADS |-> <<1, 64>>, HF_HUB_OFFLINE |-> On, TRANSFORMERS_OFFLINE |-> On]

\* BAKED_* are blank when the file is checked and the image's in its container.
VectorAndModelAgree(v) ==
  LET versions == Compatible[v.V2_COMPATIBLE_EMBEDDING_VERSIONS]
  IN  /\ v.USER_PROFILE_VECTOR_NAME \in {Absent, Blank}
      /\ v.QDRANT_COLLECTION_NAME # v.USER_PROFILES_COLLECTION
      /\ v.BAKED_EMBEDDING_MODEL \in {Absent, Blank, v.EMBEDDING_MODEL}
      /\ v.BAKED_EMBEDDING_MODEL_REVISION \in {Absent, Blank, v.EMBEDDING_MODEL_REVISION}
      /\ versions # <<>>
      /\ \A i, j \in DOMAIN versions : versions[i] = versions[j] => i = j
      /\ \E i \in DOMAIN versions : versions[i] = v.REPOSITORY_EMBEDDING_VERSION
      /\ v.REPOSITORY_FEATURE_SPEC_VERSION = v.V2_REQUIRED_FEATURE_SPEC_VERSION
      /\ v.README_CHUNK_OVERLAP_CHARS < v.README_CHUNK_CHARS
      /\ v.EMBEDDING_MAX_OUTSTANDING_JOBS >= v.EMBEDDING_EXECUTOR_WORKERS

\* SUMMARY_API_URL is 0 for the official OpenAI endpoint, 1 for another https URL.
CheckedSummary ==
  [SUMMARY_SOURCE_OVERFLOW_POLICY |-> <<1, 2>>, SUMMARY_PROVIDER |-> <<1, 2>>, SUMMARY_API_URL |-> <<0, 1>>,
   SUMMARY_API_KEY |-> Off, SUMMARY_MODEL_ID |-> Off, SUMMARY_PROMPT_VERSION |-> On, SUMMARY_FORMAT_VERSION |-> On,
   SUMMARY_INPUT_MAX_CHARS |-> <<1000, 30000>>, SUMMARY_TEMPERATURE |-> <<0, 200>>,
   SUMMARY_MAX_OUTPUT_TOKENS |-> <<64, 512>>, SUMMARY_REQUEST_TIMEOUT_SECONDS |-> <<100, 30000>>,
   SUMMARY_RPM_LIMIT |-> <<10, 600000>>, SUMMARY_MAX_RETRIES |-> <<0, 2>>, SUMMARY_RETRY_BASE_SECONDS |-> <<100, 1000>>]

SummaryAgrees(v) == v.SUMMARY_PROVIDER = 2 => v.SUMMARY_API_URL = 0

CheckedRankerAndRetrieval ==
  [V2_HEAVY_RANKER_DEVICE |-> <<0, 2>>, V2_HEAVY_RANKER_ENABLED |-> On, V2_HEAVY_RANKER_REQUIRED |-> On,
   V2_ALLOW_UNQUALIFIED_HEAVY_RANKER |-> Off, V2_HEAVY_RANKER_TRAFFIC_PERCENT |-> <<100000, 100000>>,
   V2_HEAVY_RANKER_CANARY_SALT |-> Safe, V2_EXPLORATION_FRACTION |-> <<0, 500>>, V2_MAX_SAME_LANGUAGE |-> <<1, 100>>,
   V2_RECOMMENDATION_TIMEOUT_SECONDS |-> <<100, 120000>>, V2_HEALTH_TIMEOUT_SECONDS |-> <<100, 30000>>,
   V2_HEALTH_REFRESH_SECONDS |-> <<1000, 300000>>, V2_HEALTH_MAX_AGE_SECONDS |-> <<1000, 600000>>,
   V2_RETRIEVAL_IO_WORKERS |-> <<1, 32>>, V2_RETRIEVAL_IO_MAX_OUTSTANDING |-> <<1, 128>>,
   V2_RECOMMENDATION_EXECUTOR_WORKERS |-> <<1, 32>>, V2_RECOMMENDATION_MAX_OUTSTANDING |-> <<1, 64>>,
   V2_SEARCH_EXECUTOR_WORKERS |-> <<1, 4>>, V2_SEARCH_MAX_OUTSTANDING |-> <<1, 16>>, V2_SEARCH_TIMEOUT_SECONDS |-> <<100, 10000>>,
   V2_FEEDBACK_EXECUTOR_WORKERS |-> <<1, 8>>, V2_FEEDBACK_MAX_OUTSTANDING |-> <<1, 64>>,
   V2_FEEDBACK_TIMEOUT_SECONDS |-> <<100, 30000>>, V2_REFRESH_EXECUTOR_WORKERS |-> <<1, 8>>,
   V2_REFRESH_MAX_OUTSTANDING |-> <<1, 32>>, V2_REFRESH_TIMEOUT_SECONDS |-> <<100, 120000>>,
   V2_HEALTH_EXECUTOR_WORKERS |-> <<1, 4>>, V2_HEALTH_MAX_OUTSTANDING |-> <<1, 16>>]

RankerAndRetrievalAgree(v) ==
  /\ v.ML_MODEL_VERSION \notin {Absent, Blank}
  /\ v.V2_HEALTH_MAX_AGE_SECONDS >= v.V2_HEALTH_REFRESH_SECONDS + 2 * v.V2_HEALTH_TIMEOUT_SECONDS
  /\ v.V2_RETRIEVAL_IO_MAX_OUTSTANDING >= v.V2_RETRIEVAL_IO_WORKERS
  /\ v.V2_RECOMMENDATION_MAX_OUTSTANDING >= v.V2_RECOMMENDATION_EXECUTOR_WORKERS
  /\ v.V2_SEARCH_MAX_OUTSTANDING >= v.V2_SEARCH_EXECUTOR_WORKERS
  /\ v.V2_FEEDBACK_MAX_OUTSTANDING >= v.V2_FEEDBACK_EXECUTOR_WORKERS
  /\ v.V2_REFRESH_MAX_OUTSTANDING >= v.V2_REFRESH_EXECUTOR_WORKERS
  /\ v.V2_HEALTH_MAX_OUTSTANDING >= v.V2_HEALTH_EXECUTOR_WORKERS

CheckedLocksAndSmoke ==
  [REPOSITORY_JOB_LOCK_TTL_MS |-> <<5000, 3600000>>, REPOSITORY_JOB_LOCK_WAIT_SECONDS |-> <<100, 300000>>,
   ML_SMOKE_USER_ID |-> On, ML_SMOKE_RECOMMENDATION_LIMIT |-> <<1, 15>>, ML_SMOKE_EXPECT_MIN_ITEMS |-> <<1, 15>>,
   ML_SMOKE_TIMEOUT_SECONDS |-> <<1000, 30000>>]

LocksAndSmokeAgree(v) == /\ v.REPOSITORY_JOB_LOCK_TTL_MS > v.REPOSITORY_JOB_LOCK_WAIT_SECONDS
                         /\ v.ML_SMOKE_EXPECT_MIN_ITEMS <= v.ML_SMOKE_RECOMMENDATION_LIMIT

CheckedProcess == [APP_ENV |-> On, V2_FEEDBACK_CONSUMER_REQUIRED |-> On, INTERNAL_API_HEADER |-> On, INTERNAL_API_SECRET |-> On]

Checked == CheckedProcess @@ CheckedFeedback @@ CheckedVectorAndModel @@ CheckedSummary
           @@ CheckedRankerAndRetrieval @@ CheckedLocksAndSmoke

\* What the preflight reads in place of a variable that is absent; a blank one
\* reads like an absent one but where the default is for absence alone.
CheckDefaults == [INFERENCE_WARMUP_TIMEOUT_SECONDS |-> 120000, V2_HEALTH_REFRESH_SECONDS |-> 15000,
                  V2_HEALTH_MAX_AGE_SECONDS |-> 45000, FEEDBACK_CONSUMER_WORKERS |-> Absent]
CheckDefaultsIfAbsent == [V2_RETRIEVAL_IO_WORKERS |-> 4, V2_RETRIEVAL_IO_MAX_OUTSTANDING |-> 8,
                          V2_HEAVY_RANKER_DEVICE |-> 0, SUMMARY_SOURCE_OVERFLOW_POLICY |-> Absent]

\* Mutant: a blank value reads like an absent one everywhere.
CheckDefaultedBlank(e, x) == x \in DOMAIN (CheckDefaults @@ CheckDefaultsIfAbsent) /\ e[x] \in {Absent, Blank}
CheckDefaulted(e, x) == \/ x \in DOMAIN CheckDefaults /\ e[x] \in {Absent, Blank}
                        \/ x \in DOMAIN CheckDefaultsIfAbsent /\ e[x] = Absent
CheckValue(e, x) == IF CheckDefaulted(e, x) THEN (CheckDefaults @@ CheckDefaultsIfAbsent)[x] ELSE e[x]

\* validate_production_config: the release is the image's, or nothing of the
\* image's is in the file; every field is in its range and the fields agree.
PreflightAccepts(e, isFile) ==
  LET v == [x \in Names |-> CheckValue(e, x)]
  IN  /\ IF isFile THEN \A x \in ImageOwned : e[x] = Absent
                   ELSE /\ e.ML_RELEASE_ID \notin {Absent, Blank, Malformed}
                        /\ e.ML_RELEASE_ID = e.BAKED_ML_RELEASE_ID
      /\ \A x \in Forbidden : e[x] \in {Absent, Blank}
      /\ \A x \in DOMAIN Checked : CheckDefaulted(e, x) \/ In(e[x], Checked[x])
      /\ FeedbackAgrees(v) /\ VectorAndModelAgree(v) /\ SummaryAgrees(v)
      /\ RankerAndRetrievalAgree(v) /\ LocksAndSmokeAgree(v)

(* ---- the loaders -------------------------------------------------------- *)
LoadedFeedback ==
  [APP_ENV |-> <<1, 3>>, REDIS_URL |-> <<0, 1>>, REDIS_AUTH_MODE |-> On, FEEDBACK_STREAM_NAME |-> Safe,
   FEEDBACK_STREAM_MAXLEN |-> <<100, 100000000>>, FEEDBACK_DEAD_LETTER_STREAM |-> Safe,
   FEEDBACK_DEAD_LETTER_MAXLEN |-> <<10, 10000000>>, FEEDBACK_CONSUMER_HEARTBEAT_KEY |-> Safe,
   FEEDBACK_RECLAIM_IDLE_MS |-> <<1000, 86400000>>, FEEDBACK_IDEMPOTENCY_TTL_SECONDS |-> <<3600, 31536000>>,
   FEEDBACK_USER_LOCK_TTL_SECONDS |-> <<5000, 3600000>>, FEEDBACK_USER_LOCK_RENEW_INTERVAL_SECONDS |-> <<50, 1200000>>,
   FEEDBACK_DWELL_MIN_SECONDS |-> <<0, 300000>>, FEEDBACK_DWELL_FULL_CREDIT_SECONDS |-> <<1, 300000>>,
   FEEDBACK_HEALTH_WARN_PENDING |-> <<0, Unbounded>>, FEEDBACK_HEALTH_MAX_PENDING |-> <<1, Unbounded>>,
   FEEDBACK_HEALTH_WARN_LAG |-> <<0, Unbounded>>, FEEDBACK_HEALTH_MAX_LAG |-> <<1, Unbounded>>,
   FEEDBACK_HEALTH_WARN_STREAM_LENGTH |-> <<0, Unbounded>>, FEEDBACK_HEALTH_MAX_STREAM_LENGTH |-> <<1, Unbounded>>,
   FEEDBACK_HEALTH_WARN_DEAD_LETTER |-> <<0, Unbounded>>, FEEDBACK_HEALTH_MAX_DEAD_LETTER |-> <<1, Unbounded>>]

LoadedConsumer ==
  [QDRANT_URL |-> <<0, 1>>, FEEDBACK_CONSUMER_WORKERS |-> <<1, 16>>, FEEDBACK_CONSUMER_GROUP |-> Safe,
   FEEDBACK_CONSUMER_PREFIX |-> Safe, FEEDBACK_CONSUMER_HEARTBEAT_TTL_SECONDS |-> <<5, 3600>>,
   FEEDBACK_READ_BATCH_SIZE |-> <<1, 1000>>, FEEDBACK_READ_BLOCK_MS |-> <<10, 60000>>, FEEDBACK_USER_LOCK_PREFIX |-> Safe,
   FEEDBACK_USER_LOCK_WAIT_SECONDS |-> <<100, 300000>>, FEEDBACK_MAX_DELIVERY_ATTEMPTS |-> <<1, 100>>,
   FEEDBACK_REJECTION_HISTORY_SIZE |-> <<1, 1000>>, FEEDBACK_MAX_TRACKED_REPOSITORIES |-> <<1, 512>>,
   FEEDBACK_MAX_USER_STATE_BYTES |-> <<65536, 2000000>>, FEEDBACK_QDRANT_TIMEOUT_SECONDS |-> <<100, 120000>>,
   QDRANT_VECTOR_NAME |-> Safe, USER_PROFILES_COLLECTION |-> Safe, FEEDBACK_DWELL_MAX_ALPHA |-> <<1, 150000>>]

FeedbackLoads(v) ==
  /\ v.FEEDBACK_DEAD_LETTER_STREAM # v.FEEDBACK_STREAM_NAME
  /\ v.FEEDBACK_CONSUMER_HEARTBEAT_KEY \notin {v.FEEDBACK_STREAM_NAME, v.FEEDBACK_DEAD_LETTER_STREAM}
  /\ v.FEEDBACK_IDEMPOTENCY_TTL_SECONDS > (2 * v.FEEDBACK_RECLAIM_IDLE_MS - 1) \div 1000
  /\ 2 * v.FEEDBACK_USER_LOCK_RENEW_INTERVAL_SECONDS < v.FEEDBACK_USER_LOCK_TTL_SECONDS
  /\ v.FEEDBACK_DWELL_FULL_CREDIT_SECONDS > v.FEEDBACK_DWELL_MIN_SECONDS
  /\ v.FEEDBACK_HEALTH_WARN_PENDING <= v.FEEDBACK_HEALTH_MAX_PENDING
  /\ v.FEEDBACK_HEALTH_WARN_LAG <= v.FEEDBACK_HEALTH_MAX_LAG
  /\ v.FEEDBACK_HEALTH_WARN_STREAM_LENGTH <= v.FEEDBACK_HEALTH_MAX_STREAM_LENGTH
  /\ v.FEEDBACK_HEALTH_WARN_DEAD_LETTER <= v.FEEDBACK_HEALTH_MAX_DEAD_LETTER

\* _validate_cross_fields
CrossFields(v) ==
  /\ v.FEEDBACK_RECLAIM_IDLE_MS > v.FEEDBACK_READ_BLOCK_MS
  /\ v.FEEDBACK_CONSUMER_HEARTBEAT_TTL_SECONDS * 1000 > v.FEEDBACK_READ_BLOCK_MS
  /\ v.FEEDBACK_USER_LOCK_TTL_SECONDS > v.FEEDBACK_USER_LOCK_WAIT_SECONDS
  /\ v.FEEDBACK_READ_BATCH_SIZE <= v.FEEDBACK_STREAM_MAXLEN
  /\ v.FEEDBACK_HEALTH_MAX_STREAM_LENGTH >= v.FEEDBACK_STREAM_MAXLEN
  /\ v.FEEDBACK_HEALTH_MAX_DEAD_LETTER <= v.FEEDBACK_DEAD_LETTER_MAXLEN

\* The name of the users' vector: the first of three variables that is set.
UserVector(v) ==
  LET set == SelectSeq(<<"USER_PROFILE_VECTOR_NAME", "USER_PROFILES_VECTOR_NAME", "TARGET_VECTOR_NAME">>,
                       LAMBDA x : v[x] # Absent)
  IN  IF set = <<>> THEN Blank ELSE v[set[1]]

\* SummarySettings.from_env and its __post_init__
LoadedSummary ==
  [SUMMARY_PROVIDER |-> <<1, 2>>, SUMMARY_API_URL |-> <<0, 2>>, SUMMARY_MODEL_ID |-> <<0, 1>>, SUMMARY_PROMPT_VERSION |-> On,
   SUMMARY_FORMAT_VERSION |-> On, SUMMARY_INPUT_MAX_CHARS |-> <<1000, 30000>>, SUMMARY_SOURCE_OVERFLOW_POLICY |-> <<1, 2>>,
   SUMMARY_TEMPERATURE |-> <<0, 200>>, SUMMARY_MAX_OUTPUT_TOKENS |-> <<64, 512>>,
   SUMMARY_REQUEST_TIMEOUT_SECONDS |-> <<100, 30000>>, SUMMARY_RPM_LIMIT |-> <<10, 600000>>,
   SUMMARY_TPM_LIMIT |-> <<1, 10000000>>, SUMMARY_FAILURE_THRESHOLD |-> <<1, 20>>,
   SUMMARY_COOLDOWN_SECONDS |-> <<1000, 300000>>, SUMMARY_MAX_RETRIES |-> <<0, 2>>,
   SUMMARY_RETRY_BASE_SECONDS |-> <<100, 1000>>]

SummaryLoads(v) == v.SUMMARY_PROVIDER = 2 => v.SUMMARY_API_URL = 0

\* The bounded executors of the four operations.
LoadedServices ==
  [V2_SEARCH_EXECUTOR_WORKERS |-> <<1, 4>>, V2_SEARCH_MAX_OUTSTANDING |-> <<1, 16>>, V2_SEARCH_TIMEOUT_SECONDS |-> <<100, 10000>>,
   V2_FEEDBACK_EXECUTOR_WORKERS |-> <<1, 8>>, V2_FEEDBACK_MAX_OUTSTANDING |-> <<1, 64>>,
   V2_FEEDBACK_TIMEOUT_SECONDS |-> <<100, 30000>>, V2_REFRESH_EXECUTOR_WORKERS |-> <<1, 8>>,
   V2_REFRESH_MAX_OUTSTANDING |-> <<1, 32>>, V2_REFRESH_TIMEOUT_SECONDS |-> <<100, 120000>>,
   V2_HEALTH_EXECUTOR_WORKERS |-> <<1, 4>>, V2_HEALTH_MAX_OUTSTANDING |-> <<1, 16>>]

ServicesLoad(v) == /\ v.V2_SEARCH_MAX_OUTSTANDING >= v.V2_SEARCH_EXECUTOR_WORKERS
                   /\ v.V2_FEEDBACK_MAX_OUTSTANDING >= v.V2_FEEDBACK_EXECUTOR_WORKERS
                   /\ v.V2_REFRESH_MAX_OUTSTANDING >= v.V2_REFRESH_EXECUTOR_WORKERS
                   /\ v.V2_HEALTH_MAX_OUTSTANDING >= v.V2_HEALTH_EXECUTOR_WORKERS

\* HealthSettings.from_env
LoadedHealth == [V2_HEALTH_TIMEOUT_SECONDS |-> <<100, 30000>>, V2_HEALTH_REFRESH_SECONDS |-> <<1000, 300000>>,
                 V2_HEALTH_MAX_AGE_SECONDS |-> <<1000, 600000>>]
HealthLoads(v) == v.V2_HEALTH_MAX_AGE_SECONDS >= v.V2_HEALTH_REFRESH_SECONDS + 2 * v.V2_HEALTH_TIMEOUT_SECONDS

\* The recommendation runtime, the retrieval pool and the repository-job lock.
LoadedRecommendation == [V2_RECOMMENDATION_TIMEOUT_SECONDS |-> <<100, 120000>>, V2_RECOMMENDATION_EXECUTOR_WORKERS |-> <<1, 32>>,
                         V2_RECOMMENDATION_MAX_OUTSTANDING |-> <<1, 64>>]
RecommendationLoads(v) == v.V2_RECOMMENDATION_MAX_OUTSTANDING >= v.V2_RECOMMENDATION_EXECUTOR_WORKERS

LoadedRetrieval == [V2_RETRIEVAL_IO_WORKERS |-> <<1, 32>>, V2_RETRIEVAL_IO_MAX_OUTSTANDING |-> <<1, 128>>]
RetrievalLoads(v) == v.V2_RETRIEVAL_IO_MAX_OUTSTANDING >= v.V2_RETRIEVAL_IO_WORKERS

LoadedJobLock == [REPOSITORY_JOB_LOCK_TTL_MS |-> <<1000, Unbounded>>, REPOSITORY_JOB_LOCK_WAIT_SECONDS |-> <<0, 300000>>]

\* The encoder: read at start-up and by the warm-up it must complete.
LoadedEncoder == [EMBEDDING_TIMEOUT_SECONDS |-> <<100, 300000>>, EMBEDDING_WARMUP_ON_STARTUP |-> On,
                  INFERENCE_WARMUP_TIMEOUT_SECONDS |-> <<100, 300000>>, EMBEDDING_CPU_THREADS |-> <<1, 64>>,
                  EMBEDDING_MAX_CONCURRENCY |-> <<1, 8>>, EMBEDDING_EXECUTOR_WORKERS |-> <<1, 8>>,
                  EMBEDDING_MAX_OUTSTANDING_JOBS |-> <<1, 64>>]
EncoderLoads(v) == v.EMBEDDING_MAX_OUTSTANDING_JOBS >= v.EMBEDDING_EXECUTOR_WORKERS

\* config.py, read when the service's modules are imported.
LoadedModules ==
  [VECTOR_DIMENSION |-> <<2, 65536>>, README_CHUNK_CHARS |-> <<1, Unbounded>>, README_CHUNK_OVERLAP_CHARS |-> <<0, Unbounded>>,
   QDRANT_COLLECTION_NAME |-> <<7, 7>>, MIN_DWELL_SECONDS |-> <<0, Unbounded>>, MAX_DWELL_SECONDS |-> <<1, Unbounded>>,
   DWELL_BASE_ALPHA |-> <<1, 1000>>]
ModulesLoad(v) == /\ v.README_CHUNK_OVERLAP_CHARS < v.README_CHUNK_CHARS
                  /\ v.MIN_DWELL_SECONDS < v.MAX_DWELL_SECONDS
                  /\ \A x \in {"REPOSITORY_FEATURE_SPEC_VERSION", "EMBEDDING_MODEL_REVISION"} : v[x] # Blank

\* The constructor of QdrantV2Retriever; V2_DIVERSITY_MODE is 2 when enabled,
\* with TOTAL_CANDIDATE_POOL of 150 candidates.
LoadedRetriever ==
  [V2_REPOSITORY_LIFECYCLE_POLICY |-> Flag, QDRANT_TIMEOUT_SECONDS |-> <<1000, 120000>>, V2_CANDIDATE_VECTOR_MODE |-> Flag,
   V2_SOCIAL_CANDIDATE_MODE |-> <<0, 2>>, V2_SOCIAL_CANDIDATE_TRAFFIC_PERCENT |-> <<0, 100000>>,
   V2_EXPLORATION_FRACTION |-> <<0, 500>>, V2_MAX_SAME_LANGUAGE |-> <<1, Unbounded>>,
   V2_REQUIRED_CONTENT_VERSION |-> <<1, Unbounded>>, V2_COMPATIBLE_EMBEDDING_VERSIONS |-> <<1, 6>>,
   V2_ALLOW_MISSING_EMBEDDING_REVISION |-> Flag, MIN_ELIGIBLE_REPOSITORIES |-> <<0, Unbounded>>,
   V2_USER_COLLECTION_REQUIRED |-> Flag, V2_HEAVY_RANKER_ENABLED |-> Flag, V2_HEAVY_RANKER_DEVICE |-> <<0, 2>>,
   V2_HEAVY_RANKER_TRAFFIC_PERCENT |-> <<0, 100000>>, V2_HEAVY_RANKER_REQUIRED |-> Flag, V2_DIVERSITY_MODE |-> <<0, 2>>,
   V2_DIVERSITY_TRAFFIC_PERCENT |-> <<0, 100000>>, V2_DIVERSITY_RELEVANCE_WEIGHT |-> <<0, 1000>>,
   V2_DIVERSITY_DUPLICATE_COSINE |-> <<10, 1000>>, V2_DIVERSITY_MAX_PER_OWNER |-> <<1, 150>>,
   V2_DIVERSITY_MAX_PER_TOPIC |-> <<1, 150>>, V2_DIVERSITY_MAX_PER_CATEGORY |-> <<1, 150>>,
   V2_DIVERSITY_MAX_PER_FAMILY |-> <<1, 150>>, V2_DIVERSITY_MIN_EXPLORATION |-> <<0, 150>>,
   V2_ALLOW_UNQUALIFIED_HEAVY_RANKER |-> Off]

RetrieverLoads(v) ==
  LET versions == Compatible[v.V2_COMPATIBLE_EMBEDDING_VERSIONS]
  IN  /\ Cardinality({versions[i] : i \in DOMAIN versions}) \in 1..8
      /\ v.REPOSITORY_EMBEDDING_VERSION \in {versions[i] : i \in DOMAIN versions}
      /\ v.V2_REQUIRED_FEATURE_SPEC_VERSION # Blank
      /\ v.V2_HEAVY_RANKER_REQUIRED = 1 =>
            v.V2_HEAVY_RANKER_ENABLED = 1 /\ v.V2_HEAVY_RANKER_TRAFFIC_PERCENT = 100000
      /\ v.V2_DIVERSITY_MODE = 2 => v.V2_HEAVY_RANKER_REQUIRED = 1

\* authority_from_environment: an enabled authority attests its boundary.
AuthorityLoads(v) == /\ In(v.CORPUS_AUTHORITY_ENABLED, Flag)
                     /\ v.CORPUS_AUTHORITY_ENABLED = 1 => v.CORPUS_AUTHORITY_MANAGED_BOUNDARY = 1

Loaded == LoadedFeedback @@ LoadedConsumer @@ LoadedSummary @@ LoadedServices @@ LoadedHealth @@ LoadedRecommendation
          @@ LoadedRetrieval @@ LoadedJobLock @@ LoadedEncoder @@ LoadedModules @@ LoadedRetriever

\* What the loaders take for an absent variable that the preflight lets be
\* absent or does not read; three of them take it for a blank one, too.
LoadDefaults ==
  [FEEDBACK_CONSUMER_WORKERS |-> 4, INFERENCE_WARMUP_TIMEOUT_SECONDS |-> 120000, V2_HEALTH_REFRESH_SECONDS |-> 15000,
   V2_HEALTH_MAX_AGE_SECONDS |-> 45000, V2_RETRIEVAL_IO_WORKERS |-> 4, V2_RETRIEVAL_IO_MAX_OUTSTANDING |-> 8,
   V2_HEAVY_RANKER_DEVICE |-> 0, SUMMARY_SOURCE_OVERFLOW_POLICY |-> 1, SUMMARY_TPM_LIMIT |-> 120000,
   SUMMARY_FAILURE_THRESHOLD |-> 3, SUMMARY_COOLDOWN_SECONDS |-> 30000, V2_CANDIDATE_VECTOR_MODE |-> 0,
   V2_REPOSITORY_LIFECYCLE_POLICY |-> 0, V2_SOCIAL_CANDIDATE_MODE |-> 0, V2_SOCIAL_CANDIDATE_TRAFFIC_PERCENT |-> 100000,
   V2_DIVERSITY_MODE |-> 0, V2_DIVERSITY_TRAFFIC_PERCENT |-> 0, V2_DIVERSITY_RELEVANCE_WEIGHT |-> 700,
   V2_DIVERSITY_DUPLICATE_COSINE |-> 980, V2_DIVERSITY_MAX_PER_OWNER |-> 2, V2_DIVERSITY_MAX_PER_TOPIC |-> 5,
   V2_DIVERSITY_MAX_PER_CATEGORY |-> 8, V2_DIVERSITY_MAX_PER_FAMILY |-> 1, V2_DIVERSITY_MIN_EXPLORATION |-> 2,
   CORPUS_AUTHORITY_ENABLED |-> 0, MIN_DWELL_SECONDS |-> 3000, MAX_DWELL_SECONDS |-> 300000, DWELL_BASE_ALPHA |-> 150]
BlankIsDefault == {"INFERENCE_WARMUP_TIMEOUT_SECONDS", "V2_HEALTH_REFRESH_SECONDS", "V2_HEALTH_MAX_AGE_SECONDS"}

LoadValue(e, x) == IF x \in DOMAIN LoadDefaults /\ (e[x] = Absent \/ (e[x] = Blank /\ x \in BlankIsDefault))
                     THEN LoadDefaults[x] ELSE e[x]

\* Every loader of the start-up succeeds: validate_v2_runtime_configuration,
\* the modules it imports, the lifespan and its warm-up.
LoadersAccept(e) ==
  LET v == [x \in Names |-> LoadValue(e, x)]
  IN  /\ \A x \in DOMAIN Loaded : In(v[x], Loaded[x])
      /\ UserVector(v) # Malformed
      /\ v.INTERNAL_API_SECRET = 1
      /\ FeedbackLoads(v) /\ CrossFields(v) /\ SummaryLoads(v) /\ ServicesLoad(v) /\ HealthLoads(v)
      /\ RecommendationLoads(v) /\ RetrievalLoads(v) /\ EncoderLoads(v) /\ ModulesLoad(v)
      /\ RetrieverLoads(v) /\ AuthorityLoads(v)

(* ---- an operator, the two checks and the start --------------------------- *)
VARIABLES edits,  \* what the operator changed: name -> value
          odd,    \* the one entry not written as NAME=VALUE, and how it is written
          stage   \* "edited", "file checked", "accepted", "serving", "refused", "failed"
configurationVars == <<edits, odd, stage>>

File == edits @@ Template

\* Values at and beside the ends of a variable's ranges, on both sides, and
\* beside what a variable it is compared with makes of it.
Ends(x) == UNION {IF x \in DOMAIN table THEN {table[x][1] - 1, table[x][1], table[x][2], table[x][2] + 1} ELSE {}
                    : table \in {Checked, Loaded}}
Beside(n) == {n - 1, n, n + 1}
Compared(n) == UNION {Beside(m) : m \in {n, 2 * n, n \div 2, n \div 500} \cup {k \in {1000 * (n % 1000000)} : n < 1000000}}
OtherTexts == {0, 1, 2, 3}

\* The pairs of variables that some rule of either side compares.
Pairs ==
  {{"FEEDBACK_STREAM_NAME", "FEEDBACK_DEAD_LETTER_STREAM"}, {"FEEDBACK_STREAM_NAME", "FEEDBACK_CONSUMER_HEARTBEAT_KEY"},
   {"FEEDBACK_READ_BLOCK_MS", "FEEDBACK_RECLAIM_IDLE_MS"}, {"FEEDBACK_USER_LOCK_TTL_SECONDS", "FEEDBACK_USER_LOCK_WAIT_SECONDS"},
   {"FEEDBACK_USER_LOCK_TTL_SECONDS", "FEEDBACK_USER_LOCK_RENEW_INTERVAL_SECONDS"},
   {"FEEDBACK_CONSUMER_HEARTBEAT_TTL_SECONDS", "FEEDBACK_READ_BLOCK_MS"},
   {"FEEDBACK_DWELL_MIN_SECONDS", "FEEDBACK_DWELL_FULL_CREDIT_SECONDS"},
   {"FEEDBACK_IDEMPOTENCY_TTL_SECONDS", "FEEDBACK_RECLAIM_IDLE_MS"},
   {"FEEDBACK_HEALTH_WARN_PENDING", "FEEDBACK_HEALTH_MAX_PENDING"}, {"FEEDBACK_HEALTH_WARN_LAG", "FEEDBACK_HEALTH_MAX_LAG"},
   {"FEEDBACK_HEALTH_WARN_STREAM_LENGTH", "FEEDBACK_HEALTH_MAX_STREAM_LENGTH"},
   {"FEEDBACK_HEALTH_WARN_DEAD_LETTER", "FEEDBACK_HEALTH_MAX_DEAD_LETTER"},
   {"FEEDBACK_STREAM_MAXLEN", "FEEDBACK_HEALTH_MAX_STREAM_LENGTH"}, {"FEEDBACK_STREAM_MAXLEN", "FEEDBACK_READ_BATCH_SIZE"},
   {"FEEDBACK_DEAD_LETTER_MAXLEN", "FEEDBACK_HEALTH_MAX_DEAD_LETTER"},
   {"REPOSITORY_EMBEDDING_VERSION", "V2_COMPATIBLE_EMBEDDING_VERSIONS"},
   {"REPOSITORY_FEATURE_SPEC_VERSION", "V2_REQUIRED_FEATURE_SPEC_VERSION"},
   {"README_CHUNK_CHARS", "README_CHUNK_OVERLAP_CHARS"}, {"SUMMARY_PROVIDER", "SUMMARY_API_URL"},
   {"V2_HEALTH_MAX_AGE_SECONDS", "V2_HEALTH_REFRESH_SECONDS"}, {"V2_HEALTH_MAX_AGE_SECONDS", "V2_HEALTH_TIMEOUT_SECONDS"},
   {"REPOSITORY_JOB_LOCK_TTL_MS", "REPOSITORY_JOB_LOCK_WAIT_SECONDS"}, {"MIN_DWELL_SECONDS", "MAX_DWELL_SECONDS"},
   {"V2_DIVERSITY_MODE", "V2_HEAVY_RANKER_REQUIRED"}, {"V2_HEAVY_RANKER_ENABLED", "V2_HEAVY_RANKER_TRAFFIC_PERCENT"},
   {"CORPUS_AUTHORITY_ENABLED", "CORPUS_AUTHORITY_MANAGED_BOUNDARY"}, {"USER_PROFILE_VECTOR_NAME", "TARGET_VECTOR_NAME"}}
  \cup {{p \o "_EXECUTOR_WORKERS", p \o "_MAX_OUTSTANDING"} :
          p \in {"V2_SEARCH", "V2_FEEDBACK", "V2_REFRESH", "V2_HEALTH", "V2_RECOMMENDATION"}}
  \cup {{"EMBEDDING_EXECUTOR_WORKERS", "EMBEDDING_MAX_OUTSTANDING_JOBS"},
        {"V2_RETRIEVAL_IO_WORKERS", "V2_RETRIEVAL_IO_MAX_OUTSTANDING"}}

Probes(x) ==
  {Absent, Blank, Malformed} \cup OtherTexts \cup Ends(x)
  \cup UNION {IF {x, y} \in Pairs THEN Compared(edits[y]) ELSE {} : y \in {z \in DOMAIN edits : In(edits[z], <<0, Unbounded \div 4>>)}}

Edit(x) ==
  /\ stage = "edited" /\ odd = <<>> /\ Cardinality(DOMAIN edits) < MaxEdits
  /\ \A y \in DOMAIN edits : {x, y} \in Pairs /\ x # y
  /\ \E value \in Probes(x) : edits' = (x :> value) @@ edits
  /\ UNCHANGED <<odd, stage>>

\* A bound: an oddly written entry is the only change of the file.
WriteOddly(x, form) ==
  /\ stage = "edited" /\ odd = <<>> /\ edits = <<>> /\ File[x] # Absent
  /\ odd' = <<x, form>>
  /\ UNCHANGED <<edits, stage>>

HasForm(form) == odd # <<>> /\ odd[2] = form
IsOdd(x, form) == odd = <<x, form>>

\* load_env_file strips "export", the spaces around a value and its quotes,
\* and refuses a line without = , a name twice or an unsafe name.
CheckFile ==
  /\ stage = "edited"
  /\ stage' = IF ~HasForm("twice") /\ ~HasForm("nameless") /\ PreflightAccepts(File, TRUE)
                 THEN "file checked" ELSE "refused"
  /\ UNCHANGED <<edits, odd>>

\* docker --env-file gives a value as it is written, its quotes included, adds
\* what the image sets, and starts nothing from a line that says export.
Container == LET file == File
             IN  [x \in Names |-> CASE IsOdd(x, "quoted") -> Malformed
                                    [] ~IsOdd(x, "quoted") /\ x \in ImageOwned /\ file[x] = Absent -> Image[x]
                                    [] OTHER -> file[x]]

CheckContainer ==
  /\ stage = "file checked"
  /\ stage' = IF ~HasForm("export") /\ PreflightAccepts(Container, FALSE) THEN "accepted" ELSE "refused"
  /\ UNCHANGED <<edits, odd>>

\* Two values are used as they are, with the spaces around them.
Unstripped == {"REPOSITORY_EMBEDDING_VERSION", "INTERNAL_API_SECRET"}
Effective == LET given == Container
             IN  [x \in Names |-> IF IsOdd(x, "padded") /\ x \in Unstripped THEN Malformed ELSE given[x]]

StartServices ==
  /\ stage = "accepted"
  /\ stage' = IF LoadersAccept(Effective) THEN "serving" ELSE "failed"
  /\ UNCHANGED <<edits, odd>>

ConfigurationInit == edits = <<>> /\ odd = <<>> /\ stage = "edited"
ConfigurationNext ==
  \/ \E x \in Names : Edit(x)
  \/ \E x \in Names, form \in {"padded", "quoted", "export", "twice", "nameless"} : WriteOddly(x, form)
  \/ CheckFile
  \/ CheckContainer
  \/ StartServices
ConfigurationSpec == ConfigurationInit /\ [][ConfigurationNext]_configurationVars

(* ---- the property -------------------------------------------------------- *)
\* What the loaders refuse and the preflight has no rule for.
Unchecked(e) ==
  \/ \E x \in DOMAIN Loaded \ DOMAIN Checked : ~In(LoadValue(e, x), Loaded[x])
  \/ ~AuthorityLoads([x \in Names |-> LoadValue(e, x)])
  \/ LoadValue(e, "MIN_DWELL_SECONDS") >= LoadValue(e, "MAX_DWELL_SECONDS")
  \/ UserVector(e) = Malformed
\* Where the preflight has the rule and it is a weaker one.
Weaker(e) ==
  \/ e.FEEDBACK_CONSUMER_WORKERS = Blank
  \/ ~In(e.FEEDBACK_USER_LOCK_RENEW_INTERVAL_SECONDS, LoadedFeedback.FEEDBACK_USER_LOCK_RENEW_INTERVAL_SECONDS)
  \/ Len(Compatible[e.V2_COMPATIBLE_EMBEDDING_VERSIONS]) > 8
  \/ \E x \in Unstripped : IsOdd(x, "padded")

\* A configuration both modes of the preflight accept is one the service starts
\* with: no value at the end of a range, no pair of values that disagree and no
\* way to write an entry passes the deployment and then stops every restart.
\* The exceptions are named.  The frozen collection's unnamed vector is kept,
\* too, unless an alias the preflight does not read names another.
PreflightSuffices ==
  LET e == Effective
  IN  /\ stage = "failed" => Unchecked(e) \/ Weaker(e)
      /\ stage = "serving" /\ UserVector(e) # Blank =>
           \E x \in {"USER_PROFILES_VECTOR_NAME", "TARGET_VECTOR_NAME"} : e[x] # Absent
====
