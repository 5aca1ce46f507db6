# weave-ml in TLA+

Models, model checks and proofs of weave-ml, the machine learning service of a
repository recommender. Paths below are relative to `src/`.

## 1. The system

The service learns a vector per user and per repository, stores them in Qdrant,
coordinates through Redis, and answers recommendation and search requests.

| Component | State it keeps | What makes it hard | Correct when |
|---|---|---|---|
| Feedback event lane (`feedback/v2.py`) | source stream with its pending list, dead-letter stream, acceptance, attempt and dedupe keys, the user's point with cursor, fence and rejection history | at-least-once delivery, a crash between any two calls, expired locks, writes whose answer is lost, full streams, another writer of the point | every version is settled once and in order, nothing accepted disappears |
| User lock, onboarding, dead-letter replay (`feedback/user_lock.py`, `scripts/user_onboarding.py`, `feedback/v2_replay.py`) | one Redis key; the same point; both streams | the holder outlives its key, the operator acts while the lane runs | safety does not rest on the lock; a profile version never goes back |
| Consumer process (`feedback/user_scheduler.py`, poll loop of `feedback/v2.py`) | lanes, turn order, threads | threads, shutdown in the middle of a poll | one event of a user at a time, fair turns, shutdown ends |
| Model-operation journal (`feedback/model_journal.py`, `model_processor.py`, `model_stream.py`) | stream, withdrawals, input pins, immutable journal rows, dead letters, the user's point | a crash between prepare and commit, a lost point, a withdrawal racing its profile | the committed chain is versions 1..n and can be rebuilt |
| Long-session reducer (`feedback/long_session.py`) | none (pure) | epochs, ledgers at their capacity | sealed sessions stay sealed, a rejection lets the rest settle |
| Feedback intake (`POST /feedback/batch`) | acceptance keys and stream | lost replies, retried batches | added once, acknowledged when durable |
| Legacy feedback consumer (`feedback/consumer.py`) | stream, processed keys, the user's point | a crash between write, key and acknowledgement | an event changes the vector once |
| Summary admission (`summarization/admission.py`) | quota hash, circuit hash | many processes, lost and late reports, key expiry | budgets hold, one probe, late outcomes are ignored |
| Summary generation (`summarization/pipeline.py`, `reuse.py`) | reuse cache, single flights | leaders that fail or give up, deadlines | a content is paid for once, no unchecked summary |
| README sections and tower vectors (`embedding/`) | a cache of encoded texts | concurrent jobs, partial hits | text is neither lost nor mixed |
| Corpus revision authority (`embedding/corpus_revision.py`) | one hash: epoch, state, revision, writers | operations with unknown outcome, Redis failover | READY only while nothing can change |
| Shared discovery (`retrieval/discovery_cache.py`) | pools, flights, waiter count | the corpus moves between any two calls | accepted pools are current, nothing leaks |
| Candidates of a request (`retrieval/v2_retriever.py`) | none | a collection that changes while it is read | what is served is eligible and scored from one snapshot |
| Ranking and page (`inference/`) | loaded artifacts, anchors | artifacts replaced while they load, retries | the bytes served can be traced to their manifest, caps hold, retries are anchored |
| Serving process (`inference/runtime.py`, `retrieval/runtime.py`, `embedding/runtime.py`, `embedding/query_cache.py`, `api/v2.py`) | slots, tickets, flights, the retirement plan | workers outlive timeouts, retirement at any time | slots are exact, clients close under nobody |
| README scheduler and GitHub quota (`acquisition/`) | window, workers, retries, quota coordinators | cancellation of live I/O, Retry-After, shared artifacts | admissions match live I/O, waits end and are honoured |
| Checkpoint, trending, repository points (`acquisition/corpus_pipeline.py`, `trending/`, `embedding/qdrant_store.py`) | a file, a state file, a point with two revisions | crash between saves, overlapping writers | work is kept, freshness and revisions never regress |
| Readiness (`api/health.py`) and settings (`scripts/validate_production_config.py`) | the last collection of checks; environment variables | late callbacks; two parsers of one variable | ready only on recent good checks; an accepted configuration starts |

How they interact: the API enqueues feedback to Redis and onboards users under
the user lock. A consumer process reads the stream, runs a lane per user and
changes the user's point; users with a negotiated model policy go through the
journal instead. Indexing jobs summarize READMEs through the shared admission
and write repository points through the revision authority. Retrieval reads the
collection, shares its discovery pools under the authority's revision, and
feeds the ranker inside the bounded executors of the serving process.

## 2. The modules

Every Redis script is one step because Redis runs it atomically. Every other
call to Redis, Qdrant, a file or a service is a step of its own, so a crash, an
expiry, a failed call or another actor's step can fall before and after it. A
critical section under a Python lock is one step. Variables marked *history*
record what happened for the properties and guard nothing.

| Module | Models | State to code |
|---|---|---|
| `OrderedLedger` | what the feedback path promises of one user: versions settled one at a time, each learned or refused; while a refusal's fence is up nothing is learned | abstract |
| `FeedbackLane` | producer, consumers, applier, lock, onboarding, replay | `accepted`, `stream`, `pel`, `dlq`, `dlqSeen`, `attempts` are Redis keys; `profile` the point (`pv` `profile_version`, `last`/`lastEv`/`status`/`rev` the cursor fields, `fence` `pending_feedback_rejection`, `history` `feedback_rejections`); `lock`, `lost` the lock; `job` the stack of `_process_message`; `visit` an onboarding request |
| `UserScheduler` | `UserFeedbackScheduler` under `run_once` and `close` | `queues`, `ready`, `active`, `ids`, `closed` are its fields; `thread`, `poll`, `shutdown` where `_worker`, `run_once`, `close` stand |
| `CommittedChain` | what the journal promises of one user: versions committed once and in order; only a commit nobody acted on may be lost | abstract |
| `SessionReducer` | `reduce` and its reader's checks: verdicts, states, capacity and dependency rejections | operators `Verdict`, `Reduced`, `Passed`, `StateSound` |
| `ModelJournal` | admission, pinning, preparing, withdrawing, rejecting, committing, serving | `identities`, `withdrawn`, `stream`, `guard` Redis keys; `frozen`, `reserved`, `pinned` the input of a version; `prepared`, `dead` journal rows and dead letters, by content; `point` the user's point; `job` the stack of `ModelProcessor` |
| `SummaryAdmission` | ADMIT, REPORT and their callers | `circuit`, `quota` the hashes with their expiry; `call` the permit of an attempt; `now` Redis time |
| `SummaryGeneration` | reuse, attempts, repair, fallback of the summary jobs | `job`, `flights`, `future`, `works`, `deferral`, `permit` |
| `CorpusAuthority` | the Redis protocol and `mutate` | `auth` the hash; `epoch` the server's identity; `writer`; `limbo` operations of unknown outcome; `corpus` how often the collection changed |
| `SharedDiscovery` | `SharedDiscoveryCache` and its use, on top of `CorpusAuthority` | `pools`, `flights`, `waiting`, `future`, `stale`; `req` where `_discovery` stands |
| `RecommendationPass` | one request's reads, refills, fusion and answer | `points`, `revision` the collection; the rest are locals of `retrieve` |
| `HeavyRanking`, `Diversity`, `FeedAssembly` | the ranker's artifacts and captures; the bounded search for a diverse page; the page walk and the anchors | `disk`, `ranker`, `ranking`; `selected`, `counted`, `search`; `walk`, `page`, `anchors` |
| `BoundedExecutors`, `RetrievalIO`, `QueryEncoding`, `ServingProcess` | executors, fan-out of reads, encoder and query cache, and the process around them from start-up to retirement; the last EXTENDS the others | `slots` `_outstanding`; `child`, `tickets`; `flight`, `entries`, `line`; `plan`, `undrained`, `todo` the retirement |
| `ReadmeScheduler`, `GitHubQuota` | jobs, window, workers, retry thread and shared artifact flights; the coordinator of each authorization scope | `job`, `consumer`, `closing`, `flightOwner`; `coordinator`, `client` |
| `CorpusPipeline`, `TrendingRefresh`, `RepositoryJobs` | a run over its checkpoint; the trending workers; content and feature writes of one point | `disk`, `data`, `run`; `recorded`, `owner`, `retry`; `point`, `work`, `late` |
| `ReadmeSections`, `TowerVectors` | sectioning and chunking; the tower cache | `sections`, `chunks`; `towers`, `embed` |
| `FeedbackIntake`, `LegacyFeedback` | the HTTP batch; the older consumer | `intake`, `posts`; `lane`, `workers` |
| `Readiness`, `Configuration` | the readiness answer; preflight beside start-up | `diag`, `checks`, `heartbeat`; `edits`, `stage` |

The definitions named like an action with a suffix (`VerdictEager`,
`SubmitTwice`, `FetchUnfrozen`, ...) are plausible slips of that action. No
specification uses them; each is checked to break the property listed with it
in `PROJECT.json`. The MC modules hold instances and the conjunctions that a
run checks of several parts.

### Abstractions

- *Feedback lane.* Events carry an id, a version and a kind: valid, malformed
  (rejected by `normalize_event`), limited (beyond the state's limits), unstable
  (leaves no valid vector), anonymous (no usable user). The vector is the log of
  what was folded into it. Left out: expiry of attempt and dead-letter dedupe
  keys, corrupt stored state, onboarding's job-id verdicts.
- *Journal.* A content address is the content: a head is the sequence of its
  rows. The user lock is left out on purpose: what it refuses is a failed step,
  and the conditional write is what must hold. A version that was rejected
  dead-letters its head before it is committed. Losing the point is an
  environment step, while no worker is between two calls.
- *Admission.* One model's circuit and one account's quota. Redis time does not
  go back, and a permit is reported or dropped within `Lifetime`, shorter than
  the key's TTL (twice the cooldown, the request timeout and two minutes more).
- *Authority and pools.* A begin draws token and nonce at once; a
  `MaintenanceProof` is taken as true: `Bootstrap` happens only when no writer
  runs and no operation is unsettled. Which pool is evicted is left open; the
  byte bound is folded into the entry bound. The pass assumes of the shared pool
  what `SharedDiscovery` shows.
- *Ranking and page.* Scores are the order of the candidates; labels stand for
  owner, fork family, topic and category; a row is the profile and the point
  version it was made from.
- *Serving.* A drain phase ends when its executor is empty. A passed deadline is
  one event that may come at any time.
- *Fetching.* GitHub's answers are outcomes: done, failed, retry later, with the
  delay the server names. Instants are ticks left, so time has no end.
- *Stores.* Clocks are any choice the records allow; the checkpoint file is
  replaced as a whole.
- *Texts.* A line is its kind; tokenizing, cleaning and reference definitions
  are not looked into; a vector is what it was made from.
- *Legacy lane.* `History` is at least the number of events (production: 512);
  processed keys do not expire, the stream is not trimmed, and the in-memory
  development loop is left out.
- *Trending.* The in-process guard, an age below zero and the PostgreSQL adapter
  are left out.
- *Readiness.* The warm-up flags of `_readiness_response` and the release of the
  diagnostic at retirement are not in `Readiness`; the latter is in
  `ServingProcess`.
- *Configuration.* Values are numbers, or absent, blank, malformed; a text is
  coded in an order in which each check accepts an interval.

## 3. What is checked

| Run | Question | Properties |
|---|---|---|
| `lane` | Do two lanes, onboarding and replay settle each version once and in order through a fault, and lose nothing? | `LedgerOrdered`, `FenceAtCursor`, `NothingLost`, `ProfileForward`, `LedgerSpec` |
| `lane_drains` | Does the stream drain once faults stop? | `Drains` |
| `fence_source` | Is a fence always backed by a source entry? No | `FenceHasSource` |
| `fence_copy` | Is a fence lifted only after its copy? No | `FenceLiftedAfterCopy` |
| `scheduler` | Do lanes keep order, bounds, turns and an orderly end? | `LanesExact`, `TurnsSound`, `LaneServed`, `ShutdownCompletes` |
| `journal` | Is what two workers commit one chain that can be rebuilt, through a crash, a withdrawal and a lost point? | `JournalSound`, `ChainSpec`, `WithdrawalHolds` |
| `journal_drains` | Does everything settle behind operations that meet full ledgers, and do sessions stay sound? | `SessionsKept`, `Drains` |
| `serving` | Do slots, reads, flights and clients end in that order, and are requests that share a pool answered? | `SlotsAndReads`, `FlightsAndClients`, `ServingEnds` |
| `fetching` | Do fetches own what they use, and do waits end and honour the server? | `FetchesOwned`, `RetryAfterHonoured`, `FetchingEnds` |
| `stores` | Is work kept, freshness honest, a repository's point coherent? | `WorkKept`, `FreshnessHonest`, `RepositoryHonest` |
| `recommending` | Are pools current, and is what is served eligible, ranked by a ranker that can be traced to its manifest, and the page asked for? | `ReadyMeansQuiet`, `PoolsCurrent`, `NothingLeaks`, `PassHonest`, `RankingSound`, `DiversityHonest`, `PageServed`, `AcceptedCurrent` |
| `supporting` | Do budgets, summaries, both feedback entrances and readiness hold, and are texts, vectors and settings what they should be? | `AdmissionSound`, `SummariesSound`, `IntakeSound`, `ReadySound`, `LegacySound`, `TextsSound`, `PreflightSuffices`, `Fenced` |

Components that share no state are checked in one run: a variable `part` says
of which part a behaviour is, and the others stand still. This interleaves
nothing that could meet, so nothing is lost by it.

### Bounds, and why they suffice

- `lane`: two workers, three stream entries, one fault, a stream of two and a
  dead-letter stream of one. A behaviour follows one `plan`: a malformed version
  1 before a valid 2 (with an onboarding, and starting without a point), or four
  events rejected for different reasons that compete for one dead-letter entry.
  It reaches two workers holding a prepared write at once, re-enqueued and
  replayed events, and exhaustion after one failure.
- `lane_drains`: one worker, a malformed version 1 and a version 2 that is
  replayed as valid or unstable, one fault. `MaxAttempts` 5 is above what the
  fault can cause: exhaustion with a fence up blocks the user, which is what
  `fence_source` shows. With two workers the lock could be contended for ever,
  which the code's bounded wait allows.
- `scheduler`: two hot users with two messages each fill their lanes, a cold one
  waits behind them; capacity 4 is below the five messages.
- `journal`: two workers, a profile and its renewal, both with a withdrawal, a
  stream of one with the recovery slot, one dead letter, two candidate inputs,
  one fault and one loss of the point. `journal_drains`: six operations of one
  user, of which one asks for a session too many, two depend on it, and one
  comes after its session was sealed by silence; two faults.
- `serving`: at most two requests of any class with three reads on one I/O
  worker, two searches for one query and one for another, a diagnostic, one
  failed and one repeated close; a second generation only in behaviours without
  searches. Two sharers of a pool with one flight and one waiter.
- `fetching`: two runs with three jobs, two of them for one artifact, one retry
  each; three clients in two scopes, quota and cost up to one.
- `stores`: two repositories and one cycle with two attempts and one operator
  repair; two trending workers, two snapshots, three ticks; two contents, a
  refresh that archives, one that could observe nothing, one delivered twice.
- `recommending`: two authority draws beyond the first and one restart, two
  requests, two channels; two repositories and one change of the collection
  under one pass; four builds of the ranker and one deployment; four candidates
  and five search steps; six ranked candidates; three generations over an anchor
  store of two.
- `supporting`: six ticks pass two windows, the cooldown, the lease and both
  expiries; two summary jobs of three contents; READMEs of four lines of fifteen
  kinds; sections of eight tokens; two encoding jobs; two legacy consumers over
  two deliveries; two callers that send twice; two ticks of the readiness clock,
  which pass a collection's limit, two cadences and a heartbeat's life but not
  the maximum age, which is left to the theorem; two edits of the settings, of
  which the second is of a variable compared with the first, or one entry that
  is oddly written.

Deadlock is not checked: in each model the environment may have nothing left to
do once a bound is reached. What must not stop is stated as liveness.

### Fairness

- `FeedbackLane`: a lane's thread runs (weak); polls go on and each reads new
  entries and walks the pending list with the `XAUTOCLAIM` cursor (strong, since
  another step may take the entry away for a while); a dead holder's key reaches
  its TTL; an onboarding ends. Arrivals, faults, replay and new onboardings are
  not assumed.
- `UserScheduler`: threads run and an apply returns; a batch is finite. Polls,
  signals and the decision to close are free.
- `ModelJournal`: workers go on, producers retry, and redelivery does not pass
  over for ever an entry whose turn has come (strong).
- `ServingProcess`: threads and callbacks run (`Progress`); a sharer's worker
  runs and its reads return. Deadlines, retirement and failures are free.
- `ReadmeScheduler`, `GitHubQuota`: the threads of a run and of a client go on,
  time passes, and a retry waiting for a worker gets one if again and again
  there is one (strong).

### What the violated properties show

- `FenceLiftedAfterCopy` quotes `feedback/v2.py:1278`. A second rejection
  overwrites the fence of the first before its dead-letter copy exists, and
  onboarding drops it. The rejection history makes up for it while the rejected
  version is among the entries kept (1 to 1000, 64 by default,
  `feedback/v2_settings.py:374-375`), although `docs/FEEDBACK_SCHEDULER.md:23`
  speaks of "durable DLQ/rejection fencing".
- `FenceHasSource` quotes `feedback/v2.py:1505`. A delivery that exhausts its
  attempts after its rejection was recorded is copied as retryable and
  acknowledged with the fence up; later versions are gaps until an operator
  replays the copy. `docs/PRODUCTION_RUNBOOK.md:259-260` says of such an event
  that the cursor is not advanced.

### Observations without a run

Met while modelling; they bound what the properties claim.

- An event below the cursor with another id than that version had is
  acknowledged as a duplicate (`feedback/v2.py:1087-1107`), while at the cursor
  it is a `VERSION_EVENT_CONFLICT` (line 1130).
- `retrieval/v2_retriever.py:905-907` says "Do not combine a stale
  semantic/discovery score with newer content, feature or eligibility metadata."
  An owner's partial answer (around 1370) returns without the revision check of
  line 1382 and may: `OneSnapshot` is violated there. `PassHonest` therefore
  asks for `OneSnapshotShared`, which leaves that answer out.
- A forced trending refresh within the retry cache's window may publish an
  older observation. A repository job whose lock lapsed may accept "current"
  without comparing the content hash; the entrance answers 409 in that case.
- A follower of a summary flight receives its leader's exception or deadline
  fallback; a job that looked for a deferral before another's may still call the
  provider. A retry that reads an older clock may lose its anchor. The ranker's
  files are hashed before they are read again to be loaded and the second
  reading is not compared with the first, so a file replaced in between is
  served under a `qualified` that is still true. `RankerHonest` allows for such
  a file (`ranker.replaced` remembers it) and no other; the digests of the bytes
  that were loaded are in the scoring context, so a capture shows it.
- The callback of an overtaken diagnostic job can erase a refused admission,
  although `api/health.py` says "Admission/configuration failure invalidates
  prior success."
- In the older consumer a lock that lapses under its holder can lose an update,
  although the docstring near `feedback/event_handlers.py:180` says "The consumer
  serializes updates per user." `LegacySound` excepts that case.
- Preflight and start-up disagree on a blank `FEEDBACK_CONSUMER_WORKERS`
  (`docs/FEEDBACK_SCHEDULER.md:58-59`), on a renewal interval above 1200 s with a
  TTL above 2400 s, on a ninth compatible embedding version, and on a trailing
  space in `REPOSITORY_EMBEDDING_VERSION` or `INTERNAL_API_SECRET`. These and the
  variables of `Unchecked` are left out of what `PreflightSuffices` compares.

## 4. What is proved

TLAPS checks the theorems for every value of the constants that satisfies the
modules' named assumptions: any number of workers, threads, users, events,
operations, requests and faults, any bounds, and repeated deliveries without
end. Every run's module extends the module whose assumptions the proofs use, so
TLC evaluates them.

| Module | Theorem | States |
|---|---|---|
| `FeedbackLaneProofs` | `TypeCorrect` | `TypeOK`, with the two stream limits |
| | `OrderedTheorem`, `FenceTheorem`, `ForwardTheorem` | `LedgerOrdered`, `FenceAtCursor`, `ProfileForward` |
| | `Refinement` | the lane implements `OrderedLedger` |
| | `NothingLostTheorem` | `UniqueMarks` implies `NothingLost` |
| `UserSchedulerProofs` | `SchedulerTyped` | `TypeOK` and the memory bound |
| | `LanesTheorem`, `TurnsTheorem` | `LanesExact`, `TurnsSound` |
| `ModelJournalProofs` | `JournalInvariant` | the inductive invariant `Inv` below |
| | `JournalTheorem`, `WithdrawalTheorem` | `JournalSound`, `WithdrawalHolds` |
| | `SessionsTheorem` | `SessionsKept` |
| | `ChainTheorem` | the journal implements `CommittedChain` |
| `SupportingProofs` | `AdmissionTyped` | types, and how long others are held off |
| | `LateReportsFenced`, `SingleProbe`, `QuotaNeverExceeded` | `Fenced`, `OneProbe`, `QuotaHeld` |
| | `AdmissionTheorem` | `AdmissionSound`, the last two together |
| | `SummariesTheorem`, `ReadinessTheorem`, `IntakeTheorem` | `SummariesSound`, `ReadySound`, `IntakeSound` |
| | `LegacyTheorem` | `HistoryCovers` implies `LegacySound` |
| | `OutlineTheorem`, `ChunksTheorem`, `TowersTheorem` | `SectionsOutlined`, `ChunksCover`, `TowersOwn` |
| | `TextsTheorem` | `TextsSound`, these three together |
| `SharedDiscoveryProofs` | `ReadyTheorem`, `PoolsTheorem` | `ReadyMeansQuiet`, `PoolsCurrent` |
| | `AcceptedTheorem`, `LeasesTheorem` | `AcceptedCurrent`, `NothingLeaks` |
| | `PassTheorem`, `RankingTheorem` | `PassHonest`, `RankingSound` |
| | `DiversityTheorem`, `PageTheorem` | `DiversityHonest`, `PageHonest` |
| | `RetriesTheorem`, `ServedTheorem` | `RetriesAnchored`, `PageServed` |
| `ServingProofs` | `SlotsTheorem`, `ClientsTheorem` | `SlotsAndReads`, `FlightsAndClients` |
| `FetchingProofs` | `FetchesTheorem`, `HonouredTheorem` | `FetchesOwned`, `RetryAfterHonoured` |
| `StoresProofs` | `FreshnessTheorem`, `RepositoryTheorem` | `FreshnessHonest`, `RepositoryHonest` |
| | `WorkTheorem` | `WorkKept` |

Each inductive invariant was first checked by TLC as an invariant of a run's
instance.

- *The ledger* (`CasInv`). `LedgerOrdered` alone is not inductive: a worker's
  prepared write replaces the profile wholesale. The invariant adds that the
  profile itself is in order, that a prepared write is one legitimate step from
  the profile it was computed from, and that a profile with the cursor fields and
  the revision a worker saw has the log it saw. That is what the conditional
  update relies on: `feedback_state_revision` grows with every write of the lane,
  and onboarding changes `profile_version`. The lock is not mentioned.
- *Custody* (`CustodyInv`). Each accepted event is in the stream, settled, or in
  the dead-letter stream; each step of a rejection is tied to what the step
  before it left in Redis or Qdrant. An event is known downstream by its mark
  (id and version), so the theorem assumes that no two events share one: the
  producer answers `event_id_conflict` to an id with another payload while its
  acceptance key lives, and the backend does not reuse ids. The claim about
  rejections is limited to those the history still remembers; `fence_copy` shows
  what happens beyond.
- *The scheduler.* The invariant says where each message is: waiting in its
  user's lane, with a thread, or nowhere; that a user is ready, active or has no
  lane, each at most once; and where `close` stands relative to the threads.
  The variable `passed` stays empty in the code's model; only a mutant fills it.
- *The journal* (`Inv`). Nothing needs the user lock. Every row, whether
  committed, acted on or a worker's draft, is what the row below it and the
  pinned input lead to; pins and withdrawals never change once there; a draft
  extends what its worker read, is committed only onto just that, and every row
  below it is in the journal, dead-lettered where it was not applied. The point
  may be lost: while there is a basis the guard is raised before anybody sees
  it, so no worker builds on a missing point; before there is one only
  withdrawals are committed, and a lost one is written again just as it was,
  since its row is a function of the withdrawal and the rows below. Hence what
  was acted on and the point agree wherever both have a row, and the longer of
  the two is the abstract log. `WithdrawalTheorem` adds that only the last check
  lets a worker write, and that it looks at the withdrawals.
- *Sessions* (`StateOk`). A committed state is what the reducer made of the one
  below it, so the invariant is that of one state; the reducer's operations keep
  it one by one. The anchor of a session is the largest time of a finite set:
  that it has one is shown by well-founded descent, not by induction. `Carried`
  says what a state may do to each session of the one below.
- *Admission.* The invariant ties each permit to the circuit: an epoch and a
  probe token are not reused for another turn while a permit that carries them
  can still be reported, because keys outlive permits (`Lifetime < StateTTL`).
  One probe follows from the lease written with the token, the quota from the
  window never going back.
- *Summaries* (`SummaryInv`). Whoever works on a content that has a key leads its
  flight, and a flight has such a leader, so two jobs never work on one content
  at once; what the cache keeps nobody works on, so it is not paid for twice
  while it is kept. A published future is its leader's own result. Contents
  without a key are left out: the code does not share those.
- *Readiness* (`ReadyInv`). Collections follow each other: only the newest may
  be under way and none is taken in after a newer one. The heartbeat lives as
  long as the setting of the consumer it names, so a collection that read it as
  this release's had such a consumer within its life.
- *Intake* (`IntakeInv`). What was added stays in the history, so what a worker
  found of an event stays true while it goes on with the batch. A caller that
  waits does so for a worker that has its very batch; a worker whose caller has
  gone is `cut` and answers nobody. A key stands for exactly one more life of
  its event.
- *The older consumer* (`LegacyInv`). Only the holder of the lane's lock writes,
  until the lock lapses, and what it read is the point while it holds it; a
  write changes counts, memory and history together, so a crash leaves an event
  whole or out. The redis key of an event and the point's bounded history guard
  against a second delivery; between the write and the key only the history
  does. The theorem therefore assumes that the history is as long as the
  deliveries (`HistoryCovers`); beyond it an event that was written and whose
  key was not would be learned again.
- *Sections* (`OutlineInv`). The stack is what the headings that no later one of
  their depth or above has closed make of a new line, outermost first, and its
  top is the class of the section being read. A title stands behind everything
  before it, so the headings above a line do not change once the line is read,
  and a section that ended keeps its class. Lines are only ever added behind
  those of the sections that ended, so none is in two.
- *Chunks* (`ChunkInv`). The next chunk starts where the last left off or before
  but not where that one started, and a cut that ended with chunks to spare has
  reached the end; a cut where not one token fits raises an error in the code and
  leaves no chunk to spare in the model.
- *Towers* (`TowerInv`). A job that looked at a tower has its right vector or
  counts it as missing, and what it encoded so far is a prefix of what it asked
  for; the share of a tower begins after those of the towers before it
  (`InputsAt`), so the division returns to each its own. A cache entry is what
  any document with its key would have encoded, since texts, section classes and
  tower are all in the key (`KeyDecides`).
- *Discovery* (`AuthorityInv`, `DiscoveryInv`, `LeasesInv`). Every operation that
  may still change the collection has its token in the record, or belongs to a
  record that is no longer legible; a legible record with tokens is not READY.
  Revisions are drawn fresh, so data read under a revision that is still
  reported was read at rest, from the one state the collection is still in. A
  lease is counted from its join to its release, and a pending future has the
  owner that will publish, fail or release it.
- *One recommendation* (`PassInv`). The collection may move at any step, so
  nothing is said of what was read but while the revision is the one of the
  plan; then all of it is the collection of now. The memo holds what the sources
  hold, except where an inline pass saw two versions of a repository and drops
  it. A retained repository therefore contributes one snapshot, in every answer
  but an owner's partial one. The read budget is spent in the order of the code;
  `Spent` is its closed form, and `left` never goes below zero.
- *The ranker* (`RankerInv`, `RankedInv`, `ScopeInv`). A load goes on only with
  what it has checked, so a loaded ranker is whole and qualified, or that was
  waived. Digests that match vouch for the files until these are read and for
  the bytes from then on (`Vouched`), but for a file that a deployment replaced
  in between: that is all the code's check can give. A request that is ranked
  heavily belongs to the canary and one that is not carries the reason; an open
  scope is a capture of this request, under the digests of the loaded bytes
  (`LoadedBytes`), and its frames are the rows of all candidates of the request
  or none yet.
- *The diverse page* (`DivInv`). The counts are those of the candidates chosen,
  put-back ones included. The search tries sets of explorers in order, so the
  invariant says that no quota is behind it: a set that fits and has the size is
  not smaller, in that order, than what is chosen and tried. When the search
  ends within its budget nothing is ahead either, so none exists.
- *The page* (`PageInv`). The order puts whoever is within the caps first, and
  whoever is not speaks a language that is full there (`WithinCaps`), so a
  prefix of it never has a language over its cap before that holds of everybody
  behind it. The walk's stops are `start + o * step` modulo the pool's size;
  with a step that shares no divisor with the size they differ (`StopsDiffer`,
  from the smallest multiple of the step that is one of the size too), and so
  as many of them as the pool is large are all of it. What the walk has met is
  in the tail or waits for want of room, hence fills the page up.
- *Retries* (`AnchorInv`). A promise that stands has its anchor in the FIFO with
  no more newer ones behind it than the promise has counted; an anchor in
  front of it goes only when it has expired, at whoever's reading of the clock.
- *The serving process* (`IInv`). The executors, the pool of reads, the encoder
  and the plan lean on each other in one direction only: a read that has a
  ticket or a place in the pool, and a caller that is at work in the encoder,
  keep their request's job running; so a class whose jobs have ended has nothing
  in either. Nothing is admitted after retirement, so what is drained stays
  drained until the next generation, and a resource is closed over nothing.
  A flight in the table has exactly one owner, which publishes or fails it on
  every path, so whoever holds a future of it gets an outcome. Slots, places and
  the work in the encoder are counted over the requests themselves.
- *README fetches* (`SchedulerInv`). Where a job is fixes what its future may be:
  open in the heap and in an attempt, and settled under a queued attempt only
  when a window was abandoned. Attempts and admissions are counted over the jobs
  themselves, so a step that moves one job is one more at most, and the guards
  leave room for it. An owner of a flight is a started job, and each way a job
  ends (its own attempt, `Sweep`, `DropWaiting`, `Abandon`) ends the flights it
  owns: `FlightsEnd` says so once for all of them. A retry thread leaves only
  when no job of its run is open, and a run closes its sessions after that.
- *GitHub quota* (`QuotaInv`). What a server said is not later than what its
  coordinator blocks, and such a coordinator is pinned; the pin is lost only when
  every instant it holds has passed, so forgetting one loses nothing.
- *Trending* (`TrendingInv`). Only the holder of the lock writes the file, so
  between the look that found a refresh due and its publication the file is what
  it was; what the retry cache and the backend hold is of one whole observation.
- *The checkpoint* (`CorpusInv`). What a run remembers of its queues is what the
  file has, and it changes them only by a save, so a crash loses nothing. Names
  leave a queue only with their effect done or by quarantine. What a run has
  still to do fits into the checkpoint beside what is already there, which is
  why no save of an accepted cycle can exceed `MaxActive`.
- *Repository store* (`RepositoryInv`). Every prepared write is computed from a
  point the store once had, and its filter lets it land only while the guarded
  fields have not moved; the invariant says what such a write may carry for each
  kind. Neither the lock of a repository nor the order of deliveries is used.

Changes of the models that came from the proofs:

- Where the model was coarser than the code: a search reads only once its
  encoding has returned or given up, and a request leaves a queue in the middle
  by `deque.remove`, wherever it stands. The social lookup of a recommendation
  is cut to the candidates that still fit, as the code does, and its read budget
  is counted in the code's order.
- Where only the form changed: the guards of the CASE in `Reduced`
  (`SessionReducer`) and `Container` (`Configuration`) are disjoint, so that each
  value is determined without the order of the arms; a missing point is a record
  of no rows (`NoPoint` in `ModelJournal`), not a constant of unknown shape; a
  fold over a queue of four is `RemoveAt`.
- Assumptions now say what the instances' constants always were: each job in one
  consumer's list, a scope for each client, ticks that are naturals, revisions
  from 1 as `api/contracts.py` demands with `ge=1`, operation times that are
  naturals, callers of the encoder that
  are requests, a health request that neither reads nor encodes, finite sets
  where the code counts, positive limits where the settings refuse others.

Only model-checked, and why:

- Liveness (`Drains` of both lanes, `LaneServed`, `ShutdownCompletes`,
  `ServingEnds`, `FetchingEnds`): fairness and ENABLED are out of
  reach of TLAPS 1.4.5.
- `PreflightSuffices`: a comparison of two tables of some hundred variables, not a
  protocol; the value is in the enumeration of each range's ends.

## 5. What is not modelled

- The arithmetic on vectors (feedback applier, towers, preprocessing, the value
  function, similarity and fusion weights), the encoder runtime and its files.
- The HTTP handlers beyond what they share with the parts above, the PostgreSQL
  connector, ingestion (a batch transformation of rows), offline tools, training
  and evaluation.
- The deploy transaction (`.github/workflows/deploy.yml`,
  `scripts/production_smoke.py`).
- In the acquisition path, what GitHub pages hold; duplicate GitHub ids in one
  page.

## 6. What comes next

The parts listed above, from the HTTP handlers on, and a theorem for the
comparison of the two tables of settings.
