--------------------------- MODULE RepositoryJobs ---------------------------
(***************************************************************************)
(* The jobs that write one repository's point in the vector store: the     *)
(* embedding of a content version and the refresh of its features, each    *)
(* with an observation of the repository's lifecycle, delivered at least   *)
(* once and in any order.  A job reads the point, computes, and writes     *)
(* with a filter over what it read; the store answers a filtered no-op as  *)
(* a success, so the job reads again to learn who won.                     *)
(*                                                                         *)
(* The lock of the repository may lapse under a job that goes on: what the *)
(* job asserts is what its renewal thread last knew, so an assertion may   *)
(* pass or fail at any time, and only the release asks Redis.              *)
(***************************************************************************)
EXTENDS Integers, FiniteSets

CONSTANTS EmbedJobs, RefreshJobs,
          Version,      \* content_version or feature_version of a job
          Hash,         \* content_hash of an embedding job
          Observation,  \* the lifecycle observation a job carries, or Unobserved
          Unlocked,     \* the holder of a free lock
          Deliveries    \* bound: how often the jobs are delivered, one choice per behaviour

JobIds == EmbedJobs \cup RefreshJobs
Unobserved == [status |-> "none", at |-> 0, archived |-> FALSE]

ASSUME RepositoryAssumption ==
  /\ EmbedJobs \cap RefreshJobs = {} /\ Unlocked \notin JobIds
  /\ \A j \in JobIds : /\ Version[j] \in Nat \ {0}
                       /\ Observation[j] = Unobserved \/ Observation[j].at \in Nat \ {0}

VARIABLES
  point,    \* the repository's point
  holder,   \* the holder of the repository job lock in Redis
  work,     \* a delivered job: stage, point as read, what it writes, point read after
  left,     \* deliveries a job still gets
  late,     \* writes whose caller timed out and which may still land
  promised  \* history: the jobs acknowledged as accepted

repositoryVars == <<point, holder, work, left, late, promised>>

NoPoint == [content |-> 0, contentJob |-> Unlocked, hash |-> "none",
            feature |-> 0, featureJob |-> Unlocked, counts |-> Unlocked,
            life |-> [at |-> 0, archived |-> FALSE, tryAt |-> 0, tried |-> "none"],
            summary |-> [of |-> "none", source |-> "none"]]
NotWorking == [pc |-> "idle", read |-> NoPoint, next |-> NoPoint, seen |-> NoPoint]

RepositoryInit ==
  /\ point = NoPoint /\ holder = Unlocked
  /\ work = [j \in JobIds |-> NotWorking]
  /\ left \in Deliveries
  /\ late = {} /\ promised = {}

---------------------------------------------------------------------------
(* The lock and the ends of a job *)

At(j, pc) == work[j].pc = pc
Released(j) == IF holder = j THEN Unlocked ELSE holder
Goes(j, pc) == work' = [work EXCEPT ![j].pc = pc]

Deliver(j) ==
  /\ At(j, "idle") /\ left[j] > 0 /\ holder = Unlocked
  /\ holder' = j /\ left' = [left EXCEPT ![j] = @ - 1] /\ Goes(j, "read")
  /\ UNCHANGED <<point, late, promised>>

Lapse == holder # Unlocked /\ holder' = Unlocked /\ UNCHANGED <<point, work, left, late, promised>>

\* A refusal, a retryable answer, an exception or a crash: nothing is promised.
Stops(j) ==
  /\ work' = [work EXCEPT ![j] = NotWorking] /\ holder' = Released(j)
  /\ UNCHANGED <<point, left, promised>>

GiveUpJob(j) == ~At(j, "idle") /\ Stops(j) /\ UNCHANGED late

\* Leaving the lock succeeds only for its holder; a job that lost it answers
\* that the lock expired.
Accepts(j) ==
  /\ work' = [work EXCEPT ![j] = NotWorking] /\ holder' = Released(j)
  /\ promised' = IF holder = j THEN promised \cup {j} ELSE promised
  /\ UNCHANGED <<point, left, late>>

---------------------------------------------------------------------------
(* Classifying a job against a point *)

\* _repository_job_status()
Status(j, p) ==
  LET current == IF j \in EmbedJobs THEN p.content ELSE p.feature
      job == IF j \in EmbedJobs THEN p.contentJob ELSE p.featureJob
  IN CASE job = j -> "duplicate"
       [] job # j /\ Version[j] < current -> "older"
       [] job # j /\ Version[j] = current -> "current"
       [] OTHER -> "apply"

\* merge_lifecycle(): verified evidence is monotone, a failed attempt asserts
\* nothing, and a tie of two verdicts is refused.
Verified(j) == Observation[j].status = "verified"
Conflict(j, life) == Verified(j) /\ Observation[j].at = life.at /\ Observation[j].archived # life.archived
Merged(j, life) ==
  LET o == Observation[j]
      tried == IF o.at > life.tryAt \/ (o.at = life.tryAt /\ Verified(j))
               THEN [life EXCEPT !.tryAt = o.at, !.tried = o.status] ELSE life
  IN IF o = Unobserved THEN life
     ELSE IF Verified(j) /\ o.at > life.at THEN [tried EXCEPT !.at = o.at, !.archived = o.archived] ELSE tried

\* card_summary_from_payload() and is_current(): a generated summary is bound
\* to the content it was generated from, a fallback is not.
Current(j, summary) == summary.source = "fallback" \/ (summary.source = "generated" /\ summary.of = Hash[j])
Summaries(j) == {[of |-> Hash[j], source |-> s] : s \in {"generated", "fallback"}}

---------------------------------------------------------------------------
(* Conditional writes *)

\* Mutant: a content write does not name the features it carries over.
UnmovedContent(kind, p, read) ==
  /\ kind \in {"content", "life", "summary"} => p.content = read.content /\ p.contentJob = read.contentJob
  /\ kind \in {"life", "features"} =>
       p.feature = read.feature /\ p.featureJob = read.featureJob /\ p.life = read.life
  /\ kind = "summary" => p.summary = read.summary

\* payload_snapshot_filter() over the fields each kind of write names.
Unmoved(kind, p, read) ==
  /\ kind \in {"content", "life", "summary"} => p.content = read.content /\ p.contentJob = read.contentJob
  /\ kind \in {"content", "life", "features"} =>
       p.feature = read.feature /\ p.featureJob = read.featureJob /\ p.life = read.life
  /\ kind = "summary" => p.summary = read.summary

\* A first content is inserted only; every other write updates a point that is
\* still what was read.  Content replaces the point, the others patch it.
Applied(kind, p, read, next) ==
  IF (kind = "content" /\ read = NoPoint /\ p # NoPoint) \/ (read # NoPoint /\ ~Unmoved(kind, p, read))
  THEN p
  ELSE CASE kind = "content" -> next
         [] kind = "features" -> [p EXCEPT !.feature = next.feature, !.featureJob = next.featureJob,
                                           !.counts = next.counts, !.life = next.life]
         [] kind = "life" -> [p EXCEPT !.life = next.life]
         [] kind = "summary" -> [p EXCEPT !.summary = next.summary]

\* The stage in which a job has a write to make, and what it writes.
Kind(j) == CASE At(j, "life") -> "life" [] At(j, "summary") -> "summary"
             [] At(j, "write") -> IF j \in EmbedJobs THEN "content" ELSE "features"

Write(j) ==
  /\ work[j].pc \in {"life", "summary", "write"}
  /\ point' = Applied(Kind(j), point, work[j].read, work[j].next)
  /\ Goes(j, CASE At(j, "life") -> "life_read" [] At(j, "summary") -> "summary_read" [] At(j, "write") -> "reread")
  /\ UNCHANGED <<holder, left, late, promised>>

\* The call times out; the store may still perform it.
TimeOut(j) ==
  /\ work[j].pc \in {"life", "summary", "write"}
  /\ late' = late \cup {[kind |-> Kind(j), read |-> work[j].read, next |-> work[j].next]}
  /\ Stops(j)

Land(w) ==
  /\ point' = Applied(w.kind, point, w.read, w.next) /\ late' = late \ {w}
  /\ UNCHANGED <<holder, work, left, promised>>

Prepares(j, pc, read, next) ==
  /\ work' = [work EXCEPT ![j] = [pc |-> pc, read |-> read, next |-> next, seen |-> NoPoint]]
  /\ UNCHANGED <<point, holder, left, late, promised>>

---------------------------------------------------------------------------
(* A job reads the point and decides *)

\* _apply_lifecycle_observation(), or what follows when it has nothing to add:
\* a refresh is done, an embedding looks at the summary.
ObservesOnly(j, p) ==
  IF Conflict(j, p.life) THEN Stops(j) /\ UNCHANGED late
  ELSE IF Merged(j, p.life) # p.life
  THEN Prepares(j, "life", p, [p EXCEPT !.life = Merged(j, p.life)])
  ELSE IF j \in RefreshJobs THEN Accepts(j)
  ELSE Prepares(j, "summarize", p, p)

\* The content replaces the point: refreshed features are carried over from
\* the point read, the lifecycle is merged with the one read.
Embedded(j, p, summary) ==
  [content |-> Version[j], contentJob |-> j, hash |-> Hash[j],
   feature |-> p.feature, featureJob |-> p.featureJob,
   counts |-> IF p.feature > 0 THEN p.counts ELSE j,
   life |-> Merged(j, p.life), summary |-> summary]

ReadEmbed(j) ==
  /\ j \in EmbedJobs /\ At(j, "read")
  /\ CASE Status(j, point) = "older" -> Stops(j) /\ UNCHANGED late
       [] Status(j, point) \in {"duplicate", "current"} ->
            IF point.hash # Hash[j] THEN Stops(j) /\ UNCHANGED late ELSE ObservesOnly(j, point)
       [] Status(j, point) = "apply" ->
            IF Conflict(j, point.life) THEN Stops(j) /\ UNCHANGED late
            ELSE \E summary \in Summaries(j) : Prepares(j, "write", point, Embedded(j, point, summary))

\* A repository that is not indexed is refused; an older refresh is heard for
\* its observation only.
ReadRefresh(j) ==
  /\ j \in RefreshJobs /\ At(j, "read")
  /\ IF \/ point = NoPoint
        \/ Status(j, point) = "older" /\ Observation[j] = Unobserved
     THEN Stops(j) /\ UNCHANGED late
     ELSE IF Status(j, point) # "apply" THEN ObservesOnly(j, point)
     ELSE IF Conflict(j, point.life) THEN Stops(j) /\ UNCHANGED late
     ELSE Prepares(j, "write", point, [point EXCEPT !.feature = Version[j], !.featureJob = j, !.counts = j,
                                                    !.life = Merged(j, point.life)])

\* A summary that is not current, or a fallback, is generated anew.
Summarize(j) ==
  /\ At(j, "summarize")
  /\ \/ Current(j, work[j].read.summary) /\ Accepts(j)
     \/ \E summary \in Summaries(j) :
          Prepares(j, "summary", work[j].read, [work[j].read EXCEPT !.summary = summary])

---------------------------------------------------------------------------
(* A job reads what it wrote, or who won *)

Retrieve(j) ==
  /\ work[j].pc \in {"life_read", "summary_read", "reread"}
  /\ work' = [work EXCEPT ![j].seen = point,
                          ![j].pc = CASE At(j, "life_read") -> "life_check" [] At(j, "summary_read") -> "summary_check"
                                      [] At(j, "reread") -> "check"]
  /\ UNCHANGED <<point, holder, left, late, promised>>

\* The winner of another content is never adopted.
CheckLife(j) ==
  /\ At(j, "life_check")
  /\ LET read == work[j].read  seen == work[j].seen IN
       IF /\ <<seen.content, seen.contentJob, seen.hash>> = <<read.content, read.contentJob, read.hash>>
          /\ seen.life = work[j].next.life
       THEN IF j \in RefreshJobs THEN Accepts(j) ELSE Prepares(j, "summarize", seen, seen)
       ELSE Stops(j) /\ UNCHANGED late

CheckSummary(j) ==
  /\ At(j, "summary_check")
  /\ IF Status(j, work[j].seen) # "older" /\ Current(j, work[j].seen.summary)
     THEN Accepts(j) ELSE Stops(j) /\ UNCHANGED late

\* _repository_cas_outcome(), after the lifecycle and before the summary.
CheckWrite(j) ==
  /\ At(j, "check")
  /\ LET seen == work[j].seen IN
       IF /\ Observation[j] # Unobserved => seen.life = work[j].next.life
          /\ Status(j, seen) \in {"duplicate", "current"}
          /\ j \in EmbedJobs => Current(j, seen.summary)
       THEN Accepts(j) ELSE Stops(j) /\ UNCHANGED late

RepositoryNext ==
  \/ \E j \in JobIds : \/ Deliver(j) \/ GiveUpJob(j) \/ Write(j) \/ TimeOut(j) \/ ReadEmbed(j) \/ ReadRefresh(j)
                       \/ Summarize(j) \/ Retrieve(j) \/ CheckLife(j) \/ CheckSummary(j) \/ CheckWrite(j)
  \/ \E w \in late : Land(w)
  \/ Lapse

---------------------------------------------------------------------------
\* What a job was promised stays: its version or a newer one, and everything
\* its observation said or something newer.
PromisesKept ==
  \A j \in promised :
    /\ j \in EmbedJobs => point.content >= Version[j]
    /\ j \in RefreshJobs => point.feature >= Version[j]
    /\ Verified(j) => point.life.at >= Observation[j].at
    /\ point.life.tryAt >= Observation[j].at

\* The parts of the point belong together: the summary was made for the
\* content it is served with, and a content never brings back the counts a
\* refresh replaced.
PayloadCoherent ==
  /\ point.summary.of = point.hash
  /\ point.feature > 0 => point.counts = point.featureJob

\* No write moves a revision or the lifecycle evidence back, or exchanges what
\* a revision stands for, however late it lands.
RepositoryForward ==
  /\ point'.content >= point.content
  /\ point'.content = point.content => point'.contentJob = point.contentJob /\ point'.hash = point.hash
  /\ point'.feature >= point.feature
  /\ point'.feature = point.feature => point'.featureJob = point.featureJob
  /\ point'.life.at >= point.life.at /\ point'.life.tryAt >= point.life.tryAt
  /\ point'.life.at = point.life.at => point'.life.archived = point.life.archived

RepositoryHonest ==
  /\ [](PromisesKept /\ PayloadCoherent)
  /\ [][RepositoryForward]_repositoryVars
=============================================================================
