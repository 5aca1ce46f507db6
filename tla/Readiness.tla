-------------------------------- MODULE Readiness --------------------------------
(***************************************************************************)
(* What GET /health answers: HealthDiagnostics keeps the last collection   *)
(* of two dependency checks, refreshed by one job at a time; Redis counts  *)
(* as well only while a consumer of this release keeps its heartbeat.      *)
(***************************************************************************)
EXTENDS Integers, FiniteSets

CONSTANTS Consumers,      \* feedback consumers, as <<release, name>>
          CurrentRelease, \* the release of this API process
          RefreshSeconds, MaxAge, TimeLimit,   \* HealthSettings
          HeartbeatLife,  \* the heartbeat key's time to live
          MaxReadyTime, MaxTroubles, MaxBeats   \* bounds: clock; dependencies found unwell, refused admissions, crashes; heartbeats

NoConsumer == <<"none", "none">>
Deps == {"qdrant", "redis"}
ASSUME ReadinessAssumption ==
  /\ {RefreshSeconds, MaxAge, TimeLimit, HeartbeatLife} \subseteq Nat \ {0} /\ {MaxReadyTime, MaxTroubles, MaxBeats} \subseteq Nat
  /\ MaxAge >= RefreshSeconds + 2 * TimeLimit   \* HealthSettings.from_env refuses less
  /\ NoConsumer \notin Consumers

VARIABLES
  readyClock, trouble,
  diag,       \* HealthDiagnostics: its job, when the next may start, what it last took in, whether it stops
  checks,     \* the jobs by when they began: what the checks found, whether its end was noticed and taken in
  heartbeat,  \* the key: whose, until when; and (history) who set it last
  beats,      \* bound: how often the key was set
  consumers   \* each consumer: whether it runs; (history) until when its last setting of the key lasts

readyVars == <<readyClock, trouble, diag, checks, heartbeat, beats, consumers>>

Unfound == [good |-> FALSE, true |-> FALSE, made |-> FALSE]
Begun == [found |-> [d \in Deps |-> Unfound], timely |-> TRUE, noticed |-> FALSE, took |-> FALSE]
\* A consumer may have run before this process started.
ReadyInit ==
  /\ readyClock = 0 /\ trouble = 0 /\ beats = 0 /\ checks = <<>>
  /\ diag = [job |-> -1, next |-> 0, observed |-> -1, healthy |-> FALSE, stop |-> FALSE]
  /\ \E h \in Consumers \cup {NoConsumer} :
       /\ heartbeat = [by |-> h, until |-> IF h = NoConsumer THEN 0 ELSE HeartbeatLife, last |-> h]
       /\ consumers = [c \in Consumers |-> [up |-> c = h, until |-> IF c = h THEN HeartbeatLife ELSE 0]]

ProbeTrouble == trouble < MaxTroubles /\ trouble' = trouble + 1

---------------------------------------------------------------------------
(* HealthDiagnostics *)

\* The future of a job is done once both its children are, before its
\* callback runs.
Done(j) == \A d \in Deps : checks[j].found[d].made
Running == diag.job >= 0 /\ ~Done(diag.job)

\* refresh(): one job at a time, never more often than the cadence. A refused
\* admission invalidates the last success.
BeginDiagnostic ==
  /\ ~diag.stop /\ ~Running /\ readyClock >= diag.next
  /\ Cardinality({j \in DOMAIN checks : ~checks[j].noticed}) <= 1   \* bound: callbacks that lag
  /\ \/ /\ checks' = [j \in DOMAIN checks \cup {readyClock} |-> IF j = readyClock THEN Begun ELSE checks[j]]
        /\ diag' = [diag EXCEPT !.job = readyClock, !.next = readyClock + RefreshSeconds]
        /\ UNCHANGED trouble
     \/ /\ ProbeTrouble /\ diag' = [diag EXCEPT !.next = readyClock + RefreshSeconds, !.healthy = FALSE]
        /\ UNCHANGED checks
  /\ UNCHANGED <<readyClock, heartbeat, beats, consumers>>

BeatsForUs == readyClock < heartbeat.until /\ heartbeat.by[1] = CurrentRelease

\* _qdrant_health(), health(): it answers within its thresholds and, for
\* Redis, such a consumer is active.
HealthOf(d, well) == well /\ (d = "redis" => BeatsForUs)
\* check_dependency(): not at all once stopping or past the deadline. The
\* dependency may be found unwell. (History: whether one really had, within its life.)
Check(j, d) ==
  /\ ~checks[j].found[d].made
  /\ \E well \in BOOLEAN :
       LET timely == readyClock < j + TimeLimit
           ours == \E h \in Consumers : h[1] = CurrentRelease /\ readyClock < consumers[h].until
       IN  /\ IF well THEN UNCHANGED trouble ELSE ProbeTrouble
           /\ checks' = [checks EXCEPT
                ![j].found[d] = [good |-> ~diag.stop /\ timely /\ HealthOf(d, well),
                                 true |-> timely /\ well /\ (d = "redis" => ours), made |-> TRUE],
                ![j].timely = timely]
  /\ UNCHANGED <<readyClock, diag, heartbeat, beats, consumers>>

\* _complete(): a job replaced in between is not taken in, a late one never
\* as a success: the clock is read before the lock is taken.
\* (What no later answer can rest on is forgotten.)
\* Mutant: whichever callback runs last is taken in.
Noticed(j, took) ==
  [k \in ({i \in DOMAIN checks : ~checks[i].noticed /\ i # j} \cup {diag.job} \cup {IF took THEN j ELSE diag.observed}) \ {-1} |->
     IF k = j THEN [checks[k] EXCEPT !.noticed = TRUE, !.took = took] ELSE checks[k]]
Taken(j, timely) ==
  [diag EXCEPT !.observed = j, !.healthy = timely /\ \A d \in Deps : checks[j].found[d].good]
CompleteAny(j) ==
  /\ Done(j) /\ ~checks[j].noticed
  /\ checks' = Noticed(j, TRUE) /\ diag' = Taken(j, checks[j].timely)
  /\ UNCHANGED <<readyClock, trouble, heartbeat, beats, consumers>>
Complete(j) ==
  /\ Done(j) /\ ~checks[j].noticed
  /\ checks' = Noticed(j, j = diag.job)
  /\ IF j = diag.job THEN \E timely \in {checks[j].timely, readyClock < j + TimeLimit} : diag' = Taken(j, timely)
     ELSE UNCHANGED diag
  /\ UNCHANGED <<readyClock, trouble, heartbeat, beats, consumers>>

Overdue == Running /\ readyClock >= diag.job + TimeLimit
Fresh == diag.observed >= 0 /\ readyClock - diag.observed <= MaxAge
\* What snapshot() and _readiness_response() answer now.
Ready == diag.healthy /\ ~Overdue /\ ~diag.stop /\ Fresh

\* snapshot(): the timeout of the job under way, or the stop, is kept.
Probe ==
  /\ Overdue \/ diag.stop
  /\ diag' = [diag EXCEPT !.healthy = FALSE]
  /\ UNCHANGED <<readyClock, trouble, checks, heartbeat, beats, consumers>>
Stop ==
  /\ ~diag.stop /\ diag' = [diag EXCEPT !.stop = TRUE]
  /\ UNCHANGED <<readyClock, trouble, checks, heartbeat, beats, consumers>>

---------------------------------------------------------------------------
(* The consumers of both releases *)

\* _refresh_heartbeat(), by the polling loop, the heartbeat thread and a drain.
Beat(h) ==
  /\ beats < MaxBeats /\ beats' = beats + 1
  /\ heartbeat' = [by |-> h, until |-> readyClock + HeartbeatLife, last |-> h]
  /\ consumers' = [consumers EXCEPT ![h] = [up |-> TRUE, until |-> readyClock + HeartbeatLife]]
  /\ UNCHANGED <<readyClock, trouble, diag, checks>>
\* close() deletes the key only where it is its own; a crash leaves it.
Leave(h) ==
  /\ consumers[h].up /\ consumers' = [consumers EXCEPT ![h].up = FALSE]
  /\ heartbeat' = IF heartbeat.by = h THEN [heartbeat EXCEPT !.by = NoConsumer, !.until = 0] ELSE heartbeat
  /\ UNCHANGED <<readyClock, trouble, diag, checks, beats>>
Crash(h) ==
  /\ consumers[h].up /\ ProbeTrouble /\ consumers' = [consumers EXCEPT ![h].up = FALSE]
  /\ UNCHANGED <<readyClock, diag, checks, heartbeat, beats>>

ReadyTick ==
  /\ readyClock < MaxReadyTime /\ readyClock' = readyClock + 1
  /\ heartbeat' = IF heartbeat.until = readyClock + 1 THEN [heartbeat EXCEPT !.by = NoConsumer, !.until = 0] ELSE heartbeat
  /\ consumers' = [h \in Consumers |->
       IF consumers[h].until = readyClock + 1 THEN [consumers[h] EXCEPT !.until = 0] ELSE consumers[h]]
  /\ UNCHANGED <<trouble, diag, checks, beats>>

ReadyNext ==
  \/ BeginDiagnostic \/ Probe \/ Stop \/ ReadyTick
  \/ \E j \in DOMAIN checks : Complete(j) \/ \E d \in Deps : Check(j, d)
  \/ \E h \in Consumers : Beat(h) \/ Leave(h) \/ Crash(h)

---------------------------------------------------------------------------
(* Properties *)

\* A ready answer rests on one collection, begun no longer ago than the
\* maximum age: both dependencies were well within its deadline, a consumer
\* of this release had set the heartbeat within its life, and no collection
\* begun since has failed, unless it was overtaken, nor is one overdue.
ReadyHonest ==
  Ready =>
    \E j \in DOMAIN checks :
      /\ checks[j].noticed /\ readyClock - j <= MaxAge
      /\ \A d \in Deps : checks[j].found[d].true
      /\ \A k \in {i \in DOMAIN checks : i > j} :
           \/ ~Done(k) /\ readyClock < k + TimeLimit
           \/ Done(k) /\ ~checks[k].noticed
           \/ checks[k].noticed /\ ~checks[k].took

\* A consumer that leaves takes no other's heartbeat with it: who set the key
\* last and still runs has it until its life ends.
HeartbeatKept ==
  LET h == heartbeat.last IN
  h # NoConsumer /\ consumers[h].up /\ readyClock < consumers[h].until => heartbeat.by = h

\* A ready answer rests on checks that ended well and in time, Redis's on a
\* consumer that is there.
ReadySound == ReadyHonest /\ HeartbeatKept
=============================================================================
