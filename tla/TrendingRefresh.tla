--------------------------- MODULE TrendingRefresh ---------------------------
(***************************************************************************)
(* The trending worker: one owner at a time fetches the trending page,     *)
(* enriches its repositories, publishes one complete snapshot to the       *)
(* backend and records the success in a file all workers share.  A worker  *)
(* that failed keeps what it enriched, under the same snapshot identity,   *)
(* for a retry; a worker that stops loses it, and with it the knowledge of *)
(* what it published and did not record.                                   *)
(*                                                                         *)
(* Time is one clock that ticks: the age a workset may reach, the life of  *)
(* the retry cache and the refresh period keep only their order.           *)
(***************************************************************************)
EXTENDS Integers, FiniteSets

CONSTANTS Trenders,     \* the worker processes
          Repositories,
          Pages,        \* what the trending page may list: sets of repositories
          Attempts,     \* tries of one snapshot in a refresh
          RetryTicks,   \* how long after the fetch a retry may start
          CacheTicks,   \* life of the retry cache
          StaleTicks,   \* age at which a workset is refused
          FreshTicks,   \* TRENDING_REFRESH_HOURS
          MaxTime,      \* bound of the clock
          MaxSnapshots  \* bound: how many snapshot identities are made

ASSUME TrendingAssumption ==
  /\ \A page \in Pages : page # {} /\ page \subseteq Repositories
  /\ {RetryTicks, CacheTicks, StaleTicks, FreshTicks} \subseteq Nat
  /\ RetryTicks <= CacheTicks /\ CacheTicks <= StaleTicks /\ StaleTicks <= FreshTicks

VARIABLES
  now,
  recorded,  \* the singleton state file: the last success
  owner,     \* who holds the file lock
  worker,    \* a worker: stage, whether forced, page, time of the fetch, attempt, file as read
  retry,     \* its retry cache: page, expiry, snapshot, observation time, records
  accepted,  \* the snapshots the backend accepted
  minted     \* how many snapshot identities were made

trendingVars == <<now, recorded, owner, worker, retry, accepted, minted>>

Never == [id |-> 0, observed |-> -1]
Unowned == [pc |-> "idle", force |-> FALSE, page |-> {}, at |-> 0, attempt |-> 0, read |-> Never]
EmptyCache == [key |-> {}, expires |-> 0, id |-> 0, observed |-> 0, records |-> {}]

TrendingInit ==
  /\ now = 0 /\ recorded = Never /\ owner = {}
  /\ worker = [w \in Trenders |-> Unowned]
  /\ retry = [w \in Trenders |-> EmptyCache]
  /\ accepted = {} /\ minted = 0

Doing(w, pc) == worker[w].pc = pc
Moves(w, pc) == worker' = [worker EXCEPT ![w].pc = pc]
Forgets(w) == retry' = [retry EXCEPT ![w] = EmptyCache]

---------------------------------------------------------------------------
(* refresh_session() and the fetch *)

\* The lock is taken without waiting; an unforced refresh needs a success that
\* is old enough.  A refusal of either kind changes nothing.
RefreshDue(force) == force \/ recorded = Never \/ now - recorded.observed >= FreshTicks

Claim(w) ==
  /\ Doing(w, "idle") /\ owner = {}
  /\ \E force \in BOOLEAN :
       /\ RefreshDue(force)
       /\ owner' = {w}
       /\ worker' = [worker EXCEPT ![w] = [Unowned EXCEPT !.pc = "fetch", !.force = force]]
  /\ UNCHANGED <<now, recorded, retry, accepted, minted>>

\* The page cannot be had or lists nothing: the refresh fails.
Fetch(w) ==
  /\ Doing(w, "fetch")
  /\ \/ Moves(w, "leave")
     \/ \E page \in Pages :
          worker' = [worker EXCEPT ![w].pc = "workset", ![w].page = page, ![w].at = now, ![w].attempt = 1]
  /\ UNCHANGED <<now, recorded, owner, retry, accepted, minted>>

---------------------------------------------------------------------------
(* _publish_complete_snapshot() *)

\* Mutant: an expired workset is fetched anew under its old identity.
PendingRenamed(w) ==
  IF retry[w].key = worker[w].page
  THEN IF now < retry[w].expires THEN retry[w]
       ELSE [retry[w] EXCEPT !.expires = now + CacheTicks, !.observed = worker[w].at, !.records = {}]
  ELSE [key |-> worker[w].page, expires |-> now + CacheTicks, id |-> minted + 1,
        observed |-> worker[w].at, records |-> {}]

\* The retry cache serves the same page until it expires; a new workset gets
\* its own identity and the time of its fetch.
Pending(w) ==
  IF retry[w].key = worker[w].page /\ now < retry[w].expires THEN retry[w]
  ELSE [key |-> worker[w].page, expires |-> now + CacheTicks, id |-> minted + 1,
        observed |-> worker[w].at, records |-> {}]

Stale(workset) == now - workset.observed >= StaleTicks

Workset(w) ==
  /\ Doing(w, "workset")
  /\ LET workset == Pending(w) IN
       /\ workset.id <= MaxSnapshots
       /\ minted' = IF workset.id > minted THEN workset.id ELSE minted
       /\ IF Stale(workset) THEN Forgets(w) /\ Moves(w, "leave")
          ELSE retry' = [retry EXCEPT ![w] = workset] /\ Moves(w, "enrich")
  /\ UNCHANGED <<now, recorded, owner, accepted>>

Missing(w) == worker[w].page \ {r.repo : r \in retry[w].records}

\* Only what the cache lacks is enriched; each record is of its own moment.
\* An error of the configuration or in a record ends the refresh.
Enrich(w) ==
  /\ Doing(w, "enrich")
  /\ \E got \in SUBSET Missing(w) :
       /\ retry' = [retry EXCEPT ![w].records = @ \cup {[repo |-> r, of |-> now] : r \in got}]
       /\ \/ Moves(w, "leave")
          \/ Moves(w, "enriched")
  /\ UNCHANGED <<now, recorded, owner, accepted, minted>>

\* What is still missing is tried again, a few times and not for long; a
\* complete workset that has grown old is dropped.
JudgeWorkset(w) ==
  /\ Doing(w, "enriched")
  /\ IF Missing(w) # {}
     THEN /\ worker' = IF worker[w].attempt < Attempts /\ now < worker[w].at + RetryTicks
                       THEN [worker EXCEPT ![w].pc = "workset", ![w].attempt = @ + 1]
                       ELSE [worker EXCEPT ![w].pc = "leave"]
          /\ UNCHANGED retry
     ELSE IF Stale(retry[w]) THEN Forgets(w) /\ Moves(w, "leave")
     ELSE Moves(w, "publish") /\ UNCHANGED retry
  /\ UNCHANGED <<now, recorded, owner, accepted, minted>>

Snapshot(w) == [id |-> retry[w].id, observed |-> retry[w].observed, records |-> retry[w].records]

\* The backend may accept a snapshot whose acknowledgement is lost.
Publish(w) ==
  /\ Doing(w, "publish")
  /\ \/ Moves(w, "leave") /\ UNCHANGED accepted
     \/ accepted' = accepted \cup {Snapshot(w)} /\ (Moves(w, "leave") \/ Moves(w, "mark"))
  /\ UNCHANGED <<now, recorded, owner, retry, minted>>

---------------------------------------------------------------------------
(* mark_success() and the end of the session *)

\* The file is read once more, and is not made to regress.
MarkSuccess(w) ==
  /\ Doing(w, "mark")
  /\ worker' = [worker EXCEPT ![w].pc = IF retry[w].observed < recorded.observed THEN "leave" ELSE "replace",
                              ![w].read = recorded]
  /\ UNCHANGED <<now, recorded, owner, retry, accepted, minted>>

\* The file is replaced as a whole, then the cache is cleared.
Replace(w) ==
  /\ Doing(w, "replace")
  /\ recorded' = [id |-> retry[w].id, observed |-> retry[w].observed]
  /\ Forgets(w) /\ Moves(w, "leave")
  /\ UNCHANGED <<now, owner, accepted, minted>>

Leave(w) ==
  /\ Doing(w, "leave")
  /\ owner' = owner \ {w}
  /\ worker' = [worker EXCEPT ![w] = Unowned]
  /\ UNCHANGED <<now, recorded, retry, accepted, minted>>

\* The process stops and is started again: the lock goes with it.
Restart(w) ==
  /\ owner' = owner \ {w}
  /\ worker' = [worker EXCEPT ![w] = Unowned]
  /\ Forgets(w)
  /\ UNCHANGED <<now, recorded, accepted, minted>>

Tick == now < MaxTime /\ now' = now + 1 /\ UNCHANGED <<recorded, owner, worker, retry, accepted, minted>>

TrendingNext ==
  \/ \E w \in Trenders : \/ Claim(w) \/ Fetch(w) \/ Workset(w) \/ Enrich(w) \/ JudgeWorkset(w)
                         \/ Publish(w) \/ MarkSuccess(w) \/ Replace(w) \/ Leave(w) \/ Restart(w)
  \/ Tick

---------------------------------------------------------------------------
\* A recorded success is of a snapshot the backend accepted, with that time.
RecordedAccepted == recorded = Never \/ \E s \in accepted : s.id = recorded.id /\ s.observed = recorded.observed

\* A snapshot sent again is the same snapshot, and none lacks a repository of
\* its page or claims a time after one of its records.
SentOnce == \A s, t \in accepted : s.id = t.id => s = t
Complete == \A s \in accepted : /\ {r.repo : r \in s.records} \in Pages
                                /\ \A r \in s.records : s.observed <= r.of

\* An unforced refresh never publishes while the recorded success is fresh,
\* nor an observation older than the recorded one, although it looked at the
\* file long before.
UnforcedDue == \A w \in Trenders : Doing(w, "publish") /\ ~worker[w].force =>
                 recorded = Never \/ (/\ now - recorded.observed >= FreshTicks
                                      /\ retry[w].observed >= recorded.observed)

\* Recorded freshness only moves forward, whoever owned the lock, and all the
\* above hold: what the file says can be trusted by the next owner.
RecordedForward == recorded'.observed >= recorded.observed
FreshnessHonest ==
  /\ [](RecordedAccepted /\ SentOnce /\ Complete /\ UnforcedDue)
  /\ [][RecordedForward]_trendingVars
=============================================================================
