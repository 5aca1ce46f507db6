--------------------------- MODULE ReadmeScheduler ---------------------------
(***************************************************************************)
(* The README scheduler of an acquisition run and the single-flight cache  *)
(* its fetches share with the other runs of the process.                   *)
(*                                                                         *)
(* A run has consumers (the metadata batches), each walking its own list   *)
(* of jobs through a rolling window; a fixed number of transport workers;  *)
(* and twice as many admissions.  A fetch that must retry gives its worker *)
(* back and keeps its admission and its flight.                            *)
(***************************************************************************)
EXTENDS Integers, FiniteSets, Sequences

CONSTANTS Runs, Consumers, Jobs, Keys,
          Nobody,        \* the owner of a key no flight loads
          RunOf,         \* the run of a consumer
          Work,          \* the jobs of a consumer, in repository order
          KeyOf,         \* the immutable artifact a job reads
          Workers,       \* the workers of a run
          MaxFlights,    \* max_inflight of the cache
          MaxEntries,    \* max_entries of the cache
          MaxRetries     \* bound: how often each fetch is told to retry later

\* Every job is in one place of one consumer's list.
ASSUME SchedulerAssumption ==
  /\ IsFiniteSet(Jobs) /\ Nobody \notin Jobs
  /\ RunOf \in [Consumers -> Runs] /\ Work \in [Consumers -> Seq(Jobs)] /\ KeyOf \in [Jobs -> Keys]
  /\ Workers \in [Runs -> Nat \ {0}] /\ MaxRetries \in [Jobs -> Nat]
  /\ \A j \in Jobs : \E c \in Consumers : \E i \in 1..Len(Work[c]) : Work[c][i] = j
  /\ \A c, d \in Consumers : \A i \in 1..Len(Work[c]), n \in 1..Len(Work[d]) :
       Work[c][i] = Work[d][n] => c = d /\ i = n

VARIABLES
  job,         \* a job: its future, where its attempt is, its retries
  consumer,    \* how far a consumer is, and the futures of its window
  cancelled,   \* the runs whose cancel event, external event or deadline has passed
  sweep,       \* the runs in cancel(), before the loop over the jobs
  closing,     \* the stage of close() of a run
  dispatcher,  \* the runs whose retry thread is alive
  flightOwner, \* the job whose flight loads a key
  follows,     \* the state of the flight a job remembers
  cached       \* the keys in the cache

schedulerVars == <<job, consumer, cancelled, sweep, closing, dispatcher,
                   flightOwner, follows, cached>>

ConsumerOf(j) == CHOOSE c \in Consumers : \E i \in 1..Len(Work[c]) : Work[c][i] = j
OfRun(j) == RunOf[ConsumerOf(j)]
Settled == {"value", "error", "cancelled"}
Live == {"ref", "io"}
Attempting == {"queued"} \cup Live
Active(r) == {j \in Jobs : OfRun(j) = r /\ job[j].at \in Attempting}
Admitted(r) == {j \in Jobs : /\ OfRun(j) = r
                             /\ job[j].at = "slot" \/ job[j].future \in {"pending", "running"}}
Slots(r) == 2 * Workers[r]

SchedulerInit ==
  /\ job = [j \in Jobs |-> [future |-> "none", at |-> "new", retries |-> 0]]
  /\ consumer = [c \in Consumers |-> [submitted |-> 0, taken |-> 0, pc |-> "fill"]]
  /\ cancelled = {} /\ sweep = {}
  /\ closing = [r \in Runs |-> "open"]
  /\ dispatcher = Runs
  /\ flightOwner = [k \in Keys |-> Nobody]
  /\ follows = [j \in Jobs |-> "none"]
  /\ cached = {}

---------------------------------------------------------------------------
\* A flight ends: its followers see the outcome, whoever the owner was.
Complete(j, outcome) ==
  [owner |-> [flightOwner EXCEPT ![KeyOf[j]] = Nobody],
   follows |-> [i \in Jobs |-> IF KeyOf[i] = KeyOf[j] /\ follows[i] = "open"
                               THEN outcome ELSE follows[i]]]

\* A set of jobs settle: each admission is released and each budget finished,
\* which abandons a flight the job still owns.
Released(ends, owner, followers) ==
  LET left == {KeyOf[j] : j \in {i \in ends : owner[KeyOf[i]] = i}} IN
  /\ flightOwner' = [k \in Keys |-> IF k \in left THEN Nobody ELSE owner[k]]
  /\ follows' = [i \in Jobs |-> IF i \in ends THEN "none"
                                ELSE IF KeyOf[i] \in left /\ followers[i] = "open" THEN "error"
                                ELSE followers[i]]

Release(ends) == Released(ends, flightOwner, follows)

Over(j, outcome) == [j EXCEPT !.future = outcome, !.at = "over", !.retries = 0]

\* A future nobody has started can be cancelled; a started one gets an error.
Cancelled(f) == IF f = "pending" THEN "cancelled" ELSE "error"

---------------------------------------------------------------------------
(* ordered(): the consumer's rolling window *)

Upcoming(c) == Work[c][consumer[c].submitted + 1]
Exhausted(c) == consumer[c].submitted = Len(Work[c])
InWindow(c) == {Work[c][i] : i \in (consumer[c].taken + 1)..consumer[c].submitted}

\* submit() takes an admission of the run ...
TakeSlot(c) ==
  LET r == RunOf[c] IN
  /\ consumer[c].pc \in {"fill", "refill"} /\ ~Exhausted(c)
  /\ job[Upcoming(c)].at = "new"
  /\ Cardinality(Admitted(r)) < Slots(r)
  /\ job' = [job EXCEPT ![Upcoming(c)].at = "slot"]
  /\ UNCHANGED <<consumer, cancelled, sweep, closing, dispatcher, flightOwner, follows, cached>>

\* ... or gives up when the run is cancelled while all are taken, as a batch
\* does that has not begun ...
GiveUp(c) ==
  LET r == RunOf[c] IN
  /\ consumer[c].pc \in {"fill", "refill"} /\ ~Exhausted(c)
  /\ job[Upcoming(c)].at = "new"
  /\ r \in cancelled
  /\ Cardinality(Admitted(r)) = Slots(r) \/ consumer[c].submitted = 0
  /\ consumer' = [consumer EXCEPT ![c].pc = "abandon"]
  /\ UNCHANGED <<job, cancelled, sweep, closing, dispatcher, flightOwner, follows, cached>>

\* ... and registers the job, starting it at once when a worker is free.
Register(c) ==
  LET j == Upcoming(c)
      r == RunOf[c]
      state == [consumer[c] EXCEPT !.submitted = @ + 1]
      full == state.submitted - state.taken >= Workers[r] \/ state.submitted = Len(Work[c])
  IN
  /\ consumer[c].pc \in {"fill", "refill"} /\ ~Exhausted(c) /\ job[j].at = "slot"
  /\ IF closing[r] # "open" \/ r \in cancelled
     THEN /\ job' = [job EXCEPT ![j].at = "over"]
          /\ consumer' = [consumer EXCEPT ![c].pc = "abandon"]
     ELSE /\ job' = [job EXCEPT ![j].future = "pending",
                                ![j].at = IF Cardinality(Active(r)) < Workers[r]
                                          THEN "queued" ELSE "heap"]
          /\ consumer' = [consumer EXCEPT ![c] =
               IF consumer[c].pc = "refill" \/ full THEN [state EXCEPT !.pc = "wait"] ELSE state]
  /\ UNCHANGED <<cancelled, sweep, closing, dispatcher, flightOwner, follows, cached>>

\* The consumer takes the result of its oldest future and lets only a
\* cancellation escape, which a cancelled run may also set as an error.
TakeResult(c) ==
  LET j == Work[c][consumer[c].taken + 1]
      state == [consumer[c] EXCEPT !.taken = @ + 1]
  IN
  /\ consumer[c].pc = "wait" /\ consumer[c].taken < consumer[c].submitted
  /\ job[j].future \in Settled
  /\ \/ /\ job[j].future = "cancelled" \/ (job[j].future = "error" /\ RunOf[c] \in cancelled)
        /\ consumer' = [consumer EXCEPT ![c] = [state EXCEPT !.pc = "abandon"]]
     \/ /\ job[j].future # "cancelled"
        /\ consumer' = [consumer EXCEPT ![c] =
             IF ~Exhausted(c) THEN [state EXCEPT !.pc = "refill"]
             ELSE IF state.taken = state.submitted THEN [state EXCEPT !.pc = "over"]
             ELSE state]
  /\ UNCHANGED <<job, cancelled, sweep, closing, dispatcher, flightOwner, follows, cached>>

\* Mutant: a started future is cancelled as well.
AbandonStarted(c) ==
  LET open == {j \in InWindow(c) : job[j].future \in {"pending", "running"}} IN
  /\ consumer[c].pc = "abandon"
  /\ consumer' = [consumer EXCEPT ![c].pc = "over"]
  /\ job' = [j \in Jobs |-> IF j \in open THEN [job[j] EXCEPT !.future = "cancelled"] ELSE job[j]]
  /\ Release(open)
  /\ UNCHANGED <<cancelled, sweep, closing, dispatcher, cached>>

\* The generator is closed early: its finally cancels the rest of the window.
\* A future whose fetch has started does not let itself be cancelled.
Abandon(c) ==
  LET unstarted == {j \in InWindow(c) : job[j].future = "pending"} IN
  /\ consumer[c].pc = "abandon"
  /\ consumer' = [consumer EXCEPT ![c].pc = "over"]
  /\ job' = [j \in Jobs |->
       IF j \in unstarted
       THEN [job[j] EXCEPT !.future = "cancelled",
                           !.at = IF @ = "queued" THEN "queued" ELSE "over"]
       ELSE job[j]]
  /\ Release(unstarted)
  /\ UNCHANGED <<cancelled, sweep, closing, dispatcher, cached>>

---------------------------------------------------------------------------
(* _fetch(): an attempt on a transport worker *)

\* The attempt ends and its callback settles the future, or puts the job back
\* in the heap: nothing else touches a job whose attempt is active.
Settle(j, outcome, owner, followers) ==
  /\ job' = [job EXCEPT ![j] = Over(@, outcome)]
  /\ Released({j}, owner, followers)

\* _attempt_finished() of an attempt told to retry later.
RetryLater(j, counted, followers) ==
  IF OfRun(j) \in cancelled THEN Settle(j, "error", flightOwner, followers)
  ELSE /\ job' = [job EXCEPT ![j].at = "heap", ![j].retries = @ + counted]
       /\ flightOwner' = flightOwner /\ follows' = followers

\* The first attempt starts the future; a cancelled job ends here.
Begin(j) ==
  /\ job[j].at = "queued"
  /\ IF job[j].future = "cancelled"
     THEN /\ job' = [job EXCEPT ![j] = Over(@, "cancelled")]
          /\ UNCHANGED <<flightOwner, follows>>
     ELSE IF OfRun(j) \in cancelled THEN Settle(j, "error", flightOwner, follows)
     ELSE /\ job' = [job EXCEPT ![j].at = "ref", ![j].future = "running"]
          /\ UNCHANGED <<flightOwner, follows>>
  /\ UNCHANGED <<consumer, cancelled, sweep, closing, dispatcher, cached>>

Flights == {k \in Keys : flightOwner[k] # Nobody}
Throttled(j) == job[j].retries < MaxRetries[j] /\ RetryLater(j, 1, follows)
Fails(j) == Settle(j, "error", flightOwner, follows)

\* get_or_load(): the flight this job remembers, the artifact, a flight to
\* follow, a flight to own, or no room for one.
GetOrLoad(j) ==
  LET k == KeyOf[j] IN
  IF follows[j] = "open" THEN RetryLater(j, 0, follows)
  ELSE IF follows[j] # "none" THEN Settle(j, follows[j], flightOwner, follows)
  ELSE IF k \in cached THEN Settle(j, "value", flightOwner, follows)
  ELSE IF flightOwner[k] = j \/ (flightOwner[k] = Nobody /\ Cardinality(Flights) < MaxFlights)
  THEN /\ job' = [job EXCEPT ![j].at = "io"]
       /\ flightOwner' = [flightOwner EXCEPT ![k] = j] /\ UNCHANGED follows
  ELSE RetryLater(j, 0, IF flightOwner[k] = Nobody THEN follows ELSE [follows EXCEPT ![j] = "open"])

\* HEAD is revalidated first, unless that query fails or must be retried.
Reference(j) ==
  /\ job[j].at = "ref"
  /\ Throttled(j) \/ Fails(j) \/ (OfRun(j) \notin cancelled /\ GetOrLoad(j))
  /\ UNCHANGED <<consumer, cancelled, sweep, closing, dispatcher, cached>>

\* A cacheable artifact pushes the oldest one out; a partial one is not kept.
Kept(k) == IF Cardinality(cached) < MaxEntries THEN cached \cup {k} ELSE {k}

\* The transport answers.  A late success of a cancelled run is an error, and
\* either way the flight ends with the job.
Load(j) ==
  /\ job[j].at = "io"
  /\ \/ Throttled(j) /\ UNCHANGED cached
     \/ /\ OfRun(j) \notin cancelled
        /\ LET flight == Complete(j, "value") IN Settle(j, "value", flight.owner, flight.follows)
        /\ cached' \in {cached, Kept(KeyOf[j])}
     \/ Fails(j) /\ UNCHANGED cached
  /\ UNCHANGED <<consumer, cancelled, sweep, closing, dispatcher>>

---------------------------------------------------------------------------
(* _dispatch(): the retry thread *)

Waiting(r) == {j \in Jobs : OfRun(j) = r /\ job[j].at = "heap"}

SettleWaiting(r) ==
  /\ job' = [j \in Jobs |-> IF j \in Waiting(r) THEN Over(job[j], Cancelled(job[j].future))
                            ELSE job[j]]
  /\ Release(Waiting(r))

Dispatch(j) ==
  LET r == OfRun(j) IN
  /\ job[j].at = "heap" /\ r \in dispatcher /\ r \notin cancelled
  /\ Cardinality(Active(r)) < Workers[r]
  /\ job' = [job EXCEPT ![j].at = "queued"]
  /\ UNCHANGED <<consumer, cancelled, sweep, closing, dispatcher, flightOwner, follows, cached>>

DropWaiting(r) ==
  /\ r \in dispatcher /\ r \in cancelled /\ Waiting(r) # {}
  /\ SettleWaiting(r)
  /\ UNCHANGED <<consumer, cancelled, sweep, closing, dispatcher, cached>>

DispatcherExits(r) ==
  /\ r \in dispatcher /\ closing[r] # "open" /\ Waiting(r) = {} /\ Active(r) = {}
  /\ dispatcher' = dispatcher \ {r}
  /\ UNCHANGED <<job, consumer, cancelled, sweep, closing, flightOwner, follows, cached>>

---------------------------------------------------------------------------
(* cancel() and close() *)

\* The caller's event is set, or the deadline passes.
ExternalCancel(r) ==
  /\ r \notin cancelled /\ closing[r] = "open"
  /\ cancelled' = cancelled \cup {r}
  /\ UNCHANGED <<job, consumer, sweep, closing, dispatcher, flightOwner, follows, cached>>

\* The run fails outside the scheduler and cancels it.
Cancel(r) ==
  /\ closing[r] = "open" /\ r \notin sweep
  /\ \E c \in Consumers : RunOf[c] = r /\ consumer[c].pc # "over"
  /\ cancelled' = cancelled \cup {r} /\ sweep' = sweep \cup {r}
  /\ UNCHANGED <<job, consumer, closing, dispatcher, flightOwner, follows, cached>>

\* cancel(): every job without a live attempt settles.
Sweep(r) ==
  /\ r \in sweep
  /\ sweep' = sweep \ {r}
  /\ SettleWaiting(r)
  /\ closing' = [closing EXCEPT ![r] = IF @ = "cancel" THEN "join" ELSE @]
  /\ UNCHANGED <<consumer, cancelled, dispatcher, cached>>

\* The batches' executor is left first, so every consumer has ended.
Close(r) ==
  /\ closing[r] = "open" /\ r \notin sweep
  /\ \A c \in Consumers : RunOf[c] = r => consumer[c].pc = "over"
  /\ closing' = [closing EXCEPT ![r] = "cancel"]
  /\ cancelled' = cancelled \cup {r} /\ sweep' = sweep \cup {r}
  /\ UNCHANGED <<job, consumer, dispatcher, flightOwner, follows, cached>>

\* The retry thread has ended; the executor is shut down and the sessions closed.
CloseSessions(r) ==
  /\ closing[r] = "join" /\ r \notin dispatcher
  /\ closing' = [closing EXCEPT ![r] = "closed"]
  /\ UNCHANGED <<job, consumer, cancelled, sweep, dispatcher, flightOwner, follows, cached>>

---------------------------------------------------------------------------
ConsumerStep(c) == TakeSlot(c) \/ GiveUp(c) \/ Register(c) \/ TakeResult(c) \/ Abandon(c)
AttemptStep(j) == Begin(j) \/ Reference(j) \/ Load(j)
RunStep(r) == DropWaiting(r) \/ DispatcherExits(r) \/ Sweep(r) \/ Close(r) \/ CloseSessions(r)

SchedulerNext ==
  \/ \E c \in Consumers : ConsumerStep(c)
  \/ \E j \in Jobs : AttemptStep(j) \/ Dispatch(j)
  \/ \E r \in Runs : RunStep(r) \/ ExternalCancel(r) \/ Cancel(r)

---------------------------------------------------------------------------
\* Every fetch with I/O under way holds its admission, its worker and an open
\* session, and its future has not settled under it (the slot would be reused
\* beside the live request); no run has more attempts than workers, and every
\* unsettled future still has somebody who will settle it.
LiveIOAdmitted ==
  /\ \A r \in Runs : Cardinality(Active(r)) <= Workers[r] /\ Cardinality(Admitted(r)) <= Slots(r)
  /\ \A j \in Jobs :
       /\ job[j].at \in Live => job[j].future = "running" /\ closing[OfRun(j)] # "closed"
       /\ job[j].at = "io" => flightOwner[KeyOf[j]] = j
       /\ job[j].future \in {"pending", "running"} =>
            job[j].at \in {"heap"} \cup Attempting /\ OfRun(j) \in dispatcher

\* A follower that waits on a flight waits on one whose owner will still end
\* it: an owner is a started job that has not settled.
FlightsOwned ==
  /\ \A j \in Jobs : follows[j] = "open" => flightOwner[KeyOf[j]] \notin {Nobody, j}
  /\ \A k \in Keys : flightOwner[k] # Nobody =>
       /\ KeyOf[flightOwner[k]] = k
       /\ job[flightOwner[k]].future = "running"

\* A fetch under way keeps its admission, and who waits on a flight waits on
\* one whose owner will still end it.
FetchesOwned == LiveIOAdmitted /\ FlightsOwned

\* A run that stops is one that answers: whatever is retried, cancelled or
\* shared with another run, every run closes its sessions in the end.
RunsEnd == <>(\A r \in Runs : closing[r] = "closed")
=============================================================================
