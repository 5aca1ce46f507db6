--------------------------- MODULE FetchingProofs ---------------------------
(***************************************************************************)
(* Theorems about how an acquisition run fetches: the README scheduler of  *)
(* any number of runs that share the artifact cache, and the quota         *)
(* coordinators of any number of clients and authorization scopes.         *)
(***************************************************************************)
EXTENDS ReadmeScheduler, GitHubQuota, TLAPS, FiniteSetTheorems

SchedulerSpec == SchedulerInit /\ [][SchedulerNext]_schedulerVars
QuotaSpec == QuotaInit /\ [][QuotaNext]_quotaVars

-----------------------------------------------------------------------------
(* The README scheduler.  A job is open exactly while it waits in the heap *)
(* or is attempted; an owner of a flight is a started job, and every way a *)
(* job ends (its attempt, a waiting job swept, a window abandoned) takes   *)
(* its flight with it.                                                     *)

Futures == {"none", "pending", "running"} \cup Settled
Busy == {"heap"} \cup Attempting
JobStates == [future : Futures, at : {"new", "slot", "over"} \cup Busy, retries : Nat]
ConsumerStates == [submitted : Nat, taken : Nat, pc : {"fill", "refill", "wait", "abandon", "over"}]

SchedulerTyped ==
  /\ job \in [Jobs -> JobStates] /\ consumer \in [Consumers -> ConsumerStates]
  /\ closing \in [Runs -> {"open", "cancel", "join", "closed"}]
  /\ flightOwner \in [Keys -> Jobs \cup {Nobody}]
  /\ follows \in [Jobs -> {"none", "open", "value", "error"}]

\* A future is open exactly while its job waits in the heap or is attempted,
\* except that one cancelled before its attempt began is settled under it.
JobSound(k) ==
  /\ k.at \in {"new", "slot"} => k.future = "none"
  /\ k.at = "heap" => k.future \in {"pending", "running"}
  /\ k.at = "queued" => k.future \in {"pending", "running", "cancelled"}
  /\ k.at \in Live => k.future = "running"
  /\ k.at = "over" => k.future \in {"none"} \cup Settled

ConsumerSound(c) == consumer[c].taken <= consumer[c].submitted /\ consumer[c].submitted <= Len(Work[c])

\* The workers and the admissions of each run.
IsAttempt(k) == k.at \in Attempting
IsAdmitted(k) == k.at = "slot" \/ k.future \in {"pending", "running"}
Attempts(jobs, r) == {j \in Jobs : OfRun(j) = r /\ IsAttempt(jobs[j])}
Admissions(jobs, r) == {j \in Jobs : OfRun(j) = r /\ IsAdmitted(jobs[j])}
Fits(jobs) == \A r \in Runs : Cardinality(Attempts(jobs, r)) <= Workers[r] /\ Cardinality(Admissions(jobs, r)) <= Slots(r)

\* The retry thread of a run outlives its jobs.
DispatcherKept ==
  \A r \in Runs : /\ r \notin dispatcher => closing[r] # "open" /\ \A j \in Jobs : OfRun(j) = r => job[j].at \notin Busy
                  /\ closing[r] = "closed" => r \notin dispatcher

\* The flights of the jobs but those about to end.
FlightsKept(jobs, ends, owner, followers) ==
  /\ \A j \in Jobs \ ends : jobs[j].at = "io" => owner[KeyOf[j]] = j
  /\ \A j \in Jobs : followers[j] = "open" => owner[KeyOf[j]] \notin {Nobody, j}
  /\ \A k \in Keys : owner[k] # Nobody => KeyOf[owner[k]] = k /\ jobs[owner[k]].future = "running"

SchedulerInv ==
  /\ SchedulerTyped
  /\ \A j \in Jobs : JobSound(job[j])
  /\ \A c \in Consumers : ConsumerSound(c)
  /\ Fits(job) /\ DispatcherKept
  /\ FlightsKept(job, {}, flightOwner, follows)

LEMMA FetchesFollow == SchedulerInv => FetchesOwned
<1> SUFFICES ASSUME SchedulerInv PROVE FetchesOwned OBVIOUS
<1> USE SchedulerAssumption
<1>1. \A r \in Runs : Active(r) = Attempts(job, r) /\ Admitted(r) = Admissions(job, r)
  BY DEF Active, Attempts, IsAttempt, Admitted, Admissions, IsAdmitted
<1>2. \A j \in Jobs : OfRun(j) \in Runs
  BY DEF OfRun, ConsumerOf
<1>3. \A j \in Jobs : job[j].at \in Busy => OfRun(j) \in dispatcher /\ closing[OfRun(j)] # "closed"
  BY <1>2 DEF SchedulerInv, DispatcherKept
<1>4. ASSUME NEW j \in Jobs PROVE job[j].future \in {"pending", "running"} => job[j].at \in Busy
  <2>1. job[j] \in JobStates /\ JobSound(job[j]) BY DEF SchedulerInv, SchedulerTyped
  <2> QED BY <2>1 DEF JobSound, JobStates, Settled
<1>5. LiveIOAdmitted
  <2>1. \A r \in Runs : Cardinality(Active(r)) <= Workers[r] /\ Cardinality(Admitted(r)) <= Slots(r)
    BY <1>1 DEF SchedulerInv, Fits
  <2>2. ASSUME NEW j \in Jobs
        PROVE  /\ job[j].at \in Live => job[j].future = "running" /\ closing[OfRun(j)] # "closed"
               /\ job[j].at = "io" => flightOwner[KeyOf[j]] = j
               /\ job[j].future \in {"pending", "running"} =>
                    job[j].at \in {"heap"} \cup Attempting /\ OfRun(j) \in dispatcher
    BY <1>3, <1>4 DEF SchedulerInv, JobSound, FlightsKept, Busy, Attempting
  <2> QED BY <2>1, <2>2 DEF LiveIOAdmitted
<1>6. FlightsOwned BY DEF FlightsOwned, SchedulerInv, FlightsKept
<1> QED BY <1>5, <1>6 DEF FetchesOwned

\* A job is of the run of the consumer whose list holds it.
LEMMA RunOfJob ==
  /\ \A j \in Jobs : OfRun(j) \in Runs
  /\ \A c \in Consumers : \A i \in 1..Len(Work[c]) : Work[c][i] \in Jobs /\ OfRun(Work[c][i]) = RunOf[c]
<1> USE SchedulerAssumption
<1>1. \A j \in Jobs : OfRun(j) \in Runs BY DEF OfRun, ConsumerOf
<1>2. ASSUME NEW c \in Consumers, NEW i \in 1..Len(Work[c]) PROVE Work[c][i] \in Jobs /\ OfRun(Work[c][i]) = RunOf[c]
  <2>1. Work[c] \in Seq(Jobs) OBVIOUS
  <2>2. Work[c][i] \in Jobs BY <2>1
  <2>3. ConsumerOf(Work[c][i]) = c
    <3>1. \E n \in 1..Len(Work[c]) : Work[c][n] = Work[c][i] OBVIOUS
    <3>2. \A d \in Consumers : (\E n \in 1..Len(Work[d]) : Work[d][n] = Work[c][i]) => d = c OBVIOUS
    <3> QED BY <3>1, <3>2 DEF ConsumerOf
  <2> QED BY <2>2, <2>3 DEF OfRun
<1> QED BY <1>1, <1>2

-----------------------------------------------------------------------------
(* Counting *)

LEMMA CountOneMore ==
  ASSUME NEW S, IsFiniteSet(S), NEW n \in Nat, Cardinality(S) <= n, NEW x, NEW T, T \subseteq S \cup {x},
         x \notin T \/ x \in S \/ Cardinality(S) < n
  PROVE  Cardinality(T) <= n
<1>1. CASE T \subseteq S
  <2>1. IsFiniteSet(T) /\ Cardinality(T) <= Cardinality(S) BY <1>1, FS_Subset
  <2>2. Cardinality(T) \in Nat /\ Cardinality(S) \in Nat BY <2>1, FS_CardinalityType
  <2> QED BY <2>1, <2>2
<1>2. CASE ~(T \subseteq S)
  <2>1. x \notin S /\ Cardinality(S) < n BY <1>2
  <2>2. IsFiniteSet(S \cup {x}) /\ Cardinality(S \cup {x}) = Cardinality(S) + 1 BY <2>1, FS_AddElement
  <2>3. IsFiniteSet(T) /\ Cardinality(T) <= Cardinality(S \cup {x}) BY <2>2, FS_Subset
  <2>4. Cardinality(T) \in Nat /\ Cardinality(S) \in Nat BY <2>3, FS_CardinalityType
  <2> QED BY <2>1, <2>2, <2>3, <2>4
<1> QED BY <1>1, <1>2

\* One job may take a worker, or an admission, while one is free.
LEMMA FitsOneMore ==
  ASSUME NEW jobs, NEW later, Fits(jobs), NEW j \in Jobs,
         \A i \in Jobs \ {j} : (IsAttempt(later[i]) => IsAttempt(jobs[i])) /\ (IsAdmitted(later[i]) => IsAdmitted(jobs[i])),
         (IsAttempt(later[j]) => IsAttempt(jobs[j])) \/ Cardinality(Attempts(jobs, OfRun(j))) < Workers[OfRun(j)],
         (IsAdmitted(later[j]) => IsAdmitted(jobs[j])) \/ Cardinality(Admissions(jobs, OfRun(j))) < Slots(OfRun(j))
  PROVE  Fits(later)
<1>0. IsFiniteSet(Jobs) /\ \A r \in Runs : Workers[r] \in Nat BY SchedulerAssumption
<1> ASSUME NEW r \in Runs
    PROVE  Cardinality(Attempts(later, r)) <= Workers[r] /\ Cardinality(Admissions(later, r)) <= Slots(r)
  <2>1. Attempts(jobs, r) \subseteq Jobs /\ Admissions(jobs, r) \subseteq Jobs
    BY DEF Attempts, Admissions
  <2>2. IsFiniteSet(Attempts(jobs, r)) /\ IsFiniteSet(Admissions(jobs, r)) BY <1>0, <2>1, FS_Subset
  <2>3. Workers[r] \in Nat /\ Slots(r) \in Nat
    <3>1. Workers[r] \in Nat BY <1>0
    <3> QED BY <3>1 DEF Slots
  <2>4. Cardinality(Attempts(jobs, r)) <= Workers[r] /\ Cardinality(Admissions(jobs, r)) <= Slots(r) BY DEF Fits
  <2>5. /\ Attempts(later, r) \subseteq Attempts(jobs, r) \cup {j}
        /\ Admissions(later, r) \subseteq Admissions(jobs, r) \cup {j}
    BY DEF Attempts, Admissions
  <2>6. j \notin Attempts(later, r) \/ j \in Attempts(jobs, r) \/ Cardinality(Attempts(jobs, r)) < Workers[r]
    <3>1. CASE OfRun(j) = r BY <3>1 DEF Attempts
    <3>2. CASE OfRun(j) # r BY <3>2 DEF Attempts
    <3> QED BY <3>1, <3>2
  <2>7. j \notin Admissions(later, r) \/ j \in Admissions(jobs, r) \/ Cardinality(Admissions(jobs, r)) < Slots(r)
    <3>1. CASE OfRun(j) = r BY <3>1 DEF Admissions
    <3>2. CASE OfRun(j) # r BY <3>2 DEF Admissions
    <3> QED BY <3>1, <3>2
  <2>8. \A S, T : \A n \in Nat : IsFiniteSet(S) /\ Cardinality(S) <= n /\ T \subseteq S \cup {j}
                                /\ (j \notin T \/ j \in S \/ Cardinality(S) < n) => Cardinality(T) <= n
    BY CountOneMore
  <2>9. Cardinality(Attempts(later, r)) <= Workers[r] BY <2>2, <2>3, <2>4, <2>5, <2>6, <2>8
  <2>10. Cardinality(Admissions(later, r)) <= Slots(r) BY <2>2, <2>3, <2>4, <2>5, <2>7, <2>8
  <2> QED BY <2>9, <2>10
<1> QED BY DEF Fits

\* Jobs that take neither a worker nor an admission.
LEMMA FitsStill ==
  ASSUME NEW jobs, NEW later, Fits(jobs),
         \A j \in Jobs : (IsAttempt(later[j]) => IsAttempt(jobs[j])) /\ (IsAdmitted(later[j]) => IsAdmitted(jobs[j]))
  PROVE  Fits(later)
<1>1. CASE \E j : j \in Jobs
  <2> PICK j \in Jobs : TRUE BY <1>1
  <2> QED BY FitsOneMore
<1>2. CASE ~\E j : j \in Jobs
  <2>1. \A r : Attempts(later, r) = Attempts(jobs, r) /\ Admissions(later, r) = Admissions(jobs, r)
    BY <1>2 DEF Attempts, Admissions
  <2> QED BY <2>1 DEF Fits
<1> QED BY <1>1, <1>2

-----------------------------------------------------------------------------
(* Flights *)

Owners == [Keys -> Jobs \cup {Nobody}]
Followers == [Jobs -> {"none", "open", "value", "error"}]

\* Nobody starts I/O, and whoever runs goes on.
LEMMA FlightsStill ==
  ASSUME NEW jobs, NEW later, NEW owner \in Owners, NEW followers, FlightsKept(jobs, {}, owner, followers),
         \A j \in Jobs : /\ later[j].at = "io" => jobs[j].at = "io"
                         /\ jobs[j].future = "running" => later[j].future = "running"
  PROVE  FlightsKept(later, {}, owner, followers)
BY DEF FlightsKept, Owners

\* Jobs end, and the flights they own with them.
LEMMA FlightsEnd ==
  ASSUME NEW jobs, NEW later, NEW ends, ends \subseteq Jobs, NEW owner \in Owners, NEW followers \in Followers,
         FlightsKept(jobs, ends, owner, followers), Released(ends, owner, followers),
         \A j \in Jobs \ ends : /\ later[j].at = "io" => jobs[j].at = "io"
                                /\ jobs[j].future = "running" => later[j].future = "running",
         \A j \in ends : later[j].at # "io"
  PROVE  flightOwner' \in Owners /\ follows' \in Followers /\ FlightsKept(later, {}, flightOwner', follows')
<1> DEFINE left == {KeyOf[j] : j \in {i \in ends : owner[KeyOf[i]] = i}}
<1>1. \A j \in Jobs : KeyOf[j] \in Keys BY SchedulerAssumption
<1>2. Nobody \notin Jobs BY SchedulerAssumption
<1>3. flightOwner' = [k \in Keys |-> IF k \in left THEN Nobody ELSE owner[k]] BY DEF Released
<1>4. follows' = [i \in Jobs |-> IF i \in ends THEN "none"
                                 ELSE IF KeyOf[i] \in left /\ followers[i] = "open" THEN "error" ELSE followers[i]]
  BY DEF Released
<1>5. \A k \in left : owner[k] \in ends OBVIOUS
<1>6. \A j \in ends : owner[KeyOf[j]] = j => KeyOf[j] \in left OBVIOUS
<1> HIDE DEF left
<1>7. flightOwner' \in Owners /\ follows' \in Followers BY <1>3, <1>4 DEF Owners, Followers
<1>8. \A j \in Jobs : later[j].at = "io" => flightOwner'[KeyOf[j]] = j
  <2> TAKE j \in Jobs
  <2> HAVE later[j].at = "io"
  <2>1. j \notin ends /\ owner[KeyOf[j]] = j BY DEF FlightsKept
  <2> QED BY <1>1, <1>3, <1>5, <2>1
<1>9. \A j \in Jobs : follows'[j] = "open" => flightOwner'[KeyOf[j]] \notin {Nobody, j}
  <2> TAKE j \in Jobs
  <2> HAVE follows'[j] = "open"
  <2>1. KeyOf[j] \notin left /\ followers[j] = "open" BY <1>4
  <2>2. flightOwner'[KeyOf[j]] = owner[KeyOf[j]] BY <1>1, <1>3, <2>1
  <2> QED BY <2>1, <2>2 DEF FlightsKept
<1>10. \A k \in Keys : flightOwner'[k] # Nobody =>
         KeyOf[flightOwner'[k]] = k /\ later[flightOwner'[k]].future = "running"
  <2> TAKE k \in Keys
  <2> HAVE flightOwner'[k] # Nobody
  <2>1. k \notin left /\ flightOwner'[k] = owner[k] /\ owner[k] \in Jobs BY <1>3 DEF Owners
  <2>2. KeyOf[owner[k]] = k /\ jobs[owner[k]].future = "running" BY <1>3, <2>1 DEF FlightsKept
  <2>3. owner[k] \notin ends BY <1>6, <2>1, <2>2
  <2> QED BY <2>1, <2>2, <2>3
<1> QED BY <1>7, <1>8, <1>9, <1>10 DEF FlightsKept

-----------------------------------------------------------------------------
(* Steps *)

LEMMA SchedulerStarts == SchedulerInit => SchedulerInv
<1> SUFFICES ASSUME SchedulerInit PROVE SchedulerInv OBVIOUS
<1>1. SchedulerTyped BY DEF SchedulerInit, SchedulerTyped, JobStates, ConsumerStates, Futures
<1>2. \A j \in Jobs : JobSound(job[j]) BY DEF SchedulerInit, JobSound, Live
<1>3. \A c \in Consumers : ConsumerSound(c)
  <2> TAKE c \in Consumers
  <2>1. Len(Work[c]) \in Nat BY SchedulerAssumption
  <2> QED BY <2>1 DEF SchedulerInit, ConsumerSound
<1>4. Fits(job)
  <2>1. \A r \in Runs : Attempts(job, r) = {} /\ Admissions(job, r) = {}
    BY DEF SchedulerInit, Attempts, Admissions, IsAttempt, IsAdmitted, Attempting, Live
  <2>2. \A r \in Runs : Workers[r] >= 0 /\ Slots(r) >= 0 BY SchedulerAssumption DEF Slots
  <2> QED BY <2>1, <2>2, FS_EmptySet DEF Fits
<1>5. DispatcherKept BY DEF SchedulerInit, DispatcherKept
<1>6. FlightsKept(job, {}, flightOwner, follows) BY DEF SchedulerInit, FlightsKept
<1> QED BY <1>1, <1>2, <1>3, <1>4, <1>5, <1>6 DEF SchedulerInv

\* What every step on jobs has to show: no job is busy again after its run
\* was closed, and no run is opened or finished by it.
LEMMA JobsMove ==
  ASSUME SchedulerInv, job' \in [Jobs -> JobStates], \A j \in Jobs : JobSound(job'[j]), Fits(job'),
         consumer' \in [Consumers -> ConsumerStates], \A c \in Consumers : ConsumerSound(c)',
         flightOwner' \in Owners, follows' \in Followers, FlightsKept(job', {}, flightOwner', follows'),
         dispatcher' = dispatcher, closing' \in [Runs -> {"open", "cancel", "join", "closed"}],
         \A r \in Runs : (closing'[r] = "open" => closing[r] = "open") /\ (closing'[r] = "closed" => closing[r] = "closed"),
         \A j \in Jobs : job'[j].at \in Busy => job[j].at \in Busy \/ closing[OfRun(j)] = "open"
  PROVE  SchedulerInv'
<1>1. SchedulerTyped' BY DEF SchedulerTyped, Owners, Followers
<1>2. DispatcherKept' BY RunOfJob DEF SchedulerInv, DispatcherKept
<1> QED BY <1>1, <1>2 DEF SchedulerInv

\* The facts a step starts from.
LEMMA Before ==
  ASSUME SchedulerInv
  PROVE  /\ job \in [Jobs -> JobStates] /\ consumer \in [Consumers -> ConsumerStates]
         /\ closing \in [Runs -> {"open", "cancel", "join", "closed"}]
         /\ flightOwner \in Owners /\ follows \in Followers
         /\ \A j \in Jobs : JobSound(job[j])
         /\ \A c \in Consumers : ConsumerSound(c)
         /\ Fits(job) /\ DispatcherKept /\ FlightsKept(job, {}, flightOwner, follows)
BY DEF SchedulerInv, SchedulerTyped, Owners, Followers

\* Neither a job nor the end of a run moves.
LEMMA OnlyConsumers ==
  ASSUME SchedulerInv, consumer' \in [Consumers -> ConsumerStates], \A c \in Consumers : ConsumerSound(c)',
         UNCHANGED <<job, dispatcher, flightOwner, follows>>,
         closing' \in [Runs -> {"open", "cancel", "join", "closed"}],
         \A r \in Runs : (closing'[r] = "open" => closing[r] = "open") /\ (closing'[r] = "closed" => closing[r] = "closed")
  PROVE  SchedulerInv'
<1>1. \A j \in Jobs : JobSound(job'[j]) BY Before
<1>2. FlightsKept(job', {}, flightOwner', follows') /\ Fits(job') BY Before
<1> QED BY <1>1, <1>2, Before, JobsMove

\* Jobs end: none of them is admitted or at its I/O any more.
LEMMA EndsStep ==
  ASSUME SchedulerInv, NEW ends, ends \subseteq Jobs, NEW owner \in Owners, NEW followers \in Followers,
         FlightsKept(job, ends, owner, followers), Released(ends, owner, followers),
         job' \in [Jobs -> JobStates], \A j \in Jobs \ ends : job'[j] = job[j],
         \A j \in ends : /\ JobSound(job'[j]) /\ job'[j].at # "io" /\ ~IsAdmitted(job'[j])
                         /\ IsAttempt(job'[j]) => IsAttempt(job[j])
                         /\ job'[j].at \in Busy => job[j].at \in Busy,
         consumer' \in [Consumers -> ConsumerStates], \A c \in Consumers : ConsumerSound(c)',
         dispatcher' = dispatcher, closing' \in [Runs -> {"open", "cancel", "join", "closed"}],
         \A r \in Runs : (closing'[r] = "open" => closing[r] = "open") /\ (closing'[r] = "closed" => closing[r] = "closed")
  PROVE  SchedulerInv'
<1>1. \A i \in Jobs : JobSound(job'[i]) BY Before
<1>2. Fits(job')
  <2>1. \A i \in Jobs : (IsAttempt(job'[i]) => IsAttempt(job[i])) /\ (IsAdmitted(job'[i]) => IsAdmitted(job[i]))
    OBVIOUS
  <2> QED BY <2>1, Before, FitsStill
<1>3. flightOwner' \in Owners /\ follows' \in Followers /\ FlightsKept(job', {}, flightOwner', follows')
  <2>1. PICK later : later = job' OBVIOUS
  <2>2. PICK jobs : jobs = job OBVIOUS
  <2>3. FlightsKept(jobs, ends, owner, followers) /\ Released(ends, owner, followers) BY <2>2
  <2>4. \A i \in Jobs \ ends : /\ later[i].at = "io" => jobs[i].at = "io"
                               /\ jobs[i].future = "running" => later[i].future = "running"
    BY <2>1, <2>2
  <2>5. \A i \in ends : later[i].at # "io" BY <2>1
  <2>6. flightOwner' \in Owners /\ follows' \in Followers /\ FlightsKept(later, {}, flightOwner', follows')
    BY <2>3, <2>4, <2>5, FlightsEnd
  <2> QED BY <2>1, <2>6
<1>4. \A i \in Jobs : job'[i].at \in Busy => job[i].at \in Busy OBVIOUS
<1> QED BY <1>1, <1>2, <1>3, <1>4, Before, JobsMove

\* A job over its attempt counts nowhere.
LEMMA OverJob ==
  ASSUME NEW k \in JobStates, NEW outcome \in Settled
  PROVE  LET over == Over(k, outcome)
         IN  over \in JobStates /\ JobSound(over) /\ over.at = "over" /\ ~IsAttempt(over) /\ ~IsAdmitted(over)
<1>1. PICK over : over = Over(k, outcome) OBVIOUS
<1>2. over \in JobStates /\ over.at = "over" /\ over.future = outcome BY <1>1 DEF Over, JobStates, Futures
<1>3. JobSound(over) BY <1>2 DEF JobSound, Live
<1>4. ~IsAttempt(over) /\ ~IsAdmitted(over) BY <1>2 DEF IsAttempt, IsAdmitted, Attempting, Live, Settled
<1> QED BY <1>1, <1>2, <1>3, <1>4

\* The consumers stay as sound as they were.
LEMMA ConsumersStay ==
  ASSUME SchedulerInv, UNCHANGED consumer
  PROVE  consumer' \in [Consumers -> ConsumerStates] /\ \A c \in Consumers : ConsumerSound(c)'
BY Before DEF ConsumerSound

\* A job ends its attempt.
LEMMA SettleStep ==
  ASSUME SchedulerInv, NEW j \in Jobs, NEW outcome \in Settled, NEW owner \in Owners, NEW followers \in Followers,
         FlightsKept(job, {j}, owner, followers), Settle(j, outcome, owner, followers),
         UNCHANGED <<consumer, closing, dispatcher>>
  PROVE  SchedulerInv'
<1>1. job \in [Jobs -> JobStates] /\ job[j] \in JobStates BY Before
<1>2. PICK k : k = Over(job[j], outcome) OBVIOUS
<1>3. k \in JobStates /\ JobSound(k) /\ k.at = "over" /\ ~IsAttempt(k) /\ ~IsAdmitted(k) BY <1>1, <1>2, OverJob
<1>4. job' = [job EXCEPT ![j] = k] BY <1>1, <1>2 DEF Settle
<1>5. job' \in [Jobs -> JobStates] /\ job'[j] = k /\ \A i \in Jobs \ {j} : job'[i] = job[i] BY <1>1, <1>3, <1>4
<1>6. k.at # "io" /\ k.at \notin Busy BY <1>3 DEF Busy, Attempting, Live
<1>7. PICK ends : ends = {j} OBVIOUS
<1>8. FlightsKept(job, ends, owner, followers) /\ Released(ends, owner, followers) BY <1>7 DEF Settle
<1>9. \A i \in ends : /\ JobSound(job'[i]) /\ job'[i].at # "io" /\ ~IsAdmitted(job'[i])
                      /\ IsAttempt(job'[i]) => IsAttempt(job[i])
                      /\ job'[i].at \in Busy => job[i].at \in Busy
  BY <1>3, <1>5, <1>6, <1>7
<1>10. \A r \in Runs : (closing'[r] = "open" => closing[r] = "open") /\ (closing'[r] = "closed" => closing[r] = "closed")
  OBVIOUS
<1> QED BY <1>5, <1>7, <1>8, <1>9, <1>10, Before, ConsumersStay, EndsStep

\* The flights of a job about to end are a weaker demand.
LEMMA FlightsButOne ==
  ASSUME NEW jobs, NEW owner, NEW followers, NEW ends, FlightsKept(jobs, {}, owner, followers)
  PROVE  FlightsKept(jobs, ends, owner, followers)
BY DEF FlightsKept

\* One job changes its place, keeps or takes a worker or an admission, and
\* starts no I/O.
LEMMA PlaceStep ==
  ASSUME SchedulerInv, NEW j \in Jobs, NEW k \in JobStates, job' = [job EXCEPT ![j] = k], JobSound(k),
         k.at = "io" => job[j].at = "io", job[j].future = "running" => k.future = "running",
         k.at \in Busy => job[j].at \in Busy \/ closing[OfRun(j)] = "open",
         (IsAttempt(k) => IsAttempt(job[j])) \/ Cardinality(Attempts(job, OfRun(j))) < Workers[OfRun(j)],
         (IsAdmitted(k) => IsAdmitted(job[j])) \/ Cardinality(Admissions(job, OfRun(j))) < Slots(OfRun(j)),
         consumer' \in [Consumers -> ConsumerStates], \A c \in Consumers : ConsumerSound(c)',
         flightOwner' = flightOwner, follows' \in Followers, FlightsKept(job, {}, flightOwner, follows'),
         UNCHANGED <<closing, dispatcher>>
  PROVE  SchedulerInv'
<1>1. job' \in [Jobs -> JobStates] /\ job'[j] = k /\ \A i \in Jobs \ {j} : job'[i] = job[i] BY Before
<1>2. \A i \in Jobs : JobSound(job'[i]) BY <1>1, Before
<1>3. Fits(job')
  <2>1. \A i \in Jobs \ {j} : (IsAttempt(job'[i]) => IsAttempt(job[i])) /\ (IsAdmitted(job'[i]) => IsAdmitted(job[i]))
    BY <1>1
  <2> QED BY <1>1, <2>1, Before, FitsOneMore
<1>4. FlightsKept(job', {}, flightOwner', follows')
  <2>1. \A i \in Jobs : /\ job'[i].at = "io" => job[i].at = "io"
                        /\ job[i].future = "running" => job'[i].future = "running"
    BY <1>1
  <2> QED BY <2>1, Before, FlightsStill
<1>5. \A i \in Jobs : job'[i].at \in Busy => job[i].at \in Busy \/ closing[OfRun(i)] = "open" BY <1>1
<1> QED BY <1>1, <1>2, <1>3, <1>4, <1>5, Before, JobsMove

-----------------------------------------------------------------------------
(* The steps of a consumer *)

LEMMA UpcomingJob ==
  ASSUME SchedulerInv, NEW c \in Consumers, ~Exhausted(c)
  PROVE  /\ Upcoming(c) \in Jobs /\ OfRun(Upcoming(c)) = RunOf[c]
         /\ consumer[c].submitted + 1 \in 1..Len(Work[c])
<1>1. consumer[c].submitted \in Nat /\ consumer[c].submitted <= Len(Work[c])
  BY Before DEF ConsumerSound, ConsumerStates
<1>2. Len(Work[c]) \in Nat BY SchedulerAssumption
<1>3. consumer[c].submitted + 1 \in 1..Len(Work[c]) BY <1>1, <1>2 DEF Exhausted
<1> QED BY <1>3, RunOfJob DEF Upcoming

LEMMA Counted == \A r \in Runs : Active(r) = Attempts(job, r) /\ Admitted(r) = Admissions(job, r)
BY DEF Active, Attempts, IsAttempt, Admitted, Admissions, IsAdmitted

LEMMA TakeSlotKeeps ==
  ASSUME SchedulerInv, NEW c \in Consumers, TakeSlot(c)
  PROVE  SchedulerInv'
<1>1. PICK j : j = Upcoming(c) OBVIOUS
<1>2. j \in Jobs /\ OfRun(j) = RunOf[c] /\ OfRun(j) \in Runs BY <1>1, UpcomingJob, RunOfJob DEF TakeSlot
<1>3. job[j] \in JobStates /\ job[j].at = "new" /\ job[j].future = "none"
  BY <1>1, <1>2, Before DEF TakeSlot, JobSound
<1>4. PICK k : k = [job[j] EXCEPT !.at = "slot"] OBVIOUS
<1>5. k \in JobStates /\ k.at = "slot" /\ k.future = "none" BY <1>3, <1>4 DEF JobStates
<1>6. job' = [job EXCEPT ![j] = k] BY <1>1, <1>2, <1>4, Before DEF TakeSlot
<1>7. JobSound(k) /\ ~IsAttempt(k) /\ k.at \notin Busy
  BY <1>5 DEF JobSound, Live, IsAttempt, Busy, Attempting
<1>8. Cardinality(Admissions(job, OfRun(j))) < Slots(OfRun(j)) BY <1>2, Counted DEF TakeSlot
<1>9. UNCHANGED <<consumer, closing, dispatcher, flightOwner, follows>> BY DEF TakeSlot
<1> QED BY <1>2, <1>3, <1>5, <1>6, <1>7, <1>8, <1>9, Before, ConsumersStay, PlaceStep

LEMMA GiveUpKeeps ==
  ASSUME SchedulerInv, NEW c \in Consumers, GiveUp(c)
  PROVE  SchedulerInv'
<1>1. consumer' \in [Consumers -> ConsumerStates] BY Before DEF GiveUp, ConsumerStates
<1>2. \A d \in Consumers : ConsumerSound(d)' BY Before DEF GiveUp, ConsumerSound, ConsumerStates
<1> QED BY <1>1, <1>2, Before, OnlyConsumers DEF GiveUp

LEMMA RegisterKeeps ==
  ASSUME SchedulerInv, NEW c \in Consumers, Register(c)
  PROVE  SchedulerInv'
<1>1. PICK j : j = Upcoming(c) OBVIOUS
<1>2. j \in Jobs /\ OfRun(j) = RunOf[c] /\ OfRun(j) \in Runs BY <1>1, UpcomingJob, RunOfJob DEF Register
<1>3. job[j] \in JobStates /\ job[j].at = "slot" /\ job[j].future = "none"
  BY <1>1, <1>2, Before DEF Register, JobSound
<1>4. UNCHANGED <<closing, dispatcher, flightOwner, follows>> BY DEF Register
<1>5. consumer[c] \in ConsumerStates /\ consumer[c].submitted + 1 <= Len(Work[c])
  <2>1. Len(Work[c]) \in Nat BY SchedulerAssumption
  <2>2. consumer[c].submitted + 1 \in 1..Len(Work[c]) BY UpcomingJob DEF Register
  <2> QED BY <2>1, <2>2, Before
<1>6. consumer[c].taken <= consumer[c].submitted /\ consumer[c].submitted \in Nat /\ consumer[c].taken \in Nat
  BY Before DEF ConsumerSound, ConsumerStates
<1>7. CASE closing[RunOf[c]] # "open" \/ RunOf[c] \in cancelled
  <2>1. PICK k : k = [job[j] EXCEPT !.at = "over"] OBVIOUS
  <2>2. k \in JobStates /\ k.at = "over" /\ k.future = "none" BY <1>3, <2>1 DEF JobStates
  <2>3. job' = [job EXCEPT ![j] = k] BY <1>1, <1>2, <1>7, <2>1, Before DEF Register
  <2>4. JobSound(k) /\ ~IsAttempt(k) /\ ~IsAdmitted(k) /\ k.at \notin Busy
    BY <2>2 DEF JobSound, Live, IsAttempt, IsAdmitted, Busy, Attempting
  <2>5. consumer' = [consumer EXCEPT ![c].pc = "abandon"] BY <1>7 DEF Register
  <2>6. consumer' \in [Consumers -> ConsumerStates] BY <2>5, Before DEF ConsumerStates
  <2>7. \A d \in Consumers : ConsumerSound(d)' BY <2>5, Before DEF ConsumerSound, ConsumerStates
  <2> QED BY <1>2, <1>3, <1>4, <2>2, <2>3, <2>4, <2>6, <2>7, Before, PlaceStep
<1>8. CASE closing[RunOf[c]] = "open" /\ RunOf[c] \notin cancelled
  <2>1. PICK k : k = [job[j] EXCEPT !.future = "pending",
                                    !.at = IF Cardinality(Active(RunOf[c])) < Workers[RunOf[c]] THEN "queued" ELSE "heap"]
    OBVIOUS
  <2>2. /\ k \in JobStates /\ k.future = "pending"
        /\ k.at = "heap" \/ (k.at = "queued" /\ Cardinality(Active(RunOf[c])) < Workers[RunOf[c]])
    BY <1>3, <2>1 DEF JobStates, Futures, Busy, Attempting
  <2>3. job' = [job EXCEPT ![j] = k] BY <1>1, <1>2, <1>8, <2>1, Before DEF Register
  <2>4. JobSound(k) /\ k.at # "io" BY <2>2 DEF JobSound, Live
  <2>5. (IsAttempt(k) => IsAttempt(job[j])) \/ Cardinality(Attempts(job, OfRun(j))) < Workers[OfRun(j)]
    BY <1>2, <2>2, Counted DEF IsAttempt, Attempting, Live
  <2>6. IsAdmitted(job[j]) BY <1>3 DEF IsAdmitted
  <2>7. PICK state : state = [consumer[c] EXCEPT !.submitted = @ + 1] OBVIOUS
  <2>8. \E state2 \in {state, [state EXCEPT !.pc = "wait"]} : consumer' = [consumer EXCEPT ![c] = state2]
    BY <1>8, <2>7 DEF Register
  <2>9. PICK next : next \in {state, [state EXCEPT !.pc = "wait"]} /\ consumer' = [consumer EXCEPT ![c] = next]
    BY <2>8
  <2>10. next \in ConsumerStates /\ next.submitted = consumer[c].submitted + 1 /\ next.taken = consumer[c].taken
    <3>1. /\ state \in ConsumerStates
          /\ state.submitted = consumer[c].submitted + 1 /\ state.taken = consumer[c].taken
      BY <1>5, <1>6, <2>7 DEF ConsumerStates
    <3> QED BY <2>9, <3>1 DEF ConsumerStates
  <2>11. consumer' \in [Consumers -> ConsumerStates] BY <2>9, <2>10, Before
  <2>12. ASSUME NEW d \in Consumers PROVE ConsumerSound(d)'
    <3>1. CASE d = c BY <1>5, <1>6, <2>9, <2>10, <3>1, Before DEF ConsumerSound
    <3>2. CASE d # c BY <2>9, <3>2, Before DEF ConsumerSound
    <3> QED BY <3>1, <3>2
  <2> QED BY <1>2, <1>3, <1>4, <1>8, <2>2, <2>3, <2>4, <2>5, <2>6, <2>11, <2>12, Before, PlaceStep
<1> QED BY <1>7, <1>8

LEMMA TakeResultKeeps ==
  ASSUME SchedulerInv, NEW c \in Consumers, TakeResult(c)
  PROVE  SchedulerInv'
<1>1. consumer[c] \in ConsumerStates /\ consumer[c].submitted <= Len(Work[c]) BY Before DEF ConsumerSound
<1>2. PICK state : state = [consumer[c] EXCEPT !.taken = @ + 1] OBVIOUS
<1>3. \E next \in {state} \cup {[state EXCEPT !.pc = pc] : pc \in {"abandon", "refill", "over"}} :
        consumer' = [consumer EXCEPT ![c] = next]
  BY <1>2 DEF TakeResult
<1>4. PICK next : /\ next \in {state} \cup {[state EXCEPT !.pc = pc] : pc \in {"abandon", "refill", "over"}}
                  /\ consumer' = [consumer EXCEPT ![c] = next]
  BY <1>3
<1>5. next \in ConsumerStates /\ next.submitted = consumer[c].submitted /\ next.taken = consumer[c].taken + 1
  <2>1. /\ state \in ConsumerStates
        /\ state.submitted = consumer[c].submitted /\ state.taken = consumer[c].taken + 1
    BY <1>1, <1>2 DEF ConsumerStates
  <2>2. CASE next = state BY <2>1, <2>2
  <2>3. CASE next # state
    <3>1. PICK pc \in {"abandon", "refill", "over"} : next = [state EXCEPT !.pc = pc] BY <1>4, <2>3
    <3> QED BY <2>1, <3>1 DEF ConsumerStates
  <2> QED BY <2>2, <2>3
<1>6. consumer[c].taken < consumer[c].submitted /\ consumer[c].taken \in Nat /\ consumer[c].submitted \in Nat
  BY <1>1 DEF TakeResult, ConsumerStates
<1>7. consumer' \in [Consumers -> ConsumerStates] BY <1>4, <1>5, Before
<1>8. ASSUME NEW d \in Consumers PROVE ConsumerSound(d)'
  <2>1. CASE d = c BY <1>1, <1>4, <1>5, <1>6, <2>1, Before DEF ConsumerSound
  <2>2. CASE d # c BY <1>4, <2>2, Before DEF ConsumerSound
  <2> QED BY <2>1, <2>2
<1>9. UNCHANGED <<job, closing, dispatcher, flightOwner, follows>> BY DEF TakeResult
<1> QED BY <1>7, <1>8, <1>9, Before, OnlyConsumers

LEMMA AbandonKeeps ==
  ASSUME SchedulerInv, NEW c \in Consumers, Abandon(c)
  PROVE  SchedulerInv'
<1>1. PICK ends : ends = {j \in InWindow(c) : job[j].future = "pending"} OBVIOUS
<1>2. ends \subseteq Jobs
  <2>1. consumer[c].taken \in Nat /\ consumer[c].submitted \in Nat /\ consumer[c].submitted <= Len(Work[c])
    BY Before DEF ConsumerSound, ConsumerStates
  <2>2. Len(Work[c]) \in Nat BY SchedulerAssumption
  <2>3. \A i \in (consumer[c].taken + 1)..consumer[c].submitted : i \in 1..Len(Work[c]) BY <2>1, <2>2
  <2> QED BY <1>1, <2>3, RunOfJob DEF InWindow
<1>3. \A j \in ends : job[j] \in JobStates /\ job[j].future = "pending" /\ job[j].at \in {"heap", "queued"}
  BY <1>1, <1>2, Before DEF JobSound, JobStates, Busy, Attempting, Live, Settled
<1>4. job' = [j \in Jobs |-> IF j \in ends
                             THEN [job[j] EXCEPT !.future = "cancelled", !.at = IF @ = "queued" THEN "queued" ELSE "over"]
                             ELSE job[j]]
  BY <1>1 DEF Abandon
<1>5. ASSUME NEW j \in ends
      PROVE  /\ job'[j] \in JobStates /\ job'[j].future = "cancelled"
             /\ job'[j].at = "over" \/ (job'[j].at = "queued" /\ job[j].at = "queued")
  <2>1. job'[j] = [job[j] EXCEPT !.future = "cancelled", !.at = IF @ = "queued" THEN "queued" ELSE "over"]
    BY <1>2, <1>4
  <2> QED BY <1>3, <2>1 DEF JobStates, Futures, Settled, Busy, Attempting
<1>6. \A j \in Jobs \ ends : job'[j] = job[j] BY <1>4
<1>7. job' \in [Jobs -> JobStates]
  <2>1. \A j \in Jobs : job'[j] \in JobStates BY <1>5, <1>6, Before
  <2>2. job' = [j \in Jobs |-> job'[j]] BY <1>4
  <2> QED BY <2>1, <2>2
<1>8. \A j \in ends : /\ JobSound(job'[j]) /\ job'[j].at # "io" /\ ~IsAdmitted(job'[j])
                      /\ IsAttempt(job'[j]) => IsAttempt(job[j])
                      /\ job'[j].at \in Busy => job[j].at \in Busy
  BY <1>5 DEF JobSound, IsAdmitted, IsAttempt, Busy, Attempting, Live, Settled
<1>9. consumer' \in [Consumers -> ConsumerStates] BY Before DEF Abandon, ConsumerStates
<1>10. \A d \in Consumers : ConsumerSound(d)' BY Before DEF Abandon, ConsumerSound, ConsumerStates
<1>11. FlightsKept(job, ends, flightOwner, follows) BY Before, FlightsButOne
<1>12. Released(ends, flightOwner, follows) BY <1>1 DEF Abandon, Release
<1>13. UNCHANGED <<closing, dispatcher>> BY DEF Abandon
<1> QED BY <1>2, <1>6, <1>7, <1>8, <1>9, <1>10, <1>11, <1>12, <1>13, Before, EndsStep

-----------------------------------------------------------------------------
(* The steps of an attempt *)

LEMMA ErrorKeeps ==
  ASSUME SchedulerInv, NEW j \in Jobs, NEW followers \in Followers, NEW outcome \in Settled,
         FlightsKept(job, {}, flightOwner, followers), Settle(j, outcome, flightOwner, followers),
         UNCHANGED <<consumer, closing, dispatcher>>
  PROVE  SchedulerInv'
<1>1. flightOwner \in Owners BY Before
<1>2. FlightsKept(job, {j}, flightOwner, followers) BY FlightsButOne
<1> QED BY <1>1, <1>2, SettleStep

LEMMA RetryKeeps ==
  ASSUME SchedulerInv, NEW j \in Jobs, job[j].at \in Live, NEW counted \in Nat, NEW followers \in Followers,
         FlightsKept(job, {}, flightOwner, followers), RetryLater(j, counted, followers),
         UNCHANGED <<consumer, closing, dispatcher>>
  PROVE  SchedulerInv'
<1>1. CASE OfRun(j) \in cancelled
  <2>1. Settle(j, "error", flightOwner, followers) BY <1>1 DEF RetryLater
  <2>2. "error" \in Settled BY DEF Settled
  <2> QED BY <2>1, <2>2, ErrorKeeps
<1>2. CASE OfRun(j) \notin cancelled
  <2>1. job[j] \in JobStates /\ job[j].future = "running" /\ job[j].retries \in Nat BY Before DEF JobSound, JobStates
  <2>2. PICK k : k = [job[j] EXCEPT !.at = "heap", !.retries = @ + counted] OBVIOUS
  <2>3. k \in JobStates /\ k.at = "heap" /\ k.future = "running"
    <3>1. PICK n : n = job[j].retries + counted OBVIOUS
    <3>2. n \in Nat BY <2>1, <3>1
    <3>3. k = [job[j] EXCEPT !.at = "heap", !.retries = n] BY <2>1, <2>2, <3>1 DEF JobStates
    <3> QED BY <2>1, <3>2, <3>3 DEF JobStates, Busy
  <2>4. job' = [job EXCEPT ![j] = k] /\ flightOwner' = flightOwner /\ follows' = followers
    BY <1>2, <2>2, Before DEF RetryLater
  <2>5. JobSound(k) /\ k.at # "io" /\ ~IsAttempt(k) BY <2>3 DEF JobSound, Live, IsAttempt, Attempting
  <2>6. IsAdmitted(job[j]) /\ job[j].at \in Busy BY <2>1 DEF IsAdmitted, Busy, Attempting
  <2>7. FlightsKept(job, {}, flightOwner, follows') /\ follows' \in Followers BY <2>4
  <2> QED BY <2>1, <2>3, <2>4, <2>5, <2>6, <2>7, ConsumersStay, PlaceStep
<1> QED BY <1>1, <1>2

LEMMA BeginKeeps ==
  ASSUME SchedulerInv, NEW j \in Jobs, Begin(j)
  PROVE  SchedulerInv'
<1>1. job[j] \in JobStates /\ job[j].at = "queued" /\ job[j].future \in {"pending", "running", "cancelled"}
  BY Before DEF Begin, JobSound
<1>2. UNCHANGED <<consumer, closing, dispatcher>> BY DEF Begin
<1>3. CASE job[j].future = "cancelled"
  <2>1. PICK k : k = Over(job[j], "cancelled") OBVIOUS
  <2>2. "cancelled" \in Settled BY DEF Settled
  <2>3. k \in JobStates /\ JobSound(k) /\ k.at = "over" /\ ~IsAttempt(k) /\ ~IsAdmitted(k) BY <1>1, <2>1, <2>2, OverJob
  <2>4. job' = [job EXCEPT ![j] = k] /\ UNCHANGED <<flightOwner, follows>> BY <1>3, <2>1, Before DEF Begin
  <2>5. k.at # "io" /\ k.at \notin Busy BY <2>3 DEF Busy, Attempting, Live
  <2>6. FlightsKept(job, {}, flightOwner, follows') /\ follows' \in Followers BY <2>4, Before
  <2> QED BY <1>2, <1>3, <2>3, <2>4, <2>5, <2>6, ConsumersStay, PlaceStep
<1>4. CASE job[j].future # "cancelled" /\ OfRun(j) \in cancelled
  <2>1. Settle(j, "error", flightOwner, follows) BY <1>4 DEF Begin
  <2>2. "error" \in Settled BY DEF Settled
  <2>3. follows \in Followers /\ FlightsKept(job, {}, flightOwner, follows) BY Before
  <2> QED BY <1>2, <2>1, <2>2, <2>3, ErrorKeeps
<1>5. CASE job[j].future # "cancelled" /\ OfRun(j) \notin cancelled
  <2>1. PICK k : k = [job[j] EXCEPT !.at = "ref", !.future = "running"] OBVIOUS
  <2>2. k \in JobStates /\ k.at = "ref" /\ k.future = "running"
    BY <1>1, <2>1 DEF JobStates, Busy, Attempting, Live, Futures
  <2>3. job' = [job EXCEPT ![j] = k] /\ UNCHANGED <<flightOwner, follows>> BY <1>5, <2>1, Before DEF Begin
  <2>4. JobSound(k) /\ k.at # "io" BY <2>2 DEF JobSound, Live
  <2>5. IsAttempt(job[j]) /\ IsAdmitted(job[j]) /\ job[j].at \in Busy
    BY <1>1, <1>5 DEF IsAttempt, IsAdmitted, Busy, Attempting
  <2>6. FlightsKept(job, {}, flightOwner, follows') /\ follows' \in Followers BY <2>3, Before
  <2> QED BY <1>2, <2>2, <2>3, <2>4, <2>5, <2>6, ConsumersStay, PlaceStep
<1> QED BY <1>3, <1>4, <1>5

\* A job starts the I/O of a key no other job loads.
LEMMA StartsIOKeeps ==
  ASSUME SchedulerInv, NEW j \in Jobs, job[j].at = "ref", follows[j] # "open", flightOwner[KeyOf[j]] \in {j, Nobody},
         job' = [job EXCEPT ![j].at = "io"], flightOwner' = [flightOwner EXCEPT ![KeyOf[j]] = j], follows' = follows,
         UNCHANGED <<consumer, closing, dispatcher>>
  PROVE  SchedulerInv'
<1>1. job[j] \in JobStates /\ job[j].future = "running" BY Before DEF JobSound, Live
<1>2. PICK k : k = [job[j] EXCEPT !.at = "io"] OBVIOUS
<1>3. k \in JobStates /\ k.at = "io" /\ k.future = "running"
  BY <1>1, <1>2 DEF JobStates, Busy, Attempting, Live
<1>4. job' = [job EXCEPT ![j] = k] BY <1>2, Before
<1>5. job' \in [Jobs -> JobStates] /\ job'[j] = k /\ \A i \in Jobs \ {j} : job'[i] = job[i] BY <1>3, <1>4, Before
<1>6. JobSound(k) BY <1>3 DEF JobSound
<1>7. \A i \in Jobs : JobSound(job'[i]) BY <1>5, <1>6, Before
<1>8. IsAttempt(job[j]) /\ IsAdmitted(job[j]) /\ job[j].at \in Busy
  BY <1>1 DEF IsAttempt, IsAdmitted, Busy, Attempting, Live
<1>9. Fits(job')
  <2>1. \A i \in Jobs : (IsAttempt(job'[i]) => IsAttempt(job[i])) /\ (IsAdmitted(job'[i]) => IsAdmitted(job[i]))
    BY <1>5, <1>8
  <2> QED BY <2>1, Before, FitsStill
<1>10. KeyOf[j] \in Keys /\ \A i \in Jobs : KeyOf[i] \in Keys BY SchedulerAssumption
<1>11. Nobody \notin Jobs BY SchedulerAssumption
<1>12. flightOwner' \in Owners /\ follows' \in Followers BY Before DEF Owners
<1>13. FlightsKept(job', {}, flightOwner', follows')
  <2>1. flightOwner \in Owners /\ FlightsKept(job, {}, flightOwner, follows) BY Before
  <2>2. \A n \in Keys : flightOwner'[n] = IF n = KeyOf[j] THEN j ELSE flightOwner[n] BY <2>1 DEF Owners
  <2>3. ASSUME NEW i \in Jobs PROVE job'[i].at = "io" => flightOwner'[KeyOf[i]] = i
    <3>1. CASE i = j BY <1>10, <2>2, <3>1
    <3>2. CASE i # j
      <4>1. job'[i].at = "io" => flightOwner[KeyOf[i]] = i BY <1>5, <2>1, <3>2 DEF FlightsKept
      <4>2. flightOwner[KeyOf[i]] = i => KeyOf[i] # KeyOf[j] BY <1>11, <3>2
      <4> QED BY <1>10, <2>2, <4>1, <4>2
    <3> QED BY <3>1, <3>2
  <2>4. ASSUME NEW i \in Jobs PROVE follows'[i] = "open" => flightOwner'[KeyOf[i]] \notin {Nobody, i}
    <3>1. follows'[i] = "open" => i # j /\ flightOwner[KeyOf[i]] \notin {Nobody, i} BY <2>1 DEF FlightsKept
    <3> QED BY <1>10, <1>11, <2>2, <3>1
  <2>5. ASSUME NEW n \in Keys
        PROVE  flightOwner'[n] # Nobody => KeyOf[flightOwner'[n]] = n /\ job'[flightOwner'[n]].future = "running"
    <3>1. CASE n = KeyOf[j] BY <1>3, <1>5, <2>2, <3>1
    <3>2. CASE n # KeyOf[j]
      <4>1. flightOwner'[n] = flightOwner[n] BY <2>2, <3>2
      <4>2. flightOwner[n] # Nobody =>
              flightOwner[n] \in Jobs /\ KeyOf[flightOwner[n]] = n /\ job[flightOwner[n]].future = "running"
        BY <2>1 DEF FlightsKept, Owners
      <4>3. flightOwner[n] # Nobody => flightOwner[n] # j BY <3>2, <4>2
      <4> QED BY <1>5, <4>1, <4>2, <4>3
    <3> QED BY <3>1, <3>2
  <2> QED BY <2>3, <2>4, <2>5 DEF FlightsKept
<1>14. \A i \in Jobs : job'[i].at \in Busy => job[i].at \in Busy BY <1>5, <1>8
<1>15. \A r \in Runs : (closing'[r] = "open" => closing[r] = "open") /\ (closing'[r] = "closed" => closing[r] = "closed")
  OBVIOUS
<1> QED BY <1>5, <1>7, <1>9, <1>12, <1>13, <1>14, <1>15, Before, ConsumersStay, JobsMove

LEMMA GetOrLoadKeeps ==
  ASSUME SchedulerInv, NEW j \in Jobs, job[j].at = "ref", GetOrLoad(j), UNCHANGED <<consumer, closing, dispatcher>>
  PROVE  SchedulerInv'
<1>1. follows \in Followers /\ flightOwner \in Owners /\ FlightsKept(job, {}, flightOwner, follows) BY Before
<1>2. job[j].at \in Live BY DEF Live
<1>3. KeyOf[j] \in Keys BY SchedulerAssumption
<1>4. CASE follows[j] = "open"
  <2>1. RetryLater(j, 0, follows) BY <1>4 DEF GetOrLoad
  <2> QED BY <1>1, <1>2, <2>1, RetryKeeps
<1>5. CASE follows[j] \notin {"open", "none"}
  <2>1. PICK outcome : outcome = follows[j] OBVIOUS
  <2>2. outcome \in Settled BY <1>1, <1>5, <2>1 DEF Followers, Settled
  <2>3. Settle(j, outcome, flightOwner, follows) BY <1>5, <2>1 DEF GetOrLoad
  <2> QED BY <1>1, <2>2, <2>3, ErrorKeeps
<1>6. CASE follows[j] = "none" /\ KeyOf[j] \in cached
  <2>1. Settle(j, "value", flightOwner, follows) BY <1>6 DEF GetOrLoad
  <2>2. "value" \in Settled BY DEF Settled
  <2> QED BY <1>1, <2>1, <2>2, ErrorKeeps
<1>7. CASE follows[j] = "none" /\ KeyOf[j] \notin cached
  <2>1. CASE flightOwner[KeyOf[j]] = j \/ (flightOwner[KeyOf[j]] = Nobody /\ Cardinality(Flights) < MaxFlights)
    <3>1. /\ job' = [job EXCEPT ![j].at = "io"]
          /\ flightOwner' = [flightOwner EXCEPT ![KeyOf[j]] = j] /\ follows' = follows
      BY <1>7, <2>1 DEF GetOrLoad
    <3>2. follows[j] # "open" /\ flightOwner[KeyOf[j]] \in {j, Nobody} BY <1>7, <2>1
    <3> QED BY <3>1, <3>2, StartsIOKeeps
  <2>2. CASE ~(flightOwner[KeyOf[j]] = j \/ (flightOwner[KeyOf[j]] = Nobody /\ Cardinality(Flights) < MaxFlights))
    <3>1. PICK followers : followers = IF flightOwner[KeyOf[j]] = Nobody THEN follows ELSE [follows EXCEPT ![j] = "open"]
      OBVIOUS
    <3>2. RetryLater(j, 0, followers) BY <1>7, <2>2, <3>1 DEF GetOrLoad
    <3>3. followers \in Followers BY <1>1, <3>1 DEF Followers
    <3>4. FlightsKept(job, {}, flightOwner, followers)
      <4>1. \A i \in Jobs : followers[i] = "open" => flightOwner[KeyOf[i]] \notin {Nobody, i}
        BY <1>1, <2>2, <3>1 DEF FlightsKept, Followers
      <4> QED BY <1>1, <4>1 DEF FlightsKept
    <3> QED BY <1>2, <3>2, <3>3, <3>4, RetryKeeps
  <2> QED BY <2>1, <2>2
<1> QED BY <1>4, <1>5, <1>6, <1>7

LEMMA AttemptsFailing ==
  ASSUME SchedulerInv, NEW j \in Jobs, job[j].at \in Live, Throttled(j) \/ Fails(j),
         UNCHANGED <<consumer, closing, dispatcher>>
  PROVE  SchedulerInv'
<1>1. follows \in Followers /\ FlightsKept(job, {}, flightOwner, follows) BY Before
<1>2. CASE Throttled(j)
  <2>1. RetryLater(j, 1, follows) BY <1>2 DEF Throttled
  <2> QED BY <1>1, <2>1, RetryKeeps
<1>3. CASE Fails(j)
  <2>1. Settle(j, "error", flightOwner, follows) BY <1>3 DEF Fails
  <2>2. "error" \in Settled BY DEF Settled
  <2> QED BY <1>1, <2>1, <2>2, ErrorKeeps
<1> QED BY <1>2, <1>3

LEMMA ReferenceKeeps ==
  ASSUME SchedulerInv, NEW j \in Jobs, Reference(j)
  PROVE  SchedulerInv'
<1>1. job[j].at = "ref" /\ job[j].at \in Live /\ UNCHANGED <<consumer, closing, dispatcher>> BY DEF Reference, Live
<1>2. CASE Throttled(j) \/ Fails(j) BY <1>1, <1>2, AttemptsFailing
<1>3. CASE GetOrLoad(j) BY <1>1, <1>3, GetOrLoadKeeps
<1> QED BY <1>2, <1>3 DEF Reference

\* The flight of a job that loaded ends before the job does.
LEMMA CompleteKeeps ==
  ASSUME SchedulerInv, NEW j \in Jobs, NEW owner, NEW followers,
         job[j].at = "io", owner = Complete(j, "value").owner, followers = Complete(j, "value").follows
  PROVE  owner \in Owners /\ followers \in Followers /\ FlightsKept(job, {j}, owner, followers)
<1>1. follows \in Followers /\ flightOwner \in Owners /\ FlightsKept(job, {}, flightOwner, follows) BY Before
<1>2. \A i \in Jobs : KeyOf[i] \in Keys BY SchedulerAssumption
<1>3. Nobody \notin Jobs BY SchedulerAssumption
<1>4. owner = [flightOwner EXCEPT ![KeyOf[j]] = Nobody] BY DEF Complete
<1>5. followers = [i \in Jobs |-> IF KeyOf[i] = KeyOf[j] /\ follows[i] = "open" THEN "value" ELSE follows[i]]
  BY DEF Complete
<1>6. owner \in Owners /\ followers \in Followers BY <1>1, <1>4, <1>5 DEF Owners, Followers
<1>7. \A n \in Keys : owner[n] = IF n = KeyOf[j] THEN Nobody ELSE flightOwner[n] BY <1>1, <1>4 DEF Owners
<1>8. FlightsKept(job, {j}, owner, followers)
  <2>1. flightOwner[KeyOf[j]] = j BY <1>1 DEF FlightsKept
  <2>2. \A i \in Jobs \ {j} : job[i].at = "io" => flightOwner[KeyOf[i]] = i BY <1>1 DEF FlightsKept
  <2>3. \A i \in Jobs \ {j} : job[i].at = "io" => owner[KeyOf[i]] = i BY <1>2, <1>7, <2>1, <2>2
  <2>4. \A i \in Jobs : followers[i] = "open" => owner[KeyOf[i]] \notin {Nobody, i}
    BY <1>1, <1>2, <1>5, <1>7 DEF FlightsKept
  <2>5. \A n \in Keys : owner[n] # Nobody => KeyOf[owner[n]] = n /\ job[owner[n]].future = "running"
    BY <1>1, <1>7 DEF FlightsKept
  <2> QED BY <2>3, <2>4, <2>5 DEF FlightsKept
<1> QED BY <1>6, <1>8

LEMMA LoadKeeps ==
  ASSUME SchedulerInv, NEW j \in Jobs, Load(j)
  PROVE  SchedulerInv'
<1>1. job[j].at = "io" /\ job[j].at \in Live /\ UNCHANGED <<consumer, closing, dispatcher>> BY DEF Load, Live
<1>2. CASE Throttled(j) \/ Fails(j) BY <1>1, <1>2, AttemptsFailing
<1>3. CASE LET flight == Complete(j, "value") IN Settle(j, "value", flight.owner, flight.follows)
  <2>1. PICK owner : owner = Complete(j, "value").owner OBVIOUS
  <2>2. PICK followers : followers = Complete(j, "value").follows OBVIOUS
  <2>3. owner \in Owners /\ followers \in Followers /\ FlightsKept(job, {j}, owner, followers)
    BY <1>1, <2>1, <2>2, CompleteKeeps
  <2>4. Settle(j, "value", owner, followers) BY <1>3, <2>1, <2>2
  <2>5. "value" \in Settled BY DEF Settled
  <2> QED BY <1>1, <2>3, <2>4, <2>5, SettleStep
<1> QED BY <1>2, <1>3 DEF Load

-----------------------------------------------------------------------------
(* The steps of the retry thread, of cancel() and of close() *)

LEMMA DispatchKeeps ==
  ASSUME SchedulerInv, NEW j \in Jobs, Dispatch(j)
  PROVE  SchedulerInv'
<1>1. job[j] \in JobStates /\ job[j].at = "heap" /\ job[j].future \in {"pending", "running"} /\ OfRun(j) \in Runs
  BY Before, RunOfJob DEF Dispatch, JobSound
<1>2. UNCHANGED <<consumer, closing, dispatcher, flightOwner, follows>> BY DEF Dispatch
<1>3. PICK k : k = [job[j] EXCEPT !.at = "queued"] OBVIOUS
<1>4. k \in JobStates /\ k.at = "queued" /\ k.future = job[j].future BY <1>1, <1>3 DEF JobStates, Busy, Attempting
<1>5. job' = [job EXCEPT ![j] = k] BY <1>3, Before DEF Dispatch
<1>6. JobSound(k) /\ k.at # "io" BY <1>1, <1>4 DEF JobSound, Live
<1>7. Cardinality(Attempts(job, OfRun(j))) < Workers[OfRun(j)] BY <1>1, Counted DEF Dispatch
<1>8. IsAdmitted(job[j]) /\ job[j].at \in Busy BY <1>1 DEF IsAdmitted, Busy
<1>9. FlightsKept(job, {}, flightOwner, follows') /\ follows' \in Followers BY <1>2, Before
<1> QED BY <1>1, <1>2, <1>4, <1>5, <1>6, <1>7, <1>8, <1>9, ConsumersStay, PlaceStep

LEMMA SettleWaitingKeeps ==
  ASSUME SchedulerInv, NEW r \in Runs, SettleWaiting(r), UNCHANGED <<consumer, dispatcher>>,
         closing' \in [Runs -> {"open", "cancel", "join", "closed"}],
         \A s \in Runs : (closing'[s] = "open" => closing[s] = "open") /\ (closing'[s] = "closed" => closing[s] = "closed")
  PROVE  SchedulerInv'
<1>1. PICK ends : ends = Waiting(r) OBVIOUS
<1>2. ends \subseteq Jobs BY <1>1 DEF Waiting
<1>3. job' = [j \in Jobs |-> IF j \in ends THEN Over(job[j], Cancelled(job[j].future)) ELSE job[j]]
  BY <1>1 DEF SettleWaiting
<1>4. ASSUME NEW j \in ends
      PROVE  job'[j] \in JobStates /\ JobSound(job'[j]) /\ job'[j].at = "over" /\ ~IsAttempt(job'[j]) /\ ~IsAdmitted(job'[j])
  <2>1. PICK outcome : outcome = Cancelled(job[j].future) OBVIOUS
  <2>2. outcome \in Settled BY <2>1 DEF Cancelled, Settled
  <2>3. job[j] \in JobStates BY <1>2, Before
  <2>4. job'[j] = Over(job[j], outcome) BY <1>2, <1>3, <2>1
  <2> QED BY <2>2, <2>3, <2>4, OverJob
<1>5. \A j \in Jobs \ ends : job'[j] = job[j] BY <1>3
<1>6. job' \in [Jobs -> JobStates]
  <2>1. \A j \in Jobs : job'[j] \in JobStates BY <1>4, <1>5, Before
  <2>2. job' = [j \in Jobs |-> job'[j]] BY <1>3
  <2> QED BY <2>1, <2>2
<1>7. \A j \in ends : /\ JobSound(job'[j]) /\ job'[j].at # "io" /\ ~IsAdmitted(job'[j])
                      /\ IsAttempt(job'[j]) => IsAttempt(job[j])
                      /\ job'[j].at \in Busy => job[j].at \in Busy
  BY <1>4 DEF Busy, Attempting, Live
<1>8. FlightsKept(job, ends, flightOwner, follows) BY Before, FlightsButOne
<1>9. Released(ends, flightOwner, follows) BY <1>1 DEF SettleWaiting, Release
<1> QED BY <1>2, <1>5, <1>6, <1>7, <1>8, <1>9, Before, ConsumersStay, EndsStep

LEMMA RunStepKeeps ==
  ASSUME SchedulerInv, NEW r \in Runs, RunStep(r)
  PROVE  SchedulerInv'
<1>0. closing \in [Runs -> {"open", "cancel", "join", "closed"}] BY Before
<1>1. CASE DropWaiting(r) BY <1>0, <1>1, SettleWaitingKeeps DEF DropWaiting
<1>2. CASE Sweep(r)
  <2>1. closing' = [closing EXCEPT ![r] = IF @ = "cancel" THEN "join" ELSE @] BY <1>2 DEF Sweep
  <2>2. /\ closing' \in [Runs -> {"open", "cancel", "join", "closed"}]
        /\ \A s \in Runs : (closing'[s] = "open" => closing[s] = "open") /\ (closing'[s] = "closed" => closing[s] = "closed")
    BY <1>0, <2>1
  <2> QED BY <1>2, <2>2, SettleWaitingKeeps DEF Sweep
<1>3. CASE Close(r)
  <2>1. closing' = [closing EXCEPT ![r] = "cancel"] BY <1>3 DEF Close
  <2>2. /\ closing' \in [Runs -> {"open", "cancel", "join", "closed"}]
        /\ \A s \in Runs : (closing'[s] = "open" => closing[s] = "open") /\ (closing'[s] = "closed" => closing[s] = "closed")
    BY <1>0, <2>1
  <2> QED BY <1>3, <2>2, ConsumersStay, OnlyConsumers DEF Close
<1>4. CASE DispatcherExits(r)
  <2>1. /\ UNCHANGED <<job, consumer, closing, flightOwner, follows>> /\ dispatcher' = dispatcher \ {r}
        /\ closing[r] # "open" /\ Waiting(r) = {} /\ Active(r) = {}
    BY <1>4 DEF DispatcherExits
  <2>2. \A j \in Jobs : OfRun(j) = r => job[j].at \notin Busy BY <2>1 DEF Waiting, Active, Busy
  <2>3. DispatcherKept' BY <2>1, <2>2, Before DEF DispatcherKept
  <2>4. SchedulerTyped' BY <2>1 DEF SchedulerInv, SchedulerTyped
  <2>5. \A c \in Consumers : ConsumerSound(c)' BY <2>1, ConsumersStay
  <2> QED BY <2>1, <2>3, <2>4, <2>5 DEF SchedulerInv
<1>5. CASE CloseSessions(r)
  <2>1. /\ UNCHANGED <<job, consumer, dispatcher, flightOwner, follows>>
        /\ closing' = [closing EXCEPT ![r] = "closed"] /\ r \notin dispatcher
    BY <1>5 DEF CloseSessions
  <2>2. closing' \in [Runs -> {"open", "cancel", "join", "closed"}] BY <1>0, <2>1
  <2>3. \A s \in Runs : closing'[s] = IF s = r THEN "closed" ELSE closing[s] BY <1>0, <2>1
  <2>4. DispatcherKept' BY <2>1, <2>3, Before DEF DispatcherKept
  <2>5. SchedulerTyped' BY <2>1, <2>2 DEF SchedulerInv, SchedulerTyped
  <2>6. \A c \in Consumers : ConsumerSound(c)' BY <2>1, ConsumersStay
  <2> QED BY <2>1, <2>4, <2>5, <2>6 DEF SchedulerInv
<1> QED BY <1>1, <1>2, <1>3, <1>4, <1>5 DEF RunStep

\* Every step of the scheduler keeps the invariant.
LEMMA SchedulerStep ==
  ASSUME SchedulerInv, [SchedulerNext]_schedulerVars
  PROVE  SchedulerInv'
<1>1. CASE UNCHANGED schedulerVars
  <2>1. UNCHANGED <<job, consumer, closing, dispatcher, flightOwner, follows>> BY <1>1 DEF schedulerVars
  <2> QED BY <2>1, Before, ConsumersStay, OnlyConsumers
<1>2. ASSUME NEW c \in Consumers, ConsumerStep(c) PROVE SchedulerInv'
  BY <1>2, TakeSlotKeeps, GiveUpKeeps, RegisterKeeps, TakeResultKeeps, AbandonKeeps DEF ConsumerStep
<1>3. ASSUME NEW j \in Jobs, AttemptStep(j) \/ Dispatch(j) PROVE SchedulerInv'
  BY <1>3, BeginKeeps, ReferenceKeeps, LoadKeeps, DispatchKeeps DEF AttemptStep
<1>4. ASSUME NEW r \in Runs, RunStep(r) PROVE SchedulerInv'
  BY <1>4, RunStepKeeps
<1>5. ASSUME NEW r \in Runs, ExternalCancel(r) \/ Cancel(r) PROVE SchedulerInv'
  <2>1. UNCHANGED <<job, consumer, closing, dispatcher, flightOwner, follows>> BY <1>5 DEF ExternalCancel, Cancel
  <2> QED BY <2>1, Before, ConsumersStay, OnlyConsumers
<1> QED BY <1>1, <1>2, <1>3, <1>4, <1>5 DEF SchedulerNext

\* A fetch under way keeps its admission, its worker and an open session, and
\* its future does not settle under it, whatever is retried, shared, abandoned
\* or cancelled; who follows a flight follows one whose owner will end it; and
\* an unsettled future has a live retry thread to settle it (ordered(),
\* _fetch(), _dispatch(), cancel() and close()).
THEOREM FetchesTheorem == SchedulerSpec => []FetchesOwned
<1>1. SchedulerInit => SchedulerInv BY SchedulerStarts
<1>2. SchedulerInv /\ [SchedulerNext]_schedulerVars => SchedulerInv' BY SchedulerStep
<1>3. SchedulerInv => FetchesOwned BY FetchesFollow
<1> QED BY <1>1, <1>2, <1>3, PTL DEF SchedulerSpec

-----------------------------------------------------------------------------
(* The quota coordinators.  What a server said is not forgotten with the   *)
(* client that heard it: the coordinator it is noted in is pinned, and     *)
(* loses its pin only when every instant it holds has passed.              *)

Ticks == Nat \cup {Unknown}
Coordinators == [remaining : Int, reset : Ticks, blocked : Nat, next : Nat, stagger : Nat, idle : Nat, cost : Int]
Replies == [remaining : Int, reset : Ticks, cost : Int, after : Ticks]
Requests == [pc : {"new", "ready", "io", "reply", "over"}, reply : Replies, attempts : Nat]

QuotaInv ==
  /\ coordinator \in [Scopes -> Coordinators] /\ client \in [Clients -> Requests]
  /\ told \in [Scopes -> Nat]
  /\ \A s \in Scopes : told[s] <= coordinator[s].blocked /\ (told[s] > 0 => s \in pinned)

LEMMA FreshTyped == Fresh \in Coordinators /\ Fresh.blocked = 0
BY QuotaAssumption DEF Fresh, Coordinators, Ticks, Unknown

LEMMA QuotaStarts == QuotaInit => QuotaInv
<1> SUFFICES ASSUME QuotaInit PROVE QuotaInv OBVIOUS
<1>1. NoReply \in Replies BY DEF NoReply, Replies, Ticks, Unknown
<1> QED BY <1>1, FreshTyped DEF QuotaInit, QuotaInv, Requests

\* A coordinator is blocked no shorter than before, and for the ticks named.
LEMMA BlockedLonger ==
  ASSUME NEW q \in Coordinators, NEW n \in Int
  PROVE  Blocked(q, n) \in Coordinators /\ Blocked(q, n).blocked >= q.blocked /\ Blocked(q, n).blocked > n
         /\ Blocked(q, n).reset = q.reset
<1> USE QuotaAssumption
<1> DEFINE until == Later(q.blocked, n + 1)
           stagger == Later(q.stagger, until + StaggerTicks)
<1>1. q.blocked \in Nat /\ q.stagger \in Nat BY DEF Coordinators
<1>2. until \in Nat /\ until >= q.blocked /\ until > n BY <1>1 DEF Later
<1>3. stagger \in Nat BY <1>1, <1>2 DEF Later
<1>4. Blocked(q, n) = [q EXCEPT !.blocked = until, !.stagger = stagger] BY DEF Blocked, Coordinators
<1> HIDE DEF until, stagger
<1> QED BY <1>2, <1>3, <1>4 DEF Coordinators

\* The clauses of a reply that say nothing of quota or reset change neither.
LEMMA ObservedLonger ==
  ASSUME NEW q \in Coordinators, NEW r \in Replies
  PROVE  Observed(q, r) \in Coordinators /\ Observed(q, r).blocked >= q.blocked
<1> USE QuotaAssumption
<1> DEFINE priced == [q EXCEPT !.cost = r.cost]
           left == IF r.reset > q.reset \/ priced.remaining = Unknown \/ r.remaining < priced.remaining
                   THEN r.remaining ELSE priced.remaining
           known == [priced EXCEPT !.remaining = left, !.reset = Later(priced.reset, r.reset)]
           window == IF known.reset = Unknown THEN [known EXCEPT !.reset = WindowTicks] ELSE known
<1>1. q.blocked \in Nat /\ q.reset \in Int /\ r.reset \in Int /\ r.cost \in Int /\ r.remaining \in Int
  BY DEF Coordinators, Replies, Ticks, Unknown
<1>2. priced \in Coordinators /\ priced.blocked = q.blocked /\ priced.reset = q.reset BY <1>1 DEF Coordinators
<1>3. left \in Int /\ Later(priced.reset, r.reset) \in Ticks
  BY <1>1, <1>2 DEF Coordinators, Replies, Later, Ticks
<1>4. known \in Coordinators /\ known.blocked = q.blocked
  <2> HIDE DEF priced, left
  <2> QED BY <1>2, <1>3 DEF Coordinators
<1>5. window \in Coordinators /\ window.blocked = q.blocked
  <2> HIDE DEF known
  <2>1. WindowTicks \in Nat BY DEF Ticks
  <2> QED BY <1>4, <2>1 DEF Coordinators, Ticks
<1>6. window.reset \in Int
  <2> HIDE DEF window
  <2> QED BY <1>5 DEF Coordinators, Ticks, Unknown
<1>7. /\ Blocked(window, window.reset) \in Coordinators
      /\ Blocked(window, window.reset).blocked >= q.blocked
  <2> HIDE DEF window
  <2> QED BY <1>5, <1>6, BlockedLonger
<1>8. Observed(q, r) = IF r.remaining = Unknown \/ (r.reset # Unknown /\ r.reset < q.reset) THEN priced
                       ELSE IF r.remaining < priced.cost THEN Blocked(window, window.reset) ELSE known
  BY DEF Observed
<1> HIDE DEF priced, known, window
<1> QED BY <1>1, <1>2, <1>4, <1>7, <1>8

LEMMA AdmittingLonger ==
  ASSUME NEW q \in Coordinators
  PROVE  /\ Touched(q) \in Coordinators /\ Touched(q).blocked = q.blocked
         /\ Depleted(Window(q)) \in Coordinators /\ Depleted(Window(q)).blocked >= q.blocked
         /\ Reserved(q) \in Coordinators /\ Reserved(q).blocked = q.blocked
<1> USE QuotaAssumption
<1>1. q.blocked \in Nat /\ q.remaining \in Int /\ q.cost \in Int /\ q.next \in Nat BY DEF Coordinators
<1>2. Touched(q) \in Coordinators /\ Touched(q).blocked = q.blocked
  <2>1. IdleTicks \in Nat OBVIOUS
  <2> QED BY <2>1 DEF Touched, Coordinators
<1>3. Depleted(Window(q)) \in Coordinators /\ Depleted(Window(q)).blocked >= q.blocked
  <2> SUFFICES ASSUME NEW p, p = Window(q) PROVE Depleted(p) \in Coordinators /\ Depleted(p).blocked >= q.blocked
    OBVIOUS
  <2>1. p \in Coordinators /\ p.blocked = q.blocked
    <3>1. Unknown \in Int /\ Unknown \in Ticks BY DEF Unknown, Ticks
    <3>2. p = q \/ p = [q EXCEPT !.remaining = Unknown, !.reset = Unknown] BY DEF Window
    <3> QED BY <3>1, <3>2 DEF Coordinators
  <2> DEFINE inferred == [p EXCEPT !.reset = WindowTicks]
             w == IF p.reset = Unknown THEN Blocked(inferred, WindowTicks) ELSE p
  <2>2. inferred \in Coordinators /\ inferred.blocked = p.blocked
    <3>1. WindowTicks \in Ticks BY DEF Ticks
    <3> QED BY <2>1, <3>1 DEF Coordinators
  <2>3. Blocked(inferred, WindowTicks) \in Coordinators /\ Blocked(inferred, WindowTicks).blocked >= inferred.blocked
    <3> HIDE DEF inferred
    <3>1. WindowTicks \in Int OBVIOUS
    <3> QED BY <2>2, <3>1, BlockedLonger
  <2>4. w \in Coordinators /\ w.blocked >= p.blocked /\ w.blocked \in Nat /\ w.reset \in Int
    <3>1. CASE p.reset = Unknown
      <4>1. w = Blocked(inferred, WindowTicks) BY <3>1
      <4> HIDE DEF w, inferred
      <4> QED BY <2>2, <2>3, <4>1 DEF Coordinators, Ticks, Unknown
    <3>2. CASE p.reset # Unknown
      <4>1. w = p BY <3>2
      <4> HIDE DEF w
      <4> QED BY <2>1, <4>1 DEF Coordinators, Ticks, Unknown
    <3> QED BY <3>1, <3>2
  <2>5. Depleted(p) = IF p.remaining # Unknown /\ p.remaining < p.cost
                      THEN [w EXCEPT !.blocked = Later(w.blocked, w.reset)] ELSE p
    BY <2>4 DEF Depleted, Coordinators
  <2> HIDE DEF w
  <2>6. Later(w.blocked, w.reset) \in Nat /\ Later(w.blocked, w.reset) >= p.blocked
    BY <1>1, <2>1, <2>4 DEF Later
  <2> QED BY <1>1, <2>1, <2>4, <2>5, <2>6 DEF Coordinators
<1>4. Reserved(q) \in Coordinators /\ Reserved(q).blocked = q.blocked
  <2> DEFINE left == IF q.remaining = Unknown THEN q.remaining ELSE Later(0, q.remaining - q.cost)
             next == IF q.stagger > 0 THEN 1 ELSE q.next
  <2>1. left \in Int /\ next \in Nat BY <1>1 DEF Later
  <2>2. Reserved(q) = [q EXCEPT !.remaining = left, !.next = next] BY DEF Reserved, Coordinators
  <2> HIDE DEF left, next
  <2> QED BY <2>1, <2>2 DEF Coordinators
<1> QED BY <1>2, <1>3, <1>4

\* A request is sent only when the instants of its scope have passed.
Honours(c) == client[c].pc = "ready" /\ client'[c].pc = "io" => told[ScopeOf[c]] = 0

LEMMA OpenStep ==
  ASSUME QuotaInv, NEW c \in Clients, Open(c)
  PROVE  QuotaInv' /\ \A d \in Clients : Honours(d)
<1> USE QuotaAssumption
<1> DEFINE s == ScopeOf[c]
           live == {t \in pinned : Retained(coordinator[t])}
           left == live \cup Held
<1>1. /\ coordinator \in [Scopes -> Coordinators] /\ client \in [Clients -> Requests] /\ told \in [Scopes -> Nat]
      /\ client[c].pc = "new"
  BY DEF QuotaInv, Open
<1>2. told' = told /\ live \subseteq pinned' /\ coordinator' = [t \in Scopes |-> IF t \in left THEN coordinator[t] ELSE Fresh]
  BY DEF Open
<1>3. PICK pc \in {"over", "ready"} : client' = [client EXCEPT ![c].pc = pc] BY DEF Open
<1>4. client' \in [Clients -> Requests] /\ \A d \in Clients : d # c => client'[d] = client[d] BY <1>1, <1>3 DEF Requests
<1>5. coordinator' \in [Scopes -> Coordinators]
  <2> HIDE DEF left
  <2> QED BY <1>1, <1>2, FreshTyped
<1>6. ASSUME NEW t \in Scopes PROVE told[t] <= coordinator'[t].blocked /\ (told[t] > 0 => t \in pinned')
  <2>1. told[t] \in Nat /\ coordinator[t].blocked \in Nat /\ told[t] <= coordinator[t].blocked
        /\ (told[t] > 0 => t \in pinned)
    BY <1>1 DEF QuotaInv, Coordinators
  <2>2. told[t] > 0 => t \in live BY <2>1 DEF Retained
  <2>3. coordinator'[t] = IF t \in left THEN coordinator[t] ELSE Fresh BY <1>2
  <2>4. t \notin left => told[t] = 0 BY <2>1, <2>2
  <2> HIDE DEF left, live
  <2> QED BY <1>2, <2>1, <2>2, <2>3, <2>4, FreshTyped
<1> QED BY <1>1, <1>2, <1>4, <1>5, <1>6 DEF QuotaInv, Honours

\* A step of a client on its scope's coordinator.
LEMMA ScopeStep ==
  ASSUME QuotaInv, NEW c \in Clients, NEW k \in Requests, NEW q \in Coordinators, NEW n \in Nat,
         client' = [client EXCEPT ![c] = k], coordinator' = [coordinator EXCEPT ![ScopeOf[c]] = q],
         told' = [told EXCEPT ![ScopeOf[c]] = n], n <= q.blocked, pinned' = pinned \cup {ScopeOf[c]},
         client[c].pc = "ready" /\ k.pc = "io" => told[ScopeOf[c]] = 0
  PROVE  QuotaInv' /\ \A d \in Clients : Honours(d)
<1> USE QuotaAssumption
<1>1. coordinator \in [Scopes -> Coordinators] /\ client \in [Clients -> Requests] /\ told \in [Scopes -> Nat]
      /\ ScopeOf[c] \in Scopes
  BY DEF QuotaInv
<1>2. client' \in [Clients -> Requests] /\ coordinator' \in [Scopes -> Coordinators] /\ told' \in [Scopes -> Nat]
  BY <1>1
<1>3. \A s \in Scopes : told'[s] <= coordinator'[s].blocked /\ (told'[s] > 0 => s \in pinned')
  BY <1>1 DEF QuotaInv
<1>4. \A d \in Clients : Honours(d)
  BY <1>1 DEF Honours, Requests
<1> QED BY <1>2, <1>3, <1>4 DEF QuotaInv

LEMMA AdmitStep ==
  ASSUME QuotaInv, NEW c \in Clients, Admit(c)
  PROVE  QuotaInv' /\ \A d \in Clients : Honours(d)
<1> USE QuotaAssumption
<1> DEFINE s == ScopeOf[c]
           q == Depleted(Window(Touched(coordinator[s])))
           ready == q.blocked = 0 /\ q.next = 0
           p == IF ready THEN Reserved(q) ELSE q
           pc == IF ~ready THEN "ready" ELSE IF client[c].attempts < MaxAttempts THEN "io" ELSE "over"
           attempts == IF pc = "io" THEN client[c].attempts + 1 ELSE IF pc = "over" THEN 0 ELSE client[c].attempts
           k == [client[c] EXCEPT !.pc = pc, !.attempts = attempts]
<1>1. /\ coordinator[s] \in Coordinators /\ client[c] \in Requests /\ told \in [Scopes -> Nat] /\ s \in Scopes
      /\ client \in [Clients -> Requests]
  BY DEF QuotaInv
<1>2. Touched(coordinator[s]) \in Coordinators /\ Touched(coordinator[s]).blocked = coordinator[s].blocked
  BY <1>1, AdmittingLonger
<1>3. q \in Coordinators /\ q.blocked >= coordinator[s].blocked BY <1>2, AdmittingLonger
<1> HIDE DEF q
<1>4. Reserved(q) \in Coordinators /\ Reserved(q).blocked = q.blocked BY <1>3, AdmittingLonger
<1>5. p \in Coordinators /\ p.blocked = q.blocked BY <1>3, <1>4
<1>6. told[s] \in Nat /\ told[s] <= coordinator[s].blocked /\ coordinator[s].blocked \in Nat /\ q.blocked \in Nat
  BY <1>1, <1>3 DEF QuotaInv, Coordinators
<1>7. k \in Requests /\ k.pc = pc
  <2>1. pc \in {"ready", "io", "over"} OBVIOUS
  <2>2. client[c].attempts \in Nat BY <1>1 DEF Requests
  <2> HIDE DEF pc
  <2>3. attempts \in Nat BY <2>2
  <2> HIDE DEF attempts
  <2> QED BY <1>1, <2>1, <2>3 DEF Requests
<1>8. /\ client' = [client EXCEPT ![c] = k] /\ coordinator' = [coordinator EXCEPT ![s] = p]
      /\ pinned' = pinned \cup {s} /\ told' = told
  BY <1>1 DEF Admit, q
<1>9. pc = "io" => told[s] = 0 BY <1>3, <1>6
<1>10. told' = [told EXCEPT ![s] = told[s]] BY <1>1, <1>8
<1> HIDE DEF k, p, pc, s
<1>11. told[s] <= p.blocked BY <1>3, <1>5, <1>6
<1> QED BY <1>1, <1>5, <1>6, <1>7, <1>8, <1>9, <1>10, <1>11, ScopeStep DEF s

LEMMA ReadStep ==
  ASSUME QuotaInv, NEW c \in Clients, Read(c)
  PROVE  QuotaInv' /\ \A d \in Clients : Honours(d)
<1> USE QuotaAssumption
<1> DEFINE s == ScopeOf[c]
           r == client[c].reply
           q == Observed(Touched(coordinator[s]), r)
           p == IF r.after = Unknown THEN q ELSE StoodOff(q, r)
           pc == IF r.after # Unknown /\ client[c].attempts < MaxAttempts THEN "ready" ELSE "over"
           attempts == IF pc = "over" THEN 0 ELSE client[c].attempts
           k == [client[c] EXCEPT !.pc = pc, !.reply = NoReply, !.attempts = attempts]
           n == Later(told[s], r.after)
<1>1. /\ coordinator[s] \in Coordinators /\ client[c] \in Requests /\ told \in [Scopes -> Nat] /\ s \in Scopes
      /\ client \in [Clients -> Requests] /\ r \in Replies /\ r.after \in Int
  BY DEF QuotaInv, Requests, Replies, Ticks, Unknown
<1>2. Touched(coordinator[s]) \in Coordinators /\ Touched(coordinator[s]).blocked = coordinator[s].blocked
  BY <1>1, AdmittingLonger
<1>3. q \in Coordinators /\ q.blocked >= coordinator[s].blocked BY <1>1, <1>2, ObservedLonger
<1> HIDE DEF q
<1>4. StoodOff(q, r) \in Coordinators /\ StoodOff(q, r).blocked >= q.blocked /\ StoodOff(q, r).blocked > r.after
  BY <1>1, <1>3, BlockedLonger DEF StoodOff
<1>5. told[s] \in Nat /\ told[s] <= coordinator[s].blocked /\ coordinator[s].blocked \in Nat /\ q.blocked \in Nat
      /\ StoodOff(q, r).blocked \in Nat
  BY <1>1, <1>3, <1>4 DEF QuotaInv, Coordinators
<1>6. p \in Coordinators /\ n \in Nat /\ n <= p.blocked
  <2>1. CASE r.after = Unknown BY <1>1, <1>3, <1>5, <2>1 DEF Later, Unknown
  <2>2. CASE r.after # Unknown BY <1>1, <1>3, <1>4, <1>5, <2>2 DEF Later
  <2> QED BY <2>1, <2>2
<1>7. k \in Requests /\ k.pc = pc
  <2>1. NoReply \in Replies BY DEF NoReply, Replies, Ticks, Unknown
  <2> QED BY <1>1, <2>1 DEF Requests
<1>8. /\ client' = [client EXCEPT ![c] = k] /\ coordinator' = [coordinator EXCEPT ![s] = p]
      /\ pinned' = pinned \cup {s} /\ told' = [told EXCEPT ![s] = n] /\ client[c].pc = "reply"
  BY <1>1 DEF Read, q
<1> HIDE DEF k, p, pc, s, n
<1> QED BY <1>6, <1>7, <1>8, ScopeStep DEF s

\* Only the request moves.
LEMMA RequestStep ==
  ASSUME QuotaInv, NEW c \in Clients, Answer(c) \/ TransportFails(c)
  PROVE  QuotaInv' /\ \A d \in Clients : Honours(d)
<1> USE QuotaAssumption
<1>1. client \in [Clients -> Requests] /\ client[c].pc = "io" /\ UNCHANGED <<coordinator, pinned, told>>
  BY DEF QuotaInv, Answer, TransportFails
<1>2. client' \in [Clients -> Requests] /\ \A d \in Clients : d # c => client'[d] = client[d]
  <2>1. CASE TransportFails(c) BY <1>1, <2>1 DEF TransportFails, Requests
  <2>2. CASE Answer(c)
    <3>1. PICK r \in [remaining : {Unknown} \cup 0..MaxQuota, reset : {Unknown} \cup Delays,
                      cost : 1..MaxCost, after : {Unknown} \cup Delays] :
            client' = [client EXCEPT ![c].pc = "reply", ![c].reply = r]
      BY <2>2 DEF Answer
    <3>2. r = [remaining |-> r.remaining, reset |-> r.reset, cost |-> r.cost, after |-> r.after]
          /\ r.remaining \in Int /\ r.reset \in Ticks /\ r.cost \in Int /\ r.after \in Ticks
      <4>1. Unknown \in Int BY DEF Unknown
      <4>2. 0..MaxQuota \subseteq Int /\ 1..MaxCost \subseteq Int OBVIOUS
      <4> QED BY <4>1, <4>2 DEF Ticks
    <3>3. r \in Replies BY <3>2 DEF Replies
    <3> QED BY <1>1, <3>1, <3>3 DEF Requests
  <2> QED BY <2>1, <2>2
<1> QED BY <1>1, <1>2 DEF QuotaInv, Honours

LEMMA TickStep ==
  ASSUME QuotaInv, Tick
  PROVE  QuotaInv' /\ \A d \in Clients : Honours(d)
<1> USE QuotaAssumption
<1> DEFINE Sooner(n) == IF n > 0 THEN n - 1 ELSE n
           After(s) == [coordinator[s] EXCEPT !.reset = Sooner(coordinator[s].reset), !.blocked = Sooner(coordinator[s].blocked),
                         !.next = Sooner(coordinator[s].next), !.stagger = Sooner(coordinator[s].stagger),
                         !.idle = Sooner(coordinator[s].idle)]
<1>1. coordinator \in [Scopes -> Coordinators] /\ client \in [Clients -> Requests] /\ told \in [Scopes -> Nat]
  BY DEF QuotaInv
<1>2. (\A n \in Nat : Sooner(n) \in Nat) /\ (\A n \in Ticks : Sooner(n) \in Ticks) BY DEF Ticks, Unknown
<1>3. \A s \in Scopes : After(s) \in Coordinators /\ After(s).blocked = Sooner(coordinator[s].blocked)
  <2> TAKE s \in Scopes
  <2>1. /\ coordinator[s] \in Coordinators /\ Sooner(coordinator[s].reset) \in Ticks /\ Sooner(coordinator[s].blocked) \in Nat
        /\ Sooner(coordinator[s].next) \in Nat /\ Sooner(coordinator[s].stagger) \in Nat /\ Sooner(coordinator[s].idle) \in Nat
    BY <1>1, <1>2 DEF Coordinators
  <2> HIDE DEF Sooner
  <2> QED BY <2>1 DEF Coordinators
<1>4. coordinator' = [s \in Scopes |-> IF s \notin pinned \cup Held THEN Fresh ELSE After(s)]
  BY <1>1 DEF Tick, Coordinators
<1>5. told' = [s \in Scopes |-> Sooner(told[s])] /\ pinned' = pinned BY DEF Tick
<1>6. client' \in [Clients -> Requests] /\ \A d \in Clients : client'[d].pc = client[d].pc
  <2>1. client' = [c \in Clients |-> [client[c] EXCEPT !.reply.reset = Sooner(client[c].reply.reset)]]
    BY <1>1 DEF Tick, Requests, Replies
  <2>2. \A c \in Clients : /\ [client[c] EXCEPT !.reply.reset = Sooner(client[c].reply.reset)] \in Requests
                           /\ [client[c] EXCEPT !.reply.reset = Sooner(client[c].reply.reset)].pc = client[c].pc
    <3> TAKE c \in Clients
    <3>1. client[c] \in Requests /\ client[c].reply \in Replies /\ Sooner(client[c].reply.reset) \in Ticks
      BY <1>1, <1>2 DEF Requests, Replies
    <3> HIDE DEF Sooner
    <3>2. [client[c].reply EXCEPT !.reset = Sooner(client[c].reply.reset)] \in Replies BY <3>1 DEF Replies
    <3> QED BY <3>1, <3>2 DEF Requests
  <2> QED BY <2>1, <2>2
<1>7. \A s \in Scopes : told'[s] \in Nat /\ told'[s] <= coordinator'[s].blocked /\ (told'[s] > 0 => s \in pinned')
  <2> TAKE s \in Scopes
  <2>1. told[s] \in Nat /\ told[s] <= coordinator[s].blocked /\ coordinator[s].blocked \in Nat /\ (told[s] > 0 => s \in pinned)
    BY <1>1 DEF QuotaInv, Coordinators
  <2>2. CASE s \in pinned \cup Held
    <3> coordinator'[s].blocked = Sooner(coordinator[s].blocked) BY <1>3, <1>4, <2>2
    <3> QED BY <1>5, <2>1
  <2>3. CASE s \notin pinned \cup Held
    <3>1. coordinator'[s] = Fresh BY <1>4, <2>3
    <3>2. told[s] = 0 BY <2>1, <2>3
    <3>3. told'[s] = 0 BY <1>5, <3>2
    <3> QED BY <3>1, <3>3, FreshTyped
  <2> QED BY <2>2, <2>3
<1>8. coordinator' \in [Scopes -> Coordinators]
  <2> HIDE DEF After
  <2> QED BY <1>3, <1>4, FreshTyped
<1>9. told' \in [Scopes -> Nat] BY <1>5, <1>7
<1> QED BY <1>6, <1>7, <1>8, <1>9 DEF QuotaInv, Honours

LEMMA QuotaSteps ==
  ASSUME QuotaInv, [QuotaNext]_quotaVars
  PROVE  QuotaInv' /\ \A c \in Clients : Honours(c)
<1>1. CASE UNCHANGED quotaVars BY <1>1 DEF quotaVars, QuotaInv, Honours
<1> QED BY <1>1, OpenStep, AdmitStep, ReadStep, RequestStep, TickStep DEF QuotaNext, ClientStep

\* No request of a scope is sent before the moment a throttling server named,
\* for any clients and scopes, whatever the order in which replies are read
\* and coordinators are forgotten.
THEOREM HonouredTheorem == QuotaSpec => RetryAfterHonoured
<1> USE QuotaStarts, QuotaSteps
<1>1. QuotaSpec => []QuotaInv BY PTL DEF QuotaSpec
<1>2. QuotaInv /\ [QuotaNext]_quotaVars =>
        [\A c \in Clients : client[c].pc = "ready" /\ client'[c].pc = "io" => told[ScopeOf[c]] = 0]_quotaVars
  BY DEF Honours
<1> QED BY <1>1, <1>2, PTL DEF QuotaSpec, RetryAfterHonoured
=============================================================================
