-------------------------- MODULE SummaryGeneration --------------------------
(***************************************************************************)
(* The card summary of a repository's content: the reuse cache and its     *)
(* single flights, the generation with one repair, the attempts at the     *)
(* provider under the job's deadline, and the fallback that is deferred    *)
(* when the provider is not available.  The provider's admission, the      *)
(* subject of SummaryAdmission, answers here as it likes, and so does the  *)
(* validation of what the provider wrote.  A content stands for everything *)
(* its reuse key hashes.                                                   *)
(***************************************************************************)
EXTENDS Integers, SequencesExt

CONSTANTS Jobs, Contents,
          Unkeyed,        \* contents too large for a reuse key
          Unread,         \* contents that exceed the source analysis
          Deadlines, NoDeadline,
          Reserve,        \* SUMMARY_COMPLETION_RESERVE_SECONDS
          Attempts,       \* max_retries + 1
          MaxEntries, MaxInflight, DeferTicks,
          MaxSummaryTime  \* bound: where the clock stops

NoOwner == "nobody"
ASSUME SummaryAssumption ==
  /\ Unkeyed \cup Unread \subseteq Contents /\ Contents # {} /\ Deadlines \subseteq Nat
  /\ NoDeadline \notin Deadlines /\ NoOwner \notin Jobs
  /\ {Attempts, MaxEntries, MaxInflight, DeferTicks} \subseteq Nat \ {0} /\ Reserve \in Nat

VARIABLES
  time,
  job,      \* job -> stage, content, deadline, repair round, attempt, result
  flights,  \* content -> the job that leads its flight, or nobody
  future,   \* job -> what it published for those who joined its flight
  works,    \* the reuse cache, oldest first: [content, kept], kept a summary
  deferral, \* content -> until when its fallback is kept
  permit    \* job -> whether it holds a permit it has not reported

summaryVars == <<time, job, flights, future, works, deferral, permit>>

Pending == "pending"

SummaryInit ==
  /\ time = 0 /\ works = <<>>
  /\ job = [j \in Jobs |-> [at |-> "idle", content |-> CHOOSE c \in Contents : TRUE, deadline |-> NoDeadline,
                            round |-> 1, attempt |-> 1, leader |-> j, result |-> "none"]]
  /\ flights = [c \in Contents |-> NoOwner] /\ future = [j \in Jobs |-> Pending]
  /\ deferral = [c \in Contents |-> 0] /\ permit = [j \in Jobs |-> FALSE]

JobAt(j, stages) == job[j].at \in stages
Content(j) == job[j].content
JobMoves(j, stage) == job' = [job EXCEPT ![j].at = stage]
Answers(j, result) == job' = [job EXCEPT ![j].at = "answered", ![j].result = result]

\* Time that cannot consume what the job still has to do.
Budgeted(j) == job[j].deadline = NoDeadline \/ time + Reserve < job[j].deadline
Beyond(j) == job[j].deadline # NoDeadline /\ time > job[j].deadline

---------------------------------------------------------------------------
(* summarize() and the reuse cache *)

\* A deferred fallback is answered at once, and an unkeyed content generated
\* without a flight.
BeginJob(j) ==
  /\ JobAt(j, {"idle"})
  /\ \E c \in Contents, d \in Deadlines \cup {NoDeadline} :
       job' = [job EXCEPT ![j].content = c, ![j].deadline = d,
                 ![j].at = IF deferral[c] > time THEN "answered" ELSE IF c \in Unkeyed THEN "generate" ELSE "start",
                 ![j].result = IF deferral[c] > time THEN "fallback" ELSE "none"]
  /\ UNCHANGED <<time, flights, future, works, deferral, permit>>

InFlight == {c \in Contents : flights[c] # NoOwner}

Join(j) ==
  /\ JobAt(j, {"start"})
  /\ IF flights[Content(j)] # NoOwner
     THEN /\ job' = [job EXCEPT ![j].at = "follow", ![j].leader = flights[Content(j)]]
          /\ UNCHANGED flights
     ELSE IF Cardinality(InFlight) >= MaxInflight
     THEN Answers(j, "fallback") /\ UNCHANGED flights
     ELSE flights' = [flights EXCEPT ![Content(j)] = j] /\ JobMoves(j, "lookup")
  /\ UNCHANGED <<time, future, works, deferral, permit>>

\* A follower takes what the leader published, its error included, or falls
\* back when only its own reserve is left.
Follow(j) ==
  /\ JobAt(j, {"follow"})
  /\ \/ future[job[j].leader] # Pending /\ Answers(j, future[job[j].leader])
     \/ future[job[j].leader] = Pending /\ (~Budgeted(j) \/ job[j].deadline = NoDeadline) /\ Answers(j, "fallback")
  /\ UNCHANGED <<time, flights, future, works, deferral, permit>>

Work(c) == {w \in ToSet(works) : w.content = c}
Kept(c) == \E w \in Work(c) : w.kept
Others(c) == LET at == {k \in DOMAIN works : works[k].content = c}
             IN  IF at = {} THEN works ELSE RemoveAt(works, CHOOSE k \in at : TRUE)
Trimmed(entries) == SubSeq(entries, 1 + (IF Len(entries) > MaxEntries THEN Len(entries) - MaxEntries ELSE 0), Len(entries))
Put(c, kept) == works' = Trimmed(Append(Others(c), [content |-> c, kept |-> kept]))

\* The analysis of the source is looked up, or made and kept; a summary kept
\* with it is the answer.
Lookup(j) ==
  /\ JobAt(j, {"lookup"})
  /\ Put(Content(j), Kept(Content(j)))
  /\ IF Kept(Content(j)) THEN job' = [job EXCEPT ![j].at = "publish", ![j].result = "generated"]
     ELSE JobMoves(j, "generate")
  /\ UNCHANGED <<time, flights, future, deferral, permit>>

\* Whoever leads a flight keeps a generated summary before it publishes it,
\* and publishes before the flight ends.
Resolved(j, result) ==
  job' = [job EXCEPT ![j].result = result,
            ![j].at = IF Content(j) \in Unkeyed THEN "answered"
                      ELSE IF result = "generated" THEN "keep" ELSE "publish"]

Keep(j) ==
  /\ JobAt(j, {"keep"}) /\ Put(Content(j), TRUE) /\ JobMoves(j, "publish")
  /\ UNCHANGED <<time, flights, future, deferral, permit>>

PublishResult(j) ==
  /\ JobAt(j, {"publish"}) /\ future' = [future EXCEPT ![j] = job[j].result] /\ JobMoves(j, "end")
  /\ UNCHANGED <<time, flights, works, deferral, permit>>

EndFlight(j) ==
  /\ JobAt(j, {"end"}) /\ flights' = [flights EXCEPT ![Content(j)] = NoOwner] /\ JobMoves(j, "answered")
  /\ UNCHANGED <<time, future, works, deferral, permit>>

---------------------------------------------------------------------------
(* _generate(): one attempt and one repair *)

Round(j) ==
  /\ JobAt(j, {"generate"})
  /\ IF Content(j) \in Unread \/ job[j].round > 2 \/ Beyond(j) THEN Resolved(j, "fallback")
     ELSE job' = [job EXCEPT ![j].at = "ask", ![j].attempt = 1]
  /\ UNCHANGED <<time, flights, future, works, deferral, permit>>

\* The provider is not available: the fallback is kept for a while, unless
\* only the job's own time had run out.
FallBack(j, defer) ==
  /\ Resolved(j, "fallback")
  /\ deferral' = IF defer THEN [deferral EXCEPT ![Content(j)] = time + DeferTicks] ELSE deferral

\* An attempt asks for admission once it has the time for it.
AcquirePermit(j) ==
  /\ JobAt(j, {"ask"})
  /\ IF ~Budgeted(j) THEN FallBack(j, FALSE) /\ UNCHANGED permit
     ELSE \/ FallBack(j, TRUE) /\ UNCHANGED permit
          \/ permit' = [permit EXCEPT ![j] = TRUE] /\ JobMoves(j, "permit") /\ UNCHANGED deferral
  /\ UNCHANGED <<time, flights, future, works>>

Reported(j) == permit' = [permit EXCEPT ![j] = FALSE]

\* The admission took time too; an attempt without any left is abandoned.
SendPrompt(j) ==
  /\ JobAt(j, {"permit"})
  /\ IF Budgeted(j) THEN JobMoves(j, "sent") /\ UNCHANGED <<deferral, permit>>
     ELSE Reported(j) /\ FallBack(j, FALSE)
  /\ UNCHANGED <<time, flights, future, works>>

\* The transport fails, or the provider asks to try again: so it is while an
\* attempt is left and the delay asked for is within the budget.
Retry(j) ==
  /\ JobAt(j, {"sent"}) /\ job[j].attempt < Attempts
  /\ Reported(j) /\ job' = [job EXCEPT ![j].at = "ask", ![j].attempt = @ + 1]
  /\ UNCHANGED <<time, flights, future, works, deferral>>

\* The last attempt fails, or with an answer that is not worth another one.
Refuse(j) ==
  /\ JobAt(j, {"sent"}) /\ Reported(j) /\ FallBack(j, TRUE)
  /\ UNCHANGED <<time, flights, future, works>>

\* The provider wrote something: it is valid beside the whole source, or the
\* next round asks for a repair.
WriteSummary(j) ==
  /\ JobAt(j, {"sent"}) /\ Reported(j)
  /\ \/ Resolved(j, "generated")
     \/ job' = [job EXCEPT ![j].at = "generate", ![j].round = @ + 1]
  /\ UNCHANGED <<time, flights, future, works, deferral>>

\* What nobody expected is raised, and the followers get it too.
\* Mutant: the flight of a leader that raised is left behind.
RaiseLeaving(j) ==
  /\ JobAt(j, {"lookup", "generate", "keep"}) /\ flights[Content(j)] = j
  /\ future' = [future EXCEPT ![j] = "error"] /\ Answers(j, "error")
  /\ UNCHANGED <<time, flights, works, deferral, permit>>
Raise(j) ==
  /\ JobAt(j, {"lookup", "generate", "keep"}) /\ flights[Content(j)] = j
  /\ job' = [job EXCEPT ![j].at = "publish", ![j].result = "error"]
  /\ UNCHANGED <<time, flights, future, works, deferral, permit>>

\* The transport ends a request when its budget does.
Pass ==
  /\ time < MaxSummaryTime /\ time' = time + 1
  /\ \A j \in Jobs : JobAt(j, {"sent"}) => Budgeted(j)
  /\ UNCHANGED <<job, flights, future, works, deferral, permit>>

SummaryStep(j) ==
  \/ BeginJob(j) \/ Join(j) \/ Follow(j) \/ Lookup(j) \/ Keep(j) \/ PublishResult(j) \/ EndFlight(j)
  \/ Round(j) \/ AcquirePermit(j) \/ SendPrompt(j) \/ Retry(j) \/ Refuse(j) \/ WriteSummary(j) \/ Raise(j)
SummaryNext == Pass \/ \E j \in Jobs : SummaryStep(j)

---------------------------------------------------------------------------
(* Properties *)

Generating(j) == JobAt(j, {"generate", "ask", "permit", "sent", "keep"})
Leading(j) == Generating(j) \/ JobAt(j, {"lookup", "publish", "end"})

\* A content is paid for once: no two jobs generate it together, nobody
\* generates what the cache keeps, and every flight has a leader at work, or
\* all who come later would wait for a summary nobody writes.
PaidOnce ==
  \A c \in Contents \ Unkeyed :
    /\ \A i, j \in Jobs : Generating(i) /\ Generating(j) /\ Content(i) = c /\ Content(j) = c => i = j
    /\ Kept(c) => \A j \in Jobs : JobAt(j, {"generate", "ask", "permit", "sent"}) => Content(j) # c
    /\ flights[c] # NoOwner => Leading(flights[c]) /\ Content(flights[c]) = c

\* A request to the provider is never begun in the reserve the rest of the
\* job needs, whatever was waited for before it; each permit is reported; a
\* source that was not analysed whole is never summarised, by a flight or
\* out of the cache; and who joined a flight got what its leader published.
SummaryHonest ==
  \A j \in Jobs :
    /\ JobAt(j, {"sent"}) => Budgeted(j) \/ time + Reserve = job[j].deadline
    /\ permit[j] => JobAt(j, {"permit", "sent"})
    /\ job[j].result = "generated" => Content(j) \notin Unread
    /\ JobAt(j, {"answered"}) /\ job[j].leader # j => job[j].result \in {"fallback", future[job[j].leader]}

\* A content is paid for once however many jobs want it; the provider is asked
\* only in time, a summary is only of a source that was read whole, and who
\* follows another job's generation has what it published, or the fallback.
SummariesSound == PaidOnce /\ SummaryHonest
=============================================================================
