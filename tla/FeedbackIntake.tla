----------------------------- MODULE FeedbackIntake -----------------------------
(***************************************************************************)
(* POST /feedback/batch from its credential to its answer: a worker runs   *)
(* the acceptance script once per event, one call each or in one pipeline, *)
(* while the handler waits no longer than its deadline and the caller      *)
(* sends a refused batch again.                                            *)
(***************************************************************************)
EXTENDS Integers, Sequences, FiniteSets

CONSTANTS IntakeCallers, IntakeWorkers,
          Ids, Payloads,
          CallerBatches,    \* caller -> the batches it may send: sequences of <<id, payload>>
          StreamMax,
          MaxIntakeFaults,  \* bound: lost calls, failed XADDs, expired keys and deadlines
          MaxSends          \* bound: how often one caller sends

NoPayload == "none"
ASSUME IntakeAssumption ==
  /\ NoPayload \notin Payloads /\ StreamMax \in Nat \ {0} /\ {MaxIntakeFaults, MaxSends} \subseteq Nat
  /\ \A c \in IntakeCallers : \A b \in CallerBatches[c] : b # <<>> /\ b \in Seq(Ids \X Payloads)
  /\ \A c \in IntakeCallers : \A b \in CallerBatches[c] : \A j, k \in DOMAIN b : j # k => b[j][1] # b[k][1]

VARIABLES
  intake,   \* Redis: the accepted keys and the stream
  callers,  \* each caller: waiting or not, its batch, its worker, its answer, how often it sent
  posts,    \* each worker: its batch, the next event, the results, how it calls, whether it was cut off
  faulted,  \* how many faults there were
  added     \* history: id -> the payloads added to the stream, and the keys expired

intakeVars == <<intake, callers, posts, faulted, added>>

Free == [batch |-> <<>>, k |-> 1, results |-> <<>>, piped |-> FALSE, cut |-> FALSE]
NoReply == [status |-> 0, retryable |-> FALSE, failed |-> NoPayload, accepted |-> 0, duplicates |-> 0]
IntakeInit ==
  /\ intake = [keys |-> [i \in Ids |-> NoPayload], stream |-> <<>>]
  /\ callers = [c \in IntakeCallers |-> [waits |-> FALSE, batch |-> <<>>, worker |-> NoPayload, reply |-> NoReply, sends |-> 0]]
  /\ posts = [w \in IntakeWorkers |-> Free]
  /\ faulted = 0 /\ added = [payloads |-> [i \in Ids |-> <<>>], expired |-> [i \in Ids |-> 0]]

Fault == faulted < MaxIntakeFaults /\ faulted' = faulted + 1

---------------------------------------------------------------------------
(* submit_feedback() *)

Answered(status, retryable, results, failed) ==
  [status |-> status, retryable |-> retryable, failed |-> failed,
   accepted |-> Cardinality({k \in DOMAIN results : results[k] = "accepted"}),
   duplicates |-> Cardinality({k \in DOMAIN results : results[k] = "duplicate"})]
UnavailableAnswer(results) == Answered(503, TRUE, results, NoPayload)

\* What was answered with a retryable refusal is sent again, as it was; a
\* process without its secret, or a caller without it, is turned away.
Sendable(c) ==
  IF callers[c].reply.retryable THEN {callers[c].batch} ELSE IF callers[c].sends = 0 THEN CallerBatches[c] ELSE {}
Idle(w) == posts[w] = Free
SendBatch(c) ==
  /\ ~callers[c].waits /\ callers[c].sends < MaxSends
  /\ \E batch \in Sendable(c) :
       LET sent == [waits |-> TRUE, batch |-> batch, worker |-> NoPayload, reply |-> NoReply, sends |-> callers[c].sends + 1]
       IN  IF \E w \in IntakeWorkers : Idle(w)
           THEN \E w \in {v \in IntakeWorkers : Idle(v)}, piped \in BOOLEAN :
                  /\ callers' = [callers EXCEPT ![c] = [sent EXCEPT !.worker = w]]
                  /\ posts' = [posts EXCEPT ![w] = [Free EXCEPT !.batch = batch, !.piped = piped /\ Len(batch) > 1]]
           ELSE \* no slot: the feedback capacity is unavailable
                callers' = [callers EXCEPT ![c] = [sent EXCEPT !.waits = FALSE, !.reply = UnavailableAnswer(<<>>)]] /\ UNCHANGED posts
  /\ UNCHANGED <<intake, faulted, added>>

\* The handler's deadline: the worker goes on with nobody to answer.
Expire(c) ==
  /\ callers[c].waits /\ Fault
  /\ callers' = [callers EXCEPT ![c].waits = FALSE, ![c].worker = NoPayload, ![c].reply = UnavailableAnswer(<<>>)]
  /\ UNCHANGED <<intake, posts, added>>

---------------------------------------------------------------------------
(* ACCEPT_LUA and DurableFeedbackProducer.enqueue() *)

Verdict(event) ==
  LET key == intake.keys[event[1]] IN
  IF key = event[2] THEN "duplicate"
  ELSE IF key # NoPayload THEN "conflict"
  ELSE IF Len(intake.stream) >= StreamMax THEN "overloaded" ELSE "accepted"

\* The key is set, the event is added; where that fails the key goes again.
\* Mutant: the key stays.
RunKeeping(event, verdict) ==
  CASE verdict = "accepted" ->
         /\ intake' = [keys |-> [intake.keys EXCEPT ![event[1]] = event[2]], stream |-> Append(intake.stream, event)]
         /\ added' = [added EXCEPT !.payloads[event[1]] = Append(@, event[2])]
    [] verdict = "failed" -> intake' = [intake EXCEPT !.keys[event[1]] = event[2]] /\ UNCHANGED added
    [] OTHER -> UNCHANGED <<intake, added>>
Run(event, verdict) ==
  IF verdict = "accepted"
  THEN /\ intake' = [keys |-> [intake.keys EXCEPT ![event[1]] = event[2]], stream |-> Append(intake.stream, event)]
       /\ added' = [added EXCEPT !.payloads[event[1]] = Append(@, event[2])]
  ELSE UNCHANGED <<intake, added>>

Going(w) == posts[w].batch # <<>> /\ posts[w].k <= Len(posts[w].batch)
Upcoming(w) == posts[w].batch[posts[w].k]
Fine == {"accepted", "duplicate"}
\* One call each stops at the first refusal; a pipeline runs them all.
Stopped(p) == ~p.piped /\ p.results # <<>> /\ p.results[Len(p.results)] \notin Fine

Accept(w) ==
  /\ Going(w) /\ ~Stopped(posts[w])
  /\ \E verdict \in {Verdict(Upcoming(w)), "failed"} :
       /\ IF verdict = "failed" THEN Verdict(Upcoming(w)) = "accepted" /\ Fault ELSE UNCHANGED faulted
       /\ Run(Upcoming(w), verdict)
       /\ posts' = [posts EXCEPT ![w].k = @ + 1, ![w].results = Append(@, verdict)]
  /\ UNCHANGED callers

\* The connection is lost with calls under way: the producer gives up, and
\* what had left for Redis may still run there.
LosePipeline(w) ==
  /\ Going(w) /\ ~posts[w].cut /\ ~Stopped(posts[w]) /\ Fault
  /\ posts' = [posts EXCEPT ![w].cut = TRUE, ![w].batch = IF posts[w].piped THEN @ ELSE SubSeq(@, 1, posts[w].k)]
  /\ callers' = [c \in IntakeCallers |->
       IF callers[c].waits /\ callers[c].worker = w
       THEN [callers[c] EXCEPT !.waits = FALSE, !.worker = NoPayload,
               !.reply = UnavailableAnswer(IF posts[w].piped THEN <<>> ELSE posts[w].results)]
       ELSE callers[c]]
  /\ UNCHANGED <<intake, added>>
Vanish(w) ==
  /\ posts[w].cut /\ posts' = [posts EXCEPT ![w] = Free]
  /\ UNCHANGED <<intake, callers, faulted, added>>

\* The outcome of a batch: a conflict before a full stream before a failure.
Firstly(p, result) == LET at == {k \in DOMAIN p.results : p.results[k] = result}
                      IN  p.batch[CHOOSE k \in at : \A j \in at : k <= j][1]
Outcome(p) ==
  LET Any(r) == \E k \in DOMAIN p.results : p.results[k] = r IN
  IF Any("conflict") THEN Answered(409, FALSE, p.results, Firstly(p, "conflict"))
  ELSE IF Any("overloaded") \/ Any("failed") THEN UnavailableAnswer(p.results)
  ELSE Answered(202, FALSE, p.results, NoPayload)

Finish(w) ==
  /\ posts[w].batch # <<>> /\ ~posts[w].cut /\ (~Going(w) \/ Stopped(posts[w]))
  /\ posts' = [posts EXCEPT ![w] = Free]
  /\ callers' = [c \in IntakeCallers |->
       IF callers[c].waits /\ callers[c].worker = w
       THEN [callers[c] EXCEPT !.waits = FALSE, !.worker = NoPayload, !.reply = Outcome(posts[w])] ELSE callers[c]]
  /\ UNCHANGED <<intake, faulted, added>>

\* The lane takes an event, and deletes it as it acknowledges it.
Consume ==
  /\ intake.stream # <<>> /\ intake' = [intake EXCEPT !.stream = Tail(@)]
  /\ UNCHANGED <<callers, posts, faulted, added>>
KeyExpires(i) ==
  /\ intake.keys[i] # NoPayload /\ Fault
  /\ intake' = [intake EXCEPT !.keys[i] = NoPayload] /\ added' = [added EXCEPT !.expired[i] = @ + 1]
  /\ UNCHANGED <<callers, posts>>

IntakeNext ==
  \/ \E c \in IntakeCallers : SendBatch(c) \/ Expire(c)
  \/ \E w \in IntakeWorkers : Accept(w) \/ LosePipeline(w) \/ Vanish(w) \/ Finish(w)
  \/ Consume \/ \E i \in Ids : KeyExpires(i)

---------------------------------------------------------------------------
(* Properties *)

\* Whatever is lost, late or sent again, an event enters the stream once for
\* each life of its key, and the stream keeps its bound.
AddedOnce ==
  /\ \A i \in Ids : Len(added.payloads[i]) <= 1 + added.expired[i]
  /\ Len(intake.stream) <= StreamMax

\* An acknowledged batch is durable, every event of it with its own payload;
\* a refusal as a conflict names an event whose id really is another's, and
\* nothing is counted that did not happen.
AcknowledgedDurable ==
  \A c \in IntakeCallers :
    LET call == callers[c] reply == call.reply
        Added(event) == \E k \in DOMAIN added.payloads[event[1]] : added.payloads[event[1]][k] = event[2]
        other == {k \in DOMAIN call.batch : call.batch[k][1] = reply.failed}
    IN  /\ reply.status = 202 => /\ \A k \in DOMAIN call.batch : Added(call.batch[k])
                                 /\ reply.accepted + reply.duplicates = Len(call.batch)
        /\ reply.status = 409 => /\ \E k \in other : \E p \in Payloads \ {call.batch[k][2]} : Added(<<reply.failed, p>>)
                                 /\ reply.accepted + reply.duplicates < Len(call.batch)

IntakeSound == AddedOnce /\ AcknowledgedDurable
=============================================================================
