--------------------------- MODULE UserScheduler ---------------------------
(***************************************************************************)
(* One feedback consumer process: the poll loop of OrderedFeedbackConsumer *)
(* (run_once, close) over UserFeedbackScheduler, whose threads serve one   *)
(* bounded lane per user, round robin.  Redis keeps every unacknowledged   *)
(* message, so a message the scheduler drops is only delivered later.      *)
(*                                                                         *)
(* A with-block on the condition variable is one step; process(work) runs  *)
(* outside it, between Enter and Finish.                                   *)
(***************************************************************************)
EXTENDS Integers, Sequences, FiniteSets, SequencesExt

CONSTANTS Threads, Users, Messages,
          Owner,      \* message -> its user
          Capacity,   \* messages queued and executing
          NoWork

ASSUME SchedulerAssumption ==
  /\ Owner \in [Messages -> Users]
  /\ Capacity \in Nat /\ Capacity >= Cardinality(Threads)
  /\ NoWork \notin Messages

VARIABLES
  queues,    \* user -> its waiting work
  ready,     \* the users whose lane waits for a thread, in turn order
  active,    \* the users whose lane a thread serves
  ids,       \* messages queued or executing
  closed,
  thread,    \* thread -> [pc, work, ok]
  unacked,   \* Redis: messages delivered and not acknowledged
  stopped,   \* the admission stop event
  poll,      \* run_once, by where it stands; serial is wait=True
  shutdown,  \* close(), by where it stands
  passed     \* history: work still held though its predecessor's turn failed

lanes == <<queues, ready, active, ids>>
vars  == <<lanes, closed, thread, unacked, stopped, poll, shutdown, passed>>

Waiting == [pc |-> "wait", work |-> NoWork, ok |-> FALSE]

Init ==
  /\ queues = [u \in Users |-> <<>>] /\ ready = <<>>
  /\ active = {} /\ ids = {} /\ closed = FALSE
  /\ thread = [t \in Threads |-> Waiting]
  /\ unacked = Messages
  /\ stopped = FALSE /\ poll = "idle" /\ shutdown = "no"
  /\ passed = {}

----------------------------------------------------------------------------
(* UserFeedbackScheduler. *)

LaneLoad(u) == Len(queues[u]) + (IF u \in active THEN 1 ELSE 0)

(* The slip of queueing a lane for a thread although one serves it. *)
SubmitTwice(m) ==
  LET u == Owner[m] IN
  /\ ~closed /\ m \notin ids /\ Cardinality(ids) < Capacity /\ LaneLoad(u) < 2
  /\ queues' = [queues EXCEPT ![u] = Append(@, m)]
  /\ ids' = ids \cup {m}
  /\ ready' = IF Len(queues'[u]) = 1 THEN Append(ready, u) ELSE ready
  /\ UNCHANGED active

submit(m) ==
  LET u == Owner[m] IN
  /\ ~closed /\ m \notin ids /\ Cardinality(ids) < Capacity /\ LaneLoad(u) < 2
  /\ queues' = [queues EXCEPT ![u] = Append(@, m)]
  /\ ids' = ids \cup {m}
  /\ ready' = IF Len(queues'[u]) = 1 /\ u \notin active THEN Append(ready, u) ELSE ready
  /\ UNCHANGED active

Queued == UNION {Range(queues[u]) : u \in Users}

(* close: only unstarted work is dropped. *)
CloseLanes ==
  /\ closed' = TRUE
  /\ ids' = ids \ Queued
  /\ queues' = [u \in Users |-> <<>>]
  /\ ready' = <<>>
  /\ UNCHANGED active

Exited == \A t \in Threads : thread[t].pc = "exit"

(* _worker: take the next lane's oldest work, or leave once closed. *)
Take(t) ==
  LET u == Head(ready) IN
  /\ thread[t].pc = "wait" /\ ready # <<>>
  /\ thread' = [thread EXCEPT ![t] =
                  [pc |-> "enter", work |-> Head(queues[u]), ok |-> FALSE]]
  /\ ready' = Tail(ready)
  /\ queues' = [queues EXCEPT ![u] = Tail(@)]
  /\ active' = active \cup {u}
  /\ UNCHANGED <<ids, closed, unacked, stopped, poll, shutdown, passed>>

Leave(t) ==
  /\ thread[t].pc = "wait" /\ ready = <<>> /\ closed
  /\ thread' = [thread EXCEPT ![t].pc = "exit"]
  /\ UNCHANGED <<lanes, closed, unacked, stopped, poll, shutdown, passed>>

(* The second with-block: a failed turn releases the lane's waiting work   *)
(* to Redis, and a lane with work left goes to the back of the turn order. *)
FinishKeepsLane(t) ==
  LET m == thread[t].work
      u == Owner[m] IN
  /\ thread[t].pc = "done"
  /\ ids' = ids \ {m}
  /\ active' = active \ {u}
  /\ ready' = IF queues[u] = <<>> THEN ready ELSE Append(ready, u)
  /\ thread' = [thread EXCEPT ![t] = Waiting]
  /\ queues' = queues
  /\ passed' = IF thread[t].ok THEN passed ELSE passed \cup Range(queues'[u])
  /\ UNCHANGED <<closed, unacked, stopped, poll, shutdown>>

FinishLeaksIds(t) ==
  LET u == Owner[thread[t].work]
      left == IF thread[t].ok THEN queues[u] ELSE <<>> IN
  /\ thread[t].pc = "done"
  /\ ids' = ids \ {thread[t].work}
  /\ active' = active \ {u}
  /\ queues' = [queues EXCEPT ![u] = left]
  /\ ready' = IF left = <<>> THEN ready ELSE Append(ready, u)
  /\ passed' = IF thread[t].ok THEN passed ELSE passed \cup Range(queues'[u])
  /\ thread' = [thread EXCEPT ![t] = Waiting]
  /\ UNCHANGED <<closed, unacked, stopped, poll, shutdown>>

FinishHotFirst(t) ==
  LET m == thread[t].work
      u == Owner[m]
      left == IF thread[t].ok THEN queues[u] ELSE <<>> IN
  /\ thread[t].pc = "done"
  /\ ids' = (ids \ {m}) \ (IF thread[t].ok THEN {} ELSE Range(queues[u]))
  /\ active' = active \ {u}
  /\ queues' = [queues EXCEPT ![u] = left]
  /\ ready' = IF left = <<>> THEN ready ELSE <<u>> \o ready
  /\ passed' = IF thread[t].ok THEN passed ELSE passed \cup Range(queues'[u])
  /\ thread' = [thread EXCEPT ![t] = Waiting]
  /\ UNCHANGED <<closed, unacked, stopped, poll, shutdown>>

Finish(t) ==
  LET m == thread[t].work
      u == Owner[m]
      left == IF thread[t].ok THEN queues[u] ELSE <<>> IN
  /\ thread[t].pc = "done"
  /\ ids' = (ids \ {m}) \ (IF thread[t].ok THEN {} ELSE Range(queues[u]))
  /\ active' = active \ {u}
  /\ queues' = [queues EXCEPT ![u] = left]
  /\ ready' = IF left = <<>> THEN ready ELSE Append(ready, u)
  /\ passed' = IF thread[t].ok THEN passed ELSE passed \cup Range(queues'[u])
  /\ thread' = [thread EXCEPT ![t] = Waiting]
  /\ UNCHANGED <<closed, unacked, stopped, poll, shutdown>>

----------------------------------------------------------------------------
(* _scheduled_message: nothing starts once admission stopped; what started *)
(* runs to its end, and True means the message was acknowledged.           *)

Enter(t) ==
  /\ thread[t].pc = "enter"
  /\ thread' = [thread EXCEPT ![t].pc = IF stopped THEN "done" ELSE "run"]
  /\ UNCHANGED <<lanes, closed, unacked, stopped, poll, shutdown, passed>>

Process(t) ==
  /\ thread[t].pc = "run"
  /\ \E ok \in BOOLEAN :
       /\ thread' = [thread EXCEPT ![t].pc = "done", ![t].ok = ok]
       /\ unacked' = IF ok THEN unacked \ {thread[t].work} ELSE unacked
  /\ UNCHANGED <<lanes, closed, stopped, poll, shutdown, passed>>

----------------------------------------------------------------------------
(* OrderedFeedbackConsumer.run_once under _poll_lock; CloseConsumer waits  *)
(* for the lock, so it starts only at an idle poll.                        *)

BeginPoll ==
  /\ poll = "idle" /\ shutdown \in {"no", "waiting"} /\ ~stopped
  /\ poll' \in {"live", "serial"}
  /\ UNCHANGED <<lanes, closed, thread, unacked, stopped, shutdown, passed>>

Submit(m) ==
  /\ poll \in {"live", "serial"} /\ ~stopped
  /\ m \in unacked
  /\ submit(m)
  /\ passed' = passed \ {m}
  /\ UNCHANGED <<closed, thread, unacked, stopped, poll, shutdown>>

(* The batch is over, or a Redis call raised: with wait the lanes are      *)
(* drained, or closed at once.                                             *)
EndPoll ==
  /\ \/ poll = "live" /\ poll' = "idle"
     \/ poll = "serial" /\ poll' = "draining"
  /\ UNCHANGED <<lanes, closed, thread, unacked, stopped, shutdown, passed>>

Drained ==
  /\ poll = "draining" /\ ids = {}
  /\ CloseLanes
  /\ poll' = "joining"
  /\ UNCHANGED <<thread, unacked, stopped, shutdown, passed>>

PollFails ==
  /\ poll = "serial"
  /\ CloseLanes
  /\ poll' = "joining"
  /\ UNCHANGED <<thread, unacked, stopped, shutdown, passed>>

(* The scheduler is discarded; the next poll makes another one. *)
Joined ==
  /\ poll = "joining" /\ Exited
  /\ closed' = FALSE
  /\ thread' = [t \in Threads |-> Waiting]
  /\ poll' = "idle"
  /\ UNCHANGED <<lanes, unacked, stopped, shutdown, passed>>

(* Redis: a later message, under the identity of an acknowledged one. *)
Arrive(m) ==
  /\ m \notin unacked \cup ids
  /\ unacked' = unacked \cup {m}
  /\ UNCHANGED <<lanes, closed, thread, stopped, poll, shutdown, passed>>

StopAdmission ==
  /\ ~stopped /\ stopped' = TRUE
  /\ UNCHANGED <<lanes, closed, thread, unacked, poll, shutdown, passed>>

BeginClose ==
  /\ shutdown = "no"
  /\ stopped' = TRUE /\ shutdown' = "waiting"
  /\ UNCHANGED <<lanes, closed, thread, unacked, poll, passed>>

CloseConsumer ==
  /\ shutdown = "waiting" /\ poll = "idle"
  /\ CloseLanes
  /\ shutdown' = "joining"
  /\ UNCHANGED <<thread, unacked, stopped, poll, passed>>

(* Only then are the heartbeat and the Redis and Qdrant clients given up. *)
CloseClients ==
  /\ shutdown = "joining" /\ Exited
  /\ shutdown' = "closed"
  /\ UNCHANGED <<lanes, closed, thread, unacked, stopped, poll, passed>>

----------------------------------------------------------------------------
ThreadStep(t) == Take(t) \/ Leave(t) \/ Enter(t) \/ Process(t) \/ Finish(t)

Next ==
  \/ \E t \in Threads : ThreadStep(t)
  \/ BeginPoll \/ EndPoll \/ Drained \/ PollFails \/ Joined
  \/ \E m \in Messages : Submit(m) \/ Arrive(m)
  \/ StopAdmission \/ BeginClose \/ CloseConsumer \/ CloseClients

Spec == Init /\ [][Next]_vars

(* Threads run, an apply returns, a batch is finite; polling, signals and  *)
(* the decision to close are the environment's.                            *)
Fairness ==
  /\ \A t \in Threads : WF_vars(ThreadStep(t))
  /\ WF_vars(EndPoll) /\ WF_vars(Drained) /\ WF_vars(Joined)
  /\ WF_vars(CloseConsumer) /\ WF_vars(CloseClients)

FairSpec == Spec /\ Fairness

----------------------------------------------------------------------------
(* Properties. *)

Busy(t) == thread[t].pc \in {"enter", "run", "done"}

(* Types, and the memory bound: at most Capacity messages, and at most two *)
(* of one user, are held outside Redis.                                    *)
TypeOK ==
  /\ queues \in [Users -> Seq(Messages)] /\ ready \in Seq(Users)
  /\ active \subseteq Users /\ closed \in BOOLEAN /\ stopped \in BOOLEAN
  /\ ids \subseteq Messages /\ Cardinality(ids) <= Capacity
  /\ \A u \in Users : LaneLoad(u) <= 2
  /\ \A t \in Threads :
       /\ thread[t].pc \in {"wait", "enter", "run", "done", "exit"}
       /\ Busy(t) <=> thread[t].work \in Messages
       /\ thread[t].ok \in BOOLEAN
  /\ unacked \subseteq Messages /\ passed \subseteq Messages
  /\ poll \in {"idle", "live", "serial", "draining", "joining"}
  /\ shutdown \in {"no", "waiting", "joining", "closed"}

(* No lane is lost and none is queued twice: the users with waiting work   *)
(* whose lane is not being served are exactly those in the turn order,     *)
(* once each, and ids are exactly the messages queued or executing.        *)
LanesExact ==
  /\ \A i, j \in DOMAIN ready : ready[i] = ready[j] => i = j
  /\ Range(ready) = {u \in Users \ active : queues[u] # <<>>}
  /\ ids = Queued \cup {thread[t].work : t \in {x \in Threads : Busy(x)}}

(* "Each canonical user has one executing event" (FEEDBACK_SCHEDULER.md):  *)
(* two threads never process events of one user, and active is the users   *)
(* being served.                                                           *)
OneActivePerUser ==
  /\ active = {Owner[thread[t].work] : t \in {x \in Threads : Busy(x)}}
  /\ \A s, t \in Threads :
       Busy(s) /\ Busy(t) /\ Owner[thread[s].work] = Owner[thread[t].work] => s = t

(* Work that was waiting behind a failed turn does not run until it is     *)
(* delivered again: it is never attempted ahead of its failed predecessor  *)
(* from the local queue.                                                   *)
NoRunPastFailure == \A t \in Threads : Busy(t) => thread[t].work \notin passed

(* The Redis and Qdrant clients and the heartbeat outlive every apply that *)
(* was started.                                                            *)
ClientsOutliveWork == shutdown = "closed" => \A t \in Threads : ~Busy(t)

(* A user's events run one at a time, in the order they were accepted and  *)
(* with the clients they need.                                             *)
TurnsSound == OneActivePerUser /\ NoRunPastFailure /\ ClientsOutliveWork

(* A hot user cannot monopolize the threads: a lane that waits is served,  *)
(* whatever else is polled, fails and is delivered again, or is released.  *)
LaneServed ==
  \A u \in Users : (\E i \in DOMAIN ready : ready[i] = u) ~> (u \in active \/ closed)

(* Shutdown ends once the applies in flight return, whatever poll, drain   *)
(* or wait it met.                                                         *)
ShutdownCompletes == shutdown = "waiting" ~> shutdown = "closed"
=============================================================================
