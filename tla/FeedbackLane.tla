---------------------------- MODULE FeedbackLane ----------------------------
(***************************************************************************)
(* The durable feedback path of one user: the producer's Redis stream      *)
(* (DurableFeedbackProducer), consumers that take the user's lock and      *)
(* apply events to the Qdrant profile point by compare-and-set             *)
(* (OrderedFeedbackConsumer, OrderedFeedbackApplier), the dead-letter      *)
(* stream with its operator replay (DeadLetterReplayer), and onboarding,   *)
(* the other writer of the same point.                                     *)
(*                                                                         *)
(* A worker is one lane of one consumer process; every Redis or Qdrant     *)
(* call is a step of its own, so another actor, a crash, a lost lock or a  *)
(* failed call can fall between any two of them.                           *)
(***************************************************************************)
EXTENDS Integers, Sequences, FiniteSets

CONSTANTS Workers,       \* consumer lanes that may hold a delivery of this user
          Onboarder,     \* the API process running POST /users/onboard
          Events,        \* what the backend may submit: [id, ver, kind]
          NoOne, NoEvent, NoMsg, NoFence,
          InitialPV,     \* profile versions the run may start from (0: no point yet)
          StreamMax, DlqMax, HistorySize, MaxAttempts,
          MaxMessages,   \* bound: stream entries ever created
          MaxFaults,     \* bound: crashes, expiries, failed calls
          MaxPV          \* bound: profile versions onboarded

Kinds == {"valid", "malformed", "limited", "unstable", "anonymous"}
Ids   == {e.id : e \in Events}
Holders == Workers \cup {Onboarder}

ASSUME ConstantsAssumption ==
  /\ Events \subseteq [id : Ids, ver : Nat \ {0}, kind : Kinds]
  /\ {StreamMax, DlqMax, HistorySize, MaxAttempts} \subseteq Nat \ {0}
  /\ {MaxMessages, MaxFaults, MaxPV} \subseteq Nat
  /\ InitialPV \subseteq Nat
  /\ Onboarder \notin Workers /\ NoOne \notin Holders
  /\ NoEvent \notin Ids /\ NoEvent \notin Events
  /\ NoFence \notin [id : Ids, ver : Nat]
  /\ NoMsg \notin [mid : Nat, ev : Events]

VARIABLES
  accepted,   \* event id -> the payload fingerprint that was accepted
  stream,     \* source stream entries [mid, ev], pending ones included
  pel,        \* the entries delivered and not yet acknowledged
  nextMid,
  dlq,        \* dead-letter entries
  dlqSeen,    \* source message ids with a dead-letter copy (the DLQ dedupe keys)
  attempts,   \* event id -> failed deliveries counted in Redis
  profile,    \* the user's Qdrant point
  lock,       \* who holds the user-vector lock key in Redis
  lost,       \* holder -> its renewal thread saw the lock lost
  job,        \* worker -> the delivery it is processing
  visit,      \* the onboarding request in progress
  faults,
  enqueued, buried   \* history: events ever accepted, ever dead-lettered

queueVars == <<accepted, stream, pel, nextMid, enqueued>>
deadVars  == <<dlq, dlqSeen, buried>>
lockVars  == <<lock, lost>>
vars == <<queueVars, deadVars, attempts, profile, lockVars, job, visit, faults>>

----------------------------------------------------------------------------
(* The profile point.  pv stands for profile_version with its job_id, log  *)
(* for the latent vector: the signals folded into it, in order.            *)

Mark    == [id : Ids, ver : Nat]
MarkOf(e) == [id |-> e.id, ver |-> e.ver]

EmptyProfile(pv) ==
  [pv |-> pv, last |-> 0, lastEv |-> NoEvent, status |-> "none", rev |-> 0,
   fence |-> NoFence, history |-> <<>>, log |-> <<>>]

(* _USER_WRITE_CAS_FIELDS *)
MatchesNoProfile(p, q)  == p.last = q.last /\ p.lastEv = q.lastEv /\ p.rev = q.rev
MatchesNothing(p, q)    == TRUE
Matches(p, q) ==
  /\ p.pv = q.pv
  /\ p.last = q.last /\ p.lastEv = q.lastEv
  /\ p.rev = q.rev

Remembered(e, p) == \E i \in DOMAIN p.history : p.history[i] = MarkOf(e)

(* prepare: how the observed profile classifies a well-formed event.  One   *)
(* that is next may still exceed the state's limits, or leave no valid     *)
(* vector (FeedbackStateError).                                            *)
NextVerdict(e) ==
  CASE e.kind = "limited" -> "rejected"
    [] e.kind = "unstable" -> "invalid"
    [] OTHER -> "apply"

VerdictNoFence(e, p) ==
  CASE e.ver < p.last -> IF Remembered(e, p) THEN "rejected" ELSE "duplicate"
    [] e.ver = p.last /\ p.lastEv # e.id -> "rejected"
    [] e.ver = p.last /\ p.lastEv = e.id ->
         IF p.status = "rejected" THEN "rejected" ELSE "duplicate"
    [] e.ver = p.last + 1 -> NextVerdict(e)
    [] OTHER -> "gap"

VerdictForgetful(e, p) ==
  CASE p.fence = MarkOf(e) -> "rejected"
    [] p.fence # NoFence /\ e.ver > p.fence.ver -> "gap"
    [] e.ver <= p.last -> "duplicate"
    [] e.ver = p.last + 1 -> NextVerdict(e)
    [] OTHER -> "gap"

VerdictEager(e, p) ==
  IF e.ver > p.last THEN NextVerdict(e) ELSE VerdictNoFence(e, p)

Verdict(e, p) ==
  CASE p.fence = MarkOf(e) -> "rejected"
    [] p.fence # NoFence /\ e.ver > p.fence.ver -> "gap"
    [] OTHER -> VerdictNoFence(e, p)

(* The payloads that apply, reject and finalize_rejection write back. *)
Advance(p, e, status) ==
  [p EXCEPT !.last = e.ver, !.lastEv = e.id, !.status = status, !.rev = @ + 1,
            !.log = Append(@, [id |-> e.id, ver |-> e.ver,
                               learned |-> status = "applied"])]

LastOf(s, n) == IF Len(s) <= n THEN s ELSE SubSeq(s, Len(s) - n + 1, Len(s))

Applied(p, e)  == Advance(p, e, "applied")
Rejected(p, e) ==
  [Advance(p, e, "rejected") EXCEPT
     !.fence = MarkOf(e),
     !.history = LastOf(Append(@, MarkOf(e)), HistorySize)]
LiftedKeepsFence(p) == [p EXCEPT !.rev = @ + 1]
Lifted(p) == [p EXCEPT !.fence = NoFence, !.rev = @ + 1]

(* save_to_qdrant carries over the feedback_* and last_feedback_* keys;    *)
(* pending_feedback_rejection is not among them.                           *)
Onboarded(p, pv) == [p EXCEPT !.pv = pv, !.fence = NoFence]

----------------------------------------------------------------------------
(* A worker's delivery.  op is what the current write or burial is for;    *)
(* advanced is cursor_advanced; settled is _process_message's finalized;   *)
(* held says the lock's with-block is open; after says how it is left.     *)

PCs == {"idle", "lock", "apply", "reject", "write", "verify", "check",
        "retry", "bury", "finalize", "ack", "clear", "exit"}
Ops == {"apply", "reject", "finalize", "gap", "exhaust"}
Afters == {"return", "lockLost", "error"}

Idle == [pc |-> "idle", msg |-> NoMsg, op |-> "apply",
         seen |-> EmptyProfile(0), draft |-> EmptyProfile(0),
         advanced |-> FALSE, settled |-> FALSE, held |-> FALSE, after |-> "return"]

NoVisit == [pc |-> "idle", seen |-> EmptyProfile(0)]

Init ==
  /\ accepted = [i \in Ids |-> NoEvent]
  /\ stream = {} /\ pel = {} /\ nextMid = 1
  /\ dlq = {} /\ dlqSeen = {}
  /\ attempts = [i \in Ids |-> 0]
  /\ \E pv \in InitialPV : profile = EmptyProfile(pv)
  /\ lock = NoOne /\ lost = [h \in Holders |-> FALSE]
  /\ job = [w \in Workers |-> Idle]
  /\ visit = NoVisit
  /\ faults = 0
  /\ enqueued = {} /\ buried = {}

At(w, pc) == job[w].pc = pc
Ev(w)     == job[w].msg.ev
Go(w, j)  == job' = [job EXCEPT ![w] = j]
GoTo(w, pc) == Go(w, [job[w] EXCEPT !.pc = pc])
Leaving(w, after) == Go(w, [job[w] EXCEPT !.pc = "exit", !.after = after])

(* A fault of the environment, drawn from the run's budget. *)
Fault == faults < MaxFaults /\ faults' = faults + 1

----------------------------------------------------------------------------
(* Producer: ACCEPT_LUA, one atomic script per event. *)

AddMessage(e) ==
  /\ nextMid <= MaxMessages
  /\ stream' = stream \cup {[mid |-> nextMid, ev |-> e]}
  /\ nextMid' = nextMid + 1

Accept(e) ==
  /\ accepted[e.id] = NoEvent                  \* else duplicate or event_id_conflict
  /\ Cardinality(stream) < StreamMax           \* else overloaded, no dedupe key
  /\ AddMessage(e)
  /\ accepted' = [accepted EXCEPT ![e.id] = e]
  /\ enqueued' = enqueued \cup {e}
  /\ UNCHANGED <<pel, deadVars, attempts, profile, lockVars, job, visit, faults>>

(* The acceptance key reaches its TTL: the backend's retry enqueues again. *)
AcceptKeyExpires(i) ==
  /\ accepted[i] # NoEvent
  /\ Fault
  /\ accepted' = [accepted EXCEPT ![i] = NoEvent]
  /\ UNCHANGED <<stream, pel, nextMid, enqueued, deadVars, attempts, profile,
                 lockVars, job, visit>>

----------------------------------------------------------------------------
(* Consumer: _messages, then _process_message. *)

Start(w, m) ==
  /\ At(w, "idle")
  /\ Go(w, [Idle EXCEPT !.msg = m,
              !.op = IF m.ev.kind = "anonymous" THEN "reject" ELSE "apply",
              !.pc = IF m.ev.kind = "anonymous" THEN "bury" ELSE "lock"])

(* XREADGROUP hands out new entries oldest first. *)
ReadNew(w) ==
  \E m \in stream \ pel :
    /\ \A o \in stream \ pel : m.mid <= o.mid
    /\ pel' = pel \cup {m}
    /\ Start(w, m)
    /\ UNCHANGED <<accepted, stream, nextMid, enqueued, deadVars, attempts, profile,
                   lockVars, visit, faults>>

(* XAUTOCLAIM: a pending entry idle long enough, whoever had it. *)
Reclaim(w, m) ==
  /\ m \in pel
  /\ Start(w, m)
  /\ UNCHANGED <<queueVars, deadVars, attempts, profile, lockVars, visit, faults>>

Acquire(w) ==
  /\ At(w, "lock") /\ lock = NoOne
  /\ lock' = w
  /\ lost' = [lost EXCEPT ![w] = FALSE]
  /\ Go(w, [job[w] EXCEPT !.pc = "apply", !.held = TRUE])
  /\ UNCHANGED <<queueVars, deadVars, attempts, profile, visit, faults>>

(* LockAcquisitionError: the delivery stays pending and uncounted. *)
LockBusy(w) ==
  /\ At(w, "lock") /\ lock # NoOne
  /\ Go(w, Idle)
  /\ UNCHANGED <<queueVars, deadVars, attempts, profile, lockVars, visit, faults>>

(* assert_owned raising before apply, or after it. *)
NotOwned(w) ==
  /\ At(w, "apply") \/ At(w, "check")
  /\ lost[w]
  /\ Leaving(w, "lockLost")
  /\ UNCHANGED <<queueVars, deadVars, attempts, profile, lockVars, visit, faults>>

(* apply: normalize, read the user point, prepare. *)
Apply(w) ==
  LET e == Ev(w) IN
  /\ At(w, "apply") /\ ~lost[w]
  /\ CASE e.kind = "malformed" -> GoTo(w, "reject")
       [] e.kind # "malformed" /\ profile.pv = 0 -> GoTo(w, "retry")
       [] OTHER ->
            LET v == Verdict(e, profile) IN
            CASE v = "rejected" -> GoTo(w, "reject")
              [] v = "gap" -> Go(w, [job[w] EXCEPT !.pc = "check", !.op = "gap"])
              [] v = "duplicate" -> GoTo(w, "check")
              [] v = "invalid" -> Go(w, [job[w] EXCEPT !.pc = "bury", !.op = "reject"])
              [] v = "apply" -> Go(w, [job[w] EXCEPT !.pc = "write", !.op = "apply",
                                 !.seen = profile, !.draft = Applied(profile, e)])
  /\ UNCHANGED <<queueVars, deadVars, attempts, profile, lockVars, visit, faults>>

(* reject: re-read the point and record the rejection if exactly next. *)
Reject(w) ==
  LET e == Ev(w) IN
  /\ At(w, "reject")
  /\ CASE profile.pv = 0 -> GoTo(w, "retry")
       [] profile.pv # 0 /\ e.ver <= profile.last ->
            Go(w, [job[w] EXCEPT !.pc = "bury", !.op = "reject", !.advanced = TRUE])
       [] profile.pv # 0 /\ e.ver > profile.last + 1 -> Leaving(w, "return")
       [] OTHER -> Go(w, [job[w] EXCEPT !.pc = "write", !.op = "reject",
                            !.seen = profile, !.draft = Rejected(profile, e)])
  /\ UNCHANGED <<queueVars, deadVars, attempts, profile, lockVars, visit, faults>>

(* finalize_rejection, after the DLQ copy is durable. *)
Finalize(w) ==
  /\ At(w, "finalize")
  /\ CASE profile.fence = NoFence -> GoTo(w, "ack")
       [] profile.fence = MarkOf(Ev(w)) ->
            Go(w, [job[w] EXCEPT !.pc = "write", !.op = "finalize",
                     !.seen = profile, !.draft = Lifted(profile)])
       [] OTHER -> Leaving(w, "return")        \* FeedbackWriteConflict: stays pending
  /\ UNCHANGED <<queueVars, deadVars, attempts, profile, lockVars, visit, faults>>

----------------------------------------------------------------------------
(* _upsert: the conditional write, then the read that verifies it won. *)

Swap(w) == profile' = IF Matches(profile, job[w].seen) THEN job[w].draft ELSE profile

AfterWrite(w) ==
  CASE job[w].op = "apply" -> GoTo(w, "check")
    [] job[w].op = "reject" -> Go(w, [job[w] EXCEPT !.pc = "bury", !.advanced = TRUE])
    [] job[w].op = "finalize" -> GoTo(w, "ack")

(* FeedbackDependencyError: counted, except that a fence left up is only kept. *)
AfterFailure(w) ==
  IF job[w].op = "finalize" THEN Leaving(w, "return") ELSE GoTo(w, "retry")

Write(w) ==
  /\ At(w, "write")
  /\ Swap(w)
  /\ GoTo(w, "verify")
  /\ UNCHANGED <<queueVars, deadVars, attempts, lockVars, visit, faults>>

Verify(w) ==
  /\ At(w, "verify")
  /\ IF Matches(profile, job[w].draft) THEN AfterWrite(w) ELSE AfterFailure(w)
  /\ UNCHANGED <<queueVars, deadVars, attempts, profile, lockVars, visit, faults>>

(* The write's answer is lost, whether or not Qdrant performed it. *)
WriteUnanswered(w) ==
  /\ At(w, "write") /\ Fault
  /\ Swap(w) \/ UNCHANGED profile
  /\ AfterFailure(w)
  /\ UNCHANGED <<queueVars, deadVars, attempts, lockVars, visit>>

(* A read fails, or the repository vector is not indexed yet. *)
ReadFails(w) ==
  /\ \/ At(w, "apply") /\ ~lost[w] /\ Ev(w).kind # "malformed" /\ GoTo(w, "retry")
     \/ At(w, "reject") /\ GoTo(w, "retry")
     \/ At(w, "finalize") /\ Leaving(w, "return")
  /\ Fault
  /\ UNCHANGED <<queueVars, deadVars, attempts, profile, lockVars, visit>>

(* The second assert_owned passed: acknowledge, or keep an ordering gap    *)
(* pending without counting it.                                            *)
Check(w) ==
  /\ At(w, "check") /\ ~lost[w]
  /\ IF job[w].op = "gap" THEN Leaving(w, "return") ELSE GoTo(w, "ack")
  /\ UNCHANGED <<queueVars, deadVars, attempts, profile, lockVars, visit, faults>>

(* _retry: count the failure, and give up at max_delivery_attempts. *)
Retry(w) ==
  LET i == Ev(w).id
      n == attempts[i] + 1 IN
  /\ At(w, "retry")
  /\ attempts' = [attempts EXCEPT ![i] = IF n > MaxAttempts THEN MaxAttempts ELSE n]
  /\ IF n < MaxAttempts THEN Leaving(w, "return")
     ELSE Go(w, [job[w] EXCEPT !.pc = "bury", !.op = "exhaust"])
  /\ UNCHANGED <<queueVars, deadVars, profile, lockVars, visit, faults>>

(* DLQ_MOVE_LUA, then where the caller goes once the copy is durable. *)
Copied(w) ==
  IF job[w].op = "reject" /\ job[w].advanced THEN GoTo(w, "finalize") ELSE GoTo(w, "ack")

Bury(w) ==
  LET m == job[w].msg IN
  /\ At(w, "bury")
  /\ \/ /\ m.mid \in dlqSeen
        /\ Copied(w)
        /\ UNCHANGED deadVars
     \/ /\ m.mid \notin dlqSeen /\ Cardinality(dlq) >= DlqMax
        /\ Leaving(w, "return")                \* DeadLetterFullError: stays pending
        /\ UNCHANGED deadVars
     \/ /\ m.mid \notin dlqSeen /\ Cardinality(dlq) < DlqMax
        /\ dlq' = dlq \cup {[mid |-> m.mid, ev |-> m.ev, retryable |-> job[w].op = "exhaust",
                             advanced |-> job[w].advanced /\ job[w].op = "reject"]}
        /\ dlqSeen' = dlqSeen \cup {m.mid}
        /\ buried' = buried \cup {m.ev}
        /\ Copied(w)
  /\ UNCHANGED <<queueVars, attempts, profile, lockVars, visit, faults>>

(* ACK_DELETE_LUA: XACK, and XDEL only if this call acknowledged it. *)
Ack(w) ==
  /\ At(w, "ack")
  /\ stream' = stream \ ({job[w].msg} \cap pel)
  /\ pel' = pel \ {job[w].msg}
  /\ GoTo(w, "clear")
  /\ UNCHANGED <<accepted, nextMid, enqueued, deadVars, attempts, profile, lockVars,
                 visit, faults>>

ClearAttempts(w) ==
  /\ At(w, "clear")
  /\ attempts' = [attempts EXCEPT ![Ev(w).id] = 0]
  /\ Go(w, [job[w] EXCEPT !.pc = "exit", !.after = "return", !.settled = TRUE])
  /\ UNCHANGED <<queueVars, deadVars, profile, lockVars, visit, faults>>

(* Leaving the with-block: release by token.  A lock found lost raises     *)
(* LockLostError, which counts a failure unless the event was finalized.   *)
Owned(h) == lock = h /\ ~lost[h]

Exit(w) ==
  LET j == job[w]
      raise == \/ j.after = "lockLost"
               \/ j.after = "return" /\ ~Owned(w) /\ ~j.settled IN
  /\ At(w, "exit")
  /\ IF j.held
     THEN /\ lock' = IF lock = w THEN NoOne ELSE lock
          /\ UNCHANGED lost
          /\ IF raise THEN Go(w, [j EXCEPT !.pc = "retry", !.held = FALSE])
                      ELSE Go(w, Idle)
     ELSE Go(w, Idle) /\ UNCHANGED lockVars
  /\ UNCHANGED <<queueVars, deadVars, attempts, profile, visit, faults>>

(* The release call raises: __exit__ reports the lock lost, the key stays. *)
ReleaseFails(w) ==
  LET j == job[w] IN
  /\ At(w, "exit") /\ j.held /\ Fault
  /\ IF j.after = "error" \/ j.settled THEN Go(w, Idle)
     ELSE Go(w, [j EXCEPT !.pc = "retry", !.held = FALSE])
  /\ UNCHANGED <<queueVars, deadVars, attempts, profile, lockVars, visit>>

(* A Redis call raises out of _process_message: the with-block releases    *)
(* the lock and the delivery stays as it is.                               *)
Escape(w) ==
  /\ job[w].pc \in {"retry", "bury", "ack", "clear"}
  /\ Fault
  /\ Leaving(w, "error")
  /\ UNCHANGED <<queueVars, deadVars, attempts, profile, lockVars, visit>>

(* The consumer process dies; the lock key is left to its TTL. *)
Crash(w) ==
  /\ ~At(w, "idle") /\ Fault
  /\ Go(w, Idle)
  /\ UNCHANGED <<queueVars, deadVars, attempts, profile, lockVars, visit>>

----------------------------------------------------------------------------
(* The renewable lock. *)

Holding(h) == IF h = Onboarder THEN visit.pc # "idle" ELSE job[h].held

(* The TTL passes: nobody renews a dead holder's key; a live holder's key  *)
(* expires only if its renewals did not reach Redis in time.               *)
LockExpires ==
  /\ lock # NoOne
  /\ IF Holding(lock) THEN Fault ELSE UNCHANGED faults
  /\ lock' = NoOne
  /\ UNCHANGED <<queueVars, deadVars, attempts, profile, lost, job, visit>>

(* The renewal thread finds another token, or its call fails. *)
RenewLost(h) ==
  /\ Holding(h) /\ ~lost[h]
  /\ IF lock = h THEN Fault ELSE UNCHANGED faults
  /\ lost' = [lost EXCEPT ![h] = TRUE]
  /\ UNCHANGED <<queueVars, deadVars, attempts, profile, lock, job, visit>>

----------------------------------------------------------------------------
(* POST /users/onboard: lock, read, conditionally write the new profile    *)
(* version, release.                                                       *)

OnboardStart ==
  /\ visit.pc = "idle" /\ lock = NoOne
  /\ profile.pv < MaxPV
  /\ lock' = Onboarder
  /\ lost' = [lost EXCEPT ![Onboarder] = FALSE]
  /\ visit' = [pc |-> "write", seen |-> profile]
  /\ UNCHANGED <<queueVars, deadVars, attempts, profile, job, faults>>

OnboardWrite ==
  /\ visit.pc = "write" /\ ~lost[Onboarder]
  /\ profile' = IF Matches(profile, visit.seen)
                THEN Onboarded(visit.seen, visit.seen.pv + 1) ELSE profile
  /\ visit' = [visit EXCEPT !.pc = "release"]
  /\ UNCHANGED <<queueVars, deadVars, attempts, lockVars, job, faults>>

(* Done, or given up: the lock was lost, or encoding or the write failed. *)
OnboardEnd ==
  /\ visit.pc # "idle"
  /\ IF visit.pc = "write" /\ ~lost[Onboarder] THEN Fault ELSE UNCHANGED faults
  /\ lock' = IF lock = Onboarder THEN NoOne ELSE lock
  /\ visit' = NoVisit
  /\ UNCHANGED <<queueVars, deadVars, attempts, profile, lost, job>>

OnboardCrash ==
  /\ visit.pc # "idle" /\ Fault
  /\ visit' = NoVisit
  /\ UNCHANGED <<queueVars, deadVars, attempts, profile, lockVars, job>>

----------------------------------------------------------------------------
(* DeadLetterReplayer.replay(execute, allow_terminal): REPLAY_LUA. *)

Replay(d) ==
  /\ d \in dlq /\ d.ev.kind # "anonymous"
  /\ d.retryable \/ ~d.advanced                \* else refused
  /\ Cardinality(stream) < StreamMax           \* else overloaded
  /\ AddMessage(d.ev)
  /\ dlq' = dlq \ {d}
  /\ attempts' = [attempts EXCEPT ![d.ev.id] = 0]
  /\ UNCHANGED <<accepted, pel, enqueued, dlqSeen, buried, profile, lockVars, job,
                 visit, faults>>

----------------------------------------------------------------------------
Step(w) ==
  \/ ReadNew(w) \/ Acquire(w) \/ LockBusy(w) \/ NotOwned(w)
  \/ Apply(w) \/ Reject(w) \/ Finalize(w) \/ Write(w) \/ Verify(w) \/ Check(w)
  \/ Retry(w) \/ Bury(w) \/ Ack(w) \/ ClearAttempts(w) \/ Exit(w)

Broken(w) == WriteUnanswered(w) \/ ReadFails(w) \/ ReleaseFails(w)
             \/ Escape(w) \/ Crash(w)

Onboarding == OnboardStart \/ OnboardWrite \/ OnboardEnd \/ OnboardCrash

Next ==
  \/ \E e \in Events : Accept(e)
  \/ \E i \in Ids : AcceptKeyExpires(i)
  \/ \E w \in Workers : Step(w) \/ Broken(w) \/ \E m \in pel : Reclaim(w, m)
  \/ LockExpires \/ \E h \in Holders : RenewLost(h)
  \/ Onboarding
  \/ \E d \in dlq : Replay(d)

Spec == Init /\ [][Next]_vars

(* The consumer loop polls for ever, each poll reads new entries and its   *)
(* XAUTOCLAIM cursor walks the whole pending list, threads run, and a dead *)
(* holder's key expires.                                                   *)
MessageSpace == [mid : 1..MaxMessages, ev : Events]

Fairness ==
  /\ \A w \in Workers : WF_vars(Step(w))
  /\ SF_vars(\E w \in Workers : ReadNew(w))
  /\ \A m \in MessageSpace : SF_vars(\E w \in Workers : m \in pel /\ Reclaim(w, m))
  /\ WF_vars(LockExpires /\ ~Holding(lock))
  /\ WF_vars(OnboardWrite \/ OnboardEnd)

FairSpec == Spec /\ Fairness

----------------------------------------------------------------------------
(* Properties. *)

Messages == [mid : Nat \ {0}, ev : Events]
DeadLetters == [mid : Nat \ {0}, ev : Events, retryable : BOOLEAN, advanced : BOOLEAN]
Profiles ==
  [pv : Nat, last : Nat, lastEv : Ids \cup {NoEvent}, status : {"none", "applied", "rejected"},
   rev : Nat, fence : Mark \cup {NoFence}, history : Seq(Mark),
   log : Seq([id : Ids, ver : Nat, learned : BOOLEAN])]
Jobs ==
  [pc : PCs, msg : Messages \cup {NoMsg}, op : Ops, seen : Profiles, draft : Profiles,
   advanced : BOOLEAN, settled : BOOLEAN, held : BOOLEAN, after : Afters]

(* Types, and the two capacity limits: the source stream and the           *)
(* dead-letter stream never exceed FEEDBACK_STREAM_MAXLEN and              *)
(* FEEDBACK_DEAD_LETTER_MAXLEN, whoever appends to them.                   *)
TypeOK ==
  /\ accepted \in [Ids -> Events \cup {NoEvent}]
  /\ stream \subseteq Messages /\ Cardinality(stream) <= StreamMax
  /\ pel \subseteq stream
  /\ nextMid \in Nat \ {0}
  /\ dlq \subseteq DeadLetters /\ Cardinality(dlq) <= DlqMax
  /\ dlqSeen \subseteq Nat
  /\ attempts \in [Ids -> Nat]
  /\ profile \in Profiles
  /\ lock \in Holders \cup {NoOne} /\ lost \in [Holders -> BOOLEAN]
  /\ job \in [Workers -> Jobs]
  /\ visit \in [pc : {"idle", "write", "release"}, seen : Profiles]
  /\ faults \in Nat
  /\ enqueued \subseteq Events /\ buried \subseteq Events

(* Each feedback version is settled exactly once and in order: the log the *)
(* vector was built from holds versions 1 to last_feedback_version, each   *)
(* at its own place, whatever was redelivered, retried, replayed, accepted *)
(* twice or written by a worker whose lock had expired.                    *)
LedgerOrdered ==
  /\ Len(profile.log) = profile.last
  /\ \A n \in 1..profile.last : profile.log[n].ver = n

(* A fence always guards the version the cursor stands at: no event was    *)
(* applied past a rejection that still awaits its dead-letter copy.        *)
FenceAtCursor ==
  profile.fence # NoFence =>
    /\ profile.fence.ver = profile.last /\ profile.fence.id = profile.lastEv
    /\ profile.status = "rejected"

(* "The stream is the source of truth until a message is either applied or *)
(* copied to the bounded dead-letter stream" (feedback/v2.py:3): an        *)
(* accepted event is in the stream, in the dead-letter stream, or at or    *)
(* behind the cursor.                                                      *)
InStream(e) == \E m \in stream : m.ev = e
Custody ==
  \A e \in enqueued : InStream(e) \/ (\E d \in dlq : d.ev = e) \/ e.ver <= profile.last

(* A rejection that the profile's history remembers is preserved: its copy *)
(* was made, or its source entry is still there to make it.                *)
RejectedPreserved ==
  \A e \in enqueued : Remembered(e, profile) => e \in buried \/ InStream(e)

(* Nothing that was accepted disappears, learned or rejected. *)
NothingLost == Custody /\ RejectedPreserved

(* A profile version, once stored, is never replaced by an older one: a    *)
(* feedback write prepared from the old profile never wins over onboarding.*)
ProfileForward == [][profile'.pv >= profile.pv]_vars

(* What the lane promises: OrderedLedger, read off the profile point.      *)
Ledger == INSTANCE OrderedLedger WITH log <- profile.log, fence <- profile.fence
LedgerSpec == Ledger!LSpec

(* Once faults stop, the stream drains unless the dead-letter stream is    *)
(* full: every entry left waits for a version that was not settled.        *)
OnlyGapsRemain ==
  Cardinality(dlq) < DlqMax => \A m \in stream : m.ev.ver > profile.last + 1
Drains == <>[]OnlyGapsRemain

(* "Source ACK happens only after any Qdrant rejection fence is finalized" *)
(* (feedback/v2.py:1505): a fence has a source entry to lift it.           *)
FenceHasSource ==
  profile.fence # NoFence => \E m \in stream : MarkOf(m.ev) = profile.fence

(* "Clear the rejection fence only after its DLQ copy is durable"          *)
(* (feedback/v2.py:1278).                                                  *)
FenceLiftedAfterCopy ==
  [][profile.fence # NoFence /\ profile'.fence # profile.fence
       => \E e \in buried : MarkOf(e) = profile.fence]_vars
=============================================================================
