----------------------------- MODULE LegacyFeedback -----------------------------
(***************************************************************************)
(* The first feedback lane: a consumer group on a Redis stream whose       *)
(* workers claim, process under the user's lock and acknowledge, and a     *)
(* handler that reads the user's point, computes, and overwrites it.  The  *)
(* latent vector is the events whose deltas it holds; one user is enough,  *)
(* since two users share no lock and no point.                             *)
(***************************************************************************)
EXTENDS Integers, Sequences, FiniteSets

CONSTANTS LegacyConsumers, Events,
          Deliveries,      \* what the stream may hold: sequences of the events submitted
          ActionOf, RepoOf,
          MalformedEvents,       \* events whose mapping raises
          ReadBatch, MaxDelivery, History,
          MaxLegacyFaults  \* bound: failures, crashes, lapses and hasty claims

None == "none"
ASSUME LegacyAssumption ==
  /\ MalformedEvents \subseteq Events /\ \A d \in Deliveries : d \in Seq(Events)
  /\ {ReadBatch, MaxDelivery, History} \subseteq Nat \ {0} /\ MaxLegacyFaults \in Nat
  /\ None \notin LegacyConsumers \cup Events

VARIABLES
  eventOf,   \* the submitted events: a message is its place in the stream
  lane,      \* Redis: queue, pending, processed keys, attempts, dead letters, user lock; and the acknowledged
  profile,   \* the user's point: latent, families, signals, history
  workers,   \* each consumer: where it is, its message, what is left of its batch, the point it read
  troubles   \* how many, and whether a lock lapsed under its holder

legacyVars == <<eventOf, lane, profile, workers, troubles>>

Messages == DOMAIN eventOf
NoMessage == 0
Nowhere == [at |-> "free", message |-> NoMessage, left |-> <<>>, read |-> None]
LegacyInit ==
  /\ eventOf \in Deliveries
  /\ lane = [queue |-> [m \in Messages |-> m], pending |-> [m \in Messages |-> None], processed |-> {},
             attempts |-> [e \in Events |-> 0], dead |-> {}, lock |-> None, acked |-> {}]
  /\ profile = [latent |-> [e \in Events |-> 0], families |-> <<>>, signals |-> {}, history |-> <<>>]
  /\ workers = [c \in LegacyConsumers |-> Nowhere]
  /\ troubles = [count |-> 0, lapsed |-> FALSE]

Members(s) == {s[k] : k \in DOMAIN s}
EventAt(c) == eventOf[workers[c].message]

---------------------------------------------------------------------------
(* FeedbackConsumer: the loop *)

WorkerAt(c, stage) == workers[c].at = stage
WorkerMoves(c, stage) == workers' = [workers EXCEPT ![c].at = stage]
Leaves(c) == workers' = [workers EXCEPT ![c] = [@ EXCEPT !.at = "free", !.message = NoMessage]]
FaultLeft == troubles.count < MaxLegacyFaults
Troubled == FaultLeft /\ troubles' = [troubles EXCEPT !.count = @ + 1]

\* A worker holds the user's lock from its acquisition to its release.
InSection(c) == workers[c].at \in {"owner", "read", "written", "failed", "dead", "owned_ack", "release"}

\* XREADGROUP delivers what nobody was given yet.
Fetch(c) ==
  /\ WorkerAt(c, "free") /\ workers[c].left = <<>> /\ lane.queue # <<>>
  /\ LET n == IF Len(lane.queue) < ReadBatch THEN Len(lane.queue) ELSE ReadBatch
         given == SubSeq(lane.queue, 1, n)
     IN  /\ lane' = [lane EXCEPT !.queue = SubSeq(@, n + 1, Len(@)),
                       !.pending = [m \in Messages |-> IF m \in Members(given) THEN c ELSE @[m]]]
         /\ workers' = [workers EXCEPT ![c].left = given]
  /\ UNCHANGED <<eventOf, profile, troubles>>

\* XAUTOCLAIM takes what was idle too long: of a consumer that is gone or
\* gave it up, and, when that one is slow, what it still works on.
Working(m) == \E c \in LegacyConsumers : m = workers[c].message \/ m \in Members(workers[c].left)
Reclaim(c) ==
  /\ WorkerAt(c, "free") /\ workers[c].left = <<>>
  /\ \E m \in Messages :
       /\ lane.pending[m] # None
       /\ IF Working(m) THEN Troubled ELSE UNCHANGED troubles
       /\ lane' = [lane EXCEPT !.pending[m] = c]
       /\ workers' = [workers EXCEPT ![c].left = <<m>>]
  /\ UNCHANGED <<eventOf, profile>>

\* _process_message() up to the user's lock.
Process(c) ==
  /\ WorkerAt(c, "free") /\ workers[c].left # <<>>
  /\ LET m == Head(workers[c].left) e == eventOf[m]
         stage == IF e \in MalformedEvents THEN "bury" ELSE IF e \in lane.processed THEN "ack" ELSE "lock"
     IN workers' = [workers EXCEPT ![c] = [Nowhere EXCEPT !.at = stage, !.message = m, !.left = Tail(workers[c].left)]]
  /\ UNCHANGED <<eventOf, lane, profile, troubles>>

\* lock.acquire(), which waits for the lock and then for no longer.
AcquireLane(c) ==
  /\ WorkerAt(c, "lock")
  /\ \/ lane.lock = None /\ lane' = [lane EXCEPT !.lock = c] /\ WorkerMoves(c, "owner")
     \/ lane.lock # None /\ Leaves(c) /\ UNCHANGED lane
  /\ UNCHANGED <<eventOf, profile, troubles>>

---------------------------------------------------------------------------
(* FeedbackHandler._handle() *)

\* A point or a vector that is not there, or a call that fails, fails the event.
Failing(c) == Troubled /\ WorkerMoves(c, "failed")
\* State that is invalid, or a user of the ordered lane, is not retried.
Refusing(c) == Troubled /\ WorkerMoves(c, "dead")

Family(a) == IF a \in {"save", "unsave"} THEN "save" ELSE "reaction"
Reversed == [unlike |-> "like", undislike |-> "dislike", unsave |-> "save"]
Stateful == {"like", "dislike", "save"}
ApplyOnce == {"readme_open", "github_open", "share"}
Place(e) == <<RepoOf[e], Family(ActionOf[e])>>
Signal(e) == <<RepoOf[e], ActionOf[e]>>
Glance(e) == ActionOf[e] = "glance"      \* a dwell below the threshold

\* The replay guard.
SeenNever(p, e) == FALSE
Seen(p, e) == e \in Members(p.history)

Minus(latent, stored) == [latent EXCEPT ![stored] = @ - 1]
Plus(latent, e) == [latent EXCEPT ![e] = @ + 1]
Holds(p, e) == Place(e) \in DOMAIN p.families
Stored(p, e) == p.families[Place(e)]
Drop(p, e) == [k \in DOMAIN p.families \ {Place(e)} |-> p.families[k]]
Store(p, e) == [k \in DOMAIN p.families \cup {Place(e)} |-> IF k = Place(e) THEN e ELSE p.families[k]]

\* Whether the repository's vector is needed, and what the event makes of the point.
Reads(p, e) ==
  LET a == ActionOf[e] IN
  \/ a \in Stateful /\ (Holds(p, e) => ActionOf[Stored(p, e)] # a)
  \/ a \in ApplyOnce /\ Signal(e) \notin p.signals
  \/ a = "dwell"
Applied(p, e) ==
  LET a == ActionOf[e] IN
  IF a \in DOMAIN Reversed
  THEN IF Holds(p, e) /\ ActionOf[Stored(p, e)] = Reversed[a]
       THEN [p EXCEPT !.latent = Minus(@, Stored(p, e)), !.families = Drop(p, e)] ELSE p
  ELSE IF ~Reads(p, e) THEN p
  ELSE IF a \in Stateful
  THEN [p EXCEPT !.latent = Plus(IF Holds(p, e) THEN Minus(@, Stored(p, e)) ELSE @, e), !.families = Store(p, e)]
  ELSE [p EXCEPT !.latent = Plus(@, e), !.signals = IF a \in ApplyOnce THEN @ \cup {Signal(e)} ELSE @]
Remembering(p, e) ==
  LET h == Append(p.history, e)
  IN  [p EXCEPT !.history = IF Len(h) > History THEN SubSeq(h, Len(h) - History + 1, Len(h)) ELSE h]

\* The key is looked at again under the lock, then the point is read.
ReadPoint(c) ==
  /\ WorkerAt(c, "owner")
  /\ IF EventAt(c) \in lane.processed THEN WorkerMoves(c, "owned_ack") /\ UNCHANGED troubles
     ELSE \/ workers' = [workers EXCEPT ![c] = [@ EXCEPT !.at = "read", !.read = profile]] /\ UNCHANGED troubles
          \/ Failing(c)
  /\ UNCHANGED <<eventOf, lane, profile>>

\* What was seen or is too short is a success without a write; the rest
\* overwrites the point with what was made of the copy that was read.
WritePoint(c) ==
  /\ WorkerAt(c, "read") /\ UNCHANGED <<eventOf, lane>>
  /\ LET p == workers[c].read e == EventAt(c) IN
     IF Seen(p, e) \/ Glance(e) THEN WorkerMoves(c, "written") /\ UNCHANGED <<profile, troubles>>
     ELSE \/ (Failing(c) \/ Refusing(c)) /\ UNCHANGED profile
          \/ /\ profile' = Remembering(Applied(p, e), e)
             /\ Failing(c) \/ (WorkerMoves(c, "written") /\ UNCHANGED troubles)   \* its answer may be lost

---------------------------------------------------------------------------
(* FeedbackConsumer: settling a message *)

\* The key outlives the message by the idempotency window.
Succeed(c) ==
  /\ WorkerAt(c, "written") /\ lane' = [lane EXCEPT !.processed = @ \cup {EventAt(c)}] /\ WorkerMoves(c, "owned_ack")
  /\ UNCHANGED <<eventOf, profile, troubles>>

\* _record_failure()
FailDelivery(c) ==
  /\ WorkerAt(c, "failed")
  /\ lane' = [lane EXCEPT !.attempts[EventAt(c)] = IF @ < MaxDelivery THEN @ + 1 ELSE @]
  /\ WorkerMoves(c, IF lane.attempts[EventAt(c)] + 1 >= MaxDelivery THEN "dead" ELSE "release")
  /\ UNCHANGED <<eventOf, profile, troubles>>

Bury(c) ==
  /\ workers[c].at \in {"bury", "dead"}
  /\ lane' = [lane EXCEPT !.dead = @ \cup {workers[c].message}]
  /\ WorkerMoves(c, IF WorkerAt(c, "bury") THEN "ack" ELSE "owned_ack")
  /\ UNCHANGED <<eventOf, profile, troubles>>

Ack(c) ==
  /\ workers[c].at \in {"ack", "owned_ack"}
  /\ lane' = [lane EXCEPT !.pending[workers[c].message] = None, !.acked = @ \cup {workers[c].message}]
  /\ IF WorkerAt(c, "ack") THEN Leaves(c) ELSE WorkerMoves(c, "release")
  /\ UNCHANGED <<eventOf, profile, troubles>>

\* Only the holder's token releases the lock.
Unlocked(c) == [lane EXCEPT !.lock = IF @ = c THEN None ELSE @]
ReleaseLane(c) ==
  /\ WorkerAt(c, "release") /\ lane' = Unlocked(c)
  /\ workers' = [workers EXCEPT ![c] = [Nowhere EXCEPT !.left = workers[c].left]]
  /\ UNCHANGED <<eventOf, profile, troubles>>

---------------------------------------------------------------------------
(* What goes wrong *)

\* A call raises, which the loop survives, or the process dies and another
\* takes its place: its batch is given up, and the lock is released or not.
Break(c) ==
  /\ Troubled /\ (~WorkerAt(c, "free") \/ workers[c].left # <<>>)
  /\ workers' = [workers EXCEPT ![c] = Nowhere]
  /\ \E released \in BOOLEAN : lane' = IF released /\ InSection(c) THEN Unlocked(c) ELSE lane
  /\ UNCHANGED <<eventOf, profile>>

\* The lock's time passes: of a holder that is gone, or of one that is slow.
Lapse ==
  /\ lane.lock # None /\ lane' = [lane EXCEPT !.lock = None]
  /\ IF InSection(lane.lock) THEN FaultLeft /\ troubles' = [count |-> troubles.count + 1, lapsed |-> TRUE]
     ELSE UNCHANGED troubles
  /\ UNCHANGED <<eventOf, profile, workers>>

ConsumerStep(c) ==
  \/ Fetch(c) \/ Reclaim(c) \/ Process(c) \/ AcquireLane(c) \/ ReadPoint(c) \/ WritePoint(c)
  \/ Succeed(c) \/ FailDelivery(c) \/ Bury(c) \/ Ack(c) \/ ReleaseLane(c) \/ Break(c)
LegacyNext == Lapse \/ \E c \in LegacyConsumers : ConsumerStep(c)

---------------------------------------------------------------------------
(* Properties *)

\* However often a message is delivered, claimed or half processed, no event
\* moves the latent vector twice, and the vector holds exactly the deltas the
\* point can take back: the stored action of each family, the once-only
\* signals it lists, and dwells.
LatentAccounted ==
  \A e \in Events :
    /\ profile.latent[e] \in {0, 1}
    /\ ActionOf[e] \in Stateful => (profile.latent[e] = 1 <=> Holds(profile, e) /\ Stored(profile, e) = e)
    /\ ActionOf[e] \in ApplyOnce =>
         (Signal(e) \in profile.signals <=> \E o \in Events : Signal(o) = Signal(e) /\ profile.latent[o] = 1)

\* A message leaves the group only once its event is settled, and unless a
\* lock lapsed under its holder a settled event is in the point's history: no
\* worker overwrote another's.
SettledFeedback ==
  /\ \A m \in lane.acked : eventOf[m] \in lane.processed \/ m \in lane.dead
  /\ ~troubles.lapsed => \A e \in lane.processed : Glance(e) \/ e \in Members(profile.history)

\* What is settled was learned once, and what was learned can be taken back.
LegacySound == LatentAccounted /\ SettledFeedback
=============================================================================
