---------------------------- MODULE ModelJournal ----------------------------
(***************************************************************************)
(* The model-operation lane of one user: operations and withdrawals are    *)
(* admitted to a Redis stream, workers pin the input of each, prepare its  *)
(* outcome in an immutable journal, and commit it by one conditional write *)
(* of the user's Qdrant point, which names the journal's head.             *)
(*                                                                         *)
(* A content address is the content: a head is the sequence of the rows it *)
(* commits to.  Each call to Redis or Qdrant is a step, and a worker may   *)
(* stop or fail between any two.  The user lock only keeps workers apart   *)
(* while it lasts; nothing here relies on it, so it is left out, and what  *)
(* it refuses is a failed step.                                            *)
(***************************************************************************)
EXTENDS SessionReducer, Sequences, SequencesExt

CONSTANTS Workers, Producers,
          Ops,             \* the operations the backend sends, as it first sent them
          Withdrawals,     \* withdrawals of profile operations among Ops
          Vectors,         \* what resolve() may find at different times
          NoPin, NoEntry,
          MaxPending,      \* max_pending of the stream
          MaxDead,         \* max_dead_letters
          MaxHistory,      \* history_operations a proof may walk
          MaxFaults,       \* bound: failed or interrupted calls
          MayLose          \* bound: the point is lost, once at most

(* A user without a point: no row is committed. *)
NoPoint == [head |-> <<>>, state |-> Prefix(0)]

(* The identity of a withdrawal is the identity of the profile it withdraws. *)
Of(e) == IF e.kind = "withdrawal" THEN CHOOSE o \in Ops : o.id = e.id ELSE e
Entries == Ops \cup Withdrawals
Versions == {o.version : o \in Ops}

ASSUME JournalAssumption ==
  /\ \A e \in Entries : {"id", "version", "kind", "at"} \subseteq DOMAIN e
  /\ \A e \in Entries : e.at \in Nat /\ (e.kind = "withdrawal" => e.revoked \in Nat)
  /\ \A o \in Ops : o.version \in Nat \ {0} /\ o.kind # "withdrawal"
  /\ \A o, p \in Ops : o.id = p.id => o = p
  /\ \A x \in Withdrawals : /\ x.kind = "withdrawal"
                            /\ \E o \in Ops : /\ o.id = x.id /\ o.kind = "profile"
                                              /\ o.version = x.version
  /\ NoPin \notin Vectors /\ NoEntry \notin Entries
  /\ {MaxPending, MaxDead, MaxHistory} \subseteq Nat \ {0} /\ MaxFaults \in Nat
  /\ MayLose \in BOOLEAN

VARIABLES
  identities, \* operations whose version and id are taken
  withdrawn,  \* the withdrawals hash
  stream,     \* entries not acknowledged
  asked,      \* producer -> the entry it saw ready, or NoEntry
  guard,      \* the initialization guard: "none", "pending", "initialized"
  frozen,     \* version -> candidate frozen in Redis, NoPin when refunded
  reserved,   \* versions whose bytes are reserved for good
  pinned,     \* version -> input in Qdrant
  prepared,   \* heads in the journal
  dead,       \* heads with a dead-letter copy
  point,      \* the user's point
  job,        \* worker -> what it does
  faults,
  acted       \* history: the committed rows somebody acted on

transport == <<identities, withdrawn, stream, asked>>
journal   == <<frozen, reserved, pinned, prepared, dead>>
vars == <<transport, guard, journal, point, job, faults, acted>>

IdleJob == [pc |-> "idle", entry |-> NoEntry, before |-> NoPoint, sample |-> NoPin,
            want |-> NoPin, head |-> <<>>]
Init ==
  /\ identities = {} /\ withdrawn = {} /\ stream = {}
  /\ asked = [p \in Producers |-> NoEntry] /\ guard = "none"
  /\ frozen = [v \in Versions |-> NoPin] /\ reserved = {}
  /\ pinned = [v \in Versions |-> NoPin] /\ prepared = {} /\ dead = {}
  /\ point = NoPoint
  /\ job = [w \in Workers |-> IdleJob]
  /\ faults = 0 /\ acted = <<>>

----------------------------------------------------------------------------
(* Reading the point (read_optional, decode_point): a ready basis raises   *)
(* the guard before anybody sees it, a missing one is refused once raised. *)
Ready == point # NoPoint /\ point.state.ready
Readable == point # NoPoint \/ guard # "initialized"
Guarded == guard' = IF Ready THEN "initialized" ELSE guard

Row(n) == point.head[n]
Applied(e) == point # NoPoint /\ point.state.op >= e.version

(* status_for_identity, _prove_committed: the walk from the head down to   *)
(* the version of e, and whether it finds e there.                         *)
WithinHorizon(e) == point.state.op - e.version < MaxHistory
Proven(e) == WithinHorizon(e) /\ Row(e.version).op.id = e.id

(* ready_predecessor *)
Genesis(e) == e.kind \in {"profile", "withdrawal"} /\ e.genesis
PredecessorReady(e) ==
  IF Ready THEN e.version = point.state.op + 1
  ELSE Genesis(e) /\ e.version = (IF point = NoPoint THEN 0 ELSE point.state.op) + 1

----------------------------------------------------------------------------
(* Admission: _ADMIT and _WITHDRAW, then once more with the recovery slot  *)
(* for an entry whose predecessor the producer found committed.            *)
Conflicting(e) == \E o \in identities : (o.version = e.version) # (o.id = e.id)
Duplicate(e) ==
  IF e.kind = "withdrawal" THEN e \in withdrawn ELSE e \in identities
Refused(e) ==
  e.kind = "withdrawal" /\ e \notin withdrawn /\ \E x \in withdrawn : x.version = e.version

Enter(e) ==
  /\ identities' = identities \cup {Of(e)}
  /\ withdrawn' = IF e.kind = "withdrawal" THEN withdrawn \cup {e} ELSE withdrawn
  /\ stream' = stream \cup {e}
  /\ guard' = IF guard = "none" THEN "pending" ELSE guard

Admissible(e) == ~Conflicting(e) /\ ~Duplicate(e) /\ ~Refused(e)

Admit(e) ==
  /\ Admissible(e) /\ Cardinality(stream) < MaxPending
  /\ Enter(e)
  /\ UNCHANGED <<asked, journal, point, job, faults, acted>>

Ask(p, e) ==
  /\ asked[p] = NoEntry /\ Admissible(e) /\ Cardinality(stream) >= MaxPending
  /\ Readable /\ PredecessorReady(e)
  /\ asked' = [asked EXCEPT ![p] = e] /\ Guarded
  /\ UNCHANGED <<identities, withdrawn, stream, journal, point, job, faults, acted>>

Recover(p) ==
  LET e == asked[p]
  IN /\ e # NoEntry
     /\ asked' = [asked EXCEPT ![p] = NoEntry]
     /\ IF Admissible(e) /\ Cardinality(stream) < MaxPending + 1 THEN Enter(e)
        ELSE UNCHANGED <<identities, withdrawn, stream, guard>>
     /\ UNCHANGED <<journal, point, job, faults, acted>>

----------------------------------------------------------------------------
(* A worker and the entry it was given by XREADGROUP or XAUTOCLAIM. *)
At(w, pc) == job[w].pc = pc
Goto(w, pc) == job' = [job EXCEPT ![w].pc = pc]
Forget(w, pc) == job' = [job EXCEPT ![w] = [IdleJob EXCEPT !.pc = pc, !.entry = job[w].entry]]
Drop(w) == job' = [job EXCEPT ![w] = IdleJob]   \* an exception: the entry stays pending

Take(w, e) ==
  /\ At(w, "idle") /\ e \in stream
  /\ job' = [job EXCEPT ![w].entry = e,
                        ![w].pc = IF e.kind = "withdrawal" THEN "attest" ELSE "look"]
  /\ UNCHANGED <<transport, guard, journal, point, faults, acted>>

(* ModelProcessor.__call__ up to the choice of a path, with the preflight  *)
(* of a profile that is already committed.                                 *)
Look(w) ==
  LET e == job[w].entry
  IN /\ At(w, "look") /\ Guarded
     /\ IF ~Readable THEN Drop(w)
        ELSE IF e.kind = "profile" THEN
               IF Applied(e) THEN IF Proven(e) THEN Goto(w, "ack") ELSE Drop(w)
               ELSE job' = [job EXCEPT ![w].before = point, ![w].pc = "lookup"]
        ELSE IF Ready THEN Goto(w, "pin") ELSE Drop(w)
     /\ UNCHANGED <<transport, journal, point, faults, acted>>

Withdrawing(e) == {x \in withdrawn : x.id = e.id}

(* _matching_withdrawal, and who may give a user a first basis. *)
Lookup(w) ==
  LET e == job[w].entry
      b == job[w].before
  IN /\ At(w, "lookup")
     /\ IF Withdrawing(e) # {} THEN Forget(w, "attest")
        ELSE IF b # NoPoint /\ b.state.ready THEN Forget(w, "pin")
        ELSE IF e.genesis /\ e.version = (IF b = NoPoint THEN 0 ELSE b.state.op) + 1
             THEN Forget(w, "pin")
        ELSE Drop(w)
     /\ UNCHANGED <<transport, guard, journal, point, faults, acted>>

(* pin_input over BudgetedRecords: sample the reservation, then Qdrant;    *)
(* resolve, freeze a candidate in Redis, copy it to Qdrant, refund the     *)
(* frozen copy.  The first candidate frozen is the input for ever.         *)
Pin(w) ==
  LET v == job[w].entry.version
  IN /\ At(w, "pin")
     /\ job' = [job EXCEPT ![w].sample = frozen[v], ![w].pc = "fetch"]
     /\ UNCHANGED <<transport, guard, journal, point, faults, acted>>

FetchUnfrozen(w) ==
  LET v == job[w].entry.version
  IN /\ At(w, "fetch")
     /\ IF job[w].sample # NoPin THEN Goto(w, "copy")
        ELSE \E x \in IF pinned[v] # NoPin THEN {pinned[v]} ELSE Vectors :
               job' = [job EXCEPT ![w].want = x, ![w].pc = "read"]
     /\ UNCHANGED <<transport, guard, journal, point, faults, acted>>
Fetch(w) ==
  LET v == job[w].entry.version
  IN /\ At(w, "fetch")
     /\ IF job[w].sample # NoPin THEN Goto(w, "copy")
        ELSE IF pinned[v] # NoPin THEN job' = [job EXCEPT ![w].want = pinned[v], ![w].pc = "read"]
        ELSE IF v \in reserved THEN Drop(w)
        ELSE \E x \in Vectors : job' = [job EXCEPT ![w].want = x, ![w].pc = "reserve"]
     /\ UNCHANGED <<transport, guard, journal, point, faults, acted>>

Reserve(w) ==
  LET v == job[w].entry.version
  IN /\ At(w, "reserve")
     /\ IF v \in reserved THEN UNCHANGED <<frozen, reserved>>
        ELSE frozen' = [frozen EXCEPT ![v] = job[w].want] /\ reserved' = reserved \cup {v}
     /\ Forget(w, "pin")
     /\ UNCHANGED <<transport, guard, pinned, prepared, dead, point, faults, acted>>

CopyOver(w) ==
  LET v == job[w].entry.version
  IN /\ At(w, "copy")
     /\ pinned' = IF pinned[v] = NoPin THEN [pinned EXCEPT ![v] = job[w].sample] ELSE pinned
     /\ IF pinned'[v] = job[w].sample THEN Goto(w, "refund") ELSE Drop(w)
     /\ UNCHANGED <<transport, guard, frozen, reserved, prepared, dead, point, faults, acted>>

Refund(w) ==
  LET v == job[w].entry.version
  IN /\ At(w, "refund")
     /\ frozen' = [frozen EXCEPT ![v] = NoPin]
     /\ job' = [job EXCEPT ![w].want = job[w].sample, ![w].sample = NoPin,
                            ![w].pc = "read"]
     /\ UNCHANGED <<transport, guard, reserved, pinned, prepared, dead, point, faults, acted>>

----------------------------------------------------------------------------
(* The transition: an operation as it was pinned, a disposition, the error *)
(* recorded, the cause it depends on, and the state it leads to.           *)
Resolved(e, x) == IF e.kind \in {"profile", "feedback"} THEN [e EXCEPT !.source = x] ELSE e
Outcome(o, disposition, error, cause, st) ==
  [op |-> o, disposition |-> disposition, error |-> error, cause |-> cause, state |-> st]

(* _rejected_session_control: the rows that began or reset the session     *)
(* since its latest begin, each rejected because of the one before it.     *)
ControlsOf(head, o) ==
  {n \in 1..Len(head) : head[n].op.kind \in {"begin", "reset", "end"} /\ head[n].op.session = o.session}
SinceBegin(head, o) ==
  {n \in ControlsOf(head, o) :
     \A m \in ControlsOf(head, o) : m > n => head[m].op.kind # "begin"}
RejectedEpoch(head, o) ==
  LET path == SinceBegin(head, o)
      before(n) == Max({m \in path : m < n})
  IN /\ path # {} /\ Len(head) - Min(path) < MaxHistory
     /\ head[Min(path)].op.kind = "begin" /\ head[Min(path)].error = "capacity"
     /\ \A n \in path \ {Min(path)} :
          /\ head[n].error = "dependency" /\ head[n].cause = before(n)
          /\ head[n].op.kind = "reset" /\ head[n].op.epoch = EpochOf(head[before(n)].op)
RejectedControl(head, o) == Max(SinceBegin(head, o))

(* The rows apply and initialize may prepare on top of a snapshot. *)
Transitions(b, o) ==
  LET st == b.state
      verdict == Verdict(st, o)
      cause == RejectedControl(b.head, o)
  IN IF verdict = "ok" THEN {Outcome(o, "applied", "none", 0, Reduced(st, o))}
     ELSE IF verdict = "overflow" /\ Rejectable(st, o)
          THEN {Outcome(o, "rejected", "capacity", 0, Passed(st, o))}
     ELSE IF /\ verdict = "epoch" /\ o.kind \in {"feedback", "reset", "end"} /\ o.session # "none"
             /\ RejectedEpoch(b.head, o) /\ DependsOn(st, o, b.head[cause].op) /\ Rejectable(st, o)
          THEN {Outcome(o, "rejected", "dependency", cause, Passed(st, o))}
     ELSE {}

Basis(e) == IF point = NoPoint THEN [head |-> <<>>, state |-> Prefix(e.at)] ELSE point

Prepared(w, rows, b) ==
  IF rows = {} THEN Drop(w)
  ELSE \E row \in rows :
         job' = [job EXCEPT ![w].before = point, ![w].head = Append(b.head, row),
                            ![w].want = NoPin, ![w].pc = "prepare"]

(* A profile is let through only while nobody withdrew it (profile_lock). *)
ConsentedOnce(w) == w \in Workers
Consented(w) == job[w].entry.kind = "profile" => Withdrawing(job[w].entry) = {}

Read(w) ==
  LET e == job[w].entry
  IN /\ At(w, "read") /\ Guarded
     /\ IF ~Readable \/ ~Consented(w) THEN Drop(w)
        ELSE IF Applied(e) THEN IF Proven(e) THEN Goto(w, "ack") ELSE Drop(w)
        ELSE IF Ready \/ (e.kind = "profile" /\ e.genesis /\ e.version = Basis(e).state.op + 1)
             THEN Prepared(w, Transitions(Basis(e), Resolved(e, job[w].want)), Basis(e))
        ELSE Drop(w)
     /\ UNCHANGED <<transport, journal, point, faults, acted>>

(* apply_withdrawal, also for a profile found withdrawn. *)
Attest(w) ==
  LET e == job[w].entry
      x == IF e.kind = "withdrawal" THEN e ELSE CHOOSE y \in Withdrawing(e) : TRUE
  IN /\ At(w, "attest") /\ Guarded
     /\ IF ~Readable THEN Drop(w)
        ELSE IF Applied(x) THEN IF Proven(x) THEN Goto(w, "ack") ELSE Drop(w)
        ELSE IF (point = NoPoint => x.genesis) /\ Verdict(Basis(x).state, x) = "ok"
             THEN Prepared(w, {Outcome(x, "withdrawn", "withdrawn", 0,
                                       Reduced(Basis(x).state, x))}, Basis(x))
        ELSE Drop(w)
     /\ UNCHANGED <<transport, journal, point, faults, acted>>

(* _commit_transition and the rest of apply: the journal row, the dead-    *)
(* letter copy of a rejection, the last look at the withdrawals, then the  *)
(* conditional write and the read that confirms it.                        *)
Top(w) == job[w].head[Len(job[w].head)]

Prepare(w) ==
  /\ At(w, "prepare")
  /\ prepared' = prepared \cup {job[w].head}
  /\ Goto(w, IF Top(w).disposition # "applied" THEN "bury" ELSE "check")
  /\ UNCHANGED <<transport, guard, frozen, reserved, pinned, dead, point, faults, acted>>

Bury(w) ==
  /\ At(w, "bury")
  /\ IF job[w].head \in dead \/ Cardinality(dead) < MaxDead
     THEN dead' = dead \cup {job[w].head} /\ Goto(w, "check")
     ELSE dead' = dead /\ Drop(w)
  /\ UNCHANGED <<transport, guard, frozen, reserved, pinned, prepared, point, faults, acted>>

(* The withdrawal path holds the plain lock. *)
Withdraws(w) == Top(w).disposition = "withdrawn"
Check(w) ==
  /\ At(w, "check")
  /\ IF Withdraws(w) \/ Consented(w) THEN Goto(w, "commit") ELSE Drop(w)
  /\ UNCHANGED <<transport, guard, journal, point, faults, acted>>

UnmovedTrusted(w) == w \in Workers
Unmoved(w) == point = job[w].before
Commit(w) ==
  /\ At(w, "commit")
  /\ point' = IF Unmoved(w) THEN [head |-> job[w].head, state |-> Top(w).state] ELSE point
  /\ job' = [job EXCEPT ![w].before = NoPoint, ![w].pc = "confirm"]
  /\ UNCHANGED <<transport, guard, journal, faults, acted>>

Confirm(w) ==
  /\ At(w, "confirm") /\ Guarded
  /\ IF point # NoPoint /\ point.head = job[w].head THEN Goto(w, "settle") ELSE Drop(w)
  /\ UNCHANGED <<transport, journal, point, faults, acted>>

ActedOn(n) == acted' = IF n > Len(acted) THEN SubSeq(point.head, 1, n) ELSE acted

(* The lock is looked at once more, then XACK and XDEL. *)
Settle(w) ==
  /\ At(w, "settle") \/ At(w, "ack")
  /\ Drop(w)
  /\ IF At(w, "settle") /\ ~Withdraws(w) /\ ~Consented(w) THEN UNCHANGED <<stream, acted>>
     ELSE stream' = stream \ {job[w].entry} /\ ActedOn(job[w].entry.version)
  /\ UNCHANGED <<identities, withdrawn, asked, guard, journal, point, faults>>

----------------------------------------------------------------------------
(* owned_input: a recommendation reads the point and uses its basis. *)
Serve ==
  /\ Ready /\ Guarded /\ ActedOn(Len(point.head))
  /\ \E s \in DOMAIN point.state.sessions :
       ViewStatus(point.state, s, point.state.sessions[s].epoch, point.state.clock) = "active"
  /\ UNCHANGED <<transport, journal, point, job, faults>>

(* A call fails or the process stops: whatever the call did stays done. *)
Interrupt(w) ==
  /\ ~At(w, "idle") /\ faults < MaxFaults
  /\ faults' = faults + 1 /\ Drop(w)
  /\ UNCHANGED <<transport, guard, journal, point, acted>>

(* The point is lost while the workers are down.  The guard protects who   *)
(* has a basis; losing a point without one is left out.                    *)
LosePoint ==
  /\ Ready /\ MayLose /\ faults <= MaxFaults /\ \A w \in Workers : At(w, "idle")
  /\ faults' = MaxFaults + 1 /\ point' = NoPoint
  /\ UNCHANGED <<transport, guard, journal, job, acted>>

Step(w) ==
  \/ Look(w) \/ Lookup(w) \/ Pin(w) \/ Fetch(w) \/ Reserve(w) \/ CopyOver(w) \/ Refund(w)
  \/ Read(w) \/ Attest(w) \/ Prepare(w) \/ Bury(w) \/ Check(w) \/ Commit(w) \/ Confirm(w)
  \/ Settle(w)

Next ==
  \/ \E e \in Entries : Admit(e)
  \/ \E p \in Producers : Recover(p) \/ \E e \in Entries : Ask(p, e)
  \/ \E w \in Workers : Step(w) \/ Interrupt(w) \/ \E e \in Entries : Take(w, e)
  \/ Serve \/ LosePoint

Spec == Init /\ [][Next]_vars

(* The committed rows, also after the point that held them is lost and     *)
(* while withdrawals without a basis are recorded once more.               *)
Tip ==
  IF point = NoPoint \/ (~Ready /\ IsPrefix(point.head, acted))
  THEN acted ELSE point.head

(* Workers go on, producers retry, and redelivery does not pass over for   *)
(* ever an entry whose turn has come.                                      *)
TakeDue(w) == \E e \in Entries : e.version <= Len(Tip) + 1 /\ Take(w, e)
Fairness ==
  /\ \A w \in Workers : WF_vars(Step(w)) /\ SF_vars(TakeDue(w))
  /\ \A e \in Entries : WF_vars(Admit(e))
  /\ \A p \in Producers : WF_vars(Recover(p)) /\ \A e \in Entries : WF_vars(Ask(p, e))
FairSpec == Init /\ [][Next]_vars /\ Fairness

----------------------------------------------------------------------------
Settled(e) == e.version <= Len(Tip) /\ Tip[e.version].op.id = e.id

(* The rows of the committed head are the abstract log: every version is   *)
(* committed once, in order, under one disposition, whatever workers,      *)
(* repeated deliveries and faults do; and a basis that somebody acted on   *)
(* is never replaced by a new one after the point is lost.                 *)
Chain == INSTANCE CommittedChain WITH
  log <- [n \in 1..Len(Tip) |-> [op |-> Tip[n].op.id, version |-> Tip[n].op.version,
                                  disposition |-> Tip[n].disposition]],
  acted <- Len(acted),
  Operations <- {o.id : o \in Ops}, Dispositions <- {"applied", "rejected", "withdrawn"}
ChainSpec == Chain!CSpec

(* scripts/rebuild_user_model.py: replaying the chain from nothing, with   *)
(* each operation's input as Qdrant holds it, leads to every state that    *)
(* was committed.                                                          *)
Replayed(head, n) ==
  LET o == head[n].op
      b == IF n = 1 THEN [head |-> <<>>, state |-> Prefix(o.at)]
           ELSE [head |-> SubSeq(head, 1, n - 1), state |-> head[n - 1].state]
  IN IF o.kind = "withdrawal"
     THEN o \in withdrawn /\ Verdict(b.state, o) = "ok" /\ head[n].state = Reduced(b.state, o)
     ELSE \E e \in Ops : /\ e.id = o.id /\ o = Resolved(e, pinned[e.version])
                         /\ head[n] \in Transitions(b, o)
Rebuildable == \A n \in 1..Len(Tip) : Tip[n].op.version = n /\ Replayed(Tip, n)

(* A committed head is in the journal with every head before it, and what  *)
(* was not applied has its dead-letter copy before it is committed.        *)
JournalComplete ==
  \A n \in 1..Len(Tip) :
     /\ SubSeq(Tip, 1, n) \in prepared
     /\ Tip[n].disposition # "applied" => SubSeq(Tip, 1, n) \in dead

(* An entry leaves the stream only when its version is committed under its *)
(* own identity.                                                           *)
AckedSettled ==
  /\ \A x \in withdrawn \ stream : Settled(x)
  /\ \A o \in identities : (\A e \in stream : e.id # o.id) => Settled(o)

(* The committed rows are what the journal can rebuild, it misses none of  *)
(* them, and only what is committed was acknowledged.                      *)
JournalSound == Rebuildable /\ JournalComplete /\ AckedSettled

(* Once a withdrawal is accepted, only a write already past its last check *)
(* can still apply the profile it names.                                   *)
Learned(x) == Settled(x) /\ Tip[x.version].disposition = "applied"
Learning(x) == \E w \in Workers : At(w, "commit") /\ Top(w).op.id = x.id /\ ~Withdraws(w)
Reachable(x) == Learned(x) \/ Learning(x)
WithdrawalHolds == [][\A x \in withdrawn : ~Reachable(x) => ~Reachable(x)']_vars

(* What the checks of a state's own reader ask of it: clocks, anchors,     *)
(* ledgers and bounds, whatever operations led to it.                      *)
StateValid == point # NoPoint => StateSound(point.state)

(* A session's state is sound, and once the session was sealed it learns   *)
(* nothing more in that epoch.                                             *)
SealedStays ==
  point # NoPoint /\ point.state.ready /\ point' # NoPoint =>
    \A s \in DOMAIN point.state.sessions :
      LET old == point.state.sessions[s]
      IN old.ended /\ s \in DOMAIN point'.state.sessions =>
           LET new == point'.state.sessions[s]
           IN new.epoch > old.epoch \/ (new.epoch = old.epoch /\ new.ended /\ new.entries = {})
SessionsKept == [][StateValid' /\ SealedStays]_vars

(* Once faults stop, every operation the backend sent is committed and its *)
(* entry acknowledged: nothing stays behind a rejected or withdrawn one.   *)
Drains == <>[](stream = {} /\ \A o \in Ops : Settled(o))
=============================================================================
