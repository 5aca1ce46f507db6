--------------------------- MODULE SessionReducer ---------------------------
(***************************************************************************)
(* long-session-v1, the pure reducer of feedback/long_session.py: what one *)
(* model operation does to one user's state.  A vector is the ledger of    *)
(* the signals it is summed from, and a signal names the repository vector *)
(* pinned with it.  A verdict names the error the code raises, or "ok".    *)
(***************************************************************************)
EXTENDS Integers, FiniteSets, FiniteSetsExt

CONSTANTS MaxRepositories, MaxSessions,
          IdleExpiry,              \* idle_expiry_ms
          MinDwell, FullDwell,     \* minimum_dwell_ms, saturated_dwell_ms
          RefreshOnNoop            \* refresh_idle_on_noop

ASSUME PolicyAssumption ==
  /\ {MaxRepositories, MaxSessions, IdleExpiry, MinDwell, FullDwell} \subseteq Nat \ {0}
  /\ MinDwell <= FullDwell /\ RefreshOnNoop \in BOOLEAN

FamilyOf == [like |-> "reaction", dislike |-> "reaction", save |-> "save",
             readme_open |-> "readme_open", github_open |-> "github_open",
             share |-> "share", dwell |-> "dwell"]
Undone   == [unlike |-> "like", undislike |-> "dislike", unsave |-> "save"]
Durable  == {"like", "dislike", "save"}

(* No basis yet: every version so far was a withdrawn profile. *)
Prefix(at) == [ready |-> FALSE, op |-> 0, fb |-> 0, clock |-> at, last |-> "none"]

NewSession(epoch, at, active, witness) ==
  [epoch |-> epoch, sealed |-> epoch - 1, ended |-> FALSE, started |-> at,
   anchor |-> at, active |-> active, entries |-> {}, witness |-> witness]

Later(a, b) == IF a > b THEN a ELSE b
Now(st, o) == Later(st.clock, o.at)

SealKeepsEntries(ss) == [ss EXCEPT !.sealed = ss.epoch, !.ended = TRUE, !.anchor = ss.started]
Seal(ss) == [ss EXCEPT !.sealed = ss.epoch, !.ended = TRUE, !.anchor = ss.started, !.entries = {}]
Idle(ss, t) == t - ss.active >= IdleExpiry
SealedIdle(st, t) ==
  [s \in DOMAIN st.sessions |->
     IF ~st.sessions[s].ended /\ Idle(st.sessions[s], t) THEN Seal(st.sessions[s])
     ELSE st.sessions[s]]

----------------------------------------------------------------------------
(* Ledgers: at most one signal of a family for a repository. *)
Signal(o, weight, t) ==
  [repo |-> o.repo, family |-> FamilyOf[o.event], action |-> o.event,
   weight |-> weight, source |-> o.source, at |-> t]
Held(ledger, o) == {g \in ledger : g.repo = o.repo /\ g.family = FamilyOf[o.event]}
Undoing(ledger, o) == {g \in ledger : g.repo = o.repo /\ g.action = Undone[o.event]}
Anew(ledger, o) == {g \in Held(ledger, o) : g.action = o.event} = {}
Put(ledger, o, weight, t) == (ledger \ Held(ledger, o)) \cup {Signal(o, weight, t)}

LongLearned(ledger, o, t) ==
  IF o.event \in DOMAIN Undone THEN ledger \ Undoing(ledger, o)
  ELSE IF o.event \in Durable /\ Anew(ledger, o) THEN Put(ledger, o, 1, t)
  ELSE ledger

DwellWeight(o) == IF o.dwell < FullDwell THEN o.dwell ELSE FullDwell

Meaningful(ledger, o) ==
  \/ o.event \in DOMAIN Undone /\ Undoing(ledger, o) # {}
  \/ /\ o.event = "dwell" /\ o.dwell >= MinDwell
     /\ \A g \in Held(ledger, o) : g.weight < DwellWeight(o)
  \/ o.event \in Durable /\ Anew(ledger, o)
  \/ o.event \in DOMAIN FamilyOf \ (Durable \cup {"dwell"}) /\ Held(ledger, o) = {}

SessionLedger(ledger, o, t) ==
  IF o.event \in DOMAIN Undone THEN ledger \ Undoing(ledger, o)
  ELSE Put(ledger, o, IF o.event = "dwell" THEN DwellWeight(o) ELSE 1, t)

ActiveAnchor(ledger, start) == Max({g.at : g \in ledger} \cup {start})

Felt(ss, o, t) ==
  IF ss.ended THEN ss
  ELSE IF ~Meaningful(ss.entries, o) THEN [ss EXCEPT !.active = IF RefreshOnNoop THEN t ELSE @]
  ELSE LET ledger == SessionLedger(ss.entries, o, t)
       IN  [ss EXCEPT !.entries = ledger, !.active = t, !.anchor = ActiveAnchor(ledger, ss.started)]

(* The session a feedback was accepted in, or none. *)
BoundVerdict(ss, o) ==
  IF o.epoch > ss.epoch \/ (o.epoch < ss.epoch /\ o.live) THEN "epoch"
  ELSE IF o.epoch = ss.epoch /\ (o.started # ss.started \/ o.witness # ss.witness) THEN "epoch"
  ELSE "ok"
Bound(ss, o, t) ==
  IF o.epoch < ss.epoch THEN ss
  ELSE Felt(IF ~o.live \/ Idle(ss, t) THEN Seal(ss) ELSE ss, o, t)

----------------------------------------------------------------------------
Known(st, o) == o.session \in DOMAIN st.sessions

KindVerdict(st, o) ==
  CASE o.kind = "profile" -> IF o.content > st.base.content THEN "ok" ELSE "conflict"
    [] o.kind = "begin" -> IF Known(st, o) \/ o.started # o.at THEN "epoch" ELSE "ok"
    [] o.kind = "reset" ->
         IF Known(st, o) /\ st.sessions[o.session].epoch = o.epoch THEN "ok" ELSE "epoch"
    [] o.kind = "end" ->
         IF /\ Known(st, o) /\ o.started <= o.at
            /\ o.epoch = st.sessions[o.session].epoch /\ o.started = st.sessions[o.session].started
         THEN "ok" ELSE "epoch"
    [] o.kind = "feedback" ->
         IF o.fb # st.fb + 1 THEN "gap"
         ELSE IF o.session = "none" THEN "ok"
         ELSE IF ~Known(st, o) THEN IF o.live THEN "epoch" ELSE "ok"
         ELSE BoundVerdict(SealedIdle(st, Now(st, o))[o.session], o)
    [] OTHER -> "ok"

Sessions(st, o) ==
  LET all == SealedIdle(st, Now(st, o))
      kept == DOMAIN all \ {o.session}
      set(s) == [x \in kept \cup {o.session} |-> IF x = o.session THEN s ELSE all[x]]
  IN CASE o.kind = "begin" -> set(NewSession(1, o.at, o.at, o.witness))
       [] o.kind = "reset" -> set(NewSession(o.epoch + 1, o.at, Now(st, o), o.witness))
       [] o.kind = "end" -> [x \in kept |-> all[x]]
       [] o.kind = "feedback" /\ Known(st, o) -> set(Bound(all[o.session], o, Now(st, o)))
       [] OTHER -> all

Stepped(st, o) == [st EXCEPT !.op = o.version, !.last = o.id, !.clock = Now(st, o)]

Reduced(st, o) ==
  LET s == Stepped(st, o)
  IN CASE ~st.ready /\ o.kind = "profile" ->
            [ready |-> TRUE, op |-> o.version, fb |-> 0, clock |-> s.clock, last |-> o.id,
             base |-> [content |-> o.content, source |-> o.source], long |-> {},
             sessions |-> [x \in {} |-> NewSession(1, 0, 0, "none")]]
       [] ~st.ready /\ o.kind # "profile" -> [s EXCEPT !.clock = Later(s.clock, o.revoked)]
       [] st.ready /\ o.kind = "withdrawal" ->
            [s EXCEPT !.clock = Later(s.clock, o.revoked), !.sessions = Sessions(st, o)]
       [] st.ready /\ o.kind = "profile" ->
            [s EXCEPT !.base = [content |-> o.content, source |-> o.source],
                      !.sessions = Sessions(st, o)]
       [] st.ready /\ o.kind = "feedback" ->
            [s EXCEPT !.fb = o.fb, !.long = LongLearned(st.long, o, Now(st, o)),
                      !.sessions = Sessions(st, o)]
       [] OTHER -> [s EXCEPT !.sessions = Sessions(st, o)]

(* _check_state raises StateOverflow on these bounds. *)
Repositories(st) ==
  {g.repo : g \in st.long \cup UNION {st.sessions[s].entries : s \in DOMAIN st.sessions}}
Overflows(st) ==
  st.ready /\ (\/ Cardinality(Repositories(st)) > MaxRepositories
               \/ Cardinality(DOMAIN st.sessions) > MaxSessions)

(* reduce_operation: the error it raises, "same" for the operation already *)
(* on top, "ok" when Reduced is the new state.                             *)
Verdict(st, o) ==
  IF o.version = st.op THEN IF o.id = st.last THEN "same" ELSE "conflict"
  ELSE IF o.id = st.last THEN "conflict"
  ELSE IF o.version < st.op THEN "proof"
  ELSE IF o.version # st.op + 1 THEN "gap"
  ELSE IF ~st.ready THEN
         IF o.kind \notin {"profile", "withdrawal"} THEN "gap"
         ELSE IF o.genesis THEN "ok" ELSE IF o.kind = "profile" THEN "gap" ELSE "compat"
  ELSE IF KindVerdict(st, o) # "ok" THEN KindVerdict(st, o)
  ELSE IF Overflows(Reduced(st, o)) THEN "overflow" ELSE "ok"

(* reject_capacity: the version is passed, nothing is learned. *)
Rejectable(st, o) == o.version = st.op + 1 /\ (o.kind = "feedback" => o.fb = st.fb + 1)
Passed(st, o) == [Stepped(st, o) EXCEPT !.fb = IF o.kind = "feedback" THEN o.fb ELSE st.fb]

(* reject_session_dependency: o belongs to the very epoch control c, a     *)
(* rejected begin or reset, would have started.                            *)
EpochOf(c) == IF c.kind = "begin" THEN 1 ELSE c.epoch + 1
StartOf(c) == IF c.kind = "begin" THEN c.started ELSE c.at
DependsOnFeedback(st, o, c) ==
  /\ ~Known(st, c) /\ o.session = c.session /\ o.epoch = EpochOf(c)
  /\ o.kind = "feedback" /\ o.live /\ o.started = StartOf(c) /\ o.witness = c.witness
DependsOn(st, o, c) ==
  /\ ~Known(st, c) /\ o.session = c.session /\ o.epoch = EpochOf(c)
  /\ \/ o.kind = "feedback" /\ o.live /\ o.started = StartOf(c) /\ o.witness = c.witness
     \/ o.kind = "reset"
     \/ o.kind = "end" /\ o.started = StartOf(c)

----------------------------------------------------------------------------
(* recommendation_view: whether a session's signals may be served at time t. *)
ViewStatus(st, s, epoch, t) ==
  IF s \notin DOMAIN st.sessions \/ epoch > st.sessions[s].epoch THEN "epoch"
  ELSE IF epoch < st.sessions[s].epoch \/ st.sessions[s].ended THEN "sealed"
  ELSE IF Idle(st.sessions[s], t) THEN "expired" ELSE "active"

(* The checks _check_state makes of the clocks and ledgers of a state. *)
LedgerSound(ledger, t) ==
  /\ \A g \in ledger : g.at <= t
  /\ \A g, h \in ledger : g.repo = h.repo /\ g.family = h.family => g = h
SessionSound(ss, t) ==
  /\ ss.sealed \in 0..ss.epoch /\ (ss.ended <=> ss.sealed = ss.epoch)
  /\ ss.started <= ss.anchor /\ ss.anchor <= t /\ ss.started <= ss.active /\ ss.active <= t
  /\ ss.ended => ss.entries = {}
  /\ LedgerSound(ss.entries, t) /\ \A g \in ss.entries : g.at >= ss.started
  /\ ss.anchor = ActiveAnchor(ss.entries, ss.started)
StateSound(st) ==
  /\ st.fb <= st.op
  /\ st.ready => /\ LedgerSound(st.long, st.clock) /\ ~Overflows(st)
                 /\ \A s \in DOMAIN st.sessions : SessionSound(st.sessions[s], st.clock)
=============================================================================
