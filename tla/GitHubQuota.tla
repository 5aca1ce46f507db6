----------------------------- MODULE GitHubQuota -----------------------------
(***************************************************************************)
(* The quota coordinators the GitHub clients of one process share, one per *)
(* authorization scope, and the requests they admit.                       *)
(*                                                                         *)
(* Instants are kept as the ticks left until them, so that time has no     *)
(* end: Tick takes one from each.  A jitter is shorter than a tick and     *)
(* makes an instant fall in the next one.                                  *)
(***************************************************************************)
EXTENDS Integers, FiniteSets

CONSTANTS Clients, Scopes,
          ScopeOf,      \* the authorization scope of a client
          Capacity,     \* COORDINATOR_CAPACITY
          IdleTicks,    \* COORDINATOR_IDLE_SECONDS
          WindowTicks,  \* the window inferred when a reply names no reset
          StaggerTicks, \* how long resumed requests are staggered
          Delays,       \* bound: the delays a server names, in ticks
          MaxQuota,     \* bound: the quota a server reports
          MaxCost,      \* bound: the cost a server reports
          MaxAttempts   \* max_retries of a client, and one

Unknown == -1

ASSUME QuotaAssumption ==
  /\ {Capacity, IdleTicks, WindowTicks, StaggerTicks, MaxCost, MaxAttempts} \subseteq Nat \ {0}
  /\ Delays \subseteq Nat /\ MaxQuota \in Nat /\ ScopeOf \in [Clients -> Scopes]

VARIABLES
  coordinator, \* the coordinator of a scope, meaningful while it is in the registry
  pinned,      \* _retained_scopes
  client,      \* the request of a client: where it is, its reply, its attempts
  told         \* history: the ticks the server asked the scope to stay away

quotaVars == <<coordinator, pinned, client, told>>

Fresh == [remaining |-> Unknown, reset |-> Unknown, blocked |-> 0, next |-> 0,
          stagger |-> 0, idle |-> IdleTicks, cost |-> 1]
NoReply == [remaining |-> Unknown, reset |-> Unknown, cost |-> 1, after |-> Unknown]
Holding == {"ready", "io", "reply"}
Later(a, b) == IF a >= b THEN a ELSE b

\* The registry is weak: a coordinator lives while it is pinned or held.
Held == {ScopeOf[c] : c \in {d \in Clients : client[d].pc \in Holding}}

QuotaInit ==
  /\ coordinator = [s \in Scopes |-> Fresh]
  /\ pinned = {}
  /\ client = [c \in Clients |-> [pc |-> "new", reply |-> NoReply, attempts |-> 0]]
  /\ told = [s \in Scopes |-> 0]

---------------------------------------------------------------------------
\* Mutant: only the idle time counts.
RetainedWhileUsed(q) == q.idle > 0

\* What a coordinator must remember keeps its pin: its idle time, and every
\* instant it holds.
Retained(q) == \/ q.idle > 0 \/ q.reset > 0 \/ q.blocked > 0
               \/ q.next > 0 \/ q.stagger > 0

Touched(q) == [q EXCEPT !.idle = IdleTicks]

Blocked(q, ready) ==
  LET until == Later(q.blocked, ready + 1)
  IN  [q EXCEPT !.blocked = until, !.stagger = Later(@, until + StaggerTicks)]

\* shared_github_coordinator(), as a client is made: what needs no pin is
\* forgotten unless a client holds it, and a new scope needs room.
Open(c) ==
  LET s == ScopeOf[c]
      live == {t \in pinned : Retained(coordinator[t])}
      left == live \cup Held
      refused == s \notin left /\ Cardinality(left) >= Capacity
  IN
  /\ client[c].pc = "new"
  /\ pinned' = IF refused THEN live ELSE live \cup {s}
  /\ client' = [client EXCEPT ![c].pc = IF refused THEN "over" ELSE "ready"]
  /\ coordinator' = [t \in Scopes |-> IF t \in left THEN coordinator[t] ELSE Fresh]
  /\ UNCHANGED told

\* admit(): one request of a client.  A window that has passed is forgotten;
\* quota consumed locally without a known reset infers one window, once.
Window(q) == IF q.reset = 0 THEN [q EXCEPT !.remaining = Unknown, !.reset = Unknown] ELSE q

\* Mutant: every wake-up infers a window of its own.
DepletedAgain(q) ==
  IF q.remaining # Unknown /\ q.remaining < q.cost
  THEN LET w == Blocked([q EXCEPT !.reset = WindowTicks], WindowTicks)
       IN  [w EXCEPT !.blocked = Later(@, w.reset)]
  ELSE q

Depleted(q) ==
  IF q.remaining # Unknown /\ q.remaining < q.cost
  THEN LET w == IF q.reset = Unknown
                THEN Blocked([q EXCEPT !.reset = WindowTicks], WindowTicks) ELSE q
       IN  [w EXCEPT !.blocked = Later(@, w.reset)]
  ELSE q

Reserved(q) ==
  [q EXCEPT !.remaining = IF @ = Unknown THEN @ ELSE Later(0, @ - q.cost),
            !.next = IF q.stagger > 0 THEN 1 ELSE @]

Admit(c) ==
  LET s == ScopeOf[c]
      q == Depleted(Window(Touched(coordinator[s])))
      ready == q.blocked = 0 /\ q.next = 0
      tried == client[c].attempts < MaxAttempts
      pc == IF ~ready THEN "ready" ELSE IF tried THEN "io" ELSE "over"
  IN
  /\ client[c].pc = "ready"
  /\ client' = [client EXCEPT ![c].pc = pc,
                              ![c].attempts = IF pc = "io" THEN @ + 1
                                              ELSE IF pc = "over" THEN 0 ELSE @]
  /\ pinned' = pinned \cup {s}
  /\ coordinator' = [coordinator EXCEPT ![s] = IF ready THEN Reserved(q) ELSE q]
  /\ UNCHANGED told

\* The server answers: quota and reset as headers name them, and, when it
\* throttles, how long to stay away.  Replies may be read in another order.
Answer(c) ==
  /\ client[c].pc = "io"
  /\ \E r \in [remaining : {Unknown} \cup 0..MaxQuota, reset : {Unknown} \cup Delays,
               cost : 1..MaxCost, after : {Unknown} \cup Delays] :
       /\ r.remaining = Unknown => r.reset = Unknown /\ r.cost = coordinator[ScopeOf[c]].cost
       /\ client' = [client EXCEPT ![c].pc = "reply", ![c].reply = r]
  /\ UNCHANGED <<coordinator, pinned, told>>

\* The transport fails; the client retries within its attempts.
TransportFails(c) ==
  /\ client[c].pc = "io"
  /\ client' = [client EXCEPT ![c].pc = "ready"]
  /\ UNCHANGED <<coordinator, pinned, told>>

\* observe(): a reply of an older window changes nothing, one of a newer
\* window replaces what was known, and one of the same can only lower it.
Observed(q, r) ==
  LET priced == [q EXCEPT !.cost = r.cost]
      known == [priced EXCEPT
        !.remaining = IF r.reset > q.reset \/ @ = Unknown \/ r.remaining < @ THEN r.remaining ELSE @,
        !.reset = Later(@, r.reset)]
      window == IF known.reset = Unknown THEN [known EXCEPT !.reset = WindowTicks] ELSE known
  IN  IF r.remaining = Unknown \/ (r.reset # Unknown /\ r.reset < q.reset) THEN priced
      ELSE IF r.remaining < priced.cost THEN Blocked(window, window.reset) ELSE known

\* throttle(): the whole delay the server names, or a window of its own.
StoodOff(q, r) == Blocked(q, r.after)

\* A reply is read: observed, and followed when it throttles.
Read(c) ==
  LET s == ScopeOf[c]
      r == client[c].reply
      q == Observed(Touched(coordinator[s]), r)
      pc == IF r.after # Unknown /\ client[c].attempts < MaxAttempts THEN "ready" ELSE "over"
  IN
  /\ client[c].pc = "reply"
  /\ client' = [client EXCEPT ![c].pc = pc, ![c].reply = NoReply,
                              ![c].attempts = IF pc = "over" THEN 0 ELSE @]
  /\ pinned' = pinned \cup {s}
  /\ coordinator' = [coordinator EXCEPT ![s] = IF r.after = Unknown THEN q ELSE StoodOff(q, r)]
  /\ told' = [told EXCEPT ![s] = Later(@, r.after)]

Tick ==
  LET Sooner(n) == IF n > 0 THEN n - 1 ELSE n IN
  /\ coordinator' = [s \in Scopes |-> IF s \notin pinned \cup Held THEN Fresh
       ELSE [coordinator[s] EXCEPT !.reset = Sooner(@), !.blocked = Sooner(@), !.next = Sooner(@),
                                   !.stagger = Sooner(@), !.idle = Sooner(@)]]
  /\ client' = [c \in Clients |-> [client[c] EXCEPT !.reply.reset = Sooner(@)]]
  /\ told' = [s \in Scopes |-> Sooner(told[s])]
  /\ UNCHANGED pinned

ClientStep(c) == Admit(c) \/ Answer(c) \/ TransportFails(c) \/ Read(c)
QuotaNext == Tick \/ \E c \in Clients : Open(c) \/ ClientStep(c)

---------------------------------------------------------------------------
\* No request of a scope is sent before the moment a server that throttled the
\* scope named, though the clients that heard it may be gone and their
\* coordinator with them.
RetryAfterHonoured ==
  [][\A c \in Clients : client[c].pc = "ready" /\ client'[c].pc = "io" => told[ScopeOf[c]] = 0]_quotaVars

\* No client waits for ever: again and again there is a moment at which every
\* request has been admitted or given up, whatever chain of deferrals, windows
\* inferred on waking and staggered resumes came before.
EventuallyAdmitted == []<>(\A c \in Clients : client[c].pc # "ready")
=============================================================================
