-------------------------- MODULE SummaryAdmission --------------------------
(***************************************************************************)
(* The admission of requests to the summary provider, shared by every      *)
(* indexing process through Redis (RedisSummaryAdmission): a request and   *)
(* token budget per window of an account, and a circuit that opens after   *)
(* failures, cools down, and lets one probe at a time find out whether the *)
(* provider is back.  Epochs and probe tokens fence the outcomes of        *)
(* requests admitted before the circuit last changed.                      *)
(*                                                                         *)
(* A caller is one attempt of OpenRouterSummaryProvider.generate.  ADMIT   *)
(* and REPORT are atomic scripts on one Redis clock, taken as              *)
(* non-decreasing; anything may happen between them.                       *)
(***************************************************************************)
EXTENDS Integers, FiniteSets

CONSTANTS Callers,
          Limits,           \* caller -> [rpm, tpm] of the deployment it runs in
          NoLimits,
          Costs,            \* tokens an attempt may reserve
          Threshold, Cooldown,
          Lease,            \* request_timeout_seconds + 1
          Window,           \* the quota window
          StateTTL, QuotaTTL,
          Lifetime,         \* longest time from an admission to its report
          MaxTime           \* bound: where the clock stops

LimitSpace == [rpm : Nat \ {0}, tpm : Nat \ {0}]

(* ttl_ms is twice the cooldown, the request timeout and two minutes more; *)
(* the quota key outlives the window it was written in.                    *)
ASSUME AdmissionAssumption ==
  /\ Limits \in [Callers -> LimitSpace] /\ NoLimits \notin LimitSpace
  /\ Costs \subseteq Nat \ {0}
  /\ {Threshold, Cooldown, Lease, Window, Lifetime, StateTTL, QuotaTTL} \subseteq Nat \ {0}
  /\ MaxTime \in Nat
  /\ Lifetime < StateTTL /\ Lease < StateTTL /\ Window < QuotaTTL

VARIABLES
  now,        \* Redis TIME
  circuit,    \* the hash at prefix:circuit:model
  quota,      \* the hash at prefix:quota
  minted,     \* probe tokens handed out (each is fresh)
  call,       \* caller -> the permit it holds
  turn,       \* history: how often the circuit changed hands
  spent       \* history: window -> what was admitted in it, and for whom

vars == <<now, circuit, quota, minted, call, turn, spent>>

(* Absent keys read as zero; a token of 0 is the empty string. *)
NoCircuit == [live |-> FALSE, until |-> 0, epoch |-> 0, probe |-> 0,
              probeUntil |-> 0, failures |-> 0, expires |-> 0]
NoQuota   == [live |-> FALSE, window |-> 0, requests |-> 0, tokens |-> 0,
              limits |-> NoLimits, expires |-> 0]
NoPermit  == [out |-> FALSE, epoch |-> 0, probe |-> 0, age |-> 0, lease |-> 0, turn |-> 0]

Init ==
  /\ now = 0
  /\ circuit = NoCircuit /\ quota = NoQuota
  /\ minted = 0 /\ turn = 0
  /\ call = [c \in Callers |-> NoPermit]
  /\ spent = [w \in 0..MaxTime |-> [requests |-> 0, tokens |-> 0, by |-> {}]]

----------------------------------------------------------------------------
(* ADMIT_LUA.  A refused request changes nothing. *)

ThisWindow == now \div Window

(* What the window in force has spent so far. *)
Drawn ==
  IF quota.live /\ quota.window >= ThisWindow THEN quota
  ELSE [quota EXCEPT !.window = ThisWindow, !.requests = 0, !.tokens = 0]

CircuitAdmitsAnyProbe == circuit.until <= now
CircuitAdmits ==
  /\ circuit.until <= now                                      \* cooling down
  /\ ~(circuit.until > 0 /\ circuit.probeUntil > now)          \* a probe is out

QuotaAdmitsAnyone(c, cost) ==
  Drawn.requests + 1 <= Limits[c].rpm /\ Drawn.tokens + cost <= Limits[c].tpm
QuotaAdmits(c, cost) ==
  /\ quota.live => quota.limits = Limits[c]
  /\ Drawn.requests + 1 <= Limits[c].rpm
  /\ Drawn.tokens + cost <= Limits[c].tpm

Charge(c, cost) ==
  /\ quota' = [live |-> TRUE, window |-> Drawn.window, requests |-> Drawn.requests + 1,
               tokens |-> Drawn.tokens + cost, limits |-> Limits[c],
               expires |-> now + QuotaTTL]
  /\ spent' = [spent EXCEPT ![Drawn.window] =
                 [requests |-> @.requests + 1, tokens |-> @.tokens + cost,
                  by |-> @.by \cup {Limits[c]}]]

Touched(s) == [s EXCEPT !.live = TRUE, !.expires = now + StateTTL]

Permit(probe, t) ==
  [out |-> TRUE, epoch |-> circuit.epoch, probe |-> probe, age |-> 0,
   lease |-> now + Lease, turn |-> t]

Admit(c, cost) ==
  /\ ~call[c].out
  /\ CircuitAdmits /\ QuotaAdmits(c, cost)
  /\ Charge(c, cost)
  /\ IF circuit.until > 0
     THEN /\ minted' = minted + 1
          /\ turn' = turn + 1
          /\ circuit' = Touched([circuit EXCEPT !.probe = minted', !.probeUntil = now + Lease])
          /\ call' = [call EXCEPT ![c] = Permit(minted', turn')]
     ELSE /\ circuit' = Touched(circuit)
          /\ call' = [call EXCEPT ![c] = Permit(0, turn)]
          /\ UNCHANGED <<minted, turn>>
  /\ UNCHANGED now

----------------------------------------------------------------------------
(* REPORT_LUA. *)

HeardAnyEpoch(c) ==
  /\ circuit.live
  /\ circuit.probe = call[c].probe
  /\ circuit.probe # 0 => circuit.probeUntil > now
Heard(c) ==
  /\ circuit.live
  /\ circuit.epoch = call[c].epoch
  /\ circuit.probe = call[c].probe
  /\ circuit.probe # 0 => circuit.probeUntil > now

Turned(s) == [s EXCEPT !.epoch = @ + 1, !.probe = 0, !.probeUntil = 0]

Ok ==
  IF circuit.probe # 0
  THEN circuit' = Touched(Turned([circuit EXCEPT !.failures = 0, !.until = 0])) /\ turn' = turn + 1
  ELSE circuit' = Touched([circuit EXCEPT !.failures = 0]) /\ UNCHANGED turn

Failed ==
  LET failing == [circuit EXCEPT !.failures = @ + 1] IN
  IF circuit.probe # 0 \/ failing.failures >= Threshold
  THEN circuit' = Touched(Turned([failing EXCEPT !.until = now + Cooldown])) /\ turn' = turn + 1
  ELSE circuit' = Touched(failing) /\ UNCHANGED turn

(* The request was never sent: its budget had run out. *)
Abandoned ==
  IF circuit.probe # 0 THEN circuit' = Touched(Turned(circuit)) /\ turn' = turn + 1
  ELSE circuit' = Touched(circuit) /\ UNCHANGED turn

Close(c) == call' = [call EXCEPT ![c] = NoPermit]

Report(c) ==
  /\ call[c].out
  /\ IF Heard(c) THEN Ok \/ Failed \/ Abandoned ELSE UNCHANGED <<circuit, turn>>
  /\ Close(c)
  /\ UNCHANGED <<now, quota, minted, spent>>

(* The process dies, or the report does not reach Redis: it is swallowed. *)
Lose(c) ==
  /\ call[c].out
  /\ Close(c)
  /\ UNCHANGED <<now, circuit, quota, minted, turn, spent>>

----------------------------------------------------------------------------
(* Time passes; a permit is reported or dropped within its lifetime, and   *)
(* Redis drops the keys whose TTL has passed.                              *)
Tick ==
  /\ now < MaxTime
  /\ \A c \in Callers : call[c].out => call[c].age < Lifetime
  /\ now' = now + 1
  /\ call' = [c \in Callers |->
                IF call[c].out THEN [call[c] EXCEPT !.age = @ + 1] ELSE call[c]]
  /\ IF circuit.live /\ circuit.expires <= now'
     THEN circuit' = NoCircuit /\ turn' = turn + 1
     ELSE UNCHANGED <<circuit, turn>>
  /\ quota' = IF quota.live /\ quota.expires <= now' THEN NoQuota ELSE quota
  /\ UNCHANGED <<minted, spent>>

Next ==
  \/ \E c \in Callers : (\E cost \in Costs : Admit(c, cost)) \/ Report(c) \/ Lose(c)
  \/ Tick

Spec == Init /\ [][Next]_vars

----------------------------------------------------------------------------
Circuits ==
  [live : BOOLEAN, until : Nat, epoch : Nat, probe : Nat, probeUntil : Nat,
   failures : Nat, expires : Nat]
Quotas ==
  [live : BOOLEAN, window : 0..MaxTime, requests : Nat, tokens : Nat,
   limits : LimitSpace \cup {NoLimits}, expires : Nat]
Permits == [out : BOOLEAN, epoch : Nat, probe : Nat, age : Nat, lease : Nat, turn : Nat]

(* Types, and how long a circuit or a probe may hold others off: never     *)
(* longer than the cooldown or the lease from now, whoever wrote it.       *)
TypeOK ==
  /\ now \in 0..MaxTime
  /\ circuit \in Circuits /\ circuit.until <= now + Cooldown
  /\ circuit.probeUntil <= now + Lease
  /\ quota \in Quotas
  /\ minted \in Nat /\ turn \in Nat
  /\ call \in [Callers -> Permits]
  /\ spent \in [0..MaxTime -> [requests : Nat, tokens : Nat, by : SUBSET LimitSpace]]

(* Within a window, the whole fleet is admitted for no more requests and   *)
(* tokens than the account's limits, and deployments configured with       *)
(* different limits never both draw on it.                                 *)
QuotaHeld ==
  \A w \in 0..MaxTime : \A l \in spent[w].by :
    /\ spent[w].by = {l}
    /\ spent[w].requests <= l.rpm /\ spent[w].tokens <= l.tpm

(* While the provider is suspected, at most one request tests it: two      *)
(* probes never hold a running lease together, also when the first was     *)
(* lost, abandoned or reported late.                                       *)
Probing(c) == call[c].out /\ call[c].probe # 0 /\ call[c].lease > now
OneProbe == \A c, d \in Callers : Probing(c) /\ Probing(d) => c = d

(* Whatever the fleet does together, the provider is asked for no more     *)
(* than its account allows, and by one request only while it is suspected. *)
AdmissionSound == QuotaHeld /\ OneProbe

(* "Circuit epochs fence late outcomes from requests admitted before an    *)
(* open/recovery" (summarization/admission.py:34): a report changes the    *)
(* circuit only if it did not change hands since that request was admitted.*)
Fenced ==
  [][\A c \in Callers :
       call[c].out /\ ~call'[c].out /\ circuit' # circuit => call[c].turn = turn]_vars
=============================================================================
