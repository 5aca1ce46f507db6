--------------------------- MODULE SupportingProofs ---------------------------
(***************************************************************************)
(* Proofs about what the recommendations rest on: the admission of the     *)
(* summary provider, the flights of the summaries, the readiness answer,   *)
(* the feedback that comes in over HTTP, the older consumer, and the       *)
(* sections, chunks and towers of a README; each for every value of its    *)
(* constants its module's assumption admits.                               *)
(*                                                                         *)
(* PermitInv says what a permit still out knows about the circuit: the key *)
(* it was admitted under is alive, no epoch is ahead of the circuit's, and *)
(* matching epoch and token mean that the circuit did not change hands.    *)
(* ProbeInv adds that tokens are not shared and that a running lease is    *)
(* the one the circuit records.  QuotaInv ties the quota key to what was   *)
(* really admitted in each window.                                         *)
(* SummaryInv: whoever works on a keyed content leads its flight, and      *)
(* nobody writes what the cache keeps.  ReadyInv: jobs follow each other,  *)
(* so only the newest is under way, and the heartbeat lives as long as the *)
(* setting of whoever holds it.  IntakeInv: what a worker has found so far *)
(* of its batch was so when it found it, and the history only grows.       *)
(* LegacyInv: the vector holds what the point can take back, and who has   *)
(* the lock, while it lasts, works on the point as it is.                  *)
(* OutlineInv: the stack is the headings still open before the next line.  *)
(* ChunkInv: where the next chunk may start.  TowerInv: what a job asked   *)
(* the encoder for and got, and that a key says all its vector depends on. *)
(***************************************************************************)
EXTENDS SummaryAdmission, SummaryGeneration, Readiness, FeedbackIntake, LegacyFeedback, TowerVectors, TLAPS,
        FiniteSetTheorems, SequenceTheorems, NaturalsInduction, WellFoundedInduction

-----------------------------------------------------------------------------
(* The admission of the summary provider *)


(* What division promises about the window an instant falls in. *)
LEMMA DivFacts ==
  ASSUME NEW n \in Nat, NEW W \in Nat \ {0}
  PROVE  /\ n \div W \in Nat
         /\ W * (n \div W) <= n
         /\ n < W * (n \div W) + W
BY SMTT(30)

LEMMA DivBound ==
  ASSUME NEW n \in Nat, NEW W \in Nat \ {0}
  PROVE  n \div W <= n
<1> DEFINE d == n \div W
<1>1. d \in Nat /\ W * d <= n
  BY DivFacts
<1>2. d <= W * d
  BY <1>1, SMTT(30)
<1> QED
  BY <1>1, <1>2

LEMMA DivMono ==
  ASSUME NEW n \in Nat, NEW W \in Nat \ {0}, NEW m \in Nat, m <= n
  PROVE  m \div W <= n \div W
<1> DEFINE d == m \div W
<1> DEFINE e == n \div W
<1>1. d \in Nat /\ e \in Nat /\ W * d <= m /\ n < W * e + W
  BY DivFacts
<1>2. W * d < W * (e + 1)
  BY <1>1
<1> HIDE DEF d, e
<1>3. d < e + 1
  BY <1>1, <1>2, SMTT(30)
<1> QED
  BY <1>1, <1>3 DEF d, e

(* An instant past the end of window w falls in a later one. *)
LEMMA DivPast ==
  ASSUME NEW n \in Nat, NEW W \in Nat \ {0}, NEW w \in Nat, W * (w + 1) <= n
  PROVE  w < n \div W
<1> DEFINE e == n \div W
<1>1. e \in Nat /\ n < W * (e + 1)
  BY DivFacts
<1>2. W * (w + 1) < W * (e + 1)
  BY <1>1
<1> HIDE DEF e
<1>3. w + 1 < e + 1
  BY <1>1, <1>2, SMTT(30)
<1> QED
  BY <1>1, <1>3 DEF e

----------------------------------------------------------------------------
LEMMA ConstantFacts ==
  /\ Threshold \in Nat \ {0} /\ Cooldown \in Nat \ {0} /\ Lease \in Nat \ {0}
  /\ Window \in Nat \ {0} /\ StateTTL \in Nat \ {0} /\ QuotaTTL \in Nat \ {0}
  /\ Lifetime \in Nat \ {0} /\ MaxTime \in Nat
  /\ Lifetime < StateTTL /\ Lease < StateTTL /\ Window < QuotaTTL
  /\ Costs \subseteq Nat /\ \A c \in Callers : Limits[c] \in LimitSpace
BY AdmissionAssumption

LEMMA WindowFacts ==
  ASSUME TypeOK
  PROVE  /\ ThisWindow \in 0..MaxTime
         /\ Window * ThisWindow <= now
         /\ Drawn \in Quotas
         /\ Drawn.window >= ThisWindow
<1>1. now \in Nat /\ now <= MaxTime /\ Window \in Nat \ {0}
  BY ConstantFacts DEF TypeOK
<1>2. now \div Window \in Nat /\ Window * (now \div Window) <= now /\ now \div Window <= now
  BY <1>1, DivFacts, DivBound
<1>3. ThisWindow \in 0..MaxTime /\ Window * ThisWindow <= now
  BY <1>1, <1>2, ConstantFacts DEF ThisWindow
<1>4. quota \in Quotas
  BY DEF TypeOK
<1>5. CASE quota.live /\ quota.window >= ThisWindow
  BY <1>3, <1>4, <1>5 DEF Drawn
<1>6. CASE ~(quota.live /\ quota.window >= ThisWindow)
  <2>1. Drawn = [quota EXCEPT !.window = ThisWindow, !.requests = 0, !.tokens = 0]
    BY <1>6 DEF Drawn
  <2>2. Drawn \in Quotas /\ Drawn.window = ThisWindow
    BY <1>3, <1>4, <2>1 DEF Quotas
  <2> QED
    BY <1>3, <2>2
<1> QED
  BY <1>3, <1>5, <1>6

(* The circuit records that the two scripts write. *)
LEMMA TouchedType ==
  ASSUME now \in Nat, NEW s \in Circuits
  PROVE  /\ Touched(s) \in Circuits
         /\ Touched(s).live /\ Touched(s).expires = now + StateTTL
         /\ Touched(s).until = s.until /\ Touched(s).epoch = s.epoch
         /\ Touched(s).probe = s.probe /\ Touched(s).probeUntil = s.probeUntil
<1>1. now + StateTTL \in Nat
  BY ConstantFacts
<1> QED
  BY <1>1 DEF Touched, Circuits

LEMMA TurnedType ==
  ASSUME NEW s \in Circuits
  PROVE  /\ Turned(s) \in Circuits /\ Turned(s).until = s.until
         /\ Turned(s).epoch = s.epoch + 1 /\ Turned(s).probe = 0 /\ Turned(s).probeUntil = 0
<1>1. s.epoch + 1 \in Nat
  BY DEF Circuits
<1> QED
  BY <1>1 DEF Turned, Circuits

(* What a report that is heard leaves of the circuit. *)
LEMMA ReportType ==
  ASSUME TypeOK, Ok \/ Failed \/ Abandoned
  PROVE  /\ circuit' \in Circuits /\ turn' \in Nat
         /\ circuit'.until <= now + Cooldown
         /\ circuit'.probeUntil <= now + Lease
         /\ circuit'.live /\ circuit'.expires = now + StateTTL
         /\ \/ circuit'.epoch = circuit.epoch + 1 /\ circuit'.probe = 0
            \/ /\ circuit'.epoch = circuit.epoch /\ circuit'.probe = circuit.probe
               /\ circuit'.probeUntil = circuit.probeUntil
               /\ turn' = turn
         /\ circuit.probe # 0 => circuit'.probe = 0
<1> DEFINE failing == [circuit EXCEPT !.failures = @ + 1]
<1> DEFINE healthy == [circuit EXCEPT !.failures = 0]
<1> DEFINE reopened == [failing EXCEPT !.until = now + Cooldown]
<1> DEFINE closed == [circuit EXCEPT !.failures = 0, !.until = 0]
<1>1. /\ now \in Nat /\ Lease \in Nat /\ Cooldown \in Nat /\ turn \in Nat /\ turn + 1 \in Nat
      /\ circuit \in Circuits /\ circuit.until <= now + Cooldown
      /\ circuit.probeUntil <= now + Lease
  BY ConstantFacts DEF TypeOK
<1>2. failing \in Circuits /\ healthy \in Circuits /\ closed \in Circuits
  <2>1. circuit.failures + 1 \in Nat
    BY <1>1 DEF Circuits
  <2> QED
    BY <1>1, <2>1 DEF Circuits
<1>3. reopened \in Circuits /\ reopened.until = now + Cooldown /\ reopened.epoch = circuit.epoch
  <2>1. now + Cooldown \in Nat /\ failing.epoch = circuit.epoch
    BY <1>1 DEF Circuits
  <2> HIDE DEF failing
  <2> QED
    BY <1>1, <1>2, <2>1 DEF Circuits
<1>4. /\ failing.until = circuit.until /\ failing.epoch = circuit.epoch
      /\ failing.probe = circuit.probe /\ failing.probeUntil = circuit.probeUntil
      /\ healthy.until = circuit.until /\ healthy.epoch = circuit.epoch
      /\ healthy.probe = circuit.probe /\ healthy.probeUntil = circuit.probeUntil
      /\ closed.until = 0 /\ closed.epoch = circuit.epoch
  BY <1>1 DEF Circuits
<1>5. \/ /\ turn' = turn + 1
         /\ \/ circuit' = Touched(Turned(closed))
            \/ circuit' = Touched(Turned(reopened))
            \/ circuit' = Touched(Turned(circuit))
      \/ /\ circuit.probe = 0 /\ turn' = turn
         /\ \/ circuit' = Touched(healthy)
            \/ circuit' = Touched(failing)
            \/ circuit' = Touched(circuit)
  BY DEF Ok, Failed, Abandoned
<1> HIDE DEF failing, healthy, reopened, closed
<1>6. CASE /\ turn' = turn + 1
           /\ \/ circuit' = Touched(Turned(closed))
              \/ circuit' = Touched(Turned(reopened))
              \/ circuit' = Touched(Turned(circuit))
  <2>1. PICK s \in {closed, reopened, circuit} : circuit' = Touched(Turned(s))
    BY <1>6
  <2>2. s \in Circuits /\ s.until <= now + Cooldown /\ s.epoch = circuit.epoch
    BY <1>1, <1>2, <1>3, <1>4
  <2>3. /\ Turned(s) \in Circuits /\ Turned(s).until = s.until
        /\ Turned(s).epoch = s.epoch + 1 /\ Turned(s).probe = 0 /\ Turned(s).probeUntil = 0
    BY <2>2, TurnedType
  <2>4. /\ circuit' \in Circuits /\ circuit'.live /\ circuit'.expires = now + StateTTL
        /\ circuit'.until = s.until /\ circuit'.epoch = s.epoch + 1
        /\ circuit'.probe = 0 /\ circuit'.probeUntil = 0
    BY <1>1, <2>1, <2>3, TouchedType
  <2>5. circuit'.until <= now + Cooldown /\ circuit'.probeUntil <= now + Lease
    BY <1>1, <2>2, <2>4
  <2>6. circuit'.epoch = circuit.epoch + 1 /\ circuit'.probe = 0
    BY <2>2, <2>4
  <2>7. turn' \in Nat
    BY <1>1, <1>6
  <2> QED
    BY <2>4, <2>5, <2>6, <2>7
<1>7. CASE /\ circuit.probe = 0 /\ turn' = turn
           /\ \/ circuit' = Touched(healthy)
              \/ circuit' = Touched(failing)
              \/ circuit' = Touched(circuit)
  <2>1. PICK s \in {healthy, failing, circuit} : circuit' = Touched(s)
    BY <1>7
  <2>2. s \in Circuits /\ s.until = circuit.until /\ s.epoch = circuit.epoch
        /\ s.probe = circuit.probe /\ s.probeUntil = circuit.probeUntil
    BY <1>1, <1>2, <1>4
  <2> QED
    BY <1>1, <1>7, <2>1, <2>2, TouchedType
<1> QED
  BY <1>5, <1>6, <1>7

(* What an admission does to the two keys and the caller. *)
LEMMA AdmitType ==
  ASSUME TypeOK, NEW c \in Callers, NEW cost \in Costs, Admit(c, cost)
  PROVE  /\ circuit' \in Circuits /\ turn' \in Nat /\ minted' \in Nat
         /\ circuit'.until = circuit.until
         /\ circuit'.live /\ circuit'.expires = now + StateTTL
         /\ circuit'.epoch = circuit.epoch
         /\ call' = [call EXCEPT ![c] = call'[c]] /\ call'[c] \in Permits
         /\ call'[c].out /\ call'[c].age = 0
         /\ call'[c].epoch = circuit.epoch /\ call'[c].lease = now + Lease
         /\ call'[c].turn = turn'
         /\ \/ /\ circuit.until > 0
               /\ minted' = minted + 1
               /\ circuit'.probe = minted' /\ circuit'.probeUntil = now + Lease
               /\ call'[c].probe = minted'
            \/ /\ circuit.until = 0
               /\ circuit'.probe = circuit.probe /\ circuit'.probeUntil = circuit.probeUntil
               /\ minted' = minted /\ turn' = turn
               /\ call'[c].probe = 0
         /\ now' = now
<1> DEFINE probing == [circuit EXCEPT !.probe = minted + 1, !.probeUntil = now + Lease]
<1>1. /\ now \in Nat /\ turn \in Nat /\ minted \in Nat /\ circuit \in Circuits
      /\ call \in [Callers -> Permits] /\ now + Lease \in Nat
  BY ConstantFacts DEF TypeOK
<1>2. ASSUME NEW p \in Nat, NEW t \in Nat
      PROVE  /\ Permit(p, t) \in Permits /\ Permit(p, t).out /\ Permit(p, t).age = 0
             /\ Permit(p, t).epoch = circuit.epoch /\ Permit(p, t).probe = p
             /\ Permit(p, t).lease = now + Lease /\ Permit(p, t).turn = t
  BY <1>1 DEF Permit, Permits, Circuits
<1>3. now' = now
  BY DEF Admit
<1>4. CASE circuit.until > 0
  <2>1. /\ call' = [call EXCEPT ![c] = Permit(minted', turn')]
        /\ minted' = minted + 1 /\ turn' = turn + 1
        /\ circuit' = Touched([circuit EXCEPT !.probe = minted', !.probeUntil = now + Lease])
    BY <1>4 DEF Admit
  <2>2. minted' \in Nat /\ turn' \in Nat
    BY <1>1, <2>1
  <2>3. call'[c] = Permit(minted', turn')
    BY <1>1, <2>1
  <2>4. /\ probing \in Circuits /\ probing.until = circuit.until /\ probing.epoch = circuit.epoch
        /\ probing.probe = minted + 1 /\ probing.probeUntil = now + Lease
    <3>1. minted + 1 \in Nat
      BY <1>1
    <3> QED
      BY <1>1, <3>1 DEF Circuits
  <2>5. circuit' = Touched(probing)
    BY <2>1
  <2> HIDE DEF probing
  <2>6. /\ circuit' \in Circuits /\ circuit'.live /\ circuit'.expires = now + StateTTL
        /\ circuit'.until = circuit.until /\ circuit'.epoch = circuit.epoch
        /\ circuit'.probe = minted + 1 /\ circuit'.probeUntil = now + Lease
    BY <1>1, <2>4, <2>5, TouchedType
  <2>7. /\ call'[c] \in Permits /\ call'[c].out /\ call'[c].age = 0
        /\ call'[c].epoch = circuit.epoch /\ call'[c].probe = minted'
        /\ call'[c].lease = now + Lease /\ call'[c].turn = turn'
    BY <1>2, <2>2, <2>3
  <2>8. call' = [call EXCEPT ![c] = call'[c]]
    BY <2>1, <2>3
  <2> QED
    BY <1>3, <1>4, <2>1, <2>2, <2>6, <2>7, <2>8
<1>5. CASE ~(circuit.until > 0)
  <2>1. /\ call' = [call EXCEPT ![c] = Permit(0, turn)] /\ circuit' = Touched(circuit)
        /\ minted' = minted /\ turn' = turn
    BY <1>5 DEF Admit
  <2>2. call'[c] = Permit(0, turn)
    BY <1>1, <2>1
  <2>3. circuit.until = 0
    BY <1>1, <1>5 DEF Circuits
  <2>4. /\ circuit' \in Circuits /\ circuit'.live /\ circuit'.expires = now + StateTTL
        /\ circuit'.until = circuit.until /\ circuit'.epoch = circuit.epoch
        /\ circuit'.probe = circuit.probe /\ circuit'.probeUntil = circuit.probeUntil
    BY <1>1, <2>1, TouchedType
  <2>5. /\ call'[c] \in Permits /\ call'[c].out /\ call'[c].age = 0
        /\ call'[c].epoch = circuit.epoch /\ call'[c].probe = 0
        /\ call'[c].lease = now + Lease /\ call'[c].turn = turn'
    BY <1>1, <1>2, <2>1, <2>2
  <2>6. call' = [call EXCEPT ![c] = call'[c]]
    BY <2>1, <2>2
  <2> QED
    BY <1>1, <1>3, <2>1, <2>3, <2>4, <2>5, <2>6
<1> QED
  BY <1>4, <1>5

LEMMA ChargeType ==
  ASSUME TypeOK, NEW c \in Callers, NEW cost \in Costs, Charge(c, cost)
  PROVE  /\ quota' \in Quotas
         /\ spent' \in [0..MaxTime -> [requests : Nat, tokens : Nat, by : SUBSET LimitSpace]]
<1>1. Drawn \in Quotas /\ Limits[c] \in LimitSpace /\ cost \in Nat /\ now + QuotaTTL \in Nat
  BY WindowFacts, ConstantFacts DEF TypeOK
<1>2. quota' \in Quotas
  BY <1>1 DEF Charge, Quotas
<1> DEFINE s == spent[Drawn.window]
<1>3. Drawn.window \in 0..MaxTime /\ s \in [requests : Nat, tokens : Nat, by : SUBSET LimitSpace]
  BY <1>1 DEF TypeOK, Quotas
<1>4. spent' = [spent EXCEPT ![Drawn.window] =
                  [requests |-> s.requests + 1, tokens |-> s.tokens + cost,
                   by |-> s.by \cup {Limits[c]}]]
  BY DEF Charge
<1> HIDE DEF s
<1>5. [requests |-> s.requests + 1, tokens |-> s.tokens + cost, by |-> s.by \cup {Limits[c]}]
        \in [requests : Nat, tokens : Nat, by : SUBSET LimitSpace]
  BY <1>1, <1>3
<1> QED
  BY <1>2, <1>3, <1>4, <1>5 DEF TypeOK

(* Types hold for ever, and nothing holds others off beyond its cooldown   *)
(* or lease.                                                               *)
LEMMA TypeStep == TypeOK /\ [Next]_vars => TypeOK'
<1> SUFFICES ASSUME TypeOK, [Next]_vars
             PROVE  TypeOK'
  OBVIOUS
<1>1. ASSUME NEW c \in Callers, NEW cost \in Costs, Admit(c, cost)
      PROVE  TypeOK'
  <2>1. Charge(c, cost)
    BY <1>1 DEF Admit
  <2>2. call' \in [Callers -> Permits]
    BY <1>1, AdmitType DEF TypeOK
  <2>3. now' = now /\ circuit' \in Circuits /\ circuit'.until = circuit.until
        /\ minted' \in Nat /\ turn' \in Nat
    BY <1>1, AdmitType
  <2>4. circuit'.probeUntil <= now + Lease
    <3>1. now + Lease \in Nat /\ circuit.probeUntil <= now + Lease
      BY ConstantFacts DEF TypeOK
    <3>2. circuit'.probeUntil \in {now + Lease, circuit.probeUntil}
      BY <1>1, AdmitType
    <3> QED
      BY <3>1, <3>2
  <2> QED
    BY <2>1, <2>2, <2>3, <2>4, ChargeType DEF TypeOK
<1>2. ASSUME NEW c \in Callers, Report(c)
      PROVE  TypeOK'
  <2>1. call' \in [Callers -> Permits]
    BY <1>2 DEF Report, Close, NoPermit, Permits, TypeOK
  <2>2. CASE Heard(c)
    BY <1>2, <2>1, <2>2, ReportType DEF Report, TypeOK
  <2>3. CASE ~Heard(c)
    BY <1>2, <2>1, <2>3 DEF Report, TypeOK
  <2> QED
    BY <2>2, <2>3
<1>3. ASSUME NEW c \in Callers, Lose(c)
      PROVE  TypeOK'
  BY <1>3 DEF Lose, Close, NoPermit, Permits, TypeOK
<1>4. CASE Tick
  <2>1. call' \in [Callers -> Permits]
    <3> SUFFICES ASSUME NEW c \in Callers
                 PROVE  (IF call[c].out THEN [call[c] EXCEPT !.age = @ + 1] ELSE call[c]) \in Permits
      BY <1>4 DEF Tick
    <3>1. call[c] \in Permits
      BY DEF TypeOK
    <3>2. call[c].age + 1 \in Nat
      BY <3>1 DEF Permits
    <3>3. [call[c] EXCEPT !.age = @ + 1] \in Permits
      BY <3>1, <3>2 DEF Permits
    <3> QED
      BY <3>1, <3>3
  <2>2. now' = now + 1 /\ now' \in 0..MaxTime
    <3>1. now < MaxTime /\ now' = now + 1
      BY <1>4 DEF Tick
    <3>2. now \in 0..MaxTime /\ MaxTime \in Nat
      BY ConstantFacts DEF TypeOK
    <3> QED
      BY <3>1, <3>2
  <2>3. circuit' \in Circuits /\ turn' \in Nat /\ circuit'.until <= now' + Cooldown
        /\ circuit'.probeUntil <= now' + Lease
    <3>1. (circuit' = circuit /\ turn' = turn) \/ (circuit' = NoCircuit /\ turn' = turn + 1)
      BY <1>4 DEF Tick
    <3>2. now \in Nat /\ turn \in Nat /\ Cooldown \in Nat /\ Lease \in Nat
      BY ConstantFacts DEF TypeOK
    <3>3. NoCircuit \in Circuits /\ NoCircuit.until = 0 /\ NoCircuit.probeUntil = 0
      BY DEF NoCircuit, Circuits
    <3>4. circuit \in Circuits /\ circuit.until <= now + Cooldown
          /\ circuit.probeUntil <= now + Lease /\ circuit.until \in Nat /\ circuit.probeUntil \in Nat
      BY DEF TypeOK, Circuits
    <3>5. CASE circuit' = circuit /\ turn' = turn
      BY <2>2, <3>2, <3>4, <3>5
    <3>6. CASE circuit' = NoCircuit /\ turn' = turn + 1
      BY <2>2, <3>2, <3>3, <3>6
    <3> QED
      BY <3>1, <3>5, <3>6
  <2>4. quota' \in Quotas
    BY <1>4, ConstantFacts DEF Tick, TypeOK, NoQuota, Quotas
  <2> QED
    BY <1>4, <2>1, <2>2, <2>3, <2>4 DEF Tick, TypeOK
<1>5. CASE UNCHANGED vars
  BY <1>5 DEF vars, TypeOK, Circuits, Quotas, Permits
<1> QED
  BY <1>1, <1>2, <1>3, <1>4, <1>5 DEF Next

LEMMA TypeInit == Init => TypeOK
BY ConstantFacts DEF Init, TypeOK, NoCircuit, NoQuota, NoPermit, Circuits, Quotas, Permits

(* Types hold for ever, and no cooldown or probe lease reaches further     *)
(* than one cooldown or lease from now.                                    *)
THEOREM AdmissionTyped == Spec => []TypeOK
BY TypeInit, TypeStep, PTL DEF Spec

----------------------------------------------------------------------------
(* What is known of a permit that is still out. *)
PermitOK(p) ==
  /\ circuit.live
  /\ p.epoch <= circuit.epoch /\ p.probe <= minted
  /\ circuit.expires - now + p.age >= StateTTL
  /\ p.epoch = circuit.epoch /\ p.probe = circuit.probe => p.turn = turn

PermitInv == \A c \in Callers : call[c].out => PermitOK(call[c])

LEMMA PermitStep == TypeOK /\ PermitInv /\ [Next]_vars => PermitInv'
<1> SUFFICES ASSUME TypeOK, PermitInv, [Next]_vars, NEW d \in Callers, call'[d].out
             PROVE  PermitOK(call[d])'
  BY DEF PermitInv
<1> USE DEF PermitOK
<1>0. /\ now \in Nat /\ minted \in Nat /\ turn \in Nat /\ StateTTL \in Nat
      /\ circuit \in Circuits /\ call[d] \in Permits /\ call \in [Callers -> Permits]
  BY ConstantFacts DEF TypeOK
<1>00. /\ circuit.epoch \in Nat /\ circuit.probe \in Nat /\ circuit.expires \in Nat
       /\ call[d].epoch \in Nat /\ call[d].probe \in Nat /\ call[d].age \in Nat
       /\ call[d].turn \in Nat
  BY <1>0 DEF Circuits, Permits
<1>1. ASSUME NEW c \in Callers, NEW cost \in Costs, Admit(c, cost)
      PROVE  PermitOK(call[d])'
  <2>1. /\ circuit'.live /\ circuit'.expires = now + StateTTL /\ circuit'.epoch = circuit.epoch
        /\ now' = now
    BY <1>1, AdmitType
  <2>2. \/ minted' = minted + 1 /\ circuit'.probe = minted'
        \/ minted' = minted /\ circuit'.probe = circuit.probe /\ turn' = turn
    BY <1>1, AdmitType
  <2>3. CASE d = c
    <3>1. /\ call'[d].age = 0 /\ call'[d].epoch = circuit.epoch /\ call'[d].turn = turn'
          /\ call'[d].probe = 0 \/ call'[d].probe = minted'
      BY <1>1, <2>3, AdmitType
    <3> QED
      BY <1>0, <1>00, <2>1, <2>2, <3>1
  <2>4. CASE d # c
    <3>1. call' = [call EXCEPT ![c] = call'[c]]
      BY <1>1, AdmitType
    <3>2. call'[d] = call[d]
      BY <1>0, <2>4, <3>1
    <3>3. PermitOK(call[d])
      BY <3>2 DEF PermitInv
    <3> QED
      BY <1>0, <1>00, <2>1, <2>2, <3>2, <3>3
  <2> QED
    BY <2>3, <2>4
<1>2. ASSUME NEW c \in Callers, Report(c)
      PROVE  PermitOK(call[d])'
  <2>1. d # c /\ call'[d] = call[d] /\ now' = now /\ minted' = minted
    BY <1>0, <1>2 DEF Report, Close, NoPermit
  <2>2. PermitOK(call[d])
    BY <2>1 DEF PermitInv
  <2>3. CASE Heard(c)
    <3>1. Ok \/ Failed \/ Abandoned
      BY <1>2, <2>3 DEF Report
    <3>2. /\ circuit'.live /\ circuit'.expires = now + StateTTL
          /\ \/ circuit'.epoch = circuit.epoch + 1 /\ circuit'.probe = 0
             \/ circuit'.epoch = circuit.epoch /\ circuit'.probe = circuit.probe /\ turn' = turn
      BY <3>1, ReportType
    <3> QED
      BY <1>0, <1>00, <2>1, <2>2, <3>2
  <2>4. CASE ~Heard(c)
    BY <1>2, <2>1, <2>2, <2>4 DEF Report
  <2> QED
    BY <2>3, <2>4
<1>3. ASSUME NEW c \in Callers, Lose(c)
      PROVE  PermitOK(call[d])'
  <2>1. d # c /\ call'[d] = call[d]
    BY <1>0, <1>3 DEF Lose, Close, NoPermit
  <2> QED
    BY <1>3, <2>1 DEF Lose, PermitInv
<1>4. CASE Tick
  <2>1. call'[d] = IF call[d].out THEN [call[d] EXCEPT !.age = @ + 1] ELSE call[d]
    BY <1>4 DEF Tick
  <2>2. call[d].out /\ PermitOK(call[d])
    BY <2>1 DEF PermitInv
  <2>3. /\ call'[d].age = call[d].age + 1 /\ call'[d].epoch = call[d].epoch
        /\ call'[d].probe = call[d].probe /\ call'[d].turn = call[d].turn
    BY <1>0, <2>1, <2>2 DEF Permits
  <2>4. call[d].age < Lifetime /\ now' = now + 1 /\ minted' = minted
    BY <1>4, <2>2 DEF Tick
  <2>5. ~(circuit.expires <= now')
    BY <1>0, <1>00, <2>2, <2>4, ConstantFacts
  <2>6. circuit' = circuit /\ turn' = turn
    BY <1>4, <2>5 DEF Tick
  <2> QED
    BY <1>0, <1>00, <2>2, <2>3, <2>4, <2>6
<1>5. CASE UNCHANGED vars
  BY <1>5 DEF vars, PermitInv
<1> QED
  BY <1>1, <1>2, <1>3, <1>4, <1>5 DEF Next

LEMMA PermitHeld == Spec => [](TypeOK /\ PermitInv)
<1>1. Init => TypeOK /\ PermitInv
  BY TypeInit DEF Init, PermitInv, NoPermit
<1>2. TypeOK /\ PermitInv /\ [Next]_vars => TypeOK' /\ PermitInv'
  BY TypeStep, PermitStep
<1> QED
  BY <1>1, <1>2, PTL DEF Spec

(* A report that arrives after the circuit opened, recovered, lost its     *)
(* probe or expired changes nothing.                                       *)
THEOREM LateReportsFenced == Spec => Fenced
<1> DEFINE Fence ==
      \A c \in Callers : call[c].out /\ ~call'[c].out /\ circuit' # circuit => call[c].turn = turn
<1>1. TypeOK /\ PermitInv /\ [Next]_vars => [Fence]_vars
  <2> SUFFICES ASSUME TypeOK, PermitInv, Next, NEW d \in Callers,
                      call[d].out, ~call'[d].out, circuit' # circuit
               PROVE  call[d].turn = turn
    OBVIOUS
  <2>0. call \in [Callers -> Permits]
    BY DEF TypeOK
  <2>1. ASSUME NEW c \in Callers, NEW cost \in Costs, Admit(c, cost)
        PROVE  FALSE
    <3>1. call' = [call EXCEPT ![c] = call'[c]] /\ call'[c].out
      BY <2>1, AdmitType
    <3> QED
      BY <2>0, <3>1
  <2>2. ASSUME NEW c \in Callers, Report(c)
        PROVE  call[d].turn = turn
    <3>1. d = c
      BY <2>0, <2>2 DEF Report, Close
    <3>2. Heard(d)
      BY <2>2, <3>1 DEF Report
    <3> QED
      BY <3>2 DEF Heard, PermitInv, PermitOK
  <2>3. ASSUME NEW c \in Callers, Lose(c)
        PROVE  FALSE
    BY <2>3 DEF Lose
  <2>4. CASE Tick
    <3>1. call'[d] = [call[d] EXCEPT !.age = @ + 1]
      BY <2>4 DEF Tick
    <3>2. call'[d].out = call[d].out
      BY <2>0, <3>1 DEF Permits
    <3> QED
      BY <3>2
  <2> QED
    BY <2>1, <2>2, <2>3, <2>4 DEF Next
<1> QED
  BY <1>1, PermitHeld, PTL DEF Spec, Fenced

----------------------------------------------------------------------------
(* Tokens are handed to one caller each, and a running lease is the one    *)
(* the circuit records.                                                    *)
Token(c) == call[c].out /\ call[c].probe # 0

LeaseOK(c) ==
  /\ circuit.live /\ circuit.probe = call[c].probe
  /\ circuit.probeUntil = call[c].lease /\ call[c].lease <= circuit.expires

ProbeInv ==
  /\ \A c, d \in Callers : Token(c) /\ Token(d) /\ call[c].probe = call[d].probe => c = d
  /\ \A c \in Callers : Probing(c) => LeaseOK(c)

LEMMA OneProbeHolds == TypeOK /\ ProbeInv => OneProbe
BY DEF ProbeInv, OneProbe, Probing, Token, LeaseOK

LEMMA ProbeStep == TypeOK /\ PermitInv /\ ProbeInv /\ [Next]_vars => ProbeInv'
<1> SUFFICES ASSUME TypeOK, PermitInv, ProbeInv, [Next]_vars
             PROVE  ProbeInv'
  OBVIOUS
<1>0. /\ now \in Nat /\ minted \in Nat /\ StateTTL \in Nat /\ Lease \in Nat /\ Lease < StateTTL
      /\ circuit \in Circuits /\ call \in [Callers -> Permits]
      /\ circuit.probe \in Nat /\ circuit.probeUntil \in Nat /\ circuit.expires \in Nat
      /\ circuit.until \in Nat /\ circuit.until <= now + Cooldown /\ circuit.probeUntil <= now + Lease
  BY ConstantFacts DEF TypeOK, Circuits
<1>00. \A d \in Callers : call[d].probe \in Nat /\ call[d].lease \in Nat
  BY <1>0 DEF Permits
<1>1. ASSUME NEW c \in Callers, NEW cost \in Costs, Admit(c, cost)
      PROVE  ProbeInv'
  <2>1. /\ call' = [call EXCEPT ![c] = call'[c]] /\ call'[c].out
        /\ circuit'.live /\ circuit'.expires = now + StateTTL /\ now' = now
        /\ call'[c].lease = now + Lease
        /\ \/ /\ circuit.until > 0 /\ minted' = minted + 1
              /\ circuit'.probe = minted' /\ circuit'.probeUntil = now + Lease
              /\ call'[c].probe = minted'
           \/ /\ circuit'.probe = circuit.probe /\ circuit'.probeUntil = circuit.probeUntil
              /\ call'[c].probe = 0
    BY <1>1, AdmitType
  <2>2. \A d \in Callers \ {c} : call'[d] = call[d]
    BY <1>0, <2>1
  <2>3. \A d \in Callers : call[d].out => call[d].probe <= minted
    BY DEF PermitInv, PermitOK
  <2>4. ASSUME circuit.until > 0, NEW d \in Callers, Probing(d)
        PROVE  FALSE
    <3>1. circuit.probeUntil > now
      BY <2>4 DEF ProbeInv, Probing, LeaseOK
    <3> QED
      BY <1>1, <2>4, <3>1 DEF Admit, CircuitAdmits
  <2>5. ASSUME NEW a \in Callers, NEW b \in Callers, Token(a)', Token(b)',
               call'[a].probe = call'[b].probe
        PROVE  a = b
    <3>1. CASE a # c /\ b # c
      BY <2>2, <2>5, <3>1 DEF ProbeInv, Token
    <3>2. CASE a = c /\ b # c
      BY <1>0, <1>00, <2>1, <2>2, <2>3, <2>5, <3>2 DEF Token
    <3>3. CASE a # c /\ b = c
      BY <1>0, <1>00, <2>1, <2>2, <2>3, <2>5, <3>3 DEF Token
    <3> QED
      BY <3>1, <3>2, <3>3
  <2>6. ASSUME NEW a \in Callers, Probing(a)'
        PROVE  LeaseOK(a)'
    <3>1. CASE a = c
      BY <1>0, <2>1, <2>6, <3>1 DEF Probing, LeaseOK
    <3>2. CASE a # c
      <4>1. call'[a] = call[a] /\ Probing(a)
        BY <2>1, <2>2, <2>6, <3>2 DEF Probing
      <4>2. LeaseOK(a) /\ ~(circuit.until > 0)
        BY <2>4, <4>1 DEF ProbeInv
      <4> QED
        BY <1>0, <2>1, <4>1, <4>2 DEF LeaseOK
    <3> QED
      BY <3>1, <3>2
  <2> QED
    BY <2>5, <2>6 DEF ProbeInv
<1>2. ASSUME NEW c \in Callers, Report(c)
      PROVE  ProbeInv'
  <2>1. /\ now' = now /\ call[c].out /\ ~call'[c].out
        /\ \A d \in Callers \ {c} : call'[d] = call[d]
    BY <1>0, <1>2 DEF Report, Close, NoPermit
  <2>2. ASSUME NEW a \in Callers, NEW b \in Callers, Token(a)', Token(b)',
               call'[a].probe = call'[b].probe
        PROVE  a = b
    BY <2>1, <2>2 DEF Token, ProbeInv
  <2>3. ASSUME NEW a \in Callers, Probing(a)'
        PROVE  LeaseOK(a)'
    <3>1. a # c /\ call'[a] = call[a] /\ Probing(a)
      BY <2>1, <2>3 DEF Probing
    <3>2. LeaseOK(a)
      BY <3>1 DEF ProbeInv
    <3>3. CASE Heard(c)
      <4>1. call[c].probe = circuit.probe
        BY <3>3 DEF Heard
      <4>2. Token(a) /\ Token(c) /\ call[c].probe = call[a].probe
        BY <2>1, <3>1, <3>2, <4>1 DEF Token, Probing, LeaseOK
      <4> QED
        BY <3>1, <4>2 DEF ProbeInv
    <3>4. CASE ~Heard(c)
      BY <1>2, <3>1, <3>2, <3>4 DEF Report, LeaseOK
    <3> QED
      BY <3>3, <3>4
  <2> QED
    BY <2>2, <2>3 DEF ProbeInv
<1>3. ASSUME NEW c \in Callers, Lose(c)
      PROVE  ProbeInv'
  <2>1. /\ now' = now /\ circuit' = circuit /\ ~call'[c].out
        /\ \A d \in Callers \ {c} : call'[d] = call[d]
    BY <1>0, <1>3 DEF Lose, Close, NoPermit
  <2> QED
    BY <2>1 DEF ProbeInv, Token, Probing, LeaseOK
<1>4. CASE Tick
  <2>1. \A d \in Callers : /\ call'[d].out = call[d].out /\ call'[d].probe = call[d].probe
                           /\ call'[d].lease = call[d].lease
    <3> SUFFICES ASSUME NEW d \in Callers
                 PROVE  /\ call'[d].out = call[d].out /\ call'[d].probe = call[d].probe
                        /\ call'[d].lease = call[d].lease
      OBVIOUS
    <3>1. call'[d] = [call[d] EXCEPT !.age = @ + 1] \/ call'[d] = call[d]
      BY <1>4 DEF Tick
    <3>2. call[d] \in Permits
      BY <1>0
    <3> QED
      BY <3>1, <3>2 DEF Permits
  <2>2. now' = now + 1
    BY <1>4 DEF Tick
  <2>3. ASSUME NEW a \in Callers, NEW b \in Callers, Token(a)', Token(b)',
               call'[a].probe = call'[b].probe
        PROVE  a = b
    BY <2>1, <2>3 DEF Token, ProbeInv
  <2>4. ASSUME NEW a \in Callers, Probing(a)'
        PROVE  LeaseOK(a)'
    <3>1. Probing(a) /\ call[a].lease > now'
      BY <1>0, <1>00, <2>1, <2>2, <2>4 DEF Probing
    <3>2. LeaseOK(a)
      BY <3>1 DEF ProbeInv
    <3>3. ~(circuit.expires <= now')
      BY <1>0, <1>00, <2>2, <3>1, <3>2 DEF LeaseOK
    <3>4. circuit' = circuit
      BY <1>4, <3>3 DEF Tick
    <3> QED
      BY <2>1, <3>2, <3>4 DEF LeaseOK
  <2> QED
    BY <2>3, <2>4 DEF ProbeInv
<1>5. CASE UNCHANGED vars
  BY <1>5 DEF vars, ProbeInv, Token, Probing, LeaseOK
<1> QED
  BY <1>1, <1>2, <1>3, <1>4, <1>5 DEF Next

(* At most one request at a time probes a suspected provider. *)
THEOREM SingleProbe == Spec => []OneProbe
<1>1. Init => ProbeInv
  BY DEF Init, ProbeInv, Token, Probing, NoPermit
<1>2. ProbeInv /\ TypeOK /\ PermitInv /\ [Next]_vars => ProbeInv'
  BY ProbeStep
<1> QED
  BY <1>1, <1>2, PermitHeld, OneProbeHolds, PTL DEF Spec

----------------------------------------------------------------------------
(* The quota key records what its window was charged, under one set of     *)
(* limits; no later window was charged, and the key outlives its window.   *)
Unspent(w) == spent[w].requests = 0 /\ spent[w].tokens = 0 /\ spent[w].by = {}

KeyOK ==
  quota.live =>
    /\ quota.limits \in LimitSpace
    /\ quota.window <= ThisWindow
    /\ Window * (quota.window + 1) <= quota.expires
    /\ spent[quota.window].requests = quota.requests
    /\ spent[quota.window].tokens = quota.tokens
    /\ spent[quota.window].by = {quota.limits}

AheadUnspent ==
  \A w \in 0..MaxTime :
    (IF quota.live THEN w > quota.window ELSE w >= ThisWindow) => Unspent(w)

QuotaInv == KeyOK /\ AheadUnspent /\ QuotaHeld

(* What is drawn from is what the window in force was charged. *)
LEMMA DrawnFacts ==
  ASSUME TypeOK, QuotaInv
  PROVE  /\ Drawn.window = ThisWindow
         /\ Drawn.requests = spent[ThisWindow].requests
         /\ Drawn.tokens = spent[ThisWindow].tokens
         /\ spent[ThisWindow].by \subseteq (IF quota.live THEN {quota.limits} ELSE {})
<1>1. ThisWindow \in 0..MaxTime /\ quota \in Quotas /\ quota.window \in 0..MaxTime
  BY WindowFacts DEF TypeOK, Quotas
<1>2. CASE quota.live /\ quota.window >= ThisWindow
  <2>1. quota.window = ThisWindow
    BY <1>1, <1>2 DEF QuotaInv, KeyOK
  <2> QED
    BY <1>2, <2>1 DEF Drawn, QuotaInv, KeyOK
<1>3. CASE ~(quota.live /\ quota.window >= ThisWindow)
  <2>1. Unspent(ThisWindow)
    BY <1>1, <1>3 DEF QuotaInv, AheadUnspent
  <2>2. Drawn = [quota EXCEPT !.window = ThisWindow, !.requests = 0, !.tokens = 0]
    BY <1>3 DEF Drawn
  <2>3. Drawn.window = ThisWindow /\ Drawn.requests = 0 /\ Drawn.tokens = 0
    BY <1>1, <2>2 DEF Quotas
  <2> QED
    BY <2>1, <2>3 DEF Unspent
<1> QED
  BY <1>2, <1>3

LEMMA QuotaStep == TypeOK /\ QuotaInv /\ [Next]_vars => QuotaInv'
<1> SUFFICES ASSUME TypeOK, QuotaInv, [Next]_vars
             PROVE  QuotaInv'
  OBVIOUS
<1>0. /\ now \in Nat /\ Window \in Nat \ {0} /\ QuotaTTL \in Nat /\ Window < QuotaTTL
      /\ MaxTime \in Nat /\ ThisWindow \in 0..MaxTime /\ ThisWindow \in Nat
      /\ Window * ThisWindow <= now
      /\ quota \in Quotas /\ quota.window \in 0..MaxTime
  BY WindowFacts, ConstantFacts DEF TypeOK, Quotas
<1>1. ASSUME NEW c \in Callers, NEW cost \in Costs, Admit(c, cost)
      PROVE  QuotaInv'
  <2> DEFINE t == ThisWindow
  <2> DEFINE s == spent[t]
  <2> DEFINE r == [requests |-> s.requests + 1, tokens |-> s.tokens + cost,
                   by |-> s.by \cup {Limits[c]}]
  <2>1. now' = now /\ ThisWindow' = ThisWindow
    BY <1>1 DEF Admit, ThisWindow
  <2>2. /\ Drawn.window = t /\ Drawn.requests = s.requests /\ Drawn.tokens = s.tokens
        /\ s.by \subseteq (IF quota.live THEN {quota.limits} ELSE {})
    BY DrawnFacts
  <2>3. /\ quota.live => quota.limits = Limits[c]
        /\ s.requests + 1 <= Limits[c].rpm /\ s.tokens + cost <= Limits[c].tpm
    BY <1>1, <2>2 DEF Admit, QuotaAdmits
  <2>4. r.by = {Limits[c]}
    BY <2>2, <2>3
  <2>5. /\ quota' = [live |-> TRUE, window |-> t, requests |-> s.requests + 1,
                     tokens |-> s.tokens + cost, limits |-> Limits[c],
                     expires |-> now + QuotaTTL]
        /\ spent' = [spent EXCEPT ![t] = r]
    BY <1>1, <2>2 DEF Admit, Charge
  <2>6. /\ spent'[t] = r /\ r.requests = s.requests + 1 /\ r.tokens = s.tokens + cost
        /\ \A w \in 0..MaxTime : w # t => spent'[w] = spent[w]
    BY <1>0, <2>5 DEF TypeOK
  <2>7. Limits[c] \in LimitSpace
    BY ConstantFacts
  <2>8. Window * (t + 1) <= now + QuotaTTL
    <3>1. Window * (t + 1) = Window * t + Window
      BY <1>0
    <3> QED
      BY <1>0, <3>1
  <2> HIDE DEF r, s, t
  <2>9. /\ quota'.live /\ quota'.window = t /\ quota'.requests = s.requests + 1
        /\ quota'.tokens = s.tokens + cost /\ quota'.limits = Limits[c]
        /\ quota'.expires = now + QuotaTTL
    BY <2>5
  <2>10. t = ThisWindow /\ t \in Nat
    BY <1>0 DEF t
  <2>11. KeyOK'
    BY <2>1, <2>4, <2>6, <2>7, <2>8, <2>9, <2>10 DEF KeyOK
  <2>12. AheadUnspent'
    <3> SUFFICES ASSUME NEW w \in 0..MaxTime, w > t
                 PROVE  Unspent(w)'
      BY <2>9 DEF AheadUnspent
    <3>1. spent'[w] = spent[w]
      BY <2>6, <2>10
    <3>2. Unspent(w)
      BY <1>0, <2>10 DEF QuotaInv, AheadUnspent, KeyOK
    <3> QED
      BY <3>1, <3>2 DEF Unspent
  <2>13. QuotaHeld'
    <3> SUFFICES ASSUME NEW w \in 0..MaxTime, NEW l \in spent'[w].by
                 PROVE  spent'[w].by = {l} /\ spent'[w].requests <= l.rpm
                        /\ spent'[w].tokens <= l.tpm
      BY DEF QuotaHeld
    <3>1. CASE w = t
      BY <2>3, <2>4, <2>6, <3>1 DEF s
    <3>2. CASE w # t
      BY <2>6, <3>2 DEF QuotaInv, QuotaHeld
    <3> QED
      BY <3>1, <3>2
  <2> QED
    BY <2>11, <2>12, <2>13 DEF QuotaInv
<1>2. ASSUME UNCHANGED <<now, quota, spent>>
      PROVE  QuotaInv'
  BY <1>2 DEF QuotaInv, KeyOK, AheadUnspent, QuotaHeld, Unspent, ThisWindow
<1>3. CASE Tick
  <2>1. now' = now + 1 /\ now' \in Nat /\ spent' = spent
    BY <1>0, <1>3 DEF Tick
  <2>2. ThisWindow' \in Nat /\ ThisWindow <= ThisWindow'
    BY <1>0, <2>1, DivFacts, DivMono DEF ThisWindow
  <2>3. QuotaHeld'
    BY <2>1 DEF QuotaInv, QuotaHeld
  <2>4. CASE quota.live /\ quota.expires <= now'
    <3>1. quota' = NoQuota /\ ~quota'.live
      BY <1>3, <2>4 DEF Tick, NoQuota
    <3>2. quota.window \in Nat /\ Window * (quota.window + 1) <= quota.expires
          /\ quota.expires \in Nat
      BY <1>0, <2>4 DEF QuotaInv, KeyOK, Quotas
    <3>3. Window * (quota.window + 1) <= now'
      BY <1>0, <2>1, <2>4, <3>2
    <3>4. quota.window < ThisWindow'
      BY <1>0, <2>1, <3>2, <3>3, DivPast DEF ThisWindow
    <3>5. AheadUnspent'
      <4> SUFFICES ASSUME NEW w \in 0..MaxTime, w >= ThisWindow'
                   PROVE  Unspent(w)'
        BY <3>1 DEF AheadUnspent
      <4>1. w > quota.window
        BY <2>2, <3>2, <3>4
      <4>2. Unspent(w)
        BY <2>4, <4>1 DEF QuotaInv, AheadUnspent
      <4> QED
        BY <2>1, <4>2 DEF Unspent
    <3>6. KeyOK'
      BY <3>1 DEF KeyOK
    <3> QED
      BY <2>3, <3>5, <3>6 DEF QuotaInv
  <2>5. CASE ~(quota.live /\ quota.expires <= now')
    <3>1. quota' = quota
      BY <1>3, <2>5 DEF Tick
    <3>2. KeyOK'
      BY <1>0, <2>1, <2>2, <3>1 DEF QuotaInv, KeyOK
    <3>3. AheadUnspent'
      <4> SUFFICES ASSUME NEW w \in 0..MaxTime,
                          IF quota.live THEN w > quota.window ELSE w >= ThisWindow'
                   PROVE  Unspent(w)'
        BY <3>1 DEF AheadUnspent
      <4>1. Unspent(w)
        BY <1>0, <2>2 DEF QuotaInv, AheadUnspent
      <4> QED
        BY <2>1, <4>1 DEF Unspent
    <3> QED
      BY <2>3, <3>2, <3>3 DEF QuotaInv
  <2> QED
    BY <2>4, <2>5
<1>4. (\E c \in Callers : Report(c) \/ Lose(c)) \/ UNCHANGED vars => UNCHANGED <<now, quota, spent>>
  BY DEF Report, Lose, vars
<1> QED
  BY <1>1, <1>2, <1>3, <1>4 DEF Next

(* No window of the account is ever charged beyond its limits, and never   *)
(* by deployments that disagree about them.                                *)
THEOREM QuotaNeverExceeded == Spec => []QuotaHeld
<1>1. Init => QuotaInv
  <2> SUFFICES ASSUME Init PROVE QuotaInv
    OBVIOUS
  <2>1. ~quota.live /\ \A w \in 0..MaxTime : Unspent(w)
    BY DEF Init, NoQuota, Unspent
  <2> QED
    BY <2>1 DEF QuotaInv, KeyOK, AheadUnspent, QuotaHeld, Unspent
<1>2. TypeOK /\ QuotaInv /\ [Next]_vars => QuotaInv'
  BY QuotaStep
<1>3. QuotaInv => QuotaHeld
  BY DEF QuotaInv
<1> QED
  BY <1>1, <1>2, <1>3, AdmissionTyped, PTL DEF Spec

(* Both together, for any callers, limits, windows, leases and time        *)
(* (SummaryAdmission, the scripts of summarization/admission.py).          *)
THEOREM AdmissionTheorem == Spec => []AdmissionSound
BY SingleProbe, QuotaNeverExceeded, PTL DEF AdmissionSound

-----------------------------------------------------------------------------
(* Summaries: one flight for each content *)

SummarySpec == SummaryInit /\ [][SummaryNext]_summaryVars

SummaryResults == {"none", "generated", "fallback", "error", Pending}
SummaryStages ==
  {"idle", "start", "follow", "lookup", "generate", "ask", "permit", "sent", "keep", "publish", "end", "answered"}
SummaryJobs ==
  [at : SummaryStages, content : Contents, deadline : Deadlines \cup {NoDeadline}, round : Nat, attempt : Nat,
   leader : Jobs, result : SummaryResults]
Entries == [content : Contents, kept : BOOLEAN]

SummaryTyped ==
  /\ time \in Nat /\ job \in [Jobs -> SummaryJobs] /\ flights \in [Contents -> Jobs \cup {NoOwner}]
  /\ future \in [Jobs -> SummaryResults] /\ works \in Seq(Entries) /\ permit \in [Jobs -> BOOLEAN]

\* Whoever works on a keyed content leads its flight, and a flight has such a leader.
FlightLed(j) ==
  /\ JobAt(j, {"start", "follow", "lookup", "keep", "publish", "end"}) => Content(j) \notin Unkeyed
  /\ Leading(j) /\ Content(j) \notin Unkeyed => flights[Content(j)] = j
Led == \A c \in Contents : flights[c] # NoOwner =>
         Leading(flights[c]) /\ Content(flights[c]) = c /\ c \notin Unkeyed

\* What a job asks for was read whole, and it asks with a permit and in time.
JobHonest(j) ==
  /\ JobAt(j, {"ask", "permit", "sent", "keep"}) \/ job[j].result = "generated" => Content(j) \notin Unread
  /\ permit[j] => JobAt(j, {"permit", "sent"})
  /\ JobAt(j, {"sent"}) => Budgeted(j) \/ time + Reserve = job[j].deadline

\* A future is the result of a job that published it; a follower waits for
\* another job with its content.
Published(j) ==
  /\ future[j] # Pending => JobAt(j, {"end", "answered"}) /\ future[j] = job[j].result
  /\ ~JobAt(j, {"follow", "answered"}) => job[j].leader = j
  /\ JobAt(j, {"follow"}) => ~JobAt(job[j].leader, {"idle"}) /\ Content(job[j].leader) = Content(j)
  /\ JobAt(j, {"answered"}) /\ job[j].leader # j => job[j].result \in {"fallback", future[job[j].leader]} /\ job[j].result # Pending

CacheHonest ==
  \A c \in Contents : Kept(c) =>
    c \notin Unread /\ \A j \in Jobs : JobAt(j, {"generate", "ask", "permit", "sent"}) /\ Content(j) = c => c \in Unkeyed

SummaryInv ==
  /\ SummaryTyped /\ Led /\ CacheHonest
  /\ \A j \in Jobs : FlightLed(j) /\ JobHonest(j) /\ Published(j)

(* The cache, oldest first, only loses entries but for the one put in.     *)
LEMMA PutKeeps ==
  ASSUME works \in Seq(Entries), NEW c \in Contents, NEW kept \in BOOLEAN, Put(c, kept)
  PROVE  /\ works' \in Seq(Entries)
         /\ \A d \in Contents : Kept(d)' => Kept(d) \/ (d = c /\ kept)
<1> DEFINE rec == [content |-> c, kept |-> kept]
           Old == {w \in Entries : w = rec \/ \E i \in DOMAIN works : w = works[i]}
<1>1. /\ Len(works) \in Nat /\ DOMAIN works = 1..Len(works)
      /\ \A i \in 1..Len(works) : works[i] \in Entries
  BY LenProperties, ElementOfSeq
<1>2. rec \in Old BY DEF Entries
<1>3. \A i \in 1..Len(works) : works[i] \in Old BY <1>1
<1> HIDE DEF Old
<1>4. works \in Seq(Old)
  <2>1. works = [i \in 1..Len(works) |-> works[i]] BY <1>1, LenProperties
  <2>2. [i \in 1..Len(works) |-> works[i]] \in Seq(Old) BY <1>1, <1>3, IsASeq
  <2> QED BY <2>1, <2>2
<1>5. Others(c) \in Seq(Old)
  <2>1. ASSUME NEW k \in DOMAIN works PROVE RemoveAt(works, k) \in Seq(Old)
    <3>1. k \in 1..Len(works) BY <1>1
    <3>2. SubSeq(works, 1, k - 1) \in Seq(Old)
      <4>1. 1 \in Int /\ k - 1 \in Int /\ \A i \in 1..(k - 1) : works[i] \in Old BY <1>1, <1>3, <3>1
      <4> QED BY <4>1, SubSeqProperties
    <3>3. SubSeq(works, k + 1, Len(works)) \in Seq(Old)
      <4>1. k + 1 \in Int /\ Len(works) \in Int /\ \A i \in (k + 1)..Len(works) : works[i] \in Old BY <1>1, <1>3, <3>1
      <4> QED BY <4>1, SubSeqProperties
    <3> QED BY <3>2, <3>3, ConcatProperties DEF RemoveAt
  <2> QED BY <1>4, <2>1 DEF Others
<1>6. Append(Others(c), rec) \in Seq(Old) BY <1>2, <1>5, AppendProperties
<1>7. \A s \in Seq(Old) : Trimmed(s) \in Seq(Old)
  <2> TAKE s \in Seq(Old)
  <2>1. Len(s) \in Nat /\ \A i \in 1..Len(s) : s[i] \in Old BY LenProperties, ElementOfSeq
  <2> DEFINE m == 1 + (IF Len(s) > MaxEntries THEN Len(s) - MaxEntries ELSE 0)
  <2>2. m \in Nat \ {0} BY <2>1, SummaryAssumption
  <2>3. Trimmed(s) = SubSeq(s, m, Len(s)) BY DEF Trimmed
  <2> HIDE DEF m
  <2>4. m \in Int /\ Len(s) \in Int /\ \A i \in m..Len(s) : s[i] \in Old BY <2>1, <2>2
  <2> QED BY <2>3, <2>4, SubSeqProperties
<1>8. works' \in Seq(Old) BY <1>6, <1>7 DEF Put
<1>9. DOMAIN works' = 1..Len(works') /\ \A i \in 1..Len(works') : works'[i] \in Old
  BY <1>8, LenProperties, ElementOfSeq
<1>10. works' \in Seq(Entries)
  <2>1. works' = [i \in 1..Len(works') |-> works'[i]] /\ Len(works') \in Nat BY <1>8, LenProperties
  <2>2. \A i \in 1..Len(works') : works'[i] \in Entries BY <1>9 DEF Old
  <2>3. [i \in 1..Len(works') |-> works'[i]] \in Seq(Entries) BY <2>1, <2>2, IsASeq
  <2> QED BY <2>1, <2>3
<1>11. ASSUME NEW d \in Contents, Kept(d)' PROVE Kept(d) \/ (d = c /\ kept)
  <2>1. PICK i \in DOMAIN works' : works'[i].content = d /\ works'[i].kept BY <1>11 DEF Kept, Work, ToSet
  <2>2. works'[i] = rec \/ \E k \in DOMAIN works : works'[i] = works[k] BY <1>9, <2>1 DEF Old
  <2> QED BY <2>1, <2>2 DEF Kept, Work, ToSet
<1> QED BY <1>10, <1>11

LEMMA Moved ==
  ASSUME SummaryTyped, NEW j \in Jobs, NEW new \in SummaryJobs, job' = [job EXCEPT ![j] = new]
  PROVE  /\ job' \in [Jobs -> SummaryJobs] /\ job'[j] = new /\ \A i \in Jobs : i # j => job'[i] = job[i]
         /\ Content(j)' = new.content /\ \A i \in Jobs : i # j => Content(i)' = Content(i)
BY DEF SummaryTyped, Content

Writing == {"generate", "ask", "permit", "sent"}

(* A step of the job that leads a flight, or works on an unkeyed content.  *)
LEMMA LeaderKeeps ==
  ASSUME SummaryInv, NEW j \in Jobs, NEW new \in SummaryJobs, job' = [job EXCEPT ![j] = new],
         JobAt(j, Writing \cup {"lookup", "keep"}),
         new.content = Content(j), new.leader = job[j].leader, new.deadline = job[j].deadline,
         \/ new.at \in Writing
         \/ new.at \in {"keep", "publish"} /\ Content(j) \notin Unkeyed
         \/ new.at = "answered" /\ Content(j) \in Unkeyed,
         new.at \in Writing => JobAt(j, Writing) \/ ~Kept(Content(j))',
         new.at \in {"ask", "permit", "sent", "keep"} \/ new.result = "generated" => Content(j) \notin Unread,
         permit' \in [Jobs -> BOOLEAN], \A i \in Jobs : i # j => permit'[i] = permit[i],
         permit'[j] => new.at \in {"permit", "sent"},
         new.at = "sent" => Budgeted(j),
         works' \in Seq(Entries),
         \A c \in Contents : Kept(c)' => Kept(c) \/ (c = Content(j) /\ c \notin Unread \cup Unkeyed /\ new.at \notin Writing),
         UNCHANGED <<time, flights, future>>
  PROVE  SummaryInv'
<1>1. /\ job' \in [Jobs -> SummaryJobs] /\ job'[j] = new /\ \A i \in Jobs : i # j => job'[i] = job[i]
      /\ \A i \in Jobs : Content(i)' = Content(i)
  BY Moved DEF SummaryInv
<1>2. SummaryTyped' BY <1>1 DEF SummaryInv, SummaryTyped
<1>3. \A i \in Jobs : Content(i) \in Contents BY DEF SummaryInv, SummaryTyped, SummaryJobs, Content
<1>4. Led'
  <2>1. \A i \in Jobs : Leading(i) /\ Content(i) \notin Unkeyed => Leading(i)'
    BY <1>1 DEF Leading, Generating, JobAt, Writing
  <2> QED BY <2>1, <1>1 DEF SummaryInv, SummaryTyped, Led
<1>5. Content(j) \notin Unkeyed => flights[Content(j)] = j
  BY DEF SummaryInv, FlightLed, Leading, Generating, JobAt, Writing
<1>6. CacheHonest'
  <2> SUFFICES ASSUME NEW c \in Contents, Kept(c)'
               PROVE  c \notin Unread /\ \A i \in Jobs : JobAt(i, Writing)' /\ Content(i) = c => c \in Unkeyed
    BY <1>1 DEF CacheHonest, Writing
  <2>1. CASE c = Content(j) /\ c \notin Unread \cup Unkeyed /\ new.at \notin Writing
    <3>1. ASSUME NEW i \in Jobs, i # j, JobAt(i, Writing)', Content(i) = c PROVE FALSE
      <4>1. JobAt(i, Writing) BY <1>1, <3>1 DEF JobAt
      <4>2. flights[c] = i BY <2>1, <3>1, <4>1 DEF SummaryInv, FlightLed, Leading, Generating, JobAt, Writing
      <4> QED BY <1>5, <2>1, <3>1, <4>2
    <3>2. ~JobAt(j, Writing)' BY <1>1, <2>1 DEF JobAt
    <3> QED BY <2>1, <3>1, <3>2
  <2>2. CASE Kept(c)
    <3>1. c \notin Unread /\ \A i \in Jobs : JobAt(i, Writing) /\ Content(i) = c => c \in Unkeyed
      BY <2>2 DEF SummaryInv, CacheHonest, Writing
    <3>2. ASSUME NEW i \in Jobs, JobAt(i, Writing)', Content(i) = c PROVE c \in Unkeyed
      <4>1. CASE i = j
        <5>1. JobAt(j, Writing) BY <1>1, <3>2, <4>1 DEF JobAt
        <5> QED BY <3>1, <3>2, <4>1, <5>1
      <4>2. CASE i # j
        <5>1. JobAt(i, Writing) BY <1>1, <3>2, <4>2 DEF JobAt
        <5> QED BY <3>1, <3>2, <5>1
      <4> QED BY <4>1, <4>2
    <3> QED BY <3>1, <3>2
  <2> QED BY <2>1, <2>2
<1>7. ASSUME NEW i \in Jobs PROVE FlightLed(i)'
  <2>1. CASE i # j BY <1>1, <2>1 DEF SummaryInv, FlightLed, Leading, Generating, JobAt
  <2>2. CASE i = j
    <3>1. JobAt(j, {"start", "follow", "lookup", "keep", "publish", "end"})' => Content(j) \notin Unkeyed
      BY <1>1 DEF JobAt, Writing
    <3> QED BY <1>1, <1>5, <2>2, <3>1 DEF FlightLed
  <2> QED BY <2>1, <2>2
<1>8. ASSUME NEW i \in Jobs PROVE JobHonest(i)'
  <2>1. CASE i # j BY <1>1, <2>1 DEF SummaryInv, JobHonest, JobAt, Budgeted
  <2>2. CASE i = j BY <1>1, <2>2 DEF JobHonest, JobAt, Budgeted
  <2> QED BY <2>1, <2>2
<1>9. ASSUME NEW i \in Jobs PROVE Published(i)'
  <2>1. \A k \in Jobs : ~JobAt(k, {"idle"}) => ~JobAt(k, {"idle"})' BY <1>1 DEF JobAt, Writing
  <2>2. job[i].leader \in Jobs BY DEF SummaryInv, SummaryTyped, SummaryJobs
  <2>3. job[j].leader = j /\ future[j] = Pending BY DEF SummaryInv, Published, JobAt, Writing
  <2>4. CASE i # j BY <1>1, <2>1, <2>2, <2>4 DEF SummaryInv, Published, JobAt
  <2>5. CASE i = j BY <1>1, <2>3, <2>5 DEF Published, JobAt, Writing
  <2> QED BY <2>4, <2>5
<1> QED BY <1>2, <1>4, <1>6, <1>7, <1>8, <1>9 DEF SummaryInv

LEMMA BeginJobKeeps == ASSUME SummaryInv, NEW j \in Jobs, BeginJob(j) PROVE SummaryInv'
<1>1. PICK c \in Contents, d \in Deadlines \cup {NoDeadline} :
        job' = [job EXCEPT ![j].content = c, ![j].deadline = d,
                 ![j].at = IF deferral[c] > time THEN "answered" ELSE IF c \in Unkeyed THEN "generate" ELSE "start",
                 ![j].result = IF deferral[c] > time THEN "fallback" ELSE "none"]
  BY DEF BeginJob
<1> DEFINE new == [job[j] EXCEPT !.content = c, !.deadline = d,
                 !.at = IF deferral[c] > time THEN "answered" ELSE IF c \in Unkeyed THEN "generate" ELSE "start",
                 !.result = IF deferral[c] > time THEN "fallback" ELSE "none"]
<1>2. job[j] \in SummaryJobs /\ job[j].at = "idle" /\ SummaryTyped BY DEF SummaryInv, SummaryTyped, BeginJob, JobAt
<1>3. job' = [job EXCEPT ![j] = new] BY <1>1, <1>2 DEF SummaryTyped
<1>4. /\ new \in SummaryJobs /\ new.content = c /\ new.leader = job[j].leader
      /\ \/ new.at = "answered" /\ new.result = "fallback"
         \/ new.at = "generate" /\ c \in Unkeyed /\ new.result = "none"
         \/ new.at = "start" /\ c \notin Unkeyed /\ new.result = "none"
  BY <1>2 DEF SummaryJobs, SummaryStages, SummaryResults
<1> HIDE DEF new
<1>5. /\ job' \in [Jobs -> SummaryJobs] /\ job'[j] = new /\ \A i \in Jobs : i # j => job'[i] = job[i]
      /\ Content(j)' = c /\ \A i \in Jobs : i # j => Content(i)' = Content(i)
  BY <1>2, <1>3, <1>4, Moved
<1>6. UNCHANGED <<time, flights, future, works, deferral, permit>> BY DEF BeginJob
<1>7. SummaryTyped' BY <1>2, <1>5, <1>6 DEF SummaryTyped
<1>8. \A i \in Jobs : Leading(i) => i # j /\ Leading(i)'
  BY <1>2, <1>5 DEF Leading, Generating, JobAt
<1>9. Led' BY <1>5, <1>6, <1>8 DEF SummaryInv, SummaryTyped, Led
<1>10. CacheHonest'
  <2> SUFFICES ASSUME NEW e \in Contents, Kept(e)'
               PROVE  e \notin Unread /\ \A i \in Jobs : JobAt(i, Writing)' /\ Content(i)' = e => e \in Unkeyed
    BY DEF CacheHonest, Writing
  <2>1. Kept(e) BY <1>6 DEF Kept, Work
  <2>2. e \notin Unread /\ \A i \in Jobs : JobAt(i, Writing) /\ Content(i) = e => e \in Unkeyed
    BY <2>1 DEF SummaryInv, CacheHonest, Writing
  <2>3. ASSUME NEW i \in Jobs, JobAt(i, Writing)', Content(i)' = e PROVE e \in Unkeyed
    <3>1. CASE i = j BY <1>4, <1>5, <2>3, <3>1 DEF JobAt, Writing
    <3>2. CASE i # j BY <1>5, <2>2, <2>3, <3>2 DEF JobAt
    <3> QED BY <3>1, <3>2
  <2> QED BY <2>2, <2>3
<1>11. ASSUME NEW i \in Jobs PROVE FlightLed(i)'
  <2>1. CASE i # j BY <1>5, <1>6, <2>1 DEF SummaryInv, FlightLed, Leading, Generating, JobAt
  <2>2. CASE i = j BY <1>4, <1>5, <2>2 DEF FlightLed, Leading, Generating, JobAt
  <2> QED BY <2>1, <2>2
<1>12. ASSUME NEW i \in Jobs PROVE JobHonest(i)'
  <2>1. CASE i # j BY <1>5, <1>6, <2>1 DEF SummaryInv, JobHonest, JobAt, Budgeted
  <2>2. CASE i = j BY <1>2, <1>4, <1>5, <1>6, <2>2 DEF SummaryInv, JobHonest, JobAt
  <2> QED BY <2>1, <2>2
<1>13. ASSUME NEW i \in Jobs PROVE Published(i)'
  <2>1. \A k \in Jobs : ~JobAt(k, {"idle"}) => k # j /\ ~JobAt(k, {"idle"})' BY <1>2, <1>5 DEF JobAt
  <2>2. job[i].leader \in Jobs BY DEF SummaryInv, SummaryTyped, SummaryJobs
  <2>3. job[j].leader = j /\ future[j] = Pending BY <1>2 DEF SummaryInv, Published, JobAt
  <2>4. CASE i # j BY <1>5, <1>6, <2>1, <2>2, <2>4 DEF SummaryInv, Published, JobAt
  <2>5. CASE i = j BY <1>4, <1>5, <1>6, <2>3, <2>5 DEF Published, JobAt
  <2> QED BY <2>4, <2>5
<1> QED BY <1>7, <1>9, <1>10, <1>11, <1>12, <1>13 DEF SummaryInv

(* A job joins a flight, leads one, is answered, publishes or ends: its    *)
(* content stays, nothing is kept, nobody begins to write.                 *)
LEMMA FlightKeeps ==
  ASSUME SummaryInv, NEW j \in Jobs, NEW new \in SummaryJobs, job' = [job EXCEPT ![j] = new],
         JobAt(j, {"start", "follow", "publish", "end"}), new.at \notin Writing \cup {"idle", "start", "keep"},
         new.content = Content(j), new.deadline = job[j].deadline,
         new.result = "generated" => Content(j) \notin Unread,
         UNCHANGED <<time, works, permit>>
  PROVE  /\ job' \in [Jobs -> SummaryJobs] /\ job'[j] = new /\ \A i \in Jobs : i # j => job'[i] = job[i]
         /\ \A i \in Jobs : Content(i)' = Content(i)
         /\ CacheHonest' /\ \A i \in Jobs : JobHonest(i)'
<1>1. /\ job' \in [Jobs -> SummaryJobs] /\ job'[j] = new /\ \A i \in Jobs : i # j => job'[i] = job[i]
      /\ \A i \in Jobs : Content(i)' = Content(i)
  BY Moved DEF SummaryInv
<1>2. CacheHonest'
  <2>1. \A c : Kept(c)' => Kept(c) BY DEF Kept, Work
  <2>2. \A i \in Jobs : JobAt(i, Writing)' => JobAt(i, Writing) BY <1>1 DEF JobAt, Writing
  <2> QED BY <1>1, <2>1, <2>2 DEF SummaryInv, CacheHonest, Writing
<1>3. ASSUME NEW i \in Jobs PROVE JobHonest(i)'
  <2>1. CASE i # j BY <1>1, <2>1 DEF SummaryInv, JobHonest, JobAt, Budgeted
  <2>2. CASE i = j BY <1>1, <2>2 DEF SummaryInv, JobHonest, JobAt, Writing
  <2> QED BY <2>1, <2>2
<1> QED BY <1>1, <1>2, <1>3

LEMMA JoinKeeps == ASSUME SummaryInv, NEW j \in Jobs, Join(j) PROVE SummaryInv'
<1>1. /\ job[j] \in SummaryJobs /\ job[j].at = "start" /\ SummaryTyped /\ Content(j) \in Contents /\ Content(j) \notin Unkeyed
      /\ job[j].leader = j /\ future[j] = Pending
      /\ job[j].result = "generated" => Content(j) \notin Unread
      /\ UNCHANGED <<time, future, works, deferral, permit>>
  BY DEF SummaryInv, SummaryTyped, SummaryJobs, Join, JobAt, Content, FlightLed, Published, JobHonest
<1>2. \E new \in SummaryJobs :
        /\ job' = [job EXCEPT ![j] = new] /\ new.content = Content(j) /\ new.deadline = job[j].deadline
        /\ new.result \in {job[j].result, "fallback"}
        /\ \/ /\ flights[Content(j)] # NoOwner /\ new.at = "follow" /\ new.leader = flights[Content(j)] /\ UNCHANGED flights
           \/ new.at = "answered" /\ new.leader = j /\ UNCHANGED flights
           \/ /\ flights[Content(j)] = NoOwner /\ flights' = [flights EXCEPT ![Content(j)] = j]
              /\ new.at = "lookup" /\ new.leader = j
  <2>1. CASE flights[Content(j)] # NoOwner /\ UNCHANGED flights /\ job' = [job EXCEPT ![j].at = "follow", ![j].leader = flights[Content(j)]]
    <3> DEFINE new == [job[j] EXCEPT !.at = "follow", !.leader = flights[Content(j)]]
    <3>1. flights[Content(j)] \in Jobs BY <1>1, <2>1 DEF SummaryTyped
    <3>2. new \in SummaryJobs BY <1>1, <3>1 DEF SummaryJobs, SummaryStages
    <3>3. job' = [job EXCEPT ![j] = new] BY <1>1, <2>1 DEF SummaryTyped
    <3>4. new.at = "follow" /\ new.leader = flights[Content(j)] /\ new.content = Content(j) /\ new.deadline = job[j].deadline
          /\ new.result = job[j].result BY <1>1 DEF SummaryJobs, Content
    <3> HIDE DEF new
    <3> QED BY <2>1, <3>2, <3>3, <3>4
  <2>2. CASE Answers(j, "fallback") /\ UNCHANGED flights
    <3> DEFINE new == [job[j] EXCEPT !.at = "answered", !.result = "fallback"]
    <3>2. new \in SummaryJobs BY <1>1 DEF SummaryJobs, SummaryStages, SummaryResults
    <3>3. job' = [job EXCEPT ![j] = new] BY <1>1, <2>2 DEF SummaryTyped, Answers
    <3>4. new.at = "answered" /\ new.leader = j /\ new.content = Content(j) /\ new.deadline = job[j].deadline
          /\ new.result = "fallback" BY <1>1 DEF SummaryJobs, Content
    <3> HIDE DEF new
    <3> QED BY <2>2, <3>2, <3>3, <3>4
  <2>3. CASE flights[Content(j)] = NoOwner /\ flights' = [flights EXCEPT ![Content(j)] = j] /\ JobMoves(j, "lookup")
    <3> DEFINE new == [job[j] EXCEPT !.at = "lookup"]
    <3>2. new \in SummaryJobs BY <1>1 DEF SummaryJobs, SummaryStages
    <3>3. job' = [job EXCEPT ![j] = new] BY <1>1, <2>3 DEF SummaryTyped, JobMoves
    <3>4. new.at = "lookup" /\ new.leader = j /\ new.content = Content(j) /\ new.deadline = job[j].deadline
          /\ new.result = job[j].result BY <1>1 DEF SummaryJobs, Content
    <3> HIDE DEF new
    <3> QED BY <2>3, <3>2, <3>3, <3>4
  <2> QED BY <2>1, <2>2, <2>3 DEF Join
<1>3. PICK new \in SummaryJobs :
        /\ job' = [job EXCEPT ![j] = new] /\ new.content = Content(j) /\ new.deadline = job[j].deadline
        /\ new.result \in {job[j].result, "fallback"}
        /\ \/ /\ flights[Content(j)] # NoOwner /\ new.at = "follow" /\ new.leader = flights[Content(j)] /\ UNCHANGED flights
           \/ new.at = "answered" /\ new.leader = j /\ UNCHANGED flights
           \/ /\ flights[Content(j)] = NoOwner /\ flights' = [flights EXCEPT ![Content(j)] = j]
              /\ new.at = "lookup" /\ new.leader = j
  BY <1>2
<1>4. /\ job' \in [Jobs -> SummaryJobs] /\ job'[j] = new /\ \A i \in Jobs : i # j => job'[i] = job[i]
      /\ \A i \in Jobs : Content(i)' = Content(i)
      /\ CacheHonest' /\ \A i \in Jobs : JobHonest(i)'
  <2>1. JobAt(j, {"start", "follow", "publish", "end"}) /\ new.at \notin Writing \cup {"idle", "start", "keep"}
    BY <1>1, <1>3 DEF JobAt, Writing
  <2>2. new.result = "generated" => Content(j) \notin Unread BY <1>1, <1>3 DEF SummaryInv, JobHonest
  <2> QED BY <1>1, <1>3, <2>1, <2>2, FlightKeeps
<1>5. SummaryTyped' BY <1>1, <1>3, <1>4 DEF SummaryTyped
<1>6. \A i \in Jobs : Leading(i) => i # j /\ Leading(i)'
  BY <1>1, <1>4 DEF Leading, Generating, JobAt
<1>7. Led'
  <2> SUFFICES ASSUME NEW c \in Contents, flights'[c] # NoOwner
               PROVE  Leading(flights[c])' /\ Content(flights[c])' = c /\ c \notin Unkeyed
    BY DEF Led
  <2>1. CASE flights'[c] = flights[c] BY <1>1, <1>4, <1>6, <2>1 DEF SummaryInv, SummaryTyped, Led
  <2>2. CASE c = Content(j) /\ flights'[c] = j /\ new.at = "lookup"
    BY <1>1, <1>4, <2>2 DEF Leading, Generating, JobAt
  <2> QED BY <1>1, <1>3, <2>1, <2>2 DEF SummaryTyped
<1>8. ASSUME NEW i \in Jobs PROVE FlightLed(i)'
  <2>1. CASE i # j
    <3>1. Leading(i)' /\ Content(i) \notin Unkeyed => flights[Content(i)] = i
      BY <1>4, <2>1 DEF SummaryInv, FlightLed, Leading, Generating, JobAt
    <3>2. flights[Content(i)] = i => flights'[Content(i)] = i
      <4>1. i # NoOwner BY SummaryAssumption
      <4>2. \A c \in Contents : flights[c] = flights'[c] \/ flights[c] = NoOwner BY <1>1, <1>3 DEF SummaryTyped
      <4>3. Content(i) \in Contents BY <1>1 DEF SummaryTyped, SummaryJobs, Content
      <4> QED BY <4>1, <4>2, <4>3
    <3>3. JobAt(i, {"start", "follow", "lookup", "keep", "publish", "end"})' => Content(i) \notin Unkeyed
      BY <1>4, <2>1 DEF SummaryInv, FlightLed, JobAt
    <3> QED BY <1>4, <3>1, <3>2, <3>3 DEF FlightLed
  <2>2. CASE i = j
    <3>1. Leading(j)' => flights'[Content(j)] = j
      BY <1>1, <1>3, <1>4 DEF Leading, Generating, JobAt, SummaryTyped
    <3> QED BY <1>1, <1>4, <2>2, <3>1 DEF FlightLed
  <2> QED BY <2>1, <2>2
<1>9. ASSUME NEW i \in Jobs PROVE Published(i)'
  <2>1. \A k \in Jobs : ~JobAt(k, {"idle"}) => ~JobAt(k, {"idle"})' BY <1>1, <1>3, <1>4 DEF JobAt
  <2>2. job[i].leader \in Jobs BY DEF SummaryInv, SummaryTyped, SummaryJobs
  <2>3. CASE i # j BY <1>1, <1>4, <2>1, <2>2, <2>3 DEF SummaryInv, Published, JobAt
  <2>4. CASE i = j
    <3>1. new.at = "follow" => ~JobAt(new.leader, {"idle"}) /\ Content(new.leader) = Content(j) /\ new.leader \in Jobs
      <4>1. flights[Content(j)] # NoOwner => Leading(flights[Content(j)]) /\ Content(flights[Content(j)]) = Content(j)
            /\ flights[Content(j)] \in Jobs
        BY <1>1 DEF SummaryInv, Led, SummaryTyped
      <4>2. \A k \in Jobs : Leading(k) => ~JobAt(k, {"idle"}) BY DEF Leading, Generating, JobAt
      <4> QED BY <1>3, <4>1, <4>2
    <3> QED BY <1>1, <1>3, <1>4, <2>1, <2>4, <3>1 DEF Published, JobAt
  <2> QED BY <2>3, <2>4
<1> QED BY <1>4, <1>5, <1>7, <1>8, <1>9 DEF SummaryInv

LEMMA FollowKeeps == ASSUME SummaryInv, NEW j \in Jobs, Follow(j) PROVE SummaryInv'
<1>1. /\ job[j] \in SummaryJobs /\ job[j].at = "follow" /\ SummaryTyped /\ Content(j) \notin Unkeyed
      /\ future[j] = Pending /\ job[j].leader \in Jobs
      /\ ~JobAt(job[j].leader, {"idle"}) /\ Content(job[j].leader) = Content(j)
      /\ UNCHANGED <<time, flights, future, works, deferral, permit>>
  BY DEF SummaryInv, SummaryTyped, SummaryJobs, Follow, JobAt, FlightLed, Published
<1>2. PICK result \in SummaryResults \ {Pending} :
        Answers(j, result) /\ result \in {"fallback", future[job[j].leader]}
  BY <1>1 DEF Follow, SummaryTyped, SummaryResults, Pending
<1> DEFINE new == [job[j] EXCEPT !.at = "answered", !.result = result]
<1>3. new \in SummaryJobs /\ job' = [job EXCEPT ![j] = new]
  BY <1>1, <1>2 DEF SummaryJobs, SummaryStages, SummaryTyped, Answers
<1>4. new.at = "answered" /\ new.leader = job[j].leader /\ new.content = Content(j) /\ new.deadline = job[j].deadline
      /\ new.result = result
  BY <1>1 DEF SummaryJobs, Content
<1> HIDE DEF new
<1>5. result = "generated" => Content(j) \notin Unread
  <2>1. result = "generated" => future[job[j].leader] = "generated" BY <1>2
  <2>2. future[job[j].leader] = "generated" => job[job[j].leader].result = "generated"
    BY <1>1 DEF SummaryInv, Published, Pending
  <2>3. job[job[j].leader].result = "generated" => Content(job[j].leader) \notin Unread
    BY <1>1 DEF SummaryInv, JobHonest
  <2> QED BY <1>1, <2>1, <2>2, <2>3
<1>6. /\ job' \in [Jobs -> SummaryJobs] /\ job'[j] = new /\ \A i \in Jobs : i # j => job'[i] = job[i]
      /\ \A i \in Jobs : Content(i)' = Content(i)
      /\ CacheHonest' /\ \A i \in Jobs : JobHonest(i)'
  <2>1. JobAt(j, {"start", "follow", "publish", "end"}) /\ new.at \notin Writing \cup {"idle", "start", "keep"}
    BY <1>1, <1>4 DEF JobAt, Writing
  <2> QED BY <1>1, <1>3, <1>4, <1>5, <2>1, FlightKeeps
<1>7. SummaryTyped' BY <1>1, <1>6 DEF SummaryTyped
<1>8. \A i \in Jobs : Leading(i)' = Leading(i) BY <1>1, <1>4, <1>6 DEF Leading, Generating, JobAt
<1>9. Led' BY <1>1, <1>6, <1>8 DEF SummaryInv, SummaryTyped, Led
<1>10. ASSUME NEW i \in Jobs PROVE FlightLed(i)'
  <2>1. JobAt(i, {"start", "follow", "lookup", "keep", "publish", "end"})' => JobAt(i, {"start", "follow", "lookup", "keep", "publish", "end"})
    BY <1>4, <1>6 DEF JobAt
  <2> QED BY <1>1, <1>6, <1>8, <2>1 DEF SummaryInv, FlightLed
<1>11. ASSUME NEW i \in Jobs PROVE Published(i)'
  <2>1. \A k \in Jobs : ~JobAt(k, {"idle"}) => ~JobAt(k, {"idle"})' BY <1>4, <1>6 DEF JobAt
  <2>2. job[i].leader \in Jobs BY DEF SummaryInv, SummaryTyped, SummaryJobs
  <2>3. CASE i # j BY <1>1, <1>6, <2>1, <2>2, <2>3 DEF SummaryInv, Published, JobAt
  <2>4. CASE i = j BY <1>1, <1>2, <1>4, <1>6, <2>4 DEF Published, JobAt
  <2> QED BY <2>3, <2>4
<1> QED BY <1>6, <1>7, <1>9, <1>10, <1>11 DEF SummaryInv

LEMMA PublishKeeps == ASSUME SummaryInv, NEW j \in Jobs, PublishResult(j) PROVE SummaryInv'
<1>1. /\ job[j] \in SummaryJobs /\ job[j].at = "publish" /\ SummaryTyped /\ Content(j) \notin Unkeyed
      /\ future[j] = Pending /\ job[j].leader = j /\ job[j].result \in SummaryResults
      /\ future' = [future EXCEPT ![j] = job[j].result]
      /\ UNCHANGED <<time, flights, works, deferral, permit>>
  BY DEF SummaryInv, SummaryTyped, SummaryJobs, PublishResult, JobAt, FlightLed, Published
<1> DEFINE new == [job[j] EXCEPT !.at = "end"]
<1>3. new \in SummaryJobs /\ job' = [job EXCEPT ![j] = new]
  BY <1>1 DEF SummaryJobs, SummaryStages, SummaryTyped, PublishResult, JobMoves
<1>4. new.at = "end" /\ new.leader = j /\ new.content = Content(j) /\ new.deadline = job[j].deadline
      /\ new.result = job[j].result
  BY <1>1 DEF SummaryJobs, Content
<1> HIDE DEF new
<1>6. /\ job' \in [Jobs -> SummaryJobs] /\ job'[j] = new /\ \A i \in Jobs : i # j => job'[i] = job[i]
      /\ \A i \in Jobs : Content(i)' = Content(i)
      /\ CacheHonest' /\ \A i \in Jobs : JobHonest(i)'
  <2>1. JobAt(j, {"start", "follow", "publish", "end"}) /\ new.at \notin Writing \cup {"idle", "start", "keep"}
    BY <1>1, <1>4 DEF JobAt, Writing
  <2>2. new.result = "generated" => Content(j) \notin Unread BY <1>4 DEF SummaryInv, JobHonest
  <2> QED BY <1>1, <1>3, <1>4, <2>1, <2>2, FlightKeeps
<1>7. SummaryTyped' BY <1>1, <1>6 DEF SummaryTyped
<1>8. \A i \in Jobs : Leading(i)' = Leading(i) BY <1>1, <1>4, <1>6 DEF Leading, Generating, JobAt
<1>9. Led' BY <1>1, <1>6, <1>8 DEF SummaryInv, SummaryTyped, Led
<1>10. ASSUME NEW i \in Jobs PROVE FlightLed(i)'
  <2>1. JobAt(i, {"start", "follow", "lookup", "keep", "publish", "end"})' => JobAt(i, {"start", "follow", "lookup", "keep", "publish", "end"})
    BY <1>1, <1>4, <1>6 DEF JobAt
  <2> QED BY <1>1, <1>6, <1>8, <2>1 DEF SummaryInv, FlightLed
<1>11. ASSUME NEW i \in Jobs PROVE Published(i)'
  <2>1. \A k \in Jobs : ~JobAt(k, {"idle"}) => ~JobAt(k, {"idle"})' BY <1>4, <1>6 DEF JobAt
  <2>2. job[i].leader \in Jobs BY DEF SummaryInv, SummaryTyped, SummaryJobs
  <2>3. future'[i] = IF i = j THEN job[j].result ELSE future[i] BY <1>1 DEF SummaryTyped
  <2>4. \A k \in Jobs : future'[k] = future[k] \/ (k = j /\ future[k] = Pending) BY <1>1 DEF SummaryTyped
  <2>5. CASE i # j
    <3>1. JobAt(i, {"answered"}) /\ job[i].leader # i =>
            job[i].result \in {"fallback", future'[job[i].leader]} /\ job[i].result # Pending
      BY <2>2, <2>4 DEF SummaryInv, Published
    <3> QED BY <1>6, <2>1, <2>2, <2>3, <2>5, <3>1 DEF SummaryInv, Published, JobAt
  <2>6. CASE i = j BY <1>1, <1>4, <1>6, <2>3, <2>6 DEF Published, JobAt
  <2> QED BY <2>5, <2>6
<1> QED BY <1>6, <1>7, <1>9, <1>10, <1>11 DEF SummaryInv

LEMMA EndFlightKeeps == ASSUME SummaryInv, NEW j \in Jobs, EndFlight(j) PROVE SummaryInv'
<1>1. /\ job[j] \in SummaryJobs /\ job[j].at = "end" /\ SummaryTyped /\ Content(j) \notin Unkeyed /\ Content(j) \in Contents
      /\ job[j].leader = j /\ flights[Content(j)] = j
      /\ flights' = [flights EXCEPT ![Content(j)] = NoOwner]
      /\ UNCHANGED <<time, future, works, deferral, permit>>
  BY DEF SummaryInv, SummaryTyped, SummaryJobs, EndFlight, JobAt, FlightLed, Published, Leading, Content
<1> DEFINE new == [job[j] EXCEPT !.at = "answered"]
<1>3. new \in SummaryJobs /\ job' = [job EXCEPT ![j] = new]
  BY <1>1 DEF SummaryJobs, SummaryStages, SummaryTyped, EndFlight, JobMoves
<1>4. new.at = "answered" /\ new.leader = j /\ new.content = Content(j) /\ new.deadline = job[j].deadline
      /\ new.result = job[j].result
  BY <1>1 DEF SummaryJobs, Content
<1> HIDE DEF new
<1>6. /\ job' \in [Jobs -> SummaryJobs] /\ job'[j] = new /\ \A i \in Jobs : i # j => job'[i] = job[i]
      /\ \A i \in Jobs : Content(i)' = Content(i)
      /\ CacheHonest' /\ \A i \in Jobs : JobHonest(i)'
  <2>1. JobAt(j, {"start", "follow", "publish", "end"}) /\ new.at \notin Writing \cup {"idle", "start", "keep"}
    BY <1>1, <1>4 DEF JobAt, Writing
  <2>2. new.result = "generated" => Content(j) \notin Unread BY <1>4 DEF SummaryInv, JobHonest
  <2> QED BY <1>1, <1>3, <1>4, <2>1, <2>2, FlightKeeps
<1>7. SummaryTyped' BY <1>1, <1>6 DEF SummaryTyped
<1>8. \A i \in Jobs : i # j => Leading(i)' = Leading(i) BY <1>6 DEF Leading, Generating, JobAt
<1>9. ~Leading(j)' BY <1>4, <1>6 DEF Leading, Generating, JobAt
<1>10. Led'
  <2>1. \A c \in Contents : flights'[c] # NoOwner => flights'[c] = flights[c] /\ c # Content(j) BY <1>1 DEF SummaryTyped
  <2>2. \A c \in Contents : flights[c] = j => c = Content(j) BY <1>1, SummaryAssumption DEF SummaryInv, Led
  <2> QED BY <1>1, <1>6, <1>8, <2>1, <2>2 DEF SummaryInv, SummaryTyped, Led
<1>11. ASSUME NEW i \in Jobs PROVE FlightLed(i)'
  <2>1. JobAt(i, {"start", "follow", "lookup", "keep", "publish", "end"})' => JobAt(i, {"start", "follow", "lookup", "keep", "publish", "end"})
    BY <1>1, <1>4, <1>6 DEF JobAt
  <2>2. CASE i = j BY <1>6, <1>9, <2>1, <2>2 DEF SummaryInv, FlightLed
  <2>3. CASE i # j
    <3>1. Leading(i) /\ Content(i) \notin Unkeyed => Content(i) # Content(j) BY <1>1, <2>3 DEF SummaryInv, FlightLed
    <3>2. Content(i) # Content(j) => flights'[Content(i)] = flights[Content(i)]
      <4>1. Content(i) \in Contents BY <1>1 DEF SummaryTyped, SummaryJobs, Content
      <4> QED BY <1>1, <4>1 DEF SummaryTyped
    <3> QED BY <1>6, <1>8, <2>1, <2>3, <3>1, <3>2 DEF SummaryInv, FlightLed
  <2> QED BY <2>2, <2>3
<1>12. ASSUME NEW i \in Jobs PROVE Published(i)'
  <2>1. \A k \in Jobs : ~JobAt(k, {"idle"}) => ~JobAt(k, {"idle"})' BY <1>4, <1>6 DEF JobAt
  <2>2. job[i].leader \in Jobs BY DEF SummaryInv, SummaryTyped, SummaryJobs
  <2>3. CASE i # j BY <1>1, <1>6, <2>1, <2>2, <2>3 DEF SummaryInv, Published, JobAt
  <2>4. CASE i = j BY <1>1, <1>4, <1>6, <2>4 DEF SummaryInv, Published, JobAt
  <2> QED BY <2>3, <2>4
<1> QED BY <1>6, <1>7, <1>10, <1>11, <1>12 DEF SummaryInv

(* A step of a job that keeps its content, its deadline and its leader.    *)
Becomes(j, new) ==
  /\ new \in SummaryJobs /\ job' = [job EXCEPT ![j] = new]
  /\ new.content = Content(j) /\ new.leader = job[j].leader /\ new.deadline = job[j].deadline

(* How a job goes on once its generation has a result.                     *)
LEMMA ResolvedMove ==
  ASSUME SummaryTyped, NEW j \in Jobs, NEW result \in {"generated", "fallback"}, Resolved(j, result)
  PROVE  \E new \in SummaryJobs :
           /\ Becomes(j, new) /\ new.result = result
           /\ \/ new.at = "answered" /\ Content(j) \in Unkeyed
              \/ new.at = "publish" /\ Content(j) \notin Unkeyed
              \/ new.at = "keep" /\ result = "generated" /\ Content(j) \notin Unkeyed
<1> DEFINE new == [job[j] EXCEPT !.result = result,
            !.at = IF Content(j) \in Unkeyed THEN "answered"
                   ELSE IF result = "generated" THEN "keep" ELSE "publish"]
<1>1. job[j] \in SummaryJobs BY DEF SummaryTyped
<1>2. new \in SummaryJobs BY <1>1 DEF SummaryJobs, SummaryStages, SummaryResults
<1>3. job' = [job EXCEPT ![j] = new] BY <1>1 DEF SummaryTyped, Resolved
<1>4. /\ new.content = Content(j) /\ new.leader = job[j].leader /\ new.deadline = job[j].deadline /\ new.result = result
      /\ \/ new.at = "answered" /\ Content(j) \in Unkeyed
         \/ new.at = "publish" /\ Content(j) \notin Unkeyed
         \/ new.at = "keep" /\ result = "generated" /\ Content(j) \notin Unkeyed
  BY <1>1 DEF SummaryJobs, Content
<1> HIDE DEF new
<1> QED BY <1>2, <1>3, <1>4 DEF Becomes

(* A step of a job that writes a summary, which leaves the cache alone.    *)
LEMMA WriterKeeps ==
  ASSUME SummaryInv, NEW j \in Jobs, NEW new \in SummaryJobs, Becomes(j, new), JobAt(j, Writing),
         \/ new.at \in Writing
         \/ new.at \in {"keep", "publish"} /\ Content(j) \notin Unkeyed
         \/ new.at = "answered" /\ Content(j) \in Unkeyed,
         new.at \in {"ask", "permit", "sent", "keep"} \/ new.result = "generated" => Content(j) \notin Unread,
         permit' \in [Jobs -> BOOLEAN], \A i \in Jobs : i # j => permit'[i] = permit[i],
         permit'[j] => new.at \in {"permit", "sent"},
         new.at = "sent" => Budgeted(j),
         UNCHANGED <<time, flights, future, works>>
  PROVE  SummaryInv'
<1>1. \A c \in Contents : Kept(c)' => Kept(c) BY DEF Kept, Work
<1>2. works' \in Seq(Entries) BY DEF SummaryInv, SummaryTyped
<1>3. JobAt(j, Writing \cup {"lookup", "keep"}) BY DEF JobAt
<1>4. job' = [job EXCEPT ![j] = new] /\ new.content = Content(j) /\ new.leader = job[j].leader /\ new.deadline = job[j].deadline
  BY DEF Becomes
<1> QED BY <1>1, <1>2, <1>3, <1>4, LeaderKeeps

(* What is known of a job at each stage of a generation.                   *)
LEMMA WriterKnows ==
  ASSUME SummaryInv, NEW j \in Jobs, JobAt(j, Writing \cup {"lookup", "keep"})
  PROVE  /\ job[j] \in SummaryJobs /\ Content(j) \in Contents /\ permit \in [Jobs -> BOOLEAN]
         /\ JobAt(j, {"ask", "permit", "sent", "keep"}) \/ job[j].result = "generated" => Content(j) \notin Unread
         /\ permit[j] => JobAt(j, {"permit", "sent"})
         /\ JobAt(j, {"lookup", "keep"}) => Content(j) \notin Unkeyed
BY DEF SummaryInv, SummaryTyped, SummaryJobs, Content, JobHonest, FlightLed, JobAt, Writing

(* A step that only moves the stage of a job.                              *)
LEMMA JobMovesTo ==
  ASSUME SummaryTyped, NEW j \in Jobs, NEW stage \in SummaryStages, JobMoves(j, stage)
  PROVE  \E new \in SummaryJobs : Becomes(j, new) /\ new.at = stage /\ new.result = job[j].result
<1> DEFINE new == [job[j] EXCEPT !.at = stage]
<1>1. job[j] \in SummaryJobs BY DEF SummaryTyped
<1>2. new \in SummaryJobs BY <1>1 DEF SummaryJobs
<1>3. job' = [job EXCEPT ![j] = new] BY <1>1 DEF SummaryTyped, JobMoves
<1>4. /\ new.content = Content(j) /\ new.leader = job[j].leader /\ new.deadline = job[j].deadline
      /\ new.at = stage /\ new.result = job[j].result
  BY <1>1 DEF SummaryJobs, Content
<1> HIDE DEF new
<1> QED BY <1>2, <1>3, <1>4 DEF Becomes

LEMMA LookupKeeps == ASSUME SummaryInv, NEW j \in Jobs, Lookup(j) PROVE SummaryInv'
<1>1. /\ job[j].at = "lookup" /\ SummaryTyped /\ permit \in [Jobs -> BOOLEAN] /\ Put(Content(j), Kept(Content(j)))
      /\ UNCHANGED <<time, flights, future, deferral, permit>>
  BY DEF SummaryInv, SummaryTyped, Lookup, JobAt
<1>2. JobAt(j, Writing \cup {"lookup", "keep"}) BY <1>1 DEF JobAt
<1>3. /\ job[j] \in SummaryJobs /\ Content(j) \in Contents /\ Content(j) \notin Unkeyed /\ ~permit[j]
      /\ permit \in [Jobs -> BOOLEAN] /\ (job[j].result = "generated" => Content(j) \notin Unread)
  BY <1>1, <1>2, WriterKnows DEF JobAt
<1> DEFINE c == Content(j)
           kept == Kept(c)
<1>4. kept \in BOOLEAN BY DEF Kept
<1>5. Put(c, kept) /\ c \in Contents /\ works \in Seq(Entries) BY <1>1, <1>3 DEF SummaryTyped
<1>6. Kept(c) => c \notin Unread BY <1>3 DEF SummaryInv, CacheHonest
<1>7. works' \in Seq(Entries) /\ \A d \in Contents : Kept(d)' => Kept(d) \/ (d = c /\ kept)
  <2> HIDE DEF c, kept
  <2> QED BY <1>4, <1>5, PutKeeps
<1>8. \A d \in Contents : Kept(d)' => Kept(d) BY <1>7
<1>9. \E new \in SummaryJobs : Becomes(j, new) /\
         \/ new.at = "publish" /\ new.result = "generated" /\ Kept(Content(j))
         \/ new.at = "generate" /\ new.result = job[j].result /\ ~Kept(Content(j))
  <2>1. CASE Kept(Content(j))
    <3>1. \E new \in SummaryJobs : Becomes(j, new) /\ new.at = "publish" /\ new.result = "generated"
      <4>0. job' = [job EXCEPT ![j].at = "publish", ![j].result = "generated"] BY <2>1 DEF Lookup
        <4> DEFINE new == [job[j] EXCEPT !.at = "publish", !.result = "generated"]
        <4>1. new \in SummaryJobs BY <1>1, <1>3, <4>0 DEF SummaryJobs, SummaryStages, SummaryResults
        <4>2. job' = [job EXCEPT ![j] = new] BY <1>1, <1>3, <4>0 DEF SummaryTyped, SummaryJobs, JobMoves
        <4>3. /\ new.content = Content(j) /\ new.leader = job[j].leader /\ new.deadline = job[j].deadline
              /\ new.at = "publish" /\ new.result = "generated"
          BY <1>1, <1>3, <4>0 DEF SummaryJobs, Content
        <4> HIDE DEF new
        <4> QED BY <4>1, <4>2, <4>3 DEF Becomes
    <3> QED BY <2>1, <3>1
  <2>2. CASE ~Kept(Content(j))
    <3>1. JobMoves(j, "generate") /\ "generate" \in SummaryStages BY <2>2 DEF Lookup, SummaryStages
    <3>2. \E new \in SummaryJobs : Becomes(j, new) /\ new.at = "generate" /\ new.result = job[j].result
      BY <1>1, <3>1, JobMovesTo
    <3> QED BY <2>2, <3>2
  <2> QED BY <2>1, <2>2
<1>10. PICK new \in SummaryJobs : Becomes(j, new) /\
         \/ new.at = "publish" /\ new.result = "generated" /\ Kept(Content(j))
         \/ new.at = "generate" /\ new.result = job[j].result /\ ~Kept(Content(j))
  BY <1>9
<1>11. job' = [job EXCEPT ![j] = new] /\ new.content = Content(j) /\ new.leader = job[j].leader /\ new.deadline = job[j].deadline
  BY <1>10 DEF Becomes
<1>12. /\ new.at \in Writing \/ (new.at \in {"keep", "publish"} /\ Content(j) \notin Unkeyed)
       /\ new.at \in Writing => ~Kept(Content(j))'
       /\ new.at \in {"ask", "permit", "sent", "keep"} \/ new.result = "generated" => Content(j) \notin Unread
       /\ new.at # "sent"
  <2>1. Kept(Content(j))' => Kept(Content(j))
    <3>1. Content(j)' = Content(j) BY <1>1, <1>11, Moved
    <3> QED BY <1>3, <1>8, <3>1
  <2>2. Content(j) \notin Unkeyed /\ (Kept(Content(j)) => Content(j) \notin Unread)
        /\ (job[j].result = "generated" => Content(j) \notin Unread)
    BY <1>3, <1>6
  <2>3. CASE new.at = "publish" /\ new.result = "generated" /\ Kept(Content(j)) BY <2>2, <2>3 DEF Writing
  <2>4. CASE new.at = "generate" /\ new.result = job[j].result /\ ~Kept(Content(j)) BY <2>1, <2>2, <2>4 DEF Writing
  <2> QED BY <1>10, <2>3, <2>4
<1>13. permit' \in [Jobs -> BOOLEAN] /\ (\A i \in Jobs : i # j => permit'[i] = permit[i]) /\ ~permit'[j]
  BY <1>1, <1>3
<1> QED BY <1>1, <1>2, <1>7, <1>8, <1>11, <1>12, <1>13, LeaderKeeps

LEMMA KeepKeeps == ASSUME SummaryInv, NEW j \in Jobs, Keep(j) PROVE SummaryInv'
<1>1. /\ job[j].at = "keep" /\ SummaryTyped /\ Put(Content(j), TRUE) /\ JobMoves(j, "publish")
      /\ UNCHANGED <<time, flights, future, deferral, permit>>
  BY DEF SummaryInv, Keep, JobAt
<1>2. JobAt(j, Writing \cup {"lookup", "keep"}) BY <1>1 DEF JobAt
<1>3. /\ job[j] \in SummaryJobs /\ Content(j) \in Contents /\ Content(j) \notin Unkeyed /\ ~permit[j]
      /\ permit \in [Jobs -> BOOLEAN] /\ Content(j) \notin Unread
  BY <1>1, <1>2, WriterKnows DEF JobAt
<1>4. works' \in Seq(Entries) /\ \A d \in Contents : Kept(d)' => Kept(d) \/ d = Content(j)
  <2> DEFINE c == Content(j)
             kept == TRUE
  <2>1. Put(c, kept) /\ c \in Contents /\ works \in Seq(Entries) /\ kept \in BOOLEAN BY <1>1, <1>3 DEF SummaryTyped
  <2>2. works' \in Seq(Entries) /\ \A d \in Contents : Kept(d)' => Kept(d) \/ (d = c /\ kept)
    <3> HIDE DEF c, kept
    <3> QED BY <2>1, PutKeeps
  <2> QED BY <2>2
<1>5. "publish" \in SummaryStages BY DEF SummaryStages
<1>6. PICK new \in SummaryJobs : Becomes(j, new) /\ new.at = "publish" /\ new.result = job[j].result
  BY <1>1, <1>5, JobMovesTo
<1>7. job' = [job EXCEPT ![j] = new] /\ new.content = Content(j) /\ new.leader = job[j].leader /\ new.deadline = job[j].deadline
  BY <1>6 DEF Becomes
<1>8. /\ new.at \in {"keep", "publish"} /\ new.at \notin Writing
      /\ \A c \in Contents : Kept(c)' => Kept(c) \/ (c = Content(j) /\ c \notin Unread \cup Unkeyed /\ new.at \notin Writing)
      /\ permit' \in [Jobs -> BOOLEAN] /\ (\A i \in Jobs : i # j => permit'[i] = permit[i]) /\ ~permit'[j]
      /\ new.at # "sent"
  BY <1>1, <1>3, <1>4, <1>6 DEF Writing
<1> QED BY <1>1, <1>2, <1>3, <1>4, <1>7, <1>8, LeaderKeeps

(* A generation ends with a result: a fallback, or a summary of a source   *)
(* that was read whole.                                                    *)
LEMMA ResolvedKeeps ==
  ASSUME SummaryInv, NEW j \in Jobs, JobAt(j, Writing), NEW result \in {"generated", "fallback"}, Resolved(j, result),
         result = "generated" => Content(j) \notin Unread,
         permit' \in [Jobs -> BOOLEAN], \A i \in Jobs : i # j => permit'[i] = permit[i], ~permit'[j],
         UNCHANGED <<time, flights, future, works>>
  PROVE  SummaryInv'
<1>1. SummaryTyped BY DEF SummaryInv
<1>2. PICK new \in SummaryJobs :
           /\ Becomes(j, new) /\ new.result = result
           /\ \/ new.at = "answered" /\ Content(j) \in Unkeyed
              \/ new.at = "publish" /\ Content(j) \notin Unkeyed
              \/ new.at = "keep" /\ result = "generated" /\ Content(j) \notin Unkeyed
  BY <1>1, ResolvedMove
<1>3. /\ \/ new.at \in {"keep", "publish"} /\ Content(j) \notin Unkeyed
         \/ new.at = "answered" /\ Content(j) \in Unkeyed
      /\ new.at \in {"ask", "permit", "sent", "keep"} \/ new.result = "generated" => Content(j) \notin Unread
      /\ new.at # "sent"
  BY <1>2
<1> QED BY <1>2, <1>3, WriterKeeps

LEMMA ReportedKeeps ==
  ASSUME SummaryInv, NEW j \in Jobs, Reported(j)
  PROVE  permit' \in [Jobs -> BOOLEAN] /\ (\A i \in Jobs : i # j => permit'[i] = permit[i]) /\ ~permit'[j]
BY DEF SummaryInv, SummaryTyped, Reported

LEMMA RoundKeeps == ASSUME SummaryInv, NEW j \in Jobs, Round(j) PROVE SummaryInv'
<1>1. /\ job[j].at = "generate" /\ SummaryTyped /\ JobAt(j, Writing) /\ JobAt(j, Writing \cup {"lookup", "keep"})
      /\ UNCHANGED <<time, flights, future, works, deferral, permit>>
  BY DEF SummaryInv, Round, JobAt, Writing
<1>2. job[j] \in SummaryJobs /\ ~permit[j] /\ permit \in [Jobs -> BOOLEAN]
  BY <1>1, WriterKnows DEF JobAt
<1>3. permit' \in [Jobs -> BOOLEAN] /\ (\A i \in Jobs : i # j => permit'[i] = permit[i]) /\ ~permit'[j]
  BY <1>1, <1>2
<1>4. CASE Resolved(j, "fallback") BY <1>1, <1>3, <1>4, ResolvedKeeps
<1>5. CASE Content(j) \notin Unread /\ job' = [job EXCEPT ![j].at = "ask", ![j].attempt = 1]
  <2>1. \E new \in SummaryJobs : Becomes(j, new) /\ new.at = "ask" /\ new.result = job[j].result
      <3> DEFINE new == [job[j] EXCEPT !.at = "ask", !.attempt = 1]
      <3>1. new \in SummaryJobs BY <1>1, <1>2, <1>5 DEF SummaryJobs, SummaryStages, SummaryResults
      <3>2. job' = [job EXCEPT ![j] = new] BY <1>1, <1>2, <1>5 DEF SummaryTyped, SummaryJobs, JobMoves
      <3>3. /\ new.content = Content(j) /\ new.leader = job[j].leader /\ new.deadline = job[j].deadline
            /\ new.at = "ask" /\ new.result = job[j].result
        BY <1>1, <1>2, <1>5 DEF SummaryJobs, Content
      <3> HIDE DEF new
      <3> QED BY <3>1, <3>2, <3>3 DEF Becomes
  <2>4. PICK new \in SummaryJobs : Becomes(j, new) /\ new.at = "ask" /\ new.result = job[j].result
    BY <2>1
  <2>5. new.at \in Writing /\ new.at # "sent" BY <2>4 DEF Writing
  <2> QED BY <1>1, <1>3, <1>5, <2>4, <2>5, WriterKeeps
<1> QED BY <1>4, <1>5 DEF Round

LEMMA AcquirePermitKeeps == ASSUME SummaryInv, NEW j \in Jobs, AcquirePermit(j) PROVE SummaryInv'
<1>1. /\ job[j].at = "ask" /\ SummaryTyped /\ JobAt(j, Writing) /\ JobAt(j, Writing \cup {"lookup", "keep"})
      /\ UNCHANGED <<time, flights, future, works>>
  BY DEF SummaryInv, AcquirePermit, JobAt, Writing
<1>2. job[j] \in SummaryJobs /\ ~permit[j] /\ permit \in [Jobs -> BOOLEAN] /\ Content(j) \notin Unread
  BY <1>1, WriterKnows DEF JobAt
<1>3. CASE Resolved(j, "fallback") /\ UNCHANGED permit
  <2>1. permit' \in [Jobs -> BOOLEAN] /\ (\A i \in Jobs : i # j => permit'[i] = permit[i]) /\ ~permit'[j]
    BY <1>2, <1>3
  <2> QED BY <1>1, <1>3, <2>1, ResolvedKeeps
<1>4. CASE permit' = [permit EXCEPT ![j] = TRUE] /\ JobMoves(j, "permit")
  <2>1. "permit" \in SummaryStages BY DEF SummaryStages
  <2>2. PICK new \in SummaryJobs : Becomes(j, new) /\ new.at = "permit" /\ new.result = job[j].result
    BY <1>1, <1>4, <2>1, JobMovesTo
  <2>3. new.at \in Writing /\ new.at # "sent" /\ new.at \in {"permit", "sent"} BY <2>2 DEF Writing
  <2>4. permit' \in [Jobs -> BOOLEAN] /\ \A i \in Jobs : i # j => permit'[i] = permit[i] BY <1>2, <1>4
  <2> QED BY <1>1, <1>2, <2>2, <2>3, <2>4, WriterKeeps
<1> QED BY <1>3, <1>4 DEF AcquirePermit, FallBack

LEMMA SendPromptKeeps == ASSUME SummaryInv, NEW j \in Jobs, SendPrompt(j) PROVE SummaryInv'
<1>1. /\ job[j].at = "permit" /\ SummaryTyped /\ JobAt(j, Writing) /\ JobAt(j, Writing \cup {"lookup", "keep"})
      /\ UNCHANGED <<time, flights, future, works>>
  BY DEF SummaryInv, SendPrompt, JobAt, Writing
<1>2. job[j] \in SummaryJobs /\ permit \in [Jobs -> BOOLEAN] /\ Content(j) \notin Unread
  BY <1>1, WriterKnows DEF JobAt
<1>3. CASE Reported(j) /\ Resolved(j, "fallback") BY <1>1, <1>3, ReportedKeeps, ResolvedKeeps
<1>4. CASE Budgeted(j) /\ JobMoves(j, "sent") /\ UNCHANGED permit
  <2>1. "sent" \in SummaryStages BY DEF SummaryStages
  <2>2. PICK new \in SummaryJobs : Becomes(j, new) /\ new.at = "sent" /\ new.result = job[j].result
    BY <1>1, <1>4, <2>1, JobMovesTo
  <2>3. new.at \in Writing /\ new.at \in {"permit", "sent"} BY <2>2 DEF Writing
  <2>4. permit' \in [Jobs -> BOOLEAN] /\ \A i \in Jobs : i # j => permit'[i] = permit[i] BY <1>2, <1>4
  <2> QED BY <1>1, <1>2, <1>4, <2>2, <2>3, <2>4, WriterKeeps
<1> QED BY <1>3, <1>4 DEF SendPrompt, FallBack

LEMMA RetryKeeps == ASSUME SummaryInv, NEW j \in Jobs, Retry(j) PROVE SummaryInv'
<1>1. /\ job[j].at = "sent" /\ SummaryTyped /\ JobAt(j, Writing) /\ JobAt(j, Writing \cup {"lookup", "keep"})
      /\ Reported(j) /\ job' = [job EXCEPT ![j].at = "ask", ![j].attempt = @ + 1]
      /\ UNCHANGED <<time, flights, future, works>>
  BY DEF SummaryInv, Retry, JobAt, Writing
<1>2. job[j] \in SummaryJobs /\ Content(j) \notin Unread BY <1>1, WriterKnows DEF JobAt
<1>3. \E new \in SummaryJobs : Becomes(j, new) /\ new.at = "ask" /\ new.result = job[j].result
    <2> DEFINE new == [job[j] EXCEPT !.at = "ask", !.attempt = job[j].attempt + 1]
    <2>0. job[j] \in SummaryJobs /\ job[j].attempt + 1 \in Nat /\ {"ask", "generate"} \subseteq SummaryStages
      BY <1>2 DEF SummaryJobs, SummaryStages
    <2>1. new \in SummaryJobs BY <2>0 DEF SummaryJobs
    <2>2. job' = [job EXCEPT ![j] = new] BY <1>1, <1>2 DEF SummaryTyped, SummaryJobs, JobMoves
    <2>3. /\ new.content = Content(j) /\ new.leader = job[j].leader /\ new.deadline = job[j].deadline
          /\ new.at = "ask" /\ new.result = job[j].result
      BY <1>1, <1>2 DEF SummaryJobs, Content
    <2> HIDE DEF new
    <2> QED BY <2>1, <2>2, <2>3 DEF Becomes
<1>6. PICK new \in SummaryJobs : Becomes(j, new) /\ new.at = "ask" /\ new.result = job[j].result
  BY <1>3
<1>7. new.at \in Writing /\ new.at # "sent" BY <1>6 DEF Writing
<1> QED BY <1>1, <1>2, <1>6, <1>7, ReportedKeeps, WriterKeeps

LEMMA RefuseKeeps == ASSUME SummaryInv, NEW j \in Jobs, Refuse(j) PROVE SummaryInv'
<1>1. JobAt(j, Writing) /\ Reported(j) /\ Resolved(j, "fallback") /\ UNCHANGED <<time, flights, future, works>>
  BY DEF Refuse, FallBack, JobAt, Writing
<1> QED BY <1>1, ReportedKeeps, ResolvedKeeps

LEMMA WriteSummaryKeeps == ASSUME SummaryInv, NEW j \in Jobs, WriteSummary(j) PROVE SummaryInv'
<1>1. /\ job[j].at = "sent" /\ SummaryTyped /\ JobAt(j, Writing) /\ JobAt(j, Writing \cup {"lookup", "keep"})
      /\ Reported(j) /\ UNCHANGED <<time, flights, future, works>>
  BY DEF SummaryInv, WriteSummary, JobAt, Writing
<1>2. job[j] \in SummaryJobs /\ Content(j) \notin Unread BY <1>1, WriterKnows DEF JobAt
<1>3. CASE Resolved(j, "generated") BY <1>1, <1>2, <1>3, ReportedKeeps, ResolvedKeeps
<1>4. CASE job' = [job EXCEPT ![j].at = "generate", ![j].round = @ + 1]
  <2>1. \E new \in SummaryJobs : Becomes(j, new) /\ new.at = "generate" /\ new.result = job[j].result
      <3> DEFINE new == [job[j] EXCEPT !.at = "generate", !.round = job[j].round + 1]
      <3>0. job[j] \in SummaryJobs /\ job[j].round + 1 \in Nat /\ {"ask", "generate"} \subseteq SummaryStages
        BY <1>2 DEF SummaryJobs, SummaryStages
      <3>1. new \in SummaryJobs BY <3>0 DEF SummaryJobs
      <3>2. job' = [job EXCEPT ![j] = new] BY <1>1, <1>2, <1>4 DEF SummaryTyped, SummaryJobs, JobMoves
      <3>3. /\ new.content = Content(j) /\ new.leader = job[j].leader /\ new.deadline = job[j].deadline
            /\ new.at = "generate" /\ new.result = job[j].result
        BY <1>1, <1>2, <1>4 DEF SummaryJobs, Content
      <3> HIDE DEF new
      <3> QED BY <3>1, <3>2, <3>3 DEF Becomes
  <2>4. PICK new \in SummaryJobs : Becomes(j, new) /\ new.at = "generate" /\ new.result = job[j].result
    BY <2>1
  <2>5. new.at \in Writing /\ new.at # "sent" BY <2>4 DEF Writing
  <2> QED BY <1>1, <1>2, <2>4, <2>5, ReportedKeeps, WriterKeeps
<1> QED BY <1>3, <1>4 DEF WriteSummary

LEMMA RaiseKeeps == ASSUME SummaryInv, NEW j \in Jobs, Raise(j) PROVE SummaryInv'
<1>1. /\ job[j].at \in {"lookup", "generate", "keep"} /\ SummaryTyped /\ JobAt(j, Writing \cup {"lookup", "keep"})
      /\ flights[Content(j)] = j /\ job' = [job EXCEPT ![j].at = "publish", ![j].result = "error"]
      /\ UNCHANGED <<time, flights, future, works, deferral, permit>>
  BY DEF SummaryInv, Raise, JobAt, Writing
<1>2. job[j] \in SummaryJobs /\ permit \in [Jobs -> BOOLEAN] /\ ~permit[j] /\ Content(j) \in Contents
  BY <1>1, WriterKnows DEF JobAt
<1>3. Content(j) \notin Unkeyed BY <1>1, <1>2, SummaryAssumption DEF SummaryInv, Led
<1>4. \E new \in SummaryJobs : Becomes(j, new) /\ new.at = "publish" /\ new.result = "error"
    <2> DEFINE new == [job[j] EXCEPT !.at = "publish", !.result = "error"]
    <2>1. new \in SummaryJobs BY <1>1, <1>2 DEF SummaryJobs, SummaryStages, SummaryResults
    <2>2. job' = [job EXCEPT ![j] = new] BY <1>1, <1>2 DEF SummaryTyped, SummaryJobs, JobMoves
    <2>3. /\ new.content = Content(j) /\ new.leader = job[j].leader /\ new.deadline = job[j].deadline
          /\ new.at = "publish" /\ new.result = "error"
      BY <1>1, <1>2 DEF SummaryJobs, Content
    <2> HIDE DEF new
    <2> QED BY <2>1, <2>2, <2>3 DEF Becomes
<1>7. PICK new \in SummaryJobs : Becomes(j, new) /\ new.at = "publish" /\ new.result = "error"
  BY <1>4
<1>8. job' = [job EXCEPT ![j] = new] /\ new.content = Content(j) /\ new.leader = job[j].leader /\ new.deadline = job[j].deadline
  BY <1>7 DEF Becomes
<1>9. /\ new.at \in {"keep", "publish"} /\ new.at \notin Writing /\ new.result # "generated" /\ new.at # "sent" /\ new.at # "keep"
      /\ permit' \in [Jobs -> BOOLEAN] /\ (\A i \in Jobs : i # j => permit'[i] = permit[i]) /\ ~permit'[j]
      /\ works' \in Seq(Entries) /\ \A c \in Contents : Kept(c)' => Kept(c)
  BY <1>1, <1>2, <1>7 DEF Writing, Kept, Work, SummaryTyped
<1> QED BY <1>1, <1>3, <1>8, <1>9, LeaderKeeps

LEMMA PassKeeps == ASSUME SummaryInv, Pass PROVE SummaryInv'
<1>1. /\ time' = time + 1 /\ \A j \in Jobs : JobAt(j, {"sent"}) => Budgeted(j)
      /\ UNCHANGED <<job, flights, future, works, deferral, permit>>
  BY DEF Pass
<1>2. SummaryTyped' BY <1>1 DEF SummaryInv, SummaryTyped
<1>3. Led' BY <1>1 DEF SummaryInv, Led, Leading, Generating, JobAt, Content
<1>4. CacheHonest' BY <1>1 DEF SummaryInv, CacheHonest, Kept, Work, JobAt, Content
<1>5. ASSUME NEW j \in Jobs PROVE FlightLed(j)' /\ Published(j)'
  BY <1>1 DEF SummaryInv, FlightLed, Published, Leading, Generating, JobAt, Content
<1>6. ASSUME NEW j \in Jobs PROVE JobHonest(j)'
  <2>1. JobAt(j, {"sent"})' => Budgeted(j)' \/ time' + Reserve = job'[j].deadline
    <3>1. time \in Nat /\ Reserve \in Nat /\ job[j].deadline \in Nat \cup {NoDeadline}
      BY SummaryAssumption DEF SummaryInv, SummaryTyped, SummaryJobs
    <3>2. JobAt(j, {"sent"})' => Budgeted(j) BY <1>1 DEF JobAt
    <3>3. Budgeted(j) => job[j].deadline = NoDeadline \/ time + Reserve < job[j].deadline BY DEF Budgeted
    <3>4. Budgeted(j) => job[j].deadline = NoDeadline \/ time + 1 + Reserve < job[j].deadline \/ time + 1 + Reserve = job[j].deadline
      BY <3>1, <3>3
    <3>5. Budgeted(j)' <=> job[j].deadline = NoDeadline \/ time + 1 + Reserve < job[j].deadline BY <1>1 DEF Budgeted
    <3> QED BY <1>1, <3>2, <3>4, <3>5
  <2> QED BY <1>1, <2>1 DEF SummaryInv, JobHonest, JobAt, Content
<1> QED BY <1>2, <1>3, <1>4, <1>5, <1>6 DEF SummaryInv

LEMMA SummaryStarts == SummaryInit => SummaryInv
<1> SUFFICES ASSUME SummaryInit PROVE SummaryInv OBVIOUS
<1> DEFINE one == CHOOSE c \in Contents : TRUE
<1>1. one \in Contents BY SummaryAssumption
<1> HIDE DEF one
<1>2. \A j \in Jobs : job[j] = [at |-> "idle", content |-> one, deadline |-> NoDeadline,
                            round |-> 1, attempt |-> 1, leader |-> j, result |-> "none"]
  BY DEF SummaryInit, one
<1>3. job \in [Jobs -> SummaryJobs]
  <2>1. ASSUME NEW j \in Jobs PROVE job[j] \in SummaryJobs
    <3>1. "idle" \in SummaryStages /\ "none" \in SummaryResults BY DEF SummaryStages, SummaryResults
    <3>2. job[j] = [at |-> "idle", content |-> one, deadline |-> NoDeadline,
                    round |-> 1, attempt |-> 1, leader |-> j, result |-> "none"] BY <1>2
    <3> QED BY <1>1, <3>1, <3>2 DEF SummaryJobs
  <2>2. job = [j \in Jobs |-> job[j]] BY DEF SummaryInit
  <2> QED BY <2>1, <2>2
<1>4. SummaryTyped BY <1>3 DEF SummaryInit, SummaryTyped, SummaryResults
<1>5. Led BY DEF SummaryInit, Led
<1>6. CacheHonest
  <2>1. \A c \in Contents : ~Kept(c)
    <3>1. works = <<>> BY DEF SummaryInit
    <3>2. ToSet(works) = {} BY <3>1 DEF ToSet
    <3> QED BY <3>2 DEF Kept, Work
  <2> QED BY <2>1 DEF CacheHonest
<1>7. ASSUME NEW j \in Jobs PROVE FlightLed(j) /\ JobHonest(j) /\ Published(j)
  BY <1>2 DEF SummaryInit, FlightLed, JobHonest, Published, Leading, Generating, JobAt
<1> QED BY <1>4, <1>5, <1>6, <1>7 DEF SummaryInv

LEMMA SummarySteps == SummaryInv /\ [SummaryNext]_summaryVars => SummaryInv'
<1>1. ASSUME SummaryInv, UNCHANGED summaryVars PROVE SummaryInv'
  <2>1. UNCHANGED <<time, job, flights, future, works, deferral, permit>> BY <1>1 DEF summaryVars
  <2>2. SummaryTyped' /\ Led' /\ CacheHonest'
    BY <1>1, <2>1 DEF SummaryInv, SummaryTyped, Led, CacheHonest, Kept, Work, Leading, Generating, JobAt, Content
  <2>3. \A j \in Jobs : FlightLed(j)' /\ JobHonest(j)' /\ Published(j)'
    BY <1>1, <2>1 DEF SummaryInv, FlightLed, JobHonest, Published, Leading, Generating, JobAt, Content, Budgeted
  <2> QED BY <2>2, <2>3 DEF SummaryInv
<1>2. ASSUME SummaryInv, NEW j \in Jobs, SummaryStep(j) PROVE SummaryInv'
  BY <1>2, BeginJobKeeps, JoinKeeps, FollowKeeps, LookupKeeps, KeepKeeps, PublishKeeps, EndFlightKeeps, RoundKeeps,
     AcquirePermitKeeps, SendPromptKeeps, RetryKeeps, RefuseKeeps, WriteSummaryKeeps, RaiseKeeps DEF SummaryStep
<1> QED BY <1>1, <1>2, PassKeeps DEF SummaryNext

LEMMA SummaryFollows == SummaryInv => SummariesSound
<1> SUFFICES ASSUME SummaryInv PROVE SummariesSound OBVIOUS
<1>1. PaidOnce
  <2> SUFFICES ASSUME NEW c \in Contents \ Unkeyed
               PROVE  /\ \A i, j \in Jobs : Generating(i) /\ Generating(j) /\ Content(i) = c /\ Content(j) = c => i = j
                      /\ Kept(c) => \A j \in Jobs : JobAt(j, {"generate", "ask", "permit", "sent"}) => Content(j) # c
                      /\ flights[c] # NoOwner => Leading(flights[c]) /\ Content(flights[c]) = c
    BY DEF PaidOnce
  <2>1. \A i, j \in Jobs : Generating(i) /\ Generating(j) /\ Content(i) = c /\ Content(j) = c => i = j
    <3>1. \A i \in Jobs : Generating(i) /\ Content(i) = c => flights[c] = i BY DEF SummaryInv, FlightLed, Leading
    <3> QED BY <3>1
  <2>2. Kept(c) => \A j \in Jobs : JobAt(j, {"generate", "ask", "permit", "sent"}) => Content(j) # c
    BY DEF SummaryInv, CacheHonest
  <2>3. flights[c] # NoOwner => Leading(flights[c]) /\ Content(flights[c]) = c BY DEF SummaryInv, Led
  <2> QED BY <2>1, <2>2, <2>3
<1>2. SummaryHonest BY DEF SummaryInv, SummaryHonest, JobHonest, Published
<1> QED BY <1>1, <1>2 DEF SummariesSound

(* Of all the jobs that want one content, one generates it and the others  *)
(* get what it published; none generates what the cache keeps; and no      *)
(* summary is asked for without the time for it, or of a source that was   *)
(* not read whole: SummaryGeneration's flights and cache, for any numbers  *)
(* of jobs, contents and deadlines.                                        *)
THEOREM SummariesTheorem == SummarySpec => []SummariesSound
<1>1. SummarySpec => []SummaryInv BY SummaryStarts, SummarySteps, PTL DEF SummarySpec
<1> QED BY <1>1, SummaryFollows, PTL

-----------------------------------------------------------------------------
(* Readiness: the last collection taken in is the newest that was not      *)
(* overtaken, and the heartbeat belongs to the last who set it and runs    *)

ReadySpec == ReadyInit /\ [][ReadyNext]_readyVars

Findings == [good : BOOLEAN, true : BOOLEAN, made : BOOLEAN]
CheckRecords == [found : [Deps -> Findings], timely : BOOLEAN, noticed : BOOLEAN, took : BOOLEAN]

JobsTyped ==
  /\ diag \in [job : Nat \cup {-1}, next : Nat, observed : Nat \cup {-1}, healthy : BOOLEAN, stop : BOOLEAN]
  /\ DOMAIN checks \subseteq Nat /\ checks \in [DOMAIN checks -> CheckRecords]

\* Jobs follow each other: only the newest may be under way, and it alone is taken in.
JobsInTurn ==
  /\ diag.job < diag.next /\ diag.observed <= diag.job
  /\ diag.job >= 0 => diag.job \in DOMAIN checks
  /\ diag.observed >= 0 => diag.observed \in DOMAIN checks /\ checks[diag.observed].noticed
  /\ \A k \in DOMAIN checks :
       /\ k <= diag.job /\ (k # diag.job => Done(k))
       /\ checks[k].noticed => Done(k)
       /\ checks[k].took => k <= diag.observed
       /\ \A d \in Deps : checks[k].found[d].good => checks[k].found[d].true
  /\ diag.healthy => diag.observed >= 0 /\ \A d \in Deps : checks[diag.observed].found[d].good

\* The key lives as long as the setting of whoever holds it.
HeartbeatOwned ==
  /\ readyClock \in Nat
  /\ heartbeat \in [by : Consumers \cup {NoConsumer}, until : Nat, last : Consumers \cup {NoConsumer}]
  /\ consumers \in [Consumers -> [up : BOOLEAN, until : Nat]]
  /\ heartbeat.by # NoConsumer => heartbeat.until = consumers[heartbeat.by].until
  /\ heartbeat.by = NoConsumer => heartbeat.until = 0

ReadyInv == JobsTyped /\ JobsInTurn /\ HeartbeatOwned /\ HeartbeatKept

(* A heartbeat the API reads as its own release's was set by a consumer    *)
(* of it, within its life.                                                 *)
LEMMA BeatIsOurs ==
  ASSUME HeartbeatOwned, BeatsForUs
  PROVE  \E h \in Consumers : h[1] = CurrentRelease /\ readyClock < consumers[h].until
<1>1. heartbeat.by # NoConsumer BY DEF HeartbeatOwned, BeatsForUs
<1>2. heartbeat.by \in Consumers BY <1>1 DEF HeartbeatOwned
<1> QED BY <1>1, <1>2 DEF HeartbeatOwned, BeatsForUs

(* The heartbeat: who beats, leaves or crashes, and the end of a life.     *)
LEMMA BeatKeeps == ASSUME HeartbeatOwned, HeartbeatKept, NEW h \in Consumers, Beat(h) PROVE HeartbeatOwned' /\ HeartbeatKept'
<1> DEFINE set == [up |-> TRUE, until |-> readyClock + HeartbeatLife]
           key == [by |-> h, until |-> readyClock + HeartbeatLife, last |-> h]
<1>1. heartbeat' = key /\ consumers' = [consumers EXCEPT ![h] = set] /\ readyClock' = readyClock BY DEF Beat
<1>2. readyClock + HeartbeatLife \in Nat /\ h # NoConsumer BY ReadinessAssumption DEF HeartbeatOwned
<1>3. heartbeat' \in [by : Consumers \cup {NoConsumer}, until : Nat, last : Consumers \cup {NoConsumer}] BY <1>1, <1>2
<1>4. consumers' \in [Consumers -> [up : BOOLEAN, until : Nat]] /\ consumers'[h] = set BY <1>1, <1>2 DEF HeartbeatOwned
<1>5. heartbeat'.by = h /\ heartbeat'.last = h /\ heartbeat'.until = consumers'[h].until BY <1>1, <1>4
<1> QED BY <1>1, <1>2, <1>3, <1>4, <1>5 DEF HeartbeatOwned, HeartbeatKept

LEMMA DownKeeps ==
  ASSUME HeartbeatOwned, HeartbeatKept, NEW h \in Consumers, consumers' = [consumers EXCEPT ![h].up = FALSE],
         readyClock' = readyClock,
         \/ heartbeat' = heartbeat
         \/ heartbeat.by = h /\ heartbeat' = [heartbeat EXCEPT !.by = NoConsumer, !.until = 0]
  PROVE  HeartbeatOwned' /\ HeartbeatKept'
<1>1. /\ consumers' \in [Consumers -> [up : BOOLEAN, until : Nat]] /\ consumers'[h].up = FALSE
      /\ \A c \in Consumers : consumers'[c].until = consumers[c].until
      /\ \A c \in Consumers : c # h => consumers'[c] = consumers[c]
  BY DEF HeartbeatOwned
<1>2. CASE heartbeat' = heartbeat
  BY <1>1, <1>2 DEF HeartbeatOwned, HeartbeatKept
<1>3. CASE heartbeat.by = h /\ heartbeat' = [heartbeat EXCEPT !.by = NoConsumer, !.until = 0]
  <2>1. heartbeat'.by = NoConsumer /\ heartbeat'.until = 0 /\ heartbeat'.last = heartbeat.last
        /\ heartbeat' \in [by : Consumers \cup {NoConsumer}, until : Nat, last : Consumers \cup {NoConsumer}]
    BY <1>3 DEF HeartbeatOwned
  <2>2. HeartbeatOwned' BY <1>1, <2>1 DEF HeartbeatOwned
  <2>3. HeartbeatKept'
    <3>1. heartbeat.last \in Consumers /\ heartbeat.last # h =>
            ~(consumers[heartbeat.last].up /\ readyClock < consumers[heartbeat.last].until)
      BY <1>3, ReadinessAssumption DEF HeartbeatKept
    <3>2. heartbeat.last \in Consumers \cup {NoConsumer} BY DEF HeartbeatOwned
    <3> QED BY <1>1, <2>1, <3>1, <3>2 DEF HeartbeatKept
  <2> QED BY <2>2, <2>3
<1> QED BY <1>2, <1>3

LEMMA ReadyTickKeeps == ASSUME HeartbeatOwned, HeartbeatKept, ReadyTick PROVE HeartbeatOwned' /\ HeartbeatKept'
<1>1. /\ readyClock \in Nat /\ readyClock' = readyClock + 1
      /\ heartbeat' = IF heartbeat.until = readyClock + 1 THEN [heartbeat EXCEPT !.by = NoConsumer, !.until = 0] ELSE heartbeat
      /\ consumers' = [h \in Consumers |->
           IF consumers[h].until = readyClock + 1 THEN [consumers[h] EXCEPT !.until = 0] ELSE consumers[h]]
  BY DEF ReadyTick, HeartbeatOwned
<1>2. \A c \in Consumers :
        /\ consumers'[c] \in [up : BOOLEAN, until : Nat] /\ consumers'[c].up = consumers[c].up
        /\ consumers'[c].until = IF consumers[c].until = readyClock + 1 THEN 0 ELSE consumers[c].until
  BY <1>1 DEF HeartbeatOwned
<1>3. consumers' \in [Consumers -> [up : BOOLEAN, until : Nat]]
  <2>1. consumers' = [c \in Consumers |-> consumers'[c]] BY <1>1
  <2> QED BY <1>2, <2>1
<1>4. /\ heartbeat' \in [by : Consumers \cup {NoConsumer}, until : Nat, last : Consumers \cup {NoConsumer}]
      /\ heartbeat'.last = heartbeat.last
      /\ heartbeat.until = readyClock + 1 => heartbeat'.by = NoConsumer /\ heartbeat'.until = 0
      /\ heartbeat.until # readyClock + 1 => heartbeat'.by = heartbeat.by /\ heartbeat'.until = heartbeat.until
  BY <1>1 DEF HeartbeatOwned
<1>5. HeartbeatOwned'
  <2>1. readyClock' \in Nat BY <1>1
  <2>2. heartbeat'.by # NoConsumer => heartbeat'.until = consumers'[heartbeat'.by].until
    BY <1>2, <1>4 DEF HeartbeatOwned
  <2>3. heartbeat'.by = NoConsumer => heartbeat'.until = 0 BY <1>4 DEF HeartbeatOwned
  <2> QED BY <1>3, <1>4, <2>1, <2>2, <2>3 DEF HeartbeatOwned
<1>6. HeartbeatKept'
  <2> SUFFICES ASSUME heartbeat.last # NoConsumer, consumers'[heartbeat.last].up, readyClock + 1 < consumers'[heartbeat.last].until
               PROVE  heartbeat'.by = heartbeat.last
    BY <1>1, <1>4 DEF HeartbeatKept
  <2> DEFINE h == heartbeat.last
  <2>1. h \in Consumers BY DEF HeartbeatOwned
  <2>2. consumers[h].until \in Nat /\ consumers[h].until # readyClock + 1 /\ readyClock < consumers[h].until /\ consumers[h].up
    BY <1>1, <1>2, <2>1 DEF HeartbeatOwned
  <2>3. heartbeat.by = h BY <2>2 DEF HeartbeatKept
  <2>4. heartbeat.until = consumers[h].until BY <2>1, <2>3, ReadinessAssumption DEF HeartbeatOwned
  <2> QED BY <1>4, <2>2, <2>3, <2>4
<1> QED BY <1>5, <1>6

JobRecords == [job : Nat \cup {-1}, next : Nat, observed : Nat \cup {-1}, healthy : BOOLEAN, stop : BOOLEAN]

(* The jobs: one begins, a check of one ends, one is taken in or not.      *)
LEMMA BeginDiagnosticKeeps ==
  ASSUME JobsTyped, JobsInTurn, readyClock \in Nat, BeginDiagnostic
  PROVE  JobsTyped' /\ JobsInTurn'
<1>1. diag \in JobRecords /\ RefreshSeconds \in Nat \ {0} /\ diag.next <= readyClock /\ ~Running
  BY ReadinessAssumption DEF JobsTyped, JobRecords, BeginDiagnostic
<1>2. CASE /\ checks' = [j \in DOMAIN checks \cup {readyClock} |-> IF j = readyClock THEN Begun ELSE checks[j]]
           /\ diag' = [diag EXCEPT !.job = readyClock, !.next = readyClock + RefreshSeconds]
  <2>1. /\ diag' \in JobRecords /\ diag'.job = readyClock /\ diag'.next = readyClock + RefreshSeconds
        /\ diag'.observed = diag.observed /\ diag'.healthy = diag.healthy
    <3>1. readyClock + RefreshSeconds \in Nat BY <1>1
    <3> QED BY <1>1, <1>2, <3>1 DEF JobRecords
  <2>2. readyClock \notin DOMAIN checks /\ \A k \in DOMAIN checks : k < readyClock /\ k \in Nat
    BY <1>1 DEF JobsTyped, JobsInTurn, JobRecords
  <2>3. /\ DOMAIN checks' = DOMAIN checks \cup {readyClock} /\ checks'[readyClock] = Begun
        /\ \A k \in DOMAIN checks : checks'[k] = checks[k]
    BY <1>2, <2>2
  <2>4. Begun \in CheckRecords /\ ~Begun.noticed /\ ~Begun.took /\ \A d \in Deps : ~Begun.found[d].good
    BY DEF Begun, Unfound, CheckRecords, Findings
  <2>5. JobsTyped'
    <3>1. checks' = [k \in DOMAIN checks' |-> checks'[k]] BY <1>2
    <3>2. \A k \in DOMAIN checks' : checks'[k] \in CheckRecords BY <2>3, <2>4 DEF JobsTyped
    <3> QED BY <2>1, <2>2, <2>3, <3>1, <3>2 DEF JobsTyped, JobRecords
  <2>6. \A k \in DOMAIN checks : Done(k)' = Done(k) BY <2>3 DEF Done
  <2>7. \A k \in DOMAIN checks : Done(k)
    <3>1. \A k \in DOMAIN checks : k = diag.job => Done(k) BY <1>1, <2>2 DEF Running
    <3> QED BY <3>1 DEF JobsInTurn
  <2>8. diag'.job < diag'.next /\ diag'.observed <= diag'.job BY <1>1, <2>1 DEF JobsInTurn, JobRecords
  <2>9. diag.observed >= 0 => diag.observed \in DOMAIN checks /\ checks'[diag.observed] = checks[diag.observed]
    BY <2>3 DEF JobsInTurn
  <2>10. \A k \in DOMAIN checks' :
       /\ k <= diag'.job /\ (k # diag'.job => Done(k)')
       /\ checks'[k].noticed => Done(k)'
       /\ checks'[k].took => k <= diag'.observed
       /\ \A d \in Deps : checks'[k].found[d].good => checks'[k].found[d].true
    <3> TAKE k \in DOMAIN checks'
    <3>1. CASE k = readyClock BY <1>1, <2>1, <2>3, <2>4, <3>1
    <3>2. CASE k \in DOMAIN checks BY <2>1, <2>2, <2>3, <2>6, <2>7, <3>2 DEF JobsInTurn
    <3> QED BY <2>3, <3>1, <3>2
  <2> QED BY <2>1, <2>3, <2>5, <2>8, <2>9, <2>10 DEF JobsInTurn
<1>3. CASE /\ diag' = [diag EXCEPT !.next = readyClock + RefreshSeconds, !.healthy = FALSE]
           /\ UNCHANGED checks
  <2>1. /\ diag' \in JobRecords /\ diag'.job = diag.job /\ diag'.next = readyClock + RefreshSeconds
        /\ diag'.observed = diag.observed /\ diag'.healthy = FALSE
    <3>1. readyClock + RefreshSeconds \in Nat BY <1>1
    <3> QED BY <1>1, <1>3, <3>1 DEF JobRecords
  <2>2. JobsTyped' BY <1>3, <2>1 DEF JobsTyped, JobRecords
  <2>3. diag.job < readyClock + RefreshSeconds BY <1>1 DEF JobsInTurn, JobRecords
  <2> QED BY <1>3, <2>1, <2>2, <2>3 DEF JobsInTurn, Done
<1> QED BY <1>2, <1>3 DEF BeginDiagnostic

LEMMA CheckKeeps ==
  ASSUME JobsTyped, JobsInTurn, HeartbeatOwned, NEW j \in DOMAIN checks, NEW d \in Deps, Check(j, d)
  PROVE  JobsTyped' /\ JobsInTurn'
<1> DEFINE timely == readyClock < j + TimeLimit
           ours == \E h \in Consumers : h[1] = CurrentRelease /\ readyClock < consumers[h].until
<1>1. PICK well \in BOOLEAN :
        checks' = [checks EXCEPT
                ![j].found[d] = [good |-> ~diag.stop /\ timely /\ HealthOf(d, well),
                                 true |-> timely /\ well /\ (d = "redis" => ours), made |-> TRUE],
                ![j].timely = timely]
  BY DEF Check
<1> DEFINE found == [good |-> ~diag.stop /\ timely /\ HealthOf(d, well),
                     true |-> timely /\ well /\ (d = "redis" => ours), made |-> TRUE]
           new == [checks[j] EXCEPT !.found[d] = found, !.timely = timely]
<1>2. found \in Findings /\ found.made /\ (found.good => found.true)
  BY BeatIsOurs DEF Findings, HealthOf, Deps
<1>3. UNCHANGED diag /\ ~checks[j].found[d].made BY DEF Check
<1>4. checks[j] \in CheckRecords BY DEF JobsTyped
<1>5. checks' = [checks EXCEPT ![j] = new] BY <1>1, <1>4 DEF JobsTyped, CheckRecords
<1>6. timely \in BOOLEAN OBVIOUS
<1> HIDE DEF timely, ours, found
<1>7. /\ new \in CheckRecords /\ new.noticed = checks[j].noticed /\ new.took = checks[j].took
      /\ new.found[d] = found /\ \A e \in Deps : e # d => new.found[e] = checks[j].found[e]
  BY <1>2, <1>4, <1>6 DEF CheckRecords
<1> HIDE DEF new
<1>8. DOMAIN checks' = DOMAIN checks /\ checks'[j] = new /\ \A k \in DOMAIN checks : k # j => checks'[k] = checks[k]
  BY <1>5
<1>9. JobsTyped' BY <1>3, <1>5, <1>7, <1>8 DEF JobsTyped
<1>10. \A k \in DOMAIN checks : Done(k) => k # j /\ Done(k)'
  <2>1. ~Done(j) BY <1>3 DEF Done
  <2>2. \A k \in DOMAIN checks : k # j => Done(k)' = Done(k) BY <1>8 DEF Done
  <2> QED BY <2>1, <2>2
<1>11. \A k \in DOMAIN checks :
       /\ k <= diag.job /\ (k # diag.job => Done(k)')
       /\ checks'[k].noticed => Done(k)'
       /\ checks'[k].took => k <= diag.observed
       /\ \A e \in Deps : checks'[k].found[e].good => checks'[k].found[e].true
  <2> TAKE k \in DOMAIN checks
  <2>1. CASE k = j
    <3>1. k <= diag.job /\ (k # diag.job => Done(k)') /\ (checks'[k].noticed => Done(k)') /\ (checks'[k].took => k <= diag.observed)
      BY <1>7, <1>8, <1>10, <2>1 DEF JobsInTurn
    <3>2. \A e \in Deps : checks'[k].found[e].good => checks'[k].found[e].true
      BY <1>2, <1>7, <1>8, <2>1 DEF JobsInTurn
    <3> QED BY <3>1, <3>2
  <2>2. CASE k # j BY <1>8, <1>10, <2>2 DEF JobsInTurn
  <2> QED BY <2>1, <2>2
<1>12. diag.observed >= 0 => /\ diag.observed \in DOMAIN checks /\ checks[diag.observed].noticed
                             /\ diag.observed # j /\ checks'[diag.observed] = checks[diag.observed]
  <2>1. diag.observed >= 0 => diag.observed \in DOMAIN checks /\ checks[diag.observed].noticed /\ Done(diag.observed)
    BY DEF JobsInTurn
  <2> QED BY <1>8, <1>10, <2>1
<1> QED BY <1>3, <1>8, <1>9, <1>11, <1>12 DEF JobsInTurn

LEMMA CompleteKeeps ==
  ASSUME JobsTyped, JobsInTurn, NEW j \in DOMAIN checks, Complete(j)
  PROVE  JobsTyped' /\ JobsInTurn'
<1> DEFINE took == j = diag.job
           kept == ({i \in DOMAIN checks : ~checks[i].noticed /\ i # j} \cup {diag.job} \cup {IF took THEN j ELSE diag.observed}) \ {-1}
<1>0. j \in Nat /\ j >= 0 /\ j # -1 BY DEF JobsTyped
<1>1. /\ Done(j) /\ ~checks[j].noticed /\ diag \in JobRecords /\ j \in Nat
      /\ checks' = [k \in kept |-> IF k = j THEN [checks[k] EXCEPT !.noticed = TRUE, !.took = took] ELSE checks[k]]
  BY DEF Complete, Noticed, JobsTyped, JobRecords
<1>2. kept \subseteq DOMAIN checks /\ (diag.job >= 0 => diag.job \in kept) /\ (~took /\ diag.observed >= 0 => diag.observed \in kept)
      /\ (took => j \in kept)
  <2>1. (diag.job \in Nat \/ diag.job = -1) /\ (diag.observed \in Nat \/ diag.observed = -1) BY <1>1 DEF JobRecords
  <2>2. (diag.job >= 0 => diag.job \in DOMAIN checks) /\ (diag.observed >= 0 => diag.observed \in DOMAIN checks) BY DEF JobsInTurn
  <2>3. \A k \in kept : k \in DOMAIN checks
    <3> TAKE k \in kept
    <3>1. k # -1 /\ (k \in DOMAIN checks \/ k = diag.job \/ k = j \/ k = diag.observed) OBVIOUS
    <3> QED BY <2>1, <2>2, <3>1
  <2>4. diag.job >= 0 => diag.job \in kept BY <2>1
  <2>5. ~took /\ diag.observed >= 0 => diag.observed \in kept BY <2>1
  <2>6. took => j \in kept BY <1>0
  <2> QED BY <2>3, <2>4, <2>5, <2>6
<1> HIDE DEF kept
<1>3. DOMAIN checks' = kept BY <1>1
<1>4. \A k \in kept : /\ checks'[k] \in CheckRecords /\ checks'[k].found = checks[k].found
                      /\ k # j => checks'[k] = checks[k]
                      /\ k = j => checks'[k].noticed = TRUE /\ checks'[k].took = took
  <2> TAKE k \in kept
  <2>1. checks[k] \in CheckRecords BY <1>2 DEF JobsTyped
  <2>2. checks'[k] = IF k = j THEN [checks[k] EXCEPT !.noticed = TRUE, !.took = took] ELSE checks[k] BY <1>1
  <2>3. took \in BOOLEAN OBVIOUS
  <2> HIDE DEF took
  <2> QED BY <2>1, <2>2, <2>3 DEF CheckRecords
<1>5. \A k \in kept : Done(k)' = Done(k) BY <1>4 DEF Done
<1>6. DOMAIN checks' \subseteq Nat /\ checks' \in [DOMAIN checks' -> CheckRecords]
  <2>1. checks' = [k \in kept |-> checks'[k]] BY <1>1
  <2> QED BY <1>2, <1>3, <1>4, <2>1 DEF JobsTyped
<1>7. CASE took
  <2>1. PICK timely \in {checks[j].timely, readyClock < j + TimeLimit} : diag' = Taken(j, timely) BY <1>7 DEF Complete
  <2> DEFINE healthy == timely /\ \A d \in Deps : checks[j].found[d].good
  <2>2. diag' = [diag EXCEPT !.observed = j, !.healthy = healthy] BY <2>1 DEF Taken
  <2>3. healthy \in BOOLEAN /\ (healthy => \A d \in Deps : checks[j].found[d].good) OBVIOUS
  <2> HIDE DEF healthy
  <2>4. /\ diag' \in JobRecords /\ diag'.job = diag.job /\ diag'.next = diag.next
        /\ diag'.observed = j /\ diag'.healthy = healthy
    BY <1>1, <2>2, <2>3 DEF JobRecords
  <2>5. JobsTyped' BY <1>6, <2>4 DEF JobsTyped, JobRecords
  <2>6. j \in kept /\ checks'[j].noticed /\ checks'[j].found = checks[j].found BY <1>2, <1>4, <1>7
  <2>7. \A k \in DOMAIN checks' :
       /\ k <= diag'.job /\ (k # diag'.job => Done(k)')
       /\ checks'[k].noticed => Done(k)'
       /\ checks'[k].took => k <= diag'.observed
       /\ \A d \in Deps : checks'[k].found[d].good => checks'[k].found[d].true
    <3> TAKE k \in DOMAIN checks'
    <3>1. k \in kept /\ k \in DOMAIN checks /\ k <= j BY <1>2, <1>3, <1>7 DEF JobsInTurn
    <3>2. Done(k)
      <4>1. k # diag.job => Done(k) BY <3>1 DEF JobsInTurn
      <4> QED BY <1>1, <1>7, <4>1
    <3>3. checks'[k].found = checks[k].found /\ Done(k)' BY <1>4, <1>5, <3>1, <3>2
    <3>4. \A d \in Deps : checks[k].found[d].good => checks[k].found[d].true BY <3>1 DEF JobsInTurn
    <3> QED BY <1>7, <2>4, <3>1, <3>3, <3>4
  <2>8. diag'.healthy => diag'.observed >= 0 /\ \A d \in Deps : checks'[diag'.observed].found[d].good
    <3>1. j >= 0 /\ diag'.observed = j BY <1>0, <2>4
    <3>2. diag'.healthy => \A d \in Deps : checks[j].found[d].good BY <2>3, <2>4
    <3> QED BY <2>6, <3>1, <3>2
  <2>9. diag'.job < diag'.next /\ diag'.observed <= diag'.job /\ (diag'.job >= 0 => diag'.job \in DOMAIN checks')
        /\ (diag'.observed >= 0 => diag'.observed \in DOMAIN checks' /\ checks'[diag'.observed].noticed)
    BY <1>1, <1>2, <1>3, <1>7, <2>4, <2>6 DEF JobsInTurn
  <2> QED BY <2>5, <2>7, <2>8, <2>9 DEF JobsInTurn
<1>8. CASE ~took
  <2>1. UNCHANGED diag BY <1>8 DEF Complete
  <2>2. JobsTyped' BY <1>6, <2>1 DEF JobsTyped
  <2>3. \A k \in DOMAIN checks' :
       /\ k <= diag.job /\ (k # diag.job => Done(k)')
       /\ checks'[k].noticed => Done(k)'
       /\ checks'[k].took => k <= diag.observed
       /\ \A d \in Deps : checks'[k].found[d].good => checks'[k].found[d].true
    <3> TAKE k \in DOMAIN checks'
    <3>1. k \in kept /\ k \in DOMAIN checks BY <1>2, <1>3
    <3>2. Done(k)' = Done(k) /\ (k = j => Done(k)) BY <1>1, <1>5, <3>1
    <3>3. checks'[k].took => checks[k].took BY <1>4, <1>8, <3>1
    <3>4. checks'[k].noticed => checks[k].noticed \/ k = j BY <1>4, <3>1
    <3> QED BY <1>4, <3>1, <3>2, <3>3, <3>4 DEF JobsInTurn
  <2>4. diag.observed >= 0 => /\ diag.observed \in DOMAIN checks' /\ checks'[diag.observed].noticed
                              /\ checks'[diag.observed].found = checks[diag.observed].found
    BY <1>2, <1>3, <1>4, <1>8 DEF JobsInTurn
  <2>5. diag.job >= 0 => diag.job \in DOMAIN checks' BY <1>2, <1>3
  <2> QED BY <2>1, <2>2, <2>3, <2>4, <2>5 DEF JobsInTurn
<1> QED BY <1>7, <1>8

(* A probe or a stop only takes health away.                               *)
LEMMA DiagnosticKeeps ==
  ASSUME JobsTyped, JobsInTurn, Probe \/ Stop
  PROVE  JobsTyped' /\ JobsInTurn'
<1>1. UNCHANGED checks /\ diag \in JobRecords BY DEF Probe, Stop, JobsTyped, JobRecords
<1>2. /\ diag' \in JobRecords /\ diag'.job = diag.job /\ diag'.next = diag.next /\ diag'.observed = diag.observed
      /\ diag'.healthy => diag.healthy
  BY <1>1 DEF Probe, Stop, JobRecords
<1> QED BY <1>1, <1>2 DEF JobsTyped, JobsInTurn, Done, JobRecords

LEMMA ReadyStarts == ReadyInit => ReadyInv
<1> SUFFICES ASSUME ReadyInit PROVE ReadyInv OBVIOUS
<1>1. PICK h \in Consumers \cup {NoConsumer} :
       /\ heartbeat = [by |-> h, until |-> IF h = NoConsumer THEN 0 ELSE HeartbeatLife, last |-> h]
       /\ consumers = [c \in Consumers |-> [up |-> c = h, until |-> IF c = h THEN HeartbeatLife ELSE 0]]
  BY DEF ReadyInit
<1>2. readyClock = 0 /\ HeartbeatLife \in Nat \ {0} BY ReadinessAssumption DEF ReadyInit
<1>3. HeartbeatOwned
  <2>1. heartbeat \in [by : Consumers \cup {NoConsumer}, until : Nat, last : Consumers \cup {NoConsumer}] BY <1>1, <1>2
  <2>2. \A c \in Consumers : [up |-> c = h, until |-> IF c = h THEN HeartbeatLife ELSE 0] \in [up : BOOLEAN, until : Nat]
    BY <1>2
  <2>3. consumers \in [Consumers -> [up : BOOLEAN, until : Nat]] BY <1>1, <2>2
  <2>4. heartbeat.by # NoConsumer => heartbeat.until = consumers[heartbeat.by].until BY <1>1
  <2>5. heartbeat.by = NoConsumer => heartbeat.until = 0 BY <1>1
  <2> QED BY <1>2, <2>1, <2>3, <2>4, <2>5 DEF HeartbeatOwned
<1>4. HeartbeatKept BY <1>1 DEF HeartbeatKept
<1>5. diag = [job |-> -1, next |-> 0, observed |-> -1, healthy |-> FALSE, stop |-> FALSE] /\ DOMAIN checks = {}
      /\ checks \in [DOMAIN checks -> CheckRecords]
  BY DEF ReadyInit
<1>6. JobsTyped /\ JobsInTurn BY <1>5 DEF JobsTyped, JobsInTurn
<1> QED BY <1>3, <1>4, <1>6 DEF ReadyInv

LEMMA ReadySteps == ReadyInv /\ [ReadyNext]_readyVars => ReadyInv'
<1> SUFFICES ASSUME ReadyInv, [ReadyNext]_readyVars PROVE ReadyInv' OBVIOUS
<1> USE DEF ReadyInv
<1>1. ASSUME UNCHANGED <<readyClock, heartbeat, consumers>> PROVE HeartbeatOwned' /\ HeartbeatKept'
  BY <1>1 DEF HeartbeatOwned, HeartbeatKept
<1>2. ASSUME UNCHANGED <<diag, checks>> PROVE JobsTyped' /\ JobsInTurn'
  BY <1>2 DEF JobsTyped, JobsInTurn, Done
<1>3. CASE UNCHANGED readyVars BY <1>1, <1>2, <1>3 DEF readyVars
<1>4. CASE BeginDiagnostic BY <1>1, <1>4, BeginDiagnosticKeeps DEF BeginDiagnostic, HeartbeatOwned
<1>5. CASE Probe \/ Stop BY <1>1, <1>5, DiagnosticKeeps DEF Probe, Stop
<1>6. CASE ReadyTick BY <1>2, <1>6, ReadyTickKeeps DEF ReadyTick
<1>7. ASSUME NEW j \in DOMAIN checks, Complete(j) PROVE ReadyInv'
  BY <1>1, <1>7, CompleteKeeps DEF Complete
<1>8. ASSUME NEW j \in DOMAIN checks, NEW d \in Deps, Check(j, d) PROVE ReadyInv'
  BY <1>1, <1>8, CheckKeeps DEF Check
<1>9. ASSUME NEW h \in Consumers, Beat(h) PROVE ReadyInv'
  BY <1>2, <1>9, BeatKeeps DEF Beat
<1>10. ASSUME NEW h \in Consumers, Leave(h) \/ Crash(h) PROVE ReadyInv'
  <2>1. UNCHANGED <<diag, checks>> /\ readyClock' = readyClock /\ consumers' = [consumers EXCEPT ![h].up = FALSE]
        /\ \/ heartbeat' = heartbeat
           \/ heartbeat.by = h /\ heartbeat' = [heartbeat EXCEPT !.by = NoConsumer, !.until = 0]
    BY <1>10 DEF Leave, Crash
  <2> QED BY <1>2, <2>1, DownKeeps
<1> QED BY <1>3, <1>4, <1>5, <1>6, <1>7, <1>8, <1>9, <1>10 DEF ReadyNext

(* A ready answer rests on the last collection taken in, and only the      *)
(* newest, while it is in time, may still have to end.                     *)
LEMMA ReadyFollows == ReadyInv => ReadySound
<1> SUFFICES ASSUME ReadyInv, Ready PROVE ReadyHonest BY DEF ReadyInv, ReadySound, ReadyHonest
<1> USE DEF ReadyInv
<1> DEFINE j == diag.observed
<1>1. /\ diag \in JobRecords /\ j >= 0 /\ readyClock - j <= MaxAge /\ diag.healthy /\ ~Overdue
      /\ j \in DOMAIN checks /\ checks[j].noticed
  BY DEF Ready, Fresh, JobsTyped, JobRecords, JobsInTurn
<1>2. \A d \in Deps : checks[j].found[d].true BY <1>1 DEF JobsInTurn
<1>3. ASSUME NEW k \in DOMAIN checks, k > j
      PROVE  \/ ~Done(k) /\ readyClock < k + TimeLimit
             \/ Done(k) /\ ~checks[k].noticed
             \/ checks[k].noticed /\ ~checks[k].took
  <2>1. k \in Nat /\ j \in Nat BY <1>1 DEF JobsTyped, JobRecords
  <2>2. ~checks[k].took
    <3>1. checks[k].took => k <= j BY DEF JobsInTurn
    <3> QED BY <1>3, <2>1, <3>1
  <2>3. ~Done(k) => readyClock < k + TimeLimit
    <3>1. ~Done(k) => k = diag.job /\ k >= 0 BY <2>1 DEF JobsInTurn
    <3>2. ~Done(k) => ~(readyClock >= k + TimeLimit) BY <1>1, <3>1 DEF Overdue, Running
    <3>3. readyClock \in Nat /\ TimeLimit \in Nat BY ReadinessAssumption DEF HeartbeatOwned
    <3> QED BY <2>1, <3>2, <3>3
  <2> QED BY <2>2, <2>3
<1> QED BY <1>1, <1>2, <1>3 DEF ReadyHonest

(* A ready answer of GET /health rests on one recent collection, of checks *)
(* that ended well and in time, Redis's on a consumer of this release that *)
(* was there; no later collection hangs, and one that failed was overtaken *)
(* by another's end.  A consumer that leaves takes no other's heartbeat:   *)
(* for any consumers, cadences and limits.                                 *)
THEOREM ReadinessTheorem == ReadySpec => []ReadySound
<1>1. ReadySpec => []ReadyInv BY ReadyStarts, ReadySteps, PTL DEF ReadySpec
<1> QED BY <1>1, ReadyFollows, PTL

-----------------------------------------------------------------------------
(* Feedback over HTTP: what a worker has found of its batch was so, and    *)
(* nobody works for a caller but on the batch it sent                      *)

IntakeSpec == IntakeInit /\ [][IntakeNext]_intakeVars

Arrivals == Ids \X Payloads
IntakeResults == {"accepted", "duplicate", "conflict", "overloaded", "failed"}
Posts == [batch : Seq(Arrivals), k : Nat \ {0}, results : Seq(IntakeResults), piped : BOOLEAN, cut : BOOLEAN]
Replies ==
  [status : {0, 202, 409, 503}, retryable : BOOLEAN, failed : Ids \cup {NoPayload}, accepted : Nat, duplicates : Nat]
Calls == [waits : BOOLEAN, batch : Seq(Arrivals), worker : IntakeWorkers \cup {NoPayload}, reply : Replies, sends : Nat]

IntakeTyped ==
  /\ intake \in [keys : [Ids -> Payloads \cup {NoPayload}], stream : Seq(Arrivals)]
  /\ posts \in [IntakeWorkers -> Posts] /\ callers \in [IntakeCallers -> Calls]
  /\ added \in [payloads : [Ids -> Seq(Payloads)], expired : [Ids -> Nat]]

Entered(event) == \E k \in DOMAIN added.payloads[event[1]] : added.payloads[event[1]][k] = event[2]
TakenBy(event) == \E p \in Payloads \ {event[2]} : Entered(<<event[1], p>>)

\* A key stands for one more life of its event, which was added.
KeysEntered ==
  /\ \A i \in Ids :
       /\ intake.keys[i] # NoPayload => Entered(<<i, intake.keys[i]>>)
       /\ Len(added.payloads[i]) <= added.expired[i] + (IF intake.keys[i] = NoPayload THEN 0 ELSE 1)
  /\ Len(intake.stream) <= StreamMax

\* What a worker has found so far of the batch it works on.
FoundSoFar(p) ==
  /\ Len(p.results) = p.k - 1 /\ p.k <= Len(p.batch) + 1
  /\ \A k \in DOMAIN p.results :
       /\ p.results[k] \in {"accepted", "duplicate"} => Entered(p.batch[k])
       /\ p.results[k] = "conflict" => TakenBy(p.batch[k])

ReplyTrue(one) ==
  /\ one.reply.status = 202 => /\ \A k \in DOMAIN one.batch : Entered(one.batch[k])
                               /\ one.reply.accepted + one.reply.duplicates = Len(one.batch)
  /\ one.reply.status = 409 => /\ \E k \in DOMAIN one.batch : one.batch[k][1] = one.reply.failed /\ TakenBy(one.batch[k])
                               /\ one.reply.accepted + one.reply.duplicates < Len(one.batch)

\* Whoever waits for a worker waits for what it does with the batch it sent.
Served(c) ==
  LET one == callers[c] p == posts[one.worker] IN
  /\ one.waits \/ one.reply.retryable => one.batch # <<>>
  /\ one.waits => one.worker \in IntakeWorkers /\ ~p.cut /\ p.batch = one.batch

IntakeInv ==
  /\ IntakeTyped /\ KeysEntered
  /\ \A w \in IntakeWorkers : posts[w].cut \/ FoundSoFar(posts[w])
  /\ \A c \in IntakeCallers : ReplyTrue(callers[c]) /\ Served(c)

(* Whatever was added stays in the history.                                *)
Grows == \A event \in Arrivals : Entered(event) => Entered(event)'

LEMMA FoundStays ==
  ASSUME NEW p \in Posts, FoundSoFar(p), Grows
  PROVE  FoundSoFar(p)'
<1>1. p.k \in Nat \ {0} /\ p.batch \in Seq(Arrivals) /\ p.results \in Seq(IntakeResults) BY DEF Posts
<1>2. \A k \in DOMAIN p.results : p.batch[k] \in Arrivals
  <2>1. DOMAIN p.results = 1..Len(p.results) /\ Len(p.results) \in Nat /\ Len(p.batch) \in Nat BY <1>1, LenProperties
  <2>2. \A k \in 1..Len(p.results) : k \in 1..Len(p.batch) BY <1>1, <2>1 DEF FoundSoFar
  <2>3. \A k \in 1..Len(p.batch) : p.batch[k] \in Arrivals BY <1>1, ElementOfSeq
  <2> QED BY <2>1, <2>2, <2>3
<1>3. \A event \in Arrivals : TakenBy(event) => TakenBy(event)'
  <2>1. \A event \in Arrivals : \A q \in Payloads : <<event[1], q>> \in Arrivals BY DEF Arrivals
  <2> QED BY <2>1 DEF Grows, TakenBy
<1>4. \A k \in DOMAIN p.results :
       /\ p.results[k] \in {"accepted", "duplicate"} => Entered(p.batch[k])'
       /\ p.results[k] = "conflict" => TakenBy(p.batch[k])'
  BY <1>2, <1>3 DEF FoundSoFar, Grows
<1> QED BY <1>4 DEF FoundSoFar

LEMMA ReplyStays ==
  ASSUME NEW one \in Calls, ReplyTrue(one), Grows
  PROVE  ReplyTrue(one)'
<1>1. \A k \in DOMAIN one.batch : one.batch[k] \in Arrivals
  <2>1. one.batch \in Seq(Arrivals) BY DEF Calls
  <2>2. DOMAIN one.batch = 1..Len(one.batch) BY <2>1, LenProperties
  <2> QED BY <2>1, <2>2, ElementOfSeq
<1>2. \A event \in Arrivals : TakenBy(event) => TakenBy(event)'
  <2>1. \A event \in Arrivals : \A q \in Payloads : <<event[1], q>> \in Arrivals BY DEF Arrivals
  <2> QED BY <2>1 DEF Grows, TakenBy
<1>3. (\A k \in DOMAIN one.batch : Entered(one.batch[k])) => \A k \in DOMAIN one.batch : Entered(one.batch[k])'
  BY <1>1 DEF Grows
<1>4. \A k \in DOMAIN one.batch : TakenBy(one.batch[k]) => TakenBy(one.batch[k])' BY <1>1, <1>2
<1> QED BY <1>3, <1>4 DEF ReplyTrue

(* What an answer counts: the events found accepted or known before.       *)
LEMMA CountsOf ==
  ASSUME NEW results \in Seq(IntakeResults)
  PROVE  LET acc == Cardinality({k \in DOMAIN results : results[k] = "accepted"})
             dup == Cardinality({k \in DOMAIN results : results[k] = "duplicate"})
         IN  /\ acc \in Nat /\ dup \in Nat /\ acc + dup <= Len(results)
             /\ (\A k \in DOMAIN results : results[k] \in Fine) => acc + dup = Len(results)
             /\ (\E k \in DOMAIN results : results[k] \notin Fine) => acc + dup < Len(results)
<1> DEFINE D == DOMAIN results
           A == {k \in D : results[k] = "accepted"}
           B == {k \in D : results[k] = "duplicate"}
<1>1. D = 1..Len(results) /\ Len(results) \in Nat BY LenProperties
<1>2. IsFiniteSet(D) /\ Cardinality(D) = Len(results)
  <2>1. IsFiniteSet(1..Len(results)) /\ Cardinality(1..Len(results)) = IF 1 > Len(results) THEN 0 ELSE Len(results) - 1 + 1
    BY <1>1, FS_Interval
  <2> QED BY <1>1, <2>1
<1>3. A \subseteq D /\ B \subseteq D /\ A \cup B \subseteq D /\ A \cap B = {} OBVIOUS
<1>4. (\A k \in D : results[k] \in Fine) => A \cup B = D BY DEF Fine
<1>5. (\E k \in D : results[k] \notin Fine) => A \cup B # D BY DEF Fine
<1> HIDE DEF D, A, B
<1>6. IsFiniteSet(A) /\ IsFiniteSet(B) /\ IsFiniteSet(A \cup B) BY <1>2, <1>3, FS_Subset
<1>7. Cardinality(A \cup B) = Cardinality(A) + Cardinality(B) - Cardinality(A \cap B) BY <1>6, FS_Union
<1>8. Cardinality(A \cap B) = 0 BY <1>3, FS_EmptySet
<1>9. Cardinality(A) \in Nat /\ Cardinality(B) \in Nat BY <1>6, FS_CardinalityType
<1>10. Cardinality(A \cup B) <= Cardinality(D) /\ (Cardinality(A \cup B) = Cardinality(D) => A \cup B = D)
  BY <1>2, <1>3, FS_Subset
<1>11. Cardinality(A \cup B) = Cardinality(A) + Cardinality(B) BY <1>7, <1>8, <1>9
<1>12. Cardinality(A) + Cardinality(B) <= Len(results) BY <1>2, <1>10, <1>11
<1>13. A \cup B = D => Cardinality(A) + Cardinality(B) = Len(results) BY <1>2, <1>11
<1>14. A \cup B # D => Cardinality(A) + Cardinality(B) < Len(results)
  <2>1. A \cup B # D => Cardinality(A) + Cardinality(B) # Len(results) BY <1>2, <1>10, <1>11
  <2> QED BY <1>1, <1>9, <1>12, <2>1
<1> QED BY <1>4, <1>5, <1>9, <1>12, <1>13, <1>14 DEF D, A, B

LEMMA UnavailableTyped ==
  ASSUME NEW results \in Seq(IntakeResults)
  PROVE  UnavailableAnswer(results) \in Replies /\ UnavailableAnswer(results).status = 503
<1> DEFINE acc == Cardinality({k \in DOMAIN results : results[k] = "accepted"})
           dup == Cardinality({k \in DOMAIN results : results[k] = "duplicate"})
<1>1. acc \in Nat /\ dup \in Nat BY CountsOf
<1>2. UnavailableAnswer(results) =
        [status |-> 503, retryable |-> TRUE, failed |-> NoPayload, accepted |-> acc, duplicates |-> dup]
  BY DEF UnavailableAnswer, Answered
<1> HIDE DEF acc, dup
<1> QED BY <1>1, <1>2 DEF Replies

LEMMA LeastIn == ASSUME NEW S \in SUBSET Nat, S # {} PROVE (CHOOSE k \in S : \A j \in S : k <= j) \in S
<1>1. IsWellFoundedOn(OpToRel(<, Nat), Nat) BY NatLessThanWellFounded
<1>2. PICK x \in S : \A y \in S : ~(<<y, x>> \in OpToRel(<, Nat)) BY <1>1, WFMin
<1>3. \A y \in S : x <= y
  <2> TAKE y \in S
  <2>1. <<y, x>> \notin OpToRel(<, Nat) BY <1>2
  <2>2. ~(y < x) BY <2>1 DEF OpToRel
  <2> QED BY <2>2
<1> QED BY <1>3

(* The answer to a batch that was run to its end, or to a refusal, is true *)
(* of it.                                                                  *)
LEMMA OutcomeTrue ==
  ASSUME NEW p \in Posts, FoundSoFar(p), p.k > Len(p.batch) \/ Stopped(p)
  PROVE  /\ Outcome(p) \in Replies
         /\ Outcome(p).status = 202 => /\ \A k \in DOMAIN p.batch : Entered(p.batch[k])
                                       /\ Outcome(p).accepted + Outcome(p).duplicates = Len(p.batch)
         /\ Outcome(p).status = 409 =>
              /\ \E k \in DOMAIN p.batch : p.batch[k][1] = Outcome(p).failed /\ TakenBy(p.batch[k])
              /\ Outcome(p).accepted + Outcome(p).duplicates < Len(p.batch)
<1> DEFINE Found(r) == \E k \in DOMAIN p.results : p.results[k] = r
           acc == Cardinality({k \in DOMAIN p.results : p.results[k] = "accepted"})
           dup == Cardinality({k \in DOMAIN p.results : p.results[k] = "duplicate"})
<1>1. /\ p.k \in Nat \ {0} /\ p.batch \in Seq(Arrivals) /\ p.results \in Seq(IntakeResults)
      /\ Len(p.results) \in Nat /\ Len(p.batch) \in Nat
      /\ DOMAIN p.results = 1..Len(p.results) /\ DOMAIN p.batch = 1..Len(p.batch)
      /\ \A k \in DOMAIN p.results : p.results[k] \in IntakeResults
      /\ \A k \in DOMAIN p.batch : p.batch[k] \in Arrivals
  <2>1. p.k \in Nat \ {0} /\ p.batch \in Seq(Arrivals) /\ p.results \in Seq(IntakeResults) BY DEF Posts
  <2> QED BY <2>1, LenProperties, ElementOfSeq
<1>2. /\ Len(p.results) = p.k - 1 /\ p.k <= Len(p.batch) + 1
      /\ DOMAIN p.results \subseteq DOMAIN p.batch
  BY <1>1 DEF FoundSoFar
<1>3. /\ acc \in Nat /\ dup \in Nat
      /\ (\A k \in DOMAIN p.results : p.results[k] \in Fine) => acc + dup = Len(p.results)
      /\ (\E k \in DOMAIN p.results : p.results[k] \notin Fine) => acc + dup < Len(p.results)
  BY <1>1, CountsOf
<1>4. NoPayload \in Ids \cup {NoPayload} OBVIOUS
<1> HIDE DEF acc, dup
<1>5. CASE Found("conflict")
  <2> DEFINE at == {k \in DOMAIN p.results : p.results[k] = "conflict"}
             least == CHOOSE k \in at : \A j \in at : k <= j
             failed == p.batch[least][1]
  <2>1. at \in SUBSET Nat /\ at # {} BY <1>1, <1>5
  <2>2. least \in at
    <3> HIDE DEF at
    <3> QED BY <2>1, LeastIn
  <2>3. Firstly(p, "conflict") = failed BY DEF Firstly
  <2> HIDE DEF least
  <2>4. least \in DOMAIN p.batch /\ TakenBy(p.batch[least]) /\ failed \in Ids
    BY <1>1, <1>2, <2>2 DEF FoundSoFar, Arrivals
  <2>5. Outcome(p) = Answered(409, FALSE, p.results, failed) BY <1>5, <2>3 DEF Outcome
  <2> HIDE DEF failed
  <2>6. Outcome(p) \in Replies
    <3>1. Outcome(p) = [status |-> 409, retryable |-> FALSE, failed |-> failed, accepted |-> acc, duplicates |-> dup]
      BY <2>5 DEF Answered, acc, dup
    <3> QED BY <1>3, <1>4, <2>4, <3>1 DEF Replies
  <2>7. Outcome(p).status = 409 /\ ~Outcome(p).retryable /\ Outcome(p).failed = failed
        /\ Outcome(p).accepted = acc /\ Outcome(p).duplicates = dup
    BY <2>5 DEF Answered, acc, dup
  <2>8. \E k \in DOMAIN p.results : p.results[k] \notin Fine BY <1>5 DEF Fine
  <2>9. acc + dup < Len(p.batch) BY <1>1, <1>2, <1>3, <2>8
  <2> QED BY <2>4, <2>6, <2>7, <2>9 DEF failed
<1>6. CASE ~Found("conflict") /\ (Found("overloaded") \/ Found("failed"))
  <2>1. Outcome(p) = Answered(503, TRUE, p.results, NoPayload) BY <1>6 DEF Outcome, UnavailableAnswer
  <2>2. Outcome(p) \in Replies
    <3>1. Outcome(p) = [status |-> 503, retryable |-> TRUE, failed |-> NoPayload, accepted |-> acc, duplicates |-> dup]
      BY <2>1 DEF Answered, acc, dup
    <3> QED BY <1>3, <1>4, <3>1 DEF Replies
  <2>3. Outcome(p).status = 503 BY <2>1 DEF Answered
  <2> QED BY <2>2, <2>3
<1>7. CASE ~Found("conflict") /\ ~Found("overloaded") /\ ~Found("failed")
  <2>1. Outcome(p) = Answered(202, FALSE, p.results, NoPayload) BY <1>7 DEF Outcome
  <2>2. Outcome(p) \in Replies
    <3>1. Outcome(p) = [status |-> 202, retryable |-> FALSE, failed |-> NoPayload, accepted |-> acc, duplicates |-> dup]
      BY <2>1 DEF Answered, acc, dup
    <3> QED BY <1>3, <1>4, <3>1 DEF Replies
  <2>3. Outcome(p).status = 202 /\ ~Outcome(p).retryable /\ Outcome(p).accepted = acc /\ Outcome(p).duplicates = dup
    BY <2>1 DEF Answered, acc, dup
  <2>4. \A k \in DOMAIN p.results : p.results[k] \in Fine BY <1>1, <1>7 DEF IntakeResults, Fine
  <2>5. ~Stopped(p)
    <3>1. p.results # <<>> => Len(p.results) \in DOMAIN p.results
      <4>1. p.results # <<>> => Len(p.results) # 0 BY <1>1, EmptySeq
      <4> QED BY <1>1, <4>1
    <3> QED BY <2>4, <3>1 DEF Stopped
  <2>6. Len(p.results) = Len(p.batch) BY <1>1, <1>2, <2>5
  <2>7. \A k \in DOMAIN p.batch : Entered(p.batch[k]) BY <1>1, <2>4, <2>6 DEF FoundSoFar, Fine
  <2> QED BY <1>3, <2>2, <2>3, <2>4, <2>6, <2>7
<1> QED BY <1>5, <1>6, <1>7

(* What a step leaves alone stays true.                                    *)
LEMMA FoundKeeps ==
  ASSUME IntakeInv, Grows, NEW w \in IntakeWorkers, posts'[w] = posts[w]
  PROVE  posts'[w].cut \/ FoundSoFar(posts[w])'
<1>1. PICK p \in Posts : p = posts[w] BY DEF IntakeInv, IntakeTyped
<1>2. posts'[w] = p BY <1>1
<1>3. p.cut \/ FoundSoFar(p) BY <1>1 DEF IntakeInv
<1>4. p.cut \/ FoundSoFar(p)' BY <1>3, FoundStays
<1> QED BY <1>2, <1>4 DEF FoundSoFar

LEMMA ReplyKeeps ==
  ASSUME IntakeInv, Grows, NEW c \in IntakeCallers, callers'[c] = callers[c]
  PROVE  ReplyTrue(callers[c])'
<1>1. PICK one \in Calls : one = callers[c] BY DEF IntakeInv, IntakeTyped
<1>2. callers'[c] = one BY <1>1
<1>3. ReplyTrue(one) BY <1>1 DEF IntakeInv
<1>4. ReplyTrue(one)' BY <1>3, ReplyStays
<1> QED BY <1>2, <1>4 DEF ReplyTrue

LEMMA NothingAdded ==
  ASSUME IntakeInv, UNCHANGED <<intake, added>>
  PROVE  Grows /\ KeysEntered'
BY DEF Grows, KeysEntered, Entered, IntakeInv

LEMMA FreeTyped == Free \in Posts /\ FoundSoFar(Free) /\ Free.batch = <<>> /\ ~Free.cut
<1>1. <<>> \in Seq(Arrivals) /\ <<>> \in Seq(IntakeResults) /\ Len(<<>>) = 0 /\ DOMAIN <<>> = {} BY EmptySeq
<1>2. Free \in Posts BY <1>1 DEF Free, Posts
<1> QED BY <1>1, <1>2 DEF Free, FoundSoFar

LEMMA NothingKnown == UnavailableAnswer(<<>>) \in Replies /\ UnavailableAnswer(<<>>).status = 503
<1>1. PICK results \in Seq(IntakeResults) : results = <<>> BY EmptySeq
<1>2. UnavailableAnswer(results) \in Replies /\ UnavailableAnswer(results).status = 503 BY UnavailableTyped
<1> QED BY <1>1, <1>2

LEMMA SendBatchKeeps == ASSUME IntakeInv, NEW c \in IntakeCallers, SendBatch(c) PROVE IntakeInv'
<1>1. PICK batch \in Sendable(c) :
       LET sent == [waits |-> TRUE, batch |-> batch, worker |-> NoPayload, reply |-> NoReply, sends |-> callers[c].sends + 1]
       IN  IF \E w \in IntakeWorkers : Idle(w)
           THEN \E w \in {v \in IntakeWorkers : Idle(v)}, piped \in BOOLEAN :
                  /\ callers' = [callers EXCEPT ![c] = [sent EXCEPT !.worker = w]]
                  /\ posts' = [posts EXCEPT ![w] = [Free EXCEPT !.batch = batch, !.piped = piped /\ Len(batch) > 1]]
           ELSE callers' = [callers EXCEPT ![c] = [sent EXCEPT !.waits = FALSE, !.reply = UnavailableAnswer(<<>>)]] /\ UNCHANGED posts
  BY DEF SendBatch
<1>2. IntakeTyped /\ UNCHANGED <<intake, added>> /\ callers[c] \in Calls BY DEF SendBatch, IntakeInv, IntakeTyped
<1>3. batch \in Seq(Arrivals) /\ batch # <<>>
  <2>1. CASE callers[c].reply.retryable BY <1>1, <1>2, <2>1 DEF Sendable, IntakeInv, Served, Calls
  <2>2. CASE ~callers[c].reply.retryable BY <1>1, <2>2, IntakeAssumption DEF Sendable, Arrivals
  <2> QED BY <2>1, <2>2
<1>4. callers[c].sends + 1 \in Nat BY <1>2 DEF Calls
<1>5. Grows /\ KeysEntered' BY <1>2, NothingAdded
<1>6. \A d \in IntakeCallers : d # c => callers'[d] = callers[d] BY <1>1, <1>2 DEF IntakeTyped
<1>7. NoReply \in Replies /\ NoReply.status = 0 /\ ~NoReply.retryable BY DEF NoReply, Replies
<1>8. CASE \E w \in IntakeWorkers : Idle(w)
  <2> DEFINE sent == [waits |-> TRUE, batch |-> batch, worker |-> NoPayload, reply |-> NoReply, sends |-> callers[c].sends + 1]
  <2>1. PICK w \in {v \in IntakeWorkers : Idle(v)}, piped \in BOOLEAN :
          /\ callers' = [callers EXCEPT ![c] = [sent EXCEPT !.worker = w]]
          /\ posts' = [posts EXCEPT ![w] = [Free EXCEPT !.batch = batch, !.piped = piped /\ Len(batch) > 1]]
    BY <1>1, <1>8
  <2> DEFINE made == [sent EXCEPT !.worker = w]
             many == piped /\ Len(batch) > 1
             post == [Free EXCEPT !.batch = batch, !.piped = many]
  <2>2. <<>> \in Seq(IntakeResults) /\ Len(<<>>) = 0 /\ DOMAIN <<>> = {} BY EmptySeq
  <2>3. /\ made \in Calls /\ made.waits /\ made.batch = batch /\ made.worker = w /\ made.reply = NoReply
        /\ w \in IntakeWorkers /\ Idle(w)
    BY <1>3, <1>4, <1>7, <2>1 DEF Calls
  <2>4. post \in Posts /\ post.batch = batch /\ ~post.cut /\ post.k = 1 /\ post.results = <<>>
    <3>1. many \in BOOLEAN OBVIOUS
    <3> HIDE DEF many
    <3>2. Free \in Posts /\ Free.k = 1 /\ Free.results = <<>> /\ ~Free.cut BY FreeTyped DEF Free
    <3> QED BY <1>3, <3>1, <3>2 DEF Posts
  <2>6. callers' = [callers EXCEPT ![c] = made] /\ posts' = [posts EXCEPT ![w] = post] BY <2>1
  <2> HIDE DEF made, post
  <2>5. FoundSoFar(post)'
    <3>1. Len(batch) \in Nat BY <1>3, LenProperties
    <3> QED BY <2>2, <2>4, <3>1 DEF FoundSoFar
  <2>8. IntakeTyped' BY <1>2, <2>3, <2>4, <2>6 DEF IntakeTyped
  <2>9. callers'[c] = made /\ posts'[w] = post /\ \A v \in IntakeWorkers : v # w => posts'[v] = posts[v]
    BY <1>2, <2>3, <2>6 DEF IntakeTyped
  <2>10. ASSUME NEW v \in IntakeWorkers PROVE posts'[v].cut \/ FoundSoFar(posts[v])'
    <3>1. CASE v = w BY <2>5, <2>9, <3>1 DEF FoundSoFar
    <3>2. CASE v # w BY <1>5, <2>9, <3>2, FoundKeeps
    <3> QED BY <3>1, <3>2
  <2>11. ASSUME NEW d \in IntakeCallers PROVE ReplyTrue(callers[d])' /\ Served(d)'
    <3>1. CASE d = c BY <1>3, <1>7, <2>3, <2>4, <2>9, <3>1 DEF ReplyTrue, Served
    <3>2. CASE d # c
      <4>1. ReplyTrue(callers[d])' BY <1>5, <1>6, <3>2, ReplyKeeps
      <4>2. Served(d) BY DEF IntakeInv
      <4>3. callers[d].waits => callers[d].worker # w BY <2>3, <4>2, FreeTyped DEF Served, Idle
      <4> QED BY <1>6, <2>9, <3>2, <4>1, <4>2, <4>3 DEF Served
    <3> QED BY <3>1, <3>2
  <2> QED BY <1>5, <2>8, <2>10, <2>11 DEF IntakeInv
<1>9. CASE ~\E w \in IntakeWorkers : Idle(w)
  <2>1. /\ callers' = [callers EXCEPT ![c] = [waits |-> FALSE, batch |-> batch, worker |-> NoPayload, reply |-> UnavailableAnswer(<<>>), sends |-> callers[c].sends + 1]]
        /\ UNCHANGED posts
    BY <1>1, <1>9
  <2> DEFINE made == [waits |-> FALSE, batch |-> batch, worker |-> NoPayload, reply |-> UnavailableAnswer(<<>>), sends |-> callers[c].sends + 1]
  <2>3. UnavailableAnswer(<<>>) \in Replies /\ UnavailableAnswer(<<>>).status = 503 BY NothingKnown
  <2>4. made \in Calls BY <1>3, <1>4, <2>3 DEF Calls
  <2>5. ~made.waits /\ made.batch = batch /\ made.reply.status = 503 BY <2>3
  <2>6. callers' = [callers EXCEPT ![c] = made] BY <2>1
  <2> HIDE DEF made
  <2>7. IntakeTyped' BY <1>2, <2>1, <2>4, <2>6 DEF IntakeTyped
  <2>8. callers'[c] = made BY <1>2, <2>6 DEF IntakeTyped
  <2>9. \A v \in IntakeWorkers : posts'[v].cut \/ FoundSoFar(posts[v])' BY <1>5, <2>1, FoundKeeps
  <2>10. ASSUME NEW d \in IntakeCallers PROVE ReplyTrue(callers[d])' /\ Served(d)'
    <3>1. CASE d = c BY <1>3, <2>5, <2>8, <3>1 DEF ReplyTrue, Served
    <3>2. CASE d # c
      <4>1. ReplyTrue(callers[d])' BY <1>5, <1>6, <3>2, ReplyKeeps
      <4>2. Served(d) BY DEF IntakeInv
      <4> QED BY <1>6, <2>1, <3>2, <4>1, <4>2 DEF Served
    <3> QED BY <3>1, <3>2
  <2> QED BY <1>5, <2>7, <2>9, <2>10 DEF IntakeInv
<1> QED BY <1>8, <1>9

(* Callers get an answer and wait no longer: a refusal, or a true one.     *)
LEMMA AnswersKeep ==
  ASSUME IntakeInv, UNCHANGED <<intake, added>>,
         posts' \in [IntakeWorkers -> Posts],
         \A v \in IntakeWorkers : posts'[v] = posts[v] \/ posts'[v].cut \/ posts'[v] = Free,
         callers' \in [IntakeCallers -> Calls],
         \A c \in IntakeCallers :
           \/ callers'[c] = callers[c] /\ (callers[c].waits => posts'[callers[c].worker] = posts[callers[c].worker])
           \/ /\ ~callers'[c].waits /\ ReplyTrue(callers'[c])
              /\ callers'[c].reply.retryable => callers'[c].batch # <<>>
  PROVE  IntakeInv'
<1>1. Grows /\ KeysEntered' BY NothingAdded
<1>2. IntakeTyped' BY DEF IntakeInv, IntakeTyped
<1>3. ASSUME NEW v \in IntakeWorkers PROVE posts'[v].cut \/ FoundSoFar(posts[v])'
  <2>1. CASE posts'[v] = posts[v] BY <1>1, <2>1, FoundKeeps
  <2>2. CASE posts'[v] = Free
    <3>1. FoundSoFar(Free)' BY <1>1, FreeTyped, FoundStays
    <3> QED BY <2>2, <3>1 DEF FoundSoFar
  <2> QED BY <2>1, <2>2
<1>4. ASSUME NEW c \in IntakeCallers PROVE ReplyTrue(callers[c])' /\ Served(c)'
  <2>1. CASE callers'[c] = callers[c] /\ (callers[c].waits => posts'[callers[c].worker] = posts[callers[c].worker])
    <3>1. ReplyTrue(callers[c])' BY <1>1, <2>1, ReplyKeeps
    <3>2. Served(c) BY DEF IntakeInv
    <3> QED BY <2>1, <3>1, <3>2 DEF Served
  <2>2. CASE ~callers'[c].waits /\ ReplyTrue(callers'[c]) /\ (callers'[c].reply.retryable => callers'[c].batch # <<>>)
    <3>1. \A event : Entered(event)' = Entered(event) BY DEF Entered
    <3>2. \A event : TakenBy(event)' = TakenBy(event) BY <3>1 DEF TakenBy
    <3>3. ReplyTrue(callers[c])' BY <2>2, <3>1, <3>2 DEF ReplyTrue
    <3> QED BY <2>2, <3>3 DEF Served
  <2> QED BY <2>1, <2>2
<1> QED BY <1>1, <1>2, <1>3, <1>4 DEF IntakeInv

LEMMA ExpireKeeps == ASSUME IntakeInv, NEW c \in IntakeCallers, Expire(c) PROVE IntakeInv'
<1>1. /\ callers[c].waits /\ UNCHANGED <<intake, posts, added>>
      /\ callers' = [callers EXCEPT ![c].waits = FALSE, ![c].worker = NoPayload, ![c].reply = UnavailableAnswer(<<>>)]
  BY DEF Expire
<1>2. posts \in [IntakeWorkers -> Posts] /\ callers \in [IntakeCallers -> Calls] BY DEF IntakeInv, IntakeTyped
<1>3. UnavailableAnswer(<<>>) \in Replies /\ UnavailableAnswer(<<>>).status = 503 BY NothingKnown
<1> DEFINE made == [callers[c] EXCEPT !.waits = FALSE, !.worker = NoPayload, !.reply = UnavailableAnswer(<<>>)]
<1>4. made \in Calls /\ ~made.waits /\ made.reply.status = 503 /\ made.batch = callers[c].batch
  <2>1. callers[c] \in Calls /\ FALSE \in BOOLEAN /\ NoPayload \in IntakeWorkers \cup {NoPayload} BY <1>2
  <2> QED BY <1>3, <2>1 DEF Calls
<1>5. callers' = [callers EXCEPT ![c] = made] BY <1>1, <1>2 DEF Calls
<1> HIDE DEF made
<1>6. callers' \in [IntakeCallers -> Calls] /\ callers'[c] = made /\ \A d \in IntakeCallers : d # c => callers'[d] = callers[d]
  BY <1>2, <1>4, <1>5
<1>7. ReplyTrue(callers'[c]) BY <1>4, <1>6 DEF ReplyTrue
<1>8. callers'[c].batch # <<>> BY <1>1, <1>4, <1>6 DEF IntakeInv, Served
<1> QED BY <1>1, <1>2, <1>4, <1>6, <1>7, <1>8, AnswersKeep

LEMMA VanishKeeps == ASSUME IntakeInv, NEW w \in IntakeWorkers, Vanish(w) PROVE IntakeInv'
<1>1. posts[w].cut /\ posts' = [posts EXCEPT ![w] = Free] /\ UNCHANGED <<intake, callers, added>> BY DEF Vanish
<1>2. posts \in [IntakeWorkers -> Posts] /\ callers \in [IntakeCallers -> Calls] BY DEF IntakeInv, IntakeTyped
<1>3. posts' \in [IntakeWorkers -> Posts] BY <1>1, <1>2, FreeTyped
<1>4. posts'[w] = Free /\ \A v \in IntakeWorkers : v # w => posts'[v] = posts[v] BY <1>1, <1>2
<1>5. \A c \in IntakeCallers : callers[c].waits => callers[c].worker \in IntakeWorkers /\ callers[c].worker # w
  BY <1>1 DEF IntakeInv, Served
<1> QED BY <1>1, <1>2, <1>3, <1>4, <1>5, AnswersKeep

LEMMA LosePipelineKeeps == ASSUME IntakeInv, NEW w \in IntakeWorkers, LosePipeline(w) PROVE IntakeInv'
<1>1. /\ Going(w) /\ UNCHANGED <<intake, added>>
      /\ posts' = [posts EXCEPT ![w].cut = TRUE, ![w].batch = IF posts[w].piped THEN @ ELSE SubSeq(@, 1, posts[w].k)]
      /\ callers' = [c \in IntakeCallers |->
           IF callers[c].waits /\ callers[c].worker = w
           THEN [callers[c] EXCEPT !.waits = FALSE, !.worker = NoPayload,
                   !.reply = UnavailableAnswer(IF posts[w].piped THEN <<>> ELSE posts[w].results)]
           ELSE callers[c]]
  BY DEF LosePipeline
<1>2. posts \in [IntakeWorkers -> Posts] /\ callers \in [IntakeCallers -> Calls] BY DEF IntakeInv, IntakeTyped
<1>3. PICK results \in Seq(IntakeResults) : results = IF posts[w].piped THEN <<>> ELSE posts[w].results
  BY <1>2, EmptySeq DEF Posts
<1>4. UnavailableAnswer(results) \in Replies /\ UnavailableAnswer(results).status = 503 BY UnavailableTyped
<1>5. PICK batch \in Seq(Arrivals) : batch = IF posts[w].piped THEN posts[w].batch ELSE SubSeq(posts[w].batch, 1, posts[w].k)
  <2>1. posts[w].batch \in Seq(Arrivals) /\ posts[w].k \in Nat \ {0} /\ posts[w].k <= Len(posts[w].batch)
    BY <1>1, <1>2 DEF Going, Posts
  <2>2. \A i \in 1..posts[w].k : posts[w].batch[i] \in Arrivals
    <3>1. \A i \in 1..Len(posts[w].batch) : posts[w].batch[i] \in Arrivals BY <2>1, ElementOfSeq
    <3>2. Len(posts[w].batch) \in Nat BY <2>1, LenProperties
    <3> QED BY <2>1, <3>1, <3>2
  <2>3. SubSeq(posts[w].batch, 1, posts[w].k) \in Seq(Arrivals)
    <3>1. 1 \in Int /\ posts[w].k \in Int BY <2>1
    <3> QED BY <2>2, <3>1, SubSeqProperties
  <2> QED BY <2>1, <2>3
<1> DEFINE post == [posts[w] EXCEPT !.cut = TRUE, !.batch = batch]
<1>6. post \in Posts /\ post.cut
  <2>1. posts[w] \in Posts /\ TRUE \in BOOLEAN BY <1>2
  <2> QED BY <2>1 DEF Posts
<1>7. posts' = [posts EXCEPT ![w] = post] BY <1>1, <1>2, <1>5 DEF Posts
<1> HIDE DEF post
<1>8. posts' \in [IntakeWorkers -> Posts] /\ posts'[w].cut /\ \A v \in IntakeWorkers : v # w => posts'[v] = posts[v]
  BY <1>2, <1>6, <1>7
<1>9. \A c \in IntakeCallers :
        IF callers[c].waits /\ callers[c].worker = w
        THEN /\ callers'[c] \in Calls /\ ~callers'[c].waits /\ callers'[c].reply.status = 503
             /\ callers'[c].batch = callers[c].batch
        ELSE callers'[c] = callers[c]
  <2> TAKE c \in IntakeCallers
  <2>1. CASE callers[c].waits /\ callers[c].worker = w
    <3>1. callers'[c] = [callers[c] EXCEPT !.waits = FALSE, !.worker = NoPayload, !.reply = UnavailableAnswer(results)]
      BY <1>1, <1>3, <2>1
    <3>2. callers[c] \in Calls /\ FALSE \in BOOLEAN /\ NoPayload \in IntakeWorkers \cup {NoPayload} BY <1>2
    <3> DEFINE reply == UnavailableAnswer(results)
    <3>3. reply \in Replies /\ callers'[c] = [callers[c] EXCEPT !.waits = FALSE, !.worker = NoPayload, !.reply = reply]
      BY <1>4, <3>1
    <3>5. reply.status = 503 BY <1>4
    <3> HIDE DEF reply
    <3>4. /\ callers'[c] \in Calls /\ ~callers'[c].waits /\ callers'[c].reply = reply /\ callers'[c].batch = callers[c].batch
      BY <3>2, <3>3 DEF Calls
    <3> QED BY <2>1, <3>4, <3>5
  <2>2. CASE ~(callers[c].waits /\ callers[c].worker = w) BY <1>1, <2>2
  <2> QED BY <2>1, <2>2
<1>10. callers' \in [IntakeCallers -> Calls]
  <2>1. callers' = [c \in IntakeCallers |-> callers'[c]] BY <1>1
  <2>2. \A c \in IntakeCallers : callers'[c] \in Calls BY <1>2, <1>9
  <2> QED BY <2>1, <2>2
<1>11. ASSUME NEW c \in IntakeCallers
       PROVE  \/ callers'[c] = callers[c] /\ (callers[c].waits => posts'[callers[c].worker] = posts[callers[c].worker])
              \/ /\ ~callers'[c].waits /\ ReplyTrue(callers'[c])
                 /\ callers'[c].reply.retryable => callers'[c].batch # <<>>
  <2>1. Served(c) BY DEF IntakeInv
  <2>2. CASE callers[c].waits /\ callers[c].worker = w
    <3>1. ReplyTrue(callers'[c]) BY <1>9, <2>2 DEF ReplyTrue
    <3> QED BY <1>9, <2>1, <2>2, <3>1 DEF Served
  <2>3. CASE ~(callers[c].waits /\ callers[c].worker = w) BY <1>8, <1>9, <2>1, <2>3 DEF Served
  <2> QED BY <2>2, <2>3
<1> QED BY <1>1, <1>8, <1>10, <1>11, AnswersKeep

LEMMA FinishKeeps == ASSUME IntakeInv, NEW w \in IntakeWorkers, Finish(w) PROVE IntakeInv'
<1>1. /\ posts[w].batch # <<>> /\ ~posts[w].cut /\ (~Going(w) \/ Stopped(posts[w])) /\ UNCHANGED <<intake, added>>
      /\ posts' = [posts EXCEPT ![w] = Free]
      /\ callers' = [c \in IntakeCallers |->
           IF callers[c].waits /\ callers[c].worker = w
           THEN [callers[c] EXCEPT !.waits = FALSE, !.worker = NoPayload, !.reply = Outcome(posts[w])] ELSE callers[c]]
  BY DEF Finish
<1>2. posts \in [IntakeWorkers -> Posts] /\ callers \in [IntakeCallers -> Calls] BY DEF IntakeInv, IntakeTyped
<1>3. PICK p \in Posts : p = posts[w] BY <1>2
<1>4. FoundSoFar(p) /\ (p.k > Len(p.batch) \/ Stopped(p)) /\ p.batch # <<>>
  <2>1. p.k \in Nat /\ Len(p.batch) \in Nat
    <3>1. p.k \in Nat \ {0} /\ p.batch \in Seq(Arrivals) BY DEF Posts
    <3> QED BY <3>1, LenProperties
  <2>2. FoundSoFar(posts[w]) BY <1>1 DEF IntakeInv
  <2>3. p.batch # <<>> /\ (~(p.batch # <<>> /\ p.k <= Len(p.batch)) \/ Stopped(p)) BY <1>1, <1>3 DEF Going
  <2> QED BY <1>3, <2>1, <2>2, <2>3
<1>5. /\ Outcome(p) \in Replies
      /\ Outcome(p).status = 202 => /\ \A k \in DOMAIN p.batch : Entered(p.batch[k])
                                    /\ Outcome(p).accepted + Outcome(p).duplicates = Len(p.batch)
      /\ Outcome(p).status = 409 =>
              /\ \E k \in DOMAIN p.batch : p.batch[k][1] = Outcome(p).failed /\ TakenBy(p.batch[k])
              /\ Outcome(p).accepted + Outcome(p).duplicates < Len(p.batch)
  BY <1>4, OutcomeTrue
<1>6. posts' \in [IntakeWorkers -> Posts] /\ posts'[w] = Free /\ \A v \in IntakeWorkers : v # w => posts'[v] = posts[v]
  BY <1>1, <1>2, FreeTyped
<1>7. \A c \in IntakeCallers :
        IF callers[c].waits /\ callers[c].worker = w
        THEN /\ callers'[c] \in Calls /\ ~callers'[c].waits /\ callers'[c].reply = Outcome(p)
             /\ callers'[c].batch = callers[c].batch
        ELSE callers'[c] = callers[c]
  <2> TAKE c \in IntakeCallers
  <2>1. CASE callers[c].waits /\ callers[c].worker = w
    <3>1. callers'[c] = [callers[c] EXCEPT !.waits = FALSE, !.worker = NoPayload, !.reply = Outcome(p)]
      BY <1>1, <1>3, <2>1
    <3>2. callers[c] \in Calls /\ FALSE \in BOOLEAN /\ NoPayload \in IntakeWorkers \cup {NoPayload} BY <1>2
    <3> DEFINE reply == Outcome(p)
    <3>3. reply \in Replies /\ callers'[c] = [callers[c] EXCEPT !.waits = FALSE, !.worker = NoPayload, !.reply = reply]
      BY <1>5, <3>1
    <3> HIDE DEF reply
    <3>4. /\ callers'[c] \in Calls /\ ~callers'[c].waits /\ callers'[c].reply = reply /\ callers'[c].batch = callers[c].batch
      BY <3>2, <3>3 DEF Calls
    <3> QED BY <2>1, <3>4 DEF reply
  <2>2. CASE ~(callers[c].waits /\ callers[c].worker = w) BY <1>1, <2>2
  <2> QED BY <2>1, <2>2
<1>8. callers' \in [IntakeCallers -> Calls]
  <2>1. callers' = [c \in IntakeCallers |-> callers'[c]] BY <1>1
  <2>2. \A c \in IntakeCallers : callers'[c] \in Calls BY <1>2, <1>7
  <2> QED BY <2>1, <2>2
<1>9. ASSUME NEW c \in IntakeCallers
      PROVE  \/ callers'[c] = callers[c] /\ (callers[c].waits => posts'[callers[c].worker] = posts[callers[c].worker])
             \/ /\ ~callers'[c].waits /\ ReplyTrue(callers'[c])
                /\ callers'[c].reply.retryable => callers'[c].batch # <<>>
  <2>1. Served(c) BY DEF IntakeInv
  <2>2. CASE callers[c].waits /\ callers[c].worker = w
    <3>1. callers'[c].batch = p.batch /\ callers'[c].reply = Outcome(p) /\ ~callers'[c].waits
      BY <1>3, <1>7, <2>1, <2>2 DEF Served
    <3>2. ReplyTrue(callers'[c]) BY <1>5, <3>1 DEF ReplyTrue
    <3> QED BY <1>4, <3>1, <3>2
  <2>3. CASE ~(callers[c].waits /\ callers[c].worker = w) BY <1>6, <1>7, <2>1, <2>3 DEF Served
  <2> QED BY <2>2, <2>3
<1> QED BY <1>1, <1>6, <1>8, <1>9, AnswersKeep

(* A run of the script: an event that is accepted had no key, and has been *)
(* added and has one when the script returns.                              *)
LEMMA RunKeeps ==
  ASSUME IntakeInv, NEW event \in Arrivals, NEW verdict \in IntakeResults, Run(event, verdict),
         verdict = "accepted" => Verdict(event) = "accepted"
  PROVE  /\ intake' \in [keys : [Ids -> Payloads \cup {NoPayload}], stream : Seq(Arrivals)]
         /\ added' \in [payloads : [Ids -> Seq(Payloads)], expired : [Ids -> Nat]]
         /\ Grows /\ KeysEntered' /\ (verdict = "accepted" => Entered(event)')
<1>1. /\ intake \in [keys : [Ids -> Payloads \cup {NoPayload}], stream : Seq(Arrivals)]
      /\ added \in [payloads : [Ids -> Seq(Payloads)], expired : [Ids -> Nat]]
  BY DEF IntakeInv, IntakeTyped
<1>2. CASE verdict # "accepted"
  <2>1. UNCHANGED <<intake, added>> BY <1>2 DEF Run
  <2> QED BY <1>1, <1>2, <2>1, NothingAdded
<1>3. CASE verdict = "accepted"
  <2> DEFINE i == event[1]
             x == event[2]
  <2>1. i \in Ids /\ x \in Payloads /\ x # NoPayload BY IntakeAssumption DEF Arrivals
  <2>2. intake.keys[i] = NoPayload /\ ~(Len(intake.stream) >= StreamMax)
    BY <1>3, <2>1 DEF Verdict
  <2>3. /\ intake' = [keys |-> [intake.keys EXCEPT ![i] = x], stream |-> Append(intake.stream, event)]
        /\ added' = [added EXCEPT !.payloads[i] = Append(@, x)]
    BY <1>3 DEF Run
  <2> HIDE DEF i, x
  <2>4. /\ added'.payloads = [added.payloads EXCEPT ![i] = Append(added.payloads[i], x)] /\ added'.expired = added.expired
        /\ added' \in [payloads : [Ids -> Seq(Payloads)], expired : [Ids -> Nat]]
    <3>1. Append(added.payloads[i], x) \in Seq(Payloads) BY <1>1, <2>1, AppendProperties
    <3> QED BY <1>1, <2>1, <2>3, <3>1
  <2>5. /\ intake'.keys = [intake.keys EXCEPT ![i] = x] /\ intake'.stream = Append(intake.stream, event)
        /\ intake' \in [keys : [Ids -> Payloads \cup {NoPayload}], stream : Seq(Arrivals)]
    <3>1. Append(intake.stream, event) \in Seq(Arrivals) BY <1>1, AppendProperties
    <3> QED BY <1>1, <2>1, <2>3, <3>1
  <2>6. /\ Len(added.payloads[i]) \in Nat /\ Len(added'.payloads[i]) = Len(added.payloads[i]) + 1
        /\ DOMAIN added.payloads[i] \subseteq DOMAIN added'.payloads[i]
        /\ \A k \in DOMAIN added.payloads[i] : added'.payloads[i][k] = added.payloads[i][k]
        /\ Len(added'.payloads[i]) \in DOMAIN added'.payloads[i] /\ added'.payloads[i][Len(added'.payloads[i])] = x
    <3> DEFINE s == added.payloads[i]
    <3>1. s \in Seq(Payloads) /\ added'.payloads[i] = Append(s, x) BY <1>1, <2>1, <2>4
    <3> HIDE DEF s
    <3>2. /\ Len(s) \in Nat /\ DOMAIN s = 1..Len(s) /\ Len(Append(s, x)) = Len(s) + 1
          /\ DOMAIN Append(s, x) = 1..(Len(s) + 1)
          /\ \A k \in 1..Len(s) : Append(s, x)[k] = s[k]
          /\ Append(s, x)[Len(s) + 1] = x
      <4>1. Append(s, x) \in Seq(Payloads) BY <2>1, <3>1, AppendProperties
      <4> QED BY <2>1, <3>1, <4>1, AppendProperties, LenProperties
    <3>3. DOMAIN s \subseteq DOMAIN Append(s, x) /\ Len(s) + 1 \in DOMAIN Append(s, x) BY <3>2
    <3> QED BY <3>1, <3>2, <3>3 DEF s
  <2>7. \A j \in Ids : j # i => added'.payloads[j] = added.payloads[j] /\ intake'.keys[j] = intake.keys[j]
    BY <1>1, <2>4, <2>5
  <2>8. Grows
    <3> SUFFICES ASSUME NEW e \in Arrivals, Entered(e) PROVE Entered(e)' BY DEF Grows
    <3>1. e[1] \in Ids BY DEF Arrivals
    <3>2. PICK k \in DOMAIN added.payloads[e[1]] : added.payloads[e[1]][k] = e[2] BY DEF Entered
    <3>3. CASE e[1] = i BY <2>6, <3>2, <3>3 DEF Entered
    <3>4. CASE e[1] # i BY <2>7, <3>1, <3>2, <3>4 DEF Entered
    <3> QED BY <3>3, <3>4
  <2>9. Entered(event)' BY <2>6 DEF Entered, i, x
  <2>10. ASSUME NEW j \in Ids
         PROVE  /\ \A q \in Payloads : intake'.keys[j] = q => Entered(<<j, q>>)'
                /\ Len(added'.payloads[j]) <= added'.expired[j] + (IF intake'.keys[j] = NoPayload THEN 0 ELSE 1)
    <3>1. CASE j = i
      <4>1. intake'.keys[i] = x BY <1>1, <2>1, <2>5
      <4>2. Entered(<<i, x>>)' BY <2>6 DEF Entered
      <4>3. Len(added.payloads[i]) <= added.expired[i] + (IF intake.keys[i] = NoPayload THEN 0 ELSE 1)
        BY <2>1 DEF IntakeInv, KeysEntered
      <4>4. added.expired[i] \in Nat BY <1>1, <2>1
      <4>5. Len(added.payloads[i]) <= added.expired[i] BY <2>2, <4>3, <4>4
      <4>6. Len(added'.payloads[i]) <= added'.expired[i] + 1 BY <2>4, <2>6, <4>4, <4>5
      <4> QED BY <2>1, <3>1, <4>1, <4>2, <4>6
    <3>2. CASE j # i
      <4>1. \A q \in Payloads : intake.keys[j] = q => Entered(<<j, q>>)
        BY IntakeAssumption DEF IntakeInv, KeysEntered
      <4>2. \A q \in Payloads : Entered(<<j, q>>) => Entered(<<j, q>>)'
        <5>1. \A q \in Payloads : <<j, q>> \in Arrivals BY DEF Arrivals
        <5> QED BY <2>8, <5>1 DEF Grows
      <4>3. Len(added.payloads[j]) <= added.expired[j] + (IF intake.keys[j] = NoPayload THEN 0 ELSE 1)
        BY DEF IntakeInv, KeysEntered
      <4> QED BY <2>4, <2>7, <3>2, <4>1, <4>2, <4>3
    <3> QED BY <3>1, <3>2
  <2>11. Len(intake'.stream) <= StreamMax
    <3>1. Len(intake'.stream) = Len(intake.stream) + 1 /\ Len(intake.stream) \in Nat
      BY <1>1, <2>5, AppendProperties, LenProperties
    <3> QED BY <2>2, <3>1, IntakeAssumption
  <2>12. KeysEntered'
    <3>1. ASSUME NEW j \in Ids, intake'.keys[j] # NoPayload PROVE Entered(<<j, intake.keys[j]>>)'
      <4>1. PICK q \in Payloads : intake'.keys[j] = q BY <2>5, <3>1
      <4>2. Entered(<<j, q>>)' BY <2>10, <4>1
      <4> QED BY <4>1, <4>2 DEF Entered
    <3>2. \A j \in Ids : Len(added'.payloads[j]) <= added'.expired[j] + (IF intake'.keys[j] = NoPayload THEN 0 ELSE 1)
      BY <2>10
    <3> QED BY <2>11, <3>1, <3>2 DEF KeysEntered
  <2> QED BY <2>4, <2>5, <2>8, <2>9, <2>12
<1> QED BY <1>2, <1>3

LEMMA AcceptKeeps == ASSUME IntakeInv, NEW w \in IntakeWorkers, Accept(w) PROVE IntakeInv'
<1>1. PICK verdict \in {Verdict(Upcoming(w)), "failed"} :
        /\ IF verdict = "failed" THEN Verdict(Upcoming(w)) = "accepted" /\ Fault ELSE UNCHANGED faulted
        /\ Run(Upcoming(w), verdict)
        /\ posts' = [posts EXCEPT ![w].k = @ + 1, ![w].results = Append(@, verdict)]
  BY DEF Accept
<1>2. PICK p \in Posts : p = posts[w] BY DEF IntakeInv, IntakeTyped
<1>3. /\ p.k \in Nat \ {0} /\ p.batch \in Seq(Arrivals) /\ p.results \in Seq(IntakeResults)
      /\ Len(p.batch) \in Nat /\ Len(p.results) \in Nat /\ p.k <= Len(p.batch)
      /\ DOMAIN p.batch = 1..Len(p.batch) /\ DOMAIN p.results = 1..Len(p.results)
  <2>1. p.k \in Nat \ {0} /\ p.batch \in Seq(Arrivals) /\ p.results \in Seq(IntakeResults) BY DEF Posts
  <2>2. p.k <= Len(p.batch) BY <1>2 DEF Accept, Going
  <2> QED BY <2>1, <2>2, LenProperties
<1>4. PICK event \in Arrivals : event = p.batch[p.k] /\ event = Upcoming(w)
  <2>1. p.k \in 1..Len(p.batch) BY <1>3
  <2>2. p.batch[p.k] \in Arrivals BY <1>3, <2>1, ElementOfSeq
  <2> QED BY <1>2, <2>2 DEF Upcoming
<1>5. verdict \in IntakeResults /\ (verdict = "accepted" => Verdict(event) = "accepted")
      /\ (verdict \in {"duplicate", "conflict"} => Verdict(event) = verdict)
  BY <1>1, <1>4 DEF Verdict, IntakeResults
<1>6. /\ intake' \in [keys : [Ids -> Payloads \cup {NoPayload}], stream : Seq(Arrivals)]
      /\ added' \in [payloads : [Ids -> Seq(Payloads)], expired : [Ids -> Nat]]
      /\ Grows /\ KeysEntered' /\ (verdict = "accepted" => Entered(event)')
  <2>1. Run(event, verdict) BY <1>1, <1>4
  <2> QED BY <1>5, <2>1, RunKeeps
<1>7. (verdict = "duplicate" => Entered(event)') /\ (verdict = "conflict" => TakenBy(event)')
  <2>1. event[1] \in Ids /\ event[2] \in Payloads /\ event = <<event[1], event[2]>> BY DEF Arrivals
  <2>2. PICK key \in Payloads \cup {NoPayload} : key = intake.keys[event[1]] BY <2>1 DEF IntakeInv, IntakeTyped
  <2>3. key # NoPayload => Entered(<<event[1], key>>)'
    <3>1. key # NoPayload => Entered(<<event[1], key>>) BY <2>1, <2>2 DEF IntakeInv, KeysEntered
    <3>2. key # NoPayload => <<event[1], key>> \in Arrivals BY <2>1, <2>2 DEF Arrivals
    <3> QED BY <1>6, <3>1, <3>2 DEF Grows
  <2>4. verdict = "duplicate" => key = event[2] BY <1>5, <2>2 DEF Verdict
  <2>5. verdict = "conflict" => key # event[2] /\ key # NoPayload BY <1>5, <2>2 DEF Verdict
  <2>6. verdict = "duplicate" => Entered(event)' BY <2>1, <2>3, <2>4, IntakeAssumption DEF Entered
  <2>7. verdict = "conflict" => TakenBy(event)' BY <2>2, <2>3, <2>5 DEF TakenBy
  <2> QED BY <2>6, <2>7
<1> DEFINE post == [p EXCEPT !.k = @ + 1, !.results = Append(@, verdict)]
<1>8. Append(p.results, verdict) \in Seq(IntakeResults) /\ p.k + 1 \in Nat \ {0} BY <1>3, <1>5, AppendProperties
<1>9. /\ post \in Posts /\ post.batch = p.batch /\ post.cut = p.cut /\ post.k = p.k + 1
      /\ post.results = Append(p.results, verdict)
  BY <1>8 DEF Posts
<1>10. posts' = [posts EXCEPT ![w] = post]
  <2>1. posts[w] = p /\ p \in Posts BY <1>2
  <2> QED BY <1>1, <2>1 DEF IntakeInv, IntakeTyped, Posts
<1> HIDE DEF post
<1>11. posts' \in [IntakeWorkers -> Posts] /\ posts'[w] = post /\ \A v \in IntakeWorkers : v # w => posts'[v] = posts[v]
  BY <1>9, <1>10 DEF IntakeInv, IntakeTyped
<1>12. UNCHANGED callers BY DEF Accept
<1>13. FoundSoFar(p) => FoundSoFar(post)'
  <2> SUFFICES ASSUME FoundSoFar(p) PROVE FoundSoFar(post)' OBVIOUS
  <2>1. FoundSoFar(p)' BY <1>6, FoundStays
  <2>2. Len(p.results) = p.k - 1 BY DEF FoundSoFar
  <2>3. /\ Len(post.results) = Len(p.results) + 1 /\ DOMAIN post.results = 1..(Len(p.results) + 1)
        /\ \A k \in 1..Len(p.results) : post.results[k] = p.results[k]
        /\ post.results[Len(p.results) + 1] = verdict
    BY <1>3, <1>5, <1>8, <1>9, AppendProperties, LenProperties
  <2>4. Len(post.results) = post.k - 1 /\ post.k <= Len(post.batch) + 1 BY <1>3, <1>9, <2>2, <2>3
  <2>5. ASSUME NEW k \in DOMAIN post.results
        PROVE  /\ post.results[k] \in {"accepted", "duplicate"} => Entered(post.batch[k])'
               /\ post.results[k] = "conflict" => TakenBy(post.batch[k])'
    <3>1. CASE k = p.k
      <4>1. k = Len(p.results) + 1 BY <1>3, <2>2, <3>1
      <4>2. post.results[k] = verdict BY <2>3, <4>1
      <4>3. post.batch[k] = event BY <1>4, <1>9, <3>1
      <4> QED BY <1>6, <1>7, <4>2, <4>3
    <3>2. CASE k # p.k
      <4>1. k \in 1..Len(p.results) BY <1>3, <2>2, <2>3, <3>2
      <4>2. post.results[k] = p.results[k] /\ post.batch[k] = p.batch[k] /\ k \in DOMAIN p.results BY <1>3, <1>9, <2>3, <4>1
      <4> QED BY <2>1, <4>2 DEF FoundSoFar
    <3> QED BY <3>1, <3>2
  <2> QED BY <2>4, <2>5 DEF FoundSoFar
<1>14. ASSUME NEW v \in IntakeWorkers PROVE posts'[v].cut \/ FoundSoFar(posts[v])'
  <2>1. CASE v = w
    <3>1. p.cut \/ FoundSoFar(p) BY <1>2 DEF IntakeInv
    <3> QED BY <1>9, <1>11, <1>13, <2>1, <3>1 DEF FoundSoFar
  <2>2. CASE v # w BY <1>6, <1>11, <2>2, FoundKeeps
  <2> QED BY <2>1, <2>2
<1>15. ASSUME NEW c \in IntakeCallers PROVE ReplyTrue(callers[c])' /\ Served(c)'
  <2>1. ReplyTrue(callers[c])' BY <1>6, <1>12, ReplyKeeps
  <2>2. Served(c) BY DEF IntakeInv
  <2>3. \A v \in IntakeWorkers : posts'[v].batch = posts[v].batch /\ posts'[v].cut = posts[v].cut BY <1>2, <1>9, <1>11
  <2> QED BY <1>12, <2>1, <2>2, <2>3 DEF Served
<1>16. IntakeTyped' BY <1>6, <1>11, <1>12 DEF IntakeInv, IntakeTyped
<1> QED BY <1>6, <1>14, <1>15, <1>16 DEF IntakeInv

(* The lane takes an event off the stream, or a key's life ends.           *)
LEMMA IntakeAgesKeeps == ASSUME IntakeInv, Consume \/ \E i \in Ids : KeyExpires(i) PROVE IntakeInv'
<1>1. /\ intake \in [keys : [Ids -> Payloads \cup {NoPayload}], stream : Seq(Arrivals)]
      /\ added \in [payloads : [Ids -> Seq(Payloads)], expired : [Ids -> Nat]] /\ KeysEntered
      /\ UNCHANGED <<callers, posts>>
  BY DEF IntakeInv, IntakeTyped, Consume, KeyExpires
<1>2. added'.payloads = added.payloads
  BY <1>1 DEF Consume, KeyExpires
<1>3. Grows BY <1>2 DEF Grows, Entered
<1>4. /\ intake' \in [keys : [Ids -> Payloads \cup {NoPayload}], stream : Seq(Arrivals)]
      /\ added' \in [payloads : [Ids -> Seq(Payloads)], expired : [Ids -> Nat]]
      /\ KeysEntered'
  <2>1. CASE Consume
    <3>1. intake.stream # <<>> /\ intake' = [intake EXCEPT !.stream = Tail(@)] /\ UNCHANGED added BY <2>1 DEF Consume
    <3>2. Tail(intake.stream) \in Seq(Arrivals) /\ Len(Tail(intake.stream)) = Len(intake.stream) - 1 /\ Len(intake.stream) \in Nat
      BY <1>1, <3>1, HeadTailProperties, LenProperties
    <3>3. intake'.keys = intake.keys /\ intake'.stream = Tail(intake.stream)
          /\ intake' \in [keys : [Ids -> Payloads \cup {NoPayload}], stream : Seq(Arrivals)]
      BY <1>1, <3>1, <3>2
    <3>4. KeysEntered'
      <4>1. Len(intake'.stream) <= StreamMax BY <1>1, <3>2, <3>3, IntakeAssumption DEF KeysEntered
      <4> QED BY <1>1, <3>1, <3>3, <4>1 DEF KeysEntered, Entered
    <3> QED BY <1>1, <3>1, <3>3, <3>4
  <2>2. ASSUME NEW i \in Ids, KeyExpires(i)
        PROVE  /\ intake' \in [keys : [Ids -> Payloads \cup {NoPayload}], stream : Seq(Arrivals)]
               /\ added' \in [payloads : [Ids -> Seq(Payloads)], expired : [Ids -> Nat]]
               /\ KeysEntered'
    <3>1. intake.keys[i] # NoPayload /\ intake' = [intake EXCEPT !.keys[i] = NoPayload] /\ added' = [added EXCEPT !.expired[i] = @ + 1]
      BY <2>2 DEF KeyExpires
    <3>2. /\ intake'.stream = intake.stream /\ intake'.keys = [intake.keys EXCEPT ![i] = NoPayload]
          /\ intake' \in [keys : [Ids -> Payloads \cup {NoPayload}], stream : Seq(Arrivals)]
      BY <1>1, <3>1
    <3>3. /\ added'.expired = [added.expired EXCEPT ![i] = added.expired[i] + 1]
          /\ added' \in [payloads : [Ids -> Seq(Payloads)], expired : [Ids -> Nat]]
      <4>1. added.expired[i] + 1 \in Nat BY <1>1
      <4> QED BY <1>1, <3>1, <4>1
    <3>4. ASSUME NEW j \in Ids
          PROVE  /\ intake'.keys[j] # NoPayload => intake'.keys[j] = intake.keys[j]
                 /\ Len(added'.payloads[j]) <= added'.expired[j] + (IF intake'.keys[j] = NoPayload THEN 0 ELSE 1)
      <4>1. Len(added.payloads[j]) <= added.expired[j] + (IF intake.keys[j] = NoPayload THEN 0 ELSE 1) BY <1>1 DEF KeysEntered
      <4>2. added.expired[j] \in Nat /\ Len(added.payloads[j]) \in Nat BY <1>1, LenProperties
      <4>3. CASE j = i
        <5>1. added'.expired[j] = added.expired[j] + 1 /\ intake'.keys[j] = NoPayload BY <1>1, <3>2, <3>3, <4>3
        <5> QED BY <1>2, <3>1, <4>1, <4>2, <4>3, <5>1
      <4>4. CASE j # i BY <1>1, <1>2, <3>2, <3>3, <4>1, <4>4
      <4> QED BY <4>3, <4>4
    <3>5. KeysEntered' BY <1>1, <1>2, <3>2, <3>4 DEF KeysEntered, Entered
    <3> QED BY <3>2, <3>3, <3>5
  <2> QED BY <2>1, <2>2
<1>5. \A w \in IntakeWorkers : posts'[w].cut \/ FoundSoFar(posts[w])' BY <1>1, <1>3, FoundKeeps
<1>6. \A c \in IntakeCallers : ReplyTrue(callers[c])' BY <1>1, <1>3, ReplyKeeps
<1>7. \A c \in IntakeCallers : Served(c)' BY <1>1 DEF IntakeInv, Served
<1>8. IntakeTyped' BY <1>1, <1>4 DEF IntakeInv, IntakeTyped
<1> QED BY <1>4, <1>5, <1>6, <1>7, <1>8 DEF IntakeInv

LEMMA IntakeStarts == IntakeInit => IntakeInv
<1> SUFFICES ASSUME IntakeInit PROVE IntakeInv OBVIOUS
<1>1. <<>> \in Seq(Arrivals) /\ <<>> \in Seq(Payloads) /\ Len(<<>>) = 0 /\ DOMAIN <<>> = {} BY EmptySeq
<1>2. NoReply \in Replies /\ NoReply.status = 0 /\ ~NoReply.retryable BY DEF NoReply, Replies
<1> DEFINE made == [waits |-> FALSE, batch |-> <<>>, worker |-> NoPayload, reply |-> NoReply, sends |-> 0]
<1>3. made \in Calls /\ ~made.waits /\ made.reply = NoReply BY <1>1, <1>2 DEF Calls
<1>4. callers = [c \in IntakeCallers |-> made] BY DEF IntakeInit
<1> HIDE DEF made
<1>5. IntakeTyped
  <2>1. intake \in [keys : [Ids -> Payloads \cup {NoPayload}], stream : Seq(Arrivals)] BY <1>1 DEF IntakeInit
  <2>2. added \in [payloads : [Ids -> Seq(Payloads)], expired : [Ids -> Nat]] BY <1>1 DEF IntakeInit
  <2>3. posts \in [IntakeWorkers -> Posts] BY FreeTyped DEF IntakeInit
  <2>4. callers \in [IntakeCallers -> Calls] BY <1>3, <1>4
  <2> QED BY <2>1, <2>2, <2>3, <2>4 DEF IntakeTyped
<1>6. KeysEntered
  <2>1. intake.stream = <<>> /\ \A i \in Ids : intake.keys[i] = NoPayload /\ added.payloads[i] = <<>> /\ added.expired[i] = 0
    BY DEF IntakeInit
  <2> QED BY <1>1, <2>1, IntakeAssumption DEF KeysEntered
<1>7. \A w \in IntakeWorkers : FoundSoFar(posts[w])
  <2>1. \A w \in IntakeWorkers : posts[w] = Free BY DEF IntakeInit
  <2> QED BY <2>1, FreeTyped
<1>8. \A c \in IntakeCallers : ReplyTrue(callers[c]) /\ Served(c) BY <1>2, <1>3, <1>4 DEF ReplyTrue, Served
<1> QED BY <1>5, <1>6, <1>7, <1>8 DEF IntakeInv

LEMMA IntakeSteps == IntakeInv /\ [IntakeNext]_intakeVars => IntakeInv'
<1>1. ASSUME IntakeInv, UNCHANGED intakeVars PROVE IntakeInv'
  <2>1. UNCHANGED <<intake, callers, posts, added>> BY <1>1 DEF intakeVars
  <2>2. \A w \in IntakeWorkers : posts'[w].cut \/ FoundSoFar(posts[w])' BY <1>1, <2>1, NothingAdded, FoundKeeps
  <2>3. \A c \in IntakeCallers : ReplyTrue(callers[c])' BY <1>1, <2>1, NothingAdded, ReplyKeeps
  <2>4. \A c \in IntakeCallers : Served(c)' BY <1>1, <2>1 DEF IntakeInv, Served
  <2>5. IntakeTyped' /\ KeysEntered' BY <1>1, <2>1, NothingAdded DEF IntakeInv, IntakeTyped
  <2> QED BY <2>2, <2>3, <2>4, <2>5 DEF IntakeInv
<1>2. ASSUME IntakeInv, IntakeNext PROVE IntakeInv'
  BY <1>2, SendBatchKeeps, ExpireKeeps, AcceptKeeps, LosePipelineKeeps, VanishKeeps, FinishKeeps, IntakeAgesKeeps DEF IntakeNext
<1> QED BY <1>1, <1>2

LEMMA IntakeFollows == IntakeInv => IntakeSound
<1> SUFFICES ASSUME IntakeInv PROVE IntakeSound OBVIOUS
<1>1. AddedOnce
  <2>1. ASSUME NEW i \in Ids PROVE Len(added.payloads[i]) <= 1 + added.expired[i]
    <3>1. Len(added.payloads[i]) <= added.expired[i] + (IF intake.keys[i] = NoPayload THEN 0 ELSE 1) BY DEF IntakeInv, KeysEntered
    <3>2. added.expired[i] \in Nat /\ Len(added.payloads[i]) \in Nat BY LenProperties DEF IntakeInv, IntakeTyped
    <3> QED BY <3>1, <3>2
  <2> QED BY <2>1 DEF AddedOnce, IntakeInv, KeysEntered
<1>2. AcknowledgedDurable
  <2>1. ASSUME NEW c \in IntakeCallers, callers[c].reply.status = 202
        PROVE  /\ \A k \in DOMAIN callers[c].batch :
                    \E n \in DOMAIN added.payloads[callers[c].batch[k][1]] :
                      added.payloads[callers[c].batch[k][1]][n] = callers[c].batch[k][2]
               /\ callers[c].reply.accepted + callers[c].reply.duplicates = Len(callers[c].batch)
    BY <2>1 DEF IntakeInv, ReplyTrue, Entered
  <2>2. ASSUME NEW c \in IntakeCallers, callers[c].reply.status = 409
        PROVE  /\ \E k \in {n \in DOMAIN callers[c].batch : callers[c].batch[n][1] = callers[c].reply.failed} :
                    \E p \in Payloads \ {callers[c].batch[k][2]} : Entered(<<callers[c].reply.failed, p>>)
               /\ callers[c].reply.accepted + callers[c].reply.duplicates < Len(callers[c].batch)
    <3>1. ReplyTrue(callers[c]) BY DEF IntakeInv
    <3>2. PICK k \in DOMAIN callers[c].batch : callers[c].batch[k][1] = callers[c].reply.failed /\ TakenBy(callers[c].batch[k])
      BY <2>2, <3>1 DEF ReplyTrue
    <3>3. PICK p \in Payloads \ {callers[c].batch[k][2]} : Entered(<<callers[c].reply.failed, p>>) BY <3>2 DEF TakenBy
    <3> QED BY <2>2, <3>1, <3>2, <3>3 DEF ReplyTrue
  <2> QED BY <2>1, <2>2 DEF AcknowledgedDurable, Entered
<1> QED BY <1>1, <1>2 DEF IntakeSound

(* An acknowledged batch is in the stream or went through it, event for    *)
(* event; a conflict names an id another payload has; and an event enters  *)
(* the stream once for each life of its key: FeedbackIntake's handlers and *)
(* script, for any callers, workers, batches and stream.                   *)
THEOREM IntakeTheorem == IntakeSpec => []IntakeSound
<1>1. IntakeSpec => []IntakeInv BY IntakeStarts, IntakeSteps, PTL DEF IntakeSpec
<1> QED BY <1>1, IntakeFollows, PTL

-----------------------------------------------------------------------------
(* The older consumer: a point that accounts for its vector, and who has   *)
(* the user's lock works on the point as it is                             *)

LegacySpec == LegacyInit /\ [][LegacyNext]_legacyVars

\* The point remembers as many events as the stream brings it.
HistoryCovers == \A d \in Deliveries : Len(d) <= History

LegacyPoints ==
  [latent : [Events -> {0, 1}], families : UNION {[S -> Events] : S \in SUBSET {Place(e) : e \in Events}},
   signals : SUBSET {Signal(e) : e \in Events}, history : Seq(Events)]

\* The vector holds what the point can take back, of events of a set.
Accounts(p, known) ==
  /\ p \in LegacyPoints
  /\ \A k \in DOMAIN p.families : Place(p.families[k]) = k /\ ActionOf[p.families[k]] \in Stateful
  /\ \A e \in Events :
       /\ p.latent[e] = 1 => e \in known
       /\ ActionOf[e] \in Stateful => (p.latent[e] = 1 <=> Holds(p, e) /\ Stored(p, e) = e)
       /\ ActionOf[e] \in ApplyOnce =>
            (Signal(e) \in p.signals <=> \E o \in Events : Signal(o) = Signal(e) /\ p.latent[o] = 1)
PointSound(p) ==
  /\ Accounts(p, Members(p.history))
  /\ \A i, j \in DOMAIN p.history : p.history[i] = p.history[j] => i = j
  /\ Members(p.history) \subseteq Members(eventOf)

LegacyStages == {"free", "bury", "ack", "lock", "owner", "read", "written", "failed", "dead", "owned_ack", "release"}
LegacyWorkers ==
  [at : LegacyStages, message : Messages \cup {NoMessage}, left : Seq(Messages), read : LegacyPoints \cup {None}]
Lanes ==
  [queue : Seq(Messages), pending : [Messages -> LegacyConsumers \cup {None}], processed : SUBSET Events,
   attempts : [Events -> Nat], dead : SUBSET Messages, lock : LegacyConsumers \cup {None}, acked : SUBSET Messages]

LegacyTyped ==
  /\ eventOf \in Deliveries /\ lane \in Lanes /\ workers \in [LegacyConsumers -> LegacyWorkers]
  /\ troubles \in [count : Nat, lapsed : BOOLEAN]

\* Unless a lock lapsed under its holder, the point is as its holder read it.
WorkerKept(c) ==
  /\ ~WorkerAt(c, "free") => workers[c].message \in Messages
  /\ WorkerAt(c, "read") => PointSound(workers[c].read)
  /\ workers[c].at \in {"ack", "owned_ack"} => EventAt(c) \in lane.processed \/ workers[c].message \in lane.dead
  /\ ~troubles.lapsed =>
       /\ InSection(c) => lane.lock = c
       /\ WorkerAt(c, "read") => workers[c].read = profile
       /\ WorkerAt(c, "written") => Glance(EventAt(c)) \/ EventAt(c) \in Members(profile.history)

LegacyInv ==
  /\ LegacyTyped /\ PointSound(profile) /\ SettledFeedback
  /\ \A c \in LegacyConsumers : WorkerKept(c)

(* What an event makes of a sound point, accounts for it as well.          *)
LEMMA AppliedAccounts ==
  ASSUME NEW p, NEW e \in Events, NEW known, Accounts(p, known), e \notin known
  PROVE  Accounts(Applied(p, e), known \cup {e}) /\ Applied(p, e).history = p.history
<1> DEFINE a == ActionOf[e]
           q == Applied(p, e)
<1>1. /\ p \in LegacyPoints /\ p.latent \in [Events -> {0, 1}] /\ p.history \in Seq(Events)
      /\ p.families \in [DOMAIN p.families -> Events] /\ DOMAIN p.families \subseteq {Place(d) : d \in Events}
      /\ p.signals \subseteq {Signal(d) : d \in Events}
      /\ p.latent[e] = 0
  BY DEF Accounts, LegacyPoints
<1>2. ASSUME q = p PROVE Accounts(q, known \cup {e}) /\ q.history = p.history
  BY <1>2 DEF Accounts
<1>3. CASE a \in DOMAIN Reversed /\ Holds(p, e) /\ ActionOf[Stored(p, e)] = Reversed[a]
  <2> DEFINE s == Stored(p, e)
  <2>1. q = [p EXCEPT !.latent = Minus(p.latent, s), !.families = Drop(p, e)] BY <1>3 DEF Applied
  <2>2. s \in Events /\ Place(s) = Place(e) /\ ActionOf[s] \in Stateful /\ p.latent[s] = 1
    BY <1>1, <1>3 DEF Accounts, Holds, Stored
  <2> HIDE DEF q, s
  <2>3. q.latent = [p.latent EXCEPT ![s] = 0] /\ q.families = Drop(p, e) /\ q.signals = p.signals /\ q.history = p.history
    BY <1>1, <2>1, <2>2 DEF LegacyPoints, Minus
  <2>4. q.latent \in [Events -> {0, 1}] BY <1>1, <2>3
  <2>5. q.families \in [DOMAIN p.families \ {Place(e)} -> Events] BY <1>1, <2>3 DEF Drop
  <2>6. q \in LegacyPoints
    <3>1. q.families \in UNION {[S -> Events] : S \in SUBSET {Place(d) : d \in Events}} BY <1>1, <2>5
    <3> QED BY <1>1, <2>1, <2>3, <2>4, <3>1 DEF LegacyPoints
  <2>7. \A k \in DOMAIN q.families : Place(q.families[k]) = k /\ ActionOf[q.families[k]] \in Stateful
    BY <2>3, <2>5 DEF Accounts, Drop
  <2>8. ASSUME NEW d \in Events PROVE
         /\ q.latent[d] = 1 => d \in known
         /\ ActionOf[d] \in Stateful => (q.latent[d] = 1 <=> Holds(q, d) /\ Stored(q, d) = d)
    BY <1>1, <2>2, <2>3, <2>5 DEF Accounts, Holds, Stored, Drop
  <2>9. ASSUME NEW d \in Events, ActionOf[d] \in ApplyOnce
        PROVE  Signal(d) \in q.signals <=> \E o \in Events : Signal(o) = Signal(d) /\ q.latent[o] = 1
    <3>1. \A o \in Events : Signal(o) = Signal(d) => o # s
      BY <2>2, <2>9 DEF Signal, Stateful, ApplyOnce
    <3> QED BY <1>1, <2>3, <2>9, <3>1 DEF Accounts
  <2> QED BY <2>3, <2>6, <2>7, <2>8, <2>9 DEF Accounts, q
<1>4. CASE a \notin DOMAIN Reversed /\ Reads(p, e) /\ a \in Stateful
  <2> DEFINE s == Stored(p, e)
             mid == IF Holds(p, e) THEN Minus(p.latent, s) ELSE p.latent
  <2>1. q = [p EXCEPT !.latent = Plus(mid, e), !.families = Store(p, e)] BY <1>4 DEF Applied
  <2>2. Holds(p, e) => s \in Events /\ Place(s) = Place(e) /\ ActionOf[s] \in Stateful /\ p.latent[s] = 1 /\ s # e
    BY <1>1 DEF Accounts, Holds, Stored
  <2> HIDE DEF q, s
  <2>3. mid \in [Events -> {0, 1}] /\ mid[e] = 0 /\ \A d \in Events : mid[d] = IF Holds(p, e) /\ d = s THEN 0 ELSE p.latent[d]
    BY <1>1, <2>2 DEF Minus
  <2> HIDE DEF mid
  <2>4. Plus(mid, e) = [mid EXCEPT ![e] = 1] BY <2>3 DEF Plus
  <2>5. q.latent = [mid EXCEPT ![e] = 1] /\ q.families = Store(p, e) /\ q.signals = p.signals /\ q.history = p.history
    BY <1>1, <2>1, <2>4 DEF LegacyPoints
  <2>6. q.latent \in [Events -> {0, 1}] BY <2>3, <2>5
  <2>7. /\ q.families \in [DOMAIN p.families \cup {Place(e)} -> Events]
        /\ \A k \in DOMAIN q.families : q.families[k] = IF k = Place(e) THEN e ELSE p.families[k]
    BY <1>1, <2>5 DEF Store
  <2>8. q \in LegacyPoints
    <3>1. q.families \in UNION {[S -> Events] : S \in SUBSET {Place(d) : d \in Events}} BY <1>1, <2>7
    <3> QED BY <1>1, <2>1, <2>5, <2>6, <3>1 DEF LegacyPoints
  <2>9. \A k \in DOMAIN q.families : Place(q.families[k]) = k /\ ActionOf[q.families[k]] \in Stateful
    BY <1>4, <2>7 DEF Accounts
  <2>10. ASSUME NEW d \in Events PROVE
         /\ q.latent[d] = 1 => d \in known \cup {e}
         /\ ActionOf[d] \in Stateful => (q.latent[d] = 1 <=> Holds(q, d) /\ Stored(q, d) = d)
    <3>1. q.latent[d] = IF d = e THEN 1 ELSE IF Holds(p, e) /\ d = s THEN 0 ELSE p.latent[d] BY <2>3, <2>5
    <3>2. Holds(q, d) <=> Holds(p, d) \/ Place(d) = Place(e) BY <2>7 DEF Holds
    <3>3. CASE Place(d) = Place(e)
      <4>1. Stored(q, d) = e BY <2>7, <3>3 DEF Stored
      <4>2. ActionOf[d] \in Stateful /\ p.latent[d] = 1 => Holds(p, e) /\ d = s BY <3>3 DEF Accounts, Holds, Stored, s
      <4> QED BY <2>2, <3>1, <3>2, <3>3, <4>1, <4>2 DEF Accounts
    <3>4. CASE Place(d) # Place(e)
      <4>1. d # e /\ (Holds(p, e) => d # s) BY <2>2, <3>4
      <4>2. Holds(p, d) => Stored(q, d) = Stored(p, d) BY <2>7, <3>4 DEF Stored, Holds
      <4> QED BY <3>1, <3>2, <3>4, <4>1, <4>2 DEF Accounts
    <3> QED BY <3>3, <3>4
  <2>11. ASSUME NEW d \in Events, ActionOf[d] \in ApplyOnce
        PROVE  Signal(d) \in q.signals <=> \E o \in Events : Signal(o) = Signal(d) /\ q.latent[o] = 1
    <3>1. \A o \in Events : Signal(o) = Signal(d) => o # e /\ (Holds(p, e) => o # s)
      BY <1>4, <2>2, <2>11 DEF Signal, Stateful, ApplyOnce
    <3>2. \A o \in Events : Signal(o) = Signal(d) => q.latent[o] = p.latent[o] BY <2>3, <2>5, <3>1
    <3> QED BY <1>1, <2>5, <2>11, <3>2 DEF Accounts
  <2> QED BY <2>5, <2>8, <2>9, <2>10, <2>11 DEF Accounts, q
<1>5. CASE a \notin DOMAIN Reversed /\ Reads(p, e) /\ a \notin Stateful
  <2>1. q = [p EXCEPT !.latent = Plus(p.latent, e), !.signals = IF a \in ApplyOnce THEN p.signals \cup {Signal(e)} ELSE p.signals]
    BY <1>5 DEF Applied
  <2> HIDE DEF q
  <2>2. Plus(p.latent, e) = [p.latent EXCEPT ![e] = 1] BY <1>1 DEF Plus
  <2>3. /\ q.latent = [p.latent EXCEPT ![e] = 1] /\ q.families = p.families /\ q.history = p.history
        /\ q.signals = IF a \in ApplyOnce THEN p.signals \cup {Signal(e)} ELSE p.signals
    BY <1>1, <2>1, <2>2 DEF LegacyPoints
  <2>4. q.latent \in [Events -> {0, 1}] /\ \A d \in Events : q.latent[d] = IF d = e THEN 1 ELSE p.latent[d] BY <1>1, <2>3
  <2>5. q.signals \in SUBSET {Signal(d) : d \in Events} BY <1>1, <2>3
  <2>6. q \in LegacyPoints BY <2>1, <2>3, <2>4, <2>5, <1>1 DEF LegacyPoints
  <2>7. ASSUME NEW d \in Events PROVE
         /\ q.latent[d] = 1 => d \in known \cup {e}
         /\ ActionOf[d] \in Stateful => (q.latent[d] = 1 <=> Holds(q, d) /\ Stored(q, d) = d)
    BY <1>5, <2>3, <2>4 DEF Accounts, Holds, Stored
  <2>8. ASSUME NEW d \in Events, ActionOf[d] \in ApplyOnce
        PROVE  Signal(d) \in q.signals <=> \E o \in Events : Signal(o) = Signal(d) /\ q.latent[o] = 1
    <3>1. Signal(d) = Signal(e) => a \in ApplyOnce BY <2>8 DEF Signal
    <3>2. CASE Signal(d) = Signal(e) BY <2>3, <2>4, <3>1, <3>2
    <3>3. CASE Signal(d) # Signal(e) BY <2>3, <2>4, <2>8, <3>3 DEF Accounts
    <3> QED BY <3>2, <3>3
  <2> QED BY <2>3, <2>6, <2>7, <2>8 DEF Accounts, q
<1>6. CASE a \in DOMAIN Reversed /\ ~(Holds(p, e) /\ ActionOf[Stored(p, e)] = Reversed[a])
  BY <1>2, <1>6 DEF Applied
<1>7. CASE a \notin DOMAIN Reversed /\ ~Reads(p, e)
  BY <1>2, <1>7 DEF Applied
<1> QED BY <1>3, <1>4, <1>5, <1>6, <1>7

(* A point that covers its events forgets none.                            *)
LEMMA RememberingSound ==
  ASSUME HistoryCovers, eventOf \in Deliveries, NEW p, PointSound(p), NEW e \in Members(eventOf), ~Seen(p, e)
  PROVE  LET q == Remembering(Applied(p, e), e)
         IN  PointSound(q) /\ Members(q.history) = Members(p.history) \cup {e}
<1> DEFINE r == Applied(p, e)
           h == Append(p.history, e)
           q == Remembering(r, e)
<1>0. eventOf \in Seq(Events) /\ DOMAIN eventOf = 1..Len(eventOf) /\ Len(eventOf) \in Nat /\ Len(eventOf) <= History
  BY LegacyAssumption, LenProperties DEF HistoryCovers
<1>1. e \notin Members(p.history) /\ Accounts(p, Members(p.history)) /\ e \in Events
  BY <1>0, ElementOfSeq DEF Seen, PointSound, Members
<1>2. Accounts(r, Members(p.history) \cup {e}) /\ r.history = p.history BY <1>1, AppliedAccounts
<1> HIDE DEF r
<1>3. p.history \in Seq(Events) /\ r \in LegacyPoints BY <1>1, <1>2 DEF Accounts, LegacyPoints
<1>4. /\ h \in Seq(Events) /\ Len(h) = Len(p.history) + 1 /\ DOMAIN h = 1..Len(p.history) + 1
      /\ DOMAIN p.history = 1..Len(p.history) /\ Len(p.history) \in Nat
      /\ \A k \in DOMAIN h : h[k] = IF k = Len(p.history) + 1 THEN e ELSE p.history[k]
  BY <1>1, <1>3, AppendProperties, LenProperties
<1> HIDE DEF h
<1>5. Members(h) = Members(p.history) \cup {e} BY <1>4 DEF Members
<1>6. \A i, j \in DOMAIN h : h[i] = h[j] => i = j
  <2>1. \A i \in DOMAIN p.history : p.history[i] # e BY <1>1 DEF Members
  <2> QED BY <1>4, <2>1 DEF PointSound
<1>7. Len(h) <= History
  <2> DEFINE f == [k \in 1..Len(h) |-> CHOOSE j \in DOMAIN eventOf : eventOf[j] = h[k]]
  <2>1. \A k \in 1..Len(h) : \E j \in DOMAIN eventOf : eventOf[j] = h[k]
    <3>1. \A k \in DOMAIN h : h[k] \in Members(eventOf) BY <1>5 DEF PointSound, Members
    <3> QED BY <1>4, <3>1 DEF Members
  <2>2. \A k \in 1..Len(h) : f[k] \in DOMAIN eventOf /\ eventOf[f[k]] = h[k] BY <2>1
  <2>3. f \in [1..Len(h) -> 1..Len(eventOf)] BY <1>0, <2>2
  <2> HIDE DEF f
  <2>4. \A i, j \in 1..Len(h) : f[i] = f[j] => i = j
    <3>1. DOMAIN h = 1..Len(h) BY <1>4
    <3> QED BY <1>6, <2>2, <3>1
  <2>5. f \in Injection(1..Len(h), 1..Len(eventOf)) BY <2>3, <2>4 DEF Injection, IsInjective
  <2>6. /\ IsFiniteSet(1..Len(eventOf)) /\ Cardinality(1..Len(eventOf)) = Len(eventOf)
        /\ Cardinality(1..Len(h)) = Len(h)
    <3>1. \A n \in Nat : IsFiniteSet(1..n) /\ Cardinality(1..n) = n BY FS_Interval
    <3>2. Len(h) \in Nat BY <1>4
    <3> QED BY <1>0, <3>1, <3>2
  <2>7. Cardinality(1..Len(h)) <= Cardinality(1..Len(eventOf)) BY <2>5, <2>6, FS_Injection DEF ExistsInjection
  <2> QED BY <1>0, <1>4, <2>6, <2>7, LegacyAssumption
<1>8. q = [r EXCEPT !.history = h]
  <2>1. ~(Len(h) > History) BY <1>4, <1>7, LegacyAssumption
  <2> QED BY <1>2, <2>1 DEF Remembering, h
<1> HIDE DEF q
<1>9. q \in LegacyPoints /\ q.history = h /\ q.latent = r.latent /\ q.families = r.families /\ q.signals = r.signals
  BY <1>3, <1>4, <1>8 DEF LegacyPoints
<1>10. Accounts(q, Members(q.history)) BY <1>2, <1>5, <1>9 DEF Accounts, Holds, Stored
<1>11. PointSound(q) BY <1>5, <1>6, <1>9, <1>10 DEF PointSound
<1> QED BY <1>5, <1>9, <1>11 DEF q, r

-----------------------------------------------------------------------------
(* The consumers *)

NoneLost(d) == lane'.lock = d /\ profile' = profile

LEMMA WorkerStays ==
  ASSUME LegacyInv, NEW d \in LegacyConsumers, workers'[d] = workers[d], eventOf' = eventOf,
         lane.processed \subseteq lane'.processed, lane.dead \subseteq lane'.dead,
         ~troubles'.lapsed => ~troubles.lapsed /\ (InSection(d) => NoneLost(d))
  PROVE  WorkerKept(d)'
<1>1. WorkerKept(d) BY DEF LegacyInv
<1>2. /\ WorkerAt(d, "free")' = WorkerAt(d, "free") /\ WorkerAt(d, "read")' = WorkerAt(d, "read")
      /\ WorkerAt(d, "written")' = WorkerAt(d, "written")
      /\ Messages' = Messages /\ EventAt(d)' = EventAt(d) /\ InSection(d)' = InSection(d)
      /\ WorkerAt(d, "read") \/ WorkerAt(d, "written") => InSection(d)
  BY DEF WorkerAt, Messages, EventAt, InSection
<1>3. Glance(EventAt(d))' = Glance(EventAt(d)) BY <1>2 DEF Glance
<1>4. ASSUME PointSound(workers[d].read) PROVE PointSound(workers[d].read)'
  <2>1. PICK p : p = workers[d].read OBVIOUS
  <2>2. PointSound(p) /\ workers'[d].read = p BY <1>4, <2>1
  <2> QED BY <2>2 DEF PointSound, Accounts, Members, Holds, Stored, Place, Signal
<1> QED BY <1>1, <1>2, <1>3, <1>4 DEF WorkerKept, NoneLost

LEMMA StepKeeps ==
  ASSUME LegacyInv, NEW c \in LegacyConsumers, NEW w \in LegacyWorkers, workers' = [workers EXCEPT ![c] = w],
         eventOf' = eventOf, lane' \in Lanes, troubles' \in [count : Nat, lapsed : BOOLEAN], PointSound(profile'),
         lane.processed \subseteq lane'.processed, lane.dead \subseteq lane'.dead,
         ~troubles'.lapsed => ~troubles.lapsed /\ \A d \in LegacyConsumers \ {c} : InSection(d) => NoneLost(d),
         WorkerKept(c)', SettledFeedback'
  PROVE  LegacyInv'
<1>1. LegacyTyped'
  BY DEF LegacyInv, LegacyTyped, Lanes, LegacyWorkers, Messages
<1>2. ASSUME NEW d \in LegacyConsumers PROVE WorkerKept(d)'
  <2>1. CASE d = c BY <2>1
  <2>2. CASE d # c
    <3>1. workers'[d] = workers[d] BY <2>2 DEF LegacyInv, LegacyTyped
    <3> QED BY <2>2, <3>1, WorkerStays
  <2> QED BY <2>1, <2>2
<1>3. PointSound(profile)' BY DEF PointSound, Accounts, Members, Holds, Stored, Place, Signal
<1> QED BY <1>1, <1>2, <1>3 DEF LegacyInv

(* A worker moves on by itself: the point and what is settled stay.        *)
LEMMA MoveKeeps ==
  ASSUME LegacyInv, NEW c \in LegacyConsumers, NEW w \in LegacyWorkers, workers' = [workers EXCEPT ![c] = w],
         UNCHANGED <<eventOf, profile>>, lane' \in Lanes,
         lane'.processed = lane.processed, lane'.dead = lane.dead, lane'.acked = lane.acked,
         \A d \in LegacyConsumers \ {c} : InSection(d) /\ lane.lock = d => lane'.lock = d,
         UNCHANGED troubles \/ Troubled,
         WorkerKept(c)'
  PROVE  LegacyInv'
<1>1. troubles' \in [count : Nat, lapsed : BOOLEAN] /\ troubles'.lapsed = troubles.lapsed
  BY DEF LegacyInv, LegacyTyped, Troubled
<1>2. PointSound(profile') BY DEF LegacyInv
<1>3. SettledFeedback' BY <1>1 DEF LegacyInv, SettledFeedback, Glance, Members
<1>4. ~troubles'.lapsed => ~troubles.lapsed /\ \A d \in LegacyConsumers \ {c} : InSection(d) => NoneLost(d)
  BY <1>1 DEF LegacyInv, WorkerKept, NoneLost
<1> QED BY <1>1, <1>2, <1>3, <1>4, StepKeeps

(* What a worker is at hand with.                                          *)
LEMMA WorkerOf ==
  ASSUME LegacyInv, NEW c \in LegacyConsumers
  PROVE  /\ workers[c] \in LegacyWorkers /\ WorkerKept(c) /\ lane \in Lanes
         /\ ~WorkerAt(c, "free") => EventAt(c) \in Events /\ EventAt(c) \in Members(eventOf)
<1>1. eventOf \in Seq(Events) BY LegacyAssumption DEF LegacyInv, LegacyTyped
<1> QED BY <1>1, ElementOfSeq, LenProperties DEF LegacyInv, LegacyTyped, WorkerKept, EventAt, Messages, Members

LEMMA FetchKeeps == ASSUME LegacyInv, NEW c \in LegacyConsumers, Fetch(c) PROVE LegacyInv'
<1> DEFINE n == IF Len(lane.queue) < ReadBatch THEN Len(lane.queue) ELSE ReadBatch
           given == SubSeq(lane.queue, 1, n)
           w == [workers[c] EXCEPT !.left = given]
<1>1. /\ lane' = [lane EXCEPT !.queue = SubSeq(@, n + 1, Len(@)),
                            !.pending = [m \in Messages |-> IF m \in Members(given) THEN c ELSE @[m]]]
      /\ workers' = [workers EXCEPT ![c] = w] /\ UNCHANGED <<eventOf, profile, troubles>> /\ WorkerAt(c, "free")
  BY DEF Fetch
<1>2. workers[c] \in LegacyWorkers /\ lane \in Lanes /\ WorkerKept(c) BY WorkerOf
<1>3. n \in Nat /\ n <= Len(lane.queue) BY <1>2, LenProperties, LegacyAssumption DEF Lanes
<1> HIDE DEF n
<1>4. given \in Seq(Messages) /\ SubSeq(lane.queue, n + 1, Len(lane.queue)) \in Seq(Messages)
  <2>1. lane.queue \in Seq(Messages) /\ Len(lane.queue) \in Nat BY <1>2, LenProperties DEF Lanes
  <2>2. \A k \in 1..Len(lane.queue) : lane.queue[k] \in Messages BY <2>1, ElementOfSeq
  <2> QED BY <1>3, <2>1, <2>2
<1> HIDE DEF given
<1>5. w \in LegacyWorkers /\ w.at = "free" BY <1>1, <1>2, <1>4 DEF LegacyWorkers, WorkerAt
<1>6. [m \in Messages |-> IF m \in Members(given) THEN c ELSE lane.pending[m]] \in [Messages -> LegacyConsumers \cup {None}]
  BY <1>2 DEF Lanes
<1>7. /\ lane' \in Lanes /\ lane'.processed = lane.processed /\ lane'.dead = lane.dead /\ lane'.acked = lane.acked
      /\ lane'.lock = lane.lock
  BY <1>1, <1>2, <1>4, <1>6 DEF Lanes
<1> HIDE DEF w
<1>8. workers'[c] = w BY <1>1 DEF LegacyInv, LegacyTyped
<1>9. WorkerKept(c)' BY <1>5, <1>8 DEF WorkerKept, WorkerAt, InSection
<1> QED BY <1>1, <1>5, <1>7, <1>9, MoveKeeps

LEMMA ReclaimKeeps == ASSUME LegacyInv, NEW c \in LegacyConsumers, Reclaim(c) PROVE LegacyInv'
<1>1. PICK m \in Messages :
       /\ IF Working(m) THEN Troubled ELSE UNCHANGED troubles
       /\ lane' = [lane EXCEPT !.pending[m] = c]
       /\ workers' = [workers EXCEPT ![c].left = <<m>>]
  BY DEF Reclaim
<1> DEFINE w == [workers[c] EXCEPT !.left = <<m>>]
<1>2. workers[c] \in LegacyWorkers /\ lane \in Lanes /\ WorkerAt(c, "free") BY WorkerOf DEF Reclaim
<1>3. w \in LegacyWorkers /\ w.at = "free"
  <2>1. <<m>> \in Seq(Messages) OBVIOUS
  <2> QED BY <1>2, <2>1 DEF LegacyWorkers, WorkerAt
<1>4. workers' = [workers EXCEPT ![c] = w] BY <1>1
<1>5. /\ lane' \in Lanes /\ lane'.processed = lane.processed /\ lane'.dead = lane.dead /\ lane'.acked = lane.acked
      /\ lane'.lock = lane.lock
  BY <1>1, <1>2 DEF Lanes
<1> HIDE DEF w
<1>6. workers'[c] = w BY <1>4 DEF LegacyInv, LegacyTyped
<1>7. WorkerKept(c)' BY <1>3, <1>6 DEF WorkerKept, WorkerAt, InSection
<1>8. UNCHANGED <<eventOf, profile>> BY DEF Reclaim
<1> QED BY <1>1, <1>3, <1>4, <1>5, <1>7, <1>8, MoveKeeps

LEMMA ProcessKeeps == ASSUME LegacyInv, NEW c \in LegacyConsumers, Process(c) PROVE LegacyInv'
<1> DEFINE m == Head(workers[c].left)
           e == eventOf[m]
           stage == IF e \in MalformedEvents THEN "bury" ELSE IF e \in lane.processed THEN "ack" ELSE "lock"
           w == [Nowhere EXCEPT !.at = stage, !.message = m, !.left = Tail(workers[c].left)]
<1>1. workers' = [workers EXCEPT ![c] = w] /\ UNCHANGED <<eventOf, lane, profile, troubles>> /\ workers[c].left # <<>>
  BY DEF Process
<1>2. workers[c] \in LegacyWorkers /\ lane \in Lanes BY WorkerOf
<1>3. m \in Messages /\ Tail(workers[c].left) \in Seq(Messages) BY <1>1, <1>2, HeadTailProperties DEF LegacyWorkers
<1>4. stage \in {"bury", "ack", "lock"} /\ (stage = "ack" => e \in lane.processed) OBVIOUS
<1> HIDE DEF m, stage
<1>5. Nowhere \in LegacyWorkers BY DEF Nowhere, LegacyWorkers, LegacyStages
<1>6. w \in LegacyWorkers /\ w.at = stage /\ w.message = m BY <1>3, <1>4, <1>5 DEF LegacyWorkers, LegacyStages
<1> HIDE DEF w
<1>7. workers'[c] = w BY <1>1 DEF LegacyInv, LegacyTyped
<1>8. WorkerKept(c)' BY <1>1, <1>3, <1>4, <1>6, <1>7 DEF WorkerKept, WorkerAt, InSection, EventAt, Messages
<1> QED BY <1>1, <1>2, <1>6, <1>8, MoveKeeps

LEMMA AcquireLaneKeeps == ASSUME LegacyInv, NEW c \in LegacyConsumers, AcquireLane(c) PROVE LegacyInv'
<1>1. workers[c] \in LegacyWorkers /\ lane \in Lanes /\ WorkerKept(c) /\ WorkerAt(c, "lock")
      /\ UNCHANGED <<eventOf, profile, troubles>>
  BY WorkerOf DEF AcquireLane
<1>2. CASE lane.lock = None /\ lane' = [lane EXCEPT !.lock = c] /\ WorkerMoves(c, "owner")
  <2> DEFINE w == [workers[c] EXCEPT !.at = "owner"]
  <2>1. workers' = [workers EXCEPT ![c] = w] BY <1>2 DEF WorkerMoves
  <2>2. w \in LegacyWorkers /\ w.at = "owner" /\ w.message = workers[c].message BY <1>1 DEF LegacyWorkers, LegacyStages
  <2>3. /\ lane' \in Lanes /\ lane'.processed = lane.processed /\ lane'.dead = lane.dead /\ lane'.acked = lane.acked
        /\ lane'.lock = c
    BY <1>1, <1>2 DEF Lanes
  <2> HIDE DEF w
  <2>4. workers'[c] = w BY <2>1 DEF LegacyInv, LegacyTyped
  <2>5. WorkerKept(c)' BY <1>1, <2>2, <2>3, <2>4 DEF WorkerKept, WorkerAt, InSection, Messages
  <2>6. \A d \in LegacyConsumers : lane.lock # d BY <1>2, LegacyAssumption
  <2> QED BY <1>1, <2>1, <2>2, <2>3, <2>5, <2>6, MoveKeeps
<1>3. CASE Leaves(c) /\ UNCHANGED lane
  <2> DEFINE w == [workers[c] EXCEPT !.at = "free", !.message = NoMessage]
  <2>1. workers' = [workers EXCEPT ![c] = w] BY <1>3 DEF Leaves
  <2>2. w \in LegacyWorkers /\ w.at = "free" BY <1>1 DEF LegacyWorkers, LegacyStages
  <2> HIDE DEF w
  <2>3. workers'[c] = w BY <2>1 DEF LegacyInv, LegacyTyped
  <2>4. WorkerKept(c)' BY <2>2, <2>3 DEF WorkerKept, WorkerAt, InSection
  <2> QED BY <1>1, <1>3, <2>1, <2>2, <2>4, MoveKeeps
<1> QED BY <1>2, <1>3 DEF AcquireLane

(* To another stage of the section, with the message as it was.            *)
LEMMA MovesTo ==
  ASSUME LegacyInv, NEW c \in LegacyConsumers, NEW stage \in LegacyStages, WorkerMoves(c, stage)
  PROVE  LET w == [workers[c] EXCEPT !.at = stage]
         IN  /\ workers' = [workers EXCEPT ![c] = w] /\ workers'[c] = w /\ w \in LegacyWorkers
             /\ w.at = stage /\ w.message = workers[c].message /\ w.read = workers[c].read
<1>1. workers[c] \in LegacyWorkers BY WorkerOf
<1> QED BY <1>1 DEF WorkerMoves, LegacyWorkers, LegacyInv, LegacyTyped

(* A step in the section after which nothing is claimed of the message.    *)
LEMMA PlainMove ==
  ASSUME LegacyInv, NEW c \in LegacyConsumers, NEW stage \in {"failed", "dead", "release"}, WorkerMoves(c, stage),
         InSection(c), UNCHANGED <<eventOf, profile>>, lane' \in Lanes, lane'.lock = lane.lock,
         lane'.processed = lane.processed, lane'.dead = lane.dead, lane'.acked = lane.acked,
         UNCHANGED troubles \/ Troubled
  PROVE  LegacyInv'
<1>1. WorkerKept(c) /\ workers[c].at # "free" BY WorkerOf DEF InSection
<1>2. stage \in LegacyStages BY DEF LegacyStages
<1>3. troubles'.lapsed = troubles.lapsed BY DEF LegacyInv, LegacyTyped, Troubled
<1> DEFINE w == [workers[c] EXCEPT !.at = stage]
<1>4. /\ workers' = [workers EXCEPT ![c] = w] /\ workers'[c] = w /\ w \in LegacyWorkers
      /\ w.at = stage /\ w.message = workers[c].message
  BY <1>2, MovesTo
<1> HIDE DEF w
<1>5. WorkerKept(c)'
  <2>1. workers[c].message \in Messages /\ (~troubles.lapsed => lane.lock = c) BY <1>1 DEF WorkerKept, WorkerAt
  <2> QED BY <1>3, <1>4, <2>1 DEF WorkerKept, WorkerAt, InSection, Messages
<1>6. \A d \in LegacyConsumers \ {c} : InSection(d) /\ lane.lock = d => lane'.lock = d OBVIOUS
<1> QED BY <1>4, <1>5, <1>6, MoveKeeps

LEMMA ReadPointKeeps == ASSUME LegacyInv, NEW c \in LegacyConsumers, ReadPoint(c) PROVE LegacyInv'
<1>1. workers[c] \in LegacyWorkers /\ lane \in Lanes /\ WorkerKept(c) /\ WorkerAt(c, "owner") /\ InSection(c)
      /\ UNCHANGED <<eventOf, lane, profile>>
  BY WorkerOf DEF ReadPoint, WorkerAt, InSection
<1>2. CASE EventAt(c) \in lane.processed /\ WorkerMoves(c, "owned_ack") /\ UNCHANGED troubles
  <2>1. "owned_ack" \in LegacyStages BY DEF LegacyStages
  <2>2. WorkerKept(c)'
    BY <1>1, <1>2, <2>1, MovesTo DEF WorkerKept, WorkerAt, InSection, Messages, EventAt
  <2> QED BY <1>1, <1>2, <2>1, <2>2, MovesTo, MoveKeeps
<1>3. CASE workers' = [workers EXCEPT ![c] = [@ EXCEPT !.at = "read", !.read = profile]] /\ UNCHANGED troubles
  <2> DEFINE w == [workers[c] EXCEPT !.at = "read", !.read = profile]
  <2>1. profile \in LegacyPoints BY DEF LegacyInv, PointSound, Accounts
  <2>3. workers' = [workers EXCEPT ![c] = w] BY <1>3
  <2>4. w \in LegacyWorkers /\ w.at = "read" /\ w.read = profile /\ w.message = workers[c].message
    BY <1>1, <2>1 DEF LegacyWorkers, LegacyStages
  <2> HIDE DEF w
  <2>5. workers'[c] = w BY <2>3 DEF LegacyInv, LegacyTyped
  <2>6. PointSound(profile) BY DEF LegacyInv
  <2>7. PointSound(workers[c].read)'
    BY <1>1, <2>4, <2>5, <2>6 DEF PointSound, Accounts, Members, Holds, Stored, Place, Signal
  <2>8. WorkerKept(c)' BY <1>1, <1>3, <2>4, <2>5, <2>7 DEF WorkerKept, WorkerAt, InSection, Messages
  <2> QED BY <1>1, <1>3, <2>3, <2>4, <2>8, MoveKeeps
<1>4. CASE Failing(c) BY <1>1, <1>4, PlainMove DEF Failing
<1> QED BY <1>2, <1>3, <1>4 DEF ReadPoint

(* What the worker at hand writes holds what it read, and its own event.   *)
LEMMA WritePointKeeps == ASSUME HistoryCovers, LegacyInv, NEW c \in LegacyConsumers, WritePoint(c) PROVE LegacyInv'
<1> DEFINE p == workers[c].read
           e == EventAt(c)
<1>1. workers[c] \in LegacyWorkers /\ lane \in Lanes /\ WorkerKept(c) /\ WorkerAt(c, "read") /\ InSection(c)
      /\ UNCHANGED <<eventOf, lane>> /\ e \in Events /\ e \in Members(eventOf)
  BY WorkerOf DEF WritePoint, WorkerAt, InSection
<1>2. PointSound(p) /\ (~troubles.lapsed => p = profile /\ lane.lock = c) /\ workers[c].message \in Messages
  BY <1>1 DEF WorkerKept, WorkerAt
<1>3. "written" \in LegacyStages /\ "failed" \in LegacyStages BY DEF LegacyStages
<1>4. ASSUME Seen(p, e) \/ Glance(e), WorkerMoves(c, "written"), UNCHANGED <<profile, troubles>> PROVE LegacyInv'
  <2> DEFINE w == [workers[c] EXCEPT !.at = "written"]
  <2>1. /\ workers' = [workers EXCEPT ![c] = w] /\ workers'[c] = w /\ w \in LegacyWorkers
        /\ w.at = "written" /\ w.message = workers[c].message
    BY <1>3, <1>4, MovesTo
  <2> HIDE DEF w
  <2>2. EventAt(c)' = e /\ (Glance(e)' <=> Glance(e)) BY <1>1, <2>1 DEF EventAt, Glance
  <2>3. ~troubles.lapsed => Glance(e) \/ e \in Members(profile.history) BY <1>2, <1>4 DEF Seen
  <2>4. WorkerKept(c)'
    BY <1>1, <1>2, <1>4, <2>1, <2>2, <2>3 DEF WorkerKept, WorkerAt, InSection, Messages, Glance, Members
  <2> QED BY <1>1, <1>4, <2>1, <2>4, MoveKeeps
<1>5. ASSUME Failing(c) \/ Refusing(c), UNCHANGED profile PROVE LegacyInv'
  BY <1>1, <1>5, PlainMove DEF Failing, Refusing
<1>6. ASSUME ~Seen(p, e), profile' = Remembering(Applied(p, e), e),
             Failing(c) \/ (WorkerMoves(c, "written") /\ UNCHANGED troubles)
      PROVE  LegacyInv'
  <2>1. PointSound(profile') /\ Members(profile'.history) = Members(p.history) \cup {e}
    BY <1>1, <1>2, <1>6, RememberingSound DEF LegacyInv, LegacyTyped
  <2>2. PICK stage \in {"failed", "written"} : WorkerMoves(c, stage) BY <1>6 DEF Failing
  <2>3. troubles' \in [count : Nat, lapsed : BOOLEAN] /\ troubles'.lapsed = troubles.lapsed
    BY <1>6 DEF Failing, Troubled, LegacyInv, LegacyTyped
  <2> DEFINE w == [workers[c] EXCEPT !.at = stage]
  <2>4. /\ workers' = [workers EXCEPT ![c] = w] /\ workers'[c] = w /\ w \in LegacyWorkers
        /\ w.at = stage /\ w.message = workers[c].message
    BY <1>3, <2>2, MovesTo
  <2> HIDE DEF w
  <2>5. EventAt(c)' = e BY <1>1, <2>4 DEF EventAt
  <2>6. EventAt(c)' \in Members(profile.history)' BY <2>1, <2>5 DEF Members
  <2>7. WorkerKept(c)'
    BY <1>1, <1>2, <2>2, <2>3, <2>4, <2>6 DEF WorkerKept, WorkerAt, InSection, Messages
  <2>8. SettledFeedback'
    <3>1. ~troubles.lapsed => \A d \in lane.processed : Glance(d) \/ d \in Members(profile'.history)
      BY <1>2, <2>1 DEF LegacyInv, SettledFeedback
    <3> QED BY <1>1, <2>3, <3>1 DEF LegacyInv, SettledFeedback, Glance, Members
  <2>9. ~troubles'.lapsed => ~troubles.lapsed /\ \A d \in LegacyConsumers \ {c} : InSection(d) => NoneLost(d)
    BY <1>2, <2>3 DEF LegacyInv, WorkerKept
  <2> QED BY <1>1, <2>1, <2>3, <2>4, <2>7, <2>8, <2>9, StepKeeps
<1> QED BY <1>4, <1>5, <1>6 DEF WritePoint

LEMMA SucceedKeeps == ASSUME LegacyInv, NEW c \in LegacyConsumers, Succeed(c) PROVE LegacyInv'
<1> DEFINE w == [workers[c] EXCEPT !.at = "owned_ack"]
<1>1. lane \in Lanes /\ WorkerKept(c) /\ WorkerAt(c, "written") /\ InSection(c) /\ EventAt(c) \in Events
      /\ UNCHANGED <<eventOf, profile, troubles>> /\ lane' = [lane EXCEPT !.processed = @ \cup {EventAt(c)}]
  BY WorkerOf DEF Succeed, WorkerAt, InSection
<1>2. "owned_ack" \in LegacyStages /\ WorkerMoves(c, "owned_ack") BY DEF LegacyStages, Succeed
<1>3. /\ workers' = [workers EXCEPT ![c] = w] /\ workers'[c] = w /\ w \in LegacyWorkers
      /\ w.at = "owned_ack" /\ w.message = workers[c].message
  BY <1>2, MovesTo
<1> HIDE DEF w
<1>4. /\ lane' \in Lanes /\ lane'.processed = lane.processed \cup {EventAt(c)} /\ lane'.dead = lane.dead
      /\ lane'.acked = lane.acked /\ lane'.lock = lane.lock
  BY <1>1 DEF Lanes
<1>5. EventAt(c)' = EventAt(c) BY <1>1, <1>3 DEF EventAt
<1>6. WorkerKept(c)' BY <1>1, <1>3, <1>4, <1>5 DEF WorkerKept, WorkerAt, InSection, Messages
<1>7. SettledFeedback'
  BY <1>1, <1>4 DEF LegacyInv, SettledFeedback, WorkerKept, Glance, Members
<1>8. troubles' \in [count : Nat, lapsed : BOOLEAN] /\ PointSound(profile')
  BY <1>1 DEF LegacyInv, LegacyTyped
<1>9. ~troubles'.lapsed => ~troubles.lapsed /\ \A d \in LegacyConsumers \ {c} : InSection(d) => NoneLost(d)
  BY <1>1, <1>4 DEF LegacyInv, WorkerKept, NoneLost
<1> QED BY <1>1, <1>3, <1>4, <1>6, <1>7, <1>8, <1>9, StepKeeps

LEMMA FailDeliveryKeeps == ASSUME LegacyInv, NEW c \in LegacyConsumers, FailDelivery(c) PROVE LegacyInv'
<1>1. lane \in Lanes /\ InSection(c) /\ EventAt(c) \in Events /\ UNCHANGED <<eventOf, profile, troubles>>
  BY WorkerOf DEF FailDelivery, WorkerAt, InSection
<1>2. PICK stage \in {"dead", "release"} : WorkerMoves(c, stage) BY DEF FailDelivery
<1> DEFINE n == IF lane.attempts[EventAt(c)] < MaxDelivery THEN lane.attempts[EventAt(c)] + 1 ELSE lane.attempts[EventAt(c)]
<1>3. lane' = [lane EXCEPT !.attempts = [lane.attempts EXCEPT ![EventAt(c)] = n]] BY DEF FailDelivery
<1>4. lane.attempts \in [Events -> Nat] BY <1>1 DEF Lanes
<1>5. n \in Nat BY <1>1, <1>4
<1> HIDE DEF n
<1>6. [lane.attempts EXCEPT ![EventAt(c)] = n] \in [Events -> Nat] BY <1>4, <1>5
<1>7. /\ lane' \in Lanes /\ lane'.processed = lane.processed /\ lane'.dead = lane.dead
      /\ lane'.acked = lane.acked /\ lane'.lock = lane.lock
  BY <1>1, <1>3, <1>6 DEF Lanes
<1> QED BY <1>1, <1>2, <1>7, PlainMove

LEMMA BuryKeeps == ASSUME LegacyInv, NEW c \in LegacyConsumers, Bury(c) PROVE LegacyInv'
<1>1. lane \in Lanes /\ WorkerKept(c) /\ workers[c].at \in {"bury", "dead"} /\ workers[c].message \in Messages
      /\ UNCHANGED <<eventOf, profile, troubles>> /\ lane' = [lane EXCEPT !.dead = @ \cup {workers[c].message}]
  BY WorkerOf DEF Bury, WorkerAt, WorkerKept
<1>2. PICK stage \in {"ack", "owned_ack"} : WorkerMoves(c, stage) /\ (stage = "owned_ack" => InSection(c))
  BY <1>1 DEF Bury, WorkerAt, InSection
<1> DEFINE w == [workers[c] EXCEPT !.at = stage]
<1>3. /\ workers' = [workers EXCEPT ![c] = w] /\ workers'[c] = w /\ w \in LegacyWorkers
      /\ w.at = stage /\ w.message = workers[c].message
  <2>1. stage \in LegacyStages BY DEF LegacyStages
  <2> QED BY <1>2, <2>1, MovesTo
<1> HIDE DEF w
<1>4. /\ lane' \in Lanes /\ lane'.processed = lane.processed /\ lane'.dead = lane.dead \cup {workers[c].message}
      /\ lane'.acked = lane.acked /\ lane'.lock = lane.lock
  BY <1>1 DEF Lanes
<1>5. WorkerKept(c)' BY <1>1, <1>2, <1>3, <1>4 DEF WorkerKept, WorkerAt, InSection, Messages
<1>6. SettledFeedback' BY <1>1, <1>4 DEF LegacyInv, SettledFeedback, Glance, Members
<1>7. troubles' \in [count : Nat, lapsed : BOOLEAN] /\ PointSound(profile')
  BY <1>1 DEF LegacyInv, LegacyTyped
<1>8. ~troubles'.lapsed => ~troubles.lapsed /\ \A d \in LegacyConsumers \ {c} : InSection(d) => NoneLost(d)
  BY <1>1, <1>4 DEF LegacyInv, WorkerKept, NoneLost
<1> QED BY <1>1, <1>3, <1>4, <1>5, <1>6, <1>7, <1>8, StepKeeps

LEMMA AckKeeps == ASSUME LegacyInv, NEW c \in LegacyConsumers, Ack(c) PROVE LegacyInv'
<1> DEFINE m == workers[c].message
<1>1. lane \in Lanes /\ WorkerKept(c) /\ workers[c].at \in {"ack", "owned_ack"} /\ m \in Messages
      /\ UNCHANGED <<eventOf, profile, troubles>>
      /\ lane' = [lane EXCEPT !.pending = [lane.pending EXCEPT ![m] = None], !.acked = lane.acked \cup {m}]
      /\ workers[c] \in LegacyWorkers
  BY WorkerOf DEF Ack, WorkerAt, WorkerKept
<1>2. eventOf[m] \in lane.processed \/ m \in lane.dead BY <1>1 DEF WorkerKept, EventAt
<1>3. PICK w \in LegacyWorkers :
        /\ workers' = [workers EXCEPT ![c] = w] /\ workers'[c] = w
        /\ (w.at = "free" \/ (w.at = "release" /\ w.message = m /\ InSection(c)))
  <2>1. CASE WorkerAt(c, "ack")
    <3> DEFINE w == [workers[c] EXCEPT !.at = "free", !.message = NoMessage]
    <3>1. workers' = [workers EXCEPT ![c] = w] BY <2>1 DEF Ack, Leaves
    <3>2. w \in LegacyWorkers /\ w.at = "free" BY <1>1 DEF LegacyWorkers, LegacyStages
    <3> HIDE DEF w
    <3>3. workers'[c] = w BY <3>1 DEF LegacyInv, LegacyTyped
    <3> QED BY <3>1, <3>2, <3>3
  <2>2. CASE ~WorkerAt(c, "ack")
    <3>1. InSection(c) /\ WorkerMoves(c, "release") BY <1>1, <2>2 DEF Ack, WorkerAt, InSection
    <3>2. "release" \in LegacyStages BY DEF LegacyStages
    <3> DEFINE w == [workers[c] EXCEPT !.at = "release"]
    <3>3. /\ workers' = [workers EXCEPT ![c] = w] /\ workers'[c] = w /\ w \in LegacyWorkers
          /\ w.at = "release" /\ w.message = workers[c].message
      BY <3>1, <3>2, MovesTo
    <3> HIDE DEF w
    <3> QED BY <3>1, <3>3
  <2> QED BY <2>1, <2>2
<1> HIDE DEF m
<1>4. [lane.pending EXCEPT ![m] = None] \in [Messages -> LegacyConsumers \cup {None}] BY <1>1 DEF Lanes
<1>5. /\ lane' \in Lanes /\ lane'.processed = lane.processed /\ lane'.dead = lane.dead
      /\ lane'.acked = lane.acked \cup {m} /\ lane'.lock = lane.lock
  BY <1>1, <1>4 DEF Lanes
<1>6. WorkerKept(c)' BY <1>1, <1>3, <1>5 DEF WorkerKept, WorkerAt, InSection, Messages
<1>7. SettledFeedback' BY <1>1, <1>2, <1>5 DEF LegacyInv, SettledFeedback, Glance, Members
<1>8. troubles' \in [count : Nat, lapsed : BOOLEAN] /\ PointSound(profile')
  BY <1>1 DEF LegacyInv, LegacyTyped
<1>9. ~troubles'.lapsed => ~troubles.lapsed /\ \A d \in LegacyConsumers \ {c} : InSection(d) => NoneLost(d)
  BY <1>1, <1>5 DEF LegacyInv, WorkerKept, NoneLost
<1> QED BY <1>1, <1>3, <1>5, <1>6, <1>7, <1>8, <1>9, StepKeeps

(* A worker lets go of the lock, if it holds it.                           *)
LEMMA UnlockedLane ==
  ASSUME lane \in Lanes, NEW c \in LegacyConsumers, lane' = Unlocked(c)
  PROVE  /\ lane' \in Lanes /\ lane'.processed = lane.processed /\ lane'.dead = lane.dead /\ lane'.acked = lane.acked
         /\ \A d \in LegacyConsumers \ {c} : lane.lock = d => lane'.lock = d
<1> DEFINE l == IF lane.lock = c THEN None ELSE lane.lock
<1>1. lane' = [lane EXCEPT !.lock = l] BY DEF Unlocked
<1>2. l \in LegacyConsumers \cup {None} /\ \A d \in LegacyConsumers \ {c} : lane.lock = d => l = d BY DEF Lanes
<1> HIDE DEF l
<1> QED BY <1>1, <1>2 DEF Lanes

LEMMA ReleaseLaneKeeps == ASSUME LegacyInv, NEW c \in LegacyConsumers, ReleaseLane(c) PROVE LegacyInv'
<1> DEFINE w == [Nowhere EXCEPT !.left = workers[c].left]
<1>1. lane \in Lanes /\ workers[c] \in LegacyWorkers /\ lane' = Unlocked(c)
      /\ workers' = [workers EXCEPT ![c] = w] /\ UNCHANGED <<eventOf, profile, troubles>>
  BY WorkerOf DEF ReleaseLane
<1>2. Nowhere \in LegacyWorkers /\ Nowhere.at = "free" BY DEF Nowhere, LegacyWorkers, LegacyStages
<1>3. w \in LegacyWorkers /\ w.at = "free" BY <1>1, <1>2 DEF LegacyWorkers
<1> HIDE DEF w
<1>4. workers'[c] = w BY <1>1 DEF LegacyInv, LegacyTyped
<1>5. WorkerKept(c)' BY <1>3, <1>4 DEF WorkerKept, WorkerAt, InSection
<1> QED BY <1>1, <1>3, <1>5, UnlockedLane, MoveKeeps

LEMMA BreakKeeps == ASSUME LegacyInv, NEW c \in LegacyConsumers, Break(c) PROVE LegacyInv'
<1>1. lane \in Lanes /\ (lane' = Unlocked(c) \/ lane' = lane) /\ Troubled
      /\ workers' = [workers EXCEPT ![c] = Nowhere] /\ UNCHANGED <<eventOf, profile>>
  BY WorkerOf DEF Break
<1>2. Nowhere \in LegacyWorkers /\ Nowhere.at = "free" BY DEF Nowhere, LegacyWorkers, LegacyStages
<1>3. workers'[c] = Nowhere BY <1>1 DEF LegacyInv, LegacyTyped
<1>4. WorkerKept(c)' BY <1>2, <1>3 DEF WorkerKept, WorkerAt, InSection
<1> QED BY <1>1, <1>2, <1>4, UnlockedLane, MoveKeeps

LEMMA LapseKeeps == ASSUME LegacyInv, Lapse PROVE LegacyInv'
<1>1. lane \in Lanes /\ lane' = [lane EXCEPT !.lock = None] /\ UNCHANGED <<eventOf, profile, workers>>
  BY DEF LegacyInv, LegacyTyped, Lapse
<1>2. /\ lane' \in Lanes /\ lane'.processed = lane.processed /\ lane'.dead = lane.dead /\ lane'.acked = lane.acked
  BY <1>1 DEF Lanes
<1>3. troubles' \in [count : Nat, lapsed : BOOLEAN] /\ (~troubles'.lapsed => ~troubles.lapsed /\ ~InSection(lane.lock))
  <2>1. CASE ~InSection(lane.lock) BY <2>1 DEF LegacyInv, LegacyTyped, Lapse
  <2>2. CASE InSection(lane.lock)
    <3>1. troubles' = [count |-> troubles.count + 1, lapsed |-> TRUE] /\ troubles.count \in Nat
      BY <2>2 DEF LegacyInv, LegacyTyped, Lapse
    <3> QED BY <3>1
  <2> QED BY <2>1, <2>2
<1>4. ~troubles'.lapsed => \A d \in LegacyConsumers : ~InSection(d)
  BY <1>3 DEF LegacyInv, WorkerKept
<1>5. LegacyTyped' BY <1>1, <1>2, <1>3 DEF LegacyInv, LegacyTyped, Lanes, LegacyWorkers, Messages
<1>6. PointSound(profile)'
  BY <1>1 DEF LegacyInv, PointSound, Accounts, Members, Holds, Stored, Place, Signal
<1>7. SettledFeedback' BY <1>1, <1>2, <1>3 DEF LegacyInv, SettledFeedback, Glance, Members
<1>8. ASSUME NEW d \in LegacyConsumers PROVE WorkerKept(d)'
  BY <1>1, <1>2, <1>3, <1>4, WorkerStays
<1> QED BY <1>5, <1>6, <1>7, <1>8 DEF LegacyInv

-----------------------------------------------------------------------------
LEMMA LegacyStarts == LegacyInit => LegacyInv
<1> SUFFICES ASSUME LegacyInit PROVE LegacyInv OBVIOUS
<1> DEFINE zero == [e \in Events |-> 0]
           start == [latent |-> zero, families |-> <<>>, signals |-> {}, history |-> <<>>]
<1>1. eventOf \in Deliveries /\ eventOf \in Seq(Events) /\ profile = start BY LegacyAssumption DEF LegacyInit
<1>2. start \in LegacyPoints
  <2>1. <<>> \in [{} -> Events] OBVIOUS
  <2>2. <<>> \in UNION {[S -> Events] : S \in SUBSET {Place(e) : e \in Events}} BY <2>1
  <2>3. zero \in [Events -> {0, 1}] /\ <<>> \in Seq(Events) OBVIOUS
  <2> HIDE DEF zero
  <2> QED BY <2>2, <2>3 DEF LegacyPoints
<1>3. start.latent = zero /\ start.families = <<>> /\ start.signals = {} /\ start.history = <<>> OBVIOUS
<1> HIDE DEF start
<1>4. PointSound(profile)
  <2>1. DOMAIN start.families = {} /\ DOMAIN start.history = {} BY <1>3
  <2> QED BY <1>1, <1>2, <1>3, <2>1 DEF PointSound, Accounts, Holds, Members
<1>5. lane \in Lanes
  <2>1. /\ [m \in Messages |-> m] \in Seq(Messages) /\ [m \in Messages |-> None] \in [Messages -> LegacyConsumers \cup {None}]
        /\ [e \in Events |-> 0] \in [Events -> Nat]
    BY <1>1, LenProperties DEF Messages
  <2> QED BY <2>1 DEF LegacyInit, Lanes
<1>6. Nowhere \in LegacyWorkers /\ Nowhere.at = "free" BY DEF Nowhere, LegacyWorkers, LegacyStages
<1>7. workers \in [LegacyConsumers -> LegacyWorkers] /\ \A c \in LegacyConsumers : workers[c] = Nowhere
  BY <1>6 DEF LegacyInit
<1>8. \A c \in LegacyConsumers : WorkerKept(c) BY <1>6, <1>7 DEF WorkerKept, WorkerAt, InSection
<1>9. SettledFeedback BY DEF LegacyInit, SettledFeedback
<1>10. troubles \in [count : Nat, lapsed : BOOLEAN] BY DEF LegacyInit
<1> QED BY <1>1, <1>4, <1>5, <1>7, <1>8, <1>9, <1>10 DEF LegacyInv, LegacyTyped

LEMMA LegacySteps == ASSUME HistoryCovers, LegacyInv, [LegacyNext]_legacyVars PROVE LegacyInv'
<1>1. CASE UNCHANGED legacyVars
  <2>1. UNCHANGED <<eventOf, lane, profile, workers, troubles>> BY <1>1 DEF legacyVars
  <2>2. LegacyTyped' BY <2>1 DEF LegacyInv, LegacyTyped, Lanes, LegacyWorkers, Messages
  <2>3. PointSound(profile)'
    BY <2>1 DEF LegacyInv, PointSound, Accounts, Members, Holds, Stored, Place, Signal
  <2>4. SettledFeedback' BY <2>1 DEF LegacyInv, SettledFeedback, Glance, Members
  <2>5. ASSUME NEW d \in LegacyConsumers PROVE WorkerKept(d)'
    <3>1. ~troubles.lapsed => (InSection(d) => NoneLost(d)) BY <2>1 DEF LegacyInv, WorkerKept, NoneLost
    <3> QED BY <2>1, <3>1, WorkerStays
  <2> QED BY <2>2, <2>3, <2>4, <2>5 DEF LegacyInv
<1>2. CASE Lapse BY <1>2, LapseKeeps
<1>3. ASSUME NEW c \in LegacyConsumers, ConsumerStep(c) PROVE LegacyInv'
  BY <1>3, FetchKeeps, ReclaimKeeps, ProcessKeeps, AcquireLaneKeeps, ReadPointKeeps, WritePointKeeps, SucceedKeeps,
     FailDeliveryKeeps, BuryKeeps, AckKeeps, ReleaseLaneKeeps, BreakKeeps DEF ConsumerStep
<1> QED BY <1>1, <1>2, <1>3 DEF LegacyNext

LEMMA LegacyFollows == LegacyInv => LegacySound
<1> SUFFICES ASSUME LegacyInv PROVE LatentAccounted BY DEF LegacyInv, LegacySound
<1>1. PointSound(profile) BY DEF LegacyInv
<1>2. profile.latent \in [Events -> {0, 1}] BY <1>1 DEF PointSound, Accounts, LegacyPoints
<1> QED BY <1>1, <1>2 DEF LatentAccounted, PointSound, Accounts

(* However often a message is delivered or half processed, no event moves  *)
(* the vector twice, none is acknowledged unsettled, and what is settled   *)
(* is in the point's history unless a lock lapsed under its holder: for    *)
(* any consumers and events, and as many deliveries as the history holds.  *)
THEOREM LegacyTheorem == ASSUME HistoryCovers PROVE LegacySpec => []LegacySound
<1>1. LegacyInit => LegacyInv BY LegacyStarts
<1>2. LegacyInv /\ [LegacyNext]_legacyVars => LegacyInv' BY LegacySteps
<1>3. LegacyInv => LegacySound BY LegacyFollows
<1> QED BY <1>1, <1>2, <1>3, PTL DEF LegacySpec

-----------------------------------------------------------------------------
(* The chunks of a section *)

(* A bounded set of numbers has a greatest one. *)
LEMMA GreatestIn ==
  ASSUME NEW S, NEW b \in Nat, S \subseteq 0..b, S # {}
  PROVE  Max(S) \in S /\ \A y \in S : y <= Max(S)
<1>. DEFINE T == {b - y : y \in S}
<1>0. \A y \in S : y \in Nat /\ b - y \in Nat
  OBVIOUS
<1>1. T \in SUBSET Nat /\ T # {}
  BY <1>0
<1>2. PICK x \in T : \A y \in T : ~(<<y, x>> \in OpToRel(<, Nat))
  <2>1. IsWellFoundedOn(OpToRel(<, Nat), Nat) BY NatLessThanWellFounded
  <2>. QED BY <1>1, <2>1, WFMin
<1>3. \A y \in T : x <= y
  <2>. TAKE y \in T
  <2>1. <<y, x>> \notin OpToRel(<, Nat) BY <1>2
  <2>2. ~(y < x) BY <1>1, <2>1 DEF OpToRel
  <2>. QED BY <1>1, <2>2
<1>4. PICK m \in S : x = b - m
  OBVIOUS
<1>5. \A y \in S : b - m <= b - y
  BY <1>3, <1>4
<1>6. \A y \in S : m >= y
  BY <1>0, <1>4, <1>5
<1>. QED BY <1>4, <1>6 DEF Max

LEMMA LeastOf ==
  ASSUME NEW S \in SUBSET Nat, S # {}
  PROVE  Min(S) \in S /\ \A y \in S : Min(S) <= y
<1>1. PICK x \in S : \A y \in S : ~(<<y, x>> \in OpToRel(<, Nat))
  <2>1. IsWellFoundedOn(OpToRel(<, Nat), Nat) BY NatLessThanWellFounded
  <2>. QED BY <2>1, WFMin
<1>2. \A y \in S : x <= y
  <2>. TAKE y \in S
  <2>1. <<y, x>> \notin OpToRel(<, Nat) BY <1>1
  <2>2. ~(y < x) BY <2>1 DEF OpToRel
  <2>. QED BY <2>2
<1>. QED BY <1>2 DEF Min

LEMMA GreaterOf == ASSUME NEW a \in Int, NEW b \in Int PROVE Max({a, b}) \in {a, b} /\ a <= Max({a, b}) /\ b <= Max({a, b})
<1>. DEFINE m == IF a <= b THEN b ELSE a
<1>1. m \in {a, b} /\ \A y \in {a, b} : m >= y
  OBVIOUS
<1>2. \A x \in {a, b} : (\A y \in {a, b} : x >= y) => x = m
  OBVIOUS
<1>. QED BY <1>1, <1>2 DEF Max

LEMMA LesserOf == ASSUME NEW a \in Int, NEW b \in Int PROVE Min({a, b}) \in {a, b} /\ Min({a, b}) <= a /\ Min({a, b}) <= b
<1>. DEFINE m == IF a <= b THEN a ELSE b
<1>1. m \in {a, b} /\ \A y \in {a, b} : m <= y
  OBVIOUS
<1>2. \A x \in {a, b} : (\A y \in {a, b} : x <= y) => x = m
  OBVIOUS
<1>. QED BY <1>1, <1>2 DEF Min

Pieces == [from : Nat, to : Nat]
ChunkRecords == [start : Nat \ {0}, ended : BOOLEAN, left : Int]

ChunkTyped ==
  /\ text.size \in Nat \ {0}
  /\ chunk \in ChunkRecords
  /\ chunks \in Seq(Pieces)

(* Where the next chunk may start, and what it means that there is none.   *)
ChunkInv ==
  /\ ChunkTyped
  /\ \A k \in DOMAIN chunks :
       /\ Fits(chunks[k].from, chunks[k].to) /\ chunks[k].from <= chunks[k].to
       /\ k > 1 => chunks[k - 1].from < chunks[k].from /\ chunks[k].from <= chunks[k - 1].to + 1
  /\ Len(chunks) = 0 => chunk.start = 1
  /\ Len(chunks) > 0 =>
       /\ chunks[1].from = 1
       /\ ~chunk.ended => chunks[Len(chunks)].from < chunk.start /\ chunk.start <= chunks[Len(chunks)].to + 1
  /\ chunk.ended /\ chunk.left > 0 => Len(chunks) > 0 /\ chunks[Len(chunks)].to = text.size

LEMMA ChunkBounds ==
  /\ SequenceLimit \in Nat \ {0} /\ Special \in Nat /\ Overlap \in Nat /\ Overlap < SequenceLimit - Special
  /\ ChunkLimits \subseteq Nat \ {0} /\ Tokens \in Nat \ {0}
BY ReadmeAssumption

LEMMA ChunkStarts == ReadmeInit => ChunkInv
<1>. SUFFICES ASSUME ReadmeInit PROVE ChunkInv
  OBVIOUS
<1>1. PICK size \in 1..Tokens, limit \in ChunkLimits :
        /\ text \in {[size |-> size, grow |-> g] : g \in SUBSET (1..size)}
        /\ chunk = [start |-> 1, ended |-> FALSE, left |-> limit]
  BY DEF ReadmeInit
<1>2. text.size = size /\ chunk.start = 1 /\ chunk.ended = FALSE
  BY <1>1
<1>3. chunks = <<>> /\ Len(chunks) = 0 /\ chunks \in Seq(Pieces) /\ DOMAIN chunks = {}
  BY DEF ReadmeInit
<1>4. ChunkTyped
  BY <1>1, <1>2, <1>3, ChunkBounds DEF ChunkTyped, ChunkRecords
<1>. QED BY <1>2, <1>3, <1>4 DEF ChunkInv

(* The end that a cut chooses.                                             *)
LEMMA EndingBounds ==
  ASSUME ChunkTyped, chunk.start <= text.size, Ending(chunk.start) # {}
  PROVE  LET to == Max(Ending(chunk.start))
         IN  to \in Nat /\ chunk.start <= to /\ to <= text.size /\ Fits(chunk.start, to)
<1>. DEFINE a == chunk.start + SequenceLimit - Special - 1
            top == Min({a, text.size})
            E == Ending(chunk.start)
<1>1. chunk.start \in Nat \ {0} /\ text.size \in Nat \ {0}
  BY DEF ChunkTyped, ChunkRecords
<1>2. a \in Int
  BY <1>1, ChunkBounds
<1>3. top \in {a, text.size} /\ top <= text.size
  BY <1>1, <1>2, LesserOf
<1>4. top \in Int
  BY <1>1, <1>2, <1>3
<1>5. E \subseteq chunk.start..top /\ \A to \in E : Fits(chunk.start, to)
  BY DEF Ending
<1>. HIDE DEF a, top
<1>6. \A to \in E : to \in Nat /\ chunk.start <= to /\ to <= text.size
  BY <1>1, <1>3, <1>4, <1>5
<1>7. E \subseteq 0..text.size
  BY <1>1, <1>6
<1>8. Max(E) \in E
  BY <1>1, <1>7, GreatestIn
<1>. QED BY <1>5, <1>6, <1>8

LEMMA AdvanceBounds ==
  ASSUME NEW from \in Nat \ {0}, NEW to \in Nat, from <= to
  PROVE  Advance(from, to) \in Nat \ {0} /\ from < Advance(from, to) /\ Advance(from, to) <= to + 1
<1>1. Overlap \in Nat
  BY ChunkBounds
<1>2. Max({from + 1, to + 1 - Overlap}) \in {from + 1, to + 1 - Overlap} /\ from + 1 <= Max({from + 1, to + 1 - Overlap})
  BY <1>1, GreaterOf
<1>. QED BY <1>1, <1>2 DEF Advance

LEMMA CutKeeps == ASSUME ChunkInv, Cut PROVE ChunkInv'
<1>1. ChunkTyped /\ text' = text /\ ~chunk.ended /\ chunk.start <= text.size
  BY DEF ChunkInv, Cut
<1>2. /\ chunk \in ChunkRecords /\ chunk.start \in Nat \ {0} /\ chunk.left \in Int
      /\ text.size \in Nat \ {0} /\ text'.size = text.size
      /\ chunks \in Seq(Pieces) /\ Len(chunks) \in Nat /\ DOMAIN chunks = 1..Len(chunks)
  BY <1>1 DEF ChunkTyped, ChunkRecords
<1>f. \A from, to : Fits(from, to)' <=> Fits(from, to)
  BY <1>1 DEF Fits, Size
<1>3. CASE Ending(chunk.start) = {}
  <2>1. chunk' = [start |-> chunk.start, ended |-> TRUE, left |-> -1] /\ chunks' = chunks
    BY <1>3 DEF Cut
  <2>2. chunk' \in ChunkRecords /\ chunk'.start = chunk.start /\ chunk'.ended /\ chunk'.left = -1
    BY <1>2, <2>1 DEF ChunkRecords
  <2>3. ChunkTyped'
    BY <1>2, <2>1, <2>2 DEF ChunkTyped
  <2>. QED BY <1>f, <1>2, <2>1, <2>2, <2>3 DEF ChunkInv
<1>4. CASE Ending(chunk.start) # {}
  <2>. DEFINE to == Max(Ending(chunk.start))
              start == chunk.start
              next == Advance(start, to)
              n == Len(chunks)
  <2>1. /\ chunks' = Append(chunks, [from |-> start, to |-> to])
        /\ chunk' = [start |-> next, left |-> chunk.left - 1, ended |-> chunk.left = 1 \/ to = text.size]
    BY <1>4 DEF Cut
  <2>2. to \in Nat /\ start <= to /\ to <= text.size /\ Fits(start, to)
    BY <1>1, <1>4, EndingBounds
  <2>3. next \in Nat \ {0} /\ start < next /\ next <= to + 1
    BY <1>2, <2>2, AdvanceBounds
  <2>4. /\ chunk'.start = next /\ chunk'.left = chunk.left - 1
        /\ chunk'.ended = (chunk.left = 1 \/ to = text.size)
        /\ chunk' \in ChunkRecords
    BY <1>2, <2>1, <2>3 DEF ChunkRecords
  <2>. HIDE DEF to, next
  <2>5. /\ chunks' \in Seq(Pieces) /\ Len(chunks') = n + 1 /\ DOMAIN chunks' = 1..(n + 1)
        /\ \A k \in 1..n : chunks'[k] = chunks[k]
        /\ chunks'[n + 1].from = start /\ chunks'[n + 1].to = to
    <3>1. [from |-> start, to |-> to] \in Pieces
      BY <1>2, <2>2 DEF Pieces
    <3>. QED BY <1>2, <2>1, <3>1
  <2>6. ChunkTyped'
    BY <1>2, <2>4, <2>5 DEF ChunkTyped
  <2>7. \A k \in 1..(n + 1) :
          /\ Fits(chunks'[k].from, chunks'[k].to) /\ chunks'[k].from <= chunks'[k].to
          /\ k > 1 => chunks'[k - 1].from < chunks'[k].from /\ chunks'[k].from <= chunks'[k - 1].to + 1
    <3>. TAKE k \in 1..(n + 1)
    <3>1. CASE k \in 1..n
      <4>1. chunks'[k] = chunks[k] /\ (k > 1 => chunks'[k - 1] = chunks[k - 1])
        BY <1>2, <2>5, <3>1
      <4>. QED BY <1>2, <3>1, <4>1 DEF ChunkInv
    <3>2. CASE k = n + 1
      <4>1. Fits(chunks'[k].from, chunks'[k].to) /\ chunks'[k].from <= chunks'[k].to
        BY <2>2, <2>5, <3>2
      <4>2. ASSUME k > 1 PROVE chunks'[k - 1].from < chunks'[k].from /\ chunks'[k].from <= chunks'[k - 1].to + 1
        <5>1. k - 1 = n /\ n > 0 /\ n \in 1..n
          BY <1>2, <3>2, <4>2
        <5>2. chunks[n].from < start /\ start <= chunks[n].to + 1
          BY <1>1, <5>1 DEF ChunkInv
        <5>. QED BY <2>5, <3>2, <5>1, <5>2
      <4>. QED BY <4>1, <4>2
    <3>. QED BY <1>2, <3>1, <3>2
  <2>8. Len(chunks') > 0 /\ chunks'[1].from = 1
    <3>1. CASE n = 0
      BY <2>5, <3>1 DEF ChunkInv
    <3>2. CASE n > 0
      BY <1>2, <2>5, <3>2 DEF ChunkInv
    <3>. QED BY <1>2, <2>5, <3>1, <3>2
  <2>9. chunks'[Len(chunks')].from < chunk'.start /\ chunk'.start <= chunks'[Len(chunks')].to + 1
    BY <2>3, <2>4, <2>5
  <2>10. chunk'.ended /\ chunk'.left > 0 => chunks'[Len(chunks')].to = text'.size
    <3>1. chunk'.ended => chunk.left = 1 \/ to = text.size
      BY <2>4
    <3>2. chunk'.left > 0 => chunk.left # 1
      BY <1>2, <2>4
    <3>3. chunks'[Len(chunks')].to = to
      BY <2>5
    <3>. QED BY <1>2, <3>1, <3>2, <3>3
  <2>. HIDE DEF n, start
  <2>11. (\A k \in DOMAIN chunks :
            /\ Fits(chunks[k].from, chunks[k].to) /\ chunks[k].from <= chunks[k].to
            /\ k > 1 => chunks[k - 1].from < chunks[k].from /\ chunks[k].from <= chunks[k - 1].to + 1)'
    BY <1>f, <2>5, <2>7
  <2>. QED BY <2>6, <2>11, <2>8, <2>9, <2>10 DEF ChunkInv
<1>. QED BY <1>3, <1>4

LEMMA ChunkSteps == ChunkInv /\ [ReadmeNext]_readmeVars => ChunkInv'
<1>. SUFFICES ASSUME ChunkInv, [ReadmeNext]_readmeVars PROVE ChunkInv'
  OBVIOUS
<1>1. CASE Cut
  BY <1>1, CutKeeps
<1>2. CASE UNCHANGED chunkVars
  BY <1>2 DEF ChunkInv, ChunkTyped, chunkVars, Fits, Size
<1>3. CASE ReadLine
  BY <1>2, <1>3 DEF ReadLine
<1>4. CASE UNCHANGED readmeVars
  BY <1>2, <1>4 DEF readmeVars, chunkVars
<1>. QED BY <1>1, <1>3, <1>4 DEF ReadmeNext

(* The chunks fit, leave no gap and reach the end.                         *)
THEOREM ChunksTheorem == ReadmeSpec => []ChunksCover
<1>1. ChunkInv => ChunksCover
  <2>. SUFFICES ASSUME ChunkInv PROVE ChunksCover
    OBVIOUS
  <2>1. Last(chunks) = chunks[Len(chunks)]
    BY DEF Last
  <2>. QED BY <2>1 DEF ChunkInv, ChunksCover
<1>. QED BY <1>1, ChunkStarts, ChunkSteps, PTL DEF ReadmeSpec

-----------------------------------------------------------------------------
(* The sections of a README *)

OwnClasses == Classes \cup {"none"} \cup {l.own : l \in Lines}
Frames == [depth : Nat, class : OwnClasses]
Parts == [class : OwnClasses, lines : SUBSET Nat]
HeadingRecords == [at : Nat \ {0}, depth : Nat, own : OwnClasses]

(* The headings no later one of their depth or above has closed.           *)
OpenIn(hs) == {h \in hs : ~\E g \in hs : g.at > h.at /\ g.depth <= h.depth}
Outer(hs, depth) == {h \in OpenIn(hs) : h.depth < depth}
Within(hs, depth) == {h \in OpenIn(hs) : h.depth <= depth}

OutlineTyped ==
  /\ readme \in Seq(Lines)
  /\ stack \in Seq(Frames) /\ class \in OwnClasses
  /\ body \subseteq 1..Len(readme) /\ paragraph \subseteq 1..Len(readme)
  /\ sections \in Seq(Parts)
  /\ headings \subseteq HeadingRecords

(* Sections, headings, body and paragraph come in this order, and no two   *)
(* headings begin at one line.                                             *)
LinesOrdered ==
  /\ \A h \in headings : h.at <= Len(readme) /\ (\A i \in body : h.at <= i) /\ (\A j \in paragraph : h.at < j)
  /\ \A i \in body, j \in paragraph : i < j
  /\ \A k \in DOMAIN sections : \A i \in sections[k].lines :
       i <= Len(readme) /\ \A j \in body \cup paragraph : i < j
  /\ \A g, h \in headings : g.at = h.at => g = h

(* The stack is the open headings by their depth, each with the class of   *)
(* what is under it and all around it.                                     *)
StackInv ==
  /\ \A k, l \in DOMAIN stack : k < l => stack[k].depth < stack[l].depth
  /\ \A k \in DOMAIN stack : \E h \in OpenIn(headings) : h.depth = stack[k].depth
  /\ \A h \in OpenIn(headings) : \E k \in DOMAIN stack : h.depth = stack[k].depth
  /\ \A k \in DOMAIN stack : stack[k].class = ClassUnder(Within(headings, stack[k].depth))
  /\ class = ClassUnder(OpenIn(headings))

SectionsHold(parts) ==
  /\ \A k \in DOMAIN parts : \A i \in parts[k].lines : Outlined(i) = parts[k].class
  /\ \A j, k \in DOMAIN parts : j # k => parts[j].lines \cap parts[k].lines = {}

OutlineInv == OutlineTyped /\ LinesOrdered /\ StackInv /\ SectionsHold(sections)

-----------------------------------------------------------------------------
(* Headings and the classes they give.                                     *)

(* Of headings at different lines before n, one is the innermost.          *)
LEMMA InnermostOf ==
  ASSUME NEW hs, hs \subseteq HeadingRecords, hs # {}, NEW n \in Nat, \A h \in hs : h.at <= n
  PROVE  (CHOOSE h \in hs : \A g \in hs : g.at <= h.at) \in hs
<1>. DEFINE S == {h.at : h \in hs}
<1>0. \A h \in hs : h.at \in Nat
  BY DEF HeadingRecords
<1>1. S \subseteq 0..n /\ S # {}
  BY <1>0
<1>2. Max(S) \in S /\ \A y \in S : y <= Max(S)
  BY <1>1, GreatestIn
<1>3. PICK h \in hs : h.at = Max(S)
  BY <1>2
<1>4. \A g \in hs : g.at <= h.at
  BY <1>2, <1>3
<1>. QED BY <1>4

LEMMA ClassAfter ==
  ASSUME NEW hs, hs \subseteq HeadingRecords, NEW x \in HeadingRecords, \A h \in hs : h.at < x.at
  PROVE  LET inherited == ClassUnder(hs)
         IN  ClassUnder(hs \cup {x}) =
               IF "omit" \in {inherited, x.own} THEN "omit" ELSE IF x.own = "none" THEN inherited ELSE x.own
<1>. DEFINE owning == {h \in hs : h.own # "none"}
            both == {h \in hs \cup {x} : h.own # "none"}
            inner == CHOOSE h \in owning : \A g \in owning : g.at <= h.at
            inner2 == CHOOSE h \in both : \A g \in both : g.at <= h.at
<1>1. ClassUnder(hs) = IF \E h \in hs : h.own = "omit" THEN "omit" ELSE IF owning = {} THEN "neutral" ELSE inner.own
  BY DEF ClassUnder
<1>2. ClassUnder(hs \cup {x}) =
        IF \E h \in hs \cup {x} : h.own = "omit" THEN "omit" ELSE IF both = {} THEN "neutral" ELSE inner2.own
  BY DEF ClassUnder
<1>3. \A h \in hs : h.at \in Nat /\ h.at <= x.at
  BY DEF HeadingRecords
<1>4. x.at \in Nat
  BY DEF HeadingRecords
<1>5. owning # {} => inner \in owning
  <2>1. owning \subseteq HeadingRecords /\ \A h \in owning : h.at <= x.at
    BY <1>3
  <2>. HIDE DEF owning
  <2>. QED BY <1>4, <2>1, InnermostOf
<1>6. (\E h \in hs : h.own = "omit") <=> ClassUnder(hs) = "omit"
  <2>1. ASSUME ~\E h \in hs : h.own = "omit" PROVE ClassUnder(hs) # "omit"
    <3>1. CASE owning = {}
      BY <1>1, <2>1, <3>1
    <3>2. CASE owning # {}
      <4>1. ClassUnder(hs) = inner.own /\ inner \in owning
        BY <1>1, <1>5, <2>1, <3>2
      <4>. HIDE DEF inner
      <4>. QED BY <2>1, <4>1
    <3>. QED BY <3>1, <3>2
  <2>. QED BY <1>1, <2>1
<1>7. CASE "omit" \in {ClassUnder(hs), x.own}
  BY <1>2, <1>6, <1>7
<1>8. CASE "omit" \notin {ClassUnder(hs), x.own} /\ x.own = "none"
  <2>1. both = owning
    BY <1>8
  <2>2. ~(\E h \in hs \cup {x} : h.own = "omit") /\ ~(\E h \in hs : h.own = "omit")
    BY <1>6, <1>8
  <2>3. inner2 = inner
    BY <2>1
  <2>. HIDE DEF both, owning, inner, inner2
  <2>. QED BY <1>1, <1>2, <1>8, <2>1, <2>2, <2>3
<1>9. CASE "omit" \notin {ClassUnder(hs), x.own} /\ x.own # "none"
  <2>1. ~(\E h \in hs \cup {x} : h.own = "omit")
    BY <1>6, <1>9
  <2>2. x \in both /\ \A g \in both : g.at <= x.at
    BY <1>3, <1>4, <1>9
  <2>3. \A h \in both : (\A g \in both : g.at <= h.at) => h = x
    <3>. SUFFICES ASSUME NEW h \in both, \A g \in both : g.at <= h.at, h # x PROVE FALSE
      OBVIOUS
    <3>1. h \in hs /\ x.at <= h.at
      BY <2>2
    <3>. QED BY <1>3, <1>4, <3>1
  <2>4. inner2 = x
    BY <2>2, <2>3
  <2>. HIDE DEF both, owning, inner, inner2
  <2>. QED BY <1>2, <1>9, <2>1, <2>2, <2>4
<1>. QED BY <1>7, <1>8, <1>9

LEMMA NoHeadings == ClassUnder({}) = "neutral"
BY DEF ClassUnder

(* A heading closes those of its depth and below.                          *)
LEMMA OpenAfter ==
  ASSUME NEW hs, hs \subseteq HeadingRecords, NEW x \in HeadingRecords, \A h \in hs : h.at < x.at
  PROVE  OpenIn(hs \cup {x}) = Outer(hs, x.depth) \cup {x}
<1>0. /\ x.at \in Nat /\ x.depth \in Nat
      /\ \A h \in hs : h.at \in Nat /\ h.depth \in Nat
  BY DEF HeadingRecords
<1>1. ASSUME NEW h \in OpenIn(hs \cup {x}) PROVE h \in Outer(hs, x.depth) \cup {x}
  <2>1. CASE h = x
    BY <2>1
  <2>2. CASE h # x
    <3>1. h \in hs /\ ~\E g \in hs \cup {x} : g.at > h.at /\ g.depth <= h.depth
      BY <1>1, <2>2 DEF OpenIn
    <3>2. h \in OpenIn(hs)
      BY <3>1 DEF OpenIn
    <3>3. ~(x.depth <= h.depth)
      BY <1>0, <3>1
    <3>. QED BY <1>0, <3>1, <3>2, <3>3 DEF Outer
  <2>. QED BY <2>1, <2>2
<1>2. ASSUME NEW h \in Outer(hs, x.depth) PROVE h \in OpenIn(hs \cup {x})
  <2>1. h \in hs /\ h.depth < x.depth /\ ~\E g \in hs : g.at > h.at /\ g.depth <= h.depth
    BY <1>2 DEF Outer, OpenIn
  <2>2. ~(x.depth <= h.depth)
    BY <1>0, <2>1
  <2>. QED BY <2>1, <2>2 DEF OpenIn
<1>3. x \in OpenIn(hs \cup {x})
  <2>1. ASSUME NEW g \in hs \cup {x}, g.at > x.at PROVE FALSE
    BY <1>0, <2>1
  <2>. QED BY <2>1 DEF OpenIn
<1>. QED BY <1>1, <1>2, <1>3

LEMMA AboveAll ==
  ASSUME NEW i, \A h \in headings : h.at <= i
  PROVE  Outlined(i) = ClassUnder(OpenIn(headings))
<1>1. Above(i) = OpenIn(headings)
  BY DEF Above, OpenIn
<1>. QED BY <1>1 DEF Outlined

LEMMA AboveOlder ==
  ASSUME NEW i \in Nat, NEW x, x.at \in Nat, i < x.at, headings' = headings \cup {x}
  PROVE  Outlined(i)' = Outlined(i)
<1>1. ~(x.at <= i)
  OBVIOUS
<1>2. Above(i)' = Above(i)
  BY <1>1 DEF Above
<1>. QED BY <1>2 DEF Outlined, ClassUnder

-----------------------------------------------------------------------------
(* A section that ends, and the heading that ends it.                      *)

LEMMA FlushHolds ==
  ASSUME OutlineInv, NEW lines, lines \subseteq body \cup paragraph
  PROVE  /\ Flushed(lines) \in Seq(Parts)
         /\ SectionsHold(Flushed(lines))
         /\ \A k \in DOMAIN Flushed(lines) : \A i \in Flushed(lines)[k].lines :
              (\E j \in DOMAIN sections : i \in sections[j].lines) \/ i \in lines
<1>1. /\ sections \in Seq(Parts) /\ Len(sections) \in Nat /\ DOMAIN sections = 1..Len(sections)
      /\ class \in OwnClasses /\ SectionsHold(sections)
      /\ lines \subseteq Nat
  BY DEF OutlineInv, OutlineTyped
<1>2. CASE class # "omit" /\ lines # {}
  <2>. DEFINE part == [class |-> class, lines |-> lines]
              m == Len(sections)
              ended == Append(sections, part)
  <2>1. Flushed(lines) = ended
    BY <1>2 DEF Flushed
  <2>2. part \in Parts /\ part.class = class /\ part.lines = lines
    BY <1>1 DEF Parts
  <2>. HIDE DEF part
  <2>3. /\ ended \in Seq(Parts) /\ DOMAIN ended = 1..(m + 1)
        /\ \A k \in 1..m : ended[k] = sections[k]
        /\ ended[m + 1] = part
    BY <1>1, <2>2
  <2>4. \A i \in lines : Outlined(i) = class
    <3>. TAKE i \in lines
    <3>1. i \in Nat /\ \A h \in headings : h.at \in Nat
      BY <1>1 DEF OutlineInv, OutlineTyped, HeadingRecords
    <3>2. \A h \in headings : h.at <= i
      BY <3>1 DEF OutlineInv, LinesOrdered
    <3>. QED BY <3>2, AboveAll DEF OutlineInv, StackInv
  <2>5. \A k \in 1..m : sections[k].lines \cap lines = {}
    <3>. SUFFICES ASSUME NEW k \in 1..m, NEW i \in sections[k].lines, i \in lines PROVE FALSE
      OBVIOUS
    <3>1. i \in Nat
      BY <1>1
    <3>2. i < i
      BY <1>1 DEF OutlineInv, LinesOrdered
    <3>. QED BY <3>1, <3>2
  <2>. HIDE DEF ended
  <2>6. \A k \in DOMAIN ended : \A i \in ended[k].lines : Outlined(i) = ended[k].class
    <3>. TAKE k \in DOMAIN ended
    <3>1. CASE k \in 1..m
      BY <1>1, <2>3, <3>1 DEF SectionsHold
    <3>2. CASE k = m + 1
      BY <2>2, <2>3, <2>4, <3>2
    <3>. QED BY <1>1, <2>3, <3>1, <3>2
  <2>7. \A j, k \in DOMAIN ended : j # k => ended[j].lines \cap ended[k].lines = {}
    <3>. TAKE j, k \in DOMAIN ended
    <3>1. CASE j \in 1..m /\ k \in 1..m
      BY <1>1, <2>3, <3>1 DEF SectionsHold
    <3>2. CASE j = m + 1 /\ k \in 1..m
      BY <2>2, <2>3, <2>5, <3>2
    <3>3. CASE j \in 1..m /\ k = m + 1
      BY <2>2, <2>3, <2>5, <3>3
    <3>. QED BY <1>1, <2>3, <3>1, <3>2, <3>3
  <2>8. \A k \in DOMAIN ended : \A i \in ended[k].lines : (\E j \in DOMAIN sections : i \in sections[j].lines) \/ i \in lines
    BY <1>1, <2>2, <2>3
  <2>. QED BY <2>1, <2>3, <2>6, <2>7, <2>8 DEF SectionsHold
<1>3. CASE ~(class # "omit" /\ lines # {})
  <2>1. Flushed(lines) = sections
    BY <1>3 DEF Flushed
  <2>. QED BY <1>1, <2>1
<1>. QED BY <1>2, <1>3

(* The stack popped to a depth.                                            *)
LEMMA Popping ==
  ASSUME OutlineInv, NEW depth \in Nat
  PROVE  /\ Enclosing(depth) \in Seq(Frames)
         /\ Len(Enclosing(depth)) \in 0..Len(stack)
         /\ \A k \in 1..Len(Enclosing(depth)) : Enclosing(depth)[k] = stack[k] /\ stack[k].depth < depth
         /\ \A k \in DOMAIN stack : k > Len(Enclosing(depth)) => ~(stack[k].depth < depth)
<1>. DEFINE S == {0} \cup {k \in DOMAIN stack : stack[k].depth < depth}
            j == Max(S)
<1>1. stack \in Seq(Frames) /\ Len(stack) \in Nat /\ DOMAIN stack = 1..Len(stack)
  BY DEF OutlineInv, OutlineTyped
<1>2. S \subseteq 0..Len(stack) /\ S # {}
  BY <1>1
<1>3. j \in S /\ \A y \in S : y <= j
  BY <1>1, <1>2, GreatestIn
<1>4. j \in 0..Len(stack)
  BY <1>2, <1>3
<1>5. Enclosing(depth) = SubSeq(stack, 1, j)
  BY DEF Enclosing
<1>6. \A k \in DOMAIN stack : stack[k].depth \in Nat
  <2>1. \A k \in DOMAIN stack : stack[k] \in Frames
    BY <1>1
  <2>. QED BY <2>1 DEF Frames
<1>7. \A k \in 1..j : k \in DOMAIN stack /\ stack[k].depth < depth
  <2>. TAKE k \in 1..j
  <2>1. j \in DOMAIN stack /\ stack[j].depth < depth /\ k \in DOMAIN stack
    BY <1>1, <1>3, <1>4
  <2>2. k = j \/ stack[k].depth < stack[j].depth
    BY <1>4, <2>1 DEF OutlineInv, StackInv
  <2>. QED BY <1>6, <2>1, <2>2
<1>8. \A k \in DOMAIN stack : k > j => ~(stack[k].depth < depth)
  BY <1>1, <1>3, <1>4
<1>. HIDE DEF j
<1>9. /\ SubSeq(stack, 1, j) \in Seq(Frames) /\ Len(SubSeq(stack, 1, j)) = j
      /\ \A k \in 1..j : SubSeq(stack, 1, j)[k] = stack[k]
  BY <1>1, <1>4
<1>. QED BY <1>4, <1>5, <1>7, <1>8, <1>9

(* A section begins at a title: it is one more open heading, the innermost.*)
LEMMA BeginStack ==
  ASSUME OutlineInv, NEW depth \in Nat, NEW own \in OwnClasses, NEW before, NEW title,
         NEW m \in Nat \ {0}, m = Min(title), \A h \in headings : h.at < m,
         BeginSection(depth, own, before, title)
  PROVE  /\ StackInv' /\ stack' \in Seq(Frames) /\ class' \in OwnClasses
         /\ headings' = headings \cup {[at |-> m, depth |-> depth, own |-> own]}
<1>. DEFINE x == [at |-> m, depth |-> depth, own |-> own]
            outer == Enclosing(depth)
            inherited == IF outer = <<>> THEN "neutral" ELSE Last(outer).class
            next == IF "omit" \in {inherited, own} THEN "omit" ELSE IF own = "none" THEN inherited ELSE own
            frame == [depth |-> depth, class |-> next]
            hs == Outer(headings, depth)
            j == Len(outer)
<1>1. headings' = headings \cup {x} /\ class' = next /\ stack' = Append(outer, frame)
  BY DEF BeginSection
<1>2. /\ x \in HeadingRecords /\ x.at = m /\ x.depth = depth /\ x.own = own
      /\ headings \subseteq HeadingRecords
      /\ stack \in Seq(Frames) /\ Len(stack) \in Nat /\ DOMAIN stack = 1..Len(stack)
  BY DEF HeadingRecords, OutlineInv, OutlineTyped
<1>3. /\ outer \in Seq(Frames) /\ j \in 0..Len(stack)
      /\ \A k \in 1..j : outer[k] = stack[k] /\ stack[k].depth < depth
      /\ \A k \in DOMAIN stack : k > j => ~(stack[k].depth < depth)
  BY Popping
<1>4. OpenIn(headings)' = hs \cup {x}
  <2>1. OpenIn(headings \cup {x}) = Outer(headings, x.depth) \cup {x}
    <3>1. \A h \in headings : h.at < x.at
      BY <1>2
    <3>. HIDE DEF x
    <3>. QED BY <1>2, <3>1, OpenAfter
  <2>2. OpenIn(headings)' = OpenIn(headings')
    BY DEF OpenIn
  <2>. QED BY <1>1, <1>2, <2>1, <2>2
<1>5. /\ hs \subseteq OpenIn(headings) /\ hs \subseteq HeadingRecords /\ (\A h \in hs : h.at < x.at /\ h.depth < depth)
      /\ \A h \in OpenIn(headings) : h.depth < depth => h \in hs
  BY <1>2 DEF Outer, OpenIn
<1>6. \A k \in 1..Len(stack) : stack[k] \in Frames /\ stack[k].depth \in Nat /\ stack[k].class \in OwnClasses
  <2>1. \A k \in 1..Len(stack) : stack[k] \in Frames
    BY <1>2
  <2>. QED BY <2>1 DEF Frames
<1>7. inherited = ClassUnder(hs) /\ inherited \in OwnClasses
  <2>1. CASE j = 0
    <3>1. outer = <<>>
      BY <1>3, <2>1
    <3>2. hs = {}
      <4>. SUFFICES ASSUME NEW h \in hs PROVE FALSE
        OBVIOUS
      <4>1. PICK k \in DOMAIN stack : h.depth = stack[k].depth
        BY <1>5 DEF OutlineInv, StackInv
      <4>. QED BY <1>2, <1>3, <1>5, <2>1, <4>1
    <3>. QED BY <3>1, <3>2, NoHeadings DEF OwnClasses, Classes
  <2>2. CASE j # 0
    <3>1. outer # <<>> /\ j \in 1..j /\ j \in DOMAIN stack
      BY <1>2, <1>3, <2>2
    <3>2. Last(outer) = stack[j]
      BY <1>3, <3>1 DEF Last
    <3>3. stack[j].class = ClassUnder(Within(headings, stack[j].depth))
      BY <3>1 DEF OutlineInv, StackInv
    <3>4. Within(headings, stack[j].depth) = hs
      <4>1. ASSUME NEW h \in Within(headings, stack[j].depth) PROVE h \in hs
        <5>1. h \in OpenIn(headings) /\ h.depth <= stack[j].depth /\ stack[j].depth < depth
          BY <1>3, <3>1, <4>1 DEF Within
        <5>2. h.depth \in Nat /\ stack[j].depth \in Nat
          BY <1>2, <1>6, <3>1, <5>1 DEF OpenIn, HeadingRecords
        <5>. QED BY <1>5, <5>1, <5>2
      <4>2. ASSUME NEW h \in hs PROVE h \in Within(headings, stack[j].depth)
        <5>1. h \in OpenIn(headings) /\ h.depth < depth
          BY <1>5
        <5>2. PICK k \in DOMAIN stack : h.depth = stack[k].depth
          BY <5>1 DEF OutlineInv, StackInv
        <5>3. k <= j
          BY <1>2, <1>3, <5>1, <5>2
        <5>4. k = j \/ stack[k].depth < stack[j].depth
          BY <1>2, <1>3, <3>1, <5>3 DEF OutlineInv, StackInv
        <5>5. stack[k].depth <= stack[j].depth
          BY <1>2, <1>6, <3>1, <5>4
        <5>. QED BY <5>1, <5>2, <5>5 DEF Within
      <4>. QED BY <4>1, <4>2
    <3>5. inherited = stack[j].class
      BY <3>1, <3>2
    <3>. QED BY <1>2, <1>6, <3>1, <3>3, <3>4, <3>5
  <2>. QED BY <2>1, <2>2
<1>8. next = ClassUnder(hs \cup {x}) /\ next \in OwnClasses
  <2>1. next \in OwnClasses
    BY <1>7 DEF OwnClasses, Classes
  <2>2. x \in HeadingRecords /\ (\A h \in hs : h.at < x.at) /\ hs \subseteq HeadingRecords
    BY <1>2, <1>5
  <2>3. ClassUnder(hs \cup {x}) =
          IF "omit" \in {ClassUnder(hs), x.own} THEN "omit" ELSE IF x.own = "none" THEN ClassUnder(hs) ELSE x.own
    <3>. HIDE DEF x, hs
    <3>. QED BY <2>2, ClassAfter
  <2>. HIDE DEF inherited
  <2>. QED BY <1>2, <1>7, <2>1, <2>3
<1>9. /\ stack' \in Seq(Frames) /\ DOMAIN stack' = 1..(j + 1) /\ j \in Nat
      /\ \A k \in 1..j : stack'[k] = stack[k]
      /\ stack'[j + 1].depth = depth /\ stack'[j + 1].class = next
  <2>1. frame \in Frames /\ frame.depth = depth /\ frame.class = next
    BY <1>8 DEF Frames
  <2>2. j \in Nat
    BY <1>2, <1>3
  <2>. HIDE DEF frame, next, j, outer
  <2>3. /\ Append(outer, frame) \in Seq(Frames) /\ DOMAIN Append(outer, frame) = 1..(j + 1)
        /\ \A k \in 1..j : Append(outer, frame)[k] = outer[k]
        /\ Append(outer, frame)[j + 1] = frame
    BY <1>3, <2>1, <2>2 DEF j
  <2>. QED BY <1>1, <1>3, <2>1, <2>2, <2>3
<1>c. \A S : ClassUnder(S)' = ClassUnder(S)
  BY DEF ClassUnder
<1>. HIDE DEF x, next, outer, j, inherited, frame, hs
<1>10. \A k \in 1..j : stack'[k].depth \in Nat /\ stack'[k].depth < depth /\ k \in DOMAIN stack
  BY <1>2, <1>3, <1>6, <1>9
<1>11. \A k, l \in DOMAIN stack' : k < l => stack'[k].depth < stack'[l].depth
  <2>. SUFFICES ASSUME NEW k \in DOMAIN stack', NEW l \in DOMAIN stack', k < l PROVE stack'[k].depth < stack'[l].depth
    OBVIOUS
  <2>1. k \in 1..j
    BY <1>9
  <2>2. CASE l \in 1..j
    BY <1>9, <1>10, <2>1, <2>2 DEF OutlineInv, StackInv
  <2>3. CASE l = j + 1
    BY <1>9, <1>10, <2>1, <2>3
  <2>. QED BY <1>9, <2>2, <2>3
<1>12. \A k \in DOMAIN stack' : \E h \in hs \cup {x} : h.depth = stack'[k].depth
  <2>. TAKE k \in DOMAIN stack'
  <2>1. CASE k \in 1..j
    <3>1. PICK h \in OpenIn(headings) : h.depth = stack[k].depth
      BY <1>10, <2>1 DEF OutlineInv, StackInv
    <3>. QED BY <1>5, <1>9, <1>10, <2>1, <3>1
  <2>2. CASE k = j + 1
    BY <1>2, <1>9, <2>2
  <2>. QED BY <1>9, <2>1, <2>2
<1>13. \A h \in hs \cup {x} : \E k \in DOMAIN stack' : h.depth = stack'[k].depth
  <2>. TAKE h \in hs \cup {x}
  <2>1. CASE h = x
    BY <1>2, <1>9, <2>1
  <2>2. CASE h \in hs
    <3>1. PICK k \in DOMAIN stack : h.depth = stack[k].depth
      BY <1>5, <2>2 DEF OutlineInv, StackInv
    <3>2. k \in 1..j
      BY <1>2, <1>3, <1>5, <1>9, <2>2, <3>1
    <3>. QED BY <1>9, <3>1, <3>2
  <2>. QED BY <2>1, <2>2
<1>14. ASSUME NEW k \in DOMAIN stack'
       PROVE  stack'[k].class = ClassUnder({h \in hs \cup {x} : h.depth <= stack'[k].depth})
  <2>1. CASE k \in 1..j
    <3>1. \A h \in hs \cup {x} : h.depth <= stack'[k].depth <=> h \in hs /\ h.depth <= stack'[k].depth
      BY <1>2, <1>10, <2>1
    <3>2. {h \in hs \cup {x} : h.depth <= stack'[k].depth} = {h \in OpenIn(headings) : h.depth <= stack[k].depth}
      <4>1. \A h \in OpenIn(headings) : h.depth <= stack[k].depth => h \in hs
        <5>. SUFFICES ASSUME NEW h \in OpenIn(headings), h.depth <= stack[k].depth PROVE h \in hs
          OBVIOUS
        <5>1. h.depth \in Nat
          BY <1>2 DEF OpenIn, HeadingRecords
        <5>2. h.depth < depth
          BY <1>9, <1>10, <2>1, <5>1
        <5>. QED BY <1>5, <5>2
      <4>. QED BY <1>5, <1>9, <2>1, <3>1, <4>1
    <3>3. Within(headings, stack[k].depth) = {h \in OpenIn(headings) : h.depth <= stack[k].depth}
      BY DEF Within
    <3>4. stack[k].class = ClassUnder(Within(headings, stack[k].depth))
      BY <1>10, <2>1 DEF OutlineInv, StackInv
    <3>. QED BY <1>9, <2>1, <3>2, <3>3, <3>4
  <2>2. CASE k = j + 1
    <3>1. \A h \in hs \cup {x} : h.depth <= depth
      <4>1. \A h \in hs : h.depth \in Nat
        BY <1>5 DEF HeadingRecords
      <4>. QED BY <1>2, <1>5, <4>1
    <3>2. {h \in hs \cup {x} : h.depth <= stack'[k].depth} = hs \cup {x}
      BY <1>9, <2>2, <3>1
    <3>. QED BY <1>8, <1>9, <2>2, <3>2
  <2>. QED BY <1>9, <2>1, <2>2
<1>15. \A d : Within(headings', d) = {h \in hs \cup {x} : h.depth <= d}
  <2>1. OpenIn(headings') = hs \cup {x}
    BY <1>4 DEF OpenIn
  <2>. QED BY <2>1 DEF Within
<1>16. OpenIn(headings') = hs \cup {x}
  BY <1>4 DEF OpenIn
<1>17. \A k \in DOMAIN stack' : stack'[k].class = ClassUnder(Within(headings', stack'[k].depth))
  BY <1>14, <1>15
<1>18. StackInv'
  <2>1. class' = ClassUnder(OpenIn(headings'))
    BY <1>1, <1>8, <1>16
  <2>. QED BY <1>11, <1>12, <1>13, <1>16, <1>17, <2>1 DEF StackInv
<1>. QED BY <1>1, <1>8, <1>9, <1>18 DEF x

-----------------------------------------------------------------------------
(* The lines of a README, one after the other.                             *)

LEMMA BeginKeeps ==
  ASSUME OutlineInv, NEW depth \in Nat, NEW own \in OwnClasses, NEW before, NEW title,
         readme' \in Seq(Lines), Len(readme') = Len(readme) + 1,
         title \subseteq 1..Len(readme'), title # {}, before \subseteq body \cup paragraph,
         \A h \in headings : \A t \in title : h.at < t,
         \A i \in before : \A t \in title : i < t,
         \A k \in DOMAIN sections : \A i \in sections[k].lines : \A t \in title : i < t,
         BeginSection(depth, own, before, title)
  PROVE  OutlineInv'
<1>. DEFINE m == Min(title)
            n == Len(readme)
            x == [at |-> m, depth |-> depth, own |-> own]
            next == class'
<1>1. /\ n \in Nat /\ sections \in Seq(Parts) /\ body \subseteq 1..n /\ paragraph \subseteq 1..n
      /\ headings \subseteq HeadingRecords
  BY DEF OutlineInv, OutlineTyped
<1>2. title \subseteq Nat \ {0} /\ m \in title /\ (\A t \in title : m <= t) /\ m \in Nat \ {0} /\ m <= n + 1
  <2>1. title \in SUBSET Nat /\ \A t \in title : t \in Nat \ {0} /\ t <= n + 1
    BY <1>1
  <2>. QED BY <2>1, LeastOf
<1>. HIDE DEF m
<1>3. /\ StackInv' /\ stack' \in Seq(Frames) /\ class' \in OwnClasses
      /\ headings' = headings \cup {x}
  <2>1. \A h \in headings : h.at < m
    BY <1>2
  <2>. QED BY <1>2, <2>1, BeginStack DEF m
<1>4. x \in HeadingRecords /\ x.at = m
  BY <1>2 DEF HeadingRecords
<1>. HIDE DEF x
<1>5. sections' = Flushed(before) /\ paragraph' = {} /\ body' \subseteq title
  BY DEF BeginSection
<1>6. /\ sections' \in Seq(Parts) /\ SectionsHold(Flushed(before))
      /\ \A k \in DOMAIN sections' : \A i \in sections'[k].lines :
           (\E l \in DOMAIN sections : i \in sections[l].lines) \/ i \in before
  BY <1>5, FlushHolds
<1>7. \A k \in DOMAIN sections' : \A i \in sections'[k].lines : i \in Nat /\ \A t \in title : i < t
  <2>. SUFFICES ASSUME NEW k \in DOMAIN sections', NEW i \in sections'[k].lines PROVE i \in Nat /\ \A t \in title : i < t
    OBVIOUS
  <2>1. sections'[k] \in Parts
    BY <1>6
  <2>2. i \in Nat
    BY <2>1 DEF Parts
  <2>3. CASE i \in before
    BY <2>2, <2>3
  <2>4. CASE \E l \in DOMAIN sections : i \in sections[l].lines
    BY <2>2, <2>4
  <2>. QED BY <1>6, <2>3, <2>4
<1>8. SectionsHold(sections)'
  <2>1. \A k \in DOMAIN sections' : \A i \in sections'[k].lines : Outlined(i)' = sections'[k].class
    <3>. SUFFICES ASSUME NEW k \in DOMAIN sections', NEW i \in sections'[k].lines PROVE Outlined(i)' = sections'[k].class
      OBVIOUS
    <3>1. Outlined(i) = sections'[k].class
      BY <1>5, <1>6 DEF SectionsHold
    <3>2. i \in Nat /\ i < x.at /\ x.at \in Nat
      BY <1>2, <1>4, <1>7
    <3>3. Outlined(i)' = Outlined(i)
      BY <1>3, <3>2, AboveOlder
    <3>. QED BY <3>1, <3>3
  <2>2. \A j, k \in DOMAIN sections' : j # k => sections'[j].lines \cap sections'[k].lines = {}
    BY <1>5, <1>6 DEF SectionsHold
  <2>. QED BY <2>1, <2>2 DEF SectionsHold
<1>9. OutlineTyped'
  BY <1>1, <1>2, <1>3, <1>4, <1>5, <1>6 DEF OutlineTyped
<1>10. LinesOrdered'
  <2>1. \A h \in headings' : h.at \in Nat /\ h.at <= m
    BY <1>1, <1>2, <1>3, <1>4 DEF HeadingRecords
  <2>2. \A h \in headings' : h.at <= Len(readme') /\ (\A i \in body' : h.at <= i) /\ (\A j \in paragraph' : h.at < j)
    <3>. SUFFICES ASSUME NEW h \in headings' PROVE h.at <= Len(readme') /\ (\A i \in body' : h.at <= i)
      BY <1>5
    <3>1. h.at <= Len(readme')
      BY <1>1, <1>2, <2>1
    <3>2. \A i \in body' : i \in Nat /\ m <= i
      BY <1>2, <1>5
    <3>. QED BY <1>2, <2>1, <3>1, <3>2
  <2>3. \A k \in DOMAIN sections' : \A i \in sections'[k].lines :
          i <= Len(readme') /\ \A j \in body' \cup paragraph' : i < j
    <3>. SUFFICES ASSUME NEW k \in DOMAIN sections', NEW i \in sections'[k].lines
                  PROVE  i <= Len(readme') /\ \A j \in body' \cup paragraph' : i < j
      OBVIOUS
    <3>1. i \in Nat /\ (\A t \in title : i < t)
      BY <1>7
    <3>. QED BY <1>1, <1>2, <1>5, <3>1
  <2>4. \A g, h \in headings' : g.at = h.at => g = h
    <3>1. \A h \in headings : h.at \in Nat /\ h.at < m
      BY <1>1, <1>2 DEF HeadingRecords
    <3>2. \A g, h \in headings : g.at = h.at => g = h
      BY DEF OutlineInv, LinesOrdered
    <3>. QED BY <1>2, <1>3, <1>4, <3>1, <3>2
  <2>. QED BY <1>5, <2>2, <2>3, <2>4 DEF LinesOrdered
<1>. QED BY <1>3, <1>8, <1>9, <1>10 DEF OutlineInv

OneMore == readme' \in Seq(Lines) /\ Len(readme') = Here

(* A line that ends no section is after all lines read before it.          *)
LEMMA LineKeeps ==
  ASSUME OutlineInv, OneMore, stack' = stack, class' = class, sections' = sections, headings' = headings,
         \A i \in body' : i \in body \/ i \in paragraph \/ i = Here,
         \A j \in paragraph' : j \in paragraph \/ j = Here,
         body' = body \/ paragraph' = {}
  PROVE  OutlineInv'
<1>. DEFINE n == Len(readme)
<1>1. /\ n \in Nat /\ Here = n + 1 /\ Len(readme') = n + 1
      /\ \A i \in body : i \in Nat /\ 1 <= i /\ i <= n
      /\ \A i \in paragraph : i \in Nat /\ 1 <= i /\ i <= n
  BY DEF OutlineInv, OutlineTyped, Here, OneMore
<1>2. LinesOrdered /\ StackInv /\ SectionsHold(sections)
  BY DEF OutlineInv
<1>3. \A h \in headings : h.at \in Nat
  BY DEF OutlineInv, OutlineTyped, HeadingRecords
<1>4. \A k \in DOMAIN sections : \A i \in sections[k].lines : i \in Nat
  <2>1. \A k \in DOMAIN sections : sections[k] \in Parts
    BY DEF OutlineInv, OutlineTyped
  <2>. QED BY <2>1 DEF Parts
<1>. HIDE DEF n
<1>5. OutlineTyped'
  <2>1. body' \subseteq 1..(n + 1) /\ paragraph' \subseteq 1..(n + 1)
    BY <1>1
  <2>. QED BY <1>1, <2>1 DEF OutlineInv, OutlineTyped, OneMore
<1>6. StackInv'
  BY <1>2 DEF StackInv
<1>7. SectionsHold(sections)'
  <2>1. \A i : Above(i)' = Above(i)
    BY DEF Above
  <2>2. \A i : Outlined(i)' = Outlined(i)
    BY <2>1 DEF Outlined
  <2>. QED BY <1>2, <2>2 DEF SectionsHold
<1>8. \A h \in headings : h.at <= n + 1 /\ (\A i \in body' : h.at <= i) /\ (\A j \in paragraph' : h.at < j)
  <2>. SUFFICES ASSUME NEW h \in headings
                PROVE  h.at <= n + 1 /\ (\A i \in body' : h.at <= i) /\ (\A j \in paragraph' : h.at < j)
    OBVIOUS
  <2>1. h.at \in Nat /\ h.at <= n /\ (\A i \in body : h.at <= i) /\ (\A j \in paragraph : h.at < j)
    BY <1>2, <1>3 DEF LinesOrdered, n
  <2>2. ASSUME NEW i \in body' PROVE h.at <= i
    BY <1>1, <2>1
  <2>3. ASSUME NEW j \in paragraph' PROVE h.at < j
    BY <1>1, <2>1
  <2>. QED BY <1>1, <2>1, <2>2, <2>3
<1>9. \A i \in body', j \in paragraph' : i < j
  <2>. SUFFICES ASSUME body' = body, NEW i \in body, NEW j \in paragraph' PROVE i < j
    OBVIOUS
  <2>1. CASE j \in paragraph
    BY <1>2, <2>1 DEF LinesOrdered
  <2>2. CASE j = Here
    BY <1>1, <2>2
  <2>. QED BY <2>1, <2>2
<1>10. \A k \in DOMAIN sections : \A i \in sections[k].lines : i <= n + 1 /\ \A j \in body' \cup paragraph' : i < j
  <2>. SUFFICES ASSUME NEW k \in DOMAIN sections, NEW i \in sections[k].lines
                PROVE  i <= n + 1 /\ \A j \in body' \cup paragraph' : i < j
    OBVIOUS
  <2>1. i \in Nat /\ i <= n /\ (\A j \in body \cup paragraph : i < j)
    BY <1>2, <1>4 DEF LinesOrdered, n
  <2>2. ASSUME NEW j \in body' \cup paragraph' PROVE i < j
    BY <1>1, <2>1
  <2>. QED BY <1>1, <2>1, <2>2
<1>11. LinesOrdered'
  BY <1>1, <1>2, <1>8, <1>9, <1>10 DEF LinesOrdered
<1>. QED BY <1>5, <1>6, <1>7, <1>11 DEF OutlineInv

LEMMA ReadKeeps == ASSUME OutlineInv, ReadLine PROVE OutlineInv'
<1>. DEFINE n == Len(readme)
<1>1. PICK line \in Lines :
        /\ InsideFence(line) \/ OpenFence(line) \/ Heading(line) \/ Underline(line) \/ Reference(line) \/ Prose(line)
        /\ readme' = Append(readme, line)
  BY DEF ReadLine
<1>2. /\ readme \in Seq(Lines) /\ n \in Nat /\ body \subseteq 1..n /\ paragraph \subseteq 1..n
      /\ headings \subseteq HeadingRecords /\ sections \in Seq(Parts)
  BY DEF OutlineInv, OutlineTyped
<1>3. readme' \in Seq(Lines) /\ Len(readme') = n + 1
  BY <1>1, <1>2
<1>4. line.depth \in Nat /\ line.own \in OwnClasses
  BY ReadmeAssumption DEF OwnClasses
<1>5. \A h \in headings : h.at \in Nat /\ h.at <= n
  BY <1>2 DEF HeadingRecords, OutlineInv, LinesOrdered
<1>6. \A k \in DOMAIN sections : \A i \in sections[k].lines : i \in Nat /\ i <= n /\ \A j \in body \cup paragraph : i < j
  <2>1. \A k \in DOMAIN sections : sections[k] \in Parts
    BY <1>2
  <2>. QED BY <2>1 DEF Parts, OutlineInv, LinesOrdered
<1>7. Here = n + 1 /\ OneMore
  BY <1>3 DEF Here, OneMore
<1>8. ASSUME NEW more, Committed(more), more \subseteq {Here}, UNCHANGED <<stack, class, sections, headings>> PROVE OutlineInv'
  <2>1. (\A i \in body' : i \in body \/ i \in paragraph \/ i = Here) /\ paragraph' = {}
    BY <1>8 DEF Committed
  <2>. QED BY <1>7, <1>8, <2>1, LineKeeps
<1>9. CASE InsideFence(line)
  <2>1. stack' = stack /\ class' = class /\ sections' = sections /\ headings' = headings
    BY <1>9 DEF InsideFence
  <2>2. body' = body /\ paragraph' = paragraph
    BY <1>9 DEF InsideFence
  <2>3. /\ \A i \in body' : i \in body \/ i \in paragraph \/ i = Here
        /\ \A j \in paragraph' : j \in paragraph \/ j = Here
    BY <2>2
  <2>. QED BY <1>7, <2>1, <2>2, <2>3, LineKeeps
<1>10. CASE OpenFence(line)
  BY <1>8, <1>10 DEF OpenFence
<1>11. CASE Heading(line)
  <2>. DEFINE title == {n + 1}
              before == body \cup paragraph
  <2>1. BeginSection(line.depth, line.own, before, title)
    BY <1>7, <1>11 DEF Heading
  <2>2. /\ title \subseteq 1..Len(readme') /\ title # {} /\ before \subseteq body \cup paragraph
        /\ \A h \in headings : \A t \in title : h.at < t
        /\ \A i \in before : \A t \in title : i < t
        /\ \A k \in DOMAIN sections : \A i \in sections[k].lines : \A t \in title : i < t
    BY <1>2, <1>3, <1>5, <1>6
  <2>3. readme' \in Seq(Lines) /\ Len(readme') = Len(readme) + 1
    BY <1>3
  <2>. HIDE DEF title, before, n
  <2>. QED BY <1>4, <2>1, <2>2, <2>3, BeginKeeps
<1>12. CASE Underline(line)
  <2>1. CASE paragraph # {}
    <3>1. BeginSection(line.depth, Titled(paragraph), body, paragraph)
      BY <1>12, <2>1 DEF Underline
    <3>2. Titled(paragraph) \in OwnClasses
      BY DEF Titled, OwnClasses, Classes
    <3>3. /\ paragraph \subseteq 1..Len(readme')
          /\ \A h \in headings : \A t \in paragraph : h.at < t
          /\ \A i \in body : \A t \in paragraph : i < t
          /\ \A k \in DOMAIN sections : \A i \in sections[k].lines : \A t \in paragraph : i < t
      <4>1. paragraph \subseteq 1..Len(readme') BY <1>2, <1>3
      <4>2. /\ \A h \in headings : \A t \in paragraph : h.at < t
            /\ \A i \in body : \A t \in paragraph : i < t
        BY DEF OutlineInv, LinesOrdered
      <4>. QED BY <1>6, <4>1, <4>2
    <3>. QED BY <1>3, <1>4, <2>1, <3>1, <3>2, <3>3, BeginKeeps
  <2>2. CASE paragraph = {}
    <3>1. Committed({}) \/ (paragraph' = {Here} /\ UNCHANGED body)
      BY <1>12, <2>2 DEF Underline
    <3>2. UNCHANGED <<stack, class, sections, headings>>
      BY <1>12, <2>2 DEF Underline
    <3>. QED BY <1>7, <1>8, <3>1, <3>2, LineKeeps
  <2>. QED BY <2>1, <2>2
<1>13. CASE Reference(line)
  <2>1. (\A j \in paragraph' : j \in paragraph \/ j = Here) /\ UNCHANGED <<stack, class, body, sections, headings>>
    BY <1>13 DEF Reference
  <2>. QED BY <1>7, <2>1, LineKeeps
<1>14. CASE Prose(line)
  <2>1. CASE line.kind = "text"
    <3>1. paragraph' = paragraph \cup {Here} /\ UNCHANGED <<stack, class, body, sections, headings>>
      BY <1>14, <2>1 DEF Prose
    <3>. QED BY <1>7, <3>1, LineKeeps
  <2>2. CASE line.kind # "text"
    BY <1>8, <1>14, <2>2 DEF Prose
  <2>. QED BY <2>1, <2>2
<1>. QED BY <1>1, <1>9, <1>10, <1>11, <1>12, <1>13, <1>14

LEMMA OutlineStarts == ReadmeInit => OutlineInv
<1>. SUFFICES ASSUME ReadmeInit PROVE OutlineInv
  OBVIOUS
<1>1. /\ readme = <<>> /\ stack = <<>> /\ class = "neutral" /\ body = {} /\ paragraph = {}
      /\ sections = <<>> /\ headings = {} /\ DOMAIN stack = {} /\ DOMAIN sections = {} /\ Len(readme) = 0
  BY DEF ReadmeInit
<1>2. OpenIn(headings) = {}
  BY <1>1 DEF OpenIn
<1>3. OutlineTyped
  BY <1>1 DEF OutlineTyped, OwnClasses, Classes
<1>. QED BY <1>1, <1>2, <1>3, NoHeadings DEF OutlineInv, LinesOrdered, StackInv, SectionsHold

LEMMA OutlineSteps == OutlineInv /\ [ReadmeNext]_readmeVars => OutlineInv'
<1>. SUFFICES ASSUME OutlineInv, [ReadmeNext]_readmeVars PROVE OutlineInv'
  OBVIOUS
<1>1. CASE ReadLine
  BY <1>1, ReadKeeps
<1>2. CASE UNCHANGED sectionVars
  <2>1. /\ readme' = readme /\ stack' = stack /\ class' = class /\ body' = body /\ paragraph' = paragraph
        /\ sections' = sections /\ headings' = headings
    BY <1>2 DEF sectionVars
  <2>2. \A i : Outlined(i)' = Outlined(i)
    <3>1. \A i : Above(i)' = Above(i)
      BY <2>1 DEF Above
    <3>. QED BY <3>1 DEF Outlined
  <2>3. SectionsHold(sections)'
    BY <2>1, <2>2 DEF SectionsHold, OutlineInv
  <2>4. OutlineTyped' /\ LinesOrdered' /\ StackInv'
    BY <2>1 DEF OutlineInv, OutlineTyped, LinesOrdered, StackInv
  <2>. QED BY <2>3, <2>4 DEF OutlineInv
<1>3. CASE Cut
  BY <1>2, <1>3 DEF Cut
<1>4. CASE UNCHANGED readmeVars
  BY <1>2, <1>4 DEF readmeVars, sectionVars
<1>. QED BY <1>1, <1>3, <1>4 DEF ReadmeNext

(* Whatever headings of either kind, paragraphs, fences and reference      *)
(* definitions follow each other, a section's lines have the class their   *)
(* headings give them, and none is in two sections.                        *)
THEOREM OutlineTheorem == ReadmeSpec => []SectionsOutlined
<1>1. OutlineInv => SectionsOutlined
  <2>. SUFFICES ASSUME OutlineInv PROVE SectionsOutlined
    OBVIOUS
  <2>1. SectionsHold(Ended)
    BY FlushHolds DEF Ended
  <2>. QED BY <2>1 DEF SectionsHold, SectionsOutlined
<1>. QED BY <1>1, OutlineStarts, OutlineSteps, PTL DEF ReadmeSpec

-----------------------------------------------------------------------------
(* The towers of a repository *)

TowerNames == {"readme", "metadata", "topics"}
AllTexts == UNION {{d.metadata, d.topics} \cup {d.readme[k].text : k \in DOMAIN d.readme} : d \in Documents}
Models == {"frozen", "other"}
Encodings == {Encoding(m, x) : m \in Models, x \in AllTexts}

(* The vector a tower is to have.                                          *)
Right(d, m, t) ==
  IF Texts(d, t) = <<>> THEN NoVector
  ELSE Tower(t, [k \in DOMAIN Texts(d, t) |-> Encoding(m, Texts(d, t)[k])], Plan(d, t))

CacheRecords == {[key |-> Key(d, t), vector |-> Right(d, "frozen", t)] : d \in Documents, t \in TowerNames}
TowerValues == {NoVector} \cup {Right(d, m, t) : d \in Documents, m \in Models, t \in TowerNames}
Embeddings ==
  [at : {"idle", "look", "build", "embedded"}, document : Documents, model : Models, next : 1..4,
   vectors : [TowerNames -> TowerValues], missing : SUBSET TowerNames, encoded : Seq(Encodings)]

Distinct(s) == \A j, k \in DOMAIN s : s[j].key = s[k].key => j = k

(* A job that looks has right vectors for the towers it passed, but for    *)
(* those it misses, and what it encoded so far is what it asked for.       *)
JobSound(e) ==
  /\ e \in Embeddings
  /\ e.at = "look" =>
       /\ \A i \in 1..3 : i < e.next =>
            Towers[i] \in e.missing \/ e.vectors[Towers[i]] = Right(e.document, e.model, Towers[i])
       /\ \A i \in 1..3 : e.next <= i => e.vectors[Towers[i]] = NoVector
       /\ \A t \in e.missing : Texts(e.document, t) # <<>>
       /\ e.next <= 3 => e.encoded = <<>>
       /\ Len(e.encoded) <= Len(Inputs(e.document, e.missing))
       /\ \A k \in 1..Len(e.encoded) : e.encoded[k] = Encoding(e.model, Inputs(e.document, e.missing)[k])
  /\ e.at \in {"build", "embedded"} => \A t \in TowerNames : e.vectors[t] = Right(e.document, e.model, t)

CacheSound(s) == s \in Seq(CacheRecords) /\ Len(s) <= CacheEntries /\ Distinct(s)

TowerInv ==
  /\ CacheSound(towers)
  /\ embed \in [EmbedWorkers -> Embeddings]
  /\ \A w \in EmbedWorkers : JobSound(embed[w])

-----------------------------------------------------------------------------
LEMMA TowerFacts ==
  /\ ToSet(Towers) = TowerNames /\ Len(Towers) = 3 /\ DOMAIN Towers = 1..3
  /\ Towers[1] = "readme" /\ Towers[2] = "metadata" /\ Towers[3] = "topics"
  /\ GroupSize \in Nat \ {0} /\ CacheEntries \in Nat \ {0} /\ Documents # {}
<1>1. /\ Len(Towers) = 3 /\ DOMAIN Towers = 1..3
      /\ Towers[1] = "readme" /\ Towers[2] = "metadata" /\ Towers[3] = "topics"
  BY DEF Towers
<1>2. ToSet(Towers) = TowerNames
  <2>1. \A i : i \in 1..3 <=> i = 1 \/ i = 2 \/ i = 3
    OBVIOUS
  <2>. QED BY <1>1, <2>1 DEF ToSet, TowerNames
<1>. QED BY <1>1, <1>2, TowerAssumption

LEMMA TextsTyped ==
  ASSUME NEW d \in Documents, NEW t \in TowerNames
  PROVE  Texts(d, t) \in Seq(AllTexts) /\ Len(Texts(d, t)) \in Nat /\ DOMAIN Texts(d, t) = 1..Len(Texts(d, t))
<1>1. CASE t = "readme"
  <2>1. d.readme \in Seq(ToSet(d.readme))
    BY TowerAssumption
  <2>2. Len(d.readme) \in Nat /\ DOMAIN d.readme = 1..Len(d.readme)
    BY <2>1
  <2>3. Texts(d, t) = [k \in 1..Len(d.readme) |-> d.readme[k].text]
    BY <1>1, <2>2 DEF Texts
  <2>4. \A k \in 1..Len(d.readme) : d.readme[k].text \in AllTexts
    BY <2>2 DEF AllTexts
  <2>. QED BY <2>2, <2>3, <2>4
<1>2. CASE t # "readme"
  <2>1. Texts(d, t) = <<d[t]>> /\ t \in {"metadata", "topics"}
    BY <1>2 DEF Texts, TowerNames
  <2>2. d[t] \in AllTexts
    BY <2>1 DEF AllTexts
  <2>. QED BY <2>1, <2>2
<1>. QED BY <1>1, <1>2

(* A key says all that its vector depends on.                              *)
LEMMA KeyDecides ==
  ASSUME NEW d, NEW t, NEW c, NEW u, NEW m, Key(d, t) = Key(c, u)
  PROVE  Right(d, m, t) = Right(c, m, u)
<1>1. t = u /\ Texts(d, t) = Texts(c, u) /\ Plan(d, t) = Plan(c, u)
  BY DEF Key
<1>. QED BY <1>1 DEF Right

(* What the concatenation q of a and b is.                                  *)
IsJoined(q, a, b) ==
  /\ Len(q) = Len(a) + Len(b) /\ Len(a) \in Nat /\ Len(b) \in Nat
  /\ \A k \in 1..Len(a) : q[k] = a[k]
  /\ \A k \in 1..Len(b) : q[Len(a) + k] = b[k]

LEMMA JoinedTwo ==
  ASSUME NEW E, NEW a \in Seq(E), NEW b \in Seq(E)
  PROVE  a \o b \in Seq(E) /\ IsJoined(a \o b, a, b)
<1>1. Len(a \o b) = Len(a) + Len(b) /\ Len(a) \in Nat /\ Len(b) \in Nat
  OBVIOUS
<1>2. \A k \in 1..Len(a) : (a \o b)[k] = a[k]
  OBVIOUS
<1>3. \A k \in 1..Len(b) : (a \o b)[Len(a) + k] = b[k]
  OBVIOUS
<1>. QED BY <1>1, <1>2, <1>3 DEF IsJoined

LEMMA Joined ==
  ASSUME NEW E, NEW a \in Seq(E), NEW b \in Seq(E), NEW c \in Seq(E)
  PROVE  /\ (a \o b) \o c \in Seq(E) /\ Len((a \o b) \o c) = Len(a) + Len(b) + Len(c)
         /\ \A k \in 1..Len(a) : ((a \o b) \o c)[k] = a[k]
         /\ \A k \in 1..Len(b) : ((a \o b) \o c)[Len(a) + k] = b[k]
         /\ \A k \in 1..Len(c) : ((a \o b) \o c)[Len(a) + Len(b) + k] = c[k]
<1>. DEFINE p == a \o b
            q == p \o c
<1>1. p \in Seq(E)
  BY JoinedTwo
<1>2. IsJoined(p, a, b)
  BY JoinedTwo
<1>. HIDE DEF p
<1>3. q \in Seq(E) /\ IsJoined(q, p, c)
  BY <1>1, JoinedTwo
<1>. HIDE DEF q
<1>4. \A k \in 1..Len(a) : q[k] = a[k]
  BY <1>2, <1>3 DEF IsJoined
<1>5. \A k \in 1..Len(b) : q[Len(a) + k] = b[k]
  <2>. TAKE k \in 1..Len(b)
  <2>1. Len(a) + k \in 1..Len(p)
    BY <1>2 DEF IsJoined
  <2>. QED BY <1>2, <1>3, <2>1 DEF IsJoined
<1>6. Len(q) = Len(a) + Len(b) + Len(c) /\ \A k \in 1..Len(c) : q[Len(a) + Len(b) + k] = c[k]
  BY <1>2, <1>3 DEF IsJoined
<1>. QED BY <1>3, <1>4, <1>5, <1>6 DEF p, q

LEMMA SliceOf ==
  ASSUME NEW E, NEW s \in Seq(E), NEW m \in Nat, NEW n \in Nat, m + n <= Len(s)
  PROVE  /\ SubSeq(s, m + 1, m + n) \in Seq(E) /\ Len(SubSeq(s, m + 1, m + n)) = n
         /\ \A k \in 1..n : SubSeq(s, m + 1, m + n)[k] = s[m + k]
<1>1. Len(s) \in Nat /\ m + 1 \in 1..(Len(s) + 1) /\ m + n \in m..Len(s)
  OBVIOUS
<1>2. Len(SubSeq(s, m + 1, m + n)) = n
  BY <1>1
<1>3. \A k \in 1..n : SubSeq(s, m + 1, m + n)[k] = s[m + k]
  BY <1>1
<1>4. SubSeq(s, m + 1, m + n) \in Seq(E)
  BY <1>1
<1>. QED BY <1>2, <1>3, <1>4

(* Where the texts of a tower are among those asked for.                   *)
LEMMA InputsAt ==
  ASSUME NEW d \in Documents, NEW missing \in SUBSET TowerNames
  PROVE  /\ Inputs(d, missing) \in Seq(AllTexts) /\ Len(Inputs(d, missing)) \in Nat
         /\ \A t \in missing :
              /\ Offset(d, missing, t) \in Nat /\ Offset(d, missing, t) + Len(Texts(d, t)) <= Len(Inputs(d, missing))
              /\ \A k \in 1..Len(Texts(d, t)) : Inputs(d, missing)[Offset(d, missing, t) + k] = Texts(d, t)[k]
<1>. DEFINE a == Asked(d, missing, "readme")
            b == Asked(d, missing, "metadata")
            c == Asked(d, missing, "topics")
            all == (a \o b) \o c
<1>1. a \in Seq(AllTexts) /\ b \in Seq(AllTexts) /\ c \in Seq(AllTexts)
  <2>1. \A t \in TowerNames : Asked(d, missing, t) \in Seq(AllTexts)
    <3>. TAKE t \in TowerNames
    <3>1. Texts(d, t) \in Seq(AllTexts)
      BY TextsTyped
    <3>2. <<>> \in Seq(AllTexts)
      OBVIOUS
    <3>. QED BY <3>1, <3>2 DEF Asked
  <2>. QED BY <2>1 DEF TowerNames
<1>2. Inputs(d, missing) = all
  BY DEF Inputs
<1>3. /\ Offset(d, missing, "readme") = 0 /\ Offset(d, missing, "metadata") = Len(a)
      /\ Offset(d, missing, "topics") = Len(a) + Len(b)
  BY DEF Offset
<1>4. \A t \in missing : Asked(d, missing, t) = Texts(d, t)
  BY DEF Asked
<1>. HIDE DEF a, b, c
<1>5. /\ all \in Seq(AllTexts) /\ Len(all) = Len(a) + Len(b) + Len(c)
      /\ \A k \in 1..Len(a) : all[k] = a[k]
      /\ \A k \in 1..Len(b) : all[Len(a) + k] = b[k]
      /\ \A k \in 1..Len(c) : all[Len(a) + Len(b) + k] = c[k]
  BY <1>1, Joined
<1>6. Len(a) \in Nat /\ Len(b) \in Nat /\ Len(c) \in Nat
  BY <1>1
<1>. HIDE DEF all
<1>7. ASSUME NEW t \in missing
      PROVE  /\ Offset(d, missing, t) \in Nat /\ Offset(d, missing, t) + Len(Texts(d, t)) <= Len(all)
             /\ \A k \in 1..Len(Texts(d, t)) : all[Offset(d, missing, t) + k] = Texts(d, t)[k]
  <2>1. CASE t = "readme"
    BY <1>3, <1>4, <1>5, <1>6, <2>1 DEF a
  <2>2. CASE t = "metadata"
    <3>1. Texts(d, t) = b /\ Offset(d, missing, t) = Len(a)
      BY <1>3, <1>4, <2>2 DEF b
    <3>2. \A k \in 1..Len(b) : all[Len(a) + k] = b[k]
      BY <1>5
    <3>. QED BY <1>5, <1>6, <3>1, <3>2
  <2>3. CASE t = "topics"
    <3>1. Texts(d, t) = c /\ Offset(d, missing, t) = Len(a) + Len(b)
      BY <1>3, <1>4, <2>3 DEF c
    <3>2. \A k \in 1..Len(c) : all[(Len(a) + Len(b)) + k] = c[k]
      BY <1>5
    <3>. QED BY <1>5, <1>6, <3>1, <3>2
  <2>. QED BY <2>1, <2>2, <2>3 DEF TowerNames
<1>. QED BY <1>2, <1>5, <1>6, <1>7

(* The share of a tower, once all is encoded, makes the right vector.      *)
LEMMA DividedRight ==
  ASSUME NEW e, JobSound(e), e.at = "look", e.next > 3,
         Len(e.encoded) = Len(Inputs(e.document, e.missing)), NEW t \in TowerNames
  PROVE  Divided(e, t) = Right(e.document, e.model, t)
<1>1. /\ e.document \in Documents /\ e.missing \in SUBSET TowerNames /\ e.encoded \in Seq(Encodings) /\ e.next \in 1..4
  BY DEF JobSound, Embeddings
<1>2. CASE t \notin e.missing
  <2>1. PICK i \in 1..3 : t = Towers[i]
    BY TowerFacts DEF TowerNames
  <2>2. e.vectors[t] = Right(e.document, e.model, t)
    BY <1>1, <1>2, <2>1 DEF JobSound
  <2>. QED BY <1>2, <2>2 DEF Divided
<1>3. CASE t \in e.missing
  <2>. DEFINE texts == Texts(e.document, t)
              from == Offset(e.document, e.missing, t)
              inputs == Inputs(e.document, e.missing)
              share == SubSeq(e.encoded, from + 1, from + Len(texts))
              own == [k \in DOMAIN texts |-> Encoding(e.model, texts[k])]
  <2>1. /\ texts # <<>> /\ texts \in Seq(AllTexts) /\ Len(texts) \in Nat /\ DOMAIN texts = 1..Len(texts)
    BY <1>1, <1>3, TextsTyped DEF JobSound
  <2>2. /\ Len(inputs) \in Nat /\ from \in Nat /\ from + Len(texts) <= Len(inputs)
        /\ \A k \in 1..Len(texts) : inputs[from + k] = texts[k]
    BY <1>1, <1>3, InputsAt
  <2>3. \A k \in 1..Len(e.encoded) : e.encoded[k] = Encoding(e.model, inputs[k])
    BY DEF JobSound
  <2>4. Len(e.encoded) = Len(inputs)
    OBVIOUS
  <2>5. Divided(e, t) = Tower(t, share, Plan(e.document, t))
    BY <1>3 DEF Divided
  <2>6. Right(e.document, e.model, t) = Tower(t, own, Plan(e.document, t))
    BY <2>1 DEF Right
  <2>. HIDE DEF texts, from, inputs
  <2>7. /\ share \in Seq(Encodings) /\ Len(share) = Len(texts)
        /\ \A k \in 1..Len(texts) : share[k] = e.encoded[from + k]
    BY <1>1, <2>1, <2>2, <2>4, SliceOf
  <2>. HIDE DEF share
  <2>8. \A k \in 1..Len(texts) : share[k] = Encoding(e.model, texts[k])
    <3>. TAKE k \in 1..Len(texts)
    <3>1. from + k \in 1..Len(e.encoded)
      BY <2>1, <2>2, <2>4
    <3>. QED BY <2>2, <2>3, <2>7, <3>1
  <2>9. share = own
    <3>1. share = [k \in 1..Len(share) |-> share[k]]
      BY <2>7
    <3>2. [k \in 1..Len(texts) |-> share[k]] = [k \in 1..Len(texts) |-> Encoding(e.model, texts[k])]
      BY <2>8, Zenon
    <3>3. share = [k \in 1..Len(texts) |-> share[k]]
      BY <2>7, <3>1
    <3>. QED BY <2>1, <3>2, <3>3
  <2>. QED BY <2>5, <2>6, <2>9
<1>. QED BY <1>2, <1>3

-----------------------------------------------------------------------------
(* The cache: a sequence of entries with a key each.                       *)

LEMMA Removed ==
  ASSUME NEW E, NEW s \in Seq(E), Distinct(s), NEW i \in DOMAIN s
  PROVE  /\ RemoveAt(s, i) \in Seq(E) /\ Len(RemoveAt(s, i)) = Len(s) - 1 /\ Distinct(RemoveAt(s, i))
         /\ \A j \in DOMAIN RemoveAt(s, i) : RemoveAt(s, i)[j].key # s[i].key
<1>. DEFINE r == RemoveAt(s, i)
            front == SubSeq(s, 1, i - 1)
            back == SubSeq(s, i + 1, Len(s))
            From(j) == IF j < i THEN j ELSE j + 1
<1>1. Len(s) \in Nat /\ DOMAIN s = 1..Len(s) /\ i \in 1..Len(s)
  OBVIOUS
<1>2. r = front \o back
  BY DEF RemoveAt
<1>3. /\ front \in Seq(E) /\ Len(front) = i - 1
      /\ \A k \in 1..(i - 1) : front[k] = s[k]
  <2>1. 0 + (i - 1) <= Len(s) /\ i - 1 \in Nat
    BY <1>1
  <2>2. /\ SubSeq(s, 0 + 1, 0 + (i - 1)) \in Seq(E) /\ Len(SubSeq(s, 0 + 1, 0 + (i - 1))) = i - 1
        /\ \A k \in 1..(i - 1) : SubSeq(s, 0 + 1, 0 + (i - 1))[k] = s[0 + k]
    BY <2>1, SliceOf
  <2>. QED BY <1>1, <2>2
<1>4. /\ back \in Seq(E) /\ Len(back) = Len(s) - i
      /\ \A k \in 1..(Len(s) - i) : back[k] = s[i + k]
  <2>1. i + (Len(s) - i) <= Len(s) /\ Len(s) - i \in Nat /\ i \in Nat /\ i + (Len(s) - i) = Len(s)
    BY <1>1
  <2>2. /\ SubSeq(s, i + 1, i + (Len(s) - i)) \in Seq(E) /\ Len(SubSeq(s, i + 1, i + (Len(s) - i))) = Len(s) - i
        /\ \A k \in 1..(Len(s) - i) : SubSeq(s, i + 1, i + (Len(s) - i))[k] = s[i + k]
    BY <2>1, SliceOf
  <2>. QED BY <2>1, <2>2
<1>. HIDE DEF front, back
<1>5. r \in Seq(E) /\ IsJoined(r, front, back)
  <2>1. front \in Seq(E) /\ back \in Seq(E)
    BY <1>3, <1>4
  <2>2. front \o back \in Seq(E) /\ IsJoined(front \o back, front, back)
    BY <2>1, JoinedTwo
  <2>. QED BY <1>2, <2>2
<1>. HIDE DEF r
<1>6. Len(r) = Len(s) - 1 /\ DOMAIN r = 1..(Len(s) - 1)
  <2>1. Len(r) = Len(s) - 1
    BY <1>1, <1>3, <1>4, <1>5 DEF IsJoined
  <2>. QED BY <1>5, <2>1
<1>7. \A j \in 1..(Len(s) - 1) : From(j) \in 1..Len(s) /\ From(j) # i /\ r[j] = s[From(j)]
  <2>. TAKE j \in 1..(Len(s) - 1)
  <2>1. CASE j < i
    <3>1. j \in 1..(i - 1) /\ j \in 1..Len(s) /\ j # i
      BY <1>1, <2>1
    <3>2. r[j] = front[j] /\ front[j] = s[j]
      BY <1>3, <1>5, <3>1 DEF IsJoined
    <3>. QED BY <2>1, <3>1, <3>2
  <2>2. CASE ~(j < i)
    <3>1. /\ j - (i - 1) \in 1..(Len(s) - i) /\ (i - 1) + (j - (i - 1)) = j /\ i + (j - (i - 1)) = j + 1
          /\ j + 1 \in 1..Len(s) /\ j + 1 # i
      BY <1>1, <2>2
    <3>2. r[(i - 1) + (j - (i - 1))] = back[j - (i - 1)] /\ back[j - (i - 1)] = s[i + (j - (i - 1))]
      BY <1>3, <1>4, <1>5, <3>1 DEF IsJoined
    <3>3. r[j] = s[j + 1]
      BY <3>1, <3>2
    <3>. QED BY <2>2, <3>1, <3>3
  <2>. QED BY <2>1, <2>2
<1>8. \A j, k \in 1..(Len(s) - 1) : From(j) = From(k) => j = k
  BY <1>1
<1>. HIDE DEF From
<1>9. Distinct(r)
  BY <1>1, <1>6, <1>7, <1>8 DEF Distinct
<1>10. \A j \in DOMAIN r : r[j].key # s[i].key
  BY <1>1, <1>6, <1>7 DEF Distinct
<1>. QED BY <1>5, <1>6, <1>9, <1>10 DEF r

LEMMA Appended ==
  ASSUME NEW E, NEW s \in Seq(E), Distinct(s), NEW e \in E, \A j \in DOMAIN s : s[j].key # e.key
  PROVE  Append(s, e) \in Seq(E) /\ Len(Append(s, e)) = Len(s) + 1 /\ Distinct(Append(s, e))
<1>. DEFINE a == Append(s, e)
            n == Len(s)
<1>1. /\ a \in Seq(E) /\ Len(a) = n + 1 /\ n \in Nat /\ DOMAIN a = 1..(n + 1) /\ DOMAIN s = 1..n
      /\ \A j \in 1..n : a[j] = s[j]
      /\ a[n + 1] = e
  OBVIOUS
<1>. HIDE DEF a, n
<1>2. ASSUME NEW j \in 1..(n + 1), NEW k \in 1..(n + 1), a[j].key = a[k].key PROVE j = k
  <2>1. CASE j \in 1..n /\ k \in 1..n
    BY <1>1, <1>2, <2>1 DEF Distinct
  <2>2. CASE j = n + 1 /\ k \in 1..n
    BY <1>1, <1>2, <2>2
  <2>3. CASE j \in 1..n /\ k = n + 1
    BY <1>1, <1>2, <2>3
  <2>. QED BY <1>1, <2>1, <2>2, <2>3
<1>3. Distinct(a)
  BY <1>1, <1>2 DEF Distinct
<1>. QED BY <1>1, <1>3 DEF a, n

LEMMA RefreshedSound == ASSUME CacheSound(towers), NEW i \in DOMAIN towers PROVE CacheSound(Refreshed(i))
<1>1. towers \in Seq(CacheRecords) /\ Len(towers) <= CacheEntries /\ Distinct(towers) /\ towers[i] \in CacheRecords /\ Len(towers) \in Nat
  BY DEF CacheSound
<1>2. /\ RemoveAt(towers, i) \in Seq(CacheRecords) /\ Len(RemoveAt(towers, i)) = Len(towers) - 1 /\ Distinct(RemoveAt(towers, i))
      /\ \A j \in DOMAIN RemoveAt(towers, i) : RemoveAt(towers, i)[j].key # towers[i].key
  BY <1>1, Removed
<1>3. Append(RemoveAt(towers, i), towers[i]) \in Seq(CacheRecords)
      /\ Len(Append(RemoveAt(towers, i), towers[i])) = Len(RemoveAt(towers, i)) + 1
      /\ Distinct(Append(RemoveAt(towers, i), towers[i]))
  BY <1>1, <1>2, Appended
<1>. QED BY <1>1, <1>2, <1>3 DEF Refreshed, CacheSound

LEMMA LastOf ==
  ASSUME NEW s \in Seq(CacheRecords), Distinct(s), NEW n \in Nat, Len(s) = n + 1
  PROVE  /\ SubSeq(s, 1 + 1, 1 + n) \in Seq(CacheRecords) /\ Distinct(SubSeq(s, 1 + 1, 1 + n))
         /\ Len(SubSeq(s, 1 + 1, 1 + n)) = n
         /\ \A j \in DOMAIN SubSeq(s, 1 + 1, 1 + n) : \E k \in DOMAIN s : SubSeq(s, 1 + 1, 1 + n)[j] = s[k]
<1>. DEFINE r == SubSeq(s, 1 + 1, 1 + n)
<1>1. r \in Seq(CacheRecords) /\ Len(r) = n /\ \A k \in 1..n : r[k] = s[1 + k]
  <2>1. 1 \in Nat /\ 1 + n <= Len(s)
    OBVIOUS
  <2>. QED BY <2>1, SliceOf
<1>. HIDE DEF r
<1>2. DOMAIN r = 1..n /\ DOMAIN s = 1..(n + 1)
  BY <1>1
<1>3. \A k \in 1..n : 1 + k \in DOMAIN s
  BY <1>2
<1>4. \A j, k \in 1..n : 1 + j = 1 + k => j = k
  OBVIOUS
<1>5. ASSUME NEW j \in 1..n, NEW k \in 1..n, r[j].key = r[k].key PROVE j = k
  <2>1. 1 + j \in DOMAIN s /\ 1 + k \in DOMAIN s /\ s[1 + j].key = s[1 + k].key
    BY <1>1, <1>3, <1>5
  <2>2. 1 + j = 1 + k
    BY <2>1 DEF Distinct
  <2>. QED BY <1>4, <2>2
<1>6. Distinct(r)
  BY <1>2, <1>5 DEF Distinct
<1>7. \A j \in DOMAIN r : \E k \in DOMAIN s : r[j] = s[k]
  BY <1>1, <1>2, <1>3
<1>. QED BY <1>1, <1>7, <1>6 DEF r

LEMMA NewestSound ==
  ASSUME NEW s \in Seq(CacheRecords), Distinct(s), Len(s) <= CacheEntries
  PROVE  /\ Newest(s) \in Seq(CacheRecords) /\ Distinct(Newest(s)) /\ Len(Newest(s)) < CacheEntries
         /\ \A j \in DOMAIN Newest(s) : \E k \in DOMAIN s : Newest(s)[j] = s[k]
<1>1. CacheEntries \in Nat \ {0} /\ Len(s) \in Nat /\ Len(s) <= CacheEntries
  BY TowerFacts
<1>2. CASE Len(s) < CacheEntries
  BY <1>1, <1>2 DEF Newest
<1>3. CASE ~(Len(s) < CacheEntries)
  <2>1. PICK n \in Nat : n + 1 = CacheEntries
    <3>1. CacheEntries - 1 \in Nat /\ (CacheEntries - 1) + 1 = CacheEntries
      BY TowerFacts
    <3>. QED BY <3>1
  <2>2. Len(s) = n + 1 /\ Len(s) - CacheEntries + 2 = 1 + 1 /\ Len(s) = 1 + n /\ n < CacheEntries
    BY <1>1, <1>3, <2>1
  <2>3. Newest(s) = SubSeq(s, 1 + 1, 1 + n)
    BY <1>3, <2>2 DEF Newest
  <2>. QED BY <2>2, <2>3, LastOf
<1>. QED BY <1>2, <1>3

LEMMA PutTowerSound ==
  ASSUME CacheSound(towers), NEW k, NEW vector, [key |-> k, vector |-> vector] \in CacheRecords
  PROVE  CacheSound(PutTower(k, vector))
<1>. DEFINE s == Without(k)
            e == [key |-> k, vector |-> vector]
<1>1. towers \in Seq(CacheRecords) /\ Len(towers) <= CacheEntries /\ Distinct(towers) /\ Len(towers) \in Nat /\ CacheEntries \in Nat
  BY TowerFacts DEF CacheSound
<1>2. s \in Seq(CacheRecords) /\ Distinct(s) /\ Len(s) <= CacheEntries /\ \A j \in DOMAIN s : s[j].key # k
  <2>1. CASE Held(k) = {}
    BY <1>1, <2>1 DEF Without, Held
  <2>2. CASE Held(k) # {}
    <3>. DEFINE i == CHOOSE i \in Held(k) : TRUE
    <3>1. i \in DOMAIN towers /\ towers[i].key = k
      BY <2>2 DEF Held
    <3>2. s = RemoveAt(towers, i)
      BY <2>2 DEF Without
    <3>. HIDE DEF i, s
    <3>. QED BY <1>1, <3>1, <3>2, Removed
  <2>. QED BY <2>1, <2>2
<1>. HIDE DEF s
<1>3. /\ Newest(s) \in Seq(CacheRecords) /\ Distinct(Newest(s)) /\ Len(Newest(s)) < CacheEntries
      /\ \A j \in DOMAIN Newest(s) : \E l \in DOMAIN s : Newest(s)[j] = s[l]
  BY <1>2, NewestSound
<1>4. e \in CacheRecords /\ e.key = k
  OBVIOUS
<1>5. \A j \in DOMAIN Newest(s) : Newest(s)[j].key # e.key
  BY <1>2, <1>3
<1>. HIDE DEF e
<1>6. /\ Append(Newest(s), e) \in Seq(CacheRecords) /\ Len(Append(Newest(s), e)) = Len(Newest(s)) + 1
      /\ Distinct(Append(Newest(s), e))
  BY <1>3, <1>4, <1>5, Appended
<1>7. Len(Newest(s)) \in Nat
  BY <1>3
<1>8. PutTower(k, vector) = Append(Newest(s), e)
  BY DEF PutTower, s, e
<1>. QED BY <1>1, <1>3, <1>6, <1>7, <1>8 DEF CacheSound

LEMMA RightValue ==
  ASSUME NEW d \in Documents, NEW m \in Models, NEW t \in TowerNames
  PROVE  Right(d, m, t) \in TowerValues
BY DEF TowerValues

LEMMA NothingYet == NoVectors \in [TowerNames -> TowerValues] /\ <<>> \in Seq(Encodings)
<1>1. NoVectors = [t \in TowerNames |-> NoVector]
  BY TowerFacts DEF NoVectors
<1>2. NoVector \in TowerValues
  BY DEF TowerValues
<1>. QED BY <1>1, <1>2

(* A job that does not look, and claims no vector, is sound.               *)
LEMMA RestSound == ASSUME NEW e \in Embeddings, e.at = "idle" PROVE JobSound(e)
BY DEF JobSound

LEMMA NewJob ==
  ASSUME NEW a \in {"idle", "look", "build"}, NEW d \in Documents, NEW m \in Models,
         NEW v \in [TowerNames -> TowerValues], NEW s \in SUBSET TowerNames
  PROVE  Job(a, d, m, v, s) \in Embeddings
<1>1. <<>> \in Seq(Encodings)
  BY NothingYet
<1>. QED BY <1>1 DEF Job, Embeddings

LEMMA TowerStarts == TowerInit => TowerInv
<1>. SUFFICES ASSUME TowerInit PROVE TowerInv
  OBVIOUS
<1>. DEFINE e == Job("idle", CHOOSE d \in Documents : TRUE, "frozen", NoVectors, {})
<1>1. (CHOOSE d \in Documents : TRUE) \in Documents
  BY TowerFacts
<1>2. e \in Embeddings
  BY <1>1, NothingYet, NewJob DEF Models
<1>3. JobSound(e)
  BY <1>2, RestSound DEF Job
<1>4. embed = [w \in EmbedWorkers |-> e]
  BY DEF TowerInit
<1>5. CacheSound(towers)
  <2>1. towers = <<>>
    BY DEF TowerInit
  <2>2. <<>> \in Seq(CacheRecords) /\ Len(<<>>) = 0 /\ 0 <= CacheEntries
    BY TowerFacts
  <2>3. Distinct(<<>>)
    BY DEF Distinct
  <2>. QED BY <2>1, <2>2, <2>3 DEF CacheSound
<1>. HIDE DEF e
<1>. QED BY <1>2, <1>3, <1>4, <1>5 DEF TowerInv

(* One job goes on, the others do not.                                     *)
LEMMA OneJob ==
  ASSUME TowerInv, NEW w \in EmbedWorkers, NEW e, embed' = [embed EXCEPT ![w] = e], JobSound(e), CacheSound(towers)'
  PROVE  TowerInv'
<1>1. e \in Embeddings
  BY DEF JobSound
<1>2. embed' \in [EmbedWorkers -> Embeddings]
  BY <1>1 DEF TowerInv
<1>3. \A v \in EmbedWorkers : JobSound(embed'[v])
  <2>. TAKE v \in EmbedWorkers
  <2>1. CASE v = w
    BY <2>1 DEF TowerInv
  <2>2. CASE v # w
    <3>1. embed'[v] = embed[v]
      BY <2>2 DEF TowerInv
    <3>. QED BY <3>1 DEF TowerInv
  <2>. QED BY <2>1, <2>2
<1>4. (\A v \in EmbedWorkers : JobSound(embed[v]))'
  BY <1>3 DEF JobSound
<1>. QED BY <1>2, <1>4 DEF TowerInv

LEMMA CacheKept == ASSUME CacheSound(towers), towers' = towers PROVE CacheSound(towers)'
BY DEF CacheSound

LEMMA JobTyped ==
  ASSUME TowerInv, NEW w \in EmbedWorkers
  PROVE  /\ JobSound(embed[w]) /\ embed[w] \in Embeddings
         /\ embed[w].document \in Documents /\ embed[w].model \in Models /\ embed[w].next \in 1..4
         /\ embed[w].vectors \in [TowerNames -> TowerValues] /\ embed[w].missing \in SUBSET TowerNames
         /\ embed[w].encoded \in Seq(Encodings)
BY DEF TowerInv, Embeddings

LEMMA StartTowers == ASSUME TowerInv, NEW w \in EmbedWorkers, StartEmbedding(w) PROVE TowerInv'
<1>1. PICK d \in Documents, model \in {"frozen", "other"} :
        embed' = [embed EXCEPT ![w] = Job("look", d, model, NoVectors, {})]
  BY DEF StartEmbedding
<1>. DEFINE e == Job("look", d, model, NoVectors, {})
<1>2. e \in Embeddings
  BY NothingYet, NewJob DEF Models
<1>3. /\ e.at = "look" /\ e.next = 1 /\ e.missing = {} /\ e.encoded = <<>> /\ e.document = d /\ Len(e.encoded) = 0
      /\ e.vectors = NoVectors
  BY DEF Job
<1>4. embed' = [embed EXCEPT ![w] = e]
  BY <1>1
<1>. HIDE DEF e
<1>5. Len(Inputs(e.document, e.missing)) \in Nat
  BY <1>3, InputsAt
<1>8. \A i \in 1..3 : e.vectors[Towers[i]] = NoVector
  BY <1>3, TowerFacts DEF NoVectors, TowerNames
<1>6. JobSound(e)
  BY <1>2, <1>3, <1>5, <1>8 DEF JobSound
<1>7. CacheSound(towers)'
  BY CacheKept DEF StartEmbedding, TowerInv
<1>. QED BY <1>4, <1>6, <1>7, OneJob

(* A job that looked for one more tower.                                   *)
LEMMA LookedOn ==
  ASSUME NEW f, JobSound(f), f.at = "look", f.next <= 3, NEW e \in Embeddings, e.at = "look", e.document = f.document,
         e.model = f.model, e.next = f.next + 1, e.encoded = f.encoded,
         \A i \in 1..3 : i < e.next => Towers[i] \in e.missing \/ e.vectors[Towers[i]] = Right(e.document, e.model, Towers[i]),
         \A i \in 1..3 : e.next <= i => e.vectors[Towers[i]] = NoVector,
         \A t \in e.missing : Texts(e.document, t) # <<>>
  PROVE  JobSound(e)
<1>1. e.encoded = <<>>
  BY DEF JobSound
<1>2. e.document \in Documents /\ e.missing \in SUBSET TowerNames
  BY DEF Embeddings
<1>3. Len(Inputs(e.document, e.missing)) \in Nat
  BY <1>2, InputsAt
<1>4. Len(e.encoded) = 0
  BY <1>1
<1>5. Len(e.encoded) <= Len(Inputs(e.document, e.missing))
  BY <1>3, <1>4
<1>6. \A k \in 1..Len(e.encoded) : e.encoded[k] = Encoding(e.model, Inputs(e.document, e.missing)[k])
  BY <1>4
<1>. QED BY <1>1, <1>5, <1>6 DEF JobSound

(* What a job finds under a key is what it would have made.                *)
LEMMA HitRight ==
  ASSUME CacheSound(towers), NEW i \in DOMAIN towers, NEW d, NEW t, towers[i].key = Key(d, t)
  PROVE  towers[i].vector = Right(d, "frozen", t)
<1>1. towers[i] \in CacheRecords
  BY DEF CacheSound
<1>2. PICK c \in Documents, u \in TowerNames : towers[i] = [key |-> Key(c, u), vector |-> Right(c, "frozen", u)]
  BY <1>1 DEF CacheRecords
<1>3. Key(d, t) = Key(c, u) /\ towers[i].vector = Right(c, "frozen", u)
  BY <1>2
<1>. QED BY <1>3, KeyDecides

LEMMA LookTowers == ASSUME TowerInv, NEW w \in EmbedWorkers, Look(w) PROVE TowerInv'
<1>. DEFINE f == embed[w]
            n == f.next
            t == Towers[n]
            d == f.document
            hits == IF f.model = "frozen" THEN Held(Key(d, t)) ELSE {}
<1>1. /\ JobSound(f) /\ f \in Embeddings /\ d \in Documents /\ f.model \in Models
      /\ f.vectors \in [TowerNames -> TowerValues] /\ f.missing \in SUBSET TowerNames /\ n \in 1..3 /\ f.at = "look"
      /\ f.encoded \in Seq(Encodings)
  BY JobTyped, TowerFacts DEF Look
<1>2. t \in TowerNames /\ \A i \in 1..3 : i # n => Towers[i] # t
  BY <1>1, TowerFacts DEF TowerNames
<1>3. /\ \A i \in 1..3 : i < n => Towers[i] \in f.missing \/ f.vectors[Towers[i]] = Right(d, f.model, Towers[i])
      /\ \A i \in 1..3 : n <= i => f.vectors[Towers[i]] = NoVector
      /\ \A u \in f.missing : Texts(d, u) # <<>>
  BY <1>1 DEF JobSound
<1>4. CacheSound(towers) /\ embed \in [EmbedWorkers -> Embeddings]
  BY DEF TowerInv
<1>5. \/ /\ Texts(d, t) = <<>>
         /\ embed' = [embed EXCEPT ![w].next = @ + 1] /\ UNCHANGED towers
      \/ /\ Texts(d, t) # <<>> /\ hits = {}
         /\ embed' = [embed EXCEPT ![w].next = @ + 1, ![w].missing = @ \cup {t}] /\ UNCHANGED towers
      \/ /\ Texts(d, t) # <<>>
         /\ \E i \in hits :
              /\ embed' = [embed EXCEPT ![w].next = @ + 1, ![w].vectors[t] = towers[i].vector]
              /\ towers' = Refreshed(i)
  BY DEF Look, Document
<1>6. n + 1 \in 1..4 /\ (\A i \in 1..3 : i < n + 1 <=> i < n \/ i = n) /\ (\A i \in 1..3 : n + 1 <= i => n <= i /\ i # n)
  BY <1>1
<1>. HIDE DEF t, hits
<1>7. CASE Texts(d, t) = <<>> /\ embed' = [embed EXCEPT ![w].next = @ + 1] /\ UNCHANGED towers
  <2>. DEFINE e == [f EXCEPT !.next = @ + 1]
  <2>1. embed' = [embed EXCEPT ![w] = e]
    BY <1>4, <1>7
  <2>2. /\ e \in Embeddings /\ e.at = f.at /\ e.document = d /\ e.model = f.model /\ e.next = n + 1
        /\ e.encoded = f.encoded /\ e.vectors = f.vectors /\ e.missing = f.missing
    BY <1>1, <1>6 DEF Embeddings
  <2>. HIDE DEF e, f, n, d
  <2>3. f.vectors[t] = Right(d, f.model, t)
    <3>1. f.vectors[t] = NoVector
      BY <1>1, <1>3 DEF t
    <3>. QED BY <1>7, <3>1 DEF Right
  <2>4. \A i \in 1..3 : i < n + 1 => Towers[i] \in e.missing \/ e.vectors[Towers[i]] = Right(d, f.model, Towers[i])
    BY <1>3, <1>6, <2>2, <2>3 DEF t
  <2>5. \A i \in 1..3 : n + 1 <= i => e.vectors[Towers[i]] = NoVector
    BY <1>3, <1>6, <2>2
  <2>6. JobSound(e)
    BY <1>1, <1>3, <2>2, <2>4, <2>5, LookedOn DEF n, d
  <2>7. CacheSound(towers)'
    BY <1>4, <1>7, CacheKept
  <2>. QED BY <2>1, <2>6, <2>7, OneJob
<1>8. CASE /\ Texts(d, t) # <<>>
           /\ embed' = [embed EXCEPT ![w].next = @ + 1, ![w].missing = @ \cup {t}] /\ UNCHANGED towers
  <2>. DEFINE e == [f EXCEPT !.next = @ + 1, !.missing = @ \cup {t}]
  <2>1. embed' = [embed EXCEPT ![w] = e]
    BY <1>4, <1>8
  <2>2. /\ e \in Embeddings /\ e.at = f.at /\ e.document = d /\ e.model = f.model /\ e.next = n + 1
        /\ e.encoded = f.encoded /\ e.vectors = f.vectors /\ e.missing = f.missing \cup {t}
    BY <1>1, <1>2, <1>6 DEF Embeddings
  <2>. HIDE DEF e, f, n, d
  <2>4. \A i \in 1..3 : i < n + 1 => Towers[i] \in e.missing \/ e.vectors[Towers[i]] = Right(d, f.model, Towers[i])
    BY <1>3, <1>6, <2>2 DEF t
  <2>5. \A i \in 1..3 : n + 1 <= i => e.vectors[Towers[i]] = NoVector
    BY <1>3, <1>6, <2>2
  <2>3. \A u \in e.missing : Texts(d, u) # <<>>
    BY <1>3, <1>8, <2>2
  <2>6. JobSound(e)
    BY <1>1, <2>2, <2>3, <2>4, <2>5, LookedOn DEF n, d
  <2>7. CacheSound(towers)'
    BY <1>4, <1>8, CacheKept
  <2>. QED BY <2>1, <2>6, <2>7, OneJob
<1>9. CASE /\ Texts(d, t) # <<>>
           /\ \E i \in hits :
                /\ embed' = [embed EXCEPT ![w].next = @ + 1, ![w].vectors[t] = towers[i].vector]
                /\ towers' = Refreshed(i)
  <2>1. PICK i \in hits : /\ embed' = [embed EXCEPT ![w].next = @ + 1, ![w].vectors[t] = towers[i].vector]
                          /\ towers' = Refreshed(i)
    BY <1>9
  <2>2. f.model = "frozen" /\ i \in DOMAIN towers /\ towers[i].key = Key(d, t)
    BY <2>1 DEF hits, Held
  <2>3. towers[i].vector = Right(d, f.model, t)
    BY <1>4, <2>2, HitRight
  <2>. DEFINE v == towers[i].vector
              e == [f EXCEPT !.next = @ + 1, !.vectors[t] = v]
  <2>4. v \in TowerValues
    BY <1>1, <1>2, <2>3, RightValue
  <2>5. embed' = [embed EXCEPT ![w] = e]
    BY <1>4, <2>1
  <2>. HIDE DEF v
  <2>6. /\ e \in Embeddings /\ e.at = f.at /\ e.document = d /\ e.model = f.model /\ e.next = n + 1
        /\ e.encoded = f.encoded /\ e.vectors = [f.vectors EXCEPT ![t] = v] /\ e.missing = f.missing
    BY <1>1, <1>2, <1>6, <2>4 DEF Embeddings
  <2>. HIDE DEF e, f, n, d
  <2>7. e.vectors[t] = Right(d, f.model, t) /\ \A u \in TowerNames : u # t => e.vectors[u] = f.vectors[u]
    BY <1>1, <1>2, <2>3, <2>6 DEF v
  <2>8. \A j \in 1..3 : Towers[j] \in TowerNames
    BY TowerFacts DEF TowerNames
  <2>9. \A j \in 1..3 : j < n + 1 => Towers[j] \in e.missing \/ e.vectors[Towers[j]] = Right(d, f.model, Towers[j])
    BY <1>2, <1>3, <1>6, <2>6, <2>7, <2>8 DEF t
  <2>10. \A j \in 1..3 : n + 1 <= j => e.vectors[Towers[j]] = NoVector
    BY <1>2, <1>3, <1>6, <2>7, <2>8
  <2>11. JobSound(e)
    <3>1. /\ JobSound(f) /\ f.at = "look" /\ f.next <= 3 /\ e \in Embeddings /\ e.at = "look" /\ e.document = f.document
          /\ e.model = f.model /\ e.next = f.next + 1 /\ e.encoded = f.encoded
      BY <1>1, <2>6 DEF n, d
    <3>2. \A j \in 1..3 : j < e.next => Towers[j] \in e.missing \/ e.vectors[Towers[j]] = Right(e.document, e.model, Towers[j])
      BY <2>6, <2>9
    <3>3. \A j \in 1..3 : e.next <= j => e.vectors[Towers[j]] = NoVector
      BY <2>6, <2>10
    <3>4. \A u \in e.missing : Texts(e.document, u) # <<>>
      BY <1>3, <2>6
    <3>. QED BY <3>1, <3>2, <3>3, <3>4, LookedOn
  <2>12. CacheSound(towers)'
    <3>1. CacheSound(towers')
      BY <1>4, <2>1, <2>2, RefreshedSound
    <3>. QED BY <3>1 DEF CacheSound
  <2>. QED BY <2>5, <2>11, <2>12, OneJob
<1>. QED BY <1>5, <1>7, <1>8, <1>9


(* A group of texts encoded.                                               *)
LEMMA EncodeTowers == ASSUME TowerInv, NEW w \in EmbedWorkers, Encode(w) PROVE TowerInv'
<1>. DEFINE f == embed[w]
            inputs == Inputs(f.document, f.missing)
            from == Len(f.encoded)
            count == IF from + GroupSize < Len(inputs) THEN GroupSize ELSE Len(inputs) - from
            more == [k \in 1..count |-> Encoding(f.model, inputs[from + k])]
            e == [f EXCEPT !.encoded = @ \o more]
<1>1. /\ JobSound(f) /\ f \in Embeddings /\ f.document \in Documents /\ f.model \in Models
      /\ f.missing \in SUBSET TowerNames /\ f.next \in 1..4 /\ f.encoded \in Seq(Encodings)
  BY JobTyped
<1>2. f.at = "look" /\ f.next > 3 /\ from < Len(inputs) /\ towers' = towers
  BY TowerFacts DEF Encode, Document
<1>3. embed' = [embed EXCEPT ![w] = e]
  BY DEF Encode, Document, TowerInv
<1>4. inputs \in Seq(AllTexts) /\ Len(inputs) \in Nat
  BY <1>1, InputsAt
<1>5. from \in Nat /\ DOMAIN f.encoded = 1..from
  BY <1>1
<1>6. \A k \in 1..from : f.encoded[k] = Encoding(f.model, inputs[k])
  BY <1>1, <1>2 DEF JobSound
<1>7. CacheSound(towers)'
  BY <1>2, CacheKept DEF TowerInv
<1>8. \A k \in 1..Len(inputs) : Encoding(f.model, inputs[k]) \in Encodings
  BY <1>1, <1>4 DEF Encodings
<1>9. e.at = f.at /\ e.document = f.document /\ e.model = f.model /\ e.next = f.next /\ e.vectors = f.vectors /\ e.missing = f.missing
      /\ e.encoded = f.encoded \o more
  BY <1>1 DEF Embeddings
<1>10. f.encoded \o more \in Seq(Encodings) => e \in Embeddings
  BY <1>1 DEF Embeddings
<1>. HIDE DEF e, inputs, from
<1>11. count \in Nat /\ from + count <= Len(inputs)
  BY <1>2, <1>4, <1>5, TowerFacts
<1>. HIDE DEF count
<1>12. \A k \in 1..count : from + k \in 1..Len(inputs)
  BY <1>4, <1>5, <1>11
<1>13. more \in Seq(Encodings) /\ Len(more) = count /\ \A k \in 1..count : more[k] = Encoding(f.model, inputs[from + k])
  BY <1>8, <1>11, <1>12
<1>. HIDE DEF more
<1>14. f.encoded \o more \in Seq(Encodings) /\ IsJoined(f.encoded \o more, f.encoded, more)
  BY <1>1, <1>13, JoinedTwo
<1>15. e \in Embeddings
  BY <1>10, <1>14
<1>16. IsJoined(e.encoded, f.encoded, more) /\ Len(f.encoded) = from
  BY <1>9, <1>14 DEF from
<1>17. Len(e.encoded) = from + count
  BY <1>13, <1>16 DEF IsJoined
<1>18. \A k \in 1..Len(e.encoded) : e.encoded[k] = Encoding(f.model, inputs[k])
  <2>. TAKE k \in 1..Len(e.encoded)
  <2>1. CASE k <= from
    <3>1. k \in 1..from
      BY <1>5, <1>11, <1>17, <2>1
    <3>. QED BY <1>6, <1>16, <3>1 DEF IsJoined
  <2>2. CASE ~(k <= from)
    <3>1. k - from \in 1..count /\ from + (k - from) = k
      BY <1>5, <1>11, <1>17, <2>2
    <3>2. e.encoded[from + (k - from)] = more[k - from] /\ more[k - from] = Encoding(f.model, inputs[from + (k - from)])
      BY <1>13, <1>16, <3>1 DEF IsJoined
    <3>. QED BY <3>1, <3>2
  <2>. QED BY <2>1, <2>2
<1>19. /\ ~(f.next <= 3) /\ Len(e.encoded) <= Len(inputs)
  BY <1>1, <1>2, <1>11, <1>17
<1>20. JobSound(e)
  <2>1. inputs = Inputs(e.document, e.missing)
    BY <1>9 DEF inputs
  <2>2. /\ Len(e.encoded) <= Len(Inputs(e.document, e.missing))
        /\ \A k \in 1..Len(e.encoded) : e.encoded[k] = Encoding(e.model, Inputs(e.document, e.missing)[k])
    BY <1>9, <1>18, <1>19, <2>1
  <2>3. /\ \A i \in 1..3 : i < e.next => Towers[i] \in e.missing \/ e.vectors[Towers[i]] = Right(e.document, e.model, Towers[i])
        /\ \A i \in 1..3 : e.next <= i => e.vectors[Towers[i]] = NoVector
        /\ \A t \in e.missing : Texts(e.document, t) # <<>>
    BY <1>1, <1>2, <1>9 DEF JobSound
  <2>4. ~(e.next <= 3) /\ e.at = "look"
    BY <1>2, <1>9, <1>19
  <2>. QED BY <1>15, <2>2, <2>3, <2>4 DEF JobSound
<1>. QED BY <1>3, <1>7, <1>20, OneJob

LEMMA FailTowers == ASSUME TowerInv, NEW w \in EmbedWorkers, FailEncoding(w) PROVE TowerInv'
<1>. DEFINE f == embed[w]
            e == Job("idle", f.document, f.model, NoVectors, {})
<1>1. f.document \in Documents /\ f.model \in Models
  BY JobTyped
<1>2. embed' = [embed EXCEPT ![w] = e]
  BY DEF FailEncoding, Document
<1>3. e \in Embeddings
  BY <1>1, NothingYet, NewJob
<1>4. JobSound(e)
  BY <1>3, RestSound DEF Job
<1>5. CacheSound(towers)'
  BY CacheKept DEF FailEncoding, TowerInv
<1>. QED BY <1>2, <1>4, <1>5, OneJob

LEMMA DivideTowers == ASSUME TowerInv, NEW w \in EmbedWorkers, Divide(w) PROVE TowerInv'
<1>. DEFINE f == embed[w]
            vectors == [t \in ToSet(Towers) |-> Divided(f, t)]
            e == Job("build", f.document, f.model, vectors, f.missing)
<1>1. JobSound(f) /\ f.document \in Documents /\ f.model \in Models /\ f.missing \in SUBSET TowerNames
  BY JobTyped
<1>2. f.at = "look" /\ f.next > 3 /\ Len(f.encoded) = Len(Inputs(f.document, f.missing)) /\ towers' = towers
  BY TowerFacts DEF Divide, Document
<1>3. embed' = [embed EXCEPT ![w] = e]
  BY DEF Divide, Document
<1>4. \A t \in TowerNames : Divided(f, t) = Right(f.document, f.model, t)
  BY <1>1, <1>2, DividedRight
<1>5. vectors \in [TowerNames -> TowerValues] /\ \A t \in TowerNames : vectors[t] = Right(f.document, f.model, t)
  BY <1>1, <1>4, TowerFacts, RightValue
<1>. HIDE DEF vectors
<1>6. e \in Embeddings
  BY <1>1, <1>5, NewJob
<1>7. e.at = "build" /\ e.vectors = vectors /\ e.document = f.document /\ e.model = f.model
  BY DEF Job
<1>. HIDE DEF e
<1>8. JobSound(e)
  BY <1>5, <1>6, <1>7 DEF JobSound
<1>9. CacheSound(towers)'
  BY <1>2, CacheKept DEF TowerInv
<1>. QED BY <1>3, <1>8, <1>9, OneJob

LEMMA PublishTowers == ASSUME TowerInv, NEW w \in EmbedWorkers, PublishVectors(w) PROVE TowerInv'
<1>. DEFINE f == embed[w]
<1>1. /\ JobSound(f) /\ f \in Embeddings /\ f.document \in Documents /\ f.model \in Models
      /\ f.missing \in SUBSET TowerNames
  BY JobTyped
<1>2. f.at = "build" /\ \A t \in TowerNames : f.vectors[t] = Right(f.document, f.model, t)
  BY <1>1 DEF PublishVectors, JobSound
<1>3. CASE /\ f.model = "frozen"
           /\ \E t \in f.missing :
                /\ towers' = PutTower(Key(f.document, t), f.vectors[t])
                /\ embed' = [embed EXCEPT ![w].missing = @ \ {t}]
  <2>1. PICK t \in f.missing : /\ towers' = PutTower(Key(f.document, t), f.vectors[t])
                               /\ embed' = [embed EXCEPT ![w].missing = @ \ {t}]
    BY <1>3
  <2>. DEFINE e == [f EXCEPT !.missing = @ \ {t}]
  <2>2. embed' = [embed EXCEPT ![w] = e]
    BY <2>1 DEF TowerInv
  <2>3. t \in TowerNames /\ f.vectors[t] = Right(f.document, "frozen", t)
    BY <1>1, <1>2, <1>3
  <2>4. [key |-> Key(f.document, t), vector |-> f.vectors[t]] \in CacheRecords
    BY <1>1, <2>3 DEF CacheRecords
  <2>5. CacheSound(towers')
    BY <2>1, <2>4, PutTowerSound DEF TowerInv
  <2>6. e \in Embeddings /\ e.at = "build" /\ e.vectors = f.vectors /\ e.document = f.document /\ e.model = f.model
    BY <1>1, <1>2 DEF Embeddings
  <2>. HIDE DEF e
  <2>7. JobSound(e)
    BY <1>2, <2>6 DEF JobSound
  <2>8. CacheSound(towers)'
    BY <2>5 DEF CacheSound
  <2>. QED BY <2>2, <2>7, <2>8, OneJob
<1>4. CASE embed' = [embed EXCEPT ![w].at = "embedded", ![w].missing = {}] /\ towers' = towers
  <2>. DEFINE e == [f EXCEPT !.at = "embedded", !.missing = {}]
  <2>1. embed' = [embed EXCEPT ![w] = e]
    BY <1>4 DEF TowerInv
  <2>2. e \in Embeddings /\ e.at = "embedded" /\ e.vectors = f.vectors /\ e.document = f.document /\ e.model = f.model
    BY <1>1, <1>2 DEF Embeddings
  <2>. HIDE DEF e
  <2>3. JobSound(e)
    BY <1>2, <2>2 DEF JobSound
  <2>4. CacheSound(towers)'
    BY <1>4, CacheKept DEF TowerInv
  <2>. QED BY <2>1, <2>3, <2>4, OneJob
<1>. QED BY <1>3, <1>4 DEF PublishVectors, Document

LEMMA TowerStutter == ASSUME TowerInv, UNCHANGED towerVars PROVE TowerInv'
BY DEF TowerInv, towerVars, CacheSound, JobSound

LEMMA TowersInvariant == TowerSpec => []TowerInv
<1>1. TowerInv /\ [TowerNext]_towerVars => TowerInv'
  <2>. SUFFICES ASSUME TowerInv, [TowerNext]_towerVars PROVE TowerInv'
    OBVIOUS
  <2>1. CASE UNCHANGED towerVars
    BY <2>1, TowerStutter
  <2>2. CASE TowerNext
    <3>1. PICK w \in EmbedWorkers : Embed(w)
      BY <2>2 DEF TowerNext
    <3>. QED BY <3>1, StartTowers, LookTowers, EncodeTowers, FailTowers, DivideTowers, PublishTowers DEF Embed
  <2>. QED BY <2>1, <2>2
<1>. QED BY <1>1, TowerStarts, PTL DEF TowerSpec

LEMMA TowersSound == TowerInv => TowersOwn
<1>. SUFFICES ASSUME TowerInv PROVE TowersOwn
  OBVIOUS
<1>1. Len(towers) <= CacheEntries /\ \A j, k \in DOMAIN towers : towers[j].key = towers[k].key => j = k
  BY DEF TowerInv, CacheSound, Distinct
<1>2. ASSUME NEW w \in EmbedWorkers, embed[w].at \in {"build", "embedded"}, NEW t \in ToSet(Towers)
      PROVE  embed[w].vectors[t] = Wanted(w, t)
  <2>1. t \in TowerNames
    BY TowerFacts
  <2>2. embed[w].vectors[t] = Right(embed[w].document, embed[w].model, t)
    BY <1>2, <2>1 DEF TowerInv, JobSound
  <2>. QED BY <2>2 DEF Wanted, Right, Document
<1>. QED BY <1>1, <1>2 DEF TowersOwn

(* However the jobs share the cache and the groups cut across the towers,  *)
(* a tower's vector is of its own repository's texts, sections and model.  *)
THEOREM TowersTheorem == TowerSpec => []TowersOwn
BY TowersInvariant, TowersSound, PTL

(* What the encoder is given of a README, and what becomes of it, is what   *)
(* was written: whatever the README and the cut go through, and whatever   *)
(* the jobs that share the cache do meanwhile.                             *)
THEOREM TextsTheorem == ReadmeSpec /\ TowerSpec => []TextsSound
BY ChunksTheorem, OutlineTheorem, TowersTheorem, PTL DEF TextsSound

=============================================================================
