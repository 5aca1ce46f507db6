------------------------- MODULE FeedbackLaneProofs -------------------------
(***************************************************************************)
(* Theorems about FeedbackLane, for any number of workers, any events and  *)
(* any bounds: its types and limits, the order of the ledger, the fence,   *)
(* the forward motion of the profile, the refinement of OrderedLedger and, *)
(* after those, that no accepted event is lost.                            *)
(*                                                                         *)
(* A worker may write long after it read, when another worker, onboarding  *)
(* or an expired lock has let the point move on.  The argument is that the *)
(* compared fields identify the snapshot: feedback_state_revision grows    *)
(* with every feedback write and profile_version with every onboarding, so *)
(* a snapshot that still matches is the stored point in every field the    *)
(* draft was computed from.                                                *)
(***************************************************************************)
EXTENDS FeedbackLane, TLAPS, FiniteSetTheorems, SequenceTheorems

-----------------------------------------------------------------------------
(* Types and limits *)

(* The inductive form of TypeOK, by parts: a busy worker has a message, a  *)
(* write knows what it is for, and the two streams are finite, so that     *)
(* their sizes are numbers.                                                *)
WriteOps == {"apply", "reject", "finalize"}
Writing  == {"write", "verify"}

JobOK(j) ==
  /\ j \in Jobs
  /\ j.pc # "idle" => j.msg \in Messages
  /\ j.pc \in Writing => j.op \in WriteOps

QueueInv ==
  /\ accepted \in [Ids -> Events \cup {NoEvent}]
  /\ stream \subseteq Messages /\ IsFiniteSet(stream) /\ Cardinality(stream) <= StreamMax
  /\ pel \subseteq stream
  /\ nextMid \in Nat \ {0}
  /\ enqueued \subseteq Events

DeadInv ==
  /\ dlq \subseteq DeadLetters /\ IsFiniteSet(dlq) /\ Cardinality(dlq) <= DlqMax
  /\ dlqSeen \subseteq Nat
  /\ buried \subseteq Events

LockInv  == lock \in Holders \cup {NoOne} /\ lost \in [Holders -> BOOLEAN]
VisitInv == visit \in [pc : {"idle", "write", "release"}, seen : Profiles]
CountInv == attempts \in [Ids -> Nat] /\ faults \in Nat
JobInv   == job \in [Workers -> Jobs] /\ \A w \in Workers : JobOK(job[w])

TypeInv ==
  QueueInv /\ DeadInv /\ LockInv /\ VisitInv /\ CountInv /\ JobInv /\ profile \in Profiles

LEMMA TypeInvImplies == TypeInv => TypeOK
BY DEF TypeInv, TypeOK, QueueInv, DeadInv, LockInv, VisitInv, CountInv, JobInv

LEMMA Frames ==
  /\ QueueInv /\ UNCHANGED queueVars => QueueInv'
  /\ DeadInv /\ UNCHANGED deadVars => DeadInv'
  /\ LockInv /\ UNCHANGED lockVars => LockInv'
  /\ VisitInv /\ UNCHANGED visit => VisitInv'
  /\ CountInv /\ UNCHANGED attempts /\ (UNCHANGED faults \/ Fault) => CountInv'
  /\ JobInv /\ UNCHANGED job => JobInv'
<1>1. QueueInv /\ UNCHANGED queueVars => QueueInv'
  BY DEF QueueInv, queueVars
<1>2. DeadInv /\ UNCHANGED deadVars => DeadInv'
  BY DEF DeadInv, deadVars
<1>3. LockInv /\ UNCHANGED lockVars => LockInv'
  BY DEF LockInv, lockVars
<1>4. VisitInv /\ UNCHANGED visit => VisitInv'
  BY DEF VisitInv
<1>5. CountInv /\ UNCHANGED attempts /\ (UNCHANGED faults \/ Fault) => CountInv'
  BY DEF CountInv, Fault
<1>6. JobInv /\ UNCHANGED job => JobInv'
  BY DEF JobInv
<1>. QED BY <1>1, <1>2, <1>3, <1>4, <1>5, <1>6

(* Go(w, j) keeps the jobs typed when j is. *)
LEMMA GoTyped ==
  ASSUME JobInv, NEW w \in Workers, NEW j, JobOK(j), Go(w, j)
  PROVE  JobInv'
BY DEF Go, JobInv, JobOK

(* Moving a busy worker on keeps its job typed. *)
LEMMA MovedTyped ==
  ASSUME NEW j, JobOK(j), j.pc # "idle", NEW pc \in PCs \ Writing, NEW after \in Afters,
         NEW op \in Ops, NEW a \in BOOLEAN, NEW s \in BOOLEAN, NEW h \in BOOLEAN
  PROVE  /\ JobOK([j EXCEPT !.pc = pc])
         /\ JobOK([j EXCEPT !.pc = pc, !.after = after])
         /\ JobOK([j EXCEPT !.pc = pc, !.op = op])
         /\ JobOK([j EXCEPT !.pc = pc, !.op = op, !.advanced = a])
         /\ JobOK([j EXCEPT !.pc = pc, !.advanced = a])
         /\ JobOK([j EXCEPT !.pc = pc, !.held = h])
         /\ JobOK([j EXCEPT !.pc = pc, !.after = after, !.settled = s])
BY DEF JobOK, Jobs

LEMMA DraftTyped ==
  ASSUME NEW j, JobOK(j), j.pc # "idle", NEW op \in WriteOps,
         NEW s \in Profiles, NEW d \in Profiles
  PROVE  JobOK([j EXCEPT !.pc = "write", !.op = op, !.seen = s, !.draft = d])
BY DEF JobOK, Jobs, PCs, WriteOps, Ops

(* The profiles the code writes back are profiles. *)
LEMMA EmptyTyped == ASSUME NEW pv \in Nat PROVE EmptyProfile(pv) \in Profiles
BY DEF EmptyProfile, Profiles, Mark

LEMMA LastOfTyped ==
  ASSUME NEW S, NEW s \in Seq(S), NEW n \in Nat
  PROVE  LastOf(s, n) \in Seq(S)
<1>1. CASE Len(s) <= n
  BY <1>1 DEF LastOf
<1>2. CASE ~(Len(s) <= n)
  <2>1. Len(s) - n + 1 \in 1..Len(s) + 1 /\ Len(s) \in Nat
    BY <1>2, LenProperties
  <2>2. SubSeq(s, Len(s) - n + 1, Len(s)) \in Seq(S)
    BY <2>1, SubSeqProperties
  <2>. QED BY <1>2, <2>2 DEF LastOf
<1>. QED BY <1>1, <1>2

LEMMA AdvanceTyped ==
  ASSUME NEW p \in Profiles, NEW e \in Events, NEW st \in {"applied", "rejected"}
  PROVE  Advance(p, e, st) \in Profiles
<1>. DEFINE entry == [id |-> e.id, ver |-> e.ver, learned |-> st = "applied"]
            Entries == [id : Ids, ver : Nat, learned : BOOLEAN]
            log == Append(p.log, entry)
<1>1. e.id \in Ids /\ e.ver \in Nat
  BY ConstantsAssumption DEF Ids
<1>2. entry \in Entries
  BY <1>1
<1>3. log \in Seq(Entries)
  <2>1. p.log \in Seq(Entries)
    BY DEF Profiles
  <2>. QED BY <1>2, <2>1, AppendProperties
<1>4. Advance(p, e, st) = [p EXCEPT !.last = e.ver, !.lastEv = e.id, !.status = st,
                                    !.rev = @ + 1, !.log = log]
  BY DEF Advance
<1>5. p.rev + 1 \in Nat
  BY DEF Profiles
<1>. HIDE DEF log
<1>. QED BY <1>1, <1>3, <1>4, <1>5 DEF Profiles

LEMMA ProfilesTyped ==
  ASSUME NEW p \in Profiles, NEW e \in Events, NEW pv \in Nat
  PROVE  /\ MarkOf(e) \in Mark
         /\ Applied(p, e) \in Profiles
         /\ Rejected(p, e) \in Profiles
         /\ Lifted(p) \in Profiles
         /\ Onboarded(p, pv) \in Profiles
<1>1. e.id \in Ids /\ e.ver \in Nat
  BY ConstantsAssumption DEF Ids
<1>2. MarkOf(e) \in Mark
  BY <1>1 DEF MarkOf, Mark
<1>3. Advance(p, e, "applied") \in Profiles /\ Advance(p, e, "rejected") \in Profiles
  BY AdvanceTyped
<1>4. LastOf(Append(p.history, MarkOf(e)), HistorySize) \in Seq(Mark)
  <2>1. Append(p.history, MarkOf(e)) \in Seq(Mark)
    BY <1>2, AppendProperties DEF Profiles
  <2>2. HistorySize \in Nat
    BY ConstantsAssumption
  <2>. QED BY <2>1, <2>2, LastOfTyped
<1>5. Advance(p, e, "rejected").history = p.history
  BY DEF Advance, Profiles
<1>6. Rejected(p, e) \in Profiles
  BY <1>2, <1>3, <1>4, <1>5 DEF Rejected, Profiles
<1>7. Lifted(p) \in Profiles
  <2>1. p.rev + 1 \in Nat
    BY DEF Profiles
  <2>. QED BY <2>1 DEF Lifted, Profiles
<1>8. Onboarded(p, pv) \in Profiles
  BY DEF Onboarded, Profiles
<1>. QED BY <1>2, <1>3, <1>6, <1>7, <1>8 DEF Applied

LEMMA IdleTyped == JobOK(Idle)
BY EmptyTyped DEF JobOK, Idle, Jobs, PCs, Ops, Afters, Writing

LEMMA BusyTyped ==
  ASSUME JobInv, NEW w \in Workers, job[w].pc # "idle"
  PROVE  /\ JobOK(job[w]) /\ job[w].msg \in Messages /\ Ev(w) \in Events
         /\ Ev(w).id \in Ids /\ Ev(w).ver \in Nat \ {0}
         /\ job[w].seen \in Profiles /\ job[w].draft \in Profiles
<1>1. JobOK(job[w]) /\ job[w].msg \in Messages
  BY DEF JobInv, JobOK
<1>2. Ev(w) \in Events
  BY <1>1 DEF Ev, Messages
<1>3. Ev(w).id \in Ids /\ Ev(w).ver \in Nat \ {0}
  BY <1>2, ConstantsAssumption DEF Ids
<1>. QED BY <1>1, <1>2, <1>3 DEF JobOK, Jobs

(* The ways a busy worker moves. *)
LEMMA MovesTyped ==
  ASSUME JobInv, NEW w \in Workers, job[w].pc # "idle"
  PROVE  /\ \A pc \in PCs \ Writing : GoTo(w, pc) => JobInv'
         /\ \A after \in Afters : Leaving(w, after) => JobInv'
         /\ Go(w, Idle) => JobInv'
<1>1. ASSUME NEW pc \in PCs \ Writing, GoTo(w, pc) PROVE JobInv'
  BY <1>1, BusyTyped, MovedTyped, GoTyped DEF GoTo, Afters, Ops
<1>2. ASSUME NEW after \in Afters, Leaving(w, after) PROVE JobInv'
  <2>1. JobOK([job[w] EXCEPT !.pc = "exit", !.after = after])
    BY BusyTyped, MovedTyped DEF PCs, Writing, Ops
  <2>. QED BY <1>2, <2>1, GoTyped DEF Leaving
<1>3. ASSUME Go(w, Idle) PROVE JobInv'
  BY <1>3, IdleTyped, GoTyped
<1>. QED BY <1>1, <1>2, <1>3

(* One more entry keeps a bounded finite set finite and counted. *)
LEMMA AddBounded ==
  ASSUME NEW S, IsFiniteSet(S), NEW x, NEW n \in Nat, Cardinality(S) < n
  PROVE  IsFiniteSet(S \cup {x}) /\ Cardinality(S \cup {x}) <= n
<1>1. /\ IsFiniteSet(S \cup {x})
      /\ \/ Cardinality(S \cup {x}) = Cardinality(S)
         \/ Cardinality(S \cup {x}) = Cardinality(S) + 1
  BY FS_AddElement
<1>2. Cardinality(S) \in Nat
  BY FS_CardinalityType
<1>. QED BY <1>1, <1>2

LEMMA RemoveBounded ==
  ASSUME NEW S, IsFiniteSet(S), NEW T \in SUBSET S, NEW n \in Nat, Cardinality(S) <= n
  PROVE  IsFiniteSet(T) /\ Cardinality(T) <= n
BY FS_Subset, FS_CardinalityType

LEMMA AddMessageTyped ==
  ASSUME QueueInv, NEW e \in Events, AddMessage(e), Cardinality(stream) < StreamMax
  PROVE  /\ stream' \subseteq Messages /\ IsFiniteSet(stream')
         /\ Cardinality(stream') <= StreamMax
         /\ stream \subseteq stream' /\ nextMid' \in Nat \ {0}
<1>1. StreamMax \in Nat
  BY ConstantsAssumption
<1>2. IsFiniteSet(stream') /\ Cardinality(stream') <= StreamMax
  BY <1>1, AddBounded DEF AddMessage, QueueInv
<1>. QED BY <1>2 DEF AddMessage, QueueInv, Messages

(* Every action keeps the type invariant. *)
LEMMA ProducerTyped ==
  ASSUME TypeInv
  PROVE  /\ \A e \in Events : Accept(e) => TypeInv'
         /\ \A i \in Ids : AcceptKeyExpires(i) => TypeInv'
         /\ \A d \in dlq : Replay(d) => TypeInv'
<1>1. ASSUME NEW e \in Events, Accept(e) PROVE TypeInv'
  <2>1. accepted' \in [Ids -> Events \cup {NoEvent}] /\ enqueued' \subseteq Events
    BY <1>1 DEF Accept, TypeInv, QueueInv
  <2>2. AddMessage(e) /\ Cardinality(stream) < StreamMax /\ pel' = pel
    BY <1>1 DEF Accept
  <2>3. QueueInv'
    BY <2>1, <2>2, AddMessageTyped DEF TypeInv, QueueInv
  <2>. QED BY <1>1, <2>3, Frames DEF Accept, TypeInv
<1>2. ASSUME NEW i \in Ids, AcceptKeyExpires(i) PROVE TypeInv'
  <2>1. QueueInv'
    BY <1>2 DEF AcceptKeyExpires, TypeInv, QueueInv
  <2>. QED BY <1>2, <2>1, Frames DEF AcceptKeyExpires, TypeInv
<1>3. ASSUME NEW d \in dlq, Replay(d) PROVE TypeInv'
  <2>1. d.ev \in Events /\ d.ev.id \in Ids
    BY ConstantsAssumption DEF TypeInv, DeadInv, DeadLetters, Ids
  <2>2. AddMessage(d.ev) /\ Cardinality(stream) < StreamMax
    BY <1>3 DEF Replay
  <2>3. QueueInv'
    BY <1>3, <2>1, <2>2, AddMessageTyped DEF Replay, TypeInv, QueueInv
  <2>4. DlqMax \in Nat
    BY ConstantsAssumption
  <2>5. DeadInv'
    BY <1>3, <2>4, RemoveBounded DEF Replay, TypeInv, DeadInv
  <2>6. CountInv'
    BY <1>3, <2>1 DEF Replay, TypeInv, CountInv
  <2>. QED BY <1>3, <2>3, <2>5, <2>6, Frames DEF Replay, TypeInv
<1>. QED BY <1>1, <1>2, <1>3

LEMMA DeliveryTyped ==
  ASSUME TypeInv, NEW w \in Workers
  PROVE  /\ ReadNew(w) => TypeInv'
         /\ \A m \in pel : Reclaim(w, m) => TypeInv'
<1>1. ASSUME NEW m \in Messages, Start(w, m) PROVE JobInv'
  <2>. DEFINE anonymous == m.ev.kind = "anonymous"
              j == [Idle EXCEPT !.msg = m,
                      !.op = IF anonymous THEN "reject" ELSE "apply",
                      !.pc = IF anonymous THEN "bury" ELSE "lock"]
  <2>1. JobOK(j)
    BY IdleTyped DEF JobOK, Jobs, PCs, Ops, Writing
  <2>. QED BY <1>1, <2>1, GoTyped DEF Start, TypeInv
<1>2. ASSUME ReadNew(w) PROVE TypeInv'
  <2>1. PICK m \in stream \ pel : pel' = pel \cup {m} /\ Start(w, m)
                                /\ UNCHANGED <<accepted, stream, nextMid, enqueued, deadVars,
                                      attempts, profile, lockVars, visit, faults>>
    BY <1>2 DEF ReadNew
  <2>2. QueueInv' /\ m \in Messages
    BY <2>1 DEF TypeInv, QueueInv
  <2>. QED BY <1>1, <2>1, <2>2, Frames DEF TypeInv
<1>3. ASSUME NEW m \in pel, Reclaim(w, m) PROVE TypeInv'
  <2>1. m \in Messages
    BY DEF TypeInv, QueueInv
  <2>. QED BY <1>1, <1>3, <2>1, Frames DEF Reclaim, TypeInv
<1>. QED BY <1>2, <1>3

(* Steps that move only the worker on. *)
LEMMA MoveTyped ==
  ASSUME TypeInv, NEW w \in Workers, JobInv',
         UNCHANGED <<queueVars, deadVars, attempts, profile, lockVars, visit>>,
         UNCHANGED faults \/ Fault
  PROVE  TypeInv'
BY Frames DEF TypeInv

LEMMA VerdictRange ==
  ASSUME NEW e, NEW p
  PROVE  Verdict(e, p) \in {"rejected", "duplicate", "gap", "invalid", "apply"}
<1>1. NextVerdict(e) \in {"rejected", "invalid", "apply"}
  BY Zenon DEF NextVerdict
<1>2. VerdictNoFence(e, p) \in {"rejected", "duplicate", "gap", "invalid", "apply"}
  BY <1>1, Zenon DEF VerdictNoFence
<1>. QED BY <1>2, Zenon DEF Verdict

LEMMA ApplyTyped ==
  ASSUME TypeInv, NEW w \in Workers, Apply(w)
  PROVE  TypeInv'
<1>1. JobInv /\ job[w].pc # "idle" /\ profile \in Profiles
  BY DEF Apply, At, TypeInv
<1>2. JobOK(job[w]) /\ Ev(w) \in Events
  BY <1>1, BusyTyped
<1>3. \/ GoTo(w, "reject") \/ GoTo(w, "retry") \/ GoTo(w, "check")
      \/ Go(w, [job[w] EXCEPT !.pc = "check", !.op = "gap"])
      \/ Go(w, [job[w] EXCEPT !.pc = "bury", !.op = "reject"])
      \/ Go(w, [job[w] EXCEPT !.pc = "write", !.op = "apply",
                  !.seen = profile, !.draft = Applied(profile, Ev(w))])
  BY VerdictRange, Zenon DEF Apply
<1>4. Applied(profile, Ev(w)) \in Profiles
  BY <1>1, <1>2, ProfilesTyped
<1>5. JobOK([job[w] EXCEPT !.pc = "write", !.op = "apply",
               !.seen = profile, !.draft = Applied(profile, Ev(w))])
  BY <1>1, <1>2, <1>4, DraftTyped DEF WriteOps
<1>6. /\ JobOK([job[w] EXCEPT !.pc = "check", !.op = "gap"])
      /\ JobOK([job[w] EXCEPT !.pc = "bury", !.op = "reject"])
  BY <1>1, <1>2, MovedTyped DEF PCs, Writing, Ops, Afters
<1>7. JobInv'
  BY <1>1, <1>3, <1>5, <1>6, MovesTyped, GoTyped DEF PCs, Writing
<1>. QED BY <1>7, MoveTyped DEF Apply

LEMMA RejectTyped ==
  ASSUME TypeInv, NEW w \in Workers, Reject(w)
  PROVE  TypeInv'
<1>1. JobInv /\ job[w].pc # "idle" /\ profile \in Profiles
  BY DEF Reject, At, TypeInv
<1>2. JobOK(job[w]) /\ Ev(w) \in Events
  BY <1>1, BusyTyped
<1>3. \/ GoTo(w, "retry") \/ Leaving(w, "return")
      \/ Go(w, [job[w] EXCEPT !.pc = "bury", !.op = "reject", !.advanced = TRUE])
      \/ Go(w, [job[w] EXCEPT !.pc = "write", !.op = "reject",
                  !.seen = profile, !.draft = Rejected(profile, Ev(w))])
  BY Zenon DEF Reject
<1>4. Rejected(profile, Ev(w)) \in Profiles
  BY <1>1, <1>2, ProfilesTyped
<1>5. JobOK([job[w] EXCEPT !.pc = "write", !.op = "reject",
               !.seen = profile, !.draft = Rejected(profile, Ev(w))])
  BY <1>1, <1>2, <1>4, DraftTyped DEF WriteOps
<1>6. JobOK([job[w] EXCEPT !.pc = "bury", !.op = "reject", !.advanced = TRUE])
  BY <1>1, <1>2, MovedTyped DEF PCs, Writing, Ops, Afters
<1>7. JobInv'
  BY <1>1, <1>3, <1>5, <1>6, MovesTyped, GoTyped DEF PCs, Writing, Afters
<1>. QED BY <1>7, MoveTyped DEF Reject

LEMMA FinalizeTyped ==
  ASSUME TypeInv, NEW w \in Workers, Finalize(w)
  PROVE  TypeInv'
<1>1. JobInv /\ job[w].pc # "idle" /\ profile \in Profiles
  BY DEF Finalize, At, TypeInv
<1>2. JobOK(job[w]) /\ Ev(w) \in Events
  BY <1>1, BusyTyped
<1>3. \/ GoTo(w, "ack") \/ Leaving(w, "return")
      \/ Go(w, [job[w] EXCEPT !.pc = "write", !.op = "finalize",
                  !.seen = profile, !.draft = Lifted(profile)])
  BY Zenon DEF Finalize
<1>4. Lifted(profile) \in Profiles
  BY <1>1, <1>2, ProfilesTyped
<1>5. JobOK([job[w] EXCEPT !.pc = "write", !.op = "finalize",
               !.seen = profile, !.draft = Lifted(profile)])
  BY <1>1, <1>2, <1>4, DraftTyped DEF WriteOps
<1>6. JobInv'
  BY <1>1, <1>3, <1>5, MovesTyped, GoTyped DEF PCs, Writing, Afters
<1>. QED BY <1>6, MoveTyped DEF Finalize

LEMMA WritingTyped ==
  ASSUME TypeInv, NEW w \in Workers
  PROVE  /\ Write(w) => TypeInv'
         /\ Verify(w) => TypeInv'
         /\ WriteUnanswered(w) => TypeInv'
         /\ ReadFails(w) => TypeInv'
<1>1. ASSUME JobOK(job[w]), job[w].pc # "idle", Swap(w) PROVE profile' \in Profiles
  BY <1>1 DEF Swap, TypeInv, JobOK, Jobs
<1>2. ASSUME job[w].pc # "idle", AfterFailure(w) PROVE JobInv'
  BY <1>2, MovesTyped DEF AfterFailure, TypeInv, PCs, Writing, Afters
<1>3. ASSUME job[w].pc # "idle", AfterWrite(w), job[w].op \in WriteOps
      PROVE  JobInv'
  <2>1. JobOK([job[w] EXCEPT !.pc = "bury", !.advanced = TRUE])
    BY <1>3, BusyTyped, MovedTyped DEF TypeInv, PCs, Writing, Ops, Afters
  <2>. QED BY <1>3, <2>1, MovesTyped, GoTyped DEF AfterWrite, TypeInv, PCs, Writing, WriteOps
<1>4. ASSUME Write(w) PROVE TypeInv'
  <2>1. job[w].pc # "idle" /\ JobOK(job[w])
    BY <1>4, BusyTyped DEF Write, At, TypeInv
  <2>2. JobOK([job[w] EXCEPT !.pc = "verify"])
    BY <1>4, <2>1 DEF Write, At, JobOK, Jobs, PCs, Writing
  <2>3. JobInv'
    BY <1>4, <2>2, GoTyped DEF Write, GoTo, TypeInv
  <2>. QED BY <1>1, <1>4, <2>1, <2>3, Frames DEF Write, TypeInv
<1>5. ASSUME Verify(w) PROVE TypeInv'
  <2>1. job[w].pc # "idle" /\ job[w].op \in WriteOps
    BY <1>5 DEF Verify, At, TypeInv, JobInv, JobOK, Writing
  <2>2. JobInv'
    BY <1>2, <1>3, <1>5, <2>1 DEF Verify
  <2>. QED BY <1>5, <2>2, MoveTyped DEF Verify
<1>6. ASSUME WriteUnanswered(w) PROVE TypeInv'
  <2>1. job[w].pc # "idle" /\ JobOK(job[w])
    BY <1>6, BusyTyped DEF WriteUnanswered, At, TypeInv
  <2>2. JobInv'
    BY <1>2, <1>6, <2>1 DEF WriteUnanswered
  <2>3. profile' \in Profiles
    BY <1>1, <1>6, <2>1 DEF WriteUnanswered, TypeInv
  <2>. QED BY <1>6, <2>2, <2>3, Frames DEF WriteUnanswered, TypeInv
<1>7. ASSUME ReadFails(w) PROVE TypeInv'
  <2>1. job[w].pc # "idle"
    BY <1>7 DEF ReadFails, At
  <2>2. JobInv'
    BY <1>7, <2>1, MovesTyped DEF ReadFails, TypeInv, PCs, Writing, Afters
  <2>. QED BY <1>7, <2>2, MoveTyped DEF ReadFails
<1>. QED BY <1>4, <1>5, <1>6, <1>7

LEMMA LockingTyped ==
  ASSUME TypeInv, NEW w \in Workers
  PROVE  /\ Acquire(w) => TypeInv'
         /\ LockBusy(w) => TypeInv'
         /\ NotOwned(w) => TypeInv'
         /\ Check(w) => TypeInv'
         /\ Exit(w) => TypeInv'
         /\ ReleaseFails(w) => TypeInv'
         /\ Escape(w) => TypeInv'
         /\ Crash(w) => TypeInv'
<1>0. w \in Holders
  BY DEF Holders
<1>1. ASSUME Acquire(w) PROVE TypeInv'
  <2>1. job[w].pc # "idle" /\ JobOK(job[w])
    BY <1>1, BusyTyped DEF Acquire, At, TypeInv
  <2>2. JobOK([job[w] EXCEPT !.pc = "apply", !.held = TRUE])
    BY <2>1, MovedTyped DEF PCs, Writing, Ops, Afters
  <2>3. JobInv'
    BY <1>1, <2>2, GoTyped DEF Acquire, TypeInv
  <2>4. LockInv'
    BY <1>0, <1>1 DEF Acquire, TypeInv, LockInv
  <2>. QED BY <1>1, <2>3, <2>4, Frames DEF Acquire, TypeInv
<1>2. ASSUME LockBusy(w) PROVE TypeInv'
  <2>1. JobInv'
    BY <1>2, IdleTyped, GoTyped DEF LockBusy, TypeInv
  <2>. QED BY <1>2, <2>1, MoveTyped DEF LockBusy
<1>3. ASSUME NotOwned(w) PROVE TypeInv'
  <2>1. JobInv'
    BY <1>3, MovesTyped DEF NotOwned, At, TypeInv, Afters
  <2>. QED BY <1>3, <2>1, MoveTyped DEF NotOwned
<1>4. ASSUME Check(w) PROVE TypeInv'
  <2>1. JobInv'
    BY <1>4, MovesTyped DEF Check, At, TypeInv, PCs, Writing, Afters
  <2>. QED BY <1>4, <2>1, MoveTyped DEF Check
<1>5. ASSUME At(w, "exit")
      PROVE  /\ JobOK([job[w] EXCEPT !.pc = "retry", !.held = FALSE])
             /\ Go(w, [job[w] EXCEPT !.pc = "retry", !.held = FALSE]) => JobInv'
             /\ Go(w, Idle) => JobInv'
  <2>1. job[w].pc # "idle" /\ JobOK(job[w])
    BY <1>5, BusyTyped DEF At, TypeInv
  <2>2. JobOK([job[w] EXCEPT !.pc = "retry", !.held = FALSE])
    BY <2>1, MovedTyped DEF PCs, Writing, Ops, Afters
  <2>. QED BY <2>1, <2>2, GoTyped, IdleTyped DEF TypeInv
<1>6. ASSUME Exit(w) PROVE TypeInv'
  <2>1. At(w, "exit")
    BY <1>6 DEF Exit
  <2>2. JobInv'
    BY <1>5, <1>6, <2>1 DEF Exit
  <2>3. LockInv'
    BY <1>6 DEF Exit, TypeInv, LockInv, lockVars
  <2>. QED BY <1>6, <2>2, <2>3, Frames DEF Exit, TypeInv
<1>7. ASSUME ReleaseFails(w) PROVE TypeInv'
  <2>1. JobInv'
    BY <1>5, <1>7 DEF ReleaseFails
  <2>. QED BY <1>7, <2>1, MoveTyped DEF ReleaseFails
<1>8. ASSUME Escape(w) PROVE TypeInv'
  <2>1. job[w].pc # "idle"
    BY <1>8 DEF Escape
  <2>2. JobInv'
    BY <1>8, <2>1, MovesTyped DEF Escape, TypeInv, Afters
  <2>. QED BY <1>8, <2>2, MoveTyped DEF Escape
<1>9. ASSUME Crash(w) PROVE TypeInv'
  <2>1. JobInv'
    BY <1>9, IdleTyped, GoTyped DEF Crash, TypeInv
  <2>. QED BY <1>9, <2>1, MoveTyped DEF Crash
<1>. QED BY <1>1, <1>2, <1>3, <1>4, <1>6, <1>7, <1>8, <1>9

LEMMA SettlingTyped ==
  ASSUME TypeInv, NEW w \in Workers
  PROVE  /\ Retry(w) => TypeInv'
         /\ Bury(w) => TypeInv'
         /\ Ack(w) => TypeInv'
         /\ ClearAttempts(w) => TypeInv'
<1>0. MaxAttempts \in Nat /\ DlqMax \in Nat /\ StreamMax \in Nat
  BY ConstantsAssumption
<1>1. ASSUME Retry(w) PROVE TypeInv'
  <2>1. job[w].pc # "idle" /\ JobOK(job[w]) /\ Ev(w).id \in Ids
    BY <1>1, BusyTyped DEF Retry, At, TypeInv
  <2>2. JobOK([job[w] EXCEPT !.pc = "bury", !.op = "exhaust"])
    BY <2>1, MovedTyped DEF PCs, Writing, Ops, Afters
  <2>3. JobInv'
    BY <1>1, <2>1, <2>2, GoTyped, MovesTyped DEF Retry, TypeInv, Afters
  <2>4. CountInv'
    BY <1>0, <1>1, <2>1 DEF Retry, TypeInv, CountInv
  <2>. QED BY <1>1, <2>3, <2>4, Frames DEF Retry, TypeInv
<1>2. ASSUME Bury(w) PROVE TypeInv'
  <2>1. /\ job[w].pc # "idle" /\ JobOK(job[w]) /\ Ev(w) \in Events
        /\ job[w].msg \in Messages
    BY <1>2, BusyTyped DEF Bury, At, TypeInv
  <2>2. JobInv'
    <3>1. Copied(w) \/ Leaving(w, "return")
      BY <1>2 DEF Bury
    <3>. QED BY <2>1, <3>1, MovesTyped DEF Copied, TypeInv, PCs, Writing, Afters
  <2>3. DeadInv'
    <3>1. CASE UNCHANGED deadVars
      BY <3>1, Frames DEF TypeInv
    <3>2. CASE ~UNCHANGED deadVars
      <4>. DEFINE d == [mid |-> job[w].msg.mid, ev |-> job[w].msg.ev,
                        retryable |-> job[w].op = "exhaust",
                        advanced |-> job[w].advanced /\ job[w].op = "reject"]
      <4>1. /\ Cardinality(dlq) < DlqMax /\ dlq' = dlq \cup {d}
            /\ dlqSeen' = dlqSeen \cup {job[w].msg.mid}
            /\ buried' = buried \cup {Ev(w)}
        BY <1>2, <3>2, Zenon DEF Bury, Ev
      <4>2. job[w].advanced \in BOOLEAN /\ job[w].msg.mid \in Nat \ {0}
        BY <2>1 DEF JobOK, Jobs, Messages
      <4>3. d \in DeadLetters
        BY <2>1, <4>2 DEF DeadLetters, Messages
      <4>4. IsFiniteSet(dlq') /\ Cardinality(dlq') <= DlqMax
        BY <1>0, <4>1, AddBounded DEF TypeInv, DeadInv
      <4>. QED BY <2>1, <4>1, <4>2, <4>3, <4>4 DEF TypeInv, DeadInv
    <3>. QED BY <3>1, <3>2
  <2>. QED BY <1>2, <2>2, <2>3, Frames DEF Bury, TypeInv
<1>3. ASSUME Ack(w) PROVE TypeInv'
  <2>1. JobInv'
    BY <1>3, MovesTyped DEF Ack, At, TypeInv, PCs, Writing
  <2>2. stream' \subseteq stream /\ pel' \subseteq stream'
    BY <1>3 DEF Ack, TypeInv, QueueInv
  <2>3. IsFiniteSet(stream') /\ Cardinality(stream') <= StreamMax
    BY <1>0, <2>2, RemoveBounded DEF TypeInv, QueueInv
  <2>4. QueueInv'
    BY <1>3, <2>2, <2>3 DEF Ack, TypeInv, QueueInv
  <2>. QED BY <1>3, <2>1, <2>4, Frames DEF Ack, TypeInv
<1>4. ASSUME ClearAttempts(w) PROVE TypeInv'
  <2>1. job[w].pc # "idle" /\ JobOK(job[w]) /\ Ev(w).id \in Ids
    BY <1>4, BusyTyped DEF ClearAttempts, At, TypeInv
  <2>2. JobOK([job[w] EXCEPT !.pc = "exit", !.after = "return", !.settled = TRUE])
    BY <2>1, MovedTyped DEF PCs, Writing, Ops, Afters
  <2>3. JobInv'
    BY <1>4, <2>2, GoTyped DEF ClearAttempts, TypeInv
  <2>4. CountInv'
    BY <1>4, <2>1 DEF ClearAttempts, TypeInv, CountInv
  <2>. QED BY <1>4, <2>3, <2>4, Frames DEF ClearAttempts, TypeInv
<1>. QED BY <1>1, <1>2, <1>3, <1>4

LEMMA EnvironmentTyped ==
  ASSUME TypeInv
  PROVE  /\ LockExpires => TypeInv'
         /\ \A h \in Holders : RenewLost(h) => TypeInv'
         /\ Onboarding => TypeInv'
<1>1. ASSUME LockExpires PROVE TypeInv'
  <2>1. LockInv'
    BY <1>1 DEF LockExpires, TypeInv, LockInv
  <2>. QED BY <1>1, <2>1, Frames DEF LockExpires, TypeInv
<1>2. ASSUME NEW h \in Holders, RenewLost(h) PROVE TypeInv'
  <2>1. LockInv'
    BY <1>2 DEF RenewLost, TypeInv, LockInv
  <2>. QED BY <1>2, <2>1, Frames DEF RenewLost, TypeInv
<1>3. ASSUME OnboardStart PROVE TypeInv'
  <2>1. LockInv' /\ VisitInv'
    BY <1>3 DEF OnboardStart, TypeInv, LockInv, VisitInv, Holders
  <2>. QED BY <1>3, <2>1, Frames DEF OnboardStart, TypeInv
<1>4. ASSUME OnboardWrite PROVE TypeInv'
  <2>1. visit.seen \in Profiles /\ visit.seen.pv + 1 \in Nat
    BY DEF TypeInv, VisitInv, Profiles
  <2>2. Onboarded(visit.seen, visit.seen.pv + 1) \in Profiles
    BY <2>1 DEF Onboarded, Profiles
  <2>3. profile' \in Profiles /\ VisitInv'
    BY <1>4, <2>2 DEF OnboardWrite, TypeInv, VisitInv
  <2>. QED BY <1>4, <2>3, Frames DEF OnboardWrite, TypeInv
<1>5. VisitInv /\ visit' = NoVisit => VisitInv'
  BY EmptyTyped DEF VisitInv, NoVisit
<1>6. ASSUME OnboardEnd PROVE TypeInv'
  <2>1. LockInv' /\ VisitInv'
    BY <1>5, <1>6 DEF OnboardEnd, TypeInv, LockInv
  <2>. QED BY <1>6, <2>1, Frames DEF OnboardEnd, TypeInv
<1>7. ASSUME OnboardCrash PROVE TypeInv'
  BY <1>5, <1>7, Frames DEF OnboardCrash, TypeInv
<1>. QED BY <1>1, <1>2, <1>3, <1>4, <1>6, <1>7 DEF Onboarding

LEMMA InitTyped == Init => TypeInv
<1>. SUFFICES ASSUME Init PROVE TypeInv
  OBVIOUS
<1>1. IsFiniteSet({}) /\ Cardinality({}) = 0
  BY FS_EmptySet
<1>2. {StreamMax, DlqMax} \subseteq Nat \ {0}
  BY ConstantsAssumption
<1>3. profile \in Profiles
  BY EmptyTyped, ConstantsAssumption DEF Init
<1>4. QueueInv
  BY <1>1, <1>2 DEF Init, QueueInv
<1>5. DeadInv
  BY <1>1, <1>2 DEF Init, DeadInv
<1>6. LockInv /\ CountInv
  BY DEF Init, LockInv, CountInv
<1>7. VisitInv
  BY EmptyTyped DEF Init, VisitInv, NoVisit
<1>8. JobInv
  BY IdleTyped DEF Init, JobInv, JobOK
<1>. QED BY <1>3, <1>4, <1>5, <1>6, <1>7, <1>8 DEF TypeInv

LEMMA NextTyped == TypeInv /\ [Next]_vars => TypeInv'
<1>. SUFFICES ASSUME TypeInv, [Next]_vars PROVE TypeInv'
  OBVIOUS
<1>1. ASSUME NEW w \in Workers, Step(w) PROVE TypeInv'
  BY <1>1, DeliveryTyped, ApplyTyped, RejectTyped, FinalizeTyped, WritingTyped,
     LockingTyped, SettlingTyped DEF Step
<1>2. ASSUME NEW w \in Workers, Broken(w) PROVE TypeInv'
  BY <1>2, WritingTyped, LockingTyped DEF Broken
<1>3. ASSUME UNCHANGED vars PROVE TypeInv'
  BY <1>3, Frames DEF vars, TypeInv
<1>. QED BY <1>1, <1>2, <1>3, ProducerTyped, DeliveryTyped, EnvironmentTyped DEF Next

LEMMA TypeInvariant == Spec => []TypeInv
BY InitTyped, NextTyped, PTL DEF Spec

(* In every reachable state the variables have their types and the source  *)
(* and dead-letter streams stay within their capacities.                   *)
THEOREM TypeCorrect == Spec => []TypeOK
BY TypeInvariant, TypeInvImplies, PTL

-----------------------------------------------------------------------------
(* The ledger *)

Ordered(p) ==
  /\ Len(p.log) = p.last
  /\ \A n \in 1..p.last : p.log[n].ver = n

Fenced(p) ==
  p.fence # NoFence =>
    /\ p.fence.ver = p.last /\ p.fence.id = p.lastEv
    /\ p.status = "rejected"

Sound(p) == Ordered(p) /\ Fenced(p)

(* What a worker about to write has prepared. *)
Drafted(j) ==
  LET e == j.msg.ev IN
  \/ /\ j.op = "apply" /\ j.draft = Applied(j.seen, e)
     /\ e.ver = j.seen.last + 1 /\ j.seen.fence = NoFence
  \/ /\ j.op = "reject" /\ j.draft = Rejected(j.seen, e)
     /\ e.ver = j.seen.last + 1
  \/ /\ j.op = "finalize" /\ j.draft = Lifted(j.seen)

(* s was the stored point once, and is still if its revisions are. *)
Snapshot(s) ==
  /\ s.rev <= profile.rev /\ s.pv <= profile.pv
  /\ s.rev = profile.rev => s.log = profile.log
  /\ s.rev = profile.rev /\ s.pv = profile.pv => s.fence = profile.fence

Prepared(j) == Snapshot(j.seen) /\ Sound(j.seen) /\ Drafted(j)

CasInv ==
  /\ Sound(profile)
  /\ \A w \in Workers : job[w].pc = "write" => Prepared(job[w])
  /\ visit.pc = "write" => Snapshot(visit.seen) /\ Sound(visit.seen)

(* Settling the next version keeps the log in order. *)
LEMMA AdvanceSound ==
  ASSUME NEW p \in Profiles, Sound(p), NEW e \in Events, e.ver = p.last + 1,
         NEW st \in {"applied", "rejected"}
  PROVE  /\ Ordered(Advance(p, e, st))
         /\ Advance(p, e, st).log =
              Append(p.log, [id |-> e.id, ver |-> Len(p.log) + 1, learned |-> st = "applied"])
         /\ Advance(p, e, st).fence = p.fence /\ Advance(p, e, st).rev = p.rev + 1
         /\ Advance(p, e, st).pv = p.pv /\ Advance(p, e, st).last = e.ver
         /\ Advance(p, e, st).lastEv = e.id /\ Advance(p, e, st).status = st
<1>. DEFINE Entries == [id : Ids, ver : Nat, learned : BOOLEAN]
            entry == [id |-> e.id, ver |-> e.ver, learned |-> st = "applied"]
            log == Append(p.log, entry)
            a == Advance(p, e, st)
<1>1. p.log \in Seq(Entries) /\ p.last \in Nat /\ Len(p.log) = p.last
  BY DEF Profiles, Sound, Ordered
<1>2. entry \in Entries
  BY ConstantsAssumption DEF Ids
<1>3. /\ Len(log) = Len(p.log) + 1
      /\ \A n \in 1..Len(p.log) : log[n] = p.log[n]
      /\ log[Len(p.log) + 1] = entry
  BY <1>1, <1>2, AppendProperties
<1>4. /\ a.log = log /\ a.last = e.ver /\ a.lastEv = e.id /\ a.status = st
      /\ a.fence = p.fence /\ a.rev = p.rev + 1 /\ a.pv = p.pv
  BY DEF Advance, Profiles
<1>5. \A n \in 1..e.ver : log[n].ver = n
  <2>. SUFFICES ASSUME NEW n \in 1..e.ver PROVE log[n].ver = n
    OBVIOUS
  <2>1. CASE n = e.ver
    BY <1>1, <1>3, <2>1
  <2>2. CASE n # e.ver
    BY <1>1, <1>3, <2>2 DEF Sound, Ordered
  <2>. QED BY <2>1, <2>2
<1>6. entry = [id |-> e.id, ver |-> Len(p.log) + 1, learned |-> st = "applied"]
  BY <1>1
<1>7. Ordered(a)
  BY <1>1, <1>3, <1>4, <1>5 DEF Ordered
<1>. HIDE DEF log, entry, a
<1>. QED BY <1>4, <1>6, <1>7 DEF a, log, entry

(* A write that wins: sound, one revision on, and a step of the ledger. *)
LEMMA DraftWins ==
  ASSUME TypeInv, NEW w \in Workers, job[w].pc = "write", Prepared(job[w]),
         Matches(profile, job[w].seen), profile' = job[w].draft
  PROVE  /\ Sound(profile')
         /\ profile'.rev = profile.rev + 1 /\ profile'.pv = profile.pv
         /\ Ledger!LNext
<1>. DEFINE s == job[w].seen
            e == Ev(w)
<1>1. s \in Profiles /\ e \in Events /\ e.id \in Ids /\ e = job[w].msg.ev
  BY BusyTyped DEF TypeInv, Ev
<1>2. /\ s.pv = profile.pv /\ s.rev = profile.rev
      /\ s.log = profile.log /\ s.fence = profile.fence /\ Sound(s)
  BY DEF Matches, Prepared, Snapshot
<1>3. s.rev + 1 \in Nat /\ s.fence \in Mark \cup {NoFence}
  BY <1>1 DEF Profiles
<1>4. CASE job[w].op = "apply"
  <2>. DEFINE a == Advance(s, e, "applied")
  <2>1. profile' = a /\ e.ver = s.last + 1 /\ s.fence = NoFence
    BY <1>1, <1>4 DEF Prepared, Drafted, Applied
  <2>2. /\ Ordered(a) /\ a.fence = s.fence /\ a.rev = s.rev + 1 /\ a.pv = s.pv
        /\ a.log = Append(s.log, [id |-> e.id, ver |-> Len(s.log) + 1,
                                  learned |-> "applied" = "applied"])
    BY <1>1, <1>2, <2>1, AdvanceSound
  <2>3. ("applied" = "applied") = TRUE
    OBVIOUS
  <2>. HIDE DEF a
  <2>4. Ledger!Learn(e.id)
    BY <1>2, <2>1, <2>2, <2>3 DEF Ledger!Learn, Ledger!Settle
  <2>. QED BY <1>1, <1>2, <2>1, <2>2, <2>4 DEF Sound, Fenced, Ledger!LNext
<1>5. CASE job[w].op = "reject"
  <2>. DEFINE a == Advance(s, e, "rejected")
  <2>1. profile' = Rejected(s, e) /\ e.ver = s.last + 1
    BY <1>1, <1>5 DEF Prepared, Drafted
  <2>2. /\ Ordered(a) /\ a.rev = s.rev + 1 /\ a.pv = s.pv
        /\ a.last = e.ver /\ a.lastEv = e.id /\ a.status = "rejected"
        /\ a.log = Append(s.log, [id |-> e.id, ver |-> Len(s.log) + 1,
                                  learned |-> "rejected" = "applied"])
    BY <1>1, <1>2, <2>1, AdvanceSound
  <2>3. ("rejected" = "applied") = FALSE
    OBVIOUS
  <2>4. a \in Profiles
    BY <1>1, AdvanceTyped
  <2>5. /\ profile'.log = a.log /\ profile'.last = a.last /\ profile'.rev = a.rev
        /\ profile'.pv = a.pv /\ profile'.lastEv = a.lastEv /\ profile'.status = a.status
        /\ profile'.fence = MarkOf(e)
    <3>. HIDE DEF a
    <3>1. Rejected(s, e) = [a EXCEPT !.fence = MarkOf(e),
                              !.history = LastOf(Append(a.history, MarkOf(e)), HistorySize)]
      BY DEF a, Rejected
    <3>. QED BY <2>1, <2>4, <3>1 DEF Profiles
  <2>6. MarkOf(e) = [id |-> e.id, ver |-> Len(s.log) + 1]
    BY <1>2, <2>1 DEF MarkOf, Sound, Ordered
  <2>7. Ledger!Refuse(e.id)
    BY <1>2, <2>2, <2>3, <2>5, <2>6 DEF Ledger!Refuse, Ledger!Settle
  <2>8. Sound(profile')
    <3>. HIDE DEF a
    <3>1. Ordered(profile')
      BY <2>2, <2>5 DEF Ordered
    <3>2. Fenced(profile')
      BY <2>2, <2>5 DEF Fenced, MarkOf
    <3>. QED BY <3>1, <3>2 DEF Sound
  <2>. QED BY <1>1, <1>2, <2>2, <2>5, <2>7, <2>8 DEF Ledger!LNext
<1>6. CASE job[w].op = "finalize"
  <2>1. profile' = Lifted(s)
    BY <1>1, <1>6 DEF Prepared, Drafted
  <2>2. /\ profile'.fence = NoFence /\ profile'.log = s.log /\ profile'.last = s.last
        /\ profile'.rev = s.rev + 1 /\ profile'.pv = s.pv
    BY <1>1, <2>1 DEF Lifted, Profiles
  <2>3. Ledger!LiftFence
    BY <1>2, <2>2 DEF Ledger!LiftFence
  <2>4. Sound(profile')
    BY <1>2, <2>2 DEF Sound, Ordered, Fenced
  <2>. QED BY <1>2, <2>2, <2>3, <2>4 DEF Ledger!LNext
<1>. QED BY <1>1, <1>4, <1>5, <1>6 DEF Prepared, Drafted

LEMMA OnboardWins ==
  ASSUME TypeInv, Snapshot(visit.seen), Sound(visit.seen),
         Matches(profile, visit.seen), profile' = Onboarded(visit.seen, visit.seen.pv + 1)
  PROVE  /\ Sound(profile')
         /\ profile'.rev = profile.rev /\ profile'.pv = profile.pv + 1
         /\ profile'.log = profile.log /\ Ledger!LiftFence
<1>. DEFINE s == visit.seen
<1>1. s \in Profiles
  BY DEF TypeInv, VisitInv
<1>2. s.pv = profile.pv /\ s.rev = profile.rev /\ s.log = profile.log
  BY DEF Matches, Snapshot
<1>3. /\ profile'.fence = NoFence /\ profile'.log = s.log /\ profile'.last = s.last
      /\ profile'.rev = s.rev /\ profile'.pv = s.pv + 1
  BY <1>1 DEF Onboarded, Profiles
<1>4. Sound(profile')
  BY <1>3 DEF Sound, Ordered, Fenced
<1>. QED BY <1>2, <1>3, <1>4 DEF Ledger!LiftFence

(* While the point stands, snapshots stay snapshots and new ones are exact. *)
LEMMA StillPrepared ==
  ASSUME TypeInv, CasInv, profile' = profile,
         \A x \in Workers : job'[x].pc = "write" =>
           job'[x] = job[x] \/ (job'[x].seen = profile /\ Drafted(job'[x])),
         visit'.pc = "write" => visit' = visit \/ visit'.seen = profile
  PROVE  CasInv'
<1>1. Snapshot(profile) /\ Sound(profile)
  BY DEF Snapshot, CasInv, TypeInv, Profiles
<1>2. \A s : Snapshot(s) => Snapshot(s)'
  BY DEF Snapshot
<1>3. \A x \in Workers : job'[x].pc = "write" => Prepared(job[x])'
  BY <1>1, <1>2 DEF CasInv, Prepared, Drafted
<1>4. (visit.pc = "write" => Snapshot(visit.seen) /\ Sound(visit.seen))'
  BY <1>1, <1>2 DEF CasInv
<1>. QED BY <1>1, <1>3, <1>4 DEF CasInv

LEMMA GoWithoutWrite ==
  ASSUME TypeInv, NEW w \in Workers, NEW j, j.pc # "write", Go(w, j)
  PROVE  \A x \in Workers : job'[x].pc = "write" => job'[x] = job[x]
BY DEF Go, TypeInv, JobInv

LEMMA MovesWithoutWrite ==
  ASSUME TypeInv, NEW w \in Workers
  PROVE  /\ \A pc : pc # "write" /\ GoTo(w, pc) =>
              \A x \in Workers : job'[x].pc = "write" => job'[x] = job[x]
         /\ \A after : Leaving(w, after) =>
              \A x \in Workers : job'[x].pc = "write" => job'[x] = job[x]
         /\ Go(w, Idle) => \A x \in Workers : job'[x].pc = "write" => job'[x] = job[x]
<1>1. job[w] \in Jobs
  BY DEF TypeInv, JobInv
<1>2. \A pc, after : /\ [job[w] EXCEPT !.pc = pc].pc = pc
                     /\ [job[w] EXCEPT !.pc = "exit", !.after = after].pc = "exit"
  BY <1>1 DEF Jobs
<1>3. Idle.pc = "idle"
  BY DEF Idle
<1>. QED BY <1>2, <1>3, GoWithoutWrite DEF GoTo, Leaving

(* The steps that write nothing to the point and prepare nothing. *)
Quiet ==
  /\ profile' = profile /\ visit' = visit
  /\ \A x \in Workers : job'[x].pc = "write" => job'[x] = job[x]

LEMMA WorkerQuiet ==
  ASSUME TypeInv, NEW w \in Workers
  PROVE  /\ ReadNew(w) => Quiet
         /\ \A m \in pel : Reclaim(w, m) => Quiet
         /\ Acquire(w) \/ LockBusy(w) \/ NotOwned(w) \/ Check(w) => Quiet
         /\ Verify(w) \/ ReadFails(w) => Quiet
         /\ Retry(w) \/ Bury(w) \/ Ack(w) \/ ClearAttempts(w) => Quiet
         /\ Exit(w) \/ ReleaseFails(w) \/ Escape(w) \/ Crash(w) => Quiet
<1>0. job[w] \in Jobs /\ (job[w].pc \in Writing => job[w].op \in WriteOps)
  BY DEF TypeInv, JobInv, JobOK
<1>1. ASSUME NEW m, Start(w, m)
      PROVE  \A x \in Workers : job'[x].pc = "write" => job'[x] = job[x]
  <2>. DEFINE anonymous == m.ev.kind = "anonymous"
              j == [Idle EXCEPT !.msg = m,
                      !.op = IF anonymous THEN "reject" ELSE "apply",
                      !.pc = IF anonymous THEN "bury" ELSE "lock"]
  <2>1. j.pc # "write"
    BY DEF Idle
  <2>. QED BY <1>1, <2>1, GoWithoutWrite DEF Start
<1>2. ReadNew(w) => Quiet
  BY <1>1 DEF ReadNew, Quiet
<1>3. \A m \in pel : Reclaim(w, m) => Quiet
  BY <1>1 DEF Reclaim, Quiet
<1>4. /\ [job[w] EXCEPT !.pc = "apply", !.held = TRUE].pc # "write"
      /\ [job[w] EXCEPT !.pc = "bury", !.op = "exhaust"].pc # "write"
      /\ [job[w] EXCEPT !.pc = "bury", !.advanced = TRUE].pc # "write"
      /\ [job[w] EXCEPT !.pc = "exit", !.after = "return", !.settled = TRUE].pc # "write"
      /\ [job[w] EXCEPT !.pc = "retry", !.held = FALSE].pc # "write"
  BY <1>0 DEF Jobs
<1>5. Acquire(w) \/ LockBusy(w) \/ NotOwned(w) \/ Check(w) => Quiet
  BY <1>4, GoWithoutWrite, MovesWithoutWrite DEF Acquire, LockBusy, NotOwned, Check, Quiet
<1>6. AfterFailure(w) => \A x \in Workers : job'[x].pc = "write" => job'[x] = job[x]
  BY MovesWithoutWrite DEF AfterFailure
<1>7. ASSUME Verify(w) PROVE Quiet
  <2>1. AfterFailure(w) \/ GoTo(w, "check") \/ GoTo(w, "ack")
        \/ Go(w, [job[w] EXCEPT !.pc = "bury", !.advanced = TRUE])
    BY <1>0, <1>7 DEF Verify, AfterWrite, At, Writing, WriteOps
  <2>. QED BY <1>4, <1>6, <1>7, <2>1, GoWithoutWrite, MovesWithoutWrite DEF Verify, Quiet
<1>8. ReadFails(w) => Quiet
  BY MovesWithoutWrite DEF ReadFails, Quiet
<1>9. Retry(w) \/ Ack(w) \/ ClearAttempts(w) => Quiet
  BY <1>4, GoWithoutWrite, MovesWithoutWrite DEF Retry, Ack, ClearAttempts, Quiet
<1>10. ASSUME Bury(w) PROVE Quiet
  <2>1. Copied(w) \/ Leaving(w, "return")
    BY <1>10 DEF Bury
  <2>. QED BY <1>10, <2>1, MovesWithoutWrite DEF Bury, Copied, Quiet
<1>11. Exit(w) \/ ReleaseFails(w) => Quiet
  BY <1>4, GoWithoutWrite, MovesWithoutWrite DEF Exit, ReleaseFails, Quiet
<1>12. Escape(w) \/ Crash(w) => Quiet
  BY MovesWithoutWrite DEF Escape, Crash, Quiet
<1>. QED BY <1>2, <1>3, <1>5, <1>7, <1>8, <1>9, <1>10, <1>11, <1>12

(* Nothing is applied past a fence, and only the next version is applied. *)
LEMMA VerdictApply ==
  ASSUME NEW p \in Profiles, Sound(p), NEW e \in Events, Verdict(e, p) = "apply"
  PROVE  e.ver = p.last + 1 /\ p.fence = NoFence
<1>1. ~(p.fence # NoFence /\ e.ver > p.fence.ver) /\ VerdictNoFence(e, p) = "apply"
  BY Zenon DEF Verdict
<1>2. e.ver = p.last + 1
  BY <1>1, Zenon DEF VerdictNoFence
<1>3. p.last \in Nat /\ p.last + 1 > p.last
  BY DEF Profiles
<1>4. p.fence = NoFence
  BY <1>1, <1>2, <1>3 DEF Sound, Fenced
<1>. QED BY <1>2, <1>4

(* apply, reject and finalize_rejection prepare their draft from the point *)
(* they just read.                                                         *)
LEMMA PreparingSteps ==
  ASSUME TypeInv, CasInv, NEW w \in Workers, Apply(w) \/ Reject(w) \/ Finalize(w)
  PROVE  /\ profile' = profile /\ visit' = visit
         /\ \A x \in Workers : job'[x].pc = "write" =>
              job'[x] = job[x] \/ (job'[x].seen = profile /\ Drafted(job'[x]))
<1>. DEFINE Kept == \A x \in Workers : job'[x].pc = "write" => job'[x] = job[x]
            Exact == \A x \in Workers : job'[x].pc = "write" =>
                       job'[x] = job[x] \/ (job'[x].seen = profile /\ Drafted(job'[x]))
<1>0. /\ job[w] \in Jobs /\ profile \in Profiles /\ Sound(profile)
      /\ job \in [Workers -> Jobs]
  BY DEF TypeInv, JobInv, CasInv
<1>1. ASSUME NEW op, NEW d,
             Go(w, [job[w] EXCEPT !.pc = "write", !.op = op, !.seen = profile, !.draft = d]),
             \/ op = "apply" /\ d = Applied(profile, Ev(w)) /\ Ev(w).ver = profile.last + 1
                /\ profile.fence = NoFence
             \/ op = "reject" /\ d = Rejected(profile, Ev(w)) /\ Ev(w).ver = profile.last + 1
             \/ op = "finalize" /\ d = Lifted(profile)
      PROVE  Exact
  <2>. DEFINE j == [job[w] EXCEPT !.pc = "write", !.op = op, !.seen = profile, !.draft = d]
  <2>1. j.op = op /\ j.seen = profile /\ j.draft = d /\ j.msg = job[w].msg
    BY <1>0 DEF Jobs
  <2>. HIDE DEF j
  <2>2. Drafted(j)
    BY <1>1, <2>1 DEF Drafted, Ev
  <2>3. \A x \in Workers : job'[x] = IF x = w THEN j ELSE job[x]
    BY <1>0, <1>1 DEF Go, j
  <2>. QED BY <2>1, <2>2, <2>3
<1>2. /\ [job[w] EXCEPT !.pc = "check", !.op = "gap"].pc # "write"
      /\ [job[w] EXCEPT !.pc = "bury", !.op = "reject"].pc # "write"
      /\ [job[w] EXCEPT !.pc = "bury", !.op = "reject", !.advanced = TRUE].pc # "write"
  BY <1>0 DEF Jobs
<1>3. Kept => Exact
  OBVIOUS
<1>. HIDE DEF Kept, Exact
<1>4. ASSUME Apply(w) PROVE Exact
  <2>1. \/ GoTo(w, "reject") \/ GoTo(w, "retry") \/ GoTo(w, "check")
        \/ Go(w, [job[w] EXCEPT !.pc = "check", !.op = "gap"])
        \/ Go(w, [job[w] EXCEPT !.pc = "bury", !.op = "reject"])
        \/ /\ Verdict(Ev(w), profile) = "apply"
           /\ Go(w, [job[w] EXCEPT !.pc = "write", !.op = "apply",
                       !.seen = profile, !.draft = Applied(profile, Ev(w))])
    BY <1>4, VerdictRange, Zenon DEF Apply
  <2>2. Ev(w) \in Events
    BY <1>4, BusyTyped DEF Apply, At, TypeInv
  <2>3. CASE Verdict(Ev(w), profile) = "apply"
              /\ Go(w, [job[w] EXCEPT !.pc = "write", !.op = "apply",
                          !.seen = profile, !.draft = Applied(profile, Ev(w))])
    <3>1. Ev(w).ver = profile.last + 1 /\ profile.fence = NoFence
      BY <1>0, <2>2, <2>3, VerdictApply
    <3>. QED BY <1>1, <2>3, <3>1
  <2>4. CASE \/ GoTo(w, "reject") \/ GoTo(w, "retry") \/ GoTo(w, "check")
             \/ Go(w, [job[w] EXCEPT !.pc = "check", !.op = "gap"])
             \/ Go(w, [job[w] EXCEPT !.pc = "bury", !.op = "reject"])
    BY <1>2, <1>3, <2>4, GoWithoutWrite, MovesWithoutWrite DEF Kept
  <2>. QED BY <2>1, <2>3, <2>4
<1>5. ASSUME Reject(w) PROVE Exact
  <2>1. \/ GoTo(w, "retry") \/ Leaving(w, "return")
        \/ Go(w, [job[w] EXCEPT !.pc = "bury", !.op = "reject", !.advanced = TRUE])
        \/ /\ ~(Ev(w).ver <= profile.last) /\ ~(Ev(w).ver > profile.last + 1)
           /\ Go(w, [job[w] EXCEPT !.pc = "write", !.op = "reject",
                       !.seen = profile, !.draft = Rejected(profile, Ev(w))])
    BY <1>5, Zenon DEF Reject
  <2>2. Ev(w).ver \in Nat /\ profile.last \in Nat
    BY <1>5, <1>0, BusyTyped DEF Reject, At, TypeInv, Profiles
  <2>3. CASE /\ ~(Ev(w).ver <= profile.last) /\ ~(Ev(w).ver > profile.last + 1)
             /\ Go(w, [job[w] EXCEPT !.pc = "write", !.op = "reject",
                         !.seen = profile, !.draft = Rejected(profile, Ev(w))])
    <3>1. Ev(w).ver = profile.last + 1
      BY <2>2, <2>3
    <3>. QED BY <1>1, <2>3, <3>1
  <2>4. CASE \/ GoTo(w, "retry") \/ Leaving(w, "return")
             \/ Go(w, [job[w] EXCEPT !.pc = "bury", !.op = "reject", !.advanced = TRUE])
    BY <1>2, <1>3, <2>4, GoWithoutWrite, MovesWithoutWrite DEF Kept
  <2>. QED BY <2>1, <2>3, <2>4
<1>6. ASSUME Finalize(w) PROVE Exact
  <2>1. \/ GoTo(w, "ack") \/ Leaving(w, "return")
        \/ Go(w, [job[w] EXCEPT !.pc = "write", !.op = "finalize",
                    !.seen = profile, !.draft = Lifted(profile)])
    BY <1>6, Zenon DEF Finalize
  <2>2. CASE Go(w, [job[w] EXCEPT !.pc = "write", !.op = "finalize",
                      !.seen = profile, !.draft = Lifted(profile)])
    BY <1>1, <2>2
  <2>3. CASE GoTo(w, "ack") \/ Leaving(w, "return")
    BY <1>3, <2>3, MovesWithoutWrite DEF Kept
  <2>. QED BY <2>1, <2>2, <2>3
<1>7. profile' = profile /\ visit' = visit
  BY DEF Apply, Reject, Finalize
<1>. QED BY <1>4, <1>5, <1>6, <1>7 DEF Exact

(* What a step does to the point. *)
PointStep == profile' = profile \/ (Ledger!LNext /\ profile'.pv >= profile.pv)

(* A write that wins makes every other snapshot older than the point. *)
LEMMA StillPreparedAfterWrite ==
  ASSUME TypeInv, CasInv, Sound(profile'),
         profile' \in Profiles,
         \/ profile'.rev = profile.rev + 1 /\ profile'.pv = profile.pv
         \/ /\ profile'.rev = profile.rev /\ profile'.pv = profile.pv + 1
            /\ profile'.log = profile.log,
         \A x \in Workers : job'[x].pc = "write" => job'[x] = job[x],
         visit'.pc = "write" => visit' = visit
  PROVE  CasInv'
<1>1. /\ profile.rev \in Nat /\ profile.pv \in Nat
      /\ \A s \in Profiles : s.rev \in Nat /\ s.pv \in Nat
  BY DEF TypeInv, Profiles
<1>2. ASSUME NEW s \in Profiles, Snapshot(s) PROVE Snapshot(s)'
  BY <1>1, <1>2 DEF Snapshot
<1>3. \A x \in Workers : job[x].seen \in Profiles
  BY DEF TypeInv, JobInv, Jobs
<1>4. visit.seen \in Profiles
  BY DEF TypeInv, VisitInv
<1>5. (\A x \in Workers : job[x].pc = "write" => Prepared(job[x]))'
  BY <1>2, <1>3 DEF CasInv, Prepared, Drafted
<1>6. (visit.pc = "write" => Snapshot(visit.seen) /\ Sound(visit.seen))'
  BY <1>2, <1>4 DEF CasInv
<1>. QED BY <1>5, <1>6 DEF CasInv

LEMMA WritingSteps ==
  ASSUME TypeInv, profile' \in Profiles, CasInv, NEW w \in Workers,
         Write(w) \/ WriteUnanswered(w)
  PROVE  CasInv' /\ PointStep
<1>1. job[w].pc = "write" /\ Prepared(job[w])
  BY DEF Write, WriteUnanswered, At, CasInv
<1>2. \A x \in Workers : job'[x].pc = "write" => job'[x] = job[x]
  BY MovesWithoutWrite DEF Write, WriteUnanswered, AfterFailure
<1>3. visit' = visit
  BY DEF Write, WriteUnanswered
<1>4. CASE profile' = profile
  BY <1>2, <1>3, <1>4, StillPrepared DEF PointStep
<1>5. CASE profile' # profile
  <2>1. Matches(profile, job[w].seen) /\ profile' = job[w].draft
    BY <1>5 DEF Write, WriteUnanswered, Swap
  <2>2. /\ Sound(profile') /\ Ledger!LNext
        /\ profile'.rev = profile.rev + 1 /\ profile'.pv = profile.pv
    BY <1>1, <2>1, DraftWins
  <2>3. profile'.pv >= profile.pv
    BY <2>2 DEF TypeInv, Profiles
  <2>. QED BY <1>2, <1>3, <2>2, <2>3, StillPreparedAfterWrite DEF PointStep
<1>. QED BY <1>4, <1>5

LEMMA OnboardingSteps ==
  ASSUME TypeInv, profile' \in Profiles, CasInv, Onboarding
  PROVE  CasInv' /\ PointStep
<1>1. job' = job
  BY DEF Onboarding, OnboardStart, OnboardWrite, OnboardEnd, OnboardCrash
<1>2. NoVisit.pc = "idle"
  BY DEF NoVisit
<1>3. CASE OnboardStart \/ OnboardEnd \/ OnboardCrash
  <2>1. profile' = profile /\ (visit'.pc = "write" => visit'.seen = profile)
    BY <1>2, <1>3 DEF OnboardStart, OnboardEnd, OnboardCrash
  <2>. QED BY <1>1, <2>1, StillPrepared DEF PointStep
<1>4. CASE OnboardWrite
  <2>1. visit'.pc # "write"
    BY <1>4 DEF OnboardWrite, TypeInv, VisitInv
  <2>2. CASE profile' = profile
    BY <1>1, <2>1, <2>2, StillPrepared DEF PointStep
  <2>3. CASE profile' # profile
    <3>1. /\ Matches(profile, visit.seen) /\ Snapshot(visit.seen) /\ Sound(visit.seen)
          /\ profile' = Onboarded(visit.seen, visit.seen.pv + 1)
      BY <1>4, <2>3 DEF OnboardWrite, CasInv
    <3>2. /\ Sound(profile') /\ Ledger!LiftFence
          /\ profile'.rev = profile.rev /\ profile'.pv = profile.pv + 1
          /\ profile'.log = profile.log
      BY <3>1, OnboardWins
    <3>3. profile'.pv >= profile.pv
      BY <3>2 DEF TypeInv, Profiles
    <3>. QED BY <1>1, <2>1, <3>2, <3>3, StillPreparedAfterWrite DEF PointStep, Ledger!LNext
  <2>. QED BY <2>2, <2>3
<1>. QED BY <1>3, <1>4 DEF Onboarding

LEMMA CasStep == TypeInv /\ TypeInv' /\ CasInv /\ [Next]_vars => CasInv' /\ PointStep
<1>. SUFFICES ASSUME TypeInv, TypeInv', CasInv, [Next]_vars PROVE CasInv' /\ PointStep
  OBVIOUS
<1>0. profile' \in Profiles
  BY DEF TypeInv
<1>1. Quiet => CasInv' /\ PointStep
  BY StillPrepared DEF Quiet, PointStep
<1>2. ASSUME NEW w \in Workers, Step(w) \/ Broken(w) PROVE CasInv' /\ PointStep
  <2>1. CASE Write(w) \/ WriteUnanswered(w)
    BY <1>0, <2>1, WritingSteps
  <2>2. CASE Apply(w) \/ Reject(w) \/ Finalize(w)
    BY <2>2, PreparingSteps, StillPrepared DEF PointStep
  <2>3. CASE ~(Write(w) \/ WriteUnanswered(w)) /\ ~(Apply(w) \/ Reject(w) \/ Finalize(w))
    BY <1>1, <1>2, <2>3, WorkerQuiet DEF Step, Broken
  <2>. QED BY <2>1, <2>2, <2>3
<1>3. ASSUME NEW w \in Workers, NEW m \in pel, Reclaim(w, m) PROVE CasInv' /\ PointStep
  BY <1>1, <1>3, WorkerQuiet
<1>4. ASSUME \/ \E e \in Events : Accept(e)
             \/ \E i \in Ids : AcceptKeyExpires(i)
             \/ LockExpires \/ \E h \in Holders : RenewLost(h)
             \/ \E d \in dlq : Replay(d)
             \/ UNCHANGED vars
      PROVE  CasInv' /\ PointStep
  <2>1. Quiet
    BY <1>4 DEF Accept, AcceptKeyExpires, LockExpires, RenewLost, Replay, vars, Quiet
  <2>. QED BY <1>1, <2>1
<1>5. CASE Onboarding
  BY <1>0, <1>5, OnboardingSteps
<1>. QED BY <1>2, <1>3, <1>4, <1>5 DEF Next

LEMMA CasInit == Init => CasInv
<1>. SUFFICES ASSUME Init PROVE CasInv
  OBVIOUS
<1>1. PICK pv \in InitialPV : profile = EmptyProfile(pv)
  BY DEF Init
<1>2. Sound(profile)
  BY <1>1 DEF EmptyProfile, Sound, Ordered, Fenced
<1>3. \A w \in Workers : job[w].pc # "write"
  BY DEF Init, Idle
<1>4. visit.pc # "write"
  BY DEF Init, NoVisit
<1>. QED BY <1>2, <1>3, <1>4 DEF CasInv

LEMMA CasInvariant == Spec => [](TypeInv /\ CasInv)
<1>1. Init => TypeInv /\ CasInv
  BY InitTyped, CasInit
<1>2. TypeInv /\ CasInv /\ [Next]_vars => (TypeInv /\ CasInv)'
  BY NextTyped, CasStep
<1>. QED BY <1>1, <1>2, PTL DEF Spec

(* Feedback versions are settled exactly once and in order, whatever is    *)
(* redelivered, replayed, accepted twice or written under an expired lock. *)
THEOREM OrderedTheorem == Spec => []LedgerOrdered
<1>1. TypeInv /\ CasInv => LedgerOrdered
  BY DEF CasInv, Sound, Ordered, LedgerOrdered
<1>. QED BY <1>1, CasInvariant, PTL

(* A fence guards the version the cursor stands at: nothing was applied    *)
(* past a rejection that awaits its dead-letter copy.                      *)
THEOREM FenceTheorem == Spec => []FenceAtCursor
<1>1. TypeInv /\ CasInv => FenceAtCursor
  BY DEF CasInv, Sound, Fenced, FenceAtCursor
<1>. QED BY <1>1, CasInvariant, PTL

(* A stored profile version is never replaced by an older one. *)
THEOREM ForwardTheorem == Spec => ProfileForward
<1>1. TypeInv /\ CasInv /\ (TypeInv /\ CasInv)' /\ [Next]_vars => [profile'.pv >= profile.pv]_vars
  <2>. SUFFICES ASSUME TypeInv, CasInv, TypeInv', [Next]_vars PROVE profile'.pv >= profile.pv
    OBVIOUS
  <2>1. profile.pv \in Nat
    BY DEF TypeInv, Profiles
  <2>. QED BY <2>1, CasStep DEF PointStep
<1>. QED BY <1>1, CasInvariant, PTL DEF Spec, ProfileForward

(* The feedback path implements OrderedLedger: under every interleaving of *)
(* workers, crashes, expired locks, unanswered writes, replays and         *)
(* onboarding, the profile point moves as one ordered ledger.              *)
THEOREM Refinement == Spec => LedgerSpec
<1>1. Init => Ledger!LInit
  BY DEF Init, EmptyProfile, Ledger!LInit
<1>2. TypeInv /\ CasInv /\ (TypeInv /\ CasInv)' /\ [Next]_vars => [Ledger!LNext]_(Ledger!lvars)
  BY CasStep DEF PointStep, Ledger!lvars
<1>. QED BY <1>1, <1>2, CasInvariant, PTL DEF Spec, LedgerSpec, Ledger!LSpec

-----------------------------------------------------------------------------
(***************************************************************************)
(* No accepted feedback event is lost: it is in the stream, in the         *)
(* dead-letter stream, or behind the cursor, and a remembered rejection    *)
(* has its copy or its source entry.                                       *)
(*                                                                         *)
(* Two deliveries of one event can be in flight at once, and an operator   *)
(* may replay a copy before its source entry was acknowledged.  What lets  *)
(* an entry be acknowledged is therefore never another entry that is older *)
(* (Secured): the cursor, a copy, or an entry created later.               *)
(***************************************************************************)

(* No two events of the user are one version under one identity: the       *)
(* producer answers event_id_conflict to a second payload.                 *)
UniqueMarks == \A e, f \in Events : MarkOf(e) = MarkOf(f) => e = f

(* The events the lane rejects for what they are. *)
Poison == {"malformed", "limited"}

(* The messages someone may still handle. *)
Held == stream \cup {job[w].msg : w \in {x \in Workers : job[x].pc # "idle"}}

(* Should m be acknowledged, its event is still accounted for. *)
Secured(m) ==
  \/ m.ev.ver <= profile.last
  \/ \E d \in dlq : d.ev = m.ev
  \/ \E n \in stream : n.mid > m.mid /\ n.ev = m.ev

Kept(m) == Secured(m) /\ m.ev \in buried
Past(e) == e.ver <= profile.last /\ ~Remembered(e, profile)

(* What a delivery's place tells of its event. *)
JobGood(j) ==
  /\ j.pc = "finalize" \/ (j.pc \in Writing /\ j.op = "finalize") => Kept(j.msg)
  /\ j.pc = "ack" => Kept(j.msg) \/ Past(j.msg.ev)
  /\ j.pc = "check" /\ j.op # "gap" => Past(j.msg.ev)
  /\ j.pc \in Writing /\ j.op = "apply" =>
       j.draft.last = j.msg.ev.ver /\ j.msg.ev.kind \notin Poison
  /\ j.pc = "reject" \/ (j.pc = "write" /\ j.op = "reject") =>
       j.msg.ev.kind \in Poison \/ j.msg.ev.ver <= profile.last

(* A message is what its id says, and its copy was made under that id. *)
Mids ==
  /\ \A m \in Held : m.mid < nextMid
  /\ \A m, n \in Held : m.mid = n.mid => m = n
  /\ \A i \in dlqSeen : i < nextMid
  /\ \A m \in Held : m.mid \in dlqSeen => Kept(m)

(* The history holds rejections of versions the cursor passed. *)
HistoryOld(p) ==
  \A i \in DOMAIN p.history :
    /\ p.history[i].ver <= p.last
    /\ p.history[i].ver = p.last => p.status = "rejected"

(* The fields of a snapshot that is still current, beside its log. *)
Current(s) ==
  s.rev = profile.rev =>
    s.last = profile.last /\ s.history = profile.history /\ s.status = profile.status

Remembering ==
  /\ HistoryOld(profile)
  /\ \A e \in Events : Remembered(e, profile) => e.kind \in Poison
  /\ \A w \in Workers : job[w].pc = "write" => Current(job[w].seen)
  /\ visit.pc = "write" => Current(visit.seen)

CustodyInv ==
  /\ Mids /\ Remembering
  /\ \A w \in Workers : JobGood(job[w])
  /\ \A d \in dlq : d.ev \in buried
  /\ NothingLost

-----------------------------------------------------------------------------
(* What a step must keep for the rest to follow. *)
Keeps ==
  /\ profile'.last >= profile.last
  /\ \A f \in Events : Remembered(f, profile') =>
       Remembered(f, profile) \/ (f.ver > profile.last /\ f.kind \in Poison)
  /\ \A d \in dlq : d \in dlq' \/ \E n \in stream' : n.ev = d.ev /\ n.mid = nextMid
  /\ \A n \in stream : \/ n \in stream'
                       \/ /\ Kept(n) \/ Past(n.ev)
                          /\ \A k \in stream : k # n => k \in stream'
  /\ buried \subseteq buried'
  /\ \A e \in enqueued' : e \in enqueued \/ InStream(e)'

LEMMA Numbers ==
  ASSUME TypeInv
  PROVE  /\ profile.last \in Nat /\ nextMid \in Nat
         /\ \A e \in Events : e.ver \in Nat /\ e.id \in Ids
         /\ Held \subseteq Messages /\ stream \subseteq Held
         /\ \A m \in Messages : m.mid \in Nat /\ m.ev \in Events
         /\ \A d \in dlq : d.ev \in Events
<1>1. profile.last \in Nat /\ nextMid \in Nat
  BY DEF TypeInv, QueueInv, Profiles
<1>2. \A e \in Events : e.ver \in Nat /\ e.id \in Ids
  BY ConstantsAssumption DEF Ids
<1>3. \A w \in Workers : job[w].pc # "idle" => job[w].msg \in Messages
  BY DEF TypeInv, JobInv, JobOK
<1>4. stream \subseteq Messages
  BY DEF TypeInv, QueueInv
<1>5. \A m \in Messages : m.mid \in Nat /\ m.ev \in Events
  BY DEF Messages
<1>6. \A d \in dlq : d.ev \in Events
  BY DEF TypeInv, DeadInv, DeadLetters
<1>. QED BY <1>1, <1>2, <1>3, <1>4, <1>5, <1>6 DEF Held

(* What was accounted for stays accounted for. *)
LEMMA SecuredStays ==
  ASSUME TypeInv, TypeInv', CustodyInv, Keeps, NEW m \in Held, Secured(m)
  PROVE  Secured(m)'
<1>1. /\ profile.last \in Nat /\ profile'.last \in Nat /\ nextMid \in Nat
      /\ m.mid \in Nat /\ m.ev.ver \in Nat /\ m.mid < nextMid
      /\ \A n \in stream : n.mid \in Nat /\ n \in Held
  BY Numbers DEF CustodyInv, Mids, TypeInv, Profiles
<1>2. ASSUME m.ev.ver <= profile.last PROVE Secured(m)'
  BY <1>1, <1>2 DEF Keeps, Secured
<1>3. ASSUME NEW d \in dlq, d.ev = m.ev PROVE Secured(m)'
  <2>1. CASE d \in dlq'
    BY <1>3, <2>1 DEF Secured
  <2>2. CASE \E n \in stream' : n.ev = d.ev /\ n.mid = nextMid
    BY <1>1, <1>3, <2>2 DEF Secured
  <2>. QED BY <2>1, <2>2 DEF Keeps
<1>4. ASSUME NEW n \in stream, n.mid > m.mid, n.ev = m.ev PROVE Secured(m)'
  <2>1. CASE n \in stream'
    BY <1>4, <2>1 DEF Secured
  <2>2. CASE /\ Kept(n) \/ Past(n.ev)
             /\ \A k \in stream : k # n => k \in stream'
    <3>1. Secured(n)
      BY <2>2 DEF Kept, Past, Secured
    <3>2. CASE \E k \in stream : k.mid > n.mid /\ k.ev = n.ev
      <4>. PICK k \in stream : k.mid > n.mid /\ k.ev = n.ev
        BY <3>2
      <4>1. k # n /\ k.mid > m.mid /\ k.ev = m.ev
        BY <1>1, <1>4
      <4>. QED BY <2>2, <4>1 DEF Secured
    <3>3. CASE n.ev.ver <= profile.last \/ \E d \in dlq : d.ev = n.ev
      BY <1>2, <1>3, <1>4, <3>3
    <3>. QED BY <3>1, <3>2, <3>3 DEF Secured
  <2>. QED BY <2>1, <2>2 DEF Keeps
<1>. QED BY <1>2, <1>3, <1>4 DEF Secured

LEMMA KeptAndPastStay ==
  ASSUME TypeInv, TypeInv', CustodyInv, Keeps
  PROVE  /\ \A m \in Held : Kept(m) => Kept(m)'
         /\ \A e \in Events : Past(e) => Past(e)'
         /\ \A m \in Held : Past(m.ev) => Past(m.ev)'
<1>1. \A m \in Held : Kept(m) => Kept(m)'
  BY SecuredStays DEF Kept, Keeps
<1>2. ASSUME NEW e \in Events, Past(e) PROVE Past(e)'
  <2>1. profile.last \in Nat /\ profile'.last \in Nat /\ e.ver \in Nat
    BY Numbers DEF TypeInv, Profiles
  <2>2. e.ver <= profile'.last /\ ~Remembered(e, profile')
    BY <1>2, <2>1 DEF Past, Keeps
  <2>. QED BY <2>2 DEF Past, Remembered
<1>. QED BY <1>1, <1>2, Numbers

LEMMA NothingLostStays ==
  ASSUME TypeInv, TypeInv', CustodyInv, Keeps
  PROVE  NothingLost'
<1>0. /\ profile.last \in Nat /\ profile'.last \in Nat
      /\ \A e \in Events : e.ver \in Nat
      /\ enqueued \subseteq Events /\ enqueued' \subseteq Events
  BY Numbers DEF TypeInv, Profiles, QueueInv
<1>1. ASSUME NEW e \in enqueued', e \notin enqueued PROVE InStream(e)'
  BY <1>1 DEF Keeps
<1>2. ASSUME NEW e \in enqueued
      PROVE  InStream(e)' \/ (\E d \in dlq' : d.ev = e) \/ e.ver <= profile'.last
  <2>1. CASE e.ver <= profile.last
    BY <1>0, <2>1 DEF Keeps
  <2>2. CASE \E d \in dlq : d.ev = e
    BY <2>2 DEF Keeps, InStream
  <2>3. CASE InStream(e)
    <3>1. PICK n \in stream : n.ev = e
      BY <2>3 DEF InStream
    <3>2. CASE n \in stream'
      BY <3>1, <3>2 DEF InStream
    <3>3. CASE /\ Kept(n) \/ Past(n.ev)
               /\ \A k \in stream : k # n => k \in stream'
      <4>1. n.mid \in Nat
        BY Numbers
      <4>2. \/ e.ver <= profile.last \/ \E d \in dlq : d.ev = e
            \/ \E k \in stream : k # n /\ k.ev = e
        BY <3>1, <3>3, <4>1 DEF Kept, Past, Secured
      <4>3. CASE \E k \in stream : k # n /\ k.ev = e
        BY <3>3, <4>3 DEF InStream
      <4>. QED BY <2>1, <2>2, <4>2, <4>3
    <3>. QED BY <3>2, <3>3 DEF Keeps
  <2>. QED BY <2>1, <2>2, <2>3 DEF CustodyInv, NothingLost, Custody
<1>3. ASSUME NEW e \in enqueued, Remembered(e, profile') PROVE e \in buried' \/ InStream(e)'
  <2>1. CASE e \in buried
    BY <2>1 DEF Keeps
  <2>2. CASE InStream(e) /\ (Past(e) => FALSE)
    <3>1. PICK n \in stream : n.ev = e
      BY <2>2 DEF InStream
    <3>2. n \in stream' \/ Kept(n) \/ Past(e)
      BY <3>1 DEF Keeps
    <3>. QED BY <2>1, <2>2, <3>1, <3>2 DEF Kept, InStream
  <2>3. CASE Remembered(e, profile)
    BY <2>1, <2>2, <2>3 DEF CustodyInv, NothingLost, RejectedPreserved, Past
  <2>4. CASE e.ver > profile.last
    <3>1. ~(e.ver <= profile.last)
      BY <1>0, <2>4
    <3>2. InStream(e) \/ \E d \in dlq : d.ev = e
      BY <3>1 DEF CustodyInv, NothingLost, Custody
    <3>. QED BY <2>1, <2>2, <3>1, <3>2 DEF CustodyInv, Past
  <2>. QED BY <1>0, <1>3, <2>3, <2>4 DEF Keeps
<1>4. Custody'
  BY <1>1, <1>2 DEF Custody
<1>5. RejectedPreserved'
  BY <1>1, <1>3 DEF RejectedPreserved
<1>. QED BY <1>4, <1>5 DEF NothingLost

LEMMA JobGoodStays ==
  ASSUME TypeInv, TypeInv', CustodyInv, Keeps, NEW j, j.msg \in Held, JobGood(j)
  PROVE  JobGood(j)'
<1>1. /\ profile.last \in Nat /\ profile'.last \in Nat /\ profile'.last >= profile.last
      /\ j.msg.ev.ver \in Nat /\ j.msg.ev \in Events
  BY Numbers DEF TypeInv, Profiles, Keeps
<1>2. (Kept(j.msg) => Kept(j.msg)') /\ (Past(j.msg.ev) => Past(j.msg.ev)')
  BY KeptAndPastStay
<1>. QED BY <1>1, <1>2 DEF JobGood

(* The places of a delivery that promise nothing. *)
Free == {"idle", "lock", "apply", "retry", "bury", "clear", "exit"}

LEMMA FreeGood == \A j : j.pc \in Free => JobGood(j) /\ JobGood(j)'
BY DEF Free, JobGood, Writing

(* Only messages of the stream are taken up, and ids are never reused. *)
LEMMA MidsStay ==
  ASSUME TypeInv, TypeInv', CustodyInv, Keeps, Held' \subseteq Held,
         nextMid' = nextMid, dlqSeen' = dlqSeen
  PROVE  Mids'
<1>1. \A m \in Held : Kept(m) => Kept(m)'
  BY KeptAndPastStay
<1>. QED BY <1>1 DEF CustodyInv, Mids

LEMMA HeldStays ==
  ASSUME TypeInv, TypeInv', NEW w \in Workers, NEW j, Go(w, j), stream' \subseteq stream,
         j.pc = "idle" \/ j.msg \in Held
  PROVE  Held' \subseteq Held
<1>1. \A x \in Workers : job'[x] = IF x = w THEN j ELSE job[x]
  BY DEF Go, TypeInv, JobInv
<1>. QED BY <1>1 DEF Held

(* A step of one worker: the other deliveries stay as good as they were. *)
LEMMA WorkerMoves ==
  ASSUME TypeInv, TypeInv', CustodyInv, Keeps, NEW w \in Workers, NEW j, Go(w, j),
         Mids', Remembering', \A d \in dlq' : d.ev \in buried',
         j.pc \in Free \/ JobGood(j)'
  PROVE  CustodyInv'
<1>1. \A x \in Workers : job'[x] = IF x = w THEN j ELSE job[x]
  BY DEF Go, TypeInv, JobInv
<1>2. \A x \in Workers : JobGood(job[x])'
  <2>. SUFFICES ASSUME NEW x \in Workers PROVE JobGood(job[x])'
    OBVIOUS
  <2>1. CASE x = w
    BY <1>1, <2>1, FreeGood
  <2>2. CASE x # w /\ job[x].pc = "idle"
    BY <1>1, <2>2, FreeGood DEF Free
  <2>3. CASE x # w /\ job[x].pc # "idle"
    <3>1. job[x].msg \in Held /\ JobGood(job[x])
      BY <2>3 DEF Held, CustodyInv
    <3>. QED BY <1>1, <2>3, <3>1, JobGoodStays
  <2>. QED BY <2>1, <2>2, <2>3
<1>3. NothingLost'
  BY NothingLostStays
<1>. QED BY <1>2, <1>3 DEF CustodyInv

(* While the point stands, what is remembered stands. *)
LEMMA RememberingStays ==
  ASSUME TypeInv, TypeInv', CustodyInv, NEW w \in Workers, NEW j, Go(w, j),
         profile' = profile, visit' = visit, j.pc = "write" => j.seen = profile
  PROVE  Remembering'
<1>1. \A x \in Workers : job'[x] = IF x = w THEN j ELSE job[x]
  BY DEF Go, TypeInv, JobInv
<1>2. \A s : Current(s) => Current(s)'
  BY DEF Current
<1>3. Current(profile)'
  BY DEF Current
<1>4. (\A x \in Workers : job[x].pc = "write" => Current(job[x].seen))'
  BY <1>1, <1>2, <1>3 DEF CustodyInv, Remembering
<1>. QED BY <1>2, <1>4 DEF CustodyInv, Remembering, Remembered, HistoryOld

(* A step of one worker that leaves the point and the copies alone. *)
LEMMA WorkerGood ==
  ASSUME TypeInv, TypeInv', CasInv, CustodyInv, Keeps, NEW w \in Workers, NEW j, Go(w, j),
         stream' \subseteq stream, profile' = profile, visit' = visit,
         nextMid' = nextMid, dlqSeen' = dlqSeen, \A d \in dlq' : d.ev \in buried',
         j.pc \in Free \/ JobGood(j)', j.pc = "idle" \/ j.msg \in Held,
         j.pc = "write" => j.seen = profile
  PROVE  CustodyInv'
<1>1. Mids'
  BY HeldStays, MidsStay
<1>. QED BY <1>1, RememberingStays, WorkerMoves

(* Most steps of a worker move nothing but its own delivery. *)
OnlyJob ==
  UNCHANGED <<accepted, stream, nextMid, enqueued, dlq, dlqSeen, buried, profile, visit>>

LEMMA OnlyJobKeeps == TypeInv /\ OnlyJob => Keeps
BY DEF OnlyJob, Keeps, Remembered, TypeInv, Profiles

LEMMA OnlyJobGood ==
  ASSUME TypeInv, TypeInv', CasInv, CustodyInv, OnlyJob, NEW w \in Workers, NEW j, Go(w, j),
         j.pc \in Free \/ JobGood(j), j.pc = "idle" \/ j.msg \in Held,
         j.pc = "write" => j.seen = profile
  PROVE  CustodyInv'
<1>1. Keeps
  BY OnlyJobKeeps
<1>2. j.pc \in Free \/ JobGood(j)'
  BY <1>1, JobGoodStays, FreeGood DEF Free
<1>. QED BY <1>1, <1>2, WorkerGood DEF OnlyJob, CustodyInv

(* A busy worker moves on with its message. *)
LEMMA BusyHeld ==
  ASSUME TypeInv, NEW w \in Workers, job[w].pc # "idle"
  PROVE  /\ job[w].msg \in Held /\ job[w] \in Jobs /\ Ev(w) = job[w].msg.ev
         /\ Ev(w) \in Events /\ Ev(w).ver \in Nat
BY BusyTyped DEF TypeInv, Held, Ev, JobOK

LEMMA FreeStep ==
  ASSUME TypeInv, TypeInv', CasInv, CustodyInv, OnlyJob, NEW w \in Workers, job[w].pc # "idle",
         NEW j, Go(w, j), j.pc \in Free, j.pc = "idle" \/ j.msg = job[w].msg
  PROVE  CustodyInv'
<1>1. job[w].msg \in Held /\ j.pc # "write"
  BY BusyHeld DEF Free
<1>. QED BY <1>1, OnlyJobGood

LEMMA FreeMoves ==
  ASSUME TypeInv, TypeInv', CasInv, CustodyInv, OnlyJob, NEW w \in Workers, job[w].pc # "idle"
  PROVE  /\ \A pc \in Free : GoTo(w, pc) => CustodyInv'
         /\ \A after : Leaving(w, after) => CustodyInv'
         /\ Go(w, Idle) => CustodyInv'
<1>1. job[w] \in Jobs
  BY BusyHeld
<1>2. \A pc : [job[w] EXCEPT !.pc = pc].pc = pc /\ [job[w] EXCEPT !.pc = pc].msg = job[w].msg
  BY <1>1 DEF Jobs
<1>3. \A after : /\ [job[w] EXCEPT !.pc = "exit", !.after = after].pc = "exit"
                 /\ [job[w] EXCEPT !.pc = "exit", !.after = after].msg = job[w].msg
  BY <1>1 DEF Jobs
<1>4. "exit" \in Free /\ Idle.pc \in Free /\ Idle.pc = "idle"
  BY DEF Free, Idle
<1>5. \A pc \in Free : GoTo(w, pc) => CustodyInv'
  BY <1>2, FreeStep DEF GoTo
<1>6. \A after : Leaving(w, after) => CustodyInv'
  BY <1>3, <1>4, FreeStep DEF Leaving
<1>7. Go(w, Idle) => CustodyInv'
  BY <1>4, FreeStep
<1>. QED BY <1>5, <1>6, <1>7

(* The steps that promise nothing for the delivery. *)
LEMMA FreeSteps ==
  ASSUME TypeInv, TypeInv', CasInv, CustodyInv, NEW w \in Workers
  PROVE  /\ ReadNew(w) => CustodyInv'
         /\ \A m \in pel : Reclaim(w, m) => CustodyInv'
         /\ Acquire(w) \/ LockBusy(w) \/ NotOwned(w) => CustodyInv'
         /\ Retry(w) \/ ClearAttempts(w) => CustodyInv'
         /\ Exit(w) \/ ReleaseFails(w) \/ Escape(w) \/ Crash(w) => CustodyInv'
<1>1. ASSUME NEW m \in stream, Start(w, m), OnlyJob PROVE CustodyInv'
  <2>. DEFINE anonymous == m.ev.kind = "anonymous"
              j == [Idle EXCEPT !.msg = m,
                      !.op = IF anonymous THEN "reject" ELSE "apply",
                      !.pc = IF anonymous THEN "bury" ELSE "lock"]
  <2>1. j.pc \in Free /\ j.pc # "write" /\ j.msg = m
    BY DEF Idle, Free
  <2>2. m \in Held
    BY DEF Held
  <2>3. Go(w, j)
    BY <1>1 DEF Start
  <2>. HIDE DEF j
  <2>. QED BY <1>1, <2>1, <2>2, <2>3, OnlyJobGood
<1>2. ReadNew(w) => CustodyInv'
  BY <1>1 DEF ReadNew, OnlyJob, deadVars
<1>3. \A m \in pel : Reclaim(w, m) => CustodyInv'
  BY <1>1 DEF Reclaim, OnlyJob, deadVars, queueVars, TypeInv, QueueInv
<1>4. /\ {"idle", "retry", "exit", "apply", "bury"} \subseteq Free
      /\ job[w].pc # "idle" => job[w] \in Jobs
  BY BusyHeld DEF Free
<1>5. ASSUME Acquire(w) PROVE CustodyInv'
  <2>. DEFINE j == [job[w] EXCEPT !.pc = "apply", !.held = TRUE]
  <2>1. OnlyJob /\ job[w].pc # "idle" /\ Go(w, j)
    BY <1>5 DEF Acquire, At, OnlyJob, deadVars, queueVars
  <2>2. j.pc = "apply" /\ j.msg = job[w].msg
    BY <2>1, <1>4 DEF Jobs
  <2>. QED BY <1>4, <2>1, <2>2, FreeStep
<1>6. ASSUME LockBusy(w) \/ NotOwned(w) PROVE CustodyInv'
  <2>1. OnlyJob /\ job[w].pc # "idle"
    BY <1>6 DEF LockBusy, NotOwned, At, OnlyJob, deadVars, queueVars
  <2>. QED BY <1>6, <2>1, FreeMoves DEF LockBusy, NotOwned
<1>7. ASSUME Retry(w) PROVE CustodyInv'
  <2>. DEFINE j == [job[w] EXCEPT !.pc = "bury", !.op = "exhaust"]
  <2>1. OnlyJob /\ job[w].pc # "idle" /\ (Leaving(w, "return") \/ Go(w, j))
    BY <1>7 DEF Retry, At, OnlyJob, deadVars, queueVars
  <2>2. j.pc = "bury" /\ j.msg = job[w].msg
    BY <2>1, <1>4 DEF Jobs
  <2>. HIDE DEF j
  <2>. QED BY <1>4, <2>1, <2>2, FreeStep, FreeMoves
<1>8. ASSUME ClearAttempts(w) PROVE CustodyInv'
  <2>. DEFINE j == [job[w] EXCEPT !.pc = "exit", !.after = "return", !.settled = TRUE]
  <2>1. OnlyJob /\ job[w].pc # "idle" /\ Go(w, j)
    BY <1>8 DEF ClearAttempts, At, OnlyJob, deadVars, queueVars
  <2>2. j.pc = "exit" /\ j.msg = job[w].msg
    BY <2>1, <1>4 DEF Jobs
  <2>. QED BY <1>4, <2>1, <2>2, FreeStep
<1>9. ASSUME Exit(w) \/ ReleaseFails(w) PROVE CustodyInv'
  <2>. DEFINE j == [job[w] EXCEPT !.pc = "retry", !.held = FALSE]
  <2>1. OnlyJob /\ job[w].pc # "idle" /\ (Go(w, Idle) \/ Go(w, j))
    BY <1>9 DEF Exit, ReleaseFails, At, OnlyJob, deadVars, queueVars
  <2>2. j.pc = "retry" /\ j.msg = job[w].msg
    BY <2>1, <1>4 DEF Jobs
  <2>. HIDE DEF j
  <2>. QED BY <1>4, <2>1, <2>2, FreeStep, FreeMoves
<1>10. ASSUME Escape(w) \/ Crash(w) PROVE CustodyInv'
  <2>1. OnlyJob /\ job[w].pc # "idle"
    BY <1>10 DEF Escape, Crash, At, OnlyJob, deadVars, queueVars
  <2>. QED BY <1>10, <2>1, FreeMoves DEF Escape, Crash
<1>. QED BY <1>2, <1>3, <1>5, <1>6, <1>7, <1>8, <1>9, <1>10

(* Where the code learns that an event may be acknowledged. *)
LEMMA CheckCustody ==
  ASSUME TypeInv, TypeInv', CasInv, CustodyInv, NEW w \in Workers, Check(w)
  PROVE  CustodyInv'
<1>. DEFINE j == [job[w] EXCEPT !.pc = "ack"]
<1>1. OnlyJob /\ job[w].pc = "check"
  BY DEF Check, At, OnlyJob, deadVars, queueVars
<1>2. job[w] \in Jobs /\ job[w].msg \in Held /\ JobGood(job[w])
  BY <1>1, BusyHeld DEF CustodyInv
<1>3. CASE Leaving(w, "return")
  BY <1>1, <1>3, FreeMoves
<1>4. CASE job[w].op # "gap" /\ Go(w, j)
  <2>1. j.pc = "ack" /\ j.msg = job[w].msg
    BY <1>2 DEF Jobs
  <2>2. Past(job[w].msg.ev)
    BY <1>1, <1>2, <1>4 DEF JobGood
  <2>. HIDE DEF j
  <2>3. JobGood(j)
    BY <2>1, <2>2 DEF JobGood, Writing
  <2>. QED BY <1>1, <1>2, <1>4, <2>1, <2>3, OnlyJobGood
<1>. QED BY <1>3, <1>4 DEF Check, GoTo

LEMMA VerifyCustody ==
  ASSUME TypeInv, TypeInv', CasInv, CustodyInv, NEW w \in Workers, Verify(w)
  PROVE  CustodyInv'
<1>1. OnlyJob /\ job[w].pc = "verify"
  BY DEF Verify, At, OnlyJob, deadVars, queueVars
<1>2. /\ job[w] \in Jobs /\ job[w].msg \in Held /\ JobGood(job[w]) /\ job[w].msg.ev \in Events
      /\ job[w].op \in WriteOps /\ job[w].draft \in Profiles /\ job[w].msg.ev.ver \in Nat
  BY <1>1, BusyHeld, BusyTyped DEF CustodyInv, TypeInv, JobInv, JobOK, Writing
<1>3. CASE AfterFailure(w)
  <2>1. "retry" \in Free
    BY DEF Free
  <2>. QED BY <1>1, <1>3, <2>1, FreeMoves DEF AfterFailure
<1>4. CASE Matches(profile, job[w].draft) /\ AfterWrite(w)
  <2>1. CASE job[w].op = "apply"
    <3>. DEFINE j == [job[w] EXCEPT !.pc = "check"]
    <3>1. Go(w, j) /\ j.pc = "check" /\ j.msg = job[w].msg
      BY <1>2, <1>4, <2>1 DEF AfterWrite, GoTo, Jobs
    <3>2. job[w].draft.last = job[w].msg.ev.ver /\ job[w].msg.ev.kind \notin Poison
      BY <1>1, <1>2, <2>1 DEF JobGood, Writing
    <3>3. Past(job[w].msg.ev)
      BY <1>2, <1>4, <3>2 DEF Matches, Past, CustodyInv, Remembering
    <3>. HIDE DEF j
    <3>4. JobGood(j)
      BY <3>1, <3>3 DEF JobGood, Writing
    <3>. QED BY <1>1, <1>2, <3>1, <3>4, OnlyJobGood
  <2>2. CASE job[w].op = "reject"
    <3>. DEFINE j == [job[w] EXCEPT !.pc = "bury", !.advanced = TRUE]
    <3>1. Go(w, j)
      BY <1>4, <2>2 DEF AfterWrite
    <3>2. j.pc = "bury" /\ j.msg = job[w].msg /\ "bury" \in Free
      BY <1>2 DEF Jobs, Free
    <3>. QED BY <1>1, <3>1, <3>2, FreeStep
  <2>3. CASE job[w].op = "finalize"
    <3>. DEFINE j == [job[w] EXCEPT !.pc = "ack"]
    <3>1. Go(w, j) /\ j.pc = "ack" /\ j.msg = job[w].msg
      BY <1>2, <1>4, <2>3 DEF AfterWrite, GoTo, Jobs
    <3>2. Kept(job[w].msg)
      BY <1>1, <1>2, <2>3 DEF JobGood, Writing
    <3>. HIDE DEF j
    <3>3. JobGood(j)
      BY <3>1, <3>2 DEF JobGood, Writing
    <3>. QED BY <1>1, <1>2, <3>1, <3>3, OnlyJobGood
  <2>. QED BY <1>2, <2>1, <2>2, <2>3 DEF WriteOps
<1>. QED BY <1>3, <1>4 DEF Verify

LEMMA ReadFailsCustody ==
  ASSUME TypeInv, TypeInv', CasInv, CustodyInv, NEW w \in Workers, ReadFails(w)
  PROVE  CustodyInv'
<1>1. OnlyJob /\ job[w].pc # "idle"
  BY DEF ReadFails, At, OnlyJob, deadVars, queueVars
<1>2. "retry" \in Free
  BY DEF Free
<1>. QED BY <1>1, <1>2, FreeMoves DEF ReadFails

(* What classification tells of the event. *)
LEMMA VerdictCustody ==
  ASSUME NEW p \in Profiles, Sound(p), HistoryOld(p), NEW e \in Events
  PROVE  /\ Verdict(e, p) = "duplicate" => e.ver <= p.last /\ ~Remembered(e, p)
         /\ Verdict(e, p) = "rejected" => e.kind \in Poison \/ e.ver <= p.last
         /\ Verdict(e, p) = "apply" => e.ver = p.last + 1 /\ e.kind # "limited"
<1>0. p.last \in Nat /\ e.ver \in Nat /\ p.fence \in Mark \cup {NoFence}
  BY ConstantsAssumption DEF Profiles, Ids
<1>1. NextVerdict(e) = "rejected" => e.kind = "limited"
  BY Zenon DEF NextVerdict
<1>2. NextVerdict(e) = "apply" => e.kind # "limited"
  BY Zenon DEF NextVerdict
<1>3. NextVerdict(e) # "duplicate"
  BY Zenon DEF NextVerdict
<1>4. ASSUME VerdictNoFence(e, p) = "duplicate" PROVE e.ver <= p.last /\ ~Remembered(e, p)
  <2>1. \/ e.ver < p.last /\ ~Remembered(e, p)
        \/ e.ver = p.last /\ p.status # "rejected"
    BY <1>3, <1>4, Zenon DEF VerdictNoFence
  <2>2. ASSUME e.ver = p.last, p.status # "rejected", Remembered(e, p) PROVE FALSE
    <3>1. PICK i \in DOMAIN p.history : p.history[i] = MarkOf(e)
      BY <2>2 DEF Remembered
    <3>2. p.history[i].ver = p.last
      BY <2>2, <3>1 DEF MarkOf
    <3>. QED BY <2>2, <3>2 DEF HistoryOld
  <2>. QED BY <1>0, <2>1, <2>2
<1>5. ASSUME VerdictNoFence(e, p) = "rejected" PROVE e.kind \in Poison \/ e.ver <= p.last
  <2>1. e.ver < p.last \/ e.ver = p.last \/ NextVerdict(e) = "rejected"
    BY <1>5, Zenon DEF VerdictNoFence
  <2>. QED BY <1>0, <1>1, <2>1 DEF Poison
<1>6. p.fence = MarkOf(e) => e.ver <= p.last
  BY <1>0, ConstantsAssumption DEF Sound, Fenced, MarkOf, Ids
<1>7. Verdict(e, p) = "duplicate" => VerdictNoFence(e, p) = "duplicate"
  BY Zenon DEF Verdict
<1>8. Verdict(e, p) = "rejected" => p.fence = MarkOf(e) \/ VerdictNoFence(e, p) = "rejected"
  BY Zenon DEF Verdict
<1>9. Verdict(e, p) = "apply" => e.ver = p.last + 1 /\ NextVerdict(e) = "apply"
  <2>1. Verdict(e, p) = "apply" => VerdictNoFence(e, p) = "apply"
    BY Zenon DEF Verdict
  <2>2. VerdictNoFence(e, p) = "apply" => e.ver = p.last + 1 /\ NextVerdict(e) = "apply"
    BY Zenon DEF VerdictNoFence
  <2>. QED BY <2>1, <2>2
<1>. QED BY <1>2, <1>4, <1>5, <1>6, <1>7, <1>8, <1>9

LEMMA ApplyCustody ==
  ASSUME TypeInv, TypeInv', CasInv, CustodyInv, NEW w \in Workers, Apply(w)
  PROVE  CustodyInv'
<1>. DEFINE e == Ev(w)
<1>1. OnlyJob /\ job[w].pc = "apply"
  BY DEF Apply, At, OnlyJob, deadVars, queueVars
<1>2. /\ job[w] \in Jobs /\ job[w].msg \in Held /\ e = job[w].msg.ev /\ e \in Events
      /\ profile \in Profiles /\ Sound(profile) /\ HistoryOld(profile)
  BY <1>1, BusyHeld DEF CasInv, CustodyInv, Remembering, TypeInv
<1>3. {"retry", "bury"} \subseteq Free
  BY DEF Free
<1>4. \/ e.kind = "malformed" /\ GoTo(w, "reject")
      \/ GoTo(w, "retry")
      \/ e.kind # "malformed" /\ Verdict(e, profile) = "rejected" /\ GoTo(w, "reject")
      \/ Go(w, [job[w] EXCEPT !.pc = "check", !.op = "gap"])
      \/ Verdict(e, profile) = "duplicate" /\ GoTo(w, "check")
      \/ Go(w, [job[w] EXCEPT !.pc = "bury", !.op = "reject"])
      \/ /\ e.kind # "malformed" /\ Verdict(e, profile) = "apply"
         /\ Go(w, [job[w] EXCEPT !.pc = "write", !.op = "apply",
                     !.seen = profile, !.draft = Applied(profile, e)])
  BY VerdictRange, Zenon DEF Apply
<1>5. CASE GoTo(w, "reject") /\ (e.kind = "malformed" \/ Verdict(e, profile) = "rejected")
  <2>. DEFINE j == [job[w] EXCEPT !.pc = "reject"]
  <2>1. Go(w, j) /\ j.pc = "reject" /\ j.msg = job[w].msg
    BY <1>2, <1>5 DEF GoTo, Jobs
  <2>2. e.kind \in Poison \/ e.ver <= profile.last
    BY <1>2, <1>5, VerdictCustody DEF Poison
  <2>. HIDE DEF j
  <2>3. JobGood(j)
    BY <1>2, <2>1, <2>2 DEF JobGood, Writing
  <2>. QED BY <1>1, <1>2, <2>1, <2>3, OnlyJobGood
<1>6. CASE GoTo(w, "retry")
  BY <1>1, <1>3, <1>6, FreeMoves
<1>7. CASE Go(w, [job[w] EXCEPT !.pc = "check", !.op = "gap"])
  <2>. DEFINE j == [job[w] EXCEPT !.pc = "check", !.op = "gap"]
  <2>1. Go(w, j) /\ j.pc = "check" /\ j.msg = job[w].msg /\ j.op = "gap"
    BY <1>2, <1>7 DEF Jobs
  <2>. HIDE DEF j
  <2>2. JobGood(j)
    BY <2>1 DEF JobGood, Writing
  <2>. QED BY <1>1, <1>2, <2>1, <2>2, OnlyJobGood
<1>8. CASE Verdict(e, profile) = "duplicate" /\ GoTo(w, "check")
  <2>. DEFINE j == [job[w] EXCEPT !.pc = "check"]
  <2>1. Go(w, j) /\ j.pc = "check" /\ j.msg = job[w].msg
    BY <1>2, <1>8 DEF GoTo, Jobs
  <2>2. Past(e)
    BY <1>2, <1>8, VerdictCustody DEF Past
  <2>. HIDE DEF j
  <2>3. JobGood(j)
    BY <1>2, <2>1, <2>2 DEF JobGood, Writing
  <2>. QED BY <1>1, <1>2, <2>1, <2>3, OnlyJobGood
<1>9. CASE Go(w, [job[w] EXCEPT !.pc = "bury", !.op = "reject"])
  <2>. DEFINE j == [job[w] EXCEPT !.pc = "bury", !.op = "reject"]
  <2>1. j.pc = "bury" /\ j.msg = job[w].msg
    BY <1>2 DEF Jobs
  <2>. QED BY <1>1, <1>3, <1>9, <2>1, FreeStep
<1>10. CASE /\ e.kind # "malformed" /\ Verdict(e, profile) = "apply"
            /\ Go(w, [job[w] EXCEPT !.pc = "write", !.op = "apply",
                        !.seen = profile, !.draft = Applied(profile, e)])
  <2>. DEFINE d == Applied(profile, e)
              j == [job[w] EXCEPT !.pc = "write", !.op = "apply", !.seen = profile, !.draft = d]
  <2>1. /\ Go(w, j) /\ j.pc = "write" /\ j.op = "apply" /\ j.seen = profile /\ j.draft = d
        /\ j.msg = job[w].msg
    BY <1>2, <1>10 DEF Jobs
  <2>2. e.kind \notin Poison /\ e.ver = profile.last + 1
    BY <1>2, <1>10, VerdictCustody DEF Poison
  <2>3. d.last = e.ver
    BY <1>2, <2>2, AdvanceSound DEF Applied
  <2>. HIDE DEF j, d
  <2>4. JobGood(j)
    BY <1>2, <2>1, <2>2, <2>3 DEF JobGood, Writing
  <2>. QED BY <1>1, <1>2, <2>1, <2>4, OnlyJobGood
<1>. QED BY <1>4, <1>5, <1>6, <1>7, <1>8, <1>9, <1>10

LEMMA RejectCustody ==
  ASSUME TypeInv, TypeInv', CasInv, CustodyInv, NEW w \in Workers, Reject(w)
  PROVE  CustodyInv'
<1>. DEFINE e == Ev(w)
            kept == [job[w] EXCEPT !.pc = "bury", !.op = "reject", !.advanced = TRUE]
            j == [job[w] EXCEPT !.pc = "write", !.op = "reject",
                    !.seen = profile, !.draft = Rejected(profile, e)]
<1>1. OnlyJob /\ job[w].pc = "reject"
  BY DEF Reject, At, OnlyJob, deadVars, queueVars
<1>2. /\ job[w] \in Jobs /\ job[w].msg \in Held /\ e = job[w].msg.ev /\ JobGood(job[w])
      /\ "retry" \in Free /\ "bury" \in Free
  BY <1>1, BusyHeld DEF CustodyInv, Free
<1>3. GoTo(w, "retry") \/ Go(w, kept) \/ Leaving(w, "return") \/ Go(w, j)
  BY Zenon DEF Reject
<1>4. /\ kept.pc = "bury" /\ kept.msg = job[w].msg
      /\ j.pc = "write" /\ j.op = "reject" /\ j.msg = job[w].msg /\ j.seen = profile
  BY <1>2 DEF Jobs
<1>5. e.kind \in Poison \/ e.ver <= profile.last
  BY <1>1, <1>2 DEF JobGood
<1>. HIDE DEF kept, j
<1>6. JobGood(j)
  BY <1>2, <1>4, <1>5 DEF JobGood, Writing
<1>7. GoTo(w, "retry") \/ Leaving(w, "return") => CustodyInv'
  BY <1>1, <1>2, FreeMoves
<1>8. Go(w, kept) => CustodyInv'
  BY <1>1, <1>2, <1>4, FreeStep
<1>9. Go(w, j) => CustodyInv'
  BY <1>1, <1>2, <1>4, <1>6, OnlyJobGood
<1>. QED BY <1>3, <1>7, <1>8, <1>9

LEMMA FinalizeCustody ==
  ASSUME TypeInv, TypeInv', CasInv, CustodyInv, NEW w \in Workers, Finalize(w)
  PROVE  CustodyInv'
<1>. DEFINE a == [job[w] EXCEPT !.pc = "ack"]
            j == [job[w] EXCEPT !.pc = "write", !.op = "finalize",
                    !.seen = profile, !.draft = Lifted(profile)]
<1>1. OnlyJob /\ job[w].pc = "finalize"
  BY DEF Finalize, At, OnlyJob, deadVars, queueVars
<1>2. job[w] \in Jobs /\ job[w].msg \in Held /\ Kept(job[w].msg)
  BY <1>1, BusyHeld DEF CustodyInv, JobGood
<1>3. Go(w, a) \/ Leaving(w, "return") \/ Go(w, j)
  BY Zenon DEF Finalize, GoTo
<1>4. /\ a.pc = "ack" /\ a.msg = job[w].msg
      /\ j.pc = "write" /\ j.op = "finalize" /\ j.msg = job[w].msg /\ j.seen = profile
  BY <1>2 DEF Jobs
<1>. HIDE DEF a, j
<1>5. JobGood(a) /\ JobGood(j)
  BY <1>2, <1>4 DEF JobGood, Writing
<1>6. Leaving(w, "return") => CustodyInv'
  BY <1>1, FreeMoves
<1>7. Go(w, a) \/ Go(w, j) => CustodyInv'
  BY <1>1, <1>2, <1>4, <1>5, OnlyJobGood
<1>. QED BY <1>3, <1>6, <1>7

(* The dead-letter copy, made once per stream entry. *)
LEMMA BuryCustody ==
  ASSUME TypeInv, TypeInv', CasInv, CustodyInv, NEW w \in Workers, Bury(w)
  PROVE  CustodyInv'
<1>1. /\ job[w].pc = "bury" /\ profile' = profile /\ visit' = visit
      /\ UNCHANGED <<accepted, stream, nextMid, enqueued>>
  BY DEF Bury, At, queueVars
<1>. PICK m \in Held : m = job[w].msg
  BY <1>1, BusyHeld
<1>2. job[w] \in Jobs
  BY <1>1, BusyHeld
<1>3. ASSUME Copied(w)
      PROVE  \E i : Go(w, i) /\ i.pc \in {"finalize", "ack"} /\ i.msg = m
  BY <1>2, <1>3 DEF Copied, GoTo, Jobs
<1>4. CASE m.mid \in dlqSeen /\ Copied(w) /\ UNCHANGED deadVars
  <2>1. OnlyJob
    BY <1>1, <1>4 DEF OnlyJob, deadVars
  <2>. PICK i : Go(w, i) /\ i.pc \in {"finalize", "ack"} /\ i.msg = m
    BY <1>3, <1>4
  <2>2. Kept(m)
    BY <1>4 DEF CustodyInv, Mids
  <2>3. JobGood(i)
    BY <2>2 DEF JobGood, Writing
  <2>. QED BY <2>1, <2>3, OnlyJobGood
<1>5. CASE Leaving(w, "return") /\ UNCHANGED deadVars
  <2>1. OnlyJob
    BY <1>1, <1>5 DEF OnlyJob, deadVars
  <2>. QED BY <1>1, <1>5, <2>1, FreeMoves
<1>6. CASE /\ Copied(w) /\ dlqSeen' = dlqSeen \cup {m.mid} /\ buried' = buried \cup {m.ev}
           /\ \E d \in dlq' : d.ev = m.ev /\ dlq' = dlq \cup {d}
  <2>. PICK i : Go(w, i) /\ i.pc \in {"finalize", "ack"} /\ i.msg = m
    BY <1>3, <1>6
  <2>1. Keeps
    BY <1>1, <1>6 DEF Keeps, Remembered, TypeInv, Profiles
  <2>2. Kept(m)'
    BY <1>6 DEF Kept, Secured
  <2>3. JobGood(i)'
    BY <2>2 DEF JobGood, Writing
  <2>4. Held' \subseteq Held
    BY <1>1, HeldStays
  <2>5. \A n \in Held' : n.mid \in dlqSeen' => Kept(n)'
    <3>. SUFFICES ASSUME NEW n \in Held', n.mid \in dlqSeen' PROVE Kept(n)'
      OBVIOUS
    <3>1. CASE n.mid \in dlqSeen
      BY <2>1, <2>4, <3>1, KeptAndPastStay DEF CustodyInv, Mids
    <3>2. CASE n.mid = m.mid
      <4>1. n = m
        BY <2>4, <3>2 DEF CustodyInv, Mids
      <4>. QED BY <2>2, <4>1
    <3>. QED BY <1>6, <3>1, <3>2
  <2>6. Mids'
    BY <1>1, <1>6, <2>4, <2>5 DEF CustodyInv, Mids
  <2>7. \A d \in dlq' : d.ev \in buried'
    BY <1>6 DEF CustodyInv
  <2>8. Remembering'
    BY <1>1, RememberingStays
  <2>. QED BY <2>1, <2>3, <2>6, <2>7, <2>8, WorkerMoves
<1>. QED BY <1>4, <1>5, <1>6 DEF Bury

(* An acknowledged delivery is kept, or was settled before. *)
LEMMA AckCustody ==
  ASSUME TypeInv, TypeInv', CasInv, CustodyInv, NEW w \in Workers, Ack(w)
  PROVE  CustodyInv'
<1>. DEFINE m == job[w].msg
            j == [job[w] EXCEPT !.pc = "clear"]
<1>1. /\ job[w].pc = "ack" /\ Go(w, j) /\ stream' = stream \ ({m} \cap pel)
      /\ UNCHANGED <<accepted, nextMid, enqueued, dlq, dlqSeen, buried, profile, visit>>
  BY DEF Ack, At, GoTo, deadVars
<1>2. job[w] \in Jobs /\ m \in Held /\ JobGood(job[w])
  BY <1>1, BusyHeld DEF CustodyInv
<1>3. j.pc \in Free /\ j.pc # "write" /\ j.msg = m
  BY <1>2 DEF Jobs, Free
<1>. HIDE DEF j
<1>4. Kept(m) \/ Past(m.ev)
  BY <1>1, <1>2 DEF JobGood
<1>5. Keeps
  BY <1>1, <1>4 DEF Keeps, Remembered, TypeInv, Profiles
<1>. QED BY <1>1, <1>2, <1>3, <1>5, WorkerGood DEF CustodyInv

(* What LastOf keeps was there. *)
LEMMA LastOfEntries ==
  ASSUME NEW S, NEW s \in Seq(S), NEW n \in Nat, NEW i \in DOMAIN LastOf(s, n)
  PROVE  \E k \in DOMAIN s : LastOf(s, n)[i] = s[k]
<1>1. CASE Len(s) <= n
  BY <1>1 DEF LastOf
<1>2. CASE ~(Len(s) <= n)
  <2>. DEFINE m == Len(s) - n + 1
  <2>1. Len(s) \in Nat /\ DOMAIN s = 1..Len(s)
    BY LenProperties
  <2>2. m \in 1..Len(s) + 1 /\ LastOf(s, n) = SubSeq(s, m, Len(s))
    BY <1>2, <2>1 DEF LastOf
  <2>3. /\ DOMAIN LastOf(s, n) = 1..(Len(s) - m + 1)
        /\ \A x \in 1..(Len(s) - m + 1) : LastOf(s, n)[x] = s[m + x - 1]
    BY <2>1, <2>2, SubSeqProperties
  <2>4. m + i - 1 \in 1..Len(s)
    BY <2>1, <2>2, <2>3
  <2>. QED BY <2>1, <2>3, <2>4
<1>. QED BY <1>1, <1>2

(* What a draft that wins does to the cursor and to the history. *)
LEMMA DraftPoint ==
  ASSUME TypeInv, CasInv, CustodyInv, UniqueMarks, NEW w \in Workers, job[w].pc = "write",
         Matches(profile, job[w].seen), profile' = job[w].draft
  PROVE  /\ profile'.last >= profile.last /\ profile'.rev = profile.rev + 1
         /\ HistoryOld(profile')
         /\ \A f \in Events : Remembered(f, profile') =>
              Remembered(f, profile) \/ (f.ver > profile.last /\ f.kind \in Poison)
<1>. DEFINE s == job[w].seen
            e == Ev(w)
<1>1. /\ s \in Profiles /\ e \in Events /\ e = job[w].msg.ev /\ e.ver \in Nat
      /\ Prepared(job[w]) /\ JobGood(job[w]) /\ Sound(s)
  BY BusyTyped DEF TypeInv, Ev, CasInv, CustodyInv, Prepared
<1>2. /\ s.last = profile.last /\ s.history = profile.history /\ s.status = profile.status
      /\ s.rev = profile.rev /\ HistoryOld(profile)
  BY DEF Matches, CustodyInv, Remembering, Current
<1>3. /\ s.last \in Nat /\ s.rev \in Nat /\ s.history \in Seq(Mark)
      /\ \A i \in DOMAIN s.history : s.history[i].ver \in Nat
  <2>1. s.last \in Nat /\ s.rev \in Nat /\ s.history \in Seq(Mark)
    BY <1>1 DEF Profiles
  <2>2. \A i \in DOMAIN s.history : s.history[i] \in Mark
    BY <2>1, LenProperties, ElementOfSeq
  <2>. QED BY <2>1, <2>2 DEF Mark
<1>4. profile'.rev = profile.rev + 1
  BY <1>1, DraftWins DEF CasInv
<1>5. CASE job[w].op = "apply"
  <2>1. profile' = Advance(s, e, "applied") /\ e.ver = s.last + 1
    BY <1>1, <1>5 DEF Prepared, Drafted, Applied
  <2>2. profile'.last = e.ver
    <3>. DEFINE a == Advance(s, e, "applied")
    <3>1. a.last = e.ver
      BY <1>1, <2>1, AdvanceSound
    <3>. HIDE DEF a
    <3>. QED BY <2>1, <3>1 DEF a
  <2>3. profile'.history = s.history
    BY <1>1, <2>1 DEF Advance, Profiles
  <2>4. HistoryOld(profile')
    BY <1>2, <1>3, <2>1, <2>2, <2>3 DEF HistoryOld
  <2>. QED BY <1>2, <1>3, <1>4, <2>1, <2>2, <2>3, <2>4 DEF Remembered
<1>6. CASE job[w].op = "finalize"
  <2>1. profile' = Lifted(s)
    BY <1>1, <1>6 DEF Prepared, Drafted
  <2>2. profile'.last = s.last /\ profile'.history = s.history /\ profile'.status = s.status
    BY <1>1, <2>1 DEF Lifted, Profiles
  <2>. QED BY <1>2, <1>3, <1>4, <2>2 DEF Remembered, HistoryOld
<1>7. CASE job[w].op = "reject"
  <2>. DEFINE a == Advance(s, e, "rejected")
              h == Append(s.history, MarkOf(e))
  <2>1. profile' = Rejected(s, e) /\ e.ver = s.last + 1
    BY <1>1, <1>7 DEF Prepared, Drafted
  <2>2. a \in Profiles /\ a.last = e.ver /\ a.status = "rejected" /\ MarkOf(e) \in Mark
    BY <1>1, <2>1, AdvanceSound, AdvanceTyped, ProfilesTyped
  <2>3. a.history = s.history
    BY <1>1 DEF Advance, Profiles
  <2>4. /\ profile'.last = e.ver /\ profile'.status = "rejected"
        /\ profile'.history = LastOf(h, HistorySize)
    <3>. HIDE DEF a
    <3>1. Rejected(s, e) = [a EXCEPT !.fence = MarkOf(e),
                              !.history = LastOf(Append(a.history, MarkOf(e)), HistorySize)]
      BY DEF a, Rejected
    <3>. QED BY <2>1, <2>2, <2>3, <3>1 DEF Profiles
  <2>5. /\ h \in Seq(Mark) /\ DOMAIN h = 1..Len(s.history) + 1 /\ Len(s.history) \in Nat
        /\ DOMAIN s.history = 1..Len(s.history)
        /\ \A k \in DOMAIN s.history : h[k] = s.history[k]
        /\ h[Len(s.history) + 1] = MarkOf(e)
    <3>1. Len(s.history) \in Nat /\ DOMAIN s.history = 1..Len(s.history)
      BY <1>3, LenProperties
    <3>2. /\ h \in Seq(Mark) /\ Len(h) = Len(s.history) + 1
          /\ \A k \in 1..Len(s.history) : h[k] = s.history[k]
          /\ h[Len(s.history) + 1] = MarkOf(e)
      BY <1>3, <2>2, AppendProperties
    <3>. HIDE DEF h
    <3>3. DOMAIN h = 1..Len(h)
      BY <3>2, LenProperties
    <3>. QED BY <3>1, <3>2, <3>3
  <2>6. \A k \in DOMAIN h : h[k] = MarkOf(e) \/ \E n \in DOMAIN s.history : h[k] = s.history[n]
    BY <2>5
  <2>7. \A i \in DOMAIN profile'.history :
          \/ profile'.history[i] = MarkOf(e)
          \/ \E n \in DOMAIN s.history : profile'.history[i] = s.history[n]
    <3>. HIDE DEF h
    <3>1. HistorySize \in Nat
      BY ConstantsAssumption
    <3>2. \A i \in DOMAIN LastOf(h, HistorySize) :
            \E k \in DOMAIN h : LastOf(h, HistorySize)[i] = h[k]
      BY <2>5, <3>1, LastOfEntries
    <3>. QED BY <2>4, <2>6, <3>2
  <2>8. \A n \in DOMAIN s.history : s.history[n].ver \in Nat /\ s.history[n].ver <= s.last
    BY <1>2, <1>3 DEF HistoryOld
  <2>9. HistoryOld(profile')
    BY <1>3, <2>1, <2>4, <2>7, <2>8 DEF HistoryOld, MarkOf
  <2>10. e.kind \in Poison
    BY <1>1, <1>2, <1>3, <1>7, <2>1 DEF JobGood
  <2>11. ASSUME NEW f \in Events, Remembered(f, profile')
         PROVE  Remembered(f, profile) \/ (f.ver > profile.last /\ f.kind \in Poison)
    <3>1. PICK i \in DOMAIN profile'.history : profile'.history[i] = MarkOf(f)
      BY <2>11 DEF Remembered
    <3>2. CASE \E n \in DOMAIN s.history : profile'.history[i] = s.history[n]
      BY <1>2, <3>1, <3>2 DEF Remembered
    <3>3. CASE profile'.history[i] = MarkOf(e)
      <4>1. f = e
        BY <1>1, <3>1, <3>3 DEF UniqueMarks
      <4>. QED BY <1>2, <1>3, <2>1, <2>10, <4>1
    <3>. QED BY <2>7, <3>2, <3>3
  <2>. QED BY <1>2, <1>3, <1>4, <2>1, <2>4, <2>9, <2>11
<1>. QED BY <1>1, <1>5, <1>6, <1>7 DEF Prepared, Drafted

(* A write that wins outdates every other snapshot. *)
LEMMA OutdatedByWrite ==
  ASSUME TypeInv, TypeInv', CasInv, CustodyInv, profile'.rev = profile.rev + 1,
         HistoryOld(profile'), visit' = visit,
         \A f \in Events : Remembered(f, profile') => Remembered(f, profile) \/ f.kind \in Poison,
         \A x \in Workers : job'[x].pc = "write" => job'[x] = job[x]
  PROVE  Remembering'
<1>1. /\ profile.rev \in Nat /\ \A s \in Profiles : s.rev \in Nat
      /\ \A x \in Workers : job[x].seen \in Profiles
      /\ visit.seen \in Profiles
  BY DEF TypeInv, Profiles, JobInv, Jobs, VisitInv
<1>2. ASSUME NEW s \in Profiles, Snapshot(s) PROVE Current(s)'
  BY <1>1, <1>2 DEF Snapshot, Current
<1>3. (\A x \in Workers : job[x].pc = "write" => Current(job[x].seen))'
  BY <1>1, <1>2 DEF CasInv, Prepared
<1>4. (visit.pc = "write" => Current(visit.seen))'
  BY <1>1, <1>2 DEF CasInv
<1>5. \A f \in Events : Remembered(f, profile') => f.kind \in Poison
  BY DEF CustodyInv, Remembering
<1>. QED BY <1>3, <1>4, <1>5 DEF Remembering, Remembered, HistoryOld

LEMMA WritingCustody ==
  ASSUME TypeInv, TypeInv', CasInv, CustodyInv, UniqueMarks, NEW w \in Workers,
         Write(w) \/ WriteUnanswered(w)
  PROVE  CustodyInv'
<1>1. /\ job[w].pc = "write" /\ visit' = visit
      /\ UNCHANGED <<accepted, stream, nextMid, enqueued, dlq, dlqSeen, buried>>
  BY DEF Write, WriteUnanswered, At, queueVars, deadVars
<1>2. job[w] \in Jobs /\ job[w].msg \in Held /\ JobGood(job[w])
  BY <1>1, BusyHeld DEF CustodyInv
<1>. PICK j : /\ Go(w, j) /\ j.msg = job[w].msg /\ j.pc # "write"
              /\ \/ j.pc \in Free
                 \/ j.pc = "verify" /\ j.op = job[w].op /\ j.draft = job[w].draft
  <2>1. ASSUME NEW pc PROVE /\ [job[w] EXCEPT !.pc = pc].pc = pc
                            /\ [job[w] EXCEPT !.pc = pc].msg = job[w].msg
                            /\ [job[w] EXCEPT !.pc = pc].op = job[w].op
                            /\ [job[w] EXCEPT !.pc = pc].draft = job[w].draft
    BY <1>2 DEF Jobs
  <2>2. /\ [job[w] EXCEPT !.pc = "exit", !.after = "return"].pc = "exit"
        /\ [job[w] EXCEPT !.pc = "exit", !.after = "return"].msg = job[w].msg
    BY <1>2 DEF Jobs
  <2>3. GoTo(w, "verify") \/ GoTo(w, "retry") \/ Leaving(w, "return")
    BY DEF Write, WriteUnanswered, AfterFailure
  <2>4. CASE GoTo(w, "verify")
    BY <2>1, <2>4 DEF GoTo
  <2>5. CASE GoTo(w, "retry")
    BY <2>1, <2>5 DEF GoTo, Free
  <2>6. CASE Leaving(w, "return")
    BY <2>2, <2>6 DEF Leaving, Free
  <2>. QED BY <2>3, <2>4, <2>5, <2>6
<1>3. \A x \in Workers : job'[x].pc = "write" => job'[x] = job[x]
  BY GoWithoutWrite
<1>4. /\ Keeps /\ Remembering'
  <2>1. CASE profile' = profile
    <3>1. OnlyJob
      BY <1>1, <2>1 DEF OnlyJob
    <3>. QED BY <1>1, <2>1, <3>1, OnlyJobKeeps, RememberingStays
  <2>2. CASE profile' # profile
    <3>1. Matches(profile, job[w].seen) /\ profile' = job[w].draft
      BY <2>2 DEF Write, WriteUnanswered, Swap
    <3>2. /\ profile'.last >= profile.last /\ profile'.rev = profile.rev + 1
          /\ HistoryOld(profile')
          /\ \A f \in Events : Remembered(f, profile') =>
               Remembered(f, profile) \/ (f.ver > profile.last /\ f.kind \in Poison)
      BY <1>1, <3>1, DraftPoint
    <3>3. Keeps
      BY <1>1, <3>2 DEF Keeps
    <3>. QED BY <1>1, <1>3, <3>2, <3>3, OutdatedByWrite
  <2>. QED BY <2>1, <2>2
<1>5. Mids'
  BY <1>1, <1>2, <1>4, HeldStays, MidsStay
<1>6. j.pc \in Free \/ JobGood(j)'
  <2>1. Kept(job[w].msg) => Kept(j.msg)'
    BY <1>2, <1>4, KeptAndPastStay
  <2>. QED BY <1>1, <1>2, <2>1 DEF JobGood, Writing
<1>. QED BY <1>1, <1>4, <1>5, <1>6, WorkerMoves DEF CustodyInv

(* A step of no worker, that leaves the cursor and the history alone. *)
LEMMA OthersMove ==
  ASSUME TypeInv, TypeInv', CustodyInv, Keeps, Mids', job' = job,
         profile'.rev = profile.rev, profile'.last = profile.last,
         profile'.history = profile.history, profile'.status = profile.status,
         visit'.pc = "write" => visit' = visit \/ visit'.seen = profile',
         \A d \in dlq' : d.ev \in buried'
  PROVE  CustodyInv'
<1>1. \A s : Current(s) => Current(s)'
  BY DEF Current
<1>2. (visit.pc = "write" => Current(visit.seen))'
  BY <1>1 DEF CustodyInv, Remembering, Current
<1>3. Remembering'
  BY <1>1, <1>2 DEF CustodyInv, Remembering, Remembered, HistoryOld
<1>4. \A x \in Workers : JobGood(job[x])'
  <2>. SUFFICES ASSUME NEW x \in Workers PROVE JobGood(job[x])'
    OBVIOUS
  <2>. PICK j : j = job[x]
    OBVIOUS
  <2>1. CASE j.pc = "idle"
    BY <2>1, FreeGood DEF Free
  <2>2. CASE j.pc # "idle"
    <3>1. j.msg \in Held /\ JobGood(j)
      BY <2>2 DEF Held, CustodyInv
    <3>. QED BY <3>1, JobGoodStays
  <2>. QED BY <2>1, <2>2
<1>5. NothingLost'
  BY NothingLostStays
<1>. QED BY <1>3, <1>4, <1>5 DEF CustodyInv

LEMMA OnboardCustody ==
  ASSUME TypeInv, TypeInv', CustodyInv, Onboarding
  PROVE  CustodyInv'
<1>1. /\ job' = job
      /\ UNCHANGED <<accepted, stream, nextMid, enqueued, dlq, dlqSeen, buried>>
  BY DEF Onboarding, OnboardStart, OnboardWrite, OnboardEnd, OnboardCrash, queueVars, deadVars
<1>2. /\ profile'.rev = profile.rev /\ profile'.last = profile.last
      /\ profile'.history = profile.history /\ profile'.status = profile.status
      /\ visit'.pc = "write" => visit' = visit \/ visit'.seen = profile'
  <2>1. CASE OnboardStart \/ OnboardEnd \/ OnboardCrash
    BY <2>1 DEF OnboardStart, OnboardEnd, OnboardCrash, NoVisit
  <2>2. CASE OnboardWrite
    <3>. DEFINE s == visit.seen
    <3>1. visit'.pc # "write" /\ s \in Profiles
      BY <2>2 DEF OnboardWrite, TypeInv, VisitInv
    <3>2. CASE profile' # profile
      <4>1. /\ s.rev = profile.rev /\ s.last = profile.last
            /\ s.history = profile.history /\ s.status = profile.status
            /\ profile' = Onboarded(s, s.pv + 1)
        BY <2>2, <3>2 DEF OnboardWrite, Matches, CustodyInv, Remembering, Current
      <4>2. /\ profile'.rev = s.rev /\ profile'.last = s.last
            /\ profile'.history = s.history /\ profile'.status = s.status
        BY <3>1, <4>1 DEF Onboarded, Profiles
      <4>. QED BY <3>1, <4>1, <4>2
    <3>. QED BY <3>1, <3>2
  <2>. QED BY <2>1, <2>2 DEF Onboarding
<1>3. Keeps
  BY <1>1, <1>2 DEF Keeps, Remembered, TypeInv, Profiles
<1>4. Mids'
  BY <1>1, <1>3, MidsStay DEF Held
<1>. QED BY <1>1, <1>2, <1>3, <1>4, OthersMove DEF CustodyInv

(* A new entry of the stream has an id of its own and is newer than all. *)
LEMMA NewEntry ==
  ASSUME TypeInv, TypeInv', CustodyInv, Keeps, job' = job, dlqSeen' = dlqSeen,
         NEW e \in Events, AddMessage(e)
  PROVE  Mids'
<1>. DEFINE n == [mid |-> nextMid, ev |-> e]
<1>1. Held' = Held \cup {n} /\ nextMid' = nextMid + 1 /\ n.mid = nextMid
  BY DEF AddMessage, Held
<1>. HIDE DEF n
<1>2. nextMid \in Nat /\ \A m \in Held : m.mid \in Nat /\ m.mid < nextMid
  BY Numbers DEF CustodyInv, Mids
<1>3. \A i \in dlqSeen : i \in Nat /\ i < nextMid
  BY DEF TypeInv, DeadInv, CustodyInv, Mids
<1>4. \A m \in Held : m.mid \in dlqSeen => Kept(m)'
  BY KeptAndPastStay DEF CustodyInv, Mids
<1>5. n.mid \notin dlqSeen
  BY <1>1, <1>2, <1>3
<1>6. \A m \in Held' : m.mid < nextMid'
  BY <1>1, <1>2
<1>7. \A m, k \in Held' : m.mid = k.mid => m = k
  BY <1>1, <1>2 DEF CustodyInv, Mids
<1>8. \A i \in dlqSeen' : i < nextMid'
  BY <1>1, <1>2, <1>3
<1>9. \A m \in Held' : m.mid \in dlqSeen' => Kept(m)'
  BY <1>1, <1>4, <1>5
<1>. QED BY <1>6, <1>7, <1>8, <1>9 DEF Mids

LEMMA EntryCustody ==
  ASSUME TypeInv, TypeInv', CustodyInv
  PROVE  /\ \A e \in Events : Accept(e) => CustodyInv'
         /\ \A d \in dlq : Replay(d) => CustodyInv'
<1>0. profile.last \in Nat
  BY Numbers
<1>1. ASSUME NEW e \in Events, AddMessage(e)
      PROVE  stream \subseteq stream' /\ \E n \in stream' : n.ev = e /\ n.mid = nextMid
  <2>. DEFINE n == [mid |-> nextMid, ev |-> e]
  <2>1. n \in stream' /\ stream \subseteq stream' /\ n.ev = e /\ n.mid = nextMid
    BY <1>1 DEF AddMessage
  <2>. QED BY <2>1
<1>2. ASSUME NEW e \in Events, Accept(e) PROVE CustodyInv'
  <2>1. /\ UNCHANGED <<job, profile, visit, dlq, dlqSeen, buried>> /\ AddMessage(e)
        /\ enqueued' = enqueued \cup {e}
    BY <1>2 DEF Accept, deadVars
  <2>2. stream \subseteq stream' /\ InStream(e)'
    BY <1>1, <2>1 DEF InStream
  <2>3. Keeps
    BY <1>0, <2>1, <2>2 DEF Keeps
  <2>. QED BY <2>1, <2>3, NewEntry, OthersMove DEF CustodyInv
<1>3. ASSUME NEW d \in dlq, Replay(d) PROVE CustodyInv'
  <2>1. /\ UNCHANGED <<job, profile, visit, enqueued, dlqSeen, buried>> /\ AddMessage(d.ev)
        /\ dlq' = dlq \ {d} /\ d.ev \in Events
    BY <1>3, Numbers DEF Replay
  <2>2. stream \subseteq stream' /\ \E n \in stream' : n.ev = d.ev /\ n.mid = nextMid
    BY <1>1, <2>1
  <2>3. Keeps
    BY <1>0, <2>1, <2>2 DEF Keeps
  <2>. QED BY <2>1, <2>3, NewEntry, OthersMove DEF CustodyInv
<1>. QED BY <1>2, <1>3

LEMMA CustodyInit == Init => CustodyInv
<1>. SUFFICES ASSUME Init PROVE CustodyInv
  OBVIOUS
<1>1. PICK pv \in InitialPV : profile = EmptyProfile(pv)
  BY DEF Init
<1>2. \A w \in Workers : job[w].pc = "idle"
  BY DEF Init, Idle
<1>3. /\ stream = {} /\ dlq = {} /\ dlqSeen = {} /\ enqueued = {} /\ visit.pc = "idle"
      /\ profile.history = <<>>
  BY <1>1 DEF Init, NoVisit, EmptyProfile
<1>4. Held = {}
  BY <1>2, <1>3 DEF Held
<1>5. Mids
  BY <1>3, <1>4 DEF Mids
<1>6. Remembering
  BY <1>2, <1>3 DEF Remembering, HistoryOld, Remembered
<1>7. \A w \in Workers : JobGood(job[w])
  BY <1>2, FreeGood DEF Free
<1>8. NothingLost
  BY <1>3 DEF NothingLost, Custody, RejectedPreserved
<1>. QED BY <1>3, <1>5, <1>6, <1>7, <1>8 DEF CustodyInv

LEMMA CustodyStep ==
  ASSUME UniqueMarks, TypeInv, TypeInv', CasInv, CustodyInv, [Next]_vars
  PROVE  CustodyInv'
<1>1. ASSUME NEW w \in Workers, Step(w) PROVE CustodyInv'
  BY <1>1, FreeSteps, ApplyCustody, RejectCustody, FinalizeCustody, WritingCustody,
     VerifyCustody, CheckCustody, BuryCustody, AckCustody DEF Step
<1>2. ASSUME NEW w \in Workers, Broken(w) PROVE CustodyInv'
  BY <1>2, FreeSteps, WritingCustody, ReadFailsCustody DEF Broken
<1>3. ASSUME NEW w \in Workers, NEW m \in pel, Reclaim(w, m) PROVE CustodyInv'
  BY <1>3, FreeSteps
<1>4. ASSUME \/ \E i \in Ids : AcceptKeyExpires(i)
             \/ LockExpires \/ \E h \in Holders : RenewLost(h)
             \/ UNCHANGED vars
      PROVE  CustodyInv'
  <2>1. UNCHANGED <<stream, nextMid, enqueued, dlq, dlqSeen, buried, profile, visit, job>>
    BY <1>4 DEF AcceptKeyExpires, LockExpires, RenewLost, vars, queueVars, deadVars
  <2>2. Keeps
    BY <2>1 DEF Keeps, Remembered, TypeInv, Profiles
  <2>3. Mids'
    BY <2>1, <2>2, MidsStay DEF Held
  <2>. QED BY <2>1, <2>2, <2>3, OthersMove DEF CustodyInv
<1>5. CASE Onboarding
  BY <1>5, OnboardCustody
<1>. QED BY <1>1, <1>2, <1>3, <1>4, <1>5, EntryCustody DEF Next

(* An accepted event is in the stream, in the dead-letter stream or behind *)
(* the cursor, and a rejection the profile remembers has its copy or its   *)
(* source entry: through redelivery, replay, crashes, expired locks and    *)
(* unanswered writes, whatever the bounds.                                 *)
THEOREM NothingLostTheorem == ASSUME UniqueMarks PROVE Spec => []NothingLost
<1>1. Init => TypeInv /\ CasInv /\ CustodyInv
  BY InitTyped, CasInit, CustodyInit
<1>2. TypeInv /\ CasInv /\ CustodyInv /\ [Next]_vars => (TypeInv /\ CasInv /\ CustodyInv)'
  BY NextTyped, CasStep, CustodyStep
<1>3. TypeInv /\ CasInv /\ CustodyInv => NothingLost
  BY DEF CustodyInv
<1>. QED BY <1>1, <1>2, <1>3, PTL DEF Spec

=============================================================================
