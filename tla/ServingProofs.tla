---------------------------- MODULE ServingProofs ----------------------------
(***************************************************************************)
(* Theorems about ServingProcess, for any requests, classes, workers,      *)
(* capacities, reads, queries and resources: a slot is held for exactly    *)
(* what is admitted, no read outlives its request, every flight of the     *)
(* query cache is answered, and the cleanup closes clients under nobody.   *)
(*                                                                         *)
(* The parts lean on each other in one direction only.  What a request     *)
(* does in the read pool or the encoder keeps its job running, so that a   *)
(* class whose jobs have all ended has nothing left in either; and nothing *)
(* is admitted once retirement has begun, so that a drained class stays    *)
(* drained until the next generation.                                      *)
(***************************************************************************)
EXTENDS ServingProcess, TLAPS, FiniteSetTheorems, SequenceTheorems

-----------------------------------------------------------------------------
(* The inductive invariant *)

PCs == {"new", "queued", "running", "joining", "returned", "done"}
Ended == {"new", "done"}
ChildStates == {"none", "ticket", "granted", "queued", "running", "returned", "done"}
Counted == {"granted", "queued", "running", "returned"}
Started == {"ticket", "granted", "queued", "running"}
Owning == {"owning", "ticket", "encoding", "value", "error"}
EncStates == Owning \cup {"idle", "waiting", "left"}
Callers == Searches \cup Encoders

(* A queue that lists the members of S, each once. *)
Lists(queue, S) == queue \in Seq(S) /\ ToSet(queue) = S /\ IsInjective(queue)

Holders(p, c) == {r \in InClass(c) : p[r] \notin Ended}
Ticketed(ch) == {d \in Reads : ch[d] = "ticket"}
Pooled(ch) == {d \in Reads : ch[d] \in Counted}
InLine(en) == {r \in Callers : en[r] = "ticket"}
AtWork(en) == {r \in Callers : en[r] = "encoding"}

ExecutorsInv ==
  /\ pc \in [Requests -> PCs] /\ slots \in [Classes -> Nat] /\ retiring \in BOOLEAN
  /\ \A c \in Classes : slots[c] = Cardinality(Holders(pc, c)) /\ slots[c] <= Capacity[c]

ReadsInv ==
  /\ child \in [Reads -> ChildStates]
  /\ outstanding = Cardinality(Pooled(child)) /\ outstanding <= IOCapacity
  /\ Lists(tickets, Ticketed(child))
  /\ \A d \in Reads : child[d] \in Started => pc[d[1]] \in {"running", "joining"}

(* Whose flight a query has, and whose future a waiter holds. *)
FlightsInv ==
  /\ flight \in [Queries -> Searches \cup {Nobody}] /\ owner \in [Searches -> Searches \cup {Nobody}]
  /\ \A q \in Queries : flight[q] # Nobody => Query[flight[q]] = q
  /\ \A s \in Searches : enc[s] \in Owning <=> flight[Query[s]] = s
  /\ \A s \in Searches : enc[s] = "waiting" =>
       owner[s] \in Searches /\ (outcome[owner[s]] # "none" \/ flight[Query[s]] = owner[s])

(* What a caller does in the encoder keeps its job running. *)
EncodingInv ==
  /\ enc \in [Callers -> EncStates] /\ outcome \in [Searches -> {"none", "value", "error"}]
  /\ FlightsInv
  /\ Lists(line, InLine(enc))
  /\ Cardinality(AtWork(enc)) <= MaxConcurrency
  /\ \A r \in Callers : enc[r] \notin {"idle", "left"} => pc[r] = "running"

(* The drain begins only after retirement and the warm-up's end, and a     *)
(* class it has drained stays empty.                                       *)
DrainInv ==
  /\ retiring <=> life = "retired"
  /\ warm \in {"running", "over"} /\ (barrier => life = "retired")
  /\ task # "none" \/ diag \notin {"none", "active"} \/ calls > 0 \/ plan # "pending" =>
       life = "retired" /\ warm = "over"
  /\ calls \in Nat /\ undrained \subseteq Classes
  /\ \A c \in Classes \ undrained : life = "retired" /\ Settled(c)
  /\ current # "none" => plan = "draining"
  /\ current = "pool" => undrained = {}

(* A resource is closed once it is neither to do nor has failed; what was  *)
(* closed was closed over nothing.                                         *)
CloseInv ==
  /\ todo \subseteq Resources /\ failed \subseteq Resources
  /\ closes = [x \in Resources |-> IF x \in todo \cup failed THEN 0 ELSE 1]
  /\ IF plan = "closing" THEN todo \cap failed = {} ELSE failed \subseteq todo
  /\ plan = "completed" => todo = {}
  /\ plan \in {"closing", "completed"} \/ todo # Resources =>
       undrained = {} /\ outstanding = 0 /\ plan # "pending"

IInv == ExecutorsInv /\ ReadsInv /\ EncodingInv /\ DrainInv /\ CloseInv

-----------------------------------------------------------------------------
(* Queues that list a set *)

LEMMA ListsJoin ==
  ASSUME NEW S, NEW q, Lists(q, S), NEW x, x \notin S
  PROVE  Lists(Append(q, x), S \cup {x})
<1> DEFINE T == S \cup {x}
           later == Append(q, x)
<1>1. q \in Seq(S) /\ ToSet(q) = S /\ IsInjective(q) BY DEF Lists
<1>2. q \in Seq(T) BY <1>1, SeqMonotonic
<1>3. /\ later \in Seq(T) /\ Len(later) = Len(q) + 1
      /\ \A i \in 1..Len(q) : later[i] = q[i]
      /\ later[Len(q) + 1] = x
  BY <1>2, AppendProperties
<1>4. Len(q) \in Nat /\ DOMAIN q = 1..Len(q) /\ DOMAIN later = 1..(Len(q) + 1)
  BY <1>1, <1>3, LenProperties
<1> HIDE DEF later
<1>5. ToSet(later) = T
  <2>1. S = {q[i] : i \in 1..Len(q)} BY <1>1, <1>4 DEF ToSet
  <2>2. ToSet(later) = {later[i] : i \in 1..(Len(q) + 1)} BY <1>4 DEF ToSet
  <2>3. \A y : y \in T => y \in ToSet(later)
    <3> TAKE y
    <3> HAVE y \in T
    <3>1. CASE y = x BY <1>3, <1>4, <2>2, <3>1
    <3>2. CASE y \in S
      <4>1. PICK i \in 1..Len(q) : y = q[i] BY <2>1, <3>2
      <4>2. y = later[i] /\ i \in 1..(Len(q) + 1) BY <1>3, <1>4, <4>1
      <4> QED BY <2>2, <4>2
    <3> QED BY <3>1, <3>2
  <2>4. \A y : y \in ToSet(later) => y \in T
    <3> TAKE y
    <3> HAVE y \in ToSet(later)
    <3>1. PICK i \in 1..(Len(q) + 1) : y = later[i] BY <2>2
    <3>2. CASE i = Len(q) + 1 BY <1>3, <3>1, <3>2
    <3>3. CASE i # Len(q) + 1
      <4>1. i \in 1..Len(q) BY <1>4, <3>3
      <4> QED BY <1>3, <2>1, <3>1, <4>1
    <3> QED BY <3>2, <3>3
  <2> QED BY <2>3, <2>4
<1>6. IsInjective(later)
  <2> SUFFICES ASSUME NEW a \in 1..(Len(q) + 1), NEW b \in 1..(Len(q) + 1), later[a] = later[b] PROVE a = b
    BY <1>4 DEF IsInjective
  <2>1. \A i \in 1..Len(q) : q[i] \in S BY <1>1, ElementOfSeq
  <2>2. CASE a \in 1..Len(q) /\ b \in 1..Len(q)
    BY <1>1, <1>3, <1>4, <2>2 DEF IsInjective
  <2>3. CASE a = Len(q) + 1 /\ b \in 1..Len(q) BY <1>3, <2>1, <2>3
  <2>4. CASE b = Len(q) + 1 /\ a \in 1..Len(q) BY <1>3, <2>1, <2>4
  <2>5. CASE a = Len(q) + 1 /\ b = Len(q) + 1 BY <2>5
  <2> QED BY <1>4, <2>2, <2>3, <2>4, <2>5
<1> QED BY <1>3, <1>5, <1>6 DEF Lists, later

LEMMA ListsLeave ==
  ASSUME NEW S, NEW q, Lists(q, S), NEW i \in DOMAIN q
  PROVE  q[i] \in S /\ Lists(RemoveAt(q, i), S \ {q[i]})
<1> DEFINE T == S \ {q[i]}
           n == Len(q)
           before == SubSeq(q, 1, i - 1)
           after == SubSeq(q, i + 1, n)
           later == RemoveAt(q, i)
<1>1. q \in Seq(S) /\ ToSet(q) = S /\ IsInjective(q) BY DEF Lists
<1>2. n \in Nat /\ DOMAIN q = 1..n /\ \A k \in 1..n : q[k] \in S BY <1>1, LenProperties, ElementOfSeq
<1>3. i \in 1..n BY <1>2
<1>4. \A k \in 1..n : k # i => q[k] \in T BY <1>1, <1>2, <1>3 DEF IsInjective
<1>5. /\ before \in Seq(T) /\ Len(before) = i - 1
      /\ \A k \in 1..(i - 1) : before[k] = q[k]
  <2>1. \A k \in 1..(i - 1) : q[k] \in T BY <1>2, <1>3, <1>4
  <2>2. 1 \in Int /\ i - 1 \in Int BY <1>2, <1>3
  <2>3. /\ before \in Seq(T) /\ Len(before) = IF 1 <= i - 1 THEN (i - 1) - 1 + 1 ELSE 0
        /\ \A k \in 1..((i - 1) - 1 + 1) : before[k] = q[1 + k - 1]
    BY <2>1, <2>2, SubSeqProperties
  <2> QED BY <1>2, <1>3, <2>3
<1>6. /\ after \in Seq(T) /\ Len(after) = n - i
      /\ \A k \in 1..(n - i) : after[k] = q[k + i]
  <2>1. \A k \in (i + 1)..n : q[k] \in T BY <1>2, <1>3, <1>4
  <2>2. i + 1 \in Int /\ n \in Int BY <1>2, <1>3
  <2>3. /\ after \in Seq(T) /\ Len(after) = IF i + 1 <= n THEN n - (i + 1) + 1 ELSE 0
        /\ \A k \in 1..(n - (i + 1) + 1) : after[k] = q[(i + 1) + k - 1]
    BY <2>1, <2>2, SubSeqProperties
  <2>4. \A k \in 1..(n - i) : (i + 1) + k - 1 = k + i BY <1>2, <1>3
  <2>5. n - (i + 1) + 1 = n - i /\ (i + 1 > n => n - i = 0) BY <1>2, <1>3
  <2>6. Len(after) = n - i BY <2>3, <2>5
  <2>7. \A k \in 1..(n - i) : after[k] = q[k + i] BY <2>3, <2>4, <2>5
  <2> QED BY <2>3, <2>6, <2>7
<1> HIDE DEF before, after
<1>7. /\ later \in Seq(T) /\ Len(later) = n - 1
      /\ \A k \in 1..(n - 1) : later[k] = IF k <= i - 1 THEN q[k] ELSE q[k + 1]
  <2>1. later = before \o after BY DEF RemoveAt, before, after
  <2>2. /\ before \o after \in Seq(T) /\ Len(before \o after) = Len(before) + Len(after)
        /\ \A k \in 1..(Len(before) + Len(after)) :
             (before \o after)[k] = IF k <= Len(before) THEN before[k] ELSE after[k - Len(before)]
    BY <1>5, <1>6, ConcatProperties
  <2>3. Len(before) + Len(after) = n - 1 BY <1>2, <1>3, <1>5, <1>6
  <2>4. ASSUME NEW k \in 1..(n - 1) PROVE later[k] = IF k <= i - 1 THEN q[k] ELSE q[k + 1]
    <3>1. later[k] = IF k <= i - 1 THEN before[k] ELSE after[k - (i - 1)] BY <1>5, <2>1, <2>2, <2>3
    <3>2. CASE k <= i - 1
      <4>1. k \in 1..(i - 1) BY <1>2, <1>3, <3>2
      <4> QED BY <1>5, <3>1, <3>2, <4>1
    <3>3. CASE ~(k <= i - 1)
      <4>1. k - (i - 1) \in 1..(n - i) /\ (k - (i - 1)) + i = k + 1 BY <1>2, <1>3, <3>3
      <4>2. after[k - (i - 1)] = q[k + 1] BY <1>6, <4>1
      <4> QED BY <3>1, <3>3, <4>2
    <3> QED BY <3>2, <3>3
  <2> QED BY <2>1, <2>2, <2>3, <2>4
<1> HIDE DEF later
<1>8. DOMAIN later = 1..(n - 1) BY <1>7, LenProperties
<1>9. T \subseteq ToSet(later)
  <2> SUFFICES ASSUME NEW y \in T PROVE \E k \in 1..(n - 1) : y = later[k] BY <1>8 DEF ToSet
  <2>1. S = {q[k] : k \in 1..n} BY <1>1, <1>2 DEF ToSet
  <2>2. PICK k \in 1..n : y = q[k] BY <2>1
  <2>3. k # i BY <2>2
  <2>4. CASE k < i
    <3>1. k \in 1..(n - 1) /\ k <= i - 1 BY <1>2, <1>3, <2>4
    <3> QED BY <1>7, <2>2, <3>1
  <2>5. CASE k > i
    <3>1. k - 1 \in 1..(n - 1) /\ ~(k - 1 <= i - 1) /\ (k - 1) + 1 = k BY <1>2, <1>3, <2>5
    <3>2. later[k - 1] = q[k] BY <1>7, <3>1
    <3> QED BY <2>2, <3>1, <3>2
  <2> QED BY <1>2, <1>3, <2>3, <2>4, <2>5
<1>10. ToSet(later) \subseteq T
  <2> SUFFICES ASSUME NEW k \in 1..(n - 1) PROVE later[k] \in T BY <1>8 DEF ToSet
  <2> QED BY <1>7, <1>8, ElementOfSeq
<1>11. IsInjective(later)
  <2> SUFFICES ASSUME NEW a \in 1..(n - 1), NEW b \in 1..(n - 1), later[a] = later[b] PROVE a = b
    BY <1>8 DEF IsInjective
  <2> DEFINE At(k) == IF k <= i - 1 THEN k ELSE k + 1
  <2>1. At(a) \in 1..n /\ At(b) \in 1..n BY <1>2, <1>3
  <2>2. later[a] = q[At(a)] /\ later[b] = q[At(b)] BY <1>7
  <2>3. At(a) = At(b) BY <1>1, <1>2, <2>1, <2>2 DEF IsInjective
  <2> QED BY <1>2, <1>3, <2>3
<1>12. q[i] \in S BY <1>2, <1>3
<1> QED BY <1>7, <1>9, <1>10, <1>11, <1>12 DEF Lists, later

LEMMA ListsServe ==
  ASSUME NEW S, NEW q, Lists(q, S), q # <<>>
  PROVE  Head(q) \in S /\ Lists(Tail(q), S \ {Head(q)})
<1>1. q \in Seq(S) BY DEF Lists
<1>2. Len(q) \in Nat \ {0} /\ DOMAIN q = 1..Len(q) BY <1>1, EmptySeq, LenProperties
<1>3. Head(q) = q[1] /\ 1 \in DOMAIN q BY <1>1, <1>2
<1>4. q[1] \in S /\ Lists(RemoveAt(q, 1), S \ {q[1]}) BY <1>3, ListsLeave
<1>5. RemoveAt(q, 1) = Tail(q)
  <2>1. SubSeq(q, 1, 0) = <<>> BY SubSeqEmpty
  <2>2. Tail(q) = SubSeq(q, 2, Len(q)) BY <1>1, TailIsSubSeq
  <2>3. Tail(q) \in Seq(S) BY <1>1, HeadTailProperties
  <2>4. <<>> \o Tail(q) = Tail(q) BY <2>3, ConcatEmptySeq
  <2> QED BY <2>1, <2>2, <2>4 DEF RemoveAt
<1> QED BY <1>3, <1>4, <1>5

LEMMA ListsNobody == Lists(<<>>, {})
BY EmptySeq DEF Lists, ToSet, IsInjective

LEMMA ListsEmpty ==
  ASSUME NEW q, Lists(q, {})
  PROVE  q = <<>>
<1>1. q \in Seq({}) BY DEF Lists
<1>2. q # <<>> => q[1] \in {} BY <1>1, EmptySeq, ElementOfSeq
<1> QED BY <1>2

-----------------------------------------------------------------------------
(* Counting *)

LEMMA OneMore ==
  ASSUME NEW S, IsFiniteSet(S), NEW x, x \notin S
  PROVE  Cardinality(S \cup {x}) = Cardinality(S) + 1
BY FS_AddElement

LEMMA OneLess ==
  ASSUME NEW S, IsFiniteSet(S), NEW x \in S
  PROVE  Cardinality(S \ {x}) = Cardinality(S) - 1 /\ Cardinality(S) \in Nat \ {0}
<1>1. IsFiniteSet(S \ {x}) BY FS_Subset
<1>2. x \notin S \ {x} /\ (S \ {x}) \cup {x} = S OBVIOUS
<1>3. Cardinality(S) = Cardinality(S \ {x}) + 1 BY <1>1, <1>2, FS_AddElement
<1>4. Cardinality(S \ {x}) \in Nat BY <1>1, FS_CardinalityType
<1> QED BY <1>3, <1>4

-----------------------------------------------------------------------------
(* Executors *)

LEMMA HoldersFinite == ASSUME NEW p, NEW c PROVE IsFiniteSet(Holders(p, c))
<1>1. Holders(p, c) \subseteq Requests BY DEF Holders, InClass
<1> QED BY <1>1, FS_Subset, ExecutorAssumption

(* Jobs move without taking or giving back a slot. *)
LEMMA SlotsStay ==
  ASSUME ExecutorsInv, slots' = slots, retiring' \in BOOLEAN, pc' \in [Requests -> PCs],
         \A r \in Requests : pc'[r] \in Ended <=> pc[r] \in Ended
  PROVE  ExecutorsInv'
<1>1. \A c \in Classes : Holders(pc', c) = Holders(pc, c) BY DEF Holders, InClass
<1> QED BY <1>1 DEF ExecutorsInv

LEMMA AdmitKeeps ==
  ASSUME ExecutorsInv, NEW r \in Requests, Admit(r)
  PROVE  ExecutorsInv' /\ pc' = [pc EXCEPT ![r] = pc'[r]] /\ pc[r] = "new"
<1> DEFINE c == ClassOf[r]
<1>0. c \in Classes /\ Capacity[c] \in Nat BY ExecutorAssumption
<1>1. pc \in [Requests -> PCs] /\ slots \in [Classes -> Nat] /\ retiring \in BOOLEAN BY DEF ExecutorsInv
<1>2. \A k \in Classes : slots[k] = Cardinality(Holders(pc, k)) /\ slots[k] <= Capacity[k] BY DEF ExecutorsInv
<1>3. CASE slots[c] < Capacity[c]
  <2>1. pc' = [pc EXCEPT ![r] = "queued"] /\ slots' = [slots EXCEPT ![c] = @ + 1]
        /\ UNCHANGED retiring /\ pc[r] = "new"
    BY <1>3 DEF Admit
  <2>2. ASSUME NEW k \in Classes PROVE slots'[k] = Cardinality(Holders(pc', k)) /\ slots'[k] <= Capacity[k]
    <3>1. CASE k = c
      <4>1. Holders(pc', k) = Holders(pc, k) \cup {r} /\ r \notin Holders(pc, k)
        BY <1>1, <2>1, <3>1 DEF Holders, InClass, Ended, PCs
      <4>2. Cardinality(Holders(pc', k)) = Cardinality(Holders(pc, k)) + 1 BY <4>1, HoldersFinite, OneMore
      <4> QED BY <1>0, <1>1, <1>2, <1>3, <2>1, <3>1, <4>2
    <3>2. CASE k # c
      <4>1. Holders(pc', k) = Holders(pc, k) BY <1>1, <2>1, <3>2 DEF Holders, InClass
      <4>2. slots'[k] = slots[k] BY <1>1, <2>1, <3>2
      <4> QED BY <1>2, <4>1, <4>2
    <3> QED BY <3>1, <3>2
  <2>3. pc' \in [Requests -> PCs] /\ slots' \in [Classes -> Nat] BY <1>0, <1>1, <2>1 DEF PCs
  <2> QED BY <1>1, <2>1, <2>2, <2>3 DEF ExecutorsInv
<1>4. CASE ~(slots[c] < Capacity[c])
  <2>1. pc' = [pc EXCEPT ![r] = "done"] /\ UNCHANGED <<slots, retiring>> /\ pc[r] = "new"
    BY <1>4 DEF Admit
  <2>2. pc' \in [Requests -> PCs] BY <1>1, <2>1 DEF PCs
  <2>3. \A q \in Requests : pc'[q] \in Ended <=> pc[q] \in Ended BY <1>1, <2>1 DEF Ended
  <2> QED BY <1>1, <2>1, <2>2, <2>3, SlotsStay
<1> QED BY <1>3, <1>4

LEMMA ReleaseKeeps ==
  ASSUME ExecutorsInv, NEW r \in Requests, Release(r)
  PROVE  ExecutorsInv' /\ pc' = [pc EXCEPT ![r] = "done"] /\ pc[r] = "returned"
<1> DEFINE c == ClassOf[r]
<1>0. c \in Classes /\ Capacity[c] \in Nat BY ExecutorAssumption
<1>1. pc \in [Requests -> PCs] /\ slots \in [Classes -> Nat] /\ retiring \in BOOLEAN BY DEF ExecutorsInv
<1>2. \A k \in Classes : slots[k] = Cardinality(Holders(pc, k)) /\ slots[k] <= Capacity[k] BY DEF ExecutorsInv
<1>3. pc' = [pc EXCEPT ![r] = "done"] /\ slots' = [slots EXCEPT ![c] = @ - 1]
      /\ UNCHANGED retiring /\ pc[r] = "returned"
  BY DEF Release
<1>4. ASSUME NEW k \in Classes
      PROVE  slots'[k] = Cardinality(Holders(pc', k)) /\ slots'[k] <= Capacity[k] /\ slots'[k] \in Nat
  <2>1. CASE k = c
    <3>1. Holders(pc', k) = Holders(pc, k) \ {r} /\ r \in Holders(pc, k)
      BY <1>1, <1>3, <2>1 DEF Holders, InClass, Ended, PCs
    <3>2. Cardinality(Holders(pc', k)) = Cardinality(Holders(pc, k)) - 1 /\ Cardinality(Holders(pc, k)) \in Nat \ {0}
      BY <3>1, HoldersFinite, OneLess
    <3> QED BY <1>0, <1>1, <1>2, <1>3, <2>1, <3>2
  <2>2. CASE k # c
    <3>1. Holders(pc', k) = Holders(pc, k) BY <1>1, <1>3, <2>2 DEF Holders, InClass
    <3>2. slots'[k] = slots[k] BY <1>1, <1>3, <2>2
    <3> QED BY <1>1, <1>2, <3>1, <3>2
  <2> QED BY <2>1, <2>2
<1>5. pc' \in [Requests -> PCs] BY <1>1, <1>3 DEF PCs
<1>6. slots' \in [Classes -> Nat] BY <1>1, <1>3, <1>4
<1> QED BY <1>1, <1>3, <1>4, <1>5, <1>6 DEF ExecutorsInv

(* One job moves on, slot in hand. *)
LEMMA JobMoves ==
  ASSUME ExecutorsInv, NEW r \in Requests, NEW to \in PCs, pc[r] \notin Ended, to \notin Ended,
         pc' = [pc EXCEPT ![r] = to], UNCHANGED <<slots, retiring>>
  PROVE  ExecutorsInv'
<1>1. pc \in [Requests -> PCs] /\ retiring \in BOOLEAN BY DEF ExecutorsInv
<1>2. pc' \in [Requests -> PCs] BY <1>1
<1>3. \A q \in Requests : pc'[q] \in Ended <=> pc[q] \in Ended BY <1>1
<1> QED BY <1>1, <1>2, <1>3, SlotsStay

-----------------------------------------------------------------------------
(* Reads *)

LEMMA PooledFinite == ASSUME NEW ch PROVE IsFiniteSet(Pooled(ch)) /\ Cardinality(Pooled(ch)) \in Nat
<1>1. Pooled(ch) \subseteq Reads BY DEF Pooled
<1>2. IsFiniteSet(Pooled(ch)) BY <1>1, FS_Subset, ReadsAssumption
<1> QED BY <1>2, FS_CardinalityType

(* What a read's move does to the queue of tickets and to the pool. *)
LEMMA ReadMoves ==
  ASSUME NEW ch \in [Reads -> ChildStates], NEW later \in [Reads -> ChildStates], NEW d \in Reads,
         \A e \in Reads : e # d => later[e] = ch[e]
  PROVE  /\ Ticketed(later) = IF later[d] = "ticket" THEN Ticketed(ch) \cup {d} ELSE Ticketed(ch) \ {d}
         /\ Pooled(later) = IF later[d] \in Counted THEN Pooled(ch) \cup {d} ELSE Pooled(ch) \ {d}
         /\ d \in Ticketed(ch) <=> ch[d] = "ticket"
         /\ d \in Pooled(ch) <=> ch[d] \in Counted
<1>1. Ticketed(later) = IF later[d] = "ticket" THEN Ticketed(ch) \cup {d} ELSE Ticketed(ch) \ {d}
  BY DEF Ticketed
<1>2. Pooled(later) = IF later[d] \in Counted THEN Pooled(ch) \cup {d} ELSE Pooled(ch) \ {d}
  <2>1. CASE later[d] \in Counted BY <2>1 DEF Pooled
  <2>2. CASE later[d] \notin Counted BY <2>2 DEF Pooled
  <2> QED BY <2>1, <2>2
<1> QED BY <1>1, <1>2 DEF Ticketed, Pooled

(* The requests move, their reads do not. *)
LEMMA ReadsStay ==
  ASSUME ReadsInv, UNCHANGED <<child, tickets, outstanding>>,
         \A d \in Reads : child[d] \in Started => pc'[d[1]] \in {"running", "joining"}
  PROVE  ReadsInv'
<1>1. Ticketed(child') = Ticketed(child) /\ Pooled(child') = Pooled(child) OBVIOUS
<1> QED BY <1>1 DEF ReadsInv

(* Reads that stay where they count, or stop being read. *)
LEMMA PoolStays ==
  ASSUME ReadsInv, UNCHANGED <<tickets, outstanding>>, child' \in [Reads -> ChildStates],
         \A d \in Reads : /\ child'[d] \in Counted <=> child[d] \in Counted
                          /\ child'[d] = "ticket" <=> child[d] = "ticket"
                          /\ child'[d] \in Started => pc'[d[1]] \in {"running", "joining"}
  PROVE  ReadsInv'
<1>1. Ticketed(child') = Ticketed(child) BY DEF Ticketed
<1>2. Pooled(child') = Pooled(child) BY DEF Pooled
<1> QED BY <1>1, <1>2 DEF ReadsInv

LEMMA AskKeeps ==
  ASSUME ReadsInv, pc \in [Requests -> PCs], NEW d \in Reads, Ask(d)
  PROVE  ReadsInv'
<1>0. d[1] \in Requests BY ReadsAssumption
<1>1. child \in [Reads -> ChildStates] /\ Lists(tickets, Ticketed(child)) BY DEF ReadsInv
<1>2. pc[d[1]] = "running" /\ child[d] = "none" /\ UNCHANGED outstanding BY DEF Ask
<1>3. CASE d[1] \in expired \/ retiring \/ closed
  <2>1. pc' = [pc EXCEPT ![d[1]] = "joining"] /\ UNCHANGED <<child, tickets, outstanding>>
    BY <1>3 DEF Ask, Leaves
  <2>2. \A r \in Requests : pc'[r] = IF r = d[1] THEN "joining" ELSE pc[r] BY <2>1
  <2>3. \A e \in Reads : child[e] \in Started => pc'[e[1]] \in {"running", "joining"}
    BY <2>2, ReadsAssumption DEF ReadsInv
  <2> QED BY <2>1, <2>3, ReadsStay
<1>4. CASE ~(d[1] \in expired \/ retiring \/ closed)
  <2>1. child' = [child EXCEPT ![d] = "ticket"] /\ tickets' = Append(tickets, d) /\ UNCHANGED <<pc, outstanding>>
    BY <1>4 DEF Ask, Move
  <2>2. PICK later : later = child' OBVIOUS
  <2>3. "ticket" \in ChildStates /\ "ticket" \notin Counted BY DEF ChildStates, Counted
  <2>4. /\ later \in [Reads -> ChildStates] /\ later[d] = "ticket"
        /\ \A e \in Reads : e # d => later[e] = child[e]
        /\ Ticketed(later) = Ticketed(child) \cup {d} /\ d \notin Ticketed(child)
        /\ Pooled(later) = Pooled(child) \ {d} /\ d \notin Pooled(child)
    <3>1. /\ later \in [Reads -> ChildStates] /\ later[d] = "ticket"
          /\ \A e \in Reads : e # d => later[e] = child[e]
      BY <1>1, <2>1, <2>2, <2>3
    <3>2. child[d] \notin Counted \cup {"ticket"} BY <1>2 DEF Counted
    <3> QED BY <1>1, <2>3, <3>1, <3>2, ReadMoves
  <2>5. Lists(tickets', Ticketed(later)) BY <1>1, <2>1, <2>4, ListsJoin
  <2>6. Pooled(later) = Pooled(child) BY <2>4
  <2>7. \A e \in Reads : later[e] \in Started => pc'[e[1]] \in {"running", "joining"}
    BY <1>2, <2>1, <2>4 DEF ReadsInv
  <2> QED BY <2>1, <2>2, <2>4, <2>5, <2>6, <2>7 DEF ReadsInv
<1> QED BY <1>3, <1>4

LEMMA GrantKeeps ==
  ASSUME ReadsInv, NEW d \in Reads, Grant(d)
  PROVE  ReadsInv' /\ child[d] = "ticket"
<1>1. child \in [Reads -> ChildStates] /\ Lists(tickets, Ticketed(child)) BY DEF ReadsInv
<1>2. /\ tickets # <<>> /\ Head(tickets) = d /\ outstanding < IOCapacity /\ tickets' = Tail(tickets)
      /\ outstanding' = outstanding + 1 /\ child' = [child EXCEPT ![d] = "granted"] /\ UNCHANGED pc
  BY DEF Grant, Move, executors
<1>3. d \in Ticketed(child) /\ Lists(tickets', Ticketed(child) \ {d}) BY <1>1, <1>2, ListsServe
<1>4. child[d] = "ticket" BY <1>3 DEF Ticketed
<1>5. PICK later : later = child' OBVIOUS
<1>6. "granted" \in ChildStates /\ "granted" \in Counted BY DEF ChildStates, Counted
<1>7. /\ later \in [Reads -> ChildStates] /\ later[d] = "granted"
      /\ \A e \in Reads : e # d => later[e] = child[e]
      /\ Ticketed(later) = Ticketed(child) \ {d}
      /\ Pooled(later) = Pooled(child) \cup {d} /\ d \notin Pooled(child)
  <2>1. /\ later \in [Reads -> ChildStates] /\ later[d] = "granted"
        /\ \A e \in Reads : e # d => later[e] = child[e]
    BY <1>1, <1>2, <1>5, <1>6
  <2>2. child[d] \notin Counted BY <1>2, <1>4 DEF Counted
  <2> QED BY <1>1, <1>6, <2>1, <2>2, ReadMoves
<1>8. Cardinality(Pooled(later)) = Cardinality(Pooled(child)) + 1 BY <1>7, PooledFinite, OneMore
<1>9. outstanding' = Cardinality(Pooled(later)) /\ outstanding' <= IOCapacity
  <2>1. outstanding = Cardinality(Pooled(child)) /\ outstanding \in Nat BY PooledFinite DEF ReadsInv
  <2> QED BY <1>2, <1>8, <2>1, ReadsAssumption
<1>10. \A e \in Reads : later[e] \in Started => pc'[e[1]] \in {"running", "joining"}
  BY <1>2, <1>4, <1>7 DEF ReadsInv, Started
<1> QED BY <1>3, <1>4, <1>5, <1>7, <1>9, <1>10 DEF ReadsInv

LEMMA GiveUpTicketKeeps ==
  ASSUME ReadsInv, pc \in [Requests -> PCs], NEW d \in Reads, GiveUpTicket(d)
  PROVE  ReadsInv' /\ child[d] = "ticket"
<1>1. child \in [Reads -> ChildStates] /\ Lists(tickets, Ticketed(child)) BY DEF ReadsInv
<1>2. /\ child[d] = "ticket" /\ child' = [child EXCEPT ![d] = "none"] /\ UNCHANGED outstanding
      /\ pc' = [pc EXCEPT ![d[1]] = "joining"]
  BY DEF GiveUpTicket, Move, Leaves
<1>3. PICK i \in DOMAIN tickets : tickets[i] = d /\ tickets' = RemoveAt(tickets, i) BY DEF GiveUpTicket
<1>4. Lists(tickets', Ticketed(child) \ {d}) BY <1>1, <1>3, ListsLeave
<1>5. PICK later : later = child' OBVIOUS
<1>6. "none" \in ChildStates /\ "none" \notin Counted BY DEF ChildStates, Counted
<1>7. /\ later \in [Reads -> ChildStates] /\ later[d] = "none"
      /\ \A e \in Reads : e # d => later[e] = child[e]
      /\ Ticketed(later) = Ticketed(child) \ {d}
      /\ Pooled(later) = Pooled(child) \ {d} /\ d \notin Pooled(child)
  <2>1. /\ later \in [Reads -> ChildStates] /\ later[d] = "none"
        /\ \A e \in Reads : e # d => later[e] = child[e]
    BY <1>1, <1>2, <1>5, <1>6
  <2>2. child[d] \notin Counted BY <1>2 DEF Counted
  <2> QED BY <1>1, <1>6, <2>1, <2>2, ReadMoves
<1>8. Pooled(later) = Pooled(child) BY <1>7
<1>9. \A r \in Requests : pc'[r] = IF r = d[1] THEN "joining" ELSE pc[r] BY <1>2
<1>10. \A e \in Reads : later[e] \in Started => pc'[e[1]] \in {"running", "joining"}
  BY <1>7, <1>9, ReadsAssumption DEF ReadsInv, Started
<1> QED BY <1>2, <1>4, <1>5, <1>7, <1>8, <1>10 DEF ReadsInv

(* A read gives its place in the pool back. *)
LEMMA PlaceGivenBack ==
  ASSUME ReadsInv, NEW d \in Reads, child[d] \in Counted, NEW s \in {"none", "done"},
         child' = [child EXCEPT ![d] = s], outstanding' = outstanding - 1, UNCHANGED tickets,
         \A e \in Reads : e # d /\ child[e] \in Started => pc'[e[1]] \in {"running", "joining"}
  PROVE  ReadsInv'
<1>1. child \in [Reads -> ChildStates] /\ Lists(tickets, Ticketed(child)) BY DEF ReadsInv
<1>2. PICK later : later = child' OBVIOUS
<1>3. s \in ChildStates /\ s \notin Counted /\ s \notin Started /\ s # "ticket" BY DEF ChildStates, Counted, Started
<1>4. /\ later \in [Reads -> ChildStates] /\ later[d] = s
      /\ \A e \in Reads : e # d => later[e] = child[e]
      /\ Ticketed(later) = Ticketed(child) \ {d} /\ d \notin Ticketed(child)
      /\ Pooled(later) = Pooled(child) \ {d} /\ d \in Pooled(child)
  <2>1. /\ later \in [Reads -> ChildStates] /\ later[d] = s
        /\ \A e \in Reads : e # d => later[e] = child[e]
    BY <1>1, <1>2, <1>3
  <2>2. child[d] # "ticket" BY DEF Counted
  <2> QED BY <1>1, <1>3, <2>1, <2>2, ReadMoves
<1>5. Ticketed(later) = Ticketed(child) BY <1>4
<1>6. Cardinality(Pooled(later)) = Cardinality(Pooled(child)) - 1 /\ Cardinality(Pooled(child)) \in Nat \ {0}
  BY <1>4, PooledFinite, OneLess
<1>7. outstanding' = Cardinality(Pooled(later)) /\ outstanding' <= IOCapacity
  <2>1. outstanding = Cardinality(Pooled(child)) /\ outstanding <= IOCapacity BY DEF ReadsInv
  <2> QED BY <1>6, <2>1, ReadsAssumption
<1>8. \A e \in Reads : later[e] \in Started => pc'[e[1]] \in {"running", "joining"} BY <1>3, <1>4
<1> QED BY <1>1, <1>2, <1>4, <1>5, <1>7, <1>8 DEF ReadsInv

LEMMA EnqueueKeeps ==
  ASSUME ReadsInv, pc \in [Requests -> PCs], NEW d \in Reads, Enqueue(d)
  PROVE  ReadsInv' /\ child[d] \in Counted
<1>1. child \in [Reads -> ChildStates] BY DEF ReadsInv
<1>2. child[d] = "granted" /\ UNCHANGED tickets BY DEF Enqueue
<1>3. CASE retiring
  <2>1. child' = [child EXCEPT ![d] = "none"] /\ outstanding' = outstanding - 1
        /\ pc' = [pc EXCEPT ![d[1]] = "joining"]
    BY <1>3 DEF Enqueue, Move, Leaves
  <2>2. \A e \in Reads : e # d /\ child[e] \in Started => pc'[e[1]] \in {"running", "joining"}
    <3>1. \A r \in Requests : pc'[r] = IF r = d[1] THEN "joining" ELSE pc[r] BY <2>1
    <3> QED BY <3>1, ReadsAssumption DEF ReadsInv
  <2>3. ReadsInv' BY <1>2, <2>1, <2>2, PlaceGivenBack DEF Counted
  <2> QED BY <1>2, <2>3 DEF Counted
<1>4. CASE ~retiring
  <2>1. child' = [child EXCEPT ![d] = "queued"] /\ UNCHANGED <<outstanding, pc>> BY <1>4 DEF Enqueue, Move
  <2>2. child' \in [Reads -> ChildStates] BY <1>1, <2>1 DEF ChildStates
  <2>3. \A e \in Reads : /\ child'[e] \in Counted <=> child[e] \in Counted
                         /\ child'[e] = "ticket" <=> child[e] = "ticket"
                         /\ child'[e] \in Started => pc'[e[1]] \in {"running", "joining"}
    BY <1>1, <1>2, <2>1 DEF ReadsInv, Counted, Started
  <2>4. ReadsInv' BY <1>2, <2>1, <2>2, <2>3, PoolStays
  <2> QED BY <1>2, <2>4 DEF Counted
<1> QED BY <1>3, <1>4

LEMMA RunReadKeeps ==
  ASSUME ReadsInv, NEW d \in Reads, BeginRead(d) \/ EndRead(d) \/ ReleaseRead(d)
  PROVE  ReadsInv' /\ child[d] \in Counted
<1>1. child \in [Reads -> ChildStates] BY DEF ReadsInv
<1>2. CASE BeginRead(d) \/ EndRead(d)
  <2>1. PICK s \in {"running", "returned"} : child' = [child EXCEPT ![d] = s] BY <1>2 DEF BeginRead, EndRead, Move
  <2>2. child[d] \in {"queued", "running"} /\ UNCHANGED <<tickets, outstanding, pc>>
    BY <1>2 DEF BeginRead, EndRead, executors
  <2>3. child' \in [Reads -> ChildStates] BY <1>1, <2>1 DEF ChildStates
  <2>4. \A e \in Reads : /\ child'[e] \in Counted <=> child[e] \in Counted
                         /\ child'[e] = "ticket" <=> child[e] = "ticket"
                         /\ child'[e] \in Started => pc'[e[1]] \in {"running", "joining"}
    BY <1>1, <2>1, <2>2 DEF ReadsInv, Counted, Started
  <2>5. ReadsInv' BY <2>2, <2>3, <2>4, PoolStays
  <2> QED BY <2>2, <2>5 DEF Counted
<1>3. CASE ReleaseRead(d)
  <2>1. child[d] = "returned" /\ child' = [child EXCEPT ![d] = "done"] /\ outstanding' = outstanding - 1
        /\ UNCHANGED <<tickets, pc>>
    BY <1>3 DEF ReleaseRead, Move, executors
  <2>2. \A e \in Reads : e # d /\ child[e] \in Started => pc'[e[1]] \in {"running", "joining"}
    BY <2>1 DEF ReadsInv
  <2>3. ReadsInv' BY <2>1, <2>2, PlaceGivenBack DEF Counted
  <2> QED BY <2>1, <2>3 DEF Counted
<1> QED BY <1>2, <1>3

(* Reads still queued are cancelled: by their request, or with the pool. *)
LEMMA CancelKeeps ==
  ASSUME ReadsInv, NEW given,
         child' = [d \in Reads |-> IF d \in given /\ child[d] = "queued" THEN "returned" ELSE child[d]],
         UNCHANGED <<tickets, outstanding>>,
         \A d \in Reads : child[d] \in Started => pc'[d[1]] \in {"running", "joining"}
  PROVE  ReadsInv'
<1>1. child \in [Reads -> ChildStates] BY DEF ReadsInv
<1>2. child' \in [Reads -> ChildStates] BY <1>1 DEF ChildStates
<1>3. \A e \in Reads : /\ child'[e] \in Counted <=> child[e] \in Counted
                       /\ child'[e] = "ticket" <=> child[e] = "ticket"
                       /\ child'[e] \in Started => pc'[e[1]] \in {"running", "joining"}
  BY <1>1 DEF Counted, Started
<1> QED BY <1>2, <1>3, PoolStays

LEMMA LeaveKeeps ==
  ASSUME ReadsInv, pc \in [Requests -> PCs], NEW r \in Requests, Leave(r)
  PROVE  ReadsInv'
<1>1. pc' = [pc EXCEPT ![r] = "joining"] /\ UNCHANGED <<tickets, outstanding>>
      /\ child' = [d \in Reads |-> IF d[1] = r /\ child[d] = "queued" THEN "returned" ELSE child[d]]
  BY DEF Leave, Leaves
<1>2. PICK given : given = {d \in Reads : d[1] = r} OBVIOUS
<1>3. child' = [d \in Reads |-> IF d \in given /\ child[d] = "queued" THEN "returned" ELSE child[d]]
  BY <1>1, <1>2
<1>4. \A q \in Requests : pc'[q] = IF q = r THEN "joining" ELSE pc[q] BY <1>1
<1>5. \A d \in Reads : child[d] \in Started => pc'[d[1]] \in {"running", "joining"}
  BY <1>4, ReadsAssumption DEF ReadsInv
<1> QED BY <1>1, <1>3, <1>5, CancelKeeps

LEMMA JoinKeeps ==
  ASSUME ReadsInv, pc \in [Requests -> PCs], NEW r \in Requests, Join(r)
  PROVE  ReadsInv'
<1>1. pc' = [pc EXCEPT ![r] = "returned"] /\ UNCHANGED <<child, tickets, outstanding>> BY DEF Join, Returned, io
<1>2. \A d \in Reads : d[1] = r => child[d] \notin Started BY DEF Join, Finished, Of, Started
<1>3. \A q \in Requests : q # r => pc'[q] = pc[q] BY <1>1
<1>4. \A d \in Reads : child[d] \in Started => pc'[d[1]] \in {"running", "joining"}
  BY <1>2, <1>3, ReadsAssumption DEF ReadsInv
<1> QED BY <1>1, <1>4, ReadsStay

-----------------------------------------------------------------------------
(* The query cache and the encoder *)

LEMMA AtWorkFinite == ASSUME NEW en PROVE IsFiniteSet(AtWork(en)) /\ Cardinality(AtWork(en)) \in Nat
<1>1. AtWork(en) \subseteq Requests BY EncodingAssumption DEF AtWork, Callers
<1>2. IsFiniteSet(AtWork(en)) BY <1>1, FS_Subset, ExecutorAssumption
<1> QED BY <1>2, FS_CardinalityType

(* What a caller's move does to the line and to the work. *)
LEMMA CallerMoves ==
  ASSUME NEW en \in [Callers -> EncStates], NEW later \in [Callers -> EncStates], NEW r \in Callers,
         \A q \in Callers : q # r => later[q] = en[q]
  PROVE  /\ InLine(later) = IF later[r] = "ticket" THEN InLine(en) \cup {r} ELSE InLine(en) \ {r}
         /\ AtWork(later) = IF later[r] = "encoding" THEN AtWork(en) \cup {r} ELSE AtWork(en) \ {r}
         /\ r \in InLine(en) <=> en[r] = "ticket"
         /\ r \in AtWork(en) <=> en[r] = "encoding"
<1>1. InLine(later) = IF later[r] = "ticket" THEN InLine(en) \cup {r} ELSE InLine(en) \ {r}
  BY DEF InLine
<1>2. AtWork(later) = IF later[r] = "encoding" THEN AtWork(en) \cup {r} ELSE AtWork(en) \ {r}
  BY DEF AtWork
<1> QED BY <1>1, <1>2 DEF InLine, AtWork

(* The requests move, what they encode does not. *)
LEMMA EncodingStays ==
  ASSUME EncodingInv, UNCHANGED <<flight, owner, outcome, enc, line>>,
         \A r \in Callers : enc[r] \notin {"idle", "left"} => pc'[r] = "running"
  PROVE  EncodingInv'
<1>1. FlightsInv' BY DEF EncodingInv, FlightsInv
<1>2. InLine(enc') = InLine(enc) /\ AtWork(enc') = AtWork(enc) OBVIOUS
<1> QED BY <1>1, <1>2 DEF EncodingInv

(* Nobody takes or leaves a flight, and who still waits waits for the same. *)
LEMMA FlightsStay ==
  ASSUME FlightsInv, UNCHANGED <<flight, outcome>>, owner' \in [Searches -> Searches \cup {Nobody}],
         \A s \in Searches : /\ enc'[s] \in Owning <=> enc[s] \in Owning
                             /\ enc'[s] = "waiting" => enc[s] = "waiting" /\ owner'[s] = owner[s]
  PROVE  FlightsInv'
BY DEF FlightsInv

(* A caller moves outside the line and the encoder. *)
LEMMA CallerAside ==
  ASSUME EncodingInv, NEW r \in Callers, NEW to \in EncStates \ {"ticket", "encoding"},
         enc[r] \notin {"ticket", "encoding"}, pc[r] = "running",
         enc' = [enc EXCEPT ![r] = to], UNCHANGED <<line, pc>>, FlightsInv',
         outcome' \in [Searches -> {"none", "value", "error"}]
  PROVE  EncodingInv'
<1>1. enc \in [Callers -> EncStates] BY DEF EncodingInv
<1>2. PICK later : later = enc' OBVIOUS
<1>3. later \in [Callers -> EncStates] /\ later[r] = to /\ \A q \in Callers : q # r => later[q] = enc[q]
  BY <1>1, <1>2
<1>4. InLine(later) = InLine(enc) \ {r} /\ AtWork(later) = AtWork(enc) \ {r}
      /\ r \notin InLine(enc) /\ r \notin AtWork(enc)
  BY <1>1, <1>3, CallerMoves
<1>5. InLine(later) = InLine(enc) /\ AtWork(later) = AtWork(enc) BY <1>4
<1>6. \A q \in Callers : later[q] \notin {"idle", "left"} => pc'[q] = "running" BY <1>3 DEF EncodingInv
<1> QED BY <1>2, <1>3, <1>5, <1>6 DEF EncodingInv

LEMMA QueryOf == \A s \in Searches : Query[s] \in Queries /\ s # Nobody /\ s \in Callers
BY EncodingAssumption DEF Queries, Callers

LEMMA LookupKeeps ==
  ASSUME EncodingInv, NEW s \in Searches, Lookup(s)
  PROVE  EncodingInv'
<1>0. s \in Callers /\ Query[s] \in Queries /\ s # Nobody BY QueryOf
<1>1. enc \in [Callers -> EncStates] /\ FlightsInv /\ outcome \in [Searches -> {"none", "value", "error"}]
  BY DEF EncodingInv
<1>2. pc[s] = "running" /\ enc[s] = "idle" /\ UNCHANGED <<pc, line, outcome>> BY DEF Lookup, executors
<1>3. \A q \in Searches : q \in Callers BY QueryOf
<1>4. CASE enc' = [enc EXCEPT ![s] = "left"] /\ UNCHANGED <<flight, owner>>
  <2>1. \A q \in Searches : /\ enc'[q] \in Owning <=> enc[q] \in Owning
                            /\ enc'[q] = "waiting" => enc[q] = "waiting" /\ owner'[q] = owner[q]
    BY <1>1, <1>2, <1>3, <1>4 DEF Owning
  <2>2. owner' \in [Searches -> Searches \cup {Nobody}] BY <1>1, <1>4 DEF FlightsInv
  <2>3. FlightsInv' BY <1>1, <1>2, <1>4, <2>1, <2>2, FlightsStay
  <2> QED BY <1>0, <1>1, <1>2, <1>4, <2>3, CallerAside DEF EncStates
<1>5. CASE /\ flight[Query[s]] = Nobody /\ enc' = [enc EXCEPT ![s] = "owning"]
           /\ flight' = [flight EXCEPT ![Query[s]] = s] /\ UNCHANGED owner
  <2>1. flight' \in [Queries -> Searches \cup {Nobody}] /\ owner' \in [Searches -> Searches \cup {Nobody}]
    BY <1>0, <1>1, <1>5 DEF FlightsInv
  <2>2. \A q \in Queries : flight'[q] # Nobody => Query[flight'[q]] = q BY <1>0, <1>1, <1>5 DEF FlightsInv
  <2>3. \A t \in Searches : enc'[t] \in Owning <=> flight'[Query[t]] = t
    BY <1>0, <1>1, <1>3, <1>5, QueryOf DEF FlightsInv, Owning
  <2>4. ASSUME NEW t \in Searches, enc'[t] = "waiting"
        PROVE  owner'[t] \in Searches /\ (outcome'[owner'[t]] # "none" \/ flight'[Query[t]] = owner'[t])
    <3>1. t # s /\ enc[t] = "waiting" BY <1>1, <1>3, <1>5, <2>4
    <3>2. owner[t] \in Searches /\ (outcome[owner[t]] # "none" \/ flight[Query[t]] = owner[t])
      BY <1>1, <3>1 DEF FlightsInv
    <3>3. flight[Query[t]] = owner[t] => Query[t] # Query[s] BY <1>5, <3>2, QueryOf
    <3>4. Query[t] # Query[s] => flight'[Query[t]] = flight[Query[t]] BY <1>0, <1>1, <1>5, QueryOf DEF FlightsInv
    <3> QED BY <1>2, <1>5, <3>2, <3>3, <3>4
  <2>5. FlightsInv' BY <2>1, <2>2, <2>3, <2>4 DEF FlightsInv
  <2> QED BY <1>0, <1>1, <1>2, <1>5, <2>5, CallerAside DEF EncStates, Owning
<1>6. CASE /\ flight[Query[s]] # Nobody /\ enc' = [enc EXCEPT ![s] = "waiting"]
           /\ owner' = [owner EXCEPT ![s] = flight[Query[s]]] /\ UNCHANGED flight
  <2>1. flight[Query[s]] \in Searches BY <1>0, <1>1, <1>6 DEF FlightsInv
  <2>2. flight' \in [Queries -> Searches \cup {Nobody}] /\ owner' \in [Searches -> Searches \cup {Nobody}]
    BY <1>1, <1>6, <2>1 DEF FlightsInv
  <2>3. \A t \in Searches : enc'[t] \in Owning <=> flight'[Query[t]] = t
    BY <1>1, <1>2, <1>3, <1>6 DEF FlightsInv, Owning
  <2>4. ASSUME NEW t \in Searches, enc'[t] = "waiting"
        PROVE  owner'[t] \in Searches /\ (outcome'[owner'[t]] # "none" \/ flight'[Query[t]] = owner'[t])
    <3>1. CASE t = s
      <4>1. owner'[t] = flight[Query[t]] BY <1>1, <1>6, <3>1 DEF FlightsInv
      <4> QED BY <1>6, <2>1, <3>1, <4>1
    <3>2. CASE t # s
      <4>1. enc[t] = "waiting" /\ owner'[t] = owner[t] BY <1>1, <1>3, <1>6, <2>4, <3>2 DEF FlightsInv
      <4> QED BY <1>1, <1>2, <1>6, <4>1 DEF FlightsInv
    <3> QED BY <3>1, <3>2
  <2>5. \A q \in Queries : flight'[q] # Nobody => Query[flight'[q]] = q BY <1>1, <1>6 DEF FlightsInv
  <2>6. FlightsInv' BY <2>2, <2>3, <2>4, <2>5 DEF FlightsInv
  <2> QED BY <1>0, <1>1, <1>2, <1>6, <2>6, CallerAside DEF EncStates
<1>7. \/ enc' = [enc EXCEPT ![s] = "left"] /\ UNCHANGED <<flight, owner>>
      \/ /\ flight[Query[s]] = Nobody /\ enc' = [enc EXCEPT ![s] = "owning"]
         /\ flight' = [flight EXCEPT ![Query[s]] = s] /\ UNCHANGED owner
      \/ /\ flight[Query[s]] # Nobody /\ enc' = [enc EXCEPT ![s] = "waiting"]
         /\ owner' = [owner EXCEPT ![s] = flight[Query[s]]] /\ UNCHANGED flight
  BY DEF Lookup, Becomes
<1> QED BY <1>4, <1>5, <1>6, <1>7

LEMMA WaiterLeaves ==
  ASSUME EncodingInv, NEW s \in Searches, StopWaiting(s) \/ Share(s)
  PROVE  EncodingInv'
<1>0. s \in Callers /\ \A q \in Searches : q \in Callers BY QueryOf
<1>1. enc \in [Callers -> EncStates] /\ FlightsInv /\ outcome \in [Searches -> {"none", "value", "error"}]
  BY DEF EncodingInv
<1>2. /\ enc[s] = "waiting" /\ enc' = [enc EXCEPT ![s] = "left"] /\ owner' = [owner EXCEPT ![s] = Nobody]
      /\ UNCHANGED <<pc, line, outcome, flight>>
  BY DEF StopWaiting, Share, Waiting, Becomes, executors
<1>3. pc[s] = "running" BY <1>0, <1>2 DEF EncodingInv
<1>4. \A q \in Searches : /\ enc'[q] \in Owning <=> enc[q] \in Owning
                          /\ enc'[q] = "waiting" => enc[q] = "waiting" /\ owner'[q] = owner[q]
  BY <1>0, <1>1, <1>2 DEF Owning, FlightsInv
<1>5. owner' \in [Searches -> Searches \cup {Nobody}] BY <1>1, <1>2 DEF FlightsInv
<1>6. FlightsInv' BY <1>1, <1>2, <1>4, <1>5, FlightsStay
<1> QED BY <1>0, <1>1, <1>2, <1>3, <1>6, CallerAside DEF EncStates

LEMMA PublishKeeps ==
  ASSUME EncodingInv, NEW s \in Searches, Publish(s)
  PROVE  EncodingInv'
<1>0. s \in Callers /\ Query[s] \in Queries /\ s # Nobody BY QueryOf
<1>1. enc \in [Callers -> EncStates] /\ FlightsInv /\ outcome \in [Searches -> {"none", "value", "error"}]
  BY DEF EncodingInv
<1>2. /\ enc[s] \in {"value", "error"} /\ enc' = [enc EXCEPT ![s] = "left"]
      /\ flight' = [flight EXCEPT ![Query[s]] = Nobody] /\ outcome' = [outcome EXCEPT ![s] = enc[s]]
      /\ UNCHANGED <<pc, owner, line>>
  BY DEF Publish, Becomes, executors
<1>3. pc[s] = "running" BY <1>0, <1>2 DEF EncodingInv
<1>4. \A t \in Searches : t \in Callers /\ t # Nobody /\ Query[t] \in Queries BY QueryOf
<1>5. flight[Query[s]] = s BY <1>1, <1>2 DEF FlightsInv, Owning
<1>6. \A t \in Searches : enc'[t] \in Owning <=> flight'[Query[t]] = t
  <2> TAKE t \in Searches
  <2>1. enc[t] \in Owning <=> flight[Query[t]] = t BY <1>1 DEF FlightsInv
  <2>2. CASE t = s BY <1>0, <1>1, <1>2, <1>4, <2>2 DEF FlightsInv, Owning
  <2>3. CASE t # s
    <3>1. enc'[t] = enc[t] BY <1>1, <1>2, <1>4, <2>3
    <3>2. flight'[Query[t]] = IF Query[t] = Query[s] THEN Nobody ELSE flight[Query[t]]
      BY <1>1, <1>2, <1>4 DEF FlightsInv
    <3> QED BY <1>4, <1>5, <2>1, <2>3, <3>1, <3>2
  <2> QED BY <2>2, <2>3
<1>7. ASSUME NEW t \in Searches, enc'[t] = "waiting"
      PROVE  owner'[t] \in Searches /\ (outcome'[owner'[t]] # "none" \/ flight'[Query[t]] = owner'[t])
  <2>1. enc[t] = "waiting" /\ owner'[t] = owner[t] BY <1>1, <1>2, <1>4, <1>7
  <2>2. owner[t] \in Searches /\ (outcome[owner[t]] # "none" \/ flight[Query[t]] = owner[t])
    BY <1>1, <2>1 DEF FlightsInv
  <2>3. outcome[owner[t]] # "none" => outcome'[owner[t]] # "none" BY <1>1, <1>2, <2>2
  <2>4. CASE Query[t] = Query[s]
    <3>1. flight[Query[t]] = owner[t] => owner[t] = s BY <1>5, <2>4
    <3>2. outcome'[s] # "none" BY <1>1, <1>2
    <3> QED BY <2>1, <2>2, <2>3, <3>1, <3>2
  <2>5. CASE Query[t] # Query[s]
    <3>1. flight'[Query[t]] = flight[Query[t]] BY <1>1, <1>2, <1>4, <2>5 DEF FlightsInv
    <3> QED BY <2>1, <2>2, <2>3, <3>1
  <2> QED BY <2>4, <2>5
<1>8. \A q \in Queries : flight'[q] # Nobody => Query[flight'[q]] = q BY <1>1, <1>2 DEF FlightsInv
<1>9. flight' \in [Queries -> Searches \cup {Nobody}] /\ owner' \in [Searches -> Searches \cup {Nobody}]
  BY <1>1, <1>2 DEF FlightsInv
<1>10. FlightsInv' BY <1>6, <1>7, <1>8, <1>9 DEF FlightsInv
<1>11. outcome' \in [Searches -> {"none", "value", "error"}] BY <1>1, <1>2
<1>12. enc[s] \notin {"ticket", "encoding"} BY <1>2
<1> QED BY <1>0, <1>2, <1>3, <1>10, <1>11, <1>12, CallerAside DEF EncStates

(* A caller moves in the line or the encoder, its flight as before. *)
LEMMA CallerInEncoder ==
  ASSUME EncodingInv, NEW r \in Callers, NEW to \in EncStates, pc[r] = "running",
         enc' = [enc EXCEPT ![r] = to], UNCHANGED <<pc, flight, owner, outcome>>,
         r \in Searches => enc[r] \in Owning /\ to \in Owning,
         Lists(line', InLine(enc')), Cardinality(AtWork(enc')) <= MaxConcurrency
  PROVE  EncodingInv'
<1>1. enc \in [Callers -> EncStates] /\ FlightsInv BY DEF EncodingInv
<1>2. \A s \in Searches : s \in Callers BY QueryOf
<1>3. "waiting" \notin Owning BY DEF Owning
<1>4. \A s \in Searches : enc'[s] = IF s = r THEN to ELSE enc[s] BY <1>1, <1>2
<1>5. \A s \in Searches : /\ enc'[s] \in Owning <=> enc[s] \in Owning
                          /\ enc'[s] = "waiting" => enc[s] = "waiting" /\ owner'[s] = owner[s]
  BY <1>3, <1>4
<1>6. owner' \in [Searches -> Searches \cup {Nobody}] BY <1>1 DEF FlightsInv
<1>7. FlightsInv' BY <1>1, <1>5, <1>6, FlightsStay
<1>8. enc' \in [Callers -> EncStates] BY <1>1
<1>9. \A q \in Callers : enc'[q] \notin {"idle", "left"} => pc'[q] = "running" BY <1>1 DEF EncodingInv
<1> QED BY <1>7, <1>8, <1>9 DEF EncodingInv

LEMMA TakeTicketKeeps ==
  ASSUME EncodingInv, NEW r \in Callers, TakeTicket(r)
  PROVE  EncodingInv'
<1>1. enc \in [Callers -> EncStates] /\ Lists(line, InLine(enc)) /\ Cardinality(AtWork(enc)) <= MaxConcurrency
  BY DEF EncodingInv
<1>2. enc' = [enc EXCEPT ![r] = "ticket"] /\ line' = Append(line, r) /\ UNCHANGED <<pc, flight, owner, outcome>>
  BY DEF TakeTicket, Becomes, executors
<1>3. enc[r] \in {"owning", "idle"} /\ (r \in Searches => enc[r] \in Owning) /\ pc[r] = "running"
  BY EncodingAssumption DEF TakeTicket, EncodingInv, Owning
<1>4. PICK later : later = enc' OBVIOUS
<1>5. later \in [Callers -> EncStates] /\ later[r] = "ticket" /\ \A q \in Callers : q # r => later[q] = enc[q]
  BY <1>1, <1>2, <1>4 DEF EncStates, Owning
<1>6. /\ InLine(later) = InLine(enc) \cup {r} /\ r \notin InLine(enc)
      /\ AtWork(later) = AtWork(enc) \ {r} /\ r \notin AtWork(enc)
  BY <1>1, <1>3, <1>5, CallerMoves
<1>7. Lists(line', InLine(later)) BY <1>1, <1>2, <1>6, ListsJoin
<1>8. AtWork(later) = AtWork(enc) BY <1>6
<1>9. "ticket" \in EncStates /\ "ticket" \in Owning BY DEF EncStates, Owning
<1> QED BY <1>1, <1>2, <1>3, <1>4, <1>7, <1>8, <1>9, CallerInEncoder

LEMMA EncodeKeeps ==
  ASSUME EncodingInv, NEW r, Encode(r)
  PROVE  EncodingInv'
<1>1. enc \in [Callers -> EncStates] /\ Lists(line, InLine(enc)) BY DEF EncodingInv
<1>2. /\ line # <<>> /\ Head(line) = r /\ line' = Tail(line) /\ Cardinality(Active) < MaxConcurrency
      /\ enc' = [enc EXCEPT ![r] = "encoding"] /\ UNCHANGED <<pc, flight, owner, outcome>>
  BY DEF Encode, Becomes, executors
<1>3. r \in InLine(enc) /\ Lists(line', InLine(enc) \ {r}) BY <1>1, <1>2, ListsServe
<1>4. r \in Callers /\ enc[r] = "ticket" /\ pc[r] = "running" BY <1>3 DEF InLine, EncodingInv
<1>5. PICK later : later = enc' OBVIOUS
<1>6. later \in [Callers -> EncStates] /\ later[r] = "encoding" /\ \A q \in Callers : q # r => later[q] = enc[q]
  BY <1>1, <1>2, <1>4, <1>5 DEF EncStates, Owning
<1>7. /\ InLine(later) = InLine(enc) \ {r}
      /\ AtWork(later) = AtWork(enc) \cup {r} /\ r \notin AtWork(enc)
  BY <1>1, <1>4, <1>6, CallerMoves
<1>8. Cardinality(AtWork(later)) = Cardinality(AtWork(enc)) + 1 BY <1>7, AtWorkFinite, OneMore
<1>9. Active = AtWork(enc) BY <1>1 DEF Active, AtWork
<1>10. Cardinality(AtWork(later)) <= MaxConcurrency BY <1>2, <1>8, <1>9, AtWorkFinite, EncodingAssumption
<1>11. "encoding" \in EncStates /\ "encoding" \in Owning /\ enc[r] \in Owning BY <1>4 DEF EncStates, Owning
<1> QED BY <1>2, <1>3, <1>4, <1>5, <1>7, <1>10, <1>11, CallerInEncoder

LEMMA WithdrawKeeps ==
  ASSUME EncodingInv, NEW r \in Callers, Withdraw(r)
  PROVE  EncodingInv'
<1>1. enc \in [Callers -> EncStates] /\ Lists(line, InLine(enc)) /\ Cardinality(AtWork(enc)) <= MaxConcurrency
  BY DEF EncodingInv
<1>2. enc[r] = "ticket" /\ enc' = [enc EXCEPT ![r] = "error"] /\ UNCHANGED <<pc, flight, owner, outcome>>
  BY DEF Withdraw, Becomes, executors
<1>3. PICK i \in DOMAIN line : line[i] = r /\ line' = RemoveAt(line, i) BY DEF Withdraw
<1>4. Lists(line', InLine(enc) \ {r}) BY <1>1, <1>3, ListsLeave
<1>5. PICK later : later = enc' OBVIOUS
<1>6. later \in [Callers -> EncStates] /\ later[r] = "error" /\ \A q \in Callers : q # r => later[q] = enc[q]
  BY <1>1, <1>2, <1>5 DEF EncStates, Owning
<1>7. /\ InLine(later) = InLine(enc) \ {r}
      /\ AtWork(later) = AtWork(enc) \ {r} /\ r \notin AtWork(enc)
  <2>1. enc[r] # "encoding" BY <1>2
  <2>2. later[r] # "ticket" /\ later[r] # "encoding" BY <1>6
  <2> QED BY <1>1, <1>6, <2>1, <2>2, CallerMoves
<1>8. AtWork(later) = AtWork(enc) BY <1>7
<1>9. pc[r] = "running" BY <1>2 DEF EncodingInv
<1>10. "error" \in EncStates /\ "error" \in Owning /\ enc[r] \in Owning BY <1>2 DEF EncStates, Owning
<1> QED BY <1>1, <1>2, <1>4, <1>5, <1>7, <1>8, <1>9, <1>10, CallerInEncoder

LEMMA EndEncodeKeeps ==
  ASSUME EncodingInv, NEW r \in Callers, EndEncode(r)
  PROVE  EncodingInv'
<1>1. enc \in [Callers -> EncStates] /\ Lists(line, InLine(enc)) /\ Cardinality(AtWork(enc)) <= MaxConcurrency
  BY DEF EncodingInv
<1>2. /\ enc[r] = "encoding" /\ UNCHANGED <<pc, flight, owner, outcome, line>>
      /\ \E to \in {"left", "value", "error"} :
           enc' = [enc EXCEPT ![r] = to] /\ (to = "left" => r \in Encoders)
  BY DEF EndEncode, Becomes, executors
<1>3. PICK to \in {"left", "value", "error"} :
        enc' = [enc EXCEPT ![r] = to] /\ (to = "left" => r \in Encoders)
  BY <1>2
<1>4. to \in EncStates /\ to \notin {"ticket", "encoding"} /\ (to # "left" => to \in Owning) /\ enc[r] \in Owning
  BY <1>2 DEF EncStates, Owning
<1>5. PICK later : later = enc' OBVIOUS
<1>6. later \in [Callers -> EncStates] /\ later[r] = to /\ \A q \in Callers : q # r => later[q] = enc[q]
  BY <1>1, <1>3, <1>4, <1>5
<1>7. /\ InLine(later) = InLine(enc) \ {r} /\ r \notin InLine(enc)
      /\ AtWork(later) = AtWork(enc) \ {r} /\ r \in AtWork(enc)
  BY <1>1, <1>2, <1>4, <1>6, CallerMoves
<1>8. InLine(later) = InLine(enc) BY <1>7
<1>9. Cardinality(AtWork(later)) = Cardinality(AtWork(enc)) - 1 BY <1>7, AtWorkFinite, OneLess
<1>10. Cardinality(AtWork(later)) <= MaxConcurrency BY <1>1, <1>9, AtWorkFinite, EncodingAssumption
<1>11. pc[r] = "running" /\ (r \in Searches => r \notin Encoders)
  BY <1>2, EncodingAssumption DEF EncodingInv
<1> QED BY <1>1, <1>2, <1>3, <1>4, <1>5, <1>8, <1>10, <1>11, CallerInEncoder

LEMMA EncodingStepKeeps ==
  ASSUME EncodingInv, NEW r \in DOMAIN enc, EncodingStep(r)
  PROVE  EncodingInv'
<1>1. r \in Callers BY DEF EncodingInv
<1>2. ASSUME r \in Searches, SharedDeadline(r) PROVE EncodingInv'
  <2>1. UNCHANGED <<flight, owner, outcome, enc, line, pc>> BY <1>2 DEF SharedDeadline, executors
  <2> QED BY <2>1, EncodingStays DEF EncodingInv
<1> QED BY <1>1, <1>2, LookupKeeps, WaiterLeaves, PublishKeeps, TakeTicketKeeps, EncodeKeeps, WithdrawKeeps,
           EndEncodeKeeps DEF EncodingStep

-----------------------------------------------------------------------------
(* The plan *)

(* The requests and their work go on beside the plan: what is drained      *)
(* stays drained.                                                          *)
LEMMA PlanStays ==
  ASSUME DrainInv, CloseInv, UNCHANGED <<process, retiring>>,
         \A r \in Requests : retiring /\ pc[r] \in Ended => pc'[r] \in Ended,
         (\A r \in Requests : pc[r] \in Ended) /\ outstanding = 0 => outstanding' = 0
  PROVE  DrainInv' /\ CloseInv'
<1>1. UNCHANGED <<life, warm, barrier, task, diag, calls, plan, undrained, current, todo, closes, failed>>
  BY DEF process, plans
<1>2. \A c \in Classes \ undrained : life = "retired" /\ Settled(c) BY DEF DrainInv
<1>3. \A c \in Classes \ undrained : Settled(c)' BY <1>2 DEF DrainInv, Settled, Ended, InClass
<1>4. DrainInv' BY <1>1, <1>2, <1>3 DEF DrainInv
<1>5. undrained = {} => \A r \in Requests : pc[r] \in Ended
  <2>1. \A r \in Requests : ClassOf[r] \in Classes BY ExecutorAssumption
  <2> QED BY <1>2, <2>1 DEF Settled, InClass, Ended
<1>6. CloseInv' BY <1>1, <1>5 DEF CloseInv
<1> QED BY <1>4, <1>6

(* Nothing but the process itself moves. *)
LEMMA RestStays ==
  ASSUME ExecutorsInv, ReadsInv, EncodingInv, retiring' \in BOOLEAN,
         UNCHANGED <<slots, pc, child, tickets, outstanding, flight, owner, outcome, enc, line>>
  PROVE  ExecutorsInv' /\ ReadsInv' /\ EncodingInv'
<1>1. ExecutorsInv'
  <2>1. pc' \in [Requests -> PCs] BY DEF ExecutorsInv
  <2> QED BY <2>1, SlotsStay
<1>2. ReadsInv' BY ReadsStay DEF ReadsInv
<1>3. EncodingInv' BY EncodingStays DEF EncodingInv
<1> QED BY <1>1, <1>2, <1>3

(* Steps of the lifespan, and calls of the plan that wait to begin. *)
LifespanStep == Serve \/ Retire \/ Retry \/ RunTask \/ EndWarmUp \/ DiagnosticsDone \/ RunPlan

LEMMA LifespanKeeps ==
  ASSUME IInv, LifespanStep
  PROVE  IInv'
<1>1. /\ UNCHANGED <<slots, pc, child, tickets, outstanding, flight, owner, outcome, enc, line>>
      /\ UNCHANGED <<undrained, current, todo, closes, failed>>
  BY DEF LifespanStep, Serve, Retire, Retry, RunTask, EndWarmUp, DiagnosticsDone, RunPlan, plans,
         executors, io, encoding
<1>2. ExecutorsInv' /\ ReadsInv' /\ EncodingInv'
  <2>1. retiring' \in BOOLEAN
    BY DEF LifespanStep, Serve, Retire, Retry, RunTask, EndWarmUp, DiagnosticsDone, RunPlan, executors,
           IInv, ExecutorsInv
  <2> QED BY <1>1, <2>1, RestStays DEF IInv
<1>3. \A c : Settled(c)' <=> Settled(c) BY <1>1 DEF Settled
<1>4. DrainInv
  BY DEF IInv
<1>5. CASE Serve
  <2>1. /\ life = "starting" /\ warm = "over" /\ life' = "serving" /\ diag' = "active"
        /\ UNCHANGED <<retiring, warm, barrier, task, calls, plan>>
    BY <1>5 DEF Serve, plans, executors
  <2>2. DrainInv' BY <1>1, <1>3, <1>4, <2>1 DEF DrainInv
  <2>3. CloseInv' BY <1>1, <2>1 DEF IInv, CloseInv
  <2> QED BY <1>2, <2>2, <2>3 DEF IInv
<1>6. CASE Retire
  <2>1. /\ life \in {"starting", "serving"} /\ life' = "retired" /\ retiring' = TRUE
        /\ IF warm = "running" THEN barrier' = TRUE /\ UNCHANGED task
           ELSE task' = "queued" /\ UNCHANGED barrier
        /\ UNCHANGED <<warm, diag, calls, plan>>
    BY <1>6 DEF Retire, plans
  <2>2. ~(task # "none" \/ diag \notin {"none", "active"} \/ calls > 0 \/ plan # "pending") BY <1>4, <2>1 DEF DrainInv
  <2>3. warm # "running" => warm = "over" BY <1>4 DEF DrainInv
  <2>4. DrainInv' BY <1>1, <1>3, <1>4, <2>1, <2>2, <2>3 DEF DrainInv
  <2>5. CloseInv' BY <1>1, <2>1 DEF IInv, CloseInv
  <2> QED BY <1>2, <2>4, <2>5 DEF IInv
<1>7. CASE Retry
  <2>1. /\ life = "retired" /\ warm = "over" /\ UNCHANGED <<retiring, life, warm, barrier, diag, calls, plan>>
    BY <1>7 DEF Retry, plans, executors
  <2>2. DrainInv' BY <1>1, <1>3, <1>4, <2>1 DEF DrainInv
  <2>3. CloseInv' BY <1>1, <2>1 DEF IInv, CloseInv
  <2> QED BY <1>2, <2>2, <2>3 DEF IInv
<1>8. ASSUME DrainDependencies, life = "retired", warm' = "over", calls \in Nat PROVE calls' \in Nat
  BY <1>8 DEF DrainDependencies
<1>9. CASE RunTask
  <2>1. /\ task = "queued" /\ DrainDependencies /\ UNCHANGED <<retiring, life, warm, barrier, plan>>
    BY <1>9 DEF RunTask, executors
  <2>2. life = "retired" /\ warm = "over" /\ calls \in Nat BY <1>4, <2>1 DEF DrainInv
  <2>3. calls' \in Nat BY <1>8, <2>1, <2>2
  <2>4. DrainInv' BY <1>1, <1>3, <1>4, <2>1, <2>2, <2>3 DEF DrainInv
  <2>5. CloseInv' BY <1>1, <2>1 DEF IInv, CloseInv
  <2> QED BY <1>2, <2>4, <2>5 DEF IInv
<1>10. CASE EndWarmUp
  <2>1. /\ warm = "running" /\ warm' = "over" /\ IF barrier THEN DrainDependencies ELSE UNCHANGED <<calls, diag>>
        /\ UNCHANGED <<retiring, life, barrier, task, plan>>
    BY <1>10 DEF EndWarmUp, executors
  <2>2. calls \in Nat /\ ~(task # "none" \/ diag \notin {"none", "active"} \/ calls > 0 \/ plan # "pending")
    BY <1>4, <2>1 DEF DrainInv
  <2>3. CASE barrier
    <3>1. life = "retired" /\ calls' \in Nat BY <1>4, <1>8, <2>1, <2>2, <2>3 DEF DrainInv
    <3>2. DrainInv' BY <1>1, <1>3, <1>4, <2>1, <3>1 DEF DrainInv
    <3>3. CloseInv' BY <1>1, <2>1 DEF IInv, CloseInv
    <3> QED BY <1>2, <3>2, <3>3 DEF IInv
  <2>4. CASE ~barrier
    <3>1. UNCHANGED <<calls, diag>> BY <2>1, <2>4
    <3>2. DrainInv' BY <1>1, <1>3, <1>4, <2>1, <2>2, <3>1 DEF DrainInv
    <3>3. CloseInv' BY <1>1, <2>1 DEF IInv, CloseInv
    <3> QED BY <1>2, <3>2, <3>3 DEF IInv
  <2> QED BY <2>3, <2>4
<1>11. CASE DiagnosticsDone
  <2>1. /\ diag = "scheduled" /\ diag' = "running" /\ calls' = calls + 1
        /\ UNCHANGED <<retiring, life, warm, barrier, task, plan>>
    BY <1>11 DEF DiagnosticsDone, executors
  <2>2. calls' \in Nat BY <1>4, <2>1 DEF DrainInv
  <2>3. life = "retired" /\ warm = "over" BY <1>4, <2>1 DEF DrainInv
  <2>4. DrainInv' BY <1>1, <1>3, <1>4, <2>1, <2>2, <2>3 DEF DrainInv
  <2>5. CloseInv' BY <1>1, <2>1 DEF IInv, CloseInv
  <2> QED BY <1>2, <2>4, <2>5 DEF IInv
<1>12. CASE RunPlan
  <2>1. /\ calls > 0 /\ plan \in {"pending", "failed", "completed"} /\ calls' = calls - 1 /\ plan' = "draining"
        /\ UNCHANGED <<retiring, life, warm, barrier, task, diag>>
    BY <1>12 DEF RunPlan, executors
  <2>2. calls' \in Nat BY <1>4, <2>1 DEF DrainInv
  <2>3. life = "retired" /\ warm = "over" BY <1>4, <2>1 DEF DrainInv
  <2>4. DrainInv' BY <1>1, <1>3, <1>4, <2>1, <2>2, <2>3 DEF DrainInv
  <2>5. CloseInv' BY <1>1, <2>1 DEF IInv, CloseInv
  <2> QED BY <1>2, <2>4, <2>5 DEF IInv
<1> QED BY <1>5, <1>6, <1>7, <1>9, <1>10, <1>11, <1>12 DEF LifespanStep

(* Phase one and two of the drain. *)
LEMMA DrainClassKeeps ==
  ASSUME IInv, NEW c \in Classes, DrainClass(c)
  PROVE  IInv'
<1>1. /\ plan = "draining" /\ current' = c
      /\ IF c = ClassOf[Health] THEN UNCHANGED pc ELSE CancelQueued(c)
      /\ UNCHANGED <<slots, retiring, child, tickets, outstanding, flight, owner, outcome, enc, line>>
      /\ UNCHANGED <<life, warm, barrier, task, diag, calls, plan, undrained, todo, closes, failed>>
  BY DEF DrainClass, io, encoding
<1>2. pc \in [Requests -> PCs] BY DEF IInv, ExecutorsInv
<1>3. /\ pc' \in [Requests -> PCs] /\ \A r \in Requests : pc'[r] \in Ended <=> pc[r] \in Ended
      /\ \A r \in Requests : pc[r] \in {"running", "joining"} => pc'[r] = pc[r]
  <2>1. CASE c = ClassOf[Health] BY <1>1, <1>2, <2>1
  <2>2. CASE c # ClassOf[Health]
    <3>1. pc' = [r \in Requests |-> IF r \in InClass(c) /\ pc[r] = "queued" THEN "returned" ELSE pc[r]]
      BY <1>1, <2>2 DEF CancelQueued
    <3>2. "returned" \in PCs /\ "queued" \notin Ended /\ "returned" \notin Ended BY DEF PCs, Ended
    <3> QED BY <1>2, <3>1, <3>2
  <2> QED BY <2>1, <2>2
<1>4. ExecutorsInv' BY <1>1, <1>3, SlotsStay DEF IInv, ExecutorsInv
<1>5. ReadsInv'
  <2>1. \A d \in Reads : child[d] \in Started => pc'[d[1]] \in {"running", "joining"}
    BY <1>3, ReadsAssumption DEF IInv, ReadsInv
  <2> QED BY <1>1, <2>1, ReadsStay DEF IInv
<1>6. EncodingInv'
  <2>1. \A r \in Callers : r \in Requests BY EncodingAssumption DEF Callers
  <2>2. \A r \in Callers : enc[r] \notin {"idle", "left"} => pc'[r] = "running"
    BY <1>3, <2>1 DEF IInv, EncodingInv
  <2> QED BY <1>1, <2>2, EncodingStays DEF IInv
<1>7. \A k \in Classes : Settled(k) => Settled(k)' BY <1>3 DEF Settled, Ended, InClass
<1>8. DrainInv'
  <2>1. c # "none" /\ c # "pool" BY ServingAssumption
  <2> QED BY <1>1, <1>7, <2>1 DEF IInv, DrainInv
<1>9. CloseInv' BY <1>1 DEF IInv, CloseInv
<1> QED BY <1>4, <1>5, <1>6, <1>8, <1>9 DEF IInv

LEMMA DrainKeeps ==
  ASSUME IInv, (\E c \in Classes : ClassDrained(c)) \/ PhaseFails \/ PoolDrained
  PROVE  IInv'
<1>1. /\ UNCHANGED <<slots, pc, retiring, child, tickets, outstanding, flight, owner, outcome, enc, line>>
      /\ UNCHANGED <<life, warm, barrier, task, calls, todo, closes>>
  BY DEF ClassDrained, PhaseFails, PoolDrained, executors, io, encoding
<1>2. ExecutorsInv' /\ ReadsInv' /\ EncodingInv' BY <1>1, RestStays DEF IInv, ExecutorsInv
<1>3. \A c : Settled(c)' <=> Settled(c) BY <1>1 DEF Settled
<1>4. ASSUME NEW c \in Classes, ClassDrained(c) PROVE IInv'
  <2>1. /\ current = c /\ current' = "none" /\ UNCHANGED <<diag, plan, failed>>
        /\ undrained' = undrained \/ (Settled(c) /\ undrained' = undrained \ {c})
    BY <1>4 DEF ClassDrained
  <2>2. plan = "draining" /\ life = "retired" BY <2>1, ServingAssumption DEF IInv, DrainInv
  <2>3. DrainInv' BY <1>1, <1>3, <2>1, <2>2 DEF IInv, DrainInv
  <2>4. CloseInv' BY <1>1, <2>1 DEF IInv, CloseInv
  <2> QED BY <1>2, <2>3, <2>4 DEF IInv
<1>5. CASE PhaseFails
  <2>1. /\ plan = "draining" /\ plan' = "failed" /\ current = "none" /\ UNCHANGED <<undrained, current, failed>>
        /\ diag' = IF diag = "running" THEN "failed" ELSE diag
    BY <1>5 DEF PhaseFails, Report
  <2>2. DrainInv' BY <1>1, <1>3, <2>1 DEF IInv, DrainInv
  <2>3. CloseInv' BY <1>1, <2>1 DEF IInv, CloseInv
  <2> QED BY <1>2, <2>2, <2>3 DEF IInv
<1>6. CASE PoolDrained
  <2>1. /\ current = "pool" /\ outstanding = 0 /\ current' = "none" /\ plan' = "closing" /\ failed' = {}
        /\ UNCHANGED <<undrained, diag>>
    BY <1>6 DEF PoolDrained
  <2>2. plan = "draining" /\ undrained = {} BY <2>1 DEF IInv, DrainInv
  <2>3. DrainInv' BY <1>1, <1>3, <2>1, <2>2 DEF IInv, DrainInv
  <2>4. CloseInv' 
    <3>1. failed \subseteq todo BY <2>2 DEF IInv, CloseInv
    <3>2. todo \cup failed = todo \cup {} BY <3>1
    <3> QED BY <1>1, <2>1, <2>2, <3>2 DEF IInv, CloseInv
  <2> QED BY <1>2, <2>3, <2>4 DEF IInv
<1> QED BY <1>4, <1>5, <1>6

LEMMA DrainPoolKeeps ==
  ASSUME IInv, DrainPool
  PROVE  IInv'
<1>1. /\ plan = "draining" /\ undrained = {} /\ current' = "pool" /\ ClosePool
      /\ UNCHANGED <<slots, pc, retiring, flight, owner, outcome, enc, line>>
      /\ UNCHANGED <<life, warm, barrier, task, diag, calls, plan, undrained, todo, closes, failed>>
  BY DEF DrainPool, executors, encoding
<1>2. ReadsInv'
  <2>1. PICK given : given = Reads OBVIOUS
  <2>2. /\ child' = [d \in Reads |-> IF d \in given /\ child[d] = "queued" THEN "returned" ELSE child[d]]
        /\ UNCHANGED <<tickets, outstanding>>
    BY <1>1, <2>1 DEF ClosePool
  <2>3. \A d \in Reads : child[d] \in Started => pc'[d[1]] \in {"running", "joining"} BY <1>1 DEF IInv, ReadsInv
  <2> QED BY <2>2, <2>3, CancelKeeps DEF IInv
<1>3. ExecutorsInv'
  <2>1. pc' \in [Requests -> PCs] /\ retiring' \in BOOLEAN BY <1>1 DEF IInv, ExecutorsInv
  <2> QED BY <1>1, <2>1, SlotsStay DEF IInv
<1>4. EncodingInv' BY <1>1, EncodingStays DEF IInv, EncodingInv
<1>5. \A c : Settled(c)' <=> Settled(c) BY <1>1 DEF Settled
<1>6. DrainInv' BY <1>1, <1>5 DEF IInv, DrainInv
<1>7. CloseInv'
  <2>1. UNCHANGED outstanding BY <1>1 DEF ClosePool
  <2> QED BY <1>1, <2>1 DEF IInv, CloseInv
<1> QED BY <1>2, <1>3, <1>4, <1>6, <1>7 DEF IInv

(* Resources are closed one by one. *)
LEMMA CloseKeeps ==
  ASSUME IInv, (\E x \in Resources : Close(x)) \/ EndPlan
  PROVE  IInv'
<1>1. /\ UNCHANGED <<slots, pc, retiring, child, tickets, outstanding, flight, owner, outcome, enc, line>>
      /\ UNCHANGED <<life, warm, barrier, task, calls, undrained, current>>
  BY DEF Close, EndPlan, executors, io, encoding
<1>2. ExecutorsInv' /\ ReadsInv' /\ EncodingInv' BY <1>1, RestStays DEF IInv, ExecutorsInv
<1>3. \A c : Settled(c)' <=> Settled(c) BY <1>1 DEF Settled
<1>4. ASSUME NEW x \in Resources, Close(x) PROVE IInv'
  <2>1. /\ plan = "closing" /\ x \in todo /\ todo' = todo \ {x} /\ UNCHANGED <<diag, plan>>
        /\ \/ closes' = [closes EXCEPT ![x] = @ + 1] /\ UNCHANGED failed
           \/ failed' = failed \cup {x} /\ UNCHANGED closes
    BY <1>4 DEF Close
  <2>2. DrainInv' BY <1>1, <1>3, <2>1 DEF IInv, DrainInv
  <2>3. /\ todo \subseteq Resources /\ failed \subseteq Resources /\ todo \cap failed = {}
        /\ closes = [y \in Resources |-> IF y \in todo \cup failed THEN 0 ELSE 1]
    BY <2>1 DEF IInv, CloseInv
  <2>4. closes' = [y \in Resources |-> IF y \in todo' \cup failed' THEN 0 ELSE 1]
    <3>1. CASE closes' = [closes EXCEPT ![x] = @ + 1] /\ UNCHANGED failed
      <4>1. x \notin todo' \cup failed' /\ \A y \in Resources : y # x => (y \in todo' \cup failed' <=> y \in todo \cup failed)
        BY <2>1, <2>3, <3>1
      <4>2. closes[x] = 0 BY <2>1, <2>3
      <4>3. closes' = [y \in Resources |-> IF y = x THEN 1 ELSE closes[y]]
        <5>1. closes' = [closes EXCEPT ![x] = closes[x] + 1] BY <3>1
        <5>2. DOMAIN closes = Resources BY <2>3
        <5>3. closes' = [y \in DOMAIN closes |-> IF y = x THEN closes[x] + 1 ELSE closes[y]] BY <5>1, Zenon
        <5>4. closes[x] + 1 = 1 BY <4>2
        <5> QED BY <5>2, <5>3, <5>4
      <4>4. \A y \in Resources : (IF y = x THEN 1 ELSE closes[y]) = IF y \in todo' \cup failed' THEN 0 ELSE 1
        BY <2>3, <4>1
      <4> QED BY <4>3, <4>4
    <3>2. CASE failed' = failed \cup {x} /\ UNCHANGED closes
      <4>1. todo' \cup failed' = todo \cup failed BY <2>1, <3>2
      <4> QED BY <2>3, <3>2, <4>1
    <3> QED BY <2>1, <3>1, <3>2
  <2>5. todo' \subseteq Resources /\ failed' \subseteq Resources /\ todo' \cap failed' = {} BY <2>1, <2>3
  <2>6. CloseInv' BY <1>1, <2>1, <2>4, <2>5 DEF IInv, CloseInv
  <2> QED BY <1>2, <2>2, <2>6 DEF IInv
<1>5. CASE EndPlan
  <2>1. /\ plan = "closing" /\ todo = {} /\ todo' = failed /\ plan' = IF failed = {} THEN "completed" ELSE "failed"
        /\ (diag' = IF diag = "running" THEN plan' ELSE diag) /\ UNCHANGED <<closes, failed>>
    BY <1>5 DEF EndPlan, Report
  <2>0. todo \cup failed = failed /\ todo' \cup failed' = failed /\ failed \subseteq todo' BY <2>1
  <2>2. DrainInv' BY <1>1, <1>3, <2>1 DEF IInv, DrainInv
  <2>3. closes' = [x \in Resources |-> IF x \in todo' \cup failed' THEN 0 ELSE 1] BY <2>0, <2>1 DEF IInv, CloseInv
  <2>4. CloseInv' BY <1>1, <2>0, <2>1, <2>3 DEF IInv, CloseInv
  <2> QED BY <1>2, <2>2, <2>4 DEF IInv
<1> QED BY <1>4, <1>5

LEMMA StartAgainKeeps ==
  ASSUME IInv, StartAgain
  PROVE  IInv'
<1>1. /\ life' = "starting" /\ warm' = "running" /\ Fresh /\ retiring' = FALSE
      /\ UNCHANGED <<slots, pc, child, tickets, outstanding, flight, owner, outcome, enc, line>>
  BY DEF StartAgain, encoding
<1>2. ExecutorsInv' /\ ReadsInv' /\ EncodingInv' BY <1>1, RestStays DEF IInv
<1>3. DrainInv' BY <1>1 DEF Fresh, DrainInv
<1>4. CloseInv'
  <2>1. closes' = [x \in Resources |-> 0] /\ todo' = Resources /\ failed' = {} /\ plan' = "pending" BY <1>1 DEF Fresh
  <2> QED BY <2>1 DEF CloseInv
<1> QED BY <1>2, <1>3, <1>4 DEF IInv

-----------------------------------------------------------------------------
(* Requests *)

LEMMA Typed == ASSUME IInv PROVE pc \in [Requests -> PCs] /\ retiring \in BOOLEAN
BY DEF IInv, ExecutorsInv

(* A job that neither reads nor encodes, or is not at it, moves on. *)
LEMMA RequestMoves ==
  ASSUME IInv, NEW r \in Requests, ExecutorsInv', pc' = [pc EXCEPT ![r] = pc'[r]],
         UNCHANGED <<retiring, child, tickets, outstanding, flight, owner, outcome, enc, line, process>>,
         \A d \in Reads : d[1] = r => child[d] \notin Started,
         r \in Callers => enc[r] \in {"idle", "left"},
         pc[r] \in Ended /\ retiring => pc'[r] \in Ended
  PROVE  IInv'
<1>1. \A q \in Requests : q # r => pc'[q] = pc[q] BY Typed
<1>2. ReadsInv'
  <2>1. \A d \in Reads : child[d] \in Started => pc'[d[1]] \in {"running", "joining"}
    BY <1>1, ReadsAssumption DEF IInv, ReadsInv
  <2> QED BY <2>1, ReadsStay DEF IInv
<1>3. EncodingInv'
  <2>1. \A q \in Callers : q \in Requests BY EncodingAssumption DEF Callers
  <2>2. \A q \in Callers : enc[q] \notin {"idle", "left"} => pc'[q] = "running"
    BY <1>1, <2>1 DEF IInv, EncodingInv
  <2> QED BY <2>2, EncodingStays DEF IInv
<1>4. DrainInv' /\ CloseInv'
  <2>1. \A q \in Requests : retiring /\ pc[q] \in Ended => pc'[q] \in Ended BY <1>1
  <2> QED BY <2>1, PlanStays DEF IInv
<1> QED BY <1>2, <1>3, <1>4 DEF IInv

(* A job that is not running has no caller at work and no read under way. *)
LEMMA NotAtWork ==
  ASSUME IInv, NEW r \in Requests, pc[r] \notin {"running", "joining"}
  PROVE  /\ \A d \in Reads : d[1] = r => child[d] \notin Started
         /\ r \in Callers => enc[r] \in {"idle", "left"}
BY DEF IInv, ReadsInv, EncodingInv

LEMMA RequestKeeps ==
  ASSUME IInv, NEW r \in Requests, Arrive(r) \/ GiveUp(r) \/ Start(r) \/ Settle(r)
  PROVE  IInv'
<1>0. pc \in [Requests -> PCs] BY Typed
<1>1. UNCHANGED <<child, tickets, outstanding, flight, owner, outcome, enc, line, process>>
  BY DEF Arrive, GiveUp, Start, Settle, io, encoding
<1>2. CASE Arrive(r)
  <2>1. ~retiring /\ UNCHANGED retiring BY <1>2 DEF Arrive, Admit
  <2>2. ExecutorsInv' /\ pc' = [pc EXCEPT ![r] = pc'[r]] /\ pc[r] = "new" BY <1>2, AdmitKeeps DEF Arrive, IInv
  <2> QED BY <1>1, <2>1, <2>2, NotAtWork, RequestMoves
<1>3. CASE Settle(r)
  <2>1. ExecutorsInv' /\ pc' = [pc EXCEPT ![r] = "done"] /\ pc[r] = "returned" /\ UNCHANGED retiring
    BY <1>3, ReleaseKeeps DEF Settle, IInv, Release
  <2>2. pc' = [pc EXCEPT ![r] = pc'[r]] /\ pc'[r] = "done" BY <1>0, <2>1
  <2> QED BY <1>1, <2>1, <2>2, NotAtWork, RequestMoves DEF Ended
<1>4. CASE Start(r)
  <2>1. PICK to \in {"returned", "running"} : pc' = [pc EXCEPT ![r] = to] BY <1>4 DEF Start, Begin
  <2>2. pc[r] = "queued" /\ UNCHANGED <<slots, retiring>> BY <1>4 DEF Start, Begin
  <2>3. to \in PCs /\ to \notin Ended /\ pc[r] \notin Ended BY <2>2 DEF PCs, Ended
  <2>4. ExecutorsInv' BY <2>1, <2>2, <2>3, JobMoves DEF IInv
  <2>5. pc' = [pc EXCEPT ![r] = pc'[r]] BY <1>0, <2>1
  <2> QED BY <1>1, <2>2, <2>3, <2>4, <2>5, NotAtWork, RequestMoves
<1>5. CASE GiveUp(r) /\ pc[r] = "queued"
  <2>1. pc' = [pc EXCEPT ![r] = "returned"] /\ UNCHANGED <<slots, retiring>> BY <1>5 DEF GiveUp, Abandon
  <2>2. "returned" \in PCs /\ "returned" \notin Ended /\ pc[r] \notin Ended BY <1>5 DEF PCs, Ended
  <2>3. ExecutorsInv' BY <2>1, <2>2, JobMoves DEF IInv
  <2>4. pc' = [pc EXCEPT ![r] = pc'[r]] BY <1>0, <2>1
  <2> QED BY <1>1, <1>5, <2>1, <2>2, <2>3, <2>4, NotAtWork, RequestMoves
<1>6. CASE GiveUp(r) /\ pc[r] # "queued"
  <2>1. UNCHANGED <<pc, slots, retiring>> BY <1>6 DEF GiveUp, Abandon
  <2>2. ExecutorsInv' /\ ReadsInv' /\ EncodingInv' BY <1>1, <2>1, Typed, RestStays DEF IInv
  <2>3. DrainInv' /\ CloseInv' BY <1>1, <2>1, PlanStays DEF IInv
  <2> QED BY <2>2, <2>3 DEF IInv
<1> QED BY <1>2, <1>3, <1>4, <1>5, <1>6

(* The diagnostic job ends. *)
LEMMA EndHealthKeeps ==
  ASSUME IInv, EndHealth
  PROVE  IInv'
<1>0. pc \in [Requests -> PCs] /\ Health \in Requests BY Typed, ServingAssumption
<1>1. /\ pc[Health] = "running" /\ pc' = [pc EXCEPT ![Health] = "returned"]
      /\ UNCHANGED <<retiring, slots, child, tickets, outstanding, flight, owner, outcome, enc, line, process>>
  BY DEF EndHealth, Returned, io, encoding
<1>2. (\A d \in Reads : d[1] # Health) /\ Health \notin Callers BY ServingAssumption DEF Reading, Callers
<1>3. "returned" \in PCs /\ "returned" \notin Ended /\ pc[Health] \notin Ended BY <1>1 DEF PCs, Ended
<1>4. ExecutorsInv' BY <1>0, <1>1, <1>3, JobMoves DEF IInv
<1>5. pc' = [pc EXCEPT ![Health] = pc'[Health]] BY <1>0, <1>1
<1> QED BY <1>0, <1>1, <1>2, <1>3, <1>4, <1>5, RequestMoves

(* What a request reads: its job runs on, or is about to end, and a search *)
(* is done with its encoding.                                              *)
LEMMA ReaderKeeps ==
  ASSUME IInv, NEW r \in Requests, MayRead(r), NEW to \in {"running", "joining", "returned"},
         ReadsInv', pc[r] \in {"running", "joining"}, pc' = [pc EXCEPT ![r] = to],
         UNCHANGED <<retiring, slots, encoding, process>>
  PROVE  IInv'
<1>0. pc \in [Requests -> PCs] BY Typed
<1>1. to \in PCs /\ to \notin Ended /\ pc[r] \notin Ended BY DEF PCs, Ended
<1>2. ExecutorsInv' BY <1>1, JobMoves DEF IInv
<1>3. \A q \in Requests : q # r => pc'[q] = pc[q] BY <1>0
<1>4. EncodingInv'
  <2>1. r \in Callers => enc[r] = "left" BY DEF MayRead, IInv, EncodingInv
  <2>2. \A q \in Callers : q \in Requests BY EncodingAssumption DEF Callers
  <2>3. \A q \in Callers : enc[q] \notin {"idle", "left"} => pc'[q] = "running"
    BY <1>3, <2>1, <2>2 DEF IInv, EncodingInv
  <2>4. UNCHANGED <<flight, owner, outcome, enc, line>> BY DEF encoding
  <2> QED BY <2>3, <2>4, EncodingStays DEF IInv
<1>5. DrainInv' /\ CloseInv'
  <2>1. \A q \in Requests : retiring /\ pc[q] \in Ended => pc'[q] \in Ended BY <1>1, <1>3
  <2> QED BY <1>1, <2>1, PlanStays DEF IInv
<1> QED BY <1>2, <1>4, <1>5, ReadsInv' DEF IInv

(* A read goes on in the pool by itself. *)
LEMMA PoolKeeps ==
  ASSUME IInv, NEW d \in Reads, child[d] = "ticket" \/ child[d] \in Counted, ReadsInv',
         UNCHANGED <<retiring, slots, pc, encoding, process>>
  PROVE  IInv'
<1>1. ExecutorsInv' BY Typed, SlotsStay DEF IInv
<1>2. EncodingInv' BY EncodingStays DEF IInv, EncodingInv, encoding
<1>3. ~((\A r \in Requests : pc[r] \in Ended) /\ outstanding = 0)
  <2>1. CASE child[d] = "ticket" BY <2>1, ReadsAssumption DEF IInv, ReadsInv, Started, Ended
  <2>2. CASE child[d] \in Counted
    <3>1. d \in Pooled(child) BY <2>2 DEF Pooled
    <3>2. Cardinality(Pooled(child)) # 0 BY <3>1, PooledFinite, OneLess
    <3> QED BY <3>2 DEF IInv, ReadsInv
  <2> QED BY <2>1, <2>2
<1>4. DrainInv' /\ CloseInv' BY <1>3, PlanStays DEF IInv
<1> QED BY <1>1, <1>2, <1>4, ReadsInv' DEF IInv

LEMMA ReadStepKeeps ==
  ASSUME IInv, ReadStep
  PROVE  IInv'
<1>0. pc \in [Requests -> PCs] /\ ReadsInv /\ UNCHANGED <<encoding, process>> BY Typed DEF IInv, ReadStep
<1>1. ASSUME NEW d \in Reads, MayRead(d[1]), IOStep(d) PROVE IInv'
  <2>0. d[1] \in Requests BY ReadsAssumption
  <2>1. CASE Ask(d)
    <3>1. ReadsInv' BY <1>0, <2>1, AskKeeps
    <3>2. PICK to \in {"running", "joining"} : pc' = [pc EXCEPT ![d[1]] = to]
      <4>1. pc' = [pc EXCEPT ![d[1]] = "joining"] \/ pc' = pc BY <2>1 DEF Ask, Leaves
      <4>2. pc = [pc EXCEPT ![d[1]] = "running"] BY <1>0, <2>1 DEF Ask
      <4> QED BY <4>1, <4>2
    <3>3. UNCHANGED <<retiring, slots>> /\ pc[d[1]] = "running" BY <2>1 DEF Ask
    <3> QED BY <1>0, <1>1, <2>0, <3>1, <3>2, <3>3, ReaderKeeps
  <2>2. CASE Grant(d)
    <3>1. ReadsInv' /\ child[d] = "ticket" BY <1>0, <2>2, GrantKeeps
    <3>2. UNCHANGED <<retiring, slots, pc>> BY <2>2 DEF Grant, executors
    <3> QED BY <1>0, <3>1, <3>2, PoolKeeps
  <2>3. CASE GiveUpTicket(d)
    <3>1. ReadsInv' /\ child[d] = "ticket" BY <1>0, <2>3, GiveUpTicketKeeps
    <3>2. pc' = [pc EXCEPT ![d[1]] = "joining"] /\ UNCHANGED <<retiring, slots>> BY <2>3 DEF GiveUpTicket, Leaves
    <3>3. pc[d[1]] \in {"running", "joining"} BY <1>0, <3>1 DEF ReadsInv, Started
    <3> QED BY <1>0, <1>1, <2>0, <3>1, <3>2, <3>3, ReaderKeeps
  <2>4. CASE Enqueue(d)
    <3>1. ReadsInv' /\ child[d] \in Counted BY <1>0, <2>4, EnqueueKeeps
    <3>2. child[d] = "granted" /\ UNCHANGED <<retiring, slots>> BY <2>4 DEF Enqueue
    <3>3. CASE pc' = pc BY <1>0, <3>1, <3>2, <3>3, PoolKeeps
    <3>4. CASE pc' = [pc EXCEPT ![d[1]] = "joining"]
      <4>1. pc[d[1]] \in {"running", "joining"} BY <1>0, <3>2 DEF ReadsInv, Started
      <4> QED BY <1>0, <1>1, <2>0, <3>1, <3>2, <3>4, <4>1, ReaderKeeps
    <3> QED BY <2>4, <3>3, <3>4 DEF Enqueue, Leaves
  <2>5. CASE BeginRead(d) \/ EndRead(d) \/ ReleaseRead(d)
    <3>1. ReadsInv' /\ child[d] \in Counted BY <1>0, <2>5, RunReadKeeps
    <3>2. UNCHANGED <<retiring, slots, pc>> BY <2>5 DEF BeginRead, EndRead, ReleaseRead, executors
    <3> QED BY <1>0, <3>1, <3>2, PoolKeeps
  <2> QED BY <1>1, <2>1, <2>2, <2>3, <2>4, <2>5 DEF IOStep
<1>2. ASSUME NEW r \in Reading, MayRead(r), Leave(r) \/ Join(r) PROVE IInv'
  <2>0. r \in Requests BY ReadsAssumption DEF Reading
  <2>1. ReadsInv' BY <1>0, <1>2, <2>0, LeaveKeeps, JoinKeeps
  <2>2. UNCHANGED <<retiring, slots>> /\ pc[r] \in {"running", "joining"} BY <1>2 DEF Leave, Join
  <2>3. \E to \in {"running", "joining", "returned"} : pc' = [pc EXCEPT ![r] = to]
    BY <1>2 DEF Leave, Leaves, Join, Returned
  <2>4. PICK to \in {"running", "joining", "returned"} : pc' = [pc EXCEPT ![r] = to] BY <2>3
  <2> QED BY <1>0, <1>2, <2>0, <2>1, <2>2, <2>4, ReaderKeeps
<1> QED BY <1>1, <1>2 DEF ReadStep

(* A step of the encoder or the cache moves no request. *)
LEMMA EncoderKeeps ==
  ASSUME IInv, EncodingInv', UNCHANGED <<executors, io, process>>
  PROVE  IInv'
<1>1. UNCHANGED <<retiring, slots, pc, child, tickets, outstanding>> BY DEF executors, io
<1>2. ExecutorsInv' BY <1>1, Typed, SlotsStay DEF IInv
<1>3. ReadsInv' BY <1>1, ReadsStay DEF IInv, ReadsInv
<1>4. DrainInv' /\ CloseInv' BY <1>1, PlanStays DEF IInv
<1> QED BY <1>2, <1>3, <1>4, EncodingInv' DEF IInv

LEMMA EncodeStepKeeps ==
  ASSUME IInv, EncodeStep \/ ExpireEntry
  PROVE  IInv'
<1>0. pc \in [Requests -> PCs] /\ UNCHANGED <<io, process>> BY Typed DEF EncodeStep, ExpireEntry
<1>1. ASSUME NEW r \in DOMAIN enc, EncodingStep(r) PROVE IInv'
  <2>1. EncodingInv' BY <1>1, EncodingStepKeeps DEF IInv
  <2>2. UNCHANGED executors
    BY <1>1 DEF EncodingStep, Lookup, StopWaiting, Share, SharedDeadline, Publish, TakeTicket, Encode, Withdraw,
                EndEncode
  <2> QED BY <1>0, <2>1, <2>2, EncoderKeeps
<1>2. ASSUME NEW r \in DOMAIN enc, r \notin Reading, EndEncoding(r) PROVE IInv'
  <2>1. r \in Callers /\ r \in Requests BY EncodingAssumption DEF IInv, EncodingInv, Callers
  <2>2. /\ pc[r] = "running" /\ enc[r] = "left" /\ pc' = [pc EXCEPT ![r] = "returned"]
        /\ UNCHANGED <<retiring, slots, flight, owner, outcome, enc, line>>
    BY <1>2 DEF EndEncoding, Returned, encoding
  <2>3. \A d \in Reads : d[1] # r BY <1>2 DEF Reading
  <2>4. "returned" \in PCs /\ "returned" \notin Ended /\ pc[r] \notin Ended BY <2>2 DEF PCs, Ended
  <2>5. ExecutorsInv' BY <2>1, <2>2, <2>4, JobMoves DEF IInv
  <2>6. pc' = [pc EXCEPT ![r] = pc'[r]] BY <1>0, <2>1, <2>2
  <2>7. UNCHANGED <<child, tickets, outstanding>> BY <1>0 DEF io
  <2> QED BY <1>0, <2>1, <2>2, <2>3, <2>4, <2>5, <2>6, <2>7, RequestMoves
<1>3. ASSUME NEW q \in Queries, Expire(q) PROVE IInv'
  <2>1. UNCHANGED <<executors, flight, owner, outcome, enc, line>> BY <1>3 DEF Expire
  <2>2. EncodingInv' BY <2>1, EncodingStays DEF IInv, EncodingInv, executors
  <2> QED BY <1>0, <2>1, <2>2, EncoderKeeps
<1> QED BY <1>1, <1>2, <1>3 DEF EncodeStep, ExpireEntry

-----------------------------------------------------------------------------
(* The theorems *)

LEMMA Starts == Init => IInv
<1> SUFFICES ASSUME Init PROVE IInv OBVIOUS
<1>1. ExecutorsInv
  <2>1. retiring = FALSE /\ slots = [c \in Classes |-> 0] BY DEF Init, ExecutorsInit
  <2>2. PICK away \in Absences : pc = [r \in Requests |-> IF r \in away THEN "done" ELSE "new"]
    BY DEF Init, ExecutorsInit
  <2>3. pc \in [Requests -> PCs] BY <2>2 DEF PCs
  <2>4. slots \in [Classes -> Nat] BY <2>1
  <2>5. ASSUME NEW c \in Classes PROVE slots[c] = Cardinality(Holders(pc, c)) /\ slots[c] <= Capacity[c]
    <3>1. Holders(pc, c) = {} BY <2>2 DEF Holders, InClass, Ended
    <3>2. Cardinality(Holders(pc, c)) = 0 BY <3>1, FS_EmptySet
    <3>3. Capacity[c] \in Nat BY ExecutorAssumption
    <3>4. slots[c] = 0 BY <2>1
    <3>5. 0 <= Capacity[c] BY <3>3
    <3> QED BY <3>2, <3>4, <3>5
  <2>6. retiring \in BOOLEAN BY <2>1
  <2> QED BY <2>3, <2>4, <2>5, <2>6 DEF ExecutorsInv
<1>2. ReadsInv
  <2>1. child = [d \in Reads |-> "none"] /\ tickets = <<>> /\ outstanding = 0 BY DEF Init, IOInit
  <2>2. Ticketed(child) = {} /\ Pooled(child) = {} BY <2>1 DEF Ticketed, Pooled, Counted
  <2>3. Cardinality(Pooled(child)) = 0 BY <2>2, FS_EmptySet
  <2>4. IOCapacity \in Nat BY ReadsAssumption
  <2>5. outstanding = Cardinality(Pooled(child)) /\ outstanding <= IOCapacity BY <2>1, <2>3, <2>4
  <2>6. child \in [Reads -> ChildStates] BY <2>1 DEF ChildStates
  <2>7. Lists(tickets, Ticketed(child)) BY <2>1, <2>2, ListsNobody
  <2>8. \A d \in Reads : child[d] \notin Started BY <2>1 DEF Started
  <2> QED BY <2>5, <2>6, <2>7, <2>8 DEF ReadsInv
<1>3. EncodingInv
  <2>1. /\ flight = [q \in Queries |-> Nobody] /\ owner = [s \in Searches |-> Nobody]
        /\ outcome = [s \in Searches |-> "none"] /\ enc = [r \in Callers |-> "idle"] /\ line = <<>>
    BY DEF Init, EncodingInit, Callers
  <2>2. FlightsInv
    <3>1. \A s \in Searches : s \in Callers /\ enc[s] = "idle" BY <2>1 DEF Callers
    <3>2. \A s \in Searches : flight[Query[s]] # s
      <4>1. \A s \in Searches : Query[s] \in Queries /\ s # Nobody BY QueryOf, EncodingAssumption
      <4> QED BY <2>1, <4>1
    <3> QED BY <2>1, <3>1, <3>2 DEF FlightsInv, Owning
  <2>3. InLine(enc) = {} /\ AtWork(enc) = {} BY <2>1 DEF InLine, AtWork
  <2>4. Cardinality(AtWork(enc)) = 0 BY <2>3, FS_EmptySet
  <2>5. MaxConcurrency \in Nat BY EncodingAssumption
  <2>6. Cardinality(AtWork(enc)) <= MaxConcurrency BY <2>4, <2>5
  <2>7. enc \in [Callers -> EncStates] BY <2>1 DEF EncStates
  <2>8. outcome \in [Searches -> {"none", "value", "error"}] BY <2>1
  <2>9. Lists(line, InLine(enc)) BY <2>1, <2>3, ListsNobody
  <2>10. \A r \in Callers : enc[r] = "idle" BY <2>1
  <2> QED BY <2>2, <2>6, <2>7, <2>8, <2>9, <2>10 DEF EncodingInv
<1>4. DrainInv BY DEF Init, ExecutorsInit, DrainInv
<1>5. CloseInv BY DEF Init, CloseInv
<1> QED BY <1>1, <1>2, <1>3, <1>4, <1>5 DEF IInv

LEMMA Steps == IInv /\ [Next]_vars => IInv'
<1> SUFFICES ASSUME IInv, [Next]_vars PROVE IInv' OBVIOUS
<1>1. CASE UNCHANGED vars
  <2>1. /\ UNCHANGED <<retiring, slots, pc, child, tickets, outstanding, flight, owner, outcome, enc, line>>
        /\ UNCHANGED process
    BY <1>1 DEF vars, executors, io, encoding
  <2>2. ExecutorsInv' /\ ReadsInv' /\ EncodingInv' BY <2>1, Typed, RestStays DEF IInv
  <2>3. DrainInv' /\ CloseInv' BY <2>1, PlanStays DEF IInv
  <2> QED BY <2>2, <2>3 DEF IInv
<1>2. ASSUME PlanStep PROVE IInv'
  <2>1. RunPlan => IInv' BY LifespanKeeps DEF LifespanStep
  <2>2. (\E c \in Classes : DrainClass(c) \/ ClassDrained(c)) => IInv' BY DrainClassKeeps, DrainKeeps
  <2>3. PhaseFails \/ PoolDrained => IInv' BY DrainKeeps
  <2>4. DrainPool => IInv' BY DrainPoolKeeps
  <2>5. (\E x \in Resources : Close(x)) \/ EndPlan => IInv' BY CloseKeeps
  <2> QED BY <1>2, <2>1, <2>2, <2>3, <2>4, <2>5 DEF PlanStep
<1>3. ASSUME Progress PROVE IInv'
  <2>1. (\E r \in Requests : Start(r) \/ Settle(r)) => IInv' BY RequestKeeps
  <2>2. EndHealth \/ ReadStep \/ EncodeStep => IInv' BY EndHealthKeeps, ReadStepKeeps, EncodeStepKeeps
  <2>3. RunTask \/ EndWarmUp \/ DiagnosticsDone => IInv' BY LifespanKeeps DEF LifespanStep
  <2> QED BY <1>2, <1>3, <2>1, <2>2, <2>3 DEF Progress
<1>4. ASSUME Next PROVE IInv'
  <2>1. (\E r \in Requests : Arrive(r) \/ GiveUp(r)) => IInv' BY RequestKeeps
  <2>2. ExpireEntry \/ StartAgain => IInv' BY EncodeStepKeeps, StartAgainKeeps
  <2>3. Serve \/ Retire \/ Retry => IInv' BY LifespanKeeps DEF LifespanStep
  <2> QED BY <1>3, <1>4, <2>1, <2>2, <2>3 DEF Next
<1> QED BY <1>1, <1>4

(* Once all jobs have ended and the pool is empty, nobody is in it or in   *)
(* the encoder, and no flight is in the table.                             *)
LEMMA NobodyLeft ==
  ASSUME IInv, \A r \in Requests : pc[r] \in Ended, outstanding = 0
  PROVE  /\ In({"ticket", "granted", "queued", "running", "returned"}) = {}
         /\ line = <<>> /\ Active = {} /\ Flying = {}
<1>1. \A r \in Callers : enc[r] \in {"idle", "left"}
  <2>1. \A r \in Callers : r \in Requests BY EncodingAssumption DEF Callers
  <2> QED BY <2>1 DEF IInv, EncodingInv, Ended
<1>2. InLine(enc) = {} /\ Active = {} BY <1>1 DEF InLine, Active, IInv, EncodingInv
<1>3. line = <<>> BY <1>2, ListsEmpty DEF IInv, EncodingInv
<1>4. Flying = {}
  <2>1. ASSUME NEW q \in Queries, flight[q] # Nobody PROVE FALSE
    <3>1. flight[q] \in Searches /\ Query[flight[q]] = q BY <2>1 DEF IInv, EncodingInv, FlightsInv
    <3>2. enc[flight[q]] \in Owning BY <3>1 DEF IInv, EncodingInv, FlightsInv
    <3> QED BY <1>1, <3>1, <3>2, QueryOf DEF Owning
  <2> QED BY <2>1 DEF Flying
<1>5. \A d \in Reads : child[d] \notin Started BY ReadsAssumption DEF IInv, ReadsInv, Ended
<1>6. \A d \in Reads : child[d] # "returned"
  <2>1. ASSUME NEW d \in Reads, child[d] = "returned" PROVE FALSE
    <3>1. d \in Pooled(child) BY <2>1 DEF Pooled, Counted
    <3>2. Cardinality(Pooled(child)) # 0 BY <3>1, PooledFinite, OneLess
    <3> QED BY <3>2 DEF IInv, ReadsInv
  <2> QED BY <2>1
<1>7. In({"ticket", "granted", "queued", "running", "returned"}) = {} BY <1>5, <1>6 DEF In, Started
<1> QED BY <1>2, <1>3, <1>4, <1>7

LEMMA SlotsFollow == IInv => SlotsAndReads
<1> SUFFICES ASSUME IInv PROVE SlotsAndReads OBVIOUS
<1>1. SlotsExact
  <2>1. \A c \in Classes : Holders(pc, c) = {r \in InClass(c) : pc[r] \notin {"new", "done"}} BY DEF Holders, Ended
  <2> QED BY <2>1 DEF SlotsExact, IInv, ExecutorsInv
<1>2. ReadsWithinRequest
  <2>1. Pooled(child) = In({"granted", "queued", "running", "returned"}) BY DEF Pooled, In, Counted
  <2>2. \A d \in In({"ticket", "granted", "queued", "running"}) : pc[d[1]] \in {"running", "joining"}
    BY DEF In, IInv, ReadsInv, Started
  <2> QED BY <2>1, <2>2 DEF ReadsWithinRequest, IInv, ReadsInv
<1> QED BY <1>1, <1>2 DEF SlotsAndReads

LEMMA FlightsFollow == IInv => FlightsAndClients
<1> SUFFICES ASSUME IInv PROVE FlightsAndClients OBVIOUS
<1>1. FlightsAnswered
  <2>0. DOMAIN enc = Callers BY DEF IInv, EncodingInv
  <2>1. Active = AtWork(enc) /\ InLine(enc) = {r \in DOMAIN enc : enc[r] = "ticket"} BY <2>0 DEF Active, AtWork, InLine
  <2>2. \A s \in Searches : enc[s] \in {"owning", "ticket", "encoding", "value", "error"} <=> flight[Query[s]] = s
    BY DEF IInv, EncodingInv, FlightsInv, Owning
  <2>3. \A s \in Waiting : outcome[owner[s]] # "none" \/ flight[Query[s]] = owner[s]
    BY DEF Waiting, IInv, EncodingInv, FlightsInv
  <2>4. ToSet(line) = InLine(enc) /\ IsInjective(line) /\ Cardinality(AtWork(enc)) <= MaxConcurrency
    BY DEF IInv, EncodingInv, Lists
  <2> QED BY <2>1, <2>2, <2>3, <2>4 DEF FlightsAnswered
<1>2. ClosedUnderNobody
  <2>1. CloseInv /\ DrainInv BY DEF IInv
  <2>2. ASSUME NEW x \in Resources, closes[x] > 0
        PROVE  /\ retiring /\ warm = "over"
               /\ \A r \in Requests : pc[r] \in {"new", "done"}
               /\ In({"ticket", "granted", "queued", "running", "returned"}) = {}
               /\ line = <<>> /\ Active = {} /\ Flying = {}
    <3>1. x \notin todo BY <2>1, <2>2 DEF CloseInv
    <3>2. undrained = {} /\ outstanding = 0 /\ plan # "pending" BY <2>1, <3>1 DEF CloseInv
    <3>3. retiring /\ warm = "over" /\ \A c \in Classes : Settled(c) BY <2>1, <3>2 DEF DrainInv
    <3>4. \A r \in Requests : pc[r] \in Ended BY <3>3, ExecutorAssumption DEF Settled, InClass, Ended
    <3> QED BY <3>2, <3>3, <3>4, NobodyLeft DEF Ended
  <2>3. \A x \in Resources : closes[x] <= 1 BY <2>1 DEF CloseInv
  <2>4. plan = "completed" => \A x \in Resources : closes[x] = 1 BY <2>1 DEF CloseInv
  <2> QED BY <2>2, <2>3, <2>4 DEF ClosedUnderNobody
<1> QED BY <1>1, <1>2 DEF FlightsAndClients

(* A slot is held for exactly what is admitted, and no read outlives the   *)
(* request it is done for.                                                 *)
THEOREM SlotsTheorem == Spec => []SlotsAndReads
BY Starts, Steps, SlotsFollow, PTL DEF Spec

(* Every flight of the query cache has somebody who answers it, and a      *)
(* client is closed once, when nothing can use it any more.                *)
THEOREM ClientsTheorem == Spec => []FlightsAndClients
BY Starts, Steps, FlightsFollow, PTL DEF Spec
=============================================================================
