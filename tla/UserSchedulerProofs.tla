------------------------- MODULE UserSchedulerProofs -------------------------
(***************************************************************************)
(* Theorems about UserScheduler, for any threads, users, messages and      *)
(* capacity: the bounds hold, no lane is lost or queued twice, no user has *)
(* two running events, and nothing runs once the clients are closed.       *)
(***************************************************************************)
EXTENDS UserScheduler, TLAPS, FiniteSetTheorems, SequenceTheorems

ThreadPCs == {"wait", "enter", "run", "done", "exit"}

(* Types.  A thread has work exactly while it is busy. *)
Typed ==
  /\ queues \in [Users -> Seq(Messages)] /\ ready \in Seq(Users)
  /\ active \subseteq Users /\ ids \subseteq Messages
  /\ thread \in [Threads -> [pc : ThreadPCs, work : Messages \cup {NoWork}, ok : BOOLEAN]]
  /\ \A t \in Threads : Busy(t) <=> thread[t].work \in Messages
  /\ unacked \subseteq Messages /\ closed \in BOOLEAN /\ stopped \in BOOLEAN
  /\ poll \in {"idle", "live", "serial", "draining", "joining"}
  /\ shutdown \in {"no", "waiting", "joining", "closed"}

(* The two bounds on memory. *)
Bounded ==
  /\ IsFiniteSet(ids) /\ Cardinality(ids) <= Capacity
  /\ \A u \in Users : LaneLoad(u) <= 2

Distinct(s) == \A i, j \in DOMAIN s : s[i] = s[j] => i = j

(* A lane holds its own user's messages, and none that a thread runs. *)
LanesOwn ==
  /\ \A u \in Users : \A m \in Range(queues[u]) : Owner[m] = u
  /\ \A u \in Users : Distinct(queues[u])
  /\ \A t \in Threads : Busy(t) => thread[t].work \notin Range(queues[Owner[thread[t].work]])

(* Once the lanes are closed for good no poll and no turn can start. *)
Quiet ==
  /\ shutdown \in {"joining", "closed"} =>
       poll = "idle" /\ ready = <<>> /\ \A u \in Users : queues[u] = <<>>
  /\ ClientsOutliveWork

Inv == Typed /\ Bounded /\ LanesExact /\ OneActivePerUser /\ LanesOwn /\ Quiet /\ passed = {}

-----------------------------------------------------------------------------
(* Sequences as the lanes use them. *)

LEMMA RangeEmpty == Range(<<>>) = {}
BY DEF Range

LEMMA RangeAppend ==
  ASSUME NEW S, NEW s \in Seq(S), NEW e \in S
  PROVE  Range(Append(s, e)) = Range(s) \cup {e}
<1>1. /\ Append(s, e) \in Seq(S) /\ Len(Append(s, e)) = Len(s) + 1
      /\ \A i \in 1..Len(s) : Append(s, e)[i] = s[i]
      /\ Append(s, e)[Len(s) + 1] = e
  BY AppendProperties
<1>2. Len(s) \in Nat
  BY LenProperties
<1>3. Range(Append(s, e)) = {Append(s, e)[i] : i \in 1..Len(s) + 1}
  BY <1>1, RangeEquality
<1>4. Range(s) = {s[i] : i \in 1..Len(s)}
  BY RangeEquality
<1>. QED BY <1>1, <1>2, <1>3, <1>4

LEMMA HeadAndTail ==
  ASSUME NEW S, NEW s \in Seq(S), s # <<>>, Distinct(s)
  PROVE  /\ Head(s) \in S /\ Tail(s) \in Seq(S) /\ Len(Tail(s)) = Len(s) - 1
         /\ Range(s) = {Head(s)} \cup Range(Tail(s))
         /\ Head(s) \notin Range(Tail(s))
         /\ Distinct(Tail(s))
<1>1. /\ Head(s) \in S /\ Tail(s) \in Seq(S) /\ Len(Tail(s)) = Len(s) - 1
      /\ \A i \in 1..Len(Tail(s)) : Tail(s)[i] = s[i + 1]
  BY HeadTailProperties
<1>2. Head(s) = s[1] /\ Len(s) \in Nat \ {0} /\ DOMAIN s = 1..Len(s)
  BY LenProperties, EmptySeq
<1>3. DOMAIN Tail(s) = 1..Len(s) - 1
  BY <1>1, LenProperties
<1>4. Range(s) = {s[i] : i \in 1..Len(s)}
  BY RangeEquality
<1>5. Range(Tail(s)) = {Tail(s)[i] : i \in 1..Len(s) - 1}
  BY <1>3 DEF Range
<1>6. \A x : x \in Range(s) => x = Head(s) \/ x \in Range(Tail(s))
  <2>. SUFFICES ASSUME NEW i \in 1..Len(s) PROVE s[i] = Head(s) \/ s[i] \in Range(Tail(s))
    BY <1>4
  <2>1. CASE i = 1
    BY <2>1, <1>2
  <2>2. CASE i # 1
    <3>1. i - 1 \in 1..Len(s) - 1
      BY <2>2, <1>2
    <3>2. Tail(s)[i - 1] = s[i]
      BY <3>1, <1>1, <1>2
    <3>. QED BY <3>1, <3>2, <1>5
  <2>. QED BY <2>1, <2>2
<1>7. \A x \in Range(Tail(s)) : x \in Range(s) /\ x # Head(s)
  <2>. SUFFICES ASSUME NEW i \in 1..Len(s) - 1
                PROVE  Tail(s)[i] \in Range(s) /\ Tail(s)[i] # Head(s)
    BY <1>5
  <2>1. Tail(s)[i] = s[i + 1] /\ i + 1 \in 1..Len(s) /\ 1 \in 1..Len(s) /\ i + 1 # 1
    BY <1>1, <1>2
  <2>. QED BY <2>1, <1>2, <1>4 DEF Distinct
<1>8. Distinct(Tail(s))
  <2>. SUFFICES ASSUME NEW i \in 1..Len(s) - 1, NEW j \in 1..Len(s) - 1, Tail(s)[i] = Tail(s)[j]
                PROVE  i = j
    BY <1>3 DEF Distinct
  <2>1. s[i + 1] = s[j + 1] /\ i + 1 \in 1..Len(s) /\ j + 1 \in 1..Len(s)
    BY <1>1, <1>2
  <2>. QED BY <2>1, <1>2 DEF Distinct
<1>9. Head(s) \in Range(s)
  BY <1>2, <1>4
<1>. QED BY <1>1, <1>6, <1>7, <1>8, <1>9

LEMMA DistinctAppend ==
  ASSUME NEW S, NEW s \in Seq(S), NEW e \in S, e \notin Range(s), Distinct(s)
  PROVE  Distinct(Append(s, e))
<1>1. /\ Append(s, e) \in Seq(S) /\ Len(Append(s, e)) = Len(s) + 1
      /\ \A i \in 1..Len(s) : Append(s, e)[i] = s[i]
      /\ Append(s, e)[Len(s) + 1] = e
  BY AppendProperties
<1>2. Len(s) \in Nat /\ DOMAIN s = 1..Len(s) /\ DOMAIN Append(s, e) = 1..Len(s) + 1
  BY <1>1, LenProperties
<1>3. \A i \in 1..Len(s) : s[i] # e
  BY <1>2 DEF Range
<1>. QED BY <1>1, <1>2, <1>3 DEF Distinct

-----------------------------------------------------------------------------
(* The lanes, by what the steps of the scheduler do to them. *)

LEMMA QueuedIs == \A x : x \in Queued <=> \E u \in Users : x \in Range(queues[u])
BY DEF Queued

(* One lane changes: what is queued changes by what that lane held. *)
LEMMA QueuedNext ==
  ASSUME NEW u \in Users, \A v \in Users \ {u} : queues'[v] = queues[v]
  PROVE  \A x : x \in Queued' <=> \/ x \in Range(queues'[u])
                                 \/ \E v \in Users \ {u} : x \in Range(queues[v])
<1>1. \A x : x \in Queued' <=> \E v \in Users : x \in Range(queues'[v])
  BY DEF Queued
<1>. QED BY <1>1

(* Whoever is busy has a user, and work that is not in any lane. *)
LEMMA WorkApart ==
  ASSUME Inv, NEW t \in Threads, Busy(t)
  PROVE  /\ thread[t].work \in Messages /\ Owner[thread[t].work] \in active
         /\ thread[t].work \notin Queued
<1>1. thread[t].work \in Messages
  BY DEF Inv, Typed
<1>2. Owner[thread[t].work] \in Users /\ Owner[thread[t].work] \in active
  BY <1>1, SchedulerAssumption DEF Inv, OneActivePerUser
<1>3. \A u \in Users : thread[t].work \in Range(queues[u]) => u = Owner[thread[t].work]
  BY DEF Inv, LanesOwn
<1>. QED BY <1>1, <1>2, <1>3, QueuedIs DEF Inv, LanesOwn

(* A step that moves no message keeps the lanes as they are. *)
LEMMA LanesStill ==
  ASSUME Inv, UNCHANGED lanes,
         \A t \in Threads : (Busy(t)' <=> Busy(t)) /\ (Busy(t) => thread'[t].work = thread[t].work)
  PROVE  Bounded' /\ LanesExact' /\ OneActivePerUser' /\ LanesOwn'
<1>1. Bounded'
  BY DEF Inv, Bounded, lanes, LaneLoad
<1>2. {thread[t].work : t \in {x \in Threads : Busy(x)}}' = {thread[t].work : t \in {x \in Threads : Busy(x)}}
  OBVIOUS
<1>3. LanesExact'
  BY <1>2 DEF Inv, LanesExact, lanes, Queued
<1>4. OneActivePerUser'
  BY DEF Inv, OneActivePerUser, lanes
<1>5. LanesOwn'
  BY DEF Inv, LanesOwn, lanes
<1>. QED BY <1>1, <1>3, <1>4, <1>5

LEMMA SubmitLanes ==
  ASSUME Inv, NEW m \in Messages, NEW u \in Users, u = Owner[m], submit(m), UNCHANGED thread
  PROVE  Bounded' /\ LanesExact' /\ OneActivePerUser' /\ LanesOwn'
<1>1. /\ u \in Users /\ queues[u] \in Seq(Messages) /\ Len(queues[u]) \in Nat
      /\ m \notin ids /\ Cardinality(ids) < Capacity /\ LaneLoad(u) < 2
      /\ ids' = ids \cup {m} /\ active' = active
  BY SchedulerAssumption, LenProperties DEF submit, Inv, Typed
<1>2. /\ queues'[u] = Append(queues[u], m) /\ \A v \in Users \ {u} : queues'[v] = queues[v]
      /\ Len(queues'[u]) = Len(queues[u]) + 1
      /\ Range(queues'[u]) = Range(queues[u]) \cup {m}
  BY <1>1, AppendProperties, RangeAppend DEF submit, Inv, Typed
<1>3. Len(queues'[u]) = 1 <=> queues[u] = <<>>
  BY <1>1, <1>2, EmptySeq
<1>4. queues'[u] # <<>>
  BY <1>1, <1>2, AppendProperties
<1>5. /\ \A v \in Users : m \notin Range(queues[v])
      /\ \A t \in Threads : Busy(t) => thread[t].work # m
  BY <1>1, QueuedIs DEF Inv, LanesExact
<1>6. \A t \in Threads : Busy(t)' = Busy(t)
  BY DEF Busy
<1>7. Bounded'
  <2>1. IsFiniteSet(ids') /\ Cardinality(ids') = Cardinality(ids) + 1 /\ Cardinality(ids) \in Nat
    BY <1>1, FS_AddElement, FS_CardinalityType DEF Inv, Bounded
  <2>2. Cardinality(ids') <= Capacity
    BY <2>1, <1>1, SchedulerAssumption
  <2>3. \A v \in Users : LaneLoad(v)' <= 2
    <3>1. LaneLoad(u)' <= 2
      <4>1. CASE u \in active
        BY <4>1, <1>1, <1>2 DEF LaneLoad
      <4>2. CASE u \notin active
        BY <4>2, <1>1, <1>2 DEF LaneLoad
      <4>. QED BY <4>1, <4>2
    <3>2. \A v \in Users \ {u} : LaneLoad(v)' <= 2
      BY <1>1, <1>2 DEF LaneLoad, Inv, Bounded
    <3>. QED BY <3>1, <3>2, <1>1
  <2>. QED BY <2>1, <2>2, <2>3 DEF Bounded
<1>8. LanesExact'
  <2>1. CASE queues[u] = <<>> /\ u \notin active
    <3>1. ready' = Append(ready, u) /\ ready \in Seq(Users)
      BY <2>1, <1>3 DEF submit, Inv, Typed
    <3>2. u \notin Range(ready)
      BY <2>1 DEF Inv, LanesExact
    <3>3. Range(ready') = Range(ready) \cup {u}
      BY <3>1, <1>1, RangeAppend
    <3>4. Distinct(ready')
      BY <3>1, <3>2, <1>1, DistinctAppend DEF Inv, LanesExact, Distinct
    <3>5. Range(ready') = {v \in Users \ active' : queues'[v] # <<>>}
      BY <3>3, <2>1, <1>1, <1>2, <1>4 DEF Inv, LanesExact
    <3>6. Queued' = Queued \cup {m}
      BY <1>1, <1>2, QueuedIs, QueuedNext
    <3>. QED BY <3>4, <3>5, <3>6, <1>1, <1>6 DEF Inv, LanesExact, Distinct
  <2>2. CASE queues[u] # <<>> \/ u \in active
    <3>1. ready' = ready
      BY <2>2, <1>3 DEF submit
    <3>2. Range(ready') = {v \in Users \ active' : queues'[v] # <<>>}
      BY <3>1, <2>2, <1>1, <1>2, <1>4 DEF Inv, LanesExact
    <3>3. Queued' = Queued \cup {m}
      BY <1>1, <1>2, QueuedIs, QueuedNext
    <3>. QED BY <3>1, <3>2, <3>3, <1>1, <1>6 DEF Inv, LanesExact
  <2>. QED BY <2>1, <2>2
<1>9. OneActivePerUser'
  BY <1>1, <1>6 DEF Inv, OneActivePerUser
<1>10. LanesOwn'
  <2>1. \A v \in Users : \A x \in Range(queues'[v]) : Owner[x] = v
    BY <1>1, <1>2 DEF Inv, LanesOwn
  <2>2. Distinct(queues'[u])
    BY <1>1, <1>2, <1>5, DistinctAppend DEF Inv, LanesOwn
  <2>3. \A t \in Threads : Busy(t) => thread[t].work \notin Range(queues'[Owner[thread[t].work]])
    <3>. SUFFICES ASSUME NEW t \in Threads, Busy(t)
                  PROVE  thread[t].work \notin Range(queues'[Owner[thread[t].work]])
      OBVIOUS
    <3>1. Owner[thread[t].work] \in Users
      BY SchedulerAssumption DEF Inv, Typed
    <3>2. thread[t].work \notin Range(queues[Owner[thread[t].work]]) /\ thread[t].work # m
      BY <1>5 DEF Inv, LanesOwn
    <3>3. CASE Owner[thread[t].work] = u
      BY <3>2, <3>3, <1>2
    <3>4. CASE Owner[thread[t].work] # u
      BY <3>1, <3>2, <3>4, <1>2
    <3>. QED BY <3>3, <3>4
  <2>. QED BY <2>1, <2>2, <2>3, <1>2, <1>6 DEF Inv, LanesOwn
<1>. QED BY <1>7, <1>8, <1>9, <1>10

LEMMA TakeLanes ==
  ASSUME Inv, NEW t \in Threads, Take(t), NEW u, u = Head(ready), NEW m, m = Head(queues[u])
  PROVE  Typed' /\ Bounded' /\ LanesExact' /\ OneActivePerUser' /\ LanesOwn'
<1>1. /\ thread[t].pc = "wait" /\ ready # <<>> /\ ready' = Tail(ready)
      /\ queues' = [queues EXCEPT ![u] = Tail(@)] /\ active' = active \cup {u} /\ ids' = ids
      /\ thread' = [thread EXCEPT ![t] = [pc |-> "enter", work |-> m, ok |-> FALSE]]
  BY DEF Take
<1>2. /\ u \in Users /\ ready' \in Seq(Users)
      /\ Range(ready) = {u} \cup Range(ready') /\ u \notin Range(ready') /\ Distinct(ready')
  BY <1>1, HeadAndTail DEF Inv, Typed, LanesExact, Distinct
<1>3. u \notin active /\ queues[u] # <<>> /\ queues[u] \in Seq(Messages) /\ Distinct(queues[u])
  BY <1>2 DEF Inv, Typed, LanesExact, LanesOwn
<1>4. /\ m \in Messages /\ queues'[u] = Tail(queues[u]) /\ queues'[u] \in Seq(Messages)
      /\ Len(queues'[u]) = Len(queues[u]) - 1 /\ Len(queues[u]) \in Nat
      /\ Range(queues[u]) = {m} \cup Range(queues'[u]) /\ m \notin Range(queues'[u])
      /\ Distinct(queues'[u])
      /\ \A v \in Users \ {u} : queues'[v] = queues[v]
  BY <1>1, <1>2, <1>3, HeadAndTail, LenProperties DEF Inv, Typed
<1>5. Owner[m] = u /\ \A v \in Users \ {u} : m \notin Range(queues[v])
  BY <1>2, <1>4 DEF Inv, LanesOwn
<1>6. /\ Busy(t)' /\ ~Busy(t) /\ thread'[t].work = m
      /\ \A s \in Threads \ {t} : thread'[s] = thread[s] /\ (Busy(s)' <=> Busy(s))
  BY <1>1 DEF Busy, Inv, Typed
<1>7. \A s \in Threads : Busy(s) => Owner[thread[s].work] \in active /\ thread[s].work \in Messages
  BY WorkApart
<1>8. Typed'
  <2>1. queues' \in [Users -> Seq(Messages)]
    BY <1>1, <1>2, <1>4 DEF Inv, Typed
  <2>2. thread' \in [Threads -> [pc : ThreadPCs, work : Messages \cup {NoWork}, ok : BOOLEAN]]
    BY <1>1, <1>4 DEF Inv, Typed, ThreadPCs
  <2>3. \A s \in Threads : Busy(s)' <=> thread'[s].work \in Messages
    BY <1>6, <1>4 DEF Inv, Typed
  <2>4. UNCHANGED <<unacked, closed, stopped, poll, shutdown>>
    BY DEF Take
  <2>. QED BY <2>1, <2>2, <2>3, <2>4, <1>1, <1>2 DEF Inv, Typed
<1>9. Bounded'
  <2>1. LaneLoad(u)' = Len(queues'[u]) + 1
    BY <1>1, <1>2 DEF LaneLoad
  <2>2. Len(queues[u]) <= 2
    <3>1. LaneLoad(u) = Len(queues[u]) + 0 /\ LaneLoad(u) <= 2
      BY <1>2, <1>3 DEF LaneLoad, Inv, Bounded
    <3>. QED BY <3>1, <1>4
  <2>3. \A v \in Users \ {u} : LaneLoad(v)' = LaneLoad(v)
    BY <1>1, <1>4 DEF LaneLoad
  <2>. QED BY <2>1, <2>2, <2>3, <1>1, <1>4 DEF Inv, Bounded
<1>10. LanesExact'
  <2>1. Range(ready') = {v \in Users \ active' : queues'[v] # <<>>}
    BY <1>1, <1>2, <1>3, <1>4 DEF Inv, LanesExact
  <2>2. \A x : x \in Queued' <=> x \in Queued /\ x # m
    BY <1>2, <1>4, <1>5, QueuedIs, QueuedNext
  <2>3. {thread[s].work : s \in {x \in Threads : Busy(x)}}'
          = {thread[s].work : s \in {x \in Threads : Busy(x)}} \cup {m}
    BY <1>6
  <2>4. m \in Queued
    BY <1>2, <1>4, QueuedIs
  <2>5. ids' = (Queued \cup {thread[s].work : s \in {x \in Threads : Busy(x)}})'
    <3>1. ids = Queued \cup {thread[s].work : s \in {x \in Threads : Busy(x)}}
      BY DEF Inv, LanesExact
    <3>2. (Queued \cup {thread[s].work : s \in {x \in Threads : Busy(x)}})'
            = Queued' \cup ({thread[s].work : s \in {x \in Threads : Busy(x)}} \cup {m})
      BY <2>3
    <3>. QED BY <3>1, <3>2, <2>2, <2>4, <1>1
  <2>. QED BY <2>1, <2>5, <1>2 DEF LanesExact, Distinct
<1>11. OneActivePerUser'
  <2>1. {Owner[thread[s].work] : s \in {x \in Threads : Busy(x)}}'
          = {Owner[thread[s].work] : s \in {x \in Threads : Busy(x)}} \cup {u}
    BY <1>5, <1>6
  <2>2. active' = {Owner[thread[s].work] : s \in {x \in Threads : Busy(x)}}'
    BY <2>1, <1>1 DEF Inv, OneActivePerUser
  <2>3. \A s \in Threads \ {t} : Busy(s) => Owner[thread[s].work] # u
    BY <1>3, <1>7
  <2>4. \A r, s \in Threads : Busy(r)' /\ Busy(s)' /\ Owner[thread'[r].work] = Owner[thread'[s].work] => r = s
    BY <2>3, <1>5, <1>6 DEF Inv, OneActivePerUser
  <2>. QED BY <2>2, <2>4 DEF OneActivePerUser
<1>12. LanesOwn'
  <2>1. \A v \in Users : (\A x \in Range(queues'[v]) : Owner[x] = v) /\ Distinct(queues'[v])
    BY <1>4 DEF Inv, LanesOwn
  <2>2. thread'[t].work \notin Range(queues'[Owner[thread'[t].work]])
    BY <1>4, <1>5, <1>6
  <2>3. \A s \in Threads \ {t} : Busy(s) => thread[s].work \notin Range(queues'[Owner[thread[s].work]])
    <3>. SUFFICES ASSUME NEW s \in Threads \ {t}, Busy(s)
                  PROVE  thread[s].work \notin Range(queues'[Owner[thread[s].work]])
      OBVIOUS
    <3>1. Owner[thread[s].work] \in Users \ {u}
      BY <1>3, <1>7 DEF Inv, Typed
    <3>. QED BY <3>1, <1>4 DEF Inv, LanesOwn
  <2>. QED BY <2>1, <2>2, <2>3, <1>6 DEF LanesOwn
<1>. QED BY <1>8, <1>9, <1>10, <1>11, <1>12

LEMMA FinishLanes ==
  ASSUME Inv, NEW t \in Threads, Finish(t), NEW m, m = thread[t].work, NEW u, u = Owner[m]
  PROVE  Typed' /\ Bounded' /\ LanesExact' /\ OneActivePerUser' /\ LanesOwn' /\ passed' = {}
<1>. DEFINE ok == thread[t].ok
<1>1. /\ thread[t].pc = "done" /\ active' = active \ {u}
      /\ ids' = (ids \ {m}) \ (IF ok THEN {} ELSE Range(queues[u]))
      /\ queues' = [queues EXCEPT ![u] = IF ok THEN @ ELSE <<>>]
      /\ ready' = IF (IF ok THEN queues[u] ELSE <<>>) = <<>> THEN ready ELSE Append(ready, u)
      /\ passed' = IF ok THEN passed ELSE passed \cup Range(queues'[u])
      /\ thread' = [thread EXCEPT ![t] = Waiting]
  BY DEF Finish
<1>2. /\ Busy(t) /\ m \in Messages /\ u \in active /\ u \in Users /\ m \notin Queued
      /\ queues[u] \in Seq(Messages) /\ Len(queues[u]) \in Nat
      /\ \A v \in Users : m \notin Range(queues[v])
  <2>1. Busy(t)
    BY <1>1 DEF Busy
  <2>2. m \in Messages /\ u \in active /\ m \notin Queued
    BY <2>1, WorkApart
  <2>3. u \in Users /\ queues[u] \in Seq(Messages)
    BY <2>2 DEF Inv, Typed
  <2>. QED BY <2>1, <2>2, <2>3, QueuedIs, LenProperties
<1>3. \A s \in Threads \ {t} : Busy(s) => Owner[thread[s].work] # u /\ thread[s].work # m
  BY <1>2 DEF Inv, OneActivePerUser
<1>4. /\ ~Busy(t)' /\ \A s \in Threads \ {t} : thread'[s] = thread[s] /\ (Busy(s)' <=> Busy(s))
  BY <1>1 DEF Busy, Waiting, Inv, Typed
<1>5. \A v \in Users \ {u} : queues'[v] = queues[v]
  BY <1>1
<1>6. /\ queues'[u] = IF ok THEN queues[u] ELSE <<>>
      /\ Range(queues'[u]) = IF ok THEN Range(queues[u]) ELSE {}
  BY <1>1, <1>2, RangeEmpty DEF Inv, Typed
<1>7. /\ queues'[u] \in Seq(Messages) /\ Distinct(queues'[u])
      /\ Len(queues'[u]) \in Nat /\ Len(queues'[u]) <= Len(queues[u])
  <2>1. CASE ok
    BY <2>1, <1>2, <1>6 DEF Inv, LanesOwn
  <2>2. CASE ~ok
    <3>1. queues'[u] = <<>> /\ Len(<<>>) = 0 /\ <<>> \in Seq(Messages)
      BY <2>2, <1>6, EmptySeq
    <3>2. Distinct(<<>>)
      BY DEF Distinct
    <3>. QED BY <3>1, <3>2, <1>2
  <2>. QED BY <2>1, <2>2
<1>8. \A x : x \in ids' <=> x \in ids /\ x # m /\ (x \in Range(queues[u]) => x \in Range(queues'[u]))
  BY <1>1, <1>6
<1>9. Typed'
  <2>1. queues' \in [Users -> Seq(Messages)]
    BY <1>1, <1>2, <1>7 DEF Inv, Typed
  <2>2. ready' \in Seq(Users)
    BY <1>1, <1>2, AppendProperties DEF Inv, Typed
  <2>3. thread' \in [Threads -> [pc : ThreadPCs, work : Messages \cup {NoWork}, ok : BOOLEAN]]
    BY <1>1 DEF Inv, Typed, ThreadPCs, Waiting
  <2>4. \A s \in Threads : Busy(s)' <=> thread'[s].work \in Messages
    <3>1. thread'[t].work = NoWork
      BY <1>1 DEF Inv, Typed, Waiting
    <3>. QED BY <3>1, <1>4, SchedulerAssumption DEF Inv, Typed
  <2>5. UNCHANGED <<unacked, closed, stopped, poll, shutdown>>
    BY DEF Finish
  <2>. QED BY <2>1, <2>2, <2>3, <2>4, <2>5, <1>1 DEF Inv, Typed
<1>10. Bounded'
  <2>1. IsFiniteSet(ids') /\ Cardinality(ids') <= Cardinality(ids)
    BY <1>8, FS_Subset DEF Inv, Bounded
  <2>2. Cardinality(ids') \in Nat /\ Cardinality(ids) \in Nat
    BY <2>1, FS_CardinalityType DEF Inv, Bounded
  <2>3. Cardinality(ids') <= Capacity
    BY <2>1, <2>2, SchedulerAssumption DEF Inv, Bounded
  <2>4. LaneLoad(u)' <= 2
    <3>1. LaneLoad(u)' = Len(queues'[u])
      BY <1>1 DEF LaneLoad
    <3>2. Len(queues[u]) + 1 <= 2
      BY <1>2 DEF LaneLoad, Inv, Bounded
    <3>. QED BY <3>1, <3>2, <1>2, <1>7
  <2>5. \A v \in Users \ {u} : LaneLoad(v)' = LaneLoad(v)
    BY <1>1, <1>5 DEF LaneLoad
  <2>. QED BY <2>1, <2>3, <2>4, <2>5 DEF Inv, Bounded
<1>11. LanesExact'
  <2>1. Distinct(ready') /\ Range(ready') = {v \in Users \ active' : queues'[v] # <<>>}
    <3>1. u \notin Range(ready) /\ ready \in Seq(Users) /\ Distinct(ready)
      BY <1>2 DEF Inv, Typed, LanesExact, Distinct
    <3>2. CASE queues'[u] = <<>>
      <4>1. ready' = ready
        BY <3>2, <1>1, <1>6
      <4>. QED BY <4>1, <3>1, <3>2, <1>1, <1>2, <1>5 DEF Inv, LanesExact
    <3>3. CASE queues'[u] # <<>>
      <4>1. ready' = Append(ready, u)
        BY <3>3, <1>1, <1>6
      <4>2. Distinct(ready') /\ Range(ready') = Range(ready) \cup {u}
        BY <4>1, <3>1, <1>2, RangeAppend, DistinctAppend
      <4>. QED BY <4>2, <3>3, <1>1, <1>2, <1>5 DEF Inv, LanesExact
    <3>. QED BY <3>2, <3>3
  <2>2. \A x : x \in Queued' <=> x \in Queued /\ (x \in Range(queues[u]) => x \in Range(queues'[u]))
    <3>1. \A v \in Users \ {u} : \A x \in Range(queues[v]) : x \notin Range(queues[u])
      BY <1>2 DEF Inv, LanesOwn
    <3>. QED BY <3>1, <1>2, <1>5, <1>6, QueuedIs, QueuedNext
  <2>3. \A s \in Threads \ {t} : Busy(s) => thread[s].work \notin Range(queues[u])
    BY <1>2, WorkApart, QueuedIs
  <2>4. \A x : x \in ids' <=> x \in Queued' \/ \E s \in Threads \ {t} : Busy(s) /\ x = thread[s].work
    BY <2>2, <2>3, <1>2, <1>3, <1>8 DEF Inv, LanesExact
  <2>5. ids' = (Queued \cup {thread[s].work : s \in {x \in Threads : Busy(x)}})'
    BY <2>4, <1>4
  <2>. QED BY <2>1, <2>5 DEF LanesExact, Distinct
<1>12. OneActivePerUser'
  <2>1. \A v : v \in active' <=> \E s \in Threads \ {t} : Busy(s) /\ v = Owner[thread[s].work]
    BY <1>1, <1>2, <1>3 DEF Inv, OneActivePerUser
  <2>2. active' = {Owner[thread[s].work] : s \in {x \in Threads : Busy(x)}}'
    BY <2>1, <1>4
  <2>. QED BY <2>2, <1>4 DEF Inv, OneActivePerUser
<1>13. LanesOwn'
  <2>1. \A v \in Users : (\A x \in Range(queues'[v]) : Owner[x] = v) /\ Distinct(queues'[v])
    BY <1>5, <1>6, <1>7 DEF Inv, LanesOwn
  <2>2. \A s \in Threads \ {t} : Busy(s) => thread[s].work \notin Range(queues'[Owner[thread[s].work]])
    <3>. SUFFICES ASSUME NEW s \in Threads \ {t}, Busy(s)
                  PROVE  thread[s].work \notin Range(queues'[Owner[thread[s].work]])
      OBVIOUS
    <3>1. Owner[thread[s].work] \in Users \ {u}
      BY <1>3, WorkApart DEF Inv, Typed
    <3>. QED BY <3>1, <1>5 DEF Inv, LanesOwn
  <2>. QED BY <2>1, <2>2, <1>4 DEF LanesOwn
<1>14. passed' = {}
  BY <1>1, <1>6 DEF Inv
<1>. QED BY <1>9, <1>10, <1>11, <1>12, <1>13, <1>14

(* Closing drops what is queued and nothing else: a thread's work stays. *)
LEMMA ClosingLanes ==
  ASSUME Inv, CloseLanes, UNCHANGED thread
  PROVE  /\ Bounded' /\ LanesExact' /\ OneActivePerUser' /\ LanesOwn'
         /\ queues' \in [Users -> Seq(Messages)] /\ ready' \in Seq(Users) /\ ids' \subseteq Messages
<1>1. /\ ids' = ids \ Queued /\ queues' = [u \in Users |-> <<>>] /\ ready' = <<>> /\ active' = active
      /\ \A t \in Threads : (Busy(t)' <=> Busy(t)) /\ thread'[t] = thread[t]
  BY DEF CloseLanes, Busy
<1>2. \A u \in Users : queues'[u] = <<>> /\ Range(queues'[u]) = {} /\ Len(queues'[u]) = 0
  BY <1>1, RangeEmpty, EmptySeq
<1>3. queues' \in [Users -> Seq(Messages)] /\ ready' \in Seq(Users) /\ ids' \subseteq Messages
  BY <1>1, EmptySeq DEF Inv, Typed
<1>4. Bounded'
  <2>1. IsFiniteSet(ids') /\ Cardinality(ids') <= Cardinality(ids)
    BY <1>1, FS_Subset DEF Inv, Bounded
  <2>2. Cardinality(ids') \in Nat /\ Cardinality(ids) \in Nat
    BY <2>1, FS_CardinalityType DEF Inv, Bounded
  <2>3. Cardinality(ids') <= Capacity
    BY <2>1, <2>2, SchedulerAssumption DEF Inv, Bounded
  <2>4. \A u \in Users : LaneLoad(u)' <= 2
    <3>. SUFFICES ASSUME NEW u \in Users PROVE LaneLoad(u)' <= 2
      OBVIOUS
    <3>1. LaneLoad(u)' = 0 + (IF u \in active' THEN 1 ELSE 0)
      BY <1>2 DEF LaneLoad
    <3>. QED BY <3>1
  <2>. QED BY <2>1, <2>3, <2>4 DEF Bounded
<1>5. LanesExact'
  <2>1. Range(ready') = {} /\ Distinct(ready')
    BY <1>1, RangeEmpty DEF Distinct
  <2>2. {u \in Users \ active' : queues'[u] # <<>>} = {}
    BY <1>2
  <2>3. Queued' = {}
    BY <1>2 DEF Queued
  <2>4. \A x : x \in ids' <=> \E t \in Threads : Busy(t) /\ x = thread[t].work
    BY <1>1, WorkApart DEF Inv, LanesExact
  <2>5. ids' = (Queued \cup {thread[t].work : t \in {x \in Threads : Busy(x)}})'
    BY <2>3, <2>4, <1>1
  <2>. QED BY <2>1, <2>2, <2>5 DEF LanesExact, Distinct
<1>6. OneActivePerUser'
  BY <1>1 DEF Inv, OneActivePerUser
<1>7. LanesOwn'
  <2>1. \A u \in Users : Distinct(queues'[u])
    BY <1>2 DEF Distinct
  <2>2. \A t \in Threads : Busy(t) => Owner[thread[t].work] \in Users
    BY WorkApart DEF Inv, Typed
  <2>. QED BY <2>1, <2>2, <1>1, <1>2 DEF LanesOwn
<1>. QED BY <1>3, <1>4, <1>5, <1>6, <1>7

-----------------------------------------------------------------------------
(* The invariant. *)

LEMMA InvInit == Init => Inv
<1>. SUFFICES ASSUME Init PROVE Inv
  OBVIOUS
<1>1. /\ queues = [u \in Users |-> <<>>] /\ ready = <<>> /\ active = {} /\ ids = {}
      /\ thread = [t \in Threads |-> Waiting] /\ shutdown = "no" /\ poll = "idle"
      /\ closed = FALSE /\ stopped = FALSE /\ unacked = Messages /\ passed = {}
  BY DEF Init
<1>2. \A t \in Threads : ~Busy(t) /\ thread[t].work = NoWork
  BY <1>1 DEF Busy, Waiting
<1>3. Typed
  BY <1>1, <1>2, SchedulerAssumption, EmptySeq DEF Typed, Waiting, ThreadPCs
<1>4. Bounded
  <2>1. IsFiniteSet(ids) /\ Cardinality(ids) = 0
    BY <1>1, FS_EmptySet
  <2>2. \A u \in Users : LaneLoad(u) = 0 + 0
    BY <1>1, EmptySeq DEF LaneLoad
  <2>. QED BY <2>1, <2>2, SchedulerAssumption DEF Bounded
<1>5. \A u \in Users : queues[u] = <<>> /\ Range(queues[u]) = {}
  BY <1>1, RangeEmpty
<1>6. LanesExact
  BY <1>1, <1>2, <1>5, RangeEmpty DEF LanesExact, Queued
<1>7. OneActivePerUser
  BY <1>1, <1>2 DEF OneActivePerUser
<1>8. LanesOwn
  BY <1>2, <1>5 DEF LanesOwn, Distinct
<1>9. Quiet
  BY <1>1 DEF Quiet, ClientsOutliveWork
<1>. QED BY <1>1, <1>3, <1>4, <1>6, <1>7, <1>8, <1>9 DEF Inv

LEMMA InvStep == Inv /\ [Next]_vars => Inv'
<1>. SUFFICES ASSUME Inv, [Next]_vars PROVE Inv'
  OBVIOUS
<1>1. ASSUME NEW t \in Threads, Take(t) PROVE Inv'
  <2>1. Typed' /\ Bounded' /\ LanesExact' /\ OneActivePerUser' /\ LanesOwn'
    BY <1>1, TakeLanes
  <2>2. passed' = {} /\ shutdown' = shutdown /\ ready # <<>>
    BY <1>1 DEF Take, Inv
  <2>3. Quiet'
    BY <2>2 DEF Inv, Typed, Quiet, ClientsOutliveWork
  <2>. QED BY <2>1, <2>2, <2>3 DEF Inv
<1>2. ASSUME NEW t \in Threads, Finish(t) PROVE Inv'
  <2>1. Typed' /\ Bounded' /\ LanesExact' /\ OneActivePerUser' /\ LanesOwn' /\ passed' = {}
    BY <1>2, FinishLanes
  <2>2. Busy(t) /\ shutdown' = shutdown /\ poll' = poll
    BY <1>2 DEF Finish, Busy
  <2>3. Owner[thread[t].work] \in Users
    BY <2>2, WorkApart DEF Inv, Typed
  <2>4. (\A u \in Users : queues[u] = <<>>) => ready' = ready /\ \A u \in Users : queues'[u] = <<>>
    BY <1>2, <2>3 DEF Finish, Inv, Typed
  <2>5. Quiet'
    BY <2>2, <2>4 DEF Inv, Quiet, ClientsOutliveWork
  <2>. QED BY <2>1, <2>5 DEF Inv
<1>3. ASSUME NEW t \in Threads, Leave(t) \/ Enter(t) \/ Process(t) PROVE Inv'
  <2>1. /\ UNCHANGED <<lanes, closed, stopped, poll, shutdown, passed>>
        /\ unacked' \subseteq Messages
        /\ thread' \in [Threads -> [pc : ThreadPCs, work : Messages \cup {NoWork}, ok : BOOLEAN]]
    <3>1. CASE Leave(t)
      BY <3>1 DEF Leave, Inv, Typed, ThreadPCs
    <3>2. CASE Enter(t)
      BY <3>2 DEF Enter, Inv, Typed, ThreadPCs
    <3>3. CASE Process(t)
      <4>. PICK ok \in BOOLEAN :
             /\ thread' = [thread EXCEPT ![t].pc = "done", ![t].ok = ok]
             /\ unacked' = IF ok THEN unacked \ {thread[t].work} ELSE unacked
        BY <3>3 DEF Process
      <4>1. unacked' \subseteq Messages
        BY DEF Inv, Typed
      <4>2. thread' \in [Threads -> [pc : ThreadPCs, work : Messages \cup {NoWork}, ok : BOOLEAN]]
        <5>1. thread[t] \in [pc : ThreadPCs, work : Messages \cup {NoWork}, ok : BOOLEAN]
          BY DEF Inv, Typed
        <5>2. [[thread[t] EXCEPT !.pc = "done"] EXCEPT !.ok = ok]
                \in [pc : ThreadPCs, work : Messages \cup {NoWork}, ok : BOOLEAN]
          BY <5>1 DEF ThreadPCs
        <5>3. /\ thread'[t] = [[thread[t] EXCEPT !.pc = "done"] EXCEPT !.ok = ok]
              /\ DOMAIN thread' = Threads /\ thread' = [x \in Threads |-> thread'[x]]
              /\ \A x \in Threads \ {t} : thread'[x] = thread[x]
          BY DEF Inv, Typed
        <5>. QED BY <5>2, <5>3 DEF Inv, Typed
      <4>. QED BY <3>3, <4>1, <4>2 DEF Process
    <3>. QED BY <1>3, <3>1, <3>2, <3>3
  <2>2. \A x \in Threads : (Busy(x)' <=> Busy(x)) /\ thread'[x].work = thread[x].work
    <3>1. CASE Leave(t)
      BY <3>1 DEF Leave, Busy, Inv, Typed
    <3>2. CASE Enter(t)
      BY <3>2 DEF Enter, Busy, Inv, Typed
    <3>3. CASE Process(t)
      BY <3>3 DEF Process, Busy, Inv, Typed
    <3>. QED BY <1>3, <3>1, <3>2, <3>3
  <2>3. Bounded' /\ LanesExact' /\ OneActivePerUser' /\ LanesOwn'
    BY <2>1, <2>2, LanesStill
  <2>4. Typed'
    BY <2>1, <2>2 DEF Inv, Typed, lanes
  <2>5. Quiet'
    BY <2>1, <2>2 DEF Inv, Quiet, ClientsOutliveWork, lanes
  <2>. QED BY <2>1, <2>3, <2>4, <2>5 DEF Inv
<1>4. ASSUME BeginPoll \/ EndPoll \/ StopAdmission \/ BeginClose \/ CloseClients
             \/ \E m \in Messages : Arrive(m)
      PROVE  Inv'
  <2>1. UNCHANGED <<lanes, closed, thread, passed>> /\ unacked' \subseteq Messages
    BY <1>4 DEF BeginPoll, EndPoll, StopAdmission, BeginClose, CloseClients, Arrive, Inv, Typed
  <2>2. \A x \in Threads : (Busy(x)' <=> Busy(x)) /\ thread'[x].work = thread[x].work
    BY <2>1 DEF Busy
  <2>3. Bounded' /\ LanesExact' /\ OneActivePerUser' /\ LanesOwn'
    BY <2>1, <2>2, LanesStill
  <2>4. /\ poll' \in {"idle", "live", "serial", "draining", "joining"} /\ stopped' \in BOOLEAN
        /\ shutdown' \in {"no", "waiting", "joining", "closed"}
    BY <1>4 DEF BeginPoll, EndPoll, StopAdmission, BeginClose, CloseClients, Arrive, Inv, Typed
  <2>5. Typed'
    BY <2>1, <2>2, <2>4 DEF Inv, Typed, lanes
  <2>6. /\ shutdown' \in {"joining", "closed"} => shutdown \in {"joining", "closed"} /\ poll' = poll
        /\ shutdown' = "closed" => shutdown = "closed" \/ Exited
    BY <1>4 DEF BeginPoll, EndPoll, StopAdmission, BeginClose, CloseClients, Arrive, Inv, Quiet
  <2>7. Quiet'
    BY <2>1, <2>2, <2>6 DEF Inv, Quiet, ClientsOutliveWork, lanes, Exited, Busy
  <2>. QED BY <2>1, <2>3, <2>5, <2>7 DEF Inv
<1>5. ASSUME Joined PROVE Inv'
  <2>1. UNCHANGED <<lanes, unacked, stopped, shutdown, passed>> /\ closed' = FALSE /\ poll' = "idle"
        /\ thread' = [t \in Threads |-> Waiting]
    BY <1>5 DEF Joined
  <2>2. \A x \in Threads : ~Busy(x) /\ ~Busy(x)' /\ thread'[x].work = NoWork
    BY <1>5, <2>1 DEF Joined, Exited, Busy, Waiting
  <2>3. Bounded' /\ LanesExact' /\ OneActivePerUser' /\ LanesOwn'
    BY <2>1, <2>2, LanesStill
  <2>4. Typed'
    BY <2>1, <2>2, SchedulerAssumption DEF Inv, Typed, lanes, Waiting, ThreadPCs
  <2>5. Quiet'
    BY <2>1, <2>2 DEF Inv, Quiet, ClientsOutliveWork, lanes
  <2>. QED BY <2>1, <2>3, <2>4, <2>5 DEF Inv
<1>6. ASSUME NEW m \in Messages, Submit(m) PROVE Inv'
  <2>1. /\ submit(m) /\ poll # "idle" /\ passed' = {}
        /\ UNCHANGED <<closed, thread, unacked, stopped, poll, shutdown, active>>
    BY <1>6 DEF Submit, submit, Inv
  <2>2. Owner[m] \in Users
    BY SchedulerAssumption
  <2>3. Bounded' /\ LanesExact' /\ OneActivePerUser' /\ LanesOwn'
    BY <2>1, <2>2, SubmitLanes
  <2>4. queues' \in [Users -> Seq(Messages)] /\ ready' \in Seq(Users) /\ ids' \subseteq Messages
    BY <2>1, <2>2, AppendProperties DEF submit, Inv, Typed
  <2>5. Typed'
    BY <2>1, <2>4 DEF Inv, Typed, Busy
  <2>6. Quiet'
    BY <2>1 DEF Inv, Quiet, ClientsOutliveWork
  <2>. QED BY <2>1, <2>3, <2>5, <2>6 DEF Inv
<1>7. ASSUME Drained \/ PollFails \/ CloseConsumer PROVE Inv'
  <2>1. CloseLanes /\ UNCHANGED <<thread, unacked, stopped, passed>>
    BY <1>7 DEF Drained, PollFails, CloseConsumer
  <2>2. /\ Bounded' /\ LanesExact' /\ OneActivePerUser' /\ LanesOwn'
        /\ queues' \in [Users -> Seq(Messages)] /\ ready' \in Seq(Users) /\ ids' \subseteq Messages
    BY <2>1, ClosingLanes
  <2>3. /\ poll' \in {"idle", "live", "serial", "draining", "joining"}
        /\ shutdown' \in {"no", "waiting", "joining", "closed"}
        /\ shutdown' = "closed" => shutdown = "closed"
        /\ shutdown' \in {"joining", "closed"} => poll' = "idle"
    BY <1>7 DEF Drained, PollFails, CloseConsumer, Inv, Typed, Quiet
  <2>4. Typed'
    BY <2>1, <2>2, <2>3 DEF Inv, Typed, Busy, CloseLanes
  <2>5. Quiet'
    BY <2>1, <2>3 DEF Inv, Quiet, ClientsOutliveWork, CloseLanes, Busy
  <2>. QED BY <2>1, <2>2, <2>4, <2>5 DEF Inv
<1>8. CASE UNCHANGED vars
  <2>1. \A x \in Threads : (Busy(x)' <=> Busy(x)) /\ thread'[x].work = thread[x].work
    BY <1>8 DEF vars, Busy
  <2>2. Bounded' /\ LanesExact' /\ OneActivePerUser' /\ LanesOwn'
    BY <1>8, <2>1, LanesStill DEF vars
  <2>3. Typed' /\ Quiet' /\ passed' = {}
    BY <1>8, <2>1 DEF vars, lanes, Inv, Typed, Quiet, ClientsOutliveWork
  <2>. QED BY <2>2, <2>3 DEF Inv
<1>. QED BY <1>1, <1>2, <1>3, <1>4, <1>5, <1>6, <1>7, <1>8 DEF Next, ThreadStep

THEOREM InvTheorem == Spec => []Inv
BY InvInit, InvStep, PTL DEF Spec

(* Types and the memory bound: at most Capacity messages, and at most two  *)
(* of one user, are held outside Redis.                                    *)
THEOREM SchedulerTyped == Spec => []TypeOK
<1>1. Inv => TypeOK
  <2>. SUFFICES ASSUME Inv PROVE TypeOK
    OBVIOUS
  <2>1. \A t \in Threads : thread[t].pc \in ThreadPCs /\ thread[t].ok \in BOOLEAN
    BY DEF Inv, Typed
  <2>. QED BY <2>1 DEF Inv, Typed, Bounded, TypeOK, ThreadPCs
<1>. QED BY <1>1, InvTheorem, PTL

(* No lane is lost and none is in turn twice, through submissions, failed  *)
(* turns, poll failures and shutdown; no message leaks out of ids.         *)
THEOREM LanesTheorem == Spec => []LanesExact
<1>1. Inv => LanesExact
  BY DEF Inv
<1>. QED BY <1>1, InvTheorem, PTL

(* No apply is in flight once the consumer has given up its clients.       *)
THEOREM ClientsTheorem == Spec => []ClientsOutliveWork
<1>1. Inv => ClientsOutliveWork
  BY DEF Inv, Quiet
<1>. QED BY <1>1, InvTheorem, PTL

(* A user has one executing event, nothing that waited behind a failed     *)
(* turn runs before Redis delivers it again, and none runs without clients.*)
THEOREM TurnsTheorem == Spec => []TurnsSound
<1>1. Inv => TurnsSound
  BY DEF Inv, Quiet, TurnsSound, NoRunPastFailure
<1>. QED BY <1>1, InvTheorem, PTL
=============================================================================
