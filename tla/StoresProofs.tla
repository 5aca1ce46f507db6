---------------------------- MODULE StoresProofs ----------------------------
(***************************************************************************)
(* Theorems about three records that outlive a process, each written by    *)
(* several and read back by whoever comes next: the trending success       *)
(* (TrendingRefresh), a repository's point (RepositoryJobs) and the        *)
(* acquisition checkpoint (CorpusPipeline).  For any workers, pages and    *)
(* repositories, any jobs, deliveries and late writes, and any capacity.   *)
(*                                                                         *)
(* A refresh is the only one to hold the lock from its claim to its end,   *)
(* so the file is what it was when the refresh was found due; that the     *)
(* file is not made to regress although Replace does not look again rests  *)
(* on this.  A job holds nothing: every write it prepared, however late it *)
(* lands, was prepared from a point the store had, and its filter lets it  *)
(* land only while the fields it moves are those of that point.  Neither   *)
(* the repository's lock nor the number of deliveries is mentioned.  A run *)
(* over the checkpoint never lets its queues get ahead of the file, and    *)
(* whatever it gives to the database it had saved as its own: what it has  *)
(* still to do fits beside the queues, so that saving it is always         *)
(* possible.                                                               *)
(***************************************************************************)
EXTENDS TrendingRefresh, RepositoryJobs, CorpusPipeline, TLAPS, FiniteSetTheorems

-----------------------------------------------------------------------------
(* The trending success *)

TrendingSpec == TrendingInit /\ [][TrendingNext]_trendingVars

Records == [repo : Repositories, of : Nat]
Caches == [key : SUBSET Repositories, expires : Nat, id : Nat, observed : Nat, records : SUBSET Records]
Stages == {"idle", "fetch", "workset", "enrich", "enriched", "publish", "mark", "replace", "leave"}
Successes == [id : Nat, observed : Nat \cup {-1}]
Refreshes == [pc : Stages, force : BOOLEAN, page : SUBSET Repositories, at : Nat, attempt : Nat, read : Successes]
Snapshots == [id : Nat, observed : Nat, records : SUBSET Records]

TrendingTyped ==
  /\ now \in Nat /\ minted \in Nat /\ recorded \in Successes
  /\ worker \in [Trenders -> Refreshes] /\ retry \in [Trenders -> Caches]
  /\ accepted \in SUBSET Snapshots

\* The lock has one holder, and whoever is past the claim holds it.
OwnerKept ==
  /\ \A v, w \in owner : v = w
  /\ \A w \in Trenders : w \in owner <=> ~Doing(w, "idle")

\* A cache has the records of its own page, none before its observation, and
\* once its snapshot was accepted it is complete and equal to what was sent.
RepoOf(c) == {r.repo : r \in c.records}
CacheKept(c) ==
  /\ c.id <= minted /\ (c.key # {} => c.id > 0)
  /\ RepoOf(c) \subseteq c.key
  /\ c.observed <= now /\ \A r \in c.records : c.observed <= r.of
  /\ \A s \in accepted : s.id = c.id =>
       c.key \subseteq RepoOf(c) /\ s.observed = c.observed /\ s.records = c.records
CachesKept ==
  /\ \A w \in Trenders : CacheKept(retry[w])
  /\ \A v, w \in Trenders : v # w => retry[v].id # retry[w].id \/ retry[v].id = 0
  /\ \A s \in accepted : s.id > 0 /\ s.id <= minted

\* What a refresh has established at each of its stages.
Sending(w) == worker[w].pc \in {"enrich", "enriched", "publish", "mark", "replace"}
RefreshKept(w) ==
  /\ worker[w].at <= now
  /\ Doing(w, "workset") \/ Sending(w) => worker[w].page \in Pages
  /\ Sending(w) => retry[w].key = worker[w].page
  /\ Doing(w, "publish") => Missing(w) = {}
  /\ worker[w].pc \notin {"idle", "leave"} /\ ~worker[w].force =>
       recorded = Never \/ now - recorded.observed >= FreshTicks
  /\ Doing(w, "publish") /\ ~worker[w].force => retry[w].observed >= recorded.observed
  /\ Doing(w, "mark") \/ Doing(w, "replace") => Snapshot(w) \in accepted
  /\ Doing(w, "replace") => retry[w].observed >= recorded.observed

SnapshotsSound == RecordedAccepted /\ SentOnce /\ Complete

TrendingInv ==
  /\ TrendingTyped /\ OwnerKept /\ CachesKept
  /\ \A w \in Trenders : RefreshKept(w)
  /\ SnapshotsSound

LEMMA TrendingStarts == TrendingInit => TrendingInv
<1> SUFFICES ASSUME TrendingInit PROVE TrendingInv OBVIOUS
<1> USE DEF TrendingInit, Unowned, EmptyCache, Never
<1>1. TrendingTyped BY DEF TrendingTyped, Refreshes, Caches, Stages, Successes, Records
<1>2. OwnerKept BY DEF OwnerKept, Doing
<1>3. CachesKept BY DEF CachesKept, CacheKept, RepoOf
<1>4. \A w \in Trenders : RefreshKept(w) BY DEF RefreshKept, Sending, Doing
<1>5. SnapshotsSound BY DEF SnapshotsSound, RecordedAccepted, SentOnce, Complete
<1> QED BY <1>1, <1>2, <1>3, <1>4, <1>5 DEF TrendingInv

LEMMA UnforcedFollows == TrendingInv => UnforcedDue
BY DEF TrendingInv, RefreshKept, UnforcedDue, Doing

LEMMA CacheStays ==
  ASSUME NEW v \in Trenders, retry'[v] = retry[v], retry[v] \in Caches, CacheKept(retry[v]),
         accepted' = accepted, now \in Nat, now' \in Nat, now' >= now,
         minted \in Nat, minted' \in Nat, minted' >= minted
  PROVE  CacheKept(retry[v])'
<1>1. retry[v].id \in Nat /\ retry[v].observed \in Nat BY DEF Caches
<1> HIDE DEF Caches
<1> QED BY <1>1 DEF CacheKept, RepoOf

\* A step that leaves caches, snapshots and identities alone keeps what they promise.
LEMMA CachesStay ==
  ASSUME CachesKept, TrendingTyped, UNCHANGED <<retry, accepted, minted>>, now' \in Nat, now' >= now
  PROVE  CachesKept'
<1> ASSUME NEW w \in Trenders PROVE CacheKept(retry[w])'
  <2> retry[w] \in Caches BY DEF TrendingTyped
  <2> CacheKept(retry[w]) BY DEF CachesKept
  <2> QED BY DEF CacheKept, RepoOf, Caches, TrendingTyped
<1> QED BY DEF CachesKept

\* So does forgetting a workset.
LEMMA CachesForgotten ==
  ASSUME CachesKept, TrendingTyped, NEW w \in Trenders, Forgets(w), UNCHANGED <<now, accepted>>,
         minted' \in Nat, minted' >= minted
  PROVE  CachesKept'
<1>1. retry'[w] = EmptyCache /\ \A v \in Trenders : v # w => retry'[v] = retry[v] BY DEF Forgets, TrendingTyped
<1>2. \A s \in accepted' : s.id > 0 /\ s.id <= minted' BY DEF CachesKept, TrendingTyped, Snapshots
<1>3. ASSUME NEW v \in Trenders PROVE CacheKept(retry[v])'
  <2>1. CASE v = w BY <1>1, <1>2, <2>1 DEF CacheKept, EmptyCache, RepoOf, TrendingTyped
  <2>2. CASE v # w
    <3> retry'[v] = retry[v] /\ retry[v] \in Caches BY <1>1, <2>2 DEF TrendingTyped
    <3> CacheKept(retry[v]) BY DEF CachesKept
    <3> QED BY DEF CacheKept, RepoOf, Caches, TrendingTyped
  <2> QED BY <2>1, <2>2
<1>4. \A u, v \in Trenders : u # v => retry'[u].id # retry'[v].id \/ retry'[u].id = 0
  <2> TAKE u, v \in Trenders
  <2> HAVE u # v
  <2>1. retry[u].id # retry[v].id \/ retry[u].id = 0 BY DEF CachesKept
  <2>2. retry[v].id # retry[u].id \/ retry[v].id = 0 BY DEF CachesKept
  <2> QED BY <1>1, <2>1, <2>2 DEF EmptyCache
<1> QED BY <1>2, <1>3, <1>4 DEF CachesKept

LEMMA WorksetCaches ==
  ASSUME TrendingInv, NEW w \in Trenders, Workset(w)
  PROVE  CachesKept' /\ minted' \in Nat /\ minted' >= minted
<1> USE TrendingAssumption
<1> DEFINE c == Pending(w)
<1>0. worker[w] \in Refreshes /\ retry[w] \in Caches /\ now \in Nat /\ minted \in Nat /\ CachesKept /\ TrendingTyped
  BY DEF TrendingInv, TrendingTyped
<1>1. /\ minted' = IF c.id > minted THEN c.id ELSE minted
      /\ \/ Forgets(w) \/ retry' = [retry EXCEPT ![w] = c]
      /\ UNCHANGED <<now, recorded, owner, accepted>>
  BY DEF Workset
<1>2. CASE c = retry[w]
  <2>1. minted' = minted BY <1>0, <1>1, <1>2 DEF CachesKept, CacheKept, Caches
  <2>2. CASE retry' = [retry EXCEPT ![w] = c]
    <3> retry' = retry BY <1>0, <1>2, <2>2 DEF TrendingTyped
    <3> QED BY <1>0, <1>1, <2>1, CachesStay
  <2>3. CASE Forgets(w) BY <1>0, <1>1, <2>1, <2>3, CachesForgotten
  <2> QED BY <1>0, <1>1, <2>1, <2>2, <2>3
<1>3. CASE c # retry[w]
  <2>1. c = [key |-> worker[w].page, expires |-> now + CacheTicks, id |-> minted + 1,
             observed |-> worker[w].at, records |-> {}]
    BY <1>3 DEF Pending
  <2>2. minted' = minted + 1 BY <1>0, <1>1, <2>1
  <2>3. CASE Forgets(w) BY <1>0, <1>1, <2>2, <2>3, CachesForgotten
  <2>4. CASE retry' = [retry EXCEPT ![w] = c]
    <3>1. retry'[w] = c /\ \A v \in Trenders : v # w => retry'[v] = retry[v] BY <1>0, <2>4 DEF TrendingTyped
    <3>2. \A s \in accepted : s.id \in Nat /\ s.id > 0 /\ s.id <= minted
      BY <1>0 DEF CachesKept, TrendingTyped, Snapshots
    <3>3. \A v \in Trenders : retry[v] \in Caches /\ CacheKept(retry[v]) BY <1>0 DEF CachesKept, TrendingTyped
    <3>4. CacheKept(retry[w])'
      <4>1. worker[w].at <= now BY DEF TrendingInv, RefreshKept
      <4>2. /\ retry'[w].id = minted' /\ retry'[w].id > 0 /\ retry'[w].records = {}
            /\ retry'[w].observed <= now' /\ minted' \in Nat
        BY <1>0, <1>1, <2>1, <2>2, <3>1, <4>1 DEF Refreshes
      <4>3. \A s \in accepted' : s.id # retry'[w].id BY <1>0, <1>1, <2>2, <3>2, <4>2
      <4> QED BY <4>2, <4>3 DEF CacheKept, RepoOf
    <3>5. ASSUME NEW v \in Trenders PROVE CacheKept(retry[v])'
      <4>1. CASE v = w BY <3>4, <4>1
      <4>2. CASE v # w
        <5>1. retry'[v] = retry[v] /\ retry[v] \in Caches /\ CacheKept(retry[v]) BY <3>1, <3>3, <4>2
        <5>2. minted' \in Nat /\ minted' >= minted /\ now' \in Nat /\ now' >= now BY <1>0, <1>1, <2>2
        <5> QED BY <1>0, <1>1, <5>1, <5>2, CacheStays
      <4> QED BY <4>1, <4>2
    <3>6. \A u, v \in Trenders : u # v => retry'[u].id # retry'[v].id \/ retry'[u].id = 0
      <4> TAKE u, v \in Trenders
      <4> HAVE u # v
      <4>1. retry[u].id # retry[v].id \/ retry[u].id = 0 BY <1>0 DEF CachesKept
      <4>2. c.id = minted + 1 BY <2>1
      <4>3. retry[u].id \in Nat /\ retry[u].id <= minted /\ retry[v].id \in Nat /\ retry[v].id <= minted
        BY <3>3 DEF CacheKept, Caches
      <4>4. CASE u = w BY <1>0, <3>1, <4>2, <4>3, <4>4
      <4>5. CASE v = w BY <1>0, <3>1, <4>2, <4>3, <4>5
      <4>6. CASE u # w /\ v # w BY <3>1, <4>1, <4>6
      <4> QED BY <4>4, <4>5, <4>6
    <3>7. \A s \in accepted' : s.id > 0 /\ s.id <= minted' BY <1>0, <1>1, <2>2, <3>2
    <3> QED BY <1>0, <2>2, <3>5, <3>6, <3>7 DEF CachesKept
  <2> QED BY <1>0, <1>1, <2>2, <2>3, <2>4
<1> QED BY <1>2, <1>3

\* Only a repository the cache lacks is enriched, now; a workset that lacks
\* one was not accepted.
LEMMA EnrichCaches ==
  ASSUME TrendingInv, NEW w \in Trenders, Enrich(w)
  PROVE  CachesKept' /\ retry'[w] \in Caches /\ retry'[w] = [retry[w] EXCEPT !.records = retry'[w].records]
<1>0. /\ worker[w] \in Refreshes /\ retry[w] \in Caches /\ now \in Nat /\ minted \in Nat /\ CachesKept
      /\ TrendingTyped /\ retry[w].key = worker[w].page /\ worker[w].page \in Pages
  BY DEF TrendingInv, TrendingTyped, RefreshKept, Sending, Enrich, Doing
<1>1. PICK got \in SUBSET Missing(w) :
        retry' = [retry EXCEPT ![w].records = @ \cup {[repo |-> r, of |-> now] : r \in got}]
  BY DEF Enrich
<1> DEFINE new == {[repo |-> r, of |-> now] : r \in got}
           c == [retry[w] EXCEPT !.records = retry[w].records \cup new]
<1>2. UNCHANGED <<now, accepted, minted>> BY DEF Enrich
<1>3. retry'[w] = c /\ \A v \in Trenders : v # w => retry'[v] = retry[v] BY <1>0, <1>1 DEF TrendingTyped
<1>4. got \subseteq retry[w].key /\ got \cap RepoOf(retry[w]) = {} BY <1>0 DEF Missing, RepoOf
<1>5. new \subseteq Records BY <1>0, <1>4 DEF Caches, Records
<1>6. c \in Caches /\ c.key = retry[w].key /\ c.id = retry[w].id /\ c.observed = retry[w].observed
      /\ c.records = retry[w].records \cup new
  BY <1>0, <1>5 DEF Caches
<1>7. CacheKept(retry[w]) BY <1>0 DEF CachesKept
<1> HIDE DEF c
<1>8. RepoOf(c) = RepoOf(retry[w]) \cup got
  <2>1. {r.repo : r \in new} = got
    <3>1. ASSUME NEW r \in got PROVE r \in {x.repo : x \in new}
      <4> [repo |-> r, of |-> now] \in new OBVIOUS
      <4> QED OBVIOUS
    <3>2. ASSUME NEW x \in new PROVE x.repo \in got OBVIOUS
    <3> QED BY <3>1, <3>2
  <2> HIDE DEF new
  <2> QED BY <1>6, <2>1 DEF RepoOf
<1>9. \A r \in c.records : c.observed <= r.of
  <2> \A r \in new : r.of = now BY DEF new
  <2> QED BY <1>0, <1>6, <1>7 DEF CacheKept
<1>10. \A s \in accepted : s.id = c.id => c.key \subseteq RepoOf(c) /\ s.observed = c.observed /\ s.records = c.records
  <2> TAKE s \in accepted
  <2> HAVE s.id = c.id
  <2>1. retry[w].key \subseteq RepoOf(retry[w]) /\ s.observed = retry[w].observed /\ s.records = retry[w].records
    BY <1>6, <1>7 DEF CacheKept
  <2>2. got = {} BY <1>4, <2>1
  <2>3. new = {} BY <2>2
  <2> QED BY <1>6, <1>8, <2>1, <2>3
<1>11. CacheKept(c)
  BY <1>4, <1>6, <1>7, <1>8, <1>9, <1>10 DEF CacheKept
<1>12. \A v \in Trenders : CacheKept(retry[v])'
  <2> TAKE v \in Trenders
  <2>1. CASE v = w
    <3> QED BY <1>2, <1>3, <1>11, <2>1 DEF CacheKept, RepoOf
  <2>2. CASE v # w
    <3> CacheKept(retry[v]) /\ retry'[v] = retry[v] /\ retry[v] \in Caches
      BY <1>0, <1>3, <2>2 DEF CachesKept, TrendingTyped
    <3> QED BY <1>0, <1>2, CacheStays
  <2> QED BY <2>1, <2>2
<1>13. \A v \in Trenders : retry'[v].id = retry[v].id BY <1>3, <1>6
<1>14. \A u, v \in Trenders : u # v => retry'[u].id # retry'[v].id \/ retry'[u].id = 0 BY <1>0, <1>13 DEF CachesKept
<1>15. CachesKept' BY <1>0, <1>2, <1>12, <1>14 DEF CachesKept
<1>16. retry'[w] = [retry[w] EXCEPT !.records = retry'[w].records] BY <1>3, <1>6 DEF c
<1> QED BY <1>3, <1>6, <1>15, <1>16

\* What is sent is the whole page as the cache has it, under an identity no
\* other cache and no other snapshot has.
LEMMA PublishCaches ==
  ASSUME TrendingInv, NEW w \in Trenders, Publish(w)
  PROVE  CachesKept' /\ SnapshotsSound' /\ accepted \subseteq accepted' /\ accepted' \in SUBSET Snapshots
         /\ (accepted' = accepted \/ Snapshot(w) \in accepted')
<1> USE TrendingAssumption
<1> DEFINE c == retry[w]
           n == Snapshot(w)
<1>0. /\ worker[w] \in Refreshes /\ c \in Caches /\ now \in Nat /\ minted \in Nat /\ CachesKept /\ SnapshotsSound
      /\ TrendingTyped /\ c.key = worker[w].page /\ worker[w].page \in Pages /\ Missing(w) = {}
      /\ \A v \in Trenders : retry[v] \in Caches
  BY DEF TrendingInv, TrendingTyped, RefreshKept, Sending, Publish, Doing
<1>1. UNCHANGED <<now, recorded, retry, minted>> /\ (accepted' = accepted \/ accepted' = accepted \cup {n})
  BY DEF Publish
<1>2. CASE accepted' = accepted
  <2> CachesKept' BY <1>0, <1>1, <1>2, CachesStay
  <2> SnapshotsSound' BY <1>0, <1>1, <1>2 DEF SnapshotsSound, RecordedAccepted, SentOnce, Complete
  <2> QED BY <1>0, <1>2 DEF TrendingTyped
<1>3. CASE accepted' = accepted \cup {n}
  <2>1. n = [id |-> c.id, observed |-> c.observed, records |-> c.records] /\ n \in Snapshots
    BY <1>0 DEF Snapshot, Caches, Snapshots
  <2>2. CacheKept(c) BY <1>0 DEF CachesKept
  <2>3. RepoOf(c) = worker[w].page BY <1>0, <2>2 DEF CacheKept, RepoOf, Missing
  <2>4. c.id > 0 /\ c.id <= minted BY <1>0, <2>2 DEF CacheKept
  <2>5. \A s \in accepted : s.id = n.id => s = n
    BY <1>0, <2>1, <2>2 DEF CacheKept, TrendingTyped, Snapshots
  <2>6. \A v \in Trenders : CacheKept(retry[v])'
    <3> TAKE v \in Trenders
    <3>1. CacheKept(retry[v]) BY <1>0 DEF CachesKept
    <3>2. n.id = retry[v].id => v = w
      <4> CASE v # w
        <5> retry[w].id # retry[v].id \/ retry[w].id = 0 BY <1>0 DEF CachesKept
        <5> QED BY <1>0, <2>1, <2>4 DEF Caches
      <4> QED OBVIOUS
    <3>3. n.id = retry[v].id => retry[v].key \subseteq RepoOf(retry[v]) /\ n.observed = retry[v].observed
                                /\ n.records = retry[v].records
      BY <1>0, <2>1, <2>3, <3>2
    <3> QED BY <1>1, <1>3, <3>1, <3>3 DEF CacheKept, RepoOf
  <2>7. CachesKept' BY <1>0, <1>1, <1>3, <2>1, <2>4, <2>6 DEF CachesKept
  <2>8. RecordedAccepted' BY <1>0, <1>1, <1>3 DEF SnapshotsSound, RecordedAccepted
  <2>9. SentOnce' BY <1>0, <1>3, <2>5 DEF SnapshotsSound, SentOnce
  <2>10. Complete'
    <3> /\ {r.repo : r \in n.records} \in Pages /\ \A r \in n.records : n.observed <= r.of
      <4>1. n.records = c.records /\ n.observed = c.observed BY <2>1
      <4>2. \A r \in c.records : c.observed <= r.of BY <2>2 DEF CacheKept
      <4>3. {r.repo : r \in c.records} \in Pages BY <1>0, <2>3 DEF RepoOf
      <4> HIDE DEF n, c
      <4> QED BY <4>1, <4>2, <4>3
    <3> QED BY <1>0, <1>3 DEF SnapshotsSound, Complete
  <2> QED BY <1>0, <1>3, <2>1, <2>7, <2>8, <2>9, <2>10 DEF SnapshotsSound, TrendingTyped
<1> QED BY <1>1, <1>2, <1>3

-----------------------------------------------------------------------------
(* Steps *)

\* A worker a step is not about keeps what it established: the file, which
\* only the holder of the lock replaces, is as it was.
LEMMA OthersKept ==
  ASSUME TrendingInv, NEW v \in Trenders, worker'[v] = worker[v], retry'[v] = retry[v], recorded' = recorded,
         accepted \subseteq accepted', now' \in Nat, now' >= now
  PROVE  RefreshKept(v)'
<1>1. RefreshKept(v) /\ worker[v] \in Refreshes /\ now \in Nat /\ recorded \in Successes
  BY DEF TrendingInv, TrendingTyped
<1>2. worker[v].at \in Nat /\ (recorded = Never \/ recorded.observed \in Int) BY <1>1 DEF Refreshes, Successes
<1>3. FreshTicks \in Nat BY TrendingAssumption
<1>4. now - recorded.observed >= FreshTicks => now' - recorded.observed >= FreshTicks BY <1>1, <1>3 DEF Successes
<1> QED BY <1>1, <1>2, <1>4 DEF RefreshKept, Sending, Doing, Missing, Snapshot

\* The holder moves on.
LEMMA OwnerMoves ==
  ASSUME TrendingInv, NEW w \in Trenders, NEW r \in Refreshes, worker' = [worker EXCEPT ![w] = r],
         ~Doing(w, "idle"), r.pc # "idle", owner' = owner
  PROVE  /\ OwnerKept' /\ worker' \in [Trenders -> Refreshes] /\ worker'[w] = r
         /\ \A v \in Trenders : v # w => worker'[v] = worker[v]
<1>1. worker \in [Trenders -> Refreshes] /\ OwnerKept BY DEF TrendingInv, TrendingTyped
<1> QED BY <1>1 DEF OwnerKept, Doing

LEMMA MovesUpdates ==
  ASSUME TrendingTyped, NEW w \in Trenders, NEW pc \in Stages, Moves(w, pc)
  PROVE  \E r \in Refreshes : /\ worker' = [worker EXCEPT ![w] = r] /\ r.pc = pc /\ r.force = worker[w].force
                              /\ r.page = worker[w].page /\ r.at = worker[w].at
<1>1. worker[w] \in Refreshes BY DEF TrendingTyped
<1> DEFINE r == [worker[w] EXCEPT !.pc = pc]
<1>2. r \in Refreshes /\ r.pc = pc /\ r.force = worker[w].force /\ r.page = worker[w].page /\ r.at = worker[w].at
  BY <1>1 DEF Refreshes
<1>3. worker' = [worker EXCEPT ![w] = r] BY DEF Moves
<1> QED BY <1>2, <1>3

LEMMA CacheTyped ==
  ASSUME TrendingTyped, NEW w \in Trenders, Forgets(w)
  PROVE  retry' \in [Trenders -> Caches]
<1>1. EmptyCache \in Caches BY DEF EmptyCache, Caches
<1> QED BY <1>1 DEF Forgets, TrendingTyped

\* A worker that leaves, or goes on to fetch, has nothing to answer for.
LEMMA LeavesKept ==
  ASSUME NEW w \in Trenders, worker'[w].pc \in {"idle", "leave"}, worker'[w].at <= now'
  PROVE  RefreshKept(w)'
BY DEF RefreshKept, Sending, Doing

LEMMA SnapshotsStay ==
  ASSUME SnapshotsSound, UNCHANGED <<recorded, accepted>>
  PROVE  SnapshotsSound'
BY DEF SnapshotsSound, RecordedAccepted, SentOnce, Complete

LEMMA ClaimStep ==
  ASSUME TrendingInv, NEW w \in Trenders, Claim(w)
  PROVE  TrendingInv' /\ recorded' = recorded
<1>1. TrendingTyped /\ OwnerKept /\ CachesKept /\ SnapshotsSound BY DEF TrendingInv
<1>2. UNCHANGED <<now, recorded, retry, accepted, minted>> /\ now \in Nat BY <1>1 DEF Claim, TrendingTyped
<1>3. PICK force \in BOOLEAN :
        /\ RefreshDue(force) /\ owner' = {w}
        /\ worker' = [worker EXCEPT ![w] = [Unowned EXCEPT !.pc = "fetch", !.force = force]]
  BY DEF Claim
<1> DEFINE r == [Unowned EXCEPT !.pc = "fetch", !.force = force]
<1>4. r \in Refreshes /\ r.pc = "fetch" /\ r.force = force /\ r.at = 0
  BY DEF Unowned, Never, Refreshes, Successes, Stages
<1>5. worker' = [worker EXCEPT ![w] = r] BY <1>3
<1> HIDE DEF r
<1>6. worker' \in [Trenders -> Refreshes] /\ worker'[w] = r /\ \A v \in Trenders : v # w => worker'[v] = worker[v]
  BY <1>1, <1>4, <1>5 DEF TrendingTyped
<1>7. TrendingTyped' BY <1>1, <1>2, <1>6 DEF TrendingTyped
<1>8. OwnerKept'
  <2>1. owner = {} BY DEF Claim
  <2> QED BY <1>1, <1>3, <1>4, <1>6, <2>1 DEF OwnerKept, Doing
<1>9. RefreshKept(w)'
  <2>1. ~force => recorded = Never \/ now - recorded.observed >= FreshTicks BY <1>3 DEF RefreshDue
  <2>2. worker'[w].pc = "fetch" /\ worker'[w].force = force /\ worker'[w].at = 0 BY <1>4, <1>6
  <2>3. recorded' = recorded /\ now' = now BY <1>2
  <2> QED BY <1>2, <2>1, <2>2, <2>3 DEF RefreshKept, Sending, Doing
<1>10. \A v \in Trenders : RefreshKept(v)' BY <1>2, <1>6, <1>9, OthersKept
<1>11. CachesKept' /\ SnapshotsSound' BY <1>1, <1>2, CachesStay, SnapshotsStay
<1> QED BY <1>2, <1>7, <1>8, <1>10, <1>11 DEF TrendingInv

LEMMA FetchStep ==
  ASSUME TrendingInv, NEW w \in Trenders, Fetch(w)
  PROVE  TrendingInv' /\ recorded' = recorded
<1> USE TrendingAssumption
<1>1. TrendingTyped /\ OwnerKept /\ CachesKept /\ SnapshotsSound /\ RefreshKept(w) BY DEF TrendingInv
<1>2. UNCHANGED <<now, recorded, owner, retry, accepted, minted>> /\ now \in Nat /\ Doing(w, "fetch")
      /\ worker[w] \in Refreshes
  BY <1>1 DEF Fetch, TrendingTyped
<1>3. PICK r \in Refreshes :
        /\ worker' = [worker EXCEPT ![w] = r] /\ r.pc # "idle" /\ r.at <= now
        /\ r.pc = "leave" \/ (r.pc = "workset" /\ r.page \in Pages /\ r.force = worker[w].force)
  <2>1. CASE Moves(w, "leave")
    <3>1. "leave" \in Stages BY DEF Stages
    <3>2. PICK r \in Refreshes : worker' = [worker EXCEPT ![w] = r] /\ r.pc = "leave" /\ r.at = worker[w].at
      BY <1>1, <2>1, <3>1, MovesUpdates
    <3> QED BY <1>1, <3>2 DEF RefreshKept
  <2>2. ASSUME NEW page \in Pages,
               worker' = [worker EXCEPT ![w].pc = "workset", ![w].page = page, ![w].at = now, ![w].attempt = 1]
        PROVE  \E r \in Refreshes : worker' = [worker EXCEPT ![w] = r] /\ r.pc = "workset" /\ r.at = now
                                    /\ r.page \in Pages /\ r.force = worker[w].force
    <3> DEFINE r == [worker[w] EXCEPT !.pc = "workset", !.page = page, !.at = now, !.attempt = 1]
    <3>1. r \in Refreshes /\ r.pc = "workset" /\ r.at = now /\ r.page = page /\ r.force = worker[w].force
      BY <1>2 DEF Refreshes, Stages
    <3>2. worker' = [worker EXCEPT ![w] = r] BY <1>1, <2>2 DEF TrendingTyped
    <3> QED BY <3>1, <3>2
  <2>3. Moves(w, "leave") \/ \E page \in Pages :
          worker' = [worker EXCEPT ![w].pc = "workset", ![w].page = page, ![w].at = now, ![w].attempt = 1]
    BY DEF Fetch
  <2>4. CASE ~Moves(w, "leave")
    <3>1. PICK r \in Refreshes : worker' = [worker EXCEPT ![w] = r] /\ r.pc = "workset" /\ r.at = now
                                 /\ r.page \in Pages /\ r.force = worker[w].force
      BY <2>2, <2>3, <2>4
    <3>2. r.pc # "idle" /\ r.at <= now BY <1>2, <3>1
    <3> QED BY <3>1, <3>2
  <2> QED BY <2>1, <2>4
<1>4. /\ OwnerKept' /\ worker' \in [Trenders -> Refreshes] /\ worker'[w] = r
      /\ \A v \in Trenders : v # w => worker'[v] = worker[v]
  BY <1>2, <1>3, OwnerMoves DEF Doing
<1>5. TrendingTyped' BY <1>1, <1>2, <1>4 DEF TrendingTyped
<1>6. RefreshKept(w)' BY <1>1, <1>2, <1>3, <1>4 DEF RefreshKept, Sending, Doing
<1>7. \A v \in Trenders : RefreshKept(v)' BY <1>2, <1>4, <1>6, OthersKept
<1>8. CachesKept' /\ SnapshotsSound' BY <1>1, <1>2, CachesStay, SnapshotsStay
<1> QED BY <1>2, <1>4, <1>5, <1>7, <1>8 DEF TrendingInv

LEMMA WorksetStep ==
  ASSUME TrendingInv, NEW w \in Trenders, Workset(w)
  PROVE  TrendingInv' /\ recorded' = recorded
<1> USE TrendingAssumption
<1>1. TrendingTyped /\ OwnerKept /\ CachesKept /\ SnapshotsSound /\ RefreshKept(w) BY DEF TrendingInv
<1>2. UNCHANGED <<now, recorded, owner, accepted>> /\ now \in Nat /\ minted \in Nat /\ Doing(w, "workset")
      /\ worker[w] \in Refreshes /\ retry[w] \in Caches
  BY <1>1 DEF Workset, TrendingTyped
<1>3. CachesKept' /\ minted' \in Nat BY WorksetCaches
<1>4. PICK pc \in {"leave", "enrich"} : Moves(w, pc) /\ (pc = "enrich" => retry' = [retry EXCEPT ![w] = Pending(w)])
        /\ (pc = "leave" => Forgets(w))
  BY DEF Workset
<1>5. PICK r \in Refreshes : /\ worker' = [worker EXCEPT ![w] = r] /\ r.pc = pc /\ r.force = worker[w].force
                             /\ r.page = worker[w].page /\ r.at = worker[w].at
  <2> pc \in Stages BY DEF Stages
  <2> QED BY <1>1, <1>4, MovesUpdates
<1>6. /\ OwnerKept' /\ worker' \in [Trenders -> Refreshes] /\ worker'[w] = r
      /\ \A v \in Trenders : v # w => worker'[v] = worker[v]
  BY <1>2, <1>5, OwnerMoves DEF Doing
<1>7. Pending(w) \in Caches /\ Pending(w).key = worker[w].page
  <2>1. now + CacheTicks \in Nat /\ minted + 1 \in Nat BY <1>2
  <2> QED BY <1>2, <2>1 DEF Pending, Caches, Refreshes
<1>8. retry' \in [Trenders -> Caches] /\ \A v \in Trenders : v # w => retry'[v] = retry[v]
  <2>1. CASE pc = "leave" BY <1>1, <1>4, <2>1, CacheTyped DEF Forgets, TrendingTyped
  <2>2. CASE pc = "enrich" BY <1>1, <1>4, <1>7, <2>2 DEF TrendingTyped
  <2> QED BY <2>1, <2>2
<1>9. TrendingTyped' BY <1>1, <1>2, <1>3, <1>6, <1>8 DEF TrendingTyped
<1>10. RefreshKept(w)'
  <2>1. CASE pc = "leave" BY <1>1, <1>2, <1>5, <1>6, <2>1, LeavesKept DEF RefreshKept
  <2>2. CASE pc = "enrich"
    <3>1. retry'[w].key = r.page BY <1>1, <1>4, <1>5, <1>7, <2>2 DEF TrendingTyped
    <3> QED BY <1>1, <1>2, <1>5, <1>6, <2>2, <3>1 DEF RefreshKept, Sending, Doing
  <2> QED BY <2>1, <2>2
<1>11. \A v \in Trenders : RefreshKept(v)' BY <1>2, <1>6, <1>8, <1>10, OthersKept
<1> QED BY <1>1, <1>2, <1>3, <1>6, <1>9, <1>11, SnapshotsStay DEF TrendingInv

LEMMA EnrichStep ==
  ASSUME TrendingInv, NEW w \in Trenders, Enrich(w)
  PROVE  TrendingInv' /\ recorded' = recorded
<1>1. TrendingTyped /\ OwnerKept /\ CachesKept /\ SnapshotsSound /\ RefreshKept(w) BY DEF TrendingInv
<1>2. UNCHANGED <<now, recorded, owner, accepted, minted>> /\ now \in Nat /\ Doing(w, "enrich")
      /\ worker[w] \in Refreshes /\ retry[w] \in Caches
  BY <1>1 DEF Enrich, TrendingTyped
<1>3. CachesKept' /\ retry'[w] \in Caches /\ retry'[w] = [retry[w] EXCEPT !.records = retry'[w].records] BY EnrichCaches
<1>4. PICK pc \in {"leave", "enriched"} : Moves(w, pc) BY DEF Enrich
<1>5. PICK r \in Refreshes : /\ worker' = [worker EXCEPT ![w] = r] /\ r.pc = pc /\ r.force = worker[w].force
                             /\ r.page = worker[w].page /\ r.at = worker[w].at
  <2> pc \in Stages BY DEF Stages
  <2> QED BY <1>1, <1>4, MovesUpdates
<1>6. /\ OwnerKept' /\ worker' \in [Trenders -> Refreshes] /\ worker'[w] = r
      /\ \A v \in Trenders : v # w => worker'[v] = worker[v]
  BY <1>2, <1>5, OwnerMoves DEF Doing
<1>7. retry' \in [Trenders -> Caches] /\ \A v \in Trenders : v # w => retry'[v] = retry[v]
  <2>1. PICK new : retry' = [retry EXCEPT ![w].records = new] BY DEF Enrich
  <2>2. DOMAIN retry' = Trenders /\ \A v \in Trenders : v # w => retry'[v] = retry[v] BY <1>1, <2>1 DEF TrendingTyped
  <2>3. retry' = [v \in Trenders |-> retry'[v]] BY <1>1, <2>1 DEF TrendingTyped
  <2> QED BY <1>1, <1>3, <2>2, <2>3 DEF TrendingTyped
<1>8. TrendingTyped' BY <1>1, <1>2, <1>6, <1>7 DEF TrendingTyped
<1>9. retry'[w].key = retry[w].key BY <1>2, <1>3 DEF Caches
<1>10. RefreshKept(w)' BY <1>1, <1>2, <1>5, <1>6, <1>9 DEF RefreshKept, Sending, Doing
<1>11. \A v \in Trenders : RefreshKept(v)' BY <1>2, <1>6, <1>7, <1>10, OthersKept
<1> QED BY <1>1, <1>2, <1>3, <1>6, <1>8, <1>11, SnapshotsStay DEF TrendingInv

\* A workset goes on to be published complete and not stale: then it is not
\* older than a recorded success that was already due.
LEMMA JudgeStep ==
  ASSUME TrendingInv, NEW w \in Trenders, JudgeWorkset(w)
  PROVE  TrendingInv' /\ recorded' = recorded
<1> USE TrendingAssumption
<1>1. TrendingTyped /\ OwnerKept /\ CachesKept /\ SnapshotsSound /\ RefreshKept(w) BY DEF TrendingInv
<1>2. UNCHANGED <<now, recorded, owner, accepted, minted>> /\ now \in Nat /\ minted \in Nat /\ Doing(w, "enriched")
      /\ worker[w] \in Refreshes /\ retry[w] \in Caches /\ recorded \in Successes
  BY <1>1 DEF JudgeWorkset, TrendingTyped
<1>3. PICK r \in Refreshes :
        /\ worker' = [worker EXCEPT ![w] = r] /\ r.pc \in {"leave", "workset", "publish"}
        /\ r.force = worker[w].force /\ r.page = worker[w].page /\ r.at = worker[w].at
        /\ retry' = retry \/ (Forgets(w) /\ r.pc = "leave")
        /\ r.pc = "publish" => Missing(w) = {} /\ ~Stale(retry[w]) /\ retry' = retry
  <2>1. CASE Missing(w) # {}
    <3>1. CASE worker' = [worker EXCEPT ![w].pc = "workset", ![w].attempt = @ + 1]
      <4> DEFINE r == [worker[w] EXCEPT !.pc = "workset", !.attempt = worker[w].attempt + 1]
      <4>1. r \in Refreshes /\ r.pc = "workset" /\ r.at = worker[w].at /\ r.page = worker[w].page
            /\ r.force = worker[w].force
        <5>1. worker[w].attempt + 1 \in Nat BY <1>2 DEF Refreshes
        <5>2. "workset" \in Stages BY DEF Stages
        <5> QED BY <1>2, <5>1, <5>2 DEF Refreshes
      <4>2. worker' = [worker EXCEPT ![w] = r] BY <1>1, <3>1 DEF TrendingTyped
      <4>3. retry' = retry BY <2>1 DEF JudgeWorkset
      <4> HIDE DEF r
      <4> QED BY <4>1, <4>2, <4>3
    <3>2. CASE Moves(w, "leave")
      <4>1. "leave" \in Stages BY DEF Stages
      <4>2. PICK r \in Refreshes : /\ worker' = [worker EXCEPT ![w] = r] /\ r.pc = "leave" /\ r.force = worker[w].force
                                   /\ r.page = worker[w].page /\ r.at = worker[w].at
        BY <1>1, <3>2, <4>1, MovesUpdates
      <4>3. retry' = retry BY <2>1 DEF JudgeWorkset
      <4> QED BY <4>2, <4>3
    <3> QED BY <2>1, <3>1, <3>2 DEF JudgeWorkset, Moves
  <2>2. CASE Missing(w) = {} /\ Stale(retry[w])
    <3>1. "leave" \in Stages BY DEF Stages
    <3>2. Moves(w, "leave") /\ Forgets(w) BY <2>2 DEF JudgeWorkset
    <3>3. PICK r \in Refreshes : /\ worker' = [worker EXCEPT ![w] = r] /\ r.pc = "leave" /\ r.force = worker[w].force
                                 /\ r.page = worker[w].page /\ r.at = worker[w].at
      BY <1>1, <3>1, <3>2, MovesUpdates
    <3> QED BY <3>2, <3>3
  <2>3. CASE Missing(w) = {} /\ ~Stale(retry[w])
    <3>1. "publish" \in Stages BY DEF Stages
    <3>2. Moves(w, "publish") /\ retry' = retry BY <2>3 DEF JudgeWorkset
    <3>3. PICK r \in Refreshes : /\ worker' = [worker EXCEPT ![w] = r] /\ r.pc = "publish" /\ r.force = worker[w].force
                                 /\ r.page = worker[w].page /\ r.at = worker[w].at
      BY <1>1, <3>1, <3>2, MovesUpdates
    <3> QED BY <2>3, <3>2, <3>3
  <2> QED BY <2>1, <2>2, <2>3
<1>4. /\ OwnerKept' /\ worker' \in [Trenders -> Refreshes] /\ worker'[w] = r
      /\ \A v \in Trenders : v # w => worker'[v] = worker[v]
  <2> r.pc # "idle" BY <1>3
  <2> QED BY <1>2, <1>3, OwnerMoves DEF Doing
<1>5. retry' \in [Trenders -> Caches] /\ CachesKept' /\ \A v \in Trenders : v # w => retry'[v] = retry[v]
  <2>1. CASE retry' = retry BY <1>1, <1>2, <2>1, CachesStay DEF TrendingTyped
  <2>2. CASE Forgets(w)
    <3>1. retry' \in [Trenders -> Caches] BY <1>1, <2>2, CacheTyped
    <3>2. CachesKept' BY <1>1, <1>2, <2>2, CachesForgotten
    <3> QED BY <1>1, <2>2, <3>1, <3>2 DEF Forgets, TrendingTyped
  <2> QED BY <1>3, <2>1, <2>2
<1>6. TrendingTyped' BY <1>1, <1>2, <1>4, <1>5 DEF TrendingTyped
<1>7. RefreshKept(w)'
  <2>1. CASE r.pc = "leave" BY <1>1, <1>2, <1>3, <1>4, <2>1, LeavesKept DEF RefreshKept
  <2>2. CASE r.pc = "workset" BY <1>1, <1>2, <1>3, <1>4, <2>2 DEF RefreshKept, Sending, Doing
  <2>3. CASE r.pc = "publish"
    <3>1. Missing(w)' = {} /\ retry'[w] = retry[w] BY <1>3, <1>4, <2>3 DEF Missing
    <3>2. now - retry[w].observed < StaleTicks BY <1>2, <1>3, <2>3 DEF Stale, Caches
    <3>3. ~worker[w].force => recorded = Never \/ now - recorded.observed >= FreshTicks
      BY <1>1, <1>2 DEF RefreshKept, Doing
    <3>4. ~worker[w].force => retry[w].observed >= recorded.observed
      BY <1>2, <3>2, <3>3 DEF Caches, Successes, Never
    <3>5. worker[w].at <= now /\ worker[w].page \in Pages /\ retry[w].key = worker[w].page
      BY <1>1, <1>2 DEF RefreshKept, Sending, Doing
    <3>6. worker'[w].pc = "publish" /\ worker'[w].force = worker[w].force /\ worker'[w].page = worker[w].page
          /\ worker'[w].at = worker[w].at
      BY <1>3, <1>4, <2>3
    <3> QED BY <1>2, <3>1, <3>3, <3>4, <3>5, <3>6 DEF RefreshKept, Sending, Doing
  <2> QED BY <1>3, <2>1, <2>2, <2>3
<1>8. \A v \in Trenders : RefreshKept(v)' BY <1>2, <1>4, <1>5, <1>7, OthersKept
<1> QED BY <1>1, <1>2, <1>4, <1>5, <1>6, <1>8, SnapshotsStay DEF TrendingInv

LEMMA PublishStep ==
  ASSUME TrendingInv, NEW w \in Trenders, Publish(w)
  PROVE  TrendingInv' /\ recorded' = recorded
<1>1. TrendingTyped /\ OwnerKept /\ RefreshKept(w) BY DEF TrendingInv
<1>2. UNCHANGED <<now, recorded, owner, retry, minted>> /\ now \in Nat /\ Doing(w, "publish") /\ worker[w] \in Refreshes
  BY <1>1 DEF Publish, TrendingTyped
<1>3. CachesKept' /\ SnapshotsSound' /\ accepted \subseteq accepted' /\ accepted' \in SUBSET Snapshots
  BY PublishCaches
<1>4. PICK pc \in {"leave", "mark"} : Moves(w, pc) /\ (pc = "mark" => Snapshot(w) \in accepted')
  BY DEF Publish
<1>5. PICK r \in Refreshes : /\ worker' = [worker EXCEPT ![w] = r] /\ r.pc = pc /\ r.force = worker[w].force
                             /\ r.page = worker[w].page /\ r.at = worker[w].at
  <2> pc \in Stages BY DEF Stages
  <2> QED BY <1>1, <1>4, MovesUpdates
<1>6. /\ OwnerKept' /\ worker' \in [Trenders -> Refreshes] /\ worker'[w] = r
      /\ \A v \in Trenders : v # w => worker'[v] = worker[v]
  BY <1>2, <1>5, OwnerMoves DEF Doing
<1>7. TrendingTyped' BY <1>1, <1>2, <1>3, <1>6 DEF TrendingTyped
<1>8. RefreshKept(w)'
  <2> Snapshot(w)' = Snapshot(w) BY <1>2 DEF Snapshot
  <2> QED BY <1>1, <1>2, <1>4, <1>5, <1>6 DEF RefreshKept, Sending, Doing
<1>9. \A v \in Trenders : RefreshKept(v)' BY <1>2, <1>3, <1>6, <1>8, OthersKept
<1> QED BY <1>2, <1>3, <1>6, <1>7, <1>9 DEF TrendingInv

LEMMA MarkStep ==
  ASSUME TrendingInv, NEW w \in Trenders, MarkSuccess(w)
  PROVE  TrendingInv' /\ recorded' = recorded
<1>1. TrendingTyped /\ OwnerKept /\ CachesKept /\ SnapshotsSound /\ RefreshKept(w) BY DEF TrendingInv
<1>2. UNCHANGED <<now, recorded, owner, retry, accepted, minted>> /\ now \in Nat /\ Doing(w, "mark")
      /\ worker[w] \in Refreshes /\ retry[w] \in Caches /\ recorded \in Successes
  BY <1>1 DEF MarkSuccess, TrendingTyped
<1> DEFINE pc == IF retry[w].observed < recorded.observed THEN "leave" ELSE "replace"
           r == [worker[w] EXCEPT !.pc = pc, !.read = recorded]
<1>3. r \in Refreshes /\ r.pc = pc /\ r.at = worker[w].at /\ r.page = worker[w].page /\ r.force = worker[w].force
  <2> pc \in Stages BY DEF Stages
  <2> HIDE DEF pc
  <2> QED BY <1>2 DEF Refreshes
<1>4. worker' = [worker EXCEPT ![w] = r] BY <1>1 DEF MarkSuccess, TrendingTyped
<1>5. r.pc = "leave" \/ (r.pc = "replace" /\ retry[w].observed >= recorded.observed)
  BY <1>2, <1>3 DEF Caches, Successes
<1> HIDE DEF r, pc
<1>6. /\ OwnerKept' /\ worker' \in [Trenders -> Refreshes] /\ worker'[w] = r
      /\ \A v \in Trenders : v # w => worker'[v] = worker[v]
  BY <1>2, <1>3, <1>4, <1>5, OwnerMoves DEF Doing
<1>7. TrendingTyped' BY <1>1, <1>2, <1>6 DEF TrendingTyped
<1>8. RefreshKept(w)'
  <2> Snapshot(w)' = Snapshot(w) BY <1>2 DEF Snapshot
  <2> QED BY <1>1, <1>2, <1>3, <1>5, <1>6 DEF RefreshKept, Sending, Doing
<1>9. \A v \in Trenders : RefreshKept(v)' BY <1>2, <1>6, <1>8, OthersKept
<1> QED BY <1>1, <1>2, <1>6, <1>7, <1>9, CachesStay, SnapshotsStay DEF TrendingInv

\* The file is replaced by the holder of the lock, so that no other refresh
\* had looked at what it replaces.
LEMMA ReplaceStep ==
  ASSUME TrendingInv, NEW w \in Trenders, Replace(w)
  PROVE  TrendingInv' /\ RecordedForward
<1>1. TrendingTyped /\ OwnerKept /\ CachesKept /\ SnapshotsSound /\ RefreshKept(w) BY DEF TrendingInv
<1>2. UNCHANGED <<now, owner, accepted, minted>> /\ now \in Nat /\ minted \in Nat /\ Doing(w, "replace")
      /\ worker[w] \in Refreshes /\ retry[w] \in Caches /\ recorded \in Successes
      /\ recorded' = [id |-> retry[w].id, observed |-> retry[w].observed] /\ Forgets(w) /\ Moves(w, "leave")
  BY <1>1 DEF Replace, TrendingTyped
<1>3. retry[w].observed >= recorded.observed /\ Snapshot(w) \in accepted BY <1>1, <1>2 DEF RefreshKept, Doing
<1>4. RecordedForward BY <1>2, <1>3 DEF RecordedForward
<1>5. recorded' \in Successes BY <1>2 DEF Successes, Caches
<1>6. PICK r \in Refreshes : /\ worker' = [worker EXCEPT ![w] = r] /\ r.pc = "leave" /\ r.force = worker[w].force
                             /\ r.page = worker[w].page /\ r.at = worker[w].at
  <2> "leave" \in Stages BY DEF Stages
  <2> QED BY <1>1, <1>2, MovesUpdates
<1>7. /\ OwnerKept' /\ worker' \in [Trenders -> Refreshes] /\ worker'[w] = r
      /\ \A v \in Trenders : v # w => worker'[v] = worker[v]
  BY <1>2, <1>6, OwnerMoves DEF Doing
<1>8. retry' \in [Trenders -> Caches] /\ CachesKept' BY <1>1, <1>2, CacheTyped, CachesForgotten
<1>9. TrendingTyped' BY <1>1, <1>2, <1>5, <1>7, <1>8 DEF TrendingTyped
<1>10. SnapshotsSound'
  <2>1. RecordedAccepted' BY <1>2, <1>3 DEF RecordedAccepted, Snapshot
  <2>2. SentOnce' /\ Complete' BY <1>1, <1>2 DEF SnapshotsSound, SentOnce, Complete
  <2> QED BY <2>1, <2>2 DEF SnapshotsSound
<1>11. \A v \in Trenders : RefreshKept(v)'
  <2> TAKE v \in Trenders
  <2>1. worker'[v].at <= now' BY <1>1, <1>2, <1>6, <1>7 DEF TrendingInv, RefreshKept
  <2>2. worker'[v].pc \in {"idle", "leave"}
    <3>1. CASE v = w BY <1>6, <1>7, <3>1
    <3>2. CASE v # w
      <4>1. w \in owner BY <1>1, <1>2 DEF OwnerKept, Doing
      <4>2. v \notin owner BY <1>1, <3>2, <4>1 DEF OwnerKept
      <4>3. Doing(v, "idle") BY <1>1, <4>2 DEF OwnerKept
      <4> QED BY <1>7, <3>2, <4>3 DEF Doing
    <3> QED BY <3>1, <3>2
  <2> QED BY <2>1, <2>2, LeavesKept
<1> QED BY <1>4, <1>7, <1>8, <1>9, <1>10, <1>11 DEF TrendingInv

\* A worker that is through, or was stopped at any point, is idle again.
LEMMA IdleAgain ==
  ASSUME TrendingInv, NEW w \in Trenders, owner' = owner \ {w}, worker' = [worker EXCEPT ![w] = Unowned],
         retry' = retry \/ Forgets(w), UNCHANGED <<now, recorded, accepted, minted>>
  PROVE  TrendingInv'
<1>1. TrendingTyped /\ OwnerKept /\ CachesKept /\ SnapshotsSound /\ now \in Nat /\ minted \in Nat
  BY DEF TrendingInv, TrendingTyped
<1>2. Unowned \in Refreshes /\ Unowned.pc = "idle" /\ Unowned.at = 0
  BY DEF Unowned, Refreshes, Successes, Stages, Never
<1>3. worker' \in [Trenders -> Refreshes] /\ worker'[w] = Unowned /\ \A v \in Trenders : v # w => worker'[v] = worker[v]
  BY <1>1, <1>2 DEF TrendingTyped
<1>4. retry' \in [Trenders -> Caches] /\ CachesKept' /\ \A v \in Trenders : v # w => retry'[v] = retry[v]
  <2>1. CASE retry' = retry BY <1>1, <2>1, CachesStay DEF TrendingTyped
  <2>2. CASE Forgets(w)
    <3> retry' \in [Trenders -> Caches] /\ CachesKept' BY <1>1, <2>2, CacheTyped, CachesForgotten
    <3> QED BY <1>1, <2>2 DEF Forgets, TrendingTyped
  <2> QED BY <2>1, <2>2
<1>5. TrendingTyped' BY <1>1, <1>3, <1>4 DEF TrendingTyped
<1>6. OwnerKept' BY <1>1, <1>2, <1>3 DEF OwnerKept, Doing
<1>7. \A v \in Trenders : RefreshKept(v)'
  <2> TAKE v \in Trenders
  <2>1. CASE v = w BY <1>1, <1>2, <1>3, <2>1, LeavesKept
  <2>2. CASE v # w BY <1>1, <1>3, <1>4, <2>2, OthersKept
  <2> QED BY <2>1, <2>2
<1> QED BY <1>1, <1>4, <1>5, <1>6, <1>7, SnapshotsStay DEF TrendingInv

LEMMA TickStep ==
  ASSUME TrendingInv, Tick
  PROVE  TrendingInv'
<1>1. TrendingTyped /\ OwnerKept /\ CachesKept /\ SnapshotsSound /\ now \in Nat BY DEF TrendingInv, TrendingTyped
<1>2. now' = now + 1 /\ UNCHANGED <<recorded, owner, worker, retry, accepted, minted>> BY DEF Tick
<1>3. TrendingTyped' BY <1>1, <1>2 DEF TrendingTyped
<1>4. OwnerKept' BY <1>1, <1>2 DEF OwnerKept, Doing
<1>5. CachesKept' BY <1>1, <1>2, CachesStay
<1>6. \A v \in Trenders : RefreshKept(v)' BY <1>1, <1>2, OthersKept
<1> QED BY <1>1, <1>2, <1>3, <1>4, <1>5, <1>6, SnapshotsStay DEF TrendingInv

LEMMA TrendingSteps ==
  ASSUME TrendingInv, [TrendingNext]_trendingVars
  PROVE  TrendingInv' /\ RecordedForward
<1>1. recorded.observed \in Int BY DEF TrendingInv, TrendingTyped, Successes
<1>2. recorded' = recorded => RecordedForward BY <1>1 DEF RecordedForward
<1>3. ASSUME NEW w \in Trenders, Claim(w) PROVE TrendingInv' /\ RecordedForward BY <1>2, <1>3, ClaimStep
<1>4. ASSUME NEW w \in Trenders, Fetch(w) PROVE TrendingInv' /\ RecordedForward BY <1>2, <1>4, FetchStep
<1>5. ASSUME NEW w \in Trenders, Workset(w) PROVE TrendingInv' /\ RecordedForward BY <1>2, <1>5, WorksetStep
<1>6. ASSUME NEW w \in Trenders, Enrich(w) PROVE TrendingInv' /\ RecordedForward BY <1>2, <1>6, EnrichStep
<1>7. ASSUME NEW w \in Trenders, JudgeWorkset(w) PROVE TrendingInv' /\ RecordedForward BY <1>2, <1>7, JudgeStep
<1>8. ASSUME NEW w \in Trenders, Publish(w) PROVE TrendingInv' /\ RecordedForward BY <1>2, <1>8, PublishStep
<1>9. ASSUME NEW w \in Trenders, MarkSuccess(w) PROVE TrendingInv' /\ RecordedForward BY <1>2, <1>9, MarkStep
<1>10. ASSUME NEW w \in Trenders, Replace(w) PROVE TrendingInv' /\ RecordedForward BY <1>10, ReplaceStep
<1>11. ASSUME NEW w \in Trenders, Leave(w) PROVE TrendingInv' /\ RecordedForward
  BY <1>2, <1>11, IdleAgain DEF Leave
<1>12. ASSUME NEW w \in Trenders, Restart(w) PROVE TrendingInv' /\ RecordedForward
  BY <1>2, <1>12, IdleAgain DEF Restart
<1>13. CASE Tick BY <1>2, <1>13, TickStep DEF Tick
<1>14. CASE UNCHANGED trendingVars
  <2>1. UNCHANGED <<now, recorded, owner, worker, retry, accepted, minted>> BY <1>14 DEF trendingVars
  <2>2. TrendingTyped /\ OwnerKept /\ CachesKept /\ SnapshotsSound /\ now \in Nat BY DEF TrendingInv, TrendingTyped
  <2>3. TrendingTyped' /\ OwnerKept' BY <2>1, <2>2 DEF TrendingTyped, OwnerKept, Doing
  <2>4. \A v \in Trenders : RefreshKept(v)' BY <2>1, <2>2, OthersKept
  <2>5. CachesKept' BY <2>1, <2>2, CachesStay
  <2> QED BY <1>2, <2>1, <2>2, <2>3, <2>4, <2>5, SnapshotsStay DEF TrendingInv
<1> QED
  BY <1>3, <1>4, <1>5, <1>6, <1>7, <1>8, <1>9, <1>10, <1>11, <1>12, <1>13, <1>14 DEF TrendingNext

\* What the state file says can be trusted, whichever worker wrote it, was
\* stopped or retried: it is of a snapshot the backend accepted, every
\* snapshot is one and complete, and the recorded freshness never goes back.
THEOREM FreshnessTheorem == TrendingSpec => FreshnessHonest
<1> USE TrendingStarts, TrendingSteps
<1>1. TrendingSpec => []TrendingInv BY PTL DEF TrendingSpec
<1>2. TrendingInv => RecordedAccepted /\ SentOnce /\ Complete /\ UnforcedDue
  BY UnforcedFollows DEF TrendingInv, SnapshotsSound
<1>3. TrendingSpec => [](RecordedAccepted /\ SentOnce /\ Complete /\ UnforcedDue) BY <1>1, <1>2, PTL
<1>4. TrendingInv /\ [TrendingNext]_trendingVars => [RecordedForward]_trendingVars OBVIOUS
<1>5. TrendingSpec => [][RecordedForward]_trendingVars BY <1>1, <1>4, PTL DEF TrendingSpec
<1> QED BY <1>3, <1>5 DEF FreshnessHonest

-----------------------------------------------------------------------------
(* A repository's point *)

RepositorySpec == RepositoryInit /\ [][RepositoryNext]_repositoryVars

Hashes == {"none"} \cup {Hash[j] : j \in EmbedJobs}
Holders == JobIds \cup {Unlocked}
Lives == [at : Nat, archived : {FALSE} \cup {Observation[j].archived : j \in JobIds}, tryAt : Nat,
          tried : {"none"} \cup {Observation[j].status : j \in JobIds}]
CardSummaries == [of : Hashes, source : {"none", "generated", "fallback"}]
Points == [content : Nat, contentJob : Holders, hash : Hashes, feature : Nat, featureJob : Holders, counts : Holders,
           life : Lives, summary : CardSummaries]
JobStages == {"idle", "read", "write", "reread", "check", "life", "life_read", "life_check",
              "summarize", "summary", "summary_read", "summary_check"}
Works == [pc : JobStages, read : Points, next : Points, seen : Points]
Drafts == [kind : {"content", "life", "summary", "features"}, read : Points, next : Points]

\* The parts of a point belong together: a revision is that of the job it
\* names, the summary that of the content, the counts those of the features.
PointOk(p) ==
  /\ p = NoPoint \/ (p.contentJob \in EmbedJobs /\ p.content = Version[p.contentJob] /\ p.hash = Hash[p.contentJob])
  /\ \/ p.featureJob = Unlocked /\ p.feature = 0
     \/ p.featureJob \in RefreshJobs /\ p.feature = Version[p.featureJob]
  /\ p.summary.of = p.hash /\ (p.feature > 0 => p.counts = p.featureJob)

\* A point is ahead of another one: nothing the other says was taken back.
Later(l, m) == l.at >= m.at /\ l.tryAt >= m.tryAt /\ (l.at = m.at => l.archived = m.archived)
Ahead(q, p) ==
  /\ q.content >= p.content
  /\ q.content = p.content => q.contentJob = p.contentJob /\ q.hash = p.hash
  /\ q.feature >= p.feature
  /\ q.feature = p.feature => q.featureJob = p.featureJob
  /\ Later(q.life, p.life)

\* A write that was prepared from a point the store had at some time.
DraftOk(kind, r, n, p) ==
  /\ PointOk(r) /\ Ahead(p, r)
  /\ kind # "content" => r # NoPoint
  /\ kind = "content" =>
       PointOk(n) /\ n # NoPoint /\ n.content > r.content /\ n.feature = r.feature /\ n.featureJob = r.featureJob
  /\ kind = "features" =>
       n.feature > r.feature /\ n.featureJob \in RefreshJobs /\ n.feature = Version[n.featureJob] /\ n.counts = n.featureJob
  /\ kind \in {"content", "life", "features"} => Later(n.life, r.life)
  /\ kind = "summary" => n.summary.of = r.hash

\* The point holds a job's observation, or its version, or something newer.
Heard(j, l) == (Verified(j) => l.at >= Observation[j].at) /\ l.tryAt >= Observation[j].at
Met(j, p) == (j \in EmbedJobs => p.content >= Version[j]) /\ (j \in RefreshJobs => p.feature >= Version[j])

\* What a job knows at each of its stages.
JobOk(j, k, p) ==
  /\ k.pc = "life" => DraftOk("life", k.read, k.next, p)
  /\ k.pc = "summary" => DraftOk("summary", k.read, k.next, p)
  /\ k.pc = "write" => DraftOk(IF j \in EmbedJobs THEN "content" ELSE "features", k.read, k.next, p)
  /\ k.pc \in {"write", "reread", "check", "life", "life_read", "life_check"} => Heard(j, k.next.life)
  /\ k.pc \in {"life", "life_read", "life_check", "summarize", "summary", "summary_read", "summary_check"} =>
       PointOk(k.read) /\ k.read # NoPoint /\ Ahead(p, k.read) /\ Met(j, k.read) /\ (j \in EmbedJobs => k.read.hash = Hash[j])
  /\ k.pc \in {"summarize", "summary", "summary_read", "summary_check"} => Heard(j, k.read.life) /\ j \in EmbedJobs
  /\ k.pc \in {"check", "life_check", "summary_check"} => PointOk(k.seen) /\ Ahead(p, k.seen)

Promised(j, p) == Met(j, p) /\ Heard(j, p.life)

RepositoryInv ==
  /\ point \in Points /\ PointOk(point)
  /\ work \in [JobIds -> Works] /\ late \subseteq Drafts /\ promised \subseteq JobIds
  /\ \A j \in JobIds : JobOk(j, work[j], point)
  /\ \A d \in late : DraftOk(d.kind, d.read, d.next, point)
  /\ \A j \in promised : Promised(j, point)

LEMMA NothingIndexed == NoPoint \in Points /\ PointOk(NoPoint) /\ \A p \in Points : PointOk(p) /\ p # NoPoint => p.content > 0
<1> USE RepositoryAssumption
<1>1. NoPoint \in Points BY DEF NoPoint, Points, Hashes, Holders, Lives, CardSummaries
<1>2. PointOk(NoPoint) BY DEF PointOk, NoPoint
<1>3. \A p \in Points : PointOk(p) /\ p # NoPoint => p.content > 0 BY DEF PointOk, JobIds
<1> QED BY <1>1, <1>2, <1>3

LEMMA AheadOfItself == \A p \in Points : Ahead(p, p)
BY DEF Ahead, Later, Points, Lives

LEMMA AheadOfBoth ==
  ASSUME NEW p \in Points, NEW q \in Points, NEW r \in Points, Ahead(q, p), Ahead(p, r)
  PROVE  Ahead(q, r)
<1>1. Later(q.life, r.life) BY DEF Ahead, Later, Points, Lives
<1>2. q.content >= r.content /\ q.feature >= r.feature BY DEF Ahead, Points
<1>3. q.content = r.content => q.content = p.content /\ p.content = r.content BY DEF Ahead, Points
<1>4. q.feature = r.feature => q.feature = p.feature /\ p.feature = r.feature BY DEF Ahead, Points
<1> QED BY <1>1, <1>2, <1>3, <1>4 DEF Ahead

LEMMA DraftStays ==
  ASSUME NEW p \in Points, NEW q \in Points, Ahead(q, p), NEW kind, NEW r \in Points, NEW n \in Points, DraftOk(kind, r, n, p)
  PROVE  DraftOk(kind, r, n, q)
<1>1. Ahead(q, r) BY AheadOfBoth DEF DraftOk
<1> QED BY <1>1 DEF DraftOk

LEMMA JobStays ==
  ASSUME NEW p \in Points, NEW q \in Points, Ahead(q, p), NEW j \in JobIds, NEW k \in Works, JobOk(j, k, p)
  PROVE  JobOk(j, k, q)
<1>1. k.read \in Points /\ k.next \in Points /\ k.seen \in Points BY DEF Works
<1>2. \A r \in Points : Ahead(p, r) => Ahead(q, r) BY AheadOfBoth
<1>3. \A kind : DraftOk(kind, k.read, k.next, p) => DraftOk(kind, k.read, k.next, q) BY <1>1, DraftStays
<1> QED BY <1>1, <1>2, <1>3 DEF JobOk

LEMMA PromiseStays ==
  ASSUME NEW p \in Points, NEW q \in Points, Ahead(q, p), NEW j \in JobIds, Promised(j, p)
  PROVE  Promised(j, q)
<1> USE RepositoryAssumption
<1>1. Version[j] \in Nat /\ Observation[j].at \in Nat BY DEF Unobserved
<1>2. /\ q.content \in Nat /\ p.content \in Nat /\ q.feature \in Nat /\ p.feature \in Nat
      /\ q.life.at \in Nat /\ q.life.tryAt \in Nat /\ p.life.at \in Nat /\ p.life.tryAt \in Nat
  BY DEF Points, Lives
<1> QED BY <1>1, <1>2 DEF Promised, Met, Heard, Ahead, Later

LEMMA ObservedAt == \A j \in JobIds : Version[j] \in Nat /\ Version[j] > 0 /\ Observation[j].at \in Nat
BY RepositoryAssumption DEF Unobserved

-----------------------------------------------------------------------------
(* Writes *)

\* However late it lands, a write moves the point ahead or leaves it.
LEMMA WriteAhead ==
  ASSUME NEW p \in Points, PointOk(p), NEW r \in Points, NEW n \in Points,
         NEW kind \in {"content", "life", "summary", "features"}, DraftOk(kind, r, n, p)
  PROVE  /\ Applied(kind, p, r, n) \in Points /\ PointOk(Applied(kind, p, r, n))
         /\ Ahead(Applied(kind, p, r, n), p)
<1> SUFFICES ASSUME NEW q, q = Applied(kind, p, r, n) PROVE q \in Points /\ PointOk(q) /\ Ahead(q, p)
  OBVIOUS
<1>1. CASE q = p BY <1>1, AheadOfItself
<1>2. CASE q # p
  <2>1. ~(kind = "content" /\ r = NoPoint /\ p # NoPoint) /\ (r # NoPoint => Unmoved(kind, p, r))
    BY <1>2 DEF Applied
  <2>2. PointOk(r) /\ Ahead(p, r) BY DEF DraftOk
  <2>3. kind # "content" => r # NoPoint /\ p # NoPoint
    <3>1. r # NoPoint => r.content > 0 BY <2>2, NothingIndexed
    <3>2. r # NoPoint => p.content > 0 BY <2>2, <3>1 DEF Ahead, Points
    <3>3. NoPoint.content = 0 BY DEF NoPoint
    <3> QED BY <3>2, <3>3 DEF DraftOk
  <2>4. CASE kind = "content"
    <3>1. q = n BY <2>1, <2>4 DEF Applied
    <3>2. PointOk(n) /\ n.content > r.content /\ n.feature = r.feature /\ n.featureJob = r.featureJob /\ Later(n.life, r.life)
      BY <2>4 DEF DraftOk
    <3>3. p.content = r.content /\ p.feature = r.feature /\ p.featureJob = r.featureJob /\ p.life = r.life
      BY <2>1, <2>4 DEF Unmoved
    <3>4. Ahead(n, p) BY <3>2, <3>3 DEF Ahead, Points
    <3> QED BY <3>1, <3>2, <3>4
  <2>5. CASE kind = "features"
    <3>1. q = [p EXCEPT !.feature = n.feature, !.featureJob = n.featureJob, !.counts = n.counts, !.life = n.life]
      BY <2>1, <2>3, <2>5 DEF Applied
    <3>2. /\ q \in Points /\ q.content = p.content /\ q.contentJob = p.contentJob /\ q.hash = p.hash /\ q.summary = p.summary
          /\ q.feature = n.feature /\ q.featureJob = n.featureJob /\ q.counts = n.counts /\ q.life = n.life
      BY <3>1 DEF Points
    <3>3. /\ n.feature > r.feature /\ n.featureJob \in RefreshJobs /\ n.feature = Version[n.featureJob]
          /\ n.counts = n.featureJob /\ Later(n.life, r.life)
      BY <2>5 DEF DraftOk
    <3>4. p.feature = r.feature /\ p.life = r.life BY <2>1, <2>3, <2>5 DEF Unmoved
    <3>5. PointOk(q) BY <2>3, <2>5, <3>2, <3>3 DEF PointOk
    <3>6. Ahead(q, p) BY <3>2, <3>3, <3>4 DEF Ahead, Points
    <3> QED BY <3>2, <3>5, <3>6
  <2>6. CASE kind = "life"
    <3>1. q = [p EXCEPT !.life = n.life] BY <2>1, <2>3, <2>6 DEF Applied
    <3>2. /\ q \in Points /\ q.content = p.content /\ q.contentJob = p.contentJob /\ q.hash = p.hash /\ q.summary = p.summary
          /\ q.feature = p.feature /\ q.featureJob = p.featureJob /\ q.counts = p.counts /\ q.life = n.life
      BY <3>1 DEF Points
    <3>3. Later(n.life, r.life) /\ p.life = r.life BY <2>1, <2>3, <2>6 DEF DraftOk, Unmoved
    <3>4. PointOk(q) BY <2>3, <2>6, <3>2 DEF PointOk
    <3>5. Ahead(q, p) BY <3>2, <3>3 DEF Ahead, Points
    <3> QED BY <3>2, <3>4, <3>5
  <2>7. CASE kind = "summary"
    <3>1. q = [p EXCEPT !.summary = n.summary] BY <2>1, <2>3, <2>7 DEF Applied
    <3>2. /\ q \in Points /\ q.content = p.content /\ q.contentJob = p.contentJob /\ q.hash = p.hash /\ q.summary = n.summary
          /\ q.feature = p.feature /\ q.featureJob = p.featureJob /\ q.counts = p.counts /\ q.life = p.life
      BY <3>1 DEF Points
    <3>3. n.summary.of = p.hash BY <2>1, <2>2, <2>3, <2>7 DEF DraftOk, Unmoved, Ahead
    <3>4. PointOk(q) BY <2>3, <2>7, <3>2, <3>3 DEF PointOk
    <3>5. Later(q.life, p.life) BY <3>2 DEF Later, Points, Lives
    <3>6. Ahead(q, p) BY <3>2, <3>5 DEF Ahead, Points
    <3> QED BY <3>2, <3>4, <3>6
  <2> QED BY <2>4, <2>5, <2>6, <2>7
<1> QED BY <1>1, <1>2

\* A merged lifecycle holds the observation and is not before what it merged.
LEMMA MergedHeard ==
  ASSUME NEW j \in JobIds, NEW life \in Lives
  PROVE  Merged(j, life) \in Lives /\ Later(Merged(j, life), life) /\ Heard(j, Merged(j, life))
<1> DEFINE o == Observation[j]
           tried == IF o.at > life.tryAt \/ (o.at = life.tryAt /\ Verified(j))
                    THEN [life EXCEPT !.tryAt = o.at, !.tried = o.status] ELSE life
           m == Merged(j, life)
<1>1. o.at \in Nat /\ o.archived \in {FALSE} \cup {Observation[i].archived : i \in JobIds}
      /\ o.status \in {"none"} \cup {Observation[i].status : i \in JobIds}
  BY ObservedAt
<1>2. life.at \in Nat /\ life.tryAt \in Nat BY DEF Lives
<1>3. tried \in Lives /\ tried.at = life.at /\ tried.archived = life.archived /\ tried.tryAt >= life.tryAt
      /\ tried.tryAt >= o.at
  <2>1. CASE o.at > life.tryAt \/ (o.at = life.tryAt /\ Verified(j))
    <3>1. tried = [life EXCEPT !.tryAt = o.at, !.tried = o.status] BY <2>1
    <3> HIDE DEF tried
    <3>2. tried \in Lives /\ tried.at = life.at /\ tried.archived = life.archived /\ tried.tryAt = o.at
      BY <1>1, <3>1 DEF Lives
    <3> QED BY <1>1, <1>2, <2>1, <3>2
  <2>2. CASE ~(o.at > life.tryAt \/ (o.at = life.tryAt /\ Verified(j)))
    <3>1. tried = life BY <2>2
    <3> QED BY <1>1, <1>2, <2>2, <3>1
  <2> QED BY <2>1, <2>2
<1>4. CASE o = Unobserved
  <2>1. m = life BY <1>4 DEF Merged
  <2>2. ~Verified(j) /\ o.at = 0 BY <1>4 DEF Verified, Unobserved
  <2> QED BY <1>2, <2>1, <2>2 DEF Later, Heard
<1>5. CASE o # Unobserved /\ Verified(j) /\ o.at > life.at
  <2>1. m = [tried EXCEPT !.at = o.at, !.archived = o.archived] BY <1>5 DEF Merged
  <2> HIDE DEF tried
  <2>2. m \in Lives /\ m.at = o.at /\ m.tryAt = tried.tryAt BY <1>1, <1>3, <2>1 DEF Lives
  <2> QED BY <1>1, <1>2, <1>3, <1>5, <2>2 DEF Later, Heard
<1>6. CASE o # Unobserved /\ ~(Verified(j) /\ o.at > life.at)
  <2>1. m = tried BY <1>6 DEF Merged
  <2> HIDE DEF tried
  <2> QED BY <1>1, <1>2, <1>3, <1>6, <2>1 DEF Later, Heard
<1> QED BY <1>4, <1>5, <1>6

\* A job that is not to be applied is met by the point already.
LEMMA StatusMet ==
  ASSUME NEW j \in JobIds, NEW p \in Points, PointOk(p)
  PROVE  /\ Status(j, p) # "apply" => Met(j, p)
         /\ Status(j, p) = "apply" => IF j \in EmbedJobs THEN p.content < Version[j] ELSE p.feature < Version[j]
         /\ j \in EmbedJobs /\ Status(j, p) # "apply" => p # NoPoint
<1> USE RepositoryAssumption
<1>1. Version[j] \in Nat /\ Version[j] > 0 /\ p.content \in Nat /\ p.feature \in Nat BY ObservedAt DEF Points
<1>2. CASE j \in EmbedJobs
  <2>1. j \notin RefreshJobs BY <1>2
  <2>2. p.contentJob = j => p.content = Version[j] BY <1>2 DEF PointOk, NoPoint
  <2>3. Status(j, p) # "apply" => p.content >= Version[j] BY <1>1, <1>2, <2>2 DEF Status
  <2>4. Status(j, p) = "apply" => p.content < Version[j] BY <1>1, <1>2, <2>2 DEF Status
  <2>5. NoPoint.content = 0 BY DEF NoPoint
  <2> QED BY <1>1, <1>2, <2>1, <2>3, <2>4, <2>5 DEF Met
<1>3. CASE j \notin EmbedJobs
  <2>1. j \in RefreshJobs BY <1>3 DEF JobIds
  <2>2. p.featureJob = j => p.feature = Version[j] BY <2>1 DEF PointOk
  <2>3. Status(j, p) # "apply" => p.feature >= Version[j] BY <1>1, <1>3, <2>2 DEF Status
  <2>4. Status(j, p) = "apply" => p.feature < Version[j] BY <1>1, <1>3, <2>2 DEF Status
  <2> QED BY <1>3, <2>1, <2>3, <2>4 DEF Met
<1> QED BY <1>2, <1>3

-----------------------------------------------------------------------------
(* Steps *)

LEMMA RepositoryStarts == RepositoryInit => RepositoryInv
<1> SUFFICES ASSUME RepositoryInit PROVE RepositoryInv OBVIOUS
<1>1. NotWorking \in Works /\ NotWorking.pc = "idle" BY NothingIndexed DEF NotWorking, Works, JobStages
<1>2. \A j \in JobIds : JobOk(j, work[j], point) BY <1>1 DEF RepositoryInit, JobOk
<1> QED BY <1>1, <1>2, NothingIndexed DEF RepositoryInit, RepositoryInv

\* What holds of the jobs, the late writes and the promises before the point
\* moves ahead still holds after it.
LEMMA MovesAhead ==
  ASSUME RepositoryInv, point' \in Points, PointOk(point)', Ahead(point', point),
         work' \in [JobIds -> Works], \A i \in JobIds : JobOk(i, work'[i], point),
         late' \subseteq Drafts, \A d \in late' : DraftOk(d.kind, d.read, d.next, point),
         promised' \subseteq JobIds, \A i \in promised' : Promised(i, point)
  PROVE  RepositoryInv' /\ RepositoryForward
<1>0. PICK q \in Points : q = point' OBVIOUS
<1>1. point \in Points /\ Ahead(q, point) BY <1>0 DEF RepositoryInv
<1>2. \A i \in JobIds : JobOk(i, work'[i], q) BY <1>1, JobStays
<1>3. \A d \in late' : DraftOk(d.kind, d.read, d.next, q) BY <1>1, DraftStays DEF Drafts
<1>4. \A i \in promised' : Promised(i, q) BY <1>1, PromiseStays
<1>5. RepositoryForward BY <1>0, <1>1 DEF RepositoryForward, Ahead, Later
<1> QED BY <1>0, <1>2, <1>3, <1>4, <1>5 DEF RepositoryInv

\* A job goes to a new stage.
LEMMA JobTurn ==
  ASSUME RepositoryInv, NEW j \in JobIds, NEW k \in Works, JobOk(j, k, point), work' = [work EXCEPT ![j] = k],
         point' = point, late' = late,
         promised' = promised \/ (promised' = promised \cup {j} /\ Promised(j, point))
  PROVE  RepositoryInv' /\ RepositoryForward
<1>1. point' \in Points /\ PointOk(point)' /\ Ahead(point', point) BY AheadOfItself DEF RepositoryInv, PointOk
<1>2. work' \in [JobIds -> Works] /\ \A i \in JobIds : JobOk(i, work'[i], point) BY DEF RepositoryInv
<1>3. late' \subseteq Drafts /\ \A d \in late' : DraftOk(d.kind, d.read, d.next, point) BY DEF RepositoryInv
<1>4. promised' \subseteq JobIds /\ \A i \in promised' : Promised(i, point) BY DEF RepositoryInv
<1> QED BY <1>1, <1>2, <1>3, <1>4, MovesAhead

LEMMA NotWorkingOk == NotWorking \in Works /\ \A j \in JobIds : \A p \in Points : JobOk(j, NotWorking, p)
<1>1. NotWorking \in Works /\ NotWorking.pc = "idle" BY NothingIndexed DEF NotWorking, Works, JobStages
<1> QED BY <1>1 DEF JobOk

LEMMA StopsStep ==
  ASSUME RepositoryInv, NEW j \in JobIds, Stops(j), late' = late
  PROVE  RepositoryInv' /\ RepositoryForward
<1>1. point \in Points BY DEF RepositoryInv
<1>2. work' = [work EXCEPT ![j] = NotWorking] /\ UNCHANGED <<point, promised>> BY DEF Stops
<1> QED BY <1>1, <1>2, NotWorkingOk, JobTurn

LEMMA AcceptsStep ==
  ASSUME RepositoryInv, NEW j \in JobIds, Accepts(j), Promised(j, point)
  PROVE  RepositoryInv' /\ RepositoryForward
<1>1. point \in Points BY DEF RepositoryInv
<1>2. work' = [work EXCEPT ![j] = NotWorking] /\ UNCHANGED <<point, late>> /\
      (promised' = promised \/ promised' = promised \cup {j})
  BY DEF Accepts
<1> QED BY <1>1, <1>2, NotWorkingOk, JobTurn

LEMMA PreparesStep ==
  ASSUME RepositoryInv, NEW j \in JobIds, NEW pc \in JobStages, NEW r \in Points, NEW n \in Points, Prepares(j, pc, r, n),
         JobOk(j, [pc |-> pc, read |-> r, next |-> n, seen |-> NoPoint], point)
  PROVE  RepositoryInv' /\ RepositoryForward
<1> DEFINE k == [pc |-> pc, read |-> r, next |-> n, seen |-> NoPoint]
<1>1. k \in Works BY NothingIndexed DEF Works
<1>2. work' = [work EXCEPT ![j] = k] /\ UNCHANGED <<point, late, promised>> BY DEF Prepares
<1> QED BY <1>1, <1>2, JobTurn

LEMMA DeliverStep ==
  ASSUME RepositoryInv, NEW j \in JobIds, Deliver(j)
  PROVE  RepositoryInv' /\ RepositoryForward
<1> DEFINE k == [work[j] EXCEPT !.pc = "read"]
<1>1. work \in [JobIds -> Works] BY DEF RepositoryInv
<1>2. k \in Works /\ k.pc = "read" BY <1>1 DEF Works, JobStages
<1>3. work' = [work EXCEPT ![j] = k] BY <1>1 DEF Deliver, Goes
<1> HIDE DEF k
<1>4. JobOk(j, k, point) BY <1>2 DEF JobOk
<1> QED BY <1>2, <1>3, <1>4, JobTurn DEF Deliver

\* The kinds of writes, by the stage.
LEMMA WriteKind ==
  ASSUME NEW j \in JobIds, work[j].pc \in {"life", "summary", "write"}
  PROVE  /\ Kind(j) \in {"content", "life", "summary", "features"}
         /\ work[j].pc = "life" => Kind(j) = "life"
         /\ work[j].pc = "summary" => Kind(j) = "summary"
         /\ work[j].pc = "write" => Kind(j) = IF j \in EmbedJobs THEN "content" ELSE "features"
<1>1. CASE work[j].pc = "life" BY <1>1 DEF Kind, At
<1>2. CASE work[j].pc = "summary" BY <1>2 DEF Kind, At
<1>3. CASE work[j].pc = "write" BY <1>3 DEF Kind, At
<1> QED BY <1>1, <1>2, <1>3

LEMMA PendingDraft ==
  ASSUME RepositoryInv, NEW j \in JobIds, work[j].pc \in {"life", "summary", "write"}
  PROVE  DraftOk(Kind(j), work[j].read, work[j].next, point)
<1>1. JobOk(j, work[j], point) BY DEF RepositoryInv
<1> QED BY <1>1, WriteKind DEF JobOk

LEMMA WriteStep ==
  ASSUME RepositoryInv, NEW j \in JobIds, Write(j)
  PROVE  RepositoryInv' /\ RepositoryForward
<1>1. /\ work \in [JobIds -> Works] /\ point \in Points /\ PointOk(point) /\ JobOk(j, work[j], point)
      /\ work[j].pc \in {"life", "summary", "write"}
  BY DEF RepositoryInv, Write
<1>2. work[j] \in Works /\ work[j].read \in Points /\ work[j].next \in Points BY <1>1 DEF Works
<1>3. PICK kind \in {"content", "life", "summary", "features"} : kind = Kind(j) BY <1>1, WriteKind
<1>4. DraftOk(kind, work[j].read, work[j].next, point) BY <1>1, <1>3, PendingDraft
<1>5. PICK q : q = Applied(kind, point, work[j].read, work[j].next) OBVIOUS
<1>6. q \in Points /\ PointOk(q) /\ Ahead(q, point) BY <1>1, <1>2, <1>4, <1>5, WriteAhead
<1>7. point' = q BY <1>3, <1>5 DEF Write
<1>8. PICK pc \in JobStages :
        /\ work' = [work EXCEPT ![j].pc = pc]
        /\ work[j].pc = "life" => pc = "life_read"
        /\ work[j].pc = "summary" => pc = "summary_read"
        /\ work[j].pc = "write" => pc = "reread"
  <2> DEFINE c == CASE At(j, "life") -> "life_read" [] At(j, "summary") -> "summary_read" [] At(j, "write") -> "reread"
  <2>1. work' = [work EXCEPT ![j].pc = c] BY DEF Write, Goes
  <2>2. CASE work[j].pc = "life"
    <3> c = "life_read" BY <2>2 DEF At
    <3> QED BY <2>1, <2>2 DEF JobStages
  <2>3. CASE work[j].pc = "summary"
    <3> c = "summary_read" BY <2>3 DEF At
    <3> QED BY <2>1, <2>3 DEF JobStages
  <2>4. CASE work[j].pc = "write"
    <3> c = "reread" BY <2>4 DEF At
    <3> QED BY <2>1, <2>4 DEF JobStages
  <2> QED BY <1>1, <2>2, <2>3, <2>4
<1> DEFINE k == [work[j] EXCEPT !.pc = pc]
<1>9. k \in Works /\ k.pc = pc /\ k.read = work[j].read /\ k.next = work[j].next BY <1>2 DEF Works
<1>10. work' = [work EXCEPT ![j] = k] BY <1>1, <1>8
<1> HIDE DEF k
<1>11. JobOk(j, k, point) BY <1>1, <1>8, <1>9 DEF JobOk
<1>12. work' \in [JobIds -> Works] /\ \A i \in JobIds : JobOk(i, work'[i], point) BY <1>1, <1>9, <1>10, <1>11 DEF RepositoryInv
<1>13. late' = late /\ promised' = promised BY DEF Write
<1>14. PointOk(point)' BY <1>6, <1>7 DEF PointOk
<1> QED BY <1>6, <1>7, <1>12, <1>13, <1>14, MovesAhead DEF RepositoryInv

LEMMA TimeOutStep ==
  ASSUME RepositoryInv, NEW j \in JobIds, TimeOut(j)
  PROVE  RepositoryInv' /\ RepositoryForward
<1> DEFINE d == [kind |-> Kind(j), read |-> work[j].read, next |-> work[j].next]
<1>1. /\ work \in [JobIds -> Works] /\ point \in Points /\ work[j].pc \in {"life", "summary", "write"}
      /\ late' = late \cup {d} /\ work' = [work EXCEPT ![j] = NotWorking] /\ UNCHANGED <<point, promised>>
  BY DEF RepositoryInv, TimeOut, Stops
<1>2. d \in Drafts
  <2> Kind(j) \in {"content", "life", "summary", "features"} BY <1>1, WriteKind
  <2> QED BY <1>1 DEF Drafts, Works
<1>3. DraftOk(d.kind, d.read, d.next, point) BY <1>1, PendingDraft
<1>4. late' \subseteq Drafts /\ \A x \in late' : DraftOk(x.kind, x.read, x.next, point)
  BY <1>1, <1>2, <1>3 DEF RepositoryInv
<1>5. work' \in [JobIds -> Works] /\ \A i \in JobIds : JobOk(i, work'[i], point) BY <1>1, NotWorkingOk DEF RepositoryInv
<1>6. point' \in Points /\ PointOk(point)' /\ Ahead(point', point) BY <1>1, AheadOfItself DEF RepositoryInv, PointOk
<1> QED BY <1>1, <1>4, <1>5, <1>6, MovesAhead DEF RepositoryInv

LEMMA LandStep ==
  ASSUME RepositoryInv, NEW w \in late, Land(w)
  PROVE  RepositoryInv' /\ RepositoryForward
<1>1. /\ w \in Drafts /\ DraftOk(w.kind, w.read, w.next, point) /\ point \in Points /\ PointOk(point)
      /\ UNCHANGED <<work, promised>> /\ late' \subseteq late
  BY DEF RepositoryInv, Land
<1>2. PICK q : q = Applied(w.kind, point, w.read, w.next) OBVIOUS
<1>3. q \in Points /\ PointOk(q) /\ Ahead(q, point) BY <1>1, <1>2, WriteAhead DEF Drafts
<1>4. point' = q BY <1>2 DEF Land
<1>5. PointOk(point)' BY <1>3, <1>4 DEF PointOk
<1> QED BY <1>1, <1>3, <1>4, <1>5, MovesAhead DEF RepositoryInv

\* A point with another lifecycle, or another summary, is a point.
LEMMA PartChanged ==
  ASSUME NEW p \in Points, NEW life \in Lives, NEW summary \in CardSummaries
  PROVE  /\ [p EXCEPT !.life = life] \in Points /\ [p EXCEPT !.life = life].life = life
         /\ [p EXCEPT !.summary = summary] \in Points /\ [p EXCEPT !.summary = summary].summary = summary
BY DEF Points

LEMMA ObservesStep ==
  ASSUME RepositoryInv, NEW j \in JobIds, ObservesOnly(j, point), Met(j, point), point # NoPoint,
         j \in EmbedJobs => point.hash = Hash[j]
  PROVE  RepositoryInv' /\ RepositoryForward
<1>1. point \in Points /\ PointOk(point) /\ Ahead(point, point) /\ point.life \in Lives
  BY AheadOfItself DEF RepositoryInv, Points
<1> DEFINE m == Merged(j, point.life)
<1>2. m \in Lives /\ Later(m, point.life) /\ Heard(j, m) BY <1>1, MergedHeard
<1>3. CASE Stops(j) /\ UNCHANGED late BY <1>3, StopsStep
<1>4. CASE Prepares(j, "life", point, [point EXCEPT !.life = m])
  <2> SUFFICES ASSUME NEW n, n = [point EXCEPT !.life = m] PROVE RepositoryInv' /\ RepositoryForward OBVIOUS
  <2>1. n \in Points /\ n.life = m
    <3> DEFINE summary == [of |-> "none", source |-> "none"]
    <3>1. summary \in CardSummaries BY DEF CardSummaries, Hashes
    <3> QED BY <1>1, <1>2, <3>1, PartChanged
  <2> DEFINE k == [pc |-> "life", read |-> point, next |-> n, seen |-> NoPoint]
  <2>2. DraftOk("life", point, n, point) BY <1>1, <1>2, <2>1 DEF DraftOk
  <2>3. k.pc = "life" /\ k.read = point /\ k.next = n OBVIOUS
  <2>4. JobOk(j, k, point)
    <3> HIDE DEF k, m
    <3> QED BY <1>1, <1>2, <2>1, <2>2, <2>3 DEF JobOk
  <2>5. "life" \in JobStages BY DEF JobStages
  <2> QED BY <1>1, <1>4, <2>1, <2>4, <2>5, PreparesStep
<1>5. CASE m = point.life /\ j \in RefreshJobs /\ Accepts(j)
  <2> Promised(j, point) BY <1>2, <1>5 DEF Promised
  <2> QED BY <1>5, AcceptsStep
<1>6. CASE m = point.life /\ j \notin RefreshJobs /\ Prepares(j, "summarize", point, point)
  <2> DEFINE k == [pc |-> "summarize", read |-> point, next |-> point, seen |-> NoPoint]
  <2>1. k.pc = "summarize" /\ k.read = point OBVIOUS
  <2>2. JobOk(j, k, point)
    <3> HIDE DEF k, m
    <3> QED BY <1>1, <1>2, <1>6, <2>1 DEF JobOk, JobIds
  <2>3. "summarize" \in JobStages BY DEF JobStages
  <2> QED BY <1>1, <1>6, <2>2, <2>3, PreparesStep
<1> QED BY <1>3, <1>4, <1>5, <1>6 DEF ObservesOnly

LEMMA ReadEmbedStep ==
  ASSUME RepositoryInv, NEW j \in JobIds, ReadEmbed(j)
  PROVE  RepositoryInv' /\ RepositoryForward
<1> USE RepositoryAssumption
<1>1. /\ point \in Points /\ PointOk(point) /\ Ahead(point, point) /\ point.life \in Lives /\ j \in EmbedJobs
  BY AheadOfItself DEF RepositoryInv, Points, ReadEmbed
<1>2. \/ Stops(j) /\ UNCHANGED late
      \/ Status(j, point) # "apply" /\ point.hash = Hash[j] /\ ObservesOnly(j, point)
      \/ /\ Status(j, point) = "apply"
         /\ \E summary \in Summaries(j) : Prepares(j, "write", point, Embedded(j, point, summary))
  <2>1. CASE Status(j, point) = "older" BY <2>1 DEF ReadEmbed
  <2>2. CASE Status(j, point) = "apply" BY <2>2 DEF ReadEmbed
  <2>3. CASE Status(j, point) \in {"duplicate", "current"} BY <2>3 DEF ReadEmbed
  <2> QED BY <2>1, <2>2, <2>3 DEF Status
<1>3. CASE Stops(j) /\ UNCHANGED late BY <1>3, StopsStep
<1>4. CASE Status(j, point) # "apply" /\ point.hash = Hash[j] /\ ObservesOnly(j, point)
  BY <1>1, <1>4, StatusMet, ObservesStep
<1>5. ASSUME Status(j, point) = "apply", NEW summary \in Summaries(j),
             Prepares(j, "write", point, Embedded(j, point, summary))
      PROVE  RepositoryInv' /\ RepositoryForward
  <2> SUFFICES ASSUME NEW n, n = Embedded(j, point, summary) PROVE RepositoryInv' /\ RepositoryForward OBVIOUS
  <2> DEFINE m == Merged(j, point.life)
  <2>1. m \in Lives /\ Later(m, point.life) /\ Heard(j, m) BY <1>1, MergedHeard
  <2>2. Version[j] \in Nat /\ point.content < Version[j] BY <1>1, <1>5, StatusMet, ObservedAt
  <2>3. summary \in CardSummaries /\ summary.of = Hash[j] BY <1>1 DEF Summaries, CardSummaries, Hashes
  <2>4. n = [content |-> Version[j], contentJob |-> j, hash |-> Hash[j],
             feature |-> point.feature, featureJob |-> point.featureJob,
             counts |-> IF point.feature > 0 THEN point.counts ELSE j, life |-> m, summary |-> summary]
    BY DEF Embedded
  <2> HIDE DEF m
  <2>5. n \in Points BY <1>1, <2>1, <2>2, <2>3, <2>4 DEF Points, Hashes, Holders
  <2>6. /\ n.content = Version[j] /\ n.contentJob = j /\ n.hash = Hash[j] /\ n.feature = point.feature
        /\ n.featureJob = point.featureJob /\ (point.feature > 0 => n.counts = point.counts)
        /\ n.life = m /\ n.summary.of = Hash[j]
    BY <2>3, <2>4
  <2>7. PointOk(n) BY <1>1, <2>6 DEF PointOk
  <2>8. n # NoPoint BY <2>6 DEF NoPoint
  <2>9. DraftOk("content", point, n, point) BY <1>1, <2>1, <2>2, <2>6, <2>7, <2>8 DEF DraftOk, Points
  <2> DEFINE k == [pc |-> "write", read |-> point, next |-> n, seen |-> NoPoint]
  <2>10. k.pc = "write" /\ k.read = point /\ k.next = n OBVIOUS
  <2>11. JobOk(j, k, point)
    <3> HIDE DEF k
    <3> QED BY <1>1, <2>1, <2>6, <2>9, <2>10 DEF JobOk
  <2>12. "write" \in JobStages BY DEF JobStages
  <2> QED BY <1>1, <1>5, <2>5, <2>11, <2>12, PreparesStep
<1> QED BY <1>2, <1>3, <1>4, <1>5

LEMMA ReadRefreshStep ==
  ASSUME RepositoryInv, NEW j \in JobIds, ReadRefresh(j)
  PROVE  RepositoryInv' /\ RepositoryForward
<1> USE RepositoryAssumption
<1>1. /\ point \in Points /\ PointOk(point) /\ Ahead(point, point) /\ point.life \in Lives
      /\ j \in RefreshJobs /\ j \notin EmbedJobs
  BY AheadOfItself DEF RepositoryInv, Points, ReadRefresh
<1> DEFINE m == Merged(j, point.life)
           n == [point EXCEPT !.feature = Version[j], !.featureJob = j, !.counts = j, !.life = m]
<1>2. CASE Stops(j) /\ UNCHANGED late BY <1>2, StopsStep
<1>3. CASE point # NoPoint /\ Status(j, point) # "apply" /\ ObservesOnly(j, point)
  BY <1>1, <1>3, StatusMet, ObservesStep
<1>4. CASE point # NoPoint /\ Status(j, point) = "apply" /\ Prepares(j, "write", point, n)
  <2>1. m \in Lives /\ Later(m, point.life) /\ Heard(j, m) BY <1>1, MergedHeard
  <2>2. Version[j] \in Nat /\ point.feature < Version[j] BY <1>1, <1>4, StatusMet, ObservedAt
  <2> HIDE DEF m
  <2>3. n \in Points /\ n.feature = Version[j] /\ n.featureJob = j /\ n.counts = j /\ n.life = m
    BY <1>1, <2>1, <2>2 DEF Points, Holders
  <2> HIDE DEF n
  <2>4. DraftOk("features", point, n, point) BY <1>1, <1>4, <2>1, <2>2, <2>3 DEF DraftOk, Points
  <2> DEFINE k == [pc |-> "write", read |-> point, next |-> n, seen |-> NoPoint]
  <2>5. k.pc = "write" /\ k.read = point /\ k.next = n OBVIOUS
  <2>6. JobOk(j, k, point)
    <3> HIDE DEF k
    <3> QED BY <1>1, <2>1, <2>3, <2>4, <2>5 DEF JobOk
  <2>7. "write" \in JobStages BY DEF JobStages
  <2> QED BY <1>1, <1>4, <2>3, <2>6, <2>7, PreparesStep
<1> QED BY <1>2, <1>3, <1>4 DEF ReadRefresh

LEMMA SummarizeStep ==
  ASSUME RepositoryInv, NEW j \in JobIds, Summarize(j)
  PROVE  RepositoryInv' /\ RepositoryForward
<1> DEFINE r == work[j].read
<1>1. /\ point \in Points /\ work[j] \in Works /\ r \in Points /\ JobOk(j, work[j], point)
      /\ work[j].pc = "summarize"
  BY DEF RepositoryInv, Works, Summarize, At
<1>2. PointOk(r) /\ r # NoPoint /\ Ahead(point, r) /\ Met(j, r) /\ Heard(j, r.life) /\ j \in EmbedJobs /\ r.hash = Hash[j]
  BY <1>1 DEF JobOk
<1> HIDE DEF r
<1>3. CASE Accepts(j)
  <2>1. Promised(j, r) BY <1>2 DEF Promised
  <2>2. Promised(j, point) BY <1>1, <1>2, <2>1, PromiseStays
  <2> QED BY <1>3, <2>2, AcceptsStep
<1>4. ASSUME NEW summary \in Summaries(j), Prepares(j, "summary", r, [r EXCEPT !.summary = summary])
      PROVE  RepositoryInv' /\ RepositoryForward
  <2> SUFFICES ASSUME NEW n, n = [r EXCEPT !.summary = summary] PROVE RepositoryInv' /\ RepositoryForward OBVIOUS
  <2>1. summary \in CardSummaries /\ summary.of = Hash[j] BY <1>2 DEF Summaries, CardSummaries, Hashes
  <2>2. n \in Points /\ n.summary = summary
    <3> r.life \in Lives BY <1>1 DEF Points
    <3> QED BY <1>1, <2>1, PartChanged
  <2>3. DraftOk("summary", r, n, point) BY <1>2, <2>1, <2>2 DEF DraftOk
  <2> DEFINE k == [pc |-> "summary", read |-> r, next |-> n, seen |-> NoPoint]
  <2>4. k.pc = "summary" /\ k.read = r /\ k.next = n OBVIOUS
  <2>5. JobOk(j, k, point)
    <3> HIDE DEF k
    <3> QED BY <1>2, <2>3, <2>4 DEF JobOk
  <2>6. "summary" \in JobStages BY DEF JobStages
  <2> QED BY <1>1, <1>4, <2>2, <2>5, <2>6, PreparesStep
<1> QED BY <1>3, <1>4 DEF Summarize, r

LEMMA RetrieveStep ==
  ASSUME RepositoryInv, NEW j \in JobIds, Retrieve(j)
  PROVE  RepositoryInv' /\ RepositoryForward
<1>1. /\ point \in Points /\ PointOk(point) /\ Ahead(point, point) /\ work \in [JobIds -> Works]
      /\ JobOk(j, work[j], point) /\ work[j].pc \in {"life_read", "summary_read", "reread"}
  BY AheadOfItself DEF RepositoryInv, Retrieve
<1>2. PICK pc \in JobStages :
        /\ work' = [work EXCEPT ![j].seen = point, ![j].pc = pc]
        /\ work[j].pc = "life_read" => pc = "life_check"
        /\ work[j].pc = "summary_read" => pc = "summary_check"
        /\ work[j].pc = "reread" => pc = "check"
  <2> DEFINE c == CASE At(j, "life_read") -> "life_check" [] At(j, "summary_read") -> "summary_check"
                    [] At(j, "reread") -> "check"
  <2>1. work' = [work EXCEPT ![j].seen = point, ![j].pc = c] BY DEF Retrieve
  <2>2. CASE work[j].pc = "life_read"
    <3> c = "life_check" BY <2>2 DEF At
    <3> QED BY <2>1, <2>2 DEF JobStages
  <2>3. CASE work[j].pc = "summary_read"
    <3> c = "summary_check" BY <2>3 DEF At
    <3> QED BY <2>1, <2>3 DEF JobStages
  <2>4. CASE work[j].pc = "reread"
    <3> c = "check" BY <2>4 DEF At
    <3> QED BY <2>1, <2>4 DEF JobStages
  <2> QED BY <1>1, <2>2, <2>3, <2>4
<1> DEFINE k == [work[j] EXCEPT !.seen = point, !.pc = pc]
<1>3. k \in Works /\ k.pc = pc /\ k.read = work[j].read /\ k.next = work[j].next /\ k.seen = point BY <1>1 DEF Works
<1>4. work' = [work EXCEPT ![j] = k] BY <1>1, <1>2
<1> HIDE DEF k
<1>5. JobOk(j, k, point) BY <1>1, <1>2, <1>3 DEF JobOk
<1> QED BY <1>3, <1>4, <1>5, JobTurn DEF Retrieve

LEMMA CheckLifeStep ==
  ASSUME RepositoryInv, NEW j \in JobIds, CheckLife(j)
  PROVE  RepositoryInv' /\ RepositoryForward
<1> SUFFICES ASSUME NEW r, NEW s, NEW n, r = work[j].read, s = work[j].seen, n = work[j].next
             PROVE  RepositoryInv' /\ RepositoryForward
  OBVIOUS
<1>1. /\ point \in Points /\ work[j] \in Works /\ r \in Points /\ s \in Points /\ n \in Points
      /\ JobOk(j, work[j], point) /\ work[j].pc = "life_check"
  BY DEF RepositoryInv, Works, CheckLife, At
<1>2. /\ PointOk(r) /\ r # NoPoint /\ Ahead(point, r) /\ Met(j, r) /\ (j \in EmbedJobs => r.hash = Hash[j])
      /\ Heard(j, n.life) /\ PointOk(s) /\ Ahead(point, s)
  BY <1>1 DEF JobOk
<1>3. CASE Stops(j) /\ UNCHANGED late BY <1>3, StopsStep
<1>4. CASE s.content = r.content /\ s.hash = r.hash /\ s.life = n.life /\ j \in RefreshJobs /\ Accepts(j)
  <2> USE RepositoryAssumption
  <2>1. Promised(j, point)
    <3>1. Met(j, point)
      <4>1. j \notin EmbedJobs /\ Version[j] \in Nat /\ r.feature >= Version[j] BY <1>2, <1>4, ObservedAt DEF Met
      <4> QED BY <1>1, <1>2, <4>1 DEF Met, Ahead, Points
    <3>2. Heard(j, point.life)
      <4>1. Heard(j, s.life) /\ Later(point.life, s.life) BY <1>2, <1>4 DEF Ahead
      <4>2. /\ s.life.at \in Nat /\ s.life.tryAt \in Nat /\ point.life.at \in Nat /\ point.life.tryAt \in Nat
        BY <1>1 DEF Points, Lives
      <4> QED BY <4>1, <4>2, ObservedAt DEF Heard, Later
    <3> QED BY <3>1, <3>2 DEF Promised
  <2> QED BY <1>4, <2>1, AcceptsStep
<1>5. CASE s.content = r.content /\ s.hash = r.hash /\ s.life = n.life /\ j \notin RefreshJobs /\ Prepares(j, "summarize", s, s)
  <2>1. r.content > 0 BY <1>1, <1>2, NothingIndexed
  <2>2. s # NoPoint
    <3> NoPoint.content = 0 BY DEF NoPoint
    <3> QED BY <1>5, <2>1
  <2>3. Met(j, s) /\ Heard(j, s.life) /\ j \in EmbedJobs /\ s.hash = Hash[j] BY <1>2, <1>5 DEF Met, JobIds
  <2> DEFINE k == [pc |-> "summarize", read |-> s, next |-> s, seen |-> NoPoint]
  <2>4. k.pc = "summarize" /\ k.read = s OBVIOUS
  <2>5. JobOk(j, k, point)
    <3> HIDE DEF k
    <3> QED BY <1>2, <2>2, <2>3, <2>4 DEF JobOk
  <2>6. "summarize" \in JobStages BY DEF JobStages
  <2> QED BY <1>1, <1>5, <2>5, <2>6, PreparesStep
<1> QED BY <1>3, <1>4, <1>5 DEF CheckLife

LEMMA CheckSummaryStep ==
  ASSUME RepositoryInv, NEW j \in JobIds, CheckSummary(j)
  PROVE  RepositoryInv' /\ RepositoryForward
<1>1. /\ point \in Points /\ work[j] \in Works /\ work[j].read \in Points /\ JobOk(j, work[j], point)
      /\ work[j].pc = "summary_check"
  BY DEF RepositoryInv, Works, CheckSummary, At
<1>2. Ahead(point, work[j].read) /\ Promised(j, work[j].read) BY <1>1 DEF JobOk, Promised
<1>3. Promised(j, point) BY <1>1, <1>2, PromiseStays
<1> QED BY <1>3, AcceptsStep, StopsStep DEF CheckSummary

LEMMA CheckWriteStep ==
  ASSUME RepositoryInv, NEW j \in JobIds, CheckWrite(j)
  PROVE  RepositoryInv' /\ RepositoryForward
<1> SUFFICES ASSUME NEW s, NEW n, s = work[j].seen, n = work[j].next PROVE RepositoryInv' /\ RepositoryForward
  OBVIOUS
<1>1. /\ point \in Points /\ work[j] \in Works /\ s \in Points /\ n \in Points /\ JobOk(j, work[j], point)
      /\ work[j].pc = "check"
  BY DEF RepositoryInv, Works, CheckWrite, At
<1>2. PointOk(s) /\ Ahead(point, s) /\ Heard(j, n.life) BY <1>1 DEF JobOk
<1>3. CASE Stops(j) /\ UNCHANGED late BY <1>3, StopsStep
<1>4. CASE (Observation[j] # Unobserved => s.life = n.life) /\ Status(j, s) # "apply" /\ Accepts(j)
  <2>1. Met(j, s) BY <1>1, <1>2, <1>4, StatusMet
  <2>2. Heard(j, s.life)
    <3>1. CASE Observation[j] = Unobserved
      <4>1. ~Verified(j) /\ Observation[j].at = 0 BY <3>1 DEF Verified, Unobserved
      <4>2. s.life.tryAt \in Nat BY <1>1 DEF Points, Lives
      <4> QED BY <4>1, <4>2 DEF Heard
    <3> QED BY <1>2, <1>4, <3>1
  <2>3. Promised(j, point) BY <1>1, <1>2, <2>1, <2>2, PromiseStays DEF Promised
  <2> QED BY <1>4, <2>3, AcceptsStep
<1> QED BY <1>3, <1>4 DEF CheckWrite

LEMMA RepositorySteps ==
  ASSUME RepositoryInv, [RepositoryNext]_repositoryVars
  PROVE  RepositoryInv' /\ RepositoryForward
<1>1. ASSUME NEW j \in JobIds, GiveUpJob(j) PROVE RepositoryInv' /\ RepositoryForward
  BY <1>1, StopsStep DEF GiveUpJob
<1>2. CASE UNCHANGED <<point, work, late, promised>>
  <2>1. point' \in Points /\ PointOk(point)' /\ Ahead(point', point) BY <1>2, AheadOfItself DEF RepositoryInv, PointOk
  <2> QED BY <1>2, <2>1, MovesAhead DEF RepositoryInv
<1>3. CASE Lapse BY <1>2, <1>3 DEF Lapse
<1>4. CASE UNCHANGED repositoryVars BY <1>2, <1>4 DEF repositoryVars
<1> QED
  BY <1>1, <1>3, <1>4, DeliverStep, WriteStep, TimeOutStep, ReadEmbedStep, ReadRefreshStep, SummarizeStep, RetrieveStep,
     CheckLifeStep, CheckSummaryStep, CheckWriteStep, LandStep
  DEF RepositoryNext

\* Whatever the order in which a repository's jobs are delivered and their
\* writes land, no revision or verdict goes back, the parts of the point
\* belong together, and what an accepted job was promised stays.
THEOREM RepositoryTheorem == RepositorySpec => RepositoryHonest
<1> USE RepositoryStarts, RepositorySteps
<1>1. RepositorySpec => []RepositoryInv BY PTL DEF RepositorySpec
<1>2. RepositoryInv => PromisesKept /\ PayloadCoherent
  BY DEF RepositoryInv, Promised, Met, Heard, PromisesKept, PointOk, PayloadCoherent
<1>3. RepositorySpec => [](PromisesKept /\ PayloadCoherent) BY <1>1, <1>2, PTL
<1>4. RepositoryInv /\ [RepositoryNext]_repositoryVars => [RepositoryForward]_repositoryVars OBVIOUS
<1>5. RepositorySpec => [][RepositoryForward]_repositoryVars BY <1>1, <1>4, PTL DEF RepositorySpec
<1> QED BY <1>3, <1>5 DEF RepositoryHonest

-----------------------------------------------------------------------------
(* The acquisition checkpoint *)

CorpusSpec == CorpusInit /\ [][CorpusNext]_corpusVars

Failures == [attempts : Nat, quarantined : BOOLEAN]
Checkpoints ==
  [persist : SUBSET Names, index : SUBSET Names, rejected : SUBSET Names, failure : [Names -> Failures]]
RunStages ==
  {"index", "persist", "fetch", "upsert", "upserted", "indexing", "indexed", "cycle", "accept", "consume", "cycled"}
Runs ==
  [pc : RunStages, own : Ownership, db : BOOLEAN, streaming : BOOLEAN, stage : {"index", "retry", "cycle"},
   todo : SUBSET Names, chunk : SUBSET Names, good : SUBSET Names, cycle : Nat, gained : BOOLEAN]

\* What was quarantined had failed.
Sound(c) == c \in Checkpoints /\ Quarantined(c) \subseteq Failing(c)

\* Where each stage is reached from.
StageKept(r) ==
  /\ r.pc \in {"index", "persist"} => r.stage = "index"
  /\ r.pc = "fetch" => r.stage = "retry"
  /\ r.pc \in {"accept", "consume", "cycled"} => r.stage = "cycle"
  /\ r.pc \in {"upsert", "upserted"} => r.stage # "index" /\ r.db
  /\ r.stage # "cycle" /\ r.pc # "cycle" => r.db

\* What a run has still to do: it fits into the checkpoint beside what is
\* there, is not quarantined, and unless it is new is owned already.
TodoKept(r, c) ==
  /\ Cardinality(Active(c) \cup r.todo) <= MaxActive
  /\ r.todo \cap Quarantined(c) = {}
  /\ r.stage = "index" => r.todo = {}
  /\ r.stage = "retry" => r.todo \subseteq c.persist

\* What it is doing: names the queues own, that are not quarantined and not
\* waiting for their turn, of which the good ones are handed over.
ChunkKept(r, c, ow) ==
  /\ r.pc = "consume" => r.chunk \subseteq r.todo
  /\ r.pc \in {"upsert", "upserted", "indexing", "indexed"} => r.chunk \cap r.todo = {}
  /\ r.pc \in {"consume", "upsert", "upserted"} => r.chunk \subseteq c.persist
  /\ r.pc \in {"indexing", "indexed"} => r.chunk \subseteq c.persist \cup c.index
  /\ r.pc \in {"consume", "upsert", "upserted", "indexing", "indexed"} => r.chunk \cap Quarantined(c) = {}
  /\ r.pc \in {"upserted", "indexed"} => r.good \subseteq r.chunk
  /\ r.pc = "indexed" \/ (r.pc = "upserted" /\ r.own = "backend_outbox") => r.good \cap ow = {}

CheckpointKept(c) == Sound(c) /\ Cardinality(Active(c)) <= MaxActive
RunKept(r, c, ow) == r \in Runs /\ StageKept(r) /\ TodoKept(r, c) /\ ChunkKept(r, c, ow)

\* What a run remembers of its queues is what the file has.
CorpusInv ==
  /\ CheckpointKept(disk) /\ CheckpointKept(data) /\ NothingForgotten /\ EffectsOwned
  /\ \/ run = NoRun
     \/ /\ run = [pc |-> "ending"] \/ RunKept(run, data, owed)
        /\ disk.persist = data.persist /\ disk.index = data.index

-----------------------------------------------------------------------------
(* The operators on a checkpoint *)

(* A field other than failure does not concern the failures. *)
LEMMA SameFailures ==
  ASSUME NEW c, NEW d, d.failure = c.failure
  PROVE  Failing(d) = Failing(c) /\ Quarantined(d) = Quarantined(c)
BY DEF Failing, Quarantined

LEMMA FailKept ==
  ASSUME NEW c, Sound(c), NEW names \in SUBSET Names, NEW spent
  PROVE  LET d == Fail(c, names, spent) IN
         /\ Sound(d) /\ d.persist = c.persist /\ d.index = c.index
         /\ Failing(d) = Failing(c) \cup names
         /\ Quarantined(d) \subseteq Quarantined(c) \cup names
<1> DEFINE d == Fail(c, names, spent)
           New(n) == IF n \in names
                     THEN [attempts |-> c.failure[n].attempts + 1,
                           quarantined |-> n \in spent \/ c.failure[n].attempts + 1 >= MaxAttempts]
                     ELSE c.failure[n]
<1>1. c \in Checkpoints /\ c.failure \in [Names -> Failures] BY DEF Sound, Checkpoints
<1>2. d = [c EXCEPT !.failure = [n \in Names |-> New(n)]] BY DEF Fail
<1>3. \A n \in Names : c.failure[n] \in Failures /\ c.failure[n].attempts \in Nat BY <1>1 DEF Failures
<1>4. \A n \in Names : New(n) \in Failures BY <1>3 DEF Failures
<1>5. \A n \in Names : (n \in names => New(n).attempts > 0) /\ (n \notin names => New(n) = c.failure[n])
  BY <1>3
<1> HIDE DEF New, d
<1>6. /\ d \in Checkpoints /\ d.persist = c.persist /\ d.index = c.index
      /\ \A n \in Names : d.failure[n] = New(n)
  BY <1>1, <1>2, <1>4 DEF Checkpoints
<1>7. Failing(d) = Failing(c) \cup names BY <1>5, <1>6 DEF Failing
<1>8. Quarantined(d) \subseteq Quarantined(c) \cup names BY <1>5, <1>6 DEF Quarantined
<1>9. Sound(d) BY <1>6, <1>7, <1>8 DEF Sound
<1> QED BY <1>6, <1>7, <1>8, <1>9 DEF d

LEMMA ClearFailureKept ==
  ASSUME NEW c, Sound(c), NEW names
  PROVE  LET d == ClearFailure(c, names) IN
         /\ Sound(d) /\ d.persist = c.persist /\ d.index = c.index
         /\ Failing(d) = Failing(c) \ names
         /\ Quarantined(d) = Quarantined(c) \ names
<1> DEFINE d == ClearFailure(c, names)
           New(n) == IF n \in names THEN [attempts |-> 0, quarantined |-> FALSE] ELSE c.failure[n]
<1>1. c \in Checkpoints /\ c.failure \in [Names -> Failures] BY DEF Sound, Checkpoints
<1>2. \A n \in Names : Blank.failure[n] = [attempts |-> 0, quarantined |-> FALSE] BY DEF Blank
<1>3. [n \in Names |-> IF n \in names THEN Blank.failure[n] ELSE c.failure[n]] = [n \in Names |-> New(n)] BY <1>2
<1>4. d = [c EXCEPT !.failure = [n \in Names |-> New(n)]] BY <1>3 DEF ClearFailure
<1>5. \A n \in Names : c.failure[n] \in Failures BY <1>1
<1>6. \A n \in Names : New(n) \in Failures BY <1>5 DEF Failures
<1>7. \A n \in Names : /\ n \in names => New(n).attempts = 0 /\ New(n).quarantined = FALSE
                       /\ n \notin names => New(n) = c.failure[n]
  OBVIOUS
<1> HIDE DEF New, d
<1>8. /\ d \in Checkpoints /\ d.persist = c.persist /\ d.index = c.index
      /\ \A n \in Names : d.failure[n] = New(n)
  BY <1>1, <1>4, <1>6 DEF Checkpoints
<1>9. Failing(d) = Failing(c) \ names BY <1>7, <1>8 DEF Failing
<1>10. Quarantined(d) = Quarantined(c) \ names BY <1>7, <1>8 DEF Quarantined
<1>11. Sound(d) BY <1>8, <1>9, <1>10 DEF Sound
<1> QED BY <1>8, <1>9, <1>10, <1>11 DEF d

LEMMA AgedKept ==
  ASSUME NEW c, Sound(c), NEW names, NEW aged
  PROVE  LET d == Aged(c, names, aged) IN
         /\ Sound(d) /\ d.persist = c.persist /\ d.index = c.index
         /\ Failing(d) = Failing(c)
<1> DEFINE d == Aged(c, names, aged)
           New(n) == IF n \in names /\ c.failure[n].attempts > 0 /\ (n \in aged \/ c.failure[n].attempts >= MaxAttempts)
                     THEN [c.failure[n] EXCEPT !.quarantined = TRUE] ELSE c.failure[n]
<1>1. c \in Checkpoints /\ c.failure \in [Names -> Failures] BY DEF Sound, Checkpoints
<1>2. d = [c EXCEPT !.failure = [n \in Names |-> New(n)]] BY DEF Aged
<1>3. \A n \in Names : c.failure[n] \in Failures BY <1>1
<1>4. \A n \in Names : New(n) \in Failures /\ New(n).attempts = c.failure[n].attempts BY <1>3 DEF Failures
<1>5. \A n \in Names : New(n) = c.failure[n] \/ New(n).attempts > 0 BY <1>3, <1>4
<1> HIDE DEF New, d
<1>6. /\ d \in Checkpoints /\ d.persist = c.persist /\ d.index = c.index
      /\ \A n \in Names : d.failure[n] = New(n)
  BY <1>1, <1>2, <1>4 DEF Checkpoints
<1>7. Failing(d) = Failing(c) BY <1>4, <1>6 DEF Failing
<1>8. Quarantined(d) \subseteq Failing(d)
  BY <1>5, <1>6, <1>7 DEF Sound, Quarantined, Failing
<1>9. Sound(d) BY <1>6, <1>8 DEF Sound
<1> QED BY <1>6, <1>7, <1>9 DEF d

(* Queues are rewritten without touching the failures. *)
LEMMA QueuesKept ==
  ASSUME NEW c, Sound(c), NEW d \in Checkpoints, d.failure = c.failure
  PROVE  Sound(d) /\ Failing(d) = Failing(c) /\ Quarantined(d) = Quarantined(c)
BY SameFailures DEF Sound

LEMMA AddPersistKept ==
  ASSUME NEW c, Sound(c), NEW names \in SUBSET Names
  PROVE  LET d == AddPersist(c, names) IN
         /\ Sound(d) /\ d.persist = c.persist \cup names /\ d.index = c.index
         /\ Failing(d) = Failing(c) /\ Quarantined(d) = Quarantined(c)
<1> DEFINE d == AddPersist(c, names)
<1>1. d \in Checkpoints /\ d.persist = c.persist \cup names /\ d.index = c.index /\ d.failure = c.failure
  BY DEF Sound, Checkpoints, AddPersist
<1> QED BY <1>1, QueuesKept

LEMMA AddIndexKept ==
  ASSUME NEW c, Sound(c), NEW names \in SUBSET Names
  PROVE  LET d == AddIndex(c, names) IN
         /\ Sound(d) /\ d.persist = c.persist /\ d.index = c.index \cup names
         /\ Failing(d) = Failing(c) /\ Quarantined(d) = Quarantined(c)
<1> DEFINE d == AddIndex(c, names)
<1>1. d \in Checkpoints /\ d.persist = c.persist /\ d.index = c.index \cup names /\ d.failure = c.failure
  BY DEF Sound, Checkpoints, AddIndex
<1> QED BY <1>1, QueuesKept

LEMMA ClearPersistKept ==
  ASSUME NEW c, Sound(c), NEW names \in SUBSET Names
  PROVE  LET d == [ClearPersist(c, names) EXCEPT !.rejected = @ \ names] IN
         /\ Sound(d) /\ d.persist = c.persist \ names /\ d.index = c.index
         /\ Failing(d) = Failing(c) /\ Quarantined(d) = Quarantined(c)
<1> DEFINE d == [ClearPersist(c, names) EXCEPT !.rejected = @ \ names]
<1>1. d \in Checkpoints /\ d.persist = c.persist \ names /\ d.index = c.index /\ d.failure = c.failure
  BY DEF Sound, Checkpoints, ClearPersist
<1> QED BY <1>1, QueuesKept

LEMMA ClearIndexKept ==
  ASSUME NEW c, Sound(c), NEW names \in SUBSET Names
  PROVE  LET d == ClearIndex(c, names) IN
         /\ Sound(d) /\ d.persist = c.persist /\ d.index = c.index \ names
         /\ Failing(d) = Failing(c) /\ Quarantined(d) = Quarantined(c)
<1> DEFINE d == ClearIndex(c, names)
<1>1. d \in Checkpoints /\ d.persist = c.persist /\ d.index = c.index \ names /\ d.failure = c.failure
  BY DEF Sound, Checkpoints, ClearIndex
<1> QED BY <1>1, QueuesKept

LEMMA RejectKept ==
  ASSUME NEW c, Sound(c), NEW names \in SUBSET Names
  PROVE  LET d == Reject(c, names) IN
         /\ Sound(d) /\ d.persist = c.persist \ names /\ d.index = c.index
         /\ Failing(d) = Failing(c) \ names /\ Quarantined(d) = Quarantined(c) \ names
<1> DEFINE e == [c EXCEPT !.rejected = @ \cup names, !.persist = @ \ names]
<1>1. e \in Checkpoints /\ e.persist = c.persist \ names /\ e.index = c.index /\ e.failure = c.failure
  BY DEF Sound, Checkpoints
<1>2. Sound(e) /\ Failing(e) = Failing(c) /\ Quarantined(e) = Quarantined(c) BY <1>1, QueuesKept
<1>3. Reject(c, names) = ClearFailure(e, names) BY DEF Reject
<1> HIDE DEF e
<1> QED BY <1>1, <1>2, <1>3, ClearFailureKept

(* The capacity counts what is owned, waits or has failed. *)
LEMMA Fewer ==
  ASSUME NEW S \in SUBSET Names, NEW T \in SUBSET S, Cardinality(S) <= MaxActive
  PROVE  Cardinality(T) <= MaxActive
<1>1. IsFiniteSet(S) BY CorpusAssumption, FS_Subset
<1>2. Cardinality(T) <= Cardinality(S) /\ IsFiniteSet(T) BY <1>1, FS_Subset
<1>3. Cardinality(S) \in Nat /\ Cardinality(T) \in Nat BY <1>1, <1>2, FS_CardinalityType
<1> QED BY <1>2, <1>3, CorpusAssumption

LEMMA Together ==
  ASSUME NEW S \in SUBSET Names, NEW T \in SUBSET Names, Cardinality(T) <= MaxActive - Cardinality(S)
  PROVE  Cardinality(S \cup T) <= MaxActive
<1>1. IsFiniteSet(S) /\ IsFiniteSet(T) BY CorpusAssumption, FS_Subset
<1>2. /\ IsFiniteSet(S \cup T)
      /\ Cardinality(S \cup T) = Cardinality(S) + Cardinality(T) - Cardinality(S \cap T)
  BY <1>1, FS_Union
<1>3. IsFiniteSet(S \cap T) BY <1>1, FS_Subset
<1>4. /\ Cardinality(S) \in Nat /\ Cardinality(T) \in Nat /\ Cardinality(S \cap T) \in Nat
      /\ Cardinality(S \cup T) \in Nat
  BY <1>1, <1>2, <1>3, FS_CardinalityType
<1> QED BY <1>2, <1>4, CorpusAssumption

LEMMA SoundSets ==
  ASSUME NEW c, Sound(c)
  PROVE  /\ c.persist \subseteq Names /\ c.index \subseteq Names /\ Failing(c) \subseteq Names
         /\ Quarantined(c) \subseteq Failing(c) /\ Active(c) \subseteq Names
BY DEF Sound, Checkpoints, Failing, Active

(* A run that goes on is kept whatever it has just dealt with. *)
LEMMA StageFields ==
  ASSUME NEW r \in Runs, NEW pc \in RunStages
  PROVE  LET s == Stage(r, pc) IN
         /\ s \in Runs /\ s.pc = pc /\ s.own = r.own /\ s.db = r.db /\ s.stage = r.stage /\ s.todo = r.todo
         /\ pc \in {"upsert", "upserted", "indexing", "indexed"} => s.chunk = r.chunk
         /\ pc \in {"upserted", "indexed"} => s.good = r.good
<1>1. pc # "ending" BY DEF RunStages
<1>2. Stage(r, pc) = [r EXCEPT !.pc = pc, !.chunk = IF pc \in {"upsert", "upserted", "indexing", "indexed"} THEN @ ELSE {},
                               !.good = IF pc \in {"upserted", "indexed"} THEN @ ELSE {}]
  BY <1>1 DEF Stage
<1> QED BY <1>2 DEF Runs

LEMMA OnwardKept ==
  ASSUME NEW r \in Runs, r.stage = run.stage, r.stage # "cycle" => r.db, NEW c, TodoKept(r, c), NEW ow
  PROVE  RunKept(Stage(r, Onward(r.todo)), c, ow)
<1> DEFINE pc == Onward(r.todo)
           s == Stage(r, pc)
<1>1. /\ r.stage \in {"index", "retry", "cycle"}
      /\ r.stage = "index" => pc = "persist"
      /\ r.stage = "retry" => pc \in {"cycle", "fetch"}
      /\ r.stage = "cycle" => pc \in {"cycled", "accept"}
  BY DEF Onward, Runs
<1> HIDE DEF pc
<1>2. pc \in RunStages BY <1>1 DEF RunStages
<1>3. s \in Runs /\ s.pc = pc /\ s.own = r.own /\ s.db = r.db /\ s.stage = r.stage /\ s.todo = r.todo BY <1>2, StageFields
<1> HIDE DEF s
<1>4. StageKept(s) BY <1>1, <1>3 DEF StageKept
<1>5. TodoKept(s, c) BY <1>3 DEF TodoKept
<1>6. ChunkKept(s, c, ow) BY <1>1, <1>3 DEF ChunkKept
<1>7. RunKept(s, c, ow) BY <1>3, <1>4, <1>5, <1>6 DEF RunKept
<1> QED BY <1>7 DEF s, pc

(* Work in progress shrinks, or new work fits. *)
LEMMA ActiveShrinks ==
  ASSUME NEW room \in SUBSET Names, Cardinality(room) <= MaxActive,
         NEW d, Active(d) \subseteq room, NEW rest \in SUBSET room
  PROVE  Cardinality(Active(d)) <= MaxActive /\ Cardinality(Active(d) \cup rest) <= MaxActive
<1>1. Active(d) \in SUBSET room /\ Active(d) \cup rest \in SUBSET room OBVIOUS
<1> QED BY <1>1, Fewer

LEMMA RunUnderWay ==
  ASSUME CorpusInv, run.pc \notin {"off", "ending"}
  PROVE  /\ RunKept(run, data, owed) /\ disk.persist = data.persist /\ disk.index = data.index
         /\ Sound(data) /\ Sound(disk) /\ owed \subseteq data.persist \cup data.index
         /\ run.todo \subseteq Names
BY DEF CorpusInv, NoRun, CheckpointKept, NothingForgotten, RunKept, Runs

(* A step that saves, and one that leaves the checkpoint as it is. *)
LEMMA Saved ==
  ASSUME NEW c, CheckpointKept(c), Save(c), owed' \subseteq c.persist \cup c.index, touched' = {},
         run' = [pc |-> "ending"] \/ RunKept(run', c, owed')
  PROVE  CorpusInv'
BY DEF Save, CorpusInv, NothingForgotten, EffectsOwned, CheckpointKept

LEMMA BlankKept == CheckpointKept(Blank)
<1>1. Blank \in Checkpoints BY DEF Blank, Checkpoints, Failures
<1>2. Active(Blank) = {} /\ Quarantined(Blank) = {} BY DEF Blank, Active, Failing, Quarantined
<1>3. Cardinality(Active(Blank)) = 0 BY <1>2, FS_EmptySet
<1> QED BY <1>1, <1>2, <1>3, CorpusAssumption DEF CheckpointKept, Sound

-----------------------------------------------------------------------------
(* The steps *)

LEMMA BeginRunKeeps == CorpusInv /\ BeginRun => CorpusInv'
<1> SUFFICES ASSUME CorpusInv, BeginRun PROVE CorpusInv' OBVIOUS
<1>1. PICK own \in Ownership, db \in BOOLEAN, streaming \in BOOLEAN, pruned \in SUBSET disk.rejected :
        /\ data' = [disk EXCEPT !.rejected = @ \ pruned]
        /\ run' = [pc |-> IF ~db THEN "cycle" ELSE IF own = "local_immediate" THEN "index" ELSE "persist",
                   own |-> own, db |-> db, streaming |-> streaming, stage |-> "index",
                   todo |-> {}, chunk |-> {}, good |-> {}, cycle |-> 0, gained |-> FALSE]
  BY DEF BeginRun
<1>2. disk' = disk /\ owed' = owed /\ touched' = {} BY DEF BeginRun, Idle
<1>3. CheckpointKept(disk) /\ Sound(disk) BY DEF CorpusInv, CheckpointKept
<1>4. data' \in Checkpoints /\ data'.persist = disk.persist /\ data'.index = disk.index /\ data'.failure = disk.failure
  BY <1>1, <1>3 DEF Sound, Checkpoints
<1>5. Sound(data') /\ Failing(data') = Failing(disk) BY <1>3, <1>4, QueuesKept
<1>6. Active(data') = Active(disk) BY <1>4, <1>5 DEF Active
<1>7. CheckpointKept(data') BY <1>3, <1>5, <1>6 DEF CheckpointKept
<1>8. run' \in Runs /\ run'.pc \in {"cycle", "index", "persist"} /\ run'.stage = "index" /\ run'.todo = {}
      /\ (run'.pc # "cycle" => run'.db)
  BY <1>1 DEF Runs, RunStages
<1>9. RunKept(run', data', owed')
  <2>1. Active(data') \cup run'.todo = Active(data') BY <1>8
  <2> QED BY <1>7, <1>8, <2>1 DEF RunKept, StageKept, TodoKept, ChunkKept, CheckpointKept
<1> QED BY <1>2, <1>3, <1>4, <1>7, <1>9 DEF CorpusInv, NothingForgotten, EffectsOwned

LEMMA ResumeIndexingKeeps == CorpusInv /\ ResumeIndexing => CorpusInv'
<1> SUFFICES ASSUME CorpusInv, ResumeIndexing PROVE CorpusInv' OBVIOUS
<1>1. PICK aged \in SUBSET data.index, batch \in SUBSET data.index :
        LET c == Aged(data, data.index, aged) IN
        /\ Due(c, data.index, batch)
        /\ IF batch = {} THEN data' = c /\ UNCHANGED disk /\ To("persist")
           ELSE \E found \in SUBSET batch, spent \in SUBSET batch :
                  /\ disk' = c /\ data' = Fail(c, batch \ found, spent)
                  /\ run' = [run EXCEPT !.pc = "indexing", !.chunk = found]
  BY DEF ResumeIndexing
<1> DEFINE c == Aged(data, data.index, aged)
<1>2. owed' = owed /\ touched' = {} /\ run.pc = "index" BY DEF ResumeIndexing, Idle
<1>3. /\ RunKept(run, data, owed) /\ disk.persist = data.persist /\ disk.index = data.index
      /\ Sound(data) /\ Sound(disk) /\ owed \subseteq data.persist \cup data.index
  BY <1>2, RunUnderWay
<1>4. run \in Runs /\ run.stage = "index" /\ run.todo = {} /\ run.db
  BY <1>2, <1>3 DEF RunKept, StageKept, TodoKept
<1>5. Sound(c) /\ c.persist = data.persist /\ c.index = data.index /\ Failing(c) = Failing(data)
  BY <1>3, AgedKept
<1>6. Active(c) = Active(data) BY <1>5 DEF Active
<1>7. Due(c, data.index, batch) BY <1>1
<1>8. CASE batch = {}
  <2>1. data' = c /\ UNCHANGED disk /\ run' = Stage(run, "persist") BY <1>1, <1>8 DEF To
  <2> HIDE DEF c
  <2>2. CheckpointKept(data') BY <1>5, <1>6, <2>1 DEF CorpusInv, CheckpointKept
  <2>3. "persist" \in RunStages BY DEF RunStages
  <2>4. run' \in Runs /\ run'.pc = "persist" /\ run'.stage = "index" /\ run'.todo = {} /\ run'.db
    BY <1>4, <2>1, <2>3, StageFields
  <2>5. Active(data') \cup run'.todo = Active(data') BY <2>4
  <2>6. RunKept(run', data', owed')
    BY <2>2, <2>4, <2>5 DEF RunKept, StageKept, TodoKept, ChunkKept, CheckpointKept
  <2> QED BY <1>2, <1>3, <1>5, <2>1, <2>2, <2>6 DEF CorpusInv, NothingForgotten, EffectsOwned
<1>9. CASE batch # {}
  <2>1. PICK found \in SUBSET batch, spent \in SUBSET batch :
          /\ disk' = c /\ data' = Fail(c, batch \ found, spent)
          /\ run' = [run EXCEPT !.pc = "indexing", !.chunk = found]
    BY <1>1, <1>9
  <2> HIDE DEF c
  <2>2. batch \subseteq Names /\ batch \cap Quarantined(c) = {}
    BY <1>3, <1>7, SoundSets DEF Due
  <2>3. /\ Sound(data') /\ data'.persist = c.persist /\ data'.index = c.index
        /\ Failing(data') = Failing(c) \cup (batch \ found)
        /\ Quarantined(data') \subseteq Quarantined(c) \cup (batch \ found)
    <3> DEFINE lost == batch \ found
    <3>1. Sound(c) /\ lost \in SUBSET Names /\ data' = Fail(c, lost, spent) BY <1>5, <2>1, <2>2
    <3> HIDE DEF lost
    <3>2. /\ Sound(data') /\ data'.persist = c.persist /\ data'.index = c.index
          /\ Failing(data') = Failing(c) \cup lost
          /\ Quarantined(data') \subseteq Quarantined(c) \cup lost
      BY <3>1, FailKept
    <3> QED BY <3>2 DEF lost
  <2>4. Active(data') = Active(c) BY <1>5, <2>3 DEF Active
  <2>5. CheckpointKept(data') /\ CheckpointKept(disk')
    BY <1>5, <1>6, <2>1, <2>3, <2>4 DEF CorpusInv, CheckpointKept
  <2>6. /\ run' \in Runs /\ run'.pc = "indexing" /\ run'.stage = "index" /\ run'.todo = {} /\ run'.db
        /\ run'.chunk = found
    BY <1>4, <2>1, <2>2 DEF Runs, RunStages
  <2>7. Active(data') \cup run'.todo = Active(data') BY <2>6
  <2>8. found \subseteq data'.index /\ found \cap Quarantined(data') = {} BY <1>5, <2>2, <2>3
  <2>9. RunKept(run', data', owed')
    BY <2>5, <2>6, <2>7, <2>8 DEF RunKept, StageKept, TodoKept, ChunkKept, CheckpointKept
  <2> QED BY <1>2, <1>3, <1>5, <2>1, <2>3, <2>5, <2>9 DEF CorpusInv, NothingForgotten, EffectsOwned
<1> QED BY <1>8, <1>9

LEMMA ResumePersistenceKeeps == CorpusInv /\ ResumePersistence => CorpusInv'
<1> SUFFICES ASSUME CorpusInv, ResumePersistence PROVE CorpusInv' OBVIOUS
<1>1. PICK aged \in SUBSET data.persist, batch \in SUBSET data.persist :
        LET c == Aged(data, data.persist, aged) IN
        /\ Due(c, data.persist, batch)
        /\ IF batch = {} THEN data' = c /\ UNCHANGED disk /\ To("cycle")
           ELSE Save(c) /\ run' = [run EXCEPT !.pc = "fetch", !.stage = "retry", !.todo = batch]
  BY DEF ResumePersistence
<1> DEFINE c == Aged(data, data.persist, aged)
<1>2. owed' = owed /\ touched' = {} /\ run.pc = "persist" BY DEF ResumePersistence, Idle
<1>3. /\ RunKept(run, data, owed) /\ disk.persist = data.persist /\ disk.index = data.index
      /\ Sound(data) /\ Sound(disk) /\ owed \subseteq data.persist \cup data.index
  BY <1>2, RunUnderWay
<1>4. run \in Runs /\ run.stage = "index" /\ run.todo = {} /\ run.db
  BY <1>2, <1>3 DEF RunKept, StageKept, TodoKept
<1>5. Sound(c) /\ c.persist = data.persist /\ c.index = data.index /\ Failing(c) = Failing(data)
  BY <1>3, AgedKept
<1>6. Active(c) = Active(data) BY <1>5 DEF Active
<1>7. Due(c, data.persist, batch) BY <1>1
<1>8. CheckpointKept(c) BY <1>5, <1>6 DEF CorpusInv, CheckpointKept
<1>9. CASE batch = {}
  <2>1. data' = c /\ UNCHANGED disk /\ run' = Stage(run, "cycle") BY <1>1, <1>9 DEF To
  <2> HIDE DEF c
  <2>2. "cycle" \in RunStages BY DEF RunStages
  <2>3. run' \in Runs /\ run'.pc = "cycle" /\ run'.stage = "index" /\ run'.todo = {}
    BY <1>4, <2>1, <2>2, StageFields
  <2>4. Active(data') \cup run'.todo = Active(data') BY <2>3
  <2>5. RunKept(run', data', owed')
    BY <1>8, <2>1, <2>3, <2>4 DEF RunKept, StageKept, TodoKept, ChunkKept, CheckpointKept
  <2> QED BY <1>2, <1>3, <1>5, <1>8, <2>1, <2>5 DEF CorpusInv, NothingForgotten, EffectsOwned
<1>10. CASE batch # {}
  <2>1. Save(c) /\ run' = [run EXCEPT !.pc = "fetch", !.stage = "retry", !.todo = batch] BY <1>1, <1>10
  <2> HIDE DEF c
  <2>2. batch \subseteq c.persist /\ batch \subseteq Names /\ batch \cap Quarantined(c) = {}
    BY <1>3, <1>5, <1>7, SoundSets DEF Due
  <2>3. run' \in Runs /\ run'.pc = "fetch" /\ run'.stage = "retry" /\ run'.todo = batch /\ run'.db
    BY <1>4, <2>1, <2>2 DEF Runs, RunStages
  <2>4. Active(c) \cup run'.todo = Active(c) BY <2>2, <2>3 DEF Active
  <2>5. RunKept(run', c, owed')
    BY <1>8, <2>2, <2>3, <2>4 DEF RunKept, StageKept, TodoKept, ChunkKept, CheckpointKept
  <2> QED BY <1>2, <1>3, <1>5, <1>8, <2>1, <2>5, Saved
<1> QED BY <1>9, <1>10

(* A chunk of what is to do, all of it owned by the persistence queue, is  *)
(* judged.                                                                 *)
LEMMA JudgeKeeps ==
  ASSUME CorpusInv, run.pc \notin {"off", "ending"}, run.stage # "index",
         NEW chunk, chunk \subseteq run.todo, chunk \subseteq data.persist,
         NEW acquired \in SUBSET chunk, Judge(chunk, acquired), touched' = {},
         run.stage # "cycle" => run.db
  PROVE  CorpusInv'
<1>1. /\ RunKept(run, data, owed) /\ Sound(data) /\ owed \subseteq data.persist \cup data.index
      /\ run.todo \subseteq Names
  BY RunUnderWay
<1>2. run \in Runs /\ StageKept(run) /\ TodoKept(run, data) BY <1>1 DEF RunKept
<1>3. chunk \in SUBSET Names /\ chunk \cap Quarantined(data) = {} BY <1>1, <1>2 DEF TodoKept
<1>4. CheckpointKept(data) BY DEF CorpusInv
<1>5. CASE Save(AddPersist(data, chunk)) /\ To("ending") /\ UNCHANGED owed
  <2> DEFINE c == AddPersist(data, chunk)
  <2>1. /\ Sound(c) /\ c.persist = data.persist \cup chunk /\ c.index = data.index
        /\ Failing(c) = Failing(data)
    BY <1>1, <1>3, AddPersistKept
  <2>2. Save(c) /\ run' = [pc |-> "ending"] /\ owed' = owed BY <1>5 DEF To, Stage
  <2> HIDE DEF c
  <2>3. Active(c) = Active(data) BY <2>1 DEF Active
  <2>4. CheckpointKept(c) BY <1>4, <2>1, <2>3 DEF CheckpointKept
  <2> QED BY <1>1, <2>1, <2>2, <2>4, Saved
<1>6. ASSUME NEW spent \in SUBSET (chunk \ acquired), NEW approved \in SUBSET acquired, NEW dropped \in SUBSET acquired,
             LET rejected == acquired \ approved
                 judged == Reject(Fail(data, chunk \ acquired, spent), dropped)
                 rest == run.todo \ chunk
             IN
             /\ dropped \subseteq rejected
             /\ owed' = owed \ dropped
             /\ IF dropped # rejected THEN Save(judged) /\ To("ending")
                ELSE IF approved = {}
                THEN Save(judged) /\ run' = Stage([run EXCEPT !.todo = rest], Onward(rest))
                ELSE /\ Save(IF run.db THEN AddPersist(judged, approved) ELSE judged)
                     /\ run' = Stage([run EXCEPT !.todo = rest, !.chunk = approved],
                                     IF run.db THEN "upsert"
                                     ELSE IF run.own = "local_immediate" THEN "indexing" ELSE Onward(rest))
      PROVE  CorpusInv'
  <2> DEFINE failed == Fail(data, chunk \ acquired, spent)
             judged == Reject(failed, dropped)
             rest == run.todo \ chunk
  <2>1. /\ dropped \subseteq acquired \ approved /\ owed' = owed \ dropped
        /\ IF dropped # acquired \ approved THEN Save(judged) /\ To("ending")
           ELSE IF approved = {}
           THEN Save(judged) /\ run' = Stage([run EXCEPT !.todo = rest], Onward(rest))
           ELSE /\ Save(IF run.db THEN AddPersist(judged, approved) ELSE judged)
                /\ run' = Stage([run EXCEPT !.todo = rest, !.chunk = approved],
                                IF run.db THEN "upsert"
                                ELSE IF run.own = "local_immediate" THEN "indexing" ELSE Onward(rest))
    BY <1>6
  <2>2. chunk \ acquired \in SUBSET Names /\ dropped \in SUBSET Names /\ approved \in SUBSET Names BY <1>3
  <2>3. /\ Sound(failed) /\ failed.persist = data.persist /\ failed.index = data.index
        /\ Failing(failed) = Failing(data) \cup (chunk \ acquired)
        /\ Quarantined(failed) \subseteq Quarantined(data) \cup (chunk \ acquired)
    BY <1>1, <2>2, FailKept
  <2> HIDE DEF failed
  <2>4. /\ Sound(judged) /\ judged.persist = data.persist \ dropped /\ judged.index = data.index
        /\ Failing(judged) \subseteq Failing(data) \cup chunk
        /\ Quarantined(judged) \subseteq Quarantined(data) \cup (chunk \ acquired)
    BY <2>2, <2>3, RejectKept
  <2> HIDE DEF judged
  <2>5. owed' \subseteq judged.persist \cup judged.index BY <1>1, <2>1, <2>4
  <2>6. Active(judged) \subseteq Active(data) BY <2>4 DEF Active
  <2>7. Cardinality(Active(judged)) <= MaxActive /\ Cardinality(Active(judged) \cup rest) <= MaxActive
    <3> DEFINE room == Active(data) \cup run.todo
    <3>1. room \in SUBSET Names BY <1>1, SoundSets
    <3>2. Cardinality(room) <= MaxActive BY <1>2 DEF TodoKept
    <3>3. rest \in SUBSET room /\ Active(judged) \subseteq room BY <2>6
    <3> HIDE DEF room, rest
    <3> QED BY <3>1, <3>2, <3>3, ActiveShrinks
  <2>8. CheckpointKept(judged) BY <2>4, <2>7 DEF CheckpointKept
  <2>9. rest \cap Quarantined(judged) = {} BY <1>2, <2>4 DEF TodoKept
  <2>10. run.stage = "retry" => rest \subseteq judged.persist BY <1>2, <2>1, <2>4 DEF TodoKept
  <2>11. rest \subseteq Names BY <1>1
  <2>12. CASE dropped # acquired \ approved
    BY <2>1, <2>5, <2>8, <2>12, Saved DEF To, Stage
  <2>13. CASE dropped = acquired \ approved /\ approved = {}
    <3> DEFINE r == [run EXCEPT !.todo = rest]
    <3>1. r \in Runs /\ r.stage = run.stage /\ r.db = run.db /\ r.todo = rest BY <1>2, <2>11 DEF Runs
    <3>2. TodoKept(r, judged)
      <4> HIDE DEF r
      <4> QED BY <2>7, <2>9, <2>10, <3>1 DEF TodoKept
    <3>3. Save(judged) /\ run' = Stage(r, Onward(r.todo)) BY <2>1, <2>13, <3>1
    <3> HIDE DEF r
    <3>4. RunKept(run', judged, owed') BY <3>1, <3>2, <3>3, OnwardKept
    <3> QED BY <2>5, <2>8, <3>3, <3>4, Saved
  <2>14. CASE dropped = acquired \ approved /\ approved # {}
    <3> DEFINE r == [run EXCEPT !.todo = rest, !.chunk = approved]
               c == IF run.db THEN AddPersist(judged, approved) ELSE judged
    <3>1. r \in Runs /\ r.stage = run.stage /\ r.db = run.db /\ r.own = run.own /\ r.todo = rest /\ r.chunk = approved
      BY <1>2, <2>2, <2>11 DEF Runs
    <3>2. approved \subseteq judged.persist BY <2>1, <2>4
    <3>3. /\ Sound(c) /\ c.persist = judged.persist /\ c.index = judged.index
          /\ Failing(c) = Failing(judged) /\ Quarantined(c) = Quarantined(judged)
      <4>1. CASE run.db
        <5>1. c = AddPersist(judged, approved) BY <4>1
        <5>2. judged.persist \cup approved = judged.persist BY <3>2
        <5> HIDE DEF c
        <5> QED BY <2>2, <2>4, <5>1, <5>2, AddPersistKept
      <4>2. CASE ~run.db BY <2>4, <4>2
      <4> QED BY <4>1, <4>2
    <3>4. Save(c) /\ run' = Stage(r, IF run.db THEN "upsert"
                                     ELSE IF run.own = "local_immediate" THEN "indexing" ELSE Onward(r.todo))
      BY <2>1, <2>14, <3>1
    <3> HIDE DEF c, r
    <3>5. Active(c) = Active(judged) BY <3>3 DEF Active
    <3>6. CheckpointKept(c) BY <2>8, <3>3, <3>5 DEF CheckpointKept
    <3>7. owed' \subseteq c.persist \cup c.index BY <2>5, <3>3
    <3>8. TodoKept(r, c) BY <2>7, <2>9, <2>10, <3>1, <3>3, <3>5 DEF TodoKept
    <3>9. ASSUME NEW pc \in {"upsert", "indexing"}, run' = Stage(r, pc), pc = "upsert" => run.db
          PROVE  RunKept(run', c, owed')
      <4>1. pc \in RunStages BY DEF RunStages
      <4>2. /\ run' \in Runs /\ run'.pc = pc /\ run'.own = r.own /\ run'.db = r.db /\ run'.stage = r.stage
            /\ run'.todo = rest /\ run'.chunk = approved
        BY <3>1, <3>9, <4>1, StageFields
      <4>3. StageKept(run') BY <3>1, <3>9, <4>2 DEF StageKept
      <4>4. TodoKept(run', c) BY <3>1, <3>8, <4>2 DEF TodoKept
      <4>5. approved \cap rest = {} /\ approved \subseteq c.persist /\ approved \cap Quarantined(c) = {}
        BY <1>3, <2>4, <3>2, <3>3
      <4>6. ChunkKept(run', c, owed') BY <3>9, <4>2, <4>5 DEF ChunkKept
      <4> QED BY <4>2, <4>3, <4>4, <4>6 DEF RunKept
    <3>10. CASE run.db
      <4>1. run' = Stage(r, "upsert") BY <3>4, <3>10
      <4> QED BY <3>4, <3>6, <3>7, <3>9, <3>10, <4>1, Saved
    <3>11. CASE ~run.db /\ run.own = "local_immediate"
      <4>1. run' = Stage(r, "indexing") BY <3>4, <3>11
      <4> QED BY <3>4, <3>6, <3>7, <3>9, <4>1, Saved
    <3>12. CASE ~run.db /\ run.own # "local_immediate"
      <4>1. run' = Stage(r, Onward(r.todo)) BY <3>4, <3>12
      <4>2. RunKept(run', c, owed') BY <3>1, <3>8, <4>1, OnwardKept
      <4> QED BY <3>4, <3>6, <3>7, <4>2, Saved
    <3> QED BY <3>10, <3>11, <3>12
  <2> QED BY <2>12, <2>13, <2>14
<1> QED BY <1>5, <1>6 DEF Judge

LEMMA RetryKeeps == CorpusInv /\ Retry => CorpusInv'
<1> SUFFICES ASSUME CorpusInv, Retry PROVE CorpusInv' OBVIOUS
<1>1. PICK chunk \in Chunks : \E acquired \in SUBSET chunk : Judge(chunk, acquired) BY DEF Retry
<1>2. PICK acquired \in SUBSET chunk : Judge(chunk, acquired) BY <1>1
<1>3. run.pc = "fetch" /\ touched' = {} BY DEF Retry
<1>4. RunKept(run, data, owed) BY <1>3, RunUnderWay
<1>5. run.stage = "retry" /\ run.db /\ run.todo \subseteq data.persist
  BY <1>3, <1>4 DEF RunKept, StageKept, TodoKept
<1>6. chunk \subseteq run.todo BY DEF Chunks
<1>7. chunk \subseteq data.persist BY <1>5, <1>6
<1> QED BY <1>2, <1>3, <1>5, <1>6, <1>7, JudgeKeeps

LEMMA ConsumeKeeps == CorpusInv /\ Consume => CorpusInv'
<1> SUFFICES ASSUME CorpusInv, Consume PROVE CorpusInv' OBVIOUS
<1>1. PICK acquired \in SUBSET run.chunk : Judge(run.chunk, acquired) BY DEF Consume
<1>2. run.pc = "consume" /\ touched' = {} BY DEF Consume
<1>3. RunKept(run, data, owed) BY <1>2, RunUnderWay
<1>4. run.stage = "cycle" /\ run.chunk \subseteq run.todo /\ run.chunk \subseteq data.persist
  BY <1>2, <1>3 DEF RunKept, StageKept, ChunkKept
<1> QED BY <1>1, <1>2, <1>4, JudgeKeeps

LEMMA UpsertKeeps == CorpusInv /\ Upsert => CorpusInv'
<1> SUFFICES ASSUME CorpusInv, Upsert PROVE CorpusInv' OBVIOUS
<1>1. PICK good \in SUBSET run.chunk :
        /\ owed' = IF run.own = "backend_outbox" THEN owed \ good ELSE owed
        /\ run' = [run EXCEPT !.pc = "upserted", !.good = good]
  BY DEF Upsert
<1>2. run.pc = "upsert" /\ touched' = run.chunk /\ disk' = disk /\ data' = data BY DEF Upsert
<1>3. RunKept(run, data, owed) /\ disk.persist = data.persist /\ disk.index = data.index
  BY <1>2, RunUnderWay
<1>4. run \in Runs BY <1>3 DEF RunKept
<1>5. /\ run' \in Runs /\ run'.pc = "upserted" /\ run'.good = good /\ run'.chunk = run.chunk /\ run'.todo = run.todo
      /\ run'.own = run.own /\ run'.db = run.db /\ run'.stage = run.stage
  BY <1>1, <1>4 DEF Runs, RunStages
<1>6. StageKept(run') /\ TodoKept(run', data) BY <1>2, <1>3, <1>5 DEF RunKept, StageKept, TodoKept
<1>7. run'.own = "backend_outbox" => run'.good \cap owed' = {} BY <1>1, <1>5
<1>8. ChunkKept(run', data, owed') BY <1>2, <1>3, <1>5, <1>7 DEF RunKept, ChunkKept
<1>9. RunKept(run', data', owed') BY <1>2, <1>5, <1>6, <1>8 DEF RunKept
<1>10. EffectsOwned' BY <1>2, <1>3 DEF EffectsOwned, RunKept, ChunkKept
<1>11. owed' \subseteq owed BY <1>1
<1> QED BY <1>2, <1>3, <1>9, <1>10, <1>11 DEF CorpusInv, NothingForgotten

LEMMA IndexKeeps == CorpusInv /\ Index => CorpusInv'
<1> SUFFICES ASSUME CorpusInv, Index PROVE CorpusInv' OBVIOUS
<1>1. PICK good \in SUBSET run.chunk :
        owed' = owed \ good /\ run' = [run EXCEPT !.pc = "indexed", !.good = good]
  BY DEF Index
<1>2. run.pc = "indexing" /\ touched' = run.chunk /\ disk' = disk /\ data' = data BY DEF Index
<1>3. RunKept(run, data, owed) /\ disk.persist = data.persist /\ disk.index = data.index
  BY <1>2, RunUnderWay
<1>4. run \in Runs BY <1>3 DEF RunKept
<1>5. /\ run' \in Runs /\ run'.pc = "indexed" /\ run'.good = good /\ run'.chunk = run.chunk /\ run'.todo = run.todo
      /\ run'.own = run.own /\ run'.db = run.db /\ run'.stage = run.stage
  BY <1>1, <1>4 DEF Runs, RunStages
<1>6. StageKept(run') /\ TodoKept(run', data) BY <1>2, <1>3, <1>5 DEF RunKept, StageKept, TodoKept
<1>7. run'.good \cap owed' = {} BY <1>1, <1>5
<1>8. ChunkKept(run', data, owed') BY <1>2, <1>3, <1>5, <1>7 DEF RunKept, ChunkKept
<1>9. RunKept(run', data', owed') BY <1>2, <1>5, <1>6, <1>8 DEF RunKept
<1>10. EffectsOwned' BY <1>2, <1>3 DEF EffectsOwned, RunKept, ChunkKept
<1>11. owed' \subseteq owed BY <1>1
<1> QED BY <1>2, <1>3, <1>9, <1>10, <1>11 DEF CorpusInv, NothingForgotten

LEMMA AcknowledgeKeeps == CorpusInv /\ Acknowledge => CorpusInv'
<1> SUFFICES ASSUME CorpusInv, Acknowledge PROVE CorpusInv' OBVIOUS
<1> DEFINE outbox == run.own = "backend_outbox"
           owned == IF outbox THEN data ELSE AddIndex(data, run.good)
           cleared == [ClearPersist(owned, run.good) EXCEPT !.rejected = @ \ run.good]
           r == [run EXCEPT !.chunk = run.good, !.gained = @ \/ run.good # {}]
<1>1. PICK spent \in SUBSET (run.chunk \ run.good) :
        /\ LET failed == Fail(cleared, run.chunk \ run.good, spent) IN
           Save(IF outbox THEN ClearFailure(failed, run.good) ELSE failed)
        /\ run' = Stage(r, IF run.own = "local_immediate" THEN "indexing"
                           ELSE IF Stuck(run.good) THEN "ending" ELSE Onward(run.todo))
  BY DEF Acknowledge
<1> DEFINE failed == Fail(cleared, run.chunk \ run.good, spent)
           c == IF outbox THEN ClearFailure(failed, run.good) ELSE failed
<1>2. run.pc = "upserted" /\ owed' = owed /\ touched' = {} BY DEF Acknowledge, Idle
<1>3. /\ RunKept(run, data, owed) /\ Sound(data) /\ owed \subseteq data.persist \cup data.index
      /\ run.todo \subseteq Names
  BY <1>2, RunUnderWay
<1>4. /\ run \in Runs /\ StageKept(run) /\ TodoKept(run, data)
      /\ run.chunk \cap run.todo = {} /\ run.chunk \subseteq data.persist
      /\ run.chunk \cap Quarantined(data) = {} /\ run.good \subseteq run.chunk
      /\ outbox => run.good \cap owed = {}
  BY <1>2, <1>3 DEF RunKept, ChunkKept
<1>5. run.good \in SUBSET Names /\ run.chunk \ run.good \in SUBSET Names BY <1>4 DEF Runs
<1>6. /\ Sound(owned) /\ owned.persist = data.persist
      /\ owned.index = IF outbox THEN data.index ELSE data.index \cup run.good
      /\ Failing(owned) = Failing(data) /\ Quarantined(owned) = Quarantined(data)
  BY <1>3, <1>5, AddIndexKept
<1> HIDE DEF owned
<1>7. /\ Sound(cleared) /\ cleared.persist = data.persist \ run.good /\ cleared.index = owned.index
      /\ Failing(cleared) = Failing(data) /\ Quarantined(cleared) = Quarantined(data)
  BY <1>5, <1>6, ClearPersistKept
<1> HIDE DEF cleared
<1>8. /\ Sound(failed) /\ failed.persist = cleared.persist /\ failed.index = cleared.index
      /\ Failing(failed) = Failing(data) \cup (run.chunk \ run.good)
      /\ Quarantined(failed) \subseteq Quarantined(data) \cup (run.chunk \ run.good)
  <2>1. /\ Sound(failed) /\ failed.persist = cleared.persist /\ failed.index = cleared.index
        /\ Failing(failed) = Failing(cleared) \cup (run.chunk \ run.good)
        /\ Quarantined(failed) \subseteq Quarantined(cleared) \cup (run.chunk \ run.good)
    <3> DEFINE lost == run.chunk \ run.good
    <3>1. Sound(cleared) /\ lost \in SUBSET Names /\ failed = Fail(cleared, lost, spent) BY <1>5, <1>7
    <3> HIDE DEF lost, failed
    <3>2. /\ Sound(failed) /\ failed.persist = cleared.persist /\ failed.index = cleared.index
          /\ Failing(failed) = Failing(cleared) \cup lost
          /\ Quarantined(failed) \subseteq Quarantined(cleared) \cup lost
      BY <3>1, FailKept
    <3> QED BY <3>2 DEF lost
  <2> HIDE DEF failed
  <2> QED BY <1>7, <2>1
<1>9. /\ Sound(c) /\ c.persist = data.persist \ run.good /\ c.index = owned.index
      /\ Failing(c) \subseteq Failing(data) \cup (run.chunk \ run.good)
      /\ Quarantined(c) \subseteq Quarantined(data) \cup (run.chunk \ run.good)
  <2> HIDE DEF failed
  <2>1. CASE outbox BY <1>7, <1>8, <2>1, ClearFailureKept
  <2>2. CASE ~outbox BY <1>7, <1>8, <2>2
  <2> QED BY <2>1, <2>2
<1>10. Save(c) BY <1>1
<1>11. /\ r \in Runs /\ r.stage = run.stage /\ r.db = run.db /\ r.own = run.own /\ r.todo = run.todo
       /\ r.chunk = run.good
  BY <1>4, <1>5 DEF Runs
<1>12. run' = Stage(r, IF run.own = "local_immediate" THEN "indexing"
                       ELSE IF Stuck(run.good) THEN "ending" ELSE Onward(r.todo))
  BY <1>1, <1>11
<1> HIDE DEF failed, c, r
<1>13. Active(c) \subseteq Active(data)
  <2>1. run.good \subseteq data.persist BY <1>4
  <2> QED BY <1>4, <1>6, <1>9, <2>1 DEF Active
<1>14. Cardinality(Active(c)) <= MaxActive /\ Cardinality(Active(c) \cup run.todo) <= MaxActive
  <2> DEFINE room == Active(data) \cup run.todo
  <2>1. room \in SUBSET Names BY <1>3, SoundSets
  <2>2. Cardinality(room) <= MaxActive BY <1>4 DEF TodoKept
  <2>3. run.todo \in SUBSET room /\ Active(c) \subseteq room BY <1>13
  <2> HIDE DEF room
  <2> QED BY <2>1, <2>2, <2>3, ActiveShrinks
<1>15. CheckpointKept(c) BY <1>9, <1>14 DEF CheckpointKept
<1>16. owed' \subseteq c.persist \cup c.index BY <1>2, <1>3, <1>4, <1>6, <1>9
<1>17. TodoKept(r, c)
  <2>1. run.todo \cap Quarantined(c) = {} BY <1>4, <1>9 DEF TodoKept
  <2>2. run.stage = "retry" => run.todo \subseteq c.persist BY <1>4, <1>9 DEF TodoKept
  <2> QED BY <1>4, <1>11, <1>14, <2>1, <2>2 DEF TodoKept
<1>18. r.db /\ r.stage # "index" BY <1>2, <1>4, <1>11 DEF StageKept
<1>19. CASE run.own = "local_immediate"
  <2>1. run' = Stage(r, "indexing") BY <1>12, <1>19
  <2>2. "indexing" \in RunStages BY DEF RunStages
  <2>3. /\ run' \in Runs /\ run'.pc = "indexing" /\ run'.db = r.db /\ run'.stage = r.stage
        /\ run'.todo = r.todo /\ run'.chunk = r.chunk
    BY <1>11, <2>1, <2>2, StageFields
  <2>4. StageKept(run') BY <1>18, <2>3 DEF StageKept
  <2>5. TodoKept(run', c) BY <1>17, <2>3 DEF TodoKept
  <2>6. /\ run.good \cap run.todo = {} /\ run.good \subseteq c.index
        /\ run.good \cap Quarantined(c) = {}
    BY <1>4, <1>6, <1>9, <1>19
  <2>7. ChunkKept(run', c, owed') BY <1>11, <2>3, <2>6 DEF ChunkKept
  <2> QED BY <1>2, <1>10, <1>15, <1>16, <2>3, <2>4, <2>5, <2>7, Saved DEF RunKept
<1>20. CASE run.own # "local_immediate" /\ Stuck(run.good)
  <2>1. run' = [pc |-> "ending"] BY <1>12, <1>20 DEF Stage
  <2> QED BY <1>2, <1>10, <1>15, <1>16, <2>1, Saved
<1>21. CASE run.own # "local_immediate" /\ ~Stuck(run.good)
  <2>1. run' = Stage(r, Onward(r.todo)) BY <1>12, <1>21
  <2>2. RunKept(run', c, owed') BY <1>11, <1>17, <1>18, <2>1, OnwardKept
  <2> QED BY <1>2, <1>10, <1>15, <1>16, <2>2, Saved
<1> QED BY <1>19, <1>20, <1>21

LEMMA AcknowledgeIndexKeeps == CorpusInv /\ AcknowledgeIndex => CorpusInv'
<1> SUFFICES ASSUME CorpusInv, AcknowledgeIndex PROVE CorpusInv' OBVIOUS
<1> DEFINE unindexed == ClearIndex(data, run.good)
           cleared == ClearFailure(unindexed, run.good)
           local == IF run.db THEN cleared ELSE [ClearPersist(cleared, run.good) EXCEPT !.rejected = @ \ run.good]
           pc == IF run.stage # "index" /\ run.db /\ Stuck(run.chunk) THEN "ending" ELSE Onward(run.todo)
<1>1. PICK spent \in SUBSET (run.chunk \ run.good) :
        Save(Fail(local, run.chunk \ run.good, spent)) /\ run' = Stage(run, pc)
  BY DEF AcknowledgeIndex, To
<1> DEFINE c == Fail(local, run.chunk \ run.good, spent)
<1>2. run.pc = "indexed" /\ owed' = owed /\ touched' = {} BY DEF AcknowledgeIndex, Idle
<1>3. /\ RunKept(run, data, owed) /\ Sound(data) /\ owed \subseteq data.persist \cup data.index
      /\ run.todo \subseteq Names
  BY <1>2, RunUnderWay
<1>4. /\ run \in Runs /\ StageKept(run) /\ TodoKept(run, data)
      /\ run.chunk \cap run.todo = {} /\ run.chunk \subseteq data.persist \cup data.index
      /\ run.chunk \cap Quarantined(data) = {} /\ run.good \subseteq run.chunk
      /\ run.good \cap owed = {}
  BY <1>2, <1>3 DEF RunKept, ChunkKept
<1>5. run.good \in SUBSET Names /\ run.chunk \ run.good \in SUBSET Names BY <1>4 DEF Runs
<1>6. /\ Sound(unindexed) /\ unindexed.persist = data.persist /\ unindexed.index = data.index \ run.good
      /\ Failing(unindexed) = Failing(data) /\ Quarantined(unindexed) = Quarantined(data)
  BY <1>3, <1>5, ClearIndexKept
<1> HIDE DEF unindexed
<1>7. /\ Sound(cleared) /\ cleared.persist = data.persist /\ cleared.index = data.index \ run.good
      /\ Failing(cleared) \subseteq Failing(data) /\ Quarantined(cleared) \subseteq Quarantined(data)
  BY <1>6, ClearFailureKept
<1> HIDE DEF cleared
<1>8. /\ Sound(local) /\ local.persist \in {data.persist, data.persist \ run.good}
      /\ local.index = data.index \ run.good
      /\ Failing(local) \subseteq Failing(data) /\ Quarantined(local) \subseteq Quarantined(data)
  <2>1. CASE run.db BY <1>7, <2>1
  <2>2. CASE ~run.db
    <3>1. local = [ClearPersist(cleared, run.good) EXCEPT !.rejected = @ \ run.good] BY <2>2
    <3> HIDE DEF local
    <3> QED BY <1>5, <1>7, <3>1, ClearPersistKept
  <2> QED BY <2>1, <2>2
<1> HIDE DEF local
<1>9. /\ Sound(c) /\ c.persist = local.persist /\ c.index = local.index
      /\ Failing(c) = Failing(local) \cup (run.chunk \ run.good)
      /\ Quarantined(c) \subseteq Quarantined(local) \cup (run.chunk \ run.good)
  <2> DEFINE lost == run.chunk \ run.good
  <2>1. Sound(local) /\ lost \in SUBSET Names /\ c = Fail(local, lost, spent) BY <1>5, <1>8
  <2> HIDE DEF lost, c
  <2>2. /\ Sound(c) /\ c.persist = local.persist /\ c.index = local.index
        /\ Failing(c) = Failing(local) \cup lost
        /\ Quarantined(c) \subseteq Quarantined(local) \cup lost
    BY <2>1, FailKept
  <2> QED BY <2>2 DEF lost
<1>10. Save(c) BY <1>1
<1> HIDE DEF c
<1>11. Active(c) \subseteq Active(data) BY <1>4, <1>8, <1>9 DEF Active
<1>12. Cardinality(Active(c)) <= MaxActive /\ Cardinality(Active(c) \cup run.todo) <= MaxActive
  <2> DEFINE room == Active(data) \cup run.todo
  <2>1. room \in SUBSET Names BY <1>3, SoundSets
  <2>2. Cardinality(room) <= MaxActive BY <1>4 DEF TodoKept
  <2>3. run.todo \in SUBSET room /\ Active(c) \subseteq room BY <1>11
  <2> HIDE DEF room
  <2> QED BY <2>1, <2>2, <2>3, ActiveShrinks
<1>13. CheckpointKept(c) BY <1>9, <1>12 DEF CheckpointKept
<1>14. owed' \subseteq c.persist \cup c.index BY <1>2, <1>3, <1>4, <1>8, <1>9
<1>15. TodoKept(run, c)
  <2>1. run.todo \cap Quarantined(c) = {} BY <1>4, <1>8, <1>9 DEF TodoKept
  <2>2. run.stage = "retry" => run.todo \subseteq c.persist BY <1>4, <1>8, <1>9 DEF TodoKept
  <2> QED BY <1>4, <1>12, <2>1, <2>2 DEF TodoKept
<1>16. run.stage # "cycle" => run.db BY <1>2, <1>4 DEF StageKept
<1>17. CASE pc = "ending"
  <2>1. run' = [pc |-> "ending"] BY <1>1, <1>17 DEF Stage
  <2> QED BY <1>2, <1>10, <1>13, <1>14, <2>1, Saved
<1>18. CASE pc = Onward(run.todo)
  <2>1. run' = Stage(run, Onward(run.todo)) BY <1>1, <1>18
  <2>2. RunKept(run', c, owed') BY <1>4, <1>15, <1>16, <2>1, OnwardKept
  <2> QED BY <1>2, <1>10, <1>13, <1>14, <2>2, Saved
<1> QED BY <1>17, <1>18

LEMMA CycleKeeps == CorpusInv /\ Cycle => CorpusInv'
<1> SUFFICES ASSUME CorpusInv, Cycle PROVE CorpusInv' OBVIOUS
<1>1. run.pc = "cycle" /\ touched' = {} BY DEF Cycle
<1>2. /\ RunKept(run, data, owed) /\ disk.persist = data.persist /\ disk.index = data.index
      /\ Sound(data) /\ Sound(disk) /\ owed \subseteq data.persist \cup data.index
  BY <1>1, RunUnderWay
<1>3. run \in Runs /\ CheckpointKept(data) BY <1>2 DEF RunKept, CorpusInv
<1>4. CASE To("ending") /\ UNCHANGED <<disk, data, owed>>
  <2>1. run' = [pc |-> "ending"] BY <1>4 DEF To, Stage
  <2> QED BY <1>1, <1>2, <1>4, <2>1 DEF CorpusInv, NothingForgotten, EffectsOwned
<1>5. ASSUME NEW cooling, NEW targets \in SUBSET (Names \ (Excluded(data, cooling) \cup IF run.db THEN stored ELSE {})),
             Cardinality(targets) <= MaxActive - Cardinality(Active(data)),
             run' = Stage([run EXCEPT !.stage = "cycle", !.todo = targets, !.cycle = @ + 1, !.gained = FALSE],
                          IF targets = {} THEN "ending" ELSE "accept"),
             IF run.streaming THEN Save(AddPersist(data, targets)) /\ owed' = owed \cup targets
             ELSE UNCHANGED <<disk, data, owed>>
      PROVE  CorpusInv'
  <2> DEFINE r == [run EXCEPT !.stage = "cycle", !.todo = targets, !.cycle = @ + 1, !.gained = FALSE]
             c == AddPersist(data, targets)
  <2>1. targets \in SUBSET Names /\ targets \cap Active(data) = {} BY <1>5 DEF Excluded
  <2>2. r \in Runs /\ r.stage = "cycle" /\ r.todo = targets
    <3>1. run.cycle + 1 \in Nat BY <1>3 DEF Runs
    <3> QED BY <1>3, <2>1, <3>1 DEF Runs
  <2>3. Cardinality(Active(data) \cup targets) <= MaxActive BY <1>2, <1>5, <2>1, SoundSets, Together
  <2>4. targets \cap Quarantined(data) = {} BY <1>2, <2>1, SoundSets DEF Active
  <2>5. /\ Sound(c) /\ c.persist = data.persist \cup targets /\ c.index = data.index
        /\ Failing(c) = Failing(data) /\ Quarantined(c) = Quarantined(data)
    BY <1>2, <2>1, AddPersistKept
  <2>6. run' = Stage(r, IF targets = {} THEN "ending" ELSE "accept") BY <1>5
  <2> HIDE DEF r
  <2>7. ASSUME NEW d, Active(d) \cup targets = Active(data) \cup targets, Quarantined(d) = Quarantined(data)
        PROVE  run' = [pc |-> "ending"] \/ RunKept(run', d, owed')
    <3>1. CASE targets = {} BY <2>6, <3>1 DEF Stage
    <3>2. CASE targets # {}
      <4>1. run' = Stage(r, "accept") BY <2>6, <3>2
      <4>2. "accept" \in RunStages BY DEF RunStages
      <4>3. run' \in Runs /\ run'.pc = "accept" /\ run'.stage = "cycle" /\ run'.todo = targets
        BY <2>2, <4>1, <4>2, StageFields
      <4>4. StageKept(run') /\ ChunkKept(run', d, owed') BY <4>3 DEF StageKept, ChunkKept
      <4>5. TodoKept(run', d) BY <2>3, <2>4, <2>7, <4>3 DEF TodoKept
      <4> QED BY <4>3, <4>4, <4>5 DEF RunKept
    <3> QED BY <3>1, <3>2
  <2>8. CASE run.streaming
    <3>1. Save(c) /\ owed' = owed \cup targets BY <1>5, <2>8
    <3> HIDE DEF c
    <3>2. Active(c) = Active(data) \cup targets BY <2>5 DEF Active
    <3>3. CheckpointKept(c) BY <2>3, <2>5, <3>2 DEF CheckpointKept
    <3>4. run' = [pc |-> "ending"] \/ RunKept(run', c, owed') BY <2>5, <2>7, <3>2
    <3>5. owed' \subseteq c.persist \cup c.index BY <1>2, <2>5, <3>1
    <3> QED BY <1>1, <3>1, <3>3, <3>4, <3>5, Saved
  <2>9. CASE ~run.streaming
    <3>1. UNCHANGED <<disk, data, owed>> BY <1>5, <2>9
    <3>2. run' = [pc |-> "ending"] \/ RunKept(run', data, owed') BY <2>7
    <3> QED BY <1>1, <1>2, <3>1, <3>2 DEF CorpusInv, NothingForgotten, EffectsOwned
  <2> QED BY <2>8, <2>9
<1> QED BY <1>4, <1>5 DEF Cycle

LEMMA AcceptKeeps == CorpusInv /\ Accept => CorpusInv'
<1> SUFFICES ASSUME CorpusInv, Accept PROVE CorpusInv' OBVIOUS
<1>1. PICK chunk \in Chunks :
        /\ Save(AddPersist(data, chunk)) /\ owed' = owed \cup chunk
        /\ run' = [run EXCEPT !.pc = "consume", !.chunk = chunk]
  BY DEF Accept
<1> DEFINE c == AddPersist(data, chunk)
<1>2. run.pc = "accept" /\ touched' = {} BY DEF Accept
<1>3. /\ RunKept(run, data, owed) /\ Sound(data) /\ owed \subseteq data.persist \cup data.index
      /\ run.todo \subseteq Names
  BY <1>2, RunUnderWay
<1>4. run \in Runs /\ run.stage = "cycle" /\ TodoKept(run, data) BY <1>2, <1>3 DEF RunKept, StageKept
<1>5. chunk \subseteq run.todo /\ chunk \in SUBSET Names BY <1>3 DEF Chunks
<1>6. /\ Sound(c) /\ c.persist = data.persist \cup chunk /\ c.index = data.index
      /\ Failing(c) = Failing(data) /\ Quarantined(c) = Quarantined(data)
  BY <1>3, <1>5, AddPersistKept
<1>7. Save(c) BY <1>1
<1> HIDE DEF c
<1>8. /\ run' \in Runs /\ run'.pc = "consume" /\ run'.stage = "cycle" /\ run'.todo = run.todo /\ run'.chunk = chunk
  BY <1>1, <1>4, <1>5 DEF Runs, RunStages
<1>9. Active(c) \subseteq Active(data) \cup run.todo BY <1>5, <1>6 DEF Active
<1>10. Cardinality(Active(c)) <= MaxActive /\ Cardinality(Active(c) \cup run.todo) <= MaxActive
  <2> DEFINE room == Active(data) \cup run.todo
  <2>1. room \in SUBSET Names BY <1>3, SoundSets
  <2>2. Cardinality(room) <= MaxActive BY <1>4 DEF TodoKept
  <2>3. run.todo \in SUBSET room /\ Active(c) \subseteq room BY <1>9
  <2> HIDE DEF room
  <2> QED BY <2>1, <2>2, <2>3, ActiveShrinks
<1>11. CheckpointKept(c) BY <1>6, <1>10 DEF CheckpointKept
<1>12. owed' \subseteq c.persist \cup c.index BY <1>1, <1>3, <1>6
<1>13. run.todo \cap Quarantined(c) = {} /\ chunk \cap Quarantined(c) = {} BY <1>4, <1>5, <1>6 DEF TodoKept
<1>14. StageKept(run') BY <1>8 DEF StageKept
<1>15. TodoKept(run', c) BY <1>8, <1>10, <1>13 DEF TodoKept
<1>16. ChunkKept(run', c, owed') BY <1>5, <1>6, <1>8, <1>13 DEF ChunkKept
<1> QED BY <1>2, <1>7, <1>8, <1>11, <1>12, <1>14, <1>15, <1>16, Saved DEF RunKept

LEMMA CycledKeeps == CorpusInv /\ Cycled => CorpusInv'
<1> SUFFICES ASSUME CorpusInv, Cycled PROVE CorpusInv' OBVIOUS
<1>1. /\ run.pc = "cycled" /\ Save(data) /\ owed' = owed /\ touched' = {}
      /\ run' = Stage(run, IF run.db /\ run.gained THEN "cycle" ELSE "ending")
  BY DEF Cycled, Idle, To
<1>2. RunKept(run, data, owed) /\ owed \subseteq data.persist \cup data.index BY <1>1, RunUnderWay
<1>3. run \in Runs /\ run.stage = "cycle" /\ TodoKept(run, data) BY <1>1, <1>2 DEF RunKept, StageKept
<1>4. CheckpointKept(data) BY DEF CorpusInv
<1>5. CASE run' = Stage(run, "ending") BY <1>1, <1>2, <1>4, <1>5, Saved DEF Stage
<1>6. CASE run' = Stage(run, "cycle")
  <2>1. "cycle" \in RunStages BY DEF RunStages
  <2>2. run' \in Runs /\ run'.pc = "cycle" /\ run'.stage = "cycle" /\ run'.todo = run.todo
    BY <1>3, <1>6, <2>1, StageFields
  <2>3. RunKept(run', data, owed') BY <1>3, <2>2 DEF RunKept, StageKept, TodoKept, ChunkKept
  <2> QED BY <1>1, <1>2, <1>4, <2>3, Saved
<1> QED BY <1>1, <1>5, <1>6

(* An exception, the end of a run and a crash leave the file with what the *)
(* run had saved, or with all it remembered.                               *)
LEMMA StopKeeps == CorpusInv /\ (Raise \/ EndRun \/ Crash) => CorpusInv'
<1> SUFFICES ASSUME CorpusInv, Raise \/ EndRun \/ Crash PROVE CorpusInv' OBVIOUS
<1>1. owed' = owed /\ touched' = {} BY DEF Raise, EndRun, Crash, Idle
<1>2. CASE Raise
  <2>1. run.pc \notin {"off", "ending"} /\ run' = [pc |-> "ending"] /\ UNCHANGED <<disk, data>>
    BY <1>2 DEF Raise, To, Stage
  <2> QED BY <1>1, <2>1, RunUnderWay DEF CorpusInv, NothingForgotten, EffectsOwned
<1>3. CASE EndRun
  <2>1. run.pc = "ending" /\ disk' = data /\ data' = Blank /\ run' = NoRun BY <1>3 DEF EndRun
  <2>2. disk.persist = data.persist /\ disk.index = data.index BY <2>1 DEF CorpusInv, NoRun
  <2> QED BY <1>1, <2>1, <2>2, BlankKept DEF CorpusInv, NothingForgotten, EffectsOwned
<1>4. CASE Crash
  <2>1. disk' = disk /\ data' = Blank /\ run' = NoRun BY <1>4 DEF Crash
  <2> QED BY <1>1, <2>1, BlankKept DEF CorpusInv, NothingForgotten, EffectsOwned
<1> QED BY <1>2, <1>3, <1>4

(* The operator's repair is written only over the file it was made from.   *)
LEMMA OperatorKeeps == CorpusInv /\ (Inspect \/ Repair) => CorpusInv'
<1> SUFFICES ASSUME CorpusInv, Inspect \/ Repair PROVE CorpusInv' OBVIOUS
<1>1. data' = data /\ run' = run /\ owed' = owed /\ touched' = {} BY DEF Inspect, Repair
<1>2. CASE disk' = disk
  BY <1>1, <1>2 DEF CorpusInv, NothingForgotten, EffectsOwned, RunKept, StageKept, TodoKept, ChunkKept
<1>3. CASE disk' = ClearFailure(disk, {operator.name}) /\ run.pc = "off"
  <2>1. Sound(disk) /\ Cardinality(Active(disk)) <= MaxActive BY DEF CorpusInv, CheckpointKept
  <2>2. /\ Sound(disk') /\ disk'.persist = disk.persist /\ disk'.index = disk.index
        /\ Failing(disk') = Failing(disk) \ {operator.name}
    BY <1>3, <2>1, ClearFailureKept
  <2>3. Active(disk') \subseteq Active(disk) BY <2>2 DEF Active
  <2>4. Cardinality(Active(disk')) <= MaxActive BY <2>1, <2>3, SoundSets, Fewer
  <2>5. run = NoRun BY <1>3 DEF CorpusInv, RunKept, Runs, RunStages
  <2> QED BY <1>1, <2>2, <2>4, <2>5 DEF CorpusInv, CheckpointKept, NothingForgotten, EffectsOwned
<1>4. disk' = disk \/ (disk' = ClearFailure(disk, {operator.name}) /\ run.pc = "off")
  <2>1. CASE Inspect BY <2>1 DEF Inspect
  <2>2. CASE Repair BY <2>2 DEF Repair, Unchanged
  <2> QED BY <2>1, <2>2
<1> QED BY <1>2, <1>3, <1>4

LEMMA CorpusSteps == CorpusInv /\ [CorpusNext]_corpusVars => CorpusInv'
<1> SUFFICES ASSUME CorpusInv, [CorpusNext]_corpusVars PROVE CorpusInv' OBVIOUS
<1>1. CASE UNCHANGED corpusVars
  BY <1>1 DEF corpusVars, CorpusInv, CheckpointKept, Sound, Active, Failing, Quarantined, NothingForgotten, EffectsOwned,
              RunKept, StageKept, TodoKept, ChunkKept
<1>2. CASE CorpusNext
  BY <1>2, BeginRunKeeps, ResumeIndexingKeeps, ResumePersistenceKeeps, RetryKeeps, UpsertKeeps, AcknowledgeKeeps,
     IndexKeeps, AcknowledgeIndexKeeps, CycleKeeps, AcceptKeeps, ConsumeKeeps, CycledKeeps, StopKeeps, OperatorKeeps
  DEF CorpusNext
<1> QED BY <1>1, <1>2

LEMMA CorpusStarts == CorpusInit => CorpusInv
BY BlankKept DEF CorpusInit, CorpusInv, NothingForgotten, EffectsOwned

LEMMA WorkFollows == CorpusInv => WorkKept
BY DEF CorpusInv, CheckpointKept, WorkKept, ActiveBounded

(* No accepted repository is forgotten by the file a next run would load,  *)
(* the database and the index are given only owned and never quarantined   *)
(* work, and the unresolved work stays within the capacity, wherever runs  *)
(* raise or crash and whatever an operator repairs in between.             *)
THEOREM WorkTheorem == CorpusSpec => []WorkKept
BY CorpusStarts, CorpusSteps, WorkFollows, PTL DEF CorpusSpec
=============================================================================
