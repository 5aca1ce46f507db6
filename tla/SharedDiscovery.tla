--------------------------- MODULE SharedDiscovery ---------------------------
(***************************************************************************)
(* The discovery pools requests share (SharedDiscoveryCache) and how a     *)
(* retriever uses them (_prepare_discovery, _complete_discovery): a pool   *)
(* is read under a revision of CorpusAuthority, published under it, and    *)
(* used only while the authority still reports that revision.  One request *)
(* refreshes a revision's pool, others wait for it.                        *)
(*                                                                         *)
(* Every call to the authority, to Qdrant or under the cache's lock is a   *)
(* step; the corpus, the writers and the other requests move in between.   *)
(***************************************************************************)
EXTENDS CorpusAuthority

CONSTANTS Requests, NoRequest,
          Channels,       \* number of discovery channels a pool is read from
          MaxEntries, MaxFlights, MaxWaiting

ASSUME DiscoveryAssumption ==
  /\ {Channels, MaxEntries, MaxFlights, MaxWaiting} \subseteq Nat \ {0}
  /\ NoRequest \notin Requests

VARIABLES
  pools,     \* the cached pools
  flights,   \* the refreshes in progress
  waiting,   \* the cache's count of waiters
  future,    \* refresh -> its revision, and the pool it came to
  stale,     \* the refreshes begun longer ago than the TTL
  req        \* request -> its progress

discoveryVars == <<pools, flights, waiting, future, stale, req>>
vars == <<authorityVars, discoveryVars>>

(* A refresh, its flight and its pool are named by their owner, which owns *)
(* no other.  data is the set of collection states the points were read    *)
(* from.                                                                   *)

Fresh == [pc |-> "start", rev |-> 0, src |-> NoRequest, waits |-> FALSE,
          left |-> Channels, good |-> 0, data |-> {}, kept |-> FALSE]

Init ==
  /\ AuthorityInit
  /\ pools = {} /\ flights = {} /\ waiting = 0
  /\ future = [r \in Requests |-> [state |-> "none", rev |-> 0, data |-> {}]]
  /\ stale = {}
  /\ req = [r \in Requests |-> Fresh]

On(r, pc)  == req[r].pc = pc
Set(r, q)  == req' = [req EXCEPT ![r] = q]
Then(r, pc) == Set(r, [req[r] EXCEPT !.pc = pc])
Owns(r)    == req[r].src = r

(* The answer is made, or given up: only the lease is left. *)
Leave(r) == Set(r, [Fresh EXCEPT !.pc = "release", !.src = req[r].src, !.waits = req[r].waits])

(* Is the revision still the one the plan was made under? *)
Same(r) == Readable /\ auth.revision = req[r].rev

----------------------------------------------------------------------------
(* _prepare_discovery: read the revision, then reserve.  Without a         *)
(* revision (the authority may not answer) or a lease the request reads    *)
(* for itself alone, and shares nothing.                                   *)

Ask(r) ==
  /\ On(r, "start")
  /\ \/ Readable /\ Set(r, [req[r] EXCEPT !.rev = auth.revision, !.pc = "reserve"])
     \/ Leave(r)
  /\ UNCHANGED <<pools, flights, waiting, future, stale>>

Unexpired == pools \ stale

Hit(r) ==
  \E o \in Unexpired :
    /\ On(r, "reserve") /\ future[o].rev = req[r].rev
    /\ pools' = Unexpired
    /\ Set(r, [req[r] EXCEPT !.src = o, !.pc = "result"])
    /\ UNCHANGED <<flights, waiting, future, stale>>

Missed(r) ==
  /\ On(r, "reserve")
  /\ \A o \in Unexpired : future[o].rev # req[r].rev
  /\ pools' = Unexpired
  /\ UNCHANGED stale

Join(r) ==
  \E o \in flights :
    /\ Missed(r) /\ future[o].rev = req[r].rev
    /\ waiting < MaxWaiting
    /\ waiting' = waiting + 1
    /\ Set(r, [req[r] EXCEPT !.src = o, !.waits = TRUE, !.pc = "result"])
    /\ UNCHANGED <<flights, future>>

Flown(r) == \E o \in flights : future[o].rev = req[r].rev

Own(r) ==
  /\ Missed(r) /\ ~Flown(r) /\ Cardinality(flights) < MaxFlights
  /\ flights' = flights \cup {r}
  /\ future' = [future EXCEPT ![r].state = "pending", ![r].rev = req[r].rev]
  /\ Set(r, [req[r] EXCEPT !.src = r, !.pc = "collect"])
  /\ UNCHANGED waiting

Bypass(r) ==
  /\ Missed(r)
  /\ IF Flown(r) THEN waiting >= MaxWaiting ELSE Cardinality(flights) >= MaxFlights
  /\ Leave(r)
  /\ UNCHANGED <<flights, waiting, future>>

----------------------------------------------------------------------------
(* SharedDiscoveryCache.publish, fail, release. *)

FailSilently(r) == flights' = flights \ {r} /\ UNCHANGED future

Fail(r) ==
  /\ flights' = flights \ {r}
  /\ future' = IF r \in flights THEN [future EXCEPT ![r].state = "failed"] ELSE future

(* Room for one more: the least recently used pool goes, which one being   *)
(* left open.                                                              *)
Room == IF Cardinality(pools) < MaxEntries THEN {pools} ELSE {pools \ {o} : o \in pools}

Publish(r) ==
  /\ On(r, "publish")
  /\ IF r \in stale THEN UNCHANGED pools ELSE \E others \in Room : pools' = others \cup {r}
  /\ flights' = flights \ {r}
  /\ future' = [future EXCEPT ![r].state = "published", ![r].data = req[r].data]
  /\ Then(r, "result")
  /\ UNCHANGED <<waiting, stale>>

----------------------------------------------------------------------------
(* _complete_discovery of the owner: read every channel of the collection, *)
(* each on its own; a pool is shared only if all of them answered.         *)

Read(r) ==
  /\ On(r, "collect") /\ req[r].left > 0
  /\ \/ Set(r, [req[r] EXCEPT !.left = @ - 1, !.good = @ + 1, !.data = @ \cup {corpus}])
     \/ Set(r, [req[r] EXCEPT !.left = @ - 1])
  /\ UNCHANGED <<pools, flights, waiting, future, stale>>

Collected(r) ==
  /\ On(r, "collect") /\ req[r].left = 0
  /\ \/ req[r].good = Channels /\ Then(r, "recheck") /\ UNCHANGED <<flights, future>>
     \/ req[r].good > 0 /\ Fail(r) /\ Then(r, "doubt")    \* partial, or not encodable
     \/ req[r].good < Channels /\ Fail(r) /\ Leave(r) \* partial is enough, or none
  /\ UNCHANGED <<pools, waiting, stale>>

(* The pool of a hit or of another's refresh, or one's own just published. *)
Result(r) ==
  LET o == req[r].src IN
  /\ On(r, "result") /\ future[o].state # "pending"
  /\ IF future[o].state = "published" /\ o \notin stale
     THEN IF Owns(r) THEN Then(r, "serve")
          ELSE Set(r, [req[r] EXCEPT !.data = future[o].data, !.pc = "recheck"])
     ELSE IF Owns(r) THEN Then(r, "doubt") ELSE Leave(r)
  /\ UNCHANGED <<pools, flights, waiting, future, stale>>

(* A refresh or a hit cannot cross a transition of the collection. *)
RecheckTrusting(r) ==
  /\ On(r, "recheck")
  /\ Set(r, [req[r] EXCEPT !.kept = TRUE, !.pc = IF Owns(r) THEN "publish" ELSE "serve"])
  /\ UNCHANGED <<flights, future, pools, waiting, stale>>

Recheck(r) ==
  /\ On(r, "recheck")
  /\ \/ /\ Same(r)
        /\ Set(r, [req[r] EXCEPT !.kept = TRUE, !.pc = IF Owns(r) THEN "publish" ELSE "serve"])
        /\ UNCHANGED <<flights, future>>
     \/ IF Owns(r) THEN Fail(r) /\ Then(r, "doubt")
        ELSE /\ Leave(r)
             /\ UNCHANGED <<flights, future>>
  /\ UNCHANGED <<pools, waiting, stale>>

(* Enough candidates, or more are read for this request alone (so does a   *)
(* request left without a pool, which then holds nothing shared).          *)
Serve(r) ==
  /\ On(r, "serve")
  /\ \/ Leave(r)
     \/ Set(r, [req[r] EXCEPT !.kept = FALSE, !.pc = "refill"])
  /\ UNCHANGED <<pools, flights, waiting, future, stale>>

(* _checked_discovery_pool_current: the owner's own points outlive its     *)
(* failed refresh only under the same revision and within the TTL.         *)
Doubt(r) ==
  /\ On(r, "doubt")
  /\ \/ Same(r) /\ r \notin stale /\ Set(r, [req[r] EXCEPT !.kept = FALSE, !.pc = "refill"])
     \/ Leave(r)
  /\ UNCHANGED <<pools, flights, waiting, future, stale>>

(* Refilled, or not: a pool held over the refill is checked again. *)
Final(r) ==
  /\ On(r, "refill")
  /\ \/ Same(r) /\ req[r].src \notin stale
        /\ Set(r, [req[r] EXCEPT !.kept = TRUE, !.pc = "release"])
     \/ Leave(r)
  /\ UNCHANGED <<pools, flights, waiting, future, stale>>

(* The deadline of a request with a lease passes at a wait or a call; its  *)
(* reads are drained before the lease is released.                         *)
Deadline(r) ==
  /\ req[r].src # NoRequest /\ req[r].pc \notin {"publish", "serve", "release"}
  /\ Leave(r)
  /\ UNCHANGED <<pools, flights, waiting, future, stale>>

ReleaseForgets(r) ==
  /\ On(r, "release")
  /\ Fail(r)
  /\ Set(r, [Fresh EXCEPT !.pc = "done"])
  /\ UNCHANGED <<pools, waiting, stale>>

(* _release_discovery, in the finally block. *)
Release(r) ==
  /\ On(r, "release")
  /\ Fail(r)
  /\ waiting' = IF req[r].waits THEN waiting - 1 ELSE waiting
  /\ Set(r, [Fresh EXCEPT !.pc = "done"])
  /\ UNCHANGED <<pools, stale>>

(* The TTL of a refresh passes while somebody may still use it. *)
Used(r) == r \in pools \/ \E q \in Requests : req[q].src = r

Age(r) ==
  /\ Used(r) /\ r \notin stale
  /\ stale' = stale \cup {r}
  /\ UNCHANGED <<pools, flights, waiting, future, req>>

----------------------------------------------------------------------------
Progress(r) ==
  \/ Ask(r) \/ Hit(r) \/ Join(r) \/ Own(r) \/ Bypass(r)
  \/ Read(r) \/ Collected(r) \/ Result(r) \/ Recheck(r) \/ Publish(r)
  \/ Serve(r) \/ Doubt(r) \/ Final(r) \/ Release(r)

DiscoveryNext == \E r \in Requests : Progress(r) \/ Deadline(r) \/ Age(r)

Next ==
  \/ AuthorityNext /\ UNCHANGED discoveryVars
  \/ DiscoveryNext /\ UNCHANGED authorityVars

Spec == Init /\ [][Next]_vars

(* A request's worker runs, and its reads return. *)
FairSpec == Spec /\ \A r \in Requests : WF_vars(Progress(r) /\ UNCHANGED authorityVars)

----------------------------------------------------------------------------
(* Properties. *)

PCs == {"start", "reserve", "collect", "result", "recheck", "publish", "serve",
        "doubt", "refill", "release", "done"}
States == {"none", "pending", "failed", "published"}

(* Types, and the cache's bounds on pools, refreshes and waiters. *)
TypeOK ==
  /\ AuthorityTypeOK
  /\ pools \subseteq Requests /\ Cardinality(pools) <= MaxEntries
  /\ flights \subseteq Requests /\ Cardinality(flights) <= MaxFlights
  /\ waiting \in 0..MaxWaiting
  /\ future \in [Requests -> [state : States, rev : Nat, data : SUBSET Nat]]
  /\ stale \subseteq Requests
  /\ req \in [Requests ->
       [pc : PCs, rev : Nat, src : Requests \cup {NoRequest}, waits : BOOLEAN,
        left : 0..Channels, good : 0..Channels, data : SUBSET Nat, kept : BOOLEAN]]

(* A pool published under the revision the authority reports holds the     *)
(* collection as it is now, whole: never points from before a write,       *)
(* never from two states of it.                                            *)
PoolsCurrent ==
  \A o \in pools :
    Readable /\ auth.revision = future[o].rev => future[o].data = {corpus}

(* "A refresh or a hit cannot cross a corpus/eligibility transition"       *)
(* (retrieval/v2_retriever.py:1380): whenever a request accepts a shared   *)
(* or a held-over pool, every point in it is from the collection as it is  *)
(* at that moment.                                                         *)
AcceptedCurrent ==
  [][\A r \in Requests :
       ~req[r].kept /\ req'[r].kept => req[r].data = {corpus}]_vars

(* The cache leaks nothing: it counts exactly the requests that hold a     *)
(* waiting lease, each revision is refreshed by one request at a time, and *)
(* a refresh in progress has an owner that will still end it.              *)
NothingLeaks ==
  /\ waiting = Cardinality({r \in Requests : req[r].waits})
  /\ \A o, p \in flights : future[o].rev = future[p].rev => o = p
  /\ \A o \in flights : Owns(o) /\ ~On(o, "done")
  /\ \A r \in Requests : future[r].state = "pending" <=> r \in flights

(* Every request ends: nobody waits for a refresh that was given up, and   *)
(* no deadline is needed for it.                                           *)
Answered == <>(\A r \in Requests : On(r, "done"))
=============================================================================
